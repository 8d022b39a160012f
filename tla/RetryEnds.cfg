\* RetryTransport, two retries, polling with and without a limit, more jobs than attempts.
CONSTANTS
  Job = {x, y, z, w}
  NoJob = NoJob
  MaxRetries = 2
  Limits = {0, 2}
  TransportRetries = 1
SPECIFICATION FairSpec
INVARIANTS ResultIsOwn JobsBounded GivesUpLast
PROPERTIES EndsUnlessJobRuns
CHECK_DEADLOCK FALSE

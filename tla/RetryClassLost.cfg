\* RetryTransport.
CONSTANTS
  Job = {x, y}
  NoJob = NoJob
  MaxRetries = 1
  Limits = {0}
  TransportRetries = 1
SPECIFICATION Spec
INVARIANTS ResponseIsClassified
CHECK_DEADLOCK FALSE

\* Two processes, one with two goroutines; files may fail, processes may die.
CONSTANTS
  Task = {a}
  Absent = Absent
  p1 = p1
  p2 = p2
  t1 = t1
  t2 = t2
  t3 = t3
  Thread = {t1, t2, t3}
  Proc = {p1, p2}
  ProcOf <- Placement3
  SaveSt = {"pending", "completed"}
  Ages = {0}
  FileLocks = TRUE
  NoThread = NoThread
  NoFile = NoFile
  Torn = Torn
  MaxNow = 1
  MaxCalls = 2
SPECIFICATION FairSpec
INVARIANTS TypeOK InProcessExclusion CopyIsFresh NeverTorn
PROPERTIES ImplementsAtomic PendingOnlyEndedByItsCallers CallsReturn
CHECK_DEADLOCK FALSE

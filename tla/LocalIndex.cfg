\* Two goroutines, two files, one restart, two calls besides IndexFile.
CONSTANTS
  Path = {1, 2}
  t1 = t1
  t2 = t2
  Thread = {t1, t2}
  NoFile = NoFile
  Emptied = Emptied
  Torn = Torn
  NoHalf = NoHalf
  NoSweep = NoSweep
  MaxVersion <- FirstChanges
  MaxCalls = 2
  MaxCrashes = 1
SYMMETRY Renamings
SPECIFICATION Spec
INVARIANTS OneEntryPerPath SkippedIsCurrent
CHECK_DEADLOCK FALSE

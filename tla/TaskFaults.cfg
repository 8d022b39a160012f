\* One process, every kind of engine: crashes, failed saves, interruptions, removals.
CONSTANTS
  Task = {a, b}
  Job = {x, y}
  a = a
  b = b
  x = x
  y = y
  p1 = p1
  p2 = p2
  t1 = t1
  t2 = t2
  flux = flux
  gptimage = gptimage
  asr = asr
  wan = wan
  Absent = Absent
  Thread = {t1, t2}
  Proc = {p1}
  ProcOf <- OneProcess
  Engine = {flux, gptimage, asr, wan}
  Answer <- Answers
  Resumers = {flux, asr, wan}
  Faults = {"crash", "save", "interrupt"}
  Removals = {"delete", "purge", "unregister"}
  NoJob = NoJob
  NoEngine = NoEngine
  NoTask = NoTask
  NoValue = NoValue
  MaxFaults = 2
SYMMETRY Renamings
SPECIFICATION Spec
INVARIANTS CompletedHoldsResult FailedHasCause NoJobForgotten OneRecordPerJob
PROPERTIES SettledUnlessCut
CHECK_DEADLOCK FALSE

\* A Resume is interrupted, and nothing else goes wrong.
CONSTANTS
  Task = {a, b}
  Job = {x, y}
  a = a
  b = b
  x = x
  y = y
  p1 = p1
  p2 = p2
  t1 = t1
  t2 = t2
  flux = flux
  gptimage = gptimage
  asr = asr
  wan = wan
  Absent = Absent
  Thread = {t1, t2}
  Proc = {p1}
  ProcOf <- OneProcess
  Engine = {flux}
  Answer <- Answers
  Resumers = {flux}
  Faults = {"interrupt"}
  Removals = {}
  NoJob = NoJob
  NoEngine = NoEngine
  NoTask = NoTask
  NoValue = NoValue
  MaxFaults = 1
SPECIFICATION Spec
INVARIANTS RunningCanResume
CHECK_DEADLOCK FALSE

\* Two processes: crashes and failed saves, a bounded number of times.
CONSTANTS
  Task = {a, b}
  Job = {x, y}
  a = a
  b = b
  x = x
  y = y
  p1 = p1
  p2 = p2
  t1 = t1
  t2 = t2
  flux = flux
  gptimage = gptimage
  asr = asr
  wan = wan
  Absent = Absent
  Thread = {t1, t2}
  Proc = {p1, p2}
  ProcOf <- Placement
  Engine = {flux}
  Answer <- Answers
  Resumers = {flux}
  Faults = {"crash", "save"}
  Removals = {}
  NoJob = NoJob
  NoEngine = NoEngine
  NoTask = NoTask
  NoValue = NoValue
  MaxFaults = 2
SPECIFICATION FairSpec
INVARIANTS TypeOK
PROPERTIES PendingSettles
CHECK_DEADLOCK FALSE

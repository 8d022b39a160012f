\* Three goroutines and three graphs in a cache for two.
CONSTANTS
  a = a
  b = b
  c = c
  t1 = t1
  t2 = t2
  t3 = t3
  Graph = {a, b, c}
  Thread = {t1, t2, t3}
  TTL = 2
  MaxSize = 2
  None = None
  MaxNow = 3
  MaxCalls = 6
SYMMETRY Renamings
SPECIFICATION Spec
INVARIANTS SizeBound EveryEntryInOrder OrderIsBounded
PROPERTIES OnlyFullCacheEvicts
CHECK_DEADLOCK FALSE

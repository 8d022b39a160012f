\* Three goroutines share the limiter, every sleep ends.
CONSTANTS
  Thread = {t1, t2, t3}
  Max = 3
  Minute = 7
  Awake = Awake
SPECIFICATION FairSpec
INVARIANTS TypeOK OldestFirst
PROPERTIES SleepEnds

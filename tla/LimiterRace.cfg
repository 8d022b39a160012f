\* Two goroutines share the limiter.
CONSTANTS
  Thread = {t1, t2}
  Max = 2
  Minute = 5
  Awake = Awake
SPECIFICATION Spec
INVARIANTS AtMostMaxPerMinute

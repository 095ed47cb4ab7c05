\* A wheel of three buckets of two ticks; timers shorter and longer than its span.
CONSTANTS
  t1 = t1  t2 = t2  e1 = e1  e2 = e2  s1 = s1  s2 = s2
  Timers <- MCTimers
  Defers <- MCDefers
  Sockets <- MCSockets
  Interests <- MCInterests
  Durations <- MCDurations
  StartTimes <- MCStartTimes
  Nobody = Nobody
  RESOLUTION = 2
  N_BUCKETS = 3
  MaxTime = 11
  MaxOps = 3
SPECIFICATION Spec
CHECK_DEADLOCK FALSE
INVARIANTS
  NothingLost NeverSleepsOverWork ReadyIsCurrent
PROPERTY
  TimerNeverEarly

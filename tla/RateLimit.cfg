CONSTANTS
  Keys = {k1, k2}
  Token = 3
  Burst = 2
  Rate = 2
  IdleTTL = 3
  Interval = 2
  MaxTime = 6
  Absent = Absent
SPECIFICATION Spec
INVARIANT RateHolds
INVARIANT IdleIsEvicted
PROPERTY RetryIsServed
PROPERTY NeverEvicted

CONSTANTS
  Calls = {c1, c2}
  Minute = 2
  PerMinute = 1
  Day = 3
  PerDay = 2
  MaxTime = 4
  MaxLost = 1
  Address = {a1}
  Hour = 3
  IpMinute = 2
  IpHour = 3
  MaxRestarts = 1
SPECIFICATION AdmissionSpec
INVARIANTS Overshoot AddressCap
SYMMETRY Symmetry
CHECK_DEADLOCK FALSE

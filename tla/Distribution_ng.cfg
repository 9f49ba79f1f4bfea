\* Four samples in requests of up to two, one failed transaction or restart.
SPECIFICATION Spec
CONSTANTS
  NTanks = 2
  PlanHours = 2
  BatchMax = 2
  MaxTime = 4
  MaxFaults = 1
INVARIANT NgBookedOnce
CHECK_DEADLOCK FALSE

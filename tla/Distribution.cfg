\* Four samples in requests of up to two, two failures of handlers, transactions
\* and the process.
SPECIFICATION Spec
CONSTANTS
  NTanks = 2
  PlanHours = 2
  BatchMax = 2
  MaxTime = 4
  MaxFaults = 2
INVARIANTS TypeOK BatchesTile RunsTile SalinityInBatch ParentsKept RunFollows CountsExact
CHECK_DEADLOCK FALSE

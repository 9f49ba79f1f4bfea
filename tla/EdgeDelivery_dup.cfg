CONSTANTS
  MaxSeq = 1
  BatchMax = 1
  MaxItems = 1
  MaxFaults = 1
SPECIFICATION Spec
INVARIANT StoredOnce
CHECK_DEADLOCK FALSE

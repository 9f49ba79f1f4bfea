\* One device on the bus, read in two groups, and an update counter of two bits.
SPECIFICATION Spec
CONSTANTS
  NEquip = 1
  NGroups = 2
  Values = {1, 2}
  Retries = 1
  NRanges = 2
  RangeOf <- MCRangeOf
  CounterMod = 4
  DownAfter = 2
  MaxPolls = 5
  MaxFails = 2
  MaxFaults = 1
INVARIANTS BlockWhole StatusTruthful SampledOnce
PROPERTY SuccessNoticed

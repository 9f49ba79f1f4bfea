\* One key of each kind, hold times of 2 and 1, three alarm ids.
CONSTANTS
  CondKeys = {salt}
  EventKeys = {metal}
  CommKeys = {link}
  CondHold = 2
  CommHold = 1
  MaxTime = 3
  MaxAid = 3
  None = None
SPECIFICATION Spec
INVARIANTS TypeOK ActiveIsOpen RaisedAtHold NormalMeansClear
PROPERTIES RestartKeepsActive NotBeforeHold

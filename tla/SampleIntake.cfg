SPECIFICATION IntakeSpec
CONSTANTS
  Keys = {"temp", "humid"}
  MaxReading = 5
  RangeMin = 1
  RangeMax = 5
  MaxStep = 1
  Confirm = 3
  MaxNg = 2
  MaxRestarts = 1
INVARIANTS NotSilenced NgUrgent

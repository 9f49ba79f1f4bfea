SPECIFICATION Spec
CONSTANTS
    Period = 2
    ReadPeriod = 1
    MaxLate = 3
    HbLimit = 6
    StaleLimit = 8
    DownAfter = 3
    Hold = 6
    Grace = 3
    Settle = 20
    Breakable = {"MASTER", "SLAVE", "DEV", "MASTER-SLAVE", "EDGE-MES"}
    MaxStop = 1
    Restarts = {1, 2}
    MaxEvents = 2
INVARIANTS
    RightCulprit
    AlarmsFollow
    OneCollector

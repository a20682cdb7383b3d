SPECIFICATION TelemetrySpec
CONSTANTS
    Levels = {0, 3}
    Threshold = 2
    QueueCap = 1
    MaxReports = 3
    MaxFails = 1
CHECK_DEADLOCK FALSE
INVARIANTS TelemetryInv
PROPERTIES AlarmShedAmongAlarms ReportsSettle

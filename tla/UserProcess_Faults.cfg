SPECIFICATION Spec
CONSTANTS
  Mains = {0, 3, 4, 6}
  LOW_VOLTAGE_ON = 3
  LOW_VOLTAGE_OFF = 4
  HIGH_VOLTAGE_OFF = 5
  HIGH_VOLTAGE_ON = 6
  PowerLost = 1
  PowerBack = 2
  LowLimit = 0
  TimerLimit = 2
  FanStartLimit = 0
  MasterLimit = 3
  PidPeriod = 1
  CALIB_COUNT = 1
  Clogging = {TRUE, FALSE}
  Deviation = {"none", "much"}
  WorkModes = {0, 1, 2}
  Controls = {"din", "modbus"}
  Points = {0}
  Settings = {1}
  MaxRequests = 2
INVARIANTS TypeOK
PROPERTIES OffWhenItMust RecordedOnce
CHECK_DEADLOCK FALSE

SPECIFICATION FairSpec
CONSTANTS
  Mains = {4, 6}
  LOW_VOLTAGE_ON = 3
  LOW_VOLTAGE_OFF = 4
  HIGH_VOLTAGE_OFF = 5
  HIGH_VOLTAGE_ON = 6
  PowerLost = 1
  PowerBack = 2
  LowLimit = 0
  TimerLimit = 2
  FanStartLimit = 0
  MasterLimit = 3
  PidPeriod = 2
  CALIB_COUNT = 2
  Clogging = {FALSE}
  Deviation = {"none"}
  WorkModes = {0, 2}
  Controls = {"din", "modbus"}
  Points = {0}
  Settings = {1}
  MaxRequests = 2
INVARIANTS OrderHolds
PROPERTIES CalibrationEnds
CHECK_DEADLOCK FALSE

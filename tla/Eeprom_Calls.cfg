SPECIFICATION Spec
CONSTANTS
  SECTOR_SIZE = 2
  EEPROM_SIZE = 4
  RECORD_SIZE = 2
  RecordAt = 1
  RegisterAt = 0
  MaxCalls = 2
INVARIANTS TypeOK StoresInBuffer OnlyBusyFails NothingStray
PROPERTIES OkMeansDone
CHECK_DEADLOCK FALSE

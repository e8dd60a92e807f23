SPECIFICATION Spec
CONSTANTS
  RECORD_DATA_SIZE = 3
  Straddling = {0}
  MaxRecords = 4
  MaxChanges = 2
  MaxFaults = 2
INVARIANTS TypeOK ShownIsJournal RamMatchesRom PairsWhole InitComplete
PROPERTIES Implements
CHECK_DEADLOCK FALSE

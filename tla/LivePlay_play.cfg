SPECIFICATION Spec
CONSTANTS
 Modes <- AllModes
 MaxEvents = 2
 Quits = {"party"}
 Misses = {"merged"}
 StuckLimit = 2
 Pixels = 6
INVARIANTS TurnPartition HpRecordsTrue SwitchAsDecided StateAgrees OutcomeTrue
PROPERTIES MenuAnswered StuckDetected
CHECK_DEADLOCK FALSE

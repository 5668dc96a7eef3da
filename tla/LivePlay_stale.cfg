SPECIFICATION Spec
CONSTANTS
 Modes <- PlayModes
 MaxEvents = 3
 Quits = {"text"}
 Misses = {}
 StuckLimit = 2
 Pixels = 6
INVARIANTS HpRecordsTrue
CHECK_DEADLOCK FALSE

SPECIFICATION Spec
CONSTANTS
    Records = {r1, r2}
    MaxRecs = 4
INVARIANTS ReadersFindRecords
PROPERTY RefinesRecordStore
CHECK_DEADLOCK FALSE

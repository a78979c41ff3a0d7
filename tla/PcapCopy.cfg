SPECIFICATION Spec
CONSTANTS
    Copies = {"c1", "c2"}
    Plans <- CopyPlans
    MaxStamp = 2
    MaxBytes = 10
    ChunkSize = 2
    MaxRuns = 2
    MaxCrashes = 1
INVARIANTS StageGone
PROPERTIES Published OwnFilesOnly
CHECK_DEADLOCK FALSE

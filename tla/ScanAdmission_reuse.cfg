\* Two executions of one prepared statement; liveness under the workers' fairness.
CONSTANTS
    Queries <- PreparedTwice
    FileCount <- TwoFiles
    Threads = {t1, t2}
    WORKER_BYTES = 2
    Limits = {2}
    MaxMemory = 8
    MayRefuse = TRUE
    MaxCopies = 0
    None = None
SPECIFICATION FairSpec
INVARIANTS NoStarvation
PROPERTIES AllFilesDrained AllReleased

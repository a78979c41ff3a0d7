\* Two scans of two files each share a budget of two slots (5 bytes of 2-byte slots).
CONSTANTS
    Queries <- OneStatement
    FileCount <- TwoFilesEach
    Threads = {t1, t2}
    WORKER_BYTES = 2
    Limits = {3, 5, 8}
    MaxMemory = 16
    MayRefuse = TRUE
    MaxCopies = 1
    None = None
SPECIFICATION Spec
INVARIANTS BudgetExact BuffersCovered NoStarvation FilesOnce FinishedExact
SYMMETRY ThreadSymmetry

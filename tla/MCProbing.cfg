SPECIFICATION Spec
CONSTANTS
    Parts = {"stage", "trace", "download", "workflow", "clean"}
    None = None
    a = a
    b = b
    c = c
    Global = Global
    Declared = Declared
    N = 3
    Routines = 2
    MaxAttempts = 2
    Threshold = 2
    SuccessLimit = 1
    MaxPauses = 1
    Colos = {SJC, LAX}
    Concurrency = 2
    MaxTotal = 3
    Timeout = 2
    Warmup = 1
    Bits = 2
    Delays = {d1}
    Tasks = {t1, t2}
    MaxRuns = 3
INVARIANTS
      DownloadSafe  CleanerSafe
CHECK_DEADLOCK FALSE

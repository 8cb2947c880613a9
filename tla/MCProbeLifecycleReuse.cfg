\* Two asynchronous runs, the second with the id of the first.
SPECIFICATION Spec
CONSTANTS
    a = a
    b = b
    r1 = r1
    r2 = r2
    NoTask = none
    Tasks = {a}
    Runs = {r1, r2}
    NoRun = nobody
    SyncRuns = {}
    TaskOf <- SharedTask
    MaxSafePoints = 1
INVARIANT CancelledOnlyByUser
CHECK_DEADLOCK FALSE

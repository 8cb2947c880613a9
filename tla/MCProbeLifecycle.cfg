\* An asynchronous and a synchronous run, with their own task ids.
SPECIFICATION Spec
CONSTANTS
    a = a
    b = b
    r1 = r1
    r2 = r2
    NoTask = none
    Tasks = {a, b}
    Runs = {r1, r2}
    NoRun = nobody
    SyncRuns = {r2}
    TaskOf <- OwnTask
    MaxSafePoints = 2
INVARIANT TypeOK
INVARIANT RunHoldsSlot
INVARIANT OneInsideExecute
INVARIANT ExactlyOneEnd
PROPERTY ImplementsContract
PROPERTY RunsEnd
CHECK_DEADLOCK FALSE

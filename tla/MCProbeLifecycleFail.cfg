\* What the documents say of a cancelled run: it does not end as failed.
SPECIFICATION Spec
CONSTANTS
    a = a
    b = b
    r1 = r1
    r2 = r2
    NoTask = none
    Tasks = {a, b}
    Runs = {r1, r2}
    NoRun = nobody
    SyncRuns = {r2}
    TaskOf <- OwnTask
    MaxSafePoints = 1
PROPERTY CancelledRunNeverFails
CHECK_DEADLOCK FALSE

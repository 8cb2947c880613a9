\* What the documents say of a cancel: it ends in a terminal event.
SPECIFICATION Spec
CONSTANTS
    a = a
    b = b
    r1 = r1
    r2 = r2
    NoTask = none
    Tasks = {a, b}
    Runs = {r1, r2}
    NoRun = nobody
    SyncRuns = {r2}
    TaskOf <- OwnTask
    MaxSafePoints = 1
PROPERTY CancelLeadsToEnd
CHECK_DEADLOCK FALSE

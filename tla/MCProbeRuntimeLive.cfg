\* Liveness, so no symmetry: one worker among two users of the runtime.
SPECIFICATION Spec
CONSTANTS
    Tasks = {a}
    NoTask = none
    Callers = {c1, c2}
    Workers = {w1}
    MaxRuns = 2
    MaxSeq = 2
PROPERTY WaitersReturn
PROPERTY RequestsAbort
CHECK_DEADLOCK FALSE

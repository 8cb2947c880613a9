\* Two users of the runtime, two workers, two runs that may share a task id.
SPECIFICATION Spec
CONSTANTS
    Tasks = {a, b}
    NoTask = none
    Callers = {c1, c2}
    Workers = {w1, w2}
    MaxRuns = 2
    MaxSeq = 2
SYMMETRY Symmetry
INVARIANT TypeOK
INVARIANT NoLostWakeup
INVARIANT EveryRequestInterrupted
INVARIANT ContextEndsOnlyWhenCancelled
INVARIANT CommitExcludesControl
PROPERTY CancelSticks
CHECK_DEADLOCK FALSE

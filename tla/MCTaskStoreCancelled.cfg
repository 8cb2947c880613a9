\* The documented end state of a cancelled task, with no reader in the way.
SPECIFICATION Spec
CONSTANTS
    Runner = runner
    User = user
    Readers = {}
    Sources = {s1}
    MaxInputs = 2
PROPERTY CancelledSnapshotSticks
CHECK_DEADLOCK FALSE

SPECIFICATION Spec
CONSTANTS
    Parts = {"stage", "prepare", "pair", "single", "top", "notify", "schedule", "update"}
    None = None
    w1 = w1
    w2 = w2
    n1 = n1
    n2 = n2
    n3 = n3
    n4 = n4
    n5 = n5
    s1 = s1
    NoConfig = NoConfig
    BadConfig = BadConfig
    NoLoop = NoLoop
    Command = Command
    Nothing = Nothing
INVARIANTS
    BestSafe
PROPERTIES
    Implements EverythingEnds
CHECK_DEADLOCK FALSE

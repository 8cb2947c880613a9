\* The runner, a source, a reader and the user, with three inputs in any mix:
\* a pause, its resume and a load; two progress events and a cancel; and so on.
SPECIFICATION Spec
CONSTANTS
    Runner = runner
    User = user
    Readers = {g1}
    Sources = {s1}
    MaxInputs = 3
INVARIANT TypeOK
INVARIANT EndIsReadable
PROPERTY RestartRecovers
CHECK_DEADLOCK FALSE

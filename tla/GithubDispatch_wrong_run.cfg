\* Two builds at once.
SPECIFICATION Spec
CONSTANTS
    A = A
    B = B
    Builds = {A, B}
    Attempts = 2
    MaxOthers = 0
    RunsFail = FALSE
    Sigterms = FALSE
INVARIANTS
    AdoptsOwnRun
\* The command ends.
CHECK_DEADLOCK FALSE

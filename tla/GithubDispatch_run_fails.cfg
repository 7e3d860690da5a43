\* Runs may fail.
SPECIFICATION Spec
CONSTANTS
    A = A
    B = B
    Builds = {A}
    Attempts = 3
    MaxOthers = 0
    RunsFail = TRUE
    Sigterms = FALSE
INVARIANTS
    TrueMeansPushed
\* The command ends.
CHECK_DEADLOCK FALSE

\* One build with its three attempts, in a repository somebody else uses too.
SPECIFICATION FairSpec
CONSTANTS
    A = A
    B = B
    Builds = {A}
    Attempts = 3
    MaxOthers = 2
    RunsFail = TRUE
    Sigterms = TRUE
INVARIANTS
    TypeOK
    
    TrueMeansEnded
PROPERTIES
    OutputReturns
    OutputKept
\* The command ends.
CHECK_DEADLOCK FALSE

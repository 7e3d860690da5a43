\* The branch moves from one commit to the other and back.
SPECIFICATION Spec
CONSTANTS
    A = A
    B = B
    Branches = {"main"}
    Tags = {}
    Commits = {A, B}
    MaxTemplate = 1
    MaxTicks = 3
    Deletable = FALSE
    ResourcesMayGo = FALSE
SYMMETRY Symmetry
INVARIANTS
    JobsInv
    StaleJobsStopped

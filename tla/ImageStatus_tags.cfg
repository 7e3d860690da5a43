\* A branch and the latest tag meet at a commit.
SPECIFICATION Spec
CONSTANTS
    A = A
    B = B
    C = C
    Branches = {"main"}
    Tags = {"latest/hash"}
    Commits = {A, B}
    History <- HistoryShared
    Detectors = {d1}
    CheckPods = {c1}
    UploadPods = {}
SYMMETRY Symmetry
INVARIANTS
    TypeOK
    KeysUnique
    CheckedIsBacked
    BranchFileFaithful
    TagFileFaithful
PROPERTIES
    Serializable

\* Two branches that share a commit; one process of each kind.
SPECIFICATION Spec
CONSTANTS
    A = A
    B = B
    C = C
    Branches = {"main", "dev"}
    Tags = {}
    Commits = {A, B}
    History <- HistoryMainMoves
    Detectors = {d1}
    CheckPods = {c1}
    UploadPods = {u1}
INVARIANTS
    KeysUnique
    CheckedIsBacked
    StaleBuildsCanceled
PROPERTIES
    NoLostCondition
    ResolvedMovesByDetect
    NoCheckRepeated

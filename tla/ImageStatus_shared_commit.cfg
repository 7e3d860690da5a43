\* A commit canceled for one branch is still the head of another.
SPECIFICATION Spec
CONSTANTS
    A = A
    B = B
    C = C
    Branches = {"main", "dev"}
    Tags = {}
    Commits = {A, B}
    History <- HistoryShared
    Detectors = {d1}
    CheckPods = {c1}
    UploadPods = {u1}
INVARIANTS
    CheckedIsServed

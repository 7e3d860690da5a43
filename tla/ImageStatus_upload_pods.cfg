\* One branch; two upload jobs run at once.
SPECIFICATION Spec
CONSTANTS
    A = A
    B = B
    C = C
    Branches = {"main"}
    Tags = {}
    Commits = {A, B}
    History <- HistoryShared
    Detectors = {d1}
    CheckPods = {c1}
    UploadPods = {u1, u2}
SYMMETRY Symmetry
INVARIANTS
    IInv
    UploadedIsPushed
    CheckedIsServed
PROPERTIES
    Serializable

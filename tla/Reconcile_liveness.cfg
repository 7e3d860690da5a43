\* One commit; the template is edited once, and it or a secret may go.
SPECIFICATION FairSpec
CONSTANTS
    A = A
    B = B
    Branches = {"main"}
    Tags = {}
    Commits = {A}
    MaxTemplate = 2
    MaxTicks = 1
    Deletable = FALSE
    ResourcesMayGo = TRUE
INVARIANTS
    TypeOK
PROPERTIES
    ImageFollowed
    ChecksAnswered
    BuildsTried

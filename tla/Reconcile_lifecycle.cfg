\* One commit; the Image is created and deleted any number of times.
SPECIFICATION FairSpec
CONSTANTS
    A = A
    B = B
    Branches = {"main"}
    Tags = {}
    Commits = {A}
    MaxTemplate = 1
    MaxTicks = 1
    Deletable = TRUE
    ResourcesMayGo = FALSE
INVARIANTS
    DeploymentOwned
PROPERTIES
    DeletionCompletes
    ImageFollowed
    ChecksAnswered
    BuildsTried
    LeftoversCollected

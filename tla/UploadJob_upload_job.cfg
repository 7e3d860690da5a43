\* Three conditions of two commits; the runs of one of them hang.
SPECIFICATION FairSpec
CONSTANTS
    A = A
    B = B
    Builds <- BuildsTagged
    Hanging = {B}
    MaxWrites = 5
INVARIANTS
    TypeOK
PROPERTIES
    OnlyPendingFails
    BuildRecorded
\* Nothing is left to build.
CHECK_DEADLOCK FALSE

\* Two builds; the run of one of them hangs.
SPECIFICATION FairSpec
CONSTANTS
    A = A
    B = B
    Builds <- BuildsMain
    Hanging = {B}
    MaxWrites = 4
PROPERTIES
    FailureRecorded
\* Nothing is left to build.
CHECK_DEADLOCK FALSE

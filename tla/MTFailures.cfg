CONSTANTS
    BlockCount = 3
    NetOf <- Net3
    Workers = {w1, w2}
    MaxIterations = 2
    SingularBlocks = {0, 1, 2}
    MayCancel = TRUE
SPECIFICATION FairSpec
INVARIANTS FailureIsRethrown
PROPERTIES Termination

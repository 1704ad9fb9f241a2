CONSTANTS
    BlockCount = 3
    NetOf <- Net3
    Workers = {w1}
    MaxIterations = 1
    SingularBlocks = {}
    MayCancel = FALSE
SPECIFICATION Spec
INVARIANTS FailedToConverge

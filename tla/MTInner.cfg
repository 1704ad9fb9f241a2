CONSTANTS
    BlockCount = 5
    NetOf <- NetBorders
    Workers = {w1, w2}
    MaxIterations = 2
    SingularBlocks = {}
    MayCancel = FALSE
SPECIFICATION Spec
SYMMETRY WorkerSymmetry
INVARIANTS
    NoLostBlock
    CombineOnlyAdjusted
    RigorousUnlessDisturbed
    RowsFit

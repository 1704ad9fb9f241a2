CONSTANTS
    Stns = {1, 2, 3, 4, 5}
    Msrs = {1, 2}
    MinInner = 1
    MaxTotal = 3
    ForceContiguous = TRUE
    SearchLevel = 0
    NetworkSet <- IgnoredDirection
SPECIFICATION Spec
INVARIANTS
    EveryMeasurementInOneBlock

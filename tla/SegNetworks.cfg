CONSTANTS
    Stns = {1, 2, 3, 4, 5}
    Msrs = {1, 2, 3, 4}
    MinInner = 2
    MaxTotal = 2
    ForceContiguous = FALSE
    SearchLevel = 1
    NetworkSet <- Networks
SPECIFICATION FairSpec
INVARIANTS
    EveryMeasurementInOneBlock
    EveryStationInnerOnce
    StationsConsecutive
    VerificationPasses
PROPERTIES
    ImplementsBlockChain
    Termination

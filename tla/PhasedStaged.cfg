SPECIFICATION Spec
CONSTANTS
    BlockCount = 4
    NetOf <- OneNetwork
    Stns <- FourStations
    Placements <- PlacementsDef
    Stage = TRUE
    Modes = {"phased"}
    MaxIterations = 2
    MayCancel = TRUE
INVARIANTS
    StatisticsRigorous
    BlocksInMemory
PROPERTIES
    ImplementsRigorous

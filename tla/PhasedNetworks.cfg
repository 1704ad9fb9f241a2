SPECIFICATION Spec
CONSTANTS
    BlockCount = 6
    NetOf <- Networks
    Stns <- FiveStations
    Placements <- PlacementsDef
    Stage = FALSE
    Modes = {"phased", "block1"}
    MaxIterations = 3
    MayCancel = TRUE
INVARIANTS
    EquationsAgree
    CorrectionsJudged
    CompleteOnSuccess
    StatisticsRigorous
PROPERTIES
    ImplementsRigorous

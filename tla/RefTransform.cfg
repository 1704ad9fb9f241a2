CONSTANTS
    Networks <- AllFrames
    MsrTypes <- Types
    Targets <- AllTargets
    MaxRuns = 2
SPECIFICATION Spec
INVARIANTS
    LabelsTrue
    CacheOfThePair
    CompleteOnSuccess
    FailsOnlyFor
PROPERTIES StationsFollow
CHECK_DEADLOCK FALSE

CONSTANTS
    Stations = {1, 2, 3, 4}
    Constraints <- OneConstrained
    Inputs <- Networks
    Options <- AnyOptions
SPECIFICATION FairSpec
INVARIANTS
    ListsFitRecords
    LargestSufficient
    InsufficientAddedBack
PROPERTIES
    Termination

CONSTANTS
    Imports = {n1, n2}
    Geoids = {g1, g2}
    NoFile = NoFile
    Invocations <- Calls
SPECIFICATION Spec
SYMMETRY WorkflowSymmetry
INVARIANTS
    RawRecoverable
    ReducedOnce
    ReducedByGeoid
    SegmentationCurrent
    StageFilesCurrent
    SuccessIsOfThisImport

CONSTANTS
    BlockCount = 2
    Preparers = {t1, t2, t3}
    MaxIterations = 2
SPECIFICATION FairSpec
INVARIANTS
    PreparedOnce
    AdjustsPrepared
    CorrectionsShown
    StatusTells
PROPERTIES Termination

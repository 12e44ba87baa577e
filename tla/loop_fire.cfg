CONSTANTS
    Timer = {t1, t2}
    None = None
    Delay = {0, 2}
    MaxLag = 2
    PipeCap = 2
    Contexts = 1
    MaxWakes = 1
    Other = {}
SPECIFICATION FairSpec
CHECK_DEADLOCK FALSE
INVARIANT FiresOnExpiry

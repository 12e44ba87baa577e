CONSTANTS
    Timer = {t1, t2}
    None = None
    Delay = {1}
    MaxLag = 1
    PipeCap = 2
    Contexts = 1
    MaxWakes = 1
    Other = {"schedule", "cancel", "stop"}
SPECIFICATION FairSpec
CHECK_DEADLOCK FALSE
PROPERTY StopIsHonoured

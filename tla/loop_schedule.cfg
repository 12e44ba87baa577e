CONSTANTS
    Timer = {t1}
    None = None
    Delay = {0, 2}
    MaxLag = 2
    PipeCap = 2
    Contexts = 1
    MaxWakes = 0
    Other = {"schedule"}
SPECIFICATION FairSpec
CHECK_DEADLOCK FALSE
PROPERTY TimersAreTaken

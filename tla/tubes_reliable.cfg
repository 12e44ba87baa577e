CONSTANTS
    Mgr = {a, b}
    Id = {t1}
    None = None
    Env = {"policy", "stop"}
    MaxChan = 3
    MaxWaiting = 5
SPECIFICATION FairSpec
CHECK_DEADLOCK FALSE
INVARIANTS Agreement AcceptedOnce
PROPERTIES OpenIsAnswered CloseTakesEffect

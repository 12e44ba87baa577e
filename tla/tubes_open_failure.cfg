CONSTANTS
    Mgr = {a, b}
    Id = {t1}
    None = None
    Env = {"sendfail"}
    MaxChan = 2
    MaxWaiting = 5
SPECIFICATION Spec
CHECK_DEADLOCK FALSE
INVARIANT NoUseAfterDestroy

CONSTANTS
    Mgr = {a, b}
    Id = {t1}
    None = None
    Env = {"loss", "dup", "reorder", "sendfail", "alloc", "loopfail", "policy", "stop"}
    MaxChan = 2
    MaxWaiting = 2
SPECIFICATION Spec
CHECK_DEADLOCK FALSE
SYMMETRY Symmetry
INVARIANTS TypeOK Provenance PacketsGenuine
PROPERTY Refinement

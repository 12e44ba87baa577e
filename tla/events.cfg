CONSTANTS
    Ev = {e1, e2}
    Cb = {c1, c2}
    None = None
    MaxQueue = 3
SPECIFICATION FairSpec
CHECK_DEADLOCK FALSE
INVARIANTS TypeOK WalkIsSafe CallsEachOnce BindingsMatchApi
PROPERTIES DestroyHappens EventEnds

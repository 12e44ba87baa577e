CONSTANTS
    Ev = {e1}
    Cb = {c1, c2}
    None = None
    MaxQueue = 2
SPECIFICATION Spec
SYMMETRY Symmetry
CHECK_DEADLOCK FALSE
INVARIANT QueuedMomentsAreSound

SPECIFICATION Spec
CONSTANTS
    Key <- mcKey
    Val = {v1, v2, static}
    Owned = {v1, v2}
    UintMod = 256
    FirstBuckets = {1}
    MaxBuckets = 7
    Item = {1, 2}
    MaxNodes = 3
    PageSize = {0, 4}
    Request = {0, 1, 3, 4, 5}
    Count = {1, 4}
    SizeMod = 16
    MaxGiven = 3
    MaxBound = 2
    Tube = {t1, t2, t3}
    MaxMoments = 3
    Manager = {m1}
    MaxFd = 5
    Id = {i1, i2}
    Hosts <- mcHosts
    Length = {0, 6}
    Preamble = 1
    HeaderSize = 2
    BufLen = 8
    MaxNet = 1
    MaxPushes = 4
SYMMETRY Symmetry
CHECK_DEADLOCK FALSE
INVARIANTS
    LibraryTypeOK TableSound IterationCovers KeysLive WalkFaults WalkCovers
    ListSound
    PiecesDisjoint CleanersSeeMemory NothingLeaks
    ToldOfAll FreedOnlyByCallback
    AllOrNothing SelectWatchesAll
    AnswersFromWhereAsked
PROPERTIES
    BehavesAsMap KeepsOrder EventsInOrder PopEndsOwnContext

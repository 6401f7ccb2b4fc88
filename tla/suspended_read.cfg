CONSTANTS
    Writers = {w1}
    Readers = {r1}
    Cleaners = {c1}
    FirstReader = r1
    Empty = Empty
    Uninit = Uninit
    BufferCapacity = 2
    NSlots = 1
    GenSpan = 64
    MaxBatch = 2
    MaxGen = 3
    ResumeAhead = 0
    w1 = w1
    r1 = r1
    c1 = c1
SPECIFICATION Spec
INVARIANTS EverySliceIsLive

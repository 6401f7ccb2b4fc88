CONSTANTS
    Writers = {w1}
    Readers = {r1, r2}
    Cleaners = {c1}
    FirstReader = r1
    Empty = Empty
    Uninit = Uninit
    BufferCapacity = 2
    NSlots = 2
    GenSpan = 64
    MaxBatch = 2
    MaxGen = 2
    ResumeAhead = 0
    w1 = w1
    r1 = r1
    r2 = r2
    c1 = c1
SPECIFICATION Spec
INVARIANTS SliceIsPublished SliceDropsInPlace RegisterFindsSuspended NobodyAhead
PROPERTIES ClaimsNeverGoBack ActiveWordIsOwned ImplementsBroadcast

CONSTANTS
    Writers = {w1, w2}
    Readers = {r1}
    Cleaners = {c1}
    FirstReader = r1
    Empty = Empty
    Uninit = Uninit
    BufferCapacity = 2
    NSlots = 1
    GenSpan = 64
    MaxBatch = 2
    MaxGen = 3
    ResumeAhead = 0
    w1 = w1
    w2 = w2
    r1 = r1
    c1 = c1
SPECIFICATION FairSpec
INVARIANTS CountersInOrder ReservedCellsAreEmpty PublishedIsFilled SomebodyIsNext RetriesArePaidFor
PROPERTIES PublishReturns EnterReturns

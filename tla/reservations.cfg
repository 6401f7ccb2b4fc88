CONSTANTS
    Handles = {h1, h2, h3}
    Msb = 6
    Capacity = 3
    MaxBatch = 3
    Empty = Empty
    SlotsBorrow = TRUE
    h1 = h1
    h2 = h2
    h3 = h3
SPECIFICATION Spec
SYMMETRY Interchangeable
INVARIANTS TypeOK PublishedIsFilled PiecesTile DeferredWaits SlicesAgree

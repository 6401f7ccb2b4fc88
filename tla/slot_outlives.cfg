CONSTANTS
    Handles = {h1, h2, h3}
    Msb = 4
    Capacity = 2
    MaxBatch = 2
    Empty = Empty
    SlotsBorrow = FALSE
    h1 = h1
    h2 = h2
    h3 = h3
SPECIFICATION Spec
SYMMETRY Interchangeable
INVARIANT PublishedIsFilled

CONSTANTS
    Readers = {r1, r2, r3}
    NSlots = 2
    Msb = 8
    Seeds = {0, 7, 9}
    r1 = r1
    r2 = r2
    r3 = r3
SPECIFICATION Spec
INVARIANTS TypeOK UniqueIds LookupFindsOwn NoSlotLost RefusedMeansFull
PROPERTIES ImplementsRegistry

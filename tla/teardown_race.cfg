CONSTANTS
    Writers = {w1, w2}
    Readers = {r1, r2, r3}
    FirstWriter = w1
    FirstReader = r1
    Empty = Empty
    NSlots = 2
    MaxMessages = 1
    Layouts = {{}, {"inner", "buffer", "map", "destroy_stages", "keep_alloc", "stage_tickets"}}
    CreateDuringDrop = TRUE
    w1 = w1
    w2 = w2
    r1 = r1
    r2 = r2
    r3 = r3
SPECIFICATION Spec
CHECK_DEADLOCK FALSE
INVARIANTS FreedOnceByTheLast

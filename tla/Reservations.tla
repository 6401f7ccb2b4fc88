---------------------------- MODULE Reservations ----------------------------
(***************************************************************************)
(* What a program does with the room it reserved: Reservation (fill, split,*)
(* disarm, publish, drop) and the iterator it turns into (ReservationIter  *)
(* and its ReservationSlots), over generations that wrap and the ring they *)
(* are the index of.                                                       *)
(*                                                                         *)
(* One action is one method.  Reserving is one step here, and so is all    *)
(* that readers and cleanups do to let go of the oldest message: how these *)
(* interleave is in Area, which has no wrap.  A publication is one CAS     *)
(* (E = ()), or the load, check and store of the only writer thread        *)
(* (E = Exclusive).  A handle is a place in the program's memory: the slot *)
(* that an iterator yields refers to the count in the iterator's place.    *)
(*                                                                         *)
(* A panic takes the handle it unwinds; that of an iterator whose slot or  *)
(* publication panicked in the same thread is a second panic, which ends   *)
(* the process, and no step here.                                          *)
(***************************************************************************)
EXTENDS GenArith, Sequences

CONSTANTS
    Handles,      \* places for a Reservation or a ReservationIter
    Capacity,     \* buffer_capacity
    MaxBatch,     \* bound: largest n asked for
    Empty,        \* the content of a cell without a message
    SlotsBorrow   \* does a slot keep its iterator from being used or moved?

ASSUME CapacityAssumption == /\ Capacity \in Nat \ {0}
                             /\ 2 * Capacity <= Msb
ASSUME BatchAssumption    == MaxBatch \in Nat
ASSUME EmptyAssumption    == Empty \notin Nat
ASSUME BorrowAssumption   == SlotsBorrow \in BOOLEAN

VARIABLES
    write_gen, read_gen, free_gen,   \* as in Area, but wrapping
    buffer,   \* the message in each cell, named by its generation
    piece,    \* what is in each place
    slots,    \* the ReservationSlots that exist
    unheld    \* generations reserved, unpublished and in no handle

vars == <<write_gen, read_gen, free_gen, buffer, piece, slots, unheld>>

Nothing == [kind |-> "none", start |-> 0, end |-> 0,
            cursor |-> 0, written |-> 0, total |-> 0]

Reservation(start, end) ==
    [Nothing EXCEPT !.kind = "reservation", !.start = start, !.end = end]

Iter(start, end) ==
    [Nothing EXCEPT !.kind = "iter", !.start = start, !.end = end,
                    !.cursor = start, !.total = GenDist(end, start)]

Is(h, kind)    == piece[h].kind = kind
RangeOf(h)     == GenRange(piece[h].start, piece[h].end)
LenOf(h)       == GenDist(piece[h].end, piece[h].start)
SlotsAt(h)     == {s \in slots : s.at = h}

(* get_slot_ptr, of a writer and of a reader.                              *)
Cell(g) == g % Capacity

Init ==
    /\ write_gen = 0 /\ read_gen = 0 /\ free_gen = 0
    /\ buffer = [i \in 0 .. Capacity - 1 |-> Empty]
    /\ piece = [h \in Handles |-> Nothing]
    /\ slots = {}
    /\ unheld = {}

-----------------------------------------------------------------------------
(* Faults, for the runs that show which property notices them.             *)
BlindPublish(start) == TRUE
AllYielded(h)   == piece[h].cursor = piece[h].end
OneShortOfTheEnd(start, len) ==
    IF Cell(start) + len < Capacity THEN len ELSE Capacity - Cell(start) - 1

-----------------------------------------------------------------------------
(* try_reserve_slots and try_reserve_slots_best_effort.                    *)
Available ==
    Capacity - (IF GenDist(write_gen, free_gen) <= Capacity
                THEN GenDist(write_gen, free_gen) ELSE Capacity)

Take(h, n) ==
    /\ write_gen' = GenAdd(write_gen, n)
    /\ piece' = [piece EXCEPT ![h] =
                     Reservation(write_gen, GenAdd(write_gen, n))]
    /\ UNCHANGED <<read_gen, free_gen, buffer, slots, unheld>>

(* reserve(n), where there is room: otherwise NoSpace.                     *)
Reserve(h, n) ==
    /\ Is(h, "none")
    /\ n > 0 /\ n <= Available
    /\ Take(h, n)

(* reserve_best_effort(n): without room, or for n = 0, the empty           *)
(* reservation (0, 0), wherever write_gen is.                              *)
ReserveBestEffort(h, n) ==
    /\ Is(h, "none")
    /\ LET actual == IF n <= Available THEN n ELSE Available
       IN  IF actual = 0
           THEN /\ piece' = [piece EXCEPT ![h] = Reservation(0, 0)]
                /\ UNCHANGED <<write_gen, read_gen, free_gen, buffer, slots, unheld>>
           ELSE Take(h, actual)

(* get_mut(i) is Some for i < len(); the program writes a message there.   *)
GetMut(h, i) ==
    /\ Is(h, "reservation")
    /\ i < LenOf(h)
    /\ LET g == GenAdd(piece[h].start, i)
       IN  buffer' = [buffer EXCEPT ![Cell(g)] = g]
    /\ UNCHANGED <<write_gen, read_gen, free_gen, piece, slots, unheld>>

(* split_at_mut(i): the left part keeps its place.                         *)
SplitAtMut(h, right, i) ==
    /\ Is(h, "reservation") /\ Is(right, "none")
    /\ i <= LenOf(h)
    /\ LET p   == piece[h]
           mid == GenAdd(p.start, i)
       IN  piece' = [piece EXCEPT ![h]     = Reservation(p.start, mid),
                                  ![right] = Reservation(mid, p.end)]
    /\ UNCHANGED <<write_gen, read_gen, free_gen, buffer, slots, unheld>>

-----------------------------------------------------------------------------
(* publish_slots.  Nothing to publish is a success; else the range must be *)
(* the next, or the caller is refused with CasFailed (E = ()) or           *)
(* OutOfOrderPublishAttempt (E = Exclusive), and nothing has changed.      *)
InTurn(start) == read_gen = start

PublishSlots(start, end) ==
    \/ GenGte(start, end) /\ UNCHANGED read_gen
    \/ ~GenGte(start, end) /\ InTurn(start) /\ read_gen' = end

PublishPiece(h) ==
    /\ PublishSlots(piece[h].start, piece[h].end)
    /\ piece' = [piece EXCEPT ![h] = Nothing]
    /\ UNCHANGED <<write_gen, free_gen, buffer, slots, unheld>>

(* Reservation::publish, whose caller vouches that every slot is filled.   *)
Publish(h) ==
    /\ Is(h, "reservation")
    /\ \A g \in RangeOf(h) : buffer[Cell(g)] = g
    /\ PublishPiece(h)

(* Reservation::drop: with a panic or, disarmed, without, the room it held *)
(* is not given back.  To arm and to disarm decide nothing else.           *)
DropReservation(h) ==
    /\ Is(h, "reservation")
    /\ unheld' = unheld \cup RangeOf(h)
    /\ piece' = [piece EXCEPT ![h] = Nothing]
    /\ UNCHANGED <<write_gen, read_gen, free_gen, buffer, slots>>

(* Who knows the range can still fill a cell of it (get_slot_ptr) ...      *)
FillUnheld(g) ==
    /\ buffer' = [buffer EXCEPT ![Cell(g)] = g]
    /\ UNCHANGED <<write_gen, read_gen, free_gen, piece, slots, unheld>>

(* ... and publish n messages of it with the writer's own publish_slots,   *)
(* whose caller vouches as that of publish does.  So does a program that   *)
(* has a bare range from try_reserve_slots: a reservation dropped at once. *)
PublishUnheld(start, n) ==
    LET end   == GenAdd(start, n)
        range == GenRange(start, end)
    IN  /\ range \subseteq unheld
        /\ \A g \in range : buffer[Cell(g)] = g
        /\ PublishSlots(start, end)
        /\ unheld' = unheld \ range
        /\ UNCHANGED <<write_gen, free_gen, buffer, piece, slots>>

-----------------------------------------------------------------------------
(* The iterator.                                                           *)
IntoIter(h) ==
    /\ Is(h, "reservation")
    /\ piece' = [piece EXCEPT ![h] = Iter(@.start, @.end)]
    /\ UNCHANGED <<write_gen, read_gen, free_gen, buffer, slots, unheld>>

(* May the program use the iterator in this place?  The comment in next()  *)
(* says that the last slot must be dropped first; its signature does not.  *)
Usable(h) == Is(h, "iter") /\ (SlotsBorrow => SlotsAt(h) = {})

NextSlot(h) ==
    /\ Usable(h)
    /\ ~GenGte(piece[h].cursor, piece[h].end)
    /\ slots' = slots \cup {[gen |-> piece[h].cursor, at |-> h]}
    /\ piece' = [piece EXCEPT ![h].cursor = GenAdd(@, 1)]
    /\ UNCHANGED <<write_gen, read_gen, free_gen, buffer, unheld>>

(* ReservationSlot::write counts in the place that the slot was yielded    *)
(* from, whatever is there now.  It panics the second time, and a slot that*)
(* is written can only go: here at once.                                   *)
WriteSlot(s) ==
    /\ buffer' = [buffer EXCEPT ![Cell(s.gen)] = s.gen]
    /\ piece' = IF Is(s.at, "iter") THEN [piece EXCEPT ![s.at].written = @ + 1]
                                    ELSE piece
    /\ slots' = slots \ {s}
    /\ UNCHANGED <<write_gen, read_gen, free_gen, unheld>>

(* A slot that goes unwritten: forgotten, or dropped where the panic does  *)
(* not reach its iterator.                                                 *)
DropSlot(s) ==
    /\ slots' = slots \ {s}
    /\ UNCHANGED <<write_gen, read_gen, free_gen, buffer, piece, unheld>>

(* The assertion of ReservationIter::publish.                              *)
AllWritten(h) == piece[h].written = piece[h].total

PublishIter(h) ==
    /\ Usable(h)
    /\ AllWritten(h)
    /\ PublishPiece(h)

(* ReservationIter::drop panics: its room is not given back either.        *)
DropIter(h) ==
    /\ Usable(h)
    /\ unheld' = unheld \cup RangeOf(h)
    /\ piece' = [piece EXCEPT ![h] = Nothing]
    /\ UNCHANGED <<write_gen, read_gen, free_gen, buffer, slots>>

(* The program exchanges two iterators, which moves them both.             *)
SwapIters(h, o) ==
    /\ Usable(h) /\ Usable(o)
    /\ piece' = [piece EXCEPT ![h] = piece[o], ![o] = piece[h]]
    /\ UNCHANGED <<write_gen, read_gen, free_gen, buffer, slots, unheld>>

-----------------------------------------------------------------------------
(* Readers and a cleanup are done with the oldest message.                 *)
Release ==
    /\ free_gen # read_gen
    /\ buffer' = [buffer EXCEPT ![Cell(free_gen)] = Empty]
    /\ free_gen' = GenAdd(free_gen, 1)
    /\ UNCHANGED <<write_gen, read_gen, piece, slots, unheld>>

ReservationStep(h) ==
    \/ \E n \in 0 .. MaxBatch : Reserve(h, n) \/ ReserveBestEffort(h, n)
    \/ \E i \in 0 .. Capacity : GetMut(h, i)
    \/ \E i \in 0 .. Capacity, right \in Handles \ {h} : SplitAtMut(h, right, i)
    \/ Publish(h) \/ DropReservation(h)

IterStep(h) ==
    \/ IntoIter(h) \/ NextSlot(h) \/ PublishIter(h) \/ DropIter(h)
    \/ \E o \in Handles \ {h} : SwapIters(h, o)

Next ==
    \/ \E h \in Handles : ReservationStep(h) \/ IterStep(h)
    \/ \E s \in slots : WriteSlot(s) \/ DropSlot(s)
    \/ \E g \in unheld : FillUnheld(g) \/ \E n \in 1 .. Capacity : PublishUnheld(g, n)
    \/ Release

Spec == Init /\ [][Next]_vars

-----------------------------------------------------------------------------
(* ReadSlice over [start, end): get(i), and as_slices, one run of cells or *)
(* two where the ring ends.                                                *)
Get(start, end, i) == buffer[Cell(GenAdd(start, i))]

Cells(from, len) == [i \in 1 .. len |-> buffer[from + i - 1]]

FirstLen(start, len) == IF Cell(start) + len <= Capacity
                        THEN len ELSE Capacity - Cell(start)

AsSlices(start, end) ==
    LET len   == GenDist(end, start)
        first == FirstLen(start, len)
    IN  <<Cells(Cell(start), first), Cells(0, len - first)>>

-----------------------------------------------------------------------------
Pieces ==
    [kind : {"none", "reservation", "iter"}, start : Gens, end : Gens,
     cursor : Gens, written : 0 .. Capacity, total : 0 .. Capacity]

(* Every variable keeps its type; a generation never has its top bit set.  *)
TypeOK ==
    /\ write_gen \in Gens /\ read_gen \in Gens /\ free_gen \in Gens
    /\ buffer \in [0 .. Capacity - 1 -> Gens \cup {Empty}]
    /\ piece \in [Handles -> Pieces]
    /\ slots \subseteq [gen : Gens, at : Handles]
    /\ unheld \subseteq Gens

Unread  == GenRange(free_gen, read_gen)
Pending == GenRange(read_gen, write_gen)

(* Every published message that was not yet released is in its cell:       *)
(* nothing goes out that was not written, in whatever order reservations,  *)
(* parts of them and iterators are published, and nothing is written over, *)
(* across the wrap of the generations.                                     *)
PublishedIsFilled == \A g \in Unread : buffer[Cell(g)] = g

(* What is reserved and unpublished is divided among the handles and the   *)
(* ranges that none has: no generation twice, none forgotten, none that is *)
(* not pending, so that every handle not yet in turn will be.              *)
PiecesTile ==
    /\ \A h \in Handles : RangeOf(h) \subseteq Pending
    /\ \A g \in Pending \ unheld : \E h \in Handles : g \in RangeOf(h)
    /\ \A h, o \in Handles : h # o => RangeOf(h) \cap RangeOf(o) = {}

(* A range whose reservation is gone, disarmed or with a panic, "can still *)
(* be filled and published later": until then nothing is published over it,*)
(* no handle gets any of it, and its cells hold what was written for them  *)
(* or nothing.                                                             *)
DeferredWaits ==
    /\ unheld \subseteq Pending
    /\ \A h \in Handles : RangeOf(h) \cap unheld = {}
    /\ \A g \in unheld : buffer[Cell(g)] \in {g, Empty}

(* A reader gets the same messages from as_slices as from get(i), in order,*)
(* whatever part of the unread messages its slice covers.                  *)
SlicesAgree ==
    \A from, to \in 0 .. GenDist(read_gen, free_gen) : from < to =>
        LET start == GenAdd(free_gen, from)
            end   == GenAdd(free_gen, to)
            two   == AsSlices(start, end)
        IN  two[1] \o two[2] = [n \in 1 .. to - from |-> Get(start, end, n - 1)]
=============================================================================

------------------------- MODULE ReservationsProofs -------------------------
(***************************************************************************)
(* Proofs about Reservations, over generations that wrap, for any number   *)
(* of places, any capacity up to half the span and any span.               *)
(*                                                                         *)
(* What is reserved has one owner each or none (TileInv) whether or not a  *)
(* slot keeps its iterator from being used, and where it does, what an     *)
(* iterator has counted it has filled (FilledInv), and a cell holds nothing*)
(* but the message of the window that it is the cell of (CellsInv).        *)
(***************************************************************************)
EXTENDS Reservations, GenArithProofs, SequenceTheorems

-----------------------------------------------------------------------------
(* Masked sums and distances of generations.                               *)
LEMMA GensAre == Msb \in Nat /\ Msb >= 2 /\ Gens = 0 .. Msb - 1
  BY MsbAssumption DEF Gens

LEMMA DistIs ==
    ASSUME NEW a \in Gens, NEW b \in Gens
    PROVE  /\ GenDist(a, b) = IF b <= a THEN a - b ELSE a - b + Msb
           /\ GenDist(a, b) \in Gens
<1> USE GensAre
<1>1. CASE b <= a
  BY <1>1, ModSmall DEF GenDist
<1>2. CASE a < b
  <2>1. a - b = (Msb * (0 - 1)) + (a - b + Msb)
    OBVIOUS
  <2> QED  BY <1>2, <2>1, ModUnique DEF GenDist
<1> QED  BY <1>1, <1>2

LEMMA SumIs ==
    ASSUME NEW a \in Gens, NEW n \in 0 .. Msb
    PROVE  /\ GenAdd(a, n) = IF a + n < Msb THEN a + n ELSE a + n - Msb
           /\ GenAdd(a, n) \in Gens
<1>0. Msb \in Nat /\ a \in 0 .. Msb - 1 /\ a + n \in Nat /\ a + n < 2 * Msb
  BY GensAre
<1>1. CASE a + n < Msb
  BY <1>0, <1>1, GensAre, ModSmall DEF GenAdd
<1>2. CASE Msb <= a + n
  <2> DEFINE x == a + n
  <2> HIDE DEF x
  <2>1. x % Msb = x - Msb
    <3>1. x \in Nat /\ Msb \in Nat /\ Msb <= x /\ x < 2 * Msb
      BY <1>0, <1>2 DEF x
    <3> QED  BY <3>1, ModOnce
  <2> QED  BY <1>0, <1>2, <2>1, GensAre DEF GenAdd, x
<1>3. a + n < Msb \/ Msb <= a + n
  BY <1>0
<1> QED  BY <1>1, <1>2, <1>3

LEMMA DistType ==
    ASSUME NEW a \in Gens, NEW b \in Gens
    PROVE  /\ GenDist(a, b) \in Gens /\ GenDist(a, b) \in Nat
           /\ GenDist(a, b) < Msb
<1>1. GenDist(a, b) \in Gens
  BY DistIs
<1> QED  BY <1>1, GensAre

(* Distances add up, past the wrap too.                                    *)
LEMMA DistSum ==
    ASSUME NEW a \in Gens, NEW b \in Gens, NEW c \in Gens
    PROVE  GenDist(a, c) = IF GenDist(a, b) + GenDist(b, c) < Msb
                           THEN GenDist(a, b) + GenDist(b, c)
                           ELSE GenDist(a, b) + GenDist(b, c) - Msb
<1>1. GenDist(a, c) = IF c <= a THEN a - c ELSE a - c + Msb
  BY DistIs
<1>2. GenDist(a, b) = IF b <= a THEN a - b ELSE a - b + Msb
  BY DistIs
<1>3. GenDist(b, c) = IF c <= b THEN b - c ELSE b - c + Msb
  BY DistIs
<1>4. Msb \in Nat /\ a \in 0 .. Msb - 1 /\ b \in 0 .. Msb - 1 /\ c \in 0 .. Msb - 1
  BY GensAre
<1> QED  BY <1>1, <1>2, <1>3, <1>4

LEMMA DistZero ==
    ASSUME NEW a \in Gens, NEW b \in Gens
    PROVE  GenDist(a, b) = 0 <=> a = b
<1>1. GenDist(a, b) = IF b <= a THEN a - b ELSE a - b + Msb
  BY DistIs
<1>2. Msb \in Nat /\ a \in 0 .. Msb - 1 /\ b \in 0 .. Msb - 1
  BY GensAre
<1> QED  BY <1>1, <1>2

LEMMA DistOfSum ==
    ASSUME NEW a \in Gens, NEW n \in Gens
    PROVE  GenDist(GenAdd(a, n), a) = n /\ GenAdd(a, n) \in Gens
<1> DEFINE b == GenAdd(a, n)
<1>0. Msb \in Nat /\ a \in 0 .. Msb - 1 /\ n \in 0 .. Msb - 1
  BY GensAre
<1>1. b \in Gens /\ b = IF a + n < Msb THEN a + n ELSE a + n - Msb
  BY <1>0, SumIs
<1> HIDE DEF b
<1>2. GenDist(b, a) = IF a <= b THEN b - a ELSE b - a + Msb
  BY <1>1, DistIs
<1> QED  BY <1>0, <1>1, <1>2 DEF b

LEMMA SumOfDist ==
    ASSUME NEW a \in Gens, NEW b \in Gens
    PROVE  GenAdd(a, GenDist(b, a)) = b
<1> DEFINE n == GenDist(b, a)
<1>0. Msb \in Nat /\ a \in 0 .. Msb - 1 /\ b \in 0 .. Msb - 1
  BY GensAre
<1>1. n \in 0 .. Msb - 1 /\ n = IF a <= b THEN b - a ELSE b - a + Msb
  BY GensAre, DistIs
<1> HIDE DEF n
<1>2. GenAdd(a, n) = IF a + n < Msb THEN a + n ELSE a + n - Msb
  BY <1>0, <1>1, SumIs
<1> QED  BY <1>0, <1>1, <1>2 DEF n

(* A range is the generations that are nearer to its start than its end.   *)
LEMMA RangeIs ==
    ASSUME NEW start \in Gens, NEW end \in Gens
    PROVE  GenRange(start, end) = {g \in Gens : GenDist(g, start) < GenDist(end, start)}
<1> DEFINE len == GenDist(end, start)
<1>0. len \in 0 .. Msb - 1 /\ Msb \in Nat /\ Gens = 0 .. Msb - 1
  BY DistIs, GensAre
<1> HIDE DEF len
<1>1. ASSUME NEW i \in 0 .. len - 1
      PROVE  GenAdd(start, i) \in Gens /\ GenDist(GenAdd(start, i), start) < len
  <2>1. i \in Gens
    BY <1>0
  <2> QED  BY <1>0, <2>1, DistOfSum
<1>2. ASSUME NEW g \in Gens, GenDist(g, start) < len
      PROVE  \E i \in 0 .. len - 1 : g = GenAdd(start, i)
  <2>1. GenDist(g, start) \in 0 .. len - 1
    BY <1>0, <1>2, DistIs
  <2> QED  BY <2>1, SumOfDist
<1>3. GenRange(start, end) = {GenAdd(start, i) : i \in 0 .. len - 1}
  BY DEF GenRange, len
<1>4. {GenAdd(start, i) : i \in 0 .. len - 1} = {g \in Gens : GenDist(g, start) < len}
  BY <1>1, <1>2
<1> QED  BY <1>3, <1>4 DEF len

(* publish_slots sees that there is something to publish.                  *)
LEMMA EmptyIsGte ==
    ASSUME NEW start \in Gens, NEW end \in Gens, GenDist(end, start) <= Capacity
    PROVE  GenGte(start, end) <=> GenDist(end, start) = 0
<1> DEFINE len == GenDist(end, start)
           half == Msb \div 2
<1>0. Msb \in Nat /\ start \in 0 .. Msb - 1 /\ end \in 0 .. Msb - 1 /\ Msb >= 2
  BY GensAre
<1>1. Msb = 2 * half /\ half \in Nat
  BY MsbAssumption
<1>2. GenDist(start, end) = IF end <= start THEN start - end ELSE start - end + Msb
  BY DistIs
<1>3. len = IF start <= end THEN end - start ELSE end - start + Msb
  BY DistIs
<1>4. Capacity <= half
  BY <1>1, CapacityAssumption
<1> HIDE DEF len, half
<1>5. MaxNumeric \div 4 = half - 1
  BY <1>1 DEF MaxNumeric
<1> QED
  BY <1>0, <1>1, <1>2, <1>3, <1>4, <1>5, CapacityAssumption DEF GenGte, len

-----------------------------------------------------------------------------
(* What a place holds, whatever an iterator in it has counted.             *)
AnyPiece ==
    [kind : {"none", "reservation", "iter"}, start : Gens, end : Gens,
     cursor : Gens, written : Nat, total : Nat]

RingTypes ==
    /\ write_gen \in Gens /\ read_gen \in Gens /\ free_gen \in Gens
    /\ buffer \in [0 .. Capacity - 1 -> Gens \cup {Empty}]
    /\ piece \in [Handles -> AnyPiece]
    /\ slots \subseteq [gen : Gens, at : Handles]
    /\ unheld \subseteq Gens

(* The counters stay within a capacity, and a piece that is not empty lies *)
(* in one run between read_gen and write_gen.                              *)
UnreadLen  == GenDist(read_gen, free_gen)
PendingLen == GenDist(write_gen, read_gen)
Offset(h)  == GenDist(piece[h].start, read_gen)

Window  == UnreadLen + PendingLen <= Capacity
Fits(h) == /\ LenOf(h) = 0 \/ Offset(h) + LenOf(h) <= PendingLen
           /\ Is(h, "none") => piece[h] = Nothing

Deferred ==
    /\ unheld \subseteq Pending
    /\ \A h \in Handles : RangeOf(h) \cap unheld = {}

TileInv ==
    /\ RingTypes
    /\ Window
    /\ \A h \in Handles : Fits(h)
    /\ PiecesTile
    /\ Deferred

(* An iterator has at most one slot out, the last it yielded, and counts   *)
(* no more than those it yielded before.                                   *)
Yielded(h) == GenDist(piece[h].cursor, piece[h].start)
Out(h)     == IF SlotsAt(h) = {} THEN 0 ELSE 1

IterFits(h) ==
    /\ Is(h, "iter") => /\ piece[h].total = LenOf(h)
                        /\ Yielded(h) <= LenOf(h)
                        /\ piece[h].written + Out(h) <= Yielded(h)
    /\ ~Is(h, "iter") => piece[h].written = 0 /\ piece[h].total = 0

SlotFits(s) == Is(s.at, "iter") /\ piece[s.at].cursor = GenAdd(s.gen, 1)

IterInv ==
    /\ TileInv
    /\ \A h \in Handles : IterFits(h)
    /\ \A s \in slots : SlotFits(s)

(* If it has counted all of them, it has filled them all.                  *)
Filled(g) == buffer[Cell(g)] = g

IterFilled(h) ==
    Is(h, "iter") /\ piece[h].written + Out(h) = Yielded(h) =>
        \A g \in GenRange(piece[h].start, piece[h].cursor) :
            Filled(g) \/ \E s \in SlotsAt(h) : s.gen = g

FilledInv ==
    /\ IterInv
    /\ PublishedIsFilled
    /\ \A h \in Handles : IterFilled(h)

-----------------------------------------------------------------------------
(* Types.                                                                  *)
LEMMA SumType ==
    ASSUME NEW a \in Gens, NEW n \in Nat PROVE GenAdd(a, n) \in Gens
<1>1. a + n \in Int /\ Msb \in Nat /\ Msb > 0
  BY GensAre
<1> DEFINE x == a + n
<1> HIDE DEF x
<1>2. x % Msb \in 0 .. Msb - 1
  BY <1>1, ModDef DEF x
<1> QED  BY <1>2, GensAre DEF GenAdd, x

LEMMA CellType ==
    ASSUME NEW g \in Gens PROVE Cell(g) \in 0 .. Capacity - 1
  BY GensAre, CapacityAssumption, ModDef DEF Cell

LEMMA NewPieces ==
    /\ Nothing \in AnyPiece
    /\ \A s, e \in Gens : Reservation(s, e) \in AnyPiece /\ Iter(s, e) \in AnyPiece
<1>1. 0 \in Gens
  BY GensAre
<1>2. Nothing \in AnyPiece
  BY <1>1 DEF Nothing, AnyPiece
<1>3. ASSUME NEW s \in Gens, NEW e \in Gens
      PROVE  Reservation(s, e) \in AnyPiece /\ Iter(s, e) \in AnyPiece
  <2>1. GenDist(e, s) \in Nat
    BY DistType
  <2> QED  BY <1>1, <2>1 DEF Nothing, AnyPiece, Reservation, Iter
<1> QED  BY <1>2, <1>3

LEMMA PieceParts ==
    ASSUME RingTypes, NEW h \in Handles
    PROVE  /\ piece[h] \in AnyPiece
           /\ piece[h].start \in Gens /\ piece[h].end \in Gens /\ piece[h].cursor \in Gens
           /\ piece[h].written \in Nat /\ piece[h].total \in Nat
           /\ LenOf(h) \in Gens /\ LenOf(h) \in Nat
           /\ RangeOf(h) = {g \in Gens : GenDist(g, piece[h].start) < LenOf(h)}
<1>1. /\ piece[h] \in AnyPiece
      /\ piece[h].start \in Gens /\ piece[h].end \in Gens /\ piece[h].cursor \in Gens
      /\ piece[h].written \in Nat /\ piece[h].total \in Nat
  BY DEF RingTypes, AnyPiece
<1>2. LenOf(h) \in Gens /\ LenOf(h) \in Nat
  BY <1>1, DistType DEF LenOf
<1>3. RangeOf(h) = {g \in Gens : GenDist(g, piece[h].start) < LenOf(h)}
  BY <1>1, RangeIs DEF RangeOf, LenOf
<1> QED  BY <1>1, <1>2, <1>3

LEMMA RoomIs ==
    ASSUME RingTypes, Window
    PROVE  /\ UnreadLen \in Nat /\ PendingLen \in Nat
           /\ GenDist(write_gen, free_gen) = UnreadLen + PendingLen
           /\ Available = Capacity - (UnreadLen + PendingLen)
<1>1. /\ GenDist(write_gen, free_gen) = IF PendingLen + UnreadLen < Msb
                                        THEN PendingLen + UnreadLen
                                        ELSE PendingLen + UnreadLen - Msb
      /\ UnreadLen \in Nat /\ PendingLen \in Nat
  BY DistSum, DistType DEF RingTypes, UnreadLen, PendingLen
<1>2. UnreadLen + PendingLen < Msb /\ UnreadLen + PendingLen <= Capacity /\ Capacity \in Nat
  BY <1>1, CapacityAssumption, GensAre DEF Window
<1> QED  BY <1>1, <1>2 DEF Available

LEMMA AvailableType == RingTypes => Available \in Nat
<1> SUFFICES ASSUME RingTypes PROVE Available \in Nat
  OBVIOUS
<1>1. GenDist(write_gen, free_gen) \in Nat
  BY DistType DEF RingTypes
<1> QED  BY <1>1, CapacityAssumption DEF Available

LEMMA TakeTypes ==
    ASSUME RingTypes, NEW h \in Handles, NEW n \in Nat, Take(h, n) PROVE RingTypes'
<1>1. GenAdd(write_gen, n) \in Gens
  BY SumType DEF RingTypes
<1> QED  BY <1>1, NewPieces DEF RingTypes, Take

LEMMA PublishTypes ==
    ASSUME RingTypes, NEW h \in Handles, PublishPiece(h) PROVE RingTypes'
  BY NewPieces, PieceParts DEF RingTypes, PublishPiece, PublishSlots

LEMMA FillTypes ==
    ASSUME RingTypes, NEW g \in unheld, FillUnheld(g) PROVE RingTypes'
  BY CellType DEF RingTypes, FillUnheld

LEMMA ReservationKeepsTypes ==
    ASSUME RingTypes, NEW h \in Handles, ReservationStep(h) PROVE RingTypes'
<1>1. ASSUME NEW n \in 0 .. MaxBatch, Reserve(h, n) PROVE RingTypes'
  BY <1>1, BatchAssumption, TakeTypes DEF Reserve
<1>2. ASSUME NEW n \in 0 .. MaxBatch, ReserveBestEffort(h, n) PROVE RingTypes'
  <2> DEFINE actual == IF n <= Available THEN n ELSE Available
  <2>1. actual \in Nat
    BY BatchAssumption, AvailableType
  <2>2. CASE actual = 0
    <3>1. /\ piece' = [piece EXCEPT ![h] = Reservation(0, 0)]
          /\ UNCHANGED <<write_gen, read_gen, free_gen, buffer, slots, unheld>>
      BY <1>2, <2>2 DEF ReserveBestEffort
    <3>2. Reservation(0, 0) \in AnyPiece
      BY NewPieces, GensAre
    <3> QED  BY <3>1, <3>2 DEF RingTypes
  <2>3. CASE actual # 0
    <3>1. Take(h, actual)
      BY <1>2, <2>3 DEF ReserveBestEffort
    <3> HIDE DEF actual
    <3> QED  BY <2>1, <3>1, TakeTypes
  <2> QED  BY <2>2, <2>3
<1>3. ASSUME NEW i \in 0 .. Capacity, GetMut(h, i) PROVE RingTypes'
  <2>1. GenAdd(piece[h].start, i) \in Gens
    BY PieceParts, SumType, CapacityAssumption
  <2> QED  BY <1>3, <2>1, CellType DEF GetMut, RingTypes
<1>4. ASSUME NEW i \in 0 .. Capacity, NEW right \in Handles \ {h}, SplitAtMut(h, right, i)
      PROVE  RingTypes'
  <2>1. GenAdd(piece[h].start, i) \in Gens
    BY PieceParts, SumType, CapacityAssumption
  <2> QED  BY <1>4, <2>1, PieceParts, NewPieces DEF SplitAtMut, RingTypes
<1>5. ASSUME Publish(h) PROVE RingTypes'
  BY <1>5, PublishTypes DEF Publish
<1>6. ASSUME DropReservation(h) PROVE RingTypes'
  BY <1>6, PieceParts, NewPieces DEF DropReservation, RingTypes
<1> QED  BY <1>1, <1>2, <1>3, <1>4, <1>5, <1>6 DEF ReservationStep

LEMMA IterKeepsTypes ==
    ASSUME RingTypes, NEW h \in Handles, IterStep(h) PROVE RingTypes'
<1>0. piece[h].start \in Gens /\ piece[h].end \in Gens /\ piece[h] \in AnyPiece
      /\ RangeOf(h) \subseteq Gens
  BY PieceParts
<1>1. ASSUME IntoIter(h) PROVE RingTypes'
  BY <1>0, <1>1, NewPieces DEF IntoIter, RingTypes
<1>2. ASSUME NextSlot(h) PROVE RingTypes'
  <2>1. piece[h].cursor \in Gens /\ GenAdd(piece[h].cursor, 1) \in Gens
    BY PieceParts, SumType
  <2>2. [piece[h] EXCEPT !.cursor = GenAdd(piece[h].cursor, 1)] \in AnyPiece
    BY <1>0, <2>1 DEF AnyPiece
  <2> QED  BY <1>2, <2>1, <2>2 DEF NextSlot, RingTypes
<1>3. ASSUME PublishIter(h) PROVE RingTypes'
  BY <1>3, PublishTypes DEF PublishIter
<1>4. ASSUME DropIter(h) PROVE RingTypes'
  BY <1>0, <1>4, NewPieces DEF DropIter, RingTypes
<1>5. ASSUME NEW o \in Handles \ {h}, SwapIters(h, o) PROVE RingTypes'
  BY <1>5 DEF SwapIters, RingTypes
<1> QED  BY <1>1, <1>2, <1>3, <1>4, <1>5 DEF IterStep

LEMMA SlotKeepsTypes ==
    ASSUME RingTypes, NEW s \in slots, WriteSlot(s) \/ DropSlot(s) PROVE RingTypes'
<1>0. s.gen \in Gens /\ s.at \in Handles
  BY DEF RingTypes
<1>1. ASSUME WriteSlot(s) PROVE RingTypes'
  <2>1. buffer' \in [0 .. Capacity - 1 -> Gens \cup {Empty}]
    BY <1>0, <1>1, CellType DEF WriteSlot, RingTypes
  <2>2. [piece[s.at] EXCEPT !.written = piece[s.at].written + 1] \in AnyPiece
    BY <1>0, PieceParts DEF AnyPiece
  <2>3. piece' \in [Handles -> AnyPiece]
    BY <1>0, <1>1, <2>2 DEF WriteSlot, RingTypes
  <2> QED  BY <1>1, <2>1, <2>3 DEF WriteSlot, RingTypes
<1>2. ASSUME DropSlot(s) PROVE RingTypes'
  BY <1>2 DEF DropSlot, RingTypes
<1> QED  BY <1>1, <1>2

LEMMA ReleaseKeepsTypes == RingTypes /\ Release => RingTypes'
<1> SUFFICES ASSUME RingTypes, Release PROVE RingTypes'
  OBVIOUS
<1>1. GenAdd(free_gen, 1) \in Gens /\ Cell(free_gen) \in 0 .. Capacity - 1
  BY SumType, CellType DEF RingTypes
<1> QED  BY <1>1 DEF Release, RingTypes

-----------------------------------------------------------------------------
(* Ranges seen from read_gen.                                              *)
LEMMA SubRange ==
    ASSUME NEW base \in Gens, NEW start \in Gens, NEW g \in Gens, NEW len \in Nat,
           GenDist(start, base) + len <= Msb
    PROVE  GenDist(g, start) < len <=> /\ GenDist(start, base) <= GenDist(g, base)
                                       /\ GenDist(g, base) < GenDist(start, base) + len
<1>1. GenDist(g, base) = IF GenDist(g, start) + GenDist(start, base) < Msb
                         THEN GenDist(g, start) + GenDist(start, base)
                         ELSE GenDist(g, start) + GenDist(start, base) - Msb
  BY DistSum
<1>2. /\ GenDist(g, start) \in Nat /\ GenDist(g, start) < Msb
      /\ GenDist(start, base) \in Nat /\ GenDist(g, base) \in Nat /\ Msb \in Nat
  BY DistType, GensAre
<1> QED  BY <1>1, <1>2

LEMMA WindowIs ==
    ASSUME RingTypes
    PROVE  /\ Unread  = {g \in Gens : GenDist(g, free_gen) < UnreadLen}
           /\ Pending = {g \in Gens : GenDist(g, read_gen) < PendingLen}
  BY RangeIs DEF RingTypes, Unread, Pending, UnreadLen, PendingLen

LEMMA RunIs ==
    ASSUME RingTypes, Window, NEW h \in Handles, Fits(h)
    PROVE  /\ LenOf(h) = 0 => RangeOf(h) = {}
           /\ LenOf(h) <= Capacity
           /\ RangeOf(h) \subseteq Pending
           /\ LenOf(h) # 0 => /\ Offset(h) \in Nat /\ Offset(h) + LenOf(h) <= PendingLen
                              /\ piece[h].start \in RangeOf(h)
                              /\ \A g \in Gens : g \in RangeOf(h) <=>
                                    /\ Offset(h) <= GenDist(g, read_gen)
                                    /\ GenDist(g, read_gen) < Offset(h) + LenOf(h)
<1>0. /\ piece[h].start \in Gens /\ read_gen \in Gens /\ LenOf(h) \in Nat
      /\ RangeOf(h) = {g \in Gens : GenDist(g, piece[h].start) < LenOf(h)}
      /\ Pending = {g \in Gens : GenDist(g, read_gen) < PendingLen}
  BY PieceParts, WindowIs DEF RingTypes
<1>1. /\ UnreadLen \in Nat /\ PendingLen \in Nat /\ PendingLen <= Capacity /\ Capacity < Msb
      /\ Capacity \in Nat /\ Msb \in Nat
  BY RoomIs, CapacityAssumption, GensAre DEF Window
<1>2. \A g \in Gens : GenDist(g, piece[h].start) \in Nat /\ GenDist(g, read_gen) \in Nat
  BY <1>0, DistType
<1>3. CASE LenOf(h) = 0
  <2>1. RangeOf(h) = {}
    BY <1>0, <1>2, <1>3
  <2> QED  BY <1>1, <1>3, <2>1
<1>4. CASE LenOf(h) # 0
  <2>1. Offset(h) \in Nat /\ Offset(h) + LenOf(h) <= PendingLen
    BY <1>0, <1>2, <1>4 DEF Fits, Offset
  <2>2. GenDist(piece[h].start, piece[h].start) = 0
    BY <1>0, DistZero
  <2>3. \A g \in Gens : g \in RangeOf(h) <=>
            /\ Offset(h) <= GenDist(g, read_gen)
            /\ GenDist(g, read_gen) < Offset(h) + LenOf(h)
    <3>1. GenDist(piece[h].start, read_gen) + LenOf(h) <= Msb
      BY <1>0, <1>1, <2>1 DEF Offset
    <3> QED  BY <1>0, <3>1, SubRange DEF Offset
  <2>4. RangeOf(h) \subseteq Pending
    BY <1>0, <1>1, <1>2, <2>1, <2>3
  <2> QED  BY <1>0, <1>1, <1>4, <2>1, <2>2, <2>3, <2>4
<1> QED  BY <1>3, <1>4

LEMMA TileParts ==
    ASSUME TileInv
    PROVE  /\ RingTypes /\ Window
           /\ \A h \in Handles : Fits(h) /\ RangeOf(h) \subseteq Gens
           /\ \A g \in Pending \ unheld : \E h \in Handles : g \in RangeOf(h)
           /\ \A h, o \in Handles : h # o => RangeOf(h) \cap RangeOf(o) = {}
           /\ unheld \subseteq Pending
           /\ \A h \in Handles : RangeOf(h) \cap unheld = {}
           /\ \A h \in Handles : Is(h, "none") => RangeOf(h) = {} /\ LenOf(h) = 0
<1>1. RingTypes
  BY DEF TileInv
<1>2. \A h \in Handles : RangeOf(h) \subseteq Gens
  BY <1>1, PieceParts
<1>3. ASSUME NEW h \in Handles, Is(h, "none") PROVE RangeOf(h) = {} /\ LenOf(h) = 0
  <2>1. piece[h].start = 0 /\ piece[h].end = 0
    BY <1>3 DEF TileInv, Fits, Nothing
  <2>2. LenOf(h) = 0
    BY <2>1, GensAre, DistZero DEF LenOf
  <2> QED  BY <2>2, RunIs DEF TileInv
<1> QED  BY <1>1, <1>2, <1>3 DEF TileInv, PiecesTile, Deferred

LEMMA NothingIsEmpty ==
    ASSUME NEW h \in Handles, piece'[h] = Nothing
    PROVE  RangeOf(h)' = {} /\ LenOf(h)' = 0 /\ Fits(h)'
<1>1. piece'[h].start = 0 /\ piece'[h].end = 0 /\ 0 \in Gens
  BY GensAre DEF Nothing
<1>2. LenOf(h)' = 0
  BY <1>1, DistZero DEF LenOf
<1>3. GenRange(0, 0) = {}
  BY <1>1, DistZero DEF GenRange
<1> QED  BY <1>1, <1>2, <1>3 DEF RangeOf, Fits

-----------------------------------------------------------------------------
(* Steps that move no end of a piece.                                      *)
LEMMA SameRange ==
    ASSUME NEW h \in Handles, piece'[h].start = piece[h].start, piece'[h].end = piece[h].end
    PROVE  RangeOf(h)' = RangeOf(h) /\ LenOf(h)' = LenOf(h)
  BY DEF RangeOf, LenOf

LEMMA SameTiles ==
    ASSUME TileInv, RingTypes', UNCHANGED <<write_gen, read_gen, free_gen, unheld>>,
           \A h \in Handles : /\ piece'[h].start = piece[h].start
                              /\ piece'[h].end = piece[h].end
                              /\ Is(h, "none")' => piece'[h] = Nothing
    PROVE  TileInv'
<1>1. \A h \in Handles : RangeOf(h)' = RangeOf(h) /\ LenOf(h)' = LenOf(h)
  BY SameRange
<1>2. Pending' = Pending /\ PendingLen' = PendingLen /\ Window'
  BY DEF TileInv, Pending, PendingLen, UnreadLen, Window
<1>3. \A h \in Handles : Fits(h)'
  BY <1>1, <1>2 DEF TileInv, Fits, Offset
<1> QED  BY <1>1, <1>2, <1>3 DEF TileInv, PiecesTile, Deferred

(* A reservation takes what is next to write_gen.                          *)
LEMMA TakeKeepsTiles ==
    ASSUME TileInv, NEW h \in Handles, NEW n \in Nat, n # 0, n <= Available,
           Is(h, "none"), Take(h, n)
    PROVE  TileInv'
<1> DEFINE w == GenAdd(write_gen, n)
<1>0. RingTypes' /\ RingTypes /\ Window /\ write_gen \in Gens /\ read_gen \in Gens
  BY TakeTypes DEF TileInv, RingTypes
<1>1. /\ UnreadLen \in Nat /\ PendingLen \in Nat /\ Capacity \in Nat /\ Capacity < Msb
      /\ UnreadLen + PendingLen + n <= Capacity /\ n \in Gens
  BY <1>0, RoomIs, CapacityAssumption, GensAre
<1>2. w \in Gens /\ GenDist(w, write_gen) = n
  BY <1>0, <1>1, DistOfSum
<1>3. GenDist(w, read_gen) = PendingLen + n
  <2> HIDE DEF w
  <2>1. GenDist(w, read_gen) = IF GenDist(w, write_gen) + GenDist(write_gen, read_gen) < Msb
                               THEN GenDist(w, write_gen) + GenDist(write_gen, read_gen)
                               ELSE GenDist(w, write_gen) + GenDist(write_gen, read_gen) - Msb
    BY <1>0, <1>2, DistSum
  <2> QED  BY <1>1, <1>2, <2>1, GensAre DEF PendingLen
<1> HIDE DEF w
<1>4. /\ write_gen' = w /\ read_gen' = read_gen /\ free_gen' = free_gen /\ unheld' = unheld
      /\ piece'[h] = Reservation(write_gen, w)
      /\ \A o \in Handles \ {h} : piece'[o] = piece[o]
  BY <1>0 DEF Take, RingTypes, w
<1>5. PendingLen' = PendingLen + n /\ UnreadLen' = UnreadLen /\ Window'
  BY <1>1, <1>3, <1>4 DEF PendingLen, UnreadLen, Window
<1>6. piece'[h].start = write_gen /\ piece'[h].end = w /\ ~Is(h, "none")'
  BY <1>4 DEF Reservation, Nothing, Is
<1>7. LenOf(h)' = n /\ Offset(h)' = PendingLen
  BY <1>2, <1>4, <1>6 DEF LenOf, Offset, PendingLen
<1>8. \A o \in Handles : Fits(o)'
  <2>1. Fits(h)'
    BY <1>1, <1>5, <1>6, <1>7 DEF Fits
  <2>2. ASSUME NEW o \in Handles \ {h} PROVE Fits(o)'
    <3>1. Fits(o) /\ Offset(o) \in Nat /\ LenOf(o) \in Nat
      BY <1>0, PieceParts, DistType DEF TileInv, Offset
    <3>2. Offset(o)' = Offset(o) /\ LenOf(o)' = LenOf(o) /\ piece'[o] = piece[o]
      BY <1>4 DEF Offset, LenOf
    <3> QED  BY <1>1, <1>5, <3>1, <3>2 DEF Fits, Is
  <2> QED  BY <2>1, <2>2
<1>9. RangeOf(h)' = {g \in Gens : GenDist(g, write_gen) < n}
  BY <1>2, <1>0, <1>6, RangeIs DEF RangeOf
<1>10. Pending' = Pending \cup RangeOf(h)' /\ Pending \cap RangeOf(h)' = {}
  <2>1. ASSUME NEW g \in Gens
        PROVE  /\ GenDist(g, read_gen) \in Nat
               /\ g \in RangeOf(h)' <=> /\ PendingLen <= GenDist(g, read_gen)
                                        /\ GenDist(g, read_gen) < PendingLen + n
    <3>1. GenDist(write_gen, read_gen) + n <= Msb
      BY <1>1, GensAre DEF PendingLen
    <3> QED  BY <1>0, <1>9, <3>1, SubRange, DistType DEF PendingLen
  <2>2. /\ Pending  = {g \in Gens : GenDist(g, read_gen) < PendingLen}
        /\ Pending' = {g \in Gens : GenDist(g, read_gen) < PendingLen + n}
    <3>1. Pending' = {g \in Gens : GenDist(g, read_gen) < GenDist(w, read_gen)}
      BY <1>0, <1>2, <1>4, RangeIs DEF Pending
    <3> QED  BY <1>0, <1>3, <3>1, WindowIs
  <2>3. RangeOf(h)' \subseteq Gens
    BY <1>9
  <2>4. ASSUME NEW g \in Gens
        PROVE  /\ g \in Pending' <=> g \in Pending \/ g \in RangeOf(h)'
               /\ ~(g \in Pending /\ g \in RangeOf(h)')
    BY <1>1, <2>1, <2>2
  <2> QED  BY <2>2, <2>3, <2>4
<1>11. \A o \in Handles \ {h} : RangeOf(o)' = RangeOf(o)
  BY <1>4 DEF RangeOf
<1>12. PiecesTile' /\ Deferred'
  BY <1>4, <1>10, <1>11, TileParts DEF PiecesTile, Deferred, TileInv
<1> QED  BY <1>0, <1>5, <1>8, <1>12 DEF TileInv

(* Publishing moves read_gen over the range of the piece that is in turn.  *)
LEMMA PublishIs ==
    ASSUME TileInv, NEW h \in Handles, PublishPiece(h)
    PROVE  /\ LenOf(h) = 0 => read_gen' = read_gen
           /\ LenOf(h) # 0 => read_gen = piece[h].start /\ read_gen' = piece[h].end
           /\ piece'[h] = Nothing
           /\ \A o \in Handles \ {h} : piece'[o] = piece[o]
<1>1. piece[h].start \in Gens /\ piece[h].end \in Gens /\ LenOf(h) <= Capacity
  BY PieceParts, RunIs DEF TileInv
<1>2. GenGte(piece[h].start, piece[h].end) <=> LenOf(h) = 0
  BY <1>1, EmptyIsGte DEF LenOf
<1>3. piece' = [piece EXCEPT ![h] = Nothing] /\ piece \in [Handles -> AnyPiece]
  BY DEF PublishPiece, TileInv, RingTypes
<1> QED  BY <1>2, <1>3 DEF PublishPiece, PublishSlots, InTurn

LEMMA ReadGenMoves ==
    ASSUME RingTypes, Window, NEW e \in Gens, GenDist(e, read_gen) <= PendingLen,
           read_gen' = e, UNCHANGED <<write_gen, free_gen>>
    PROVE  LET len   == GenDist(e, read_gen)
               range == GenRange(read_gen, e)
           IN  /\ len \in Nat
               /\ PendingLen' = PendingLen - len
               /\ UnreadLen' = UnreadLen + len
               /\ \A g \in Gens : /\ g \in range <=> GenDist(g, read_gen) < len
                                  /\ GenDist(g, read_gen) >= len =>
                                     GenDist(g, read_gen') = GenDist(g, read_gen) - len
               /\ Pending' = Pending \ range
               /\ Unread' = Unread \cup range
<1> DEFINE len   == GenDist(e, read_gen)
           range == GenRange(read_gen, e)
<1>0. /\ write_gen \in Gens /\ read_gen \in Gens /\ free_gen \in Gens
      /\ len \in Nat /\ len <= PendingLen /\ read_gen' = e
      /\ UNCHANGED <<write_gen, free_gen>>
  BY DistType DEF RingTypes
<1>1. /\ UnreadLen \in Nat /\ PendingLen \in Nat /\ UnreadLen + PendingLen <= Capacity
      /\ Capacity \in Nat /\ Capacity < Msb /\ Msb \in Nat
  BY RoomIs, CapacityAssumption, GensAre DEF Window
<1>2. GenDist(e, read_gen) = len
  OBVIOUS
<1>3. range = {g \in Gens : GenDist(g, read_gen) < len}
  BY <1>0, RangeIs
<1> HIDE DEF len, range
<1>4. ASSUME NEW g \in Gens
      PROVE  /\ GenDist(g, read_gen) \in Nat /\ GenDist(g, e) \in Nat
             /\ GenDist(g, read_gen) >= len => GenDist(g, e) = GenDist(g, read_gen) - len
             /\ GenDist(g, read_gen) < len => GenDist(g, e) = GenDist(g, read_gen) - len + Msb
  <2>1. GenDist(g, read_gen) = IF GenDist(g, e) + GenDist(e, read_gen) < Msb
                               THEN GenDist(g, e) + GenDist(e, read_gen)
                               ELSE GenDist(g, e) + GenDist(e, read_gen) - Msb
    BY <1>0, DistSum
  <2>2. /\ GenDist(g, read_gen) \in Nat /\ GenDist(g, e) \in Nat
        /\ GenDist(g, e) < Msb /\ GenDist(g, read_gen) < Msb
    BY <1>0, DistType
  <2> QED  BY <1>0, <1>1, <1>2, <2>1, <2>2
<1>5. PendingLen' = PendingLen - len
  BY <1>0, <1>3, <1>4 DEF PendingLen
<1>6. UnreadLen' = UnreadLen + len
  <2>1. GenDist(e, free_gen) = IF GenDist(e, read_gen) + GenDist(read_gen, free_gen) < Msb
                               THEN GenDist(e, read_gen) + GenDist(read_gen, free_gen)
                               ELSE GenDist(e, read_gen) + GenDist(read_gen, free_gen) - Msb
    BY <1>0, DistSum
  <2> QED  BY <1>0, <1>1, <1>2, <1>3, <2>1 DEF UnreadLen
<1>7. Pending' = Pending \ range
  <2>1. Pending' = {g \in Gens : GenDist(g, e) < PendingLen - len}
    <3>1. Pending' = {g \in Gens : GenDist(g, e) < GenDist(write_gen, e)}
      BY <1>0, RangeIs DEF Pending
    <3> QED  BY <1>0, <1>5, <3>1 DEF PendingLen
  <2>2. Pending = {g \in Gens : GenDist(g, read_gen) < PendingLen}
    BY WindowIs
  <2>3. ASSUME NEW g \in Gens PROVE g \in Pending' <=> g \in Pending /\ g \notin range
    BY <1>0, <1>1, <1>3, <1>4, <2>1, <2>2
  <2> QED  BY <2>1, <2>2, <2>3
<1>8. Unread' = Unread \cup range
  <2>1. Unread' = {g \in Gens : GenDist(g, free_gen) < UnreadLen + len}
    <3>1. Unread' = {g \in Gens : GenDist(g, free_gen) < GenDist(e, free_gen)}
      BY <1>0, RangeIs DEF Unread
    <3> QED  BY <1>0, <1>6, <3>1 DEF UnreadLen
  <2>2. Unread = {g \in Gens : GenDist(g, free_gen) < UnreadLen}
    BY WindowIs
  <2>3. range \subseteq Gens
    BY <1>3
  <2>4. ASSUME NEW g \in Gens PROVE g \in Unread' <=> g \in Unread \/ g \in range
    <3>1. GenDist(g, read_gen) < len <=> /\ UnreadLen <= GenDist(g, free_gen)
                                         /\ GenDist(g, free_gen) < UnreadLen + len
      <4>1. GenDist(read_gen, free_gen) + len <= Msb
        BY <1>0, <1>1, <1>3 DEF UnreadLen
      <4> QED  BY <1>0, <4>1, SubRange DEF UnreadLen
    <3>2. GenDist(g, free_gen) \in Nat
      BY <1>0, DistType
    <3> QED  BY <1>0, <1>1, <1>3, <2>1, <2>2, <3>1, <3>2
  <2> QED  BY <2>1, <2>2, <2>3, <2>4
<1> QED  BY <1>0, <1>3, <1>4, <1>5, <1>6, <1>7, <1>8 DEF len, range

LEMMA PublishMoves ==
    ASSUME TileInv, NEW h \in Handles, LenOf(h) # 0,
           read_gen = piece[h].start, read_gen' = piece[h].end,
           UNCHANGED <<write_gen, free_gen>>
    PROVE  /\ PendingLen' = PendingLen - LenOf(h)
           /\ UnreadLen' = UnreadLen + LenOf(h)
           /\ \A g \in Gens : /\ g \in RangeOf(h) <=> GenDist(g, read_gen) < LenOf(h)
                              /\ GenDist(g, read_gen) >= LenOf(h) =>
                                 GenDist(g, read_gen') = GenDist(g, read_gen) - LenOf(h)
           /\ Pending' = Pending \ RangeOf(h)
           /\ Unread' = Unread \cup RangeOf(h)
<1> DEFINE e == piece[h].end
<1>1. RingTypes /\ Window /\ e \in Gens /\ read_gen \in Gens
  BY PieceParts DEF TileInv, RingTypes
<1>2. GenDist(e, read_gen) = LenOf(h) /\ GenRange(read_gen, e) = RangeOf(h)
  BY DEF LenOf, RangeOf
<1>3. LenOf(h) <= PendingLen
  <2>1. Offset(h) = 0 /\ LenOf(h) \in Nat
    BY <1>1, PieceParts, DistZero DEF Offset
  <2> QED  BY <2>1, RunIs DEF TileInv
<1> HIDE DEF e
<1>4. read_gen' = e
  BY DEF e
<1> QED  BY <1>1, <1>2, <1>3, <1>4, ReadGenMoves

LEMMA PublishKeepsTiles ==
    ASSUME TileInv, NEW h \in Handles, PublishPiece(h) PROVE TileInv'
<1>0. /\ RingTypes' /\ piece'[h] = Nothing /\ \A o \in Handles \ {h} : piece'[o] = piece[o]
      /\ RangeOf(h)' = {} /\ Fits(h)'
  BY PublishTypes, PublishIs, NothingIsEmpty DEF TileInv
<1>1. \A o \in Handles \ {h} : RangeOf(o)' = RangeOf(o) /\ LenOf(o)' = LenOf(o)
  BY <1>0 DEF RangeOf, LenOf
<1>2. CASE LenOf(h) = 0
  <2>1. UNCHANGED <<write_gen, read_gen, free_gen, unheld>> /\ RangeOf(h) = {}
    BY <1>2, PublishIs, RunIs DEF TileInv, PublishPiece
  <2>2. Pending' = Pending /\ PendingLen' = PendingLen /\ Window'
    BY <2>1 DEF TileInv, Pending, PendingLen, UnreadLen, Window
  <2>3. \A o \in Handles : Fits(o)'
    BY <1>0, <1>1, <2>1, <2>2 DEF TileInv, Fits, Offset, Is
  <2>4. PiecesTile' /\ Deferred'
    BY <1>0, <1>1, <2>1, <2>2, TileParts DEF PiecesTile, Deferred, TileInv
  <2> QED  BY <1>0, <2>2, <2>3, <2>4 DEF TileInv
<1>3. CASE LenOf(h) # 0
  <2>1. /\ read_gen = piece[h].start /\ read_gen' = piece[h].end
        /\ UNCHANGED <<write_gen, free_gen, unheld>>
    BY <1>3, PublishIs DEF PublishPiece
  <2>2. /\ PendingLen' = PendingLen - LenOf(h) /\ UnreadLen' = UnreadLen + LenOf(h)
        /\ Pending' = Pending \ RangeOf(h)
        /\ \A g \in Gens : /\ g \in RangeOf(h) <=> GenDist(g, read_gen) < LenOf(h)
                           /\ GenDist(g, read_gen) >= LenOf(h) =>
                              GenDist(g, read_gen') = GenDist(g, read_gen) - LenOf(h)
    BY <1>3, <2>1, PublishMoves
  <2>3. PendingLen \in Nat /\ UnreadLen \in Nat /\ LenOf(h) \in Nat /\ Window'
    BY <2>2, RoomIs, PieceParts DEF TileInv, Window
  <2>4. ASSUME NEW o \in Handles \ {h} PROVE Fits(o)'
    <3>1. CASE LenOf(o) = 0
      BY <1>0, <1>1, <3>1 DEF TileInv, Fits, Is
    <3>2. CASE LenOf(o) # 0
      <4>1. /\ piece[o].start \in RangeOf(o) /\ piece[o].start \in Gens
            /\ Offset(o) \in Nat /\ Offset(o) + LenOf(o) <= PendingLen
            /\ LenOf(o) \in Nat
        BY <3>2, RunIs, PieceParts DEF TileInv
      <4>2. piece[o].start \notin RangeOf(h)
        BY <4>1, TileParts
      <4>3. Offset(o)' = Offset(o) - LenOf(h)
        BY <1>0, <2>2, <2>3, <4>1, <4>2 DEF Offset
      <4> QED  BY <1>0, <1>1, <2>2, <2>3, <4>1, <4>3 DEF TileInv, Fits, Is
    <3> QED  BY <3>1, <3>2
  <2>5. PiecesTile' /\ Deferred'
    BY <1>0, <1>1, <2>1, <2>2, TileParts DEF PiecesTile, Deferred, TileInv
  <2> QED  BY <1>0, <2>3, <2>4, <2>5 DEF TileInv
<1> QED  BY <1>2, <1>3

(* What is dropped unpublished is in no handle from then on.               *)
LEMMA DropKeepsTiles ==
    ASSUME TileInv, RingTypes', NEW h \in Handles,
           unheld' = unheld \cup RangeOf(h), piece' = [piece EXCEPT ![h] = Nothing],
           UNCHANGED <<write_gen, read_gen, free_gen>>
    PROVE  TileInv'
<1>0. /\ piece'[h] = Nothing /\ (\A o \in Handles \ {h} : piece'[o] = piece[o])
      /\ RangeOf(h)' = {} /\ Fits(h)'
  BY NothingIsEmpty DEF TileInv, RingTypes
<1>1. \A o \in Handles \ {h} : RangeOf(o)' = RangeOf(o) /\ LenOf(o)' = LenOf(o)
  BY <1>0 DEF RangeOf, LenOf
<1>2. Pending' = Pending /\ PendingLen' = PendingLen /\ Window'
  BY DEF TileInv, Pending, PendingLen, UnreadLen, Window
<1>3. \A o \in Handles : Fits(o)'
  BY <1>0, <1>1, <1>2 DEF TileInv, Fits, Offset, Is
<1>4. PiecesTile' /\ Deferred'
  BY <1>0, <1>1, <1>2, TileParts DEF PiecesTile, Deferred, TileInv
<1> QED  BY <1>2, <1>3, <1>4 DEF TileInv

(* A range that no handle has is published when it is next.                *)
LEMMA UnheldIs ==
    ASSUME TileInv, NEW start \in unheld, NEW n \in 1 .. Capacity, PublishUnheld(start, n)
    PROVE  LET e == GenAdd(start, n)
           IN  /\ e \in Gens /\ GenDist(e, read_gen) = n /\ n <= PendingLen
               /\ read_gen = start /\ read_gen' = e
               /\ GenRange(read_gen, e) \subseteq unheld
<1> DEFINE e == GenAdd(start, n)
<1>0. /\ start \in Gens /\ start \in Pending /\ read_gen \in Gens
      /\ n \in Nat /\ n - 1 \in Nat /\ n \in Gens /\ n - 1 \in Gens /\ n <= Capacity
      /\ PendingLen \in Nat
  BY TileParts, RoomIs, GensAre, CapacityAssumption DEF RingTypes
<1>1. e \in Gens /\ GenDist(e, start) = n
  BY <1>0, DistOfSum
<1> HIDE DEF e
<1>2. read_gen = start /\ read_gen' = e /\ GenRange(start, e) \subseteq unheld
  <2>1. ~GenGte(start, e)
    BY <1>0, <1>1, EmptyIsGte
  <2> QED  BY <2>1 DEF PublishUnheld, PublishSlots, InTurn, e
<1>3. n <= PendingLen
  <2> DEFINE g == GenAdd(start, n - 1)
  <2>1. g \in Gens /\ GenDist(g, start) = n - 1
    BY <1>0, DistOfSum
  <2> HIDE DEF g
  <2>2. g \in GenRange(start, e)
    BY <1>0, <1>1, <2>1, RangeIs
  <2>3. GenDist(g, read_gen) < PendingLen
    BY <1>2, <2>2, TileParts, WindowIs
  <2> QED  BY <1>0, <1>2, <2>1, <2>3
<1> QED  BY <1>1, <1>2, <1>3 DEF e

LEMMA UnheldKeepsTiles ==
    ASSUME TileInv, NEW start \in unheld, NEW n \in 1 .. Capacity, PublishUnheld(start, n)
    PROVE  TileInv'
<1> DEFINE e     == GenAdd(start, n)
           range == GenRange(read_gen, e)
<1>0. /\ e \in Gens /\ GenDist(e, read_gen) = n /\ n <= PendingLen /\ n \in Nat
      /\ read_gen = start /\ read_gen' = e /\ range \subseteq unheld
      /\ unheld' = unheld \ range /\ UNCHANGED <<write_gen, free_gen, buffer, piece, slots>>
  BY UnheldIs DEF PublishUnheld
<1> HIDE DEF e
<1>1. /\ PendingLen' = PendingLen - n /\ UnreadLen' = UnreadLen + n
      /\ Pending' = Pending \ range
      /\ \A g \in Gens : /\ g \in range <=> GenDist(g, read_gen) < n
                         /\ GenDist(g, read_gen) >= n =>
                            GenDist(g, read_gen') = GenDist(g, read_gen) - n
  BY <1>0, TileParts, ReadGenMoves
<1> HIDE DEF range
<1>2. PendingLen \in Nat /\ UnreadLen \in Nat /\ Window'
  BY <1>0, <1>1, TileParts, RoomIs DEF Window
<1>3. RingTypes'
  BY <1>0 DEF TileInv, RingTypes
<1>4. \A o \in Handles : /\ RangeOf(o)' = RangeOf(o) /\ LenOf(o)' = LenOf(o)
                        /\ RangeOf(o) \cap range = {}
  BY <1>0, TileParts DEF RangeOf, LenOf
<1>5. ASSUME NEW o \in Handles PROVE Fits(o)'
  <2>1. CASE LenOf(o) = 0
    BY <1>0, <1>4, <2>1 DEF TileInv, Fits, Is
  <2>2. CASE LenOf(o) # 0
    <3>1. /\ piece[o].start \in RangeOf(o) /\ piece[o].start \in Gens
          /\ Offset(o) \in Nat /\ Offset(o) + LenOf(o) <= PendingLen
          /\ LenOf(o) \in Nat
      BY <2>2, RunIs, PieceParts DEF TileInv
    <3>2. Offset(o)' = Offset(o) - n
      BY <1>0, <1>1, <1>4, <3>1 DEF Offset
    <3> QED  BY <1>0, <1>1, <1>2, <1>4, <3>1, <3>2 DEF TileInv, Fits, Is
  <2> QED  BY <2>1, <2>2
<1>6. PiecesTile' /\ Deferred'
  <2>1. \A o \in Handles : RangeOf(o)' \subseteq Pending'
    BY <1>1, <1>4 DEF TileInv, PiecesTile
  <2>2. \A g \in Pending' \ unheld' : \E o \in Handles : g \in RangeOf(o)'
    BY <1>0, <1>1, <1>4, TileParts
  <2>3. unheld' \subseteq Pending' /\ \A o \in Handles : RangeOf(o)' \cap unheld' = {}
    BY <1>0, <1>1, <1>4, TileParts
  <2> QED  BY <1>4, <2>1, <2>2, <2>3, TileParts DEF PiecesTile, Deferred
<1> QED  BY <1>2, <1>3, <1>5, <1>6 DEF TileInv

(* The halves of a split, at either end too, have what the whole had.      *)
LEMMA SplitKeepsTiles ==
    ASSUME TileInv, NEW h \in Handles, NEW right \in Handles \ {h},
           NEW i \in 0 .. Capacity, SplitAtMut(h, right, i)
    PROVE  TileInv'
<1> DEFINE s   == piece[h].start
           e   == piece[h].end
           len == LenOf(h)
           mid == GenAdd(s, i)
<1>0. /\ RingTypes /\ Window /\ ReservationStep(h) /\ len \in Nat /\ i \in Nat /\ i <= len
      /\ s \in Gens /\ e \in Gens /\ read_gen \in Gens /\ Is(right, "none")
      /\ Msb \in Nat /\ len < Msb /\ Capacity \in Nat /\ i \in Gens
      /\ UNCHANGED <<write_gen, read_gen, free_gen, unheld>>
  <2>1. len < Msb /\ len \in Nat /\ i <= len
    BY PieceParts, GensAre, DistType DEF TileInv, LenOf, SplitAtMut
  <2>2. ReservationStep(h)
    BY DEF ReservationStep
  <2>3. /\ RingTypes /\ Window /\ s \in Gens /\ e \in Gens /\ read_gen \in Gens
    BY PieceParts DEF TileInv, RingTypes
  <2>4. /\ Is(right, "none") /\ UNCHANGED <<write_gen, read_gen, free_gen, unheld>>
    BY DEF SplitAtMut
  <2>5. Capacity \in Nat /\ i \in Nat /\ Msb \in Nat /\ i \in Gens
    BY <2>1, GensAre, CapacityAssumption
  <2> QED  BY <2>1, <2>2, <2>3, <2>4, <2>5
<1>1. RingTypes'
  BY <1>0, ReservationKeepsTypes
<1>2. mid \in Gens /\ GenDist(mid, s) = i
  BY <1>0, DistOfSum
<1>3. GenDist(e, s) = len
  BY DEF LenOf
<1>4. /\ piece'[h] = Reservation(s, mid) /\ piece'[right] = Reservation(mid, e)
      /\ \A o \in Handles \ {h, right} : piece'[o] = piece[o]
  BY <1>0 DEF SplitAtMut, RingTypes
<1> HIDE DEF s, e, len, mid
<1>5. /\ piece'[h].start = s /\ piece'[h].end = mid /\ ~Is(h, "none")'
      /\ piece'[right].start = mid /\ piece'[right].end = e /\ ~Is(right, "none")'
  BY <1>4 DEF Reservation, Nothing, Is
<1>6. GenDist(e, mid) = len - i
  <2>1. GenDist(e, s) = IF GenDist(e, mid) + GenDist(mid, s) < Msb
                        THEN GenDist(e, mid) + GenDist(mid, s)
                        ELSE GenDist(e, mid) + GenDist(mid, s) - Msb
    BY <1>0, <1>2, DistSum
  <2>2. GenDist(e, mid) \in Nat /\ GenDist(e, mid) < Msb
    BY <1>0, <1>2, DistType
  <2> QED  BY <1>0, <1>2, <1>3, <2>1, <2>2
<1>7. LenOf(h)' = i /\ LenOf(right)' = len - i
  BY <1>2, <1>5, <1>6 DEF LenOf
<1>8. RangeOf(h)' \cup RangeOf(right)' = RangeOf(h) /\ RangeOf(h)' \cap RangeOf(right)' = {}
  <2>1. /\ RangeOf(h)' = {g \in Gens : GenDist(g, s) < i}
        /\ RangeOf(right)' = {g \in Gens : GenDist(g, mid) < len - i}
        /\ RangeOf(h) = {g \in Gens : GenDist(g, s) < len}
    <3>1. RangeOf(h)' = GenRange(s, mid) /\ RangeOf(right)' = GenRange(mid, e)
      BY <1>5 DEF RangeOf
    <3>2. RangeOf(h) = GenRange(s, e)
      BY DEF RangeOf, s, e
    <3> QED  BY <1>0, <1>2, <1>3, <1>6, <3>1, <3>2, RangeIs
  <2>2. ASSUME NEW g \in Gens
        PROVE  /\ GenDist(g, s) \in Nat
               /\ GenDist(g, mid) < len - i <=> i <= GenDist(g, s) /\ GenDist(g, s) < len
    <3>1. len - i \in Nat /\ GenDist(mid, s) + (len - i) <= Msb
      BY <1>0, <1>2
    <3>2. GenDist(g, mid) < len - i <=> /\ GenDist(mid, s) <= GenDist(g, s)
                                        /\ GenDist(g, s) < GenDist(mid, s) + (len - i)
      BY <1>0, <1>2, <3>1, SubRange
    <3> QED  BY <1>0, <1>2, <3>2, DistType
  <2>3. ASSUME NEW g \in Gens
        PROVE  /\ g \in RangeOf(h) <=> g \in RangeOf(h)' \/ g \in RangeOf(right)'
               /\ ~(g \in RangeOf(h)' /\ g \in RangeOf(right)')
    BY <1>0, <2>1, <2>2
  <2>4. RangeOf(h) \subseteq Gens /\ RangeOf(h)' \subseteq Gens /\ RangeOf(right)' \subseteq Gens
    BY <2>1
  <2> QED  BY <2>3, <2>4
<1>9. Pending' = Pending /\ PendingLen' = PendingLen /\ Window'
  BY <1>0 DEF TileInv, Pending, PendingLen, UnreadLen, Window
<1>10. ASSUME NEW o \in Handles PROVE Fits(o)'
  <2>1. CASE o \notin {h, right}
    BY <1>0, <1>4, <1>9, <2>1 DEF TileInv, Fits, Offset, Is, LenOf
  <2>2. CASE len = 0 /\ o \in {h, right}
    BY <1>0, <1>5, <1>7, <2>2 DEF Fits
  <2>3. CASE len # 0 /\ o \in {h, right}
    <3>1. Offset(h) \in Nat /\ Offset(h) + len <= PendingLen /\ PendingLen \in Nat
          /\ PendingLen <= Capacity /\ Capacity < Msb
      BY <1>0, <2>3, RunIs, RoomIs, CapacityAssumption DEF TileInv, Window, len
    <3>2. Offset(h)' = Offset(h) /\ GenDist(s, read_gen) = Offset(h)
      BY <1>0, <1>5 DEF Offset, s
    <3>3. Offset(right)' = Offset(h) + i
      <4>1. GenDist(mid, read_gen) = IF GenDist(mid, s) + GenDist(s, read_gen) < Msb
                                     THEN GenDist(mid, s) + GenDist(s, read_gen)
                                     ELSE GenDist(mid, s) + GenDist(s, read_gen) - Msb
        BY <1>0, <1>2, DistSum
      <4>2. GenDist(mid, read_gen) = Offset(h) + i
        BY <1>0, <1>2, <3>1, <3>2, <4>1
      <4> QED  BY <1>0, <1>5, <4>2 DEF Offset
    <3>4. Fits(h)'
      BY <1>0, <1>5, <1>7, <1>9, <3>1, <3>2 DEF Fits
    <3>5. Fits(right)'
      BY <1>0, <1>5, <1>7, <1>9, <3>1, <3>3 DEF Fits
    <3> QED  BY <2>3, <3>4, <3>5
  <2> QED  BY <2>1, <2>2, <2>3
<1>11. PiecesTile' /\ Deferred'
  <2>1. \A o \in Handles \ {h, right} : RangeOf(o)' = RangeOf(o)
    BY <1>4 DEF RangeOf
  <2>2. RangeOf(right) = {}
    BY <1>0, TileParts
  <2>3. \A o \in Handles : RangeOf(o)' \subseteq RangeOf(o) \cup RangeOf(h)
    BY <1>8, <2>1
  <2>4. \A g \in Pending \ unheld : \E o \in Handles : g \in RangeOf(o)'
    BY <1>8, <2>1, <2>2, TileParts
  <2>5. \A o, p \in Handles : o # p => RangeOf(o)' \cap RangeOf(p)' = {}
    <3>1. \A o \in Handles \ {h, right} : RangeOf(o) \cap RangeOf(h) = {}
      BY TileParts
    <3> QED  BY <1>8, <2>1, <3>1, TileParts
  <2> QED  BY <1>0, <1>9, <2>3, <2>4, <2>5, TileParts DEF PiecesTile, Deferred, TileInv
<1> QED  BY <1>1, <1>9, <1>10, <1>11 DEF TileInv

LEMMA SwapKeepsTiles ==
    ASSUME TileInv, NEW h \in Handles, NEW o \in Handles \ {h}, SwapIters(h, o)
    PROVE  TileInv'
<1>1. /\ RingTypes' /\ UNCHANGED <<write_gen, read_gen, free_gen, unheld>>
      /\ piece'[h] = piece[o] /\ piece'[o] = piece[h]
      /\ \A p \in Handles \ {h, o} : piece'[p] = piece[p]
  BY IterKeepsTypes DEF IterStep, SwapIters, TileInv, RingTypes
<1>2. /\ RangeOf(h)' = RangeOf(o) /\ RangeOf(o)' = RangeOf(h)
      /\ \A p \in Handles \ {h, o} : RangeOf(p)' = RangeOf(p)
  BY <1>1 DEF RangeOf
<1>3. Pending' = Pending /\ PendingLen' = PendingLen /\ Window'
  BY <1>1 DEF TileInv, Pending, PendingLen, UnreadLen, Window
<1>4. \A p \in Handles : Fits(p)'
  BY <1>1, <1>3 DEF TileInv, Fits, Offset, LenOf, Is
<1>5. PiecesTile' /\ Deferred'
  BY <1>1, <1>2, <1>3, TileParts DEF PiecesTile, Deferred, TileInv
<1> QED  BY <1>1, <1>3, <1>4, <1>5 DEF TileInv

LEMMA ReleaseIs ==
    ASSUME RingTypes, Window, Release
    PROVE  UnreadLen' = UnreadLen - 1 /\ UnreadLen # 0 /\ free_gen \in Unread
           /\ Unread' = Unread \ {free_gen}
<1> DEFINE f == GenAdd(free_gen, 1)
<1>0. /\ free_gen \in Gens /\ read_gen \in Gens /\ 1 \in Gens /\ Msb \in Nat
      /\ UnreadLen \in Nat /\ free_gen # read_gen /\ free_gen' = f /\ read_gen' = read_gen
  BY RoomIs, GensAre DEF RingTypes, Release
<1>1. f \in Gens /\ GenDist(f, free_gen) = 1
  BY <1>0, DistOfSum
<1>2. UnreadLen # 0
  BY <1>0, DistZero DEF UnreadLen
<1> HIDE DEF f
<1>3. ASSUME NEW g \in Gens
      PROVE  /\ GenDist(g, free_gen) \in Nat
             /\ GenDist(g, free_gen) = 0 <=> g = free_gen
             /\ GenDist(g, free_gen) # 0 => GenDist(g, f) = GenDist(g, free_gen) - 1
             /\ GenDist(g, free_gen) = 0 => GenDist(g, f) = Msb - 1
  <2>1. GenDist(g, free_gen) = IF GenDist(g, f) + GenDist(f, free_gen) < Msb
                               THEN GenDist(g, f) + GenDist(f, free_gen)
                               ELSE GenDist(g, f) + GenDist(f, free_gen) - Msb
    BY <1>0, <1>1, DistSum
  <2>2. /\ GenDist(g, free_gen) \in Nat /\ GenDist(g, f) \in Nat /\ GenDist(g, f) < Msb
        /\ GenDist(g, free_gen) = 0 <=> g = free_gen
    BY <1>0, <1>1, DistType, DistZero
  <2> QED  BY <1>0, <1>1, <2>1, <2>2
<1>4. UnreadLen' = UnreadLen - 1
  BY <1>0, <1>2, <1>3 DEF UnreadLen
<1>5. Unread = {g \in Gens : GenDist(g, free_gen) < UnreadLen}
  BY WindowIs
<1>6. Unread' = {g \in Gens : GenDist(g, f) < UnreadLen - 1}
  <2>1. Unread' = {g \in Gens : GenDist(g, f) < GenDist(read_gen, f)}
    BY <1>0, <1>1, RangeIs DEF Unread
  <2> QED  BY <1>0, <1>4, <2>1 DEF UnreadLen
<1>7. UnreadLen < Msb
  BY <1>0, DistType DEF UnreadLen
<1>8. ASSUME NEW g \in Gens PROVE g \in Unread' <=> g \in Unread /\ g # free_gen
  BY <1>0, <1>2, <1>3, <1>5, <1>6, <1>7
<1>9. Unread' = Unread \ {free_gen}
  BY <1>5, <1>6, <1>8
<1> QED  BY <1>0, <1>2, <1>3, <1>4, <1>5, <1>9

LEMMA ReleaseKeepsTiles == TileInv /\ Release => TileInv'
<1> SUFFICES ASSUME TileInv, Release PROVE TileInv'
  OBVIOUS
<1>1. RingTypes' /\ UNCHANGED <<write_gen, read_gen, piece, unheld>>
  BY ReleaseKeepsTypes DEF TileInv, Release
<1>2. PendingLen' = PendingLen /\ Pending' = Pending /\ PendingLen \in Nat /\ UnreadLen \in Nat
  BY <1>1, RoomIs DEF PendingLen, Pending, TileInv
<1>3. Window'
  BY <1>2, ReleaseIs, CapacityAssumption DEF Window, TileInv
<1>4. \A h \in Handles : Fits(h)' /\ RangeOf(h)' = RangeOf(h)
  BY <1>1, <1>2 DEF TileInv, Fits, Offset, LenOf, Is, RangeOf
<1>5. PiecesTile' /\ Deferred'
  BY <1>1, <1>2, <1>4 DEF PiecesTile, Deferred, TileInv
<1> QED  BY <1>1, <1>3, <1>4, <1>5 DEF TileInv

LEMMA ReservationKeepsTiles ==
    ASSUME TileInv, NEW h \in Handles, ReservationStep(h) PROVE TileInv'
<1>0. RingTypes /\ RingTypes' /\ piece \in [Handles -> AnyPiece]
  BY ReservationKeepsTypes DEF TileInv, RingTypes
<1>1. ASSUME NEW n \in 0 .. MaxBatch, Reserve(h, n) PROVE TileInv'
  BY <1>1, BatchAssumption, TakeKeepsTiles DEF Reserve
<1>2. ASSUME NEW n \in 0 .. MaxBatch, ReserveBestEffort(h, n) PROVE TileInv'
  <2> DEFINE actual == IF n <= Available THEN n ELSE Available
  <2>1. actual \in Nat /\ actual <= Available /\ Is(h, "none")
    BY <1>0, <1>2, BatchAssumption, AvailableType DEF ReserveBestEffort
  <2>2. CASE actual = 0
    <3>1. /\ piece' = [piece EXCEPT ![h] = Reservation(0, 0)]
          /\ UNCHANGED <<write_gen, read_gen, free_gen, buffer, slots, unheld>>
      BY <1>2, <2>2 DEF ReserveBestEffort
    <3>2. piece[h] = Nothing
      BY <2>1 DEF TileInv, Fits
    <3>3. \A o \in Handles : /\ piece'[o].start = piece[o].start
                             /\ piece'[o].end = piece[o].end
                             /\ Is(o, "none")' => piece'[o] = Nothing
      BY <1>0, <3>1, <3>2 DEF Reservation, Nothing, Is, TileInv, Fits
    <3> QED  BY <1>0, <3>1, <3>3, SameTiles
  <2>3. CASE actual # 0
    <3>1. Take(h, actual)
      BY <1>2, <2>3 DEF ReserveBestEffort
    <3> HIDE DEF actual
    <3> QED  BY <2>1, <2>3, <3>1, TakeKeepsTiles
  <2> QED  BY <2>2, <2>3
<1>3. ASSUME NEW i \in 0 .. Capacity, GetMut(h, i) PROVE TileInv'
  BY <1>0, <1>3, SameTiles DEF GetMut, TileInv, Fits, Is
<1>4. ASSUME NEW i \in 0 .. Capacity, NEW right \in Handles \ {h}, SplitAtMut(h, right, i)
      PROVE  TileInv'
  BY <1>4, SplitKeepsTiles
<1>5. ASSUME Publish(h) PROVE TileInv'
  BY <1>5, PublishKeepsTiles DEF Publish
<1>6. ASSUME DropReservation(h) PROVE TileInv'
  BY <1>0, <1>6, DropKeepsTiles DEF DropReservation
<1> QED  BY <1>1, <1>2, <1>3, <1>4, <1>5, <1>6 DEF ReservationStep

LEMMA IterKeepsTiles ==
    ASSUME TileInv, NEW h \in Handles, IterStep(h) PROVE TileInv'
<1>0. RingTypes /\ RingTypes' /\ piece \in [Handles -> AnyPiece]
  BY IterKeepsTypes DEF TileInv, RingTypes
<1>1. ASSUME IntoIter(h) PROVE TileInv'
  <2>1. \A o \in Handles : /\ piece'[o].start = piece[o].start
                           /\ piece'[o].end = piece[o].end
                           /\ Is(o, "none")' => piece'[o] = Nothing
    BY <1>0, <1>1 DEF IntoIter, Iter, Nothing, Is, TileInv, Fits
  <2> QED  BY <1>0, <1>1, <2>1, SameTiles DEF IntoIter
<1>2. ASSUME NextSlot(h) PROVE TileInv'
  <2>1. \A o \in Handles : /\ piece'[o].start = piece[o].start
                           /\ piece'[o].end = piece[o].end
                           /\ Is(o, "none")' => piece'[o] = Nothing
    <3>1. piece'[h] = [piece[h] EXCEPT !.cursor = GenAdd(piece[h].cursor, 1)]
          /\ piece[h] \in AnyPiece /\ piece[h].kind = "iter"
          /\ \A o \in Handles \ {h} : piece'[o] = piece[o]
      BY <1>0, <1>2 DEF NextSlot, Usable, Is
    <3>2. piece'[h].start = piece[h].start /\ piece'[h].end = piece[h].end
          /\ piece'[h].kind = "iter"
      BY <3>1 DEF AnyPiece
    <3> QED  BY <3>1, <3>2 DEF TileInv, Fits, Is
  <2> QED  BY <1>0, <1>2, <2>1, SameTiles DEF NextSlot
<1>3. ASSUME PublishIter(h) PROVE TileInv'
  BY <1>3, PublishKeepsTiles DEF PublishIter
<1>4. ASSUME DropIter(h) PROVE TileInv'
  BY <1>0, <1>4, DropKeepsTiles DEF DropIter
<1>5. ASSUME NEW o \in Handles \ {h}, SwapIters(h, o) PROVE TileInv'
  BY <1>5, SwapKeepsTiles
<1> QED  BY <1>1, <1>2, <1>3, <1>4, <1>5 DEF IterStep

LEMMA SlotKeepsTiles ==
    ASSUME TileInv, NEW s \in slots, WriteSlot(s) \/ DropSlot(s) PROVE TileInv'
<1>0. RingTypes /\ RingTypes' /\ piece \in [Handles -> AnyPiece]
      /\ UNCHANGED <<write_gen, read_gen, free_gen, unheld>> /\ s.at \in Handles
  BY SlotKeepsTypes DEF TileInv, RingTypes, WriteSlot, DropSlot
<1>1. \A o \in Handles : /\ piece'[o].start = piece[o].start
                         /\ piece'[o].end = piece[o].end
                         /\ Is(o, "none")' => piece'[o] = Nothing
  <2>1. CASE piece' = piece
    BY <2>1 DEF TileInv, Fits, Is
  <2>2. CASE Is(s.at, "iter") /\ piece' = [piece EXCEPT ![s.at].written = @ + 1]
    <3>1. piece'[s.at] = [piece[s.at] EXCEPT !.written = @ + 1]
          /\ piece[s.at] \in AnyPiece /\ piece[s.at].kind = "iter"
          /\ \A o \in Handles \ {s.at} : piece'[o] = piece[o]
      BY <1>0, <2>2 DEF Is
    <3>2. piece'[s.at].start = piece[s.at].start /\ piece'[s.at].end = piece[s.at].end
          /\ piece'[s.at].kind = "iter"
      BY <3>1 DEF AnyPiece
    <3> QED  BY <3>1, <3>2 DEF TileInv, Fits, Is
  <2> QED  BY <2>1, <2>2 DEF WriteSlot, DropSlot
<1> QED  BY <1>0, <1>1, SameTiles

LEMMA StepKeepsTiles == TileInv /\ [Next]_vars => TileInv'
<1> SUFFICES ASSUME TileInv, [Next]_vars PROVE TileInv'
  OBVIOUS
<1>1. CASE Next
  <2>1. ASSUME NEW g \in unheld, FillUnheld(g) PROVE TileInv'
    <3>1. RingTypes'
      BY <2>1, FillTypes, TileParts DEF FillUnheld
    <3>2. \A h \in Handles : Is(h, "none")' => piece'[h] = Nothing
      BY <2>1 DEF FillUnheld, TileInv, Fits, Is
    <3> QED  BY <2>1, <3>1, <3>2, SameTiles DEF FillUnheld
  <2> QED
    BY <1>1, <2>1, ReservationKeepsTiles, IterKeepsTiles, SlotKeepsTiles, ReleaseKeepsTiles,
       UnheldKeepsTiles DEF Next
<1>2. CASE UNCHANGED vars
  <2>1. RingTypes' /\ \A h \in Handles : Is(h, "none")' => piece'[h] = Nothing
    BY <1>2 DEF vars, TileInv, RingTypes, Fits, Is
  <2> QED  BY <1>2, <2>1, SameTiles DEF vars
<1> QED  BY <1>1, <1>2

LEMMA InitTiles == Init => TileInv
<1> SUFFICES ASSUME Init PROVE TileInv
  OBVIOUS
<1>1. RingTypes
  BY GensAre, NewPieces DEF Init, RingTypes
<1>2. UnreadLen = 0 /\ PendingLen = 0 /\ Pending = {}
  <2>1. UnreadLen = 0 /\ PendingLen = 0
    BY GensAre, DistZero DEF Init, UnreadLen, PendingLen
  <2>2. \A g \in Gens : ~(GenDist(g, read_gen) < 0)
    BY <1>1, DistType DEF RingTypes
  <2> QED  BY <1>1, <2>1, <2>2, WindowIs
<1>3. ASSUME NEW h \in Handles PROVE RangeOf(h) = {} /\ Fits(h)
  <2>1. piece[h] = Nothing /\ 0 \in Gens
    BY GensAre DEF Init
  <2>2. LenOf(h) = 0
    BY <2>1, DistZero DEF LenOf, Nothing
  <2>3. Fits(h) /\ Window
    BY <1>2, <2>1, <2>2, CapacityAssumption DEF Fits, Window
  <2> QED  BY <1>1, <2>2, <2>3, RunIs
<1>4. Window
  BY <1>2, CapacityAssumption DEF Window
<1> QED  BY <1>1, <1>2, <1>3, <1>4 DEF TileInv, PiecesTile, Deferred, Init

LEMMA TilesAlways == Spec => []TileInv
<1> QED  BY InitTiles, StepKeepsTiles, PTL DEF Spec

(* What is reserved and unpublished has one owner each or none, in whatever*)
(* order it was split, iterated, published, refused, dropped and, dropped, *)
(* published later, across the wrap, even if slots outlive their iterator. *)
THEOREM PiecesAlwaysTile == Spec => []PiecesTile
<1>1. TileInv => PiecesTile
  BY DEF TileInv
<1> QED  BY <1>1, TilesAlways, PTL

-----------------------------------------------------------------------------
(* The ring over the wrap, where the capacity divides the span.            *)
LEMMA CellOfSum ==
    ASSUME Msb % Capacity = 0, NEW g \in Gens, NEW i \in 0 .. Capacity - 1
    PROVE  Cell(GenAdd(g, i)) = IF Cell(g) + i < Capacity THEN Cell(g) + i
                                ELSE Cell(g) + i - Capacity
<1> DEFINE x == g + i
           c == Cell(g)
           y == c + i
           m == Capacity * (g \div Capacity)
<1>0. g \in Nat /\ i \in Nat /\ x \in Nat /\ Capacity \in Nat /\ Capacity > 0
  BY GensAre, CapacityAssumption
<1>1. c \in 0 .. Capacity - 1 /\ g = m + c /\ m \in Int /\ g \div Capacity \in Int
  <2>1. g = m + c /\ c \in 0 .. Capacity - 1 /\ g \div Capacity \in Int
    BY <1>0, ModDef DEF Cell
  <2> QED  BY <1>0, <2>1
<1>2. m % Capacity = 0
  <2> DEFINE q == g \div Capacity
  <2> HIDE DEF q
  <2>1. m = (Capacity * q) + 0 /\ q \in Int
    BY <1>0, <1>1 DEF q
  <2> HIDE DEF m
  <2> QED  BY <1>0, <1>1, <2>1, ModUnique
<1>3. Cell(GenAdd(g, i)) = x % Capacity
  <2> HIDE DEF x
  <2>1. (x % Msb) % Capacity = x % Capacity
    BY <1>0, CellsAreContinuous
  <2> QED  BY <2>1 DEF Cell, GenAdd, x
<1> HIDE DEF c, m
<1>4. x = y + m /\ y \in Nat /\ y < 2 * Capacity
  BY <1>0, <1>1
<1> HIDE DEF x, y
<1>5. x % Capacity = y % Capacity
  <2>1. (y + m) % Capacity = y % Capacity
    BY <1>0, <1>1, <1>2, <1>4, ModShift
  <2> QED  BY <1>4, <2>1
<1>6. y % Capacity = IF y < Capacity THEN y ELSE y - Capacity
  <2>1. CASE y < Capacity
    BY <1>0, <1>4, <2>1, ModSmall
  <2>2. CASE Capacity <= y
    <3>1. y % Capacity = y - Capacity
      BY <1>0, <1>4, <2>2, ModOnce
    <3> QED  BY <1>0, <1>4, <2>2, <3>1
  <2> QED  BY <1>0, <1>4, <2>1, <2>2
<1>7. Cell(GenAdd(g, i)) = IF y < Capacity THEN y ELSE y - Capacity
  <2>1. Cell(GenAdd(g, i)) = y % Capacity
    BY <1>3, <1>5
  <2> QED  BY <1>6, <2>1
<1> QED  BY <1>0, <1>1, <1>7 DEF y, c

(* Two generations of one window of the ring have cells of their own.      *)
LEMMA CellsApart ==
    ASSUME Msb % Capacity = 0, NEW base \in Gens, NEW a \in Gens, NEW b \in Gens, a # b,
           GenDist(a, base) < Capacity, GenDist(b, base) < Capacity
    PROVE  Cell(a) # Cell(b)
<1>1. ASSUME NEW x \in Gens, NEW y \in Gens, x # y, GenDist(y, x) < Capacity
      PROVE  Cell(x) # Cell(y)
  <2> DEFINE i == GenDist(y, x)
  <2>1. i \in 1 .. Capacity - 1 /\ Capacity \in Nat
    <3>1. GenDist(y, x) \in Nat /\ GenDist(y, x) # 0
      BY <1>1, DistType, DistZero
    <3> QED  BY <1>1, <3>1, CapacityAssumption
  <2>2. y = GenAdd(x, i)
    BY SumOfDist
  <2> HIDE DEF i
  <2>3. Cell(y) = IF Cell(x) + i < Capacity THEN Cell(x) + i ELSE Cell(x) + i - Capacity
    BY <2>1, <2>2, CellOfSum
  <2>4. Cell(x) \in 0 .. Capacity - 1
    BY CellType
  <2> QED  BY <2>1, <2>3, <2>4
<1>2. /\ GenDist(b, base) = IF GenDist(b, a) + GenDist(a, base) < Msb
                            THEN GenDist(b, a) + GenDist(a, base)
                            ELSE GenDist(b, a) + GenDist(a, base) - Msb
      /\ GenDist(a, base) = IF GenDist(a, b) + GenDist(b, base) < Msb
                            THEN GenDist(a, b) + GenDist(b, base)
                            ELSE GenDist(a, b) + GenDist(b, base) - Msb
  BY DistSum
<1>3. /\ GenDist(b, a) \in Nat /\ GenDist(a, b) \in Nat /\ Msb \in Nat /\ Capacity \in Nat
      /\ GenDist(a, base) \in Nat /\ GenDist(b, base) \in Nat
      /\ GenDist(b, a) < Msb /\ GenDist(a, b) < Msb
  BY DistType, GensAre, CapacityAssumption
<1>4. GenDist(b, a) < Capacity \/ GenDist(a, b) < Capacity
  BY <1>2, <1>3
<1> QED  BY <1>1, <1>4

(* as_slices gives one run of cells, or two where the ring ends: in both,  *)
(* the messages that get gives one by one, before the wrap and after.      *)
THEOREM SlicesAlwaysAgree ==
    ASSUME Msb % Capacity = 0 PROVE Spec => []SlicesAgree
<1>1. ASSUME RingTypes, Window,
             NEW from \in 0 .. GenDist(read_gen, free_gen),
             NEW to \in 0 .. GenDist(read_gen, free_gen), from < to
      PROVE  LET start == GenAdd(free_gen, from)
                 end   == GenAdd(free_gen, to)
                 two   == AsSlices(start, end)
             IN  two[1] \o two[2] = [n \in 1 .. to - from |-> Get(start, end, n - 1)]
  <2> DEFINE start == GenAdd(free_gen, from)
             end   == GenAdd(free_gen, to)
             len   == to - from
             c     == Cell(start)
             first == FirstLen(start, len)
             V     == Gens \cup {Empty}
             s1    == Cells(c, first)
             s2    == Cells(0, len - first)
             got   == [n \in 1 .. len |-> Get(start, end, n - 1)]
  <2>0. /\ from \in Nat /\ to \in Nat /\ len \in Nat \ {0} /\ to <= Capacity
        /\ Capacity \in Nat /\ Capacity < Msb /\ Msb \in Nat
        /\ from \in Gens /\ to \in Gens /\ free_gen \in Gens
        /\ buffer \in [0 .. Capacity - 1 -> V]
    <3>1. UnreadLen \in Nat /\ PendingLen \in Nat /\ UnreadLen <= Capacity /\ Capacity \in Nat
          /\ Capacity < Msb /\ Msb \in Nat
      BY <1>1, RoomIs, CapacityAssumption, GensAre DEF Window
    <3> QED  BY <1>1, <3>1, GensAre DEF UnreadLen, RingTypes
  <2>1. start \in Gens /\ end \in Gens /\ GenDist(start, free_gen) = from
        /\ GenDist(end, free_gen) = to
    BY <2>0, DistOfSum
  <2> HIDE DEF start, end
  <2>2. GenDist(end, start) = len
    <3>1. GenDist(end, free_gen) = IF GenDist(end, start) + GenDist(start, free_gen) < Msb
                                   THEN GenDist(end, start) + GenDist(start, free_gen)
                                   ELSE GenDist(end, start) + GenDist(start, free_gen) - Msb
      BY <2>0, <2>1, DistSum
    <3>2. GenDist(end, start) \in Nat /\ GenDist(end, start) < Msb
      BY <2>1, DistType
    <3> QED  BY <2>0, <2>1, <3>1, <3>2
  <2>3. c \in 0 .. Capacity - 1
    BY <2>1, CellType
  <2>4. /\ first \in 0 .. len /\ c + first <= Capacity
        /\ first # len => c + first = Capacity
    BY <2>0, <2>3 DEF FirstLen
  <2> HIDE DEF c, first, len
  <2>5. ASSUME NEW n \in 1 .. len
        PROVE  got[n] = IF n <= first THEN buffer[c + n - 1] ELSE buffer[n - first - 1]
    <3>1. n - 1 \in 0 .. Capacity - 1
      BY <2>0 DEF len
    <3>2. Cell(GenAdd(start, n - 1)) = IF c + (n - 1) < Capacity THEN c + (n - 1)
                                       ELSE c + (n - 1) - Capacity
      BY <2>1, <3>1, CellOfSum DEF c
    <3>3. got[n] = buffer[Cell(GenAdd(start, n - 1))]
      BY DEF Get
    <3>4. CASE n <= first
      <4>1. Cell(GenAdd(start, n - 1)) = c + n - 1
        BY <2>0, <2>3, <2>4, <3>2, <3>4
      <4> QED  BY <3>3, <3>4, <4>1
    <3>5. CASE first < n
      <4>1. Cell(GenAdd(start, n - 1)) = n - first - 1
        BY <2>0, <2>3, <2>4, <3>2, <3>5
      <4>2. ~(n <= first)
        BY <2>0, <2>4, <3>5
      <4> QED  BY <3>3, <4>1, <4>2
    <3> QED  BY <2>0, <2>4, <3>4, <3>5
  <2>6. /\ s1 \in Seq(V) /\ Len(s1) = first /\ \A i \in 1 .. first : s1[i] = buffer[c + i - 1]
        /\ s2 \in Seq(V) /\ Len(s2) = len - first
        /\ \A i \in 1 .. len - first : s2[i] = buffer[i - 1]
    <3>1. ASSUME NEW at \in Nat, NEW k \in Nat, at + k <= Capacity
          PROVE  /\ Cells(at, k) \in Seq(V) /\ Len(Cells(at, k)) = k
                 /\ \A i \in 1 .. k : Cells(at, k)[i] = buffer[at + i - 1]
      <4>1. \A i \in 1 .. k : at + i - 1 \in 0 .. Capacity - 1
        BY <2>0, <3>1
      <4>2. \A i \in 1 .. k : buffer[at + i - 1] \in V
        BY <2>0, <4>1
      <4>3. Cells(at, k) \in [1 .. k -> V]
        BY <4>2 DEF Cells
      <4>4. Cells(at, k) \in Seq(V)
        BY <4>3, SeqDef
      <4> QED  BY <4>3, <4>4, LenProperties DEF Cells
    <3>2. c \in Nat /\ first \in Nat /\ 0 \in Nat /\ len - first \in Nat
          /\ 0 + (len - first) <= Capacity
      BY <2>0, <2>3, <2>4 DEF len
    <3>3. \A i \in 1 .. len - first : 0 + i - 1 = i - 1
      BY <3>2
    <3> HIDE DEF V
    <3>4. /\ s1 \in Seq(V) /\ Len(s1) = first
          /\ \A i \in 1 .. first : s1[i] = buffer[c + i - 1]
      BY <2>4, <3>1, <3>2
    <3>5. /\ s2 \in Seq(V) /\ Len(s2) = len - first
          /\ \A i \in 1 .. len - first : s2[i] = buffer[0 + i - 1]
      BY <3>1, <3>2
    <3> QED  BY <3>3, <3>4, <3>5
  <2> HIDE DEF s1, s2, V
  <2>7. /\ s1 \o s2 \in Seq(V) /\ Len(s1 \o s2) = len
        /\ \A n \in 1 .. len : (s1 \o s2)[n] = got[n]
    <3>1. /\ s1 \o s2 \in Seq(V) /\ Len(s1 \o s2) = Len(s1) + Len(s2)
          /\ \A i \in 1 .. Len(s1) + Len(s2) : (s1 \o s2)[i] =
                IF i <= Len(s1) THEN s1[i] ELSE s2[i - Len(s1)]
      BY <2>6, ConcatProperties
    <3>2. first \in Nat /\ len \in Nat /\ Len(s1) + Len(s2) = len
      BY <2>0, <2>4, <2>6 DEF len
    <3> HIDE DEF got
    <3>3. ASSUME NEW n \in 1 .. len PROVE (s1 \o s2)[n] = got[n]
      <4>1. CASE n <= first
        <5>1. n \in 1 .. first /\ n \in 1 .. Len(s1) + Len(s2) /\ n <= Len(s1)
          BY <2>6, <3>2, <4>1
        <5>2. (s1 \o s2)[n] = s1[n]
          BY <3>1, <5>1
        <5> QED  BY <2>5, <2>6, <4>1, <5>1, <5>2
      <4>2. CASE ~(n <= first)
        <5>1. n - first \in 1 .. len - first
          BY <3>2, <4>2
        <5>2. n \in 1 .. Len(s1) + Len(s2) /\ ~(n <= Len(s1)) /\ Len(s1) = first
          BY <2>6, <3>2, <4>2
        <5>3. (s1 \o s2)[n] = s2[n - first]
          BY <3>1, <5>2
        <5> QED  BY <2>5, <2>6, <4>2, <5>1, <5>3
      <4> QED  BY <4>1, <4>2
    <3> QED  BY <3>1, <3>2, <3>3
  <2>8. s1 \o s2 = got
    <3>1. s1 \o s2 = [n \in 1 .. len |-> (s1 \o s2)[n]]
      BY <2>7, LenProperties
    <3>2. [n \in 1 .. len |-> (s1 \o s2)[n]] = got
      BY <2>7
    <3> QED  BY <3>1, <3>2
  <2>9. AsSlices(start, end) = <<s1, s2>>
    BY <2>2 DEF AsSlices, s1, s2, c, first, len
  <2> QED  BY <2>8, <2>9 DEF start, end, len
<1>2. TileInv => SlicesAgree
  BY <1>1 DEF TileInv, SlicesAgree
<1> QED  BY <1>2, TilesAlways, PTL

-----------------------------------------------------------------------------
(* Iterators and their slots, where a slot keeps its iterator from use.    *)
LEMMA IterParts ==
    ASSUME IterInv, NEW h \in Handles
    PROVE  /\ RingTypes /\ TileInv /\ IterFits(h) /\ piece \in [Handles -> AnyPiece]
           /\ piece[h].start \in Gens /\ piece[h].end \in Gens /\ piece[h].cursor \in Gens
           /\ Yielded(h) \in Nat /\ Yielded(h) < Msb
           /\ LenOf(h) \in Nat /\ LenOf(h) <= Capacity
           /\ piece[h].written \in Nat
           /\ Out(h) \in {0, 1} /\ (Out(h) = 0 <=> SlotsAt(h) = {})
           /\ GenRange(piece[h].start, piece[h].cursor) =
              {g \in Gens : GenDist(g, piece[h].start) < Yielded(h)}
           /\ Is(h, "iter") =>
              GenRange(piece[h].start, piece[h].cursor) \subseteq RangeOf(h)
<1>1. RingTypes /\ TileInv /\ IterFits(h) /\ Window /\ Fits(h)
      /\ piece \in [Handles -> AnyPiece]
  BY DEF IterInv, TileInv, RingTypes
<1>2. /\ piece[h].start \in Gens /\ piece[h].end \in Gens /\ piece[h].cursor \in Gens
      /\ LenOf(h) \in Nat /\ LenOf(h) <= Capacity /\ piece[h].written \in Nat
      /\ RangeOf(h) = {g \in Gens : GenDist(g, piece[h].start) < LenOf(h)}
  BY <1>1, PieceParts, RunIs
<1>3. Yielded(h) \in Nat /\ Yielded(h) < Msb
      /\ \A g \in Gens : GenDist(g, piece[h].start) \in Nat
  BY <1>2, DistType DEF Yielded
<1>4. GenRange(piece[h].start, piece[h].cursor) =
          {g \in Gens : GenDist(g, piece[h].start) < Yielded(h)}
  BY <1>2, RangeIs DEF Yielded
<1>5. Is(h, "iter") => GenRange(piece[h].start, piece[h].cursor) \subseteq RangeOf(h)
  BY <1>1, <1>2, <1>3, <1>4 DEF IterFits
<1> QED  BY <1>1, <1>2, <1>3, <1>4, <1>5 DEF Out

LEMMA SlotParts ==
    ASSUME IterInv, NEW s \in slots
    PROVE  /\ s.at \in Handles /\ s.gen \in Gens /\ s = [gen |-> s.gen, at |-> s.at]
           /\ Is(s.at, "iter") /\ SlotsAt(s.at) = {s}
           /\ GenDist(s.gen, piece[s.at].start) = Yielded(s.at) - 1
           /\ Yielded(s.at) # 0 /\ Out(s.at) = 1
           /\ s.gen \in RangeOf(s.at)
<1> DEFINE h == s.at
<1>1. /\ h \in Handles /\ s.gen \in Gens /\ s = [gen |-> s.gen, at |-> h]
      /\ Is(h, "iter") /\ piece[h].cursor = GenAdd(s.gen, 1)
      /\ \A t \in slots : /\ t.gen \in Gens /\ t = [gen |-> t.gen, at |-> t.at]
                          /\ t.at = h => piece[h].cursor = GenAdd(t.gen, 1)
  BY DEF IterInv, TileInv, RingTypes, SlotFits
<1>2. 1 \in Gens /\ Msb \in Nat /\ Msb >= 2
  BY GensAre
<1>3. ASSUME NEW g \in Gens, GenAdd(g, 1) = piece[h].cursor PROVE g = s.gen
  <2>1. /\ GenAdd(g, 1) = IF g + 1 < Msb THEN g + 1 ELSE g + 1 - Msb
        /\ GenAdd(s.gen, 1) = IF s.gen + 1 < Msb THEN s.gen + 1 ELSE s.gen + 1 - Msb
    BY <1>1, <1>2, SumIs
  <2> QED  BY <1>1, <1>2, <1>3, <2>1, GensAre
<1>4. SlotsAt(h) = {s}
  <2>1. ASSUME NEW t \in slots, t.at = h PROVE t = s
    BY <1>1, <1>3, <2>1
  <2> QED  BY <2>1 DEF SlotsAt
<1>5. Out(h) = 1 /\ Yielded(h) # 0 /\ Yielded(h) \in Nat /\ Yielded(h) <= LenOf(h)
  BY <1>1, <1>4, IterParts DEF Out, IterFits
<1>6. GenDist(s.gen, piece[h].start) = Yielded(h) - 1
  <2>1. piece[h].start \in Gens /\ piece[h].cursor \in Gens
    BY <1>1, IterParts
  <2>2. GenDist(piece[h].cursor, s.gen) = 1
    BY <1>1, <1>2, DistOfSum
  <2>3. Yielded(h) = IF 1 + GenDist(s.gen, piece[h].start) < Msb
                     THEN 1 + GenDist(s.gen, piece[h].start)
                     ELSE 1 + GenDist(s.gen, piece[h].start) - Msb
    <3>1. GenDist(piece[h].cursor, piece[h].start) =
              IF GenDist(piece[h].cursor, s.gen) + GenDist(s.gen, piece[h].start) < Msb
              THEN GenDist(piece[h].cursor, s.gen) + GenDist(s.gen, piece[h].start)
              ELSE GenDist(piece[h].cursor, s.gen) + GenDist(s.gen, piece[h].start) - Msb
      BY <1>1, <2>1, DistSum
    <3> QED  BY <2>2, <3>1 DEF Yielded
  <2>4. GenDist(s.gen, piece[h].start) \in Nat /\ GenDist(s.gen, piece[h].start) < Msb
    BY <1>1, <2>1, DistType
  <2> QED  BY <1>2, <1>5, <2>3, <2>4
<1>7. s.gen \in RangeOf(h)
  <2>1. RangeOf(h) = {g \in Gens : GenDist(g, piece[h].start) < LenOf(h)} /\ LenOf(h) \in Nat
    BY <1>1, PieceParts DEF IterInv, TileInv
  <2> QED  BY <1>1, <1>5, <1>6, <2>1
<1> QED  BY <1>1, <1>4, <1>5, <1>6, <1>7

LEMMA SameIter ==
    ASSUME IterInv, NEW h \in Handles, piece'[h] = piece[h], SlotsAt(h)' = SlotsAt(h)
    PROVE  IterFits(h)'
  BY DEF IterInv, IterFits, Is, LenOf, Yielded, Out

LEMMA NoSlotHere ==
    ASSUME IterInv, NEW h \in Handles, ~Is(h, "iter") PROVE SlotsAt(h) = {}
  BY SlotParts DEF SlotsAt

(* Steps that yield no slot, use none, and make no iterator.               *)
LEMMA OthersKeepIters ==
    ASSUME IterInv, TileInv', slots' = slots,
           \A h \in Handles : \/ piece'[h] = piece[h]
                              \/ /\ SlotsAt(h) = {} /\ ~Is(h, "iter")'
                                 /\ piece'[h].written = 0 /\ piece'[h].total = 0
    PROVE  IterInv'
<1>1. \A h \in Handles : SlotsAt(h)' = SlotsAt(h)
  BY DEF SlotsAt
<1>2. ASSUME NEW h \in Handles PROVE IterFits(h)'
  <2>1. CASE piece'[h] = piece[h]
    BY <1>1, <2>1, SameIter
  <2>2. CASE ~Is(h, "iter")' /\ piece'[h].written = 0 /\ piece'[h].total = 0
    BY <2>2 DEF IterFits
  <2> QED  BY <2>1, <2>2
<1>3. ASSUME NEW s \in slots PROVE SlotFits(s)'
  <2>1. s.at \in Handles /\ s \in SlotsAt(s.at) /\ SlotFits(s)
    BY SlotParts DEF SlotsAt, IterInv
  <2>2. piece'[s.at] = piece[s.at]
    BY <2>1
  <2> QED  BY <2>1, <2>2 DEF SlotFits, Is
<1> QED  BY <1>2, <1>3 DEF IterInv

LEMMA NothingCounts ==
    /\ Nothing.kind # "iter" /\ Nothing.written = 0 /\ Nothing.total = 0
    /\ \A s, e \in Gens : /\ Reservation(s, e).kind # "iter"
                          /\ Reservation(s, e).written = 0 /\ Reservation(s, e).total = 0
  BY DEF Nothing, Reservation

LEMMA ReservationKeepsIters ==
    ASSUME IterInv, NEW h \in Handles, ReservationStep(h) PROVE IterInv'
<1>0. /\ TileInv /\ TileInv' /\ RingTypes /\ piece \in [Handles -> AnyPiece]
      /\ write_gen \in Gens /\ piece[h].start \in Gens /\ piece[h].end \in Gens
  BY IterParts, ReservationKeepsTiles DEF IterInv, RingTypes
<1>1. ASSUME ~Is(h, "iter"), slots' = slots,
             NEW p, piece' = [piece EXCEPT ![h] = p],
             p.kind # "iter", p.written = 0, p.total = 0
      PROVE  IterInv'
  BY <1>0, <1>1, NoSlotHere, OthersKeepIters DEF Is
<1>2. ASSUME NEW n \in Nat, Take(h, n), Is(h, "none") PROVE IterInv'
  <2>1. GenAdd(write_gen, n) \in Gens
    BY <1>0, <1>2, SumType
  <2>2. /\ piece' = [piece EXCEPT ![h] = Reservation(write_gen, GenAdd(write_gen, n))]
        /\ slots' = slots
    BY <1>2 DEF Take
  <2>3. ~Is(h, "iter")
    BY <1>2 DEF Is
  <2> QED  BY <1>0, <1>1, <2>1, <2>2, <2>3, NothingCounts
<1>3. ASSUME NEW n \in 0 .. MaxBatch, Reserve(h, n) PROVE IterInv'
  BY <1>2, <1>3, BatchAssumption DEF Reserve
<1>4. ASSUME NEW n \in 0 .. MaxBatch, ReserveBestEffort(h, n) PROVE IterInv'
  <2> DEFINE actual == IF n <= Available THEN n ELSE Available
  <2>1. actual \in Nat /\ Is(h, "none")
    BY <1>0, <1>4, BatchAssumption, AvailableType DEF ReserveBestEffort
  <2>2. CASE actual = 0
    <3>1. piece' = [piece EXCEPT ![h] = Reservation(0, 0)] /\ slots' = slots
      BY <1>4, <2>2 DEF ReserveBestEffort
    <3>2. ~Is(h, "iter") /\ 0 \in Gens
      BY <2>1, GensAre DEF Is
    <3> QED  BY <1>1, <3>1, <3>2, NothingCounts
  <2>3. CASE actual # 0
    <3>1. Take(h, actual)
      BY <1>4, <2>3 DEF ReserveBestEffort
    <3> HIDE DEF actual
    <3> QED  BY <1>2, <2>1, <3>1
  <2> QED  BY <2>2, <2>3
<1>5. ASSUME NEW i \in 0 .. Capacity, GetMut(h, i) PROVE IterInv'
  BY <1>0, <1>5, OthersKeepIters DEF GetMut
<1>6. ASSUME NEW i \in 0 .. Capacity, NEW right \in Handles \ {h}, SplitAtMut(h, right, i)
      PROVE  IterInv'
  <2> DEFINE mid == GenAdd(piece[h].start, i)
  <2>1. mid \in Gens
    BY <1>0, SumType, CapacityAssumption
  <2>2. /\ piece' = [piece EXCEPT ![h]     = Reservation(piece[h].start, mid),
                                  ![right] = Reservation(mid, piece[h].end)]
        /\ slots' = slots /\ ~Is(h, "iter") /\ ~Is(right, "iter")
    BY <1>6 DEF SplitAtMut, Is
  <2> HIDE DEF mid
  <2>3. /\ SlotsAt(h) = {} /\ SlotsAt(right) = {}
        /\ piece'[h] = Reservation(piece[h].start, mid)
        /\ piece'[right] = Reservation(mid, piece[h].end)
        /\ \A o \in Handles \ {h, right} : piece'[o] = piece[o]
    BY <1>0, <2>2, NoSlotHere
  <2>4. \A o \in {h, right} : /\ SlotsAt(o) = {} /\ ~Is(o, "iter")'
                              /\ piece'[o].written = 0 /\ piece'[o].total = 0
    BY <1>0, <2>1, <2>3, NothingCounts DEF Is
  <2> QED  BY <1>0, <2>2, <2>3, <2>4, OthersKeepIters
<1>7. ASSUME Publish(h) \/ DropReservation(h) PROVE IterInv'
  BY <1>1, <1>7, NothingCounts DEF Publish, PublishPiece, DropReservation, Is
<1> QED  BY <1>3, <1>4, <1>5, <1>6, <1>7 DEF ReservationStep

(* The iterator yields the slot at its cursor, while one is left.          *)
LEMMA NextIs ==
    ASSUME IterInv, SlotsBorrow = TRUE, NEW h \in Handles, NextSlot(h)
    PROVE  /\ Is(h, "iter") /\ SlotsAt(h) = {}
           /\ slots' = slots \cup {[gen |-> piece[h].cursor, at |-> h]}
           /\ piece'[h].kind = "iter" /\ piece'[h].start = piece[h].start
           /\ piece'[h].cursor = GenAdd(piece[h].cursor, 1)
           /\ piece'[h].written = piece[h].written /\ piece'[h].total = piece[h].total
           /\ \A o \in Handles \ {h} : piece'[o] = piece[o]
           /\ Yielded(h) < LenOf(h) /\ Yielded(h)' = Yielded(h) + 1
           /\ LenOf(h)' = LenOf(h) /\ LenOf(h) \in Nat
           /\ Yielded(h) \in Nat /\ piece[h].written \in Nat
           /\ piece[h].total = LenOf(h) /\ piece[h].written <= Yielded(h)
<1>0. /\ piece \in [Handles -> AnyPiece] /\ piece[h] \in AnyPiece
      /\ piece[h].start \in Gens /\ piece[h].end \in Gens /\ piece[h].cursor \in Gens
  BY IterParts DEF IterInv, RingTypes
<1> DEFINE c   == piece[h].cursor
           new == [gen |-> c, at |-> h]
<1>1. /\ Is(h, "iter") /\ SlotsAt(h) = {} /\ slots' = slots \cup {new}
      /\ ~GenGte(c, piece[h].end)
      /\ piece'[h] = [piece[h] EXCEPT !.cursor = GenAdd(c, 1)]
      /\ \A o \in Handles \ {h} : piece'[o] = piece[o]
  BY <1>0 DEF NextSlot, Usable
<1>2. /\ piece'[h].kind = "iter" /\ piece'[h].start = piece[h].start
      /\ piece'[h].end = piece[h].end /\ piece'[h].cursor = GenAdd(c, 1)
      /\ piece'[h].written = piece[h].written /\ piece'[h].total = piece[h].total
  BY <1>0, <1>1 DEF AnyPiece, Is
<1>3. /\ Yielded(h) \in Nat /\ LenOf(h) \in Nat /\ LenOf(h) <= Capacity
      /\ Yielded(h) <= LenOf(h) /\ piece[h].total = LenOf(h)
      /\ piece[h].written <= Yielded(h) /\ piece[h].written \in Nat
      /\ Capacity \in Nat /\ Capacity < Msb /\ Msb \in Nat /\ 1 \in Gens
  <2>1. Out(h) = 0
    BY <1>1 DEF Out
  <2> QED  BY <1>1, <2>1, IterParts, CapacityAssumption, GensAre DEF IterFits
<1>4. GenDist(piece[h].end, c) = LenOf(h) - Yielded(h)
  <2>1. LenOf(h) = IF GenDist(piece[h].end, c) + Yielded(h) < Msb
                   THEN GenDist(piece[h].end, c) + Yielded(h)
                   ELSE GenDist(piece[h].end, c) + Yielded(h) - Msb
    BY <1>0, DistSum DEF LenOf, Yielded
  <2>2. GenDist(piece[h].end, c) \in Nat /\ GenDist(piece[h].end, c) < Msb
    BY <1>0, DistType
  <2> QED  BY <1>3, <2>1, <2>2
<1>5. Yielded(h) < LenOf(h)
  <2>1. GenDist(piece[h].end, c) <= Capacity
    BY <1>3, <1>4
  <2>2. GenDist(piece[h].end, c) # 0
    BY <1>0, <1>1, <2>1, EmptyIsGte
  <2> QED  BY <1>3, <1>4, <2>2
<1>6. Yielded(h)' = Yielded(h) + 1 /\ LenOf(h)' = LenOf(h)
  <2>1. GenAdd(c, 1) \in Gens /\ GenDist(GenAdd(c, 1), c) = 1
    BY <1>0, <1>3, DistOfSum
  <2>2. GenDist(GenAdd(c, 1), piece[h].start) = IF 1 + GenDist(c, piece[h].start) < Msb
                                                THEN 1 + GenDist(c, piece[h].start)
                                                ELSE 1 + GenDist(c, piece[h].start) - Msb
    <3> DEFINE d == GenAdd(c, 1)
    <3> HIDE DEF d
    <3>1. GenDist(d, piece[h].start) = IF GenDist(d, c) + GenDist(c, piece[h].start) < Msb
                                       THEN GenDist(d, c) + GenDist(c, piece[h].start)
                                       ELSE GenDist(d, c) + GenDist(c, piece[h].start) - Msb
      BY <1>0, <2>1, DistSum DEF d
    <3> QED  BY <2>1, <3>1 DEF d
  <2>3. Yielded(h) + 1 < Msb
    BY <1>3, <1>5
  <2> QED  BY <1>2, <1>3, <2>2, <2>3 DEF Yielded, LenOf
<1> QED  BY <1>1, <1>2, <1>3, <1>5, <1>6

LEMMA IterKeepsIters ==
    ASSUME IterInv, SlotsBorrow = TRUE, NEW h \in Handles, IterStep(h) PROVE IterInv'
<1>0. /\ TileInv /\ TileInv' /\ RingTypes /\ piece \in [Handles -> AnyPiece]
      /\ piece[h].start \in Gens /\ piece[h].end \in Gens /\ piece[h].cursor \in Gens
      /\ piece[h] \in AnyPiece
  BY IterParts, IterKeepsTiles DEF IterInv, RingTypes
<1>1. ASSUME IntoIter(h) PROVE IterInv'
  <2>1. /\ piece'[h] = Iter(piece[h].start, piece[h].end) /\ slots' = slots
        /\ ~Is(h, "iter") /\ \A o \in Handles \ {h} : piece'[o] = piece[o]
    BY <1>0, <1>1 DEF IntoIter, Is
  <2>2. SlotsAt(h) = {} /\ \A o \in Handles : SlotsAt(o)' = SlotsAt(o)
    BY <2>1, NoSlotHere DEF SlotsAt
  <2>3. /\ piece'[h].kind = "iter" /\ piece'[h].start = piece[h].start
        /\ piece'[h].end = piece[h].end /\ piece'[h].cursor = piece[h].start
        /\ piece'[h].written = 0 /\ piece'[h].total = GenDist(piece[h].end, piece[h].start)
    BY <2>1 DEF Iter, Nothing
  <2>4. LenOf(h)' = GenDist(piece[h].end, piece[h].start) /\ LenOf(h)' \in Nat
    BY <1>0, <2>3, DistType DEF LenOf
  <2>5. Yielded(h)' = 0 /\ Out(h)' = 0
    BY <1>0, <2>2, <2>3, DistZero DEF Yielded, Out
  <2>6. IterFits(h)'
    BY <2>3, <2>4, <2>5 DEF IterFits, Is
  <2>7. \A o \in Handles : IterFits(o)'
    BY <2>1, <2>2, <2>6, SameIter
  <2>8. ASSUME NEW s \in slots PROVE SlotFits(s)'
    <3>1. s.at \in Handles /\ s.at # h /\ SlotFits(s)
      BY <2>1, SlotParts DEF IterInv
    <3> QED  BY <2>1, <3>1 DEF SlotFits, Is
  <2> QED  BY <1>0, <2>1, <2>7, <2>8 DEF IterInv
<1>2. ASSUME NextSlot(h) PROVE IterInv'
  <2> DEFINE new == [gen |-> piece[h].cursor, at |-> h]
  <2>1. \A o \in Handles \ {h} : SlotsAt(o)' = SlotsAt(o)
    BY <1>2, NextIs DEF SlotsAt
  <2>2. SlotsAt(h)' = {new}
    BY <1>2, NextIs DEF SlotsAt
  <2>3. IterFits(h)'
    <3>1. Out(h)' = 1
      BY <2>2 DEF Out
    <3> QED  BY <1>2, <3>1, NextIs DEF IterFits, Is
  <2>4. \A o \in Handles : IterFits(o)'
    BY <1>2, <2>1, <2>3, NextIs, SameIter
  <2>5. ASSUME NEW s \in slots' PROVE SlotFits(s)'
    <3>1. CASE s = new
      BY <1>2, <3>1, NextIs DEF SlotFits, Is
    <3>2. CASE s \in slots
      <4>1. s.at \in Handles /\ s.at # h /\ SlotFits(s)
        BY <1>2, <3>2, NextIs, SlotParts DEF SlotsAt, IterInv
      <4> QED  BY <1>2, <4>1, NextIs DEF SlotFits, Is
    <3> QED  BY <1>2, <3>1, <3>2, NextIs
  <2> QED  BY <1>0, <2>4, <2>5 DEF IterInv
<1>3. ASSUME PublishIter(h) \/ DropIter(h) PROVE IterInv'
  <2>1. /\ piece' = [piece EXCEPT ![h] = Nothing] /\ slots' = slots /\ SlotsAt(h) = {}
    BY <1>3 DEF PublishIter, PublishPiece, DropIter, Usable
  <2>2. /\ piece'[h] = Nothing /\ \A o \in Handles \ {h} : piece'[o] = piece[o]
    BY <1>0, <2>1
  <2> QED  BY <1>0, <2>1, <2>2, NothingCounts, OthersKeepIters DEF Is
<1>4. ASSUME NEW o \in Handles \ {h}, SwapIters(h, o) PROVE IterInv'
  <2>1. /\ piece'[h] = piece[o] /\ piece'[o] = piece[h] /\ slots' = slots
        /\ SlotsAt(h) = {} /\ SlotsAt(o) = {}
        /\ \A p \in Handles \ {h, o} : piece'[p] = piece[p]
    BY <1>0, <1>4 DEF SwapIters, Usable
  <2>2. \A p \in Handles : SlotsAt(p)' = SlotsAt(p)
    BY <2>1 DEF SlotsAt
  <2>3. IterFits(h) /\ IterFits(o)
    BY IterParts
  <2>4. IterFits(h)' /\ IterFits(o)'
    BY <2>1, <2>2, <2>3 DEF IterFits, Is, LenOf, Yielded, Out
  <2>5. \A p \in Handles : IterFits(p)'
    BY <2>1, <2>2, <2>4, SameIter
  <2>6. ASSUME NEW s \in slots PROVE SlotFits(s)'
    <3>1. s.at \in Handles /\ s \in SlotsAt(s.at) /\ SlotFits(s)
      BY SlotParts DEF SlotsAt, IterInv
    <3>2. s.at \notin {h, o}
      BY <2>1, <3>1
    <3> QED  BY <2>1, <3>1, <3>2 DEF SlotFits, Is
  <2> QED  BY <1>0, <2>1, <2>5, <2>6 DEF IterInv
<1> QED  BY <1>1, <1>2, <1>3, <1>4 DEF IterStep

LEMMA SlotKeepsIters ==
    ASSUME IterInv, NEW s \in slots, WriteSlot(s) \/ DropSlot(s) PROVE IterInv'
<1> DEFINE h == s.at
<1>0. /\ TileInv' /\ piece \in [Handles -> AnyPiece] /\ h \in Handles /\ piece[h] \in AnyPiece
      /\ Is(h, "iter") /\ SlotsAt(h) = {s} /\ Out(h) = 1 /\ IterFits(h)
      /\ slots' = slots \ {s} /\ piece[h].written \in Nat /\ Yielded(h) \in Nat
  <2>1. slots' = slots \ {s}
    BY DEF WriteSlot, DropSlot
  <2>2. TileInv'
    BY SlotKeepsTiles DEF IterInv
  <2>3. h \in Handles /\ Is(h, "iter") /\ SlotsAt(h) = {s} /\ Out(h) = 1
    BY SlotParts
  <2>4. /\ piece \in [Handles -> AnyPiece] /\ IterFits(h)
        /\ piece[h].written \in Nat /\ Yielded(h) \in Nat
    BY <2>3, IterParts
  <2> QED  BY <2>1, <2>2, <2>3, <2>4
<1>1. /\ piece'[h].kind = "iter" /\ piece'[h].start = piece[h].start
      /\ piece'[h].end = piece[h].end /\ piece'[h].cursor = piece[h].cursor
      /\ piece'[h].total = piece[h].total
      /\ piece'[h].written \in {piece[h].written, piece[h].written + 1}
      /\ \A o \in Handles \ {h} : piece'[o] = piece[o]
  <2>1. CASE WriteSlot(s)
    <3>1. piece' = [piece EXCEPT ![h].written = @ + 1]
      BY <1>0, <2>1 DEF WriteSlot
    <3>2. piece'[h] = [piece[h] EXCEPT !.written = @ + 1]
          /\ \A o \in Handles \ {h} : piece'[o] = piece[o]
      BY <1>0, <3>1
    <3> QED  BY <1>0, <3>2 DEF AnyPiece, Is
  <2>2. CASE DropSlot(s)
    BY <1>0, <2>2 DEF DropSlot, Is
  <2> QED  BY <2>1, <2>2
<1>2. SlotsAt(h)' = {} /\ \A o \in Handles \ {h} : SlotsAt(o)' = SlotsAt(o)
  BY <1>0 DEF SlotsAt
<1>3. IterFits(h)'
  <2>1. Out(h)' = 0 /\ Yielded(h)' = Yielded(h) /\ LenOf(h)' = LenOf(h)
    BY <1>1, <1>2 DEF Out, Yielded, LenOf
  <2> QED  BY <1>0, <1>1, <2>1 DEF IterFits, Is
<1>4. \A o \in Handles : IterFits(o)'
  BY <1>1, <1>2, <1>3, SameIter
<1>5. ASSUME NEW t \in slots' PROVE SlotFits(t)'
  <2>1. t \in slots /\ t # s /\ t.at \in Handles /\ t \in SlotsAt(t.at) /\ SlotFits(t)
    BY <1>0, SlotParts DEF SlotsAt, IterInv
  <2>2. t.at # h
    BY <1>0, <2>1
  <2> QED  BY <1>1, <2>1, <2>2 DEF SlotFits, Is
<1> QED  BY <1>0, <1>4, <1>5 DEF IterInv

LEMMA StepKeepsIters ==
    ASSUME SlotsBorrow = TRUE PROVE IterInv /\ [Next]_vars => IterInv'
<1> SUFFICES ASSUME IterInv, [Next]_vars PROVE IterInv'
  OBVIOUS
<1>0. TileInv'
  BY StepKeepsTiles DEF IterInv
<1>1. ASSUME UNCHANGED <<piece, slots>> PROVE IterInv'
  BY <1>0, <1>1, OthersKeepIters
<1>2. CASE UNCHANGED vars
  BY <1>1, <1>2 DEF vars
<1>3. CASE Next
  <2>1. ASSUME \/ Release
               \/ \E g \in unheld : \/ FillUnheld(g)
                                   \/ \E n \in 1 .. Capacity : PublishUnheld(g, n)
        PROVE  UNCHANGED <<piece, slots>>
    BY <2>1 DEF Release, FillUnheld, PublishUnheld
  <2> QED
    BY <1>1, <1>3, <2>1, ReservationKeepsIters, IterKeepsIters, SlotKeepsIters DEF Next
<1> QED  BY <1>2, <1>3

LEMMA InitIters == Init => IterInv
  BY InitTiles, NothingCounts DEF Init, IterInv, IterFits, Is

LEMMA ItersAlways == ASSUME SlotsBorrow = TRUE PROVE Spec => []IterInv
<1> QED  BY InitIters, StepKeepsIters, PTL DEF Spec

(* Every variable keeps its type: a generation never has its top bit set,  *)
(* and no iterator counts more slots than its reservation has.             *)
THEOREM ReservationsTypeCorrect ==
    ASSUME SlotsBorrow = TRUE PROVE Spec => []TypeOK
<1>1. ASSUME IterInv PROVE TypeOK
  <2>1. ASSUME NEW h \in Handles PROVE piece[h] \in Pieces
    <3>1. piece[h].written \in 0 .. Capacity /\ piece[h].total \in 0 .. Capacity
      BY <1>1, IterParts, CapacityAssumption DEF IterFits
    <3>2. piece[h] \in AnyPiece
      BY <1>1, IterParts
    <3> QED  BY <3>1, <3>2 DEF AnyPiece, Pieces
  <2>2. piece \in [Handles -> Pieces]
    BY <1>1, <2>1 DEF IterInv, TileInv, RingTypes
  <2> QED  BY <1>1, <2>2 DEF IterInv, TileInv, RingTypes, TypeOK
<1>2. IterInv => TypeOK
  BY <1>1
<1> QED  BY <1>2, ItersAlways, PTL

-----------------------------------------------------------------------------
(* What is written stays in its cell for as long as it is in the window.   *)
LEMMA WindowCells ==
    ASSUME Msb % Capacity = 0, RingTypes, Window,
           NEW a \in Unread \cup Pending, NEW b \in Unread \cup Pending, a # b
    PROVE  Cell(a) # Cell(b)
<1>0. /\ free_gen \in Gens /\ read_gen \in Gens
      /\ UnreadLen \in Nat /\ PendingLen \in Nat /\ UnreadLen + PendingLen <= Capacity
      /\ Capacity \in Nat /\ Capacity < Msb /\ Msb \in Nat
  BY RoomIs, CapacityAssumption, GensAre DEF RingTypes, Window
<1>1. ASSUME NEW g \in Unread \cup Pending PROVE g \in Gens /\ GenDist(g, free_gen) < Capacity
  <2>1. g \in Gens
    BY WindowIs
  <2>2. /\ GenDist(g, free_gen) \in Nat /\ GenDist(g, read_gen) \in Nat
        /\ GenDist(g, free_gen) = IF GenDist(g, read_gen) + UnreadLen < Msb
                                  THEN GenDist(g, read_gen) + UnreadLen
                                  ELSE GenDist(g, read_gen) + UnreadLen - Msb
    BY <1>0, <2>1, DistType, DistSum DEF UnreadLen
  <2>3. GenDist(g, free_gen) < UnreadLen \/ GenDist(g, read_gen) < PendingLen
    BY WindowIs
  <2> QED  BY <1>0, <2>1, <2>2, <2>3
<1> QED  BY <1>0, <1>1, CellsApart

LEMMA UnreadIsNotPending ==
    ASSUME RingTypes, Window PROVE Unread \cap Pending = {}
<1>0. /\ free_gen \in Gens /\ read_gen \in Gens
      /\ UnreadLen \in Nat /\ PendingLen \in Nat /\ UnreadLen + PendingLen <= Capacity
      /\ Capacity \in Nat /\ Capacity < Msb /\ Msb \in Nat
  BY RoomIs, CapacityAssumption, GensAre DEF RingTypes, Window
<1>1. ASSUME NEW g \in Unread, g \in Pending PROVE FALSE
  <2>1. g \in Gens /\ GenDist(g, free_gen) < UnreadLen /\ GenDist(g, read_gen) < PendingLen
    BY <1>1, WindowIs
  <2>2. /\ GenDist(g, free_gen) \in Nat /\ GenDist(g, read_gen) \in Nat
        /\ GenDist(g, free_gen) = IF GenDist(g, read_gen) + UnreadLen < Msb
                                  THEN GenDist(g, read_gen) + UnreadLen
                                  ELSE GenDist(g, read_gen) + UnreadLen - Msb
    BY <1>0, <2>1, DistType, DistSum DEF UnreadLen
  <2> QED  BY <1>0, <2>1, <2>2
<1> QED  BY <1>1

(* A cell of the window that is written: the others keep what they hold.   *)
LEMMA FillIs ==
    ASSUME Msb % Capacity = 0, RingTypes, Window, NEW g \in Unread \cup Pending, NEW v,
           buffer' = [buffer EXCEPT ![Cell(g)] = v]
    PROVE  /\ buffer'[Cell(g)] = v
           /\ \A x \in Unread \cup Pending : x # g => (Filled(x)' <=> Filled(x))
<1>1. \A x \in Unread \cup Pending : x \in Gens /\ Cell(x) \in 0 .. Capacity - 1
  BY WindowIs, CellType
<1>2. buffer \in [0 .. Capacity - 1 -> Gens \cup {Empty}]
  BY DEF RingTypes
<1>3. buffer'[Cell(g)] = v
  BY <1>1, <1>2
<1>4. ASSUME NEW x \in Unread \cup Pending, x # g PROVE Filled(x)' <=> Filled(x)
  <2>1. Cell(x) # Cell(g) /\ Cell(x) \in 0 .. Capacity - 1
    BY <1>1, <1>4, WindowCells
  <2>2. buffer'[Cell(x)] = buffer[Cell(x)]
    BY <1>2, <2>1
  <2> QED  BY <2>2 DEF Filled
<1> QED  BY <1>3, <1>4

LEMMA FilledParts ==
    ASSUME FilledInv
    PROVE  /\ IterInv /\ TileInv /\ RingTypes /\ Window /\ PublishedIsFilled
           /\ \A h \in Handles : IterFilled(h) /\ RangeOf(h) \subseteq Pending
  BY DEF FilledInv, IterInv, TileInv, PiecesTile

(* A place that no step touches.                                           *)
LEMMA SameFill ==
    ASSUME FilledInv, NEW h \in Handles, piece'[h] = piece[h], SlotsAt(h)' = SlotsAt(h),
           \A x \in Pending : Filled(x) => Filled(x)'
    PROVE  IterFilled(h)'
<1>1. /\ Is(h, "iter")' <=> Is(h, "iter")
      /\ Out(h)' = Out(h) /\ Yielded(h)' = Yielded(h)
  BY DEF Is, Out, Yielded
<1>2. Is(h, "iter") => GenRange(piece[h].start, piece[h].cursor) \subseteq Pending
  BY FilledParts, IterParts
<1> QED  BY <1>1, <1>2, FilledParts DEF IterFilled

LEMMA OthersKeepFill ==
    ASSUME FilledInv, IterInv', slots' = slots, Unread' = Unread,
           \A x \in Unread \cup Pending : Filled(x) => Filled(x)',
           \A h \in Handles : piece'[h] = piece[h] \/ ~Is(h, "iter")'
    PROVE  FilledInv'
<1>1. ASSUME NEW h \in Handles PROVE IterFilled(h)'
  <2>1. SlotsAt(h)' = SlotsAt(h)
    BY DEF SlotsAt
  <2>2. CASE piece'[h] = piece[h]
    BY <2>1, <2>2, SameFill
  <2>3. CASE ~Is(h, "iter")'
    BY <2>3 DEF IterFilled
  <2> QED  BY <2>2, <2>3
<1>2. PublishedIsFilled'
  BY FilledParts DEF PublishedIsFilled, Filled
<1> QED  BY <1>1, <1>2 DEF FilledInv

(* What is published is filled, if all of the piece is.                    *)
LEMMA PublishKeepsFill ==
    ASSUME FilledInv, IterInv', NEW h \in Handles, PublishPiece(h),
           \A g \in RangeOf(h) : Filled(g)
    PROVE  FilledInv'
<1>1. /\ LenOf(h) = 0 => read_gen' = read_gen
      /\ LenOf(h) # 0 => read_gen = piece[h].start /\ read_gen' = piece[h].end
      /\ piece'[h] = Nothing /\ \A o \in Handles \ {h} : piece'[o] = piece[o]
      /\ UNCHANGED <<write_gen, free_gen, buffer, slots>>
  BY FilledParts, PublishIs DEF PublishPiece
<1>2. Unread' \subseteq Unread \cup RangeOf(h)
  <2>1. CASE LenOf(h) = 0
    BY <1>1, <2>1 DEF Unread
  <2>2. CASE LenOf(h) # 0
    BY <1>1, <2>2, FilledParts, PublishMoves
  <2> QED  BY <2>1, <2>2
<1>3. \A x : Filled(x)' <=> Filled(x)
  BY <1>1 DEF Filled
<1>4. PublishedIsFilled'
  <2>1. \A g \in Unread : Filled(g)
    BY FilledParts DEF PublishedIsFilled, Filled
  <2>2. \A g \in Unread' : Filled(g)'
    BY <1>2, <1>3, <2>1
  <2> QED  BY <2>2 DEF PublishedIsFilled, Filled
<1>5. ASSUME NEW o \in Handles PROVE IterFilled(o)'
  <2>1. SlotsAt(o)' = SlotsAt(o)
    BY <1>1 DEF SlotsAt
  <2>2. CASE o = h
    BY <1>1, <2>2, NothingCounts DEF IterFilled, Is
  <2>3. CASE o # h
    BY <1>1, <1>3, <2>1, <2>3, SameFill
  <2> QED  BY <2>2, <2>3
<1> QED  BY <1>4, <1>5 DEF FilledInv

LEMMA ReservationKeepsFill ==
    ASSUME Msb % Capacity = 0, FilledInv, NEW h \in Handles, ReservationStep(h)
    PROVE  FilledInv'
<1>0. /\ IterInv /\ IterInv' /\ TileInv /\ RingTypes /\ Window
      /\ piece \in [Handles -> AnyPiece] /\ RangeOf(h) \subseteq Pending
  BY FilledParts, ReservationKeepsIters DEF RingTypes
<1>1. ASSUME UNCHANGED <<read_gen, free_gen, buffer, slots>>,
             \A o \in Handles : piece'[o] = piece[o] \/ ~Is(o, "iter")'
      PROVE  FilledInv'
  <2>1. Unread' = Unread /\ \A x \in Unread \cup Pending : Filled(x) => Filled(x)'
    BY <1>1 DEF Unread, Filled
  <2> QED  BY <1>0, <1>1, <2>1, OthersKeepFill
<1>2. ASSUME NEW n, Take(h, n) PROVE FilledInv'
  <2>1. /\ UNCHANGED <<read_gen, free_gen, buffer, slots>>
        /\ \A o \in Handles : piece'[o] = piece[o] \/ ~Is(o, "iter")'
    BY <1>0, <1>2 DEF Take, Reservation, Nothing, Is
  <2> QED  BY <1>1, <2>1
<1>3. ASSUME NEW n \in 0 .. MaxBatch, Reserve(h, n) PROVE FilledInv'
  BY <1>2, <1>3 DEF Reserve
<1>4. ASSUME NEW n \in 0 .. MaxBatch, ReserveBestEffort(h, n) PROVE FilledInv'
  <2>1. CASE piece' = [piece EXCEPT ![h] = Reservation(0, 0)]
             /\ UNCHANGED <<write_gen, read_gen, free_gen, buffer, slots, unheld>>
    <3>1. \A o \in Handles : piece'[o] = piece[o] \/ ~Is(o, "iter")'
      BY <1>0, <2>1 DEF Reservation, Nothing, Is
    <3> QED  BY <1>1, <2>1, <3>1
  <2> QED  BY <1>2, <1>4, <2>1 DEF ReserveBestEffort
<1>5. ASSUME NEW i \in 0 .. Capacity, GetMut(h, i) PROVE FilledInv'
  <2> DEFINE g == GenAdd(piece[h].start, i)
  <2>1. /\ i \in 0 .. LenOf(h) - 1 /\ buffer' = [buffer EXCEPT ![Cell(g)] = g]
        /\ UNCHANGED <<write_gen, read_gen, free_gen, piece, slots>>
    <3>1. i \in Nat /\ LenOf(h) \in Nat /\ i < LenOf(h)
      BY <1>0, <1>5, PieceParts, CapacityAssumption DEF GetMut
    <3> QED  BY <1>5, <3>1 DEF GetMut
  <2>2. g \in Pending
    <3>1. g \in RangeOf(h)
      BY <2>1 DEF RangeOf, LenOf, GenRange
    <3> QED  BY <1>0, <3>1
  <2> HIDE DEF g
  <2>3. \A x \in Unread \cup Pending : Filled(x) => Filled(x)'
    <3>1. /\ buffer'[Cell(g)] = g
          /\ \A x \in Unread \cup Pending : x # g => (Filled(x)' <=> Filled(x))
      BY <1>0, <2>1, <2>2, FillIs
    <3>2. \A x : x = g => Filled(x)'
      BY <3>1 DEF Filled
    <3> QED  BY <3>1, <3>2
  <2>4. Unread' = Unread
    BY <2>1 DEF Unread
  <2> QED  BY <1>0, <2>1, <2>3, <2>4, OthersKeepFill
<1>6. ASSUME NEW i \in 0 .. Capacity, NEW right \in Handles \ {h}, SplitAtMut(h, right, i)
      PROVE  FilledInv'
  <2>1. /\ UNCHANGED <<read_gen, free_gen, buffer, slots>>
        /\ \A o \in Handles : piece'[o] = piece[o] \/ ~Is(o, "iter")'
    BY <1>0, <1>6 DEF SplitAtMut, Reservation, Nothing, Is
  <2> QED  BY <1>1, <2>1
<1>7. ASSUME Publish(h) PROVE FilledInv'
  BY <1>0, <1>7, PublishKeepsFill DEF Publish, Filled
<1>8. ASSUME DropReservation(h) PROVE FilledInv'
  <2>1. /\ UNCHANGED <<read_gen, free_gen, buffer, slots>>
        /\ \A o \in Handles : piece'[o] = piece[o] \/ ~Is(o, "iter")'
    BY <1>0, <1>8 DEF DropReservation, Nothing, Is
  <2> QED  BY <1>1, <2>1
<1> QED  BY <1>3, <1>4, <1>5, <1>6, <1>7, <1>8 DEF ReservationStep

LEMMA ReleaseKeepsFill ==
    ASSUME Msb % Capacity = 0, FilledInv, Release, IterInv' PROVE FilledInv'
<1>0. /\ RingTypes /\ Window /\ free_gen \in Unread /\ Unread' = Unread \ {free_gen}
      /\ Unread \cap Pending = {} /\ UNCHANGED <<piece, slots>>
      /\ buffer' = [buffer EXCEPT ![Cell(free_gen)] = Empty]
  BY FilledParts, ReleaseIs, UnreadIsNotPending DEF Release
<1>1. \A x \in Unread \cup Pending : x # free_gen => (Filled(x)' <=> Filled(x))
  BY <1>0, FillIs
<1>2. PublishedIsFilled'
  <2>1. \A g \in Unread' : Filled(g)'
    BY <1>0, <1>1, FilledParts DEF PublishedIsFilled, Filled
  <2> QED  BY <2>1 DEF PublishedIsFilled, Filled
<1>3. \A x \in Pending : Filled(x) => Filled(x)'
  BY <1>0, <1>1
<1>4. ASSUME NEW h \in Handles PROVE IterFilled(h)'
  <2>1. piece'[h] = piece[h] /\ SlotsAt(h)' = SlotsAt(h)
    BY <1>0 DEF SlotsAt
  <2> QED  BY <1>3, <2>1, SameFill
<1> QED  BY <1>2, <1>4 DEF FilledInv

LEMMA NextKeepsFill ==
    ASSUME FilledInv, SlotsBorrow = TRUE, IterInv', NEW h \in Handles, NextSlot(h)
    PROVE  IterFilled(h)'
<1> DEFINE c   == piece[h].cursor
           d   == GenAdd(c, 1)
           new == [gen |-> c, at |-> h]
<1>0. /\ IterInv /\ piece[h].start \in Gens /\ c \in Gens /\ d \in Gens
      /\ buffer' = buffer /\ Is(h, "iter") /\ SlotsAt(h) = {} /\ SlotsAt(h)' = {new}
      /\ piece'[h].start = piece[h].start /\ piece'[h].cursor = d
      /\ piece'[h].written = piece[h].written /\ piece[h].written \in Nat
      /\ Yielded(h)' = Yielded(h) + 1 /\ Yielded(h) \in Nat
  <2>1. IterInv /\ piece[h].start \in Gens /\ c \in Gens
    BY FilledParts, IterParts
  <2>2. d \in Gens
    BY <2>1, SumType
  <2>3. SlotsAt(h)' = {new}
    BY <2>1, NextIs DEF SlotsAt
  <2> QED  BY <2>1, <2>2, <2>3, NextIs DEF NextSlot
<1>1. SUFFICES ASSUME piece[h].written = Yielded(h),
                      NEW g \in GenRange(piece[h].start, d), g # c
               PROVE  Filled(g)'
  <2>1. Out(h)' = 1
    BY <1>0 DEF Out
  <2>2. piece'[h].written + Out(h)' = Yielded(h)' => piece[h].written = Yielded(h)
    BY <1>0, <2>1
  <2>3. \E s \in SlotsAt(h)' : s.gen = c
    BY <1>0
  <2> QED  BY <1>0, <2>2, <2>3 DEF IterFilled
<1> HIDE DEF c, d, new
<1>2. g \in Gens /\ GenDist(g, piece[h].start) <= Yielded(h)
  <2>1. g \in Gens /\ GenDist(g, piece[h].start) < GenDist(d, piece[h].start)
    BY <1>0, <1>1, RangeIs
  <2>2. GenDist(d, piece[h].start) = Yielded(h) + 1
    BY <1>0 DEF Yielded
  <2> QED  BY <1>0, <2>1, <2>2, DistType
<1>3. GenDist(g, piece[h].start) # Yielded(h)
  <2>1. /\ g = GenAdd(piece[h].start, GenDist(g, piece[h].start))
        /\ c = GenAdd(piece[h].start, GenDist(c, piece[h].start))
    BY <1>0, <1>2, SumOfDist
  <2> QED  BY <1>1, <2>1 DEF Yielded, c
<1>4. g \in GenRange(piece[h].start, c)
  <2>1. GenDist(g, piece[h].start) < Yielded(h)
    BY <1>0, <1>2, <1>3, DistType
  <2> QED  BY <1>0, <1>2, <2>1, IterParts DEF c
<1>5. Filled(g)
  <2>1. Out(h) = 0 /\ IterFilled(h)
    BY <1>0, FilledParts DEF Out
  <2> QED  BY <1>0, <1>1, <1>4, <2>1 DEF IterFilled, c
<1> QED  BY <1>0, <1>5 DEF Filled

LEMMA IterKeepsFill ==
    ASSUME FilledInv, SlotsBorrow = TRUE, NEW h \in Handles, IterStep(h)
    PROVE  FilledInv'
<1>0. /\ IterInv /\ IterInv' /\ TileInv /\ RingTypes
      /\ piece \in [Handles -> AnyPiece]
      /\ piece[h].start \in Gens /\ piece[h].end \in Gens
  BY FilledParts, IterParts, IterKeepsIters DEF RingTypes
<1>1. \A x : UNCHANGED buffer => (Filled(x) <=> Filled(x)')
  BY DEF Filled
<1>2. ASSUME UNCHANGED <<read_gen, free_gen, buffer>> PROVE PublishedIsFilled'
  BY <1>1, <1>2, FilledParts DEF PublishedIsFilled, Filled, Unread
<1>3. ASSUME IntoIter(h) PROVE FilledInv'
  <2>1. /\ piece'[h] = Iter(piece[h].start, piece[h].end)
        /\ \A o \in Handles \ {h} : piece'[o] = piece[o]
        /\ UNCHANGED <<read_gen, free_gen, buffer, slots>>
    BY <1>0, <1>3 DEF IntoIter
  <2>2. piece'[h].start = piece[h].start /\ piece'[h].cursor = piece[h].start
    BY <2>1 DEF Iter, Nothing
  <2>3. GenRange(piece[h].start, piece[h].start) = {}
    BY <1>0, DistZero DEF GenRange
  <2>4. IterFilled(h)'
    BY <2>2, <2>3 DEF IterFilled
  <2>5. ASSUME NEW o \in Handles PROVE IterFilled(o)'
    <3>1. SlotsAt(o)' = SlotsAt(o)
      BY <2>1 DEF SlotsAt
    <3> QED  BY <1>1, <2>1, <2>4, <3>1, SameFill
  <2> QED  BY <1>0, <1>2, <2>1, <2>5 DEF FilledInv
<1>4. ASSUME NextSlot(h) PROVE FilledInv'
  <2>1. UNCHANGED <<read_gen, free_gen, buffer>>
    BY <1>4 DEF NextSlot
  <2>2. IterFilled(h)'
    BY <1>0, <1>4, NextKeepsFill
  <2>3. ASSUME NEW o \in Handles \ {h} PROVE IterFilled(o)'
    <3>1. piece'[o] = piece[o] /\ SlotsAt(o)' = SlotsAt(o)
      BY <1>0, <1>4, NextIs DEF SlotsAt
    <3> QED  BY <1>1, <2>1, <3>1, SameFill
  <2> QED  BY <1>0, <1>2, <2>1, <2>2, <2>3 DEF FilledInv
<1>5. ASSUME PublishIter(h) PROVE FilledInv'
  <2>1. /\ Is(h, "iter") /\ SlotsAt(h) = {} /\ piece[h].written = piece[h].total
        /\ PublishPiece(h)
    BY <1>5 DEF PublishIter, Usable, AllWritten
  <2>2. Out(h) = 0 /\ piece[h].written = Yielded(h) /\ Yielded(h) = LenOf(h)
    <3>1. Out(h) = 0
      BY <2>1 DEF Out
    <3> QED  BY <1>0, <2>1, <3>1, IterParts DEF IterFits
  <2>3. RangeOf(h) = GenRange(piece[h].start, piece[h].cursor)
    <3>1. RangeOf(h) = {g \in Gens : GenDist(g, piece[h].start) < LenOf(h)}
      BY <1>0, PieceParts
    <3>2. GenRange(piece[h].start, piece[h].cursor) =
              {g \in Gens : GenDist(g, piece[h].start) < Yielded(h)}
      BY <1>0, IterParts
    <3> QED  BY <2>2, <3>1, <3>2
  <2>4. \A g \in RangeOf(h) : Filled(g)
    <3>1. piece[h].written + Out(h) = Yielded(h)
      BY <1>0, <2>2, IterParts
    <3> QED  BY <2>1, <2>3, <3>1, FilledParts DEF IterFilled
  <2> QED  BY <1>0, <2>1, <2>4, PublishKeepsFill
<1>6. ASSUME DropIter(h) PROVE FilledInv'
  <2>1. /\ UNCHANGED <<read_gen, free_gen, buffer, slots>>
        /\ \A o \in Handles : piece'[o] = piece[o] \/ ~Is(o, "iter")'
    BY <1>0, <1>6, NothingCounts DEF DropIter, Is
  <2>2. Unread' = Unread
    BY <2>1 DEF Unread
  <2> QED  BY <1>0, <1>1, <2>1, <2>2, OthersKeepFill
<1>7. ASSUME NEW o \in Handles \ {h}, SwapIters(h, o) PROVE FilledInv'
  <2>1. /\ piece'[h] = piece[o] /\ piece'[o] = piece[h]
        /\ UNCHANGED <<read_gen, free_gen, buffer, slots>>
        /\ SlotsAt(h) = {} /\ SlotsAt(o) = {}
        /\ \A p \in Handles \ {h, o} : piece'[p] = piece[p]
    BY <1>0, <1>7 DEF SwapIters, Usable
  <2>2. \A p \in Handles : SlotsAt(p)' = SlotsAt(p)
    BY <2>1 DEF SlotsAt
  <2>3. IterFilled(h)' /\ IterFilled(o)'
    <3>1. IterFilled(h) /\ IterFilled(o)
      BY FilledParts
    <3> QED  BY <1>1, <2>1, <2>2, <3>1 DEF IterFilled, Is, Out, Yielded
  <2>4. \A p \in Handles \ {h, o} : IterFilled(p)'
    BY <1>1, <2>1, <2>2, SameFill
  <2> QED  BY <1>0, <1>2, <2>1, <2>3, <2>4 DEF FilledInv
<1> QED  BY <1>3, <1>4, <1>5, <1>6, <1>7 DEF IterStep

LEMMA SlotKeepsFill ==
    ASSUME Msb % Capacity = 0, FilledInv, NEW s \in slots, WriteSlot(s) \/ DropSlot(s)
    PROVE  FilledInv'
<1> DEFINE h == s.at
<1>0. /\ IterInv /\ IterInv' /\ RingTypes /\ Window /\ piece \in [Handles -> AnyPiece]
      /\ h \in Handles /\ Is(h, "iter") /\ SlotsAt(h) = {s} /\ Out(h) = 1
      /\ s.gen \in Pending /\ piece[h] \in AnyPiece /\ piece[h].written \in Nat
      /\ piece[h].written + 1 <= Yielded(h)
      /\ UNCHANGED <<read_gen, free_gen>> /\ slots' = slots \ {s}
  <2>1. /\ IterInv /\ IterInv' /\ RingTypes /\ Window /\ piece \in [Handles -> AnyPiece]
    BY FilledParts, SlotKeepsIters DEF RingTypes
  <2>2. /\ h \in Handles /\ Is(h, "iter") /\ SlotsAt(h) = {s} /\ Out(h) = 1
        /\ s.gen \in RangeOf(h)
    BY <2>1, SlotParts
  <2>3. /\ s.gen \in Pending /\ piece[h] \in AnyPiece /\ piece[h].written \in Nat
        /\ piece[h].written + 1 <= Yielded(h)
    BY <2>1, <2>2, FilledParts, IterParts DEF IterFits
  <2> QED  BY <2>1, <2>2, <2>3 DEF WriteSlot, DropSlot
<1>1. Unread' = Unread
  BY <1>0 DEF Unread
<1>2. \A x \in Unread \cup Pending : Filled(x) => Filled(x)'
  <2>1. CASE WriteSlot(s)
    <3>1. buffer' = [buffer EXCEPT ![Cell(s.gen)] = s.gen]
      BY <2>1 DEF WriteSlot
    <3> QED  BY <1>0, <3>1, FillIs DEF Filled
  <2>2. CASE DropSlot(s)
    BY <2>2 DEF DropSlot, Filled
  <2> QED  BY <2>1, <2>2
<1>3. PublishedIsFilled'
  BY <1>1, <1>2, FilledParts DEF PublishedIsFilled, Filled
<1>4. SlotsAt(h)' = {} /\ \A o \in Handles \ {h} : SlotsAt(o)' = SlotsAt(o)
  BY <1>0 DEF SlotsAt
<1>5. CASE WriteSlot(s)
  <2>1. /\ piece'[h].start = piece[h].start /\ piece'[h].cursor = piece[h].cursor
        /\ piece'[h].written = piece[h].written + 1
        /\ \A o \in Handles \ {h} : piece'[o] = piece[o]
        /\ buffer' = [buffer EXCEPT ![Cell(s.gen)] = s.gen]
    <3>1. piece' = [piece EXCEPT ![h].written = @ + 1]
          /\ buffer' = [buffer EXCEPT ![Cell(s.gen)] = s.gen]
      BY <1>0, <1>5 DEF WriteSlot
    <3>2. piece'[h] = [piece[h] EXCEPT !.written = @ + 1]
          /\ \A o \in Handles \ {h} : piece'[o] = piece[o]
      BY <1>0, <3>1
    <3> QED  BY <1>0, <3>1, <3>2 DEF AnyPiece
  <2>2. Filled(s.gen)'
    BY <1>0, <2>1, FillIs DEF Filled
  <2>3. ASSUME piece'[h].written + Out(h)' = Yielded(h)',
               NEW g \in GenRange(piece[h].start, piece[h].cursor)
        PROVE  Filled(g)'
    <3>1. Out(h)' = 0 /\ Yielded(h)' = Yielded(h)
      BY <1>4, <2>1 DEF Out, Yielded
    <3>2. piece[h].written + Out(h) = Yielded(h)
      BY <1>0, <2>1, <2>3, <3>1
    <3>3. Filled(g) \/ s.gen = g
      BY <1>0, <2>3, <3>2, FilledParts DEF IterFilled
    <3>4. g \in Pending
      BY <1>0, <2>3, FilledParts, IterParts
    <3> QED  BY <1>2, <2>2, <3>3, <3>4
  <2>4. IterFilled(h)'
    BY <2>1, <2>3 DEF IterFilled
  <2>5. \A o \in Handles \ {h} : IterFilled(o)'
    BY <1>2, <1>4, <2>1, SameFill
  <2> QED  BY <1>0, <1>3, <2>4, <2>5 DEF FilledInv
<1>6. CASE DropSlot(s)
  <2>1. piece' = piece
    BY <1>6 DEF DropSlot
  <2>2. IterFilled(h)'
    <3>1. Out(h)' = 0 /\ Yielded(h)' = Yielded(h) /\ piece'[h].written = piece[h].written
      BY <1>4, <2>1 DEF Out, Yielded
    <3>2. piece'[h].written + Out(h)' # Yielded(h)'
      BY <1>0, <3>1
    <3> QED  BY <3>2 DEF IterFilled
  <2>3. \A o \in Handles \ {h} : IterFilled(o)'
    BY <1>2, <1>4, <2>1, SameFill
  <2> QED  BY <1>0, <1>3, <2>2, <2>3 DEF FilledInv
<1> QED  BY <1>5, <1>6

LEMMA UnheldKeepsFill ==
    ASSUME Msb % Capacity = 0, FilledInv, IterInv', NEW g \in unheld,
           \/ FillUnheld(g)
           \/ \E n \in 1 .. Capacity : PublishUnheld(g, n)
    PROVE  FilledInv'
<1>0. RingTypes /\ Window /\ TileInv /\ g \in Pending
  BY FilledParts, TileParts
<1>1. CASE FillUnheld(g)
  <2>1. buffer' = [buffer EXCEPT ![Cell(g)] = g] /\ UNCHANGED <<read_gen, free_gen, piece, slots>>
    BY <1>1 DEF FillUnheld
  <2>2. \A x \in Unread \cup Pending : Filled(x) => Filled(x)'
    <3>1. /\ buffer'[Cell(g)] = g
          /\ \A x \in Unread \cup Pending : x # g => (Filled(x)' <=> Filled(x))
      BY <1>0, <2>1, FillIs
    <3>2. \A x : x = g => Filled(x)'
      BY <3>1 DEF Filled
    <3> QED  BY <3>1, <3>2
  <2>3. Unread' = Unread
    BY <2>1 DEF Unread
  <2> QED  BY <2>1, <2>2, <2>3, OthersKeepFill
<1>2. ASSUME NEW n \in 1 .. Capacity, PublishUnheld(g, n) PROVE FilledInv'
  <2> DEFINE range == GenRange(g, GenAdd(g, n))
  <2>1. Unread' = Unread \cup range
    <3> DEFINE e == GenAdd(g, n)
    <3>1. /\ e \in Gens /\ GenDist(e, read_gen) = n /\ n <= PendingLen
          /\ read_gen = g /\ read_gen' = e
      BY <1>0, <1>2, UnheldIs
    <3>2. UNCHANGED <<write_gen, free_gen>>
      BY <1>2 DEF PublishUnheld
    <3> HIDE DEF e
    <3>3. Unread' = Unread \cup GenRange(read_gen, e)
      BY <1>0, <3>1, <3>2, ReadGenMoves
    <3> QED  BY <3>1, <3>3 DEF e
  <2>2. /\ \A x \in range : Filled(x)
        /\ UNCHANGED <<buffer, piece, slots>>
    BY <1>2 DEF PublishUnheld, Filled
  <2> HIDE DEF range
  <2>3. \A x : Filled(x)' <=> Filled(x)
    BY <2>2 DEF Filled
  <2>4. PublishedIsFilled'
    <3>1. \A x \in Unread' : Filled(x)'
      BY <2>1, <2>2, <2>3, FilledParts DEF PublishedIsFilled, Filled
    <3> QED  BY <3>1 DEF PublishedIsFilled, Filled
  <2>5. ASSUME NEW o \in Handles PROVE IterFilled(o)'
    <3>1. SlotsAt(o)' = SlotsAt(o)
      BY <2>2 DEF SlotsAt
    <3> QED  BY <2>2, <2>3, <3>1, SameFill
  <2> QED  BY <2>4, <2>5 DEF FilledInv
<1> QED  BY <1>1, <1>2

LEMMA StepKeepsFill ==
    ASSUME SlotsBorrow = TRUE, Msb % Capacity = 0
    PROVE  FilledInv /\ [Next]_vars => FilledInv'
<1> SUFFICES ASSUME FilledInv, [Next]_vars PROVE FilledInv'
  OBVIOUS
<1>0. IterInv'
  BY StepKeepsIters, FilledParts
<1>1. CASE UNCHANGED vars
  <2>1. /\ slots' = slots /\ Unread' = Unread /\ piece' = piece
        /\ \A x : Filled(x) => Filled(x)'
    BY <1>1 DEF vars, Unread, Filled
  <2> QED  BY <1>0, <2>1, OthersKeepFill
<1>2. CASE Next
  BY <1>0, <1>2, ReservationKeepsFill, IterKeepsFill, SlotKeepsFill, ReleaseKeepsFill,
     UnheldKeepsFill DEF Next
<1> QED  BY <1>1, <1>2

(* What is published was written, for as long as nobody is done with it,   *)
(* in whatever order pieces and iterators are published: an iterator that  *)
(* counts all its slots has filled them all, and no two messages of the    *)
(* window share a cell where the capacity divides the span.                *)
THEOREM PublishedStaysFilled ==
    ASSUME SlotsBorrow = TRUE, Msb % Capacity = 0
    PROVE  Spec => []PublishedIsFilled
<1>1. Init => FilledInv
  <2> SUFFICES ASSUME Init PROVE FilledInv
    OBVIOUS
  <2>1. IterInv
    BY InitIters
  <2>2. PublishedIsFilled
    <3>1. free_gen = 0 /\ read_gen = 0 /\ 0 \in Gens
      BY GensAre DEF Init
    <3>2. Unread = {}
      BY <3>1, DistZero DEF Unread, GenRange
    <3> QED  BY <3>2 DEF PublishedIsFilled
  <2>3. \A h \in Handles : IterFilled(h)
    BY NothingCounts DEF Init, IterFilled, Is
  <2> QED  BY <2>1, <2>2, <2>3 DEF FilledInv
<1>2. FilledInv => PublishedIsFilled
  BY DEF FilledInv
<1> QED  BY <1>1, <1>2, StepKeepsFill, PTL DEF Spec

-----------------------------------------------------------------------------
(* A cell holds a message of the window that it is the cell of, or nothing.*)
CellsHold ==
    \A i \in 0 .. Capacity - 1 :
        buffer[i] # Empty => buffer[i] \in Unread \cup Pending /\ Cell(buffer[i]) = i

CellsInv == IterInv /\ CellsHold

LEMMA SameCells ==
    ASSUME CellsHold, buffer' = buffer,
           Unread \cup Pending \subseteq Unread' \cup Pending'
    PROVE  CellsHold'
  BY DEF CellsHold, Cell

LEMMA FillCells ==
    ASSUME CellsInv, NEW g \in Unread \cup Pending,
           buffer' = [buffer EXCEPT ![Cell(g)] = g],
           UNCHANGED <<write_gen, read_gen, free_gen>>
    PROVE  CellsHold'
<1>1. Unread' = Unread /\ Pending' = Pending
  BY DEF Unread, Pending
<1>2. buffer \in [0 .. Capacity - 1 -> Gens \cup {Empty}]
  BY DEF CellsInv, IterInv, TileInv, RingTypes
<1>3. ASSUME NEW i \in 0 .. Capacity - 1, buffer'[i] # Empty
      PROVE  buffer'[i] \in Unread \cup Pending /\ Cell(buffer'[i]) = i
  <2>1. buffer'[i] = IF i = Cell(g) THEN g ELSE buffer[i]
    BY <1>2
  <2> QED  BY <1>3, <2>1 DEF CellsInv, CellsHold
<1> QED  BY <1>1, <1>3 DEF CellsHold, Cell

LEMMA TakeCells ==
    ASSUME CellsInv, NEW h \in Handles, NEW n \in Nat, n <= Available, Take(h, n)
    PROVE  CellsHold'
<1> DEFINE w == GenAdd(write_gen, n)
<1>0. /\ RingTypes /\ Window /\ write_gen \in Gens /\ read_gen \in Gens
  BY DEF CellsInv, IterInv, TileInv, RingTypes
<1>1. /\ UnreadLen \in Nat /\ PendingLen \in Nat /\ Capacity \in Nat /\ Capacity < Msb
      /\ UnreadLen + PendingLen + n <= Capacity /\ n \in Gens
  BY <1>0, RoomIs, CapacityAssumption, GensAre
<1>2. w \in Gens /\ GenDist(w, write_gen) = n
  BY <1>0, <1>1, DistOfSum
<1>3. write_gen' = w /\ UNCHANGED <<read_gen, free_gen, buffer>>
  BY DEF Take
<1> HIDE DEF w
<1>4. GenDist(w, read_gen) = PendingLen + n
  <2>1. GenDist(w, read_gen) = IF GenDist(w, write_gen) + GenDist(write_gen, read_gen) < Msb
                               THEN GenDist(w, write_gen) + GenDist(write_gen, read_gen)
                               ELSE GenDist(w, write_gen) + GenDist(write_gen, read_gen) - Msb
    BY <1>0, <1>2, DistSum
  <2> QED  BY <1>1, <1>2, <2>1, GensAre DEF PendingLen
<1>5. Pending \subseteq Pending' /\ Unread' = Unread
  <2>1. Pending' = {g \in Gens : GenDist(g, read_gen) < GenDist(w, read_gen)}
    BY <1>0, <1>2, <1>3, RangeIs DEF Pending
  <2>2. \A g \in Gens : GenDist(g, read_gen) \in Nat
    BY <1>0, DistType
  <2>3. Pending \subseteq Pending'
    <3>1. Pending = {g \in Gens : GenDist(g, read_gen) < PendingLen}
      BY <1>0, WindowIs
    <3>2. \A g \in Gens : GenDist(g, read_gen) < PendingLen =>
                          GenDist(g, read_gen) < GenDist(w, read_gen)
      BY <1>1, <1>4, <2>2
    <3> QED  BY <2>1, <3>1, <3>2
  <2> QED  BY <1>3, <2>3 DEF Unread
<1> QED  BY <1>3, <1>5, SameCells DEF CellsInv

LEMMA PublishCells ==
    ASSUME CellsInv, NEW h \in Handles, PublishPiece(h) PROVE CellsHold'
<1>1. TileInv /\ UNCHANGED <<write_gen, free_gen, buffer>>
  BY DEF CellsInv, IterInv, PublishPiece
<1>2. Unread \cup Pending \subseteq Unread' \cup Pending'
  <2>1. CASE LenOf(h) = 0
    <3>1. UNCHANGED <<write_gen, read_gen, free_gen>>
      BY <1>1, <2>1, PublishIs
    <3> QED  BY <3>1 DEF Unread, Pending
  <2>2. CASE LenOf(h) # 0
    <3>1. Unread' = Unread \cup RangeOf(h) /\ Pending' = Pending \ RangeOf(h)
      BY <1>1, <2>2, PublishIs, PublishMoves
    <3> QED  BY <3>1
  <2> QED  BY <2>1, <2>2
<1> QED  BY <1>1, <1>2, SameCells DEF CellsInv

LEMMA ReleaseCells == CellsInv /\ Release => CellsHold'
<1> SUFFICES ASSUME CellsInv, Release PROVE CellsHold'
  OBVIOUS
<1>1. /\ RingTypes /\ Window /\ free_gen \in Unread /\ Unread' = Unread \ {free_gen}
      /\ buffer' = [buffer EXCEPT ![Cell(free_gen)] = Empty]
      /\ buffer \in [0 .. Capacity - 1 -> Gens \cup {Empty}]
      /\ Pending' = Pending
  BY ReleaseIs DEF Release, CellsInv, IterInv, TileInv, RingTypes, Pending
<1>2. ASSUME NEW i \in 0 .. Capacity - 1, buffer'[i] # Empty
      PROVE  buffer'[i] \in Unread' \cup Pending' /\ Cell(buffer'[i]) = i
  <2>1. i # Cell(free_gen) /\ buffer'[i] = buffer[i]
    BY <1>1, <1>2
  <2> QED  BY <1>1, <1>2, <2>1 DEF CellsInv, CellsHold
<1> QED  BY <1>2 DEF CellsHold, Cell

LEMMA ReservationCells ==
    ASSUME CellsInv, NEW h \in Handles, ReservationStep(h) PROVE CellsHold'
<1>1. ASSUME UNCHANGED <<write_gen, read_gen, free_gen, buffer>> PROVE CellsHold'
  BY <1>1, SameCells DEF CellsInv, Unread, Pending
<1>2. ASSUME NEW n \in 0 .. MaxBatch, Reserve(h, n) PROVE CellsHold'
  BY <1>2, BatchAssumption, TakeCells DEF Reserve
<1>3. ASSUME NEW n \in 0 .. MaxBatch, ReserveBestEffort(h, n) PROVE CellsHold'
  <2> DEFINE actual == IF n <= Available THEN n ELSE Available
  <2>1. actual \in Nat /\ actual <= Available
    BY BatchAssumption, AvailableType DEF CellsInv, IterInv, TileInv
  <2>2. CASE actual = 0
    BY <1>1, <1>3, <2>2 DEF ReserveBestEffort
  <2>3. CASE actual # 0
    <3>1. Take(h, actual)
      BY <1>3, <2>3 DEF ReserveBestEffort
    <3> HIDE DEF actual
    <3> QED  BY <2>1, <3>1, TakeCells
  <2> QED  BY <2>2, <2>3
<1>4. ASSUME NEW i \in 0 .. Capacity, GetMut(h, i) PROVE CellsHold'
  <2> DEFINE g == GenAdd(piece[h].start, i)
  <2>1. /\ i \in 0 .. LenOf(h) - 1 /\ buffer' = [buffer EXCEPT ![Cell(g)] = g]
        /\ UNCHANGED <<write_gen, read_gen, free_gen>>
    <3>1. i \in Nat /\ LenOf(h) \in Nat /\ i < LenOf(h)
      BY <1>4, PieceParts, CapacityAssumption DEF GetMut, CellsInv, IterInv, TileInv
    <3> QED  BY <1>4, <3>1 DEF GetMut
  <2>2. g \in Pending
    <3>1. g \in RangeOf(h)
      BY <2>1 DEF RangeOf, LenOf, GenRange
    <3> QED  BY <3>1 DEF CellsInv, IterInv, TileInv, PiecesTile
  <2> HIDE DEF g
  <2> QED  BY <2>1, <2>2, FillCells
<1>5. ASSUME NEW i \in 0 .. Capacity, NEW right \in Handles \ {h}, SplitAtMut(h, right, i)
      PROVE  CellsHold'
  BY <1>1, <1>5 DEF SplitAtMut
<1>6. ASSUME Publish(h) PROVE CellsHold'
  BY <1>6, PublishCells DEF Publish
<1>7. ASSUME DropReservation(h) PROVE CellsHold'
  BY <1>1, <1>7 DEF DropReservation
<1> QED  BY <1>2, <1>3, <1>4, <1>5, <1>6, <1>7 DEF ReservationStep

LEMMA IterCells ==
    ASSUME CellsInv, NEW h \in Handles, IterStep(h) PROVE CellsHold'
<1>1. ASSUME UNCHANGED <<write_gen, read_gen, free_gen, buffer>> PROVE CellsHold'
  BY <1>1, SameCells DEF CellsInv, Unread, Pending
<1>2. ASSUME PublishIter(h) PROVE CellsHold'
  BY <1>2, PublishCells DEF PublishIter
<1>3. ASSUME \/ IntoIter(h) \/ NextSlot(h) \/ DropIter(h)
             \/ \E o \in Handles \ {h} : SwapIters(h, o)
      PROVE  CellsHold'
  BY <1>1, <1>3 DEF IntoIter, NextSlot, DropIter, SwapIters
<1> QED  BY <1>2, <1>3 DEF IterStep

LEMMA UnheldCells ==
    ASSUME CellsInv, NEW g \in unheld,
           FillUnheld(g) \/ \E n \in 1 .. Capacity : PublishUnheld(g, n)
    PROVE  CellsHold'
<1>0. TileInv /\ RingTypes /\ Window /\ g \in Pending
  BY TileParts DEF CellsInv, IterInv
<1>1. CASE FillUnheld(g)
  BY <1>0, <1>1, FillCells DEF FillUnheld
<1>2. ASSUME NEW n \in 1 .. Capacity, PublishUnheld(g, n) PROVE CellsHold'
  <2> DEFINE e == GenAdd(g, n)
  <2>1. /\ e \in Gens /\ GenDist(e, read_gen) = n /\ n <= PendingLen
        /\ read_gen' = e /\ UNCHANGED <<write_gen, free_gen, buffer>>
    BY <1>0, <1>2, UnheldIs DEF PublishUnheld
  <2> HIDE DEF e
  <2>2. /\ Unread' = Unread \cup GenRange(read_gen, e)
        /\ Pending' = Pending \ GenRange(read_gen, e)
    BY <1>0, <2>1, ReadGenMoves
  <2> QED  BY <2>1, <2>2, SameCells DEF CellsInv
<1> QED  BY <1>1, <1>2

LEMMA StepKeepsCells ==
    ASSUME SlotsBorrow = TRUE PROVE CellsInv /\ [Next]_vars => CellsInv'
<1> SUFFICES ASSUME CellsInv, [Next]_vars PROVE CellsInv'
  OBVIOUS
<1>0. IterInv'
  BY StepKeepsIters DEF CellsInv
<1>1. ASSUME UNCHANGED <<write_gen, read_gen, free_gen, buffer>> PROVE CellsHold'
  BY <1>1, SameCells DEF CellsInv, Unread, Pending
<1>2. CASE UNCHANGED vars
  BY <1>0, <1>1, <1>2 DEF vars, CellsInv
<1>3. CASE Next
  <2>1. ASSUME NEW s \in slots, WriteSlot(s) PROVE CellsHold'
    <3>1. s.gen \in Pending
      BY SlotParts DEF CellsInv, IterInv, TileInv, PiecesTile
    <3> QED  BY <2>1, <3>1, FillCells DEF WriteSlot
  <2>2. ASSUME NEW s \in slots, DropSlot(s) PROVE CellsHold'
    BY <1>1, <2>2 DEF DropSlot
  <2>3. CellsHold'
    BY <1>3, <2>1, <2>2, ReservationCells, IterCells, UnheldCells, ReleaseCells DEF Next
  <2> QED  BY <1>0, <2>3 DEF CellsInv
<1> QED  BY <1>2, <1>3

(* A range whose reservation is gone is kept for whoever publishes it      *)
(* later: nothing is published over it, no handle gets any of it, and each *)
(* of its cells holds the message that was written for it or nothing.      *)
THEOREM DeferredAlwaysWaits ==
    ASSUME SlotsBorrow = TRUE, Msb % Capacity = 0
    PROVE  Spec => []DeferredWaits
<1>1. Init => CellsInv
  <2>1. Init => CellsHold
    BY DEF Init, CellsHold
  <2> QED  BY <2>1, InitIters DEF CellsInv
<1>2. CellsInv => DeferredWaits
  <2> SUFFICES ASSUME CellsInv PROVE DeferredWaits
    OBVIOUS
  <2>1. /\ TileInv /\ RingTypes /\ Window /\ unheld \subseteq Pending
        /\ \A h \in Handles : RangeOf(h) \cap unheld = {}
    BY TileParts DEF CellsInv, IterInv
  <2>2. ASSUME NEW g \in unheld PROVE buffer[Cell(g)] \in {g, Empty}
    <3>1. g \in Pending /\ Cell(g) \in 0 .. Capacity - 1
      BY <2>1, CellType, WindowIs
    <3>2. CASE buffer[Cell(g)] # Empty
      <4>1. /\ buffer[Cell(g)] \in Unread \cup Pending
            /\ Cell(buffer[Cell(g)]) = Cell(g)
        BY <3>1, <3>2 DEF CellsInv, CellsHold
      <4> QED  BY <2>1, <3>1, <4>1, WindowCells
    <3> QED  BY <3>2
  <2> QED  BY <2>1, <2>2 DEF DeferredWaits
<1> QED  BY <1>1, <1>2, StepKeepsCells, PTL DEF Spec
=============================================================================

-------------------------- MODULE AreaBufferProofs --------------------------
(***************************************************************************)
(* Proofs about what the cells of the buffer hold, for Area and for        *)
(* AreaFaults, where calls fail halfway: what is published stays filled,   *)
(* what is reserved is empty, what a cleanup drops is there.               *)
(*                                                                         *)
(* The ring is the window [free_gen, free_gen + BufferCapacity) of         *)
(* generations, no two of which share a cell.  The inductive invariant     *)
(* says of each part of the window what its cells hold, and that the       *)
(* ranges of two reservations, or of two cleanups, have no generation in   *)
(* common, so that a step of one leaves the cells of the others alone.     *)
(* Where no call fails, the ranges in flight leave no generation out, and  *)
(* somebody is always next; a reader's entry is retried only for a cleanup *)
(* that moved its word; where none resumes ahead, no reader is ahead       *)
(* of what is published, and the area is a Broadcast.                      *)
(***************************************************************************)
EXTENDS AreaFaults, AreaSafetyProofs, ModularArith

-----------------------------------------------------------------------------
(* The faults keep the invariants that do not speak of the buffer.         *)
LEMMA FaultKeepsType == TypeInv /\ FaultStep => TypeInv'
<1> USE DEF TypeInv, TypeOK
<1>1. ASSUME TypeInv, NEW c \in Cleaners, DropPanics(c) PROVE TypeInv'
  <2>1. CleanerTypes' /\ ScansASlot'
    BY <1>1, WordTypes, SlotsAssumption
       DEF DropPanics, CleanerDone, CleanerTypes, CleanerStates, ScansASlot
  <2>2. BufferType'
    BY <1>1 DEF DropPanics, BufferType
  <2>3. CounterTypes' /\ MapTypes' /\ WriterTypes' /\ ReaderTypes' /\ HasSlot' /\ InBounds'
    BY <1>1 DEF DropPanics, counters, wvars, rvars, CounterTypes, MapTypes, WriterTypes,
                ReaderTypes, HasSlot, InBounds
  <2> QED  BY <2>1, <2>2, <2>3
<1>2. ASSUME TypeInv, NEW w \in Writers, Abandon(w) PROVE TypeInv'
  <2>1. WriterTypes' /\ InBounds'
    BY <1>2 DEF Abandon, WriterDone, counters, WriterTypes, WriterStates, InBounds
  <2>2. CounterTypes' /\ MapTypes' /\ BufferType' /\ ReaderTypes' /\ CleanerTypes'
        /\ HasSlot' /\ ScansASlot'
    BY <1>2 DEF Abandon, counters, rvars, cvars, CounterTypes, MapTypes, BufferType,
                ReaderTypes, CleanerTypes, HasSlot, ScansASlot
  <2> QED  BY <2>1, <2>2
<1> QED  BY <1>1, <1>2 DEF FaultStep

LEMMA FaultKeepsCounting == CountersInv /\ FaultStep => CountersInv'
<1> SUFFICES ASSUME CountersInv, FaultStep PROVE CountersInv'
  OBVIOUS
<1>0. TypeInv' /\ TypeInv /\ Counting
  BY FaultKeepsType DEF CountersInv
<1>1. ASSUME NEW c \in Cleaners, DropPanics(c) PROVE Counting'
  <2>1. UNCHANGED <<counters, wvars>> /\ cpc'[c] = "idle"
        /\ \A d \in Cleaners \ {c} : cpc'[d] = cpc[d] /\ cmin'[d] = cmin[d]
                                     /\ clast'[d] = clast[d]
    BY <1>0, <1>1 DEF DropPanics, CleanerDone, TypeInv, TypeOK, CleanerTypes
  <2>2. CleanerFits(c)'
    BY <2>1 DEF CleanerFits
  <2> QED  BY <1>0, <2>1, <2>2, SameCounters, CleanerAlone
<1>2. ASSUME NEW w \in Writers, Abandon(w) PROVE Counting'
  <2>1. UNCHANGED <<counters, cvars>> /\ WriterDone(w)
        /\ \A v \in Writers \ {w} : wpc'[v] = wpc[v] /\ wfree'[v] = wfree[v]
                                    /\ wstart'[v] = wstart[v] /\ wend'[v] = wend[v]
    BY <1>0, <1>2 DEF Abandon, WriterDone, TypeInv, TypeOK, WriterTypes
  <2> QED  BY <1>0, <2>1, DoneFits, SameCounters, WriterAlone
<1> QED  BY <1>0, <1>1, <1>2 DEF FaultStep, CountersInv

LEMMA FaultKeepsClaims == ClaimsInv /\ FaultStep => ClaimsInv'
<1> SUFFICES ASSUME ClaimsInv, FaultStep PROVE ClaimsInv'
  OBVIOUS
<1>0. TypeInv' /\ TypeInv /\ Claims
  BY FaultKeepsType DEF ClaimsInv
<1>1. ASSUME NEW c \in Cleaners, DropPanics(c) PROVE Claims'
  <2>1. UNCHANGED <<slot, key, rvars, last_valid_gen>> /\ cpc'[c] = "idle"
        /\ OtherCleanersStay(c)
    BY <1>0, <1>1 DEF DropPanics, CleanerDone, counters, OtherCleanersStay,
                      TypeInv, TypeOK, CleanerTypes
  <2>2. ScanFits(c)' /\ ClaimsHold'
    BY <1>0, <2>1 DEF ScanFits, Claims, ClaimsHold
  <2> QED  BY <1>0, <2>1, <2>2, QuietCleaner
<1>2. ASSUME NEW w \in Writers, Abandon(w) PROVE Claims'
  BY <1>0, <1>2, StillClaims DEF Abandon, counters
<1> QED  BY <1>0, <1>1, <1>2 DEF FaultStep, ClaimsInv

(* The three invariants hold of the area whose calls may fail.             *)
LEMMA FaultInvHolds == FaultSpec => [](CountersInv /\ ClaimsInv)
<1>1. Init => CountersInv /\ ClaimsInv
  BY InitType, InitCounting, InitClaims DEF CountersInv, ClaimsInv
<1>2. CountersInv /\ ClaimsInv /\ [Next \/ FaultStep]_vars => CountersInv' /\ ClaimsInv'
  <2>1. [Next \/ FaultStep]_vars <=> [Next]_vars \/ FaultStep
    OBVIOUS
  <2> QED
    BY <2>1, StepKeepsCounting, StepKeepsClaims, FaultKeepsCounting, FaultKeepsClaims
<1> QED  BY <1>1, <1>2, PTL DEF FaultSpec

-----------------------------------------------------------------------------
(* The ring.  Two generations less than the capacity apart have different  *)
(* cells, and the next lap has the same.                                   *)
LEMMA CellsApart ==
    ASSUME NEW g \in Nat, NEW h \in Nat, g < h, h < g + BufferCapacity
    PROVE  Cell(g) # Cell(h)
<1> SUFFICES ASSUME Cell(g) = Cell(h) PROVE FALSE
  OBVIOUS
<1> DEFINE n == BufferCapacity
           p == g \div n
           q == h \div n
           d == q - p
<1>0. n \in Nat /\ n > 0
  BY CapacityAssumption
<1>1. /\ g = (n * p) + Cell(g) /\ p \in Int
      /\ h = (n * q) + Cell(h) /\ q \in Int
      /\ Cell(g) \in 0 .. n - 1 /\ Cell(h) \in 0 .. n - 1
  BY <1>0, ModDef DEF Cell
<1> HIDE DEF n, p, q
<1>2. n * d = h - g /\ d \in Int
  BY <1>0, <1>1
<1>3. n * (0 - d) = 0 - (n * d)
  BY <1>0, <1>2
<1>4. ~(d > 0)
  BY <1>0, <1>2, MultGe DEF n
<1>5. ~(0 - d > 0)
  BY <1>0, <1>2, <1>3, MultGe
<1>6. d = 0
  BY <1>2, <1>4, <1>5
<1>7. n * d = 0
  BY <1>0, <1>6
<1> QED  BY <1>2, <1>7

LEMMA CellAgain ==
    ASSUME NEW g \in Nat PROVE Cell(g + BufferCapacity) = Cell(g)
<1> DEFINE n == BufferCapacity
<1>0. n \in Nat /\ n > 0 /\ n \in Int /\ g \in Int
  BY CapacityAssumption
<1>1. n % n = 0
  BY <1>0, ModOnce
<1> HIDE DEF n
<1>2. (g + n) % n = g % n
  BY <1>0, <1>1, ModShift
<1> QED  BY <1>2 DEF Cell, n

LEMMA CellIndex == \A g \in Nat : Cell(g) \in 0 .. BufferCapacity - 1
  BY CapacityAssumption, ModDef DEF Cell

(* The generations that have a cell of their own.                          *)
Window == free_gen .. free_gen + BufferCapacity - 1

(* Writing the cell of one of them leaves those of the others alone.       *)
LEMMA OneCell ==
    ASSUME TypeInv, NEW g \in Window, NEW x, buffer' = [buffer EXCEPT ![Cell(g)] = x]
    PROVE  /\ buffer'[Cell(g)] = x
           /\ \A h \in Window : h # g => buffer'[Cell(h)] = buffer[Cell(h)]
<1>0. free_gen \in Nat /\ g \in Nat /\ BufferCapacity \in Nat
  BY CapacityAssumption DEF TypeInv, TypeOK, CounterTypes, Window
<1>1. buffer \in [0 .. BufferCapacity - 1 -> Nat \cup {Uninit}]
  BY DEF TypeInv, TypeOK, BufferType
<1>2. buffer'[Cell(g)] = x
  BY <1>0, <1>1, CellIndex
<1>3. ASSUME NEW h \in Window, h # g PROVE buffer'[Cell(h)] = buffer[Cell(h)]
  <2>1. h \in Nat
    BY <1>0 DEF Window
  <2>2. Cell(h) # Cell(g)
    <3>1. CASE g < h
      BY <1>0, <2>1, <3>1, CellsApart DEF Window
    <3>2. CASE h < g
      BY <1>0, <2>1, <3>2, CellsApart DEF Window
    <3> QED  BY <1>0, <1>3, <2>1, <3>1, <3>2
  <2> QED  BY <1>0, <1>1, <2>1, <2>2, CellIndex
<1> QED  BY <1>2, <1>3

-----------------------------------------------------------------------------
(* What the cells of the window hold.  From the oldest generation on:      *)
(* ranges that cleanups are dropping, or left half dropped; what is        *)
(* published (PublishedIsFilled); ranges that reservations are filling, or *)
(* left unpublished; and what nobody has reserved.                         *)
Holds(g) == buffer[Cell(g)] = g
Clear(g) == buffer[Cell(g)] = Uninit

Reserved(w) == wpc[w] \in {"fill", "publish"}
Cleaning(c) == cpc[c] \in {"drop", "free"}

Unreserved == \A g \in write_gen .. free_gen + BufferCapacity - 1 : Clear(g)

WriterCells(w) ==
    Reserved(w) =>
        /\ read_gen <= wstart[w] /\ wstart[w] <= wnext[w]
        /\ wpc[w] = "fill" => wnext[w] < wend[w]
        /\ wpc[w] = "publish" => wnext[w] = wend[w]
        /\ \A g \in wstart[w] .. wnext[w] - 1 : Holds(g)
        /\ \A g \in wnext[w] .. wend[w] - 1 : Clear(g)

CleanerCells(c) ==
    Cleaning(c) =>
        /\ free_gen <= clast[c]
        /\ cpc[c] = "drop" => /\ clast[c] <= cdrop[c] /\ cdrop[c] < cmin[c]
                              /\ \A g \in clast[c] .. cdrop[c] - 1 : Clear(g)
                              /\ \A g \in cdrop[c] .. cmin[c] - 1 : Holds(g)
        /\ cpc[c] = "free" => \A g \in clast[c] .. cmin[c] - 1 : Clear(g)

(* Two reservations have no generation in common, nor have two cleanups.   *)
WritersApart ==
    \A v, w \in Writers : v # w /\ Reserved(v) /\ Reserved(w) =>
        wend[v] <= wstart[w] \/ wend[w] <= wstart[v]

CleanersApart ==
    \A c, d \in Cleaners : c # d /\ Cleaning(c) /\ Cleaning(d) =>
        cmin[c] <= clast[d] \/ cmin[d] <= clast[c]

AllWriterCells  == WritersApart /\ \A w \in Writers : WriterCells(w)
AllCleanerCells == CleanersApart /\ \A c \in Cleaners : CleanerCells(c)

Cells == PublishedIsFilled /\ Unreserved /\ AllWriterCells /\ AllCleanerCells

CellsInv == CountersInv /\ Cells

LEMMA InitCells == Init => Cells
<1> SUFFICES ASSUME Init PROVE Cells
  OBVIOUS
<1>1. PublishedIsFilled
  BY DEF Init, PublishedIsFilled
<1>2. Unreserved
  <2>1. \A g \in 0 .. BufferCapacity - 1 : Cell(g) = g
    BY CapacityAssumption, ModSmall DEF Cell
  <2> QED  BY <2>1, CapacityAssumption DEF Init, Unreserved, Clear
<1>3. AllWriterCells /\ AllCleanerCells
  BY DEF Init, AllWriterCells, AllCleanerCells, WritersApart, WriterCells, Reserved,
         CleanersApart, CleanerCells, Cleaning
<1> QED  BY <1>1, <1>2, <1>3 DEF Cells

-----------------------------------------------------------------------------
(* What a step leaves alone.                                               *)
SameCells(lo, hi) == \A g \in lo .. hi - 1 : buffer'[Cell(g)] = buffer[Cell(g)]

(* What the invariants say of the numbers in the way of a proof.           *)
LEMMA Bounds ==
    ASSUME CellsInv
    PROVE  /\ write_gen \in Nat /\ read_gen \in Nat /\ last_valid_gen \in Nat
           /\ free_gen \in Nat /\ BufferCapacity \in Nat \ {0} /\ Ordered
           /\ wpc \in [Writers -> WriterStates] /\ wfree \in [Writers -> Nat]
           /\ wstart \in [Writers -> Nat] /\ wend \in [Writers -> Nat]
           /\ wnext \in [Writers -> Nat]
           /\ cpc \in [Cleaners -> CleanerStates] /\ clast \in [Cleaners -> Nat]
           /\ cmin \in [Cleaners -> Nat] /\ cdrop \in [Cleaners -> Nat]
  BY CapacityAssumption DEF CellsInv, CountersInv, TypeInv, TypeOK, CounterTypes,
     WriterTypes, CleanerTypes, Counting

LEMMA ReservedBounds ==
    ASSUME CellsInv, NEW w \in Writers, Reserved(w)
    PROVE  /\ read_gen <= wstart[w] /\ wstart[w] < wend[w] /\ wend[w] <= write_gen
           /\ wstart[w] <= wnext[w] /\ wnext[w] <= wend[w]
<1>1. WriterFits(w) /\ WriterCells(w)
  BY DEF CellsInv, CountersInv, Counting, Cells, AllWriterCells
<1> QED  BY <1>1, Bounds DEF WriterFits, WriterCells, Reserved

LEMMA CleaningBounds ==
    ASSUME CellsInv, NEW c \in Cleaners, Cleaning(c)
    PROVE  /\ free_gen <= clast[c] /\ clast[c] < cmin[c] /\ cmin[c] <= last_valid_gen
           /\ cpc[c] = "drop" => clast[c] <= cdrop[c] /\ cdrop[c] < cmin[c]
<1>1. CleanerFits(c) /\ CleanerCells(c)
  BY DEF CellsInv, CountersInv, Counting, Cells, AllCleanerCells
<1> QED  BY <1>1 DEF CleanerFits, CleanerCells, Cleaning

LEMMA PublishedStays ==
    ASSUME CellsInv, UNCHANGED <<last_valid_gen, read_gen>>,
           SameCells(last_valid_gen, read_gen)
    PROVE  PublishedIsFilled'
  BY DEF CellsInv, Cells, PublishedIsFilled, SameCells

LEMMA UnreservedStays ==
    ASSUME CellsInv, UNCHANGED <<write_gen, free_gen>>,
           SameCells(write_gen, free_gen + BufferCapacity)
    PROVE  Unreserved'
  BY Bounds DEF CellsInv, Cells, Unreserved, Clear, SameCells

(* A reservation whose cells nobody touches is as it was.                  *)
LEMMA WriterStays ==
    ASSUME CellsInv, NEW w \in Writers,
           UNCHANGED <<wpc[w], wstart[w], wend[w], wnext[w]>>,
           Reserved(w) => read_gen' <= wstart[w] /\ SameCells(wstart[w], wend[w])
    PROVE  WriterCells(w)'
<1> SUFFICES ASSUME Reserved(w) PROVE WriterCells(w)'
  BY DEF WriterCells, Reserved
<1>1. WriterCells(w) /\ wstart[w] <= wnext[w] /\ wnext[w] <= wend[w]
  BY ReservedBounds DEF CellsInv, Cells, AllWriterCells
<1>2. \A g \in wstart[w] .. wnext[w] - 1 : g \in wstart[w] .. wend[w] - 1
  BY <1>1, Bounds
<1>3. \A g \in wnext[w] .. wend[w] - 1 : g \in wstart[w] .. wend[w] - 1
  BY <1>1, Bounds
<1> QED  BY <1>1, <1>2, <1>3 DEF WriterCells, Reserved, Holds, Clear, SameCells

LEMMA CleanerStays ==
    ASSUME CellsInv, NEW c \in Cleaners,
           UNCHANGED <<cpc[c], clast[c], cmin[c], cdrop[c]>>,
           Cleaning(c) => free_gen' <= clast[c] /\ SameCells(clast[c], cmin[c])
    PROVE  CleanerCells(c)'
<1> SUFFICES ASSUME Cleaning(c) PROVE CleanerCells(c)'
  BY DEF CleanerCells, Cleaning
<1>1. CleanerCells(c)
  BY DEF CellsInv, Cells, AllCleanerCells
<1>2. cpc[c] = "drop" =>
        /\ \A g \in clast[c] .. cdrop[c] - 1 : g \in clast[c] .. cmin[c] - 1
        /\ \A g \in cdrop[c] .. cmin[c] - 1 : g \in clast[c] .. cmin[c] - 1
  BY CleaningBounds, Bounds
<1> QED  BY <1>1, <1>2 DEF CleanerCells, Cleaning, Holds, Clear, SameCells

LEMMA WritersStay ==
    ASSUME CellsInv, UNCHANGED <<wvars, read_gen>>, SameCells(read_gen, write_gen)
    PROVE  AllWriterCells'
<1>1. ASSUME NEW w \in Writers PROVE WriterCells(w)'
  <2>1. ASSUME Reserved(w) PROVE read_gen' <= wstart[w] /\ SameCells(wstart[w], wend[w])
    BY <2>1, ReservedBounds, Bounds DEF SameCells
  <2> QED  BY <2>1, WriterStays DEF wvars
<1>2. WritersApart'
  BY DEF CellsInv, Cells, AllWriterCells, WritersApart, Reserved, wvars
<1> QED  BY <1>1, <1>2 DEF AllWriterCells

LEMMA CleanersStay ==
    ASSUME CellsInv, UNCHANGED <<cvars, free_gen>>, SameCells(free_gen, last_valid_gen)
    PROVE  AllCleanerCells'
<1>1. ASSUME NEW c \in Cleaners PROVE CleanerCells(c)'
  <2>1. ASSUME Cleaning(c) PROVE free_gen' <= clast[c] /\ SameCells(clast[c], cmin[c])
    BY <2>1, CleaningBounds, Bounds DEF SameCells
  <2> QED  BY <2>1, CleanerStays DEF cvars
<1>2. CleanersApart'
  BY DEF CellsInv, Cells, AllCleanerCells, CleanersApart, Cleaning, cvars
<1> QED  BY <1>1, <1>2 DEF AllCleanerCells

(* A step of one reservation, or of one cleanup, apart from the others.    *)
LEMMA OneWriter ==
    ASSUME CellsInv, NEW w \in Writers,
           \A v \in Writers \ {w} :
               /\ UNCHANGED <<wpc[v], wstart[v], wend[v], wnext[v]>>
               /\ Reserved(v) => read_gen' <= wstart[v] /\ SameCells(wstart[v], wend[v])
               /\ Reserved(v) /\ Reserved(w)' =>
                      wend[v] <= wstart'[w] \/ wend'[w] <= wstart[v],
           WriterCells(w)'
    PROVE  AllWriterCells'
<1>1. \A v \in Writers : WriterCells(v)'
  BY WriterStays
<1>2. ASSUME NEW u \in Writers, NEW v \in Writers, u # v, Reserved(u)', Reserved(v)'
      PROVE  wend'[u] <= wstart'[v] \/ wend'[v] <= wstart'[u]
  <2>1. CASE u # w /\ v # w
    BY <1>2, <2>1 DEF CellsInv, Cells, AllWriterCells, WritersApart, Reserved
  <2>2. CASE u = w \/ v = w
    BY <1>2, <2>2 DEF Reserved
  <2> QED  BY <2>1, <2>2
<1> QED  BY <1>1, <1>2 DEF AllWriterCells, WritersApart

LEMMA OneCleaner ==
    ASSUME CellsInv, NEW c \in Cleaners,
           \A d \in Cleaners \ {c} :
               /\ UNCHANGED <<cpc[d], clast[d], cmin[d], cdrop[d]>>
               /\ Cleaning(d) => free_gen' <= clast[d] /\ SameCells(clast[d], cmin[d])
               /\ Cleaning(d) /\ Cleaning(c)' =>
                      cmin[d] <= clast'[c] \/ cmin'[c] <= clast[d],
           CleanerCells(c)'
    PROVE  AllCleanerCells'
<1>1. \A d \in Cleaners : CleanerCells(d)'
  BY CleanerStays
<1>2. ASSUME NEW b \in Cleaners, NEW d \in Cleaners, b # d, Cleaning(b)', Cleaning(d)'
      PROVE  cmin'[b] <= clast'[d] \/ cmin'[d] <= clast'[b]
  <2>1. CASE b # c /\ d # c
    BY <1>2, <2>1 DEF CellsInv, Cells, AllCleanerCells, CleanersApart, Cleaning
  <2>2. CASE b = c \/ d = c
    BY <1>2, <2>2 DEF Cleaning
  <2> QED  BY <2>1, <2>2
<1> QED  BY <1>1, <1>2 DEF AllCleanerCells, CleanersApart

-----------------------------------------------------------------------------
(* A step that changes no counter and no cell.                             *)
LEMMA SameBuffer ==
    ASSUME UNCHANGED buffer, NEW lo, NEW hi PROVE SameCells(lo, hi)
  BY DEF SameCells

LEMMA QuietWriter ==
    ASSUME CellsInv, NEW w \in Writers, UNCHANGED <<counters, buffer, cvars>>,
           \A v \in Writers \ {w} : UNCHANGED <<wpc[v], wstart[v], wend[v], wnext[v]>>,
           ~Reserved(w)'
    PROVE  Cells'
<1>1. PublishedIsFilled' /\ Unreserved' /\ AllCleanerCells'
  BY SameBuffer, PublishedStays, UnreservedStays, CleanersStay DEF counters
<1>2. WriterCells(w)'
  BY DEF WriterCells
<1>3. AllWriterCells'
  BY <1>2, SameBuffer, ReservedBounds, OneWriter DEF counters
<1> QED  BY <1>1, <1>3 DEF Cells

LEMMA QuietCleanup ==
    ASSUME CellsInv, NEW c \in Cleaners, UNCHANGED <<counters, buffer, wvars>>,
           \A d \in Cleaners \ {c} : UNCHANGED <<cpc[d], clast[d], cmin[d], cdrop[d]>>,
           ~Cleaning(c)'
    PROVE  Cells'
<1>1. PublishedIsFilled' /\ Unreserved' /\ AllWriterCells'
  BY SameBuffer, PublishedStays, UnreservedStays, WritersStay DEF counters
<1>2. CleanerCells(c)'
  BY DEF CleanerCells
<1>3. AllCleanerCells'
  BY <1>2, SameBuffer, CleaningBounds, OneCleaner DEF counters
<1> QED  BY <1>1, <1>3 DEF Cells

(* The CAS of write_gen takes cells that nobody has, and that are empty.   *)
LEMMA GrabKeepsCells ==
    ASSUME CellsInv, NEW w \in Writers, Grab(w), WriteGenCas(w) PROVE Cells'
<1>1. /\ write_gen = wstart[w] /\ write_gen' = wend[w] /\ wpc[w] = "grab"
      /\ wpc'[w] = "fill" /\ wstart' = wstart /\ wend' = wend /\ wnext'[w] = wstart[w]
      /\ \A v \in Writers \ {w} : UNCHANGED <<wpc[v], wstart[v], wend[v], wnext[v]>>
      /\ UNCHANGED <<read_gen, last_valid_gen, free_gen, buffer, cvars>>
  BY Bounds DEF Grab, WriteGenCas
<1>2. wstart[w] < wend[w] /\ wend[w] <= free_gen + BufferCapacity
  BY <1>1, Bounds DEF CellsInv, CountersInv, Counting, WriterFits
<1>3. \A g \in wstart[w] .. free_gen + BufferCapacity - 1 : Clear(g)
  BY <1>1 DEF CellsInv, Cells, Unreserved
<1>4. PublishedIsFilled' /\ AllCleanerCells'
  BY <1>1, SameBuffer, PublishedStays, CleanersStay
<1>5. Unreserved'
  BY <1>1, <1>2, <1>3, Bounds DEF Unreserved, Clear
<1>6. WriterCells(w)'
  <2>1. \A g \in wstart[w] .. wend[w] - 1 : Clear(g)
    BY <1>2, <1>3, Bounds
  <2> QED  BY <1>1, <1>2, <2>1, Bounds DEF WriterCells, Clear, Ordered
<1>7. AllWriterCells'
  BY <1>1, <1>6, SameBuffer, ReservedBounds, OneWriter
<1> QED  BY <1>4, <1>5, <1>7 DEF Cells

(* Filling a cell of one's own.                                            *)
LEMMA FillKeepsCells ==
    ASSUME CellsInv, NEW w \in Writers, Fill(w) PROVE Cells'
<1> DEFINE n == wnext[w]
<1>1. /\ buffer' = [buffer EXCEPT ![Cell(n)] = n] /\ wpc[w] = "fill"
      /\ wpc'[w] = (IF n + 1 = wend[w] THEN "publish" ELSE "fill")
      /\ wnext'[w] = n + 1 /\ UNCHANGED <<wstart, wend, counters, cvars>>
      /\ \A v \in Writers \ {w} : UNCHANGED <<wpc[v], wstart[v], wend[v], wnext[v]>>
  BY Bounds DEF Fill
<1>2. /\ read_gen <= wstart[w] /\ wstart[w] <= n /\ n < wend[w] /\ wend[w] <= write_gen
      /\ n \in Nat
  <2>1. WriterCells(w)
    BY DEF CellsInv, Cells, AllWriterCells
  <2> QED  BY <1>1, <2>1, ReservedBounds, Bounds DEF Reserved, WriterCells
<1>3. n \in Window
  BY <1>2, Bounds DEF Window, Ordered
<1> HIDE DEF n
<1>4. buffer'[Cell(n)] = n /\ \A h \in Window : h # n => buffer'[Cell(h)] = buffer[Cell(h)]
  BY <1>1, <1>3, OneCell DEF CellsInv, CountersInv
<1>5. ASSUME NEW lo \in Nat, NEW hi \in Nat, free_gen <= lo, hi <= free_gen + BufferCapacity,
             hi <= n \/ n < lo
      PROVE  SameCells(lo, hi)
  BY <1>2, <1>4, <1>5, Bounds DEF SameCells, Window
<1>6. PublishedIsFilled' /\ Unreserved' /\ AllCleanerCells'
  <2>1. SameCells(last_valid_gen, read_gen) /\ SameCells(free_gen, last_valid_gen)
        /\ SameCells(write_gen, free_gen + BufferCapacity)
    BY <1>2, <1>5, Bounds DEF Ordered
  <2> QED  BY <1>1, <2>1, PublishedStays, UnreservedStays, CleanersStay DEF counters
<1>7. WriterCells(w)'
  <2>1. WriterCells(w)
    BY DEF CellsInv, Cells, AllWriterCells
  <2>2. SameCells(wstart[w], n) /\ SameCells(n + 1, wend[w])
    BY <1>2, <1>5, Bounds DEF Ordered
  <2>3. \A g \in wstart[w] .. n : buffer'[Cell(g)] = g
    BY <1>1, <1>2, <1>4, <2>1, <2>2, Bounds DEF WriterCells, Reserved, Holds, SameCells, n
  <2>4. \A g \in n + 1 .. wend[w] - 1 : buffer'[Cell(g)] = Uninit
    BY <1>1, <1>2, <2>1, <2>2, Bounds DEF WriterCells, Reserved, Clear, SameCells, n
  <2> QED  BY <1>1, <1>2, <2>3, <2>4, Bounds DEF WriterCells, Holds, Clear, counters
<1>8. AllWriterCells'
  <2>1. ASSUME NEW v \in Writers \ {w}, Reserved(v)
        PROVE  /\ read_gen' <= wstart[v] /\ SameCells(wstart[v], wend[v])
               /\ wend[v] <= wstart'[w] \/ wend'[w] <= wstart[v]
    <3>1. wend[v] <= wstart[w] \/ wend[w] <= wstart[v]
      BY <1>1, <2>1 DEF CellsInv, Cells, AllWriterCells, WritersApart, Reserved
    <3>2. read_gen <= wstart[v] /\ wend[v] <= write_gen
      BY <2>1, ReservedBounds
    <3>3. SameCells(wstart[v], wend[v])
      BY <1>2, <1>5, <3>1, <3>2, Bounds DEF Ordered
    <3> QED  BY <1>1, <3>1, <3>2, <3>3 DEF counters
  <2> QED  BY <1>1, <1>7, <2>1, OneWriter
<1> QED  BY <1>6, <1>8 DEF Cells

(* The CAS of read_gen succeeds for the oldest reservation only, and all   *)
(* of its cells are filled.                                                *)
LEMMA PublishKeepsCells ==
    ASSUME CellsInv, NEW w \in Writers, Publish(w) PROVE Cells'
<1>1. /\ wpc[w] = "publish" /\ read_gen = wstart[w] /\ read_gen' = wend[w]
      /\ wpc'[w] = "idle" /\ UNCHANGED <<write_gen, last_valid_gen, free_gen, buffer, cvars>>
      /\ \A v \in Writers \ {w} : UNCHANGED <<wpc[v], wstart[v], wend[v], wnext[v]>>
  BY Bounds DEF Publish, ReadGenCas, WriterDone
<1>2. \A g \in read_gen .. wend[w] - 1 : Holds(g)
  BY <1>1 DEF CellsInv, Cells, AllWriterCells, WriterCells, Reserved
<1>3. PublishedIsFilled'
  BY <1>1, <1>2, Bounds DEF CellsInv, Cells, PublishedIsFilled, Holds
<1>4. Unreserved' /\ AllCleanerCells'
  BY <1>1, SameBuffer, UnreservedStays, CleanersStay
<1>5. AllWriterCells'
  <2>1. ASSUME NEW v \in Writers \ {w}, Reserved(v) PROVE wend[w] <= wstart[v]
    <3>1. wend[v] <= wstart[w] \/ wend[w] <= wstart[v]
      BY <1>1, <2>1 DEF CellsInv, Cells, AllWriterCells, WritersApart, Reserved
    <3>2. read_gen <= wstart[v] /\ wstart[v] < wend[v]
      BY <2>1, ReservedBounds
    <3> QED  BY <1>1, <3>1, <3>2, Bounds
  <2>2. ~Reserved(w)' /\ WriterCells(w)'
    BY <1>1 DEF Reserved, WriterCells
  <2> QED  BY <1>1, <2>1, <2>2, SameBuffer, OneWriter
<1> QED  BY <1>3, <1>4, <1>5 DEF Cells

LEMMA WriterKeepsCells ==
    ASSUME CellsInv, NEW w \in Writers,
           ReserveLoadFree(w) \/ WriterStep(w) \/ Abandon(w)
    PROVE  Cells'
<1> DEFINE OthersStay == \A v \in Writers \ {w} :
                             UNCHANGED <<wpc[v], wstart[v], wend[v], wnext[v]>>
           Quiet == UNCHANGED <<counters, buffer, cvars>> /\ OthersStay /\ ~Reserved(w)'
<1>1. ASSUME ReserveLoadFree(w) PROVE Quiet
  BY <1>1, Bounds DEF ReserveLoadFree, Reserved
<1>2. ASSUME NEW n \in 1 .. MaxBatch, ReserveExactly(w, n) \/ ReserveBestEffort(w, n)
      PROVE  Quiet
  BY <1>2, Bounds DEF ReserveExactly, ReserveBestEffort, WriterDone, Aim, Reserved
<1>3. ASSUME Grab(w), ~WriteGenCas(w) PROVE Quiet
  BY <1>3, Bounds DEF Grab, WriterDone, Reserved, counters
<1>4. ASSUME Abandon(w) PROVE Quiet
  BY <1>4, Bounds DEF Abandon, WriterDone, Reserved
<1>5. Quiet => Cells'
  BY QuietWriter
<1> QED
  BY <1>1, <1>2, <1>3, <1>4, <1>5, GrabKeepsCells, FillKeepsCells, PublishKeepsCells
     DEF WriterStep

-----------------------------------------------------------------------------
(* The CAS of last_valid_gen takes messages that nobody has claimed, and   *)
(* that are all there.                                                     *)
LEMMA ClaimKeepsCells ==
    ASSUME CellsInv, NEW c \in Cleaners, CleanupClaim(c), LastValidCas(c) PROVE Cells'
<1>1. /\ cpc[c] = "claim" /\ clast[c] < cmin[c] /\ last_valid_gen = clast[c]
      /\ last_valid_gen' = cmin[c] /\ cdrop'[c] = clast[c] /\ cpc'[c] = "drop"
      /\ clast' = clast /\ cmin' = cmin
      /\ \A d \in Cleaners \ {c} : UNCHANGED <<cpc[d], clast[d], cmin[d], cdrop[d]>>
      /\ UNCHANGED <<write_gen, read_gen, free_gen, buffer, wvars>>
  BY Bounds DEF CleanupClaim, LastValidCas
<1>2. cmin[c] <= read_gen
  BY <1>1 DEF CellsInv, CountersInv, Counting, CleanerFits
<1>3. \A g \in clast[c] .. read_gen - 1 : Holds(g)
  BY <1>1 DEF CellsInv, Cells, PublishedIsFilled, Holds
<1>4. PublishedIsFilled'
  BY <1>1, <1>3, Bounds DEF PublishedIsFilled, Holds
<1>5. Unreserved' /\ AllWriterCells'
  BY <1>1, SameBuffer, UnreservedStays, WritersStay
<1>6. CleanerCells(c)'
  <2>1. \A g \in clast[c] .. cmin[c] - 1 : Holds(g)
    BY <1>2, <1>3, Bounds
  <2> QED  BY <1>1, <2>1, Bounds DEF CleanerCells, Holds, Ordered
<1>7. AllCleanerCells'
  BY <1>1, <1>6, SameBuffer, CleaningBounds, OneCleaner
<1> QED  BY <1>4, <1>5, <1>7 DEF Cells

(* Emptying a cell of one's own range; c is done with it, goes on to the   *)
(* next one, or unwinds.                                                   *)
LEMMA DropKeepsCells ==
    ASSUME CellsInv, NEW c \in Cleaners, DropMessage(c) \/ DropPanics(c) PROVE Cells'
<1> DEFINE n == cdrop[c]
<1>1. /\ buffer' = [buffer EXCEPT ![Cell(n)] = Uninit] /\ cpc[c] = "drop"
      /\ UNCHANGED <<counters, wvars>>
      /\ \A d \in Cleaners \ {c} : UNCHANGED <<cpc[d], clast[d], cmin[d], cdrop[d]>>
  BY Bounds DEF DropMessage, DropPanics, CleanerDone
<1>2. /\ free_gen <= clast[c] /\ clast[c] <= n /\ n < cmin[c] /\ cmin[c] <= last_valid_gen
      /\ n \in Nat
  BY <1>1, CleaningBounds, Bounds DEF Cleaning
<1>3. n \in Window
  BY <1>2, Bounds DEF Window, Ordered
<1> HIDE DEF n
<1>4. /\ buffer'[Cell(n)] = Uninit
      /\ \A h \in Window : h # n => buffer'[Cell(h)] = buffer[Cell(h)]
  BY <1>1, <1>3, OneCell DEF CellsInv, CountersInv
<1>5. ASSUME NEW lo \in Nat, NEW hi \in Nat, free_gen <= lo, hi <= free_gen + BufferCapacity,
             hi <= n \/ n < lo
      PROVE  SameCells(lo, hi)
  BY <1>2, <1>4, <1>5, Bounds DEF SameCells, Window
<1>6. PublishedIsFilled' /\ Unreserved' /\ AllWriterCells'
  <2>1. SameCells(last_valid_gen, read_gen) /\ SameCells(read_gen, write_gen)
        /\ SameCells(write_gen, free_gen + BufferCapacity)
    BY <1>2, <1>5, Bounds DEF Ordered
  <2> QED  BY <1>1, <2>1, PublishedStays, UnreservedStays, WritersStay DEF counters
<1>7. CleanerCells(c)'
  <2>1. CASE DropPanics(c)
    <3>1. cpc'[c] = "idle"
      BY <2>1, Bounds DEF DropPanics, CleanerDone
    <3> QED  BY <3>1 DEF CleanerCells, Cleaning
  <2>2. CASE DropMessage(c)
    <3>1. /\ cpc'[c] = (IF n + 1 = cmin[c] THEN "free" ELSE "drop") /\ cdrop'[c] = n + 1
          /\ clast' = clast /\ cmin' = cmin
      BY <2>2, Bounds DEF DropMessage, n
    <3>2. CleanerCells(c)
      BY DEF CellsInv, Cells, AllCleanerCells
    <3>3. SameCells(clast[c], n) /\ SameCells(n + 1, cmin[c])
      BY <1>2, <1>5, Bounds DEF Ordered
    <3>4. \A g \in clast[c] .. n : buffer'[Cell(g)] = Uninit
      <4>1. \A g \in clast[c] .. n - 1 : buffer[Cell(g)] = Uninit
        BY <1>1, <3>2 DEF CleanerCells, Cleaning, Clear, n
      <4> QED  BY <1>2, <1>4, <3>3, <4>1, Bounds DEF SameCells
    <3>5. \A g \in n + 1 .. cmin[c] - 1 : buffer'[Cell(g)] = g
      BY <1>1, <1>2, <3>2, <3>3, Bounds DEF CleanerCells, Cleaning, Holds, SameCells, n
    <3> QED
      BY <1>1, <1>2, <3>1, <3>4, <3>5, Bounds DEF CleanerCells, Holds, Clear, counters
  <2> QED  BY <2>1, <2>2
<1>8. AllCleanerCells'
  <2>1. Cleaning(c)' => UNCHANGED <<clast[c], cmin[c]>>
    BY Bounds DEF DropMessage, DropPanics, CleanerDone, Cleaning
  <2>2. ASSUME NEW d \in Cleaners \ {c}, Cleaning(d)
        PROVE  /\ free_gen' <= clast[d] /\ SameCells(clast[d], cmin[d])
               /\ cmin[d] <= clast[c] \/ cmin[c] <= clast[d]
    <3>1. cmin[d] <= clast[c] \/ cmin[c] <= clast[d]
      BY <1>1, <2>2 DEF CellsInv, Cells, AllCleanerCells, CleanersApart, Cleaning
    <3>2. free_gen <= clast[d] /\ cmin[d] <= last_valid_gen
      BY <2>2, CleaningBounds
    <3>3. SameCells(clast[d], cmin[d])
      BY <1>2, <1>5, <3>1, <3>2, Bounds DEF Ordered
    <3> QED  BY <1>1, <3>1, <3>2, <3>3 DEF counters
  <2> QED  BY <1>1, <1>7, <2>1, <2>2, OneCleaner
<1> QED  BY <1>6, <1>8 DEF Cells

(* The CAS of free_gen succeeds for the oldest cleanup only; it gives the  *)
(* cells that this one emptied to the next lap.                            *)
LEMMA FreeKeepsCells ==
    ASSUME CellsInv, NEW c \in Cleaners, CleanupFree(c) PROVE Cells'
<1>1. /\ cpc[c] = "free" /\ free_gen = clast[c] /\ free_gen' = cmin[c] /\ cpc'[c] = "idle"
      /\ UNCHANGED <<write_gen, read_gen, last_valid_gen, buffer, wvars>>
      /\ \A d \in Cleaners \ {c} : UNCHANGED <<cpc[d], clast[d], cmin[d], cdrop[d]>>
  BY Bounds DEF CleanupFree, FreeGenCas, CleanerDone
<1>2. \A g \in free_gen .. cmin[c] - 1 : Clear(g)
  BY <1>1 DEF CellsInv, Cells, AllCleanerCells, CleanerCells, Cleaning
<1>3. PublishedIsFilled' /\ AllWriterCells'
  BY <1>1, SameBuffer, PublishedStays, WritersStay
<1>4. Unreserved'
  <2>1. ASSUME NEW g \in write_gen .. cmin[c] + BufferCapacity - 1 PROVE Clear(g)
    <3>1. CASE g < free_gen + BufferCapacity
      BY <2>1, <3>1, Bounds DEF CellsInv, Cells, Unreserved
    <3>2. CASE g >= free_gen + BufferCapacity
      <4> DEFINE h == g - BufferCapacity
      <4>1. h \in free_gen .. cmin[c] - 1 /\ h \in Nat /\ g = h + BufferCapacity
        BY <2>1, <3>2, Bounds
      <4> HIDE DEF h
      <4> QED  BY <1>2, <4>1, CellAgain DEF Clear
    <3> QED  BY <2>1, <3>1, <3>2, Bounds
  <2> QED  BY <1>1, <2>1 DEF Unreserved, Clear
<1>5. AllCleanerCells'
  <2>1. ASSUME NEW d \in Cleaners \ {c}, Cleaning(d) PROVE cmin[c] <= clast[d]
    <3>1. cmin[c] <= clast[d] \/ cmin[d] <= clast[c]
      BY <1>1, <2>1 DEF CellsInv, Cells, AllCleanerCells, CleanersApart, Cleaning
    <3>2. free_gen <= clast[d] /\ clast[d] < cmin[d]
      BY <2>1, CleaningBounds
    <3> QED  BY <1>1, <3>1, <3>2, Bounds
  <2>2. ~Cleaning(c)' /\ CleanerCells(c)'
    BY <1>1 DEF Cleaning, CleanerCells
  <2> QED  BY <1>1, <2>1, <2>2, SameBuffer, OneCleaner
<1> QED  BY <1>3, <1>4, <1>5 DEF Cells

LEMMA CleanerKeepsCells ==
    ASSUME CellsInv, NEW c \in Cleaners,
           CleanupLoadLast(c) \/ CleanerStep(c) \/ DropPanics(c)
    PROVE  Cells'
<1> DEFINE OthersStay == \A d \in Cleaners \ {c} :
                             UNCHANGED <<cpc[d], clast[d], cmin[d], cdrop[d]>>
           Quiet == UNCHANGED <<counters, buffer, wvars>> /\ OthersStay /\ ~Cleaning(c)'
<1>1. ASSUME CleanupLoadLast(c) \/ CleanupLoadRead(c) \/ CleanupTooLate(c) PROVE Quiet
  BY <1>1, Bounds DEF CleanupLoadLast, CleanupLoadRead, CleanupTooLate, CleanerDone, Cleaning
<1>2. ASSUME ScanSlot(c) \/ ForceForward(c) PROVE Quiet
  <2>1. (NextSlot(c) /\ cmin' = cmin) \/ (\E word : Examine(c, word))
    BY <1>2 DEF ScanSlot, ForceForward
  <2>2. OthersStay /\ ~Cleaning(c)'
    <3>1. UNCHANGED <<clast, cdrop>>
      BY <1>2 DEF ScanSlot, ForceForward
    <3> QED  BY <2>1, <3>1, Bounds DEF Examine, NextSlot, Cleaning
  <2> QED  BY <1>2, <2>2 DEF ScanSlot, ForceForward
<1>3. ASSUME CleanupClaim(c), ~LastValidCas(c) PROVE Quiet
  BY <1>3, Bounds DEF CleanupClaim, Cleaning, counters
<1>4. Quiet => Cells'
  BY QuietCleanup
<1> QED
  BY <1>1, <1>2, <1>3, <1>4, ClaimKeepsCells, DropKeepsCells, FreeKeepsCells
     DEF CleanerStep

-----------------------------------------------------------------------------
LEMMA ReaderLeavesBuffer ==
    ASSUME NEW r \in Readers, ReaderCall(r) \/ ReaderStep(r) PROVE UNCHANGED buffer
  BY DEF ReaderCall, ReaderStep, Register, RegisterLoad, Resume, ResumeLoad, EnterCas,
     SuspendLoad, SuspendStore, ReadStart, ReadEnd, ReadEndAtMost, DropDisarmed,
     DropArmed, SetGenLoad, SetGenStore, Unregister, UnregisterStore, UnregisterRemove

LEMMA StillCells ==
    ASSUME CellsInv, UNCHANGED <<counters, wvars, cvars, buffer>> PROVE Cells'
  BY SameBuffer, PublishedStays, UnreservedStays, WritersStay, CleanersStay
     DEF Cells, counters

FaultNext == Next \/ FaultStep

LEMMA StepKeepsCells == CellsInv /\ [FaultNext]_vars => CellsInv'
<1> SUFFICES ASSUME CellsInv, [FaultNext]_vars PROVE CellsInv'
  OBVIOUS
<1>1. CountersInv'
  BY StepKeepsCounting, FaultKeepsCounting DEF CellsInv, FaultNext
<1>2. ASSUME NEW w \in Writers, ReserveLoadFree(w) \/ WriterStep(w) \/ Abandon(w)
      PROVE  Cells'
  BY <1>2, WriterKeepsCells
<1>3. ASSUME NEW c \in Cleaners, CleanupLoadLast(c) \/ CleanerStep(c) \/ DropPanics(c)
      PROVE  Cells'
  BY <1>3, CleanerKeepsCells
<1>4. ASSUME NEW r \in Readers, ReaderCall(r) \/ ReaderStep(r) PROVE Cells'
  BY <1>4, ReaderLeavesCounters, ReaderLeavesBuffer, StillCells
<1>5. ASSUME UNCHANGED vars PROVE Cells'
  <2>1. UNCHANGED <<counters, wvars, cvars, buffer>>
    BY <1>5 DEF vars
  <2> QED  BY <2>1, StillCells
<1> QED  BY <1>1, <1>2, <1>3, <1>4, <1>5 DEF FaultNext, Next, FaultStep, CellsInv

LEMMA CellsInvHolds == FaultSpec => []CellsInv
<1>1. Init => CellsInv
  BY InitType, InitCounting, InitCells DEF CellsInv, CountersInv
<1>2. CellsInv /\ [Next \/ FaultStep]_vars => CellsInv'
  BY StepKeepsCells DEF FaultNext
<1> QED  BY <1>1, <1>2, PTL DEF FaultSpec

(* What is shown of the area whose calls may fail holds where they do not. *)
LEMMA FaultsAreMore == Spec => FaultSpec
<1>1. [Next]_vars => [Next \/ FaultStep]_vars
  OBVIOUS
<1> QED  BY <1>1, PTL DEF Spec, FaultSpec

(* A T::drop that panics in a cleanup, or a reservation dropped without    *)
(* being published, puts no counter out of order and runs over no claim:   *)
(* what such a call leaves behind is in the way of all, but safely.        *)
THEOREM FaultsAreSafe == FaultSpec => [](CountersInOrder /\ ClaimsHold)
<1>1. CountersInv => CountersInOrder
  <2>1. CountersInv => /\ free_gen \in Nat /\ write_gen \in Nat /\ read_gen \in Nat
                       /\ last_valid_gen \in Nat /\ wfree \in [Writers -> Nat]
    BY DEF CountersInv, TypeInv, TypeOK, CounterTypes, WriterTypes
  <2> QED  BY <2>1 DEF CountersInv, Counting, Ordered, WriterFits, CountersInOrder
<1>2. ClaimsInv => ClaimsHold
  BY DEF ClaimsInv, Claims
<1> QED  BY <1>1, <1>2, FaultInvHolds, PTL

(* Nor do they touch a reader: its words and its slices stay as if no call *)
(* had failed.                                                             *)
THEOREM FaultsLeaveReadersAlone ==
    FaultSpec => [](TypeOK /\ RegisterFindsSuspended /\ SliceDropsInPlace)
<1>1. ASSUME ClaimsInv PROVE TypeOK /\ RegisterFindsSuspended /\ SliceDropsInPlace
  BY <1>1 DEF ClaimsInv, TypeInv, Claims, WordFits, RegisterFindsSuspended, SliceDropsInPlace,
              HoldsSlice
<1> QED  BY <1>1, FaultInvHolds, PTL

(* A slot's generation never goes back and an active word changes only by  *)
(* its owner, whatever calls fail beside it.                               *)
THEOREM FaultsMoveNoWord == FaultSpec => ClaimsNeverGoBack /\ ActiveWordIsOwned
<1>1. ASSUME ClaimsInv, [Next \/ FaultStep]_vars PROVE WordsMoveOn
  <2>1. FaultStep => slot' = slot
    BY DEF FaultStep, DropPanics, Abandon
  <2> QED  BY <1>1, <2>1, StepMovesWords, SameWords DEF ClaimsInv
<1>2. ASSUME ClaimsInv, [Next \/ FaultStep]_vars
      PROVE  /\ [\A s \in Slots : slot'[s].gen >= slot[s].gen]_vars
             /\ [\A s \in Slots : slot'[s] # slot[s] /\ ~IsSuspended(slot[s]) =>
                    \E r \in Readers : rslot[r] = s /\ rpc'[r] # rpc[r]]_vars
  BY <1>1, <1>2 DEF WordsMoveOn, ByItsReader, ClaimsInv, TypeInv, TypeOK, MapTypes, Words
<1> QED
  BY <1>2, FaultInvHolds, PTL DEF FaultSpec, ClaimsNeverGoBack, ActiveWordIsOwned

-----------------------------------------------------------------------------
(* Entering the map.  What a reader loaded of its word is still there, or  *)
(* a cleanup has paid for its next try.                                    *)
PaidFor(r) ==
    rpc[r] \in {"registering", "resuming"} /\ Word(r) # rword[r] =>
        /\ IsSuspended(Word(r))
        /\ rword[r].gen < Word(r).gen /\ Word(r).gen <= read_gen

LEMMA StillPaidFor ==
    ASSUME CountersInv, ClaimsInv, NEW r \in Readers, PaidFor(r),
           read_gen' \in Nat, read_gen <= read_gen',
           rpc'[r] = rpc[r], rslot'[r] = rslot[r], rword'[r] = rword[r],
           rpc[r] # "none" => slot'[rslot[r]] = slot[rslot[r]]
    PROVE  PaidFor(r)'
<1>1. /\ rpc[r] # "none" => Word(r)' = Word(r) /\ Word(r) \in Words
      /\ read_gen \in Nat
  BY DEF Word, CountersInv, ClaimsInv, TypeInv, TypeOK, MapTypes, HasSlot, CounterTypes
<1> QED  BY <1>1 DEF PaidFor, Words

(* A step of a reader is one on its own slot; after a load it is there.    *)
LEMMA ReaderPays ==
    ASSUME CountersInv, ClaimsInv, \A q \in Readers : PaidFor(q),
           NEW r \in Readers, ReaderCall(r) \/ ReaderStep(r)
    PROVE  \A q \in Readers : PaidFor(q)'
<1>0. /\ UNCHANGED counters /\ read_gen \in Nat /\ slot \in [Slots -> Words]
      /\ rpc \in [Readers -> ReaderStates] /\ rslot \in [Readers -> Slots \cup {NoSlot}]
      /\ rword \in [Readers -> Words]
  BY ReaderLeavesCounters
     DEF ClaimsInv, TypeInv, TypeOK, CounterTypes, MapTypes, ReaderTypes
<1>1. ASSUME NEW q \in Readers \ {r}
      PROVE  rpc'[q] = rpc[q] /\ rslot'[q] = rslot[q] /\ rword'[q] = rword[q]
  BY <1>0
     DEF ReaderCall, Register, Resume, SuspendLoad, ReadStart, DropDisarmed, DropArmed, Unregister,
         ReaderStep, RegisterLoad, ResumeLoad, EnterCas, Reload, SuspendStore, ReadEnd,
         ReadEndAtMost, SetGenLoad, SetGenStore, UnregisterStore, UnregisterRemove, LoadWord,
         ReaderAt
<1>2. \A s \in Slots \ {rslot[r]} : slot'[s] = slot[s]
  BY <1>0
     DEF ReaderCall, Register, Resume, SuspendLoad, ReadStart, DropDisarmed, DropArmed, Unregister,
         ReaderStep, RegisterLoad, ResumeLoad, EnterCas, SuspendStore, ReadEnd, ReadEndAtMost,
         SetGenLoad, SetGenStore, UnregisterStore, UnregisterRemove, SetWord
<1>3. ASSUME NEW q \in Readers \ {r} PROVE PaidFor(q)'
  <2>1. CASE rpc[q] = "none"
    BY <1>1, <2>1 DEF PaidFor
  <2>2. CASE rpc[q] # "none"
    <3>1. rslot[q] \in Slots /\ rslot[r] # rslot[q]
      BY <2>2, OneOwner DEF ClaimsInv, Claims, TypeInv, HasSlot
    <3> QED  BY <1>0, <1>1, <1>2, <3>1, StillPaidFor DEF counters
  <2> QED  BY <2>1, <2>2
<1>4. ASSUME rpc'[r] \in {"registering", "resuming"} PROVE Word(r)' = rword'[r]
  <2>1. RegisterLoad(r) \/ ResumeLoad(r)
    BY <1>0, <1>4
       DEF ReaderCall, Register, Resume, SuspendLoad, ReadStart, DropDisarmed, DropArmed, Unregister,
           LeaveBy, ReaderStep, EnterCas, Reload, SuspendStore, ReadEnd, ReadEndAtMost, SetGenLoad,
           SetGenStore, UnregisterStore, UnregisterRemove, LoadWord, ReaderAt
  <2> QED  BY <1>0, <1>4, <2>1 DEF RegisterLoad, ResumeLoad, LoadWord, ReaderAt, Word
<1> QED  BY <1>3, <1>4 DEF PaidFor

(* The one store of a cleanup to a slot takes a suspended word forward.    *)
LEMMA CleanerPays ==
    ASSUME CountersInv, ClaimsInv, \A q \in Readers : PaidFor(q), NEW c \in Cleaners,
           CleanupLoadLast(c) \/ CleanerStep(c) \/ DropPanics(c)
    PROVE  \A q \in Readers : PaidFor(q)'
<1>0. /\ UNCHANGED <<rvars, read_gen>> /\ read_gen \in Nat /\ CleanerFits(c) /\ ScanFits(c)
      /\ slot \in [Slots -> Words] /\ rword \in [Readers -> Words]
      /\ cmin[c] \in Nat /\ TypeInv
  BY DEF CleanupLoadLast, CleanerStep, CleanupLoadRead, ScanSlot, ForceForward, CleanupTooLate,
         CleanupClaim, DropMessage, CleanupFree, DropPanics, counters, CountersInv, Counting,
         ClaimsInv, Claims, TypeInv, TypeOK, CounterTypes, MapTypes, ReaderTypes, CleanerTypes
<1>1. CASE ForceForward(c) /\ WordCas(cidx[c], cword[c])
  <2>1. /\ cidx[c] \in Slots /\ cmin[c] <= read_gen
        /\ slot[cidx[c]].gen < cmin[c]
        /\ slot' = [slot EXCEPT ![cidx[c]] = Suspend(Active(cmin[c]))]
    BY <1>0, <1>1 DEF ForceForward, WordCas, CleanerFits, ScanFits, TypeInv, ScansASlot
  <2>2. /\ Suspend(Active(cmin[c])).gen = cmin[c]
        /\ IsSuspended(Suspend(Active(cmin[c])))
    BY DEF Suspend, Active, IsSuspended
  <2>3. ASSUME NEW q \in Readers PROVE PaidFor(q)'
    <3>1. CASE rpc[q] # "none" /\ rslot[q] = cidx[c]
      <4>1. Word(q)' = Suspend(Active(cmin[c])) /\ Word(q) = slot[cidx[c]]
        BY <1>0, <2>1, <3>1 DEF Word, rvars
      <4>2. rpc[q] \in {"registering", "resuming"} => rword[q].gen <= Word(q).gen
        BY <1>0, <2>1, <4>1 DEF PaidFor, Words
      <4> QED  BY <1>0, <2>1, <2>2, <4>1, <4>2 DEF PaidFor, rvars, Words
    <3>2. CASE ~(rpc[q] # "none" /\ rslot[q] = cidx[c])
      <4>1. rpc[q] # "none" => slot'[rslot[q]] = slot[rslot[q]]
        BY <1>0, <2>1, <3>2 DEF TypeInv, HasSlot
      <4> QED  BY <1>0, <4>1, StillPaidFor DEF rvars
    <3> QED  BY <3>1, <3>2
  <2> QED  BY <2>3
<1>2. CASE ~(ForceForward(c) /\ WordCas(cidx[c], cword[c]))
  <2>1. slot' = slot
    BY <1>2 DEF CleanupLoadLast, CleanerStep, CleanupLoadRead, ScanSlot, ForceForward,
                CleanupTooLate, CleanupClaim, DropMessage, CleanupFree, DropPanics
  <2> QED  BY <1>0, <2>1, StillPaidFor DEF rvars
<1> QED  BY <1>1, <1>2

(* Writers move read_gen forward, and nothing else of it.                  *)
LEMMA ReadGenOnlyGrows ==
    ASSUME CountersInv, NEW w \in Writers, ReserveLoadFree(w) \/ WriterStep(w) \/ Abandon(w)
    PROVE  read_gen' \in Nat /\ read_gen <= read_gen'
<1>0. /\ read_gen \in Nat /\ wstart[w] \in Nat /\ wend[w] \in Nat /\ WriterFits(w)
  BY DEF CountersInv, Counting, TypeInv, TypeOK, CounterTypes, WriterTypes
<1>1. CASE Publish(w)
  BY <1>0, <1>1 DEF Publish, ReadGenCas, WriterFits
<1>2. CASE ~Publish(w)
  BY <1>0, <1>2 DEF ReserveLoadFree, WriterStep, ReserveExactly, ReserveBestEffort, Grab,
                    Fill, Abandon, counters
<1> QED  BY <1>1, <1>2

(* The loop of register_reader and of resume tries again only for a cleanup*)
(* that took the word closer to read_gen: however many messages a program  *)
(* publishes, nothing else sends it around.                                *)
THEOREM RetriesAlwaysPaidFor == FaultSpec => []RetriesArePaidFor
<1> DEFINE Paid == \A r \in Readers : PaidFor(r)
<1>1. Init => Paid
  BY DEF Init, PaidFor
<1>2. ASSUME CountersInv, ClaimsInv, Paid, [Next \/ FaultStep]_vars PROVE Paid'
  <2>1. ASSUME NEW w \in Writers, ReserveLoadFree(w) \/ WriterStep(w) \/ Abandon(w) PROVE Paid'
    <3>1. UNCHANGED <<slot, rvars>>
      BY <2>1, WriterLeavesClaims DEF Abandon
    <3> QED  BY <1>2, <2>1, <3>1, ReadGenOnlyGrows, StillPaidFor DEF rvars
  <2>2. ASSUME NEW c \in Cleaners, CleanupLoadLast(c) \/ CleanerStep(c) \/ DropPanics(c)
        PROVE  Paid'
    BY <1>2, <2>2, CleanerPays
  <2>3. ASSUME NEW r \in Readers, ReaderCall(r) \/ ReaderStep(r) PROVE Paid'
    BY <1>2, <2>3, ReaderPays
  <2>4. ASSUME UNCHANGED vars PROVE Paid'
    <3>1. UNCHANGED <<slot, rvars, read_gen>> /\ read_gen \in Nat
      BY <1>2, <2>4 DEF vars, counters, CountersInv, TypeInv, TypeOK, CounterTypes
    <3> QED  BY <1>2, <3>1, StillPaidFor DEF rvars
  <2> HIDE DEF Paid
  <2> QED  BY <1>2, <2>1, <2>2, <2>3, <2>4 DEF Next, FaultStep
<1>3. Paid => RetriesArePaidFor
  BY DEF PaidFor, RetriesArePaidFor
<1> HIDE DEF Paid
<1> QED  BY <1>1, <1>2, <1>3, FaultInvHolds, PTL DEF FaultSpec

-----------------------------------------------------------------------------
(* What is published and not yet cleaned is in its cell, in whatever order *)
(* reservations are filled, published or given up: publishing in the order *)
(* of the CAS of write_gen exposes no unfilled cell.                       *)
THEOREM PublishedAlwaysFilled == FaultSpec => []PublishedIsFilled
<1>1. CellsInv => PublishedIsFilled
  BY DEF CellsInv, Cells
<1> QED  BY <1>1, CellsInvHolds, PTL

(* A cleanup drops each message of the range it claimed where it lies, and *)
(* no other cleanup drops it: the CAS of last_valid_gen hands it out once. *)
THEOREM DropsAlwaysFindTheirMessage == FaultSpec => []DropsItsMessage
<1>1. CellsInv => DropsItsMessage
  BY DEF CellsInv, Cells, AllCleanerCells, CleanerCells, Cleaning, Holds, DropsItsMessage
<1> QED  BY <1>1, CellsInvHolds, PTL

(* The cells of a reservation are empty until it fills them, though it was *)
(* given them on a free_gen that it loaded some steps before: no message   *)
(* is written over, and no two reservations share a cell.                  *)
THEOREM ReservedCellsAlwaysEmpty == FaultSpec => []ReservedCellsAreEmpty
<1>1. CellsInv => ReservedCellsAreEmpty
  BY DEF CellsInv, Cells, AllWriterCells, WriterCells, Reserved, Clear, ReservedCellsAreEmpty
<1> QED  BY <1>1, CellsInvHolds, PTL

-----------------------------------------------------------------------------
(* Nothing is left over: every generation that write_gen passed and        *)
(* read_gen did not belongs to a reservation in flight, and every one that *)
(* was claimed and not handed back to a cleanup in flight.  Faults break   *)
(* this: a reservation given up, or a cleanup unwound, leaves its range to *)
(* nobody, and whoever waits for it waits for ever.                        *)
Taken(g) == \E w \in Writers : Reserved(w) /\ wstart[w] <= g /\ g < wend[w]
Claimed(g) == \E c \in Cleaners : Cleaning(c) /\ clast[c] <= g /\ g < cmin[c]

AllTaken == \A g \in read_gen .. write_gen - 1 : Taken(g)
AllClaimed == \A g \in free_gen .. last_valid_gen - 1 : Claimed(g)

InFlightInv == CellsInv /\ AllTaken /\ AllClaimed

LEMMA InitInFlight == Init => AllTaken /\ AllClaimed
  BY DEF Init, AllTaken, AllClaimed

(* A reservation keeps what it holds, whatever it does short of ending.    *)
LEMMA TakenStays ==
    ASSUME UNCHANGED <<read_gen, write_gen>>, AllTaken,
           \A w \in Writers : Reserved(w) => Reserved(w)' /\ UNCHANGED <<wstart[w], wend[w]>>
    PROVE  AllTaken'
  BY DEF AllTaken, Taken

LEMMA ClaimedStays ==
    ASSUME UNCHANGED <<free_gen, last_valid_gen>>, AllClaimed,
           \A c \in Cleaners : Cleaning(c) => Cleaning(c)' /\ UNCHANGED <<clast[c], cmin[c]>>
    PROVE  AllClaimed'
  BY DEF AllClaimed, Claimed

(* What write_gen comes to pass is taken by the writer that moved it.      *)
LEMMA GrabTakes ==
    ASSUME InFlightInv, NEW w \in Writers, Grab(w), WriteGenCas(w) PROVE AllTaken'
<1>1. /\ write_gen = wstart[w] /\ write_gen' = wend[w] /\ wpc[w] = "grab"
      /\ wpc'[w] = "fill" /\ wstart' = wstart /\ wend' = wend /\ read_gen' = read_gen
      /\ \A v \in Writers \ {w} : wpc'[v] = wpc[v]
  BY Bounds DEF InFlightInv, Grab, WriteGenCas
<1>2. ASSUME NEW g \in read_gen .. wend[w] - 1 PROVE Taken(g)'
  <2>1. CASE g < write_gen
    <3>1. Taken(g)
      BY <1>2, <2>1, Bounds DEF InFlightInv, AllTaken
    <3>2. PICK v \in Writers : Reserved(v) /\ wstart[v] <= g /\ g < wend[v]
      BY <3>1 DEF Taken
    <3>3. v # w
      BY <1>1, <3>2 DEF Reserved
    <3> QED  BY <1>1, <3>2, <3>3 DEF Taken, Reserved
  <2>2. CASE write_gen <= g
    BY <1>1, <1>2, <2>2, Bounds DEF InFlightInv, Taken, Reserved
  <2> QED  BY <1>2, <2>1, <2>2, Bounds DEF InFlightInv
<1> QED  BY <1>1, <1>2 DEF AllTaken

(* What read_gen comes to pass is just the range of its publisher.         *)
LEMMA PublishReturnsItsOwn ==
    ASSUME InFlightInv, NEW w \in Writers, Publish(w) PROVE AllTaken'
<1>1. /\ wpc[w] = "publish" /\ read_gen = wstart[w] /\ read_gen' = wend[w]
      /\ write_gen' = write_gen
      /\ \A v \in Writers \ {w} : UNCHANGED <<wpc[v], wstart[v], wend[v]>>
  BY Bounds DEF InFlightInv, Publish, ReadGenCas, WriterDone
<1>2. wstart[w] < wend[w]
  BY <1>1, ReservedBounds DEF InFlightInv, Reserved
<1>3. ASSUME NEW g \in wend[w] .. write_gen - 1 PROVE Taken(g)'
  <2>1. Taken(g)
    BY <1>1, <1>2, <1>3, Bounds DEF InFlightInv, AllTaken
  <2>2. PICK v \in Writers : Reserved(v) /\ wstart[v] <= g /\ g < wend[v]
    BY <2>1 DEF Taken
  <2>3. v # w
    BY <1>3, <2>2, Bounds DEF InFlightInv
  <2> QED  BY <1>1, <2>2, <2>3 DEF Taken, Reserved
<1> QED  BY <1>1, <1>3 DEF AllTaken

LEMMA ClaimTakes ==
    ASSUME InFlightInv, NEW c \in Cleaners, CleanupClaim(c), LastValidCas(c)
    PROVE  AllClaimed'
<1>1. /\ cpc[c] = "claim" /\ last_valid_gen = clast[c] /\ last_valid_gen' = cmin[c]
      /\ cpc'[c] = "drop" /\ clast' = clast /\ cmin' = cmin /\ free_gen' = free_gen
      /\ \A d \in Cleaners \ {c} : cpc'[d] = cpc[d]
  BY Bounds DEF InFlightInv, CleanupClaim, LastValidCas
<1>2. ASSUME NEW g \in free_gen .. cmin[c] - 1 PROVE Claimed(g)'
  <2>1. CASE g < last_valid_gen
    <3>1. Claimed(g)
      BY <1>2, <2>1, Bounds DEF InFlightInv, AllClaimed
    <3>2. PICK d \in Cleaners : Cleaning(d) /\ clast[d] <= g /\ g < cmin[d]
      BY <3>1 DEF Claimed
    <3>3. d # c
      BY <1>1, <3>2 DEF Cleaning
    <3> QED  BY <1>1, <3>2, <3>3 DEF Claimed, Cleaning
  <2>2. CASE last_valid_gen <= g
    BY <1>1, <1>2, <2>2, Bounds DEF InFlightInv, Claimed, Cleaning
  <2> QED  BY <1>2, <2>1, <2>2, Bounds DEF InFlightInv
<1> QED  BY <1>1, <1>2 DEF AllClaimed

LEMMA FreeReturnsItsOwn ==
    ASSUME InFlightInv, NEW c \in Cleaners, CleanupFree(c) PROVE AllClaimed'
<1>1. /\ cpc[c] = "free" /\ free_gen = clast[c] /\ free_gen' = cmin[c]
      /\ last_valid_gen' = last_valid_gen
      /\ \A d \in Cleaners \ {c} : UNCHANGED <<cpc[d], clast[d], cmin[d]>>
  BY Bounds DEF InFlightInv, CleanupFree, FreeGenCas, CleanerDone
<1>2. clast[c] < cmin[c]
  BY <1>1, CleaningBounds DEF InFlightInv, Cleaning
<1>3. ASSUME NEW g \in cmin[c] .. last_valid_gen - 1 PROVE Claimed(g)'
  <2>1. Claimed(g)
    BY <1>1, <1>2, <1>3, Bounds DEF InFlightInv, AllClaimed
  <2>2. PICK d \in Cleaners : Cleaning(d) /\ clast[d] <= g /\ g < cmin[d]
    BY <2>1 DEF Claimed
  <2>3. d # c
    BY <1>3, <2>2, Bounds DEF InFlightInv
  <2> QED  BY <1>1, <2>2, <2>3 DEF Claimed, Cleaning
<1> QED  BY <1>1, <1>3 DEF AllClaimed

LEMMA WriterKeepsTaken ==
    ASSUME InFlightInv, NEW w \in Writers, ReserveLoadFree(w) \/ WriterStep(w)
    PROVE  AllTaken' /\ AllClaimed'
<1>1. UNCHANGED <<free_gen, last_valid_gen, cvars>>
  BY DEF ReserveLoadFree, WriterStep, ReserveExactly, ReserveBestEffort, Grab, Fill, Publish,
         counters
<1>2. AllClaimed'
  BY <1>1, ClaimedStays DEF InFlightInv, Cleaning, cvars
<1> DEFINE Quiet == /\ UNCHANGED <<read_gen, write_gen>>
                    /\ \A v \in Writers : Reserved(v) =>
                           Reserved(v)' /\ UNCHANGED <<wstart[v], wend[v]>>
<1>3. ASSUME ReserveLoadFree(w) PROVE Quiet
  BY <1>3, Bounds DEF InFlightInv, ReserveLoadFree, Reserved, counters
<1>4. ASSUME NEW n \in 1 .. MaxBatch, ReserveExactly(w, n) \/ ReserveBestEffort(w, n)
      PROVE  Quiet
  BY <1>4, Bounds DEF InFlightInv, ReserveExactly, ReserveBestEffort, WriterDone, Aim,
                      Reserved, counters
<1>5. ASSUME Grab(w), ~WriteGenCas(w) PROVE Quiet
  BY <1>5, Bounds DEF InFlightInv, Grab, WriterDone, Reserved
<1>6. ASSUME Fill(w) PROVE Quiet
  BY <1>6, Bounds DEF InFlightInv, Fill, Reserved, counters
<1>7. Quiet => AllTaken'
  BY TakenStays DEF InFlightInv
<1> QED
  BY <1>2, <1>3, <1>4, <1>5, <1>6, <1>7, GrabTakes, PublishReturnsItsOwn DEF WriterStep

LEMMA CleanerKeepsTaken ==
    ASSUME InFlightInv, NEW c \in Cleaners, CleanupLoadLast(c) \/ CleanerStep(c)
    PROVE  AllTaken' /\ AllClaimed'
<1>1. UNCHANGED <<read_gen, write_gen, wvars>>
  BY DEF CleanupLoadLast, CleanerStep, CleanupLoadRead, ScanSlot, ForceForward, CleanupTooLate,
         CleanupClaim, DropMessage, CleanupFree, counters
<1>2. AllTaken'
  BY <1>1, TakenStays DEF InFlightInv, Reserved, wvars
<1> DEFINE Quiet == /\ UNCHANGED <<free_gen, last_valid_gen>>
                    /\ \A d \in Cleaners : Cleaning(d) =>
                           Cleaning(d)' /\ UNCHANGED <<clast[d], cmin[d]>>
<1>3. ASSUME CleanupLoadLast(c) \/ CleanupLoadRead(c) \/ CleanupTooLate(c) PROVE Quiet
  BY <1>3, Bounds DEF InFlightInv, CleanupLoadLast, CleanupLoadRead, CleanupTooLate,
                      CleanerDone, Cleaning, counters
<1>4. ASSUME ScanSlot(c) \/ ForceForward(c) PROVE Quiet
  <2>1. /\ (NextSlot(c) /\ cmin' = cmin) \/ (\E word : Examine(c, word))
        /\ clast' = clast /\ cpc[c] \notin {"drop", "free"}
        /\ UNCHANGED <<free_gen, last_valid_gen>>
    BY <1>4 DEF ScanSlot, ForceForward, counters
  <2> QED  BY <2>1, Bounds DEF InFlightInv, Examine, NextSlot, Cleaning
<1>5. ASSUME CleanupClaim(c), ~LastValidCas(c) PROVE Quiet
  BY <1>5, Bounds DEF InFlightInv, CleanupClaim, Cleaning, counters
<1>6. ASSUME DropMessage(c) PROVE Quiet
  BY <1>6, Bounds DEF InFlightInv, DropMessage, Cleaning, counters
<1>7. Quiet => AllClaimed'
  BY ClaimedStays DEF InFlightInv
<1> QED
  BY <1>2, <1>3, <1>4, <1>5, <1>6, <1>7, ClaimTakes, FreeReturnsItsOwn DEF CleanerStep

LEMMA StepKeepsInFlight == InFlightInv /\ [Next]_vars => InFlightInv'
<1> SUFFICES ASSUME InFlightInv, [Next]_vars PROVE InFlightInv'
  OBVIOUS
<1>1. CellsInv'
  BY StepKeepsCells DEF InFlightInv, FaultNext
<1>2. ASSUME NEW w \in Writers, ReserveLoadFree(w) \/ WriterStep(w)
      PROVE  AllTaken' /\ AllClaimed'
  BY <1>2, WriterKeepsTaken
<1>3. ASSUME NEW c \in Cleaners, CleanupLoadLast(c) \/ CleanerStep(c)
      PROVE  AllTaken' /\ AllClaimed'
  BY <1>3, CleanerKeepsTaken
<1>4. ASSUME UNCHANGED <<counters, wvars, cvars>> PROVE AllTaken' /\ AllClaimed'
  BY <1>4, TakenStays, ClaimedStays
     DEF InFlightInv, counters, wvars, cvars, Reserved, Cleaning
<1>5. ASSUME NEW r \in Readers, ReaderCall(r) \/ ReaderStep(r)
      PROVE  AllTaken' /\ AllClaimed'
  BY <1>4, <1>5, ReaderLeavesCounters
<1>6. ASSUME UNCHANGED vars PROVE AllTaken' /\ AllClaimed'
  BY <1>4, <1>6 DEF vars
<1> QED  BY <1>1, <1>2, <1>3, <1>5, <1>6 DEF Next, InFlightInv

(* Where no call fails, nobody waits for a range that nobody holds: the    *)
(* reservation that read_gen waits for, and the cleanup that free_gen      *)
(* waits for, are calls still in flight.                                   *)
THEOREM SomebodyIsAlwaysNext == Spec => []SomebodyIsNext
<1>1. Init => InFlightInv
  BY InitType, InitCounting, InitCells, InitInFlight DEF InFlightInv, CellsInv, CountersInv
<1>2. InFlightInv => SomebodyIsNext
  <2> SUFFICES ASSUME InFlightInv PROVE SomebodyIsNext
    OBVIOUS
  <2>1. ASSUME read_gen < write_gen
        PROVE  \E w \in Writers : Reserved(w) /\ wstart[w] = read_gen
    <3>1. Taken(read_gen)
      BY <2>1, Bounds DEF InFlightInv, AllTaken
    <3>2. PICK w \in Writers : Reserved(w) /\ wstart[w] <= read_gen
      BY <3>1 DEF Taken
    <3>3. read_gen <= wstart[w]
      BY <3>2, ReservedBounds DEF InFlightInv
    <3> QED  BY <3>2, <3>3, Bounds DEF InFlightInv
  <2>2. ASSUME free_gen < last_valid_gen
        PROVE  \E c \in Cleaners : Cleaning(c) /\ clast[c] = free_gen
    <3>1. Claimed(free_gen)
      BY <2>2, Bounds DEF InFlightInv, AllClaimed
    <3>2. PICK c \in Cleaners : Cleaning(c) /\ clast[c] <= free_gen
      BY <3>1 DEF Claimed
    <3>3. free_gen <= clast[c]
      BY <3>2, CleaningBounds DEF InFlightInv
    <3> QED  BY <3>2, <3>3, Bounds DEF InFlightInv
  <2> QED  BY <2>1, <2>2 DEF SomebodyIsNext, Reserved, Cleaning
<1> QED  BY <1>1, <1>2, StepKeepsInFlight, PTL DEF Spec

-----------------------------------------------------------------------------
(* Where readers are, when no program asks to resume ahead of read_gen.    *)
(* Whatever a reader holds was published when it loaded it.                *)
ReaderBehind(r) ==
    /\ rword[r].gen <= read_gen /\ rend[r] <= read_gen /\ rentry[r] <= read_gen
    /\ rpc[r] \in {"slice", "advance"} => rword[r].gen <= rend[r]

Behind == NobodyAhead /\ \A r \in Readers : ReaderBehind(r)

BehindInv == CellsInv /\ ClaimsInv /\ Behind

LEMMA InitBehind == Init => Behind
  BY DEF Init, Behind, NobodyAhead, ReaderBehind, Active, AsIs

(* As read_gen grows, nobody comes to be ahead of it.                      *)
LEMMA StillBehind ==
    ASSUME BehindInv, CountersInv', read_gen <= read_gen', UNCHANGED rvars,
           \A s \in Slots : slot'[s] = slot[s] \/ slot'[s].gen <= read_gen'
    PROVE  Behind'
<1>0. /\ read_gen \in Nat /\ read_gen' \in Nat
      /\ slot \in [Slots -> Words] /\ rword \in [Readers -> Words]
      /\ rend \in [Readers -> Nat] /\ rentry \in [Readers -> Nat \cup {AsIs}]
  BY DEF BehindInv, CellsInv, CountersInv, TypeInv, TypeOK, CounterTypes, MapTypes, ReaderTypes
<1>1. NobodyAhead'
  BY <1>0 DEF BehindInv, Behind, NobodyAhead, Words
<1>2. ASSUME NEW r \in Readers PROVE ReaderBehind(r)'
  BY <1>0 DEF BehindInv, Behind, ReaderBehind, Words, rvars, AsIs
<1> QED  BY <1>1, <1>2 DEF Behind

(* One reader's step, which stores at most a word that is not ahead.       *)
LEMMA OneReaderBehind ==
    ASSUME BehindInv, NEW r \in Readers, OtherReadersStay(r), UNCHANGED read_gen,
           \A s \in Slots : slot'[s] = slot[s] \/ slot'[s].gen <= read_gen,
           ReaderBehind(r)'
    PROVE  Behind'
<1>1. NobodyAhead'
  BY DEF BehindInv, Behind, NobodyAhead
<1>2. ASSUME NEW q \in Readers PROVE ReaderBehind(q)'
  <2>1. CASE q = r
    BY <2>1
  <2>2. CASE q # r
    BY <2>2 DEF BehindInv, Behind, ReaderBehind, OtherReadersStay
  <2> QED  BY <2>1, <2>2
<1> QED  BY <1>1, <1>2 DEF Behind

(* A reader goes on from the word of its slot, from read_gen, or from an   *)
(* entry that the program may ask for.                                     *)
LEMMA ReaderKeepsBehind ==
    ASSUME ResumeAhead = 0, BehindInv, NEW r \in Readers, ReaderCall(r) \/ ReaderStep(r)
    PROVE  Behind'
<1>0. /\ read_gen \in Nat /\ read_gen <= MaxGen /\ slot \in [Slots -> Words]
      /\ rpc \in [Readers -> ReaderStates] /\ rslot \in [Readers -> Slots \cup {NoSlot}]
      /\ rword \in [Readers -> Words] /\ rend \in [Readers -> Nat]
      /\ rentry \in [Readers -> Nat \cup {AsIs}]
      /\ rword[r].gen \in Nat /\ UNCHANGED read_gen
  <2>1. TypeInv /\ Ordered
    BY DEF BehindInv, CellsInv, CountersInv, Counting
  <2>2. UNCHANGED counters
    BY ReaderLeavesCounters
  <2> QED
    BY <2>1, <2>2, BoundsAssumption DEF TypeInv, TypeOK, CounterTypes, MapTypes, ReaderTypes,
       InBounds, Ordered, counters, Words
<1>1. ReaderBehind(r) /\ NobodyAhead
  BY DEF BehindInv, Behind
<1>2. rpc[r] # "none" => Word(r) \in Words /\ Word(r).gen <= read_gen
  BY <1>0, <1>1 DEF BehindInv, ClaimsInv, TypeInv, HasSlot, NobodyAhead, Word
<1> DEFINE Quiet == OtherReadersStay(r) /\ slot' = slot /\ ReaderBehind(r)'
           Stores(word) == /\ OtherReadersStay(r) /\ ReaderBehind(r)'
                           /\ rpc[r] # "none" /\ SetWord(r, word) /\ word.gen <= read_gen
<1>3. ASSUME NEW n \in Nat, n <= read_gen PROVE Active(n).gen <= read_gen
  BY <1>3 DEF Active
<1>4. ASSUME ReaderAt(r, "idle") \/ ReaderAt(r, "panicked") \/ ReaderAt(r, "none")
      PROVE  ReaderBehind(r)'
  BY <1>0, <1>4 DEF ReaderAt, ReaderBehind, Active, AsIs
<1>5. ASSUME NEW s \in Slots, Register(r, s) PROVE Quiet
  BY <1>0, <1>1, <1>5 DEF Register, OtherReadersStay, ReaderBehind
<1>6. ASSUME RegisterLoad(r) \/ SuspendLoad(r) \/ ReadStart(r) \/ Unregister(r) PROVE Quiet
  BY <1>0, <1>1, <1>2, <1>6
     DEF RegisterLoad, SuspendLoad, ReadStart, Unregister, LeaveBy, LoadWord, OtherReadersStay,
         ReaderBehind
<1>7. ASSUME NEW e \in {AsIs} \cup (0 .. read_gen + ResumeAhead), Resume(r, e) PROVE Quiet
  BY <1>0, <1>1, <1>7 DEF Resume, OtherReadersStay, ReaderBehind, AsIs
<1>8. ASSUME ResumeLoad(r) \/ SetGenLoad(r) PROVE Quiet
  <2>1. OtherReadersStay(r) /\ slot' = slot
    BY <1>0, <1>8 DEF ResumeLoad, SetGenLoad, LoadWord, ReaderAt, OtherReadersStay
  <2>2. ReaderAt(r, "idle") \/ /\ LoadWord(r, "resuming") \/ LoadWord(r, "advancing")
                               /\ UNCHANGED <<rentry, rend>> /\ rpc[r] # "none"
    BY <1>8 DEF ResumeLoad, SetGenLoad
  <2>3. ReaderBehind(r)'
    BY <1>0, <1>1, <1>2, <1>4, <2>2 DEF LoadWord, ReaderBehind
  <2> QED  BY <2>1, <2>3
<1>9. ASSUME ReadEnd(r) PROVE Quiet
  BY <1>0, <1>1, <1>9 DEF ReadEnd, LoadReadGen, OtherReadersStay, ReaderBehind
<1>10. ASSUME NEW n \in 1 .. MaxBatch, ReadEndAtMost(r, n) PROVE Quiet
  <2>1. GenDist(read_gen, rword[r].gen) = read_gen - rword[r].gen
    BY <1>0, <1>1, GenDistExact DEF ReaderBehind
  <2>2. rend' = [rend EXCEPT ![r] = rword[r].gen + Lesser(n, read_gen - rword[r].gen)]
    BY <1>10, <2>1 DEF ReadEndAtMost, LoadReadGen
  <2>3. rword[r].gen <= rend'[r] /\ rend'[r] <= read_gen
    BY <1>0, <1>1, <2>2 DEF Lesser, ReaderBehind
  <2> QED
    BY <1>0, <1>1, <1>10, <2>3 DEF ReadEndAtMost, OtherReadersStay, ReaderBehind
<1>11. ASSUME DropDisarmed(r) \/ UnregisterRemove(r) PROVE Quiet
  BY <1>0, <1>4, <1>11 DEF DropDisarmed, UnregisterRemove, ReaderAt, OtherReadersStay
<1>12. ASSUME DropArmed(r) PROVE Quiet
  <2>1. OtherReadersStay(r) /\ slot' = slot
    BY <1>0, <1>12 DEF DropArmed, ReaderAt, OtherReadersStay
  <2>2. ReaderBehind(r)'
    BY <1>0, <1>1, <1>4, <1>12 DEF DropArmed, ReaderBehind
  <2> QED  BY <2>1, <2>2
<1>13. ASSUME EnterCas(r), ~WordCas(rslot[r], rword[r]) PROVE Quiet
  BY <1>0, <1>1, <1>13 DEF EnterCas, Reload, OtherReadersStay, ReaderBehind
<1>14. ASSUME EnterCas(r), WordCas(rslot[r], rword[r]) PROVE Stores(Active(Entry(r)))
  <2>1. Entry(r) \in Nat /\ Entry(r) <= read_gen
    BY <1>0, <1>1 DEF Entry, ReaderBehind, AsIs
  <2> QED
    BY <1>0, <1>3, <1>4, <1>14, <2>1 DEF EnterCas, ReaderAt, OtherReadersStay
<1>15. ASSUME SuspendStore(r) PROVE Stores(Suspend(rword[r]))
  <2>1. Suspend(rword[r]).gen = rword[r].gen
    BY <1>0 DEF Suspend, Words
  <2> QED
    BY <1>0, <1>1, <1>4, <1>15, <2>1 DEF SuspendStore, ReaderAt, OtherReadersStay, ReaderBehind
<1>16. ASSUME UnregisterStore(r) PROVE Stores(Suspend(rword[r]))
  <2>1. Suspend(rword[r]).gen = rword[r].gen
    BY <1>0 DEF Suspend, Words
  <2> QED
    BY <1>0, <1>1, <1>16, <2>1 DEF UnregisterStore, OtherReadersStay, ReaderBehind
<1>17. ASSUME SetGenStore(r) PROVE Stores(Active(rend[r]))
  BY <1>0, <1>1, <1>3, <1>4, <1>17
     DEF SetGenStore, ReaderAt, OtherReadersStay, ReaderBehind
<1>18. Quiet => Behind'
  BY <1>0, OneReaderBehind
<1>19. ASSUME NEW word, Stores(word) PROVE Behind'
  <2>1. rslot[r] \in Slots
    BY <1>19 DEF BehindInv, ClaimsInv, TypeInv, HasSlot
  <2>2. \A s \in Slots : slot'[s] = slot[s] \/ slot'[s].gen <= read_gen
    BY <1>0, <1>19, <2>1 DEF SetWord
  <2> QED  BY <1>0, <1>19, <2>2, OneReaderBehind
<1> HIDE DEF Quiet, Stores
<1> QED
  BY <1>5, <1>6, <1>7, <1>8, <1>9, <1>10, <1>11, <1>12, <1>13, <1>14, <1>15, <1>16, <1>17,
     <1>18, <1>19 DEF ReaderCall, ReaderStep

(* Writers move read_gen forward, and cleaners store words that lie at the *)
(* minimum of a scan.                                                      *)
LEMMA WriterKeepsBehind ==
    ASSUME BehindInv, CountersInv', NEW w \in Writers,
           ReserveLoadFree(w) \/ WriterStep(w) \/ Abandon(w)
    PROVE  Behind'
<1>1. UNCHANGED <<slot, rvars>>
  BY WriterLeavesClaims DEF Abandon
<1>2. read_gen <= read_gen'
  BY ReadGenOnlyGrows DEF BehindInv, CellsInv
<1> QED  BY <1>1, <1>2, StillBehind

LEMMA CleanerKeepsBehind ==
    ASSUME BehindInv, CountersInv', NEW c \in Cleaners,
           CleanupLoadLast(c) \/ CleanerStep(c) \/ DropPanics(c)
    PROVE  Behind'
<1>0. /\ TypeInv /\ read_gen \in Nat /\ cmin \in [Cleaners -> Nat] /\ CleanerFits(c)
      /\ slot \in [Slots -> Words]
  BY DEF BehindInv, CellsInv, CountersInv, Counting, TypeInv, TypeOK, CounterTypes, MapTypes,
         CleanerTypes
<1>1. UNCHANGED <<rvars, read_gen>>
  BY DEF CleanupLoadLast, CleanerStep, CleanupLoadRead, ScanSlot, ForceForward, CleanupTooLate,
         CleanupClaim, DropMessage, CleanupFree, DropPanics, counters
<1>2. \A s \in Slots : slot'[s] = slot[s] \/ slot'[s].gen <= read_gen
  <2>1. CASE ForceForward(c) /\ WordCas(cidx[c], cword[c])
    <3>1. cidx[c] \in Slots /\ cmin[c] <= read_gen
      BY <1>0, <2>1 DEF ForceForward, CleanerFits, TypeInv, ScansASlot
    <3>2. slot' = [slot EXCEPT ![cidx[c]] = Suspend(Active(cmin[c]))]
      BY <2>1 DEF ForceForward
    <3>3. Suspend(Active(cmin[c])).gen = cmin[c]
      BY DEF Suspend, Active
    <3> QED  BY <1>0, <3>1, <3>2, <3>3
  <2>2. CASE ~(ForceForward(c) /\ WordCas(cidx[c], cword[c]))
    BY <2>2 DEF CleanupLoadLast, CleanerStep, CleanupLoadRead, ScanSlot, ForceForward,
                CleanupTooLate, CleanupClaim, DropMessage, CleanupFree, DropPanics
  <2> QED  BY <2>1, <2>2
<1> QED  BY <1>0, <1>1, <1>2, StillBehind

LEMMA StepKeepsBehind ==
    ASSUME ResumeAhead = 0, BehindInv, [FaultNext]_vars PROVE BehindInv'
<1>1. CellsInv' /\ CountersInv'
  BY StepKeepsCells DEF BehindInv, CellsInv
<1>2. ClaimsInv'
  BY StepKeepsClaims, FaultKeepsClaims DEF BehindInv, FaultNext
<1>3. ASSUME NEW w \in Writers, ReserveLoadFree(w) \/ WriterStep(w) \/ Abandon(w)
      PROVE  Behind'
  BY <1>1, <1>3, WriterKeepsBehind
<1>4. ASSUME NEW c \in Cleaners, CleanupLoadLast(c) \/ CleanerStep(c) \/ DropPanics(c)
      PROVE  Behind'
  BY <1>1, <1>4, CleanerKeepsBehind
<1>5. ASSUME NEW r \in Readers, ReaderCall(r) \/ ReaderStep(r) PROVE Behind'
  BY <1>5, ReaderKeepsBehind
<1>6. ASSUME UNCHANGED vars PROVE Behind'
  <2>1. UNCHANGED <<slot, rvars, read_gen>> /\ read_gen \in Nat
    BY <1>6 DEF vars, counters, BehindInv, CellsInv, CountersInv, TypeInv, TypeOK, CounterTypes
  <2> QED  BY <1>1, <2>1, StillBehind
<1> QED  BY <1>1, <1>2, <1>3, <1>4, <1>5, <1>6 DEF FaultNext, Next, FaultStep, BehindInv

LEMMA BehindInvHolds == ASSUME ResumeAhead = 0 PROVE FaultSpec => []BehindInv
<1>1. Init => BehindInv
  BY InitBehind, InitType, InitCounting, InitCells, InitClaims
     DEF BehindInv, CellsInv, CountersInv, ClaimsInv
<1>2. BehindInv /\ [Next \/ FaultStep]_vars => BehindInv'
  BY StepKeepsBehind DEF FaultNext
<1> QED  BY <1>1, <1>2, PTL DEF FaultSpec

(* Where the program does not ask to resume ahead, nobody enters past what *)
(* is published: a reader misses nothing published after it came in.       *)
THEOREM NobodyEverAhead == ASSUME ResumeAhead = 0 PROVE FaultSpec => []NobodyAhead
<1>1. BehindInv => NobodyAhead
  BY DEF BehindInv, Behind
<1> QED  BY <1>1, BehindInvHolds, PTL

(* Then the length of a slice, a masked distance, is what lies between its *)
(* start and its end, and all of it was published.                         *)
THEOREM SlicesAlwaysPublished == ASSUME ResumeAhead = 0 PROVE FaultSpec => []SliceIsPublished
<1>1. ASSUME BehindInv, NEW r \in Readers, rpc[r] = "slice"
      PROVE  rword[r].gen + SliceLen(r) <= read_gen
  <2>1. /\ rend[r] \in Nat /\ rword[r].gen \in Nat /\ read_gen \in Nat /\ write_gen \in Nat
        /\ read_gen <= write_gen /\ write_gen <= MaxGen
    BY <1>1 DEF BehindInv, CellsInv, CountersInv, Counting, Ordered, TypeInv, InBounds, TypeOK,
                CounterTypes, ReaderTypes, Words
  <2>2. rword[r].gen <= rend[r] /\ rend[r] <= read_gen
    BY <1>1 DEF BehindInv, Behind, ReaderBehind
  <2>3. rend[r] <= MaxGen
    BY <2>1, <2>2, BoundsAssumption
  <2>4. SliceLen(r) = rend[r] - rword[r].gen
    BY <2>1, <2>2, <2>3, GenDistExact DEF SliceLen
  <2> QED  BY <2>1, <2>2, <2>4
<1>2. BehindInv => SliceIsPublished
  BY <1>1 DEF SliceIsPublished
<1> QED  BY <1>2, BehindInvHolds, PTL

(* And the messages of a slice lie in the buffer until it is dropped: its  *)
(* reader's word holds last_valid_gen back, and what lies between that and *)
(* read_gen is filled.                                                     *)
THEOREM SlicesAlwaysLive == ASSUME ResumeAhead = 0 PROVE FaultSpec => []SliceIsLive
<1>1. ASSUME BehindInv, NEW r \in Readers, HoldsSlice(r), NEW g \in rword[r].gen .. rend[r] - 1
      PROVE  buffer[Cell(g)] = g
  <2>1. /\ rend[r] \in Nat /\ rword[r].gen \in Nat /\ read_gen \in Nat /\ last_valid_gen \in Nat
    BY <1>1 DEF BehindInv, CellsInv, CountersInv, TypeInv, TypeOK, CounterTypes, ReaderTypes, Words
  <2>2. Word(r) = rword[r] /\ rslot[r] \in Slots
    BY <1>1 DEF HoldsSlice, BehindInv, ClaimsInv, Claims, WordFits, TypeInv, HasSlot
  <2>3. last_valid_gen <= rword[r].gen
    BY <1>1, <2>2 DEF BehindInv, ClaimsInv, Claims, ClaimsHold, Word
  <2>4. rend[r] <= read_gen
    BY <1>1 DEF BehindInv, Behind, ReaderBehind
  <2>5. g \in last_valid_gen .. read_gen - 1
    BY <1>1, <2>1, <2>3, <2>4
  <2> QED  BY <1>1, <2>5 DEF BehindInv, CellsInv, Cells, PublishedIsFilled
<1>2. BehindInv => SliceIsLive
  <2> SUFFICES ASSUME BehindInv,
                      NEW r \in Readers, HoldsSlice(r), NEW g \in rword[r].gen .. rend[r] - 1
               PROVE  buffer[Cell(g)] = g
    BY DEF SliceIsLive
  <2> QED  BY <1>1
<1> QED  BY <1>2, BehindInvHolds, PTL

-----------------------------------------------------------------------------
(* Refinement: the area is a Broadcast, step by step.                      *)
Position == [r \in Readers |-> Wants(r)]

LEMMA InitIsAbstract == Init => Abstract!Init
<1> SUFFICES ASSUME Init PROVE Abstract!Init
  OBVIOUS
<1>1. FirstSlot \in Slots
  BY SlotsAssumption DEF FirstSlot, Slots
<1>2. \A r \in Readers : Wants(r) = IF r = FirstReader THEN 0 ELSE Abstract!Away
  BY <1>1 DEF Init, Wants, Word, NoSlot, IsSuspended, Slots, Abstract!Away
<1> QED  BY <1>2 DEF Init, Abstract!Init

(* What is mapped to a step that leaves every position alone.              *)
LEMMA Stutters ==
    ASSUME UNCHANGED <<read_gen, last_valid_gen>>, \A r \in Readers : Wants(r)' = Wants(r)
    PROVE  UNCHANGED Abstract!vars
<1>1. Position' = Position
  BY DEF Position
<1> QED  BY <1>1 DEF Abstract!vars, Position

LEMMA SameWants ==
    ASSUME UNCHANGED <<slot, rslot>> PROVE \A r \in Readers : Wants(r)' = Wants(r)
  BY DEF Wants, Word

LEMMA OnePosition ==
    ASSUME NEW r \in Readers, \A q \in Readers \ {r} : Wants(q)' = Wants(q)
    PROVE  Position' = [Position EXCEPT ![r] = Wants(r)']
  BY DEF Position

(* A reader's store into its slot moves its own position and no other.     *)
LEMMA StoreMovesPosition ==
    ASSUME ClaimsInv, NEW r \in Readers, rpc[r] # "none", NEW word, SetWord(r, word),
           UNCHANGED rslot
    PROVE  /\ Wants(r) = IF IsSuspended(Word(r)) THEN -1 ELSE Word(r).gen
           /\ Wants(r)' = IF IsSuspended(word) THEN -1 ELSE word.gen
           /\ \A q \in Readers \ {r} : Wants(q)' = Wants(q)
<1>1. rslot[r] \in Slots /\ rslot[r] # NoSlot /\ slot \in [Slots -> Words] /\ Owned
  BY DEF ClaimsInv, Claims, Owned, TypeInv, HasSlot, TypeOK, MapTypes
<1>2. slot'[rslot[r]] = word /\ \A s \in Slots \ {rslot[r]} : slot'[s] = slot[s]
  BY <1>1 DEF SetWord
<1>3. ASSUME NEW q \in Readers \ {r} PROVE Wants(q)' = Wants(q)
  <2>1. rslot[q] = NoSlot \/ rslot[q] \in Slots \ {rslot[r]}
    BY <1>1, <1>3, OneOwner DEF ClaimsInv, TypeInv, HasSlot, Owned
  <2> QED  BY <1>2, <2>1 DEF Wants, Word
<1> QED  BY <1>1, <1>2, <1>3 DEF Wants, Word

LEMMA EnterIsAbstract ==
    ASSUME BehindInv, NEW r \in Readers, EnterCas(r), WordCas(rslot[r], rword[r])
    PROVE  Abstract!Enter(r)
<1>1. /\ rpc[r] \in {"registering", "resuming"} /\ SetWord(r, Active(Entry(r)))
      /\ UNCHANGED <<rslot, read_gen, last_valid_gen>>
  BY DEF EnterCas, counters
<1>2. /\ read_gen \in Nat /\ last_valid_gen \in Nat /\ rword[r].gen \in Nat
      /\ rentry[r] \in Nat \cup {AsIs} /\ rslot[r] \in Slots
  BY <1>1 DEF BehindInv, ClaimsInv, TypeInv, HasSlot, TypeOK, CounterTypes, ReaderTypes, Words
<1>3. Word(r) = rword[r] /\ IsSuspended(Word(r)) /\ last_valid_gen <= rword[r].gen
  BY <1>1, <1>2 DEF WordCas, Word, BehindInv, ClaimsInv, Claims, WordFits, ClaimsHold
<1>4. rword[r].gen <= Entry(r)
  BY <1>1, <1>2 DEF Entry, BehindInv, ClaimsInv, Claims, WordFits, AsIs
<1>5. Entry(r) <= read_gen /\ Entry(r) \in Nat
  BY <1>2 DEF Entry, BehindInv, Behind, ReaderBehind, AsIs
<1>6. /\ Wants(r) = -1 /\ Wants(r)' = Entry(r)
      /\ \A q \in Readers \ {r} : Wants(q)' = Wants(q)
  BY <1>1, <1>3, StoreMovesPosition DEF BehindInv, Active, IsSuspended
<1>7. Position' = [Position EXCEPT ![r] = Entry(r)] /\ Position[r] = -1
  BY <1>6, OnePosition DEF Position
<1>8. Entry(r) \in last_valid_gen .. read_gen
  BY <1>2, <1>3, <1>4, <1>5
<1> QED  BY <1>1, <1>7, <1>8 DEF Abstract!Enter, Abstract!Away, Position

LEMMA SetGenIsAbstract ==
    ASSUME BehindInv, NEW r \in Readers, SetGenStore(r) PROVE Abstract!Hear(r)
<1>1. /\ rpc[r] = "advancing" /\ SetWord(r, Active(rend[r]))
      /\ UNCHANGED <<rslot, read_gen, last_valid_gen>>
  BY DEF SetGenStore, counters
<1>2. read_gen \in Nat /\ rword[r].gen \in Nat /\ rend[r] \in Nat
  BY DEF BehindInv, ClaimsInv, TypeInv, TypeOK, CounterTypes, ReaderTypes, Words
<1>3. Word(r) = rword[r] /\ ~IsSuspended(Word(r)) /\ rword[r].gen < rend[r]
  BY <1>1 DEF BehindInv, ClaimsInv, Claims, WordFits
<1>4. /\ Wants(r) = rword[r].gen /\ Wants(r)' = rend[r]
      /\ \A q \in Readers \ {r} : Wants(q)' = Wants(q)
  BY <1>1, <1>3, StoreMovesPosition DEF BehindInv, Active, IsSuspended
<1>5. Position' = [Position EXCEPT ![r] = rend[r]] /\ Position[r] = rword[r].gen
  BY <1>4, OnePosition DEF Position
<1>6. rend[r] \in rword[r].gen + 1 .. read_gen
  BY <1>2, <1>3 DEF BehindInv, Behind, ReaderBehind
<1>7. Position[r] # -1 /\ rend[r] \in Position[r] + 1 .. read_gen
  BY <1>2, <1>5, <1>6
<1> QED  BY <1>1, <1>5, <1>7 DEF Abstract!Hear, Abstract!Away, Position

LEMMA SuspendIsAbstract ==
    ASSUME BehindInv, NEW r \in Readers, SuspendStore(r) \/ UnregisterStore(r)
    PROVE  Abstract!Leave(r)
<1>1. /\ rpc[r] \in {"suspend", "leave"} /\ SetWord(r, Suspend(rword[r]))
      /\ UNCHANGED <<rslot, read_gen, last_valid_gen>>
  BY DEF SuspendStore, UnregisterStore, counters
<1>2. rword[r] \in Words
  BY DEF BehindInv, ClaimsInv, TypeInv, TypeOK, ReaderTypes
<1>3. Word(r) = rword[r] /\ ~IsSuspended(Word(r)) /\ IsSuspended(Suspend(rword[r]))
  BY <1>1, <1>2 DEF BehindInv, ClaimsInv, Claims, WordFits, Suspend, IsSuspended, Words
<1>4. /\ Wants(r) = rword[r].gen /\ Wants(r)' = -1
      /\ \A q \in Readers \ {r} : Wants(q)' = Wants(q)
  BY <1>1, <1>3, StoreMovesPosition DEF BehindInv
<1>5. Position' = [Position EXCEPT ![r] = -1] /\ Position[r] \in Nat
  BY <1>2, <1>4, OnePosition DEF Position, Words
<1> QED  BY <1>1, <1>5 DEF Abstract!Leave, Abstract!Away, Position

LEMMA PublishIsAbstract ==
    ASSUME CountersInv, NEW w \in Writers, Publish(w) PROVE Abstract!Publish
<1>1. /\ wpc[w] = "publish" /\ read_gen = wstart[w] /\ read_gen' = wend[w]
      /\ UNCHANGED <<last_valid_gen, slot, rslot>>
  BY DEF Publish, ReadGenCas, rvars
<1>2. /\ wstart[w] < wend[w] /\ wend[w] <= write_gen /\ Ordered
      /\ wstart[w] \in Nat /\ wend[w] \in Nat /\ CounterTypes /\ BufferCapacity \in Nat
  BY <1>1, CapacityAssumption
     DEF CountersInv, Counting, WriterFits, TypeInv, TypeOK, WriterTypes
<1> DEFINE n == wend[w] - read_gen
<1>3. n \in 1 .. BufferCapacity /\ read_gen + n <= last_valid_gen + BufferCapacity
      /\ read_gen' = read_gen + n
  BY <1>1, <1>2 DEF Ordered, CounterTypes
<1>4. Position' = Position
  BY <1>1, SameWants DEF Position
<1> QED  BY <1>1, <1>3, <1>4 DEF Abstract!Publish, Position

LEMMA ClaimIsAbstract ==
    ASSUME CountersInv, ClaimsInv, NEW c \in Cleaners, CleanupClaim(c), LastValidCas(c)
    PROVE  Abstract!Drop
<1>1. /\ cpc[c] = "claim" /\ last_valid_gen < cmin[c] /\ last_valid_gen' = cmin[c]
      /\ UNCHANGED <<read_gen, slot, rslot>>
  <2>1. cmin[c] \in Nat /\ clast[c] \in Nat
    BY DEF CountersInv, TypeInv, TypeOK, CleanerTypes
  <2> QED  BY <2>1 DEF CleanupClaim, LastValidCas, rvars
<1>2. cmin[c] \in last_valid_gen + 1 .. read_gen
  <2>1. cmin[c] <= read_gen
    BY <1>1 DEF CountersInv, Counting, CleanerFits
  <2>2. cmin[c] \in Nat /\ read_gen \in Nat /\ last_valid_gen \in Nat
    BY DEF CountersInv, TypeInv, TypeOK, CounterTypes, CleanerTypes
  <2> QED  BY <1>1, <2>1, <2>2
<1>3. \A s \in Slots : cmin[c] <= slot[s].gen
  BY <1>1, SlotsAssumption DEF ClaimsInv, Claims, ScanFits, Slots
<1>4. \A r \in Readers : Wants(r) # -1 => cmin[c] <= Wants(r)
  BY <1>3 DEF ClaimsInv, TypeInv, HasSlot, Claims, Owned, Wants, Word
<1>5. Position' = Position
  BY <1>1, SameWants DEF Position
<1> QED  BY <1>1, <1>2, <1>4, <1>5 DEF Abstract!Drop, Abstract!Away, Position

(* What else readers do: register and leave with a suspended word, load.   *)
LEMMA ReaderStutters ==
    ASSUME ClaimsInv, NEW r \in Readers, ReaderCall(r) \/ ReaderStep(r),
           ~(SuspendStore(r) \/ UnregisterStore(r) \/ SetGenStore(r)),
           ~(EnterCas(r) /\ WordCas(rslot[r], rword[r]))
    PROVE  UNCHANGED Abstract!vars
<1>0. /\ UNCHANGED <<read_gen, last_valid_gen>> /\ Owned
      /\ rslot \in [Readers -> Slots \cup {NoSlot}]
  BY ReaderLeavesCounters DEF counters, ClaimsInv, Claims, TypeInv, TypeOK, ReaderTypes
<1>1. ASSUME NEW s \in Slots, Register(r, s)
      PROVE  \A q \in Readers : Wants(q)' = Wants(q)
  <2>1. rslot' = [rslot EXCEPT ![r] = s] /\ slot' = slot /\ rslot[r] = NoSlot
        /\ IsSuspended(slot[s])
    BY <1>0, <1>1 DEF Register, Owned
  <2> QED  BY <1>0, <2>1 DEF Wants, Word
<1>2. ASSUME UnregisterRemove(r)
      PROVE  \A q \in Readers : Wants(q)' = Wants(q)
  <2>1. rslot' = [rslot EXCEPT ![r] = NoSlot] /\ slot' = slot /\ IsSuspended(Word(r))
    BY <1>0, <1>2 DEF UnregisterRemove, ClaimsInv, Claims, WordFits
  <2> QED  BY <1>0, <2>1 DEF Wants, Word
<1>3. ASSUME ~(\E s \in Slots : Register(r, s)), ~UnregisterRemove(r)
      PROVE  UNCHANGED <<slot, rslot>>
  BY <1>3 DEF ReaderCall, ReaderStep, RegisterLoad, Resume, ResumeLoad, EnterCas, SuspendLoad,
     ReadStart, ReadEnd, ReadEndAtMost, DropDisarmed, DropArmed, SetGenLoad, Unregister
<1> QED  BY <1>0, <1>1, <1>2, <1>3, SameWants, Stutters

(* What else cleaners do: scan, and move words that stay suspended.        *)
LEMMA CleanerStutters ==
    ASSUME ClaimsInv, NEW c \in Cleaners,
           CleanupLoadLast(c) \/ CleanerStep(c) \/ DropPanics(c),
           ~(CleanupClaim(c) /\ LastValidCas(c))
    PROVE  UNCHANGED Abstract!vars
<1>1. UNCHANGED <<read_gen, last_valid_gen, rslot>>
  BY DEF CleanupLoadLast, CleanerStep, CleanupLoadRead, ScanSlot, ForceForward, CleanupTooLate,
         CleanupClaim, DropMessage, CleanupFree, DropPanics, counters, rvars
<1>2. CASE ForceForward(c) /\ WordCas(cidx[c], cword[c])
  <2>1. /\ cidx[c] \in Slots /\ slot \in [Slots -> Words]
        /\ slot' = [slot EXCEPT ![cidx[c]] = Suspend(Active(cmin[c]))]
        /\ IsSuspended(slot[cidx[c]])
    BY <1>2 DEF ForceForward, WordCas, ClaimsInv, Claims, ScanFits, TypeInv, ScansASlot,
                TypeOK, MapTypes
  <2>2. IsSuspended(Suspend(Active(cmin[c])))
    BY DEF IsSuspended, Suspend, Active
  <2>3. \A s \in Slots : \/ slot'[s] = slot[s]
                         \/ IsSuspended(slot[s]) /\ IsSuspended(slot'[s])
    BY <2>1, <2>2
  <2>4. \A r \in Readers : rslot[r] = NoSlot \/ rslot[r] \in Slots
    BY DEF ClaimsInv, TypeInv, TypeOK, ReaderTypes
  <2>5. \A r \in Readers : Wants(r)' = Wants(r)
    BY <1>1, <2>3, <2>4 DEF Wants, Word
  <2> QED  BY <1>1, <2>5, Stutters
<1>3. CASE ~(ForceForward(c) /\ WordCas(cidx[c], cword[c]))
  <2>1. slot' = slot
    BY <1>3 DEF CleanupLoadLast, CleanerStep, CleanupLoadRead, ScanSlot, ForceForward,
                CleanupTooLate, CleanupClaim, DropMessage, CleanupFree, DropPanics
  <2> QED  BY <1>1, <2>1, SameWants, Stutters
<1> QED  BY <1>2, <1>3

LEMMA WriterStutters ==
    ASSUME NEW w \in Writers, ReserveLoadFree(w) \/ WriterStep(w) \/ Abandon(w), ~Publish(w)
    PROVE  UNCHANGED Abstract!vars
<1>1. UNCHANGED <<read_gen, last_valid_gen, slot, rslot>>
  BY DEF ReserveLoadFree, WriterStep, ReserveExactly, ReserveBestEffort, Grab, Fill, Abandon,
         counters, rvars
<1> QED  BY <1>1, SameWants, Stutters

LEMMA StepIsAbstract ==
    ASSUME BehindInv, [FaultNext]_vars PROVE [Abstract!Next]_(Abstract!vars)
<1>0. CountersInv /\ ClaimsInv
  BY DEF BehindInv, CellsInv
<1>1. ASSUME NEW w \in Writers, ReserveLoadFree(w) \/ WriterStep(w) \/ Abandon(w)
      PROVE  [Abstract!Next]_(Abstract!vars)
  BY <1>0, <1>1, PublishIsAbstract, WriterStutters DEF Abstract!Next
<1>2. ASSUME NEW r \in Readers, ReaderCall(r) \/ ReaderStep(r)
      PROVE  [Abstract!Next]_(Abstract!vars)
  BY <1>0, <1>2, EnterIsAbstract, SetGenIsAbstract, SuspendIsAbstract, ReaderStutters
     DEF Abstract!Next
<1>3. ASSUME NEW c \in Cleaners, CleanupLoadLast(c) \/ CleanerStep(c) \/ DropPanics(c)
      PROVE  [Abstract!Next]_(Abstract!vars)
  BY <1>0, <1>3, ClaimIsAbstract, CleanerStutters DEF Abstract!Next
<1>4. ASSUME UNCHANGED vars PROVE UNCHANGED Abstract!vars
  <2>1. UNCHANGED <<read_gen, last_valid_gen, slot, rslot>>
    BY <1>4 DEF vars, counters, rvars
  <2> QED  BY <2>1, SameWants, Stutters
<1> QED  BY <1>1, <1>2, <1>3, <1>4 DEF FaultNext, Next, FaultStep

(* The lock-free code is a Broadcast: every interleaving of its loads,     *)
(* stores and CASes, calls that fail halfway among them, publishes, lets   *)
(* readers in and out, and drops as one atomic stream would.               *)
THEOREM AreaImplementsBroadcast == ASSUME ResumeAhead = 0 PROVE FaultSpec => ImplementsBroadcast
<1>1. BehindInv /\ [Next \/ FaultStep]_vars => [Abstract!Next]_(Abstract!vars)
  BY StepIsAbstract DEF FaultNext
<1> QED
  BY <1>1, InitIsAbstract, BehindInvHolds, PTL DEF FaultSpec, ImplementsBroadcast, Abstract!Spec

(* So the single guarantee of ALG.md holds of the code: a message that a   *)
(* reader which is there still wants is in the buffer's range.             *)
THEOREM NothingWantedIsEverGone ==
    ASSUME ResumeAhead = 0 PROVE FaultSpec => []Abstract!NothingWantedIsGone
<1>1. ASSUME BehindInv PROVE Abstract!NothingWantedIsGone
  <2>1. /\ read_gen \in Nat /\ last_valid_gen \in Nat /\ free_gen \in Nat /\ write_gen \in Nat
        /\ BufferCapacity \in Nat /\ slot \in [Slots -> Words] /\ Ordered
    BY <1>1, CapacityAssumption
       DEF BehindInv, CellsInv, CountersInv, Counting, TypeInv, TypeOK, CounterTypes, MapTypes
  <2>2. last_valid_gen <= read_gen /\ read_gen <= last_valid_gen + BufferCapacity
    BY <2>1 DEF Ordered
  <2>3. \A s \in Slots : /\ slot[s].gen \in Nat
                         /\ last_valid_gen <= slot[s].gen /\ slot[s].gen <= read_gen
    BY <1>1, <2>1 DEF BehindInv, ClaimsInv, Claims, ClaimsHold, Behind, NobodyAhead, Words
  <2>4. \A r \in Readers : rslot[r] = NoSlot \/ rslot[r] \in Slots
    BY <1>1 DEF BehindInv, ClaimsInv, TypeInv, TypeOK, ReaderTypes
  <2>5. ASSUME NEW r \in Readers
        PROVE  \/ Wants(r) = -1
               \/ Wants(r) \in Nat /\ last_valid_gen <= Wants(r) /\ Wants(r) <= read_gen
    BY <2>3, <2>4 DEF Wants, Word
  <2> QED
    BY <2>1, <2>2, <2>5 DEF Abstract!NothingWantedIsGone, Abstract!Away
<1> QED  BY <1>1, BehindInvHolds, PTL
=============================================================================

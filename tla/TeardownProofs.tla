--------------------------- MODULE TeardownProofs ---------------------------
(***************************************************************************)
(* Proofs that the last handles of an area free it once, when nobody else  *)
(* is left, for any number of handles and slots, provided that no reader   *)
(* is created while another one scans the map (CreateDuringDrop = FALSE).  *)
(*                                                                         *)
(* The inductive invariant says what each counter counts, who may still be *)
(* there beside a handle that competes for its side's stage (WriterSide,   *)
(* ReaderSide), which sides are yet to give up theirs (Stages), what is    *)
(* left of the area while it is freed (Ends), and what a reader that was   *)
(* told of the end of the writers has heard (Told).                        *)
(***************************************************************************)
EXTENDS Teardown, FiniteSetTheorems, TLAPS

-----------------------------------------------------------------------------
(* Sets that grow or shrink by one.                                        *)
LEMMA CountIn ==
    ASSUME NEW S, NEW T, NEW x, IsFiniteSet(S), x \notin S, T = S \cup {x}
    PROVE  Cardinality(T) = Cardinality(S) + 1
  BY FS_AddElement

LEMMA CountOut ==
    ASSUME NEW S, NEW T, NEW x, IsFiniteSet(S), x \in S, T = S \ {x}
    PROVE  Cardinality(T) = Cardinality(S) - 1
  BY FS_RemoveElement

LEMMA CountSome ==
    ASSUME NEW S, NEW x, IsFiniteSet(S), x \in S
    PROVE  /\ Cardinality(S) \in Nat \ {0}
           /\ Cardinality(S) = 1 => S = {x}
           /\ Cardinality(S) # 1 => \E y \in S : y # x
<1>1. Cardinality(S) \in Nat /\ (Cardinality(S) = 0 <=> S = {})
  BY FS_CardinalityType, FS_EmptySet
<1>2. Cardinality(S) = 1 <=> \E y : S = {y}
  BY FS_Singleton
<1> QED  BY <1>1, <1>2

LEMMA FreeingStates ==
    /\ Freeing = {"destroy_stages", "keep_alloc", "stage_tickets", "buffer", "inner"}
    /\ AfterFree["destroy_stages"] = "keep_alloc" /\ AfterFree["keep_alloc"] = "stage_tickets"
    /\ AfterFree["stage_tickets"] = "buffer" /\ AfterFree["buffer"] = "inner"
    /\ AfterFree["inner"] = "none"
  BY DEF Freeing, AfterFree

-----------------------------------------------------------------------------
(* The types of the variables that are not counters.                       *)
Types ==
    /\ key \in [Slots -> Readers \cup {Empty}]
    /\ messages \in 0 .. MaxMessages /\ from_writers \in 0 .. MaxMessages
    /\ cleaned \in 0 .. messages /\ stuck \in BOOLEAN
    /\ boxed \in Layouts /\ freed \in [Parts -> Nat]
    /\ wpc \in [Writers -> WriterStates]
    /\ rpc \in [Readers -> ReaderStates]
    /\ ridx \in [Readers -> 0 .. NSlots]
    /\ found \in [Readers -> BOOLEAN]
    /\ heard \in [Readers -> 0 .. MaxMessages]
    /\ told \in [Readers -> BOOLEAN]

(* A writer past its count is the only one, and no other can come.         *)
LiveWriters == {w \in Writers : wpc[w] = "live"}

WriterSide ==
    /\ writers_count = Cardinality(LiveWriters)
    /\ \A w \in Writers : wpc[w] \notin {"none", "live"} =>
          \A v \in Writers \ {w} : wpc[v] = "none"

(* The readers that hold a ticket to keep the area allocated, and those    *)
(* that hold one for their side's stage.                                   *)
Polling == {"live", "count", "again"}
Keyed   == Polling \cup {"unregister"}
Ending  == {"cleanup"} \cup Freeing

Keeping   == {r \in Readers : rpc[r] \in {"unregister", "scan", "ticket", "release"}}
Competing == {r \in Readers : \/ rpc[r] \in {"wait", "elect"}
                              \/ rpc[r] = "release" /\ ~found[r]}

(* A reader that will not leave before others do, or leaves as the last.   *)
Stays(r) == \/ rpc[r] \in Keyed \cup {"scan", "ticket", "wait", "elect"}
            \/ rpc[r] = "release" /\ ~found[r]

(* Those that have their key in the map, and what a scan has seen of it.   *)
KeysFit == \A r \in Readers : rpc[r] \in Keyed <=> \E s \in Slots : key[s] = r

ScanFits(r) ==
    /\ rpc[r] = "scan" => /\ ridx[r] < NSlots
                          /\ \A s \in Slots : s < ridx[r] => key[s] = Empty
    /\ found[r] => rpc[r] = "release"

(* A reader whose scan found another leaves the area to those who stay,    *)
(* one that was elected is the only one.                                   *)
SomebodyStays == \A r \in Readers : found[r] => \E q \in Readers : Stays(q)

LastReaderAlone ==
    \A r \in Readers :
        /\ rpc[r] = "elect" => Keeping = {}
        /\ rpc[r] \in {"stage"} \cup Ending => \A q \in Readers \ {r} : rpc[q] = "none"

ReaderSide ==
    /\ keep_alloc = Cardinality(Keeping)
    /\ stage_tickets = Cardinality(Competing)
    /\ KeysFit /\ (\A r \in Readers : ScanFits(r))
    /\ FoundNobodyMeansNobody /\ SomebodyStays /\ LastReaderAlone

(* The sides that still have to take their stage.                          *)
WritersIn == \E w \in Writers : wpc[w] \in {"live", "stage"}
ReadersIn == \E r \in Readers : rpc[r] \notin {"none"} \cup Ending
OneIf(b)  == IF b THEN 1 ELSE 0

Stages == destroy_stages = OneIf(WritersIn) + OneIf(ReadersIn)

(* The parts that a handle which frees the area has yet to free.           *)
StillThere ==
    [cleanup        |-> Parts,
     destroy_stages |-> Parts,
     keep_alloc     |-> Parts \ {"destroy_stages"},
     stage_tickets  |-> {"stage_tickets", "buffer", "inner", "map"},
     buffer         |-> {"buffer", "inner", "map"},
     inner          |-> {"inner", "map"}]

(* The area is taken down after both stages, by one handle, part by part,  *)
(* its messages first.                                                     *)
WriterEnds == \E w \in Writers : wpc[w] \in Ending
ReaderEnds == \E r \in Readers : rpc[r] \in Ending

Ends ==
    /\ WriterEnds \/ ReaderEnds \/ Begun => destroy_stages = 0
    /\ ~(WriterEnds /\ ReaderEnds)
    /\ \A p \in Parts : freed[p] <= 1
    /\ \A w \in Writers : wpc[w] \in Ending => \A p \in StillThere[wpc[w]] : freed[p] = 0
    /\ \A r \in Readers : rpc[r] \in Ending => \A p \in StillThere[rpc[r]] : freed[p] = 0
    /\ \/ Begun \/ \E w \in Writers : wpc[w] \in Freeing
       \/ \E r \in Readers : rpc[r] \in Freeing
       => cleaned = messages /\ \A s \in Slots : key[s] = Empty

(* A reader looks again, or was told, only after the last writer left.     *)
Told ==
    /\ \A r \in Readers : told[r] => rpc[r] \in Polling
    /\ \A r \in Readers : told[r] \/ rpc[r] = "again" => writers_count = 0
    /\ ReadersIn => from_writers <= messages
    /\ ToldHeardAll

TeardownInv == Types /\ WriterSide /\ ReaderSide /\ Stages /\ Ends /\ Told

-----------------------------------------------------------------------------
LEMMA FiniteSides ==
    /\ IsFiniteSet(LiveWriters) /\ IsFiniteSet(Keeping) /\ IsFiniteSet(Competing)
    /\ Cardinality(LiveWriters) \in 0 .. Cardinality(Writers)
    /\ Cardinality(Keeping) \in 0 .. Cardinality(Readers)
    /\ Cardinality(Competing) \in 0 .. Cardinality(Readers)
<1>1. IsFiniteSet(Writers) /\ IsFiniteSet(Readers)
  BY HandlesAssumption
<1>2. LiveWriters \in SUBSET Writers /\ Keeping \in SUBSET Readers /\ Competing \in SUBSET Readers
  BY DEF LiveWriters, Keeping, Competing
<1>3. /\ IsFiniteSet(LiveWriters) /\ Cardinality(LiveWriters) <= Cardinality(Writers)
      /\ IsFiniteSet(Keeping) /\ Cardinality(Keeping) <= Cardinality(Readers)
      /\ IsFiniteSet(Competing) /\ Cardinality(Competing) <= Cardinality(Readers)
  BY <1>1, <1>2, FS_Subset
<1>4. /\ Cardinality(LiveWriters) \in Nat /\ Cardinality(Keeping) \in Nat
      /\ Cardinality(Competing) \in Nat
      /\ Cardinality(Writers) \in Nat /\ Cardinality(Readers) \in Nat
  BY <1>1, <1>3, FS_CardinalityType
<1> QED  BY <1>3, <1>4

(* The counters' types follow from what they count.                        *)
LEMMA InvTypes == TeardownInv => TypeOK
<1> SUFFICES ASSUME TeardownInv PROVE TypeOK
  OBVIOUS
<1>1. destroy_stages \in 0 .. 2
  BY DEF TeardownInv, Stages, OneIf
<1> QED
  BY <1>1, FiniteSides DEF TeardownInv, Types, WriterSide, ReaderSide, TypeOK

-----------------------------------------------------------------------------
LEMMA InitTypes == Init => Types
<1> SUFFICES ASSUME Init PROVE Types
  OBVIOUS
<1>1. stuck \in BOOLEAN
  BY Zenon DEF Init
<1>2. 0 \in 0 .. MaxMessages /\ 0 \in 0 .. 0 /\ 0 \in 0 .. NSlots
  BY SlotsAssumption, MessagesAssumption
<1> QED
  BY <1>1, <1>2, HandlesAssumption, FreeingStates
     DEF Init, Types, WriterStates, ReaderStates, Slots

LEMMA InitSides == Init => WriterSide /\ ReaderSide /\ Stages
<1> SUFFICES ASSUME Init PROVE WriterSide /\ ReaderSide /\ Stages
  OBVIOUS
<1>0. /\ FirstWriter \in Writers /\ FirstReader \in Readers /\ Empty \notin Readers
      /\ 1 % NSlots \in Slots
      /\ \A w \in Writers : wpc[w] = IF w = FirstWriter THEN "live" ELSE "none"
      /\ \A r \in Readers : /\ rpc[r] = IF r = FirstReader THEN "live" ELSE "none"
                            /\ ~found[r]
      /\ \A s \in Slots : key[s] = IF s = 1 % NSlots THEN FirstReader ELSE Empty
  BY HandlesAssumption, EmptyAssumption, SlotsAssumption DEF Init, Slots
<1>1. LiveWriters = {FirstWriter} /\ Keeping = {} /\ Competing = {}
  BY <1>0 DEF LiveWriters, Keeping, Competing
<1>2. Cardinality(LiveWriters) = 1 /\ Cardinality(Keeping) = 0 /\ Cardinality(Competing) = 0
  BY <1>1, FS_EmptySet, FS_Singleton
<1>3. WriterSide
  BY <1>0, <1>2 DEF Init, WriterSide
<1>4. KeysFit
  BY <1>0 DEF KeysFit, Keyed, Polling
<1>5. ReaderSide
  BY <1>0, <1>2, <1>4, FreeingStates
     DEF Init, ReaderSide, ScanFits, FoundNobodyMeansNobody, Competes, SomebodyStays,
         LastReaderAlone, Ending
<1>6. WritersIn /\ ReadersIn
  BY <1>0, FreeingStates DEF WritersIn, ReadersIn, Ending
<1>7. Stages
  BY <1>6 DEF Init, Stages, OneIf
<1> QED  BY <1>3, <1>5, <1>7

LEMMA InitEnds == Init => Ends /\ Told
  BY FreeingStates, MessagesAssumption
     DEF Init, Ends, WriterEnds, ReaderEnds, Begun, Ending, Told, ToldHeardAll

(* A step of a handle is one of these, and leaves the other side as it is. *)
WriterMoves(w) ==
    Publish(w) \/ CreateWriter(w) \/ DropWriter(w) \/ WriterStep(w)

ReaderMoves(r) ==
    \/ \E s \in Slots, n \in 0 .. MaxMessages : CreateReader(r, s, n)
    \/ PublishAsReader(r) \/ PollRead(r) \/ DropReader(r) \/ ReaderStep(r)

LEMMA WriterLeavesReaders ==
    ASSUME NEW w \in Writers, WriterMoves(w)
    PROVE  UNCHANGED <<keep_alloc, stage_tickets, key, rpc, ridx, found, reading>>
  BY DEF WriterMoves, Publish, CreateWriter, DropWriter, WriterStep, WriterStage, WriterCleans,
         WriterFrees, counters

LEMMA ReaderLeavesWriters ==
    ASSUME NEW r \in Readers, ReaderMoves(r) PROVE UNCHANGED <<writers_count, wpc>>
  BY DEF ReaderMoves, CreateReader, PublishAsReader, PollRead, DropReader, ReaderStep,
         Unregister, ScanSlot, TakeStageTicket, Release, Wait, Elect, ReaderStage,
         ReaderCleans, ReaderFrees, PollCount, PollAgain, counters

-----------------------------------------------------------------------------
(* Types.                                                                  *)
LEMMA DeallocateType ==
    ASSUME Types, NEW p, Deallocate(p)
    PROVE  /\ freed' \in [Parts -> Nat]
           /\ UNCHANGED <<messages, from_writers, cleaned, stuck, boxed>>
  BY DEF Types, Deallocate, drops

(* The last cleanup takes what there is, as far as it may.                 *)
LEMMA FinalType ==
    ASSUME Types, FinalCleanup \/ FinalPanic
    PROVE  /\ cleaned' \in 0 .. messages /\ stuck' \in BOOLEAN
           /\ UNCHANGED <<messages, from_writers, boxed, freed>>
  BY DEF Types, FinalCleanup, FinalPanic

LEMMA WriterKeepsTypes ==
    ASSUME Types, NEW w \in Writers, WriterMoves(w) PROVE Types'
<1>1. UNCHANGED <<key, rpc, ridx, found, heard, told>>
  BY WriterLeavesReaders DEF reading
<1>2. wpc' \in [Writers -> WriterStates]
  BY FreeingStates
     DEF Types, WriterMoves, WriterStates, Publish, CreateWriter, DropWriter, WriterStep,
         WriterStage, WriterCleans, WriterFrees
<1>3. /\ messages' \in 0 .. MaxMessages /\ from_writers' \in 0 .. MaxMessages
      /\ cleaned' \in 0 .. messages' /\ stuck' \in BOOLEAN
      /\ boxed' \in Layouts /\ freed' \in [Parts -> Nat]
  <2>1. CASE WriterFrees(w)
    BY <2>1, DeallocateType DEF WriterFrees, Types
  <2>2. CASE WriterCleans(w)
    BY <2>2, FinalType DEF WriterCleans, Types
  <2>3. CASE ~WriterFrees(w) /\ ~WriterCleans(w)
    BY <2>3, MessagesAssumption
       DEF Types, WriterMoves, Publish, CreateWriter, DropWriter, WriterStep, WriterStage,
           store, drops
  <2> QED  BY <2>1, <2>2, <2>3
<1> QED  BY <1>1, <1>2, <1>3 DEF Types

LEMMA ReaderKeepsTypes ==
    ASSUME Types, ReaderSide, NEW r \in Readers, ReaderMoves(r) PROVE Types'
<1>0. UNCHANGED wpc
  BY ReaderLeavesWriters
<1>1. rpc' \in [Readers -> ReaderStates]
  BY FreeingStates
     DEF Types, ReaderMoves, ReaderStates, CreateReader, PublishAsReader, PollRead, HearAll,
         DropReader, ReaderStep, Unregister, ScanSlot, TakeStageTicket, Release, Wait, Elect,
         ReaderStage, ReaderCleans, ReaderFrees, PollCount, PollAgain
<1>2. ridx' \in [Readers -> 0 .. NSlots]
  <2>1. CASE ScanSlot(r)
    <3>1. ridx[r] < NSlots
      BY <2>1 DEF ScanSlot, ReaderSide, ScanFits
    <3> QED  BY <2>1, <3>1, SlotsAssumption DEF ScanSlot, Types
  <2>2. CASE ~ScanSlot(r)
    BY <2>2, SlotsAssumption
       DEF Types, ReaderMoves, CreateReader, PublishAsReader, PollRead, DropReader, ReaderStep,
           Unregister, TakeStageTicket, Release, Wait, Elect, ReaderStage, ReaderCleans,
           ReaderFrees, PollCount, PollAgain
  <2> QED  BY <2>1, <2>2
<1>3. /\ found' \in [Readers -> BOOLEAN] /\ key' \in [Slots -> Readers \cup {Empty}]
  <2>1. key \in [Slots -> Readers \cup {Empty}] /\ found \in [Readers -> BOOLEAN]
    BY DEF Types
  <2>2. CASE Unregister(r)
    BY <2>1, <2>2 DEF Unregister
  <2>3. CASE ~Unregister(r)
    <3>1. \/ found' = found \/ found' = [found EXCEPT ![r] = TRUE]
          \/ found' = [found EXCEPT ![r] = FALSE]
      BY <2>3 DEF ReaderMoves, CreateReader, PublishAsReader, PollRead, DropReader, ReaderStep,
         ScanSlot, TakeStageTicket, Release, Wait, Elect, ReaderStage, ReaderCleans, ReaderFrees,
         PollCount, PollAgain
    <3>2. key' = key \/ \E s \in Slots : key' = [key EXCEPT ![s] = r]
      BY <2>3 DEF ReaderMoves, CreateReader, PublishAsReader, PollRead, DropReader, ReaderStep,
         ScanSlot, TakeStageTicket, Release, Wait, Elect, ReaderStage, ReaderCleans, ReaderFrees,
         PollCount, PollAgain
    <3> QED  BY <2>1, <3>1, <3>2
  <2> QED  BY <2>2, <2>3
<1>4. /\ heard' \in [Readers -> 0 .. MaxMessages] /\ told' \in [Readers -> BOOLEAN]
  <2>1. \/ heard' = heard
        \/ \E n \in 0 .. MaxMessages : heard' = [heard EXCEPT ![r] = n]
    <3>1. messages \in 0 .. MaxMessages /\ 0 \in 0 .. MaxMessages
      BY MessagesAssumption DEF Types
    <3> QED
      BY <3>1
         DEF ReaderMoves, CreateReader, PublishAsReader, PollRead, HearAll, DropReader,
             ReaderStep, Unregister, ScanSlot, TakeStageTicket, Release, Wait, Elect,
             ReaderStage, ReaderCleans, ReaderFrees, PollCount, PollAgain, reading
  <2>2. told' = told \/ \E b \in BOOLEAN : told' = [told EXCEPT ![r] = b]
    BY DEF ReaderMoves, CreateReader, PublishAsReader, PollRead, HearAll, DropReader, ReaderStep,
           Unregister, ScanSlot, TakeStageTicket, Release, Wait, Elect, ReaderStage,
           ReaderCleans, ReaderFrees, PollCount, PollAgain, reading
  <2> QED  BY <2>1, <2>2 DEF Types
<1>5. /\ messages' \in 0 .. MaxMessages /\ from_writers' \in 0 .. MaxMessages
      /\ cleaned' \in 0 .. messages' /\ stuck' \in BOOLEAN
      /\ boxed' \in Layouts /\ freed' \in [Parts -> Nat]
  <2>1. CASE ReaderFrees(r)
    BY <2>1, DeallocateType DEF ReaderFrees, Types
  <2>2. CASE ReaderCleans(r)
    BY <2>2, FinalType DEF ReaderCleans, Types
  <2>3. CASE PublishAsReader(r)
    BY <2>3, MessagesAssumption DEF PublishAsReader, Types, drops
  <2>4. CASE ~ReaderFrees(r) /\ ~ReaderCleans(r) /\ ~PublishAsReader(r)
    <3>1. UNCHANGED store
      BY <2>4
         DEF ReaderMoves, CreateReader, PollRead, DropReader, ReaderStep, Unregister, ScanSlot,
             TakeStageTicket, Release, Wait, Elect, ReaderStage, PollCount, PollAgain
    <3> QED  BY <3>1 DEF Types, store, drops
  <2> QED  BY <2>1, <2>2, <2>3, <2>4
<1> QED  BY <1>0, <1>1, <1>2, <1>3, <1>4, <1>5 DEF Types

-----------------------------------------------------------------------------
(* The writers' side.                                                      *)
LEMMA WriterKeepsWriterSide ==
    ASSUME Types, WriterSide, NEW w \in Writers, WriterMoves(w) PROVE WriterSide'
<1>0. wpc \in [Writers -> WriterStates] /\ IsFiniteSet(LiveWriters)
  BY FiniteSides DEF Types
<1>1. ASSUME UNCHANGED <<wpc, writers_count>> PROVE WriterSide'
  BY <1>1 DEF WriterSide, LiveWriters
<1>2. ASSUME Publish(w) PROVE WriterSide'
  BY <1>1, <1>2 DEF Publish, counters
<1>3. ASSUME CreateWriter(w) PROVE WriterSide'
  <2>1. LiveWriters' = LiveWriters \cup {w} /\ w \notin LiveWriters
    BY <1>0, <1>3 DEF CreateWriter, LiveWriters
  <2>2. Cardinality(LiveWriters') = Cardinality(LiveWriters) + 1
    BY <1>0, <2>1, CountIn
  <2>3. \A v \in Writers : wpc[v] \in {"none", "live"}
    <3>1. PICK parent \in Writers : wpc[parent] = "live"
      BY <1>3 DEF CreateWriter
    <3> QED  BY <3>1 DEF WriterSide
  <2> QED  BY <1>0, <1>3, <2>2, <2>3 DEF CreateWriter, WriterSide
<1>4. ASSUME DropWriter(w) PROVE WriterSide'
  <2>0. w \in LiveWriters
    BY <1>4 DEF DropWriter, LiveWriters
  <2>1. LiveWriters' = LiveWriters \ {w}
    BY <1>0, <1>4 DEF DropWriter, LiveWriters
  <2>2. Cardinality(LiveWriters') = Cardinality(LiveWriters) - 1
    BY <1>0, <2>0, <2>1, CountOut
  <2>3. \A v \in Writers : wpc[v] \in {"none", "live"}
    BY <1>4 DEF DropWriter, WriterSide
  <2>4. CASE writers_count = 1
    <3>1. LiveWriters = {w}
      BY <1>0, <2>0, <2>4, CountSome DEF WriterSide
    <3>2. \A v \in Writers \ {w} : wpc[v] = "none"
      BY <2>3, <3>1 DEF LiveWriters
    <3> QED  BY <1>0, <1>4, <2>2, <2>3, <3>2 DEF DropWriter, WriterSide
  <2>5. CASE writers_count # 1
    BY <1>0, <1>4, <2>2, <2>3, <2>5 DEF DropWriter, WasLast, WriterSide
  <2> QED  BY <2>4, <2>5
<1>5. ASSUME WriterStep(w) PROVE WriterSide'
  <2>1. /\ wpc[w] \notin {"none", "live"} /\ UNCHANGED writers_count
        /\ wpc'[w] # "live" /\ \A v \in Writers \ {w} : wpc'[v] = wpc[v]
    BY <1>0, <1>5, FreeingStates
       DEF WriterStep, WriterStage, WriterCleans, WriterFrees, counters
  <2>2. LiveWriters' = LiveWriters
    BY <2>1 DEF LiveWriters
  <2> QED  BY <2>1, <2>2 DEF WriterSide
<1> QED  BY <1>2, <1>3, <1>4, <1>5 DEF WriterMoves

-----------------------------------------------------------------------------
(* The readers' side.                                                      *)
OthersStay(r) ==
    \A q \in Readers \ {r} : rpc'[q] = rpc[q] /\ ridx'[q] = ridx[q] /\ found'[q] = found[q]

LEMMA ReaderTypes ==
    ASSUME Types
    PROVE  /\ key \in [Slots -> Readers \cup {Empty}] /\ rpc \in [Readers -> ReaderStates]
           /\ ridx \in [Readers -> 0 .. NSlots] /\ found \in [Readers -> BOOLEAN]
           /\ IsFiniteSet(Keeping) /\ IsFiniteSet(Competing) /\ Empty \notin Readers
  BY FiniteSides, EmptyAssumption DEF Types

LEMMA StillReaderSide ==
    ASSUME ReaderSide, UNCHANGED <<rpc, ridx, found, key, keep_alloc, stage_tickets>>
    PROVE  ReaderSide'
<1>1. Keeping' = Keeping /\ Competing' = Competing
  BY DEF Keeping, Competing
<1> QED
  BY <1>1 DEF ReaderSide, KeysFit, ScanFits, FoundNobodyMeansNobody, Competes, SomebodyStays,
              Stays, LastReaderAlone

(* While some reader has its key in the map, no other competes.            *)
LEMMA KeyedMeansNobodyCompetes ==
    ASSUME Types, ReaderSide, NEW o \in Readers, rpc[o] \in Keyed
    PROVE  \A q \in Readers : ~Competes(q)
  BY ReaderTypes DEF ReaderSide, KeysFit, FoundNobodyMeansNobody

LEMMA PollKeepsSide ==
    ASSUME Types, ReaderSide, NEW r \in Readers, PollRead(r) \/ PollCount(r) \/ PollAgain(r)
    PROVE  ReaderSide'
<1>1. /\ rpc[r] \in Polling /\ rpc'[r] \in Polling /\ OthersStay(r)
      /\ UNCHANGED <<ridx, found, key, keep_alloc, stage_tickets>>
  BY ReaderTypes DEF PollRead, PollCount, PollAgain, HearAll, Polling, OthersStay, counters
<1>2. Keeping' = Keeping /\ Competing' = Competing
  BY <1>1 DEF Keeping, Competing, OthersStay, Polling
<1>3. KeysFit'
  BY <1>1 DEF ReaderSide, KeysFit, Keyed, OthersStay
<1>4. \A q \in Readers : ScanFits(q)' /\ (Stays(q) => Stays(q)')
  BY <1>1 DEF ReaderSide, ScanFits, OthersStay, Polling, Stays, Keyed
<1>5. FoundNobodyMeansNobody'
  BY <1>1, FreeingStates DEF ReaderSide, FoundNobodyMeansNobody, Competes, OthersStay, Polling
<1>6. LastReaderAlone'
  <2>1. rpc[r] # "none" /\ rpc'[r] \notin {"elect", "stage"} \cup Ending
    BY <1>1, FreeingStates DEF Polling, Ending
  <2> QED  BY <1>1, <1>2, <2>1 DEF ReaderSide, LastReaderAlone, OthersStay
<1> QED  BY <1>1, <1>2, <1>3, <1>4, <1>5, <1>6 DEF ReaderSide, SomebodyStays

(* The new reader's slot is not one that a scan has passed.                *)
LEMMA CreateKeepsSide ==
    ASSUME CreateDuringDrop = FALSE, Types, ReaderSide, NEW r \in Readers, NEW s \in Slots,
           NEW n \in 0 .. MaxMessages, CreateReader(r, s, n)
    PROVE  ReaderSide'
<1>0. /\ key \in [Slots -> Readers \cup {Empty}] /\ Empty \notin Readers
      /\ \A o \in Readers : rpc[o] # "scan"
  BY ReaderTypes DEF CreateReader, Scanning
<1>1. /\ rpc[r] = "none" /\ rpc'[r] = "live" /\ OthersStay(r)
      /\ key[s] = Empty /\ key' = [key EXCEPT ![s] = r]
      /\ UNCHANGED <<ridx, found, keep_alloc, stage_tickets>>
  BY ReaderTypes DEF CreateReader, OthersStay, counters
<1>2. PICK parent \in Readers : rpc[parent] = "live"
  BY DEF CreateReader
<1>3. Keeping' = Keeping /\ Competing' = Competing
  BY <1>1 DEF Keeping, Competing, OthersStay
<1>4. KeysFit'
  <2>1. ASSUME NEW q \in Readers \ {r}
        PROVE  (\E t \in Slots : key'[t] = q) <=> \E t \in Slots : key[t] = q
    BY <1>0, <1>1
  <2> QED  BY <1>0, <1>1, <2>1 DEF ReaderSide, KeysFit, Keyed, Polling, OthersStay
<1>5. \A q \in Readers : ScanFits(q)' /\ (Stays(q) => Stays(q)')
  BY <1>0, <1>1 DEF ReaderSide, ScanFits, OthersStay, Stays, Keyed, Polling
<1>6. FoundNobodyMeansNobody'
  <2>1. \A q \in Readers : ~Competes(q)
    BY <1>2, KeyedMeansNobodyCompetes DEF Keyed, Polling
  <2> QED
    BY <1>1, <2>1, FreeingStates DEF FoundNobodyMeansNobody, Competes, OthersStay
<1>7. LastReaderAlone'
  <2>1. \A q \in Readers : rpc[q] \notin {"stage"} \cup Ending
    BY <1>2, FreeingStates DEF ReaderSide, LastReaderAlone, Ending
  <2> QED
    BY <1>1, <1>3, <2>1, FreeingStates DEF ReaderSide, LastReaderAlone, OthersStay, Ending
<1> QED  BY <1>1, <1>3, <1>4, <1>5, <1>6, <1>7 DEF ReaderSide, SomebodyStays

LEMMA DropKeepsSide ==
    ASSUME Types, ReaderSide, NEW r \in Readers, DropReader(r) PROVE ReaderSide'
<1>1. /\ rpc[r] = "live" /\ rpc'[r] = "unregister" /\ OthersStay(r)
      /\ keep_alloc' = keep_alloc + 1 /\ UNCHANGED <<ridx, found, key, stage_tickets>>
  BY ReaderTypes DEF DropReader, OthersStay
<1>2. Keeping' = Keeping \cup {r} /\ r \notin Keeping /\ Competing' = Competing
  BY <1>1 DEF Keeping, Competing, OthersStay
<1>3. Cardinality(Keeping') = Cardinality(Keeping) + 1
  BY <1>2, ReaderTypes, CountIn
<1>4. KeysFit'
  BY <1>1 DEF ReaderSide, KeysFit, Keyed, Polling, OthersStay
<1>5. \A q \in Readers : ScanFits(q)' /\ (Stays(q) => Stays(q)')
  BY <1>1 DEF ReaderSide, ScanFits, OthersStay, Stays, Keyed, Polling
<1>6. \A q \in Readers : ~Competes(q)
  BY <1>1, KeyedMeansNobodyCompetes DEF Keyed, Polling
<1>7. FoundNobodyMeansNobody' /\ LastReaderAlone'
  BY <1>1, <1>6, FreeingStates
     DEF FoundNobodyMeansNobody, Competes, OthersStay, LastReaderAlone, Ending
<1> QED  BY <1>1, <1>2, <1>3, <1>4, <1>5, <1>7 DEF ReaderSide, SomebodyStays

LEMMA UnregisterKeepsSide ==
    ASSUME Types, ReaderSide, NEW r \in Readers, Unregister(r) PROVE ReaderSide'
<1>0. key \in [Slots -> Readers \cup {Empty}] /\ Empty \notin Readers
  BY ReaderTypes
<1>1. /\ rpc[r] = "unregister" /\ rpc'[r] = "scan" /\ ridx'[r] = 0 /\ OthersStay(r)
      /\ UNCHANGED <<found, keep_alloc, stage_tickets>>
  BY ReaderTypes DEF Unregister, OthersStay, counters
<1>2. \A s \in Slots : key'[s] = IF key[s] = r THEN Empty ELSE key[s]
  BY DEF Unregister
<1>3. Keeping' = Keeping /\ Competing' = Competing /\ r \in Keeping
  BY <1>1 DEF Keeping, Competing, OthersStay
<1>4. KeysFit'
  <2>1. ASSUME NEW q \in Readers \ {r}
        PROVE  (\E t \in Slots : key'[t] = q) <=> \E t \in Slots : key[t] = q
    BY <1>0, <1>2
  <2>2. ~\E t \in Slots : key'[t] = r
    BY <1>0, <1>2
  <2> QED  BY <1>1, <2>1, <2>2 DEF ReaderSide, KeysFit, Keyed, Polling, OthersStay
<1>5. \A q \in Readers : ScanFits(q)' /\ (Stays(q) => Stays(q)')
  BY <1>1, <1>2, SlotsAssumption DEF ReaderSide, ScanFits, OthersStay, Stays, Keyed, Polling, Slots
<1>6. FoundNobodyMeansNobody'
  BY <1>1, <1>2, FreeingStates DEF ReaderSide, FoundNobodyMeansNobody, Competes, OthersStay
<1>7. LastReaderAlone'
  BY <1>1, <1>3, FreeingStates DEF ReaderSide, LastReaderAlone, OthersStay, Ending
<1> QED  BY <1>1, <1>3, <1>4, <1>5, <1>6, <1>7 DEF ReaderSide, SomebodyStays

LEMMA ScanKeepsSide ==
    ASSUME Types, ReaderSide, NEW r \in Readers, ScanSlot(r) PROVE ReaderSide'
<1>0. /\ key \in [Slots -> Readers \cup {Empty}] /\ Empty \notin Readers
      /\ rpc[r] = "scan" /\ ridx[r] \in Slots /\ ~found[r]
      /\ UNCHANGED <<key, keep_alloc, stage_tickets>> /\ OthersStay(r)
  <2>1. rpc[r] = "scan" /\ UNCHANGED <<key, keep_alloc, stage_tickets>> /\ OthersStay(r)
    BY ReaderTypes DEF ScanSlot, OthersStay, counters
  <2>2. ridx[r] < NSlots /\ ~found[r]
    BY <2>1 DEF ReaderSide, ScanFits
  <2>3. ridx[r] \in Slots
    BY <2>2, ReaderTypes, SlotsAssumption DEF Slots
  <2> QED  BY <2>1, <2>2, <2>3, ReaderTypes
<1>1. KeysFit' /\ \A q \in Readers \ {r} : ScanFits(q)' /\ (Stays(q) => Stays(q)')
  <2>1. rpc'[r] \in {"release", "ticket", "scan"}
    BY ReaderTypes DEF ScanSlot
  <2> QED
    BY <1>0, <2>1 DEF ReaderSide, KeysFit, ScanFits, Keyed, Polling, OthersStay, Stays
<1>2. /\ \A q \in Readers \ {r} : rpc[q] \notin {"stage"} \cup Ending
      /\ \A q \in Readers : rpc[q] # "elect"
  <2>1. r \in Keeping
    BY <1>0 DEF Keeping
  <2> QED  BY <1>0, <2>1 DEF ReaderSide, LastReaderAlone
<1>3. rpc'[r] \in {"release", "ticket", "scan"} /\ Keeping' = Keeping
  <2>1. rpc'[r] \in {"release", "ticket", "scan"}
    BY ReaderTypes DEF ScanSlot
  <2> QED  BY <1>0, <2>1 DEF Keeping, OthersStay
<1>4. LastReaderAlone'
  BY <1>0, <1>2, <1>3, FreeingStates DEF LastReaderAlone, OthersStay, Ending
<1>5. CASE Claimed(ridx[r])
  <2>1. rpc'[r] = "release" /\ found'[r] = TRUE
    BY <1>5, ReaderTypes DEF ScanSlot
  <2>2. Competing' = Competing
    BY <1>0, <2>1 DEF Competing, OthersStay
  <2>3. ScanFits(r)'
    BY <2>1 DEF ScanFits
  <2>4. SomebodyStays'
    <3>1. PICK o \in Readers : key[ridx[r]] = o
      BY <1>0, <1>5 DEF Claimed
    <3>2. rpc[o] \in Keyed
      BY <1>0, <3>1 DEF ReaderSide, KeysFit
    <3>3. o # r /\ Stays(o)
      BY <1>0, <3>2 DEF Stays, Keyed, Polling
    <3>4. Stays(o)'
      BY <1>1, <3>3
    <3> QED  BY <3>4 DEF SomebodyStays
  <2>5. FoundNobodyMeansNobody'
    BY <1>0, <2>1, FreeingStates DEF ReaderSide, FoundNobodyMeansNobody, Competes, OthersStay
  <2> QED  BY <1>0, <1>1, <1>3, <1>4, <2>2, <2>3, <2>4, <2>5 DEF ReaderSide
<1>6. CASE ~Claimed(ridx[r])
  <2>1. /\ rpc'[r] = IF ridx[r] + 1 = NSlots THEN "ticket" ELSE "scan"
        /\ ridx'[r] = ridx[r] + 1 /\ found' = found
    BY <1>6, ReaderTypes DEF ScanSlot
  <2>2. Competing' = Competing /\ Stays(r) /\ Stays(r)'
    BY <1>0, <2>1 DEF Competing, OthersStay, Stays
  <2>3. \A s \in Slots : s < ridx[r] + 1 => key[s] = Empty
    <3>1. \A s \in Slots : s < ridx[r] => key[s] = Empty
      BY <1>0 DEF ReaderSide, ScanFits
    <3>2. key[ridx[r]] = Empty
      BY <1>6 DEF Claimed
    <3> QED  BY <1>0, <3>1, <3>2 DEF Slots
  <2>4. ScanFits(r)'
    BY <1>0, <2>1, <2>3, SlotsAssumption DEF ScanFits, Slots
  <2>5. FoundNobodyMeansNobody'
    <3>1. rpc'[r] = "ticket" => \A s \in Slots : key[s] = Empty
      BY <2>1, <2>3, SlotsAssumption DEF Slots
    <3> QED
      BY <1>0, <1>3, <3>1, <2>1, FreeingStates
         DEF ReaderSide, FoundNobodyMeansNobody, Competes, OthersStay
  <2>6. SomebodyStays'
    BY <1>1, <2>1, <2>2 DEF ReaderSide, SomebodyStays
  <2> QED  BY <1>0, <1>1, <1>3, <1>4, <2>2, <2>4, <2>5, <2>6 DEF ReaderSide
<1> QED  BY <1>5, <1>6

LEMMA TicketKeepsSide ==
    ASSUME Types, ReaderSide, NEW r \in Readers, TakeStageTicket(r) PROVE ReaderSide'
<1>1. /\ rpc[r] = "ticket" /\ rpc'[r] = "release" /\ ~found[r] /\ OthersStay(r)
      /\ stage_tickets' = stage_tickets + 1 /\ UNCHANGED <<ridx, found, key, keep_alloc>>
  BY ReaderTypes DEF TakeStageTicket, OthersStay, ReaderSide, ScanFits
<1>2. Keeping' = Keeping /\ Competing' = Competing \cup {r} /\ r \notin Competing /\ r \in Keeping
  BY <1>1 DEF Keeping, Competing, OthersStay
<1>3. Cardinality(Competing') = Cardinality(Competing) + 1
  BY <1>2, ReaderTypes, CountIn
<1>4. KeysFit'
  BY <1>1 DEF ReaderSide, KeysFit, Keyed, Polling, OthersStay
<1>5. \A q \in Readers : ScanFits(q)' /\ (Stays(q) => Stays(q)')
  BY <1>1 DEF ReaderSide, ScanFits, OthersStay, Stays
<1>6. FoundNobodyMeansNobody'
  BY <1>1, FreeingStates DEF ReaderSide, FoundNobodyMeansNobody, Competes, OthersStay
<1>7. LastReaderAlone'
  BY <1>1, <1>2, FreeingStates DEF ReaderSide, LastReaderAlone, OthersStay, Ending
<1> QED  BY <1>1, <1>2, <1>3, <1>4, <1>5, <1>6, <1>7 DEF ReaderSide, SomebodyStays

LEMMA ReleaseKeepsSide ==
    ASSUME Types, ReaderSide, NEW r \in Readers, Release(r) PROVE ReaderSide'
<1>1. /\ rpc[r] = "release" /\ rpc'[r] = (IF found[r] THEN "none" ELSE "wait")
      /\ ~found'[r] /\ OthersStay(r)
      /\ keep_alloc' = keep_alloc - 1 /\ UNCHANGED <<key, stage_tickets>>
  BY ReaderTypes DEF Release, OthersStay
<1>2. Keeping' = Keeping \ {r} /\ Competing' = Competing /\ r \in Keeping
  BY <1>1 DEF Keeping, Competing, OthersStay
<1>3. Cardinality(Keeping') = Cardinality(Keeping) - 1
  BY <1>2, ReaderTypes, CountOut
<1>4. KeysFit'
  BY <1>1 DEF ReaderSide, KeysFit, Keyed, Polling, OthersStay
<1>5. \A q \in Readers : ScanFits(q)' /\ (Stays(q) => Stays(q)')
  BY <1>1 DEF ReaderSide, ScanFits, OthersStay, Stays, Keyed, Polling
<1>6. FoundNobodyMeansNobody'
  BY <1>1, FreeingStates DEF ReaderSide, FoundNobodyMeansNobody, Competes, OthersStay
<1>7. LastReaderAlone'
  BY <1>1, <1>2, FreeingStates DEF ReaderSide, LastReaderAlone, OthersStay, Ending
<1>8. SomebodyStays'
  BY <1>1, <1>5 DEF ReaderSide, SomebodyStays, OthersStay
<1> QED  BY <1>1, <1>2, <1>3, <1>4, <1>5, <1>6, <1>7, <1>8 DEF ReaderSide

LEMMA WaitKeepsSide ==
    ASSUME Types, ReaderSide, NEW r \in Readers, Wait(r) PROVE ReaderSide'
<1>1. /\ rpc[r] = "wait" /\ rpc'[r] = "elect" /\ OthersStay(r) /\ keep_alloc = 0
      /\ UNCHANGED <<ridx, found, key, keep_alloc, stage_tickets>>
  BY ReaderTypes DEF Wait, TicketsAreBack, OthersStay, counters
<1>2. Keeping' = Keeping /\ Competing' = Competing /\ Keeping = {}
  <2>1. Keeping = {}
    BY <1>1, FiniteSides, FS_EmptySet DEF ReaderSide
  <2> QED  BY <1>1, <2>1 DEF Keeping, Competing, OthersStay
<1>4. KeysFit'
  BY <1>1 DEF ReaderSide, KeysFit, Keyed, Polling, OthersStay
<1>5. \A q \in Readers : ScanFits(q)' /\ (Stays(q) => Stays(q)')
  BY <1>1 DEF ReaderSide, ScanFits, OthersStay, Stays, Keyed, Polling
<1>6. FoundNobodyMeansNobody'
  BY <1>1, FreeingStates DEF ReaderSide, FoundNobodyMeansNobody, Competes, OthersStay
<1>7. LastReaderAlone'
  BY <1>1, <1>2, FreeingStates DEF ReaderSide, LastReaderAlone, OthersStay, Ending
<1> QED  BY <1>1, <1>2, <1>4, <1>5, <1>6, <1>7 DEF ReaderSide, SomebodyStays

(* The last stage ticket is that of the only reader left: no other keeps   *)
(* the area, competes, or has its key in the map.                          *)
LEMMA ElectedIsAlone ==
    ASSUME Types, ReaderSide, NEW r \in Readers, rpc[r] = "elect", stage_tickets = 1
    PROVE  \A q \in Readers \ {r} : rpc[q] = "none"
<1>1. Keeping = {} /\ r \in Competing
  BY DEF ReaderSide, LastReaderAlone, Competing
<1>2. Competing = {r}
  BY <1>1, ReaderTypes, CountSome DEF ReaderSide
<1>3. ASSUME NEW q \in Readers \ {r} PROVE rpc[q] = "none"
  <2>1. rpc[q] \notin {"unregister", "scan", "ticket", "release"}
    BY <1>1 DEF Keeping
  <2>2. rpc[q] \notin {"wait", "elect"}
    BY <1>2, <1>3 DEF Competing
  <2>3. rpc[q] \notin Keyed
    BY KeyedMeansNobodyCompetes DEF Competes
  <2>4. rpc[q] \notin {"stage"} \cup Ending
    BY <1>3 DEF ReaderSide, LastReaderAlone
  <2> QED
    BY <2>1, <2>2, <2>3, <2>4, ReaderTypes DEF ReaderStates, Keyed, Polling, Ending
<1> QED  BY <1>3

LEMMA ElectKeepsSide ==
    ASSUME Types, ReaderSide, NEW r \in Readers, Elect(r) PROVE ReaderSide'
<1>1. /\ rpc[r] = "elect" /\ rpc'[r] = (IF stage_tickets = 1 THEN "stage" ELSE "none")
      /\ OthersStay(r) /\ stage_tickets' = stage_tickets - 1
      /\ UNCHANGED <<ridx, found, key, keep_alloc>>
  BY ReaderTypes DEF Elect, WasLast, OthersStay
<1>2. Keeping' = Keeping /\ Competing' = Competing \ {r} /\ r \in Competing /\ Keeping = {}
  <2>1. Keeping = {}
    BY <1>1 DEF ReaderSide, LastReaderAlone
  <2> QED  BY <1>1, <2>1 DEF Keeping, Competing, OthersStay
<1>3. Cardinality(Competing') = Cardinality(Competing) - 1
  BY <1>2, ReaderTypes, CountOut
<1>4. KeysFit'
  BY <1>1 DEF ReaderSide, KeysFit, Keyed, Polling, OthersStay
<1>5. \A q \in Readers : ScanFits(q)' /\ ~found'[q]
  <2>1. \A q \in Readers : ~found[q]
    BY <1>2 DEF ReaderSide, ScanFits, Keeping
  <2> QED  BY <1>1, <2>1 DEF ReaderSide, ScanFits, OthersStay
<1>6. FoundNobodyMeansNobody'
  BY <1>1, FreeingStates DEF ReaderSide, FoundNobodyMeansNobody, Competes, OthersStay
<1>7. LastReaderAlone'
  <2>1. stage_tickets = 1 => \A q \in Readers \ {r} : rpc[q] = "none"
    BY <1>1, ElectedIsAlone
  <2>2. \A q \in Readers \ {r} : rpc[q] \notin {"stage"} \cup Ending
    BY <1>1 DEF ReaderSide, LastReaderAlone
  <2> QED
    BY <1>1, <1>2, <2>1, <2>2, FreeingStates DEF LastReaderAlone, OthersStay, Ending
<1> QED  BY <1>1, <1>2, <1>3, <1>4, <1>5, <1>6, <1>7 DEF ReaderSide, SomebodyStays

(* From there on the reader is alone with its steps.                       *)
LEMMA EndKeepsSide ==
    ASSUME Types, ReaderSide, NEW r \in Readers,
           ReaderStage(r) \/ ReaderCleans(r) \/ ReaderFrees(r)
    PROVE  ReaderSide'
<1>1. /\ rpc[r] \in {"stage"} \cup Ending /\ rpc'[r] \in {"none"} \cup Ending /\ OthersStay(r)
      /\ UNCHANGED <<ridx, found, key, keep_alloc, stage_tickets>>
  BY ReaderTypes, FreeingStates
     DEF ReaderStage, ReaderCleans, ReaderFrees, OthersStay, Ending, counters
<1>2. \A q \in Readers \ {r} : rpc[q] = "none" /\ rpc'[q] = "none"
  BY <1>1 DEF ReaderSide, LastReaderAlone, OthersStay
<1>3. Keeping' = Keeping /\ Competing' = Competing
  BY <1>1, <1>2, FreeingStates DEF Keeping, Competing, Ending
<1>4. \A q \in Readers : ~found[q] /\ rpc'[q] \in {"none"} \cup Ending
  BY <1>1, <1>2, FreeingStates DEF ReaderSide, ScanFits, Ending
<1>5. Competes(r) /\ \A s \in Slots : key[s] = Empty
  BY <1>1, FreeingStates DEF ReaderSide, FoundNobodyMeansNobody, Competes, Ending
<1>6. KeysFit' /\ FoundNobodyMeansNobody'
  BY <1>1, <1>4, <1>5, FreeingStates, ReaderTypes
     DEF KeysFit, FoundNobodyMeansNobody, Keyed, Polling, Ending
<1>7. LastReaderAlone' /\ SomebodyStays' /\ \A q \in Readers : ScanFits(q)'
  BY <1>1, <1>2, <1>4, FreeingStates DEF LastReaderAlone, SomebodyStays, ScanFits, Ending
<1> QED  BY <1>1, <1>3, <1>6, <1>7 DEF ReaderSide

LEMMA ReaderKeepsReaderSide ==
    ASSUME CreateDuringDrop = FALSE, Types, ReaderSide, NEW r \in Readers, ReaderMoves(r)
    PROVE  ReaderSide'
<1>1. ASSUME PublishAsReader(r) PROVE ReaderSide'
  BY <1>1, StillReaderSide DEF PublishAsReader, counters
<1> QED
  BY <1>1, PollKeepsSide, CreateKeepsSide, DropKeepsSide, UnregisterKeepsSide, ScanKeepsSide,
     TicketKeepsSide, ReleaseKeepsSide, WaitKeepsSide, ElectKeepsSide, EndKeepsSide
     DEF ReaderMoves, ReaderStep

-----------------------------------------------------------------------------
(* The stages, and the end of the area.                                    *)
LEMMA InUse ==
    ASSUME Types, Stages, Ends, WritersIn \/ ReadersIn
    PROVE  destroy_stages > 0 /\ ~WriterEnds /\ ~ReaderEnds /\ ~Begun
           /\ \A p \in Parts : freed[p] = 0
<1>1. destroy_stages > 0
  BY DEF Stages, OneIf
<1>2. ~WriterEnds /\ ~ReaderEnds /\ ~Begun
  BY <1>1 DEF Ends
<1> QED  BY <1>1, <1>2 DEF Types, Begun

(* Where both sides stay as they are and are not both out, nothing ends.   *)
LEMMA StillInUse ==
    ASSUME Types, Stages, Ends, WritersIn \/ ReadersIn, UNCHANGED <<destroy_stages, freed>>,
           WritersIn' <=> WritersIn, ReadersIn' <=> ReadersIn,
           \A w \in Writers : wpc'[w] \in Ending => wpc[w] = wpc'[w],
           \A r \in Readers : rpc'[r] \in Ending => rpc[r] = rpc'[r]
    PROVE  Stages' /\ Ends'
<1>1. Stages'
  BY DEF Stages, OneIf
<1>2. ~WriterEnds' /\ ~ReaderEnds' /\ ~Begun' /\ \A p \in Parts : freed'[p] = 0
  BY InUse DEF WriterEnds, ReaderEnds, Begun
<1>3. \A w \in Writers : wpc'[w] \notin Ending
  BY <1>2 DEF WriterEnds
<1>4. \A r \in Readers : rpc'[r] \notin Ending
  BY <1>2 DEF ReaderEnds
<1>5. Ends'
  BY <1>2, <1>3, <1>4 DEF Ends, Ending
<1> QED  BY <1>1, <1>5

LEMMA LiveWriterKeepsEnds ==
    ASSUME TeardownInv, NEW w \in Writers, Publish(w) \/ CreateWriter(w) \/ DropWriter(w)
    PROVE  Stages' /\ Ends'
<1>0. /\ wpc \in [Writers -> WriterStates] /\ IsFiniteSet(LiveWriters)
      /\ UNCHANGED <<destroy_stages, freed, rpc>>
  BY FiniteSides DEF TeardownInv, Types, Publish, CreateWriter, DropWriter, counters, store
<1>1. PICK v \in Writers : wpc[v] = "live"
  BY DEF Publish, CreateWriter, DropWriter
<1>2. WritersIn /\ ReadersIn' = ReadersIn
  BY <1>0, <1>1 DEF WritersIn, ReadersIn
<1>3. WritersIn'
  <2>1. CASE Publish(w)
    BY <1>1, <2>1 DEF Publish, WritersIn
  <2>2. CASE CreateWriter(w)
    BY <1>0, <2>2 DEF CreateWriter, WritersIn
  <2>3. CASE DropWriter(w) /\ writers_count = 1
    BY <1>0, <2>3 DEF DropWriter, WasLast, WritersIn
  <2>4. CASE DropWriter(w) /\ writers_count # 1
    <3>1. w \in LiveWriters /\ Cardinality(LiveWriters) # 1
      BY <2>4 DEF DropWriter, LiveWriters, TeardownInv, WriterSide
    <3>2. PICK y \in LiveWriters : y # w
      BY <1>0, <3>1, CountSome
    <3>3. wpc'[y] = "live" /\ y \in Writers
      BY <1>0, <2>4, <3>2 DEF DropWriter, LiveWriters
    <3> QED  BY <3>3 DEF WritersIn
  <2> QED  BY <2>1, <2>2, <2>3, <2>4
<1>4. \A u \in Writers : wpc'[u] \in Ending => wpc[u] = wpc'[u]
  BY <1>0, FreeingStates DEF Publish, CreateWriter, DropWriter, Ending
<1> QED  BY <1>0, <1>2, <1>3, <1>4, StillInUse DEF TeardownInv

(* The readers' side is not out before the last of them takes its stage.   *)
LEMMA ReaderStaysIn ==
    ASSUME TeardownInv, NEW r \in Readers, ReaderMoves(r),
           ~(ReaderStage(r) \/ ReaderCleans(r) \/ ReaderFrees(r))
    PROVE  ReadersIn /\ ReadersIn'
<1>0. Types /\ ReaderSide /\ rpc \in [Readers -> ReaderStates] /\ IsFiniteSet(Competing)
  BY ReaderTypes DEF TeardownInv
<1>1. CASE Release(r) /\ found[r]
  <2>1. rpc[r] = "release" /\ ~Stays(r) /\ \A q \in Readers \ {r} : rpc'[q] = rpc[q]
    BY <1>0, <1>1 DEF Release, Stays, Keyed, Polling
  <2>2. PICK q \in Readers : Stays(q)
    BY <1>0, <1>1 DEF ReaderSide, SomebodyStays
  <2>3. rpc[q] \notin {"none"} \cup Ending /\ rpc'[q] = rpc[q]
    BY <2>1, <2>2, FreeingStates DEF Stays, Keyed, Polling, Ending
  <2> QED  BY <2>3 DEF ReadersIn
<1>2. CASE Elect(r) /\ stage_tickets # 1
  <2>1. r \in Competing /\ Cardinality(Competing) # 1
    BY <1>0, <1>2 DEF Elect, Competing, ReaderSide
  <2>2. PICK q \in Competing : q # r
    BY <1>0, <2>1, CountSome
  <2>3. q \in Readers /\ rpc[q] \in {"wait", "elect", "release"} /\ rpc'[q] = rpc[q]
    BY <1>0, <1>2, <2>2 DEF Elect, Competing
  <2> QED  BY <2>3, FreeingStates DEF ReadersIn, Ending
<1>3. ASSUME NEW s \in Slots, NEW n \in 0 .. MaxMessages, CreateReader(r, s, n)
      PROVE  ReadersIn /\ ReadersIn'
  <2>1. PICK o \in Readers : rpc[o] = "live"
    BY <1>3 DEF CreateReader
  <2>2. rpc'[o] = "live"
    BY <1>0, <1>3, <2>1 DEF CreateReader
  <2> QED  BY <2>1, <2>2, FreeingStates DEF ReadersIn, Ending
<1>4. CASE PublishAsReader(r)
  BY <1>4, FreeingStates DEF PublishAsReader, ReadersIn, Ending
<1>5. CASE \/ PollRead(r) \/ PollCount(r) \/ PollAgain(r) \/ DropReader(r) \/ Unregister(r)
           \/ ScanSlot(r) \/ TakeStageTicket(r) \/ Wait(r)
           \/ (Release(r) /\ ~found[r]) \/ (Elect(r) /\ stage_tickets = 1)
  <2>1. rpc[r] \notin {"none"} \cup Ending /\ rpc'[r] \notin {"none"} \cup Ending
    BY <1>0, <1>5, FreeingStates
       DEF PollRead, PollCount, PollAgain, HearAll, DropReader, Unregister, ScanSlot,
           TakeStageTicket, Release, Wait, Elect, WasLast, Ending
  <2> QED  BY <2>1 DEF ReadersIn
<1> QED  BY <1>1, <1>2, <1>3, <1>4, <1>5 DEF ReaderMoves, ReaderStep

LEMMA LiveReaderKeepsEnds ==
    ASSUME TeardownInv, NEW r \in Readers, ReaderMoves(r),
           ~(ReaderStage(r) \/ ReaderCleans(r) \/ ReaderFrees(r))
    PROVE  Stages' /\ Ends'
<1>0. rpc \in [Readers -> ReaderStates] /\ UNCHANGED wpc /\ Types /\ Stages /\ Ends
  BY ReaderTypes, ReaderLeavesWriters DEF TeardownInv
<1>1. UNCHANGED <<destroy_stages, freed>>
  BY DEF ReaderMoves, CreateReader, PublishAsReader, PollRead, DropReader, ReaderStep, Unregister,
         ScanSlot, TakeStageTicket, Release, Wait, Elect, PollCount, PollAgain, counters, store
<1>2. ReadersIn /\ ReadersIn' /\ WritersIn' = WritersIn
  BY <1>0, ReaderStaysIn DEF WritersIn
<1>3. \A q \in Readers : rpc'[q] \in Ending => rpc[q] = rpc'[q]
  BY <1>0, FreeingStates
     DEF ReaderMoves, CreateReader, PublishAsReader, PollRead, HearAll, DropReader, ReaderStep,
         Unregister, ScanSlot, TakeStageTicket, Release, Wait, Elect, PollCount, PollAgain, Ending
<1>4. \A w \in Writers : wpc'[w] = wpc[w]
  BY <1>0
<1>5. (WritersIn' <=> WritersIn) /\ (ReadersIn' <=> ReadersIn)
  BY <1>2
<1> QED  BY <1>0, <1>1, <1>2, <1>3, <1>4, <1>5, StillInUse

(* Taking the second stage makes a handle the one that frees, and then all *)
(* others are out.                                                         *)
LEMMA WriterStageKeepsEnds ==
    ASSUME TeardownInv, NEW w \in Writers, WriterStage(w) PROVE Stages' /\ Ends'
<1>0. /\ wpc \in [Writers -> WriterStates] /\ freed \in [Parts -> Nat]
      /\ Types /\ Stages /\ Ends
  BY DEF TeardownInv, Types
<1>1. /\ wpc[w] = "stage" /\ wpc'[w] = (IF destroy_stages = 1 THEN "cleanup" ELSE "none")
      /\ \A v \in Writers \ {w} : wpc'[v] = "none"
      /\ destroy_stages' = destroy_stages - 1 /\ UNCHANGED <<rpc, freed, messages>>
  BY <1>0 DEF WriterStage, WasLast, TeardownInv, WriterSide, store
<1>2. WritersIn /\ ~WritersIn' /\ (ReadersIn' <=> ReadersIn)
  BY <1>1 DEF WritersIn, ReadersIn
<1>3. Stages'
  BY <1>0, <1>1, <1>2 DEF Stages, OneIf
<1>4. ~ReaderEnds' /\ ~Begun' /\ \A p \in Parts : freed'[p] = 0
  BY <1>0, <1>1, <1>2, InUse DEF ReaderEnds, Begun
<1>5. wpc'[w] \in Ending => wpc'[w] = "cleanup" /\ destroy_stages' = 0
  BY <1>1, FreeingStates DEF Ending
<1>6. /\ \A v \in Writers : wpc'[v] \in Ending => wpc'[v] = "cleanup" /\ destroy_stages' = 0
      /\ \A r \in Readers : rpc'[r] \notin Ending
  BY <1>1, <1>4, <1>5, FreeingStates DEF ReaderEnds, Ending
<1>7. StillThere["cleanup"] = Parts
  BY DEF StillThere
<1>8. WriterEnds' => destroy_stages' = 0
  BY <1>6 DEF WriterEnds
<1>9. ~(\E v \in Writers : wpc'[v] \in Freeing) /\ ~(\E r \in Readers : rpc'[r] \in Freeing)
  BY <1>6, FreeingStates DEF Ending
<1>10. Ends'
  BY <1>4, <1>6, <1>7, <1>8, <1>9 DEF Ends
<1> QED  BY <1>3, <1>10

LEMMA ReaderStageKeepsEnds ==
    ASSUME TeardownInv, NEW r \in Readers, ReaderStage(r) PROVE Stages' /\ Ends'
<1>0. /\ rpc \in [Readers -> ReaderStates] /\ freed \in [Parts -> Nat]
      /\ Types /\ Stages /\ Ends
  BY DEF TeardownInv, Types
<1>1. /\ rpc[r] = "stage" /\ rpc'[r] = (IF destroy_stages = 1 THEN "cleanup" ELSE "none")
      /\ \A q \in Readers \ {r} : rpc'[q] = "none"
      /\ destroy_stages' = destroy_stages - 1 /\ UNCHANGED <<wpc, freed, messages>>
  BY <1>0 DEF ReaderStage, WasLast, TeardownInv, ReaderSide, LastReaderAlone, store
<1>2. ReadersIn /\ ~ReadersIn' /\ (WritersIn' <=> WritersIn)
  <2>1. ReadersIn
    BY <1>1, FreeingStates DEF ReadersIn, Ending
  <2>2. ~ReadersIn'
    BY <1>1, FreeingStates DEF ReadersIn, Ending
  <2> QED  BY <1>1, <2>1, <2>2 DEF WritersIn
<1>3. Stages'
  BY <1>0, <1>1, <1>2 DEF Stages, OneIf
<1>4. ~WriterEnds' /\ ~Begun' /\ \A p \in Parts : freed'[p] = 0
  BY <1>0, <1>1, <1>2, InUse DEF WriterEnds, Begun
<1>5. rpc'[r] \in Ending => rpc'[r] = "cleanup" /\ destroy_stages' = 0
  BY <1>1, FreeingStates DEF Ending
<1>6. /\ \A q \in Readers : rpc'[q] \in Ending => rpc'[q] = "cleanup" /\ destroy_stages' = 0
      /\ \A w \in Writers : wpc'[w] \notin Ending
  BY <1>1, <1>4, <1>5, FreeingStates DEF WriterEnds, Ending
<1>7. StillThere["cleanup"] = Parts
  BY DEF StillThere
<1>8. ReaderEnds' => destroy_stages' = 0
  BY <1>6 DEF ReaderEnds
<1>9. ~(\E w \in Writers : wpc'[w] \in Freeing) /\ ~(\E q \in Readers : rpc'[q] \in Freeing)
  BY <1>6, FreeingStates DEF Ending
<1>10. Ends'
  BY <1>4, <1>6, <1>7, <1>8, <1>9 DEF Ends
<1> QED  BY <1>3, <1>10

(* The handle that frees the area is the only one there is.                *)
LEMMA EndingIsAlone ==
    ASSUME TeardownInv, WriterEnds \/ ReaderEnds
    PROVE  /\ ~WritersIn /\ ~ReadersIn /\ destroy_stages = 0
           /\ \A w \in Writers : wpc[w] \in {"none"} \cup Ending
           /\ \A r \in Readers : rpc[r] \in {"none"} \cup Ending
           /\ \A v, w \in Writers : wpc[v] # "none" /\ wpc[w] # "none" => v = w
           /\ \A q, r \in Readers : rpc[q] # "none" /\ rpc[r] # "none" => q = r
           /\ ~(WriterEnds /\ ReaderEnds)
           /\ \A s \in Slots : key[s] = Empty
<1>1. destroy_stages = 0 /\ ~(WriterEnds /\ ReaderEnds)
  BY DEF TeardownInv, Ends
<1>2. ~WritersIn /\ ~ReadersIn
  BY <1>1 DEF TeardownInv, Stages, OneIf
<1>3. \A w \in Writers : wpc[w] \in {"none"} \cup Ending
  BY <1>2 DEF WritersIn, TeardownInv, Types, WriterStates, Ending
<1>4. \A r \in Readers : rpc[r] \in {"none"} \cup Ending
  BY <1>2 DEF ReadersIn
<1>5. \A v, w \in Writers : wpc[v] # "none" /\ wpc[w] # "none" => v = w
  BY <1>3, FreeingStates DEF TeardownInv, WriterSide, Ending
<1>6. \A q, r \in Readers : rpc[q] # "none" /\ rpc[r] # "none" => q = r
  BY <1>4, FreeingStates DEF TeardownInv, ReaderSide, LastReaderAlone, Ending
<1>7. \A r \in Readers : rpc[r] \notin Keyed
  BY <1>4, FreeingStates DEF Keyed, Polling, Ending
<1>8. \A s \in Slots : key[s] = Empty
  BY <1>7 DEF TeardownInv, Types, ReaderSide, KeysFit
<1> QED  BY <1>1, <1>2, <1>3, <1>4, <1>5, <1>6, <1>8

(* A part that is still there is freed for the first time, and with the    *)
(* box of AreaInner the map.                                               *)
LEMMA DeallocateOnce ==
    ASSUME freed \in [Parts -> Nat], NEW p \in Freeing, Deallocate(p),
           \A q \in Parts : freed[q] <= 1, \A q \in StillThere[p] : freed[q] = 0
    PROVE  /\ \A q \in Parts : freed'[q] <= 1
           /\ AfterFree[p] \in Freeing => \A q \in StillThere[AfterFree[p]] : freed'[q] = 0
<1>1. \A q \in Parts : \/ freed'[q] = freed[q]
                       \/ /\ freed'[q] = freed[q] + 1
                          /\ q = p \/ (p = "inner" /\ q = "map")
  BY DEF Deallocate
<1>2. p \in StillThere[p] /\ (p = "inner" => "map" \in StillThere[p])
      /\ StillThere[p] \subseteq Parts
  BY FreeingStates DEF StillThere, Parts
<1>3. \A q \in Parts : freed'[q] <= 1
  BY <1>1, <1>2
<1>4. ASSUME AfterFree[p] \in Freeing
      PROVE  /\ p # "inner" /\ StillThere[AfterFree[p]] \subseteq StillThere[p] \ {p}
  BY <1>4, FreeingStates DEF StillThere, Parts
<1>5. AfterFree[p] \in Freeing => \A q \in StillThere[AfterFree[p]] : freed'[q] = 0
  BY <1>1, <1>2, <1>4
<1> QED  BY <1>3, <1>5

(* With no key left in the map the last cleanup may take all there is.     *)
LEMMA FinalTakesAll ==
    ASSUME Types, FinalCleanup, \A s \in Slots : key[s] = Empty
    PROVE  cleaned' = messages'
<1>1. \A n \in 0 .. messages : MayClean(n)
  BY DEF MayClean
<1>2. PICK n \in 0 .. messages :
         /\ MayClean(n) /\ ~MayClean(n + 1)
         /\ IF LeftToClean(n) THEN ~stuck /\ cleaned' = n ELSE UNCHANGED cleaned
  BY DEF FinalCleanup
<1>3. n = messages
  BY <1>1, <1>2 DEF Types
<1>4. messages' = messages /\ cleaned \in 0 .. messages /\ messages \in Nat
  BY DEF FinalCleanup, Types
<1> QED  BY <1>2, <1>3, <1>4 DEF LeftToClean

LEMMA WriterEndKeepsEnds ==
    ASSUME TeardownInv, NEW w \in Writers, WriterCleans(w) \/ WriterFrees(w)
    PROVE  Stages' /\ Ends'
<1>0. /\ wpc \in [Writers -> WriterStates] /\ freed \in [Parts -> Nat]
      /\ wpc[w] \in Ending /\ UNCHANGED <<rpc, destroy_stages, key>> /\ Types
  BY FreeingStates DEF TeardownInv, Types, WriterCleans, WriterFrees, Ending, counters
<1>1. /\ ~WritersIn /\ ~ReadersIn /\ destroy_stages = 0 /\ ~ReaderEnds
      /\ \A v \in Writers \ {w} : wpc[v] = "none"
      /\ \A s \in Slots : key[s] = Empty
  <2>1. WriterEnds /\ wpc[w] # "none"
    BY <1>0, FreeingStates DEF WriterEnds, Ending
  <2> QED  BY <2>1, EndingIsAlone
<1>2. wpc'[w] \in {"none"} \cup Freeing /\ \A v \in Writers \ {w} : wpc'[v] = "none"
  BY <1>0, <1>1, FreeingStates DEF WriterCleans, WriterFrees
<1>3. /\ \A p \in Parts : freed'[p] <= 1
      /\ wpc'[w] \in Freeing => \A p \in StillThere[wpc'[w]] : freed'[p] = 0
      /\ Begun' \/ wpc'[w] \in Freeing => cleaned' = messages'
  <2>1. /\ \A p \in Parts : freed[p] <= 1
        /\ \A p \in StillThere[wpc[w]] : freed[p] = 0
    BY <1>0 DEF TeardownInv, Ends
  <2>2. CASE WriterCleans(w)
    <3>1. StillThere["cleanup"] = StillThere["destroy_stages"]
      BY DEF StillThere
    <3>2. /\ wpc[w] = "cleanup" /\ freed' = freed
          /\ \/ FinalCleanup /\ wpc'[w] = "destroy_stages"
             \/ FinalPanic /\ wpc'[w] = "none"
      BY <1>0, <2>2 DEF WriterCleans, FinalCleanup, FinalPanic
    <3>3. ~Begun
      BY <1>0, <3>2 DEF TeardownInv, Ends, StillThere, Begun
    <3>4. FinalCleanup => cleaned' = messages'
      BY <1>0, <1>1, FinalTakesAll
    <3>5. ~Begun' /\ "none" \notin Freeing
      BY <3>2, <3>3, FreeingStates DEF Begun
    <3> QED  BY <2>1, <3>1, <3>2, <3>4, <3>5
  <2>3. CASE WriterFrees(w)
    <3>1. wpc[w] \in Freeing /\ Deallocate(wpc[w]) /\ wpc'[w] = AfterFree[wpc[w]]
      BY <1>0, <2>3 DEF WriterFrees
    <3>2. UNCHANGED <<messages, cleaned>> /\ cleaned = messages
      BY <3>1 DEF TeardownInv, Ends, Deallocate, drops
    <3> QED  BY <1>0, <2>1, <3>1, <3>2, DeallocateOnce
  <2> QED  BY <2>2, <2>3
<1>4. ~WritersIn' /\ ~ReadersIn' /\ ~ReaderEnds' /\ \A r \in Readers : rpc'[r] \notin Ending
  BY <1>0, <1>1, <1>2, FreeingStates DEF WritersIn, ReadersIn, ReaderEnds
<1>5. Stages'
  BY <1>0, <1>1, <1>4 DEF Stages, OneIf
<1>6. \A v \in Writers : wpc'[v] \in Ending => \A p \in StillThere[wpc'[v]] : freed'[p] = 0
  BY <1>2, <1>3, FreeingStates DEF Ending
<1>7. /\ \A v \in Writers : wpc'[v] \in Freeing => v = w
      /\ ~\E h \in Readers : rpc'[h] \in Freeing
  BY <1>2, <1>4, FreeingStates DEF Ending
<1>8. \/ Begun' \/ \E h \in Writers : wpc'[h] \in Freeing
      \/ \E h \in Readers : rpc'[h] \in Freeing
      => cleaned' = messages' /\ \A s \in Slots : key'[s] = Empty
  BY <1>0, <1>1, <1>3, <1>7
<1>9. Ends'
  BY <1>0, <1>1, <1>3, <1>4, <1>6, <1>8 DEF Ends
<1> QED  BY <1>5, <1>9

LEMMA ReaderEndKeepsEnds ==
    ASSUME TeardownInv, NEW r \in Readers, ReaderCleans(r) \/ ReaderFrees(r)
    PROVE  Stages' /\ Ends'
<1>0. /\ rpc \in [Readers -> ReaderStates] /\ freed \in [Parts -> Nat]
      /\ rpc[r] \in Ending /\ UNCHANGED <<wpc, destroy_stages, key>> /\ Types
  BY FreeingStates DEF TeardownInv, Types, ReaderCleans, ReaderFrees, Ending, counters
<1>1. /\ ~WritersIn /\ ~ReadersIn /\ destroy_stages = 0 /\ ~WriterEnds
      /\ \A q \in Readers \ {r} : rpc[q] = "none"
      /\ \A s \in Slots : key[s] = Empty
  <2>1. ReaderEnds /\ rpc[r] # "none"
    BY <1>0, FreeingStates DEF ReaderEnds, Ending
  <2> QED  BY <2>1, EndingIsAlone
<1>2. rpc'[r] \in {"none"} \cup Freeing /\ \A q \in Readers \ {r} : rpc'[q] = "none"
  BY <1>0, <1>1, FreeingStates DEF ReaderCleans, ReaderFrees
<1>3. /\ \A p \in Parts : freed'[p] <= 1
      /\ rpc'[r] \in Freeing => \A p \in StillThere[rpc'[r]] : freed'[p] = 0
      /\ Begun' \/ rpc'[r] \in Freeing => cleaned' = messages'
  <2>1. /\ \A p \in Parts : freed[p] <= 1
        /\ \A p \in StillThere[rpc[r]] : freed[p] = 0
    BY <1>0 DEF TeardownInv, Ends
  <2>2. CASE ReaderCleans(r)
    <3>1. StillThere["cleanup"] = StillThere["destroy_stages"]
      BY DEF StillThere
    <3>2. /\ rpc[r] = "cleanup" /\ freed' = freed
          /\ \/ FinalCleanup /\ rpc'[r] = "destroy_stages"
             \/ FinalPanic /\ rpc'[r] = "none"
      BY <1>0, <2>2 DEF ReaderCleans, FinalCleanup, FinalPanic
    <3>3. ~Begun
      BY <1>0, <3>2 DEF TeardownInv, Ends, StillThere, Begun
    <3>4. FinalCleanup => cleaned' = messages'
      BY <1>0, <1>1, FinalTakesAll
    <3>5. ~Begun' /\ "none" \notin Freeing
      BY <3>2, <3>3, FreeingStates DEF Begun
    <3> QED  BY <2>1, <3>1, <3>2, <3>4, <3>5
  <2>3. CASE ReaderFrees(r)
    <3>1. rpc[r] \in Freeing /\ Deallocate(rpc[r]) /\ rpc'[r] = AfterFree[rpc[r]]
      BY <1>0, <2>3 DEF ReaderFrees
    <3>2. UNCHANGED <<messages, cleaned>> /\ cleaned = messages
      BY <3>1 DEF TeardownInv, Ends, Deallocate, drops
    <3> QED  BY <1>0, <2>1, <3>1, <3>2, DeallocateOnce
  <2> QED  BY <2>2, <2>3
<1>4. ~WritersIn' /\ ~ReadersIn' /\ ~WriterEnds' /\ \A w \in Writers : wpc'[w] \notin Ending
  BY <1>0, <1>1, <1>2, FreeingStates DEF WritersIn, ReadersIn, WriterEnds, Ending
<1>5. Stages'
  BY <1>0, <1>1, <1>4 DEF Stages, OneIf
<1>6. \A q \in Readers : rpc'[q] \in Ending => \A p \in StillThere[rpc'[q]] : freed'[p] = 0
  BY <1>2, <1>3, FreeingStates DEF Ending
<1>7. /\ \A q \in Readers : rpc'[q] \in Freeing => q = r
      /\ ~\E h \in Writers : wpc'[h] \in Freeing
  BY <1>2, <1>4, FreeingStates DEF Ending
<1>8. \/ Begun' \/ \E h \in Writers : wpc'[h] \in Freeing
      \/ \E h \in Readers : rpc'[h] \in Freeing
      => cleaned' = messages' /\ \A s \in Slots : key'[s] = Empty
  BY <1>0, <1>1, <1>3, <1>7
<1>9. Ends'
  BY <1>0, <1>1, <1>3, <1>4, <1>6, <1>8 DEF Ends
<1> QED  BY <1>5, <1>9

-----------------------------------------------------------------------------
(* What readers are told.                                                  *)
LEMMA WriterKeepsTold ==
    ASSUME TeardownInv, NEW w \in Writers, WriterMoves(w) PROVE Told'
<1>0. /\ UNCHANGED <<rpc, heard, told>> /\ Told /\ (ReadersIn' <=> ReadersIn)
      /\ messages \in Nat
  BY WriterLeavesReaders DEF reading, TeardownInv, Types, ReadersIn
<1>1. CASE Publish(w) \/ CreateWriter(w) \/ DropWriter(w)
  <2>1. PICK v \in LiveWriters : TRUE
    BY <1>1 DEF Publish, CreateWriter, DropWriter, LiveWriters
  <2>2. writers_count # 0
    BY FiniteSides, CountSome DEF TeardownInv, WriterSide
  <2>3. \A r \in Readers : ~told[r] /\ rpc[r] # "again"
    BY <1>0, <2>2 DEF Told
  <2>4. \/ UNCHANGED <<messages, from_writers>>
        \/ from_writers' = messages + 1 /\ messages' = messages + 1
    BY <1>1 DEF Publish, CreateWriter, DropWriter, store
  <2> QED  BY <1>0, <2>3, <2>4 DEF Told, ToldHeardAll
<1>2. CASE WriterStep(w)
  <2>1. UNCHANGED <<writers_count, from_writers>>
    BY <1>2 DEF WriterStep, WriterStage, WriterCleans, WriterFrees, FinalCleanup, FinalPanic,
                Deallocate, counters, store
  <2>2. ReadersIn => messages' = messages
    <3>1. CASE WriterStage(w)
      BY <3>1 DEF WriterStage, store
    <3>2. CASE ~WriterStage(w)
      <4>1. WriterEnds
        BY <1>2, <3>2 DEF WriterStep, WriterCleans, WriterFrees, WriterEnds, Ending
      <4> QED  BY <4>1, EndingIsAlone
    <3> QED  BY <3>1, <3>2
  <2> QED  BY <1>0, <2>1, <2>2 DEF Told, ToldHeardAll
<1> QED  BY <1>1, <1>2 DEF WriterMoves

LEMMA ReaderKeepsTold ==
    ASSUME CreateDuringDrop = FALSE, TeardownInv, NEW r \in Readers, ReaderMoves(r) PROVE Told'
<1>0. /\ UNCHANGED <<writers_count, from_writers>> /\ Told
      /\ messages \in Nat /\ from_writers \in Nat
      /\ rpc \in [Readers -> ReaderStates] /\ told \in [Readers -> BOOLEAN]
      /\ heard \in [Readers -> 0 .. MaxMessages]
  <2>1. UNCHANGED from_writers
    BY DEF ReaderMoves, CreateReader, PublishAsReader, PollRead, DropReader, ReaderStep,
           Unregister, ScanSlot, TakeStageTicket, Release, Wait, Elect, ReaderStage,
           ReaderCleans, ReaderFrees, PollCount, PollAgain, FinalCleanup, FinalPanic,
           Deallocate, store
  <2> QED  BY <2>1, ReaderLeavesWriters DEF TeardownInv, Types
<1>1. /\ \A q \in Readers \ {r} : rpc'[q] = rpc[q] /\ told'[q] = told[q] /\ heard'[q] = heard[q]
  BY <1>0
     DEF ReaderMoves, CreateReader, PublishAsReader, PollRead, HearAll, DropReader, ReaderStep,
         Unregister, ScanSlot, TakeStageTicket, Release, Wait, Elect, ReaderStage, ReaderCleans,
         ReaderFrees, PollCount, PollAgain, reading
<1>2. ReadersIn' => ReadersIn /\ from_writers <= messages'
  <2>1. CASE ReaderStage(r) \/ ReaderCleans(r) \/ ReaderFrees(r)
    <3>1. ~ReadersIn'
      <4>1. CASE ReaderStage(r)
        <5>1. rpc'[r] \in {"none", "cleanup"} /\ \A q \in Readers \ {r} : rpc'[q] = "none"
          BY <1>0, <1>1, <4>1 DEF ReaderStage, TeardownInv, ReaderSide, LastReaderAlone
        <5> QED  BY <5>1 DEF ReadersIn, Ending
      <4>2. CASE ReaderCleans(r) \/ ReaderFrees(r)
        <5>1. ReaderEnds
          BY <4>2 DEF ReaderCleans, ReaderFrees, ReaderEnds, Ending
        <5>2. \A q \in Readers \ {r} : rpc'[q] \in {"none"} \cup Ending
          BY <1>1, <5>1, EndingIsAlone
        <5>3. rpc'[r] \in {"none"} \cup Ending
          BY <1>0, <4>2, FreeingStates DEF ReaderCleans, ReaderFrees, Ending
        <5> QED  BY <5>2, <5>3 DEF ReadersIn
      <4> QED  BY <2>1, <4>1, <4>2
    <3> QED  BY <3>1
  <2>2. CASE ~(ReaderStage(r) \/ ReaderCleans(r) \/ ReaderFrees(r))
    <3>1. messages' = messages \/ messages' = messages + 1
      BY <2>2
         DEF ReaderMoves, CreateReader, PublishAsReader, PollRead, DropReader, ReaderStep,
             Unregister, ScanSlot, TakeStageTicket, Release, Wait, Elect, PollCount, PollAgain,
             store
    <3> QED  BY <1>0, <2>2, <3>1, ReaderStaysIn DEF Told
  <2> QED  BY <2>1, <2>2
<1>3. /\ told'[r] => rpc'[r] \in Polling
      /\ told'[r] \/ rpc'[r] = "again" => writers_count = 0
      /\ told'[r] => heard'[r] >= from_writers
  <2>0. /\ told[r] => rpc[r] \in Polling /\ writers_count = 0 /\ heard[r] >= from_writers
        /\ rpc[r] = "again" => writers_count = 0
    BY <1>0 DEF Told, ToldHeardAll
  <2>1. rpc[r] \in Polling => from_writers <= messages
    BY <1>0, FreeingStates DEF Told, ReadersIn, Polling, Ending
  <2>2. CASE PollRead(r) \/ PollAgain(r)
    BY <1>0, <2>0, <2>1, <2>2 DEF PollRead, PollAgain, HearAll, Missed, reading, Polling
  <2>3. CASE PollCount(r)
    BY <1>0, <2>0, <2>3 DEF PollCount, reading, Polling
  <2>4. ASSUME NEW s \in Slots, NEW n \in 0 .. MaxMessages, CreateReader(r, s, n)
        PROVE  ~told'[r] /\ rpc'[r] = "live"
    BY <1>0, <2>0, <2>4 DEF CreateReader, Polling
  <2>5. CASE PublishAsReader(r)
    BY <1>0, <2>0, <2>5 DEF PublishAsReader, reading
  <2>6. CASE DropReader(r)
    BY <1>0, <2>6 DEF DropReader
  <2>7. CASE \/ Unregister(r) \/ ScanSlot(r) \/ TakeStageTicket(r) \/ Release(r) \/ Wait(r)
             \/ Elect(r) \/ ReaderStage(r) \/ ReaderCleans(r) \/ ReaderFrees(r)
    <3>1. rpc[r] \notin Polling /\ told'[r] = told[r] /\ rpc'[r] # "again"
      BY <1>0, <2>7, FreeingStates
         DEF Unregister, ScanSlot, TakeStageTicket, Release, Wait, Elect, ReaderStage,
             ReaderCleans, ReaderFrees, reading, Polling
    <3> QED  BY <2>0, <3>1
  <2> QED  BY <2>2, <2>3, <2>4, <2>5, <2>6, <2>7 DEF ReaderMoves, ReaderStep
<1>4. \A q \in Readers : /\ told'[q] => rpc'[q] \in Polling
                         /\ told'[q] \/ rpc'[q] = "again" => writers_count = 0
                         /\ told'[q] => heard'[q] >= from_writers
  BY <1>0, <1>1, <1>3 DEF Told, ToldHeardAll
<1> QED  BY <1>0, <1>2, <1>4 DEF Told, ToldHeardAll

-----------------------------------------------------------------------------
(* A cleanup of a live handle comes before the end of the area.            *)
LEMMA CleanUpKeepsTeardown ==
    ASSUME TeardownInv, CleanUp PROVE TeardownInv'
<1>0. /\ UNCHANGED <<counters, key, messages, from_writers, boxed, freed, wpc, rpc, ridx, found,
                     reading>>
      /\ Types /\ WriterSide /\ ReaderSide /\ Stages /\ Ends /\ Told
  BY DEF CleanUp, TeardownInv
<1>1. WritersIn \/ ReadersIn
  BY FreeingStates DEF CleanUp, WritersIn, ReadersIn, Ending
<1>2. cleaned' \in 0 .. messages /\ stuck' \in BOOLEAN
  <2>1. stuck' \in BOOLEAN
    BY <1>0, Zenon DEF CleanUp, Types
  <2>2. \E n \in cleaned + 1 .. messages : cleaned' = n
    BY DEF CleanUp
  <2>3. cleaned \in 0 .. messages /\ messages \in Nat
    BY <1>0 DEF Types
  <2> QED  BY <2>1, <2>2, <2>3
<1>3. Types'
  BY <1>0, <1>2 DEF Types, reading
<1>4. WriterSide' /\ ReaderSide'
  BY <1>0, StillReaderSide DEF counters, WriterSide, LiveWriters
<1>5. Stages' /\ Ends'
  BY <1>0, <1>1, StillInUse DEF counters, WritersIn, ReadersIn
<1>6. Told'
  BY <1>0 DEF counters, reading, Told, ToldHeardAll, ReadersIn
<1> QED  BY <1>3, <1>4, <1>5, <1>6 DEF TeardownInv

LEMMA StepKeepsTeardown ==
    ASSUME CreateDuringDrop = FALSE, TeardownInv, [Next]_vars PROVE TeardownInv'
<1>1. ASSUME NEW w \in Writers, WriterMoves(w) PROVE TeardownInv'
  <2>1. Types' /\ WriterSide'
    BY <1>1, WriterKeepsTypes, WriterKeepsWriterSide DEF TeardownInv
  <2>2. ReaderSide'
    BY <1>1, WriterLeavesReaders, StillReaderSide DEF TeardownInv
  <2>3. Stages' /\ Ends'
    BY <1>1, LiveWriterKeepsEnds, WriterStageKeepsEnds, WriterEndKeepsEnds
       DEF WriterMoves, WriterStep
  <2> QED  BY <1>1, <2>1, <2>2, <2>3, WriterKeepsTold DEF TeardownInv
<1>2. ASSUME NEW r \in Readers, ReaderMoves(r) PROVE TeardownInv'
  <2>1. Types' /\ ReaderSide'
    BY <1>2, ReaderKeepsTypes, ReaderKeepsReaderSide DEF TeardownInv
  <2>2. WriterSide'
    BY <1>2, ReaderLeavesWriters DEF TeardownInv, WriterSide, LiveWriters
  <2>3. Stages' /\ Ends'
    BY <1>2, LiveReaderKeepsEnds, ReaderStageKeepsEnds, ReaderEndKeepsEnds
  <2> QED  BY <1>2, <2>1, <2>2, <2>3, ReaderKeepsTold DEF TeardownInv
<1>3. ASSUME UNCHANGED vars PROVE TeardownInv'
  <2>1. Types' /\ WriterSide' /\ ReaderSide'
    BY <1>3, StillReaderSide
       DEF vars, counters, store, drops, reading, TeardownInv, Types, WriterSide, LiveWriters
  <2>2. Stages' /\ Ends' /\ Told'
    BY <1>3
       DEF vars, counters, store, drops, reading, TeardownInv, Stages, WritersIn, ReadersIn, Ends,
           WriterEnds, ReaderEnds, Begun, Told, ToldHeardAll
  <2> QED  BY <2>1, <2>2 DEF TeardownInv
<1>4. Next => \/ \E w \in Writers : WriterMoves(w)
              \/ \E r \in Readers : ReaderMoves(r)
              \/ CleanUp
  BY DEF Next, WriterMoves, ReaderMoves
<1> QED  BY <1>1, <1>2, <1>3, <1>4, CleanUpKeepsTeardown

LEMMA TeardownInvHolds ==
    ASSUME CreateDuringDrop = FALSE PROVE Spec => []TeardownInv
<1>1. Init => TeardownInv
  BY InitTypes, InitSides, InitEnds DEF TeardownInv
<1>2. TeardownInv /\ [Next]_vars => TeardownInv'
  BY StepKeepsTeardown
<1> QED  BY <1>1, <1>2, PTL DEF Spec

(* No counter underflows or exceeds the handles it counts, though each     *)
(* destructor takes and gives back its tickets one atomic at a time.       *)
THEOREM TeardownTypeCorrect ==
    ASSUME CreateDuringDrop = FALSE PROVE Spec => []TypeOK
<1> QED  BY InvTypes, TeardownInvHolds, PTL

(* A scan that finds nobody is right: every other reader that still exists *)
(* is past the removal of its key (step 5 of ALG.md).                      *)
THEOREM FoundNobodyIsRight ==
    ASSUME CreateDuringDrop = FALSE PROVE Spec => []FoundNobodyMeansNobody
<1>1. TeardownInv => FoundNobodyMeansNobody
  BY DEF TeardownInv, ReaderSide
<1> QED  BY <1>1, TeardownInvHolds, PTL

(* What a reader is told of the writers' end, it is told after all that    *)
(* they published.                                                         *)
THEOREM ToldAlwaysHeardAll ==
    ASSUME CreateDuringDrop = FALSE PROVE Spec => []ToldHeardAll
<1>1. TeardownInv => ToldHeardAll
  BY DEF TeardownInv, Told
<1> QED  BY <1>1, TeardownInvHolds, PTL

(* The area is freed by one handle, and all others are out of their        *)
(* destructors by then and stay out: both stages were taken.               *)
LEMMA TearingIsAlone ==
    ASSUME TeardownInv, Tearing # {} \/ Begun
    PROVE  Inside = Tearing /\ \A g, h \in Tearing : g = h
<1>1. destroy_stages = 0 /\ ~(WriterEnds /\ ReaderEnds)
  BY DEF Tearing, TeardownInv, Ends, WriterEnds, ReaderEnds, Ending
<1>2. ~WritersIn /\ ~ReadersIn
  BY <1>1 DEF TeardownInv, Stages, OneIf
<1>3. /\ \A w \in Writers : wpc[w] \in {"none"} \cup Ending
      /\ \A r \in Readers : rpc[r] \in {"none"} \cup Ending
  BY <1>2 DEF WritersIn, ReadersIn, TeardownInv, Types, WriterStates, Ending
<1>4. Inside = Tearing
  BY <1>3, FreeingStates DEF Inside, Tearing, Ending
<1>5. ASSUME NEW g \in Tearing, NEW h \in Tearing PROVE g = h
  <2>1. WriterEnds \/ ReaderEnds
    BY <1>5 DEF Tearing, WriterEnds, ReaderEnds, Ending
  <2>2. CASE WriterEnds
    <3>1. g \in Writers /\ h \in Writers /\ wpc[g] \in Ending /\ wpc[h] \in Ending
      BY <1>1, <1>5, <2>2 DEF Tearing, ReaderEnds, Ending
    <3> QED  BY <2>1, <3>1, EndingIsAlone, FreeingStates DEF Ending
  <2>3. CASE ReaderEnds
    <3>1. g \in Readers /\ h \in Readers /\ rpc[g] \in Ending /\ rpc[h] \in Ending
      BY <1>1, <1>5, <2>3 DEF Tearing, WriterEnds, Ending
    <3> QED  BY <2>1, <3>1, EndingIsAlone, FreeingStates DEF Ending
  <2> QED  BY <2>1, <2>2, <2>3
<1> QED  BY <1>4, <1>5

(* Every part is deallocated at most once, by a handle that is alone.      *)
THEOREM FreedOnlyOnce ==
    ASSUME CreateDuringDrop = FALSE PROVE Spec => []FreedOnceByTheLast
<1>1. ASSUME TeardownInv PROVE FreedOnceByTheLast
  <2>1. \A p \in Parts : freed[p] <= 1
    BY <1>1 DEF TeardownInv, Ends
  <2>2. ASSUME Tearing # {} \/ Begun PROVE Inside = Tearing /\ Cardinality(Tearing) <= 1
    <3>1. Inside = Tearing /\ \A g, h \in Tearing : g = h
      BY <1>1, <2>2, TearingIsAlone
    <3>2. Tearing = {} \/ \E h \in Tearing : Tearing = {h}
      BY <3>1
    <3>3. Cardinality(Tearing) \in {0, 1}
      BY <3>2, FS_EmptySet, FS_Singleton
    <3> QED  BY <3>1, <3>3
  <2> QED  BY <2>1, <2>2 DEF FreedOnceByTheLast
<1> QED  BY <1>1, TeardownInvHolds, PTL

(* No destructor, and no call on a handle, goes to a part that is gone.    *)
THEOREM UsesAlwaysExist ==
    ASSUME CreateDuringDrop = FALSE PROVE Spec => []UsesOnlyWhatExists
<1>1. ASSUME TeardownInv, NEW h \in Writers \cup Readers, NEW p \in Uses(h)
      PROVE  freed[p] = 0
  <2> DEFINE state == IF h \in Writers THEN wpc[h] ELSE rpc[h]
  <2>0. /\ Types /\ Stages /\ Ends
        /\ state \in WriterStates \cup ReaderStates
        /\ (h \in Writers /\ state = wpc[h]) \/ (h \in Readers /\ state = rpc[h])
        /\ h \in Writers => state \in WriterStates
    BY <1>1 DEF TeardownInv, Types
  <2>1. p \in Parts /\ state # "none"
    BY <1>1, <2>0, FreeingStates DEF Uses, Parts, WriterStates, ReaderStates
  <2>2. CASE state \in Ending
    <3>1. \A q \in StillThere[state] : freed[q] = 0
      BY <2>0, <2>2 DEF Ends
    <3>2. p \in StillThere[state]
      BY <1>1, <2>1, <2>2, FreeingStates DEF Uses, StillThere, Parts, Ending
    <3> QED  BY <3>1, <3>2
  <2>3. CASE state \notin Ending
    <3>1. WritersIn \/ ReadersIn
      BY <2>0, <2>1, <2>3, FreeingStates
         DEF WritersIn, ReadersIn, WriterStates, Ending
    <3> QED  BY <2>0, <2>1, <3>1, InUse
  <2> QED  BY <2>2, <2>3
<1>2. TeardownInv => UsesOnlyWhatExists
  BY <1>1 DEF UsesOnlyWhatExists
<1> QED  BY <1>2, TeardownInvHolds, PTL

(* The area goes after its messages: when a part of it is freed, all that  *)
(* were published had gone to a cleanup, and no reader's key is in the map,*)
(* also after a message that panicked (then the assertion on free_gen lets *)
(* no handle get here with messages left).                                 *)
THEOREM NothingIsLeftBehind ==
    ASSUME CreateDuringDrop = FALSE PROVE Spec => []NothingLeftBehind
<1>1. TeardownInv => NothingLeftBehind
  BY DEF TeardownInv, Ends, NothingLeftBehind
<1> QED  BY <1>1, TeardownInvHolds, PTL
=============================================================================

------------------------------ MODULE Teardown ------------------------------
(***************************************************************************)
(* How the last handles of an area free it: the tournament-style reference *)
(* counting of AreaWriter::drop and AreaReader::drop.  Writers count       *)
(* themselves; readers, who have no counter, scan the reader map for       *)
(* others after leaving it, and those that find nobody compete for the     *)
(* readers' stage once the rest are out of their destructors.              *)
(*                                                                         *)
(* What the handles do with messages is in Area: here they are counted, up *)
(* to MaxMessages, a slot that is claimed stands for an active word, and a *)
(* free one for a suspended word, which holds no cleanup back.  Readers    *)
(* poll with read_with_check for messages or for the end of the writers,   *)
(* and a message may panic when a cleanup drops it.                        *)
(***************************************************************************)
EXTENDS Integers, FiniteSets

CONSTANTS
    Writers,            \* AreaWriter handles that may exist together
    Readers,            \* AreaReader handles that may exist together
    FirstWriter,        \* the handles area() returns
    FirstReader,
    Empty,              \* map::EMPTY
    NSlots,             \* reader_capacity
    MaxMessages,        \* bound: messages published
    Layouts,            \* which parts may be in boxed storage
    CreateDuringDrop    \* may create_reader overlap another reader's drop?

(* What the area is allocated in: AreaInner, its buffer, the slots of its  *)
(* reader map, and the three counters that its destructors coordinate with.*)
Parts == {"inner", "buffer", "map", "destroy_stages", "keep_alloc", "stage_tickets"}

ASSUME HandlesAssumption  == /\ FirstWriter \in Writers /\ FirstReader \in Readers
                             /\ IsFiniteSet(Writers) /\ IsFiniteSet(Readers)
                             /\ Writers \cap Readers = {}
ASSUME EmptyAssumption    == Empty \notin Readers
ASSUME SlotsAssumption    == NSlots \in Nat \ {0}
ASSUME MessagesAssumption == MaxMessages \in Nat \ {0}
ASSUME LayoutsAssumption  == Layouts # {} /\ Layouts \subseteq SUBSET Parts
ASSUME CreateAssumption   == CreateDuringDrop \in BOOLEAN

VARIABLES
    writers_count, destroy_stages,
    keep_alloc,      \* reader_keep_alloc_tickets
    stage_tickets,   \* reader_stage_tickets
    key,             \* reader_gens: who claims each slot
    messages,        \* read_gen: messages published
    from_writers,    \* and of these, up to the last of an AreaWriter (ghost)
    cleaned,         \* last_valid_gen: messages that cleanups took to drop
    stuck,           \* a drop panicked: free_gen never gets to last_valid_gen
    boxed,           \* the parts that are boxed; the others are static
    freed,           \* how many times each part was deallocated (ghost)
    wpc,             \* where each writer handle is in its life
    rpc, ridx,       \* and each reader handle; the slot its scan is at
    found,           \* has_readers()
    heard,           \* how many messages each reader is past
    told             \* was it told that no writers are left?

counters == <<writers_count, destroy_stages, keep_alloc, stage_tickets>>
drops    == <<cleaned, stuck>>
store    == <<messages, from_writers, drops, boxed, freed>>
reading  == <<heard, told>>
vars     == <<counters, key, store, wpc, rpc, ridx, found, reading>>

Slots == 0 .. NSlots - 1

(* Is in has_readers(), after the removal of its key.                      *)
Scanning(r) == rpc[r] = "scan"

Init ==
    /\ writers_count = 1 /\ destroy_stages = 2
    /\ keep_alloc = 0 /\ stage_tickets = 0
    /\ key = [s \in Slots |-> IF s = 1 % NSlots THEN FirstReader ELSE Empty]
    /\ messages = 0 /\ from_writers = 0 /\ cleaned = 0 /\ stuck = FALSE
    /\ boxed \in Layouts /\ freed = [p \in Parts |-> 0]
    /\ wpc = [w \in Writers |-> IF w = FirstWriter THEN "live" ELSE "none"]
    /\ rpc = [r \in Readers |-> IF r = FirstReader THEN "live" ELSE "none"]
    /\ ridx = [r \in Readers |-> 0]
    /\ found = [r \in Readers |-> FALSE]
    /\ heard = [r \in Readers |-> 0]
    /\ told = [r \in Readers |-> FALSE]

-----------------------------------------------------------------------------
(* Faults, for the runs that show which property notices them.             *)
NeverLast(n)      == FALSE                      \* fetch_sub() == 0
NeverClaimed(s)   == FALSE                      \* no look at the map
ClaimedButLast(s) == s < NSlots - 1 /\ key[s] # Empty
NoWait(r)         == TRUE                       \* no spin on the tickets
WrongTickets(r)   == stage_tickets = 0          \* a spin on the other ones
NoSecondLook(r)   == FALSE                      \* told after the first read
LeftButOne(n)     == n > cleaned + 1            \* fewer than there are
InnerBeforeBuffer ==
    [destroy_stages |-> "keep_alloc", keep_alloc |-> "stage_tickets",
     stage_tickets |-> "inner", inner |-> "buffer", buffer |-> "none"]

(* fetch_sub returned n: this was the last.                                *)
WasLast(n) == n = 1

(* has_readers() looks at the keys, whoever they are.                      *)
Claimed(s) == key[s] # Empty

-----------------------------------------------------------------------------
(* While handles live: they publish, read, and create others of their kind.*)

Publish(w) ==
    /\ wpc[w] = "live"
    /\ messages < MaxMessages
    /\ messages' = messages + 1
    /\ from_writers' = messages + 1
    /\ UNCHANGED <<counters, key, drops, boxed, freed, wpc, rpc, ridx, found, reading>>

(* Readers are also writers, which read_with_check does not look at.       *)
PublishAsReader(r) ==
    /\ rpc[r] = "live"
    /\ messages < MaxMessages
    /\ messages' = messages + 1
    /\ UNCHANGED <<counters, key, from_writers, drops, boxed, freed, wpc, rpc, ridx,
                   found, reading>>

(* create_writer on a live writer.                                         *)
CreateWriter(w) ==
    /\ \E parent \in Writers : wpc[parent] = "live"
    /\ wpc[w] = "none"
    /\ writers_count' = writers_count + 1
    /\ wpc' = [wpc EXCEPT ![w] = "live"]
    /\ UNCHANGED <<destroy_stages, keep_alloc, stage_tickets, key, store,
                   rpc, ridx, found, reading>>

(* create_reader on a live reader: it claims a slot of the map, and begins *)
(* wherever cleanups left that slot's word.                                *)
CreateReader(r, s, n) ==
    /\ \E parent \in Readers : rpc[parent] = "live"
    /\ rpc[r] = "none"
    /\ key[s] = Empty
    /\ CreateDuringDrop \/ ~\E o \in Readers : Scanning(o)
    /\ cleaned <= n /\ n <= messages
    /\ key' = [key EXCEPT ![s] = r]
    /\ rpc' = [rpc EXCEPT ![r] = "live"]
    /\ heard' = [heard EXCEPT ![r] = n]
    /\ UNCHANGED <<counters, store, wpc, ridx, found, told>>

(* read_with_check.  A slice that is not empty is dropped, and takes the   *)
(* reader past its messages.                                               *)
Missed(r) == heard[r] < messages

HearAll(r) ==
    /\ heard' = [heard EXCEPT ![r] = messages]
    /\ rpc' = [rpc EXCEPT ![r] = "live"]
    /\ UNCHANGED told

PollRead(r) ==
    /\ rpc[r] = "live"
    /\ IF heard[r] < messages
       THEN HearAll(r)
       ELSE /\ rpc' = [rpc EXCEPT ![r] = "count"]
            /\ UNCHANGED reading
    /\ UNCHANGED <<counters, key, store, wpc, ridx, found>>

(* With writers left, the answer is the empty slice, disarmed.             *)
PollCount(r) ==
    /\ rpc[r] = "count"
    /\ rpc' = [rpc EXCEPT ![r] = IF writers_count = 0 THEN "again" ELSE "live"]
    /\ UNCHANGED <<counters, key, store, wpc, ridx, found, reading>>

PollAgain(r) ==
    /\ rpc[r] = "again"
    /\ IF Missed(r)
       THEN HearAll(r)
       ELSE /\ told' = [told EXCEPT ![r] = TRUE]
            /\ rpc' = [rpc EXCEPT ![r] = "live"]
            /\ UNCHANGED heard
    /\ UNCHANGED <<counters, key, store, wpc, ridx, found>>

-----------------------------------------------------------------------------
(* try_cleanup_old_slots.  It takes what is published and no active word   *)
(* is behind of, and drops it; then free_gen is to follow.                 *)
MayClean(n) ==
    /\ n <= messages
    /\ \A s \in Slots : key[s] # Empty => n <= heard[key[s]]

(* On a live handle.  A message that panics leaves those after it in the   *)
(* cells and free_gen behind: from then on no cleanup gets to the end, it  *)
(* spins (E = ()) or fails its assertion on free_gen (E = Exclusive).      *)
CleanUp ==
    /\ \/ \E w \in Writers : wpc[w] = "live"
       \/ \E r \in Readers : rpc[r] = "live"
    /\ \E n \in cleaned + 1 .. messages : MayClean(n) /\ cleaned' = n
    /\ stuck' \in {stuck, TRUE}
    /\ UNCHANGED <<counters, key, messages, from_writers, boxed, freed, wpc, rpc, ridx,
                   found, reading>>

-----------------------------------------------------------------------------
(* The end of both tournaments.  cleanup::<Exclusive>, by a handle that is *)
(* alone, takes all it may: nothing is an error, which is ignored, else it *)
(* drops that many, and the parts are deallocated one after another ...    *)
LeftToClean(n) == n > cleaned

FinalCleanup ==
    /\ \E n \in 0 .. messages :
          /\ MayClean(n) /\ ~MayClean(n + 1)
          /\ IF LeftToClean(n) THEN ~stuck /\ cleaned' = n ELSE UNCHANGED cleaned
    /\ UNCHANGED <<messages, from_writers, stuck, boxed, freed>>

(* ... or a message panics, or the assertion on free_gen fails: the panic  *)
(* takes the handle, and nothing is deallocated.                           *)
FinalPanic ==
    /\ \E n \in 0 .. messages :
          /\ MayClean(n) /\ ~MayClean(n + 1)
          /\ LeftToClean(n) /\ cleaned' = n
    /\ stuck' = TRUE
    /\ UNCHANGED <<messages, from_writers, boxed, freed>>

AfterFree ==
    [destroy_stages |-> "keep_alloc", keep_alloc |-> "stage_tickets",
     stage_tickets |-> "buffer", buffer |-> "inner", inner |-> "none"]

Freeing == DOMAIN AfterFree

(* deallocate(): nothing for static storage.  With the box of AreaInner,   *)
(* its reader map is dropped, which deallocates the slots.                 *)
Deallocate(p) ==
    /\ LET gone == boxed \cap (IF p = "inner" /\ p \in boxed THEN {p, "map"} ELSE {p})
       IN  freed' = [q \in Parts |-> IF q \in gone THEN freed[q] + 1 ELSE freed[q]]
    /\ UNCHANGED <<messages, from_writers, drops, boxed>>

(* AreaWriter::drop.                                                       *)
DropWriter(w) ==
    /\ wpc[w] = "live"
    /\ writers_count' = writers_count - 1
    /\ wpc' = [wpc EXCEPT ![w] = IF WasLast(writers_count) THEN "stage" ELSE "none"]
    /\ UNCHANGED <<destroy_stages, keep_alloc, stage_tickets, key, store,
                   rpc, ridx, found, reading>>

WriterStage(w) ==
    /\ wpc[w] = "stage"
    /\ destroy_stages' = destroy_stages - 1
    /\ wpc' = [wpc EXCEPT ![w] = IF WasLast(destroy_stages) THEN "cleanup" ELSE "none"]
    /\ UNCHANGED <<writers_count, keep_alloc, stage_tickets, key, store,
                   rpc, ridx, found, reading>>

WriterCleans(w) ==
    /\ wpc[w] = "cleanup"
    /\ \/ FinalCleanup /\ wpc' = [wpc EXCEPT ![w] = "destroy_stages"]
       \/ FinalPanic /\ wpc' = [wpc EXCEPT ![w] = "none"]
    /\ UNCHANGED <<counters, key, rpc, ridx, found, reading>>

WriterFrees(w) ==
    /\ wpc[w] \in Freeing
    /\ Deallocate(wpc[w])
    /\ wpc' = [wpc EXCEPT ![w] = AfterFree[@]]
    /\ UNCHANGED <<counters, key, rpc, ridx, found, reading>>

(* AreaReader::drop.  Step 1.                                              *)
DropReader(r) ==
    /\ rpc[r] = "live"
    /\ keep_alloc' = keep_alloc + 1
    /\ rpc' = [rpc EXCEPT ![r] = "unregister"]
    /\ told' = [told EXCEPT ![r] = FALSE]
    /\ UNCHANGED <<writers_count, destroy_stages, stage_tickets, key, store,
                   wpc, ridx, found, heard>>

(* Step 2: the suspension of the word is in Area; the key is removed.      *)
Unregister(r) ==
    /\ rpc[r] = "unregister"
    /\ key' = [s \in Slots |-> IF key[s] = r THEN Empty ELSE key[s]]
    /\ ridx' = [ridx EXCEPT ![r] = 0]
    /\ rpc' = [rpc EXCEPT ![r] = "scan"]
    /\ heard' = [heard EXCEPT ![r] = 0]
    /\ UNCHANGED <<counters, store, wpc, found, told>>

(* Step 3: has_readers loads one key after another.                        *)
ScanSlot(r) ==
    /\ rpc[r] = "scan"
    /\ IF Claimed(ridx[r])
       THEN /\ found' = [found EXCEPT ![r] = TRUE]
            /\ rpc' = [rpc EXCEPT ![r] = "release"]
            /\ UNCHANGED ridx
       ELSE /\ ridx' = [ridx EXCEPT ![r] = @ + 1]
            /\ rpc' = [rpc EXCEPT ![r] = IF ridx[r] + 1 = NSlots THEN "ticket" ELSE "scan"]
            /\ UNCHANGED found
    /\ UNCHANGED <<counters, key, store, wpc, reading>>

(* Step 6: found nobody, so it will attempt to free.                       *)
TakeStageTicket(r) ==
    /\ rpc[r] = "ticket"
    /\ stage_tickets' = stage_tickets + 1
    /\ rpc' = [rpc EXCEPT ![r] = "release"]
    /\ UNCHANGED <<writers_count, destroy_stages, keep_alloc, key, store,
                   wpc, ridx, found, reading>>

(* Steps 7 and 8.                                                          *)
Release(r) ==
    /\ rpc[r] = "release"
    /\ keep_alloc' = keep_alloc - 1
    /\ rpc' = [rpc EXCEPT ![r] = IF found[r] THEN "none" ELSE "wait"]
    /\ ridx' = [ridx EXCEPT ![r] = 0]
    /\ found' = [found EXCEPT ![r] = FALSE]
    /\ UNCHANGED <<writers_count, destroy_stages, stage_tickets, key, store, wpc, reading>>

(* Step 9: the spin until every other destructor has let go.               *)
TicketsAreBack(r) == keep_alloc = 0

Wait(r) ==
    /\ rpc[r] = "wait"
    /\ TicketsAreBack(r)
    /\ rpc' = [rpc EXCEPT ![r] = "elect"]
    /\ UNCHANGED <<counters, key, store, wpc, ridx, found, reading>>

Elect(r) ==
    /\ rpc[r] = "elect"
    /\ stage_tickets' = stage_tickets - 1
    /\ rpc' = [rpc EXCEPT ![r] = IF WasLast(stage_tickets) THEN "stage" ELSE "none"]
    /\ UNCHANGED <<writers_count, destroy_stages, keep_alloc, key, store,
                   wpc, ridx, found, reading>>

ReaderStage(r) ==
    /\ rpc[r] = "stage"
    /\ destroy_stages' = destroy_stages - 1
    /\ rpc' = [rpc EXCEPT ![r] = IF WasLast(destroy_stages) THEN "cleanup" ELSE "none"]
    /\ UNCHANGED <<writers_count, keep_alloc, stage_tickets, key, store,
                   wpc, ridx, found, reading>>

ReaderCleans(r) ==
    /\ rpc[r] = "cleanup"
    /\ \/ FinalCleanup /\ rpc' = [rpc EXCEPT ![r] = "destroy_stages"]
       \/ FinalPanic /\ rpc' = [rpc EXCEPT ![r] = "none"]
    /\ UNCHANGED <<counters, key, wpc, ridx, found, reading>>

ReaderFrees(r) ==
    /\ rpc[r] \in Freeing
    /\ Deallocate(rpc[r])
    /\ rpc' = [rpc EXCEPT ![r] = AfterFree[@]]
    /\ UNCHANGED <<counters, key, wpc, ridx, found, reading>>

-----------------------------------------------------------------------------
(* The steps of a call that has begun.                                     *)
WriterStep(w) == WriterStage(w) \/ WriterCleans(w) \/ WriterFrees(w)

ReaderStep(r) ==
    \/ Unregister(r) \/ ScanSlot(r) \/ TakeStageTicket(r) \/ Release(r)
    \/ Wait(r) \/ Elect(r) \/ ReaderStage(r) \/ ReaderCleans(r) \/ ReaderFrees(r)
    \/ PollCount(r) \/ PollAgain(r)

Next ==
    \/ \E w \in Writers :
          Publish(w) \/ CreateWriter(w) \/ DropWriter(w) \/ WriterStep(w)
    \/ \E r \in Readers :
          \/ \E s \in Slots, n \in 0 .. MaxMessages : CreateReader(r, s, n)
          \/ PublishAsReader(r) \/ PollRead(r) \/ DropReader(r) \/ ReaderStep(r)
    \/ CleanUp

(* A call that has begun goes on; nothing makes a program drop, or create, *)
(* a handle, or poll, or clean up.                                         *)
Spec ==
    /\ Init /\ [][Next]_vars
    /\ \A w \in Writers : WF_vars(WriterStep(w))
    /\ \A r \in Readers : WF_vars(ReaderStep(r))

-----------------------------------------------------------------------------
WriterStates == {"none", "live", "stage", "cleanup"} \cup Freeing
ReaderStates == {"none", "live", "count", "again", "unregister", "scan", "ticket",
                 "release", "wait", "elect", "stage", "cleanup"} \cup Freeing

(* Types, and counters that never underflow: fetch_sub of a 0 would wrap.  *)
TypeOK ==
    /\ writers_count \in 0 .. Cardinality(Writers)
    /\ destroy_stages \in 0 .. 2
    /\ keep_alloc \in 0 .. Cardinality(Readers)
    /\ stage_tickets \in 0 .. Cardinality(Readers)
    /\ key \in [Slots -> Readers \cup {Empty}]
    /\ messages \in 0 .. MaxMessages /\ from_writers \in 0 .. MaxMessages
    /\ cleaned \in 0 .. messages /\ stuck \in BOOLEAN
    /\ boxed \in Layouts /\ freed \in [Parts -> Nat]
    /\ wpc \in [Writers -> WriterStates]
    /\ rpc \in [Readers -> ReaderStates]
    /\ ridx \in [Readers -> 0 .. NSlots]
    /\ found \in [Readers -> BOOLEAN]
    /\ heard \in [Readers -> 0 .. MaxMessages]
    /\ told \in [Readers -> BOOLEAN]

(* The handles that are in the program or in their destructors, and those  *)
(* that take the area down.                                                *)
Inside  == {w \in Writers : wpc[w] # "none"} \cup {r \in Readers : rpc[r] # "none"}
Tearing == {w \in Writers : wpc[w] \in Freeing \cup {"cleanup"}} \cup
           {r \in Readers : rpc[r] \in Freeing \cup {"cleanup"}}
Begun   == \E p \in Parts : freed[p] > 0

(* Each part is deallocated once, by a handle that is alone: all others    *)
(* are out of their destructors ("MUST ONLY BE CALLED ONCE. No references  *)
(* to the storage may exist after this call", FixedStorage::deallocate).   *)
FreedOnceByTheLast ==
    /\ \A p \in Parts : freed[p] <= 1
    /\ Tearing # {} \/ Begun => Inside = Tearing /\ Cardinality(Tearing) <= 1

(* The parts that the next step of a handle goes to: most by way of        *)
(* AreaInner, the spin and the tickets by references taken before.         *)
Uses(h) ==
    LET state == IF h \in Writers THEN wpc[h] ELSE rpc[h]
    IN  CASE state = "none"                    -> {}
          [] state \in {"live", "count", "again", "unregister", "cleanup"}
                                               -> {"inner", "map", "buffer"}
          [] state = "scan"                    -> {"inner", "map"}
          [] state \in {"release", "wait"}      -> {"keep_alloc"}
          [] state \in {"ticket", "elect"}      -> {"inner", "stage_tickets"}
          [] state = "stage"                   -> {"inner", "destroy_stages"}
          [] state \in Freeing                 -> {"inner", state}

(* No step, the deallocations among them, goes to a part that is gone.     *)
UsesOnlyWhatExists ==
    \A h \in Writers \cup Readers : \A p \in Uses(h) : freed[p] = 0

(* An area is freed after the last of its messages: all that were published*)
(* went to a cleanup, and no reader is left that could have held one back. *)
(* (Of what a cleanup took, a message that panicked leaves the rest.)      *)
NothingLeftBehind ==
    \/ Begun
    \/ \E w \in Writers : wpc[w] \in Freeing
    \/ \E r \in Readers : rpc[r] \in Freeing
    => cleaned = messages /\ \A s \in Slots : key[s] = Empty

(* A reader that found no other is right: every reader that still exists   *)
(* is in its destructor, with its key removed (step 5 of ALG.md).          *)
Competes(r) == \/ rpc[r] \in {"ticket", "wait", "elect", "stage", "cleanup"} \cup Freeing
               \/ rpc[r] = "release" /\ ~found[r]

FoundNobodyMeansNobody ==
    \A r \in Readers : Competes(r) => \A s \in Slots : key[s] = Empty

(* A reader that is told that no writers are left has heard all they said, *)
(* what they published between its read and its look at their count too    *)
(* ("an ABA issue here that can make us miss messages").                   *)
ToldHeardAll == \A r \in Readers : told[r] => heard[r] >= from_writers

(* When the last handles go, the area is freed, every boxed part of it,    *)
(* unless a message panicked, which may leave all of it: neither side's    *)
(* destructors all leave it to the others, and the spin on the tickets ends*)
NoLiveHandle == /\ \A w \in Writers : wpc[w] # "live"
                /\ \A r \in Readers : rpc[r] \notin {"live", "count", "again"}

LastOutFrees ==
    NoLiveHandle ~> /\ Inside = {}
                    /\ \/ \A p \in Parts : freed[p] = IF p \in boxed THEN 1 ELSE 0
                       \/ stuck /\ ~Begun

(* A reader's destructor always returns.                                   *)
DropReturns == \A r \in Readers : rpc[r] = "unregister" ~> rpc[r] = "none"
=============================================================================

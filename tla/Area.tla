-------------------------------- MODULE Area --------------------------------
(***************************************************************************)
(* The broadcast area of market_square: a ring buffer of messages shared   *)
(* by writers that reserve, fill and publish ranges of it, readers that    *)
(* hold a claim ("I may still read from generation g on") in a slot of the *)
(* reader map, and any number of threads that clean up behind the claims.  *)
(*                                                                         *)
(* One action is one atomic access of the source (load, store, CAS) with   *)
(* the local computation around it, so every interleaving of the lock-free *)
(* algorithm is a behaviour.  Memory is sequentially consistent.           *)
(*                                                                         *)
(* Generations are natural numbers: the specification describes a run of   *)
(* fewer than GenSpan \div 2 messages, over which the masked comparisons   *)
(* of arithmetics.rs agree with <, <= and - (GenSpan is the 2^31, 2^63 ... *)
(* of the build).  GenDist is kept where its argument may be negative.     *)
(*                                                                         *)
(* A "writer" is a reservation in flight, a "cleaner" a call of            *)
(* try_cleanup_old_slots: both take &self and need only some live handle.  *)
(* A "reader" is an AreaReader; its own operations take &mut self, so each *)
(* reader runs one of them at a time.                                      *)
(***************************************************************************)
EXTENDS Integers

CONSTANTS
    Writers,         \* reservations that may be in flight together
    Readers,         \* AreaReader handles that may exist together
    Cleaners,        \* concurrent calls of try_cleanup_old_slots
    FirstReader,     \* the reader area() registers
    Empty,           \* map::EMPTY, the key of an unclaimed slot
    Uninit,          \* a buffer cell that holds no message
    BufferCapacity,  \* buffer_capacity
    NSlots,          \* reader_capacity: slots of the reader map
    GenSpan,         \* 2^(bits - 1), the span of the masked generations
    MaxBatch,        \* bound: largest n asked of a reservation or a read
    MaxGen,          \* bound: no room is reserved past this generation
    ResumeAhead      \* how far past read_gen a program may ask to resume

ASSUME CapacityAssumption == BufferCapacity \in Nat \ {0}
ASSUME SlotsAssumption    == NSlots \in Nat \ {0}
ASSUME BoundsAssumption   == /\ MaxBatch \in Nat \ {0}
                             /\ MaxGen \in Nat
                             /\ ResumeAhead \in Nat
ASSUME SpanAssumption     == /\ GenSpan \in Nat \ {0}
                             /\ 2 * (MaxGen + ResumeAhead + MaxBatch) < GenSpan
ASSUME ReadersAssumption  == FirstReader \in Readers /\ Empty \notin Readers
ASSUME UninitAssumption   == Uninit \notin Nat

VARIABLES
    write_gen,       \* next generation to reserve
    read_gen,        \* generations below are published
    last_valid_gen,  \* generations below are dropped, or about to be
    free_gen,        \* generations below may be written over
    slot,            \* reader_gens: the word of each slot
    key,             \* reader_gens: who claims each slot
    buffer,          \* the message held by each cell, named by its generation
    wpc, wfree, wstart, wend, wnext,       \* reservations
    rpc, rslot, rword, rentry, rend,       \* readers
    cpc, clast, cmin, cidx, cword, cdrop   \* cleanup calls

counters == <<write_gen, read_gen, last_valid_gen, free_gen>>
wvars == <<wpc, wfree, wstart, wend, wnext>>
rvars == <<rpc, rslot, rword, rentry, rend>>
cvars == <<cpc, clast, cmin, cidx, cword, cdrop>>
vars  == <<counters, slot, key, buffer, wvars, rvars, cvars>>

-----------------------------------------------------------------------------
Slots == 0 .. NSlots - 1

(* A slot's word: a generation and the suspended bit, read and written as  *)
(* one atomic integer.                                                     *)
Words           == [gen : Nat, msb : {0, 1}]
Active(g)       == [gen |-> g, msb |-> 0]
Suspend(word)   == [word EXCEPT !.msb = 1]
IsSuspended(word) == word.msb = 1

Lesser(a, b) == IF a <= b THEN a ELSE b
GenDist(a, b) == (a - b) % GenSpan     \* gen_dist_msb_masked

Cell(g) == g % BufferCapacity          \* get_slot_ptr, where a usize holds g

(* The reader's word in the map; a key is folded so that it names its slot *)
Word(r) == slot[rslot[r]]

(* No slot: the handle does not exist.                                     *)
NoSlot == -1
(* resume(): re-enter wherever the word stands.                            *)
AsIs == -1
-----------------------------------------------------------------------------
(* Faults: each stands for one definition of the model in a run that shows *)
(* which property notices it.  The specification uses none of them.        *)
BlindCas(x)            == TRUE                \* a store in place of a CAS
BlindWordCas(s, word)  == TRUE                \* the same, of a slot's word
StaleLastValid(c)      == clast[c]            \* a retry with the old value
NeverTooOld(r)         == FALSE               \* no check of entry_generation
NeverForced(c, word)   == FALSE               \* suspended slots are passed over
AlwaysForced(c, word)  == IsSuspended(word)   \* and no look at their generation
LatestHeld(min, word)  == word.gen            \* the last claim, not the least
LeaveUnsuspended(r)    == "remove"            \* the key goes, the claim stays
RetryWithoutLoad(r)    == UNCHANGED rpc
OneTooMany(w)          == BufferCapacity + 1 - (write_gen - wfree[w])

-----------------------------------------------------------------------------
(* What an atomic access sees.  A CAS succeeds when it finds what the      *)
(* thread loaded, or what its reservation or claim starts from.            *)
LoadWriteGen == write_gen
LoadReadGen  == read_gen

WordCas(s, word) == slot[s] = word
WriteGenCas(w)   == write_gen = wstart[w]
ReadGenCas(w)    == read_gen = wstart[w]
LastValidCas(c)  == last_valid_gen = clast[c]
FreeGenCas(c)    == free_gen = clast[c]

(* The value that a lost CAS of last_valid_gen reports.                    *)
FoundLastValid(c) == last_valid_gen

-----------------------------------------------------------------------------
(* area(): the writer's handle exists, and the first reader has entered at *)
(* generation 0 in the slot its key 1 hashes to.                           *)
FirstSlot == 1 % NSlots

Init ==
    /\ write_gen = 0 /\ read_gen = 0 /\ last_valid_gen = 0 /\ free_gen = 0
    /\ slot = [s \in Slots |-> [gen |-> 0,
                                msb |-> IF s = FirstSlot THEN 0 ELSE 1]]
    /\ key = [s \in Slots |-> IF s = FirstSlot THEN FirstReader ELSE Empty]
    /\ buffer = [i \in 0 .. BufferCapacity - 1 |-> Uninit]
    /\ wpc = [w \in Writers |-> "idle"]
    /\ wfree = [w \in Writers |-> 0]
    /\ wstart = [w \in Writers |-> 0]
    /\ wend = [w \in Writers |-> 0]
    /\ wnext = [w \in Writers |-> 0]
    /\ rpc = [r \in Readers |-> IF r = FirstReader THEN "idle" ELSE "none"]
    /\ rslot = [r \in Readers |-> IF r = FirstReader THEN FirstSlot ELSE NoSlot]
    /\ rword = [r \in Readers |-> Active(0)]
    /\ rentry = [r \in Readers |-> AsIs]
    /\ rend = [r \in Readers |-> 0]
    /\ cpc = [c \in Cleaners |-> "idle"]
    /\ clast = [c \in Cleaners |-> 0]
    /\ cmin = [c \in Cleaners |-> 0]
    /\ cidx = [c \in Cleaners |-> 0]
    /\ cword = [c \in Cleaners |-> Active(0)]
    /\ cdrop = [c \in Cleaners |-> 0]

-----------------------------------------------------------------------------
(* Writers: try_reserve_slots, filling the reservation, publish_slots.     *)

WriterDone(w) ==
    /\ wpc' = [wpc EXCEPT ![w] = "idle"]
    /\ wfree' = [wfree EXCEPT ![w] = 0]
    /\ wstart' = [wstart EXCEPT ![w] = 0]
    /\ wend' = [wend EXCEPT ![w] = 0]
    /\ wnext' = [wnext EXCEPT ![w] = 0]

(* Both forms of reserve load free_gen first, then write_gen.  At the      *)
(* bound MaxGen no reservation is begun.                                   *)
ReserveLoadFree(w) ==
    /\ wpc[w] = "idle"
    /\ write_gen < MaxGen
    /\ wfree' = [wfree EXCEPT ![w] = free_gen]
    /\ wpc' = [wpc EXCEPT ![w] = "load_write"]
    /\ UNCHANGED <<counters, slot, key, buffer, wstart, wend, wnext, rvars, cvars>>

(* Room for n at most this much.  When free_gen was loaded long ago the    *)
(* distance may exceed the capacity: then there is none.                   *)
Available(w) ==
    BufferCapacity - Lesser(BufferCapacity, LoadWriteGen - wfree[w])

(* The bound again: past MaxGen there is no room.                          *)
Room(w) == Lesser(Available(w), MaxGen - LoadWriteGen)

(* The range a reservation will try to grab.  Nobody asks for more than a  *)
(* NumericType holds: of such an n the cast keeps the low bits.            *)
Aim(w, n) ==
    /\ wstart' = [wstart EXCEPT ![w] = LoadWriteGen]
    /\ wend' = [wend EXCEPT ![w] = LoadWriteGen + n]
    /\ wpc' = [wpc EXCEPT ![w] = "grab"]
    /\ UNCHANGED <<wfree, wnext>>

(* reserve(n): all n or NoSpace.                                           *)
ReserveExactly(w, n) ==
    /\ wpc[w] = "load_write"
    /\ IF n > Room(w) THEN WriterDone(w) ELSE Aim(w, n)
    /\ UNCHANGED <<counters, slot, key, buffer, rvars, cvars>>

(* reserve_best_effort(n): what there is of n; an empty reservation is     *)
(* published without a trace.                                              *)
ReserveBestEffort(w, n) ==
    /\ wpc[w] = "load_write"
    /\ LET actual == Lesser(n, Room(w))
       IN  IF actual = 0 THEN WriterDone(w) ELSE Aim(w, actual)
    /\ UNCHANGED <<counters, slot, key, buffer, rvars, cvars>>

(* The CAS of write_gen; a writer that lost it reports FailedGrab.         *)
Grab(w) ==
    /\ wpc[w] = "grab"
    /\ IF WriteGenCas(w)
       THEN /\ write_gen' = wend[w]
            /\ wpc' = [wpc EXCEPT ![w] = "fill"]
            /\ wnext' = [wnext EXCEPT ![w] = wstart[w]]
            /\ wfree' = [wfree EXCEPT ![w] = 0]
            /\ UNCHANGED <<wstart, wend>>
       ELSE WriterDone(w) /\ UNCHANGED write_gen
    /\ UNCHANGED <<read_gen, last_valid_gen, free_gen, slot, key, buffer, rvars, cvars>>

(* The program writes the next message of its reservation.                 *)
Fill(w) ==
    /\ wpc[w] = "fill"
    /\ buffer' = [buffer EXCEPT ![Cell(wnext[w])] = wnext[w]]
    /\ wnext' = [wnext EXCEPT ![w] = @ + 1]
    /\ wpc' = [wpc EXCEPT ![w] = IF wnext[w] + 1 = wend[w] THEN "publish" ELSE "fill"]
    /\ UNCHANGED <<counters, slot, key, wfree, wstart, wend, rvars, cvars>>

(* publish_spin: the CAS of read_gen fails, and changes nothing, until the *)
(* reservations before this one are published.                             *)
Publish(w) ==
    /\ wpc[w] = "publish"
    /\ ReadGenCas(w)
    /\ read_gen' = wend[w]
    /\ WriterDone(w)
    /\ UNCHANGED <<write_gen, last_valid_gen, free_gen, slot, key, buffer, rvars, cvars>>

-----------------------------------------------------------------------------
(* Readers.                                                                *)

ReaderAt(r, pc) ==
    /\ rpc' = [rpc EXCEPT ![r] = pc]
    /\ rword' = [rword EXCEPT ![r] = Active(0)]
    /\ rentry' = [rentry EXCEPT ![r] = AsIs]
    /\ rend' = [rend EXCEPT ![r] = 0]

(* Loads the reader's own word and goes on to pc.                          *)
LoadWord(r, pc) ==
    /\ rpc' = [rpc EXCEPT ![r] = pc]
    /\ rword' = [rword EXCEPT ![r] = Word(r)]

SetWord(r, word) == slot' = [slot EXCEPT ![rslot[r]] = word]

(* register_reader claims the key of any slot its probe finds EMPTY.  The  *)
(* word stays as cleanup left it: suspended, at some generation.           *)
Register(r, s) ==
    /\ rpc[r] = "none"
    /\ key[s] = Empty
    /\ key' = [key EXCEPT ![s] = r]
    /\ rslot' = [rslot EXCEPT ![r] = s]
    /\ rpc' = [rpc EXCEPT ![r] = "register"]
    /\ UNCHANGED <<counters, slot, buffer, wvars, rword, rentry, rend, cvars>>

RegisterLoad(r) ==
    /\ rpc[r] = "register"
    /\ LoadWord(r, "registering")
    /\ UNCHANGED <<counters, slot, key, buffer, wvars, rslot, rentry, rend, cvars>>

(* resume() and resume_at(e).                                              *)
Resume(r, e) ==
    /\ rpc[r] = "idle"
    /\ rentry' = [rentry EXCEPT ![r] = e]
    /\ rpc' = [rpc EXCEPT ![r] = "resume"]
    /\ UNCHANGED <<counters, slot, key, buffer, wvars, rslot, rword, rend, cvars>>

(* Ok(false) when not suspended, GenerationTooOld for an entry behind.     *)
TooOld(r) == rentry[r] # AsIs /\ rentry[r] < Word(r).gen

ResumeLoad(r) ==
    /\ rpc[r] = "resume"
    /\ IF ~IsSuspended(Word(r)) \/ TooOld(r)
       THEN ReaderAt(r, "idle")
       ELSE LoadWord(r, "resuming") /\ UNCHANGED <<rentry, rend>>
    /\ UNCHANGED <<counters, slot, key, buffer, wvars, rslot, cvars>>

(* Where a successful CAS puts the reader.                                 *)
Entry(r) == IF rentry[r] = AsIs THEN rword[r].gen ELSE rentry[r]

Reload(r) ==
    rpc' = [rpc EXCEPT ![r] = IF @ = "registering" THEN "register" ELSE "resume"]

(* The CAS that makes the claim count, of register_reader, resume_reader   *)
(* and resume_reader_at alike; if cleanup moved the word, load it again.   *)
EnterCas(r) ==
    /\ rpc[r] \in {"registering", "resuming"}
    /\ IF WordCas(rslot[r], rword[r])
       THEN SetWord(r, Active(Entry(r))) /\ ReaderAt(r, "idle")
       ELSE Reload(r) /\ UNCHANGED <<slot, rword, rentry, rend>>
    /\ UNCHANGED <<counters, key, buffer, wvars, rslot, cvars>>

(* suspend(): nothing if AlreadySuspended, else a plain store of the word  *)
(* with the bit.                                                           *)
SuspendLoad(r) ==
    /\ rpc[r] = "idle"
    /\ ~IsSuspended(Word(r))
    /\ LoadWord(r, "suspend")
    /\ UNCHANGED <<counters, slot, key, buffer, wvars, rslot, rentry, rend, cvars>>

SuspendStore(r) ==
    /\ rpc[r] = "suspend"
    /\ SetWord(r, Suspend(rword[r]))
    /\ ReaderAt(r, "idle")
    /\ UNCHANGED <<counters, key, buffer, wvars, rslot, cvars>>

(* read(), read_at_most(n): the start is the reader's generation without   *)
(* the bit.  rword keeps the word the slice was started from.              *)
ReadStart(r) ==
    /\ rpc[r] = "idle"
    /\ LoadWord(r, "read")
    /\ UNCHANGED <<counters, slot, key, buffer, wvars, rslot, rentry, rend, cvars>>

ReadEnd(r) ==
    /\ rpc[r] = "read"
    /\ rend' = [rend EXCEPT ![r] = LoadReadGen]
    /\ rpc' = [rpc EXCEPT ![r] = "slice"]
    /\ UNCHANGED <<counters, slot, key, buffer, wvars, rslot, rword, rentry, cvars>>

ReadEndAtMost(r, n) ==
    /\ rpc[r] = "read"
    /\ rend' = [rend EXCEPT ![r] =
                   rword[r].gen + Lesser(n, GenDist(LoadReadGen, rword[r].gen))]
    /\ rpc' = [rpc EXCEPT ![r] = "slice"]
    /\ UNCHANGED <<counters, slot, key, buffer, wvars, rslot, rword, rentry, cvars>>

(* Dropping a disarmed ReadSlice.                                          *)
DropDisarmed(r) ==
    /\ rpc[r] = "slice"
    /\ ReaderAt(r, "idle")
    /\ UNCHANGED <<counters, slot, key, buffer, wvars, rslot, cvars>>

(* Dropping an armed one panics unless the generation is still the start.  *)
DropArmed(r) ==
    /\ rpc[r] = "slice"
    /\ IF Word(r).gen # rword[r].gen
       THEN ReaderAt(r, "panicked")
       ELSE /\ rpc' = [rpc EXCEPT ![r] = "advance"]
            /\ UNCHANGED <<rword, rentry, rend>>
    /\ UNCHANGED <<counters, slot, key, buffer, wvars, rslot, cvars>>

(* set_reader_gen(end_gen); its errors are ignored by the drop.            *)
SetGenLoad(r) ==
    /\ rpc[r] = "advance"
    /\ IF IsSuspended(Word(r)) \/ rend[r] <= Word(r).gen
       THEN ReaderAt(r, "idle")
       ELSE LoadWord(r, "advancing") /\ UNCHANGED <<rentry, rend>>
    /\ UNCHANGED <<counters, slot, key, buffer, wvars, rslot, cvars>>

SetGenStore(r) ==
    /\ rpc[r] = "advancing"
    /\ SetWord(r, Active(rend[r]))
    /\ ReaderAt(r, "idle")
    /\ UNCHANGED <<counters, key, buffer, wvars, rslot, cvars>>

(* unregister_reader, as the reader's drop (or the unwinding of a panic)   *)
(* calls it: suspend unless suspended already, then remove the key.        *)
LeaveBy(r) == IF IsSuspended(Word(r)) THEN "remove" ELSE "leave"

Unregister(r) ==
    /\ rpc[r] \in {"idle", "panicked"}
    /\ LoadWord(r, LeaveBy(r))
    /\ UNCHANGED <<counters, slot, key, buffer, wvars, rslot, rentry, rend, cvars>>

UnregisterStore(r) ==
    /\ rpc[r] = "leave"
    /\ SetWord(r, Suspend(rword[r]))
    /\ rpc' = [rpc EXCEPT ![r] = "remove"]
    /\ UNCHANGED <<counters, key, buffer, wvars, rslot, rword, rentry, rend, cvars>>

UnregisterRemove(r) ==
    /\ rpc[r] = "remove"
    /\ key' = [key EXCEPT ![rslot[r]] = Empty]
    /\ rslot' = [rslot EXCEPT ![r] = NoSlot]
    /\ ReaderAt(r, "none")
    /\ UNCHANGED <<counters, slot, buffer, wvars, cvars>>

-----------------------------------------------------------------------------
(* Cleanup: try_cleanup_old_slots.                                         *)

CleanerDone(c) ==
    /\ cpc' = [cpc EXCEPT ![c] = "idle"]
    /\ clast' = [clast EXCEPT ![c] = 0]
    /\ cmin' = [cmin EXCEPT ![c] = 0]
    /\ cidx' = [cidx EXCEPT ![c] = 0]
    /\ cword' = [cword EXCEPT ![c] = Active(0)]
    /\ cdrop' = [cdrop EXCEPT ![c] = 0]

CleanupLoadLast(c) ==
    /\ cpc[c] = "idle"
    /\ clast' = [clast EXCEPT ![c] = last_valid_gen]
    /\ cpc' = [cpc EXCEPT ![c] = "load_read"]
    /\ UNCHANGED <<counters, slot, key, buffer, wvars, rvars, cmin, cidx, cword, cdrop>>

(* NothingToClean, or a scan with min_held_gen = read_gen.                 *)
CleanupLoadRead(c) ==
    /\ cpc[c] = "load_read"
    /\ IF clast[c] >= LoadReadGen
       THEN CleanerDone(c)
       ELSE /\ cmin' = [cmin EXCEPT ![c] = LoadReadGen]
            /\ cidx' = [cidx EXCEPT ![c] = 0]
            /\ cpc' = [cpc EXCEPT ![c] = "scan"]
            /\ UNCHANGED <<clast, cword, cdrop>>
    /\ UNCHANGED <<counters, slot, key, buffer, wvars, rvars>>

(* The scan is over when every slot was looked at.                         *)
NextSlot(c) ==
    /\ cidx' = [cidx EXCEPT ![c] = @ + 1]
    /\ cpc' = [cpc EXCEPT ![c] = IF cidx[c] + 1 = NSlots THEN "claim" ELSE "scan"]
    /\ cword' = [cword EXCEPT ![c] = Active(0)]

(* What the scan makes of a word: a suspended one behind min_held_gen is   *)
(* to be forced forward, an active one holds the minimum back.             *)
MustForce(c, word) == IsSuspended(word) /\ cmin[c] > word.gen

MinHeld(min, word) == IF IsSuspended(word) THEN min ELSE Lesser(min, word.gen)

Examine(c, word) ==
    IF MustForce(c, word)
    THEN /\ cword' = [cword EXCEPT ![c] = word]
         /\ cpc' = [cpc EXCEPT ![c] = "force"]
         /\ UNCHANGED <<cmin, cidx>>
    ELSE /\ cmin' = [cmin EXCEPT ![c] = MinHeld(cmin[c], word)]
         /\ NextSlot(c)

ScanSlot(c) ==
    /\ cpc[c] = "scan"
    /\ Examine(c, slot[cidx[c]])
    /\ UNCHANGED <<counters, slot, key, buffer, wvars, rvars, clast, cdrop>>

(* The CAS that forces a suspended word forward; if the word changed, the  *)
(* value it has now is examined.                                           *)
ForceForward(c) ==
    /\ cpc[c] = "force"
    /\ IF WordCas(cidx[c], cword[c])
       THEN /\ slot' = [slot EXCEPT ![cidx[c]] = Suspend(Active(cmin[c]))]
            /\ NextSlot(c)
            /\ UNCHANGED cmin
       ELSE Examine(c, slot[cidx[c]]) /\ UNCHANGED slot
    /\ UNCHANGED <<counters, key, buffer, wvars, rvars, clast, cdrop>>

(* Nothing to clean, or others have cleaned it.                            *)
CleanupTooLate(c) ==
    /\ cpc[c] = "claim"
    /\ cmin[c] <= clast[c]
    /\ CleanerDone(c)
    /\ UNCHANGED <<counters, slot, key, buffer, wvars, rvars>>

(* The CAS of last_valid_gen makes [clast, cmin) this call's to drop; a    *)
(* call that lost it tries again from the value it found.                  *)
CleanupClaim(c) ==
    /\ cpc[c] = "claim"
    /\ cmin[c] > clast[c]
    /\ IF LastValidCas(c)
       THEN /\ last_valid_gen' = cmin[c]
            /\ cdrop' = [cdrop EXCEPT ![c] = clast[c]]
            /\ cpc' = [cpc EXCEPT ![c] = "drop"]
            /\ UNCHANGED clast
       ELSE /\ clast' = [clast EXCEPT ![c] = FoundLastValid(c)]
            /\ UNCHANGED <<last_valid_gen, cdrop, cpc>>
    /\ UNCHANGED <<write_gen, read_gen, free_gen, slot, key, buffer, wvars, rvars,
                   cmin, cidx, cword>>

(* drop_in_place of the next message of the claimed range.                 *)
DropMessage(c) ==
    /\ cpc[c] = "drop"
    /\ buffer' = [buffer EXCEPT ![Cell(cdrop[c])] = Uninit]
    /\ cdrop' = [cdrop EXCEPT ![c] = @ + 1]
    /\ cpc' = [cpc EXCEPT ![c] = IF cdrop[c] + 1 = cmin[c] THEN "free" ELSE "drop"]
    /\ UNCHANGED <<counters, slot, key, wvars, rvars, clast, cmin, cidx, cword>>

(* The spin on free_gen: it succeeds when earlier cleanups have freed      *)
(* theirs, and until then changes nothing.                                 *)
CleanupFree(c) ==
    /\ cpc[c] = "free"
    /\ FreeGenCas(c)
    /\ free_gen' = cmin[c]
    /\ CleanerDone(c)
    /\ UNCHANGED <<write_gen, read_gen, last_valid_gen, slot, key, buffer, wvars, rvars>>

-----------------------------------------------------------------------------
(* The steps a call takes once the program made it.                        *)
WriterStep(w) ==
    \/ \E n \in 1 .. MaxBatch : ReserveExactly(w, n) \/ ReserveBestEffort(w, n)
    \/ Grab(w) \/ Fill(w) \/ Publish(w)

ReaderStep(r) ==
    \/ RegisterLoad(r) \/ ResumeLoad(r) \/ EnterCas(r)
    \/ SuspendStore(r)
    \/ ReadEnd(r) \/ (\E n \in 1 .. MaxBatch : ReadEndAtMost(r, n))
    \/ SetGenLoad(r) \/ SetGenStore(r)
    \/ UnregisterStore(r) \/ UnregisterRemove(r)

CleanerStep(c) ==
    \/ CleanupLoadRead(c) \/ ScanSlot(c) \/ ForceForward(c)
    \/ CleanupTooLate(c) \/ CleanupClaim(c)
    \/ DropMessage(c) \/ CleanupFree(c)

(* What a program may ask for, whenever it likes.                          *)
ReaderCall(r) ==
    \/ \E s \in Slots : Register(r, s)
    \/ \E e \in {AsIs} \cup (0 .. read_gen + ResumeAhead) : Resume(r, e)
    \/ SuspendLoad(r) \/ ReadStart(r)
    \/ DropDisarmed(r) \/ DropArmed(r)
    \/ Unregister(r)

Next ==
    \/ \E w \in Writers : ReserveLoadFree(w) \/ WriterStep(w)
    \/ \E r \in Readers : ReaderCall(r) \/ ReaderStep(r)
    \/ \E c \in Cleaners : CleanupLoadLast(c) \/ CleanerStep(c)

Spec == Init /\ [][Next]_vars

(* A thread inside a call is not stopped for ever, and the program fills   *)
(* and publishes what it reserved, as the docs of Reservation demand.      *)
(* Nothing is assumed of when, or whether, a program makes its next call.  *)
Fairness ==
    /\ \A w \in Writers : WF_vars(WriterStep(w))
    /\ \A r \in Readers : WF_vars(ReaderStep(r))
    /\ \A c \in Cleaners : WF_vars(CleanerStep(c))

FairSpec == Spec /\ Fairness

-----------------------------------------------------------------------------
WriterStates == {"idle", "load_write", "grab", "fill", "publish"}
ReaderStates == {"none", "register", "registering", "idle", "resume", "resuming",
                 "suspend", "read", "slice", "panicked", "advance", "advancing",
                 "leave", "remove"}
CleanerStates == {"idle", "load_read", "scan", "force", "claim", "drop", "free"}

CounterTypes == /\ write_gen \in Nat /\ read_gen \in Nat
                /\ last_valid_gen \in Nat /\ free_gen \in Nat

MapTypes == /\ slot \in [Slots -> Words]
            /\ key \in [Slots -> Readers \cup {Empty}]

BufferType == buffer \in [0 .. BufferCapacity - 1 -> Nat \cup {Uninit}]

WriterTypes ==
    /\ wpc \in [Writers -> WriterStates]
    /\ wfree \in [Writers -> Nat] /\ wstart \in [Writers -> Nat]
    /\ wend \in [Writers -> Nat] /\ wnext \in [Writers -> Nat]

ReaderTypes ==
    /\ rpc \in [Readers -> ReaderStates]
    /\ rslot \in [Readers -> Slots \cup {NoSlot}]
    /\ rword \in [Readers -> Words]
    /\ rentry \in [Readers -> Nat \cup {AsIs}]
    /\ rend \in [Readers -> Nat]

CleanerTypes ==
    /\ cpc \in [Cleaners -> CleanerStates]
    /\ clast \in [Cleaners -> Nat] /\ cmin \in [Cleaners -> Nat]
    /\ cidx \in [Cleaners -> 0 .. NSlots]
    /\ cword \in [Cleaners -> Words]
    /\ cdrop \in [Cleaners -> Nat]

(* Every variable keeps its type: what the proofs start from.              *)
TypeOK == /\ CounterTypes /\ MapTypes /\ BufferType
          /\ WriterTypes /\ ReaderTypes /\ CleanerTypes

(* The four counters stay in order and never more than the capacity apart, *)
(* whatever stale values reserve and cleanup decided on (try_reserve_slots *)
(* asserts free_gen <= write_gen of the two values it loaded).             *)
CountersInOrder ==
    /\ free_gen <= last_valid_gen
    /\ last_valid_gen <= read_gen
    /\ read_gen <= write_gen
    /\ write_gen <= free_gen + BufferCapacity
    /\ \A w \in Writers : wpc[w] = "load_write" => wfree[w] <= write_gen

(* No cleanup moves last_valid_gen past the word of any slot, claimed or   *)
(* not: whoever enters, resumes or reads there finds its messages.         *)
ClaimsHold == \A s \in Slots : last_valid_gen <= slot[s].gen

(* A slice taken by a reader that was not suspended.                       *)
HoldsSlice(r) == /\ rpc[r] \in {"slice", "advance", "advancing"}
                 /\ ~IsSuspended(rword[r])

(* The messages of such a slice stay in the buffer until it is dropped,    *)
(* though cleaners and writers run beside it.                              *)
SliceIsLive ==
    \A r \in Readers : HoldsSlice(r) =>
        \A g \in rword[r].gen .. rend[r] - 1 : buffer[Cell(g)] = g

(* What a slice covers is published: get(i), for i below len(), keeps to   *)
(* the contract of get_slot_ptr ("must be published").  len() is a masked  *)
(* distance, large when the start lies beyond the end.                     *)
SliceLen(r) == GenDist(rend[r], rword[r].gen)

SliceIsPublished ==
    \A r \in Readers :
        rpc[r] = "slice" => rword[r].gen + SliceLen(r) <= read_gen

(* Every slice has its messages, a suspended reader's too.                 *)
EverySliceIsLive ==
    \A r \in Readers : rpc[r] = "slice" =>
        \A g \in rword[r].gen .. rend[r] - 1 : buffer[Cell(g)] = g

(* Its drop finds the reader where the slice started, and does not panic.  *)
SliceDropsInPlace ==
    \A r \in Readers : HoldsSlice(r) => Word(r) = rword[r]

(* A message is dropped where it lies and once: a cleaner about to drop    *)
(* finds it, and nobody else's.                                            *)
DropsItsMessage ==
    \A c \in Cleaners : cpc[c] = "drop" =>
        \A g \in cdrop[c] .. cmin[c] - 1 : buffer[Cell(g)] = g

(* A reservation's cells hold no message: filling them neither loses an    *)
(* unread message nor leaks one that was never dropped, and no two         *)
(* reservations share a cell.                                              *)
ReservedCellsAreEmpty ==
    \A w \in Writers : wpc[w] = "fill" =>
        \A g \in wnext[w] .. wend[w] - 1 : buffer[Cell(g)] = Uninit

(* What is published and not yet cleaned is in the buffer, in its cell:    *)
(* publishing in order of reservation never exposes an unfilled cell.      *)
PublishedIsFilled ==
    \A g \in last_valid_gen .. read_gen - 1 : buffer[Cell(g)] = g

(* A reader in register_reader finds its new slot suspended (the assertion *)
(* of its loop), even in a slot that another handle just left.             *)
RegisterFindsSuspended ==
    \A r \in Readers :
        rpc[r] \in {"register", "registering"} => IsSuspended(Word(r))

(* No reader enters past what is published: it misses nothing that is      *)
(* published after it entered.                                             *)
NobodyAhead == \A s \in Slots : slot[s].gen <= read_gen

(* A call in flight is always the one whose turn it is: whatever write_gen *)
(* passed and read_gen did not, some reservation that starts at read_gen   *)
(* holds; whatever was claimed and not handed back, some cleanup whose     *)
(* range starts at free_gen does.  Else publish_spin, or the spin of a     *)
(* cleanup, would wait for nobody.                                         *)
SomebodyIsNext ==
    /\ read_gen < write_gen =>
           \E w \in Writers : wpc[w] \in {"fill", "publish"} /\ wstart[w] = read_gen
    /\ free_gen < last_valid_gen =>
           \E c \in Cleaners : cpc[c] \in {"drop", "free"} /\ clast[c] = free_gen

(* A slot's generation never goes back, though its owner stores it plainly *)
(* and cleaners force it by CAS.                                           *)
ClaimsNeverGoBack == [][\A s \in Slots : slot'[s].gen >= slot[s].gen]_vars

(* Nobody but the reader that claimed it touches the word of a slot while  *)
(* it is active.                                                           *)
ActiveWordIsOwned ==
    [][\A s \in Slots : slot'[s] # slot[s] /\ ~IsSuspended(slot[s]) =>
            \E r \in Readers : rslot[r] = s /\ rpc'[r] # rpc[r]]_vars

(* A cleanup returns: the spin on free_gen ends, since the cleanups it     *)
(* waits for end too, and the retries of its CASes are bounded.            *)
CleanupReturns == \A c \in Cleaners : cpc[c] # "idle" ~> cpc[c] = "idle"

(* publish_spin returns: the reservations before it are published.         *)
PublishReturns == \A w \in Writers : wpc[w] = "publish" ~> wpc[w] = "idle"

(* The loop of register_reader and of resume goes around again only for a  *)
(* cleanup that has moved the word since it was loaded: forward, no further*)
(* than read_gen, and still suspended.                                     *)
RetriesArePaidFor ==
    \A r \in Readers :
        rpc[r] \in {"registering", "resuming"} /\ Word(r) # rword[r] =>
            /\ IsSuspended(Word(r))
            /\ rword[r].gen < Word(r).gen /\ Word(r).gen <= read_gen

(* So the loop is lock-free, not wait-free: it ends unless messages go on  *)
(* being published, and cleanups force the word to each of them, for ever. *)
Entering(r) == rpc[r] \in {"register", "registering", "resume", "resuming"}

EnterReturns ==
    \A r \in Readers :
        \/ Entering(r) ~> rpc[r] = "idle"
        \/ []<><<read_gen' # read_gen>>_read_gen

-----------------------------------------------------------------------------
(* The area is a Broadcast: a reader is there while the word of its slot   *)
(* is active, and wants what follows that word.  A message counts as       *)
(* dropped from the moment a cleanup claims it.                            *)
Wants(r) == IF rslot[r] = NoSlot \/ IsSuspended(Word(r)) THEN -1 ELSE Word(r).gen

Abstract == INSTANCE Broadcast WITH
    published <- read_gen,
    dropped   <- last_valid_gen,
    position  <- [r \in Readers |-> Wants(r)]

(* Every step of the lock-free code is a step of Broadcast, or none.       *)
ImplementsBroadcast == Abstract!Spec
=============================================================================

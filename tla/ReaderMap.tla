----------------------------- MODULE ReaderMap -----------------------------
(***************************************************************************)
(* The reader map (SimpleLPHashMap in map.rs), as an area uses it: readers *)
(* register under keys that the map makes up for them (fold), find their   *)
(* slot again by that key alone (IMMEDIATE), and leave by emptying it.     *)
(*                                                                         *)
(* One action is one access to a slot's key, so that the probes of several *)
(* registrations, and removals, interleave.  What is in the slots, and how *)
(* cleanup looks at all of them whatever their keys, is in Area, where a   *)
(* registration is given a slot and keeps it: this module is why.          *)
(***************************************************************************)
EXTENDS Integers

CONSTANTS
    Readers,
    NSlots,   \* reader_capacity, a power of two
    Msb,      \* IN_PROGRESS: 2^(w - 1)
    Seeds     \* the seeds given to register_reader_with_seed

ASSUME SlotsAssumption == NSlots \in Nat \ {0}
ASSUME MsbAssumption   == Msb \in Nat /\ Msb % NSlots = 0 /\ Msb > NSlots
ASSUME SeedsAssumption == Seeds \subseteq 0 .. 2 * Msb - 1

EMPTY == 0

ASSUME ReadersAssumption == EMPTY \notin Readers

VARIABLES
    key,     \* the raw key of each slot
    pc,      \* where each reader is
    seed,    \* the key it probes with
    i,       \* how many slots of its probe it is done with
    seen,    \* the key it last loaded
    id,      \* its reader_id, from the CAS that made it on
    churn    \* did a slot become empty since its probe began?  (ghost)

vars == <<key, pc, seed, i, seen, id, churn>>

Slots == 0 .. NSlots - 1
Keys  == 0 .. 2 * Msb - 1
Ids   == 1 .. Msb - 1

KeyBits(k)      == k % Msb              \* k & !IN_PROGRESS
SetProgress(k)  == KeyBits(k) + Msb     \* k | IN_PROGRESS
IndexFor(k)     == k % NSlots           \* k & mask

Init ==
    /\ key = [s \in Slots |-> EMPTY]
    /\ pc = [r \in Readers |-> "idle"]
    /\ seed = [r \in Readers |-> 1]
    /\ i = [r \in Readers |-> 0]
    /\ seen = [r \in Readers |-> EMPTY]
    /\ id = [r \in Readers |-> EMPTY]
    /\ churn = [r \in Readers |-> FALSE]

-----------------------------------------------------------------------------
(* Faults, for the runs that show which property notices them.             *)
SeedAsGiven(n) == IF n = 0 THEN 1 ELSE n
Unfolded(r)    == SetProgress(seed[r])
NoFoldPastMsb(r) == SetProgress(seed[r] + i[r])
OneSlotShort(r) == IF i[r] + 2 >= NSlots THEN "refused" ELSE "probe"
StoreWins(r)   == TRUE                  \* a store in place of the CAS
RemoveNext(r)  == IndexFor(id[r] + 1)

-----------------------------------------------------------------------------
(* register_reader_with_seed: the seed loses its top bit and is not 0.     *)
SeedKey(n) == IF KeyBits(n) = 0 THEN 1 ELSE KeyBits(n)

Register(r, n) ==
    /\ pc[r] = "idle"
    /\ pc' = [pc EXCEPT ![r] = "probe"]
    /\ seed' = [seed EXCEPT ![r] = SeedKey(n)]
    /\ i' = [i EXCEPT ![r] = 0]
    /\ churn' = [churn EXCEPT ![r] = FALSE]
    /\ UNCHANGED <<key, seen, id>>

(* get_or_insert_concurrent(seed, ZERO_OFFSET, capacity, insert, fold).    *)
Index(r) == IndexFor(seed[r] + i[r])

(* The key that this slot would give, different in each: the carry into    *)
(* the IN_PROGRESS bit is lost, and what would be 0 is the capacity.       *)
FoldedKey(r) ==
    LET logical == (seed[r] + i[r]) % (2 * Msb)
    IN  SetProgress(IF logical \in {0, Msb} THEN logical + NSlots ELSE logical)

(* On to the next slot, or all were occupied: ReaderCapacityReached.       *)
Probed(r)    == [i EXCEPT ![r] = @ + 1]
AfterSlot(r) == IF i[r] + 1 = NSlots THEN "refused" ELSE "probe"

NextSlot(r) ==
    /\ i' = Probed(r)
    /\ pc' = [pc EXCEPT ![r] = AfterSlot(r)]

Probe(r) ==
    /\ pc[r] = "probe"
    /\ IF key[Index(r)] = EMPTY
       THEN /\ pc' = [pc EXCEPT ![r] = "insert"]
            /\ UNCHANGED i
       ELSE NextSlot(r)
    /\ UNCHANGED <<key, seed, seen, id, churn>>

(* The CAS; a slot that is lost is passed.                                 *)
CasWins(r) == key[Index(r)] = EMPTY

Insert(r) ==
    /\ pc[r] = "insert"
    /\ IF CasWins(r)
       THEN /\ key' = [key EXCEPT ![Index(r)] = FoldedKey(r)]
            /\ id' = [id EXCEPT ![r] = KeyBits(FoldedKey(r))]
            /\ pc' = [pc EXCEPT ![r] = "init"]
            /\ UNCHANGED i
       ELSE NextSlot(r) /\ UNCHANGED <<key, id>>
    /\ UNCHANGED <<seed, seen, churn>>

(* Back to the caller with the error.                                      *)
Refused(r) ==
    /\ pc[r] = "refused"
    /\ pc' = [pc EXCEPT ![r] = "idle"]
    /\ UNCHANGED <<key, seed, i, seen, id, churn>>

(* finish_init_at(index).                                                  *)
FinishInit(r) ==
    /\ pc[r] = "init"
    /\ key' = [key EXCEPT ![Index(r)] = KeyBits(@)]
    /\ pc' = [pc EXCEPT ![r] = "registered"]
    /\ UNCHANGED <<seed, i, seen, id, churn>>

(* unregister_reader: remove_concurrent(reader_id, ZERO_OFFSET, IMMEDIATE).*)
(* The slot is left alone where the key is another.                        *)
RemoveIndex(r) == IndexFor(id[r])

Unregister(r) ==
    /\ pc[r] = "registered"
    /\ seen' = [seen EXCEPT ![r] = key[RemoveIndex(r)]]
    /\ pc' = [pc EXCEPT ![r] = "remove"]
    /\ UNCHANGED <<key, seed, i, id, churn>>

Remove(r) ==
    /\ pc[r] = "remove"
    /\ IF KeyBits(seen[r]) = id[r] /\ key[RemoveIndex(r)] = seen[r]
       THEN /\ key' = [key EXCEPT ![RemoveIndex(r)] = EMPTY]
            /\ churn' = [o \in Readers |-> TRUE]
       ELSE UNCHANGED <<key, churn>>
    /\ id' = [id EXCEPT ![r] = EMPTY]
    /\ seen' = [seen EXCEPT ![r] = EMPTY]
    /\ pc' = [pc EXCEPT ![r] = "idle"]
    /\ UNCHANGED <<seed, i>>

-----------------------------------------------------------------------------
Registering(r) == Probe(r) \/ Insert(r) \/ Refused(r) \/ FinishInit(r)

Next == \E r \in Readers :
    \/ \E n \in Seeds : Register(r, n)
    \/ Registering(r)
    \/ Unregister(r) \/ Remove(r)

Spec == Init /\ [][Next]_vars

-----------------------------------------------------------------------------
States == {"idle", "probe", "insert", "refused", "init", "registered", "remove"}

TypeOK ==
    /\ key \in [Slots -> Keys]
    /\ pc \in [Readers -> States]
    /\ seed \in [Readers -> Ids]
    /\ i \in [Readers -> 0 .. NSlots]
    /\ seen \in [Readers -> Keys]
    /\ id \in [Readers -> Ids \cup {EMPTY}]
    /\ churn \in [Readers -> BOOLEAN]

Holds(r) == pc[r] \in {"init", "registered", "remove"}

(* Two readers never have the same reader_id, whatever their seeds, and no *)
(* reader has an invalid one ("it only guarantees each successful insertion*)
(* gets a unique key"; 0 and the top bit are reserved).                    *)
UniqueIds ==
    /\ \A r \in Readers : Holds(r) => id[r] \in Ids
    /\ \A r, o \in Readers : Holds(r) /\ Holds(o) /\ r # o => id[r] # id[o]

(* A reader finds its slot by its reader_id without probing, for as long as*)
(* it is registered, while others register and leave around it: get_gen,   *)
(* set_gen, suspend, resume and the removal all rely on that.              *)
LookupFindsOwn ==
    \A r \in Readers :
        /\ pc[r] = "init" => key[IndexFor(id[r])] = SetProgress(id[r])
        /\ pc[r] \in {"registered", "remove"} => key[IndexFor(id[r])] = id[r]

(* Nobody but the readers that are registered has a slot: one that is left *)
(* or lost is empty, and can be had again.                                 *)
NoSlotLost ==
    \A s \in Slots : key[s] # EMPTY =>
        \E r \in Readers : Holds(r) /\ IndexFor(id[r]) = s /\ KeyBits(key[s]) = id[r]

(* If nobody left during the probe, ReaderCapacityReached means what it    *)
(* says: every slot is taken.  (Where somebody did, the probe may have     *)
(* passed the slot before: the call can fail next to an empty slot.)       *)
RefusedMeansFull ==
    \A r \in Readers : pc[r] = "refused" /\ ~churn[r] => \A s \in Slots : key[s] # EMPTY

(* The slot of a reader is found by its key alone.  A key that nobody has  *)
(* stands for itself, and is nobody's to claim or give up.                 *)
HolderOf(s) ==
    IF key[s] = EMPTY THEN EMPTY
    ELSE LET owners == {r \in Readers : Holds(r) /\ id[r] = KeyBits(key[s])}
         IN  IF owners = {} THEN key[s] ELSE CHOOSE r \in owners : TRUE

Holders == [s \in Slots |-> HolderOf(s)]

Abstract == INSTANCE Registry WITH Nobody <- EMPTY, holder <- Holders

(* Probing, losing slots to others and looking keys up give each reader one*)
(* free slot at the moment of its CAS, and take that one from it when it   *)
(* leaves: Area and Teardown may let a registration have any free slot.    *)
ImplementsRegistry == Abstract!Spec
=============================================================================

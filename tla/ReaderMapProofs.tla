-------------------------- MODULE ReaderMapProofs --------------------------
(***************************************************************************)
(* The reader map for any number of readers and slots, any width and any   *)
(* seeds.  The argument: a key that the map makes up has its slot's index  *)
(* in its low bits, whatever carry the sum lost, so a key says where it is *)
(* and two slots never hold the same one.                                  *)
(***************************************************************************)
EXTENDS ReaderMap, ModularArith

LEMMA Widths ==
    /\ NSlots \in Nat /\ NSlots > 0 /\ Msb \in Nat /\ Msb > NSlots
    /\ Msb % NSlots = 0
BY SlotsAssumption, MsbAssumption

LEMMA IndexInSlots ==
    ASSUME NEW k \in Nat
    PROVE  IndexFor(k) \in Slots
BY Widths, ModDef DEF IndexFor, Slots

(* The key bits of a key, with and without the top bit.                    *)
LEMMA KeyBitsOf ==
    ASSUME NEW k \in Ids
    PROVE  /\ KeyBits(k) = k /\ k \in Keys /\ k # EMPTY
           /\ SetProgress(k) = k + Msb /\ SetProgress(k) \in Keys
           /\ SetProgress(k) # EMPTY
           /\ KeyBits(SetProgress(k)) = k
<1>1. k \in Nat /\ k > 0 /\ k < Msb /\ Msb \in Nat
  BY Widths DEF Ids
<1>2. k % Msb = k
  BY <1>1, ModSmall
<1>3. (k + Msb) % Msb = k
  BY <1>1, ModOnce
<1> QED  BY <1>1, <1>2, <1>3 DEF KeyBits, SetProgress, Keys, EMPTY

(* A folded key: valid, in progress, and at home in its slot.              *)
LEMMA FoldedKeyAtHome ==
    ASSUME NEW r \in Readers, seed[r] \in Ids, i[r] \in 0 .. NSlots - 1
    PROVE  /\ KeyBits(FoldedKey(r)) \in Ids
           /\ FoldedKey(r) = SetProgress(KeyBits(FoldedKey(r)))
           /\ IndexFor(KeyBits(FoldedKey(r))) = Index(r)
<1> DEFINE l == seed[r] + i[r]
           k == KeyBits(IF l \in {0, Msb} THEN l + NSlots ELSE l)
<1>0. NSlots \in Nat /\ NSlots > 0 /\ Msb \in Nat /\ Msb > NSlots
  BY Widths
<1>1. l \in Nat /\ l > 0 /\ l < 2 * Msb /\ l < Msb + NSlots
  BY <1>0 DEF Ids
<1>2. l % (2 * Msb) = l
  <2>1. 2 * Msb \in Nat
    BY <1>0
  <2> QED  BY <1>1, <2>1, ModSmall
<1>3. FoldedKey(r) = k + Msb
  BY <1>2 DEF FoldedKey, SetProgress
<1>4. k \in Ids /\ IndexFor(k) = IndexFor(l)
  <2> HIDE DEF l
  <2>1. CASE l < Msb
    <3>1. l % Msb = l
      BY <1>0, <1>1, <2>1, ModSmall
    <3> QED  BY <3>1, <1>0, <1>1, <2>1 DEF KeyBits, Ids, IndexFor
  <2>2. CASE l = Msb
    <3>1. (Msb + NSlots) % Msb = NSlots
      BY <1>0, ModOnce
    <3>2. NSlots % NSlots = 0
      BY <1>0, ModOnce
    <3> QED  BY <3>1, <3>2, <1>0, <2>2, Widths DEF KeyBits, Ids, IndexFor
  <2>3. CASE l > Msb
    <3> DEFINE d == l - Msb
    <3>1. d \in Nat /\ l = d + Msb
      BY <1>0, <1>1, <2>3
    <3>4. l % Msb = d
      <4>1. Msb \in Nat /\ l \in Nat /\ Msb <= l /\ l < 2 * Msb
        BY <1>0, <1>1, <2>3
      <4> QED  BY ONLY <4>1, ModOnce
    <3> HIDE DEF d
    <3>2. (d + Msb) % NSlots = d % NSlots
      BY <3>1, Widths, ModShift
    <3>3. k = d
      BY <3>1, <3>4, <1>0, <1>1, <2>3 DEF KeyBits
    <3> QED  BY <3>1, <3>2, <3>3, <1>0, <1>1, <2>3 DEF Ids, IndexFor
  <2> QED  BY <2>1, <2>2, <2>3, <1>0, <1>1
<1> HIDE DEF k
<1>5. KeyBits(FoldedKey(r)) = k /\ FoldedKey(r) = SetProgress(k)
  BY <1>3, <1>4, KeyBitsOf
<1> QED  BY <1>4, <1>5 DEF Index

(* The probe of a whole map comes to each slot.                            *)
LEMMA ProbeComesTo ==
    ASSUME NEW x \in Nat, NEW s \in Slots
    PROVE  \E j \in 0 .. NSlots - 1 : IndexFor(x + j) = s
<1> DEFINE j == (s - x) % NSlots
           q == (s - x) \div NSlots
           y == x + j
           t == 0 - q
<1>0. NSlots \in Nat /\ NSlots > 0 /\ s \in 0 .. NSlots - 1
  BY Widths DEF Slots
<1>1. s - x = (NSlots * q) + j /\ j \in 0 .. NSlots - 1 /\ q \in Int
  BY <1>0, ModDef
<1> HIDE DEF j, q
<1>2. NSlots * t = 0 - (NSlots * q) /\ t \in Int
  BY <1>0, <1>1
<1> HIDE DEF t
<1>3. y = (NSlots * t) + s /\ y \in Int
  BY <1>0, <1>1, <1>2
<1> HIDE DEF y
<1>4. y % NSlots = s
  BY <1>0, <1>2, <1>3, ModUnique
<1>5. IndexFor(x + j) = s
  BY <1>4 DEF y, IndexFor
<1> QED  BY <1>1, <1>5

-----------------------------------------------------------------------------
(* The inductive invariant.                                                *)

(* Where a reader is in its probe.                                         *)
ProbeBounds ==
    \A r \in Readers :
        /\ pc[r] \in {"probe", "insert"} => i[r] < NSlots
        /\ pc[r] = "refused" => i[r] = NSlots
        /\ pc[r] = "init" => Index(r) = IndexFor(id[r])
        /\ pc[r] = "remove" => seen[r] = id[r]

ValidIds == \A r \in Readers : Holds(r) => id[r] \in Ids

(* Two readers that hold keys hold them in different slots.                *)
Apart ==
    \A r, o \in Readers :
        Holds(r) /\ Holds(o) /\ r # o => IndexFor(id[r]) # IndexFor(id[o])

(* What a probe has passed is still taken, unless some reader left.        *)
PassedIsTaken ==
    \A r \in Readers : pc[r] \in {"probe", "insert", "refused"} /\ ~churn[r] =>
        \A j \in 0 .. i[r] - 1 : key[IndexFor(seed[r] + j)] # EMPTY

MapInv == /\ TypeOK /\ ProbeBounds /\ ValidIds /\ LookupFindsOwn /\ Apart
          /\ NoSlotLost /\ PassedIsTaken

LEMMA IndexTypes ==
    ASSUME TypeOK, NEW r \in Readers
    PROVE  /\ Index(r) \in Slots
           /\ RemoveIndex(r) \in Slots
           /\ \A j \in Nat : IndexFor(seed[r] + j) \in Slots
<1>1. seed[r] \in Nat /\ i[r] \in Nat /\ id[r] \in Nat
  BY Widths DEF TypeOK, Ids, EMPTY
<1> QED  BY <1>1, IndexInSlots DEF Index, RemoveIndex

LEMMA SeedKeyType ==
    ASSUME NEW n \in Seeds
    PROVE  SeedKey(n) \in Ids
<1>1. n \in Nat /\ Msb \in Nat /\ Msb > 1
  BY SeedsAssumption, Widths
<1>2. n % Msb \in 0 .. Msb - 1
  BY <1>1, ModDef
<1> QED  BY <1>1, <1>2 DEF SeedKey, KeyBits, Ids

LEMMA KeyBitsType ==
    ASSUME NEW k \in Keys
    PROVE  KeyBits(k) \in Keys
<1>1. k \in Nat /\ Msb \in Nat /\ Msb > 0
  BY Widths DEF Keys
<1>2. k % Msb \in 0 .. Msb - 1
  BY <1>1, ModDef
<1> QED  BY <1>1, <1>2 DEF KeyBits, Keys

LEMMA TypeStep ==
    ASSUME TypeOK, ProbeBounds, Next
    PROVE  TypeOK'
<1>0. NSlots \in Nat /\ NSlots > 0 /\ EMPTY \in Keys
  BY Widths DEF EMPTY, Keys
<1>1. PICK r \in Readers :
          (\E n \in Seeds : Register(r, n)) \/ Registering(r) \/ Unregister(r) \/ Remove(r)
  BY DEF Next
<1>2. Index(r) \in Slots /\ RemoveIndex(r) \in Slots
  BY IndexTypes
<1>3. ASSUME i[r] < NSlots
      PROVE  i[r] + 1 \in 0 .. NSlots /\ AfterSlot(r) \in States
  BY <1>0, <1>3 DEF TypeOK, AfterSlot, States
<1>4. ASSUME NEW n \in Seeds, Register(r, n)
      PROVE  TypeOK'
  BY <1>4, <1>0, SeedKeyType DEF TypeOK, Register, States
<1>5. CASE Probe(r)
  BY <1>5, <1>3 DEF TypeOK, Probe, NextSlot, Probed, ProbeBounds, States
<1>6. CASE Insert(r)
  <2>1. i[r] < NSlots
    BY <1>6 DEF Insert, ProbeBounds
  <2>2. FoldedKey(r) \in Keys /\ KeyBits(FoldedKey(r)) \in Ids
    BY <2>1, <1>0, FoldedKeyAtHome, KeyBitsOf DEF TypeOK
  <2> QED  BY <1>6, <1>3, <2>1, <2>2, <1>2 DEF TypeOK, Insert, CasWins, NextSlot, Probed, States
<1>7. CASE Refused(r)
  BY <1>7 DEF TypeOK, Refused, States
<1>8. CASE FinishInit(r)
  <2>1. KeyBits(key[Index(r)]) \in Keys
    BY <1>2, KeyBitsType DEF TypeOK
  <2> QED  BY <1>8, <1>2, <2>1 DEF TypeOK, FinishInit, States
<1>9. CASE Unregister(r)
  BY <1>9, <1>2 DEF TypeOK, Unregister, States
<1>10. CASE Remove(r)
  BY <1>10, <1>0, <1>2 DEF TypeOK, Remove, States
<1> QED  BY <1>1, <1>4, <1>5, <1>6, <1>7, <1>8, <1>9, <1>10 DEF Registering

LEMMA InitKeepsMap ==
    Init => MapInv
<1> SUFFICES ASSUME Init PROVE MapInv
  OBVIOUS
<1>1. TypeOK
  <2>1. 1 \in Ids /\ EMPTY \in Keys /\ 0 \in 0 .. NSlots
    BY Widths DEF Ids, EMPTY, Keys
  <2> QED  BY <2>1 DEF Init, TypeOK, States
<1> QED  BY <1>1 DEF Init, MapInv, ProbeBounds, ValidIds, LookupFindsOwn, Apart,
                     NoSlotLost, PassedIsTaken, Holds

(* A reader that holds a key makes its slot one that is not empty.         *)
LEMMA HomeIsTaken ==
    ASSUME MapInv, NEW r \in Readers, Holds(r)
    PROVE  /\ IndexFor(id[r]) \in Slots
           /\ key[IndexFor(id[r])] # EMPTY
           /\ KeyBits(key[IndexFor(id[r])]) = id[r]
<1>1. id[r] \in Ids /\ id[r] \in Nat
  BY DEF MapInv, ValidIds, Ids
<1>2. /\ KeyBits(id[r]) = id[r] /\ id[r] # EMPTY
      /\ SetProgress(id[r]) # EMPTY /\ KeyBits(SetProgress(id[r])) = id[r]
  BY <1>1, KeyBitsOf
<1> QED  BY <1>1, <1>2, IndexInSlots DEF MapInv, LookupFindsOwn, Holds

LEMMA RegisterKeepsMap ==
    ASSUME MapInv, NEW r \in Readers, NEW n \in Seeds, Register(r, n), TypeOK'
    PROVE  MapInv'
<1>0. NSlots \in Nat /\ NSlots > 0
  BY Widths
<1>1. ProbeBounds'
  BY <1>0 DEF MapInv, ProbeBounds, Register, TypeOK, Index
<1>2. ValidIds' /\ LookupFindsOwn' /\ Apart' /\ NoSlotLost'
  BY DEF MapInv, TypeOK, ValidIds, LookupFindsOwn, Apart, NoSlotLost, Register, Holds
<1>3. PassedIsTaken'
  BY DEF MapInv, TypeOK, PassedIsTaken, Register
<1> QED  BY <1>1, <1>2, <1>3 DEF MapInv

(* On to the next slot, where this one is taken.                           *)
LEMMA PassingKeepsMap ==
    ASSUME MapInv, NEW r \in Readers, TypeOK', pc[r] \in {"probe", "insert"},
           key[Index(r)] # EMPTY, NextSlot(r), UNCHANGED <<key, seed, seen, id, churn>>
    PROVE  MapInv'
<1>0. NSlots \in Nat /\ NSlots > 0 /\ i[r] \in 0 .. NSlots - 1
  BY Widths DEF MapInv, ProbeBounds, TypeOK
<1>1. /\ pc' = [pc EXCEPT ![r] = AfterSlot(r)]
      /\ AfterSlot(r) \in {"probe", "refused"}
      /\ AfterSlot(r) = "refused" <=> i[r] + 1 = NSlots
      /\ i' = [i EXCEPT ![r] = i[r] + 1]
  BY DEF NextSlot, AfterSlot, Probed
<1>2. ProbeBounds'
  <2> SUFFICES ASSUME NEW o \in Readers
               PROVE  /\ pc'[o] \in {"probe", "insert"} => i'[o] < NSlots
                      /\ pc'[o] = "refused" => i'[o] = NSlots
                      /\ pc'[o] = "init" => Index(o)' = IndexFor(id[o])
                      /\ pc'[o] = "remove" => seen[o] = id[o]
    BY DEF ProbeBounds
  <2>1. CASE o = r
    BY <1>0, <1>1, <2>1 DEF MapInv, TypeOK
  <2>2. CASE o # r
    BY <1>1, <2>2 DEF MapInv, TypeOK, ProbeBounds, Index
  <2> QED  BY <2>1, <2>2
<1>3. ValidIds' /\ LookupFindsOwn' /\ Apart' /\ NoSlotLost'
  BY <1>1 DEF MapInv, TypeOK, ValidIds, LookupFindsOwn, Apart, NoSlotLost, Holds
<1>4. PassedIsTaken'
  <2> SUFFICES ASSUME NEW o \in Readers, pc'[o] \in {"probe", "insert", "refused"},
                      ~churn[o], NEW j \in 0 .. i'[o] - 1
               PROVE  key[IndexFor(seed[o] + j)] # EMPTY
    BY DEF PassedIsTaken
  <2>1. CASE o # r
    BY <1>1, <2>1 DEF MapInv, TypeOK, PassedIsTaken
  <2>2. CASE o = r /\ j = i[r]
    BY <2>2 DEF Index
  <2>3. CASE o = r /\ j # i[r]
    <3>1. j \in 0 .. i[r] - 1
      BY <1>0, <1>1, <2>3 DEF MapInv, TypeOK
    <3> QED  BY <3>1, <2>3 DEF MapInv, PassedIsTaken
  <2> QED  BY <2>1, <2>2, <2>3
<1> QED  BY <1>2, <1>3, <1>4 DEF MapInv

LEMMA ProbeKeepsMap ==
    ASSUME MapInv, NEW r \in Readers, Probe(r), TypeOK'
    PROVE  MapInv'
<1>1. CASE key[Index(r)] # EMPTY
  BY <1>1, PassingKeepsMap DEF Probe
<1>2. CASE key[Index(r)] = EMPTY
  <2>1. pc[r] = "probe" /\ pc' = [pc EXCEPT ![r] = "insert"]
        /\ UNCHANGED <<key, seed, i, seen, id, churn>>
    BY <1>2 DEF Probe
  <2>2. ProbeBounds'
    BY <2>1 DEF MapInv, TypeOK, ProbeBounds, Index
  <2>3. ValidIds' /\ LookupFindsOwn' /\ Apart' /\ NoSlotLost'
    BY <2>1 DEF MapInv, TypeOK, ValidIds, LookupFindsOwn, Apart, NoSlotLost, Holds
  <2>4. PassedIsTaken'
    BY <2>1 DEF MapInv, TypeOK, PassedIsTaken
  <2> QED  BY <2>2, <2>3, <2>4 DEF MapInv
<1> QED  BY <1>1, <1>2

LEMMA InsertKeepsMap ==
    ASSUME MapInv, NEW r \in Readers, Insert(r), TypeOK'
    PROVE  MapInv'
<1>1. CASE key[Index(r)] # EMPTY
  BY <1>1, PassingKeepsMap DEF Insert, CasWins
<1>2. CASE key[Index(r)] = EMPTY
  <2> DEFINE k == KeyBits(FoldedKey(r))
  <2>1. /\ pc[r] = "insert" /\ pc' = [pc EXCEPT ![r] = "init"]
        /\ key' = [key EXCEPT ![Index(r)] = FoldedKey(r)]
        /\ id' = [id EXCEPT ![r] = k]
        /\ UNCHANGED <<seed, i, seen, churn>>
    BY <1>2 DEF Insert, CasWins
  <2>2. k \in Ids /\ FoldedKey(r) = SetProgress(k) /\ IndexFor(k) = Index(r)
    <3>1. seed[r] \in Ids /\ i[r] \in 0 .. NSlots - 1
      BY <2>1, Widths DEF MapInv, TypeOK, ProbeBounds
    <3> QED  BY <3>1, FoldedKeyAtHome
  <2>3. /\ FoldedKey(r) # EMPTY /\ KeyBits(FoldedKey(r)) = k
        /\ Index(r) \in Slots
    BY <2>2, KeyBitsOf, IndexTypes DEF MapInv
  <2> HIDE DEF k
  <2>4. /\ id'[r] = k /\ key'[Index(r)] = FoldedKey(r)
        /\ \A s \in Slots : s # Index(r) => key'[s] = key[s]
        /\ \A o \in Readers : o # r => id'[o] = id[o] /\ pc'[o] = pc[o]
        /\ pc'[r] = "init" /\ ~Holds(r)
    BY <2>1, <2>3 DEF MapInv, TypeOK, Holds
  <2>5. ASSUME NEW o \in Readers, Holds(o)
        PROVE  /\ IndexFor(id[o]) # Index(r) /\ o # r
               /\ key'[IndexFor(id[o])] = key[IndexFor(id[o])]
    BY <1>2, <2>4, <2>5, HomeIsTaken
  <2>6. ProbeBounds'
    BY <2>1, <2>2, <2>4 DEF MapInv, TypeOK, ProbeBounds, Index
  <2>7. ValidIds'
    BY <2>2, <2>4 DEF MapInv, ValidIds, Holds
  <2>8. LookupFindsOwn'
    <3> SUFFICES ASSUME NEW o \in Readers
                 PROVE  /\ pc'[o] = "init" => key'[IndexFor(id'[o])] = SetProgress(id'[o])
                        /\ pc'[o] \in {"registered", "remove"} =>
                               key'[IndexFor(id'[o])] = id'[o]
      BY DEF LookupFindsOwn
    <3>1. CASE o = r
      BY <3>1, <2>2, <2>4
    <3>2. CASE o # r
      BY <3>2, <2>4, <2>5 DEF MapInv, LookupFindsOwn, Holds
    <3> QED  BY <3>1, <3>2
  <2>9. Apart'
    BY <2>2, <2>4, <2>5 DEF MapInv, Apart, Holds
  <2>10. NoSlotLost'
    <3> SUFFICES ASSUME NEW s \in Slots, key'[s] # EMPTY
                 PROVE  \E o \in Readers : /\ Holds(o)' /\ IndexFor(id'[o]) = s
                                           /\ KeyBits(key'[s]) = id'[o]
      BY DEF NoSlotLost
    <3>1. CASE s = Index(r)
      BY <3>1, <2>2, <2>3, <2>4 DEF Holds
    <3>2. CASE s # Index(r)
      BY <3>2, <2>4 DEF MapInv, NoSlotLost, Holds
    <3> QED  BY <3>1, <3>2
  <2>11. PassedIsTaken'
    <3> SUFFICES ASSUME NEW o \in Readers, pc'[o] \in {"probe", "insert", "refused"},
                        ~churn[o], NEW j \in 0 .. i[o] - 1
                 PROVE  key'[IndexFor(seed[o] + j)] # EMPTY
      BY <2>1 DEF PassedIsTaken
    <3>1. o # r /\ key[IndexFor(seed[o] + j)] # EMPTY
      BY <2>4 DEF MapInv, PassedIsTaken
    <3>2. IndexFor(seed[o] + j) \in Slots
      BY IndexTypes DEF MapInv
    <3> QED  BY <3>1, <3>2, <2>3, <2>4
  <2> QED  BY <2>6, <2>7, <2>8, <2>9, <2>10, <2>11 DEF MapInv
<1> QED  BY <1>1, <1>2

LEMMA FinishInitKeepsMap ==
    ASSUME MapInv, NEW r \in Readers, FinishInit(r), TypeOK'
    PROVE  MapInv'
<1>1. /\ pc[r] = "init" /\ pc' = [pc EXCEPT ![r] = "registered"] /\ Holds(r)
      /\ Index(r) = IndexFor(id[r])
      /\ key' = [key EXCEPT ![Index(r)] = KeyBits(key[Index(r)])]
      /\ UNCHANGED <<seed, i, seen, id, churn>>
  BY DEF FinishInit, Holds, MapInv, ProbeBounds
<1>2. Index(r) \in Slots /\ KeyBits(key[Index(r)]) = id[r] /\ id[r] \in Ids
  BY <1>1, HomeIsTaken DEF MapInv, ValidIds
<1>3. id[r] # EMPTY /\ KeyBits(id[r]) = id[r]
  BY <1>2, KeyBitsOf
<1>4. /\ key'[Index(r)] = id[r]
      /\ \A s \in Slots : s # Index(r) => key'[s] = key[s]
      /\ \A o \in Readers : o # r => pc'[o] = pc[o]
      /\ pc'[r] = "registered"
      /\ \A o \in Readers : Holds(o)' <=> Holds(o)
  BY <1>1, <1>2 DEF MapInv, TypeOK, Holds
<1>5. ASSUME NEW o \in Readers, Holds(o), o # r
      PROVE  key'[IndexFor(id[o])] = key[IndexFor(id[o])]
  BY <1>1, <1>4, <1>5, HomeIsTaken DEF MapInv, Apart
<1>6. ProbeBounds' /\ ValidIds' /\ Apart'
  BY <1>1, <1>4 DEF MapInv, TypeOK, ProbeBounds, ValidIds, Apart, Index
<1>7. LookupFindsOwn'
  <2> SUFFICES ASSUME NEW o \in Readers
               PROVE  /\ pc'[o] = "init" => key'[IndexFor(id[o])] = SetProgress(id[o])
                      /\ pc'[o] \in {"registered", "remove"} =>
                             key'[IndexFor(id[o])] = id[o]
    BY <1>1 DEF LookupFindsOwn
  <2>1. CASE o = r
    BY <2>1, <1>1, <1>4
  <2>2. CASE o # r
    BY <2>2, <1>4, <1>5 DEF MapInv, LookupFindsOwn, Holds
  <2> QED  BY <2>1, <2>2
<1>8. NoSlotLost'
  <2> SUFFICES ASSUME NEW s \in Slots, key'[s] # EMPTY
               PROVE  \E o \in Readers : /\ Holds(o)' /\ IndexFor(id[o]) = s
                                         /\ KeyBits(key'[s]) = id[o]
    BY <1>1 DEF NoSlotLost
  <2>1. CASE s = Index(r)
    BY <2>1, <1>1, <1>3, <1>4
  <2>2. CASE s # Index(r)
    BY <2>2, <1>4 DEF MapInv, NoSlotLost
  <2> QED  BY <2>1, <2>2
<1>9. PassedIsTaken'
  <2> SUFFICES ASSUME NEW o \in Readers, pc'[o] \in {"probe", "insert", "refused"},
                      ~churn[o], NEW j \in 0 .. i[o] - 1
               PROVE  key'[IndexFor(seed[o] + j)] # EMPTY
    BY <1>1 DEF PassedIsTaken
  <2>1. key[IndexFor(seed[o] + j)] # EMPTY
    BY <1>4 DEF MapInv, PassedIsTaken
  <2>2. IndexFor(seed[o] + j) \in Slots
    BY IndexTypes DEF MapInv
  <2> QED  BY <2>1, <2>2, <1>3, <1>4
<1> QED  BY <1>6, <1>7, <1>8, <1>9 DEF MapInv

LEMMA RemoveKeepsMap ==
    ASSUME MapInv, NEW r \in Readers, Remove(r), TypeOK'
    PROVE  MapInv'
<1>1. /\ pc[r] = "remove" /\ pc' = [pc EXCEPT ![r] = "idle"] /\ Holds(r)
      /\ seen[r] = id[r] /\ key[RemoveIndex(r)] = id[r]
      /\ id' = [id EXCEPT ![r] = EMPTY]
      /\ seen' = [seen EXCEPT ![r] = EMPTY]
      /\ UNCHANGED <<seed, i>>
  BY DEF Remove, Holds, MapInv, ProbeBounds, LookupFindsOwn, RemoveIndex
<1>2. KeyBits(seen[r]) = id[r]
  BY <1>1, KeyBitsOf DEF MapInv, ValidIds
<1>3. key' = [key EXCEPT ![RemoveIndex(r)] = EMPTY] /\ churn' = [o \in Readers |-> TRUE]
  BY <1>1, <1>2 DEF Remove
<1>4. /\ RemoveIndex(r) \in Slots /\ RemoveIndex(r) = IndexFor(id[r])
      /\ key'[RemoveIndex(r)] = EMPTY
      /\ \A s \in Slots : s # RemoveIndex(r) => key'[s] = key[s]
      /\ \A o \in Readers : o # r => pc'[o] = pc[o] /\ id'[o] = id[o] /\ seen'[o] = seen[o]
      /\ pc'[r] = "idle" /\ ~Holds(r)'
      /\ \A o \in Readers : o # r => (Holds(o)' <=> Holds(o))
  BY <1>1, <1>3, IndexTypes DEF MapInv, TypeOK, Holds, RemoveIndex
<1>5. ASSUME NEW o \in Readers, Holds(o), o # r
      PROVE  key'[IndexFor(id[o])] = key[IndexFor(id[o])]
  BY <1>1, <1>4, <1>5, HomeIsTaken DEF MapInv, Apart
<1>6. ProbeBounds'
  BY <1>1, <1>4 DEF MapInv, ProbeBounds, Index
<1>7. ValidIds' /\ Apart'
  BY <1>4 DEF MapInv, ValidIds, Apart
<1>8. LookupFindsOwn'
  BY <1>4, <1>5 DEF MapInv, LookupFindsOwn, Holds
<1>9. NoSlotLost'
  <2> SUFFICES ASSUME NEW s \in Slots, key'[s] # EMPTY
               PROVE  \E o \in Readers : /\ Holds(o)' /\ IndexFor(id'[o]) = s
                                         /\ KeyBits(key'[s]) = id'[o]
    BY DEF NoSlotLost
  <2>1. s # RemoveIndex(r) /\ key'[s] = key[s]
    BY <1>4
  <2>2. PICK o \in Readers : Holds(o) /\ IndexFor(id[o]) = s /\ KeyBits(key[s]) = id[o]
    BY <2>1 DEF MapInv, NoSlotLost
  <2> QED  BY <2>1, <2>2, <1>4
<1>10. PassedIsTaken'
  BY <1>3 DEF PassedIsTaken
<1> QED  BY <1>6, <1>7, <1>8, <1>9, <1>10 DEF MapInv

LEMMA StepKeepsMap ==
    ASSUME MapInv, [Next]_vars
    PROVE  MapInv'
<1>1. CASE UNCHANGED vars
  BY <1>1 DEF vars, MapInv, TypeOK, ProbeBounds, ValidIds, LookupFindsOwn, Apart,
              NoSlotLost, PassedIsTaken, Holds, Index
<1>2. CASE Next
  <2>1. TypeOK'
    BY <1>2, TypeStep DEF MapInv
  <2>2. PICK r \in Readers :
          (\E n \in Seeds : Register(r, n)) \/ Registering(r) \/ Unregister(r) \/ Remove(r)
    BY <1>2 DEF Next
  <2>3. CASE Refused(r)
    <3>1. ProbeBounds'
      BY <2>3 DEF Refused, MapInv, TypeOK, ProbeBounds, Index
    <3>2. ValidIds' /\ LookupFindsOwn' /\ Apart' /\ NoSlotLost' /\ PassedIsTaken'
      BY <2>3 DEF Refused, MapInv, TypeOK, ValidIds, LookupFindsOwn, Apart, NoSlotLost,
                  PassedIsTaken, Holds
    <3> QED  BY <3>1, <3>2, <2>1 DEF MapInv
  <2>4. CASE Unregister(r)
    <3>1. ProbeBounds'
      BY <2>4 DEF Unregister, MapInv, TypeOK, ProbeBounds, LookupFindsOwn, Index, RemoveIndex
    <3>2. ValidIds' /\ LookupFindsOwn' /\ Apart' /\ NoSlotLost' /\ PassedIsTaken'
      BY <2>4 DEF Unregister, MapInv, TypeOK, ValidIds, LookupFindsOwn, Apart, NoSlotLost,
                  PassedIsTaken, Holds
    <3> QED  BY <3>1, <3>2, <2>1 DEF MapInv
  <2> QED  BY <2>1, <2>2, <2>3, <2>4, RegisterKeepsMap, ProbeKeepsMap, InsertKeepsMap,
              FinishInitKeepsMap, RemoveKeepsMap DEF Registering
<1> QED  BY <1>1, <1>2

LEMMA MapAlwaysInv ==
    Spec => []MapInv
BY InitKeepsMap, StepKeepsMap, PTL DEF Spec

-----------------------------------------------------------------------------
(* Every variable keeps its type: no probe leaves the map, no fold makes a *)
(* key that is wider than the word.                                        *)
THEOREM MapTypeCorrect ==
    Spec => []TypeOK
<1>1. MapInv => TypeOK
  BY DEF MapInv
<1> QED  BY <1>1, MapAlwaysInv, PTL

(* Two readers that register at the same time, with the same seed even, get*)
(* valid and different reader_ids.                                         *)
THEOREM IdsAlwaysUnique ==
    Spec => []UniqueIds
<1>1. MapInv => UniqueIds
  BY DEF MapInv, ValidIds, Apart, UniqueIds
<1> QED  BY <1>1, MapAlwaysInv, PTL

(* IMMEDIATE lookups and removals are right: a reader_id leads to the slot *)
(* that was claimed with it.                                               *)
THEOREM LookupAlwaysFindsOwn ==
    Spec => []LookupFindsOwn
<1>1. MapInv => LookupFindsOwn
  BY DEF MapInv
<1> QED  BY <1>1, MapAlwaysInv, PTL

(* Slots are not lost, however registrations and removals interleave.      *)
THEOREM SlotsNeverLost ==
    Spec => []NoSlotLost
<1>1. MapInv => NoSlotLost
  BY DEF MapInv
<1> QED  BY <1>1, MapAlwaysInv, PTL

(* A registration that fails although nobody left meanwhile came to every  *)
(* slot and found each taken.                                              *)
THEOREM RefusedAlwaysFull ==
    Spec => []RefusedMeansFull
<1>1. MapInv => RefusedMeansFull
  <2> SUFFICES ASSUME MapInv, NEW r \in Readers, pc[r] = "refused", ~churn[r],
                      NEW s \in Slots
               PROVE  key[s] # EMPTY
    BY DEF RefusedMeansFull
  <2>1. seed[r] \in Nat /\ i[r] = NSlots
    BY DEF MapInv, TypeOK, ProbeBounds, Ids
  <2>2. PICK j \in 0 .. NSlots - 1 : IndexFor(seed[r] + j) = s
    BY <2>1, ProbeComesTo
  <2> QED  BY <2>1, <2>2 DEF MapInv, PassedIsTaken
<1> QED  BY <1>1, MapAlwaysInv, PTL

-----------------------------------------------------------------------------
(* The refinement.  The holder of a slot is the reader whose id has the    *)
(* slot's index.                                                           *)
LEMMA HolderIs ==
    MapInv => \A s \in Slots :
        /\ HolderOf(s) \in Readers \cup {EMPTY}
        /\ \A r \in Readers : HolderOf(s) = r <=> Holds(r) /\ IndexFor(id[r]) = s
<1> SUFFICES ASSUME MapInv, NEW s \in Slots
             PROVE  /\ HolderOf(s) \in Readers \cup {EMPTY}
                    /\ \A r \in Readers :
                           HolderOf(s) = r <=> Holds(r) /\ IndexFor(id[r]) = s
  OBVIOUS
<1>1. CASE key[s] = EMPTY
  <2>1. HolderOf(s) = EMPTY
    BY <1>1 DEF HolderOf
  <2>2. \A r \in Readers : ~(Holds(r) /\ IndexFor(id[r]) = s)
    BY <1>1, HomeIsTaken
  <2> QED  BY <2>1, <2>2, ReadersAssumption
<1>2. CASE key[s] # EMPTY
  <2> DEFINE owners == {r \in Readers : Holds(r) /\ id[r] = KeyBits(key[s])}
  <2>1. PICK o \in Readers : Holds(o) /\ IndexFor(id[o]) = s /\ KeyBits(key[s]) = id[o]
    BY <1>2 DEF MapInv, NoSlotLost
  <2>2. \A r \in Readers : Holds(r) /\ IndexFor(id[r]) = s => r = o
    BY <2>1 DEF MapInv, Apart
  <2>3. owners = {o}
    BY <2>1, <2>2
  <2>4. HolderOf(s) = CHOOSE r \in owners : TRUE
    BY <1>2, <2>3 DEF HolderOf
  <2>5. HolderOf(s) = o
    BY <2>3, <2>4
  <2> QED  BY <2>1, <2>2, <2>5
<1> QED  BY <1>1, <1>2

LEMMA HolderIsPrimed ==
    MapInv' => \A s \in Slots :
        /\ HolderOf(s)' \in Readers \cup {EMPTY}
        /\ \A r \in Readers : HolderOf(s)' = r <=> Holds(r)' /\ IndexFor(id'[r]) = s
<1>1. (MapInv => \A s \in Slots :
        /\ HolderOf(s) \in Readers \cup {EMPTY}
        /\ \A r \in Readers : HolderOf(s) = r <=> Holds(r) /\ IndexFor(id[r]) = s)'
  BY HolderIs, PTL
<1> QED  BY <1>1

(* As long as the same readers hold the same ids, the registry stands.     *)
LEMMA SameHolders ==
    ASSUME MapInv, MapInv',
           \A r \in Readers : Holds(r)' <=> Holds(r),
           \A r \in Readers : Holds(r) => id'[r] = id[r]
    PROVE  Holders' = Holders
<1>1. ASSUME NEW s \in Slots
      PROVE  HolderOf(s)' = HolderOf(s)
  BY HolderIs, HolderIsPrimed, ReadersAssumption
<1> QED  BY <1>1 DEF Holders

(* A slot changes hands, and no other does.                                *)
LEMMA OneHandover ==
    ASSUME NEW s \in Slots, NEW h, HolderOf(s)' = h,
           \A t \in Slots : t # s => HolderOf(t)' = HolderOf(t)
    PROVE  Holders' = [Holders EXCEPT ![s] = h]
BY DEF Holders

LEMMA InsertClaims ==
    ASSUME MapInv, MapInv', NEW r \in Readers, Insert(r), CasWins(r)
    PROVE  \E s \in Slots : Abstract!Claim(r, s)
<1>0. PICK s \in Slots : s = Index(r)
  BY IndexTypes DEF MapInv
<1>1. /\ ~Holds(r) /\ Holds(r)' /\ id'[r] = KeyBits(FoldedKey(r))
      /\ \A o \in Readers : o # r => id'[o] = id[o] /\ (Holds(o)' <=> Holds(o))
      /\ HolderOf(s) = EMPTY
  BY <1>0 DEF Insert, CasWins, Holds, HolderOf, MapInv, TypeOK
<1>2. IndexFor(id'[r]) = s
  <2>1. seed[r] \in Ids /\ i[r] \in 0 .. NSlots - 1
    BY Widths DEF Insert, MapInv, TypeOK, ProbeBounds
  <2> QED  BY <2>1, <1>0, <1>1, FoldedKeyAtHome
<1>3. \A t \in Slots : HolderOf(t) # r
  BY <1>1, HolderIs
<1>4. HolderOf(s)' = r
  BY <1>1, <1>2, HolderIsPrimed
<1>5. ASSUME NEW t \in Slots, t # s
      PROVE  HolderOf(t)' = HolderOf(t)
  BY <1>1, <1>2, <1>5, HolderIs, HolderIsPrimed, ReadersAssumption
<1>6. Holders' = [Holders EXCEPT ![s] = r]
  BY <1>4, <1>5, OneHandover
<1> QED  BY <1>1, <1>3, <1>6 DEF Abstract!Claim, Holders

LEMMA RemoveGivesUp ==
    ASSUME MapInv, MapInv', NEW r \in Readers, Remove(r)
    PROVE  \E s \in Slots : Abstract!GiveUp(s)
<1>1. /\ Holds(r) /\ ~Holds(r)'
      /\ \A o \in Readers : o # r => id'[o] = id[o] /\ (Holds(o)' <=> Holds(o))
  BY DEF Remove, Holds, MapInv, TypeOK
<1>2. PICK s \in Slots : s = IndexFor(id[r])
  BY <1>1, HomeIsTaken
<1>3. HolderOf(s) = r
  BY <1>1, <1>2, HolderIs
<1>4. HolderOf(s)' = EMPTY
  BY <1>1, <1>2, <1>3, HolderIs, HolderIsPrimed, ReadersAssumption
<1>5. ASSUME NEW t \in Slots, t # s
      PROVE  HolderOf(t)' = HolderOf(t)
  BY <1>1, <1>2, <1>5, HolderIs, HolderIsPrimed, ReadersAssumption
<1>6. Holders' = [Holders EXCEPT ![s] = EMPTY]
  BY <1>4, <1>5, OneHandover
<1> QED  BY <1>3, <1>6, ReadersAssumption DEF Abstract!GiveUp, Holders

(* What Area and Teardown assume of the map: a registration is given any   *)
(* free slot, in one step, and a reader keeps its own until it leaves.     *)
THEOREM MapImplementsRegistry ==
    Spec => ImplementsRegistry
<1>1. Init => Abstract!Init
  BY DEF Init, Abstract!Init, Holders, HolderOf
<1>2. ASSUME MapInv, MapInv', [Next]_vars
      PROVE  [Abstract!Next]_Holders
  <2>1. CASE UNCHANGED vars
    BY <1>2, <2>1, SameHolders DEF vars, Holds
  <2>2. ASSUME NEW r \in Readers, Insert(r), CasWins(r)
        PROVE  Abstract!Next
    BY <1>2, <2>2, InsertClaims DEF Abstract!Next
  <2>3. ASSUME NEW r \in Readers, Remove(r)
        PROVE  Abstract!Next
    BY <1>2, <2>3, RemoveGivesUp DEF Abstract!Next
  <2>4. ASSUME NEW r \in Readers, NEW n \in Seeds, Register(r, n)
        PROVE  Holders' = Holders
    BY <1>2, <2>4, SameHolders DEF Register, Holds, MapInv, TypeOK
  <2>5. ASSUME NEW r \in Readers, Unregister(r)
        PROVE  Holders' = Holders
    BY <1>2, <2>5, SameHolders DEF Unregister, Holds, MapInv, TypeOK
  <2>6. ASSUME NEW r \in Readers, Refused(r) \/ FinishInit(r)
        PROVE  Holders' = Holders
    BY <1>2, <2>6, SameHolders DEF Refused, FinishInit, Holds, MapInv, TypeOK
  <2>7. ASSUME NEW r \in Readers, Probe(r) \/ (Insert(r) /\ ~CasWins(r))
        PROVE  Holders' = Holders
    BY <1>2, <2>7, SameHolders
       DEF Probe, Insert, NextSlot, AfterSlot, Holds, MapInv, TypeOK
  <2> QED  BY <1>2, <2>1, <2>2, <2>3, <2>4, <2>5, <2>6, <2>7 DEF Next, Registering
<1> QED  BY <1>1, <1>2, MapAlwaysInv, PTL DEF Spec, ImplementsRegistry, Abstract!Spec
=============================================================================

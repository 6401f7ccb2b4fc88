-------------------------- MODULE AreaSafetyProofs --------------------------
(***************************************************************************)
(* Proofs that the claims of readers hold in Area: whatever the            *)
(* interleaving, no cleanup passes the word of a slot, and nobody but its  *)
(* owner touches an active word.                                           *)
(*                                                                         *)
(* The inductive invariant says who owns each slot (Owned), what a reader  *)
(* that is between a load and a store knows of its word (WordFits), and    *)
(* what a scan knows of the slots behind it (ScanFits).                    *)
(***************************************************************************)
EXTENDS AreaProofs

-----------------------------------------------------------------------------
(* A handle owns the slot its key is in, and a slot nobody owns is         *)
(* suspended.                                                              *)
Owned ==
    /\ \A r \in Readers : rpc[r] = "none" <=> rslot[r] = NoSlot
    /\ \A r \in Readers : rpc[r] # "none" => key[rslot[r]] = r
    /\ \A s \in Slots : key[s] = Empty => IsSuspended(slot[s])

(* What a reader loaded is still there, up to what cleanup may do to a     *)
(* suspended word; what it will store does not lie behind it.              *)
WordFits(r) ==
    /\ rpc[r] \in {"none", "register", "registering"} => rentry[r] = AsIs
    /\ rpc[r] \in {"register", "registering", "resuming", "remove"} =>
          IsSuspended(Word(r))
    /\ rpc[r] \in {"registering", "resuming"} => IsSuspended(rword[r])
    /\ rpc[r] = "resuming" /\ rentry[r] # AsIs => rword[r].gen <= rentry[r]
    /\ rpc[r] \in {"suspend", "leave", "advancing"} =>
          ~IsSuspended(rword[r]) /\ Word(r) = rword[r]
    /\ rpc[r] \in {"read", "slice", "advance"} =>
          \/ IsSuspended(rword[r]) /\ IsSuspended(Word(r))
          \/ ~IsSuspended(rword[r]) /\ Word(r) = rword[r]
    /\ rpc[r] = "advancing" => rword[r].gen < rend[r]

(* The minimum of a scan lies behind every slot it has passed, and it is   *)
(* about to force forward only what is suspended and behind the minimum.   *)
ScanFits(c) ==
    /\ cpc[c] \in {"scan", "force", "claim"} =>
          \A s \in Slots : s < cidx[c] => cmin[c] <= slot[s].gen
    /\ cpc[c] = "force" => IsSuspended(cword[c]) /\ cword[c].gen < cmin[c]
    /\ cpc[c] = "claim" => cidx[c] = NSlots

Claims ==
    /\ Owned
    /\ \A r \in Readers : WordFits(r)
    /\ \A c \in Cleaners : ScanFits(c)
    /\ ClaimsHold

ClaimsInv == TypeInv /\ Claims

-----------------------------------------------------------------------------
LEMMA InitClaims == Init => Claims
<1> SUFFICES ASSUME Init PROVE Claims
  OBVIOUS
<1>1. Owned
  BY SlotsAssumption, ReadersAssumption
     DEF Init, Owned, FirstSlot, Slots, NoSlot, IsSuspended
<1>2. \A r \in Readers : WordFits(r)
  BY DEF Init, WordFits
<1>3. \A c \in Cleaners : ScanFits(c)
  BY DEF Init, ScanFits
<1>4. ClaimsHold
  BY DEF Init, ClaimsHold
<1> QED
  BY <1>1, <1>2, <1>3, <1>4 DEF Claims

(* Steps that leave the map alone keep what is said of it.                 *)
OtherReadersStay(r) ==
    \A q \in Readers \ {r} :
        /\ rpc'[q] = rpc[q] /\ rslot'[q] = rslot[q] /\ rword'[q] = rword[q]
        /\ rentry'[q] = rentry[q] /\ rend'[q] = rend[q]

(* No two handles own one slot.                                            *)
LEMMA OneOwner ==
    ASSUME Owned, NEW r \in Readers, NEW q \in Readers, q # r, rpc[r] # "none"
    PROVE  rslot[q] # rslot[r]
  BY DEF Owned

(* A reader that only changes variables of its own.                        *)
LEMMA QuietStep ==
    ASSUME Claims, NEW r \in Readers, OtherReadersStay(r),
           rpc[r] # "none", rpc'[r] # "none",
           UNCHANGED <<slot, key, rslot, last_valid_gen, cvars>>,
           WordFits(r)'
    PROVE  Claims'
<1>1. Owned'
  BY DEF Claims, Owned, OtherReadersStay
<1>2. ASSUME NEW q \in Readers PROVE WordFits(q)'
  <2>1. CASE q = r
    BY <2>1
  <2>2. CASE q # r
    BY <2>2 DEF Claims, WordFits, Word, OtherReadersStay
  <2> QED
    BY <2>1, <2>2
<1>3. \A c \in Cleaners : ScanFits(c)'
  BY DEF Claims, ScanFits, cvars
<1>4. ClaimsHold'
  BY DEF Claims, ClaimsHold
<1> QED
  BY <1>1, <1>2, <1>3, <1>4 DEF Claims

(* A reader that stores a word into its slot, not behind the old one.      *)
LEMMA StoreStep ==
    ASSUME ClaimsInv, TypeInv', NEW r \in Readers, OtherReadersStay(r),
           rpc[r] # "none", rpc'[r] # "none",
           UNCHANGED <<key, rslot, last_valid_gen, cvars>>,
           NEW word \in Words, SetWord(r, word), Word(r).gen <= word.gen,
           WordFits(r)'
    PROVE  Claims'
<1>1. rslot[r] \in Slots /\ slot \in [Slots -> Words]
  BY DEF ClaimsInv, TypeInv, TypeOK, MapTypes, HasSlot
<1>2. slot'[rslot[r]] = word /\ \A s \in Slots \ {rslot[r]} : slot'[s] = slot[s]
  BY <1>1 DEF SetWord
<1>3. \A s \in Slots : slot[s].gen <= slot'[s].gen
  BY <1>1, <1>2 DEF Word, Words
<1>4. Owned'
  <2>1. \A s \in Slots : key[s] = Empty => s # rslot[r]
    BY ReadersAssumption DEF ClaimsInv, Claims, Owned
  <2> QED
    BY <1>2, <2>1 DEF ClaimsInv, Claims, Owned, OtherReadersStay
<1>5. ASSUME NEW q \in Readers PROVE WordFits(q)'
  <2>1. CASE q = r
    BY <2>1
  <2>2. CASE q # r /\ rpc[q] = "none"
    BY <2>2 DEF ClaimsInv, Claims, WordFits, OtherReadersStay
  <2>3. CASE q # r /\ rpc[q] # "none"
    <3>1. rslot[q] \in Slots /\ rslot[q] # rslot[r]
      BY <2>3, OneOwner DEF ClaimsInv, Claims, TypeInv, HasSlot
    <3>2. Word(q)' = Word(q)
      BY <1>2, <3>1 DEF Word
    <3> QED
      BY <2>3, <3>2 DEF ClaimsInv, Claims, WordFits, OtherReadersStay
  <2> QED
    BY <2>1, <2>2, <2>3
<1>6. ASSUME NEW c \in Cleaners PROVE ScanFits(c)'
  <2>1. cmin[c] \in Nat /\ \A s \in Slots : slot[s].gen \in Nat /\ slot'[s].gen \in Nat
    BY <1>1 DEF ClaimsInv, TypeInv, TypeOK, CleanerTypes, MapTypes, Words
  <2> QED
    BY <1>3, <2>1 DEF ClaimsInv, Claims, ScanFits, cvars
<1>7. ClaimsHold'
  <2>1. last_valid_gen \in Nat /\ \A s \in Slots : slot[s].gen \in Nat /\ slot'[s].gen \in Nat
    BY <1>1 DEF ClaimsInv, TypeInv, TypeOK, CounterTypes, MapTypes, Words
  <2> QED
    BY <1>3, <2>1 DEF ClaimsInv, Claims, ClaimsHold
<1> QED
  BY <1>4, <1>5, <1>6, <1>7 DEF Claims

(* The operations of a reader.                                             *)
LEMMA ReaderKeepsClaims ==
    ASSUME ClaimsInv, TypeInv', NEW r \in Readers, ReaderCall(r) \/ ReaderStep(r)
    PROVE  Claims'
<1> USE DEF ClaimsInv
<1>0. /\ rpc \in [Readers -> ReaderStates] /\ rslot \in [Readers -> Slots \cup {NoSlot}]
      /\ rword \in [Readers -> Words] /\ rentry \in [Readers -> Nat \cup {AsIs}]
      /\ rend \in [Readers -> Nat] /\ slot \in [Slots -> Words]
      /\ (rpc[r] # "none" => rslot[r] \in Slots /\ Word(r) \in Words)
  BY DEF TypeInv, TypeOK, ReaderTypes, MapTypes, HasSlot, Word
<1>1. ASSUME RegisterLoad(r) PROVE Claims'
  <2>1. OtherReadersStay(r) /\ rpc[r] # "none" /\ rpc'[r] # "none"
        /\ UNCHANGED <<slot, key, rslot, last_valid_gen, cvars>>
    BY <1>0, <1>1 DEF RegisterLoad, LoadWord, OtherReadersStay, counters
  <2>2. WordFits(r)'
    BY <1>0, <1>1 DEF RegisterLoad, LoadWord, Claims, WordFits, Word
  <2> QED
    BY <2>1, <2>2, QuietStep
<1>2. ASSUME NEW e \in {AsIs} \cup (0 .. read_gen + ResumeAhead), Resume(r, e) PROVE Claims'
  <2>1. OtherReadersStay(r) /\ rpc[r] # "none" /\ rpc'[r] # "none"
        /\ UNCHANGED <<slot, key, rslot, last_valid_gen, cvars>>
    BY <1>0, <1>2 DEF Resume, OtherReadersStay, counters
  <2>2. WordFits(r)'
    BY <1>0, <1>2 DEF Resume, Claims, WordFits, Word
  <2> QED
    BY <2>1, <2>2, QuietStep
<1>3. ASSUME ResumeLoad(r) PROVE Claims'
  <2>1. OtherReadersStay(r) /\ rpc[r] # "none" /\ rpc'[r] # "none"
        /\ UNCHANGED <<slot, key, rslot, last_valid_gen, cvars>>
    BY <1>0, <1>3 DEF ResumeLoad, LoadWord, ReaderAt, TooOld, OtherReadersStay, counters
  <2>2. WordFits(r)'
    <3>1. CASE ~IsSuspended(Word(r)) \/ TooOld(r)
      BY <1>0, <1>3, <3>1 DEF ResumeLoad, ReaderAt, WordFits
    <3>2. CASE IsSuspended(Word(r)) /\ ~TooOld(r)
      <4>1. rpc'[r] = "resuming" /\ rword'[r] = Word(r) /\ Word(r)' = Word(r)
            /\ rentry'[r] = rentry[r]
        BY <1>0, <1>3, <3>2 DEF ResumeLoad, LoadWord, Word
      <4>2. rentry[r] # AsIs => Word(r).gen <= rentry[r]
        BY <1>0, <1>3, <3>2 DEF ResumeLoad, TooOld, Words
      <4> QED
        BY <3>2, <4>1, <4>2 DEF WordFits
    <3> QED
      BY <3>1, <3>2
  <2> QED
    BY <2>1, <2>2, QuietStep
<1>4. ASSUME SuspendLoad(r) PROVE Claims'
  <2>1. OtherReadersStay(r) /\ rpc[r] # "none" /\ rpc'[r] # "none"
        /\ UNCHANGED <<slot, key, rslot, last_valid_gen, cvars>>
    BY <1>0, <1>4 DEF SuspendLoad, LoadWord, OtherReadersStay, counters
  <2>2. WordFits(r)'
    BY <1>0, <1>4 DEF SuspendLoad, LoadWord, Claims, WordFits, Word
  <2> QED
    BY <2>1, <2>2, QuietStep
<1>5. ASSUME ReadStart(r) PROVE Claims'
  <2>1. OtherReadersStay(r) /\ rpc[r] # "none" /\ rpc'[r] # "none"
        /\ UNCHANGED <<slot, key, rslot, last_valid_gen, cvars>>
    BY <1>0, <1>5 DEF ReadStart, LoadWord, OtherReadersStay, counters
  <2>2. WordFits(r)'
    BY <1>0, <1>5 DEF ReadStart, LoadWord, Claims, WordFits, Word
  <2> QED
    BY <2>1, <2>2, QuietStep
<1>6. ASSUME ReadEnd(r) PROVE Claims'
  <2>1. OtherReadersStay(r) /\ rpc[r] # "none" /\ rpc'[r] # "none"
        /\ UNCHANGED <<slot, key, rslot, last_valid_gen, cvars>>
    BY <1>0, <1>6 DEF ReadEnd, OtherReadersStay, counters
  <2>2. WordFits(r)'
    BY <1>0, <1>6 DEF ReadEnd, Claims, WordFits, Word
  <2> QED
    BY <2>1, <2>2, QuietStep
<1>7. ASSUME NEW n \in 1 .. MaxBatch, ReadEndAtMost(r, n) PROVE Claims'
  <2>1. OtherReadersStay(r) /\ rpc[r] # "none" /\ rpc'[r] # "none"
        /\ UNCHANGED <<slot, key, rslot, last_valid_gen, cvars>>
    BY <1>0, <1>7 DEF ReadEndAtMost, OtherReadersStay, counters
  <2>2. WordFits(r)'
    BY <1>0, <1>7 DEF ReadEndAtMost, Claims, WordFits, Word
  <2> QED
    BY <2>1, <2>2, QuietStep
<1>8. ASSUME DropDisarmed(r) PROVE Claims'
  <2>1. OtherReadersStay(r) /\ rpc[r] # "none" /\ rpc'[r] # "none"
        /\ UNCHANGED <<slot, key, rslot, last_valid_gen, cvars>>
    BY <1>0, <1>8 DEF DropDisarmed, ReaderAt, OtherReadersStay, counters
  <2>2. WordFits(r)'
    BY <1>0, <1>8 DEF DropDisarmed, ReaderAt, Claims, WordFits, Word
  <2> QED
    BY <2>1, <2>2, QuietStep
<1>9. ASSUME DropArmed(r) PROVE Claims'
  <2>1. OtherReadersStay(r) /\ rpc[r] # "none" /\ rpc'[r] # "none"
        /\ UNCHANGED <<slot, key, rslot, last_valid_gen, cvars>>
    BY <1>0, <1>9 DEF DropArmed, ReaderAt, OtherReadersStay, counters
  <2>2. WordFits(r)'
    BY <1>0, <1>9 DEF DropArmed, ReaderAt, Claims, WordFits, Word
  <2> QED
    BY <2>1, <2>2, QuietStep
<1>10. ASSUME SetGenLoad(r) PROVE Claims'
  <2>1. OtherReadersStay(r) /\ rpc[r] # "none" /\ rpc'[r] # "none"
        /\ UNCHANGED <<slot, key, rslot, last_valid_gen, cvars>>
    BY <1>0, <1>10 DEF SetGenLoad, LoadWord, ReaderAt, OtherReadersStay, counters
  <2>2. WordFits(r)'
    <3>1. CASE IsSuspended(Word(r)) \/ rend[r] <= Word(r).gen
      BY <1>0, <1>10, <3>1 DEF SetGenLoad, ReaderAt, WordFits
    <3>2. CASE ~(IsSuspended(Word(r)) \/ rend[r] <= Word(r).gen)
      <4>1. rpc'[r] = "advancing" /\ rword'[r] = Word(r) /\ Word(r)' = Word(r)
            /\ rend'[r] = rend[r]
        BY <1>0, <1>10, <3>2 DEF SetGenLoad, LoadWord, Word
      <4>2. Word(r).gen < rend[r]
        BY <1>0, <1>10, <3>2 DEF SetGenLoad, Words
      <4> QED
        BY <3>2, <4>1, <4>2 DEF WordFits
    <3> QED
      BY <3>1, <3>2
  <2> QED
    BY <2>1, <2>2, QuietStep
<1>11. ASSUME Unregister(r) PROVE Claims'
  <2>1. OtherReadersStay(r) /\ rpc[r] # "none" /\ rpc'[r] # "none"
        /\ UNCHANGED <<slot, key, rslot, last_valid_gen, cvars>>
    BY <1>0, <1>11 DEF Unregister, LoadWord, LeaveBy, OtherReadersStay, counters
  <2>2. WordFits(r)'
    BY <1>0, <1>11 DEF Unregister, LoadWord, LeaveBy, Claims, WordFits, Word
  <2> QED
    BY <2>1, <2>2, QuietStep
<1>12. ASSUME SuspendStore(r) PROVE Claims'
  <2>1. OtherReadersStay(r) /\ rpc[r] # "none" /\ rpc'[r] # "none"
        /\ UNCHANGED <<key, rslot, last_valid_gen, cvars>>
    BY <1>0, <1>12 DEF SuspendStore, ReaderAt, OtherReadersStay, counters
  <2>2. Suspend(rword[r]) \in Words /\ SetWord(r, Suspend(rword[r]))
    BY <1>0, <1>12, WordTypes DEF SuspendStore
  <2>3. Word(r) = rword[r] /\ Word(r).gen <= Suspend(rword[r]).gen
    BY <1>0, <1>12 DEF SuspendStore, Claims, WordFits, Suspend, Active, Words
  <2>4. WordFits(r)'
    BY <1>0, <1>12 DEF SuspendStore, ReaderAt, SetWord, Suspend, IsSuspended, Claims, WordFits, Word
  <2> QED
    BY <2>1, <2>2, <2>3, <2>4, StoreStep
<1>13. ASSUME SetGenStore(r) PROVE Claims'
  <2>1. OtherReadersStay(r) /\ rpc[r] # "none" /\ rpc'[r] # "none"
        /\ UNCHANGED <<key, rslot, last_valid_gen, cvars>>
    BY <1>0, <1>13 DEF SetGenStore, ReaderAt, OtherReadersStay, counters
  <2>2. Active(rend[r]) \in Words /\ SetWord(r, Active(rend[r]))
    BY <1>0, <1>13, WordTypes DEF SetGenStore
  <2>3. Word(r) = rword[r] /\ Word(r).gen <= Active(rend[r]).gen
    BY <1>0, <1>13 DEF SetGenStore, Claims, WordFits, Suspend, Active, Words
  <2>4. WordFits(r)'
    BY <1>0, <1>13 DEF SetGenStore, ReaderAt, SetWord, Suspend, IsSuspended, Claims, WordFits, Word
  <2> QED
    BY <2>1, <2>2, <2>3, <2>4, StoreStep
<1>14. ASSUME UnregisterStore(r) PROVE Claims'
  <2>1. OtherReadersStay(r) /\ rpc[r] # "none" /\ rpc'[r] # "none"
        /\ UNCHANGED <<key, rslot, last_valid_gen, cvars>>
    BY <1>0, <1>14 DEF UnregisterStore, OtherReadersStay, counters
  <2>2. Suspend(rword[r]) \in Words /\ SetWord(r, Suspend(rword[r]))
    BY <1>0, <1>14, WordTypes DEF UnregisterStore
  <2>3. Word(r) = rword[r] /\ Word(r).gen <= Suspend(rword[r]).gen
    BY <1>0, <1>14 DEF UnregisterStore, Claims, WordFits, Suspend, Active, Words
  <2>4. WordFits(r)'
    BY <1>0, <1>14 DEF UnregisterStore, SetWord, Suspend, IsSuspended, Claims, WordFits, Word
  <2> QED
    BY <2>1, <2>2, <2>3, <2>4, StoreStep
<1>15. ASSUME EnterCas(r) PROVE Claims'
  <2>1. OtherReadersStay(r) /\ rpc[r] # "none" /\ rpc'[r] # "none"
        /\ UNCHANGED <<key, rslot, last_valid_gen, cvars>>
    BY <1>0, <1>15 DEF EnterCas, Reload, ReaderAt, OtherReadersStay, counters
  <2>2. CASE WordCas(rslot[r], rword[r])
    <3>1. Word(r) = rword[r] /\ rword[r] \in Words
      BY <1>0, <2>2 DEF WordCas, Word
    <3>2. Entry(r) \in Nat /\ rword[r].gen <= Entry(r)
      BY <1>0, <1>15 DEF EnterCas, Entry, Claims, WordFits, Words, AsIs
    <3>3. Active(Entry(r)) \in Words /\ Word(r).gen <= Active(Entry(r)).gen
      BY <3>1, <3>2, WordTypes DEF Active
    <3>4. SetWord(r, Active(Entry(r))) /\ ReaderAt(r, "idle")
      BY <1>15, <2>2 DEF EnterCas
    <3>5. WordFits(r)'
      BY <1>0, <3>4 DEF ReaderAt, WordFits
    <3> QED
      BY <2>1, <3>3, <3>4, <3>5, StoreStep
  <2>3. CASE ~WordCas(rslot[r], rword[r])
    <3>1. UNCHANGED <<slot, rword, rentry, rend>> /\ Reload(r)
      BY <1>15, <2>3 DEF EnterCas
    <3>2. WordFits(r)'
      BY <1>0, <1>15, <2>1, <3>1 DEF EnterCas, Reload, Claims, WordFits, Word
    <3> QED
      BY <2>1, <3>1, <3>2, QuietStep
  <2> QED
    BY <2>2, <2>3
<1>16. ASSUME NEW s \in Slots, Register(r, s) PROVE Claims'
  <2>1. key[s] = Empty /\ key' = [key EXCEPT ![s] = r] /\ rpc[r] = "none"
        /\ rslot'[r] = s /\ rpc'[r] = "register" /\ UNCHANGED <<slot, last_valid_gen, cvars>>
        /\ rword' = rword /\ rentry' = rentry /\ rend' = rend
    BY <1>0, <1>16 DEF Register, counters
  <2>2. OtherReadersStay(r)
    BY <1>0, <1>16 DEF Register, OtherReadersStay
  <2>3. key \in [Slots -> Readers \cup {Empty}]
    BY DEF TypeInv, TypeOK, MapTypes
  <2>4. Owned'
    <3>1. \A q \in Readers : rpc[q] # "none" => rslot[q] \in Slots /\ rslot[q] # s
      BY <2>1, ReadersAssumption DEF Claims, Owned, TypeInv, HasSlot
    <3>2. s # NoSlot
      BY DEF Slots, NoSlot
    <3> QED
      BY <2>1, <2>2, <2>3, <3>1, <3>2, ReadersAssumption DEF Claims, Owned, OtherReadersStay
  <2>5. ASSUME NEW q \in Readers PROVE WordFits(q)'
    <3>1. CASE q = r
      BY <2>1, <3>1 DEF Claims, Owned, WordFits, Word
    <3>2. CASE q # r
      BY <2>1, <2>2, <3>2 DEF Claims, WordFits, Word, OtherReadersStay
    <3> QED
      BY <3>1, <3>2
  <2>6. (\A c \in Cleaners : ScanFits(c)') /\ ClaimsHold'
    BY <2>1 DEF Claims, ScanFits, ClaimsHold, cvars
  <2> QED
    BY <2>4, <2>5, <2>6 DEF Claims
<1>17. ASSUME UnregisterRemove(r) PROVE Claims'
  <2>1. rpc[r] = "remove" /\ key' = [key EXCEPT ![rslot[r]] = Empty]
        /\ rslot'[r] = NoSlot /\ rpc'[r] = "none" /\ rentry'[r] = AsIs
        /\ UNCHANGED <<slot, last_valid_gen, cvars>>
    BY <1>0, <1>17 DEF UnregisterRemove, ReaderAt, counters
  <2>2. OtherReadersStay(r)
    BY <1>0, <1>17 DEF UnregisterRemove, ReaderAt, OtherReadersStay
  <2>3. key \in [Slots -> Readers \cup {Empty}] /\ rslot[r] \in Slots
    BY <1>0, <2>1 DEF TypeInv, TypeOK, MapTypes
  <2>4. Owned'
    <3>1. IsSuspended(slot[rslot[r]])
      BY <2>1 DEF Claims, WordFits, Word
    <3>2. \A q \in Readers \ {r} : rpc[q] # "none" => rslot[q] \in Slots /\ rslot[q] # rslot[r]
      BY <2>1, OneOwner DEF Claims, TypeInv, HasSlot
    <3> QED
      BY <2>1, <2>2, <2>3, <3>1, <3>2 DEF Claims, Owned, OtherReadersStay
  <2>5. ASSUME NEW q \in Readers PROVE WordFits(q)'
    <3>1. CASE q = r
      BY <2>1, <3>1 DEF WordFits
    <3>2. CASE q # r
      BY <2>1, <2>2, <3>2 DEF Claims, WordFits, Word, OtherReadersStay
    <3> QED
      BY <3>1, <3>2
  <2>6. (\A c \in Cleaners : ScanFits(c)') /\ ClaimsHold'
    BY <2>1 DEF Claims, ScanFits, ClaimsHold, cvars
  <2> QED
    BY <2>4, <2>5, <2>6 DEF Claims
<1> HIDE DEF ClaimsInv
<1> QED
  BY <1>1, <1>2, <1>3, <1>4, <1>5, <1>6, <1>7, <1>8, <1>9, <1>10, <1>11, <1>12, <1>13, <1>14, <1>15, <1>16, <1>17
     DEF ReaderCall, ReaderStep
-----------------------------------------------------------------------------
(* Cleaners: nothing a scan does disturbs the owner of a slot, since the   *)
(* only word it writes is a suspended one, and the minimum it ends with    *)
(* lies behind every slot.                                                 *)
OtherCleanersStay(c) ==
    \A d \in Cleaners \ {c} :
        cpc'[d] = cpc[d] /\ cmin'[d] = cmin[d] /\ cidx'[d] = cidx[d] /\ cword'[d] = cword[d]

(* A step of a cleaner that writes no word.                                *)
LEMMA QuietCleaner ==
    ASSUME Claims, NEW c \in Cleaners, OtherCleanersStay(c),
           UNCHANGED <<slot, key, rvars>>, ScanFits(c)', ClaimsHold'
    PROVE  Claims'
<1>1. Owned'
  BY DEF Claims, Owned, rvars
<1>2. \A r \in Readers : WordFits(r)'
  BY DEF Claims, WordFits, Word, rvars
<1>3. ASSUME NEW d \in Cleaners PROVE ScanFits(d)'
  <2>1. CASE d = c
    BY <2>1
  <2>2. CASE d # c
    BY <2>2 DEF Claims, ScanFits, OtherCleanersStay
  <2> QED
    BY <2>1, <2>2
<1> QED
  BY <1>1, <1>2, <1>3 DEF Claims

(* A scan that goes on to the next slot with a minimum not beyond this one.*)
LEMMA NextSlotFits ==
    ASSUME TypeInv, Claims, NEW c \in Cleaners, cpc[c] \in {"scan", "force"},
           NextSlot(c), cmin' \in [Cleaners -> Nat], slot' \in [Slots -> Words],
           cmin'[c] <= cmin[c], cmin'[c] <= slot'[cidx[c]].gen,
           \A s \in Slots : slot[s].gen <= slot'[s].gen
    PROVE  ScanFits(c)'
<1>1. cidx \in [Cleaners -> 0 .. NSlots] /\ cpc \in [Cleaners -> CleanerStates]
      /\ cmin \in [Cleaners -> Nat] /\ slot \in [Slots -> Words] /\ cidx[c] \in Slots
  BY DEF TypeInv, TypeOK, CleanerTypes, MapTypes, ScansASlot
<1>2. cidx'[c] = cidx[c] + 1
      /\ cpc'[c] = IF cidx[c] + 1 = NSlots THEN "claim" ELSE "scan"
  BY <1>1 DEF NextSlot
<1>3. ASSUME NEW s \in Slots, s < cidx'[c] PROVE cmin'[c] <= slot'[s].gen
  <2>1. slot[s].gen \in Nat /\ slot'[s].gen \in Nat /\ cmin[c] \in Nat /\ cmin'[c] \in Nat
    BY <1>1 DEF Words
  <2>2. CASE s = cidx[c]
    BY <2>2
  <2>3. CASE s # cidx[c]
    <3>1. s < cidx[c]
      BY <1>1, <1>2, <1>3, <2>3, SlotsAssumption DEF Slots
    <3>2. cmin[c] <= slot[s].gen
      BY <3>1 DEF Claims, ScanFits
    <3>3. slot[s].gen <= slot'[s].gen
      OBVIOUS
    <3> QED
      BY <2>1, <3>2, <3>3
  <2> QED
    BY <2>2, <2>3
<1> QED
  BY <1>2, <1>3 DEF ScanFits

(* Whatever word it finds, a scan goes on from it correctly.               *)
LEMMA ExamineFits ==
    ASSUME TypeInv, Claims, TypeInv', NEW c \in Cleaners, cpc[c] \in {"scan", "force"},
           UNCHANGED slot, Examine(c, slot[cidx[c]])
    PROVE  ScanFits(c)' /\ OtherCleanersStay(c)
<1> DEFINE word == slot[cidx[c]]
<1>1. cpc \in [Cleaners -> CleanerStates] /\ cmin \in [Cleaners -> Nat]
      /\ cidx \in [Cleaners -> 0 .. NSlots] /\ cword \in [Cleaners -> Words]
      /\ slot \in [Slots -> Words] /\ cidx[c] \in Slots /\ word.gen \in Nat
      /\ cmin[c] \in Nat
  BY DEF TypeInv, TypeOK, CleanerTypes, MapTypes, ScansASlot, Words
<1>2. CASE MustForce(c, word)
  <2>1. cword' = [cword EXCEPT ![c] = word] /\ cpc' = [cpc EXCEPT ![c] = "force"]
        /\ UNCHANGED <<cmin, cidx, slot>>
    BY <1>2 DEF Examine
  <2>2. OtherCleanersStay(c)
    BY <1>1, <2>1 DEF OtherCleanersStay
  <2>3. IsSuspended(cword'[c]) /\ cword'[c].gen < cmin[c]
    BY <1>1, <1>2, <2>1 DEF MustForce
  <2>4. \A s \in Slots : s < cidx[c] => cmin[c] <= slot[s].gen
    BY DEF Claims, ScanFits
  <2> QED
    BY <1>1, <2>1, <2>2, <2>3, <2>4 DEF ScanFits
<1>3. CASE ~MustForce(c, word)
  <2>1. cmin' = [cmin EXCEPT ![c] = MinHeld(cmin[c], word)] /\ NextSlot(c)
    BY <1>3 DEF Examine
  <2>2. OtherCleanersStay(c)
    BY <1>1, <2>1 DEF OtherCleanersStay, NextSlot
  <2>3. MinHeld(cmin[c], word) <= cmin[c] /\ MinHeld(cmin[c], word) <= word.gen
    BY <1>1, <1>3 DEF MinHeld, MustForce, Lesser
  <2>4. cmin'[c] <= cmin[c] /\ cmin'[c] <= slot'[cidx[c]].gen
    BY <1>1, <2>1, <2>3
  <2>5. cmin' \in [Cleaners -> Nat] /\ slot' \in [Slots -> Words]
    BY DEF TypeInv, TypeOK, CleanerTypes, MapTypes
  <2>6. \A s \in Slots : slot[s].gen <= slot'[s].gen
    BY <1>1 DEF Words
  <2> QED
    BY <2>1, <2>2, <2>4, <2>5, <2>6, NextSlotFits
<1> QED
  BY <1>2, <1>3

(* The CAS of a scan succeeds: the word was suspended, and behind.         *)
LEMMA ForceKeepsClaims ==
    ASSUME ClaimsInv, TypeInv', NEW c \in Cleaners, ForceForward(c),
           WordCas(cidx[c], cword[c])
    PROVE  Claims'
<1> USE DEF ClaimsInv
<1>1. cpc[c] = "force" /\ NextSlot(c) /\ cmin' = cmin
      /\ slot' = [slot EXCEPT ![cidx[c]] = Suspend(Active(cmin[c]))]
      /\ UNCHANGED <<counters, key, rvars>>
  BY DEF ForceForward
<1>2. cpc \in [Cleaners -> CleanerStates] /\ cmin \in [Cleaners -> Nat]
      /\ cidx \in [Cleaners -> 0 .. NSlots] /\ cword \in [Cleaners -> Words]
      /\ slot \in [Slots -> Words] /\ slot' \in [Slots -> Words] /\ cidx[c] \in Slots
      /\ last_valid_gen \in Nat
  BY <1>1 DEF TypeInv, TypeOK, CleanerTypes, CounterTypes, MapTypes, ScansASlot
<1>3. IsSuspended(slot[cidx[c]]) /\ slot[cidx[c]].gen < cmin[c]
  BY <1>1 DEF Claims, ScanFits, WordCas
<1>4. slot'[cidx[c]] = Suspend(Active(cmin[c]))
      /\ \A s \in Slots \ {cidx[c]} : slot'[s] = slot[s]
  BY <1>1, <1>2
<1>5. IsSuspended(slot'[cidx[c]]) /\ slot'[cidx[c]].gen = cmin[c]
  BY <1>4 DEF IsSuspended, Suspend, Active
<1>6. ASSUME NEW s \in Slots
      PROVE  slot[s].gen \in Nat /\ slot'[s].gen \in Nat /\ slot[s].gen <= slot'[s].gen
             /\ (IsSuspended(slot[s]) <=> IsSuspended(slot'[s]))
             /\ (~IsSuspended(slot[s]) => slot'[s] = slot[s])
  <2>1. slot[s].gen \in Nat /\ slot'[s].gen \in Nat /\ cmin[c] \in Nat
    BY <1>2 DEF Words
  <2>2. CASE s = cidx[c]
    BY <2>1, <2>2, <1>3, <1>5
  <2>3. CASE s # cidx[c]
    BY <2>1, <2>3, <1>4
  <2> QED
    BY <2>2, <2>3
<1>7. Owned'
  BY <1>1, <1>6 DEF Claims, Owned, rvars
<1>8. ASSUME NEW r \in Readers PROVE WordFits(r)'
  <2>1. CASE rpc[r] = "none"
    BY <1>1, <2>1 DEF Claims, WordFits, rvars
  <2>2. CASE rpc[r] # "none"
    <3>1. rslot[r] \in Slots
      BY <2>2 DEF TypeInv, HasSlot
    <3>2. IsSuspended(Word(r)) <=> IsSuspended(Word(r)')
      BY <1>1, <1>6, <3>1 DEF Word, rvars
    <3>3. ~IsSuspended(Word(r)) => Word(r)' = Word(r)
      BY <1>1, <1>6, <3>1 DEF Word, rvars
    <3>4. WordFits(r) /\ UNCHANGED <<rpc[r], rword[r], rentry[r], rend[r]>>
      BY <1>1 DEF Claims, rvars
    <3> QED
      BY <3>2, <3>3, <3>4 DEF WordFits
  <2> QED
    BY <2>1, <2>2
<1>9. ASSUME NEW d \in Cleaners PROVE ScanFits(d)'
  <2>1. CASE d = c
    BY <1>1, <1>2, <1>5, <1>6, <2>1, NextSlotFits
  <2>2. CASE d # c
    <3>1. UNCHANGED <<cpc[d], cmin[d], cidx[d], cword[d]>>
      BY <1>1, <1>2, <2>2 DEF NextSlot
    <3>2. cmin[d] \in Nat
      BY <1>2
    <3>3. ScanFits(d)
      BY DEF Claims
    <3> QED
      BY <1>6, <3>1, <3>2, <3>3 DEF ScanFits
  <2> QED
    BY <2>1, <2>2
<1>10. ClaimsHold'
  <2>1. last_valid_gen' = last_valid_gen /\ ClaimsHold
    BY <1>1 DEF Claims, counters
  <2> QED
    BY <1>2, <1>6, <2>1 DEF ClaimsHold
<1> QED
  BY <1>7, <1>8, <1>9, <1>10 DEF Claims

(* The operations of a cleaner.                                            *)
LEMMA CleanerKeepsClaims ==
    ASSUME ClaimsInv, TypeInv', NEW c \in Cleaners, CleanupLoadLast(c) \/ CleanerStep(c)
    PROVE  Claims'
<1> USE DEF ClaimsInv
<1>0. cpc \in [Cleaners -> CleanerStates] /\ clast \in [Cleaners -> Nat]
      /\ cmin \in [Cleaners -> Nat] /\ cidx \in [Cleaners -> 0 .. NSlots]
      /\ cword \in [Cleaners -> Words] /\ cdrop \in [Cleaners -> Nat]
  BY DEF TypeInv, TypeOK, CleanerTypes
<1>1. ASSUME CleanupLoadLast(c) PROVE Claims'
  <2>1. OtherCleanersStay(c) /\ UNCHANGED <<slot, key, rvars>> /\ ClaimsHold'
    BY <1>0, <1>1 DEF CleanupLoadLast, OtherCleanersStay, Claims, ClaimsHold, counters
  <2>2. ScanFits(c)'
    BY <1>0, <1>1 DEF CleanupLoadLast, ScanFits
  <2> QED
    BY <2>1, <2>2, QuietCleaner
<1>2. ASSUME CleanupLoadRead(c) PROVE Claims'
  <2>1. OtherCleanersStay(c) /\ UNCHANGED <<slot, key, rvars>> /\ ClaimsHold'
    BY <1>0, <1>2 DEF CleanupLoadRead, CleanerDone, OtherCleanersStay, Claims, ClaimsHold, counters
  <2>2. ScanFits(c)'
    BY <1>0, <1>2, SlotsAssumption DEF CleanupLoadRead, CleanerDone, ScanFits, Slots
  <2> QED
    BY <2>1, <2>2, QuietCleaner
<1>3. ASSUME ScanSlot(c) PROVE Claims'
  <2>1. cpc[c] = "scan" /\ Examine(c, slot[cidx[c]]) /\ UNCHANGED <<counters, slot, key, rvars>>
    BY <1>3 DEF ScanSlot
  <2>2. ScanFits(c)' /\ OtherCleanersStay(c)
    BY <2>1, ExamineFits
  <2>3. ClaimsHold'
    BY <2>1 DEF Claims, ClaimsHold, counters
  <2> QED
    BY <2>1, <2>2, <2>3, QuietCleaner
<1>4. ASSUME ForceForward(c) PROVE Claims'
  <2>1. CASE WordCas(cidx[c], cword[c])
    BY <1>4, <2>1, ForceKeepsClaims
  <2>2. CASE ~WordCas(cidx[c], cword[c])
    <3>1. cpc[c] = "force" /\ Examine(c, slot[cidx[c]]) /\ UNCHANGED <<counters, slot, key, rvars>>
      BY <1>4, <2>2 DEF ForceForward
    <3>2. ScanFits(c)' /\ OtherCleanersStay(c)
      BY <3>1, ExamineFits
    <3>3. ClaimsHold'
      BY <3>1 DEF Claims, ClaimsHold, counters
    <3> QED
      BY <3>1, <3>2, <3>3, QuietCleaner
  <2> QED
    BY <2>1, <2>2
<1>5. ASSUME CleanupTooLate(c) PROVE Claims'
  <2>1. OtherCleanersStay(c) /\ UNCHANGED <<slot, key, rvars>> /\ ClaimsHold'
    BY <1>0, <1>5 DEF CleanupTooLate, CleanerDone, OtherCleanersStay, Claims, ClaimsHold, counters
  <2>2. ScanFits(c)'
    BY <1>0, <1>5 DEF CleanupTooLate, CleanerDone, ScanFits
  <2> QED
    BY <2>1, <2>2, QuietCleaner
<1>6. ASSUME CleanupClaim(c) PROVE Claims'
  <2>1. \A s \in Slots : cmin[c] <= slot[s].gen
    <3>1. cpc[c] = "claim" /\ cidx[c] = NSlots
      BY <1>6 DEF CleanupClaim, Claims, ScanFits
    <3> QED
      BY <3>1, SlotsAssumption DEF Claims, ScanFits, Slots
  <2>2. OtherCleanersStay(c) /\ UNCHANGED <<slot, key, rvars>>
    BY <1>0, <1>6 DEF CleanupClaim, OtherCleanersStay
  <2>3. last_valid_gen' \in {last_valid_gen, cmin[c]}
    BY <1>6 DEF CleanupClaim
  <2>4. ClaimsHold'
    BY <2>1, <2>2, <2>3 DEF Claims, ClaimsHold
  <2>5. ScanFits(c)'
    <3>1. cpc[c] = "claim" /\ cpc'[c] \in {"claim", "drop"}
          /\ UNCHANGED <<slot, cmin, cidx, cword>>
      BY <1>0, <1>6 DEF CleanupClaim
    <3> QED
      BY <3>1 DEF Claims, ScanFits
  <2> QED
    BY <2>2, <2>4, <2>5, QuietCleaner
<1>7. ASSUME DropMessage(c) PROVE Claims'
  <2>1. OtherCleanersStay(c) /\ UNCHANGED <<slot, key, rvars>> /\ ClaimsHold'
    BY <1>0, <1>7 DEF DropMessage, OtherCleanersStay, Claims, ClaimsHold, counters
  <2>2. ScanFits(c)'
    BY <1>0, <1>7 DEF DropMessage, ScanFits
  <2> QED
    BY <2>1, <2>2, QuietCleaner
<1>8. ASSUME CleanupFree(c) PROVE Claims'
  <2>1. OtherCleanersStay(c) /\ UNCHANGED <<slot, key, rvars>> /\ ClaimsHold'
    BY <1>0, <1>8 DEF CleanupFree, CleanerDone, OtherCleanersStay, Claims, ClaimsHold
  <2>2. ScanFits(c)'
    BY <1>0, <1>8 DEF CleanupFree, CleanerDone, ScanFits
  <2> QED
    BY <2>1, <2>2, QuietCleaner
<1> HIDE DEF ClaimsInv
<1> QED
  BY <1>1, <1>2, <1>3, <1>4, <1>5, <1>6, <1>7, <1>8 DEF CleanerStep

(* A writer reads no claim and touches none.                               *)
LEMMA WriterLeavesClaims ==
    ASSUME NEW w \in Writers, ReserveLoadFree(w) \/ WriterStep(w)
    PROVE  UNCHANGED <<slot, key, rvars, cvars, last_valid_gen>>
  BY DEF ReserveLoadFree, WriterStep, ReserveExactly, ReserveBestEffort, Grab, Fill,
         Publish, counters

LEMMA StillClaims ==
    ASSUME Claims, UNCHANGED <<slot, key, rvars, cvars, last_valid_gen>> PROVE Claims'
<1>1. Owned' /\ ClaimsHold'
  BY DEF Claims, Owned, ClaimsHold, rvars
<1>2. \A r \in Readers : WordFits(r)'
  BY DEF Claims, WordFits, Word, rvars
<1>3. \A c \in Cleaners : ScanFits(c)'
  BY DEF Claims, ScanFits, cvars
<1> QED
  BY <1>1, <1>2, <1>3 DEF Claims

-----------------------------------------------------------------------------
LEMMA StepKeepsClaims == ClaimsInv /\ [Next]_vars => ClaimsInv'
<1> SUFFICES ASSUME ClaimsInv, [Next]_vars PROVE ClaimsInv'
  OBVIOUS
<1>1. TypeInv'
  BY StepKeepsType DEF ClaimsInv
<1>2. ASSUME NEW w \in Writers, ReserveLoadFree(w) \/ WriterStep(w) PROVE Claims'
  <2>1. Claims
    BY DEF ClaimsInv
  <2> QED
    BY <1>2, <2>1, WriterLeavesClaims, StillClaims
<1>3. ASSUME NEW r \in Readers, ReaderCall(r) \/ ReaderStep(r) PROVE Claims'
  BY <1>1, <1>3, ReaderKeepsClaims
<1>4. ASSUME NEW c \in Cleaners, CleanupLoadLast(c) \/ CleanerStep(c) PROVE Claims'
  BY <1>1, <1>4, CleanerKeepsClaims
<1>5. CASE UNCHANGED vars
  <2>1. Claims /\ UNCHANGED <<slot, key, rvars, cvars, last_valid_gen>>
    BY <1>5 DEF ClaimsInv, vars, counters
  <2> QED
    BY <1>1, <2>1, StillClaims DEF ClaimsInv
<1> QED
  BY <1>1, <1>2, <1>3, <1>4, <1>5 DEF Next, ClaimsInv

LEMMA ClaimsInvHolds == Spec => []ClaimsInv
<1>1. Init => ClaimsInv
  BY InitType, InitClaims DEF ClaimsInv
<1> QED
  BY <1>1, StepKeepsClaims, PTL DEF Spec

(* No cleanup passes the word of any slot: a reader never finds, where it  *)
(* reads, resumes or enters, that the messages from there on are gone.     *)
THEOREM ClaimsAlwaysHold == Spec => []ClaimsHold
<1>1. ClaimsInv => ClaimsHold
  BY DEF ClaimsInv, Claims
<1> QED
  BY <1>1, ClaimsInvHolds, PTL

(* The assertion of register_reader's loop: whatever handle had the slot   *)
(* before, and however cleaners move its word, it is found suspended.      *)
THEOREM RegisterAlwaysFindsSuspended == Spec => []RegisterFindsSuspended
<1>1. ClaimsInv => RegisterFindsSuspended
  BY DEF ClaimsInv, Claims, WordFits, RegisterFindsSuspended
<1> QED
  BY <1>1, ClaimsInvHolds, PTL

(* The panic in the drop of an armed ReadSlice ("the reader's generation   *)
(* changed") is out of reach of a reader that was not suspended.           *)
THEOREM SliceAlwaysDropsInPlace == Spec => []SliceDropsInPlace
<1>1. ClaimsInv => SliceDropsInPlace
  BY DEF ClaimsInv, Claims, WordFits, SliceDropsInPlace, HoldsSlice
<1> QED
  BY <1>1, ClaimsInvHolds, PTL
-----------------------------------------------------------------------------
(* What a step does to the words.  A reader stores into its own slot, not  *)
(* behind what is there; a cleaner moves a suspended word forward.         *)
ByItsReader(s) == \E r \in Readers : rslot[r] = s /\ rpc'[r] # rpc[r]

WordsMoveOn ==
    \A s \in Slots :
        /\ slot[s].gen <= slot'[s].gen
        /\ slot'[s] # slot[s] /\ ~IsSuspended(slot[s]) => ByItsReader(s)

LEMMA SameWords == ASSUME TypeInv, slot' = slot PROVE WordsMoveOn
  BY DEF WordsMoveOn, TypeInv, TypeOK, MapTypes, Words

LEMMA ReaderMovesWords ==
    ASSUME TypeInv, NEW r \in Readers, rpc[r] # "none", rpc'[r] # rpc[r],
           NEW word \in Words, SetWord(r, word), Word(r).gen <= word.gen
    PROVE  WordsMoveOn
<1>1. rslot[r] \in Slots /\ slot \in [Slots -> Words]
  BY DEF TypeInv, TypeOK, MapTypes, HasSlot
<1>2. slot'[rslot[r]] = word /\ \A s \in Slots \ {rslot[r]} : slot'[s] = slot[s]
  BY <1>1 DEF SetWord
<1> QED
  BY <1>1, <1>2 DEF WordsMoveOn, ByItsReader, Word, Words

LEMMA StepMovesWords ==
    ASSUME ClaimsInv, [Next]_vars PROVE WordsMoveOn
<1>0. /\ TypeInv /\ rpc \in [Readers -> ReaderStates] /\ rword \in [Readers -> Words]
      /\ rentry \in [Readers -> Nat \cup {AsIs}] /\ rend \in [Readers -> Nat]
      /\ slot \in [Slots -> Words]
  BY DEF ClaimsInv, TypeInv, TypeOK, ReaderTypes, MapTypes
<1>1. ASSUME NEW r \in Readers, SuspendStore(r) PROVE WordsMoveOn
  <2>1. Suspend(rword[r]) \in Words /\ SetWord(r, Suspend(rword[r]))
        /\ rpc[r] # "none" /\ rpc'[r] # rpc[r]
    BY <1>0, <1>1, WordTypes DEF SuspendStore, ReaderAt
  <2>2. Word(r).gen <= Suspend(rword[r]).gen
    BY <1>0, <1>1 DEF SuspendStore, ClaimsInv, Claims, WordFits, Suspend, Words
  <2> QED
    BY <1>0, <2>1, <2>2, ReaderMovesWords
<1>2. ASSUME NEW r \in Readers, UnregisterStore(r) PROVE WordsMoveOn
  <2>1. Suspend(rword[r]) \in Words /\ SetWord(r, Suspend(rword[r]))
        /\ rpc[r] # "none" /\ rpc'[r] # rpc[r]
    BY <1>0, <1>2, WordTypes DEF UnregisterStore
  <2>2. Word(r).gen <= Suspend(rword[r]).gen
    BY <1>0, <1>2 DEF UnregisterStore, ClaimsInv, Claims, WordFits, Suspend, Words
  <2> QED
    BY <1>0, <2>1, <2>2, ReaderMovesWords
<1>3. ASSUME NEW r \in Readers, SetGenStore(r) PROVE WordsMoveOn
  <2>1. Active(rend[r]) \in Words /\ SetWord(r, Active(rend[r]))
        /\ rpc[r] # "none" /\ rpc'[r] # rpc[r]
    BY <1>0, <1>3, WordTypes DEF SetGenStore, ReaderAt
  <2>2. Word(r).gen <= Active(rend[r]).gen
    BY <1>0, <1>3 DEF SetGenStore, ClaimsInv, Claims, WordFits, Active, Words
  <2> QED
    BY <1>0, <2>1, <2>2, ReaderMovesWords
<1>4. ASSUME NEW r \in Readers, EnterCas(r) PROVE WordsMoveOn
  <2>1. CASE WordCas(rslot[r], rword[r])
    <3>1. SetWord(r, Active(Entry(r))) /\ rpc[r] # "none" /\ rpc'[r] # rpc[r]
      BY <1>0, <1>4, <2>1 DEF EnterCas, ReaderAt
    <3>2. Word(r) = rword[r] /\ Entry(r) \in Nat /\ rword[r].gen <= Entry(r)
      BY <1>0, <1>4, <2>1 DEF EnterCas, Entry, WordCas, Word, ClaimsInv, Claims, WordFits, Words, AsIs
    <3>3. Active(Entry(r)) \in Words /\ Word(r).gen <= Active(Entry(r)).gen
      BY <3>2, WordTypes DEF Active
    <3> QED
      BY <1>0, <3>1, <3>3, ReaderMovesWords
  <2>2. CASE ~WordCas(rslot[r], rword[r])
    BY <1>0, <1>4, <2>2, SameWords DEF EnterCas
  <2> QED
    BY <2>1, <2>2
<1>5. ASSUME NEW c \in Cleaners, ForceForward(c) PROVE WordsMoveOn
  <2>1. CASE WordCas(cidx[c], cword[c])
    <3>1. cidx[c] \in Slots /\ cmin[c] \in Nat /\ slot[cidx[c]] \in Words
      BY <1>0, <1>5 DEF ForceForward, TypeInv, TypeOK, CleanerTypes, ScansASlot
    <3>2. IsSuspended(slot[cidx[c]]) /\ slot[cidx[c]].gen < cmin[c]
      BY <1>5, <2>1 DEF ForceForward, ClaimsInv, Claims, ScanFits, WordCas
    <3>3. slot' = [slot EXCEPT ![cidx[c]] = Suspend(Active(cmin[c]))]
      BY <1>5, <2>1 DEF ForceForward
    <3>4. Suspend(Active(cmin[c])).gen = cmin[c]
      BY DEF Suspend, Active
    <3> QED
      BY <1>0, <3>1, <3>2, <3>3, <3>4 DEF WordsMoveOn, Words
  <2>2. CASE ~WordCas(cidx[c], cword[c])
    BY <1>0, <1>5, <2>2, SameWords DEF ForceForward
  <2> QED
    BY <2>1, <2>2
<1>6. ASSUME NEW r \in Readers, ReaderCall(r) \/ ReaderStep(r),
             ~(SuspendStore(r) \/ UnregisterStore(r) \/ SetGenStore(r) \/ EnterCas(r))
      PROVE  slot' = slot
  BY <1>6 DEF ReaderCall, ReaderStep, Register, RegisterLoad, Resume, ResumeLoad,
     SuspendLoad, ReadStart, ReadEnd, ReadEndAtMost, DropDisarmed, DropArmed,
     SetGenLoad, Unregister, UnregisterRemove
<1>7. ASSUME NEW c \in Cleaners, CleanupLoadLast(c) \/ CleanerStep(c), ~ForceForward(c)
      PROVE  slot' = slot
  BY <1>7 DEF CleanerStep, CleanupLoadLast, CleanupLoadRead, ScanSlot, CleanupTooLate,
     CleanupClaim, DropMessage, CleanupFree
<1>8. ASSUME NEW w \in Writers, ReserveLoadFree(w) \/ WriterStep(w) PROVE slot' = slot
  BY <1>8, WriterLeavesClaims
<1>9. CASE UNCHANGED vars
  BY <1>0, <1>9, SameWords DEF vars
<1>10. CASE Next
  BY <1>0, <1>1, <1>2, <1>3, <1>4, <1>5, <1>6, <1>7, <1>8, <1>10, SameWords DEF Next
<1> QED
  BY <1>9, <1>10

(* A slot's generation never goes back: not by the plain stores of its     *)
(* owners, one after the other, nor by the CASes of cleaners beside them.  *)
THEOREM ClaimsOnlyAdvance == Spec => ClaimsNeverGoBack
<1>1. ClaimsInv /\ [Next]_vars => [\A s \in Slots : slot'[s].gen >= slot[s].gen]_vars
  <2>1. ASSUME ClaimsInv, [Next]_vars, NEW s \in Slots PROVE slot'[s].gen >= slot[s].gen
    BY <2>1, StepMovesWords DEF WordsMoveOn
  <2> QED
    BY <2>1
<1> QED
  BY <1>1, ClaimsInvHolds, PTL DEF Spec, ClaimsNeverGoBack

(* An active word changes only by a step of the reader that owns the slot, *)
(* which is what lets it suspend and advance by a load and a plain store.  *)
THEOREM ActiveWordsAreOwned == Spec => ActiveWordIsOwned
<1>1. ASSUME ClaimsInv, [Next]_vars
      PROVE  [\A s \in Slots : slot'[s] # slot[s] /\ ~IsSuspended(slot[s]) =>
                 \E r \in Readers : rslot[r] = s /\ rpc'[r] # rpc[r]]_vars
  BY <1>1, StepMovesWords DEF WordsMoveOn, ByItsReader
<1> QED
  BY <1>1, ClaimsInvHolds, PTL DEF Spec, ActiveWordIsOwned
=============================================================================

----------------------------- MODULE AreaProofs -----------------------------
(***************************************************************************)
(* Proofs about Area, for every number of reservations, readers, cleanup   *)
(* calls and slots, every capacity and every bound.                        *)
(***************************************************************************)
EXTENDS Area, TLAPS

-----------------------------------------------------------------------------
(* Type correctness.  It is inductive with three facts beside it: a handle *)
(* has a slot, a scan is at one, and no reservation ends past MaxGen.      *)

HasSlot == \A r \in Readers : rpc[r] # "none" => rslot[r] \in Slots

ScansASlot == \A c \in Cleaners : cpc[c] \in {"scan", "force"} => cidx[c] \in Slots

InBounds == /\ write_gen <= MaxGen
            /\ \A w \in Writers : wpc[w] = "grab" => wend[w] <= MaxGen

TypeInv == TypeOK /\ HasSlot /\ ScansASlot /\ InBounds

(* A masked distance is a generation, and is the difference of two         *)
(* generations in order, since they are far less than GenSpan apart.       *)
LEMMA GenDistNat == \A a, b \in Nat : GenDist(a, b) \in Nat
  BY SpanAssumption DEF GenDist

LEMMA GenDistExact ==
    \A a, b \in Nat : a <= MaxGen /\ b <= a => GenDist(a, b) = a - b
  BY SpanAssumption, BoundsAssumption DEF GenDist

(* Words stay words under the operators that build them.                   *)
LEMMA WordTypes ==
    /\ \A g \in Nat : Active(g) \in Words
    /\ \A word \in Words : Suspend(word) \in Words
  BY DEF Active, Suspend, Words

LEMMA InitType == Init => TypeInv
<1> SUFFICES ASSUME Init PROVE TypeInv
  OBVIOUS
<1> USE SlotsAssumption, ReadersAssumption, BoundsAssumption DEF Init, FirstSlot, Slots
<1>1. CounterTypes /\ MapTypes /\ BufferType
  BY DEF CounterTypes, MapTypes, BufferType, Words
<1>2. WriterTypes /\ CleanerTypes
  BY WordTypes DEF WriterTypes, CleanerTypes, WriterStates, CleanerStates
<1>3. ReaderTypes
  BY WordTypes DEF ReaderTypes, ReaderStates, NoSlot, AsIs
<1>4. HasSlot /\ ScansASlot /\ InBounds
  BY DEF HasSlot, ScansASlot, InBounds
<1> QED
  BY <1>1, <1>2, <1>3, <1>4 DEF TypeInv, TypeOK

(* There is room up to MaxGen, and no more.                                *)
LEMMA RoomInBounds ==
    ASSUME TypeInv, NEW w \in Writers
    PROVE  Room(w) \in Nat /\ write_gen + Room(w) <= MaxGen
<1>1. Available(w) \in Nat
  BY CapacityAssumption
     DEF TypeInv, TypeOK, CounterTypes, WriterTypes, Available, Lesser, LoadWriteGen
<1>2. MaxGen - write_gen \in Nat
  BY BoundsAssumption DEF TypeInv, TypeOK, CounterTypes, InBounds
<1> QED
  BY <1>1, <1>2, BoundsAssumption
     DEF TypeInv, TypeOK, CounterTypes, Room, Lesser, LoadWriteGen

LEMMA AimKeepsType ==
    ASSUME TypeInv, NEW w \in Writers, NEW n \in Nat, n <= Room(w),
           Aim(w, n), UNCHANGED write_gen
    PROVE  WriterTypes' /\ InBounds'
<1>1. write_gen + n \in Nat /\ write_gen + n <= MaxGen
  BY RoomInBounds, BoundsAssumption DEF TypeInv, TypeOK, CounterTypes
<1>2. WriterTypes'
  BY <1>1 DEF TypeInv, TypeOK, CounterTypes, WriterTypes, WriterStates, Aim, LoadWriteGen
<1>3. InBounds'
  BY <1>1 DEF TypeInv, TypeOK, WriterTypes, InBounds, Aim, LoadWriteGen
<1> QED
  BY <1>2, <1>3

LEMMA WriterDoneKeepsType ==
    ASSUME TypeInv, NEW w \in Writers, WriterDone(w), UNCHANGED write_gen
    PROVE  WriterTypes' /\ InBounds'
  BY DEF TypeInv, TypeOK, WriterTypes, WriterStates, InBounds, WriterDone

(* The steps of a reservation.                                             *)
LEMMA WriterKeepsType ==
    ASSUME TypeInv, NEW w \in Writers, ReserveLoadFree(w) \/ WriterStep(w)
    PROVE  TypeInv'
<1> USE DEF TypeInv, TypeOK
<1>1. ASSUME ReserveLoadFree(w) PROVE TypeInv'
  <2>1. WriterTypes' /\ InBounds'
    <3>1. WriterTypes'
      BY <1>1 DEF ReserveLoadFree, CounterTypes, WriterTypes, WriterStates
    <3>2. InBounds'
      BY <1>1 DEF ReserveLoadFree, WriterTypes, InBounds, counters
    <3> QED
      BY <3>1, <3>2
  <2>2. CounterTypes' /\ MapTypes' /\ BufferType'
        /\ ReaderTypes' /\ CleanerTypes' /\ HasSlot' /\ ScansASlot'
    BY <1>1
       DEF ReserveLoadFree, counters, rvars, cvars, CounterTypes, MapTypes, BufferType, ReaderTypes, CleanerTypes, HasSlot, ScansASlot
  <2> QED
    BY <2>1, <2>2
<1>2. ASSUME NEW n \in 1 .. MaxBatch, ReserveExactly(w, n) PROVE TypeInv'
  <2>1. WriterTypes' /\ InBounds'
    <3>1. UNCHANGED write_gen
      BY <1>2 DEF ReserveExactly, counters
    <3>2. CASE WriterDone(w)
      BY <3>1, <3>2, WriterDoneKeepsType
    <3>3. CASE ~WriterDone(w)
      <4>1. Room(w) \in Nat
        BY RoomInBounds
      <4>2. n \in Nat /\ n <= Room(w)
        BY <1>2, <3>3, <4>1 DEF ReserveExactly, Lesser
      <4>3. Aim(w, n)
        BY <1>2, <3>3 DEF ReserveExactly
      <4> QED
        BY <3>1, <4>2, <4>3, AimKeepsType
    <3> QED
      BY <3>2, <3>3
  <2>2. CounterTypes' /\ MapTypes' /\ BufferType'
        /\ ReaderTypes' /\ CleanerTypes' /\ HasSlot' /\ ScansASlot'
    BY <1>2
       DEF ReserveExactly, counters, rvars, cvars, CounterTypes, MapTypes, BufferType, ReaderTypes, CleanerTypes, HasSlot, ScansASlot
  <2> QED
    BY <2>1, <2>2
<1>3. ASSUME NEW n \in 1 .. MaxBatch, ReserveBestEffort(w, n) PROVE TypeInv'
  <2>1. WriterTypes' /\ InBounds'
    <3>1. UNCHANGED write_gen
      BY <1>3 DEF ReserveBestEffort, counters
    <3>2. CASE WriterDone(w)
      BY <3>1, <3>2, WriterDoneKeepsType
    <3>3. CASE ~WriterDone(w)
      <4>1. Room(w) \in Nat
        BY RoomInBounds
      <4>2. Lesser(n, Room(w)) \in Nat /\ Lesser(n, Room(w)) <= Room(w)
        BY <1>3, <3>3, <4>1 DEF ReserveBestEffort, Lesser
      <4>3. Aim(w, Lesser(n, Room(w)))
        BY <1>3, <3>3 DEF ReserveBestEffort
      <4> QED
        BY <3>1, <4>2, <4>3, AimKeepsType
    <3> QED
      BY <3>2, <3>3
  <2>2. CounterTypes' /\ MapTypes' /\ BufferType'
        /\ ReaderTypes' /\ CleanerTypes' /\ HasSlot' /\ ScansASlot'
    BY <1>3
       DEF ReserveBestEffort, counters, rvars, cvars, CounterTypes, MapTypes, BufferType, ReaderTypes, CleanerTypes, HasSlot, ScansASlot
  <2> QED
    BY <2>1, <2>2
<1>4. ASSUME Grab(w) PROVE TypeInv'
  <2>1. WriterTypes' /\ InBounds'
    BY <1>4
       DEF Grab, WriterDone, InBounds, WriterTypes, WriterStates
  <2>2. CounterTypes'
    BY <1>4
       DEF Grab, CounterTypes, WriterTypes
  <2>3. MapTypes' /\ BufferType' /\ ReaderTypes'
        /\ CleanerTypes' /\ HasSlot' /\ ScansASlot'
    BY <1>4
       DEF Grab, counters, rvars, cvars, MapTypes, BufferType, ReaderTypes, CleanerTypes, HasSlot, ScansASlot
  <2> QED
    BY <2>1, <2>2, <2>3
<1>5. ASSUME Fill(w) PROVE TypeInv'
  <2>1. WriterTypes' /\ InBounds'
    BY <1>5
       DEF Fill, InBounds, counters, WriterTypes, WriterStates
  <2>2. BufferType'
    BY <1>5
       DEF Fill, BufferType, WriterTypes
  <2>3. CounterTypes' /\ MapTypes' /\ ReaderTypes'
        /\ CleanerTypes' /\ HasSlot' /\ ScansASlot'
    BY <1>5
       DEF Fill, counters, rvars, cvars, CounterTypes, MapTypes, ReaderTypes, CleanerTypes, HasSlot, ScansASlot
  <2> QED
    BY <2>1, <2>2, <2>3
<1>6. ASSUME Publish(w) PROVE TypeInv'
  <2>1. WriterTypes' /\ InBounds'
    BY <1>6
       DEF Publish, WriterDone, InBounds, WriterTypes, WriterStates
  <2>2. CounterTypes'
    BY <1>6
       DEF Publish, CounterTypes, WriterTypes
  <2>3. MapTypes' /\ BufferType' /\ ReaderTypes'
        /\ CleanerTypes' /\ HasSlot' /\ ScansASlot'
    BY <1>6
       DEF Publish, counters, rvars, cvars, MapTypes, BufferType, ReaderTypes, CleanerTypes, HasSlot, ScansASlot
  <2> QED
    BY <2>1, <2>2, <2>3
<1> HIDE DEF TypeInv, TypeOK
<1> QED
  BY <1>1, <1>2, <1>3, <1>4, <1>5, <1>6 DEF WriterStep

(* The operations of a reader.                                             *)
LEMMA ReaderKeepsType ==
    ASSUME TypeInv, NEW r \in Readers, ReaderCall(r) \/ ReaderStep(r)
    PROVE  TypeInv'
<1> USE DEF TypeInv, TypeOK
<1>1. ASSUME NEW s \in Slots, Register(r, s) PROVE TypeInv'
  <2>1. ReaderTypes' /\ HasSlot'
    BY <1>1
       DEF Register, ReaderTypes, ReaderStates, HasSlot, MapTypes
  <2>2. MapTypes'
    BY <1>1
       DEF Register, ReaderStates, MapTypes, ReaderTypes, HasSlot
  <2>3. CounterTypes' /\ BufferType' /\ WriterTypes'
        /\ CleanerTypes' /\ ScansASlot' /\ InBounds'
    BY <1>1
       DEF Register, counters, wvars, cvars, CounterTypes, BufferType, WriterTypes, CleanerTypes, ScansASlot, InBounds
  <2> QED
    BY <2>1, <2>2, <2>3
<1>2. ASSUME RegisterLoad(r) PROVE TypeInv'
  <2>1. ReaderTypes' /\ HasSlot'
    BY <1>2
       DEF RegisterLoad, LoadWord, Word, ReaderTypes, ReaderStates, HasSlot, MapTypes
  <2>2. CounterTypes' /\ MapTypes' /\ BufferType'
        /\ WriterTypes' /\ CleanerTypes' /\ ScansASlot' /\ InBounds'
    BY <1>2
       DEF RegisterLoad, counters, wvars, cvars, CounterTypes, MapTypes, BufferType, WriterTypes, CleanerTypes, ScansASlot, InBounds
  <2> QED
    BY <2>1, <2>2
<1>3. ASSUME NEW e \in {AsIs} \cup (0 .. read_gen + ResumeAhead), Resume(r, e) PROVE TypeInv'
  <2>1. ReaderTypes' /\ HasSlot'
    <3>1. read_gen + ResumeAhead \in Nat
      BY BoundsAssumption DEF CounterTypes
    <3>2. e \in Nat \cup {AsIs}
      BY <3>1
    <3> QED
      BY <1>3, <3>2 DEF Resume, ReaderTypes, ReaderStates, HasSlot
  <2>2. CounterTypes' /\ MapTypes' /\ BufferType'
        /\ WriterTypes' /\ CleanerTypes' /\ ScansASlot' /\ InBounds'
    BY <1>3
       DEF Resume, counters, wvars, cvars, CounterTypes, MapTypes, BufferType, WriterTypes, CleanerTypes, ScansASlot, InBounds
  <2> QED
    BY <2>1, <2>2
<1>4. ASSUME ResumeLoad(r) PROVE TypeInv'
  <2>1. ReaderTypes' /\ HasSlot'
    BY <1>4, WordTypes
       DEF ResumeLoad, LoadWord, Word, ReaderAt, AsIs, ReaderTypes, ReaderStates, HasSlot, MapTypes
  <2>2. CounterTypes' /\ MapTypes' /\ BufferType'
        /\ WriterTypes' /\ CleanerTypes' /\ ScansASlot' /\ InBounds'
    BY <1>4
       DEF ResumeLoad, counters, wvars, cvars, CounterTypes, MapTypes, BufferType, WriterTypes, CleanerTypes, ScansASlot, InBounds
  <2> QED
    BY <2>1, <2>2
<1>5. ASSUME EnterCas(r) PROVE TypeInv'
  <2>1. ReaderTypes' /\ HasSlot'
    BY <1>5, WordTypes
       DEF EnterCas, Reload, ReaderAt, AsIs, ReaderTypes, ReaderStates, HasSlot, MapTypes
  <2>2. MapTypes'
    <3>1. Entry(r) \in Nat
      BY DEF Entry, ReaderTypes, Words
    <3>2. Active(Entry(r)) \in Words
      BY <3>1, WordTypes
    <3> QED
      BY <1>5, <3>2 DEF EnterCas, SetWord, MapTypes
  <2>3. CounterTypes' /\ BufferType' /\ WriterTypes'
        /\ CleanerTypes' /\ ScansASlot' /\ InBounds'
    BY <1>5
       DEF EnterCas, counters, wvars, cvars, CounterTypes, BufferType, WriterTypes, CleanerTypes, ScansASlot, InBounds
  <2> QED
    BY <2>1, <2>2, <2>3
<1>6. ASSUME SuspendLoad(r) PROVE TypeInv'
  <2>1. ReaderTypes' /\ HasSlot'
    BY <1>6
       DEF SuspendLoad, LoadWord, Word, ReaderTypes, ReaderStates, HasSlot, MapTypes
  <2>2. CounterTypes' /\ MapTypes' /\ BufferType'
        /\ WriterTypes' /\ CleanerTypes' /\ ScansASlot' /\ InBounds'
    BY <1>6
       DEF SuspendLoad, counters, wvars, cvars, CounterTypes, MapTypes, BufferType, WriterTypes, CleanerTypes, ScansASlot, InBounds
  <2> QED
    BY <2>1, <2>2
<1>7. ASSUME SuspendStore(r) PROVE TypeInv'
  <2>1. ReaderTypes' /\ HasSlot'
    BY <1>7, WordTypes
       DEF SuspendStore, ReaderAt, AsIs, ReaderTypes, ReaderStates, HasSlot, MapTypes
  <2>2. MapTypes'
    BY <1>7, WordTypes
       DEF SuspendStore, SetWord, MapTypes, ReaderTypes, HasSlot
  <2>3. CounterTypes' /\ BufferType' /\ WriterTypes'
        /\ CleanerTypes' /\ ScansASlot' /\ InBounds'
    BY <1>7
       DEF SuspendStore, counters, wvars, cvars, CounterTypes, BufferType, WriterTypes, CleanerTypes, ScansASlot, InBounds
  <2> QED
    BY <2>1, <2>2, <2>3
<1>8. ASSUME ReadStart(r) PROVE TypeInv'
  <2>1. ReaderTypes' /\ HasSlot'
    BY <1>8
       DEF ReadStart, LoadWord, Word, ReaderTypes, ReaderStates, HasSlot, MapTypes
  <2>2. CounterTypes' /\ MapTypes' /\ BufferType'
        /\ WriterTypes' /\ CleanerTypes' /\ ScansASlot' /\ InBounds'
    BY <1>8
       DEF ReadStart, counters, wvars, cvars, CounterTypes, MapTypes, BufferType, WriterTypes, CleanerTypes, ScansASlot, InBounds
  <2> QED
    BY <2>1, <2>2
<1>9. ASSUME ReadEnd(r) PROVE TypeInv'
  <2>1. ReaderTypes' /\ HasSlot'
    BY <1>9
       DEF ReadEnd, LoadReadGen, CounterTypes, ReaderTypes, ReaderStates, HasSlot, MapTypes
  <2>2. CounterTypes' /\ MapTypes' /\ BufferType'
        /\ WriterTypes' /\ CleanerTypes' /\ ScansASlot' /\ InBounds'
    BY <1>9
       DEF ReadEnd, counters, wvars, cvars, CounterTypes, MapTypes, BufferType, WriterTypes, CleanerTypes, ScansASlot, InBounds
  <2> QED
    BY <2>1, <2>2
<1>10. ASSUME NEW n \in 1 .. MaxBatch, ReadEndAtMost(r, n) PROVE TypeInv'
  <2>1. ReaderTypes' /\ HasSlot'
    <3>1. rword[r].gen \in Nat
      BY DEF ReaderTypes, Words
    <3>2. GenDist(read_gen, rword[r].gen) \in Nat
      BY <3>1, GenDistNat DEF CounterTypes
    <3>3. rword[r].gen + Lesser(n, GenDist(read_gen, rword[r].gen)) \in Nat
      BY <3>1, <3>2, BoundsAssumption DEF Lesser
    <3> QED
      BY <1>10, <3>3 DEF ReadEndAtMost, LoadReadGen, ReaderTypes, ReaderStates, HasSlot
  <2>2. CounterTypes' /\ MapTypes' /\ BufferType'
        /\ WriterTypes' /\ CleanerTypes' /\ ScansASlot' /\ InBounds'
    BY <1>10
       DEF ReadEndAtMost, counters, wvars, cvars, CounterTypes, MapTypes, BufferType, WriterTypes, CleanerTypes, ScansASlot, InBounds
  <2> QED
    BY <2>1, <2>2
<1>11. ASSUME DropDisarmed(r) PROVE TypeInv'
  <2>1. ReaderTypes' /\ HasSlot'
    BY <1>11, WordTypes
       DEF DropDisarmed, ReaderAt, AsIs, ReaderTypes, ReaderStates, HasSlot, MapTypes
  <2>2. CounterTypes' /\ MapTypes' /\ BufferType'
        /\ WriterTypes' /\ CleanerTypes' /\ ScansASlot' /\ InBounds'
    BY <1>11
       DEF DropDisarmed, counters, wvars, cvars, CounterTypes, MapTypes, BufferType, WriterTypes, CleanerTypes, ScansASlot, InBounds
  <2> QED
    BY <2>1, <2>2
<1>12. ASSUME DropArmed(r) PROVE TypeInv'
  <2>1. ReaderTypes' /\ HasSlot'
    BY <1>12, WordTypes
       DEF DropArmed, ReaderAt, AsIs, ReaderTypes, ReaderStates, HasSlot, MapTypes
  <2>2. CounterTypes' /\ MapTypes' /\ BufferType'
        /\ WriterTypes' /\ CleanerTypes' /\ ScansASlot' /\ InBounds'
    BY <1>12
       DEF DropArmed, counters, wvars, cvars, CounterTypes, MapTypes, BufferType, WriterTypes, CleanerTypes, ScansASlot, InBounds
  <2> QED
    BY <2>1, <2>2
<1>13. ASSUME SetGenLoad(r) PROVE TypeInv'
  <2>1. ReaderTypes' /\ HasSlot'
    BY <1>13, WordTypes
       DEF SetGenLoad, LoadWord, Word, ReaderAt, AsIs, ReaderTypes, ReaderStates, HasSlot, MapTypes
  <2>2. CounterTypes' /\ MapTypes' /\ BufferType'
        /\ WriterTypes' /\ CleanerTypes' /\ ScansASlot' /\ InBounds'
    BY <1>13
       DEF SetGenLoad, counters, wvars, cvars, CounterTypes, MapTypes, BufferType, WriterTypes, CleanerTypes, ScansASlot, InBounds
  <2> QED
    BY <2>1, <2>2
<1>14. ASSUME SetGenStore(r) PROVE TypeInv'
  <2>1. ReaderTypes' /\ HasSlot'
    BY <1>14, WordTypes
       DEF SetGenStore, ReaderAt, AsIs, ReaderTypes, ReaderStates, HasSlot, MapTypes
  <2>2. MapTypes'
    BY <1>14, WordTypes
       DEF SetGenStore, SetWord, MapTypes, ReaderTypes, HasSlot
  <2>3. CounterTypes' /\ BufferType' /\ WriterTypes'
        /\ CleanerTypes' /\ ScansASlot' /\ InBounds'
    BY <1>14
       DEF SetGenStore, counters, wvars, cvars, CounterTypes, BufferType, WriterTypes, CleanerTypes, ScansASlot, InBounds
  <2> QED
    BY <2>1, <2>2, <2>3
<1>15. ASSUME Unregister(r) PROVE TypeInv'
  <2>1. ReaderTypes' /\ HasSlot'
    BY <1>15
       DEF Unregister, LoadWord, LeaveBy, Word, ReaderTypes, ReaderStates, HasSlot, MapTypes
  <2>2. CounterTypes' /\ MapTypes' /\ BufferType'
        /\ WriterTypes' /\ CleanerTypes' /\ ScansASlot' /\ InBounds'
    BY <1>15
       DEF Unregister, counters, wvars, cvars, CounterTypes, MapTypes, BufferType, WriterTypes, CleanerTypes, ScansASlot, InBounds
  <2> QED
    BY <2>1, <2>2
<1>16. ASSUME UnregisterStore(r) PROVE TypeInv'
  <2>1. ReaderTypes' /\ HasSlot'
    BY <1>16
       DEF UnregisterStore, ReaderTypes, ReaderStates, HasSlot, MapTypes
  <2>2. MapTypes'
    BY <1>16, WordTypes
       DEF UnregisterStore, SetWord, MapTypes, ReaderTypes, HasSlot
  <2>3. CounterTypes' /\ BufferType' /\ WriterTypes'
        /\ CleanerTypes' /\ ScansASlot' /\ InBounds'
    BY <1>16
       DEF UnregisterStore, counters, wvars, cvars, CounterTypes, BufferType, WriterTypes, CleanerTypes, ScansASlot, InBounds
  <2> QED
    BY <2>1, <2>2, <2>3
<1>17. ASSUME UnregisterRemove(r) PROVE TypeInv'
  <2>1. ReaderTypes' /\ HasSlot'
    BY <1>17, WordTypes
       DEF UnregisterRemove, ReaderAt, AsIs, NoSlot, ReaderTypes, ReaderStates, HasSlot, MapTypes
  <2>2. MapTypes'
    BY <1>17
       DEF UnregisterRemove, ReaderStates, MapTypes, ReaderTypes, HasSlot
  <2>3. CounterTypes' /\ BufferType' /\ WriterTypes'
        /\ CleanerTypes' /\ ScansASlot' /\ InBounds'
    BY <1>17
       DEF UnregisterRemove, counters, wvars, cvars, CounterTypes, BufferType, WriterTypes, CleanerTypes, ScansASlot, InBounds
  <2> QED
    BY <2>1, <2>2, <2>3
<1> HIDE DEF TypeInv, TypeOK
<1> QED
  BY <1>1, <1>2, <1>3, <1>4, <1>5, <1>6, <1>7, <1>8, <1>9, <1>10, <1>11, <1>12, <1>13, <1>14, <1>15, <1>16, <1>17 DEF ReaderCall, ReaderStep

(* A scan goes on to a slot or is over.                                    *)
LEMMA NextSlotKeepsType ==
    ASSUME TypeInv, NEW c \in Cleaners, cidx[c] \in Slots, NextSlot(c),
           cmin' \in [Cleaners -> Nat], UNCHANGED <<clast, cdrop>>
    PROVE  CleanerTypes' /\ ScansASlot'
<1>1. cidx[c] + 1 \in 0 .. NSlots /\ (cidx[c] + 1 # NSlots => cidx[c] + 1 \in Slots)
  BY SlotsAssumption DEF Slots
<1>2. CleanerTypes'
  BY <1>1, WordTypes DEF TypeInv, TypeOK, CleanerTypes, CleanerStates, NextSlot
<1>3. ScansASlot'
  BY <1>1 DEF TypeInv, TypeOK, CleanerTypes, ScansASlot, NextSlot
<1> QED
  BY <1>2, <1>3

LEMMA ExamineKeepsType ==
    ASSUME TypeInv, NEW c \in Cleaners, cidx[c] \in Slots, NEW word \in Words,
           Examine(c, word), UNCHANGED <<clast, cdrop>>
    PROVE  CleanerTypes' /\ ScansASlot'
<1>1. CASE MustForce(c, word)
  BY <1>1 DEF TypeInv, TypeOK, CleanerTypes, CleanerStates, ScansASlot, Examine
<1>2. CASE ~MustForce(c, word)
  <2>1. MinHeld(cmin[c], word) \in Nat
    BY DEF TypeInv, TypeOK, CleanerTypes, Words, MinHeld, Lesser
  <2>2. cmin' \in [Cleaners -> Nat] /\ NextSlot(c)
    BY <1>2, <2>1 DEF TypeInv, TypeOK, CleanerTypes, Examine
  <2> QED
    BY <2>2, NextSlotKeepsType
<1> QED
  BY <1>1, <1>2

(* The steps of a cleanup.                                                 *)
LEMMA CleanerKeepsType ==
    ASSUME TypeInv, NEW c \in Cleaners, CleanupLoadLast(c) \/ CleanerStep(c)
    PROVE  TypeInv'
<1> USE DEF TypeInv, TypeOK
<1>1. ASSUME CleanupLoadLast(c) PROVE TypeInv'
  <2>1. CleanerTypes' /\ ScansASlot'
    BY <1>1
       DEF CleanupLoadLast, CounterTypes, CleanerTypes, CleanerStates, ScansASlot
  <2>2. CounterTypes' /\ MapTypes' /\ BufferType'
        /\ WriterTypes' /\ ReaderTypes' /\ HasSlot' /\ InBounds'
    BY <1>1
       DEF CleanupLoadLast, counters, wvars, rvars, CounterTypes, MapTypes, BufferType, WriterTypes, ReaderTypes, HasSlot, InBounds
  <2> QED
    BY <2>1, <2>2
<1>2. ASSUME CleanupLoadRead(c) PROVE TypeInv'
  <2>1. CleanerTypes' /\ ScansASlot'
    BY <1>2, SlotsAssumption, WordTypes
       DEF CleanupLoadRead, CleanerDone, LoadReadGen, Slots, CounterTypes, CleanerTypes, CleanerStates, ScansASlot
  <2>2. CounterTypes' /\ MapTypes' /\ BufferType'
        /\ WriterTypes' /\ ReaderTypes' /\ HasSlot' /\ InBounds'
    BY <1>2
       DEF CleanupLoadRead, counters, wvars, rvars, CounterTypes, MapTypes, BufferType, WriterTypes, ReaderTypes, HasSlot, InBounds
  <2> QED
    BY <2>1, <2>2
<1>3. ASSUME ScanSlot(c) PROVE TypeInv'
  <2>1. CleanerTypes' /\ ScansASlot'
    <3>1. cidx[c] \in Slots
      BY <1>3 DEF ScanSlot, ScansASlot
    <3>2. slot[cidx[c]] \in Words
      BY <3>1 DEF MapTypes
    <3>3. Examine(c, slot[cidx[c]]) /\ UNCHANGED <<clast, cdrop>>
      BY <1>3 DEF ScanSlot
    <3> HIDE DEF TypeInv
    <3> QED
      BY <3>1, <3>2, <3>3, ExamineKeepsType
  <2>2. CounterTypes' /\ MapTypes' /\ BufferType'
        /\ WriterTypes' /\ ReaderTypes' /\ HasSlot' /\ InBounds'
    BY <1>3
       DEF ScanSlot, counters, wvars, rvars, CounterTypes, MapTypes, BufferType, WriterTypes, ReaderTypes, HasSlot, InBounds
  <2> QED
    BY <2>1, <2>2
<1>4. ASSUME ForceForward(c) PROVE TypeInv'
  <2>1. CleanerTypes' /\ ScansASlot'
    <3>1. cidx[c] \in Slots
      BY <1>4 DEF ForceForward, ScansASlot
    <3>2. slot[cidx[c]] \in Words
      BY <3>1 DEF MapTypes
    <3>3. CASE WordCas(cidx[c], cword[c])
      <4>1. NextSlot(c) /\ UNCHANGED <<cmin, clast, cdrop>>
        BY <1>4, <3>3 DEF ForceForward
      <4>2. cmin' \in [Cleaners -> Nat]
        BY <4>1 DEF CleanerTypes
      <4> HIDE DEF TypeInv
      <4> QED
        BY <3>1, <4>1, <4>2, NextSlotKeepsType
    <3>4. CASE ~WordCas(cidx[c], cword[c])
      <4>1. Examine(c, slot[cidx[c]]) /\ UNCHANGED <<clast, cdrop>>
        BY <1>4, <3>4 DEF ForceForward
      <4> HIDE DEF TypeInv
      <4> QED
        BY <3>1, <3>2, <4>1, ExamineKeepsType
    <3> QED
      BY <3>3, <3>4
  <2>2. MapTypes'
    BY <1>4, WordTypes
       DEF ForceForward, MapTypes, CleanerTypes
  <2>3. CounterTypes' /\ BufferType' /\ WriterTypes'
        /\ ReaderTypes' /\ HasSlot' /\ InBounds'
    BY <1>4
       DEF ForceForward, counters, wvars, rvars, CounterTypes, BufferType, WriterTypes, ReaderTypes, HasSlot, InBounds
  <2> QED
    BY <2>1, <2>2, <2>3
<1>5. ASSUME CleanupTooLate(c) PROVE TypeInv'
  <2>1. CleanerTypes' /\ ScansASlot'
    BY <1>5, SlotsAssumption, WordTypes
       DEF CleanupTooLate, CleanerDone, CleanerTypes, CleanerStates, ScansASlot
  <2>2. CounterTypes' /\ MapTypes' /\ BufferType'
        /\ WriterTypes' /\ ReaderTypes' /\ HasSlot' /\ InBounds'
    BY <1>5
       DEF CleanupTooLate, counters, wvars, rvars, CounterTypes, MapTypes, BufferType, WriterTypes, ReaderTypes, HasSlot, InBounds
  <2> QED
    BY <2>1, <2>2
<1>6. ASSUME CleanupClaim(c) PROVE TypeInv'
  <2>1. CleanerTypes' /\ ScansASlot'
    BY <1>6
       DEF CleanupClaim, FoundLastValid, CounterTypes, CleanerTypes, CleanerStates, ScansASlot
  <2>2. CounterTypes'
    BY <1>6
       DEF CleanupClaim, CounterTypes, CleanerTypes
  <2>3. MapTypes' /\ BufferType' /\ WriterTypes'
        /\ ReaderTypes' /\ HasSlot' /\ InBounds'
    BY <1>6
       DEF CleanupClaim, counters, wvars, rvars, MapTypes, BufferType, WriterTypes, ReaderTypes, HasSlot, InBounds
  <2> QED
    BY <2>1, <2>2, <2>3
<1>7. ASSUME DropMessage(c) PROVE TypeInv'
  <2>1. CleanerTypes' /\ ScansASlot'
    BY <1>7
       DEF DropMessage, CleanerTypes, CleanerStates, ScansASlot
  <2>2. BufferType'
    BY <1>7
       DEF DropMessage, BufferType
  <2>3. CounterTypes' /\ MapTypes' /\ WriterTypes'
        /\ ReaderTypes' /\ HasSlot' /\ InBounds'
    BY <1>7
       DEF DropMessage, counters, wvars, rvars, CounterTypes, MapTypes, WriterTypes, ReaderTypes, HasSlot, InBounds
  <2> QED
    BY <2>1, <2>2, <2>3
<1>8. ASSUME CleanupFree(c) PROVE TypeInv'
  <2>1. CleanerTypes' /\ ScansASlot'
    BY <1>8, SlotsAssumption, WordTypes
       DEF CleanupFree, CleanerDone, CleanerTypes, CleanerStates, ScansASlot
  <2>2. CounterTypes'
    BY <1>8
       DEF CleanupFree, CounterTypes, CleanerTypes
  <2>3. MapTypes' /\ BufferType' /\ WriterTypes'
        /\ ReaderTypes' /\ HasSlot' /\ InBounds'
    BY <1>8
       DEF CleanupFree, counters, wvars, rvars, MapTypes, BufferType, WriterTypes, ReaderTypes, HasSlot, InBounds
  <2> QED
    BY <2>1, <2>2, <2>3
<1> HIDE DEF TypeInv, TypeOK
<1> QED
  BY <1>1, <1>2, <1>3, <1>4, <1>5, <1>6, <1>7, <1>8 DEF CleanerStep

LEMMA StepKeepsType == TypeInv /\ [Next]_vars => TypeInv'
<1> SUFFICES ASSUME TypeInv, [Next]_vars PROVE TypeInv'
  OBVIOUS
<1>1. CASE UNCHANGED vars
  BY <1>1 DEF vars, counters, wvars, rvars, cvars, TypeInv, TypeOK, CounterTypes, MapTypes,
              BufferType, WriterTypes, ReaderTypes, CleanerTypes, HasSlot, ScansASlot, InBounds
<1>2. CASE Next
  BY <1>2, WriterKeepsType, ReaderKeepsType, CleanerKeepsType DEF Next
<1> QED
  BY <1>1, <1>2

(* Every variable of an area keeps its type.                               *)
THEOREM TypeCorrect == Spec => []TypeOK
<1>1. Spec => []TypeInv
  BY InitType, StepKeepsType, PTL DEF Spec
<1>2. TypeInv => TypeOK
  BY DEF TypeInv
<1> QED
  BY <1>1, <1>2, PTL

-----------------------------------------------------------------------------
(* The four counters stay in order and never more than the capacity apart, *)
(* though every thread decides on values it loaded some steps ago.  The    *)
(* inductive invariant says of each thread what stays true of the values   *)
(* it holds: a reservation fits behind the free_gen it loaded, a scan's    *)
(* minimum was published, a range about to be freed was claimed.           *)
Ordered ==
    /\ free_gen <= last_valid_gen /\ last_valid_gen <= read_gen
    /\ read_gen <= write_gen /\ write_gen <= free_gen + BufferCapacity

WriterFits(w) ==
    /\ wpc[w] \in {"load_write", "grab"} => wfree[w] <= free_gen
    /\ wpc[w] = "grab" => wstart[w] < wend[w] /\ wend[w] <= wfree[w] + BufferCapacity
    /\ wpc[w] \in {"fill", "publish"} => wstart[w] < wend[w] /\ wend[w] <= write_gen

CleanerFits(c) ==
    /\ cpc[c] \in {"scan", "force", "claim"} => cmin[c] <= read_gen
    /\ cpc[c] \in {"drop", "free"} => clast[c] < cmin[c] /\ cmin[c] <= last_valid_gen

Counting ==
    /\ Ordered
    /\ \A w \in Writers : WriterFits(w)
    /\ \A c \in Cleaners : CleanerFits(c)

CountersInv == TypeInv /\ Counting

(* Counters only grow, and what was true of an old value stays true.       *)
CountersGrow ==
    /\ write_gen <= write_gen' /\ read_gen <= read_gen'
    /\ last_valid_gen <= last_valid_gen' /\ free_gen <= free_gen'

-----------------------------------------------------------------------------
LEMMA InitCounting == Init => Counting
  BY CapacityAssumption DEF Init, Counting, Ordered, WriterFits, CleanerFits

LEMMA WritersStillFit ==
    ASSUME TypeInv, TypeInv', Counting, CountersGrow, NEW w \in Writers,
           wpc'[w] = wpc[w], wfree'[w] = wfree[w], wstart'[w] = wstart[w], wend'[w] = wend[w]
    PROVE  WriterFits(w)'
<1>1. WriterFits(w)
  BY DEF Counting
<1>2. wfree[w] \in Nat /\ wend[w] \in Nat /\ CounterTypes /\ CounterTypes'
  BY DEF TypeInv, TypeOK, WriterTypes
<1> QED
  BY <1>1, <1>2 DEF WriterFits, CountersGrow, CounterTypes

LEMMA CleanersStillFit ==
    ASSUME TypeInv, TypeInv', Counting, CountersGrow, NEW c \in Cleaners,
           cpc'[c] = cpc[c], cmin'[c] = cmin[c], clast'[c] = clast[c]
    PROVE  CleanerFits(c)'
<1>1. CleanerFits(c)
  BY DEF Counting
<1>2. cmin[c] \in Nat /\ CounterTypes /\ CounterTypes'
  BY DEF TypeInv, TypeOK, CleanerTypes
<1> QED
  BY <1>1, <1>2 DEF CleanerFits, CountersGrow, CounterTypes

(* A step of one writer, or of one cleaner: the others still fit.          *)
LEMMA WriterAlone ==
    ASSUME TypeInv, TypeInv', Counting, CountersGrow, NEW w \in Writers,
           \A v \in Writers \ {w} : wpc'[v] = wpc[v] /\ wfree'[v] = wfree[v]
                                    /\ wstart'[v] = wstart[v] /\ wend'[v] = wend[v],
           UNCHANGED cvars, WriterFits(w)', Ordered'
    PROVE  Counting'
<1>1. \A v \in Writers : WriterFits(v)'
  BY WritersStillFit
<1>2. \A c \in Cleaners : CleanerFits(c)'
  BY CleanersStillFit DEF cvars
<1> QED
  BY <1>1, <1>2 DEF Counting

LEMMA CleanerAlone ==
    ASSUME TypeInv, TypeInv', Counting, CountersGrow, NEW c \in Cleaners,
           \A d \in Cleaners \ {c} : cpc'[d] = cpc[d] /\ cmin'[d] = cmin[d]
                                     /\ clast'[d] = clast[d],
           UNCHANGED wvars, CleanerFits(c)', Ordered'
    PROVE  Counting'
<1>1. \A d \in Cleaners : CleanerFits(d)'
  BY CleanersStillFit
<1>2. \A w \in Writers : WriterFits(w)'
  BY WritersStillFit DEF wvars
<1> QED
  BY <1>1, <1>2 DEF Counting

-----------------------------------------------------------------------------
(* The operations of a reservation.                                        *)
(* n > 0 slots that are said to be available end at most BufferCapacity    *)
(* past the free_gen that was loaded, however long ago that was.           *)
LEMMA RoomFits ==
    ASSUME TypeInv, NEW w \in Writers, NEW n \in Nat \ {0}, n <= Room(w)
    PROVE  write_gen + n <= wfree[w] + BufferCapacity
<1>1. wfree[w] \in Nat /\ write_gen \in Nat
  BY DEF TypeInv, TypeOK, WriterTypes, CounterTypes
<1>2. n <= Available(w)
  BY <1>1, CapacityAssumption, BoundsAssumption
     DEF Room, Lesser, Available, LoadWriteGen
<1> QED
  BY <1>1, <1>2, CapacityAssumption DEF Available, Lesser, LoadWriteGen

LEMMA AimFits ==
    ASSUME TypeInv, Counting, NEW w \in Writers, NEW n \in Nat \ {0}, n <= Room(w),
           wpc[w] = "load_write", Aim(w, n), UNCHANGED counters
    PROVE  WriterFits(w)'
<1>1. wpc'[w] = "grab" /\ wstart'[w] = write_gen /\ wend'[w] = write_gen + n
      /\ wfree'[w] = wfree[w] /\ free_gen' = free_gen
  BY DEF Aim, LoadWriteGen, TypeInv, TypeOK, WriterTypes, counters
<1>2. write_gen \in Nat /\ wfree[w] <= free_gen
  BY DEF TypeInv, TypeOK, CounterTypes, Counting, WriterFits
<1> QED
  BY <1>1, <1>2, RoomFits DEF WriterFits

LEMMA DoneFits ==
    ASSUME TypeInv, NEW w \in Writers, WriterDone(w) PROVE WriterFits(w)'
  BY DEF TypeInv, TypeOK, WriterTypes, WriterDone, WriterFits

LEMMA SameCounters ==
    ASSUME TypeInv, Counting, UNCHANGED counters PROVE CountersGrow /\ Ordered'
  BY DEF TypeInv, TypeOK, CounterTypes, Counting, Ordered, CountersGrow, counters

LEMMA WriterKeepsCounting ==
    ASSUME CountersInv, TypeInv', NEW w \in Writers, ReserveLoadFree(w) \/ WriterStep(w)
    PROVE  Counting'
<1> DEFINE OthersStay == \A v \in Writers \ {w} :
               wpc'[v] = wpc[v] /\ wfree'[v] = wfree[v]
               /\ wstart'[v] = wstart[v] /\ wend'[v] = wend[v]
<1>0. /\ TypeInv /\ Counting /\ WriterTypes /\ WriterFits(w) /\ Ordered
      /\ write_gen \in Nat /\ read_gen \in Nat /\ last_valid_gen \in Nat /\ free_gen \in Nat
      /\ wfree[w] \in Nat /\ wstart[w] \in Nat /\ wend[w] \in Nat
  BY DEF CountersInv, TypeInv, TypeOK, WriterTypes, CounterTypes, Counting
<1>1. ASSUME ReserveLoadFree(w) PROVE Counting'
  <2>1. OthersStay /\ UNCHANGED <<counters, cvars>>
    BY <1>0, <1>1 DEF ReserveLoadFree, WriterTypes
  <2>2. WriterFits(w)'
    BY <1>0, <1>1 DEF ReserveLoadFree, WriterTypes, WriterFits, counters
  <2> QED
    BY <1>0, <2>1, <2>2, SameCounters, WriterAlone
<1>2. ASSUME NEW n \in 1 .. MaxBatch, ReserveExactly(w, n) PROVE Counting'
  <2>1. OthersStay /\ UNCHANGED <<counters, cvars>>
    BY <1>0, <1>2 DEF ReserveExactly, WriterDone, Aim, WriterTypes
  <2>2. WriterFits(w)'
    <3>1. Room(w) \in Nat
      BY <1>0, RoomInBounds
    <3>2. CASE n > Room(w)
      BY <1>0, <1>2, <3>2, DoneFits DEF ReserveExactly
    <3>3. CASE ~(n > Room(w))
      <4>1. n \in Nat \ {0} /\ n <= Room(w)
        BY <3>1, <3>3
      <4> QED
        BY <1>0, <1>2, <3>3, <4>1, AimFits DEF ReserveExactly
    <3> QED
      BY <3>2, <3>3
  <2> QED
    BY <1>0, <2>1, <2>2, SameCounters, WriterAlone
<1>3. ASSUME NEW n \in 1 .. MaxBatch, ReserveBestEffort(w, n) PROVE Counting'
  <2> DEFINE actual == Lesser(n, Room(w))
  <2>1. OthersStay /\ UNCHANGED <<counters, cvars>>
    BY <1>0, <1>3 DEF ReserveBestEffort, WriterDone, Aim, WriterTypes
  <2>2. WriterFits(w)'
    <3>1. actual \in Nat /\ actual <= Room(w)
      BY <1>0, RoomInBounds DEF Lesser
    <3>2. CASE actual = 0
      BY <1>0, <1>3, <3>2, DoneFits DEF ReserveBestEffort
    <3>3. CASE actual # 0
      <4>1. wpc[w] = "load_write" /\ Aim(w, actual) /\ UNCHANGED counters
        BY <1>3, <3>3 DEF ReserveBestEffort
      <4> HIDE DEF actual
      <4> QED
        BY <1>0, <3>1, <3>3, <4>1, AimFits
    <3> QED
      BY <3>2, <3>3
  <2> QED
    BY <1>0, <2>1, <2>2, SameCounters, WriterAlone
<1>4. ASSUME Grab(w) PROVE Counting'
  <2>1. OthersStay /\ UNCHANGED <<read_gen, last_valid_gen, free_gen, cvars>>
    BY <1>0, <1>4 DEF Grab, WriterDone, WriterTypes
  <2>2. CASE WriteGenCas(w)
    <3>1. wpc[w] = "grab" /\ write_gen = wstart[w] /\ write_gen' = wend[w]
          /\ wpc'[w] = "fill" /\ wstart'[w] = wstart[w] /\ wend'[w] = wend[w]
      BY <1>0, <1>4, <2>2 DEF Grab, WriteGenCas, WriterTypes
    <3>2. CountersGrow /\ Ordered' /\ WriterFits(w)'
      BY <1>0, <2>1, <3>1, CapacityAssumption DEF CountersGrow, Ordered, WriterFits
    <3> QED
      BY <1>0, <2>1, <3>2, WriterAlone
  <2>3. CASE ~WriteGenCas(w)
    <3>1. WriterDone(w) /\ UNCHANGED counters
      BY <1>4, <2>3 DEF Grab, counters
    <3> QED
      BY <1>0, <2>1, <3>1, DoneFits, SameCounters, WriterAlone
  <2> QED
    BY <2>2, <2>3
<1>5. ASSUME Fill(w) PROVE Counting'
  <2>1. OthersStay /\ UNCHANGED <<counters, cvars>>
    BY <1>0, <1>5 DEF Fill, WriterTypes
  <2>2. wpc[w] = "fill" /\ wpc'[w] \in {"fill", "publish"}
        /\ UNCHANGED <<wstart, wend, write_gen>>
    BY <1>0, <1>5 DEF Fill, WriterTypes, counters
  <2>3. WriterFits(w)'
    BY <1>0, <2>2 DEF WriterFits
  <2> QED
    BY <1>0, <2>1, <2>3, SameCounters, WriterAlone
<1>6. ASSUME Publish(w) PROVE Counting'
  <2>1. OthersStay /\ UNCHANGED <<write_gen, last_valid_gen, free_gen, cvars>>
    BY <1>0, <1>6 DEF Publish, WriterDone, WriterTypes
  <2>2. wpc[w] = "publish" /\ read_gen = wstart[w] /\ read_gen' = wend[w] /\ WriterDone(w)
    BY <1>6 DEF Publish, ReadGenCas
  <2>3. CountersGrow /\ Ordered'
    BY <1>0, <2>1, <2>2, CapacityAssumption DEF CountersGrow, Ordered, WriterFits
  <2> QED
    BY <1>0, <2>1, <2>2, <2>3, DoneFits, WriterAlone
<1> QED
  BY <1>1, <1>2, <1>3, <1>4, <1>5, <1>6 DEF WriterStep

-----------------------------------------------------------------------------
(* The operations of a cleaner.                                            *)
(* The minimum of a scan only goes down.                                   *)
LEMMA ExamineCounts ==
    ASSUME TypeInv, Counting, NEW c \in Cleaners, cpc[c] \in {"scan", "force"},
           NEW word \in Words, Examine(c, word), UNCHANGED <<counters, clast>>
    PROVE  /\ CleanerFits(c)'
           /\ \A d \in Cleaners \ {c} : cpc'[d] = cpc[d] /\ cmin'[d] = cmin[d]
<1>1. CleanerTypes /\ cmin[c] \in Nat /\ word.gen \in Nat /\ read_gen \in Nat
      /\ cmin[c] <= read_gen /\ read_gen' = read_gen
  BY DEF TypeInv, TypeOK, CleanerTypes, CounterTypes, Words, Counting, CleanerFits, counters
<1>2. CASE MustForce(c, word)
  <2>1. cpc' = [cpc EXCEPT ![c] = "force"] /\ cmin' = cmin
    BY <1>2 DEF Examine
  <2> QED
    BY <1>1, <2>1 DEF CleanerTypes, CleanerFits
<1>3. CASE ~MustForce(c, word)
  <2>1. cmin' = [cmin EXCEPT ![c] = MinHeld(cmin[c], word)] /\ NextSlot(c)
    BY <1>3 DEF Examine
  <2>2. cmin'[c] <= read_gen
    BY <1>1, <2>1 DEF CleanerTypes, MinHeld, Lesser
  <2>3. cpc'[c] \in {"scan", "claim"}
        /\ \A d \in Cleaners \ {c} : cpc'[d] = cpc[d] /\ cmin'[d] = cmin[d]
    BY <1>1, <2>1 DEF CleanerTypes, NextSlot
  <2> QED
    BY <1>1, <2>2, <2>3 DEF CleanerFits
<1> QED
  BY <1>2, <1>3

LEMMA CleanerKeepsCounting ==
    ASSUME CountersInv, TypeInv', NEW c \in Cleaners, CleanupLoadLast(c) \/ CleanerStep(c)
    PROVE  Counting'
<1> DEFINE OthersStay == \A d \in Cleaners \ {c} :
               cpc'[d] = cpc[d] /\ cmin'[d] = cmin[d] /\ clast'[d] = clast[d]
<1>0. /\ TypeInv /\ Counting /\ CleanerTypes /\ CleanerFits(c) /\ Ordered
      /\ write_gen \in Nat /\ read_gen \in Nat /\ last_valid_gen \in Nat /\ free_gen \in Nat
      /\ clast[c] \in Nat /\ cmin[c] \in Nat
  BY DEF CountersInv, TypeInv, TypeOK, CleanerTypes, CounterTypes, Counting
<1>1. ASSUME CleanupLoadLast(c) PROVE Counting'
  <2>1. OthersStay /\ UNCHANGED <<counters, wvars>> /\ cpc'[c] = "load_read"
    BY <1>0, <1>1 DEF CleanupLoadLast, CleanerTypes
  <2> QED
    BY <1>0, <2>1, SameCounters, CleanerAlone DEF CleanerFits
<1>2. ASSUME CleanupLoadRead(c) PROVE Counting'
  <2>1. OthersStay /\ UNCHANGED <<counters, wvars>>
    BY <1>0, <1>2 DEF CleanupLoadRead, CleanerDone, CleanerTypes
  <2>2. cpc'[c] = "idle" \/ (cpc'[c] = "scan" /\ cmin'[c] = read_gen)
    BY <1>0, <1>2 DEF CleanupLoadRead, CleanerDone, LoadReadGen, CleanerTypes
  <2>3. CleanerFits(c)'
    BY <1>0, <2>1, <2>2 DEF CleanerFits, counters
  <2> QED
    BY <1>0, <2>1, <2>3, SameCounters, CleanerAlone
<1>3. ASSUME ScanSlot(c) PROVE Counting'
  <2>1. cpc[c] = "scan" /\ Examine(c, slot[cidx[c]]) /\ UNCHANGED <<counters, wvars, clast>>
    BY <1>3 DEF ScanSlot
  <2>2. slot[cidx[c]] \in Words
    BY <1>0, <2>1 DEF TypeInv, TypeOK, MapTypes, ScansASlot
  <2>3. CleanerFits(c)' /\ OthersStay
    BY <1>0, <2>1, <2>2, ExamineCounts
  <2> QED
    BY <1>0, <2>1, <2>3, SameCounters, CleanerAlone
<1>4. ASSUME ForceForward(c) PROVE Counting'
  <2>1. cpc[c] = "force" /\ UNCHANGED <<counters, wvars, clast>>
    BY <1>4 DEF ForceForward
  <2>2. slot[cidx[c]] \in Words
    BY <1>0, <2>1 DEF TypeInv, TypeOK, MapTypes, ScansASlot
  <2>3. CASE WordCas(cidx[c], cword[c])
    <3>1. NextSlot(c) /\ cmin' = cmin
      BY <1>4, <2>3 DEF ForceForward
    <3>2. OthersStay /\ cpc'[c] \in {"scan", "claim"}
      BY <1>0, <2>1, <3>1 DEF NextSlot, CleanerTypes
    <3>3. CleanerFits(c)'
      BY <1>0, <2>1, <3>1, <3>2 DEF CleanerFits, counters
    <3> QED
      BY <1>0, <2>1, <3>2, <3>3, SameCounters, CleanerAlone
  <2>4. CASE ~WordCas(cidx[c], cword[c])
    <3>1. Examine(c, slot[cidx[c]])
      BY <1>4, <2>4 DEF ForceForward
    <3>2. CleanerFits(c)' /\ OthersStay
      BY <1>0, <2>1, <2>2, <3>1, ExamineCounts
    <3> QED
      BY <1>0, <2>1, <3>2, SameCounters, CleanerAlone
  <2> QED
    BY <2>3, <2>4
<1>5. ASSUME CleanupTooLate(c) PROVE Counting'
  <2>1. OthersStay /\ UNCHANGED <<counters, wvars>> /\ cpc'[c] = "idle"
    BY <1>0, <1>5 DEF CleanupTooLate, CleanerDone, CleanerTypes
  <2> QED
    BY <1>0, <2>1, SameCounters, CleanerAlone DEF CleanerFits
<1>6. ASSUME CleanupClaim(c) PROVE Counting'
  <2>1. cpc[c] = "claim" /\ cmin[c] > clast[c] /\ cmin' = cmin
        /\ OthersStay /\ UNCHANGED <<write_gen, read_gen, free_gen, wvars>>
    BY <1>0, <1>6 DEF CleanupClaim, CleanerTypes
  <2>2. CASE LastValidCas(c)
    <3>1. last_valid_gen = clast[c] /\ last_valid_gen' = cmin[c]
          /\ cpc'[c] = "drop" /\ clast' = clast
      BY <1>0, <1>6, <2>2 DEF CleanupClaim, LastValidCas, CleanerTypes
    <3>2. CountersGrow /\ Ordered' /\ CleanerFits(c)'
      BY <1>0, <2>1, <3>1, CapacityAssumption DEF CountersGrow, Ordered, CleanerFits
    <3> QED
      BY <1>0, <2>1, <3>2, CleanerAlone
  <2>3. CASE ~LastValidCas(c)
    <3>1. UNCHANGED counters /\ cpc' = cpc
      BY <1>6, <2>3 DEF CleanupClaim, counters
    <3>2. CleanerFits(c)'
      BY <1>0, <2>1, <3>1 DEF CleanerFits, counters
    <3> QED
      BY <1>0, <2>1, <3>1, <3>2, SameCounters, CleanerAlone
  <2> QED
    BY <2>2, <2>3
<1>7. ASSUME DropMessage(c) PROVE Counting'
  <2>1. OthersStay /\ UNCHANGED <<counters, wvars, cmin, clast>>
        /\ cpc[c] = "drop" /\ cpc'[c] \in {"drop", "free"}
    BY <1>0, <1>7 DEF DropMessage, CleanerTypes
  <2>2. CleanerFits(c)'
    BY <1>0, <2>1 DEF CleanerFits, counters
  <2> QED
    BY <1>0, <2>1, <2>2, SameCounters, CleanerAlone
<1>8. ASSUME CleanupFree(c) PROVE Counting'
  <2>1. OthersStay /\ UNCHANGED <<write_gen, read_gen, last_valid_gen, wvars>>
        /\ cpc'[c] = "idle"
    BY <1>0, <1>8 DEF CleanupFree, CleanerDone, CleanerTypes
  <2>2. cpc[c] = "free" /\ free_gen = clast[c] /\ free_gen' = cmin[c]
    BY <1>8 DEF CleanupFree, FreeGenCas
  <2>3. CountersGrow /\ Ordered' /\ CleanerFits(c)'
    BY <1>0, <2>1, <2>2, CapacityAssumption DEF CountersGrow, Ordered, CleanerFits
  <2> QED
    BY <1>0, <2>1, <2>3, CleanerAlone
<1> QED
  BY <1>1, <1>2, <1>3, <1>4, <1>5, <1>6, <1>7, <1>8 DEF CleanerStep

-----------------------------------------------------------------------------
(* A reader touches no counter.                                            *)
LEMMA ReaderLeavesCounters ==
    ASSUME NEW r \in Readers, ReaderCall(r) \/ ReaderStep(r)
    PROVE  UNCHANGED <<counters, wvars, cvars>>
  BY DEF ReaderCall, ReaderStep, Register, RegisterLoad, Resume, ResumeLoad, EnterCas,
     SuspendLoad, SuspendStore, ReadStart, ReadEnd, ReadEndAtMost, DropDisarmed,
     DropArmed, SetGenLoad, SetGenStore, Unregister, UnregisterStore, UnregisterRemove

LEMMA StillCounting ==
    ASSUME Counting, UNCHANGED <<counters, wvars, cvars>> PROVE Counting'
  BY DEF Counting, Ordered, WriterFits, CleanerFits, counters, wvars, cvars

LEMMA StepKeepsCounting == CountersInv /\ [Next]_vars => CountersInv'
<1> SUFFICES ASSUME CountersInv, [Next]_vars PROVE CountersInv'
  OBVIOUS
<1>1. TypeInv'
  BY StepKeepsType DEF CountersInv
<1>2. Counting
  BY DEF CountersInv
<1>3. ASSUME NEW w \in Writers, ReserveLoadFree(w) \/ WriterStep(w) PROVE Counting'
  BY <1>1, <1>3, WriterKeepsCounting
<1>4. ASSUME NEW r \in Readers, ReaderCall(r) \/ ReaderStep(r) PROVE Counting'
  BY <1>2, <1>4, ReaderLeavesCounters, StillCounting
<1>5. ASSUME NEW c \in Cleaners, CleanupLoadLast(c) \/ CleanerStep(c) PROVE Counting'
  BY <1>1, <1>5, CleanerKeepsCounting
<1>6. CASE UNCHANGED vars
  BY <1>1, <1>2, <1>6, StillCounting DEF CountersInv, vars
<1> QED
  BY <1>1, <1>3, <1>4, <1>5, <1>6 DEF Next, CountersInv

(* The four counters stay in order and at most the capacity apart: no      *)
(* reservation runs into messages that were not freed, no cleanup claims   *)
(* or frees what is not published, and the assertion of try_reserve_slots  *)
(* on the two values it loaded holds.                                      *)
THEOREM CountersAlwaysInOrder == Spec => []CountersInOrder
<1>1. Init => CountersInv
  BY InitType, InitCounting DEF CountersInv
<1>2. CountersInv => CountersInOrder
  <2>1. CountersInv => /\ free_gen \in Nat /\ write_gen \in Nat /\ read_gen \in Nat
                       /\ last_valid_gen \in Nat /\ wfree \in [Writers -> Nat]
    BY DEF CountersInv, TypeInv, TypeOK, CounterTypes, WriterTypes
  <2> QED
    BY <2>1 DEF CountersInv, Counting, Ordered, WriterFits, CountersInOrder
<1> QED
  BY <1>1, <1>2, StepKeepsCounting, PTL DEF Spec
=============================================================================

----------------------------- MODULE Broadcast -----------------------------
(***************************************************************************)
(* What an area promises, without its atomics, its ring or its map: one    *)
(* bounded stream of messages, numbered in the order of publication, that  *)
(* every reader hears from the point where it came in until it leaves.     *)
(***************************************************************************)
EXTENDS Integers

CONSTANTS
    Readers,         \* the readers there may be
    FirstReader,     \* the one that is there from the start
    BufferCapacity   \* how many messages are kept at most

VARIABLES
    published,   \* messages 0 .. published - 1 were published
    dropped,     \* messages 0 .. dropped - 1 may be gone
    position     \* the next message a reader wants, Away if it wants none

vars == <<published, dropped, position>>

Away == -1

Init ==
    /\ published = 0
    /\ dropped = 0
    /\ position = [r \in Readers |-> IF r = FirstReader THEN 0 ELSE Away]

(* A batch goes out in one step.  No more than the capacity is kept.       *)
Publish ==
    \E n \in 1 .. BufferCapacity :
        /\ published + n <= dropped + BufferCapacity
        /\ published' = published + n
        /\ UNCHANGED <<dropped, position>>

(* A reader comes in, for the first time or again, where nothing is        *)
(* dropped and no later than at the next message.                          *)
Enter(r) ==
    /\ position[r] = Away
    /\ \E g \in dropped .. published : position' = [position EXCEPT ![r] = g]
    /\ UNCHANGED <<published, dropped>>

(* It has finished with the messages before g, all of them published.      *)
Hear(r) ==
    /\ position[r] # Away
    /\ \E g \in position[r] + 1 .. published : position' = [position EXCEPT ![r] = g]
    /\ UNCHANGED <<published, dropped>>

(* It suspends itself or goes for good.                                    *)
Leave(r) ==
    /\ position[r] # Away
    /\ position' = [position EXCEPT ![r] = Away]
    /\ UNCHANGED <<published, dropped>>

(* Messages go once no reader that is there wants them.                    *)
Drop ==
    /\ \E g \in dropped + 1 .. published :
        /\ \A r \in Readers : position[r] # Away => g <= position[r]
        /\ dropped' = g
    /\ UNCHANGED <<published, position>>

Next ==
    \/ Publish
    \/ \E r \in Readers : Enter(r) \/ Hear(r) \/ Leave(r)
    \/ Drop

Spec == Init /\ [][Next]_vars

-----------------------------------------------------------------------------
(* The single defining guarantee of ALG.md, with what makes it inductive:  *)
(* a message that a present reader still wants is neither gone nor beyond  *)
(* what was published.                                                     *)
NothingWantedIsGone ==
    /\ published \in Nat /\ dropped \in Nat
    /\ dropped <= published
    /\ published <= dropped + BufferCapacity
    /\ position \in [Readers -> Nat \cup {Away}]
    /\ \A r \in Readers : position[r] # Away =>
          dropped <= position[r] /\ position[r] <= published
=============================================================================

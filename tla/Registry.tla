------------------------------ MODULE Registry ------------------------------
(***************************************************************************)
(* What the reader map promises: a fixed number of slots, each of which is *)
(* nobody's or one reader's.  A reader that has none may be given any slot *)
(* that is nobody's, at one moment; it keeps it, and no other, until it    *)
(* gives it up.  Area and Teardown register and unregister their readers   *)
(* like this.                                                              *)
(***************************************************************************)
CONSTANTS Readers, Slots, Nobody

VARIABLE holder    \* whose each slot is

Init == holder = [s \in Slots |-> Nobody]

Claim(r, s) ==
    /\ holder[s] = Nobody
    /\ \A t \in Slots : holder[t] # r
    /\ holder' = [holder EXCEPT ![s] = r]

GiveUp(s) ==
    /\ holder[s] # Nobody
    /\ holder' = [holder EXCEPT ![s] = Nobody]

Next == \E s \in Slots : GiveUp(s) \/ \E r \in Readers : Claim(r, s)

Spec == Init /\ [][Next]_holder
=============================================================================

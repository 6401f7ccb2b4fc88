----------------------------- MODULE AreaFaults -----------------------------
(***************************************************************************)
(* Area with the ways a call can fail halfway: the program's own code      *)
(* panics under it and unwinds, or a program gives up what it reserved.    *)
(* What they leave behind stays, in the way of everybody else.             *)
(***************************************************************************)
EXTENDS Area

(* T::drop panics in a cleanup.  Its message is gone, those after it in the*)
(* claimed range are not, and free_gen will not get past the range: the    *)
(* call unwinds out of it, and no other call drops it again.               *)
DropPanics(c) ==
    /\ cpc[c] = "drop"
    /\ buffer' = [buffer EXCEPT ![Cell(cdrop[c])] = Uninit]
    /\ CleanerDone(c)
    /\ UNCHANGED <<counters, slot, key, wvars, rvars>>

(* A reservation, filled or not, is dropped unpublished, with a panic if it*)
(* is armed, silently if it was disarmed, and its range given up for good: *)
(* a program that fills and publishes it later (publish_slots) is, for this*)
(* module, a writer that still holds it.                                   *)
Abandon(w) ==
    /\ wpc[w] \in {"fill", "publish"}
    /\ WriterDone(w)
    /\ UNCHANGED <<counters, slot, key, buffer, rvars, cvars>>

FaultStep ==
    \/ \E c \in Cleaners : DropPanics(c)
    \/ \E w \in Writers : Abandon(w)

FaultSpec == Init /\ [][Next \/ FaultStep]_vars
=============================================================================

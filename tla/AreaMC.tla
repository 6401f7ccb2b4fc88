------------------------------- MODULE AreaMC -------------------------------
(***************************************************************************)
(* Instances of Area for TLC.                                              *)
(***************************************************************************)
EXTENDS AreaFaults, TLC, FiniteSets

(* Reservations are interchangeable, and so are cleanup calls; the first   *)
(* reader is not like the others.                                          *)
Interchangeable == Permutations(Writers) \cup Permutations(Cleaners)
=============================================================================

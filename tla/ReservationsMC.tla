--------------------------- MODULE ReservationsMC ---------------------------
(***************************************************************************)
(* Instances of Reservations for TLC.                                      *)
(***************************************************************************)
EXTENDS Reservations, TLC

(* One place in the program's memory is like another.                      *)
Interchangeable == Permutations(Handles)
=============================================================================

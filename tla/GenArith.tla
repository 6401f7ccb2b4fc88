------------------------------ MODULE GenArith ------------------------------
(***************************************************************************)
(* Generation arithmetic (arithmetics.rs).  A generation is an unsigned    *)
(* integer of which the most significant bit is reserved: sums and         *)
(* distances wrap at Msb = 2^(w - 1), w being the width of the build's     *)
(* NumericType (32 with the small-gen feature, else 64).                   *)
(***************************************************************************)
EXTENDS Integers

CONSTANT Msb

ASSUME MsbAssumption == Msb \in Nat /\ Msb >= 2 /\ Msb % 2 = 0

Gens == 0 .. Msb - 1

(* NumericType::MAX                                                        *)
MaxNumeric == 2 * Msb - 1

(* a.wrapping_sub(b) & !MSB                                                *)
GenDist(a, b) == (a - b) % Msb

-----------------------------------------------------------------------------
(* Faults, for the runs that show which property notices them.             *)
UnmaskedAdd(a, b) == (a + b) % (2 * Msb)
HalfSpanGte(a, b) == GenDist(a, b) <= (MaxNumeric \div 4) + 1
-----------------------------------------------------------------------------
(* a.wrapping_add(b) & !MSB                                                *)
GenAdd(a, b) == (a + b) % Msb

(* a is ahead of b or equal to it: less than half the span away.           *)
GenGte(a, b) == GenDist(a, b) <= MaxNumeric \div 4

(* The generations of [start, end), as the indices of a reservation or of  *)
(* a slice name them.                                                      *)
GenRange(start, end) == {GenAdd(start, i) : i \in 0 .. GenDist(end, start) - 1}
=============================================================================

---------------------------- MODULE ModularArith ----------------------------
(***************************************************************************)
(* Facts about the remainder that the proofs about wrapping generations    *)
(* and about the indexes of a ring or of a map rest on.                    *)
(***************************************************************************)
EXTENDS Integers, TLAPS

(* x is a quotient of times n and a remainder below n.                     *)
LEMMA ModDef ==
    ASSUME NEW x \in Int, NEW n \in Nat, n > 0
    PROVE  /\ x = (n * (x \div n)) + (x % n)
           /\ x % n \in 0 .. n - 1
           /\ x \div n \in Int
OBVIOUS

(* A positive multiple of n is not below n.                                *)
LEMMA MultGe ==
    ASSUME NEW n \in Nat, n > 0, NEW d \in Int, d > 0
    PROVE  n * d >= n
OBVIOUS

(* There is one such remainder.                                            *)
LEMMA ModUnique ==
    ASSUME NEW n \in Nat, n > 0, NEW q \in Int, NEW r \in 0 .. n - 1, NEW x \in Int,
           x = (n * q) + r
    PROVE  x % n = r
<1> DEFINE p == x \div n
           d == p - q
           s == x % n
<1>1. x = (n * p) + s /\ s \in 0 .. n - 1 /\ p \in Int
  BY ModDef
<1> HIDE DEF p, s
<1>2. n * d = r - s /\ d \in Int
  BY <1>1
<1>3. n * (0 - d) = 0 - (n * d)
  BY <1>2
<1>4. ~(d > 0)
  BY <1>1, <1>2, MultGe
<1>5. ~(0 - d > 0)
  BY <1>1, <1>2, <1>3, MultGe
<1>6. d = 0
  BY <1>2, <1>4, <1>5
<1>7. n * d = 0
  BY <1>6
<1> QED  BY <1>1, <1>2, <1>7 DEF s

(* A multiple of n does not change the remainder: a carry into the bits    *)
(* above those that are kept is lost.                                      *)
LEMMA ModShift ==
    ASSUME NEW x \in Int, NEW n \in Nat, n > 0, NEW m \in Int, m % n = 0
    PROVE  (x + m) % n = x % n
<1> DEFINE p == x \div n
           k == m \div n
           s == x % n
<1>1. x = (n * p) + s /\ s \in 0 .. n - 1 /\ p \in Int
  BY ModDef
<1>2. m = (n * k) + 0 /\ k \in Int
  BY ModDef
<1> HIDE DEF p, s, k
<1>3. (n * p) + (n * k) = n * (p + k) /\ p + k \in Int
  BY <1>1, <1>2
<1> DEFINE y == x + m
           q == p + k
<1>4. y = (n * q) + s /\ y \in Int /\ q \in Int
  BY <1>1, <1>2, <1>3
<1> HIDE DEF y, q
<1>5. y % n = s
  BY <1>1, <1>4, ModUnique
<1> QED  BY <1>5 DEF s, y

(* What is below n, and what is once past it.                              *)
LEMMA ModSmall ==
    ASSUME NEW x \in Nat, NEW n \in Nat, x < n
    PROVE  x % n = x
OBVIOUS

LEMMA ModOnce ==
    ASSUME NEW x \in Nat, NEW n \in Nat, n <= x, x < 2 * n
    PROVE  x % n = x - n
OBVIOUS
=============================================================================

--------------------------- MODULE GenArithProofs ---------------------------
(***************************************************************************)
(* What masked generations say about the ones that never wrap, for every   *)
(* width.  Area counts generations without a bound: these are the          *)
(* conditions under which that is the same thing.                          *)
(***************************************************************************)
EXTENDS GenArith, ModularArith

(* gen_dist_msb_masked is the distance between two generations that are    *)
(* less than the span apart, on whichever lap each of them is.             *)
THEOREM DistanceIsExact ==
    ASSUME NEW a \in Nat, NEW b \in Nat, 0 <= a - b, a - b < Msb
    PROVE  GenDist(a % Msb, b % Msb) = a - b
<1> DEFINE p == a \div Msb
           q == b \div Msb
           s == a % Msb
           t == b % Msb
<1>0. Msb \in Nat /\ Msb > 0
  BY MsbAssumption
<1>1. a = (Msb * p) + s /\ s \in 0 .. Msb - 1 /\ p \in Int
  BY <1>0, ModDef
<1>2. b = (Msb * q) + t /\ t \in 0 .. Msb - 1 /\ q \in Int
  BY <1>0, ModDef
<1> HIDE DEF p, q, s, t
<1> DEFINE d == q - p
<1>3. (Msb * q) - (Msb * p) = Msb * d /\ d \in Int
  BY <1>0, <1>1, <1>2
<1> HIDE DEF d
<1>4. s - t = (Msb * d) + (a - b)
  BY <1>0, <1>1, <1>2, <1>3
<1>5. (s - t) % Msb = a - b
  <2> DEFINE x == s - t
             r == a - b
  <2>1. x \in Int /\ r \in 0 .. Msb - 1 /\ x = (Msb * d) + r
    BY <1>0, <1>1, <1>2, <1>4
  <2> HIDE DEF x, r
  <2>2. x % Msb = r
    BY <2>1, <1>0, <1>3, ModUnique
  <2> QED  BY <2>2 DEF x, r
<1> QED  BY <1>5 DEF GenDist, s, t

(* gen_add_msb_masked counts on from a generation, whichever lap it is on. *)
THEOREM SumIsExact ==
    ASSUME NEW a \in Nat, NEW n \in Nat
    PROVE  GenAdd(a % Msb, n) = (a + n) % Msb
<1> DEFINE p == a \div Msb
           s == a % Msb
           x == s + n
           m == Msb * p
<1>0. Msb \in Nat /\ Msb > 0
  BY MsbAssumption
<1>1. a = (Msb * p) + s /\ s \in 0 .. Msb - 1 /\ p \in Int
  BY <1>0, ModDef
<1> HIDE DEF p, s
<1>2. m = (Msb * p) + 0 /\ m \in Int
  BY <1>0, <1>1
<1> HIDE DEF m
<1>3. m % Msb = 0
  BY <1>0, <1>1, <1>2, ModUnique
<1>4. x \in Int /\ a + n = x + m
  BY <1>1, <1>2 DEF m
<1> HIDE DEF x
<1>5. (x + m) % Msb = x % Msb
  BY <1>0, <1>2, <1>3, <1>4, ModShift
<1> QED  BY <1>4, <1>5 DEF GenAdd, x, s

(* gen_gte_msb_masked orders two generations that are less than half the   *)
(* span apart: a reservation, a slice and a lag stay within that.          *)
THEOREM OrderIsExact ==
    ASSUME NEW a \in Nat, NEW b \in Nat,
           a - b < Msb \div 2, b - a <= Msb \div 2
    PROVE  GenGte(a % Msb, b % Msb) <=> a >= b
<1> DEFINE h == Msb \div 2
<1>0. Msb \in Nat /\ h \in Nat /\ h > 0 /\ Msb = 2 * h
  <2>1. Msb \in Nat /\ Msb >= 2 /\ Msb % 2 = 0
    BY MsbAssumption
  <2> QED  BY <2>1
<1> HIDE DEF h
<1>1. Msb \div 2 = h
  BY <1>0
<1>2. MaxNumeric \div 4 = h - 1
  BY <1>0 DEF MaxNumeric
<1>3. CASE a >= b
  <2>1. GenDist(a % Msb, b % Msb) = a - b
    BY <1>0, <1>1, <1>3, DistanceIsExact
  <2> QED  BY <2>1, <1>0, <1>1, <1>2, <1>3 DEF GenGte
<1>4. CASE a < b
  <2>1. GenDist((a + Msb) % Msb, b % Msb) = (a + Msb) - b
    <3> DEFINE c == a + Msb
    <3>1. c \in Nat /\ 0 <= c - b /\ c - b < Msb
      BY <1>0, <1>1, <1>4
    <3> HIDE DEF c
    <3>2. GenDist(c % Msb, b % Msb) = c - b
      BY <3>1, DistanceIsExact
    <3> QED  BY <3>2 DEF c
  <2>2. (a + Msb) % Msb = a % Msb
    <3>1. Msb % Msb = 0
      BY <1>0, ModOnce
    <3> QED  BY <3>1, <1>0, ModShift
  <2>3. GenDist(a % Msb, b % Msb) >= h
    BY <2>1, <2>2, <1>0, <1>1
  <2>4. GenDist(a % Msb, b % Msb) \in Int
    BY <2>1, <2>2, <1>0
  <2> QED  BY <2>3, <2>4, <1>0, <1>2, <1>4 DEF GenGte
<1> QED  BY <1>3, <1>4

(* Where the span is a multiple of buffer_capacity, consecutive generations*)
(* have consecutive cells across the wrap too: the index of a masked       *)
(* generation is that of the one that never wrapped.                       *)
THEOREM CellsAreContinuous ==
    ASSUME NEW a \in Nat, NEW c \in Nat, c > 0, Msb % c = 0
    PROVE  (a % Msb) % c = a % c
<1> DEFINE p == a \div Msb
           s == a % Msb
           k == Msb \div c
           m == Msb * p
           q == k * p
<1>0. Msb \in Nat /\ Msb > 0
  BY MsbAssumption
<1>1. a = (Msb * p) + s /\ s \in 0 .. Msb - 1 /\ p \in Int
  BY <1>0, ModDef
<1>2. Msb = (c * k) + 0 /\ k \in Int
  BY <1>0, ModDef
<1> HIDE DEF p, s, k
<1>3. m \in Int /\ q \in Int /\ m = (c * q) + 0
  <2>1. m = (c * k) * p
    BY <1>2
  <2>2. (c * k) * p = c * (k * p)
    BY <1>1, <1>2
  <2> QED  BY <2>1, <2>2, <1>0, <1>1, <1>2
<1> HIDE DEF m, q
<1>4. m % c = 0
  BY <1>3, ModUnique
<1>5. a = s + m
  BY <1>1, <1>0 DEF m
<1>6. (s + m) % c = s % c
  BY <1>1, <1>3, <1>4, ModShift
<1> QED  BY <1>5, <1>6 DEF s
=============================================================================

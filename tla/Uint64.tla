------------------------------- MODULE Uint64 -------------------------------
(***************************************************************************)
(* kernel/uint64.c: numbers of four limbs, the lowest first, with which    *)
(* the file system computes positions.  A limb is an unsigned int.         *)
(***************************************************************************)
EXTENDS Integers

CONSTANT LimbBits   (* bits of an unsigned int: 16 in the code               *)

ASSUME LimbAssumption == LimbBits \in Nat \ {0}

Limb   == 2 ^ LimbBits

(* Laws of powers that the provers do not know.                             *)
ASSUME PowerAssumption ==
    \A n \in 0..LimbBits :
        /\ 2 ^ n \in Nat \ {0} /\ 2 ^ n * 2 ^ (LimbBits - n) = Limb
        /\ \A m \in 0..(n - 1) : 2 ^ m < 2 ^ n

Uint64 == [0..3 -> 0..(Limb - 1)]

Quad(i0, i1, i2, i3) ==
    [i \in 0..3 |-> CASE i = 0 -> i0 [] i = 1 -> i1 [] i = 2 -> i2 [] i = 3 -> i3]

(* The number that the limbs stand for.                                     *)
Value(a) == a[0] + Limb * (a[1] + Limb * (a[2] + Limb * a[3]))

Init64(hh, hl, lh, ll) == Quad(ll, lh, hl, hh)
Word(n) == Init64(0, 0, 0, n)

(* The limbs are compared from the highest to the lowest.                   *)
Cmp64(a, b) ==
    LET differ == {i \in 0..3 : a[i] # b[i]}
    IN  IF differ = {} THEN 0
        ELSE LET top == CHOOSE i \in differ : \A j \in differ : j <= i
             IN  IF a[top] > b[top] THEN 1 ELSE -1

Cmp64_16(a, b) ==
    IF \E i \in 1..3 : a[i] > 0 THEN 1
    ELSE IF a[0] > b THEN 1 ELSE IF a[0] < b THEN -1 ELSE 0

(* One round of the loops of add64, add64_16 and inc64: t is added to limb  *)
(* x, and the sum being below t tells the carry.                            *)
Sum(x, t)   == (x + t) % Limb
Carry(x, t) == IF Sum(x, t) < t THEN 1 ELSE 0

(* Mutant: the carry stays in the limb it comes from.                       *)
Add64NoCarry(a, b) == Quad(Sum(a[0], b[0]), Sum(a[1], b[1]), Sum(a[2], b[2]),
                           Sum(a[3], b[3]))

(* t of each round: the carry is added to the limb of b first, so a limb    *)
(* of all ones with a carry gives 0 and the carry is lost.                  *)
Add64(a, b) ==
    LET t0 == b[0]
        t1 == Sum(b[1], Carry(a[0], t0))
        t2 == Sum(b[2], Carry(a[1], t1))
        t3 == Sum(b[3], Carry(a[2], t2))
    IN  Quad(Sum(a[0], t0), Sum(a[1], t1), Sum(a[2], t2), Sum(a[3], t3))

Add64_16(a, b) ==
    LET t1 == Carry(a[0], b)
        t2 == Carry(a[1], t1)
        t3 == Carry(a[2], t2)
    IN  Quad(Sum(a[0], b), Sum(a[1], t1), Sum(a[2], t2), Sum(a[3], t3))

Inc64(a) == Add64_16(a, 1)

(* dec64 adds all ones to the lowest limb, then 0, then all ones less the   *)
(* carry; its carry, a[i] > t, is set where a limb is not 0 afterwards.     *)
Dec64(a) ==
    LET ones == Limb - 1
        s0 == Sum(a[0], ones)
        c0 == IF s0 > ones THEN 1 ELSE 0
        t1 == Sum(0, Limb - c0)
        s1 == Sum(a[1], t1)
        c1 == IF s1 > t1 THEN 1 ELSE 0
        t2 == Sum(0, Limb - c1)
        s2 == Sum(a[2], t2)
        c2 == IF s2 > t2 THEN 1 ELSE 0
    IN  Quad(s0, s1, s2, Sum(a[3], Limb - c2))

(* Shifts by n <= LimbBits.  shr64 also returns the bits shifted out.       *)
Shr64(p, n) ==
    LET Low(i) == p[i] \div 2 ^ n
        In(i)  == (p[i] * 2 ^ (LimbBits - n)) % Limb
    IN  Quad(Low(0) + In(1), Low(1) + In(2), Low(2) + In(3), Low(3))
ShiftedOut(p, n) == p[0] % 2 ^ n

Shl64(p, n) ==
    LET High(i) == (p[i] * 2 ^ n) % Limb
        In(i)   == p[i] \div 2 ^ (LimbBits - n)
    IN  Quad(High(0), High(1) + In(0), High(2) + In(1), High(3) + In(2))
=============================================================================

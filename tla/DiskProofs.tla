------------------------------ MODULE DiskProofs ------------------------------
(***************************************************************************)
(* Theorems about BlockFile and Machine, for every number of tasks,        *)
(* handles and buffers, every size of blocks, cache and disk, every set of *)
(* well-formed volumes and every width of a limb.  block.c: the cache      *)
(* holds what the disk holds, no buffer is lost, and blockfile_read        *)
(* implements ByteFile.  boot.s: it loads the files whole.  fat.c: it      *)
(* reads, finds and lists the files right.                                 *)
(***************************************************************************)
EXTENDS BlockFile, Machine, WellFoundedInduction, FiniteSetTheorems, TLAPS

-----------------------------------------------------------------------------
(* uint64.c: what it computes of the numbers that its limbs stand for.      *)

Digit == 0..(Limb - 1)
Limbs(a) == /\ a[0] \in Digit /\ a[1] \in Digit /\ a[2] \in Digit /\ a[3] \in Digit

LEMMA LimbIs == Limb \in Nat /\ Limb >= 2
<1>1. 1 \in 0..LimbBits /\ LimbBits - 1 \in 0..LimbBits
  BY LimbAssumption
<1>2. 2 ^ 1 * 2 ^ (LimbBits - 1) = Limb /\ 2 ^ (LimbBits - 1) \in Nat \ {0}
  BY <1>1, PowerAssumption
<1>3. 2 ^ 1 = 2
  OBVIOUS
<1> HIDE DEF Limb
<1>4. ASSUME NEW p \in Nat \ {0}, 2 ^ 1 * p = Limb
      PROVE  Limb \in Nat /\ Limb >= 2
  BY <1>3, <1>4
<1> QED
  BY <1>2, <1>4

LEMMA QuadIs ==
    ASSUME NEW i0 \in Digit, NEW i1 \in Digit, NEW i2 \in Digit, NEW i3 \in Digit
    PROVE  /\ Quad(i0, i1, i2, i3) \in Uint64
           /\ Quad(i0, i1, i2, i3)[0] = i0 /\ Quad(i0, i1, i2, i3)[1] = i1
           /\ Quad(i0, i1, i2, i3)[2] = i2 /\ Quad(i0, i1, i2, i3)[3] = i3
           /\ Value(Quad(i0, i1, i2, i3)) = i0 + Limb * (i1 + Limb * (i2 + Limb * i3))
<1> DEFINE q == Quad(i0, i1, i2, i3)
<1>1. q[0] = i0 /\ q[1] = i1 /\ q[2] = i2 /\ q[3] = i3 /\ q \in Uint64
  BY DEF Quad, Uint64, Digit
<1> HIDE DEF q
<1>2. Value(q) = i0 + Limb * (i1 + Limb * (i2 + Limb * i3))
  BY <1>1 DEF Value
<1> QED
  BY <1>1, <1>2 DEF q

LEMMA LimbsAre == ASSUME NEW a \in Uint64 PROVE Limbs(a)
BY DEF Uint64, Limbs, Digit

LEMMA ValueIs ==
    ASSUME NEW a \in Uint64
    PROVE  Value(a) \in Nat
<1>1. /\ a[0] \in Nat /\ a[1] \in Nat /\ a[2] \in Nat /\ a[3] \in Nat /\ Limb \in Nat
  BY LimbsAre, LimbIs DEF Limbs, Digit
<1> HIDE DEF Limb
<1>2. ASSUME NEW x \in Nat, NEW y \in Nat PROVE x + Limb * y \in Nat
  BY <1>1
<1>3. a[2] + Limb * a[3] \in Nat
  BY <1>1, <1>2
<1>4. a[1] + Limb * (a[2] + Limb * a[3]) \in Nat
  BY <1>1, <1>2, <1>3
<1> QED
  BY <1>1, <1>2, <1>4 DEF Value

LEMMA SumCarry ==
    ASSUME NEW x \in Digit, NEW t \in Digit
    PROVE  /\ Sum(x, t) \in Digit /\ Carry(x, t) \in {0, 1}
           /\ Sum(x, t) = x + t - Limb * Carry(x, t)
<1>1. x \in Nat /\ t \in Nat /\ x < Limb /\ t < Limb /\ Limb \in Nat /\ Limb >= 2
  BY LimbIs DEF Digit
<1> HIDE DEF Limb
<1>2. CASE x + t < Limb
  <2>1. Sum(x, t) = x + t
    BY <1>1, <1>2 DEF Sum
  <2>2. Carry(x, t) = 0
    BY <1>1, <2>1 DEF Carry
  <2> QED
    BY <1>1, <1>2, <2>1, <2>2 DEF Digit
<1>3. CASE x + t >= Limb
  <2>1. Sum(x, t) = x + t - Limb
    <3>1. x + t = Limb * 1 + (x + t - Limb) /\ x + t - Limb \in 0..(Limb - 1)
      BY <1>1, <1>3
    <3> QED
      BY <1>1, <3>1 DEF Sum
  <2>2. Carry(x, t) = 1
    BY <1>1, <2>1 DEF Carry
  <2> QED
    BY <1>1, <1>3, <2>1, <2>2 DEF Digit
<1> QED
  BY <1>1, <1>2, <1>3

(* Value(a) with n put into the lowest limb, and carries through the rest.  *)
LEMMA AddLimbs ==
    ASSUME NEW a \in Uint64, NEW n \in Digit, Value(a) + n < Limb * (Limb * (Limb * Limb))
    PROVE  Add64_16(a, n) \in Uint64 /\ Value(Add64_16(a, n)) = Value(a) + n
<1> DEFINE c0 == Carry(a[0], n)
           c1 == Carry(a[1], c0)
           c2 == Carry(a[2], c1)
           c3 == Carry(a[3], c2)
           s0 == Sum(a[0], n)
           s1 == Sum(a[1], c0)
           s2 == Sum(a[2], c1)
           s3 == Sum(a[3], c2)
<1>1. Add64_16(a, n) = Quad(s0, s1, s2, s3)
  BY DEF Add64_16
<1>2. a[0] \in Digit /\ a[1] \in Digit /\ a[2] \in Digit /\ a[3] \in Digit
  BY LimbsAre DEF Limbs
<1>3. \A c \in {0, 1} : c \in Digit
  BY LimbIs DEF Digit
<1>4. s0 \in Digit /\ c0 \in {0, 1} /\ s0 = a[0] + n - Limb * c0
  BY <1>2, SumCarry
<1> HIDE DEF c0, s0
<1>5. s1 \in Digit /\ c1 \in {0, 1} /\ s1 = a[1] + c0 - Limb * c1
  BY <1>2, <1>3, <1>4, SumCarry
<1> HIDE DEF c1, s1
<1>6. s2 \in Digit /\ c2 \in {0, 1} /\ s2 = a[2] + c1 - Limb * c2
  BY <1>2, <1>3, <1>5, SumCarry
<1> HIDE DEF c2, s2
<1>7. s3 \in Digit /\ c3 \in {0, 1} /\ s3 = a[3] + c2 - Limb * c3
  BY <1>2, <1>3, <1>6, SumCarry
<1> HIDE DEF c3, s3
<1>8. /\ Quad(s0, s1, s2, s3) \in Uint64
      /\ Value(Quad(s0, s1, s2, s3)) = s0 + Limb * (s1 + Limb * (s2 + Limb * s3))
  BY <1>4, <1>5, <1>6, <1>7, QuadIs
<1>9. s0 + Limb * (s1 + Limb * (s2 + Limb * s3))
        = Value(a) + n - Limb * (Limb * (Limb * (Limb * c3)))
  <2>1. /\ Limb \in Int /\ n \in Int /\ c0 \in Int /\ c1 \in Int /\ c2 \in Int /\ c3 \in Int
        /\ a[0] \in Int /\ a[1] \in Int /\ a[2] \in Int /\ a[3] \in Int
        /\ Limb * c0 \in Int /\ Limb * c1 \in Int /\ Limb * c2 \in Int /\ Limb * c3 \in Int
    BY <1>2, <1>4, <1>5, <1>6, <1>7, LimbIs DEF Digit
  <2> HIDE DEF Limb
  <2>2. ASSUME NEW x \in Int, NEW y \in Int, NEW z \in Int
        PROVE  Limb * (x + y - z) = Limb * x + Limb * y - Limb * z
    BY <2>1
  <2>3. ASSUME NEW x \in Int, NEW y \in Int, NEW z \in Int, NEW w \in Int, NEW r \in Int,
               r = w - z
        PROVE  x + y - Limb * w + Limb * r = x + y - Limb * z
    <3>1. Limb * r = Limb * w - Limb * z
      BY <2>1, <2>3
    <3> QED
      BY <2>1, <2>3, <3>1
  <2> DEFINE u3 == a[3]
             u2 == a[2] + Limb * a[3]
             u1 == a[1] + Limb * u2
  <2>4. Value(a) = a[0] + Limb * u1
    BY DEF Value
  <2>5. u2 \in Int
    BY <2>1
  <2>6. Limb * s3 = Limb * a[3] + Limb * c2 - Limb * (Limb * c3)
    BY <1>7, <2>1, <2>2
  <2>7. s2 + Limb * s3 = u2 + c1 - Limb * (Limb * c3)
    BY <1>6, <2>1, <2>6
  <2> HIDE DEF u2
  <2>8. u1 \in Int /\ Limb * (Limb * c3) \in Int
    BY <2>1, <2>5
  <2>9. Limb * (s2 + Limb * s3) = Limb * u2 + Limb * c1 - Limb * (Limb * (Limb * c3))
    BY <2>2, <2>1, <2>5, <2>7, <2>8
  <2>10. s1 + Limb * (s2 + Limb * s3) = u1 + c0 - Limb * (Limb * (Limb * c3))
    BY <1>5, <2>1, <2>5, <2>9, <2>8
  <2> HIDE DEF u1
  <2>11. Limb * (Limb * (Limb * c3)) \in Int
    BY <2>1, <2>8
  <2>12. Limb * (s1 + Limb * (s2 + Limb * s3))
          = Limb * u1 + Limb * c0 - Limb * (Limb * (Limb * (Limb * c3)))
    BY <2>2, <2>1, <2>8, <2>10, <2>11
  <2> QED
    BY <1>4, <2>1, <2>4, <2>8, <2>11, <2>12
<1>10. c3 = 0
  <2> DEFINE big == Limb * (Limb * (Limb * Limb))
  <2>1. Value(Quad(s0, s1, s2, s3)) >= 0
    BY <1>8, ValueIs
  <2>2. Limb \in Int
    BY LimbIs
  <2> HIDE DEF Limb
  <2>3. CASE c3 = 1
    <3>1. Limb * c3 = Limb
      BY <2>2, <2>3
    <3>2. Value(Quad(s0, s1, s2, s3)) = Value(a) + n - big
      BY <1>8, <1>9, <3>1
    <3>3. Value(a) \in Int /\ n \in Int /\ big \in Int
      BY <2>2, ValueIs DEF Digit
    <3> QED
      BY <2>1, <3>2, <3>3
  <2> QED
    BY <1>7, <2>3
<1>11. Limb * (Limb * (Limb * (Limb * c3))) = 0 /\ Value(a) \in Int /\ n \in Int
  <2>1. Limb \in Int
    BY LimbIs
  <2> HIDE DEF Limb
  <2> QED
    BY <1>10, <2>1, ValueIs DEF Digit
<1> QED
  BY <1>1, <1>8, <1>9, <1>11

(* Only a limb of ones that gets a carry makes add64 differ from addition.  *)
LEMMA AddWord ==
    ASSUME NEW a \in Uint64, NEW n \in Digit
    PROVE  Add64(a, Word(n)) = Add64_16(a, n)
<1>1. /\ Word(n)[0] = n /\ Word(n)[1] = 0 /\ Word(n)[2] = 0 /\ Word(n)[3] = 0
  BY DEF Word, Init64, Quad
<1>2. ASSUME NEW c \in {0, 1} PROVE Sum(0, c) = c
  <2>1. c \in 0..(Limb - 1) /\ Limb \in Nat
    BY LimbIs
  <2> HIDE DEF Limb
  <2> QED
    BY <2>1 DEF Sum
<1>3. a[0] \in Digit /\ a[1] \in Digit /\ a[2] \in Digit /\ a[3] \in Digit
  BY LimbsAre DEF Limbs
<1>4. \A c \in {0, 1} : c \in Digit
  BY LimbIs DEF Digit
<1> DEFINE c0 == Carry(a[0], n)
           c1 == Carry(a[1], c0)
           c2 == Carry(a[2], c1)
<1>5. c0 \in {0, 1}
  BY <1>3, SumCarry
<1> HIDE DEF c0
<1>6. c1 \in {0, 1}
  BY <1>3, <1>4, <1>5, SumCarry
<1> HIDE DEF c1
<1>7. c2 \in {0, 1}
  BY <1>3, <1>4, <1>6, SumCarry
<1> HIDE DEF c2
<1>8. Sum(0, c0) = c0 /\ Sum(0, c1) = c1 /\ Sum(0, c2) = c2
  BY <1>2, <1>5, <1>6, <1>7
<1>9. Add64(a, Word(n)) = Quad(Sum(a[0], n), Sum(a[1], c0), Sum(a[2], c1), Sum(a[3], c2))
  BY <1>1, <1>8 DEF Add64, c0, c1, c2
<1> QED
  BY <1>9 DEF Add64_16, c0, c1, c2

(* A limb is cut into the bits below 2^n and those above.                   *)
LEMMA Divide ==
    ASSUME NEW x \in Nat, NEW b \in Nat \ {0}
    PROVE  x = b * (x \div b) + (x % b) /\ x % b \in 0..(b - 1) /\ x \div b \in Nat
OBVIOUS

LEMMA Quotient ==
    ASSUME NEW x \in Nat, NEW b \in Nat \ {0}, NEW q \in Nat, NEW r \in 0..(b - 1),
           x = b * q + r
    PROVE  x \div b = q /\ x % b = r
OBVIOUS

LEMMA PowerIs ==
    ASSUME NEW n \in 0..LimbBits
    PROVE  /\ 2 ^ n \in Nat \ {0} /\ 2 ^ (LimbBits - n) \in Nat \ {0}
           /\ 2 ^ n * 2 ^ (LimbBits - n) = Limb
<1>1. LimbBits - n \in 0..LimbBits
  BY LimbAssumption
<1> QED
  BY <1>1, PowerAssumption

LEMMA TimesNat ==
    ASSUME NEW x \in Int, NEW y \in Int
    PROVE  x * y \in Int /\ (x >= 0 /\ y >= 0 => x * y >= 0)
OBVIOUS

LEMMA TimesSwap ==
    ASSUME NEW x \in Int, NEW y \in Int, NEW z \in Int
    PROVE  (x * y) * z = (x * z) * y /\ x * (y * z) = (x * y) * z /\ x * y = y * x
OBVIOUS

(* The parts of two limbs that make one of the result.                      *)
LEMMA Halves ==
    ASSUME NEW B \in Nat \ {0}, NEW R \in Nat \ {0}, B * R = Limb,
           NEW x \in Digit, NEW y \in Digit
    PROVE  /\ (y * R) % Limb = (y % B) * R
           /\ (x \div B) + (y % B) * R \in Digit
           /\ x \div B \in Digit
           /\ x = B * (x \div B) + (x % B)
           /\ x \div B \in Nat /\ x % B \in 0..(B - 1)
<1>1. /\ x \in Nat /\ y \in Nat /\ Limb \in Nat \ {0}
      /\ x < Limb /\ y < Limb
  BY LimbIs DEF Digit
<1> DEFINE q == x \div B
           m == y % B
           p == y \div B
<1>2. /\ x = B * q + (x % B) /\ x % B \in 0..(B - 1) /\ q \in Nat
      /\ y = B * p + m /\ m \in 0..(B - 1) /\ p \in Nat
  BY <1>1, Divide
<1> HIDE DEF Limb, q, m, p
<1>3. m * R \in Nat /\ m * R <= (B - 1) * R /\ (B - 1) * R = Limb - R
  BY <1>2
<1>4. (y * R) % Limb = m * R
  <2>1. y * R = Limb * p + m * R
    <3>1. y * R = B * p * R + m * R
      BY <1>1, <1>2
    <3>2. B * p * R = (B * R) * p
      BY <1>2, TimesSwap
    <3> QED
      BY <3>1, <3>2
  <2>2. m * R \in 0..(Limb - 1)
    BY <1>1, <1>3
  <2>3. y * R \in Nat
    BY <1>1
  <2> DEFINE z == y * R
             w == m * R
  <2>4. z = Limb * p + w /\ w \in 0..(Limb - 1) /\ z \in Nat
    BY <2>1, <2>2, <2>3
  <2> HIDE DEF z, w
  <2>5. z % Limb = w
    BY <1>1, <1>2, <2>4, Quotient
  <2> QED
    BY <2>5 DEF z, w
<1>5. q < R
  <2> SUFFICES ASSUME q >= R PROVE FALSE
    BY <1>2
  <2>1. B * q >= B * R
    BY <1>2
  <2> QED
    BY <1>1, <1>2, <2>1
<1>6. q + m * R \in 0..(Limb - 1) /\ q \in 0..(Limb - 1)
  BY <1>1, <1>2, <1>3, <1>5
<1> QED
  BY <1>2, <1>4, <1>6 DEF q, m, Digit

(* shr64 divides: what it shifts out of a limb it puts on top of the next.  *)
LEMMA ShiftDivides ==
    ASSUME NEW a \in Uint64, NEW n \in 0..LimbBits
    PROVE  /\ Shr64(a, n) \in Uint64
           /\ Value(Shr64(a, n)) = Value(a) \div 2 ^ n
           /\ a[0] % 2 ^ n = Value(a) % 2 ^ n
<1> DEFINE B == 2 ^ n
           R == 2 ^ (LimbBits - n)
           q0 == a[0] \div B
           q1 == a[1] \div B
           q2 == a[2] \div B
           q3 == a[3] \div B
           m0 == a[0] % B
           m1 == a[1] % B
           m2 == a[2] % B
           m3 == a[3] % B
<1>1. B \in Nat \ {0} /\ R \in Nat \ {0} /\ B * R = Limb
  BY PowerIs
<1>2. a[0] \in Digit /\ a[1] \in Digit /\ a[2] \in Digit /\ a[3] \in Digit
  BY LimbsAre DEF Limbs
<1>3. Shr64(a, n) = Quad(q0 + ((a[1] * R) % Limb), q1 + ((a[2] * R) % Limb),
                         q2 + ((a[3] * R) % Limb), q3)
  BY DEF Shr64
<1> HIDE DEF B, R
<1>4. /\ (a[1] * R) % Limb = m1 * R /\ q0 + m1 * R \in Digit
      /\ a[0] = B * q0 + m0 /\ q0 \in Nat /\ m0 \in 0..(B - 1)
  BY <1>1, <1>2, Halves
<1>5. /\ (a[2] * R) % Limb = m2 * R /\ q1 + m2 * R \in Digit
      /\ a[1] = B * q1 + m1 /\ q1 \in Nat /\ m1 \in 0..(B - 1)
  BY <1>1, <1>2, Halves
<1>6. /\ (a[3] * R) % Limb = m3 * R /\ q2 + m3 * R \in Digit
      /\ a[2] = B * q2 + m2 /\ q2 \in Nat /\ m2 \in 0..(B - 1)
  BY <1>1, <1>2, Halves
<1>7. q3 \in Digit /\ a[3] = B * q3 + m3 /\ q3 \in Nat /\ m3 \in 0..(B - 1)
  BY <1>1, <1>2, Halves
<1> DEFINE s == Shr64(a, n)
           v == (q0 + m1 * R) + Limb * ((q1 + m2 * R) + Limb * ((q2 + m3 * R) + Limb * q3))
<1> HIDE DEF q0, q1, q2, q3, m0, m1, m2, m3
<1>8. s \in Uint64 /\ Value(s) = v
  <2>1. s = Quad(q0 + m1 * R, q1 + m2 * R, q2 + m3 * R, q3)
    BY <1>3, <1>4, <1>5, <1>6
  <2> DEFINE t0 == q0 + m1 * R
             t1 == q1 + m2 * R
             t2 == q2 + m3 * R
  <2>2. t0 \in Digit /\ t1 \in Digit /\ t2 \in Digit /\ q3 \in Digit
    BY <1>4, <1>5, <1>6, <1>7
  <2>3. s = Quad(t0, t1, t2, q3) /\ v = t0 + Limb * (t1 + Limb * (t2 + Limb * q3))
    BY <2>1
  <2> HIDE DEF s, v, t0, t1, t2
  <2> QED
    BY <2>2, <2>3, QuadIs
<1>9. Value(a) = B * v + m0
  <2>1. Limb \in Int /\ B \in Int /\ R \in Int
    BY <1>1, LimbIs
  <2> HIDE DEF Limb
  <2>2. ASSUME NEW q \in Int, NEW m \in Int, NEW w \in Int
        PROVE  B * ((q + m * R) + Limb * w) = B * q + Limb * (m + B * w)
    <3>1. B * ((q + m * R) + Limb * w) = B * q + B * (m * R) + B * (Limb * w)
      BY <2>1
    <3>2. B * (m * R) = Limb * m
      BY <1>1, <2>1, TimesSwap
    <3>3. B * (Limb * w) = Limb * (B * w)
      BY <2>1, TimesSwap
    <3>4. Limb * (m + B * w) = Limb * m + Limb * (B * w)
      BY <2>1
    <3> DEFINE x1 == B * (m * R)
               x2 == B * (Limb * w)
               x3 == Limb * m
               x4 == Limb * (B * w)
    <3>5. /\ B * ((q + m * R) + Limb * w) = B * q + x1 + x2
          /\ x1 = x3 /\ x2 = x4 /\ Limb * (m + B * w) = x3 + x4
          /\ B * q \in Int /\ x3 \in Int /\ x4 \in Int
      BY <2>1, <3>1, <3>2, <3>3, <3>4
    <3> HIDE DEF x1, x2, x3, x4
    <3> QED
      BY <3>5
  <2> DEFINE v2 == (q2 + m3 * R) + Limb * q3
             v1 == (q1 + m2 * R) + Limb * v2
  <2>3. v2 \in Int /\ v1 \in Int
    BY <1>4, <1>5, <1>6, <1>7, <2>1
  <2>4. B * v2 = B * q2 + Limb * (m3 + B * q3)
    BY <1>6, <1>7, <2>2
  <2>5. B * v2 = B * q2 + Limb * a[3]
    BY <1>7, <2>1, <2>4
  <2> HIDE DEF v2
  <2>6. B * v1 = B * q1 + Limb * (m2 + B * v2)
    BY <1>5, <1>6, <2>2, <2>3
  <2>7. B * v1 = B * q1 + Limb * (a[2] + Limb * a[3])
    <3>1. m2 + B * v2 = a[2] + Limb * a[3]
      BY <1>2, <1>6, <1>7, <2>1, <2>5 DEF Digit
    <3> QED
      BY <2>6, <3>1
  <2> HIDE DEF v1
  <2>8. B * v = B * q0 + Limb * (m1 + B * v1)
    BY <1>4, <1>5, <2>2, <2>3 DEF v1, v2
  <2>9. B * v = B * q0 + Limb * (a[1] + Limb * (a[2] + Limb * a[3]))
    <3>1. m1 + B * v1 = a[1] + Limb * (a[2] + Limb * a[3])
      <4> DEFINE w == Limb * (a[2] + Limb * a[3])
      <4>1. w \in Int
        BY <1>2, <2>1 DEF Digit
      <4>2. B * v1 = B * q1 + w
        BY <2>7
      <4> HIDE DEF w
      <4>3. m1 + B * v1 = a[1] + w
        BY <1>5, <2>1, <4>1, <4>2
      <4> QED
        BY <4>3 DEF w
    <3> QED
      BY <2>8, <3>1
  <2> DEFINE u == Limb * (a[1] + Limb * (a[2] + Limb * a[3]))
  <2>10. u \in Int
    <3>1. a[2] + Limb * a[3] \in Int
      BY <1>2, <2>1 DEF Digit
    <3>2. Limb * (a[2] + Limb * a[3]) \in Int
      BY <2>1, <3>1
    <3>3. a[1] + Limb * (a[2] + Limb * a[3]) \in Int
      BY <1>2, <2>1, <3>2 DEF Digit
    <3> QED
      BY <2>1, <3>3
  <2>11. B * v = B * q0 + u /\ Value(a) = a[0] + u
    BY <2>9 DEF Value
  <2> HIDE DEF u, v
  <2> QED
    BY <1>4, <2>1, <2>10, <2>11
<1>10. Value(a) \in Nat /\ v \in Nat
  BY <1>8, ValueIs
<1> HIDE DEF v
<1>11. Value(a) \div B = v /\ Value(a) % B = m0
  BY <1>1, <1>4, <1>9, <1>10, Quotient
<1> QED
  BY <1>8, <1>11 DEF B, m0

-----------------------------------------------------------------------------
(* cmp64 compares. *)

LEMMA Above ==
    ASSUME NEW x \in Digit, NEW y \in Digit, NEW v \in Int, NEW w \in Int, v > w
    PROVE  x + Limb * v > y + Limb * w
<1>1. x \in Int /\ y \in Int /\ x >= 0 /\ y < Limb /\ Limb \in Int
  BY LimbIs DEF Digit
<1> HIDE DEF Limb
<1>2. Limb * v >= Limb * w + Limb /\ Limb * v \in Int /\ Limb * w \in Int
  <2> DEFINE d == v - w - 1
  <2>1. d \in Int /\ d >= 0 /\ v = w + 1 + d
    OBVIOUS
  <2> HIDE DEF d
  <2>2. Limb * v = Limb * w + Limb + Limb * d
    BY <1>1, <2>1
  <2>3. Limb * d \in Int /\ Limb * d >= 0 /\ Limb * w \in Int
    BY <1>1, <2>1, LimbIs, TimesNat
  <2> QED
    BY <1>1, <2>2, <2>3
<1> QED
  BY <1>1, <1>2

LEMMA Compares ==
    ASSUME NEW a \in Uint64, NEW b \in Uint64
    PROVE  /\ Cmp64(a, b) = 0 => Value(a) = Value(b) /\ a = b
           /\ Cmp64(a, b) # 0 => Value(a) # Value(b)
           /\ Cmp64(a, b) > 0 <=> Value(a) > Value(b)
<1> DEFINE differ == {i \in 0..3 : a[i] # b[i]}
           a2 == a[2] + Limb * a[3]
           a1 == a[1] + Limb * a2
           b2 == b[2] + Limb * b[3]
           b1 == b[1] + Limb * b2
<1>1. /\ a[0] \in Digit /\ a[1] \in Digit /\ a[2] \in Digit /\ a[3] \in Digit
      /\ b[0] \in Digit /\ b[1] \in Digit /\ b[2] \in Digit /\ b[3] \in Digit
  BY LimbsAre DEF Limbs
<1>2. Value(a) = a[0] + Limb * a1 /\ Value(b) = b[0] + Limb * b1
  BY DEF Value
<1>3. a2 \in Int /\ b2 \in Int /\ a1 \in Int /\ b1 \in Int /\ Limb \in Int
  <2>1. \A x, y \in Int : x + Limb * y \in Int
    <3>1. Limb \in Int
      BY LimbIs
    <3> HIDE DEF Limb
    <3> QED
      BY <3>1
  <2>2. \A x \in Digit : x \in Int
    BY DEF Digit
  <2>3. a2 \in Int /\ b2 \in Int
    BY <1>1, <2>1, <2>2
  <2> QED
    BY <1>1, <2>1, <2>2, <2>3, LimbIs
<1>4. CASE differ = {}
  <2>1. a = b
    BY <1>4 DEF Uint64
  <2>2. Cmp64(a, b) = 0
    BY <1>4 DEF Cmp64
  <2>3. Value(a) \in Int
    BY ValueIs
  <2> QED
    BY <2>1, <2>2, <2>3
<1>5. ASSUME NEW i \in differ, \A j \in differ : j <= i
      PROVE  /\ Cmp64(a, b) = IF a[i] > b[i] THEN 1 ELSE -1
             /\ a[i] > b[i] => Value(a) > Value(b)
             /\ ~(a[i] > b[i]) => Value(a) < Value(b)
  <2>1. Cmp64(a, b) = IF a[i] > b[i] THEN 1 ELSE -1
    <3> DEFINE top == CHOOSE k \in differ : \A j \in differ : j <= k
    <3>1. top \in differ /\ \A j \in differ : j <= top
      BY <1>5
    <3>2. top = i
      BY <1>5, <3>1
    <3>3. Cmp64(a, b) = IF differ = {} THEN 0 ELSE IF a[top] > b[top] THEN 1 ELSE -1
      BY DEF Cmp64
    <3> QED
      BY <1>5, <3>2, <3>3
  <2>2. i \in {0, 1, 2, 3} /\ \A j \in {0, 1, 2, 3} : j > i => a[j] = b[j]
    BY <1>5
  <2>3. a[i] # b[i] /\ a[i] \in Int /\ b[i] \in Int
    BY <1>1, <1>5, <2>2 DEF Digit
  <2> HIDE DEF a1, a2, b1, b2, differ
  <2>4. /\ a2 > b2 => a1 > b1
        /\ a2 < b2 => a1 < b1
        /\ a1 > b1 => Value(a) > Value(b)
        /\ a1 < b1 => Value(a) < Value(b)
    BY <1>1, <1>2, <1>3, Above DEF a1, b1
  <2>5. CASE i = 3
    <3>1. /\ a[3] > b[3] => a2 > b2
          /\ a[3] < b[3] => a2 < b2
      <4>1. \A x, y \in Digit : x \in Int /\ y \in Int
        BY DEF Digit
      <4> QED
        BY <1>1, <4>1, Above DEF a2, b2
    <3> QED
      BY <1>1, <1>3, <2>1, <2>3, <2>4, <2>5, <3>1
  <2>6. CASE i = 2
    <3>1. a[3] = b[3] /\ Limb * a[3] \in Int
      <4>1. Limb \in Int /\ a[3] \in Int
        BY <1>1, <1>3 DEF Digit
      <4> HIDE DEF Limb
      <4> QED
        BY <2>2, <2>6, <4>1
    <3>2. a[2] > b[2] => a2 > b2
      BY <2>3, <2>6, <3>1 DEF a2, b2
    <3>3. a[2] < b[2] => a2 < b2
      BY <2>3, <2>6, <3>1 DEF a2, b2
    <3> QED
      BY <1>3, <2>1, <2>3, <2>4, <2>6, <3>2, <3>3
  <2>7. CASE i = 1
    <3>1. a2 = b2 /\ Limb * a2 \in Int
      <4>1. a2 = b2 /\ Limb \in Int
        BY <1>3, <2>2, <2>7 DEF a2, b2
      <4> HIDE DEF Limb
      <4> QED
        BY <1>3, <4>1
    <3>2. a[1] > b[1] => a1 > b1
      BY <2>3, <2>7, <3>1 DEF a1, b1
    <3>3. a[1] < b[1] => a1 < b1
      BY <2>3, <2>7, <3>1 DEF a1, b1
    <3> QED
      BY <1>3, <2>1, <2>3, <2>4, <2>7, <3>2, <3>3
  <2>8. CASE i = 0
    <3>1. a1 = b1 /\ Limb * a1 \in Int
      <4>1. a1 = b1 /\ Limb \in Int
        BY <1>3, <2>2, <2>8 DEF a1, b1, a2, b2
      <4> HIDE DEF Limb
      <4> QED
        BY <1>3, <4>1
    <3> QED
      BY <1>2, <2>1, <2>3, <2>8, <3>1
  <2> QED
    BY <2>1, <2>2, <2>5, <2>6, <2>7, <2>8
<1>6. CASE differ # {}
  <2>1. \E i \in differ : \A j \in differ : j <= i
    <3>1. CASE 3 \in differ
      BY <3>1
    <3>2. CASE 3 \notin differ /\ 2 \in differ
      BY <3>2
    <3>3. CASE 3 \notin differ /\ 2 \notin differ /\ 1 \in differ
      BY <3>3
    <3>4. CASE 3 \notin differ /\ 2 \notin differ /\ 1 \notin differ /\ 0 \in differ
      BY <3>4
    <3> QED
      BY <1>6, <3>1, <3>2, <3>3, <3>4
  <2>2. Value(a) \in Int /\ Value(b) \in Int
    BY ValueIs
  <2> QED
    BY <1>5, <2>1, <2>2
<1> QED
  BY <1>4, <1>6

-----------------------------------------------------------------------------
(* The device and the requests.                                             *)

Top == Limb * (Limb * (Limb * Limb))

LEMMA DeviceIs ==
    /\ BlockSize \in Nat \ {0} /\ Length = Blocks * BlockSize
    /\ Length \in Nat \ {0} /\ Blocks <= Length
    /\ Blocks \in Nat \ {0}
<1>1. Exponent \in 0..LimbBits
  BY BlockAssumption, LimbAssumption
<1>2. BlockSize \in Nat \ {0}
  BY <1>1, PowerIs DEF BlockSize
<1>3. Blocks \in Nat \ {0}
  BY BlockAssumption
<1> HIDE DEF BlockSize
<1>4. ASSUME NEW x \in Nat \ {0}, NEW y \in Nat \ {0}
      PROVE  x * y \in Nat \ {0} /\ x <= x * y
  <2>1. PICK z \in Nat : y = 1 + z
    <3>1. y - 1 \in Nat /\ y = 1 + (y - 1)
      OBVIOUS
    <3> QED
      BY <3>1
  <2>2. x * y = x + x * z /\ x * z \in Int /\ x * z >= 0
    BY <2>1, TimesNat
  <2> QED
    BY <2>2
<1> QED
  BY <1>2, <1>3, <1>4 DEF Length

(* Every address of the device is far below the largest number.             *)
LEMMA TopIs ==
    /\ Top \in Nat /\ Limb \in Nat /\ Limb >= 2
    /\ Length + Limb * Limb <= Top
    /\ Limb <= Limb * Limb /\ Limb * Limb \in Nat
<1>1. Limb \in Nat /\ Limb >= 2 /\ Length < Limb * Limb /\ Length \in Nat
  BY LimbIs, BlockAssumption, DeviceIs
<1> HIDE DEF Limb, Length
<1>2. ASSUME NEW x \in Nat
      PROVE  Limb * x \in Nat /\ 2 * x <= Limb * x
  <2>1. PICK d \in Nat : Limb = 2 + d
    <3>1. Limb - 2 \in Nat /\ Limb = 2 + (Limb - 2)
      BY <1>1
    <3> QED
      BY <3>1
  <2>2. Limb * x = 2 * x + d * x /\ d * x \in Int /\ d * x >= 0
    BY <2>1, TimesNat
  <2> QED
    BY <2>2
<1>3. Limb * Limb \in Nat /\ 2 * Limb <= Limb * Limb
  BY <1>1, <1>2
<1> DEFINE q == Limb * Limb
           c == Limb * q
<1>4. q \in Nat /\ Length < q /\ Limb <= q
  BY <1>1, <1>3
<1>5. Top = Limb * c
  BY DEF Top
<1> HIDE DEF q
<1>6. c \in Nat /\ 2 * q <= c
  BY <1>2, <1>4
<1> HIDE DEF c
<1>7. Top \in Nat /\ 2 * c <= Top
  BY <1>2, <1>5, <1>6
<1>8. Length + q <= Top
  BY <1>1, <1>4, <1>6, <1>7
<1> QED
  BY <1>1, <1>4, <1>7, <1>8 DEF q

LEMMA PositionIs ==
    ASSUME NEW p \in 0..(Length - 1)
    PROVE  Position(p) \in Uint64 /\ Value(Position(p)) = p
<1>1. /\ Limb \in Nat \ {0} /\ p \in Nat /\ p < Limb * Limb
  BY TopIs, DeviceIs, BlockAssumption
<1> DEFINE q == p \div Limb
           m == p % Limb
<1> HIDE DEF Limb
<1>2. p = Limb * q + m /\ m \in 0..(Limb - 1) /\ q \in Nat
  BY <1>1, Divide
<1>3. q < Limb
  <2> SUFFICES ASSUME q >= Limb PROVE FALSE
    BY <1>1, <1>2
  <2>1. PICK d \in Nat : q = Limb + d
    <3>1. q - Limb \in Nat /\ q = Limb + (q - Limb)
      BY <1>1, <1>2
    <3> QED
      BY <3>1
  <2> HIDE DEF q, m
  <2>2. Limb * q = Limb * Limb + Limb * d /\ Limb * d \in Int /\ Limb * d >= 0
    BY <1>1, <2>1, TimesNat
  <2> QED
    BY <1>1, <1>2, <2>2
<1>4. Position(p) = Quad(m, q, 0, 0)
  BY DEF Position, Init64
<1> HIDE DEF q, m
<1>5. m \in Digit /\ q \in Digit /\ 0 \in Digit
  BY <1>1, <1>2, <1>3 DEF Digit
<1>6. Value(Quad(m, q, 0, 0)) = m + Limb * (q + Limb * (0 + Limb * 0))
  BY <1>5, QuadIs
<1>7. m + Limb * (q + Limb * (0 + Limb * 0)) = p
  BY <1>1, <1>2
<1> QED
  BY <1>4, <1>5, <1>6, <1>7, QuadIs

(* An address of the device is in a block of the device.                    *)
LEMMA BlockOf ==
    ASSUME NEW x \in 0..(Length - 1)
    PROVE  /\ x \div BlockSize \in 0..(Blocks - 1)
           /\ x = BlockSize * (x \div BlockSize) + (x % BlockSize)
           /\ x % BlockSize \in 0..(BlockSize - 1)
<1>1. /\ BlockSize \in Nat \ {0} /\ Blocks \in Nat \ {0} /\ Length = Blocks * BlockSize
      /\ x \in Nat /\ x < Length
  BY DeviceIs
<1> HIDE DEF BlockSize, Length
<1> DEFINE q == x \div BlockSize
           m == x % BlockSize
<1>2. x = BlockSize * q + m /\ m \in 0..(BlockSize - 1) /\ q \in Nat
  BY <1>1, Divide
<1> HIDE DEF q, m
<1>3. q < Blocks
  <2> SUFFICES ASSUME q >= Blocks PROVE FALSE
    BY <1>1, <1>2
  <2>1. PICK d \in Nat : q = Blocks + d
    <3>1. q - Blocks \in Nat /\ q = Blocks + (q - Blocks)
      BY <1>1, <1>2
    <3> QED
      BY <3>1
  <2>2. /\ BlockSize * q = BlockSize * Blocks + BlockSize * d
        /\ BlockSize * d \in Int /\ BlockSize * d >= 0
        /\ BlockSize * Blocks = Blocks * BlockSize
    BY <1>1, <2>1, TimesNat
  <2> QED
    BY <1>1, <1>2, <2>2
<1>4. q \in 0..(Blocks - 1)
  BY <1>1, <1>2, <1>3
<1> QED
  BY <1>2, <1>4 DEF q, m

(* What a read knows of its request: where it begins, in which block, and   *)
(* which block is the last.                                                 *)
RequestRight(r) ==
    /\ r.handle \in Handle /\ r.size \in Sizes
    /\ r.from \in Uint64 /\ r.block \in Uint64 /\ r.end_block \in Uint64
    /\ Value(r.from) + r.size <= Length
    /\ Value(r.block) = Value(r.from) \div BlockSize
    /\ Value(r.end_block) = (Value(r.from) + r.size - 1) \div BlockSize
    /\ r.part_begin = Value(r.from) % BlockSize

LEMMA EnterRight ==
    ASSUME NEW h \in Handle, NEW n \in Sizes, handle_position[h] \in Uint64,
           Value(handle_position[h]) + n <= Length
    PROVE  /\ RequestRight(Enter(h, n))
           /\ Enter(h, n).handle = h /\ Enter(h, n).size = n
           /\ Enter(h, n).from = handle_position[h]
<1> DEFINE p == handle_position[h]
           r == Enter(h, n)
           last == Add64(p, Word(n - 1))
<1>1. Exponent \in 0..LimbBits /\ n \in 1..(Limb - 1) /\ n - 1 \in Digit
  BY BlockAssumption, LimbAssumption, LimbIs DEF Digit
<1>2. /\ r.handle = h /\ r.size = n /\ r.from = p
      /\ r.block = Shr64(p, Exponent) /\ r.end_block = Shr64(last, Exponent)
      /\ r.part_begin = p[0] % BlockSize
  BY DEF Enter
<1>3. Value(p) + (n - 1) < Top /\ Value(p) + (n - 1) = Value(p) + n - 1
  BY <1>1, TopIs, DeviceIs, ValueIs
<1>4. last \in Uint64 /\ Value(last) = Value(p) + n - 1
  <2>1. last = Add64_16(p, n - 1)
    BY <1>1, AddWord
  <2>2. Value(p) + (n - 1) < Limb * (Limb * (Limb * Limb))
    BY <1>3 DEF Top
  <2> QED
    BY <1>1, <1>3, <2>1, <2>2, AddLimbs
<1> HIDE DEF last, r
<1>5. /\ r.block \in Uint64 /\ Value(r.block) = Value(p) \div BlockSize
      /\ p[0] % BlockSize = Value(p) % BlockSize
  BY <1>1, <1>2, ShiftDivides DEF BlockSize
<1>6. r.end_block \in Uint64 /\ Value(r.end_block) = Value(last) \div BlockSize
  BY <1>1, <1>2, <1>4, ShiftDivides DEF BlockSize
<1>7. RequestRight(r)
  BY <1>2, <1>4, <1>5, <1>6 DEF RequestRight
<1> QED
  BY <1>2, <1>7 DEF r

(* The numbers of a request.                                                *)
LEMMA RequestIs ==
    ASSUME NEW r, RequestRight(r),
           NEW f, f = Value(r.from), NEW e, e = Value(r.end_block),
           NEW b, b = Value(r.block)
    PROVE  /\ f \in Nat /\ r.size \in 1..(Limb - 1) /\ f + r.size <= Length
           /\ b \in 0..(Blocks - 1) /\ e \in 0..(Blocks - 1) /\ b <= e
           /\ r.part_begin \in 0..(BlockSize - 1)
           /\ f = BlockSize * b + r.part_begin
           /\ BlockSize * e <= f + r.size - 1
           /\ f + r.size <= BlockSize * e + BlockSize
<1>1. f \in Nat /\ r.size \in 1..(Limb - 1) /\ f + r.size <= Length /\ Length \in Nat
  BY ValueIs, BlockAssumption, DeviceIs DEF RequestRight
<1> DEFINE l == f + r.size - 1
<1>2. f \in 0..(Length - 1) /\ l \in 0..(Length - 1)
  BY <1>1
<1>3. b = f \div BlockSize /\ e = l \div BlockSize /\ r.part_begin = f % BlockSize
  BY DEF RequestRight
<1> HIDE DEF l
<1>4. /\ b \in 0..(Blocks - 1) /\ f = BlockSize * b + r.part_begin
      /\ r.part_begin \in 0..(BlockSize - 1)
  BY <1>2, <1>3, BlockOf
<1>5. /\ e \in 0..(Blocks - 1) /\ l = BlockSize * e + (l % BlockSize)
      /\ l % BlockSize \in 0..(BlockSize - 1)
  BY <1>2, <1>3, BlockOf
<1>6. BlockSize \in Nat \ {0} /\ Blocks \in Nat
  BY DeviceIs
<1> HIDE DEF BlockSize
<1>7. BlockSize * e \in Int /\ BlockSize * b \in Int
  BY <1>4, <1>5, <1>6
<1>8. BlockSize * e <= l /\ l < BlockSize * e + BlockSize
  BY <1>2, <1>5, <1>6, <1>7
<1>9. l = f + r.size - 1
  BY DEF l
<1>10. b <= e
  <2> SUFFICES ASSUME b >= e + 1 PROVE FALSE
    BY <1>4, <1>5
  <2>1. PICK d \in Nat : b = e + 1 + d
    <3>1. b - e - 1 \in Nat /\ b = e + 1 + (b - e - 1)
      BY <1>4, <1>5
    <3> QED
      BY <3>1
  <2>2. /\ BlockSize * b = BlockSize * e + BlockSize + BlockSize * d
        /\ BlockSize * d \in Int /\ BlockSize * d >= 0
    BY <1>5, <1>6, <2>1, TimesNat
  <2> QED
    BY <1>1, <1>4, <1>6, <1>7, <1>8, <1>9, <2>2
<1> QED
  BY <1>1, <1>4, <1>5, <1>6, <1>7, <1>8, <1>9, <1>10

-----------------------------------------------------------------------------
(* A set of naturals that is not empty has a least element.                 *)
LEMMA Least ==
    ASSUME NEW S \in SUBSET Nat, S # {}
    PROVE  \E i \in S : \A j \in S : i <= j
<1> DEFINE less == {ss \in Nat \X Nat : ss[1] < ss[2]}
<1>1. IsWellFoundedOn(less, Nat)
  BY NatLessThanWellFounded DEF OpToRel
<1>2. \E i \in S : \A j \in S : <<j, i>> \notin less
  <2> HIDE DEF less
  <2> QED
    BY <1>1, WFMin
<1>3. PICK i \in S : \A j \in S : <<j, i>> \notin less
  BY <1>2
<1>4. \A j \in S : ~ (j < i)
  BY <1>3
<1> QED
  BY <1>4

LEMMA SlotsTyped == Slot \in SUBSET Nat /\ None \notin Slot /\ 0 \in 0..Blocks /\ Blocks \in Nat
BY BlockAssumption DEF Slot, None

LEMMA MinIn ==
    ASSUME NEW S \in SUBSET Slot, S # {}
    PROVE  Min(S) \in S
<1>1. PICK i \in S : \A j \in S : i <= j
  BY SlotsTyped, Least
<1> QED
  BY <1>1 DEF Min

(* A slot that is found has the block, and one that is free is free.        *)
LEMMA SlotFound ==
    ASSUME NEW cache, NEW block, SlotOf(cache, block) # None
    PROVE  /\ SlotOf(cache, block) \in Slot
           /\ cache[SlotOf(cache, block)].buffer # Null
           /\ Cmp64(block, cache[SlotOf(cache, block)].block) = 0
<1> DEFINE hits == {s \in Slot : cache[s].buffer # Null /\ Cmp64(block, cache[s].block) = 0}
<1>1. hits # {} /\ SlotOf(cache, block) = Min(hits)
  BY DEF SlotOf
<1>2. Min(hits) \in hits
  BY <1>1, MinIn
<1> QED
  BY <1>1, <1>2

LEMMA SlotFree ==
    ASSUME NEW cache, FreeSlot(cache) # None
    PROVE  FreeSlot(cache) \in Slot /\ cache[FreeSlot(cache)].buffer = Null
<1> DEFINE free == {s \in Slot : cache[s].buffer = Null}
<1>1. free # {} /\ FreeSlot(cache) = Min(free)
  BY DEF FreeSlot
<1>2. Min(free) \in free
  BY <1>1, MinIn
<1> QED
  BY <1>1, <1>2

-----------------------------------------------------------------------------
(* The loop *)

Fields == {"block", "end_block", "size", "position", "cache", "content", "used",
           "tmp", "out", "stale", "dropped"}

(* Where the first block's buffer goes.                                     *)
Put(slot) == IF slot = None THEN FreeSlot(cached_block) ELSE None
Cache(r, slot, tmp) ==
    IF Put(slot) = None THEN cached_block
    ELSE [cached_block EXCEPT ![Put(slot)] = [block |-> r.block, buffer |-> tmp]]

LEMMA CopyGives ==
    ASSUME NEW s, DOMAIN s = Fields, NEW slot, NEW tmp, NEW part_begin,
           NEW put, put = IF slot = None THEN FreeSlot(s.cache) ELSE None,
           NEW c, c = Copy(s, slot, tmp, part_begin)
    PROVE  /\ DOMAIN c = Fields
           /\ c.content = s.content /\ c.stale = s.stale /\ c.dropped = s.dropped
           /\ c.tmp = tmp
           /\ c.used = IF slot = None THEN put ELSE slot
           /\ c.cache = IF put = None THEN s.cache
                        ELSE [s.cache EXCEPT ![put] = [block |-> s.block, buffer |-> tmp]]
BY DEF Copy, Fields

(* The state before the loop, and what the loop does until the first stale  *)
(* copy: it only finds blocks in the cache that the first one has left, and *)
(* it ends without a slot only if no slot was found or free.                *)
Start(r, slot, tmp, c) ==
    [block |-> r.block, end_block |-> r.end_block, size |-> r.size,
     position |-> handle_position[r.handle], cache |-> cached_block,
     content |-> c, used |-> slot, tmp |-> tmp, out |-> <<>>,
     stale |-> stale, dropped |-> dropped]

Kept(r, slot, tmp, c, s) ==
    /\ DOMAIN s = Fields
    /\ ~s.stale =>
        /\ ~stale
        /\ s.content = c
        /\ s.cache = Cache(r, slot, tmp)
        /\ s.used = None => Put(slot) = None /\ slot = None /\ s.tmp = tmp
        /\ slot = None /\ Put(slot) = None /\ ~s.dropped => s.used = None
        /\ ~s.dropped => ~dropped

LEMMA FirstKeeps ==
    ASSUME NEW r, NEW slot, NEW tmp, NEW c
    PROVE  Kept(r, slot, tmp, c, Copy(Start(r, slot, tmp, c), slot, tmp, r.part_begin))
<1> DEFINE s == Start(r, slot, tmp, c)
<1>1. /\ DOMAIN s = Fields /\ s.block = r.block /\ s.cache = cached_block /\ s.content = c
      /\ s.used = slot /\ s.stale = stale /\ s.dropped = dropped
  BY DEF Start, Fields
<1> HIDE DEF s
<1> DEFINE d == Copy(s, slot, tmp, r.part_begin)
<1>2. Put(slot) = IF slot = None THEN FreeSlot(s.cache) ELSE None
  BY <1>1 DEF Put
<1>3. d = Copy(s, slot, tmp, r.part_begin)
  OBVIOUS
<1> HIDE DEF d
<1>4. /\ DOMAIN d = Fields
      /\ d.content = s.content /\ d.stale = s.stale /\ d.dropped = s.dropped
      /\ d.tmp = tmp
      /\ d.used = IF slot = None THEN Put(slot) ELSE slot
      /\ d.cache = IF Put(slot) = None THEN s.cache
                   ELSE [s.cache EXCEPT ![Put(slot)] = [block |-> s.block, buffer |-> tmp]]
  BY <1>1, <1>2, <1>3, CopyGives
<1>5. d.cache = Cache(r, slot, tmp)
  BY <1>1, <1>4 DEF Cache
<1>6. Kept(r, slot, tmp, c, d)
  BY <1>1, <1>4, <1>5 DEF Kept, Put
<1> QED
  BY <1>6 DEF d, s

LEMMA RoundKeeps ==
    ASSUME NEW r, NEW slot, NEW tmp, NEW c, NEW s, Kept(r, slot, tmp, c, s)
    PROVE  Kept(r, slot, tmp, c, Round(s))
<1> DEFINE found == SlotOf(s.cache, s.block)
           from  == IF found = None THEN s.tmp ELSE s.cache[found].buffer
           e     == [s EXCEPT !.stale = @ \/ found = None,
                              !.dropped = @ \/ (s.used = None /\ found # None)]
<1>1. CASE Round(s) = s
  BY <1>1
<1>2. CASE Round(s) # s
  <2>1. Round(s) = Copy(e, found, from, 0)
    BY <1>2 DEF Round
  <2>2. /\ DOMAIN e = Fields /\ e.cache = s.cache /\ e.content = s.content
        /\ e.used = s.used /\ e.tmp = s.tmp
        /\ ~e.stale => ~s.stale /\ found # None
        /\ ~e.dropped => ~s.dropped /\ (s.used = None => found = None)
    BY DEF Kept, Fields
  <2> HIDE DEF e, found, from
  <2> DEFINE d == Copy(e, found, from, 0)
  <2>a. d = Copy(e, found, from, 0)
    OBVIOUS
  <2> HIDE DEF d
  <2> DEFINE put == IF found = None THEN FreeSlot(e.cache) ELSE None
  <2>3. /\ DOMAIN d = Fields
        /\ d.content = e.content /\ d.stale = e.stale /\ d.dropped = e.dropped
        /\ d.used = IF found = None THEN put ELSE found
        /\ d.cache = IF put = None THEN e.cache
                     ELSE [e.cache EXCEPT ![put] = [block |-> e.block, buffer |-> from]]
    BY <2>2, <2>a, CopyGives
  <2>4. Kept(r, slot, tmp, c, d)
    BY <2>2, <2>3 DEF Kept
  <2> QED
    BY <2>1, <2>4 DEF d
<1> QED
  BY <1>1, <1>2

(* The states after each round.                                             *)
After(first) == CHOOSE g : g = [i \in 0..Blocks |->
                                IF i = 0 THEN first ELSE Round(g[i - 1])]

LEMMA LoopRounds ==
    ASSUME NEW first
    PROVE  /\ After(first)[0] = first
           /\ \A i \in 1..Blocks : After(first)[i] = Round(After(first)[i - 1])
<1> DEFINE after == After(first)
           Is(g, k) == g = [i \in 0..k |-> IF i = 0 THEN first ELSE Round(g[i - 1])]
           Bad == {k \in 0..Blocks : ~ \E g : Is(g, k)}
<1>0. Blocks \in Nat \ {0}
  BY BlockAssumption
<1>1. Bad = {}
  <2> SUFFICES ASSUME Bad # {} PROVE FALSE
    OBVIOUS
  <2>1. Bad \in SUBSET Nat
    BY <1>0
  <2>2. PICK k \in Bad : \A j \in Bad : k <= j
    BY <2>1, Least
  <2>3. k \in 0..Blocks /\ k \in Nat
    BY <1>0, <2>2
  <2>4. CASE k = 0
    <3> DEFINE g == [i \in 0..0 |-> first]
    <3>1. Is(g, k)
      BY <2>4
    <3> QED
      BY <2>2, <3>1
  <2>5. CASE k # 0
    <3>1. k - 1 \in 0..Blocks /\ ~ (k <= k - 1)
      BY <1>0, <2>3, <2>5
    <3>2. k - 1 \notin Bad
      <4> HIDE DEF Bad
      <4> QED
        BY <2>2, <3>1
    <3>3. PICK g : Is(g, k - 1)
      BY <3>1, <3>2
    <3> DEFINE h == [i \in 0..k |-> IF i = k THEN Round(g[k - 1]) ELSE g[i]]
    <3>4. ASSUME NEW i \in 0..k
          PROVE  h[i] = IF i = 0 THEN first ELSE Round(h[i - 1])
      <4>1. CASE i = 0
        <5>1. 0 \in 0..(k - 1)
          BY <2>3, <2>5
        <5> QED
          BY <2>5, <3>3, <4>1, <5>1
      <4>2. CASE i = k
        <5>1. k - 1 \in 0..k /\ k - 1 # k /\ k \in 0..k
          BY <2>3, <2>5
        <5> QED
          BY <2>5, <4>2, <5>1
      <4>3. CASE i # 0 /\ i # k
        <5>1. i \in 0..(k - 1) /\ i - 1 \in 0..k /\ i - 1 # k
          BY <2>3, <4>3
        <5>2. g[i] = Round(g[i - 1])
          BY <3>3, <4>3, <5>1
        <5> QED
          BY <4>3, <5>1, <5>2
      <4> QED
        BY <4>1, <4>2, <4>3
    <3>5. Is(h, k)
      <4>1. h = [i \in 0..k |-> h[i]]
        OBVIOUS
      <4> HIDE DEF h
      <4> QED
        BY <3>4, <4>1
    <3> HIDE DEF h, Is
    <3> QED
      BY <2>2, <3>5
  <2> QED
    BY <2>4, <2>5
<1>2. \E g : Is(g, Blocks)
  <2>1. Blocks \in 0..Blocks
    BY <1>0
  <2> HIDE DEF Is
  <2> QED
    BY <1>1, <2>1
<1>3. Is(after, Blocks)
  <2>1. after = CHOOSE g : Is(g, Blocks)
    BY DEF After
  <2> HIDE DEF Is
  <2> QED
    BY <1>2, <2>1
<1>4. \A i \in 0..Blocks : after[i] = IF i = 0 THEN first ELSE Round(after[i - 1])
  <2>1. after = [i \in 0..Blocks |-> IF i = 0 THEN first ELSE Round(after[i - 1])]
    BY <1>3
  <2> QED
    BY <2>1
<1> QED
  BY <1>0, <1>4

LEMMA LoopKeeps ==
    ASSUME NEW r, NEW slot, NEW tmp, NEW c
    PROVE  Kept(r, slot, tmp, c, Loop(r, slot, tmp, c))
<1> DEFINE first == Copy(Start(r, slot, tmp, c), slot, tmp, r.part_begin)
           after == After(first)
<1>1. Loop(r, slot, tmp, c) = after[Blocks]
  BY DEF Loop, Start, After
<1>2. Kept(r, slot, tmp, c, first)
  BY FirstKeeps
<1> HIDE DEF first
<1>3. /\ after[0] = first
      /\ \A i \in 1..Blocks : after[i] = Round(after[i - 1])
  BY LoopRounds
<1> HIDE DEF after
<1> DEFINE Bad == {i \in 0..Blocks : ~ Kept(r, slot, tmp, c, after[i])}
<1>4. Bad = {}
  <2> SUFFICES ASSUME Bad # {} PROVE FALSE
    OBVIOUS
  <2>1. Bad \in SUBSET Nat
    BY SlotsTyped
  <2>2. PICK i \in Bad : \A j \in Bad : i <= j
    BY <2>1, Least
  <2>3. i \in 0..Blocks /\ i \in Nat /\ i # 0
    BY <1>2, <1>3, <2>2, SlotsTyped
  <2>4. i \in 1..Blocks /\ i - 1 \in 0..Blocks /\ ~ (i <= i - 1)
    BY <2>3, SlotsTyped
  <2>5. i - 1 \notin Bad
    <3> HIDE DEF Bad
    <3> QED
      BY <2>2, <2>4
  <2>6. Kept(r, slot, tmp, c, after[i - 1])
    BY <2>4, <2>5
  <2>7. Kept(r, slot, tmp, c, after[i])
    BY <1>3, <2>4, <2>6, RoundKeeps
  <2> QED
    BY <2>2, <2>7
<1> QED
  BY <1>1, <1>4, SlotsTyped

-----------------------------------------------------------------------------
(* The loop delivers what was asked for.                                    *)

Address  == 0..(Length - 1)
Caches   == [Slot -> [block : Uint64, buffer : Buffer \cup {Null}]]
Contents == [Buffer -> {Junk} \cup 0..(Blocks - 1)]

LEMMA BytesAre ==
    ASSUME NEW block \in {Junk} \cup 0..(Blocks - 1),
           NEW from \in Nat, NEW n \in Nat, from + n <= BlockSize
    PROVE  /\ Bytes(block, from, n) \in Seq({Junk} \cup Address)
           /\ Len(Bytes(block, from, n)) = n
           /\ \A i \in 1..n : block # Junk =>
                 Bytes(block, from, n)[i] = block * BlockSize + from + i - 1
<1>1. /\ BlockSize \in Nat \ {0} /\ Blocks \in Nat \ {0} /\ Length = Blocks * BlockSize
      /\ Length \in Nat
  BY DeviceIs
<1> HIDE DEF BlockSize, Length
<1>2. ASSUME NEW i \in 1..n, block # Junk
      PROVE  block * BlockSize + from + i - 1 \in Address
  <2>1. block \in Nat /\ block <= Blocks - 1 /\ from + i - 1 \in Nat
        /\ from + i - 1 < BlockSize
    BY <1>1, <1>2
  <2>2. PICK d \in Nat : Blocks = block + 1 + d
    <3>1. Blocks - block - 1 \in Nat /\ Blocks = block + 1 + (Blocks - block - 1)
      BY <1>1, <2>1
    <3> QED
      BY <3>1
  <2>3. /\ Length = block * BlockSize + BlockSize + d * BlockSize
        /\ d * BlockSize \in Int /\ d * BlockSize >= 0
        /\ block * BlockSize \in Int /\ block * BlockSize >= 0
    BY <1>1, <2>1, <2>2, TimesNat
  <2> QED
    BY <1>1, <2>1, <2>3 DEF Address
<1>3. Bytes(block, from, n) \in [1..n -> {Junk} \cup Address]
  BY <1>2 DEF Bytes
<1>4. \A i \in 1..n : block # Junk =>
         Bytes(block, from, n)[i] = block * BlockSize + from + i - 1
  BY DEF Bytes
<1> DEFINE B == Bytes(block, from, n)
<1> HIDE DEF B
<1>5. B \in [1..n -> {Junk} \cup Address]
  BY <1>3 DEF B
<1>6. B \in Seq({Junk} \cup Address) /\ Len(B) = n
  BY <1>5
<1> QED
  BY <1>4, <1>6 DEF B

(* How much is copied of a block, the first or a later one, that begins     *)
(* where the bytes copied so far end.                                       *)
LEMMA Amount ==
    ASSUME NEW r, RequestRight(r),
           NEW f, f = Value(r.from), NEW e, e = Value(r.end_block),
           NEW k \in Nat, k <= e, NEW pb \in 0..(BlockSize - 1),
           NEW l \in Nat, l < r.size, f + l = BlockSize * k + pb,
           NEW n, n = IF k = e THEN r.size - l ELSE BlockSize - pb
    PROVE  /\ n \in 1..(Limb - 1) /\ pb + n <= BlockSize /\ l + n <= r.size
           /\ k = e => l + n = r.size
           /\ k < e => l + n < r.size /\ f + (l + n) = BlockSize * (k + 1)
<1>1. /\ f \in Nat /\ r.size \in 1..(Limb - 1) /\ e \in Nat
      /\ BlockSize * e <= f + r.size - 1
      /\ f + r.size <= BlockSize * e + BlockSize
  BY RequestIs
<1>2. BlockSize \in Nat \ {0} /\ Limb \in Nat
  BY DeviceIs, LimbIs
<1> HIDE DEF BlockSize, Limb
<1>3. BlockSize * e \in Int /\ BlockSize * k \in Int
  BY <1>1, <1>2
<1>4. CASE k = e
  BY <1>1, <1>2, <1>3, <1>4
<1>5. CASE k < e
  <2>1. PICK d \in Nat : e = k + 1 + d
    <3>1. e - k - 1 \in Nat /\ e = k + 1 + (e - k - 1)
      BY <1>1, <1>5
    <3> QED
      BY <3>1
  <2>2. /\ BlockSize * e = BlockSize * k + BlockSize + BlockSize * d
        /\ BlockSize * (k + 1) = BlockSize * k + BlockSize
        /\ BlockSize * d \in Int /\ BlockSize * d >= 0
    BY <1>2, <2>1, TimesNat
  <2>3. n = BlockSize - pb /\ n >= 1
    BY <1>1, <1>2, <1>5
  <2>4. f + (l + n) = BlockSize * k + BlockSize
    BY <1>1, <1>2, <1>3, <2>3
  <2>5. l + n < r.size
    BY <1>1, <1>2, <1>3, <2>2, <2>3, <2>4
  <2> QED
    BY <1>1, <1>2, <1>3, <1>5, <2>2, <2>3, <2>4, <2>5
<1> QED
  BY <1>1, <1>4, <1>5

(* p is where the handle was when the read began to copy.                   *)
State(r, p, s, pb) ==
    /\ DOMAIN s = Fields
    /\ s.size = r.size /\ s.end_block = r.end_block /\ s.block \in Uint64
    /\ s.cache \in Caches /\ s.content \in Contents /\ s.tmp \in Buffer
    /\ s.out \in Seq({Junk} \cup Address)
    /\ s.position \in Uint64 /\ Value(s.position) = p + Len(s.out)
    /\ s.stale \in BOOLEAN /\ s.dropped \in BOOLEAN
    /\ \/ /\ Value(s.block) <= Value(r.end_block) /\ Len(s.out) < r.size
          /\ Value(r.from) + Len(s.out) = BlockSize * Value(s.block) + pb
       \/ Value(s.block) = Value(r.end_block) + 1 /\ Len(s.out) = r.size

Holds(cache, c) ==
    \A q \in Slot : cache[q].buffer # Null => c[cache[q].buffer] = Value(cache[q].block)

Right(r, s) ==
    /\ \A i \in 1..Len(s.out) : s.out[i] = Value(r.from) + i - 1
    /\ Holds(s.cache, s.content)

Copied(s, pb) == IF Cmp64(s.block, s.end_block) = 0 THEN s.size - Len(s.out)
                                                    ELSE BlockSize - pb

LEMMA CopyFields ==
    ASSUME NEW s, DOMAIN s = Fields, NEW slot, NEW tmp, NEW pb
    PROVE  /\ Copy(s, slot, tmp, pb).size = s.size
           /\ Copy(s, slot, tmp, pb).end_block = s.end_block
           /\ Copy(s, slot, tmp, pb).block = Inc64(s.block)
           /\ Copy(s, slot, tmp, pb).stale = s.stale
           /\ Copy(s, slot, tmp, pb).dropped = s.dropped
BY DEF Copy, Fields

LEMMA CopyOut ==
    ASSUME NEW s, DOMAIN s = Fields, NEW slot, NEW tmp, NEW pb
    PROVE  Copy(s, slot, tmp, pb).out = s.out \o Bytes(s.content[tmp], pb, Copied(s, pb))
BY DEF Copy, Copied, Fields

LEMMA CopyMoves ==
    ASSUME NEW s, DOMAIN s = Fields, NEW slot, NEW tmp, NEW pb
    PROVE  Copy(s, slot, tmp, pb).position = Add64(s.position, Word(Copied(s, pb)))
BY DEF Copy, Copied, Fields

LEMMA PutTyped ==
    ASSUME NEW cache \in Caches, NEW block \in Uint64, NEW tmp \in Buffer,
           NEW slot, NEW put, put = IF slot = None THEN FreeSlot(cache) ELSE None
    PROVE  (IF put = None THEN cache
            ELSE [cache EXCEPT ![put] = [block |-> block, buffer |-> tmp]]) \in Caches
BY DEF Caches

LEMMA PutHolds ==
    ASSUME NEW cache \in Caches, NEW block \in Uint64, NEW tmp \in Buffer,
           NEW c, Holds(cache, c), c[tmp] = Value(block),
           NEW put
    PROVE  Holds(IF put = None THEN cache
                 ELSE [cache EXCEPT ![put] = [block |-> block, buffer |-> tmp]], c)
BY DEF Caches, Holds

LEMMA CopyState ==
    ASSUME NEW r, RequestRight(r), NEW p \in Nat, p + r.size < Top,
           NEW s, NEW pb \in 0..(BlockSize - 1), State(r, p, s, pb),
           Value(s.block) <= Value(r.end_block),
           NEW slot, NEW tmp \in Buffer,
           NEW c, c = Copy(s, slot, tmp, pb)
    PROVE  /\ State(r, p, c, 0)
           /\ Value(c.block) = Value(s.block) + 1
           /\ Right(r, s) /\ s.content[tmp] = Value(s.block) => Right(r, c)
<1> DEFINE f == Value(r.from)
           e == Value(r.end_block)
           k == Value(s.block)
           l == Len(s.out)
           n == IF k = e THEN r.size - l ELSE BlockSize - pb
           more == Bytes(s.content[tmp], pb, n)
           put == IF slot = None THEN FreeSlot(s.cache) ELSE None
<1>1. /\ DOMAIN s = Fields
      /\ s.size = r.size /\ s.end_block = r.end_block /\ s.block \in Uint64
      /\ s.cache \in Caches /\ s.content \in Contents /\ s.tmp \in Buffer
      /\ s.out \in Seq({Junk} \cup Address)
      /\ s.position \in Uint64 /\ Value(s.position) = p + l
  BY DEF State
<1>2. /\ f \in Nat /\ e \in 0..(Blocks - 1) /\ r.size \in 1..(Limb - 1)
      /\ k \in Nat /\ l \in Nat /\ Blocks \in Nat /\ r.end_block \in Uint64
  <2>1. l \in Nat
    BY <1>1
  <2>2. k \in Nat /\ Blocks \in Nat
    BY <1>1, ValueIs, DeviceIs
  <2> HIDE DEF f, e, k, l
  <2>3. f = Value(r.from) /\ e = Value(r.end_block)
    BY DEF f, e
  <2>4. f \in Nat /\ e \in 0..(Blocks - 1) /\ r.size \in 1..(Limb - 1)
    BY <2>3, RequestIs
  <2> QED
    BY <2>1, <2>2, <2>4 DEF RequestRight
<1>3. k <= e /\ l < r.size /\ f + l = BlockSize * k + pb
  <2> HIDE DEF f, e, k, l
  <2>1. k <= e /\ ((k <= e /\ l < r.size /\ f + l = BlockSize * k + pb) \/ k = e + 1)
    BY DEF State, f, e, k, l
  <2> QED
    BY <1>2, <2>1
<1>4. Cmp64(s.block, s.end_block) = 0 <=> k = e
  BY <1>1, <1>2, Compares
<1>5. n = IF Cmp64(s.block, s.end_block) = 0 THEN s.size - Len(s.out) ELSE BlockSize - pb
  BY <1>1, <1>4
<1> HIDE DEF n
<1>6. /\ c.size = r.size /\ c.end_block = r.end_block
      /\ c.out = s.out \o more
      /\ c.position = Add64(s.position, Word(n))
      /\ c.block = Inc64(s.block)
  <2>1. n = Copied(s, pb)
    BY <1>5 DEF Copied
  <2>2. c.size = s.size /\ c.end_block = s.end_block /\ c.block = Inc64(s.block)
    BY <1>1, CopyFields
  <2>3. c.out = s.out \o Bytes(s.content[tmp], pb, Copied(s, pb))
    BY <1>1, CopyOut
  <2>4. c.position = Add64(s.position, Word(Copied(s, pb)))
    BY <1>1, CopyMoves
  <2> QED
    BY <1>1, <2>1, <2>2, <2>3, <2>4
<1>7. /\ DOMAIN c = Fields
      /\ c.content = s.content /\ c.tmp = tmp
      /\ c.cache = IF put = None THEN s.cache
                   ELSE [s.cache EXCEPT ![put] = [block |-> s.block, buffer |-> tmp]]
  BY <1>1, CopyGives
<1>8. /\ n \in 1..(Limb - 1) /\ pb + n <= BlockSize /\ l + n <= r.size
      /\ k = e => l + n = r.size
      /\ k < e => l + n < r.size /\ f + (l + n) = BlockSize * (k + 1)
  <2>1. n = IF k = e THEN r.size - l ELSE BlockSize - pb
    BY DEF n
  <2> HIDE DEF f, e, k, l
  <2>2. f = Value(r.from) /\ e = Value(r.end_block)
    BY DEF f, e
  <2> QED
    BY <1>2, <1>3, <2>1, <2>2, Amount
<1>9. s.content[tmp] \in {Junk} \cup 0..(Blocks - 1) /\ pb \in Nat /\ n \in Nat
  BY <1>1, <1>8, DeviceIs, LimbIs DEF Contents
<1>10. /\ more \in Seq({Junk} \cup Address) /\ Len(more) = n
       /\ \A i \in 1..n : s.content[tmp] # Junk =>
             more[i] = s.content[tmp] * BlockSize + pb + i - 1
  BY <1>8, <1>9, BytesAre
<1> HIDE DEF more
<1>11. c.out \in Seq({Junk} \cup Address) /\ Len(c.out) = l + n
  <2> HIDE DEF f, e, k, put
  <2>1. ASSUME NEW S, NEW a \in Seq(S), NEW b \in Seq(S)
        PROVE  a \o b \in Seq(S) /\ Len(a \o b) = Len(a) + Len(b)
    OBVIOUS
  <2> DEFINE S == {Junk} \cup Address
  <2>2. s.out \in Seq(S) /\ more \in Seq(S) /\ c.out = s.out \o more
    BY <1>1, <1>6, <1>10
  <2> HIDE DEF S
  <2>3. c.out \in Seq(S) /\ Len(c.out) = Len(s.out) + Len(more)
    BY <2>1, <2>2
  <2> QED
    BY <1>10, <2>3 DEF S
<1>12. Value(c.block) = k + 1 /\ c.block \in Uint64
  <2>1. 1 \in Digit /\ k + 1 < Limb * (Limb * (Limb * Limb))
    <3>1. 1 \in Digit
      BY LimbIs DEF Digit
    <3>2. k + 1 < Top
      <4> HIDE DEF k, e, f, l
      <4>1. k + 1 <= Length
        BY <1>2, <1>3, DeviceIs
      <4>2. Limb * Limb \in Nat /\ 2 <= Limb * Limb /\ Top \in Nat /\ Length \in Nat
        BY TopIs, DeviceIs
      <4> QED
        BY <1>2, <4>1, <4>2, TopIs
    <3> QED
      BY <3>1, <3>2 DEF Top
  <2> QED
    BY <1>1, <1>6, <2>1, AddLimbs DEF Inc64
<1>13. c.position \in Uint64 /\ Value(c.position) = p + Len(c.out)
  <2>1. n \in Digit
    BY <1>8 DEF Digit
  <2>2. Value(s.position) + n < Limb * (Limb * (Limb * Limb))
    <3>1. Top \in Nat
      BY TopIs
    <3>2. p + l + n <= p + r.size
      BY <1>2, <1>8, <1>9
    <3> QED
      BY <1>1, <1>2, <1>9, <3>1, <3>2 DEF Top
  <2>3. Value(Add64(s.position, Word(n))) = Value(s.position) + n
        /\ Add64(s.position, Word(n)) \in Uint64
    BY <1>1, <2>1, <2>2, AddWord, AddLimbs
  <2> QED
    BY <1>1, <1>2, <1>6, <1>9, <1>11, <2>3
<1>14. c.cache \in Caches
  BY <1>1, <1>7, PutTyped
<1>15. State(r, p, c, 0)
  <2>3. c.stale \in BOOLEAN /\ c.dropped \in BOOLEAN
    <3>1. s.stale \in BOOLEAN /\ s.dropped \in BOOLEAN
      BY DEF State
    <3> QED
      BY <1>1, <3>1, CopyFields
  <2>1. CASE k = e
    BY <1>1, <1>6, <1>7, <1>8, <1>11, <1>12, <1>13, <1>14, <2>1, <2>3 DEF State
  <2>2. CASE k # e
    <3>1. k + 1 <= e /\ l + n < r.size /\ f + (l + n) = BlockSize * (k + 1) + 0
      <4> HIDE DEF k, e, f, l
      <4>1. k < e
        BY <1>2, <1>3, <2>2
      <4>2. BlockSize * (k + 1) \in Int
        BY <1>2, DeviceIs
      <4> QED
        BY <1>2, <1>8, <4>1, <4>2
    <3> QED
      BY <1>1, <1>6, <1>7, <1>11, <1>12, <1>13, <1>14, <2>3, <3>1 DEF State
  <2> QED
    BY <2>1, <2>2
<1>16. ASSUME Right(r, s), s.content[tmp] = k
       PROVE  Right(r, c)
  <2>1. Holds(c.cache, c.content)
    <3>1. Holds(s.cache, s.content) /\ s.content[tmp] = Value(s.block)
      BY <1>16 DEF Right
    <3> HIDE DEF f, e, k, l, put
    <3>2. Holds(IF put = None THEN s.cache
                ELSE [s.cache EXCEPT ![put] = [block |-> s.block, buffer |-> tmp]], s.content)
      BY <1>1, <3>1, PutHolds
    <3> QED
      BY <1>7, <3>2
  <2>2. \A i \in 1..l : s.out[i] = f + i - 1
    BY <1>16 DEF Right
  <2>3. ASSUME NEW i \in 1..n PROVE more[i] = f + l + i - 1
    <3>1. k # Junk /\ k * BlockSize = BlockSize * k /\ k * BlockSize \in Int
      BY <1>2, DeviceIs DEF Junk
    <3>2. more[i] = k * BlockSize + pb + i - 1
      BY <1>10, <1>16, <3>1
    <3> HIDE DEF k, f, l
    <3> QED
      BY <1>2, <1>3, <1>9, <3>1, <3>2
  <2>4. ASSUME NEW i \in 1..Len(c.out) PROVE c.out[i] = f + i - 1
    <3> HIDE DEF f
    <3>1. CASE i <= l
      BY <1>1, <1>2, <1>6, <1>9, <1>10, <1>11, <2>2, <3>1
    <3>2. CASE i > l
      <4>1. i - l \in 1..n
        BY <1>2, <1>9, <1>11, <3>2
      <4>2. c.out[i] = more[i - l]
        BY <1>1, <1>2, <1>6, <1>9, <1>10, <1>11, <3>2, <4>1
      <4> QED
        BY <1>2, <2>3, <4>1, <4>2
    <3> QED
      BY <1>2, <1>9, <1>11, <3>1, <3>2
  <2> QED
    BY <2>1, <2>4 DEF Right
<1> QED
  BY <1>12, <1>15, <1>16

(* After i rounds.                                                          *)
Delivering(r, p, s, i) ==
    /\ State(r, p, s, 0)
    /\ Value(s.block) > Value(r.block)
    /\ Value(s.block) > Value(r.block) + i \/ Value(s.block) = Value(r.end_block) + 1
    /\ s.stale => Value(r.block) < Value(r.end_block)
    /\ ~s.stale => Right(r, s)

LEMMA FirstDelivers ==
    ASSUME NEW r, RequestRight(r), stale = FALSE,
           NEW slot, NEW tmp \in Buffer, NEW c \in Contents,
           cached_block \in Caches, dropped \in BOOLEAN, Holds(cached_block, c), c[tmp] = Value(r.block),
           handle_position[r.handle] \in Uint64,
           NEW p \in Nat, p = Value(handle_position[r.handle]), p + r.size < Top
    PROVE  Delivering(r, p, Copy(Start(r, slot, tmp, c), slot, tmp, r.part_begin), 0)
<1> DEFINE s == Start(r, slot, tmp, c)
           d == Copy(s, slot, tmp, r.part_begin)
<1>1. /\ DOMAIN s = Fields /\ s.block = r.block /\ s.cache = cached_block /\ s.content = c
      /\ s.size = r.size /\ s.end_block = r.end_block /\ s.tmp = tmp
      /\ s.stale = stale /\ s.dropped = dropped
      /\ s.out = <<>> /\ s.position = handle_position[r.handle]
  BY DEF Start, Fields
<1>2. /\ Value(r.from) \in Nat /\ r.size \in 1..(Limb - 1)
      /\ Value(r.block) \in Nat /\ Value(r.block) <= Value(r.end_block)
      /\ r.part_begin \in 0..(BlockSize - 1)
      /\ Value(r.from) = BlockSize * Value(r.block) + r.part_begin
      /\ r.block \in Uint64
  <2> DEFINE f == Value(r.from)
             e == Value(r.end_block)
             b == Value(r.block)
  <2>1. f = Value(r.from) /\ e = Value(r.end_block) /\ b = Value(r.block)
    OBVIOUS
  <2> HIDE DEF f, e, b
  <2>2. /\ f \in Nat /\ r.size \in 1..(Limb - 1)
        /\ b \in 0..(Blocks - 1) /\ b <= e
        /\ r.part_begin \in 0..(BlockSize - 1)
        /\ f = BlockSize * b + r.part_begin
    BY <2>1, RequestIs
  <2>3. r.block \in Uint64
    BY DEF RequestRight
  <2>4. b \in Nat
    BY <2>2, DeviceIs
  <2> QED
    BY <2>2, <2>3, <2>4 DEF f, e, b
<1> HIDE DEF s
<1>3. s.out \in Seq({Junk} \cup Address) /\ Len(s.out) = 0
  BY <1>1
<1>4. State(r, p, s, r.part_begin)
  <2>1. 0 < r.size /\ Value(r.from) + 0 = Value(r.from) /\ p + 0 = p
    BY <1>2
  <2> QED
    BY <1>1, <1>2, <1>3, <2>1 DEF State
<1>5. Right(r, s) /\ s.content[tmp] = Value(s.block)
  BY <1>1, <1>3 DEF Right
<1>6. d = Copy(s, slot, tmp, r.part_begin)
  OBVIOUS
<1> HIDE DEF d
<1>7. /\ State(r, p, d, 0) /\ Value(d.block) = Value(s.block) + 1 /\ Right(r, d)
  BY <1>1, <1>2, <1>4, <1>5, <1>6, CopyState
<1>8. d.stale = s.stale
  BY <1>1, <1>6, CopyFields
<1>9. Value(d.block) > Value(r.block) + 0 /\ Value(d.block) > Value(r.block)
  BY <1>1, <1>2, <1>7
<1> QED
  BY <1>1, <1>7, <1>8, <1>9 DEF Delivering, d, s

LEMMA RoundDelivers ==
    ASSUME NEW r, RequestRight(r), NEW p \in Nat, p + r.size < Top,
           NEW s, NEW i \in Nat, Delivering(r, p, s, i)
    PROVE  Delivering(r, p, Round(s), i + 1)
<1> DEFINE found == SlotOf(s.cache, s.block)
           from  == IF found = None THEN s.tmp ELSE s.cache[found].buffer
           g     == [s EXCEPT !.stale = @ \/ found = None,
                              !.dropped = @ \/ (s.used = None /\ found # None)]
           d     == Copy(g, found, from, 0)
           k     == Value(s.block)
           b     == Value(r.block)
           e     == Value(r.end_block)
<1>1. /\ State(r, p, s, 0) /\ k > b /\ (k > b + i \/ k = e + 1)
      /\ s.stale => b < e
      /\ ~s.stale => Right(r, s)
  BY DEF Delivering
<1>2. /\ DOMAIN s = Fields
      /\ s.size = r.size /\ s.end_block = r.end_block /\ s.block \in Uint64
      /\ s.cache \in Caches /\ s.content \in Contents /\ s.tmp \in Buffer
      /\ s.out \in Seq({Junk} \cup Address)
      /\ (k <= e /\ Len(s.out) < r.size) \/ (k = e + 1 /\ Len(s.out) = r.size)
  BY <1>1 DEF State
<1>3. r.end_block \in Uint64 /\ r.block \in Uint64 /\ r.size \in Sizes /\ Sizes \subseteq Nat
  BY BlockAssumption, LimbIs DEF RequestRight
<1>4. k \in Nat /\ b \in Nat /\ e \in Nat /\ Len(s.out) \in Nat /\ r.size \in Nat
  <2>1. Len(s.out) \in Nat
    BY <1>2
  <2>2. k \in Nat /\ b \in Nat /\ e \in Nat
    BY <1>2, <1>3, ValueIs
  <2> HIDE DEF k, b, e
  <2> QED
    BY <1>3, <2>1, <2>2
<1>5. Cmp64(s.block, s.end_block) > 0 <=> k > e
  BY <1>2, <1>3, Compares
<1>6. CASE k = e + 1
  <2>1. Round(s) = s
    <3> HIDE DEF k, e
    <3>1. k > e
      BY <1>4, <1>6
    <3> QED
      BY <1>5, <3>1 DEF Round
  <2> QED
    BY <1>1, <1>6, <2>1 DEF Delivering
<1>7. CASE k <= e /\ Len(s.out) < r.size
  <2>1. ~(k > e) /\ ~(Len(s.out) >= r.size)
    <3> DEFINE l == Len(s.out)
               z == r.size
    <3>1. k <= e /\ l < z /\ k \in Nat /\ e \in Nat /\ l \in Nat /\ z \in Nat
      BY <1>4, <1>7
    <3> HIDE DEF k, e, l, z
    <3>2. ~(k > e) /\ ~(l >= z)
      BY <3>1
    <3> QED
      BY <3>2 DEF l, z
  <2>2. Round(s) = d
    BY <1>2, <1>5, <2>1 DEF Round
  <2>3. /\ DOMAIN g = Fields /\ g.cache = s.cache /\ g.content = s.content
        /\ g.tmp = s.tmp /\ g.size = s.size /\ g.end_block = s.end_block
        /\ g.block = s.block /\ g.out = s.out /\ g.position = s.position
        /\ g.stale = (s.stale \/ found = None)
        /\ g.dropped = (s.dropped \/ (s.used = None /\ found # None))
    BY <1>2 DEF Fields
  <2>4. from \in Buffer /\ (found # None => found \in Slot)
    <3>1. CASE found = None
      BY <1>2, <3>1
    <3>2. CASE found # None
      <4>1. found \in Slot /\ s.cache[found].buffer # Null
        BY <3>2, SlotFound
      <4> HIDE DEF found
      <4>2. s.cache[found].buffer \in Buffer \cup {Null}
        BY <1>2, <4>1 DEF Caches
      <4> QED
        BY <3>2, <4>1, <4>2
    <3> QED
      BY <3>1, <3>2
  <2> HIDE DEF g, from, found
  <2>5. State(r, p, g, 0)
    <3>1. g.stale \in BOOLEAN /\ g.dropped \in BOOLEAN
      BY <2>3
    <3> QED
      BY <1>1, <2>3, <3>1 DEF State
  <2>6. ~s.stale /\ found # None => Right(r, g) /\ g.content[from] = Value(g.block)
    <3> SUFFICES ASSUME ~s.stale, found # None
                 PROVE  Right(r, g) /\ g.content[from] = Value(g.block)
      OBVIOUS
    <3>1. Right(r, s)
      BY <1>1
    <3>2. Right(r, g)
      BY <2>3, <3>1 DEF Right
    <3>3. s.cache[found].buffer # Null /\ Cmp64(s.block, s.cache[found].block) = 0
      BY SlotFound DEF found
    <3>4. s.cache[found].block \in Uint64 /\ from = s.cache[found].buffer
      BY <1>2, <2>4 DEF Caches, from
    <3>5. Value(s.block) = Value(s.cache[found].block)
      BY <1>2, <3>3, <3>4, Compares
    <3>6. s.content[from] = Value(s.cache[found].block)
      BY <2>4, <3>1, <3>3, <3>4 DEF Right, Holds
    <3> QED
      BY <2>3, <3>2, <3>5, <3>6
  <2>7. d = Copy(g, found, from, 0)
    OBVIOUS
  <2> HIDE DEF d
  <2>8. 0 \in 0..(BlockSize - 1) /\ Value(g.block) <= Value(r.end_block)
    BY <1>7, <2>3, DeviceIs
  <2>9. /\ State(r, p, d, 0) /\ Value(d.block) = Value(g.block) + 1
        /\ Right(r, g) /\ g.content[from] = Value(g.block) => Right(r, d)
    BY <2>4, <2>5, <2>7, <2>8, CopyState
  <2>10. d.stale = g.stale
    BY <2>3, <2>7, CopyFields
  <2>11. /\ Value(d.block) = k + 1 /\ (d.stale <=> s.stale \/ found = None)
    BY <2>3, <2>9, <2>10
  <2>12. Value(d.block) > b /\ Value(d.block) > b + (i + 1) /\ b < e
    <3>1. k > b + i /\ k \in Nat /\ b \in Nat /\ e \in Nat /\ i \in Nat /\ k <= e
      <4>1. k <= e /\ k \in Nat /\ e \in Nat /\ b \in Nat
        BY <1>4, <1>7
      <4>2. k > b + i \/ k = e + 1
        BY <1>1
      <4> HIDE DEF k, e, b
      <4> QED
        BY <4>1, <4>2
    <3>2. Value(d.block) = k + 1
      BY <2>11
    <3> HIDE DEF k, e, b
    <3> QED
      BY <3>1, <3>2
  <2>13. ~d.stale => Right(r, d)
    BY <2>6, <2>9, <2>11
  <2> QED
    BY <2>2, <2>9, <2>12, <2>13 DEF Delivering
<1> QED
  BY <1>2, <1>6, <1>7

(* The buffers keep the blocks of their slots, and the handle moves by the  *)
(* size of the read.  What was copied is what was asked for, unless it is   *)
(* stale; only a read that runs from one block into another can be.         *)
Delivered(r, s) ==
    /\ s.cache \in Caches /\ s.content \in Contents /\ s.tmp \in Buffer
    /\ s.stale \in BOOLEAN /\ s.dropped \in BOOLEAN
    /\ s.position \in Uint64
    /\ Value(s.position) = Value(handle_position[r.handle]) + r.size
    /\ s.out \in Seq({Junk} \cup Address) /\ Len(s.out) = r.size
    /\ s.stale => Value(r.block) # Value(r.end_block)
    /\ ~s.stale => \A i \in 1..r.size : s.out[i] = Value(r.from) + i - 1

LEMMA LoopDelivers ==
    ASSUME NEW r, RequestRight(r), stale = FALSE,
           NEW slot, NEW tmp \in Buffer, NEW c \in Contents,
           cached_block \in Caches, dropped \in BOOLEAN,
           Holds(cached_block, c), c[tmp] = Value(r.block),
           handle_position[r.handle] \in Uint64,
           Value(handle_position[r.handle]) + r.size < Top
    PROVE  Delivered(r, Loop(r, slot, tmp, c))
<1> DEFINE p     == Value(handle_position[r.handle])
           first == Copy(Start(r, slot, tmp, c), slot, tmp, r.part_begin)
           after == After(first)
           s     == Loop(r, slot, tmp, c)
<1>1. s = after[Blocks]
  BY DEF Loop, Start, After
<1>2. p \in Nat
  BY ValueIs
<1>3. Delivering(r, p, first, 0)
  <2>1. p = Value(handle_position[r.handle])
    OBVIOUS
  <2> HIDE DEF p
  <2> QED
    BY <1>2, <2>1, FirstDelivers
<1>4. p + r.size < Top
  OBVIOUS
<1> HIDE DEF first, p, s
<1>5. /\ after[0] = first
      /\ \A i \in 1..Blocks : after[i] = Round(after[i - 1])
  BY LoopRounds
<1> HIDE DEF after
<1> DEFINE Bad == {i \in 0..Blocks : ~ Delivering(r, p, after[i], i)}
<1>6. Bad = {}
  <2> SUFFICES ASSUME Bad # {} PROVE FALSE
    OBVIOUS
  <2>1. Bad \in SUBSET Nat
    BY SlotsTyped
  <2>2. PICK i \in Bad : \A j \in Bad : i <= j
    BY <2>1, Least
  <2>3. i \in 0..Blocks /\ i \in Nat /\ i # 0
    BY <1>3, <1>5, <2>2, SlotsTyped
  <2>4. i \in 1..Blocks /\ i - 1 \in 0..Blocks /\ i - 1 \in Nat /\ ~ (i <= i - 1)
        /\ (i - 1) + 1 = i
    BY <2>3, SlotsTyped
  <2>5. i - 1 \notin Bad
    <3> HIDE DEF Bad
    <3> QED
      BY <2>2, <2>4
  <2>6. Delivering(r, p, after[i - 1], i - 1)
    BY <2>4, <2>5
  <2>7. Delivering(r, p, Round(after[i - 1]), (i - 1) + 1)
    BY <1>2, <1>4, <2>4, <2>6, RoundDelivers
  <2>8. Delivering(r, p, after[i], i)
    BY <1>5, <2>4, <2>7
  <2> QED
    BY <2>2, <2>8
<1>7. Delivering(r, p, s, Blocks)
  BY <1>1, <1>6, SlotsTyped
<1>8. /\ State(r, p, s, 0) /\ (s.stale => Value(r.block) < Value(r.end_block))
      /\ (~s.stale => Right(r, s))
      /\ Value(s.block) > Value(r.block) + Blocks \/ Value(s.block) = Value(r.end_block) + 1
  BY <1>7 DEF Delivering
<1>9. Value(r.block) \in Nat /\ Value(r.end_block) \in 0..(Blocks - 1) /\ Blocks \in Nat
  <2> DEFINE f == Value(r.from)
             e == Value(r.end_block)
             b == Value(r.block)
  <2>1. f = Value(r.from) /\ e = Value(r.end_block) /\ b = Value(r.block)
    OBVIOUS
  <2> HIDE DEF f, e, b
  <2>2. b \in 0..(Blocks - 1) /\ e \in 0..(Blocks - 1)
    BY <2>1, RequestIs
  <2>3. b \in Nat /\ Blocks \in Nat
    BY <2>2, DeviceIs
  <2> QED
    BY <2>2, <2>3 DEF b, e
<1>10. Len(s.out) = r.size
  <2> DEFINE k == Value(s.block)
             e == Value(r.end_block)
             b == Value(r.block)
  <2>1. k \in Nat
    BY <1>8, ValueIs DEF State
  <2>2. k <= e \/ (k = e + 1 /\ Len(s.out) = r.size)
    BY <1>8 DEF State
  <2>3. k > b + Blocks \/ k = e + 1
    BY <1>8
  <2>4. b \in Nat /\ e \in 0..(Blocks - 1) /\ Blocks \in Nat
    BY <1>9
  <2> HIDE DEF k, e, b
  <2> QED
    BY <2>1, <2>2, <2>3, <2>4
<1>11. s.stale => Value(r.block) # Value(r.end_block)
  BY <1>8, <1>9
<1>12. ~s.stale => \A i \in 1..r.size : s.out[i] = Value(r.from) + i - 1
  BY <1>8, <1>10 DEF Right
<1> QED
  BY <1>8, <1>10, <1>11, <1>12 DEF State, p, s, Delivered

-----------------------------------------------------------------------------
(* The cache *)

Functions ==
    /\ cached_block = [s \in Slot |-> cached_block[s]]
    /\ locals = [t \in Task |-> locals[t]]
    /\ content = [b \in Buffer |-> content[b]]

(* A buffer of the cache or of a read is malloc'ed, and is in no other slot *)
(* and of no other read.                                                    *)
Owned ==
    /\ allocated \subseteq Buffer
    /\ \A s \in Cached : cached_block[s].buffer \in allocated
    /\ \A t \in Busy : locals[t].tmp \in allocated
    /\ \A s \in Cached, t \in Busy : cached_block[s].buffer # locals[t].tmp
    /\ \A r, s \in Cached : cached_block[r].buffer = cached_block[s].buffer => r = s
    /\ \A t, u \in Busy : locals[t].tmp = locals[u].tmp => t = u

Coherent ==
    \A s \in Cached : content[cached_block[s].buffer] = Value(cached_block[s].block)

(* No buffer is lost.                                                       *)
NoneLost ==
    ~dropped => \A b \in allocated :
        \/ \E s \in Cached : cached_block[s].buffer = b
        \/ \E t \in Busy : locals[t].tmp = b

(* What holds until the first stale copy, which ends the model.             *)
BlockInv == ~stale => Functions /\ Owned /\ Coherent /\ NoneLost

LEMMA InitBlockInv == Init => BlockInv
<1> SUFFICES ASSUME Init PROVE BlockInv
  OBVIOUS
<1>1. Cached = {} /\ Busy = {} /\ allocated = {}
  BY DEF Init, Cached, Busy
<1>2. Functions
  BY DEF Init, Functions
<1> QED
  BY <1>1, <1>2 DEF BlockInv, Owned, Coherent, NoneLost

(* file_seek changes nothing of this.                                       *)
LEMMA SeekStep ==
    ASSUME BlockInv, UNCHANGED <<cached_block, allocated, content, locals, stale, dropped>>
    PROVE  BlockInv'
BY DEF BlockInv, Functions, Owned, Coherent, NoneLost, Cached, Busy

(* A read that finds its block in the cache changes no buffer.              *)
LEMMA HitStep ==
    ASSUME BlockInv, NEW t \in Task, NEW h \in Handle, NEW n \in Sizes, ReadHit(t, h, n)
    PROVE  BlockInv'
<1> DEFINE r    == Enter(h, n)
           slot == SlotOf(cached_block, r.block)
           tmp  == cached_block[slot].buffer
           s    == Loop(r, slot, tmp, content)
<1>1. ~stale /\ slot # None /\ Finish(r, s) /\ locals' = locals
  BY DEF ReadHit, Starts
<1>2. Kept(r, slot, tmp, content, s)
  BY LoopKeeps
<1> HIDE DEF r, slot, tmp, s
<1> SUFFICES ASSUME ~stale' PROVE (Functions /\ Owned /\ Coherent /\ NoneLost)'
  BY DEF BlockInv
<1>3. Functions /\ Owned /\ Coherent /\ NoneLost
  BY <1>1 DEF BlockInv
<1>4. /\ cached_block' = s.cache /\ stale' = s.stale /\ dropped' = s.dropped
      /\ allocated' = IF s.used = None THEN Freed(s.tmp) ELSE allocated
      /\ content' = [b \in Buffer |-> IF b \in allocated' THEN s.content[b] ELSE Junk]
  BY <1>1 DEF Finish
<1>5. Put(slot) = None
  BY <1>1 DEF Put
<1>6. /\ cached_block' = cached_block /\ allocated' = allocated
      /\ s.content = content /\ (~dropped' => ~dropped)
  BY <1>1, <1>2, <1>4, <1>5 DEF Kept, Cache
<1>7. Cached' = Cached /\ Busy' = Busy
  BY <1>1, <1>6 DEF Cached, Busy
<1>8. Functions'
  BY <1>1, <1>3, <1>4, <1>6 DEF Functions
<1>9. Owned'
  BY <1>1, <1>3, <1>6, <1>7 DEF Owned
<1>10. Coherent'
  BY <1>3, <1>4, <1>6, <1>7 DEF Coherent, Owned
<1>11. NoneLost'
  BY <1>1, <1>3, <1>6, <1>7 DEF NoneLost
<1> QED
  BY <1>8, <1>9, <1>10, <1>11

(* One that does not takes a buffer that nobody has.                        *)
LEMMA MissStep ==
    ASSUME BlockInv, NEW t \in Task, NEW h \in Handle, NEW n \in Sizes, ReadMiss(t, h, n)
    PROVE  BlockInv'
<1> DEFINE r == Enter(h, n)
           l(b) == [handle |-> h, from |-> r.from, size |-> n, block |-> r.block,
                    end_block |-> r.end_block, part_begin |-> r.part_begin, tmp |-> b]
<1>1. PICK b \in Buffer \ allocated :
        allocated' = allocated \cup {b} /\ locals' = [locals EXCEPT ![t] = l(b)]
  BY DEF ReadMiss
<1>2. /\ ~stale /\ locals[t] = Idle
      /\ UNCHANGED <<cached_block, content, stale, dropped>>
  BY DEF ReadMiss, Starts
<1>3. l(b) # Idle /\ l(b).tmp = b
  <2>1. "tmp" \in DOMAIN l(b) /\ "tmp" \notin DOMAIN Idle
    BY DEF Idle
  <2> QED
    BY <2>1
<1> HIDE DEF r, l
<1>4. Functions /\ Owned /\ Coherent /\ NoneLost
  BY <1>2 DEF BlockInv
<1>5. /\ locals' = [u \in Task |-> locals'[u]]
      /\ locals'[t].tmp = b /\ locals'[t] # Idle
      /\ \A u \in Task \ {t} : locals'[u] = locals[u]
  BY <1>1, <1>3, <1>4 DEF Functions
<1>6. Cached' = Cached /\ Busy' = Busy \cup {t} /\ t \notin Busy
  BY <1>2, <1>5 DEF Cached, Busy
<1>7. Functions'
  BY <1>2, <1>4, <1>5 DEF Functions
<1>8. Owned'
  <2>1. \A u \in Busy : u \in Task \ {t} /\ locals'[u] = locals[u]
    BY <1>5, <1>6 DEF Busy
  <2> QED
    BY <1>1, <1>2, <1>4, <1>5, <1>6, <2>1 DEF Owned
<1>9. Coherent'
  BY <1>2, <1>4, <1>6 DEF Coherent
<1>10. NoneLost'
  <2>1. \A u \in Busy : u \in Task \ {t} /\ locals'[u] = locals[u]
    BY <1>5, <1>6 DEF Busy
  <2> QED
    BY <1>1, <1>2, <1>4, <1>5, <1>6, <2>1 DEF NoneLost
<1> QED
  BY <1>7, <1>8, <1>9, <1>10 DEF BlockInv

(* The driver has read the block: tmp goes into the free slot, or is freed. *)
LEMMA DoneStep ==
    ASSUME BlockInv, NEW t \in Task, ReadDone(t)
    PROVE  BlockInv'
<1> DEFINE r   == locals[t]
           tmp == r.tmp
           c   == [content EXCEPT ![tmp] = Value(r.block)]
           s   == Loop(r, None, tmp, c)
           put == Put(None)
<1>1. /\ ~stale /\ r # Idle /\ Finish(r, s)
      /\ locals' = [locals EXCEPT ![t] = Idle]
  BY DEF ReadDone
<1>2. Kept(r, None, tmp, c, s)
  BY LoopKeeps
<1> SUFFICES ASSUME ~stale' PROVE (Functions /\ Owned /\ Coherent /\ NoneLost)'
  BY DEF BlockInv
<1>3. Functions /\ Owned /\ Coherent /\ NoneLost
  BY <1>1 DEF BlockInv
<1>4. t \in Busy
  BY <1>1 DEF Busy
<1>5. /\ tmp \in allocated /\ tmp \in Buffer /\ tmp # Null
      /\ \A q \in Cached : cached_block[q].buffer # tmp
      /\ \A u \in Busy : u # t => locals[u].tmp # tmp
  BY <1>3, <1>4, BlockAssumption DEF Owned
<1>6. c[tmp] = Value(r.block) /\ \A b \in Buffer : b # tmp => c[b] = content[b]
  BY <1>3, <1>5 DEF Functions
<1> HIDE DEF s
<1>7. /\ cached_block' = s.cache /\ stale' = s.stale /\ dropped' = s.dropped
      /\ allocated' = IF s.used = None THEN Freed(s.tmp) ELSE allocated
      /\ content' = [b \in Buffer |-> IF b \in allocated' THEN s.content[b] ELSE Junk]
  BY <1>1 DEF Finish
<1>8. /\ locals' = [u \in Task |-> locals'[u]]
      /\ locals'[t] = Idle
      /\ \A u \in Task \ {t} : locals'[u] = locals[u]
  BY <1>1, <1>3 DEF Functions
<1>9. Busy' = Busy \ {t} /\ \A u \in Busy' : locals'[u] = locals[u]
  BY <1>4, <1>8 DEF Busy
<1> HIDE DEF r, tmp, c, put
<1>10. /\ s.content = c /\ s.cache = Cache(r, None, tmp)
       /\ s.used = None => put = None /\ s.tmp = tmp
       /\ put = None /\ ~dropped' => s.used = None
       /\ ~dropped' => ~dropped
  BY <1>2, <1>7 DEF Kept, put
<1>11. /\ allocated' \subseteq allocated
       /\ allocated \ {tmp} \subseteq allocated'
       /\ put # None => tmp \in allocated'
       /\ put = None /\ ~dropped' => tmp \notin allocated'
  BY <1>5, <1>7, <1>10 DEF Freed
<1>12. \A b \in allocated' : content'[b] = IF b = tmp THEN Value(r.block) ELSE content[b]
  <2>1. allocated' \subseteq Buffer
    BY <1>3, <1>11 DEF Owned
  <2> QED
    BY <1>6, <1>7, <1>10, <2>1
<1>13. content' = [b \in Buffer |-> content'[b]]
  BY <1>7
<1>14. CASE put = None
  <2>1. cached_block' = cached_block /\ Cached' = Cached
    BY <1>7, <1>10, <1>14 DEF Cache, Cached, put
  <2>2. Functions'
    BY <1>3, <1>8, <1>13, <2>1 DEF Functions
  <2>3. Owned'
    BY <1>3, <1>5, <1>9, <1>11, <2>1 DEF Owned
  <2>4. Coherent'
    BY <1>3, <1>5, <1>12, <2>1, <2>3 DEF Coherent, Owned
  <2>5. NoneLost'
    BY <1>3, <1>9, <1>10, <1>11, <1>14, <2>1 DEF NoneLost, tmp, r
  <2> QED
    BY <2>2, <2>3, <2>4, <2>5
<1>15. CASE put # None
  <2>1. put \in Slot /\ cached_block[put].buffer = Null
    BY <1>15, SlotFree DEF put, Put
  <2>2. cached_block' = [cached_block EXCEPT ![put] = [block |-> r.block, buffer |-> tmp]]
    BY <1>7, <1>10, <1>15 DEF Cache, put
  <2>3. /\ cached_block' = [q \in Slot |-> cached_block'[q]]
        /\ cached_block'[put].buffer = tmp /\ cached_block'[put].block = r.block
        /\ \A q \in Slot \ {put} : cached_block'[q] = cached_block[q]
    BY <1>3, <2>1, <2>2 DEF Functions
  <2>4. Cached' = Cached \cup {put} /\ put \notin Cached
    BY <1>5, <2>1, <2>3 DEF Cached
  <2>5. \A q \in Cached : cached_block'[q] = cached_block[q]
    BY <2>3, <2>4 DEF Cached
  <2>6. Functions'
    BY <1>8, <1>13, <2>3 DEF Functions
  <2>7. Owned'
    BY <1>3, <1>5, <1>9, <1>11, <1>15, <2>3, <2>4, <2>5 DEF Owned
  <2>8. Coherent'
    BY <1>3, <1>5, <1>12, <2>3, <2>4, <2>5, <2>7 DEF Coherent, Owned
  <2>9. NoneLost'
    BY <1>3, <1>9, <1>10, <1>11, <2>3, <2>4, <2>5 DEF NoneLost, tmp, r
  <2> QED
    BY <2>6, <2>7, <2>8, <2>9
<1> QED
  BY <1>14, <1>15

LEMMA StepBlockInv == BlockInv /\ [Next]_vars => BlockInv'
<1> SUFFICES ASSUME BlockInv, [Next]_vars PROVE BlockInv'
  OBVIOUS
<1>1. CASE UNCHANGED vars
  BY <1>1, SeekStep DEF vars
<1>2. ASSUME NEW h \in Handle, NEW p \in 0..(Length - 1), FileSeek(h, Position(p))
      PROVE  BlockInv'
  BY <1>2, SeekStep DEF FileSeek
<1>3. CASE \E t \in Task, h \in Handle, n \in Sizes :
             ReadHit(t, h, n) \/ ReadMiss(t, h, n)
  BY <1>3, HitStep, MissStep
<1>4. CASE \E t \in Task : ReadDone(t)
  BY <1>4, DoneStep
<1> QED
  BY <1>1, <1>2, <1>3, <1>4 DEF Next

LEMMA Invariance == Spec => []BlockInv
<1> QED
  BY InitBlockInv, StepBlockInv, PTL DEF Spec

(* Whatever reads of the tasks overlap, and also when two of them miss the  *)
(* same block and both put it into the cache, a buffer in the cache is      *)
(* malloc'ed and holds the block of its slot: blockfile_read never hands    *)
(* out an old block, until it copies from the buffer of the block before.   *)
THEOREM CacheRight == Spec => []CacheCoherent
<1>1. BlockInv => CacheCoherent
  BY DEF BlockInv, CacheCoherent, Owned, Coherent
<1> QED
  BY <1>1, Invariance, PTL

(* The malloc's and free's of blockfile_read are paired: what is malloc'ed  *)
(* is in one slot of the cache or belongs to one read that sleeps, until a  *)
(* read forgets its own buffer for one that another task put into the cache *)
(* meanwhile.                                                               *)
THEOREM AllAccounted == Spec => []BuffersAccounted
<1>1. ASSUME BlockInv, ~stale, ~dropped
      PROVE  /\ allocated = InCache \cup Tmps
             /\ InCache \cap Tmps = {}
             /\ \A r, s \in Cached : cached_block[r].buffer = cached_block[s].buffer => r = s
             /\ \A t, u \in Busy : locals[t].tmp = locals[u].tmp => t = u
  <2>1. Owned /\ NoneLost
    BY <1>1 DEF BlockInv
  <2>2. allocated = InCache \cup Tmps
    BY <1>1, <2>1 DEF Owned, NoneLost, InCache, Tmps
  <2>3. InCache \cap Tmps = {}
    BY <2>1 DEF Owned, InCache, Tmps
  <2> QED
    BY <2>1, <2>2, <2>3 DEF Owned
<1>2. BlockInv => BuffersAccounted
  BY <1>1 DEF BuffersAccounted
<1> QED
  BY <1>2, Invariance, PTL

-----------------------------------------------------------------------------
(* blockfile_read implements ByteFile.                                      *)

(* The calls that sleep and will move the handle h.  Each leaves room for   *)
(* its size below the largest number.                                       *)
On(h) == {t \in Busy : locals[t].handle = h}

Room == \A h \in Handle : Value(handle_position[h]) + Limb * Cardinality(On(h))
                            <= Length + Limb * Cardinality(Task)

ReadInv == TypeOK /\ Room /\ \A t \in Busy : RequestRight(locals[t])

Asked(r) == [handle |-> r.handle, from |-> Value(r.from), size |-> r.size]

(* What a read of r that ends leaves.                                       *)
Ended(r) ==
    /\ handle_position' \in [Handle -> Uint64]
    /\ \A h \in Handle : Value(handle_position'[h]) =
            IF h = r.handle THEN Value(handle_position[h]) + r.size
                            ELSE Value(handle_position[h])
    /\ cached_block' \in Caches /\ allocated' \subseteq Buffer /\ content' \in Contents
    /\ out' \in Seq({Junk} \cup Address)
    /\ stale' \in BOOLEAN /\ dropped' \in BOOLEAN
    /\ Promise!Delivers(Asked(r))

LEMMA TypesAre ==
    TypeOK <=> /\ handle_position \in [Handle -> Uint64]
               /\ cached_block \in Caches
               /\ allocated \subseteq Buffer
               /\ content \in Contents
               /\ locals \in [Task -> Locals \cup {Idle}]
               /\ out \in Seq({Junk} \cup Address)
               /\ stale \in BOOLEAN /\ dropped \in BOOLEAN
BY DEF TypeOK, Caches, Contents, Address

LEMMA TypesAreAfter ==
    TypeOK' <=> /\ handle_position' \in [Handle -> Uint64]
                /\ cached_block' \in Caches
                /\ allocated' \subseteq Buffer
                /\ content' \in Contents
                /\ locals' \in [Task -> Locals \cup {Idle}]
                /\ out' \in Seq({Junk} \cup Address)
                /\ stale' \in BOOLEAN /\ dropped' \in BOOLEAN
BY DEF TypeOK, Caches, Contents, Address

LEMMA FinishEnds ==
    ASSUME TypeOK, stale = FALSE, NEW r, RequestRight(r),
           NEW slot, NEW tmp \in Buffer, NEW c \in Contents,
           Holds(cached_block, c), c[tmp] = Value(r.block),
           Value(handle_position[r.handle]) + r.size < Top,
           Finish(r, Loop(r, slot, tmp, c))
    PROVE  Ended(r)
<1> DEFINE s == Loop(r, slot, tmp, c)
           f == Value(r.from)
<1>1. s = Loop(r, slot, tmp, c)
  OBVIOUS
<1>2. /\ handle_position \in [Handle -> Uint64] /\ cached_block \in Caches
      /\ allocated \subseteq Buffer /\ dropped \in BOOLEAN
  BY TypesAre
<1>3. r.handle \in Handle /\ r.size \in Sizes /\ handle_position[r.handle] \in Uint64
  BY <1>2 DEF RequestRight
<1>4. /\ handle_position' = [handle_position EXCEPT ![r.handle] = s.position]
      /\ cached_block' = s.cache
      /\ allocated' = IF s.used = None THEN Freed(s.tmp) ELSE allocated
      /\ content' = [b \in Buffer |-> IF b \in allocated' THEN s.content[b] ELSE Junk]
      /\ out' = s.out /\ stale' = s.stale /\ dropped' = s.dropped
  BY DEF Finish
<1> HIDE DEF s
<1>5. /\ s.cache \in Caches /\ s.content \in Contents /\ s.tmp \in Buffer
      /\ s.stale \in BOOLEAN /\ s.dropped \in BOOLEAN
      /\ s.position \in Uint64
      /\ Value(s.position) = Value(handle_position[r.handle]) + r.size
      /\ s.out \in Seq({Junk} \cup Address) /\ Len(s.out) = r.size
      /\ s.stale => Value(r.block) # Value(r.end_block)
      /\ ~s.stale => \A i \in 1..r.size : s.out[i] = Value(r.from) + i - 1
  <2>1. Delivered(r, s)
    BY <1>1, <1>2, <1>3, LoopDelivers
  <2> QED
    BY <2>1 DEF Delivered
<1>6. handle_position' \in [Handle -> Uint64]
  BY <1>2, <1>4, <1>5
<1>7. \A h \in Handle : Value(handle_position'[h]) =
            IF h = r.handle THEN Value(handle_position[h]) + r.size
                            ELSE Value(handle_position[h])
  BY <1>2, <1>3, <1>4, <1>5
<1>8. allocated' \subseteq Buffer /\ content' \in Contents
  BY <1>2, <1>4, <1>5 DEF Freed, Contents
<1>9. Promise!Delivers(Asked(r))
  <2>1. Asked(r).from = f /\ Asked(r).size = r.size
    BY DEF Asked
  <2>2. stale' => f \div BlockSize # (f + r.size - 1) \div BlockSize
    BY <1>4, <1>5 DEF RequestRight
  <2>3. stale' => Promise!Spans(Asked(r))
    BY <2>1, <2>2 DEF Promise!Spans
  <2>4. out' \in [1..r.size -> (0..(Length - 1)) \cup {Junk}]
    <3> DEFINE S == {Junk} \cup Address
    <3>1. s.out \in Seq(S) /\ Len(s.out) = r.size
      BY <1>5
    <3>2. S = (0..(Length - 1)) \cup {Junk}
      BY DEF Address
    <3> HIDE DEF S
    <3>3. s.out \in [1..r.size -> S]
      BY <3>1
    <3> QED
      BY <1>4, <3>2, <3>3
  <2>5. ~stale' => out' = [i \in 1..r.size |-> f + i - 1]
    <3> HIDE DEF f
    <3>1. out' = [i \in 1..r.size |-> out'[i]]
      BY <2>4
    <3>2. ~stale' => \A i \in 1..r.size : out'[i] = f + i - 1
      BY <1>4, <1>5 DEF f
    <3> QED
      BY <3>1, <3>2
  <2> HIDE DEF f
  <2>6. Promise!Junk = Junk
    BY DEF Promise!Junk, Junk
  <2> QED
    BY <2>1, <2>3, <2>4, <2>5, <2>6 DEF Promise!Delivers
<1> QED
  BY <1>4, <1>5, <1>6, <1>7, <1>8, <1>9 DEF Ended

(* What holds of the cache and what holds of the reads.                     *)
Both == BlockInv /\ ReadInv

LEMMA LimbTimes ==
    ASSUME NEW x \in Nat, NEW y \in Nat, x <= y
    PROVE  /\ Limb * x \in Nat /\ Limb * y \in Nat /\ Limb * x <= Limb * y
           /\ Limb * (x + 1) = Limb * x + Limb
<1>1. Limb \in Nat
  BY LimbIs
<1> HIDE DEF Limb
<1>2. PICK d \in Nat : y = x + d
  <2>1. y - x \in Nat /\ y = x + (y - x)
    OBVIOUS
  <2> QED
    BY <2>1
<1>3. Limb * y = Limb * x + Limb * d
  BY <1>1, <1>2
<1>4. Limb * x \in Nat /\ Limb * d \in Nat
  BY <1>1, TimesNat
<1> QED
  BY <1>1, <1>3, <1>4

LEMMA SomeTasks ==
    ASSUME NEW S \in SUBSET Task
    PROVE  /\ IsFiniteSet(S) /\ Cardinality(S) \in Nat /\ Cardinality(Task) \in Nat
           /\ Cardinality(S) <= Cardinality(Task) /\ Cardinality(Task) <= Limb
           /\ Limb * Cardinality(S) <= Limb * Cardinality(Task)
           /\ Limb * Cardinality(S) \in Nat
           /\ Limb * Cardinality(Task) \in Nat
<1>1. /\ IsFiniteSet(S) /\ Cardinality(S) \in Nat /\ Cardinality(Task) \in Nat
      /\ Cardinality(S) <= Cardinality(Task) /\ Cardinality(Task) <= Limb
  BY BlockAssumption, FS_Subset, FS_CardinalityType
<1> QED
  BY <1>1, LimbTimes

LEMMA TasksBelowTop == Length + Limb * Cardinality(Task) <= Top
<1> DEFINE m == Cardinality(Task)
<1>1. m \in Nat /\ m <= Limb /\ Limb \in Nat
  BY SomeTasks, LimbIs
<1> HIDE DEF m
<1>2. Limb * m <= Limb * Limb /\ Limb * m \in Nat /\ Limb * Limb \in Nat
  BY <1>1, LimbTimes
<1>3. Length + Limb * m <= Top
  BY <1>2, TopIs, DeviceIs
<1> QED
  BY <1>3 DEF m

LEMMA RoomInside ==
    ASSUME NEW p \in Nat, p <= Length, NEW S \in SUBSET Task
    PROVE  p + Limb * Cardinality(S) <= Length + Limb * Cardinality(Task)
<1> DEFINE x == Limb * Cardinality(S)
           y == Limb * Cardinality(Task)
<1>1. x \in Nat /\ y \in Nat /\ x <= y /\ Length \in Nat
  BY SomeTasks, DeviceIs
<1> HIDE DEF x, y
<1>2. p + x <= Length + y
  BY <1>1
<1> QED
  BY <1>2 DEF x, y

(* Nobody sleeps, and every handle is at the first byte.                    *)
LEMMA WordZero == Word(0) \in Uint64 /\ Value(Word(0)) = 0
<1>1. 0 \in Digit
  BY LimbIs DEF Digit
<1>2. /\ Word(0) = Quad(0, 0, 0, 0) /\ Limb \in Nat
  BY LimbIs DEF Word, Init64
<1>3. Word(0) \in Uint64 /\ Value(Word(0)) = 0 + Limb * (0 + Limb * (0 + Limb * 0))
  BY <1>1, <1>2, QuadIs
<1> HIDE DEF Limb
<1> QED
  BY <1>2, <1>3

LEMMA InitReads == Init => ReadInv /\ Promise!Init
<1> SUFFICES ASSUME Init PROVE ReadInv /\ Promise!Init
  OBVIOUS
<1>1. Busy = {} /\ handle_position = [h \in Handle |-> Word(0)]
      /\ locals = [t \in Task |-> Idle] /\ out = <<>> /\ stale = FALSE
  BY DEF Init, Busy
<1>2. \A h \in Handle : Value(handle_position[h]) = 0
  BY <1>1, WordZero
<1>3. TypeOK
  <2>1. cached_block \in Caches /\ content \in Contents
    BY WordZero DEF Init, Caches, Contents
  <2>2. handle_position \in [Handle -> Uint64]
    BY <1>1, WordZero
  <2>3. locals \in [Task -> Locals \cup {Idle}]
    BY <1>1
  <2>4. allocated \subseteq Buffer /\ out \in Seq({Junk} \cup Address)
        /\ stale \in BOOLEAN /\ dropped \in BOOLEAN
    <3> DEFINE S == {Junk} \cup Address
    <3> HIDE DEF S
    <3>1. <<>> \in Seq(S)
      OBVIOUS
    <3>2. out \in Seq(S)
      BY <1>1, <3>1
    <3> QED
      BY <3>2 DEF Init, S
  <2> QED
    BY <2>1, <2>2, <2>3, <2>4, TypesAre
<1>4. Room
  <2>1. ASSUME NEW h \in Handle
        PROVE  Value(handle_position[h]) + Limb * Cardinality(On(h))
                   <= Length + Limb * Cardinality(Task)
    BY <1>2, RoomInside, DeviceIs DEF On, Busy
  <2> QED
    BY <2>1 DEF Room
<1>5. Promise!Init
  BY <1>1, <1>2 DEF Promise!Init, Promise!Idle, Idle, Promise!Nothing
<1> QED
  BY <1>1, <1>3, <1>4, <1>5 DEF ReadInv

LEMMA SeekReads ==
    ASSUME ReadInv, NEW h \in Handle, NEW p \in 0..(Length - 1), FileSeek(h, Position(p))
    PROVE  ReadInv' /\ Promise!Seek(h, p)
<1>1. TypeOK /\ Room /\ \A t \in Busy : RequestRight(locals[t])
  BY DEF ReadInv
<1>2. /\ handle_position' = [handle_position EXCEPT ![h] = Position(p)] /\ out' = <<>>
      /\ UNCHANGED <<cached_block, allocated, content, locals, stale, dropped>>
  BY DEF FileSeek
<1>3. Position(p) \in Uint64 /\ Value(Position(p)) = p
  BY PositionIs
<1>4. /\ handle_position \in [Handle -> Uint64] /\ handle_position' \in [Handle -> Uint64]
      /\ \A g \in Handle : handle_position'[g] = IF g = h THEN Position(p)
                                                          ELSE handle_position[g]
  BY <1>1, <1>2, <1>3, TypesAre
<1>5. \A g \in Handle : Value(handle_position'[g]) = IF g = h THEN p
                                                     ELSE Value(handle_position[g])
  BY <1>3, <1>4
<1>6. Busy' = Busy /\ \A g : On(g)' = On(g)
  BY <1>2 DEF Busy, On
<1>7. TypeOK'
  <2> DEFINE S == {Junk} \cup Address
  <2> HIDE DEF S
  <2>1. out' \in Seq(S)
    BY <1>2
  <2>2. /\ cached_block' \in Caches /\ content' \in Contents
        /\ locals' \in [Task -> Locals \cup {Idle}]
        /\ allocated' \subseteq Buffer /\ stale' \in BOOLEAN /\ dropped' \in BOOLEAN
    BY <1>1, <1>2, TypesAre
  <2> QED
    BY <1>4, <2>1, <2>2, TypesAreAfter DEF S
<1>8. Room'
  <2>1. ASSUME NEW g \in Handle
        PROVE  Value(handle_position'[g]) + Limb * Cardinality(On(g)')
                   <= Length + Limb * Cardinality(Task)
    <3>1. CASE g = h
      <4>1. p \in Nat /\ p <= Length
        BY DeviceIs
      <4>2. On(g) \in SUBSET Task
        BY DEF On, Busy
      <4> QED
        BY <1>5, <1>6, <3>1, <4>1, <4>2, RoomInside
    <3>2. CASE g # h
      BY <1>1, <1>5, <1>6, <3>2 DEF Room
    <3> QED
      BY <3>1, <3>2
  <2> QED
    BY <2>1 DEF Room
<1>9. \A t \in Busy' : RequestRight(locals'[t])
  BY <1>1, <1>2, <1>6
<1>10. Promise!Seek(h, p)
  <2>1. [g \in Handle |-> Value(handle_position[g])]' =
            [[g \in Handle |-> Value(handle_position[g])] EXCEPT ![h] = p]
    BY <1>5
  <2> QED
    BY <1>2, <2>1 DEF Promise!Seek, Promise!Nothing
<1> QED
  BY <1>7, <1>8, <1>9, <1>10 DEF ReadInv

LEMMA EndedTyped ==
    ASSUME NEW r, Ended(r), locals' \in [Task -> Locals \cup {Idle}]
    PROVE  TypeOK'
BY TypesAreAfter DEF Ended

LEMMA EndedMoves ==
    ASSUME NEW r, r.handle \in Handle, Ended(r)
    PROVE  [h \in Handle |-> Value(handle_position'[h])] =
               [[h \in Handle |-> Value(handle_position[h])] EXCEPT ![r.handle] = @ + r.size]
BY DEF Ended

LEMMA HitReads ==
    ASSUME Both, NEW t \in Task, NEW h \in Handle, NEW n \in Sizes, ReadHit(t, h, n)
    PROVE  ReadInv' /\ Promise!Read(t, h, n)
<1> DEFINE r    == Enter(h, n)
           slot == SlotOf(cached_block, r.block)
           tmp  == cached_block[slot].buffer
<1>1. /\ TypeOK /\ Room /\ \A u \in Busy : RequestRight(locals[u])
      /\ BlockInv
  BY DEF Both, ReadInv
<1>2. /\ stale = FALSE /\ locals[t] = Idle /\ Value(handle_position[h]) + n <= Length
      /\ slot # None /\ Finish(r, Loop(r, slot, tmp, content))
      /\ locals' = locals
  <2>1. /\ ~stale /\ locals[t] = Idle /\ Value(handle_position[h]) + n <= Length
        /\ slot # None /\ Finish(r, Loop(r, slot, tmp, content))
        /\ locals' = locals
    BY DEF ReadHit, Starts
  <2>2. stale \in BOOLEAN
    BY <1>1, TypesAre
  <2> QED
    BY <2>1, <2>2
<1>3. /\ handle_position \in [Handle -> Uint64] /\ cached_block \in Caches
      /\ content \in Contents
  BY <1>1, TypesAre
<1>4. /\ RequestRight(r) /\ r.handle = h /\ r.size = n /\ r.from = handle_position[h]
  BY <1>2, <1>3, EnterRight
<1> HIDE DEF r
<1>5. /\ slot \in Slot /\ tmp # Null /\ Cmp64(r.block, cached_block[slot].block) = 0
  BY <1>2, SlotFound
<1> HIDE DEF slot
<1>6. cached_block[slot].block \in Uint64 /\ tmp \in Buffer
  BY <1>3, <1>5 DEF Caches
<1>7. Holds(cached_block, content)
  BY <1>1, <1>2 DEF BlockInv, Coherent, Cached, Holds
<1>8. content[tmp] = Value(r.block)
  <2>1. r.block \in Uint64
    BY <1>4 DEF RequestRight
  <2>2. Value(r.block) = Value(cached_block[slot].block)
    BY <1>5, <1>6, <2>1, Compares
  <2> QED
    BY <1>5, <1>7, <2>2 DEF Holds
<1> HIDE DEF tmp
<1>9. /\ Value(handle_position[h]) \in Nat /\ n \in Nat /\ Length \in Nat
      /\ Value(handle_position[h]) + n < Top
  <2>1. Length < Top /\ Value(handle_position[h]) \in Nat /\ n \in Nat /\ Length \in Nat
    BY <1>3, TopIs, DeviceIs, ValueIs, BlockAssumption
  <2> QED
    BY <1>2, <2>1, TopIs
<1>10. Ended(r)
  BY <1>1, <1>2, <1>4, <1>6, <1>3, <1>7, <1>8, <1>9, FinishEnds
<1>11. TypeOK'
  BY <1>1, <1>2, <1>10, EndedTyped, TypesAre
<1>12. Busy' = Busy /\ \A g : On(g)' = On(g)
  BY <1>2 DEF Busy, On
<1>13. Room'
  <2>1. ASSUME NEW g \in Handle
        PROVE  Value(handle_position'[g]) + Limb * Cardinality(On(g)')
                   <= Length + Limb * Cardinality(Task)
    <3>1. CASE g = h
      <4>1. Value(handle_position'[g]) = Value(handle_position[h]) + n
        BY <1>4, <1>10, <3>1 DEF Ended
      <4>2. Value(handle_position[h]) + n \in Nat
        BY <1>9
      <4>3. On(g) \in SUBSET Task
        BY DEF On, Busy
      <4> QED
        BY <1>2, <1>12, <4>1, <4>2, <4>3, RoomInside
    <3>2. CASE g # h
      BY <1>1, <1>4, <1>10, <1>12, <3>2 DEF Room, Ended
    <3> QED
      BY <3>1, <3>2
  <2> QED
    BY <2>1 DEF Room
<1>14. \A u \in Busy' : RequestRight(locals'[u])
  BY <1>1, <1>2, <1>12
<1>15. Promise!Read(t, h, n)
  <2>1. Asked(r) = Promise!Request(h, n)
    BY <1>4 DEF Asked, Promise!Request
  <2>2. Promise!Delivers(Promise!Request(h, n))
    BY <1>10, <2>1 DEF Ended
  <2>3. Promise!InBounds(h, n)
    BY <1>2 DEF Promise!InBounds
  <2>4. [g \in Handle |-> Value(handle_position[g])]' =
            [[g \in Handle |-> Value(handle_position[g])] EXCEPT ![h] = @ + n]
    BY <1>4, <1>10, EndedMoves
  <2> QED
    BY <1>2, <2>2, <2>3, <2>4 DEF Promise!Read, Promise!Idle, Idle
<1> QED
  BY <1>11, <1>13, <1>14, <1>15 DEF ReadInv

LEMMA MissReads ==
    ASSUME Both, NEW t \in Task, NEW h \in Handle, NEW n \in Sizes, ReadMiss(t, h, n)
    PROVE  ReadInv' /\ Promise!Begin(t, h, n)
<1> DEFINE r == Enter(h, n)
           l(b) == [handle |-> h, from |-> r.from, size |-> n, block |-> r.block,
                    end_block |-> r.end_block, part_begin |-> r.part_begin, tmp |-> b]
<1>1. /\ TypeOK /\ Room /\ \A u \in Busy : RequestRight(locals[u])
  BY DEF Both, ReadInv
<1>2. PICK b \in Buffer \ allocated :
        allocated' = allocated \cup {b} /\ locals' = [locals EXCEPT ![t] = l(b)]
  BY DEF ReadMiss
<1>3. /\ locals[t] = Idle /\ Value(handle_position[h]) + n <= Length /\ out' = <<>>
      /\ UNCHANGED <<handle_position, cached_block, content, stale, dropped>>
  BY DEF ReadMiss, Starts
<1>4. /\ handle_position \in [Handle -> Uint64] /\ locals \in [Task -> Locals \cup {Idle}]
  BY <1>1, TypesAre
<1>5. /\ RequestRight(r) /\ r.handle = h /\ r.size = n /\ r.from = handle_position[h]
  BY <1>3, <1>4, EnterRight
<1> HIDE DEF r
<1>6. /\ l(b).handle = h /\ l(b).from = r.from /\ l(b).size = n /\ l(b).block = r.block
      /\ l(b).end_block = r.end_block /\ l(b).part_begin = r.part_begin
  OBVIOUS
<1>7. r.part_begin \in 0..(BlockSize - 1)
  BY <1>5, RequestIs
<1>8. l(b) \in Locals /\ l(b) # Idle
  <2>1. /\ r.from \in Uint64 /\ r.block \in Uint64 /\ r.end_block \in Uint64
    BY <1>5 DEF RequestRight
  <2>2. l(b) \in Locals
    <3> HIDE DEF Uint64, BlockSize
    <3> QED
      BY <1>7, <2>1 DEF Locals
  <2>3. "tmp" \in DOMAIN l(b) /\ "tmp" \notin DOMAIN Idle
    BY DEF Idle
  <2> QED
    BY <2>2, <2>3
<1>9. RequestRight(l(b))
  BY <1>5, <1>6 DEF RequestRight
<1> DEFINE lb == l(b)
<1>10. /\ lb \in Locals /\ lb # Idle /\ RequestRight(lb)
       /\ locals' = [locals EXCEPT ![t] = lb]
       /\ lb.handle = h /\ lb.size = n /\ lb.from = handle_position[h]
  BY <1>2, <1>5, <1>6, <1>8, <1>9
<1> HIDE DEF lb, l
<1>11. /\ locals' \in [Task -> Locals \cup {Idle}]
       /\ \A u \in Task : locals'[u] = IF u = t THEN lb ELSE locals[u]
  BY <1>4, <1>10
<1>12. Busy' = Busy \cup {t}
  BY <1>10, <1>11 DEF Busy
<1>13. TypeOK'
  <2> DEFINE S == {Junk} \cup Address
  <2> HIDE DEF S
  <2>1. out' \in Seq(S)
    BY <1>3
  <2>2. /\ cached_block' \in Caches /\ content' \in Contents
        /\ handle_position' \in [Handle -> Uint64]
        /\ stale' \in BOOLEAN /\ dropped' \in BOOLEAN
    BY <1>1, <1>3, TypesAre
  <2>3. allocated' \subseteq Buffer
    BY <1>1, <1>2, TypesAre
  <2> QED
    BY <1>11, <2>1, <2>2, <2>3, TypesAreAfter DEF S
<1>14. Room'
  <2>1. ASSUME NEW g \in Handle
        PROVE  Value(handle_position'[g]) + Limb * Cardinality(On(g)')
                   <= Length + Limb * Cardinality(Task)
    <3>1. CASE g = h
      <4>1. Value(handle_position[h]) \in Nat /\ Value(handle_position[h]) <= Length
        BY <1>3, <1>4, ValueIs, DeviceIs, BlockAssumption
      <4>2. On(g)' \in SUBSET Task
        BY DEF On, Busy
      <4> QED
        BY <1>3, <3>1, <4>1, <4>2, RoomInside
    <3>2. CASE g # h
      <4>1. On(g)' = On(g)
        BY <1>3, <1>10, <1>11, <1>12, <3>2 DEF On, Busy
      <4> QED
        BY <1>1, <1>3, <4>1 DEF Room
    <3> QED
      BY <3>1, <3>2
  <2> QED
    BY <2>1 DEF Room
<1>15. \A u \in Busy' : RequestRight(locals'[u])
  BY <1>1, <1>10, <1>11, <1>12 DEF Busy
<1>16. Promise!Begin(t, h, n)
  <2> DEFINE Of(u, f) == IF f = Idle THEN Idle
                         ELSE [handle |-> f.handle, from |-> Value(f.from), size |-> f.size]
             before == [u \in Task |-> Of(u, locals[u])]
             after  == [u \in Task |-> Of(u, locals'[u])]
  <2>1. Promise!Request(h, n) = Of(t, lb)
    BY <1>10 DEF Promise!Request
  <2>2. after = [before EXCEPT ![t] = Promise!Request(h, n)]
    <3>1. ASSUME NEW u \in Task
          PROVE  after[u] = IF u = t THEN Promise!Request(h, n) ELSE before[u]
      BY <1>11, <2>1
    <3> HIDE DEF Of
    <3> QED
      BY <3>1
  <2>3. before[t] = Promise!Idle
    BY <1>3 DEF Promise!Idle, Idle
  <2>4. /\ before = [u \in Task |-> IF locals[u] = Idle THEN Idle
                ELSE [handle |-> locals[u].handle, from |-> Value(locals[u].from),
                      size |-> locals[u].size]]
        /\ after = [u \in Task |-> IF locals'[u] = Idle THEN Idle
                ELSE [handle |-> locals'[u].handle, from |-> Value(locals'[u].from),
                      size |-> locals'[u].size]]
    OBVIOUS
  <2> HIDE DEF before, after
  <2>5. Promise!InBounds(h, n)
    BY <1>3 DEF Promise!InBounds
  <2>6. [g \in Handle |-> Value(handle_position[g])]' = [g \in Handle |-> Value(handle_position[g])]
    BY <1>3
  <2> QED
    BY <1>3, <2>2, <2>3, <2>4, <2>5, <2>6 DEF Promise!Begin, Promise!Nothing
<1> QED
  BY <1>13, <1>14, <1>15, <1>16 DEF ReadInv

LEMMA DoneReads ==
    ASSUME Both, NEW t \in Task, ReadDone(t)
    PROVE  ReadInv' /\ Promise!Finish(t)
<1> DEFINE r   == locals[t]
           tmp == r.tmp
           c   == [content EXCEPT ![tmp] = Value(r.block)]
           h   == r.handle
           k   == Cardinality(On(h))
           m   == Cardinality(Task)
           p   == Value(handle_position[h])
<1>1. /\ TypeOK /\ Room /\ \A u \in Busy : RequestRight(locals[u])
      /\ BlockInv
  BY DEF Both, ReadInv
<1>2. /\ stale = FALSE /\ r # Idle /\ Finish(r, Loop(r, None, tmp, c))
      /\ locals' = [locals EXCEPT ![t] = Idle]
  <2>1. /\ ~stale /\ r # Idle /\ Finish(r, Loop(r, None, tmp, c))
        /\ locals' = [locals EXCEPT ![t] = Idle]
    BY DEF ReadDone
  <2>2. stale \in BOOLEAN
    BY <1>1, TypesAre
  <2> QED
    BY <2>1, <2>2
<1>3. t \in Busy /\ RequestRight(r)
  BY <1>1, <1>2 DEF Busy
<1>4. /\ handle_position \in [Handle -> Uint64] /\ cached_block \in Caches
      /\ content \in Contents /\ locals \in [Task -> Locals \cup {Idle}]
  BY <1>1, TypesAre
<1>5. tmp \in Buffer /\ h \in Handle /\ handle_position[h] \in Uint64
  <2>1. r \in Locals
    BY <1>2, <1>4
  <2> HIDE DEF Uint64
  <2> QED
    BY <1>4, <2>1 DEF Locals
<1>6. c \in Contents /\ c[tmp] = Value(r.block)
  <2> DEFINE b == Value(r.block)
             f == Value(r.from)
             e == Value(r.end_block)
  <2>1. b = Value(r.block) /\ f = Value(r.from) /\ e = Value(r.end_block)
    OBVIOUS
  <2> HIDE DEF b, f, e
  <2>2. b \in 0..(Blocks - 1)
    BY <1>3, <2>1, RequestIs
  <2> QED
    BY <1>4, <1>5, <2>1, <2>2 DEF Contents
<1>7. Holds(cached_block, c)
  <2>1. Owned /\ Coherent
    BY <1>1, <1>2 DEF BlockInv
  <2>2. ASSUME NEW q \in Slot, cached_block[q].buffer # Null
        PROVE  c[cached_block[q].buffer] = Value(cached_block[q].block)
    <3>1. q \in Cached
      BY <2>2 DEF Cached
    <3>2. cached_block[q].buffer # tmp /\ cached_block[q].buffer \in Buffer
      BY <1>3, <2>1, <3>1 DEF Owned
    <3>3. content[cached_block[q].buffer] = Value(cached_block[q].block)
      BY <2>1, <3>1 DEF Coherent
    <3> QED
      BY <1>4, <3>2, <3>3 DEF Contents
  <2> QED
    BY <2>2 DEF Holds
<1> HIDE DEF c
<1>8. /\ p \in Nat /\ r.size \in 1..(Limb - 1) /\ Limb \in Nat
  BY <1>3, <1>5, ValueIs, LimbIs, BlockAssumption DEF RequestRight
<1>9. t \in On(h) /\ On(h) \in SUBSET Task
  BY <1>3 DEF On, Busy
<1>10. /\ k \in Nat \ {0} /\ m \in Nat /\ k <= m
  <2>1. k \in Nat /\ m \in Nat /\ k <= m /\ IsFiniteSet(On(h))
    BY <1>9, SomeTasks
  <2>2. k # 0
    BY <1>9, <2>1, FS_EmptySet
  <2> QED
    BY <2>1, <2>2
<1>11. /\ p + Limb * k <= Length + Limb * m
  BY <1>1, <1>5 DEF Room
<1>12. Limb * k = Limb * (k - 1) + Limb /\ Limb * (k - 1) \in Nat /\ Limb * m \in Nat
  <2>1. k - 1 \in Nat /\ k - 1 <= k /\ k \in Nat /\ (k - 1) + 1 = k
    BY <1>10
  <2> HIDE DEF k, m
  <2>2. Limb * ((k - 1) + 1) = Limb * (k - 1) + Limb /\ Limb * (k - 1) \in Nat
    BY <2>1, LimbTimes
  <2>3. Limb * m \in Nat
    BY <1>10, LimbTimes
  <2> QED
    BY <2>1, <2>2, <2>3
<1>13. /\ p + r.size < Top
       /\ (p + r.size) + Limb * (k - 1) <= Length + Limb * m
  <2> DEFINE x == Limb * (k - 1)
             y == Limb * m
  <2>1. x \in Nat /\ y \in Nat /\ p + (x + Limb) <= Length + y /\ Length + y <= Top
    BY <1>11, <1>12, TasksBelowTop
  <2>2. Length \in Nat /\ Top \in Nat
    BY DeviceIs, TopIs
  <2> HIDE DEF x, y, p, Limb, Length, Top
  <2>3. p + r.size < Top /\ (p + r.size) + x <= Length + y
    BY <1>8, <2>1, <2>2
  <2> QED
    BY <2>3 DEF x, y
<1>14. Ended(r)
  BY <1>1, <1>2, <1>3, <1>5, <1>6, <1>7, <1>13, FinishEnds
<1>15. /\ locals' \in [Task -> Locals \cup {Idle}]
       /\ \A u \in Task : locals'[u] = IF u = t THEN Idle ELSE locals[u]
  BY <1>2, <1>4
<1>16. TypeOK'
  BY <1>14, <1>15, EndedTyped
<1>17. Busy' = Busy \ {t} /\ \A u \in Busy' : locals'[u] = locals[u]
  BY <1>15 DEF Busy
<1>18. Room'
  <2>1. ASSUME NEW g \in Handle
        PROVE  Value(handle_position'[g]) + Limb * Cardinality(On(g)')
                   <= Length + Limb * Cardinality(Task)
    <3>1. CASE g = h
      <4>1. Value(handle_position'[g]) = p + r.size
        BY <1>14, <3>1 DEF Ended
      <4>2. On(g)' = On(h) \ {t}
        BY <1>17, <3>1 DEF On
      <4>3. Cardinality(On(g)') = k - 1
        BY <1>9, <4>2, SomeTasks, FS_RemoveElement
      <4> QED
        BY <1>13, <4>1, <4>3
    <3>2. CASE g # h
      <4>1. On(g)' = On(g)
        BY <1>17, <3>2 DEF On
      <4>2. Value(handle_position'[g]) = Value(handle_position[g])
        BY <1>14, <3>2 DEF Ended
      <4> QED
        BY <1>1, <4>1, <4>2 DEF Room
    <3> QED
      BY <3>1, <3>2
  <2> QED
    BY <2>1 DEF Room
<1>19. \A u \in Busy' : RequestRight(locals'[u])
  BY <1>1, <1>17
<1>20. Promise!Finish(t)
  <2> DEFINE Of(f) == IF f = Idle THEN Idle
                      ELSE [handle |-> f.handle, from |-> Value(f.from), size |-> f.size]
             before == [u \in Task |-> Of(locals[u])]
             after  == [u \in Task |-> Of(locals'[u])]
             at     == [g \in Handle |-> Value(handle_position[g])]
  <2>1. before[t] = Asked(r) /\ Asked(r).handle = h /\ Asked(r).size = r.size
    BY <1>2 DEF Asked
  <2>2. Asked(r) # Idle
    <3>1. "size" \in DOMAIN Asked(r) /\ "size" \notin DOMAIN Idle
      BY DEF Idle, Asked
    <3> QED
      BY <3>1
  <2>3. after = [before EXCEPT ![t] = Idle]
    <3>1. ASSUME NEW u \in Task
          PROVE  after[u] = IF u = t THEN Idle ELSE before[u]
      BY <1>15
    <3> HIDE DEF Of
    <3> QED
      BY <3>1
  <2>4. /\ before = [u \in Task |-> IF locals[u] = Idle THEN Idle
                ELSE [handle |-> locals[u].handle, from |-> Value(locals[u].from),
                      size |-> locals[u].size]]
        /\ after = [u \in Task |-> IF locals'[u] = Idle THEN Idle
                ELSE [handle |-> locals'[u].handle, from |-> Value(locals'[u].from),
                      size |-> locals'[u].size]]
        /\ at = [g \in Handle |-> Value(handle_position[g])]
    OBVIOUS
  <2>5. [g \in Handle |-> Value(handle_position'[g])] = [at EXCEPT ![h] = @ + r.size]
    BY <1>5, <1>14, EndedMoves
  <2>6. Promise!Delivers(Asked(r))
    BY <1>14 DEF Ended
  <2>7. Promise!Idle = Idle
    BY DEF Promise!Idle, Idle
  <2> HIDE DEF before, after, at, r, h, p
  <2>8. /\ before[t] # Promise!Idle /\ Promise!Delivers(before[t])
        /\ after = [before EXCEPT ![t] = Promise!Idle]
        /\ [g \in Handle |-> Value(handle_position'[g])] =
               [at EXCEPT ![before[t].handle] = @ + before[t].size]
    BY <2>1, <2>2, <2>3, <2>5, <2>6, <2>7
  <2> QED
    BY <2>4, <2>8 DEF Promise!Finish
<1> QED
  BY <1>16, <1>18, <1>19, <1>20 DEF ReadInv

LEMMA StepReads == Both /\ [Next]_vars => ReadInv' /\ [Promise!Next]_(Promise!vars)
<1> SUFFICES ASSUME Both, [Next]_vars PROVE ReadInv' /\ [Promise!Next]_(Promise!vars)
  OBVIOUS
<1>1. CASE UNCHANGED vars
  <2>1. /\ handle_position' = handle_position /\ cached_block' = cached_block
        /\ allocated' = allocated /\ content' = content /\ locals' = locals
        /\ out' = out /\ stale' = stale /\ dropped' = dropped
    BY <1>1 DEF vars
  <2>2. UNCHANGED Promise!vars
    BY <2>1 DEF Promise!vars
  <2>3. TypeOK /\ Room /\ \A u \in Busy : RequestRight(locals[u])
    BY DEF Both, ReadInv
  <2>4. TypeOK'
    BY <2>1, <2>3 DEF TypeOK
  <2>5. Busy' = Busy /\ \A g : On(g)' = On(g)
    BY <2>1 DEF Busy, On
  <2>6. Room' /\ \A u \in Busy' : RequestRight(locals'[u])
    BY <2>1, <2>3, <2>5 DEF Room
  <2> QED
    BY <2>2, <2>4, <2>6 DEF ReadInv
<1>2. ASSUME NEW h \in Handle, NEW p \in 0..(Length - 1), FileSeek(h, Position(p))
      PROVE  ReadInv' /\ Promise!Next
  <2>1. ReadInv' /\ Promise!Seek(h, p)
    BY <1>2, SeekReads DEF Both
  <2> QED
    BY <2>1 DEF Promise!Next
<1>3. ASSUME NEW t \in Task, NEW h \in Handle, NEW n \in Sizes, ReadHit(t, h, n)
      PROVE  ReadInv' /\ Promise!Next
  <2>1. ReadInv' /\ Promise!Read(t, h, n)
    BY <1>3, HitReads
  <2> QED
    BY <2>1 DEF Promise!Next
<1>4. ASSUME NEW t \in Task, NEW h \in Handle, NEW n \in Sizes, ReadMiss(t, h, n)
      PROVE  ReadInv' /\ Promise!Next
  <2>1. ReadInv' /\ Promise!Begin(t, h, n)
    BY <1>4, MissReads
  <2> QED
    BY <2>1 DEF Promise!Next
<1>5. ASSUME NEW t \in Task, ReadDone(t)
      PROVE  ReadInv' /\ Promise!Next
  <2>1. ReadInv' /\ Promise!Finish(t)
    BY <1>5, DoneReads
  <2> QED
    BY <2>1 DEF Promise!Next
<1> QED
  BY <1>1, <1>2, <1>3, <1>4, <1>5 DEF Next

LEMMA BothInvariance == Spec => []Both
<1>1. Init => Both
  BY InitBlockInv, InitReads DEF Both
<1>2. Both /\ [Next]_vars => Both'
  BY StepBlockInv, StepReads DEF Both
<1> QED
  BY <1>1, <1>2, PTL DEF Spec

(* The computations of blockfile_read, of four limbs each, stay within what *)
(* they are about: the block that the driver is asked for and each byte     *)
(* that is returned are on the device, a first block is entered at an       *)
(* offset inside it, and no slot of the cache is written that is not there. *)
THEOREM TypeCorrect == Spec => []TypeOK
<1>1. Both => TypeOK
  BY DEF Both, ReadInv
<1> QED
  BY <1>1, BothInvariance, PTL

(* Whatever reads of the tasks overlap, on handles of their own or shared   *)
(* ones, a read returns the bytes from the position that the handle had     *)
(* when it began and moves the handle by their number when it ends; only a  *)
(* read that runs from one block into another can return anything else, and *)
(* it ends the promise.                                                     *)
THEOREM ReadsRight == Spec => ReadsTheDisk
<1>1. Init => Promise!Init
  BY InitReads
<1>2. Both /\ [Next]_vars => [Promise!Next]_(Promise!vars)
  BY StepReads
<1>3. Spec => []Both
  BY BothInvariance
<1> QED
  BY <1>1, <1>2, <1>3, PTL DEF Spec, ReadsTheDisk, Promise!Spec

-----------------------------------------------------------------------------
(* The table of a volume *)

(* The sizes of a volume are numbers.                                       *)
LEMMA SizesAre ==
    /\ Nibble \in Nat /\ Nibble >= 2 /\ EntryValues \in Nat /\ EntryValues >= 8
    /\ BadCluster \in 1..(EntryValues - 2)
    /\ SectorSize \in Nat \ {0} /\ RootEntries \in Nat \ {0} /\ EntrySize \in Nat \ {0}
    /\ RootSector \in Nat /\ RootSectors \in Nat /\ DataSector \in Nat
    /\ RootEntries * EntrySize <= RootSectors * SectorSize
<1>1. /\ Nibble \in Nat /\ Nibble >= 2
      /\ SectorSize \in Nat \ {0} /\ RootEntries \in Nat \ {0} /\ EntrySize \in Nat \ {0}
      /\ Reserved \in Nat /\ Fats \in Nat /\ SectorsPerFat \in Nat
      /\ EndMarks \in 1..(EntryValues - 2)
  BY VolumeAssumption
<1>2. EntryValues \in Nat /\ EntryValues >= 8
  <2>1. Nibble * Nibble \in Nat /\ Nibble * Nibble >= 4
    BY <1>1
  <2> DEFINE square == Nibble * Nibble
  <2>2. square * Nibble \in Nat /\ square * Nibble >= 8
    <3> HIDE DEF square
    <3> QED
      BY <1>1, <2>1 DEF square
  <2> QED
    BY <2>2 DEF EntryValues
<1>3. BadCluster \in 1..(EntryValues - 2)
  BY <1>1, <1>2 DEF BadCluster
<1>4. RootSector \in Nat
  <2>1. Fats * SectorsPerFat \in Nat
    BY <1>1
  <2> QED
    BY <1>1, <2>1 DEF RootSector
<1>5. RootSectors \in Nat /\ RootEntries * EntrySize <= RootSectors * SectorSize
  <2> DEFINE all == RootEntries * EntrySize
             x == all + SectorSize - 1
  <2>1. all \in Nat
    BY <1>1
  <2> HIDE DEF all
  <2>2. x \in Nat
    BY <1>1, <2>1
  <2>3. /\ x = SectorSize * (x \div SectorSize) + (x % SectorSize)
        /\ x % SectorSize \in 0..(SectorSize - 1) /\ x \div SectorSize \in Nat
    BY <1>1, <2>2, Divide
  <2> DEFINE q == x \div SectorSize
             r == x % SectorSize
  <2>4. RootSectors = q
    BY DEF RootSectors, all
  <2> HIDE DEF q, r
  <2>5. x = SectorSize * q + r /\ r \in 0..(SectorSize - 1) /\ q \in Nat
    BY <2>3 DEF q, r
  <2>6. all <= SectorSize * q
    BY <1>1, <2>1, <2>5
  <2> QED
    BY <1>1, <2>4, <2>5, <2>6, TimesSwap DEF all
<1>6. DataSector \in Nat
  BY <1>4, <1>5 DEF DataSector
<1> QED
  BY <1>1, <1>2, <1>3, <1>4, <1>5, <1>6

(* What is on the disk is a volume.                                         *)
LEMMA VolumeIs ==
    ASSUME VolumeInit
    PROVE  IsVolume([directory |-> directory, table |-> table])
<1>1. PICK v \in Volumes : directory = v.directory /\ table = v.table
  BY DEF VolumeInit
<1>2. IsVolume(v)
  BY VolumeAssumption
<1> QED
  BY <1>1, <1>2 DEF IsVolume

TableOK ==
    /\ Cardinality(DOMAIN table) \in 1..BadCluster
    /\ table \in [0..(Cardinality(DOMAIN table) - 1) -> 0..(EntryValues - 1)]

LEMMA TableIs == VolumeInit => TableOK
BY VolumeIs DEF IsVolume, TableOK

(* An entry of the table is put together from its three nibbles.            *)
LEMMA ThreeNibbles ==
    ASSUME NEW N \in Nat, N >= 2, NEW x \in 0..(N * N * N - 1)
    PROVE  /\ (x \div 1) % N \in 0..(N - 1) /\ (x \div N) % N \in 0..(N - 1)
           /\ (x \div (N * N)) % N \in 0..(N - 1)
           /\ x = ((x \div 1) % N) + N * (((x \div N) % N) + N * ((x \div (N * N)) % N))
<1> DEFINE S == N * N
           a == x \div N
           d0 == x % N
           b == a \div N
           d1 == a % N
<1>1. S \in Nat \ {0} /\ S * N = N * N * N /\ x \in Nat /\ N \in Nat \ {0}
  <2>1. N * N \in Nat /\ N * N >= 4
    OBVIOUS
  <2>2. N * N * N \in Nat
    BY <2>1
  <2> QED
    BY <2>1, <2>2
<1>2. x = N * a + d0 /\ d0 \in 0..(N - 1) /\ a \in Nat
  BY <1>1, Divide
<1>3. a = N * b + d1 /\ d1 \in 0..(N - 1) /\ b \in Nat
  BY <1>1, <1>2, Divide
<1>4. x \div 1 = x
  BY <1>1
<1>5. x \div S = b /\ b < N
  <2> HIDE DEF a, d0, b, d1
  <2>1. N * a = N * (N * b) + N * d1
    BY <1>1, <1>3
  <2>2. N * (N * b) = S * b
    BY <1>1, <1>3, TimesSwap
  <2>3. N * d1 + d0 \in 0..(S - 1)
    <3>1. N * d1 >= 0 /\ N * d1 <= N * (N - 1) /\ N * (N - 1) = S - N /\ N * d1 \in Int
      BY <1>1, <1>3
    <3> HIDE DEF S
    <3> QED
      BY <1>1, <1>2, <3>1
  <2> DEFINE r == N * d1 + d0
  <2>4. x = S * b + r
    <3> DEFINE p == N * (N * b)
               e == N * d1
    <3>1. e \in Int /\ S * b \in Int /\ x = p + e + d0 /\ p = S * b
      BY <1>1, <1>2, <1>3, <2>1, <2>2
    <3> HIDE DEF p, e, S
    <3> QED
      BY <1>2, <3>1 DEF e
  <2> HIDE DEF r, S
  <2>5. x \div S = b
    BY <1>1, <1>3, <2>3, <2>4, Quotient DEF r
  <2>6. b < N
    <3> SUFFICES ASSUME b >= N PROVE FALSE
      BY <1>1, <1>3
    <3>1. S * b >= S * N
      BY <1>1, <1>3
    <3>2. r \in Nat /\ S * b \in Int /\ S * N \in Int /\ x < S * N
      BY <1>1, <1>3, <2>3 DEF r
    <3> QED
      BY <1>1, <2>4, <3>1, <3>2
  <2> QED
    BY <2>5, <2>6
<1>6. b % N = b
  BY <1>1, <1>3, <1>5
<1> QED
  BY <1>1, <1>2, <1>3, <1>4, <1>5, <1>6

LEMMA NibbleIs ==
    ASSUME TableOK, NEW n \in Nat
    PROVE  TableNibble(n) \in 0..(Nibble - 1)
<1>1. /\ Nibble \in Nat \ {0} /\ Nibble * Nibble \in Nat \ {0} /\ EntryValues \in Nat
  <2>1. Nibble \in Nat /\ Nibble >= 2
    BY SizesAre
  <2>2. Nibble * Nibble >= 4
    BY <2>1
  <2> QED
    BY <2>1, <2>2, SizesAre
<1>2. Weight[(n % 3) + 1] \in Nat \ {0}
  <2>1. n % 3 \in {0, 1, 2}
    OBVIOUS
  <2>2. Weight[1] = 1 /\ Weight[2] = Nibble /\ Weight[3] = Nibble * Nibble
    BY DEF Weight
  <2> QED
    BY <1>1, <2>1, <2>2
<1>3. CASE n \div 3 \in DOMAIN table
  <2>1. table[n \div 3] \in Nat
    BY <1>1, <1>3 DEF TableOK
  <2> DEFINE x == table[n \div 3]
             w == Weight[(n % 3) + 1]
  <2>2. x \div w \in Nat
    <3> HIDE DEF x, w
    <3>1. x \in Nat /\ w \in Nat \ {0}
      BY <1>2, <2>1 DEF x, w
    <3> QED
      BY <3>1, Divide
  <2> DEFINE y == x \div w
  <2>3. TableNibble(n) = y % Nibble
    BY <1>3 DEF TableNibble
  <2> HIDE DEF y
  <2>4. y \in Nat
    BY <2>2 DEF y
  <2> QED
    BY <1>1, <2>3, <2>4, Divide
<1>4. CASE n \div 3 \notin DOMAIN table
  BY <1>1, <1>4 DEF TableNibble
<1> QED
  BY <1>3, <1>4

LEMMA EntryNibbles ==
    ASSUME TableOK, NEW c \in DOMAIN table
    PROVE  /\ table[c] \in 0..(EntryValues - 1) /\ c \in Nat
           /\ table[c] = TableNibble(3 * c) + Nibble * (TableNibble(3 * c + 1)
                            + Nibble * TableNibble(3 * c + 2))
           /\ \A n \in {3 * c, 3 * c + 1, 3 * c + 2} : TableNibble(n) \in 0..(Nibble - 1)
<1> DEFINE x == table[c]
<1>1. c \in Nat /\ x \in 0..(EntryValues - 1)
  BY SizesAre DEF TableOK
<1>2. /\ (3 * c) \div 3 = c /\ (3 * c + 1) \div 3 = c /\ (3 * c + 2) \div 3 = c
      /\ (3 * c) % 3 = 0 /\ (3 * c + 1) % 3 = 1 /\ (3 * c + 2) % 3 = 2
  BY <1>1
<1>3. Weight[1] = 1 /\ Weight[2] = Nibble /\ Weight[3] = Nibble * Nibble
  BY DEF Weight
<1>4. /\ TableNibble(3 * c) = (x \div 1) % Nibble
      /\ TableNibble(3 * c + 1) = (x \div Nibble) % Nibble
      /\ TableNibble(3 * c + 2) = (x \div (Nibble * Nibble)) % Nibble
  <2>1. ASSUME NEW n \in Nat, NEW i \in 0..2, n \div 3 = c, n % 3 = i
        PROVE  TableNibble(n) = (x \div Weight[i + 1]) % Nibble
    BY <2>1 DEF TableNibble
  <2>2. 3 * c \in Nat /\ 3 * c + 1 \in Nat /\ 3 * c + 2 \in Nat
    BY <1>1
  <2>3. TableNibble(3 * c) = (x \div Weight[0 + 1]) % Nibble
    BY <1>2, <2>1, <2>2
  <2>4. TableNibble(3 * c + 1) = (x \div Weight[1 + 1]) % Nibble
    BY <1>2, <2>1, <2>2
  <2>5. TableNibble(3 * c + 2) = (x \div Weight[2 + 1]) % Nibble
    BY <1>2, <2>1, <2>2
  <2> QED
    BY <1>3, <2>3, <2>4, <2>5
<1>5. Nibble \in Nat /\ Nibble >= 2 /\ x \in 0..(Nibble * Nibble * Nibble - 1)
  BY <1>1, SizesAre DEF EntryValues
<1> HIDE DEF x
<1>6. /\ (x \div 1) % Nibble \in 0..(Nibble - 1) /\ (x \div Nibble) % Nibble \in 0..(Nibble - 1)
      /\ (x \div (Nibble * Nibble)) % Nibble \in 0..(Nibble - 1)
      /\ x = ((x \div 1) % Nibble)
              + Nibble * (((x \div Nibble) % Nibble) + Nibble * ((x \div (Nibble * Nibble)) % Nibble))
  BY <1>5, ThreeNibbles
<1> QED
  BY <1>1, <1>4, <1>6 DEF x

(* fat_read_file and read_file: the two bytes at one and a half times the   *)
(* number of a cluster have its entry, and four bits of a neighbour.        *)
LEMMA WordHasEntry ==
    ASSUME TableOK, NEW c \in DOMAIN table
    PROVE  /\ c % 2 = 1 => TableWord(c + c \div 2) \div Nibble = table[c]
           /\ c % 2 = 0 => TableWord(c + c \div 2) % EntryValues = table[c]
<1> DEFINE N == Nibble
           x == table[c]
           d0 == TableNibble(3 * c)
           d1 == TableNibble(3 * c + 1)
           d2 == TableNibble(3 * c + 2)
<1>1. /\ x \in 0..(EntryValues - 1) /\ c \in Nat /\ x = d0 + N * (d1 + N * d2)
      /\ d0 \in 0..(N - 1) /\ d1 \in 0..(N - 1) /\ d2 \in 0..(N - 1)
  BY EntryNibbles
<1>2. N \in Nat \ {0} /\ EntryValues \in Nat \ {0} /\ EntryValues = N * N * N
  BY SizesAre DEF EntryValues
<1>3. ASSUME c % 2 = 1
      PROVE  TableWord(c + c \div 2) \div Nibble = x
  <2> DEFINE e == TableNibble(3 * c - 1)
  <2>1. 2 * (c + c \div 2) = 3 * c - 1 /\ 3 * c - 1 \in Nat
    BY <1>1, <1>3
  <2>2. e \in 0..(N - 1)
    BY <2>1, NibbleIs
  <2>3. TableWord(c + c \div 2) = e + N * (d0 + N * (d1 + N * d2))
    <3>1. 3 * c - 1 + 0 = 3 * c - 1 /\ 3 * c - 1 + 1 = 3 * c /\ 3 * c - 1 + 2 = 3 * c + 1 /\ 3 * c - 1 + 3 = 3 * c + 2
      BY <1>1
    <3> QED
      BY <2>1, <3>1 DEF TableWord
  <2>4. TableWord(c + c \div 2) = N * x + e
    <3>1. TableWord(c + c \div 2) = e + N * x
      BY <1>1, <2>3
    <3> DEFINE p == N * x
    <3>2. p \in Int /\ TableWord(c + c \div 2) = e + p
      BY <1>1, <1>2, <3>1
    <3> HIDE DEF p, e
    <3>3. e \in Int
      BY <1>2, <2>2
    <3> QED
      BY <3>2, <3>3 DEF p
  <2> DEFINE w == TableWord(c + c \div 2)
  <2>5. w = N * x + e /\ x \in Nat
    BY <1>1, <2>4
  <2> HIDE DEF w, x, e, N
  <2>6. w \in Nat
    BY <1>2, <2>2, <2>5
  <2>7. w \div N = x
    BY <1>2, <2>2, <2>5, <2>6, Quotient
  <2> QED
    BY <2>7 DEF w, N
<1>4. ASSUME c % 2 = 0
      PROVE  TableWord(c + c \div 2) % EntryValues = x
  <2> DEFINE e == TableNibble(3 * c + 3)
  <2>1. 2 * (c + c \div 2) = 3 * c /\ 3 * c \in Nat /\ 3 * c + 3 \in Nat
    BY <1>1, <1>4
  <2>2. e \in 0..(N - 1)
    BY <2>1, NibbleIs
  <2>3. TableWord(c + c \div 2) = d0 + N * (d1 + N * (d2 + N * e))
    <3>1. 3 * c + 0 = 3 * c
      BY <1>1
    <3> QED
      BY <2>1, <3>1 DEF TableWord
  <2> DEFINE w == TableWord(c + c \div 2)
  <2>4. w = EntryValues * e + x
    <3>1. w = d0 + N * (d1 + N * (d2 + N * e)) /\ x = d0 + N * (d1 + N * d2)
      BY <1>1, <2>3
    <3>2. EntryValues = N * N * N
      BY <1>2
    <3> HIDE DEF d0, d1, d2, e, w, x
    <3>3. /\ N \in Int /\ d0 \in Int /\ d1 \in Int /\ d2 \in Int /\ e \in Int
      BY <1>1, <1>2, <2>2
    <3> HIDE DEF N
    <3>4. N * (d2 + N * e) = N * d2 + N * N * e
      <4>1. N * (d2 + N * e) = N * d2 + N * (N * e)
        BY <3>3
      <4>2. N * (N * e) = N * N * e
        BY <3>3, TimesSwap
      <4> QED
        BY <4>1, <4>2
    <3> DEFINE s == N * N
               t == d1 + N * d2
    <3>5. s \in Int /\ s * e \in Int /\ N * d2 \in Int /\ t \in Int
      BY <3>3
    <3>6. d1 + N * (d2 + N * e) = t + s * e
      <4> DEFINE a == N * (d2 + N * e)
                 b == N * d2
                 f == s * e
      <4>1. a = b + f /\ b \in Int /\ f \in Int
        BY <3>4, <3>5
      <4> HIDE DEF a, b, f
      <4>2. d1 + a = (d1 + b) + f
        BY <3>3, <4>1
      <4> QED
        BY <4>2 DEF a, b, f
    <3> HIDE DEF s
    <3>7. w = d0 + N * (t + s * e)
      BY <3>1, <3>6
    <3> HIDE DEF t
    <3>8. N * (t + s * e) = N * t + N * (s * e)
      BY <3>3, <3>5
    <3>9. N * (s * e) = EntryValues * e
      <4>1. N * (s * e) = (N * s) * e
        BY <3>3, <3>5, TimesSwap
      <4>2. N * s = s * N
        BY <3>3, <3>5
      <4> QED
        BY <3>2, <4>1, <4>2 DEF s
    <3>10. x = d0 + N * t
      BY <3>1 DEF t
    <3> DEFINE u == N * t
               v == EntryValues * e
    <3>11. u \in Int /\ v \in Int /\ w = d0 + (u + v) /\ x = d0 + u
      BY <1>2, <3>3, <3>5, <3>7, <3>8, <3>9, <3>10
    <3> HIDE DEF u, v
    <3>12. w = v + x
      BY <3>3, <3>11
    <3> QED
      BY <3>12 DEF v
  <2> HIDE DEF w, x, e, N
  <2>5. e \in Nat /\ w \in Nat
    BY <1>1, <1>2, <2>2, <2>4
  <2>6. w % EntryValues = x
    BY <1>1, <1>2, <2>4, <2>5, Quotient
  <2> QED
    BY <2>6 DEF w
<1> QED
  BY <1>3, <1>4

(* A chain that is linked to an end mark is what Chain finds: after m rounds *)
(* it has the first m + 1 of the clusters.                                  *)
LEMMA ChainIs ==
    ASSUME TableOK, NEW first, NEW n \in 1..Cardinality(DOMAIN table),
           NEW c \in [1..n -> DOMAIN table], Linked(table, first, c, n)
    PROVE  Chain(first) = c
<1> DEFINE M == Cardinality(DOMAIN table)
           Follower(s) == table[s[Len(s)]]
           Lengthen(s) == IF Follower(s) > BadCluster THEN s ELSE Append(s, Follower(s))
           Is(g) == g = [m \in 0..M |-> IF m = 0 THEN <<first>> ELSE Lengthen(g[m - 1])]
           End(m) == IF m + 1 < n THEN m + 1 ELSE n
           Part(m) == [k \in 1..End(m) |-> c[k]]
           g == [m \in 0..M |-> Part(m)]
<1>1. M \in Nat \ {0} /\ n \in Nat \ {0} /\ n <= M
  BY SizesAre DEF TableOK
<1>2. /\ c[1] = first
      /\ \A k \in 1..n : IF k = n THEN table[c[k]] > BadCluster ELSE table[c[k]] = c[k + 1]
  BY DEF Linked
<1>3. \A x \in DOMAIN table : x <= BadCluster
  BY SizesAre DEF TableOK
<1>4. ASSUME NEW m \in 0..M
      PROVE  /\ Part(m) \in Seq(DOMAIN table) /\ Len(Part(m)) = End(m) /\ End(m) \in 1..n
             /\ Follower(Part(m)) = table[c[End(m)]]
  <2>1. End(m) \in 1..n /\ End(m) \in Nat
    BY <1>1
  <2> HIDE DEF End
  <2>2. \A k \in 1..End(m) : c[k] \in DOMAIN table
    BY <1>1, <2>1
  <2>3. Part(m) \in Seq(DOMAIN table) /\ Len(Part(m)) = End(m)
    BY <2>1, <2>2
  <2>4. Part(m)[End(m)] = c[End(m)]
    BY <2>1
  <2> HIDE DEF Part
  <2> QED
    BY <2>1, <2>3, <2>4
<1>5. Part(0) = <<first>>
  <2>1. End(0) = 1
    BY <1>1
  <2> QED
    BY <1>2, <2>1
<1>6. ASSUME NEW m \in 1..M
      PROVE  Part(m) = Lengthen(Part(m - 1))
  <2>1. m - 1 \in 0..M /\ m \in 0..M
    BY <1>1
  <2>2. CASE m < n
    <3>1. End(m - 1) = m /\ End(m) = m + 1
      BY <1>1, <2>2
    <3>2. Follower(Part(m - 1)) = c[m + 1]
      BY <1>1, <1>2, <1>4, <2>1, <2>2, <3>1
    <3>3. c[m + 1] \in DOMAIN table /\ ~ (c[m + 1] > BadCluster)
      <4>1. m + 1 \in 1..n
        BY <1>1, <2>2
      <4>2. c[m + 1] \in DOMAIN table
        BY <4>1
      <4>3. c[m + 1] \in Int /\ BadCluster \in Int
        BY <4>2, SizesAre DEF TableOK
      <4> QED
        BY <1>3, <4>2, <4>3
    <3>4. Part(m) = Append(Part(m - 1), c[m + 1])
      <4>1. Part(m - 1) = [k \in 1..m |-> c[k]] /\ Part(m) = [k \in 1..(m + 1) |-> c[k]]
        BY <3>1
      <4>2. Part(m - 1) \in Seq(DOMAIN table) /\ Len(Part(m - 1)) = m
        BY <1>4, <2>1, <3>1
      <4> HIDE DEF Part
      <4> QED
        BY <1>1, <4>1, <4>2
    <3> HIDE DEF Part
    <3> QED
      BY <3>2, <3>3, <3>4
  <2>3. CASE m >= n
    <3>1. End(m - 1) = n /\ End(m) = n
      BY <1>1, <2>3
    <3>2. Follower(Part(m - 1)) > BadCluster
      BY <1>1, <1>2, <1>4, <2>1, <3>1
    <3>3. Part(m) = Part(m - 1)
      BY <3>1
    <3> HIDE DEF Part
    <3> QED
      BY <3>2, <3>3
  <2> QED
    BY <1>1, <2>2, <2>3
<1> HIDE DEF Part, Lengthen
<1>7. Is(g)
  <2>1. ASSUME NEW m \in 0..M
        PROVE  g[m] = IF m = 0 THEN <<first>> ELSE Lengthen(g[m - 1])
    <3>1. CASE m = 0
      BY <1>5, <3>1
    <3>2. CASE m # 0
      <4>1. m \in 1..M /\ m - 1 \in 0..M
        BY <1>1, <3>2
      <4> QED
        BY <1>6, <3>2, <4>1
    <3> QED
      BY <3>1, <3>2
  <2>2. g = [m \in 0..M |-> g[m]]
    OBVIOUS
  <2> HIDE DEF g
  <2> QED
    BY <2>1, <2>2
<1> DEFINE chain == CHOOSE h : Is(h)
<1>8. Is(chain)
  <2> HIDE DEF Is, g
  <2> QED
    BY <1>7
<1>9. \A m \in 0..M : chain[m] = IF m = 0 THEN <<first>> ELSE Lengthen(chain[m - 1])
  <2> HIDE DEF chain
  <2> QED
    BY <1>8
<1>10. Chain(first) = chain[M]
  BY DEF Chain, Lengthen
<1> DEFINE Bad == {m \in 0..M : chain[m] # Part(m)}
<1> HIDE DEF chain
<1>11. Bad = {}
  <2> SUFFICES ASSUME Bad # {} PROVE FALSE
    OBVIOUS
  <2>1. Bad \in SUBSET Nat
    BY <1>1
  <2>2. PICK m \in Bad : \A j \in Bad : m <= j
    <3> HIDE DEF Bad
    <3> QED
      BY <2>1, Least
  <2>3. m \in 0..M /\ m \in Nat /\ chain[m] # Part(m)
    BY <1>1, <2>2
  <2>4. m # 0
    BY <1>5, <1>9, <2>3
  <2>5. m - 1 \in 0..M /\ m \in 1..M /\ ~ (m <= m - 1)
    BY <1>1, <2>3, <2>4
  <2>6. chain[m - 1] = Part(m - 1)
    BY <2>2, <2>5
  <2> QED
    BY <1>6, <1>9, <2>3, <2>4, <2>5, <2>6
<1>12. chain[M] = Part(M)
  BY <1>1, <1>11
<1>13. Part(M) = c
  <2>1. End(M) = n
    BY <1>1
  <2>2. Part(M) = [k \in 1..n |-> c[k]]
    BY <2>1 DEF Part
  <2> QED
    BY <2>2
<1> QED
  BY <1>10, <1>12, <1>13

-----------------------------------------------------------------------------
(* boot.s: the files that are loaded.                                       *)

LEMMA MinOf ==
    ASSUME NEW S \in SUBSET Nat, S # {}
    PROVE  Min(S) \in S /\ \A j \in S : Min(S) <= j
<1>1. PICK i \in S : \A j \in S : i <= j
  BY Least
<1> QED
  BY <1>1 DEF Min

(* A file that is not empty has its chain.                                  *)
LEMMA FileLinked ==
    ASSUME VolumeInit, NEW s \in Visible, directory[s].size > 0
    PROVE  LET n == ClusterCount(directory[s].size)
               chain == Chain(directory[s].cluster)
           IN  /\ n \in Nat \ {0} /\ chain \in [1..n -> DOMAIN table] /\ DOMAIN chain = 1..n
               /\ \A k \in 1..n : chain[k] >= 2 /\ chain[k] \in Nat /\ chain[k] < BadCluster
               /\ Linked(table, directory[s].cluster, chain, n)
<1> DEFINE n == ClusterCount(directory[s].size)
           M == Cardinality(DOMAIN table)
<1>1. TableOK
  BY TableIs
<1>2. /\ n <= M /\ directory[s].size \in Nat
      /\ \E c \in [1..n -> 2..(M - 1)] : Linked(table, directory[s].cluster, c, n)
  <2>1. IsVolume([directory |-> directory, table |-> table]) /\ s \in FilesOf(directory)
    BY VolumeIs DEF Visible
  <2>2. s \in 1..RootEntries
    BY <2>1 DEF FilesOf, UpToEnd
  <2> QED
    BY <2>1, <2>2 DEF IsVolume
<1>3. n \in Nat \ {0}
  <2> DEFINE x == directory[s].size + SectorSize - 1
  <2>1. x \in Nat /\ SectorSize \in Nat \ {0} /\ x >= SectorSize
    BY <1>2, SizesAre
  <2>2. n = x \div SectorSize
    BY DEF ClusterCount
  <2> HIDE DEF x, n
  <2>3. x = SectorSize * n + (x % SectorSize) /\ x % SectorSize \in 0..(SectorSize - 1) /\ n \in Nat
    BY <2>1, <2>2, Divide
  <2> QED
    BY <2>1, <2>3
<1> HIDE DEF n
<1>4. PICK c \in [1..n -> 2..(M - 1)] : Linked(table, directory[s].cluster, c, n)
  BY <1>2
<1>5. DOMAIN table = 0..(M - 1) /\ M \in 1..BadCluster /\ BadCluster \in Nat
  BY <1>1, SizesAre DEF TableOK
<1>6. c \in [1..n -> DOMAIN table] /\ n \in 1..M
  BY <1>2, <1>3, <1>5
<1>7. Chain(directory[s].cluster) = c
  BY <1>1, <1>4, <1>6, ChainIs
<1>8. \A k \in 1..n : c[k] >= 2 /\ c[k] \in Nat /\ c[k] < BadCluster
  BY <1>5
<1> QED
  BY <1>3, <1>4, <1>6, <1>7, <1>8 DEF n

LEMMA NextClusterIs ==
    ASSUME TableOK, NEW c \in DOMAIN table
    PROVE  NextCluster(c) = table[c]
<1>1. c \in Nat
  BY SizesAre DEF TableOK
<1>2. (c * 3) \div 2 = c + c \div 2 /\ (c * 3) % 2 = c % 2 /\ c % 2 \in {0, 1}
  BY <1>1
<1> QED
  BY <1>2, WordHasEntry DEF NextCluster

LEMMA DriveReads ==
    ASSUME NEW n \in Nat
    PROVE  OnDisk(Chs(n)) = n
<1> DEFINE q == n \div SectorsPerTrack
           r == n % SectorsPerTrack
           cyl == q \div HeadCount
           hd == q % HeadCount
<1>1. SectorsPerTrack \in Nat \ {0} /\ HeadCount \in Nat \ {0}
  BY BootAssumption
<1>2. n = SectorsPerTrack * q + r /\ q \in Nat /\ r \in Nat
  BY <1>1, Divide
<1>3. q = HeadCount * cyl + hd /\ cyl \in Nat /\ hd \in Nat
  BY <1>1, <1>2, Divide
<1>4. OnDisk(Chs(n)) = (cyl * HeadCount + hd) * SectorsPerTrack + (r + 1) - 1
  BY DEF OnDisk, Chs
<1> HIDE DEF r, cyl, hd
<1>5. cyl * HeadCount + hd = q
  BY <1>1, <1>2, <1>3
<1> HIDE DEF q
<1> QED
  BY <1>1, <1>2, <1>4, <1>5

(***************************************************************************)
(* boot.s                                                                  *)
(***************************************************************************)
FileChain(i) == Chain(directory[Min(Named(Files[i]))].cluster)
Sectors(i, n) == [k \in 1..n |-> DataSector + FileChain(i)[k] - 2]

(* A name that is found is that of a file, and the file is not empty.       *)
LEMMA FoundIs ==
    ASSUME VolumeInit, NEW i \in 1..Len(Files)
    PROVE  /\ Matches(Files[i]) = Named(Files[i])
           /\ Named(Files[i]) # {} =>
                LET s == Min(Named(Files[i]))
                IN  s \in Visible /\ s \in 1..RootEntries /\ directory[s].size > 0
<1>1. PICK v \in Volumes : directory = v.directory
  BY DEF VolumeInit
<1>2. \A s \in 1..RootEntries : directory[s].name = Files[i] => s \in Visible /\ directory[s].size > 0
  BY <1>1, BootAssumption DEF Visible
<1>3. Visible \subseteq 1..RootEntries
  BY DEF Visible, FilesOf, UpToEnd
<1>4. Matches(Files[i]) = Named(Files[i])
  BY <1>2, <1>3 DEF Matches, Named
<1>5. ASSUME Named(Files[i]) # {}
      PROVE  Min(Named(Files[i])) \in Named(Files[i])
  <2> DEFINE S == Named(Files[i])
  <2>1. S \in SUBSET Nat
    <3>1. Named(Files[i]) \subseteq Visible
      BY DEF Named
    <3>2. 1..RootEntries \subseteq Nat
      OBVIOUS
    <3> QED
      BY <1>3, <3>1, <3>2
  <2> HIDE DEF S
  <2>2. S # {} => Min(S) \in S
    BY <2>1, MinOf
  <2> QED
    BY <1>5, <2>2 DEF S
<1> QED
  BY <1>2, <1>3, <1>4, <1>5 DEF Named

(* The loader has the whole of each file but of the one it is reading, and  *)
(* of that one what comes before ax.                                        *)
LoadedInv ==
    /\ \A i \in 1..Len(loaded) :
        /\ Named(Files[i]) # {}
        /\ i < Len(loaded) \/ boot_pc \in {"file", "kernel"} =>
                loaded[i] = Sectors(i, Len(FileChain(i)))
    /\ boot_pc = "cluster" =>
        \E i \in 1..Len(Files) : \E k \in DOMAIN FileChain(i) :
            /\ i = Len(loaded) /\ ax = FileChain(i)[k]
            /\ loaded[i] = Sectors(i, k - 1)
    /\ boot_pc \in {"fat", "dir"} => loaded = <<>>
    /\ boot_pc = "kernel" => Len(loaded) = Len(Files)
BootInv ==
    /\ VolumeInit /\ BootTypeOK /\ LoadedInv
    /\ boot_pc # "panic" => resetsleft > 0

LEMMA FileChainIs ==
    ASSUME VolumeInit, NEW i \in 1..Len(Files), Named(Files[i]) # {}
    PROVE  LET n == Len(FileChain(i))
           IN  /\ n \in Nat \ {0} /\ FileChain(i) \in [1..n -> DOMAIN table]
               /\ DOMAIN FileChain(i) = 1..n
               /\ \A k \in 1..n : FileChain(i)[k] >= 2 /\ FileChain(i)[k] \in Nat
                                  /\ FileChain(i)[k] < BadCluster
               /\ FileChain(i)[1] = directory[Min(Named(Files[i]))].cluster
               /\ \A k \in 1..n : IF k = n THEN table[FileChain(i)[k]] > BadCluster
                                  ELSE table[FileChain(i)[k]] = FileChain(i)[k + 1]
<1> DEFINE s == Min(Named(Files[i]))
           m == ClusterCount(directory[s].size)
           c == Chain(directory[s].cluster)
<1>1. s \in Visible /\ directory[s].size > 0
  BY FoundIs
<1> HIDE DEF s
<1>2. /\ m \in Nat \ {0} /\ c \in [1..m -> DOMAIN table] /\ DOMAIN c = 1..m
      /\ \A k \in 1..m : c[k] >= 2 /\ c[k] \in Nat /\ c[k] < BadCluster
      /\ Linked(table, directory[s].cluster, c, m)
  BY <1>1, FileLinked
<1> HIDE DEF m, c
<1>3. Len(c) = m
  BY <1>2
<1>4. FileChain(i) = c
  BY DEF FileChain, c, s
<1> QED
  BY <1>2, <1>3, <1>4 DEF Linked, s

LEMMA InitBoot == MachineInit => BootInv
<1> SUFFICES ASSUME MachineInit PROVE BootInv
  OBVIOUS
<1>1. VolumeInit /\ BootInit
  BY DEF MachineInit
<1>2. Nibble * EntryValues \in Nat \ {0}
  BY SizesAre
<1>3. BootTypeOK
  BY <1>1, <1>2, BootAssumption DEF BootInit, BootTypeOK
<1>4. LoadedInv
  BY <1>1 DEF BootInit, LoadedInv
<1> QED
  BY <1>1, <1>3, <1>4, BootAssumption DEF BootInv, BootInit

(* The disk is only read.                                                   *)
LEMMA SameVolume ==
    ASSUME UNCHANGED <<directory, table>>
    PROVE  /\ VolumeInit => VolumeInit'
           /\ \A i : FileChain(i)' = FileChain(i) /\ Named(Files[i])' = Named(Files[i])
           /\ \A i, n : Sectors(i, n)' = Sectors(i, n)
BY DEF VolumeInit, FileChain, Sectors, Chain, Named, Visible

LEMMA LoadFileStep ==
    ASSUME BootInv, LoadFile, UNCHANGED <<directory, table>>
    PROVE  BootInv'
<1> DEFINE L == Len(loaded)
           i == L + 1
           found == Matches(Files[i])
<1>0. /\ \A j : FileChain(j)' = FileChain(j) /\ Named(Files[j])' = Named(Files[j])
      /\ \A j, n : Sectors(j, n)' = Sectors(j, n)
  BY SameVolume
<1>1. /\ VolumeInit /\ BootTypeOK /\ LoadedInv /\ resetsleft > 0
      /\ boot_pc = "file" /\ L < Len(Files) /\ resetsleft' = resetsleft
  BY DEF BootInv, LoadFile
<1>2. VolumeInit'
  BY <1>1, SameVolume
<1>3. /\ loaded \in Seq(Seq(Nat)) /\ L \in Nat /\ i \in 1..Len(Files)
      /\ Len(Files) \in Nat /\ L <= Len(Files)
  BY <1>1, BootAssumption DEF BootTypeOK
<1>4. CASE found = {}
  <2>1. boot_pc' = "panic" /\ ax' = ax /\ loaded' = loaded
    BY <1>4 DEF LoadFile
  <2>2. BootTypeOK'
    BY <1>1, <2>1 DEF BootTypeOK
  <2>3. LoadedInv'
    BY <1>1, <1>0, <2>1 DEF LoadedInv
  <2> QED
    BY <1>1, <1>2, <2>1, <2>2, <2>3 DEF BootInv
<1>5. CASE found # {}
  <2> DEFINE s == Min(Named(Files[i]))
  <2>1. boot_pc' = "cluster" /\ ax' = directory[Min(found)].cluster /\ loaded' = Append(loaded, <<>>)
    BY <1>5 DEF LoadFile
  <2>2. found = Named(Files[i]) /\ s \in 1..RootEntries
    BY <1>1, <1>3, <1>5, FoundIs
  <2>3. /\ Len(loaded') = L + 1 /\ loaded'[L + 1] = <<>> /\ loaded' \in Seq(Seq(Nat))
        /\ \A j \in 1..L : loaded'[j] = loaded[j]
    <3>1. <<>> \in Seq(Nat)
      OBVIOUS
    <3> QED
      BY <1>3, <2>1, <3>1
  <2>4. ax' = directory[s].cluster
    BY <2>1, <2>2
  <2>5. ax' \in 0..(Nibble * EntryValues - 1)
    BY <1>1, <2>2, <2>4, VolumeIs DEF IsVolume
  <2>6. BootTypeOK'
    BY <1>1, <1>3, <2>1, <2>3, <2>5 DEF BootTypeOK
  <2> DEFINE n == Len(FileChain(i))
  <2>7. /\ n \in Nat \ {0} /\ DOMAIN FileChain(i) = 1..n /\ FileChain(i)[1] = ax'
    BY <1>1, <1>3, <1>5, <2>2, <2>4, FileChainIs
  <2>9. LoadedInv'
    <3>1. ASSUME NEW j \in 1..(L + 1)
          PROVE  Named(Files[j]) # {} /\ (j < L + 1 => loaded'[j] = Sectors(j, Len(FileChain(j))))
      <4>1. CASE j = L + 1
        BY <1>3, <1>5, <2>2, <4>1
      <4>2. CASE j \in 1..L
        BY <1>1, <2>3, <4>2 DEF LoadedInv
      <4> QED
        BY <1>3, <4>1, <4>2
    <3>2. /\ 1 \in DOMAIN FileChain(i) /\ ax' = FileChain(i)[1]
          /\ loaded'[i] = Sectors(i, 1 - 1)
      <4>1. Sectors(i, 1 - 1) = <<>>
        BY DEF Sectors
      <4> QED
        BY <1>3, <2>3, <2>7, <4>1
    <3>3. ASSUME NEW j \in 1..Len(loaded')
          PROVE  (Named(Files[j]) # {})' /\ (j < Len(loaded') => loaded'[j] = Sectors(j, Len(FileChain(j)))')
      BY <2>3, <1>0, <3>1
    <3>4. i \in 1..Len(Files) /\ i = Len(loaded') /\ (Sectors(i, 1 - 1) = <<>>)
      BY <1>3, <2>3 DEF Sectors
    <3>5. \E j \in 1..Len(Files) : \E k \in (DOMAIN FileChain(j))' :
            /\ j = Len(loaded') /\ ax' = FileChain(j)'[k]
            /\ loaded'[j] = Sectors(j, k - 1)'
      BY <1>0, <3>2, <3>4
    <3> QED
      BY <2>1, <3>3, <3>4, <3>5 DEF LoadedInv
  <2> QED
    BY <1>1, <1>2, <2>6, <2>9 DEF BootInv
<1> QED
  BY <1>4, <1>5

LEMMA ReadClusterStep ==
    ASSUME BootInv, ReadCluster, UNCHANGED <<directory, table>>
    PROVE  BootInv'
<1> DEFINE L == Len(loaded)
<1>0. /\ \A j : FileChain(j)' = FileChain(j) /\ Named(Files[j])' = Named(Files[j])
      /\ \A j, n : Sectors(j, n)' = Sectors(j, n)
  BY SameVolume
<1>1. /\ VolumeInit /\ BootTypeOK /\ LoadedInv /\ resetsleft > 0 /\ TableOK
      /\ boot_pc = "cluster" /\ resetsleft' = resetsleft
  BY TableIs DEF BootInv, ReadCluster
<1>2. VolumeInit'
  BY <1>1, SameVolume
<1>3. PICK i \in 1..Len(Files) : \E k \in DOMAIN FileChain(i) :
        /\ i = L /\ ax = FileChain(i)[k] /\ loaded[i] = Sectors(i, k - 1)
  BY <1>1 DEF LoadedInv
<1> DEFINE c == FileChain(i)
           n == Len(c)
<1>4. PICK k \in DOMAIN c : i = L /\ ax = c[k] /\ loaded[i] = Sectors(i, k - 1)
  BY <1>3
<1>5. /\ loaded \in Seq(Seq(Nat)) /\ L \in Nat /\ i \in 1..L /\ L <= Len(Files)
      /\ i \in Nat /\ Len(Files) \in Nat
  BY <1>1, <1>4, BootAssumption DEF BootTypeOK
<1>6. Named(Files[i]) # {}
  BY <1>1, <1>5 DEF LoadedInv
<1>7. /\ n \in Nat \ {0} /\ c \in [1..n -> DOMAIN table] /\ DOMAIN c = 1..n
      /\ \A j \in 1..n : c[j] >= 2 /\ c[j] \in Nat /\ c[j] < BadCluster
      /\ \A j \in 1..n : IF j = n THEN table[c[j]] > BadCluster ELSE table[c[j]] = c[j + 1]
  BY <1>1, <1>6, FileChainIs
<1> HIDE DEF c, n
<1>8. k \in 1..n /\ k \in Nat /\ ax \in DOMAIN table /\ ax >= 2 /\ ax \in Nat
  <2>1. k \in 1..n /\ ax = c[k]
    BY <1>4, <1>7
  <2>2. c[k] \in DOMAIN table /\ c[k] >= 2 /\ c[k] \in Nat
    BY <1>7, <2>1
  <2> QED
    BY <1>7, <2>1, <2>2
<1>9. ax' = table[ax]
  BY <1>1, <1>8, NextClusterIs DEF ReadCluster
<1>10. OnDisk(Chs(ax + DataSector - 2)) = DataSector + c[k] - 2
  <2>1. ax + DataSector - 2 \in Nat /\ DataSector \in Nat
    BY <1>8, SizesAre
  <2>2. OnDisk(Chs(ax + DataSector - 2)) = ax + DataSector - 2
    BY <2>1, DriveReads
  <2> QED
    BY <1>4, <1>8, <2>1, <2>2
<1>11. loaded' = [loaded EXCEPT ![i] = Append(Sectors(i, k - 1), DataSector + c[k] - 2)]
  BY <1>4, <1>10 DEF ReadCluster
<1>12. /\ Append(Sectors(i, k - 1), DataSector + c[k] - 2) = Sectors(i, k)
       /\ Sectors(i, k) \in Seq(Nat)
  <2> DEFINE D == DataSector
             f == [j \in 1..(k - 1) |-> D + c[j] - 2]
             g == [j \in 1..k |-> D + c[j] - 2]
  <2>1. D \in Nat
    BY SizesAre
  <2>2. Sectors(i, k - 1) = f /\ Sectors(i, k) = g
    BY DEF Sectors, c
  <2>3. \A j \in 1..k : D + c[j] - 2 \in Nat
    <3>1. \A j \in 1..k : c[j] >= 2 /\ c[j] \in Nat
      BY <1>7, <1>8
    <3> HIDE DEF D
    <3> QED
      BY <2>1, <3>1
  <2> HIDE DEF D
  <2>4. f \in Seq(Nat) /\ Len(f) = k - 1 /\ g \in Seq(Nat) /\ Len(g) = k
    BY <1>8, <2>3
  <2>5. Append(f, D + c[k] - 2) = g
    BY <1>8, <2>4
  <2> QED
    BY <2>2, <2>4, <2>5 DEF D
<1>13. /\ Len(loaded') = L /\ loaded' \in Seq(Seq(Nat)) /\ loaded'[i] = Sectors(i, k)
       /\ \A j \in 1..(L - 1) : loaded'[j] = loaded[j]
  <2> DEFINE x == Sectors(i, k)
  <2>1. loaded' = [loaded EXCEPT ![i] = x] /\ x \in Seq(Nat)
    BY <1>11, <1>12
  <2> HIDE DEF x
  <2>2. loaded' \in Seq(Seq(Nat)) /\ Len(loaded') = L
    BY <1>5, <2>1
  <2>3. loaded'[i] = x
    BY <1>5, <2>1
  <2>4. ASSUME NEW j \in 1..(L - 1) PROVE loaded'[j] = loaded[j]
    BY <1>4, <1>5, <2>1
  <2> QED
    BY <2>2, <2>3, <2>4 DEF x
<1>14. ax' \in 0..(Nibble * EntryValues - 1) /\ ax' \in Nat
  <2>1. table[ax] \in 0..(EntryValues - 1)
    BY <1>1, <1>8 DEF TableOK
  <2>2. EntryValues <= Nibble * EntryValues /\ EntryValues \in Nat /\ Nibble * EntryValues \in Nat
    <3>1. Nibble \in Nat /\ Nibble >= 2 /\ EntryValues \in Nat
      BY SizesAre
    <3> HIDE DEF EntryValues
    <3> QED
      BY <3>1
  <2> DEFINE p == Nibble * EntryValues
  <2> HIDE DEF p
  <2>3. table[ax] \in 0..(p - 1) /\ table[ax] \in Nat
    BY <2>1, <2>2 DEF p
  <2> QED
    BY <1>9, <2>3 DEF p
<1>15. boot_pc' = IF ax' > BadCluster THEN "file" ELSE "cluster"
  BY DEF ReadCluster
<1>16. BootTypeOK'
  BY <1>1, <1>5, <1>13, <1>14, <1>15 DEF BootTypeOK
<1>17. \A j \in 1..L : Named(Files[j]) # {} /\ (j < L => loaded'[j] = Sectors(j, Len(FileChain(j))))
  <2> TAKE j \in 1..L
  <2>1. Named(Files[j]) # {} /\ (j < L => loaded[j] = Sectors(j, Len(FileChain(j))))
    BY <1>1 DEF LoadedInv
  <2>2. j < L => j \in 1..(L - 1)
    BY <1>5
  <2> QED
    BY <1>13, <2>1, <2>2
<1>18. CASE k = n
  <2>1. boot_pc' = "file"
    BY <1>4, <1>7, <1>8, <1>9, <1>15, <1>18
  <2>2. \A j \in 1..L : loaded'[j] = Sectors(j, Len(FileChain(j)))
    BY <1>4, <1>5, <1>13, <1>17, <1>18 DEF c, n
  <2>3. LoadedInv'
    BY <1>0, <1>13, <1>17, <2>1, <2>2 DEF LoadedInv
  <2> QED
    BY <1>1, <1>2, <1>16, <2>3 DEF BootInv
<1>19. CASE k # n
  <2>1. ax' = c[k + 1] /\ k + 1 \in 1..n
    <3>1. table[c[k]] = c[k + 1]
      BY <1>7, <1>8, <1>19
    <3> QED
      BY <1>4, <1>7, <1>8, <1>9, <1>19, <3>1
  <2>2. boot_pc' = "cluster"
    <3>1. c[k + 1] < BadCluster /\ c[k + 1] \in Nat /\ BadCluster \in Nat
      BY <1>7, <2>1, SizesAre
    <3> QED
      BY <1>15, <2>1, <3>1
  <2>3. \E j \in 1..Len(Files) : \E m \in (DOMAIN FileChain(j))' :
            /\ j = Len(loaded') /\ ax' = FileChain(j)'[m]
            /\ loaded'[j] = Sectors(j, m - 1)'
    <3>1. k + 1 \in DOMAIN c /\ k + 1 - 1 = k
      BY <1>7, <1>8, <2>1
    <3> QED
      <4> DEFINE m == k + 1
      <4>1. i = Len(loaded') /\ ax' = c[m] /\ loaded'[i] = Sectors(i, m - 1) /\ m \in DOMAIN c
        <5>1. m \in DOMAIN c /\ m - 1 = k /\ ax' = c[m]
          BY <2>1, <3>1
        <5> HIDE DEF m
        <5>2. Sectors(i, m - 1) = Sectors(i, k)
          BY <5>1
        <5> QED
          BY <1>4, <1>13, <5>1, <5>2
      <4> HIDE DEF m
      <4>2. FileChain(i)' = c /\ Sectors(i, m - 1)' = Sectors(i, m - 1)
        BY <1>0 DEF c
      <4> QED
        BY <4>1, <4>2
  <2>4. LoadedInv'
    BY <1>0, <1>13, <1>17, <2>2, <2>3 DEF LoadedInv
  <2> QED
    BY <1>1, <1>2, <1>16, <2>4 DEF BootInv
<1> QED
  BY <1>18, <1>19

LEMMA StepBoot ==
    ASSUME BootInv, [Booting \/ Running]_machine_vars
    PROVE  BootInv'
<1> DEFINE same == UNCHANGED <<directory, table>>
<1>1. UNCHANGED <<directory, table>>
  BY DEF Booting, Running, machine_vars
<1>2. ASSUME UNCHANGED boot_vars PROVE BootInv'
  BY <1>1, <1>2, SameVolume DEF boot_vars, BootInv, BootTypeOK, LoadedInv
<1>3. ASSUME BootNext PROVE BootInv'
  <2>0. /\ \A j : FileChain(j)' = FileChain(j) /\ Named(Files[j])' = Named(Files[j])
        /\ \A j, n : Sectors(j, n)' = Sectors(j, n)
        /\ VolumeInit' /\ VolumeInit /\ BootTypeOK /\ LoadedInv
        /\ (boot_pc # "panic" => resetsleft > 0)
    BY <1>1, SameVolume DEF BootInv
  <2>1. CASE ReadFails
    <3>0. resetsleft \in 0..Resets /\ Resets \in Nat
      BY <2>0, BootAssumption DEF BootTypeOK
    <3>1. /\ boot_pc \in {"fat", "dir", "cluster"} /\ resetsleft \in Nat /\ resetsleft > 0
          /\ resetsleft' = resetsleft - 1 /\ boot_pc' = (IF resetsleft' = 0 THEN "panic" ELSE boot_pc)
          /\ ax' = ax /\ loaded' = loaded
      BY <2>0, <2>1, <3>0 DEF ReadFails, Reads
    <3>2. BootTypeOK' /\ (boot_pc' # "panic" => resetsleft' > 0)
      BY <2>0, <3>0, <3>1 DEF BootTypeOK
    <3>3. LoadedInv'
      BY <2>0, <3>1 DEF LoadedInv
    <3> QED
      BY <2>0, <3>2, <3>3 DEF BootInv
  <2>2. CASE ReadFat \/ LoadRootDir
    <3>1. /\ loaded = <<>> /\ loaded' = loaded /\ ax' = ax /\ resetsleft' = resetsleft
          /\ boot_pc # "panic" /\ boot_pc' \in {"dir", "file"}
      BY <2>0, <2>2 DEF ReadFat, LoadRootDir, LoadedInv
    <3>2. BootTypeOK'
      BY <2>0, <3>1 DEF BootTypeOK
    <3>3. LoadedInv'
      BY <2>0, <3>1 DEF LoadedInv
    <3> QED
      BY <2>0, <3>1, <3>2, <3>3 DEF BootInv
  <2>3. CASE LoadFile
    BY <1>1, <2>3, LoadFileStep
  <2>4. CASE JumpToKernel
    <3>1. /\ boot_pc = "file" /\ Len(loaded) = Len(Files) /\ boot_pc' = "kernel"
          /\ loaded' = loaded /\ ax' = ax /\ resetsleft' = resetsleft
      BY <2>4 DEF JumpToKernel
    <3>2. BootTypeOK'
      BY <2>0, <3>1 DEF BootTypeOK
    <3>3. LoadedInv'
      BY <2>0, <3>1 DEF LoadedInv
    <3> QED
      BY <2>0, <3>1, <3>2, <3>3 DEF BootInv
  <2>5. CASE ReadCluster
    BY <1>1, <2>5, ReadClusterStep
  <2> QED
    BY <1>3, <2>1, <2>2, <2>3, <2>4, <2>5 DEF BootNext
<1>4. UNCHANGED machine_vars => UNCHANGED boot_vars
  BY DEF machine_vars
<1> QED
  BY <1>2, <1>3, <1>4 DEF Booting, Running

LEMMA BootInvariance == MachineSpec => []BootInv
<1>1. BootInv /\ [Booting \/ Running]_machine_vars => BootInv'
  BY StepBoot
<1> QED
  BY <1>1, InitBoot, PTL DEF MachineSpec

(* boot.s: the kernel is entered only with all files in memory, each with   *)
(* all clusters of its chain in their order, however many reads failed.     *)
THEOREM KernelLoaded == MachineSpec => []KernelWhole
<1>1. BootInv => KernelWhole
  <2> SUFFICES ASSUME BootInv, boot_pc = "kernel"
               PROVE  loaded = [i \in DOMAIN Files |->
                        LET s == Min(Named(Files[i]))
                        IN  [k \in DOMAIN Chain(directory[s].cluster) |->
                                DataSector + Chain(directory[s].cluster)[k] - 2]]
    BY DEF KernelWhole
  <2>1. /\ VolumeInit /\ loaded \in Seq(Seq(Nat)) /\ Len(loaded) = Len(Files)
        /\ Len(Files) \in Nat /\ DOMAIN Files = 1..Len(Files)
        /\ \A i \in 1..Len(loaded) : /\ Named(Files[i]) # {}
                                      /\ loaded[i] = Sectors(i, Len(FileChain(i)))
    BY BootAssumption DEF BootInv, BootTypeOK, LoadedInv
  <2>2. ASSUME NEW i \in 1..Len(Files)
        PROVE  loaded[i] = [k \in DOMAIN FileChain(i) |-> DataSector + FileChain(i)[k] - 2]
    BY <2>1, FileChainIs DEF Sectors
  <2>3. loaded = [i \in DOMAIN Files |->
                    [k \in DOMAIN FileChain(i) |-> DataSector + FileChain(i)[k] - 2]]
    <3>1. loaded = [i \in 1..Len(Files) |-> loaded[i]]
      BY <2>1
    <3> QED
      BY <2>1, <2>2, <3>1
  <2> QED
    BY <2>3 DEF FileChain
<1> QED
  BY <1>1, BootInvariance, PTL

-----------------------------------------------------------------------------
(* Numbers of two limbs, which the positions on a volume are.               *)
Small(a, n) ==
    /\ a \in Uint64 /\ a[2] = 0 /\ a[3] = 0
    /\ n \in Nat /\ n = a[0] + Limb * a[1]

LEMMA SmallIs ==
    ASSUME NEW a, NEW n, Small(a, n)
    PROVE  /\ Value(a) = n /\ n < Limb * Limb
           /\ a[0] = n % Limb /\ a[1] = n \div Limb /\ a[0] \in Digit /\ a[1] \in Digit
<1>1. /\ a[0] \in Digit /\ a[1] \in Digit /\ Limb \in Nat \ {0}
      /\ a[2] = 0 /\ a[3] = 0 /\ n \in Nat /\ n = a[0] + Limb * a[1]
  BY LimbsAre, LimbIs DEF Limbs, Small
<1>2. Value(a) = a[0] + Limb * (a[1] + Limb * (0 + Limb * 0))
  BY <1>1 DEF Value
<1>3. a[0] \in 0..(Limb - 1) /\ a[1] \in 0..(Limb - 1)
  BY <1>1 DEF Digit
<1> HIDE DEF Limb
<1>4. Value(a) = n
  BY <1>1, <1>2, <1>3
<1>5. n = Limb * a[1] + a[0] /\ a[1] \in Nat
  BY <1>1, <1>3
<1>6. n \div Limb = a[1] /\ n % Limb = a[0]
  BY <1>1, <1>3, <1>5, Quotient
<1>7. n < Limb * Limb
  <2>1. Limb * a[1] <= Limb * (Limb - 1) /\ Limb * (Limb - 1) = Limb * Limb - Limb
    BY <1>1, <1>3
  <2> QED
    BY <1>1, <1>3, <1>5, <2>1
<1> QED
  BY <1>1, <1>4, <1>6, <1>7

LEMMA QuadSmall ==
    ASSUME NEW i \in Digit, NEW j \in Digit
    PROVE  Small(Quad(i, j, 0, 0), i + Limb * j)
<1>1. 0 \in Digit /\ Limb \in Nat
  BY LimbIs DEF Digit
<1>2. i + Limb * j \in Nat
  BY <1>1 DEF Digit
<1> QED
  BY <1>1, <1>2, QuadIs DEF Small

LEMMA WordSmall ==
    ASSUME NEW n \in Digit
    PROVE  Small(Word(n), n)
<1>1. 0 \in Digit /\ Limb \in Nat /\ n \in Nat
  BY LimbIs DEF Digit
<1>2. Word(n) = Quad(n, 0, 0, 0)
  BY DEF Word, Init64
<1>3. Small(Quad(n, 0, 0, 0), n + Limb * 0)
  BY <1>1, QuadSmall
<1> HIDE DEF Limb
<1>4. n + Limb * 0 = n
  BY <1>1
<1> QED
  BY <1>2, <1>3, <1>4

LEMMA U64Small ==
    ASSUME NEW n \in 0..(Limb * Limb - 1)
    PROVE  Small(U64(n), n) /\ n \in Nat
<1>1. Limb \in Nat \ {0} /\ Limb * Limb \in Nat
  BY LimbIs
<1> DEFINE q == n \div Limb
           m == n % Limb
<1> HIDE DEF Limb
<1>2. n \in Nat /\ n < Limb * Limb
  BY <1>1
<1>3. n = Limb * q + m /\ m \in 0..(Limb - 1) /\ q \in Nat
  BY <1>1, <1>2, Divide
<1>4. q < Limb
  <2> SUFFICES ASSUME q >= Limb PROVE FALSE
    BY <1>1, <1>3
  <2> HIDE DEF q, m
  <2>1. PICK d \in Nat : q = Limb + d
    <3>1. q - Limb \in Nat /\ q = Limb + (q - Limb)
      BY <1>1, <1>3
    <3> QED
      BY <3>1
  <2>2. Limb * q = Limb * Limb + Limb * d /\ Limb * d \in Int /\ Limb * d >= 0
    BY <1>1, <2>1, TimesNat
  <2> QED
    BY <1>1, <1>2, <1>3, <2>2
<1>5. U64(n) = Quad(m, q, 0, 0)
  BY DEF U64, Init64
<1> HIDE DEF q, m
<1>6. m \in Digit /\ q \in Digit
  BY <1>1, <1>3, <1>4 DEF Digit
<1>7. m + Limb * q = n
  BY <1>1, <1>3
<1> QED
  BY <1>2, <1>5, <1>6, <1>7, QuadSmall

(* A number below the square of a limb has two limbs.                       *)
LEMMA ValueSmall ==
    ASSUME NEW a \in Uint64, Value(a) < Limb * Limb
    PROVE  Small(a, Value(a))
<1>1. /\ a[0] \in Digit /\ a[1] \in Digit /\ a[2] \in Digit /\ a[3] \in Digit
      /\ Limb \in Nat \ {0} /\ Limb * Limb \in Nat /\ Value(a) \in Nat
  BY LimbsAre, LimbIs, ValueIs DEF Limbs
<1>2. \A i \in 0..3 : a[i] \in Nat
  <2>1. a[0] \in Nat /\ a[1] \in Nat /\ a[2] \in Nat /\ a[3] \in Nat
    BY <1>1 DEF Digit
  <2> QED
    BY <2>1
<1> DEFINE h == a[2] + Limb * a[3]
<1>3. Value(a) = a[0] + Limb * (a[1] + Limb * h)
  BY DEF Value
<1>4. h \in Nat
  BY <1>1, <1>2
<1>5. h = 0
  <2> SUFFICES ASSUME h # 0 PROVE FALSE
    OBVIOUS
  <2> HIDE DEF h, Limb
  <2>1. Limb * h >= Limb
    <3>1. PICK d \in Nat : h = 1 + d
      <4>1. h - 1 \in Nat /\ h = 1 + (h - 1)
        BY <1>4
      <4> QED
        BY <4>1
    <3>2. Limb * h = Limb + Limb * d /\ Limb * d \in Int /\ Limb * d >= 0
      BY <1>1, <3>1, TimesNat
    <3> QED
      BY <1>1, <3>2
  <2> DEFINE g == a[1] + Limb * h
  <2>2. g \in Nat /\ g >= Limb
    BY <1>1, <1>2, <1>4, <2>1
  <2>3. Limb * g >= Limb * Limb
    <3> HIDE DEF g
    <3>1. PICK d \in Nat : g = Limb + d
      <4>1. g - Limb \in Nat /\ g = Limb + (g - Limb)
        BY <1>1, <2>2
      <4> QED
        BY <4>1
    <3>2. Limb * g = Limb * Limb + Limb * d /\ Limb * d \in Int /\ Limb * d >= 0
      BY <1>1, <3>1, TimesNat
    <3> QED
      BY <1>1, <3>2
  <2>4. Value(a) = a[0] + Limb * g
    BY <1>3
  <2> HIDE DEF g
  <2>5. Limb * g \in Int
    BY <1>1, <2>2
  <2> QED
    BY <1>1, <1>2, <2>3, <2>4, <2>5
<1>6. a[2] = 0 /\ a[3] = 0
  <2>1. a[3] = 0
    <3> SUFFICES ASSUME a[3] # 0 PROVE FALSE
      OBVIOUS
    <3>1. a[3] >= 1 /\ a[3] \in Nat /\ a[2] \in Nat
      BY <1>2
    <3> HIDE DEF Limb
    <3>2. Limb * a[3] >= Limb
      <4>1. PICK d \in Nat : a[3] = 1 + d
        <5>1. a[3] - 1 \in Nat /\ a[3] = 1 + (a[3] - 1)
          BY <3>1
        <5> QED
          BY <5>1
      <4>2. Limb * a[3] = Limb + Limb * d /\ Limb * d \in Int /\ Limb * d >= 0
        BY <1>1, <4>1, TimesNat
      <4> QED
        BY <1>1, <4>2
    <3> QED
      BY <1>1, <1>5, <3>1, <3>2
  <2>2. Limb * a[3] = 0
    BY <1>1, <2>1
  <2> QED
    BY <1>2, <1>5, <2>1, <2>2
<1>7. Value(a) = a[0] + Limb * a[1]
  <2>1. Value(a) = a[0] + Limb * (a[1] + Limb * 0)
    BY <1>3, <1>5
  <2> QED
    BY <1>1, <1>2, <2>1
<1> QED
  BY <1>1, <1>6, <1>7 DEF Small

-----------------------------------------------------------------------------
(* uint64.c with such numbers.                                              *)

LEMMA SumTyped == ASSUME NEW x \in Int, NEW t \in Int PROVE Sum(x, t) \in Digit
<1>1. Limb \in Nat \ {0} /\ x + t \in Int
  BY LimbIs
<1> HIDE DEF Limb
<1> QED
  BY <1>1 DEF Sum, Digit

LEMMA AddTyped ==
    ASSUME NEW a \in Uint64, NEW b \in Uint64
    PROVE  Add64(a, b) \in Uint64
<1>1. /\ a[0] \in Int /\ a[1] \in Int /\ a[2] \in Int /\ a[3] \in Int
      /\ b[0] \in Int /\ b[1] \in Int /\ b[2] \in Int /\ b[3] \in Int
  BY LimbsAre, LimbIs DEF Limbs, Digit
<1>2. ASSUME NEW x, NEW t PROVE Carry(x, t) \in Int
  BY DEF Carry
<1> DEFINE t0 == b[0]
           t1 == Sum(b[1], Carry(a[0], t0))
           t2 == Sum(b[2], Carry(a[1], t1))
           t3 == Sum(b[3], Carry(a[2], t2))
<1>3. t1 \in Digit /\ t2 \in Digit /\ t3 \in Digit
  BY <1>1, <1>2, SumTyped
<1>4. t1 \in Int /\ t2 \in Int /\ t3 \in Int
  BY <1>3, LimbIs DEF Digit
<1>5. /\ Sum(a[0], t0) \in Digit /\ Sum(a[1], t1) \in Digit
      /\ Sum(a[2], t2) \in Digit /\ Sum(a[3], t3) \in Digit
  <2> HIDE DEF t1, t2, t3
  <2> QED
    BY <1>1, <1>4, SumTyped
<1>6. Add64(a, b) = Quad(Sum(a[0], t0), Sum(a[1], t1), Sum(a[2], t2), Sum(a[3], t3))
  BY DEF Add64
<1> HIDE DEF t0, t1, t2, t3
<1> QED
  BY <1>5, <1>6, QuadIs

LEMMA WordTyped == ASSUME NEW n \in Digit PROVE Word(n) \in Uint64
BY WordSmall DEF Small

LEMMA AddWordTyped ==
    ASSUME NEW a \in Uint64, NEW n \in Digit
    PROVE  Add64(a, Word(n)) \in Uint64 /\ Add64_16(a, n) \in Uint64
BY AddTyped, WordTyped, AddWord

LEMMA DecTyped == ASSUME NEW a \in Uint64 PROVE Dec64(a) \in Uint64
<1>1. /\ a[0] \in Int /\ a[1] \in Int /\ a[2] \in Int /\ a[3] \in Int /\ Limb \in Int
  BY LimbsAre, LimbIs DEF Limbs, Digit
<1> DEFINE ones == Limb - 1
           s0 == Sum(a[0], ones)
           c0 == IF s0 > ones THEN 1 ELSE 0
           t1 == Sum(0, Limb - c0)
           s1 == Sum(a[1], t1)
           c1 == IF s1 > t1 THEN 1 ELSE 0
           t2 == Sum(0, Limb - c1)
           s2 == Sum(a[2], t2)
           c2 == IF s2 > t2 THEN 1 ELSE 0
           s3 == Sum(a[3], Limb - c2)
<1>2. Dec64(a) = Quad(s0, s1, s2, s3)
  BY DEF Dec64
<1>3. ASSUME NEW x \in Digit PROVE x \in Int
  BY LimbIs DEF Digit
<1>4. s0 \in Digit /\ c0 \in Int
  BY <1>1, SumTyped
<1> HIDE DEF c0, s0
<1>5. t1 \in Digit
  BY <1>1, <1>4, SumTyped
<1> HIDE DEF t1
<1>6. s1 \in Digit /\ c1 \in Int
  <2>1. t1 \in Int
    BY <1>3, <1>5
  <2>2. s1 \in Digit
    BY <1>1, <2>1, SumTyped
  <2>3. c1 \in Int
    OBVIOUS
  <2> QED
    BY <2>2, <2>3
<1> HIDE DEF c1, s1
<1>7. t2 \in Digit
  BY <1>1, <1>6, SumTyped
<1> HIDE DEF t2
<1>8. s2 \in Digit /\ c2 \in Int
  <2>1. t2 \in Int
    BY <1>3, <1>7
  <2>2. s2 \in Digit
    BY <1>1, <2>1, SumTyped
  <2>3. c2 \in Int
    OBVIOUS
  <2> QED
    BY <2>2, <2>3
<1> HIDE DEF c2, s2
<1>9. s3 \in Digit
  BY <1>1, <1>8, SumTyped
<1> HIDE DEF s3
<1> QED
  BY <1>2, <1>4, <1>6, <1>8, <1>9, QuadIs

(* dec64 is right where there is nothing to borrow.                         *)
LEMMA DecWord ==
    ASSUME NEW n \in Digit, n > 0
    PROVE  Dec64(Word(n)) = Word(n - 1)
<1>1. /\ Word(n)[0] = n /\ Word(n)[1] = 0 /\ Word(n)[2] = 0 /\ Word(n)[3] = 0
  BY DEF Word, Init64, Quad
<1>2. Limb \in Nat /\ Limb >= 2 /\ n \in Nat /\ n < Limb
  BY LimbIs DEF Digit
<1> HIDE DEF Limb
<1>3. Sum(n, Limb - 1) = n - 1
  <2>1. n + (Limb - 1) = Limb * 1 + (n - 1) /\ n - 1 \in 0..(Limb - 1) /\ n + (Limb - 1) \in Nat
    BY <1>2
  <2> QED
    BY <1>2, <2>1 DEF Sum
<1>4. Sum(0, Limb - 0) = 0 /\ Sum(0, 0) = 0
  <2>1. 0 + (Limb - 0) = Limb * 1 + 0
    BY <1>2
  <2> QED
    BY <1>2, <2>1 DEF Sum
<1>5. ~ (n - 1 > Limb - 1) /\ ~ (0 > 0)
  BY <1>2
<1>6. Dec64(Word(n)) = Quad(n - 1, 0, 0, 0)
  BY <1>1, <1>3, <1>4, <1>5 DEF Dec64
<1> QED
  BY <1>6 DEF Word, Init64

(* add64 adds two numbers of two limbs if their sum has two limbs.          *)
LEMMA AddSmall ==
    ASSUME NEW a, NEW m, Small(a, m), NEW b, NEW n, Small(b, n), m + n < Limb * Limb
    PROVE  Small(Add64(a, b), m + n)
<1>1. /\ a[0] \in Digit /\ a[1] \in Digit /\ b[0] \in Digit /\ b[1] \in Digit
      /\ a[2] = 0 /\ a[3] = 0 /\ b[2] = 0 /\ b[3] = 0
      /\ m = a[0] + Limb * a[1] /\ n = b[0] + Limb * b[1]
  BY SmallIs DEF Small
<1>2. Limb \in Nat /\ Limb >= 2 /\ 0 \in Digit
  BY LimbIs DEF Digit
<1> DEFINE c0 == Carry(a[0], b[0])
           s0 == Sum(a[0], b[0])
<1>3. c0 \in {0, 1} /\ s0 \in Digit /\ s0 = a[0] + b[0] - Limb * c0
  BY <1>1, SumCarry
<1> HIDE DEF c0, s0
<1>4. a[1] + b[1] + c0 < Limb
  <2> SUFFICES ASSUME a[1] + b[1] + c0 >= Limb PROVE FALSE
    BY <1>1, <1>2, <1>3 DEF Digit
  <2>1. /\ a[0] \in Nat /\ a[1] \in Nat /\ b[0] \in Nat /\ b[1] \in Nat /\ c0 \in Nat /\ s0 \in Nat
    BY <1>1, <1>3 DEF Digit
  <2> HIDE DEF Limb
  <2> DEFINE e == a[1] + b[1] + c0
  <2>2. e \in Nat /\ e >= Limb
    BY <2>1
  <2>3. m + n = s0 + Limb * e
    <3>1. Limb * e = Limb * a[1] + Limb * b[1] + Limb * c0
      BY <1>2, <2>1
    <3> DEFINE x == Limb * a[1]
               y == Limb * b[1]
               z == Limb * c0
               w == Limb * e
    <3>2. x \in Int /\ y \in Int /\ z \in Int /\ w = x + y + z /\ m = a[0] + x /\ n = b[0] + y
          /\ s0 = a[0] + b[0] - z
      BY <1>1, <1>2, <1>3, <2>1, <3>1
    <3> HIDE DEF x, y, z, w
    <3>3. m + n = s0 + w
      BY <2>1, <3>2
    <3> QED
      BY <3>3 DEF w
  <2> HIDE DEF e
  <2>4. Limb * e >= Limb * Limb
    <3>1. PICK d \in Nat : e = Limb + d
      <4>1. e - Limb \in Nat /\ e = Limb + (e - Limb)
        BY <1>2, <2>2
      <4> QED
        BY <4>1
    <3>2. Limb * e = Limb * Limb + Limb * d /\ Limb * d \in Int /\ Limb * d >= 0
      BY <1>2, <3>1, TimesNat
    <3> QED
      BY <1>2, <3>2
  <2>5. Limb * e \in Int /\ Limb * Limb \in Int
    BY <1>2, <2>2
  <2> QED
    BY <2>1, <2>3, <2>4, <2>5
<1> DEFINE t1 == Sum(b[1], c0)
           s1 == Sum(a[1], t1)
<1>5. t1 = b[1] + c0 /\ t1 \in Digit
  <2>1. b[1] + c0 \in Digit
    BY <1>1, <1>2, <1>3, <1>4 DEF Digit
  <2>2. ASSUME NEW x \in Digit PROVE x % Limb = x
    BY LimbIs DEF Digit
  <2> QED
    BY <2>1, <2>2 DEF Sum
<1>6. s1 = a[1] + b[1] + c0 /\ s1 \in Digit
  <2>1. a[1] + t1 \in Digit /\ a[1] + t1 = a[1] + b[1] + c0
    BY <1>1, <1>2, <1>3, <1>4, <1>5 DEF Digit
  <2>2. ASSUME NEW x \in Digit PROVE x % Limb = x
    BY LimbIs DEF Digit
  <2> QED
    BY <2>1, <2>2 DEF Sum
<1> HIDE DEF s1, t1
<1>7. Carry(a[1], t1) = 0
  <2>1. s1 >= t1
    BY <1>1, <1>2, <1>3, <1>5, <1>6 DEF Digit
  <2> QED
    BY <1>2, <1>5, <1>6, <2>1 DEF Carry, s1, Digit
<1>8. Sum(0, 0) = 0 /\ Carry(0, 0) = 0
  <2>1. Sum(0, 0) = 0
    BY <1>2 DEF Sum
  <2> QED
    BY <2>1 DEF Carry
<1>9. Add64(a, b) = Quad(s0, s1, 0, 0)
  BY <1>1, <1>7, <1>8 DEF Add64, s0, s1, t1, c0
<1>10. s0 + Limb * s1 = m + n
  <2>1. /\ a[0] \in Nat /\ a[1] \in Nat /\ b[0] \in Nat /\ b[1] \in Nat /\ c0 \in Nat /\ s0 \in Nat
    BY <1>1, <1>3 DEF Digit
  <2> HIDE DEF Limb
  <2>2. Limb * s1 = Limb * a[1] + Limb * b[1] + Limb * c0
    BY <1>2, <1>6, <2>1
  <2> DEFINE x == Limb * a[1]
             y == Limb * b[1]
             z == Limb * c0
             w == Limb * s1
  <2>3. x \in Int /\ y \in Int /\ z \in Int /\ w = x + y + z /\ m = a[0] + x /\ n = b[0] + y
        /\ s0 = a[0] + b[0] - z
    BY <1>1, <1>2, <1>3, <2>1, <2>2
  <2> HIDE DEF x, y, z, w
  <2>4. s0 + w = m + n
    BY <2>1, <2>3
  <2> QED
    BY <2>4 DEF w
<1> QED
  BY <1>3, <1>6, <1>9, <1>10, QuadSmall

LEMMA AddWordSmall ==
    ASSUME NEW a, NEW m, Small(a, m), NEW n \in Digit, m + n < Limb * Limb
    PROVE  /\ Small(Add64_16(a, n), m + n) /\ Small(Add64(a, Word(n)), m + n)
BY AddSmall, WordSmall, AddWord DEF Small

(* shl64 multiplies.                                                        *)
LEMMA ShlSmall ==
    ASSUME NEW n \in Digit, NEW k \in 0..LimbBits
    PROVE  Small(Shl64(Word(n), k), n * 2 ^ k)
<1> DEFINE B == 2 ^ (LimbBits - k)
           R == 2 ^ k
<1>1. B \in Nat \ {0} /\ R \in Nat \ {0} /\ B * R = Limb /\ 0 \in Digit /\ Limb \in Nat \ {0} /\ n \in Nat
  <2>1. R * B = Limb /\ R \in Nat \ {0} /\ B \in Nat \ {0}
    BY PowerIs
  <2> HIDE DEF R, B
  <2>2. B * R = R * B
    BY <2>1
  <2> QED
    BY <2>1, <2>2, LimbIs DEF Digit
<1>2. /\ Word(n)[0] = n /\ Word(n)[1] = 0 /\ Word(n)[2] = 0 /\ Word(n)[3] = 0
  BY DEF Word, Init64, Quad
<1> HIDE DEF B, R
<1>3. /\ (n * R) % Limb = (n % B) * R /\ n \div B \in Digit
      /\ n = B * (n \div B) + (n % B) /\ n \div B \in Nat /\ n % B \in 0..(B - 1)
  BY <1>1, Halves
<1>4. (0 * R) % Limb = 0 /\ 0 \div B = 0
  <2> HIDE DEF Limb
  <2>1. 0 * R = 0
    BY <1>1
  <2>2. 0 = B * 0 + 0
    BY <1>1
  <2> QED
    BY <1>1, <2>1, <2>2, Quotient
<1> DEFINE lo == (n * R) % Limb
           hi == n \div B
<1>5. Shl64(Word(n), k) = Quad(lo, 0 + hi, 0 + 0, 0 + 0)
  BY <1>2, <1>4 DEF Shl64, B, R
<1>6. lo \in Digit /\ hi \in Digit /\ 0 + hi = hi /\ 0 + 0 = 0
  <2>1. n * R \in Int
    BY <1>1
  <2>2. lo \in Digit
    <3> DEFINE x == n * R
    <3> HIDE DEF x, Limb
    <3> QED
      BY <1>1, <2>1 DEF Digit, x
  <2> QED
    BY <1>3, <2>2
<1>7. lo + Limb * hi = n * R
  <2> DEFINE m == n % B
  <2>1. lo = m * R /\ n = B * hi + m /\ hi \in Nat /\ m \in Nat
    BY <1>1, <1>3
  <2> HIDE DEF lo, hi, m
  <2>2. n * R = B * hi * R + m * R
    BY <1>1, <2>1
  <2>3. B * hi * R = Limb * hi
    <3>1. B * hi * R = (B * R) * hi
      BY <1>1, <2>1, TimesSwap
    <3> QED
      BY <1>1, <3>1
  <2> DEFINE x == B * hi * R
             y == m * R
  <2>4. x \in Int /\ y \in Int /\ n * R = x + y /\ x = Limb * hi /\ lo = y
    BY <1>1, <2>1, <2>2, <2>3
  <2> HIDE DEF x, y
  <2> QED
    BY <2>4
<1> HIDE DEF lo, hi
<1>8. Small(Quad(lo, hi, 0, 0), lo + Limb * hi)
  BY <1>6, QuadSmall
<1> QED
  BY <1>5, <1>6, <1>7, <1>8 DEF R

-----------------------------------------------------------------------------
(* Where things lie on a volume, and that its positions have two limbs.     *)
LEMMA ProductGrows ==
    ASSUME NEW x \in Nat, NEW y \in Nat, NEW z \in Nat, x <= y
    PROVE  x * z <= y * z /\ z * x <= z * y /\ x * z \in Nat /\ y * z \in Nat /\ x * z = z * x
<1>1. PICK d \in Nat : y = x + d
  <2>1. y - x \in Nat /\ y = x + (y - x)
    OBVIOUS
  <2> QED
    BY <2>1
<1>2. y * z = x * z + d * z /\ x * z \in Int /\ d * z \in Int /\ x * z >= 0 /\ d * z >= 0
  BY <1>1, TimesNat
<1>3. x * z = z * x /\ y * z = z * y
  OBVIOUS
<1> QED
  BY <1>2, <1>3

LEMMA GeometryIs ==
    /\ Limb \in Nat /\ Limb >= 16 /\ Limb * Limb \in Nat
    /\ SectorSize \in Digit /\ SectorSize > 0 /\ SectorSize = 2 ^ SectorShift
    /\ SectorShift \in 0..LimbBits
    /\ 2 * SectorSize <= Limb /\ 2 * EntryValues <= Limb /\ Nibble * EntryValues = Limb
    /\ EntrySize \in Digit /\ Reserved \in Digit /\ RootSector \in Digit
    /\ RootSectors * SectorSize \in Digit
    /\ Reserved * SectorSize + Limb < Limb * Limb
    /\ DataSector * SectorSize = RootSector * SectorSize + RootSectors * SectorSize
    /\ EntryValues * SectorSize + DataSector * SectorSize < Limb * Limb
    /\ Reserved * SectorSize \in Nat /\ DataSector * SectorSize \in Nat /\ RootSector * SectorSize \in Nat
<1>1. /\ Nibble * EntryValues = Limb
      /\ SectorShift \in 0..(LimbBits - 1) /\ SectorSize = 2 ^ SectorShift
      /\ RootSector < Limb /\ EntrySize < Limb /\ RootSectors * SectorSize < Limb
  BY FatAssumption
<1>2. Limb \in Nat /\ 2 * EntryValues <= Limb /\ Limb >= 16
  <2>1. Nibble \in Nat /\ Nibble >= 2 /\ EntryValues \in Nat /\ EntryValues >= 8
    BY SizesAre
  <2> HIDE DEF EntryValues, Limb
  <2>2. 2 * EntryValues <= Nibble * EntryValues
    BY <2>1, ProductGrows
  <2> QED
    BY <1>1, <2>1, <2>2, LimbIs
<1>3. SectorShift \in 0..LimbBits /\ LimbBits \in Nat
  BY <1>1, LimbAssumption
<1>4. SectorSize \in Nat \ {0} /\ 2 * SectorSize <= Limb
  <2> DEFINE R == 2 ^ (LimbBits - SectorShift)
  <2>1. SectorSize * R = Limb /\ SectorSize \in Nat \ {0} /\ R \in Nat \ {0}
    BY <1>1, <1>3, PowerIs
  <2>2. R # 1
    <3>1. LimbBits \in 0..LimbBits /\ SectorShift \in 0..(LimbBits - 1)
      BY <1>1, <1>3
    <3>2. 2 ^ SectorShift < 2 ^ LimbBits
      BY <3>1, PowerAssumption
    <3>3. SectorSize < Limb
      BY <1>1, <3>2 DEF Limb
    <3> HIDE DEF R, Limb
    <3> QED
      BY <1>2, <2>1, <3>3
  <2> HIDE DEF R, Limb
  <2>3. 2 <= R
    BY <2>1, <2>2
  <2>4. 2 * SectorSize <= R * SectorSize
    BY <2>1, <2>3, ProductGrows
  <2>5. R * SectorSize = SectorSize * R
    BY <2>1
  <2> QED
    BY <2>1, <2>4, <2>5
<1>5. /\ RootSector \in Nat /\ RootSectors \in Nat /\ EntrySize \in Nat /\ DataSector = RootSector + RootSectors
      /\ Reserved \in Nat /\ Reserved <= RootSector /\ EntryValues \in Nat
  <2>1. Fats \in Nat /\ SectorsPerFat \in Nat /\ Reserved \in Nat
    BY VolumeAssumption
  <2>2. Fats * SectorsPerFat \in Int /\ Fats * SectorsPerFat >= 0
    BY <2>1, TimesNat
  <2> QED
    BY <2>1, <2>2, SizesAre DEF RootSector, DataSector
<1> DEFINE S == SectorSize
           L == Limb
           E == EntryValues
           P == RootSector
           Q == RootSectors
           W == Reserved
<1> HIDE DEF L, S, E, P, Q, W
<1>6. L \in Nat /\ S \in Nat /\ E \in Nat /\ P \in Nat /\ Q \in Nat /\ W \in Nat /\ W <= P /\ P < L
      /\ 2 * S <= L /\ 2 * E <= L /\ L >= 16
  BY <1>1, <1>2, <1>4, <1>5 DEF L, S, E, P, Q, W
<1>7. DataSector * S = P * S + Q * S
  BY <1>5, <1>6 DEF P, Q
<1>8. P * S <= L * S - S /\ W * S <= P * S /\ P * S \in Nat /\ W * S \in Nat /\ L * S \in Nat
  <2>1. P <= L - 1 /\ L - 1 \in Nat
    BY <1>6
  <2>2. P * S <= (L - 1) * S /\ P * S \in Nat /\ W * S <= P * S /\ W * S \in Nat /\ L * S \in Nat
    BY <1>6, <2>1, ProductGrows
  <2>3. (L - 1) * S = L * S - S
    BY <1>6
  <2> QED
    BY <2>2, <2>3
<1>9. 2 * (L * S) <= L * L /\ 4 * (E * S) <= L * L /\ 16 * L <= L * L /\ L * L \in Nat /\ E * S \in Nat
  <2>1. L * (2 * S) <= L * L /\ L * L \in Nat
    <3>1. 2 * S \in Nat
      BY <1>6
    <3> QED
      BY <1>6, <3>1, ProductGrows
  <2>2. L * (2 * S) = 2 * (L * S)
    BY <1>6
  <2>3. (2 * E) * (2 * S) <= L * (2 * S) /\ (2 * E) * (2 * S) = 4 * (E * S) /\ E * S \in Nat
    <3>1. 2 * S \in Nat /\ 2 * E \in Nat
      BY <1>6
    <3>2. (2 * E) * (2 * S) <= L * (2 * S)
      BY <1>6, <3>1, ProductGrows
    <3>3. (2 * E) * (2 * S) = 4 * (E * S)
      BY <1>6
    <3>4. E * S \in Nat
      BY <1>6, ProductGrows
    <3> QED
      BY <3>2, <3>3, <3>4
  <2>4. 16 * L <= L * L
    BY <1>6, ProductGrows
  <2> DEFINE ls == L * S
             es == E * S
             ll == L * L
             l2 == L * (2 * S)
             e2 == (2 * E) * (2 * S)
  <2>5. l2 <= ll /\ ll \in Nat /\ l2 = 2 * ls /\ e2 <= l2 /\ e2 = 4 * es /\ es \in Nat /\ 16 * L <= ll
    BY <2>1, <2>2, <2>3, <2>4
  <2>6. ls \in Nat
    BY <1>8
  <2> HIDE DEF ls, es, ll, l2, e2
  <2>7. 2 * ls <= ll /\ 4 * es <= ll /\ 16 * L <= ll /\ ll \in Nat /\ es \in Nat
    BY <2>5, <2>6, <1>6
  <2> QED
    BY <2>7 DEF ls, es, ll
<1>10. Q * S \in Nat /\ Q * S < L
  <2>1. Q * S < L
    BY <1>1 DEF Q, S, L
  <2> QED
    BY <1>6, <2>1, ProductGrows
<1>11. W * S + L < L * L /\ E * S + DataSector * S < L * L
  <2> DEFINE ps == P * S
             ws == W * S
             qs == Q * S
             ls == L * S
             es == E * S
             ll == L * L
  <2>1. /\ ps \in Nat /\ ws \in Nat /\ qs \in Nat /\ ls \in Nat /\ es \in Nat /\ ll \in Nat
        /\ ps <= ls - S /\ ws <= ps /\ 2 * ls <= ll /\ 4 * es <= ll /\ 16 * L <= ll /\ qs < L
        /\ DataSector * S = ps + qs
    BY <1>7, <1>8, <1>9, <1>10
  <2> HIDE DEF ps, ws, qs, ls, es, ll
  <2>2. ws + L < ll /\ es + DataSector * S < ll
    BY <1>6, <2>1
  <2> QED
    BY <2>2 DEF ws, es, ll
<1>12. W \in Digit /\ P \in Digit /\ S \in Digit /\ Q * S \in Digit /\ EntrySize \in Digit
  BY <1>1, <1>5, <1>6, <1>10 DEF Digit, L
<1>13. DataSector * S \in Nat
  BY <1>7, <1>8, <1>10
<1> QED
  BY <1>1, <1>2, <1>3, <1>4, <1>6, <1>7, <1>8, <1>9, <1>11, <1>12, <1>13 DEF L, S, E, P, Q, W

(* parse_params                                                             *)
LEMMA ParamsAre ==
    /\ ParseParams.cluster_pot = SectorShift /\ SectorShift \in 0..LimbBits
    /\ Small(ParseParams.root_begin, RootSector * SectorSize)
    /\ Small(ParseParams.root_end, DataSector * SectorSize)
    /\ Small(ParseParams.fat_begin, Reserved * SectorSize)
<1>1. /\ SectorShift \in 0..LimbBits /\ SectorSize = 2 ^ SectorShift /\ SectorSize \in Nat \ {0}
      /\ RootSector \in Digit /\ Reserved \in Digit /\ RootSectors * SectorSize \in Digit
      /\ DataSector * SectorSize = RootSector * SectorSize + RootSectors * SectorSize
      /\ EntryValues * SectorSize + DataSector * SectorSize < Limb * Limb
  BY GeometryIs, SizesAre
<1>2. Small(Shl64(Word(RootSector), SectorShift), RootSector * SectorSize)
  BY <1>1, ShlSmall
<1>3. Small(Shl64(Word(Reserved), SectorShift), Reserved * SectorSize)
  BY <1>1, ShlSmall
<1>4. Small(Add64_16(Shl64(Word(RootSector), SectorShift), RootSectors * SectorSize), DataSector * SectorSize)
  <2> DEFINE m == RootSector * SectorSize
             n == RootSectors * SectorSize
             d == DataSector * SectorSize
             e == EntryValues * SectorSize
             a == Shl64(Word(RootSector), SectorShift)
  <2>1. m + n = d /\ d < Limb * Limb
    <3>1. e \in Nat /\ d \in Nat /\ e + d < Limb * Limb /\ Limb * Limb \in Nat /\ m + n = d
      <4>1. EntryValues \in Nat /\ DataSector \in Nat
        BY SizesAre
      <4> HIDE DEF EntryValues, DataSector
      <4>2. e \in Nat
        BY <1>1, <4>1, ProductGrows
      <4> QED
        BY <1>1, <4>2, GeometryIs
    <3> HIDE DEF e, d, Limb
    <3> QED
      BY <3>1
  <2>2. Small(a, m) /\ n \in Digit
    BY <1>1, <1>2
  <2> HIDE DEF m, n, d, a
  <2>3. Small(Add64_16(a, n), m + n)
    BY <2>1, <2>2, AddWordSmall
  <2> QED
    BY <2>1, <2>3 DEF n, d, a
<1>5. Max({p \in 0..LimbBits : SectorSize % 2 ^ p = 0}) = SectorShift
  <2> DEFINE S == {p \in 0..LimbBits : SectorSize % 2 ^ p = 0}
  <2>1. SectorShift \in S
    <3>1. SectorSize % SectorSize = 0
      BY <1>1
    <3> QED
      BY <1>1, <3>1
  <2>2. ASSUME NEW p \in S PROVE p <= SectorShift
    <3> SUFFICES ASSUME p > SectorShift PROVE FALSE
      BY <1>1
    <3>1. p \in 0..LimbBits /\ SectorShift \in 0..(p - 1)
      BY <1>1, LimbAssumption
    <3>2. 2 ^ SectorShift < 2 ^ p /\ 2 ^ p \in Nat \ {0}
      BY <3>1, PowerAssumption
    <3> DEFINE b == 2 ^ p
    <3>3. SectorSize < b /\ b \in Nat \ {0} /\ SectorSize % b = 0
      BY <1>1, <3>2
    <3> HIDE DEF b
    <3>4. SectorSize % b = SectorSize
      BY <1>1, <3>3
    <3> QED
      BY <1>1, <3>3, <3>4
  <2>3. S \subseteq Nat
    BY LimbAssumption
  <2> HIDE DEF S
  <2>4. \E x \in S : \A y \in S : x >= y
    BY <1>1, <2>1, <2>2, <2>3
  <2>5. Max(S) \in S /\ \A y \in S : Max(S) >= y
    BY <2>4 DEF Max
  <2>6. Max(S) <= SectorShift /\ Max(S) >= SectorShift /\ Max(S) \in Nat /\ SectorShift \in Nat
    BY <2>1, <2>2, <2>3, <2>5
  <2>7. Max(S) = SectorShift
    BY <2>6
  <2> QED
    BY <2>7 DEF S
<1> QED
  BY <1>1, <1>2, <1>3, <1>4, <1>5 DEF ParseParams, RootSector

(* The entries of the root directory lie in it, each at an address of its   *)
(* own.                                                                     *)
LEMMA EntriesLie ==
    /\ EntryAddress(1) = RootSector * SectorSize
    /\ \A s \in 1..RootEntries :
        /\ EntryAddress(s) \in Nat /\ EntryAddress(s) < DataSector * SectorSize
        /\ EntryAddress(s) + EntrySize = EntryAddress(s + 1)
        /\ EntryAddress(s) + EntrySize < Limb * Limb
        /\ EntryAddress(s) \in 0..(Limb * Limb - 1)
    /\ \A s, r \in 1..RootEntries : EntryAddress(s) = EntryAddress(r) => s = r
<1> DEFINE P == RootSector * SectorSize
           D == DataSector * SectorSize
           Z == EntrySize
           all == RootEntries * Z
           Q == RootSectors * SectorSize
<1>1. /\ P \in Nat /\ D \in Nat /\ D = P + Q /\ all <= Q /\ D < Limb * Limb /\ Limb * Limb \in Nat
      /\ Z \in Nat \ {0} /\ RootEntries \in Nat \ {0} /\ Z < Limb /\ Limb >= 16 /\ Limb \in Nat
  <2>1. /\ P \in Nat /\ D \in Nat /\ D = P + Q /\ Limb * Limb \in Nat /\ all <= Q /\ Z \in Nat \ {0}
        /\ Z \in Digit /\ RootEntries \in Nat \ {0} /\ Limb >= 16 /\ Limb \in Nat
    BY GeometryIs, SizesAre
  <2>2. EntryValues * SectorSize \in Nat /\ EntryValues * SectorSize + D < Limb * Limb
    <3>1. EntryValues \in Nat /\ SectorSize \in Nat
      BY SizesAre
    <3> HIDE DEF EntryValues, D, Limb
    <3> QED
      BY <3>1, ProductGrows, GeometryIs DEF D
  <2> DEFINE e == EntryValues * SectorSize
             l == Limb * Limb
  <2> HIDE DEF e, l, D
  <2>3. D < l
    BY <2>1, <2>2 DEF e, l
  <2> QED
    BY <2>1, <2>3 DEF l, Digit
<1>2. \A s : EntryAddress(s) = P + (s - 1) * Z
  BY DEF EntryAddress
<1> HIDE DEF P, D, Q, Z
<1>3. all \in Nat /\ Q \in Int
  <2>1. all \in Nat
    BY <1>1, ProductGrows
  <2>2. Q = RootSectors * SectorSize /\ RootSectors \in Nat /\ SectorSize \in Nat
    BY SizesAre DEF Q
  <2> QED
    BY <2>1, <2>2, TimesNat
<1>4. ASSUME NEW s \in 1..RootEntries
      PROVE  /\ EntryAddress(s) \in Nat /\ EntryAddress(s) + Z <= D
             /\ EntryAddress(s) + Z = EntryAddress(s + 1)
  <2>1. s \in Nat /\ s <= RootEntries /\ s - 1 \in Nat
    BY <1>1
  <2>2. s * Z <= all /\ s * Z \in Nat /\ (s - 1) * Z \in Nat
    BY <1>1, <2>1, ProductGrows
  <2>3. (s - 1) * Z + Z = s * Z /\ (s + 1 - 1) * Z = s * Z
    BY <1>1, <2>1
  <2> DEFINE x == (s - 1) * Z
             y == s * Z
  <2>4. x \in Nat /\ y \in Nat /\ x + Z = y /\ y <= all /\ EntryAddress(s) = P + x /\ EntryAddress(s + 1) = P + y
    BY <1>2, <2>2, <2>3
  <2> HIDE DEF x, y, all
  <2> QED
    BY <1>1, <1>3, <2>4
<1>5. EntryAddress(1) = P
  <2>1. (1 - 1) * Z = 0
    BY <1>1
  <2> QED
    BY <1>1, <1>2, <2>1
<1>6. ASSUME NEW s \in 1..RootEntries, NEW r \in 1..RootEntries, EntryAddress(s) = EntryAddress(r), s < r
      PROVE  FALSE
  <2>1. s \in Nat /\ r - 1 \in Nat /\ s <= r - 1 /\ s - 1 \in Nat
    BY <1>1, <1>6
  <2>2. s * Z <= (r - 1) * Z /\ s * Z \in Nat /\ (r - 1) * Z \in Nat /\ (s - 1) * Z \in Nat
    BY <1>1, <2>1, ProductGrows
  <2>3. (s - 1) * Z + Z = s * Z
    BY <1>1, <2>1
  <2> DEFINE x == (s - 1) * Z
             y == s * Z
             z == (r - 1) * Z
  <2>4. x \in Nat /\ y \in Nat /\ z \in Nat /\ x + Z = y /\ y <= z /\ P + x = P + z
    BY <1>2, <1>6, <2>2, <2>3
  <2> HIDE DEF x, y, z
  <2> QED
    BY <1>1, <2>4
<1>7. ASSUME NEW s \in 1..RootEntries, NEW r \in 1..RootEntries, EntryAddress(s) = EntryAddress(r)
      PROVE  s = r
  <2>1. s \in Nat /\ r \in Nat
    BY <1>1
  <2>2. ~ (s < r) /\ ~ (r < s)
    BY <1>6, <1>7
  <2> QED
    BY <2>1, <2>2
<1> DEFINE l == Limb * Limb
<1>8. l \in Nat /\ D < l
  BY <1>1
<1> HIDE DEF l
<1>9. \A s \in 1..RootEntries :
        /\ EntryAddress(s) \in Nat /\ EntryAddress(s) < D
        /\ EntryAddress(s) + Z = EntryAddress(s + 1)
        /\ EntryAddress(s) + Z < l
        /\ EntryAddress(s) \in 0..(l - 1)
  BY <1>1, <1>4, <1>8
<1> QED
  BY <1>5, <1>7, <1>9 DEF P, D, Z, l

-----------------------------------------------------------------------------
(* fat.c: the types, and what the locals of a sleeping read mean.           *)

(* A read that waits for a table entry has bytes to read, and waits for the *)
(* entry of its cluster.                                                    *)
Awaits(r) ==
    /\ r.at \in {"fat", "data"} => Len(r.bytes) < r.count
    /\ r.at = "fat" => Small(r.disk, Reserved * SectorSize
                                        + ((r.cluster + r.cluster \div 2) % Limb))

FatInv ==
    /\ VolumeInit /\ FatTypeOK
    /\ root # Unmounted => root = ParseParams
    /\ root = Unmounted => \A t \in Caller : calls[t].op = "none"
    /\ \A t \in Caller : calls[t].op = "read" => Awaits(calls[t])

LEMMA ParamsTyped ==
    ParseParams \in [root_begin : Uint64, root_end : Uint64, fat_begin : Uint64,
                     cluster_pot : 0..LimbBits]
<1>1. /\ ParseParams.root_begin \in Uint64 /\ ParseParams.root_end \in Uint64
      /\ ParseParams.fat_begin \in Uint64 /\ ParseParams.cluster_pot \in 0..LimbBits
  BY ParamsAre DEF Small
<1>2. ParseParams = [root_begin |-> ParseParams.root_begin, root_end |-> ParseParams.root_end,
                     fat_begin |-> ParseParams.fat_begin, cluster_pot |-> ParseParams.cluster_pot]
  BY DEF ParseParams
<1> HIDE DEF ParseParams
<1> QED
  BY <1>1, <1>2

LEMMA WordFits ==
    ASSUME TableOK, NEW n \in Nat
    PROVE  TableWord(n) \in Digit
<1> DEFINE N == Nibble
           a == TableNibble(2 * n + 0)
           b == TableNibble(2 * n + 1)
           c == TableNibble(2 * n + 2)
           d == TableNibble(2 * n + 3)
<1>1. N \in Nat /\ N >= 2
  BY SizesAre
<1>2. /\ a \in 0..(N - 1) /\ b \in 0..(N - 1) /\ c \in 0..(N - 1) /\ d \in 0..(N - 1)
  <2>1. 2 * n + 0 \in Nat /\ 2 * n + 1 \in Nat /\ 2 * n + 2 \in Nat /\ 2 * n + 3 \in Nat
    OBVIOUS
  <2> QED
    BY <2>1, NibbleIs
<1>3. TableWord(n) = a + N * (b + N * (c + N * d))
  BY DEF TableWord
<1>4. N * (N * N * N) = Limb
  BY FatAssumption DEF EntryValues
<1> HIDE DEF N, a, b, c, d, Limb
<1>5. ASSUME NEW x \in 0..(N - 1), NEW M \in Nat, NEW y \in Nat, y <= M - 1
      PROVE  x + N * y \in Nat /\ x + N * y <= N * M - 1 /\ N * M \in Nat
  <2>1. M - 1 \in Nat
    BY <1>5
  <2>2. N * y <= N * (M - 1) /\ N * y \in Nat /\ N * M \in Nat
    BY <1>1, <1>5, <2>1, ProductGrows
  <2>3. N * (M - 1) = N * M - N
    BY <1>1, <1>5
  <2> QED
    BY <1>1, <1>5, <2>2, <2>3
<1>6. c + N * d \in Nat /\ c + N * d <= N * N - 1 /\ N * N \in Nat
  BY <1>1, <1>2, <1>5
<1>7. b + N * (c + N * d) \in Nat /\ b + N * (c + N * d) <= N * (N * N) - 1 /\ N * (N * N) \in Nat
  BY <1>2, <1>5, <1>6
<1>8. TableWord(n) \in Nat /\ TableWord(n) <= N * (N * (N * N)) - 1
  BY <1>2, <1>3, <1>5, <1>7
<1>9. N * (N * (N * N)) = Limb
  <2>1. N * (N * N) = N * N * N
    BY <1>1
  <2> QED
    BY <1>4, <2>1
<1> QED
  BY <1>8, <1>9, LimbIs DEF Digit

(* The bytes of a number that a volume has in a directory entry.            *)
LEMMA EntryFits ==
    ASSUME VolumeInit, NEW p, NEW entry \in EntriesAt(p)
    PROVE  /\ entry.cluster \in Digit /\ entry.size \in Nat /\ entry.size % Limb \in Digit
           /\ entry.kind \in Kinds
           /\ \A s \in 1..RootEntries : EntryAddress(s) = p => entry = directory[s]
<1>1. PICK w \in Volumes : directory = w.directory
  BY DEF VolumeInit
<1>2. PICK v \in Volumes, s \in 1..RootEntries : entry = v.directory[s]
  BY <1>1 DEF EntriesAt, Entries
<1>3. IsVolume(v)
  BY VolumeAssumption
<1>4. entry.cluster \in 0..(Nibble * EntryValues - 1) /\ entry.size \in Nat /\ entry.kind \in Kinds
  BY <1>2, <1>3 DEF IsVolume
<1>5. entry.size % Limb \in Digit
  <2>1. Limb \in Nat \ {0}
    BY LimbIs
  <2> HIDE DEF Limb
  <2> QED
    BY <1>4, <2>1, Divide DEF Digit
<1>6. entry.cluster \in Digit
  BY <1>4, FatAssumption DEF Digit
<1>7. ASSUME NEW r \in 1..RootEntries, EntryAddress(r) = p PROVE entry = directory[r]
  <2>1. entry \in {directory[j] : j \in {j \in 1..RootEntries : EntryAddress(j) = p}}
    BY <1>7 DEF EntriesAt
  <2>2. PICK j \in 1..RootEntries : EntryAddress(j) = p /\ entry = directory[j]
    BY <2>1
  <2>3. j = r
    BY <1>7, <2>2, EntriesLie
  <2> QED
    BY <2>2, <2>3
<1> QED
  BY <1>4, <1>5, <1>6, <1>7

LEMMA WordAt ==
    ASSUME TableOK, NEW n \in Nat, NEW word \in WordsAt(Reserved * SectorSize + n)
    PROVE  /\ word \in Digit
           /\ ~Spans(Reserved * SectorSize + n, 2) => word = TableWord(n)
<1> DEFINE W == Reserved * SectorSize
<1>1. W \in Nat
  BY GeometryIs
<1>0. \A p : WordsAt(p) = IF Spans(p, 2) THEN 0..(Limb - 1) ELSE {TableWord(p - W)}
  BY DEF WordsAt
<1> HIDE DEF W
<1>2. W + n - W = n
  BY <1>1
<1>3. WordsAt(W + n) = IF Spans(W + n, 2) THEN 0..(Limb - 1) ELSE {TableWord(W + n - W)}
  <2>1. PICK p : p = W + n
    OBVIOUS
  <2>2. WordsAt(p) = IF Spans(p, 2) THEN 0..(Limb - 1) ELSE {TableWord(p - W)}
    BY <1>0
  <2> QED
    BY <1>1, <2>1, <2>2
<1>4. CASE Spans(W + n, 2)
  BY <1>3, <1>4 DEF Digit, W
<1>5. CASE ~Spans(W + n, 2)
  <2>1. word = TableWord(W + n - W)
    BY <1>3, <1>5 DEF W
  <2>2. word = TableWord(n)
    BY <1>2, <2>1
  <2> QED
    BY <2>2, WordFits
<1> QED
  BY <1>4, <1>5 DEF W

LEMMA DecodeFits ==
    ASSUME NEW word \in Digit, NEW cluster
    PROVE  Decode(cluster, word) \in Digit
<1>1. Nibble \in Nat \ {0} /\ EntryValues \in Nat \ {0} /\ EntryValues <= Limb /\ Limb \in Nat
  BY SizesAre, GeometryIs
<1> HIDE DEF EntryValues, Limb
<1>2. word \in Nat /\ word < Limb
  BY <1>1 DEF Digit
<1>3. word % EntryValues \in 0..(EntryValues - 1)
  BY <1>1, <1>2, Divide
<1>4. word \div Nibble \in Nat /\ word \div Nibble <= word
  <2>1. word = Nibble * (word \div Nibble) + (word % Nibble) /\ word \div Nibble \in Nat
        /\ word % Nibble \in 0..(Nibble - 1)
    BY <1>1, <1>2, Divide
  <2> DEFINE q == word \div Nibble
  <2> HIDE DEF q
  <2>2. 1 * q <= Nibble * q
    BY <1>1, <2>1, ProductGrows DEF q
  <2> QED
    BY <1>1, <1>2, <2>1, <2>2 DEF q
<1> QED
  BY <1>1, <1>2, <1>3, <1>4 DEF Decode, Digit

LEMMA MinusFits == ASSUME NEW a \in Int, NEW b \in Int PROVE Minus(a, b) \in Digit
<1>1. Limb \in Nat \ {0}
  BY LimbIs
<1> HIDE DEF Limb
<1> QED
  BY <1>1 DEF Minus, Digit

LEMMA PartFits ==
    ASSUME FatInv, root # Unmounted, NEW r \in Reading, Awaits(r), r.at = "fat", NEW next
    PROVE  PartSize(r, next) \in Digit /\ r.count - Len(r.bytes) \in Digit
<1>1. r.count \in Digit /\ Len(r.bytes) \in Nat /\ Len(r.bytes) < r.count /\ Limb \in Nat
  <2>1. r.count \in Counts /\ r.bytes \in Seq(Int) /\ Len(r.bytes) < r.count
    BY DEF Reading, Awaits
  <2>2. Limb \in Nat /\ Counts \subseteq 1..(Limb - 1)
    BY FatAssumption, LimbIs
  <2>3. r.count \in 1..(Limb - 1)
    BY <2>1, <2>2
  <2>4. r.count \in Digit
    BY <2>2, <2>3 DEF Digit
  <2>5. Len(r.bytes) \in Nat
    BY <2>1
  <2> QED
    BY <2>1, <2>2, <2>4, <2>5
<1> DEFINE rest == r.count - Len(r.bytes)
<1>2. rest \in Digit
  BY <1>1 DEF Digit
<1>3. root.cluster_pot = SectorShift /\ 2 ^ SectorShift = SectorSize /\ SectorSize \in Int
  BY ParamsAre, GeometryIs, SizesAre DEF FatInv
<1>4. r.offset \in Int /\ r.end_offset \in Int
  BY <1>1 DEF Reading
<1> HIDE DEF rest
<1> DEFINE size == Minus(SectorSize, r.offset)
           back == Minus(r.end_offset, r.offset)
<1>5. size \in Digit /\ back \in Digit
  BY <1>3, <1>4, MinusFits
<1> HIDE DEF size, back
<1> DEFINE inner == IF next > BadCluster /\ (r.offset + size) % Limb > r.end_offset THEN back ELSE size
<1>6. inner \in Digit
  BY <1>5
<1>7. PartSize(r, next) = IF inner > rest THEN rest ELSE inner
  BY <1>3 DEF PartSize, rest, size, back
<1> QED
  BY <1>2, <1>6, <1>7 DEF rest

LEMMA FatFields ==
    ASSUME FatInv
    PROVE  /\ TableOK /\ position \in Uint64
           /\ root # Unmounted =>
                /\ root.cluster_pot = SectorShift /\ 2 ^ SectorShift = SectorSize
                /\ Small(root.root_begin, RootSector * SectorSize)
                /\ Small(root.root_end, DataSector * SectorSize)
                /\ Small(root.fat_begin, Reserved * SectorSize)
           /\ \A t \in Caller : calls[t].op = "read" =>
                calls[t] \in Reading /\ Awaits(calls[t]) /\ root # Unmounted
           /\ \A t \in Caller : calls[t].op \in {"find", "list"} =>
                calls[t] \in Scanning /\ root # Unmounted
<1>1. TableOK /\ position \in Uint64
  BY TableIs DEF FatInv, FatTypeOK
<1>2. ASSUME root # Unmounted
      PROVE  /\ root.cluster_pot = SectorShift /\ 2 ^ SectorShift = SectorSize
             /\ Small(root.root_begin, RootSector * SectorSize)
             /\ Small(root.root_end, DataSector * SectorSize)
             /\ Small(root.fat_begin, Reserved * SectorSize)
  BY <1>2, ParamsAre, GeometryIs DEF FatInv
<1>3. ASSUME NEW t \in Caller
      PROVE  /\ calls[t] \in {NoCall} \cup Reading \cup Scanning
             /\ calls[t].op # "none" => root # Unmounted
             /\ calls[t].op = "read" => Awaits(calls[t])
  BY DEF FatInv, FatTypeOK
<1>4. /\ NoCall.op = "none"
      /\ \A r \in Reading : r.op = "read"
      /\ \A s \in Scanning : s.op \in {"find", "list"}
  BY DEF NoCall, Reading, Scanning
<1> QED
  BY <1>1, <1>2, <1>3, <1>4

(* A task that leaves its locals well keeps the invariant.                  *)
LEMMA LeaveKeeps ==
    ASSUME FatInv, root # Unmounted, UNCHANGED <<root, directory, table>>,
           overran' \in BOOLEAN, NEW t \in Caller,
           NEW mine \in {NoCall} \cup Reading \cup Scanning,
           mine.op = "read" => Awaits(mine), NEW p \in Uint64, Leave(t, mine, p)
    PROVE  FatInv'
<1>1. ASSUME NEW u \in Caller, u # t
      PROVE  /\ calls'[u] \in {NoCall} \cup Reading \cup Scanning
             /\ calls'[u].op = "read" => calls'[u] = calls[u]
  <2>1. calls'[u] = IF calls[u].op \in {"find", "list"} /\ p # position
                    THEN [calls[u] EXCEPT !.overlapped = TRUE] ELSE calls[u]
    BY <1>1 DEF Leave
  <2>2. calls[u] \in {NoCall} \cup Reading \cup Scanning
    BY DEF FatInv, FatTypeOK
  <2>3. CASE calls[u].op \in {"find", "list"} /\ p # position
    <3>1. calls[u] \in Scanning
      BY <2>3, FatFields
    <3>2. calls'[u] = [calls[u] EXCEPT !.overlapped = TRUE]
      BY <2>1, <2>3
    <3>3. calls'[u] \in Scanning /\ calls'[u].op # "read"
      BY <3>1, <3>2 DEF Scanning
    <3> QED
      BY <3>3
  <2>4. CASE ~(calls[u].op \in {"find", "list"} /\ p # position)
    BY <2>1, <2>2, <2>4
  <2> QED
    BY <2>3, <2>4
<1>2. calls'[t] = mine /\ DOMAIN calls' = Caller /\ position' = p
  BY DEF Leave
<1>3. calls' \in [Caller -> {NoCall} \cup Reading \cup Scanning]
  <2>1. \A u \in Caller : calls'[u] \in {NoCall} \cup Reading \cup Scanning
    BY <1>1, <1>2
  <2>2. calls' = [u \in Caller |-> calls'[u]]
    BY DEF Leave
  <2> QED
    BY <2>1, <2>2
<1>4. ASSUME NEW u \in Caller, calls'[u].op = "read" PROVE Awaits(calls'[u])
  <2>1. CASE u = t
    BY <1>2, <1>4, <2>1
  <2>2. CASE u # t
    BY <1>1, <1>4, <2>2 DEF FatInv
  <2> QED
    BY <2>1, <2>2
<1>5. (\A u \in Caller : calls[u].op = "read" => Awaits(calls[u]))'
  BY <1>4 DEF Awaits
<1>6. FatTypeOK'
  BY <1>2, <1>3 DEF FatInv, FatTypeOK
<1>7. VolumeInit'
  BY DEF FatInv, VolumeInit
<1> QED
  BY <1>5, <1>6, <1>7 DEF FatInv, ParseParams

LEMMA MovedTyped ==
    ASSUME FatInv, NEW n \in Digit
    PROVE  Moved(n) \in Uint64
BY AddWordTyped, FatFields DEF Moved

LEMMA ReadLoopKeeps ==
    ASSUME FatInv, root # Unmounted, UNCHANGED <<root, directory, table>>,
           overran' \in BOOLEAN, NEW t \in Caller, NEW r \in Reading, NEW p \in Uint64,
           ReadLoop(t, r, p)
    PROVE  FatInv'
<1> DEFINE n == (r.cluster + r.cluster \div 2) % Limb
           disk == Add64(Word(n), root.fat_begin)
           mine == [r EXCEPT !.at = "fat", !.disk = disk]
<1>1. CASE Len(r.bytes) < r.count /\ r.cluster < BadCluster
  <2>1. n \in Digit
    <3>1. r.cluster \in Nat /\ Limb \in Nat \ {0}
      BY LimbIs DEF Reading
    <3> HIDE DEF Limb
    <3>2. r.cluster + r.cluster \div 2 \in Nat
      BY <3>1
    <3> QED
      BY <3>1, <3>2, Divide DEF Digit
  <2> HIDE DEF n
  <2>2. Small(Word(n), n) /\ Small(root.fat_begin, Reserved * SectorSize)
    BY <2>1, WordSmall, FatFields
  <2>3. Reserved * SectorSize + n < Limb * Limb /\ n \in Nat /\ Reserved * SectorSize \in Nat
    <3>1. /\ Reserved * SectorSize + Limb < Limb * Limb /\ Limb \in Nat /\ Limb * Limb \in Nat
          /\ Reserved * SectorSize \in Nat
      BY GeometryIs
    <3> DEFINE w == Reserved * SectorSize
               l == Limb * Limb
    <3>2. w + Limb < l /\ l \in Nat /\ w \in Nat
      BY <3>1
    <3> HIDE DEF w, l, Limb
    <3>3. n \in 0..(Limb - 1)
      BY <2>1 DEF Digit
    <3>4. w + n < l /\ n \in Nat
      BY <3>1, <3>2, <3>3
    <3> QED
      BY <3>2, <3>4 DEF w, l
  <2>4. Small(disk, n + Reserved * SectorSize)
    <3> DEFINE w == Reserved * SectorSize
               l == Limb * Limb
    <3>1. w + n < l /\ n \in Nat /\ w \in Nat /\ Small(root.fat_begin, w)
      BY <2>2, <2>3
    <3>2. l = Limb * Limb /\ l \in Nat
      BY GeometryIs
    <3> HIDE DEF w, l
    <3>3. n + w < l
      BY <3>1, <3>2
    <3>4. n + w < Limb * Limb
      BY <3>2, <3>3
    <3>5. Small(disk, n + w)
      BY <2>2, <3>1, <3>4, AddSmall
    <3> QED
      BY <3>5 DEF w
  <2>5. Small(disk, Reserved * SectorSize + n)
    <3>1. n + Reserved * SectorSize = Reserved * SectorSize + n
      BY <2>3
    <3> QED
      BY <2>4, <3>1
  <2> HIDE DEF disk
  <2>6. disk \in Uint64
    BY <2>5 DEF Small
  <2>7. mine \in Reading
    BY <2>6 DEF Reading
  <2>8. /\ mine.bytes = r.bytes /\ mine.count = r.count /\ mine.disk = disk
        /\ mine.cluster = r.cluster
    BY DEF Reading
  <2>9. Awaits(mine)
    BY <1>1, <2>5, <2>8 DEF Awaits, n
  <2>10. Leave(t, mine, disk)
    BY <1>1 DEF ReadLoop, Sleeps, n, disk
  <2> HIDE DEF mine
  <2> QED
    BY <2>6, <2>7, <2>9, <2>10, LeaveKeeps
<1>2. CASE ~(Len(r.bytes) < r.count /\ r.cluster < BadCluster)
  <2>1. Leave(t, NoCall, p)
    BY <1>2 DEF ReadLoop, Returns
  <2>2. NoCall.op # "read"
    BY DEF NoCall
  <2> QED
    BY <2>1, <2>2, LeaveKeeps
<1> QED
  BY <1>1, <1>2

LEMMA MountKeeps ==
    ASSUME FatInv, CreateFatFs, UNCHANGED <<directory, table>>
    PROVE  FatInv'
<1>1. root' = ParseParams /\ calls' = calls /\ overran' = overran
  BY DEF CreateFatFs
<1>2. position' \in Uint64
  <2>1. 0 \in 0..(Limb * Limb - 1) /\ SectorSize \in Digit
    BY GeometryIs DEF Digit
  <2>2. U64(0) \in Uint64
    BY <2>1, U64Small DEF Small
  <2>3. Add64(U64(0), Word(SectorSize)) \in Uint64
    BY <2>1, <2>2, AddWordTyped
  <2> QED
    BY <2>3 DEF CreateFatFs
<1>3. FatTypeOK'
  BY <1>1, <1>2, ParamsTyped DEF FatInv, FatTypeOK, ParseParams
<1>4. VolumeInit'
  BY DEF FatInv, VolumeInit
<1>5. \A t \in Caller : calls[t].op = "none"
  BY DEF FatInv, CreateFatFs
<1> QED
  BY <1>1, <1>3, <1>4, <1>5 DEF FatInv, ParseParams

LEMMA EntryTyped ==
    ASSUME NEW s \in 1..RootEntries
    PROVE  Small(U64(EntryAddress(s)), EntryAddress(s))
BY EntriesLie, U64Small

LEMMA StartReadKeeps ==
    ASSUME FatInv, UNCHANGED <<directory, table>>, NEW t \in Caller, NEW slot \in Visible,
           NEW from \in Positions, NEW n \in Counts, StartRead(t, slot, from, n)
    PROVE  FatInv'
<1> DEFINE file == U64(EntryAddress(slot))
           pos  == U64(from)
           off  == ShiftedOut(pos, root.cluster_pot)
           left == Shr64(pos, root.cluster_pot)
           mine == [op |-> "read", at |-> "entry", file |-> file, from |-> pos,
                    count |-> n, disk |-> file, offset |-> off,
                    end_offset |-> 0, left |-> left,
                    cluster |-> 0, next |-> 0, size |-> 0, bytes |-> <<>>]
<1>1. /\ root # Unmounted /\ Leave(t, mine, file)
      /\ root' = root /\ overran' = overran
  BY DEF StartRead, Sleeps
<1>2. file \in Uint64
  <2>1. slot \in 1..RootEntries
    BY DEF Visible, FilesOf, UpToEnd
  <2> QED
    BY <2>1, EntryTyped DEF Small
<1>3. pos \in Uint64
  <2>1. from \in 0..(Limb * Limb - 1)
    BY FatAssumption
  <2> QED
    BY <2>1, U64Small DEF Small
<1>4. root.cluster_pot = SectorShift /\ SectorShift \in 0..LimbBits
      /\ 2 ^ SectorShift = SectorSize /\ SectorSize \in Digit /\ SectorSize > 0 /\ 0 \in Digit
  BY <1>1, FatFields, GeometryIs DEF Digit
<1>5. left \in Uint64
  BY <1>3, <1>4, ShiftDivides
<1>6. off \in Digit
  <2>1. pos[0] \in Nat /\ SectorSize \in Nat \ {0} /\ Limb \in Nat /\ SectorSize <= Limb - 1
    <3>1. pos[0] \in Digit /\ Limb \in Nat
      BY <1>3, LimbsAre, LimbIs DEF Limbs
    <3> HIDE DEF Limb, pos
    <3> QED
      BY <1>4, <3>1 DEF Digit
  <2>2. off = pos[0] % SectorSize
    BY <1>4 DEF ShiftedOut
  <2> HIDE DEF off, pos, Limb
  <2>3. off \in 0..(SectorSize - 1)
    BY <2>1, <2>2
  <2> QED
    BY <2>1, <2>3 DEF Digit
<1> HIDE DEF file, pos, off, left
<1>7. mine \in Reading
  BY <1>2, <1>3, <1>4, <1>5, <1>6 DEF Reading, Digit
<1>8. mine.at = "entry"
  OBVIOUS
<1> HIDE DEF mine
<1>9. Awaits(mine)
  BY <1>8 DEF Awaits
<1>10. overran' \in BOOLEAN
  BY <1>1 DEF FatInv, FatTypeOK
<1> QED
  BY <1>1, <1>2, <1>7, <1>9, <1>10, LeaveKeeps

LEMMA SpansBoolean == \A p, n : Spans(p, n) \in BOOLEAN
BY DEF Spans

LEMMA AfterEntryKeeps ==
    ASSUME FatInv, UNCHANGED <<directory, table>>, NEW t \in Caller, AfterEntry(t)
    PROVE  FatInv'
<1>1. /\ calls[t].op = "read" /\ root' = root /\ overran' = overran
  BY DEF AfterEntry
<1> DEFINE r == calls[t]
<1>2. PICK entry \in EntriesAt(Value(calls[t].disk)) :
        ReadLoop(t, [r EXCEPT !.end_offset = ShiftedOut(Word(entry.size % Limb),
                                                       root.cluster_pot),
                             !.cluster = entry.cluster], Moved(EntrySize))
  BY DEF AfterEntry
<1>3. r \in Reading /\ root # Unmounted
  BY <1>1, FatFields
<1> DEFINE z == entry.size % Limb
           e == ShiftedOut(Word(z), root.cluster_pot)
<1>4. entry.cluster \in Digit /\ z \in Digit
  BY EntryFits DEF FatInv
<1>5. e \in Digit
  <2>1. root.cluster_pot = SectorShift /\ 2 ^ SectorShift = SectorSize
        /\ SectorSize \in Digit /\ SectorSize > 0 /\ Limb \in Nat
    BY <1>3, FatFields, GeometryIs
  <2> HIDE DEF z, Limb
  <2>2. e = z % SectorSize
    BY <2>1 DEF ShiftedOut, Word, Init64, Quad
  <2>3. z \in Nat /\ SectorSize \in Nat \ {0} /\ SectorSize <= Limb - 1
    BY <1>4, <2>1 DEF Digit
  <2> HIDE DEF e
  <2>4. e \in 0..(SectorSize - 1)
    BY <2>2, <2>3
  <2> QED
    BY <2>1, <2>3, <2>4 DEF Digit
<1> HIDE DEF e
<1> DEFINE mine == [r EXCEPT !.end_offset = e, !.cluster = entry.cluster]
<1>6. mine \in Reading
  BY <1>3, <1>4, <1>5 DEF Reading, Digit
<1>7. Moved(EntrySize) \in Uint64
  BY MovedTyped, GeometryIs
<1>8. ReadLoop(t, mine, Moved(EntrySize))
  BY <1>2 DEF e, z
<1>9. overran' \in BOOLEAN
  BY <1>1 DEF FatInv, FatTypeOK
<1> HIDE DEF mine
<1> QED
  BY <1>1, <1>3, <1>6, <1>7, <1>8, <1>9, ReadLoopKeeps

LEMMA DataPositionTyped ==
    ASSUME FatInv, root # Unmounted, NEW r \in Reading
    PROVE  DataPosition(r) \in Uint64
<1>1. Minus(r.cluster, 2) \in Digit
  BY MinusFits, LimbIs DEF Reading
<1>2. root.cluster_pot = SectorShift /\ SectorShift \in 0..LimbBits /\ root.root_end \in Uint64
  BY FatFields, GeometryIs DEF Small
<1>3. Shl64(Word(Minus(r.cluster, 2)), root.cluster_pot) \in Uint64
  BY <1>1, <1>2, ShlSmall DEF Small
<1>4. r.offset \in Digit
  BY DEF Reading, Digit
<1> QED
  BY <1>2, <1>3, <1>4, AddTyped, AddWordTyped DEF DataPosition

LEMMA AfterFatKeeps ==
    ASSUME FatInv, UNCHANGED <<directory, table>>, NEW t \in Caller, AfterFat(t)
    PROVE  FatInv'
<1> DEFINE r == calls[t]
<1>1. /\ r.op = "read" /\ r.at = "fat" /\ root' = root
      /\ overran' = Spans(Value(r.disk), 2)
  BY DEF AfterFat
<1>2. r \in Reading /\ root # Unmounted /\ Awaits(r) /\ TableOK
  BY <1>1, FatFields
<1>3. overran' \in BOOLEAN
  BY <1>1, SpansBoolean
<1> DEFINE n == (r.cluster + r.cluster \div 2) % Limb
<1>4. Value(r.disk) = Reserved * SectorSize + n /\ n \in Nat
  <2>1. Small(r.disk, Reserved * SectorSize + n)
    BY <1>1, <1>2 DEF Awaits
  <2>2. Value(r.disk) = Reserved * SectorSize + n
    BY <2>1, SmallIs
  <2>3. n \in Nat
    <3>1. r.cluster \in Nat /\ Limb \in Nat \ {0}
      BY <1>2, LimbIs DEF Reading
    <3> HIDE DEF Limb, r
    <3>2. r.cluster + r.cluster \div 2 \in Nat
      BY <3>1
    <3> QED
      BY <3>1, <3>2, Divide
  <2> QED
    BY <2>2, <2>3
<1>5. PICK word \in WordsAt(Value(r.disk)) :
        LET next == Decode(r.cluster, word)
            size == PartSize(r, next)
        IN  IF Cmp64_16(r.left, 0) # 0
            THEN ReadLoop(t, [r EXCEPT !.left = Dec64(@), !.cluster = next], Moved(2))
            ELSE IF size = 0
            THEN ReadLoop(t, [r EXCEPT !.offset = 0, !.cluster = next], DataPosition(r))
            ELSE Sleeps(t, [r EXCEPT !.at = "data", !.next = next, !.size = size,
                                     !.disk = DataPosition(r)],
                        DataPosition(r))
  BY Zenon DEF AfterFat
<1>6. word \in Digit
  BY <1>2, <1>4, <1>5, WordAt
<1> DEFINE next == Decode(r.cluster, word)
           size == PartSize(r, next)
           data == DataPosition(r)
<1>7. next \in Digit /\ size \in Digit /\ data \in Uint64
  BY <1>1, <1>2, <1>6, DecodeFits, PartFits, DataPositionTyped
<1>8. /\ Cmp64_16(r.left, 0) # 0 =>
            ReadLoop(t, [r EXCEPT !.left = Dec64(@), !.cluster = next], Moved(2))
      /\ Cmp64_16(r.left, 0) = 0 /\ size = 0 =>
            ReadLoop(t, [r EXCEPT !.offset = 0, !.cluster = next], data)
      /\ Cmp64_16(r.left, 0) = 0 /\ size # 0 =>
            Leave(t, [r EXCEPT !.at = "data", !.next = next, !.size = size, !.disk = data], data)
  BY <1>5 DEF Sleeps
<1> HIDE DEF r, next, size, data
<1>9. CASE Cmp64_16(r.left, 0) # 0
  <2> DEFINE mine == [r EXCEPT !.left = Dec64(@), !.cluster = next]
  <2>1. Dec64(r.left) \in Uint64
    BY <1>2, DecTyped DEF Reading
  <2>2. mine \in Reading
    BY <1>2, <1>7, <2>1 DEF Reading, Digit
  <2>3. Moved(2) \in Uint64
    BY MovedTyped, GeometryIs DEF Digit
  <2>4. ReadLoop(t, mine, Moved(2))
    BY <1>8, <1>9
  <2> HIDE DEF mine
  <2> QED
    BY <1>1, <1>2, <1>3, <2>2, <2>3, <2>4, ReadLoopKeeps
<1>10. CASE Cmp64_16(r.left, 0) = 0 /\ size = 0
  <2> DEFINE mine == [r EXCEPT !.offset = 0, !.cluster = next]
  <2>1. 0 \in Digit
    BY GeometryIs DEF Digit
  <2>2. mine \in Reading
    BY <1>2, <1>7, <2>1 DEF Reading, Digit
  <2>3. ReadLoop(t, mine, data)
    BY <1>8, <1>10
  <2> HIDE DEF mine
  <2> QED
    BY <1>1, <1>2, <1>3, <1>7, <2>2, <2>3, ReadLoopKeeps
<1>11. CASE Cmp64_16(r.left, 0) = 0 /\ size # 0
  <2> DEFINE mine == [r EXCEPT !.at = "data", !.next = next, !.size = size, !.disk = data]
  <2>1. mine \in Reading
    BY <1>2, <1>7 DEF Reading, Digit
  <2>2. mine.at = "data" /\ mine.bytes = r.bytes /\ mine.count = r.count
    BY <1>2 DEF Reading
  <2>3. Leave(t, mine, data)
    BY <1>8, <1>11
  <2> HIDE DEF mine
  <2>4. Awaits(mine)
    BY <1>1, <1>2, <2>2 DEF Awaits
  <2> QED
    BY <1>1, <1>2, <1>3, <1>7, <2>1, <2>3, <2>4, LeaveKeeps
<1> QED
  BY <1>9, <1>10, <1>11

LEMMA AfterDataKeeps ==
    ASSUME FatInv, UNCHANGED <<directory, table>>, NEW t \in Caller, AfterData(t)
    PROVE  FatInv'
<1> DEFINE r == calls[t]
           part == [i \in 1..r.size |-> Value(r.disk) + i - 1]
           mine == [r EXCEPT !.bytes = @ \o part, !.offset = 0, !.cluster = r.next]
<1>1. /\ r.op = "read" /\ root' = root
      /\ overran' = Spans(Value(r.disk), r.size)
      /\ ReadLoop(t, mine, Moved(r.size))
  BY DEF AfterData
<1>2. r \in Reading /\ root # Unmounted
  BY <1>1, FatFields
<1>3. overran' \in BOOLEAN
  BY <1>1, SpansBoolean
<1> HIDE DEF r
<1>4. part \in Seq(Int)
  <2>1. Value(r.disk) \in Int /\ r.size \in Nat
    BY <1>2, ValueIs DEF Reading
  <2>2. part \in [1..r.size -> Int]
    BY <2>1
  <2> QED
    BY <2>1, <2>2
<1> HIDE DEF part
<1>5. 0 \in Digit
  BY GeometryIs DEF Digit
<1>6. mine \in Reading
  <2>1. r.bytes \o part \in Seq(Int)
    BY <1>2, <1>4 DEF Reading
  <2> QED
    BY <1>2, <1>5, <2>1 DEF Reading, Digit
<1>7. Moved(r.size) \in Uint64
  BY <1>2, MovedTyped DEF Reading, Digit
<1> HIDE DEF mine
<1> QED
  BY <1>1, <1>2, <1>3, <1>6, <1>7, ReadLoopKeeps

LEMMA ScanKeeps ==
    ASSUME FatInv, root # Unmounted, UNCHANGED <<root, directory, table>>, overran' \in BOOLEAN,
           NEW t \in Caller, NEW s \in Scanning, NEW p0, NEW p \in Uint64, Scan(t, s, p0, p)
    PROVE  FatInv'
<1> DEFINE mine == [s EXCEPT !.position = p]
<1>1. Leave(t, mine, p) \/ Leave(t, NoCall, p)
  BY DEF Scan, Sleeps, Returns
<1>2. mine \in Scanning /\ mine.op # "read" /\ NoCall.op # "read"
  BY DEF Scanning, NoCall
<1> HIDE DEF mine
<1> QED
  BY <1>1, <1>2, LeaveKeeps

LEMMA StartScanKeeps ==
    ASSUME FatInv, UNCHANGED <<directory, table>>, NEW t \in Caller, NEW op \in {"find", "list"},
           NEW name \in Names \cup {NoName}, NEW after \in Visible \cup {0},
           StartScan(t, op, name, after)
    PROVE  FatInv'
<1> DEFINE first == IF after = 0 THEN root.root_begin
                    ELSE Add64(Word(EntrySize), U64(EntryAddress(after)))
           s == [op |-> op, name |-> name, after |-> after, position |-> first,
                 overlapped |-> FALSE]
<1>1. root # Unmounted /\ Scan(t, s, first, first) /\ UNCHANGED <<root, overran>>
  BY DEF StartScan
<1>2. after \in 0..RootEntries /\ (after # 0 => after \in 1..RootEntries)
  BY SizesAre DEF Visible, FilesOf, UpToEnd
<1>3. first \in Uint64
  <2>1. CASE after = 0
    BY <1>1, <2>1, FatFields DEF Small
  <2>2. CASE after # 0
    <3>1. U64(EntryAddress(after)) \in Uint64 /\ Word(EntrySize) \in Uint64
      BY <1>2, <2>2, EntryTyped, WordTyped, GeometryIs DEF Small
    <3> QED
      BY <2>2, <3>1, AddTyped
  <2> QED
    BY <2>1, <2>2
<1> HIDE DEF first
<1>4. s \in Scanning
  BY <1>2, <1>3 DEF Scanning
<1> HIDE DEF s
<1>5. overran' \in BOOLEAN
  BY <1>1 DEF FatInv, FatTypeOK
<1> QED
  BY <1>1, <1>3, <1>4, <1>5, ScanKeeps

LEMMA AfterScanKeeps ==
    ASSUME FatInv, UNCHANGED <<directory, table>>, NEW t \in Caller, AfterScan(t)
    PROVE  FatInv'
<1> DEFINE s == calls[t]
           p == Moved(EntrySize)
<1>1. /\ s \in Scanning /\ root # Unmounted /\ root' = root
      /\ overran' = Spans(Value(s.position), EntrySize)
  BY FatFields DEF AfterScan
<1>2. Scan(t, s, s.position, p) \/ Leave(t, NoCall, p)
  BY DEF AfterScan, Returns
<1>3. p \in Uint64
  BY MovedTyped, GeometryIs
<1>4. overran' \in BOOLEAN /\ NoCall.op # "read"
  BY <1>1, SpansBoolean DEF NoCall
<1> HIDE DEF s, p
<1> QED
  BY <1>1, <1>2, <1>3, <1>4, ScanKeeps, LeaveKeeps

LEMMA InitFat == MachineInit => FatInv
<1> SUFFICES ASSUME MachineInit PROVE FatInv
  OBVIOUS
<1>1. VolumeInit /\ FatInit
  BY DEF MachineInit
<1>2. position \in Uint64
  <2>1. 0 \in 0..(Limb * Limb - 1)
    BY GeometryIs
  <2>2. U64(0) \in Uint64
    BY <2>1, U64Small DEF Small
  <2> QED
    BY <1>1, <2>2 DEF FatInit
<1>3. root = Unmounted /\ (\A t \in Caller : calls[t] = NoCall) /\ overran = FALSE
      /\ calls \in [Caller -> {NoCall}]
  BY <1>1 DEF FatInit
<1>4. FatTypeOK
  BY <1>2, <1>3 DEF FatTypeOK
<1> QED
  BY <1>1, <1>3, <1>4 DEF FatInv, NoCall

LEMMA StepFat ==
    ASSUME FatInv, [Booting \/ Running]_machine_vars
    PROVE  FatInv'
<1>1. UNCHANGED <<directory, table>>
  BY DEF Booting, Running, machine_vars
<1>2. CASE UNCHANGED fat_vars
  BY <1>1, <1>2 DEF fat_vars, FatInv, FatTypeOK, VolumeInit, ParseParams, Awaits
<1>3. CASE FatNext
  <2>1. CASE CreateFatFs
    BY <1>1, <2>1, MountKeeps
  <2>2. ASSUME NEW t \in Caller, NEW s \in Visible, NEW from \in Positions, NEW n \in Counts,
               StartRead(t, s, from, n)
        PROVE  FatInv'
    BY <1>1, <2>2, StartReadKeeps
  <2>3. ASSUME NEW t \in Caller, NEW name \in Names, GetNodeByName(t, name)
        PROVE  FatInv'
    BY <1>1, <2>3, StartScanKeeps DEF GetNodeByName
  <2>4. ASSUME NEW t \in Caller, NEW after \in Visible \cup {0}, GetNextNode(t, after)
        PROVE  FatInv'
    BY <1>1, <2>4, StartScanKeeps DEF GetNextNode
  <2>5. ASSUME NEW t \in Caller, AfterEntry(t) \/ AfterFat(t) \/ AfterData(t) \/ AfterScan(t)
        PROVE  FatInv'
    BY <1>1, <2>5, AfterEntryKeeps, AfterFatKeeps, AfterDataKeeps, AfterScanKeeps
  <2> QED
    BY <1>3, <2>1, <2>2, <2>3, <2>4, <2>5 DEF FatNext
<1> QED
  BY <1>2, <1>3 DEF Booting, Running, machine_vars

LEMMA FatInvariance == MachineSpec => []FatInv
<1>1. FatInv /\ [Booting \/ Running]_machine_vars => FatInv'
  BY StepFat
<1> QED
  BY <1>1, InitFat, PTL DEF MachineSpec

(* boot.s and fat.c: the numbers of the loader, of the volume's handle and  *)
(* of every sleeping call stay in their ranges.                             *)
THEOREM MachineTypes == MachineSpec => []MachineTypeOK
<1>1. BootInv /\ FatInv => MachineTypeOK
  BY DEF BootInv, FatInv, MachineTypeOK
<1> QED
  BY <1>1, BootInvariance, FatInvariance, PTL

-----------------------------------------------------------------------------
(* fat.c: scans of the root directory.                                      *)

LEMMA Less ==
    ASSUME NEW a, NEW m, Small(a, m), NEW b, NEW n, Small(b, n), m < n
    PROVE  Cmp64(a, b) < 0
<1>1. a \in Uint64 /\ b \in Uint64 /\ Value(a) = m /\ Value(b) = n /\ m \in Nat /\ n \in Nat
  BY SmallIs DEF Small
<1>2. Cmp64(a, b) # 0 /\ ~(Cmp64(a, b) > 0)
  <2>1. Value(a) # Value(b) /\ ~(Value(a) > Value(b))
    BY <1>1
  <2> QED
    BY <1>1, <2>1, Compares
<1>3. Cmp64(a, b) \in {-1, 0, 1}
  BY DEF Cmp64
<1> QED
  BY <1>2, <1>3

(* Before entry k a scan has found nothing to return.                       *)
Passed(s, k) ==
    \A j \in 1..(k - 1) : /\ directory[j].kind # "end"
                          /\ j > s.after => Skipped(s, directory[j])

(* A scan that no one has disturbed waits for the first entry that it has   *)
(* not passed, and the handle is there, at p.                               *)
Waits(s, p) ==
    /\ s.op = "find" => s.after = 0
    /\ ~s.overlapped /\ ~IsFull =>
            /\ s.position = p
            /\ \E k \in (s.after + 1)..RootEntries :
                    Small(s.position, EntryAddress(k)) /\ Passed(s, k)

ScanInv ==
    /\ FatInv
    /\ \A t \in Caller : calls[t].op \in {"find", "list"} => Waits(calls[t], position)
    /\ ScanRight

LEMMA EndBehind ==
    ASSUME VolumeInit, ~IsFull, NEW k \in Nat, \A j \in 1..(k - 1) : directory[j].kind # "end"
    PROVE  k <= RootEntries
<1>1. PICK e \in 1..RootEntries : directory[e].kind = "end"
  <2> SUFFICES ASSUME \A e \in 1..RootEntries : directory[e].kind # "end" PROVE FALSE
    OBVIOUS
  <2>1. \A s \in 1..RootEntries : \A r \in 1..s : r \in 1..RootEntries
    BY SizesAre
  <2> QED
    BY <2>1 DEF IsFull, UpToEnd
<1>2. RootEntries \in Nat
  BY SizesAre
<1> QED
  BY <1>1, <1>2

LEMMA LeaveWaits ==
    ASSUME ScanInv, FatInv', UNCHANGED directory, ScanRight',
           NEW t \in Caller, NEW mine, NEW p, Leave(t, mine, p),
           mine.op \in {"find", "list"} => Waits(mine, p)
    PROVE  ScanInv'
<1>1. ASSUME NEW u \in Caller, calls'[u].op \in {"find", "list"}
      PROVE  Waits(calls'[u], position')
  <2>1. position' = p
    BY DEF Leave
  <2>2. CASE u = t
    BY <1>1, <2>1, <2>2 DEF Leave
  <2>3. CASE u # t
    <3>1. calls'[u] = IF calls[u].op \in {"find", "list"} /\ p # position
                      THEN [calls[u] EXCEPT !.overlapped = TRUE] ELSE calls[u]
      BY <2>3 DEF Leave
    <3>2. CASE calls[u].op \in {"find", "list"} /\ p # position
      <4>1. calls[u] \in Scanning /\ Waits(calls[u], position)
        BY <3>2, FatFields DEF ScanInv
      <4>2. calls'[u].overlapped = TRUE /\ calls'[u].op = calls[u].op /\ calls'[u].after = calls[u].after
        BY <3>1, <3>2, <4>1 DEF Scanning
      <4> QED
        BY <4>1, <4>2 DEF Waits
    <3>3. CASE ~(calls[u].op \in {"find", "list"} /\ p # position)
      <4>1. calls'[u] = calls[u] /\ position' = position
        BY <1>1, <2>1, <3>1, <3>3
      <4> QED
        BY <1>1, <4>1 DEF ScanInv
    <3> QED
      BY <3>2, <3>3
  <2> QED
    BY <2>2, <2>3
<1>2. directory' = directory /\ IsFull' = IsFull
  BY DEF IsFull, UpToEnd
<1>3. ASSUME NEW u \in Caller, (calls[u].op \in {"find", "list"})'
      PROVE  Waits(calls[u], position)'
  <2>1. Waits(calls'[u], position')
    BY <1>1, <1>3
  <2> QED
    BY <1>2, <2>1 DEF Waits, Passed, Skipped
<1> QED
  BY <1>3 DEF ScanInv

(* Where a scan begins.                                                     *)
LEMMA FirstWaits ==
    ASSUME FatInv, root # Unmounted, NEW s \in Scanning, s.op = "find" => s.after = 0,
           s.after \in Visible \cup {0}, ~IsFull,
           s.position = IF s.after = 0 THEN root.root_begin
                        ELSE Add64(Word(EntrySize), U64(EntryAddress(s.after)))
    PROVE  Small(s.position, EntryAddress(s.after + 1)) /\ s.after + 1 \in 1..RootEntries
           /\ Passed(s, s.after + 1)
<1> DEFINE a == s.after
<1>1. a \in Nat /\ (a # 0 => a \in 1..RootEntries) /\ RootEntries \in Nat /\ a <= RootEntries
  BY SizesAre DEF Visible, FilesOf, UpToEnd
<1>2. \A j \in 1..a : directory[j].kind # "end"
  <2>1. CASE a = 0
    BY <2>1
  <2>2. CASE a # 0
    BY <2>2 DEF Visible, FilesOf, UpToEnd
  <2> QED
    BY <2>1, <2>2
<1>3. a + 1 \in 1..RootEntries
  <2>1. PICK k \in Nat : k = a + 1
    BY <1>1
  <2>2. \A j \in 1..(k - 1) : directory[j].kind # "end"
    BY <1>1, <1>2, <2>1
  <2>3. VolumeInit
    BY DEF FatInv
  <2>4. k <= RootEntries
    BY <2>2, <2>3, EndBehind
  <2> QED
    BY <1>1, <2>1, <2>4
<1>4. CASE a = 0
  <2>1. s.position = root.root_begin /\ EntryAddress(a + 1) = EntryAddress(1)
    BY <1>4
  <2>2. Small(root.root_begin, RootSector * SectorSize) /\ EntryAddress(1) = RootSector * SectorSize
    BY FatFields, EntriesLie
  <2>3. Small(s.position, EntryAddress(a + 1))
    BY <2>1, <2>2
  <2> QED
    BY <1>1, <1>2, <1>3, <1>4, <2>3 DEF Passed
<1>5. CASE a # 0
  <2>1. a \in 1..RootEntries /\ EntrySize \in Digit
    BY <1>1, <1>5, GeometryIs
  <2>2. /\ EntryAddress(a) + EntrySize = EntryAddress(a + 1)
        /\ EntryAddress(a) + EntrySize < Limb * Limb /\ EntryAddress(a) \in Nat
    BY <2>1, EntriesLie
  <2>3. Small(U64(EntryAddress(a)), EntryAddress(a)) /\ Small(Word(EntrySize), EntrySize) /\ EntrySize \in Nat
    BY <2>1, EntryTyped, WordSmall DEF Small
  <2> DEFINE x == EntryAddress(a)
             y == EntryAddress(a + 1)
             l == Limb * Limb
  <2>4. x \in Nat /\ x + EntrySize = y /\ x + EntrySize < l
    BY <2>2
  <2> HIDE DEF x, y, l
  <2>5. EntrySize + x = y /\ EntrySize + x < l
    BY <2>3, <2>4
  <2>6. Small(U64(x), x) /\ EntrySize + x < Limb * Limb
    BY <2>3, <2>5 DEF x, l
  <2>7. Small(Add64(Word(EntrySize), U64(x)), EntrySize + x)
    BY <2>3, <2>6, AddSmall
  <2>8. s.position = Add64(Word(EntrySize), U64(x))
    BY <1>5 DEF x
  <2>9. Small(s.position, y)
    BY <2>5, <2>7, <2>8
  <2> QED
    BY <1>1, <1>2, <1>3, <2>9 DEF Passed, y
<1> QED
  BY <1>4, <1>5

(* A scan that waits well may go on reading.                                *)
LEMMA ScanWaits ==
    ASSUME ScanInv, FatInv', UNCHANGED <<directory, root>>, root # Unmounted,
           NEW t \in Caller, NEW s \in Scanning, NEW p0, NEW p \in Uint64, Scan(t, s, p0, p),
           s.op = "find" => s.after = 0,
           ~s.overlapped /\ ~IsFull =>
                \E k \in (s.after + 1)..RootEntries :
                    /\ Small(p, EntryAddress(k)) /\ Passed(s, k)
                    /\ \E j \in 1..RootEntries : Small(p0, EntryAddress(j))
    PROVE  ScanInv'
<1> DEFINE mine == [s EXCEPT !.position = p]
<1>1. CASE Cmp64(p0, root.root_end) < 0
  <2>1. Leave(t, mine, p) /\ returned' = Nothing
    BY <1>1 DEF Scan, Sleeps
  <2>2. /\ mine.op = s.op /\ mine.after = s.after /\ mine.position = p
        /\ mine.overlapped = s.overlapped /\ mine.name = s.name
    BY DEF Scanning
  <2>3. ScanRight'
    BY <2>1 DEF ScanRight, Nothing
  <2> HIDE DEF mine
  <2>4. Waits(mine, p)
    <3>1. \A k : Passed(s, k) => Passed(mine, k)
      BY <2>2 DEF Passed, Skipped
    <3> QED
      BY <2>2, <3>1 DEF Waits
  <2> QED
    BY <2>1, <2>3, <2>4, LeaveWaits
<1>2. CASE ~(Cmp64(p0, root.root_end) < 0)
  <2>1. /\ Leave(t, NoCall, p)
        /\ returned' = [op |-> s.op, name |-> s.name, after |-> s.after,
                        overlapped |-> s.overlapped, found |-> FALSE]
    BY <1>2 DEF Scan, Returns
  <2>2. s.overlapped \/ IsFull
    <3> SUFFICES ASSUME ~s.overlapped, ~IsFull PROVE FALSE
      OBVIOUS
    <3>1. PICK j \in 1..RootEntries : Small(p0, EntryAddress(j))
      OBVIOUS
    <3>2. FatInv
      BY DEF ScanInv
    <3>3. EntryAddress(j) < DataSector * SectorSize /\ Small(root.root_end, DataSector * SectorSize)
      BY <3>2, EntriesLie, FatFields
    <3> QED
      BY <1>2, <3>1, <3>3, Less
  <2>3. ScanRight'
    <3>1. returned'.overlapped = s.overlapped /\ IsFull' = IsFull
      BY <2>1 DEF IsFull, UpToEnd
    <3> QED
      BY <2>2, <3>1 DEF ScanRight
  <2> QED
    BY <2>1, <2>3, LeaveWaits DEF NoCall
<1> QED
  BY <1>1, <1>2

LEMMA StartScanWaits ==
    ASSUME ScanInv, FatInv', UNCHANGED <<directory, table>>, NEW t \in Caller,
           NEW op \in {"find", "list"}, NEW name \in Names \cup {NoName},
           NEW after \in Visible \cup {0}, op = "find" => after = 0,
           StartScan(t, op, name, after)
    PROVE  ScanInv'
<1> DEFINE first == IF after = 0 THEN root.root_begin
                    ELSE Add64(Word(EntrySize), U64(EntryAddress(after)))
           s == [op |-> op, name |-> name, after |-> after, position |-> first,
                 overlapped |-> FALSE]
<1>1. root # Unmounted /\ Scan(t, s, first, first) /\ UNCHANGED <<root, overran>> /\ FatInv
  BY DEF StartScan, ScanInv
<1>2. after \in 0..RootEntries /\ (after # 0 => after \in 1..RootEntries)
  BY SizesAre DEF Visible, FilesOf, UpToEnd
<1>3. first \in Uint64
  <2>1. CASE after = 0
    BY <1>1, <2>1, FatFields DEF Small
  <2>2. CASE after # 0
    <3>1. U64(EntryAddress(after)) \in Uint64 /\ Word(EntrySize) \in Uint64
      BY <1>2, <2>2, EntryTyped, WordTyped, GeometryIs DEF Small
    <3> QED
      BY <2>2, <3>1, AddTyped
  <2> QED
    BY <2>1, <2>2
<1>4. s.position = IF s.after = 0 THEN root.root_begin
                   ELSE Add64(Word(EntrySize), U64(EntryAddress(s.after)))
  OBVIOUS
<1> HIDE DEF first
<1>5. s \in Scanning
  BY <1>2, <1>3 DEF Scanning
<1>6. s.op = op /\ s.after = after /\ s.position = first
  OBVIOUS
<1> HIDE DEF s
<1>7. ASSUME ~IsFull
      PROVE  \E k \in (s.after + 1)..RootEntries :
                    /\ Small(first, EntryAddress(k)) /\ Passed(s, k)
                    /\ \E j \in 1..RootEntries : Small(first, EntryAddress(j))
  <2>1. Small(s.position, EntryAddress(s.after + 1)) /\ s.after + 1 \in 1..RootEntries
        /\ Passed(s, s.after + 1)
    BY <1>1, <1>4, <1>5, <1>6, <1>7, FirstWaits
  <2>2. PICK k \in 1..RootEntries : k = s.after + 1
    BY <2>1
  <2>3. k \in (s.after + 1)..RootEntries /\ Small(first, EntryAddress(k)) /\ Passed(s, k)
    BY <1>6, <2>1, <2>2
  <2> QED
    BY <2>3
<1> QED
  BY <1>1, <1>3, <1>5, <1>6, <1>7, ScanWaits

LEMMA NextWaits ==
    ASSUME FatInv, ~IsFull, NEW s \in Scanning, ~s.overlapped, Waits(s, position),
           NEW k \in (s.after + 1)..RootEntries, Small(s.position, EntryAddress(k)), Passed(s, k),
           Skipped(s, directory[k])
    PROVE  k + 1 \in (s.after + 1)..RootEntries
           /\ Small(Moved(EntrySize), EntryAddress(k + 1)) /\ Passed(s, k + 1)
<1>1. s.after \in Nat /\ RootEntries \in Nat
  BY SizesAre DEF Scanning
<1>2. k \in 1..RootEntries
  BY <1>1
<1>3. directory[k].kind # "end"
  BY DEF Skipped
<1>4. \A j \in 1..k : /\ directory[j].kind # "end" /\ (j > s.after => Skipped(s, directory[j]))
  <2>1. \A j \in 1..k : j = k \/ j \in 1..(k - 1)
    BY <1>2
  <2> QED
    BY <1>3, <2>1 DEF Passed
<1>5. PICK n \in Nat : n = k + 1
  BY <1>2
<1>6. n - 1 = k
  BY <1>2, <1>5
<1>7. \A j \in 1..(n - 1) : directory[j].kind # "end"
  BY <1>4, <1>6
<1>8. n <= RootEntries
  BY <1>7, EndBehind DEF FatInv
<1>9. Passed(s, n)
  BY <1>4, <1>6 DEF Passed
<1>10. position = s.position
  BY DEF Waits
<1>11. EntryAddress(k) + EntrySize = EntryAddress(k + 1) /\ EntryAddress(k) + EntrySize < Limb * Limb
       /\ EntrySize \in Digit
  BY <1>2, EntriesLie, GeometryIs
<1>12. Small(Add64(s.position, Word(EntrySize)), EntryAddress(k) + EntrySize)
  BY <1>11, AddWordSmall
<1>13. Small(Moved(EntrySize), EntryAddress(k + 1))
  BY <1>10, <1>11, <1>12 DEF Moved
<1>14. n \in (s.after + 1)..RootEntries
  BY <1>1, <1>5, <1>8
<1> QED
  BY <1>5, <1>9, <1>13, <1>14

(* What a scan that no one has disturbed finds.                             *)
LEMMA FindsRight ==
    ASSUME VolumeInit, NEW s \in Scanning, s.op = "find" => s.after = 0,
           NEW k \in (s.after + 1)..RootEntries, Passed(s, k), ~Skipped(s, directory[k]),
           Small(s.position, EntryAddress(k))
    PROVE  LET wanted == IF s.op = "find" THEN Named(s.name)
                         ELSE {v \in Visible : v > s.after}
           IN  IF wanted = {} THEN directory[k].kind # "file"
               ELSE directory[k].kind = "file" /\ Value(s.position) = EntryAddress(Min(wanted))
<1> DEFINE wanted == IF s.op = "find" THEN Named(s.name)
                     ELSE {v \in Visible : v > s.after}
<1>1. s.after \in Nat /\ RootEntries \in Nat /\ k \in 1..RootEntries /\ s.op \in {"find", "list"}
      /\ k > s.after
  BY SizesAre DEF Scanning
<1>2. PICK w \in Volumes : directory = w.directory
  BY DEF VolumeInit
<1>3. IsVolume(w)
  BY VolumeAssumption
<1>4. directory[k].kind \in Kinds
  BY <1>1, <1>2, <1>3 DEF IsVolume
<1>5. directory[k].kind \in {"file", "end"}
  BY <1>4 DEF Kinds, Skipped
<1>6. wanted \subseteq Visible /\ wanted \subseteq 1..RootEntries
  BY DEF Named, Visible, FilesOf, UpToEnd
<1>7. ASSUME NEW j \in wanted PROVE j >= k
  <2> SUFFICES ASSUME j < k PROVE FALSE
    BY <1>1, <1>6
  <2>1. j \in 1..(k - 1)
    BY <1>1, <1>6
  <2>2. j > s.after
    BY <1>1, <1>6
  <2>3. Skipped(s, directory[j])
    BY <2>1, <2>2 DEF Passed
  <2>4. directory[j].kind = "file" /\ (s.op = "find" => directory[j].name = s.name)
    BY <1>6 DEF Visible, FilesOf, Named
  <2> QED
    BY <2>3, <2>4 DEF Skipped
<1>8. CASE directory[k].kind = "end"
  <2>1. wanted = {}
    <3> SUFFICES ASSUME NEW j \in wanted PROVE FALSE
      OBVIOUS
    <3>1. j >= k /\ j \in UpToEnd(directory)
      BY <1>6, <1>7 DEF Visible, FilesOf
    <3>2. k \in 1..j
      BY <1>1, <1>6, <3>1
    <3> QED
      BY <1>8, <3>1, <3>2 DEF UpToEnd
  <2> QED
    BY <1>8, <2>1
<1>9. CASE directory[k].kind = "file"
  <2>1. k \in wanted
    <3>1. \A j \in 1..k : directory[j].kind # "end"
      <4>1. \A j \in 1..k : j = k \/ j \in 1..(k - 1)
        BY <1>1
      <4> QED
        BY <1>9, <4>1 DEF Passed
    <3>2. k \in Visible
      BY <1>1, <1>9, <3>1 DEF Visible, FilesOf, UpToEnd
    <3>3. s.op = "find" => directory[k].name = s.name
      BY <1>9 DEF Skipped
    <3> QED
      BY <1>1, <3>2, <3>3 DEF Named
  <2>2. wanted \in SUBSET Nat
    BY <1>6
  <2> HIDE DEF wanted
  <2>3. Min(wanted) \in wanted /\ Min(wanted) <= k
    BY <2>1, <2>2, MinOf
  <2>4. Min(wanted) = k
    <3>1. PICK m : m = Min(wanted)
      OBVIOUS
    <3>2. m \in wanted /\ m <= k
      BY <2>3, <3>1
    <3>3. m \in Nat /\ m >= k
      BY <1>6, <1>7, <3>2
    <3>4. m = k
      BY <1>1, <3>2, <3>3
    <3> QED
      BY <3>1, <3>4
  <2>5. Value(s.position) = EntryAddress(k)
    BY SmallIs
  <2> QED
    BY <1>9, <2>1, <2>4, <2>5 DEF wanted
<1> QED
  BY <1>5, <1>8, <1>9

LEMMA AfterScanWaits ==
    ASSUME ScanInv, FatInv', UNCHANGED <<directory, table>>, NEW t \in Caller, AfterScan(t)
    PROVE  ScanInv'
<1> DEFINE s == calls[t]
           p == Moved(EntrySize)
<1>1. s \in Scanning /\ root # Unmounted /\ root' = root /\ FatInv
      /\ Waits(s, position) /\ VolumeInit /\ s.op \in {"find", "list"}
  BY FatFields DEF AfterScan, ScanInv, FatInv
<1>2. PICK entry \in EntriesAt(Value(s.position)) :
        IF Skipped(s, entry) THEN Scan(t, s, s.position, p)
        ELSE Returns(t, [op |-> s.op, name |-> s.name, after |-> s.after,
                         overlapped |-> s.overlapped, found |-> entry.kind = "file",
                         position |-> s.position], p)
  BY DEF AfterScan
<1>3. p \in Uint64
  BY <1>1, MovedTyped, GeometryIs
<1> HIDE DEF s, p
<1>4. ASSUME ~s.overlapped, ~IsFull
      PROVE  \E k \in (s.after + 1)..RootEntries :
                /\ k \in 1..RootEntries /\ entry = directory[k]
                /\ Small(s.position, EntryAddress(k)) /\ Passed(s, k)
  <2>1. PICK k \in (s.after + 1)..RootEntries : Small(s.position, EntryAddress(k)) /\ Passed(s, k)
    BY <1>1, <1>4 DEF Waits
  <2>2. k \in 1..RootEntries
    <3>1. s.after \in Nat
      BY <1>1 DEF Scanning
    <3> QED
      BY <3>1
  <2>3. EntryAddress(k) = Value(s.position)
    BY <2>1, SmallIs
  <2> QED
    BY <1>1, <1>2, <2>1, <2>2, <2>3, EntryFits
<1>5. CASE Skipped(s, entry)
  <2>1. Scan(t, s, s.position, p)
    BY <1>2, <1>5
  <2>2. ASSUME ~s.overlapped, ~IsFull
        PROVE  \E k \in (s.after + 1)..RootEntries :
                    /\ Small(p, EntryAddress(k)) /\ Passed(s, k)
                    /\ \E j \in 1..RootEntries : Small(s.position, EntryAddress(j))
    <3>1. PICK k \in (s.after + 1)..RootEntries :
                /\ k \in 1..RootEntries /\ entry = directory[k]
                /\ Small(s.position, EntryAddress(k)) /\ Passed(s, k)
      BY <1>4, <2>2
    <3>2. /\ k + 1 \in (s.after + 1)..RootEntries
          /\ Small(p, EntryAddress(k + 1)) /\ Passed(s, k + 1)
      BY <1>1, <1>5, <2>2, <3>1, NextWaits DEF p
    <3> QED
      BY <3>1, <3>2
  <2>3. s.op = "find" => s.after = 0
    BY <1>1 DEF Waits
  <2> QED
    BY <1>1, <1>3, <2>1, <2>2, <2>3, ScanWaits
<1>6. CASE ~Skipped(s, entry)
  <2>1. /\ Leave(t, NoCall, p)
        /\ returned' = [op |-> s.op, name |-> s.name, after |-> s.after,
                        overlapped |-> s.overlapped, found |-> entry.kind = "file",
                        position |-> s.position]
    BY <1>2, <1>6 DEF Returns
  <2>2. IsFull' = IsFull /\ Visible' = Visible /\ \A name : Named(name)' = Named(name)
    BY DEF IsFull, UpToEnd, Visible, FilesOf, Named
  <2>3. ASSUME ~s.overlapped, ~IsFull
        PROVE  LET wanted == IF s.op = "find" THEN Named(s.name)
                             ELSE {v \in Visible : v > s.after}
               IN  IF wanted = {} THEN entry.kind # "file"
                   ELSE entry.kind = "file" /\ Value(s.position) = EntryAddress(Min(wanted))
    <3>1. PICK k \in (s.after + 1)..RootEntries :
                /\ k \in 1..RootEntries /\ entry = directory[k]
                /\ Small(s.position, EntryAddress(k)) /\ Passed(s, k)
      BY <1>4, <2>3
    <3>2. s.op = "find" => s.after = 0
      BY <1>1 DEF Waits
    <3> QED
      BY <1>1, <1>6, <3>1, <3>2, FindsRight
  <2>4. ScanRight'
    <3> DEFINE wanted == IF s.op = "find" THEN Named(s.name) ELSE {v \in Visible : v > s.after}
               wanted1 == IF returned.op = "find" THEN Named(returned.name)
                          ELSE {v \in Visible : v > returned.after}
    <3>1. /\ returned'.op = s.op /\ returned'.name = s.name /\ returned'.after = s.after
          /\ returned'.overlapped = s.overlapped /\ returned'.position = s.position
          /\ returned'.found = (entry.kind = "file")
      BY <2>1
    <3>2. wanted1' = wanted
      <4>1. wanted1' = IF returned'.op = "find" THEN {v \in Visible' : directory'[v].name = returned'.name}
                       ELSE {v \in Visible' : v > returned'.after}
        BY DEF Named
      <4> QED
        BY <2>2, <3>1, <4>1 DEF Named
    <3>3. ASSUME ~s.overlapped, ~IsFull
          PROVE  IF wanted = {} THEN ~returned'.found
                 ELSE returned'.found /\ Value(returned'.position) = EntryAddress(Min(wanted))
      BY <2>3, <3>1, <3>3
    <3> HIDE DEF wanted
    <3>4. ScanRight' = (returned'.op \in {"find", "list"} /\ ~returned'.overlapped /\ ~IsFull' =>
                IF wanted1' = {} THEN ~returned'.found
                ELSE returned'.found /\ Value(returned'.position) = EntryAddress(Min(wanted1')))
      BY DEF ScanRight
    <3> HIDE DEF wanted1
    <3> QED
      BY <2>2, <3>1, <3>2, <3>3, <3>4
  <2> QED
    BY <2>1, <2>4, LeaveWaits DEF NoCall
<1> QED
  BY <1>5, <1>6

(* Reads leave the scans alone or mark them as overlapped.                  *)
LEMMA OtherWaits ==
    ASSUME ScanInv, FatInv', UNCHANGED directory, NEW t \in Caller, NEW mine, NEW p,
           Leave(t, mine, p), mine.op \notin {"find", "list"}, returned'.op \notin {"find", "list"}
    PROVE  ScanInv'
<1>1. ScanRight'
  BY DEF ScanRight
<1> QED
  BY <1>1, LeaveWaits

LEMMA ReadLoopWaits ==
    ASSUME ScanInv, FatInv', UNCHANGED directory, NEW t \in Caller, NEW r, r.op = "read", NEW p,
           ReadLoop(t, r, p)
    PROVE  ScanInv'
<1> DEFINE disk == Add64(Word((r.cluster + r.cluster \div 2) % Limb), root.fat_begin)
           mine == [r EXCEPT !.at = "fat", !.disk = disk]
<1>1. CASE Len(r.bytes) < r.count /\ r.cluster < BadCluster
  <2>1. Leave(t, mine, disk) /\ returned' = Nothing
    BY <1>1 DEF ReadLoop, Sleeps
  <2>2. mine.op = "read"
    OBVIOUS
  <2>3. returned'.op = "none"
    BY <2>1 DEF Nothing
  <2> HIDE DEF mine, disk
  <2> QED
    BY <2>1, <2>2, <2>3, OtherWaits
<1>2. CASE ~(Len(r.bytes) < r.count /\ r.cluster < BadCluster)
  <2>1. Leave(t, NoCall, p) /\ returned'.op = "read"
    BY <1>2 DEF ReadLoop, Returns
  <2>2. NoCall.op = "none"
    BY DEF NoCall
  <2> QED
    BY <2>1, <2>2, OtherWaits
<1> QED
  BY <1>1, <1>2

LEMMA StartReadWaits ==
    ASSUME ScanInv, FatInv', UNCHANGED <<directory, table>>, NEW t \in Caller, NEW slot,
           NEW from, NEW n, StartRead(t, slot, from, n)
    PROVE  ScanInv'
<1>1. PICK mine, p : mine.op = "read" /\ Leave(t, mine, p) /\ returned' = Nothing
  BY DEF StartRead, Sleeps
<1>2. returned'.op = "none"
  BY <1>1 DEF Nothing
<1> QED
  BY <1>1, <1>2, OtherWaits

LEMMA AfterEntryWaits ==
    ASSUME ScanInv, FatInv', UNCHANGED <<directory, table>>, NEW t \in Caller, AfterEntry(t)
    PROVE  ScanInv'
<1> DEFINE r == calls[t]
<1>1. r \in Reading
  BY FatFields DEF AfterEntry, ScanInv
<1>2. PICK entry \in EntriesAt(Value(calls[t].disk)) :
        ReadLoop(t, [r EXCEPT !.end_offset = ShiftedOut(Word(entry.size % Limb),
                                                       root.cluster_pot),
                             !.cluster = entry.cluster], Moved(EntrySize))
  BY DEF AfterEntry
<1> DEFINE e == ShiftedOut(Word(entry.size % Limb), root.cluster_pot)
           mine == [r EXCEPT !.end_offset = e, !.cluster = entry.cluster]
<1>3. ReadLoop(t, mine, Moved(EntrySize))
  BY <1>2
<1>4. mine.op = "read"
  BY <1>1 DEF Reading
<1> HIDE DEF mine
<1> QED
  BY <1>3, <1>4, ReadLoopWaits

LEMMA AfterFatWaits ==
    ASSUME ScanInv, FatInv', UNCHANGED <<directory, table>>, NEW t \in Caller, AfterFat(t)
    PROVE  ScanInv'
<1> DEFINE r == calls[t]
<1>1. r \in Reading
  BY FatFields DEF AfterFat, ScanInv
<1>2. PICK word : 
        LET next == Decode(r.cluster, word)
            size == PartSize(r, next)
        IN  IF Cmp64_16(r.left, 0) # 0
            THEN ReadLoop(t, [r EXCEPT !.left = Dec64(@), !.cluster = next], Moved(2))
            ELSE IF size = 0
            THEN ReadLoop(t, [r EXCEPT !.offset = 0, !.cluster = next], DataPosition(r))
            ELSE Sleeps(t, [r EXCEPT !.at = "data", !.next = next, !.size = size,
                                     !.disk = DataPosition(r)],
                        DataPosition(r))
  BY Zenon DEF AfterFat
<1> DEFINE next == Decode(r.cluster, word)
           size == PartSize(r, next)
           data == DataPosition(r)
           skips == [r EXCEPT !.left = Dec64(@), !.cluster = next]
           empty == [r EXCEPT !.offset = 0, !.cluster = next]
           reads == [r EXCEPT !.at = "data", !.next = next, !.size = size, !.disk = data]
<1>3. \/ ReadLoop(t, skips, Moved(2))
      \/ ReadLoop(t, empty, data)
      \/ Leave(t, reads, data) /\ returned' = Nothing
  BY <1>2 DEF Sleeps
<1>4. skips.op = "read" /\ empty.op = "read" /\ reads.op = "read" /\ Nothing.op = "none"
  BY <1>1 DEF Reading, Nothing
<1> HIDE DEF skips, empty, reads, data
<1> QED
  BY <1>3, <1>4, ReadLoopWaits, OtherWaits

LEMMA AfterDataWaits ==
    ASSUME ScanInv, FatInv', UNCHANGED <<directory, table>>, NEW t \in Caller, AfterData(t)
    PROVE  ScanInv'
<1> DEFINE r == calls[t]
           part == [i \in 1..r.size |-> Value(r.disk) + i - 1]
           mine == [r EXCEPT !.bytes = @ \o part, !.offset = 0, !.cluster = r.next]
<1>1. r \in Reading
  BY FatFields DEF AfterData, ScanInv
<1>2. ReadLoop(t, mine, Moved(r.size))
  BY DEF AfterData
<1>3. mine.op = "read"
  BY <1>1 DEF Reading
<1> HIDE DEF mine
<1> QED
  BY <1>2, <1>3, ReadLoopWaits

LEMMA MountWaits ==
    ASSUME ScanInv, FatInv', UNCHANGED <<directory, table>>, CreateFatFs
    PROVE  ScanInv'
<1>1. \A t \in Caller : calls[t].op = "none"
  BY DEF ScanInv, FatInv, CreateFatFs
<1>2. calls' = calls /\ returned'.op = "none"
  BY DEF CreateFatFs, Nothing
<1>3. ScanRight'
  BY <1>2 DEF ScanRight
<1> QED
  BY <1>1, <1>2, <1>3 DEF ScanInv

LEMMA InitScan == MachineInit => ScanInv
<1> SUFFICES ASSUME MachineInit PROVE ScanInv
  OBVIOUS
<1>1. FatInv
  BY InitFat
<1>2. returned.op = "none" /\ \A t \in Caller : calls[t].op = "none"
  BY DEF MachineInit, FatInit, Nothing, NoCall
<1>3. ScanRight
  BY <1>2 DEF ScanRight
<1> QED
  BY <1>1, <1>2, <1>3 DEF ScanInv

LEMMA StepScan ==
    ASSUME ScanInv, [Booting \/ Running]_machine_vars
    PROVE  ScanInv'
<1>1. UNCHANGED <<directory, table>> /\ FatInv'
  BY StepFat DEF Booting, Running, machine_vars, ScanInv
<1>2. CASE UNCHANGED fat_vars
  <2>1. calls' = calls /\ position' = position /\ returned' = returned /\ directory' = directory
    BY <1>1, <1>2 DEF fat_vars
  <2>2. ScanRight'
    BY <2>1 DEF ScanInv, ScanRight, IsFull, UpToEnd, Visible, FilesOf, Named
  <2>3. ASSUME NEW t \in Caller, (calls[t].op \in {"find", "list"})'
        PROVE  Waits(calls[t], position)'
    <3>1. Waits(calls[t], position)
      BY <2>1, <2>3 DEF ScanInv
    <3> QED
      BY <2>1, <3>1 DEF Waits, Passed, Skipped, IsFull, UpToEnd
  <2> QED
    BY <1>1, <2>2, <2>3 DEF ScanInv
<1>3. CASE FatNext
  <2>1. CASE CreateFatFs
    BY <1>1, <2>1, MountWaits
  <2>2. ASSUME NEW t \in Caller, NEW s \in Visible, NEW from \in Positions, NEW n \in Counts,
               StartRead(t, s, from, n)
        PROVE  ScanInv'
    BY <1>1, <2>2, StartReadWaits
  <2>3. ASSUME NEW t \in Caller, NEW name \in Names, GetNodeByName(t, name)
        PROVE  ScanInv'
    BY <1>1, <2>3, StartScanWaits DEF GetNodeByName
  <2>4. ASSUME NEW t \in Caller, NEW after \in Visible \cup {0}, GetNextNode(t, after)
        PROVE  ScanInv'
    BY <1>1, <2>4, StartScanWaits DEF GetNextNode
  <2>5. ASSUME NEW t \in Caller, AfterEntry(t) \/ AfterFat(t) \/ AfterData(t) \/ AfterScan(t)
        PROVE  ScanInv'
    BY <1>1, <2>5, AfterEntryWaits, AfterFatWaits, AfterDataWaits, AfterScanWaits
  <2> QED
    BY <1>3, <2>1, <2>2, <2>3, <2>4, <2>5 DEF FatNext
<1> QED
  BY <1>2, <1>3 DEF Booting, Running, machine_vars

(* fat_root_get_node_by_name finds the entry with the name, and             *)
(* fat_root_get_next_node the next visible one, and only them, however the  *)
(* reads of other tasks come between, unless they have moved the handle.    *)
THEOREM ScansRight == MachineSpec => []ScanRight
<1>1. ScanInv /\ [Booting \/ Running]_machine_vars => ScanInv'
  BY StepScan
<1>2. ScanInv => ScanRight
  BY DEF ScanInv
<1> QED
  BY <1>1, <1>2, InitScan, PTL DEF MachineSpec

-----------------------------------------------------------------------------
(* fat_read_file.  The addresses of a file's bytes from f to q, where ch    *)
(* are its clusters, and where its part in cluster k ends.                  *)
Byte(ch, i) == ClusterAddress(ch[i \div SectorSize + 1]) + (i % SectorSize)
BytesTo(ch, f, q) == [i \in 1..(q - f) |-> Byte(ch, f + i - 1)]
UpTo(size, k) == IF k = ClusterCount(size) THEN FileEnd(size) ELSE k * SectorSize
Follows(size, ch, k, next) ==
    IF k = ClusterCount(size) THEN next > BadCluster ELSE next = ch[k + 1]

(* A file, and a position that is not behind what is read as its end.       *)
Regular(size, ch, f) ==
    /\ size \in Nat \ {0} /\ f \in 0..FileEnd(size)
    /\ ch \in [1..ClusterCount(size) -> 2..(BadCluster - 1)]
    /\ ClusterCount(size) <= BadCluster

(* A read that goes on in cluster k has skipped those before the position,  *)
(* or has the bytes up to its offset in this cluster.                       *)
Reached(r, size, ch, f, k) ==
    /\ k \in 1..ClusterCount(size)
    /\ r.cluster = ch[k] /\ r.end_offset = size % SectorSize
    /\ k <= f \div SectorSize =>
            /\ r.left = Word(f \div SectorSize + 1 - k)
            /\ r.offset = f % SectorSize /\ r.bytes = <<>>
    /\ k > f \div SectorSize =>
            LET q == (k - 1) * SectorSize + r.offset
            IN  /\ r.left = Word(0) /\ r.offset < SectorSize
                /\ f <= q /\ q <= UpTo(size, k)
                /\ r.bytes = BytesTo(ch, f, q)

(* It waits for a part of this cluster.                                     *)
Delivers(r, size, ch, f, k) ==
    LET q == (k - 1) * SectorSize + r.offset
    IN  /\ k > f \div SectorSize
        /\ Follows(size, ch, k, r.next)
        /\ r.size > 0 /\ r.size = Lesser(UpTo(size, k) - q, r.count - (q - f))
        /\ Value(r.disk) = ClusterAddress(ch[k]) + r.offset

Complete(r, size, ch, f) ==
    r.bytes = BytesTo(ch, f, f + Lesser(r.count, FileEnd(size) - f))

LEMMA ClustersAre ==
    ASSUME NEW size \in Nat \ {0}
    PROVE  /\ ClusterCount(size) \in Nat \ {0}
           /\ size % SectorSize \in 0..(SectorSize - 1) /\ FileEnd(size) \in Nat
           /\ FileEnd(size) = SectorSize * (ClusterCount(size) - 1) + (size % SectorSize)
           /\ \A k \in 1..ClusterCount(size) :
                /\ (k - 1) * SectorSize \in Nat
                /\ k * SectorSize = (k - 1) * SectorSize + SectorSize
                /\ UpTo(size, k) <= FileEnd(size)
                /\ UpTo(size, k) = (k - 1) * SectorSize
                        + (IF k = ClusterCount(size) THEN size % SectorSize ELSE SectorSize)
<1> DEFINE S == SectorSize
           h == size \div S
           z == size % S
           n == ClusterCount(size)
           end == FileEnd(size)
<1>1. S \in Nat \ {0}
  BY SizesAre
<1>2. size = S * h + z /\ h \in Nat /\ z \in 0..(S - 1)
  BY <1>1, Divide
<1>3. end = IF z = 0 THEN size - S ELSE size
  BY DEF FileEnd
<1>4. n = (size + S - 1) \div S
  BY DEF ClusterCount
<1> HIDE DEF h, z, n, end
<1>5. PICK m \in Nat : n = m + 1 /\ end = S * m + z
  <2>1. CASE z = 0
    <3>1. h # 0
      <4> SUFFICES ASSUME h = 0 PROVE FALSE
        OBVIOUS
      <4>1. S * h = 0
        BY <1>1
      <4> QED
        BY <1>2, <2>1, <4>1
    <3>2. PICK m \in Nat : h = m + 1
      <4>1. h - 1 \in Nat /\ h = (h - 1) + 1
        BY <1>2, <3>1
      <4> QED
        BY <4>1
    <3>3. S * h = S * m + S /\ S * h \in Nat /\ S * m \in Nat
      BY <1>1, <3>2
    <3>4. size + S - 1 = S * h + (S - 1) /\ size + S - 1 \in Nat /\ S - 1 \in 0..(S - 1)
      BY <1>1, <1>2, <2>1, <3>3
    <3>5. n = h
      BY <1>1, <1>2, <1>4, <3>4, Quotient
    <3>6. end = S * m + z
      BY <1>1, <1>2, <1>3, <2>1, <3>3
    <3> QED
      BY <3>2, <3>5, <3>6
  <2>2. CASE z # 0
    <3>1. S * (h + 1) = S * h + S /\ S * h \in Nat /\ h + 1 \in Nat
      BY <1>1, <1>2
    <3>2. size + S - 1 = S * (h + 1) + (z - 1) /\ size + S - 1 \in Nat /\ z - 1 \in 0..(S - 1)
      BY <1>1, <1>2, <2>2, <3>1
    <3>3. n = h + 1
      BY <1>1, <1>4, <3>1, <3>2, Quotient
    <3> QED
      BY <1>2, <1>3, <2>2, <3>3
  <2> QED
    BY <2>1, <2>2
<1>6. S * m \in Nat /\ m * S = S * m /\ end \in Nat
  <2>1. S * m \in Nat /\ m * S = S * m
    BY <1>1
  <2> QED
    BY <1>2, <1>5, <2>1
<1>7. ASSUME NEW k \in 1..n
      PROVE  /\ (k - 1) * S \in Nat /\ k * S = (k - 1) * S + S /\ k * S \in Nat
             /\ k = n => (k - 1) * S + z = end
             /\ k # n => k * S <= end
  <2>1. k \in Nat /\ k - 1 \in Nat /\ k - 1 <= m
    BY <1>5
  <2>2. (k - 1) * S \in Nat /\ k * S \in Nat /\ (k - 1) * S <= m * S
    BY <1>1, <2>1, ProductGrows
  <2>3. k * S = (k - 1) * S + S
    BY <1>1, <2>1
  <2>4. k = n => (k - 1) * S + z = end
    <3> SUFFICES ASSUME k = n PROVE (k - 1) * S + z = end
      OBVIOUS
    <3>1. k - 1 = m
      BY <1>5
    <3>2. (k - 1) * S = S * m
      BY <1>6, <3>1
    <3> QED
      BY <1>5, <3>2
  <2>5. k # n => k * S <= end
    <3> SUFFICES ASSUME k # n PROVE k * S <= end
      OBVIOUS
    <3>1. k <= m
      BY <1>5, <2>1
    <3>2. k * S <= m * S
      BY <1>1, <2>1, <3>1, ProductGrows
    <3> DEFINE x == k * S
               y == S * m
    <3>3. x <= y /\ x \in Nat /\ y \in Nat /\ end = y + z /\ z \in Nat
      BY <1>2, <1>5, <1>6, <2>2, <3>2
    <3> HIDE DEF x, y
    <3>4. x <= end
      BY <3>3
    <3> QED
      BY <3>4 DEF x
  <2> QED
    BY <2>2, <2>3, <2>4, <2>5
<1>8. ASSUME NEW k \in 1..n
      PROVE  /\ (k - 1) * S \in Nat
             /\ k * S = (k - 1) * S + S
             /\ UpTo(size, k) <= end
             /\ UpTo(size, k) = (k - 1) * S + (IF k = n THEN z ELSE S)
  <2>1. UpTo(size, k) = IF k = n THEN end ELSE k * S
    BY DEF UpTo, n, end
  <2>2. CASE k = n
    BY <1>6, <1>7, <2>1, <2>2
  <2>3. CASE k # n
    BY <1>7, <2>1, <2>3
  <2> QED
    BY <2>2, <2>3
<1>9. n \in Nat \ {0} /\ end = S * (n - 1) + z
  BY <1>5
<1> QED
  BY <1>2, <1>6, <1>8, <1>9 DEF z, n, end

LEMMA Concat ==
    ASSUME NEW T, NEW a \in Seq(T), NEW b \in Seq(T)
    PROVE  /\ a \o b \in Seq(T) /\ Len(a \o b) = Len(a) + Len(b)
           /\ \A i \in 1..(Len(a) + Len(b)) :
                (a \o b)[i] = IF i <= Len(a) THEN a[i] ELSE b[i - Len(a)]
OBVIOUS

LEMMA IsSequence ==
    ASSUME NEW T, NEW n \in Nat, NEW g \in [1..n -> T]
    PROVE  g \in Seq(T) /\ Len(g) = n
OBVIOUS

LEMMA SameSequence ==
    ASSUME NEW T, NEW a \in Seq(T), NEW b \in Seq(T), Len(a) = Len(b),
           \A i \in 1..Len(a) : a[i] = b[i]
    PROVE  a = b
OBVIOUS

AnyByte(ch) == {Byte(ch, j) : j \in Nat}

IsBytes(b, ch, f, q) ==
    /\ DOMAIN b = 1..(q - f) /\ q - f \in Nat
    /\ b \in Seq(AnyByte(ch)) /\ Len(b) = q - f
    /\ \A i \in 1..(q - f) : b[i] = Byte(ch, f + i - 1)
    /\ q = f => b = <<>>

LEMMA BytesToIs ==
    ASSUME NEW ch, NEW f \in Nat, NEW q \in Nat, f <= q
    PROVE  IsBytes(BytesTo(ch, f, q), ch, f, q)
<1>1. DOMAIN BytesTo(ch, f, q) = 1..(q - f) /\ q - f \in Nat
  BY DEF BytesTo
<1>2. \A i \in 1..(q - f) : BytesTo(ch, f, q)[i] = Byte(ch, f + i - 1)
  BY DEF BytesTo
<1>4. ASSUME NEW i \in 1..(q - f) PROVE Byte(ch, f + i - 1) \in AnyByte(ch)
  <2>1. f + i - 1 \in Nat
    BY <1>1
  <2> QED
    BY <2>1 DEF AnyByte
<1>5. BytesTo(ch, f, q) \in Seq(AnyByte(ch)) /\ Len(BytesTo(ch, f, q)) = q - f
  <2>1. BytesTo(ch, f, q) \in [1..(q - f) -> AnyByte(ch)]
    BY <1>4 DEF BytesTo
  <2> QED
    BY <1>1, <2>1, IsSequence
<1>3. q = f => BytesTo(ch, f, q) = <<>>
  <2> SUFFICES ASSUME q = f PROVE BytesTo(ch, f, q) = <<>>
    OBVIOUS
  <2>1. 1..(q - f) = {}
    OBVIOUS
  <2>2. BytesTo(ch, f, q) = [i \in {} |-> Byte(ch, f + i - 1)]
    BY <2>1 DEF BytesTo
  <2> QED
    BY <2>2
<1> QED
  BY <1>1, <1>2, <1>3, <1>5 DEF IsBytes

(* A part of a cluster is read.                                             *)
Adds(ch, f, k, o, d, q, e) ==
    BytesTo(ch, f, q) \o [i \in 1..d |-> ClusterAddress(ch[k]) + o + i - 1]
        = BytesTo(ch, f, e)

LEMMA PartAdds ==
    ASSUME NEW ch, NEW f \in Nat, NEW k \in Nat \ {0}, NEW o \in Nat, NEW d \in Nat,
           NEW a \in Nat, a = (k - 1) * SectorSize, o + d <= SectorSize,
           NEW q \in Nat, q = a + o, f <= q, NEW e \in Nat, e = q + d,
           ClusterAddress(ch[k]) \in Int
    PROVE  Adds(ch, f, k, o, d, q, e)
<1> DEFINE A == ClusterAddress(ch[k])
           part == [i \in 1..d |-> A + o + i - 1]
           old == BytesTo(ch, f, q)
           new == BytesTo(ch, f, e)
<1>1. q \in Nat /\ e \in Nat /\ f <= q /\ f <= e /\ SectorSize \in Nat \ {0} /\ k \in Nat
  BY SizesAre
<1>2. /\ DOMAIN old = 1..(q - f) /\ q - f \in Nat
      /\ old \in Seq(AnyByte(ch))
      /\ Len(old) = q - f
      /\ \A i \in 1..(q - f) : old[i] = Byte(ch, f + i - 1)
  <2>1. f \in Nat /\ q \in Nat /\ f <= q
    BY <1>1
  <2>2. IsBytes(BytesTo(ch, f, q), ch, f, q)
    BY <2>1, BytesToIs
  <2> QED
    BY <2>2 DEF IsBytes
<1>3. /\ DOMAIN new = 1..(e - f) /\ e - f \in Nat
      /\ new \in Seq(AnyByte(ch))
      /\ Len(new) = e - f
      /\ \A i \in 1..(e - f) : new[i] = Byte(ch, f + i - 1)
  <2>1. f \in Nat /\ e \in Nat /\ f <= e
    BY <1>1
  <2>2. IsBytes(BytesTo(ch, f, e), ch, f, e)
    BY <2>1, BytesToIs
  <2> QED
    BY <2>2 DEF IsBytes
<1>4. DOMAIN part = 1..d /\ Len(part) = d /\ \A i \in 1..d : part[i] = A + o + i - 1
  OBVIOUS
<1>5. ASSUME NEW i \in 1..d PROVE Byte(ch, q + i - 1) = A + o + i - 1
  <2> DEFINE w == o + i - 1
             p == q + i - 1
  <2>1. w \in 0..(SectorSize - 1) /\ p = a + w /\ p \in Nat
    BY <1>1
  <2> HIDE DEF w, p
  <2>2. a = SectorSize * (k - 1) /\ k - 1 \in Nat
    BY <1>1
  <2>3. p = SectorSize * (k - 1) + w
    BY <2>1, <2>2
  <2>4. p \div SectorSize = k - 1 /\ p % SectorSize = w
    BY <1>1, <2>1, <2>2, <2>3, Quotient
  <2>5. p \div SectorSize + 1 = k
    BY <1>1, <2>4
  <2>6. Byte(ch, p) = ClusterAddress(ch[k]) + w
    BY <2>4, <2>5 DEF Byte
  <2>7. A + w = A + o + i - 1
    BY DEF w
  <2> QED
    BY <2>6, <2>7 DEF p
<1> HIDE DEF part, A, old, new
<1>6. old \in Seq(AnyByte(ch)) /\ part \in Seq(AnyByte(ch))
  <2>1. ASSUME NEW i \in 1..d PROVE part[i] \in AnyByte(ch)
    <3>1. q + i - 1 \in Nat
      BY <1>1
    <3> QED
      BY <1>4, <1>5, <3>1 DEF AnyByte
  <2>2. part = [i \in 1..d |-> part[i]]
    BY <1>4 DEF part
  <2>3. part \in [1..d -> AnyByte(ch)]
    BY <2>1, <2>2
  <2> QED
    BY <1>2, <2>3, IsSequence
<1> DEFINE both == old \o part
<1>8. /\ both \in Seq(AnyByte(ch)) /\ Len(both) = e - f
      /\ \A i \in 1..(e - f) : both[i] = IF i <= q - f THEN old[i] ELSE part[i - (q - f)]
  <2>1. Len(old) + Len(part) = e - f
    BY <1>1, <1>2, <1>4
  <2>2. /\ both \in Seq(AnyByte(ch)) /\ Len(both) = Len(old) + Len(part)
        /\ \A i \in 1..(Len(old) + Len(part)) :
                both[i] = IF i <= Len(old) THEN old[i] ELSE part[i - Len(old)]
    BY <1>2, <1>6, Concat
  <2> HIDE DEF both
  <2>3. \A i \in 1..(e - f) : both[i] = IF i <= q - f THEN old[i] ELSE part[i - (q - f)]
    BY <1>2, <2>1, <2>2
  <2> QED
    BY <2>1, <2>2, <2>3
<1> HIDE DEF both
<1>9. ASSUME NEW i \in 1..(e - f) PROVE both[i] = new[i]
  <2>1. both[i] = IF i <= q - f THEN old[i] ELSE part[i - (q - f)]
    BY <1>8
  <2>2. new[i] = Byte(ch, f + i - 1)
    BY <1>3
  <2>3. CASE i <= q - f
    BY <1>1, <1>2, <2>1, <2>2, <2>3
  <2>4. CASE i > q - f
    <3>1. PICK j : j = i - (q - f)
      OBVIOUS
    <3>2. j \in 1..d
      BY <1>1, <2>4, <3>1
    <3>3. both[i] = part[j] /\ part[j] = A + o + j - 1
      <4>1. ~(i <= q - f)
        BY <1>1, <2>4
      <4> QED
        BY <1>4, <2>1, <3>1, <3>2, <4>1
    <3>4. q + j - 1 = f + i - 1
      BY <1>1, <3>1
    <3>5. Byte(ch, q + j - 1) = A + o + j - 1
      BY <1>5, <3>2
    <3> QED
      BY <2>2, <3>3, <3>4, <3>5
  <2> QED
    BY <1>1, <2>3, <2>4
<1>10. both = new
  BY <1>3, <1>8, <1>9, SameSequence
<1> QED
  BY <1>10 DEF old, new, part, A, both, Adds

LEMMA RegularIs ==
    ASSUME NEW size, NEW ch, NEW f, Regular(size, ch, f)
    PROVE  /\ size \in Nat \ {0} /\ f \in Nat /\ FileEnd(size) \in Nat /\ f <= FileEnd(size)
           /\ ClusterCount(size) \in Nat \ {0} /\ ClusterCount(size) <= BadCluster
           /\ \A k \in 1..ClusterCount(size) :
                ch[k] \in Nat /\ ch[k] >= 2 /\ ch[k] < BadCluster /\ k \in Digit
           /\ \E F, o, a \in Nat :
                /\ F = f \div SectorSize /\ o = f % SectorSize /\ o < SectorSize
                /\ a = F * SectorSize /\ f = a + o
                /\ F + 1 \in 1..ClusterCount(size)
                /\ \A k1 \in 1..ClusterCount(size) : k1 = F + 1 => f <= UpTo(size, k1)
<1> DEFINE S == SectorSize
           n == ClusterCount(size)
           m == n - 1
           F == f \div S
           o == f % S
           z == size % S
           end == FileEnd(size)
<1>1. /\ S \in Nat \ {0} /\ size \in Nat \ {0} /\ f \in 0..end /\ n <= BadCluster
  BY SizesAre DEF Regular
<1>2. /\ n \in Nat \ {0} /\ z \in 0..(S - 1) /\ end \in Nat /\ end = S * m + z
      /\ \A k \in 1..n : UpTo(size, k) = (k - 1) * S + (IF k = n THEN z ELSE S)
  BY <1>1, ClustersAre
<1>14. n = m + 1 /\ m \in Nat
  <2> HIDE DEF n
  <2> QED
    BY <1>2
<1>15. f \in Nat /\ f <= end
  BY <1>1, <1>2
<1>3. f = S * F + o /\ F \in Nat /\ o \in 0..(S - 1)
  BY <1>1, <1>15, Divide
<1> HIDE DEF n, m, F, o, z, end
<1>4. F <= m
  <2> SUFFICES ASSUME m + 1 <= F PROVE FALSE
    BY <1>3, <1>14
  <2>1. (m + 1) * S <= F * S /\ F * S = S * F /\ (m + 1) * S = S * m + S
    BY <1>1, <1>3, <1>14, ProductGrows
  <2>2. S * m \in Int /\ S * F \in Int
    BY <1>1, <1>3, <1>14
  <2> QED
    BY <1>1, <1>2, <1>3, <1>15, <2>1, <2>2
<1>5. F + 1 \in 1..n
  BY <1>3, <1>4, <1>14
<1>6. ASSUME NEW g \in 1..n, g = F + 1 PROVE f <= UpTo(size, g)
  <2>1. UpTo(size, g) = (g - 1) * S + (IF g = n THEN z ELSE S)
    BY <1>2
  <2>2. (g - 1) * S = S * F
    <3>1. g - 1 = F
      BY <1>3, <1>6
    <3> QED
      BY <1>1, <1>3, <3>1
  <2>3. CASE g = n
    <3>1. F = m
      BY <1>3, <1>6, <1>14, <2>3
    <3>2. UpTo(size, g) = end
      BY <1>2, <2>1, <2>2, <2>3, <3>1
    <3> QED
      BY <1>15, <3>2
  <2>4. CASE g # n
    <3>1. S * F \in Int
      BY <1>1, <1>3
    <3> QED
      BY <1>1, <1>3, <2>1, <2>2, <2>4, <3>1
  <2> QED
    BY <2>3, <2>4
<1>7. ch \in [1..n -> 2..(BadCluster - 1)] /\ BadCluster \in Nat /\ BadCluster < Limb /\ Limb \in Nat
  <2>1. BadCluster \in 1..(EntryValues - 2) /\ 2 * EntryValues <= Limb /\ Limb \in Nat
        /\ EntryValues \in Nat
    BY SizesAre, GeometryIs
  <2> HIDE DEF EntryValues, Limb, BadCluster
  <2>2. BadCluster \in Nat /\ BadCluster < Limb
    BY <2>1
  <2> QED
    BY <2>1, <2>2 DEF Regular, n
<1>8. \A k \in 1..n : ch[k] \in Nat /\ ch[k] >= 2 /\ ch[k] < BadCluster /\ k \in Digit
  <2> HIDE DEF BadCluster, Limb
  <2> QED
    BY <1>1, <1>2, <1>7 DEF Digit
<1>9. f = F * S + o
  BY <1>1, <1>3
<1>10. PICK a \in Nat : a = F * S
  BY <1>1, <1>3, ProductGrows
<1>11. F \in Nat /\ o \in Nat /\ o < S /\ f = a + o
  BY <1>1, <1>3, <1>9, <1>10
<1>12. \E F1, o1, a1 \in Nat :
        /\ F1 = F /\ o1 = o /\ o1 < S /\ a1 = F1 * S /\ f = a1 + o1
        /\ F1 + 1 \in 1..n /\ \A k1 \in 1..n : k1 = F1 + 1 => f <= UpTo(size, k1)
  BY <1>5, <1>6, <1>10, <1>11
<1>13. /\ size \in Nat \ {0} /\ f \in Nat /\ f <= end /\ end \in Nat /\ n \in Nat \ {0}
       /\ n <= BadCluster
  BY <1>1, <1>2, <1>15
<1> QED
  BY <1>8, <1>12, <1>13 DEF n, F, o, end

(* The cluster with the position.                                           *)
LEMMA Arrives ==
    ASSUME NEW size, NEW ch, NEW f, Regular(size, ch, f), NEW r,
           NEW k, k = f \div SectorSize + 1, r.cluster = ch[k],
           r.end_offset = size % SectorSize, r.left = Word(0), r.offset = f % SectorSize,
           r.bytes = <<>>
    PROVE  Reached(r, size, ch, f, k)
<1>1. PICK F, o, a \in Nat :
        /\ F = f \div SectorSize /\ o = f % SectorSize /\ o < SectorSize
        /\ a = F * SectorSize /\ f = a + o
        /\ F + 1 \in 1..ClusterCount(size)
        /\ \A k1 \in 1..ClusterCount(size) : k1 = F + 1 => f <= UpTo(size, k1)
  BY RegularIs
<1>2. k = F + 1 /\ k - 1 = F /\ f \in Nat
  BY <1>1
<1>3. (k - 1) * SectorSize = a
  BY <1>1, <1>2
<1>4. r.bytes = BytesTo(ch, f, f)
  <2>1. f <= f
    BY <1>2
  <2>2. IsBytes(BytesTo(ch, f, f), ch, f, f)
    BY <1>2, <2>1, BytesToIs
  <2> QED
    BY <2>2 DEF IsBytes
<1>5. (k - 1) * SectorSize + r.offset = f
  BY <1>1, <1>3
<1>6. k \in 1..ClusterCount(size) /\ ~(k <= f \div SectorSize) /\ f <= UpTo(size, k) /\ f <= f
      /\ r.offset < SectorSize
  BY <1>1, <1>2
<1> QED
  BY <1>4, <1>5, <1>6 DEF Reached

LEMMA SmallCompare ==
    ASSUME NEW n \in Digit
    PROVE  Cmp64_16(Word(n), 0) = 0 <=> n = 0
<1>1. /\ Word(n)[0] = n /\ Word(n)[1] = 0 /\ Word(n)[2] = 0 /\ Word(n)[3] = 0
  BY DEF Word, Init64, Quad
<1>2. n \in Nat
  BY LimbIs DEF Digit
<1>3. ~ \E i \in 1..3 : Word(n)[i] > 0
  <2>1. \A i \in 1..3 : i = 1 \/ i = 2 \/ i = 3
    OBVIOUS
  <2> QED
    BY <1>1, <2>1
<1> QED
  BY <1>1, <1>2, <1>3 DEF Cmp64_16

(* A cluster before the position is skipped.                                *)
LEMMA Skips ==
    ASSUME NEW size, NEW ch, NEW f, Regular(size, ch, f), NEW r, NEW k,
           Reached(r, size, ch, f, k), Cmp64_16(r.left, 0) # 0,
           NEW next, Follows(size, ch, k, next), NEW m, m.left = Dec64(r.left),
           m.cluster = next, m.end_offset = r.end_offset, m.offset = r.offset,
           m.bytes = r.bytes
    PROVE  \E j \in Nat : Reached(m, size, ch, f, j) /\ m.cluster = ch[j] /\ m.bytes = <<>>
<1> DEFINE n == ClusterCount(size)
<1>0. PICK F, o, a \in Nat :
        /\ F = f \div SectorSize /\ o = f % SectorSize /\ o < SectorSize
        /\ a = F * SectorSize /\ f = a + o
        /\ F + 1 \in 1..n
        /\ \A k1 \in 1..ClusterCount(size) : k1 = F + 1 => f <= UpTo(size, k1)
  BY RegularIs
<1>1. F \in Nat /\ F + 1 \in 1..n /\ n \in Nat /\ k \in 1..n
  BY <1>0, RegularIs DEF Reached
<1>2. 0 \in Digit
  BY LimbIs DEF Digit
<1>3. k <= F
  <2> SUFFICES ASSUME ~(k <= F) PROVE FALSE
    OBVIOUS
  <2>1. k > F
    BY <1>1
  <2>2. r.left = Word(0)
    BY <1>0, <2>1 DEF Reached
  <2> QED
    BY <1>2, <2>2, SmallCompare
<1>4. r.left = Word(F + 1 - k) /\ r.offset = f % SectorSize /\ r.bytes = <<>>
      /\ r.end_offset = size % SectorSize
  BY <1>0, <1>3 DEF Reached
<1>5. PICK d \in Nat : d = F + 1 - k /\ d > 0 /\ d \in Digit
  <2>1. F + 1 \in Digit
    BY <1>1, RegularIs
  <2>2. F + 1 - k \in Nat /\ F + 1 - k > 0 /\ F + 1 - k <= F + 1
    BY <1>1, <1>3
  <2>3. F + 1 - k \in Digit
    BY <2>1, <2>2, LimbIs DEF Digit
  <2> QED
    BY <2>2, <2>3
<1>6. m.left = Word(d - 1)
  BY <1>4, <1>5, DecWord
<1>7. PICK j \in 1..n : j = k + 1
  BY <1>1, <1>3
<1>8. next = ch[j]
  <2>1. k # n
    BY <1>1, <1>3
  <2> QED
    BY <1>7, <2>1 DEF Follows
<1>9. CASE j <= F
  <2>1. d - 1 = F + 1 - j /\ j \in Nat /\ ~(j > F)
    BY <1>1, <1>5, <1>7, <1>9
  <2>2. m.left = Word(f \div SectorSize + 1 - j) /\ ~(j > f \div SectorSize)
    BY <1>0, <1>6, <2>1
  <2>3. /\ j \in 1..ClusterCount(size) /\ m.cluster = ch[j]
        /\ m.end_offset = size % SectorSize /\ m.offset = f % SectorSize /\ m.bytes = <<>>
    BY <1>4, <1>8
  <2>4. Reached(m, size, ch, f, j)
    BY <2>2, <2>3 DEF Reached
  <2> QED
    BY <1>8, <2>1, <2>3, <2>4
<1>10. CASE j > F
  <2>1. j = F + 1 /\ d - 1 = 0
    BY <1>1, <1>3, <1>5, <1>7, <1>10
  <2>2. Reached(m, size, ch, f, j)
    BY <1>0, <1>4, <1>6, <1>8, <2>1, Arrives
  <2> QED
    BY <1>1, <1>4, <1>8, <2>2
<1> QED
  BY <1>1, <1>9, <1>10

(* A read that has skipped what lies before the position.                   *)
Inside(r, size, ch, f, k, a, q, e) ==
    /\ k \in 1..ClusterCount(size) /\ k > f \div SectorSize
    /\ a = (k - 1) * SectorSize /\ q = a + r.offset /\ e = UpTo(size, k)
    /\ e = a + (IF k = ClusterCount(size) THEN size % SectorSize ELSE SectorSize)
    /\ f <= q /\ q <= e /\ e <= FileEnd(size)
    /\ k = ClusterCount(size) => e = FileEnd(size)
    /\ k # ClusterCount(size) => e = k * SectorSize
    /\ r.bytes = BytesTo(ch, f, q) /\ Len(r.bytes) = q - f /\ r.left = Word(0)
    /\ r.offset \in Nat /\ r.offset < SectorSize /\ r.cluster = ch[k]
    /\ size % SectorSize \in 0..(SectorSize - 1)

LEMMA IsInside ==
    ASSUME NEW size, NEW ch, NEW f, Regular(size, ch, f), NEW r \in Reading, NEW k,
           Reached(r, size, ch, f, k), k > f \div SectorSize
    PROVE  \E a, q, e \in Nat : Inside(r, size, ch, f, k, a, q, e)
<1>1. size \in Nat \ {0} /\ f \in Nat /\ SectorSize \in Nat \ {0}
      /\ k \in 1..ClusterCount(size) /\ ClusterCount(size) \in Nat
  BY RegularIs, SizesAre DEF Regular, Reached
<1>2. /\ (k - 1) * SectorSize \in Nat
      /\ k * SectorSize = (k - 1) * SectorSize + SectorSize
      /\ UpTo(size, k) <= FileEnd(size)
      /\ UpTo(size, k) = (k - 1) * SectorSize
                        + (IF k = ClusterCount(size) THEN size % SectorSize ELSE SectorSize)
      /\ size % SectorSize \in 0..(SectorSize - 1)
  BY <1>1, ClustersAre
<1>3. PICK a \in Nat : a = (k - 1) * SectorSize
  BY <1>2
<1>4. r.offset \in Nat
  BY LimbIs DEF Reading
<1>5. PICK q \in Nat : q = a + r.offset
  BY <1>4
<1>6. PICK z \in Nat : z = size % SectorSize /\ z \in 0..(SectorSize - 1)
  <2> DEFINE x == size % SectorSize
  <2>1. x \in 0..(SectorSize - 1)
    BY <1>2
  <2> HIDE DEF x
  <2> QED
    BY <1>1, <2>1 DEF x
<1>7. PICK e \in Nat : e = UpTo(size, k) /\ e = a + (IF k = ClusterCount(size) THEN z ELSE SectorSize)
  BY <1>1, <1>2, <1>3, <1>6
<1>8. /\ r.left = Word(0) /\ r.offset < SectorSize /\ f <= q /\ q <= e
      /\ r.bytes = BytesTo(ch, f, q) /\ r.cluster = ch[k]
  <2>1. q = (k - 1) * SectorSize + r.offset
    BY <1>3, <1>5
  <2> QED
    BY <1>7, <2>1 DEF Reached
<1>9. Len(r.bytes) = q - f
  <2>1. IsBytes(BytesTo(ch, f, q), ch, f, q)
    BY <1>1, <1>8, BytesToIs
  <2> QED
    BY <1>8, <2>1 DEF IsBytes
<1>10. /\ k = ClusterCount(size) => e = FileEnd(size)
       /\ k # ClusterCount(size) => e = k * SectorSize
  BY <1>7 DEF UpTo
<1>11. e <= FileEnd(size)
  BY <1>2, <1>7
<1>12. Inside(r, size, ch, f, k, a, q, e)
  BY <1>1, <1>3, <1>4, <1>5, <1>6, <1>7, <1>8, <1>9, <1>10, <1>11 DEF Inside
<1> QED
  BY <1>12

LEMMA LeftSkips ==
    ASSUME NEW size, NEW ch, NEW f, Regular(size, ch, f), NEW r, NEW k,
           Reached(r, size, ch, f, k), Cmp64_16(r.left, 0) = 0
    PROVE  k > f \div SectorSize
<1>0. PICK F, o, a \in Nat :
        /\ F = f \div SectorSize /\ o = f % SectorSize /\ o < SectorSize
        /\ a = F * SectorSize /\ f = a + o
        /\ F + 1 \in 1..ClusterCount(size)
        /\ \A k1 \in 1..ClusterCount(size) : k1 = F + 1 => f <= UpTo(size, k1)
  BY RegularIs
<1>1. k \in Nat /\ k >= 1 /\ ClusterCount(size) \in Nat
  BY RegularIs DEF Reached
<1> SUFFICES ASSUME k <= F PROVE FALSE
  BY <1>0, <1>1
<1>2. r.left = Word(F + 1 - k)
  BY <1>0 DEF Reached
<1>3. F + 1 \in Digit
  BY <1>0, RegularIs
<1>4. F + 1 - k \in Digit /\ F + 1 - k # 0
  BY <1>0, <1>1, <1>3, LimbIs DEF Digit
<1> QED
  BY <1>2, <1>4, SmallCompare

LEMMA MinusIs ==
    ASSUME NEW x \in Digit, NEW y \in Digit, y <= x
    PROVE  Minus(x, y) = x - y
<1>1. Limb \in Nat \ {0} /\ x \in Nat /\ y \in Nat /\ x < Limb
  BY LimbIs DEF Digit
<1> HIDE DEF Limb
<1> QED
  BY <1>1 DEF Minus

(* How much is read of a cluster: up to where the file's part of it ends.   *)
LEMMA PartIs ==
    ASSUME FatInv, root # Unmounted, NEW size, NEW ch, NEW f, Regular(size, ch, f),
           NEW r \in Reading, NEW k, NEW a \in Nat, NEW q \in Nat, NEW e \in Nat,
           Inside(r, size, ch, f, k, a, q, e), r.end_offset = size % SectorSize,
           Len(r.bytes) < r.count, NEW next, Follows(size, ch, k, next)
    PROVE  PartSize(r, next) = Lesser(e - q, r.count - (q - f))
<1> DEFINE S == SectorSize
           n == ClusterCount(size)
           o == r.offset
<1>1. PICK z : z = size % S
  OBVIOUS
<1>2. /\ S \in Nat /\ S \in Digit /\ o \in Nat /\ o < S /\ z \in 0..(S - 1) /\ q = a + o
      /\ e = a + (IF k = n THEN z ELSE S) /\ q <= e /\ Len(r.bytes) = q - f
      /\ r.end_offset = z
  BY <1>1, GeometryIs, SizesAre DEF Inside
<1>3. root.cluster_pot = SectorShift /\ 2 ^ SectorShift = S
  BY FatFields
<1>4. next > BadCluster <=> k = n
  <2>1. CASE k = n
    BY <2>1 DEF Follows
  <2>2. CASE k # n
    <3>1. k \in 1..n /\ k # n /\ n \in Nat
      BY <2>2, RegularIs DEF Inside
    <3>2. PICK j \in 1..n : j = k + 1
      BY <3>1
    <3>3. next = ch[j]
      BY <2>2, <3>2 DEF Follows
    <3>4. ch[j] \in Nat /\ ch[j] < BadCluster /\ BadCluster \in Nat
      <4>1. BadCluster \in 1..(EntryValues - 2) /\ EntryValues \in Nat
        BY SizesAre
      <4> HIDE DEF BadCluster, EntryValues
      <4> QED
        BY <4>1, RegularIs
    <3> HIDE DEF BadCluster
    <3> QED
      BY <2>2, <3>3, <3>4
  <2> QED
    BY <2>1, <2>2
<1> HIDE DEF S, n, o
<1>5. Limb \in Nat /\ S < Limb
  BY <1>2, LimbIs DEF Digit
<1>6. o \in Digit /\ z \in Digit
  <2> HIDE DEF Limb
  <2> QED
    BY <1>2, <1>5 DEF Digit
<1>7. Minus(S, o) = S - o
  BY <1>2, <1>6, MinusIs
<1>8. (o + (S - o)) % Limb = S
  <2> HIDE DEF Limb
  <2> QED
    BY <1>2, <1>5
<1>9. S > z
  BY <1>2
<1> DEFINE inner == IF k = n THEN z - o ELSE S - o
<1>10. k = n => Minus(z, o) = z - o
  <2> SUFFICES ASSUME k = n PROVE Minus(z, o) = z - o
    OBVIOUS
  <2>1. o <= z
    BY <1>2
  <2> QED
    BY <1>6, <2>1, MinusIs
<1>11. inner = e - q
  BY <1>2
<1>12. PartSize(r, next) = IF inner > r.count - Len(r.bytes) THEN r.count - Len(r.bytes) ELSE inner
  <2>1. Minus(2 ^ root.cluster_pot, r.offset) = S - o
    BY <1>3, <1>7 DEF o
  <2>2. (IF next > BadCluster /\ (r.offset + (S - o)) % Limb > r.end_offset
         THEN Minus(r.end_offset, r.offset) ELSE S - o) = inner
    <3>1. (r.offset + (S - o)) % Limb > r.end_offset
      BY <1>2, <1>8, <1>9 DEF o
    <3>2. CASE k = n
      BY <1>2, <1>4, <1>10, <3>1, <3>2 DEF o
    <3>3. CASE k # n
      BY <1>4, <3>3
    <3> QED
      BY <3>2, <3>3
  <2> QED
    BY <2>1, <2>2 DEF PartSize
<1> HIDE DEF inner
<1>13. r.count \in Nat /\ f \in Nat
  <2>1. r.count \in Counts
    BY DEF Reading
  <2>2. f \in Nat
    BY RegularIs
  <2>3. Counts \subseteq 1..(Limb - 1) /\ Limb \in Nat
    BY FatAssumption, LimbIs
  <2> HIDE DEF Limb
  <2>4. r.count \in 1..(Limb - 1)
    BY <2>1, <2>3
  <2> QED
    BY <2>2, <2>3, <2>4
<1>14. r.count - Len(r.bytes) = r.count - (q - f)
  BY <1>2
<1>15. e - q \in Int /\ r.count - (q - f) \in Int
  BY <1>13
<1> DEFINE x == e - q
           y == r.count - (q - f)
<1>16. PartSize(r, next) = IF x > y THEN y ELSE x
  BY <1>11, <1>12, <1>14
<1>17. x \in Int /\ y \in Int
  BY <1>15
<1> HIDE DEF x, y
<1>18. PartSize(r, next) = Lesser(x, y)
  BY <1>16, <1>17 DEF Lesser
<1> QED
  BY <1>18 DEF x, y

(* Where the data is. *)
LEMMA DataIs ==
    ASSUME FatInv, root # Unmounted, NEW size, NEW ch, NEW f, Regular(size, ch, f),
           NEW r \in Reading, NEW k, NEW a \in Nat, NEW q \in Nat, NEW e \in Nat,
           Inside(r, size, ch, f, k, a, q, e)
    PROVE  /\ Small(DataPosition(r), ClusterAddress(ch[k]) + r.offset)
           /\ ClusterAddress(ch[k]) \in Nat
<1> DEFINE S == SectorSize
<1>1. PICK c \in Nat : c = r.cluster /\ c = ch[k] /\ c >= 2 /\ c < BadCluster
  BY RegularIs DEF Inside
<1>2. PICK b \in Nat : b = c - 2
  BY <1>1
<1>3. PICK o \in Nat : o = r.offset /\ o < S
  BY DEF Inside
<1>4. BadCluster \in Nat /\ BadCluster <= EntryValues - 2 /\ EntryValues \in Nat
      /\ S \in Nat /\ S \in Digit /\ S > 0 /\ DataSector \in Nat /\ 2 * EntryValues <= Limb /\ Limb \in Nat
  <2>1. BadCluster \in 1..(EntryValues - 2) /\ EntryValues \in Nat /\ S \in Nat /\ DataSector \in Nat
    BY SizesAre
  <2> HIDE DEF BadCluster, EntryValues, S, DataSector, Limb
  <2>2. BadCluster \in Nat /\ BadCluster <= EntryValues - 2
    BY <2>1
  <2> QED
    BY <2>1, <2>2, GeometryIs DEF S
<1> HIDE DEF S, BadCluster, EntryValues, DataSector, Limb
<1>5. b \in Digit /\ o \in Digit /\ b + 1 <= EntryValues /\ c \in Digit
  <2>1. b < Limb /\ b + 1 <= EntryValues /\ c < Limb
    BY <1>1, <1>2, <1>4
  <2>2. S < Limb
    BY <1>4 DEF Digit
  <2>3. o < Limb
    BY <1>3, <1>4, <2>2
  <2> QED
    BY <1>1, <1>3, <1>4, <2>1, <2>3 DEF Digit
<1>6. Minus(r.cluster, 2) = b
  <2>1. 2 \in Digit /\ 2 <= c
    BY <1>1, GeometryIs DEF Digit
  <2>2. Minus(c, 2) = c - 2
    BY <1>5, <2>1, MinusIs
  <2> QED
    BY <1>1, <1>2, <2>2
<1> DEFINE p == b * S
           d == DataSector * S
           v == EntryValues * S
           l == Limb * Limb
<1>7. p \in Nat /\ d \in Nat /\ v \in Nat /\ p + S <= v /\ v + d < l /\ l \in Nat
  <2>1. (b + 1) * S <= EntryValues * S /\ p \in Nat /\ v \in Nat /\ (b + 1) * S = b * S + S
    BY <1>4, <1>5, ProductGrows
  <2>2. d \in Nat /\ v + d < l /\ l \in Nat
    BY GeometryIs DEF S
  <2> HIDE DEF p, d, v, l
  <2>3. p + S <= v
    BY <2>1 DEF p, v
  <2> QED
    BY <2>1, <2>2, <2>3
<1>8. (DataSector + c - 2) * S = d + p
  <2>1. DataSector + c - 2 = DataSector + b
    BY <1>1, <1>2, <1>4
  <2>2. (DataSector + b) * S = DataSector * S + b * S
    BY <1>4
  <2> QED
    BY <2>1, <2>2
<1>9. ClusterAddress(ch[k]) = d + p
  BY <1>1, <1>8 DEF ClusterAddress, S
<1>10. root.cluster_pot = SectorShift /\ SectorShift \in 0..LimbBits /\ S = 2 ^ SectorShift
       /\ Small(root.root_end, d)
  BY FatFields, GeometryIs DEF S
<1>11. Small(Shl64(Word(b), root.cluster_pot), p)
  <2>1. Small(Shl64(Word(b), SectorShift), b * 2 ^ SectorShift)
    BY <1>5, <1>10, ShlSmall
  <2> QED
    BY <1>10, <2>1
<1> HIDE DEF p, d, v, l
<1>12. p + d < l /\ p + d + o < l /\ p + d \in Nat
  BY <1>3, <1>4, <1>7
<1> DEFINE one == Add64(Shl64(Word(b), root.cluster_pot), root.root_end)
<1>13. Small(one, p + d)
  <2>1. p + d < Limb * Limb
    BY <1>12 DEF l
  <2> QED
    BY <1>10, <1>11, <2>1, AddSmall
<1> HIDE DEF one
<1>14. Small(Add64_16(one, o), p + d + o)
  <2>1. PICK w \in Nat : w = p + d
    BY <1>12
  <2>2. w + o < l /\ Small(one, w)
    BY <1>12, <1>13, <2>1
  <2>3. w + o < Limb * Limb
    BY <2>2 DEF l
  <2>4. Small(Add64_16(one, o), w + o)
    BY <1>5, <2>2, <2>3, AddWordSmall
  <2> QED
    BY <2>1, <2>4
<1>15. DataPosition(r) = Add64_16(one, o)
  BY <1>3, <1>6 DEF DataPosition, one
<1>16. ClusterAddress(ch[k]) + r.offset = p + d + o /\ ClusterAddress(ch[k]) \in Nat
  BY <1>3, <1>7, <1>9
<1> QED
  BY <1>14, <1>15, <1>16

(* A read at the end of the file: there is nothing left to read.            *)
LEMMA NothingLeft ==
    ASSUME NEW size, NEW ch, NEW f, Regular(size, ch, f), NEW r \in Reading, NEW k,
           NEW a \in Nat, NEW q \in Nat, NEW e \in Nat, Inside(r, size, ch, f, k, a, q, e),
           Len(r.bytes) < r.count, Lesser(e - q, r.count - (q - f)) = 0
    PROVE  /\ k = ClusterCount(size) /\ q = FileEnd(size)
           /\ r.bytes = BytesTo(ch, f, f + Lesser(r.count, FileEnd(size) - f))
<1> DEFINE n == ClusterCount(size)
           S == SectorSize
           end == FileEnd(size)
<1>0. PICK z : z = size % S
  OBVIOUS
<1>1. /\ S \in Nat /\ r.offset \in Nat /\ r.offset < S /\ q = a + r.offset
      /\ e = a + (IF k = n THEN z ELSE S) /\ f <= q /\ q <= e /\ (k = n => e = end)
      /\ Len(r.bytes) = q - f /\ r.bytes = BytesTo(ch, f, q)
  BY <1>0, SizesAre DEF Inside
<1>2. end \in Nat /\ f \in Nat /\ f <= end
  BY RegularIs
<1>3. r.count \in Nat
  <2>1. r.count \in Counts
    BY DEF Reading
  <2>3. Counts \subseteq 1..(Limb - 1) /\ Limb \in Nat
    BY FatAssumption, LimbIs
  <2> HIDE DEF Limb
  <2>4. r.count \in 1..(Limb - 1)
    BY <2>1, <2>3
  <2> QED
    BY <2>3, <2>4
<1> HIDE DEF n, S, end
<1>4. e - q = 0
  <2> DEFINE x == e - q
             y == r.count - (q - f)
  <2>1. y > 0 /\ x \in Int /\ y \in Int
    <3>1. PICK d \in Nat : d = q - f
      BY <1>1, <1>2
    <3>2. d < r.count
      BY <1>1, <3>1
    <3> QED
      BY <1>3, <3>1, <3>2
  <2> HIDE DEF x, y
  <2>2. Lesser(x, y) = 0
    BY DEF x, y
  <2>3. x = 0
    BY <2>1, <2>2 DEF Lesser
  <2> QED
    BY <2>3 DEF x
<1>5. k = n
  BY <1>1, <1>4
<1>6. q = end
  BY <1>1, <1>4, <1>5
<1>7. Lesser(r.count, end - f) = end - f
  BY <1>1, <1>2, <1>3, <1>6 DEF Lesser
<1>8. f + Lesser(r.count, end - f) = q
  BY <1>2, <1>6, <1>7
<1> QED
  BY <1>1, <1>5, <1>6, <1>8 DEF n, end

LEMMA CountIs ==
    ASSUME NEW r \in Reading
    PROVE  r.count \in Nat \ {0} /\ r.count \in Digit
<1>1. r.count \in Counts
  BY DEF Reading
<1>2. Counts \subseteq 1..(Limb - 1) /\ Limb \in Nat
  BY FatAssumption, LimbIs
<1> HIDE DEF Limb
<1>3. r.count \in 1..(Limb - 1)
  BY <1>1, <1>2
<1> QED
  BY <1>2, <1>3 DEF Digit

(* A part of a cluster has been read: there is more to read in the next     *)
(* one, or the read is complete.                                            *)
LEMMA Appends ==
    ASSUME NEW size, NEW ch, NEW f, Regular(size, ch, f), NEW r \in Reading, NEW k,
           Reached(r, size, ch, f, k), Delivers(r, size, ch, f, k), NEW m,
           ClusterAddress(ch[k]) \in Nat,
           m.bytes = r.bytes \o [i \in 1..r.size |-> Value(r.disk) + i - 1],
           m.offset = 0, m.cluster = r.next, m.left = r.left, m.end_offset = r.end_offset,
           m.count = r.count
    PROVE  IF Len(m.bytes) < m.count /\ m.cluster < BadCluster
           THEN \E j \in Nat : Reached(m, size, ch, f, j)
           ELSE Complete(m, size, ch, f)
<1> DEFINE n == ClusterCount(size)
           S == SectorSize
           end == FileEnd(size)
<1>1. k > f \div S
  BY DEF Delivers
<1>2. PICK a, q, e \in Nat : Inside(r, size, ch, f, k, a, q, e)
  BY <1>1, IsInside
<1>3. PICK z : z = size % S
  OBVIOUS
<1>4. PICK o \in Nat : o = r.offset
  BY <1>2 DEF Inside
<1>0. /\ a = (k - 1) * S /\ k \in 1..n /\ n \in Nat /\ (k # n => e = k * S)
      /\ z \in 0..(S - 1) /\ S \in Nat \ {0}
  BY <1>2, <1>3, SizesAre, RegularIs DEF Inside
<1>5. /\ o < S /\ q = a + o /\ f <= q /\ q <= e /\ e <= end /\ (k = n => e = end)
      /\ e = a + (IF k = n THEN z ELSE S)
      /\ Len(r.bytes) = q - f /\ r.bytes = BytesTo(ch, f, q) /\ r.left = Word(0) /\ r.end_offset = z
  BY <1>2, <1>3, <1>4 DEF Inside, Reached
<1>18. k \in Nat \ {0} /\ k <= n /\ n \in Nat /\ S \in Nat /\ z \in Nat /\ z < S
  BY <1>0
<1>6. size \in Nat \ {0} /\ end \in Nat /\ f \in Nat /\ f <= end /\ r.count \in Nat
  BY RegularIs, CountIs
<1>7. PICK d \in Nat : d = r.size /\ d > 0
  BY LimbIs DEF Reading, Delivers
<1>8. d = Lesser(e - q, r.count - (q - f)) /\ Value(r.disk) = ClusterAddress(ch[k]) + o
      /\ Follows(size, ch, k, r.next)
  <2>1. (k - 1) * S + r.offset = q /\ UpTo(size, k) = e
    BY <1>2 DEF Inside
  <2> QED
    BY <1>4, <1>7, <2>1 DEF Delivers
<1> HIDE DEF n, S, end
<1>9. /\ d <= e - q /\ d <= r.count - (q - f)
      /\ d = e - q \/ d = r.count - (q - f)
  <2>1. e - q \in Int /\ r.count - (q - f) \in Int
    BY <1>6
  <2> DEFINE x == e - q
             y == r.count - (q - f)
  <2>2. x \in Int /\ y \in Int /\ d = Lesser(x, y)
    BY <1>8, <2>1
  <2> HIDE DEF x, y
  <2>3. d <= x /\ d <= y /\ (d = x \/ d = y)
    BY <2>2 DEF Lesser
  <2> QED
    BY <2>3 DEF x, y
<1>10. PICK g \in Nat : g = q + d
  OBVIOUS
<1>19. PICK cnt \in Nat : cnt = r.count
  BY <1>6
<1>11. g <= e /\ g <= f + cnt /\ (g = e \/ g = f + cnt) /\ f <= g
  <2>1. d <= e - q /\ d <= cnt - (q - f) /\ (d = e - q \/ d = cnt - (q - f)) /\ f <= q
    BY <1>5, <1>9, <1>19
  <2> QED
    BY <1>6, <1>10, <2>1
<1>12. o + d <= S
  <2>1. e <= a + S
    BY <1>5, <1>18
  <2> QED
    BY <1>5, <1>9, <1>18, <2>1
<1>13. m.bytes = BytesTo(ch, f, g)
  <2>1. m.bytes = BytesTo(ch, f, q) \o [i \in 1..d |-> ClusterAddress(ch[k]) + o + i - 1]
    BY <1>5, <1>7, <1>8
  <2>2. k \in Nat \ {0} /\ ClusterAddress(ch[k]) \in Int
    BY <1>18
  <2>3. a = (k - 1) * SectorSize /\ o + d <= SectorSize /\ q = a + o /\ f <= q /\ g = q + d /\ f \in Nat
    BY <1>0, <1>5, <1>6, <1>10, <1>12 DEF S
  <2>4. Adds(ch, f, k, o, d, q, g)
    BY <2>2, <2>3, PartAdds
  <2> QED
    BY <2>1, <2>4 DEF Adds
<1>14. Len(m.bytes) = g - f
  <2>1. IsBytes(BytesTo(ch, f, g), ch, f, g)
    BY <1>6, <1>11, BytesToIs
  <2> QED
    BY <1>13, <2>1 DEF IsBytes
<1>15. ASSUME g = end \/ g = f + r.count PROVE Complete(m, size, ch, f)
  <2>1. f + Lesser(m.count, end - f) = g
    BY <1>5, <1>6, <1>11, <1>15, <1>19 DEF Lesser
  <2> QED
    BY <1>13, <2>1 DEF Complete, end
<1>16. CASE k = n
  <2>1. r.next > BadCluster
    BY <1>8, <1>16 DEF Follows, n
  <2>2. ~(m.cluster < BadCluster)
    <3>1. BadCluster \in Int
      <4>1. BadCluster \in 1..(EntryValues - 2)
        BY SizesAre
      <4> QED
        BY <4>1
    <3>2. r.next \in Int
      BY LimbIs DEF Reading
    <3> HIDE DEF BadCluster
    <3> QED
      BY <2>1, <3>1, <3>2
  <2>3. g = end \/ g = f + r.count
    BY <1>5, <1>11, <1>16, <1>19
  <2> QED
    BY <1>15, <2>2, <2>3
<1>17. CASE k # n
  <2>1. PICK j \in 1..n : j = k + 1
    BY <1>17, <1>18
  <2>2. r.next = ch[j] /\ ch[j] < BadCluster
    BY <1>8, <1>17, <2>1, RegularIs DEF Follows, n
  <2>3. CASE Len(m.bytes) < m.count
    <3>1. g = e
      <4>1. g - f < r.count
        BY <1>14, <2>3
      <4> QED
        BY <1>6, <1>11, <1>19, <4>1
    <3>2. j - 1 = k /\ (j - 1) * S = e
      <4>1. j - 1 = k
        BY <1>18, <2>1
      <4> QED
        BY <1>0, <1>17, <4>1
    <3>3. (j - 1) * S + m.offset = g
      BY <3>1, <3>2
    <3>4. e <= UpTo(size, j)
      <4>1. UpTo(size, j) = (j - 1) * S + (IF j = n THEN size % S ELSE S)
        BY <1>6, <2>1, ClustersAre DEF Regular, n, S
      <4>2. UpTo(size, j) = e + (IF j = n THEN z ELSE S)
        BY <1>3, <3>2, <4>1
      <4> QED
        BY <1>18, <4>2
    <3>5. j > f \div S /\ f \div S \in Nat
      <4>1. PICK F \in Nat : F = f \div S
        BY RegularIs DEF S
      <4>2. k > F
        BY <1>1, <4>1 DEF S
      <4> QED
        BY <1>18, <2>1, <4>1, <4>2
    <3>6. ~(j <= f \div S)
      <4>1. PICK F \in Nat : F = f \div S
        BY <3>5
      <4> QED
        BY <2>1, <3>5, <4>1
    <3>7. /\ j \in 1..n /\ m.cluster = ch[j] /\ m.end_offset = size % S
          /\ m.left = Word(0) /\ m.offset < S /\ f <= g /\ g <= UpTo(size, j)
      BY <1>3, <1>5, <1>11, <1>18, <2>1, <2>2, <3>1, <3>4
    <3>8. Reached(m, size, ch, f, j)
      BY <1>13, <3>3, <3>6, <3>7 DEF Reached, n, S
    <3> QED
      BY <1>18, <2>1, <2>2, <2>3, <3>8
  <2>4. CASE ~(Len(m.bytes) < m.count)
    <3>1. g = f + r.count
      <4>1. g - f >= cnt
        <5>1. PICK h \in Int : h = g - f
          BY <1>6
        <5>2. ~(h < cnt)
          BY <1>14, <1>19, <2>4, <5>1
        <5> QED
          BY <5>1, <5>2
      <4> QED
        BY <1>6, <1>11, <1>19, <4>1
    <3> QED
      BY <1>15, <2>4, <3>1
  <2> QED
    BY <2>3, <2>4
<1> QED
  BY <1>16, <1>17

(* The files of the volume.                                                 *)
LEMMA IsRegular ==
    ASSUME VolumeInit, NEW slot \in Visible, NEW f \in Nat,
           f <= FileEnd(directory[slot].size)
    PROVE  LET size == directory[slot].size
               ch == Chain(directory[slot].cluster)
           IN  /\ Regular(size, ch, f) /\ ch[1] = directory[slot].cluster
               /\ \A k \in 1..ClusterCount(size) :
                    ch[k] \in DOMAIN table /\ Follows(size, ch, k, table[ch[k]])
<1> DEFINE size == directory[slot].size
           ch == Chain(directory[slot].cluster)
           n == ClusterCount(size)
<1>1. size \in Nat
  <2>1. PICK w \in Volumes : directory = w.directory
    BY DEF VolumeInit
  <2>2. IsVolume(w)
    BY VolumeAssumption
  <2> QED
    BY <2>1, <2>2 DEF IsVolume, Visible, FilesOf, UpToEnd
<1>2. SectorSize \in Nat \ {0} /\ BadCluster \in Nat
  <2>1. BadCluster \in 1..(EntryValues - 2) /\ SectorSize \in Nat \ {0}
    BY SizesAre
  <2> HIDE DEF BadCluster
  <2> QED
    BY <2>1
<1>3. size > 0
  <2> SUFFICES ASSUME size = 0 PROVE FALSE
    BY <1>1
  <2>1. 0 % SectorSize = 0
    BY <1>2
  <2>2. FileEnd(size) = 0 - SectorSize
    BY <2>1 DEF FileEnd
  <2> QED
    BY <1>2, <2>2
<1>4. /\ n \in Nat \ {0} /\ ch \in [1..n -> DOMAIN table] /\ DOMAIN ch = 1..n
      /\ \A k \in 1..n : ch[k] >= 2 /\ ch[k] \in Nat /\ ch[k] < BadCluster
      /\ Linked(table, directory[slot].cluster, ch, n)
  BY <1>3, FileLinked
<1>5. n <= BadCluster
  <2>1. PICK w \in Volumes : directory = w.directory /\ table = w.table
    BY DEF VolumeInit
  <2>2. IsVolume(w)
    BY VolumeAssumption
  <2>3. n <= Cardinality(DOMAIN table) /\ Cardinality(DOMAIN table) \in 1..BadCluster
    <3>1. slot \in FilesOf(w.directory) /\ w.directory[slot].size > 0
      BY <1>3, <2>1 DEF Visible
    <3> QED
      BY <2>1, <2>2, <3>1 DEF IsVolume
  <2> HIDE DEF n, BadCluster
  <2> QED
    BY <1>2, <1>4, <2>3
<1> HIDE DEF n, ch
<1>6. ch \in [1..n -> 2..(BadCluster - 1)]
  <2>1. \A k \in 1..n : ch[k] \in 2..(BadCluster - 1)
    <3> HIDE DEF BadCluster
    <3> QED
      BY <1>2, <1>4
  <2> QED
    BY <1>4, <2>1
<1>7. f \in 0..FileEnd(size)
  <2>1. FileEnd(size) \in Nat
    BY <1>1, <1>3, ClustersAre
  <2> HIDE DEF size
  <2> QED
    BY <2>1 DEF size
<1>8. Regular(size, ch, f)
  BY <1>1, <1>3, <1>5, <1>6, <1>7 DEF Regular, n
<1>9. ASSUME NEW k \in 1..n PROVE ch[k] \in DOMAIN table /\ Follows(size, ch, k, table[ch[k]])
  <2>1. ch[k] \in DOMAIN table
    BY <1>4
  <2>2. IF k = n THEN table[ch[k]] > BadCluster ELSE table[ch[k]] = ch[k + 1]
    BY <1>4 DEF Linked
  <2> QED
    BY <2>1, <2>2 DEF Follows, n
<1>10. ch[1] = directory[slot].cluster
  BY <1>4 DEF Linked
<1> QED
  BY <1>8, <1>9, <1>10 DEF n, ch

(* The locals of a sleeping read, and where it stands in its file.          *)
OfFile(r, slot, f) ==
    LET size == directory[slot].size
        ch   == Chain(directory[slot].cluster)
    IN  /\ Small(r.file, EntryAddress(slot)) /\ Small(r.from, f)
        /\ r.at = "entry" =>
                /\ r.disk = r.file /\ r.bytes = <<>>
                /\ Small(r.left, f \div SectorSize) /\ r.offset = f % SectorSize
        /\ r.at # "entry" /\ Regular(size, ch, f) =>
                \E k \in Nat : /\ Reached(r, size, ch, f, k)
                               /\ r.at = "data" => Delivers(r, size, ch, f, k)

IsRead(r) == \E slot \in Visible, f \in Nat : OfFile(r, slot, f)

FileInv ==
    /\ FatInv
    /\ ~overran => \A t \in Caller : calls[t].op = "read" => IsRead(calls[t])
    /\ ReadExact

LEMMA SameFiles ==
    ASSUME UNCHANGED <<directory, table>>
    PROVE  /\ Visible' = Visible
           /\ \A c : Chain(c)' = Chain(c)
           /\ \A s, i : FileByte(s, i)' = FileByte(s, i)
BY DEF Visible, FilesOf, UpToEnd, Chain, FileByte

LEMMA SameReads ==
    ASSUME UNCHANGED <<directory, table>>, NEW u \in Caller, IsRead(calls'[u])
    PROVE  IsRead(calls[u])'
<1>1. PICK slot \in Visible, f \in Nat : OfFile(calls'[u], slot, f)
  BY DEF IsRead
<1>2. Visible' = Visible
  BY SameFiles
<1>3. OfFile(calls[u], slot, f)'
  BY <1>1, SameFiles DEF OfFile
<1> QED
  BY <1>1, <1>2, <1>3 DEF IsRead

LEMMA LeaveReads ==
    ASSUME FileInv, FatInv', UNCHANGED <<directory, table>>, ~overran, ReadExact',
           NEW t \in Caller, NEW mine, NEW p, Leave(t, mine, p),
           mine.op = "read" /\ ~overran' => IsRead(mine)
    PROVE  FileInv'
<1>1. ASSUME ~overran', NEW u \in Caller, calls'[u].op = "read" PROVE IsRead(calls'[u])
  <2>1. CASE u = t
    BY <1>1, <2>1 DEF Leave
  <2>2. CASE u # t
    <3>1. calls'[u] = IF calls[u].op \in {"find", "list"} /\ p # position
                      THEN [calls[u] EXCEPT !.overlapped = TRUE] ELSE calls[u]
      BY <2>2 DEF Leave
    <3>2. CASE calls[u].op \in {"find", "list"} /\ p # position
      <4>1. calls[u] \in Scanning
        BY <3>2, FatFields DEF FileInv
      <4>2. calls'[u].op = calls[u].op
        BY <3>1, <3>2, <4>1 DEF Scanning
      <4> QED
        BY <1>1, <3>2, <4>2
    <3>3. CASE ~(calls[u].op \in {"find", "list"} /\ p # position)
      BY <1>1, <3>1, <3>3 DEF FileInv
    <3> QED
      BY <3>2, <3>3
  <2> QED
    BY <2>1, <2>2
<1>2. ASSUME ~overran', NEW u \in Caller, calls'[u].op = "read" PROVE IsRead(calls[u])'
  BY <1>1, <1>2, SameReads
<1> QED
  BY <1>2 DEF FileInv

LEMMA SmallWord ==
    ASSUME NEW n \in Digit, NEW a, Small(a, n)
    PROVE  a = Word(n)
<1>1. n \in Nat /\ n < Limb /\ Limb \in Nat \ {0}
  BY LimbIs DEF Digit
<1>2. a \in Uint64 /\ a[0] = n % Limb /\ a[1] = n \div Limb /\ a[2] = 0 /\ a[3] = 0
  BY SmallIs DEF Small
<1> HIDE DEF Limb
<1>3. n % Limb = n /\ n \div Limb = 0
  BY <1>1
<1>4. \A i \in 0..3 : i = 0 \/ i = 1 \/ i = 2 \/ i = 3
  OBVIOUS
<1>5. \A i \in 0..3 : a[i] = Word(n)[i]
  BY <1>2, <1>3, <1>4 DEF Word, Init64, Quad
<1>6. DOMAIN a = 0..3 /\ a = [i \in 0..3 |-> a[i]] /\ Word(n) = [i \in 0..3 |-> Word(n)[i]]
  BY <1>2 DEF Uint64, Word, Init64, Quad
<1> QED
  BY <1>5, <1>6

(* A position in a file has two limbs.                                      *)
LEMMA SizeFits ==
    ASSUME NEW size, NEW ch, NEW f, Regular(size, ch, f)
    PROVE  FileEnd(size) < Limb * Limb
<1> DEFINE S == SectorSize
           n == ClusterCount(size)
           z == size % S
           end == FileEnd(size)
<1>1. size \in Nat \ {0} /\ n \in Nat \ {0} /\ n <= BadCluster /\ S \in Nat
  BY RegularIs, SizesAre DEF Regular
<1>2. /\ z \in 0..(S - 1) /\ n \in 1..n /\ (n - 1) * S \in Nat /\ n * S = (n - 1) * S + S
      /\ UpTo(size, n) = (n - 1) * S + z
  <2>1. n \in 1..n
    BY <1>1
  <2> QED
    BY <1>1, <2>1, ClustersAre
<1>3. UpTo(size, n) = end
  BY DEF UpTo
<1>4. n <= EntryValues /\ EntryValues \in Nat
  <2>1. BadCluster \in 1..(EntryValues - 2) /\ EntryValues \in Nat
    BY SizesAre
  <2> HIDE DEF n, BadCluster, EntryValues
  <2> QED
    BY <1>1, <2>1
<1> HIDE DEF n, S, z, end, EntryValues, Limb
<1>5. n * S <= EntryValues * S
  BY <1>1, <1>4, ProductGrows
<1> DEFINE a == (n - 1) * S
           ns == n * S
           es == EntryValues * S
           d == DataSector * S
           l == Limb * Limb
<1>6. a \in Nat /\ ns = a + S /\ end = a + z /\ ns <= es /\ es + d < l /\ d \in Nat /\ l \in Nat
  BY <1>2, <1>3, <1>5, GeometryIs DEF S
<1> HIDE DEF a, ns, es, d, l
<1>7. end < l
  <2>1. es \in Nat
    BY <1>1, <1>4, ProductGrows DEF es
  <2> QED
    BY <1>1, <1>2, <1>6, <2>1
<1> QED
  BY <1>7 DEF l, end

(* A read that is complete returns what it promises.                        *)
LEMMA ReturnsRight ==
    ASSUME VolumeInit, UNCHANGED <<directory, table>>, NEW slot \in Visible, NEW f \in Nat,
           NEW r \in Reading, Small(r.file, EntryAddress(slot)), Small(r.from, f),
           ~overran' /\ Regular(directory[slot].size, Chain(directory[slot].cluster), f)
                => Complete(r, directory[slot].size, Chain(directory[slot].cluster), f),
           returned' = [op |-> "read", file |-> r.file, from |-> r.from, count |-> r.count,
                        bytes |-> r.bytes, position |-> Add64_16(r.from, Len(r.bytes))]
    PROVE  ReadExact'
<1> DEFINE size == directory[slot].size
           ch == Chain(directory[slot].cluster)
           end == FileEnd(size)
           after == Add64_16(r.from, Len(r.bytes))
<1>1. Value(r.file) = EntryAddress(slot) /\ Value(r.from) = f
  BY SmallIs
<1>2. ASSUME ~overran', f <= end
      PROVE  /\ r.bytes = [i \in 1..Lesser(r.count, end - f) |-> FileByte(slot, f + i - 1)]
             /\ Value(after) = f + Len(r.bytes)
  <2>1. Regular(size, ch, f)
    BY <1>2, IsRegular
  <2>2. Complete(r, size, ch, f)
    BY <1>2, <2>1
  <2>3. end \in Nat /\ end < Limb * Limb
    BY <2>1, SizeFits, RegularIs
  <2> HIDE DEF size, ch, end, after
  <2>4. PICK cnt \in Nat : cnt = r.count /\ cnt \in Digit
    BY CountIs
  <2>5. PICK d \in Nat : d = Lesser(cnt, end - f) /\ d <= cnt /\ f + d <= end
    <3>1. PICK e \in Nat : e = end - f /\ f + e = end
      <4>1. end - f \in Nat /\ f + (end - f) = end
        BY <1>2, <2>3
      <4> QED
        BY <4>1
    <3>2. Lesser(cnt, e) = IF cnt < e THEN cnt ELSE e
      BY DEF Lesser
    <3>3. PICK d \in Nat : d = Lesser(cnt, e) /\ d <= cnt /\ d <= e
      BY <3>2
    <3>4. f + d <= end
      BY <3>1, <3>3
    <3> QED
      BY <3>1, <3>3, <3>4
  <2>6. r.bytes = BytesTo(ch, f, f + d)
    BY <2>2, <2>4, <2>5 DEF Complete, end
  <2>7. PICK q \in Nat : q = f + d
    OBVIOUS
  <2>8. Len(r.bytes) = d
    <3>1. f <= q
      BY <2>7
    <3>2. IsBytes(BytesTo(ch, f, q), ch, f, q)
      BY <3>1, BytesToIs
    <3>3. Len(r.bytes) = q - f
      BY <2>6, <2>7, <3>2 DEF IsBytes
    <3> QED
      BY <2>7, <3>3
  <2>9. r.bytes = [i \in 1..d |-> FileByte(slot, f + i - 1)]
    <3>1. f + d - f = d
      OBVIOUS
    <3>2. r.bytes = [i \in 1..d |-> Byte(ch, f + i - 1)]
      BY <2>6, <3>1 DEF BytesTo
    <3>3. \A i : Byte(ch, i) = FileByte(slot, i)
      BY DEF Byte, FileByte, ch
    <3> QED
      BY <3>2, <3>3
  <2>10. Value(after) = f + d
    <3> DEFINE l == Limb * Limb
    <3>1. l \in Nat /\ end < l
      BY <2>3, GeometryIs
    <3> HIDE DEF l
    <3>2. f + d < l
      BY <2>3, <2>5, <3>1
    <3>3. d \in Digit
      <4>1. Limb \in Nat
        BY LimbIs
      <4> HIDE DEF Limb
      <4> QED
        BY <2>4, <2>5, <4>1 DEF Digit
    <3>4. f + d < Limb * Limb
      BY <3>2 DEF l
    <3>5. Small(Add64_16(r.from, d), f + d)
      BY <3>3, <3>4, AddWordSmall
    <3> QED
      BY <2>8, <3>5, SmallIs DEF after
  <2> QED
    BY <2>4, <2>5, <2>8, <2>9, <2>10
<1>4. /\ returned'.op = "read" /\ returned'.from = r.from /\ returned'.bytes = r.bytes
      /\ returned'.count = r.count /\ returned'.position = after
  OBVIOUS
<1> HIDE DEF after
<1>5. /\ Value(returned'.from) = f /\ Value(returned'.position) = Value(after)
      /\ EntryAddress(slot) = Value(returned'.file) /\ directory' = directory
      /\ slot \in Visible'
  BY <1>1, <1>4, SameFiles
<1>6. ASSUME ~overran', f <= end
      PROVE  r.bytes = [i \in 1..Lesser(r.count, end - f) |-> FileByte(slot, f + i - 1)']
  BY <1>2, <1>6, SameFiles
<1> QED
  BY <1>2, <1>4, <1>5, <1>6 DEF ReadExact

(* The head of the loop of fat_read_file.                                   *)
LEMMA LoopReads ==
    ASSUME FileInv, FatInv', ~overran, UNCHANGED <<directory, table>>, NEW t \in Caller,
           NEW r \in Reading, NEW p, ReadLoop(t, r, p), NEW slot \in Visible, NEW f \in Nat,
           NEW size, size = directory[slot].size,
           NEW ch, ch = Chain(directory[slot].cluster),
           Small(r.file, EntryAddress(slot)), Small(r.from, f),
           ~overran' /\ Regular(size, ch, f) =>
                IF Len(r.bytes) < r.count /\ r.cluster < BadCluster
                THEN \E k \in Nat : Reached(r, size, ch, f, k)
                ELSE Complete(r, size, ch, f)
    PROVE  FileInv'
<1> DEFINE disk == Add64(Word((r.cluster + r.cluster \div 2) % Limb), root.fat_begin)
           mine == [r EXCEPT !.at = "fat", !.disk = disk]
<1>1. CASE Len(r.bytes) < r.count /\ r.cluster < BadCluster
  <2>1. Leave(t, mine, disk) /\ returned' = Nothing
    BY <1>1 DEF ReadLoop, Sleeps
  <2>2. /\ mine.file = r.file /\ mine.from = r.from /\ mine.at = "fat"
        /\ mine.cluster = r.cluster /\ mine.end_offset = r.end_offset /\ mine.left = r.left
        /\ mine.offset = r.offset /\ mine.bytes = r.bytes
    BY DEF Reading
  <2> HIDE DEF mine, disk
  <2>3. \A k : Reached(r, size, ch, f, k) => Reached(mine, size, ch, f, k)
    BY <2>2 DEF Reached
  <2>4. ASSUME ~overran' PROVE IsRead(mine)
    <3>1. Regular(size, ch, f) => \E k \in Nat : Reached(mine, size, ch, f, k)
      BY <1>1, <2>3, <2>4
    <3>2. OfFile(mine, slot, f)
      BY <2>2, <3>1 DEF OfFile
    <3> QED
      BY <3>2 DEF IsRead
  <2>5. ReadExact'
    BY <2>1 DEF ReadExact, Nothing
  <2> QED
    BY <2>1, <2>4, <2>5, LeaveReads
<1>2. CASE ~(Len(r.bytes) < r.count /\ r.cluster < BadCluster)
  <2>1. /\ Leave(t, NoCall, p)
        /\ returned' = [op |-> "read", file |-> r.file, from |-> r.from, count |-> r.count,
                        bytes |-> r.bytes, position |-> Add64_16(r.from, Len(r.bytes))]
    BY <1>2 DEF ReadLoop, Returns
  <2>2. NoCall.op # "read"
    BY DEF NoCall
  <2>3. VolumeInit
    BY DEF FileInv, FatInv
  <2>4. ~overran' /\ Regular(size, ch, f) => Complete(r, size, ch, f)
    BY <1>2
  <2>5. ReadExact'
    BY <2>1, <2>3, <2>4, ReturnsRight
  <2> QED
    BY <2>1, <2>2, <2>5, LeaveReads
<1> QED
  BY <1>1, <1>2

LEMMA StartReads ==
    ASSUME FileInv, FatInv', UNCHANGED <<directory, table>>, NEW t \in Caller,
           NEW slot \in Visible, NEW from \in Positions, NEW n \in Counts,
           StartRead(t, slot, from, n)
    PROVE  FileInv'
<1> DEFINE file == U64(EntryAddress(slot))
           pos  == U64(from)
           off  == ShiftedOut(pos, root.cluster_pot)
           left == Shr64(pos, root.cluster_pot)
           mine == [op |-> "read", at |-> "entry", file |-> file, from |-> pos,
                    count |-> n, disk |-> file, offset |-> off,
                    end_offset |-> 0, left |-> left,
                    cluster |-> 0, next |-> 0, size |-> 0, bytes |-> <<>>]
<1>1. root # Unmounted /\ ~overran /\ Leave(t, mine, file) /\ returned' = Nothing
  BY DEF StartRead, Sleeps
<1>2. Small(file, EntryAddress(slot))
  <2>1. slot \in 1..RootEntries
    BY DEF Visible, FilesOf, UpToEnd
  <2> QED
    BY <2>1, EntryTyped
<1>3. Small(pos, from) /\ from \in Nat
  <2>1. from \in 0..(Limb * Limb - 1)
    BY FatAssumption
  <2> QED
    BY <2>1, U64Small
<1>4. root.cluster_pot = SectorShift /\ SectorShift \in 0..LimbBits /\ 2 ^ SectorShift = SectorSize
      /\ SectorSize \in Nat \ {0}
  BY <1>1, FatFields, GeometryIs, SizesAre DEF FileInv
<1> HIDE DEF file, pos
<1>5. pos \in Uint64 /\ Value(pos) = from
  BY <1>3, SmallIs DEF Small
<1>6. left \in Uint64 /\ Value(left) = from \div SectorSize /\ off = from % SectorSize
  <2>1. /\ Shr64(pos, SectorShift) \in Uint64
        /\ Value(Shr64(pos, SectorShift)) = Value(pos) \div 2 ^ SectorShift
        /\ pos[0] % 2 ^ SectorShift = Value(pos) % 2 ^ SectorShift
    BY <1>4, <1>5, ShiftDivides
  <2> QED
    BY <1>4, <1>5, <2>1 DEF ShiftedOut
<1> HIDE DEF left, off
<1>7. Small(left, from \div SectorSize)
  <2> DEFINE l == Limb * Limb
             q == from \div SectorSize
  <2>1. from < l /\ l \in Nat
    BY <1>3, SmallIs, GeometryIs
  <2>2. PICK g \in 0..(SectorSize - 1) : from = SectorSize * q + g /\ q \in Nat
    <3> DEFINE z == from % SectorSize
    <3>1. from = SectorSize * q + z /\ z \in 0..(SectorSize - 1) /\ q \in Nat
      BY <1>3, <1>4, Divide
    <3> HIDE DEF z, q
    <3> QED
      BY <3>1
  <2>3. q <= from
    <3> HIDE DEF q
    <3>1. 1 * q <= SectorSize * q
      BY <1>4, <2>2, ProductGrows
    <3> QED
      BY <1>3, <1>4, <2>2, <3>1
  <2> HIDE DEF l, q
  <2>4. q < l
    BY <1>3, <2>1, <2>2, <2>3
  <2>5. Value(left) < Limb * Limb
    BY <1>6, <2>4 DEF l, q
  <2> QED
    BY <1>6, <2>5, ValueSmall
<1>8. /\ mine.file = file /\ mine.from = pos /\ mine.at = "entry" /\ mine.disk = file
      /\ mine.bytes = <<>> /\ mine.left = left /\ mine.offset = off
  OBVIOUS
<1> HIDE DEF mine
<1>9. OfFile(mine, slot, from)
  BY <1>2, <1>3, <1>6, <1>7, <1>8 DEF OfFile
<1>10. IsRead(mine)
  BY <1>3, <1>9 DEF IsRead
<1>11. ReadExact'
  BY <1>1 DEF ReadExact, Nothing
<1> QED
  BY <1>1, <1>10, <1>11, LeaveReads

(* Whoever does not read leaves the reads alone.                            *)
LEMMA OtherReads ==
    ASSUME FileInv, FatInv', UNCHANGED <<directory, table>>, ~overran, NEW t \in Caller,
           NEW mine, mine.op # "read", NEW p, Leave(t, mine, p), returned'.op # "read"
    PROVE  FileInv'
<1>1. ReadExact'
  BY DEF ReadExact
<1> QED
  BY <1>1, LeaveReads

LEMMA ScanReads ==
    ASSUME FileInv, FatInv', UNCHANGED <<directory, table>>, ~overran, NEW t \in Caller,
           NEW s, s.op \in {"find", "list"}, NEW p0, NEW p, Scan(t, s, p0, p)
    PROVE  FileInv'
<1> DEFINE mine == [s EXCEPT !.position = p]
<1>1. mine.op # "read" /\ NoCall.op # "read" /\ Nothing.op # "read"
  BY DEF NoCall, Nothing
<1>2. \/ Leave(t, mine, p) /\ returned' = Nothing
      \/ Leave(t, NoCall, p) /\ returned'.op = s.op
  BY DEF Scan, Sleeps, Returns
<1> HIDE DEF mine
<1> QED
  BY <1>1, <1>2, OtherReads

LEMMA StartScanReads ==
    ASSUME FileInv, FatInv', UNCHANGED <<directory, table>>, NEW t \in Caller,
           NEW op \in {"find", "list"}, NEW name, NEW after, StartScan(t, op, name, after)
    PROVE  FileInv'
<1> DEFINE first == IF after = 0 THEN root.root_begin
                    ELSE Add64(Word(EntrySize), U64(EntryAddress(after)))
           s == [op |-> op, name |-> name, after |-> after, position |-> first,
                 overlapped |-> FALSE]
<1>1. ~overran /\ Scan(t, s, first, first)
  BY DEF StartScan
<1>2. s.op \in {"find", "list"}
  OBVIOUS
<1> HIDE DEF s, first
<1> QED
  BY <1>1, <1>2, ScanReads

LEMMA AfterScanReads ==
    ASSUME FileInv, FatInv', UNCHANGED <<directory, table>>, NEW t \in Caller, AfterScan(t)
    PROVE  FileInv'
<1> DEFINE s == calls[t]
           p == Moved(EntrySize)
<1>1. s.op \in {"find", "list"} /\ ~overran
  BY DEF AfterScan
<1>2. Scan(t, s, s.position, p) \/ (Leave(t, NoCall, p) /\ returned'.op = s.op)
  BY DEF AfterScan, Returns
<1>3. NoCall.op # "read"
  BY DEF NoCall
<1> HIDE DEF s, p
<1> QED
  BY <1>1, <1>2, <1>3, ScanReads, OtherReads

LEMMA MountReads ==
    ASSUME FileInv, FatInv', UNCHANGED <<directory, table>>, CreateFatFs
    PROVE  FileInv'
<1>1. \A t \in Caller : calls[t].op = "none"
  BY DEF FileInv, FatInv, CreateFatFs
<1>2. calls' = calls /\ returned'.op = "none"
  BY DEF CreateFatFs, Nothing
<1>3. ReadExact'
  BY <1>2 DEF ReadExact
<1> QED
  BY <1>1, <1>2, <1>3 DEF FileInv

(* From the directory entry to the first cluster.                           *)
LEMMA Begins ==
    ASSUME NEW size, NEW ch, NEW f, Regular(size, ch, f), NEW m, m.cluster = ch[1],
           m.end_offset = size % SectorSize, m.bytes = <<>>,
           Small(m.left, f \div SectorSize), m.offset = f % SectorSize
    PROVE  \E k \in Nat : Reached(m, size, ch, f, k)
<1> DEFINE n == ClusterCount(size)
<1>1. PICK F, o, a \in Nat :
        /\ F = f \div SectorSize /\ o = f % SectorSize /\ o < SectorSize
        /\ a = F * SectorSize /\ f = a + o
        /\ F + 1 \in 1..n
        /\ \A k1 \in 1..ClusterCount(size) : k1 = F + 1 => f <= UpTo(size, k1)
  BY RegularIs
<1>2. n \in Nat
  BY RegularIs
<1> HIDE DEF n
<1>3. F \in Digit
  <2>1. CASE F = 0
    BY <2>1, LimbIs DEF Digit
  <2>2. CASE F # 0
    <3>1. F \in 1..n
      BY <1>1, <1>2, <2>2
    <3> QED
      BY <3>1, RegularIs DEF n
  <2> QED
    BY <2>1, <2>2
<1>4. m.left = Word(F)
  BY <1>1, <1>3, SmallWord
<1>5. CASE F = 0
  <2>0. f \div SectorSize = 0 /\ m.left = Word(0)
    BY <1>1, <1>4, <1>5
  <2>1. 1 = f \div SectorSize + 1
    BY <2>0
  <2>2. Reached(m, size, ch, f, 1)
    BY <2>0, <2>1, Arrives
  <2> QED
    BY <2>2
<1>6. CASE F # 0
  <2>1. 1 \in 1..n /\ F + 1 - 1 = F /\ ~(1 > F)
    BY <1>1, <1>2, <1>6
  <2>2. Reached(m, size, ch, f, 1)
    BY <1>1, <1>4, <2>1 DEF Reached, n
  <2> QED
    BY <2>2
<1> QED
  BY <1>5, <1>6

(* The low bits of a size are those of its lowest limb.                     *)
LEMMA LowBits ==
    ASSUME NEW size \in Nat
    PROVE  (size % Limb) % SectorSize = size % SectorSize
<1>1. PICK R \in Nat \ {0} : SectorSize * R = Limb
  BY PowerIs, GeometryIs
<1>2. Limb \in Nat \ {0} /\ SectorSize \in Nat \ {0}
  BY LimbIs, SizesAre
<1> HIDE DEF Limb
<1>3. PICK x, y \in Nat : size = Limb * x + y /\ y = size % Limb
  <2>1. size = Limb * (size \div Limb) + (size % Limb) /\ size % Limb \in 0..(Limb - 1)
        /\ size \div Limb \in Nat
    BY <1>2, Divide
  <2>2. size % Limb \in Nat
    BY <1>2, <2>1
  <2> QED
    BY <2>1, <2>2
<1>4. PICK c \in Nat, d \in 0..(SectorSize - 1) : y = SectorSize * c + d /\ d = y % SectorSize
  <2>1. y = SectorSize * (y \div SectorSize) + (y % SectorSize) /\ y % SectorSize \in 0..(SectorSize - 1)
        /\ y \div SectorSize \in Nat
    BY <1>2, Divide
  <2> QED
    BY <2>1
<1>5. PICK h \in Nat : h = R * x + c
  <2>1. R * x \in Nat
    BY <1>1, ProductGrows
  <2> QED
    BY <2>1
<1>6. size = SectorSize * h + d
  <2>1. Limb * x = SectorSize * (R * x)
    BY <1>1, <1>2
  <2>2. SectorSize * h = SectorSize * (R * x) + SectorSize * c
    BY <1>1, <1>2, <1>5
  <2> DEFINE u == Limb * x
             v == SectorSize * c
             w == SectorSize * h
  <2>3. w = u + v /\ size = u + y /\ y = v + d
    BY <1>3, <1>4, <2>1, <2>2
  <2>4. u \in Nat /\ v \in Nat /\ w \in Nat
    BY <1>2, ProductGrows
  <2>5. y \in Nat /\ d \in Nat
    BY <1>2, <1>3, <1>4
  <2> HIDE DEF u, v, w
  <2>6. size = w + d
    BY <2>3, <2>4, <2>5
  <2> QED
    BY <2>6 DEF w
<1>7. size % SectorSize = d
  BY <1>2, <1>6, Quotient
<1> QED
  BY <1>3, <1>4, <1>7

LEMMA AfterEntryReads ==
    ASSUME FileInv, FatInv', UNCHANGED <<directory, table>>, NEW t \in Caller, AfterEntry(t)
    PROVE  FileInv'
<1> DEFINE r == calls[t]
<1>1. r.op = "read" /\ r.at = "entry" /\ ~overran /\ r \in Reading /\ root # Unmounted /\ VolumeInit
  BY FatFields DEF AfterEntry, FileInv, FatInv
<1>2. PICK slot \in Visible, f \in Nat : OfFile(r, slot, f)
  BY <1>1 DEF FileInv, IsRead
<1>3. /\ Small(r.file, EntryAddress(slot)) /\ Small(r.from, f) /\ r.disk = r.file
      /\ r.bytes = <<>> /\ Small(r.left, f \div SectorSize) /\ r.offset = f % SectorSize
  BY <1>1, <1>2 DEF OfFile
<1> DEFINE size == directory[slot].size
           ch == Chain(directory[slot].cluster)
           p == Moved(EntrySize)
           e == ShiftedOut(Word(size % Limb), root.cluster_pot)
           mine == [r EXCEPT !.end_offset = e, !.cluster = directory[slot].cluster]
<1>4. /\ ReadLoop(t, mine, p) /\ directory[slot].cluster \in Digit /\ size \in Nat
      /\ size % Limb \in Digit
  <2>1. PICK entry \in EntriesAt(Value(r.disk)) :
            ReadLoop(t, [r EXCEPT !.end_offset = ShiftedOut(Word(entry.size % Limb),
                                                           root.cluster_pot),
                                 !.cluster = entry.cluster], p)
    BY DEF AfterEntry
  <2>2. Value(r.disk) = EntryAddress(slot) /\ slot \in 1..RootEntries
    BY <1>3, SmallIs DEF Visible, FilesOf, UpToEnd
  <2>3. entry = directory[slot] /\ entry.cluster \in Digit /\ entry.size \in Nat
        /\ entry.size % Limb \in Digit
    BY <1>1, <2>1, <2>2, EntryFits
  <2> QED
    BY <2>1, <2>3
<1>5. e = size % SectorSize
  <2>1. root.cluster_pot = SectorShift /\ 2 ^ SectorShift = SectorSize
    BY <1>1, FatFields DEF FileInv
  <2>2. e = (size % Limb) % SectorSize
    BY <2>1 DEF ShiftedOut, Word, Init64, Quad
  <2> QED
    BY <1>4, <2>2, LowBits
<1>6. e \in Digit
  <2> HIDE DEF size, e
  <2>1. SectorSize \in Digit /\ SectorSize > 0 /\ SectorSize \in Nat /\ Limb \in Nat
    BY GeometryIs, SizesAre
  <2>2. e \in 0..(SectorSize - 1)
    BY <1>4, <1>5, <2>1, Divide
  <2> HIDE DEF Limb
  <2> QED
    BY <2>1, <2>2 DEF Digit
<1> HIDE DEF r, e, p
<1>7. mine \in Reading
  BY <1>1, <1>4, <1>6 DEF Reading, Digit
<1>8. /\ mine.file = r.file /\ mine.from = r.from /\ mine.end_offset = e
      /\ mine.cluster = directory[slot].cluster /\ mine.left = r.left
      /\ mine.offset = r.offset /\ mine.bytes = <<>> /\ mine.count = r.count
  BY <1>1, <1>3 DEF Reading
<1> HIDE DEF mine
<1>9. ASSUME Regular(size, ch, f)
      PROVE  /\ Len(mine.bytes) < mine.count /\ mine.cluster < BadCluster
             /\ \E k \in Nat : Reached(mine, size, ch, f, k)
  <2>1. ch[1] = directory[slot].cluster
    <3>1. f <= FileEnd(size)
      BY <1>9, RegularIs
    <3> QED
      BY <1>1, <3>1, IsRegular
  <2>2. \E k \in Nat : Reached(mine, size, ch, f, k)
    BY <1>3, <1>5, <1>8, <1>9, <2>1, Begins
  <2>3. mine.cluster < BadCluster
    <3>1. 1 \in 1..ClusterCount(size)
      <4>1. ClusterCount(size) \in Nat \ {0}
        BY <1>9, RegularIs
      <4> QED
        BY <4>1
    <3> QED
      BY <1>8, <1>9, <2>1, <3>1, RegularIs
  <2>4. Len(mine.bytes) < mine.count
    <3>1. mine.count \in Nat \ {0} /\ mine.bytes = <<>>
      BY <1>7, <1>8, CountIs
    <3>2. Len(mine.bytes) = 0
      BY <3>1
    <3> QED
      BY <3>1, <3>2
  <2> QED
    BY <2>2, <2>3, <2>4
<1>10. Small(mine.file, EntryAddress(slot)) /\ Small(mine.from, f)
  BY <1>3, <1>8
<1> HIDE DEF size, ch
<1>11. size = directory[slot].size /\ ch = Chain(directory[slot].cluster)
  BY DEF size, ch
<1> QED
  BY <1>1, <1>4, <1>7, <1>9, <1>10, <1>11, LoopReads

(* A word read at a cluster's place in the table has the cluster's entry.   *)
LEMMA WordIsNext ==
    ASSUME FatInv, NEW r \in Reading, Awaits(r), r.at = "fat", ~Spans(Value(r.disk), 2),
           NEW word \in WordsAt(Value(r.disk)), r.cluster \in DOMAIN table
    PROVE  Decode(r.cluster, word) = table[r.cluster]
<1>1. TableOK
  BY FatFields
<1>2. PICK c \in Nat : c = r.cluster /\ c < BadCluster
  <2>1. BadCluster \in 1..(EntryValues - 2)
    BY SizesAre
  <2>2. PICK m \in 1..BadCluster : DOMAIN table = 0..(m - 1)
    BY <1>1 DEF TableOK
  <2> HIDE DEF BadCluster, EntryValues
  <2>3. BadCluster \in Nat
    BY <2>1, SizesAre
  <2> QED
    BY <2>2, <2>3
<1>3. PICK h \in Nat : h = c \div 2 /\ h <= c
  OBVIOUS
<1>4. (c + h) % Limb = c + h /\ c + h \in Nat
  <2>1. BadCluster \in 1..(EntryValues - 2) /\ EntryValues \in Nat /\ Limb \in Nat \ {0}
        /\ 2 * EntryValues <= Limb
    BY SizesAre, GeometryIs, LimbIs
  <2> HIDE DEF BadCluster, EntryValues, Limb
  <2>2. c + h < Limb /\ c + h \in Nat
    BY <1>2, <1>3, <2>1
  <2> QED
    BY <2>1, <2>2
<1>5. Small(r.disk, Reserved * SectorSize + ((c + h) % Limb))
  BY <1>2, <1>3 DEF Awaits
<1>6. Value(r.disk) = Reserved * SectorSize + (c + h)
  BY <1>4, <1>5, SmallIs
<1>7. PICK n \in Nat : n = c + h
  BY <1>4
<1>8. word = TableWord(n)
  <2>1. word \in WordsAt(Reserved * SectorSize + n) /\ ~Spans(Reserved * SectorSize + n, 2)
    BY <1>6, <1>7
  <2> QED
    BY <1>1, <2>1, WordAt
<1>9. word = TableWord(c + c \div 2) /\ c \in DOMAIN table
  BY <1>2, <1>3, <1>7, <1>8
<1>10. /\ c % 2 = 1 => word \div Nibble = table[c]
       /\ c % 2 = 0 => word % EntryValues = table[c]
  BY <1>1, <1>9, WordHasEntry
<1>11. c % 2 = 1 \/ c % 2 = 0
  BY <1>2
<1> QED
  BY <1>2, <1>10, <1>11 DEF Decode

(* What a cluster's entry in the table lets a read do: skip the cluster,    *)
(* stop at the end of the file, or read a part of the cluster.              *)
LEMMA SkipGoesOn ==
    ASSUME NEW size, NEW ch, NEW f, Regular(size, ch, f), NEW r, NEW k,
           Reached(r, size, ch, f, k), Cmp64_16(r.left, 0) # 0,
           NEW next, Follows(size, ch, k, next), NEW m \in Reading, m.left = Dec64(r.left),
           m.cluster = next, m.end_offset = r.end_offset, m.offset = r.offset,
           m.bytes = r.bytes
    PROVE  /\ Len(m.bytes) < m.count /\ m.cluster < BadCluster
           /\ \E j \in Nat : Reached(m, size, ch, f, j)
<1>1. PICK j \in Nat : Reached(m, size, ch, f, j) /\ m.cluster = ch[j] /\ m.bytes = <<>>
  BY Skips
<1>2. j \in 1..ClusterCount(size)
  BY <1>1 DEF Reached
<1>3. m.cluster < BadCluster
  BY <1>1, <1>2, RegularIs
<1>4. Len(m.bytes) = 0 /\ m.count \in Nat \ {0}
  BY <1>1, CountIs
<1>5. Len(m.bytes) < m.count
  BY <1>4
<1> QED
  BY <1>1, <1>3, <1>5

LEMMA EndCompletes ==
    ASSUME FatInv, root # Unmounted, NEW size, NEW ch, NEW f, Regular(size, ch, f),
           NEW r \in Reading, NEW k, Reached(r, size, ch, f, k), Len(r.bytes) < r.count,
           Cmp64_16(r.left, 0) = 0, NEW next \in Digit, Follows(size, ch, k, next),
           PartSize(r, next) = 0, NEW m, m.bytes = r.bytes, m.count = r.count
    PROVE  Complete(m, size, ch, f) /\ ~(next < BadCluster)
<1>1. k > f \div SectorSize
  BY LeftSkips
<1>2. PICK a, q, e \in Nat : Inside(r, size, ch, f, k, a, q, e)
  BY <1>1, IsInside
<1>3. Lesser(e - q, r.count - (q - f)) = 0
  <2>1. r.end_offset = size % SectorSize
    BY DEF Reached
  <2> QED
    BY <1>2, <2>1, PartIs
<1>4. k = ClusterCount(size) /\ r.bytes = BytesTo(ch, f, f + Lesser(r.count, FileEnd(size) - f))
  BY <1>2, <1>3, NothingLeft
<1>5. next > BadCluster
  BY <1>4 DEF Follows
<1>6. ~(next < BadCluster)
  <2>1. BadCluster \in 1..(EntryValues - 2) /\ next \in Int
    BY SizesAre, LimbIs DEF Digit
  <2> HIDE DEF EntryValues, BadCluster
  <2> QED
    BY <1>5, <2>1
<1> QED
  BY <1>4, <1>6 DEF Complete

LEMMA PartDelivers ==
    ASSUME FatInv, root # Unmounted, NEW size, NEW ch, NEW f, Regular(size, ch, f),
           NEW r \in Reading, NEW k, Reached(r, size, ch, f, k), Len(r.bytes) < r.count,
           Cmp64_16(r.left, 0) = 0, NEW next \in Digit, Follows(size, ch, k, next),
           PartSize(r, next) \in Digit, PartSize(r, next) # 0, NEW m,
           m.size = PartSize(r, next), m.next = next, m.disk = DataPosition(r),
           m.cluster = r.cluster, m.end_offset = r.end_offset, m.left = r.left,
           m.offset = r.offset, m.bytes = r.bytes, m.count = r.count
    PROVE  \E j \in Nat : Reached(m, size, ch, f, j) /\ Delivers(m, size, ch, f, j)
<1>1. k > f \div SectorSize
  BY LeftSkips
<1>2. PICK a, q, e \in Nat : Inside(r, size, ch, f, k, a, q, e)
  BY <1>1, IsInside
<1>3. PartSize(r, next) = Lesser(e - q, r.count - (q - f))
  <2>1. r.end_offset = size % SectorSize
    BY DEF Reached
  <2> QED
    BY <1>2, <2>1, PartIs
<1>4. (k - 1) * SectorSize + m.offset = q /\ UpTo(size, k) = e
  BY <1>2 DEF Inside
<1>5. m.size > 0
  BY LimbIs DEF Digit
<1>6. Value(m.disk) = ClusterAddress(ch[k]) + m.offset
  <2>1. Small(DataPosition(r), ClusterAddress(ch[k]) + r.offset)
    BY <1>2, DataIs
  <2>2. Value(DataPosition(r)) = ClusterAddress(ch[k]) + r.offset
    BY <2>1, SmallIs
  <2> QED
    BY <2>2
<1>7. Delivers(m, size, ch, f, k)
  BY <1>1, <1>3, <1>4, <1>5, <1>6 DEF Delivers
<1>8. Reached(m, size, ch, f, k) /\ k \in Nat
  BY DEF Reached
<1> QED
  BY <1>7, <1>8

LEMMA AfterFatReads ==
    ASSUME FileInv, FatInv', UNCHANGED <<directory, table>>, NEW t \in Caller, AfterFat(t)
    PROVE  FileInv'
<1> DEFINE r == calls[t]
<1>1. /\ r.op = "read" /\ r.at = "fat" /\ ~overran /\ overran' = Spans(Value(r.disk), 2)
      /\ r \in Reading /\ Awaits(r) /\ root # Unmounted /\ VolumeInit /\ FatInv
  BY FatFields DEF AfterFat, FileInv, FatInv
<1>2. PICK slot \in Visible, f \in Nat : OfFile(r, slot, f)
  BY <1>1 DEF FileInv, IsRead
<1> DEFINE size == directory[slot].size
           ch == Chain(directory[slot].cluster)
<1>3. /\ Small(r.file, EntryAddress(slot)) /\ Small(r.from, f)
      /\ Regular(size, ch, f) => \E k \in Nat : Reached(r, size, ch, f, k)
  BY <1>1, <1>2 DEF OfFile
<1>4. PICK word \in WordsAt(Value(r.disk)) :
        LET next == Decode(r.cluster, word)
            part == PartSize(r, next)
        IN  IF Cmp64_16(r.left, 0) # 0
            THEN ReadLoop(t, [r EXCEPT !.left = Dec64(@), !.cluster = next], Moved(2))
            ELSE IF part = 0
            THEN ReadLoop(t, [r EXCEPT !.offset = 0, !.cluster = next], DataPosition(r))
            ELSE Sleeps(t, [r EXCEPT !.at = "data", !.next = next, !.size = part,
                                     !.disk = DataPosition(r)],
                        DataPosition(r))
  BY Zenon DEF AfterFat
<1> DEFINE next == Decode(r.cluster, word)
           part == PartSize(r, next)
           data == DataPosition(r)
           skips == [r EXCEPT !.left = Dec64(@), !.cluster = next]
           stops == [r EXCEPT !.offset = 0, !.cluster = next]
           reads == [r EXCEPT !.at = "data", !.next = next, !.size = part, !.disk = data]
<1>5. /\ Cmp64_16(r.left, 0) # 0 => ReadLoop(t, skips, Moved(2))
      /\ Cmp64_16(r.left, 0) = 0 /\ part = 0 => ReadLoop(t, stops, data)
      /\ Cmp64_16(r.left, 0) = 0 /\ part # 0 => Leave(t, reads, data) /\ returned' = Nothing
  BY <1>4 DEF Sleeps
<1>6. TableOK
  BY FatFields, <1>1
<1>7. word \in Digit
  <2> DEFINE n == (r.cluster + r.cluster \div 2) % Limb
  <2>1. Small(r.disk, Reserved * SectorSize + n)
    BY <1>1 DEF Awaits
  <2>2. Value(r.disk) = Reserved * SectorSize + n
    BY <2>1, SmallIs
  <2>3. n \in Nat
    <3>1. r.cluster \in Nat /\ Limb \in Nat \ {0}
      BY <1>1, LimbIs DEF Reading
    <3> HIDE DEF Limb, r
    <3>2. r.cluster + r.cluster \div 2 \in Nat
      BY <3>1
    <3> QED
      BY <3>1, <3>2, Divide
  <2> HIDE DEF n, r
  <2> QED
    BY <1>6, <2>2, <2>3, WordAt
<1>8. next \in Digit /\ part \in Digit /\ data \in Uint64
  BY <1>1, <1>7, DecodeFits, PartFits, DataPositionTyped
<1>9. ASSUME ~overran', Regular(size, ch, f)
      PROVE  \E k \in Nat : Reached(r, size, ch, f, k) /\ Follows(size, ch, k, next)
  <2>1. PICK k \in Nat : Reached(r, size, ch, f, k)
    BY <1>3, <1>9
  <2>2. k \in 1..ClusterCount(size) /\ r.cluster = ch[k]
    BY <2>1 DEF Reached
  <2>3. f <= FileEnd(size)
    BY <1>9, RegularIs
  <2>4. ch[k] \in DOMAIN table /\ Follows(size, ch, k, table[ch[k]])
    BY <1>1, <2>2, <2>3, IsRegular
  <2>5. next = table[ch[k]]
    BY <1>1, <1>9, <2>2, <2>4, WordIsNext
  <2> QED
    BY <2>1, <2>4, <2>5
<1>10. Len(r.bytes) < r.count
  BY <1>1 DEF Awaits
<1>11. size = directory[slot].size /\ ch = Chain(directory[slot].cluster)
  OBVIOUS
<1> HIDE DEF r, next, part, data, size, ch
<1>12. CASE Cmp64_16(r.left, 0) # 0
  <2>1. skips \in Reading
    <3>1. Dec64(r.left) \in Uint64
      BY <1>1, DecTyped DEF Reading
    <3> QED
      BY <1>1, <1>8, <3>1 DEF Reading, Digit
  <2>2. /\ skips.left = Dec64(r.left) /\ skips.cluster = next /\ skips.end_offset = r.end_offset
        /\ skips.offset = r.offset /\ skips.bytes = r.bytes /\ skips.file = r.file
        /\ skips.from = r.from
    BY <1>1 DEF Reading
  <2>3. ReadLoop(t, skips, Moved(2))
    BY <1>5, <1>12
  <2> HIDE DEF skips
  <2>4. ASSUME ~overran', Regular(size, ch, f)
        PROVE  /\ Len(skips.bytes) < skips.count /\ skips.cluster < BadCluster
               /\ \E j \in Nat : Reached(skips, size, ch, f, j)
    <3>1. PICK k \in Nat : Reached(r, size, ch, f, k) /\ Follows(size, ch, k, next)
      BY <1>9, <2>4
    <3> QED
      BY <1>12, <2>1, <2>2, <2>4, <3>1, SkipGoesOn
  <2>5. Small(skips.file, EntryAddress(slot)) /\ Small(skips.from, f)
    BY <1>3, <2>2
  <2> QED
    BY <1>1, <1>11, <2>1, <2>3, <2>4, <2>5, LoopReads
<1>13. CASE Cmp64_16(r.left, 0) = 0 /\ part = 0
  <2>1. stops \in Reading
    <3>1. 0 \in Digit
      BY GeometryIs DEF Digit
    <3> QED
      BY <1>1, <1>8, <3>1 DEF Reading, Digit
  <2>2. /\ stops.cluster = next /\ stops.bytes = r.bytes /\ stops.file = r.file
        /\ stops.from = r.from /\ stops.count = r.count
    BY <1>1 DEF Reading
  <2>3. ReadLoop(t, stops, data)
    BY <1>5, <1>13
  <2> HIDE DEF stops
  <2>4. ASSUME ~overran', Regular(size, ch, f)
        PROVE  Complete(stops, size, ch, f) /\ ~(stops.cluster < BadCluster)
    <3>1. PICK k \in Nat : Reached(r, size, ch, f, k) /\ Follows(size, ch, k, next)
      BY <1>9, <2>4
    <3>2. PartSize(r, next) = 0
      BY <1>13 DEF part
    <3>3. Complete(stops, size, ch, f) /\ ~(next < BadCluster)
      BY <1>1, <1>8, <1>10, <1>13, <2>2, <2>4, <3>1, <3>2, EndCompletes
    <3> QED
      BY <2>2, <3>3
  <2>5. Small(stops.file, EntryAddress(slot)) /\ Small(stops.from, f)
    BY <1>3, <2>2
  <2> QED
    BY <1>1, <1>11, <2>1, <2>3, <2>4, <2>5, LoopReads
<1>14. CASE Cmp64_16(r.left, 0) = 0 /\ part # 0
  <2>1. /\ reads.at = "data" /\ reads.next = next /\ reads.size = part /\ reads.disk = data
        /\ reads.cluster = r.cluster /\ reads.end_offset = r.end_offset /\ reads.left = r.left
        /\ reads.offset = r.offset /\ reads.bytes = r.bytes /\ reads.count = r.count
        /\ reads.file = r.file /\ reads.from = r.from
    BY <1>1 DEF Reading
  <2>2. Leave(t, reads, data) /\ returned' = Nothing
    BY <1>5, <1>14
  <2> HIDE DEF reads
  <2>3. ASSUME ~overran', Regular(size, ch, f)
        PROVE  \E j \in Nat : Reached(reads, size, ch, f, j) /\ Delivers(reads, size, ch, f, j)
    <3>1. PICK k \in Nat : Reached(r, size, ch, f, k) /\ Follows(size, ch, k, next)
      BY <1>9, <2>3
    <3>2. /\ PartSize(r, next) # 0 /\ PartSize(r, next) \in Digit
          /\ reads.size = PartSize(r, next) /\ reads.disk = DataPosition(r)
      BY <1>8, <1>14, <2>1 DEF part, data
    <3> QED
      BY <1>1, <1>8, <1>10, <1>14, <2>1, <2>3, <3>1, <3>2, PartDelivers
  <2>4. ASSUME ~overran' PROVE IsRead(reads)
    <3>1. OfFile(reads, slot, f)
      BY <1>3, <1>11, <2>1, <2>3, <2>4 DEF OfFile
    <3> QED
      BY <3>1 DEF IsRead
  <2>5. ReadExact'
    BY <2>2 DEF ReadExact, Nothing
  <2> QED
    BY <1>1, <2>2, <2>4, <2>5, LeaveReads
<1> QED
  BY <1>12, <1>13, <1>14

LEMMA AfterDataReads ==
    ASSUME FileInv, FatInv', UNCHANGED <<directory, table>>, NEW t \in Caller, AfterData(t)
    PROVE  FileInv'
<1> DEFINE r == calls[t]
           more == [i \in 1..r.size |-> Value(r.disk) + i - 1]
           mine == [r EXCEPT !.bytes = @ \o more, !.offset = 0, !.cluster = r.next]
           p == Moved(r.size)
<1>1. /\ r.op = "read" /\ r.at = "data" /\ ~overran
      /\ ReadLoop(t, mine, p) /\ r \in Reading /\ root # Unmounted /\ FatInv
  BY FatFields DEF AfterData, FileInv
<1>2. PICK slot \in Visible, f \in Nat : OfFile(r, slot, f)
  BY <1>1 DEF FileInv, IsRead
<1> DEFINE size == directory[slot].size
           ch == Chain(directory[slot].cluster)
<1>3. /\ Small(r.file, EntryAddress(slot)) /\ Small(r.from, f)
      /\ Regular(size, ch, f) =>
            \E k \in Nat : Reached(r, size, ch, f, k) /\ Delivers(r, size, ch, f, k)
  BY <1>1, <1>2 DEF OfFile
<1>4. size = directory[slot].size /\ ch = Chain(directory[slot].cluster)
  OBVIOUS
<1> HIDE DEF r, size, ch, p
<1>5. more \in Seq(Int)
  <2>1. Value(r.disk) \in Int /\ r.size \in Nat
    BY <1>1, ValueIs DEF Reading
  <2>2. more \in [1..r.size -> Int]
    BY <2>1
  <2> QED
    BY <2>1, <2>2
<1>6. mine.bytes = r.bytes \o [i \in 1..r.size |-> Value(r.disk) + i - 1]
  BY <1>1 DEF Reading
<1> HIDE DEF more
<1>7. mine \in Reading
  <2>1. r.bytes \in Seq(Int)
    BY <1>1 DEF Reading
  <2>2. r.bytes \o more \in Seq(Int)
    BY <1>5, <2>1
  <2>3. 0 \in Digit
    BY GeometryIs DEF Digit
  <2> QED
    BY <1>1, <2>2, <2>3 DEF Reading, Digit
<1>8. /\ mine.offset = 0 /\ mine.cluster = r.next /\ mine.left = r.left
      /\ mine.end_offset = r.end_offset /\ mine.count = r.count
      /\ mine.file = r.file /\ mine.from = r.from
  BY <1>1 DEF Reading
<1> HIDE DEF mine
<1>9. ASSUME Regular(size, ch, f)
      PROVE  IF Len(mine.bytes) < mine.count /\ mine.cluster < BadCluster
             THEN \E j \in Nat : Reached(mine, size, ch, f, j)
             ELSE Complete(mine, size, ch, f)
  <2>1. PICK k \in Nat : Reached(r, size, ch, f, k) /\ Delivers(r, size, ch, f, k)
    BY <1>3, <1>9
  <2>2. k > f \div SectorSize
    BY <2>1 DEF Delivers
  <2>3. PICK a, q, e \in Nat : Inside(r, size, ch, f, k, a, q, e)
    BY <1>1, <1>9, <2>1, <2>2, IsInside
  <2>4. ClusterAddress(ch[k]) \in Nat
    BY <1>1, <1>9, <2>3, DataIs
  <2> QED
    BY <1>1, <1>6, <1>8, <1>9, <2>1, <2>4, Appends
<1>10. Small(mine.file, EntryAddress(slot)) /\ Small(mine.from, f)
  BY <1>3, <1>8
<1> QED
  BY <1>1, <1>4, <1>7, <1>9, <1>10, LoopReads

LEMMA InitFile == MachineInit => FileInv
<1> SUFFICES ASSUME MachineInit PROVE FileInv
  OBVIOUS
<1>1. FatInv
  BY InitFat
<1>2. returned.op = "none" /\ \A t \in Caller : calls[t].op = "none"
  BY DEF MachineInit, FatInit, Nothing, NoCall
<1>3. ReadExact
  BY <1>2 DEF ReadExact
<1> QED
  BY <1>1, <1>2, <1>3 DEF FileInv

LEMMA StepFile ==
    ASSUME FileInv, [Booting \/ Running]_machine_vars
    PROVE  FileInv'
<1>1. UNCHANGED <<directory, table>> /\ FatInv'
  BY StepFat DEF Booting, Running, machine_vars, FileInv
<1>2. CASE UNCHANGED fat_vars
  <2>1. calls' = calls /\ returned' = returned /\ overran' = overran /\ directory' = directory
    BY <1>1, <1>2 DEF fat_vars
  <2>2. ReadExact'
    BY <1>1, <2>1, SameFiles DEF FileInv, ReadExact
  <2>3. ASSUME ~overran', NEW t \in Caller, (calls[t].op = "read")'
        PROVE  IsRead(calls[t])'
    <3>1. IsRead(calls'[t])
      BY <2>1, <2>3 DEF FileInv
    <3> QED
      BY <1>1, <3>1, SameReads
  <2> QED
    BY <1>1, <2>2, <2>3 DEF FileInv
<1>3. CASE FatNext
  <2>1. CASE CreateFatFs
    BY <1>1, <2>1, MountReads
  <2>2. ASSUME NEW t \in Caller, NEW s \in Visible, NEW from \in Positions, NEW n \in Counts,
               StartRead(t, s, from, n)
        PROVE  FileInv'
    BY <1>1, <2>2, StartReads
  <2>3. ASSUME NEW t \in Caller, NEW name \in Names, GetNodeByName(t, name)
        PROVE  FileInv'
    BY <1>1, <2>3, StartScanReads DEF GetNodeByName
  <2>4. ASSUME NEW t \in Caller, NEW after \in Visible \cup {0}, GetNextNode(t, after)
        PROVE  FileInv'
    BY <1>1, <2>4, StartScanReads DEF GetNextNode
  <2>5. ASSUME NEW t \in Caller, AfterEntry(t) \/ AfterFat(t) \/ AfterData(t) \/ AfterScan(t)
        PROVE  FileInv'
    BY <1>1, <2>5, AfterEntryReads, AfterFatReads, AfterDataReads, AfterScanReads
  <2> QED
    BY <1>3, <2>1, <2>2, <2>3, <2>4, <2>5 DEF FatNext
<1> QED
  BY <1>2, <1>3 DEF Booting, Running, machine_vars

(* fat_read_file returns the bytes of its file from the position on, up to  *)
(* what was asked for or to what it takes for the end of the file, whoever  *)
(* else uses the handle of the volume meanwhile.                            *)
THEOREM FilesRead == MachineSpec => []ReadExact
<1>1. FileInv /\ [Booting \/ Running]_machine_vars => FileInv'
  BY StepFile
<1>2. FileInv => ReadExact
  BY DEF FileInv
<1> QED
  BY <1>1, <1>2, InitFile, PTL DEF MachineSpec
=============================================================================

------------------------------ MODULE HeapProofs -----------------------------
(***************************************************************************)
(* Theorems about the two heaps: of the kernel, for every table of zones,  *)
(* every pool and every width of a byte; of a program, for every pool and  *)
(* every size of a header.                                                 *)
(***************************************************************************)
EXTENDS Heaps, WellFoundedInduction, FiniteSetTheorems, TLAPS

-----------------------------------------------------------------------------
(* A set of naturals that is not empty has a least element, and, when it is  *)
(* bounded, a greatest.                                                     *)
LEMMA Least ==
    ASSUME NEW S \in SUBSET Nat, S # {}
    PROVE  \E i \in S : \A j \in S : i <= j
<1> DEFINE less == {ss \in Nat \X Nat : ss[1] < ss[2]}
<1>1. IsWellFoundedOn(less, Nat)
  BY NatLessThanWellFounded DEF OpToRel
<1>2. \E i \in S : \A j \in S : <<j, i>> \notin less
  <2> HIDE DEF less
  <2> QED
    BY <1>1, WFMin
<1>3. PICK i \in S : \A j \in S : <<j, i>> \notin less
  BY <1>2
<1>4. \A j \in S : ~ (j < i)
  BY <1>3
<1> QED
  BY <1>4

(* A bounded set of naturals has its Min and its Max.                       *)
LEMMA Greatest ==
    ASSUME NEW n \in Nat, NEW S \in SUBSET (0..n), S # {}
    PROVE  \E i \in S : \A j \in S : j <= i
<1> DEFINE Bounds == {u \in Nat : \A i \in S : i <= u}
<1>1. n \in Bounds
  OBVIOUS
<1>2. PICK u \in Bounds : \A v \in Bounds : u <= v
  BY <1>1, Least
<1>3. u \in S
  <2> SUFFICES ASSUME u \notin S PROVE FALSE
    OBVIOUS
  <2>1. \A i \in S : i < u
    BY <1>2
  <2>2. u > 0
    <3>1. PICK i \in S : TRUE
      OBVIOUS
    <3> QED
      BY <2>1, <3>1
  <2>3. u - 1 \in Bounds
    BY <2>1, <2>2
  <2> QED
    BY <1>2, <2>3
<1> QED
  BY <1>2, <1>3

LEMMA MaxIs ==
    ASSUME NEW n \in Nat, NEW S \in SUBSET (0..n), S # {}
    PROVE  Max(S) \in S /\ \A i \in S : i <= Max(S)
<1>1. PICK i \in S : \A j \in S : j <= i
  BY Greatest
<1>2. \A j \in S : i >= j
  BY <1>1
<1>3. Max(S) \in S /\ \A j \in S : Max(S) >= j
  BY <1>2 DEF Max
<1> QED
  BY <1>3

LEMMA MinIs ==
    ASSUME NEW S \in SUBSET Nat, S # {}
    PROVE  Min(S) \in S /\ \A i \in S : Min(S) <= i
<1>1. PICK i \in S : \A j \in S : i <= j
  BY Least
<1> QED
  BY <1>1 DEF Min

(* Multiplication by the size of a block.                                   *)
LEMMA Times ==
    ASSUME NEW s \in Nat, NEW i \in Nat, NEW j \in Nat
    PROVE  /\ s * i \in Nat
           /\ s * i = i * s
           /\ i < j => s * i + s <= s * j
<1>1. s * i \in Nat /\ s * i = i * s
  OBVIOUS
<1>2. ASSUME i < j PROVE s * i + s <= s * j
  <2>1. PICK d \in Nat : j = i + 1 + d
    <3>1. j - i - 1 \in Nat /\ j = i + 1 + (j - i - 1)
      BY <1>2
    <3> QED
      BY <3>1
  <2>2. s * j = s * i + s + s * d
    BY <2>1
  <2>3. s * d \in Nat
    OBVIOUS
  <2> QED
    BY <1>1, <2>2, <2>3
<1> QED
  BY <1>1, <1>2

LEMMA Quotient ==
    ASSUME NEW s \in Nat \ {0}, NEW k \in Nat
    PROVE  (s * k) \div s = k
OBVIOUS

LEMMA Division ==
    ASSUME NEW b \in Nat, NEW d \in Nat \ {0}
    PROVE  /\ b \div d \in Nat
           /\ d * (b \div d) \in Nat
           /\ d * (b \div d) <= b
           /\ b < d * (b \div d) + d
OBVIOUS

-----------------------------------------------------------------------------
(* Sums over the first zones *)

Table == [1..Zones -> Nat]

LEMMA SumSteps ==
    ASSUME NEW f \in Table
    PROVE  /\ Sum(f) \in [0..Zones -> Nat]
           /\ Sum(f)[0] = 0
           /\ \A z \in 1..Zones : Sum(f)[z] = Sum(f)[z - 1] + f[z]
<1> DEFINE Is(g, k) == g = [z \in 0..k |-> IF z = 0 THEN 0 ELSE g[z - 1] + f[z]]
           Bad == {k \in 0..Zones : ~ \E g \in [0..k -> Nat] : Is(g, k)}
<1>0. Zones \in Nat \ {0}
  BY HeapAssumption
<1>1. Bad = {}
  <2> SUFFICES ASSUME Bad # {} PROVE FALSE
    OBVIOUS
  <2>1. Bad \in SUBSET Nat
    BY <1>0
  <2>2. PICK k \in Bad : \A j \in Bad : k <= j
    BY <2>1, Least
  <2>3. k \in 0..Zones /\ k \in Nat
    BY <1>0, <2>2
  <2>4. CASE k = 0
    <3> DEFINE g == [z \in 0..0 |-> 0]
    <3>1. g \in [0..k -> Nat] /\ Is(g, k)
      BY <2>4
    <3> QED
      BY <2>2, <3>1
  <2>5. CASE k # 0
    <3>1. k - 1 \in 0..Zones
      BY <1>0, <2>3, <2>5
    <3>a. ~ (k <= k - 1)
      BY <2>3
    <3>b. k - 1 \notin Bad
      <4> HIDE DEF Bad
      <4> QED
        BY <2>2, <3>a
    <3>2. PICK g \in [0..(k - 1) -> Nat] : Is(g, k - 1)
      BY <3>1, <3>b
    <3> DEFINE h == [z \in 0..k |-> IF z = k THEN g[k - 1] + f[k] ELSE g[z]]
    <3>3. k \in 1..Zones /\ f[k] \in Nat /\ g[k - 1] \in Nat
      BY <1>0, <2>3, <2>5 DEF Table
    <3>4. h \in [0..k -> Nat]
      BY <2>3, <3>3
    <3>5. ASSUME NEW z \in 0..k
          PROVE  h[z] = IF z = 0 THEN 0 ELSE h[z - 1] + f[z]
      <4>1. CASE z = 0
        BY <2>3, <2>5, <3>2, <4>1
      <4>2. CASE z = k
        BY <2>3, <2>5, <4>2
      <4>3. CASE z # 0 /\ z # k
        <5>1. z \in 0..(k - 1) /\ z - 1 \in 0..k /\ z - 1 # k
          BY <2>3, <4>3
        <5>2. g[z] = g[z - 1] + f[z]
          BY <3>2, <4>3, <5>1
        <5> QED
          BY <4>3, <5>1, <5>2
      <4> QED
        BY <4>1, <4>2, <4>3
    <3>6. Is(h, k)
      <4>1. h = [z \in 0..k |-> h[z]]
        OBVIOUS
      <4> HIDE DEF h
      <4> QED
        BY <3>5, <4>1
    <3> HIDE DEF h, Is
    <3> QED
      BY <2>2, <3>4, <3>6
  <2> QED
    BY <2>4, <2>5
<1>2. PICK g \in [0..Zones -> Nat] : Is(g, Zones)
  <2>1. Zones \in 0..Zones
    BY <1>0
  <2> QED
    BY <1>1, <2>1
<1>3. Sum(f) = CHOOSE s : Is(s, Zones)
  BY DEF Sum
<1>4. Is(Sum(f), Zones)
  <2> HIDE DEF Is
  <2> QED
    BY <1>2, <1>3
<1>5. /\ DOMAIN Sum(f) = 0..Zones
      /\ \A z \in 0..Zones :
            Sum(f)[z] = IF z = 0 THEN 0 ELSE Sum(f)[z - 1] + f[z]
  <2> DEFINE s == Sum(f)
  <2>1. s = [z \in 0..Zones |-> IF z = 0 THEN 0 ELSE s[z - 1] + f[z]]
    BY <1>4
  <2> HIDE DEF s
  <2>2. /\ DOMAIN s = 0..Zones
        /\ \A z \in 0..Zones : s[z] = IF z = 0 THEN 0 ELSE s[z - 1] + f[z]
    BY <2>1
  <2> QED
    BY <2>2 DEF s
<1>6. \A z \in 0..Zones : Sum(f)[z] = g[z]
  <2> DEFINE Off == {z \in 0..Zones : Sum(f)[z] # g[z]}
  <2> SUFFICES ASSUME Off # {} PROVE FALSE
    OBVIOUS
  <2>1. Off \in SUBSET Nat
    BY <1>0
  <2>2. PICK z \in Off : \A y \in Off : z <= y
    BY <2>1, Least
  <2>3. z \in 0..Zones /\ z # 0
    BY <1>2, <1>5, <2>2
  <2>4. z - 1 \in 0..Zones /\ z - 1 \notin Off
    BY <1>0, <2>2, <2>3
  <2>5. Sum(f)[z] = Sum(f)[z - 1] + f[z] /\ g[z] = g[z - 1] + f[z]
    BY <1>2, <1>5, <2>3
  <2> QED
    BY <2>2, <2>4, <2>5
<1>7. Sum(f) = g
  <2>1. Sum(f) = [z \in 0..Zones |-> Sum(f)[z]]
    BY <1>4 DEF Is
  <2> QED
    BY <1>6, <2>1
<1> QED
  BY <1>0, <1>5, <1>7

LEMMA SumGrows ==
    ASSUME NEW f \in Table, NEW y \in 0..Zones, NEW z \in 0..Zones
    PROVE  /\ y <= z => Sum(f)[y] <= Sum(f)[z]
           /\ y < z => Sum(f)[y] + f[y + 1] <= Sum(f)[z]
<1>0. Zones \in Nat \ {0}
  BY HeapAssumption
<1>1. ASSUME NEW w \in 0..Zones
      PROVE  \A x \in 0..Zones : w <= x => Sum(f)[w] <= Sum(f)[x]
  <2> DEFINE Less == {x \in 0..Zones : w <= x /\ ~ (Sum(f)[w] <= Sum(f)[x])}
  <2> SUFFICES ASSUME Less # {} PROVE FALSE
    OBVIOUS
  <2>1. Less \in SUBSET Nat
    BY <1>0
  <2>2. PICK x \in Less : \A v \in Less : x <= v
    BY <2>1, Least
  <2>3. x \in 0..Zones /\ w <= x /\ ~ (Sum(f)[w] <= Sum(f)[x])
    BY <2>2
  <2>4. Sum(f)[w] \in Nat /\ Sum(f)[x] \in Nat
    BY <2>3, SumSteps
  <2>5. w < x
    BY <2>3, <2>4
  <2>6. x - 1 \in 0..Zones /\ x \in 1..Zones /\ w <= x - 1 /\ x - 1 \notin Less
    BY <1>0, <2>2, <2>3, <2>5
  <2>7. Sum(f)[w] <= Sum(f)[x - 1] /\ Sum(f)[x - 1] \in Nat
    BY <2>6, SumSteps
  <2>8. Sum(f)[x] = Sum(f)[x - 1] + f[x] /\ f[x] \in Nat
    BY <2>6, SumSteps DEF Table
  <2> QED
    BY <2>3, <2>4, <2>7, <2>8
<1>2. ASSUME y < z PROVE Sum(f)[y] + f[y + 1] <= Sum(f)[z]
  <2>1. y + 1 \in 1..Zones /\ y + 1 \in 0..Zones /\ y + 1 <= z /\ (y + 1) - 1 = y
    BY <1>0, <1>2
  <2>2. Sum(f)[y + 1] = Sum(f)[y] + f[y + 1]
    BY <2>1, SumSteps
  <2> QED
    BY <1>1, <2>1, <2>2
<1> QED
  BY <1>1, <1>2

(* More in the first zone is as much more in all.                           *)
LEMMA SumFirst ==
    ASSUME NEW f \in Table, NEW g \in Table, NEW c \in Nat,
           g[1] = f[1] + c, \A z \in 2..Zones : g[z] = f[z]
    PROVE  Sum(g)[Zones] = Sum(f)[Zones] + c
<1>0. Zones \in Nat \ {0}
  BY HeapAssumption
<1> DEFINE Off == {z \in 1..Zones : Sum(g)[z] # Sum(f)[z] + c}
<1>1. Off = {}
  <2> SUFFICES ASSUME Off # {} PROVE FALSE
    OBVIOUS
  <2>1. Off \in SUBSET Nat
    BY <1>0
  <2>2. PICK z \in Off : \A y \in Off : z <= y
    BY <2>1, Least
  <2>3. z \in 1..Zones /\ Sum(g)[z] # Sum(f)[z] + c
    BY <2>2
  <2>4. /\ Sum(g)[z] = Sum(g)[z - 1] + g[z]
        /\ Sum(f)[z] = Sum(f)[z - 1] + f[z]
        /\ Sum(f)[0] = 0 /\ Sum(g)[0] = 0
    BY <2>3, SumSteps
  <2>5. f[z] \in Nat /\ g[z] \in Nat /\ f[1] \in Nat
    BY <1>0, <2>3 DEF Table
  <2>6. z - 1 \in 0..Zones
    BY <1>0, <2>3
  <2>7. Sum(f)[z - 1] \in Nat /\ Sum(g)[z - 1] \in Nat
    BY <2>6, SumSteps
  <2>8. CASE z = 1
    BY <2>3, <2>4, <2>5, <2>8
  <2>9. CASE z # 1
    <3>1. z \in 2..Zones /\ z - 1 \in 1..Zones /\ z - 1 \notin Off
      BY <1>0, <2>2, <2>3, <2>9
    <3>2. Sum(g)[z - 1] = Sum(f)[z - 1] + c /\ g[z] = f[z]
      BY <3>1
    <3> QED
      BY <2>3, <2>4, <2>5, <2>7, <3>2
  <2> QED
    BY <2>8, <2>9
<1>2. Zones \in 1..Zones
  BY <1>0
<1> QED
  BY <1>1, <1>2

-----------------------------------------------------------------------------
(* malloc_init: the blocks fit into the pool. *)

LEMMA TakenType ==
    ASSUME NEW count \in Table
    PROVE  /\ [z \in 1..Zones |-> count[z] * Size[z]] \in Table
           /\ Bytes(count) \in Nat
           /\ Bytes(count) = Taken(count)[Zones]
<1> DEFINE f == [z \in 1..Zones |-> count[z] * Size[z]]
<1>1. ASSUME NEW z \in 1..Zones PROVE count[z] * Size[z] \in Nat
  <2>1. count[z] \in Nat /\ Size[z] \in Nat
    BY HeapAssumption DEF Table
  <2> QED
    BY <2>1, Times
<1>2. f \in Table
  BY <1>1 DEF Table
<1>3. Zones \in 0..Zones
  BY HeapAssumption
<1> HIDE DEF f
<1>4. Sum(f)[Zones] \in Nat
  BY <1>2, <1>3, SumSteps
<1> QED
  BY <1>2, <1>4 DEF f, Bytes, Taken

LEMMA CountRight ==
    /\ Count \in Table
    /\ Bytes(Count) <= Pool
<1>0. /\ Zones \in Nat \ {0} /\ Pool \in Nat /\ Bytes(Initial) <= Pool
      /\ Initial \in Table /\ Expand \in Table /\ Size \in [1..Zones -> Nat \ {0}]
  BY HeapAssumption DEF Table
<1>1. ASSUME NEW n \in Nat PROVE Grown(n) \in Table
  <2>1. ASSUME NEW z \in 1..Zones PROVE Initial[z] + n * Expand[z] \in Nat
    <3>1. Initial[z] \in Nat /\ Expand[z] \in Nat
      BY <1>0 DEF Table
    <3>2. n * Expand[z] \in Nat
      BY <3>1, Times
    <3> QED
      BY <3>1, <3>2
  <2> QED
    BY <2>1 DEF Grown, Table
<1>2. Grown(0) = Initial
  <2>1. ASSUME NEW z \in 1..Zones PROVE Initial[z] + 0 * Expand[z] = Initial[z]
    <3>1. Initial[z] \in Nat /\ Expand[z] \in Nat
      BY <1>0 DEF Table
    <3> QED
      BY <3>1
  <2> QED
    BY <1>0, <2>1 DEF Grown, Table
<1>3. Rounds \in 0..Pool /\ Bytes(Grown(Rounds)) <= Pool
  <2> DEFINE S == {n \in 0..Pool : Bytes(Grown(n)) <= Pool}
  <2>1. 0 \in S
    BY <1>0, <1>2
  <2>2. Max(S) \in S
    BY <1>0, <2>1, MaxIs
  <2> QED
    BY <2>2 DEF Rounds
<1> DEFINE g == Grown(Rounds)
           more == (Pool - Bytes(g)) \div Size[1]
<1>4. g \in Table
  BY <1>1, <1>3
<1>5. Bytes(g) \in Nat /\ Bytes(g) <= Pool
  BY <1>3, <1>4, TakenType
<1>6. Count = [g EXCEPT ![1] = @ + more]
  BY DEF Count
<1>7. Size[1] \in Nat \ {0} /\ Pool - Bytes(g) \in Nat /\ 1 \in 1..Zones
  BY <1>0, <1>5
<1>8. more \in Nat /\ Size[1] * more \in Nat /\ Size[1] * more <= Pool - Bytes(g)
  BY <1>7, Division
<1> HIDE DEF g, more
<1>9. Count \in Table /\ Count[1] = g[1] + more /\ g[1] \in Nat
  BY <1>4, <1>6, <1>7, <1>8 DEF Table
<1>10. \A z \in 2..Zones : Count[z] = g[z]
  BY <1>0, <1>4, <1>6 DEF Table
<1>11. Bytes(Count) = Bytes(g) + Size[1] * more
  <2> DEFINE a == [z \in 1..Zones |-> g[z] * Size[z]]
             b == [z \in 1..Zones |-> Count[z] * Size[z]]
             c == Size[1] * more
  <2>1. a \in Table /\ b \in Table /\ c \in Nat
    BY <1>4, <1>8, <1>9, TakenType
  <2>2. b[1] = a[1] + c
    BY <1>7, <1>8, <1>9
  <2>3. \A z \in 2..Zones : b[z] = a[z]
    BY <1>0, <1>10
  <2> HIDE DEF a, b, c
  <2>4. Sum(b)[Zones] = Sum(a)[Zones] + c
    BY <2>1, <2>2, <2>3, SumFirst
  <2> QED
    BY <2>4 DEF Bytes, Taken, a, b, c
<1> QED
  BY <1>0, <1>5, <1>8, <1>9, <1>11

-----------------------------------------------------------------------------
(* Blocks and their addresses *)

LEMMA ZonesRight ==
    /\ Zones \in Nat \ {0}
    /\ FirstBlock \in [1..(Zones + 1) -> Nat]
    /\ FirstAddress \in [1..(Zones + 1) -> Nat]
    /\ FirstBlock[1] = 0 /\ FirstAddress[1] = 0
    /\ total_blocks = FirstBlock[Zones + 1]
    /\ total_blocks \in Nat
    /\ FirstAddress[Zones + 1] <= Pool
    /\ \A z \in 1..Zones :
        /\ Size[z] \in Nat \ {0} /\ Count[z] \in Nat
        /\ FirstBlock[z + 1] = FirstBlock[z] + Count[z]
        /\ FirstAddress[z + 1] = FirstAddress[z] + Count[z] * Size[z]
<1> DEFINE bytes == [z \in 1..Zones |-> Count[z] * Size[z]]
<1>0. Zones \in Nat \ {0} /\ Size \in [1..Zones -> Nat \ {0}] /\ Pool \in Nat
  BY HeapAssumption
<1>1. Count \in Table /\ Bytes(Count) <= Pool
  BY CountRight
<1>2. bytes \in Table /\ Bytes(Count) = Sum(bytes)[Zones]
  BY <1>1, TakenType DEF Taken
<1>3. FirstAddress = [z \in 1..(Zones + 1) |-> Sum(bytes)[z - 1]]
  BY DEF FirstAddress, Taken
<1>a. \A z \in 1..Zones : bytes[z] = Count[z] * Size[z]
  OBVIOUS
<1> HIDE DEF bytes
<1>4. ASSUME NEW f \in Table, NEW F, F = [z \in 1..(Zones + 1) |-> Sum(f)[z - 1]]
      PROVE  /\ F \in [1..(Zones + 1) -> Nat] /\ F[1] = 0
             /\ F[Zones + 1] = Sum(f)[Zones]
             /\ \A z \in 1..Zones : F[z + 1] = F[z] + f[z]
  <2>1. ASSUME NEW z \in 1..(Zones + 1) PROVE z - 1 \in 0..Zones
    BY <1>0
  <2>2. F \in [1..(Zones + 1) -> Nat]
    BY <1>4, <2>1, SumSteps
  <2>3. 1 \in 1..(Zones + 1) /\ 1 - 1 = 0
    BY <1>0
  <2>4. F[1] = Sum(f)[0]
    BY <1>4, <2>3
  <2>5. Zones + 1 \in 1..(Zones + 1) /\ (Zones + 1) - 1 = Zones
    BY <1>0
  <2>6. F[Zones + 1] = Sum(f)[Zones]
    BY <1>4, <2>5
  <2>7. ASSUME NEW z \in 1..Zones PROVE F[z + 1] = F[z] + f[z]
    <3>1. z \in 1..(Zones + 1) /\ z + 1 \in 1..(Zones + 1) /\ (z + 1) - 1 = z
      BY <1>0
    <3>2. F[z] = Sum(f)[z - 1] /\ F[z + 1] = Sum(f)[z]
      BY <1>4, <3>1
    <3> QED
      BY <3>2, SumSteps
  <2> QED
    BY <2>2, <2>4, <2>6, <2>7, SumSteps
<1>5. /\ FirstBlock \in [1..(Zones + 1) -> Nat] /\ FirstBlock[1] = 0
      /\ \A z \in 1..Zones : FirstBlock[z + 1] = FirstBlock[z] + Count[z]
  BY <1>1, <1>4 DEF FirstBlock
<1>6. /\ FirstAddress \in [1..(Zones + 1) -> Nat] /\ FirstAddress[1] = 0
      /\ FirstAddress[Zones + 1] = Sum(bytes)[Zones]
      /\ \A z \in 1..Zones : FirstAddress[z + 1] = FirstAddress[z] + bytes[z]
  BY <1>2, <1>3, <1>4
<1>7. Zones + 1 \in 1..(Zones + 1)
  BY <1>0
<1>8. total_blocks = FirstBlock[Zones + 1] /\ total_blocks \in Nat
  BY <1>5, <1>7 DEF total_blocks
<1>9. FirstAddress[Zones + 1] <= Pool
  BY <1>1, <1>2, <1>6
<1>10. \A z \in 1..Zones : Size[z] \in Nat \ {0} /\ Count[z] \in Nat
  BY <1>0, <1>1 DEF Table
<1> QED
  BY <1>0, <1>5, <1>6, <1>8, <1>9, <1>10, <1>a

LEMMA ZonesTyped ==
    /\ Zones \in Nat \ {0} /\ Pool \in Nat /\ total_blocks \in Nat
    /\ \A z \in 1..Zones : Size[z] \in Nat /\ Size[z] > 0
    /\ \A z \in 1..(Zones + 1) : FirstBlock[z] \in Nat /\ FirstAddress[z] \in Nat
<1>1. Pool \in Nat
  BY HeapAssumption
<1>2. Zones \in Nat \ {0} /\ total_blocks \in Nat
  BY ZonesRight
<1>3. \A z \in 1..Zones : Size[z] \in Nat \ {0}
  BY ZonesRight
<1>4. \A z \in 1..(Zones + 1) : FirstBlock[z] \in Nat /\ FirstAddress[z] \in Nat
  BY ZonesRight
<1>5. \A z \in 1..Zones : Size[z] \in Nat /\ Size[z] > 0
  BY <1>3
<1> QED
  BY <1>1, <1>2, <1>4, <1>5

(* Boundaries ascend.                                                       *)
Ascending(F) ==
    /\ F \in [1..(Zones + 1) -> Nat]
    /\ F[1] = 0
    /\ \A z \in 1..Zones : F[z] <= F[z + 1]

LEMMA BoundariesAscend == Ascending(FirstBlock) /\ Ascending(FirstAddress)
<1>1. ASSUME NEW z \in 1..Zones
      PROVE  FirstBlock[z] <= FirstBlock[z + 1] /\ FirstAddress[z] <= FirstAddress[z + 1]
  <2>1. Count[z] \in Nat /\ Size[z] \in Nat
    BY ZonesRight
  <2>2. Count[z] * Size[z] \in Nat
    BY <2>1, Times
  <2>3. z \in 1..(Zones + 1)
    BY ZonesRight
  <2>4. FirstBlock[z] \in Nat /\ FirstAddress[z] \in Nat
    BY <2>3, ZonesRight
  <2>5. /\ FirstBlock[z + 1] = FirstBlock[z] + Count[z]
        /\ FirstAddress[z + 1] = FirstAddress[z] + Count[z] * Size[z]
    BY ZonesRight
  <2> QED
    BY <2>1, <2>2, <2>4, <2>5
<1> QED
  BY <1>1, ZonesRight DEF Ascending

LEMMA AscendsFar ==
    ASSUME NEW F, Ascending(F), NEW y \in 1..(Zones + 1), NEW z \in 1..(Zones + 1), y <= z
    PROVE  F[y] <= F[z]
<1> DEFINE Less == {x \in 1..(Zones + 1) : y <= x /\ ~ (F[y] <= F[x])}
<1> SUFFICES ASSUME Less # {} PROVE FALSE
  OBVIOUS
<1>0. Zones \in Nat \ {0}
  BY HeapAssumption
<1>1. Less \in SUBSET Nat
  BY <1>0
<1>2. PICK x \in Less : \A v \in Less : x <= v
  BY <1>1, Least
<1>3. x \in 1..(Zones + 1) /\ y <= x /\ ~ (F[y] <= F[x]) /\ F[y] \in Nat /\ F[x] \in Nat
  BY <1>2 DEF Ascending
<1>4. y < x
  BY <1>0, <1>3
<1>5. /\ x - 1 \in 1..Zones /\ x - 1 \in 1..(Zones + 1) /\ y <= x - 1
      /\ ~ (x <= x - 1) /\ (x - 1) + 1 = x
  BY <1>0, <1>3, <1>4
<1>6. x - 1 \notin Less
  <2> HIDE DEF Less
  <2> QED
    BY <1>2, <1>5
<1>7. F[y] <= F[x - 1] /\ F[x - 1] \in Nat /\ F[x - 1] <= F[x]
  BY <1>5, <1>6 DEF Ascending
<1> QED
  BY <1>3, <1>7

(* Between the boundaries there is one zone for each number.                *)
LEMMA Located ==
    ASSUME NEW F, Ascending(F), NEW n \in Nat, n < F[Zones + 1]
    PROVE  /\ \E z \in 1..Zones : F[z] <= n /\ n < F[z + 1]
           /\ \A y, z \in 1..Zones : /\ F[y] <= n /\ n < F[y + 1]
                                     /\ F[z] <= n /\ n < F[z + 1]
                                     => y = z
<1>0. Zones \in Nat \ {0}
  BY HeapAssumption
<1>1. \E z \in 1..Zones : F[z] <= n /\ n < F[z + 1]
  <2> DEFINE Over == {z \in 1..(Zones + 1) : n < F[z]}
  <2>1. Over \in SUBSET Nat /\ Zones + 1 \in Over
    BY <1>0
  <2>2. PICK x \in Over : \A v \in Over : x <= v
    BY <2>1, Least
  <2>3. x \in 1..(Zones + 1) /\ n < F[x] /\ F[x] \in Nat
    BY <2>2 DEF Ascending
  <2>4. x # 1
    BY <2>3 DEF Ascending
  <2>5. x - 1 \in 1..Zones /\ x - 1 \in 1..(Zones + 1) /\ ~ (x <= x - 1) /\ (x - 1) + 1 = x
    BY <1>0, <2>3, <2>4
  <2>6. x - 1 \notin Over
    <3> HIDE DEF Over
    <3> QED
      BY <2>2, <2>5
  <2>7. F[x - 1] <= n
    BY <2>5, <2>6 DEF Ascending
  <2> QED
    BY <2>3, <2>5, <2>7
<1>2. ASSUME NEW y \in 1..Zones, NEW z \in 1..Zones,
             F[y] <= n, n < F[y + 1], F[z] <= n, n < F[z + 1], y < z
      PROVE  FALSE
  <2>1. y + 1 \in 1..(Zones + 1) /\ z \in 1..(Zones + 1) /\ y + 1 <= z
    BY <1>0, <1>2
  <2>2. F[y + 1] <= F[z] /\ F[y + 1] \in Nat /\ F[z] \in Nat
    BY <2>1, AscendsFar DEF Ascending
  <2> QED
    BY <1>2, <2>2
<1>3. \A y, z \in 1..Zones : y < z \/ z < y \/ y = z
  OBVIOUS
<1> QED
  BY <1>1, <1>2, <1>3

BlockIds == 0..(total_blocks - 1)

LEMMA ZoneOfRight ==
    ASSUME NEW b \in BlockIds
    PROVE  /\ ZoneOf(b) \in 1..Zones
           /\ FirstBlock[ZoneOf(b)] <= b /\ b < FirstBlock[ZoneOf(b) + 1]
<1>1. b \in Nat /\ b < FirstBlock[Zones + 1]
  BY ZonesRight DEF BlockIds
<1>2. \E z \in 1..Zones : FirstBlock[z] <= b /\ b < FirstBlock[z + 1]
  BY <1>1, BoundariesAscend, Located
<1> QED
  BY <1>2 DEF ZoneOf

LEMMA AddressRight ==
    ASSUME NEW b \in BlockIds
    PROVE  /\ Address(b) \in 0..(Pool - 1)
           /\ FirstAddress[ZoneOf(b)] <= Address(b)
           /\ Address(b) + Size[ZoneOf(b)] <= FirstAddress[ZoneOf(b) + 1]
           /\ Address(b) + Size[ZoneOf(b)] <= Pool
           /\ Block(Address(b)) = b
<1> DEFINE z == ZoneOf(b)
           k == b - FirstBlock[z]
           a == Address(b)
<1>0. Pool \in Nat
  BY HeapAssumption
<1>1. z \in 1..Zones /\ FirstBlock[z] <= b /\ b < FirstBlock[z + 1]
  BY ZoneOfRight
<1>a. z \in 1..(Zones + 1) /\ z + 1 \in 1..(Zones + 1) /\ Zones + 1 \in 1..(Zones + 1)
      /\ z + 1 <= Zones + 1
  BY <1>1, ZonesRight
<1>b. b \in Nat
  BY ZonesRight DEF BlockIds
<1>2. /\ Size[z] \in Nat \ {0} /\ Count[z] \in Nat
      /\ FirstBlock[z] \in Nat /\ FirstAddress[z] \in Nat /\ FirstAddress[z + 1] \in Nat
      /\ FirstBlock[z + 1] = FirstBlock[z] + Count[z]
      /\ FirstAddress[z + 1] = FirstAddress[z] + Count[z] * Size[z]
  BY <1>1, <1>a, ZonesRight
<1>3. a = FirstAddress[z] + Size[z] * k
  BY DEF Address
<1>c. FirstAddress[Zones + 1] \in Nat /\ FirstAddress[Zones + 1] <= Pool
  BY <1>a, ZonesRight
<1>d. FirstAddress[z + 1] <= FirstAddress[Zones + 1]
  BY <1>a, BoundariesAscend, AscendsFar
<1>4. k \in Nat /\ k < Count[z]
  BY <1>1, <1>2, <1>b
<1> HIDE DEF a, k, z
<1>5. Size[z] * k \in Nat /\ Size[z] * k + Size[z] <= Count[z] * Size[z]
      /\ Count[z] * Size[z] \in Nat
  BY <1>2, <1>4, Times
<1>6. a \in Nat /\ FirstAddress[z] <= a /\ a + Size[z] <= FirstAddress[z + 1]
  BY <1>2, <1>3, <1>5
<1>7. a + Size[z] <= Pool
  BY <1>0, <1>2, <1>6, <1>c, <1>d
<1>8. ZoneAt(a) = z
  <2>1. a < FirstAddress[z + 1] /\ a < FirstAddress[Zones + 1]
    BY <1>2, <1>6, <1>c, <1>d
  <2>2. \A y \in 1..Zones : FirstAddress[y] <= a /\ a < FirstAddress[y + 1] => y = z
    BY <1>1, <1>6, <2>1, BoundariesAscend, Located
  <2> QED
    BY <1>1, <1>6, <2>1, <2>2 DEF ZoneAt
<1>9. Block(a) = b
  <2>1. a - FirstAddress[z] = Size[z] * k
    BY <1>2, <1>3, <1>5
  <2>2. (Size[z] * k) \div Size[z] = k
    BY <1>2, <1>4, Quotient
  <2>3. Block(a) = FirstBlock[z] + k
    BY <1>8, <2>1, <2>2 DEF Block
  <2> QED
    BY <1>2, <1>b, <2>3 DEF k
<1>10. a \in 0..(Pool - 1)
  BY <1>1, <1>6, <1>7, ZonesTyped
<1> QED
  BY <1>6, <1>7, <1>9, <1>10 DEF a, z

LEMMA Apart ==
    ASSUME NEW b \in BlockIds, NEW c \in BlockIds, b < c
    PROVE  Address(b) + Size[ZoneOf(b)] <= Address(c)
<1> DEFINE y == ZoneOf(b)
           z == ZoneOf(c)
<1>1. /\ y \in 1..Zones /\ FirstBlock[y] <= b /\ b < FirstBlock[y + 1]
      /\ z \in 1..Zones /\ FirstBlock[z] <= c /\ c < FirstBlock[z + 1]
  BY ZoneOfRight
<1>2. /\ y \in 1..(Zones + 1) /\ y + 1 \in 1..(Zones + 1)
      /\ z \in 1..(Zones + 1) /\ z + 1 \in 1..(Zones + 1)
  <2> HIDE DEF y, z
  <2> QED
    BY <1>1, ZonesTyped
<1>3. /\ b \in Nat /\ c \in Nat /\ Address(b) \in Nat /\ Address(c) \in Nat
      /\ Size[y] \in Nat /\ FirstBlock[y] \in Nat /\ FirstBlock[y + 1] \in Nat
      /\ FirstBlock[z] \in Nat /\ FirstBlock[z + 1] \in Nat
      /\ FirstAddress[y] \in Nat /\ FirstAddress[z] \in Nat /\ FirstAddress[y + 1] \in Nat
  <2>1. Address(b) \in Nat /\ Address(c) \in Nat
    BY AddressRight
  <2> QED
    BY <1>1, <1>2, <2>1, ZonesTyped DEF BlockIds
<1>4. CASE y = z
  <2> DEFINE i == b - FirstBlock[y]
             j == c - FirstBlock[y]
  <2>1. Address(b) = FirstAddress[y] + Size[y] * i /\ Address(c) = FirstAddress[y] + Size[y] * j
    BY <1>4 DEF Address
  <2>2. i \in Nat /\ j \in Nat /\ i < j
    BY <1>1, <1>3, <1>4
  <2> HIDE DEF i, j, y, z
  <2>3. Size[y] * i + Size[y] <= Size[y] * j /\ Size[y] * i \in Nat /\ Size[y] * j \in Nat
    BY <1>3, <2>2, Times
  <2> QED
    BY <1>3, <2>1, <2>3 DEF y
<1>5. CASE y < z
  <2>1. y + 1 <= z
    BY <1>1, <1>5
  <2>2. FirstAddress[y + 1] <= FirstAddress[z]
    BY <1>2, <2>1, BoundariesAscend, AscendsFar
  <2>3. Address(b) + Size[y] <= FirstAddress[y + 1] /\ FirstAddress[z] <= Address(c)
    BY AddressRight
  <2> QED
    BY <1>3, <2>2, <2>3
<1>6. CASE z < y
  <2>1. z + 1 <= y
    BY <1>1, <1>6
  <2>2. FirstBlock[z + 1] <= FirstBlock[y]
    BY <1>2, <2>1, BoundariesAscend, AscendsFar
  <2> QED
    BY <1>1, <1>3, <2>2
<1> QED
  BY <1>1, <1>4, <1>5, <1>6

(* The blocks from the first of ZoneFor(n) on are large enough.             *)
LEMMA LargeEnough ==
    ASSUME NEW n \in 1..Size[Zones]
    PROVE  /\ FirstBlock[ZoneFor(n)] \in 0..total_blocks
           /\ \A b \in BlockIds : FirstBlock[ZoneFor(n)] <= b => n <= Size[ZoneOf(b)]
<1> DEFINE z == ZoneFor(n)
           Fit == {y \in 1..Zones : Size[y] >= n}
<1>0. Zones \in Nat \ {0} /\ Zones \in 1..Zones /\ n \in Nat
      /\ \A y \in 1..Zones : Size[y] \in Nat
  BY ZonesRight
<1>1. z \in 1..Zones /\ n <= Size[z]
  <2>1. Fit \in SUBSET Nat /\ Zones \in Fit
    BY <1>0
  <2>2. PICK x \in Fit : \A y \in Fit : x <= y
    BY <2>1, Least
  <2>3. \A y \in 1..(x - 1) : Size[y] < n
    <3> TAKE y \in 1..(x - 1)
    <3>1. y \in 1..Zones /\ ~ (x <= y)
      BY <1>0, <2>2
    <3>2. y \notin Fit
      <4> HIDE DEF Fit
      <4> QED
        BY <2>2, <3>1
    <3> QED
      BY <1>0, <3>1, <3>2
  <2>4. \E x1 \in 1..Zones : Size[x1] >= n /\ \A y \in 1..(x1 - 1) : Size[y] < n
    BY <2>2, <2>3
  <2>5. z \in 1..Zones /\ Size[z] >= n
    BY <2>4 DEF ZoneFor
  <2> QED
    BY <1>0, <2>5
<1> HIDE DEF z
<1>2. z \in 1..(Zones + 1) /\ Zones + 1 \in 1..(Zones + 1) /\ z <= Zones + 1
  BY <1>0, <1>1
<1>3. FirstBlock[z] \in Nat /\ FirstBlock[z] <= total_blocks /\ total_blocks \in Nat
  BY <1>2, BoundariesAscend, AscendsFar, ZonesRight
<1>4. ASSUME NEW b \in BlockIds, FirstBlock[z] <= b PROVE n <= Size[ZoneOf(b)]
  <2> DEFINE y == ZoneOf(b)
  <2>1. y \in 1..Zones /\ b < FirstBlock[y + 1]
    BY ZoneOfRight
  <2> HIDE DEF y
  <2>2. ~ (y < z)
    <3> SUFFICES ASSUME y < z PROVE FALSE
      OBVIOUS
    <3>1. y + 1 \in 1..(Zones + 1) /\ y + 1 <= z
      BY <1>0, <1>1, <2>1
    <3>2. FirstBlock[y + 1] <= FirstBlock[z] /\ FirstBlock[y + 1] \in Nat
      BY <1>2, <3>1, BoundariesAscend, AscendsFar, ZonesRight
    <3>3. b \in Nat
      BY ZonesRight DEF BlockIds
    <3> QED
      BY <1>3, <1>4, <2>1, <3>2, <3>3
  <2>3. y = z \/ z < y
    BY <1>1, <2>1, <2>2
  <2>4. Size[z] <= Size[y]
    <3>1. z < y => Size[z] < Size[y]
      BY <1>1, <2>1, HeapAssumption
    <3> QED
      BY <1>0, <1>1, <2>1, <2>3, <3>1
  <2>5. Size[z] \in Nat /\ Size[y] \in Nat
    BY <1>0, <1>1, <2>1
  <2> QED
    BY <1>0, <1>1, <2>4, <2>5 DEF y
<1> QED
  BY <1>3, <1>4 DEF z

(* The byte of a block, and the first block of the next.                    *)
LEMMA ByteRight ==
    ASSUME NEW b \in Nat
    PROVE  /\ b \in ByteOf(b)
           /\ ByteOf(b) \in SUBSET Nat
           /\ ByteBits * ((b + ByteBits) \div ByteBits) \in (b + 1)..(b + ByteBits)
           /\ \A c \in Nat : /\ b <= c
                            /\ c < ByteBits * ((b + ByteBits) \div ByteBits)
                            => c \in ByteOf(b)
<1> DEFINE p == b \div ByteBits
           q == (b + ByteBits) \div ByteBits
<1>0. ByteBits \in Nat \ {0} /\ b + ByteBits \in Nat
  BY HeapAssumption
<1>1. /\ p \in Nat /\ ByteBits * p \in Nat
      /\ ByteBits * p <= b /\ b < ByteBits * p + ByteBits
  BY <1>0, Division
<1>2. /\ q \in Nat /\ ByteBits * q \in Nat
      /\ ByteBits * q <= b + ByteBits /\ b + ByteBits < ByteBits * q + ByteBits
  BY <1>0, Division
<1>3. ByteOf(b) = (ByteBits * p)..(ByteBits * p + ByteBits - 1)
  BY DEF ByteOf
<1> HIDE DEF p, q
<1>4. ~ (q < p + 1)
  <2> SUFFICES ASSUME q < p + 1 PROVE FALSE
    OBVIOUS
  <2>1. q = p \/ q < p
    BY <1>1, <1>2
  <2>2. q < p => ByteBits * q + ByteBits <= ByteBits * p
    BY <1>0, <1>1, <1>2, Times
  <2> QED
    BY <1>0, <1>1, <1>2, <2>1, <2>2
<1>5. ByteBits * q = ByteBits * p + ByteBits
  <2>1. p < q
    BY <1>1, <1>2, <1>4
  <2>2. ByteBits * p + ByteBits <= ByteBits * q
    BY <1>0, <1>1, <1>2, <2>1, Times
  <2>3. ASSUME p + 1 < q PROVE FALSE
    <3>1. ByteBits * (p + 1) + ByteBits <= ByteBits * q
      BY <1>0, <1>1, <1>2, <2>3, Times
    <3>2. ByteBits * (p + 1) = ByteBits * p + ByteBits
      BY <1>0, <1>1
    <3> QED
      BY <1>0, <1>1, <1>2, <3>1, <3>2
  <2>4. q = p + 1
    BY <1>1, <1>2, <2>1, <2>3
  <2> QED
    BY <1>0, <1>1, <2>4
<1>6. ByteBits * q \in (b + 1)..(b + ByteBits)
  BY <1>0, <1>1, <1>2, <1>5
<1>7. \A c \in Nat : b <= c /\ c < ByteBits * q => c \in ByteOf(b)
  BY <1>0, <1>1, <1>3, <1>5
<1>8. b \in ByteOf(b) /\ ByteOf(b) \in SUBSET Nat
  BY <1>0, <1>1, <1>3
<1> QED
  BY <1>6, <1>7, <1>8 DEF q

-----------------------------------------------------------------------------
(* The inductive invariant *)

(* Each block that is handed out is large enough, and one task's.           *)
HeldInv ==
    /\ \A h \in held : /\ Block(h.address) \in BlockIds
                       /\ h.address = Address(Block(h.address))
                       /\ h.size <= Size[ZoneOf(Block(h.address))]
    /\ \A g, h \in held : Block(g.address) = Block(h.address) => g = h
    /\ old # NoBlock => old.by = "task"

(* malloc is at a block of the zone it chose or behind, and has passed by   *)
(* no block that has been free all along.  What it has chosen stays free.   *)
SearchInv ==
    /\ call \in {"bytes", "blocks", "set", "write"} =>
            /\ size \in 1..Size[Zones]
            /\ FirstBlock[ZoneFor(size)] <= current_block
    /\ call \in {"bytes", "blocks"} =>
            /\ ~panic
            /\ \A b \in free_all_along : b \notin bitmap /\ current_block <= b
    /\ call \in {"set", "write"} /\ ~panic =>
            current_block \in BlockIds /\ current_block \notin bitmap
    /\ call = "free_write" => current_block \in BlockIds

(* The blocks that are handed out are marked, and will be when the byte has *)
(* been written back; before a race, nothing else will.                     *)
Handed == {Block(h.address) : h \in held}

MarkInv ==
    /\ Handed \subseteq bitmap
    /\ call \in {"write", "free_write"} => /\ Handed \subseteq Written
                                           /\ byte \subseteq ByteOf(current_block)
    /\ call = "write" => current_block \in byte
    /\ ~raced =>
            /\ call # "free_write" => bitmap = Handed
            /\ call = "write" => Written = Handed \cup {current_block}
            /\ call = "free_write" => Written = Handed

IInv == TypeOK /\ HeldInv /\ SearchInv /\ MarkInv /\ OutOfMemHonest

LEMMA BlockIdsTyped == BlockIds \in SUBSET Nat /\ BlockIds = 0..(total_blocks - 1)
BY ZonesTyped DEF BlockIds

LEMMA SizesTyped == Zones \in 1..Zones /\ Size[Zones] \in Nat /\ Size[Zones] > 0
BY ZonesTyped

LEMMA InitIInv == Init => IInv
<1> SUFFICES ASSUME Init PROVE IInv
  OBVIOUS
<1>1. TypeOK
  <2>1. 0 \in 0..Size[Zones]
    BY SizesTyped
  <2>2. 0 \in 0..(total_blocks + ByteBits)
    BY ZonesTyped, HeapAssumption
  <2> QED
    BY <2>1, <2>2 DEF Init, TypeOK
<1>2. HeldInv
  BY DEF Init, HeldInv
<1>3. SearchInv /\ OutOfMemHonest
  BY DEF Init, SearchInv, OutOfMemHonest
<1>4. MarkInv
  BY DEF Init, MarkInv, Handed
<1> QED
  BY <1>1, <1>2, <1>3, <1>4 DEF IInv

(* What is left when a block has been freed.                                *)
LEMMA HandedWithout ==
    ASSUME HeldInv, NEW h \in held
    PROVE  {Block(g.address) : g \in held \ {h}} = Handed \ {Block(h.address)}
BY DEF HeldInv, Handed

LEMMA TypeStep == IInv /\ [Next]_vars => TypeOK'
<1> SUFFICES ASSUME IInv, [Next]_vars PROVE TypeOK'
  OBVIOUS
<1>0. TypeOK /\ HeldInv /\ SearchInv /\ MarkInv
  BY DEF IInv
<1>a. ByteBits \in Nat \ {0} /\ total_blocks \in Nat
  BY HeapAssumption, ZonesTyped
<1>b. ASSUME NEW n \in 1..Size[Zones], Search(n), old' \in held' \cup {NoBlock} PROVE TypeOK'
  <2>1. FirstBlock[ZoneFor(n)] \in 0..total_blocks
    BY LargeEnough
  <2>2. FirstBlock[ZoneFor(n)] \in 0..(total_blocks + ByteBits)
    BY <1>a, <2>1
  <2>3. n \in 0..Size[Zones]
    BY SizesTyped
  <2>4. {b \in FirstBlock[ZoneFor(n)]..(total_blocks - 1) : b \notin bitmap}
            \subseteq 0..(total_blocks - 1)
    BY <1>a, <2>1
  <2> QED
    BY <1>0, <1>b, <2>2, <2>3, <2>4 DEF Search, TypeOK
<1>1. ASSUME NEW n \in 1..Size[Zones], Malloc(n) PROVE TypeOK'
  BY <1>0, <1>1, <1>b DEF Malloc, Search, TypeOK
<1>2. ASSUME NEW n \in 1..Size[Zones], NEW h \in held, Realloc(h, n) PROVE TypeOK'
  BY <1>2, <1>b DEF Realloc, Search
<1>3. CASE SkipBytes
  <2>1. current_block \in Nat
    BY <1>0, <1>a DEF TypeOK
  <2>2. current_block' \in 0..(total_blocks + ByteBits)
    <3>1. CASE current_block' = current_block
      BY <1>0, <3>1 DEF TypeOK
    <3>2. CASE current_block' # current_block
      <4>1. /\ current_block' = ByteBits * ((current_block + ByteBits) \div ByteBits)
            /\ current_block < total_blocks
        BY <1>3, <3>2 DEF SkipBytes
      <4>2. current_block' \in (current_block + 1)..(current_block + ByteBits)
        BY <2>1, <4>1, ByteRight
      <4> QED
        BY <1>a, <2>1, <4>1, <4>2
    <3> QED
      BY <3>1, <3>2
  <2>3. call' \in {"bytes", "blocks"}
    BY <1>3 DEF SkipBytes
  <2> QED
    BY <1>0, <1>3, <2>2, <2>3 DEF SkipBytes, TypeOK
<1>4. CASE SkipBlocks
  <2>1. current_block' \in 0..(total_blocks + ByteBits)
    BY <1>0, <1>4, <1>a DEF SkipBlocks, TypeOK
  <2>2. call' \in {"blocks", "set"}
    BY <1>4 DEF SkipBlocks
  <2>3. panic' \in BOOLEAN
    <3>1. panic \in BOOLEAN
      BY <1>0 DEF TypeOK
    <3>2. (current_block >= total_blocks) \in BOOLEAN
      OBVIOUS
    <3>3. panic' = panic \/ panic' = (current_block >= total_blocks)
      BY <1>4, Zenon DEF SkipBlocks
    <3> QED
      BY <3>1, <3>2, <3>3
  <2> QED
    BY <1>0, <1>4, <2>1, <2>2, <2>3 DEF SkipBlocks, TypeOK
<1>5. CASE ReadByte
  <2>1. current_block \in 0..(total_blocks - 1)
    BY <1>0, <1>5, BlockIdsTyped DEF ReadByte, SearchInv
  <2> QED
    BY <1>0, <1>5, <2>1 DEF ReadByte, TypeOK
<1>c. Written \subseteq 0..(total_blocks - 1)
  BY <1>0 DEF TypeOK, Written
<1>d. 0 \in 0..Size[Zones] /\ 0 \in 0..(total_blocks + ByteBits)
  BY <1>a, SizesTyped
<1>6. CASE WriteByte
  <2>1. current_block \in BlockIds /\ size \in 1..Size[Zones]
    BY <1>0, <1>6 DEF WriteByte, SearchInv
  <2>2. Address(current_block) \in 0..(Pool - 1)
    BY <2>1, AddressRight
  <2>3. held' \subseteq [address : 0..(Pool - 1), size : 1..Size[Zones], by : {"task", "irq"}]
    BY <1>0, <1>6, <2>1, <2>2 DEF WriteByte, TypeOK
  <2>4. old' \in held' \cup {NoBlock}
    BY <1>0, <1>6 DEF WriteByte, TypeOK
  <2> QED
    BY <1>0, <1>6, <1>c, <1>d, <2>3, <2>4 DEF WriteByte, Return, TypeOK
<1>7. ASSUME NEW h \in held, Free(h) PROVE TypeOK'
  <2>1. Block(h.address) \in 0..(total_blocks - 1)
    BY <1>0, BlockIdsTyped DEF HeldInv
  <2>2. Block(h.address) \in 0..(total_blocks + ByteBits)
    BY <1>a, <2>1
  <2>3. Flip(bitmap \cap ByteOf(Block(h.address)), Block(h.address)) \subseteq 0..(total_blocks - 1)
    BY <1>0, <2>1 DEF Flip, TypeOK
  <2> QED
    BY <1>0, <1>7, <2>2, <2>3 DEF Free, TypeOK
<1>8. ASSUME NEW h \in held, HandOver(h) PROVE TypeOK'
  <2>1. h \in [address : 0..(Pool - 1), size : 1..Size[Zones], by : {"task", "irq"}]
    BY <1>0 DEF TypeOK
  <2>2. [h EXCEPT !.by = "irq"]
            \in [address : 0..(Pool - 1), size : 1..Size[Zones], by : {"task", "irq"}]
    BY <2>1
  <2> QED
    BY <1>0, <1>8, <2>2 DEF HandOver, TypeOK
<1>9. ASSUME NEW h \in held, IrqFree(h) PROVE TypeOK'
  <2>1. Block(h.address) \in 0..(total_blocks - 1)
    BY <1>0, BlockIdsTyped DEF HeldInv
  <2>2. bitmap' \subseteq 0..(total_blocks - 1)
    BY <1>0, <1>9, <2>1 DEF IrqFree, Flip, TypeOK
  <2>3. old' \in held' \cup {NoBlock}
    BY <1>0, <1>9 DEF IrqFree, TypeOK, HeldInv
  <2>4. raced' \in BOOLEAN
    BY <1>0, <1>9 DEF IrqFree, TypeOK
  <2> QED
    BY <1>0, <1>9, <2>2, <2>3, <2>4 DEF IrqFree, TypeOK
<1>10. CASE FreeWrite
  BY <1>0, <1>10, <1>c, <1>d DEF FreeWrite, Return, TypeOK
<1>11. CASE UNCHANGED vars
  BY <1>0, <1>11 DEF vars, TypeOK
<1> QED
  BY <1>1, <1>2, <1>3, <1>4, <1>5, <1>6, <1>7, <1>8, <1>9, <1>10, <1>11 DEF Next

LEMMA HeldStep == IInv /\ [Next]_vars => HeldInv'
<1> SUFFICES ASSUME IInv, [Next]_vars PROVE HeldInv'
  OBVIOUS
<1>0. TypeOK /\ HeldInv /\ SearchInv /\ MarkInv
  BY DEF IInv
<1>1. ASSUME NEW n \in 1..Size[Zones], Malloc(n) PROVE HeldInv'
  BY <1>0, <1>1 DEF Malloc, Search, HeldInv
<1>2. ASSUME NEW n \in 1..Size[Zones], NEW h \in held, Realloc(h, n) PROVE HeldInv'
  BY <1>0, <1>2 DEF Realloc, Search, HeldInv
<1>3. CASE SkipBytes \/ SkipBlocks \/ ReadByte \/ FreeWrite \/ UNCHANGED vars
  BY <1>0, <1>3 DEF SkipBytes, SkipBlocks, ReadByte, FreeWrite, Return, vars, HeldInv
<1>4. CASE WriteByte
  <2> DEFINE h == [address |-> Address(current_block), size |-> size, by |-> "task"]
  <2>1. /\ current_block \in BlockIds /\ size \in 1..Size[Zones]
        /\ FirstBlock[ZoneFor(size)] <= current_block /\ current_block \notin bitmap
    BY <1>0, <1>4 DEF WriteByte, SearchInv
  <2>2. Block(Address(current_block)) = current_block
    BY <2>1, AddressRight
  <2>3. size <= Size[ZoneOf(current_block)]
    BY <2>1, LargeEnough
  <2>4. \A g \in held : Block(g.address) # current_block
    BY <1>0, <2>1 DEF MarkInv, Handed
  <2>5. held' = held \cup {h} /\ old' = old
    BY <1>4 DEF WriteByte
  <2>6. /\ h.address = Address(current_block) /\ h.size = size
        /\ Block(h.address) = current_block
    BY <2>2
  <2> HIDE DEF h
  <2> QED
    BY <1>0, <2>1, <2>3, <2>4, <2>5, <2>6 DEF HeldInv
<1>5. ASSUME NEW h \in held, Free(h) PROVE HeldInv'
  BY <1>0, <1>5 DEF Free, HeldInv
<1>6. ASSUME NEW h \in held, HandOver(h) PROVE HeldInv'
  <2> DEFINE g == [h EXCEPT !.by = "irq"]
  <2>1. g.address = h.address /\ g.size = h.size
    BY <1>0 DEF TypeOK
  <2>2. held' = (held \ {h}) \cup {g} /\ old' = NoBlock
    BY <1>6 DEF HandOver
  <2> HIDE DEF g
  <2> QED
    BY <1>0, <2>1, <2>2 DEF HeldInv
<1>7. ASSUME NEW h \in held, IrqFree(h) PROVE HeldInv'
  BY <1>0, <1>7 DEF IrqFree, HeldInv
<1> QED
  BY <1>1, <1>2, <1>3, <1>4, <1>5, <1>6, <1>7 DEF Next

LEMMA SearchStep == IInv /\ [Next]_vars => SearchInv' /\ OutOfMemHonest'
<1> SUFFICES ASSUME IInv, [Next]_vars PROVE SearchInv' /\ OutOfMemHonest'
  OBVIOUS
<1>0. TypeOK /\ HeldInv /\ SearchInv /\ MarkInv /\ OutOfMemHonest
  BY DEF IInv
<1>a. total_blocks \in Nat
  BY ZonesTyped
<1>b. current_block \in Nat
  BY <1>0, <1>a, HeapAssumption DEF TypeOK
<1>c. ASSUME NEW n \in 1..Size[Zones], Search(n) PROVE SearchInv' /\ OutOfMemHonest'
  <2> DEFINE first == FirstBlock[ZoneFor(n)]
  <2>1. first \in Nat
    BY LargeEnough, <1>a
  <2>2. /\ call' = "bytes" /\ size' = n /\ current_block' = first
        /\ free_all_along' = {b \in first..(total_blocks - 1) : b \notin bitmap}
        /\ bitmap' = bitmap /\ ~panic /\ panic' = panic
    BY <1>c DEF Search
  <2> HIDE DEF first
  <2>3. \A b \in free_all_along' : b \notin bitmap' /\ current_block' <= b
    BY <1>a, <2>1, <2>2
  <2>4. FirstBlock[ZoneFor(size')] <= current_block'
    BY <2>1, <2>2 DEF first
  <2> QED
    BY <2>2, <2>3, <2>4 DEF SearchInv, OutOfMemHonest
<1>1. ASSUME NEW n \in 1..Size[Zones], Malloc(n) PROVE SearchInv' /\ OutOfMemHonest'
  BY <1>1, <1>c DEF Malloc
<1>2. ASSUME NEW n \in 1..Size[Zones], NEW h \in held, Realloc(h, n)
      PROVE  SearchInv' /\ OutOfMemHonest'
  BY <1>2, <1>c DEF Realloc
<1>3. CASE SkipBytes
  <2>1. /\ call = "bytes" /\ ~panic /\ UNCHANGED <<bitmap, size, panic, free_all_along>>
        /\ call' \in {"bytes", "blocks"}
    BY <1>3 DEF SkipBytes
  <2>2. size \in 1..Size[Zones] /\ FirstBlock[ZoneFor(size)] \in Nat
    BY <1>0, <1>a, <2>1, LargeEnough DEF SearchInv
  <2>3. /\ current_block' \in Nat /\ current_block <= current_block'
        /\ \A b \in free_all_along : current_block' <= b
    <3>1. CASE current_block' = current_block
      BY <1>0, <1>b, <2>1, <3>1 DEF SearchInv
    <3>2. CASE current_block' # current_block
      <4> DEFINE next == ByteBits * ((current_block + ByteBits) \div ByteBits)
      <4>1. current_block' = next /\ ByteOf(current_block) \subseteq bitmap
        BY <1>3, <3>2 DEF SkipBytes
      <4>2. /\ next \in (current_block + 1)..(current_block + ByteBits)
            /\ \A c \in Nat : current_block <= c /\ c < next => c \in ByteOf(current_block)
        BY <1>b, ByteRight
      <4> HIDE DEF next
      <4>3. next \in Nat /\ current_block <= next
        BY <1>b, <4>2, HeapAssumption
      <4>4. ASSUME NEW b \in free_all_along PROVE next <= b
        <5>1. b \in Nat
          BY <1>0, <1>a DEF TypeOK
        <5>2. b \notin bitmap /\ current_block <= b
          BY <1>0, <2>1 DEF SearchInv
        <5>3. ~ (b < next)
          BY <4>1, <4>2, <5>1, <5>2
        <5> QED
          BY <4>3, <5>1, <5>3
      <4> QED
        BY <4>1, <4>3, <4>4
    <3> QED
      BY <3>1, <3>2
  <2>4. FirstBlock[ZoneFor(size)] <= current_block'
    <3>1. FirstBlock[ZoneFor(size)] <= current_block
      BY <1>0, <2>1 DEF SearchInv
    <3> QED
      BY <1>b, <2>2, <2>3, <3>1
  <2>5. \A b \in free_all_along : b \notin bitmap
    BY <1>0, <2>1 DEF SearchInv
  <2> QED
    BY <2>1, <2>2, <2>3, <2>4, <2>5 DEF SearchInv, OutOfMemHonest
<1>4. CASE SkipBlocks
  <2>1. /\ call = "blocks" /\ ~panic /\ UNCHANGED <<bitmap, size, free_all_along>>
    BY <1>4 DEF SkipBlocks
  <2>2. size \in 1..Size[Zones] /\ FirstBlock[ZoneFor(size)] \in Nat
    BY <1>0, <1>a, <2>1, LargeEnough DEF SearchInv
  <2>3. /\ FirstBlock[ZoneFor(size)] <= current_block
        /\ \A b \in free_all_along : b \notin bitmap /\ current_block <= b
    BY <1>0, <2>1 DEF SearchInv
  <2>4. \A b \in free_all_along : b \in Nat /\ b < total_blocks
    BY <1>0, <1>a DEF TypeOK
  <2>5. CASE current_block < total_blocks /\ current_block \in bitmap
    <3>1. current_block' = current_block + 1 /\ call' = "blocks" /\ ~panic'
      BY <1>4, <2>1, <2>5 DEF SkipBlocks
    <3>2. \A b \in free_all_along : b \notin bitmap /\ current_block + 1 <= b
      BY <1>b, <2>3, <2>4, <2>5
    <3>3. FirstBlock[ZoneFor(size)] <= current_block + 1
      BY <1>b, <2>2, <2>3
    <3> QED
      BY <2>1, <2>2, <3>1, <3>2, <3>3 DEF SearchInv, OutOfMemHonest
  <2>6. CASE ~ (current_block < total_blocks /\ current_block \in bitmap)
    <3>1. /\ current_block' = current_block /\ call' = "set"
          /\ panic' <=> current_block >= total_blocks
      BY <1>4, <2>6 DEF SkipBlocks
    <3>2. ~panic' => current_block \in BlockIds /\ current_block \notin bitmap
      BY <1>a, <1>b, <2>6, <3>1, BlockIdsTyped
    <3>3. panic' => free_all_along = {}
      BY <1>a, <1>b, <2>3, <2>4, <3>1
    <3> QED
      BY <2>1, <2>2, <2>3, <3>1, <3>2, <3>3 DEF SearchInv, OutOfMemHonest
  <2> QED
    BY <2>5, <2>6
<1>5. CASE ReadByte
  BY <1>0, <1>5 DEF ReadByte, SearchInv, OutOfMemHonest
<1>6. CASE WriteByte \/ FreeWrite
  BY <1>0, <1>6 DEF WriteByte, FreeWrite, Return, SearchInv, OutOfMemHonest
<1>7. ASSUME NEW h \in held, Free(h) PROVE SearchInv' /\ OutOfMemHonest'
  <2>1. Block(h.address) \in BlockIds
    BY <1>0 DEF HeldInv
  <2> QED
    BY <1>0, <1>7, <2>1 DEF Free, SearchInv, OutOfMemHonest
<1>8. ASSUME NEW h \in held, HandOver(h) PROVE SearchInv' /\ OutOfMemHonest'
  BY <1>0, <1>8 DEF HandOver, SearchInv, OutOfMemHonest
<1>9. ASSUME NEW h \in held, IrqFree(h) PROVE SearchInv' /\ OutOfMemHonest'
  <2>1. bitmap' \subseteq bitmap
    <3>1. Block(h.address) \in bitmap
      BY <1>0 DEF MarkInv, Handed
    <3> QED
      BY <1>9, <3>1 DEF IrqFree, Flip
  <2> QED
    BY <1>0, <1>9, <2>1 DEF IrqFree, SearchInv, OutOfMemHonest
<1>10. CASE UNCHANGED vars
  BY <1>0, <1>10 DEF vars, SearchInv, OutOfMemHonest
<1> QED
  BY <1>1, <1>2, <1>3, <1>4, <1>5, <1>6, <1>7, <1>8, <1>9, <1>10 DEF Next

LEMMA MarkStep == IInv /\ [Next]_vars => MarkInv'
<1> SUFFICES ASSUME IInv, [Next]_vars PROVE MarkInv'
  OBVIOUS
<1>0. TypeOK /\ HeldInv /\ SearchInv /\ MarkInv
  BY DEF IInv
<1>1. ASSUME NEW n \in 1..Size[Zones], Malloc(n) PROVE MarkInv'
  BY <1>0, <1>1 DEF Malloc, Search, MarkInv, Handed
<1>2. ASSUME NEW n \in 1..Size[Zones], NEW h \in held, Realloc(h, n) PROVE MarkInv'
  BY <1>0, <1>2 DEF Realloc, Search, MarkInv, Handed
<1>3. CASE SkipBytes \/ SkipBlocks
  <2>1. /\ UNCHANGED <<bitmap, held, raced>> /\ call \in {"bytes", "blocks"}
        /\ call' \in {"bytes", "blocks", "set"}
    BY <1>3 DEF SkipBytes, SkipBlocks
  <2> QED
    BY <1>0, <2>1 DEF MarkInv, Handed
<1>4. CASE ReadByte
  <2>1. /\ UNCHANGED <<bitmap, held, raced, current_block>> /\ call = "set" /\ call' = "write"
        /\ byte' = (bitmap \cap ByteOf(current_block)) \cup {current_block}
    BY <1>4 DEF ReadByte
  <2>2. current_block \in BlockIds
    BY <1>0, <1>4 DEF ReadByte, SearchInv
  <2>3. current_block \in ByteOf(current_block)
    BY <2>2, BlockIdsTyped, ByteRight
  <2>4. Written' = bitmap \cup {current_block}
    <3>1. ByteOf(current_block)' = ByteOf(current_block)
      BY <2>1 DEF ByteOf
    <3> QED
      BY <2>1, <2>3, <3>1 DEF Written
  <2>5. byte' \subseteq ByteOf(current_block')
    BY <2>1, <2>3
  <2> QED
    BY <1>0, <2>1, <2>4, <2>5 DEF MarkInv, Handed
<1>5. CASE WriteByte
  <2>1. current_block \in BlockIds /\ call = "write"
    BY <1>0, <1>5 DEF WriteByte, SearchInv
  <2>2. Block(Address(current_block)) = current_block
    BY <2>1, AddressRight
  <2>3. Handed' = Handed \cup {current_block}
    <3> DEFINE h == [address |-> Address(current_block), size |-> size, by |-> "task"]
    <3>1. held' = held \cup {h} /\ Block(h.address) = current_block
      BY <1>5, <2>2 DEF WriteByte
    <3> HIDE DEF h
    <3> QED
      BY <3>1 DEF Handed
  <2>4. /\ bitmap' = Written /\ call' = "none" /\ raced' = raced
    BY <1>5 DEF WriteByte, Return
  <2>5. current_block \in Written
    BY <1>0, <2>1 DEF MarkInv, Written
  <2> QED
    BY <1>0, <2>1, <2>3, <2>4, <2>5 DEF MarkInv
<1>6. ASSUME NEW h \in held, Free(h) PROVE MarkInv'
  <2> DEFINE b == Block(h.address)
  <2>1. b \in bitmap /\ b \in ByteOf(b)
    <3>1. b \in BlockIds
      BY <1>0 DEF HeldInv
    <3> QED
      BY <1>0, <3>1, BlockIdsTyped, ByteRight DEF MarkInv, Handed
  <2>2. Handed' = Handed \ {b}
    BY <1>0, <1>6, HandedWithout DEF Free, Handed
  <2>3. /\ bitmap' = bitmap /\ raced' = raced /\ call = "none" /\ call' = "free_write"
        /\ current_block' = b
        /\ byte' = Flip(bitmap \cap ByteOf(b), b)
    BY <1>6 DEF Free
  <2> HIDE DEF b
  <2>4. byte' = (bitmap \cap ByteOf(b)) \ {b}
    BY <2>1, <2>3 DEF Flip
  <2>5. Written' = bitmap \ {b}
    <3>1. ByteOf(current_block)' = ByteOf(b)
      BY <2>3 DEF ByteOf
    <3> QED
      BY <2>1, <2>3, <2>4, <3>1 DEF Written
  <2>6. byte' \subseteq ByteOf(current_block')
    BY <2>3, <2>4
  <2>7. Handed \subseteq bitmap /\ (~raced => bitmap = Handed)
    BY <1>0, <2>3 DEF MarkInv
  <2> QED
    BY <2>2, <2>3, <2>5, <2>6, <2>7 DEF MarkInv
<1>7. CASE FreeWrite
  <2>1. /\ bitmap' = Written /\ call = "free_write" /\ call' = "none" /\ raced' = raced
        /\ held' = held
    BY <1>7 DEF FreeWrite, Return
  <2> QED
    BY <1>0, <2>1 DEF MarkInv, Handed
<1>8. ASSUME NEW h \in held, HandOver(h) PROVE MarkInv'
  <2>1. Handed' = Handed
    <3> DEFINE g == [h EXCEPT !.by = "irq"]
    <3>1. g.address = h.address
      BY <1>0 DEF TypeOK
    <3>2. held' = (held \ {h}) \cup {g}
      BY <1>8 DEF HandOver
    <3> HIDE DEF g
    <3> QED
      BY <3>1, <3>2 DEF Handed
  <2>2. UNCHANGED <<bitmap, call, current_block, byte, raced>>
    BY <1>8 DEF HandOver
  <2>3. Written' = Written
    BY <2>2 DEF Written, ByteOf
  <2> QED
    BY <1>0, <2>1, <2>2, <2>3 DEF MarkInv
<1>9. ASSUME NEW h \in held, IrqFree(h) PROVE MarkInv'
  <2> DEFINE b == Block(h.address)
  <2>1. b \in bitmap /\ b \in Handed
    BY <1>0 DEF MarkInv, Handed
  <2>2. Handed' = Handed \ {b}
    BY <1>0, <1>9, HandedWithout DEF IrqFree, Handed
  <2>3. /\ UNCHANGED <<call, current_block, byte>>
        /\ bitmap' = Flip(bitmap, b)
        /\ raced' = (raced \/ (call \in {"write", "free_write"} /\ b \in ByteOf(current_block)))
    BY <1>9 DEF IrqFree
  <2> HIDE DEF b
  <2>4. bitmap' = bitmap \ {b}
    BY <2>1, <2>3 DEF Flip
  <2>5. ByteOf(current_block)' = ByteOf(current_block)
    BY <2>3 DEF ByteOf
  <2>6. Written' = ((bitmap \ {b}) \ ByteOf(current_block)) \cup byte
    BY <2>3, <2>4, <2>5 DEF Written
  <2>7. Handed' \subseteq bitmap'
    BY <1>0, <2>2, <2>4 DEF MarkInv
  <2>8. ASSUME call \in {"write", "free_write"}
        PROVE  Handed' \subseteq Written' /\ byte' \subseteq ByteOf(current_block')
    BY <1>0, <2>2, <2>3, <2>6, <2>8 DEF MarkInv, Written
  <2>9. call = "write" => current_block \in byte
    BY <1>0 DEF MarkInv
  <2>10. ASSUME ~raced' PROVE ~raced /\ (call \in {"write", "free_write"} =>
                                /\ b \notin ByteOf(current_block)
                                /\ Written' = Written \ {b})
    <3>1. ~raced /\ (call \in {"write", "free_write"} => b \notin ByteOf(current_block))
      BY <2>3, <2>10
    <3>2. call \in {"write", "free_write"} => byte \subseteq ByteOf(current_block)
      BY <1>0 DEF MarkInv
    <3> QED
      BY <2>6, <3>1, <3>2 DEF Written
  <2>11. ASSUME ~raced', call # "free_write" PROVE bitmap' = Handed'
    BY <1>0, <2>2, <2>4, <2>10, <2>11 DEF MarkInv
  <2>12. ASSUME ~raced', call = "write" PROVE Written' = Handed' \cup {current_block}
    <3>1. current_block # b
      <4>1. current_block \in ByteOf(current_block)
        BY <1>0, <2>9, <2>12 DEF MarkInv
      <4> QED
        BY <2>10, <2>12, <4>1
    <3> QED
      BY <1>0, <2>2, <2>10, <2>12, <3>1 DEF MarkInv
  <2>13. ASSUME ~raced', call = "free_write" PROVE Written' = Handed'
    BY <1>0, <2>2, <2>10, <2>13 DEF MarkInv
  <2> QED
    BY <2>3, <2>7, <2>8, <2>9, <2>11, <2>12, <2>13 DEF MarkInv
<1>10. CASE UNCHANGED vars
  <2>1. Handed' = Handed /\ Written' = Written
    BY <1>10 DEF vars, Handed, Written, ByteOf
  <2> QED
    BY <1>0, <1>10, <2>1 DEF vars, MarkInv
<1> QED
  BY <1>1, <1>2, <1>3, <1>4, <1>5, <1>6, <1>7, <1>8, <1>9, <1>10 DEF Next

LEMMA Invariance == Spec => []IInv
<1>1. IInv /\ [Next]_vars => IInv'
  BY TypeStep, HeldStep, SearchStep, MarkStep DEF IInv
<1> QED
  BY <1>1, InitIInv, PTL DEF Spec

-----------------------------------------------------------------------------
(* Every variable of the heap keeps its type: malloc stops at the end of    *)
(* the blocks, and free computes a block from every address that malloc     *)
(* gave out.                                                                *)
THEOREM TypeCorrect == Spec => []TypeOK
<1>1. IInv => TypeOK
  BY DEF IInv
<1> QED
  BY <1>1, Invariance, PTL

(* malloc never hands out memory that overlaps or lies outside the pool,    *)
(* whatever interrupt handlers free between its steps.                      *)
THEOREM BlocksApart == Spec => []NoOverlap
<1>1. IInv => NoOverlap
  <2> SUFFICES ASSUME IInv, NEW g \in held, NEW h \in held
      PROVE  /\ g.address + g.size <= Pool
             /\ g # h => \/ g.address + g.size <= h.address
                         \/ h.address + h.size <= g.address
    BY DEF NoOverlap
  <2> DEFINE b == Block(g.address)
             c == Block(h.address)
  <2>1. /\ b \in BlockIds /\ g.address = Address(b) /\ g.size <= Size[ZoneOf(b)]
        /\ c \in BlockIds /\ h.address = Address(c) /\ h.size <= Size[ZoneOf(c)]
        /\ b = c => g = h
    BY DEF IInv, HeldInv
  <2>2. g.size \in Nat /\ h.size \in Nat /\ g.address \in Nat /\ h.address \in Nat
    BY SizesTyped, ZonesTyped DEF IInv, TypeOK
  <2> HIDE DEF b, c
  <2>3. Size[ZoneOf(b)] \in Nat /\ Size[ZoneOf(c)] \in Nat
    BY <2>1, ZoneOfRight, ZonesTyped
  <2>4. g.address + Size[ZoneOf(b)] <= Pool
    BY <2>1, AddressRight
  <2>5. b < c => g.address + Size[ZoneOf(b)] <= h.address
    BY <2>1, Apart
  <2>6. c < b => h.address + Size[ZoneOf(c)] <= g.address
    BY <2>1, Apart
  <2>7. b = c \/ b < c \/ c < b
    BY <2>1, BlockIdsTyped
  <2> QED
    BY <2>1, <2>2, <2>3, <2>4, <2>5, <2>6, <2>7, ZonesTyped
<1> QED
  BY <1>1, Invariance, PTL

(* What is handed out stays marked in the bitmap; nothing else is marked    *)
(* between calls, until a handler frees in a byte that is being updated.    *)
THEOREM BitmapRight == Spec => []MarksRight
<1>1. IInv => MarksRight
  BY DEF IInv, MarkInv, Handed, MarksRight
<1> QED
  BY <1>1, Invariance, PTL

(* malloc panics only when no block that is large enough was free all the   *)
(* time it searched.                                                        *)
THEOREM PanicsHonestly == Spec => []OutOfMemHonest
<1>1. IInv => OutOfMemHonest
  BY DEF IInv
<1> QED
  BY <1>1, Invariance, PTL

-----------------------------------------------------------------------------
(* The list of init/memory.c: in the order of the addresses, both ways.     *)
Linked(l) ==
    /\ DOMAIN l \subseteq First..(OverBlock - 1)
    /\ DOMAIN l # {} => First \in DOMAIN l
    /\ l \in [DOMAIN l -> [prev : {NoHeader} \cup DOMAIN l,
                           next : DOMAIN l \cup {OverBlock}, free : BOOLEAN]]
    /\ \A b \in DOMAIN l :
        /\ l[b].next > b + Header
        /\ \A c \in DOMAIN l : c > b => l[b].next <= c
        /\ IF b = First THEN l[b].prev = NoHeader
           ELSE l[b].prev \in DOMAIN l /\ l[l[b].prev].next = b

(* No block that is free follows another.                                   *)
Merged(l) ==
    \A b \in DOMAIN l : l[b].free /\ l[b].next # OverBlock => ~l[l[b].next].free

LEMMA Addresses ==
    /\ First \in Nat \ {0} /\ Header \in Nat \ {0} /\ OverBlock \in Nat
    /\ OverBlock > First + Header /\ Largest = OverBlock - First - Header
    /\ NoHeader = 0 /\ NoHeader < First
BY UserHeapAssumption DEF Largest, NoHeader

LEMMA HeadersTyped ==
    ASSUME NEW l, Linked(l)
    PROVE  /\ IsFiniteSet(DOMAIN l) /\ Cardinality(DOMAIN l) \in Nat
           /\ \A b \in DOMAIN l : b \in Nat /\ First <= b /\ b < OverBlock
           /\ \A b \in DOMAIN l : /\ l[b].next \in DOMAIN l \cup {OverBlock}
                                  /\ l[b].prev \in {NoHeader} \cup DOMAIN l
                                  /\ l[b].free \in BOOLEAN
                                  /\ l[b].next \in Nat /\ b < l[b].next
                                  /\ l[b].next <= OverBlock
<1>1. DOMAIN l \subseteq First..(OverBlock - 1)
  BY DEF Linked
<1>2. IsFiniteSet(DOMAIN l) /\ Cardinality(DOMAIN l) \in Nat
  <2>1. First \in Int /\ OverBlock - 1 \in Int
    BY Addresses
  <2>2. IsFiniteSet(First..(OverBlock - 1))
    BY <2>1, FS_Interval
  <2> QED
    BY <1>1, <2>2, FS_Subset, FS_CardinalityType
<1>3. ASSUME NEW b \in DOMAIN l PROVE b \in Nat /\ First <= b /\ b < OverBlock
  BY <1>1, Addresses
<1>4. ASSUME NEW b \in DOMAIN l
      PROVE  /\ l[b].next \in DOMAIN l \cup {OverBlock}
             /\ l[b].prev \in {NoHeader} \cup DOMAIN l
             /\ l[b].free \in BOOLEAN
  <2>1. l[b] \in [prev : {NoHeader} \cup DOMAIN l,
                  next : DOMAIN l \cup {OverBlock}, free : BOOLEAN]
    BY DEF Linked
  <2> QED
    BY <2>1
<1>5. ASSUME NEW b \in DOMAIN l
      PROVE  l[b].next \in Nat /\ b < l[b].next /\ l[b].next <= OverBlock
  <2>1. l[b].next > b + Header
    BY DEF Linked
  <2> QED
    BY <1>3, <1>4, <2>1, Addresses
<1> QED
  BY <1>2, <1>3, <1>4, <1>5

(* What is before a block.                                                  *)
LEMMA Before ==
    ASSUME NEW l, Linked(l), NEW b \in DOMAIN l, NEW c \in DOMAIN l, c < b
    PROVE  /\ l[b].prev \in DOMAIN l /\ l[l[b].prev].next = b
           /\ l[b].prev < b /\ c <= l[b].prev
           /\ l[c].next <= b /\ l[c].next \in DOMAIN l
<1> DEFINE p == l[b].prev
<1>1. b # First /\ b \in Nat /\ c \in Nat /\ b < OverBlock /\ OverBlock \in Nat
  BY HeadersTyped, Addresses
<1>2. p \in DOMAIN l /\ l[p].next = b
  BY <1>1 DEF Linked
<1> HIDE DEF p
<1>3. p \in Nat /\ p < b
  BY <1>2, HeadersTyped
<1>4. c <= p
  BY <1>1, <1>2, <1>3 DEF Linked
<1>5. l[c].next <= b
  BY <1>1 DEF Linked
<1>6. l[c].next \in DOMAIN l
  BY <1>1, <1>5, HeadersTyped
<1> QED
  BY <1>2, <1>3, <1>4, <1>5, <1>6 DEF p

(* The end is behind the last block.                                        *)
LEMMA LastBlock ==
    ASSUME NEW l, Linked(l), DOMAIN l # {}
    PROVE  \E b \in DOMAIN l : l[b].next = OverBlock /\ \A c \in DOMAIN l : c <= b
<1>1. DOMAIN l \in SUBSET (0..OverBlock) /\ OverBlock \in Nat
  BY HeadersTyped, Addresses
<1>2. PICK b \in DOMAIN l : \A c \in DOMAIN l : c <= b
  BY <1>1, Greatest
<1>3. l[b].next \notin DOMAIN l
  BY <1>2, HeadersTyped
<1> QED
  BY <1>2, <1>3, HeadersTyped

(* The walks reach every block on their way.                                *)
LEMMA FromIs ==
    ASSUME Linked(list), NEW b \in DOMAIN list
    PROVE  From(b) = {c \in DOMAIN list \cup {OverBlock} : c >= b}
<1> DEFINE D == DOMAIN list
           K == Cardinality(D)
           passed(c) == {d \in D : b <= d /\ d < c}
           near(n) == {c \in D \cup {OverBlock} : c >= b /\ Cardinality(passed(c)) <= n}
           further(S) == S \cup {list[c].next : c \in S \ {OverBlock}}
           Is(w) == w = [n \in 0..K |-> IF n = 0 THEN {b} ELSE further(w[n - 1])]
<1>1. /\ IsFiniteSet(D) /\ K \in Nat
      /\ \A c \in D : c \in Nat /\ c < OverBlock
      /\ \A c \in D : /\ list[c].next \in D \cup {OverBlock} /\ c < list[c].next
                      /\ list[c].next \in Nat
      /\ b \in D /\ OverBlock \in Nat
  BY HeadersTyped, Addresses
<1>2. \A c : IsFiniteSet(passed(c)) /\ Cardinality(passed(c)) \in Nat /\ Cardinality(passed(c)) <= K
  BY <1>1, FS_Subset, FS_CardinalityType
<1>3. ASSUME NEW c \in D, c >= b
      PROVE  Cardinality(passed(list[c].next)) = Cardinality(passed(c)) + 1
  <2>1. \A d \in D : d < list[c].next <=> d < c \/ d = c
    <3> SUFFICES ASSUME NEW d \in D PROVE d < list[c].next <=> d < c \/ d = c
      OBVIOUS
    <3>1. d > c => list[c].next <= d
      BY DEF Linked
    <3> QED
      BY <1>1, <3>1
  <2>2. passed(list[c].next) = passed(c) \cup {c} /\ c \notin passed(c)
    BY <1>1, <1>3, <2>1
  <2> QED
    BY <1>2, <2>2, FS_AddElement
<1>4. ASSUME NEW c \in D \cup {OverBlock}, c > b
      PROVE  \E p \in D : p >= b /\ list[p].next = c
  <2>1. CASE c \in D
    BY <1>1, <1>4, <2>1, Before
  <2>2. CASE c = OverBlock
    BY <1>1, <2>2, LastBlock
  <2> QED
    BY <2>1, <2>2
<1>5. near(0) = {b}
  <2>1. passed(b) = {}
    BY <1>1
  <2>2. Cardinality(passed(b)) = 0
    BY <2>1, FS_EmptySet
  <2>3. ASSUME NEW c \in D \cup {OverBlock}, c > b PROVE Cardinality(passed(c)) # 0
    <3>1. b \in passed(c)
      BY <1>1, <2>3
    <3> QED
      BY <1>2, <3>1, FS_EmptySet
  <2> HIDE DEF passed
  <2> QED
    BY <1>1, <1>2, <2>2, <2>3
<1> HIDE DEF passed
<1>6. ASSUME NEW n \in Nat \ {0} PROVE near(n) = further(near(n - 1))
  <2>1. ASSUME NEW c \in near(n) PROVE c \in further(near(n - 1))
    <3>1. CASE c = b
      <4>1. b \in near(0)
        BY <1>5
      <4> QED
        BY <1>1, <1>2, <1>6, <3>1, <4>1
    <3>2. CASE c # b
      <4>1. c > b /\ c \in D \cup {OverBlock}
        BY <1>1, <2>1, <3>2
      <4>2. PICK p \in D : p >= b /\ list[p].next = c
        BY <1>4, <4>1
      <4>3. Cardinality(passed(c)) = Cardinality(passed(p)) + 1
        BY <1>3, <4>2
      <4>4. p \in near(n - 1) /\ p # OverBlock
        BY <1>1, <1>2, <2>1, <4>2, <4>3
      <4> HIDE DEF near
      <4> QED
        BY <4>2, <4>4
    <3> QED
      BY <3>1, <3>2
  <2>2. ASSUME NEW c \in near(n - 1) PROVE c \in near(n)
    BY <1>1, <1>2, <2>2
  <2>3. ASSUME NEW c \in near(n - 1) \ {OverBlock} PROVE list[c].next \in near(n)
    <3>1. c \in D /\ c >= b /\ Cardinality(passed(c)) <= n - 1
      BY <2>3
    <3>2. Cardinality(passed(list[c].next)) <= n /\ list[c].next >= b
      BY <1>1, <1>2, <1>3, <3>1
    <3> QED
      BY <1>1, <3>1, <3>2
  <2> HIDE DEF near
  <2> QED
    BY <2>1, <2>2, <2>3
<1> HIDE DEF near
<1>7. Is([n \in 0..K |-> near(n)])
  <2> DEFINE w == [n \in 0..K |-> near(n)]
  <2>1. ASSUME NEW n \in 0..K
        PROVE  w[n] = IF n = 0 THEN {b} ELSE further(w[n - 1])
    <3>1. CASE n = 0
      BY <1>5, <3>1
    <3>2. CASE n # 0
      <4>1. n \in Nat \ {0} /\ n - 1 \in 0..K
        BY <1>1, <3>2
      <4>2. w[n - 1] = near(n - 1) /\ w[n] = near(n)
        BY <4>1
      <4> QED
        BY <1>6, <3>2, <4>1, <4>2
    <3> QED
      BY <3>1, <3>2
  <2> HIDE DEF further
  <2> QED
    BY <2>1
<1> DEFINE walk == CHOOSE w : Is(w)
<1>8. Is(walk)
  BY <1>7
<1>9. From(b) = walk[K]
  BY DEF From
<1> HIDE DEF walk, further
<1> DEFINE Bad == {n \in 0..K : walk[n] # near(n)}
<1>10. Bad = {}
  <2> SUFFICES ASSUME Bad # {} PROVE FALSE
    OBVIOUS
  <2>0. Bad \in SUBSET Nat
    BY <1>1
  <2>1. PICK n \in Bad : \A m \in Bad : n <= m
    <3> HIDE DEF Bad
    <3> QED
      BY <2>0, Least
  <2>2. n \in 0..K /\ walk[n] = IF n = 0 THEN {b} ELSE further(walk[n - 1])
    BY <1>8, <2>1
  <2>3. n # 0
    BY <1>5, <2>1, <2>2
  <2>4. n \in Nat \ {0} /\ n - 1 \in 0..K /\ ~ (n <= n - 1)
    BY <1>1, <2>2, <2>3
  <2>5. walk[n - 1] = near(n - 1)
    BY <2>1, <2>4
  <2> QED
    BY <1>6, <2>1, <2>2, <2>3, <2>4, <2>5
<1>11. near(K) = {c \in D \cup {OverBlock} : c >= b}
  BY <1>2 DEF near
<1> QED
  BY <1>1, <1>9, <1>10, <1>11

LEMMA PrevIs ==
    ASSUME NEW l, Linked(l), NEW b \in DOMAIN l
    PROVE  /\ l[b].prev \in Nat /\ l[b].prev < b
           /\ \A c \in DOMAIN l : c < b => c <= l[b].prev /\ l[l[c].next].prev = c
<1>1. b \in Nat /\ First <= b /\ First \in Nat /\ First > NoHeader /\ NoHeader = 0
  BY HeadersTyped, Addresses
<1>2. CASE b = First
  <2>1. l[b].prev = NoHeader
    BY <1>2 DEF Linked
  <2>2. \A c \in DOMAIN l : ~ (c < b)
    BY <1>1, <1>2, HeadersTyped
  <2> QED
    BY <1>1, <2>1, <2>2
<1>3. CASE b # First
  <2>1. First \in DOMAIN l /\ First < b
    BY <1>1, <1>3 DEF Linked
  <2>2. l[b].prev \in DOMAIN l /\ l[b].prev < b
    BY <2>1, Before
  <2>3. ASSUME NEW c \in DOMAIN l, c < b
        PROVE  c <= l[b].prev /\ l[l[c].next].prev = c
    <3> DEFINE n == l[c].next
               q == l[n].prev
    <3>1. n \in DOMAIN l /\ c < n /\ c <= l[b].prev
      BY <2>3, Before, HeadersTyped
    <3>2. q \in DOMAIN l /\ l[q].next = n /\ q < n /\ c <= q
      BY <3>1, Before
    <3>3. c < q => n <= q
      BY <3>2 DEF Linked
    <3> HIDE DEF n, q
    <3>4. c \in Nat /\ q \in Nat /\ n \in Nat
      BY <3>1, <3>2, HeadersTyped
    <3>5. q = c
      BY <3>2, <3>3, <3>4
    <3> QED
      BY <3>1, <3>5 DEF q, n
  <2> QED
    BY <2>2, <2>3, HeadersTyped
<1> QED
  BY <1>2, <1>3
LEMMA BackIs ==
    ASSUME Linked(list), NEW b \in DOMAIN list
    PROVE  Back(b) = {c \in DOMAIN list \cup {NoHeader} : c <= b}
<1> DEFINE D == DOMAIN list
           K == Cardinality(D)
           passed(c) == {d \in D : c < d /\ d <= b}
           near(n) == {c \in D \cup {NoHeader} : c <= b /\ Cardinality(passed(c)) <= n}
           further(S) == S \cup {list[c].prev : c \in S \ {NoHeader}}
           Is(w) == w = [n \in 0..K |-> IF n = 0 THEN {b} ELSE further(w[n - 1])]
<1>1. /\ IsFiniteSet(D) /\ K \in Nat
      /\ \A c \in D : c \in Nat /\ First <= c /\ NoHeader < c
      /\ \A c \in D : /\ list[c].prev \in D \cup {NoHeader} /\ list[c].prev < c
                      /\ list[c].prev \in Nat
      /\ b \in D /\ NoHeader = 0 /\ First \in D
  <2>1. First \in D
    BY DEF Linked
  <2> QED
    BY <2>1, HeadersTyped, PrevIs, Addresses
<1>2. \A c : IsFiniteSet(passed(c)) /\ Cardinality(passed(c)) \in Nat /\ Cardinality(passed(c)) <= K
  BY <1>1, FS_Subset, FS_CardinalityType
<1>3. ASSUME NEW c \in D, c <= b
      PROVE  Cardinality(passed(list[c].prev)) = Cardinality(passed(c)) + 1
  <2>1. \A d \in D : d > list[c].prev <=> d > c \/ d = c
    <3> SUFFICES ASSUME NEW d \in D PROVE d > list[c].prev <=> d > c \/ d = c
      OBVIOUS
    <3>1. d < c => d <= list[c].prev
      BY PrevIs
    <3> QED
      BY <1>1, <3>1
  <2>2. passed(list[c].prev) = passed(c) \cup {c} /\ c \notin passed(c)
    BY <1>1, <1>3, <2>1
  <2> QED
    BY <1>2, <2>2, FS_AddElement
<1>4. ASSUME NEW c \in D \cup {NoHeader}, c < b
      PROVE  \E p \in D : p <= b /\ list[p].prev = c
  <2>1. CASE c \in D
    <3>1. list[c].next \in D /\ list[c].next <= b /\ list[list[c].next].prev = c
      BY <1>4, <2>1, Before, PrevIs
    <3> QED
      BY <3>1
  <2>2. CASE c = NoHeader
    <3>1. list[First].prev = NoHeader /\ First <= b
      BY <1>1 DEF Linked
    <3> QED
      BY <1>1, <2>2, <3>1
  <2> QED
    BY <2>1, <2>2
<1>5. near(0) = {b}
  <2>1. passed(b) = {}
    BY <1>1
  <2>2. Cardinality(passed(b)) = 0
    BY <2>1, FS_EmptySet
  <2>3. ASSUME NEW c \in D \cup {NoHeader}, c < b PROVE Cardinality(passed(c)) # 0
    <3>1. b \in passed(c)
      BY <1>1, <2>3
    <3> QED
      BY <1>2, <3>1, FS_EmptySet
  <2> HIDE DEF passed
  <2> QED
    BY <1>1, <1>2, <2>2, <2>3
<1> HIDE DEF passed
<1>6. ASSUME NEW n \in Nat \ {0} PROVE near(n) = further(near(n - 1))
  <2>1. ASSUME NEW c \in near(n) PROVE c \in further(near(n - 1))
    <3>1. CASE c = b
      <4>1. b \in near(0)
        BY <1>5
      <4> QED
        BY <1>1, <1>2, <1>6, <3>1, <4>1
    <3>2. CASE c # b
      <4>1. c < b /\ c \in D \cup {NoHeader}
        BY <1>1, <2>1, <3>2
      <4>2. PICK p \in D : p <= b /\ list[p].prev = c
        BY <1>4, <4>1
      <4>3. Cardinality(passed(c)) = Cardinality(passed(p)) + 1
        BY <1>3, <4>2
      <4>4. p \in near(n - 1) /\ p # NoHeader
        BY <1>1, <1>2, <2>1, <4>2, <4>3
      <4> HIDE DEF near
      <4> QED
        BY <4>2, <4>4
    <3> QED
      BY <3>1, <3>2
  <2>2. ASSUME NEW c \in near(n - 1) PROVE c \in near(n)
    BY <1>1, <1>2, <2>2
  <2>3. ASSUME NEW c \in near(n - 1) \ {NoHeader} PROVE list[c].prev \in near(n)
    <3>1. c \in D /\ c <= b /\ Cardinality(passed(c)) <= n - 1
      BY <2>3
    <3>2. Cardinality(passed(list[c].prev)) <= n /\ list[c].prev <= b
      BY <1>1, <1>2, <1>3, <3>1
    <3> QED
      BY <1>1, <3>1, <3>2
  <2> HIDE DEF near
  <2> QED
    BY <2>1, <2>2, <2>3
<1> HIDE DEF near
<1>7. Is([n \in 0..K |-> near(n)])
  <2> DEFINE w == [n \in 0..K |-> near(n)]
  <2>1. ASSUME NEW n \in 0..K
        PROVE  w[n] = IF n = 0 THEN {b} ELSE further(w[n - 1])
    <3>1. CASE n = 0
      BY <1>5, <3>1
    <3>2. CASE n # 0
      <4>1. n \in Nat \ {0} /\ n - 1 \in 0..K
        BY <1>1, <3>2
      <4>2. w[n - 1] = near(n - 1) /\ w[n] = near(n)
        BY <4>1
      <4> QED
        BY <1>6, <3>2, <4>1, <4>2
    <3> QED
      BY <3>1, <3>2
  <2> HIDE DEF further
  <2> QED
    BY <2>1
<1> DEFINE walk == CHOOSE w : Is(w)
<1>8. Is(walk)
  BY <1>7
<1>9. Back(b) = walk[K]
  BY DEF Back
<1> HIDE DEF walk, further
<1> DEFINE Bad == {n \in 0..K : walk[n] # near(n)}
<1>10. Bad = {}
  <2> SUFFICES ASSUME Bad # {} PROVE FALSE
    OBVIOUS
  <2>0. Bad \in SUBSET Nat
    BY <1>1
  <2>1. PICK n \in Bad : \A m \in Bad : n <= m
    <3> HIDE DEF Bad
    <3> QED
      BY <2>0, Least
  <2>2. n \in 0..K /\ walk[n] = IF n = 0 THEN {b} ELSE further(walk[n - 1])
    BY <1>8, <2>1
  <2>3. n # 0
    BY <1>5, <2>1, <2>2
  <2>4. n \in Nat \ {0} /\ n - 1 \in 0..K /\ ~ (n <= n - 1)
    BY <1>1, <2>2, <2>3
  <2>5. walk[n - 1] = near(n - 1)
    BY <2>1, <2>4
  <2> QED
    BY <1>6, <2>1, <2>2, <2>3, <2>4, <2>5
<1>11. near(K) = {c \in D \cup {NoHeader} : c <= b}
  BY <1>2 DEF near
<1> QED
  BY <1>1, <1>9, <1>10, <1>11

LEMMA BlocksAre ==
    ASSUME Linked(list), DOMAIN list # {}
    PROVE  Blocks = DOMAIN list
<1>1. First \in DOMAIN list
  BY DEF Linked
<1>2. Blocks = {c \in DOMAIN list \cup {OverBlock} : c >= First} \ {OverBlock}
  BY <1>1, FromIs DEF Blocks
<1>3. \A c \in DOMAIN list : c >= First /\ c # OverBlock
  BY HeadersTyped
<1> QED
  BY <1>2, <1>3

Node(S) == [prev : {NoHeader} \cup S, next : S \cup {OverBlock}, free : BOOLEAN]

LEMMA NodeTyped ==
    ASSUME NEW S, NEW r
    PROVE  r \in Node(S) => /\ r = [prev |-> r.prev, next |-> r.next, free |-> r.free]
                            /\ r.prev \in {NoHeader} \cup S /\ r.next \in S \cup {OverBlock}
                            /\ r.free \in BOOLEAN
BY DEF Node

LEMMA NodeMade ==
    ASSUME NEW S, NEW x \in {NoHeader} \cup S, NEW y \in S \cup {OverBlock}, NEW z \in BOOLEAN
    PROVE  [prev |-> x, next |-> y, free |-> z] \in Node(S)
BY DEF Node

LEMMA FreeChanged ==
    ASSUME NEW S, NEW r \in Node(S), NEW w, NEW q, q = [r EXCEPT !.free = w]
    PROVE  q = [prev |-> r.prev, next |-> r.next, free |-> w]
           /\ q.prev = r.prev /\ q.next = r.next /\ q.free = w
<1>1. r = [prev |-> r.prev, next |-> r.next, free |-> r.free]
  BY NodeTyped
<1> DEFINE F == {"prev", "next", "free"}
<1>2. q = [c \in F |-> q[c]]
  BY <1>1
<1>3. q.prev = r.prev /\ q.next = r.next /\ q.free = w
  BY <1>1
<1> HIDE DEF F
<1>4. F = {"prev", "next", "free"}
  BY DEF F
<1>5. ASSUME NEW d, d = [c \in F |-> d[c]], NEW x, NEW y, NEW z, d.prev = x, d.next = y, d.free = z
      PROVE  d = [prev |-> x, next |-> y, free |-> z]
  BY <1>4, <1>5
<1> QED
  BY <1>2, <1>3, <1>5

LEMMA PrevChanged ==
    ASSUME NEW S, NEW r \in Node(S), NEW v, NEW q, q = [r EXCEPT !.prev = v]
    PROVE  q = [prev |-> v, next |-> r.next, free |-> r.free]
           /\ q.prev = v /\ q.next = r.next /\ q.free = r.free
<1>1. r = [prev |-> r.prev, next |-> r.next, free |-> r.free]
  BY NodeTyped
<1> DEFINE F == {"prev", "next", "free"}
<1>2. q = [c \in F |-> q[c]]
  BY <1>1
<1>3. q.prev = v /\ q.next = r.next /\ q.free = r.free
  BY <1>1
<1> HIDE DEF F
<1>4. F = {"prev", "next", "free"}
  BY DEF F
<1>5. ASSUME NEW d, d = [c \in F |-> d[c]], NEW x, NEW y, NEW z, d.prev = x, d.next = y, d.free = z
      PROVE  d = [prev |-> x, next |-> y, free |-> z]
  BY <1>4, <1>5
<1> QED
  BY <1>2, <1>3, <1>5

LEMMA NextChanged ==
    ASSUME NEW S, NEW r \in Node(S), NEW v, NEW q, q = [r EXCEPT !.next = v]
    PROVE  q = [prev |-> r.prev, next |-> v, free |-> r.free]
           /\ q.prev = r.prev /\ q.next = v /\ q.free = r.free
<1>1. r = [prev |-> r.prev, next |-> r.next, free |-> r.free]
  BY NodeTyped
<1> DEFINE F == {"prev", "next", "free"}
<1>2. q = [c \in F |-> q[c]]
  BY <1>1
<1>3. q.prev = r.prev /\ q.next = v /\ q.free = r.free
  BY <1>1
<1> HIDE DEF F
<1>4. F = {"prev", "next", "free"}
  BY DEF F
<1>5. ASSUME NEW d, d = [c \in F |-> d[c]], NEW x, NEW y, NEW z, d.prev = x, d.next = y, d.free = z
      PROVE  d = [prev |-> x, next |-> y, free |-> z]
  BY <1>4, <1>5
<1> QED
  BY <1>2, <1>3, <1>5

(* A block is marked as free or in use.                                     *)
Flag(b, v) == [list EXCEPT ![b].free = v]

LEMMA FlagSet ==
    ASSUME Linked(list), NEW b \in DOMAIN list, NEW v \in BOOLEAN,
           NEW l, l = Flag(b, v)
    PROVE  /\ DOMAIN l = DOMAIN list /\ Linked(l)
           /\ \A c \in DOMAIN list :
                 /\ l[c].next = list[c].next /\ l[c].prev = list[c].prev
                 /\ l[c].free = IF c = b THEN v ELSE list[c].free
<1> DEFINE D == DOMAIN list
<1>0. list \in [D -> Node(D)]
  BY DEF Linked, Node
<1> DEFINE r == list[b]
           s == [prev |-> r.prev, next |-> r.next, free |-> v]
<1>a. [r EXCEPT !.free = v] = s /\ s \in Node(D)
  <2>1. r = [prev |-> r.prev, next |-> r.next, free |-> r.free]
        /\ r.prev \in {NoHeader} \cup D /\ r.next \in D \cup {OverBlock}
    BY <1>0, NodeTyped
  <2>0. r \in Node(D)
    BY <1>0
  <2> HIDE DEF r
  <2>2. [r EXCEPT !.free = v] = s
    BY <2>0, FreeChanged
  <2> QED
    BY <2>1, <2>2, NodeMade
<1>b. s.prev = r.prev /\ s.next = r.next /\ s.free = v
  OBVIOUS
<1> HIDE DEF s
<1>2. /\ DOMAIN l = D
      /\ \A c \in D : l[c] = IF c = b THEN s ELSE list[c]
  BY <1>0, <1>a DEF Flag
<1>3. l \in [D -> Node(D)]
  BY <1>0, <1>2, <1>a DEF Flag
<1>c. \A c \in D : /\ l[c].next = list[c].next /\ l[c].prev = list[c].prev
                   /\ l[c].free = IF c = b THEN v ELSE list[c].free
  BY <1>2, <1>b
<1>4. Linked(l)
  <2>1. \A x \in D : /\ list[x].next > x + Header
                     /\ \A y \in D : y > x => list[x].next <= y
                     /\ IF x = First THEN list[x].prev = NoHeader
                        ELSE list[x].prev \in D /\ list[list[x].prev].next = x
    BY DEF Linked
  <2>2. \A x \in D : /\ l[x].next > x + Header
                     /\ \A y \in D : y > x => l[x].next <= y
                     /\ IF x = First THEN l[x].prev = NoHeader
                        ELSE l[x].prev \in D /\ l[l[x].prev].next = x
    <3> SUFFICES ASSUME NEW x \in D
                 PROVE  /\ l[x].next > x + Header
                        /\ \A y \in D : y > x => l[x].next <= y
                        /\ IF x = First THEN l[x].prev = NoHeader
                           ELSE l[x].prev \in D /\ l[l[x].prev].next = x
      OBVIOUS
    <3>1. l[x].next = list[x].next /\ l[x].prev = list[x].prev
      BY <1>c
    <3>2. list[x].prev \in D => l[list[x].prev].next = list[list[x].prev].next
      BY <1>c
    <3> QED
      BY <2>1, <3>1, <3>2
  <2>3. D \subseteq First..(OverBlock - 1)
    BY DEF Linked
  <2>4. First \in D
    BY DEF Linked
  <2> HIDE DEF D
  <2> QED
    BY <1>2, <1>3, <2>2, <2>3, <2>4 DEF Linked, Node
<1> QED
  BY <1>2, <1>4, <1>c

(* allocateMemory cuts a free block, or takes the whole.                    *)
LEMMA SplitRight ==
    ASSUME Linked(list), Merged(list), NEW b \in DOMAIN list, list[b].free,
           NEW n \in Nat \ {0}, Room(b) >= n,
           NEW l, l = Split(b, n)
    PROVE  /\ Linked(l) /\ Merged(l)
           /\ DOMAIN list \subseteq DOMAIN l
           /\ ~l[b].free /\ b + Header + n <= l[b].next
           /\ \A c \in DOMAIN list : c # b => /\ l[c].next = list[c].next
                                              /\ l[c].free = list[c].free
<1> DEFINE D == DOMAIN list
           e == list[b].next
           new == b + Header + n
<1>1. /\ b \in Nat /\ e \in Nat /\ Header \in Nat \ {0} /\ OverBlock \in Nat
      /\ e \in D \cup {OverBlock} /\ e <= OverBlock /\ First <= b /\ b < OverBlock
      /\ First \in D /\ First \in Nat
  <2>1. First \in D
    BY DEF Linked
  <2> QED
    BY <2>1, HeadersTyped, Addresses
<1>2. b + Header + n <= e
  BY <1>1 DEF Room
<1>3. e \in D => ~list[e].free /\ list[e].prev = b
  <2>1. e \in D => ~list[e].free
    BY <1>1, HeadersTyped DEF Merged
  <2>2. e \in D => b < e
    BY HeadersTyped
  <2>3. e \in D => list[e].prev = b
    BY <2>2, PrevIs
  <2> QED
    BY <2>1, <2>3
<1>4. CASE Room(b) <= Header + n
  <2>1. l = [list EXCEPT ![b].free = FALSE]
    BY <1>4 DEF Split
  <2>2. /\ DOMAIN l = D /\ Linked(l)
        /\ \A c \in D : /\ l[c].next = list[c].next /\ l[c].prev = list[c].prev
                        /\ l[c].free = IF c = b THEN FALSE ELSE list[c].free
    <3>1. PICK v \in BOOLEAN : v = FALSE
      OBVIOUS
    <3>2. l = Flag(b, v)
      BY <2>1, <3>1 DEF Flag
    <3>3. /\ DOMAIN l = D /\ Linked(l)
          /\ \A c \in D : /\ l[c].next = list[c].next /\ l[c].prev = list[c].prev
                          /\ l[c].free = IF c = b THEN v ELSE list[c].free
      BY <3>2, FlagSet
    <3> QED
      BY <3>1, <3>3
  <2>5. Merged(l)
    <3>1. \A c \in D : list[c].next \in D \cup {OverBlock}
      BY HeadersTyped
    <3>2. \A x \in D : list[x].free /\ list[x].next # OverBlock => ~list[list[x].next].free
      BY DEF Merged
    <3>3. \A x \in D : l[x].free /\ l[x].next # OverBlock => ~l[l[x].next].free
      BY <2>2, <3>1, <3>2
    <3> QED
      BY <2>2, <3>3 DEF Merged
  <2> QED
    BY <1>2, <2>2, <2>5
<1>5. CASE ~ (Room(b) <= Header + n)
  <2>1. l = [c \in D \cup {new} |->
                CASE c = new -> [prev |-> b, next |-> e, free |-> TRUE]
                  [] c = b   -> [list[b] EXCEPT !.next = new, !.free = FALSE]
                  [] c = e   -> [list[c] EXCEPT !.prev = new]
                  [] OTHER   -> list[c]]
    BY <1>5 DEF Split
  <2>2. new + Header < e /\ new > b /\ new \in Nat /\ new < OverBlock
        /\ b + Header < new
    BY <1>1, <1>5 DEF Room
  <2>3. new \notin D /\ new # b /\ b # e /\ new # e /\ First # new
    <3>1. new \in D => e <= new
      BY <2>2 DEF Linked
    <3> QED
      BY <1>1, <2>2, <3>1
  <2> DEFINE E == D \cup {new}
  <2>4. DOMAIN l = E
    BY <2>1
  <2>5. /\ l[new] = [prev |-> b, next |-> e, free |-> TRUE]
        /\ l[b] = [list[b] EXCEPT !.next = new, !.free = FALSE]
        /\ \A c \in D : c # b => l[c] = IF c = e THEN [list[c] EXCEPT !.prev = new]
                                        ELSE list[c]
    BY <2>1, <2>3
  <2> HIDE DEF new, e
  <2>d. \A c \in D : list[c] \in Node(D)
    BY DEF Linked, Node
  <2>0. \A c \in D : /\ list[c] = [prev |-> list[c].prev, next |-> list[c].next,
                                    free |-> list[c].free]
                     /\ list[c].prev \in {NoHeader} \cup D /\ list[c].next \in D \cup {OverBlock}
                     /\ list[c].free \in BOOLEAN
    BY <2>d, NodeTyped
  <2>a. l[b] = [prev |-> list[b].prev, next |-> new, free |-> FALSE]
    <3> DEFINE r == list[b]
    <3>1. r \in Node(D)
      BY <2>d
    <3>2. l[b] = [r EXCEPT !.next = new, !.free = FALSE]
      BY <2>5
    <3> HIDE DEF r
    <3> DEFINE q == [r EXCEPT !.next = new]
    <3>3. l[b] = [q EXCEPT !.free = FALSE]
      BY <3>2
    <3>4. q = [prev |-> r.prev, next |-> new, free |-> r.free]
          /\ q.prev = r.prev /\ q.next = new /\ q.free = r.free
      BY <3>1, NextChanged
    <3> HIDE DEF q
    <3>5. q \in Node(E)
      <4>1. r.prev \in {NoHeader} \cup E /\ r.free \in BOOLEAN /\ new \in E \cup {OverBlock}
        BY <3>1, NodeTyped
      <4> HIDE DEF E
      <4>2. [prev |-> r.prev, next |-> new, free |-> r.free] \in Node(E)
        BY <4>1, NodeMade
      <4> QED
        BY <3>4, <4>2
    <3>6. l[b] = [prev |-> r.prev, next |-> new, free |-> FALSE]
      BY <3>3, <3>4, <3>5, FreeChanged
    <3> QED
      BY <3>6 DEF r
  <2>b. e \in D => l[e] = [prev |-> new, next |-> list[e].next, free |-> list[e].free]
    <3> DEFINE r == list[e]
    <3>1. e \in D => r \in Node(D)
      BY <2>d
    <3>2. e \in D => l[e] = [r EXCEPT !.prev = new]
      BY <2>3, <2>5
    <3> HIDE DEF r
    <3>3. e \in D => l[e] = [prev |-> new, next |-> r.next, free |-> r.free]
      BY <3>1, <3>2, PrevChanged
    <3> QED
      BY <3>3 DEF r
  <2>6. /\ l[new].prev = b /\ l[new].next = e /\ l[new].free = TRUE
        /\ l[b].next = new /\ l[b].free = FALSE /\ l[b].prev = list[b].prev
        /\ \A c \in D : c # b => /\ l[c].next = list[c].next
                                 /\ l[c].free = list[c].free
                                 /\ l[c].prev = IF c = e THEN new ELSE list[c].prev
    <3>1. /\ l[new].prev = b /\ l[new].next = e /\ l[new].free = TRUE
      BY <2>5
    <3>2. /\ l[b].next = new /\ l[b].free = FALSE /\ l[b].prev = list[b].prev
      BY <2>a
    <3>3. ASSUME NEW c \in D, c # b
          PROVE  /\ l[c].next = list[c].next /\ l[c].free = list[c].free
                 /\ l[c].prev = IF c = e THEN new ELSE list[c].prev
      <4>1. CASE c = e
        <5>1. l[c] = [prev |-> new, next |-> list[c].next, free |-> list[c].free]
          BY <2>b, <4>1
        <5> QED
          BY <4>1, <5>1
      <4>2. CASE c # e
        BY <2>5, <3>3, <4>2
      <4> QED
        BY <4>1, <4>2
    <3> QED
      BY <3>1, <3>2, <3>3
  <2>7. ASSUME NEW c \in E PROVE l[c] \in Node(E)
    <3>1. CASE c = new
      <4>1. b \in {NoHeader} \cup E /\ e \in E \cup {OverBlock}
        BY <1>1 DEF e
      <4>2. [prev |-> b, next |-> e, free |-> TRUE] \in Node(E)
        BY <4>1, NodeMade
      <4> QED
        BY <2>5, <3>1, <4>2
    <3>2. CASE c = b
      <4>1. list[b].prev \in {NoHeader} \cup E
        BY <2>0
      <4>2. [prev |-> list[b].prev, next |-> new, free |-> FALSE] \in Node(E)
        BY <4>1, NodeMade
      <4> QED
        BY <2>a, <3>2, <4>2
    <3>3. CASE c = e /\ c # new
      BY <2>0, <2>b, <3>3, NodeMade
    <3>4. CASE c # new /\ c # b /\ c # e
      <4>1. c \in D /\ l[c] = list[c]
        BY <2>5, <3>4
      <4>2. l[c] = [prev |-> list[c].prev, next |-> list[c].next, free |-> list[c].free]
        BY <2>0, <4>1
      <4> QED
        BY <2>0, <4>1, <4>2, NodeMade
    <3> QED
      BY <3>1, <3>2, <3>3, <3>4
  <2>8. l \in [E -> Node(E)]
    BY <2>1, <2>4, <2>7
  <2>9. ASSUME NEW c \in E PROVE l[c].next > c + Header
    <3>1. \A d \in D : list[d].next > d + Header
      BY DEF Linked
    <3> QED
      BY <2>2, <2>6, <3>1
  <2>10. ASSUME NEW c \in E, NEW d \in E, d > c PROVE l[c].next <= d
    <3>1. \A x, y \in D : y > x => list[x].next <= y
      BY DEF Linked
    <3>2. \A x \in D : x \in Nat /\ list[x].next \in Nat /\ x < list[x].next
      BY HeadersTyped
    <3>3. CASE c = b
      <4>1. d # new => e <= d
        BY <2>10, <3>1, <3>3 DEF e
      <4> QED
        BY <1>1, <2>2, <2>6, <3>2, <3>3, <4>1
    <3>4. CASE c = new
      <4>1. d # new /\ d \in D /\ d > b
        BY <1>1, <2>2, <2>10, <3>2, <3>4
      <4>2. e <= d
        BY <3>1, <4>1 DEF e
      <4> QED
        BY <2>6, <3>4, <4>2
    <3>5. CASE c # b /\ c # new /\ d = new
      <4>1. c \in D /\ ~ (c > b)
        <5>1. c > b => e <= c
          BY <3>1, <3>5 DEF e
        <5> QED
          BY <1>1, <2>2, <2>10, <3>2, <3>5, <5>1
      <4>2. c < b
        BY <1>1, <3>2, <3>5, <4>1
      <4>3. list[c].next <= b
        BY <3>1, <4>1, <4>2
      <4> QED
        BY <1>1, <2>2, <2>6, <3>2, <3>5, <4>1, <4>3
    <3>6. CASE c # b /\ c # new /\ d # new
      BY <2>6, <2>10, <3>1, <3>6
    <3> QED
      BY <3>3, <3>4, <3>5, <3>6
  <2>11. ASSUME NEW c \in E
         PROVE  IF c = First THEN l[c].prev = NoHeader
                ELSE l[c].prev \in E /\ l[l[c].prev].next = c
    <3>1. \A x \in D : IF x = First THEN list[x].prev = NoHeader
                       ELSE list[x].prev \in D /\ list[list[x].prev].next = x
      BY DEF Linked
    <3>2. CASE c = new
      BY <2>3, <2>6, <3>2
    <3>3. CASE c = e /\ c # new
      <4>1. c # First /\ c # b /\ c \in D
        BY <1>1, <2>2, <2>3, <3>3
      <4> QED
        BY <2>6, <3>3, <4>1
    <3>4. CASE c # e /\ c # new
      <4>1. c \in D /\ l[c].prev = list[c].prev
        BY <2>6, <3>4
      <4>2. c # First => list[c].prev # b
        BY <3>1, <3>4, <4>1 DEF e
      <4> QED
        BY <2>6, <3>1, <4>1, <4>2
    <3> QED
      BY <3>2, <3>3, <3>4
  <2>12. E \subseteq First..(OverBlock - 1)
    <3>1. D \subseteq First..(OverBlock - 1)
      BY DEF Linked
    <3> QED
      BY <1>1, <2>2, <3>1
  <2>13. Linked(l)
    BY <1>1, <2>4, <2>8, <2>9, <2>10, <2>11, <2>12 DEF Linked, Node
  <2>14. Merged(l)
    <3> SUFFICES ASSUME NEW c \in E, l[c].free, l[c].next # OverBlock
                 PROVE  ~l[l[c].next].free
      BY <2>4 DEF Merged
    <3>1. c # b
      BY <2>6
    <3>2. CASE c = new
      <4>1. e \in D /\ e # b
        BY <1>1, <2>3, <2>6, <3>2
      <4> QED
        BY <1>3, <2>6, <3>2, <4>1 DEF e
    <3>3. CASE c # new
      <4>1. c \in D /\ list[c].free /\ list[c].next # OverBlock /\ l[c].next = list[c].next
        BY <2>6, <3>1, <3>3
      <4>2. list[c].next \in D /\ ~list[list[c].next].free
        BY <4>1, HeadersTyped DEF Merged
      <4> QED
        BY <2>6, <4>1, <4>2
    <3> QED
      BY <3>2, <3>3
  <2> QED
    BY <1>1, <2>4, <2>6, <2>13, <2>14 DEF new
<1> QED
  BY <1>4, <1>5

(* What is between f and t is taken out.                                    *)
Cut(m, f, t) ==
    [c \in {d \in DOMAIN m : d <= f \/ d >= t} |->
        CASE c = f -> [m[c] EXCEPT !.next = t]
          [] c = t -> [m[c] EXCEPT !.prev = f]
          [] OTHER -> m[c]]

(* The list stays linked both ways.                                         *)
LEMMA CutRight ==
    ASSUME NEW m, Linked(m), NEW f \in DOMAIN m, NEW t \in DOMAIN m \cup {OverBlock}, f < t,
           NEW l, l = Cut(m, f, t)
    PROVE  /\ DOMAIN l = {d \in DOMAIN m : d <= f \/ d >= t}
           /\ Linked(l)
           /\ \A c \in DOMAIN l : /\ l[c].next = IF c = f THEN t ELSE m[c].next
                                  /\ l[c].prev = IF c = t THEN f ELSE m[c].prev
                                  /\ l[c].free = m[c].free
<1> DEFINE D == DOMAIN m
           E == {d \in D : d <= f \/ d >= t}
<1>1. DOMAIN l = E
  BY DEF Cut
<1>2. l = [c \in E |-> l[c]]
  BY DEF Cut
<1>3. /\ First \in D /\ First \in Nat /\ OverBlock \in Nat /\ NoHeader = 0
      /\ \A c \in D : c \in Nat /\ First <= c /\ c < OverBlock /\ NoHeader < c
  <2>1. First \in D
    BY DEF Linked
  <2> QED
    BY <2>1, HeadersTyped, Addresses
<1>7. E = {d \in D : d <= f \/ d >= t}
  OBVIOUS
<1>8. f \in D /\ f \in Nat /\ t \in Nat /\ f < t /\ t <= OverBlock /\ t \in D \cup {OverBlock}
  BY <1>3
<1>10. \A c \in D : /\ m[c].next \in D \cup {OverBlock} /\ m[c].next \in Nat
                    /\ m[c].prev \in {NoHeader} \cup D /\ m[c].prev \in Nat
                    /\ c < m[c].next /\ m[c].prev < c /\ c + Header < m[c].next
                    /\ m[c].next <= OverBlock
  <2>1. \A c \in D : c + Header < m[c].next
    BY DEF Linked
  <2> QED
    BY <2>1, HeadersTyped, PrevIs
<1>11. \A c, d \in D : d > c => m[c].next <= d /\ c <= m[d].prev
  BY PrevIs DEF Linked
<1>12. \A c \in D : m[c] \in Node(D)
  BY DEF Linked, Node
<1>13. E \subseteq D /\ f \in E /\ (t \in D => t \in E)
  BY <1>3, <1>8
<1>14. \A c \in E : l[c] = IF c = f THEN [m[c] EXCEPT !.next = t]
                           ELSE IF c = t THEN [m[c] EXCEPT !.prev = f] ELSE m[c]
  BY <1>8, <1>3 DEF Cut
<1>15. ASSUME NEW c \in E
       PROVE  /\ l[c] = [prev |-> l[c].prev, next |-> l[c].next, free |-> l[c].free]
              /\ l[c].next = IF c = f THEN t ELSE m[c].next
              /\ l[c].prev = IF c = t THEN f ELSE m[c].prev
              /\ l[c].free = m[c].free
  <2> DEFINE r == m[c]
             q == l[c]
  <2>1. r \in Node(D)
    BY <1>12, <1>13
  <2>2. f # t
    BY <1>3, <1>8
  <2>3. CASE c = f
    <3>1. q = [r EXCEPT !.next = t]
      BY <1>14, <2>3
    <3> HIDE DEF r, q
    <3>2. /\ q = [prev |-> r.prev, next |-> t, free |-> r.free]
          /\ q.prev = r.prev /\ q.next = t /\ q.free = r.free
      BY <2>1, <3>1, NextChanged
    <3> QED
      BY <2>2, <2>3, <3>2 DEF r, q
  <2>4. CASE c = t
    <3>1. q = [r EXCEPT !.prev = f]
      BY <1>14, <2>2, <2>4
    <3> HIDE DEF r, q
    <3>2. /\ q = [prev |-> f, next |-> r.next, free |-> r.free]
          /\ q.prev = f /\ q.next = r.next /\ q.free = r.free
      BY <2>1, <3>1, PrevChanged
    <3> QED
      BY <2>2, <2>4, <3>2 DEF r, q
  <2>5. CASE c # f /\ c # t
    <3>1. q = r
      BY <1>14, <2>5
    <3> HIDE DEF r, q
    <3>2. r = [prev |-> r.prev, next |-> r.next, free |-> r.free]
      BY <2>1, NodeTyped
    <3> QED
      BY <2>5, <3>1, <3>2 DEF r, q
  <2> QED
    BY <2>3, <2>4, <2>5
<1> HIDE DEF D, E
<1>16. ASSUME NEW c \in E
       PROVE  /\ l[c].next \in E \cup {OverBlock} /\ l[c].prev \in {NoHeader} \cup E
              /\ l[c].free \in BOOLEAN
  <2>1. c \in D /\ c \in Nat /\ (c <= f \/ c >= t)
    BY <1>3, <1>7
  <2>2. l[c].free \in BOOLEAN
    BY <1>12, <1>15, <2>1, NodeTyped
  <2>3. l[c].next \in E \cup {OverBlock}
    <3>1. CASE c = f
      BY <1>8, <1>13, <1>15, <3>1
    <3>2. CASE c # f
      <4>1. m[c].next <= f \/ m[c].next >= t
        <5> DEFINE n == m[c].next
        <5>1. n \in Nat /\ c < n /\ (c < f => n <= f)
          BY <1>8, <1>10, <1>11, <2>1
        <5> HIDE DEF n
        <5>2. n <= f \/ n >= t
          BY <1>8, <2>1, <3>2, <5>1
        <5> QED
          BY <5>2 DEF n
      <4> QED
        BY <1>7, <1>10, <1>15, <2>1, <3>2, <4>1
    <3> QED
      BY <3>1, <3>2
  <2>4. l[c].prev \in {NoHeader} \cup E
    <3>1. CASE c = t
      BY <1>13, <1>15, <3>1
    <3>2. CASE c # t
      <4>1. c > t => t \in D
        BY <1>3, <1>8, <2>1
      <4>2. m[c].prev <= f \/ m[c].prev >= t
        <5> DEFINE p == m[c].prev
        <5>1. p \in Nat /\ p < c /\ (c > t => t <= p)
          BY <1>8, <1>10, <1>11, <2>1, <4>1
        <5> HIDE DEF p
        <5>2. p <= f \/ p >= t
          BY <1>8, <2>1, <3>2, <5>1
        <5> QED
          BY <5>2 DEF p
      <4> QED
        BY <1>7, <1>10, <1>15, <2>1, <3>2, <4>2
    <3> QED
      BY <3>1, <3>2
  <2> QED
    BY <2>2, <2>3, <2>4
<1>17. l \in [E -> Node(E)]
  <2>1. \A c \in E : l[c] \in Node(E)
    <3> SUFFICES ASSUME NEW c \in E PROVE l[c] \in Node(E)
      OBVIOUS
    <3>1. [prev |-> l[c].prev, next |-> l[c].next, free |-> l[c].free] \in Node(E)
      BY <1>16, NodeMade
    <3> QED
      BY <1>15, <3>1
  <2> QED
    BY <1>2, <2>1
<1>18. ASSUME NEW c \in E
       PROVE  /\ l[c].next > c + Header
              /\ \A d \in E : d > c => l[c].next <= d
              /\ IF c = First THEN l[c].prev = NoHeader
                 ELSE l[c].prev \in E /\ l[l[c].prev].next = c
  <2>1. c \in D /\ c \in Nat /\ (c <= f \/ c >= t)
    BY <1>3, <1>7
  <2>2. m[f].next <= t
    BY <1>8, <1>10, <1>11
  <2>3. l[c].next > c + Header
    <3>1. c + Header < m[c].next /\ m[c].next \in Nat /\ Header \in Nat
      BY <1>10, <2>1, Addresses
    <3>2. CASE c = f
      <4> DEFINE n == m[f].next
      <4>1. n \in Nat /\ f + Header < n /\ n <= t /\ l[c].next = t
        BY <1>15, <2>2, <3>1, <3>2
      <4> HIDE DEF n
      <4> QED
        BY <1>8, <3>1, <3>2, <4>1
    <3>3. CASE c # f
      BY <1>15, <3>1, <3>3
    <3> QED
      BY <3>2, <3>3
  <2>4. ASSUME NEW d \in E, d > c PROVE l[c].next <= d
    <3>1. d \in D /\ d \in Nat /\ (d <= f \/ d >= t)
      BY <1>3, <1>7
    <3>2. CASE c = f
      <4>1. l[c].next = t
        BY <1>15, <3>2
      <4> QED
        BY <1>8, <2>4, <3>1, <3>2, <4>1
    <3>3. CASE c # f
      BY <1>11, <1>15, <2>1, <2>4, <3>1, <3>3
    <3> QED
      BY <3>2, <3>3
  <2>5. CASE c = First
    <3>1. c # t
      BY <1>3, <1>8, <2>5
    <3>2. m[c].prev = NoHeader
      BY <2>1, <2>5 DEF Linked, D
    <3> QED
      BY <1>15, <2>3, <2>4, <2>5, <3>1, <3>2
  <2>6. CASE c # First
    <3>1. m[c].prev \in D /\ m[m[c].prev].next = c
      BY <2>1, <2>6 DEF Linked, D
    <3>2. CASE c = t
      BY <1>13, <1>15, <2>3, <2>4, <2>6, <3>2
    <3>3. CASE c # t
      <4>a. l[c].prev = m[c].prev /\ l[c].prev \in {NoHeader} \cup E
        BY <1>15, <1>16, <3>3
      <4>b. NoHeader \notin D
        BY <1>3
      <4>1. l[c].prev = m[c].prev /\ l[c].prev \in E
        BY <3>1, <4>a, <4>b
      <4>2. m[c].prev # f
        <5> SUFFICES ASSUME m[c].prev = f PROVE FALSE
          OBVIOUS
        <5>1. c > f /\ c <= t
          BY <1>10, <2>1, <2>2, <3>1
        <5> QED
          BY <1>8, <2>1, <3>3, <5>1
      <4>3. l[l[c].prev].next = c
        BY <1>15, <3>1, <4>1, <4>2
      <4> QED
        BY <2>3, <2>4, <2>6, <4>1, <4>3
    <3> QED
      BY <3>2, <3>3
  <2> QED
    BY <2>5, <2>6
<1>19. Linked(l)
  <2>1. E \subseteq First..(OverBlock - 1)
    <3>1. D \subseteq First..(OverBlock - 1)
      BY DEF Linked, D
    <3> QED
      BY <1>13, <3>1
  <2>2. First \in E
    BY <1>3, <1>7, <1>8
  <2> QED
    BY <1>1, <1>17, <1>18, <2>1, <2>2 DEF Linked, Node
<1> QED
  BY <1>1, <1>15, <1>19 DEF D, E

(* The list with b free, as it is handed to mergeFreeBlocks.                *)
Freed(m, b) ==
    /\ DOMAIN m = DOMAIN list /\ Linked(m)
    /\ \A c \in DOMAIN list :
        /\ m[c].next = list[c].next /\ m[c].prev = list[c].prev
        /\ m[c].free <=> (c = b \/ list[c].free)

(* mergeFreeBlocks takes away only headers of free blocks, and no two free  *)
(* blocks are neighbours after it.                                          *)
LEMMA MergeRight ==
    ASSUME Linked(list), Merged(list), NEW b \in DOMAIN list,
           NEW m, Freed(m, b),
           NEW l, l = MergeFreeBlocks(m, b)
    PROVE  /\ Linked(l) /\ Merged(l)
           /\ \A c \in DOMAIN list : c # b /\ ~list[c].free =>
                 c \in DOMAIN l /\ l[c].next = list[c].next /\ ~l[c].free
<1> DEFINE D == DOMAIN list
           free(c) == c \in DOMAIN m /\ m[c].free
           before == {c \in Back(b) \ {NoHeader} : ~free(m[c].prev)}
           behind == {c \in From(b) : ~free(c)}
           first_free == Max(before)
           last_free  == Min(behind)
<1>1. l = Cut(m, first_free, last_free)
  BY DEF MergeFreeBlocks, Cut
<1>2. /\ DOMAIN m = D /\ Linked(m)
      /\ \A c \in D : /\ m[c].next = list[c].next /\ m[c].prev = list[c].prev
                      /\ m[c].free <=> (c = b \/ list[c].free)
  BY DEF Freed
<1>3. /\ b \in D /\ b \in Nat /\ First \in D /\ First \in Nat /\ OverBlock \in Nat
      /\ NoHeader = 0
      /\ \A c \in D : c \in Nat /\ First <= c /\ c < OverBlock /\ NoHeader < c
  <2>1. First \in D
    BY DEF Linked
  <2> QED
    BY <2>1, HeadersTyped, Addresses
<1>4. /\ before = {c \in D : c <= b /\ ~free(m[c].prev)}
      /\ behind = {c \in D \cup {OverBlock} : c >= b /\ ~free(c)}
  <2>1. Back(b) = {c \in D \cup {NoHeader} : c <= b}
    BY BackIs
  <2>2. From(b) = {c \in D \cup {OverBlock} : c >= b}
    BY FromIs
  <2>3. NoHeader \notin D
    BY <1>3
  <2> HIDE DEF free, D
  <2> QED
    BY <2>1, <2>2, <2>3
<1>a. (\A c \in D : free(c) <=> m[c].free) /\ (\A c : free(c) => c \in D)
  BY <1>2
<1> HIDE DEF free, D, first_free, last_free, before, behind
<1>5. /\ first_free \in D /\ first_free <= b /\ ~free(m[first_free].prev)
      /\ \A c \in D : c > first_free /\ c <= b => free(m[c].prev)
  <2>1. First \in before
    <3>1. m[First].prev = NoHeader /\ NoHeader \notin D
      BY <1>2, <1>3 DEF Linked
    <3> QED
      BY <1>3, <1>4, <1>a, <3>1
  <2>2. before \in SUBSET (0..OverBlock)
    BY <1>3, <1>4
  <2>3. first_free \in before /\ \A c \in before : c <= first_free
    BY <1>3, <2>1, <2>2, MaxIs DEF first_free
  <2>4. first_free \in D /\ first_free <= b /\ ~free(m[first_free].prev) /\ first_free \in Nat
    BY <1>3, <1>4, <2>3
  <2>5. ASSUME NEW c \in D, c > first_free, c <= b PROVE free(m[c].prev)
    <3>1. c \notin before
      BY <1>3, <2>3, <2>4, <2>5
    <3> QED
      BY <1>4, <2>5, <3>1
  <2> QED
    BY <2>4, <2>5
<1>6. /\ last_free \in D \cup {OverBlock} /\ last_free > b /\ ~free(last_free)
      /\ \A c \in D : c >= b /\ c < last_free => free(c)
      /\ last_free \in Nat
  <2>1. OverBlock \in behind
    BY <1>3, <1>4, <1>a
  <2>2. behind \in SUBSET Nat
    BY <1>3, <1>4
  <2>3. free(b)
    BY <1>2, <1>3, <1>a
  <2>4. last_free \in behind /\ \A c \in behind : last_free <= c
    BY <2>1, <2>2, MinIs DEF last_free
  <2>5. last_free \in D \cup {OverBlock} /\ last_free >= b /\ ~free(last_free) /\ last_free \in Nat
    BY <1>3, <1>4, <2>4
  <2>6. last_free # b
    BY <2>3, <2>5
  <2>7. ASSUME NEW c \in D, c >= b, c < last_free PROVE free(c)
    <3>1. c \notin behind
      BY <1>3, <2>4, <2>5, <2>7
    <3> QED
      BY <1>4, <2>7, <3>1
  <2> QED
    BY <1>3, <2>5, <2>6, <2>7
<1> DEFINE f == first_free
           t == last_free
           E == DOMAIN l
<1>8. /\ f \in D /\ f \in Nat /\ t \in Nat /\ f <= b /\ b < t
      /\ t \in D \cup {OverBlock} /\ t <= OverBlock
  BY <1>3, <1>5, <1>6
<1>9. ASSUME NEW c \in D, c >= f, c < t PROVE free(c)
  <2>1. CASE c >= b
    BY <1>6, <1>9, <2>1
  <2>2. CASE c < b
    <3> DEFINE n == m[c].next
    <3>1. n \in D /\ n <= b /\ m[n].prev = c
      BY <1>2, <1>3, <2>2, Before, PrevIs
    <3>2. n \in Nat /\ c < n
      BY <1>2, HeadersTyped
    <3> HIDE DEF n
    <3>3. free(m[n].prev)
      BY <1>3, <1>5, <1>8, <1>9, <3>1, <3>2
    <3> QED
      BY <3>1, <3>3
  <2> QED
    BY <1>3, <2>1, <2>2
<1> HIDE DEF f, t
<1>10. /\ E = {d \in D : d <= f \/ d >= t}
       /\ Linked(l)
       /\ \A c \in E : /\ l[c].next = IF c = f THEN t ELSE m[c].next
                       /\ l[c].free = m[c].free
  <2>1. l = Cut(m, f, t)
    BY <1>1 DEF f, t
  <2>2. f < t /\ f \in DOMAIN m /\ t \in DOMAIN m \cup {OverBlock} /\ Linked(m)
    BY <1>2, <1>3, <1>8
  <2> QED
    BY <1>2, <2>1, <2>2, CutRight DEF E
<1> HIDE DEF E
<1>11. \A c \in E : l[c].next \in E \cup {OverBlock} /\ c < l[c].next
  BY <1>10, HeadersTyped DEF E
<1>12. f \in E /\ (t \in D => t \in E) /\ E \subseteq D /\ OverBlock \notin D
  BY <1>3, <1>8, <1>10
<1>13. ~free(t) /\ ~free(m[f].prev)
  BY <1>5, <1>6 DEF f, t
<1>20. Merged(l)
  <2> SUFFICES ASSUME NEW c \in E, l[c].free, l[c].next # OverBlock
               PROVE  ~l[l[c].next].free
    BY DEF Merged, E
  <2>1. c \in D /\ m[c].free /\ l[c].next \in E /\ c \in Nat
    BY <1>3, <1>10, <1>11, <1>12
  <2>2. CASE c = f
    <3>1. l[c].next = t /\ t \in D /\ t \in E
      BY <1>10, <1>12, <2>1, <2>2
    <3>2. ~m[t].free
      BY <1>2, <1>13, <1>a, <3>1
    <3> QED
      BY <1>10, <3>1, <3>2
  <2>3. CASE c # f
    <3> DEFINE n == m[c].next
    <3>1. l[c].next = n /\ n \in D /\ n \in E /\ n # OverBlock /\ n \in Nat /\ c < n
      BY <1>3, <1>10, <1>11, <1>12, <2>1, <2>3
    <3>2. c # b
      <4>1. c = b => b < f
        BY <1>8, <1>10, <2>1, <2>3
      <4> QED
        BY <1>3, <1>8, <4>1
    <3>3. ~list[n].free
      BY <1>2, <2>1, <3>1, <3>2 DEF Merged, D
    <3>4. n # b
      <4> SUFFICES ASSUME n = b PROVE FALSE
        OBVIOUS
      <4>1. b = f
        BY <1>3, <1>8, <1>10, <3>1
      <4>2. m[f].prev = c
        BY <1>2, <2>1, <3>1, <4>1, PrevIs
      <4> QED
        BY <1>2, <1>13, <1>a, <2>1, <4>2
    <3>5. ~m[n].free
      BY <1>2, <3>1, <3>3, <3>4
    <3> HIDE DEF n
    <3> QED
      BY <1>10, <3>1, <3>5
  <2> QED
    BY <2>2, <2>3
<1>21. ASSUME NEW c \in D, c # b, ~list[c].free
       PROVE  c \in E /\ l[c].next = list[c].next /\ ~l[c].free
  <2>1. ~free(c) /\ ~m[c].free
    BY <1>2, <1>a, <1>21
  <2>2. ~ (c >= f /\ c < t)
    BY <1>9, <2>1
  <2>3. c \in E /\ c # f
    BY <1>3, <1>8, <1>10, <2>2
  <2> QED
    BY <1>2, <1>10, <2>1, <2>3
<1> QED
  BY <1>10, <1>20, <1>21 DEF D, E

(* What the program holds, and what the last failure says of the list.      *)
HeldRight ==
    /\ given \subseteq [address : First..OverBlock, size : 0..Largest]
    /\ \A g \in given :
        LET b == g.address - Header
        IN  b \in DOMAIN list /\ ~list[b].free /\ g.address + g.size <= list[b].next
    /\ \A g, h \in given : g.address = h.address => g = h

FailedRight ==
    /\ failed \in 0..(Largest + 1)
    /\ failed # 0 => /\ DOMAIN list # {}
                     /\ \A b \in DOMAIN list : list[b].free => Room(b) < failed

(* Inductive: Merged is what makes a failure of allocateMemory honest.      *)
UserInv == Linked(list) /\ Merged(list) /\ HeldRight /\ FailedRight

LEMMA NoList ==
    /\ DOMAIN [b \in {} |-> NoHeader] = {}
    /\ Linked([b \in {} |-> NoHeader]) /\ Merged([b \in {} |-> NoHeader])
    /\ Linked(list) /\ DOMAIN list = {} => list = [b \in {} |-> NoHeader]
<1> DEFINE e == [b \in {} |-> NoHeader]
<1>1. DOMAIN e = {}
  OBVIOUS
<1>2. e \in [{} -> [prev : {NoHeader} \cup {}, next : {} \cup {OverBlock}, free : BOOLEAN]]
  <2>1. e = [b \in {} |-> e[b]]
    OBVIOUS
  <2> QED
    BY <2>1
<1>3. ASSUME Linked(list), DOMAIN list = {} PROVE list = e
  <2>1. list = [b \in DOMAIN list |-> list[b]]
    BY <1>3 DEF Linked
  <2> QED
    BY <1>3, <2>1
<1> HIDE DEF e
<1>4. Linked(e) /\ Merged(e)
  <2>1. DOMAIN e \subseteq First..(OverBlock - 1)
    BY <1>1
  <2> QED
    BY <1>1, <1>2, <2>1 DEF Linked, Merged
<1> QED
  BY <1>1, <1>3, <1>4 DEF e

LEMMA UserInitRight == UserInit => UserInv
<1> SUFFICES ASSUME UserInit PROVE UserInv
  OBVIOUS
<1>1. Linked(list) /\ Merged(list)
  BY NoList DEF UserInit
<1>2. HeldRight
  BY DEF UserInit, HeldRight
<1>3. FailedRight
  BY Addresses DEF UserInit, FailedRight
<1> QED
  BY <1>1, <1>2, <1>3 DEF UserInv

(* Before malloc_init nothing is held.                                      *)
LEMMA MallocInitRight == UserInv /\ UserMallocInit => UserInv'
<1> SUFFICES ASSUME UserInv, UserMallocInit PROVE UserInv'
  OBVIOUS
<1>1. DOMAIN list = {}
  BY NoList DEF UserMallocInit
<1>2. given' = {} /\ failed' = 0
  BY <1>1 DEF UserInv, HeldRight, FailedRight, UserMallocInit
<1> DEFINE l == [b \in {First} |-> [prev |-> NoHeader, next |-> OverBlock, free |-> TRUE]]
<1>3. list' = l
  BY DEF UserMallocInit
<1>4. /\ DOMAIN l = {First} /\ l[First].prev = NoHeader /\ l[First].next = OverBlock
      /\ l \in [{First} -> [prev : {NoHeader} \cup {First},
                            next : {First} \cup {OverBlock}, free : BOOLEAN]]
  OBVIOUS
<1> HIDE DEF l
<1>5. Linked(l)
  <2>1. /\ DOMAIN l \subseteq First..(OverBlock - 1) /\ First \in DOMAIN l
        /\ OverBlock > First + Header
    BY <1>4, Addresses
  <2>2. ASSUME NEW b \in DOMAIN l
        PROVE  /\ l[b].next > b + Header
               /\ \A c \in DOMAIN l : c > b => l[b].next <= c
               /\ b = First /\ l[b].prev = NoHeader
    BY <1>4, <2>1, <2>2, Addresses
  <2> QED
    BY <1>4, <2>1, <2>2 DEF Linked
<1>6. Merged(l)
  BY <1>4 DEF Merged
<1>7. HeldRight'
  BY <1>2 DEF HeldRight
<1>8. FailedRight'
  BY <1>2, Addresses DEF FailedRight
<1> QED
  BY <1>3, <1>5, <1>6, <1>7, <1>8 DEF UserInv

(* The first block that fits is no one's, so nothing that is held changes.  *)
LEMMA AllocateRight ==
    ASSUME UserInv, NEW n \in 1..(Largest + 1), AllocateMemory(n)
    PROVE  UserInv'
<1> DEFINE D == DOMAIN list
<1>0. /\ Linked(list) /\ Merged(list) /\ HeldRight /\ FailedRight
      /\ First \in Nat /\ Header \in Nat \ {0} /\ OverBlock \in Nat /\ Largest \in Nat
      /\ Largest = OverBlock - First - Header /\ n \in Nat \ {0}
  BY Addresses DEF UserInv
<1>1. D # {}
  BY <1>0, NoList DEF AllocateMemory
<1>2. Fits(n) = {b \in D : list[b].free /\ Room(b) >= n}
  BY <1>0, <1>1, BlocksAre DEF Fits
<1>3. \A b \in D : /\ b \in Nat /\ First <= b /\ b < OverBlock
                   /\ list[b].next \in Nat /\ list[b].next <= OverBlock
                   /\ Room(b) = list[b].next - b - Header /\ Room(b) \in Int
  BY <1>0, HeadersTyped DEF Room
<1>4. CASE Fits(n) = {}
  <2>1. failed' = n /\ list' = list /\ given' = given
    BY <1>4 DEF AllocateMemory
  <2>2. \A b \in D : list[b].free => Room(b) < n
    BY <1>0, <1>2, <1>3, <1>4
  <2>3. FailedRight'
    BY <1>0, <1>1, <2>1, <2>2 DEF FailedRight, Room
  <2>4. HeldRight'
    BY <1>0, <2>1 DEF HeldRight
  <2> QED
    BY <1>0, <2>1, <2>3, <2>4 DEF UserInv
<1>5. CASE Fits(n) # {}
  <2> DEFINE b == Min(Fits(n))
             new == [address |-> b + Header, size |-> n]
  <2>1. b \in D /\ list[b].free /\ Room(b) >= n
    <3>1. Fits(n) \in SUBSET Nat
      BY <1>2, <1>3
    <3>2. b \in Fits(n)
      BY <1>5, <3>1, MinIs
    <3> HIDE DEF b
    <3> QED
      BY <1>2, <3>2
  <2>2. list' = Split(b, n) /\ given' = given \cup {new} /\ failed' = 0
    BY <1>5 DEF AllocateMemory
  <2> HIDE DEF b
  <2>3. /\ Linked(list') /\ Merged(list')
        /\ D \subseteq DOMAIN list'
        /\ ~list'[b].free /\ b + Header + n <= list'[b].next
        /\ \A c \in D : c # b => /\ list'[c].next = list[c].next
                                 /\ list'[c].free = list[c].free
    BY <1>0, <2>1, <2>2, SplitRight
  <2>4. FailedRight'
    BY <1>0, <2>2 DEF FailedRight
  <2>5. /\ new.address = b + Header /\ new.size = n /\ new.address - Header = b
        /\ new \in [address : First..OverBlock, size : 0..Largest]
    <3>1. b + Header \in First..OverBlock /\ n \in 0..Largest /\ (b + Header) - Header = b
      BY <1>0, <1>3, <2>1
    <3> QED
      BY <3>1
  <2> HIDE DEF new
  <2>6. ASSUME NEW g \in given
        PROVE  /\ g.address - Header \in D /\ g.address - Header # b
               /\ g.address \in Nat /\ g.size \in Nat
               /\ ~list'[g.address - Header].free
               /\ g.address + g.size <= list'[g.address - Header].next
    <3> DEFINE c == g.address - Header
    <3>1. c \in D /\ ~list[c].free /\ g.address + g.size <= list[c].next
      BY <1>0 DEF HeldRight
    <3>2. g.address \in Nat /\ g.size \in Nat
      <4>1. g \in [address : First..OverBlock, size : 0..Largest]
        BY <1>0 DEF HeldRight
      <4> QED
        BY <1>0, <4>1
    <3> HIDE DEF c
    <3>3. c # b
      BY <2>1, <3>1
    <3>4. ~list'[c].free /\ g.address + g.size <= list'[c].next
      BY <2>3, <3>1, <3>3
    <3> QED
      BY <3>1, <3>2, <3>3, <3>4 DEF c
  <2>7. HeldRight'
    <3>1. given' \subseteq [address : First..OverBlock, size : 0..Largest]
      BY <1>0, <2>2, <2>5 DEF HeldRight
    <3>2. ASSUME NEW g \in given'
          PROVE  /\ g.address - Header \in DOMAIN list' /\ ~list'[g.address - Header].free
                 /\ g.address + g.size <= list'[g.address - Header].next
      <4>1. CASE g = new
        BY <2>1, <2>3, <2>5, <4>1
      <4>2. CASE g # new
        BY <2>2, <2>3, <2>6, <4>2
      <4> QED
        BY <4>1, <4>2
    <3>3. ASSUME NEW g \in given', NEW h \in given', g.address = h.address PROVE g = h
      <4>1. g = new => h = new
        BY <2>2, <2>5, <2>6, <3>3
      <4>2. h = new => g = new
        BY <2>2, <2>5, <2>6, <3>3
      <4>3. CASE g # new /\ h # new
        BY <1>0, <2>2, <3>3, <4>3 DEF HeldRight
      <4> QED
        BY <4>1, <4>2, <4>3
    <3> QED
      BY <3>1, <3>2, <3>3 DEF HeldRight
  <2> QED
    BY <2>3, <2>4, <2>7 DEF UserInv
<1> QED
  BY <1>4, <1>5

(* The header in front of an address is on the list, and of no other block. *)
LEMMA FreeRight ==
    ASSUME UserInv, NEW g \in given, FreeMemory(g)
    PROVE  UserInv'
<1> DEFINE D == DOMAIN list
           b == g.address - Header
           m == [list EXCEPT ![b].free = TRUE]
<1>0. /\ Linked(list) /\ Merged(list) /\ HeldRight /\ FailedRight
      /\ Header \in Nat /\ Largest \in Nat /\ First \in Nat /\ OverBlock \in Nat
  BY Addresses DEF UserInv
<1>1. b \in D
  BY <1>0 DEF HeldRight
<1>2. b \in Blocks
  BY <1>0, <1>1, BlocksAre
<1>3. list' = MergeFreeBlocks(m, b) /\ given' = given \ {g} /\ failed' = 0
  BY <1>2 DEF FreeMemory
<1>4. Freed(m, b)
  <2>1. PICK v \in BOOLEAN : v = TRUE
    OBVIOUS
  <2>2. m = Flag(b, v)
    BY <2>1 DEF Flag
  <2> HIDE DEF m, b
  <2>3. /\ DOMAIN m = D /\ Linked(m)
        /\ \A c \in D : /\ m[c].next = list[c].next /\ m[c].prev = list[c].prev
                        /\ m[c].free = IF c = b THEN v ELSE list[c].free
    BY <1>0, <1>1, <2>2, FlagSet
  <2>4. \A c \in D : m[c].free <=> (c = b \/ list[c].free)
    BY <2>1, <2>3
  <2> QED
    BY <2>3, <2>4 DEF Freed
<1> HIDE DEF m
<1>5. \A h \in given : h # g => h.address - Header # b
  <2> SUFFICES ASSUME NEW h \in given, h # g, h.address - Header = b PROVE FALSE
    OBVIOUS
  <2>1. h.address \in Nat /\ g.address \in Nat
    <3>1. /\ h \in [address : First..OverBlock, size : 0..Largest]
          /\ g \in [address : First..OverBlock, size : 0..Largest]
      BY <1>0 DEF HeldRight
    <3> QED
      BY <1>0, <3>1
  <2>2. h.address = g.address
    BY <1>0, <2>1
  <2> QED
    BY <1>0, <2>2 DEF HeldRight
<1> HIDE DEF b
<1>6. /\ Linked(list') /\ Merged(list')
      /\ \A c \in D : c # b /\ ~list[c].free =>
            c \in DOMAIN list' /\ list'[c].next = list[c].next /\ ~list'[c].free
  BY <1>0, <1>1, <1>3, <1>4, MergeRight
<1>7. ASSUME NEW h \in given'
      PROVE  /\ h.address - Header \in DOMAIN list' /\ ~list'[h.address - Header].free
             /\ h.address + h.size <= list'[h.address - Header].next
  <2>1. h \in given /\ h # g
    BY <1>3
  <2> DEFINE c == h.address - Header
  <2>2. c \in D /\ ~list[c].free /\ h.address + h.size <= list[c].next
    BY <1>0, <2>1 DEF HeldRight
  <2>3. c # b
    BY <1>5, <2>1
  <2> HIDE DEF c
  <2>4. c \in DOMAIN list' /\ ~list'[c].free /\ h.address + h.size <= list'[c].next
    BY <1>6, <2>2, <2>3
  <2> QED
    BY <2>4 DEF c
<1>8. HeldRight'
  <2>1. given' \subseteq [address : First..OverBlock, size : 0..Largest]
    BY <1>0, <1>3 DEF HeldRight
  <2>2. \A h, i \in given' : h.address = i.address => h = i
    BY <1>0, <1>3 DEF HeldRight
  <2> QED
    BY <1>7, <2>1, <2>2 DEF HeldRight
<1>9. FailedRight'
  BY <1>0, <1>3 DEF FailedRight
<1> QED
  BY <1>6, <1>8, <1>9 DEF UserInv

(* Every step of a program keeps the invariant.                             *)
LEMMA UserStep == UserInv /\ UserNext => UserInv'
<1> SUFFICES ASSUME UserInv, UserNext PROVE UserInv'
  OBVIOUS
<1>1. CASE UserMallocInit
  BY <1>1, MallocInitRight
<1>2. ASSUME NEW n \in 1..(Largest + 1), AllocateMemory(n) PROVE UserInv'
  BY <1>2, AllocateRight
<1>3. ASSUME NEW g \in given, FreeMemory(g) PROVE UserInv'
  BY <1>3, FreeRight
<1> QED
  BY <1>1, <1>2, <1>3 DEF UserNext

LEMMA UserInvTyped == UserInv => UserTypeOK
<1> SUFFICES ASSUME UserInv PROVE UserTypeOK
  OBVIOUS
<1>1. /\ DOMAIN list \subseteq First..(OverBlock - 1)
      /\ \A b \in DOMAIN list :
            list[b] \in [prev : {NoHeader} \cup DOMAIN list,
                         next : DOMAIN list \cup {OverBlock}, free : BOOLEAN]
  BY DEF UserInv, Linked
<1>2. /\ given \subseteq [address : First..OverBlock, size : 0..Largest]
      /\ failed \in 0..(Largest + 1)
  BY DEF UserInv, HeldRight, FailedRight
<1> QED
  BY <1>1, <1>2 DEF UserTypeOK

(* A gap without a block in use lies within one free block, for no two of   *)
(* them are neighbours.                                                     *)
LEMMA GapIsOneBlock ==
    ASSUME Linked(list), Merged(list), DOMAIN list # {},
           NEW from \in First..OverBlock, NEW to \in Nat, from < to, to <= OverBlock,
           Gap(from, to)
    PROVE  \E b \in DOMAIN list : list[b].free /\ b <= from /\ to <= list[b].next
<1> DEFINE D == DOMAIN list
<1>0. /\ First \in D /\ First \in Nat /\ OverBlock \in Nat /\ from \in Nat
      /\ \A b \in D : /\ b \in Nat /\ b < OverBlock /\ b < list[b].next
                      /\ list[b].next \in D \cup {OverBlock} /\ list[b].next \in Nat
                      /\ list[b].free \in BOOLEAN
  <2>1. First \in D
    BY DEF Linked
  <2> QED
    BY <2>1, Addresses, HeadersTyped
<1>1. \A b \in D : ~list[b].free => b >= to \/ list[b].next <= from
  BY DEF Gap, InUse
<1> DEFINE below == {b \in D : b <= from}
<1>2. PICK b \in below : \A c \in below : c <= b
  <2>1. below \in SUBSET (0..OverBlock) /\ First \in below
    BY <1>0
  <2> HIDE DEF below
  <2> QED
    BY <1>0, <2>1, Greatest
<1>3. b \in D /\ b <= from
  BY <1>2
<1> DEFINE n == list[b].next
<1>4. n \in Nat /\ n \in D \cup {OverBlock} /\ b < n /\ b \in Nat
  BY <1>0, <1>3
<1>5. from < n
  <2>1. CASE n \in D
    <3>1. n \notin below
      BY <1>2, <1>4
    <3> QED
      BY <1>0, <1>4, <2>1, <3>1
  <2>2. CASE n = OverBlock
    BY <1>0, <2>2
  <2> QED
    BY <1>4, <2>1, <2>2
<1> HIDE DEF below
<1>6. list[b].free
  <2> SUFFICES ASSUME ~list[b].free PROVE FALSE
    OBVIOUS
  <2>1. b >= to \/ n <= from
    BY <1>1, <1>3
  <2> HIDE DEF n
  <2> QED
    BY <1>0, <1>3, <1>4, <1>5, <2>1
<1>7. to <= n
  <2> SUFFICES ASSUME n < to PROVE FALSE
    BY <1>4
  <2>1. n \in D /\ n # OverBlock
    BY <1>0, <1>4
  <2>2. ~list[n].free
    BY <1>3, <1>6, <2>1 DEF Merged
  <2>3. n >= to \/ list[n].next <= from
    BY <1>1, <2>1, <2>2
  <2>4. n < list[n].next /\ list[n].next \in Nat
    BY <1>0, <2>1
  <2> HIDE DEF n
  <2> QED
    BY <1>0, <1>4, <1>5, <2>3, <2>4
<1> QED
  BY <1>3, <1>6, <1>7

LEMMA UserInvRight == UserInv => UserHeapRight
<1> SUFFICES ASSUME UserInv PROVE UserHeapRight
  OBVIOUS
<1>0. /\ Linked(list) /\ Merged(list) /\ HeldRight /\ FailedRight
      /\ Header \in Nat \ {0} /\ Largest \in Nat /\ First \in Nat /\ OverBlock \in Nat
  BY Addresses DEF UserInv
<1>1. \A g \in given : /\ g.address - Header \in InUse
                       /\ g.address + g.size <= list[g.address - Header].next
  BY <1>0 DEF HeldRight, InUse
<1>2. \A b \in InUse : list[b].next <= OverBlock /\ \A c \in InUse : c > b => list[b].next <= c
  BY <1>0, HeadersTyped DEF Linked, InUse
<1>3. ASSUME failed # 0, NEW from \in First..OverBlock, Gap(from, from + Header + failed),
             from + Header + failed <= OverBlock
      PROVE  FALSE
  <2> DEFINE to == from + Header + failed
  <2>1. failed \in Nat /\ from \in Nat /\ to \in Nat /\ from < to
    BY <1>0, <1>3 DEF FailedRight
  <2>2. DOMAIN list # {} /\ \A b \in DOMAIN list : list[b].free => Room(b) < failed
    BY <1>0, <1>3 DEF FailedRight
  <2> HIDE DEF to
  <2>3. to <= OverBlock /\ Gap(from, to)
    BY <1>3 DEF to
  <2>4. PICK b \in DOMAIN list : list[b].free /\ b <= from /\ to <= list[b].next
    BY <1>0, <2>1, <2>2, <2>3, GapIsOneBlock
  <2>5. Room(b) < failed /\ b \in Nat /\ list[b].next \in Nat
    BY <1>0, <2>2, <2>4, HeadersTyped
  <2> QED
    BY <1>0, <2>1, <2>4, <2>5 DEF Room, to
<1>4. failed # 0 =>
        \A from \in First..OverBlock :
            ~Gap(from, from + Header + failed) \/ from + Header + failed > OverBlock
  <2> SUFFICES ASSUME failed # 0, NEW from \in First..OverBlock,
                      Gap(from, from + Header + failed)
               PROVE  from + Header + failed > OverBlock
    OBVIOUS
  <2>1. failed \in Nat /\ from \in Nat
    BY <1>0 DEF FailedRight
  <2> QED
    BY <1>0, <1>3, <2>1
<1> QED
  BY <1>1, <1>2, <1>4 DEF UserHeapRight

-----------------------------------------------------------------------------
(* What is true of the kernel's heap alone is true of the two.              *)
LEMMA OfTheKernel == HeapsSpec => Spec
<1>1. HeapsInit => Init
  BY DEF HeapsInit
<1>2. [Kernel \/ Program]_<<vars, user_vars>> => [Next]_vars
  BY DEF Kernel, Program
<1> QED
  BY <1>1, <1>2, PTL DEF HeapsSpec, Spec

LEMMA UserInvariance == HeapsSpec => []UserInv
<1>1. HeapsInit => UserInv
  BY UserInitRight DEF HeapsInit
<1>2. UserInv /\ [Kernel \/ Program]_<<vars, user_vars>> => UserInv'
  <2> SUFFICES ASSUME UserInv, [Kernel \/ Program]_<<vars, user_vars>> PROVE UserInv'
    OBVIOUS
  <2>1. CASE UserNext
    BY <2>1, UserStep
  <2>2. CASE UNCHANGED user_vars
    BY <2>2 DEF UserInv, HeldRight, FailedRight, Room, user_vars
  <2> QED
    BY <2>1, <2>2 DEF Kernel, Program
<1> QED
  BY <1>1, <1>2, PTL DEF HeapsSpec

(* Both heaps keep their types: no header of a program's list leaves the    *)
(* pool, and the links of a header lead to headers or to its ends.          *)
THEOREM HeapsTyped == HeapsSpec => []HeapsTypeOK
<1>1. TypeOK /\ UserInv => HeapsTypeOK
  BY UserInvTyped DEF HeapsTypeOK
<1> QED
  BY <1>1, OfTheKernel, TypeCorrect, UserInvariance, PTL

(* What allocateMemory returned stays in a block of its own while           *)
(* freeMemory merges the blocks around it; and it returns 0 only when no    *)
(* gap between the blocks in use is large enough.                           *)
THEOREM UserBlocksApart == HeapsSpec => []UserHeapRight
BY UserInvRight, UserInvariance, PTL
=============================================================================

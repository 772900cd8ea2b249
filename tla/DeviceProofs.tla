---------------------------- MODULE DeviceProofs ----------------------------
(***************************************************************************)
(* Theorems about the two devices whose interrupt comes between the        *)
(* statements of a task that works on the same data: Keyb, for every size  *)
(* of the buffer, every set of keys and every size that readers ask for,   *)
(* and Clock, for every number of tasks, every delay and every width of a  *)
(* word.                                                                   *)
(***************************************************************************)
EXTENDS Keyb, Clock, SequenceTheorems, WellFoundedInduction, FiniteSetTheorems,
        TLAPS

-----------------------------------------------------------------------------
(* The keyboard *)

(* What a reader under way has computed fits what it will be used for, also *)
(* when keys come in between.                                               *)
ReaderInv ==
    /\ pc # "idle" => size <= buffer_used
    /\ pc = "move" => count + size <= BufSize

(* The keys due to the readers lie in the buffer, after those that the      *)
(* reader under way has copied and not moved away yet; buffer_used counts   *)
(* those until the store.                                                   *)
Copied == IF pc \in {"args", "move", "load", "store"} THEN size ELSE 0
First  == IF pc \in {"args", "move"} THEN size ELSE 0

BufferInv ==
    excuse = "none" =>
        /\ shift = down /\ caps = locked
        /\ Len(owed) + Copied = buffer_used
        /\ \A i \in 1..Len(owed) : keyb_buf[First + i - 1] = owed[i]
        /\ pc = "store" => difference + size = buffer_used

IInv == TypeOK /\ ReaderInv /\ BufferInv /\ KeysArrive

-----------------------------------------------------------------------------
LEMMA BlankType == Blank \in Char
<1>1. (CHOOSE k \in Key : TRUE) \in Key
  BY KeybAssumption
<1> QED
  BY <1>1 DEF Blank, Char

LEMMA KeymapType ==
    ASSUME NEW k \in Key, NEW s, NEW c
    PROVE  [key |-> k, map |-> Keymap(s, c)] \in Char
BY DEF Char, Keymap

(* What is left of a sequence without its first n elements.                 *)
LEMMA Drop ==
    ASSUME NEW s \in Seq(Char), NEW n \in 0..Len(s)
    PROVE  LET rest == SubSeq(s, n + 1, Len(s))
           IN  /\ rest \in Seq(Char)
               /\ Len(rest) = Len(s) - n
               /\ \A i \in 1..Len(rest) : rest[i] = s[n + i]
<1> DEFINE rest == SubSeq(s, n + 1, Len(s))
<1>1. \A i \in (n + 1)..Len(s) : s[i] \in Char
  OBVIOUS
<1>2. /\ rest \in Seq(Char)
      /\ Len(rest) = IF n + 1 <= Len(s) THEN Len(s) - (n + 1) + 1 ELSE 0
      /\ \A i \in 1..(Len(s) - (n + 1) + 1) : rest[i] = s[(n + 1) + i - 1]
  BY <1>1, SubSeqProperties
<1> HIDE DEF rest
<1>3. Len(rest) = Len(s) - n
  BY <1>2
<1>4. ASSUME NEW i \in 1..Len(rest) PROVE rest[i] = s[n + i]
  <2>1. (n + 1) + i - 1 = n + i /\ i \in 1..(Len(s) - (n + 1) + 1)
    BY <1>3
  <2> QED
    BY <1>2, <2>1
<1> QED
  BY <1>2, <1>3, <1>4 DEF rest

LEMMA InitIInv == Init => IInv
<1> SUFFICES ASSUME Init PROVE IInv
  OBVIOUS
<1>1. TypeOK
  <2>1. keyb_buf \in [0..(BufSize - 1) -> Char]
    <3>1. keyb_buf = [i \in 0..(BufSize - 1) |-> Blank]
      BY DEF Init
    <3> QED
      BY <3>1, BlankType
  <2>2. 0 \in 0..BufSize
    BY KeybAssumption
  <2>3. owed \in Seq(Char)
    BY DEF Init
  <2> QED
    BY <2>1, <2>2, <2>3 DEF Init, TypeOK
<1>2. ReaderInv /\ KeysArrive
  BY DEF Init, ReaderInv, KeysArrive
<1>3. BufferInv
  <2>1. Len(owed) = 0 /\ 1..Len(owed) = {} /\ Copied = 0
    BY DEF Init, Copied
  <2>2. shift = down /\ caps = locked /\ pc # "store" /\ buffer_used = 0
    BY DEF Init
  <2>3. Len(owed) + Copied = buffer_used
    BY <2>1, <2>2
  <2>4. \A i \in 1..Len(owed) : keyb_buf[First + i - 1] = owed[i]
    BY <2>1
  <2> QED
    BY <2>2, <2>3, <2>4 DEF BufferInv
<1> QED
  BY <1>1, <1>2, <1>3 DEF IInv

LEMMA TypeStep == IInv /\ [Next]_vars => TypeOK'
<1> SUFFICES ASSUME IInv, [Next]_vars PROVE TypeOK'
  OBVIOUS
<1> USE KeybAssumption DEF IInv, TypeOK, driver, reader, history, Excuse, Owe
<1>1. ASSUME NEW k \in ShiftKey, PressShift(k) PROVE TypeOK'
  BY <1>1 DEF PressShift
<1>2. CASE PressCaps
  BY <1>2 DEF PressCaps
<1>3. ASSUME NEW k \in Key, Press(k) PROVE TypeOK'
  <2>1. buffer_used \in 0..(BufSize - 1)
    BY <1>3 DEF Press, Full
  <2>2. keyb_buf' \in [0..(BufSize - 1) -> Char]
    BY <1>3, <2>1, KeymapType DEF Press
  <2>3. owed' \in Seq(Char)
    BY <1>3, KeymapType DEF Press
  <2>4. excuse' \in {"none", "lost_modifier", "cut", "raced"}
    BY <1>3 DEF Press
  <2> QED
    BY <1>3, <2>1, <2>2, <2>3, <2>4 DEF Press
<1>4. ASSUME NEW n \in Sizes, Read(n) PROVE TypeOK'
  BY <1>4 DEF Read
<1>5. CASE Copy
  <2>1. SubSeq(owed, size + 1, Len(owed)) \in Seq(Char)
    OBVIOUS
  <2>2. wrong' \in BOOLEAN
    BY <1>5 DEF Copy
  <2> QED
    BY <1>5, <2>1, <2>2 DEF Copy
<1>6. CASE Args
  BY <1>6 DEF Args
<1>7. CASE Move
  <2>1. \A i \in 0..(BufSize - 1) :
            (IF i < count THEN keyb_buf[i + size] ELSE keyb_buf[i]) \in Char
    BY <1>7 DEF Move, ReaderInv
  <2>2. keyb_buf' \in [0..(BufSize - 1) -> Char]
    BY <1>7, <2>1 DEF Move
  <2>3. owed' \in Seq(Char) /\ excuse' \in {"none", "lost_modifier", "cut", "raced"}
    BY <1>7 DEF Move
  <2> QED
    BY <1>7, <2>2, <2>3 DEF Move
<1>8. CASE Load
  BY <1>8 DEF Load, ReaderInv
<1>9. CASE Store
  BY <1>9 DEF Store
<1>10. CASE UNCHANGED vars
  BY <1>10 DEF vars
<1> QED
  BY <1>1, <1>2, <1>3, <1>4, <1>5, <1>6, <1>7, <1>8, <1>9, <1>10 DEF Next

LEMMA ReaderStep == IInv /\ [Next]_vars => ReaderInv'
<1> SUFFICES ASSUME IInv, [Next]_vars PROVE ReaderInv'
  OBVIOUS
<1> USE KeybAssumption DEF IInv, TypeOK, ReaderInv, driver, reader, history
<1>1. ASSUME NEW k \in ShiftKey, PressShift(k) PROVE ReaderInv'
  BY <1>1 DEF PressShift
<1>2. CASE PressCaps
  BY <1>2 DEF PressCaps
<1>3. ASSUME NEW k \in Key, Press(k) PROVE ReaderInv'
  BY <1>3 DEF Press
<1>4. ASSUME NEW n \in Sizes, Read(n) PROVE ReaderInv'
  BY <1>4 DEF Read
<1>5. CASE Copy
  BY <1>5 DEF Copy
<1>6. CASE Args
  BY <1>6 DEF Args
<1>7. CASE Move
  BY <1>7 DEF Move
<1>8. CASE Load
  BY <1>8 DEF Load
<1>9. CASE Store
  BY <1>9 DEF Store
<1>10. CASE UNCHANGED vars
  BY <1>10 DEF vars
<1> QED
  BY <1>1, <1>2, <1>3, <1>4, <1>5, <1>6, <1>7, <1>8, <1>9, <1>10 DEF Next

LEMMA BufferStep == IInv /\ [Next]_vars => BufferInv'
<1> SUFFICES ASSUME IInv, [Next]_vars, excuse' = "none" PROVE BufferInv'
  BY DEF BufferInv
<1> USE KeybAssumption DEF IInv, TypeOK, driver, reader, history
<1>1. ASSUME NEW k \in ShiftKey, PressShift(k) PROVE BufferInv'
  BY <1>1 DEF PressShift, BufferInv, Copied, First, Excuse, Owe
<1>2. CASE PressCaps
  BY <1>2 DEF PressCaps, BufferInv, Copied, First, Excuse, Owe
<1>3. ASSUME NEW k \in Key, Press(k) PROVE BufferInv'
  <2> DEFINE char == [key |-> k, map |-> Keymap(down, locked)]
  <2>1. excuse = "none" /\ pc \notin {"load", "store"} /\ shift = down /\ caps = locked
    BY <1>3 DEF Press, Excuse, BufferInv
  <2>2. /\ owed' = Append(owed, char)
        /\ keyb_buf' = [keyb_buf EXCEPT ![buffer_used] = char]
        /\ buffer_used' = buffer_used + 1 /\ buffer_used < BufSize
        /\ Copied' = Copied /\ First' = First
    BY <1>3, <2>1 DEF Press, Owe, Full, Copied, First
  <2>3. /\ Len(owed') = Len(owed) + 1
        /\ \A i \in 1..Len(owed) : owed'[i] = owed[i]
        /\ owed'[Len(owed) + 1] = char
    BY <2>2
  <2>4. /\ First = Copied /\ First \in Nat
        /\ Len(owed) \in Nat
        /\ Len(owed) + First = buffer_used
        /\ \A i \in 1..Len(owed) : keyb_buf[First + i - 1] = owed[i]
    BY <2>1 DEF First, Copied, BufferInv
  <2>5. \A i \in 1..Len(owed') : keyb_buf'[First + i - 1] = owed'[i]
    <3> HIDE DEF First, char
    <3> TAKE i \in 1..Len(owed')
    <3>1. CASE i = Len(owed) + 1
      <4>1. First + i - 1 = buffer_used
        BY <3>1, <2>4
      <4> QED
        BY <3>1, <4>1, <2>2, <2>3
    <3>2. CASE i \in 1..Len(owed)
      <4>1. First + i - 1 \in 0..(BufSize - 1) /\ First + i - 1 # buffer_used
        BY <3>2, <2>4, <2>2
      <4> QED
        BY <3>2, <4>1, <2>2, <2>3, <2>4
    <3> QED
      BY <3>1, <3>2, <2>3, <2>4
  <2> HIDE DEF char
  <2>6. shift' = down' /\ caps' = locked' /\ pc' # "store"
    BY <1>3, <2>1 DEF Press
  <2>7. Len(owed') + Copied' = buffer_used'
    <3>1. Len(owed') + Copied' = Len(owed) + 1 + First
      BY <2>2, <2>3, <2>4
    <3>2. buffer_used' = Len(owed) + First + 1
      BY <2>2, <2>4
    <3> QED
      BY <2>4, <3>1, <3>2
  <2>8. \A i \in 1..Len(owed') : keyb_buf'[First' + i - 1] = owed'[i]
    BY <2>2, <2>5
  <2> QED
    BY <2>6, <2>7, <2>8 DEF BufferInv
<1>4. ASSUME NEW n \in Sizes, Read(n) PROVE BufferInv'
  BY <1>4 DEF Read, BufferInv, Copied, First
<1>5. CASE Copy
  <2>1. /\ excuse = "none" /\ pc = "copy" /\ pc' = "args" /\ size <= buffer_used
        /\ owed' = SubSeq(owed, size + 1, Len(owed))
        /\ Len(owed) = buffer_used
        /\ \A i \in 1..Len(owed) : keyb_buf[i - 1] = owed[i]
    BY <1>5 DEF Copy, BufferInv, Copied, First, ReaderInv
  <2>2. /\ Len(owed') = Len(owed) - size
        /\ \A i \in 1..Len(owed') : owed'[i] = owed[size + i]
    BY <2>1, Drop
  <2>3. \A i \in 1..Len(owed') : keyb_buf'[size + i - 1] = owed'[i]
    <3> TAKE i \in 1..Len(owed')
    <3>1. size + i \in 1..Len(owed) /\ (size + i) - 1 = size + i - 1
      <4>1. Len(owed') = Len(owed) - size /\ Len(owed) \in Nat /\ size \in Nat
        BY <2>2
      <4> HIDE DEF IInv, TypeOK
      <4>2. i \in 1..(Len(owed) - size)
        BY <4>1
      <4> QED
        BY <4>1, <4>2
    <3>2. keyb_buf' = keyb_buf
      BY <1>5 DEF Copy
    <3>3. keyb_buf[(size + i) - 1] = owed[size + i]
      BY <3>1, <2>1
    <3> QED
      BY <3>1, <3>2, <3>3, <2>2
  <2> QED
    BY <1>5, <2>1, <2>2, <2>3 DEF Copy, BufferInv, Copied, First
<1>6. CASE Args
  BY <1>6 DEF Args, BufferInv, Copied, First
<1>7. CASE Move
  <2>1. /\ excuse = "none" /\ pc = "move" /\ pc' = "load" /\ owed' = owed
        /\ size > 0 => count >= buffer_used - size
        /\ Len(owed) + size = buffer_used
        /\ \A i \in 1..Len(owed) : keyb_buf[size + i - 1] = owed[i]
    BY <1>7 DEF Move, Excuse, Owe, BufferInv, Copied, First
  <2>2. \A i \in 1..Len(owed) : keyb_buf'[i - 1] = owed[i]
    <3> TAKE i \in 1..Len(owed)
    <3>1. i - 1 \in 0..(BufSize - 1)
      BY <2>1
    <3>2. keyb_buf'[i - 1] = IF i - 1 < count THEN keyb_buf[i - 1 + size]
                                              ELSE keyb_buf[i - 1]
      BY <3>1, <1>7 DEF Move
    <3>3. CASE i - 1 < count
      <4>1. i - 1 + size = size + i - 1
        OBVIOUS
      <4> QED
        BY <3>2, <3>3, <4>1, <2>1
    <3>4. CASE ~(i - 1 < count)
      <4>1. size = 0
        BY <3>4, <2>1
      <4> QED
        BY <3>2, <3>4, <4>1, <2>1
    <3> QED
      BY <3>3, <3>4
  <2> QED
    BY <1>7, <2>1, <2>2 DEF Move, BufferInv, Copied, First
<1>8. CASE Load
  BY <1>8 DEF Load, BufferInv, Copied, First
<1>9. CASE Store
  BY <1>9 DEF Store, BufferInv, Copied, First
<1>10. CASE UNCHANGED vars
  BY <1>10 DEF vars, BufferInv, Copied, First
<1> QED
  BY <1>1, <1>2, <1>3, <1>4, <1>5, <1>6, <1>7, <1>8, <1>9, <1>10 DEF Next

LEMMA ArriveStep == IInv /\ [Next]_vars => KeysArrive'
<1> SUFFICES ASSUME IInv, [Next]_vars PROVE KeysArrive'
  OBVIOUS
<1>1. CASE Copy
  <2>1. ~wrong /\ pc = "copy"
    BY <1>1 DEF Copy, IInv, KeysArrive
  <2>2. ASSUME excuse = "none"
        PROVE  size <= Len(owed) /\ \A i \in 1..size : keyb_buf[i - 1] = owed[i]
    BY <2>1, <2>2 DEF IInv, TypeOK, ReaderInv, BufferInv, Copied, First
  <2>3. ~(size > Len(owed)) \/ excuse # "none"
    BY <2>2 DEF IInv, TypeOK
  <2> QED
    BY <1>1, <2>1, <2>2, <2>3 DEF Copy, KeysArrive
<1>2. CASE UNCHANGED wrong
  BY <1>2 DEF IInv, KeysArrive
<1> QED
  BY <1>1, <1>2 DEF Next, vars, driver, reader, history, PressShift, PressCaps,
                    Press, Read, Args, Move, Load, Store

LEMMA Invariance == Spec => []IInv
<1>1. IInv /\ [Next]_vars => IInv'
  BY TypeStep, ReaderStep, BufferStep, ArriveStep DEF IInv
<1> QED
  BY InitIInv, <1>1, PTL DEF Spec

-----------------------------------------------------------------------------
(* keyb_func and keyb_read keep every variable in its range: buffer_used    *)
(* does not leave the buffer, and the move of keyb_read does not read       *)
(* behind it, whatever keys come between its statements.                    *)
THEOREM TypeCorrect == Spec => []TypeOK
<1>1. IInv => TypeOK
  BY DEF IInv
<1> QED
  BY <1>1, Invariance, PTL

(* Readers get the keys that were typed, each once, in order and translated *)
(* by the keymap that was due, but for the three excuses of Keyb.           *)
THEOREM KeysInOrder == Spec => []KeysArrive
<1>1. IInv => KeysArrive
  BY DEF IInv
<1> QED
  BY <1>1, Invariance, PTL

(* Between two calls of keyb_read the buffer holds exactly the keys that    *)
(* are still due, but for the same excuses.                                 *)
THEOREM NoneForgotten == Spec => []NothingForgotten
<1>1. IInv => NothingForgotten
  BY DEF IInv, TypeOK, BufferInv, Copied, NothingForgotten
<1> QED
  BY <1>1, Invariance, PTL

-----------------------------------------------------------------------------
(* The clock *)

(* A set of naturals that is not empty has a least element.                 *)
LEMMA Least ==
    ASSUME NEW S \in SUBSET Nat, S # {}
    PROVE  \E i \in S : \A j \in S : i <= j
<1> DEFINE less == {ss \in Nat \X Nat : ss[1] < ss[2]}
<1>1. IsWellFoundedOn(less, Nat)
  BY NatLessThanWellFounded DEF OpToRel
<1>2. \E i \in S : \A j \in S : <<j, i>> \notin less
  <2> HIDE DEF less
  <2> QED
    BY <1>1, WFMin
<1>3. PICK i \in S : \A j \in S : <<j, i>> \notin less
  BY <1>2
<1>4. \A j \in S : ~ (j < i)
  BY <1>3
<1> QED
  BY <1>4

LEMMA TaskCount == IsFiniteSet(Task) /\ N \in Nat /\ Null \notin Task
BY ClockAssumption, FS_CardinalityType DEF N

(* The alarms of the queue, in their order: s[0], s[1], ..., s[k - 1].       *)
Links(k, s) ==
    /\ k \in Nat /\ s \in [0..(k - 1) -> Task]
    /\ \A i, j \in 0..(k - 1) : s[i] = s[j] => i = j
    /\ alarm_queue = IF k = 0 THEN Null ELSE s[0]
    /\ \A i \in 0..(k - 1) : next[s[i]] = IF i = k - 1 THEN Null ELSE s[i + 1]

(* No alarm is in it twice, so the walk of N steps reaches its end.         *)
LEMMA Short ==
    ASSUME NEW k, NEW s, Links(k, s)
    PROVE  k \in 0..N
<1>1. k \in Nat /\ s \in [0..(k - 1) -> Task] /\ \A i, j \in 0..(k - 1) : s[i] = s[j] => i = j
  BY DEF Links
<1> DEFINE D == 0..(k - 1)
<1>2. s \in Injection(D, Task)
  BY <1>1 DEF Injection, IsInjective
<1>3. Cardinality(D) = k
  <2>1. 0 \in Int /\ k - 1 \in Int
    BY <1>1
  <2>2. Cardinality(D) = IF 0 > k - 1 THEN 0 ELSE (k - 1) - 0 + 1
    BY <2>1, FS_Interval
  <2> HIDE DEF D
  <2> QED
    BY <1>1, <2>2
<1> HIDE DEF D
<1>4. Cardinality(D) <= Cardinality(Task)
  BY <1>2, TaskCount, FS_Injection
<1> QED
  BY <1>1, <1>3, <1>4, TaskCount DEF N

LEMMA PlaceIs ==
    ASSUME NEW k, NEW s, Links(k, s)
    PROVE  \A n \in 0..N : Place[n] = IF n < k THEN s[n] ELSE Null
<1> DEFINE at(n) == IF n < k THEN s[n] ELSE Null
           step(a) == IF a = Null THEN Null ELSE next[a]
           Is(w) == w = [n \in 0..N |-> IF n = 0 THEN alarm_queue
                                        ELSE IF w[n - 1] = Null THEN Null ELSE next[w[n - 1]]]
<1>1. k \in Nat /\ N \in Nat /\ Null \notin Task
  BY TaskCount DEF Links
<1>2. at(0) = alarm_queue
  BY <1>1 DEF Links
<1>3. ASSUME NEW n \in Nat \ {0}
      PROVE  at(n) = IF at(n - 1) = Null THEN Null ELSE next[at(n - 1)]
  <2>1. CASE n - 1 < k
    <3>1. n - 1 \in 0..(k - 1) /\ s[n - 1] \in Task
      BY <1>1, <2>1 DEF Links
    <3>2. next[s[n - 1]] = IF n - 1 = k - 1 THEN Null ELSE s[(n - 1) + 1]
      BY <3>1 DEF Links
    <3> QED
      BY <1>1, <2>1, <3>1, <3>2
  <2>2. CASE ~ (n - 1 < k)
    BY <1>1, <2>2
  <2> QED
    BY <2>1, <2>2
<1> HIDE DEF at
<1>4. Is([n \in 0..N |-> at(n)])
  <2> DEFINE w == [n \in 0..N |-> at(n)]
  <2>1. ASSUME NEW n \in 0..N
        PROVE  w[n] = IF n = 0 THEN alarm_queue
                      ELSE IF w[n - 1] = Null THEN Null ELSE next[w[n - 1]]
    <3>1. CASE n = 0
      BY <1>2, <3>1
    <3>2. CASE n # 0
      <4>1. n \in Nat \ {0} /\ n - 1 \in 0..N
        BY <1>1, <3>2
      <4>2. w[n - 1] = at(n - 1) /\ w[n] = at(n)
        BY <4>1
      <4> HIDE DEF w
      <4> QED
        BY <1>3, <3>2, <4>1, <4>2
    <3> QED
      BY <3>1, <3>2
  <2> QED
    BY <2>1
<1>5. Is(Place)
  <2>1. Place = CHOOSE w : Is(w)
    BY DEF Place
  <2> HIDE DEF Is
  <2> QED
    BY <1>4, <2>1
<1> DEFINE Bad == {n \in 0..N : Place[n] # at(n)}
<1>6. Bad = {}
  <2> SUFFICES ASSUME Bad # {} PROVE FALSE
    OBVIOUS
  <2>0. Bad \in SUBSET Nat
    BY <1>1
  <2>1. PICK n \in Bad : \A m \in Bad : n <= m
    <3> HIDE DEF Bad
    <3> QED
      BY <2>0, Least
  <2>2. n \in 0..N /\ Place[n] = IF n = 0 THEN alarm_queue
                      ELSE IF Place[n - 1] = Null THEN Null ELSE next[Place[n - 1]]
    BY <1>5, <2>1
  <2>3. n # 0
    BY <1>2, <2>1, <2>2
  <2>4. n \in Nat \ {0} /\ n - 1 \in 0..N /\ ~ (n <= n - 1)
    BY <1>1, <2>2, <2>3
  <2>5. Place[n - 1] = at(n - 1)
    BY <2>1, <2>4
  <2> QED
    BY <1>3, <2>1, <2>2, <2>3, <2>4, <2>5
<1> QED
  BY <1>6 DEF at

LEMMA QueuedIs ==
    ASSUME NEW k, NEW s, Links(k, s)
    PROVE  Queued = {s[i] : i \in 0..(k - 1)} /\ Place[N] = Null
<1>1. k \in 0..N /\ N \in Nat /\ Null \notin Task /\ k \in Nat
  BY Short, TaskCount
<1>2. \A n \in 0..N : Place[n] = IF n < k THEN s[n] ELSE Null
  BY PlaceIs
<1>3. \A i \in 0..(k - 1) : s[i] \in Task /\ i \in 0..N /\ i < k
  BY <1>1 DEF Links
<1>4. \A n \in 0..N : n < k => n \in 0..(k - 1)
  BY <1>1
<1>5. Queued = {s[i] : i \in 0..(k - 1)}
  <2>1. ASSUME NEW a \in Queued PROVE a \in {s[i] : i \in 0..(k - 1)}
    BY <1>2, <1>4, <2>1 DEF Queued
  <2>2. ASSUME NEW i \in 0..(k - 1) PROVE s[i] \in Queued
    <3>1. Place[i] = s[i] /\ s[i] # Null /\ i \in 0..N
      BY <1>1, <1>2, <1>3
    <3> QED
      BY <3>1 DEF Queued
  <2> QED
    BY <2>1, <2>2
<1>6. N \in 0..N /\ ~ (N < k)
  BY <1>1
<1> QED
  BY <1>2, <1>5, <1>6

(* The sums of the deltas.                                                  *)
LEMMA AheadSteps ==
    ASSUME \A n \in 0..N : Place[n] = Null \/ delta[Place[n]] \in Nat
    PROVE  /\ Ahead[0] = 0
           /\ \A n \in 0..N : Ahead[n] \in Nat
           /\ \A n \in 1..N : Ahead[n] = Ahead[n - 1] + (IF Place[n - 1] = Null THEN 0
                                                       ELSE delta[Place[n - 1]])
<1> DEFINE part(n) == IF Place[n] = Null THEN 0 ELSE delta[Place[n]]
           Is(g, m) == g = [n \in 0..m |-> IF n = 0 THEN 0 ELSE g[n - 1] + part(n - 1)]
           Bad == {m \in 0..N : ~ \E g \in [0..m -> Nat] : Is(g, m)}
<1>0. N \in Nat /\ \A n \in 0..N : part(n) \in Nat
  BY TaskCount
<1>3. Ahead = CHOOSE g : Is(g, N)
  BY DEF Ahead
<1>b. \A n : part(n) = IF Place[n] = Null THEN 0 ELSE delta[Place[n]]
  OBVIOUS
<1> HIDE DEF part
<1>1. Bad = {}
  <2> SUFFICES ASSUME Bad # {} PROVE FALSE
    OBVIOUS
  <2>1. Bad \in SUBSET Nat
    BY <1>0
  <2>2. PICK m \in Bad : \A j \in Bad : m <= j
    <3> HIDE DEF Bad
    <3> QED
      BY <2>1, Least
  <2>3. m \in 0..N /\ m \in Nat
    BY <1>0, <2>2
  <2>4. CASE m = 0
    <3> DEFINE g == [n \in 0..0 |-> 0]
    <3>1. g \in [0..m -> Nat] /\ Is(g, m)
      BY <2>4
    <3> QED
      BY <2>2, <3>1
  <2>5. CASE m # 0
    <3>1. m - 1 \in 0..N /\ ~ (m <= m - 1)
      BY <1>0, <2>3, <2>5
    <3>b. m - 1 \notin Bad
      <4> HIDE DEF Bad
      <4> QED
        BY <2>2, <3>1
    <3>2. PICK g \in [0..(m - 1) -> Nat] : Is(g, m - 1)
      BY <3>1, <3>b
    <3> DEFINE h == [n \in 0..m |-> IF n = m THEN g[m - 1] + part(m - 1) ELSE g[n]]
    <3>3. part(m - 1) \in Nat /\ g[m - 1] \in Nat
      BY <1>0, <2>3, <2>5, <3>1
    <3>4. h \in [0..m -> Nat]
      BY <2>3, <3>3
    <3>5. ASSUME NEW n \in 0..m
          PROVE  h[n] = IF n = 0 THEN 0 ELSE h[n - 1] + part(n - 1)
      <4>1. CASE n = 0
        BY <2>3, <2>5, <3>2, <4>1
      <4>2. CASE n = m
        BY <2>3, <2>5, <4>2
      <4>3. CASE n # 0 /\ n # m
        <5>1. n \in 0..(m - 1) /\ n - 1 \in 0..m /\ n - 1 # m
          BY <2>3, <4>3
        <5>2. g[n] = g[n - 1] + part(n - 1)
          BY <3>2, <4>3, <5>1
        <5> QED
          BY <4>3, <5>1, <5>2
      <4> QED
        BY <4>1, <4>2, <4>3
    <3>6. Is(h, m)
      <4>1. h = [n \in 0..m |-> h[n]]
        OBVIOUS
      <4> HIDE DEF h
      <4> QED
        BY <3>5, <4>1
    <3> HIDE DEF h, Is
    <3> QED
      BY <2>2, <3>4, <3>6
  <2> QED
    BY <2>4, <2>5
<1>2. PICK g \in [0..N -> Nat] : Is(g, N)
  <2>1. N \in 0..N
    BY <1>0
  <2> QED
    BY <1>1, <2>1
<1>4. Is(Ahead, N)
  <2> HIDE DEF Is
  <2> QED
    BY <1>2, <1>3
<1>5. \A n \in 0..N : Ahead[n] = IF n = 0 THEN 0 ELSE Ahead[n - 1] + part(n - 1)
  <2> DEFINE a == Ahead
  <2>1. a = [n \in 0..N |-> IF n = 0 THEN 0 ELSE a[n - 1] + part(n - 1)]
    BY <1>4
  <2> HIDE DEF a
  <2>2. \A n \in 0..N : a[n] = IF n = 0 THEN 0 ELSE a[n - 1] + part(n - 1)
    BY <2>1
  <2> QED
    BY <2>2 DEF a
<1>6. \A n \in 0..N : Ahead[n] \in Nat
  <2> DEFINE Off == {n \in 0..N : Ahead[n] \notin Nat}
  <2> SUFFICES ASSUME Off # {} PROVE FALSE
    OBVIOUS
  <2>1. Off \in SUBSET Nat
    BY <1>0
  <2>2. PICK n \in Off : \A j \in Off : n <= j
    <3> HIDE DEF Off
    <3> QED
      BY <2>1, Least
  <2>3. n \in 0..N /\ n # 0 /\ n \in Nat
    BY <1>0, <1>5, <2>2
  <2>4. n - 1 \in 0..N /\ ~ (n <= n - 1)
    BY <1>0, <2>3
  <2>5. Ahead[n - 1] \in Nat /\ part(n - 1) \in Nat
    BY <1>0, <2>2, <2>4
  <2> QED
    BY <1>5, <2>2, <2>3, <2>5
<1> QED
  <2>1. \A n \in 1..N : n \in 0..N /\ n # 0
    BY <1>0
  <2>2. 0 \in 0..N
    BY <1>0
  <2> QED
    BY <1>5, <1>6, <1>b, <2>1, <2>2

LEMMA AheadGrows ==
    ASSUME \A n \in 0..N : Place[n] = Null \/ delta[Place[n]] \in Nat,
           NEW m \in 0..N, NEW n \in 0..N, m <= n
    PROVE  Ahead[m] <= Ahead[n]
<1> DEFINE Less == {x \in 0..N : m <= x /\ ~ (Ahead[m] <= Ahead[x])}
<1>0. N \in Nat /\ m \in Nat /\ n \in Nat
  BY TaskCount
<1>1. Less = {}
  <2> SUFFICES ASSUME Less # {} PROVE FALSE
    OBVIOUS
  <2>1. Less \in SUBSET Nat
    BY <1>0
  <2>2. PICK x \in Less : \A v \in Less : x <= v
    <3> HIDE DEF Less
    <3> QED
      BY <2>1, Least
  <2>3. x \in 0..N /\ m <= x /\ ~ (Ahead[m] <= Ahead[x]) /\ x \in Nat
    BY <1>0, <2>2
  <2>4. Ahead[m] \in Nat /\ Ahead[x] \in Nat
    BY <2>3, AheadSteps
  <2>5. m < x
    BY <1>0, <2>3, <2>4
  <2>6. x - 1 \in 0..N /\ x \in 1..N /\ m <= x - 1 /\ ~ (x <= x - 1)
    BY <1>0, <2>3, <2>5
  <2>7. x - 1 \notin Less
    BY <2>2, <2>6
  <2>8. Ahead[m] <= Ahead[x - 1]
    BY <2>6, <2>7
  <2>9. Ahead[x] = Ahead[x - 1] + (IF Place[x - 1] = Null THEN 0 ELSE delta[Place[x - 1]])
    BY <2>6, AheadSteps
  <2>10. Ahead[x - 1] \in Nat /\ (Place[x - 1] = Null \/ delta[Place[x - 1]] \in Nat)
    BY <2>6, AheadSteps
  <2> QED
    BY <2>3, <2>4, <2>8, <2>9, <2>10
<1> QED
  BY <1>1

(* The interrupt takes the first alarms off, and leaves the delta of the    *)
(* next to be positive or zero.                                             *)
LEMMA DueIs ==
    ASSUME NEW k, NEW s, Links(k, s), delta \in [Task -> 0..(WordSize - 1)],
           NEW c, c = Cardinality(DuePlaces)
    PROVE  /\ c \in 0..k /\ c \in 0..N
           /\ Due = {s[i] : i \in 0..(c - 1)}
           /\ Ahead[c] \in 0..Tick
           /\ c < k => Tick - Ahead[c] <= delta[s[c]]
<1>0. /\ k \in 0..N /\ N \in Nat /\ Null \notin Task /\ k \in Nat
      /\ WordSize \in Nat \ {0} /\ Tick \in Nat \ {0}
  BY Short, TaskCount, ClockAssumption
<1>1. \A n \in 0..N : Place[n] = IF n < k THEN s[n] ELSE Null
  BY PlaceIs
<1>2. \A n \in 0..(k - 1) : /\ s[n] \in Task /\ n \in 0..N /\ n < k /\ Place[n] = s[n]
                            /\ delta[s[n]] \in Nat
  BY <1>0, <1>1 DEF Links
<1>a. \A n \in 0..N : n < k => n \in 0..(k - 1)
  BY <1>0
<1>3. \A n \in 0..N : Place[n] = Null \/ delta[Place[n]] \in Nat
  BY <1>1, <1>2, <1>a
<1>4. /\ Ahead[0] = 0 /\ \A n \in 0..N : Ahead[n] \in Nat
      /\ \A n \in 1..N : Ahead[n] = Ahead[n - 1] + (IF Place[n - 1] = Null THEN 0
                                                  ELSE delta[Place[n - 1]])
  BY <1>3, AheadSteps
<1>5. \A m, n \in 0..N : m <= n => Ahead[m] <= Ahead[n]
  BY <1>3, AheadGrows
<1>6. \A n \in 0..(N - 1) : n \in DuePlaces <=> n < k /\ Ahead[n] < Tick /\ Ahead[n + 1] <= Tick
  BY <1>0, <1>1, <1>2, <1>a DEF DuePlaces
<1>7. DuePlaces \subseteq 0..(N - 1)
  BY DEF DuePlaces
<1> DEFINE Stops == {n \in 0..k : n = k \/ n \notin DuePlaces}
<1>8. PICK e \in Stops : \A n \in Stops : e <= n
  <2>1. Stops \in SUBSET Nat /\ k \in Stops
    BY <1>0
  <2> HIDE DEF Stops
  <2> QED
    BY <2>1, Least
<1>9. e \in 0..k /\ e \in Nat /\ e \in 0..N /\ (e = k \/ e \notin DuePlaces)
  BY <1>0, <1>8
<1>10. ASSUME NEW n \in 0..(e - 1) PROVE n \in DuePlaces
  <2>1. n \in 0..k /\ n # k /\ ~ (e <= n)
    BY <1>0, <1>9
  <2> QED
    BY <1>8, <2>1
<1>11. ASSUME NEW n \in DuePlaces PROVE n \in 0..(e - 1)
  <2> SUFFICES ASSUME n >= e PROVE FALSE
    BY <1>0, <1>7, <1>9
  <2>1. /\ n \in 0..(N - 1) /\ n < k /\ Ahead[n] < Tick /\ Ahead[n + 1] <= Tick
        /\ n \in Nat /\ n \in 0..N /\ n + 1 \in 0..N
    BY <1>0, <1>6, <1>7
  <2>2. e \in 0..(N - 1) /\ e < k /\ e + 1 \in 0..N /\ e \notin DuePlaces
    BY <1>0, <1>9, <2>1
  <2>3. Ahead[e] <= Ahead[n] /\ Ahead[e + 1] <= Ahead[n + 1]
    BY <1>5, <1>9, <2>1, <2>2
  <2>4. Ahead[e] \in Nat /\ Ahead[n] \in Nat /\ Ahead[e + 1] \in Nat /\ Ahead[n + 1] \in Nat
    BY <1>4, <1>9, <2>1, <2>2
  <2> QED
    BY <1>0, <1>6, <2>1, <2>2, <2>3, <2>4
<1>12. DuePlaces = 0..(e - 1)
  BY <1>10, <1>11
<1>13. c = e
  <2>1. 0 \in Int /\ e - 1 \in Int
    BY <1>9
  <2>2. Cardinality(0..(e - 1)) = IF 0 > e - 1 THEN 0 ELSE (e - 1) - 0 + 1
    BY <2>1, FS_Interval
  <2>3. Cardinality(0..(e - 1)) = e
    BY <1>9, <2>2
  <2> QED
    BY <1>12, <2>3
<1>14. Due = {s[i] : i \in 0..(e - 1)}
  <2>1. \A i \in 0..(e - 1) : Place[i] = s[i]
    BY <1>0, <1>2, <1>9
  <2> QED
    BY <1>12, <2>1 DEF Due
<1>15. Ahead[e] \in 0..Tick
  <2>1. CASE e = 0
    BY <1>0, <1>4, <2>1
  <2>2. CASE e # 0
    <3>1. e - 1 \in 0..(e - 1) /\ e - 1 \in 0..(N - 1) /\ (e - 1) + 1 = e
      BY <1>0, <1>9, <2>2
    <3>2. Ahead[e] <= Tick
      BY <1>6, <1>10, <3>1
    <3> QED
      BY <1>0, <1>4, <1>9, <3>2
  <2> QED
    BY <2>1, <2>2
<1>16. ASSUME e < k PROVE Tick - Ahead[e] <= delta[s[e]]
  <2>1. /\ e \in 0..(k - 1) /\ e \in 0..(N - 1) /\ e + 1 \in 1..N /\ (e + 1) - 1 = e
        /\ e \notin DuePlaces
    BY <1>0, <1>9, <1>16
  <2>2. ~ (Ahead[e] < Tick /\ Ahead[e + 1] <= Tick)
    BY <1>6, <1>16, <2>1
  <2>3. Place[e] = s[e] /\ s[e] # Null /\ delta[s[e]] \in Nat
    BY <1>0, <1>2, <2>1
  <2>4. Ahead[e + 1] = Ahead[e] + delta[s[e]]
    BY <1>4, <2>1, <2>3
  <2> DEFINE a == Ahead[e]
             b == Ahead[e + 1]
             d == delta[s[e]]
  <2>5. a \in 0..Tick /\ d \in Nat /\ b = a + d /\ ~ (a < Tick /\ b <= Tick)
    BY <1>15, <2>2, <2>3, <2>4
  <2> HIDE DEF a, b, d
  <2>6. Tick - a <= d
    BY <1>0, <2>5
  <2> QED
    BY <2>6 DEF a, d
<1> QED
  BY <1>9, <1>13, <1>14, <1>15, <1>16

Linking == {"subtract", "test", "link_tail", "shorten", "store_delta", "link_next",
            "link"}

(* The alarms of the queue are allocated and their tasks sleep; the one     *)
(* that is being set is not there yet, and ptr, if it still is, is first.   *)
Queues(k, s) ==
    /\ Links(k, s)
    /\ \A i \in 0..(k - 1) : /\ s[i] \in allocated \cap asleep /\ s[i] # alarm
                             /\ s[i] = ptr => i = 0

SettingInv ==
    /\ clock_pc = "idle" => alarm = Null
    /\ clock_pc # "idle" => alarm \in Task /\ alarm \in allocated \cap asleep
    /\ clock_pc = "link_head" => alarm_queue = Null
    /\ clock_pc \in {"link_head", "load_ptr", "subtract", "test", "link_tail",
                     "shorten", "store_delta", "link_next"} => next[alarm] = Null
    /\ clock_pc \in Linking /\ ~wild => ptr \in Task /\ ptr # alarm
    /\ clock_pc \in {"shorten", "store_delta", "link_next", "link"} /\ ~wild => next[ptr] \in Task
    /\ clock_pc = "link" /\ ~wild => next[alarm] = next[ptr]

(* Inductive.                                                               *)
ClockInv ==
    /\ ClockTypeOK
    /\ SettingInv
    /\ \E k, s : Queues(k, s)

LEMMA QueueEnds == ClockInv => QueueIntact
<1> SUFFICES ASSUME ClockInv PROVE QueueIntact
  OBVIOUS
<1>1. PICK k, s : Queues(k, s)
  BY DEF ClockInv
<1>2. Queued = {s[i] : i \in 0..(k - 1)} /\ Place[N] = Null
  BY <1>1, QueuedIs DEF Queues
<1>3. Queued \subseteq allocated \cap asleep
  BY <1>1, <1>2 DEF Queues
<1> QED
  BY <1>2, <1>3 DEF ClockInv, QueueIntact

LEMMA ClockInitInv == ClockInit => ClockInv
<1> SUFFICES ASSUME ClockInit PROVE ClockInv
  OBVIOUS
<1>0. WordSize \in Nat \ {0} /\ 0 \in 0..(WordSize - 1)
  BY ClockAssumption
<1>1. ClockTypeOK
  BY <1>0 DEF ClockInit, ClockTypeOK
<1>2. SettingInv
  BY DEF ClockInit, SettingInv, Linking
<1> DEFINE s == [i \in 0..(0 - 1) |-> Null]
<1>3. Queues(0, s)
  <2>1. 0..(0 - 1) = {}
    OBVIOUS
  <2>2. s \in [0..(0 - 1) -> Task]
    BY <2>1
  <2> HIDE DEF s
  <2>3. Links(0, s)
    BY <2>1, <2>2 DEF Links, ClockInit
  <2> QED
    BY <2>1, <2>3 DEF Queues
<1> QED
  BY <1>1, <1>2, <1>3 DEF ClockInv

(* Types *)
LEMMA ZeroTyped == 0 \in 0..(WordSize - 1)
BY ClockAssumption

LEMMA MinusTyped ==
    ASSUME NEW a \in 0..(WordSize - 1), NEW b \in 0..(WordSize - 1)
    PROVE  Minus(a, b) \in 0..(WordSize - 1)
<1>1. WordSize \in Nat \ {0}
  BY ClockAssumption
<1> DEFINE d == a + WordSize - b
<1>2. d \in Nat
  BY <1>1
<1> HIDE DEF d
<1>3. d % WordSize \in 0..(WordSize - 1)
  BY <1>1, <1>2
<1> QED
  BY <1>3 DEF Minus, d

LEMMA SetWakeupStep ==
    ASSUME ClockInv, NEW t \in Task, NEW ms \in Delays, SetWakeup(t, ms)
    PROVE  ClockInv'
<1>0. /\ WordSize \in Nat \ {0}
      /\ ms \in 0..(WordSize - 1) /\ Null \notin Task
  BY ClockAssumption
<1>1. ClockTypeOK'
  <2>1. /\ delta' = [delta EXCEPT ![t] = ms] /\ next' = [next EXCEPT ![t] = Null]
        /\ allocated' = allocated \cup {t} /\ alarm' = t
        /\ clock_pc' \in {"link_head", "load_ptr"}
        /\ asleep' = asleep \cup {t}
        /\ UNCHANGED <<alarm_queue, ptr, shorter, wild, lost>>
    BY DEF SetWakeup
  <2>2. ClockTypeOK
    BY DEF ClockInv
  <2> QED
    BY <1>0, <2>1, <2>2 DEF ClockTypeOK
<1>2. SettingInv'
  <2>1. /\ next' = [next EXCEPT ![t] = Null] /\ alarm' = t /\ alarm_queue' = alarm_queue
        /\ clock_pc' = IF alarm_queue = Null THEN "link_head" ELSE "load_ptr"
        /\ t \in allocated' \cap asleep'
    BY DEF SetWakeup
  <2>2. next \in [Task -> Task \cup {Null}]
    BY DEF ClockInv, ClockTypeOK
  <2>3. next'[t] = Null
    BY <2>1, <2>2
  <2> QED
    BY <2>1, <2>3 DEF SettingInv, Linking
<1>3. PICK k, s : Queues(k, s)
  BY DEF ClockInv
<1>4. Queues(k, s)'
  <2>1. /\ next' = [next EXCEPT ![t] = Null] /\ alarm' = t /\ alarm_queue' = alarm_queue
        /\ allocated' = allocated \cup {t} /\ asleep' = asleep \cup {t} /\ ptr' = ptr
        /\ t \notin asleep
    BY DEF SetWakeup
  <2>2. next \in [Task -> Task \cup {Null}]
    BY DEF ClockInv, ClockTypeOK
  <2>3. /\ k \in Nat /\ s \in [0..(k - 1) -> Task]
        /\ \A i \in 0..(k - 1) : /\ s[i] \in Task /\ s[i] \in allocated \cap asleep
                                 /\ s[i] = ptr => i = 0
                                 /\ next[s[i]] = IF i = k - 1 THEN Null ELSE s[i + 1]
    BY <1>3 DEF Queues, Links
  <2>4. \A i \in 0..(k - 1) : s[i] # t /\ next'[s[i]] = next[s[i]]
    BY <2>1, <2>2, <2>3
  <2>5. Links(k, s)'
    BY <1>3, <2>1, <2>3, <2>4 DEF Queues, Links
  <2> QED
    BY <2>1, <2>3, <2>4, <2>5 DEF Queues
<1> QED
  BY <1>1, <1>2, <1>4 DEF ClockInv

(* A statement that only reads the queue.                                   *)
LEMMA Unmoved ==
    ASSUME NEW k, NEW s, Queues(k, s),
           UNCHANGED <<alarm_queue, next, allocated, asleep>>,
           alarm' \in {alarm, Null}, ptr' \in {ptr, Null, alarm_queue}
    PROVE  Queues(k, s)'
<1>1. /\ k \in Nat /\ Null \notin Task
      /\ \A i, j \in 0..(k - 1) : s[i] = s[j] => i = j
      /\ alarm_queue = IF k = 0 THEN Null ELSE s[0]
      /\ \A i \in 0..(k - 1) : /\ s[i] \in Task /\ s[i] \in allocated \cap asleep
                               /\ s[i] # alarm
                               /\ s[i] = ptr => i = 0
  BY TaskCount DEF Queues, Links
<1>2. Links(k, s)'
  BY DEF Queues, Links
<1>3. ASSUME NEW i \in 0..(k - 1), s[i] = alarm_queue PROVE i = 0
  BY <1>1, <1>3
<1> QED
  BY <1>1, <1>2, <1>3 DEF Queues

LEMMA LinkHeadStep == ClockInv /\ LinkHead => ClockInv'
<1> SUFFICES ASSUME ClockInv, LinkHead PROVE ClockInv'
  OBVIOUS
<1>0. /\ ~wild /\ clock_pc = "link_head" /\ alarm_queue' = alarm
      /\ clock_pc' = "idle" /\ alarm' = Null /\ ptr' = Null /\ wild' = wild
      /\ shorter' = 0
      /\ UNCHANGED <<delta, next, allocated, asleep, lost>>
  BY DEF LinkHead, Return
<1>1. alarm \in Task /\ alarm \in allocated \cap asleep /\ next[alarm] = Null /\ Null \notin Task
  BY <1>0, TaskCount DEF ClockInv, SettingInv
<1>2. ClockTypeOK'
  BY <1>0, <1>1, ZeroTyped DEF ClockInv, ClockTypeOK
<1>3. SettingInv'
  BY <1>0 DEF SettingInv, Linking
<1>a. PICK k \in Nat : k = 1
  OBVIOUS
<1>b. PICK s : s = [i \in 0..(k - 1) |-> alarm]
  OBVIOUS
<1>4. Queues(k, s)'
  <2>1. /\ \A i \in 0..(k - 1) : i = 0 /\ i = k - 1 /\ s[i] = alarm
        /\ s \in [0..(k - 1) -> Task] /\ s[0] = alarm
    BY <1>1, <1>a, <1>b
  <2>2. \A i \in 0..(k - 1) : next'[s[i]] = Null
    BY <1>0, <1>1, <2>1
  <2>3. Links(k, s)'
    BY <1>0, <1>1, <1>a, <2>1, <2>2 DEF Links
  <2> QED
    BY <1>0, <1>1, <2>1, <2>3 DEF Queues
<1> QED
  BY <1>2, <1>3, <1>4 DEF ClockInv

LEMMA LoadPtrStep == ClockInv /\ LoadPtr => ClockInv'
<1> SUFFICES ASSUME ClockInv, LoadPtr PROVE ClockInv'
  OBVIOUS
<1>0. /\ ~wild /\ clock_pc = "load_ptr" /\ ptr' = alarm_queue
      /\ wild' = (alarm_queue = Null) /\ clock_pc' = "subtract"
      /\ UNCHANGED <<alarm_queue, delta, next, allocated, alarm, shorter, asleep, lost>>
  BY DEF LoadPtr, queue
<1>1. PICK k, s : Queues(k, s)
  BY DEF ClockInv
<1>2. Queues(k, s)'
  BY <1>0, <1>1, Unmoved
<1>3. ClockTypeOK'
  <2>1. wild' \in BOOLEAN
    BY <1>0
  <2> QED
    BY <1>0, <2>1 DEF ClockInv, ClockTypeOK
<1>4. alarm_queue # Null => alarm_queue \in Task /\ alarm_queue # alarm
  <2>1. CASE k = 0
    BY <1>1, <2>1 DEF Queues, Links
  <2>2. CASE k # 0
    <3>1. 0 \in 0..(k - 1)
      BY <1>1, <2>2 DEF Queues, Links
    <3> QED
      BY <1>1, <2>2, <3>1 DEF Queues, Links
  <2> QED
    BY <2>1, <2>2
<1>5. SettingInv'
  <2>1. wild' <=> alarm_queue = Null
    BY <1>0
  <2> QED
    BY <1>0, <1>4, <2>1 DEF ClockInv, SettingInv, Linking
<1> QED
  BY <1>2, <1>3, <1>5 DEF ClockInv

LEMMA SubtractStep == ClockInv /\ Subtract => ClockInv'
<1> SUFFICES ASSUME ClockInv, Subtract PROVE ClockInv'
  OBVIOUS
<1>0. /\ ~wild /\ clock_pc = "subtract" /\ clock_pc' = "test"
      /\ delta' = [delta EXCEPT ![alarm] = Minus(delta[alarm], delta[ptr])]
      /\ UNCHANGED <<alarm_queue, next, allocated, alarm, ptr, shorter, wild, asleep, lost>>
  BY DEF Subtract
<1>1. /\ delta \in [Task -> 0..(WordSize - 1)] /\ alarm \in Task /\ ptr \in Task
      /\ ClockTypeOK
  BY <1>0 DEF ClockInv, ClockTypeOK, SettingInv, Linking
<1>2. delta' \in [Task -> 0..(WordSize - 1)]
  <2>1. Minus(delta[alarm], delta[ptr]) \in 0..(WordSize - 1)
    BY <1>1, MinusTyped
  <2> QED
    BY <1>0, <1>1, <2>1
<1>3. ClockTypeOK'
  BY <1>0, <1>1, <1>2 DEF ClockTypeOK
<1>4. SettingInv'
  BY <1>0 DEF ClockInv, SettingInv, Linking
<1>5. PICK k, s : Queues(k, s)
  BY DEF ClockInv
<1>6. Queues(k, s)'
  BY <1>0, <1>5, Unmoved
<1> QED
  BY <1>3, <1>4, <1>6 DEF ClockInv

LEMMA TestStep == ClockInv /\ Test => ClockInv'
<1> SUFFICES ASSUME ClockInv, Test PROVE ClockInv'
  OBVIOUS
<1>0. /\ ~wild /\ clock_pc = "test" /\ clock_pc' \in {"subtract", "link_tail"}
      /\ UNCHANGED <<alarm_queue, delta, next, allocated, alarm, ptr, shorter, wild, asleep, lost>>
  BY DEF Test, queue
<1>1. ClockTypeOK'
  BY <1>0 DEF ClockInv, ClockTypeOK
<1>2. SettingInv'
  BY <1>0 DEF ClockInv, SettingInv, Linking
<1>3. PICK k, s : Queues(k, s)
  BY DEF ClockInv
<1>4. Queues(k, s)'
  BY <1>0, <1>3, Unmoved
<1> QED
  BY <1>1, <1>2, <1>4 DEF ClockInv

LEMMA ShortenStep == ClockInv /\ Shorten => ClockInv'
<1> SUFFICES ASSUME ClockInv, Shorten PROVE ClockInv'
  OBVIOUS
<1>0. /\ ~wild /\ clock_pc = "shorten" /\ clock_pc' = "store_delta"
      /\ shorter' = Minus(delta[next[ptr]], delta[alarm])
      /\ UNCHANGED <<alarm_queue, delta, next, allocated, alarm, ptr, wild, asleep, lost>>
  BY DEF Shorten, queue
<1>1. /\ delta \in [Task -> 0..(WordSize - 1)] /\ alarm \in Task /\ next[ptr] \in Task
      /\ ClockTypeOK
  BY <1>0 DEF ClockInv, ClockTypeOK, SettingInv
<1>2. shorter' \in 0..(WordSize - 1)
  BY <1>0, <1>1, MinusTyped
<1>3. ClockTypeOK'
  BY <1>0, <1>1, <1>2 DEF ClockTypeOK
<1>4. SettingInv'
  BY <1>0 DEF ClockInv, SettingInv, Linking
<1>5. PICK k, s : Queues(k, s)
  BY DEF ClockInv
<1>6. Queues(k, s)'
  BY <1>0, <1>5, Unmoved
<1> QED
  BY <1>3, <1>4, <1>6 DEF ClockInv

LEMMA StoreDeltaStep == ClockInv /\ StoreDelta => ClockInv'
<1> SUFFICES ASSUME ClockInv, StoreDelta PROVE ClockInv'
  OBVIOUS
<1>0. /\ ~wild /\ clock_pc = "store_delta" /\ clock_pc' = "link_next"
      /\ delta' = [delta EXCEPT ![next[ptr]] = shorter]
      /\ UNCHANGED <<alarm_queue, next, allocated, alarm, ptr, shorter, wild, asleep, lost>>
  BY DEF StoreDelta
<1>1. /\ delta \in [Task -> 0..(WordSize - 1)] /\ alarm \in Task /\ next[ptr] \in Task
      /\ ClockTypeOK
  BY <1>0 DEF ClockInv, ClockTypeOK, SettingInv
<1>2. delta' \in [Task -> 0..(WordSize - 1)]
  BY <1>0, <1>1 DEF ClockTypeOK
<1>3. ClockTypeOK'
  BY <1>0, <1>1, <1>2 DEF ClockTypeOK
<1>4. SettingInv'
  BY <1>0 DEF ClockInv, SettingInv, Linking
<1>5. PICK k, s : Queues(k, s)
  BY DEF ClockInv
<1>6. Queues(k, s)'
  BY <1>0, <1>5, Unmoved
<1> QED
  BY <1>3, <1>4, <1>6 DEF ClockInv

(* The next of the new alarm is not on any walk yet.                        *)
LEMMA LinkNextStep == ClockInv /\ LinkNext => ClockInv'
<1> SUFFICES ASSUME ClockInv, LinkNext PROVE ClockInv'
  OBVIOUS
<1>0. /\ ~wild /\ clock_pc = "link_next" /\ clock_pc' = "link"
      /\ next' = [next EXCEPT ![alarm] = next[ptr]]
      /\ UNCHANGED <<alarm_queue, delta, allocated, alarm, ptr, shorter, wild, asleep, lost>>
  BY DEF LinkNext
<1>1. /\ next \in [Task -> Task \cup {Null}] /\ alarm \in Task /\ ptr \in Task /\ ptr # alarm
      /\ next[ptr] \in Task /\ ClockTypeOK /\ SettingInv
  BY <1>0 DEF ClockInv, ClockTypeOK, SettingInv, Linking
<1>2. /\ next' \in [Task -> Task \cup {Null}] /\ next'[alarm] = next[ptr]
      /\ \A t \in Task : t # alarm => next'[t] = next[t]
  BY <1>0, <1>1
<1>3. ClockTypeOK'
  BY <1>0, <1>1, <1>2 DEF ClockTypeOK
<1>4. SettingInv'
  BY <1>0, <1>1, <1>2 DEF SettingInv, Linking
<1>5. PICK k, s : Queues(k, s)
  BY DEF ClockInv
<1>6. Queues(k, s)'
  <2>1. \A i \in 0..(k - 1) : s[i] \in Task /\ s[i] # alarm /\ next'[s[i]] = next[s[i]]
    BY <1>2, <1>5 DEF Queues, Links
  <2>2. Links(k, s)'
    BY <1>0, <1>5, <2>1 DEF Queues, Links
  <2> QED
    BY <1>0, <1>5, <2>2 DEF Queues
<1> QED
  BY <1>3, <1>4, <1>6 DEF ClockInv

(* Behind a freed alarm the new one is lost, but no walk leads there.       *)
LEMMA LinkTailStep == ClockInv /\ LinkTail => ClockInv'
<1> SUFFICES ASSUME ClockInv, LinkTail PROVE ClockInv'
  OBVIOUS
<1>0. /\ ~wild /\ clock_pc = "link_tail"
      /\ UNCHANGED <<alarm_queue, delta, allocated, asleep>>
  BY DEF LinkTail
<1>1. /\ next \in [Task -> Task \cup {Null}] /\ alarm \in Task /\ ptr \in Task /\ ptr # alarm
      /\ ClockTypeOK /\ SettingInv /\ next[alarm] = Null /\ Null \notin Task
      /\ alarm \in allocated \cap asleep
  BY <1>0, TaskCount DEF ClockInv, ClockTypeOK, SettingInv, Linking
<1>2. PICK k, s : Queues(k, s)
  BY DEF ClockInv
<1>3. CASE next[ptr] # Null
  <2>0. clock_pc' = "shorten" /\ UNCHANGED <<next, alarm, ptr, shorter, wild, lost>>
    BY <1>3 DEF LinkTail
  <2>1. ClockTypeOK'
    BY <1>0, <1>1, <2>0 DEF ClockTypeOK
  <2>2. SettingInv'
    <3>1. next[ptr] \in Task
      BY <1>1, <1>3
    <3> QED
      BY <1>0, <1>1, <2>0, <3>1 DEF SettingInv, Linking
  <2>3. Queues(k, s)'
    BY <1>0, <1>2, <2>0, Unmoved
  <2> QED
    BY <2>1, <2>2, <2>3 DEF ClockInv
<1>4. CASE next[ptr] = Null
  <2>0. /\ next' = [next EXCEPT ![ptr] = alarm] /\ lost' \in {lost, lost \cup {alarm}}
        /\ clock_pc' = "idle" /\ alarm' = Null /\ ptr' = Null /\ wild' = wild /\ shorter' = 0
    BY <1>4 DEF LinkTail, Return, NoteLoss
  <2>1. /\ next' \in [Task -> Task \cup {Null}] /\ next'[ptr] = alarm
        /\ \A t \in Task : t # ptr => next'[t] = next[t]
    BY <1>1, <2>0
  <2>2. ClockTypeOK'
    BY <1>0, <1>1, <2>0, <2>1, ZeroTyped DEF ClockTypeOK
  <2>3. SettingInv'
    BY <2>0 DEF SettingInv, Linking
  <2>4. /\ k \in Nat /\ s \in [0..(k - 1) -> Task] /\ \A i, j \in 0..(k - 1) : s[i] = s[j] => i = j
        /\ alarm_queue = IF k = 0 THEN Null ELSE s[0]
        /\ \A i \in 0..(k - 1) : /\ next[s[i]] = IF i = k - 1 THEN Null ELSE s[i + 1]
                                 /\ s[i] \in Task /\ s[i] \in allocated \cap asleep
                                 /\ s[i] # alarm
                                 /\ s[i] = ptr => i = 0
    BY <1>2 DEF Queues, Links
  <2>5. CASE \A i \in 0..(k - 1) : s[i] # ptr
    <3>1. \A i \in 0..(k - 1) : next'[s[i]] = next[s[i]] /\ s[i] # Null
      BY <1>1, <2>1, <2>4, <2>5
    <3>2. Links(k, s)'
      BY <1>0, <2>4, <3>1 DEF Links
    <3>3. Queues(k, s)'
      BY <1>0, <2>0, <2>4, <3>1, <3>2 DEF Queues
    <3> QED
      BY <2>2, <2>3, <3>3 DEF ClockInv
  <2>6. CASE \E i \in 0..(k - 1) : s[i] = ptr
    <3>1. 0 \in 0..(k - 1) /\ s[0] = ptr /\ k = 1
      <4>1. PICK i \in 0..(k - 1) : s[i] = ptr
        BY <2>6
      <4>2. i = 0
        BY <2>4, <4>1
      <4>3. i # k - 1 => s[i + 1] \in Task
        BY <2>4, <4>1
      <4>4. i = k - 1
        BY <1>1, <1>4, <2>4, <4>1, <4>3
      <4> QED
        BY <2>4, <4>1, <4>2, <4>4
    <3>2. PICK m \in Nat : m = 2
      OBVIOUS
    <3>a. PICK r : r = [i \in 0..(m - 1) |-> IF i = 0 THEN ptr ELSE alarm]
      OBVIOUS
    <3>3. /\ r \in [0..(m - 1) -> Task] /\ r[0] = ptr /\ r[1] = alarm
          /\ 0 \in 0..(m - 1) /\ 1 \in 0..(m - 1)
          /\ \A i \in 0..(m - 1) : (i = 0 /\ i # m - 1 /\ i + 1 = 1) \/ (i = 1 /\ i = m - 1)
      BY <1>1, <3>2, <3>a
    <3>4. \A i \in 0..(m - 1) : next'[r[i]] = IF i = m - 1 THEN Null ELSE r[i + 1]
      <4>1. next'[r[0]] = r[1]
        BY <2>1, <3>3
      <4>2. next'[r[1]] = Null
        BY <1>1, <2>1, <3>3
      <4> QED
        BY <3>3, <4>1, <4>2
    <3>5. Links(m, r)'
      <4>1. \A i, j \in 0..(m - 1) : r[i] = r[j] => i = j
        BY <1>1, <3>3
      <4>2. alarm_queue' = r[0] /\ m # 0
        BY <1>0, <2>4, <3>1, <3>2, <3>3
      <4> QED
        BY <3>3, <3>4, <4>1, <4>2 DEF Links
    <3>6. Queues(m, r)'
      <4>1. \A i \in 0..(m - 1) : r[i] \in Task /\ r[i] \in allocated \cap asleep
        BY <1>1, <2>4, <3>1, <3>3
      <4> QED
        BY <1>0, <1>1, <2>0, <3>5, <4>1 DEF Queues
    <3> QED
      BY <2>2, <2>3, <3>6 DEF ClockInv
  <2> QED
    BY <2>5, <2>6
<1> QED
  BY <1>3, <1>4

LEMMA LinkStep == ClockInv /\ Link => ClockInv'
<1> SUFFICES ASSUME ClockInv, Link PROVE ClockInv'
  OBVIOUS
<1>0. /\ ~wild /\ clock_pc = "link" /\ next' = [next EXCEPT ![ptr] = alarm]
      /\ lost' \in {lost, lost \cup {alarm}}
      /\ clock_pc' = "idle" /\ alarm' = Null /\ ptr' = Null /\ wild' = wild /\ shorter' = 0
      /\ UNCHANGED <<alarm_queue, delta, allocated, asleep>>
  BY DEF Link, Return, NoteLoss
<1>1. /\ next \in [Task -> Task \cup {Null}] /\ alarm \in Task /\ ptr \in Task /\ ptr # alarm
      /\ ClockTypeOK /\ SettingInv /\ next[ptr] \in Task /\ next[alarm] = next[ptr]
      /\ Null \notin Task /\ alarm \in allocated \cap asleep
  BY <1>0, TaskCount DEF ClockInv, ClockTypeOK, SettingInv, Linking
<1>2. PICK k, s : Queues(k, s)
  BY DEF ClockInv
<1>3. /\ next' \in [Task -> Task \cup {Null}] /\ next'[ptr] = alarm
      /\ \A t \in Task : t # ptr => next'[t] = next[t]
  BY <1>0, <1>1
<1>4. ClockTypeOK'
  BY <1>0, <1>1, <1>3, ZeroTyped DEF ClockTypeOK
<1>5. SettingInv'
  BY <1>0 DEF SettingInv, Linking
<1>6. /\ k \in Nat /\ s \in [0..(k - 1) -> Task] /\ \A i, j \in 0..(k - 1) : s[i] = s[j] => i = j
      /\ alarm_queue = IF k = 0 THEN Null ELSE s[0]
      /\ \A i \in 0..(k - 1) : /\ next[s[i]] = IF i = k - 1 THEN Null ELSE s[i + 1]
                               /\ s[i] \in Task /\ s[i] \in allocated \cap asleep
                               /\ s[i] # alarm
                               /\ s[i] = ptr => i = 0
  BY <1>2 DEF Queues, Links
<1>7. CASE \A i \in 0..(k - 1) : s[i] # ptr
  <2>1. \A i \in 0..(k - 1) : next'[s[i]] = next[s[i]] /\ s[i] # Null
    BY <1>1, <1>3, <1>6, <1>7
  <2>2. Links(k, s)'
    BY <1>0, <1>6, <2>1 DEF Links
  <2>3. Queues(k, s)'
    BY <1>0, <1>6, <2>1, <2>2 DEF Queues
  <2> QED
    BY <1>4, <1>5, <2>3 DEF ClockInv
<1>8. CASE \E i \in 0..(k - 1) : s[i] = ptr
  <2>1. 0 \in 0..(k - 1) /\ s[0] = ptr /\ 1 \in 0..(k - 1) /\ next[ptr] = s[1]
    <3>1. PICK i \in 0..(k - 1) : s[i] = ptr
      BY <1>8
    <3>2. i = 0
      BY <1>6, <3>1
    <3>3. 0 # k - 1
      BY <1>1, <1>6, <3>1, <3>2
    <3>4. next[ptr] = s[0 + 1] /\ 1 \in 0..(k - 1)
      BY <1>6, <3>1, <3>2, <3>3
    <3> QED
      BY <3>1, <3>2, <3>4
  <2>a. PICK m : m = k + 1
    OBVIOUS
  <2>b. PICK r : r = [i \in 0..(m - 1) |-> IF i = 0 THEN ptr ELSE IF i = 1 THEN alarm
                                         ELSE s[i - 1]]
    OBVIOUS
  <2>2. /\ m \in Nat /\ m # 0 /\ m - 1 = k /\ m - 1 # 0 /\ m - 1 # 1
        /\ \A i \in 0..(m - 1) : i # 0 /\ i # 1 =>
              /\ i - 1 \in 0..(k - 1) /\ i - 1 # 0 /\ (i - 1) + 1 = i
              /\ i = m - 1 <=> i - 1 = k - 1
              /\ i # m - 1 => i + 1 \in 0..(m - 1) /\ i + 1 # 0 /\ i + 1 # 1 /\ (i + 1) - 1 = i
    BY <1>6, <2>1, <2>a
  <2>3. /\ r \in [0..(m - 1) -> Task] /\ r[0] = ptr /\ r[1] = alarm
        /\ 0 \in 0..(m - 1) /\ 1 \in 0..(m - 1) /\ 2 \in 0..(m - 1)
        /\ \A i \in 0..(m - 1) : i # 0 /\ i # 1 => r[i] = s[i - 1]
    <3>1. 0 \in 0..(m - 1) /\ 1 \in 0..(m - 1) /\ 2 \in 0..(m - 1)
      BY <1>6, <2>1, <2>a
    <3>2. \A i \in 0..(m - 1) : i # 0 /\ i # 1 => s[i - 1] \in Task
      BY <1>6, <2>2
    <3> QED
      BY <1>1, <2>b, <3>1, <3>2
  <2>4. r[2] = s[1]
    <3>1. 2 - 1 = 1
      OBVIOUS
    <3> QED
      BY <2>3, <3>1
  <2>5. ASSUME NEW i \in 0..(m - 1), i # 0, i # 1
        PROVE  r[i] # ptr /\ r[i] # alarm /\ r[i] = s[i - 1] /\ i - 1 \in 0..(k - 1)
    BY <1>6, <2>2, <2>3, <2>5
  <2>6. \A i \in 0..(m - 1) : next'[r[i]] = IF i = m - 1 THEN Null ELSE r[i + 1]
    <3>1. next'[r[0]] = r[0 + 1]
      BY <1>3, <2>3
    <3>2. next'[r[1]] = r[1 + 1]
      BY <1>1, <1>3, <2>1, <2>3, <2>4
    <3>3. ASSUME NEW i \in 0..(m - 1), i # 0, i # 1
          PROVE  next'[r[i]] = IF i = m - 1 THEN Null ELSE r[i + 1]
      <4>1. next'[r[i]] = next[s[i - 1]]
        BY <1>3, <1>6, <2>5, <3>3
      <4>2. next[s[i - 1]] = IF i = m - 1 THEN Null ELSE s[i]
        BY <1>6, <2>2, <3>3
      <4>3. i # m - 1 => r[i + 1] = s[i]
        BY <2>2, <2>3, <3>3
      <4> QED
        BY <4>1, <4>2, <4>3
    <3> QED
      BY <2>2, <3>1, <3>2, <3>3
  <2>7. \A i, j \in 0..(m - 1) : r[i] = r[j] => i = j
    <3>1. ASSUME NEW i \in 0..(m - 1), NEW j \in 0..(m - 1), r[i] = r[j], i # 0, i # 1, j # 0, j # 1
          PROVE  i = j
      <4>1. i - 1 = j - 1
        BY <1>6, <2>5, <3>1
      <4> QED
        BY <2>2, <4>1
    <3> QED
      BY <1>1, <2>3, <2>5, <3>1
  <2>8. Links(m, r)'
    <3>1. alarm_queue' = r[0]
      BY <1>0, <1>6, <2>1, <2>3
    <3> QED
      BY <2>2, <2>3, <2>6, <2>7, <3>1 DEF Links
  <2>9. Queues(m, r)'
    <3>1. \A i \in 0..(m - 1) : r[i] \in Task /\ r[i] \in allocated \cap asleep
      BY <1>1, <1>6, <2>1, <2>3, <2>5
    <3> QED
      BY <1>0, <1>1, <2>8, <3>1 DEF Queues
  <2> QED
    BY <1>4, <1>5, <2>9 DEF ClockInv
<1> QED
  BY <1>7, <1>8

(* The interrupt takes alarms off the front only, so ptr is the head or     *)
(* gone, and the alarm that is being set stays.                             *)
LEMMA ClockFuncStep == ClockInv /\ ClockFunc => ClockInv'
<1> SUFFICES ASSUME ClockInv, ClockFunc PROVE ClockInv'
  OBVIOUS
<1>1. PICK k, s : Queues(k, s)
  BY DEF ClockInv
<1>2. PICK c : c = Cardinality(DuePlaces)
  OBVIOUS
<1> DEFINE head == Place[c]
           rest == Tick - Ahead[c]
<1>0. /\ alarm_queue' = head
      /\ delta' = IF head = Null THEN delta ELSE [delta EXCEPT ![head] = delta[head] - rest]
      /\ allocated' = allocated \ Due /\ asleep' = asleep \ Due
      /\ UNCHANGED <<next, alarm, ptr, shorter, clock_pc, wild, lost>>
  BY <1>2 DEF ClockFunc, locals
<1>3. /\ Links(k, s) /\ k \in Nat /\ s \in [0..(k - 1) -> Task]
      /\ \A i, j \in 0..(k - 1) : s[i] = s[j] => i = j
      /\ alarm_queue = IF k = 0 THEN Null ELSE s[0]
      /\ \A i \in 0..(k - 1) : /\ next[s[i]] = IF i = k - 1 THEN Null ELSE s[i + 1]
                               /\ s[i] \in Task /\ s[i] \in allocated \cap asleep
                               /\ s[i] # alarm
                               /\ s[i] = ptr => i = 0
      /\ Null \notin Task
  BY <1>1, TaskCount DEF Queues, Links
<1>4. /\ ClockTypeOK /\ SettingInv /\ delta \in [Task -> 0..(WordSize - 1)]
  BY DEF ClockInv, ClockTypeOK
<1>5. /\ c \in 0..k /\ c \in 0..N /\ Due = {s[i] : i \in 0..(c - 1)}
      /\ Ahead[c] \in 0..Tick /\ (c < k => rest <= delta[s[c]])
  BY <1>2, <1>3, <1>4, DueIs
<1>6. head = IF c < k THEN s[c] ELSE Null
  BY <1>3, <1>5, PlaceIs
<1>7. Tick \in Nat /\ WordSize \in Nat \ {0} /\ rest \in Nat
  <2>1. Tick \in Nat /\ WordSize \in Nat \ {0}
    BY ClockAssumption
  <2> DEFINE a == Ahead[c]
  <2>2. a \in 0..Tick
    BY <1>5
  <2> HIDE DEF a
  <2>3. Tick - a \in Nat
    BY <2>1, <2>2
  <2> QED
    BY <2>1, <2>3 DEF a
<1> HIDE DEF head, rest
<1>a. c < k => c \in 0..(k - 1)
  BY <1>3, <1>5
<1>8. delta' \in [Task -> 0..(WordSize - 1)]
  <2>1. CASE c < k
    <3> DEFINE d == delta[s[c]]
    <3>1. d \in 0..(WordSize - 1) /\ rest <= d /\ s[c] \in Task /\ head = s[c]
      BY <1>3, <1>4, <1>5, <1>6, <1>a, <2>1
    <3> HIDE DEF d
    <3>2. d - rest \in 0..(WordSize - 1)
      BY <1>7, <3>1
    <3>3. delta' = [delta EXCEPT ![s[c]] = d - rest]
      BY <1>0, <1>3, <3>1 DEF d
    <3> QED
      BY <1>4, <3>1, <3>2, <3>3
  <2>2. CASE ~ (c < k)
    BY <1>0, <1>4, <1>6, <2>2
  <2> QED
    BY <2>1, <2>2
<1>9. ClockTypeOK'
  <2>1. alarm_queue' \in Task \cup {Null}
    BY <1>0, <1>3, <1>6, <1>a
  <2> QED
    BY <1>0, <1>4, <1>8, <2>1 DEF ClockTypeOK
<1>10. SettingInv'
  <2>1. alarm_queue = Null => alarm_queue' = Null
    <3>1. alarm_queue = Null => k = 0
      <4>1. k # 0 => 0 \in 0..(k - 1)
        BY <1>3
      <4> QED
        BY <1>3, <4>1
    <3> QED
      BY <1>0, <1>5, <1>6, <3>1
  <2>2. alarm \notin Due
    <3>1. \A i \in 0..(c - 1) : i \in 0..(k - 1)
      BY <1>3, <1>5
    <3> QED
      BY <1>3, <1>5, <3>1
  <2> QED
    BY <1>0, <1>4, <2>1, <2>2 DEF SettingInv, Linking
<1>11. PICK m : m = k - c
  OBVIOUS
<1>12. PICK r : r = [i \in 0..(m - 1) |-> s[i + c]]
  OBVIOUS
<1>13. /\ m \in Nat /\ (m = 0 <=> ~ (c < k))
       /\ \A i \in 0..(m - 1) : /\ i + c \in 0..(k - 1) /\ i + c \notin 0..(c - 1)
                                /\ i = m - 1 <=> i + c = k - 1
                                /\ i + c = 0 => i = 0
                                /\ i # m - 1 => i + 1 \in 0..(m - 1)
                                /\ (i + 1) + c = (i + c) + 1
       /\ \A i \in 0..(c - 1) : i \in 0..(k - 1)
       /\ m # 0 => 0 \in 0..(m - 1) /\ 0 + c = c
       /\ \A i, j \in 0..(m - 1) : i + c = j + c => i = j
  BY <1>3, <1>5, <1>11
<1>14. r \in [0..(m - 1) -> Task] /\ \A i \in 0..(m - 1) : r[i] = s[i + c]
  BY <1>3, <1>12, <1>13
<1>15. Links(m, r)'
  <2>1. \A i, j \in 0..(m - 1) : r[i] = r[j] => i = j
    <3> SUFFICES ASSUME NEW i \in 0..(m - 1), NEW j \in 0..(m - 1), r[i] = r[j] PROVE i = j
      OBVIOUS
    <3>1. s[i + c] = s[j + c] /\ i + c \in 0..(k - 1) /\ j + c \in 0..(k - 1)
      BY <1>13, <1>14
    <3>2. i + c = j + c
      BY <1>3, <3>1
    <3> QED
      BY <1>13, <3>2
  <2>2. alarm_queue' = IF m = 0 THEN Null ELSE r[0]
    BY <1>0, <1>6, <1>13, <1>14
  <2>3. \A i \in 0..(m - 1) : next'[r[i]] = IF i = m - 1 THEN Null ELSE r[i + 1]
    <3> SUFFICES ASSUME NEW i \in 0..(m - 1)
                 PROVE  next'[r[i]] = IF i = m - 1 THEN Null ELSE r[i + 1]
      OBVIOUS
    <3>1. next[s[i + c]] = IF i = m - 1 THEN Null ELSE s[(i + c) + 1]
      BY <1>3, <1>13
    <3>2. i # m - 1 => r[i + 1] = s[(i + c) + 1]
      <4> SUFFICES ASSUME i # m - 1 PROVE r[i + 1] = s[(i + c) + 1]
        OBVIOUS
      <4>1. i + 1 \in 0..(m - 1) /\ (i + 1) + c = (i + c) + 1
        BY <1>13
      <4> DEFINE j == i + 1
      <4>2. j \in 0..(m - 1) /\ j + c = (i + c) + 1
        BY <4>1
      <4> HIDE DEF j
      <4>3. r[j] = s[(i + c) + 1]
        BY <1>14, <4>2
      <4> QED
        BY <4>3 DEF j
    <3> QED
      BY <1>0, <1>14, <3>1, <3>2
  <2> QED
    BY <1>13, <1>14, <2>1, <2>2, <2>3 DEF Links
<1>16. Queues(m, r)'
  <2>1. ASSUME NEW i \in 0..(m - 1)
        PROVE  r[i] \in allocated' \cap asleep' /\ r[i] # alarm' /\ (r[i] = ptr' => i = 0)
    <3>1. r[i] = s[i + c] /\ i + c \in 0..(k - 1) /\ i + c \notin 0..(c - 1)
      BY <1>13, <1>14
    <3>2. r[i] \notin Due
      BY <1>3, <1>5, <1>13, <3>1
    <3> QED
      BY <1>0, <1>3, <1>13, <3>1, <3>2
  <2> QED
    BY <1>15, <2>1 DEF Queues
<1> QED
  BY <1>9, <1>10, <1>16 DEF ClockInv

LEMMA ClockInvariance == ClockSpec => []ClockInv
<1>1. ClockInit => ClockInv
  BY ClockInitInv
<1>2. ClockInv /\ [ClockNext]_clock_vars => ClockInv'
  <2> SUFFICES ASSUME ClockInv, [ClockNext]_clock_vars PROVE ClockInv'
    OBVIOUS
  <2>1. ASSUME NEW t \in Task, NEW ms \in Delays, SetWakeup(t, ms) PROVE ClockInv'
    BY <2>1, SetWakeupStep
  <2>2. CASE LinkHead
    BY <2>2, LinkHeadStep
  <2>3. CASE LoadPtr
    BY <2>3, LoadPtrStep
  <2>4. CASE Subtract
    BY <2>4, SubtractStep
  <2>5. CASE Test
    BY <2>5, TestStep
  <2>6. CASE LinkTail
    BY <2>6, LinkTailStep
  <2>7. CASE Shorten
    BY <2>7, ShortenStep
  <2>12. CASE StoreDelta
    BY <2>12, StoreDeltaStep
  <2>8. CASE LinkNext
    BY <2>8, LinkNextStep
  <2>9. CASE Link
    BY <2>9, LinkStep
  <2>10. CASE ClockFunc
    BY <2>10, ClockFuncStep
  <2>11. CASE UNCHANGED clock_vars
    <3>1. UNCHANGED <<alarm_queue, delta, next, allocated, alarm, ptr, clock_pc, wild, asleep,
                      shorter, lost>>
      BY <2>11 DEF clock_vars, queue, locals
    <3>2. ClockTypeOK' /\ SettingInv'
      BY <3>1 DEF ClockInv, ClockTypeOK, SettingInv
    <3>3. PICK k, s : Queues(k, s)
      BY DEF ClockInv
    <3>4. Queues(k, s)'
      BY <3>1, <3>3, Unmoved
    <3> QED
      BY <3>2, <3>4 DEF ClockInv
  <2> QED
    BY <2>1, <2>2, <2>3, <2>4, <2>5, <2>6, <2>7, <2>8, <2>9, <2>10, <2>11,
       <2>12
    DEF ClockNext, Setting
<1> QED
  BY <1>1, <1>2, PTL DEF ClockSpec

(* However the timer interrupt cuts into clock_set_wakeup, the queue of     *)
(* alarms ends, every variable has its type, also when deltas wrap, and     *)
(* clock_func takes off and frees only alarms that are allocated.           *)
THEOREM QueueSound == ClockSpec => []QueueIntact
BY ClockInvariance, QueueEnds, PTL
=============================================================================

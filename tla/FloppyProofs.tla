----------------------------- MODULE FloppyProofs -----------------------------
(***************************************************************************)
(* Theorems about Floppy, for every number of tasks, every geometry of the *)
(* disk and any number of refused commands.                                *)
(***************************************************************************)
EXTENDS Floppy, TLAPS

-----------------------------------------------------------------------------
(* Addresses *)

(* Quotient and remainder.                                                  *)
LEMMA DivFacts ==
    ASSUME NEW a \in Nat, NEW d \in Nat \ {0}
    PROVE  /\ a = d * (a \div d) + (a % d)
           /\ a % d \in 0..(d - 1)
           /\ a \div d \in Nat
OBVIOUS

(* Quotient and remainder are unique.                                       *)
LEMMA DivUnique ==
    ASSUME NEW d \in Nat \ {0}, NEW p \in Nat, NEW q \in Nat,
           NEW r \in 0..(d - 1), NEW s \in 0..(d - 1),
           d * p + r = d * q + s
    PROVE  p = q
<1>1. CASE p < q
  <2>1. d * (p + 1) <= d * q
    BY <1>1
  <2> QED
    BY <2>1
<1>2. CASE q < p
  <2>1. d * (q + 1) <= d * p
    BY <1>2
  <2> QED
    BY <2>1
<1> QED
  BY <1>1, <1>2

(* What lies below a multiple has a smaller quotient.                       *)
LEMMA Below ==
    ASSUME NEW d \in Nat \ {0}, NEW m \in Nat, NEW q \in Nat, NEW r \in 0..(d - 1)
    PROVE  /\ d * q + r < d * m => q < m
           /\ q < m => d * q + r < d * m
<1>1. CASE q < m
  <2>1. d * (q + 1) <= d * m
    BY <1>1
  <2> QED
    BY <1>1, <2>1
<1>2. CASE m <= q
  <2>1. d * m <= d * q
    BY <1>2
  <2> QED
    BY <1>2, <2>1
<1> QED
  BY <1>1, <1>2

(* floppy_read's address of a block names a place on the disk, and that     *)
(* place holds the block.                                                   *)
LEMMA AddressRight ==
    ASSUME NEW b \in Lba
    PROVE  Address(b) \in Chs /\ Sector(Address(b)) = b
<1> DEFINE q == b \div SEC
           s == b % SEC
           c == q \div HD
           h == q % HD
<1>0. SEC \in Nat \ {0} /\ HD \in Nat \ {0} /\ CYL \in Nat \ {0}
  BY FloppyAssumption
<1>1. SEC * HD \in Nat \ {0} /\ SEC * HD * CYL \in Nat
  BY <1>0
<1>2. b \in Nat /\ b < SEC * HD * CYL
  BY <1>1 DEF Lba
<1>3. b = SEC * q + s /\ s \in 0..(SEC - 1) /\ q \in Nat
  BY <1>0, <1>2, DivFacts
<1>4. q = HD * c + h /\ h \in 0..(HD - 1) /\ c \in Nat
  BY <1>0, <1>3, DivFacts
<1>5. (SEC * HD) * (b \div (SEC * HD)) + (b % (SEC * HD)) = b
      /\ b % (SEC * HD) \in 0..((SEC * HD) - 1) /\ b \div (SEC * HD) \in Nat
  BY <1>1, <1>2, DivFacts
<1> HIDE DEF q, s, c, h
<1>6. SEC * h + s \in 0..((SEC * HD) - 1)
  <2>1. SEC * h + s < SEC * HD
    BY <1>0, <1>3, <1>4, Below
  <2> QED
    BY <2>1, <1>0, <1>1, <1>3, <1>4
<1>7. b = (SEC * HD) * c + (SEC * h + s)
  <2>1. SEC * (HD * c + h) = (SEC * HD) * c + SEC * h
    BY <1>0, <1>4
  <2> QED
    BY <2>1, <1>0, <1>1, <1>3, <1>4
<1>8. b \div (SEC * HD) = c
  BY <1>1, <1>4, <1>5, <1>6, <1>7, DivUnique
<1>9. c \in 0..(CYL - 1)
  <2>1. c < CYL
    BY <1>0, <1>1, <1>2, <1>4, <1>6, <1>7, Below
  <2> QED
    BY <2>1, <1>0, <1>4
<1>10. Address(b) = [cylinder |-> c, head |-> h, sector |-> s + 1]
  BY <1>8 DEF Address, q, s, h
<1>11. Address(b) \in Chs
  BY <1>0, <1>3, <1>4, <1>9, <1>10 DEF Chs
<1>12. Sector(Address(b)) = (c * HD + h) * SEC + (s + 1) - 1
  BY <1>10 DEF Sector
<1>13. (c * HD + h) * SEC = SEC * q
  BY <1>0, <1>3, <1>4
<1> QED
  BY <1>0, <1>3, <1>4, <1>11, <1>12, <1>13

(* Every place on the disk holds a block.                                   *)
LEMMA SectorInLba ==
    ASSUME NEW a \in Chs
    PROVE  Sector(a) \in Lba
<1>0. SEC \in Nat \ {0} /\ HD \in Nat \ {0} /\ CYL \in Nat \ {0}
  BY FloppyAssumption
<1>1. /\ a.cylinder \in Nat /\ a.cylinder < CYL
      /\ a.head \in 0..(HD - 1) /\ a.sector - 1 \in 0..(SEC - 1)
  BY <1>0 DEF Chs
<1>2. HD * a.cylinder + a.head < HD * CYL /\ HD * a.cylinder + a.head \in Nat
  BY <1>0, <1>1, Below
<1>3. SEC * (HD * a.cylinder + a.head) + (a.sector - 1) < SEC * (HD * CYL)
  <2> DEFINE q == HD * a.cylinder + a.head
             r == a.sector - 1
             m == HD * CYL
  <2>1. SEC \in Nat \ {0} /\ m \in Nat /\ q \in Nat /\ r \in 0..(SEC - 1) /\ q < m
    BY <1>0, <1>1, <1>2
  <2> HIDE DEF q, r, m
  <2>2. SEC * q + r < SEC * m
    BY <2>1, Below
  <2> QED
    BY <2>2 DEF q, r, m
<1>4. SEC * (HD * CYL) = SEC * HD * CYL
  BY <1>0
<1>5. Sector(a) = SEC * (HD * a.cylinder + a.head) + (a.sector - 1)
  <2> DEFINE c == a.cylinder
             h == a.head
             s == a.sector
  <2>1. Sector(a) = (c * HD + h) * SEC + s - 1
    BY DEF Sector
  <2>2. c \in Nat /\ h \in Int /\ s \in Int
    BY <1>1 DEF Chs
  <2> HIDE DEF c, h, s
  <2>3. (c * HD + h) * SEC + s - 1 = SEC * (HD * c + h) + (s - 1)
    BY <1>0, <2>2
  <2> QED
    BY <2>1, <2>3 DEF c, h, s
<1>6. Sector(a) \in Nat /\ SEC * HD * CYL \in Nat
  BY <1>0, <1>1, <1>2, <1>5
<1> QED
  BY <1>3, <1>4, <1>5, <1>6 DEF Lba

-----------------------------------------------------------------------------
(* The invariant *)

(* A task in floppy_read has one of the blocks asked for.                   *)
LbaInv == \A t \in Task : pc[t] # "out" => lba[t] \in Wanted

(* A task is on one list at most, on none outside floppy_read; it waits for *)
(* the clock only where floppy_read does.                                   *)
SleepInv ==
    \A t \in Task :
        /\ ~(t \in waiting /\ t \in alarms)
        /\ ~(t \in waiting /\ t \in ready)
        /\ ~(t \in alarms /\ t \in ready)
        /\ pc[t] = "out" => t \notin waiting /\ t \notin ready
        /\ t \in alarms => pc[t] \in {"select", "again"}

(* While tasks have not mixed, the controller transfers for the task the    *)
(* DMA channel is set to and keeps the result for it, and a task that       *)
(* believes in its transfer either has it or was stopped by a reset.        *)
TransferInv ==
    fdc.phase = "transfer" =>
        pc[dma] = "xfer" /\ res[dma] /\ fdc.target = Address(lba[dma])
ResultInv == fdc.phase = "result" => fdc.failed \/ data[dma] = lba[dma]
BelieverInv ==
    \A u \in Task :
        pc[u] = "xfer" /\ res[u] =>
            /\ u \in waiting => \/ fdc.phase = "reset"
                                \/ fdc.phase = "transfer" /\ u = dma
            /\ u \in ready => /\ fdc.phase # "transfer"
                              /\ fdc.phase = "result" => u = dma
MixInv == ~mixed => ~wrong /\ TransferInv /\ ResultInv /\ BelieverInv

IInv == TypeOK /\ LbaInv /\ SleepInv /\ StrandedOnlyByRefusal /\ MixInv

(* The steps that call floppy_sense, with the outcome and the number of     *)
(* interrupts left as parameters.                                           *)
ResetEnds(t, outcome, left) ==
    /\ left \in 0..5 /\ refusals' \in 0..MaxRefusals
    /\ fdc' = [fdc EXCEPT !.unsensed = left]
    /\ Goto(t, IF outcome = "fails" THEN "again" ELSE "select")
    /\ ClockSleep(t)
RecalEnds(t, outcome, left) ==
    /\ left \in 0..5 /\ refusals' \in 0..MaxRefusals
    /\ outcome # "fails" => Listens
    /\ Sleep(t, outcome, "seek")
    /\ fdc' = IF outcome # "sent" THEN [fdc EXCEPT !.unsensed = left]
              ELSE [fdc EXCEPT !.unsensed = left, !.phase = "seek",
                               !.target = Address(lba[t])]
SeekEnds(t, outcome, left) ==
    /\ left \in 0..5 /\ refusals' \in 0..MaxRefusals
    /\ outcome # "fails" => Listens
    /\ outcome = "sent" => fdc.phase = "idle"
    /\ Sleep(t, outcome, "xfer")
    /\ dma' = IF outcome = "fails" THEN dma ELSE t
    /\ fdc' = IF outcome # "sent" THEN [fdc EXCEPT !.unsensed = left]
              ELSE [fdc EXCEPT !.unsensed = left, !.phase = "transfer",
                               !.target = Address(lba[t])]
    /\ mixed' = (mixed \/ (outcome = "sent" /\ \E u \in ready : Unaware(u)))

(* What calls of floppy_sense leave is still a count of interrupts.         *)
LEMMA SensedType ==
    ASSUME TypeOK, NEW n \in Nat, NEW outcome, NEW left \in Sensed(outcome, n),
           outcome # "fails" => CanSense(n)
    PROVE  left \in 0..5
BY DEF TypeOK, CanSense, Sensed

(* AfterReset, AfterRecal and AfterSeek end in such a way.                  *)
LEMMA ResetEnding ==
    ASSUME TypeOK, NEW t \in Task, AfterReset(t)
    PROVE  \E outcome \in {"fails", "sent"} : \E left \in 0..5 : ResetEnds(t, outcome, left)
<1>1. PICK outcome \in {"fails", "sent"} : \E left \in Sensed(outcome, 4) :
         /\ Tries(outcome, CanSense(4))
         /\ fdc' = [fdc EXCEPT !.unsensed = left]
         /\ Goto(t, IF outcome = "fails" THEN "again" ELSE "select")
  BY DEF AfterReset, Initialise
<1>2. PICK left \in Sensed(outcome, 4) :
         /\ Tries(outcome, CanSense(4))
         /\ fdc' = [fdc EXCEPT !.unsensed = left]
         /\ Goto(t, IF outcome = "fails" THEN "again" ELSE "select")
  BY <1>1
<1>3. left \in 0..5
  BY <1>2, SensedType DEF Tries
<1>4. refusals' \in 0..MaxRefusals
  BY <1>2, FloppyAssumption DEF Tries, TypeOK
<1> QED
  BY <1>2, <1>3, <1>4 DEF ResetEnds, AfterReset, Initialise

LEMMA RecalEnding ==
    ASSUME TypeOK, NEW t \in Task, AfterRecal(t)
    PROVE  \E outcome \in Outcome : \E left \in 0..5 : RecalEnds(t, outcome, left)
<1> DEFINE Body(o, l) ==
        /\ Tries(o, res[t] /\ CanSense(1))
        /\ Sleep(t, o, "seek")
        /\ fdc' = IF o # "sent" THEN [fdc EXCEPT !.unsensed = l]
                  ELSE [fdc EXCEPT !.unsensed = l, !.phase = "seek",
                                   !.target = Address(lba[t])]
<1>1. PICK outcome \in Outcome :
        \E left \in IF res[t] THEN Sensed(outcome, 1) ELSE {fdc.unsensed} :
            Body(outcome, left)
  BY DEF AfterRecal
<1>2. PICK left \in IF res[t] THEN Sensed(outcome, 1) ELSE {fdc.unsensed} :
            Body(outcome, left)
  BY <1>1
<1>3. left \in 0..5
  <2>1. CASE res[t]
    BY <2>1, <1>2, SensedType DEF Tries
  <2>2. CASE ~res[t]
    BY <2>2, <1>2 DEF TypeOK
  <2> QED
    BY <2>1, <2>2
<1>4. refusals' \in 0..MaxRefusals
  BY <1>2, FloppyAssumption DEF Tries, TypeOK
<1>5. outcome # "fails" => Listens
  BY <1>2 DEF Tries, CanSense
<1> QED
  BY <1>2, <1>3, <1>4, <1>5 DEF RecalEnds

LEMMA SeekEnding ==
    ASSUME TypeOK, NEW t \in Task, AfterSeek(t)
    PROVE  \E outcome \in Outcome : \E left \in 0..5 : SeekEnds(t, outcome, left)
<1> DEFINE Body(o, l) ==
        /\ Tries(o, res[t] /\ CanSense(1))
        /\ o = "sent" => fdc.phase = "idle"
        /\ Sleep(t, o, "xfer")
        /\ dma' = IF o = "fails" THEN dma ELSE t
        /\ fdc' = IF o # "sent" THEN [fdc EXCEPT !.unsensed = l]
                  ELSE [fdc EXCEPT !.unsensed = l, !.phase = "transfer",
                                   !.target = Address(lba[t])]
        /\ mixed' = (mixed \/ (o = "sent" /\ \E u \in ready : Unaware(u)))
<1>1. PICK outcome \in Outcome :
        \E left \in IF res[t] THEN Sensed(outcome, 1) ELSE {fdc.unsensed} :
            Body(outcome, left)
  BY DEF AfterSeek
<1>2. PICK left \in IF res[t] THEN Sensed(outcome, 1) ELSE {fdc.unsensed} :
            Body(outcome, left)
  BY <1>1
<1>3. left \in 0..5
  <2>1. CASE res[t]
    BY <2>1, <1>2, SensedType DEF Tries
  <2>2. CASE ~res[t]
    BY <2>2, <1>2 DEF TypeOK
  <2> QED
    BY <2>1, <2>2
<1>4. refusals' \in 0..MaxRefusals
  BY <1>2, FloppyAssumption DEF Tries, TypeOK
<1>5. outcome # "fails" => Listens
  BY <1>2 DEF Tries, CanSense
<1> QED
  BY <1>2, <1>3, <1>4, <1>5 DEF SeekEnds

-----------------------------------------------------------------------------
(* Types *)

Phase == {"idle", "reset", "seek", "transfer", "result"}
Controller == [phase : Phase, unsensed : 0..5, cylinder : 0..(CYL - 1),
               target : Chs, failed : BOOLEAN]

(* The changes the actions make to the controller.                          *)
LEMMA Updates ==
    ASSUME NEW f \in Controller
    PROVE  /\ \A n \in 0..5 : [f EXCEPT !.unsensed = n] \in Controller
           /\ \A p \in Phase, n \in 0..5 :
                [f EXCEPT !.phase = p, !.unsensed = n] \in Controller
           /\ \A p \in Phase, a \in Chs :
                [f EXCEPT !.phase = p, !.target = a] \in Controller
           /\ \A p \in Phase, n \in 0..5, a \in Chs :
                [f EXCEPT !.unsensed = n, !.phase = p, !.target = a] \in Controller
           /\ \A p \in Phase, b \in BOOLEAN :
                [f EXCEPT !.phase = p, !.failed = b] \in Controller
           /\ \A p \in Phase, n \in 0..5, c \in 0..(CYL - 1) :
                [f EXCEPT !.phase = p, !.unsensed = n, !.cylinder = c] \in Controller
BY DEF Controller

(* Sleep keeps the types of what it changes.                                *)
LEMMA SleepType ==
    ASSUME TypeOK, NEW t \in Task, NEW outcome, NEW to \in {"recal", "seek", "xfer"},
           Sleep(t, outcome, to)
    PROVE  /\ pc' \in [Task -> {"out", "reset", "select", "recal", "seek", "xfer", "again"}]
           /\ res' \in [Task -> BOOLEAN]
           /\ waiting' \subseteq Task /\ alarms' \subseteq Task
           /\ \A u \in Task : pc'[u] # "out" => u = t \/ pc[u] # "out"
<1>1. CASE outcome = "fails"
  BY <1>1 DEF TypeOK, Sleep, Goto, ClockSleep
<1>2. CASE outcome # "fails"
  BY <1>2 DEF TypeOK, Sleep, Goto, IrqSleep
<1> QED
  BY <1>1, <1>2

(* The recalibrated head stands over the disk.                              *)
LEMMA ZeroAddress == Address(0) \in Chs
<1>1. SEC \in Nat \ {0} /\ HD \in Nat \ {0} /\ CYL \in Nat \ {0}
  BY FloppyAssumption
<1>2. SEC * HD \in Nat \ {0}
  BY <1>1
<1>3. SEC * HD * CYL \in Nat \ {0}
  BY <1>1, <1>2
<1>4. 0 \in Lba
  BY <1>3 DEF Lba
<1> QED
  BY <1>4, AddressRight

(* Every step leaves the controller in a state it can be in.                *)
LEMMA ControllerStep ==
    ASSUME TypeOK, LbaInv, [Next]_vars
    PROVE  fdc' \in Controller
<1>0. Address(0) \in Chs
  BY ZeroAddress
<1>w. \A b \in Wanted : Address(b) \in Chs
  BY FloppyAssumption, AddressRight
<1>a. fdc \in Controller
  BY DEF TypeOK, Controller, Phase
<1>p. /\ "idle" \in Phase /\ "reset" \in Phase /\ "seek" \in Phase
      /\ "transfer" \in Phase /\ "result" \in Phase
  BY DEF Phase
<1>n. /\ 0 \in 0..5 /\ 4 \in 0..5
      /\ \A n \in 0..5 : (IF n < 5 THEN n + 1 ELSE n) \in 0..5
  OBVIOUS
<1>b. /\ fdc.unsensed \in 0..5 /\ fdc.cylinder \in 0..(CYL - 1)
      /\ fdc.target \in Chs /\ fdc.target.cylinder \in 0..(CYL - 1)
  BY <1>a DEF Controller, Chs
<1>1. ASSUME NEW t \in Task, Reset(t)
      PROVE  fdc' \in Controller
  <2>1. fdc' = [fdc EXCEPT !.phase = "reset", !.unsensed = 0]
    BY <1>1 DEF Reset
  <2> QED
    BY <2>1, <1>a, <1>b, <1>p, <1>n, Updates
<1>2. ASSUME NEW t \in Task, AfterReset(t)
      PROVE  fdc' \in Controller
  <2>1. PICK outcome \in {"fails", "sent"}, left \in 0..5 : ResetEnds(t, outcome, left)
    BY <1>2, ResetEnding
  <2> QED
    BY <2>1, <1>a, Updates DEF ResetEnds
<1>3. ASSUME NEW t \in Task, AfterSelect(t)
      PROVE  fdc' \in Controller
  <2>1. \/ fdc' = fdc
        \/ fdc' = [fdc EXCEPT !.phase = "seek", !.target = Address(0)]
    BY <1>3 DEF AfterSelect
  <2> DEFINE a == Address(0)
  <2>2. a \in Chs
    BY <1>0
  <2> HIDE DEF a
  <2>3. [fdc EXCEPT !.phase = "seek", !.target = a] \in Controller
    BY <2>2, <1>a, <1>p, Updates
  <2> QED
    BY <2>1, <2>3, <1>a DEF a
<1>4. ASSUME NEW t \in Task, AfterRecal(t)
      PROVE  fdc' \in Controller
  <2>1. PICK outcome \in Outcome, left \in 0..5 : RecalEnds(t, outcome, left)
    BY <1>4, RecalEnding
  <2>2. \/ fdc' = [fdc EXCEPT !.unsensed = left]
        \/ fdc' = [fdc EXCEPT !.unsensed = left, !.phase = "seek",
                              !.target = Address(lba[t])]
    BY <2>1 DEF RecalEnds
  <2> DEFINE a == Address(lba[t])
  <2>3. a \in Chs
    BY <1>w, <1>4 DEF AfterRecal, Runs, LbaInv
  <2> HIDE DEF a
  <2>4. /\ [fdc EXCEPT !.unsensed = left] \in Controller
        /\ [fdc EXCEPT !.unsensed = left, !.phase = "seek", !.target = a] \in Controller
    BY <2>3, <1>a, <1>p, Updates
  <2> QED
    BY <2>2, <2>4 DEF a
<1>5. ASSUME NEW t \in Task, AfterSeek(t)
      PROVE  fdc' \in Controller
  <2>1. PICK outcome \in Outcome, left \in 0..5 : SeekEnds(t, outcome, left)
    BY <1>5, SeekEnding
  <2>2. \/ fdc' = [fdc EXCEPT !.unsensed = left]
        \/ fdc' = [fdc EXCEPT !.unsensed = left, !.phase = "transfer",
                              !.target = Address(lba[t])]
    BY <2>1 DEF SeekEnds
  <2> DEFINE a == Address(lba[t])
  <2>3. a \in Chs
    BY <1>w, <1>5 DEF AfterSeek, Runs, LbaInv
  <2> HIDE DEF a
  <2>4. /\ [fdc EXCEPT !.unsensed = left] \in Controller
        /\ [fdc EXCEPT !.unsensed = left, !.phase = "transfer", !.target = a] \in Controller
    BY <2>3, <1>a, <1>p, Updates
  <2> QED
    BY <2>2, <2>4 DEF a
<1>6. ASSUME NEW t \in Task, AfterXfer(t)
      PROVE  fdc' \in Controller
  <2>1. fdc' = fdc \/ fdc' = [fdc EXCEPT !.phase = "idle", !.failed = FALSE]
    BY <1>6 DEF AfterXfer, Return
  <2> QED
    BY <2>1, <1>a, <1>b, <1>p, <1>n, Updates
<1>7. CASE ResetDone
  <2>1. fdc' = [fdc EXCEPT !.phase = "idle", !.unsensed = 4]
    BY <1>7 DEF ResetDone
  <2> QED
    BY <2>1, <1>a, <1>b, <1>p, <1>n, Updates
<1>8. CASE SeekDone
  <2>1. fdc' = [fdc EXCEPT !.phase = "idle",
                           !.unsensed = IF fdc.unsensed < 5 THEN fdc.unsensed + 1
                                        ELSE fdc.unsensed,
                           !.cylinder = fdc.target.cylinder]
    BY <1>8 DEF SeekDone
  <2> QED
    BY <2>1, <1>a, <1>b, <1>p, <1>n, Updates
<1>9. CASE TransferDone
  <2>1. PICK b \in BOOLEAN : fdc' = [fdc EXCEPT !.phase = "result", !.failed = b]
    BY <1>9, <1>b DEF TransferDone
  <2> QED
    BY <2>1, <1>a, <1>p, Updates
<1>10. CASE UNCHANGED vars \/ \E t \in Task : Alarm(t)
  BY <1>10, <1>a DEF vars, Alarm
<1> QED
  BY <1>1, <1>2, <1>3, <1>4, <1>5, <1>6, <1>7, <1>8, <1>9, <1>10
     DEF Next, Start, Retry

(* Every step keeps the types, and the block each task asked for.           *)
LEMMA TypeStep ==
    ASSUME TypeOK, LbaInv, [Next]_vars
    PROVE  TypeOK' /\ LbaInv'
<1>0. fdc' \in Controller
  BY ControllerStep
<1> DEFINE Others == /\ pc \in [Task -> {"out", "reset", "select", "recal", "seek", "xfer", "again"}]
                     /\ lba \in [Task -> Wanted \cup {Junk}]
                     /\ res \in [Task -> BOOLEAN]
                     /\ waiting \subseteq Task /\ alarms \subseteq Task /\ ready \subseteq Task
                     /\ dma \in Task
                     /\ data \in [Task -> Lba \cup {Junk}]
                     /\ wrong \in BOOLEAN /\ mixed \in BOOLEAN
                     /\ refusals \in 0..MaxRefusals
<1>a. Others
  BY DEF TypeOK
<1> SUFFICES Others' /\ LbaInv'
  BY <1>0 DEF TypeOK, Controller, Phase
<1> USE DEF LbaInv
<1>1. ASSUME NEW t \in Task, NEW b \in Wanted, Start(t, b)
      PROVE  Others' /\ LbaInv'
  BY <1>a, <1>1 DEF Start, Reset, Goto, IrqSleep
<1>2. ASSUME NEW t \in Task, Retry(t)
      PROVE  Others' /\ LbaInv'
  BY <1>a, <1>2 DEF Retry, Runs, Reset, Goto, IrqSleep
<1>3. ASSUME NEW t \in Task, AfterReset(t)
      PROVE  Others' /\ LbaInv'
  <2>1. PICK outcome \in {"fails", "sent"}, left \in 0..5 : ResetEnds(t, outcome, left)
    BY <1>3, ResetEnding
  <2> QED
    BY <1>a, <1>3, <2>1 DEF ResetEnds, AfterReset, Initialise, Runs, Goto, ClockSleep
<1>4. ASSUME NEW t \in Task, AfterSelect(t)
      PROVE  Others' /\ LbaInv'
  <2>1. PICK outcome \in Outcome : Tries(outcome, Listens) /\ Sleep(t, outcome, "recal")
    BY <1>4 DEF AfterSelect
  <2>2. refusals' \in 0..MaxRefusals
    BY <1>a, <2>1, FloppyAssumption DEF Tries
  <2> QED
    BY <1>a, <1>4, <2>1, <2>2, SleepType DEF AfterSelect, Runs
<1>5. ASSUME NEW t \in Task, AfterRecal(t)
      PROVE  Others' /\ LbaInv'
  <2>1. PICK outcome \in Outcome, left \in 0..5 : RecalEnds(t, outcome, left)
    BY <1>5, RecalEnding
  <2>2. Sleep(t, outcome, "seek") /\ refusals' \in 0..MaxRefusals
    BY <2>1 DEF RecalEnds
  <2> QED
    BY <1>a, <1>5, <2>2, SleepType DEF AfterRecal, Runs
<1>6. ASSUME NEW t \in Task, AfterSeek(t)
      PROVE  Others' /\ LbaInv'
  <2>1. PICK outcome \in Outcome, left \in 0..5 : SeekEnds(t, outcome, left)
    BY <1>6, SeekEnding
  <2>2. /\ Sleep(t, outcome, "xfer") /\ refusals' \in 0..MaxRefusals
        /\ dma' \in Task /\ mixed' \in BOOLEAN
    BY <1>a, <2>1 DEF SeekEnds
  <2> QED
    BY <1>a, <1>6, <2>2, SleepType DEF AfterSeek, Runs
<1>7. ASSUME NEW t \in Task, AfterXfer(t)
      PROVE  Others' /\ LbaInv'
  BY <1>a, <1>7, FloppyAssumption DEF AfterXfer, Runs, Return, Goto, ClockSleep
<1>8. ASSUME NEW t \in Task, Alarm(t)
      PROVE  Others' /\ LbaInv'
  BY <1>a, <1>8 DEF Alarm
<1>9. CASE ResetDone
  BY <1>a, <1>9 DEF ResetDone, Interrupt, Wake
<1>10. CASE SeekDone
  BY <1>a, <1>10 DEF SeekDone, Interrupt, Wake
<1>11. CASE TransferDone
  <2>1. Sector(fdc.target) \in Lba
    BY SectorInLba DEF TypeOK
  <2> QED
    BY <1>a, <1>11, <2>1 DEF TransferDone, Interrupt, Wake
<1>12. CASE UNCHANGED vars
  BY <1>a, <1>12 DEF vars, asleep
<1> QED
  BY <1>1, <1>2, <1>3, <1>4, <1>5, <1>6, <1>7, <1>8, <1>9, <1>10, <1>11, <1>12
     DEF Next

-----------------------------------------------------------------------------
(* Where tasks sleep *)

(* What Sleep does to the lists of a task that has been running.            *)
LEMMA SleepLists ==
    ASSUME TypeOK, NEW t \in Task, NEW outcome, NEW to \in {"recal", "seek", "xfer"},
           Sleep(t, outcome, to)
    PROVE  /\ pc' = [pc EXCEPT ![t] = IF outcome = "fails" THEN "again" ELSE to]
           /\ waiting' = IF outcome = "fails" THEN waiting ELSE waiting \cup {t}
           /\ alarms' = IF outcome = "fails" THEN alarms \cup {t} ELSE alarms
           /\ outcome = "fails" => res' = res
           /\ outcome # "fails" => (res'[t] <=> outcome = "sent")
           /\ \A u \in Task \ {t} : res'[u] = res[u]
<1>1. CASE outcome = "fails"
  BY <1>1 DEF Sleep, Goto, ClockSleep
<1>2. CASE outcome # "fails"
  <2>1. res' = [res EXCEPT ![t] = outcome = "sent"] /\ res \in [Task -> BOOLEAN]
    BY <1>2 DEF Sleep, TypeOK
  <2>2. res'[t] <=> outcome = "sent"
    BY <2>1, Zenon
  <2>3. \A u \in Task \ {t} : res'[u] = res[u]
    BY <2>1
  <2> QED
    BY <1>2, <2>2, <2>3 DEF Sleep, Goto, IrqSleep
<1> QED
  BY <1>1, <1>2

(* Every step keeps the lists apart: a task that sleeps has been running.   *)
LEMMA SleepStep ==
    ASSUME TypeOK, SleepInv, [Next]_vars
    PROVE  SleepInv'
<1> USE DEF TypeOK, SleepInv
<1>1. ASSUME NEW t \in Task, NEW b \in Wanted, Start(t, b)
      PROVE  SleepInv'
  BY <1>1 DEF Start, Reset, Goto, IrqSleep
<1>2. ASSUME NEW t \in Task, Retry(t)
      PROVE  SleepInv'
  BY <1>2 DEF Retry, Runs, Reset, Goto, IrqSleep
<1>3. ASSUME NEW t \in Task, AfterReset(t)
      PROVE  SleepInv'
  <2>1. PICK outcome \in {"fails", "sent"}, left \in 0..5 : ResetEnds(t, outcome, left)
    BY <1>3, ResetEnding
  <2> QED
    BY <1>3, <2>1 DEF ResetEnds, AfterReset, Initialise, Runs, Goto, ClockSleep
<1>4. ASSUME NEW t \in Task, NEW at, NEW to \in {"recal", "seek", "xfer"}, NEW outcome,
             Runs(t, at), Sleep(t, outcome, to)
      PROVE  SleepInv'
  BY <1>4, SleepLists DEF Runs
<1>5. ASSUME NEW t \in Task, AfterSelect(t)
      PROVE  SleepInv'
  BY <1>4, <1>5 DEF AfterSelect
<1>6. ASSUME NEW t \in Task, AfterRecal(t)
      PROVE  SleepInv'
  BY <1>4, <1>6 DEF AfterRecal
<1>7. ASSUME NEW t \in Task, AfterSeek(t)
      PROVE  SleepInv'
  BY <1>4, <1>7 DEF AfterSeek
<1>8. ASSUME NEW t \in Task, AfterXfer(t)
      PROVE  SleepInv'
  BY <1>8 DEF AfterXfer, Runs, Return, Goto, ClockSleep
<1>9. ASSUME NEW t \in Task, Alarm(t)
      PROVE  SleepInv'
  BY <1>9 DEF Alarm
<1>10. CASE ResetDone \/ SeekDone \/ TransferDone
  BY <1>10 DEF ResetDone, SeekDone, TransferDone, Interrupt, Wake
<1>11. CASE UNCHANGED vars
  BY <1>11 DEF vars, asleep
<1> QED
  BY <1>1, <1>2, <1>3, <1>5, <1>6, <1>7, <1>8, <1>9, <1>10, <1>11 DEF Next

(* The controller comes to rest only by an interrupt, which empties the list, *)
(* or from "result", when nobody on the list waits for it.                  *)
LEMMA StrandedStep ==
    ASSUME TypeOK, SleepInv, StrandedOnlyByRefusal, [Next]_vars
    PROVE  StrandedOnlyByRefusal'
<1> USE DEF TypeOK, StrandedOnlyByRefusal
<1>1. ASSUME NEW t \in Task, Reset(t)
      PROVE  StrandedOnlyByRefusal'
  BY <1>1 DEF Reset
<1>2. ASSUME NEW t \in Task, AfterReset(t)
      PROVE  StrandedOnlyByRefusal'
  <2>1. PICK outcome \in {"fails", "sent"}, left \in 0..5 : ResetEnds(t, outcome, left)
    BY <1>2, ResetEnding
  <2>2. t \notin waiting
    BY <1>2 DEF AfterReset, Initialise, Runs, SleepInv
  <2>3. /\ waiting' = waiting /\ res' = res /\ fdc'.phase = fdc.phase
        /\ \A u \in Task \ {t} : pc'[u] = pc[u]
    BY <1>2, <2>1 DEF ResetEnds, AfterReset, Initialise, Goto, ClockSleep
  <2> QED
    BY <2>2, <2>3
<1>3. ASSUME NEW t \in Task, NEW at, NEW to \in {"recal", "seek", "xfer"}, NEW outcome \in Outcome,
             Runs(t, at), Sleep(t, outcome, to),
             IF outcome = "sent" THEN fdc'.phase \in {"seek", "transfer"}
             ELSE fdc'.phase = fdc.phase
      PROVE  StrandedOnlyByRefusal'
  <2>1. t \notin waiting
    BY <1>3 DEF Runs, SleepInv
  <2>2. CASE outcome = "fails"
    <3>1. /\ pc' = [pc EXCEPT ![t] = "again"] /\ waiting' = waiting /\ res' = res
          /\ fdc'.phase = fdc.phase
      BY <1>3, <2>2, SleepLists
    <3> QED
      BY <2>1, <3>1
  <2>3. CASE outcome # "fails"
    <3>1. /\ pc' = [pc EXCEPT ![t] = to] /\ waiting' = waiting \cup {t}
          /\ res'[t] <=> outcome = "sent"
          /\ \A u \in Task \ {t} : res'[u] = res[u]
      BY <1>3, <2>3, SleepLists
    <3> QED
      BY <1>3, <2>1, <3>1
  <2> QED
    BY <2>2, <2>3
<1>4. ASSUME NEW t \in Task, AfterSelect(t)
      PROVE  StrandedOnlyByRefusal'
  <2>1. PICK outcome \in Outcome :
            /\ Sleep(t, outcome, "recal")
            /\ fdc' = IF outcome # "sent" THEN fdc
                      ELSE [fdc EXCEPT !.phase = "seek", !.target = Address(0)]
    BY <1>4 DEF AfterSelect
  <2> QED
    BY <1>3, <1>4, <2>1 DEF AfterSelect
<1>5. ASSUME NEW t \in Task, AfterRecal(t)
      PROVE  StrandedOnlyByRefusal'
  <2>1. PICK outcome \in Outcome, left \in 0..5 : RecalEnds(t, outcome, left)
    BY <1>5, RecalEnding
  <2> QED
    BY <1>3, <1>5, <2>1 DEF AfterRecal, RecalEnds
<1>6. ASSUME NEW t \in Task, AfterSeek(t)
      PROVE  StrandedOnlyByRefusal'
  <2>1. PICK outcome \in Outcome, left \in 0..5 : SeekEnds(t, outcome, left)
    BY <1>6, SeekEnding
  <2> QED
    BY <1>3, <1>6, <2>1 DEF AfterSeek, SeekEnds
<1>7. ASSUME NEW t \in Task, AfterXfer(t)
      PROVE  StrandedOnlyByRefusal'
  <2>1. t \notin waiting
    BY <1>7 DEF AfterXfer, Runs, SleepInv
  <2>2. waiting' = waiting /\ res' = res /\ \A u \in Task \ {t} : pc'[u] = pc[u]
    BY <1>7 DEF AfterXfer, Return, Goto, ClockSleep
  <2>3. fdc' = fdc \/ fdc.phase = "result"
    BY <1>7 DEF AfterXfer
  <2> QED
    BY <2>1, <2>2, <2>3
<1>8. ASSUME NEW t \in Task, Alarm(t)
      PROVE  StrandedOnlyByRefusal'
  BY <1>8 DEF Alarm
<1>9. CASE ResetDone \/ SeekDone \/ TransferDone
  BY <1>9 DEF ResetDone, SeekDone, TransferDone, Interrupt, Wake
<1>10. CASE UNCHANGED vars
  BY <1>10 DEF vars, asleep
<1> QED
  BY <1>1, <1>2, <1>4, <1>5, <1>6, <1>7, <1>8, <1>9, <1>10 DEF Next, Start, Retry

-----------------------------------------------------------------------------
(* Whose sector a task gets *)

(* A step of a task that leaves the transfer alone keeps the invariant.     *)
LEMMA MixFrame ==
    ASSUME TypeOK, MixInv, ~mixed, NEW t \in Task,
           fdc'.phase = fdc.phase, fdc'.target = fdc.target, fdc'.failed = fdc.failed,
           UNCHANGED <<dma, data, wrong, lba>>,
           waiting' \subseteq waiting \cup {t}, ready' \subseteq ready,
           \A u \in Task \ {t} : pc'[u] = pc[u] /\ res'[u] = res[u],
           ~(pc'[t] = "xfer" /\ res'[t]),
           fdc.phase = "transfer" => t # dma
    PROVE  ~wrong' /\ TransferInv' /\ ResultInv' /\ BelieverInv'
<1> USE DEF TypeOK, MixInv
<1>1. ~wrong' /\ TransferInv'
  BY DEF TransferInv
<1>2. ResultInv'
  BY DEF ResultInv
<1>3. BelieverInv'
  BY DEF BelieverInv
<1> QED
  BY <1>1, <1>2, <1>3

(* When the controller listens no task can be waiting for its transfer.     *)
LEMMA MixListens ==
    ASSUME TypeOK, MixInv, ~mixed, NEW t \in Task, Listens,
           fdc'.phase \in {"idle", "seek"}, ~wrong',
           waiting' \subseteq waiting \cup {t}, ready' \subseteq ready,
           \A u \in Task \ {t} : pc'[u] = pc[u] /\ res'[u] = res[u],
           ~(pc'[t] = "xfer" /\ res'[t])
    PROVE  ~wrong' /\ TransferInv' /\ ResultInv' /\ BelieverInv'
BY DEF TypeOK, MixInv, TransferInv, ResultInv, BelieverInv, Listens

(* Every step of one task leaves the transfer of another alone, or stops it *)
(* by a reset.                                                              *)
LEMMA MixStep ==
    ASSUME TypeOK, LbaInv, SleepInv, MixInv, [Next]_vars
    PROVE  MixInv'
<1> USE DEF TypeOK
<1> DEFINE Good == ~wrong /\ TransferInv /\ ResultInv /\ BelieverInv
<1>0. SUFFICES ASSUME ~mixed'
               PROVE  Good'
  BY DEF MixInv
<1>1. ASSUME NEW t \in Task, Reset(t)
      PROVE  Good'
  BY <1>0, <1>1 DEF Reset, Goto, IrqSleep, MixInv, TransferInv, ResultInv, BelieverInv
<1>2. ASSUME NEW t \in Task, AfterReset(t)
      PROVE  Good'
  <2>1. PICK outcome \in {"fails", "sent"}, left \in 0..5 : ResetEnds(t, outcome, left)
    BY <1>2, ResetEnding
  <2>2. /\ fdc'.phase = fdc.phase /\ fdc'.target = fdc.target /\ fdc'.failed = fdc.failed
        /\ waiting' = waiting /\ UNCHANGED <<dma, data, wrong, lba, res, mixed>>
        /\ pc' = [pc EXCEPT ![t] = IF outcome = "fails" THEN "again" ELSE "select"]
    BY <1>2, <2>1 DEF ResetEnds, AfterReset, Initialise, Goto, ClockSleep
  <2>3. pc[t] = "reset" /\ ready' \subseteq ready
    BY <1>2 DEF AfterReset, Initialise, Runs
  <2>4. fdc.phase = "transfer" => t # dma
    BY <1>0, <2>2, <2>3 DEF MixInv, TransferInv
  <2> QED
    BY <1>0, <2>2, <2>3, <2>4, MixFrame
<1>3. ASSUME NEW t \in Task, NEW at \in {"select", "recal", "seek"},
             NEW to \in {"recal", "seek", "xfer"}, NEW outcome \in Outcome,
             Runs(t, at), Sleep(t, outcome, to),
             UNCHANGED <<data, wrong, lba>>, mixed' = mixed,
             outcome = "fails" => dma' = dma,
             outcome # "fails" => Listens,
             fdc'.failed = fdc.failed,
             IF outcome = "sent" THEN fdc'.phase = "seek" /\ to # "xfer"
             ELSE fdc'.phase = fdc.phase /\ fdc'.target = fdc.target
      PROVE  Good'
  <2>1. ready' \subseteq ready /\ pc[t] \notin {"out", "xfer"}
    BY <1>3 DEF Runs
  <2>2. CASE outcome = "fails"
    <3>1. /\ pc' = [pc EXCEPT ![t] = "again"] /\ waiting' = waiting /\ res' = res
          /\ dma' = dma
      BY <1>3, <2>2, SleepLists
    <3>2. fdc.phase = "transfer" => t # dma
      BY <1>0, <1>3, <2>1 DEF MixInv, TransferInv
    <3> QED
      BY <1>0, <1>3, <2>1, <2>2, <3>1, <3>2, MixFrame
  <2>3. CASE outcome # "fails"
    <3>1. /\ pc' = [pc EXCEPT ![t] = to] /\ waiting' = waiting \cup {t}
          /\ res'[t] <=> outcome = "sent"
          /\ \A u \in Task \ {t} : res'[u] = res[u]
      BY <1>3, <2>3, SleepLists
    <3>2. ~(pc'[t] = "xfer" /\ res'[t])
      BY <1>3, <3>1
    <3>3. fdc'.phase \in {"idle", "seek"} /\ Listens
      BY <1>3, <2>3 DEF Listens
    <3>4. ~mixed /\ ~wrong'
      BY <1>0, <1>3 DEF MixInv
    <3>5. \A u \in Task \ {t} : pc'[u] = pc[u] /\ res'[u] = res[u]
      BY <3>1
    <3> QED
      BY <2>1, <3>1, <3>2, <3>3, <3>4, <3>5, MixListens
  <2> QED
    BY <2>2, <2>3
<1>4. ASSUME NEW t \in Task, AfterSelect(t)
      PROVE  Good'
  <2>1. PICK outcome \in Outcome :
            /\ Tries(outcome, Listens)
            /\ Sleep(t, outcome, "recal")
            /\ fdc' = IF outcome # "sent" THEN fdc
                      ELSE [fdc EXCEPT !.phase = "seek", !.target = Address(0)]
    BY <1>4 DEF AfterSelect
  <2> QED
    BY <1>3, <1>4, <2>1 DEF AfterSelect, Tries
<1>5. ASSUME NEW t \in Task, AfterRecal(t)
      PROVE  Good'
  <2>1. PICK outcome \in Outcome, left \in 0..5 : RecalEnds(t, outcome, left)
    BY <1>5, RecalEnding
  <2> QED
    BY <1>3, <1>5, <2>1 DEF AfterRecal, RecalEnds
<1>6. ASSUME NEW t \in Task, AfterSeek(t)
      PROVE  Good'
  <2>1. PICK outcome \in Outcome, left \in 0..5 : SeekEnds(t, outcome, left)
    BY <1>6, SeekEnding
  <2>2. CASE outcome # "sent"
    BY <1>3, <1>6, <2>1, <2>2 DEF AfterSeek, SeekEnds
  <2>3. CASE outcome = "sent"
    <3>0. Sleep(t, outcome, "xfer")
      BY <2>1 DEF SeekEnds
    <3>1. /\ pc' = [pc EXCEPT ![t] = "xfer"] /\ waiting' = waiting \cup {t}
          /\ res'[t] /\ \A u \in Task \ {t} : res'[u] = res[u]
      BY <2>3, <3>0, SleepLists
    <3>2. /\ fdc.phase = "idle" /\ fdc'.phase = "transfer" /\ dma' = t
          /\ fdc'.target = Address(lba[t])
          /\ ~mixed /\ \A u \in ready : ~Unaware(u)
      BY <1>0, <2>1, <2>3 DEF SeekEnds
    <3>3. UNCHANGED <<lba, data, wrong>> /\ ready' = ready \ {t}
      BY <1>6 DEF AfterSeek, Runs
    <3>4. ~wrong' /\ TransferInv' /\ ResultInv'
      BY <3>1, <3>2, <3>3 DEF MixInv, TransferInv, ResultInv
    <3>5. BelieverInv'
      BY <3>1, <3>2, <3>3 DEF MixInv, BelieverInv, Unaware
    <3> QED
      BY <3>4, <3>5
  <2> QED
    BY <2>2, <2>3
<1>7. ASSUME NEW t \in Task, AfterXfer(t)
      PROVE  Good'
  <2>1. /\ pc[t] = "xfer" /\ t \in ready /\ ready' = ready \ {t}
        /\ UNCHANGED <<res, dma, mixed>> /\ ~mixed /\ waiting' = waiting
    BY <1>0, <1>7 DEF AfterXfer, Runs, Return, ClockSleep
  <2>2. CASE res[t] /\ fdc.phase = "result" /\ Return(t)
    <3>1. t = dma /\ (fdc.failed \/ data[t] = lba[t])
      BY <2>1, <2>2 DEF MixInv, BelieverInv, ResultInv
    <3>2. ~wrong' /\ fdc'.phase = "idle" /\ pc' = [pc EXCEPT ![t] = "out"]
      BY <2>1, <2>2, <3>1 DEF Return, Goto, MixInv
    <3>3. TransferInv' /\ ResultInv'
      BY <3>2 DEF TransferInv, ResultInv
    <3>4. BelieverInv'
      BY <2>1, <2>2, <3>2 DEF MixInv, BelieverInv
    <3> QED
      BY <3>2, <3>3, <3>4
  <2>3. CASE pc' = [pc EXCEPT ![t] = "again"] /\ UNCHANGED <<lba, data, fdc, wrong>>
    <3>1. fdc.phase = "transfer" => t # dma
      BY <2>1 DEF MixInv, TransferInv, BelieverInv
    <3> QED
      BY <2>1, <2>3, <3>1, MixFrame
  <2> QED
    BY <1>7, <2>2, <2>3 DEF AfterXfer, Goto
<1>8. ASSUME NEW t \in Task, Alarm(t)
      PROVE  Good'
  <2>1. pc[t] # "xfer"
    BY <1>8 DEF Alarm, SleepInv
  <2> QED
    BY <1>0, <1>8, <2>1 DEF Alarm, MixInv, TransferInv, ResultInv, BelieverInv
<1>9. CASE ResetDone \/ SeekDone
  <2>1. /\ fdc'.phase = "idle" /\ waiting' = {}
        /\ UNCHANGED <<wrong, mixed>>
    BY <1>9 DEF ResetDone, SeekDone, Interrupt, Wake
  <2> QED
    BY <1>0, <2>1 DEF MixInv, TransferInv, ResultInv, BelieverInv
<1>10. CASE TransferDone
  <2>1. /\ fdc.phase = "transfer" /\ waiting' = {} /\ ready' = ready \cup waiting
        /\ UNCHANGED <<pc, lba, res, dma, wrong, mixed>> /\ ~mixed
    BY <1>0, <1>10 DEF TransferDone, Interrupt, Wake
  <2>2. PICK failed \in BOOLEAN :
            /\ fdc' = [fdc EXCEPT !.phase = "result", !.failed = failed]
            /\ data' = [data EXCEPT ![dma] = IF failed THEN Junk ELSE Sector(fdc.target)]
    BY <1>10 DEF TransferDone
  <2>3. pc[dma] = "xfer" /\ res[dma] /\ fdc.target = Address(lba[dma])
    BY <2>1 DEF MixInv, TransferInv
  <2>4. Sector(fdc.target) = lba[dma]
    BY <2>3, AddressRight, FloppyAssumption DEF LbaInv
  <2>5. ~wrong' /\ TransferInv' /\ ResultInv'
    BY <2>1, <2>2, <2>4 DEF MixInv, TransferInv, ResultInv
  <2>6. BelieverInv'
    BY <2>1, <2>2 DEF MixInv, BelieverInv
  <2> QED
    BY <2>5, <2>6
<1>11. CASE UNCHANGED vars
  BY <1>0, <1>11 DEF vars, asleep, MixInv, TransferInv, ResultInv, BelieverInv
<1> QED
  BY <1>1, <1>2, <1>4, <1>5, <1>6, <1>7, <1>8, <1>9, <1>10, <1>11
     DEF Next, Start, Retry

-----------------------------------------------------------------------------
(* Theorems *)

(* The initial states.                                                      *)
LEMMA InitIInv == Init => IInv
<1> SUFFICES ASSUME Init PROVE IInv
  OBVIOUS
<1>1. Address(0) \in Chs
  BY ZeroAddress
<1>2. fdc = [phase |-> "idle", unsensed |-> 0, cylinder |-> 0,
             target |-> Address(0), failed |-> FALSE]
  BY DEF Init
<1>3. fdc \in [phase : {"idle", "reset", "seek", "transfer", "result"},
               unsensed : 0..5, cylinder : 0..(CYL - 1), target : Chs,
               failed : BOOLEAN]
  BY <1>1, <1>2, FloppyAssumption
<1>4. TypeOK
  <2>1. 0 \in 0..MaxRefusals
    BY FloppyAssumption
  <2>2. refusals \in 0..MaxRefusals /\ wrong \in BOOLEAN /\ mixed \in BOOLEAN
    BY <2>1 DEF Init
  <2>3. /\ pc \in [Task -> {"out", "reset", "select", "recal", "seek", "xfer", "again"}]
        /\ lba \in [Task -> Wanted \cup {Junk}]
        /\ res \in [Task -> BOOLEAN]
        /\ data \in [Task -> Lba \cup {Junk}]
    BY DEF Init
  <2>4. waiting \subseteq Task /\ alarms \subseteq Task /\ ready \subseteq Task /\ dma \in Task
    BY DEF Init
  <2> QED
    BY <1>3, <2>2, <2>3, <2>4 DEF TypeOK
<1>5. LbaInv /\ SleepInv /\ StrandedOnlyByRefusal
  BY DEF Init, LbaInv, SleepInv, StrandedOnlyByRefusal
<1>6. MixInv
  BY <1>2 DEF Init, MixInv, TransferInv, ResultInv, BelieverInv
<1> QED
  BY <1>4, <1>5, <1>6 DEF IInv

(* IInv is inductive.                                                       *)
LEMMA Invariance == Spec => []IInv
<1>1. IInv /\ [Next]_vars => IInv'
  BY TypeStep, SleepStep, StrandedStep, MixStep DEF IInv
<1> QED
  BY InitIInv, <1>1, PTL DEF Spec

(* The variables of the driver and of the controller keep their types: each *)
(* address that floppy_read computes is on the disk, and no task has more   *)
(* interrupts to sense than the controller gave.                            *)
THEOREM TypeCorrect == Spec => []TypeOK
<1>1. IInv => TypeOK
  BY DEF IInv
<1> QED
  BY Invariance, <1>1, PTL

(* However many tasks call floppy_read at once, a read returns with its own *)
(* sector, unless an error was reported, which floppy_transfer ignores, or  *)
(* a transfer began while a task stopped in its own had not run.            *)
THEOREM RightSector == Spec => []RightUnlessFailed
<1>1. IInv => RightUnlessFailed
  BY DEF IInv, MixInv, RightUnlessFailed
<1> QED
  BY Invariance, <1>1, PTL

(* A task on the list of line 6 whose command the controller took has an    *)
(* interrupt to come.                                                       *)
THEOREM NoTaskStranded == Spec => []StrandedOnlyByRefusal
<1>1. IInv => StrandedOnlyByRefusal
  BY DEF IInv
<1> QED
  BY Invariance, <1>1, PTL
=============================================================================

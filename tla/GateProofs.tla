----------------------------- MODULE GateProofs -----------------------------
(***************************************************************************)
(* The way into the kernel and back: theorems about Gate for every number  *)
(* of tasks, every set of interrupt lines and every depth of nesting.      *)
(***************************************************************************)
EXTENDS Gate, SequenceTheorems, TLAPS

(* A kernel stack: at its bottom a system call, the return of a child or an *)
(* interrupt of the program, and on top of that nothing but interrupts.     *)
Regular(a) ==
    /\ a.what = "irq" => /\ a.at \in {"handler", "eoi", "exit"}
                         /\ a.at = "eoi" => a.line >= 8
    /\ a.what = "call" => a.at \in {"num", "body", "result", "exit"}
    /\ a.what = "child" => a.at = "exit"

Shape(s) == \A i \in 1..Len(s) : Regular(s[i]) /\ (i > 1 => s[i].what = "irq")

(* What a task leaves when another one is switched to.                      *)
Parked(s) ==
    /\ Len(s) = 1
    /\ s[1].what # "irq"
    /\ s[1].what = "call" => s[1].at = "body"

StackInv ==
    /\ current_task \in alive
    /\ \A t \in Task : Shape(stack[t])
    /\ \A t \in alive \ {current_task} : Parked(stack[t])
    /\ \A t \in Task \ alive : stack[t] = <<>>

(* A far access is one of the system call, with nothing on top of it.       *)
AccessInv ==
    /\ enabled => ds = "kernel"
    /\ ds = "far" => /\ ~InUser
                     /\ Top.what = "call"
                     /\ Top.at \in {"num", "body", "result"}

(* The saved registers are those due, but for a result not yet written.     *)
Saved(t) ==
    IF stack[t][1].what = "call" /\ stack[t][1].at = "result"
    THEN [frame[t] EXCEPT !.ax = stack[t][1].ax] = owed[t]
    ELSE frame[t] = owed[t]

SavedInv == \A t \in Task : stack[t] # <<>> => Saved(t)

(* A handler that was interrupted waits for one that came before it.        *)
Order(s) == \A i, j \in UnderWay(s) : i < j => Input(s[j].line) < Input(s[i].line)

IInv ==
    /\ TypeOK
    /\ StackInv
    /\ AccessInv
    /\ SavedInv
    /\ ReturnsRight
    /\ LinesRight
    /\ Order(stack[current_task])
    /\ NeverHung

-----------------------------------------------------------------------------
(* Pushing, changing and popping the last activation of a stack.            *)
LEMMA Pushed ==
    ASSUME NEW s \in Seq(Activation), NEW a \in Activation
    PROVE  /\ Append(s, a) \in Seq(Activation)
           /\ Len(Append(s, a)) = Len(s) + 1
           /\ \A i \in 1..Len(s) : Append(s, a)[i] = s[i]
           /\ Append(s, a)[Len(s) + 1] = a
OBVIOUS

LEMMA Changed ==
    ASSUME NEW s \in Seq(Activation), s # <<>>, NEW a \in Activation
    PROVE  /\ [s EXCEPT ![Len(s)] = a] \in Seq(Activation)
           /\ Len([s EXCEPT ![Len(s)] = a]) = Len(s)
           /\ \A i \in 1..Len(s) : i # Len(s) => [s EXCEPT ![Len(s)] = a][i] = s[i]
           /\ [s EXCEPT ![Len(s)] = a][Len(s)] = a
OBVIOUS

LEMMA Popped ==
    ASSUME NEW s \in Seq(Activation), s # <<>>
    PROVE  /\ SubSeq(s, 1, Len(s) - 1) \in Seq(Activation)
           /\ Len(SubSeq(s, 1, Len(s) - 1)) = Len(s) - 1
           /\ \A i \in 1..(Len(s) - 1) : SubSeq(s, 1, Len(s) - 1)[i] = s[i]
<1> DEFINE n == Len(s) - 1
<1>1. n \in Nat /\ \A i \in 1..n : s[i] \in Activation
  OBVIOUS
<1>2. /\ SubSeq(s, 1, n) \in Seq(Activation)
      /\ Len(SubSeq(s, 1, n)) = IF 1 <= n THEN n - 1 + 1 ELSE 0
      /\ \A i \in 1..(n - 1 + 1) : SubSeq(s, 1, n)[i] = s[1 + i - 1]
  <2> HIDE DEF n
  <2> QED
    BY <1>1, SubSeqProperties
<1> HIDE DEF n
<1>3. Len(SubSeq(s, 1, n)) = n
  BY <1>1, <1>2
<1>4. ASSUME NEW i \in 1..n PROVE SubSeq(s, 1, n)[i] = s[i]
  <2>1. 1 + i - 1 = i /\ i \in 1..(n - 1 + 1)
    BY <1>1
  <2> QED
    BY <1>2, <2>1
<1> QED
  BY <1>2, <1>3, <1>4 DEF n

(* The activation on top of the stack in use.                               *)
LEMMA TopType ==
    ASSUME TypeOK, ~InUser
    PROVE  /\ stack[current_task] \in Seq(Activation)
           /\ stack[current_task] # <<>>
           /\ Len(stack[current_task]) \in Nat \ {0}
           /\ Top = stack[current_task][Len(stack[current_task])]
           /\ Top \in Activation
<1>1. stack[current_task] \in Seq(Activation) /\ stack[current_task] # <<>>
  BY DEF TypeOK, InUser
<1> QED
  BY <1>1 DEF Top

LEMMA TopSet ==
    ASSUME TypeOK, ~InUser, NEW a \in Activation
    PROVE  LET s == stack[current_task]
               r == SetTop(a)
           IN  /\ r \in [Task -> Seq(Activation)]
               /\ \A t \in Task : t # current_task => r[t] = stack[t]
               /\ Len(r[current_task]) = Len(s)
               /\ \A i \in 1..Len(s) : i # Len(s) => r[current_task][i] = s[i]
               /\ r[current_task][Len(s)] = a
<1> DEFINE s == stack[current_task]
           u == [s EXCEPT ![Len(s)] = a]
<1>1. s \in Seq(Activation) /\ s # <<>>
  BY TopType
<1>2. /\ u \in Seq(Activation) /\ Len(u) = Len(s)
      /\ \A i \in 1..Len(s) : i # Len(s) => u[i] = s[i]
      /\ u[Len(s)] = a
  <2> HIDE DEF s
  <2> QED
    BY <1>1, Changed
<1>3. SetTop(a) = [stack EXCEPT ![current_task] = u]
  BY DEF SetTop
<1>4. stack \in [Task -> Seq(Activation)] /\ current_task \in Task
  BY DEF TypeOK
<1> HIDE DEF u
<1> QED
  BY <1>2, <1>3, <1>4

LEMMA WordFacts ==
    /\ "zero" \in Word /\ "minus_one" \in Word /\ "plain" \in Word
    /\ Task \subseteq Word
BY DEF Word

LEMMA FreshType == ASSUME NEW t \in Task PROVE Fresh(t) \in Registers
BY WordFacts DEF Fresh, Registers

LEMMA KernelType == KernelRegisters \in Registers
<1>1. Boot \in Task
  BY GateAssumption
<1> QED
  BY <1>1, WordFacts DEF KernelRegisters, Registers

LEMMA NoneUnderWay == UnderWay(<<>>) = {}
<1>1. 1..Len(<<>>) = {}
  OBVIOUS
<1> QED
  BY <1>1 DEF UnderWay

LEMMA InitIInv == Init => IInv
<1> SUFFICES ASSUME Init PROVE IInv
  OBVIOUS
<1>1. Boot \in Task
  BY GateAssumption
<1>2. TypeOK
  <2>1. Fresh(Boot) \in Registers
    BY <1>1, FreshType
  <2>2. frame \in [Task -> Registers] /\ owed \in [Task -> Registers]
    BY <2>1 DEF Init
  <2>3. stack \in [Task -> Seq(Activation)]
    BY DEF Init
  <2> QED
    BY <1>1, <2>1, <2>2, <2>3 DEF Init, TypeOK
<1>3. \A t \in Task : stack[t] = <<>>
  BY DEF Init
<1>4. StackInv
  <2>1. \A t \in Task : Shape(stack[t])
    BY <1>3 DEF Shape
  <2> QED
    BY <1>1, <1>3, <2>1 DEF Init, StackInv
<1>5. AccessInv
  BY DEF Init, AccessInv
<1>6. SavedInv
  BY <1>3 DEF SavedInv
<1>7. ReturnsRight
  BY <1>1 DEF Init, ReturnsRight
<1>8. \A t \in Task : UnderWay(stack[t]) = {}
  BY <1>3, NoneUnderWay
<1>9. LinesRight /\ Order(stack[current_task])
  <2>1. UnderWay(stack[current_task]) = {}
    BY <1>1, <1>8 DEF Init
  <2> QED
    BY <1>8, <2>1 DEF Init, LinesRight, Order, Inputs, SlaveLines
<1>10. NeverHung
  BY DEF Init, NeverHung
<1> QED
  BY <1>2, <1>4, <1>5, <1>6, <1>7, <1>9, <1>10 DEF IInv

-----------------------------------------------------------------------------
(* What the actions do to the stack *)

(* kernel_enter pushes; an interrupt of the kernel saves nothing.           *)
LEMMA EnterEffect ==
    ASSUME TypeOK, NEW what \in {"irq", "call"}, NEW line \in 0..15,
           NEW at \in {"handler", "num"}, Enter(what, line, at)
    PROVE  LET s == stack[current_task]
               r == stack'[current_task]
           IN  /\ stack' \in [Task -> Seq(Activation)]
               /\ \A t \in Task : t # current_task => stack'[t] = stack[t]
               /\ Len(r) = Len(s) + 1
               /\ \A i \in 1..Len(s) : r[i] = s[i]
               /\ r[Len(s) + 1] = [what |-> what, line |-> line, at |-> at,
                                   ax |-> "zero"]
<1> DEFINE s == stack[current_task]
           a == [what |-> what, line |-> line, at |-> at, ax |-> "zero"]
           u == Append(s, a)
<1>1. a \in Activation
  BY WordFacts DEF Activation
<1>2. s \in Seq(Activation)
  BY DEF TypeOK
<1>3. /\ u \in Seq(Activation)
      /\ Len(u) = Len(s) + 1
      /\ \A i \in 1..Len(s) : u[i] = s[i]
      /\ u[Len(s) + 1] = a
  <2> HIDE DEF a, s
  <2> QED
    BY <1>1, <1>2, Pushed
<1>4. stack' = [stack EXCEPT ![current_task] = u]
  BY DEF Enter
<1>5. stack \in [Task -> Seq(Activation)] /\ current_task \in Task
  BY DEF TypeOK
<1> HIDE DEF u
<1> QED
  BY <1>3, <1>4, <1>5

(* The actions that only change the activation on top, and what it becomes. *)
Retop(a) ==
    /\ ~InUser
    /\ a \in Activation
    /\ stack' = SetTop(a)
    /\ a.what = Top.what /\ a.line = Top.line

LEMMA SlaveEoiTop == ASSUME TypeOK, SlaveEoi PROVE Retop([Top EXCEPT !.at = "eoi"])
<1>1. ~InUser
  BY DEF SlaveEoi, Runs
<1>2. Top \in Activation
  BY <1>1, TopType
<1> QED
  BY <1>1, <1>2 DEF Retop, SlaveEoi, Activation

LEMMA EoiTop == ASSUME TypeOK, Eoi PROVE Retop([Top EXCEPT !.at = "exit"])
<1>1. ~InUser
  BY DEF Eoi
<1>2. Top \in Activation
  BY <1>1, TopType
<1> QED
  BY <1>1, <1>2 DEF Retop, Eoi, Activation

LEMMA ReadNumberTop ==
    ASSUME TypeOK, ReadNumber
    PROVE  Retop([Top EXCEPT !.at = "body", !.ax = frame[current_task].ax])
<1>1. ~InUser
  BY DEF ReadNumber, FarEnd, Runs
<1>2. Top \in Activation
  BY <1>1, TopType
<1>3. frame[current_task].ax \in Word
  BY DEF TypeOK, Registers
<1> QED
  BY <1>1, <1>2, <1>3 DEF Retop, ReadNumber, Activation

LEMMA WriteResultTop ==
    ASSUME TypeOK, WriteResult PROVE Retop([Top EXCEPT !.at = "exit"])
<1>1. ~InUser
  BY DEF WriteResult, FarEnd, Runs
<1>2. Top \in Activation
  BY <1>1, TopType
<1> QED
  BY <1>1, <1>2 DEF Retop, WriteResult, Activation

(* What a call that returns x leaves on top.                                *)
Returned(x) == [Top EXCEPT !.at = "result", !.ax = x]

LEMMA ReturnedType ==
    ASSUME TypeOK, NEW x \in Word, ~InUser
    PROVE  /\ Returned(x) \in Activation
           /\ Returned(x).what = Top.what /\ Returned(x).line = Top.line
           /\ Returned(x).at = "result" /\ Returned(x).ax = x
           /\ Result(x) = SetTop(Returned(x))
<1>1. Top \in Activation
  BY TopType
<1> QED
  BY <1>1 DEF Returned, Result, Activation

LEMMA WorkTop ==
    ASSUME TypeOK, NEW x \in {"zero", "minus_one"}, Work(x) PROVE Retop(Returned(x))
<1>1. ~InUser
  BY DEF Work, Body, Runs
<1>2. x \in Word
  BY WordFacts
<1> QED
  BY <1>1, <1>2, ReturnedType DEF Retop, Work

LEMMA ExecTop ==
    ASSUME TypeOK, NEW found \in BOOLEAN, Exec(found) PROVE Retop(Returned("zero"))
<1>1. ~InUser
  BY DEF Exec, Body, Runs
<1> QED
  BY <1>1, WordFacts, ReturnedType DEF Retop, Exec

(* The stacks after a change on top.                                        *)
LEMMA RetopEffect ==
    ASSUME TypeOK, NEW a, Retop(a)
    PROVE  LET s == stack[current_task]
               r == stack'[current_task]
           IN  /\ stack' \in [Task -> Seq(Activation)]
               /\ \A t \in Task : t # current_task => stack'[t] = stack[t]
               /\ Len(r) = Len(s)
               /\ \A i \in 1..Len(s) : i # Len(s) => r[i] = s[i]
               /\ r[Len(s)] = a
BY TopSet DEF Retop

Child == [what |-> "child", line |-> 0, at |-> "exit", ax |-> "zero"]

(* fork changes its own activation and gives the child its first.           *)
LEMMA ForkEffect ==
    ASSUME TypeOK, NEW c \in Task, Fork(c), c # current_task
    PROVE  LET s == stack[current_task]
               r == stack'[current_task]
           IN  /\ stack' \in [Task -> Seq(Activation)]
               /\ \A t \in Task \ {c} : t # current_task => stack'[t] = stack[t]
               /\ stack'[c] = <<Child>>
               /\ Len(r) = Len(s)
               /\ \A i \in 1..Len(s) : i # Len(s) => r[i] = s[i]
               /\ r[Len(s)] = Returned(c)
<1> DEFINE f == SetTop(Returned(c))
<1>1. ~InUser
  BY DEF Fork, Body, Runs
<1>2. c \in Word
  BY WordFacts
<1>3. Returned(c) \in Activation /\ Result(c) = f
  BY <1>1, <1>2, ReturnedType
<1>4. stack' = [f EXCEPT ![c] = <<Child>>]
  BY <1>3 DEF Fork, Child
<1>5. /\ f \in [Task -> Seq(Activation)]
      /\ \A t \in Task : t # current_task => f[t] = stack[t]
      /\ Len(f[current_task]) = Len(stack[current_task])
      /\ \A i \in 1..Len(stack[current_task]) : i # Len(stack[current_task]) =>
            f[current_task][i] = stack[current_task][i]
      /\ f[current_task][Len(stack[current_task])] = Returned(c)
  BY <1>1, <1>3, TopSet
<1>6. Child \in Activation
  BY WordFacts DEF Child, Activation
<1>7. <<Child>> \in Seq(Activation)
  BY <1>6
<1> HIDE DEF f
<1>8. stack'[c] = <<Child>> /\ stack' \in [Task -> Seq(Activation)]
  BY <1>4, <1>5, <1>7
<1>9. \A t \in Task : t # c => stack'[t] = f[t]
  BY <1>4, <1>5
<1>10. current_task \in Task
  BY DEF TypeOK
<1> QED
  BY <1>5, <1>8, <1>9, <1>10

(* _kernel_exit pops.                                                       *)
LEMMA ExitEffect ==
    ASSUME TypeOK, Exit
    PROVE  LET s == stack[current_task]
               r == stack'[current_task]
           IN  /\ stack' \in [Task -> Seq(Activation)]
               /\ \A t \in Task : t # current_task => stack'[t] = stack[t]
               /\ Len(r) = Len(s) - 1
               /\ \A i \in 1..(Len(s) - 1) : r[i] = s[i]
<1> DEFINE s == stack[current_task]
           u == SubSeq(s, 1, Len(s) - 1)
<1>1. ~InUser
  BY DEF Exit
<1>2. s \in Seq(Activation) /\ s # <<>>
  BY <1>1, TopType
<1>3. /\ u \in Seq(Activation)
      /\ Len(u) = Len(s) - 1
      /\ \A i \in 1..(Len(s) - 1) : u[i] = s[i]
  <2> HIDE DEF s
  <2> QED
    BY <1>2, Popped
<1>4. stack' = [stack EXCEPT ![current_task] = u]
  BY DEF Exit
<1>5. stack \in [Task -> Seq(Activation)] /\ current_task \in Task
  BY DEF TypeOK
<1> HIDE DEF u
<1> QED
  BY <1>3, <1>4, <1>5

-----------------------------------------------------------------------------
(* Type correctness *)

LEMMA EnterType ==
    ASSUME TypeOK, NEW what \in {"irq", "call"}, NEW line \in 0..15,
           NEW at \in {"handler", "num"}, Enter(what, line, at),
           master' \subseteq 0..7, slave' \subseteq 8..15
    PROVE  TypeOK'
<1>1. stack' \in [Task -> Seq(Activation)]
  BY EnterEffect
<1>2. frame' \in [Task -> Registers]
  BY DEF TypeOK, Enter
<1>3. stopped' \in {"no", "hung", "panic"}
  BY DEF Enter
<1> QED
  BY <1>1, <1>2, <1>3, KernelType DEF TypeOK, Enter

LEMMA TypeStep == TypeOK /\ StackInv /\ [Next]_vars => TypeOK'
<1> SUFFICES ASSUME TypeOK, StackInv, [Next]_vars PROVE TypeOK'
  OBVIOUS
<1>1. ASSUME NEW r \in Registers, Compute(r) PROVE TypeOK'
  BY <1>1 DEF Compute, TypeOK
<1>2. CASE SysCall
  <2>1. Enter("call", 0, "num") /\ master' = master /\ slave' = slave
    BY <1>2 DEF SysCall
  <2>2. /\ 0 \in 0..15 /\ "call" \in {"irq", "call"} /\ "num" \in {"handler", "num"}
    OBVIOUS
  <2>3. master' \subseteq 0..7 /\ slave' \subseteq 8..15
    BY <2>1 DEF TypeOK
  <2> QED
    BY <2>1, <2>2, <2>3, EnterType
<1>3. ASSUME NEW l \in Line, Irq(l) PROVE TypeOK'
  <2>1. l \in 0..15
    BY GateAssumption
  <2>2. Input(l) \in 0..7 /\ (l >= 8 => l \in 8..15)
    BY <2>1 DEF Input
  <2>3. master' = master \cup {Input(l)}
    BY <1>3 DEF Irq
  <2>4. slave' = slave \/ (l >= 8 /\ slave' = slave \cup {l})
    BY <1>3 DEF Irq
  <2>5. master' \subseteq 0..7 /\ slave' \subseteq 8..15
    BY <2>2, <2>3, <2>4 DEF TypeOK
  <2> QED
    BY <1>3, <2>1, <2>5, EnterType DEF Irq
<1>4. CASE SlaveEoi
  <2>1. stack' \in [Task -> Seq(Activation)]
    BY <1>4, SlaveEoiTop, RetopEffect
  <2>2. slave' \subseteq 8..15
    BY <1>4 DEF SlaveEoi, EndFirst, TypeOK
  <2> QED
    BY <1>4, <2>1, <2>2 DEF SlaveEoi, TypeOK
<1>5. CASE Eoi
  <2>1. stack' \in [Task -> Seq(Activation)]
    BY <1>5, EoiTop, RetopEffect
  <2>2. master' \subseteq 0..7
    BY <1>5 DEF Eoi, EndFirst, TypeOK
  <2> QED
    BY <1>5, <2>1, <2>2 DEF Eoi, TypeOK
<1>6. CASE FarBegin
  BY <1>6 DEF FarBegin, TypeOK
<1>7. CASE ReadNumber
  <2>1. stack' \in [Task -> Seq(Activation)]
    BY <1>7, ReadNumberTop, RetopEffect
  <2> QED
    BY <1>7, <2>1 DEF ReadNumber, FarEnd, TypeOK
<1>8. CASE ReadArguments
  BY <1>8 DEF ReadArguments, FarEnd, TypeOK
<1>9. CASE WriteResult
  <2>1. stack' \in [Task -> Seq(Activation)]
    BY <1>9, WriteResultTop, RetopEffect
  <2>2. ~InUser
    BY <1>9 DEF WriteResult, FarEnd, Runs
  <2>3. Top.ax \in Word
    BY <2>2, TopType DEF Activation
  <2>4. frame' \in [Task -> Registers]
    BY <1>9, <2>3 DEF WriteResult, TypeOK, Registers
  <2> QED
    BY <1>9, <2>1, <2>4 DEF WriteResult, FarEnd, TypeOK
<1>10. ASSUME NEW x \in {"zero", "minus_one"}, Work(x) PROVE TypeOK'
  <2>1. stack' \in [Task -> Seq(Activation)]
    BY <1>10, WorkTop, RetopEffect
  <2>2. x \in Word
    BY WordFacts
  <2>3. owed' \in [Task -> Registers]
    BY <1>10, <2>2 DEF Work, TypeOK, Registers
  <2> QED
    BY <1>10, <2>1, <2>3 DEF Work, TypeOK
<1>11. ASSUME NEW c \in Task, Fork(c) PROVE TypeOK'
  <2>1. c # current_task
    BY <1>11 DEF Fork, StackInv
  <2>2. stack' \in [Task -> Seq(Activation)]
    BY <1>11, <2>1, ForkEffect
  <2>3. c \in Word
    BY WordFacts
  <2>4. frame[current_task] \in Registers /\ owed[current_task] \in Registers
    BY DEF TypeOK
  <2>5. /\ [frame[current_task] EXCEPT !.cs = c, !.ax = "zero"] \in Registers
        /\ [owed[current_task] EXCEPT !.cs = c, !.ax = "zero"] \in Registers
        /\ [owed[current_task] EXCEPT !.ax = c] \in Registers
    BY <2>3, <2>4, WordFacts DEF Registers
  <2>6. frame' \in [Task -> Registers]
    BY <1>11, <2>5 DEF Fork, TypeOK
  <2>7. owed' \in [Task -> Registers]
    <3> DEFINE o == [owed EXCEPT ![c] = [owed[current_task] EXCEPT !.cs = c, !.ax = "zero"]]
    <3>1. o \in [Task -> Registers] /\ o[current_task] = owed[current_task]
      BY <2>1, <2>5 DEF TypeOK
    <3>2. owed' = [o EXCEPT ![current_task].ax = c]
      BY <1>11 DEF Fork
    <3>3. owed' = [o EXCEPT ![current_task] = [owed[current_task] EXCEPT !.ax = c]]
      BY <3>1, <3>2
    <3> HIDE DEF o
    <3> QED
      BY <3>1, <3>3, <2>5 DEF TypeOK
  <2> QED
    BY <1>11, <2>2, <2>6, <2>7 DEF Fork, TypeOK
<1>12. ASSUME NEW t \in Task, Switch(t) PROVE TypeOK'
  BY <1>12 DEF Switch, TypeOK
<1>13. CASE NoSegment
  BY <1>13 DEF NoSegment, TypeOK
<1>14. ASSUME NEW found \in BOOLEAN, Exec(found) PROVE TypeOK'
  <2>1. stack' \in [Task -> Seq(Activation)]
    BY <1>14, ExecTop, RetopEffect
  <2>2. Fresh(current_task) \in Registers
    BY FreshType DEF TypeOK
  <2>3. [owed[current_task] EXCEPT !.ax = "zero"] \in Registers
    BY WordFacts DEF TypeOK, Registers
  <2>4. frame' \in [Task -> Registers]
    BY <1>14, <2>2 DEF Exec, TypeOK
  <2>5. owed' \in [Task -> Registers]
    BY <1>14, <2>2, <2>3 DEF Exec, TypeOK
  <2> QED
    BY <1>14, <2>1, <2>4, <2>5 DEF Exec, TypeOK
<1>15. CASE Exit
  <2>1. stack' \in [Task -> Seq(Activation)]
    BY <1>15, ExitEffect
  <2>2. cpu' \in Registers
    BY <1>15 DEF Exit, TypeOK
  <2> QED
    BY <1>15, <2>1, <2>2 DEF Exit, TypeOK
<1>16. CASE UNCHANGED vars
  BY <1>16 DEF vars, TypeOK
<1> QED
  BY <1>1, <1>2, <1>3, <1>4, <1>5, <1>6, <1>7, <1>8, <1>9, <1>10, <1>11, <1>12,
     <1>13, <1>14, <1>15, <1>16 DEF Next

-----------------------------------------------------------------------------
(* The kernel stacks *)

LEMMA StackFrame ==
    ASSUME TypeOK, StackInv, UNCHANGED <<current_task, alive>>,
           \A t \in Task : t # current_task => stack'[t] = stack[t],
           Shape(stack'[current_task])
    PROVE  StackInv'
<1>1. \A t \in Task : Shape(stack'[t])
  BY DEF StackInv
<1>2. \A t \in alive \ {current_task} : Parked(stack'[t])
  BY DEF StackInv, TypeOK
<1>3. \A t \in Task \ alive : stack'[t] = <<>>
  BY DEF StackInv
<1> QED
  BY <1>1, <1>2, <1>3 DEF StackInv

LEMMA RetopShape ==
    ASSUME TypeOK, StackInv, NEW a, Retop(a), Regular(a),
           UNCHANGED <<current_task, alive>>
    PROVE  StackInv'
<1> DEFINE s == stack[current_task]
           r == stack'[current_task]
<1>1. /\ \A t \in Task : t # current_task => stack'[t] = stack[t]
      /\ Len(r) = Len(s)
      /\ \A i \in 1..Len(s) : i # Len(s) => r[i] = s[i]
      /\ r[Len(s)] = a
  BY RetopEffect
<1>2. Shape(s)
  BY DEF StackInv, TypeOK
<1>3. Len(s) \in Nat \ {0} /\ Top = s[Len(s)] /\ a.what = Top.what
  BY TopType DEF Retop
<1>4. Shape(r)
  <2> SUFFICES ASSUME NEW i \in 1..Len(r)
               PROVE  Regular(r[i]) /\ (i > 1 => r[i].what = "irq")
    BY DEF Shape
  <2>1. CASE i # Len(s)
    BY <2>1, <1>1, <1>2 DEF Shape
  <2>2. CASE i = Len(s)
    <3>1. i > 1 => s[i].what = "irq"
      BY <2>2, <1>1, <1>2 DEF Shape
    <3> QED
      BY <3>1, <2>2, <1>1, <1>3
  <2> QED
    BY <2>1, <2>2
<1> QED
  BY <1>1, <1>4, StackFrame

LEMMA EnterShape ==
    ASSUME TypeOK, StackInv, NEW what \in {"irq", "call"}, NEW line \in 0..15,
           NEW at \in {"handler", "num"}, Enter(what, line, at),
           what = "irq" => at = "handler",
           what = "call" => at = "num" /\ InUser
    PROVE  StackInv'
<1> DEFINE s == stack[current_task]
           r == stack'[current_task]
           a == [what |-> what, line |-> line, at |-> at, ax |-> "zero"]
<1>1. /\ \A t \in Task : t # current_task => stack'[t] = stack[t]
      /\ Len(r) = Len(s) + 1
      /\ \A i \in 1..Len(s) : r[i] = s[i]
      /\ r[Len(s) + 1] = a
  BY EnterEffect
<1>2. Shape(s)
  BY DEF StackInv, TypeOK
<1>3. Regular(a)
  BY DEF Regular
<1>4. a.what = what /\ (what = "call" => Len(s) = 0) /\ Len(s) \in Nat
  BY DEF InUser, TypeOK
<1> HIDE DEF a
<1>5. Shape(r)
  <2> SUFFICES ASSUME NEW i \in 1..Len(r)
               PROVE  Regular(r[i]) /\ (i > 1 => r[i].what = "irq")
    BY DEF Shape
  <2>1. CASE i \in 1..Len(s)
    BY <2>1, <1>1, <1>2 DEF Shape
  <2>2. CASE i = Len(s) + 1
    <3>1. i > 1 => what = "irq"
      BY <2>2, <1>4
    <3> QED
      BY <3>1, <2>2, <1>1, <1>3, <1>4
  <2> QED
    BY <2>1, <2>2, <1>1, <1>4
<1>6. UNCHANGED <<current_task, alive>>
  BY DEF Enter
<1> QED
  BY <1>1, <1>5, <1>6, StackFrame

(* The system call is alone on its stack.                                   *)
LEMMA CallAlone ==
    ASSUME TypeOK, StackInv, ~InUser, Top.what # "irq"
    PROVE  Len(stack[current_task]) = 1 /\ Top = stack[current_task][1]
<1>1. Shape(stack[current_task])
  BY DEF StackInv, TypeOK
<1>2. /\ Len(stack[current_task]) \in Nat \ {0}
      /\ Top = stack[current_task][Len(stack[current_task])]
  BY TopType
<1>3. ~(Len(stack[current_task]) > 1)
  BY <1>1, <1>2 DEF Shape
<1> DEFINE n == Len(stack[current_task])
<1>4. n \in Nat \ {0} /\ ~(n > 1)
  BY <1>2, <1>3
<1> HIDE DEF n
<1>5. n = 1
  BY <1>4
<1> QED
  BY <1>2, <1>5 DEF n

LEMMA StackStep == TypeOK /\ StackInv /\ [Next]_vars => StackInv'
<1> SUFFICES ASSUME TypeOK, StackInv, [Next]_vars PROVE StackInv'
  OBVIOUS
<1>0. ASSUME UNCHANGED <<current_task, alive, stack>> PROVE StackInv'
  BY <1>0 DEF StackInv
<1>1. ASSUME NEW r \in Registers, Compute(r) PROVE StackInv'
  BY <1>1, <1>0 DEF Compute
<1>2. CASE SysCall
  <2>1. Enter("call", 0, "num") /\ InUser
    BY <1>2 DEF SysCall
  <2>2. 0 \in 0..15
    OBVIOUS
  <2> QED
    BY <2>1, <2>2, EnterShape
<1>3. ASSUME NEW l \in Line, Irq(l) PROVE StackInv'
  <2>1. l \in 0..15
    BY GateAssumption
  <2> QED
    BY <1>3, <2>1, EnterShape DEF Irq
<1>4. CASE SlaveEoi
  <2>1. Retop([Top EXCEPT !.at = "eoi"]) /\ ~InUser
    BY <1>4, SlaveEoiTop DEF SlaveEoi, Runs
  <2>2. Regular([Top EXCEPT !.at = "eoi"])
    BY <1>4, <2>1, TopType DEF SlaveEoi, Runs, Regular, Activation
  <2> QED
    BY <1>4, <2>1, <2>2, RetopShape DEF SlaveEoi
<1>5. CASE Eoi
  <2>1. Retop([Top EXCEPT !.at = "exit"]) /\ ~InUser
    BY <1>5, EoiTop DEF Eoi
  <2>2. Regular([Top EXCEPT !.at = "exit"])
    BY <2>1, TopType DEF Regular, Activation
  <2> QED
    BY <1>5, <2>1, <2>2, RetopShape DEF Eoi
<1>6. CASE FarBegin
  BY <1>6, <1>0 DEF FarBegin
<1>7. CASE ReadNumber
  <2> DEFINE a == [Top EXCEPT !.at = "body", !.ax = frame[current_task].ax]
  <2>1. Retop(a) /\ ~InUser /\ Top.what = "call"
    BY <1>7, ReadNumberTop DEF ReadNumber, FarEnd, Runs
  <2>2. Regular(a)
    BY <2>1, TopType DEF Regular, Activation
  <2> HIDE DEF a
  <2> QED
    BY <1>7, <2>1, <2>2, RetopShape DEF ReadNumber, FarEnd
<1>8. CASE ReadArguments
  BY <1>8, <1>0 DEF ReadArguments, FarEnd
<1>9. CASE WriteResult
  <2>1. Retop([Top EXCEPT !.at = "exit"]) /\ ~InUser
    BY <1>9, WriteResultTop DEF WriteResult, FarEnd, Runs
  <2>2. Regular([Top EXCEPT !.at = "exit"])
    BY <2>1, TopType DEF Regular, Activation
  <2> QED
    BY <1>9, <2>1, <2>2, RetopShape DEF WriteResult, FarEnd
<1>10. ASSUME NEW x \in {"zero", "minus_one"}, Work(x) PROVE StackInv'
  <2>1. Retop(Returned(x)) /\ ~InUser /\ Top.what = "call"
    BY <1>10, WorkTop DEF Work, Body, Runs
  <2>2. Regular(Returned(x))
    BY <2>1, WordFacts, ReturnedType DEF Regular
  <2> QED
    BY <1>10, <2>1, <2>2, RetopShape DEF Work
<1>11. ASSUME NEW c \in Task, Fork(c) PROVE StackInv'
  <2> DEFINE s == stack[current_task]
             r == stack'[current_task]
  <2>1. ~InUser /\ Top.what = "call" /\ c \notin alive /\ c \in Word
    BY <1>11, WordFacts DEF Fork, Body, Runs
  <2>2. c # current_task
    BY <2>1 DEF StackInv
  <2>3. /\ \A t \in Task \ {c} : t # current_task => stack'[t] = stack[t]
        /\ stack'[c] = <<Child>>
        /\ Len(r) = Len(s)
        /\ r[Len(s)] = Returned(c)
    BY <1>11, <2>2, ForkEffect
  <2>4. Len(s) = 1
    BY <2>1, CallAlone
  <2>5. Regular(Returned(c))
    BY <2>1, ReturnedType DEF Regular
  <2>6. Shape(r)
    BY <2>3, <2>4, <2>5 DEF Shape
  <2>7. Shape(<<Child>>) /\ Parked(<<Child>>)
    BY DEF Shape, Parked, Regular, Child
  <2>8. current_task' = current_task /\ alive' = alive \cup {c}
    BY <1>11 DEF Fork
  <2>9. \A t \in Task : Shape(stack'[t])
    BY <2>3, <2>6, <2>7 DEF StackInv
  <2>10. \A t \in alive' \ {current_task} : Parked(stack'[t])
    BY <2>3, <2>7, <2>8 DEF StackInv, TypeOK
  <2>11. \A t \in Task \ alive' : stack'[t] = <<>>
    BY <2>3, <2>8 DEF StackInv
  <2> QED
    BY <2>8, <2>9, <2>10, <2>11 DEF StackInv
<1>12. ASSUME NEW t \in Task, Switch(t) PROVE StackInv'
  <2>1. ~InUser /\ Top.what = "call" /\ Top.at = "body"
    BY <1>12 DEF Switch, Body, Runs
  <2>2. Parked(stack[current_task])
    BY <2>1, CallAlone DEF Parked
  <2> QED
    BY <1>12, <2>2 DEF Switch, StackInv
<1>13. CASE NoSegment
  BY <1>13, <1>0 DEF NoSegment
<1>14. ASSUME NEW found \in BOOLEAN, Exec(found) PROVE StackInv'
  <2>1. Retop(Returned("zero")) /\ ~InUser /\ Top.what = "call"
    BY <1>14, ExecTop DEF Exec, Body, Runs
  <2>2. Regular(Returned("zero"))
    BY <2>1, WordFacts, ReturnedType DEF Regular
  <2> QED
    BY <1>14, <2>1, <2>2, RetopShape DEF Exec
<1>15. CASE Exit
  <2> DEFINE s == stack[current_task]
             r == stack'[current_task]
  <2>1. /\ \A t \in Task : t # current_task => stack'[t] = stack[t]
        /\ Len(r) = Len(s) - 1
        /\ \A i \in 1..(Len(s) - 1) : r[i] = s[i]
    BY <1>15, ExitEffect
  <2>2. Shape(s) /\ Len(s) \in Nat
    BY DEF StackInv, TypeOK
  <2>3. Shape(r)
    BY <2>1, <2>2 DEF Shape
  <2>4. UNCHANGED <<current_task, alive>>
    BY <1>15 DEF Exit
  <2> QED
    BY <2>1, <2>3, <2>4, StackFrame
<1>16. CASE UNCHANGED vars
  BY <1>16, <1>0 DEF vars
<1> QED
  BY <1>1, <1>2, <1>3, <1>4, <1>5, <1>6, <1>7, <1>8, <1>9, <1>10, <1>11, <1>12,
     <1>13, <1>14, <1>15, <1>16 DEF Next

-----------------------------------------------------------------------------
(* Far accesses *)

LEMMA AccessStep ==
    TypeOK /\ StackInv /\ AccessInv /\ NeverHung /\ [Next]_vars
        => AccessInv' /\ NeverHung'
<1> SUFFICES ASSUME TypeOK, StackInv, AccessInv, NeverHung, [Next]_vars
             PROVE  AccessInv' /\ NeverHung'
  OBVIOUS
<1>0. ASSUME ds' = "kernel", stopped' # "hung" PROVE AccessInv' /\ NeverHung'
  BY <1>0 DEF AccessInv, NeverHung
<1>a. ds \in {"kernel", "far"}
  BY DEF TypeOK
<1>1. ASSUME NEW r \in Registers, Compute(r) PROVE AccessInv' /\ NeverHung'
  BY <1>1, <1>0, <1>a DEF Compute, AccessInv, NeverHung
<1>2. CASE SysCall
  <2>1. InUser /\ ds = "kernel"
    BY <1>2, <1>a DEF SysCall, AccessInv
  <2> QED
    BY <1>2, <2>1, <1>0 DEF SysCall, Enter
<1>3. ASSUME NEW l \in Line, Irq(l) PROVE AccessInv' /\ NeverHung'
  <2>1. ds = "kernel"
    BY <1>3 DEF Irq, AccessInv
  <2> QED
    BY <1>3, <2>1, <1>0 DEF Irq, Enter
<1>4. CASE SlaveEoi
  BY <1>4, <1>0, <1>a DEF SlaveEoi, Runs, AccessInv, NeverHung
<1>5. CASE Eoi
  BY <1>5, <1>0, <1>a DEF Eoi, Runs, AccessInv, NeverHung
<1>6. CASE FarBegin
  BY <1>6 DEF FarBegin, AccessInv, NeverHung, Runs, InUser, Top
<1>7. CASE ReadNumber
  BY <1>7, <1>0 DEF ReadNumber, FarEnd, NeverHung
<1>8. CASE ReadArguments
  BY <1>8, <1>0 DEF ReadArguments, FarEnd, NeverHung
<1>9. CASE WriteResult
  BY <1>9, <1>0 DEF WriteResult, FarEnd, NeverHung
<1>10. ASSUME NEW x \in {"zero", "minus_one"}, Work(x) PROVE AccessInv' /\ NeverHung'
  BY <1>10, <1>0 DEF Work, Body, NeverHung
<1>11. ASSUME NEW c \in Task, Fork(c) PROVE AccessInv' /\ NeverHung'
  BY <1>11, <1>0 DEF Fork, Body, NeverHung
<1>12. ASSUME NEW t \in Task, Switch(t) PROVE AccessInv' /\ NeverHung'
  BY <1>12, <1>0 DEF Switch, Body, NeverHung
<1>13. CASE NoSegment
  BY <1>13, <1>0 DEF NoSegment, Body
<1>14. ASSUME NEW found \in BOOLEAN, Exec(found) PROVE AccessInv' /\ NeverHung'
  BY <1>14, <1>0 DEF Exec, Body, NeverHung
<1>15. CASE Exit
  BY <1>15, <1>0, <1>a DEF Exit, Runs, AccessInv, NeverHung
<1>16. CASE UNCHANGED vars
  BY <1>16 DEF vars, AccessInv, NeverHung, InUser, Top
<1> QED
  BY <1>1, <1>2, <1>3, <1>4, <1>5, <1>6, <1>7, <1>8, <1>9, <1>10, <1>11, <1>12,
     <1>13, <1>14, <1>15, <1>16 DEF Next

-----------------------------------------------------------------------------
(* The registers of the programs *)

(* Most actions touch the saved registers of the current task at most.      *)
LEMMA SavedFrame ==
    ASSUME TypeOK, SavedInv, current_task' = current_task,
           \A t \in Task : t # current_task =>
                stack'[t] = stack[t] /\ frame'[t] = frame[t] /\ owed'[t] = owed[t],
           stack'[current_task] # <<>> => Saved(current_task)'
    PROVE  SavedInv'
<1> SUFFICES ASSUME NEW t \in Task, stack'[t] # <<>> PROVE Saved(t)'
  BY DEF SavedInv
<1>1. CASE t = current_task
  BY <1>1
<1>2. CASE t # current_task
  BY <1>2 DEF SavedInv, Saved
<1> QED
  BY <1>1, <1>2

(* A stack that changes above its first activation only.                    *)
LEMMA SavedAbove ==
    ASSUME TypeOK, SavedInv, UNCHANGED <<current_task, frame, owed>>,
           \A t \in Task : t # current_task => stack'[t] = stack[t],
           stack'[current_task] # <<>> =>
                /\ stack[current_task] # <<>>
                /\ stack'[current_task][1].what = stack[current_task][1].what
                /\ stack'[current_task][1].ax = stack[current_task][1].ax
                /\ stack'[current_task][1].what = "call" =>
                        stack'[current_task][1].at = stack[current_task][1].at
    PROVE  SavedInv'
<1>1. ASSUME stack'[current_task] # <<>> PROVE Saved(current_task)'
  BY <1>1 DEF SavedInv, Saved, TypeOK
<1> QED
  BY <1>1, SavedFrame

LEMMA RetopNonEmpty ==
    ASSUME TypeOK, NEW a, Retop(a) PROVE stack'[current_task] # <<>>
<1>1. /\ Len(stack'[current_task]) = Len(stack[current_task])
      /\ Len(stack[current_task]) \in Nat \ {0}
  BY RetopEffect, TopType DEF Retop
<1> QED
  BY <1>1

(* An interrupt handler gets on: what is saved stays what is due.           *)
LEMMA HandlerSaved ==
    ASSUME TypeOK, SavedInv, UNCHANGED <<current_task, frame, owed>>,
           NEW at \in {"eoi", "exit"}, Retop([Top EXCEPT !.at = at]), Top.what = "irq"
    PROVE  SavedInv'
<1> DEFINE s == stack[current_task]
           r == stack'[current_task]
           a == [Top EXCEPT !.at = at]
<1>1. /\ \A t \in Task : t # current_task => stack'[t] = stack[t]
      /\ Len(r) = Len(s)
      /\ \A i \in 1..Len(s) : i # Len(s) => r[i] = s[i]
      /\ r[Len(s)] = a
  BY RetopEffect
<1>2. Len(s) \in Nat \ {0} /\ s # <<>> /\ Top = s[Len(s)] /\ Top \in Activation
  BY TopType DEF Retop
<1>3. a.what = "irq" /\ a.ax = Top.ax
  BY <1>2 DEF Activation
<1> HIDE DEF a
<1>4. r[1].what = s[1].what /\ r[1].ax = s[1].ax /\ (r[1].what = "call" => r[1].at = s[1].at)
  <2>1. CASE Len(s) = 1
    BY <2>1, <1>1, <1>2, <1>3
  <2>2. CASE Len(s) # 1
    <3>1. 1 \in 1..Len(s)
      BY <1>2
    <3>2. r[1] = s[1]
      BY <2>2, <3>1, <1>1
    <3> QED
      BY <3>2
  <2> QED
    BY <2>1, <2>2
<1>5. r # <<>> => s # <<>>
  BY <1>2
<1> QED
  BY <1>1, <1>4, <1>5, SavedAbove

(* The system call gets on.                                                 *)
LEMMA CallSaved ==
    ASSUME TypeOK, StackInv, SavedInv, current_task' = current_task,
           NEW a, Retop(a), Top.what = "call",
           \A t \in Task : t # current_task =>
                            frame'[t] = frame[t] /\ owed'[t] = owed[t],
           IF a.at = "result"
           THEN [frame'[current_task] EXCEPT !.ax = a.ax] = owed'[current_task]
           ELSE frame'[current_task] = owed'[current_task]
    PROVE  SavedInv' /\ ReturnsRight'
<1>1. /\ \A t \in Task : t # current_task => stack'[t] = stack[t]
      /\ stack'[current_task][1] = a
  <2>1. Len(stack[current_task]) = 1
    BY CallAlone DEF Retop
  <2>2. /\ \A t \in Task : t # current_task => stack'[t] = stack[t]
        /\ stack'[current_task][Len(stack[current_task])] = a
    BY RetopEffect
  <2> QED
    BY <2>1, <2>2
<1>2. a.what = "call"
  BY DEF Retop
<1>3. Saved(current_task)'
  BY <1>1, <1>2 DEF Saved
<1>4. SavedInv'
  BY <1>1, <1>3, SavedFrame
<1>5. stack'[current_task] # <<>>
  BY RetopNonEmpty
<1> QED
  BY <1>4, <1>5 DEF ReturnsRight, InUser

LEMMA CallIsSaved ==
    ASSUME TypeOK, StackInv, SavedInv, ~InUser, Top.what # "irq"
    PROVE  /\ Top.what = "call" /\ Top.at = "result" =>
                    [frame[current_task] EXCEPT !.ax = Top.ax] = owed[current_task]
           /\ ~(Top.what = "call" /\ Top.at = "result") =>
                    frame[current_task] = owed[current_task]
<1>1. Top = stack[current_task][1]
  BY CallAlone
<1>2. Saved(current_task)
  BY DEF SavedInv, TypeOK, InUser
<1> QED
  BY <1>1, <1>2 DEF Saved

(* kernel_enter saves what is due, or finds the kernel interrupted.         *)
LEMMA EnterSaved ==
    ASSUME TypeOK, SavedInv, ReturnsRight,
           NEW what \in {"irq", "call"}, NEW line \in 0..15,
           NEW at \in {"handler", "num"}, Enter(what, line, at)
    PROVE  SavedInv' /\ ReturnsRight'
<1> DEFINE s == stack[current_task]
           r == stack'[current_task]
           a == [what |-> what, line |-> line, at |-> at, ax |-> "zero"]
<1>1. /\ \A t \in Task : t # current_task => stack'[t] = stack[t]
      /\ Len(r) = Len(s) + 1
      /\ \A i \in 1..Len(s) : r[i] = s[i]
      /\ r[Len(s) + 1] = a
  BY EnterEffect
<1>2. s \in Seq(Activation) /\ Len(s) \in Nat
  BY DEF TypeOK
<1>3. a.at # "result"
  OBVIOUS
<1>4. current_task' = current_task /\ owed' = owed /\ current_task \in Task
  BY DEF Enter, TypeOK
<1> HIDE DEF a
<1>5. r # <<>>
  BY <1>1, <1>2
<1>6. ReturnsRight'
  BY <1>4, <1>5 DEF ReturnsRight, InUser
<1>7. CASE InUser
  <2>1. s = <<>> /\ Len(s) = 0
    BY <1>7 DEF InUser
  <2>2. r[1] = a
    BY <1>1, <2>1
  <2>3. frame' = [frame EXCEPT ![current_task] = cpu] /\ cpu = owed[current_task]
    BY <1>7 DEF Enter, ReturnsRight
  <2>4. /\ frame'[current_task] = owed'[current_task]
        /\ \A t \in Task : t # current_task => frame'[t] = frame[t]
    BY <1>4, <2>3 DEF TypeOK
  <2>5. Saved(current_task)'
    BY <1>3, <1>4, <2>2, <2>4 DEF Saved
  <2>6. SavedInv'
    BY <1>1, <1>4, <2>4, <2>5, SavedFrame
  <2> QED
    BY <1>6, <2>6
<1>8. CASE ~InUser
  <2>1. frame' = frame
    BY <1>8 DEF Enter
  <2>2. s # <<>> /\ 1 \in 1..Len(s)
    BY <1>2, <1>8 DEF InUser
  <2>3. r[1] = s[1]
    BY <1>1, <2>2
  <2>4. SavedInv'
    BY <1>1, <1>4, <2>1, <2>2, <2>3, SavedAbove
  <2> QED
    BY <1>6, <2>4
<1> QED
  BY <1>7, <1>8

(* fork: the parent is due the child's segment, the child a zero.           *)
LEMMA ForkSaved ==
    ASSUME TypeOK, StackInv, SavedInv, NEW c \in Task, Fork(c)
    PROVE  SavedInv' /\ ReturnsRight'
<1>1. /\ ~InUser /\ Top.what = "call" /\ Top.at = "body" /\ c \notin alive
      /\ c \in Word /\ current_task \in Task /\ current_task' = current_task
  BY WordFacts DEF Fork, Body, Runs, TypeOK
<1>2. c # current_task
  BY <1>1 DEF StackInv
<1>3. /\ \A t \in Task \ {c} : t # current_task => stack'[t] = stack[t]
      /\ stack'[c] = <<Child>>
      /\ Len(stack'[current_task]) = Len(stack[current_task])
      /\ stack'[current_task][Len(stack[current_task])] = Returned(c)
  BY <1>2, ForkEffect
<1>4. Len(stack[current_task]) = 1
  BY <1>1, CallAlone
<1>5. Len(stack'[current_task]) = 1 /\ stack'[current_task][1] = Returned(c)
  BY <1>3, <1>4
<1>6. frame[current_task] = owed[current_task] /\ frame[current_task] \in Registers
  BY <1>1, CallIsSaved DEF TypeOK
<1>7. Returned(c).what = "call" /\ Returned(c).at = "result" /\ Returned(c).ax = c
  BY <1>1, ReturnedType
<1> DEFINE f == [frame[current_task] EXCEPT !.cs = c, !.ax = "zero"]
           p == [owed[current_task] EXCEPT !.ax = c]
<1>8. frame' = [frame EXCEPT ![c] = f]
  BY DEF Fork
<1>9. owed' = [owed EXCEPT ![c] = f, ![current_task].ax = c]
  BY <1>6 DEF Fork
<1>10. frame \in [Task -> Registers] /\ owed \in [Task -> Registers]
  BY DEF TypeOK
<1>11. owed'[current_task] = p
  BY <1>1, <1>2, <1>9, <1>10
<1>12. owed'[c] = f
  <2> HIDE DEF f
  <2> QED
    BY <1>1, <1>2, <1>9, <1>10
<1>13. \A t \in Task : t # c => frame'[t] = frame[t]
  <2> HIDE DEF f
  <2> QED
    BY <1>8, <1>10
<1>14. \A t \in Task : t # c /\ t # current_task => owed'[t] = owed[t]
  <2> HIDE DEF f
  <2> QED
    BY <1>9, <1>10
<1>15. frame'[c] = f
  <2> HIDE DEF f
  <2> QED
    BY <1>8, <1>10
<1>16. Saved(current_task)'
  <2> DEFINE x == frame[current_task]
             y == Returned(c)
  <2>1. /\ frame'[current_task] = x /\ stack'[current_task][1] = y
        /\ current_task' = current_task /\ owed'[current_task] = [x EXCEPT !.ax = c]
    BY <1>1, <1>2, <1>5, <1>6, <1>11, <1>13
  <2>2. y.what = "call" /\ y.at = "result" /\ y.ax = c
    BY <1>7
  <2> HIDE DEF x, y
  <2> QED
    BY <2>1, <2>2 DEF Saved
<1>17. Saved(c)'
  <2>1. stack'[c][1].what = "child"
    BY <1>3 DEF Child
  <2> QED
    BY <2>1, <1>12, <1>15 DEF Saved
<1>18. SavedInv'
  <2> SUFFICES ASSUME NEW t \in Task, stack'[t] # <<>> PROVE Saved(t)'
    BY DEF SavedInv
  <2>1. CASE t # c /\ t # current_task
    <3>1. stack'[t] = stack[t] /\ frame'[t] = frame[t] /\ owed'[t] = owed[t]
      BY <2>1, <1>3, <1>13, <1>14
    <3>2. Saved(t)
      BY <3>1 DEF SavedInv
    <3> QED
      BY <3>1, <3>2 DEF Saved
  <2>2. CASE t = c
    BY <2>2, <1>17
  <2>3. CASE t = current_task
    BY <2>3, <1>1, <1>16 DEF Saved
  <2> QED
    BY <2>1, <2>2, <2>3
<1>19. stack'[current_task] # <<>>
  BY <1>5
<1> QED
  BY <1>1, <1>18, <1>19 DEF ReturnsRight, InUser

(* _kernel_exit gives a program what is due, or goes back into the kernel.  *)
LEMMA ExitSaved ==
    ASSUME TypeOK, StackInv, SavedInv, Exit
    PROVE  SavedInv' /\ ReturnsRight'
<1> DEFINE s == stack[current_task]
           r == stack'[current_task]
           n == Len(s)
<1>1. /\ \A t \in Task : t # current_task => stack'[t] = stack[t]
      /\ Len(r) = n - 1
      /\ \A i \in 1..(n - 1) : r[i] = s[i]
      /\ stack' \in [Task -> Seq(Activation)]
  BY ExitEffect
<1>2. /\ ~InUser /\ Top.at = "exit"
      /\ UNCHANGED <<current_task, frame, owed>>
      /\ current_task \in Task
  BY DEF Exit, Runs, TypeOK
<1>3. n \in Nat \ {0} /\ Top = s[n] /\ s # <<>>
  BY <1>2, TopType
<1>4. r # <<>> => Len(r) # 0
  <2>1. r \in Seq(Activation)
    BY <1>1, <1>2
  <2> HIDE DEF r
  <2> QED
    BY <2>1
<1>5. r # <<>> => r[1] = s[1]
  <2> HIDE DEF n, s, r
  <2> QED
    BY <1>1, <1>3, <1>4
<1>6. SavedInv'
  <2> HIDE DEF n
  <2> QED
    BY <1>1, <1>2, <1>3, <1>5, SavedAbove
<1>7. ReturnsRight'
  <2> SUFFICES ASSUME r = <<>> PROVE cpu' = owed'[current_task]
    BY <1>2 DEF ReturnsRight, InUser
  <2>1. n = 1
    <3>1. Len(r) = 0
      OBVIOUS
    <3> HIDE DEF n, r
    <3> QED
      BY <3>1, <1>1, <1>3
  <2>2. s[1].at # "result"
    BY <1>2, <1>3, <2>1
  <2>3. Saved(current_task)
    BY <1>2, <1>3 DEF SavedInv
  <2>4. frame[current_task] = owed[current_task]
    BY <2>2, <2>3 DEF Saved
  <2>5. cpu' = frame[current_task]
    BY <2>1 DEF Exit
  <2> QED
    BY <1>2, <2>4, <2>5
<1> QED
  BY <1>6, <1>7

LEMMA SavedStep ==
    TypeOK /\ StackInv /\ SavedInv /\ ReturnsRight /\ [Next]_vars
        => SavedInv' /\ ReturnsRight'
<1> SUFFICES ASSUME TypeOK, StackInv, SavedInv, ReturnsRight, [Next]_vars
             PROVE  SavedInv' /\ ReturnsRight'
  OBVIOUS
<1>0. ASSUME UNCHANGED <<current_task, cpu, frame, stack, owed>>
      PROVE  SavedInv' /\ ReturnsRight'
  BY <1>0 DEF SavedInv, Saved, ReturnsRight, InUser
<1>a. current_task \in Task
  BY DEF TypeOK
<1>1. ASSUME NEW r \in Registers, Compute(r) PROVE SavedInv' /\ ReturnsRight'
  <2>1. /\ stack[current_task] = <<>> /\ cpu' = r
        /\ UNCHANGED <<current_task, frame, stack>>
        /\ owed' = [owed EXCEPT ![current_task] = r]
    BY <1>1 DEF Compute, InUser
  <2>2. /\ owed'[current_task] = r
        /\ \A t \in Task : t # current_task => owed'[t] = owed[t]
    BY <1>a, <2>1 DEF TypeOK
  <2>3. SavedInv'
    BY <2>1, <2>2, SavedFrame
  <2> QED
    BY <2>1, <2>2, <2>3 DEF ReturnsRight
<1>2. CASE SysCall
  <2>1. Enter("call", 0, "num") /\ 0 \in 0..15
    BY <1>2 DEF SysCall
  <2> QED
    BY <2>1, EnterSaved
<1>3. ASSUME NEW l \in Line, Irq(l) PROVE SavedInv' /\ ReturnsRight'
  <2>1. l \in 0..15
    BY GateAssumption
  <2> QED
    BY <1>3, <2>1, EnterSaved DEF Irq
<1>4. CASE SlaveEoi
  <2>1. Retop([Top EXCEPT !.at = "eoi"]) /\ Top.what = "irq"
    BY <1>4, SlaveEoiTop DEF SlaveEoi, Runs
  <2>2. SavedInv' /\ stack'[current_task] # <<>>
    BY <1>4, <2>1, HandlerSaved, RetopNonEmpty DEF SlaveEoi
  <2> QED
    BY <1>4, <2>2 DEF SlaveEoi, ReturnsRight, InUser
<1>5. CASE Eoi
  <2>1. Retop([Top EXCEPT !.at = "exit"]) /\ Top.what = "irq"
    BY <1>5, EoiTop DEF Eoi, Runs
  <2>2. SavedInv' /\ stack'[current_task] # <<>>
    BY <1>5, <2>1, HandlerSaved, RetopNonEmpty DEF Eoi
  <2> QED
    BY <1>5, <2>2 DEF Eoi, ReturnsRight, InUser
<1>6. CASE FarBegin
  BY <1>6, <1>0 DEF FarBegin
<1>7. CASE ReadNumber
  <2> DEFINE a == [Top EXCEPT !.at = "body", !.ax = frame[current_task].ax]
  <2>1. /\ Retop(a) /\ ~InUser /\ Top.what = "call" /\ Top.at = "num"
        /\ UNCHANGED <<current_task, frame, owed>>
    BY <1>7, ReadNumberTop DEF ReadNumber, FarEnd, Runs
  <2>2. frame[current_task] = owed[current_task]
    BY <2>1, CallIsSaved
  <2>3. a.at = "body"
    BY <2>1, TopType DEF Activation
  <2> HIDE DEF a
  <2> QED
    BY <2>1, <2>2, <2>3, CallSaved
<1>8. CASE ReadArguments
  BY <1>8, <1>0 DEF ReadArguments, FarEnd
<1>9. CASE WriteResult
  <2> DEFINE a == [Top EXCEPT !.at = "exit"]
  <2>1. /\ Retop(a) /\ ~InUser /\ Top.what = "call" /\ Top.at = "result"
        /\ UNCHANGED <<current_task, owed>>
        /\ frame' = [frame EXCEPT ![current_task].ax = Top.ax]
    BY <1>9, WriteResultTop DEF WriteResult, FarEnd, Runs
  <2>2. [frame[current_task] EXCEPT !.ax = Top.ax] = owed[current_task]
    BY <2>1, CallIsSaved
  <2>3. a.at = "exit"
    BY <2>1, TopType DEF Activation
  <2>4. /\ frame'[current_task] = [frame[current_task] EXCEPT !.ax = Top.ax]
        /\ \A t \in Task : t # current_task => frame'[t] = frame[t]
    BY <1>a, <2>1 DEF TypeOK
  <2> HIDE DEF a
  <2> QED
    BY <2>1, <2>2, <2>3, <2>4, CallSaved
<1>10. ASSUME NEW x \in {"zero", "minus_one"}, Work(x) PROVE SavedInv' /\ ReturnsRight'
  <2>1. /\ Retop(Returned(x)) /\ ~InUser /\ Top.what = "call" /\ Top.at = "body"
        /\ UNCHANGED <<current_task, frame>> /\ x \in Word
        /\ owed' = [owed EXCEPT ![current_task].ax = x]
    BY <1>10, WorkTop, WordFacts DEF Work, Body, Runs
  <2>2. frame[current_task] = owed[current_task]
    BY <2>1, CallIsSaved
  <2>3. Returned(x).at = "result" /\ Returned(x).ax = x
    BY <2>1, ReturnedType
  <2>4. /\ owed'[current_task] = [owed[current_task] EXCEPT !.ax = x]
        /\ \A t \in Task : t # current_task => owed'[t] = owed[t]
    BY <1>a, <2>1 DEF TypeOK
  <2> QED
    BY <2>1, <2>2, <2>3, <2>4, CallSaved
<1>11. ASSUME NEW c \in Task, Fork(c) PROVE SavedInv' /\ ReturnsRight'
  BY <1>11, ForkSaved
<1>12. ASSUME NEW t \in Task, Switch(t) PROVE SavedInv' /\ ReturnsRight'
  <2>1. /\ t \in alive \ {current_task} /\ current_task' = t
        /\ UNCHANGED <<cpu, frame, stack, owed>>
    BY <1>12 DEF Switch
  <2>2. Len(stack[t]) = 1
    BY <2>1 DEF StackInv, Parked
  <2>3. stack[t] # <<>>
    BY <2>2
  <2> QED
    BY <2>1, <2>3 DEF SavedInv, Saved, ReturnsRight, InUser
<1>13. CASE NoSegment
  BY <1>13, <1>0 DEF NoSegment
<1>14. ASSUME NEW found \in BOOLEAN, Exec(found) PROVE SavedInv' /\ ReturnsRight'
  <2>1. /\ Retop(Returned("zero")) /\ ~InUser /\ Top.what = "call" /\ Top.at = "body"
        /\ current_task' = current_task
    BY <1>14, ExecTop DEF Exec, Body, Runs
  <2>2. frame[current_task] = owed[current_task]
    BY <2>1, CallIsSaved
  <2>3. Returned("zero").at = "result" /\ Returned("zero").ax = "zero"
    BY <2>1, WordFacts, ReturnedType
  <2>4. \A t \in Task : t # current_task => frame'[t] = frame[t] /\ owed'[t] = owed[t]
    BY <1>14 DEF Exec, TypeOK
  <2>5. [frame'[current_task] EXCEPT !.ax = "zero"] = owed'[current_task]
    <3>1. CASE found
      <4>1. /\ frame'[current_task] = Fresh(current_task)
            /\ owed'[current_task] = Fresh(current_task)
        BY <1>14, <3>1, <1>a DEF Exec, TypeOK
      <4> QED
        BY <4>1 DEF Fresh
    <3>2. CASE ~found
      BY <1>14, <3>2, <1>a, <2>2 DEF Exec, TypeOK
    <3> QED
      BY <3>1, <3>2
  <2> QED
    BY <2>1, <2>3, <2>4, <2>5, CallSaved
<1>15. CASE Exit
  BY <1>15, ExitSaved
<1>16. CASE UNCHANGED vars
  BY <1>16, <1>0 DEF vars
<1> QED
  BY <1>1, <1>2, <1>3, <1>4, <1>5, <1>6, <1>7, <1>8, <1>9, <1>10, <1>11, <1>12,
     <1>13, <1>14, <1>15, <1>16 DEF Next

-----------------------------------------------------------------------------
(* The lines in service *)

OthersIdle == \A t \in Task \ {current_task} : UnderWay(stack[t]) = {}

(* Two stacks with the same handlers under way.                             *)
Agree(r, s) ==
    /\ UnderWay(r) = UnderWay(s)
    /\ \A i \in UnderWay(s) : r[i] = s[i]

LEMMA AgreeLines ==
    ASSUME NEW r, NEW s, Agree(r, s)
    PROVE  /\ Inputs(r) = Inputs(s)
           /\ SlaveLines(r) = SlaveLines(s)
           /\ Order(s) => Order(r)
<1>1. Inputs(r) = Inputs(s)
  BY DEF Agree, Inputs
<1>2. {j \in UnderWay(r) : r[j].line >= 8 /\ r[j].at = "handler"}
        = {j \in UnderWay(s) : s[j].line >= 8 /\ s[j].at = "handler"}
  BY DEF Agree
<1>3. SlaveLines(r) = SlaveLines(s)
  BY <1>2 DEF Agree, SlaveLines
<1>4. Order(s) => Order(r)
  BY DEF Agree, Order
<1> QED
  BY <1>1, <1>3, <1>4

LEMMA AgreeStep ==
    ASSUME LinesRight, Order(stack[current_task]),
           UNCHANGED <<current_task, master, slave>>,
           Agree(stack'[current_task], stack[current_task]), OthersIdle'
    PROVE  LinesRight' /\ Order(stack[current_task])'
<1> DEFINE s == stack[current_task]
           r == stack'[current_task]
<1>1. /\ Inputs(r) = Inputs(s) /\ SlaveLines(r) = SlaveLines(s) /\ Order(r)
  BY AgreeLines
<1>2. /\ master = Inputs(s) /\ slave = SlaveLines(s)
      /\ \A i, j \in UnderWay(s) : i # j => Input(s[i].line) # Input(s[j].line)
  BY DEF LinesRight
<1>3. \A i, j \in UnderWay(r) : i # j => Input(r[i].line) # Input(r[j].line)
  BY <1>2 DEF Agree
<1>4. master' = Inputs(r) /\ slave' = SlaveLines(r)
  BY <1>1, <1>2
<1>5. (stack[current_task])' = r
  OBVIOUS
<1> QED
  BY <1>1, <1>3, <1>4, <1>5 DEF LinesRight, OthersIdle

(* Only the top changes, and it was no handler and is none.                 *)
LEMMA AgreeTop ==
    ASSUME NEW s \in Seq(Activation), NEW r \in Seq(Activation), s # <<>>,
           Len(r) = Len(s),
           \A i \in 1..Len(s) : i # Len(s) => r[i] = s[i],
           s[Len(s)].what # "irq", r[Len(s)].what # "irq"
    PROVE  Agree(r, s)
<1> DEFINE n == Len(s)
<1>1. /\ n \in Nat /\ Len(r) = n
      /\ \A i \in 1..n : i # n => r[i] = s[i]
      /\ s[n].what # "irq" /\ r[n].what # "irq"
  OBVIOUS
<1>2. /\ UnderWay(s) = {i \in 1..n : s[i].what = "irq" /\ s[i].at \in {"handler", "eoi"}}
      /\ UnderWay(r) = {i \in 1..n : r[i].what = "irq" /\ r[i].at \in {"handler", "eoi"}}
  BY <1>1 DEF UnderWay
<1> HIDE DEF n
<1> QED
  BY <1>1, <1>2 DEF Agree

LEMMA UnderWayType ==
    ASSUME NEW s \in Seq(Activation), NEW i \in UnderWay(s)
    PROVE  /\ i \in 1..Len(s) /\ i \in Nat
           /\ s[i].what = "irq" /\ s[i].at \in {"handler", "eoi"}
           /\ s[i].line \in Nat
           /\ Input(s[i].line) \in Nat
<1>1. i \in 1..Len(s) /\ s[i].what = "irq" /\ s[i].at \in {"handler", "eoi"}
  BY DEF UnderWay
<1>2. s[i] \in Activation
  BY <1>1
<1>3. s[i].line \in Nat
  BY <1>2 DEF Activation
<1>4. Input(s[i].line) \in Nat
  BY <1>3 DEF Input
<1> QED
  BY <1>1, <1>3, <1>4

(* One activation more.                                                     *)
LEMMA Longer ==
    ASSUME NEW s \in Seq(Activation), NEW r \in Seq(Activation),
           Len(r) = Len(s) + 1, \A i \in 1..Len(s) : r[i] = s[i]
    PROVE  LET n == Len(s) + 1
           IN  /\ n \notin UnderWay(s)
               /\ \A i \in UnderWay(s) : r[i] = s[i] /\ i < n
               /\ IF r[n].what = "irq" /\ r[n].at \in {"handler", "eoi"}
                  THEN UnderWay(r) = UnderWay(s) \cup {n}
                  ELSE UnderWay(r) = UnderWay(s)
<1> DEFINE m == Len(s)
           n == m + 1
<1>1. m \in Nat /\ Len(r) = n /\ \A i \in 1..m : r[i] = s[i]
  OBVIOUS
<1>2. 1..n = (1..m) \cup {n}
  <2>1. m \in Nat
    BY <1>1
  <2> HIDE DEF m
  <2> QED
    BY <2>1
<1>3. /\ UnderWay(s) = {i \in 1..m : s[i].what = "irq" /\ s[i].at \in {"handler", "eoi"}}
      /\ UnderWay(r) = {i \in 1..n : r[i].what = "irq" /\ r[i].at \in {"handler", "eoi"}}
  BY <1>1 DEF UnderWay
<1>4. n \notin 1..m /\ \A i \in 1..m : i < n
  <2>1. m \in Nat
    BY <1>1
  <2> HIDE DEF m
  <2> QED
    BY <2>1
<1> HIDE DEF m, n
<1>5. /\ n \notin UnderWay(s)
      /\ \A i \in UnderWay(s) : r[i] = s[i] /\ i < n
      /\ IF r[n].what = "irq" /\ r[n].at \in {"handler", "eoi"}
         THEN UnderWay(r) = UnderWay(s) \cup {n}
         ELSE UnderWay(r) = UnderWay(s)
  BY <1>1, <1>2, <1>3, <1>4
<1> QED
  BY <1>5 DEF m, n

(* An interrupt that is accepted comes before all that is in service.       *)
LEMMA IrqLines ==
    ASSUME TypeOK, LinesRight, Order(stack[current_task]), NEW l \in Line, Irq(l)
    PROVE  LinesRight' /\ Order(stack[current_task])'
<1> DEFINE s == stack[current_task]
           r == stack'[current_task]
           n == Len(s) + 1
<1>1. l \in 0..15
  BY GateAssumption
<1>2. /\ stack' \in [Task -> Seq(Activation)]
      /\ \A t \in Task : t # current_task => stack'[t] = stack[t]
      /\ Len(r) = Len(s) + 1
      /\ \A i \in 1..Len(s) : r[i] = s[i]
      /\ r[n] = [what |-> "irq", line |-> l, at |-> "handler", ax |-> "zero"]
  <2>1. Enter("irq", l, "handler")
    BY DEF Irq
  <2> QED
    BY <1>1, <2>1, EnterEffect
<1>3. s \in Seq(Activation) /\ r \in Seq(Activation) /\ current_task \in Task
  BY <1>2 DEF TypeOK
<1>4. r[n].what = "irq" /\ r[n].line = l /\ r[n].at = "handler"
  BY <1>2
<1>5. /\ n \notin UnderWay(s)
      /\ \A i \in UnderWay(s) : r[i] = s[i] /\ i < n
      /\ UnderWay(r) = UnderWay(s) \cup {n}
  BY <1>2, <1>3, <1>4, Longer
<1>6. n \in Nat /\ UnderWay(s) \subseteq Nat
  BY <1>3 DEF UnderWay
<1> HIDE DEF n
<1>7. /\ master = Inputs(s) /\ slave = SlaveLines(s)
      /\ \A i, j \in UnderWay(s) : i # j => Input(s[i].line) # Input(s[j].line)
      /\ \A t \in Task \ {current_task} : UnderWay(stack[t]) = {}
  BY DEF LinesRight
<1>8. \A i \in UnderWay(s) : Input(l) < Input(s[i].line)
  BY <1>7 DEF Irq, Accepts, Inputs
<1>9. /\ master' = master \cup {Input(l)}
      /\ slave' = IF l >= 8 THEN slave \cup {l} ELSE slave
      /\ current_task' = current_task
  BY DEF Irq, Enter
<1>10. Inputs(r) = Inputs(s) \cup {Input(l)}
  BY <1>4, <1>5 DEF Inputs
<1>11. SlaveLines(r) = IF l >= 8 THEN SlaveLines(s) \cup {l} ELSE SlaveLines(s)
  <2>1. {j \in UnderWay(r) : r[j].line >= 8 /\ r[j].at = "handler"}
            = {j \in UnderWay(s) : s[j].line >= 8 /\ s[j].at = "handler"}
                \cup (IF l >= 8 THEN {n} ELSE {})
    BY <1>4, <1>5
  <2>2. CASE l >= 8
    BY <2>1, <2>2, <1>4, <1>5 DEF SlaveLines
  <2>3. CASE ~(l >= 8)
    BY <2>1, <2>3, <1>5 DEF SlaveLines
  <2> QED
    BY <2>2, <2>3
<1>12. \A i \in UnderWay(s) : Input(l) # Input(s[i].line)
  <2>1. \A i \in UnderWay(s) : Input(s[i].line) \in Nat
    BY <1>3, UnderWayType
  <2>2. Input(l) \in Nat
    BY <1>1 DEF Input
  <2> QED
    BY <1>8, <2>1, <2>2
<1>13. \A i, j \in UnderWay(r) : i # j => Input(r[i].line) # Input(r[j].line)
  BY <1>4, <1>5, <1>7, <1>12
<1>14. Order(r)
  <2> SUFFICES ASSUME NEW i \in UnderWay(r), NEW j \in UnderWay(r), i < j
               PROVE  Input(r[j].line) < Input(r[i].line)
    BY DEF Order
  <2>1. i # n
    <3>1. i \in Nat /\ j \in Nat /\ (j = n \/ j < n)
      BY <1>5, <1>6
    <3> QED
      BY <3>1, <1>6
  <2>2. i \in UnderWay(s) /\ r[i] = s[i]
    BY <1>5, <2>1
  <2>3. CASE j = n
    BY <2>2, <2>3, <1>4, <1>8
  <2>4. CASE j # n
    <3>1. j \in UnderWay(s) /\ r[j] = s[j]
      BY <1>5, <2>4
    <3> QED
      BY <2>2, <3>1 DEF Order
  <2> QED
    BY <2>3, <2>4
<1>15. OthersIdle'
  BY <1>2, <1>7, <1>9 DEF OthersIdle
<1> QED
  BY <1>7, <1>9, <1>10, <1>11, <1>13, <1>14, <1>15 DEF LinesRight, OthersIdle

(* The command to the slave ends the line of this handler, the only one that*)
(* the slave has in service.                                                *)
LEMMA SlaveEoiLines ==
    ASSUME TypeOK, LinesRight, Order(stack[current_task]), SlaveEoi
    PROVE  LinesRight' /\ Order(stack[current_task])'
<1> DEFINE s == stack[current_task]
           r == stack'[current_task]
           n == Len(s)
           a == [Top EXCEPT !.at = "eoi"]
<1>1. /\ ~InUser /\ Top.what = "irq" /\ Top.at = "handler" /\ Top.line >= 8
      /\ UNCHANGED <<current_task, master>> /\ slave' = EndFirst(slave)
      /\ Retop(a)
  BY SlaveEoiTop DEF SlaveEoi, Runs
<1>2. /\ stack' \in [Task -> Seq(Activation)]
      /\ \A t \in Task : t # current_task => stack'[t] = stack[t]
      /\ Len(r) = n
      /\ \A i \in 1..n : i # n => r[i] = s[i]
      /\ r[n] = a
  BY <1>1, RetopEffect
<1>3. n \in Nat \ {0} /\ Top = s[n] /\ Top \in Activation /\ s \in Seq(Activation)
  BY <1>1, TopType
<1>4. a.what = "irq" /\ a.at = "eoi" /\ a.line = Top.line
  BY <1>1, <1>3 DEF Activation
<1>5. /\ UnderWay(s) = {i \in 1..n : s[i].what = "irq" /\ s[i].at \in {"handler", "eoi"}}
      /\ UnderWay(r) = {i \in 1..n : r[i].what = "irq" /\ r[i].at \in {"handler", "eoi"}}
  BY <1>2 DEF UnderWay
<1>6. \A i \in UnderWay(s) : s[i].line \in Nat /\ Input(s[i].line) \in Nat
  BY <1>3, UnderWayType
<1>7. /\ master = Inputs(s) /\ slave = SlaveLines(s)
      /\ \A i, j \in UnderWay(s) : i # j => Input(s[i].line) # Input(s[j].line)
      /\ \A t \in Task \ {current_task} : UnderWay(stack[t]) = {}
  BY DEF LinesRight
<1>8. Order(s)
  OBVIOUS
<1> HIDE DEF a, n, s, r
<1>9. n \in UnderWay(s)
  BY <1>1, <1>3, <1>5
<1>10. UnderWay(r) = UnderWay(s) /\ \A i \in UnderWay(s) : r[i].line = s[i].line
  BY <1>1, <1>2, <1>3, <1>4, <1>5
<1>11. \A j \in UnderWay(s) : s[j].line >= 8 => j = n
  BY <1>1, <1>3, <1>6, <1>7, <1>9 DEF Input
<1>12. {j \in UnderWay(s) : s[j].line >= 8 /\ s[j].at = "handler"} = {n}
  BY <1>1, <1>3, <1>9, <1>11
<1>13. slave = {s[n].line}
  BY <1>7, <1>12 DEF SlaveLines
<1>14. slave' = {}
  <2>1. s[n].line \in Nat
    BY <1>6, <1>9
  <2> QED
    BY <1>1, <1>13, <2>1 DEF EndFirst
<1>15. {j \in UnderWay(r) : r[j].line >= 8 /\ r[j].at = "handler"} = {}
  BY <1>2, <1>4, <1>10, <1>11
<1>16. slave' = SlaveLines(r)
  BY <1>14, <1>15 DEF SlaveLines
<1>17. master' = Inputs(r)
  BY <1>1, <1>7, <1>10 DEF Inputs
<1>18. /\ \A i, j \in UnderWay(r) : i # j => Input(r[i].line) # Input(r[j].line)
       /\ Order(r)
  BY <1>7, <1>8, <1>10 DEF Order
<1>19. OthersIdle'
  BY <1>1, <1>2, <1>7 DEF OthersIdle
<1> QED
  BY <1>1, <1>16, <1>17, <1>18, <1>19 DEF LinesRight, OthersIdle, r

(* The command to the master ends the input of this handler: it comes before*)
(* those of the handlers that it interrupted.                               *)
LEMMA EoiLines ==
    ASSUME TypeOK, StackInv, LinesRight, Order(stack[current_task]), Eoi
    PROVE  LinesRight' /\ Order(stack[current_task])'
<1> DEFINE s == stack[current_task]
           r == stack'[current_task]
           n == Len(s)
           a == [Top EXCEPT !.at = "exit"]
<1>1. /\ ~InUser /\ Top.what = "irq" /\ Retop(a)
      /\ Top.at = IF Top.line >= 8 THEN "eoi" ELSE "handler"
      /\ UNCHANGED <<current_task, slave>> /\ master' = EndFirst(master)
  BY EoiTop DEF Eoi, Runs
<1>2. /\ stack' \in [Task -> Seq(Activation)]
      /\ \A t \in Task : t # current_task => stack'[t] = stack[t]
      /\ Len(r) = n
      /\ \A i \in 1..n : i # n => r[i] = s[i]
      /\ r[n] = a
  BY <1>1, RetopEffect
<1>3. n \in Nat \ {0} /\ Top = s[n] /\ Top \in Activation /\ s \in Seq(Activation)
  BY <1>1, TopType
<1>4. a.at = "exit"
  BY <1>3 DEF Activation
<1>5. /\ UnderWay(s) = {i \in 1..n : s[i].what = "irq" /\ s[i].at \in {"handler", "eoi"}}
      /\ UnderWay(r) = {i \in 1..n : r[i].what = "irq" /\ r[i].at \in {"handler", "eoi"}}
  BY <1>2 DEF UnderWay
<1>6. \A i \in UnderWay(s) : Input(s[i].line) \in Nat
  BY <1>3, UnderWayType
<1>7. /\ master = Inputs(s) /\ slave = SlaveLines(s)
      /\ \A i, j \in UnderWay(s) : i # j => Input(s[i].line) # Input(s[j].line)
      /\ \A t \in Task \ {current_task} : UnderWay(stack[t]) = {}
  BY DEF LinesRight
<1>8. Order(s)
  OBVIOUS
<1> HIDE DEF a, n, s, r
<1>9. n \in UnderWay(s)
  BY <1>1, <1>3, <1>5
<1>10. UnderWay(r) = UnderWay(s) \ {n} /\ \A i \in UnderWay(r) : r[i] = s[i]
  BY <1>2, <1>4, <1>5
<1>11. \A i \in UnderWay(s) : i # n => Input(s[n].line) < Input(s[i].line)
  <2>1. \A i \in UnderWay(s) : i # n => i < n
    BY <1>3, <1>5
  <2> QED
    BY <1>8, <1>9, <2>1 DEF Order
<1>12. master' = Inputs(r)
  <2>1. Inputs(r) = {Input(s[i].line) : i \in UnderWay(s) \ {n}}
    BY <1>10 DEF Inputs
  <2>2. master' = {m \in Inputs(s) : \E k \in Inputs(s) : k < m}
    BY <1>1, <1>7 DEF EndFirst
  <2>3. ASSUME NEW i \in UnderWay(s), i # n PROVE Input(s[i].line) \in master'
    BY <1>9, <1>11, <2>2, <2>3 DEF Inputs
  <2>4. ASSUME NEW m \in master' PROVE \E i \in UnderWay(s) \ {n} : m = Input(s[i].line)
    <3>1. PICK i \in UnderWay(s) : m = Input(s[i].line)
      BY <2>2 DEF Inputs
    <3>2. PICK k \in UnderWay(s) : Input(s[k].line) < m
      BY <2>2 DEF Inputs
    <3>3. i # n
      BY <1>6, <1>9, <1>11, <3>1, <3>2
    <3> QED
      BY <3>1, <3>3
  <2> QED
    BY <2>1, <2>3, <2>4
<1>13. slave' = SlaveLines(r)
  <2>1. {j \in UnderWay(r) : r[j].line >= 8 /\ r[j].at = "handler"}
            = {j \in UnderWay(s) : s[j].line >= 8 /\ s[j].at = "handler"}
    BY <1>1, <1>3, <1>10
  <2> QED
    BY <1>1, <1>7, <1>10, <2>1 DEF SlaveLines
<1>14. /\ \A i, j \in UnderWay(r) : i # j => Input(r[i].line) # Input(r[j].line)
       /\ Order(r)
  BY <1>7, <1>8, <1>10 DEF Order
<1>15. OthersIdle'
  BY <1>1, <1>2, <1>7 DEF OthersIdle
<1> QED
  BY <1>1, <1>12, <1>13, <1>14, <1>15 DEF LinesRight, OthersIdle, r

(* The system call gets on, and no handler does.                            *)
LEMMA CallLines ==
    ASSUME TypeOK, LinesRight, Order(stack[current_task]),
           NEW a, Retop(a), Top.what # "irq",
           UNCHANGED <<current_task, master, slave>>
    PROVE  LinesRight' /\ Order(stack[current_task])'
<1> DEFINE s == stack[current_task]
           r == stack'[current_task]
<1>1. /\ stack' \in [Task -> Seq(Activation)]
      /\ \A t \in Task : t # current_task => stack'[t] = stack[t]
      /\ Len(r) = Len(s)
      /\ \A i \in 1..Len(s) : i # Len(s) => r[i] = s[i]
      /\ r[Len(s)] = a
  BY RetopEffect
<1>2. s \in Seq(Activation) /\ s # <<>> /\ Top = s[Len(s)] /\ a.what = Top.what
  BY TopType DEF Retop
<1>3. r \in Seq(Activation)
  BY <1>1 DEF TypeOK
<1>4. Agree(r, s)
  <2>1. s[Len(s)].what # "irq" /\ r[Len(s)].what # "irq"
    BY <1>1, <1>2
  <2> HIDE DEF r, s
  <2> QED
    BY <1>1, <1>2, <1>3, <2>1, AgreeTop
<1>5. OthersIdle'
  BY <1>1 DEF LinesRight, OthersIdle
<1> QED
  BY <1>4, <1>5, AgreeStep

LEMMA LinesStep ==
    TypeOK /\ StackInv /\ LinesRight /\ Order(stack[current_task]) /\ [Next]_vars
        => LinesRight' /\ Order(stack[current_task])'
<1> SUFFICES ASSUME TypeOK, StackInv, LinesRight, Order(stack[current_task]), [Next]_vars
             PROVE  LinesRight' /\ Order(stack[current_task])'
  OBVIOUS
<1> DEFINE Goal == LinesRight' /\ Order(stack[current_task])'
           s == stack[current_task]
           r == stack'[current_task]
<1>0. ASSUME UNCHANGED <<current_task, stack, master, slave>> PROVE Goal
  BY <1>0 DEF LinesRight
<1>a. current_task \in Task /\ s \in Seq(Activation) /\ stack \in [Task -> Seq(Activation)]
  BY DEF TypeOK
<1>b. \A t \in Task \ {current_task} : UnderWay(stack[t]) = {}
  BY DEF LinesRight
<1>1. ASSUME NEW x \in Registers, Compute(x) PROVE Goal
  BY <1>1, <1>0 DEF Compute
<1>2. CASE SysCall
  <2>1. Enter("call", 0, "num") /\ 0 \in 0..15
    BY <1>2 DEF SysCall
  <2>2. UNCHANGED <<current_task, master, slave>>
    BY <1>2 DEF SysCall, Enter
  <2>3. /\ stack' \in [Task -> Seq(Activation)]
        /\ \A t \in Task : t # current_task => stack'[t] = stack[t]
        /\ Len(r) = Len(s) + 1
        /\ \A i \in 1..Len(s) : r[i] = s[i]
        /\ r[Len(s) + 1].what = "call"
    BY <2>1, EnterEffect
  <2>4. r \in Seq(Activation)
    BY <1>a, <2>3
  <2>5. Agree(r, s)
    <3> HIDE DEF r, s
    <3> QED
      BY <1>a, <2>3, <2>4, Longer DEF Agree
  <2>6. OthersIdle'
    BY <1>b, <2>2, <2>3 DEF OthersIdle
  <2> QED
    BY <2>2, <2>5, <2>6, AgreeStep
<1>3. ASSUME NEW l \in Line, Irq(l) PROVE Goal
  BY <1>3, IrqLines
<1>4. CASE SlaveEoi
  BY <1>4, SlaveEoiLines
<1>5. CASE Eoi
  BY <1>5, EoiLines
<1>6. CASE FarBegin
  BY <1>6, <1>0 DEF FarBegin
<1>7. CASE ReadNumber
  <2>1. Top.what = "call" /\ UNCHANGED <<current_task, master, slave>>
    BY <1>7 DEF ReadNumber, FarEnd, Runs
  <2> QED
    BY <1>7, <2>1, ReadNumberTop, CallLines
<1>8. CASE ReadArguments
  BY <1>8, <1>0 DEF ReadArguments, FarEnd
<1>9. CASE WriteResult
  <2>1. Top.what = "call" /\ UNCHANGED <<current_task, master, slave>>
    BY <1>9 DEF WriteResult, FarEnd, Runs
  <2> QED
    BY <1>9, <2>1, WriteResultTop, CallLines
<1>10. ASSUME NEW x \in {"zero", "minus_one"}, Work(x) PROVE Goal
  <2>1. Top.what = "call" /\ UNCHANGED <<current_task, master, slave>>
    BY <1>10 DEF Work, Body, Runs
  <2> QED
    BY <1>10, <2>1, WorkTop, CallLines
<1>11. ASSUME NEW c \in Task, Fork(c) PROVE Goal
  <2>1. /\ ~InUser /\ Top.what = "call" /\ c \notin alive
        /\ c \in Word /\ UNCHANGED <<current_task, master, slave>>
    BY <1>11, WordFacts DEF Fork, Body, Runs
  <2>2. c # current_task
    BY <2>1 DEF StackInv
  <2>3. /\ stack' \in [Task -> Seq(Activation)]
        /\ \A t \in Task \ {c} : t # current_task => stack'[t] = stack[t]
        /\ stack'[c] = <<Child>>
        /\ Len(r) = Len(s)
        /\ \A i \in 1..Len(s) : i # Len(s) => r[i] = s[i]
        /\ r[Len(s)] = Returned(c)
    BY <1>11, <2>2, ForkEffect
  <2>4. /\ s # <<>> /\ s[Len(s)].what # "irq" /\ r[Len(s)].what # "irq"
        /\ r \in Seq(Activation)
    BY <1>a, <2>1, <2>3, TopType, ReturnedType
  <2>5. Agree(r, s)
    <3> HIDE DEF r, s
    <3> QED
      BY <1>a, <2>3, <2>4, AgreeTop
  <2>6. UnderWay(<<Child>>) = {}
    BY DEF UnderWay, Child
  <2>7. OthersIdle'
    BY <1>b, <2>1, <2>3, <2>6 DEF OthersIdle
  <2> QED
    BY <2>1, <2>5, <2>7, AgreeStep
<1>12. ASSUME NEW t \in Task, Switch(t) PROVE Goal
  <2>1. /\ ~InUser /\ Top.what = "call"
        /\ t # current_task /\ current_task' = t
        /\ UNCHANGED <<stack, master, slave>>
    BY <1>12 DEF Switch, Body, Runs
  <2>2. Len(s) = 1 /\ s[1].what = "call"
    BY <2>1, CallAlone
  <2>3. UnderWay(s) = {}
    BY <2>2 DEF UnderWay
  <2>4. UnderWay(stack[t]) = {}
    BY <1>b, <2>1
  <2>5. \A u \in Task : UnderWay(stack[u]) = {}
    BY <1>b, <2>3
  <2>6. master = {} /\ slave = {}
    BY <2>3 DEF LinesRight, Inputs, SlaveLines
  <2>7. Inputs(stack[t]) = {} /\ SlaveLines(stack[t]) = {} /\ Order(stack[t])
    BY <2>4 DEF Inputs, SlaveLines, Order
  <2> QED
    BY <2>1, <2>4, <2>5, <2>6, <2>7 DEF LinesRight
<1>13. CASE NoSegment
  BY <1>13, <1>0 DEF NoSegment
<1>14. ASSUME NEW found \in BOOLEAN, Exec(found) PROVE Goal
  <2>1. Top.what = "call" /\ UNCHANGED <<current_task, master, slave>>
    BY <1>14 DEF Exec, Body, Runs
  <2> QED
    BY <1>14, <2>1, ExecTop, CallLines
<1>15. CASE Exit
  <2>1. /\ stack' \in [Task -> Seq(Activation)]
        /\ \A t \in Task : t # current_task => stack'[t] = stack[t]
        /\ Len(r) = Len(s) - 1
        /\ \A i \in 1..(Len(s) - 1) : r[i] = s[i]
    BY <1>15, ExitEffect
  <2>2. /\ ~InUser /\ Top.at = "exit" /\ UNCHANGED <<current_task, master, slave>>
    BY <1>15 DEF Exit, Runs
  <2>3. s[Len(s)].at = "exit" /\ Len(s) \in Nat \ {0} /\ r \in Seq(Activation)
    BY <1>a, <2>1, <2>2, TopType
  <2>4. Len(s) = Len(r) + 1 /\ \A i \in 1..Len(r) : s[i] = r[i]
    BY <2>1, <2>3
  <2>5. Agree(r, s)
    <3> HIDE DEF r, s
    <3>1. /\ \A i \in UnderWay(r) : s[i] = r[i]
          /\ UnderWay(s) = UnderWay(r)
      BY <1>a, <2>3, <2>4, Longer
    <3> QED
      BY <3>1 DEF Agree
  <2>6. OthersIdle'
    BY <1>b, <2>1, <2>2 DEF OthersIdle
  <2> QED
    BY <2>2, <2>5, <2>6, AgreeStep
<1>16. CASE UNCHANGED vars
  BY <1>16, <1>0 DEF vars
<1> QED
  BY <1>1, <1>2, <1>3, <1>4, <1>5, <1>6, <1>7, <1>8, <1>9, <1>10, <1>11, <1>12,
     <1>13, <1>14, <1>15, <1>16 DEF Next

-----------------------------------------------------------------------------
LEMMA Invariance == Spec => []IInv
<1>1. Init => IInv
  BY InitIInv
<1>2. IInv /\ [Next]_vars => IInv'
  BY TypeStep, StackStep, AccessStep, SavedStep, LinesStep DEF IInv
<1> QED
  BY <1>1, <1>2, PTL DEF Spec

(* Every variable keeps its type: of kernel_enter, the dispatcher, the      *)
(* system calls and _kernel_exit, whatever nests in what.                   *)
THEOREM TypeCorrect == Spec => []TypeOK
<1>1. IInv => TypeOK
  BY DEF IInv
<1> QED
  BY <1>1, Invariance, PTL

(* _kernel_exit gives every program the registers that it is due: its own   *)
(* as kernel_enter found them, with the result of its call in ax; as a      *)
(* child those of its parent, and after exec those of a new program.        *)
THEOREM RegistersReturned == Spec => []ReturnsRight
<1>1. IInv => ReturnsRight
  BY DEF IInv
<1> QED
  BY <1>1, Invariance, PTL

(* irq_handler ends the line of its own interrupt, in both controllers,     *)
(* however its handlers nest, and switch_task leaves none of them behind.   *)
THEOREM LinesEnded == Spec => []LinesRight
<1>1. IInv => LinesRight
  BY DEF IInv
<1> QED
  BY <1>1, Invariance, PTL

(* kernel_enter never meets a ds that a far access has loaded, so it never  *)
(* loops for ever.                                                          *)
THEOREM KernelNeverHangs == Spec => []NeverHung
<1>1. IInv => NeverHung
  BY DEF IInv
<1> QED
  BY <1>1, Invariance, PTL
=============================================================================

---------------------------- MODULE IrqWaitProofs ----------------------------
(***************************************************************************)
(* The wait list of an interrupt: theorems about IrqWait for every number  *)
(* of tasks and blocks.                                                    *)
(***************************************************************************)
EXTENDS IrqWait, WellFoundedInduction, TLAPS

(* What is left of the list for the handler, or for the next interrupt, and *)
(* the block that is on its way into the list.                              *)
First   == IF pc.irq THEN item ELSE irq_events
Pending == IF pc.call \in {"load", "link"} THEN {new_wait} ELSE {}

(* A list that an interrupt has spoilt leads through freed blocks, and ends *)
(* anywhere.  What counts of it are the blocks in use that are linked.      *)
Usable == allocated \ Pending
Live   == Chain(next, Usable, First)

(* A block that is linked has been somebody's.                              *)
Used == {b \in 1..Blocks : task[b] \in Task} \cup {0}
UsedInv == {irq_events, item} \subseteq Used /\ \A b \in 1..Blocks : next[b] \in Used

(* The call in progress.                                                    *)
CallInv ==
    /\ (pc.call = "none") <=> (setter = NoTask)
    /\ pc.call # "none" => /\ new_wait \in 1..Blocks
                           /\ task[new_wait] = setter
    /\ ~pc.irq => /\ Pending \subseteq allocated \/ irq_events = 0
                  /\ pc.call = "link" =>
                        next[new_wait] = irq_events \/ irq_events = 0

WaiterInv ==
    \A t \in waiting :
        \/ t = setter /\ Pending # {} /\ Pending \subseteq allocated
        \/ \E b \in Live : task[b] = t

(* The list before the race.                                                *)
ListInv ==
    /\ Items(First) \subseteq allocated
    /\ Pending \subseteq allocated \ Items(First)
    /\ \A b \in Items(First) \cup Pending : task[b] \in waiting
    /\ \A b, c \in Items(First) \cup Pending : task[b] = task[c] => b = c
    /\ \A b \in Items(First) : b \notin Items(next[b])
    /\ ~pc.irq /\ pc.call = "link" => next[new_wait] = irq_events

SleepInv ==
    /\ \A t \in waiting : state[t] = IF t = setter THEN "RUNNING" ELSE "SLEEPING"
    /\ spurious = {}
    /\ panic # "second_wakeup"

CleanInv == ~raced => ListInv /\ SleepInv

IInv == TypeOK /\ UsedInv /\ CallInv /\ WaiterInv /\ CleanInv

-----------------------------------------------------------------------------
(* Chains *)

(* A set that b is in, if in B, and that no link within B leaves.           *)
Closed(links, B, b, S) ==
    /\ S \subseteq B
    /\ b \in B => b \in S
    /\ \A d \in S : links[d] \in B => links[d] \in S

LEMMA ChainIn ==
    ASSUME NEW links, NEW B, NEW b, NEW c \in Chain(links, B, b),
           NEW S, Closed(links, B, b, S)
    PROVE  c \in S
BY DEF Chain, Closed

LEMMA InChain ==
    ASSUME NEW links, NEW B, NEW b, NEW c \in B,
           \A S : Closed(links, B, b, S) => c \in S
    PROVE  c \in Chain(links, B, b)
BY DEF Chain, Closed

LEMMA ChainSubset ==
    ASSUME NEW links, NEW B, NEW b PROVE Chain(links, B, b) \subseteq B
BY DEF Chain

LEMMA ChainOfNone ==
    ASSUME NEW links, NEW B, NEW b, b \notin B PROVE Chain(links, B, b) = {}
<1>1. Closed(links, B, b, {})
  BY DEF Closed
<1> QED
  BY <1>1, ChainIn

LEMMA ChainStart ==
    ASSUME NEW links, NEW B, NEW b \in B PROVE b \in Chain(links, B, b)
BY DEF Chain

(* A chain is closed, and each of its blocks begins a part of it.           *)
LEMMA ChainClosed ==
    ASSUME NEW links, NEW B, NEW b
    PROVE  Closed(links, B, b, Chain(links, B, b))
<1>1. ASSUME NEW d \in Chain(links, B, b), links[d] \in B
      PROVE  links[d] \in Chain(links, B, b)
  <2>1. ASSUME NEW S, Closed(links, B, b, S) PROVE links[d] \in S
    <3>1. d \in S
      BY <2>1, ChainIn
    <3> QED
      BY <1>1, <2>1, <3>1 DEF Closed
  <2> QED
    BY <1>1, <2>1, InChain
<1> QED
  BY <1>1, ChainSubset, ChainStart DEF Closed

LEMMA ChainPart ==
    ASSUME NEW links, NEW B, NEW b, NEW c,
           c \in B => c \in Chain(links, B, b)
    PROVE  Chain(links, B, c) \subseteq Chain(links, B, b)
<1>1. Closed(links, B, c, Chain(links, B, b))
  BY ChainClosed DEF Closed
<1> QED
  BY <1>1, ChainIn

(* The first block and the chain behind it.                                 *)
LEMMA ChainStep ==
    ASSUME NEW links, NEW B, NEW b \in B
    PROVE  Chain(links, B, b) = {b} \cup Chain(links, B, links[b])
<1> DEFINE rest == Chain(links, B, links[b])
<1>1. rest \subseteq Chain(links, B, b)
  <2>1. links[b] \in B => links[b] \in Chain(links, B, b)
    BY ChainClosed, ChainStart DEF Closed
  <2> QED
    BY <2>1, ChainPart
<1>2. Closed(links, B, b, {b} \cup rest)
  <2>1. Closed(links, B, links[b], rest)
    BY ChainClosed
  <2> HIDE DEF rest
  <2> QED
    BY <2>1 DEF Closed
<1>3. Chain(links, B, b) \subseteq {b} \cup rest
  BY <1>2, ChainIn
<1> QED
  BY <1>1, <1>3, ChainStart

(* Only the links of the chain matter.                                      *)
LEMMA ChainSame ==
    ASSUME NEW links, NEW m, NEW B, NEW b,
           \A d \in Chain(links, B, b) : m[d] = links[d]
    PROVE  Chain(m, B, b) = Chain(links, B, b)
<1> DEFINE C == Chain(links, B, b)
<1>1. Closed(links, B, b, C)
  BY ChainClosed
<1>2. Closed(m, B, b, C)
  <2> HIDE DEF C
  <2> QED
    BY <1>1 DEF Closed, C
<1>3. Chain(m, B, b) \subseteq C
  BY <1>2, ChainIn
<1>4. ASSUME NEW c \in C PROVE c \in Chain(m, B, b)
  <2>1. ASSUME NEW S, Closed(m, B, b, S) PROVE c \in S
    <3>1. Closed(links, B, b, S \cap C)
      <4>1. \A d \in C : m[d] = links[d]
        OBVIOUS
      <4> HIDE DEF C
      <4> QED
        BY <1>1, <2>1, <4>1 DEF Closed
    <3> QED
      BY <3>1, ChainIn
  <2>2. c \in B
    BY ChainSubset
  <2> QED
    BY <2>1, <2>2, InChain
<1> QED
  BY <1>3, <1>4

(* More blocks, longer chain.                                               *)
LEMMA ChainMore ==
    ASSUME NEW links, NEW B, NEW D, B \subseteq D, NEW b
    PROVE  Chain(links, B, b) \subseteq Chain(links, D, b)
<1> SUFFICES ASSUME NEW c \in Chain(links, B, b) PROVE c \in Chain(links, D, b)
  OBVIOUS
<1>1. ASSUME NEW S, Closed(links, D, b, S) PROVE c \in S
  <2>1. Closed(links, B, b, S \cap B)
    BY <1>1 DEF Closed
  <2> QED
    BY <2>1, ChainIn
<1>2. c \in D
  BY ChainSubset
<1> QED
  BY <1>1, <1>2, InChain

(* Behind the first block nothing needs it.                                 *)
LEMMA ChainBehind ==
    ASSUME NEW links, NEW B, NEW b \in B, NEW D, B \ {b} \subseteq D,
           NEW c \in Chain(links, B, b), c # b
    PROVE  c \in Chain(links, D, links[b])
<1>1. ASSUME NEW S, Closed(links, D, links[b], S) PROVE c \in S
  <2>1. Closed(links, B, b, (S \cap B) \cup {b})
    BY <1>1 DEF Closed
  <2> QED
    BY <2>1, ChainIn
<1>2. c \in D
  BY ChainSubset
<1> QED
  BY <1>1, <1>2, InChain

-----------------------------------------------------------------------------
(* The steps *)

(* A set of naturals that is not empty has a least element.                 *)
LEMMA Least ==
    ASSUME NEW S \in SUBSET Nat, S # {}
    PROVE  \E i \in S : \A j \in S : i <= j
<1> DEFINE less == {ss \in Nat \X Nat : ss[1] < ss[2]}
<1>1. IsWellFoundedOn(less, Nat)
  BY NatLessThanWellFounded DEF OpToRel
<1>2. \E i \in S : \A j \in S : <<j, i>> \notin less
  <2> HIDE DEF less
  <2> QED
    BY <1>1, WFMin
<1>3. PICK i \in S : \A j \in S : <<j, i>> \notin less
  BY <1>2
<1>4. \A j \in S : ~ (j < i)
  BY <1>3
<1> QED
  BY <1>4

(* Where the processor is before and after a statement of irq_set_wakeup.   *)
LEMMA AtCall ==
    ASSUME NEW from, NEW to, InTask(from), Goto(to)
    PROVE  /\ panic = "none"
           /\ ~pc.irq /\ pc.call = from
           /\ ~pc'.irq /\ pc'.call = to
           /\ pc' = [irq |-> FALSE, call |-> to]
<1>1. pc = [irq |-> FALSE, call |-> from] /\ panic = "none"
  BY DEF InTask
<1>2. pc' = [irq |-> FALSE, call |-> to]
  BY <1>1 DEF Goto
<1> QED
  BY <1>1, <1>2

LEMMA SetWakeupEffect ==
    ASSUME TypeOK, NEW t \in Task, SetWakeup(t)
    PROVE  \E b \in 1..Blocks :
              /\ b \notin allocated
              /\ allocated' = allocated \cup {b}
              /\ task' = [task EXCEPT ![b] = t]
              /\ new_wait' = b
<1>1. FreeBlocks \in SUBSET Nat /\ FreeBlocks # {}
  BY DEF SetWakeup, FreeBlocks
<1>2. \E b \in FreeBlocks : \A c \in FreeBlocks : b <= c
  BY <1>1, Least
<1> DEFINE b == CHOOSE b \in FreeBlocks : \A c \in FreeBlocks : b <= c
<1>3. b \in FreeBlocks
  BY <1>2
<1>4. allocated' = allocated \cup {b} /\ task' = [task EXCEPT ![b] = t] /\ new_wait' = b
  BY DEF SetWakeup
<1> HIDE DEF b
<1> QED
  BY <1>3, <1>4 DEF FreeBlocks

(* What an interrupt does to pc.                                            *)
LEMMA AtIrq ==
    ASSUME TypeOK, NEW x \in BOOLEAN, pc' = [pc EXCEPT !.irq = x]
    PROVE  /\ pc'.irq = x /\ pc'.call = pc.call
           /\ pc' \in [irq : BOOLEAN, call : {"none", "load", "link", "sleep"}]
<1>1. pc \in [irq : BOOLEAN, call : {"none", "load", "link", "sleep"}]
  BY DEF TypeOK
<1> QED
  BY <1>1

(* The item that the handler is at.                                         *)
LEMMA ItemType ==
    ASSUME TypeOK, UsedInv, item # 0
    PROVE  /\ item \in 1..Blocks
           /\ task[item] \in Task
           /\ next[item] \in 0..Blocks
BY DEF TypeOK, UsedInv, Used

LEMMA InitIInv == Init => IInv
<1> SUFFICES ASSUME Init PROVE IInv
  OBVIOUS
<1>0. Blocks \in Nat
  BY IrqWaitAssumption
<1>a. 0 \in 0..Blocks /\ 0 \notin 1..Blocks
  BY <1>0
<1>b. pc.irq = FALSE /\ pc.call = "none"
  BY DEF Init
<1>1. TypeOK
  <2>1. pc \in [irq : BOOLEAN, call : {"none", "load", "link", "sleep"}]
    BY DEF Init
  <2> QED
    BY <1>a, <2>1 DEF Init, TypeOK
<1>2. UsedInv
  BY DEF Init, UsedInv, Used
<1>3. CallInv
  BY <1>b DEF Init, CallInv
<1>4. WaiterInv
  BY DEF Init, WaiterInv
<1>5. First = 0 /\ Pending = {}
  BY <1>b DEF Init, First, Pending
<1>6. Items(First) = {}
  BY <1>a, <1>5, ChainOfNone DEF Items
<1>7. CleanInv
  BY <1>b, <1>5, <1>6 DEF Init, CleanInv, ListInv, SleepInv
<1> QED
  BY <1>1, <1>2, <1>3, <1>4, <1>7 DEF IInv

LEMMA TypeStep == TypeOK /\ UsedInv /\ CallInv /\ [Next]_vars => TypeOK'
<1> SUFFICES ASSUME TypeOK, UsedInv, CallInv, [Next]_vars PROVE TypeOK'
  OBVIOUS
<1>0. Blocks \in Nat /\ 0 \in 0..Blocks
  BY IrqWaitAssumption
<1>a. ASSUME NEW to \in {"none", "load", "link", "sleep"},
             pc' = [irq |-> FALSE, call |-> to]
      PROVE  pc' \in [irq : BOOLEAN, call : {"none", "load", "link", "sleep"}]
  BY <1>a
<1>1. ASSUME NEW t \in Task, SetWakeup(t) PROVE TypeOK'
  <2>1. PICK b \in 1..Blocks :
              /\ allocated' = allocated \cup {b}
              /\ task' = [task EXCEPT ![b] = t]
              /\ new_wait' = b
    BY <1>1, SetWakeupEffect
  <2>2. pc' \in [irq : BOOLEAN, call : {"none", "load", "link", "sleep"}]
    BY <1>1, <1>a, AtCall DEF SetWakeup
  <2>3. b \in 0..Blocks
    BY <1>0
  <2>4. task' \in [1..Blocks -> Task \cup {NoTask}] /\ allocated' \subseteq 1..Blocks
    BY <2>1 DEF TypeOK
  <2>5. /\ UNCHANGED <<irq_events, next, state, item, panic, spurious, raced>>
        /\ setter' = t /\ waiting' = waiting \cup {t}
    BY <1>1 DEF SetWakeup
  <2> QED
    BY <2>1, <2>2, <2>3, <2>4, <2>5 DEF TypeOK
<1>2. CASE NoBlock
  BY <1>2 DEF NoBlock, list, history, TypeOK
<1>3. CASE LoadNext
  <2>1. pc' \in [irq : BOOLEAN, call : {"none", "load", "link", "sleep"}]
    BY <1>3, <1>a, AtCall DEF LoadNext
  <2> QED
    BY <1>3, <2>1 DEF LoadNext, history, TypeOK
<1>4. CASE LinkHead
  <2>1. pc' \in [irq : BOOLEAN, call : {"none", "load", "link", "sleep"}]
    BY <1>4, <1>a, AtCall DEF LinkHead
  <2> QED
    BY <1>4, <2>1 DEF LinkHead, history, TypeOK
<1>5. CASE TaskSleep
  <2>1. pc' \in [irq : BOOLEAN, call : {"none", "load", "link", "sleep"}]
    BY <1>5, <1>a, AtCall DEF TaskSleep
  <2>2. state' \in [Task -> {"RUNNING", "SLEEPING", "WAKEN_BEFORE_SLEEP"}]
    BY <1>5 DEF TaskSleep, TypeOK
  <2> QED
    BY <1>0, <1>5, <2>1, <2>2 DEF TaskSleep, list, history, TypeOK
<1>6. CASE Irq
  <2>1. pc' \in [irq : BOOLEAN, call : {"none", "load", "link", "sleep"}]
    BY <1>6, AtIrq DEF Irq
  <2> QED
    BY <1>6, <2>1 DEF Irq, list, history, TypeOK
<1>7. CASE ResumeOne
  <2>1. item \in 1..Blocks /\ task[item] \in Task /\ next[item] \in 0..Blocks
    BY <1>7, ItemType DEF ResumeOne
  <2>2. UNCHANGED <<irq_events, task, next, setter, new_wait, pc>>
    BY <1>7 DEF ResumeOne
  <2>3. CASE panic' = "second_wakeup" /\ UNCHANGED <<state, item, allocated, history>>
    BY <2>2, <2>3 DEF history, TypeOK
  <2>4. CASE /\ state' = [state EXCEPT ![task[item]] = WokenState(@)]
             /\ waiting' = waiting \ {task[item]}
             /\ spurious' = spurious \cup ({task[item]} \ waiting)
             /\ item' = next[item]
             /\ allocated' = Flip(item)
             /\ UNCHANGED <<panic, raced>>
    <3>1. WokenState(state[task[item]]) \in {"RUNNING", "SLEEPING", "WAKEN_BEFORE_SLEEP"}
      BY <2>1 DEF WokenState, TypeOK
    <3>2. state' \in [Task -> {"RUNNING", "SLEEPING", "WAKEN_BEFORE_SLEEP"}]
      BY <2>4, <3>1 DEF TypeOK
    <3>3. allocated' \subseteq 1..Blocks
      BY <2>1, <2>4 DEF Flip, TypeOK
    <3>4. waiting' \subseteq Task /\ spurious' \subseteq Task
      BY <2>1, <2>4 DEF TypeOK
    <3> QED
      BY <2>1, <2>2, <2>4, <3>2, <3>3, <3>4 DEF TypeOK
  <2> QED
    BY <1>7, <2>3, <2>4 DEF ResumeOne
<1>8. CASE IrqReturn
  <2>1. pc' \in [irq : BOOLEAN, call : {"none", "load", "link", "sleep"}]
    BY <1>8, AtIrq DEF IrqReturn
  <2>2. raced' \in BOOLEAN
    BY <1>8 DEF IrqReturn
  <2> QED
    BY <1>0, <1>8, <2>1, <2>2 DEF IrqReturn, TypeOK
<1>9. CASE UNCHANGED vars
  BY <1>9 DEF vars, list, history, TypeOK
<1> QED
  BY <1>1, <1>2, <1>3, <1>4, <1>5, <1>6, <1>7, <1>8, <1>9 DEF Next, Calls, Handler

LEMMA UsedStep == TypeOK /\ UsedInv /\ CallInv /\ [Next]_vars => UsedInv'
<1> SUFFICES ASSUME TypeOK, UsedInv, CallInv, [Next]_vars PROVE UsedInv'
  OBVIOUS
<1>0. ASSUME UNCHANGED <<irq_events, item, next, task>> PROVE UsedInv'
  BY <1>0 DEF UsedInv, Used
<1>1. ASSUME NEW t \in Task, SetWakeup(t) PROVE UsedInv'
  <2>1. PICK b \in 1..Blocks : task' = [task EXCEPT ![b] = t]
    BY <1>1, SetWakeupEffect
  <2>2. UNCHANGED <<irq_events, item, next>>
    BY <1>1 DEF SetWakeup
  <2>3. Used \subseteq Used'
    BY <2>1 DEF Used, TypeOK
  <2> QED
    BY <2>2, <2>3 DEF UsedInv
<1>2. CASE NoBlock
  BY <1>2, <1>0 DEF NoBlock, list
<1>3. CASE LoadNext
  <2>1. Used' = Used
    BY <1>3 DEF LoadNext, Used
  <2> QED
    BY <1>3, <2>1 DEF LoadNext, UsedInv, TypeOK
<1>4. CASE LinkHead
  <2>1. new_wait \in Used
    <3>1. pc.call = "link"
      BY <1>4, AtCall DEF LinkHead
    <3>2. new_wait \in 1..Blocks /\ task[new_wait] = setter /\ setter # NoTask
      BY <3>1 DEF CallInv
    <3> QED
      BY <3>2 DEF TypeOK, Used
  <2>2. Used' = Used
    BY <1>4 DEF LinkHead, Used
  <2> QED
    BY <1>4, <2>1, <2>2 DEF LinkHead, UsedInv
<1>5. CASE TaskSleep
  BY <1>5, <1>0 DEF TaskSleep, list
<1>6. CASE Irq
  <2>1. Used' = Used
    BY <1>6 DEF Irq, list, Used
  <2> QED
    BY <1>6, <2>1 DEF Irq, list, UsedInv
<1>7. CASE ResumeOne
  <2>1. Used' = Used /\ irq_events' = irq_events /\ next' = next
    BY <1>7 DEF ResumeOne, Used
  <2>2. item' \in {item, next[item]}
    BY <1>7 DEF ResumeOne
  <2>3. next[item] \in Used
    BY <1>7, ItemType DEF ResumeOne, UsedInv
  <2> QED
    BY <2>1, <2>2, <2>3 DEF UsedInv
<1>8. CASE IrqReturn
  <2>1. Used' = Used
    BY <1>8 DEF IrqReturn, Used
  <2> QED
    BY <1>8, <2>1 DEF IrqReturn, UsedInv, Used
<1>9. CASE UNCHANGED vars
  BY <1>9, <1>0 DEF vars, list
<1> QED
  BY <1>1, <1>2, <1>3, <1>4, <1>5, <1>6, <1>7, <1>8, <1>9 DEF Next, Calls, Handler

LEMMA CallStep == TypeOK /\ CallInv /\ [Next]_vars => CallInv'
<1> SUFFICES ASSUME TypeOK, CallInv, [Next]_vars PROVE CallInv'
  OBVIOUS
<1>0. ASSUME UNCHANGED <<irq_events, next, task, allocated, setter, new_wait, pc>>
      PROVE  CallInv'
  BY <1>0 DEF CallInv, Pending
<1>1. ASSUME NEW t \in Task, SetWakeup(t) PROVE CallInv'
  <2>1. PICK b \in 1..Blocks :
              /\ allocated' = allocated \cup {b}
              /\ task' = [task EXCEPT ![b] = t]
              /\ new_wait' = b
    BY <1>1, SetWakeupEffect
  <2>2. pc'.call = "load" /\ setter' = t /\ t # NoTask
    BY <1>1, AtCall, IrqWaitAssumption DEF SetWakeup
  <2>3. task'[b] = t
    BY <2>1 DEF TypeOK
  <2> QED
    BY <2>1, <2>2, <2>3 DEF CallInv, Pending
<1>2. CASE NoBlock
  BY <1>2, <1>0 DEF NoBlock, list
<1>3. CASE LoadNext
  <2>1. pc.call = "load" /\ ~pc.irq /\ pc'.call = "link"
    BY <1>3, AtCall DEF LoadNext
  <2>2. next'[new_wait] = irq_events
    BY <1>3, <2>1 DEF LoadNext, CallInv, TypeOK
  <2> QED
    BY <1>3, <2>1, <2>2 DEF LoadNext, CallInv, Pending
<1>4. CASE LinkHead
  <2>1. pc.call = "link" /\ pc'.call = "sleep"
    BY <1>4, AtCall DEF LinkHead
  <2> QED
    BY <1>4, <2>1 DEF LinkHead, CallInv, Pending
<1>5. CASE TaskSleep
  <2>1. pc'.call = "none" /\ setter' = NoTask
    BY <1>5, AtCall DEF TaskSleep
  <2> QED
    BY <2>1 DEF CallInv, Pending
<1>6. CASE Irq
  <2>1. pc'.irq /\ pc'.call = pc.call
    BY <1>6, AtIrq DEF Irq
  <2> QED
    BY <1>6, <2>1 DEF Irq, list, CallInv
<1>7. CASE ResumeOne
  BY <1>7 DEF ResumeOne, CallInv
<1>8. CASE IrqReturn
  <2>1. pc'.call = pc.call
    BY <1>8, AtIrq DEF IrqReturn
  <2> QED
    BY <1>8, <2>1 DEF IrqReturn, CallInv
<1>9. CASE UNCHANGED vars
  BY <1>9, <1>0 DEF vars, list
<1> QED
  BY <1>1, <1>2, <1>3, <1>4, <1>5, <1>6, <1>7, <1>8, <1>9 DEF Next, Calls, Handler

LEMMA LiveUsable == TypeOK => Live \subseteq Usable /\ Usable \subseteq 1..Blocks /\ 0 \notin Usable
<1> SUFFICES ASSUME TypeOK
             PROVE  Live \subseteq Usable /\ Usable \subseteq 1..Blocks /\ 0 \notin Usable
  OBVIOUS
<1>1. Usable \subseteq 1..Blocks
  BY DEF Usable, TypeOK
<1>2. 0 \notin 1..Blocks
  BY IrqWaitAssumption
<1> QED
  BY <1>1, <1>2, ChainSubset DEF Live

LEMMA WaiterStep == TypeOK /\ UsedInv /\ CallInv /\ WaiterInv /\ [Next]_vars => WaiterInv'
<1> SUFFICES ASSUME TypeOK, UsedInv, CallInv, WaiterInv, [Next]_vars PROVE WaiterInv'
  OBVIOUS
<1>a. Live \subseteq Usable /\ Usable \subseteq 1..Blocks /\ 0 \notin Usable
  BY LiveUsable
<1>0. ASSUME UNCHANGED <<irq_events, next, task, allocated, setter, new_wait, pc, item, waiting>>
      PROVE  WaiterInv'
  BY <1>0 DEF WaiterInv, Live, Usable, First, Pending
<1>1. ASSUME NEW t \in Task, SetWakeup(t) PROVE WaiterInv'
  <2>1. PICK b \in 1..Blocks :
              /\ b \notin allocated
              /\ allocated' = allocated \cup {b}
              /\ task' = [task EXCEPT ![b] = t]
              /\ new_wait' = b
    BY <1>1, SetWakeupEffect
  <2>2. /\ pc.call = "none" /\ ~pc.irq /\ pc'.call = "load" /\ ~pc'.irq
        /\ setter' = t /\ waiting' = waiting \cup {t}
        /\ UNCHANGED <<irq_events, next>>
    BY <1>1, AtCall DEF SetWakeup
  <2>3. Pending = {} /\ Pending' = {b}
    BY <2>1, <2>2 DEF Pending
  <2>4. Usable' = Usable /\ First' = First
    BY <2>1, <2>2, <2>3 DEF Usable, First
  <2>5. Live' = Live
    BY <2>2, <2>4 DEF Live
  <2> SUFFICES ASSUME NEW u \in waiting', u # t
               PROVE  \E c \in Live' : task'[c] = u
    BY <2>1, <2>2, <2>3 DEF WaiterInv
  <2>6. PICK c \in Live : task[c] = u
    BY <2>2, <2>3 DEF WaiterInv
  <2>7. c # b
    BY <1>a, <2>1 DEF Usable
  <2>8. task'[c] = u
    BY <1>a, <2>1, <2>6, <2>7 DEF TypeOK
  <2> QED
    BY <2>5, <2>8
<1>2. CASE NoBlock
  BY <1>2, <1>0 DEF NoBlock, list, history
<1>3. CASE LoadNext
  <2>1. pc.call = "load" /\ ~pc.irq /\ pc'.call = "link" /\ ~pc'.irq
    BY <1>3, AtCall DEF LoadNext
  <2>2. /\ UNCHANGED <<irq_events, task, allocated, setter, new_wait, waiting>>
        /\ next' = [next EXCEPT ![new_wait] = irq_events]
    BY <1>3 DEF LoadNext, history
  <2>3. Pending' = Pending /\ Pending = {new_wait}
    BY <2>1, <2>2 DEF Pending
  <2>4. Usable' = Usable /\ First' = First /\ new_wait \notin Usable
    BY <2>1, <2>2, <2>3 DEF Usable, First
  <2>5. \A d \in Live : next'[d] = next[d]
    BY <1>a, <2>2, <2>4 DEF TypeOK
  <2>6. Live' = Live
    BY <2>4, <2>5, ChainSame DEF Live
  <2> QED
    BY <2>2, <2>3, <2>6 DEF WaiterInv
<1>4. CASE LinkHead
  <2>1. pc.call = "link" /\ ~pc.irq /\ pc'.call = "sleep" /\ ~pc'.irq
    BY <1>4, AtCall DEF LinkHead
  <2>2. /\ UNCHANGED <<next, task, allocated, setter, new_wait, waiting>>
        /\ irq_events' = new_wait
    BY <1>4 DEF LinkHead, history
  <2>3. /\ Pending = {new_wait} /\ Pending' = {}
        /\ First = irq_events /\ First' = new_wait
        /\ Usable = allocated \ {new_wait} /\ Usable' = allocated
    BY <2>1, <2>2 DEF Pending, First, Usable
  <2> SUFFICES ASSUME NEW u \in waiting PROVE \E c \in Live' : task[c] = u
    BY <2>2 DEF WaiterInv
  <2>4. new_wait \in 1..Blocks /\ task[new_wait] = setter
    BY <2>1 DEF CallInv
  <2>5. CASE new_wait \in allocated
    <3>1. Live' = {new_wait} \cup Chain(next, allocated, next[new_wait])
      BY <2>2, <2>3, <2>5, ChainStep DEF Live
    <3>2. CASE u = setter
      BY <2>4, <3>1, <3>2
    <3>3. CASE u # setter
      <4>1. PICK c \in Live : task[c] = u
        BY <3>3 DEF WaiterInv
      <4>2. irq_events \in Usable
        BY <2>3, ChainOfNone DEF Live
      <4>3. next[new_wait] = irq_events
        BY <1>a, <2>1, <4>2 DEF CallInv
      <4>4. c \in Chain(next, allocated, next[new_wait])
        BY <2>3, <4>3, ChainMore DEF Live
      <4> QED
        BY <3>1, <4>1, <4>4
    <3> QED
      BY <3>2, <3>3
  <2>6. CASE new_wait \notin allocated
    <3>1. irq_events = 0
      BY <2>1, <2>3, <2>6 DEF CallInv
    <3>2. Live = {}
      BY <1>a, <2>3, <3>1, ChainOfNone DEF Live
    <3> QED
      BY <2>3, <2>6, <3>2 DEF WaiterInv
  <2> QED
    BY <2>5, <2>6
<1>5. CASE TaskSleep
  <2>1. pc.call = "sleep" /\ ~pc.irq /\ pc'.call = "none" /\ ~pc'.irq
    BY <1>5, AtCall DEF TaskSleep
  <2>2. UNCHANGED <<irq_events, next, task, allocated, waiting>>
    BY <1>5 DEF TaskSleep, list, history
  <2>3. Pending = {} /\ Pending' = {}
    BY <2>1 DEF Pending
  <2>4. Live' = Live
    BY <2>1, <2>2, <2>3 DEF Live, Usable, First
  <2> QED
    BY <2>2, <2>3, <2>4 DEF WaiterInv
<1>6. CASE Irq
  <2>1. pc'.irq /\ pc'.call = pc.call /\ ~pc.irq
    BY <1>6, AtIrq DEF Irq
  <2>2. UNCHANGED <<next, task, allocated, setter, new_wait, waiting>> /\ item' = irq_events
    BY <1>6 DEF Irq, list, history
  <2>3. Pending' = Pending /\ First' = First
    BY <2>1, <2>2 DEF Pending, First
  <2> QED
    BY <2>2, <2>3 DEF WaiterInv, Live, Usable
<1>7. CASE ResumeOne
  <2>1. item \in 1..Blocks /\ task[item] \in Task /\ pc.irq /\ item # 0
    BY <1>7, ItemType DEF ResumeOne
  <2>2. UNCHANGED <<irq_events, task, next, setter, new_wait, pc>>
    BY <1>7 DEF ResumeOne
  <2>3. CASE UNCHANGED <<state, item, allocated, history>>
    BY <1>0, <2>2, <2>3 DEF history
  <2>4. CASE /\ waiting' = waiting \ {task[item]}
             /\ item' = next[item]
             /\ allocated' = Flip(item)
    <3>1. First = item /\ First' = next[item] /\ Pending' = Pending
      BY <2>1, <2>2, <2>4 DEF First, Pending
    <3>2. Usable \ {item} \subseteq Usable'
      BY <2>4, <3>1 DEF Usable, Flip
    <3> SUFFICES ASSUME NEW u \in waiting, u # task[item]
                 PROVE  \/ u = setter /\ Pending # {} /\ Pending \subseteq allocated'
                        \/ \E c \in Live' : task[c] = u
      BY <2>2, <2>4, <3>1 DEF WaiterInv
    <3>3. CASE u = setter /\ Pending # {} /\ Pending \subseteq allocated
      <4>1. Pending = {new_wait} /\ task[new_wait] = setter
        BY <3>3 DEF Pending, CallInv
      <4>2. new_wait # item
        BY <3>3, <4>1
      <4> QED
        BY <2>4, <3>3, <4>1, <4>2 DEF Flip
    <3>4. CASE \E c \in Live : task[c] = u
      <4>1. PICK c \in Live : task[c] = u
        BY <3>4
      <4>2. item \in Usable
        BY <3>1, <4>1, ChainOfNone DEF Live
      <4>3. c # item
        BY <4>1
      <4>4. c \in Chain(next, Usable', next[item])
        BY <3>1, <3>2, <4>2, <4>3, ChainBehind DEF Live
      <4>5. c \in Live'
        BY <2>2, <3>1, <4>4 DEF Live
      <4> QED
        BY <4>1, <4>5
    <3> QED
      BY <3>3, <3>4 DEF WaiterInv
  <2> QED
    BY <1>7, <2>3, <2>4 DEF ResumeOne
<1>8. CASE IrqReturn
  <2>1. pc.irq /\ item = 0 /\ pc'.call = pc.call
    BY <1>8, AtIrq DEF IrqReturn
  <2>2. UNCHANGED <<task, next, allocated, setter, new_wait, waiting>>
    BY <1>8 DEF IrqReturn
  <2>3. Live = {}
    BY <1>a, <2>1, ChainOfNone DEF Live, First
  <2>4. Pending' = Pending
    BY <2>1, <2>2 DEF Pending
  <2> QED
    BY <2>2, <2>3, <2>4 DEF WaiterInv
<1>9. CASE UNCHANGED vars
  BY <1>9, <1>0 DEF vars, list, history
<1> QED
  BY <1>1, <1>2, <1>3, <1>4, <1>5, <1>6, <1>7, <1>8, <1>9 DEF Next, Calls, Handler

(* Before the race the list is one of waiting tasks.                        *)
LEMMA ItemsStep ==
    ASSUME TypeOK, NEW b \in 1..Blocks PROVE Items(b) = {b} \cup Items(next[b])
BY ChainStep DEF Items

LEMMA ListSame ==
    ASSUME UNCHANGED <<irq_events, task, next, allocated, setter, new_wait, item,
                       pc, waiting>>
    PROVE  /\ ListInv' = ListInv
           /\ Items(First)' = Items(First) /\ Pending' = Pending
BY DEF ListInv, Items, First, Pending

LEMMA CleanStep ==
    TypeOK /\ UsedInv /\ CallInv /\ WaiterInv /\ CleanInv /\ [Next]_vars => CleanInv'
<1> SUFFICES ASSUME TypeOK, UsedInv, CallInv, WaiterInv, CleanInv, [Next]_vars, ~raced'
             PROVE  ListInv' /\ SleepInv'
  BY DEF CleanInv
<1>0. ~raced
  <2>1. raced => raced'
    <3>1. CASE \E t \in Task : SetWakeup(t)
      BY <3>1 DEF SetWakeup
    <3>2. CASE Calls
      BY <3>2 DEF Calls, LoadNext, LinkHead, TaskSleep, history
    <3>3. CASE Irq \/ NoBlock \/ UNCHANGED vars
      BY <3>3 DEF Irq, NoBlock, vars, history
    <3>4. CASE ResumeOne
      BY <3>4 DEF ResumeOne, history
    <3>5. CASE IrqReturn
      BY <3>5 DEF IrqReturn
    <3> QED
      BY <3>1, <3>2, <3>3, <3>4, <3>5 DEF Next, Handler
  <2> QED
    BY <2>1
<1>a. ListInv /\ SleepInv
  BY <1>0 DEF CleanInv
<1>b. 0 \notin 1..Blocks
  BY IrqWaitAssumption
<1>c. \A b : Items(b) \subseteq 1..Blocks
  BY ChainSubset DEF Items
<1>1. ASSUME NEW t \in Task, SetWakeup(t) PROVE ListInv' /\ SleepInv'
  <2>1. PICK b \in 1..Blocks :
              /\ b \notin allocated
              /\ allocated' = allocated \cup {b}
              /\ task' = [task EXCEPT ![b] = t]
              /\ new_wait' = b
    BY <1>1, SetWakeupEffect
  <2>2. /\ pc.call = "none" /\ ~pc.irq /\ pc'.call = "load" /\ ~pc'.irq
        /\ setter' = t /\ waiting' = waiting \cup {t} /\ state[t] = "RUNNING"
        /\ setter = NoTask
        /\ UNCHANGED <<irq_events, next, state, panic, spurious>>
    BY <1>1, AtCall DEF SetWakeup, CallInv
  <2>3. Pending = {} /\ Pending' = {b} /\ First' = First
    BY <2>1, <2>2 DEF Pending, First
  <2>4. Items(First)' = Items(First)
    BY <2>2, <2>3 DEF Items
  <2>5. t # NoTask /\ t \notin waiting
    BY <1>a, <2>2, IrqWaitAssumption DEF SleepInv
  <2>6. b \notin Items(First)
    BY <1>a, <2>1 DEF ListInv
  <2>7. task'[b] = t /\ \A c \in Items(First) : task'[c] = task[c]
    BY <1>c, <2>1, <2>6 DEF TypeOK
  <2>8. \A c \in Items(First) : task[c] \in waiting
    BY <1>a DEF ListInv
  <2>9. \A c \in Items(First) : Items(next[c])' = Items(next[c])
    BY <2>2 DEF Items
  <2>10. ListInv'
    <3>1. /\ Items(First)' \subseteq allocated'
          /\ Pending' \subseteq allocated' \ Items(First)'
      BY <1>a, <2>1, <2>3, <2>4, <2>6 DEF ListInv
    <3>2. \A c \in Items(First) \cup {b} : task'[c] \in waiting'
      BY <2>2, <2>7, <2>8
    <3>3. \A c, d \in Items(First) \cup {b} : task'[c] = task'[d] => c = d
      <4>1. \A c, d \in Items(First) : task[c] = task[d] => c = d
        BY <1>a DEF ListInv
      <4> QED
        BY <4>1, <2>5, <2>7, <2>8
    <3>4. \A c \in Items(First)' : c \notin Items(next[c])'
      BY <1>a, <2>4, <2>9 DEF ListInv
    <3> QED
      BY <2>2, <2>3, <2>4, <3>1, <3>2, <3>3, <3>4 DEF ListInv
  <2>11. SleepInv'
    <3>1. \A u \in waiting : state[u] = "SLEEPING"
      BY <1>a, <2>2, IrqWaitAssumption DEF SleepInv, TypeOK
    <3> QED
      BY <1>a, <2>2, <2>5, <3>1 DEF SleepInv
  <2> QED
    BY <2>10, <2>11
<1>2. CASE NoBlock
  BY <1>2, <1>a, ListSame DEF NoBlock, list, history, SleepInv
<1>3. CASE LoadNext
  <2>1. pc.call = "load" /\ ~pc.irq /\ pc'.call = "link" /\ ~pc'.irq
    BY <1>3, AtCall DEF LoadNext
  <2>2. /\ UNCHANGED <<irq_events, task, allocated, state, setter, new_wait, panic, history>>
        /\ next' = [next EXCEPT ![new_wait] = irq_events]
    BY <1>3 DEF LoadNext
  <2>3. Pending' = Pending /\ Pending = {new_wait} /\ First' = First
    BY <2>1, <2>2 DEF Pending, First
  <2>4. new_wait \notin Items(First) /\ new_wait \in 1..Blocks
    BY <1>a, <2>1, <2>3 DEF ListInv, CallInv
  <2>5. \A d \in Items(First) : next'[d] = next[d]
    BY <1>c, <2>2, <2>4 DEF TypeOK
  <2>6. Items(First)' = Items(First)
    BY <2>3, <2>5, ChainSame DEF Items
  <2>7. \A d \in Items(First) : Items(next[d])' = Items(next[d])
    <3> SUFFICES ASSUME NEW d \in Items(First) PROVE Items(next[d])' = Items(next[d])
      OBVIOUS
    <3>1. Items(next[d]) \subseteq Items(First)
      BY ChainClosed, ChainPart DEF Items, Closed
    <3>2. Chain(next', 1..Blocks, next[d]) = Items(next[d])
      BY <2>5, <3>1, ChainSame DEF Items
    <3> QED
      BY <2>5, <3>2 DEF Items
  <2>8. next'[new_wait] = irq_events
    BY <2>2, <2>4 DEF TypeOK
  <2>9. ListInv'
    BY <1>a, <2>2, <2>3, <2>6, <2>7, <2>8 DEF ListInv, history
  <2> QED
    BY <1>a, <2>2, <2>9 DEF SleepInv, history
<1>4. CASE LinkHead
  <2>1. pc.call = "link" /\ ~pc.irq /\ pc'.call = "sleep" /\ ~pc'.irq
    BY <1>4, AtCall DEF LinkHead
  <2>2. /\ UNCHANGED <<next, task, allocated, state, setter, new_wait, panic, history>>
        /\ irq_events' = new_wait
    BY <1>4 DEF LinkHead
  <2>3. /\ Pending = {new_wait} /\ Pending' = {}
        /\ First = irq_events /\ First' = new_wait
    BY <2>1, <2>2 DEF Pending, First
  <2>4. new_wait \in 1..Blocks /\ next[new_wait] = irq_events
    BY <1>a, <2>1 DEF CallInv, ListInv
  <2>5. Items(First)' = Items(First) \cup Pending
    BY <2>2, <2>3, <2>4, ItemsStep DEF Items
  <2>6. \A d : Items(next[d])' = Items(next[d])
    BY <2>2 DEF Items
  <2>7. new_wait \notin Items(next[new_wait])
    BY <1>a, <2>3, <2>4 DEF ListInv
  <2>8. ListInv'
    <3>1. Items(First)' \subseteq allocated'
      BY <1>a, <2>2, <2>5 DEF ListInv
    <3>2. \A b \in Items(First)' : b \notin Items(next[b])'
      BY <1>a, <2>3, <2>5, <2>6, <2>7 DEF ListInv
    <3>3. Items(First)' \cup Pending' = Items(First) \cup Pending
      BY <2>3, <2>5
    <3> QED
      BY <1>a, <2>1, <2>2, <2>3, <3>1, <3>2, <3>3 DEF ListInv, history
  <2> QED
    BY <1>a, <2>2, <2>8 DEF SleepInv, history
<1>5. CASE TaskSleep
  <2>1. pc.call = "sleep" /\ ~pc.irq /\ pc'.call = "none" /\ ~pc'.irq
    BY <1>5, AtCall DEF TaskSleep
  <2>2. /\ UNCHANGED <<irq_events, next, task, allocated, waiting, panic, spurious>>
        /\ setter' = NoTask
        /\ state' = [state EXCEPT ![setter] =
                        IF @ = "WAKEN_BEFORE_SLEEP" THEN "RUNNING" ELSE "SLEEPING"]
    BY <1>5 DEF TaskSleep, list, history
  <2>3. Pending = {} /\ Pending' = {} /\ First' = First
    BY <2>1, <2>2 DEF Pending, First
  <2>4. \A b : Items(b)' = Chain(next, 1..Blocks, b')
    BY <2>2 DEF Items
  <2>5. Items(First)' = Items(First) /\ \A d : Items(next[d])' = Items(next[d])
    BY <2>2, <2>3 DEF Items
  <2>6. ListInv'
    BY <1>a, <2>1, <2>2, <2>3, <2>5 DEF ListInv
  <2>7. SleepInv'
    <3> SUFFICES ASSUME NEW u \in waiting PROVE state'[u] = "SLEEPING"
      BY <1>a, <2>2, IrqWaitAssumption DEF SleepInv, TypeOK
    <3>1. CASE u = setter
      BY <1>a, <2>2, <3>1 DEF SleepInv, TypeOK
    <3>2. CASE u # setter
      BY <1>a, <2>2, <3>2 DEF SleepInv, TypeOK
    <3> QED
      BY <3>1, <3>2
  <2> QED
    BY <2>6, <2>7
<1>6. CASE Irq
  <2>1. pc'.irq /\ pc'.call = pc.call /\ ~pc.irq
    BY <1>6, AtIrq DEF Irq
  <2>2. /\ UNCHANGED <<next, task, allocated, setter, new_wait, waiting, state, panic, spurious>>
        /\ item' = irq_events
    BY <1>6 DEF Irq, list, history
  <2>3. Pending' = Pending /\ First' = First
    BY <2>1, <2>2 DEF Pending, First
  <2>4. Items(First)' = Items(First) /\ \A d : Items(next[d])' = Items(next[d])
    BY <2>2, <2>3 DEF Items
  <2>5. ListInv'
    BY <1>a, <2>1, <2>2, <2>3, <2>4 DEF ListInv
  <2> QED
    BY <1>a, <2>2, <2>5 DEF SleepInv
<1>7. CASE ResumeOne
  <2>1. item \in 1..Blocks /\ task[item] \in Task /\ pc.irq /\ item # 0
    BY <1>7, ItemType DEF ResumeOne
  <2>2. UNCHANGED <<irq_events, task, next, setter, new_wait, pc>>
    BY <1>7 DEF ResumeOne
  <2>3. First = item /\ Items(First) = {item} \cup Items(next[item])
    BY <2>1, ItemsStep DEF First
  <2>4. item \notin Items(next[item]) /\ item \in Items(First) /\ task[item] \in waiting
    BY <1>a, <2>3 DEF ListInv
  <2>5. state[task[item]] # "WAKEN_BEFORE_SLEEP"
    BY <1>a, <2>4 DEF SleepInv
  <2>6. /\ state' = [state EXCEPT ![task[item]] = WokenState(@)]
        /\ waiting' = waiting \ {task[item]}
        /\ spurious' = spurious \cup ({task[item]} \ waiting)
        /\ item' = next[item]
        /\ allocated' = allocated \ {item}
        /\ UNCHANGED <<panic, raced>>
    <3>1. item \in allocated
      BY <1>a, <2>4 DEF ListInv
    <3> QED
      BY <1>7, <2>5, <3>1 DEF ResumeOne, Flip
  <2>7. Pending' = Pending /\ First' = next[item]
    BY <2>1, <2>2, <2>6 DEF Pending, First
  <2>8. Items(First)' = Items(next[item]) /\ \A d : Items(next[d])' = Items(next[d])
    BY <2>2, <2>7 DEF Items
  <2>9. item \notin Pending
    BY <1>a, <2>4 DEF ListInv
  <2>10. ListInv'
    <3>1. /\ Items(First)' \subseteq allocated'
          /\ Pending' \subseteq allocated' \ Items(First)'
      BY <1>a, <2>3, <2>4, <2>6, <2>7, <2>8, <2>9 DEF ListInv
    <3>2. \A b \in Items(First)' \cup Pending' : b \in Items(First) \cup Pending /\ b # item
      BY <2>3, <2>4, <2>7, <2>8, <2>9
    <3>3. \A b \in Items(First)' \cup Pending' : task'[b] \in waiting'
      BY <1>a, <2>2, <2>4, <2>6, <3>2 DEF ListInv
    <3>4. \A b, c \in Items(First)' \cup Pending' : task'[b] = task'[c] => b = c
      BY <1>a, <2>2, <3>2 DEF ListInv
    <3>5. \A b \in Items(First)' : b \notin Items(next[b])'
      BY <1>a, <2>8, <3>2, <2>3 DEF ListInv
    <3> QED
      BY <2>1, <2>2, <3>1, <3>3, <3>4, <3>5 DEF ListInv
  <2>11. SleepInv'
    <3>1. \A u \in waiting' : state'[u] = state[u]
      BY <2>1, <2>6 DEF TypeOK
    <3> QED
      BY <1>a, <2>2, <2>4, <2>6, <3>1 DEF SleepInv
  <2> QED
    BY <2>10, <2>11
<1>8. CASE IrqReturn
  <2>1. pc.irq /\ item = 0 /\ pc'.call = pc.call /\ ~pc'.irq /\ irq_events' = 0
    BY <1>8, AtIrq DEF IrqReturn
  <2>2. UNCHANGED <<task, next, allocated, setter, new_wait, waiting, state, panic, spurious>>
    BY <1>8 DEF IrqReturn
  <2>3. First = 0 /\ First' = 0 /\ Pending' = Pending
    BY <2>1, <2>2 DEF First, Pending
  <2>4. Items(First)' = Items(First) /\ \A d : Items(next[d])' = Items(next[d])
    BY <2>2, <2>3 DEF Items
  <2>5. pc.call = "link" => next[new_wait] = 0
    BY <1>8 DEF IrqReturn
  <2>6. ListInv'
    BY <1>a, <2>1, <2>2, <2>3, <2>4, <2>5 DEF ListInv
  <2> QED
    BY <1>a, <2>2, <2>6 DEF SleepInv
<1>9. CASE UNCHANGED vars
  BY <1>9, <1>a, ListSame DEF vars, list, history, SleepInv
<1> QED
  BY <1>1, <1>2, <1>3, <1>4, <1>5, <1>6, <1>7, <1>8, <1>9 DEF Next, Calls, Handler

-----------------------------------------------------------------------------
LEMMA Invariance == Spec => []IInv
<1>1. IInv /\ [Next]_vars => IInv'
  BY TypeStep, UsedStep, CallStep, WaiterStep, CleanStep DEF IInv
<1> QED
  BY <1>1, InitIInv, PTL DEF Spec

(* Every variable keeps its type, also when the race has spoilt the list:   *)
(* what irq_resume_waiting_tasks wakes is always a task.                    *)
THEOREM TypeCorrect == Spec => []TypeOK
<1>1. IInv => TypeOK
  BY DEF IInv
<1> QED
  BY <1>1, Invariance, PTL

(* irq_set_wakeup loses nobody, not even in the race that leaves freed      *)
(* items on the list.                                                       *)
THEOREM NobodyLost == Spec => []NoWaiterLost
<1>1. IInv => NoWaiterLost
  <2> SUFFICES ASSUME IInv, NEW t \in waiting,
                      ~(t = setter /\ pc.call \in {"load", "link"})
               PROVE  \E b \in Items(First) : task[b] = t
    BY DEF NoWaiterLost, First
  <2>1. PICK b \in Live : task[b] = t
    BY DEF IInv, WaiterInv, Pending
  <2>2. Usable \subseteq 1..Blocks
    BY LiveUsable DEF IInv
  <2>3. b \in Items(First)
    BY <2>2, ChainMore DEF Live, Items
  <2> QED
    BY <2>1, <2>3
<1> QED
  BY <1>1, Invariance, PTL

(* Until an interrupt falls between irq_set_wakeup's read and write of the  *)
(* head, the list is a set of waiting tasks.                                *)
THEOREM ListCleanUntilRace == Spec => []OnlyRaceBreaksList
<1>1. IInv => OnlyRaceBreaksList
  <2> SUFFICES ASSUME IInv, ~raced
               PROVE  /\ Items(irq_events) \subseteq
                            IF pc.irq THEN 1..Blocks ELSE allocated
                      /\ spurious = {}
                      /\ panic # "second_wakeup"
    BY DEF OnlyRaceBreaksList
  <2>1. ListInv /\ SleepInv
    BY DEF IInv, CleanInv
  <2>2. Items(irq_events) \subseteq 1..Blocks
    BY ChainSubset DEF Items
  <2> QED
    BY <2>1, <2>2 DEF ListInv, SleepInv, First
<1> QED
  BY <1>1, Invariance, PTL
=============================================================================

----------------------------- MODULE TaskProofs -----------------------------
(***************************************************************************)
(* Theorems about module Task, for any number of tasks, segments and       *)
(* stacks.                                                                 *)
(***************************************************************************)
EXTENDS Task, TLAPS, SequenceTheorems, FiniteSetTheorems

Listed == {task_list[i] : i \in DOMAIN task_list}

SleepCalls == {"sys_sleep", "irq_wait", "sys_wait_for_task"}

(* t is awaited by an event: it sleeps, or it is the current task on its    *)
(* way to sleep with the event still to come.                               *)
Awaits(t) ==
    \/ state[t] = "SLEEPING"
    \/ /\ state[t] = "RUNNING"
       /\ t = current_task
       /\ cpu \in {"task_sleep", "second_test", "store"}

-----------------------------------------------------------------------------
(* The inductive invariant *)

(* The task in hand is in the list, and so is where the search stands.      *)
CurrentInv ==
    /\ current_task \in Listed
    /\ new_task \in Listed

(* What the current task can be in each part of the kernel, and what the    *)
(* others can be.  WAKEN_BEFORE_SLEEP is left by task_sleep except when the *)
(* wakeup came between its two tests.                                       *)
CpuInv ==
    /\ cpu = "user" => state[current_task] = "RUNNING"
    /\ cpu \in {"task_sleep", "second_test", "store"} =>
           state[current_task] \in {"RUNNING", "WAKEN_BEFORE_SLEEP"}
    /\ cpu \in {"schedule", "before_hlt", "hlt"} =>
           state[current_task] \in {"RUNNING", "SLEEPING", "EXITED",
                                    "WAKEN_BEFORE_SLEEP"}
    /\ cpu \in {"second_test", "schedule", "before_hlt", "hlt"} =>
           (state[current_task] = "WAKEN_BEFORE_SLEEP" =>
                current_task \in stranded)
    /\ \A t \in Task : t # current_task =>
           (state[t] = "WAKEN_BEFORE_SLEEP" => t \in stranded)

(* Each kind of event belongs to the call that waits for it.  Only one task *)
(* can end the wait for a task.                                             *)
EventInv ==
    /\ \A t \in alarms : at[t] = "sys_sleep" /\ Awaits(t)
    /\ \A t \in irq_waits : at[t] = "irq_wait" /\ Awaits(t)
    /\ \A u, t \in Task : Live(u) /\ waiter[u] = t =>
           at[t] = "sys_wait_for_task" /\ Awaits(t)
    /\ \A u, v, t \in Task :
           Live(u) /\ Live(v) /\ waiter[u] = t /\ waiter[v] = t => u = v

HasAlarmOrWait(t) ==
    /\ at[t] = "sys_sleep" => t \in alarms \/ t \in lost
    /\ at[t] = "irq_wait" => t \in irq_waits \/ t \in lost

WakeupInv ==
    /\ \A t \in Task : state[t] = "SLEEPING" => HasAlarmOrWait(t)
    /\ cpu \in {"task_sleep", "second_test"} /\ state[current_task] = "RUNNING"
           => HasAlarmOrWait(current_task)
    /\ cpu = "store" => HasAlarmOrWait(current_task)

IInv ==
    /\ TypeOK
    /\ CurrentInv
    /\ CpuInv
    /\ EventInv
    /\ WakeupInv
    /\ NoProtocolPanic

(* Segments: the list holds the tasks that were ever made, the bitmap the   *)
(* segments of the live ones, and no task further up the list has the       *)
(* segment of a live one.                                                   *)
SegmentInv ==
    /\ \A t \in Task : state[t] # "UNUSED" <=> t \in Listed
    /\ panic = NoPanic =>
           segment_bitmap = {segment[t] : t \in {u \in Task : Live(u)}}
    /\ \A i, j \in DOMAIN task_list :
           Live(task_list[i]) /\ j < i =>
               segment[task_list[j]] # segment[task_list[i]]

-----------------------------------------------------------------------------
(* Lemmas about the operators *)

(* The task that follows a task of the list is in the list.                 *)
LEMMA NextTaskListed ==
    ASSUME TypeOK, NEW t \in Listed
    PROVE  NextTask(t) \in Listed
<1>1. PICK i \in DOMAIN task_list : task_list[i] = t
  BY DEF Listed
<1>2. Place(t) \in DOMAIN task_list
  BY <1>1 DEF Place
<1>3. /\ Len(task_list) \in Nat
      /\ DOMAIN task_list = 1..Len(task_list)
  BY LenProperties DEF TypeOK
<1>4. CASE IsLast(t)
  <2>1. 1 \in DOMAIN task_list
    BY <1>2, <1>3
  <2>2. NextTask(t) = task_list[1]
    BY <1>4 DEF NextTask
  <2> QED
    BY <2>1, <2>2 DEF Listed
<1>5. CASE ~IsLast(t)
  <2>1. Place(t) + 1 \in DOMAIN task_list
    BY <1>2, <1>3, <1>5 DEF IsLast
  <2> QED
    BY <1>5, <2>1 DEF NextTask, Listed
<1> QED
  BY <1>4, <1>5

LEMMA ListedIsTask == ASSUME TypeOK PROVE Listed \subseteq Task
<1> SUFFICES ASSUME NEW i \in DOMAIN task_list PROVE task_list[i] \in Task
  BY DEF Listed
<1>1. task_list \in [1..Len(task_list) -> Task]
  BY LenProperties DEF TypeOK
<1> QED
  BY <1>1

(* A set of segments with a member has a least one.                         *)
LEMMA LeastSegment ==
    ASSUME NEW S \in SUBSET (1..Segments), S # {}
    PROVE  \E s \in S : \A r \in S : s <= r
<1> DEFINE Down(s) == {r \in S : r <= s}
           Downs == {Down(s) : s \in S}
           Order == StrictSubsetOrdering(S)
<1>1. Segments \in Nat
  BY TaskAssumption
<1>2. IsFiniteSet(S)
  <2>1. IsFiniteSet(1..Segments)
    BY <1>1, FS_Interval
  <2> QED
    BY <2>1, FS_Subset
<1>3. \A s \in S : Down(s) \in FiniteSubsetsOf(S)
  <2> TAKE s \in S
  <2>1. Down(s) \in SUBSET S
    OBVIOUS
  <2>2. IsFiniteSet(Down(s))
    BY <1>2, <2>1, FS_Subset
  <2> QED
    BY <2>1, <2>2 DEF FiniteSubsetsOf
<1>4. Downs \subseteq FiniteSubsetsOf(S) /\ Downs # {}
  BY <1>3
<1>5. PICK D \in Downs : \A E \in Downs : ~(<<E, D>> \in Order)
  <2> HIDE DEF Downs, Order
  <2>1. IsWellFoundedOn(Order, FiniteSubsetsOf(S))
    BY FS_StrictSubsetOrderingWellFounded DEF Order
  <2> QED
    BY <1>4, <2>1, WFMin
<1>6. PICK s \in S : D = Down(s)
  OBVIOUS
<1>7. \A r \in S : s <= r
  <2> SUFFICES ASSUME NEW r \in S, r < s PROVE FALSE
    BY <1>1
  <2>1. Down(r) \subseteq Down(s) /\ Down(r) # Down(s)
    <3>1. s \in Down(s) /\ s \notin Down(r)
      BY <1>1
    <3>2. \A q \in S : q <= r => q <= s
      BY <1>1
    <3> QED
      BY <3>1, <3>2
  <2>2. <<Down(r), D>> \in Order
    BY <1>6, <2>1 DEF StrictSubsetOrdering
  <2> QED
    BY <1>5, <2>2
<1> QED
  BY <1>7

(* allocate_segment hands out a segment that is not in use.                 *)
LEMMA FreeSegmentFree ==
    ASSUME TypeOK, ~NoSegment
    PROVE  FreeSegment \in (1..Segments) \ segment_bitmap
<1> DEFINE Free == (1..Segments) \ segment_bitmap
<1>1. Free # {}
  BY DEF TypeOK, NoSegment
<1>2. \E s \in Free : \A r \in Free : s <= r
  BY <1>1, LeastSegment
<1> QED
  BY <1>2 DEF FreeSegment

-----------------------------------------------------------------------------
(* Type correctness *)

LEMMA InitIInv == Init => IInv
<1> SUFFICES ASSUME Init PROVE IInv
  OBVIOUS
<1> USE TaskAssumption DEF Init
<1>1. Listed = {Boot}
  BY DEF Listed
<1>2. TypeOK
  <2>1. looped \in 0..LoopedBound
    BY DEF LoopedBound
  <2>2. task_list \in Seq(Task)
    OBVIOUS
  <2>3. state \in [Task -> {"UNUSED", "RUNNING"}]
    OBVIOUS
  <2>4. /\ segment \in [Task -> 0..Segments]
        /\ segment_bitmap \subseteq 1..Segments
    OBVIOUS
  <2> QED
    BY <2>1, <2>2, <2>3, <2>4 DEF TypeOK, NoPanic
<1>3. CurrentInv /\ CpuInv
  BY <1>1 DEF CurrentInv, CpuInv
<1>4. EventInv /\ WakeupInv
  BY DEF EventInv, WakeupInv
<1>5. NoProtocolPanic
  BY DEF NoProtocolPanic, NoPanic
<1> QED
  BY <1>2, <1>3, <1>4, <1>5 DEF IInv

LEMMA TypeStep == TypeOK /\ CurrentInv /\ [Next]_vars => TypeOK'
<1> SUFFICES ASSUME TypeOK, CurrentInv, [Next]_vars PROVE TypeOK'
  OBVIOUS
<1> USE TaskAssumption DEF memory, sched, events, woken
<1>a. looped \in 0..LoopedBound
  BY DEF TypeOK
<1>b. 0 \in 0..LoopedBound
  BY DEF LoopedBound
<1>1. CASE TaskSleep
  BY <1>1, <1>b DEF TaskSleep, StartSchedule, TypeOK
<1>16. CASE TaskSleepTest
  BY <1>16, <1>b DEF TaskSleepTest, StartSchedule, TypeOK
<1>2. CASE TaskSleepStore
  BY <1>2, <1>b DEF TaskSleepStore, StartSchedule, TypeOK
<1>3. CASE TaskSchedule
  <2>1. NextTask(new_task) \in Task
    BY NextTaskListed, ListedIsTask DEF CurrentInv
  <2>2. looped' \in 0..LoopedBound
    <3>1. looped' = IF IsLast(new_task) /\ looped < LoopedBound
                    THEN looped + 1 ELSE looped
      BY <1>3 DEF TaskSchedule
    <3> QED
      BY <3>1, <1>a DEF LoopedBound
  <2> QED
    BY <1>3, <2>1, <2>2 DEF TaskSchedule, TypeOK
<1>4. CASE Hlt
  BY <1>4 DEF Hlt, TypeOK
<1>5. CASE SysSleep
  BY <1>5 DEF SysSleep, Enter, InUserCall, TypeOK
<1>6. CASE IrqWait
  BY <1>6 DEF IrqWait, Enter, InUserCall, TypeOK
<1>7. ASSUME NEW s \in 1..Segments, SysWaitForTask(s) PROVE TypeOK'
  BY <1>7 DEF SysWaitForTask, Enter, InUserCall, TypeOK
<1>8. ASSUME NEW child \in Task, Fork(child) PROVE TypeOK'
  <2>1. FreeSegment \in 1..Segments
    BY <1>8, FreeSegmentFree DEF Fork
  <2>2. task_list' \in Seq(Task)
    <3>1. <<child>> \in Seq(Task)
      OBVIOUS
    <3> QED
      BY <1>8, <3>1, ConcatProperties DEF Fork, TypeOK
  <2> QED
    BY <1>8, <2>1, <2>2 DEF Fork, InUserCall, TypeOK
<1>9. CASE ForkFails
  BY <1>9 DEF ForkFails, TypeOK
<1>10. CASE SysExit
  BY <1>10 DEF SysExit, InUserCall, TypeOK
<1>11. ASSUME NEW has_handles \in BOOLEAN, TaskExit(has_handles) PROVE TypeOK'
  <2>1. /\ state' \in [Task -> {"UNUSED", "RUNNING", "SLEEPING",
                               "WAKEN_BEFORE_SLEEP", "EXITED"}]
        /\ at' \in [Task -> {"user", "sys_sleep", "irq_wait",
                            "sys_wait_for_task", "task_exit", "crt0_loop"}]
        /\ cpu' \in {"user", "schedule"}
    <3>1. CASE has_handles
      <4>1. state' \in [Task -> {"UNUSED", "RUNNING", "SLEEPING",
                               "WAKEN_BEFORE_SLEEP", "EXITED"}]
        <5>1. \A t \in Task : WokenState(state[t]) \in
                {"UNUSED", "RUNNING", "SLEEPING", "WAKEN_BEFORE_SLEEP", "EXITED"}
          BY DEF WokenState, TypeOK
        <5>2. state' = [t \in Task |->
                  IF t = current_task THEN "EXITED"
                  ELSE IF t = waiter[current_task]
                       THEN WokenState(state[t]) ELSE state[t]]
          BY <1>11, <3>1 DEF TaskExit
        <5>3. \A t \in Task : state[t] \in
                {"UNUSED", "RUNNING", "SLEEPING", "WAKEN_BEFORE_SLEEP", "EXITED"}
          BY DEF TypeOK
        <5> QED
          BY <5>1, <5>2, <5>3
      <4> QED
        BY <1>11, <3>1, <4>1 DEF TaskExit, StartSchedule, TypeOK
    <3>2. CASE ~has_handles
      BY <1>11, <3>2 DEF TaskExit, InUserCall, TypeOK
    <3> QED
      BY <3>1, <3>2
  <2>2. looped' \in 0..LoopedBound
    BY <1>11, <1>a, <1>b DEF TaskExit, StartSchedule
  <2> QED
    BY <1>11, <2>1, <2>2 DEF TaskExit, StartSchedule, TypeOK
<1>12. ASSUME NEW W \in SUBSET alarms, ClockTick(W) PROVE TypeOK'
  BY <1>12 DEF ClockTick, TaskWakeup, WokenState, EndHlt, TypeOK
<1>13. CASE DeviceIrq
  BY <1>13 DEF DeviceIrq, TaskWakeup, WokenState, EndHlt, TypeOK
<1>14. CASE IrqOnExitedTask
  BY <1>14 DEF IrqOnExitedTask, TypeOK
<1>15. CASE UNCHANGED vars
  BY <1>15 DEF vars, TypeOK
<1> QED
  BY <1>1, <1>2, <1>3, <1>4, <1>5, <1>6, <1>7, <1>8, <1>9, <1>10, <1>11,
     <1>12, <1>13, <1>14, <1>15, <1>16 DEF Next, Kernel, Program, Interrupt

(* The list only grows, so what was listed stays so.                        *)
LEMMA ListedGrows ==
    ASSUME TypeOK, [Next]_vars
    PROVE  Listed \subseteq Listed'
<1>1. CASE \E child \in Task : Fork(child)
  <2>1. PICK child \in Task : Fork(child)
    BY <1>1
  <2>2. /\ Len(task_list') = Len(task_list) + 1
        /\ \A i \in 1..Len(task_list') :
               task_list'[i] = IF i <= 1 THEN child ELSE task_list[i - 1]
        /\ DOMAIN task_list' = 1..Len(task_list')
        /\ DOMAIN task_list = 1..Len(task_list)
        /\ Len(task_list) \in Nat
    <3>1. <<child>> \in Seq(Task) /\ Len(<<child>>) = 1 /\ <<child>>[1] = child
      OBVIOUS
    <3>2. task_list' = <<child>> \o task_list /\ task_list \in Seq(Task)
      BY <2>1 DEF Fork, TypeOK
    <3>3. task_list' \in Seq(Task)
      BY <3>1, <3>2, ConcatProperties
    <3> QED
      BY <3>1, <3>2, <3>3, ConcatProperties, LenProperties
  <2>3. \A i \in DOMAIN task_list :
            i + 1 \in DOMAIN task_list' /\ task_list'[i + 1] = task_list[i]
    BY <2>2
  <2> QED
    BY <2>3 DEF Listed
<1>2. CASE ~\E child \in Task : Fork(child)
  <2>1. UNCHANGED task_list
    BY <1>2 DEF Next, Kernel, Program, Interrupt, vars, memory, TaskSleep,
           TaskSleepTest, TaskSleepStore, TaskSchedule, Hlt, SysSleep, IrqWait,
           SysWaitForTask, ForkFails, SysExit, TaskExit, ClockTick, DeviceIrq,
           IrqOnExitedTask
  <2> QED
    BY <2>1 DEF Listed
<1> QED
  BY <1>1, <1>2

LEMMA CurrentStep == TypeOK /\ CurrentInv /\ [Next]_vars => CurrentInv'
<1> SUFFICES ASSUME TypeOK, CurrentInv, [Next]_vars PROVE CurrentInv'
  OBVIOUS
<1>1. Listed \subseteq Listed'
  BY ListedGrows
<1>2. CASE TaskSchedule
  BY <1>1, <1>2, NextTaskListed DEF TaskSchedule, CurrentInv
<1>3. CASE ~TaskSchedule
  <2>1. UNCHANGED current_task /\ new_task' \in {new_task, current_task}
    BY <1>3 DEF Next, Kernel, Program, Interrupt, vars, sched, TaskSleep,
           TaskSleepTest, TaskSleepStore, Hlt, SysSleep, IrqWait, SysWaitForTask, Fork,
           ForkFails, SysExit, TaskExit, ClockTick, DeviceIrq,
           IrqOnExitedTask, StartSchedule
  <2> QED
    BY <1>1, <2>1 DEF CurrentInv
<1> QED
  BY <1>2, <1>3

-----------------------------------------------------------------------------
(* The sleep/wakeup protocol *)

(* What an interrupt that wakes the tasks of W does, when each one awaits.  *)
LEMMA TaskWakeupEffect ==
    ASSUME TypeOK, NEW W \in SUBSET Task, \A t \in W : Awaits(t), TaskWakeup(W)
    PROVE  /\ \A t \in Task \ W : state'[t] = state[t]
           /\ \A t \in W : state[t] = "SLEEPING" => state'[t] = "RUNNING"
           /\ \A t \in W : state[t] = "RUNNING" =>
                  state'[t] = "WAKEN_BEFORE_SLEEP"
           /\ panic' = panic
           /\ \A t \in W : t = current_task /\ cpu = "store" => t \in lost'
           /\ lost \subseteq lost'
           /\ \A t \in W : t = current_task /\ cpu = "second_test" =>
                  t \in stranded'
           /\ stranded \subseteq stranded'
<1>1. /\ WokenState("RUNNING") = "WAKEN_BEFORE_SLEEP"
      /\ WokenState("SLEEPING") = "RUNNING"
  BY DEF WokenState
<1>2. state' = [t \in Task |-> IF t \in W THEN WokenState(state[t])
                                          ELSE state[t]]
  BY DEF TaskWakeup
<1>3. \A t \in W : state[t] \in {"RUNNING", "SLEEPING"}
  BY DEF Awaits
<1>4. panic' = panic
  BY <1>3 DEF TaskWakeup
<1>5. /\ \A t \in W : t = current_task /\ cpu = "store" => t \in lost'
      /\ lost \subseteq lost'
      /\ \A t \in W : t = current_task /\ cpu = "second_test" => t \in stranded'
      /\ stranded \subseteq stranded'
  BY DEF TaskWakeup
<1> QED
  BY <1>1, <1>2, <1>4, <1>5

(* What task_exit does, when the task that waits for it sleeps.             *)
LEMMA TaskExitEffect ==
    ASSUME TypeOK, CpuInv, EventInv, TaskExit(TRUE)
    PROVE  /\ state'[current_task] = "EXITED"
           /\ waiter[current_task] # NoTask =>
                  /\ waiter[current_task] # current_task
                  /\ state[waiter[current_task]] = "SLEEPING"
                  /\ state'[waiter[current_task]] = "RUNNING"
           /\ \A t \in Task : t \notin {current_task, waiter[current_task]}
                  => state'[t] = state[t]
           /\ panic' = panic
<1> DEFINE w == waiter[current_task]
<1>1. state' = [t \in Task |->
          IF t = current_task THEN "EXITED"
          ELSE IF t = w THEN WokenState(state[t]) ELSE state[t]]
  BY DEF TaskExit
<1>2. cpu = "user" /\ at[current_task] = "user" /\ current_task \in Task
  BY DEF TaskExit, InUserCall, TypeOK
<1>3. w # NoTask => w \in Task /\ w # current_task /\ state[w] = "SLEEPING"
  <2> SUFFICES ASSUME w # NoTask
               PROVE  w \in Task /\ w # current_task /\ state[w] = "SLEEPING"
    OBVIOUS
  <2>1. Live(current_task)
    BY <1>2 DEF CpuInv, Live
  <2>3. w \in Task
    BY <1>2 DEF TypeOK
  <2>2. at[w] = "sys_wait_for_task" /\ Awaits(w)
    BY <1>2, <2>1, <2>3 DEF EventInv
  <2> QED
    BY <1>2, <2>2, <2>3 DEF Awaits
<1>4. WokenState("SLEEPING") = "RUNNING"
  BY DEF WokenState
<1>5. panic' = panic
  <2>1. panic' = IF w = NoTask THEN panic
                 ELSE IF w = current_task \/ state[w] = "EXITED"
                 THEN "wakeup on exited"
                 ELSE IF state[w] = "WAKEN_BEFORE_SLEEP"
                 THEN "second wakeup" ELSE panic
    BY DEF TaskExit
  <2> QED
    BY <1>3, <2>1
<1> QED
  BY <1>1, <1>2, <1>3, <1>4, <1>5

LEMMA CpuStep == IInv /\ [Next]_vars => CpuInv'
<1> SUFFICES ASSUME IInv, [Next]_vars PROVE CpuInv'
  OBVIOUS
<1> USE DEF memory, sched, events, woken
<1>a. TypeOK /\ CpuInv /\ EventInv
  BY DEF IInv
<1>b. /\ state \in [Task -> {"UNUSED", "RUNNING", "SLEEPING",
                             "WAKEN_BEFORE_SLEEP", "EXITED"}]
      /\ current_task \in Task
  BY <1>a DEF TypeOK
<1>c. alarms \subseteq Task /\ irq_waits \subseteq Task
  BY <1>a DEF TypeOK
<1>1. CASE TaskSleep
  BY <1>1, <1>a, <1>b DEF TaskSleep, StartSchedule, CpuInv
<1>17. CASE TaskSleepTest
  BY <1>17, <1>a, <1>b DEF TaskSleepTest, StartSchedule, CpuInv
<1>2. CASE TaskSleepStore
  BY <1>2, <1>a, <1>b DEF TaskSleepStore, StartSchedule, CpuInv
<1>3. CASE TaskSchedule
  BY <1>3, <1>a, <1>b DEF TaskSchedule, CpuInv
<1>4. CASE Hlt
  BY <1>4, <1>a DEF Hlt, CpuInv
<1>5. CASE SysSleep
  BY <1>5, <1>a DEF SysSleep, Enter, InUserCall, CpuInv
<1>6. CASE IrqWait
  BY <1>6, <1>a DEF IrqWait, Enter, InUserCall, CpuInv
<1>7. ASSUME NEW s \in 1..Segments, SysWaitForTask(s) PROVE CpuInv'
  BY <1>7, <1>a DEF SysWaitForTask, Enter, InUserCall, CpuInv
<1>8. ASSUME NEW child \in Task, Fork(child) PROVE CpuInv'
  BY <1>8, <1>a, <1>b DEF Fork, InUserCall, CpuInv
<1>9. CASE ForkFails
  BY <1>9, <1>a DEF ForkFails, CpuInv
<1>10. CASE SysExit
  BY <1>10, <1>a DEF SysExit, CpuInv
<1>11. ASSUME NEW has_handles \in BOOLEAN, TaskExit(has_handles) PROVE CpuInv'
  <2>1. CASE has_handles
    <3>1. TaskExit(TRUE)
      BY <1>11, <2>1
    <3>2. cpu' = "schedule" /\ UNCHANGED <<current_task, stranded>>
      BY <3>1 DEF TaskExit, StartSchedule
    <3>3. state'[current_task] = "EXITED"
      BY <1>a, <3>1, TaskExitEffect
    <3>4. \A t \in Task : t # current_task =>
              state'[t] \in {state[t], "RUNNING"}
      <4> SUFFICES ASSUME NEW t \in Task, t # current_task
                   PROVE  state'[t] \in {state[t], "RUNNING"}
        OBVIOUS
      <4>1. CASE t = waiter[current_task]
        <5>1. t # NoTask
          BY TaskAssumption
        <5> QED
          BY <1>a, <3>1, <4>1, <5>1, TaskExitEffect
      <4>2. CASE t # waiter[current_task]
        BY <1>a, <3>1, <4>2, TaskExitEffect
      <4> QED
        BY <4>1, <4>2
    <3> QED
      BY <1>a, <3>2, <3>3, <3>4 DEF CpuInv
  <2>2. CASE ~has_handles
    BY <1>11, <2>2, <1>a DEF TaskExit, CpuInv
  <2> QED
    BY <2>1, <2>2
<1>12. ASSUME NEW W \in SUBSET Task, TaskWakeup(W), \A t \in W : Awaits(t),
              EndHlt, current_task' = current_task
       PROVE  CpuInv'
  <2>1. /\ \A t \in Task \ W : state'[t] = state[t]
        /\ \A t \in W : state[t] = "SLEEPING" => state'[t] = "RUNNING"
        /\ \A t \in W : state[t] = "RUNNING" =>
               state'[t] = "WAKEN_BEFORE_SLEEP"
        /\ \A t \in W : t = current_task /\ cpu = "second_test" =>
               t \in stranded'
        /\ stranded \subseteq stranded'
    BY <1>12, <1>a, TaskWakeupEffect
  <2> QED
    BY <1>12, <1>a, <1>b, <2>1 DEF EndHlt, Awaits, CpuInv
<1>13. ASSUME NEW W \in SUBSET alarms, ClockTick(W) PROVE CpuInv'
  <2>1. W \in SUBSET Task /\ \A t \in W : Awaits(t)
    BY <1>a, <1>c DEF EventInv
  <2> QED
    BY <1>13, <2>1, <1>12 DEF ClockTick
<1>14. CASE DeviceIrq
  <2>1. irq_waits \in SUBSET Task /\ \A t \in irq_waits : Awaits(t)
    BY <1>a, <1>c DEF EventInv
  <2> QED
    BY <1>14, <2>1, <1>12 DEF DeviceIrq
<1>15. CASE IrqOnExitedTask
  BY <1>15, <1>a DEF IrqOnExitedTask, CpuInv
<1>16. CASE UNCHANGED vars
  BY <1>16, <1>a DEF vars, CpuInv
<1> QED
  BY <1>1, <1>2, <1>3, <1>4, <1>5, <1>6, <1>7, <1>8, <1>9, <1>10, <1>11,
     <1>13, <1>14, <1>15, <1>16, <1>17 DEF Next, Kernel, Program, Interrupt

LEMMA EventStep == IInv /\ [Next]_vars => EventInv'
<1> SUFFICES ASSUME IInv, [Next]_vars PROVE EventInv'
  OBVIOUS
<1> USE TaskAssumption DEF memory, sched, events, woken
<1>a. TypeOK /\ CpuInv /\ EventInv
  BY DEF IInv
<1>b. /\ state \in [Task -> {"UNUSED", "RUNNING", "SLEEPING",
                             "WAKEN_BEFORE_SLEEP", "EXITED"}]
      /\ at \in [Task -> {"user", "sys_sleep", "irq_wait",
                          "sys_wait_for_task", "task_exit", "crt0_loop"}]
      /\ current_task \in Task
      /\ waiter \in [Task -> Task \cup {NoTask}]
      /\ alarms \subseteq Task
      /\ irq_waits \subseteq Task
  BY <1>a DEF TypeOK
<1>1. CASE TaskSleep
  <2>1. CASE state[current_task] = "WAKEN_BEFORE_SLEEP"
    <3>1. \A t \in Task : Live(t)' <=> Live(t)
      BY <1>1, <1>b, <2>1 DEF TaskSleep, Live
    <3>2. \A t \in Task : Awaits(t) => Awaits(t)'
      BY <1>1, <1>b, <2>1 DEF TaskSleep, Awaits
    <3> QED
      BY <1>1, <1>a, <1>b, <3>1, <3>2 DEF TaskSleep, EventInv
  <2>2. CASE state[current_task] # "WAKEN_BEFORE_SLEEP"
    <3>1. \A t \in Task : Awaits(t) => Awaits(t)'
      BY <1>1, <1>b, <2>2 DEF TaskSleep, Awaits
    <3> QED
      BY <1>1, <1>a, <1>b, <2>2, <3>1 DEF TaskSleep, EventInv, Live
  <2> QED
    BY <2>1, <2>2
<1>17. CASE TaskSleepTest
  <2>1. \A t \in Task : Awaits(t) => Awaits(t)'
    BY <1>17, <1>b DEF TaskSleepTest, Awaits
  <2> QED
    BY <1>17, <1>a, <1>b, <2>1 DEF TaskSleepTest, EventInv, Live
<1>2. CASE TaskSleepStore
  <2>1. \A t \in Task : Live(t)' <=> Live(t)
    BY <1>2, <1>a, <1>b DEF TaskSleepStore, Live, CpuInv
  <2>2. \A t \in Task : Awaits(t) => Awaits(t)'
    BY <1>2, <1>b DEF TaskSleepStore, Awaits
  <2> QED
    BY <1>2, <1>a, <1>b, <2>1, <2>2 DEF TaskSleepStore, EventInv
<1>3. CASE TaskSchedule
  <2>1. \A t \in Task : Awaits(t) => Awaits(t)' /\ at'[t] = at[t]
    BY <1>3, <1>b DEF TaskSchedule, Awaits
  <2> QED
    BY <1>3, <1>a, <1>b, <2>1 DEF TaskSchedule, EventInv, Live
<1>4. CASE Hlt
  BY <1>4, <1>a DEF Hlt, EventInv, Awaits, Live
<1>5. CASE SysSleep
  <2>1. at[current_task] = "user" /\ cpu = "user" /\ state[current_task] = "RUNNING"
    BY <1>5, <1>a DEF SysSleep, Enter, InUserCall, CpuInv
  <2>2. \A t \in Task : Awaits(t) => Awaits(t)'
    BY <1>5, <2>1 DEF SysSleep, Awaits
  <2>3. Awaits(current_task)' /\ at'[current_task] = "sys_sleep"
    BY <1>5, <1>b, <2>1 DEF SysSleep, Enter, Awaits
  <2>4. \A t \in Task : t # current_task => at'[t] = at[t]
    BY <1>5, <1>b DEF SysSleep, Enter
  <2> QED
    BY <1>5, <1>a, <1>b, <2>1, <2>2, <2>3, <2>4 DEF SysSleep, EventInv, Live
<1>6. CASE IrqWait
  <2>1. at[current_task] = "user" /\ cpu = "user" /\ state[current_task] = "RUNNING"
    BY <1>6, <1>a DEF IrqWait, Enter, InUserCall, CpuInv
  <2>2. \A t \in Task : Awaits(t) => Awaits(t)'
    BY <1>6, <2>1 DEF IrqWait, Awaits
  <2>3. Awaits(current_task)' /\ at'[current_task] = "irq_wait"
    BY <1>6, <1>b, <2>1 DEF IrqWait, Enter, Awaits
  <2>4. \A t \in Task : t # current_task => at'[t] = at[t]
    BY <1>6, <1>b DEF IrqWait, Enter
  <2> QED
    BY <1>6, <1>a, <1>b, <2>1, <2>2, <2>3, <2>4 DEF IrqWait, EventInv, Live
<1>7. ASSUME NEW s \in 1..Segments, SysWaitForTask(s) PROVE EventInv'
  <2>1. at[current_task] = "user" /\ cpu = "user" /\ state[current_task] = "RUNNING"
    BY <1>7, <1>a DEF SysWaitForTask, Enter, InUserCall, CpuInv
  <2>2. \A t \in Task : Awaits(t) => Awaits(t)'
    BY <1>7, <2>1 DEF SysWaitForTask, Awaits
  <2>3. Awaits(current_task)' /\ at'[current_task] = "sys_wait_for_task"
    BY <1>7, <1>b, <2>1 DEF SysWaitForTask, Enter, Awaits
  <2>4. \A t \in Task : t # current_task => at'[t] = at[t]
    BY <1>7, <1>b DEF SysWaitForTask, Enter
  <2>5. PICK x : waiter' = [waiter EXCEPT ![x] = current_task] \/ waiter' = waiter
    BY <1>7 DEF SysWaitForTask
  <2>6. \A u \in Task : Live(u) => waiter[u] # current_task
    BY <1>a, <1>b, <2>1 DEF EventInv, CpuInv
  <2>7. UNCHANGED <<state, alarms, irq_waits>>
    BY <1>7 DEF SysWaitForTask
  <2>8. \A u \in Task : Live(u)' <=> Live(u)
    BY <2>7 DEF Live
  <2>9. /\ \A t \in alarms' : at'[t] = "sys_sleep" /\ Awaits(t)'
        /\ \A t \in irq_waits' : at'[t] = "irq_wait" /\ Awaits(t)'
    BY <1>a, <1>b, <2>1, <2>2, <2>4, <2>7 DEF EventInv
  <2>10. \A u \in Task : waiter'[u] = waiter[u] \/ (u = x /\ waiter'[u] = current_task)
    BY <1>b, <2>5
  <2>11. \A u, t \in Task : Live(u)' /\ waiter'[u] = t =>
             at'[t] = "sys_wait_for_task" /\ Awaits(t)'
    <3> SUFFICES ASSUME NEW u \in Task, NEW t \in Task, Live(u), waiter'[u] = t
                 PROVE  at'[t] = "sys_wait_for_task" /\ Awaits(t)'
      BY <2>8
    <3>1. CASE t = current_task
      BY <1>7, <2>3, <3>1 DEF SysWaitForTask, Awaits
    <3>2. CASE t # current_task
      <4>1. waiter[u] = t
        BY <2>10, <3>2
      <4>2. at[t] = "sys_wait_for_task" /\ Awaits(t)
        BY <1>a, <4>1 DEF EventInv
      <4> QED
        BY <2>2, <2>4, <3>2, <4>2
    <3> QED
      BY <3>1, <3>2
  <2>12. \A u, v, t \in Task :
             Live(u)' /\ Live(v)' /\ waiter'[u] = t /\ waiter'[v] = t => u = v
    BY <1>a, <2>6, <2>8, <2>10 DEF EventInv
  <2> QED
    BY <2>9, <2>11, <2>12 DEF EventInv
<1>8. ASSUME NEW child \in Task, Fork(child) PROVE EventInv'
  <2>1. cpu = "user" /\ state[child] = "UNUSED"
    BY <1>8 DEF Fork, InUserCall
  <2>2. \A t \in Task : t # child => (Live(t)' <=> Live(t)) /\ waiter'[t] = waiter[t]
    BY <1>8, <1>b DEF Fork, Live
  <2>3. \A t \in Task : Awaits(t) => Awaits(t)'
    BY <1>8, <1>b, <2>1 DEF Fork, Awaits
  <2>4. waiter'[child] = NoTask
    BY <1>8, <1>b DEF Fork
  <2>5. UNCHANGED <<alarms, irq_waits, at>>
    BY <1>8 DEF Fork
  <2>6. \A u, t \in Task : Live(u)' /\ waiter'[u] = t => Live(u) /\ waiter[u] = t
    BY <2>2, <2>4
  <2>7. /\ \A t \in alarms' : at'[t] = "sys_sleep" /\ Awaits(t)'
        /\ \A t \in irq_waits' : at'[t] = "irq_wait" /\ Awaits(t)'
    BY <1>a, <1>b, <2>3, <2>5 DEF EventInv
  <2>8. /\ \A u, t \in Task : Live(u)' /\ waiter'[u] = t =>
               at'[t] = "sys_wait_for_task" /\ Awaits(t)'
        /\ \A u, v, t \in Task :
               Live(u)' /\ Live(v)' /\ waiter'[u] = t /\ waiter'[v] = t => u = v
    BY <1>a, <2>3, <2>5, <2>6 DEF EventInv
  <2> QED
    BY <2>7, <2>8 DEF EventInv
<1>9. CASE ForkFails
  <2>1. UNCHANGED <<state, at, cpu, current_task, alarms, irq_waits, waiter>>
    BY <1>9 DEF ForkFails
  <2> QED
    BY <1>a, <2>1 DEF EventInv, Awaits, Live
<1>10. CASE SysExit
  <2>1. at[current_task] = "user"
    BY <1>10 DEF SysExit, InUserCall
  <2>2. \A t \in Task : t # current_task => at'[t] = at[t]
    BY <1>10, <1>b DEF SysExit
  <2>3. \A t \in Task : (Awaits(t) => Awaits(t)') /\ (Live(t)' <=> Live(t))
    BY <1>10 DEF SysExit, Awaits, Live
  <2> QED
    BY <1>10, <1>a, <1>b, <2>1, <2>2, <2>3 DEF SysExit, EventInv
<1>11. ASSUME NEW has_handles \in BOOLEAN, TaskExit(has_handles) PROVE EventInv'
  <2>1. CASE has_handles
    <3> DEFINE w == waiter[current_task]
    <3>1. TaskExit(TRUE)
      BY <1>11, <2>1
    <3>2. cpu = "user" /\ at[current_task] = "user" /\ Live(current_task)
      BY <1>a, <3>1 DEF TaskExit, InUserCall, CpuInv, Live
    <3>3. /\ state'[current_task] = "EXITED"
          /\ \A t \in Task : t \notin {current_task, w} => state'[t] = state[t]
          /\ w # NoTask => w # current_task /\ state[w] = "SLEEPING" /\ state'[w] = "RUNNING"
      BY <1>a, <3>1, TaskExitEffect
    <3>4. \A t \in Task : t # current_task => at'[t] = at[t]
      BY <1>b, <3>1 DEF TaskExit
    <3>5. \A t \in Task : Awaits(t) => t # current_task
      BY <1>a, <3>2 DEF Awaits, CpuInv
    <3>6. \A t \in Task : Awaits(t) /\ t # w => Awaits(t)'
      BY <3>2, <3>3, <3>5 DEF Awaits
    <3>7. w \in Task => at[w] = "sys_wait_for_task"
      BY <1>a, <1>b, <3>2 DEF EventInv
    <3>8. \A u \in Task : Live(u)' => Live(u) /\ u # current_task
      BY <3>3 DEF Live
    <3>9. UNCHANGED <<alarms, irq_waits, waiter>>
      BY <3>1 DEF TaskExit
    <3>10. /\ \A t \in alarms' : at'[t] = "sys_sleep" /\ Awaits(t)'
           /\ \A t \in irq_waits' : at'[t] = "irq_wait" /\ Awaits(t)'
      BY <1>a, <1>b, <3>4, <3>5, <3>6, <3>7, <3>9 DEF EventInv
    <3>11. \A u, t \in Task : Live(u)' /\ waiter[u] = t => t # w
      BY <1>a, <1>b, <3>2, <3>8 DEF EventInv
    <3>12. \A u, t \in Task : Live(u)' /\ waiter[u] = t =>
               at'[t] = "sys_wait_for_task" /\ Awaits(t)'
      <4> SUFFICES ASSUME NEW u \in Task, NEW t \in Task, Live(u)', waiter[u] = t
                   PROVE  at'[t] = "sys_wait_for_task" /\ Awaits(t)'
        OBVIOUS
      <4>1. at[t] = "sys_wait_for_task" /\ Awaits(t) /\ t # w
        BY <1>a, <3>8, <3>11 DEF EventInv
      <4> QED
        BY <3>4, <3>5, <3>6, <4>1
    <3>13. \A u, v, t \in Task :
               Live(u)' /\ Live(v)' /\ waiter'[u] = t /\ waiter'[v] = t => u = v
      BY <1>a, <3>8, <3>9 DEF EventInv
    <3> QED
      BY <3>9, <3>10, <3>12, <3>13 DEF EventInv
  <2>2. CASE ~has_handles
    <3>1. UNCHANGED <<state, at, cpu, current_task, alarms, irq_waits, waiter>>
      BY <1>11, <2>2 DEF TaskExit
    <3> QED
      BY <1>a, <3>1 DEF EventInv, Awaits, Live
  <2> QED
    BY <2>1, <2>2
<1>12. ASSUME NEW W \in SUBSET Task, TaskWakeup(W), \A t \in W : Awaits(t),
              EndHlt, UNCHANGED <<current_task, at, waiter>>,
              alarms' = alarms \ W, irq_waits' = irq_waits \ W,
              \A t \in W : at[t] # "sys_wait_for_task"
       PROVE  EventInv'
  <2>1. \A t \in Task \ W : state'[t] = state[t]
    BY <1>12, <1>a, TaskWakeupEffect
  <2>2. \A t \in Task : Live(t)' <=> Live(t)
    <3>1. \A t \in W : Live(t)' /\ Live(t)
      BY <1>12, <1>a, TaskWakeupEffect DEF Live, Awaits
    <3> QED
      BY <2>1, <3>1 DEF Live
  <2>3. \A t \in Task \ W : Awaits(t) => Awaits(t)'
    BY <1>12, <2>1 DEF Awaits, EndHlt
  <2>4. /\ \A t \in alarms' : at'[t] = "sys_sleep" /\ Awaits(t)'
        /\ \A t \in irq_waits' : at'[t] = "irq_wait" /\ Awaits(t)'
    BY <1>12, <1>a, <1>b, <2>3 DEF EventInv
  <2>5. \A u, t \in Task : Live(u)' /\ waiter'[u] = t =>
            at'[t] = "sys_wait_for_task" /\ Awaits(t)'
    BY <1>12, <1>a, <2>2, <2>3 DEF EventInv
  <2>6. \A u, v, t \in Task :
            Live(u)' /\ Live(v)' /\ waiter'[u] = t /\ waiter'[v] = t => u = v
    BY <1>12, <1>a, <2>2 DEF EventInv
  <2> QED
    BY <2>4, <2>5, <2>6 DEF EventInv
<1>13. ASSUME NEW W \in SUBSET alarms, ClockTick(W) PROVE EventInv'
  <2>1. /\ W \in SUBSET Task
        /\ \A t \in W : Awaits(t) /\ at[t] = "sys_sleep"
        /\ irq_waits \ W = irq_waits
    BY <1>a, <1>b DEF EventInv
  <2> QED
    BY <1>13, <2>1, <1>12 DEF ClockTick
<1>14. CASE DeviceIrq
  <2>1. /\ irq_waits \in SUBSET Task
        /\ \A t \in irq_waits : Awaits(t) /\ at[t] = "irq_wait"
        /\ alarms \ irq_waits = alarms
    BY <1>a, <1>b DEF EventInv
  <2> QED
    BY <1>14, <2>1, <1>12 DEF DeviceIrq
<1>15. CASE IrqOnExitedTask
  BY <1>15, <1>a DEF IrqOnExitedTask, EventInv, Awaits, Live
<1>16. CASE UNCHANGED vars
  BY <1>16, <1>a DEF vars, EventInv, Awaits, Live
<1> QED
  BY <1>1, <1>2, <1>3, <1>4, <1>5, <1>6, <1>7, <1>8, <1>9, <1>10, <1>11,
     <1>13, <1>14, <1>15, <1>16, <1>17 DEF Next, Kernel, Program, Interrupt

LEMMA WakeupStep == IInv /\ [Next]_vars => WakeupInv'
<1> SUFFICES ASSUME IInv, [Next]_vars PROVE WakeupInv'
  OBVIOUS
<1> USE DEF memory, sched, events, woken
<1>a. TypeOK /\ CpuInv /\ EventInv /\ WakeupInv
  BY DEF IInv
<1>b. /\ state \in [Task -> {"UNUSED", "RUNNING", "SLEEPING",
                             "WAKEN_BEFORE_SLEEP", "EXITED"}]
      /\ at \in [Task -> {"user", "sys_sleep", "irq_wait",
                          "sys_wait_for_task", "task_exit", "crt0_loop"}]
      /\ current_task \in Task
      /\ alarms \subseteq Task
      /\ irq_waits \subseteq Task
  BY <1>a DEF TypeOK
<1>1. CASE TaskSleep
  <2>1. UNCHANGED <<at, alarms, irq_waits, lost, current_task>>
    BY <1>1 DEF TaskSleep
  <2>2. \A t \in Task : state'[t] = "SLEEPING" => state[t] = "SLEEPING"
    BY <1>1, <1>b DEF TaskSleep
  <2>3. /\ cpu' \in {"second_test", "schedule"}
        /\ cpu' = "second_test" => state[current_task] = "RUNNING"
    BY <1>1, <1>a DEF TaskSleep, StartSchedule, CpuInv
  <2> QED
    BY <1>1, <1>a, <2>1, <2>2, <2>3 DEF TaskSleep, WakeupInv, HasAlarmOrWait
<1>18. CASE TaskSleepTest
  <2>1. UNCHANGED <<state, at, alarms, irq_waits, lost, current_task>>
    BY <1>18 DEF TaskSleepTest
  <2>2. /\ cpu = "second_test" /\ cpu' \in {"store", "schedule"}
        /\ cpu' = "store" => state[current_task] = "RUNNING"
    BY <1>18 DEF TaskSleepTest, StartSchedule
  <2> QED
    BY <1>a, <2>1, <2>2 DEF WakeupInv, HasAlarmOrWait
<1>2. CASE TaskSleepStore
  <2>1. UNCHANGED <<at, alarms, irq_waits, lost>> /\ cpu' = "schedule"
    BY <1>2 DEF TaskSleepStore, StartSchedule
  <2>2. \A t \in Task : t # current_task => state'[t] = state[t]
    BY <1>2, <1>b DEF TaskSleepStore
  <2> QED
    BY <1>2, <1>a, <2>1, <2>2 DEF TaskSleepStore, WakeupInv, HasAlarmOrWait
<1>3. CASE TaskSchedule
  <2>1. /\ UNCHANGED <<state, alarms, irq_waits, lost>>
        /\ cpu' \notin {"task_sleep", "second_test", "store"}
        /\ \A t \in Task : state[t] = "SLEEPING" => at'[t] = at[t]
    BY <1>3, <1>b DEF TaskSchedule
  <2> QED
    BY <1>a, <2>1 DEF WakeupInv, HasAlarmOrWait
<1>4. CASE Hlt
  BY <1>4, <1>a DEF Hlt, WakeupInv, HasAlarmOrWait
<1>5. ASSUME NEW call \in {"sys_sleep", "irq_wait", "sys_wait_for_task"},
             Enter(call), UNCHANGED <<state, lost, current_task>>,
             alarms \subseteq alarms', irq_waits \subseteq irq_waits',
             call = "sys_sleep" => current_task \in alarms',
             call = "irq_wait" => current_task \in irq_waits'
      PROVE  WakeupInv'
  <2>1. /\ at'[current_task] = call
        /\ \A t \in Task : t # current_task => at'[t] = at[t]
        /\ cpu' = "task_sleep"
    BY <1>5, <1>b DEF Enter
  <2>2. HasAlarmOrWait(current_task)'
    BY <1>5, <2>1 DEF HasAlarmOrWait
  <2>3. \A t \in Task : state'[t] = "SLEEPING" => t # current_task
    BY <1>5, <1>a DEF Enter, InUserCall, CpuInv
  <2> QED
    BY <1>5, <1>a, <2>1, <2>2, <2>3 DEF WakeupInv, HasAlarmOrWait
<1>6. CASE SysSleep
  BY <1>6, <1>5 DEF SysSleep
<1>7. CASE IrqWait
  BY <1>7, <1>5 DEF IrqWait
<1>8. ASSUME NEW s \in 1..Segments, SysWaitForTask(s) PROVE WakeupInv'
  BY <1>8, <1>5 DEF SysWaitForTask
<1>9. ASSUME NEW child \in Task, Fork(child) PROVE WakeupInv'
  <2>1. /\ UNCHANGED <<at, alarms, irq_waits, lost, current_task, cpu>>
        /\ cpu = "user"
        /\ \A t \in Task : state'[t] = "SLEEPING" => state[t] = "SLEEPING"
    BY <1>9, <1>a, <1>b DEF Fork, InUserCall, CpuInv
  <2> QED
    BY <1>a, <2>1 DEF WakeupInv, HasAlarmOrWait
<1>10. CASE ForkFails
  <2>1. UNCHANGED <<state, at, alarms, irq_waits, lost, current_task, cpu>>
    BY <1>10 DEF ForkFails
  <2> QED
    BY <1>a, <2>1 DEF WakeupInv, HasAlarmOrWait
<1>11. CASE SysExit
  <2>1. /\ UNCHANGED <<state, alarms, irq_waits, lost, current_task, cpu>>
        /\ cpu = "user"
        /\ at' = [at EXCEPT ![current_task] = "crt0_loop"]
    BY <1>11 DEF SysExit, InUserCall
  <2> QED
    BY <1>a, <1>b, <2>1 DEF WakeupInv, HasAlarmOrWait
<1>12. ASSUME NEW has_handles \in BOOLEAN, TaskExit(has_handles) PROVE WakeupInv'
  <2>1. CASE has_handles
    <3>1. TaskExit(TRUE)
      BY <1>12, <2>1
    <3>2. /\ UNCHANGED <<alarms, irq_waits, lost, current_task>>
          /\ cpu' = "schedule"
          /\ \A t \in Task : t # current_task => at'[t] = at[t]
      BY <1>b, <3>1 DEF TaskExit, StartSchedule
    <3>3. \A t \in Task : state'[t] = "SLEEPING" =>
              t # current_task /\ state[t] = "SLEEPING"
      <4>1. \A t \in Task : t \notin {current_task, waiter[current_task]}
                => state'[t] = state[t]
        BY <1>a, <3>1, TaskExitEffect
      <4>2. /\ state'[current_task] = "EXITED"
            /\ waiter[current_task] # NoTask =>
                   state'[waiter[current_task]] = "RUNNING"
        BY <1>a, <3>1, TaskExitEffect
      <4> QED
        BY <4>1, <4>2, TaskAssumption
    <3> QED
      BY <1>a, <3>2, <3>3 DEF WakeupInv, HasAlarmOrWait
  <2>2. CASE ~has_handles
    <3>1. UNCHANGED <<state, at, alarms, irq_waits, lost, current_task, cpu>>
      BY <1>12, <2>2 DEF TaskExit
    <3> QED
      BY <1>a, <3>1 DEF WakeupInv, HasAlarmOrWait
  <2> QED
    BY <2>1, <2>2
<1>13. ASSUME NEW W \in SUBSET Task, TaskWakeup(W), \A t \in W : Awaits(t),
              EndHlt, UNCHANGED <<current_task, at>>,
              alarms \ W \subseteq alarms', irq_waits \ W \subseteq irq_waits'
       PROVE  WakeupInv'
  <2>1. /\ \A t \in Task \ W : state'[t] = state[t]
        /\ \A t \in W : state[t] = "SLEEPING" => state'[t] = "RUNNING"
        /\ \A t \in W : state[t] = "RUNNING" =>
               state'[t] = "WAKEN_BEFORE_SLEEP"
        /\ \A t \in W : t = current_task /\ cpu = "store" => t \in lost'
        /\ lost \subseteq lost'
    BY <1>13, <1>a, TaskWakeupEffect
  <2>2. \A t \in W : state'[t] \notin {"SLEEPING"}
    BY <1>13, <2>1 DEF Awaits
  <2>3. \A t \in Task : state'[t] = "SLEEPING" => HasAlarmOrWait(t)'
    BY <1>13, <1>a, <2>1, <2>2 DEF WakeupInv, HasAlarmOrWait
  <2>4. cpu' \in {"task_sleep", "second_test", "store"} => cpu' = cpu
    BY <1>13 DEF EndHlt
  <2>5. ASSUME cpu \in {"task_sleep", "second_test"}, state'[current_task] = "RUNNING"
        PROVE  HasAlarmOrWait(current_task)'
    <3>1. current_task \notin W
      BY <1>13, <1>a, <2>1, <2>5 DEF Awaits, CpuInv
    <3> QED
      BY <1>13, <1>a, <1>b, <2>1, <2>5, <3>1 DEF WakeupInv, HasAlarmOrWait
  <2>6. ASSUME cpu = "store" PROVE HasAlarmOrWait(current_task)'
    BY <1>13, <1>a, <1>b, <2>1, <2>6 DEF WakeupInv, HasAlarmOrWait
  <2> QED
    BY <1>13, <2>3, <2>4, <2>5, <2>6 DEF WakeupInv
<1>14. ASSUME NEW W \in SUBSET alarms, ClockTick(W) PROVE WakeupInv'
  <2>1. W \in SUBSET Task /\ \A t \in W : Awaits(t)
    BY <1>a, <1>b DEF EventInv
  <2> QED
    BY <1>14, <2>1, <1>13 DEF ClockTick
<1>15. CASE DeviceIrq
  <2>1. irq_waits \in SUBSET Task /\ \A t \in irq_waits : Awaits(t)
    BY <1>a, <1>b DEF EventInv
  <2> QED
    BY <1>15, <2>1, <1>13 DEF DeviceIrq
<1>16. CASE IrqOnExitedTask
  BY <1>16, <1>a DEF IrqOnExitedTask, WakeupInv, HasAlarmOrWait
<1>17. CASE UNCHANGED vars
  BY <1>17, <1>a DEF vars, WakeupInv, HasAlarmOrWait
<1> QED
  BY <1>1, <1>2, <1>3, <1>4, <1>6, <1>7, <1>8, <1>9, <1>10, <1>11, <1>12,
     <1>14, <1>15, <1>16, <1>17, <1>18 DEF Next, Kernel, Program, Interrupt

LEMMA PanicStep == IInv /\ [Next]_vars => NoProtocolPanic'
<1> SUFFICES ASSUME IInv, [Next]_vars PROVE NoProtocolPanic'
  OBVIOUS
<1>a. TypeOK /\ CpuInv /\ EventInv /\ NoProtocolPanic
  BY DEF IInv
<1>b. alarms \subseteq Task /\ irq_waits \subseteq Task
  BY <1>a DEF TypeOK
<1>1. CASE TaskSleep
  BY <1>1, <1>a DEF TaskSleep, CpuInv, NoProtocolPanic
<1>2. CASE TaskSchedule
  BY <1>2, <1>a DEF TaskSchedule, NoProtocolPanic
<1>3. CASE ForkFails
  BY <1>3 DEF ForkFails, NoProtocolPanic
<1>4. ASSUME NEW has_handles \in BOOLEAN, TaskExit(has_handles)
      PROVE  NoProtocolPanic'
  <2>1. CASE has_handles
    <3>1. TaskExit(TRUE)
      BY <1>4, <2>1
    <3> QED
      BY <1>a, <3>1, TaskExitEffect DEF NoProtocolPanic
  <2>2. CASE ~has_handles
    BY <1>4, <2>2 DEF TaskExit, NoProtocolPanic
  <2> QED
    BY <2>1, <2>2
<1>5. ASSUME NEW W \in SUBSET alarms, ClockTick(W) PROVE NoProtocolPanic'
  <2>1. W \in SUBSET Task /\ \A t \in W : Awaits(t)
    BY <1>a, <1>b DEF EventInv
  <2> QED
    BY <1>5, <1>a, <2>1, TaskWakeupEffect DEF ClockTick, NoProtocolPanic
<1>6. CASE DeviceIrq
  <2>1. irq_waits \in SUBSET Task /\ \A t \in irq_waits : Awaits(t)
    BY <1>a, <1>b DEF EventInv
  <2> QED
    BY <1>6, <1>a, <2>1, TaskWakeupEffect DEF DeviceIrq, NoProtocolPanic
<1>7. CASE IrqOnExitedTask
  BY <1>7 DEF IrqOnExitedTask, NoProtocolPanic
<1>8. CASE /\ ~TaskSleep /\ ~TaskSchedule /\ ~ForkFails /\ ~IrqOnExitedTask
           /\ ~DeviceIrq
           /\ ~\E has_handles \in BOOLEAN : TaskExit(has_handles)
           /\ ~\E W \in SUBSET alarms : ClockTick(W)
  <2>1. UNCHANGED panic
    BY <1>8 DEF Next, Kernel, Program, Interrupt, vars, TaskSleepTest,
           TaskSleepStore, Hlt, SysSleep, IrqWait, SysWaitForTask, Fork, SysExit
  <2> QED
    BY <1>a, <2>1 DEF NoProtocolPanic
<1> QED
  BY <1>1, <1>2, <1>3, <1>4, <1>5, <1>6, <1>7, <1>8

LEMMA IInvStep == IInv /\ [Next]_vars => IInv'
  BY TypeStep, CurrentStep, CpuStep, EventStep, WakeupStep, PanicStep DEF IInv

THEOREM IInvHolds == Spec => []IInv
  BY InitIInv, IInvStep, PTL DEF Spec

(* Every variable keeps its type: in particular allocate_segment stays      *)
(* inside the bitmap and task_schedule inside the list.                     *)
THEOREM TypeCorrect == Spec => []TypeOK
<1>1. IInv => TypeOK
  BY DEF IInv
<1> QED
  BY <1>1, IInvHolds, PTL

(* No interleaving of system calls and interrupts reaches the panics of     *)
(* task_sleep and task_wakeup.                                              *)
THEOREM ProtocolSafe == Spec => []NoProtocolPanic
<1>1. IInv => NoProtocolPanic
  BY DEF IInv
<1> QED
  BY <1>1, IInvHolds, PTL

(* A task is switched out in a state that task_schedule passes over for     *)
(* ever only when an interrupt wakes it between the two tests of task_sleep.*)
THEOREM GapOnly == Spec => []OnlyGapStrands
<1>1. IInv => OnlyGapStrands
  <2> SUFFICES ASSUME IInv, NEW t \in Task, state[t] = "WAKEN_BEFORE_SLEEP"
               PROVE  \/ t = current_task /\ cpu \in {"task_sleep", "store"}
                      \/ t \in stranded
    BY DEF OnlyGapStrands
  <2>1. cpu \in {"user", "task_sleep", "second_test", "store", "schedule",
                 "before_hlt", "hlt"}
    BY DEF IInv, TypeOK
  <2>2. CASE t = current_task
    BY <2>1, <2>2 DEF IInv, CpuInv
  <2>3. CASE t # current_task
    BY <2>3 DEF IInv, CpuInv
  <2> QED
    BY <2>2, <2>3
<1> QED
  BY <1>1, IInvHolds, PTL

(* A task that sleeps without its event was woken between the second test   *)
(* and the store of task_sleep: no other order of event and sleep does it.  *)
THEOREM WindowOnly == Spec => []OnlyWindowLosesWakeup
<1>1. IInv => OnlyWindowLosesWakeup
  BY DEF IInv, WakeupInv, HasAlarmOrWait, HasEvent, OnlyWindowLosesWakeup
<1> QED
  BY <1>1, IInvHolds, PTL

-----------------------------------------------------------------------------
(* Segments *)

(* An action that leaves the list and the segments alone and neither        *)
(* allocates nor ends a task preserves the invariant.                       *)
LEMMA SegmentFrame ==
    ASSUME SegmentInv, UNCHANGED memory, panic' = NoPanic => panic = NoPanic,
           \A t \in Task : (Live(t)' <=> Live(t)) /\
                          (state'[t] = "UNUSED" <=> state[t] = "UNUSED"),
           TypeOK
    PROVE  SegmentInv'
<1>1. /\ task_list' = task_list /\ segment' = segment
      /\ segment_bitmap' = segment_bitmap
  BY DEF memory
<1>2. \A t \in Task : state'[t] # "UNUSED" <=> t \in Listed'
  BY <1>1 DEF SegmentInv, Listed
<1>3. panic' = NoPanic =>
          segment_bitmap' = {segment'[t] : t \in {u \in Task : Live(u)'}}
  BY <1>1 DEF SegmentInv
<1>4. \A i \in DOMAIN task_list : task_list[i] \in Task
  <2>1. task_list \in [1..Len(task_list) -> Task]
    BY LenProperties DEF TypeOK
  <2> QED
    BY <2>1
<1>5. \A i, j \in DOMAIN task_list' :
          Live(task_list[i])' /\ j < i =>
              segment'[task_list'[j]] # segment'[task_list'[i]]
  <2> SUFFICES ASSUME NEW i \in DOMAIN task_list, NEW j \in DOMAIN task_list,
                      Live(task_list[i])', j < i
               PROVE  segment[task_list[j]] # segment[task_list[i]]
    BY <1>1
  <2>1. Live(task_list[i])
    BY <1>1, <1>4 DEF Live
  <2> QED
    BY <2>1 DEF SegmentInv
<1> QED
  BY <1>2, <1>3, <1>5 DEF SegmentInv

LEMMA SegmentInit == Init => SegmentInv
<1> SUFFICES ASSUME Init PROVE SegmentInv
  OBVIOUS
<1>1. DOMAIN task_list = {1} /\ task_list[1] = Boot
  BY DEF Init
<1>2. \A t \in Task : Live(t) <=> t = Boot
  BY DEF Init, Live
<1>3. \A t \in Task : state[t] # "UNUSED" <=> t \in Listed
  BY <1>1 DEF Init, Listed
<1>4. segment_bitmap = {segment[t] : t \in {u \in Task : Live(u)}}
  BY <1>2, TaskAssumption DEF Init
<1>5. \A i, j \in DOMAIN task_list : ~(j < i)
  BY <1>1
<1> QED
  BY <1>3, <1>4, <1>5 DEF SegmentInv

LEMMA ForkSegments ==
    ASSUME IInv, SegmentInv, NEW child \in Task, Fork(child)
    PROVE  SegmentInv'
<1> DEFINE s == FreeSegment
           n == Len(task_list)
<1>1. s \in (1..Segments) \ segment_bitmap
  BY FreeSegmentFree DEF Fork, IInv
<1>2. /\ state' = [state EXCEPT ![child] = state[current_task]]
      /\ segment' = [segment EXCEPT ![child] = s]
      /\ segment_bitmap' = segment_bitmap \cup {s}
      /\ task_list' = <<child>> \o task_list
      /\ panic = NoPanic /\ panic' = panic
      /\ state[child] = "UNUSED"
      /\ state[current_task] = "RUNNING"
  BY DEF Fork, InUserCall, IInv, CpuInv
<1>3. /\ task_list \in Seq(Task)
      /\ state \in [Task -> {"UNUSED", "RUNNING", "SLEEPING",
                             "WAKEN_BEFORE_SLEEP", "EXITED"}]
      /\ segment \in [Task -> 0..Segments]
  BY DEF IInv, TypeOK
<1>4. /\ Live(child)' /\ ~Live(child) /\ segment'[child] = s
      /\ \A t \in Task : t # child => /\ Live(t)' <=> Live(t)
                                    /\ state'[t] = state[t]
                                    /\ segment'[t] = segment[t]
  BY <1>2, <1>3 DEF Live
<1>5. /\ n \in Nat
      /\ DOMAIN task_list = 1..n
      /\ DOMAIN task_list' = 1..(n + 1)
      /\ task_list'[1] = child
      /\ \A i \in 2..(n + 1) : task_list'[i] = task_list[i - 1]
      /\ \A i \in 1..n : task_list[i] \in Task
  <2>1. <<child>> \in Seq(Task) /\ Len(<<child>>) = 1 /\ <<child>>[1] = child
    OBVIOUS
  <2>2. /\ task_list' \in Seq(Task) /\ Len(task_list') = n + 1
        /\ n \in Nat
        /\ \A i \in 1..(n + 1) :
               task_list'[i] = IF i <= 1 THEN <<child>>[i] ELSE task_list[i - 1]
    BY <1>2, <1>3, <2>1, ConcatProperties, LenProperties
  <2>3. DOMAIN task_list' = 1..(n + 1) /\ DOMAIN task_list = 1..n
    BY <1>3, <2>2, LenProperties
  <2>4. \A i \in 1..n : task_list[i] \in Task
    BY <1>3, ElementOfSeq
  <2> QED
    BY <2>1, <2>2, <2>3, <2>4
<1>6. \A t \in Task : state'[t] # "UNUSED" <=> t \in Listed'
  <2>1. child \in Listed'
    BY <1>5 DEF Listed
  <2>2. \A t \in Listed : t \in Listed'
    <3> SUFFICES ASSUME NEW i \in 1..n PROVE task_list[i] \in Listed'
      BY <1>5 DEF Listed
    <3>1. i + 1 \in 2..(n + 1) /\ (i + 1) - 1 = i
      BY <1>5
    <3>2. task_list'[i + 1] = task_list[i] /\ i + 1 \in DOMAIN task_list'
      BY <1>5, <3>1
    <3> QED
      BY <3>2 DEF Listed
  <2>3. \A t \in Task : t \in Listed' => t = child \/ t \in Listed
    <3> SUFFICES ASSUME NEW i \in 1..(n + 1)
                 PROVE  task_list'[i] = child \/ task_list'[i] \in Listed
      BY <1>5 DEF Listed
    <3>1. i = 1 \/ (i \in 2..(n + 1) /\ i - 1 \in 1..n)
      BY <1>5
    <3> QED
      BY <1>5, <3>1 DEF Listed
  <2>4. state'[child] # "UNUSED"
    BY <1>4 DEF Live
  <2> QED
    BY <1>4, <2>1, <2>2, <2>3, <2>4 DEF SegmentInv
<1>7. segment_bitmap' = {segment'[t] : t \in {u \in Task : Live(u)'}}
  <2>1. segment_bitmap = {segment[t] : t \in {u \in Task : Live(u)}}
    BY <1>2 DEF SegmentInv
  <2> QED
    BY <1>2, <1>4, <2>1
<1>8. \A i, j \in DOMAIN task_list' :
          Live(task_list[i])' /\ j < i =>
              segment'[task_list'[j]] # segment'[task_list'[i]]
  <2> SUFFICES ASSUME NEW i \in 1..(n + 1), NEW j \in 1..(n + 1), j < i,
                      Live(task_list[i])'
               PROVE  segment'[task_list'[j]] # segment'[task_list'[i]]
    BY <1>5
  <2> DEFINE t == task_list[i - 1]
  <2>1. i \in 2..(n + 1) /\ i - 1 \in 1..n /\ task_list'[i] = t /\ t \in Task
    BY <1>5
  <2>2. state'[t] \notin {"UNUSED", "EXITED"}
    BY <2>1 DEF Live
  <2>3. CASE t = child
    <3>1. t \in Listed
      BY <1>5, <2>1 DEF Listed
    <3> QED
      BY <1>2, <2>1, <2>3, <3>1 DEF SegmentInv
  <2>4. CASE t # child
    <3>1. Live(t) /\ segment'[t] = segment[t]
      BY <1>4, <2>1, <2>2, <2>4 DEF Live
    <3>2. segment[t] \in segment_bitmap
      BY <1>2, <2>1, <3>1 DEF SegmentInv
    <3>3. CASE j = 1
      BY <1>1, <1>4, <1>5, <2>1, <3>1, <3>2, <3>3
    <3>4. CASE j # 1
      <4>1. j \in 2..(n + 1) /\ j - 1 \in 1..n /\ j - 1 < i - 1
        BY <1>5, <3>4
      <4>2. segment[task_list[j - 1]] # segment[t]
        BY <1>5, <2>1, <3>1, <4>1 DEF SegmentInv
      <4>3. task_list'[j] = task_list[j - 1] /\ task_list[j - 1] \in Task
        BY <1>5, <4>1
      <4> QED
        BY <1>1, <1>4, <2>1, <3>1, <3>2, <4>2, <4>3
    <3> QED
      BY <3>3, <3>4
  <2> QED
    BY <2>3, <2>4
<1> QED
  BY <1>6, <1>7, <1>8 DEF SegmentInv

LEMMA ExitSegments ==
    ASSUME IInv, SegmentInv, TaskExit(TRUE)
    PROVE  SegmentInv'
<1>1. /\ task_list \in Seq(Task)
      /\ current_task \in Task
      /\ \A i \in DOMAIN task_list : task_list[i] \in Task
  <2>1. task_list \in Seq(Task) /\ current_task \in Task
    BY DEF IInv, TypeOK
  <2>2. task_list \in [1..Len(task_list) -> Task]
    BY <2>1, LenProperties
  <2> QED
    BY <2>1, <2>2
<1>2. /\ segment_bitmap' = segment_bitmap \ {segment[current_task]}
      /\ UNCHANGED <<task_list, segment>>
      /\ panic = NoPanic
      /\ Live(current_task)
  BY DEF TaskExit, InUserCall, IInv, CpuInv, Live
<1>3. /\ \A t \in Task : Live(t)' <=> Live(t) /\ t # current_task
      /\ \A t \in Task : state'[t] = "UNUSED" <=> state[t] = "UNUSED"
  <2> DEFINE w == waiter[current_task]
  <2>1. /\ state'[current_task] = "EXITED"
        /\ w # NoTask => state[w] = "SLEEPING" /\ state'[w] = "RUNNING"
        /\ \A t \in Task : t \notin {current_task, w} => state'[t] = state[t]
    BY TaskExitEffect DEF IInv
  <2> QED
    BY <1>2, <2>1, TaskAssumption DEF Live
<1>4. \A t, u \in Task :
          Live(t) /\ Live(u) /\ segment[t] = segment[u] => t = u
  <2> SUFFICES ASSUME NEW t \in Task, NEW u \in Task, Live(t), Live(u),
                      segment[t] = segment[u]
               PROVE  t = u
    OBVIOUS
  <2>1. PICK i \in DOMAIN task_list : task_list[i] = t
    BY DEF SegmentInv, Live, Listed
  <2>2. PICK j \in DOMAIN task_list : task_list[j] = u
    BY DEF SegmentInv, Live, Listed
  <2>3. i \in Nat /\ j \in Nat
    BY <1>1, LenProperties
  <2>4. ~(i < j) /\ ~(j < i)
    BY <2>1, <2>2 DEF SegmentInv
  <2> QED
    BY <2>1, <2>2, <2>3, <2>4
<1>5. segment_bitmap' = {segment'[t] : t \in {u \in Task : Live(u)'}}
  <2>1. segment_bitmap = {segment[t] : t \in {u \in Task : Live(u)}}
    BY <1>2 DEF SegmentInv
  <2> QED
    BY <1>1, <1>2, <1>3, <1>4, <2>1
<1>6. \A t \in Task : state'[t] # "UNUSED" <=> t \in Listed'
  BY <1>2, <1>3 DEF SegmentInv, Listed
<1>7. \A i, j \in DOMAIN task_list' :
          Live(task_list[i])' /\ j < i =>
              segment'[task_list'[j]] # segment'[task_list'[i]]
  <2> SUFFICES ASSUME NEW i \in DOMAIN task_list, NEW j \in DOMAIN task_list,
                      Live(task_list[i])', j < i
               PROVE  segment[task_list[j]] # segment[task_list[i]]
    BY <1>2
  <2>1. Live(task_list[i])
    BY <1>1, <1>2, <1>3 DEF Live
  <2> QED
    BY <2>1 DEF SegmentInv
<1> QED
  BY <1>5, <1>6, <1>7 DEF SegmentInv

LEMMA SegmentStep == IInv /\ SegmentInv /\ [Next]_vars => SegmentInv'
<1> SUFFICES ASSUME IInv, SegmentInv, [Next]_vars PROVE SegmentInv'
  OBVIOUS
<1> USE DEF memory
<1>a. TypeOK /\ CpuInv /\ EventInv
  BY DEF IInv
<1>b. /\ state \in [Task -> {"UNUSED", "RUNNING", "SLEEPING",
                             "WAKEN_BEFORE_SLEEP", "EXITED"}]
      /\ current_task \in Task
      /\ alarms \subseteq Task
      /\ irq_waits \subseteq Task
  BY <1>a DEF TypeOK
<1>1. CASE TaskSleep
  BY <1>1, <1>a, <1>b, SegmentFrame DEF TaskSleep, Live
<1>10. CASE TaskSleepTest
  <2>1. UNCHANGED <<memory, state, panic>>
    BY <1>10 DEF TaskSleepTest
  <2> QED
    BY <1>a, <2>1, SegmentFrame DEF Live
<1>2. CASE TaskSleepStore
  BY <1>2, <1>a, <1>b, SegmentFrame DEF TaskSleepStore, Live, CpuInv
<1>3. CASE \/ TaskSchedule \/ Hlt \/ SysSleep \/ IrqWait
           \/ \E s \in 1..Segments : SysWaitForTask(s)
           \/ ForkFails \/ SysExit \/ IrqOnExitedTask
  <2>1. /\ UNCHANGED <<memory, state>>
        /\ panic = NoPanic
    BY <1>3 DEF TaskSchedule, Hlt, SysSleep, IrqWait, SysWaitForTask, Enter,
           InUserCall, ForkFails, SysExit, IrqOnExitedTask
  <2> QED
    BY <1>a, <2>1, SegmentFrame DEF Live
<1>4. ASSUME NEW child \in Task, Fork(child) PROVE SegmentInv'
  BY <1>4, ForkSegments
<1>5. ASSUME NEW has_handles \in BOOLEAN, TaskExit(has_handles) PROVE SegmentInv'
  <2>1. CASE has_handles
    BY <1>5, <2>1, ExitSegments
  <2>2. CASE ~has_handles
    <3>1. /\ UNCHANGED <<task_list, segment, state>>
          /\ panic' = "invalid free"
      BY <1>5, <2>2 DEF TaskExit
    <3> QED
      BY <3>1 DEF SegmentInv, Listed, Live, NoPanic
  <2> QED
    BY <2>1, <2>2
<1>6. ASSUME NEW W \in SUBSET Task, TaskWakeup(W), \A t \in W : Awaits(t),
             UNCHANGED memory
      PROVE  SegmentInv'
  <2>1. /\ \A t \in Task \ W : state'[t] = state[t]
        /\ \A t \in W : state[t] = "SLEEPING" => state'[t] = "RUNNING"
        /\ \A t \in W : state[t] = "RUNNING" =>
               state'[t] = "WAKEN_BEFORE_SLEEP"
        /\ panic' = panic
    BY <1>6, <1>a, TaskWakeupEffect
  <2>2. \A t \in Task : (Live(t)' <=> Live(t)) /\
                          (state'[t] = "UNUSED" <=> state[t] = "UNUSED")
    BY <1>6, <2>1 DEF Awaits, Live
  <2> QED
    BY <1>6, <1>a, <2>1, <2>2, SegmentFrame
<1>7. ASSUME NEW W \in SUBSET alarms, ClockTick(W) PROVE SegmentInv'
  <2>1. W \in SUBSET Task /\ \A t \in W : Awaits(t)
    BY <1>a, <1>b DEF EventInv
  <2> QED
    BY <1>7, <2>1, <1>6 DEF ClockTick
<1>8. CASE DeviceIrq
  <2>1. irq_waits \in SUBSET Task /\ \A t \in irq_waits : Awaits(t)
    BY <1>a, <1>b DEF EventInv
  <2> QED
    BY <1>8, <2>1, <1>6 DEF DeviceIrq
<1>9. CASE UNCHANGED vars
  <2>1. UNCHANGED <<memory, state, panic>>
    BY <1>9 DEF vars
  <2> QED
    BY <1>a, <2>1, SegmentFrame DEF Live
<1> QED
  BY <1>1, <1>2, <1>3, <1>4, <1>5, <1>7, <1>8, <1>9, <1>10
     DEF Next, Kernel, Program, Interrupt

(* segment_to_task names the live task of a segment, whatever exited tasks  *)
(* the list still holds.                                                    *)
LEMMA SegmentNames == TypeOK /\ SegmentInv => LiveSegmentFindsTask
<1> SUFFICES ASSUME TypeOK, SegmentInv, NEW t \in Task, Live(t)
             PROVE  SegmentToTask(segment[t]) = t
  BY DEF LiveSegmentFindsTask
<1> DEFINE P == PlacesOf(segment[t])
<1>1. PICK i \in DOMAIN task_list : task_list[i] = t
  BY DEF SegmentInv, Live, Listed
<1>2. DOMAIN task_list \subseteq Nat
  <2>1. DOMAIN task_list = 1..Len(task_list) /\ Len(task_list) \in Nat
    BY LenProperties DEF TypeOK
  <2> QED
    BY <2>1
<1>3. i \in P /\ P \subseteq Nat
  BY <1>1, <1>2 DEF PlacesOf
<1>4. \A j \in P : i <= j
  <2> SUFFICES ASSUME NEW j \in P, j < i PROVE FALSE
    BY <1>3
  <2>1. j \in DOMAIN task_list /\ segment[task_list[j]] = segment[t]
    BY DEF PlacesOf
  <2> QED
    BY <1>1, <2>1 DEF SegmentInv
<1>5. \A k \in P : (\A j \in P : k <= j) => k = i
  BY <1>3, <1>4
<1>6. (CHOOSE k \in P : \A j \in P : k <= j) = i
  BY <1>3, <1>4, <1>5
<1> QED
  BY <1>1, <1>3, <1>6 DEF SegmentToTask

(* A live task is always the one that segment_to_task finds for its         *)
(* segment: fork reuses the segment of an exited task but links the new     *)
(* one in front of it.                                                      *)
THEOREM SegmentLookup == Spec => []LiveSegmentFindsTask
<1>1. Init => IInv /\ SegmentInv
  BY InitIInv, SegmentInit
<1>2. IInv /\ SegmentInv /\ [Next]_vars => IInv' /\ SegmentInv'
  BY IInvStep, SegmentStep
<1>3. IInv /\ SegmentInv => LiveSegmentFindsTask
  BY SegmentNames DEF IInv
<1> QED
  BY <1>1, <1>2, <1>3, PTL DEF Spec

=============================================================================

-------------------------------- MODULE Task --------------------------------
(***************************************************************************)
(* The tasks of the kernel: kernel/task.c with the calls of syscall.c,     *)
(* clock.c and int_disp.c that put a task to sleep and wake it up.         *)
(*                                                                         *)
(* Every action has the guard panic = NoPanic: panic() never returns.      *)
(*                                                                         *)
(* There is one processor.  Kernel code runs with interrupts enabled       *)
(* (intr_dispatcher executes sti) and is never preempted by another task:  *)
(* the processor changes hands only in task_schedule.  So the steps here   *)
(* are those of current_task, cut wherever an interrupt can tell the       *)
(* difference, interleaved with whole interrupt handlers.                  *)
(*                                                                         *)
(* The alarm queue of clock.c and the wait lists of int_disp.c appear as   *)
(* sets of waiting tasks, joined in one step; modules Clock and IrqWait    *)
(* have the queues themselves and what an interrupt inside that step does. *)
(***************************************************************************)
EXTENDS Naturals, Sequences, FiniteSets

CONSTANTS
    Task,           (* the struct Task objects fork can ever allocate        *)
    Boot,           (* the task made by task_init                            *)
    NoTask,         (* the null struct Task pointer                          *)
    Segments,       (* user segments: allocate_segment hands out 1..Segments *)
    StackBlocks,    (* kernel-stack sized blocks of malloc.c's last zone     *)
    ExitCalls       (* TRUE: a program may end in task_exit.  FALSE is the   *)
                    (* code as it stands, where nothing calls task_exit      *)

ASSUME TaskAssumption ==
    /\ Boot \in Task
    /\ NoTask \notin Task
    /\ Segments \in Nat \ {0}
    /\ StackBlocks \in Nat \ {0}
    /\ ExitCalls \in BOOLEAN

VARIABLES
    task_list,      (* struct Task chain, newest first                       *)
    current_task,
    state,          (* Task -> state field; UNUSED: not allocated yet        *)
    segment,        (* Task -> segment; 0: none                              *)
    segment_bitmap, (* the segments in use                                   *)
    waiter,         (* Task -> task_waiting_for_exit                         *)
    alarms,         (* tasks with an alarm in the queue of clock.c           *)
    irq_waits,      (* tasks in a wait list of int_disp.c                    *)
    at,             (* Task -> the call that the task's kernel stack returns *)
                    (* from next; "user": its program is running             *)
    cpu,            (* what current_task is executing                        *)
    new_task,       (* locals of the running task_schedule                   *)
    looped,
    seen_non_ended,
    panic,          (* the message of the panic that stopped the kernel      *)
    stranded,       (* history: tasks woken between the two tests of         *)
                    (* task_sleep                                            *)
    lost            (* history: tasks woken between its second test and its  *)
                    (* store                                                 *)

sched == <<new_task, looped, seen_non_ended>>
events == <<alarms, irq_waits, waiter>>
memory == <<task_list, segment, segment_bitmap>>
woken == <<stranded, lost>>
vars == <<memory, current_task, state, events, at, cpu, sched, panic, woken>>

(* looped only matters up to "more than 2", so it is counted up to this.    *)
LoopedBound == 3

NoPanic == "none"

TypeOK ==
    /\ task_list \in Seq(Task)
    /\ current_task \in Task
    /\ state \in [Task -> {"UNUSED", "RUNNING", "SLEEPING",
                           "WAKEN_BEFORE_SLEEP", "EXITED"}]
    /\ segment \in [Task -> 0..Segments]
    /\ segment_bitmap \subseteq 1..Segments
    /\ waiter \in [Task -> Task \cup {NoTask}]
    /\ alarms \subseteq Task
    /\ irq_waits \subseteq Task
    /\ at \in [Task -> {"user", "sys_sleep", "irq_wait", "sys_wait_for_task",
                        "task_exit", "crt0_loop"}]
    /\ cpu \in {"user", "task_sleep", "second_test", "store", "schedule",
               "before_hlt", "hlt"}
    /\ new_task \in Task
    /\ looped \in 0..LoopedBound
    /\ seen_non_ended \in BOOLEAN
    /\ panic \in {NoPanic, "second wakeup", "wakeup on exited",
                  "SLEEPING SLEEPING", "No tasks to run.", "out of mem",
                  "Task alloc failed!", "invalid free",
                  "Kernel stack guard trashed!"}
    /\ stranded \subseteq Task
    /\ lost \subseteq Task

Live(t) == state[t] \notin {"UNUSED", "EXITED"}

(* task_init and kernel_exit_force: one task, on its way into user space.   *)
Init ==
    /\ task_list = <<Boot>>
    /\ current_task = Boot
    /\ state = [t \in Task |-> IF t = Boot THEN "RUNNING" ELSE "UNUSED"]
    /\ segment = [t \in Task |-> IF t = Boot THEN 1 ELSE 0]
    /\ segment_bitmap = {1}
    /\ waiter = [t \in Task |-> NoTask]
    /\ alarms = {}
    /\ irq_waits = {}
    /\ at = [t \in Task |-> "user"]
    /\ cpu = "user"
    /\ new_task = Boot
    /\ looped = 0
    /\ seen_non_ended = FALSE
    /\ panic = NoPanic
    /\ stranded = {}
    /\ lost = {}

-----------------------------------------------------------------------------
(* Memory of the tasks *)

(* The lowest free segment, the order in which allocate_segment looks.      *)
FreeSegment ==
    CHOOSE s \in (1..Segments) \ segment_bitmap :
        \A r \in (1..Segments) \ segment_bitmap : s <= r

(* The places of the tasks that use segment s.                              *)
PlacesOf(s) == {i \in DOMAIN task_list : segment[task_list[i]] = s}

(* segment_to_task: the first task of the list with this segment, whether   *)
(* it has exited or not.                                                    *)
SegmentToTask(s) ==
    IF PlacesOf(s) = {}
    THEN NoTask
    ELSE task_list[CHOOSE i \in PlacesOf(s) : \A j \in PlacesOf(s) : i <= j]

(* The task after t in the list, or the head again after the last one.      *)
Place(t) == CHOOSE i \in DOMAIN task_list : task_list[i] = t
IsLast(t) == Place(t) = Len(task_list)
NextTask(t) == IF IsLast(t) THEN Head(task_list)
                            ELSE task_list[Place(t) + 1]

-----------------------------------------------------------------------------
(* Waking up *)

WokenState(s) == CASE s = "RUNNING"  -> "WAKEN_BEFORE_SLEEP"
                   [] s = "SLEEPING" -> "RUNNING"
                   [] OTHER          -> s

(* task_wakeup of every task of W.  Each task has at most one event, so the *)
(* calls do not meet on a task and their order does not matter.             *)
TaskWakeup(W) ==
    /\ state' = [t \in Task |-> IF t \in W THEN WokenState(state[t])
                                           ELSE state[t]]
    /\ panic' = IF \E t \in W : state[t] = "WAKEN_BEFORE_SLEEP"
                THEN "second wakeup"
                ELSE IF \E t \in W : state[t] = "EXITED"
                THEN "wakeup on exited" ELSE panic
    /\ stranded' = IF cpu = "second_test" THEN stranded \cup (W \cap {current_task})
                                          ELSE stranded
    /\ lost' = IF cpu = "store" THEN lost \cup (W \cap {current_task})
                                ELSE lost

(* Mutant: hlt with the interrupts disabled.                                *)
EndHltMasked == cpu' = cpu

(* Any interrupt ends a hlt, but one taken just before it does not.         *)
EndHlt == cpu' = IF cpu = "hlt" THEN "schedule" ELSE cpu

(* Mutant: the alarm stays in the queue when its task is woken.             *)
ClockTickKeepsAlarm(W) ==
    /\ panic = NoPanic
    /\ state[current_task] # "EXITED"
    /\ TaskWakeup(W)
    /\ EndHlt
    /\ UNCHANGED <<memory, current_task, events, at, sched>>

(* intr_dispatcher -> irq_handler -> clock_func: the alarms of W are due.   *)
ClockTick(W) ==
    /\ panic = NoPanic
    /\ state[current_task] # "EXITED"
    /\ TaskWakeup(W)
    /\ alarms' = alarms \ W
    /\ EndHlt
    /\ UNCHANGED <<memory, current_task, irq_waits, waiter, at, sched>>

(* intr_dispatcher -> irq_handler -> irq_resume_waiting_tasks.              *)
DeviceIrq ==
    /\ panic = NoPanic
    /\ state[current_task] # "EXITED"
    /\ irq_waits # {}
    /\ TaskWakeup(irq_waits)
    /\ irq_waits' = {}
    /\ EndHlt
    /\ UNCHANGED <<memory, current_task, alarms, waiter, at, sched>>

(* intr_dispatcher calls task_check_kernel_stack first.  The stack pointer  *)
(* of an exited task is null, and the word at address 0 is kernel code.     *)
IrqOnExitedTask ==
    /\ panic = NoPanic
    /\ state[current_task] = "EXITED"
    /\ panic' = "Kernel stack guard trashed!"
    /\ UNCHANGED <<memory, current_task, state, events, at, cpu, sched, woken>>

-----------------------------------------------------------------------------
(* Going to sleep *)

(* The program of current_task makes a system call.                         *)
InUserCall ==
    /\ panic = NoPanic
    /\ cpu = "user"
    /\ at[current_task] = "user"

(* A call of current_task that will end in task_sleep.                      *)
Enter(call) ==
    /\ InUserCall
    /\ at' = [at EXCEPT ![current_task] = call]
    /\ cpu' = "task_sleep"

(* sys_sleep up to task_sleep: clock_set_wakeup.                            *)
SysSleep ==
    /\ Enter("sys_sleep")
    /\ alarms' = alarms \cup {current_task}
    /\ UNCHANGED <<memory, current_task, state, irq_waits, waiter, sched,
                   panic, woken>>

(* A floppy command up to task_sleep: irq_set_wakeup.                       *)
IrqWait ==
    /\ Enter("irq_wait")
    /\ irq_waits' = irq_waits \cup {current_task}
    /\ UNCHANGED <<memory, current_task, state, alarms, waiter, sched,
                   panic, woken>>

(* sys_wait_for_task(s) up to task_sleep, which it reaches even when there  *)
(* is no such task.                                                         *)
SysWaitForTask(s) ==
    /\ Enter("sys_wait_for_task")
    /\ waiter' = IF SegmentToTask(s) = NoTask THEN waiter
                 ELSE [waiter EXCEPT ![SegmentToTask(s)] = current_task]
    /\ UNCHANGED <<memory, current_task, state, alarms, irq_waits, sched,
                   panic, woken>>

(* Mutant: the search starts at the head of the list every time.            *)
StartScheduleFromHead ==
    /\ cpu' = "schedule"
    /\ new_task' = task_list[Len(task_list)]
    /\ looped' = 0
    /\ seen_non_ended' = FALSE

(* The entry of task_schedule.                                              *)
StartSchedule ==
    /\ cpu' = "schedule"
    /\ new_task' = current_task
    /\ looped' = 0
    /\ seen_non_ended' = FALSE

(* Mutant: without the branch for WAKEN_BEFORE_SLEEP.                       *)
TaskSleepForgetsWakeup ==
    /\ panic = NoPanic
    /\ cpu = "task_sleep"
    /\ panic' = IF state[current_task] = "SLEEPING"
                THEN "SLEEPING SLEEPING" ELSE panic
    /\ cpu' = "second_test"
    /\ UNCHANGED <<memory, current_task, state, events, at, sched, woken>>

(* task_sleep, the first tests.  Between the two of them nothing happens:   *)
(* a wakeup does not make SLEEPING of another state.                        *)
TaskSleep ==
    /\ panic = NoPanic
    /\ cpu = "task_sleep"
    /\ panic' = IF state[current_task] = "SLEEPING"
                THEN "SLEEPING SLEEPING" ELSE panic
    /\ IF state[current_task] = "WAKEN_BEFORE_SLEEP"
       THEN /\ state' = [state EXCEPT ![current_task] = "RUNNING"]
            /\ StartSchedule
       ELSE /\ cpu' = "second_test"
            /\ UNCHANGED <<state, sched>>
    /\ UNCHANGED <<memory, current_task, events, at, woken>>

(* Mutant: else without the test for RUNNING.                               *)
TaskSleepTestDropped ==
    /\ panic = NoPanic
    /\ cpu = "second_test"
    /\ cpu' = "store"
    /\ UNCHANGED <<memory, current_task, state, events, at, sched, panic, woken>>

(* The test for RUNNING reads the state again, with interrupts enabled.  A  *)
(* task woken in between fails it too and is left as it is.                 *)
TaskSleepTest ==
    /\ panic = NoPanic
    /\ cpu = "second_test"
    /\ IF state[current_task] = "RUNNING"
       THEN cpu' = "store" /\ UNCHANGED sched
       ELSE StartSchedule
    /\ UNCHANGED <<memory, current_task, state, events, at, panic, woken>>

(* The assignment after it: interrupts are enabled in between, too.         *)
TaskSleepStore ==
    /\ panic = NoPanic
    /\ cpu = "store"
    /\ state' = [state EXCEPT ![current_task] = "SLEEPING"]
    /\ StartSchedule
    /\ UNCHANGED <<memory, current_task, events, at, panic, woken>>

-----------------------------------------------------------------------------
(* task_schedule *)

(* One pass of the loop.  A RUNNING task ends it: task_schedule returns on  *)
(* that task's stack, and so does the call it slept in.                     *)
TaskSchedule ==
    /\ panic = NoPanic
    /\ cpu = "schedule"
    /\ LET t    == NextTask(new_task)
           l    == IF IsLast(new_task) /\ looped < LoopedBound
                   THEN looped + 1 ELSE looped
           seen == seen_non_ended \/ state[t] # "EXITED"
       IN  /\ new_task' = t
           /\ looped' = l
           /\ seen_non_ended' = seen
           /\ IF state[t] = "RUNNING"
              THEN /\ current_task' = t
                   /\ at' = [at EXCEPT ![t] = "user"]
                   /\ cpu' = "user"
                   /\ UNCHANGED panic
              ELSE /\ cpu' = IF seen /\ l > 2 THEN "before_hlt" ELSE cpu
                   /\ panic' = IF seen \/ l < 2 THEN panic
                                                ELSE "No tasks to run."
                   /\ UNCHANGED <<current_task, at>>
    /\ UNCHANGED <<memory, state, events, woken>>

(* Every task sleeps: wait for an interrupt.                                *)
Hlt ==
    /\ panic = NoPanic
    /\ cpu = "before_hlt"
    /\ cpu' = "hlt"
    /\ UNCHANGED <<memory, current_task, state, events, at, sched, panic, woken>>

-----------------------------------------------------------------------------
(* Birth and death *)

NoStackBlock == Cardinality({t \in Task : Live(t)}) >= StackBlocks
NoSegment    == segment_bitmap = 1..Segments

(* Mutant: fork links the child at the end of the list.                     *)
ForkAtEnd(child) ==
    /\ InUserCall
    /\ ~NoStackBlock
    /\ ~NoSegment
    /\ state[child] = "UNUSED"
    /\ state' = [state EXCEPT ![child] = state[current_task]]
    /\ segment' = [segment EXCEPT ![child] = FreeSegment]
    /\ segment_bitmap' = segment_bitmap \cup {FreeSegment}
    /\ waiter' = [waiter EXCEPT ![child] = NoTask]
    /\ task_list' = Append(task_list, child)
    /\ UNCHANGED <<current_task, alarms, irq_waits, at, cpu, sched, panic, woken>>

(* fork: the child is a copy of current_task, state included, with its own  *)
(* stack and segment, no handles and nobody waiting for it.                 *)
Fork(child) ==
    /\ InUserCall
    /\ ~NoStackBlock
    /\ ~NoSegment
    /\ state[child] = "UNUSED"
    /\ state' = [state EXCEPT ![child] = state[current_task]]
    /\ segment' = [segment EXCEPT ![child] = FreeSegment]
    /\ segment_bitmap' = segment_bitmap \cup {FreeSegment}
    /\ waiter' = [waiter EXCEPT ![child] = NoTask]
    /\ task_list' = <<child>> \o task_list
    /\ UNCHANGED <<current_task, alarms, irq_waits, at, cpu, sched, panic, woken>>

(* fork when malloc has no stack for the child, or allocate_segment no      *)
(* segment.                                                                 *)
ForkFails ==
    /\ InUserCall
    /\ NoStackBlock \/ NoSegment
    /\ panic' = IF NoStackBlock THEN "out of mem" ELSE "Task alloc failed!"
    /\ UNCHANGED <<memory, current_task, state, events, at, cpu, sched, woken>>

(* sys_exit as it stands prints and returns; main returns to crt0, whose    *)
(* last instructions are a loop of hlt that makes no system call.           *)
SysExit ==
    /\ InUserCall
    /\ at' = [at EXCEPT ![current_task] = "crt0_loop"]
    /\ UNCHANGED <<memory, current_task, state, events, cpu, sched, panic,
                   woken>>

(* task_exit of current_task.  Without a handle table free(0) panics, after *)
(* the segment has been given back.                                         *)
TaskExit(has_handles) ==
    /\ ExitCalls
    /\ InUserCall
    /\ segment_bitmap' = segment_bitmap \ {segment[current_task]}
    /\ IF ~has_handles
       THEN /\ panic' = "invalid free"
            /\ UNCHANGED <<state, at, cpu, sched>>
       ELSE LET w == waiter[current_task]
            IN  /\ state' = [t \in Task |->
                        IF t = current_task THEN "EXITED"
                        ELSE IF t = w THEN WokenState(state[t]) ELSE state[t]]
                /\ panic' = IF w = NoTask THEN panic
                            ELSE IF w = current_task \/ state[w] = "EXITED"
                            THEN "wakeup on exited"
                            ELSE IF state[w] = "WAKEN_BEFORE_SLEEP"
                            THEN "second wakeup" ELSE panic
                /\ at' = [at EXCEPT ![current_task] = "task_exit"]
                /\ StartSchedule
    /\ UNCHANGED <<task_list, segment, current_task, events, woken>>

-----------------------------------------------------------------------------
Kernel == TaskSleep \/ TaskSleepTest \/ TaskSleepStore \/ TaskSchedule \/ Hlt

Program ==
    \/ SysSleep
    \/ IrqWait
    \/ \E s \in 1..Segments : SysWaitForTask(s)
    \/ \E child \in Task : Fork(child)
    \/ ForkFails
    \/ SysExit
    \/ \E has_handles \in BOOLEAN : TaskExit(has_handles)

Interrupt ==
    \/ \E W \in SUBSET alarms : ClockTick(W)
    \/ DeviceIrq
    \/ IrqOnExitedTask

Next == Kernel \/ Program \/ Interrupt

Spec == Init /\ [][Next]_vars

(* Fairness.  The processor executes (Kernel), the timer ticks, also while  *)
(* an exited task is the current one, and every alarm comes due, a device   *)
(* answers the command it was given, and a program goes on making the calls *)
(* that give the processor up or end it, as every loop of shell.c and       *)
(* present.c does: nothing else would take the processor from it.           *)
GivesUp ==
    \/ SysSleep
    \/ IrqWait
    \/ \E s \in 1..Segments : SysWaitForTask(s)
    \/ SysExit
    \/ \E has_handles \in BOOLEAN : TaskExit(has_handles)

Fairness ==
    /\ WF_vars(Kernel)
    /\ WF_vars(GivesUp)
    /\ WF_vars(\E W \in SUBSET alarms : ClockTick(W))
    /\ \A t \in Task :
        WF_vars(\E W \in SUBSET alarms : t \in W /\ ClockTick(W))
    /\ WF_vars(DeviceIrq)
    /\ WF_vars(IrqOnExitedTask)

FairSpec == Spec /\ Fairness

-----------------------------------------------------------------------------
(* What the code promises *)

(* An interrupt source or a live task will wake t.                          *)
HasEvent(t) ==
    \/ t \in alarms
    \/ t \in irq_waits
    \/ \E u \in Task : Live(u) /\ waiter[u] = t

(* The panics of task_sleep and task_wakeup (task.c:426, 440, 446) are      *)
(* assertions on the sleep/wakeup protocol: nothing reaches them.           *)
NoProtocolPanic ==
    panic \notin {"second wakeup", "wakeup on exited", "SLEEPING SLEEPING"}

(* The comment of task.c:10-14: WAKEN_BEFORE_SLEEP "is used for tasks that  *)
(* have their associated events fired when have not slept yet".  So it is   *)
(* only ever the state of a task that is still to run: task_schedule never  *)
(* picks a task in it, one that is switched out with it never runs again.   *)
NoStrandedTask ==
    \A t \in Task : state[t] = "WAKEN_BEFORE_SLEEP" =>
        t = current_task /\ cpu \in {"user", "task_sleep", "second_test", "store"}

(* A task is stranded in WAKEN_BEFORE_SLEEP, or forked with it, only if its *)
(* event came between the two tests of task_sleep: at any other time before *)
(* the store the state is the current task's and task_sleep acts on it.     *)
OnlyGapStrands ==
    \A t \in Task : state[t] = "WAKEN_BEFORE_SLEEP" =>
        \/ t = current_task /\ cpu \in {"task_sleep", "store"}
        \/ t \in stranded

(* A task asleep in sys_sleep or behind an interrupt still has the event    *)
(* that will wake it, unless that event came between the second test and    *)
(* the store of task_sleep: no other order of event and sleep puts a task   *)
(* to sleep for good.                                                       *)
OnlyWindowLosesWakeup ==
    \A t \in Task :
        state[t] = "SLEEPING" /\ at[t] \in {"sys_sleep", "irq_wait"} =>
            HasEvent(t) \/ t \in lost

(* The comment of task.c:10-14: WAKEN_BEFORE_SLEEP "prevents the task       *)
(* subsequently entering a sleep state that has no event to wake the task   *)
(* up again".                                                               *)
NoSleepWithoutEvent ==
    \A t \in Task :
        state[t] = "SLEEPING" /\ at[t] \in {"sys_sleep", "irq_wait"} =>
            HasEvent(t)

(* segment_to_task finds the live task of a segment and never an exited     *)
(* one that had it earlier, though exited tasks stay in the list with       *)
(* their segment.                                                           *)
LiveSegmentFindsTask ==
    \A t \in Task : Live(t) => SegmentToTask(segment[t]) = t

(* The kernel stands still: it panicked, or a program never leaves the loop *)
(* at the end of crt0.                                                      *)
Stopped == panic # NoPanic \/ at[current_task] = "crt0_loop"

(* A call that sleeps on an alarm or an interrupt returns: the wakeup is    *)
(* not missed by the hlt of task_schedule, and the woken task's turn comes, *)
(* unless it came in one of the two gaps of task_sleep.                     *)
SleeperReturns ==
    \A t \in Task :
        at[t] \in {"sys_sleep", "irq_wait"} ~>
            at[t] = "user" \/ t \in stranded \cup lost \/ Stopped
=============================================================================

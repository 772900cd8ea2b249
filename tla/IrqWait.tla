------------------------------- MODULE IrqWait -------------------------------
(***************************************************************************)
(* The wait list of an interrupt line in kernel/int_disp.c.  A task puts   *)
(* itself on the list with irq_set_wakeup, gives its device a command and  *)
(* sleeps; the interrupt handler wakes up and frees everything on the      *)
(* list.  Only floppy.c does so, on line 6.                                *)
(*                                                                         *)
(* irq_set_wakeup runs with interrupts enabled.  The handler is in steps   *)
(* too, but nothing comes between them: the line stays blocked until its   *)
(* end-of-interrupt, and no other handler touches the list.                *)
(***************************************************************************)
EXTENDS Naturals, FiniteSets

CONSTANTS
    Task,
    NoTask,
    Blocks          (* blocks 1..Blocks of malloc's zone of IrqWait's size   *)

ASSUME IrqWaitAssumption ==
    /\ NoTask \notin Task
    /\ Blocks \in Nat

VARIABLES
    irq_events,     (* the head of the list; 0 is the null pointer           *)
    task,           (* fields of the struct IrqWaits                         *)
    next,
    allocated,      (* blocks whose bit in malloc's bitmap is set            *)
    state,          (* Task -> state field of task.c                         *)
    setter,         (* the task in irq_set_wakeup or on its way to sleep     *)
    new_wait,       (* its local                                             *)
    item,           (* local of the running handler                          *)
    pc,             (* what the processor executes next                      *)
    panic,
    waiting,        (* history: tasks that have not been woken since they    *)
                    (* joined the list                                       *)
    spurious,       (* history: tasks woken that were not waiting            *)
    raced           (* history: an interrupt has emptied a list between      *)
                    (* irq_set_wakeup's read and write of its head           *)

list == <<irq_events, task, next, allocated>>
history == <<waiting, spurious, raced>>
vars == <<list, state, setter, new_wait, item, pc, panic, history>>

TypeOK ==
    /\ irq_events \in 0..Blocks
    /\ task \in [1..Blocks -> Task \cup {NoTask}]
    /\ next \in [1..Blocks -> 0..Blocks]
    /\ allocated \subseteq 1..Blocks
    /\ state \in [Task -> {"RUNNING", "SLEEPING", "WAKEN_BEFORE_SLEEP"}]
    /\ setter \in Task \cup {NoTask}
    /\ new_wait \in 0..Blocks
    /\ item \in 0..Blocks
    /\ pc \in [irq : BOOLEAN, call : {"none", "load", "link", "sleep"}]
    /\ panic \in {"none", "second_wakeup", "out_of_mem"}
    /\ waiting \subseteq Task
    /\ spurious \subseteq Task
    /\ raced \in BOOLEAN

Init ==
    /\ irq_events = 0
    /\ task = [b \in 1..Blocks |-> NoTask]
    /\ next = [b \in 1..Blocks |-> 0]
    /\ allocated = {}
    /\ state = [t \in Task |-> "RUNNING"]
    /\ setter = NoTask
    /\ new_wait = 0
    /\ item = 0
    /\ pc = [irq |-> FALSE, call |-> "none"]
    /\ panic = "none"
    /\ waiting = {}
    /\ spurious = {}
    /\ raced = FALSE

InTask(call) == panic = "none" /\ pc = [irq |-> FALSE, call |-> call]
Goto(call)   == pc' = [pc EXCEPT !.call = call]

-----------------------------------------------------------------------------
(* irq_set_wakeup and the task_sleep that follows it *)

FreeBlocks == (1..Blocks) \ allocated

(* malloc hands out the lowest free block.                                  *)
SetWakeup(t) ==
    /\ InTask("none")
    /\ state[t] = "RUNNING"
    /\ FreeBlocks # {}
    /\ LET b == CHOOSE b \in FreeBlocks : \A c \in FreeBlocks : b <= c
       IN  /\ allocated' = allocated \cup {b}
           /\ task' = [task EXCEPT ![b] = t]
           /\ new_wait' = b
    /\ setter' = t
    /\ waiting' = waiting \cup {t}
    /\ Goto("load")
    /\ UNCHANGED <<irq_events, next, state, item, panic, spurious, raced>>

NoBlock ==
    /\ InTask("none")
    /\ \E t \in Task : state[t] = "RUNNING"
    /\ FreeBlocks = {}
    /\ panic' = "out_of_mem"
    /\ UNCHANGED <<list, state, setter, new_wait, item, pc, history>>

(* Mutant: the new item always ends the list.                               *)
LoadNextNull ==
    /\ InTask("load")
    /\ next' = [next EXCEPT ![new_wait] = 0]
    /\ Goto("link")
    /\ UNCHANGED <<irq_events, task, allocated, state, setter, new_wait, item,
                   panic, history>>

(* The null case of the code stores the same value.                         *)
LoadNext ==
    /\ InTask("load")
    /\ next' = [next EXCEPT ![new_wait] = irq_events]
    /\ Goto("link")
    /\ UNCHANGED <<irq_events, task, allocated, state, setter, new_wait, item,
                   panic, history>>

LinkHead ==
    /\ InTask("link")
    /\ irq_events' = new_wait
    /\ Goto("sleep")
    /\ UNCHANGED <<task, next, allocated, state, setter, new_wait, item, panic,
                   history>>

(* task_sleep; what an interrupt inside it does is the subject of Task.     *)
TaskSleep ==
    /\ InTask("sleep")
    /\ state' = [state EXCEPT ![setter] =
                    IF @ = "WAKEN_BEFORE_SLEEP" THEN "RUNNING" ELSE "SLEEPING"]
    /\ setter' = NoTask
    /\ new_wait' = 0
    /\ Goto("none")
    /\ UNCHANGED <<list, item, panic, history>>

-----------------------------------------------------------------------------
(* irq_handler -> irq_resume_waiting_tasks *)

(* Mutant: the handler looks at the list of another line.                   *)
IrqOfOtherLine ==
    /\ panic = "none"
    /\ ~pc.irq
    /\ item' = 0
    /\ pc' = [pc EXCEPT !.irq = TRUE]
    /\ UNCHANGED <<list, state, setter, new_wait, panic, history>>

Irq ==
    /\ panic = "none"
    /\ ~pc.irq
    /\ item' = irq_events
    /\ pc' = [pc EXCEPT !.irq = TRUE]
    /\ UNCHANGED <<list, state, setter, new_wait, panic, history>>

WokenState(s) == CASE s = "RUNNING"  -> "WAKEN_BEFORE_SLEEP"
                   [] s = "SLEEPING" -> "RUNNING"
                   [] OTHER          -> s

(* free flips the bit of the block, whatever it was.                        *)
Flip(b) == IF b \in allocated THEN allocated \ {b} ELSE allocated \cup {b}

ResumeOne ==
    /\ panic = "none"
    /\ pc.irq
    /\ item # 0
    /\ IF state[task[item]] = "WAKEN_BEFORE_SLEEP"
       THEN /\ panic' = "second_wakeup"
            /\ UNCHANGED <<state, item, allocated, history>>
       ELSE /\ state' = [state EXCEPT ![task[item]] = WokenState(@)]
            /\ waiting' = waiting \ {task[item]}
            /\ spurious' = spurious \cup ({task[item]} \ waiting)
            /\ item' = next[item]
            /\ allocated' = Flip(item)
            /\ UNCHANGED <<panic, raced>>
    /\ UNCHANGED <<irq_events, task, next, setter, new_wait, pc>>

(* Mutant: the list is not emptied.                                         *)
IrqReturnKeepsList ==
    /\ panic = "none"
    /\ pc.irq
    /\ item = 0
    /\ pc' = [pc EXCEPT !.irq = FALSE]
    /\ UNCHANGED <<list, state, setter, new_wait, item, panic, history>>

IrqReturn ==
    /\ panic = "none"
    /\ pc.irq
    /\ item = 0
    /\ irq_events' = 0
    /\ pc' = [pc EXCEPT !.irq = FALSE]
    /\ raced' = (raced \/ (pc.call = "link" /\ next[new_wait] # 0))
    /\ UNCHANGED <<task, next, allocated, state, setter, new_wait, item, panic,
                   waiting, spurious>>

Calls   == LoadNext \/ LinkHead \/ TaskSleep
Handler == ResumeOne \/ IrqReturn

Next == Calls \/ Handler \/ Irq \/ NoBlock \/ \E t \in Task : SetWakeup(t)

Spec == Init /\ [][Next]_vars

(* The handler runs to its end, the code it interrupted gets on between the *)
(* interrupts (a device sends one a command), and the device answers.       *)
FairSpec == Spec /\ SF_vars(Calls) /\ WF_vars(Handler) /\ WF_vars(Irq)

-----------------------------------------------------------------------------
(* The blocks of B that the links lead to from block b, without leaving B:  *)
(* the least set of them with b in it.                                      *)
Chain(links, B, b) ==
    {c \in B : \A S \in SUBSET B :
                    /\ b \in B => b \in S
                    /\ \A d \in S : links[d] \in B => links[d] \in S
                    => c \in S}

(* The items of the list from b on.                                         *)
Items(b) == Chain(next, 1..Blocks, b)

(* Whoever waits is on the list, on what is left of it for the handler, or  *)
(* about to be linked.                                                      *)
NoWaiterLost ==
    \A t \in waiting :
        \/ t = setter /\ pc.call \in {"load", "link"}
        \/ \E b \in Items(IF pc.irq THEN item ELSE irq_events) : task[b] = t

(* As long as no interrupt fell into that window, the list is what module   *)
(* Task takes it for, a set of waiting tasks: its items are allocated, it   *)
(* wakes only who waits, and task_wakeup's assertion holds.                 *)
OnlyRaceBreaksList ==
    ~raced => /\ Items(irq_events) \subseteq
                    IF pc.irq THEN 1..Blocks ELSE allocated
              /\ spurious = {}
              /\ panic # "second_wakeup"

(* Whoever waits is woken up, unless the kernel stops.                      *)
WaiterWoken ==
    \A t \in Task : t \in waiting ~> t \notin waiting \/ panic # "none"
=============================================================================

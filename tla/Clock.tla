------------------------------- MODULE Clock -------------------------------
(***************************************************************************)
(* The alarm queue of kernel/clock.c: clock_set_wakeup, which a task runs  *)
(* with interrupts enabled, and clock_func, the timer interrupt that may   *)
(* come between any two of its statements.                                 *)
(*                                                                         *)
(* A struct ClockAlarm is named by its task: a task sets an alarm only     *)
(* after the one before has fired, and nothing else is allocated between   *)
(* the moment an interrupt frees an alarm and the moment clock_set_wakeup  *)
(* forgets its pointer to it, so a freed alarm keeps its fields that long. *)
(* The ticks and seconds counters, which nothing reads, are left out.      *)
(***************************************************************************)
EXTENDS Naturals, FiniteSets

CONSTANTS
    Task,
    Null,           (* the null pointer                                      *)
    Delays,         (* the arguments of sys_sleep, in milliseconds           *)
    Tick,           (* milliseconds per timer interrupt: TICK of clock.h     *)
    WordSize        (* values of an unsigned int: 2^16 in the code           *)

ASSUME ClockAssumption ==
    /\ IsFiniteSet(Task)
    /\ Null \notin Task
    /\ WordSize \in Nat \ {0}
    /\ Tick \in 1..(WordSize - 1)
    /\ Delays \subseteq 0..(WordSize - 1)

VARIABLES
    alarm_queue,    (* the head of the queue                                 *)
    delta,          (* fields of the alarms                                  *)
    next,
    allocated,      (* alarms that are malloc'ed and not freed               *)
    alarm,          (* locals of the running clock_set_wakeup                *)
    ptr,
    shorter,        (* the value it is about to store in ptr->next->delta    *)
    clock_pc,       (* its next statement; "idle" when nobody is in it       *)
    wild,           (* it has followed the null pointer                      *)
    asleep,         (* tasks whose alarm has not fired since they set it     *)
    lost            (* history: alarms linked behind one already freed       *)

queue == <<alarm_queue, delta, next, allocated>>
locals == <<alarm, ptr, shorter, clock_pc, wild>>
clock_vars == <<queue, locals, asleep, lost>>

N == Cardinality(Task)

(* The alarms in the queue, from place 0 on, and the sum of the deltas      *)
(* before each place.                                                       *)
Place == LET at[n \in 0..N] ==
                 IF n = 0 THEN alarm_queue
                 ELSE IF at[n - 1] = Null THEN Null ELSE next[at[n - 1]]
         IN  at

Ahead == LET sum[n \in 0..N] ==
                 IF n = 0 THEN 0
                 ELSE sum[n - 1] + (IF Place[n - 1] = Null THEN 0
                                    ELSE delta[Place[n - 1]])
         IN  sum

Queued == {Place[n] : n \in 0..N} \ {Null}

ClockTypeOK ==
    /\ alarm_queue \in Task \cup {Null}
    /\ delta \in [Task -> 0..(WordSize - 1)]
    /\ next \in [Task -> Task \cup {Null}]
    /\ allocated \subseteq Task
    /\ alarm \in Task \cup {Null}
    /\ ptr \in Task \cup {Null}
    /\ clock_pc \in {"idle", "link_head", "load_ptr", "subtract", "test",
                     "link_tail", "shorten", "store_delta", "link_next",
                     "link"}
    /\ shorter \in 0..(WordSize - 1)
    /\ wild \in BOOLEAN
    /\ asleep \subseteq Task
    /\ lost \subseteq Task

ClockInit ==
    /\ alarm_queue = Null
    /\ delta = [t \in Task |-> 0]
    /\ next = [t \in Task |-> Null]
    /\ allocated = {}
    /\ alarm = Null
    /\ ptr = Null
    /\ shorter = 0
    /\ clock_pc = "idle"
    /\ wild = FALSE
    /\ asleep = {}
    /\ lost = {}

-----------------------------------------------------------------------------
(* clock_set_wakeup, in statements that share something with the interrupt. *)

(* Deltas are unsigned and wrap.                                            *)
Minus(a, b) == (a + WordSize - b) % WordSize

(* Mutant: next is left as malloc returned it.                              *)
SetWakeupKeepsNext(t, ms) ==
    /\ ~wild /\ clock_pc = "idle"
    /\ t \notin asleep
    /\ delta' = [delta EXCEPT ![t] = ms]
    /\ allocated' = allocated \cup {t}
    /\ alarm' = t
    /\ clock_pc' = IF alarm_queue = Null THEN "link_head" ELSE "load_ptr"
    /\ asleep' = asleep \cup {t}
    /\ UNCHANGED <<alarm_queue, next, ptr, shorter, wild, lost>>

(* Up to the test of an empty queue.                                        *)
SetWakeup(t, ms) ==
    /\ ~wild /\ clock_pc = "idle"
    /\ t \notin asleep
    /\ delta' = [delta EXCEPT ![t] = ms]
    /\ next' = [next EXCEPT ![t] = Null]
    /\ allocated' = allocated \cup {t}
    /\ alarm' = t
    /\ clock_pc' = IF alarm_queue = Null THEN "link_head" ELSE "load_ptr"
    /\ asleep' = asleep \cup {t}
    /\ UNCHANGED <<alarm_queue, ptr, shorter, wild, lost>>

(* clock_set_wakeup returns.                                                *)
Return ==
    /\ clock_pc' = "idle"
    /\ alarm' = Null
    /\ ptr' = Null
    /\ shorter' = 0
    /\ UNCHANGED wild

(* The alarm that is being linked behind p can only be found if p can.      *)
NoteLoss(p) == lost' = IF p \in Queued THEN lost ELSE lost \cup {alarm}

LinkHead ==
    /\ ~wild /\ clock_pc = "link_head"
    /\ alarm_queue' = alarm
    /\ Return
    /\ UNCHANGED <<delta, next, allocated, asleep, lost>>

(* The queue was not empty, but an interrupt may have emptied it.  Then the *)
(* statements that follow work on whatever is at address 0.                 *)
LoadPtr ==
    /\ ~wild /\ clock_pc = "load_ptr"
    /\ ptr' = alarm_queue
    /\ wild' = (alarm_queue = Null)
    /\ clock_pc' = "subtract"
    /\ UNCHANGED <<queue, alarm, shorter, asleep, lost>>

Subtract ==
    /\ ~wild /\ clock_pc = "subtract"
    /\ delta' = [delta EXCEPT ![alarm] = Minus(@, delta[ptr])]
    /\ clock_pc' = "test"
    /\ UNCHANGED <<alarm_queue, next, allocated, alarm, ptr, shorter, wild,
                   asleep, lost>>

(* ptr does not move: another round subtracts the delta of the head again.  *)
Test ==
    /\ ~wild /\ clock_pc = "test"
    /\ clock_pc' = IF next[ptr] # Null /\ delta[alarm] > delta[next[ptr]]
             THEN "subtract" ELSE "link_tail"
    /\ UNCHANGED <<queue, alarm, ptr, shorter, wild, asleep, lost>>

LinkTail ==
    /\ ~wild /\ clock_pc = "link_tail"
    /\ IF next[ptr] = Null
       THEN /\ next' = [next EXCEPT ![ptr] = alarm]
            /\ NoteLoss(ptr)
            /\ Return
       ELSE /\ clock_pc' = "shorten"
            /\ UNCHANGED <<next, alarm, ptr, shorter, wild, lost>>
    /\ UNCHANGED <<alarm_queue, delta, allocated, asleep>>

(* ptr->next->delta -= alarm->delta reads the delta ...                     *)
Shorten ==
    /\ ~wild /\ clock_pc = "shorten"
    /\ shorter' = Minus(delta[next[ptr]], delta[alarm])
    /\ clock_pc' = "store_delta"
    /\ UNCHANGED <<queue, alarm, ptr, wild, asleep, lost>>

(* Mutant: the next alarm keeps its delta.                                  *)
StoreDeltaForgotten ==
    /\ ~wild /\ clock_pc = "store_delta"
    /\ clock_pc' = "link_next"
    /\ UNCHANGED <<queue, alarm, ptr, shorter, wild, asleep, lost>>

(* ... and writes it: what an interrupt has counted off meanwhile is back.  *)
StoreDelta ==
    /\ ~wild /\ clock_pc = "store_delta"
    /\ delta' = [delta EXCEPT ![next[ptr]] = shorter]
    /\ clock_pc' = "link_next"
    /\ UNCHANGED <<alarm_queue, next, allocated, alarm, ptr, shorter, wild,
                   asleep, lost>>

(* Mutant: the rest of the queue is not linked to the new alarm.            *)
LinkNextForgotten ==
    /\ ~wild /\ clock_pc = "link_next"
    /\ clock_pc' = "link"
    /\ UNCHANGED <<queue, alarm, ptr, shorter, wild, asleep, lost>>

LinkNext ==
    /\ ~wild /\ clock_pc = "link_next"
    /\ next' = [next EXCEPT ![alarm] = next[ptr]]
    /\ clock_pc' = "link"
    /\ UNCHANGED <<alarm_queue, delta, allocated, alarm, ptr, shorter, wild,
                   asleep, lost>>

Link ==
    /\ ~wild /\ clock_pc = "link"
    /\ next' = [next EXCEPT ![ptr] = alarm]
    /\ NoteLoss(ptr)
    /\ Return
    /\ UNCHANGED <<alarm_queue, delta, allocated, asleep>>

-----------------------------------------------------------------------------
(* clock_func *)

(* Mutant: the delta of the head is not compared with what is left.         *)
DuePlacesUncompared == {n \in 0..(N - 1) : Place[n] # Null /\ Ahead[n] < Tick}

(* The loop takes alarms off the head while they are due within what is     *)
(* left of the tick, and stops when nothing is left of it.                  *)
DuePlaces == {n \in 0..(N - 1) : /\ Place[n] # Null
                                 /\ Ahead[n] < Tick
                                 /\ Ahead[n + 1] <= Tick}
Due == {Place[n] : n \in DuePlaces}

ClockFunc ==
    /\ ~wild
    /\ LET head == Place[Cardinality(DuePlaces)]
           rest == Tick - Ahead[Cardinality(DuePlaces)]
       IN  /\ alarm_queue' = head
           /\ delta' = IF head = Null THEN delta
                       ELSE [delta EXCEPT ![head] = @ - rest]
    /\ allocated' = allocated \ Due
    /\ asleep' = asleep \ Due
    /\ UNCHANGED <<next, locals, lost>>

Setting ==
    \/ LinkHead \/ LoadPtr \/ Subtract \/ Test \/ LinkTail
    \/ Shorten \/ StoreDelta \/ LinkNext \/ Link

ClockNext ==
    \/ \E t \in Task, ms \in Delays : SetWakeup(t, ms)
    \/ Setting
    \/ ClockFunc

ClockSpec == ClockInit /\ [][ClockNext]_clock_vars

(* The processor executes clock_set_wakeup, and the timer ticks.            *)
FairClockSpec == ClockSpec /\ WF_clock_vars(Setting) /\ WF_clock_vars(ClockFunc)

-----------------------------------------------------------------------------
(* What the queue promises *)

(* Every variable has its type, the queue ends, and every alarm that        *)
(* clock_func will take off and free is allocated and belongs to a task     *)
(* that waits for it.                                                       *)
QueueIntact ==
    /\ ClockTypeOK
    /\ Place[N] = Null
    /\ Queued \subseteq allocated \cap asleep

(* A sleeper whose alarm is set is woken some day, however deltas wrap and  *)
(* the timer cuts into other tasks' clock_set_wakeup, unless its alarm was  *)
(* linked behind a freed one.                                               *)
SleeperWoken ==
    \A t \in Task :
        t \in asleep /\ t # alarm ~> t \notin asleep \/ t \in lost \/ wild
=============================================================================

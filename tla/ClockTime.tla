----------------------------- MODULE ClockTime -----------------------------
(***************************************************************************)
(* The alarm queue of module Clock with history variables for the time     *)
(* that each sleeper has waited, and for the places where clock_set_wakeup *)
(* makes a delta that does not fit its alarm's place in the queue.         *)
(***************************************************************************)
EXTENDS Clock

CONSTANT Cap        (* elapsed time is counted up to this bound              *)

ASSUME CapAssumption == Cap \in Nat

VARIABLES
    delay,          (* Task -> milliseconds asked for                        *)
    elapsed,        (* Task -> milliseconds since                            *)
    deadline,       (* delay, a tick, and the ticks that passed before the   *)
                    (* alarm was linked                                      *)
    early,          (* alarms that may come due too early                    *)
    late            (* and too late, because of a delta                      *)

time == <<delay, elapsed, deadline>>
time_vars == <<clock_vars, time, early, late>>

TimeInit ==
    /\ ClockInit
    /\ delay = [t \in Task |-> 0]
    /\ elapsed = [t \in Task |-> 0]
    /\ deadline = [t \in Task |-> 0]
    /\ early = {}
    /\ late = {}

Later(ms) == IF ms + Tick > Cap THEN Cap ELSE ms + Tick

Start(t, ms) ==
    /\ delay' = [delay EXCEPT ![t] = ms]
    /\ elapsed' = [elapsed EXCEPT ![t] = 0]
    /\ deadline' = [deadline EXCEPT ![t] = ms + Tick]
    /\ early' = early \ {t}
    /\ late' = late \ {t}

(* The head is due after the new alarm: the unsigned difference wraps.      *)
Wraps == clock_pc = "subtract" /\ delta[alarm] < delta[ptr]

(* Another round of the loop subtracts the delta of the head again.         *)
Again == clock_pc = "test" /\ clock_pc' = "subtract"

(* ptr has been freed, so the new alarm will not be in front of the next    *)
(* one, whose delta is made short of it (or wraps, or gets back what an     *)
(* interrupt counted off it).  The places of all alarms behind go with it.  *)
Astray == clock_pc = "store_delta" /\ ptr \notin Queued /\ next[ptr] \in Queued

Miscount ==
    /\ early' = early \cup (IF Again THEN {alarm} ELSE {})
                      \cup (IF Astray THEN Queued ELSE {})
    /\ late' = late \cup (IF Wraps THEN {alarm} ELSE {})
                    \cup (IF Astray THEN Queued ELSE {})
    /\ UNCHANGED time

(* A tick.  One that frees ptr after the next delta was made short, and     *)
(* before the new alarm is in front of it, does the same.                   *)
Pass ==
    /\ delay' = [t \in Task |-> IF t \in asleep' THEN delay[t] ELSE 0]
    /\ elapsed' = [t \in Task |-> IF t \in asleep' THEN Later(elapsed[t]) ELSE 0]
    /\ deadline' = [t \in Task |-> IF t \notin asleep' THEN 0
                                   ELSE IF t = alarm THEN Later(deadline[t])
                                   ELSE deadline[t]]
    /\ early' = IF ptr \in Due /\ clock_pc \in {"link_next", "link"}
                THEN early \cup (Queued \ {ptr}) ELSE early
    /\ late' = late \cap asleep'

TimeNext ==
    \/ \E t \in Task, ms \in Delays : SetWakeup(t, ms) /\ Start(t, ms)
    \/ Setting /\ Miscount
    \/ ClockFunc /\ Pass

TimeSpec == TimeInit /\ [][TimeNext]_time_vars

-----------------------------------------------------------------------------
(* What sys_sleep promises *)

(* A task oversleeps by more than the tick that a zero delta costs (the     *)
(* loop of clock_func stops at tickl = 0) only when its alarm was lost, its *)
(* delta wrapped, or an interrupt freed ptr before the next alarm's delta   *)
(* was stored.                                                              *)
OverdueOnlyIfMiscounted ==
    \A t \in asleep : elapsed[t] > deadline[t] => t \in lost \cup late \/ wild

(* sys_sleep implements Alarm, and wakes a task early only if the loop of   *)
(* its clock_set_wakeup came round again, or if an interrupt freed the      *)
(* alarm that another task was linking its own behind.                      *)
Counted == INSTANCE Alarm WITH miscounted <- early
EarlyOnlyIfMiscounted == Counted!Spec
=============================================================================

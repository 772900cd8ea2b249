------------------------------- MODULE Alarm -------------------------------
(***************************************************************************)
(* What sys_sleep promises a program: it comes back after the number of    *)
(* milliseconds it asked for, and not before.  Time passes in timer ticks; *)
(* the one under way when the program calls counts as a whole one.         *)
(***************************************************************************)
EXTENDS Naturals

CONSTANTS
    Task,
    Delays,         (* the milliseconds programs ask for                     *)
    Tick,           (* milliseconds per timer interrupt: TICK of clock.h     *)
    Cap             (* elapsed time is counted up to this bound              *)

VARIABLES
    asleep,         (* tasks whose alarm is set                              *)
    delay,          (* Task -> milliseconds asked for                        *)
    elapsed,        (* Task -> milliseconds since                            *)
    miscounted      (* tasks for which the promise is off; changed elsewhere *)

Later(ms) == IF ms + Tick > Cap THEN Cap ELSE ms + Tick

Init ==
    /\ asleep = {}
    /\ delay = [t \in Task |-> 0]
    /\ elapsed = [t \in Task |-> 0]

Sleep(t, ms) ==
    /\ t \notin asleep
    /\ asleep' = asleep \cup {t}
    /\ delay' = [delay EXCEPT ![t] = ms]
    /\ elapsed' = [elapsed EXCEPT ![t] = 0]

(* A tick wakes tasks whose time has come.  Nothing is counted for a task   *)
(* that is awake.                                                           *)
Pass(W) ==
    /\ \A t \in W : Later(elapsed[t]) >= delay[t] \/ t \in miscounted'
    /\ asleep' = asleep \ W
    /\ delay' = [t \in Task |-> IF t \in W THEN 0 ELSE delay[t]]
    /\ elapsed' = [t \in Task |-> IF t \in asleep \ W THEN Later(elapsed[t])
                                                      ELSE 0]

Next ==
    \/ \E t \in Task, ms \in Delays : Sleep(t, ms)
    \/ \E W \in SUBSET asleep : Pass(W)

Spec == Init /\ [][Next]_<<asleep, delay, elapsed>>

=============================================================================

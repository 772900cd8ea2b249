------------------------------ MODULE MCDevices ------------------------------
(***************************************************************************)
(* For TLC, the two devices whose interrupt comes between the statements   *)
(* of a task that works on the same data, the keyboard and the clock.      *)
(* They share no memory, so their steps are not interleaved: a behaviour   *)
(* is one of the keyboard, or of the clock.  Nothing tells the tasks of    *)
(* the clock apart.                                                        *)
(***************************************************************************)
EXTENDS Keyb, ClockTime, TLC

Symmetry == Permutations(Task)

NoKeyYet ==
    /\ buffer_used = 0 /\ pc = "idle" /\ excuse = "none"
    /\ keyb_buf = [i \in 0..(BufSize - 1) |-> Blank]
    /\ down = {} /\ ~locked

NoAlarmYet ==
    /\ asleep \cup early = {}
    /\ delta = [t \in Task |-> 0]
    /\ next = [t \in Task |-> Null]

Keyboard == NoAlarmYet /\ Next /\ UNCHANGED time_vars

Timer == NoKeyYet /\ TimeNext /\ UNCHANGED vars

DevicesInit == Init /\ TimeInit

DevicesSpec == DevicesInit /\ [][Keyboard \/ Timer]_<<vars, time_vars>>
=============================================================================

------------------------------- MODULE MCTask -------------------------------
(***************************************************************************)
(* Task for TLC, with a history variable that remembers who ran while a    *)
(* task was waiting for the processor.                                     *)
(***************************************************************************)
EXTENDS Task

VARIABLE turns      (* Task -> the tasks switched to while it was ready      *)

Ready(t) == state[t] = "RUNNING" /\ t # current_task

MCInit == Init /\ turns = [t \in Task |-> {}]

MCNext ==
    /\ Next
    /\ turns' = [t \in Task |->
                    IF ~Ready(t)' \/ ~Ready(t) THEN {}
                    ELSE IF current_task' # current_task
                    THEN turns[t] \cup {current_task'} ELSE turns[t]]

MCSpec == MCInit /\ [][MCNext]_<<vars, turns>> /\ Fairness

(* task_schedule goes round the whole list from the task that gives up: no  *)
(* task gets the processor twice while another one is ready.                *)
NoOvertaking ==
    [][\A t \in Task : Ready(t) /\ Ready(t)' /\ current_task' # current_task
            => current_task' \notin turns[t]]_<<vars, turns>>
=============================================================================

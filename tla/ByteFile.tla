------------------------------ MODULE ByteFile ------------------------------
(***************************************************************************)
(* What a file on the disk promises to those who read it through handles   *)
(* of their own or a shared one: a read returns the bytes from the         *)
(* position the handle had when the read began, and moves the handle by    *)
(* their number when it ends.  A byte is named by its address.             *)
(*                                                                         *)
(* The promise ends with the first read that runs from one block into      *)
(* another and copies the bytes of the first again (stale): from then on   *)
(* reads return anything.                                                  *)
(***************************************************************************)
EXTENDS Integers

CONSTANTS
    Task,
    Handle,
    Length,         (* bytes of the disk                                     *)
    BlockSize,
    Sizes           (* sizes of reads                                        *)

VARIABLES
    position,       (* Handle -> address                                     *)
    request,        (* Task -> the read it waits for, or Idle                *)
    out,            (* what the last step returned to its caller             *)
    stale

vars == <<position, request, out, stale>>

Idle    == [handle |-> "none"]
Nothing == <<>>
Junk    == -1

Request(h, n) == [handle |-> h, from |-> position[h], size |-> n]
InBounds(h, n) == position[h] + n <= Length
Spans(r) == r.from \div BlockSize # (r.from + r.size - 1) \div BlockSize

(* The bytes asked for; anything once something has gone stale.             *)
Delivers(r) ==
    /\ stale => stale'
    /\ stale' => stale \/ Spans(r)
    /\ IF stale' THEN out' \in [1..r.size -> (0..(Length - 1)) \cup {Junk}]
                 ELSE out' = [i \in 1..r.size |-> r.from + i - 1]

Init ==
    /\ position = [h \in Handle |-> 0]
    /\ request = [t \in Task |-> Idle]
    /\ out = Nothing
    /\ stale = FALSE

Seek(h, p) ==
    /\ position' = [position EXCEPT ![h] = p]
    /\ out' = Nothing
    /\ UNCHANGED <<request, stale>>

(* A read that needs the disk sleeps.                                       *)
Begin(t, h, n) ==
    /\ request[t] = Idle
    /\ InBounds(h, n)
    /\ request' = [request EXCEPT ![t] = Request(h, n)]
    /\ out' = Nothing
    /\ UNCHANGED <<position, stale>>

Finish(t) ==
    /\ request[t] # Idle
    /\ Delivers(request[t])
    /\ position' = [position EXCEPT ![request[t].handle] = @ + request[t].size]
    /\ request' = [request EXCEPT ![t] = Idle]

(* A read that does not need the disk.                                      *)
Read(t, h, n) ==
    /\ request[t] = Idle
    /\ InBounds(h, n)
    /\ Delivers(Request(h, n))
    /\ position' = [position EXCEPT ![h] = @ + n]
    /\ UNCHANGED request

Next ==
    \/ \E h \in Handle, p \in 0..(Length - 1) : Seek(h, p)
    \/ \E t \in Task, h \in Handle, n \in Sizes : Begin(t, h, n)
    \/ \E t \in Task : Finish(t)
    \/ \E t \in Task, h \in Handle, n \in Sizes : Read(t, h, n)

Spec == Init /\ [][Next]_vars
=============================================================================

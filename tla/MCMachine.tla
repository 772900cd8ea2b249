----------------------------- MODULE MCMachine -----------------------------
(* Machine for TLC: four volumes with two clusters in each longer file.      *)
EXTENDS Machine, TLC

CONSTANTS kernel, init, other

File(name, cluster, size) ==
    [kind |-> "file", name |-> name, cluster |-> cluster, size |-> size]
Hidden  == [kind |-> "hidden", name |-> NoName, cluster |-> 2, size |-> 1]
Deleted == [kind |-> "deleted", name |-> NoName, cluster |-> 3, size |-> 3]
End     == [kind |-> "end", name |-> NoName, cluster |-> 0, size |-> 0]

MCFiles == <<kernel, init>>
MCNames == {init, other}

Chained(next) == [c \in 0..5 |-> IF c \in DOMAIN next THEN next[c] ELSE 7]

(* Files of one cluster, of two, out of order, with full last clusters; a   *)
(* directory without end; a table entry that lies across two sectors; no    *)
(* init.                                                                    *)
MCVolumes == {
    [directory |-> <<File(kernel, 2, 11), Deleted, File(init, 4, 5), End>>,
     table |-> Chained(2 :> 3)],
    [directory |-> <<Hidden, File(kernel, 3, 8), Deleted, File(init, 4, 16)>>,
     table |-> Chained(4 :> 2)],
    [directory |-> <<Deleted, File(init, 3, 14), File(kernel, 2, 7), End>>,
     table |-> Chained(3 :> 5)],
    [directory |-> <<File(kernel, 2, 3), End, End, End>>,
     table |-> Chained(<<>>)]}

============================================================================

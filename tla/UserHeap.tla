------------------------------ MODULE UserHeap ------------------------------
(***************************************************************************)
(* The heap of a user program, init/memory.c: one list of blocks in the    *)
(* order of their addresses, each a header and what follows it up to the   *)
(* next.  allocateMemory takes the first block that is large enough,       *)
(* freeMemory merges a block with its free neighbours.                     *)
(*                                                                         *)
(* A program runs alone on its heap.  Headers that are no longer on the    *)
(* list are never read again and left out.  A program frees what it holds. *)
(***************************************************************************)
EXTENDS Integers, FiniteSets, FiniteSetsExt, Functions

CONSTANTS
    First,          (* where the pool begins                                 *)
    OverBlock,      (* overblock, the address behind it                      *)
    Header          (* sizeof(struct BlockHeader)                            *)

ASSUME UserHeapAssumption ==
    /\ First \in Nat \ {0} /\ Header \in Nat \ {0}
    /\ OverBlock \in Nat /\ OverBlock > First + Header

VARIABLES
    list,           (* address of a header -> prev, next, free; empty before *)
                    (* malloc_init                                           *)
    given,          (* history: what allocateMemory returned and nobody      *)
                    (* freed yet                                             *)
    failed          (* the size that allocateMemory has just returned 0 for, *)
                    (* or 0                                                  *)

user_vars == <<list, given, failed>>

NoHeader == 0
Largest  == OverBlock - First - Header

UserTypeOK ==
    /\ DOMAIN list \subseteq First..(OverBlock - 1)
    /\ \A b \in DOMAIN list :
        list[b] \in [prev : {NoHeader} \cup DOMAIN list,
                     next : DOMAIN list \cup {OverBlock}, free : BOOLEAN]
    /\ given \subseteq [address : First..OverBlock, size : 0..Largest]
    /\ failed \in 0..(Largest + 1)

UserInit ==
    /\ list = [b \in {} |-> NoHeader]
    /\ given = {}
    /\ failed = 0

(* malloc_init of memory.c: one free block.                                 *)
UserMallocInit ==
    /\ list = [b \in {} |-> NoHeader]
    /\ list' = [b \in {First} |-> [prev |-> NoHeader, next |-> OverBlock, free |-> TRUE]]
    /\ UNCHANGED <<given, failed>>

(* What a walk from a block along `next', or along `prev', passes.          *)
From(b) ==
    LET walk[n \in 0..Cardinality(DOMAIN list)] ==
            IF n = 0 THEN {b}
            ELSE walk[n - 1] \cup {list[c].next : c \in walk[n - 1] \ {OverBlock}}
    IN  walk[Cardinality(DOMAIN list)]
Back(b) ==
    LET walk[n \in 0..Cardinality(DOMAIN list)] ==
            IF n = 0 THEN {b}
            ELSE walk[n - 1] \cup {list[c].prev : c \in walk[n - 1] \ {NoHeader}}
    IN  walk[Cardinality(DOMAIN list)]

Blocks == From(First) \ {OverBlock}
Room(b) == list[b].next - b - Header
Fits(n) == {b \in Blocks : list[b].free /\ Room(b) >= n}

(* The block is cut behind the first n bytes when more than a header is     *)
(* left.                                                                    *)
(* Mutant: the block behind keeps its prev.                                 *)
SplitKeepsPrev(b, n) ==
    LET new == b + Header + n
    IN  IF Room(b) <= Header + n THEN [list EXCEPT ![b].free = FALSE]
        ELSE [c \in DOMAIN list \cup {new} |->
                CASE c = new -> [prev |-> b, next |-> list[b].next, free |-> TRUE]
                  [] c = b   -> [list[b] EXCEPT !.next = new, !.free = FALSE]
                  [] OTHER   -> list[c]]
Split(b, n) ==
    LET new == b + Header + n
    IN  IF Room(b) <= Header + n THEN [list EXCEPT ![b].free = FALSE]
        ELSE [c \in DOMAIN list \cup {new} |->
                CASE c = new -> [prev |-> b, next |-> list[b].next, free |-> TRUE]
                  [] c = b   -> [list[b] EXCEPT !.next = new, !.free = FALSE]
                  [] c = list[b].next -> [list[c] EXCEPT !.prev = new]
                  [] OTHER   -> list[c]]

AllocateMemory(n) ==
    /\ list # [b \in {} |-> NoHeader]
    /\ IF Fits(n) = {}
       THEN failed' = n /\ UNCHANGED <<list, given>>
       ELSE /\ list' = Split(Min(Fits(n)), n)
            /\ given' = given \cup {[address |-> Min(Fits(n)) + Header, size |-> n]}
            /\ failed' = 0

(* mergeFreeBlocks: from the first of the free blocks before b to the block *)
(* after the last free one behind it.  If that is overblock, its prev is    *)
(* written all the same, behind the pool.                                   *)
MergeFreeBlocks(l, b) ==
    LET free(c)    == c \in DOMAIN l /\ l[c].free
        first_free == Max({c \in Back(b) \ {NoHeader} :
                              ~free(l[c].prev)})
        last_free  == Min({c \in From(b) : ~free(c)})
        kept       == {c \in DOMAIN l : c <= first_free \/ c >= last_free}
    IN  [c \in kept |->
            CASE c = first_free -> [l[c] EXCEPT !.next = last_free]
              [] c = last_free  -> [l[c] EXCEPT !.prev = first_free]
              [] OTHER          -> l[c]]

FreeMemory(g) ==
    /\ g \in given
    /\ LET b == g.address - Header
       IN  list' = IF b \in Blocks THEN MergeFreeBlocks([list EXCEPT ![b].free = TRUE], b)
                   ELSE list
    /\ given' = given \ {g}
    /\ failed' = 0

UserNext ==
    \/ UserMallocInit
    \/ \E n \in 1..(Largest + 1) : AllocateMemory(n)
    \/ \E g \in given : FreeMemory(g)

-----------------------------------------------------------------------------
(* What a program holds lies in the pool, each in a block of its own that   *)
(* ends before the next header; and allocateMemory fails only when no gap   *)
(* between the blocks in use has room for a header and what was asked for.  *)
InUse == {b \in DOMAIN list : ~list[b].free}
Gap(from, to) == from < to /\ \A b \in InUse : b >= to \/ list[b].next <= from

UserHeapRight ==
    /\ \A g \in given :
        LET b == g.address - Header
        IN  /\ b \in InUse
            /\ g.address + g.size <= list[b].next
    /\ \A b \in InUse : list[b].next <= OverBlock /\ \A c \in InUse : c > b => list[b].next <= c
    /\ failed # 0 =>
        \A from \in First..OverBlock :
            ~Gap(from, from + Header + failed) \/ from + Header + failed > OverBlock
=============================================================================

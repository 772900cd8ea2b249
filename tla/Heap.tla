-------------------------------- MODULE Heap --------------------------------
(***************************************************************************)
(* The kernel heap of kernel/malloc.c: zones of blocks of one size each,   *)
(* and one bitmap over the blocks of all zones.                            *)
(*                                                                         *)
(* malloc and free run with interrupts enabled, one task at a time.        *)
(* Interrupt handlers never allocate, but clock_func and                   *)
(* irq_resume_waiting_tasks free what a task allocated.  An update of a    *)
(* byte of the bitmap is a read, a modification and a write, and the       *)
(* handlers may come in between.  Handlers are whole: two of them on the   *)
(* same byte would be the same race once more.                             *)
(*                                                                         *)
(* Requests are at most as large as the largest zone's blocks, and only    *)
(* what malloc returned is freed or reallocated.  used_bytes is for display *)
(* only.  The pool holds the blocks of Initial, and the bitmap all blocks.  *)
(***************************************************************************)
EXTENDS Naturals, FiniteSets, FiniteSetsExt

CONSTANTS
    Zones,          (* SIZE_COUNT                                            *)
    Size,           (* zone -> size of its blocks, ascending                 *)
    Initial,        (* zone -> blocks in it from the start                   *)
    Expand,         (* zone -> blocks added to it in each round of           *)
                    (* malloc_init                                           *)
    Pool,           (* bytes between malloc_init's start and end             *)
    ByteBits        (* bits of a byte of the bitmap: 8 in the code           *)

(* What the first z zones have of f together.                               *)
Sum(f) == LET sum[z \in 0..Zones] == IF z = 0 THEN 0 ELSE sum[z - 1] + f[z]
          IN  sum

(* malloc_init: what blocks take, the rounds in which all zones grow, and   *)
(* the blocks that the first zone then still takes.                         *)
Taken(count) == Sum([z \in 1..Zones |-> count[z] * Size[z]])
Bytes(count) == Taken(count)[Zones]
Grown(n) == [z \in 1..Zones |-> Initial[z] + n * Expand[z]]
Rounds   == Max({n \in 0..Pool : Bytes(Grown(n)) <= Pool})
Count    == [Grown(Rounds) EXCEPT ![1] = @ + (Pool - Bytes(Grown(Rounds))) \div Size[1]]

ASSUME HeapAssumption ==
    /\ Zones \in Nat \ {0}
    /\ Size \in [1..Zones -> Nat \ {0}]
    /\ {Initial, Expand} \subseteq [1..Zones -> Nat]
    /\ \E z \in 1..Zones : Expand[z] > 0
    /\ Pool \in Nat /\ Bytes(Initial) <= Pool
    /\ \A y, z \in 1..Zones : y < z => Size[y] < Size[z]
    /\ ByteBits \in Nat \ {0}

VARIABLES
    bitmap,         (* the blocks whose bit is set                           *)
    held,           (* history: what malloc returned and nobody freed yet    *)
    call,           (* what the task does next in malloc or free             *)
    size,           (* argument of malloc                                    *)
    current_block,
    byte,           (* the bits of current_block's byte, to be written back  *)
    panic,
    free_all_along, (* history: blocks large enough that have been free ever *)
                    (* since malloc was called                               *)
    old,            (* what realloc will free after its malloc, or NoBlock   *)
    raced           (* history: a handler freed in a byte that was being     *)
                    (* updated                                               *)

vars == <<bitmap, held, call, size, current_block, byte, panic,
          free_all_along, old, raced>>

NoBlock == [by |-> "nobody"]

(* The first block of a zone, and its offset in the pool.                   *)
FirstBlock   == [z \in 1..(Zones + 1) |-> Sum(Count)[z - 1]]
FirstAddress == [z \in 1..(Zones + 1) |-> Taken(Count)[z - 1]]

total_blocks == FirstBlock[Zones + 1]

(* The first zone whose blocks are large enough.                            *)
ZoneFor(n) == CHOOSE z \in 1..Zones : /\ Size[z] >= n
                                      /\ \A y \in 1..(z - 1) : Size[y] < n

(* The zone that a block, or an address in the pool, belongs to.            *)
ZoneOf(b) == CHOOSE z \in 1..Zones : FirstBlock[z] <= b /\ b < FirstBlock[z + 1]
ZoneAt(a) == CHOOSE z \in 1..Zones : FirstAddress[z] <= a /\ a < FirstAddress[z + 1]

(* Mutant: the offset in the zone is not scaled.                            *)
AddressUnscaled(b) == FirstAddress[ZoneOf(b)] + (b - FirstBlock[ZoneOf(b)])

(* malloc's way from a block to its address, and free's way back.           *)
Address(b) == FirstAddress[ZoneOf(b)] + Size[ZoneOf(b)] * (b - FirstBlock[ZoneOf(b)])
Block(a)   == FirstBlock[ZoneAt(a)] + (a - FirstAddress[ZoneAt(a)]) \div Size[ZoneAt(a)]

(* The bits of the byte that holds the bit of block b.                      *)
ByteOf(b) == LET first == ByteBits * (b \div ByteBits)
             IN  first..(first + ByteBits - 1)

Flip(S, b) == IF b \in S THEN S \ {b} ELSE S \cup {b}

TypeOK ==
    /\ bitmap \subseteq 0..(total_blocks - 1)
    /\ held \subseteq [address : 0..(Pool - 1), size : 1..Size[Zones],
                       by : {"task", "irq"}]
    /\ call \in {"none", "bytes", "blocks", "set", "write", "free_write"}
    /\ size \in 0..Size[Zones]
    /\ current_block \in 0..(total_blocks + ByteBits)
    /\ byte \subseteq 0..(total_blocks - 1)
    /\ panic \in BOOLEAN
    /\ free_all_along \subseteq 0..(total_blocks - 1)
    /\ old \in held \cup {NoBlock}
    /\ raced \in BOOLEAN

Init ==
    /\ bitmap = {}
    /\ held = {}
    /\ call = "none"
    /\ size = 0
    /\ current_block = 0
    /\ byte = {}
    /\ panic = FALSE
    /\ free_all_along = {}
    /\ old = NoBlock
    /\ raced = FALSE

-----------------------------------------------------------------------------
(* malloc *)

Search(n) ==
    /\ ~panic /\ call = "none" /\ old = NoBlock
    /\ call' = "bytes"
    /\ size' = n
    /\ current_block' = FirstBlock[ZoneFor(n)]
    /\ free_all_along' = {b \in FirstBlock[ZoneFor(n)]..(total_blocks - 1) :
                            b \notin bitmap}
    /\ UNCHANGED <<bitmap, held, byte, panic, raced>>

Malloc(n) == Search(n) /\ UNCHANGED old

(* realloc: malloc, and when it has returned, the copy and free.            *)
Realloc(h, n) ==
    /\ h.by = "task"
    /\ Search(n)
    /\ old' = h

(* Mutant: a whole byte further, without going back to its first bit.       *)
SkipBytesUnaligned ==
    /\ ~panic /\ call = "bytes"
    /\ IF ByteOf(current_block) \subseteq bitmap /\ current_block < total_blocks
       THEN /\ current_block' = current_block + ByteBits
            /\ UNCHANGED call
       ELSE /\ call' = "blocks"
            /\ UNCHANGED current_block
    /\ UNCHANGED <<bitmap, held, size, byte, panic, free_all_along, old, raced>>

(* Full bytes are skipped, the rest of the byte the zone begins in first.   *)
SkipBytes ==
    /\ ~panic /\ call = "bytes"
    /\ IF ByteOf(current_block) \subseteq bitmap /\ current_block < total_blocks
       THEN /\ current_block' = ByteBits * ((current_block + ByteBits) \div ByteBits)
            /\ UNCHANGED call
       ELSE /\ call' = "blocks"
            /\ UNCHANGED current_block
    /\ UNCHANGED <<bitmap, held, size, byte, panic, free_all_along, old, raced>>

(* Mutant: the search for a block does not look for the end.                *)
SkipBlocksUnbounded ==
    /\ ~panic /\ call = "blocks"
    /\ IF current_block \in bitmap
       THEN /\ current_block' = current_block + 1
            /\ UNCHANGED call
       ELSE /\ call' = "set"
            /\ UNCHANGED current_block
    /\ UNCHANGED <<bitmap, held, size, byte, panic, free_all_along, old, raced>>

SkipBlocks ==
    /\ ~panic /\ call = "blocks"
    /\ IF current_block < total_blocks /\ current_block \in bitmap
       THEN /\ current_block' = current_block + 1
            /\ UNCHANGED <<call, panic>>
       ELSE /\ call' = "set"
            /\ panic' = (current_block >= total_blocks)
            /\ UNCHANGED current_block
    /\ UNCHANGED <<bitmap, held, size, byte, free_all_along, old, raced>>

(* Mutant: = for |=.                                                        *)
ReadByteOverwrites ==
    /\ ~panic /\ call = "set"
    /\ byte' = {current_block}
    /\ call' = "write"
    /\ UNCHANGED <<bitmap, held, size, current_block, panic, free_all_along,
                   old, raced>>

ReadByte ==
    /\ ~panic /\ call = "set"
    /\ byte' = (bitmap \cap ByteOf(current_block)) \cup {current_block}
    /\ call' = "write"
    /\ UNCHANGED <<bitmap, held, size, current_block, panic, free_all_along,
                   old, raced>>

(* malloc and free return.                                                  *)
Return ==
    /\ call' = "none"
    /\ size' = 0
    /\ current_block' = 0
    /\ byte' = {}
    /\ free_all_along' = {}
    /\ UNCHANGED <<panic, raced>>

Written == (bitmap \ ByteOf(current_block)) \cup byte

WriteByte ==
    /\ ~panic /\ call = "write"
    /\ bitmap' = Written
    /\ held' = held \cup {[address |-> Address(current_block), size |-> size,
                           by |-> "task"]}
    /\ Return
    /\ UNCHANGED old

-----------------------------------------------------------------------------
(* free *)

Free(h) ==
    /\ ~panic /\ call = "none" /\ old \in {NoBlock, h}
    /\ h.by = "task"
    /\ held' = held \ {h}
    /\ current_block' = Block(h.address)
    /\ byte' = Flip(bitmap \cap ByteOf(Block(h.address)), Block(h.address))
    /\ call' = "free_write"
    /\ old' = NoBlock
    /\ UNCHANGED <<bitmap, size, panic, free_all_along, raced>>

FreeWrite ==
    /\ ~panic /\ call = "free_write"
    /\ bitmap' = Written
    /\ Return
    /\ UNCHANGED <<held, old>>

(* A task puts what it allocated on a list that an interrupt handler frees. *)
HandOver(h) ==
    /\ ~panic /\ call = "none" /\ old = NoBlock
    /\ h.by = "task"
    /\ held' = (held \ {h}) \cup {[h EXCEPT !.by = "irq"]}
    /\ UNCHANGED <<bitmap, call, size, current_block, byte, panic,
                   free_all_along, old, raced>>

(* free, called by a handler between two steps of the task.                 *)
IrqFree(h) ==
    /\ ~panic
    /\ h.by = "irq"
    /\ held' = held \ {h}
    /\ bitmap' = Flip(bitmap, Block(h.address))
    /\ raced' = (raced \/ (/\ call \in {"write", "free_write"}
                           /\ Block(h.address) \in ByteOf(current_block)))
    /\ UNCHANGED <<call, size, current_block, byte, panic, free_all_along,
                   old>>

Next ==
    \/ \E n \in 1..Size[Zones] : Malloc(n) \/ \E h \in held : Realloc(h, n)
    \/ SkipBytes \/ SkipBlocks \/ ReadByte \/ WriteByte
    \/ \E h \in held : Free(h) \/ HandOver(h) \/ IrqFree(h)
    \/ FreeWrite

Spec == Init /\ [][Next]_vars

-----------------------------------------------------------------------------
(* What is handed out lies in the pool and does not overlap, whatever the   *)
(* interrupts do.                                                           *)
NoOverlap ==
    \A g, h \in held :
        /\ g.address + g.size <= Pool
        /\ g # h => \/ g.address + g.size <= h.address
                    \/ h.address + h.size <= g.address

(* malloc gives up only when no block that is large enough was free all the *)
(* time it searched.                                                        *)
OutOfMemHonest == panic => free_all_along = {}

(* What is handed out stays marked; and when no task is in malloc or free,  *)
(* nothing else is marked, unless a handler freed a block while its byte of *)
(* the bitmap was being updated.                                            *)
MarksRight ==
    /\ \A h \in held : Block(h.address) \in bitmap
    /\ call = "none" /\ ~raced => bitmap = {Block(h.address) : h \in held}
=============================================================================

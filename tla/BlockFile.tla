------------------------------ MODULE BlockFile ------------------------------
(***************************************************************************)
(* kernel/fs/block.c: reads of any size from a device that reads blocks,   *)
(* with a cache that keeps the first CachedBlocks blocks for ever.         *)
(*                                                                         *)
(* blockfile_read sleeps at most once, in the driver, for its first block: *)
(* tmp is not reset, so no later block is read.  What it does before and   *)
(* after that sleep are one action each.  There is one device.  A buffer   *)
(* holds one block: content says which.                                    *)
(***************************************************************************)
EXTENDS Uint64, Sequences, FiniteSetsExt

CONSTANTS
    Task,
    Handle,         (* struct FileHandles, which tasks may share             *)
    Null,
    Buffer,         (* what malloc returns                                   *)
    Exponent,       (* block_size_exponent                                   *)
    Blocks,         (* blocks of the device                                  *)
    CachedBlocks,   (* CACHED_BLOCKS                                         *)
    Sizes           (* sizes of reads                                        *)

BlockSize == 2 ^ Exponent
Length    == Blocks * BlockSize

ASSUME BlockAssumption ==
    /\ IsFiniteSet(Task) /\ Cardinality(Task) <= Limb     (* at most 8: task.c *)
    /\ Exponent \in 1..LimbBits
    /\ Blocks \in Nat \ {0}
    /\ CachedBlocks \in Nat
    /\ Sizes \subseteq 1..(Limb - 1)
    /\ Length < Limb * Limb
    /\ Null \notin Buffer

Slot == 1..CachedBlocks
None == CachedBlocks + 1    (* buffer_used when no slot matches              *)
Junk == -1
Idle == [handle |-> "none"]
Position(p) == Init64(0, 0, p \div Limb, p % Limb)

VARIABLES
    handle_position,
    cached_block,   (* Slot -> block and buffer                              *)
    allocated,      (* buffers that are malloc'ed                            *)
    content,        (* Buffer -> number of the block it holds, or Junk       *)
    locals,         (* Task -> locals of the blockfile_read that sleeps      *)
    out,            (* the bytes of the blockfile_read that returned last    *)
    stale,          (* history: a block was copied from the buffer of the    *)
                    (* block before it                                       *)
    dropped         (* history: a buffer not in the cache was forgotten      *)

vars == <<handle_position, cached_block, allocated, content, locals, out, stale,
          dropped>>

Locals == [handle : Handle, from : Uint64, size : Sizes, block : Uint64,
           end_block : Uint64, part_begin : 0..(BlockSize - 1), tmp : Buffer]

TypeOK ==
    /\ handle_position \in [Handle -> Uint64]
    /\ cached_block \in [Slot -> [block : Uint64, buffer : Buffer \cup {Null}]]
    /\ allocated \subseteq Buffer
    /\ content \in [Buffer -> {Junk} \cup 0..(Blocks - 1)]
    /\ locals \in [Task -> Locals \cup {Idle}]
    /\ out \in Seq({Junk} \cup 0..(Length - 1))
    /\ stale \in BOOLEAN /\ dropped \in BOOLEAN

Init ==
    /\ handle_position = [h \in Handle |-> Word(0)]
    /\ cached_block = [s \in Slot |-> [block |-> Word(0), buffer |-> Null]]
    /\ allocated = {}
    /\ content = [b \in Buffer |-> Junk]
    /\ locals = [t \in Task |-> Idle]
    /\ out = <<>>
    /\ stale = FALSE
    /\ dropped = FALSE

-----------------------------------------------------------------------------
(* The statements before the loop, and the part of the first block.         *)

(* Mutant: the position in the block keeps the bits of the block number.    *)
EnterUnmasked(h, n) ==
    LET from == handle_position[h]
    IN  [handle |-> h, from |-> from, size |-> n,
         block |-> Shr64(from, Exponent),
         end_block |-> Shr64(Add64(from, Word(n - 1)), Exponent),
         part_begin |-> from[0]]
Enter(h, n) ==
    LET from == handle_position[h]
    IN  [handle |-> h, from |-> from, size |-> n,
         block |-> Shr64(from, Exponent),
         end_block |-> Shr64(Add64(from, Word(n - 1)), Exponent),
         part_begin |-> from[0] % BlockSize]

(* The slot of the cache that has the block, and one that is free.          *)
SlotOf(cache, block) ==
    LET hits == {s \in Slot : cache[s].buffer # Null /\ Cmp64(block, cache[s].block) = 0}
    IN  IF hits = {} THEN None ELSE Min(hits)
(* Mutant: a full cache replaces its first block.                           *)
FreeSlotReplaces(cache) ==
    LET free == {s \in Slot : cache[s].buffer = Null}
    IN  IF free = {} THEN 1 ELSE Min(free)
FreeSlot(cache) ==
    LET free == {s \in Slot : cache[s].buffer = Null}
    IN  IF free = {} THEN None ELSE Min(free)

(* A part of a block, as addresses.                                         *)
Bytes(block, from, n) ==
    [i \in 1..n |-> IF block = Junk THEN Junk ELSE block * BlockSize + from + i - 1]

(* The part is copied from tmp, tmp goes into a free slot if the block is   *)
(* not in the cache (slot = None), and handle and block move on.  s is the  *)
(* state of the loop.                                                       *)
Copy(s, slot, tmp, part_begin) ==
    LET n   == IF Cmp64(s.block, s.end_block) = 0 THEN s.size - Len(s.out)
                                                  ELSE BlockSize - part_begin
        put == IF slot = None THEN FreeSlot(s.cache) ELSE None
    IN  [s EXCEPT !.cache = IF put = None THEN @
                            ELSE [@ EXCEPT ![put] = [block |-> s.block, buffer |-> tmp]],
                  !.used = IF slot = None THEN put ELSE slot,
                  !.tmp = tmp,
                  !.out = @ \o Bytes(s.content[tmp], part_begin, n),
                  !.position = Add64(@, Word(n)),
                  !.block = Inc64(@)]

(* A round for a block after the first.  Without a hit, tmp is still that   *)
(* of the block before.                                                     *)
Round(s) ==
    IF Cmp64(s.block, s.end_block) > 0 \/ Len(s.out) >= s.size THEN s
    ELSE LET slot == SlotOf(s.cache, s.block)
             tmp  == IF slot = None THEN s.tmp ELSE s.cache[slot].buffer
         IN  Copy([s EXCEPT !.stale = @ \/ slot = None,
                            !.dropped = @ \/ (s.used = None /\ slot # None)],
                  slot, tmp, 0)

(* The whole loop, for a first block that is in tmp: in a slot of the cache *)
(* or, if slot is None, read from the device.                               *)
Loop(r, slot, tmp, c) ==
    LET start == [block |-> r.block, end_block |-> r.end_block, size |-> r.size,
                  position |-> handle_position[r.handle], cache |-> cached_block,
                  content |-> c, used |-> slot, tmp |-> tmp, out |-> <<>>,
                  stale |-> stale, dropped |-> dropped]
        after[i \in 0..Blocks] == IF i = 0 THEN Copy(start, slot, tmp, r.part_begin)
                                  ELSE Round(after[i - 1])
    IN  after[Blocks]

(* free() flips the bit of the buffer, see Heap; others may then write it.  *)
Freed(b) == (allocated \ {b}) \cup ({b} \ allocated)

(* blockfile_read returns; tmp is freed when it is not in the cache.        *)
(* Mutant: tmp is freed although it has gone into the cache.                *)
FinishFreesCached(r, s) ==
    /\ handle_position' = [handle_position EXCEPT ![r.handle] = s.position]
    /\ cached_block' = s.cache
    /\ allocated' = Freed(s.tmp)
    /\ content' = s.content
    /\ out' = s.out
    /\ stale' = s.stale
    /\ dropped' = s.dropped
Finish(r, s) ==
    /\ handle_position' = [handle_position EXCEPT ![r.handle] = s.position]
    /\ cached_block' = s.cache
    /\ allocated' = IF s.used = None THEN Freed(s.tmp) ELSE allocated
    /\ content' = [b \in Buffer |-> IF b \in allocated' THEN s.content[b] ELSE Junk]
    /\ out' = s.out
    /\ stale' = s.stale
    /\ dropped' = s.dropped

-----------------------------------------------------------------------------
(* With the first stale copy the promise has ended, and the model stops.    *)

(* file_seek, by whoever holds the handle.                                  *)
FileSeek(h, p) ==
    /\ ~stale
    /\ handle_position' = [handle_position EXCEPT ![h] = p]
    /\ out' = <<>>
    /\ UNCHANGED <<cached_block, allocated, content, locals, stale, dropped>>

(* Callers stay within the device.                                          *)
Starts(t, h, n) ==
    /\ ~stale
    /\ locals[t] = Idle
    /\ Value(handle_position[h]) + n <= Length

(* The first block is in the cache: the read does not sleep.                *)
ReadHit(t, h, n) ==
    /\ Starts(t, h, n)
    /\ LET r    == Enter(h, n)
           slot == SlotOf(cached_block, r.block)
       IN  /\ slot # None
           /\ Finish(r, Loop(r, slot, cached_block[slot].buffer, content))
    /\ UNCHANGED locals

(* It is not: the driver reads it into a new buffer.                        *)
ReadMiss(t, h, n) ==
    /\ Starts(t, h, n)
    /\ LET r == Enter(h, n)
       IN  /\ SlotOf(cached_block, r.block) = None
           /\ \E b \in Buffer \ allocated :
                /\ allocated' = allocated \cup {b}
                /\ locals' = [locals EXCEPT ![t] = [handle |-> h, from |-> r.from,
                        size |-> n, block |-> r.block, end_block |-> r.end_block,
                        part_begin |-> r.part_begin, tmp |-> b]]
    /\ out' = <<>>
    /\ UNCHANGED <<handle_position, cached_block, content, stale, dropped>>

(* The driver has read the block.                                           *)
ReadDone(t) ==
    /\ ~stale
    /\ locals[t] # Idle
    /\ LET r == locals[t]
       IN  Finish(r, Loop(r, None, r.tmp, [content EXCEPT ![r.tmp] = Value(r.block)]))
    /\ locals' = [locals EXCEPT ![t] = Idle]

Next ==
    \/ \E h \in Handle, p \in 0..(Length - 1) : FileSeek(h, Position(p))
    \/ \E t \in Task, h \in Handle, n \in Sizes :
            ReadHit(t, h, n) \/ ReadMiss(t, h, n)
    \/ \E t \in Task : ReadDone(t)

Spec == Init /\ [][Next]_vars

-----------------------------------------------------------------------------
(* What block.c promises *)

Cached  == {s \in Slot : cached_block[s].buffer # Null}
InCache == {cached_block[s].buffer : s \in Cached}
Busy    == {t \in Task : locals[t] # Idle}
Tmps    == {locals[t].tmp : t \in Busy}

(* What is in the cache is what is on the disk, also after tasks have read  *)
(* the same block at the same time, until a read copies from the buffer of  *)
(* the block before.                                                        *)
CacheCoherent ==
    ~stale => \A s \in Cached :
                 /\ cached_block[s].buffer \in allocated
                 /\ content[cached_block[s].buffer] = Value(cached_block[s].block)

(* Every buffer is in one slot of the cache, or belongs to one read under   *)
(* way, or is free; until a read leaves its own buffer for one of the cache *)
(* or frees one of the cache.                                               *)
BuffersAccounted ==
    ~stale /\ ~dropped =>
        /\ allocated = InCache \cup Tmps
        /\ InCache \cap Tmps = {}
        /\ \A r, s \in Cached : cached_block[r].buffer = cached_block[s].buffer => r = s
        /\ \A t, u \in Busy : locals[t].tmp = locals[u].tmp => t = u

(* Reads return the bytes of the disk.                                      *)
Promise == INSTANCE ByteFile WITH
    position <- [h \in Handle |-> Value(handle_position[h])],
    request  <- [t \in Task |-> IF locals[t] = Idle THEN Idle
                    ELSE [handle |-> locals[t].handle,
                          from |-> Value(locals[t].from), size |-> locals[t].size]]
ReadsTheDisk == Promise!Spec
=============================================================================

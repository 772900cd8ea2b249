-------------------------------- MODULE Fat --------------------------------
(***************************************************************************)
(* kernel/fs/fat/fat.c: tasks look up names on a volume, list it and read  *)
(* its files, all through the one file handle of the volume.  That handle  *)
(* is on a block file: a read sleeps in it and other tasks run.  It        *)
(* returns the bytes at the position the handle had when it began, see     *)
(* BlockFile and ByteFile, until a read runs over the end of a sector and  *)
(* returns anything (overran).                                             *)
(*                                                                         *)
(* A task runs from one read of the disk to the next in one action.        *)
(* Clusters have one sector.  An unsigned int has LimbBits bits, two bytes *)
(* in the code; positions are Uint64s.                                     *)
(***************************************************************************)
EXTENDS Uint64, Volume

CONSTANTS
    Caller,
    SectorShift,    (* the literal 9 of parse_params                         *)
    Names,          (* names that tasks look up                              *)
    Positions,      (* positions and sizes of reads                          *)
    Counts

ASSUME FatAssumption ==
    /\ Nibble * EntryValues = Limb
    /\ SectorShift \in 0..(LimbBits - 1) /\ SectorSize = 2 ^ SectorShift
    /\ RootSector < Limb /\ EntrySize < Limb
    /\ RootSectors * SectorSize < Limb
    /\ SectorSize % EntrySize = 0
    /\ Positions \subseteq 0..(Limb * Limb - 1)
    /\ Counts \subseteq 1..(Limb - 1)

VARIABLES
    root,           (* struct FatRootDirectory once create_fat_fs has run    *)
    position,       (* root->handle->position                                *)
    calls,          (* Caller -> locals of the call that sleeps              *)
    returned,       (* the call that has returned in the last step           *)
    overran         (* history: a read ran over the end of a sector          *)

fat_vars == <<root, position, calls, returned, overran>>

Unmounted == [handle |-> "none"]
NoCall  == [op |-> "none"]
Nothing == [op |-> "none"]
NoName  == -1
U64(n)  == Init64(0, 0, n \div Limb, n % Limb)
(* Mutant: signed integers.                                                 *)
MinusSigned(a, b) == a - b
Minus(a, b) == (a - b) % Limb

Reading  == [op : {"read"}, at : {"entry", "fat", "data"}, file : Uint64, from : Uint64,
             count : Counts, disk : Uint64, offset : 0..(Limb - 1),
             end_offset : 0..(Limb - 1), left : Uint64, cluster : 0..(Limb - 1),
             next : 0..(Limb - 1), size : 0..(Limb - 1), bytes : Seq(Int)]
Scanning == [op : {"find", "list"}, name : Names \cup {NoName}, after : 0..RootEntries,
             position : Uint64, overlapped : BOOLEAN]

FatTypeOK ==
    /\ root = Unmounted \/ root \in [root_begin : Uint64, root_end : Uint64,
                                     fat_begin : Uint64, cluster_pot : 0..LimbBits]
    /\ position \in Uint64
    /\ calls \in [Caller -> {NoCall} \cup Reading \cup Scanning]
    /\ overran \in BOOLEAN

FatInit ==
    /\ root = Unmounted
    /\ position = U64(0)
    /\ calls = [t \in Caller |-> NoCall]
    /\ returned = Nothing
    /\ overran = FALSE

-----------------------------------------------------------------------------
(* create_fat_fs *)

(* parse_params; the position of the tables is that of the reserved         *)
(* sectors, and cluster_pot counts how often the size can be halved.        *)
ParseParams ==
    [root_begin  |-> Shl64(Word(Reserved + Fats * SectorsPerFat), SectorShift),
     root_end    |-> Add64_16(Shl64(Word(Reserved + Fats * SectorsPerFat), SectorShift),
                              RootSectors * SectorSize),
     fat_begin   |-> Shl64(Word(Reserved), SectorShift),
     cluster_pot |-> Max({p \in 0..LimbBits : SectorSize % 2 ^ p = 0})]

(* fat_read_parameters reads the boot sector from position 0.               *)
CreateFatFs ==
    /\ root = Unmounted
    /\ root' = ParseParams
    /\ position' = Add64(U64(0), Word(SectorSize))
    /\ returned' = Nothing
    /\ UNCHANGED <<calls, overran>>

-----------------------------------------------------------------------------
(* The volume's handle *)

Spans(from, n) == from \div SectorSize # (from + n - 1) \div SectorSize

(* A task leaves its own locals behind and the handle at p.  Who is in the  *)
(* middle of a scan will go on from there.                                  *)
Leave(t, mine, p) ==
    /\ position' = p
    /\ calls' = [u \in Caller |->
                    IF u = t THEN mine
                    ELSE IF calls[u].op \in {"find", "list"} /\ p # position
                    THEN [calls[u] EXCEPT !.overlapped = TRUE] ELSE calls[u]]

(* The task has a read of n bytes at position p begun, and sleeps.          *)
Sleeps(t, mine, p) == Leave(t, mine, p) /\ returned' = Nothing

(* The read of n bytes has ended: file_read moves the handle from wherever  *)
(* it is now.                                                               *)
Moved(n) == Add64(position, Word(n))

(* What a read of a directory entry returns: the entry or, from elsewhere   *)
(* on the disk, whatever bytes are there.                                   *)
Entries == {v.directory[s] : v \in Volumes, s \in 1..RootEntries}
EntriesAt(p) ==
    LET here == {s \in 1..RootEntries : EntryAddress(s) = p}
    IN  IF here = {} THEN Entries ELSE {directory[s] : s \in here}

(* What a read of two bytes in the tables returns.                          *)
WordsAt(p) ==
    IF Spans(p, 2) THEN 0..(Limb - 1) ELSE {TableWord(p - Reserved * SectorSize)}

Returns(t, result, p) == Leave(t, NoCall, p) /\ returned' = result

-----------------------------------------------------------------------------
(* fat_read_file *)

(* Up to the read of the directory entry.                                   *)
StartRead(t, slot, from, n) ==
    /\ ~overran /\ root # Unmounted /\ calls[t] = NoCall
    /\ LET file == U64(EntryAddress(slot))
           pos  == U64(from)
       IN  Sleeps(t, [op |-> "read", at |-> "entry", file |-> file, from |-> pos,
                      count |-> n, disk |-> file,
                      offset |-> ShiftedOut(pos, root.cluster_pot),
                      end_offset |-> 0, left |-> Shr64(pos, root.cluster_pot),
                      cluster |-> 0, next |-> 0, size |-> 0, bytes |-> <<>>],
                  file)
    /\ UNCHANGED <<root, overran>>

(* The head of the loop: the read of the table for the current cluster, or  *)
(* the return.  r has the locals, p the position of the handle.             *)
ReadLoop(t, r, p) ==
    IF Len(r.bytes) < r.count /\ r.cluster < BadCluster
    THEN LET disk == Add64(Word((r.cluster + r.cluster \div 2) % Limb), root.fat_begin)
         IN  Sleeps(t, [r EXCEPT !.at = "fat", !.disk = disk], disk)
    ELSE Returns(t, [op |-> "read", file |-> r.file, from |-> r.from, count |-> r.count,
                     bytes |-> r.bytes, position |-> Add64_16(r.from, Len(r.bytes))], p)

AfterEntry(t) ==
    /\ ~overran /\ calls[t].op = "read" /\ calls[t].at = "entry"
    /\ \E entry \in EntriesAt(Value(calls[t].disk)) :
        ReadLoop(t, [calls[t] EXCEPT !.end_offset = ShiftedOut(Word(entry.size % Limb),
                                                            root.cluster_pot),
                                  !.cluster = entry.cluster],
             Moved(EntrySize))
    /\ UNCHANGED <<root, overran>>

Decode(cluster, word) ==
    IF cluster % 2 = 1 THEN word \div Nibble ELSE word % EntryValues

(* How much of a cluster is read: to its end, in the last one only up to    *)
(* the end of the file, and no more than was asked for.                     *)
(* Mutant: the last cluster is read to its end.                             *)
PartSizeWhole(r, next) ==
    LET size == Minus(2 ^ root.cluster_pot, r.offset)
    IN  IF size > r.count - Len(r.bytes) THEN r.count - Len(r.bytes) ELSE size
PartSize(r, next) ==
    LET size  == Minus(2 ^ root.cluster_pot, r.offset)
        inner == IF next > BadCluster /\ (r.offset + size) % Limb > r.end_offset
                 THEN Minus(r.end_offset, r.offset) ELSE size
    IN  IF inner > r.count - Len(r.bytes) THEN r.count - Len(r.bytes) ELSE inner

DataPosition(r) ==
    Add64_16(Add64(Shl64(Word(Minus(r.cluster, 2)), root.cluster_pot), root.root_end),
             r.offset)

(* The entry of the table has been read.  A cluster before the position is  *)
(* skipped; of the others a part is read, if there is any.                  *)
AfterFat(t) ==
    /\ ~overran /\ calls[t].op = "read" /\ calls[t].at = "fat"
    /\ \E word \in WordsAt(Value(calls[t].disk)) :
        LET r    == calls[t]
            next == Decode(r.cluster, word)
            size == PartSize(r, next)
        IN  IF Cmp64_16(r.left, 0) # 0
            THEN ReadLoop(t, [r EXCEPT !.left = Dec64(@), !.cluster = next], Moved(2))
            ELSE IF size = 0
            THEN ReadLoop(t, [r EXCEPT !.offset = 0, !.cluster = next], DataPosition(r))
            ELSE Sleeps(t, [r EXCEPT !.at = "data", !.next = next, !.size = size,
                                     !.disk = DataPosition(r)],
                        DataPosition(r))
    /\ overran' = Spans(Value(calls[t].disk), 2)
    /\ UNCHANGED root

AfterData(t) ==
    /\ ~overran /\ calls[t].op = "read" /\ calls[t].at = "data"
    /\ LET r == calls[t]
       IN  ReadLoop(t, [r EXCEPT !.bytes = @ \o [i \in 1..r.size |-> Value(r.disk) + i - 1],
                             !.offset = 0, !.cluster = r.next],
                Moved(r.size))
    /\ overran' = Spans(Value(calls[t].disk), calls[t].size)
    /\ UNCHANGED root

-----------------------------------------------------------------------------
(* fat_root_get_node_by_name and fat_root_get_next_node *)

(* The head of the loop, with the local position p0 and the handle at p.    *)
Scan(t, s, p0, p) ==
    IF Cmp64(p0, root.root_end) < 0
    THEN Sleeps(t, [s EXCEPT !.position = p], p)
    ELSE Returns(t, [op |-> s.op, name |-> s.name, after |-> s.after,
                     overlapped |-> s.overlapped, found |-> FALSE], p)

(* Mutant: the position of the handle is left where the last reader left it. *)
StartScanNoSeek(t, op, name, after) ==
    /\ ~overran /\ root # Unmounted /\ calls[t] = NoCall
    /\ LET first == IF after = 0 THEN root.root_begin
                    ELSE Add64(Word(EntrySize), U64(EntryAddress(after)))
       IN  Scan(t, [op |-> op, name |-> name, after |-> after, position |-> first,
                    overlapped |-> FALSE], first, position)
    /\ UNCHANGED <<root, overran>>

StartScan(t, op, name, after) ==
    /\ ~overran /\ root # Unmounted /\ calls[t] = NoCall
    /\ LET first == IF after = 0 THEN root.root_begin
                    ELSE Add64(Word(EntrySize), U64(EntryAddress(after)))
       IN  Scan(t, [op |-> op, name |-> name, after |-> after, position |-> first,
                    overlapped |-> FALSE], first, first)
    /\ UNCHANGED <<root, overran>>

GetNodeByName(t, name) == StartScan(t, "find", name, 0)
GetNextNode(t, after)  == StartScan(t, "list", NoName, after)

Skipped(s, entry) ==
    \/ entry.kind \in {"hidden", "deleted"}
    \/ entry.kind = "file" /\ s.op = "find" /\ entry.name # s.name

(* An entry has been read.                                                  *)
AfterScan(t) ==
    /\ ~overran /\ calls[t].op \in {"find", "list"}
    /\ \E entry \in EntriesAt(Value(calls[t].position)) :
        LET s == calls[t]
        IN  IF Skipped(s, entry) THEN Scan(t, s, s.position, Moved(EntrySize))
            ELSE Returns(t, [op |-> s.op, name |-> s.name, after |-> s.after,
                             overlapped |-> s.overlapped, found |-> entry.kind = "file",
                             position |-> s.position], Moved(EntrySize))
    /\ overran' = Spans(Value(calls[t].position), EntrySize)
    /\ UNCHANGED root

FatNext ==
    \/ CreateFatFs
    \/ \E t \in Caller, s \in Visible, from \in Positions, n \in Counts :
            StartRead(t, s, from, n)
    \/ \E t \in Caller, name \in Names : GetNodeByName(t, name)
    \/ \E t \in Caller, after \in Visible \cup {0} : GetNextNode(t, after)
    \/ \E t \in Caller : AfterEntry(t) \/ AfterFat(t) \/ AfterData(t) \/ AfterScan(t)

-----------------------------------------------------------------------------
(* What fat.c promises *)

(* Where a file ends for fat_read_file: the last cluster of a file that     *)
(* fills it counts for nothing, as end_offset is 0, though fat.c:267 has it *)
(* "at least partially to be read to buffer".                               *)
FileEnd(size) == IF size % SectorSize = 0 THEN size - SectorSize ELSE size

(* A read returns the bytes of its file from the position to that end or to *)
(* the end of what was asked for, whoever else uses the volume meanwhile.   *)
(* Left out are positions behind that end, where reads pass it, and reads   *)
(* that return after one that ran over the end of a sector, be it a table   *)
(* entry that lies across it.                                               *)
Lesser(a, b) == IF a < b THEN a ELSE b
ReadExact ==
    returned.op = "read" /\ ~overran =>
        \E slot \in Visible :
            LET end  == FileEnd(directory[slot].size)
                from == Value(returned.from)
            IN  /\ EntryAddress(slot) = Value(returned.file)
                /\ from <= end =>
                    /\ returned.bytes = [i \in 1..Lesser(returned.count, end - from) |->
                                        FileByte(slot, from + i - 1)]
                    /\ Value(returned.position) = from + Len(returned.bytes)

(* A lookup finds the entry with the name, and a listing the next visible   *)
(* entry, and only them, unless another task has moved the handle meanwhile *)
(* or the directory has no end entry.                                       *)
ScanRight ==
    returned.op \in {"find", "list"} /\ ~returned.overlapped /\ ~IsFull =>
        LET wanted == IF returned.op = "find" THEN Named(returned.name)
                      ELSE {s \in Visible : s > returned.after}
        IN  IF wanted = {} THEN ~returned.found
            ELSE returned.found /\ Value(returned.position) = EntryAddress(Min(wanted))
=============================================================================

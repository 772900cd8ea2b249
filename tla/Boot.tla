-------------------------------- MODULE Boot --------------------------------
(***************************************************************************)
(* boot/boot.s: loads the table, the root directory and then each of its   *)
(* files, cluster by cluster, with reads of the BIOS that may fail, and    *)
(* jumps to the kernel.  Where a file lies in memory is left out: each has *)
(* a segment range of its own, see the README.                             *)
(***************************************************************************)
EXTENDS Volume

CONSTANTS
    Files,              (* the names at `files', in their order              *)
    Resets,             (* resetsleft                                        *)
    SectorsPerTrack,
    HeadCount

(* On the volume only the files to load have their names: an entry that is  *)
(* hidden, deleted or behind the end would be taken for them.               *)
ASSUME BootAssumption ==
    /\ {Resets, SectorsPerTrack, HeadCount} \subseteq Nat \ {0}
    /\ Len(Files) \in Nat /\ DOMAIN Files = 1..Len(Files)
    /\ \A v \in Volumes, i \in DOMAIN Files, s \in 1..RootEntries :
            v.directory[s].name = Files[i] =>
                s \in FilesOf(v.directory) /\ v.directory[s].size > 0

VARIABLES
    boot_pc,            (* "fat", "dir", "file", "cluster", "kernel" or      *)
                        (* "panic"                                           *)
    resetsleft,
    ax,                 (* the register that holds the cluster to read       *)
    loaded              (* the sectors loaded for each file so far           *)

boot_vars == <<boot_pc, resetsleft, ax, loaded>>

BootTypeOK ==
    /\ boot_pc \in {"fat", "dir", "file", "cluster", "kernel", "panic"}
    /\ resetsleft \in 0..Resets
    /\ ax \in 0..(Nibble * EntryValues - 1)
    /\ loaded \in Seq(Seq(Nat)) /\ Len(loaded) <= Len(Files)

BootInit ==
    /\ boot_pc = "fat"
    /\ resetsleft = Resets
    /\ ax = 0
    /\ loaded = <<>>

(* read_blocks divides the number of the sector, and the BIOS reads what    *)
(* the drive has there.                                                     *)
Chs(lba) == [sector   |-> (lba % SectorsPerTrack) + 1,
             head     |-> (lba \div SectorsPerTrack) % HeadCount,
             cylinder |-> (lba \div SectorsPerTrack) \div HeadCount]
OnDisk(chs) ==
    (chs.cylinder * HeadCount + chs.head) * SectorsPerTrack + chs.sector - 1

Reads == boot_pc \in {"fat", "dir", "cluster"}

(* Mutant: an error is answered by another try, whatever resetsleft is.     *)
ReadFailsUncounted ==
    /\ Reads
    /\ resetsleft' = IF resetsleft = 0 THEN Resets ELSE resetsleft - 1
    /\ UNCHANGED <<boot_pc, ax, loaded>>

(* A read fails: the drive is reset and the read repeated, until the resets *)
(* of the whole boot are used up.                                           *)
ReadFails ==
    /\ Reads
    /\ resetsleft' = resetsleft - 1
    /\ boot_pc' = IF resetsleft' = 0 THEN "panic" ELSE boot_pc
    /\ UNCHANGED <<ax, loaded>>

ReadFat ==
    /\ boot_pc = "fat"
    /\ boot_pc' = "dir"
    /\ UNCHANGED <<resetsleft, ax, loaded>>

LoadRootDir ==
    /\ boot_pc = "dir"
    /\ boot_pc' = "file"
    /\ UNCHANGED <<resetsleft, ax, loaded>>

(* load_file: all entries are compared with the name, of whatever kind.     *)
Matches(name) == {s \in 1..RootEntries : directory[s].name = name}

LoadFile ==
    /\ boot_pc = "file" /\ Len(loaded) < Len(Files)
    /\ LET found == Matches(Files[Len(loaded) + 1])
       IN  IF found = {}
           THEN boot_pc' = "panic" /\ UNCHANGED <<ax, loaded>>
           ELSE /\ boot_pc' = "cluster"
                /\ ax' = directory[Min(found)].cluster
                /\ loaded' = Append(loaded, <<>>)
    /\ UNCHANGED resetsleft

JumpToKernel ==
    /\ boot_pc = "file" /\ Len(loaded) = Len(Files)
    /\ boot_pc' = "kernel"
    /\ UNCHANGED <<resetsleft, ax, loaded>>

(* Mutant: odd and even clusters are mixed up.                              *)
NextClusterSwapped(c) ==
    IF (c * 3) % 2 = 0 THEN TableWord((c * 3) \div 2) \div Nibble
                       ELSE TableWord((c * 3) \div 2) % EntryValues
NextCluster(c) ==
    IF (c * 3) % 2 = 1 THEN TableWord((c * 3) \div 2) \div Nibble
                       ELSE TableWord((c * 3) \div 2) % EntryValues

(* A round of read_file.  The first test comes after the first cluster.     *)
ReadCluster ==
    /\ boot_pc = "cluster"
    /\ loaded' = [loaded EXCEPT ![Len(loaded)] =
                    Append(@, OnDisk(Chs(ax + DataSector - 2)))]
    /\ ax' = NextCluster(ax)
    /\ boot_pc' = IF ax' > BadCluster THEN "file" ELSE "cluster"
    /\ UNCHANGED resetsleft

BootNext == ReadFails \/ ReadFat \/ LoadRootDir \/ LoadFile \/ JumpToKernel
            \/ ReadCluster

-----------------------------------------------------------------------------
(* The kernel is entered only with all files in memory, each with all its   *)
(* clusters in the order of its chain, however many reads were repeated.    *)
KernelWhole ==
    boot_pc = "kernel" =>
        loaded = [i \in DOMAIN Files |->
                    LET s == Min(Named(Files[i]))
                    IN  [k \in DOMAIN Chain(directory[s].cluster) |->
                            DataSector + Chain(directory[s].cluster)[k] - 2]]
=============================================================================

------------------------------- MODULE Volume -------------------------------
(***************************************************************************)
(* A FAT12 volume as it lies on the disk: one boot sector, the copies of   *)
(* the file allocation table, the root directory, and clusters of one      *)
(* sector.  It is not part of the repository; boot.s and fat.c read it.    *)
(*                                                                         *)
(* A nibble has Nibble values, 16 in the code; a byte is two nibbles, an   *)
(* entry of the table three.  A byte is named by its address, a sector by  *)
(* its number.                                                             *)
(***************************************************************************)
EXTENDS Integers, Sequences, FiniteSetsExt

CONSTANTS
    Nibble,
    SectorSize,     (* bytes per sector                                      *)
    Reserved,       (* sectors before the first table                        *)
    Fats,           (* copies of the table                                   *)
    SectorsPerFat,
    RootEntries,
    EntrySize,      (* sizeof(struct DirectoryEntry)                         *)
    EndMarks,       (* how many of the highest table entries end a chain     *)
    Volumes         (* what may be on the disk: directory and table          *)

VARIABLES
    directory,      (* a sequence of RootEntries entries                     *)
    table           (* table entries, from 0 on                              *)

(* The reserved value below the end marks names a bad cluster.              *)
EntryValues == Nibble * Nibble * Nibble
BadCluster  == EntryValues - EndMarks - 1

RootSectors == (RootEntries * EntrySize + SectorSize - 1) \div SectorSize
RootSector  == Reserved + Fats * SectorsPerFat
DataSector  == RootSector + RootSectors

EntryAddress(slot) == RootSector * SectorSize + (slot - 1) * EntrySize
ClusterAddress(c)  == (DataSector + c - 2) * SectorSize

(* The table is a row of nibbles, the lowest of each entry first.           *)
Weight == <<1, Nibble, Nibble * Nibble>>
TableNibble(n) ==
    IF n \div 3 \notin DOMAIN table THEN 0
    ELSE (table[n \div 3] \div Weight[(n % 3) + 1]) % Nibble

(* Two bytes of the table, the lower first.                                 *)
TableWord(byte) ==
    LET nibble(i) == TableNibble(2 * byte + i)
    IN  nibble(0) + Nibble * (nibble(1) + Nibble * (nibble(2) + Nibble * nibble(3)))

(* What is in the directory: entries up to the first of kind "end".         *)
(* "hidden" ones have attribute 0x04, "deleted" ones a name with 0xe5.      *)
UpToEnd(d) == {s \in 1..RootEntries : \A r \in 1..s : d[r].kind # "end"}
FilesOf(d) == {s \in UpToEnd(d) : d[s].kind = "file"}
Visible == FilesOf(directory)
Named(name) == {s \in Visible : directory[s].name = name}
IsFull == UpToEnd(directory) = 1..RootEntries

(* The clusters of a chain, and the addresses of a file's bytes.            *)
Chain(first) ==
    LET Follower(c) == table[c[Len(c)]]
        chain[n \in 0..Cardinality(DOMAIN table)] ==
            IF n = 0 THEN <<first>>
            ELSE IF Follower(chain[n - 1]) > BadCluster THEN chain[n - 1]
                 ELSE Append(chain[n - 1], Follower(chain[n - 1]))
    IN  chain[Cardinality(DOMAIN table)]
FileByte(slot, i) ==
    ClusterAddress(Chain(directory[slot].cluster)[i \div SectorSize + 1])
        + (i % SectorSize)

(* A volume as mkfs.msdos and a copy of files leave it: the numbers of its  *)
(* entries are in range, and each file has a cluster for each sector of its *)
(* size, linked up to an end mark.                                          *)
Kinds == {"file", "hidden", "deleted", "end"}
ClusterCount(size) == (size + SectorSize - 1) \div SectorSize
Linked(tab, first, c, n) ==
    /\ c[1] = first
    /\ \A k \in 1..n : IF k = n THEN tab[c[k]] > BadCluster ELSE tab[c[k]] = c[k + 1]
IsVolume(v) ==
    /\ DOMAIN v.directory = 1..RootEntries
    /\ \A s \in 1..RootEntries :
        /\ v.directory[s].kind \in Kinds
        /\ v.directory[s].size \in Nat
        /\ v.directory[s].cluster \in 0..(Nibble * EntryValues - 1)
    /\ Cardinality(DOMAIN v.table) \in 1..BadCluster
    /\ v.table \in [0..(Cardinality(DOMAIN v.table) - 1) -> 0..(EntryValues - 1)]
    /\ \A s \in FilesOf(v.directory) :
        LET n == ClusterCount(v.directory[s].size)
        IN  v.directory[s].size > 0 =>
                /\ n <= Cardinality(DOMAIN v.table)
                /\ \E c \in [1..n -> 2..(Cardinality(DOMAIN v.table) - 1)] :
                        Linked(v.table, v.directory[s].cluster, c, n)

ASSUME VolumeAssumption ==
    /\ Nibble \in Nat /\ Nibble >= 2
    /\ {SectorSize, RootEntries, EntrySize} \subseteq Nat \ {0}
    /\ {Reserved, Fats, SectorsPerFat} \subseteq Nat
    /\ EndMarks \in 1..(EntryValues - 2)
    /\ \A v \in Volumes : IsVolume(v)

VolumeInit ==
    \E v \in Volumes : directory = v.directory /\ table = v.table
=============================================================================

-------------------------------- MODULE Vfs --------------------------------
(***************************************************************************)
(* The nodes of kernel/fs, the tables of open handles in kernel/task.c and *)
(* the system calls that open, close, execute, mount and list files.       *)
(*                                                                         *)
(* The tree is the one start.c and init.c make: a ramfs root with the      *)
(* directories "devices", redirected to devfs ("devroot"), and "floppy",   *)
(* redirected to a FAT volume once it is mounted ("fat").  The nodes in    *)
(* "fat" are made when their names are first looked up.  FAT reads the     *)
(* disk, so a lookup sleeps and the other tasks run; everything else       *)
(* between two sleeps is one action, as there is no preemption.  All users *)
(* of the volume share one handle and so its position: when two of them    *)
(* overlap, each may read the directory from anywhere (raced).             *)
(*                                                                         *)
(* refcount is left out, as nothing reads it, and so are file positions    *)
(* and contents.                                                           *)
(***************************************************************************)
EXTENDS Integers, Sequences, FiniteSets

CONSTANTS
    Task,
    Boot,           (* the first task                                        *)
    Null,
    Devices,        (* the files of devfs beside that of the disk            *)
    Names,          (* names of files in "/floppy"                           *)
    Files,          (* the names on the volume, in the order of its entries  *)
    FatNodes,       (* the struct FatFiles that are ever allocated           *)
    Modes,          (* modes of openFile, sets of "r" and "w"                *)
    TableStep,      (* slots a handle table grows by                         *)
    MaxHandles,     (* bound: files open at once, calls under way included   *)
    MaxTrees        (* bound: calls of tree()                                *)

ASSUME VfsAssumption ==
    /\ Boot \in Task
    /\ IsFiniteSet(Task)
    /\ Files \in Seq(Names)
    /\ Modes \subseteq SUBSET {"r", "w"}
    /\ {TableStep, MaxHandles, MaxTrees} \subseteq Nat \ {0}
    /\ Null \notin Names

Volume  == {Files[i] : i \in DOMAIN Files}
Dirs    == {"root", "devices", "devroot", "floppy", "fat"}
Disk    == "floppy0"
Node    == Dirs \cup Devices \cup FatNodes \cup {Disk}
Handle  == [node : Node, mode : SUBSET {"r", "w"}]

ASSUME NodeAssumption ==
    /\ Null \notin Node \cup Handle
    /\ FatNodes \cap (Dirs \cup Devices \cup {Disk}) = {}
    /\ Devices \cap (Dirs \cup {Disk}) = {}
    /\ Names \cap Node = {}

VARIABLES
    readers,        (* counts of the nodes                                   *)
    writers,
    child,          (* the children of "fat", first to last                  *)
    name,           (* names of the FAT nodes made so far                    *)
    null_next,      (* the list in the next field of the null node           *)
    mounted,        (* "no", "reading" the parameters, or "yes"              *)
    alive,          (* tasks                                                 *)
    handles,        (* Task -> table of handles                              *)
    call,           (* Task -> where its system call sleeps, and its locals  *)
    panic,
    raced,          (* history: tasks whose use of the volume overlaps       *)
    leaked,         (* history: directory handles freed without a close      *)
    causes          (* history: why a file of the volume may have two nodes  *)

nodes   == <<readers, writers, child, name, null_next, mounted>>
history == <<raced, leaked, causes>>
vars    == <<nodes, alive, handles, call, panic, history>>

InUser == [pc |-> "user", node |-> Null, name |-> Null, mode |-> {}, at |-> 0]

TypeOK ==
    /\ readers \in [Node -> Nat] /\ writers \in [Node -> Nat]
    /\ child \in Seq(FatNodes)
    /\ name \in [FatNodes -> Names \cup {Null}]
    /\ null_next \in Seq(FatNodes)
    /\ mounted \in {"no", "reading", "yes"}
    /\ alive \subseteq Task
    /\ handles \in [Task -> Seq(Handle \cup {Null})]
    /\ call \in [Task -> [pc : {"user", "open", "exec", "load", "read",
                                "tree", "mount"},
                          node : Node \cup {Null}, name : Names \cup {Null},
                          mode : SUBSET {"r", "w"}, at : 0..Len(Files)]]
    /\ panic \in {"none", "file op on non-file", "adding node to two dirs"}
    /\ raced \subseteq Task
    /\ leaked \in [Dirs -> Nat]
    /\ causes \subseteq {"race", "tree", "miss"}

(* main() has listed the tree once.  The null node has its next at offset   *)
(* 10 of the kernel's segment: that is the operand of mov bp in STACK_SET   *)
(* at the start of start.c, which is 0.                                     *)
AtBoot == [d \in Dirs |-> IF d \in {"root", "floppy", "devroot"} THEN 1 ELSE 0]

Init ==
    /\ readers = [n \in Node |-> IF n \in Dirs THEN AtBoot[n] ELSE 0]
    /\ writers = [n \in Node |-> 0]
    /\ child = <<>>
    /\ name = [n \in FatNodes |-> Null]
    /\ null_next = <<>>
    /\ mounted = "no"
    /\ alive = {Boot}
    /\ handles = [t \in Task |-> <<>>]
    /\ call = [t \in Task |-> InUser]
    /\ panic = "none"
    /\ raced = {}
    /\ leaked = AtBoot
    /\ causes = {}

-----------------------------------------------------------------------------
(* Helpers *)

Runs(t, pc) == panic = "none" /\ t \in alive /\ call[t].pc = pc
Return(t)   == call' = [call EXCEPT ![t] = InUser]

More(count, n) == [count EXCEPT ![n] = @ + 1]
Less(count, n) == [count EXCEPT ![n] = @ - 1]

(* Using the volume: seek and read of its one handle, with sleeps between.  *)
UsesVolume(t) == \/ call[t].pc \in {"open", "exec", "tree"}
                 \/ call[t].pc \in {"load", "read"} /\ call[t].node \in FatNodes
Others(t)  == {u \in Task \ {t} : UsesVolume(u)}
BeginUse(t) == raced' = (raced \ {t}) \cup Others(t)
                            \cup (IF Others(t) = {} THEN {} ELSE {t})

(* The test of directory_open and file_open.                                *)
(* Mutant: a reader is let in beside a writer.                              *)
BusyForWriterOnly(n, mode) == "w" \in mode /\ readers[n] + writers[n] > 0
Busy(n, mode) ==
    \/ "w" \in mode /\ (readers[n] > 0 \/ writers[n] > 0)
    \/ "r" \in mode /\ writers[n] > 0

(* Mutant: the new table begins empty.                                      *)
AddHandleNoCopy(table, h) ==
    LET free == {i \in DOMAIN table : table[i] = Null}
    IN  IF free # {}
        THEN [table EXCEPT ![CHOOSE i \in free : \A j \in free : i <= j] = h]
        ELSE [i \in 1..(Len(table) + TableStep) |->
                IF i = Len(table) + 1 THEN h ELSE Null]
TaskAddHandle(table, h) ==
    LET free == {i \in DOMAIN table : table[i] = Null}
    IN  IF free # {}
        THEN [table EXCEPT ![CHOOSE i \in free : \A j \in free : i <= j] = h]
        ELSE table \o [i \in 1..TableStep |-> IF i = 1 THEN h ELSE Null]

OpenSlots == UNION {{<<t, i>> : i \in {j \in DOMAIN handles[t] :
                                        handles[t][j] # Null}} : t \in Task}
InFileCall == {t \in Task : call[t].pc \in {"open", "exec", "load"}}
HasRoom    == Cardinality(OpenSlots) + Cardinality(InFileCall) < MaxHandles

-----------------------------------------------------------------------------
(* file_open, with what its caller does next *)

(* sys_open_file has its node (or none); count are the readers when the     *)
(* directory handles of the resolution are closed again.                    *)
OpenFile(t, n, mode, count) ==
    IF n = Null \/ Busy(n, mode)
    THEN /\ readers' = count
         /\ Return(t)
         /\ UNCHANGED <<writers, handles, panic>>
    ELSE IF n \in Dirs
    THEN /\ panic' = "file op on non-file"
         /\ readers' = count
         /\ UNCHANGED <<writers, handles, call>>
    ELSE /\ readers' = IF "r" \in mode THEN More(count, n) ELSE count
         /\ writers' = IF "w" \in mode THEN More(writers, n) ELSE writers
         /\ handles' = [handles EXCEPT
                ![t] = TaskAddHandle(@, [node |-> n, mode |-> mode])]
         /\ Return(t)
         /\ UNCHANGED panic

(* sys_exec has its node: it opens the file, sleeps while it reads it, and  *)
(* closes it.  Only files on the disk make it sleep.                        *)
ExecFile(t, n, count) ==
    IF n = Null \/ Busy(n, {"r"}) \/ n \in Devices
    THEN /\ readers' = count
         /\ Return(t)
         /\ UNCHANGED <<writers, handles, panic>>
    ELSE IF n \in Dirs
    THEN /\ panic' = "file op on non-file"
         /\ readers' = count
         /\ UNCHANGED <<writers, handles, call>>
    ELSE /\ readers' = More(count, n)
         /\ call' = [call EXCEPT ![t] = [InUser EXCEPT !.pc = "load", !.node = n]]
         /\ UNCHANGED <<writers, handles, panic>>

(* The node is there without a visit to the disk.                           *)
Use(t, op, n, mode) ==
    /\ IF op = "open" THEN OpenFile(t, n, mode, readers) ELSE ExecFile(t, n, readers)
    /\ IF op = "exec" /\ n \in FatNodes THEN BeginUse(t) ELSE UNCHANGED raced
    /\ UNCHANGED <<child, name, null_next, mounted, alive, leaked, causes>>

-----------------------------------------------------------------------------
(* Path resolution: vfs_get_node_for_path ends in directory_find_node *)

Named(x) == {i \in DOMAIN child : name[child[i]] = x}
InMemory(x) == child[CHOOSE i \in Named(x) : \A j \in Named(x) : i <= j]

(* A path that needs no look at the disk: the root, the files and           *)
(* directories below it, and the files of the volume that have a node.      *)
SysPath(t, op, n, mode) ==
    /\ Runs(t, "user")
    /\ HasRoom
    /\ \/ n \in {"root", "devices", "floppy", Disk} \cup Devices
       \/ /\ mounted = "yes"
          /\ \E x \in Names : Named(x) # {} /\ n = InMemory(x)
    /\ Use(t, op, n, mode)

(* The name has no node: directory_find_node asks FAT.  The handle of the   *)
(* directory stays open while it sleeps.                                    *)
BeginFind(t, op, x, mode) ==
    /\ Runs(t, "user")
    /\ HasRoom
    /\ mounted = "yes"
    /\ Named(x) = {}
    /\ readers' = More(readers, "fat")
    /\ call' = [call EXCEPT ![t] = [InUser EXCEPT !.pc = op, !.node = "fat",
                                                  !.name = x, !.mode = mode]]
    /\ BeginUse(t)
    /\ causes' = IF \E u \in Task : call[u].pc \in {"open", "exec"}
                                    /\ call[u].name = x
                 THEN causes \cup {"race"} ELSE causes
    /\ UNCHANGED <<writers, child, name, null_next, mounted, alive, handles,
                   panic, leaked>>

(* What FAT finds: a new node, or none.                                     *)
Unmade == {n \in FatNodes : name[n] = Null}
Found(t) == (IF call[t].name \in Volume THEN Unmade ELSE {})
            \cup (IF call[t].name \notin Volume \/ t \in raced THEN {Null} ELSE {})

(* directory_add_to_children, which is called with the null node as well:   *)
(* then next and child are swapped into the null node, and the children     *)
(* in memory are forgotten.                                                 *)
AddToChildren(n) ==
    IF n # Null
    THEN /\ child' = <<n>> \o child
         /\ UNCHANGED null_next
    ELSE /\ null_next' = child
         /\ child' = <<>>

(* fat_root_get_node_by_name returns n, the directory is closed, and the    *)
(* call goes on with n.                                                     *)
FindReturn(t, n) ==
    /\ Runs(t, call[t].pc)
    /\ call[t].pc \in {"open", "exec"}
    /\ n \in Found(t)
    /\ name' = IF n = Null THEN name ELSE [name EXCEPT ![n] = call[t].name]
    /\ IF n = Null /\ null_next # <<>>
       THEN /\ panic' = "adding node to two dirs"
            /\ UNCHANGED <<readers, writers, child, null_next, handles, call,
                           raced, causes>>
       ELSE /\ AddToChildren(n)
            /\ causes' = IF n = Null /\ child # <<>>
                         THEN causes \cup {"miss"} ELSE causes
            /\ IF call[t].pc = "open"
               THEN OpenFile(t, n, call[t].mode, Less(readers, "fat"))
               ELSE ExecFile(t, n, Less(readers, "fat"))
            /\ IF call[t].pc = "exec" /\ n # Null
               THEN BeginUse(t) ELSE raced' = raced \ {t}
    /\ UNCHANGED <<mounted, alive, leaked>>

-----------------------------------------------------------------------------
(* The other system calls *)

(* sys_exec has read the file and closes it.                                *)
(* Mutant: sys_exec does not close the file.                                *)
LoadEndKeepsOpen(t) ==
    /\ Runs(t, "load")
    /\ Return(t)
    /\ raced' = raced \ {t}
    /\ UNCHANGED <<nodes, alive, handles, panic, leaked, causes>>
LoadEnd(t) ==
    /\ Runs(t, "load")
    /\ readers' = Less(readers, call[t].node)
    /\ Return(t)
    /\ raced' = raced \ {t}
    /\ UNCHANGED <<writers, child, name, null_next, mounted, alive, handles,
                   panic, leaked, causes>>

(* sys_read_file of a file on the volume.                                   *)
SysRead(t, i) ==
    /\ Runs(t, "user")
    /\ handles[t][i] # Null
    /\ handles[t][i].node \in FatNodes
    /\ call' = [call EXCEPT ![t] = [InUser EXCEPT !.pc = "read",
                                        !.node = handles[t][i].node]]
    /\ BeginUse(t)
    /\ UNCHANGED <<nodes, alive, handles, panic, leaked, causes>>

ReadEnd(t) ==
    /\ Runs(t, "read")
    /\ Return(t)
    /\ raced' = raced \ {t}
    /\ UNCHANGED <<nodes, alive, handles, panic, leaked, causes>>

(* sys_close_file: file_close and task_remove_handle.                       *)
(* Mutant: the number of the closed handle stays in use.                    *)
SysCloseKeepsSlot(t, i) ==
    /\ Runs(t, "user")
    /\ handles[t][i] # Null
    /\ LET h == handles[t][i]
       IN  /\ readers' = IF "r" \in h.mode THEN Less(readers, h.node) ELSE readers
           /\ writers' = IF "w" \in h.mode THEN Less(writers, h.node) ELSE writers
    /\ UNCHANGED <<child, name, null_next, mounted, alive, handles, call, panic,
                   history>>
SysClose(t, i) ==
    /\ Runs(t, "user")
    /\ handles[t][i] # Null
    /\ LET h == handles[t][i]
       IN  /\ readers' = IF "r" \in h.mode THEN Less(readers, h.node) ELSE readers
           /\ writers' = IF "w" \in h.mode THEN Less(writers, h.node) ELSE writers
    /\ handles' = [handles EXCEPT ![t][i] = Null]
    /\ UNCHANGED <<child, name, null_next, mounted, alive, call, panic, history>>

(* sys_mount of "/devices/floppy0" on "/floppy", as init does it once.  The *)
(* parameters are read before the redirect.  Not modelled: the disk is      *)
(* open for writing, and create_fat_fs goes on with a null handle.          *)
SysMount(t) ==
    /\ Runs(t, "user")
    /\ mounted = "no"
    /\ ~Busy(Disk, {"r"})
    /\ readers' = More(readers, Disk)
    /\ mounted' = "reading"
    /\ call' = [call EXCEPT ![t] = [InUser EXCEPT !.pc = "mount"]]
    /\ UNCHANGED <<writers, child, name, null_next, alive, handles, panic, history>>

Redirect(t) ==
    /\ Runs(t, "mount")
    /\ mounted' = "yes"
    /\ Return(t)
    /\ UNCHANGED <<readers, writers, child, name, null_next, alive, handles,
                   panic, history>>

(* sys_fork: the child's table is empty.                                    *)
SysFork(t, c) ==
    /\ Runs(t, "user")
    /\ c \notin alive
    /\ alive' = alive \cup {c}
    /\ UNCHANGED <<nodes, handles, call, panic, history>>

Opened(t, n, kind) == Cardinality({i \in DOMAIN handles[t] :
                        /\ handles[t][i] # Null
                        /\ handles[t][i].node = n
                        /\ kind \in handles[t][i].mode})

(* task_exit closes every handle and frees the table.  Without a table it   *)
(* panics, which is in Task.                                                *)
TaskExit(t) ==
    /\ Runs(t, "user")
    /\ handles[t] # <<>>
    /\ readers' = [n \in Node |-> readers[n] - Opened(t, n, "r")]
    /\ writers' = [n \in Node |-> writers[n] - Opened(t, n, "w")]
    /\ handles' = [handles EXCEPT ![t] = <<>>]
    /\ alive' = alive \ {t}
    /\ UNCHANGED <<child, name, null_next, mounted, call, panic, history>>

-----------------------------------------------------------------------------
(* sys_unmount lists the tree with tree(), which frees its handles without  *)
(* directory_close.  It goes root, "floppy", "devices"; in "fat" it sleeps  *)
(* at each entry, and each becomes a new node.                              *)

Leak(count, dirs) == [d \in DOMAIN count |-> IF d \in dirs THEN count[d] + 1
                                                           ELSE count[d]]

(* Nothing is mounted, and tree() does not sleep.                           *)
Tree(t) ==
    /\ Runs(t, "user")
    /\ mounted # "yes"
    /\ readers["root"] <= MaxTrees
    /\ readers' = Leak(readers, {"root", "floppy", "devroot"})
    /\ leaked' = Leak(leaked, {"root", "floppy", "devroot"})
    /\ UNCHANGED <<writers, child, name, null_next, mounted, alive, handles,
                   call, panic, raced, causes>>

BeginTree(t) ==
    /\ Runs(t, "user")
    /\ mounted = "yes"
    /\ readers["root"] <= MaxTrees
    /\ readers' = Leak(readers, {"root", "fat"})
    /\ call' = [call EXCEPT ![t] = [InUser EXCEPT !.pc = "tree"]]
    /\ BeginUse(t)
    /\ UNCHANGED <<writers, child, name, null_next, mounted, alive, handles,
                   panic, leaked, causes>>

(* fat_root_get_next_node returns entry i as node n; the position stored in *)
(* the node is that of entry at.                                            *)
TreeEntry(t, i, at, n) ==
    /\ Runs(t, "tree")
    /\ t \notin raced => i = call[t].at + 1 /\ at = i
    /\ n \in Unmade
    /\ name' = [name EXCEPT ![n] = Files[i]]
    /\ AddToChildren(n)
    /\ call' = [call EXCEPT ![t].at = at]
    /\ BeginUse(t)
    /\ causes' = causes \cup {"tree"}
    /\ UNCHANGED <<readers, writers, mounted, alive, handles, panic, leaked>>

TreeEnd(t) ==
    /\ Runs(t, "tree")
    /\ call[t].at = Len(Files) \/ t \in raced
    /\ readers' = Leak(readers, {"devroot"})
    /\ leaked' = Leak(leaked, {"root", "fat", "devroot"})
    /\ Return(t)
    /\ raced' = raced \ {t}
    /\ UNCHANGED <<writers, child, name, null_next, mounted, alive, handles,
                   panic, causes>>

-----------------------------------------------------------------------------
TaskStep(t) ==
    \/ \E n \in Node, mode \in Modes : SysPath(t, "open", n, mode)
    \/ \E n \in Node : SysPath(t, "exec", n, {"r"})
    \/ \E x \in Names, mode \in Modes : BeginFind(t, "open", x, mode)
    \/ \E x \in Names : BeginFind(t, "exec", x, {"r"})
    \/ \E n \in FatNodes \cup {Null} : FindReturn(t, n)
    \/ LoadEnd(t)
    \/ \E i \in DOMAIN handles[t] : SysRead(t, i)
    \/ ReadEnd(t)
    \/ \E i \in DOMAIN handles[t] : SysClose(t, i)
    \/ SysMount(t)
    \/ Redirect(t)
    \/ \E c \in Task : SysFork(t, c)
    \/ TaskExit(t)
    \/ Tree(t)
    \/ BeginTree(t)
    \/ \E i, at \in DOMAIN Files, n \in FatNodes : TreeEntry(t, i, at, n)
    \/ TreeEnd(t)

Next == \E t \in Task : TaskStep(t)

Spec == Init /\ [][Next]_vars

-----------------------------------------------------------------------------
(* What the code promises *)

(* The counts that file_open tests are those of the handles that exist: in  *)
(* a table, in a system call that sleeps, in the mounted volume, or leaked  *)
(* by tree().                                                               *)
InCalls(n) ==
    Cardinality({t \in Task : call[t].node = n
                              /\ call[t].pc \in {"open", "exec", "load"}})
    + Cardinality({t \in Task : call[t].pc = "tree" /\ n \in {"root", "fat"}})
Slots(n, kind) ==
    {s \in OpenSlots : /\ handles[s[1]][s[2]].node = n
                       /\ kind \in handles[s[1]][s[2]].mode}

CountsMatch ==
    \A n \in Node :
        /\ writers[n] = Cardinality(Slots(n, "w"))
        /\ readers[n] = Cardinality(Slots(n, "r")) + InCalls(n)
                        + (IF n \in Dirs THEN leaked[n] ELSE 0)
                        + (IF n = Disk /\ mounted # "no" THEN 1 ELSE 0)

(* A handle that can write a node is the only one that can write or read    *)
(* it; and the same holds for files, by name, unless a race of two lookups, *)
(* tree() or a lookup of a missing name gave the file two nodes.            *)
File(n) == IF n \in FatNodes THEN name[n] ELSE n
SameFile(m, n) == m = n \/ (causes = {} /\ File(m) = File(n))

WriterAlone ==
    \A t, u \in Task : \A i \in DOMAIN handles[t], j \in DOMAIN handles[u] :
        LET h == handles[t][i]
            k == handles[u][j]
        IN  /\ <<t, i>> # <<u, j>>
            /\ h # Null /\ k # Null
            /\ "w" \in h.mode /\ k.mode # {}
            => ~SameFile(h.node, k.node)

(* A handle stays under its number, also when the table grows, until its    *)
(* own task closes it or ends.                                              *)
HandlesKept ==
    [][\A t \in Task : \A i \in DOMAIN handles[t] :
        \/ handles[t][i] = Null
        \/ SysClose(t, i)
        \/ TaskExit(t)
        \/ i \in DOMAIN handles'[t] /\ handles'[t][i] = handles[t][i]]_vars
=============================================================================

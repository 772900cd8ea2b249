# RMMTOS: a TLA+ model of the kernel

RMMTOS is a small multitasking operating system for 16-bit x86 in real mode:
a boot loader (`boot/`), a kernel (`kernel/`, compiled with bcc) and a few user
programs (`init/`). One processor runs the tasks cooperatively: the processor
changes hands only in `task_schedule`, and kernel code runs with interrupts
enabled (`intr_dispatcher` begins with `sti`). So the concurrency of the system
is that of one task's kernel code with interrupt handlers between any two of
its instructions, and of tasks with each other wherever a system call sleeps.

## The system

| Part | State | Operations | What is hard |
|---|---|---|---|
| Tasks (`task.c`, parts of `syscall.c`) | task list, `current_task`, state of each task, segments, kernel stacks, who waits for whom | `fork`, `exec`, `task_exit`, `task_sleep`, `task_wakeup`, `task_schedule`, `sys_*` | a wakeup that comes before the sleep; `hlt`; reuse of segments; death of a task |
| Clock (`clock.c`) | the queue of alarms with differences of time | `clock_set_wakeup` (tasks), `clock_func` (timer interrupt) | both work on the queue at once; unsigned arithmetic |
| Interrupts (`int_disp.c`, `*.s`) | handler table, a wait list per line | `irq_set_wakeup`, `irq_resume_waiting_tasks`, `irq_handler` | both work on the list at once |
| Heap (`malloc.c`) | zones of fixed-size blocks, one bitmap | `malloc`, `free`, `realloc`, `malloc_init` | handlers free while tasks allocate |
| Keyboard (`keyb.c`) | a buffer of 8 keys, modifier flags | `keyb_func` (interrupt), `keyb_read` | both work on the buffer at once |
| Handle tables (`task.c`, `syscall.c`) | a growing table per task | `task_add_handle`, `task_remove_handle`, file system calls | growth, null tables |
| VFS (`fs/`) | nodes with reader, writer and reference counts, directories with children and a redirect | open, close, find, add, redirect, path resolution | counts across redirects, not-found names |
| Block files (`fs/block.c`) | cached blocks, the positions of handles | `blockfile_read` | it sleeps inside a read; who owns a buffer |
| Floppy (`block/floppy.c`) | the controller, the DMA channel | `floppy_read`: reset, recalibrate, seek, transfer, each with a sleep | failing commands, retries, two users without a lock |
| FAT (`fs/fat/fat.c`) | a shared handle of the volume | directory lookup, reading along a cluster chain | boundaries, the shared handle |
| 64-bit arithmetic (`uint64.c`) | - | add, sub, inc, dec, shifts | carries |
| Boot loader (`boot.s`) | sectors loaded, resets left | reads the table, the directory, three files | failing reads, odd and even table entries |
| User side (`init/`) | a heap in each program (`memory.c`) | shell, present, crt0, `allocateMemory`, `freeMemory` | the end of a program; splitting and merging blocks |

A system call enters through `syscall_func`; it may register the task with an
event source (`clock_set_wakeup`, `irq_set_wakeup`, `task_waiting_for_exit`)
and then calls `task_sleep`. The source later calls `task_wakeup`, from an
interrupt handler or from `task_exit`. `WAKEN_BEFORE_SLEEP` remembers a wakeup
that comes before the sleep. The sources keep their entries on the heap: the
task allocates them, the handler frees them. The file system sits on the floppy
driver, which is the only user of `irq_set_wakeup`: `file_read` of a file on the
disk is `fat_read_file`, which reads the volume through one block file, which
fills its blocks with `floppy_read`. Before all that, `boot.s` reads the kernel
from the same volume with the BIOS.

## Modules

| Module | Models | State and actions |
|---|---|---|
| `Task` | `task.c`, the sleeping calls of `syscall.c`, the stack check of `int_disp.c` | `cpu` says where the kernel code of `current_task` is: in user space, at the first tests, the second test or the store of `task_sleep`, in the loop of `task_schedule`, before or in `hlt`. `at` is what each task's kernel stack returns from. Interrupt handlers are single actions (`ClockTick`, `DeviceIrq`). Every action stops after a panic. |
| `MCTask` | - | `Task` with a history of who ran while a task was ready |
| `TaskProofs` | - | theorems about `Task` |
| `Alarm` | what `sys_sleep` promises | abstract: nobody is woken early, but who is `miscounted` |
| `Clock` | `clock.c` | one action per statement of `clock_set_wakeup` that shares data with the interrupt, two for the `-=` on an alarm that is in the queue; `ClockFunc` is the handler as a whole |
| `ClockTime` | the same, in time | the steps of `Clock` with history variables: how long each sleeper has waited, and whose delta `clock_set_wakeup` has got wrong, for which cause |
| `IrqWait` | the wait list of `int_disp.c` | one action per access to the list head; the handler item by item |
| `IrqWaitProofs` | - | theorems about `IrqWait` |
| `Gate` | `gate.s`, the dispatcher and `irq_handler` of `int_disp.c`, the frames that `fork` and `exec` make, the far accesses of `mem.c` | `cpu` and `frame` are the registers of the processor and those saved at a task's `user_sp`; `stack` has what nests on each kernel stack, `master` and `slave` the lines in service. One action per entry, command to a controller, access to a task's memory, and return |
| `GateProofs` | - | theorems about `Gate` |
| `Heap` | `malloc.c` | the search, and the read and the write of a bitmap byte as separate actions; `IrqFree` between any two; `Count` is what `malloc_init` makes of the zones |
| `HeapProofs` | - | theorems about `Heap` and `UserHeap` |
| `UserHeap` | `init/memory.c` | one action per call on the list of block headers |
| `Heaps`, `MCHeap` | - | a behaviour of the one heap or of the other |
| `Keyb` | `keyb.c` | the interrupt as one action; `keyb_read` in six steps |
| `MCDevices` | - | a behaviour of `Keyb` or of `ClockTime` |
| `DeviceProofs` | - | theorems about `Keyb` and `Clock` |
| `VfsProofs` | - | theorems about the handle tables of `Vfs`, the counts of nodes and the exclusion of writers |
| `Vfs`, `MCVfs` | nodes, directories and path resolution in `fs/`, the handle tables of `task.c`, the file system calls | one action per system call that does not sleep; a call that does is two or more, with `call` holding its locals. Directory handles and the file of `sys_exec` live in `call`, the others in `handles`. |
| `Uint64` | `uint64.c` | operators on four limbs, the carries as the code computes them |
| `ByteFile` | what a file on the disk promises | abstract: a read returns the bytes at the position at which it began |
| `BlockFile`, `MCBlockFile` | `fs/block.c` | a read that finds its block, or one that sleeps and finishes; the loop over blocks is a function of the rounds |
| `Floppy` | `block/floppy.c` | `pc` is where a task sleeps in `floppy_read`, one action from each sleep to the next; `fdc` is the controller |
| `FloppyProofs` | - | theorems about `Floppy` |
| `Volume` | the disk's contents | table and directory, never written |
| `Boot` | `boot.s` | one action per read of the BIOS, or its failure |
| `Fat` | `fs/fat/fat.c` | one action from one read of the disk to the next, `calls` has the calls that sleep |
| `Machine`, `MCMachine` | - | `Boot`, then `Fat`, on one volume |
| `DiskProofs` | - | theorems about `BlockFile`, `Boot` and `Fat`, and about the operators of `Uint64` and `Volume` that they use |

`Task` takes alarms and wait lists as sets that a task joins in one step.
`Clock` and `IrqWait` show how far that is right. `Clock`: an alarm that is set fires
(`SleeperWoken`), unless an interrupt inside `clock_set_wakeup` loses it, but it
may fire early or late, and the search for its place may not end. `IrqWait`: the
list behaves as a set (`OnlyRaceBreaksList`) until an
interrupt falls between the read and the write of its head while another task
is on the list. The theorems about `Task` are about the protocol of `task.c`
with sources that work as they should.

The disk is modelled in layers, each taking of the one below what that one's
run shows. `Floppy` takes the wait list as a set and shows when a sector that
was asked for is the one that comes. `BlockFile` takes the driver as one that
delivers, after a sleep, and refines `ByteFile`. `Fat` takes its volume's
handle as `ByteFile` promises it: a read of it sleeps, returns the bytes from
where it began, and moves the handle when it ends, until a read runs over the
end of a sector (`overran`). `Vfs` takes a lookup in `Fat` as one that sleeps and
finds the name, unless two overlap (`raced`).

### Where the model follows the letter of the code

* `sys_exit` prints and returns; nothing calls `task_exit`. `ExitCalls = FALSE`
  is the code as it stands: the program falls into crt0's loop of `hlt` and
  never gives up the processor. `ExitCalls = TRUE` lets a program also end
  in `task_exit`, so that the code of `task_exit`, which no caller reaches, is
  checked too. The theorems hold for both.
* `task_exit` frees `task->handles` without a test, and `free(0)` is the panic
  "invalid free"; it also clears `task->stack` while still running on it, so an
  interrupt before the switch ends in "Kernel stack guard trashed!"
  (`IrqOnExitedTask`).
* An exited task keeps its place in the list and its segment number.
* `task_sleep` reads the state at line 427 and again at line 429. A wakeup in
  between fails both tests: the task is switched out in `WAKEN_BEFORE_SLEEP` (`stranded`);
  one between the second test and the store is overwritten (`lost`).
* In `clock_set_wakeup` the pointer `ptr` does not move in the loop, so each
  further round subtracts the delta of the head again; when that is 0, the loop does
  not end. If `ptr` is
  null because the interrupt has emptied the queue, the code works on address 0
  from there on; the model stops (`wild`).
* A freed alarm or list item keeps its fields until its block is allocated
  again. `Clock` names an alarm by its task, which is sound because nothing is
  allocated between the interrupt that frees it and the end of
  `clock_set_wakeup`; `IrqWait` has the blocks, as reuse matters there.
* `|=`, `^=` and `-=` on memory that an interrupt uses are a read and a write
  (bitmap byte, `buffer_used`, the delta of an alarm in the queue). If the compiler emits a single instruction for one of them,
  the interleaving in the middle does not occur; the model has both.
* `Vfs` starts from the tree of `start.c` after `main` has listed it. The null
  node, which `directory_add_to_children` gets for a missing name, is memory:
  its `next` is the word at offset 10 of the kernel's segment, the operand of
  `mov bp` in `STACK_SET`, which is 0 until a missing name stores a list there.
* All users of the FAT volume share one handle, and so one position. Where the
  uses of two tasks overlap (`raced`), a lookup may miss a name that exists and
  a listing may go on anywhere.
* `blockfile_read` does not reset `tmp`, so a read over the end of a block copies
  its second part from the buffer of the first block, unless the second block
  is in the cache, and may put that buffer into the cache a second time.
  `BlockFile` and `Fat` do that step and stop behind it (`stale`, `overran`); a read whose
  first block was not cached and whose second was forgets the buffer of the
  first (`dropped`).
* `floppy_set_data_rate` has no `return`. `floppy_read` goes on if AX is not 0,
  and what bcc leaves there is the port number of `outb`. A run of commands
  without a sleep between them has one outcome in the model.
* `floppy_transfer` reads seven result bytes and looks at none: a sector that was
  not found is returned like one that was (`failed`). `floppy1` reads drive 0.
  `SEC_SZ` is programmed as the count of the DMA channel, which transfers one
  byte more than its count; the controller ends the transfer at the sector.
* In `Floppy` tasks that have been woken run before the next alarm ends, and the
  controller takes the commands between two sleeps together or not at all.
* `fat_read_file` computes `end_offset` from the size of the file, and has 0 for a file
  that fills its last cluster: it reads nothing of that cluster. From a position
  behind the end it reads on to the end of the cluster.
* `fat.c` skips entries with attribute 0x04, which is "system"; `Volume` calls
  them hidden. `name_to_fat` reads past the end of a name without a dot; names
  are model values, and those of the model have a dot.
* `FatFile` and `FatRootDirectory` pointers to themselves ("XXX: self
  referential pointer") are names in the model.
* `boot.s` stops at a file that is not there, but takes any entry with the
  name, and loads a file's first cluster before it tests for the end. Where it
  puts the sectors is left out: a kernel that is too large would run over the
  loader itself, which the model does not see.
* `mergeFreeBlocks` writes `prev` of `overblock`, behind the pool, when the last
  block is free. `UserHeap` has no memory there.
* `irq_handler` sends the end-of-interrupt commands after the device's function
  has run, and with interrupts enabled, so a line that comes first interrupts
  it before and between them.
* `kernel_enter` knows the kernel by `ss`, and loops for ever if it then finds
  another `ds` than the kernel's (`hung`); the far accesses disable interrupts for that
  reason.
* After `sys_exit` no other task runs again, so `Vfs` has no action for it.
  `TaskExit` is the closing loop of `task_exit`.

## Runs

| Run | Configuration | Shows |
|---|---|---|
| `task` | 3 tasks, 3 segments, 3 stacks, programs that end either way, fairness | the protocol's panics are unreachable, a task is stranded in `WAKEN_BEFORE_SLEEP` only by a wakeup between the two tests of `task_sleep` and sleeps without its event only by one between the second test and the store, segments name live tasks; sleeping calls return but for those two, nobody overtakes in the round robin |
| `task_window` | 2 tasks, violation | the window between second test and store contradicts the comment at `task.c:10-14` |
| `task_gap` | 2 tasks, violation | so does the gap between the two tests |
| `clock` | 3 sleepers, delays 1 and 4, tick 2, 3-bit words, fairness | the queue ends and holds only allocated alarms, also when deltas wrap; each alarm set fires unless it was lost |
| `devices` | a keyboard with a buffer of 3, two keys, one shift key, caps lock; or the sleepers of `clock`, in time | keyboard: every key once, in order, in the right case, but for three faults; clock: refinement of `Alarm` but for the alarms in `early` (`EarlyOnlyIfMiscounted`), no sleeper overdue but for lost alarms and those in `late` (`OverdueOnlyIfMiscounted`) |
| `irq_wait` | 3 tasks, 4 blocks, fairness | no waiter is lost, every waiter is woken, the list is clean until the race |
| `heap` | zones of 1, 3 and 1 blocks, 2-bit bytes; a pool of 16 with headers of 2 | kernel: no overlap, no false "out of mem", marks wrong only by the race on a byte; programs: blocks keep apart, no false 0 |
| `vfs` | 2 tasks, one file on the volume and one name that is not, 2 FAT nodes, 2 files open at once | the counts of nodes are the handles that exist, a writer is alone, handles keep their numbers |
| `block_file` | 2 tasks, 2 handles, 3 blocks of 2 bytes, a cache of 2, limbs of 2 bits | refinement of `ByteFile` (`ReadsTheDisk`); the cache is the disk's content; buffers are neither lost nor freed twice |
| `floppy` | 2 tasks, 8 sectors, one refused command, fairness | the right sector comes, but for two named faults; nobody sleeps without an interrupt to come, but behind a refused command; who is alone returns |
| `gate` | 2 tasks, lines 0, 6, 8 and 9, four deep | programs get back their registers, handlers end their own lines, the kernel is never entered within a far access |
| `machine` | 4 volumes, 2 files to load, 2 resets, 2 tasks, fairness of the boot | the kernel is entered with all sectors of all files; the boot ends; reads and lookups are right |

Bounds. Three tasks are enough for a waiter, the one it waits for and a third
that wakes, sleeps or overtakes; two segments would never be reused while a
third task lives, three are. In `Clock` a queue of two with a third being linked
reaches every statement, and the delays of half a tick and two ticks are unequal, so
that an alarm is linked between two others, the loop comes round again (also
for ever) and deltas wrap in words of 3 bits. Time is
counted to `Cap`, a tick more than the longest delay and the tick under way; for
the short delay that leaves room for two ticks that pass before its alarm is linked.
`devices` uses the symmetry of the tasks, as it checks safety only, and counts nothing
for a task that is awake. `IrqWait` has a block more than tasks, so that a
double free shows as a leak before memory ends. In `Heap` the first byte of the
bitmap holds bits of two zones and the last is not full. In `UserHeap` five
blocks fit, so that a freed one can have free neighbours on both sides. `Keyb` has no bound on
the number of keys: the history keeps only what is still owed to the readers.
In `Vfs` a second
node for the file, a second handle of a task and a second task are what its
properties need to go wrong; `MaxHandles` counts the files in the tables and
those that a call is opening or executing; tables grow by one slot, so that two handles make
one grow; `devfs` has only the disk, as the other devices differ only in not
sleeping. Volumes are mounted once, as `init.c` does; a mount while the disk is
open for writing, which leaves `create_fat_fs` with a null handle, is left out.
In `BlockFile` the cache is smaller than the device and a read of three bytes
runs over one or two block ends; positions need two limbs, so that a carry
between limbs happens; the tasks' two buffers and the cache's two are all that can
be in use. In `Floppy` the two wanted blocks differ in head, cylinder and
sector; `MaxRefusals = 1` is a bound on how often an idle controller does not
get ready within its 31 polls, which the code answers with a retry or with the
sleep that nobody ends. In `Machine` a sector is eight bytes, the table spans two
sectors with an entry across them, files have one or two clusters, which may
be out of order, and the directory may have no end entry; the two clusters of one file are full; positions 6 and 9 are
in the first and the second cluster, sizes of 9 reach over both.
In `Gate` four activations are a system call, a handler of the slave, one of
line 0 that interrupts it between its two commands, and one more; lines 8 and 9
share input 2 of the master.
`LoopedBound = 3` in `Task` is exact, as the code only asks whether `looped` is
more than 2.

Deadlock is not checked where the system stops: a panic halts the machine
(`Task`, `IrqWait`, `Heap`, `Vfs`, `Gate`), a null pointer ends the model (`Clock`). `Keyb`
has no such end. In `Vfs` a lookup also waits for ever when the bound of
`FatNodes` is used up. `Machine` and `BlockFile` stop at the first read that runs
over the end of a sector, `Machine` also at the loader's panic; in `Floppy` all
tasks may sleep behind refused commands.

Fairness. `Task`: the processor executes (`WF` on kernel steps), the timer
ticks and each alarm comes due, a device answers, and a program goes on making
the calls that give up the processor: there is no preemption, so this is what
the programs must do (every loop of `shell.c` and `present.c` sleeps); the timer
also ticks in a task that has just exited, which ends in its panic. `Clock`:
weak fairness of the statements of the one task in `clock_set_wakeup`, and of the
tick: the timer is never switched off, and what it interrupts goes on after it. `IrqWait`: the handler runs to
its end, the device answers, and the interrupted code gets on between
interrupts (strong, as the handler disables it again and again; a device sends
one interrupt for each command). `Floppy`: a woken task gets the processor
(`SleeperReturns` shows that), each alarm ends, the controller ends what it has
begun; no task has to start a read. Alarms, of half a second and more, end
only when no task is ready. `Machine`: the loader executes; how often a read
fails is bounded by its own counter.

## Proofs

`TaskProofs` proves for every number of tasks, segments and stacks, from
`TaskAssumption` alone:

* `TypeCorrect`: `Spec => []TypeOK`
* `ProtocolSafe`: `Spec => []NoProtocolPanic`
* `GapOnly`: `Spec => []OnlyGapStrands`
* `WindowOnly`: `Spec => []OnlyWindowLosesWakeup`
* `SegmentLookup`: `Spec => []LiveSegmentFindsTask`

The invariant behind the first four is `IInv`. `NoProtocolPanic` alone is not
inductive: that `task_wakeup` never meets a task that is already woken or dead
needs that each task has at most one event and still waits for it (`EventInv`:
an alarm, a list entry or a live task's `task_waiting_for_exit` belongs to the
call the task is in, and no two tasks name the same waiter), what the current
task's state can be at each point of the kernel (`CpuInv`: `WAKEN_BEFORE_SLEEP` outlives
`task_sleep` only for a task that is `stranded`, which gives `GapOnly`), and that the search
of `task_schedule` stays inside the list (`CurrentInv`). `WakeupInv` is the
converse, that a task which waits has its event unless the wakeup was overwritten; it
gives `WindowOnly`. The argument for `SegmentLookup` is `SegmentInv`: the bitmap
is the set of the live tasks' segments, and as `fork` puts new tasks at the
front, no task before a live one in the list has its segment.

`VfsProofs` proves, from `VfsAssumption` and `NodeAssumption`, for every number of
tasks, files and handles and every `TableStep`:

* `HandlesStay`: `Spec => HandlesKept`
* `TypeCorrect`: `Spec => []TypeOK`
* `CountsRight`: `Spec => []CountsMatch`
* `WritersAlone`: `Spec => []WriterAlone`

`HandlesStay` needs the types of `handles` and `call` only (`TablesTyped`); the
argument is `TableKeeps`, that `task_add_handle` changes nothing but the first
free slot or copies the table before it appends (that there is a first one is the
well-foundedness of the naturals, `Least`), and one case per system call.

`CountsMatch` equates a node's counts with the number of slots of tables that
hold the node, so its proof counts: `OneDiffers` is that a set which differs from
another at one member at most has one member more, one less or as many, and
`TableAdds`, `CloseCounts` and `ExitCounts` give what a call does to the slots.
A step is `Balanced` if it changes the counts of each node as it changes the slots,
the calls that sleep (`Holds`), the leaks of `tree` and the mount. The
inductive invariant is `CountsInv`, which adds that the open slots are finitely
many and that a lookup that sleeps has the volume's directory open. Both
need that there are finitely many tasks, which `VfsAssumption` says (each
task has a bit of `segment_bitmap`, which is one byte). `TypeCorrect` takes from the counts that they are naturals:
the code's are unsigned and would wrap.

For `WriterAlone` the invariant is `WriterInv`. By node (`Alone`) it follows from
the test of `file_open` and the counts: a count of zero leaves no handle
(`OpenCounted`). By name it needs `NamesInv`: until one of the three causes, each
node made is among the children, a name has one node, and a task that looks a name up
on the volume is the only one to do so and finds it in no node.

`FloppyProofs` proves, from `FloppyAssumption`, for every number of tasks, every
geometry and any number of refusals:

* `TypeCorrect`: `Spec => []TypeOK`; each address `floppy_read` computes is on
  the disk, and what `floppy_sense` leaves is a count
* `RightSector`: `Spec => []RightUnlessFailed`
* `NoTaskStranded`: `Spec => []StrandedOnlyByRefusal`

The arithmetic is `AddressRight`: cylinder, head and sector of a block are on the
disk and lead back to the block. `RightUnlessFailed` speaks of reads that have
returned and needs to know what the controller and the other tasks are doing
(`MixInv`): until `mixed`, a transfer that runs is that of the task the DMA
channel is set to, its result is kept for that task, and any other task that
believes in a transfer of its own was stopped by a reset and waits for the end of
it. `SleepInv` (a task is on one list at most, and waits for the clock only at
two places) is what keeps a task that runs from being on the list that the next
interrupt wakes.

`DeviceProofs` proves, from `KeybAssumption`, for every keyboard, every size of
the buffer and every size of a read:

* `TypeCorrect`: `Spec => []TypeOK`
* `KeysInOrder`: `Spec => []KeysArrive`
* `NoneForgotten`: `Spec => []NothingForgotten`

`KeysArrive` looks at what a reader got. `BufferInv` adds what is on its way:
until a fault is noted, the keys owed to the readers are those of the buffer, behind the ones
that the reader under way has copied but not moved away, in their order, and
`buffer_used` counts both until it is stored. `ReaderInv` says that what the
reader has computed stays within the buffer while keys come in.

and, from `ClockAssumption`, for every number of tasks, all delays and every width of
a word:

* `QueueSound`: `ClockSpec => []QueueIntact`

The queue is a sequence of alarms, each the `next` of the one before and none
twice (`Links`), so it is no longer than there are tasks and the walk ends (`Short`,
`PlaceIs`). `ClockFunc` takes a first part of it (`DueIs`: the sums of the deltas do not
decrease), and what it leaves of the next delta is not negative. So the `ptr` of an
interrupted `clock_set_wakeup` is the head of the queue or freed (`Queues`): at the head
the new alarm is linked second, behind a freed alarm no walk finds it. That the
rest of the queue hangs on the new alarm needs that its `next` is still that of
`ptr` (`SettingInv`).

`GateProofs` proves, from `GateAssumption`, for every number of tasks, every set of
lines and every depth:

* `TypeCorrect`: `Spec => []TypeOK`
* `RegistersReturned`: `Spec => []ReturnsRight`
* `LinesEnded`: `Spec => []LinesRight`
* `KernelNeverHangs`: `Spec => []NeverHung`

`ReturnsRight` speaks of the moment at which a program runs again. Until then
its registers lie in its frame, but for a result that is still to be written
(`SavedInv`), and nothing but the first activation of a stack belongs to a
program: the others are handlers, and a task that is not current has one
activation only, which is not a handler (`StackInv`). That the two
commands of a handler end its own line is the order of the handlers on a stack
(`Order`): an interrupted one has a later input than those on top of it, so the
first line in service is that of the topmost handler. `NeverHung` needs that a far access has
interrupts disabled and nothing on top of it (`AccessInv`).

`IrqWaitProofs` proves, from `IrqWaitAssumption`, for every number of tasks and
blocks:

* `TypeCorrect`: `Spec => []TypeOK`
* `NobodyLost`: `Spec => []NoWaiterLost`
* `ListCleanUntilRace`: `Spec => []OnlyRaceBreaksList`

The items of a list are the least set that holds its head and is closed under
`next` (`Chain`), so what a chain holds is proved by giving a closed set, without
induction. After the race the list leads through freed blocks and may end in a
circle, but `WaiterInv` still holds: the waiters are on the part that leads
through blocks in use and linked (`Live`). Before it (`CleanInv`) each waiter has one
item, no item comes twice, and who is on the list sleeps.

`HeapProofs` proves, from `HeapAssumption`, for every table of zones, every size
of the pool and every width of a byte:

* `TypeCorrect`: `Spec => []TypeOK`
* `BlocksApart`: `Spec => []NoOverlap`
* `BitmapRight`: `Spec => []MarksRight`
* `PanicsHonestly`: `Spec => []OutOfMemHonest`

A block is known by its index in the bitmap, its address is a sum over the zones
before it (`Sum`, whose facts are proved by least counterexamples). The lemmas
about `Block` and `Address` (`AddressRight`, `Apart`, `LargeEnough`, `ByteRight`) say
that `free` finds the index that `malloc` gave out, that two blocks do not
overlap, and that the search begins at the first zone that is large enough. With
them the invariants are about indices: each block is handed out once (`HeldInv`);
what is handed out is marked, also once the byte that was read is written back, and
nothing else is unless a handler has freed in that byte (`MarkInv`); and the search
has passed by no block that was free all along (`SearchInv`).

About a program's heap it proves, from `UserHeapAssumption`, for every pool and
every size of a header:

* `HeapsTyped`: `HeapsSpec => []HeapsTypeOK`
* `UserBlocksApart`: `HeapsSpec => []UserHeapRight`

The list is linked both ways in the order of the addresses (`Linked`), so the walks of
the code pass every block up to where they stop (`FromIs`, `BackIs`, by least
counterexamples over the rounds). `SplitRight` and `MergeRight` say that a block that
is cut and free blocks that are merged leave such a list, and every other block in use as
it was. No two free blocks are neighbours (`Merged`): that makes a failure of
`allocateMemory` honest, as a gap without a block in use is then one free block
(`GapIsOneBlock`), and it has turned down each of them (`FailedRight`). That
the block of an address can be found to free it needs that no two addresses are
equal (`HeldRight`).

`DiskProofs` proves, from `BlockAssumption` and what `Uint64` assumes, for
every number of handles, buffers and blocks, every size of a block and of the
cache and every width of a limb:

* `CacheRight`: `Spec => []CacheCoherent`
* `AllAccounted`: `Spec => []BuffersAccounted`
* `TypeCorrect`: `Spec => []TypeOK`
* `ReadsRight`: `Spec => ReadsTheDisk`, the refinement of `ByteFile`

`LoopKeeps` says what the loop over the blocks leaves of the cache, by a least
counterexample over the rounds: until the first stale copy only the first block
changes it, and `buffer_used` ends without a slot only if that block has none.
`BlockInv` (buffers of the cache and of reads are malloc'ed and all different, the
cache has the disk's content, no buffer is lost) is then preserved by a read
that hits, one that goes to sleep, and one that finishes with or without a free
slot, which a second task may have filled meanwhile.

`ReadsRight` is about numbers. Its lemmas on `uint64.c` say that the limbs compute
what they stand for: `AddLimbs` and `AddWord` that adding a number of one limb is
addition, with every carry, `ShiftDivides` that `shr64` is division, `Compares`
that `cmp64` compares. They rest on `PowerAssumption`, two laws of powers of two
that the provers do not know and TLC evaluates. `Amount` is the arithmetic of a round:
what is copied stays within the block and the request, and the last block ends
both. So a round keeps `State` (what is copied so far ends where the block begins
that comes next) and `Delivering` (that the rounds are enough, that a stale copy
needs a second block, that up to it each byte is the one asked for), and the loop
delivers (`LoopDelivers`). Between the two halves of a read that sleeps, the handle
may be moved by others that share it: `Room` keeps its position from running over
the top of 64 bits, as each call that sleeps has kept room for its own size; it
needs that there are no more tasks than a limb can count. With `ReadInv`, that the
locals of a call that sleeps are those of its request (`RequestRight`), each action
is an action of `ByteFile`: `FileSeek` is `Seek`, `ReadMiss` is `Begin`, `ReadDone` is
`Finish` and `ReadHit` is `Read`.

About the loader and the file system it proves, for every set of volumes, every
list of files, every geometry and number of resets, every number of tasks and
every width of a limb:

* `KernelLoaded`: `MachineSpec => []KernelWhole`
* `MachineTypes`: `MachineSpec => []MachineTypeOK`
* `ScansRight`: `MachineSpec => []ScanRight`
* `FilesRead`: `MachineSpec => []ReadExact`

The assumptions are those of `Uint64`, `Volume`, `Boot` and `Fat`. `VolumeAssumption`
says that a volume is well formed (`IsVolume`; `FatAssumption` adds that entries of the
directory do not lie across sectors, which 32 bytes do not): each file that is not empty has a
cluster for each sector of its size, linked up to an end mark. `BootAssumption`
says that no hidden or deleted entry, and none behind the end, has the name of a
file to load, as `boot.s` would take it for that, and that no file to load is empty.
`mkfs.msdos` and a copy of files make such volumes; the code tests none of it. TLC
evaluates both on the volumes of `MCMachine`.

`WordHasEntry` is the packing of the table: the two bytes that `boot.s` and `fat.c`
read contain the entry of an odd cluster above their lowest nibble, that of an even
one below their highest. `ChainIs` and `FileLinked` say that the table, followed from
a file's first cluster, gives its linked clusters and no more. `KernelLoaded` rests
on them: in `LoadedInv` each file loaded is its chain, and the one being loaded a
first part of it with `ax` the cluster that comes next; the number of a sector
survives the division into cylinder, head and sector (`DriveReads`).

The invariant of `MachineTypes` is `FatInv`: `root` is what `parse_params` computes
(`GeometryIs`; positions on the volume take two limbs, `Small`), and a read that
waits for a table entry waits for that of its cluster (`Awaits`).

`ScanRight` speaks of calls that have returned. `ScanInv` is about those under way: one
that no other has disturbed has the handle at the first entry it has not passed
(`Waits`), and none that it has passed is one it wants (`Passed`).

`ReadExact` compares a read with the file up to `FileEnd`, its size, or for a file that
fills its last cluster the begin of that cluster, as the code reads nothing of it. It says nothing of reads from behind that end, which pass it, of files
that are empty, and of reads that return after one has run over the end of a sector.
`ScanRight` leaves out calls during which another has moved the handle
(`overlapped`) and directories without an end entry (`IsFull`): from there the
code may answer anything. The invariant of `ReadExact` is `FileInv`: a read goes on in one cluster of its
file after the other. It has skipped those before its position, or has the bytes of
the file from there up to its offset in this cluster (`Reached`), and what it waits for
are the bytes behind them (`Delivers`). `Skips`, `PartIs`, `DataIs` and `Appends` are about one
cluster: it is skipped, or the part read of it ends with the cluster, the file or the
request, lies at the cluster's address and joins the bytes before. By `NothingLeft`
nothing is owed behind the last cluster (`Complete`). A read over the end of a sector
(`overran`), a table entry that lies across it among them, ends the argument.

TLC checked the properties on the instances of the runs before they were proved, and
the inductive invariants on the same instances. Type invariants that are proved
are left to the proofs, but for those of the runs that have a mutant for them.

Only model-checked: liveness (`SleeperReturns`, `SleeperWoken`,
`WaiterWoken`, `AloneReturns`, `BootEnds`), which is out of the prover's reach;
`NoOvertaking`, which needs the history variable of `MCTask`; when alarms fire
(`EarlyOnlyIfMiscounted`, `OverdueOnlyIfMiscounted`), of which `QueueSound` says nothing.

## Disagreements between the code and its comments

| Where | What | Seen in |
|---|---|---|
| `task.c:429-430` | the second test and the store of `task_sleep` are not one step, so a task sleeps with no event left, which the comment at `task.c:10-14` excludes | run `task_window` |
| `task.c:427-429` | nor are the two tests: a wakeup in between leaves the task in `WAKEN_BEFORE_SLEEP`, which the comment has for tasks that are still to sleep and `task_schedule` never picks | run `task_gap` |
| `syscall.c:56-62` | `sys_exit` returns, so `shell.c:46` is not reached after a wait | `SysExit` of `Task` |
| `clock.c:40-54` | `ptr` does not advance in the loop, and the next alarm is made short before the new one stands in front of it: a task is woken early, though `init.c:48-49` prints "Slept for 1 seconds." after `sys_sleep(1000)` | `early` in `ClockTime` |
| `fat.c:279-282` | of a file that fills its last cluster that cluster is not read, though `fat.c:267` has it "at least partially to be read to buffer" | `FileEnd` in `Fat` |
| `directory.c:157-163` | a missing name is linked as a null node, and the next missing name panics, though `vfs.c:90-92` answers "not found" | the panic "adding node to two dirs" of `Vfs` |
| `block.c:111` | `tmp` keeps the block before | `stale` in `BlockFile` |

## Plan

Done: all modules above; the theorems listed above. To come: `floppy_init`; `Mutex`
once it has a caller.

## Not modelled

`mutex.c` has no caller, so it has no behaviour in the system. Output
(`screen.c`, `serial.c`, `printf.c`, `panic.c`) has no state that another part reads; a
panic is the end of a behaviour. The helpers for memory and strings are
straight-line code; of `mem.c` the models have that its accesses load `ds` with
interrupts disabled. bcc's run-time library is vendored. What a program does
between two calls is free in the models. `refcount`, `used_bytes`, `ticks` and `seconds`
are written and never decide anything.

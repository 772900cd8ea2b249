-------------------------------- MODULE Gate --------------------------------
(***************************************************************************)
(* The way into the kernel and out of it: kernel_enter and _kernel_exit of *)
(* gate.s, the dispatcher and irq_handler of int_disp.c, syscall_func, the *)
(* frames that fork, exec and task_add make for programs, and switch_task. *)
(*                                                                         *)
(* A program's registers are pushed on its own stack, and user_sp says     *)
(* where: that is frame.  The kernel runs with interrupts enabled, so      *)
(* interrupts nest on the kernel stack of the current task.  A far access  *)
(* (mem.c, farmemcpy) loads ds with another segment and disables them for  *)
(* that long; kernel_enter loops for ever when it meets such a ds.         *)
(*                                                                         *)
(* Whom the scheduler picks is the subject of Task: here a call that       *)
(* sleeps may be followed by any task.  Exceptions, which panic, and       *)
(* task_exit, which no system call reaches, are left out.                  *)
(***************************************************************************)
EXTENDS Naturals, Sequences

CONSTANTS
    Task,
    Boot,           (* the task that task_init makes                         *)
    Line,           (* the interrupt lines that devices use                  *)
    MaxDepth        (* bound: activations on a kernel stack                  *)

ASSUME GateAssumption ==
    /\ Boot \in Task
    /\ Line \subseteq 0..15
    /\ MaxDepth \in Nat \ {0}
    /\ Task \cap {"plain", "fork", "exec", "zero", "minus_one"} = {}

VARIABLES
    current_task,
    alive,
    cpu,            (* the registers                                         *)
    enabled,        (* the interrupt flag                                    *)
    ds,             (* "kernel", or "far" within a far access                *)
    frame,          (* task -> registers saved at its user_sp                *)
    stack,          (* task -> activations on its kernel stack; an empty one *)
                    (* is that of the running program                        *)
    master,         (* the lines in service of the two interrupt controllers *)
    slave,
    stopped,
    owed            (* history: task -> registers due to the program         *)

vars == <<current_task, alive, cpu, enabled, ds, frame, stack, master, slave,
          stopped, owed>>

(* What ax holds: the number of a call, a result, or a task's segment.      *)
Word == {"plain", "fork", "exec", "zero", "minus_one"} \cup Task

(* The other registers hold what the program computed, or the zeros of a    *)
(* new one; cs is the segment of its task.                                  *)
Registers == [ax : Word, cs : Task, others : {"zero", "computed"}]
Fresh(t)  == [ax |-> "zero", cs |-> t, others |-> "zero"]

(* The kernel's own, when an interrupt comes while it runs.                 *)
KernelRegisters == [ax |-> "plain", cs |-> Boot, others |-> "computed"]

(* What the kernel is at: the handler of an interrupt line, a system call,  *)
(* or the return of a child that fork made.                                 *)
Activation == [what : {"irq", "call", "child"},
               line : 0..15,
               at : {"handler", "eoi", "num", "body", "result", "exit"},
               ax : Word]

TypeOK ==
    /\ current_task \in Task
    /\ alive \subseteq Task
    /\ cpu \in Registers
    /\ enabled \in BOOLEAN
    /\ ds \in {"kernel", "far"}
    /\ frame \in [Task -> Registers]
    /\ stack \in [Task -> Seq(Activation)]
    /\ master \subseteq 0..7
    /\ slave \subseteq 8..15
    /\ stopped \in {"no", "hung", "panic"}
    /\ owed \in [Task -> Registers]

(* kernel_exit_force has entered the first program.                         *)
Init ==
    /\ current_task = Boot
    /\ alive = {Boot}
    /\ cpu = Fresh(Boot)
    /\ enabled = TRUE
    /\ ds = "kernel"
    /\ frame = [t \in Task |-> Fresh(Boot)]
    /\ stack = [t \in Task |-> <<>>]
    /\ master = {}
    /\ slave = {}
    /\ stopped = "no"
    /\ owed = [t \in Task |-> Fresh(Boot)]

InUser == stack[current_task] = <<>>
Top    == stack[current_task][Len(stack[current_task])]
SetTop(a) == [stack EXCEPT ![current_task][Len(stack[current_task])] = a]

(* The kernel is about to execute `at' of an activation by `what'.          *)
Runs(what, at) ==
    /\ stopped = "no"
    /\ ~InUser
    /\ Top.what = what
    /\ Top.at = at

-----------------------------------------------------------------------------
(* The program, and the interrupt controllers *)

Compute(r) ==
    /\ stopped = "no" /\ InUser
    /\ r.cs = cpu.cs
    /\ cpu' = r
    /\ owed' = [owed EXCEPT ![current_task] = r]
    /\ UNCHANGED <<current_task, alive, enabled, ds, frame, stack, master,
                   slave, stopped>>

(* The slave hangs on input 2 of the master.  A controller lets through     *)
(* what comes before all that it has in service.                            *)
Input(l) == IF l < 8 THEN l ELSE 2
Accepts(l) == /\ \A m \in master : Input(l) < m
              /\ l >= 8 => \A s \in slave : l < s

(* The end-of-interrupt command ends the first of what is in service.       *)
EndFirst(lines) == {m \in lines : \E n \in lines : n < m}

-----------------------------------------------------------------------------
(* kernel_enter, to the sti of intr_dispatcher: interrupts are disabled *)

(* Mutant: user_sp is set when the kernel is interrupted, too.              *)
EnterSavesAlways(what, line, at) ==
    /\ frame' = [frame EXCEPT ![current_task] = cpu]
    /\ cpu' = KernelRegisters
    /\ stack' = [stack EXCEPT ![current_task] =
                    Append(@, [what |-> what, line |-> line, at |-> at,
                               ax |-> "zero"])]
    /\ stopped' = IF ds = "kernel" THEN "no" ELSE "hung"
    /\ UNCHANGED <<current_task, alive, enabled, ds, owed>>

Enter(what, line, at) ==
    /\ frame' = IF InUser THEN [frame EXCEPT ![current_task] = cpu] ELSE frame
    /\ cpu' = KernelRegisters
    /\ stack' = [stack EXCEPT ![current_task] =
                    Append(@, [what |-> what, line |-> line, at |-> at,
                               ax |-> "zero"])]
    /\ stopped' = IF InUser \/ ds = "kernel" THEN "no" ELSE "hung"
    /\ UNCHANGED <<current_task, alive, enabled, ds, owed>>

(* int $80 in the stubs of init/sys.c.                                      *)
SysCall ==
    /\ stopped = "no" /\ InUser
    /\ Enter("call", 0, "num")
    /\ UNCHANGED <<master, slave>>

Irq(l) ==
    /\ stopped = "no" /\ enabled
    /\ Accepts(l)
    /\ Len(stack[current_task]) < MaxDepth
    /\ master' = master \cup {Input(l)}
    /\ slave' = IF l >= 8 THEN slave \cup {l} ELSE slave
    /\ Enter("irq", l, "handler")

-----------------------------------------------------------------------------
(* irq_handler, after func and irq_resume_waiting_tasks *)

SlaveEoi ==
    /\ Runs("irq", "handler") /\ Top.line >= 8
    /\ slave' = EndFirst(slave)
    /\ stack' = SetTop([Top EXCEPT !.at = "eoi"])
    /\ UNCHANGED <<current_task, alive, cpu, enabled, ds, frame, master,
                   stopped, owed>>

(* Mutant: the second command goes to the slave, too.                       *)
EoiToSlave ==
    /\ ~InUser /\ Runs("irq", IF Top.line >= 8 THEN "eoi" ELSE "handler")
    /\ slave' = EndFirst(slave)
    /\ stack' = SetTop([Top EXCEPT !.at = "exit"])
    /\ UNCHANGED <<current_task, alive, cpu, enabled, ds, frame, master,
                   stopped, owed>>

Eoi ==
    /\ ~InUser /\ Runs("irq", IF Top.line >= 8 THEN "eoi" ELSE "handler")
    /\ master' = EndFirst(master)
    /\ stack' = SetTop([Top EXCEPT !.at = "exit"])
    /\ UNCHANGED <<current_task, alive, cpu, enabled, ds, frame, slave,
                   stopped, owed>>

-----------------------------------------------------------------------------
(* syscall_func *)

(* Mutant: interrupts stay enabled.                                         *)
FarBeginNoCli ==
    /\ ~InUser /\ Runs("call", Top.at) /\ Top.at \in {"num", "body", "result"}
    /\ ds = "kernel"
    /\ ds' = "far"
    /\ UNCHANGED <<current_task, alive, cpu, enabled, frame, stack, master,
                   slave, stopped, owed>>

FarBegin ==
    /\ ~InUser /\ Runs("call", Top.at) /\ Top.at \in {"num", "body", "result"}
    /\ ds = "kernel"
    /\ ds' = "far"
    /\ enabled' = FALSE
    /\ UNCHANGED <<current_task, alive, cpu, frame, stack, master, slave,
                   stopped, owed>>

FarEnd(at) ==
    /\ Runs("call", at)
    /\ ds = "far"
    /\ ds' = "kernel"
    /\ enabled' = TRUE
    /\ UNCHANGED <<current_task, alive, cpu, master, slave, stopped, owed>>

(* The call reads its number from the frame, its arguments and the memory   *)
(* of the task, and writes its result to the frame.                         *)
ReadNumber ==
    /\ FarEnd("num")
    /\ stack' = SetTop([Top EXCEPT !.at = "body", !.ax = frame[current_task].ax])
    /\ UNCHANGED frame

ReadArguments == FarEnd("body") /\ UNCHANGED <<frame, stack>>

WriteResult ==
    /\ FarEnd("result")
    /\ frame' = [frame EXCEPT ![current_task].ax = Top.ax]
    /\ stack' = SetTop([Top EXCEPT !.at = "exit"])

Body(number) ==
    /\ Runs("call", "body")
    /\ Top.ax \in number
    /\ ds = "kernel"

Result(x) == SetTop([Top EXCEPT !.at = "result", !.ax = x])

(* A call that neither forks nor executes; no number behind the table and   *)
(* none of the unimplemented calls gives anything but -1.                   *)
Work(x) ==
    /\ Body(Word \ {"fork", "exec"})
    /\ x = "minus_one" \/ (Top.ax = "plain" /\ x = "zero")
    /\ stack' = Result(x)
    /\ owed' = [owed EXCEPT ![current_task].ax = x]
    /\ UNCHANGED <<current_task, alive, cpu, enabled, ds, frame, master, slave,
                   stopped>>

(* Mutant: the child returns into its parent's segment.                     *)
ForkKeepsCs(c) ==
    /\ Body({"fork"})
    /\ c \notin alive
    /\ alive' = alive \cup {c}
    /\ frame' = [frame EXCEPT ![c] = [frame[current_task] EXCEPT !.ax = "zero"]]
    /\ stack' = [Result(c) EXCEPT ![c] =
                    <<[what |-> "child", line |-> 0, at |-> "exit", ax |-> "zero"]>>]
    /\ owed' = [owed EXCEPT
            ![c] = [owed[current_task] EXCEPT !.cs = c, !.ax = "zero"],
            ![current_task].ax = c]
    /\ UNCHANGED <<current_task, cpu, enabled, ds, master, slave, stopped>>

(* The child has a copy of its parent's frame, and a kernel stack on which  *)
(* switch_task returns to _kernel_exit.                                     *)
Fork(c) ==
    /\ Body({"fork"})
    /\ c \notin alive
    /\ alive' = alive \cup {c}
    /\ frame' = [frame EXCEPT
            ![c] = [frame[current_task] EXCEPT !.cs = c, !.ax = "zero"]]
    /\ stack' = [Result(c) EXCEPT ![c] =
                    <<[what |-> "child", line |-> 0, at |-> "exit", ax |-> "zero"]>>]
    /\ owed' = [owed EXCEPT
            ![c] = [owed[current_task] EXCEPT !.cs = c, !.ax = "zero"],
            ![current_task].ax = c]
    /\ UNCHANGED <<current_task, cpu, enabled, ds, master, slave, stopped>>

NoSegment ==
    /\ Body({"fork"})
    /\ alive = Task
    /\ stopped' = "panic"
    /\ UNCHANGED <<current_task, alive, cpu, enabled, ds, frame, stack, master,
                   slave, owed>>

(* exec makes the frame of a new program.  It is not reached when there is  *)
(* no such file.                                                            *)
Exec(found) ==
    /\ Body({"exec"})
    /\ frame' = IF found THEN [frame EXCEPT ![current_task] = Fresh(current_task)]
                         ELSE frame
    /\ owed' = [owed EXCEPT ![current_task] =
                    IF found THEN Fresh(current_task) ELSE [@ EXCEPT !.ax = "zero"]]
    /\ stack' = Result("zero")
    /\ UNCHANGED <<current_task, alive, cpu, enabled, ds, master, slave, stopped>>

(* The call sleeps, and switch_task goes on with what another task left.    *)
Switch(t) ==
    /\ Body({"plain", "exec"})
    /\ t \in alive \ {current_task}
    /\ current_task' = t
    /\ UNCHANGED <<alive, cpu, enabled, ds, frame, stack, master, slave,
                   stopped, owed>>

-----------------------------------------------------------------------------
(* _kernel_exit *)

(* To the program if the kernel stack is empty, else to what was            *)
(* interrupted.                                                             *)
Exit ==
    /\ ~InUser /\ Runs(Top.what, "exit")
    /\ stack' = [stack EXCEPT ![current_task] = SubSeq(@, 1, Len(@) - 1)]
    /\ cpu' = IF Len(stack[current_task]) = 1 THEN frame[current_task] ELSE cpu
    /\ UNCHANGED <<current_task, alive, enabled, ds, frame, master, slave,
                   stopped, owed>>

Next ==
    \/ \E r \in Registers : Compute(r)
    \/ SysCall
    \/ \E l \in Line : Irq(l)
    \/ SlaveEoi \/ Eoi
    \/ FarBegin \/ ReadNumber \/ ReadArguments \/ WriteResult
    \/ \E x \in {"zero", "minus_one"} : Work(x)
    \/ \E t \in Task : Fork(t) \/ Switch(t)
    \/ NoSegment
    \/ \E found \in BOOLEAN : Exec(found)
    \/ Exit

Spec == Init /\ [][Next]_vars

-----------------------------------------------------------------------------
(* A program finds its registers as they were at an interrupt, and after a  *)
(* call with the result of its own call in ax, whatever nests in the kernel *)
(* and whichever tasks run in between; a child finds its parent's with 0 in *)
(* ax and its own segment in cs, and a new program the frame exec made.     *)
ReturnsRight == InUser => cpu = owed[current_task]

(* The places of the handlers under way on a kernel stack, the inputs of    *)
(* the master they occupy and the lines of the slave.                       *)
UnderWay(s) == {i \in 1..Len(s) : s[i].what = "irq" /\ s[i].at \in {"handler", "eoi"}}
Inputs(s)   == {Input(s[i].line) : i \in UnderWay(s)}
SlaveLines(s) == {s[i].line : i \in {j \in UnderWay(s) : /\ s[j].line >= 8
                                                       /\ s[j].at = "handler"}}

(* The controllers have in service what handlers are working on: each       *)
(* command ended its own handler's line, no line is handled twice at once,  *)
(* and no handler is left behind on the stack of a task that sleeps.        *)
LinesRight ==
    LET s == stack[current_task]
    IN  /\ master = Inputs(s)
        /\ slave = SlaveLines(s)
        /\ \A i, j \in UnderWay(s) : i # j => Input(s[i].line) # Input(s[j].line)
        /\ \A t \in Task \ {current_task} : UnderWay(stack[t]) = {}

(* No interrupt enters the kernel while ds holds another segment.           *)
NeverHung == stopped # "hung"
=============================================================================

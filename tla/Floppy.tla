------------------------------- MODULE Floppy -------------------------------
(***************************************************************************)
(* kernel/block/floppy.c: tasks read sectors through the one controller    *)
(* and the one DMA channel.  floppy_read sleeps after each command that    *)
(* ends with an interrupt; nothing keeps a second task out meanwhile, and  *)
(* the interrupt wakes all tasks on the list of line 6.                    *)
(*                                                                         *)
(* A task runs from one sleep to the next in one action.  The controller   *)
(* is not part of the repository: it is modelled as far as the driver can  *)
(* tell.  A step's commands are taken all together or not at all.  Alarms  *)
(* (hundreds of milliseconds) end only when no task is ready to run.       *)
(***************************************************************************)
EXTENDS Integers

CONSTANTS
    Task,
    SEC, HD, CYL,   (* sectors of a track, heads, cylinders                  *)
    Wanted,         (* blocks that tasks ask for                             *)
    MaxRefusals     (* bound: how often an idle controller fails to become   *)
                    (* ready within 31 polls                                 *)

Lba == 0..(SEC * HD * CYL - 1)

ASSUME FloppyAssumption ==
    /\ {SEC, HD, CYL} \subseteq Nat \ {0}
    /\ Wanted \subseteq Lba
    /\ MaxRefusals \in Nat

VARIABLES
    pc,         (* Task -> where it sleeps in floppy_read                    *)
    lba,        (* Task -> the block it was asked for                        *)
    res,        (* Task -> the command it sleeps for was taken               *)
    waiting,    (* tasks on the list of line 6                               *)
    alarms,     (* tasks with an alarm                                       *)
    ready,      (* tasks that have been woken                                *)
    fdc,        (* the controller                                            *)
    dma,        (* the task whose buffer the DMA channel is set to           *)
    data,       (* Task -> the sector in its buffer                          *)
    wrong,      (* history: a read has returned without its sector though no *)
                (* error was reported                                        *)
    mixed,      (* history: a transfer has begun while a task woken from its *)
                (* own by a reset had not run yet                            *)
    refusals

asleep == <<waiting, alarms, ready>>
vars == <<pc, lba, res, asleep, fdc, dma, data, wrong, mixed, refusals>>

Junk == -1
Chs  == [cylinder : 0..(CYL - 1), head : 0..(HD - 1), sector : 1..SEC]

TypeOK ==
    /\ pc \in [Task -> {"out", "reset", "select", "recal", "seek", "xfer", "again"}]
    /\ lba \in [Task -> Wanted \cup {Junk}]
    /\ res \in [Task -> BOOLEAN]
    /\ waiting \subseteq Task /\ alarms \subseteq Task /\ ready \subseteq Task
    /\ fdc \in [phase : {"idle", "reset", "seek", "transfer", "result"},
                unsensed : 0..5, cylinder : 0..(CYL - 1), target : Chs,
                failed : BOOLEAN]
    /\ dma \in Task
    /\ data \in [Task -> Lba \cup {Junk}]
    /\ wrong \in BOOLEAN /\ mixed \in BOOLEAN
    /\ refusals \in 0..MaxRefusals

(* Mutant: the track is not split into heads.                               *)
AddressNoHeads(b) == [cylinder |-> b \div (SEC * HD), head |-> b \div SEC,
                      sector |-> (b % SEC) + 1]
(* The cylinder, head and sector of a block, and the block on the disk.     *)
Address(b) == [cylinder |-> b \div (SEC * HD), head |-> (b \div SEC) % HD,
               sector |-> (b % SEC) + 1]
Sector(a) == (a.cylinder * HD + a.head) * SEC + a.sector - 1

Init ==
    /\ pc = [t \in Task |-> "out"]
    /\ lba = [t \in Task |-> Junk]
    /\ res = [t \in Task |-> FALSE]
    /\ waiting = {} /\ alarms = {} /\ ready = {}
    /\ fdc = [phase |-> "idle", unsensed |-> 0, cylinder |-> 0,
              target |-> Address(0), failed |-> FALSE]
    /\ dma \in Task
    /\ data = [t \in Task |-> Junk]
    /\ wrong = FALSE /\ mixed = FALSE
    /\ refusals = 0

-----------------------------------------------------------------------------
(* The commands of a step, floppy_write_cmd and floppy_read_result.  It     *)
(* "fails" when a command or a result before the last command is not taken  *)
(* within 31 polls; it has "sent" when the last command was taken, too;     *)
(* after a "refused" last command the task sleeps all the same.             *)
Outcome == {"fails", "refused", "sent"}

(* An idle controller listens; while the head moves it may.                 *)
Listens == fdc.phase \in {"idle", "seek"}
Tries(outcome, able) ==
    /\ outcome # "fails" => able
    /\ IF able /\ outcome # "sent" /\ fdc.phase = "idle"
       THEN refusals < MaxRefusals /\ refusals' = refusals + 1
       ELSE UNCHANGED refusals

(* n calls of floppy_sense: each takes one interrupt off the controller.    *)
CanSense(n) == Listens /\ fdc.unsensed >= n
Sensed(outcome, n) ==
    IF ~Listens THEN {fdc.unsensed}
    ELSE IF outcome = "fails" THEN 0..fdc.unsensed ELSE {fdc.unsensed - n}

Runs(t, at)   == pc[t] = at /\ t \in ready /\ ready' = ready \ {t}
Goto(t, to)   == pc' = [pc EXCEPT ![t] = to]
IrqSleep(t)   == waiting' = waiting \cup {t} /\ UNCHANGED alarms
ClockSleep(t) == alarms' = alarms \cup {t} /\ UNCHANGED waiting

(* The task sleeps for its command or, when the step failed, for a second.  *)
Sleep(t, outcome, to) ==
    IF outcome = "fails"
    THEN Goto(t, "again") /\ ClockSleep(t) /\ UNCHANGED res
    ELSE Goto(t, to) /\ IrqSleep(t) /\ res' = [res EXCEPT ![t] = outcome = "sent"]

-----------------------------------------------------------------------------
(* floppy_read *)

(* floppy_init2 up to its sleep: whatever the controller does is stopped.   *)
Reset(t) ==
    /\ fdc' = [fdc EXCEPT !.phase = "reset", !.unsensed = 0]
    /\ Goto(t, "reset")
    /\ IrqSleep(t)
    /\ UNCHANGED <<res, dma, wrong, mixed, refusals>>

Start(t, b) ==
    /\ pc[t] = "out"
    /\ lba' = [lba EXCEPT ![t] = b]
    /\ data' = [data EXCEPT ![t] = Junk]
    /\ Reset(t)
    /\ UNCHANGED ready

Retry(t) ==
    /\ Runs(t, "again")
    /\ Reset(t)
    /\ UNCHANGED <<lba, data>>

(* The rest of floppy_init2, with n calls of floppy_sense, and              *)
(* floppy_select_drive up to its sleep.                                     *)
Initialise(t, n) ==
    /\ Runs(t, "reset")
    /\ \E outcome \in {"fails", "sent"} : \E left \in Sensed(outcome, n) :
        /\ Tries(outcome, CanSense(n))
        /\ fdc' = [fdc EXCEPT !.unsensed = left]
        /\ Goto(t, IF outcome = "fails" THEN "again" ELSE "select")
    /\ ClockSleep(t)
    /\ UNCHANGED <<lba, res, dma, data, wrong, mixed>>
(* Mutant: one call too many.                                               *)
AfterResetSensesFive(t) == Initialise(t, 5)
AfterReset(t) == Initialise(t, 4)

(* floppy_specify, floppy_set_data_rate, floppy_recalibrate.                *)
AfterSelect(t) ==
    /\ Runs(t, "select")
    /\ \E outcome \in Outcome :
        /\ Tries(outcome, Listens)
        /\ Sleep(t, outcome, "recal")
        /\ fdc' = IF outcome # "sent" THEN fdc
                  ELSE [fdc EXCEPT !.phase = "seek", !.target = Address(0)]
    /\ UNCHANGED <<lba, dma, data, wrong, mixed>>

(* The end of floppy_recalibrate, and floppy_seek up to its sleep.          *)
AfterRecal(t) ==
    /\ Runs(t, "recal")
    /\ \E outcome \in Outcome :
       \E left \in IF res[t] THEN Sensed(outcome, 1) ELSE {fdc.unsensed} :
        /\ Tries(outcome, res[t] /\ CanSense(1))
        /\ Sleep(t, outcome, "seek")
        /\ fdc' = IF outcome # "sent" THEN [fdc EXCEPT !.unsensed = left]
                  ELSE [fdc EXCEPT !.unsensed = left, !.phase = "seek",
                                   !.target = Address(lba[t])]
    /\ UNCHANGED <<lba, dma, data, wrong, mixed>>

(* The end of floppy_seek, floppy_set_dma, and floppy_transfer up to its    *)
(* sleep.  A controller that moves the head does not take the command.      *)
Unaware(u) == pc[u] = "xfer" /\ res[u]
(* Mutant: floppy_seek does not sense the interrupt.                        *)
AfterSeekUnsensed(t) ==
    /\ Runs(t, "seek")
    /\ \E outcome \in Outcome :
        /\ outcome = "sent" => fdc.phase = "idle"
        /\ outcome = "fails" <=> ~res[t]
        /\ Sleep(t, outcome, "xfer")
        /\ dma' = IF outcome = "fails" THEN dma ELSE t
        /\ fdc' = IF outcome # "sent" THEN fdc
                  ELSE [fdc EXCEPT !.phase = "transfer", !.target = Address(lba[t])]
    /\ UNCHANGED <<lba, data, wrong, mixed, refusals>>
AfterSeek(t) ==
    /\ Runs(t, "seek")
    /\ \E outcome \in Outcome :
       \E left \in IF res[t] THEN Sensed(outcome, 1) ELSE {fdc.unsensed} :
        /\ Tries(outcome, res[t] /\ CanSense(1))
        /\ outcome = "sent" => fdc.phase = "idle"
        /\ Sleep(t, outcome, "xfer")
        /\ dma' = IF outcome = "fails" THEN dma ELSE t
        /\ fdc' = IF outcome # "sent" THEN [fdc EXCEPT !.unsensed = left]
                  ELSE [fdc EXCEPT !.unsensed = left, !.phase = "transfer",
                                   !.target = Address(lba[t])]
        /\ mixed' = (mixed \/ (outcome = "sent" /\ \E u \in ready : Unaware(u)))
    /\ UNCHANGED <<lba, data, wrong>>

(* The end of floppy_transfer: seven result bytes are read and dropped,     *)
(* those that tell of an error with them.                                   *)
Return(t) ==
    /\ Goto(t, "out")
    /\ wrong' = (wrong \/ (data[t] # lba[t] /\ ~fdc.failed))
    /\ lba' = [lba EXCEPT ![t] = Junk]
    /\ data' = [data EXCEPT ![t] = Junk]
    /\ fdc' = [fdc EXCEPT !.phase = "idle", !.failed = FALSE]
    /\ UNCHANGED <<alarms, waiting>>
AfterXfer(t) ==
    /\ Runs(t, "xfer")
    /\ \/ /\ res[t] /\ fdc.phase = "result"
          /\ Return(t)
          /\ UNCHANGED refusals
       \/ /\ IF res[t] /\ fdc.phase = "result"
             THEN refusals < MaxRefusals /\ refusals' = refusals + 1
             ELSE UNCHANGED refusals
          /\ Goto(t, "again") /\ ClockSleep(t)
          /\ UNCHANGED <<lba, data, fdc, wrong>>
    /\ UNCHANGED <<res, dma, mixed>>

-----------------------------------------------------------------------------
(* Interrupts and alarms *)

(* Mutant: only one task of the list is woken.                              *)
WakeOne ==
    \/ waiting = {} /\ UNCHANGED <<waiting, ready>>
    \/ \E t \in waiting : waiting' = waiting \ {t} /\ ready' = ready \cup {t}
(* int_dispatch for line 6.                                                 *)
Wake ==
    /\ ready' = ready \cup waiting
    /\ waiting' = {}

Interrupt(phase) ==
    /\ fdc.phase = phase
    /\ Wake
    /\ UNCHANGED <<pc, lba, res, alarms, dma, wrong, mixed, refusals>>

(* After a reset the controller reports on each of four drives.             *)
ResetDone ==
    /\ Interrupt("reset")
    /\ fdc' = [fdc EXCEPT !.phase = "idle", !.unsensed = 4]
    /\ UNCHANGED data

SeekDone ==
    /\ Interrupt("seek")
    /\ fdc' = [fdc EXCEPT !.phase = "idle", !.unsensed = IF @ < 5 THEN @ + 1 ELSE @,
                          !.cylinder = fdc.target.cylinder]
    /\ UNCHANGED data

(* The sector is read, or not found under the head, or damaged.             *)
TransferDone ==
    /\ Interrupt("transfer")
    /\ \E damaged \in BOOLEAN :
        LET failed == damaged \/ fdc.cylinder # fdc.target.cylinder
        IN  /\ fdc' = [fdc EXCEPT !.phase = "result", !.failed = failed]
            /\ data' = [data EXCEPT ![dma] = IF failed THEN Junk ELSE Sector(fdc.target)]

(* clock_func wakes a task; time passes only while no task can run.         *)
Alarm(t) ==
    /\ t \in alarms /\ ready = {}
    /\ alarms' = alarms \ {t}
    /\ ready' = {t}
    /\ UNCHANGED <<pc, lba, res, waiting, fdc, dma, data, wrong, mixed,
                   refusals>>

Step(t) == \/ Retry(t) \/ AfterReset(t) \/ AfterSelect(t)
           \/ AfterRecal(t) \/ AfterSeek(t) \/ AfterXfer(t)

Next ==
    \/ \E t \in Task, b \in Wanted : Start(t, b)
    \/ \E t \in Task :
         \/ Retry(t) \/ AfterReset(t) \/ AfterSelect(t)
         \/ AfterRecal(t) \/ AfterSeek(t) \/ AfterXfer(t)
         \/ Alarm(t)
    \/ ResetDone \/ SeekDone \/ TransferDone

(* A woken task gets the processor, the clock ticks, and the controller     *)
(* ends what it has begun.  No task has to start a read.                    *)
Fairness ==
    /\ \A t \in Task : WF_vars(Step(t)) /\ WF_vars(Alarm(t))
    /\ WF_vars(ResetDone) /\ WF_vars(SeekDone) /\ WF_vars(TransferDone)

Spec == Init /\ [][Next]_vars /\ Fairness

-----------------------------------------------------------------------------
(* What floppy.c promises *)

(* However tasks reset the drive and move the head under each other, a read *)
(* that returns has its own sector in its own buffer, unless the controller *)
(* has reported an error, which floppy_transfer ignores, or a transfer has  *)
(* begun while a task that was woken from its own by a reset had not run:   *)
(* that task takes the result of the other for its own.                     *)
RightUnlessFailed == wrong => mixed

(* A task on the list whose command was taken has an interrupt to come; one *)
(* whose command was refused may sleep for ever.                            *)
StrandedOnlyByRefusal ==
    \A t \in waiting :
        pc[t] = "reset" \/ res[t] => fdc.phase \in {"reset", "seek", "transfer"}

(* A task that has the drive for itself gets its block, or is one that      *)
(* sleeps after a refused command, or is joined by another.  Two tasks may  *)
(* reset each other for ever.                                               *)
Alone(t) == pc[t] # "out" /\ \A u \in Task \ {t} : pc[u] = "out"
Refused(t) == t \in waiting /\ pc[t] # "reset" /\ ~res[t]
AloneReturns == \A t \in Task : Alone(t) ~> (~Alone(t) \/ Refused(t))
=============================================================================

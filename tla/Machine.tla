------------------------------ MODULE Machine ------------------------------
(***************************************************************************)
(* From power-on to files: boot.s loads the kernel from the volume, and    *)
(* the kernel mounts the same volume and reads it.                         *)
(***************************************************************************)
EXTENDS Boot, Fat

machine_vars == <<directory, table, boot_vars, fat_vars>>

MachineInit == VolumeInit /\ BootInit /\ FatInit

Booting ==
    /\ boot_pc # "kernel"
    /\ BootNext
    /\ UNCHANGED <<directory, table, fat_vars>>

Running ==
    /\ boot_pc = "kernel"
    /\ FatNext
    /\ UNCHANGED <<directory, table, boot_vars>>

MachineSpec == MachineInit /\ [][Booting \/ Running]_machine_vars /\ WF_machine_vars(Booting)

MachineTypeOK == BootTypeOK /\ FatTypeOK

(* The boot ends: every failed read is counted, so the loader does not      *)
(* retry for ever.                                                          *)
BootEnds == <>(boot_pc \in {"kernel", "panic"})
=============================================================================

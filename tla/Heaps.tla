-------------------------------- MODULE Heaps --------------------------------
(***************************************************************************)
(* The two allocators of the system, of the kernel and of a program.  They *)
(* share no memory, so their steps are not interleaved: a behaviour is one *)
(* of the kernel's heap, or of a program's from its malloc_init on.        *)
(***************************************************************************)
EXTENDS Heap, UserHeap

Kernel == Next /\ list = [b \in {} |-> NoHeader] /\ UNCHANGED user_vars

Program == UserNext /\ bitmap = {} /\ call = "none" /\ UNCHANGED vars

HeapsInit == Init /\ UserInit

HeapsSpec == HeapsInit /\ [][Kernel \/ Program]_<<vars, user_vars>>

HeapsTypeOK == TypeOK /\ UserTypeOK
=============================================================================

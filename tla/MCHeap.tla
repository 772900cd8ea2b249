------------------------------- MODULE MCHeap -------------------------------
(* Heaps for TLC: three zones, two bits to a byte.  malloc_init makes them   *)
(* of one, three and one block: the first byte of the bitmap holds bits of  *)
(* two zones, and the last byte is not full.                                *)
EXTENDS Heaps

MCSize    == <<1, 2, 3>>
MCInitial == <<0, 0, 1>>
MCExpand  == <<0, 3, 0>>
=============================================================================

-------------------------------- MODULE MCVfs --------------------------------
(* Vfs for TLC: a volume with one file, and one name that is not on it.      *)
EXTENDS Vfs, TLC

CONSTANTS present, missing

MCFiles == <<present>>
MCModes == {{"r"}, {"w"}}

(* FAT nodes are all alike until they get a name.                            *)
Symmetry == Permutations(FatNodes)
==============================================================================

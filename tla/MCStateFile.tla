--------------------------- MODULE MCStateFile ----------------------------
(* Small instances of StateFile. *)
EXTENDS StateFile, TLC

FileSymmetry == Permutations(KeyIds) \cup Permutations(Procs)
                \cup Permutations(Raws) \cup Permutations(Names)
=============================================================================

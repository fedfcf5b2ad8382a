--------------------------- MODULE MCLevelPlacement ---------------------------
(* Instances of LevelPlacement for TLC: the workers are interchangeable. *)
EXTENDS LevelPlacement, TLC

Symmetry == Permutations(Threads)

===============================================================================

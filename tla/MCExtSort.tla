------------------------------- MODULE MCExtSort -------------------------------
(* Instances of ExtSort for TLC. *)
EXTENDS ExtSort

\* Every key takes one byte, but for the last, which takes more than a run holds.
LastLong == [k \in Keys |-> IF \A m \in Keys : m <= k THEN Budget + 1 ELSE 1]

\* The calls whose failure the build looks at: not the removal of the directory, in a destructor.
Checked == {"source", "write", "read", "remove", "publish"}

===============================================================================

------------------------------ MODULE MCOverlay ------------------------------
(* Instances of Overlay for TLC. *)
EXTENDS Overlay

\* Keys 2 and 3 share a hash; the others have one each.
Colliding == [k \in Keys |-> IF k = 3 THEN 2 ELSE k]

===============================================================================

----------------------------- MODULE MCAtomicWrite -----------------------------
(* Instances of AtomicWrite for TLC: the pids of the processes, and who runs where. *)
EXTENDS AtomicWrite

CONSTANTS p1, p2, a, b

\* One thread each in two processes, or two in one.
Apart == a :> p1 @@ b :> p2
Together == a :> p1 @@ b :> p1

SamePid == [p \in Processes |-> "7"]

\* One thread saves twice, the other once.
TwoAndOne == a :> 2 @@ b :> 1
Thrice == a :> 3 @@ b :> 1

AllFaults == {"create", "write", "panic", "sync", "rename", "syncDir", "remove"}

===============================================================================

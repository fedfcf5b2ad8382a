------------------------------ MODULE AtomicWrite ------------------------------
(***************************************************************************)
(* Saving a blob: write_atomically_with, fresh_beside and Spare of         *)
(* src/src/blob.rs, by several threads of several processes, over a file   *)
(* system that loses what was not synced when the power goes.              *)
(*                                                                         *)
(* The directory binds names to files.  A temporary's name is the pid and  *)
(* the counter of the process that made it; two processes may have one pid *)
(* (after a restart, or in two containers).  A file is known by the save   *)
(* that wrote it.  What a power loss leaves is per name: any binding the   *)
(* name has had since the directory was last synced.  Permissions, which   *)
(* a save copies from the file it replaces as best it can, are left out.   *)
(***************************************************************************)
EXTENDS Integers, FiniteSets, SequencesExt

CONSTANTS
    Processes, Threads,
    ProcessOf,      \* the process of each thread
    PidOf,          \* the pid of each process
    MaxAttempts,    \* names tried for one temporary: 128
    Faults,         \* the calls that may fail
    MaxSaves,       \* bound: saves each thread begins
    MaxCrashes      \* bound: processes killed and power losses, together

ASSUME ProcessAssumption ==
    /\ ProcessOf \in [Threads -> Processes]
    /\ DOMAIN PidOf = Processes /\ {"target", "none"} \cap Range(PidOf) = {}
ASSUME BoundAssumption == MaxAttempts \in Nat \ {0} /\ MaxSaves \in [Threads -> Nat] /\ MaxCrashes \in Nat
ASSUME FaultAssumption ==
    Faults \subseteq {"create", "write", "panic", "sync", "rename", "syncDir", "remove"}

VARIABLES
    seq,        \* WRITE_SEQ of each process
    pc, kind,   \* of each thread: where it is, and in a save or with a Spare
    saves,      \* how many of either it has begun
    attempts,   \* names it has tried for its temporary
    tmp,        \* the name of its temporary
    answer,     \* what its last call returned
    dir,        \* the directory: the file each name is bound to
    disk,       \* pairs of a name and a binding a power loss may leave it with
    files,      \* the files: whether whole, whether synced
    published,  \* history: the files renamed into place, in order
    promised,   \* history: the files whose save returned Ok
    lapsed,     \* history: what went wrong that a save does not answer for: "syncDir", "remove",
                \* "panic", "crash"
    crashes

threads == <<pc, kind, saves, attempts, tmp, answer>>
storage == <<dir, disk, files>>
history == <<published, promised, lapsed>>
vars == <<seq, threads, storage, history, crashes>>

\* Names are pairs; so are files.
Target == <<"target", 0>>
NoName == <<"none", 0>>
Old    == <<"old", 0>>      \* the file at the target before anything is saved, if there is one
Gone   == <<"gone", 0>>     \* the binding of a name that is not there
FileOf(t) == <<t, saves[t]>>
TempName(t) == <<PidOf[ProcessOf[t]], seq[ProcessOf[t]]>>

Init ==
    /\ seq = [p \in Processes |-> 0]
    /\ pc = [t \in Threads |-> "idle"]
    /\ kind = [t \in Threads |-> "save"]
    /\ saves = [t \in Threads |-> 0]
    /\ attempts = [t \in Threads |-> 0]
    /\ tmp = [t \in Threads |-> NoName]
    /\ answer = [t \in Threads |-> "none"]
    /\ \/ dir = [n \in {Target} |-> Old] /\ disk = {<<Target, Old>>} /\ published = <<Old>>
       \/ dir = [n \in {} |-> Old] /\ disk = {} /\ published = <<>>
    /\ files = [f \in {Old} |-> [whole |-> TRUE, synced |-> TRUE]]
    /\ promised = Range(published)
    /\ lapsed = {}
    /\ crashes = 0

-------------------------------------------------------------------------------
(* The directory. *)

\* The open with O_CREAT and O_EXCL of a name that is not there.
Bind(n, f) ==
    /\ dir' = [m \in DOMAIN dir \cup {n} |-> IF m = n THEN f ELSE dir[m]]
    /\ disk' = disk \cup {<<n, f>>} \cup (IF n \in DOMAIN dir THEN {} ELSE {<<n, Gone>>})

Unbind(n) ==
    /\ dir' = [m \in DOMAIN dir \ {n} |-> dir[m]]
    /\ disk' = disk \cup {<<n, Gone>>}

\* rename replaces whatever the target is bound to.
MoveOver(n) ==
    /\ dir' = [m \in (DOMAIN dir \cup {Target}) \ {n} |-> IF m = Target THEN dir[n] ELSE dir[m]]
    /\ disk' = disk \cup {<<n, Gone>>, <<Target, dir[n]>>}

-------------------------------------------------------------------------------
(* A thread saving, or holding a Spare. *)

Goto(t, label) == pc' = [pc EXCEPT ![t] = label]

Answer(t, a) == Goto(t, "idle") /\ answer' = [answer EXCEPT ![t] = a]

Begin(t) ==
    /\ pc[t] = "idle"
    /\ saves[t] < MaxSaves[t]
    /\ Goto(t, "create")
    /\ \E k \in {"save", "spare"} : kind' = [kind EXCEPT ![t] = k]
    /\ saves' = [saves EXCEPT ![t] = @ + 1]
    /\ attempts' = [attempts EXCEPT ![t] = 0]
    /\ tmp' = [tmp EXCEPT ![t] = NoName]
    /\ answer' = [answer EXCEPT ![t] = "none"]
    /\ UNCHANGED <<seq, storage, history, crashes>>

\* Fault: one name more is tried.
TriedAll(t) == attempts[t] = MaxAttempts

\* The name that is taken is the last to try.
LastAttempt(t) == attempts[t] + 1 = MaxAttempts

\* Fault: a name that is taken is tried again.
CreateSameName(t) ==
    /\ pc[t] = "create"
    /\ \/ /\ TempName(t) \in DOMAIN dir
          /\ attempts' = [attempts EXCEPT ![t] = @ + 1]
          /\ IF LastAttempt(t)
             THEN Answer(t, "exhausted")
             ELSE UNCHANGED <<pc, answer>>
          /\ UNCHANGED <<seq, tmp, storage>>
       \/ /\ TempName(t) \notin DOMAIN dir
          /\ seq' = [seq EXCEPT ![ProcessOf[t]] = @ + 1]
          /\ Bind(TempName(t), FileOf(t))
          /\ files' = [f \in DOMAIN files \cup {FileOf(t)} |->
                          IF f = FileOf(t) THEN [whole |-> FALSE, synced |-> FALSE] ELSE files[f]]
          /\ tmp' = [tmp EXCEPT ![t] = TempName(t)]
          /\ Goto(t, IF kind[t] = "save" THEN "write" ELSE "use")
          /\ UNCHANGED <<attempts, answer>>
    /\ UNCHANGED <<kind, saves, history, crashes>>

\* Fault: the open truncates a file that exists.
CreateOver(t) ==
    /\ pc[t] = "create"
    /\ seq' = [seq EXCEPT ![ProcessOf[t]] = @ + 1]
    /\ Bind(TempName(t), FileOf(t))
    /\ files' = [f \in DOMAIN files \cup {FileOf(t)} |->
                    IF f = FileOf(t) THEN [whole |-> FALSE, synced |-> FALSE] ELSE files[f]]
    /\ tmp' = [tmp EXCEPT ![t] = TempName(t)]
    /\ Goto(t, IF kind[t] = "save" THEN "write" ELSE "use")
    /\ UNCHANGED <<attempts, answer, kind, saves, history, crashes>>

\* The next value of the counter, and an open that refuses a name that exists: then the next,
\* MaxAttempts times.  The open may also fail otherwise.
Create(t) ==
    /\ pc[t] = "create"
    /\ seq' = [seq EXCEPT ![ProcessOf[t]] = @ + 1]
    /\ \/ /\ TempName(t) \in DOMAIN dir
          /\ attempts' = [attempts EXCEPT ![t] = @ + 1]
          /\ IF LastAttempt(t)
             THEN Answer(t, "exhausted")
             ELSE UNCHANGED <<pc, answer>>
          /\ UNCHANGED <<tmp, storage>>
       \/ /\ TempName(t) \notin DOMAIN dir
          /\ Bind(TempName(t), FileOf(t))
          /\ files' = [f \in DOMAIN files \cup {FileOf(t)} |->
                          IF f = FileOf(t)
                          THEN [whole |-> FALSE, synced |-> FALSE]
                          ELSE files[f]]
          /\ tmp' = [tmp EXCEPT ![t] = TempName(t)]
          /\ Goto(t, IF kind[t] = "save" THEN "write" ELSE "use")
          /\ UNCHANGED <<attempts, answer>>
       \/ /\ "create" \in Faults
          /\ Answer(t, "err")
          /\ UNCHANGED <<attempts, tmp, storage>>
    /\ UNCHANGED <<kind, saves, history, crashes>>

\* The caller's closure and the flush.  An error of either, or a full disk, leads to the removal.
Write(t) ==
    /\ pc[t] = "write"
    /\ \/ files' = [files EXCEPT ![FileOf(t)].whole = TRUE] /\ Goto(t, "sync")
       \/ "write" \in Faults /\ Goto(t, "remove") /\ UNCHANGED files
    /\ UNCHANGED <<seq, kind, saves, attempts, tmp, answer, dir, disk, history, crashes>>

\* A panic of the closure unwinds through the save, which has nothing to drop but the descriptor.
WritePanics(t) ==
    /\ pc[t] = "write"
    /\ "panic" \in Faults
    /\ Answer(t, "panic")
    /\ lapsed' = lapsed \cup {"panic"}
    /\ UNCHANGED <<seq, kind, saves, attempts, tmp, storage, published, promised, crashes>>

\* Fault: the flush is taken for durable.
SyncNothing(t) ==
    /\ pc[t] = "sync"
    /\ Goto(t, "rename")
    /\ UNCHANGED <<seq, kind, saves, attempts, tmp, answer, storage, history, crashes>>

\* sync_all
Sync(t) ==
    /\ pc[t] = "sync"
    /\ \/ files' = [files EXCEPT ![FileOf(t)].synced = TRUE] /\ Goto(t, "rename")
       \/ "sync" \in Faults /\ Goto(t, "remove") /\ UNCHANGED files
    /\ UNCHANGED <<seq, kind, saves, attempts, tmp, answer, dir, disk, history, crashes>>

\* Fault: a rename that fails leaves the temporary behind.
RenameNoCleanup(t) ==
    /\ pc[t] = "rename"
    /\ \/ /\ tmp[t] \in DOMAIN dir
          /\ MoveOver(tmp[t])
          /\ published' = Append(published, dir[tmp[t]])
          /\ Goto(t, "syncDir")
          /\ UNCHANGED answer
       \/ "rename" \in Faults /\ Answer(t, "err") /\ UNCHANGED <<dir, disk, published>>
    /\ UNCHANGED <<seq, kind, saves, attempts, tmp, files, promised, lapsed, crashes>>

Rename(t) ==
    /\ pc[t] = "rename"
    /\ \/ /\ tmp[t] \in DOMAIN dir
          /\ MoveOver(tmp[t])
          /\ published' = Append(published, dir[tmp[t]])
          /\ Goto(t, "syncDir")
       \/ /\ "rename" \in Faults \/ tmp[t] \notin DOMAIN dir
          /\ Goto(t, "remove")
          /\ UNCHANGED <<dir, disk, published>>
    /\ UNCHANGED <<seq, kind, saves, attempts, tmp, answer, files, promised, lapsed, crashes>>

\* remove_file(&tmp).ok()
RemoveTmp(t) ==
    /\ pc[t] = "remove"
    /\ \/ tmp[t] \in DOMAIN dir /\ Unbind(tmp[t]) /\ UNCHANGED lapsed
       \/ /\ "remove" \in Faults \/ tmp[t] \notin DOMAIN dir
          /\ lapsed' = lapsed \cup {"remove"}
          /\ UNCHANGED <<dir, disk>>
    /\ Answer(t, "err")
    /\ UNCHANGED <<seq, kind, saves, attempts, tmp, files, published, promised, crashes>>

\* Fault: the save fails with the directory's sync.
SyncDirOrFail(t) ==
    /\ pc[t] = "syncDir"
    /\ \/ /\ disk' = {<<n, dir[n]>> : n \in DOMAIN dir}
          /\ promised' = promised \cup {FileOf(t)}
          /\ Answer(t, "ok")
       \/ "syncDir" \in Faults /\ Answer(t, "err") /\ UNCHANGED <<disk, promised>>
    /\ UNCHANGED <<seq, kind, saves, attempts, tmp, dir, files, published, lapsed, crashes>>

\* Fault: the rename is left to the file system to make durable.
SyncDirNever(t) ==
    /\ pc[t] = "syncDir"
    /\ Answer(t, "ok")
    /\ promised' = promised \cup {FileOf(t)}
    /\ UNCHANGED <<seq, kind, saves, attempts, tmp, storage, published, lapsed, crashes>>

\* The directory's sync_all: best effort, and the save has succeeded either way.
SyncDir(t) ==
    /\ pc[t] = "syncDir"
    /\ \/ disk' = {<<n, dir[n]>> : n \in DOMAIN dir} /\ UNCHANGED lapsed
       \/ "syncDir" \in Faults /\ lapsed' = lapsed \cup {"syncDir"} /\ UNCHANGED disk
    /\ Answer(t, "ok")
    /\ promised' = promised \cup {FileOf(t)}
    /\ UNCHANGED <<seq, kind, saves, attempts, tmp, dir, files, published, crashes>>

\* Drop for Spare, on every way out of the build that used it, a panic's included.
DropSpare(t) ==
    /\ pc[t] = "use"
    /\ \/ tmp[t] \in DOMAIN dir /\ Unbind(tmp[t]) /\ UNCHANGED lapsed
       \/ /\ "remove" \in Faults \/ tmp[t] \notin DOMAIN dir
          /\ lapsed' = lapsed \cup {"remove"}
          /\ UNCHANGED <<dir, disk>>
    /\ Answer(t, "dropped")
    /\ UNCHANGED <<seq, kind, saves, attempts, tmp, files, published, promised, crashes>>

-------------------------------------------------------------------------------
(* Crashes. *)

\* The threads of a process are gone in the middle of whatever they did; it starts again.
Restart(ps) ==
    LET lost == {t \in Threads : ProcessOf[t] \in ps}
    IN  /\ pc' = [t \in Threads |-> IF t \in lost THEN "idle" ELSE pc[t]]
        /\ answer' = [t \in Threads |-> IF t \in lost THEN "none" ELSE answer[t]]
        /\ seq' = [p \in Processes |-> IF p \in ps THEN 0 ELSE seq[p]]
        /\ crashes' = crashes + 1
        /\ lapsed' = lapsed \cup {"crash"}
        /\ UNCHANGED <<kind, saves, attempts, tmp, published, promised>>

Kill(p) ==
    /\ crashes < MaxCrashes
    /\ Restart({p})
    /\ UNCHANGED storage

\* Each name comes back with a binding it may have; a file that was not synced comes back torn.
PowerLoss ==
    /\ crashes < MaxCrashes
    /\ Restart(Processes)
    /\ LET names == {d[1] : d \in disk}
           bindings == [n \in names |-> {d[2] : d \in {e \in disk : e[1] = n}}]
       IN  \E left \in {b \in [names -> UNION Range(bindings)] : \A n \in names : b[n] \in bindings[n]} :
               /\ dir' = [n \in {m \in names : left[m] # Gone} |-> left[n]]
               /\ disk' = {<<n, dir'[n]>> : n \in DOMAIN dir'}
    /\ files' = [f \in DOMAIN files |->
                    [files[f] EXCEPT !.whole = @ /\ files[f].synced, !.synced = TRUE]]

Thread(t) ==
    \/ Begin(t) \/ Create(t) \/ Write(t) \/ WritePanics(t) \/ Sync(t)
    \/ Rename(t) \/ RemoveTmp(t) \/ SyncDir(t) \/ DropSpare(t)

Next ==
    \/ \E t \in Threads : Thread(t)
    \/ \E p \in Processes : Kill(p)
    \/ PowerLoss

Spec == Init /\ [][Next]_vars

-------------------------------------------------------------------------------
(* Properties. *)

Busy(t) == pc[t] \in {"write", "sync", "rename", "remove", "use"}

Files == (Threads \X Nat) \cup {Old}
Names == (Range(PidOf) \X Nat) \cup {Target}

\* Every variable has its type, and no thread tries more names than it may (fresh_beside).
TypeOK ==
    /\ seq \in [Processes -> Nat]
    /\ pc \in [Threads -> {"idle", "create", "write", "sync", "rename", "remove", "syncDir", "use"}]
    /\ kind \in [Threads -> {"save", "spare"}]
    /\ saves \in [Threads -> Nat]
    /\ attempts \in [Threads -> 0 .. MaxAttempts]
    /\ tmp \in [Threads -> Names \cup {NoName}]
    /\ answer \in [Threads -> {"none", "ok", "err", "exhausted", "panic", "dropped"}]
    /\ dir \in [DOMAIN dir -> Files] /\ DOMAIN dir \subseteq Names
    /\ disk \subseteq Names \X (Files \cup {Gone})
    /\ files \in [DOMAIN files -> [whole : BOOLEAN, synced : BOOLEAN]]
    /\ DOMAIN files \subseteq Files
    /\ published \in Seq(Files)
    /\ promised \subseteq Files
    /\ lapsed \subseteq {"syncDir", "remove", "panic", "crash"}

\* Whoever opens the target finds a whole blob, at any moment and after any crash: what the
\* directory binds it to, and all a power loss may bind it to, is whole and synced
\* (write_atomically_with's contract).
TargetWhole ==
    /\ Target \in DOMAIN dir => files[dir[Target]].whole
    /\ \A d \in disk : d[1] = Target /\ d[2] # Gone =>
           files[d[2]].whole /\ files[d[2]].synced

\* A temporary is its thread's own until its thread renames or removes it, though names are
\* predictable, pids come back and other threads save to the same path (fresh_beside).
OwnTemp == \A t \in Threads : Busy(t) => tmp[t] \in DOMAIN dir /\ dir[tmp[t]] = FileOf(t)

\* A save that answered Ok is not undone by a power loss: what the target may come back as is that
\* save's blob or one renamed into place after it.  As long as no sync of the directory failed.
OkIsDurable ==
    "syncDir" \notin lapsed =>
        \A f \in promised : \A d \in disk : d[1] = Target =>
            \E i, j \in DOMAIN published : i <= j /\ published[i] = f /\ published[j] = d[2]

\* Temporaries that are no thread's.
Stale == {n \in DOMAIN dir \ {Target} : \A t \in Threads : Busy(t) => tmp[t] # n}

\* No temporary outlives its save or its Spare, short of a crash, a panic or a removal that failed.
NoLitter == lapsed \subseteq {"syncDir"} => Stale = {}

\* A save that failed left the target alone, for good, and no temporary behind.
FailedUntouched ==
    /\ NoLitter
    /\ \A t \in Threads : answer[t] \in {"err", "exhausted", "panic"} => FileOf(t) \notin Range(published)

\* Every attempt at a name was spent on a file that an earlier life of the process left behind,
\* where no two processes have one pid: a save runs out of attempts only against that many.
RetriesAreStale ==
    (\A p, q \in Processes : PidOf[p] = PidOf[q] => p = q) =>
        \A t \in Threads : pc[t] = "create" \/ answer[t] = "exhausted" =>
            attempts[t] <= Cardinality({n \in Stale : n[1] = PidOf[ProcessOf[t]]})

===============================================================================

--------------------------- MODULE AtomicWriteProofs ---------------------------
(***************************************************************************)
(* What saving a blob promises, proved for every number of threads and     *)
(* processes, any pids, any faults and any number of crashes: temporaries  *)
(* are their threads' own, the target is whole, what answered Ok is        *)
(* durable, what failed left no trace, and where pids differ a name that   *)
(* is taken is an earlier life's.                                          *)
(***************************************************************************)
EXTENDS AtomicWrite, FiniteSetTheorems, TLAPS

\* A thread that looks for a name has one left to try.
NameLeft == \A t \in Threads : pc[t] = "create" => attempts[t] < MaxAttempts

\* A thread in a save or a Spare has begun one.
Begun == \A t \in Threads : pc[t] # "idle" => saves[t] >= 1

\* A temporary is its thread's own, and not the target.
Owned == \A t \in Threads : Busy(t) =>
            tmp[t] \in DOMAIN dir /\ dir[tmp[t]] = FileOf(t) /\ tmp[t] # Target

\* The files are the old one and those of saves already begun; a thread that looks for a name has
\* yet to make its own.
Issued == \A f \in DOMAIN files :
            f = Old \/ (f \in Threads \X Nat /\ 1 <= f[2] /\ f[2] <= saves[f[1]])
Fresh  == \A t \in Threads : pc[t] = "create" => FileOf(t) \notin DOMAIN files

\* How far a thread's file has come.
Staged == \A t \in Threads :
            /\ Busy(t) => FileOf(t) \in DOMAIN files
            /\ pc[t] \in {"sync", "rename"} => files[FileOf(t)].whole
            /\ pc[t] = "rename" => files[FileOf(t)].synced

\* Names are bound to files, now and after a power loss, which may leave the directory as it is.
Bound  == \A n \in DOMAIN dir : dir[n] \in DOMAIN files /\ <<n, dir[n]>> \in disk
OnDisk == \A d \in disk : d[2] = Gone \/ d[2] \in DOMAIN files
WholeOnDisk == \A d \in disk : d[1] = Target /\ d[2] # Gone => files[d[2]].whole /\ files[d[2]].synced

\* Files are published once they are whole, never by a save that has still to rename its own, or
\* that failed.
PublishedIssued == \A i \in DOMAIN published : published[i] \in DOMAIN files
Unpublished ==
    \A t \in Threads :
        \/ pc[t] \in {"create", "write", "sync", "rename", "remove"}
        \/ answer[t] \in {"err", "exhausted", "panic"}
        => \A i \in DOMAIN published : published[i] # FileOf(t)

\* An answer is given at the end of a save.
Answered == \A t \in Threads : pc[t] # "idle" => answer[t] = "none"

\* Between a rename and the sync of the directory the target is the last file published.
Renamed == \A t \in Threads : pc[t] = "syncDir" =>
            /\ \E i \in DOMAIN published : published[i] = FileOf(t)
            /\ Target \in DOMAIN dir /\ published # <<>> /\ dir[Target] = published[Len(published)]
Promised == \A f \in promised : \E i \in DOMAIN published : published[i] = f

\* Every name beside the target is a thread's temporary, short of what NoLitter excuses.
AllHeld == lapsed \subseteq {"syncDir"} =>
            \A n \in DOMAIN dir : n = Target \/ \E t \in Threads : Busy(t) /\ tmp[t] = n

\* The inductive invariant.
SaveInv ==
    /\ TypeOK /\ NameLeft /\ Begun /\ Owned /\ Issued /\ Fresh /\ Staged /\ Bound /\ OnDisk
    /\ WholeOnDisk /\ PublishedIssued /\ Answered /\ Unpublished /\ Renamed /\ Promised
    /\ OkIsDurable /\ AllHeld

-------------------------------------------------------------------------------
\* A save or a Spare begins with a number of its own.
LEMMA BeginKeeps ==
    ASSUME SaveInv, NEW t \in Threads, Begin(t)
    PROVE  SaveInv'
<1>TypeOK. TypeOK'
  <2>pc. (pc \in [Threads -> {"idle", "create", "write", "sync", "rename", "remove", "syncDir", "use"}])'
    BY DEF SaveInv, TypeOK, Begin, Goto
  <2>kind. (kind \in [Threads -> {"save", "spare"}])'
    BY DEF SaveInv, TypeOK, Begin
  <2>saves. (saves \in [Threads -> Nat])'
    BY DEF SaveInv, TypeOK, Begin
  <2>attempts. (attempts \in [Threads -> 0 .. MaxAttempts])'
    BY BoundAssumption DEF SaveInv, TypeOK, Begin
  <2>tmp. (tmp \in [Threads -> Names \cup {NoName}])'
    BY DEF SaveInv, TypeOK, Begin
  <2>answer. (answer \in [Threads -> {"none", "ok", "err", "exhausted", "panic", "dropped"}])'
    BY DEF SaveInv, TypeOK, Begin
  <2>same. (/\ seq \in [Processes -> Nat] /\ dir \in [DOMAIN dir -> Files]
            /\ DOMAIN dir \subseteq Names /\ disk \subseteq Names \X (Files \cup {Gone})
            /\ files \in [DOMAIN files -> [whole : BOOLEAN, synced : BOOLEAN]]
            /\ DOMAIN files \subseteq Files /\ published \in Seq(Files) /\ promised \subseteq Files
            /\ lapsed \subseteq {"syncDir", "remove", "panic", "crash"})'
    BY DEF SaveInv, TypeOK, Begin, storage, history
  <2> QED BY <2>pc, <2>kind, <2>saves, <2>attempts, <2>tmp, <2>answer, <2>same DEF TypeOK, Files
<1>NameLeft. NameLeft'
    BY BoundAssumption DEF Begin, Goto, SaveInv, NameLeft, TypeOK
<1>Begun. Begun'
    BY DEF Begin, Goto, SaveInv, Begun, TypeOK
<1>Owned. Owned'
    BY DEF Begin, Goto, SaveInv, Owned, Busy, FileOf, storage
<1>Issued. Issued'
    BY DEF Begin, SaveInv, Issued, TypeOK, storage
<1>Fresh. Fresh'
    BY BoundAssumption DEF Begin, Goto, SaveInv, Fresh, FileOf, TypeOK, Issued, Begun, storage, Files,
       Old, Gone, NoName
<1>Staged. Staged'
    BY DEF Begin, Goto, SaveInv, Staged, Busy, FileOf, storage
<1>Answered. Answered'
    BY DEF Begin, Goto, SaveInv, Answered, TypeOK
<1>Unpublished. Unpublished'
    BY ProcessAssumption DEF Begin, Goto, SaveInv, Unpublished, FileOf, TypeOK, PublishedIssued,
       Issued, history, Names, Files, Target, Old, Gone, NoName
<1>Renamed. Renamed'
    BY DEF Begin, Goto, SaveInv, Renamed, FileOf, TypeOK, storage, history
<1>AllHeld. AllHeld'
    BY DEF Begin, Goto, SaveInv, AllHeld, Busy, storage, history
<1>kept. (Bound /\ OnDisk /\ WholeOnDisk /\ PublishedIssued /\ Promised /\ OkIsDurable)'
    BY DEF SaveInv, Bound, OnDisk, WholeOnDisk, PublishedIssued, Promised, OkIsDurable, Begin,
       storage, history
<1> QED BY <1>TypeOK, <1>NameLeft, <1>Begun, <1>Owned, <1>Issued, <1>Fresh, <1>Staged, <1>Answered,
           <1>Unpublished, <1>Renamed, <1>AllHeld, <1>kept DEF SaveInv

\* A name is taken, or bound to a file of the thread's own.
LEMMA CreateKeeps ==
    ASSUME SaveInv, NEW t \in Threads, Create(t)
    PROVE  SaveInv'
<1>y. /\ pc \in [Threads -> {"idle", "create", "write", "sync", "rename", "remove", "syncDir", "use"}]
      /\ tmp \in [Threads -> Names \cup {NoName}] /\ saves \in [Threads -> Nat]
      /\ seq \in [Processes -> Nat]
    BY DEF SaveInv, TypeOK
<1>n. TempName(t) \in Range(PidOf) \X Nat /\ TempName(t) \in Names /\ TempName(t) # Target
  <2>1. ProcessOf[t] \in Processes /\ seq[ProcessOf[t]] \in Nat
    BY <1>y, ProcessAssumption
  <2>2. PidOf[ProcessOf[t]] \in Range(PidOf)
    BY <2>1, ProcessAssumption DEF Range
  <2>3. PidOf[ProcessOf[t]] # "target"
    BY <2>2, ProcessAssumption
  <2> QED BY <2>1, <2>2, <2>3 DEF TempName, Names, Target
<1>f. /\ pc[t] = "create" /\ FileOf(t) = <<t, saves[t]>> /\ saves[t] \in Nat /\ saves[t] >= 1
      /\ FileOf(t) \notin DOMAIN files /\ FileOf(t) \in Files /\ FileOf(t) # Gone
    BY <1>y DEF Create, SaveInv, Begun, Fresh, FileOf, Files, Gone
<1> DEFINE Looks == /\ UNCHANGED <<tmp, dir, disk, files>>
                    /\ pc' = pc \/ pc' = [pc EXCEPT ![t] = "idle"]
           Makes == /\ TempName(t) \notin DOMAIN dir
                    /\ DOMAIN dir' = DOMAIN dir \cup {TempName(t)} /\ dir' \in [DOMAIN dir' -> Files]
                    /\ dir'[TempName(t)] = FileOf(t) /\ \A n \in DOMAIN dir : dir'[n] = dir[n]
                    /\ disk' = disk \cup {<<TempName(t), FileOf(t)>>, <<TempName(t), Gone>>}
                    /\ DOMAIN files' = DOMAIN files \cup {FileOf(t)}
                    /\ files' \in [DOMAIN files' -> [whole : BOOLEAN, synced : BOOLEAN]]
                    /\ \A f \in DOMAIN files : files'[f] = files[f]
                    /\ tmp' = [tmp EXCEPT ![t] = TempName(t)]
                    /\ pc' = [pc EXCEPT ![t] = "write"] \/ pc' = [pc EXCEPT ![t] = "use"]
<1>c. Looks \/ Makes
  <2>1. CASE UNCHANGED <<tmp, storage>> /\ (pc' = pc \/ pc' = [pc EXCEPT ![t] = "idle"])
    BY <2>1 DEF storage
  <2>2. CASE /\ TempName(t) \notin DOMAIN dir /\ Bind(TempName(t), FileOf(t))
             /\ files' = [f \in DOMAIN files \cup {FileOf(t)} |->
                             IF f = FileOf(t) THEN [whole |-> FALSE, synced |-> FALSE] ELSE files[f]]
             /\ tmp' = [tmp EXCEPT ![t] = TempName(t)]
             /\ pc' = [pc EXCEPT ![t] = IF kind[t] = "save" THEN "write" ELSE "use"]
    <3>1. dir' \in [DOMAIN dir \cup {TempName(t)} -> Files]
        BY <1>f, <2>2 DEF Bind, SaveInv, TypeOK
    <3>2. files' \in [DOMAIN files \cup {FileOf(t)} -> [whole : BOOLEAN, synced : BOOLEAN]]
        BY <2>2 DEF SaveInv, TypeOK
    <3>3. dir'[TempName(t)] = FileOf(t) /\ \A n \in DOMAIN dir : dir'[n] = dir[n]
        BY <2>2 DEF Bind
    <3>4. \A f \in DOMAIN files : files'[f] = files[f]
        BY <2>2, <1>f
    <3>5. disk' = disk \cup {<<TempName(t), FileOf(t)>>, <<TempName(t), Gone>>}
        BY <2>2 DEF Bind
    <3> QED BY <2>2, <3>1, <3>2, <3>3, <3>4, <3>5
  <2> QED BY <2>1, <2>2 DEF Create, Goto, Answer
<1>s. UNCHANGED <<saves, kind, published, promised, lapsed>>
    BY DEF Create, history
<1>TypeOK. TypeOK'
  <2>seq. (seq \in [Processes -> Nat])'
    BY <1>y, ProcessAssumption DEF Create
  <2>pc. (pc \in [Threads -> {"idle", "create", "write", "sync", "rename", "remove", "syncDir", "use"}])'
    BY <1>y, <1>c
  <2>attempts. (attempts \in [Threads -> 0 .. MaxAttempts])'
    BY <1>f, BoundAssumption DEF SaveInv, TypeOK, NameLeft, Create, Answer
  <2>tmp. (tmp \in [Threads -> Names \cup {NoName}])'
    BY <1>y, <1>n, <1>c
  <2>answer. (answer \in [Threads -> {"none", "ok", "err", "exhausted", "panic", "dropped"}])'
    BY DEF SaveInv, TypeOK, Create, Answer, Bind
  <2>dir. (dir \in [DOMAIN dir -> Files] /\ DOMAIN dir \subseteq Names)'
    BY <1>y, <1>n, <1>f, <1>c, <1>s DEF SaveInv, TypeOK
  <2>disk. (disk \subseteq Names \X (Files \cup {Gone}))'
    <3>1. {<<TempName(t), FileOf(t)>>, <<TempName(t), Gone>>} \subseteq Names \X (Files \cup {Gone})
        BY <1>n, <1>f
    <3>2. disk \subseteq Names \X (Files \cup {Gone})
        BY DEF SaveInv, TypeOK
    <3>3. disk' \subseteq disk \cup {<<TempName(t), FileOf(t)>>, <<TempName(t), Gone>>}
        BY <1>c
    <3> QED BY <3>1, <3>2, <3>3
  <2>files. (/\ files \in [DOMAIN files -> [whole : BOOLEAN, synced : BOOLEAN]]
             /\ DOMAIN files \subseteq Files)'
    BY <1>y, <1>n, <1>f, <1>c, <1>s DEF SaveInv, TypeOK
  <2>same. (/\ kind \in [Threads -> {"save", "spare"}] /\ saves \in [Threads -> Nat]
            /\ published \in Seq(Files) /\ promised \subseteq Files
            /\ lapsed \subseteq {"syncDir", "remove", "panic", "crash"})'
    BY DEF SaveInv, TypeOK, Create, history
  <2> QED BY <2>seq, <2>pc, <2>attempts, <2>tmp, <2>answer, <2>dir, <2>disk, <2>files, <2>same DEF
             TypeOK, Files
<1>NameLeft. NameLeft'
    BY BoundAssumption DEF Create, Goto, Answer, Bind, LastAttempt, SaveInv, NameLeft, TypeOK
<1>Begun. Begun'
    BY DEF Create, Goto, Answer, Bind, SaveInv, Begun, TypeOK
<1>Owned. Owned'
    BY <1>y, <1>n, <1>f, <1>c, <1>s DEF SaveInv, Owned, Busy, FileOf
<1>Issued. Issued'
    BY <1>y, <1>n, <1>f, <1>c, <1>s DEF SaveInv, Issued
<1>Fresh. Fresh'
    BY <1>y, <1>n, <1>f, <1>c, <1>s DEF SaveInv, Fresh, FileOf
<1>Staged. Staged'
    BY <1>y, <1>n, <1>f, <1>c, <1>s DEF SaveInv, Staged, Busy, FileOf
<1>Bound. Bound'
    BY <1>y, <1>n, <1>f, <1>c, <1>s DEF SaveInv, Bound
<1>OnDisk. OnDisk'
    BY <1>y, <1>n, <1>f, <1>c, <1>s DEF SaveInv, OnDisk
<1>WholeOnDisk. WholeOnDisk'
    BY <1>y, <1>n, <1>f, <1>c, <1>s DEF SaveInv, WholeOnDisk, OnDisk
<1>PublishedIssued. PublishedIssued'
    BY DEF Create, Bind, SaveInv, PublishedIssued, storage, history
<1>Answered. Answered'
    BY DEF Create, Goto, Answer, Bind, SaveInv, Answered, TypeOK
<1>Unpublished. Unpublished'
    BY DEF Create, Goto, Answer, FileOf, Bind, SaveInv, Unpublished, TypeOK, history
<1>Renamed. Renamed'
    BY <1>y, <1>n, <1>f, <1>c, <1>s DEF SaveInv, Renamed, FileOf
<1>OkIsDurable. OkIsDurable'
    BY <1>n, <1>c, <1>s DEF SaveInv, OkIsDurable
<1>AllHeld. AllHeld'
  <2>1. \A u \in Threads : Busy(u) => u # t /\ Busy(u)' /\ tmp'[u] = tmp[u]
    BY <1>y, <1>f, <1>c DEF Busy
  <2>2. Makes => Busy(t)' /\ tmp'[t] = TempName(t)
    BY <1>y DEF Busy
  <2> QED BY <1>c, <1>s, <2>1, <2>2 DEF SaveInv, AllHeld
<1>kept. (Promised)'
    BY DEF SaveInv, Promised, Create, history, Bind
<1> QED BY <1>TypeOK, <1>NameLeft, <1>Begun, <1>Owned, <1>Issued, <1>Fresh, <1>Staged, <1>Bound,
           <1>OnDisk, <1>WholeOnDisk, <1>PublishedIssued, <1>Answered, <1>Unpublished, <1>Renamed,
           <1>OkIsDurable, <1>AllHeld, <1>kept DEF SaveInv

\* The file is written whole, or goes.
LEMMA WriteKeeps ==
    ASSUME SaveInv, NEW t \in Threads, Write(t)
    PROVE  SaveInv'
<1>y. /\ pc \in [Threads -> {"idle", "create", "write", "sync", "rename", "remove", "syncDir", "use"}]
      /\ tmp \in [Threads -> Names \cup {NoName}] /\ saves \in [Threads -> Nat]
      /\ seq \in [Processes -> Nat]
    BY DEF SaveInv, TypeOK
<1>f. pc[t] = "write" /\ FileOf(t) \in DOMAIN files
    BY DEF Write, SaveInv, Staged, Busy
<1>c. \/ /\ files' = [files EXCEPT ![FileOf(t)].whole = TRUE] /\ pc' = [pc EXCEPT ![t] = "sync"]
      \/ files' = files /\ pc' = [pc EXCEPT ![t] = "remove"]
    BY DEF Write, Goto
<1>g. /\ DOMAIN files' = DOMAIN files /\ files' \in [DOMAIN files -> [whole : BOOLEAN, synced : BOOLEAN]]
      /\ \A f \in DOMAIN files : files[f].whole => files'[f].whole
      /\ \A f \in DOMAIN files : files[f].synced => files'[f].synced
  <2>1. CASE files' = [files EXCEPT ![FileOf(t)].whole = TRUE]
    <3>1. files \in [DOMAIN files -> [whole : BOOLEAN, synced : BOOLEAN]]
        BY DEF SaveInv, TypeOK
    <3>2. \A f \in DOMAIN files :
            files'[f] = IF f = FileOf(t) THEN [files[f] EXCEPT !.whole = TRUE] ELSE files[f]
        BY <2>1, <3>1, <1>f
    <3>3. \A r \in [whole : BOOLEAN, synced : BOOLEAN] :
            LET s == [r EXCEPT !.whole = TRUE] IN
            /\ s \in [whole : BOOLEAN, synced : BOOLEAN]
            /\ r.whole => s.whole
            /\ r.synced => s.synced
        OBVIOUS
    <3>4. DOMAIN files' = DOMAIN files /\ files' = [f \in DOMAIN files |-> files'[f]]
        BY <2>1, <3>1, <1>f
    <3> QED BY <3>1, <3>2, <3>3, <3>4
  <2>2. CASE files' = files
    BY <2>2 DEF SaveInv, TypeOK
  <2> QED BY <2>1, <2>2, <1>c
<1>h. pc'[t] = "sync" => files'[FileOf(t)].whole
  <2>1. CASE files' = [files EXCEPT ![FileOf(t)].whole = TRUE]
    <3>1. files[FileOf(t)] \in [whole : BOOLEAN, synced : BOOLEAN] /\ files = [f \in DOMAIN files |-> files[f]]
        BY <1>f DEF SaveInv, TypeOK
    <3>2. files'[FileOf(t)] = [files[FileOf(t)] EXCEPT !.whole = TRUE]
        BY <2>1, <3>1, <1>f
    <3> QED BY <3>1, <3>2
  <2>2. CASE pc' = [pc EXCEPT ![t] = "remove"]
    BY <2>2, <1>y
  <2> QED BY <2>1, <2>2, <1>c
<1>s. UNCHANGED <<saves, kind, tmp, dir, disk, lapsed>>
    BY DEF Write, history
<1>TypeOK. TypeOK'
  <2>pc. (pc \in [Threads -> {"idle", "create", "write", "sync", "rename", "remove", "syncDir", "use"}])'
    BY DEF SaveInv, TypeOK, Write, Goto
  <2>files. (/\ files \in [DOMAIN files -> [whole : BOOLEAN, synced : BOOLEAN]]
             /\ DOMAIN files \subseteq Files)'
    BY <1>g DEF SaveInv, TypeOK
  <2>same. (/\ seq \in [Processes -> Nat] /\ kind \in [Threads -> {"save", "spare"}]
            /\ saves \in [Threads -> Nat] /\ attempts \in [Threads -> 0 .. MaxAttempts]
            /\ tmp \in [Threads -> Names \cup {NoName}]
            /\ answer \in [Threads -> {"none", "ok", "err", "exhausted", "panic", "dropped"}]
            /\ dir \in [DOMAIN dir -> Files] /\ DOMAIN dir \subseteq Names
            /\ disk \subseteq Names \X (Files \cup {Gone}) /\ published \in Seq(Files)
            /\ promised \subseteq Files /\ lapsed \subseteq {"syncDir", "remove", "panic", "crash"})'
    BY DEF SaveInv, TypeOK, Write, history
  <2> QED BY <2>pc, <2>files, <2>same DEF TypeOK, Files
<1>NameLeft. NameLeft'
    BY DEF Write, Goto, SaveInv, NameLeft, TypeOK
<1>Begun. Begun'
    BY DEF Write, Goto, SaveInv, Begun, TypeOK
<1>Owned. Owned'
    BY DEF Write, Goto, SaveInv, Owned, Busy, FileOf, TypeOK
<1>Issued. Issued'
    BY DEF Write, SaveInv, Issued
<1>Fresh. Fresh'
    BY DEF Write, Goto, SaveInv, Fresh, FileOf, TypeOK
<1>Staged. Staged'
    BY <1>y, <1>f, <1>c, <1>g, <1>h, <1>s DEF SaveInv, Staged, Busy, FileOf
<1>Bound. Bound'
    BY DEF Write, SaveInv, Bound
<1>OnDisk. OnDisk'
    BY DEF Write, SaveInv, OnDisk
<1>WholeOnDisk. WholeOnDisk'
    BY <1>g, <1>s DEF SaveInv, WholeOnDisk, OnDisk
<1>PublishedIssued. PublishedIssued'
    BY DEF Write, SaveInv, PublishedIssued, history
<1>Answered. Answered'
    BY DEF Write, Goto, SaveInv, Answered, TypeOK
<1>Unpublished. Unpublished'
    BY DEF Write, Goto, SaveInv, Unpublished, FileOf, TypeOK, history
<1>Renamed. Renamed'
    BY DEF Write, Goto, SaveInv, Renamed, FileOf, TypeOK, history
<1>AllHeld. AllHeld'
  <2>1. \A u \in Threads : Busy(u) => Busy(u)'
    BY <1>y, <1>c DEF Busy
  <2> QED BY <2>1, <1>s DEF SaveInv, AllHeld
<1>kept. (Promised /\ OkIsDurable)'
    BY DEF SaveInv, Promised, OkIsDurable, Write, history
<1> QED BY <1>TypeOK, <1>NameLeft, <1>Begun, <1>Owned, <1>Issued, <1>Fresh, <1>Staged, <1>Bound,
           <1>OnDisk, <1>WholeOnDisk, <1>PublishedIssued, <1>Answered, <1>Unpublished, <1>Renamed,
           <1>AllHeld, <1>kept DEF SaveInv

\* A panic leaves the temporary where it is.
LEMMA WritePanicsKeeps ==
    ASSUME SaveInv, NEW t \in Threads, WritePanics(t)
    PROVE  SaveInv'
<1>TypeOK. TypeOK'
  <2>pc. (pc \in [Threads -> {"idle", "create", "write", "sync", "rename", "remove", "syncDir", "use"}])'
    BY DEF SaveInv, TypeOK, WritePanics, Goto, Answer
  <2>answer. (answer \in [Threads -> {"none", "ok", "err", "exhausted", "panic", "dropped"}])'
    BY DEF SaveInv, TypeOK, WritePanics, Answer
  <2>lapsed. (lapsed \subseteq {"syncDir", "remove", "panic", "crash"})'
    BY DEF SaveInv, TypeOK, WritePanics
  <2>same. (/\ seq \in [Processes -> Nat] /\ kind \in [Threads -> {"save", "spare"}]
            /\ saves \in [Threads -> Nat] /\ attempts \in [Threads -> 0 .. MaxAttempts]
            /\ tmp \in [Threads -> Names \cup {NoName}] /\ dir \in [DOMAIN dir -> Files]
            /\ DOMAIN dir \subseteq Names /\ disk \subseteq Names \X (Files \cup {Gone})
            /\ files \in [DOMAIN files -> [whole : BOOLEAN, synced : BOOLEAN]]
            /\ DOMAIN files \subseteq Files /\ published \in Seq(Files) /\ promised \subseteq Files)'
    BY DEF SaveInv, TypeOK, WritePanics, storage
  <2> QED BY <2>pc, <2>answer, <2>lapsed, <2>same DEF TypeOK, Files
<1>NameLeft. NameLeft'
    BY DEF WritePanics, Goto, Answer, SaveInv, NameLeft
<1>Begun. Begun'
    BY DEF WritePanics, Goto, Answer, SaveInv, Begun
<1>Owned. Owned'
    BY DEF WritePanics, Goto, Answer, SaveInv, Owned, Busy, FileOf, storage
<1>Fresh. Fresh'
    BY DEF WritePanics, Goto, Answer, SaveInv, Fresh, FileOf, storage
<1>Staged. Staged'
    BY DEF WritePanics, Goto, Answer, SaveInv, Staged, Busy, FileOf, storage
<1>Answered. Answered'
    BY DEF WritePanics, Goto, Answer, SaveInv, Answered, TypeOK
<1>Unpublished. Unpublished'
    BY DEF WritePanics, Goto, Answer, SaveInv, Unpublished, FileOf
<1>Renamed. Renamed'
    BY DEF WritePanics, Goto, Answer, SaveInv, Renamed, FileOf, storage
<1>OkIsDurable. OkIsDurable'
    BY DEF WritePanics, SaveInv, OkIsDurable, storage, Names, Files
<1>AllHeld. AllHeld'
    BY DEF WritePanics, SaveInv, AllHeld
<1>kept. (Issued /\ Bound /\ OnDisk /\ WholeOnDisk /\ PublishedIssued /\ Promised)'
    BY DEF SaveInv, Issued, Bound, OnDisk, WholeOnDisk, PublishedIssued, Promised, WritePanics, storage
<1> QED BY <1>TypeOK, <1>NameLeft, <1>Begun, <1>Owned, <1>Fresh, <1>Staged, <1>Answered,
           <1>Unpublished, <1>Renamed, <1>OkIsDurable, <1>AllHeld, <1>kept DEF SaveInv

\* A file is synced before it is renamed.
LEMMA SyncKeeps ==
    ASSUME SaveInv, NEW t \in Threads, Sync(t)
    PROVE  SaveInv'
<1>y. /\ pc \in [Threads -> {"idle", "create", "write", "sync", "rename", "remove", "syncDir", "use"}]
      /\ tmp \in [Threads -> Names \cup {NoName}] /\ saves \in [Threads -> Nat]
      /\ seq \in [Processes -> Nat]
    BY DEF SaveInv, TypeOK
<1>f. pc[t] = "sync" /\ FileOf(t) \in DOMAIN files
    BY DEF Sync, SaveInv, Staged, Busy
<1>c. \/ /\ files' = [files EXCEPT ![FileOf(t)].synced = TRUE] /\ pc' = [pc EXCEPT ![t] = "rename"]
      \/ files' = files /\ pc' = [pc EXCEPT ![t] = "remove"]
    BY DEF Sync, Goto
<1>g. /\ DOMAIN files' = DOMAIN files /\ files' \in [DOMAIN files -> [whole : BOOLEAN, synced : BOOLEAN]]
      /\ \A f \in DOMAIN files : files[f].whole => files'[f].whole
      /\ \A f \in DOMAIN files : files[f].synced => files'[f].synced
  <2>1. CASE files' = [files EXCEPT ![FileOf(t)].synced = TRUE]
    <3>1. files \in [DOMAIN files -> [whole : BOOLEAN, synced : BOOLEAN]]
        BY DEF SaveInv, TypeOK
    <3>2. \A f \in DOMAIN files :
            files'[f] = IF f = FileOf(t) THEN [files[f] EXCEPT !.synced = TRUE] ELSE files[f]
        BY <2>1, <3>1, <1>f
    <3>3. \A r \in [whole : BOOLEAN, synced : BOOLEAN] :
            LET s == [r EXCEPT !.synced = TRUE] IN
            /\ s \in [whole : BOOLEAN, synced : BOOLEAN]
            /\ r.whole => s.whole
            /\ r.synced => s.synced
        OBVIOUS
    <3>4. DOMAIN files' = DOMAIN files /\ files' = [f \in DOMAIN files |-> files'[f]]
        BY <2>1, <3>1, <1>f
    <3> QED BY <3>1, <3>2, <3>3, <3>4
  <2>2. CASE files' = files
    BY <2>2 DEF SaveInv, TypeOK
  <2> QED BY <2>1, <2>2, <1>c
<1>h. pc'[t] = "rename" => files'[FileOf(t)].synced
  <2>1. CASE files' = [files EXCEPT ![FileOf(t)].synced = TRUE]
    <3>1. files[FileOf(t)] \in [whole : BOOLEAN, synced : BOOLEAN] /\ files = [f \in DOMAIN files |-> files[f]]
        BY <1>f DEF SaveInv, TypeOK
    <3>2. files'[FileOf(t)] = [files[FileOf(t)] EXCEPT !.synced = TRUE]
        BY <2>1, <3>1, <1>f
    <3> QED BY <3>1, <3>2
  <2>2. CASE pc' = [pc EXCEPT ![t] = "remove"]
    BY <2>2, <1>y
  <2> QED BY <2>1, <2>2, <1>c
<1>s. UNCHANGED <<saves, kind, tmp, dir, disk, lapsed>>
    BY DEF Sync, history
<1>TypeOK. TypeOK'
  <2>pc. (pc \in [Threads -> {"idle", "create", "write", "sync", "rename", "remove", "syncDir", "use"}])'
    BY DEF SaveInv, TypeOK, Sync, Goto
  <2>files. (/\ files \in [DOMAIN files -> [whole : BOOLEAN, synced : BOOLEAN]]
             /\ DOMAIN files \subseteq Files)'
    BY <1>g DEF SaveInv, TypeOK
  <2>same. (/\ seq \in [Processes -> Nat] /\ kind \in [Threads -> {"save", "spare"}]
            /\ saves \in [Threads -> Nat] /\ attempts \in [Threads -> 0 .. MaxAttempts]
            /\ tmp \in [Threads -> Names \cup {NoName}]
            /\ answer \in [Threads -> {"none", "ok", "err", "exhausted", "panic", "dropped"}]
            /\ dir \in [DOMAIN dir -> Files] /\ DOMAIN dir \subseteq Names
            /\ disk \subseteq Names \X (Files \cup {Gone}) /\ published \in Seq(Files)
            /\ promised \subseteq Files /\ lapsed \subseteq {"syncDir", "remove", "panic", "crash"})'
    BY DEF SaveInv, TypeOK, Sync, history
  <2> QED BY <2>pc, <2>files, <2>same DEF TypeOK, Files
<1>NameLeft. NameLeft'
    BY DEF Sync, Goto, SaveInv, NameLeft, TypeOK
<1>Begun. Begun'
    BY DEF Sync, Goto, SaveInv, Begun, TypeOK
<1>Owned. Owned'
    BY DEF Sync, Goto, SaveInv, Owned, Busy, FileOf, TypeOK
<1>Issued. Issued'
    BY DEF Sync, SaveInv, Issued
<1>Fresh. Fresh'
    BY DEF Sync, Goto, SaveInv, Fresh, FileOf, TypeOK
<1>Staged. Staged'
    BY <1>y, <1>f, <1>c, <1>g, <1>h, <1>s DEF SaveInv, Staged, Busy, FileOf
<1>Bound. Bound'
    BY DEF Sync, SaveInv, Bound
<1>OnDisk. OnDisk'
    BY DEF Sync, SaveInv, OnDisk
<1>WholeOnDisk. WholeOnDisk'
    BY <1>g, <1>s DEF SaveInv, WholeOnDisk, OnDisk
<1>PublishedIssued. PublishedIssued'
    BY DEF Sync, SaveInv, PublishedIssued, history
<1>Answered. Answered'
    BY DEF Sync, Goto, SaveInv, Answered, TypeOK
<1>Unpublished. Unpublished'
    BY DEF Sync, Goto, SaveInv, Unpublished, FileOf, TypeOK, history
<1>Renamed. Renamed'
    BY DEF Sync, Goto, SaveInv, Renamed, FileOf, TypeOK, history
<1>AllHeld. AllHeld'
  <2>1. \A u \in Threads : Busy(u) => Busy(u)'
    BY <1>y, <1>c DEF Busy
  <2> QED BY <2>1, <1>s DEF SaveInv, AllHeld
<1>kept. (Promised /\ OkIsDurable)'
    BY DEF SaveInv, Promised, OkIsDurable, Sync, history
<1> QED BY <1>TypeOK, <1>NameLeft, <1>Begun, <1>Owned, <1>Issued, <1>Fresh, <1>Staged, <1>Bound,
           <1>OnDisk, <1>WholeOnDisk, <1>PublishedIssued, <1>Answered, <1>Unpublished, <1>Renamed,
           <1>AllHeld, <1>kept DEF SaveInv

\* The target is the file that was renamed, whole and synced.
LEMMA RenameKeeps ==
    ASSUME SaveInv, NEW t \in Threads, Rename(t)
    PROVE  SaveInv'
<1>y. /\ pc \in [Threads -> {"idle", "create", "write", "sync", "rename", "remove", "syncDir", "use"}]
      /\ tmp \in [Threads -> Names \cup {NoName}] /\ saves \in [Threads -> Nat]
      /\ seq \in [Processes -> Nat]
    BY DEF SaveInv, TypeOK
<1>f. /\ pc[t] = "rename" /\ tmp[t] \in DOMAIN dir /\ dir[tmp[t]] = FileOf(t) /\ tmp[t] # Target
      /\ FileOf(t) \in DOMAIN files /\ files[FileOf(t)].whole /\ files[FileOf(t)].synced
    BY DEF Rename, SaveInv, Owned, Busy, Staged
<1>e. tmp[t] \in Names /\ FileOf(t) = <<t, saves[t]>> /\ FileOf(t) \in Files /\ FileOf(t) # Gone
  <2>1. saves[t] \in Nat /\ saves[t] >= 1
    BY <1>y, <1>f DEF SaveInv, Begun
  <2>2. FileOf(t) = <<t, saves[t]>> /\ FileOf(t) \in Files /\ FileOf(t) # Gone
    BY <2>1 DEF FileOf, Files, Gone
  <2>3. tmp[t] \in Names
    BY <1>f DEF SaveInv, TypeOK
  <2> QED BY <2>2, <2>3
<1> DEFINE Fails == UNCHANGED <<dir, disk, published>> /\ pc' = [pc EXCEPT ![t] = "remove"]
           Moves == /\ DOMAIN dir' = (DOMAIN dir \cup {Target}) \ {tmp[t]} /\ dir' \in [DOMAIN dir' -> Files]
                    /\ dir'[Target] = FileOf(t)
                    /\ \A n \in DOMAIN dir : n \notin {Target, tmp[t]} => dir'[n] = dir[n]
                    /\ disk' = disk \cup {<<tmp[t], Gone>>, <<Target, FileOf(t)>>}
                    /\ published' \in Seq(Files) /\ Len(published) \in Nat
                    /\ DOMAIN published = 1 .. Len(published)
                    /\ Len(published') = Len(published) + 1
                    /\ DOMAIN published' = 1 .. Len(published) + 1
                    /\ \A i \in DOMAIN published : published'[i] = published[i]
                    /\ published'[Len(published) + 1] = FileOf(t)
                    /\ pc' = [pc EXCEPT ![t] = "syncDir"]
<1>c. Fails \/ Moves
  <2>1. CASE /\ MoveOver(tmp[t]) /\ published' = Append(published, dir[tmp[t]])
             /\ pc' = [pc EXCEPT ![t] = "syncDir"]
    <3>1. dir' \in [(DOMAIN dir \cup {Target}) \ {tmp[t]} -> Files]
        BY <2>1, <1>f, <1>e DEF MoveOver, SaveInv, TypeOK
    <3>2. /\ dir'[Target] = FileOf(t)
          /\ \A n \in DOMAIN dir : n \notin {Target, tmp[t]} => dir'[n] = dir[n]
        BY <2>1, <1>f, <1>e DEF MoveOver
    <3>3. disk' = disk \cup {<<tmp[t], Gone>>, <<Target, FileOf(t)>>}
        BY <2>1, <1>f, <1>e DEF MoveOver
    <3>4. published \in Seq(Files)
        BY DEF SaveInv, TypeOK
    <3>5. /\ published' \in Seq(Files) /\ Len(published) \in Nat
          /\ DOMAIN published = 1 .. Len(published) /\ Len(published') = Len(published) + 1
          /\ DOMAIN published' = 1 .. Len(published) + 1
          /\ \A i \in DOMAIN published : published'[i] = published[i]
          /\ published'[Len(published) + 1] = FileOf(t)
        BY <2>1, <1>f, <1>e, <3>4
    <3> QED BY <2>1, <3>1, <3>2, <3>3, <3>5
  <2>2. CASE UNCHANGED <<dir, disk, published>> /\ pc' = [pc EXCEPT ![t] = "remove"]
    BY <2>2
  <2> QED BY <2>1, <2>2 DEF Rename, Goto
<1>s. UNCHANGED <<saves, kind, tmp, answer, files, promised, lapsed>>
    BY DEF Rename
<1>TypeOK. TypeOK'
  <2>pc. (pc \in [Threads -> {"idle", "create", "write", "sync", "rename", "remove", "syncDir", "use"}])'
    BY <1>y, <1>c
  <2>dir. (dir \in [DOMAIN dir -> Files] /\ DOMAIN dir \subseteq Names)'
    BY <1>y, <1>f, <1>e, <1>c, <1>s DEF SaveInv, TypeOK, Names
  <2>disk. (disk \subseteq Names \X (Files \cup {Gone}))'
    <3>1. {<<tmp[t], Gone>>, <<Target, FileOf(t)>>} \subseteq Names \X (Files \cup {Gone})
        BY <1>f, <1>e DEF Names
    <3>2. disk \subseteq Names \X (Files \cup {Gone})
        BY DEF SaveInv, TypeOK
    <3>3. disk' \subseteq disk \cup {<<tmp[t], Gone>>, <<Target, FileOf(t)>>}
        BY <1>c
    <3> QED BY <3>1, <3>2, <3>3
  <2>published. (published \in Seq(Files))'
    BY <1>y, <1>f, <1>e, <1>c, <1>s DEF SaveInv, TypeOK
  <2>same. (/\ seq \in [Processes -> Nat] /\ kind \in [Threads -> {"save", "spare"}]
            /\ saves \in [Threads -> Nat] /\ attempts \in [Threads -> 0 .. MaxAttempts]
            /\ tmp \in [Threads -> Names \cup {NoName}]
            /\ answer \in [Threads -> {"none", "ok", "err", "exhausted", "panic", "dropped"}]
            /\ files \in [DOMAIN files -> [whole : BOOLEAN, synced : BOOLEAN]]
            /\ DOMAIN files \subseteq Files /\ promised \subseteq Files
            /\ lapsed \subseteq {"syncDir", "remove", "panic", "crash"})'
    BY DEF SaveInv, TypeOK, Rename
  <2> QED BY <2>pc, <2>dir, <2>disk, <2>published, <2>same DEF TypeOK, Files
<1>NameLeft. NameLeft'
    BY DEF Rename, Goto, MoveOver, SaveInv, NameLeft, TypeOK
<1>Begun. Begun'
    BY DEF Rename, Goto, MoveOver, SaveInv, Begun, TypeOK
<1>Owned. Owned'
    BY <1>y, <1>f, <1>e, <1>c, <1>s DEF SaveInv, Owned, Busy, FileOf
<1>Fresh. Fresh'
    BY DEF Rename, Goto, MoveOver, SaveInv, Fresh, FileOf, TypeOK
<1>Staged. Staged'
    BY <1>y, <1>f, <1>e, <1>c, <1>s DEF SaveInv, Staged, Busy, FileOf
<1>Bound. Bound'
  <2>1. CASE Fails
    BY <2>1, <1>s DEF SaveInv, Bound
  <2>2. CASE Moves
    <3>1. \A n \in DOMAIN dir' : n = Target \/ (n \in DOMAIN dir /\ dir'[n] = dir[n])
        BY <2>2, <1>f
    <3> QED BY <2>2, <3>1, <1>f, <1>s DEF SaveInv, Bound
  <2> QED BY <1>c, <2>1, <2>2
<1>OnDisk. OnDisk'
  <2>1. CASE Fails
    BY <2>1, <1>s DEF SaveInv, OnDisk
  <2>2. CASE Moves
    <3> SUFFICES ASSUME NEW d \in disk' PROVE d[2] = Gone \/ d[2] \in DOMAIN files'
        BY DEF OnDisk
    <3>1. CASE d \in disk
        BY <3>1, <1>s DEF SaveInv, OnDisk
    <3>2. CASE d = <<Target, FileOf(t)>>
        BY <3>2, <1>f, <1>s
    <3>3. CASE d = <<tmp[t], Gone>>
        BY <3>3
    <3> QED BY <2>2, <3>1, <3>2, <3>3
  <2> QED BY <1>c, <2>1, <2>2
<1>WholeOnDisk. WholeOnDisk'
  <2>1. CASE Fails
    BY <2>1, <1>s DEF SaveInv, WholeOnDisk
  <2>2. CASE Moves
    <3> SUFFICES ASSUME NEW d \in disk', d[1] = Target, d[2] # Gone
                 PROVE  files'[d[2]].whole /\ files'[d[2]].synced
        BY DEF WholeOnDisk
    <3>1. CASE d \in disk
        BY <3>1, <1>s DEF SaveInv, WholeOnDisk
    <3>2. CASE d = <<Target, FileOf(t)>>
        BY <3>2, <1>f, <1>s
    <3>3. CASE d = <<tmp[t], Gone>>
        BY <3>3
    <3> QED BY <2>2, <3>1, <3>2, <3>3
  <2> QED BY <1>c, <2>1, <2>2
<1>PublishedIssued. PublishedIssued'
  <2>1. CASE Fails
    BY <2>1, <1>s DEF SaveInv, PublishedIssued
  <2>2. CASE Moves
    BY <2>2, <1>f, <1>e, <1>s DEF SaveInv, PublishedIssued
  <2> QED BY <1>c, <2>1, <2>2
<1>Answered. Answered'
    BY DEF Rename, Goto, MoveOver, SaveInv, Answered, TypeOK
<1>Unpublished. Unpublished'
  <2>1. CASE Fails
    BY <2>1, <1>y, <1>f, <1>e, <1>s DEF SaveInv, Unpublished, FileOf
  <2>2. CASE Moves
    <3>1. \A u \in Threads : pc'[u] \in {"create", "write", "sync", "rename", "remove"} => u # t /\ pc'[u] = pc[u]
        BY <2>2, <1>y
    <3>2. answer[t] \notin {"err", "exhausted", "panic"}
        BY <1>f, <1>e DEF SaveInv, Answered
    <3>3. \A u \in Threads : u # t => FileOf(u)' # FileOf(t) /\ FileOf(u)' = FileOf(u)
        BY <1>s DEF FileOf
    <3> QED BY <2>2, <3>1, <3>2, <3>3, <1>s DEF SaveInv, Unpublished
  <2> QED BY <1>c, <2>1, <2>2
<1>Renamed. Renamed'
  <2>1. CASE Fails
    BY <2>1, <1>y, <1>f, <1>e, <1>s DEF SaveInv, Renamed, FileOf
  <2>2. CASE Moves
    <3>1. Target \in DOMAIN dir' /\ published' # <<>> /\ dir'[Target] = published'[Len(published')]
        BY <2>2, <1>f, <1>e
    <3>2. \A u \in Threads : pc'[u] = "syncDir" => u = t \/ pc[u] = "syncDir"
        BY <2>2, <1>y
    <3>3. \A u \in Threads : FileOf(u)' = FileOf(u)
        BY <1>s DEF FileOf
    <3>4. \E i \in DOMAIN published' : published'[i] = FileOf(t)
        BY <2>2
    <3>5. ASSUME NEW u \in Threads, pc[u] = "syncDir" PROVE \E i \in DOMAIN published' : published'[i] = FileOf(u)
        BY <2>2, <3>5 DEF SaveInv, Renamed
    <3> QED BY <3>1, <3>2, <3>3, <3>4, <3>5 DEF Renamed
  <2> QED BY <1>c, <2>1, <2>2
<1>Promised. Promised'
    BY <1>y, <1>f, <1>e, <1>c, <1>s DEF SaveInv, Promised
<1>OkIsDurable. OkIsDurable'
  <2>1. CASE Fails
    BY <2>1, <1>s DEF SaveInv, OkIsDurable
  <2>2. CASE Moves
    <3> SUFFICES ASSUME "syncDir" \notin lapsed, NEW f \in promised, NEW d \in disk', d[1] = Target
                 PROVE  \E i, j \in DOMAIN published' : i <= j /\ published'[i] = f /\ published'[j] = d[2]
        BY <1>s DEF OkIsDurable
    <3>1. CASE d \in disk
        BY <2>2, <3>1 DEF SaveInv, OkIsDurable
    <3>2. CASE d = <<Target, FileOf(t)>>
      <4>1. PICK i \in DOMAIN published : published[i] = f
          BY DEF SaveInv, Promised
      <4>2. i \in DOMAIN published' /\ i <= Len(published) + 1 /\ published'[i] = f
          BY <2>2, <4>1
      <4>3. Len(published) + 1 \in DOMAIN published' /\ published'[Len(published) + 1] = d[2]
          BY <2>2, <3>2
      <4> QED BY <4>2, <4>3
    <3> QED BY <2>2, <3>1, <3>2, <1>f, <1>e
  <2> QED BY <1>c, <2>1, <2>2
<1>AllHeld. AllHeld'
  <2>1. CASE Fails
    <3>1. \A u \in Threads : Busy(u) => Busy(u)'
        BY <2>1, <1>y DEF Busy
    <3> QED BY <2>1, <3>1, <1>s DEF SaveInv, AllHeld
  <2>2. CASE Moves
    <3>1. \A u \in Threads : Busy(u) /\ u # t => Busy(u)'
        BY <2>2, <1>y DEF Busy
    <3> QED BY <2>2, <3>1, <1>s DEF SaveInv, AllHeld
  <2> QED BY <1>c, <2>1, <2>2
<1>kept. (Issued)'
    BY DEF SaveInv, Issued, Rename, MoveOver
<1> QED BY <1>TypeOK, <1>NameLeft, <1>Begun, <1>Owned, <1>Fresh, <1>Staged, <1>Bound, <1>OnDisk,
           <1>WholeOnDisk, <1>PublishedIssued, <1>Answered, <1>Unpublished, <1>Renamed, <1>Promised,
           <1>OkIsDurable, <1>AllHeld, <1>kept DEF SaveInv

\* A save that failed removes what is its own.
LEMMA RemoveTmpKeeps ==
    ASSUME SaveInv, NEW t \in Threads, RemoveTmp(t)
    PROVE  SaveInv'
<1>y. /\ pc \in [Threads -> {"idle", "create", "write", "sync", "rename", "remove", "syncDir", "use"}]
      /\ tmp \in [Threads -> Names \cup {NoName}] /\ saves \in [Threads -> Nat]
      /\ seq \in [Processes -> Nat]
    BY DEF SaveInv, TypeOK
<1>f. pc[t] = "remove" /\ tmp[t] \in DOMAIN dir /\ tmp[t] \in Names /\ tmp[t] # Target
    BY <1>y DEF RemoveTmp, SaveInv, TypeOK, Owned, Busy
<1> DEFINE Leaves == UNCHANGED <<dir, disk>> /\ lapsed' = lapsed \cup {"remove"}
           Clears == /\ DOMAIN dir' = DOMAIN dir \ {tmp[t]} /\ dir' \in [DOMAIN dir' -> Files]
                     /\ \A n \in DOMAIN dir : n # tmp[t] => dir'[n] = dir[n]
                     /\ disk' = disk \cup {<<tmp[t], Gone>>} /\ lapsed' = lapsed
<1>c. Leaves \/ Clears
    BY DEF RemoveTmp, Unbind, SaveInv, TypeOK
<1>s. UNCHANGED <<saves, kind, tmp, files, published, promised>> /\ pc' = [pc EXCEPT ![t] = "idle"]
    BY DEF RemoveTmp, Answer, Goto
<1>TypeOK. TypeOK'
  <2>pc. (pc \in [Threads -> {"idle", "create", "write", "sync", "rename", "remove", "syncDir", "use"}])'
    BY DEF SaveInv, TypeOK, RemoveTmp, Goto, Answer, Unbind
  <2>answer. (answer \in [Threads -> {"none", "ok", "err", "exhausted", "panic", "dropped"}])'
    BY DEF SaveInv, TypeOK, RemoveTmp, Answer, Unbind
  <2>dir. (dir \in [DOMAIN dir -> Files] /\ DOMAIN dir \subseteq Names)'
    BY DEF SaveInv, TypeOK, RemoveTmp, Unbind
  <2>disk. (disk \subseteq Names \X (Files \cup {Gone}))'
    BY DEF SaveInv, TypeOK, RemoveTmp, Unbind
  <2>lapsed. (lapsed \subseteq {"syncDir", "remove", "panic", "crash"})'
    BY DEF SaveInv, TypeOK, RemoveTmp, Unbind
  <2>same. (/\ seq \in [Processes -> Nat] /\ kind \in [Threads -> {"save", "spare"}]
            /\ saves \in [Threads -> Nat] /\ attempts \in [Threads -> 0 .. MaxAttempts]
            /\ tmp \in [Threads -> Names \cup {NoName}]
            /\ files \in [DOMAIN files -> [whole : BOOLEAN, synced : BOOLEAN]]
            /\ DOMAIN files \subseteq Files /\ published \in Seq(Files) /\ promised \subseteq Files)'
    BY DEF SaveInv, TypeOK, RemoveTmp
  <2> QED BY <2>pc, <2>answer, <2>dir, <2>disk, <2>lapsed, <2>same DEF TypeOK, Files
<1>NameLeft. NameLeft'
    BY DEF RemoveTmp, Goto, Answer, Unbind, SaveInv, NameLeft
<1>Begun. Begun'
    BY DEF RemoveTmp, Goto, Answer, Unbind, SaveInv, Begun
<1>Owned. Owned'
    BY DEF RemoveTmp, Goto, Answer, Unbind, SaveInv, Owned, Busy, FileOf, TypeOK
<1>Fresh. Fresh'
    BY DEF RemoveTmp, Goto, Answer, Unbind, SaveInv, Fresh, FileOf
<1>Staged. Staged'
    BY DEF RemoveTmp, Goto, Answer, Unbind, SaveInv, Staged, Busy, FileOf
<1>Bound. Bound'
    BY DEF RemoveTmp, Unbind, SaveInv, Bound
<1>OnDisk. OnDisk'
    BY DEF RemoveTmp, Unbind, SaveInv, OnDisk
<1>WholeOnDisk. WholeOnDisk'
    BY DEF RemoveTmp, Unbind, SaveInv, WholeOnDisk
<1>Answered. Answered'
    BY DEF RemoveTmp, Goto, Answer, Unbind, SaveInv, Answered, TypeOK
<1>Unpublished. Unpublished'
    BY DEF RemoveTmp, Goto, Answer, Unbind, SaveInv, Unpublished, FileOf
<1>Renamed. Renamed'
    BY <1>y, <1>f, <1>c, <1>s DEF SaveInv, Renamed, FileOf
<1>OkIsDurable. OkIsDurable'
    BY <1>f, <1>c, <1>s DEF SaveInv, OkIsDurable
<1>AllHeld. AllHeld'
  <2>1. \A u \in Threads : Busy(u) /\ u # t => Busy(u)'
    BY <1>y, <1>s DEF Busy
  <2> QED BY <1>c, <2>1, <1>s DEF SaveInv, AllHeld
<1>kept. (Issued /\ PublishedIssued /\ Promised)'
    BY DEF SaveInv, Issued, PublishedIssued, Promised, RemoveTmp, Unbind
<1> QED BY <1>TypeOK, <1>NameLeft, <1>Begun, <1>Owned, <1>Fresh, <1>Staged, <1>Bound, <1>OnDisk,
           <1>WholeOnDisk, <1>Answered, <1>Unpublished, <1>Renamed, <1>OkIsDurable, <1>AllHeld,
           <1>kept DEF SaveInv

\* What the directory was synced with is the last file published.
LEMMA SyncDirKeeps ==
    ASSUME SaveInv, NEW t \in Threads, SyncDir(t)
    PROVE  SaveInv'
<1>y. /\ pc \in [Threads -> {"idle", "create", "write", "sync", "rename", "remove", "syncDir", "use"}]
      /\ tmp \in [Threads -> Names \cup {NoName}] /\ saves \in [Threads -> Nat]
      /\ seq \in [Processes -> Nat]
    BY DEF SaveInv, TypeOK
<1>f. /\ pc[t] = "syncDir" /\ Target \in DOMAIN dir /\ dir[Target] = published[Len(published)]
      /\ published # <<>> /\ published \in Seq(Files)
      /\ \E i \in DOMAIN published : published[i] = FileOf(t)
    BY DEF SyncDir, SaveInv, TypeOK, Renamed
<1>c. disk' = {<<n, dir[n]>> : n \in DOMAIN dir} \/ (disk' = disk /\ "syncDir" \in lapsed')
    BY DEF SyncDir
<1>s. /\ UNCHANGED <<saves, kind, tmp, dir, files, published>> /\ pc' = [pc EXCEPT ![t] = "idle"]
      /\ promised' = promised \cup {FileOf(t)} /\ lapsed \subseteq lapsed'
    BY DEF SyncDir, Answer, Goto
<1>TypeOK. TypeOK'
  <2>pc. (pc \in [Threads -> {"idle", "create", "write", "sync", "rename", "remove", "syncDir", "use"}])'
    BY DEF SaveInv, TypeOK, SyncDir, Goto, Answer
  <2>answer. (answer \in [Threads -> {"none", "ok", "err", "exhausted", "panic", "dropped"}])'
    BY DEF SaveInv, TypeOK, SyncDir, Answer
  <2>disk. (disk \subseteq Names \X (Files \cup {Gone}))'
    BY DEF SaveInv, TypeOK, SyncDir
  <2>promised. (promised \subseteq Files)'
    BY DEF SaveInv, TypeOK, SyncDir, FileOf, Files
  <2>lapsed. (lapsed \subseteq {"syncDir", "remove", "panic", "crash"})'
    BY DEF SaveInv, TypeOK, SyncDir
  <2>same. (/\ seq \in [Processes -> Nat] /\ kind \in [Threads -> {"save", "spare"}]
            /\ saves \in [Threads -> Nat] /\ attempts \in [Threads -> 0 .. MaxAttempts]
            /\ tmp \in [Threads -> Names \cup {NoName}] /\ dir \in [DOMAIN dir -> Files]
            /\ DOMAIN dir \subseteq Names
            /\ files \in [DOMAIN files -> [whole : BOOLEAN, synced : BOOLEAN]]
            /\ DOMAIN files \subseteq Files /\ published \in Seq(Files))'
    BY DEF SaveInv, TypeOK, SyncDir
  <2> QED BY <2>pc, <2>answer, <2>disk, <2>promised, <2>lapsed, <2>same DEF TypeOK, Files
<1>NameLeft. NameLeft'
    BY DEF SyncDir, Goto, Answer, SaveInv, NameLeft
<1>Begun. Begun'
    BY DEF SyncDir, Goto, Answer, SaveInv, Begun
<1>Owned. Owned'
    BY DEF SyncDir, Goto, Answer, SaveInv, Owned, Busy, FileOf
<1>Fresh. Fresh'
    BY DEF SyncDir, Goto, Answer, SaveInv, Fresh, FileOf
<1>Staged. Staged'
    BY DEF SyncDir, Goto, Answer, SaveInv, Staged, Busy, FileOf
<1>Bound. Bound'
    BY DEF SyncDir, SaveInv, Bound
<1>OnDisk. OnDisk'
    BY DEF SyncDir, SaveInv, OnDisk, Bound
<1>WholeOnDisk. WholeOnDisk'
    BY DEF SyncDir, SaveInv, WholeOnDisk, Bound
<1>Answered. Answered'
    BY DEF SyncDir, Goto, Answer, SaveInv, Answered, TypeOK
<1>Unpublished. Unpublished'
    BY DEF SyncDir, Goto, Answer, SaveInv, Unpublished, FileOf
<1>Renamed. Renamed'
    BY DEF SyncDir, Goto, Answer, SaveInv, Renamed, FileOf
<1>Promised. Promised'
    BY <1>f, <1>s DEF SaveInv, Promised
<1>OkIsDurable. OkIsDurable'
  <2> SUFFICES ASSUME "syncDir" \notin lapsed', NEW f \in promised', NEW d \in disk', d[1] = Target
               PROVE  \E i, j \in DOMAIN published' : i <= j /\ published'[i] = f /\ published'[j] = d[2]
    BY DEF OkIsDurable
  <2>1. d[2] = published[Len(published)]
    BY <1>c, <1>f
  <2>2. PICK i \in DOMAIN published : published[i] = f
    BY <1>f, <1>s DEF SaveInv, Promised
  <2>3. Len(published) \in DOMAIN published /\ i <= Len(published)
    BY <1>f
  <2> QED BY <2>1, <2>2, <2>3, <1>s
<1>AllHeld. AllHeld'
  <2>1. \A u \in Threads : Busy(u) => Busy(u)' /\ u # t
    BY <1>y, <1>s, <1>f DEF Busy
  <2> QED BY <2>1, <1>s DEF SaveInv, AllHeld
<1>kept. (Issued /\ PublishedIssued)'
    BY DEF SaveInv, Issued, PublishedIssued, SyncDir
<1> QED BY <1>TypeOK, <1>NameLeft, <1>Begun, <1>Owned, <1>Fresh, <1>Staged, <1>Bound, <1>OnDisk,
           <1>WholeOnDisk, <1>Answered, <1>Unpublished, <1>Renamed, <1>Promised, <1>OkIsDurable,
           <1>AllHeld, <1>kept DEF SaveInv

\* A Spare removes what is its own.
LEMMA DropSpareKeeps ==
    ASSUME SaveInv, NEW t \in Threads, DropSpare(t)
    PROVE  SaveInv'
<1>y. /\ pc \in [Threads -> {"idle", "create", "write", "sync", "rename", "remove", "syncDir", "use"}]
      /\ tmp \in [Threads -> Names \cup {NoName}] /\ saves \in [Threads -> Nat]
      /\ seq \in [Processes -> Nat]
    BY DEF SaveInv, TypeOK
<1>f. pc[t] = "use" /\ tmp[t] \in DOMAIN dir /\ tmp[t] \in Names /\ tmp[t] # Target
    BY <1>y DEF DropSpare, SaveInv, TypeOK, Owned, Busy
<1> DEFINE Leaves == UNCHANGED <<dir, disk>> /\ lapsed' = lapsed \cup {"remove"}
           Clears == /\ DOMAIN dir' = DOMAIN dir \ {tmp[t]} /\ dir' \in [DOMAIN dir' -> Files]
                     /\ \A n \in DOMAIN dir : n # tmp[t] => dir'[n] = dir[n]
                     /\ disk' = disk \cup {<<tmp[t], Gone>>} /\ lapsed' = lapsed
<1>c. Leaves \/ Clears
    BY DEF DropSpare, Unbind, SaveInv, TypeOK
<1>s. UNCHANGED <<saves, kind, tmp, files, published, promised>> /\ pc' = [pc EXCEPT ![t] = "idle"]
    BY DEF DropSpare, Answer, Goto
<1>TypeOK. TypeOK'
  <2>pc. (pc \in [Threads -> {"idle", "create", "write", "sync", "rename", "remove", "syncDir", "use"}])'
    BY DEF SaveInv, TypeOK, DropSpare, Goto, Answer, Unbind
  <2>answer. (answer \in [Threads -> {"none", "ok", "err", "exhausted", "panic", "dropped"}])'
    BY DEF SaveInv, TypeOK, DropSpare, Answer, Unbind
  <2>dir. (dir \in [DOMAIN dir -> Files] /\ DOMAIN dir \subseteq Names)'
    BY DEF SaveInv, TypeOK, DropSpare, Unbind
  <2>disk. (disk \subseteq Names \X (Files \cup {Gone}))'
    BY DEF SaveInv, TypeOK, DropSpare, Unbind
  <2>lapsed. (lapsed \subseteq {"syncDir", "remove", "panic", "crash"})'
    BY DEF SaveInv, TypeOK, DropSpare, Unbind
  <2>same. (/\ seq \in [Processes -> Nat] /\ kind \in [Threads -> {"save", "spare"}]
            /\ saves \in [Threads -> Nat] /\ attempts \in [Threads -> 0 .. MaxAttempts]
            /\ tmp \in [Threads -> Names \cup {NoName}]
            /\ files \in [DOMAIN files -> [whole : BOOLEAN, synced : BOOLEAN]]
            /\ DOMAIN files \subseteq Files /\ published \in Seq(Files) /\ promised \subseteq Files)'
    BY DEF SaveInv, TypeOK, DropSpare
  <2> QED BY <2>pc, <2>answer, <2>dir, <2>disk, <2>lapsed, <2>same DEF TypeOK, Files
<1>NameLeft. NameLeft'
    BY DEF DropSpare, Goto, Answer, Unbind, SaveInv, NameLeft
<1>Begun. Begun'
    BY DEF DropSpare, Goto, Answer, Unbind, SaveInv, Begun
<1>Owned. Owned'
    BY DEF DropSpare, Goto, Answer, Unbind, SaveInv, Owned, Busy, FileOf, TypeOK
<1>Fresh. Fresh'
    BY DEF DropSpare, Goto, Answer, Unbind, SaveInv, Fresh, FileOf
<1>Staged. Staged'
    BY DEF DropSpare, Goto, Answer, Unbind, SaveInv, Staged, Busy, FileOf
<1>Bound. Bound'
    BY DEF DropSpare, Unbind, SaveInv, Bound
<1>OnDisk. OnDisk'
    BY DEF DropSpare, Unbind, SaveInv, OnDisk
<1>WholeOnDisk. WholeOnDisk'
    BY DEF DropSpare, Unbind, SaveInv, WholeOnDisk
<1>Answered. Answered'
    BY DEF DropSpare, Goto, Answer, Unbind, SaveInv, Answered, TypeOK
<1>Unpublished. Unpublished'
    BY DEF DropSpare, Goto, Answer, Unbind, SaveInv, Unpublished, FileOf
<1>Renamed. Renamed'
    BY <1>y, <1>f, <1>c, <1>s DEF SaveInv, Renamed, FileOf
<1>OkIsDurable. OkIsDurable'
    BY <1>f, <1>c, <1>s DEF SaveInv, OkIsDurable
<1>AllHeld. AllHeld'
  <2>1. \A u \in Threads : Busy(u) /\ u # t => Busy(u)'
    BY <1>y, <1>s DEF Busy
  <2> QED BY <1>c, <2>1, <1>s DEF SaveInv, AllHeld
<1>kept. (Issued /\ PublishedIssued /\ Promised)'
    BY DEF SaveInv, Issued, PublishedIssued, Promised, DropSpare, Unbind
<1> QED BY <1>TypeOK, <1>NameLeft, <1>Begun, <1>Owned, <1>Fresh, <1>Staged, <1>Bound, <1>OnDisk,
           <1>WholeOnDisk, <1>Answered, <1>Unpublished, <1>Renamed, <1>OkIsDurable, <1>AllHeld,
           <1>kept DEF SaveInv

\* The threads of the processes ps stop where they are.
LEMMA RestartKeeps ==
    ASSUME SaveInv, NEW ps, Restart(ps)
    PROVE  /\ \A t \in Threads : pc'[t] = pc[t] \/ pc'[t] = "idle"
           /\ \A t \in Threads : answer'[t] = "none" \/ (pc'[t] = pc[t] /\ answer'[t] = answer[t])
           /\ "crash" \in lapsed' /\ lapsed \subseteq lapsed'
           /\ lapsed' \subseteq {"syncDir", "remove", "panic", "crash"}
           /\ pc' \in [Threads -> {"idle", "create", "write", "sync", "rename", "remove", "syncDir", "use"}]
           /\ answer' \in [Threads -> {"none", "ok", "err", "exhausted", "panic", "dropped"}]
           /\ seq' \in [Processes -> Nat]
           /\ UNCHANGED <<kind, saves, attempts, tmp, published, promised>>
    BY DEF Restart, SaveInv, TypeOK

\* A process that is killed leaves the files and the directory as they are.
LEMMA KillKeeps ==
    ASSUME SaveInv, NEW p \in Processes, Kill(p)
    PROVE  SaveInv'
<1>r. /\ \A t \in Threads : pc'[t] = pc[t] \/ pc'[t] = "idle"
      /\ \A t \in Threads : answer'[t] = "none" \/ (pc'[t] = pc[t] /\ answer'[t] = answer[t])
      /\ "crash" \in lapsed' /\ lapsed \subseteq lapsed'
      /\ lapsed' \subseteq {"syncDir", "remove", "panic", "crash"}
      /\ pc' \in [Threads -> {"idle", "create", "write", "sync", "rename", "remove", "syncDir", "use"}]
      /\ answer' \in [Threads -> {"none", "ok", "err", "exhausted", "panic", "dropped"}]
      /\ seq' \in [Processes -> Nat]
      /\ UNCHANGED <<kind, saves, attempts, tmp, published, promised>>
    BY RestartKeeps DEF Kill
<1>s. UNCHANGED <<dir, disk, files>>
    BY DEF Kill, storage
<1>1. TypeOK'
    BY <1>r, <1>s DEF SaveInv, TypeOK
<1>2. (NameLeft /\ Begun)'
    BY <1>r DEF SaveInv, NameLeft, Begun
<1>3. (Owned /\ Fresh /\ Staged)'
    BY <1>r, <1>s DEF SaveInv, Owned, Fresh, Staged, Busy, FileOf
<1>4. (Issued /\ Bound /\ OnDisk /\ WholeOnDisk /\ PublishedIssued /\ Promised)'
    BY <1>r, <1>s DEF SaveInv, Issued, Bound, OnDisk, WholeOnDisk, PublishedIssued, Promised
<1>5. (Answered /\ Unpublished)'
    BY <1>r DEF SaveInv, Answered, Unpublished, FileOf
<1>6. Renamed'
    BY <1>r, <1>s DEF SaveInv, Renamed, FileOf
<1>7. (OkIsDurable /\ AllHeld)'
    BY <1>r, <1>s DEF SaveInv, OkIsDurable, AllHeld
<1> QED BY <1>1, <1>2, <1>3, <1>4, <1>5, <1>6, <1>7 DEF SaveInv

\* The power goes: no thread is left, and each name is bound to what it may be.
LEMMA PowerLossKeeps ==
    ASSUME SaveInv, PowerLoss
    PROVE  SaveInv'
<1>r. /\ \A t \in Threads : pc'[t] = "idle" /\ answer'[t] = "none"
      /\ "crash" \in lapsed' /\ lapsed \subseteq lapsed'
      /\ lapsed' \subseteq {"syncDir", "remove", "panic", "crash"}
      /\ pc' \in [Threads -> {"idle", "create", "write", "sync", "rename", "remove", "syncDir", "use"}]
      /\ answer' \in [Threads -> {"none", "ok", "err", "exhausted", "panic", "dropped"}]
      /\ seq' \in [Processes -> Nat]
      /\ UNCHANGED <<kind, saves, attempts, tmp, published, promised>>
    BY RestartKeeps, ProcessAssumption DEF PowerLoss, Restart
<1>d. /\ \A n \in DOMAIN dir' : <<n, dir'[n]>> \in disk /\ dir'[n] # Gone
      /\ dir' \in [DOMAIN dir' -> Files] /\ DOMAIN dir' \subseteq Names
      /\ disk' = {<<n, dir'[n]>> : n \in DOMAIN dir'}
  <2> DEFINE names == {d[1] : d \in disk}
             bindings == [n \in names |-> {d[2] : d \in {e \in disk : e[1] = n}}]
  <2>1. PICK left \in [names -> UNION Range(bindings)] :
            /\ \A n \in names : left[n] \in bindings[n]
            /\ dir' = [n \in {m \in names : left[m] # Gone} |-> left[n]]
            /\ disk' = {<<n, dir'[n]>> : n \in DOMAIN dir'}
    BY DEF PowerLoss
  <2>2. \A d \in disk : d = <<d[1], d[2]>> /\ d[1] \in Names /\ d[2] \in Files \cup {Gone}
    BY DEF SaveInv, TypeOK
  <2>3. \A n \in DOMAIN dir' : n \in names /\ dir'[n] = left[n] /\ left[n] # Gone
    BY <2>1
  <2>4. ASSUME NEW n \in names PROVE <<n, left[n]>> \in disk /\ left[n] \in Files \cup {Gone} /\ n \in Names
    <3>1. left[n] \in {d[2] : d \in {e \in disk : e[1] = n}}
        BY <2>1
    <3>2. PICK e \in disk : e[1] = n /\ e[2] = left[n]
        BY <3>1
    <3> QED BY <3>2, <2>2
  <2>5. dir' = [n \in DOMAIN dir' |-> dir'[n]]
    BY <2>1
  <2> QED BY <2>1, <2>3, <2>4, <2>5
<1>f. /\ DOMAIN files' = DOMAIN files /\ files' \in [DOMAIN files -> [whole : BOOLEAN, synced : BOOLEAN]]
      /\ \A f \in DOMAIN files : files[f].whole /\ files[f].synced => files'[f].whole /\ files'[f].synced
  <2>1. files \in [DOMAIN files -> [whole : BOOLEAN, synced : BOOLEAN]]
    BY DEF SaveInv, TypeOK
  <2>2. files' = [f \in DOMAIN files |-> [files[f] EXCEPT !.whole = @ /\ files[f].synced, !.synced = TRUE]]
    BY DEF PowerLoss
  <2>3. \A r \in [whole : BOOLEAN, synced : BOOLEAN] :
            LET s == [r EXCEPT !.whole = @ /\ r.synced, !.synced = TRUE] IN
            s \in [whole : BOOLEAN, synced : BOOLEAN] /\ (r.whole /\ r.synced => s.whole /\ s.synced)
    OBVIOUS
  <2> QED BY <2>1, <2>2, <2>3
<1>1. TypeOK'
  <2>1. disk' \subseteq Names \X (Files \cup {Gone})
    BY <1>d
  <2>2. DOMAIN files' \subseteq Files
    BY <1>f DEF SaveInv, TypeOK
  <2> QED BY <1>r, <1>d, <1>f, <2>1, <2>2 DEF SaveInv, TypeOK
<1>2. (NameLeft /\ Begun /\ Owned /\ Fresh /\ Staged /\ Answered /\ Unpublished /\ Renamed)'
    BY <1>r DEF NameLeft, Begun, Owned, Fresh, Staged, Answered, Unpublished, Renamed, Busy
<1>3. (Issued /\ PublishedIssued /\ Promised /\ AllHeld)'
    BY <1>r, <1>f DEF SaveInv, Issued, PublishedIssued, Promised, AllHeld
<1>4. disk' \subseteq disk
    BY <1>d
<1>5. (OnDisk /\ WholeOnDisk)'
    BY <1>4, <1>f DEF SaveInv, OnDisk, WholeOnDisk
<1>6. Bound'
    BY <1>d, <1>f DEF SaveInv, OnDisk, Bound
<1>7. OkIsDurable'
    BY <1>4, <1>r DEF SaveInv, OkIsDurable
<1> QED BY <1>1, <1>2, <1>3, <1>5, <1>6, <1>7 DEF SaveInv

-------------------------------------------------------------------------------
(* The theorems. *)

\* It holds of a process that has saved nothing.
LEMMA InitHolds == Init => SaveInv
<1> SUFFICES ASSUME Init PROVE SaveInv
    OBVIOUS
<1>p. \/ published = <<Old>> /\ dir = [n \in {Target} |-> Old] /\ disk = {<<Target, Old>>} /\ promised = {Old}
      \/ published = <<>> /\ dir = [n \in {} |-> Old] /\ disk = {} /\ promised = {}
    BY DEF Init, Range
<1>f. /\ DOMAIN files = {Old} /\ files[Old].whole /\ files[Old].synced
      /\ files \in [{Old} -> [whole : BOOLEAN, synced : BOOLEAN]]
    BY DEF Init
<1>t. /\ \A t \in Threads : pc[t] = "idle" /\ answer[t] = "none"
      /\ lapsed = {}
    BY DEF Init
<1>1. TypeOK
  <2>1. /\ seq \in [Processes -> Nat] /\ kind \in [Threads -> {"save", "spare"}] /\ saves \in [Threads -> Nat]
        /\ pc \in [Threads -> {"idle", "create", "write", "sync", "rename", "remove", "syncDir", "use"}]
        /\ answer \in [Threads -> {"none", "ok", "err", "exhausted", "panic", "dropped"}]
    BY DEF Init
  <2>2. attempts \in [Threads -> 0 .. MaxAttempts] /\ tmp \in [Threads -> Names \cup {NoName}]
    BY BoundAssumption DEF Init
  <2>3. /\ dir \in [DOMAIN dir -> Files] /\ DOMAIN dir \subseteq Names
        /\ disk \subseteq Names \X (Files \cup {Gone}) /\ promised \subseteq Files
    <3>1. Target \in Names /\ Old \in Files
        BY DEF Names, Files
    <3>2. CASE dir = [n \in {Target} |-> Old] /\ disk = {<<Target, Old>>} /\ promised = {Old}
      <4>1. DOMAIN dir = {Target} /\ dir \in [{Target} -> {Old}]
        BY <3>2
      <4>2. dir \in [DOMAIN dir -> Files]
        BY <4>1, <3>1
      <4>3. disk \subseteq Names \X (Files \cup {Gone})
        BY <3>1, <3>2
      <4> QED BY <3>1, <3>2, <4>1, <4>2, <4>3
    <3>3. CASE dir = [n \in {} |-> Old] /\ disk = {} /\ promised = {}
      <4>1. DOMAIN dir = {} /\ dir \in [{} -> Files]
        BY <3>3
      <4> QED BY <3>3, <4>1
    <3> QED BY <3>2, <3>3, <1>p
  <2>4. published \in Seq(Files)
    <3>1. <<Old>> \in Seq({Old}) /\ Seq({Old}) \subseteq Seq(Files) /\ <<>> \in Seq(Files)
        BY DEF Files
    <3> QED BY <3>1, <1>p
  <2> QED BY <2>1, <2>2, <2>3, <2>4, <1>f, <1>t DEF TypeOK, Files
<1>2. NameLeft /\ Begun /\ Owned /\ Fresh /\ Staged /\ Answered /\ Unpublished /\ Renamed
    BY <1>t DEF NameLeft, Begun, Owned, Fresh, Staged, Answered, Unpublished, Renamed, Busy
<1>3. Issued /\ Bound /\ OnDisk /\ WholeOnDisk /\ PublishedIssued /\ Promised
    BY <1>p, <1>f DEF Issued, Bound, OnDisk, WholeOnDisk, PublishedIssued, Promised
<1>4. OkIsDurable /\ AllHeld
    BY <1>p, <1>t DEF OkIsDurable, AllHeld
<1> QED BY <1>1, <1>2, <1>3, <1>4 DEF SaveInv

\* A step of no variable keeps it.
LEMMA StutterKeeps == SaveInv /\ UNCHANGED vars => SaveInv'
<1> SUFFICES ASSUME SaveInv, UNCHANGED vars PROVE SaveInv'
    OBVIOUS
<1>u. UNCHANGED <<seq, pc, kind, saves, attempts, tmp, answer, dir, disk, files, published, promised, lapsed>>
    BY DEF vars, threads, storage, history
<1>1. (TypeOK /\ NameLeft /\ Begun /\ Issued /\ Bound /\ OnDisk /\ WholeOnDisk /\ PublishedIssued)'
    BY <1>u DEF SaveInv, TypeOK, NameLeft, Begun, Issued, Bound, OnDisk, WholeOnDisk, PublishedIssued
<1>2. (Owned /\ Fresh /\ Staged /\ Answered /\ Unpublished /\ Renamed)'
    BY <1>u DEF SaveInv, Owned, Fresh, Staged, Answered, Unpublished, Renamed, Busy, FileOf
<1>3. (Promised /\ OkIsDurable /\ AllHeld)'
    BY <1>u DEF SaveInv, Promised, OkIsDurable, AllHeld, Busy
<1> QED BY <1>1, <1>2, <1>3 DEF SaveInv

\* Every step keeps it.
LEMMA StepsKeep == SaveInv /\ [Next]_vars => SaveInv'
<1> SUFFICES ASSUME SaveInv, Next PROVE SaveInv'
  BY StutterKeeps
<1>1. ASSUME NEW t \in Threads, Thread(t) PROVE SaveInv'
  BY <1>1, BeginKeeps, CreateKeeps, WriteKeeps, WritePanicsKeeps, SyncKeeps, RenameKeeps,
     RemoveTmpKeeps,
     SyncDirKeeps, DropSpareKeeps DEF Thread
<1>2. ASSUME NEW p \in Processes, Kill(p) PROVE SaveInv'
  BY <1>2, KillKeeps
<1>3. CASE PowerLoss
  BY <1>3, PowerLossKeeps
<1> QED BY <1>1, <1>2, <1>3 DEF Next

\* The invariant the others follow from: who owns a temporary, how far its file has come, and what
\* a power loss may leave of the directory (every step of write_atomically_with and Spare).
THEOREM SavesKeepInvariant == Spec => []SaveInv
<1>1. Init => SaveInv
    BY InitHolds
<1> QED BY <1>1, StepsKeep, PTL DEF Spec

\* Every variable keeps its type, and no thread tries more names than it may (fresh_beside).
THEOREM SavesTyped == Spec => []TypeOK
<1>1. SaveInv => TypeOK
    BY DEF SaveInv
<1> QED BY <1>1, SavesKeepInvariant, PTL

\* No thread's temporary is another's, or gone, while it is written, synced, renamed or used, whatever
\* pids come back and whoever saves to the same path (fresh_beside).
THEOREM TempsAreOwn == Spec => []OwnTemp
<1>1. SaveInv => OwnTemp
    BY DEF SaveInv, Owned, OwnTemp
<1> QED BY <1>1, SavesKeepInvariant, PTL

\* Whoever opens the target finds a whole blob, at any moment and after any crash
\* (write_atomically_with's contract).
THEOREM TargetStaysWhole == Spec => []TargetWhole
<1>1. SaveInv => TargetWhole
  <2> SUFFICES ASSUME SaveInv PROVE TargetWhole
    OBVIOUS
  <2>1. \A d \in disk : d[1] = Target /\ d[2] # Gone => files[d[2]].whole /\ files[d[2]].synced
    BY DEF SaveInv, WholeOnDisk
  <2>2. ASSUME Target \in DOMAIN dir PROVE files[dir[Target]].whole
    <3>1. <<Target, dir[Target]>> \in disk /\ dir[Target] \in DOMAIN files
        BY <2>2 DEF SaveInv, Bound
    <3>2. dir[Target] # Gone
        BY <3>1 DEF SaveInv, Issued, Old, Gone
    <3> QED BY <2>1, <3>1, <3>2
  <2> QED BY <2>1, <2>2 DEF TargetWhole
<1> QED BY <1>1, SavesKeepInvariant, PTL

\* What answered Ok survives a power loss, so far as the directory could be synced (the parent's
\* sync_all).
THEOREM OkStaysDurable == Spec => []OkIsDurable
<1>1. SaveInv => OkIsDurable
    BY DEF SaveInv
<1> QED BY <1>1, SavesKeepInvariant, PTL

\* A save that failed published nothing, and only a crash, a panic or a failed removal leaves a
\* temporary behind (the two ways out of write_atomically_with).
THEOREM FailuresLeaveNoTrace == Spec => []FailedUntouched
<1>1. SaveInv => FailedUntouched
  <2> SUFFICES ASSUME SaveInv PROVE FailedUntouched
    OBVIOUS
  <2>1. NoLitter
    BY DEF SaveInv, AllHeld, NoLitter, Stale
  <2>2. \A t \in Threads : answer[t] \in {"err", "exhausted", "panic"} => FileOf(t) \notin Range(published)
    BY DEF SaveInv, Unpublished, Range
  <2> QED BY <2>1, <2>2 DEF FailedUntouched
<1> QED BY <1>1, SavesKeepInvariant, PTL

-------------------------------------------------------------------------------
(* The names tried.  From here on no two processes have one pid. *)

PidsApart == \A p, q \in Processes : PidOf[p] = PidOf[q] => p = q

\* The names that the counter of a thread's process has passed.
Passed(t) == {PidOf[ProcessOf[t]]} \X (0 .. seq[ProcessOf[t]] - 1)

\* A temporary has such a name.
Numbered == \A t \in Threads : Busy(t) => tmp[t] \in Passed(t)

\* There are finitely many names, now and after a power loss.
FewNames == IsFiniteSet(DOMAIN dir) /\ IsFiniteSet(disk)

\* The names a thread has tried are no thread's, and its counter has passed them.
Tried(t) == \E S \in SUBSET (Stale \cap Passed(t)) : IsFiniteSet(S) /\ Cardinality(S) = attempts[t]
TriedStale == \A t \in Threads : pc[t] = "create" \/ answer[t] = "exhausted" => Tried(t)

\* What the attempts rest on, beside SaveInv.
NameInv == FewNames /\ Numbered /\ TriedStale

\* A name a process gives out is not the target's.
LEMMA NamesApart ==
    ASSUME NEW t \in Threads
    PROVE  ProcessOf[t] \in Processes /\ TempName(t) # Target
  <1>1. ProcessOf[t] \in Processes /\ PidOf[ProcessOf[t]] \in Range(PidOf)
    BY ProcessAssumption DEF Range
  <1> QED
    BY <1>1, ProcessAssumption DEF TempName, Target

\* A counter that does not go back leaves passed what it has passed.
LEMMA PassedKept ==
    ASSUME NEW t \in Threads, seq \in [Processes -> Nat], seq' \in [Processes -> Nat],
           seq[ProcessOf[t]] <= seq'[ProcessOf[t]]
    PROVE  Passed(t) \subseteq Passed(t)'
  <1>1. seq[ProcessOf[t]] \in Nat /\ seq'[ProcessOf[t]] \in Nat
    BY NamesApart
  <1>2. 0 .. seq[ProcessOf[t]] - 1 \subseteq 0 .. seq'[ProcessOf[t]] - 1
    BY <1>1
  <1> QED
    BY <1>2 DEF Passed

\* What has been tried stays tried as long as those names stay and are no thread's.
LEMMA TriedKept ==
    ASSUME NEW t \in Threads, Tried(t), attempts'[t] = attempts[t],
           Stale \cap Passed(t) \subseteq Stale' \cap Passed(t)'
    PROVE  Tried(t)'
  <1>1. PICK S \in SUBSET (Stale \cap Passed(t)) : IsFiniteSet(S) /\ Cardinality(S) = attempts[t]
    BY DEF Tried
  <1>2. S \in SUBSET (Stale' \cap Passed(t)')
    BY <1>1
  <1> QED
    BY <1>1, <1>2 DEF Tried

\* A thread's step gives it a name no one has, takes the name it has from the directory, or leaves
\* the directory's names alone.
NamesStep(t) ==
    \/ DOMAIN dir' = DOMAIN dir
    \/ DOMAIN dir' = DOMAIN dir \cup {TempName(t)} /\ TempName(t) \notin DOMAIN dir /\ tmp'[t] = TempName(t)
    \/ Busy(t) /\ DOMAIN dir' \in {DOMAIN dir \ {tmp[t]}, (DOMAIN dir \cup {Target}) \ {tmp[t]}}
\* The thread is left with the temporary it had, or with that name.
TempStep(t) ==
    Busy(t)' =>
        \/ Busy(t) /\ tmp'[t] = tmp[t]
        \/ tmp'[t] = TempName(t) /\ TempName(t) \notin DOMAIN dir
             /\ seq'[ProcessOf[t]] = seq[ProcessOf[t]] + 1
\* It tries for a name from none, or once more against one that is there.
TryStep(t) ==
    pc'[t] = "create" \/ answer'[t] = "exhausted" =>
        \/ attempts'[t] = 0
        \/ attempts'[t] = attempts[t] /\ (pc[t] = "create" \/ answer[t] = "exhausted")
        \/ /\ attempts'[t] = attempts[t] + 1 /\ pc[t] = "create" /\ TempName(t) \in DOMAIN dir
           /\ seq'[ProcessOf[t]] = seq[ProcessOf[t]] + 1 /\ dir' = dir /\ pc'[t] \in {"create", "idle"}
OthersKeep(t) ==
    \A u \in Threads \ {t} :
        pc'[u] = pc[u] /\ tmp'[u] = tmp[u] /\ answer'[u] = answer[u] /\ attempts'[u] = attempts[u]
CounterStep == seq' \in [Processes -> Nat] /\ \A p \in Processes : seq[p] <= seq'[p]
FewStep ==
    /\ IsFiniteSet(DOMAIN dir) => IsFiniteSet(DOMAIN dir')
    /\ IsFiniteSet(DOMAIN dir) /\ IsFiniteSet(disk) => IsFiniteSet(disk')

\* One more, some fewer, or a pair for each are finitely many still.
LEMMA FewNamesMore ==
    /\ \A S, x : IsFiniteSet(S) => IsFiniteSet(S \cup {x})
    /\ \A S, T : IsFiniteSet(S) => IsFiniteSet(S \ T)
    /\ \A S : IsFiniteSet(S) => IsFiniteSet({<<n, dir[n]>> : n \in S})
  <1>1. ASSUME NEW S, IsFiniteSet(S), NEW x PROVE IsFiniteSet(S \cup {x})
    BY <1>1, FS_AddElement
  <1>2. ASSUME NEW S, IsFiniteSet(S), NEW T PROVE IsFiniteSet(S \ T)
    BY <1>2, FS_Subset
  <1>3. ASSUME NEW S, IsFiniteSet(S) PROVE IsFiniteSet({<<n, dir[n]>> : n \in S})
    <2> DEFINE f == [n \in S |-> <<n, dir[n]>>]
               T == {<<n, dir[n]>> : n \in S}
    <2>1. f \in Surjection(S, T)
      BY DEF Surjection
    <2> HIDE DEF f, T
    <2>2. IsFiniteSet(T)
      BY <2>1, <1>3, FS_Surjection
    <2> QED
      BY <2>2 DEF T
  <1> QED
    BY <1>1, <1>2, <1>3

\* Each step of a thread is such a step.
LEMMA ThreadsNames ==
    ASSUME SaveInv, NEW t \in Threads, Thread(t)
    PROVE  NamesStep(t) /\ TempStep(t) /\ TryStep(t) /\ OthersKeep(t) /\ CounterStep /\ FewStep
  <1>t. /\ seq \in [Processes -> Nat] /\ attempts \in [Threads -> Nat] /\ ProcessOf[t] \in Processes
        /\ pc \in [Threads -> {"idle", "create", "write", "sync", "rename", "remove", "syncDir", "use"}]
        /\ answer \in [Threads -> {"none", "ok", "err", "exhausted", "panic", "dropped"}]
        /\ tmp \in [Threads -> Names \cup {NoName}]
        /\ (pc[t] # "idle" => answer[t] = "none")
    BY NamesApart, BoundAssumption DEF SaveInv, TypeOK, Answered
  <1> USE DEF Goto, Answer, Busy
  <1>1. CASE Begin(t)
    BY <1>1, <1>t DEF Begin, NamesStep, TempStep, TryStep, OthersKeep, CounterStep, FewStep, storage
  <1>2. CASE Create(t)
    <2>s. /\ seq' = [seq EXCEPT ![ProcessOf[t]] = @ + 1] /\ pc[t] = "create"
          /\ seq' \in [Processes -> Nat] /\ seq'[ProcessOf[t]] = seq[ProcessOf[t]] + 1
          /\ CounterStep
      BY <1>2, <1>t DEF Create, CounterStep
    <2>1. CASE /\ TempName(t) \in DOMAIN dir
               /\ attempts' = [attempts EXCEPT ![t] = @ + 1]
               /\ IF LastAttempt(t) THEN Answer(t, "exhausted") ELSE UNCHANGED <<pc, answer>>
               /\ UNCHANGED <<tmp, storage>>
      BY <2>s, <2>1, <1>t DEF NamesStep, TempStep, TryStep, OthersKeep, FewStep, storage
    <2>2. CASE /\ TempName(t) \notin DOMAIN dir
               /\ Bind(TempName(t), FileOf(t))
               /\ tmp' = [tmp EXCEPT ![t] = TempName(t)]
               /\ Goto(t, IF kind[t] = "save" THEN "write" ELSE "use")
               /\ UNCHANGED <<attempts, answer>>
      <3>1. /\ DOMAIN dir' = DOMAIN dir \cup {TempName(t)}
            /\ disk' = (disk \cup {<<TempName(t), FileOf(t)>>}) \cup {<<TempName(t), Gone>>}
        BY <2>2 DEF Bind
      <3>2. FewStep
        BY <3>1, FewNamesMore DEF FewStep
      <3> QED
        BY <2>s, <2>2, <3>1, <3>2, <1>t DEF NamesStep, TempStep, TryStep, OthersKeep
    <2>3. CASE Answer(t, "err") /\ UNCHANGED <<attempts, tmp, storage>>
      BY <2>s, <2>3, <1>t DEF NamesStep, TempStep, TryStep, OthersKeep, FewStep, storage
    <2> QED
      BY <1>2, <2>1, <2>2, <2>3 DEF Create
  <1>3. CASE Write(t) \/ Sync(t)
    BY <1>3, <1>t DEF Write, Sync, NamesStep, TempStep, TryStep, OthersKeep, CounterStep, FewStep
  <1>4. CASE WritePanics(t)
    BY <1>4, <1>t DEF WritePanics, NamesStep, TempStep, TryStep, OthersKeep, CounterStep, FewStep, storage
  <1>5. CASE Rename(t)
    <2>c. pc[t] = "rename" /\ UNCHANGED <<seq, attempts, tmp, answer>>
      BY <1>5 DEF Rename
    <2>1. CASE MoveOver(tmp[t]) /\ Goto(t, "syncDir")
      <3>1. /\ DOMAIN dir' = (DOMAIN dir \cup {Target}) \ {tmp[t]}
            /\ disk' = (disk \cup {<<tmp[t], Gone>>}) \cup {<<Target, dir[tmp[t]]>>}
        BY <2>1 DEF MoveOver
      <3>2. FewStep
        BY <3>1, FewNamesMore DEF FewStep
      <3> QED
        BY <2>1, <2>c, <3>1, <3>2, <1>t DEF NamesStep, TempStep, TryStep, OthersKeep, CounterStep
    <2>2. CASE Goto(t, "remove") /\ UNCHANGED <<dir, disk>>
      BY <2>2, <2>c, <1>t DEF NamesStep, TempStep, TryStep, OthersKeep, CounterStep, FewStep
    <2> QED
      BY <1>5, <2>1, <2>2 DEF Rename
  <1>6. CASE RemoveTmp(t) \/ DropSpare(t)
    <2>c. /\ pc[t] \in {"remove", "use"} /\ UNCHANGED <<seq, attempts, tmp>>
          /\ Answer(t, "err") \/ Answer(t, "dropped")
      BY <1>6 DEF RemoveTmp, DropSpare
    <2>1. CASE Unbind(tmp[t])
      <3>1. DOMAIN dir' = DOMAIN dir \ {tmp[t]} /\ disk' = disk \cup {<<tmp[t], Gone>>}
        BY <2>1 DEF Unbind
      <3>2. FewStep
        BY <3>1, FewNamesMore DEF FewStep
      <3> QED
        BY <2>c, <3>1, <3>2, <1>t DEF NamesStep, TempStep, TryStep, OthersKeep, CounterStep
    <2>2. CASE UNCHANGED <<dir, disk>>
      BY <2>2, <2>c, <1>t DEF NamesStep, TempStep, TryStep, OthersKeep, CounterStep, FewStep
    <2> QED
      BY <1>6, <2>1, <2>2 DEF RemoveTmp, DropSpare
  <1>7. CASE SyncDir(t)
    <2>1. /\ pc[t] = "syncDir" /\ UNCHANGED <<seq, attempts, tmp, dir>> /\ Answer(t, "ok")
          /\ disk' \in {disk, {<<n, dir[n]>> : n \in DOMAIN dir}}
      BY <1>7 DEF SyncDir
    <2>2. FewStep
      BY <2>1, FewNamesMore DEF FewStep
    <2> QED
      BY <2>1, <2>2, <1>t DEF NamesStep, TempStep, TryStep, OthersKeep, CounterStep
  <1> QED
    BY <1>1, <1>2, <1>3, <1>4, <1>5, <1>6, <1>7 DEF Thread

\* A name a thread finds taken is stale: its counter had not reached it, so no thread of its process
\* has it, and no other process gives it out.
LEMMA ThreadKeepsNames ==
    ASSUME SaveInv, SaveInv', NameInv, PidsApart, NEW t \in Threads, Thread(t)
    PROVE  NameInv'
  <1>s. NamesStep(t) /\ TempStep(t) /\ TryStep(t) /\ OthersKeep(t) /\ CounterStep /\ FewStep
    BY ThreadsNames
  <1>q. seq \in [Processes -> Nat] /\ attempts \in [Threads -> Nat]
    BY BoundAssumption DEF SaveInv, TypeOK
  <1>p. \A u \in Threads : /\ Passed(u) \subseteq Passed(u)'
                           /\ ProcessOf[u] \in Processes /\ seq[ProcessOf[u]] \in Nat
                           /\ TempName(u) # Target
    BY <1>s, <1>q, PassedKept, NamesApart DEF CounterStep
  <1>1. FewNames'
    BY <1>s DEF NameInv, FewNames, FewStep
  <1>2. Numbered'
    <2> SUFFICES ASSUME NEW u \in Threads, Busy(u)'
                 PROVE  tmp'[u] \in Passed(u)'
      BY DEF Numbered
    <2>1. CASE Busy(u) /\ tmp'[u] = tmp[u]
      BY <2>1, <1>p DEF NameInv, Numbered
    <2>2. CASE u = t /\ tmp'[u] = TempName(t) /\ seq'[ProcessOf[t]] = seq[ProcessOf[t]] + 1
      BY <2>2, <1>p DEF TempName, Passed
    <2> QED
      BY <2>1, <2>2, <1>s DEF TempStep, OthersKeep, Busy
  <1>3. Stale \subseteq Stale'
    <2> SUFFICES ASSUME NEW n \in Stale
                 PROVE  n \in Stale'
      OBVIOUS
    <2>1. n \in DOMAIN dir /\ n # Target /\ \A u \in Threads : Busy(u) => tmp[u] # n
      BY DEF Stale
    <2>2. n \in DOMAIN dir'
      BY <2>1, <1>s DEF NamesStep
    <2>3. ASSUME NEW u \in Threads, Busy(u)' PROVE tmp'[u] # n
      <3>1. CASE Busy(u) /\ tmp'[u] = tmp[u]
        BY <3>1, <2>1
      <3>2. CASE tmp'[u] \notin DOMAIN dir
        BY <3>2, <2>1
      <3> QED
        BY <2>3, <3>1, <3>2, <1>s DEF TempStep, OthersKeep, Busy
    <2> QED
      BY <2>1, <2>2, <2>3 DEF Stale
  <1>4. ASSUME NEW u \in Threads, Tried(u), attempts'[u] = attempts[u]
        PROVE  Tried(u)'
    BY <1>4, <1>3, <1>p, TriedKept
  <1>5. ASSUME attempts'[t] = 0
        PROVE  Tried(t)'
    <2>1. {} \in SUBSET (Stale' \cap Passed(t)') /\ IsFiniteSet({}) /\ Cardinality({}) = 0
      BY FS_EmptySet
    <2> QED
      BY <1>5, <2>1 DEF Tried
  <1>6. ASSUME attempts'[t] = attempts[t] + 1, pc[t] = "create", TempName(t) \in DOMAIN dir,
               seq'[ProcessOf[t]] = seq[ProcessOf[t]] + 1, dir' = dir, pc'[t] \in {"create", "idle"}
        PROVE  Tried(t)'
    <2>1. PICK S \in SUBSET (Stale \cap Passed(t)) : IsFiniteSet(S) /\ Cardinality(S) = attempts[t]
      BY <1>6 DEF NameInv, TriedStale, Tried
    <2>2. TempName(t) \notin Passed(t) /\ TempName(t) \in Passed(t)'
      BY <1>6, <1>p DEF TempName, Passed
    <2>3. \A u \in Threads : Busy(u) => tmp[u] # TempName(t)
      <3> SUFFICES ASSUME NEW u \in Threads, Busy(u), tmp[u] = TempName(t)
                   PROVE  FALSE
        OBVIOUS
      <3>1. TempName(t) \in Passed(u)
        BY DEF NameInv, Numbered
      <3>2. PidOf[ProcessOf[u]] = PidOf[ProcessOf[t]]
        BY <3>1 DEF Passed, TempName
      <3>3. ProcessOf[u] = ProcessOf[t]
        BY <3>2, <1>p DEF PidsApart
      <3> QED
        BY <3>1, <3>3, <2>2 DEF Passed
    <2>4. TempName(t) \in Stale
      BY <2>3, <1>6, <1>p DEF Stale
    <2>5. S \cup {TempName(t)} \in SUBSET (Stale' \cap Passed(t)')
      BY <2>1, <2>2, <2>4, <1>3, <1>p
    <2>6. IsFiniteSet(S \cup {TempName(t)}) /\ Cardinality(S \cup {TempName(t)}) = attempts[t] + 1
      BY <2>1, <2>2, FS_AddElement
    <2> QED
      BY <2>5, <2>6, <1>6 DEF Tried
  <1>7. TriedStale'
    <2> SUFFICES ASSUME NEW u \in Threads, pc'[u] = "create" \/ answer'[u] = "exhausted"
                 PROVE  Tried(u)'
      BY DEF TriedStale
    <2>1. CASE u # t
      <3>1. attempts'[u] = attempts[u] /\ Tried(u)
        BY <2>1, <1>s DEF OthersKeep, NameInv, TriedStale
      <3> QED
        BY <3>1, <1>4
    <2>2. CASE u = t
      <3>1. CASE attempts'[t] = attempts[t] /\ (pc[t] = "create" \/ answer[t] = "exhausted")
        BY <3>1, <2>2, <1>4 DEF NameInv, TriedStale
      <3> QED
        BY <2>2, <3>1, <1>5, <1>6, <1>s DEF TryStep
    <2> QED
      BY <2>1, <2>2
  <1> QED
    BY <1>1, <1>2, <1>7 DEF NameInv

\* A process that is killed holds no name and has tried none.
LEMMA KillKeepsNames ==
    ASSUME SaveInv, NameInv, NEW p \in Processes, Kill(p)
    PROVE  NameInv'
  <1>1. /\ UNCHANGED <<dir, disk, tmp, attempts>>
        /\ \A t \in Threads : IF ProcessOf[t] = p
                              THEN pc'[t] = "idle" /\ answer'[t] = "none"
                              ELSE /\ pc'[t] = pc[t] /\ answer'[t] = answer[t]
                                   /\ seq'[ProcessOf[t]] = seq[ProcessOf[t]]
    BY NamesApart DEF Kill, Restart, storage
  <1>2. FewNames'
    BY <1>1 DEF NameInv, FewNames
  <1>3. \A t \in Threads : Busy(t)' => ProcessOf[t] # p /\ Busy(t)
    BY <1>1 DEF Busy
  <1>4. \A t \in Threads : ProcessOf[t] # p => Passed(t)' = Passed(t)
    BY <1>1 DEF Passed
  <1>5. Numbered'
    BY <1>1, <1>3, <1>4 DEF NameInv, Numbered
  <1>6. Stale \subseteq Stale'
    BY <1>1, <1>3 DEF Stale
  <1>7. TriedStale'
    <2> SUFFICES ASSUME NEW t \in Threads, pc'[t] = "create" \/ answer'[t] = "exhausted"
                 PROVE  Tried(t)'
      BY DEF TriedStale
    <2>1. ProcessOf[t] # p /\ Tried(t)
      BY <1>1 DEF NameInv, TriedStale
    <2> QED
      BY <2>1, <1>1, <1>4, <1>6, TriedKept
  <1> QED
    BY <1>2, <1>5, <1>7 DEF NameInv

\* A power loss leaves names that the directory had, and no thread.
LEMMA PowerLossKeepsNames ==
    ASSUME SaveInv, NameInv, PowerLoss
    PROVE  NameInv'
  <1> DEFINE names == {d[1] : d \in disk}
  <1>1. \A t \in Threads : pc'[t] = "idle" /\ answer'[t] = "none"
    BY NamesApart DEF PowerLoss, Restart
  <1>2. DOMAIN dir' \subseteq names /\ disk' = {<<n, dir'[n]>> : n \in DOMAIN dir'}
    BY DEF PowerLoss
  <1>3. IsFiniteSet(names)
    <2> DEFINE f == [d \in disk |-> d[1]]
    <2>1. f \in Surjection(disk, names)
      BY DEF Surjection
    <2> QED
      BY <2>1, FS_Surjection DEF NameInv, FewNames
  <1>4. IsFiniteSet(DOMAIN dir')
    BY <1>2, <1>3, FS_Subset
  <1>5. IsFiniteSet(disk')
    <2> DEFINE f == [n \in DOMAIN dir' |-> <<n, dir'[n]>>]
    <2>1. f \in Surjection(DOMAIN dir', disk')
      BY <1>2 DEF Surjection
    <2> QED
      BY <2>1, <1>4, FS_Surjection
  <1> QED
    BY <1>1, <1>4, <1>5 DEF NameInv, FewNames, Numbered, TriedStale, Busy

\* No name has been tried.
LEMMA InitNames == Init => NameInv
  <1> SUFFICES ASSUME Init PROVE NameInv
    OBVIOUS
  <1>1. \A t \in Threads : pc[t] = "idle" /\ answer[t] = "none"
    BY DEF Init
  <1>2. DOMAIN dir \in {{Target}, {}} /\ disk \in {{<<Target, Old>>}, {}}
    BY DEF Init
  <1>3. FewNames
    <2>1. IsFiniteSet({}) /\ \A x : IsFiniteSet({x})
      BY FS_EmptySet, FS_Singleton
    <2> QED
      BY <1>2, <2>1 DEF FewNames
  <1> QED
    BY <1>1, <1>3 DEF NameInv, Numbered, TriedStale, Busy

\* The names tried are as many as the attempts, and all of them are stale and of the thread's pid.
LEMMA TriedCount == NameInv => RetriesAreStale
  <1> SUFFICES ASSUME NameInv, NEW t \in Threads, pc[t] = "create" \/ answer[t] = "exhausted"
               PROVE  attempts[t] <= Cardinality({n \in Stale : n[1] = PidOf[ProcessOf[t]]})
    BY DEF RetriesAreStale
  <1> DEFINE T == {n \in Stale : n[1] = PidOf[ProcessOf[t]]}
  <1>1. PICK S \in SUBSET (Stale \cap Passed(t)) : IsFiniteSet(S) /\ Cardinality(S) = attempts[t]
    BY DEF NameInv, TriedStale, Tried
  <1>2. S \subseteq T
    BY <1>1 DEF Passed
  <1>3. IsFiniteSet(T)
    BY FS_Subset DEF NameInv, FewNames, Stale
  <1> QED
    BY <1>1, <1>2, <1>3, FS_Subset

\* A step of no variable keeps the names.
LEMMA StutterKeepsNames == NameInv /\ UNCHANGED vars => NameInv'
  <1> SUFFICES ASSUME NameInv, UNCHANGED vars PROVE NameInv'
    OBVIOUS
  <1>1. UNCHANGED <<seq, pc, tmp, attempts, answer, dir, disk>>
    BY DEF vars, threads, storage
  <1>2. Stale' = Stale /\ \A t \in Threads : Passed(t)' = Passed(t) /\ (Busy(t)' <=> Busy(t))
    BY <1>1 DEF Stale, Passed, Busy
  <1>3. FewNames' /\ Numbered'
    BY <1>1, <1>2 DEF NameInv, FewNames, Numbered
  <1>4. ASSUME NEW t \in Threads, Tried(t) PROVE Tried(t)'
    BY <1>1, <1>2, <1>4, TriedKept
  <1>5. TriedStale'
    BY <1>1, <1>4 DEF NameInv, TriedStale
  <1> QED
    BY <1>3, <1>5 DEF NameInv

\* Where no two processes have one pid, a save runs out of attempts only against as many files of
\* earlier lives (the loop of fresh_beside).
THEOREM RetriesHitStale == Spec => []RetriesAreStale
<1> DEFINE Inv == SaveInv /\ (PidsApart => NameInv)
<1>1. Init => Inv
  BY InitHolds, InitNames
<1>2. Inv /\ [Next]_vars => Inv'
  <2> SUFFICES ASSUME Inv, [Next]_vars PROVE Inv'
    OBVIOUS
  <2>1. SaveInv'
    BY StepsKeep
  <2>2. ASSUME PidsApart PROVE NameInv'
    <3>1. NameInv
      BY <2>2
    <3>2. ASSUME NEW t \in Threads, Thread(t) PROVE NameInv'
      BY <2>1, <2>2, <3>1, <3>2, ThreadKeepsNames
    <3>3. ASSUME NEW p \in Processes, Kill(p) PROVE NameInv'
      BY <3>1, <3>3, KillKeepsNames
    <3>4. CASE PowerLoss
      BY <3>1, <3>4, PowerLossKeepsNames
    <3>5. CASE UNCHANGED vars
      BY <3>1, <3>5, StutterKeepsNames
    <3> QED BY <3>2, <3>3, <3>4, <3>5 DEF Next
  <2> QED BY <2>1, <2>2 DEF PidsApart
<1>3. Inv => RetriesAreStale
  BY TriedCount DEF PidsApart, RetriesAreStale
<1> QED BY <1>1, <1>2, <1>3, PTL DEF Spec

================================================================================

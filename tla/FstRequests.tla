------------------------------ MODULE FstRequests ------------------------------
(***************************************************************************)
(* FST readers: src/src/fst_runtime.py (four native reader processes, one  *)
(* idle reader kept per request) and src/src/fst_parser.py (one lock and   *)
(* one set of readers per file), inside server.py's per-file wave locks.   *)
(*                                                                         *)
(* A request is a thread.  It visits its files one use after another, in   *)
(* its own order and with repetitions.  A use takes the parser's lock, the *)
(* request's idle reader or a new one, which needs a slot, and keeps the   *)
(* reader for the next use unless it consumed it.  The wave locks are      *)
(* taken together: their order is the subject of module WaveLocks.         *)
(***************************************************************************)
EXTENDS Naturals, Sequences, FiniteSets

CONSTANTS
    FstRequest, FstFile,
    MaxWorkers,     \* 4 in the code
    MaxReplace,     \* bound on replacements of a file
    NoFile

ASSUME FstAssumption ==
    /\ MaxWorkers \in Nat \ {0} /\ MaxReplace \in Nat
    /\ NoFile \notin FstFile /\ NoFile \notin FstRequest

VARIABLES
    fs_uses,        \* request: the files it has still to visit
    fs_pc,          \* "idle", "between", "locked", "slot", "reading", "leaving", "done"
    fs_owner,       \* request: the file of its idle reader, and that parser's epoch
    fs_wave,        \* files whose wave lock is held, by request
    fs_lock,        \* parser: holder of _lock
    fs_free,        \* free slots
    fs_readers,     \* parser: _native_sessions, by request
    fs_epoch,       \* parser: _scope_epoch
    fs_seen,        \* parser: the identity of its file it has accepted
    fs_disk         \* file: its identity now

fsParser == <<fs_lock, fs_readers, fs_epoch, fs_seen>>
fstVars  == <<fs_uses, fs_pc, fs_owner, fs_wave, fs_free, fsParser, fs_disk>>

NoReader == [file |-> NoFile, epoch |-> 0]

FstInit(workload) ==
    /\ fs_uses \in workload
    /\ fs_pc = [r \in FstRequest |-> "idle"]
    /\ fs_owner = [r \in FstRequest |-> NoReader]
    /\ fs_wave = [r \in FstRequest |-> {}]
    /\ fs_lock = [p \in FstFile |-> NoFile]
    /\ fs_free = MaxWorkers
    /\ fs_readers = [p \in FstFile |-> {}]
    /\ fs_epoch = [p \in FstFile |-> 0]
    /\ fs_seen = [p \in FstFile |-> 0]
    /\ fs_disk = [p \in FstFile |-> 1]

File(r) == Head(fs_uses[r])
Owned(r) == fs_owner[r].file
FsGo(r, stage) == fs_pc' = [fs_pc EXCEPT ![r] = stage]

\* The files of some uses; a request that has a file to visit, and one that has none.
FilesOf(uses) == {uses[i] : i \in DOMAIN uses}
Visiting(r) == fs_pc[r] = "between" /\ fs_uses[r] # <<>>
Through(r)  == fs_pc[r] = "leaving" \/ (fs_pc[r] = "between" /\ fs_uses[r] = <<>>)

\* FstProcess.close() and _native_sessions.discard(): the child is reaped and
\* its slot returned, once.
Drop(r, p) ==
    /\ fs_free' = IF r \in fs_readers[p] THEN fs_free + 1 ELSE fs_free
    /\ fs_readers' = [fs_readers EXCEPT ![p] = @ \ {r}]
    /\ fs_owner' = [fs_owner EXCEPT ![r] = NoReader]

\* _run_in_wave_request: the wave locks of every file the call names.
\* (Mutant: no wave locks.)
NoWaveLocks(files) == TRUE
WaveFree(files) == \A r \in FstRequest : fs_wave[r] \cap files = {}
MayBegin(r) == fs_pc[r] = "idle" /\ WaveFree(FilesOf(fs_uses[r]))

BeginFst(r) ==
    /\ MayBegin(r)
    /\ fs_wave' = [fs_wave EXCEPT ![r] = FilesOf(fs_uses[r])]
    /\ FsGo(r, "between")
    /\ UNCHANGED <<fs_uses, fs_owner, fs_free, fsParser, fs_disk>>

\* _get_parser: a replaced file closes the cached parser and its readers.
RefreshParser(r) ==
    /\ Visiting(r)
    /\ fs_seen[File(r)] \notin {0, fs_disk[File(r)]}
    /\ fs_lock[File(r)] = NoFile
    /\ fs_epoch' = [fs_epoch EXCEPT ![File(r)] = @ + 1]
    /\ fs_seen' = [fs_seen EXCEPT ![File(r)] = 0]
    /\ fs_free' = fs_free + Cardinality(fs_readers[File(r)])
    /\ fs_readers' = [fs_readers EXCEPT ![File(r)] = {}]
    /\ fs_owner' = [fs_owner EXCEPT ![r] = IF @.file = File(r) THEN NoReader ELSE @]
    /\ UNCHANGED <<fs_uses, fs_pc, fs_wave, fs_lock, fs_disk>>

\* _MetadataRequest.prepare and the wait for the parser's lock.  (Mutant: the
\* idle reader of another file is kept.)
KeepIdle(r) == FALSE
MustEvict(r) == Owned(r) \notin {NoFile, File(r)}
MayEvict(r)  == Visiting(r) /\ MustEvict(r) /\ fs_lock[Owned(r)] = NoFile
MayLock(r)   == Visiting(r) /\ ~MustEvict(r) /\ fs_lock[File(r)] = NoFile

EvictIdle(r) ==
    /\ MayEvict(r)
    /\ Drop(r, Owned(r))
    /\ UNCHANGED <<fs_uses, fs_pc, fs_wave, fs_lock, fs_epoch, fs_seen, fs_disk>>

LockParser(r) ==
    /\ MayLock(r)
    /\ fs_lock' = [fs_lock EXCEPT ![File(r)] = r]
    /\ FsGo(r, "locked")
    /\ UNCHANGED <<fs_uses, fs_owner, fs_wave, fs_free, fs_readers, fs_epoch, fs_seen, fs_disk>>

\* The request raises: the parser's lock goes, the reader with the scope.
Raise(r) ==
    /\ fs_lock' = [fs_lock EXCEPT ![File(r)] = NoFile]
    /\ fs_uses' = [fs_uses EXCEPT ![r] = <<>>]
    /\ FsGo(r, "leaving")

\* _session under the lock: the file must be the one the parser accepted; an
\* idle reader must still belong to this parser.
OpenSession(r) ==
    LET p == File(r) IN
    /\ fs_pc[r] = "locked"
    /\ IF fs_seen[p] \notin {0, fs_disk[p]}
       THEN Raise(r) /\ UNCHANGED fs_seen
       ELSE /\ fs_seen' = [fs_seen EXCEPT ![p] = fs_disk[p]]
            /\ IF Owned(r) # p
               THEN FsGo(r, "slot") /\ UNCHANGED <<fs_uses, fs_lock>>
               ELSE IF fs_owner[r].epoch = fs_epoch[p] /\ r \in fs_readers[p]
               THEN FsGo(r, "reading") /\ UNCHANGED <<fs_uses, fs_lock>>
               ELSE Raise(r)
    /\ UNCHANGED <<fs_owner, fs_wave, fs_free, fs_readers, fs_epoch, fs_disk>>

\* FstProcess.__init__: a slot and a child, checked against the file.
MayStart(r) == fs_pc[r] = "slot" /\ fs_free > 0

StartReader(r) ==
    LET p == File(r) IN
    /\ MayStart(r)
    /\ IF fs_seen[p] = fs_disk[p]
       THEN /\ fs_free' = fs_free - 1
            /\ fs_readers' = [fs_readers EXCEPT ![p] = @ \cup {r}]
            /\ fs_owner' = [fs_owner EXCEPT ![r] = [file |-> p, epoch |-> fs_epoch[p]]]
            /\ FsGo(r, "reading")
            /\ UNCHANGED <<fs_uses, fs_lock>>
       ELSE Raise(r) /\ UNCHANGED <<fs_free, fs_readers, fs_owner>>
    /\ UNCHANGED <<fs_wave, fs_epoch, fs_seen, fs_disk>>

\* Cancellation or the request's deadline, noticed by a polling wait.
GiveUpFst(r) ==
    /\ \/ fs_pc[r] = "slot" /\ Raise(r)
       \/ /\ Visiting(r)
          /\ fs_uses' = [fs_uses EXCEPT ![r] = <<>>]
          /\ FsGo(r, "leaving")
          /\ UNCHANGED fs_lock
    /\ UNCHANGED <<fs_owner, fs_wave, fs_free, fs_readers, fs_epoch, fs_seen, fs_disk>>

\* The use ends: the reader stays idle, was consumed by a batch, or failed.
EndUse(r) ==
    LET p == File(r) IN
    /\ fs_pc[r] = "reading"
    /\ \/ /\ fs_lock' = [fs_lock EXCEPT ![p] = NoFile]
          /\ fs_uses' = [fs_uses EXCEPT ![r] = Tail(@)]
          /\ FsGo(r, "between")
          /\ Drop(r, p) \/ UNCHANGED <<fs_free, fs_readers, fs_owner>>
       \/ Raise(r) /\ Drop(r, p)
    /\ UNCHANGED <<fs_wave, fs_epoch, fs_seen, fs_disk>>

\* The scope's exit closes the idle reader, then the wave locks go.
CloseOwner(r) ==
    IF Owned(r) = NoFile THEN UNCHANGED <<fs_free, fs_readers, fs_owner>>
    ELSE Drop(r, Owned(r))
MayLeave(r) == Through(r) /\ (Owned(r) # NoFile => fs_lock[Owned(r)] = NoFile)

LeaveFst(r) ==
    /\ MayLeave(r)
    /\ CloseOwner(r)
    /\ fs_wave' = [fs_wave EXCEPT ![r] = {}]
    /\ FsGo(r, "done")
    /\ UNCHANGED <<fs_uses, fs_lock, fs_epoch, fs_seen, fs_disk>>

ReplaceFile(p) ==
    /\ fs_disk[p] <= MaxReplace
    /\ fs_disk' = [fs_disk EXCEPT ![p] = @ + 1]
    /\ UNCHANGED <<fs_uses, fs_pc, fs_owner, fs_wave, fs_free, fsParser>>

FstServes(r) ==
    \/ BeginFst(r) \/ EvictIdle(r) \/ LockParser(r) \/ OpenSession(r) \/ StartReader(r)
    \/ EndUse(r) \/ LeaveFst(r)

\* Exactly when one of them is possible: each is its guard and what it assigns.
CanServe(r) ==
    \/ MayBegin(r) \/ MayEvict(r) \/ MayLock(r) \/ fs_pc[r] \in {"locked", "reading"}
    \/ MayStart(r) \/ MayLeave(r)

FstNext ==
    \/ \E r \in FstRequest : FstServes(r) \/ RefreshParser(r) \/ GiveUpFst(r)
    \/ \E p \in FstFile : ReplaceFile(p)

FstSpec == FstInit([FstRequest -> Seq(FstFile)]) /\ [][FstNext]_fstVars

(***************************************************************************)
(* Properties                                                              *)
(***************************************************************************)

\* The open readers, each of a request and a file.
Readers == {h \in FstRequest \X FstFile : h[1] \in fs_readers[h[2]]}

\* Every slot is free or belongs to a reader of an unfinished request, through
\* reuse, eviction, consumption, failure, deadline and the closing of a parser.
FstSlotsKept ==
    /\ fs_free + Cardinality(Readers) = MaxWorkers
    /\ \A h \in Readers : fs_pc[h[1]] \notin {"idle", "done"}

\* No request waits for good on a slot or a parser that others keep while they
\* wait: as long as a request is unfinished some request can take its next
\* step, without the help of a deadline.
FstNotStuck ==
    (\E r \in FstRequest : fs_pc[r] \notin {"idle", "done"})
        => \E r \in FstRequest : CanServe(r)

\* Slots are neither lost nor held by requests that wait for one another.
FstSound == FstSlotsKept /\ FstNotStuck
================================================================================

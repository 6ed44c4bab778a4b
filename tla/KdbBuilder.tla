------------------------------- MODULE KdbBuilder -------------------------------
(***************************************************************************)
(* The build of a Verdi KDB on a batch node.                               *)
(*   src/src/npi_lsf.py      build_kdb_over_lsf and LsfNpiTransport: the   *)
(*     parent submits a job, polls it, and kills it on timeout or cancel;  *)
(*   src/src/npi_worker.py   the job;                                      *)
(*   src/src/kdb_builder.py  build_kdb: a staging directory, two tool      *)
(*     phases, and the replacement of the cache directory.                 *)
(*                                                                         *)
(* A cache directory is named after the hash of the inputs, here the       *)
(* version of the sources.  bkill is best effort: a job may survive it.  A *)
(* killed job stops between any two of its file operations.  The jobs have *)
(* different process ids, and so different staging directories.            *)
(***************************************************************************)
EXTENDS Naturals

CONSTANTS
    KdbCall,        \* build_kdb tool calls
    MaxVersion      \* bound on source edits

ASSUME KdbAssumption == MaxVersion \in Nat \ {0}

VARIABLES
    kd_force,       \* the workload: force_rebuild of each call
    kd_src,         \* the version of the sources now
    kd_pc,          \* call: "idle", "polling", "done"
    kd_result,      \* call: its status
    kd_whole,       \* call: the KDB it was told of was whole at that moment
    kd_job,         \* job: its next step
    kd_hash,        \* job: the inputs' hash when it started
    kd_tmp,         \* job: its staging directory
    kd_response,    \* job: its response file
    kd_cache        \* the cache directories

kdbVars == <<kd_force, kd_src, kd_pc, kd_result, kd_whole, kd_job, kd_hash, kd_tmp,
             kd_response, kd_cache>>

Version == 1..MaxVersion
NoDir == [dir |-> FALSE, lib |-> 0, elab |-> 0, ok |-> FALSE, cut |-> FALSE]
FreshDir == [NoDir EXCEPT !.dir = TRUE]

KdbInit(workload) ==
    /\ kd_force \in workload
    /\ kd_src = 1
    /\ kd_pc = [c \in KdbCall |-> "idle"]
    /\ kd_result = [c \in KdbCall |-> "none"]
    /\ kd_whole = [c \in KdbCall |-> TRUE]
    /\ kd_job = [c \in KdbCall |-> "none"]
    /\ kd_hash = [c \in KdbCall |-> 1]
    /\ kd_tmp = [c \in KdbCall |-> NoDir]
    /\ kd_response = [c \in KdbCall |-> "none"]
    /\ kd_cache = [v \in Version |-> NoDir]

\* _cache_valid: the two directories exist and state.json says "ok".
CacheValid(v) == kd_cache[v].dir /\ kd_cache[v].elab # 0 /\ kd_cache[v].ok
Whole(v) == kd_cache[v].dir /\ kd_cache[v].elab = v /\ ~kd_cache[v].cut

(***************************************************************************)
(* The parent                                                              *)
(***************************************************************************)
Tell(c, status, v) ==
    /\ kd_pc' = [kd_pc EXCEPT ![c] = "done"]
    /\ kd_result' = [kd_result EXCEPT ![c] = status]
    /\ kd_whole' = [kd_whole EXCEPT ![c] = status \in {"cached", "rebuilt"} => Whole(v)]

\* An exact hit needs no job; otherwise bsub, which may fail.
CallKdb(c) ==
    /\ kd_pc[c] = "idle"
    /\ IF ~kd_force[c] /\ CacheValid(kd_src)
       THEN Tell(c, "cached", kd_src) /\ UNCHANGED kd_job
       ELSE \/ Tell(c, "failed", kd_src) /\ UNCHANGED kd_job
            \/ /\ kd_pc' = [kd_pc EXCEPT ![c] = "polling"]
               /\ kd_job' = [kd_job EXCEPT ![c] = "submitted"]
               /\ UNCHANGED <<kd_result, kd_whole>>
    /\ UNCHANGED <<kd_force, kd_src, kd_hash, kd_tmp, kd_response, kd_cache>>

\* The waiter ended: the response counts if there is one, and a KDB it names
\* must be a directory here.
CollectKdb(c) ==
    /\ kd_pc[c] = "polling"
    /\ kd_job[c] = "exited"
    /\ LET status == kd_response[c] IN
       IF status \in {"cached", "rebuilt"} /\ kd_cache[kd_hash[c]].elab # 0
       THEN Tell(c, status, kd_hash[c])
       ELSE Tell(c, IF status = "failed" THEN status ELSE "unavailable", kd_hash[c])
    /\ UNCHANGED <<kd_force, kd_src, kd_job, kd_hash, kd_tmp, kd_response, kd_cache>>

\* Timeout or cancellation: bkill, whose success nobody checks, then the
\* request directory is removed, so a later response has no place to go.
GiveUpKdb(c) ==
    /\ kd_pc[c] = "polling"
    /\ \E status \in {"timed_out", "cancelled"} : Tell(c, status, kd_hash[c])
    /\ kd_job' \in {kd_job, [kd_job EXCEPT ![c] = IF @ = "exited" THEN @ ELSE "killed"]}
    /\ UNCHANGED <<kd_force, kd_src, kd_hash, kd_tmp, kd_response, kd_cache>>

(***************************************************************************)
(* The job: npi_worker.main and build_kdb                                  *)
(***************************************************************************)
Step(c, stage) == kd_job' = [kd_job EXCEPT ![c] = stage] /\ UNCHANGED kd_response
Respond(c, status) ==
    /\ kd_job' = [kd_job EXCEPT ![c] = "exited"]
    /\ kd_response' = [kd_response EXCEPT ![c] = IF kd_pc[c] = "polling" THEN status
                                                                       ELSE @]

StartJob(c) ==
    /\ kd_job[c] = "submitted"
    /\ kd_hash' = [kd_hash EXCEPT ![c] = kd_src]
    /\ IF ~kd_force[c] /\ CacheValid(kd_src) THEN Respond(c, "cached")
       ELSE Respond(c, "failed") \/ Step(c, "staging")
    /\ UNCHANGED <<kd_force, kd_src, kd_pc, kd_result, kd_whole, kd_tmp, kd_cache>>

\* A leftover staging directory is removed and a new one made.
StageKdb(c) ==
    /\ kd_job[c] = "staging"
    /\ Step(c, "vericom")
    /\ kd_tmp' = [kd_tmp EXCEPT ![c] = FreshDir]
    /\ UNCHANGED <<kd_force, kd_src, kd_pc, kd_result, kd_whole, kd_hash, kd_cache>>

\* A phase that fails or times out turns the staging directory into .failed.
FailPhase(c) == Respond(c, "failed") /\ kd_tmp' = [kd_tmp EXCEPT ![c] = NoDir]

\* vericom reads the sources as they are now.
RunVericom(c) ==
    /\ kd_job[c] = "vericom"
    /\ \/ FailPhase(c)
       \/ Step(c, "elabcom") /\ kd_tmp' = [kd_tmp EXCEPT ![c].lib = kd_src]
    /\ UNCHANGED <<kd_force, kd_src, kd_pc, kd_result, kd_whole, kd_hash, kd_cache>>

\* elabcom may exit zero and leave no KDB.
RunElabcom(c) ==
    /\ kd_job[c] = "elabcom"
    /\ \/ FailPhase(c)
       \/ /\ Step(c, "checking")
          /\ \E e \in {0, kd_tmp[c].lib} : kd_tmp' = [kd_tmp EXCEPT ![c].elab = e]
    /\ UNCHANGED <<kd_force, kd_src, kd_pc, kd_result, kd_whole, kd_hash, kd_cache>>

\* The product exists and the inputs hash as they did; the staging directory
\* is left behind otherwise.  (Mutant: the inputs are not hashed again.)
ProductOnly(c) == kd_tmp[c].elab # 0
ProductCurrent(c) == kd_tmp[c].elab # 0 /\ kd_src = kd_hash[c]

CheckProduct(c) ==
    /\ kd_job[c] = "checking"
    /\ IF ProductCurrent(c)
       THEN Step(c, "replacing") /\ kd_tmp' = [kd_tmp EXCEPT ![c].ok = TRUE]
       ELSE Respond(c, "failed") /\ UNCHANGED kd_tmp
    /\ UNCHANGED <<kd_force, kd_src, kd_pc, kd_result, kd_whole, kd_hash, kd_cache>>

\* shutil.rmtree of the old directory, one part after the other: files of the
\* KDB, state.json, the KDB directory, then the directory itself.
RemoveOld(c) ==
    LET old == kd_cache[kd_hash[c]]
        Set(d) == kd_cache' = [kd_cache EXCEPT ![kd_hash[c]] = d] IN
    /\ kd_job[c] = "replacing"
    /\ old.dir
    /\ \/ ~old.cut /\ Set([old EXCEPT !.cut = TRUE])
       \/ old.cut /\ old.elab # 0 /\ Set([old EXCEPT !.elab = 0])
       \/ old.ok /\ Set([old EXCEPT !.ok = FALSE])
       \/ old.cut /\ old.elab = 0 /\ ~old.ok /\ Set(NoDir)
    /\ UNCHANGED <<kd_force, kd_src, kd_pc, kd_result, kd_whole, kd_job, kd_hash, kd_tmp,
                   kd_response>>

\* The rename.  It fails when another job's directory is there by now.
RenameNew(c) ==
    /\ kd_job[c] = "replacing"
    /\ ~kd_cache[kd_hash[c]].dir
    /\ kd_cache' = [kd_cache EXCEPT ![kd_hash[c]] = kd_tmp[c]]
    /\ kd_tmp' = [kd_tmp EXCEPT ![c] = NoDir]
    /\ Respond(c, "rebuilt")
    /\ UNCHANGED <<kd_force, kd_src, kd_pc, kd_result, kd_whole, kd_hash>>

\* A removal or a rename that another job disturbed raises; the staging
\* directory is removed.
DisturbedReplace(c) ==
    /\ kd_job[c] = "replacing"
    /\ \E d \in KdbCall \ {c} : kd_job[d] \in {"replacing", "exited"}
    /\ kd_tmp' = [kd_tmp EXCEPT ![c] = NoDir]
    /\ Respond(c, "error")
    /\ UNCHANGED <<kd_force, kd_src, kd_pc, kd_result, kd_whole, kd_hash, kd_cache>>

EditSources ==
    /\ kd_src < MaxVersion
    /\ kd_src' = kd_src + 1
    /\ UNCHANGED <<kd_force, kd_pc, kd_result, kd_whole, kd_job, kd_hash, kd_tmp,
                   kd_response, kd_cache>>

KdbSteps(c) ==
    \/ CallKdb(c) \/ CollectKdb(c) \/ GiveUpKdb(c) \/ StartJob(c) \/ StageKdb(c)
    \/ RunVericom(c) \/ RunElabcom(c) \/ CheckProduct(c) \/ RemoveOld(c)
    \/ RenameNew(c) \/ DisturbedReplace(c)

KdbNext == (\E c \in KdbCall : KdbSteps(c)) \/ EditSources

KdbSpec == KdbInit([KdbCall -> BOOLEAN]) /\ [][KdbNext]_kdbVars

(***************************************************************************)
(* Properties                                                              *)
(***************************************************************************)

\* What is published under a hash is a whole KDB of exactly those inputs,
\* whatever was edited during the tool phases and whichever jobs survived
\* their bkill: a cache directory nobody has begun to remove is complete.
PublishedWhole ==
    \A v \in Version :
        kd_cache[v].dir /\ ~kd_cache[v].cut /\ kd_cache[v].ok => Whole(v)

\* "On rebuild the directory is replaced atomically (build in tmp dir, rename
\* on success) so a stale cache never coexists with a partial new build": a
\* call that is answered "cached" or "rebuilt" is told of a whole KDB.
AnswerIsWhole == \A c \in KdbCall : kd_whole[c]
================================================================================

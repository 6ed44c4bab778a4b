------------------------------ MODULE WorkerProofs ------------------------------
(***************************************************************************)
(* Proofs about the processes the server starts and what they leave on     *)
(* disk: the KDB builds on batch nodes (KdbBuilder), the source-graph      *)
(* children (SourceGraphSession) and the graphs they publish               *)
(* (SourceGraphDiskCache), for any number of calls, requests, contexts,    *)
(* publishers, readers, limits and faults.                                 *)
(***************************************************************************)
EXTENDS KdbBuilder, SourceGraphSession, SourceGraphDiskCache, FiniteSetTheorems, TLAPS

(***************************************************************************)
(* KdbBuilder                                                              *)
(*                                                                         *)
(* A published directory is whole because the job that renamed it checked  *)
(* the hash of the inputs after its tools had run, and versions only grow: *)
(* what vericom read lies between the version hashed at the start and the  *)
(* one there is now (StagingInv), and the check finds both equal.          *)
(***************************************************************************)

\* A KDB directory: of the cache, or being staged.
KdbDir == [dir : BOOLEAN, lib : Nat, elab : Nat, ok : BOOLEAN, cut : BOOLEAN]

KdbTypeInv ==
    /\ kd_src \in Nat /\ kd_src >= 1 /\ kd_src <= MaxVersion
    /\ kd_job \in [KdbCall -> {"none", "submitted", "staging", "vericom", "elabcom",
                               "checking", "replacing", "exited", "killed"}]
    /\ kd_hash \in [KdbCall -> Version]
    /\ \A c \in KdbCall : kd_hash[c] <= kd_src
    /\ kd_tmp \in [KdbCall -> KdbDir]
    /\ kd_cache \in [Version -> KdbDir]

\* What a job has staged: of a version between the hashed one and the present
\* one, and of the hashed one once that was checked.
StagingInv ==
    \A c \in KdbCall :
        /\ kd_job[c] \in {"vericom", "elabcom", "checking", "replacing"}
              => kd_tmp[c].dir /\ ~kd_tmp[c].cut
        /\ kd_job[c] = "elabcom"
              => kd_hash[c] <= kd_tmp[c].lib /\ kd_tmp[c].lib <= kd_src
        /\ kd_job[c] = "checking" /\ kd_tmp[c].elab # 0
              => kd_hash[c] <= kd_tmp[c].elab /\ kd_tmp[c].elab <= kd_src
        /\ kd_job[c] = "replacing" => kd_tmp[c].elab = kd_hash[c]

KdbInv == KdbTypeInv /\ StagingInv /\ PublishedWhole

\* Versions are natural numbers, and the directories are directories.
LEMMA KdbFacts ==
    /\ \A v \in Version : v \in Nat /\ v >= 1
    /\ NoDir \in KdbDir /\ FreshDir \in KdbDir
    /\ MaxVersion \in Nat /\ 1 \in Version
<1>1. \A v \in Version : v \in Nat /\ v >= 1
  BY KdbAssumption DEF Version
<1>2. MaxVersion \in Nat /\ 1 \in Version
  BY KdbAssumption DEF Version
<1>3. NoDir \in KdbDir
  BY DEF NoDir, KdbDir
<1>4. FreshDir \in KdbDir
  BY DEF FreshDir, NoDir, KdbDir
<1> QED
  BY <1>1, <1>2, <1>3, <1>4

\* Filling in or removing a part of a directory.
LEMMA KdbParts ==
    ASSUME NEW d \in KdbDir, NEW n \in Nat, NEW b \in BOOLEAN
    PROVE  /\ [d EXCEPT !.lib = n] \in KdbDir /\ [d EXCEPT !.elab = n] \in KdbDir
           /\ [d EXCEPT !.ok = b] \in KdbDir /\ [d EXCEPT !.cut = b] \in KdbDir
  BY DEF KdbDir

LEMMA KdbInitInv == ASSUME KdbInit([KdbCall -> BOOLEAN]) PROVE KdbInv
<1>1. KdbTypeInv
  BY KdbFacts, KdbAssumption DEF KdbInit, KdbTypeInv
<1>2. StagingInv
  BY DEF KdbInit, StagingInv
<1>3. PublishedWhole
  BY DEF KdbInit, PublishedWhole, NoDir
<1> QED
  BY <1>1, <1>2, <1>3 DEF KdbInv

\* A step of the parent, or of a job that has no staging directory yet, leaves
\* the directories alone and starts no tool.
LEMMA KdbQuiet ==
    ASSUME KdbInv, KdbTypeInv', UNCHANGED <<kd_src, kd_tmp, kd_cache>>,
           \A c \in KdbCall :
              kd_job'[c] \in {"vericom", "elabcom", "checking", "replacing"}
                  => kd_job'[c] = kd_job[c] /\ kd_hash'[c] = kd_hash[c]
    PROVE  KdbInv'
<1>1. StagingInv'
  BY DEF KdbInv, StagingInv
<1>2. PublishedWhole'
  BY DEF KdbInv, PublishedWhole, Whole
<1> QED
  BY <1>1, <1>2 DEF KdbInv

LEMMA KdbParentInv ==
    ASSUME KdbInv, NEW c \in KdbCall, CallKdb(c) \/ CollectKdb(c) \/ GiveUpKdb(c)
    PROVE  KdbInv'
<1>1. KdbTypeInv'
  BY DEF KdbInv, KdbTypeInv, CallKdb, CollectKdb, GiveUpKdb
<1>2. UNCHANGED <<kd_src, kd_tmp, kd_cache, kd_hash>>
  BY DEF CallKdb, CollectKdb, GiveUpKdb
<1>3. \A d \in KdbCall :
         kd_job'[d] \in {"vericom", "elabcom", "checking", "replacing"} => kd_job'[d] = kd_job[d]
  BY DEF KdbInv, KdbTypeInv, CallKdb, CollectKdb, GiveUpKdb
<1> QED
  BY <1>1, <1>2, <1>3, KdbQuiet

LEMMA StartJobInv == ASSUME KdbInv, NEW c \in KdbCall, StartJob(c) PROVE KdbInv'
<1>1. kd_src \in Version
  BY KdbFacts DEF KdbInv, KdbTypeInv, Version
<1>2. KdbTypeInv'
  BY <1>1 DEF KdbInv, KdbTypeInv, StartJob, Step, Respond
<1>3. UNCHANGED <<kd_src, kd_tmp, kd_cache>>
  BY DEF StartJob
<1>4. \A d \in KdbCall :
         kd_job'[d] \in {"vericom", "elabcom", "checking", "replacing"}
             => kd_job'[d] = kd_job[d] /\ kd_hash'[d] = kd_hash[d]
  BY DEF KdbInv, KdbTypeInv, StartJob, Step, Respond
<1> QED
  BY <1>2, <1>3, <1>4, KdbQuiet

\* A step of one job leaves the sources, the cache and the other jobs alone.
LEMMA KdbOneJob ==
    ASSUME KdbInv, KdbTypeInv', NEW c \in KdbCall,
           UNCHANGED <<kd_src, kd_hash, kd_cache>>,
           \A d \in KdbCall \ {c} : kd_job'[d] = kd_job[d] /\ kd_tmp'[d] = kd_tmp[d],
           kd_job'[c] \in {"vericom", "elabcom", "checking", "replacing"}
              => kd_tmp'[c].dir /\ ~kd_tmp'[c].cut,
           kd_job'[c] = "elabcom"
              => kd_hash[c] <= kd_tmp'[c].lib /\ kd_tmp'[c].lib <= kd_src,
           kd_job'[c] = "checking" /\ kd_tmp'[c].elab # 0
              => kd_hash[c] <= kd_tmp'[c].elab /\ kd_tmp'[c].elab <= kd_src,
           kd_job'[c] = "replacing" => kd_tmp'[c].elab = kd_hash[c]
    PROVE  KdbInv'
<1>1. StagingInv'
  BY DEF KdbInv, StagingInv
<1>2. PublishedWhole'
  BY DEF KdbInv, PublishedWhole, Whole
<1> QED
  BY <1>1, <1>2 DEF KdbInv

LEMMA StageKdbInv == ASSUME KdbInv, NEW c \in KdbCall, StageKdb(c) PROVE KdbInv'
<1>1. KdbTypeInv'
  BY KdbFacts DEF KdbInv, KdbTypeInv, StageKdb, Step
<1>2. /\ \A d \in KdbCall \ {c} : kd_job'[d] = kd_job[d] /\ kd_tmp'[d] = kd_tmp[d]
      /\ kd_job'[c] = "vericom" /\ kd_tmp'[c] = FreshDir
  BY DEF KdbInv, KdbTypeInv, StageKdb, Step
<1>3. FreshDir.dir /\ ~FreshDir.cut
  BY DEF FreshDir, NoDir
<1> QED
  BY <1>1, <1>2, <1>3, KdbOneJob DEF StageKdb

LEMMA RunVericomInv == ASSUME KdbInv, NEW c \in KdbCall, RunVericom(c) PROVE KdbInv'
<1>1. KdbTypeInv'
  <2>1. [kd_tmp[c] EXCEPT !.lib = kd_src] \in KdbDir
    BY KdbParts DEF KdbInv, KdbTypeInv
  <2> QED
    BY <2>1, KdbFacts DEF KdbInv, KdbTypeInv, RunVericom, Step, FailPhase, Respond
<1>2. /\ \A d \in KdbCall \ {c} : kd_job'[d] = kd_job[d] /\ kd_tmp'[d] = kd_tmp[d]
      /\ kd_job'[c] \in {"exited", "elabcom"}
      /\ kd_job'[c] = "elabcom" => kd_tmp'[c] = [kd_tmp[c] EXCEPT !.lib = kd_src]
  BY DEF KdbInv, KdbTypeInv, RunVericom, Step, FailPhase, Respond
<1>3. kd_tmp[c].dir /\ ~kd_tmp[c].cut /\ kd_tmp[c] \in KdbDir /\ kd_hash[c] <= kd_src /\ kd_src \in Nat
  BY DEF KdbInv, KdbTypeInv, StagingInv, RunVericom
<1>4. kd_job'[c] = "elabcom" =>
         kd_tmp'[c].dir /\ ~kd_tmp'[c].cut /\ kd_tmp'[c].lib = kd_src
  BY <1>2, <1>3 DEF KdbDir
<1> QED
  BY <1>1, <1>2, <1>3, <1>4, KdbOneJob DEF RunVericom

LEMMA RunElabcomInv == ASSUME KdbInv, NEW c \in KdbCall, RunElabcom(c) PROVE KdbInv'
<1>1. KdbTypeInv'
  <2>1. \A e \in {0, kd_tmp[c].lib} : [kd_tmp[c] EXCEPT !.elab = e] \in KdbDir
    <3>1. kd_tmp[c] \in KdbDir /\ kd_tmp[c].lib \in Nat
      BY DEF KdbInv, KdbTypeInv, KdbDir
    <3> QED
      BY <3>1, KdbParts
  <2> QED
    BY <2>1, KdbFacts DEF KdbInv, KdbTypeInv, RunElabcom, Step, FailPhase, Respond
<1>2. /\ \A d \in KdbCall \ {c} : kd_job'[d] = kd_job[d] /\ kd_tmp'[d] = kd_tmp[d]
      /\ kd_job'[c] \in {"exited", "checking"}
      /\ kd_job'[c] = "checking" =>
            \E e \in {0, kd_tmp[c].lib} : kd_tmp'[c] = [kd_tmp[c] EXCEPT !.elab = e]
  BY DEF KdbInv, KdbTypeInv, RunElabcom, Step, FailPhase, Respond
<1>3. /\ kd_tmp[c].dir /\ ~kd_tmp[c].cut /\ kd_tmp[c] \in KdbDir
      /\ kd_hash[c] <= kd_tmp[c].lib /\ kd_tmp[c].lib <= kd_src
  BY DEF KdbInv, KdbTypeInv, StagingInv, RunElabcom
<1>4. kd_job'[c] = "checking" =>
         kd_tmp'[c].dir /\ ~kd_tmp'[c].cut /\ kd_tmp'[c].elab \in {0, kd_tmp[c].lib}
  BY <1>2, <1>3 DEF KdbDir
<1> QED
  BY <1>1, <1>2, <1>3, <1>4, KdbOneJob DEF RunElabcom

\* The check: a product of a version between the hashed one and the present one,
\* which are the same.
LEMMA CheckProductInv == ASSUME KdbInv, NEW c \in KdbCall, CheckProduct(c) PROVE KdbInv'
<1>1. KdbTypeInv'
  <2>1. [kd_tmp[c] EXCEPT !.ok = TRUE] \in KdbDir
    BY KdbParts DEF KdbInv, KdbTypeInv
  <2> QED
    BY <2>1 DEF KdbInv, KdbTypeInv, CheckProduct, Step, Respond
<1>2. /\ \A d \in KdbCall \ {c} : kd_job'[d] = kd_job[d] /\ kd_tmp'[d] = kd_tmp[d]
      /\ kd_job'[c] \in {"exited", "replacing"}
      /\ kd_job'[c] = "replacing" =>
            kd_tmp'[c] = [kd_tmp[c] EXCEPT !.ok = TRUE] /\ ProductCurrent(c)
  BY DEF KdbInv, KdbTypeInv, CheckProduct, Step, Respond
<1>3. /\ kd_tmp[c].dir /\ ~kd_tmp[c].cut /\ kd_tmp[c] \in KdbDir
      /\ kd_tmp[c].elab # 0 => kd_hash[c] <= kd_tmp[c].elab /\ kd_tmp[c].elab <= kd_src
      /\ kd_tmp[c].elab \in Nat /\ kd_hash[c] \in Nat
  BY KdbFacts DEF KdbInv, KdbTypeInv, StagingInv, CheckProduct, KdbDir
<1>4. kd_job'[c] = "replacing" =>
         kd_tmp'[c].dir /\ ~kd_tmp'[c].cut /\ kd_tmp'[c].elab = kd_hash[c]
  BY <1>2, <1>3 DEF KdbDir, ProductCurrent
<1> QED
  BY <1>1, <1>2, <1>4, KdbOneJob DEF CheckProduct

\* A removal begins by cutting files of the KDB or by taking state.json away, and
\* nothing it does afterwards makes the directory look whole again.
LEMMA RemoveOldInv == ASSUME KdbInv, NEW c \in KdbCall, RemoveOld(c) PROVE KdbInv'
<1> DEFINE h == kd_hash[c]
           old == kd_cache[h]
<1>1. h \in Version /\ old \in KdbDir
  BY DEF KdbInv, KdbTypeInv
<1>2. PICK new \in KdbDir :
         /\ kd_cache' = [kd_cache EXCEPT ![h] = new]
         /\ new.dir /\ ~new.cut /\ new.ok => FALSE
  <2>1. /\ [old EXCEPT !.cut = TRUE] \in KdbDir /\ [old EXCEPT !.elab = 0] \in KdbDir
        /\ [old EXCEPT !.ok = FALSE] \in KdbDir
    BY <1>1, KdbParts
  <2>2. [old EXCEPT !.cut = TRUE].cut /\ ~[old EXCEPT !.ok = FALSE].ok
        /\ (old.cut => [old EXCEPT !.elab = 0].cut) /\ ~NoDir.dir
    BY <1>1 DEF KdbDir, NoDir
  <2> HIDE DEF old
  <2> QED
    BY <2>1, <2>2, KdbFacts DEF RemoveOld, old
<1>3. KdbTypeInv'
  BY <1>1, <1>2 DEF KdbInv, KdbTypeInv, RemoveOld
<1>4. StagingInv'
  BY DEF KdbInv, StagingInv, RemoveOld
<1>5. PublishedWhole'
  BY <1>1, <1>2 DEF KdbInv, KdbTypeInv, PublishedWhole, Whole
<1> QED
  BY <1>3, <1>4, <1>5 DEF KdbInv

\* The rename publishes what was staged: a product of the hashed version.
LEMMA RenameNewInv == ASSUME KdbInv, NEW c \in KdbCall, RenameNew(c) PROVE KdbInv'
<1>1. kd_hash[c] \in Version /\ kd_tmp[c] \in KdbDir
  BY DEF KdbInv, KdbTypeInv
<1>2. kd_tmp[c].dir /\ ~kd_tmp[c].cut /\ kd_tmp[c].elab = kd_hash[c]
  BY DEF KdbInv, StagingInv, RenameNew
<1>3. KdbTypeInv'
  BY <1>1, KdbFacts DEF KdbInv, KdbTypeInv, RenameNew, Respond
<1>4. StagingInv'
  BY DEF KdbInv, KdbTypeInv, StagingInv, RenameNew, Respond
<1>5. PublishedWhole'
  BY <1>1, <1>2 DEF KdbInv, KdbTypeInv, PublishedWhole, Whole, RenameNew
<1> QED
  BY <1>3, <1>4, <1>5 DEF KdbInv

LEMMA DisturbedReplaceInv ==
    ASSUME KdbInv, NEW c \in KdbCall, DisturbedReplace(c) PROVE KdbInv'
<1>1. KdbTypeInv'
  BY KdbFacts DEF KdbInv, KdbTypeInv, DisturbedReplace, Respond
<1>2. \A d \in KdbCall \ {c} : kd_job'[d] = kd_job[d] /\ kd_tmp'[d] = kd_tmp[d]
  BY DEF KdbInv, KdbTypeInv, DisturbedReplace, Respond
<1>3. kd_job'[c] = "exited"
  BY DEF KdbInv, KdbTypeInv, DisturbedReplace, Respond
<1> QED
  BY <1>1, <1>2, <1>3, KdbOneJob DEF DisturbedReplace

\* An edit moves the present version on: what was staged stays in between.
LEMMA EditSourcesInv == ASSUME KdbInv, EditSources PROVE KdbInv'
<1>1. KdbTypeInv'
  <2>1. \A c \in KdbCall : kd_hash[c] \in Nat
    BY KdbFacts DEF KdbInv, KdbTypeInv
  <2> QED
    BY <2>1, KdbFacts DEF KdbInv, KdbTypeInv, EditSources
<1>2. StagingInv'
  <2>1. \A c \in KdbCall : kd_tmp[c].lib \in Nat /\ kd_tmp[c].elab \in Nat
    BY DEF KdbInv, KdbTypeInv, KdbDir
  <2> QED
    BY <2>1 DEF KdbInv, KdbTypeInv, StagingInv, EditSources
<1>3. PublishedWhole'
  BY DEF KdbInv, PublishedWhole, Whole, EditSources
<1> QED
  BY <1>1, <1>2, <1>3 DEF KdbInv

\* Whatever is edited while the tools run, whichever jobs survive their bkill,
\* die, replace one another's directory or disturb one another: a directory that
\* nobody has begun to remove holds a whole KDB of exactly the inputs it is named
\* after.
THEOREM KdbPublishedWhole == KdbSpec => []PublishedWhole
<1>1. KdbInit([KdbCall -> BOOLEAN]) => KdbInv
  BY KdbInitInv
<1>2. KdbInv /\ [KdbNext]_kdbVars => KdbInv'
  <2> SUFFICES ASSUME KdbInv, [KdbNext]_kdbVars PROVE KdbInv'
    OBVIOUS
  <2>1. CASE UNCHANGED kdbVars
    BY <2>1 DEF kdbVars, KdbInv, KdbTypeInv, StagingInv, PublishedWhole, Whole
  <2>2. ASSUME NEW c \in KdbCall, KdbSteps(c) PROVE KdbInv'
    BY <2>2, KdbParentInv, StartJobInv, StageKdbInv, RunVericomInv, RunElabcomInv,
       CheckProductInv, RemoveOldInv, RenameNewInv, DisturbedReplaceInv DEF KdbSteps
  <2> QED
    BY <2>1, <2>2, EditSourcesInv DEF KdbNext
<1>3. KdbInv => PublishedWhole
  BY DEF KdbInv
<1> QED
  BY <1>1, <1>2, <1>3, PTL DEF KdbSpec

(***************************************************************************)
(* SourceGraphSession                                                      *)
(*                                                                         *)
(* The session lock is held from the choice of a child to the end of the   *)
(* request (HolderInv), so what the persistent child has in hand - a job,  *)
(* a response, an acknowledgement - is of the request that holds the lock, *)
(* and there is nothing in hand when nobody does (ProcInv).  A request     *)
(* that does not end well takes the child with it, so no later one finds   *)
(* its remains.                                                            *)
(***************************************************************************)

Requests == SgRequest \cup {NoRequest}
Contexts == SgContext \cup {SgOneShot, NoRequest}
Response == [token : Requests, status : {"none", "ready", "build_failed"}]
Child == [up : BOOLEAN, known : BOOLEAN, code : BOOLEAN, ctx : Contexts, job : Requests,
          resp : Response, acks : {<<>>} \cup {<<r>> : r \in SgRequest}, big : BOOLEAN,
          temp : BOOLEAN]

\* Types; the status of a response excludes "context_mismatch".
SessionTypeInv ==
    /\ sg_ctx \in [SgRequest -> Contexts]
    /\ sg_pc \in [SgRequest -> SgStage]
    /\ DOMAIN sg_result = SgRequest
    /\ sg_lock \in Requests /\ sg_proc \in Requests
    /\ sg_child \in [SgRequest -> Child]

\* The stages between taking and freeing the session lock.
Holding == {"sending", "waiting", "acking"}

\* The holder of the lock has a child of its own context; only requests that can
\* share a child go that way.
HolderInv ==
    /\ \A r \in SgRequest :
          /\ sg_lock = r <=> sg_pc[r] \in Holding
          /\ sg_pc[r] \in {"queued"} \cup Holding => sg_ctx[r] # SgOneShot
          /\ sg_pc[r] \in {"one_shot", "grace"} =>
                sg_ctx[r] = SgOneShot /\ sg_child[r].job = r
    /\ sg_lock # NoRequest => sg_proc # NoRequest /\ sg_digest = sg_ctx[sg_lock]
    /\ sg_proc # NoRequest => sg_ctx[sg_proc] # SgOneShot

\* Nothing in hand, or only what is the holder's own.
AtRest(x) == x.job = NoRequest /\ x.resp.token = NoRequest /\ x.acks = <<>>
ServingOnly(x, r) ==
    /\ x.job \in {NoRequest, r} /\ x.resp.token \in {NoRequest, r} /\ x.acks \in {<<>>, <<r>>}
    /\ x.job = NoRequest \/ x.resp.token = NoRequest
    /\ x.acks # <<>> => x.resp.token = r
InHand(x) ==
    IF sg_lock = NoRequest \/ sg_pc[sg_lock] = "sending" THEN AtRest(x) ELSE ServingOnly(x, sg_lock)

ProcInv ==
    sg_proc # NoRequest => /\ sg_child[sg_proc].ctx \in {NoRequest, sg_digest}
                           /\ InHand(sg_child[sg_proc])

SessionInv == SessionTypeInv /\ HolderInv /\ ProcInv /\ SessionSound

\* The child that is no child, a fresh one, and that no stage is two.
LEMMA ChildFacts ==
    /\ NoRequest \notin SgRequest
    /\ NoChild \in Child /\ AtRest(NoChild) /\ NoChild.ctx = NoRequest
    /\ ~NoChild.up /\ ~NoChild.temp
    /\ NewChild \in Child /\ AtRest(NewChild) /\ NewChild.ctx = NoRequest
<1>1. NoRequest \notin SgRequest
  BY SessionAssumption
<1>2. NoChild.resp \in Response
  BY DEF NoChild, Response, Requests
<1>3. NoChild \in Child
  BY <1>2 DEF NoChild, Child, Requests, Contexts
<1>4. NewChild \in Child
  BY <1>3 DEF NewChild, NoChild, Child
<1> QED
  BY <1>1, <1>3, <1>4 DEF NewChild, NoChild, AtRest

LEMMA SessionInitInv ==
    ASSUME SessionInit([SgRequest -> SgContext \cup {SgOneShot, NoRequest}])
    PROVE  SessionInv
<1>1. SessionTypeInv
  BY ChildFacts DEF SessionInit, SessionTypeInv, Contexts, Requests, SgStage
<1>2. HolderInv
  BY ChildFacts DEF SessionInit, HolderInv, Holding
<1>3. ProcInv
  BY DEF SessionInit, ProcInv
<1>4. SessionSound
  BY ChildFacts DEF SessionInit, SessionSound, SessionIsolation, NoOrphanChild
<1> QED
  BY <1>1, <1>2, <1>3, <1>4 DEF SessionInv

\* What a request that holds the lock knows.
LEMMA HolderKnows ==
    ASSUME SessionInv, NEW r \in SgRequest, sg_pc[r] \in Holding
    PROVE  /\ sg_lock = r /\ sg_proc \in SgRequest /\ sg_digest = sg_ctx[r]
           /\ sg_ctx[r] # SgOneShot /\ sg_ctx[sg_proc] # SgOneShot
           /\ \A q \in SgRequest \ {r} : sg_pc[q] \notin Holding
           /\ sg_child[sg_proc] \in Child
           /\ sg_child[sg_proc].ctx \in {NoRequest, sg_ctx[r]}
           /\ sg_pc[r] = "sending" => AtRest(sg_child[sg_proc])
           /\ sg_pc[r] # "sending" => ServingOnly(sg_child[sg_proc], r)
<1>1. sg_lock = r /\ \A q \in SgRequest \ {r} : sg_pc[q] \notin Holding
  BY DEF SessionInv, HolderInv
<1>2. sg_proc \in SgRequest /\ sg_digest = sg_ctx[r] /\ sg_ctx[r] # SgOneShot
      /\ sg_ctx[sg_proc] # SgOneShot
  BY <1>1, ChildFacts DEF SessionInv, HolderInv, SessionTypeInv, Requests
<1>3. sg_child[sg_proc] \in Child
  BY <1>2 DEF SessionInv, SessionTypeInv
<1>4. InHand(sg_child[sg_proc]) /\ sg_child[sg_proc].ctx \in {NoRequest, sg_digest}
  BY <1>2, ChildFacts DEF SessionInv, ProcInv
<1> QED
  BY <1>1, <1>2, <1>3, <1>4, ChildFacts DEF InHand

\* A request that does not hold the lock moves on without touching the children.
LEMMA QuietRequest ==
    ASSUME SessionInv, NEW r \in SgRequest,
           UNCHANGED <<sg_ctx, sg_lock, sg_proc, sg_digest, sg_child>>,
           sg_pc' \in [SgRequest -> SgStage],
           \A q \in SgRequest \ {r} : sg_pc'[q] = sg_pc[q],
           sg_pc[r] \notin Holding \cup {"one_shot", "grace"},
           sg_pc'[r] \notin Holding \cup {"one_shot", "grace"},
           sg_pc'[r] = "queued" => sg_ctx[r] # SgOneShot,
           DOMAIN sg_result' = SgRequest,
           \A q \in SgRequest : sg_result'[q] = sg_result[q]
                                  \/ sg_result'[q] \notin {"context_mismatch", "ack_mismatch"}
    PROVE  SessionInv'
<1>1. SessionTypeInv'
  BY DEF SessionInv, SessionTypeInv
<1>2. HolderInv'
  BY DEF SessionInv, HolderInv, Holding
<1>3. ProcInv'
  <2>1. sg_lock # r
    BY DEF SessionInv, HolderInv
  <2>2. sg_lock # NoRequest => sg_pc'[sg_lock] = sg_pc[sg_lock]
    BY <2>1 DEF SessionInv, SessionTypeInv, Requests
  <2> QED
    BY <2>2 DEF SessionInv, ProcInv, InHand
<1>4. SessionSound'
  BY DEF SessionInv, SessionSound, SessionIsolation, NoOrphanChild
<1> QED
  BY <1>1, <1>2, <1>3, <1>4 DEF SessionInv

LEMMA SubmitSessionInv == ASSUME SessionInv, NEW r \in SgRequest, SubmitSession(r) PROVE SessionInv'
<1>1. sg_pc' \in [SgRequest -> SgStage] /\ (\A q \in SgRequest \ {r} : sg_pc'[q] = sg_pc[q])
      /\ sg_pc'[r] \in {"done", "queued"} /\ sg_pc[r] = "idle" /\ sg_ctx[r] # SgOneShot
  BY DEF SessionInv, SessionTypeInv, SubmitSession, SgReturn, SgGo, SgStage
<1>2. DOMAIN sg_result' = SgRequest
      /\ \A q \in SgRequest : sg_result'[q] = sg_result[q] \/ sg_result'[q] = "cancelled"
  BY DEF SessionInv, SessionTypeInv, SubmitSession, SgReturn, SgGo
<1>3. UNCHANGED <<sg_ctx, sg_lock, sg_proc, sg_digest, sg_child>>
  BY DEF SubmitSession, sgParent
<1> QED
  BY <1>1, <1>2, <1>3, QuietRequest DEF Holding

LEMMA SetCancelInv == ASSUME SessionInv, NEW r \in SgRequest, SetCancel(r) PROVE SessionInv'
<1>1. UNCHANGED <<sg_ctx, sg_pc, sg_result, sg_lock, sg_proc, sg_digest, sg_child>>
  BY DEF SetCancel, sgParent
<1> QED
  BY <1>1 DEF SessionInv, SessionTypeInv, HolderInv, ProcInv, InHand, SessionSound, SessionIsolation,
              NoOrphanChild

\* A request that ends without a ready result takes the child with it.
LEMMA FailSessionInv ==
    ASSUME SessionInv, NEW r \in SgRequest, sg_pc[r] \in Holding,
           NEW status, status \notin {"context_mismatch", "ack_mismatch"}, FailSession(r, status)
    PROVE  SessionInv'
<1>1. /\ sg_lock = r /\ sg_proc \in SgRequest /\ \A q \in SgRequest \ {r} : sg_pc[q] \notin Holding
      /\ sg_ctx[sg_proc] # SgOneShot
  BY HolderKnows
<1>2. /\ sg_pc' \in [SgRequest -> SgStage] /\ sg_pc'[r] = "done"
      /\ \A q \in SgRequest \ {r} : sg_pc'[q] = sg_pc[q]
      /\ sg_lock' = NoRequest /\ sg_proc' = NoRequest /\ sg_ctx' = sg_ctx
  BY DEF SessionInv, SessionTypeInv, FailSession, SgReturn, Terminate, SgStage
<1>3. DOMAIN sg_result' = SgRequest /\ sg_result'[r] = status
      /\ \A q \in SgRequest \ {r} : sg_result'[q] = sg_result[q]
  BY DEF SessionInv, SessionTypeInv, FailSession, SgReturn
<1>4. /\ sg_child' = [sg_child EXCEPT ![sg_proc] = NoChild]
      /\ sg_child' \in [SgRequest -> Child] /\ sg_child'[sg_proc] = NoChild
      /\ \A q \in SgRequest \ {sg_proc} : sg_child'[q] = sg_child[q]
  BY <1>1, ChildFacts DEF SessionInv, SessionTypeInv, FailSession, Terminate, Without
<1>5. SessionTypeInv'
  BY <1>2, <1>3, <1>4 DEF SessionInv, SessionTypeInv, Requests
<1>6. HolderInv'
  BY <1>1, <1>2, <1>4, ChildFacts DEF SessionInv, HolderInv, Holding
<1>7. ProcInv'
  BY <1>2 DEF ProcInv
<1>8. SessionSound'
  <2>1. SessionIsolation'
    BY <1>3 DEF SessionInv, SessionSound, SessionIsolation
  <2>2. NoOrphanChild'
    BY <1>1, <1>2, <1>4, ChildFacts DEF SessionInv, SessionSound, NoOrphanChild, Holding
  <2> QED
    BY <2>1, <2>2 DEF SessionSound
<1> QED
  BY <1>5, <1>6, <1>7, <1>8 DEF SessionInv

\* Under the lock: the child of the same context, which is at rest, or a new one
\* in the place of the old; or none could be started.
LEMMA EnterSessionInv == ASSUME SessionInv, NEW r \in SgRequest, EnterSession(r) PROVE SessionInv'
<1>1. /\ sg_pc[r] = "queued" /\ sg_lock = NoRequest /\ sg_ctx' = sg_ctx /\ sg_ctx[r] # SgOneShot
      /\ \A q \in SgRequest : sg_pc[q] \notin Holding
  BY ChildFacts DEF SessionInv, HolderInv, EnterSession
<1>2. ProcInv /\ HolderInv /\ SessionTypeInv /\ SessionIsolation /\ NoOrphanChild
  BY DEF SessionInv, SessionSound
<1>3. sg_proc # NoRequest => AtRest(sg_child[sg_proc])
  BY <1>1, <1>2 DEF ProcInv, InHand
<1>4. CASE SgGo(r, "sending")
  <2>1. /\ sg_pc' \in [SgRequest -> SgStage] /\ sg_pc'[r] = "sending"
        /\ \A q \in SgRequest \ {r} : sg_pc'[q] = sg_pc[q]
        /\ sg_result' = sg_result
    BY <1>2, <1>4 DEF SessionTypeInv, SgGo, SgStage
  <2>2. sg_lock' = r
    BY <1>2, <1>4 DEF EnterSession, SgGo, SgReturn, SessionTypeInv
  <2>3. CASE Active /\ Reusable(r)
    <3>1. UNCHANGED <<sg_proc, sg_digest, sg_child>> /\ sg_proc # NoRequest /\ sg_digest = sg_ctx[r]
      BY <2>3 DEF EnterSession, Active, Reusable
    <3>2. SessionTypeInv'
      BY <1>1, <1>2, <2>1, <2>2, <3>1 DEF SessionTypeInv, Requests
    <3>3. HolderInv'
      BY <1>1, <1>2, <2>1, <2>2, <3>1 DEF HolderInv, Holding
    <3>4. ProcInv'
      BY <1>2, <1>3, <2>1, <2>2, <3>1 DEF ProcInv, InHand
    <3>5. SessionSound'
      BY <1>1, <1>2, <2>1, <3>1 DEF SessionSound, SessionIsolation, NoOrphanChild
    <3> QED
      BY <3>2, <3>3, <3>4, <3>5 DEF SessionInv
  <2>4. CASE ~(Active /\ Reusable(r))
    <3>1. /\ sg_proc' = r /\ sg_digest' = sg_ctx[r]
          /\ sg_child' = [Without(sg_child, sg_proc) EXCEPT ![r] = NewChild]
      BY <1>2, <1>4, <2>4 DEF EnterSession, SgGo, SgReturn, SessionTypeInv
    <3>2. /\ sg_child' \in [SgRequest -> Child] /\ sg_child'[r] = NewChild
          /\ \A q \in SgRequest \ {r} :
                sg_child'[q] = IF q = sg_proc THEN NoChild ELSE sg_child[q]
      BY <1>2, <3>1, ChildFacts DEF SessionTypeInv, Without, Requests
    <3>3. SessionTypeInv'
      BY <1>1, <1>2, <2>1, <2>2, <3>1, <3>2 DEF SessionTypeInv, Requests
    <3>4. HolderInv'
      BY <1>1, <1>2, <2>1, <2>2, <3>1, <3>2, ChildFacts DEF HolderInv, Holding
    <3>5. ProcInv'
      BY <2>1, <2>2, <3>1, <3>2, ChildFacts DEF ProcInv, InHand
    <3>6. SessionSound'
      BY <1>1, <1>2, <2>1, <3>1, <3>2, ChildFacts DEF SessionSound, SessionIsolation, NoOrphanChild
    <3> QED
      BY <3>3, <3>4, <3>5, <3>6 DEF SessionInv
  <2> QED
    BY <2>3, <2>4
<1>5. CASE SgReturn(r, "blocked") /\ ~SgGo(r, "sending")
  <2>1. /\ sg_pc' \in [SgRequest -> SgStage] /\ sg_pc'[r] = "done"
        /\ \A q \in SgRequest \ {r} : sg_pc'[q] = sg_pc[q]
        /\ DOMAIN sg_result' = SgRequest
        /\ \A q \in SgRequest : sg_result'[q] \in {sg_result[q], "blocked"}
    BY <1>2, <1>5 DEF SessionTypeInv, SgReturn, SgStage
  <2>2. /\ sg_lock' = sg_lock
        /\ sg_child' = (IF Active THEN Without(sg_child, sg_proc) ELSE sg_child)
        /\ sg_proc' = (IF Active THEN NoRequest ELSE sg_proc)
        /\ sg_digest' = (IF Active THEN NoRequest ELSE sg_digest)
    BY <1>5 DEF EnterSession
  <2>3. CASE Active
    <3>1. sg_proc' = NoRequest /\ sg_proc \in SgRequest
      BY <1>2, <2>2, <2>3 DEF Active, SessionTypeInv, Requests
    <3>2. /\ sg_child' \in [SgRequest -> Child] /\ sg_child'[sg_proc] = NoChild
          /\ \A q \in SgRequest \ {sg_proc} : sg_child'[q] = sg_child[q]
      BY <1>2, <2>2, <2>3, <3>1, ChildFacts DEF SessionTypeInv, Without
    <3>3. SessionTypeInv'
      BY <1>1, <1>2, <2>1, <2>2, <3>1, <3>2 DEF SessionTypeInv, Requests
    <3>4. HolderInv'
      BY <1>1, <1>2, <2>1, <2>2, <3>1, <3>2, ChildFacts DEF HolderInv, Holding
    <3>5. ProcInv'
      BY <3>1 DEF ProcInv
    <3>6. SessionSound'
      BY <1>1, <1>2, <2>1, <3>1, <3>2, ChildFacts DEF SessionSound, SessionIsolation, NoOrphanChild
    <3> QED
      BY <3>3, <3>4, <3>5, <3>6 DEF SessionInv
  <2>4. CASE ~Active
    <3>1. UNCHANGED <<sg_ctx, sg_lock, sg_proc, sg_digest, sg_child>>
      BY <1>1, <2>2, <2>4
    <3> QED
      BY <1>1, <2>1, <3>1, QuietRequest DEF Holding
  <2> QED
    BY <2>3, <2>4
<1> QED
  BY <1>4, <1>5 DEF EnterSession

\* The holder moves on within its stages: its child stays its own.
LEMMA HolderStep ==
    ASSUME SessionInv, NEW r \in SgRequest, sg_pc[r] \in Holding,
           NEW stage \in {"waiting", "acking"}, SgGo(r, stage),
           UNCHANGED <<sg_ctx, sg_lock, sg_proc, sg_digest>>,
           NEW x \in Child, sg_child' = [sg_child EXCEPT ![sg_proc] = x],
           ServingOnly(x, r), x.ctx \in {NoRequest, sg_ctx[r]}
    PROVE  SessionInv'
<1>1. /\ sg_lock = r /\ sg_proc \in SgRequest /\ sg_digest = sg_ctx[r]
      /\ sg_ctx[r] # SgOneShot /\ sg_ctx[sg_proc] # SgOneShot
  BY HolderKnows
<1>2. /\ sg_pc' \in [SgRequest -> SgStage] /\ sg_pc'[r] = stage
      /\ \A q \in SgRequest \ {r} : sg_pc'[q] = sg_pc[q]
      /\ sg_result' = sg_result
  BY DEF SessionInv, SessionTypeInv, SgGo, SgStage
<1>3. /\ sg_child' \in [SgRequest -> Child] /\ sg_child'[sg_proc] = x
      /\ \A q \in SgRequest \ {sg_proc} : sg_child'[q] = sg_child[q]
  BY <1>1 DEF SessionInv, SessionTypeInv
<1>4. SessionTypeInv'
  BY <1>2, <1>3 DEF SessionInv, SessionTypeInv
<1>5. HolderInv'
  BY <1>1, <1>2, <1>3 DEF SessionInv, HolderInv, Holding
<1>6. ProcInv'
  BY <1>1, <1>2, <1>3, ChildFacts DEF ProcInv, InHand
<1>7. SessionSound'
  BY <1>2, <1>3 DEF SessionInv, SessionSound, SessionIsolation, NoOrphanChild, Holding
<1> QED
  BY <1>4, <1>5, <1>6, <1>7 DEF SessionInv

LEMMA SendCommandInv == ASSUME SessionInv, NEW r \in SgRequest, SendCommand(r) PROVE SessionInv'
<1>1. sg_pc[r] = "sending" /\ sg_pc[r] \in Holding
  BY DEF SendCommand, Holding
<1>2. /\ sg_proc \in SgRequest /\ sg_child[sg_proc] \in Child /\ AtRest(sg_child[sg_proc])
      /\ sg_child[sg_proc].ctx \in {NoRequest, sg_ctx[r]}
  BY <1>1, HolderKnows
<1>3. CASE FailSession(r, "crash")
  BY <1>1, <1>3, FailSessionInv
<1>4. CASE ~FailSession(r, "crash")
  <2> DEFINE x == [sg_child[sg_proc] EXCEPT !.job = r]
  <2>1. SgGo(r, "waiting") /\ UNCHANGED <<sg_ctx, sg_lock, sg_proc, sg_digest>>
    BY <1>4 DEF SendCommand, sgParent
  <2>2. sg_child' = [sg_child EXCEPT ![sg_proc] = x]
    BY <1>2, <1>4 DEF SendCommand, AtRest, Child
  <2>3. x \in Child
    BY <1>2 DEF Child, Requests
  <2>4. ServingOnly(x, r) /\ x.ctx \in {NoRequest, sg_ctx[r]}
    BY <1>2 DEF Child, AtRest, ServingOnly
  <2> HIDE DEF x
  <2> QED
    BY <1>1, <2>1, <2>2, <2>3, <2>4, HolderStep
<1> QED
  BY <1>3, <1>4

LEMMA AwaitSessionInv == ASSUME SessionInv, NEW r \in SgRequest, AwaitSession(r) PROVE SessionInv'
<1>1. sg_pc[r] = "waiting" /\ sg_pc[r] \in Holding
  BY DEF AwaitSession, Holding
<1>2. ASSUME NEW status \in {"cancelled", "rss_limit", "crash", "timed_out"}, FailSession(r, status)
      PROVE  SessionInv'
  BY <1>1, <1>2, FailSessionInv
<1>3. CASE SgGo(r, "acking") /\ UNCHANGED <<sg_ctx, sgParent, sg_child, sg_faults>>
  <2>1. /\ sg_proc \in SgRequest /\ sg_child[sg_proc] \in Child /\ ServingOnly(sg_child[sg_proc], r)
        /\ sg_child[sg_proc].ctx \in {NoRequest, sg_ctx[r]}
    BY <1>1, HolderKnows
  <2>2. sg_child' = [sg_child EXCEPT ![sg_proc] = sg_child[sg_proc]]
    BY <1>3 DEF SessionInv, SessionTypeInv
  <2> QED
    BY <1>1, <1>3, <2>1, <2>2, HolderStep DEF sgParent
<1> QED
  BY <1>2, <1>3 DEF AwaitSession

\* The acknowledgement a request reads is its own, and a ready request leaves the
\* child at rest.
LEMMA ReadAckInv == ASSUME SessionInv, NEW r \in SgRequest, ReadAck(r) PROVE SessionInv'
<1> DEFINE x == sg_child[sg_proc]
<1>1. sg_pc[r] = "acking" /\ sg_pc[r] \in Holding
  BY DEF ReadAck, Holding
<1>2. /\ sg_lock = r /\ sg_proc \in SgRequest /\ x \in Child /\ ServingOnly(x, r)
      /\ x.ctx \in {NoRequest, sg_ctx[r]}
      /\ \A q \in SgRequest \ {r} : sg_pc[q] \notin Holding
      /\ sg_digest = sg_ctx[r] /\ sg_ctx[sg_proc] # SgOneShot
  BY <1>1, HolderKnows
<1>3. x.acks = <<>> \/ (x.acks = <<r>> /\ x.resp.token = r /\ x.job = NoRequest)
  BY <1>2, ChildFacts DEF ServingOnly
<1>4. x.acks # <<>> => Head(x.acks) = r /\ Tail(x.acks) = <<>>
  <2>1. Head(<<r>>) = r /\ Tail(<<r>>) = <<>>
    OBVIOUS
  <2> QED
    BY <1>3, <2>1, Zenon
<1>5. x.resp.status \notin {"context_mismatch", "ack_mismatch"}
  BY <1>2 DEF Child, Response
<1>6. ASSUME NEW status, status \notin {"context_mismatch", "ack_mismatch"}, FailSession(r, status)
      PROVE  SessionInv'
  BY <1>1, <1>6, FailSessionInv
<1>7. ASSUME x.acks # <<>>, SgReturn(r, "ready"), sg_lock' = NoRequest,
             sg_child' = [sg_child EXCEPT ![sg_proc].acks = Tail(@), ![sg_proc].resp = NoChild.resp],
             UNCHANGED <<sg_ctx, sg_proc, sg_digest, sg_faults>>
      PROVE  SessionInv'
  <2> DEFINE y == [x EXCEPT !.acks = Tail(x.acks), !.resp = NoChild.resp]
  <2>1. /\ sg_pc' \in [SgRequest -> SgStage] /\ sg_pc'[r] = "done"
        /\ \A q \in SgRequest \ {r} : sg_pc'[q] = sg_pc[q]
        /\ DOMAIN sg_result' = SgRequest
        /\ \A q \in SgRequest : sg_result'[q] \in {sg_result[q], "ready"}
    BY <1>7 DEF SessionInv, SessionTypeInv, SgReturn, SgStage
  <2>2. /\ DOMAIN sg_child' = SgRequest /\ sg_child'[sg_proc] = y
        /\ \A q \in SgRequest \ {sg_proc} : sg_child'[q] = sg_child[q]
    BY <1>2, <1>7 DEF SessionInv, SessionTypeInv, Child
  <2>3. NoChild.resp \in Response /\ NoChild.resp.token = NoRequest
    BY DEF NoChild, Response, Requests
  <2>4. y \in Child /\ AtRest(y) /\ y.ctx = x.ctx
    BY <1>2, <1>3, <1>4, <1>7, <2>3 DEF Child, AtRest
  <2>5. sg_child' \in [SgRequest -> Child]
    BY <1>7, <2>2, <2>4 DEF SessionInv, SessionTypeInv
  <2>6. SessionTypeInv'
    BY <1>7, <2>1, <2>5 DEF SessionInv, SessionTypeInv, Requests
  <2>7. HolderInv'
    BY <1>2, <1>7, <2>1, <2>2, ChildFacts DEF SessionInv, HolderInv, Holding
  <2>8. ProcInv'
    BY <1>2, <1>7, <2>2, <2>4 DEF ProcInv, InHand
  <2>9. SessionSound'
    <3>1. SessionIsolation'
      BY <2>1 DEF SessionInv, SessionSound, SessionIsolation
    <3>2. NoOrphanChild'
      BY <1>1, <1>7, <2>1, <2>2 DEF SessionInv, SessionSound, NoOrphanChild
    <3> QED
      BY <3>1, <3>2 DEF SessionSound
  <2> QED
    BY <2>6, <2>7, <2>8, <2>9 DEF SessionInv
<1>8. \/ FailSession(r, "no_ack")
      \/ x.acks # <<>> /\ Head(x.acks) # r
      \/ FailSession(r, "rss_limit")
      \/ FailSession(r, x.resp.status)
      \/ /\ x.acks # <<>> /\ SgReturn(r, "ready") /\ sg_lock' = NoRequest
         /\ sg_child' = [sg_child EXCEPT ![sg_proc].acks = Tail(@), ![sg_proc].resp = NoChild.resp]
         /\ UNCHANGED <<sg_ctx, sg_proc, sg_digest, sg_faults>>
  BY DEF ReadAck
<1>9. CASE FailSession(r, "no_ack") \/ FailSession(r, "rss_limit") \/ FailSession(r, x.resp.status)
  BY <1>5, <1>6, <1>9
<1> QED
  BY <1>4, <1>7, <1>8, <1>9

\* The idle task and close() end the child only when nobody holds the lock.
LEMMA TerminateInv ==
    ASSUME SessionInv, sg_lock = NoRequest, Terminate,
           UNCHANGED <<sg_ctx, sg_pc, sg_result, sg_lock>>
    PROVE  SessionInv'
<1>1. sg_proc' = NoRequest
  BY DEF Terminate
<1>2. /\ sg_child' \in [SgRequest -> Child]
      /\ \A q \in SgRequest : sg_child'[q] = IF q = sg_proc THEN NoChild ELSE sg_child[q]
  BY ChildFacts DEF SessionInv, SessionTypeInv, Terminate, Without, Requests
<1>3. SessionTypeInv'
  BY <1>1, <1>2 DEF SessionInv, SessionTypeInv, Requests
<1>4. HolderInv'
  BY <1>1, <1>2, ChildFacts DEF SessionInv, HolderInv
<1>5. ProcInv'
  BY <1>1 DEF ProcInv
<1>6. SessionSound'
  BY <1>1, <1>2, ChildFacts DEF SessionInv, SessionSound, SessionIsolation, NoOrphanChild
<1> QED
  BY <1>3, <1>4, <1>5, <1>6 DEF SessionInv

LEMMA IdleInv ==
    ASSUME SessionInv, WakeReaper \/ ReapIdle \/ CloseSession \/ SessionTick
    PROVE  SessionInv'
<1>1. CASE UNCHANGED <<sg_ctx, sg_pc, sg_result, sg_lock, sg_proc, sg_digest, sg_child>>
  BY <1>1 DEF SessionInv, SessionTypeInv, HolderInv, ProcInv, InHand, SessionSound, SessionIsolation,
              NoOrphanChild
<1>2. CASE sg_lock = NoRequest /\ Terminate /\ UNCHANGED <<sg_ctx, sg_pc, sg_result, sg_lock>>
  BY <1>2, TerminateInv
<1> QED
  BY <1>1, <1>2 DEF WakeReaper, ReapIdle, CloseSession, SessionTick

\* A one-shot request ends: its child is gone.
LEMMA EndOneShotInv ==
    ASSUME SessionInv, NEW r \in SgRequest, sg_pc[r] \in {"one_shot", "grace"},
           NEW status, status \notin {"context_mismatch", "ack_mismatch"}, EndOneShot(r, status),
           UNCHANGED <<sg_ctx, sg_lock, sg_proc, sg_digest>>
    PROVE  SessionInv'
<1>1. sg_ctx[r] = SgOneShot /\ sg_proc # r /\ sg_lock # r /\ r # NoRequest
  BY ChildFacts DEF SessionInv, HolderInv, Holding
<1>2. /\ sg_pc' \in [SgRequest -> SgStage] /\ sg_pc'[r] = "done"
      /\ \A q \in SgRequest \ {r} : sg_pc'[q] = sg_pc[q]
      /\ DOMAIN sg_result' = SgRequest
      /\ \A q \in SgRequest : sg_result'[q] \in {sg_result[q], status}
  BY DEF SessionInv, SessionTypeInv, EndOneShot, SgReturn, SgStage
<1>3. /\ sg_child' \in [SgRequest -> Child] /\ sg_child'[r] = NoChild
      /\ \A q \in SgRequest \ {r} : sg_child'[q] = sg_child[q]
  BY <1>1, ChildFacts DEF SessionInv, SessionTypeInv, EndOneShot, Without
<1>4. SessionTypeInv'
  BY <1>2, <1>3 DEF SessionInv, SessionTypeInv
<1>5. HolderInv'
  BY <1>1, <1>2, <1>3, ChildFacts DEF SessionInv, HolderInv, Holding
<1>6. ProcInv'
  <2>1. sg_lock # NoRequest => sg_pc'[sg_lock] = sg_pc[sg_lock]
    BY <1>1, <1>2 DEF SessionInv, SessionTypeInv, Requests
  <2>2. sg_proc # NoRequest => sg_child'[sg_proc] = sg_child[sg_proc]
    BY <1>1, <1>3 DEF SessionInv, SessionTypeInv, Requests
  <2> QED
    BY <2>1, <2>2 DEF SessionInv, ProcInv, InHand
<1>7. SessionSound'
  BY <1>1, <1>2, <1>3, ChildFacts DEF SessionInv, SessionSound, SessionIsolation, NoOrphanChild
<1> QED
  BY <1>4, <1>5, <1>6, <1>7 DEF SessionInv

LEMMA SubmitOneShotInv == ASSUME SessionInv, NEW r \in SgRequest, SubmitOneShot(r) PROVE SessionInv'
<1>0. sg_pc[r] = "idle" /\ sg_ctx[r] = SgOneShot
      /\ UNCHANGED <<sg_ctx, sg_lock, sg_proc, sg_digest>>
  BY DEF SubmitOneShot, sgParent
<1>1. CASE UNCHANGED sg_child /\ \E status \in {"cancelled", "blocked"} : SgReturn(r, status)
  <2>1. /\ sg_pc' \in [SgRequest -> SgStage] /\ sg_pc'[r] = "done"
        /\ \A q \in SgRequest \ {r} : sg_pc'[q] = sg_pc[q]
        /\ DOMAIN sg_result' = SgRequest
        /\ \A q \in SgRequest : sg_result'[q] \in {sg_result[q], "cancelled", "blocked"}
    BY <1>1 DEF SessionInv, SessionTypeInv, SgReturn, SgStage
  <2> QED
    BY <1>0, <1>1, <2>1, QuietRequest DEF Holding
<1>2. CASE SgGo(r, "one_shot") /\ sg_child' = [sg_child EXCEPT ![r] = [NewChild EXCEPT !.job = r]]
  <2> DEFINE x == [NewChild EXCEPT !.job = r]
  <2>1. /\ sg_pc' \in [SgRequest -> SgStage] /\ sg_pc'[r] = "one_shot"
        /\ \A q \in SgRequest \ {r} : sg_pc'[q] = sg_pc[q]
        /\ sg_result' = sg_result
    BY <1>2 DEF SessionInv, SessionTypeInv, SgGo, SgStage
  <2>2. x \in Child /\ x.job = r
    BY ChildFacts DEF Child, Requests
  <2>3. /\ sg_child' \in [SgRequest -> Child] /\ sg_child'[r] = x
        /\ \A q \in SgRequest \ {r} : sg_child'[q] = sg_child[q]
    BY <1>2, <2>2 DEF SessionInv, SessionTypeInv
  <2> HIDE DEF x
  <2>4. sg_proc # r /\ sg_lock # r
    BY <1>0, ChildFacts DEF SessionInv, HolderInv, Holding
  <2>5. SessionTypeInv'
    BY <1>0, <2>1, <2>3 DEF SessionInv, SessionTypeInv
  <2>6. HolderInv'
    BY <1>0, <2>1, <2>2, <2>3, <2>4 DEF SessionInv, HolderInv, Holding
  <2>7. ProcInv'
    <3>1. sg_lock # NoRequest => sg_pc'[sg_lock] = sg_pc[sg_lock]
      BY <2>1, <2>4 DEF SessionInv, SessionTypeInv, Requests
    <3>2. sg_proc # NoRequest => sg_child'[sg_proc] = sg_child[sg_proc]
      BY <2>3, <2>4 DEF SessionInv, SessionTypeInv, Requests
    <3> QED
      BY <1>0, <3>1, <3>2 DEF SessionInv, ProcInv, InHand
  <2>8. SessionSound'
    BY <1>0, <2>1, <2>3 DEF SessionInv, SessionSound, SessionIsolation, NoOrphanChild
  <2> QED
    BY <2>5, <2>6, <2>7, <2>8 DEF SessionInv
<1> QED
  BY <1>1, <1>2 DEF SubmitOneShot

\* What a one-shot child answered is believed or not, and never a mismatch.
LEMMA DecodeOneShotInv ==
    ASSUME SessionInv, NEW r \in SgRequest, sg_pc[r] \in {"one_shot", "grace"},
           NEW published, DecodeOneShot(r, published),
           UNCHANGED <<sg_ctx, sg_lock, sg_proc, sg_digest>>
    PROVE  SessionInv'
<1>1. sg_child[r].resp.status \in {"none", "ready", "build_failed"}
  BY DEF SessionInv, SessionTypeInv, Child, Response
<1>2. PICK status \in {"invalid", "crash", "none", "ready", "build_failed"} : EndOneShot(r, status)
  BY <1>1 DEF DecodeOneShot
<1> QED
  BY <1>2, EndOneShotInv

LEMMA AwaitOneShotInv == ASSUME SessionInv, NEW r \in SgRequest, AwaitOneShot(r) PROVE SessionInv'
<1>0. sg_pc[r] = "one_shot" /\ UNCHANGED <<sg_ctx, sg_lock, sg_proc, sg_digest>>
  BY DEF AwaitOneShot, sgParent
<1>1. CASE EndOneShot(r, "cancelled") \/ EndOneShot(r, "timed_out")
  BY <1>0, <1>1, EndOneShotInv
<1>2. CASE DecodeOneShot(r, FALSE)
  BY <1>0, <1>2, DecodeOneShotInv
<1>3. CASE SgGo(r, "grace") /\ UNCHANGED sg_child
  <2>1. /\ sg_pc' \in [SgRequest -> SgStage] /\ sg_pc'[r] = "grace"
        /\ \A q \in SgRequest \ {r} : sg_pc'[q] = sg_pc[q]
        /\ sg_result' = sg_result
    BY <1>3 DEF SessionInv, SessionTypeInv, SgGo, SgStage
  <2>2. SessionTypeInv'
    BY <1>0, <1>3, <2>1 DEF SessionInv, SessionTypeInv
  <2>3. HolderInv'
    BY <1>0, <1>3, <2>1 DEF SessionInv, HolderInv, Holding
  <2>4. ProcInv'
    <3>1. sg_lock # NoRequest => sg_pc'[sg_lock] = sg_pc[sg_lock]
      BY <1>0, <2>1 DEF SessionInv, SessionTypeInv, Requests, HolderInv, Holding
    <3> QED
      BY <1>0, <1>3, <3>1 DEF SessionInv, ProcInv, InHand
  <2>5. SessionSound'
    BY <1>0, <1>3, <2>1 DEF SessionInv, SessionSound, SessionIsolation, NoOrphanChild
  <2> QED
    BY <2>2, <2>3, <2>4, <2>5 DEF SessionInv
<1> QED
  BY <1>1, <1>2, <1>3 DEF AwaitOneShot

LEMMA GraceOneShotInv == ASSUME SessionInv, NEW r \in SgRequest, GraceOneShot(r) PROVE SessionInv'
<1>0. sg_pc[r] = "grace" /\ UNCHANGED <<sg_ctx, sg_lock, sg_proc, sg_digest>>
  BY DEF GraceOneShot, sgParent
<1>1. CASE EndOneShot(r, "cancelled")
  BY <1>0, <1>1, EndOneShotInv
<1>2. ASSUME NEW published, DecodeOneShot(r, published) PROVE SessionInv'
  BY <1>0, <1>2, DecodeOneShotInv
<1> QED
  BY <1>1, <1>2 DEF GraceOneShot

\* A step of a child process: the parent does not notice it yet.
LEMMA ChildStep ==
    ASSUME SessionInv, NEW k \in SgRequest, NEW x \in Child,
           sg_child' = [sg_child EXCEPT ![k] = x],
           UNCHANGED <<sg_ctx, sg_pc, sg_result, sg_lock, sg_proc, sg_digest>>,
           x.up \/ x.temp => sg_child[k].up \/ sg_child[k].temp,
           sg_pc[k] \in {"one_shot", "grace"} => x.job = k,
           k = sg_proc => x.ctx \in {NoRequest, sg_digest} /\ InHand(x)
    PROVE  SessionInv'
<1>1. /\ sg_child' \in [SgRequest -> Child] /\ sg_child'[k] = x
      /\ \A q \in SgRequest \ {k} : sg_child'[q] = sg_child[q]
  BY DEF SessionInv, SessionTypeInv
<1>2. SessionTypeInv'
  BY <1>1 DEF SessionInv, SessionTypeInv
<1>3. HolderInv'
  BY <1>1 DEF SessionInv, HolderInv
<1>4. ProcInv'
  <2>1. sg_proc # NoRequest => sg_child'[sg_proc] = IF sg_proc = k THEN x ELSE sg_child[sg_proc]
    BY <1>1 DEF SessionInv, SessionTypeInv, Requests
  <2> QED
    BY <2>1 DEF SessionInv, ProcInv, InHand
<1>5. SessionSound'
  BY <1>1 DEF SessionInv, SessionSound, SessionIsolation, NoOrphanChild
<1> QED
  BY <1>2, <1>3, <1>4, <1>5 DEF SessionInv

\* What the parent's invariant says about a child: nothing, unless it is the
\* persistent one or one of a one-shot request.
LEMMA ChildKnows ==
    ASSUME SessionInv, NEW k \in SgRequest, sg_child[k].up \/ sg_child[k].temp
    PROVE  /\ sg_child[k] \in Child
           /\ \/ /\ k = sg_proc /\ sg_ctx[k] # SgOneShot /\ sg_pc[k] \notin {"one_shot", "grace"}
                 /\ sg_child[k].ctx \in {NoRequest, sg_digest} /\ InHand(sg_child[k])
              \/ /\ k # sg_proc /\ sg_pc[k] \in {"one_shot", "grace"} /\ sg_ctx[k] = SgOneShot
                 /\ sg_child[k].job = k
<1>1. sg_child[k] \in Child
  BY DEF SessionInv, SessionTypeInv
<1>2. k = sg_proc \/ sg_pc[k] \in {"one_shot", "grace"}
  BY DEF SessionInv, SessionSound, NoOrphanChild
<1>3. CASE k = sg_proc
  BY <1>1, <1>3, ChildFacts DEF SessionInv, HolderInv, ProcInv
<1>4. CASE k # sg_proc
  BY <1>1, <1>2, <1>4 DEF SessionInv, HolderInv
<1> QED
  BY <1>3, <1>4

\* A child builds for the request whose job it has; the persistent one has the
\* root of that request's context or none yet, so it never refuses.
LEMMA ChildRespondsInv == ASSUME SessionInv, NEW k \in SgRequest, ChildResponds(k) PROVE SessionInv'
<1> DEFINE x == sg_child[k]
           r == x.job
<1>0. /\ x.up /\ r # NoRequest /\ x.resp.token = NoRequest
      /\ UNCHANGED <<sg_ctx, sg_pc, sg_result, sg_lock, sg_proc, sg_digest>>
  BY DEF ChildResponds, sgParent
<1>1. x \in Child
  BY <1>0, ChildKnows
<1>2. r \in SgRequest
  BY <1>0, <1>1 DEF Child, Requests
<1>3. PICK status \in BuildStatus(k, r) :
         sg_child' = [sg_child EXCEPT
              ![k].resp = [token |-> r, status |-> status],
              ![k].ctx = IF status = "ready" THEN sg_ctx[r] ELSE @,
              ![k].job = IF sg_ctx[r] = SgOneShot THEN r ELSE NoRequest]
  BY DEF ChildResponds
<1> DEFINE y == [x EXCEPT !.resp = [token |-> r, status |-> status],
                          !.ctx = IF status = "ready" THEN sg_ctx[r] ELSE @,
                          !.job = IF sg_ctx[r] = SgOneShot THEN r ELSE NoRequest]
<1>4. sg_child' = [sg_child EXCEPT ![k] = y]
  BY <1>1, <1>3 DEF SessionInv, SessionTypeInv, Child
<1>5. CASE k = sg_proc
  <2>1. /\ sg_ctx[k] # SgOneShot /\ sg_pc[k] \notin {"one_shot", "grace"}
        /\ x.ctx \in {NoRequest, sg_digest} /\ InHand(x)
    BY <1>0, <1>5, ChildKnows
  <2>2. sg_lock = r /\ sg_pc[r] # "sending" /\ x.acks = <<>>
    BY <1>0, <1>2, <2>1, ChildFacts DEF InHand, AtRest, ServingOnly
  <2>3. sg_ctx[r] = sg_digest /\ sg_ctx[r] # SgOneShot /\ sg_ctx[r] \in Contexts
    BY <1>2, <2>2, ChildFacts DEF SessionInv, HolderInv, SessionTypeInv
  <2>4. status \in {"ready", "build_failed"}
    BY <2>1, <2>3 DEF BuildStatus
  <2>5. [token |-> r, status |-> status] \in Response
    BY <1>2, <2>4 DEF Response, Requests
  <2>6. y \in Child
    BY <1>1, <2>3, <2>5 DEF Child, Requests
  <2>7. /\ y.up = x.up /\ y.temp = x.temp /\ y.acks = <<>> /\ y.job = NoRequest /\ y.resp.token = r
        /\ y.ctx \in {NoRequest, sg_digest}
    BY <1>1, <2>1, <2>2, <2>3 DEF Child
  <2>8. InHand(y)
    BY <1>2, <2>2, <2>7, ChildFacts DEF InHand, ServingOnly
  <2> HIDE DEF y
  <2> QED
    BY <1>0, <1>4, <2>1, <2>6, <2>7, <2>8, ChildStep
<1>6. CASE k # sg_proc
  <2>1. sg_pc[k] \in {"one_shot", "grace"} /\ sg_ctx[k] = SgOneShot /\ r = k
    BY <1>0, <1>6, ChildKnows
  <2>2. status \in {"ready", "build_failed"}
    BY <2>1 DEF BuildStatus
  <2>3. [token |-> r, status |-> status] \in Response
    BY <1>2, <2>2 DEF Response, Requests
  <2>4. sg_ctx[r] \in Contexts
    BY <1>2 DEF SessionInv, SessionTypeInv
  <2>5. y \in Child
    BY <1>1, <1>2, <2>3, <2>4 DEF Child, Requests
  <2>6. y.up = x.up /\ y.temp = x.temp /\ y.job = k
    BY <1>1, <2>1 DEF Child
  <2> HIDE DEF y
  <2> QED
    BY <1>0, <1>4, <1>6, <2>5, <2>6, ChildStep
<1> QED
  BY <1>5, <1>6

LEMMA ChildAcknowledgesInv ==
    ASSUME SessionInv, NEW k \in SgRequest, ChildAcknowledges(k) PROVE SessionInv'
<1> DEFINE x == sg_child[k]
           r == x.resp.token
           y == [x EXCEPT !.acks = <<r>>]
<1>0. /\ x.up /\ r # NoRequest /\ sg_ctx[r] # SgOneShot /\ x.acks = <<>>
      /\ UNCHANGED <<sg_ctx, sg_pc, sg_result, sg_lock, sg_proc, sg_digest>>
  BY DEF ChildAcknowledges, sgParent
<1>1. x \in Child /\ r \in SgRequest
  <2>1. x \in Child
    BY <1>0, ChildKnows
  <2> QED
    BY <1>0, <2>1 DEF Child, Response, Requests
<1>2. sg_child' = [sg_child EXCEPT ![k] = y]
  <2>1. Append(<<>>, r) = <<r>>
    OBVIOUS
  <2> QED
    BY <1>0, <1>1, <2>1 DEF ChildAcknowledges, SessionInv, SessionTypeInv, Child
<1>3. y \in Child
  BY <1>1 DEF Child
<1>4. y.up = x.up /\ y.temp = x.temp /\ y.job = x.job /\ y.ctx = x.ctx /\ y.resp = x.resp /\ y.acks = <<r>>
  BY <1>1 DEF Child
<1> HIDE DEF y
<1>5. k = sg_proc => y.ctx \in {NoRequest, sg_digest} /\ InHand(y)
  <2> SUFFICES ASSUME k = sg_proc PROVE y.ctx \in {NoRequest, sg_digest} /\ InHand(y)
    OBVIOUS
  <2>1. x.ctx \in {NoRequest, sg_digest} /\ InHand(x)
    BY <1>0, ChildKnows
  <2> QED
    BY <1>0, <1>4, <2>1 DEF InHand, AtRest, ServingOnly
<1>6. sg_pc[k] \in {"one_shot", "grace"} => y.job = k
  BY <1>0, <1>4, ChildKnows
<1> QED
  BY <1>0, <1>2, <1>3, <1>4, <1>5, <1>6, ChildStep

\* A child ends, its end is noticed, or it fails: what it has in hand stays.
LEMMA ChildEndsInv ==
    ASSUME SessionInv, NEW k \in SgRequest, OneShotExits(k) \/ ExitNoticed(k) \/ ChildFault(k)
    PROVE  SessionInv'
<1> DEFINE x == sg_child[k]
<1>0. (x.up \/ x.temp) /\ UNCHANGED <<sg_ctx, sg_pc, sg_result, sg_lock, sg_proc, sg_digest>>
  BY DEF OneShotExits, ExitNoticed, ChildFault, sgParent
<1>1. x \in Child
  BY <1>0, ChildKnows
<1>2. PICK y \in Child :
         /\ sg_child' = [sg_child EXCEPT ![k] = y]
         /\ y.up => x.up
         /\ y.temp = x.temp /\ y.job = x.job /\ y.ctx = x.ctx /\ y.resp = x.resp /\ y.acks = x.acks
  <2>1. CASE OneShotExits(k)
    <3> DEFINE y == [x EXCEPT !.up = FALSE, !.code = (x.resp.status = "ready")]
    <3>1. sg_child' = [sg_child EXCEPT ![k] = y]
      BY <1>1, <2>1 DEF OneShotExits, SessionInv, SessionTypeInv, Child
    <3>2. y \in Child
      BY <1>1 DEF Child
    <3>3. ~y.up /\ y.temp = x.temp /\ y.job = x.job /\ y.ctx = x.ctx /\ y.resp = x.resp /\ y.acks = x.acks
      BY <1>1 DEF Child
    <3> QED
      BY <3>1, <3>2, <3>3
  <2>2. CASE ExitNoticed(k)
    <3> DEFINE y == [x EXCEPT !.known = TRUE]
    <3>1. sg_child' = [sg_child EXCEPT ![k] = y]
      BY <1>1, <2>2 DEF ExitNoticed, SessionInv, SessionTypeInv, Child
    <3>2. y \in Child
      BY <1>1 DEF Child
    <3>3. /\ y.up = x.up /\ y.temp = x.temp /\ y.job = x.job /\ y.ctx = x.ctx /\ y.resp = x.resp
          /\ y.acks = x.acks
      BY <1>1 DEF Child
    <3> QED
      BY <3>1, <3>2, <3>3
  <2>3. CASE ChildFault(k)
    <3> DEFINE y == [x EXCEPT !.up = FALSE, !.code = FALSE]
               z == [x EXCEPT !.big = TRUE]
    <3>1. sg_child' = [sg_child EXCEPT ![k] = y] \/ sg_child' = [sg_child EXCEPT ![k] = z]
      BY <1>1, <2>3 DEF ChildFault, SessionInv, SessionTypeInv, Child
    <3>2. y \in Child /\ z \in Child
      BY <1>1 DEF Child
    <3>3. /\ ~y.up /\ y.temp = x.temp /\ y.job = x.job /\ y.ctx = x.ctx /\ y.resp = x.resp
          /\ y.acks = x.acks
          /\ z.up = x.up /\ z.temp = x.temp /\ z.job = x.job /\ z.ctx = x.ctx /\ z.resp = x.resp
          /\ z.acks = x.acks
      BY <1>1 DEF Child
    <3> QED
      BY <3>1, <3>2, <3>3
  <2> QED
    BY <2>1, <2>2, <2>3
<1>3. k = sg_proc => y.ctx \in {NoRequest, sg_digest} /\ InHand(y)
  <2> SUFFICES ASSUME k = sg_proc PROVE y.ctx \in {NoRequest, sg_digest} /\ InHand(y)
    OBVIOUS
  <2>1. x.ctx \in {NoRequest, sg_digest} /\ InHand(x)
    BY <1>0, ChildKnows
  <2> QED
    BY <1>2, <2>1 DEF InHand, AtRest, ServingOnly
<1>4. sg_pc[k] \in {"one_shot", "grace"} => y.job = k
  BY <1>0, <1>2, ChildKnows
<1> QED
  BY <1>0, <1>2, <1>3, <1>4, ChildStep

\* A request never pays for an earlier one and no child outlives its use, however
\* requests are cancelled, time out or lose their child, and whenever the idle
\* task and close() come in between.
THEOREM SessionIsSound == SessionSpec => []SessionSound
<1>1. SessionInit([SgRequest -> SgContext \cup {SgOneShot, NoRequest}]) => SessionInv
  BY SessionInitInv
<1>2. SessionInv /\ [SessionNext]_sessionVars => SessionInv'
  <2> SUFFICES ASSUME SessionInv, [SessionNext]_sessionVars PROVE SessionInv'
    OBVIOUS
  <2>1. CASE UNCHANGED sessionVars
    BY <2>1 DEF sessionVars, sgParent, SessionInv, SessionTypeInv, HolderInv, ProcInv, InHand, SessionSound,
                SessionIsolation, NoOrphanChild
  <2>2. ASSUME NEW r \in SgRequest, SessionServes(r) PROVE SessionInv'
    BY <2>2, SubmitSessionInv, EnterSessionInv, SendCommandInv, AwaitSessionInv, ReadAckInv,
       SubmitOneShotInv, AwaitOneShotInv, GraceOneShotInv DEF SessionServes
  <2>3. ASSUME NEW k \in SgRequest, ChildSteps(k) \/ ChildFault(k) \/ SetCancel(k) PROVE SessionInv'
    BY <2>3, ChildRespondsInv, ChildAcknowledgesInv, ChildEndsInv, SetCancelInv DEF ChildSteps
  <2> QED
    BY <2>1, <2>2, <2>3, IdleInv DEF SessionNext
<1>3. SessionInv => SessionSound
  BY DEF SessionInv
<1> QED
  BY <1>1, <1>2, <1>3, PTL DEF SessionSpec

(***************************************************************************)
(* SourceGraphDiskCache                                                    *)
(*                                                                         *)
(* The argument rests on what the maintenance lock protects (LockInv):     *)
(* only its holder removes entries, and what it counted when it scanned    *)
(* the directory still covers every entry the cache recognises when it     *)
(* renames its own into place.  A lookup takes no lock; it is right        *)
(* because every manifest names a publication of the digest it lies under  *)
(* (NamesInv), and because it answers only with the payload its manifest   *)
(* describes (ReaderInv).                                                  *)
(***************************************************************************)

\* A finite set of integers that is not empty has a least member, and Min
\* returns it.  Induction over finite sets, in the form of WFMin: among the sets
\* of members up to some member there is one that includes no other.
LEMMA FiniteMin ==
    ASSUME NEW S \in SUBSET Int, IsFiniteSet(S), S # {}
    PROVE  Min(S) \in S
<1> DEFINE Below(y) == {x \in S : x <= y}
           T == {U \in SUBSET S : \E y \in S : U = Below(y)}
<1>1. IsWellFoundedOn(StrictSubsetOrdering(S), FiniteSubsetsOf(S))
  BY FS_StrictSubsetOrderingWellFounded
<1>2. T \subseteq FiniteSubsetsOf(S)
  BY FS_Subset DEF FiniteSubsetsOf
<1>3. T # {}
  <2>1. PICK y \in S : TRUE
    OBVIOUS
  <2>2. Below(y) \in T
    BY <2>1
  <2> QED
    BY <2>2
<1>4. PICK U \in T : \A V \in T : ~ (<<V, U>> \in StrictSubsetOrdering(S))
  <2> HIDE DEF T
  <2> QED
    BY <1>1, <1>2, <1>3, WFMin
<1>5. PICK y \in S : U = Below(y)
  BY <1>4
<1>6. ASSUME NEW z \in S, ~(y <= z) PROVE FALSE
  <2> y \in Int /\ z \in Int
    OBVIOUS
  <2>1. z < y /\ y \in Below(y) /\ y \notin Below(z)
    BY <1>6
  <2>2. Below(z) \in T /\ Below(z) \subseteq U /\ Below(z) # U
    <3>1. Below(z) \in T
      OBVIOUS
    <3>2. ASSUME NEW x \in Below(z) PROVE x \in Below(y)
      BY <2>1
    <3> QED
      BY <2>1, <1>5, <3>1, <3>2
  <2>3. <<Below(z), U>> \in StrictSubsetOrdering(S)
    BY <2>2, <1>4 DEF StrictSubsetOrdering
  <2> QED
    BY <2>2, <2>3, <1>4
<1> QED
  BY <1>6 DEF Min

\* A set of digests has finitely many bytes; more digests have no fewer.
LEMMA BytesFinite ==
    ASSUME NEW ds \in SUBSET Digest
    PROVE  IsFiniteSet(ds) /\ IsFiniteSet(BytesIn(ds)) /\ BytesOf(ds) \in Nat
<1> DEFINE Part(d) == {d} \X (1..EntryBytes[d])
           Parts == {Part(d) : d \in ds}
           f == [d \in ds |-> Part(d)]
<1>1. IsFiniteSet(ds)
  BY FS_Subset, DiskAssumption
<1>2. f \in Surjection(ds, Parts)
  BY DEF Surjection
<1>3. IsFiniteSet(Parts)
  <2> HIDE DEF f, Parts
  <2> QED
    BY <1>1, <1>2, FS_Surjection
<1>4. ASSUME NEW P \in Parts PROVE IsFiniteSet(P)
  <2>1. PICK d \in ds : P = Part(d)
    BY <1>4
  <2>2. IsFiniteSet({d}) /\ IsFiniteSet(1..EntryBytes[d])
    <3>1. EntryBytes[d] \in Nat
      BY DiskAssumption
    <3>2. 1 \in Int /\ EntryBytes[d] \in Int
      BY <3>1
    <3>3. IsFiniteSet(1..EntryBytes[d])
      BY <3>2, FS_Interval
    <3> QED
      BY <3>3, FS_Singleton
  <2>3. IsFiniteSet(Part(d))
    BY <2>2, FS_Product
  <2> QED
    BY <2>1, <2>3
<1>5. IsFiniteSet(UNION Parts)
  <2> HIDE DEF Parts
  <2> QED
    BY <1>3, <1>4, FS_UNION
<1> QED
  BY <1>1, <1>5, FS_CardinalityType DEF BytesIn, BytesOf

LEMMA BytesMonotone ==
    ASSUME NEW ds \in SUBSET Digest, NEW es \in SUBSET ds
    PROVE  BytesOf(es) <= BytesOf(ds) /\ Cardinality(es) <= Cardinality(ds)
<1>1. BytesIn(es) \subseteq BytesIn(ds)
  BY DEF BytesIn
<1> QED
  BY <1>1, BytesFinite, FS_Subset DEF BytesOf

\* One more digest adds at most one entry and at most its own bytes.
LEMMA BytesAdd ==
    ASSUME NEW ds \in SUBSET Digest, NEW d \in Digest
    PROVE  /\ BytesOf(ds \cup {d}) <= BytesOf(ds) + EntryBytes[d]
           /\ Cardinality(ds \cup {d}) <= Cardinality(ds) + 1
<1> DEFINE own == {d} \X (1..EntryBytes[d])
<1>1. BytesIn(ds \cup {d}) = BytesIn(ds) \cup own
  BY DEF BytesIn
<1>2. IsFiniteSet(own) /\ Cardinality(own) = EntryBytes[d]
  <2>1. EntryBytes[d] \in Nat
    BY DiskAssumption
  <2>2. IsFiniteSet({d}) /\ Cardinality({d}) = 1
    BY FS_Singleton
  <2>3. IsFiniteSet(1..EntryBytes[d]) /\ Cardinality(1..EntryBytes[d]) = EntryBytes[d]
    BY <2>1, FS_Interval
  <2>4. IsFiniteSet(own) /\ Cardinality(own) = Cardinality({d}) * Cardinality(1..EntryBytes[d])
    BY <2>2, <2>3, FS_Product
  <2> HIDE DEF own
  <2> QED
    BY <2>1, <2>2, <2>3, <2>4
<1>3. IsFiniteSet(BytesIn(ds))
  BY BytesFinite
<1>4. Cardinality(BytesIn(ds) \cup own)
        = Cardinality(BytesIn(ds)) + EntryBytes[d] - Cardinality(BytesIn(ds) \cap own)
  <2> HIDE DEF own
  <2> QED
    BY <1>2, <1>3, FS_Union
<1>5. Cardinality(BytesIn(ds) \cap own) \in Nat
  <2> HIDE DEF own
  <2> QED
    BY <1>3, FS_Intersection, FS_CardinalityType
<1>6. Cardinality(BytesIn(ds)) \in Nat /\ EntryBytes[d] \in Nat
  BY BytesFinite, DiskAssumption DEF BytesOf
<1>7. BytesOf(ds \cup {d}) <= BytesOf(ds) + EntryBytes[d]
  <2>1. BytesOf(ds \cup {d})
          = BytesOf(ds) + EntryBytes[d] - Cardinality(BytesIn(ds) \cap own)
    BY <1>1, <1>4, Zenon DEF BytesOf
  <2> HIDE DEF own
  <2> QED
    BY <2>1, <1>5, <1>6 DEF BytesOf
<1>8. Cardinality(ds \cup {d}) <= Cardinality(ds) + 1
  <2>1. IsFiniteSet(ds)
    BY BytesFinite
  <2>2. Cardinality(ds) \in Nat
    BY <2>1, FS_CardinalityType
  <2>3. Cardinality(ds \cup {d}) = IF d \in ds THEN Cardinality(ds) ELSE Cardinality(ds) + 1
    BY <2>1, FS_AddElement
  <2> QED
    BY <2>2, <2>3
<1> QED
  BY <1>7, <1>8

(***************************************************************************)
(* The inductive invariant                                                 *)
(***************************************************************************)

\* The entries the cache takes for its own.
Recognised == {d \in Digest : OwnedEntry(d)}

\* A manifest is a publication of the digest it lies under.
NamesInv == \A d \in Digest : manifest[d] \in Publisher => Wants[manifest[d]] = d

\* A lookup ends with its answer, and the manifest it read is a publication of
\* the digest it looks up.
ReaderInv ==
    \A r \in Reader :
        /\ pc[r] \in {"idle", "names", "payload", "done"}
        /\ pc[r] # "done" => answer[r] = "none"
        /\ pc[r] = "payload" => read[r] \in Publisher /\ Wants[read[r]] = Wants[r]

\* Entries are removed under the lock, an entry that is staged fits the cache,
\* and the holder of the lock that makes room has counted every entry.
LockInv ==
    \A p \in Publisher :
        /\ removing[p] # None => pc[p] \in {"clearing", "evicting"}
        /\ pc[p] \notin {"idle", "done", "crashed"} => EntryBytes[Wants[p]] <= MaxBytes
        /\ pc[p] = "evicting" => Recognised \subseteq owned[p]

DiskInv == DiskSound /\ NamesInv /\ ReaderInv /\ LockInv

\* The three marks are different from each other and from every publisher.
LEMMA Marks ==
    /\ None \notin Publisher /\ Flipped \notin Publisher /\ Truncated \notin Publisher
    /\ None # Flipped /\ None # Truncated /\ Flipped # Truncated
<1>1. None \notin Publisher /\ Flipped \notin Publisher /\ Truncated \notin Publisher
  BY DiskAssumption
<1>2. ASSUME NEW a, NEW b PROVE Cardinality({a, b}) # 3
  <2>1. IsFiniteSet({a}) /\ Cardinality({a}) = 1
    BY FS_Singleton
  <2>2. Cardinality({a} \cup {b}) = IF b \in {a} THEN 1 ELSE 2
    BY <2>1, FS_AddElement
  <2>3. {a} \cup {b} = {a, b}
    OBVIOUS
  <2> QED
    BY <2>2, <2>3
<1>3. None # Flipped
  <2> SUFFICES ASSUME None = Flipped PROVE FALSE
    OBVIOUS
  <2>1. {None, Flipped, Truncated} = {None, Truncated}
    OBVIOUS
  <2> QED
    BY <2>1, <1>2, DiskAssumption
<1>4. None # Truncated
  <2> SUFFICES ASSUME None = Truncated PROVE FALSE
    OBVIOUS
  <2>1. {None, Flipped, Truncated} = {None, Flipped}
    OBVIOUS
  <2> QED
    BY <2>1, <1>2, DiskAssumption
<1>5. Flipped # Truncated
  <2> SUFFICES ASSUME Flipped = Truncated PROVE FALSE
    OBVIOUS
  <2>1. {None, Flipped, Truncated} = {None, Flipped}
    OBVIOUS
  <2> QED
    BY <2>1, <1>2, DiskAssumption
<1> QED
  BY <1>1, <1>3, <1>4, <1>5

\* An empty cache is within its limits.
LEMMA NothingCounted == Cardinality({}) = 0 /\ BytesOf({}) = 0
  BY FS_EmptySet DEF BytesOf, BytesIn

\* Nothing is stored, held or answered at the start.
LEMMA DiskInitInv == DiskInit => DiskInv
<1> SUFFICES ASSUME DiskInit PROVE DiskInv
  OBVIOUS
<1>1. Recognised = {}
  BY Marks DEF DiskInit, Recognised, OwnedEntry
<1>2. DiskTypeOK
  BY DiskAssumption, Marks DEF DiskInit, DiskTypeOK, StoredFile, Control, DiskAnswer
<1>3. OwnedWithinBounds
  BY <1>1, NothingCounted, DiskAssumption DEF OwnedWithinBounds, Recognised
<1>4. HitIsOnePublication /\ TempCleaned
  BY DiskAssumption DEF DiskInit, HitIsOnePublication, TempCleaned
<1>5. NamesInv /\ ReaderInv
  BY Marks DEF DiskInit, NamesInv, ReaderInv
<1>6. LockInv
  BY DEF DiskInit, LockInv
<1> QED
  BY <1>2, <1>3, <1>4, <1>5, <1>6 DEF DiskInv, DiskSound

\* Whether the directory stays within its limits depends on what is recognised:
\* a step that recognises nothing new keeps them.
LEMMA FewerRecognised ==
    ASSUME OwnedWithinBounds, Recognised' \subseteq Recognised
    PROVE  OwnedWithinBounds'
<1>1. Recognised \subseteq Digest /\ Recognised' \subseteq Digest
  BY DEF Recognised
<1>2. Cardinality(Recognised') <= Cardinality(Recognised)
      /\ BytesOf(Recognised') <= BytesOf(Recognised)
  BY <1>1, BytesMonotone
<1>3. Cardinality(Recognised) \in Nat /\ BytesOf(Recognised) \in Nat
      /\ Cardinality(Recognised') \in Nat /\ BytesOf(Recognised') \in Nat
  BY <1>1, BytesFinite, FS_CardinalityType
<1>4. Cardinality(Recognised) <= MaxEntries /\ BytesOf(Recognised) <= MaxBytes
  BY DEF OwnedWithinBounds, Recognised
<1>5. Cardinality(Recognised') <= MaxEntries /\ BytesOf(Recognised') <= MaxBytes
  BY <1>2, <1>3, <1>4, DiskAssumption
<1>6. (BytesOf(Recognised))' = BytesOf(Recognised')
  BY DEF BytesOf, BytesIn
<1> QED
  BY <1>5, <1>6 DEF OwnedWithinBounds, Recognised

(***************************************************************************)
(* The steps of a publisher                                                *)
(***************************************************************************)

\* Lookups do not notice a step that leaves their control, what they read and
\* their answers alone.
LEMMA ReadersUntouched ==
    ASSUME ReaderInv, HitIsOnePublication,
           \A r \in Reader : pc'[r] = pc[r] /\ read'[r] = read[r] /\ answer'[r] = answer[r]
    PROVE  ReaderInv' /\ HitIsOnePublication'
  BY DEF ReaderInv, HitIsOnePublication

\* A step that leaves the files alone keeps what is known about them.
LEMMA SameFiles ==
    ASSUME NamesInv, OwnedWithinBounds, UNCHANGED disk
    PROVE  Recognised' = Recognised /\ NamesInv' /\ OwnedWithinBounds'
<1>1. Recognised' = Recognised
  BY DEF disk, Recognised, OwnedEntry
<1>2. NamesInv'
  BY DEF disk, NamesInv
<1> QED
  BY <1>1, <1>2, FewerRecognised

\* Publishers and readers are different calls.
LEMMA Apart == \A p \in Publisher, r \in Reader : p # r
  BY DiskAssumption

LEMMA PublishStartInv == ASSUME DiskInv, NEW p \in Publisher, PublishStart(p) PROVE DiskInv'
<1> USE DEF DiskInv, DiskSound
<1>1. DiskTypeOK'
  BY DEF PublishStart, Goto, DiskTypeOK, disk, Control, DiskAnswer
<1>2. Recognised' = Recognised /\ NamesInv' /\ OwnedWithinBounds'
  BY SameFiles DEF PublishStart
<1>3. ReaderInv' /\ HitIsOnePublication'
  BY ReadersUntouched, Apart DEF PublishStart, Goto, DiskTypeOK
<1>4. TempCleaned'
  BY DEF PublishStart, Goto, DiskTypeOK, TempCleaned
<1>5. pc'[p] = "done" \/ EntryBytes[Wants[p]] <= MaxBytes
  <2>1. EntryBytes[Wants[p]] \in Nat /\ MaxBytes \in Nat
    BY DiskAssumption
  <2> QED
    BY <2>1 DEF PublishStart, Goto, DiskTypeOK
<1>6. pc'[p] # "evicting" /\ pc[p] = "idle" /\ \A q \in Publisher \ {p} : pc'[q] = pc[q]
  BY DEF PublishStart, Goto, DiskTypeOK
<1>7. LockInv'
  BY <1>2, <1>5, <1>6 DEF PublishStart, LockInv
<1> QED
  BY <1>1, <1>2, <1>3, <1>4, <1>7

LEMMA StageInv == ASSUME DiskInv, NEW p \in Publisher, Stage(p) PROVE DiskInv'
<1> USE DEF DiskInv, DiskSound
<1>1. DiskTypeOK'
  BY DEF Stage, Goto, DiskTypeOK, disk, Control
<1>2. Recognised' = Recognised /\ NamesInv' /\ OwnedWithinBounds'
  BY SameFiles DEF Stage
<1>3. ReaderInv' /\ HitIsOnePublication'
  BY ReadersUntouched, Apart DEF Stage, Goto, DiskTypeOK
<1>4. TempCleaned'
  BY DEF Stage, Goto, DiskTypeOK, TempCleaned
<1>5. LockInv'
  BY <1>2 DEF Stage, Goto, DiskTypeOK, LockInv
<1> QED
  BY <1>1, <1>2, <1>3, <1>4, <1>5

LEMMA LockMaintenanceInv ==
    ASSUME DiskInv, NEW p \in Publisher, LockMaintenance(p) PROVE DiskInv'
<1> USE DEF DiskInv, DiskSound
<1>1. DiskTypeOK'
  BY Marks DEF LockMaintenance, Flock, Goto, DiskTypeOK, disk, Control
<1>2. Recognised' = Recognised /\ NamesInv' /\ OwnedWithinBounds'
  BY SameFiles DEF LockMaintenance
<1>3. ReaderInv' /\ HitIsOnePublication'
  BY ReadersUntouched, Apart DEF LockMaintenance, Goto, DiskTypeOK
<1>4. TempCleaned'
  BY DEF LockMaintenance, Goto, DiskTypeOK, TempCleaned
<1>5. LockInv'
  BY <1>2 DEF LockMaintenance, Goto, DiskTypeOK, LockInv
<1> QED
  BY <1>1, <1>2, <1>3, <1>4, <1>5

\* However a publisher ends, its lock and its temporary directory are gone.
LEMMA FinishFacts ==
    ASSUME DiskInv, NEW p \in Publisher, NEW result \in {"published", "already_present", "aborted"},
           Finish(p, result), UNCHANGED <<owned, read, damage>>,
           dir' \subseteq Digest, manifest' \in [Digest -> StoredFile],
           ir' \in [Digest -> StoredFile]
    PROVE  /\ DiskTypeOK' /\ TempCleaned' /\ ReaderInv' /\ HitIsOnePublication'
           /\ pc'[p] = "done" /\ \A q \in Publisher \ {p} : pc'[q] = pc[q]
           /\ removing'[p] = None /\ \A q \in Publisher \ {p} : removing'[q] = removing[q]
<1> USE DEF DiskInv, DiskSound
<1>1. DiskTypeOK'
  <2>1. pc' \in [Publisher \cup Reader -> Control] /\ pc'[p] = "done"
        /\ \A q \in Publisher \ {p} : pc'[q] = pc[q]
    BY DEF Finish, Goto, DiskTypeOK, Control
  <2>2. lock' \in Publisher \cup {None} /\ lock' # p
        /\ \A q \in Publisher \ {p} : lock' = q <=> lock = q
    BY Marks DEF Finish, Unlock, DiskTypeOK
  <2>3. answer' \in [Publisher \cup Reader -> DiskAnswer]
        /\ temp' \in [Publisher -> {"none", "partial", "full"}]
        /\ removing' \in [Publisher -> Digest \cup {None}]
    BY DEF Finish, DropTemp, DiskTypeOK, DiskAnswer
  <2>4. \A q \in Publisher :
          lock' = q <=> pc'[q] \in {"inspecting", "clearing", "scanning", "evicting"}
    BY <2>1, <2>2 DEF DiskTypeOK
  <2> QED
    BY <2>1, <2>2, <2>3, <2>4 DEF DiskTypeOK
<1>2. TempCleaned'
  BY DEF Finish, Goto, DropTemp, DiskTypeOK, TempCleaned
<1>3. ReaderInv' /\ HitIsOnePublication'
  BY ReadersUntouched, Apart DEF Finish, Goto, DiskTypeOK
<1> QED
  BY <1>1, <1>2, <1>3 DEF Finish, Goto, DiskTypeOK

LEMMA InspectInv == ASSUME DiskInv, NEW p \in Publisher, Inspect(p) PROVE DiskInv'
<1> USE DEF DiskInv, DiskSound
<1>1. Recognised' = Recognised /\ NamesInv' /\ OwnedWithinBounds'
  BY SameFiles DEF Inspect
<1>2. CASE Finish(p, "already_present")
  <2>1. UNCHANGED <<disk, owned, read, damage>>
    BY DEF Inspect
  <2>2. dir' \subseteq Digest /\ manifest' \in [Digest -> StoredFile] /\ ir' \in [Digest -> StoredFile]
    BY <2>1 DEF disk, DiskTypeOK
  <2>3. /\ DiskTypeOK' /\ TempCleaned' /\ ReaderInv' /\ HitIsOnePublication'
        /\ pc'[p] = "done" /\ \A q \in Publisher \ {p} : pc'[q] = pc[q]
        /\ removing'[p] = None /\ \A q \in Publisher \ {p} : removing'[q] = removing[q]
    BY <1>2, <2>1, <2>2, FinishFacts
  <2>4. LockInv'
    BY <1>1, <2>1, <2>3 DEF LockInv
  <2> QED
    BY <1>1, <2>3, <2>4
<1>3. CASE ~Finish(p, "already_present")
  <2>1. DiskTypeOK'
    BY <1>3, DiskAssumption DEF Inspect, Goto, DiskTypeOK, disk, Control
  <2>2. ReaderInv' /\ HitIsOnePublication'
    BY <1>3, ReadersUntouched, Apart DEF Inspect, Goto, DiskTypeOK
  <2>3. TempCleaned'
    BY <1>3 DEF Inspect, Goto, DiskTypeOK, TempCleaned
  <2>4. LockInv'
    BY <1>1, <1>3 DEF Inspect, Goto, DiskTypeOK, LockInv
  <2> QED
    BY <1>1, <2>1, <2>2, <2>3, <2>4
<1> QED
  BY <1>2, <1>3

\* Only the holder of the lock removes files: nobody else counts, or removes,
\* at the same time.
LEMMA RemoverHoldsLock ==
    ASSUME DiskInv, NEW p \in Publisher, removing[p] # None
    PROVE  /\ removing[p] \in Digest
           /\ \A q \in Publisher \ {p} : pc[q] # "evicting" /\ removing[q] = None
<1>1. lock = p
  BY DEF DiskInv, DiskSound, LockInv, DiskTypeOK
<1> QED
  BY <1>1 DEF DiskInv, DiskSound, LockInv, DiskTypeOK

LEMMA UnlinkInv == ASSUME DiskInv, NEW p \in Publisher, Unlink(p) PROVE DiskInv'
<1> USE DEF DiskInv, DiskSound
<1>1. removing[p] \in Digest
  BY RemoverHoldsLock DEF Unlink
<1>2. DiskTypeOK'
  BY <1>1 DEF Unlink, DiskTypeOK, StoredFile
<1>3. \A d \in Digest : /\ manifest'[d] \in {manifest[d], None}
                        /\ ir'[d] \in {ir[d], None}
  BY <1>1 DEF Unlink, DiskTypeOK
<1>4. Recognised' \subseteq Recognised
  BY <1>3, Marks DEF Unlink, Recognised, OwnedEntry
<1>5. OwnedWithinBounds'
  BY <1>4, FewerRecognised
<1>6. NamesInv'
  BY <1>3, Marks DEF NamesInv
<1>7. ReaderInv' /\ HitIsOnePublication'
  BY ReadersUntouched DEF Unlink
<1>8. TempCleaned'
  BY DEF Unlink, TempCleaned
<1>9. LockInv'
  BY <1>4 DEF Unlink, LockInv
<1> QED
  BY <1>2, <1>5, <1>6, <1>7, <1>8, <1>9

LEMMA RemoveDirectoryInv ==
    ASSUME DiskInv, NEW p \in Publisher, RemoveDirectory(p) PROVE DiskInv'
<1> USE DEF DiskInv, DiskSound
<1>1. removing[p] \in Digest /\ \A q \in Publisher \ {p} : pc[q] # "evicting"
  BY RemoverHoldsLock DEF RemoveDirectory
<1>2. pc[p] \in {"clearing", "evicting"}
  BY DEF RemoveDirectory, LockInv
<1>3. DiskTypeOK'
  BY <1>1, <1>2 DEF RemoveDirectory, Goto, DiskTypeOK, Control
<1>4. Recognised' = Recognised \ {removing[p]}
  BY DEF RemoveDirectory, Recognised, OwnedEntry
<1>5. OwnedWithinBounds'
  BY <1>4, FewerRecognised
<1>6. NamesInv'
  BY DEF RemoveDirectory, NamesInv
<1>7. ReaderInv' /\ HitIsOnePublication'
  BY ReadersUntouched, Apart DEF RemoveDirectory, Goto, DiskTypeOK
<1>8. TempCleaned'
  BY <1>2 DEF RemoveDirectory, Goto, DiskTypeOK, TempCleaned
<1>9. LockInv'
  BY <1>1, <1>2, <1>4 DEF RemoveDirectory, Goto, DiskTypeOK, LockInv
<1> QED
  BY <1>3, <1>5, <1>6, <1>7, <1>8, <1>9

LEMMA ScanInv == ASSUME DiskInv, NEW p \in Publisher, Scan(p) PROVE DiskInv'
<1> USE DEF DiskInv, DiskSound
<1>1. DiskTypeOK'
  BY DEF Scan, Goto, DiskTypeOK, disk, Control
<1>2. Recognised' = Recognised /\ NamesInv' /\ OwnedWithinBounds'
  BY SameFiles DEF Scan
<1>3. ReaderInv' /\ HitIsOnePublication'
  BY ReadersUntouched, Apart DEF Scan, Goto, DiskTypeOK
<1>4. TempCleaned'
  BY DEF Scan, Goto, DiskTypeOK, TempCleaned
<1>5. owned'[p] = Recognised
  BY DEF Scan, DiskTypeOK, Recognised
<1>6. LockInv'
  BY <1>2, <1>5 DEF Scan, Goto, DiskTypeOK, LockInv
<1> QED
  BY <1>1, <1>2, <1>3, <1>4, <1>6

\* There is something to evict: the entry that comes fits into an empty cache.
LEMMA EvictInv == ASSUME DiskInv, NEW p \in Publisher, Evict(p) PROVE DiskInv'
<1> USE DEF DiskInv, DiskSound
<1>1. owned[p] # {}
  <2> SUFFICES ASSUME owned[p] = {} PROVE FALSE
    OBVIOUS
  <2>1. EntryBytes[Wants[p]] \in Nat /\ EntryBytes[Wants[p]] <= MaxBytes
    BY DiskAssumption DEF Evict, LockInv
  <2> QED
    BY <2>1, NothingCounted, DiskAssumption DEF Evict, FitsBeside
<1>2. Min(owned[p]) \in Digest
  <2>1. owned[p] \subseteq Digest /\ owned[p] \subseteq Int /\ IsFiniteSet(owned[p])
    BY BytesFinite, DiskAssumption DEF DiskTypeOK
  <2> QED
    BY <1>1, <2>1, FiniteMin
<1>3. DiskTypeOK'
  BY <1>2 DEF Evict, DiskTypeOK, disk
<1>4. Recognised' = Recognised /\ NamesInv' /\ OwnedWithinBounds'
  BY SameFiles DEF Evict
<1>5. ReaderInv' /\ HitIsOnePublication'
  BY ReadersUntouched DEF Evict
<1>6. TempCleaned'
  BY DEF Evict, TempCleaned
<1>7. LockInv'
  BY <1>4 DEF Evict, DiskTypeOK, LockInv
<1> QED
  BY <1>3, <1>4, <1>5, <1>6, <1>7

\* The rename: what was counted under the lock covers what is recognised now,
\* and the new entry fits beside it.
LEMMA RenameInv == ASSUME DiskInv, NEW p \in Publisher, Rename(p) PROVE DiskInv'
<1> USE DEF DiskInv, DiskSound
<1> DEFINE d == Wants[p]
<1>1. d \in Digest
  BY DiskAssumption
<1>2. dir' \subseteq Digest /\ manifest' \in [Digest -> StoredFile] /\ ir' \in [Digest -> StoredFile]
  BY <1>1 DEF Rename, DiskTypeOK, StoredFile
<1>3. /\ DiskTypeOK' /\ TempCleaned' /\ ReaderInv' /\ HitIsOnePublication'
      /\ pc'[p] = "done" /\ \A q \in Publisher \ {p} : pc'[q] = pc[q]
      /\ removing'[p] = None /\ \A q \in Publisher \ {p} : removing'[q] = removing[q]
  <2>1. PICK result \in {"published", "aborted"} : Finish(p, result)
    BY DEF Rename
  <2>2. UNCHANGED <<owned, read, damage>>
    BY DEF Rename
  <2> QED
    BY <1>2, <2>1, <2>2, FinishFacts
<1>4. \A e \in Digest \ {d} : /\ manifest'[e] = manifest[e] /\ ir'[e] = ir[e]
                              /\ e \in dir' <=> e \in dir
  BY <1>1 DEF Rename, DiskTypeOK
<1>5. manifest'[d] = p
  BY <1>1 DEF Rename, DiskTypeOK
<1>6. Recognised' \subseteq owned[p] \cup {d}
  BY <1>4 DEF Rename, Recognised, OwnedEntry, LockInv
<1>7. OwnedWithinBounds'
  <2>1. owned[p] \subseteq Digest
    BY DEF DiskTypeOK
  <2>2. /\ Cardinality(Recognised') <= Cardinality(owned[p] \cup {d})
        /\ BytesOf(Recognised') <= BytesOf(owned[p] \cup {d})
    BY <1>1, <1>6, <2>1, BytesMonotone
  <2>3. /\ Cardinality(owned[p] \cup {d}) <= Cardinality(owned[p]) + 1
        /\ BytesOf(owned[p] \cup {d}) <= BytesOf(owned[p]) + EntryBytes[d]
    BY <1>1, <2>1, BytesAdd
  <2>4. Cardinality(owned[p]) + 1 <= MaxEntries /\ BytesOf(owned[p]) + EntryBytes[d] <= MaxBytes
    BY DEF Rename, FitsBeside
  <2>5. /\ Cardinality(Recognised') \in Nat /\ BytesOf(Recognised') \in Nat
        /\ Cardinality(owned[p]) \in Nat /\ BytesOf(owned[p]) \in Nat
        /\ Cardinality(owned[p] \cup {d}) \in Nat /\ BytesOf(owned[p] \cup {d}) \in Nat
    <3>1. Recognised' \subseteq Digest /\ owned[p] \cup {d} \subseteq Digest
      BY <1>1, <2>1 DEF Recognised
    <3> HIDE DEF d
    <3> QED
      BY <2>1, <3>1, BytesFinite, FS_CardinalityType
  <2>6. EntryBytes[d] \in Nat /\ MaxEntries \in Nat /\ MaxBytes \in Nat
    BY <1>1, DiskAssumption
  <2>7. Cardinality(Recognised') <= MaxEntries /\ BytesOf(Recognised') <= MaxBytes
    <3> HIDE DEF d
    <3> QED
      BY <2>2, <2>3, <2>4, <2>5, <2>6
  <2>8. (BytesOf(Recognised))' = BytesOf(Recognised')
    BY DEF BytesOf, BytesIn
  <2> QED
    BY <2>7, <2>8 DEF OwnedWithinBounds, Recognised
<1>8. NamesInv'
  BY <1>4, <1>5 DEF NamesInv
<1>9. \A q \in Publisher \ {p} : pc[q] # "evicting"
  BY DEF Rename, DiskTypeOK
<1>10. LockInv'
  BY <1>3, <1>9 DEF Rename, LockInv
<1> QED
  BY <1>3, <1>7, <1>8, <1>10

LEMMA AbortInv == ASSUME DiskInv, NEW p \in Publisher, Abort(p) PROVE DiskInv'
<1> USE DEF DiskInv, DiskSound
<1>1. Recognised' = Recognised /\ NamesInv' /\ OwnedWithinBounds'
  BY SameFiles DEF Abort
<1>2. dir' \subseteq Digest /\ manifest' \in [Digest -> StoredFile] /\ ir' \in [Digest -> StoredFile]
  BY DEF Abort, disk, DiskTypeOK
<1>3. /\ DiskTypeOK' /\ TempCleaned' /\ ReaderInv' /\ HitIsOnePublication'
      /\ pc'[p] = "done" /\ \A q \in Publisher \ {p} : pc'[q] = pc[q]
      /\ removing'[p] = None /\ \A q \in Publisher \ {p} : removing'[q] = removing[q]
  BY <1>2, FinishFacts DEF Abort
<1>4. LockInv'
  BY <1>1, <1>3 DEF Abort, LockInv
<1> QED
  BY <1>1, <1>3, <1>4

\* The kernel drops the lock of a process that dies; its files stay.
LEMMA CrashInv == ASSUME DiskInv, NEW p \in Publisher, Crash(p) PROVE DiskInv'
<1> USE DEF DiskInv, DiskSound
<1>1. Recognised' = Recognised /\ NamesInv' /\ OwnedWithinBounds'
  BY SameFiles DEF Crash
<1>2. /\ pc' \in [Publisher \cup Reader -> Control] /\ pc'[p] = "crashed"
      /\ \A q \in (Publisher \cup Reader) \ {p} : pc'[q] = pc[q]
  BY DEF Crash, Goto, DiskTypeOK, Control
<1>3. /\ lock' \in Publisher \cup {None} /\ lock' # p
      /\ \A q \in Publisher \ {p} : lock' = q <=> lock = q
  BY Marks DEF Crash, DiskTypeOK
<1>4. DiskTypeOK'
  <2>1. \A q \in Publisher :
          lock' = q <=> pc'[q] \in {"inspecting", "clearing", "scanning", "evicting"}
    BY <1>2, <1>3 DEF DiskTypeOK
  <2> QED
    BY <1>2, <1>3, <2>1 DEF Crash, disk, DiskTypeOK
<1>5. ReaderInv' /\ HitIsOnePublication'
  BY <1>2, ReadersUntouched, Apart DEF Crash
<1>6. TempCleaned'
  BY <1>2 DEF Crash, TempCleaned
<1>7. LockInv'
  BY <1>1, <1>2 DEF Crash, DiskTypeOK, LockInv
<1> QED
  BY <1>1, <1>4, <1>5, <1>6, <1>7

(***************************************************************************)
(* The steps of a lookup, and damage                                       *)
(***************************************************************************)

\* Publishers do not notice a lookup.
LEMMA PublishersUntouched ==
    ASSUME DiskInv, NEW r \in Reader, LookupStep(r)
    PROVE  DiskTypeOK' /\ NamesInv' /\ OwnedWithinBounds' /\ TempCleaned' /\ LockInv'
<1> USE DEF DiskInv, DiskSound
<1>1. UNCHANGED <<disk, temp, lock, owned, removing, damage>>
  BY DEF LookupStep, LookupNames, LookupManifest, LookupPayload
<1>2. Recognised' = Recognised /\ NamesInv' /\ OwnedWithinBounds'
  BY <1>1, SameFiles
<1>3. \A p \in Publisher : pc'[p] = pc[p]
  BY Apart DEF LookupStep, LookupNames, LookupManifest, LookupPayload, LookupAnswers, Goto, DiskTypeOK
<1>4. pc' \in [Publisher \cup Reader -> Control]
  BY DEF LookupStep, LookupNames, LookupManifest, LookupPayload, LookupAnswers, Goto, DiskTypeOK, Control
<1>5. answer' \in [Publisher \cup Reader -> DiskAnswer]
  <2>1. ir[Wants[r]] \in StoredFile
    BY DiskAssumption DEF DiskTypeOK
  <2> QED
    BY <2>1 DEF LookupStep, LookupNames, LookupManifest, LookupPayload, LookupAnswers, DiskTypeOK,
                DiskAnswer
<1>6. read' \in [Reader -> StoredFile]
  <2>1. manifest[Wants[r]] \in StoredFile
    BY DiskAssumption DEF DiskTypeOK
  <2> QED
    BY <2>1 DEF LookupStep, LookupNames, LookupManifest, LookupPayload, DiskTypeOK
<1>7. DiskTypeOK'
  BY <1>1, <1>3, <1>4, <1>5, <1>6 DEF disk, DiskTypeOK
<1>8. TempCleaned'
  BY <1>1, <1>3 DEF TempCleaned
<1>9. LockInv'
  BY <1>1, <1>2, <1>3 DEF LockInv
<1> QED
  BY <1>2, <1>7, <1>8, <1>9

\* A lookup answers with the payload its manifest describes, or misses.
LEMMA LookupInv == ASSUME DiskInv, NEW r \in Reader, LookupStep(r) PROVE DiskInv'
<1> USE DEF DiskInv, DiskSound
<1>1. DiskTypeOK' /\ NamesInv' /\ OwnedWithinBounds' /\ TempCleaned' /\ LockInv'
  BY PublishersUntouched
<1>2. Wants[r] \in Digest
  BY DiskAssumption
<1>3. ReaderInv'
  BY <1>2 DEF LookupStep, LookupNames, LookupManifest, LookupPayload, LookupAnswers, Goto, ManifestValid,
              DiskTypeOK, ReaderInv, NamesInv
<1>4. HitIsOnePublication'
  <2>1. CASE LookupNames(r)
    BY <2>1 DEF LookupNames, LookupAnswers, DiskTypeOK, HitIsOnePublication
  <2>2. CASE LookupManifest(r)
    BY <2>2 DEF LookupManifest, LookupAnswers, DiskTypeOK, HitIsOnePublication, ReaderInv
  <2>3. CASE LookupPayload(r)
    BY <2>3 DEF LookupPayload, LookupAnswers, Describes, DiskTypeOK, HitIsOnePublication, ReaderInv
  <2> QED
    BY <2>1, <2>2, <2>3 DEF LookupStep
<1> QED
  BY <1>1, <1>3, <1>4

\* Damage makes entries unrecognisable, never the other way round.
LEMMA DamageInv == ASSUME DiskInv, NEW d \in Digest, Damage(d) PROVE DiskInv'
<1> USE DEF DiskInv, DiskSound
<1>1. DiskTypeOK'
  BY DiskAssumption DEF Damage, DiskTypeOK, StoredFile
<1>2. \A e \in Digest : /\ manifest'[e] \in {manifest[e], Truncated}
                        /\ ir'[e] = ir[e] \/ (ir[e] \in Publisher /\ ir'[e] \in {Flipped, Truncated})
  BY DEF Damage, DiskTypeOK
<1>3. Recognised' \subseteq Recognised
  BY <1>2, Marks DEF Damage, Recognised, OwnedEntry
<1>4. OwnedWithinBounds'
  BY <1>3, FewerRecognised
<1>5. NamesInv'
  BY <1>2, Marks DEF NamesInv
<1>6. ReaderInv' /\ HitIsOnePublication'
  BY ReadersUntouched DEF Damage
<1>7. TempCleaned'
  BY DEF Damage, TempCleaned
<1>8. LockInv'
  BY <1>3 DEF Damage, LockInv
<1> QED
  BY <1>1, <1>4, <1>5, <1>6, <1>7, <1>8

(***************************************************************************)
(* The theorems                                                            *)
(***************************************************************************)

LEMMA DiskNextInv == DiskInv /\ [DiskNext]_diskVars => DiskInv'
<1> SUFFICES ASSUME DiskInv, [DiskNext]_diskVars PROVE DiskInv'
  OBVIOUS
<1>1. ASSUME NEW p \in Publisher, PublishStart(p) \/ PublishStep(p) \/ Abort(p) \/ Crash(p)
      PROVE  DiskInv'
  BY <1>1, PublishStartInv, StageInv, LockMaintenanceInv, InspectInv, UnlinkInv,
     RemoveDirectoryInv, ScanInv, EvictInv, RenameInv, AbortInv, CrashInv DEF PublishStep
<1>2. CASE UNCHANGED diskVars
  <2> USE DEF DiskInv, DiskSound
  <2>1. Recognised' = Recognised /\ NamesInv' /\ OwnedWithinBounds'
    BY <1>2, SameFiles DEF diskVars
  <2>2. DiskTypeOK' /\ TempCleaned'
    BY <1>2 DEF diskVars, disk, DiskTypeOK, TempCleaned
  <2>3. ReaderInv' /\ HitIsOnePublication'
    BY <1>2, ReadersUntouched DEF diskVars
  <2>4. LockInv'
    BY <1>2, <2>1 DEF diskVars, LockInv
  <2> QED
    BY <2>1, <2>2, <2>3, <2>4
<1> QED
  BY <1>1, <1>2, LookupInv, DamageInv DEF DiskNext

\* However publishers are interleaved, crash, fail and find damaged or torn
\* entries, and whatever a lookup reads between their steps: a hit is one whole
\* publication of the digest asked for, the entries the cache recognises are
\* within its limits on entries and bytes, and no publisher that returned leaves
\* a temporary directory.
THEOREM DiskIsSound == DiskSpec => []DiskSound
<1>1. DiskInv => DiskSound
  BY DEF DiskInv
<1> QED
  BY <1>1, DiskInitInv, DiskNextInv, PTL DEF DiskSpec

\* publish() reports success only with an intact entry of its digest in place:
\* the rename makes both files its own, and an entry it keeps was validated
\* under the lock.
LEMMA SuccessStep ==
    ASSUME DiskInv, [DiskNext]_diskVars, NEW p \in Publisher,
           answer[p] = "none", answer'[p] \in {"published", "already_present"}
    PROVE  /\ Wants[p] \in dir'
           /\ manifest'[Wants[p]] \in Publisher
           /\ ir'[Wants[p]] = manifest'[Wants[p]]
<1> USE DEF DiskInv, DiskSound
<1>0. Wants[p] \in Digest
  BY DiskAssumption
<1>1. CASE UNCHANGED diskVars
  BY <1>1 DEF diskVars
<1>2. ASSUME NEW q \in Publisher, PublishStart(q) \/ Stage(q) \/ LockMaintenance(q) \/ Unlink(q)
                                  \/ RemoveDirectory(q) \/ Scan(q) \/ Evict(q) \/ Abort(q) \/ Crash(q)
      PROVE  FALSE
  BY <1>2 DEF PublishStart, Stage, LockMaintenance, Unlink, RemoveDirectory, Scan, Evict,
              Abort, Crash, Finish, DiskTypeOK
<1>3. ASSUME NEW q \in Publisher, Inspect(q)
      PROVE  q = p /\ Intact(Wants[p]) /\ UNCHANGED disk
  BY <1>3 DEF Inspect, Finish, DiskTypeOK
<1>4. ASSUME NEW q \in Publisher, Rename(q)
      PROVE  q = p
  BY <1>4 DEF Rename, Finish, DiskTypeOK
<1>5. ASSUME NEW r \in Reader, LookupStep(r)
      PROVE  FALSE
  BY <1>5, Apart DEF LookupStep, LookupNames, LookupManifest, LookupPayload, LookupAnswers, DiskTypeOK
<1>6. ASSUME NEW d \in Digest, Damage(d)
      PROVE  FALSE
  BY <1>6 DEF Damage
<1>7. CASE Inspect(p)
  BY <1>3, <1>7 DEF Intact, Describes, ManifestValid, disk
<1>8. CASE Rename(p)
  BY <1>0, <1>8 DEF Rename, DiskTypeOK
<1> QED
  BY <1>1, <1>2, <1>3, <1>4, <1>5, <1>6, <1>7, <1>8 DEF DiskNext, PublishStep

\* When publish() reports success there is an intact entry of its digest,
\* whatever torn or damaged entry it found there.
THEOREM PublishIsIntact == DiskSpec => SuccessIsIntact
<1> DEFINE A == \A p \in Publisher :
          answer[p] = "none" /\ answer'[p] \in {"published", "already_present"}
              => /\ Wants[p] \in dir'
                 /\ manifest'[Wants[p]] \in Publisher
                 /\ ir'[Wants[p]] = manifest'[Wants[p]]
<1>1. DiskInv /\ [DiskNext]_diskVars => [A]_diskVars
  BY SuccessStep
<1>2. [][A]_diskVars => SuccessIsIntact
  BY PTL DEF SuccessIsIntact
<1> HIDE DEF A
<1> QED
  BY <1>1, <1>2, DiskInitInv, DiskNextInv, PTL DEF DiskSpec

=================================================================================

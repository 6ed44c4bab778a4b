---------------------------- MODULE MCSourceGraph ----------------------------
(***************************************************************************)
(* The source graph under two kinds of load: three queries, or one query   *)
(* and three semantic scans that contend for the cold-build admission.     *)
(*                                                                         *)
(* The scope of "wide" contains that of "narrow", both with complete keys; *)
(* "loose" has an incomplete key.  The workloads of the queries cover      *)
(* coalescing, scope reuse, eviction, equal artifacts under different      *)
(* timeouts and handoffs.  The result cache of the scans is reduced from   *)
(* four entries to one, so that two deep scans of different keys are       *)
(* enough to fill it.                                                      *)
(***************************************************************************)
EXTENDS SemanticScanRuntime

CONSTANTS r1, r2, r3, s1, s2, s3

VARIABLE present    \* the callers that come

MCArtifact   == {"wide", "narrow", "loose"}
MCTimeout    == {"short", "long"}
MCCall       == MCArtifact \X MCTimeout
MCReusable   == {"wide", "narrow"}
MCEligible   == {"loose"}
MCCovers     == {<<"wide", "narrow">>}
MCCacheBytes == [a \in MCArtifact |-> IF a = "wide" THEN 2 ELSE 1]

Calls(a, b, c) ==
    [r \in Request |-> CASE r = r1 -> a [] r = r2 -> b [] r = r3 -> c]

Wide == <<"wide", "short">>
Narrow == <<"narrow", "short">>
MCWorkload ==
    LET loose == <<"loose", "short">>
    IN  { Calls(Narrow, Narrow, Narrow),
          Calls(Wide, Narrow, Narrow),
          Calls(Narrow, Wide, Narrow),
          Calls(Narrow, <<"narrow", "long">>, Narrow),
          Calls(loose, loose, loose),
          Calls(loose, Wide, loose) }

MCScanBytes  == [k \in ScanKey |-> 1]
ScanOf(k, d, a) == [key |-> k, deep |-> d, ask |-> a]
Scans(a, b, c) ==
    [s \in OtherBuild |-> CASE s = s1 -> a [] s = s2 -> b [] s = s3 -> c]
LateAuto == Scans(ScanOf("k1", TRUE, "wide"), ScanOf("k2", TRUE, None),
                  ScanOf("k1", FALSE, "narrow"))
LateDeep == Scans(ScanOf("k1", TRUE, "wide"), ScanOf("k2", TRUE, None),
                  ScanOf("k1", TRUE, "wide"))
MCScanPlan == {LateAuto, LateDeep}

MCInit ==
    /\ ScanInit
    /\ \/ present = Request /\ plan = LateAuto
       \/ /\ present = {r1} \cup OtherBuild
          /\ call = Calls(IF plan = LateAuto THEN Wide ELSE Narrow, Narrow, Narrow)

MCNext ==
    /\ UNCHANGED present
    /\ ScanNext
    /\ \A r \in Request \ present : pc'[r] = "idle"
    /\ \A s \in OtherBuild \ present : spc'[s] = "idle"

MCSpec == MCInit /\ [][MCNext]_<<present, allVars>> /\ ScanFairness

\* Every query that has started to wait and every scan returns, whatever holds the
\* cold-build admission (prepare, scan).
RequestsReturn == CallReturns /\ ScanReturnsEventually
===============================================================================

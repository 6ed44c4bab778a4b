-------------------------------- MODULE MCWorkers --------------------------------
(***************************************************************************)
(* Six components with threads, children, processes and jobs of their own  *)
(* that share no state: hierarchy recovery, the source-graph children, the *)
(* KDB builds, the FST readers, a source index and the disk cache.  A      *)
(* behaviour exercises one of them, chosen at the start, and leaves the    *)
(* others alone, so the state space is the sum of theirs.                  *)
(***************************************************************************)
EXTENDS HierarchyRecovery, SourceGraphSession, KdbBuilder, FstRequests, CompileSourceIndex,
        SourceGraphDiskCache

CONSTANTS c1, c2, c3, r1, r2, r3, q1, q2, q3, t1, p2, p4

VARIABLE focus

\* Two callers of one key beside one of another, under a limit of one flight.
MCSourceBytes == [f \in SourceFile |-> IF f = "f1" THEN 1 ELSE 0]
RecoveryLoad  == {[c \in RecoveryCaller |-> IF c = c1 THEN "k2" ELSE "k1"]}

\* A child used twice and then needed for another context; a child beside a
\* one-shot build.
SessionLoad ==
    { [r \in SgRequest |-> IF r = r3 THEN "B" ELSE "A"],
      [r \in SgRequest |-> CASE r = r1 -> "A" [] r = r2 -> SgOneShot [] r = r3 -> NoRequest] }

KdbLoad == [KdbCall -> BOOLEAN]

\* A request that comes back to a file, one of other files, one that shares.
FstLoad ==
    { [r \in FstRequest |-> CASE r = q1 -> <<"a", "b", "a">> [] r = q2 -> <<"c", "d">>
                              [] r = q3 -> <<"a">>] }

MCIxFiles == <<"g1", "g2">>

\* A file that grows until it only fits alone, beside one whose decoded text is
\* larger than its bytes.
MCIxSize     == [f \in IxPaths |-> [v \in 1..IxMaxVersion |-> IF f = "g1" /\ v = 2 THEN 4 ELSE 1]]
MCIxResident == [f \in IxPaths |-> [v \in 1..IxMaxVersion |-> IF f = "g1" /\ v = 2 THEN 4 ELSE 2]]
IndexLoad    == {[f \in IxPaths |-> 1], [f \in IxPaths |-> IF f = "g1" THEN 1 ELSE 0]}
IndexWants   == {[t \in IxReader |-> "g1"], [t \in IxReader |-> IF t = t1 THEN "g1" ELSE "g2"]}

\* Digest d takes d bytes and the cache holds two: publishing digest 2 evicts digest
\* 1 and the other way round, and digest 3 is larger than the cache.
MCWants == [p \in Publisher \cup Reader |-> CASE p = p2 -> 2 [] p = p4 -> 3 [] OTHER -> 1]
MCEntryBytes == [d \in Digest |-> d]

One(workload) == {CHOOSE w \in workload : TRUE}
Load(name, workload) == IF focus = name THEN workload ELSE One(workload)

WorkersInit ==
    /\ focus \in {"recovery", "session", "kdb", "fst", "index", "disk"}
    /\ RecoveryInit(Load("recovery", RecoveryLoad))
    /\ SessionInit(Load("session", SessionLoad))
    /\ KdbInit(Load("kdb", KdbLoad))
    /\ FstInit(Load("fst", FstLoad))
    /\ IndexInit(Load("index", IndexLoad), Load("index", IndexWants))
    /\ DiskInit

WorkersNext ==
    /\ UNCHANGED focus
    /\ \/ focus = "recovery" /\ RecoveryNext /\ UNCHANGED <<sessionVars, kdbVars, fstVars, indexVars, diskVars>>
       \/ focus = "session" /\ SessionNext /\ UNCHANGED <<recoveryVars, kdbVars, fstVars, indexVars, diskVars>>
       \/ focus = "kdb" /\ KdbNext /\ UNCHANGED <<recoveryVars, sessionVars, fstVars, indexVars, diskVars>>
       \/ focus = "fst" /\ FstNext /\ UNCHANGED <<recoveryVars, sessionVars, kdbVars, indexVars, diskVars>>
       \/ focus = "index" /\ IndexNext /\ UNCHANGED <<recoveryVars, sessionVars, kdbVars, fstVars, diskVars>>
       \/ focus = "disk" /\ DiskNext /\ UNCHANGED <<recoveryVars, sessionVars, kdbVars, fstVars, indexVars>>

workersVars == <<focus, recoveryVars, sessionVars, kdbVars, fstVars, indexVars, diskVars>>

\* Some event loop, thread or timer takes its next step.
WorkersProgress ==
    /\ UNCHANGED focus
    /\ \/ focus = "recovery" /\ RecoveryProgress /\ UNCHANGED <<sessionVars, kdbVars, fstVars, indexVars, diskVars>>
       \/ focus = "session" /\ SessionProgress /\ UNCHANGED <<recoveryVars, kdbVars, fstVars, indexVars, diskVars>>
       \/ focus = "disk" /\ DiskProgress /\ UNCHANGED <<recoveryVars, sessionVars, kdbVars, fstVars, indexVars>>

\* Every recovery and every source-graph request is answered, whoever holds the
\* admission and whoever leaves; no idle child stays for good; and every publisher
\* ends, whoever crashed or failed while it held the maintenance lock.
WorkersBusy == RecoveryBusy \/ SessionBusy \/ DiskBusy
WorkersAnswer == WorkersBusy ~> ~WorkersBusy

WorkersSpec == WorkersInit /\ [][WorkersNext]_workersVars /\ WF_workersVars(WorkersProgress)
==================================================================================

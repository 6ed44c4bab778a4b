------------------------------ MODULE ServerSession ------------------------------
(***************************************************************************)
(* The session of one server process: src/server.py, with the handle       *)
(* registry of src/src/hierarchy_handles.py.                               *)
(*                                                                         *)
(* Handlers run on one event loop and interleave at their awaits, so a     *)
(* call that began for one case may land after get_sim_paths has moved the *)
(* session to another.  A handler without an await is one step.  A         *)
(* compile log's fingerprint and its handle are its case, supplements and  *)
(* version.  A result and its provenance are always written and dropped    *)
(* together and are one record: the case it is of, the version its         *)
(* provenance recorded, the version it was really computed from.           *)
(***************************************************************************)
EXTENDS SessionStores

CONSTANT SessionCall    \* tool calls that may be in flight

\* What a discovery saw; the session's record of its hierarchy, restored ones
\* (version 0) included; a result with its provenance, versions 0 where a tool
\* records none.
Discovery == [case : Case, ver : 1..LogVersions]
HierRecord == [log : Case \cup {Nothing}, supp : Supplement, ver : 0..LogVersions]
ResultRecord == [log : Case, supp : Supplement, ver : Nat, of : Nat]

\* None is no record.
ASSUME ServerAssumption == Nothing \notin Discovery \cup HierRecord \cup ResultRecord

VARIABLES
    simState,       \* _session_state["get_sim_paths"]
    found,          \* _result_cache["get_sim_paths"]: what discovery saw
    anchor,         \* _result_provenance["get_sim_paths"]
    hierState,      \* _session_state["build_tb_hierarchy"]
    results,        \* the other results of _result_cache with their provenance
    handles,        \* _handle_store: handle to the version its payload was parsed from
    calls           \* the calls in flight

gateVars == <<simState, found, anchor, hierState>>
sessionStateVars == <<simState, found, anchor, hierState, results, handles>>
serverVars == <<fileVars, logVars, contextVars, cursorVars, sessionStateVars, calls>>

Tool == {"hierarchy", "log", "scan", "sweep", "recommend"}
Idle == [tool |-> "none", case |-> Nothing, supp |-> NoSupplement, pc |-> "idle",
         began |-> 0, of |-> 0, ver |-> 0]

ServerInit ==
    /\ StoresInit
    /\ simState = Nothing /\ found = Nothing /\ anchor = Nothing /\ hierState = Nothing
    /\ results = [t \in Tool |-> Nothing]
    /\ handles = << >>
    /\ calls = [x \in SessionCall |-> Idle]

\* _DOWNSTREAM_DEPS, of the results that are kept.
Downstream(tool) ==
    CASE tool = "get_sim_paths" -> {"log", "sweep", "recommend"}
      [] tool \in {"hierarchy", "log", "scan"} -> {"recommend"}
Without(r, tools) == [t \in Tool |-> IF t \in tools THEN Nothing ELSE r[t]]

Handle(s) == <<s.log, s.supp, s.ver>>
NowHandle(c, supp) == <<c, supp, compileVer[c]>>

\* The session's and the result's record of the hierarchy.
HierarchyRecords == {hierState, results["hierarchy"]} \ {Nothing}

\* _hierarchy_snapshot_is_current: a record that has a fingerprint and whose log
\* still has it.
HierarchySnapshotIsCurrent ==
    \E s \in HierarchyRecords : s.ver # 0 /\ s.ver = compileVer[s.log]

(***************************************************************************)
(* Handlers without an await                                               *)
(***************************************************************************)
\* The results a discovery drops.
DroppedByDiscovery(switched, rebuilt) ==
    IF switched THEN Tool
    ELSE Downstream("get_sim_paths") \cup (IF rebuilt THEN {"hierarchy"} ELSE {})

\* get_sim_paths.  A new identity (case, compile log) clears everything the
\* simulation session keeps; otherwise the results downstream go, and the
\* hierarchy if its log has changed.
GetSimPaths(c) ==
    LET seen == [case |-> c, ver |-> compileVer[c]]
        switched == found \notin {Nothing, seen}
        rebuilt == hierState # Nothing /\ ~HierarchySnapshotIsCurrent
    IN  /\ results' = Without(results, DroppedByDiscovery(switched, rebuilt))
        /\ hierState' = IF switched \/ rebuilt THEN Nothing ELSE hierState
        /\ handles' = IF switched \/ rebuilt THEN << >> ELSE handles
        /\ IF switched THEN ForgetLogs /\ ForgetContexts /\ ForgetCursors
           ELSE UNCHANGED <<logVars, contextVars, cursorVars>>
        /\ found' = seen /\ simState' = c /\ anchor' = c
        /\ UNCHANGED <<fileVars, calls>>

\* The provenance of a parse: the log's stat before it was read.  (Mutant: after.)
ParseRecordLate(c, before, after) == [log |-> c, supp |-> NoSupplement, ver |-> after, of |-> before]
ParseRecord(c, before, after) == [log |-> c, supp |-> NoSupplement, ver |-> before, of |-> after]

\* parse_sim_log, of a log nobody writes meanwhile.
ParseSimLog(c) ==
    /\ simState # Nothing
    /\ CaptureParse(c, simEvents[c])
    /\ results' = [Without(results, Downstream("log")) EXCEPT
                      !["log"] = ParseRecord(c, simVer[c], simVer[c])]
    /\ UNCHANGED <<fileVars, contextVars, cursorVars, gateVars, handles, calls>>

\* parse_sim_log, of a log the simulator rewrites between the stat and the read.
ParseWhileRewritten(c, e) ==
    /\ simState # Nothing
    /\ Rerun(c, e)
    /\ CaptureParse(c, e)
    /\ results' = [Without(results, Downstream("log")) EXCEPT
                      !["log"] = ParseRecord(c, simVer[c], simVer'[c])]
    /\ UNCHANGED <<contextVars, cursorVars, gateVars, handles, calls>>

\* diff_sim_failure_results.
DiffSimFailureResults ==
    /\ simState # Nothing
    /\ \E c \in Case :
           \/ \E basePath \in BOOLEAN : DiffSamePath(c, basePath)
           \/ \E id \in Events : DiffSnapshot(c, id)
           \/ \E b \in Case \ {c} : DiffPaths(b, c)
    /\ UNCHANGED <<fileVars, contextVars, cursorVars, sessionStateVars, calls>>

\* build_kdb, once the KDB is there: the cached discovery is dropped.
BuildKdb ==
    /\ found # Nothing
    /\ found' = Nothing
    /\ UNCHANGED <<fileVars, logVars, contextVars, cursorVars, simState, anchor, hierState,
                   results, handles, calls>>

\* A handle tool called when the session has no hierarchy: the handle restores it,
\* without a fingerprint (_restore_build_tb_hierarchy_state_from_cache).
HandleTool(h) ==
    /\ h \in DOMAIN handles
    /\ hierState = Nothing
    /\ hierState' = [log |-> IF results["hierarchy"] = Nothing THEN Nothing
                             ELSE results["hierarchy"].log,
                     supp |-> NoSupplement, ver |-> 0]
    /\ UNCHANGED <<fileVars, logVars, contextVars, cursorVars, simState, found, anchor, results,
                   handles, calls>>

\* A recovered hierarchy is registered and no session state is touched
\* (_resolve_explicit_driver_context.build).
RegisterRecovered(c) ==
    /\ handles' = Put(handles, NowHandle(c, NoSupplement), compileVer[c])
    /\ UNCHANGED <<fileVars, logVars, contextVars, cursorVars, gateVars, results, calls>>

\* cursor_set, cursor_delete, and the analyses that register a cursor.
Cursors ==
    /\ \/ \E n \in CursorName, t \in CursorTime : SetCursor(n, t)
       \/ \E n \in CursorName : DeleteCursor(n)
       \/ \E s \in CursorSeed, t \in CursorTime : AutoSet(s, t)
    /\ UNCHANGED <<fileVars, logVars, contextVars, sessionStateVars, calls>>

(***************************************************************************)
(* Handlers with awaits                                                    *)
(***************************************************************************)
\* _resolve_hierarchy_context: the handles that may answer for a log now.
Servable(c) ==
    {h \in DOMAIN handles :
        /\ h[1] = c /\ h[3] = compileVer[c]
        /\ h[2] \in {NoSupplement} \cup {s.supp : s \in {r \in HierarchyRecords : r.log = c}}}

\* The log identity of a build is taken before anything is read.
Begin(x, tool, c, supp) ==
    /\ calls[x] = Idle
    /\ CASE tool = "recommend" -> simState # Nothing /\ hierState # Nothing
         [] tool = "bootstrap" -> Servable(c) = {} /\ ResolveContext(c, supp) = Nothing
         [] OTHER -> TRUE
    /\ calls' = [calls EXCEPT ![x] = [tool |-> tool, case |-> c, supp |-> supp,
                    pc |-> IF tool = "sweep" THEN "land" ELSE "read",
                    began |-> IF tool = "hierarchy" THEN compileVer[c] ELSE 0, of |-> 0, ver |-> 0]]
    /\ UNCHANGED <<fileVars, logVars, contextVars, cursorVars, sessionStateVars>>

CompileTools == {"hierarchy", "scan", "bootstrap"}

\* The worker thread reads the log.
Read(x) ==
    /\ calls[x].pc = "read"
    /\ LET c == calls[x].case
           compile == calls[x].tool \in CompileTools
       IN  calls' = [calls EXCEPT ![x].pc = IF compile THEN "fingerprint" ELSE "land",
                                  ![x].of = IF compile THEN compileVer[c] ELSE simVer[c]]
    /\ UNCHANGED <<fileVars, logVars, contextVars, cursorVars, sessionStateVars>>

\* The handler resumes, takes the log's fingerprint and caches the parsed context.
\* A bootstrap keeps nothing else.
Fingerprint(x) ==
    /\ calls[x].pc = "fingerprint"
    /\ LET f == calls[x]
           v == compileVer[f.case]
       IN  /\ CacheContext([log |-> f.case, supp |-> f.supp, ver |-> v, of |-> f.of])
           /\ calls' = [calls EXCEPT ![x] = IF f.tool = "bootstrap" THEN Idle
                                            ELSE [f EXCEPT !.pc = "land", !.ver = v]]
    /\ UNCHANGED <<fileVars, logVars, cursorVars, sessionStateVars>>

\* log_identity is what it was when the build began.  (Mutant: not compared.)
LogsNotCompared(f) == TRUE
LogsUnchanged(f) == f.began = compileVer[f.case]

\* build_tb_hierarchy publishes: session state, handle, result.
LandHierarchy(x) ==
    LET f == calls[x]
        record == [log |-> f.case, supp |-> f.supp, ver |-> f.ver, of |-> f.of]
    IN  /\ f.pc = "land" /\ f.tool = "hierarchy" /\ LogsUnchanged(f)
        /\ hierState' = [log |-> f.case, supp |-> f.supp, ver |-> f.ver]
        /\ handles' = Put(handles, Handle(record), f.of)
        /\ results' = [Without(results, Downstream("hierarchy")) EXCEPT !["hierarchy"] = record]
        /\ calls' = [calls EXCEPT ![x] = Idle]
        /\ UNCHANGED <<fileVars, logVars, contextVars, cursorVars, simState, found, anchor>>

\* scan_structural_risks, sweep_handshakes and
\* recommend_failure_debug_next_steps keep their results; the provenance of a
\* recommendation has the log's stat of now.
LandResult(x) ==
    LET f == calls[x]
        record == [log |-> f.case, supp |-> f.supp, of |-> f.of,
                   ver |-> IF f.tool = "recommend" THEN simVer[f.case] ELSE f.ver]
    IN  /\ f.pc = "land" /\ f.tool # "hierarchy"
        /\ results' = [Without(results, IF f.tool = "scan" THEN Downstream("scan") ELSE {})
                          EXCEPT ![f.tool] = record]
        /\ calls' = [calls EXCEPT ![x] = Idle]
        /\ UNCHANGED <<fileVars, logVars, contextVars, cursorVars, gateVars, handles>>

\* A call ends without a result: its logs changed, it hit a limit or a deadline, it
\* failed or its client left.
EndCall(x) ==
    /\ calls[x] # Idle
    /\ calls' = [calls EXCEPT ![x] = Idle]
    /\ UNCHANGED <<fileVars, logVars, contextVars, cursorVars, sessionStateVars>>

\* The compiler and the simulator at work.
CompilerWrites ==
    /\ \E c \in Case : Recompile(c)
    /\ UNCHANGED <<logVars, contextVars, cursorVars, sessionStateVars, calls>>
SimulatorWrites(e) ==
    /\ \E c \in Case : Rerun(c, e)
    /\ UNCHANGED <<logVars, contextVars, cursorVars, sessionStateVars, calls>>

CallTool == {"hierarchy", "scan", "sweep", "recommend", "bootstrap"}
ServerNext ==
    \/ \E c \in Case :
           \/ GetSimPaths(c)
           \/ ParseSimLog(c)
           \/ \E e \in Events : ParseWhileRewritten(c, e)
           \/ RegisterRecovered(c)
    \/ \E h \in DOMAIN handles : HandleTool(h)
    \/ \E x \in SessionCall :
           \/ \E tool \in CallTool, c \in Case, supp \in Supplement : Begin(x, tool, c, supp)
           \/ Read(x)
           \/ Fingerprint(x)
           \/ LandHierarchy(x)
           \/ LandResult(x)
           \/ EndCall(x)
    \/ DiffSimFailureResults \/ BuildKdb \/ Cursors
    \/ CompilerWrites
    \/ \E e \in Events : SimulatorWrites(e)

ServerSpec == ServerInit /\ [][ServerNext]_serverVars

(***************************************************************************)
(* get_diagnostic_snapshot: what a client that names its target is told.   *)
(***************************************************************************)
CaseMismatch(target) == found # Nothing /\ target \notin {Nothing, found.case}

\* _matches_anchor
MatchesAnchor(tool) ==
    LET r == results[tool]
    IN  /\ r.log = anchor
        /\ tool \in {"log", "recommend"} => r.ver = simVer[r.log]

\* The section is available and not stale, and its facts are promoted.
ShownFresh(tool, target) ==
    /\ ~CaseMismatch(target)
    /\ results[tool] # Nothing
    /\ anchor # Nothing
    /\ MatchesAnchor(tool)

Checked == Tool \ {"sweep"}

(***************************************************************************)
(* Properties                                                              *)
(***************************************************************************)
SessionTypeOK ==
    /\ compileVer \in [Case -> 1..LogVersions] /\ simVer \in [Case -> 1..SimVersions]
    /\ simEvents \in [Case -> Events]
    /\ simState \in Case \cup {Nothing} /\ anchor \in Case \cup {Nothing}
    /\ DOMAIN handles \subseteq Case \X Supplement \X (1..LogVersions)
    /\ Len(contexts) <= MaxContexts

\* A session that passes the hierarchy gate has a hierarchy behind it: the result
\* is kept as long as the session state is, and the handle the state names
\* resolves, whichever calls landed before and after a case switch.
GateBacked ==
    /\ results["hierarchy"] # Nothing => hierState # Nothing
    /\ (hierState # Nothing /\ hierState.ver # 0) => Handle(hierState) \in DOMAIN handles

\* A hierarchy handed to a connectivity query was parsed from the compile log that
\* is on disk now (_resolve_hierarchy_context), although logs are rewritten while
\* builds are under way.
HierarchyServed ==
    \A c \in Case : \A h \in Servable(c) : handles[h] = compileVer[c]

\* While a discovery is cached, a snapshot for a named target shows as fresh only
\* results of that case; a hierarchy no older than the discovered compile log; and
\* a log analysis of the very log on disk.  Without a cached discovery (after
\* build_kdb) the target is not compared, and the provenance of a recommendation
\* is taken after its analysis, so neither of them has this guarantee.
SnapshotHonest ==
    found # Nothing =>
        \A target \in Case : \A tool \in Checked :
            ShownFresh(tool, target) =>
                /\ results[tool].log = target
                /\ tool = "hierarchy" => results[tool].of >= found.ver
                /\ tool = "log" => results[tool].of = simVer[target]

\* Session state, results, handles and logs agree: a session that passes the
\* hierarchy gate has a hierarchy behind it (GateBacked), and a hierarchy that is
\* served is of the compile log on disk (HierarchyServed).
ServerSound == SessionTypeOK /\ GateBacked /\ HierarchyServed
==================================================================================

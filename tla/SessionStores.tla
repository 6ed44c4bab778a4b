------------------------------ MODULE SessionStores ------------------------------
(***************************************************************************)
(* The small stores a server process keeps between tool calls.             *)
(*   src/server.py           the parsed simulation logs (_log_snapshots,   *)
(*     _log_snapshot_history) a diff takes its baseline from; the parsed   *)
(*     compile contexts (_compile_context_cache);                          *)
(*   src/src/cursor_store.py the named times.                              *)
(*                                                                         *)
(* A case has one compile log and one simulation log, rewritten in place   *)
(* by the compiler and the simulator; a rewrite gives a new version (its   *)
(* modification time).  What a simulation log says is one of the sets of   *)
(* failure events in Events, and a snapshot is identified by its log and   *)
(* those events.  The simulator's name is the same for all logs of a case. *)
(***************************************************************************)
EXTENDS Naturals, FiniteSets, SequencesExt, FiniteSetsExt

CONSTANTS
    Case,           \* cases under one verification root
    LogVersions,    \* bound on the versions of a compile log
    SimVersions,    \* bound on the versions of a simulation log
    Events,         \* what a simulation log can report
    Supplement,     \* lists of supplementary compile logs, the empty one included
    NoSupplement,   \* the empty one
    MaxContexts,    \* _COMPILE_CONTEXT_CACHE_MAX
    CursorSeed,     \* what automatic cursor names are derived from
    CursorTime,     \* times of interest
    MaxSuffix,      \* bound on the numeric suffixes of automatic names
    Nothing         \* Python's None

\* A parsed context: its fingerprint, and the version of the log it was parsed from.
ContextRecord == [log : Case, supp : Supplement, ver : 1..LogVersions, of : 1..LogVersions]

\* A diff, or a parse with a baseline: what was known and last read before it.
DiffRecord == [base : Events \cup {Nothing}, new : Events, known : SUBSET Events,
               last : Events \cup {Nothing}, by : {"parse", "diff", "paths", "snapshot"}]

ASSUME StoresAssumption ==
    /\ Nothing \notin Case \cup Events \cup Supplement
    /\ NoSupplement \in Supplement /\ Events # {}
    /\ LogVersions \in Nat \ {0} /\ SimVersions \in Nat \ {0} /\ MaxContexts \in Nat \ {0} /\ MaxSuffix \in Nat
    /\ CursorTime \subseteq Nat
    \* None is no record.
    /\ Nothing \notin ContextRecord \cup DiffRecord

VARIABLES
    compileVer,     \* case: the version of its compile log
    simVer,         \* case: the version of its simulation log
    simEvents,      \* case: what that version reports
    history,        \* case: _log_snapshot_history, oldest first
    lastRead,       \* case: what the latest parse of its log found
    lastDiff,       \* the latest diff or parse with a baseline, and what was known before it
    contexts,       \* _compile_context_cache, in insertion order
    lastContext,    \* case: the context cached last
    cursors,        \* the cursor store: names to times
    handedOut       \* names an analysis returned, with their times, and nobody changed

logVars == <<history, lastRead, lastDiff>>
contextVars == <<contexts, lastContext>>
cursorVars == <<cursors, handedOut>>
fileVars == <<compileVer, simVer, simEvents>>

\* A dict after d[k] = v.
Put(d, k, v) == [x \in DOMAIN d \cup {k} |-> IF x = k THEN v ELSE d[x]]

StoresInit ==
    /\ compileVer = [c \in Case |-> 1]
    /\ simVer = [c \in Case |-> 1]
    /\ simEvents = [c \in Case |-> CHOOSE e \in Events : TRUE]
    /\ history = [c \in Case |-> <<>>]
    /\ lastRead = [c \in Case |-> Nothing]
    /\ lastDiff = Nothing
    /\ contexts = <<>>
    /\ lastContext = [c \in Case |-> Nothing]
    /\ cursors = << >>
    /\ handedOut = {}

(***************************************************************************)
(* The compiler and the simulator write their logs.                        *)
(***************************************************************************)
Recompile(c) ==
    /\ compileVer[c] < LogVersions
    /\ compileVer' = [compileVer EXCEPT ![c] = @ + 1]
    /\ UNCHANGED <<simVer, simEvents>>

Rerun(c, e) ==
    /\ simVer[c] < SimVersions
    /\ simVer' = [simVer EXCEPT ![c] = @ + 1]
    /\ simEvents' = [simEvents EXCEPT ![c] = e]
    /\ UNCHANGED compileVer

(***************************************************************************)
(* Log snapshots                                                           *)
(***************************************************************************)
\* _capture_log_snapshot: an identity already in the history keeps its place.
Captured(past, e) == IF Contains(past, e) THEN past ELSE Append(past, e)

\* _find_previous_log_snapshot: the last entry other than the excluded one.
\* (Mutant: the excluded one counts too.)
FindPreviousOrSame(past, exclude) == IF past = <<>> THEN Nothing ELSE Last(past)
FindPrevious(past, exclude) ==
    LET i == SelectLastInSeq(past, LAMBDA e : e # exclude)
    IN  IF i = 0 THEN Nothing ELSE past[i]

\* What parse_sim_log does with a log that reports e: capture, then look for the
\* previous snapshot.
CaptureParse(c, e) ==
    /\ history' = [history EXCEPT ![c] = Captured(@, e)]
    /\ lastRead' = [lastRead EXCEPT ![c] = e]
    /\ lastDiff' = [base |-> FindPrevious(history'[c], e), new |-> e,
                    known |-> ToSet(history[c]), last |-> lastRead[c], by |-> "parse"]

\* The baseline of a diff with new_log_path alone, or with the same path as
\* base_log_path: the previous snapshot; without one the path itself is read, or
\* the call fails.
DiffBase(past, e, basePath) ==
    LET previous == FindPrevious(past, Nothing)
    IN  IF previous = Nothing /\ basePath THEN e ELSE previous

\* diff_sim_failure_results for one path: the baseline first, then the new log.
DiffSamePath(c, basePath) ==
    LET e == simEvents[c]
        base == DiffBase(history[c], e, basePath)
    IN  /\ base # Nothing
        /\ history' = [history EXCEPT ![c] = Captured(@, e)]
        /\ lastRead' = [lastRead EXCEPT ![c] = e]
        /\ lastDiff' = [base |-> base, new |-> e, known |-> ToSet(history[c]),
                        last |-> lastRead[c],
                        by |-> IF history[c] = <<>> THEN "paths" ELSE "diff"]

\* diff_sim_failure_results for a snapshot id and a path.
DiffSnapshot(c, id) ==
    /\ Contains(history[c], id)
    /\ history' = [history EXCEPT ![c] = Captured(@, simEvents[c])]
    /\ lastRead' = [lastRead EXCEPT ![c] = simEvents[c]]
    /\ lastDiff' = [base |-> id, new |-> simEvents[c], known |-> ToSet(history[c]),
                    last |-> lastRead[c], by |-> "snapshot"]

\* diff_sim_failure_results for two paths: both logs are read and captured.
DiffPaths(b, c) ==
    /\ history' = [d \in Case |-> IF d \in {b, c} THEN Captured(history[d], simEvents[d]) ELSE history[d]]
    /\ lastRead' = [d \in Case |-> IF d \in {b, c} THEN simEvents[d] ELSE lastRead[d]]
    /\ lastDiff' = Nothing

ForgetLogs ==
    /\ history' = [c \in Case |-> <<>>]
    /\ lastRead' = [c \in Case |-> Nothing]
    /\ lastDiff' = Nothing

(***************************************************************************)
(* Compile contexts                                                        *)
(***************************************************************************)
SameSnapshot(r, s) == r.log = s.log /\ r.supp = s.supp /\ r.ver = s.ver

\* _cache_compile_context: a dict keyed by the fingerprint, so a key that is there
\* keeps its place; the oldest insertions leave.
Inserted(cache, r) ==
    IF \E i \in DOMAIN cache : SameSnapshot(cache[i], r)
    THEN [i \in DOMAIN cache |-> IF SameSnapshot(cache[i], r) THEN r ELSE cache[i]]
    ELSE Append(cache, r)
Evicted(cache) ==
    IF Len(cache) > MaxContexts THEN SubSeq(cache, Len(cache) - MaxContexts + 1, Len(cache))
    ELSE cache

CacheContext(r) ==
    /\ contexts' = Evicted(Inserted(contexts, r))
    /\ lastContext' = [lastContext EXCEPT ![r.log] = r]

\* _resolve_cached_compile_context: from the latest insertion back, the first
\* record of the log, of the supplements the request names, still current.
ContextMatches(r, c, supp) ==
    /\ r.log = c
    /\ supp # NoSupplement => r.supp = supp
    /\ r.ver = compileVer[c]
ResolveContext(c, supp) ==
    LET i == SelectLastInSeq(contexts, LAMBDA r : ContextMatches(r, c, supp))
    IN  IF i = 0 THEN Nothing ELSE contexts[i]

ForgetContexts ==
    /\ contexts' = <<>>
    /\ lastContext' = [c \in Case |-> Nothing]

(***************************************************************************)
(* Cursors                                                                 *)
(***************************************************************************)
\* A base name and its numeric suffix; 0 is the base name itself.
CursorName == CursorSeed \X (0..MaxSuffix)

\* CursorStore.set, with overwrite.
SetCursor(n, t) ==
    /\ cursors' = Put(cursors, n, t)
    /\ handedOut' = {h \in handedOut : h[1] # n}

\* CursorStore.auto_set: the first name that is free or already has this time.
AutoNames(seed, t) ==
    {k \in 0..MaxSuffix : <<seed, k>> \notin DOMAIN cursors \/ cursors[<<seed, k>>] = t}
AutoSet(seed, t) ==
    /\ AutoNames(seed, t) # {}
    /\ LET n == <<seed, Min(AutoNames(seed, t))>>
       IN  /\ cursors' = Put(cursors, n, t)
           /\ handedOut' = handedOut \cup {<<n, t>>}

DeleteCursor(n) ==
    /\ n \in DOMAIN cursors
    /\ cursors' = [m \in DOMAIN cursors \ {n} |-> cursors[m]]
    /\ handedOut' = {h \in handedOut : h[1] # n}

ForgetCursors == cursors' = << >> /\ handedOut' = {}

(***************************************************************************)
(* Properties                                                              *)
(***************************************************************************)
\* A diff is taken against something recorded before the new log was read, and a
\* parse never names its own snapshot as the previous one; the baseline is
\* resolved before the new log is captured (_resolve_base_events_for_diff).
BaselineEarlier ==
    lastDiff # Nothing =>
        /\ lastDiff.by \in {"diff", "snapshot"} => lastDiff.base \in lastDiff.known
        /\ lastDiff.by = "parse" => lastDiff.base \in (lastDiff.known \cup {Nothing}) \ {lastDiff.new}

\* "TraceWeave will use the previous parsed snapshot as baseline" (server.py): a diff
\* by path after a rerun whose result differs from what the previous parse found
\* reports a difference.
DiffSeesChange ==
    (lastDiff # Nothing /\ lastDiff.by = "diff" /\ lastDiff.last # lastDiff.new)
        => lastDiff.base # lastDiff.new

\* The context parsed last for a log stays available to a bootstrap that names its
\* supplements, whatever other logs were parsed before, until the log changes or
\* another log's contexts push it out: a build that is blocked afterwards still
\* seeds the bootstrap.
SeedKept ==
    \A c \in Case :
        LET r == lastContext[c]
        IN  (/\ r # Nothing
             /\ r.ver = compileVer[c]
             /\ \A d \in Case \ {c} : lastContext[d] = Nothing)
            => ResolveContext(c, r.supp) # Nothing

\* A name an analysis handed out keeps its time until somebody sets or deletes that
\* name or the session is cleared: later analyses never move it (auto_set).
CursorKept ==
    \A h \in handedOut : h[1] \in DOMAIN cursors /\ cursors[h[1]] = h[2]

\* Baselines, seeds and names stay what they were handed out as.
StoresSound == BaselineEarlier /\ SeedKept /\ CursorKept
==================================================================================

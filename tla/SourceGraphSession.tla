--------------------------- MODULE SourceGraphSession ---------------------------
(***************************************************************************)
(* The child interpreters of the source-graph runtime.                     *)
(*   src/src/source_graph_session_runtime.py  one persistent child per     *)
(*     semantic context, reused within its idle TTL;                       *)
(*   src/src/source_graph_session_worker.py   that child's loop;           *)
(*   src/src/source_graph_runtime.py  IsolatedSourceGraphProcessRunner,    *)
(*     a fresh child for a request whose context is not reusable;          *)
(*   src/src/source_graph_worker.py   that child.                          *)
(*                                                                         *)
(* A child is named after the request that started it, and a request's    *)
(* token after the request.  A child may die at any time, and the parent   *)
(* notices later; killing one (a bounded wait under the session lock) is   *)
(* one step.  The flight task that calls run() is never cancelled itself:  *)
(* cancellation arrives by its event.                                      *)
(***************************************************************************)
EXTENDS Naturals, Sequences, FiniteSets

CONSTANTS
    SgRequest,      \* calls of run()
    SgContext,      \* semantic context digests
    SgOneShot,      \* the context of a request that cannot share a child
    SgTTL,          \* idle_ttl_seconds (60 in the code)
    MaxFaults,      \* bound on child crashes and memory excesses
    NoRequest

ASSUME SessionAssumption ==
    /\ SgTTL \in Nat \ {0} /\ MaxFaults \in Nat
    /\ NoRequest \notin SgRequest /\ SgOneShot \notin SgContext

VARIABLES
    sg_ctx,         \* the workload: the context of each request made
    sg_pc,          \* request: see SgStage
    sg_result,
    sg_cancel,      \* requests whose cancel event is set
    sg_lock,        \* holder of _lock
    sg_proc,        \* _process
    sg_digest,      \* _context_digest
    sg_age,         \* time since _last_used, up to the TTL
    sg_reaper,      \* the idle task: of which child (_generation), and its sleep
    sg_child,       \* the child processes
    sg_faults

sgParent    == <<sg_lock, sg_proc, sg_digest, sg_age, sg_reaper>>
sessionVars == <<sg_ctx, sg_pc, sg_result, sg_cancel, sgParent, sg_child, sg_faults>>

SgStage == {"idle", "queued", "sending", "waiting", "acking", "one_shot", "grace",
            "done"}

\* up: running; known: its exit is known to the parent; code: its exit status
\* is zero; ctx: the semantic root it holds; job: the token it works on; resp:
\* its response file; acks: the lines on its standard output; big: over the
\* memory limit; temp: its directory exists.
NoChild == [up |-> FALSE, known |-> FALSE, code |-> TRUE, ctx |-> NoRequest,
            job |-> NoRequest, resp |-> [token |-> NoRequest, status |-> "none"],
            acks |-> <<>>, big |-> FALSE, temp |-> FALSE]
NewChild == [NoChild EXCEPT !.up = TRUE, !.temp = TRUE]
Asleep == "asleep"
NoReaper == [phase |-> "none", child |-> NoRequest, left |-> 0]

SessionInit(workload) ==
    /\ sg_ctx \in workload
    /\ sg_pc = [r \in SgRequest |-> IF sg_ctx[r] = NoRequest THEN "done" ELSE "idle"]
    /\ sg_result = [r \in SgRequest |-> "none"]
    /\ sg_cancel = {}
    /\ sg_lock = NoRequest /\ sg_proc = NoRequest /\ sg_digest = NoRequest
    /\ sg_age = 0
    /\ sg_reaper = NoReaper
    /\ sg_child = [r \in SgRequest |-> NoChild]
    /\ sg_faults = 0

SgGo(r, stage) ==
    sg_pc' = [sg_pc EXCEPT ![r] = stage] /\ UNCHANGED <<sg_result, sg_cancel>>
SgReturn(r, status) ==
    /\ sg_pc' = [sg_pc EXCEPT ![r] = "done"]
    /\ sg_result' = [sg_result EXCEPT ![r] = status]
    /\ sg_cancel' = sg_cancel \ {r}

\* The children after child k was killed, reaped and its directory removed.
\* (Mutant: the old child is only forgotten.)
LeaveRunning(children, k) == children
Without(children, k) == IF k = NoRequest THEN children ELSE [children EXCEPT ![k] = NoChild]

(***************************************************************************)
(* PersistentSourceGraphProcessRunner                                      *)
(***************************************************************************)
Active == sg_proc # NoRequest /\ ~sg_child[sg_proc].known

\* (Mutant: an idle child is kept whatever the request's context.)
KeepAnyContext(r) == sg_age < SgTTL
Reusable(r) == sg_age < SgTTL /\ sg_digest = sg_ctx[r]

SubmitSession(r) ==
    /\ sg_pc[r] = "idle"
    /\ sg_ctx[r] # SgOneShot
    /\ IF r \in sg_cancel THEN SgReturn(r, "cancelled") ELSE SgGo(r, "queued")
    /\ UNCHANGED <<sg_ctx, sgParent, sg_child, sg_faults>>

\* Under the lock: no idle task, no expired child, no child of another
\* context, and a child.  The old child's directory goes with its object.
EnterSession(r) ==
    /\ sg_pc[r] = "queued"
    /\ sg_lock = NoRequest
    /\ sg_reaper' = NoReaper
    /\ IF Active /\ Reusable(r)
       THEN /\ SgGo(r, "sending")
            /\ sg_lock' = r
            /\ UNCHANGED <<sg_proc, sg_digest, sg_child>>
       ELSE \/ /\ SgGo(r, "sending")                        \* _start_locked
               /\ sg_lock' = r
               /\ sg_child' = [Without(sg_child, sg_proc) EXCEPT ![r] = NewChild]
               /\ sg_proc' = r
               /\ sg_digest' = sg_ctx[r]
            \/ /\ SgReturn(r, "blocked")                    \* cannot start
               /\ sg_child' = IF Active THEN Without(sg_child, sg_proc) ELSE sg_child
               /\ sg_proc' = IF Active THEN NoRequest ELSE sg_proc
               /\ sg_digest' = IF Active THEN NoRequest ELSE sg_digest
               /\ UNCHANGED sg_lock
    /\ UNCHANGED <<sg_ctx, sg_age, sg_faults>>

\* run()'s end without a ready result.
Terminate ==
    /\ sg_reaper' = NoReaper
    /\ sg_child' = Without(sg_child, sg_proc)
    /\ sg_proc' = NoRequest
    /\ sg_digest' = NoRequest

FailSession(r, status) ==
    /\ SgReturn(r, status)
    /\ Terminate
    /\ sg_lock' = NoRequest
    /\ UNCHANGED <<sg_ctx, sg_age, sg_faults>>

\* The request file and the command line; a dead child breaks the pipe, or
\* the line is lost.
SendCommand(r) ==
    /\ sg_pc[r] = "sending"
    /\ \/ ~sg_child[sg_proc].up /\ FailSession(r, "crash")
       \/ /\ SgGo(r, "waiting")
          /\ sg_child' = [sg_child EXCEPT ![sg_proc].job = IF @ = NoRequest THEN r ELSE @]
          /\ UNCHANGED <<sg_ctx, sgParent, sg_faults>>

\* What the four watchers of a wait have to report.
Happened(r, k) ==
    (IF r \in sg_cancel THEN {"cancel"} ELSE {})
        \cup (IF sg_child[k].known THEN {"exit"} ELSE {})
        \cup (IF sg_child[k].big THEN {"rss"} ELSE {})
        \cup (IF sg_child[k].resp.token = r THEN {"response"} ELSE {})

\* asyncio.wait: some of what happened is done, or nothing before the timeout.
AwaitSession(r) ==
    /\ sg_pc[r] = "waiting"
    /\ \E done \in SUBSET Happened(r, sg_proc) :
          IF "cancel" \in done THEN FailSession(r, "cancelled")
          ELSE IF "rss" \in done THEN FailSession(r, "rss_limit")
          ELSE IF "response" \notin done
               THEN FailSession(r, IF "exit" \in done THEN "crash" ELSE "timed_out")
          ELSE /\ SgGo(r, "acking")
               /\ UNCHANGED <<sg_ctx, sgParent, sg_child, sg_faults>>

\* The acknowledgement line must carry the token, within a second; then the
\* response is decoded and its memory peak judged.
ReadAck(r) ==
    LET k == sg_child[sg_proc] IN
    /\ sg_pc[r] = "acking"
    /\ \/ k.acks = <<>> /\ FailSession(r, "no_ack")
       \/ k.acks # <<>> /\ Head(k.acks) # r /\ FailSession(r, "ack_mismatch")
       \/ /\ k.acks # <<>> /\ Head(k.acks) = r
          /\ \/ k.big /\ FailSession(r, "rss_limit")
             \/ k.resp.status # "ready" /\ FailSession(r, k.resp.status)
             \/ /\ k.resp.status = "ready" /\ ~k.big
                /\ SgReturn(r, "ready")
                /\ sg_age' = 0
                /\ sg_reaper' = [phase |-> Asleep, child |-> sg_proc, left |-> SgTTL]
                /\ sg_lock' = NoRequest
                /\ sg_child' = [sg_child EXCEPT ![sg_proc].acks = Tail(@),
                                                ![sg_proc].resp = NoChild.resp]
                /\ UNCHANGED <<sg_ctx, sg_proc, sg_digest, sg_faults>>

\* The idle task: it wakes no earlier than its time, and under the lock it
\* leaves a child that is not the one it was set for, or was used since.
WakeReaper ==
    /\ sg_reaper.phase = Asleep
    /\ sg_reaper.left = 0
    /\ sg_reaper' = [sg_reaper EXCEPT !.phase = "queued"]
    /\ UNCHANGED <<sg_ctx, sg_pc, sg_result, sg_cancel, sg_lock, sg_proc,
                   sg_digest, sg_age, sg_child, sg_faults>>

ReapIdle ==
    /\ sg_reaper.phase = "queued"
    /\ sg_lock = NoRequest
    /\ IF sg_reaper.child # sg_proc \/ ~Active
       THEN sg_reaper' = NoReaper /\ UNCHANGED <<sg_proc, sg_digest, sg_child>>
       ELSE IF sg_age >= SgTTL THEN Terminate
       ELSE /\ sg_reaper' = [sg_reaper EXCEPT !.phase = Asleep, !.left = SgTTL - sg_age]
            /\ UNCHANGED <<sg_proc, sg_digest, sg_child>>
    /\ UNCHANGED <<sg_ctx, sg_pc, sg_result, sg_cancel, sg_lock, sg_age, sg_faults>>

CloseSession ==
    /\ sg_lock = NoRequest
    /\ sg_proc # NoRequest
    /\ Terminate
    /\ UNCHANGED <<sg_ctx, sg_pc, sg_result, sg_cancel, sg_lock, sg_age, sg_faults>>

(***************************************************************************)
(* IsolatedSourceGraphProcessRunner                                        *)
(***************************************************************************)
SubmitOneShot(r) ==
    /\ sg_pc[r] = "idle"
    /\ sg_ctx[r] = SgOneShot
    /\ \/ r \in sg_cancel /\ SgReturn(r, "cancelled") /\ UNCHANGED sg_child
       \/ r \notin sg_cancel /\ SgReturn(r, "blocked") /\ UNCHANGED sg_child
       \/ /\ r \notin sg_cancel
          /\ SgGo(r, "one_shot")
          /\ sg_child' = [sg_child EXCEPT ![r] = [NewChild EXCEPT !.job = r]]
    /\ UNCHANGED <<sg_ctx, sgParent, sg_faults>>

\* Every return removes the directory; the process has been reaped by then.
EndOneShot(r, status) == SgReturn(r, status) /\ sg_child' = Without(sg_child, r)

\* A ready response with a failing exit status is not believed, unless the
\* parent itself ended a child that had already published.
DecodeOneShot(r, published) ==
    LET k == sg_child[r] IN
    EndOneShot(r,
        IF k.resp.token # r THEN (IF k.code THEN "invalid" ELSE "crash")
        ELSE IF k.resp.status = "ready" /\ ~k.code /\ ~published THEN "invalid"
        ELSE k.resp.status)

AwaitOneShot(r) ==
    /\ sg_pc[r] = "one_shot"
    /\ \E done \in SUBSET (Happened(r, r) \ {"rss"}) :
          LET ready == sg_child[r].resp.token = r IN
          IF "cancel" \in done THEN EndOneShot(r, "cancelled")
          ELSE IF "exit" \in done THEN DecodeOneShot(r, FALSE)
          ELSE IF ready THEN SgGo(r, "grace") /\ UNCHANGED sg_child
          ELSE EndOneShot(r, "timed_out")
    /\ UNCHANGED <<sg_ctx, sgParent, sg_faults>>

\* A second for the interpreter to end; cancellation stays authoritative.
GraceOneShot(r) ==
    /\ sg_pc[r] = "grace"
    /\ \E done \in SUBSET (Happened(r, r) \cap {"cancel", "exit"}) :
          IF "cancel" \in done THEN EndOneShot(r, "cancelled")
          ELSE DecodeOneShot(r, "exit" \notin done)
    /\ UNCHANGED <<sg_ctx, sgParent, sg_faults>>

(***************************************************************************)
(* The children                                                            *)
(***************************************************************************)

\* execute_session_build keeps one semantic root and refuses another context;
\* execute_build makes a root of its own.
BuildStatus(k, r) ==
    IF sg_ctx[r] # SgOneShot /\ sg_child[k].ctx \notin {NoRequest, sg_ctx[r]}
    THEN {"context_mismatch"} ELSE {"ready", "build_failed"}

ChildResponds(k) ==
    LET r == sg_child[k].job IN
    /\ sg_child[k].up /\ r # NoRequest
    /\ sg_child[k].resp.token = NoRequest
    /\ \E status \in BuildStatus(k, r) :
          sg_child' = [sg_child EXCEPT
              ![k].resp = [token |-> r, status |-> status],
              ![k].ctx = IF status = "ready" THEN sg_ctx[r] ELSE @,
              ![k].job = IF sg_ctx[r] = SgOneShot THEN r ELSE NoRequest]
    /\ UNCHANGED <<sg_ctx, sg_pc, sg_result, sg_cancel, sgParent, sg_faults>>

ChildAcknowledges(k) ==
    LET r == sg_child[k].resp.token IN
    /\ sg_child[k].up /\ r # NoRequest /\ sg_ctx[r] # SgOneShot
    /\ sg_child[k].acks = <<>>
    /\ sg_child' = [sg_child EXCEPT ![k].acks = Append(@, r)]
    /\ UNCHANGED <<sg_ctx, sg_pc, sg_result, sg_cancel, sgParent, sg_faults>>

OneShotExits(k) ==
    /\ sg_child[k].up /\ sg_child[k].job = k
    /\ sg_ctx[k] = SgOneShot /\ sg_child[k].resp.token = k
    /\ sg_child' = [sg_child EXCEPT ![k].up = FALSE,
                                    ![k].code = sg_child[k].resp.status = "ready"]
    /\ UNCHANGED <<sg_ctx, sg_pc, sg_result, sg_cancel, sgParent, sg_faults>>

ExitNoticed(k) ==
    /\ sg_child[k].temp /\ ~sg_child[k].up /\ ~sg_child[k].known
    /\ sg_child' = [sg_child EXCEPT ![k].known = TRUE]
    /\ UNCHANGED <<sg_ctx, sg_pc, sg_result, sg_cancel, sgParent, sg_faults>>

(***************************************************************************)
(* Faults, cancellation and time                                           *)
(***************************************************************************)
ChildFault(k) ==
    /\ sg_child[k].up /\ sg_faults < MaxFaults
    /\ sg_faults' = sg_faults + 1
    /\ \/ sg_child' = [sg_child EXCEPT ![k].up = FALSE, ![k].code = FALSE]
       \/ ~sg_child[k].big /\ sg_child' = [sg_child EXCEPT ![k].big = TRUE]
    /\ UNCHANGED <<sg_ctx, sg_pc, sg_result, sg_cancel, sgParent>>

SetCancel(r) ==
    /\ sg_pc[r] # "done" /\ r \notin sg_cancel
    /\ sg_cancel' = sg_cancel \cup {r}
    /\ UNCHANGED <<sg_ctx, sg_pc, sg_result, sgParent, sg_child, sg_faults>>

SessionTick ==
    /\ sg_proc # NoRequest
    /\ sg_age < SgTTL \/ sg_reaper.left > 0
    /\ sg_age' = IF sg_age < SgTTL THEN sg_age + 1 ELSE sg_age
    /\ sg_reaper' = [sg_reaper EXCEPT !.left = IF @ > 0 THEN @ - 1 ELSE 0]
    /\ UNCHANGED <<sg_ctx, sg_pc, sg_result, sg_cancel, sg_lock, sg_proc, sg_digest,
                   sg_child, sg_faults>>

SessionServes(r) ==
    \/ SubmitSession(r) \/ EnterSession(r) \/ SendCommand(r) \/ AwaitSession(r)
    \/ ReadAck(r) \/ SubmitOneShot(r) \/ AwaitOneShot(r) \/ GraceOneShot(r)
ChildSteps(k) ==
    ChildResponds(k) \/ ChildAcknowledges(k) \/ OneShotExits(k) \/ ExitNoticed(k)

SessionNext ==
    \/ \E r \in SgRequest :
          SessionServes(r) \/ ChildSteps(r) \/ ChildFault(r) \/ SetCancel(r)
    \/ WakeReaper \/ ReapIdle \/ CloseSession \/ SessionTick

SessionSpec ==
    SessionInit([SgRequest -> SgContext \cup {SgOneShot, NoRequest}]) /\ [][SessionNext]_sessionVars

SessionBusy ==
    Active \/ \E r \in SgRequest : sg_pc[r] \notin {"idle", "done"}
SessionProgress ==
    (\E r \in SgRequest : SessionServes(r)) \/ WakeReaper \/ ReapIdle \/ SessionTick

(***************************************************************************)
(* Properties                                                              *)
(***************************************************************************)

\* A request never pays for an earlier one: the reused child is never one of
\* another semantic context, and the line that acknowledges a request is never
\* left over from a request that failed, timed out or was cancelled before it.
SessionIsolation ==
    \A r \in SgRequest : sg_result[r] \notin {"context_mismatch", "ack_mismatch"}

\* No child outlives its use: outside a request, the only process and the
\* only directory left belong to the child that _process names, and the child
\* of a one-shot request is gone when run() returns.
NoOrphanChild ==
    \A k \in SgRequest :
        sg_child[k].up \/ sg_child[k].temp =>
            k = sg_proc \/ sg_pc[k] \in {"one_shot", "grace"}

\* A request's child is its own, and nothing of it stays behind.
SessionSound == SessionIsolation /\ NoOrphanChild
================================================================================

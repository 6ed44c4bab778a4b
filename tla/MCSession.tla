-------------------------------- MODULE MCSession --------------------------------
(***************************************************************************)
(* The server's session under six kinds of client, one per behaviour: one  *)
(* that builds hierarchies, one that builds them of merged logs, one whose *)
(* builds are blocked and that asks for bootstraps instead, one that       *)
(* collects results, one that compares runs and one that uses cursors.     *)
(* All of them switch cases.                                               *)
(***************************************************************************)
EXTENDS ServerSession, TLC

VARIABLE client

\* The calls with awaits a client makes, and how many at a time.
MCTools ==
    CASE client \in {"builds", "merges"} -> {"hierarchy"}
      [] client = "collects" -> {"scan", "recommend", "sweep"}
      [] client = "bootstraps" -> {"hierarchy", "bootstrap"}
      [] OTHER -> {}
MCInFlight == IF client = "builds" THEN Cardinality(SessionCall) ELSE 1
MCSupplements ==
    CASE client = "bootstraps" -> Supplement
      [] client = "merges" -> {NoSupplement, CHOOSE s \in Supplement : s # NoSupplement}
      [] OTHER -> {NoSupplement}

\* What reruns report matters to the client that compares them.
MCEvents == IF client = "compares" THEN Events ELSE {CHOOSE e \in Events : TRUE}
MCRerun == client = "compares" \/ \A c \in Case : simVer[c] < 2

\* A client that collects results already has a hierarchy of one case.
SessionInit ==
    /\ client \in {"builds", "merges", "bootstraps", "collects", "compares", "marks"}
    /\ IF client # "collects" THEN ServerInit
       ELSE /\ StoresInit
            /\ calls = [x \in SessionCall |-> Idle]
            /\ simState = Nothing /\ found = Nothing /\ anchor = Nothing
            /\ \E c \in Case :
                   LET record == [log |-> c, supp |-> NoSupplement, ver |-> 1]
                   IN  /\ hierState = record
                       /\ results = [t \in Tool |->
                             IF t = "hierarchy" THEN [log |-> c, supp |-> NoSupplement, ver |-> 1, of |-> 1] ELSE Nothing]
                       /\ handles = Put(<< >>, Handle(record), 1)

SessionNext ==
    /\ UNCHANGED client
    /\ \/ \E c \in Case : GetSimPaths(c)
       \/ \E x \in SessionCall :
              \/ /\ Cardinality({y \in SessionCall : calls[y] # Idle}) < MCInFlight
                 /\ \E tool \in MCTools, c \in Case :
                        \E supp \in MCSupplements : Begin(x, tool, c, supp)
              \/ Read(x)
              \/ Fingerprint(x)
              \/ client # "bootstraps" /\ LandHierarchy(x)
              \/ LandResult(x)
              \/ EndCall(x)
       \/ client \in {"builds", "merges", "bootstraps"} /\ CompilerWrites
       \/ client \in {"builds", "collects"} /\ BuildKdb
       \/ client = "builds" /\ \E c \in Case : RegisterRecovered(c)
       \/ client = "builds" /\ \E h \in DOMAIN handles : HandleTool(h)
       \/ client \in {"collects", "compares"} /\ MCRerun /\ \E e \in MCEvents : SimulatorWrites(e)
       \/ client \in {"collects", "compares"} /\ \E c \in Case : ParseSimLog(c)
       \/ client \in {"collects", "compares"} /\ MCRerun
              /\ \E c \in Case, e \in MCEvents : ParseWhileRewritten(c, e)
       \/ client = "compares" /\ DiffSimFailureResults
       \/ client = "marks" /\ Cursors

SessionSpec == SessionInit /\ [][SessionNext]_<<client, serverVars>>

SessionSymmetry == Permutations(Case) \cup Permutations(SessionCall)
==================================================================================

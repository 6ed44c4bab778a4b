------------------------------ MODULE WindowVerify ------------------------------
(***************************************************************************)
(* verify_window: one of five templates evaluated over the clock samples   *)
(* of a window, in which some values are unknown.  always, never and       *)
(* eventually look at one predicate; implication looks for a response      *)
(* within a number of cycles; sequence compares a value on consecutive     *)
(* accepted beats.                                                         *)
(*                                                                         *)
(* A predicate at a sample is the set of its terms' truth values, "t", "f" *)
(* or "u" (unknown).  A sample is [p, c, value, restart]: p is the         *)
(* predicate, antecedent or gate, c the consequent, value the tracked      *)
(* number (-1: unknown), restart the predicate that starts a new burst.    *)
(***************************************************************************)
EXTENDS Integers, Sequences, FiniteSets, FiniteSetsExt, SequencesExt

CONSTANT
    WvNumbers   \* what a tracked number that is unknown may have been

VARIABLES
    wvAsk,      \* mode, within, overlap, target, modulo (0: none), short (data truncated)
    wvSamples,
    wvI,        \* samples evaluated
    wvAcc, wvResult

verifyVars == <<wvAsk, wvSamples, wvI, wvAcc, wvResult>>

WvNone == -1

\* _eval_predicate: false if a term is false, else unknown if one is unknown.
EvalPredicate(terms) == IF "f" \in terms THEN "f" ELSE IF "u" \in terms THEN "u" ELSE "t"

VerifyInit(loads) ==
    /\ \E load \in loads : wvAsk = load.ask /\ wvSamples = load.samples
    /\ wvI = 0
    /\ wvAcc = [true |-> WvNone, false |-> WvNone, unknown |-> {}, ants |-> 0, same |-> 0,
                violations |-> 0, open |-> 0, bad |-> WvNone, previous |-> WvNone, beats |-> 0]
    /\ wvResult = [status |-> "none"]

Mode == wvAsk.mode
Simple == Mode \in {"always", "never", "eventually"}
Here == wvSamples[wvI + 1]
Going == wvI < Len(wvSamples) /\ wvResult.status = "none"

FirstOf(old) == IF old = WvNone THEN wvI + 1 ELSE old

\* _eval_simple
EvalSimple ==
    /\ Going /\ Simple
    /\ wvAcc' = CASE EvalPredicate(Here.p) = "u" -> [wvAcc EXCEPT !.unknown = @ \cup {wvI + 1}]
                  [] EvalPredicate(Here.p) = "t" -> [wvAcc EXCEPT !.true = FirstOf(@)]
                  [] EvalPredicate(Here.p) = "f" -> [wvAcc EXCEPT !.false = FirstOf(@)]
    /\ wvI' = wvI + 1
    /\ UNCHANGED <<wvAsk, wvSamples, wvResult>>

\* The response window of the antecedent at sample i, cut at the end of the trace.
WindowEnd(i) == i + wvAsk.within
ResponseWindow(i) == (IF wvAsk.overlap THEN i ELSE i + 1)..Min({WindowEnd(i), Len(wvSamples)})
\* (Mutant: a window without a known response is a violation.)
OnlyCutOff(i, unknown) == WindowEnd(i) > Len(wvSamples)

ResponseOpen(i, unknown) == WindowEnd(i) > Len(wvSamples) \/ unknown # {}

\* The response loop stops at the first sample that satisfies, and notes the
\* unknown ones it has passed.
Responses(i) == {j \in ResponseWindow(i) : EvalPredicate(wvSamples[j].c) = "t"}
LookedAt(i) ==
    IF Responses(i) = {} THEN ResponseWindow(i)
    ELSE {j \in ResponseWindow(i) : j <= Min(Responses(i))}
UnknownResponses(i) == {j \in LookedAt(i) : EvalPredicate(wvSamples[j].c) = "u"}
Triggered(i) == [wvAcc EXCEPT !.ants = @ + 1, !.unknown = @ \cup UnknownResponses(i)]

\* _eval_implication
EvalImplication ==
    /\ Going /\ Mode = "implication"
    /\ LET i == wvI + 1
           a == EvalPredicate(Here.p)
       IN  wvAcc' =
             CASE a = "u" -> [wvAcc EXCEPT !.unknown = @ \cup {i}]
               [] a = "f" -> wvAcc
               [] a = "t" /\ Responses(i) # {} ->
                    [Triggered(i) EXCEPT !.same = @ + (IF Min(Responses(i)) = i THEN 1 ELSE 0)]
               [] a = "t" /\ Responses(i) = {} /\ ResponseOpen(i, UnknownResponses(i)) ->
                    [Triggered(i) EXCEPT !.open = @ + 1]
               [] a = "t" /\ Responses(i) = {} /\ ~ResponseOpen(i, UnknownResponses(i)) ->
                    [Triggered(i) EXCEPT !.violations = @ + 1, !.bad = FirstOf(@)]
    /\ wvI' = wvI + 1
    /\ UNCHANGED <<wvAsk, wvSamples, wvResult>>

Increment(from, to) == IF wvAsk.modulo > 0 THEN (to - from) % wvAsk.modulo ELSE to - from

\* An unknown gate, value or restart breaks the chain of beats.
BreakChain(acc) == [acc EXCEPT !.unknown = @ \cup {wvI + 1}, !.previous = WvNone]

\* _eval_sequence
EvalSequence ==
    /\ Going /\ Mode = "sequence"
    /\ LET gate    == EvalPredicate(Here.p)
           restart == EvalPredicate(Here.restart)
           unclear == gate = "u" \/ (gate = "t" /\ (Here.value = WvNone \/ restart = "u"))
           seed    == restart = "t" \/ wvAcc.previous = WvNone
           wrong   == Increment(wvAcc.previous, Here.value) # wvAsk.target
       IN  wvAcc' =
             CASE unclear -> BreakChain(wvAcc)
               [] ~unclear /\ gate = "f" -> wvAcc
               [] ~unclear /\ gate = "t" /\ seed -> [wvAcc EXCEPT !.previous = Here.value]
               [] ~unclear /\ gate = "t" /\ ~seed ->
                    [wvAcc EXCEPT !.previous = Here.value, !.beats = @ + 1,
                                  !.violations = @ + (IF wrong THEN 1 ELSE 0),
                                  !.bad = IF wrong THEN FirstOf(@) ELSE @]
    /\ wvI' = wvI + 1
    /\ UNCHANGED <<wvAsk, wvSamples, wvResult>>

Holds ==
    CASE Mode = "always"     -> wvAcc.false = WvNone
      [] Mode = "never"      -> wvAcc.true = WvNone
      [] Mode = "eventually" -> wvAcc.true # WvNone
      [] Mode \in {"implication", "sequence"} -> wvAcc.violations = 0

Coverage ==
    IF wvSamples = <<>> THEN "zero_coverage"
    ELSE IF wvAsk.short \/ wvAcc.unknown # {} \/ wvAcc.open > 0 THEN "partial" ELSE "complete"

FinishVerify ==
    /\ wvResult.status = "none"
    /\ wvI = Len(wvSamples)
    /\ wvResult' = [status |-> "done", holds |-> wvSamples # <<>> /\ Holds, coverage |-> Coverage,
                    vacuous |-> /\ Mode = "implication" /\ wvAsk.overlap /\ wvAsk.within >= 1
                                /\ wvAcc.ants > 0 /\ wvAcc.same = wvAcc.ants]
    /\ UNCHANGED <<wvAsk, wvSamples, wvI, wvAcc>>

VerifyNext == EvalSimple \/ EvalImplication \/ EvalSequence \/ FinishVerify

\* Every request and window there can be.
WvTruth == {"t", "f", "u"}
WvModes == {"always", "never", "eventually", "implication", "sequence"}
WvAsks ==
    [mode : WvModes, within : Nat, overlap : BOOLEAN, target : Int, modulo : Nat, short : BOOLEAN]
WvSamples ==
    [p : SUBSET WvTruth, c : SUBSET WvTruth, value : Nat \cup {WvNone}, restart : SUBSET WvTruth]

VerifySpec ==
    VerifyInit([ask : WvAsks, samples : Seq(WvSamples)]) /\ [][VerifyNext]_verifyVars

(***************************************************************************)
(* What the template says of a trace in which everything is known.         *)
(***************************************************************************)
\* What the samples leave open: truth values by position and field, tracked numbers
\* by position, and for an implication the consequents after the window.
Fields == CASE Simple -> {"p"} [] Mode = "implication" -> {"p", "c"} [] Mode = "sequence" -> {"p", "restart"}
Followed == IF Mode = "implication" THEN wvAsk.within ELSE 0
OpenTruths ==
    {x \in (1..Len(wvSamples)) \X Fields : EvalPredicate(wvSamples[x[1]][x[2]]) = "u"}
    \cup {x \in (Len(wvSamples) + 1..Len(wvSamples) + Followed) \X {"c"} : TRUE}
OpenNumbers == {i \in 1..Len(wvSamples) : Mode = "sequence" /\ wvSamples[i].value = WvNone}

\* The trace in which just yes of the open truth values are true, and the open
\* numbers are those of num.
TruthAt(i, field, yes) ==
    \/ <<i, field>> \in yes
    \/ i <= Len(wvSamples) /\ EvalPredicate(wvSamples[i][field]) = "t"
Known(yes, num) ==
    [i \in 1..(Len(wvSamples) + Followed) |->
        [p       |-> TruthAt(i, "p", yes),
         c       |-> TruthAt(i, "c", yes),
         restart |-> TruthAt(i, "restart", yes),
         value   |-> IF i \in OpenNumbers THEN num[i]
                     ELSE IF i <= Len(wvSamples) THEN wvSamples[i].value ELSE 0]]

\* Every known trace that the samples are a view of, and for an implication what
\* may have followed the window.
KnownTraces == {Known(yes, num) : yes \in SUBSET OpenTruths, num \in [OpenNumbers -> WvNumbers]}

Satisfies(t) ==
    LET n == Len(wvSamples)
    IN  CASE Mode = "always"     -> \A i \in 1..n : t[i].p
          [] Mode = "never"      -> \A i \in 1..n : ~t[i].p
          [] Mode = "eventually" -> \E i \in 1..n : t[i].p
          [] Mode = "implication" ->
               \A i \in 1..n : t[i].p =>
                   \E j \in (IF wvAsk.overlap THEN i ELSE i + 1)..WindowEnd(i) : t[j].c
          [] Mode = "sequence" ->
               \A j \in 1..n : \A i \in 1..(j - 1) :
                   /\ t[i].p /\ t[j].p /\ ~t[j].restart
                   /\ \A k \in (i + 1)..(j - 1) : ~t[k].p
                   => Increment(t[i].value, t[j].value) = wvAsk.target

\* A verdict of verify_window holds whatever the unknown samples, and what
\* followed the window, really were: a violation (for "eventually" a success)
\* is one in every such trace, and with complete coverage so is the opposite.
VerdictTrue ==
    wvResult.status = "done" /\ wvSamples # <<>> =>
        LET sure == IF Mode = "eventually" THEN wvResult.holds ELSE ~wvResult.holds
        IN  /\ sure => \A t \in KnownTraces : Satisfies(t) = wvResult.holds
            /\ wvResult.coverage = "complete" => \A t \in KnownTraces : Satisfies(t) = wvResult.holds
            /\ wvResult.vacuous => wvResult.holds
================================================================================

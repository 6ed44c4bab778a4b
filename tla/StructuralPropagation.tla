------------------------- MODULE StructuralPropagation -------------------------
(***************************************************************************)
(* Constant propagation over an elaborated design: inventory() collects    *)
(* every writer of every bit, solve() runs a worklist over the drivers,    *)
(* emit() reports what is constant.  A bit value is "0", "1", "x", "z" (an *)
(* actual value), "?" (no evidence) or "!" (conflicting writers).          *)
(*                                                                         *)
(* A design is a sequence of items, one for each construct that can write: *)
(*   "drive"  a continuous assignment, net initializer or port binding;    *)
(*            port is "in" or "out" for a binding between two nets         *)
(*   "block"  a write that is not modelled as a driver: procedural code,   *)
(*            a variable's initializer, an input of the top, an inout      *)
(*   "stop"   a construct with unknown writes: primitives, calls, aliases, *)
(*            force, interfaces                                            *)
(* An item and an expression carry everything the syntax tree says of it.  *)
(***************************************************************************)
EXTENDS Integers, Sequences, FiniteSets, FiniteSetsExt, SequencesExt

VARIABLES
    spDesign,   \* widths, order (of names), special (nets of other kinds),
                \* items, controls, admitted, maxFacts, limited
    spPc, spPos,
    spOwner,    \* bit -> driver, 0 none, Conflict, Blocked
    spDrivers,  \* the drivers admitted, as positions of items
    spValues, spQueue, spGaps, spFacts

propagationVars == <<spDesign, spPc, spPos, spOwner, spDrivers, spValues, spQueue, spGaps, spFacts>>

Conflict == -1
Blocked  == -2
Actual == {"0", "1", "x", "z"}
SpHas(bits, b) == \E i \in DOMAIN bits : bits[i] = b
SpUnclear(bits) == SpHas(bits, "x") \/ SpHas(bits, "z")
SpFill(b, w) == [i \in 1..w |-> b]

(***************************************************************************)
(* evaluate and its helpers                                                *)
(***************************************************************************)
\* _truth
SpTruth(bits) ==
    CASE SpHas(bits, "!") -> "!"
      [] ~SpHas(bits, "!") /\ SpHas(bits, "1") -> "1"
      [] ~SpHas(bits, "!") /\ ~SpHas(bits, "1") /\ SpHas(bits, "?") -> "?"
      [] OTHER -> IF SpUnclear(bits) THEN "x" ELSE "0"

\* _bit
SpBit(op, a, b) ==
    LET one(v) == v = "1"
        result == CASE op = "And" -> one(a) /\ one(b) [] op = "Or" -> one(a) \/ one(b)
                    [] op = "Xor" -> one(a) # one(b)  [] op = "Xnor" -> one(a) = one(b)
    IN  IF "!" \in {a, b} THEN "!"
        ELSE IF op = "And" /\ "0" \in {a, b} THEN "0"
        ELSE IF op = "Or" /\ "1" \in {a, b} THEN "1"
        ELSE IF "?" \in {a, b} THEN "?"
        ELSE IF {a, b} \cap {"x", "z"} # {} THEN "x"
        ELSE IF result THEN "1" ELSE "0"

\* _invert
SpInvert(bits) ==
    [i \in DOMAIN bits |-> CASE bits[i] = "0" -> "1" [] bits[i] = "1" -> "0" [] bits[i] = "z" -> "x"
                             [] OTHER -> bits[i]]

\* _resize: the sign or zero in front, or the low bits; two-state types lose x, z.
SpResize(bits, width, signed, fourState) ==
    LET pad  == IF signed THEN bits[1] ELSE "0"
        wide == SpFill(pad, Max({0, width - Len(bits)})) \o
                SubSeq(bits, Max({1, Len(bits) - width + 1}), Len(bits))
    IN  [i \in DOMAIN wide |-> IF ~fourState /\ wide[i] \in {"x", "z"} THEN "0" ELSE wide[i]]

\* _integer and format
SpNumber(bits, signed) ==
    LET n == FoldLeft(LAMBDA m, b : 2 * m + (IF b = "1" THEN 1 ELSE 0), 0, bits)
    IN  IF signed /\ bits[1] = "1" THEN n - 2 ^ Len(bits) ELSE n
SpBits(n, width) ==
    [i \in 1..width |-> IF ((n % 2 ^ width) \div 2 ^ (width - i)) % 2 = 1 THEN "1" ELSE "0"]
SpFlag(b) == <<IF b THEN "1" ELSE "0">>

\* A selection that is not decided keeps what both branches agree on.
MuxMerge(condition, a, b) ==
    [i \in DOMAIN a |->
        CASE condition = "!" -> "!"
          [] condition # "!" /\ a[i] = b[i] -> a[i]
          [] OTHER -> IF "!" \in {a[i], b[i]} THEN "!"
                      ELSE IF "?" \in {a[i], b[i], condition} THEN "?" ELSE "x"]

UnaryValue(op, v, width) ==
    LET Reduce(kind, start) == <<FoldLeft(LAMBDA r, b : SpBit(kind, r, b), start, v)>>
    IN  CASE op = "Plus"        -> v
          [] op = "BitwiseNot"  -> SpInvert(v)
          [] op = "LogicalNot"  -> SpInvert(<<SpTruth(v)>>)
          [] op = "BitwiseAnd"  -> Reduce("And", "1")
          [] op = "BitwiseNand" -> SpInvert(Reduce("And", "1"))
          [] op = "BitwiseOr"   -> Reduce("Or", "0")
          [] op = "BitwiseNor"  -> SpInvert(Reduce("Or", "0"))
          [] op = "BitwiseXor"  -> Reduce("Xor", "0")
          [] op = "BitwiseXnor" -> SpInvert(Reduce("Xor", "0"))
          [] op = "Minus" ->
               IF \A i \in DOMAIN v : v[i] \in {"0", "1"} THEN SpBits(-SpNumber(v, FALSE), width)
               ELSE SpFill(IF SpHas(v, "!") THEN "!" ELSE IF SpHas(v, "?") THEN "?" ELSE "x", width)

BinaryValue(op, a, b, signed, width) ==
    LET both == a \o b
        x == SpNumber(a, signed)
        y == SpNumber(b, signed)
        differ == \E i \in DOMAIN a : {a[i], b[i]} = {"0", "1"}
    IN  IF op \in {"And", "Or", "Xor", "Xnor"} THEN [i \in DOMAIN a |-> SpBit(op, a[i], b[i])]
        ELSE IF op = "LogicalAnd" THEN <<SpBit("And", SpTruth(a), SpTruth(b))>>
        ELSE IF op = "LogicalOr"  THEN <<SpBit("Or", SpTruth(a), SpTruth(b))>>
        ELSE IF SpHas(both, "!") THEN SpFill("!", width)
        ELSE IF SpHas(both, "?") THEN SpFill("?", width)
        ELSE IF op \in {"CaseEquality", "CaseInequality"} THEN SpFlag((a = b) = (op = "CaseEquality"))
        ELSE IF op \in {"Equality", "Inequality"} /\ differ THEN SpFlag(op = "Inequality")
        ELSE IF SpUnclear(both) THEN SpFill("x", width)
        ELSE CASE op = "Equality"        -> SpFlag(x = y)  [] op = "Inequality"         -> SpFlag(x # y)
               [] op = "LessThan"        -> SpFlag(x < y)  [] op = "LessThanEqual"      -> SpFlag(x <= y)
               [] op = "GreaterThan"     -> SpFlag(x > y)  [] op = "GreaterThanEqual"   -> SpFlag(x >= y)
               [] op = "Add"      -> SpBits(x + y, width)
               [] op = "Subtract" -> SpBits(x - y, width)
               [] op = "Multiply" -> SpBits(x * y, width)

RECURSIVE Evaluate(_, _)
Evaluate(e, values) ==
    CASE e.kind = "constant" -> e.bits
      [] e.kind = "unknown"  -> SpFill("?", e.width)
      [] e.kind = "signal"   -> values[e.name]
      [] e.kind = "select"   -> LET v == Evaluate(e.arg, values) IN [i \in DOMAIN e.at |-> v[e.at[i]]]
      [] e.kind = "concat"   -> Evaluate(e.left, values) \o Evaluate(e.right, values)
      [] e.kind = "convert"  -> SpResize(Evaluate(e.arg, values), e.width, e.signed, e.fourState)
      [] e.kind = "mux" ->
           LET c == SpTruth(Evaluate(e.cond, values))
           IN  IF c = "1" THEN Evaluate(e.left, values)
               ELSE IF c = "0" THEN Evaluate(e.right, values)
               ELSE MuxMerge(c, Evaluate(e.left, values), Evaluate(e.right, values))
      [] e.kind = "unary"    -> UnaryValue(e.op, Evaluate(e.arg, values), e.width)
      [] e.kind = "binary"   ->
           BinaryValue(e.op, Evaluate(e.left, values), Evaluate(e.right, values), e.signed, e.width)

\* The signals an expression reads, collected while it is built.
RECURSIVE Reads(_)
Reads(e) ==
    CASE e.kind \in {"constant", "unknown"} -> {}
      [] e.kind = "signal" -> {e.name}
      [] e.kind \in {"select", "convert", "unary"} -> Reads(e.arg)
      [] e.kind \in {"concat", "binary"} -> Reads(e.left) \cup Reads(e.right)
      [] e.kind = "mux" -> Reads(e.cond) \cup Reads(e.left) \cup Reads(e.right)

(***************************************************************************)
(* inventory()                                                             *)
(***************************************************************************)
SpNames == DOMAIN spDesign.widths
SpAllBits == UNION {{<<n, i>> : i \in 1..spDesign.widths[n]} : n \in SpNames}

PropagationInit(loads) ==
    /\ spDesign \in loads
    /\ spPc = "inventory" /\ spPos = 1
    /\ spOwner = [b \in SpAllBits |-> IF b[1] \in spDesign.special THEN Blocked ELSE 0]
    /\ spDrivers = <<>> /\ spQueue = <<>> /\ spFacts = <<>>
    /\ spValues = [n \in SpNames |-> SpFill("?", spDesign.widths[n])]
    /\ spGaps = IF spDesign.special = {} THEN {} ELSE {"net_resolution"}

\* Mutant: a second writer takes the bit over.
ClaimLast(owner, targets, who) ==
    FoldLeft(LAMBDA o, b : [o EXCEPT ![b] = who], owner, targets)

\* claim(): a bit with two writers, or with a writer and a boundary, conflicts.
Claim(owner, targets, who) ==
    FoldLeft(LAMBDA o, b : [o EXCEPT ![b] = IF @ = 0 \/ (@ = Blocked /\ who = Blocked) THEN who ELSE Conflict],
             owner, targets)

InventoryItem ==
    /\ spPc = "inventory" /\ spPos <= Len(spDesign.items)
    /\ LET item == spDesign.items[spPos]
           fits == item.kind = "drive" /\ item.expr.width = Len(item.targets)
       IN  \/ /\ item.kind = "stop"
              /\ spPc' = "done" /\ spGaps' = spGaps \cup {"boundary"}
              /\ UNCHANGED <<spOwner, spDrivers, spPos>>
           \/ /\ fits
              /\ spOwner' = Claim(spOwner, item.targets, Len(spDrivers) + 1)
              /\ spDrivers' = Append(spDrivers, spPos)
              /\ spPos' = spPos + 1 /\ UNCHANGED <<spPc, spGaps>>
           \/ /\ item.kind # "stop" /\ ~fits
              /\ spOwner' = Claim(spOwner, item.targets, Blocked)
              /\ spGaps' = IF item.kind = "drive" THEN spGaps \cup {"binding"} ELSE spGaps
              /\ spPos' = spPos + 1 /\ UNCHANGED <<spPc, spDrivers>>
    /\ UNCHANGED <<spDesign, spValues, spQueue, spFacts>>

\* net_port_signals: the nets on the sides of a port that a reverse drive
\* can reach.
NetPortSignals ==
    UNION {LET item == spDesign.items[i]
           IN  CASE item.port = "in"  -> {b[1] : b \in Range(item.targets)}
                 [] item.port = "out" -> {b[1] : b \in Range(item.targets)} \cup Reads(item.expr)
                 [] OTHER -> {} : i \in DOMAIN spDesign.items}

\* The end of inventory() and the start of solve().
InventoryEnd ==
    /\ spPc = "inventory" /\ spPos > Len(spDesign.items)
    /\ \/ /\ \E b \in SpAllBits : spOwner[b] = Conflict /\ b[1] \in NetPortSignals
          /\ spPc' = "done" /\ spGaps' = spGaps \cup {"port_alias_conflict"}
          /\ UNCHANGED <<spValues, spQueue>>
       \/ /\ ~\E b \in SpAllBits : spOwner[b] = Conflict /\ b[1] \in NetPortSignals
          /\ spValues' = [n \in SpNames |-> [i \in 1..spDesign.widths[n] |->
                            IF spOwner[<<n, i>>] = Conflict THEN "!" ELSE "?"]]
          /\ spGaps' = IF \E b \in SpAllBits : spOwner[b] = Conflict
                       THEN spGaps \cup {"multiple_drivers"} ELSE spGaps
          /\ spQueue' = [k \in DOMAIN spDrivers |-> k]
          /\ spPc' = "solve"
    /\ UNCHANGED <<spDesign, spPos, spOwner, spDrivers, spFacts>>

(***************************************************************************)
(* solve()                                                                 *)
(***************************************************************************)
DriverItem(k) == spDesign.items[spDrivers[k]]

Settle(old, value) == IF old = "?" THEN value ELSE IF old = value THEN old ELSE "!"

\* The values after driver k has been evaluated: only the bits it owns alone.
Solved(k) ==
    LET item == DriverItem(k)
        result == Evaluate(item.expr, spValues)
        Step(values, j) ==
          LET b == item.targets[j]
          IN  IF spOwner[b] # k \/ result[j] = "?" THEN values
              ELSE [values EXCEPT ![b[1]][b[2]] = Settle(@, result[j])]
    IN  FoldLeft(Step, spValues, [j \in DOMAIN item.targets |-> j])

\* The users of the changed signals, those not queued already.
QueueUsers(queue, changed) ==
    FoldLeft(LAMBDA q, n : q \o SelectSeq([j \in DOMAIN spDrivers |-> j],
                                          LAMBDA j : n \in Reads(DriverItem(j).expr) /\ ~SpHas(q, j)),
             queue, SelectSeq(spDesign.order, LAMBDA n : n \in changed))

SolveStep ==
    /\ spPc = "solve" /\ spQueue # <<>>
    /\ spValues' = Solved(Head(spQueue))
    /\ spQueue' = QueueUsers(Tail(spQueue), {n \in SpNames : spValues'[n] # spValues[n]})
    /\ UNCHANGED <<spDesign, spPc, spPos, spOwner, spDrivers, spGaps, spFacts>>

SolveEnd ==
    /\ spPc = "solve" /\ spQueue = <<>>
    /\ spPc' = "emit" /\ spPos' = 1
    /\ UNCHANGED <<spDesign, spOwner, spDrivers, spValues, spQueue, spGaps, spFacts>>

(***************************************************************************)
(* emit(), and the limits                                                  *)
(***************************************************************************)
\* A fact for each signal with a known bit and each condition that is decided.
FactAt(i) ==
    IF i <= Len(spDesign.order)
    THEN LET n == spDesign.order[i]
         IN  [worth |-> n \in spDesign.admitted /\ \E j \in DOMAIN spValues[n] : spValues[n][j] \in Actual,
              fact |-> [kind |-> "propagated_constant", signal |-> n, bits |-> spValues[n]]]
    ELSE LET c == i - Len(spDesign.order)
             t == SpTruth(Evaluate(spDesign.controls[c], spValues))
         IN  [worth |-> t \in {"0", "1"},
              fact |-> [kind |-> "constant_control", control |-> c, value |-> t]]
ToEmit == Len(spDesign.order) + Len(spDesign.controls)

EmitFact ==
    /\ spPc = "emit" /\ spPos <= ToEmit
    /\ LET next == FactAt(spPos)
           full == next.worth /\ Len(spFacts) >= spDesign.maxFacts
       IN  /\ spFacts' = IF next.worth /\ ~full THEN Append(spFacts, next.fact) ELSE spFacts
           /\ spGaps' = IF full THEN spGaps \cup {"fact_limit"} ELSE spGaps
           /\ spPc' = IF full THEN "done" ELSE "emit"
           /\ spPos' = IF full THEN spPos ELSE spPos + 1
    /\ UNCHANGED <<spDesign, spOwner, spDrivers, spValues, spQueue>>

EmitEnd ==
    /\ spPc = "emit" /\ spPos > ToEmit
    /\ spPc' = "done"
    /\ UNCHANGED <<spDesign, spPos, spOwner, spDrivers, spValues, spQueue, spGaps, spFacts>>

\* A limit on syntax nodes, instances, bits, claims or work strikes in the
\* middle: _Stop ends the run, and what was emitted before it is returned.
LimitStrikes ==
    /\ spDesign.limited /\ spPc \in {"inventory", "solve", "emit"}
    /\ spGaps' = spGaps \cup {"limit"} /\ spPc' = "done"
    /\ UNCHANGED <<spDesign, spPos, spOwner, spDrivers, spValues, spQueue, spFacts>>

PropagationNext ==
    InventoryItem \/ InventoryEnd \/ SolveStep \/ SolveEnd \/ EmitFact \/ EmitEnd \/ LimitStrikes

(***************************************************************************)
(* What a design can do: its steady states                                 *)
(***************************************************************************)
Writes == UNION {{<<i, k>> : k \in DOMAIN spDesign.items[i].targets} : i \in DOMAIN spDesign.items}
Writers(S) == {w \in Writes : spDesign.items[w[1]].targets[w[2]] \in S}
\* Nets joined by ports are one net: what is written to one is written to all.
JoinedTo(S) ==
    S \cup {b \in SpAllBits : \E w \in Writes :
        LET item == spDesign.items[w[1]]
            pair == {item.targets[w[2]], <<item.expr.name, w[2]>>}
        IN  item.port # "no" /\ b \in pair /\ pair \cap S # {}}
NetOf(b) == JoinedTo(JoinedTo(JoinedTo({b})))
Contested(b) ==
    \/ b[1] \in spDesign.special
    \/ Cardinality(Writers({b})) # 1
    \/ Cardinality({w \in Writers(NetOf(b)) : spDesign.items[w[1]].port = "no"}) > 1
\* A bit that one continuous driver writes has that driver's value; every
\* other bit may have any; unknown writes may change them all.
SteadyStates ==
    LET free == \E i \in DOMAIN spDesign.items : spDesign.items[i].kind = "stop"
        settled == {w \in Writes : LET item == spDesign.items[w[1]]
                                   IN  /\ item.kind = "drive" /\ item.expr.width = Len(item.targets)
                                       /\ ~Contested(item.targets[w[2]])}
        State(v) == [n \in SpNames |-> [i \in 1..spDesign.widths[n] |-> v[<<n, i>>]]]
        Holds(v, w) == LET item == spDesign.items[w[1]]
                       IN  Evaluate(item.expr, State(v))[w[2]] \in {"?", v[item.targets[w[2]]]}
    IN  {State(v) : v \in {u \in [SpAllBits -> Actual] : free \/ \A w \in settled : Holds(u, w)}}

(***************************************************************************)
(* The property                                                            *)
(***************************************************************************)
\* What is reported constant is constant in every steady state of the whole
\* design, however far the inventory got, in whatever order drivers were
\* solved, and with feedback, several writers and joined nets; and when the
\* worklist is empty no driver has anything to add, so a run that reports no
\* gap has missed no fact.
PropagationTrue ==
    /\ spPc = "done" /\ spFacts # <<>> =>
          LET states == SteadyStates
          IN  \A f \in Range(spFacts), v \in states :
                CASE f.kind = "propagated_constant" ->
                       \A j \in DOMAIN f.bits : f.bits[j] \in Actual => v[f.signal][j] = f.bits[j]
                  [] f.kind = "constant_control" ->
                       SpTruth(Evaluate(spDesign.controls[f.control], v)) \in {"?", f.value}
    /\ spPc = "emit" =>
          \A k \in DOMAIN spDrivers : Solved(k) = spValues
    /\ spPc = "done" /\ spGaps = {} =>
          \A i \in 1..ToEmit : FactAt(i).worth => SpHas(spFacts, FactAt(i).fact)
===============================================================================

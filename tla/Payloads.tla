------------------------------ MODULE Payloads ------------------------------
(* A variation plan on its own: what createJob refuses (validatePlan), the   *)
(* generator that yields one assignment of payloads per request (iterate),   *)
(* and the rendering of each assignment into the base request                *)
(* (renderRequest).  VariationEngine models who sends the requests and when. *)
(*                                                                           *)
(* A text is a sequence of pieces <<kind, number>>: "x" a one-byte           *)
(* character, "w" a character of three bytes, "num" a numeral, "m" a marker  *)
(* (two bytes; validatePlan keeps markers from overlapping, so a marker is   *)
(* one piece).  A response pattern is a regex tree, scanned as its tokens.   *)
EXTENDS Integers, FiniteSets, FiniteSetsExt, SequencesExt

CONSTANTS
    Plans,          \* the plans an operator or a script may submit
    MaxBytes,       \* MAX_BASE_REQUEST_BYTES
    Ceiling,        \* ABSOLUTE_MAX
    Structural      \* SAFE_STRUCTURAL, a sequence of texts

ASSUME PayloadsAssumption ==
    /\ MaxBytes \in Nat /\ Ceiling \in Nat \ {0}
    /\ Structural \in Seq(Seq({"x", "w"} \X {0}))

VARIABLES
    plan,           \* the submitted plan
    verdict,        \* "submitted", "refused", "iterating", "exhausted"
    index,          \* iterate's index: requests yielded so far
    counters,       \* clusterbomb's odometer; sniper's <<position, offset>>
    rows            \* what each yielded assignment rendered to

planVars == <<plan, verdict, index, counters, rows>>

Width(piece) ==
    CASE piece[1] = "x" -> 1
      [] piece[1] = "w" -> 3
      [] piece[1] = "m" -> 2
      [] piece[1] = "num" -> IF piece[2] < 0 THEN 2 ELSE 1

Bytes(text) == FoldSeq(LAMBDA piece, sum : sum + Width(piece), 0, text)

Occurrences(text, marker) == Cardinality({i \in DOMAIN text : text[i] = marker})

Positions == DOMAIN plan.positions

-----------------------------------------------------------------------------
(* Payload sources. *)

Clipped(s) == SubSeq(s, 1, Min({Len(s), Ceiling}))

\* The numerals from `from` towards `to`; a step of 0 counts as 1.
RangeLength(s) ==
    LET step == IF s.step = 0 THEN 1 ELSE s.step
    IN CASE step > 0 /\ s.from <= s.to -> (s.to - s.from) \div step + 1
         [] step < 0 /\ s.from >= s.to -> (s.from - s.to) \div (-step) + 1
         [] OTHER -> 0

MaterializeSource(s) ==
    CASE s.kind = "list" -> Clipped(s.values)
      [] s.kind = "builtin" -> Clipped(Structural)
      [] s.kind = "range" ->
           [i \in 1..Min({RangeLength(s), Ceiling}) |->
                <<<<"num", s.from + (i - 1) * (IF s.step = 0 THEN 1 ELSE s.step)>>>>]
      [] OTHER -> <<>>

Lists == [p \in Positions |-> MaterializeSource(plan.positions[p].source)]

PlanCount ==
    IF Positions = {} THEN 0
    ELSE CASE plan.mode = "batteringram" -> Len(Lists[1])
           [] plan.mode = "sniper" -> FoldSeq(LAMBDA l, n : n + Len(l), 0, Lists)
           [] plan.mode = "pitchfork" -> Min({Len(Lists[p]) : p \in Positions})
           [] plan.mode = "clusterbomb" -> FoldSeq(LAMBDA l, n : n * Len(l), 1, Lists)

-----------------------------------------------------------------------------
(* Response patterns.  The scan keeps, for each open group, whether it holds *)
(* an unbounded quantifier; `closed` is that flag of the group that the      *)
(* previous token closed.                                                    *)

RECURSIVE PatternTokens(_)
PatternTokens(t) ==
    (CASE t.kind = "group" ->
            <<"(">> \o FlattenSeq([i \in DOMAIN t.body |-> PatternTokens(t.body[i])]) \o <<")">>
       [] t.kind = "escape" -> <<"\\", "(">>
       [] t.kind = "class" -> <<"[", "]", "*", "]">>
       [] t.kind = "any" -> <<"[", "^", "]">>
       [] OTHER -> <<"a">>)
    \o (IF t.quant = "" THEN <<>> ELSE <<t.quant>>)

MarkTop(stack, mark) ==
    IF stack = <<>> THEN stack ELSE Front(stack) \o <<Last(stack) \/ mark>>

CloseGroup(st) ==
    LET inner == st.stack # <<>> /\ Last(st.stack)
        outer == IF st.stack = <<>> THEN <<>> ELSE Front(st.stack)
    IN [st EXCEPT !.stack = MarkTop(outer, inner), !.closed = inner]

ScanToken(st, token) ==
    CASE st.in = "escape" -> [st EXCEPT !.in = "pattern"]
      [] st.in = "class" ->
           \* a ']' that comes first, or after '^', is taken for a member
           IF token = "]" /\ ~st.first
           THEN [st EXCEPT !.in = "pattern"]
           ELSE [st EXCEPT !.first = st.first /\ token = "^"]
      [] OTHER ->
           CASE token = "\\" -> [st EXCEPT !.in = "escape", !.closed = FALSE]
             [] token = "[" -> [st EXCEPT !.in = "class", !.first = TRUE, !.closed = FALSE]
             [] token = "(" -> [st EXCEPT !.stack = Append(@, FALSE), !.closed = FALSE]
             [] token = ")" -> CloseGroup(st)
             [] token \in {"*", "+", "{2,}"} ->
                  [st EXCEPT !.found = @ \/ st.closed, !.stack = MarkTop(@, TRUE), !.closed = FALSE]
             [] OTHER -> [st EXCEPT !.closed = FALSE]

HasNestedQuantifier(tree) ==
    FoldLeft(ScanToken,
             [in |-> "pattern", first |-> FALSE, stack |-> <<>>, closed |-> FALSE, found |-> FALSE],
             PatternTokens(tree)).found

-----------------------------------------------------------------------------
(* What createJob refuses. *)

LongestBytes(texts) == Max({0} \cup {Bytes(t) : t \in texts})

WorstValueBytes(s) ==
    CASE s.kind = "list" -> LongestBytes(ToSet(s.values))
      [] s.kind = "range" -> 2          \* max(from, to, 32 bytes), at this scale
      [] OTHER -> LongestBytes(ToSet(Structural))

\* Every marker counted once, however often the base request holds it.
WorstCaseOfOne ==
    Bytes(plan.raw) + FoldSeq(LAMBDA p, sum :
        sum + Max({0, WorstValueBytes(p.source) - Width(p.marker)}), 0, plan.positions)

WorstCaseBytes ==
    Bytes(plan.raw) + FoldSeq(LAMBDA p, sum :
        sum + Occurrences(plan.raw, p.marker)
              * Max({0, WorstValueBytes(p.source) - Width(p.marker)}), 0, plan.positions)

ValidPositions ==
    /\ Positions # {}
    /\ \A p \in Positions :
         /\ Occurrences(plan.raw, plan.positions[p].marker) > 0
         /\ \A q \in Positions : q # p => plan.positions[q].marker # plan.positions[p].marker
         /\ plan.positions[p].source.kind \in {"list", "range", "builtin"}
         /\ plan.positions[p].source.kind = "list" => Len(plan.positions[p].source.values) <= Ceiling
         /\ plan.positions[p].source.kind = "range" => plan.positions[p].source.step # 0

ValidatePlan ==
    /\ Bytes(plan.raw) <= MaxBytes
    /\ ValidPositions
    /\ WorstCaseBytes <= MaxBytes
    /\ \A tree \in plan.patterns : ~HasNestedQuantifier(tree)

AdmitPlan ==
    /\ verdict = "submitted"
    /\ ValidatePlan /\ PlanCount > 0 /\ PlanCount <= Min({Ceiling, plan.maxRequests})
    /\ verdict' = "iterating"
    /\ counters' = IF plan.mode = "sniper" THEN <<1, 0>> ELSE [p \in Positions |-> 0]
    /\ UNCHANGED <<plan, index, rows>>

RefusePlan ==
    /\ verdict = "submitted"
    /\ ~(ValidatePlan /\ PlanCount > 0 /\ PlanCount <= Min({Ceiling, plan.maxRequests}))
    /\ verdict' = "refused"
    /\ UNCHANGED <<plan, index, counters, rows>>

-----------------------------------------------------------------------------
(* Rendering: each position's marker replaced in turn, the size projected    *)
(* before the text is joined.                                                *)

Substitute(text, marker, value) ==
    FlattenSeq([i \in DOMAIN text |-> IF text[i] = marker THEN value ELSE <<text[i]>>])

Growth(value, marker) == Bytes(value) - Width(marker)

RenderRequest(assignment) ==
    FoldLeftDomain(LAMBDA out, p :
        LET marker == plan.positions[p].marker
            projected == out.bytes + Occurrences(out.text, marker) * Growth(assignment[p], marker)
        IN IF out.failed \/ projected > MaxBytes
           THEN [out EXCEPT !.failed = TRUE]
           ELSE [text |-> Substitute(out.text, marker, assignment[p]),
                 bytes |-> projected, failed |-> FALSE],
        [text |-> plan.raw, bytes |-> Bytes(plan.raw), failed |-> FALSE], plan.positions)

-----------------------------------------------------------------------------
(* The generator, one yield per step. *)

Yield(assignment) ==
    /\ index' = index + 1
    /\ rows' = Append(rows, [assignment |-> assignment] @@ RenderRequest(assignment))

Batteringram ==
    /\ plan.mode = "batteringram" /\ index < Len(Lists[1])
    /\ Yield([p \in Positions |-> Lists[1][index + 1]])
    /\ UNCHANGED counters

BaseValues == [p \in Positions |-> plan.positions[p].baseValue]

Sniper ==
    /\ plan.mode = "sniper" /\ counters[1] \in Positions
    /\ LET pos == counters[1]
           offset == counters[2]
       IN IF offset < Len(Lists[pos])
          THEN /\ Yield([BaseValues EXCEPT ![pos] = Lists[pos][offset + 1]])
               /\ counters' = <<pos, offset + 1>>
          ELSE /\ counters' = <<pos + 1, 0>>
               /\ UNCHANGED <<index, rows>>

Pitchfork ==
    /\ plan.mode = "pitchfork" /\ \A p \in Positions : index < Len(Lists[p])
    /\ Yield([p \in Positions |-> Lists[p][index + 1]])
    /\ UNCHANGED counters

\* The odometer that carries without putting the wrapped wheel back to zero.
WheelsCarryOnly(i) ==
    IF counters[i] + 1 < Len(Lists[i]) THEN counters[i] + 1 ELSE counters[i]

\* Where the wheel at position i stands after an increment that reaches it.
Wheel(i) == IF counters[i] + 1 < Len(Lists[i]) THEN counters[i] + 1 ELSE 0

Odometer ==
    [i \in Positions |->
        IF \A j \in Positions : j > i => counters[j] + 1 = Len(Lists[j])
        THEN Wheel(i) ELSE counters[i]]

Clusterbomb ==
    /\ plan.mode = "clusterbomb" /\ index < PlanCount
    /\ Yield([p \in Positions |-> Lists[p][counters[p] + 1]])
    /\ counters' = Odometer

Iterate ==
    /\ verdict = "iterating"
    /\ Batteringram \/ Sniper \/ Pitchfork \/ Clusterbomb
    /\ UNCHANGED <<plan, verdict>>

Exhausted ==
    /\ verdict = "iterating"
    /\ CASE plan.mode = "batteringram" -> index >= Len(Lists[1])
         [] plan.mode = "sniper" -> counters[1] \notin Positions
         [] plan.mode = "pitchfork" -> \E p \in Positions : index >= Len(Lists[p])
         [] plan.mode = "clusterbomb" -> index >= PlanCount
    /\ verdict' = "exhausted"
    /\ UNCHANGED <<plan, index, counters, rows>>

PlanInit ==
    /\ plan \in Plans
    /\ verdict = "submitted" /\ index = 0 /\ counters = <<>> /\ rows = <<>>

PlanNext == AdmitPlan \/ RefusePlan \/ Iterate \/ Exhausted

-----------------------------------------------------------------------------
(* What the mode of a plan promises. *)
PromisedAssignments ==
    CASE plan.mode = "batteringram" ->
           {[p \in Positions |-> v] : v \in ToSet(Lists[1])}
      [] plan.mode = "sniper" ->
           UNION {{[BaseValues EXCEPT ![p] = v] : v \in ToSet(Lists[p])} : p \in Positions}
      [] plan.mode = "pitchfork" ->
           {[p \in Positions |-> Lists[p][k]] :
               k \in 1..Min({Len(Lists[p]) : p \in Positions})}
      [] plan.mode = "clusterbomb" ->
           {f \in [Positions -> UNION {ToSet(Lists[p]) : p \in Positions}] :
               \A p \in Positions : f[p] \in ToSet(Lists[p])}

\* The generator yields what was counted and admitted: as many requests as
\* planCount said before the job started, and exactly the assignments of the
\* mode.  planCount and iterate are two separate readings of the plan
\* (payloads.ts:71 and 95), the second with an odometer of its own.
PlanIsCarriedOut ==
    /\ index = Len(rows) /\ index <= plan.maxRequests
    /\ verdict = "exhausted" =>
         /\ Len(rows) = PlanCount
         /\ {rows[i].assignment : i \in DOMAIN rows} = PromisedAssignments

HoldsMarker(text) == \E p \in Positions : Occurrences(text, plan.positions[p].marker) > 0

\* What the estimate does not look at: a payload that holds a marker, a base
\* value (sniper), or the first position's payload at another (batteringram)
\* that is longer than the position's own payloads.
Estimated ==
    \A a \in PromisedAssignments, p \in Positions :
       ~HoldsMarker(a[p]) /\ Bytes(a[p]) <= Max({2, WorstValueBytes(plan.positions[p].source)})

\* The size projected while rendering is the size of the text, so no rendered
\* request is over the limit; and the estimate made before the run covers the
\* rendering: an admitted plan whose payloads it looked at all of never fails
\* to render (variationEngine.ts:618, payloads.ts:169).
RenderingFits ==
    /\ \A i \in DOMAIN rows : ~rows[i].failed =>
          Bytes(rows[i].text) = rows[i].bytes /\ rows[i].bytes <= MaxBytes
    /\ verdict \in {"iterating", "exhausted"} /\ Estimated =>
          \A i \in DOMAIN rows : ~rows[i].failed

Unbounded(t) == t.quant \in {"*", "+", "{2,}"}

RECURSIVE Inside(_)
Inside(t) == ToSet(t.body) \cup UNION {Inside(s) : s \in ToSet(t.body)}

\* The pattern, or a part of it at any depth, repeats without bound a group
\* that itself repeats something without bound.
NestedQuantifier(tree) ==
    \E t \in {tree} \cup Inside(tree) : Unbounded(t) /\ \E s \in Inside(t) : Unbounded(s)

\* A plan is admitted only with patterns free of the nested-quantifier shape,
\* through any number of groups, and the scan refuses no other pattern
\* (variationEngine.ts:716).
PatternsAreFlat ==
    /\ verdict \in {"iterating", "exhausted"} =>
         \A tree \in plan.patterns : ~NestedQuantifier(tree)
    /\ verdict = "refused" /\ ValidPositions /\ WorstCaseBytes <= MaxBytes
       /\ PlanCount \in 1..Min({Ceiling, plan.maxRequests}) =>
         \E tree \in plan.patterns : NestedQuantifier(tree)

PayloadsCorrect == PlanIsCarriedOut /\ RenderingFits /\ PatternsAreFlat
=============================================================================

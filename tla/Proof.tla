--------------------------------- MODULE Proof ---------------------------------
(* Comparing texts, JSON documents and bytes (compare.ts), and grading the     *)
(* difference between a control and a test exchange (proof.ts).                *)
(*                                                                             *)
(* An exchange is [id, host, method, url, headers, body, response]; a response *)
(* is [status, headers, lines, shown, cut]: its headers <<name, value>>, the   *)
(* lines captured of its body, how many of them are read for viewing, and      *)
(* whether the capture was cut.  JSON is [is, v]: an atom, or an object or     *)
(* array as a function to JSON.                                                *)
EXTENDS Integers, FiniteSets, FiniteSetsExt, SequencesExt

CONSTANTS
    MaxLines,       \* MAX_LINES_FOR_LCS
    Incidental      \* headers that say nothing of the application

NoResponse == [status |-> 0, headers |-> <<>>, lines |-> <<>>, shown |-> 0, cut |-> FALSE]

-----------------------------------------------------------------------------
(* Lines. *)

Line(type, text) == [type |-> type, text |-> text]

\* lcs[i, j]: the longest common subsequence of what follows i and j.
LcsTable(a, b) ==
    LET lcs[i \in 0..Len(a), j \in 0..Len(b)] ==
            IF i = Len(a) \/ j = Len(b) THEN 0
            ELSE IF a[i + 1] = b[j + 1] THEN lcs[i + 1, j + 1] + 1
            ELSE Max({lcs[i + 1, j], lcs[i, j + 1]})
    IN lcs

DiffLcs(a, b) ==
    LET lcs == LcsTable(a, b)
        out[i \in 0..Len(a), j \in 0..Len(b)] ==
            CASE i = Len(a) -> [k \in 1..(Len(b) - j) |-> Line("add", b[j + k])]
              [] i < Len(a) /\ j = Len(b) -> [k \in 1..(Len(a) - i) |-> Line("remove", a[i + k])]
              [] OTHER ->
                 IF a[i + 1] = b[j + 1] THEN <<Line("equal", a[i + 1])>> \o out[i + 1, j + 1]
                 ELSE IF lcs[i + 1, j] >= lcs[i, j + 1]
                      THEN <<Line("remove", a[i + 1])>> \o out[i + 1, j]
                      ELSE <<Line("add", b[j + 1])>> \o out[i, j + 1]
    IN out[0, 0]

DiffLines(a, b) ==
    IF Len(a) > MaxLines \/ Len(b) > MaxLines
    THEN IF a = b THEN [k \in DOMAIN a |-> Line("equal", a[k])]
         ELSE [k \in DOMAIN a |-> Line("remove", a[k])] \o [k \in DOMAIN b |-> Line("add", b[k])]
    ELSE DiffLcs(a, b)

Changed(diff) == SelectSeq(diff, LAMBDA l : l.type # "equal")

-----------------------------------------------------------------------------
(* JSON and bytes. *)

RECURSIVE Walk(_, _, _)
Walk(path, l, r) ==
    IF l.is = r.is /\ l.v = r.v THEN {}
    ELSE IF l.is = r.is /\ l.is # "atom"
    THEN UNION {CASE k \in DOMAIN l.v \cap DOMAIN r.v -> Walk(Append(path, k), l.v[k], r.v[k])
                  [] k \notin DOMAIN r.v -> {[path |-> Append(path, k), kind |-> "removed"]}
                  [] OTHER -> {[path |-> Append(path, k), kind |-> "added"]} :
                k \in DOMAIN l.v \cup DOMAIN r.v}
    ELSE {[path |-> path, kind |-> "changed"]}

DiffJson(l, r) == Walk(<<>>, l, r)

\* Offsets count from 0.
DiffBytes(a, b) ==
    LET min == Min({Len(a), Len(b)})
        differing == {i \in 1..min : a[i] # b[i]}
    IN [first |-> IF differing # {} THEN Min(differing) - 1
                  ELSE IF Len(a) # Len(b) THEN min ELSE -1,
        differing |-> Cardinality(differing) + Max({Len(a), Len(b)}) - min]

-----------------------------------------------------------------------------
(* Grading. *)

Shown(response) == SubSeq(response.lines, 1, response.shown)

HeaderDifferences(control, test) ==
    {pair \in SymDiff(ToSet(control.headers), ToSet(test.headers)) : pair[1] \notin Incidental}

RequestDelta(control, test) ==
    {f \in {"method", "host", "url", "body", "headers"} : control[f] # test[f]}

Caveats(control, test) ==
    (IF Cardinality(RequestDelta(control, test)) > 1 THEN {"several"} ELSE {})
    \cup (IF control.method # test.method THEN {"method"} ELSE {})
    \cup (IF control.host # test.host THEN {"host"} ELSE {})
    \cup (IF 429 \in {control.response.status, test.response.status} THEN {"429"} ELSE {})
    \cup (IF Max({control.response.status, test.response.status}) >= 500 THEN {"5xx"} ELSE {})
    \cup (IF control.response.cut \/ test.response.cut THEN {"cut"} ELSE {})

Differs(control, test) ==
    \/ control.response.status # test.response.status
    \/ Shown(control.response) # Shown(test.response)
    \/ HeaderDifferences(control.response, test.response) # {}

ProveDifferential(control, test) ==
    CASE \/ control.id = test.id
         \/ NoResponse \in {control.response, test.response}
         \/ RequestDelta(control, test) = {} -> [outcome |-> "inconclusive", caveats |-> {}]
      [] OTHER -> [outcome |-> IF Differs(control, test) THEN "confirmed" ELSE "refuted",
                   caveats |-> Caveats(control, test)]

-----------------------------------------------------------------------------
\* The lines of a comparison, without the added ones, are the one text, and
\* without the removed ones the other; and no comparison of as many lines keeps
\* more of them, unless the texts are too long for the table (compare.ts:21).
DiffIsExact(a, b) ==
    LET diff == DiffLines(a, b)
        Side(type) == LET lines == SelectSeq(diff, LAMBDA l : l.type \in {"equal", type})
                      IN [k \in DOMAIN lines |-> lines[k].text]
        Sub(s, ks) == LET kept == SelectSeq([i \in DOMAIN s |-> i], LAMBDA i : i \in ks)
                      IN [k \in DOMAIN kept |-> s[kept[k]]]
        common == {Sub(a, ks) : ks \in SUBSET DOMAIN a} \cap {Sub(b, ks) : ks \in SUBSET DOMAIN b}
        equal == Len(diff) - Len(Changed(diff))
    IN /\ Side("remove") = a /\ Side("add") = b
       /\ Max({Len(a), Len(b)}) <= MaxLines => equal = Max({Len(s) : s \in common})

RECURSIVE Leaves(_, _)
Leaves(path, j) ==
    IF j.is = "atom" THEN {<<path, j.is, j.v>>}
    ELSE {<<path, j.is>>} \cup UNION {Leaves(Append(path, k), j.v[k]) : k \in DOMAIN j.v}

\* Whatever is in one document and not in the other lies at a path that is
\* reported, or below one; no path is reported twice, none above another; and
\* documents that are the same have nothing reported.
JsonDiffIsExact(l, r) ==
    LET diff == DiffJson(l, r)
        paths == {d.path : d \in diff}
    IN /\ \A leaf \in SymDiff(Leaves(<<>>, l), Leaves(<<>>, r)) :
            \E p \in paths : IsPrefix(p, leaf[1])
       /\ Cardinality(paths) = Cardinality(diff)
       /\ \A p, q \in paths : IsPrefix(p, q) => p = q
       /\ diff = {} <=> l = r

ByteDiffIsExact(a, b) ==
    LET d == DiffBytes(a, b)
    IN /\ d.first = -1 <=> a = b
       /\ d.first >= 0 => SubSeq(a, 1, d.first) = SubSeq(b, 1, d.first) /\ d.differing > 0
       /\ d.first < Max({Len(a), Len(b)})

\* A hypothesis is refuted or confirmed only by two exchanges that are not the
\* same, of requests that differ, and that were both answered; it is confirmed
\* by something that is not incidental, and refuted only when what was read of
\* the answers is the same to the last header value (proof.ts:76).
GradeIsEarned(control, test) ==
    LET result == ProveDifferential(control, test)
        seen(r) == <<r.status, {p \in ToSet(r.headers) : p[1] \notin Incidental}, Shown(r)>>
    IN result.outcome # "inconclusive" =>
         /\ control.id # test.id /\ NoResponse \notin {control.response, test.response}
         /\ \E f \in {"method", "host", "url", "body", "headers"} : control[f] # test[f]
         /\ result.outcome = "refuted" <=> seen(control.response) = seen(test.response)
         /\ test.response.cut => "cut" \in result.caveats

\* The grade does not depend on which exchange is called the control.
GradeIsSymmetric(control, test) ==
    ProveDifferential(control, test) = ProveDifferential(test, control)

\* A result that says "refuted", with no caveat that a body was cut, is of two
\* answers that are the same as captured, as the reason it gives says
\* (proof.ts:259).  It does not hold: bodies are read up to the limit for
\* viewing, and only the limit of the capture is told.
RefutedMeansIdentical(control, test) ==
    LET result == ProveDifferential(control, test)
    IN result.outcome = "refuted" /\ "cut" \notin result.caveats =>
         control.response.lines = test.response.lines

\* A difference is graded confirmed only when one thing was varied, as the
\* comments at proof.ts:24 and 125 say.  It does not hold: it is a caveat.
ConfirmedIsAttributable(control, test) ==
    ProveDifferential(control, test).outcome = "confirmed" =>
        Cardinality(RequestDelta(control, test)) = 1
=============================================================================

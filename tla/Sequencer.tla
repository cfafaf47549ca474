------------------------------- MODULE Sequencer -------------------------------
(* The token analyzer (sequencer.ts): what it accepts, what it counts, and how *)
(* its figures become an assessment.  Entropies, correlation and compression   *)
(* are floating point: they enter as grades, 0 harmless, 1 worth a warning,    *)
(* 2 severe.                                                                   *)
EXTENDS Integers, FiniteSets, FiniteSetsExt, SequencesExt

CONSTANTS
    MaxSamples, MaxSampleBytes, MaxTotalBytes, MaxPositional

SumOver(f) == FoldFunction(LAMBDA a, b : a + b, 0, f)
Lengths(samples) == [i \in DOMAIN samples |-> Len(samples[i])]

\* Each sample is looked at with the total so far.
Accepted(samples) ==
    /\ samples # <<>> /\ Len(samples) <= MaxSamples
    /\ \A i \in DOMAIN samples :
         /\ samples[i] # <<>> /\ Len(samples[i]) <= MaxSampleBytes
         /\ SumOver(Lengths(SubSeq(samples, 1, i))) <= MaxTotalBytes

\* The samples that are long enough for a position, and the bytes they have there.
Reaching(samples, p) == {i \in DOMAIN samples : p \in DOMAIN samples[i]}
BytesAt(samples, p) == {samples[i][p] : i \in Reaching(samples, p)}

\* The entropy of a position is zero when one byte is all it has.
PositionalEntropy(samples) ==
    [p \in 1..Min({Max(ToSet(Lengths(samples))), MaxPositional}) |->
        [sampleCount |-> Cardinality(Reaching(samples, p)),
         zero |-> Cardinality(BytesAt(samples, p)) = 1]]

Frequency(samples, token) == Cardinality({i \in DOMAIN samples : samples[i] = token})

Analyze(samples) ==
    LET tokens == ToSet(samples)
        positional == PositionalEntropy(samples)
    IN [sampleCount |-> Len(samples),
        uniqueCount |-> Cardinality(tokens),
        duplicateCount |-> Len(samples) - Cardinality(tokens),
        totalBytes |-> SumOver(Lengths(samples)),
        minLength |-> Min(ToSet(Lengths(samples))),
        maxLength |-> Max(ToSet(Lengths(samples))),
        maxTokenFrequency |-> Max({Frequency(samples, t) : t \in tokens}),
        positional |-> positional,
        fixed |-> {p \in DOMAIN positional :
                      positional[p].sampleCount = Len(samples) /\ positional[p].zero}]

-----------------------------------------------------------------------------
(* The assessment, of [many, large, repeats, bytes, tokens, bits, neighbours,  *)
(* packs]: a hundred samples, a KiB of data, and six grades.                   *)

Grades == {"repeats", "bytes", "tokens", "bits", "neighbours", "packs"}

\* Repeats, bit bias and compression have one threshold, the others two; what
\* little data compresses to is not looked at.
Warnings(m) ==
    {g \in Grades \ {"packs"} : m[g] > 0} \cup (IF m.large /\ m.packs > 0 THEN {"packs"} ELSE {})

Severe(m) ==
    \/ m.repeats > 0 \/ m.bits > 0 \/ (m.large /\ m.packs > 0)
    \/ m.bytes = 2 \/ m.tokens = 2 \/ m.neighbours = 2

Assess(m) ==
    CASE ~m.many \/ ~m.large -> "insufficient-data"
      [] m.many /\ m.large /\ Severe(m) -> "poor"
      [] OTHER -> IF Warnings(m) # {} THEN "weak" ELSE "no-obvious-bias"

-----------------------------------------------------------------------------
\* A set of samples is accepted in any order or in none.
OrderIsImmaterial(samples) == Accepted(samples) <=> Accepted(Reverse(samples))

\* Every byte is counted at one position, up to the last that is looked at; a
\* constant position is one no two samples differ in; and the figures of
\* repetition agree with one another (sequencer.ts:62-101).
FiguresAgree(samples) ==
    Accepted(samples) =>
        LET a == Analyze(samples)
            counted == SumOver([p \in DOMAIN a.positional |-> a.positional[p].sampleCount])
        IN /\ counted <= a.totalBytes
           /\ a.maxLength <= MaxPositional => counted = a.totalBytes
           /\ a.fixed = {p \in 1..Min({a.minLength, MaxPositional}) :
                            \A i, j \in DOMAIN samples : samples[i][p] = samples[j][p]}
           /\ a.maxTokenFrequency - 1 <= a.duplicateCount
           /\ (a.duplicateCount = 0 <=> a.maxTokenFrequency = 1)
           /\ a.minLength * a.sampleCount <= a.totalBytes /\ a.totalBytes <= a.maxLength * a.sampleCount

Rank == [a \in {"no-obvious-bias", "weak", "poor"} |->
            CASE a = "no-obvious-bias" -> 0 [] a = "weak" -> 1 [] a = "poor" -> 2]

\* The strongest bias is never rated milder than a weaker one: with the data
\* there, a worse figure never makes the assessment better, and a verdict
\* against the tokens comes with a warning that says why (sequencer.ts:392).
AssessmentIsMonotone(m) ==
    Assess(m) # "insufficient-data" =>
        /\ \A g \in Grades, n \in 0..2 :
              n >= m[g] => Rank[Assess([m EXCEPT ![g] = n])] >= Rank[Assess(m)]
        /\ (Assess(m) = "no-obvious-bias") = (Warnings(m) = {})
=============================================================================

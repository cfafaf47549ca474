------------------------------- MODULE HuntMemory -------------------------------
(* What hunts learned, kept across projects in one file of lines               *)
(* (huntMemory.ts), and how a project records and recalls it                   *)
(* (session.ts:1344-1400, 1579-1603, ai/tools.ts:333-396).                     *)
(*                                                                             *)
(* Nothing orders the calls: a record is appended, then the file is read back  *)
(* and, when it is too long, written again from what was read; a write empties *)
(* the file and fills it.  The process may die at any point.                   *)
(*                                                                             *)
(* A line is [id, program, host, shape, klass, outcome, note], ids in the      *)
(* order the records were made, which is that of their times.  A path is a     *)
(* sequence of segments; a note a sequence of tokens, a secret among them two  *)
(* tokens, SecretHead and SecretTail, of which no pattern knows one alone.     *)
EXTENDS Integers, FiniteSets, FiniteSetsExt, SequencesExt, Picked

CONSTANTS
    Engagements,    \* the projects
    ProgramOf,      \* ProgramOf[p]: the program in its profile, "" when never filled in
    NameOf,         \* NameOf[p]: its authorization reference, or its name
    Outcomes,       \* what runs record, one after the other: [host, path, klass, outcome, note]
    QueryHosts,     \* hosts a recall may ask for
    IdSegments,     \* segments that read as an identifier
    SecretHead, SecretTail,
    MaxRecords,     \* records kept
    MaxNote, MaxRaw,            \* tokens of a note kept, and looked at
    Calls           \* calls that may be under way at a time

ASSUME MemoryAssumption == MaxRecords \in Nat \ {0}

\* A note is text, and the bounds on it are numbers of tokens.
ASSUME NotesAssumption ==
    /\ MaxNote \in Nat /\ MaxRaw \in Nat
    /\ Outcomes \in Seq({Outcomes[i] : i \in DOMAIN Outcomes})
    /\ \A i \in DOMAIN Outcomes :
           Outcomes[i].note \in Seq({Outcomes[i].note[k] : k \in DOMAIN Outcomes[i].note})

VARIABLES
    file,           \* the lines on disk
    engaged,        \* the open project, or NoEngagement
    calls,          \* calls[c]: a call under way, or Returned
    answer,         \* the last recall: [by, label, all, read, entries]
    made,           \* records made so far, oldest first
    kept,           \* of them, those written since the last clear, oldest first
    overlapped      \* whether two calls that write ever overlapped, or the process died

huntVars == <<file, engaged, calls, answer, made, kept, overlapped>>

NoEngagement == "no project"
NoProgram == ""
Returned == [phase |-> "returned"]
NoAnswer == [by |-> NoEngagement, label |-> NoProgram, all |-> FALSE, read |-> <<>>, entries |-> {}]

-----------------------------------------------------------------------------
(* Text. *)

FirstTokens(note, n) == SubSeq(note, 1, Min({n, Len(note)}))

Masked(note) ==
    LET whole(i) == i < Len(note) /\ note[i] = SecretHead /\ note[i + 1] = SecretTail
        shown == [i \in DOMAIN note |-> IF whole(i) THEN "[REDACTED]" ELSE note[i]]
    IN Picked(shown, {i \in DOMAIN note : ~(i > 1 /\ whole(i - 1))})

Clean(note) == FirstTokens(Masked(FirstTokens(note, MaxRaw)), MaxNote)

PathShape(path) == [i \in DOMAIN path |-> IF path[i] \in IdSegments THEN "{id}" ELSE path[i]]

-----------------------------------------------------------------------------
(* Labels. *)

\* recordHuntOutcome: the tool gives no program.
RecordLabel(p) == IF p = NoEngagement THEN NoProgram ELSE ProgramOf[p]

\* currentProgramLabel.
RecallLabel(p) ==
    CASE p = NoEngagement -> NoProgram
      [] p # NoEngagement /\ ProgramOf[p] # NoProgram -> ProgramOf[p]
      [] OTHER -> NameOf[p]

-----------------------------------------------------------------------------
(* Recalling. *)

\* query: [host, klass, program], NoProgram in each for any.
MatchesQuery(r, query) ==
    /\ query.host \in {NoProgram, r.host}
    /\ query.klass \in {NoProgram, r.klass}
    /\ query.program \in {NoProgram, r.program}

Suggestion(confirmed, refuted) ==
    CASE confirmed > 0 -> IF refuted = 0 THEN "early" ELSE "mixed"
      [] confirmed = 0 /\ refuted > 0 -> IF refuted >= 3 THEN "last" ELSE "not first"
      [] OTHER -> "cleaner control"

Matched(records, query) == {i \in DOMAIN records : MatchesQuery(records[i], query)}

\* Of the rows, positions of records: a record seen no earlier than those before
\* it brings its note, when it has one.
LatestNote(records, rows) ==
    LET brings(i) == records[i].note # <<>> /\ \A j \in rows : j < i => records[j].id <= records[i].id
        noted == {i \in rows : brings(i)}
    IN IF noted = {} THEN <<>> ELSE records[Max(noted)].note

MergedEntry(records, rows, query) ==
    LET first == records[Min(rows)]
        n(outcome) == Cardinality({i \in rows : records[i].outcome = outcome})
    IN [shape |-> first.shape, klass |-> first.klass,
        confirmed |-> n("confirmed"), refuted |-> n("refuted"), inconclusive |-> n("inconclusive"),
        lastSeen |-> Max({records[i].id : i \in rows}), latestNote |-> LatestNote(records, rows),
        hosts |-> IF query.program = NoProgram THEN {} ELSE {records[i].host : i \in rows},
        suggestion |-> Suggestion(n("confirmed"), n("refuted"))]

OfKind(records, rows, i) ==
    {j \in rows : records[j].shape = records[i].shape /\ records[j].klass = records[i].klass}

Merge(records, rows, query) == {MergedEntry(records, OfKind(records, rows, i), query) : i \in rows}

\* Whatever the query asks for is recalled, the program not among it.
RecallEverything(records, query) ==
    Merge(records, Matched(records, [query EXCEPT !.program = NoProgram]), query)

Recall(records, query) == Merge(records, Matched(records, query), query)

-----------------------------------------------------------------------------
(* Calls. *)

Writing(c) == calls[c].phase \notin {"returned", "recalling"}
Call(c, call) == calls[c] = Returned /\ calls' = [calls EXCEPT ![c] = call]
Overlaps(c) == overlapped' = (overlapped \/ \E d \in Calls \ {c} : Writing(d))

RecordHuntOutcome(c) ==
    /\ Len(made) < Len(Outcomes)
    /\ LET input == Outcomes[Len(made) + 1]
           r == [id |-> Len(made) + 1, program |-> RecordLabel(engaged), host |-> input.host,
                 shape |-> PathShape(input.path), klass |-> input.klass, outcome |-> input.outcome,
                 note |-> Clean(input.note)]
       IN /\ Call(c, [phase |-> "appending", record |-> r])
          /\ made' = Append(made, [line |-> r, input |-> input, by |-> engaged])
    /\ Overlaps(c) /\ UNCHANGED <<file, engaged, kept>>

\* A failure of the disk ends the call and nobody is told.
AppendLine(c) ==
    /\ calls[c].phase = "appending"
    /\ \/ /\ file' = Append(file, calls[c].record) /\ kept' = Append(kept, calls[c].record)
          /\ calls' = [calls EXCEPT ![c].phase = "reading"]
       \/ calls' = [calls EXCEPT ![c] = Returned] /\ UNCHANGED <<file, kept>>
    /\ UNCHANGED <<engaged, made, overlapped>>

CompactedOldest(records) == SubSeq(records, 1, MaxRecords)
Compacted(records) == SubSeq(records, Len(records) - MaxRecords + 1, Len(records))

CompactIfNeeded(c) ==
    /\ calls[c].phase = "reading"
    /\ calls' = [calls EXCEPT ![c] = IF Len(file) <= MaxRecords THEN Returned
                                     ELSE [phase |-> "rewriting", body |-> Compacted(file)]]
    /\ UNCHANGED <<file, engaged, made, kept, overlapped>>

\* The file is emptied, and some of the lines are in it.
BeginRewrite(c) ==
    /\ calls[c].phase = "rewriting"
    /\ \E n \in 0..(MaxRecords - 1) : file' = SubSeq(calls[c].body, 1, n)
    /\ calls' = [calls EXCEPT ![c].phase = "filling"]
    /\ UNCHANGED <<engaged, made, kept, overlapped>>

\* The lines are written from the beginning, over any that came in between.
EndRewrite(c) ==
    /\ calls[c].phase = "filling"
    /\ file' = calls[c].body /\ calls' = [calls EXCEPT ![c] = Returned]
    /\ UNCHANGED <<engaged, made, kept, overlapped>>

ClearHuntMemory(c) ==
    /\ Call(c, [phase |-> "clearing"]) /\ Overlaps(c)
    /\ UNCHANGED <<file, engaged, made, kept>>

RemoveFile(c) ==
    /\ calls[c].phase = "clearing" /\ calls' = [calls EXCEPT ![c] = Returned]
    /\ file' = <<>> /\ kept' = <<>>
    /\ UNCHANGED <<engaged, made, overlapped>>

\* Without a label nothing is recalled, unless the operator asks for all.
RecallHuntHistory(c, all, host) ==
    LET label == IF all THEN NoProgram ELSE RecallLabel(engaged)
    IN IF ~all /\ label = NoProgram
       THEN /\ calls[c] = Returned /\ answer' = [NoAnswer EXCEPT !.by = engaged]
            /\ UNCHANGED <<file, engaged, calls, made, kept, overlapped>>
       ELSE /\ Call(c, [phase |-> "recalling", by |-> engaged, all |-> all,
                        query |-> [host |-> host, klass |-> NoProgram, program |-> label]])
            /\ answer' = NoAnswer /\ UNCHANGED <<file, engaged, made, kept, overlapped>>

EndRecall(c) ==
    /\ calls[c].phase = "recalling" /\ calls' = [calls EXCEPT ![c] = Returned]
    /\ answer' = [by |-> calls[c].by, label |-> calls[c].query.program, all |-> calls[c].all,
                  read |-> file, entries |-> Recall(file, calls[c].query)]
    /\ UNCHANGED <<file, engaged, made, kept, overlapped>>

-----------------------------------------------------------------------------
SwitchEngagement ==
    /\ engaged' \in (Engagements \cup {NoEngagement}) \ {engaged}
    /\ UNCHANGED <<file, calls, made, kept, overlapped>>

Die ==
    /\ \E c \in Calls : Writing(c)
    /\ calls' = [c \in Calls |-> Returned] /\ engaged' = NoEngagement /\ overlapped' = TRUE
    /\ UNCHANGED <<file, made, kept>>

HuntInit ==
    /\ file = <<>> /\ engaged = NoEngagement /\ calls = [c \in Calls |-> Returned]
    /\ answer = NoAnswer /\ made = <<>> /\ kept = <<>> /\ overlapped = FALSE

\* An answer is there until the next step that is not an answer.
HuntNext ==
    \/ /\ answer' = NoAnswer
       /\ \/ \E c \in Calls : \/ RecordHuntOutcome(c) \/ AppendLine(c) \/ CompactIfNeeded(c) \/ BeginRewrite(c) \/ EndRewrite(c)
                               \/ ClearHuntMemory(c) \/ RemoveFile(c)
          \/ SwitchEngagement \/ Die
    \/ \E c \in Calls : \/ EndRecall(c)
                        \/ \E all \in BOOLEAN, host \in QueryHosts :
                               RecallHuntHistory(c, all, host)

MemorySpec == HuntInit /\ [][HuntNext]_huntVars

-----------------------------------------------------------------------------
LineOf(id) == made[id].line

\* Nothing of another engagement is in what a recall returns: each of its entries
\* counts lines of its own label alone, and a recall over all engagements, which
\* only the operator makes, names no host (session.ts:1350).
RecallIsOfTheEngagement ==
    \A e \in answer.entries :
        LET mine == {r \in ToSet(answer.read) : r.shape = e.shape /\ r.klass = e.klass
                                                /\ (answer.all \/ r.program = answer.label)}
        IN /\ e.confirmed + e.refuted + e.inconclusive <= Cardinality(mine)
           /\ e.lastSeen \in {r.id : r \in mine}
           /\ e.hosts \subseteq {r.host : r \in mine} /\ (answer.all => e.hosts = {})
           /\ ~answer.all => answer.label # NoProgram /\ answer.label = RecallLabel(answer.by)

\* A lesson about one object is one about all of its shape: two records of a
\* label whose paths differ in an identifier alone are never in two entries.
LessonsTransfer ==
    \A d, e \in answer.entries : d.shape = e.shape /\ d.klass = e.klass => d = e

\* Of a note that is looked at whole, no part of a secret is stored, even when
\* only its beginning is kept (huntMemory.ts:138).
NoPartOfASecret ==
    \A r \in {made[i] : i \in DOMAIN made} :
        LET fragments(note) == {k \in DOMAIN note : note[k] \in {SecretHead, SecretTail}}
        IN Len(r.input.note) <= MaxRaw /\ fragments(Masked(r.input.note)) = {} =>
             fragments(r.line.note) = {}

\* As long as no two writing calls overlap and the process lives, the file is
\* the newest of what was recorded since the last clear: nothing newer is dropped
\* for something older, nothing cleared comes back, and it stays in its bound.
NewestAreKept ==
    ~overlapped /\ (\A c \in Calls : ~Writing(c)) =>
        file = SubSeq(kept, Max({1, Len(kept) - MaxRecords + 1}), Len(kept))

\* Overlapping calls may lose lines, never make any up or out of order of one
\* another's, and leave the file in its bound.
LinesAreGenuine ==
    /\ \A i \in DOMAIN file : file[i] = LineOf(file[i].id)
    /\ \A i, j \in DOMAIN file : i # j => file[i].id # file[j].id
    /\ (\A c \in Calls : ~Writing(c)) /\ ~overlapped => Len(file) <= MaxRecords

\* Recalls stay within their engagement and notes hold no part of a secret
\* (huntMemory.ts:138, 248; session.ts:1350).
RecallsCorrect == RecallIsOfTheEngagement /\ LessonsTransfer /\ NoPartOfASecret

\* The file keeps the newest lines, all of them genuine (huntMemory.ts:152-240).
MemoryCorrect == NewestAreKept /\ LinesAreGenuine

\* What an engagement recorded and the file still holds, it recalls: each has its
\* own scope rather than none (session.ts:1590).  It does not hold: a record is
\* made under the program of the profile alone, so one of a project whose profile
\* was never filled in has no label and is recalled by none.
RecordedIsRecalled ==
    \A r \in ToSet(file) :
        LET by == made[r.id].by
        IN by # NoEngagement => r.program = RecallLabel(by)

\* What was erased does not come back.  It does not hold: a rewrite under way
\* writes what it read before (huntMemory.ts:239).
ErasedStaysErased == \A r \in ToSet(file) : r \in ToSet(kept)
=============================================================================

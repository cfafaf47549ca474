------------------------------ MODULE Records ------------------------------
(* The tables of an open project and what happens to them concurrently:     *)
(* captured exchanges and the passive scan of each (session.ts, scanner/),   *)
(* findings and suppression rules (findingsRepo.ts), WebSocket frames        *)
(* (wsRepo.ts), annotations, the paged export and the import                 *)
(* (projectStore.ts).  Every SQL statement is one step; an `await` between   *)
(* two of them is where the other operations come in.                        *)
EXTENDS Naturals, Sequences, FiniteSets, SequencesExt

CONSTANTS
    Ex,          \* exchanges; their numbers are their created_at
    Keys,        \* the dedupe keys of findings
    Hosts,       \* HostOf maps an exchange to one of them
    HostOf,
    Rules,       \* suppression rules: records [key, host], "" for an empty field
    PageSize,    \* bound: the export reads pages of 2000
    Upgraded,    \* the exchanges that became WebSocket connections
    Noted,       \* bound: the exchanges anybody annotates
    Marks        \* annotations: the operator's, and "tool" for note_exchange

NoHost == "undefined"   \* a finding comes without its host

ASSUME RecordsAssumption ==
    /\ Ex \subseteq Nat
    /\ HostOf \in [Ex -> Hosts] /\ "" \notin Keys \cup Hosts /\ NoHost \notin Hosts
    /\ Rules \subseteq [key : Keys \cup {""}, host : Hosts \cup {""}]
    /\ PageSize \in Nat \ {0}
    /\ "tool" \in Marks /\ Upgraded \subseteq Ex /\ Noted \subseteq Ex

VARIABLES
    exchanges,   \* the rows of the history
    findings,    \* rows [ex, key, hidden]
    frames,      \* the exchanges a WebSocket frame was stored for
    rules,       \* the suppression rules in force
    notes,       \* notes[e]: the annotations on a row
    scan,        \* scan[e]: "none", "running" or "done"
    announced,   \* the <<exchange, key>> of the `finding` events
    toggled,     \* the findings the operator hid or showed by hand
    tool,        \* note_exchange between its read and its write
    export       \* the export in progress, or its result

recordsVars == <<exchanges, findings, frames, rules, notes, scan, announced, toggled, tool, export>>

NoTool   == [on |-> FALSE, ex |-> 0, read |-> {}, missed |-> {}]
NoExport == [at |-> "none", offset |-> 0, page |-> <<>>, total |-> 0, rows |-> <<>>,
             disturbed |-> FALSE, imports |-> FALSE, whole |-> FALSE]

Pair(f) == <<f.ex, f.key>>

RecordsTypeOK ==
    /\ exchanges \subseteq Ex /\ frames \subseteq Ex
    /\ findings \subseteq [ex : Ex, key : Keys, hidden : BOOLEAN]
    /\ rules \subseteq Rules
    /\ notes \in [Ex -> SUBSET Marks]
    /\ scan \in [Ex -> {"none", "running", "done"}]
    /\ announced \subseteq Ex \X Keys /\ toggled \subseteq Ex \X Keys
    /\ export.at \in {"none", "page", "done"}
    /\ export.rows \in Seq(Ex)

RecordsInit ==
    /\ exchanges = {} /\ findings = {} /\ frames = {} /\ rules = {}
    /\ notes = [e \in Ex |-> {}]
    /\ scan = [e \in Ex |-> "none"]
    /\ announced = {} /\ toggled = {}
    /\ tool = NoTool
    /\ export = NoExport

Disturb(x) == [x EXCEPT !.disturbed = @ \/ x.at = "page"]

----------------------------------------------------------------------------
(* Capture and scan.                                                         *)

\* ingest: the row, then the scan beside it.  An insert that throws is logged
\* and the scan runs all the same.
Ingest(e) ==
    /\ scan[e] = "none"
    /\ scan' = [scan EXCEPT ![e] = "running"]
    /\ exchanges' \in {exchanges, exchanges \cup {e}}
    /\ export' = Disturb(export)
    /\ UNCHANGED <<findings, frames, rules, notes, announced, toggled, tool>>

\* One rule against one finding; an unknown host matches no host rule.
Matches(rule, e, key, host) ==
    /\ rule.key # "" \/ rule.host # ""
    /\ rule.key \in {"", key}
    /\ rule.host \in {"", host}

Suppressed(e, key, host) == \E rule \in rules : Matches(rule, e, key, host)

Exists(fs, e, key) == \E f \in fs : f.ex = e /\ f.key = key

\* upsert of one finding over the table fs.
Upserted(fs, e, key, host) ==
    IF Exists(fs, e, key) THEN fs
    ELSE fs \cup {[ex |-> e, key |-> key, hidden |-> Suppressed(e, key, host)]}

\* A mutant: upsert reports every row it wrote, the suppressed ones too.
NewlyWritten(e, keys, host) == {<<e, k>> : k \in {x \in keys : ~Exists(findings, e, x)}}

\* The pairs upsert returns true for.
NewlyVisible(e, keys, host) ==
    {<<e, k>> : k \in {x \in keys : ~Exists(findings, e, x) /\ ~Suppressed(e, x, host)}}

Upsert(e, keys, host) ==
    /\ findings' = findings \cup
         UNION {Upserted(findings, e, k, host) : k \in keys}
    /\ announced' = announced \cup NewlyVisible(e, keys, host)

\* The scan resolves.  The foreign key refuses a finding whose exchange has no
\* row, cleared meanwhile or never written: the loop ends there.
ScanResolves(e, keys) ==
    /\ scan[e] = "running"
    /\ scan' = [scan EXCEPT ![e] = "done"]
    /\ IF e \in exchanges THEN Upsert(e, keys, HostOf[e])
       ELSE UNCHANGED <<findings, announced>>
    /\ export' = Disturb(export)
    /\ UNCHANGED <<exchanges, frames, rules, notes, toggled, tool>>

\* A finding an extension created by itself comes without a host.
ExtensionFinding(e, key) ==
    /\ scan[e] # "none" /\ e \in exchanges
    /\ Upsert(e, {key}, NoHost)
    /\ export' = Disturb(export)
    /\ UNCHANGED <<exchanges, frames, rules, notes, scan, toggled, tool>>

\* A frame of an upgraded connection; without its row it is logged and lost.
IngestWsMessage(e) ==
    /\ e \in exchanges \cap Upgraded /\ e \notin frames
    /\ frames' = frames \cup {e}
    /\ export' = Disturb(export)
    /\ UNCHANGED <<exchanges, findings, rules, notes, scan, announced, toggled, tool>>

----------------------------------------------------------------------------
(* The operator.                                                             *)

AddSuppression(rule) ==
    /\ rule \notin rules
    /\ rules' = rules \cup {rule}
    /\ export' = Disturb(export)
    /\ UNCHANGED <<exchanges, findings, frames, notes, scan, announced, toggled, tool>>

RemoveSuppression(rule) ==
    /\ rule \in rules
    /\ rules' = rules \ {rule}
    /\ export' = Disturb(export)
    /\ UNCHANGED <<exchanges, findings, frames, notes, scan, announced, toggled, tool>>

SetSuppressed(f) ==
    /\ f \in findings
    /\ findings' = (findings \ {f}) \cup {[f EXCEPT !.hidden = ~@]}
    /\ toggled' = toggled \cup {Pair(f)}
    /\ export' = Disturb(export)
    /\ UNCHANGED <<exchanges, frames, rules, notes, scan, announced, tool>>

\* DELETE FROM exchanges: findings and frames go with their rows.
ClearHistory ==
    /\ exchanges # {}
    /\ exchanges' = {} /\ findings' = {} /\ frames' = {}
    /\ notes' = [e \in Ex |-> {}]
    /\ export' = Disturb(export)
    /\ UNCHANGED <<rules, scan, announced, toggled, tool>>

\* The operator adds a mark to what the row shows.
UpdateNotesTags(e, mark) ==
    /\ e \in exchanges \cap Noted /\ mark \notin notes[e] \cup {"tool"}
    /\ notes' = [notes EXCEPT ![e] = @ \cup {mark}]
    /\ tool' = IF tool.on /\ tool.ex = e THEN [tool EXCEPT !.missed = @ \cup {mark}] ELSE tool
    /\ UNCHANGED <<exchanges, findings, frames, rules, scan, announced, toggled, export>>

\* note_exchange: getExchangeDetail reads the row, and awaits its bodies ...
NoteReads(e) ==
    /\ ~tool.on /\ e \in exchanges \cap Noted
    /\ tool' = [on |-> TRUE, ex |-> e, read |-> notes[e], missed |-> {}]
    /\ UNCHANGED <<exchanges, findings, frames, rules, notes, scan, announced, toggled, export>>

\* A mutant: the tool replaces what is there.
NoteReplaces ==
    /\ tool.on
    /\ notes' = IF tool.ex \in exchanges
                THEN [notes EXCEPT ![tool.ex] = {"tool"}] ELSE notes
    /\ tool' = NoTool
    /\ UNCHANGED <<exchanges, findings, frames, rules, scan, announced, toggled, export>>

\* ... then writes what it read, with its own mark, over what is there now.
NoteWrites ==
    /\ tool.on
    /\ notes' = IF tool.ex \in exchanges
                THEN [notes EXCEPT ![tool.ex] = tool.read \cup {"tool"}] ELSE notes
    /\ tool' = NoTool
    /\ UNCHANGED <<exchanges, findings, frames, rules, scan, announced, toggled, export>>

----------------------------------------------------------------------------
(* Export and import.                                                        *)

\* import of an export that holds `rows` and the findings and frames of now: it
\* inserts the exchanges one by one (the id is the primary key), then the
\* findings and at the end the frames, each of which needs its row.
Importable(rows) ==
    /\ IsInjective(rows)
    /\ \A f \in findings : f.ex \in ToSet(rows)
    /\ frames \subseteq ToSet(rows)

\* The history oldest first.
Rank(e) == Cardinality({d \in exchanges : d <= e})
Sorted  == [i \in 1..Cardinality(exchanges) |-> CHOOSE e \in exchanges : Rank(e) = i]

\* One page of it, and the count at that moment.
Query(offset) ==
    LET total == Cardinality(exchanges)
        last  == Min({offset + PageSize, total})
    IN [rows |-> SubSeq(Sorted, offset + 1, last), total |-> total]

ExportStarts ==
    /\ export.at = "none"
    /\ export' = [NoExport EXCEPT !.at = "page", !.page = Query(0).rows, !.total = Query(0).total]
    /\ UNCHANGED <<exchanges, findings, frames, rules, notes, scan, announced, toggled, tool>>

NextOffset == export.offset + PageSize

\* The bodies of the page were awaited.  Go on with the next page, or read the
\* other tables and return: the count that decides is the page's, not today's.
ExportAdvances ==
    /\ export.at = "page"
    /\ LET rows == export.rows \o export.page
           last == \/ export.offset + Len(export.page) >= export.total
                   \/ export.page = <<>>
       IN export' =
            IF last
            THEN [export EXCEPT !.at = "done", !.rows = rows, !.page = <<>>, !.offset = 0,
                                !.total = 0, !.imports = Importable(rows),
                                !.whole = (ToSet(rows) = exchanges)]
            ELSE [export EXCEPT !.rows = rows, !.offset = NextOffset,
                                !.page = Query(NextOffset).rows,
                                !.total = Query(NextOffset).total]
    /\ UNCHANGED <<exchanges, findings, frames, rules, notes, scan, announced, toggled, tool>>

\* The result was written to a file.
ExportForgotten ==
    /\ export.at = "done"
    /\ export' = NoExport
    /\ UNCHANGED <<exchanges, findings, frames, rules, notes, scan, announced, toggled, tool>>

RecordsNext ==
    \/ \E e \in Ex :
          \/ Ingest(e)
          \/ \E keys \in SUBSET Keys : ScanResolves(e, keys)
          \/ \E key \in Keys : ExtensionFinding(e, key)
          \/ IngestWsMessage(e)
          \/ \E mark \in Marks : UpdateNotesTags(e, mark)
          \/ NoteReads(e)
    \/ \E rule \in Rules : AddSuppression(rule) \/ RemoveSuppression(rule)
    \/ \E f \in findings : SetSuppressed(f)
    \/ ClearHistory
    \/ NoteWrites
    \/ ExportStarts \/ ExportAdvances \/ ExportForgotten

RecordsSpec == RecordsInit /\ [][RecordsNext]_recordsVars

----------------------------------------------------------------------------
(* Properties.                                                               *)

\* findingsRepo.ts:32: an exchange has one finding per dedupe key, although
\* the scan and the extension's own findings race and rules come and go.
OneFindingPerKey ==
    \A f, g \in findings : Pair(f) = Pair(g) => f = g

\* No finding and no frame outlives its exchange, however late the scan ends.
NoOrphans ==
    /\ \A f \in findings : f.ex \in exchanges
    /\ frames \subseteq exchanges

\* findingsRepo.ts:38: the badge counts the `finding` events and the list the
\* rows that are not hidden.  The two differ only by what the operator toggled.
BadgeMatchesList ==
    \A f \in findings :
        Pair(f) \notin toggled => (f.hidden <=> Pair(f) \notin announced)

TablesAgree == RecordsTypeOK /\ OneFindingPerKey /\ NoOrphans

\* A finding enters hidden only by a rule that names its key or the host of
\* its exchange: a rule with neither, however it came in, hides nothing.
HiddenForAReason ==
    [][\A f \in findings' \ findings :
         f.hidden /\ ~Exists(findings, f.ex, f.key) =>
           \E rule \in rules : \/ rule.key = f.key
                               \/ rule.host = HostOf[f.ex]]_recordsVars

\* An annotation goes only with its row, or to the tool's write when it came
\* between the tool's read and that write.
MarksAreKept ==
    [][\A e \in Ex : \A mark \in notes[e] \ notes'[e] :
         \/ exchanges' = {}
         \/ tool.on /\ tool.ex = e /\ mark \in tool.missed]_recordsVars

\* What is written over a finding or its annotations has a cause the operator
\* can name (findingsRepo.ts, ai/tools.ts:540).
WritesAreJustified == HiddenForAReason /\ MarksAreKept

\* An export nothing disturbed is the project: it imports, and every exchange
\* is in it once and in order, across the page boundaries.
QuietExportIsComplete ==
    export.at = "done" /\ ~export.disturbed =>
        /\ export.imports /\ export.whole
        /\ \A i, j \in DOMAIN export.rows : i < j => export.rows[i] < export.rows[j]

\* The tables agree with one another and with what the view shows of them, and
\* an export nobody disturbed is whole (findingsRepo.ts, projectStore.ts).
RecordsCorrect == TablesAgree /\ BadgeMatchesList /\ QuietExportIsComplete

\* projectStore.ts:190: "Page through ALL exchanges so large projects export
\* in full".  What is exported can be imported again, also when traffic went
\* on meanwhile.
ExportsImport == export.at = "done" => export.imports
=============================================================================

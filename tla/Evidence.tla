-------------------------------- MODULE Evidence --------------------------------
(* The evidence of one target: a bundle saved by the operator, or a handoff to *)
(* the mesh (session.ts:985-1212, bundle.ts, handoff.ts, main/ipc.ts:125).     *)
(*                                                                             *)
(* What a project holds of a host is collected at one point; every exchange is *)
(* then read back from the project that is open by then, as are the briefing,  *)
(* the run that is started and the audit log.  Meanwhile the operator switches *)
(* or closes the project, clears its history, edits its scope.                 *)
(*                                                                             *)
(* A row of history is [id, host, path], the host as the request spelled it.   *)
(* A rule is <<host, path>>, its path AnyWhere when it has none.               *)
EXTENDS Integers, FiniteSets, FiniteSetsExt, SequencesExt, Picked

CONSTANTS
    Stores,         \* the projects
    Histories,      \* what each may hold at first: p -> rows, newest first
    RuleSets,       \* the scopes the operator may set
    Flagged,        \* exchanges with a finding
    Wanted,         \* hosts evidence is asked for
    Canonical,      \* Canonical[h]: normalizeHost, lower case without trailing dots
    LowerCase,      \* LowerCase[h]: lower case alone
    LikeHost,       \* <<row's host, wanted>>: the substring match of the query
    AnyWhere,
    PageSize, ScanCap,          \* rows of a page of the query, rows scanned at most
    MaxExchanges,
    MaxJobs, MaxTurns           \* bounds of the model

\* No exchange goes by the identifier that stands for no file.
ASSUME FlaggedAssumption == "none" \notin Flagged

\* A history holds each exchange once, of a host whose canonical form is a part
\* of it as it was spelled.
ASSUME HistoriesAssumption ==
    /\ PageSize \in Nat \ {0} /\ ScanCap \in Nat /\ MaxExchanges \in Nat
    /\ \A h \in Histories, p \in Stores :
          /\ h[p] \in Seq(ToSet(h[p]))
          /\ \A i, j \in DOMAIN h[p] : h[p][i].id = h[p][j].id => i = j
          /\ \A i \in DOMAIN h[p] : /\ h[p][i].host \in DOMAIN Canonical
                                    /\ <<h[p][i].host, Canonical[h[p][i].host]>> \in LikeHost
    /\ \A h \in Histories : h = [p \in Stores |-> h[p]]

VARIABLES
    open,           \* the open project, or NoStore
    held,           \* held[p]: its history, newest first
    rules,          \* rules[p]: its enabled include rules
    logged,         \* logged[p]: audit rows <<action, host>>, oldest first
    job,            \* the bundle or the handoff in the making, or NoJob
    disk,           \* bundles on disk
    started,        \* mesh runs a handoff started
    turns           \* changes made by the operator so far

evidenceVars == <<open, held, rules, logged, job, disk, started, turns>>

NoStore == "no-project"
NoJob == [phase |-> "none"]

-----------------------------------------------------------------------------
(* Collecting. *)

PathInScope(p, host, path) == \E r \in rules[p] : r[1] = host /\ r[2] \in {AnyWhere, path}

\* The rows that match the substring, and those of them that the queries return
\* a page after the other: no page is asked for once the cap is reached.
Like(p, wanted) == {i \in DOMAIN held[p] : <<held[p][i].host, wanted>> \in LikeHost}

Scanned(p, wanted) ==
    {i \in Like(p, wanted) : LET before == Cardinality({j \in Like(p, wanted) : j < i})
                             IN before - (before % PageSize) < ScanCap}

Exact(p, wanted) == {i \in Scanned(p, wanted) : Canonical[held[p][i].host] = wanted}

Ids(rows) == {rows[i].id : i \in DOMAIN rows}

\* The endpoints of the site map are asked, then the host without a path.
TargetInScope(p, wanted) ==
    \/ \E r \in ToSet(held[p]) : Canonical[r.host] = wanted /\ PathInScope(p, wanted, r.path)
    \/ PathInScope(p, wanted, "/")

CollectTargetEvidence(p, wanted) ==
    LET exact == Exact(p, wanted)
    IN [exchanges |-> Picked(held[p], {i \in exact : RankIn(exact, i) <= MaxExchanges}),
        available |-> Cardinality(exact), findings |-> {held[p][i].id : i \in exact} \cap Flagged,
        audit |-> SelectSeq(logged[p], LAMBDA a : a[2] = wanted),
        inScope |-> TargetInScope(p, wanted), failClosed |-> rules[p] = {}]

-----------------------------------------------------------------------------
(* Building. *)

\* The host is compared once more, now without its trailing dots taken off.
Mine(host, exchanges) == Picked(exchanges, {i \in DOMAIN exchanges : LowerCase[exchanges[i].host] = host})

Begin(kind, host) ==
    LET got == CollectTargetEvidence(open, Canonical[host])
    IN /\ job.phase \in {"none", "done", "failed"} /\ open # NoStore
       /\ Cardinality(disk) + Cardinality(started) < MaxJobs
       /\ job' = [phase |-> "rendering", kind |-> kind, from |-> open, host |-> Canonical[host],
                  got |-> got, mine |-> Mine(Canonical[host], got.exchanges), next |-> 1,
                  files |-> <<>>, readFrom |-> {}, briefing |-> NoStore]
       /\ UNCHANGED <<open, held, rules, logged, disk, started, turns>>

BuildTargetEvidenceBundle(host) == Begin("bundle", host)
HandoffTargetToMesh(host) == Begin("handoff", host)

\* getExchangeDetail of whatever project is open: one without the exchange
\* leaves it out, and no project at all ends the job.
RenderNext ==
    /\ job.phase = "rendering" /\ job.next <= Len(job.mine)
    /\ LET row == job.mine[job.next]
       IN job' = IF open = NoStore THEN [job EXCEPT !.phase = "failed"]
                 ELSE IF row.id \in Ids(held[open])
                 THEN [job EXCEPT !.next = @ + 1, !.files = Append(@, row.id), !.readFrom = @ \cup {open}]
                 ELSE [job EXCEPT !.next = @ + 1]
    /\ UNCHANGED <<open, held, rules, logged, disk, started, turns>>

\* engineBriefing needs no project; the manifest and the archive follow at once.
Brief ==
    /\ job.phase = "rendering" /\ job.next > Len(job.mine)
    /\ job' = [job EXCEPT !.phase = IF job.kind = "bundle" THEN "dialog" ELSE "deciding",
                          !.briefing = open]
    /\ UNCHANGED <<open, held, rules, logged, disk, started, turns>>

HandoffFinding(j, id) ==
    [exchange |-> id, file |-> IF id \in ToSet(j.files) THEN id ELSE "none"]

\* The first of the constraints, when it is a condition to stop.
StopCondition(j) ==
    CASE j.got.failClosed -> "no-rule"
      [] ~j.got.failClosed /\ ~j.got.inScope -> "out-of-scope"
      [] OTHER -> "none"

BuildHandoff(j) ==
    [host |-> j.host, stop |-> StopCondition(j), inScope |-> j.got.inScope,
     findings |-> {HandoffFinding(j, id) : id \in j.got.findings},
     alreadyTried |-> {<<a, Cardinality({i \in DOMAIN j.got.audit : j.got.audit[i][1] = a})>> :
                          a \in {x[1] : x \in ToSet(j.got.audit)}}]

Bundle(j) ==
    [host |-> j.host, from |-> j.from, files |-> j.files, count |-> Len(j.files),
     available |-> j.got.available, handoff |-> BuildHandoff(j)]

-----------------------------------------------------------------------------
(* Saving. *)

CancelSave ==
    /\ job.phase = "dialog" /\ job' = [job EXCEPT !.phase = "done"]
    /\ UNCHANGED <<open, held, rules, logged, disk, started, turns>>

\* Audited before the file is written.
AuditEarly ==
    /\ job.phase = "dialog"
    /\ job' = [job EXCEPT !.phase = "written"]
    /\ logged' = IF open = NoStore THEN logged
                 ELSE [logged EXCEPT ![open] = Append(@, <<"exported", job.host>>)]
    /\ UNCHANGED <<open, held, rules, disk, started, turns>>

WriteBundle ==
    /\ job.phase = "dialog"
    /\ \/ job' = [job EXCEPT !.phase = "written"] /\ disk' = disk \cup {Bundle(job)}
       \/ job' = [job EXCEPT !.phase = "failed"] /\ UNCHANGED disk
    /\ UNCHANGED <<open, held, rules, logged, started, turns>>

\* The audit row goes to the open project, if any.
RecordEvidenceExport ==
    /\ job.phase = "written" /\ job' = [job EXCEPT !.phase = "done"]
    /\ logged' = IF open = NoStore THEN logged
                 ELSE [logged EXCEPT ![open] = Append(@, <<"exported", job.host>>)]
    /\ UNCHANGED <<open, held, rules, disk, started, turns>>

-----------------------------------------------------------------------------
(* Handing over. *)

\* A handoff that was told to stop is refused; startMeshRun asks the scope of
\* the open project for a rule, then the store of secrets for the key.
Decide ==
    /\ job.phase = "deciding"
    /\ job' = [job EXCEPT !.phase =
                  IF StopCondition(job) # "none" \/ open = NoStore THEN "failed"
                  ELSE IF rules[open] = {} THEN "failed" ELSE "starting"]
    /\ UNCHANGED <<open, held, rules, logged, disk, started, turns>>

NoKey ==
    /\ job.phase = "starting" /\ job' = [job EXCEPT !.phase = "failed"]
    /\ UNCHANGED <<open, held, rules, logged, disk, started, turns>>

\* The run acts on the project that is open, which is told of it.
StartMeshRun ==
    /\ job.phase = "starting"
    /\ started' = started \cup {[host |-> job.host, from |-> job.from, said |-> BuildHandoff(job)]}
    /\ logged' = IF open = NoStore THEN logged
                 ELSE [logged EXCEPT ![open] = Append(@, <<"handed-over", job.host>>)]
    /\ job' = [job EXCEPT !.phase = "done"]
    /\ UNCHANGED <<open, held, rules, disk, turns>>

-----------------------------------------------------------------------------
(* The operator. *)

Turn == turns < MaxTurns /\ turns' = turns + 1 /\ UNCHANGED <<logged, job, disk, started>>

SwitchProject == Turn /\ open' \in (Stores \cup {NoStore}) \ {open} /\ UNCHANGED <<held, rules>>

ClearHistory ==
    Turn /\ open # NoStore /\ held[open] # <<>> /\ held' = [held EXCEPT ![open] = <<>>]
    /\ UNCHANGED <<open, rules>>

SetRules ==
    Turn /\ open # NoStore /\ \E s \in RuleSets : s # rules[open] /\ rules' = [rules EXCEPT ![open] = s]
    /\ UNCHANGED <<open, held>>

EvidenceInit ==
    /\ open \in Stores /\ held \in Histories /\ rules \in [Stores -> RuleSets]
    /\ logged = [p \in Stores |-> <<>>] /\ job = NoJob /\ disk = {} /\ started = {} /\ turns = 0

EvidenceNext ==
    \/ \E h \in Wanted : BuildTargetEvidenceBundle(h) \/ HandoffTargetToMesh(h)
    \/ RenderNext \/ Brief \/ CancelSave \/ WriteBundle \/ RecordEvidenceExport
    \/ Decide \/ NoKey \/ StartMeshRun
    \/ SwitchProject \/ ClearHistory \/ SetRules

EvidenceSpec == EvidenceInit /\ [][EvidenceNext]_evidenceVars

-----------------------------------------------------------------------------
Spelled(host) == {h \in DOMAIN Canonical : Canonical[h] = host}

\* A bundle holds exchanges of its own host alone, however alike the names of
\* other hosts are, each once, and newest first; it never claims more than was
\* there, or counts a file it does not hold (session.ts:1006, bundle.ts:343).
OnlyOneTarget ==
    \A b \in disk :
        LET theirs(p) == {r \in UNION {ToSet(h[p]) : h \in Histories} : r.host \in Spelled(b.host)}
        IN /\ ToSet(b.files) \subseteq {r.id : r \in theirs(b.from)}
           /\ Cardinality(ToSet(b.files)) = Len(b.files) /\ b.count = Len(b.files)
           /\ b.count <= b.available

\* While it is in the making, its number of exchanges available is that of the
\* rows of this host and no other, none lost to a page full of others, as long
\* as no more rows match than are scanned (session.ts:1003); and every finding
\* on any of them is carried.
CountsAreOfTheHost ==
    job.phase = "rendering" /\ turns = 0 =>
        LET rows == {r \in ToSet(held[job.from]) : r.host \in Spelled(job.host)}
        IN Cardinality(Like(job.from, job.host)) <= ScanCap =>
             job.got.available = Cardinality(rows) /\ job.got.findings = {r.id : r \in rows} \cap Flagged

\* A finding that is handed over is one on this host, and the file it points at
\* is in the bundle.
FindingsPointInside ==
    \A b \in disk : \A f \in b.handoff.findings :
        /\ f.exchange \in Flagged /\ f.file # "none" => f.file \in ToSet(b.files)
        /\ f.file = "none" => f.exchange \notin ToSet(b.files)

\* No run is handed a target that was not in scope when its evidence was
\* collected, nor begins with a word to stop in what it is told (session.ts:1177).
NoRunAgainstTheHandoff ==
    \A r \in started : r.said.stop = "none" /\ r.said.inScope

\* An audit row of an export is of a bundle that reached the disk, and a row of
\* a handoff of a run that was started (session.ts:1146).
AuditIsOfWhatHappened ==
    \A h \in {Canonical[t] : t \in Wanted}, p \in Stores :
        /\ <<"exported", h>> \in ToSet(logged[p]) => \E b \in disk : b.host = h
        /\ <<"handed-over", h>> \in ToSet(logged[p]) => \E r \in started : r.host = h

\* What is collected and bundled is of one target, and as much as is said of
\* it; a handoff points into its bundle, starts no run that it tells to stop,
\* and is in the audit when it happened (session.ts:1003, 1146, bundle.ts:343,
\* handoff.ts).
HandoffHolds ==
    /\ OnlyOneTarget /\ CountsAreOfTheHost
    /\ FindingsPointInside /\ NoRunAgainstTheHandoff /\ AuditIsOfWhatHappened

\* A bundle is of one project from beginning to end.  It does not hold: after a
\* switch the exchanges of the copy, the briefing and the audit row are those of
\* the other project (session.ts:1123, 1147).
BundleIsOfOneProject ==
    job.phase \in {"dialog", "deciding"} => job.briefing = job.from /\ job.readFrom \subseteq {job.from}

\* What is available and within the limit is in the bundle, if nothing was
\* changed meanwhile.  It does not hold of a host captured with a trailing dot,
\* which is collected and then left out (bundle.ts:343).
AvailableIsIncluded ==
    turns = 0 => \A b \in disk : b.count = Min({b.available, MaxExchanges})
=============================================================================

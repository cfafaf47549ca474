------------------------------ MODULE Engagement ------------------------------
(* The engagement profile: the identity headers it puts on generated requests, *)
(* how compliance is measured over what was sent, and the readiness report     *)
(* that is put together across several awaits while the project may be closed, *)
(* another one opened, and its profile, scope, CA or proxy changed.            *)
(*                                                                             *)
(* A header is [name, value].  A name in Spellings stands for the header it    *)
(* spells; what is wrong with a name or a value is said by constants.          *)
EXTENDS Integers, FiniteSets, FiniteSetsExt, SequencesExt, Picked

CONSTANTS
    Projects,
    Profiles,           \* profiles a project file may hold
    Starts,             \* what the project files hold at first: [profile, included, ca]
    Requests,           \* header sequences a request is written with
    Lower,              \* Lower[n]: name n in lower case
    UserAgent,          \* the name of the User-Agent header, in lower case
    BadNames,           \* not a token, or reserved by the engine
    BadValues,          \* control or untransportable characters, or too long
    MaxIdentityHeaders,
    Limit,              \* exchanges sampled for compliance
    MaxOpens, MaxSends, MaxEdits, MaxReports    \* bounds of the model

\* No project goes by the name that stands for none.
ASSUME ProjectsAssumption == "none" \notin Projects

\* User-Agent is written in lower case and may be sent; requests and profiles
\* hold headers in sequences.
ASSUME IdentityAssumption ==
    /\ Lower[UserAgent] = UserAgent /\ UserAgent \notin BadNames
    /\ MaxIdentityHeaders \in Nat \ {0} /\ Limit \in Nat \ {0}
    /\ \A hs \in Requests : hs \in Seq(ToSet(hs))
    /\ \A prof \in Profiles : prof.headers \in Seq(ToSet(prof.headers))
    /\ \A s \in Starts : /\ s.profile = [p \in Projects |-> s.profile[p]]
                         /\ \A p \in Projects : s.profile[p].headers \in Seq(ToSet(s.profile[p].headers))

VARIABLES
    store,          \* the open store: [project, gen], or Closed
    profile,        \* profile[p]: as in the project file
    included,       \* projects with an enabled include rule
    ca,             \* ca[p]: "valid", "expiring", "expired" or "revoked"
    history,        \* exchanges: [project, source, headers, under], oldest first
    proxy,          \* how the proxy listens: "off", "loopback", "exposed"
    report,         \* the report in the making, or Nothing
    edits           \* edits made, and the number of stores opened

engagementVars == <<store, profile, included, ca, history, proxy, report, edits>>

Closed == [project |-> "none", gen |-> 0]
Nothing == [phase |-> "none"]
Blank == [ua |-> "", enforce |-> FALSE, headers |-> <<>>, authorization |-> FALSE]
Header(n, v) == [name |-> n, value |-> v]

-----------------------------------------------------------------------------
(* Identity. *)

Names(hs) == {Lower[hs[i].name] : i \in DOMAIN hs}

HasUserAgent(prof) == prof.ua # "" /\ prof.ua \notin BadValues

Valid(h) == h.name \notin BadNames /\ h.value \notin BadValues

\* The configured headers that may be sent: valid, of a name not seen before.
Sendable(prof) ==
    LET hs == prof.headers
    IN Picked(hs, {i \in DOMAIN hs : /\ Valid(hs[i]) /\ Lower[hs[i].name] # UserAgent
                                     /\ \A j \in 1..(i - 1) : Valid(hs[j]) => Lower[hs[j].name] # Lower[hs[i].name]})

\* The cap, checked after each header added, counts the User-Agent.
RequiredIdentityHeaders(prof) ==
    LET first == IF HasUserAgent(prof) THEN <<Header(UserAgent, prof.ua)>> ELSE <<>>
        others == Sendable(prof)
        room == Max({1, MaxIdentityHeaders - Len(first)})
    IN first \o SubSeq(others, 1, Min({room, Len(others)}))

IdentityEnforced(prof) == prof.enforce /\ RequiredIdentityHeaders(prof) # <<>>

\* Where a request has a header of one of the names, and where the first of its name.
AskedFor(hs, required) == {i \in DOMAIN hs : Lower[hs[i].name] \in Names(required)}
Firsts(hs) == {i \in DOMAIN hs : \A j \in 1..(i - 1) : Lower[hs[j].name] # Lower[hs[i].name]}

\* The first header of a required name is replaced in its place and the later
\* ones dropped; what is not there is added at the end.
Identified(hs, required) ==
    LET Entry(n) == CHOOSE h \in ToSet(required) : Lower[h.name] = Lower[n]
        rewritten == [i \in DOMAIN hs |-> IF i \in AskedFor(hs, required) THEN Entry(hs[i].name) ELSE hs[i]]
        absent == {k \in DOMAIN required : Lower[required[k].name] \notin Names(hs)}
    IN Picked(rewritten, {i \in DOMAIN hs : i \in AskedFor(hs, required) => i \in Firsts(hs)})
       \o Picked(required, absent)

ApplyIdentity(hs, prof) ==
    IF IdentityEnforced(prof) THEN Identified(hs, RequiredIdentityHeaders(prof)) ELSE hs

Missing(hs, prof) ==
    {w \in ToSet(RequiredIdentityHeaders(prof)) :
        LET got == {i \in DOMAIN hs : Lower[hs[i].name] = Lower[w.name]}
        IN Cardinality(got) # 1 \/ \E i \in got : hs[i].value # w.value}

\* validateEngagementProfile finds nothing to complain of.
ValidProfile(prof) ==
    /\ prof.ua \notin BadValues
    /\ prof.enforce => prof.ua # "" \/ prof.headers # <<>>
    /\ Len(prof.headers) <= MaxIdentityHeaders
    /\ \A i \in DOMAIN prof.headers :
         /\ Valid(prof.headers[i]) /\ Lower[prof.headers[i].name] # UserAgent
         /\ \A j \in 1..(i - 1) : Lower[prof.headers[j].name] # Lower[prof.headers[i].name]

-----------------------------------------------------------------------------
(* Measuring what was sent. *)

RowsOf(p) == {i \in DOMAIN history : history[i].project = p}
Generated(r) == r.source \in {"repeater", "variation"}
Newest(rows) == {i \in rows : Cardinality({j \in rows : j > i}) < Limit}

\* The newest exchanges of any source, the generated ones picked out after.
SampleOfAny(p) == {i \in Newest(RowsOf(p)) : Generated(history[i])}

\* The newest of each source, merged: the newest of both.
Sample(p) == Newest({i \in RowsOf(p) : Generated(history[i])})

Compliance(p) ==
    LET prof == profile[p]
        sample == Sample(p)
    IN [applicable |-> prof.ua # "" \/ prof.headers # <<>>,
        enforced   |-> IdentityEnforced(prof),
        sampled    |-> Cardinality(sample),
        compliant  |-> Cardinality({i \in sample : Missing(history[i].headers, prof) = {}})]

-----------------------------------------------------------------------------
(* The report. *)

UserAgentCheck(c) ==
    CASE ~c.applicable \/ ~c.enforced -> "warning"
      [] c.sampled > 0 /\ c.compliant < c.sampled -> "warning"
      [] OTHER -> "ok"

\* buildPreflight: the checks, by what they are of.
BuildPreflight(in) ==
    [authorization |-> IF in.project = "none" \/ ~in.authorization THEN "blocker" ELSE "ok",
     scope         |-> IF in.included THEN "ok" ELSE "blocker",
     ca            |-> CASE in.ca = "expired" -> "blocker"
                         [] in.ca = "valid" -> "ok"
                         [] OTHER -> "warning",
     identity      |-> UserAgentCheck(in.identity),
     proxy         |-> CASE in.proxy = "exposed" -> "blocker"
                         [] in.proxy = "off" -> "warning"
                         [] OTHER -> "ok",
     history       |-> IF in.exchanges = 0 THEN "warning" ELSE "ok"]

Ready(checks) == \A c \in DOMAIN checks : checks[c] # "blocker"

NoProjectInputs ==
    [project |-> "none", authorization |-> FALSE, included |-> FALSE, ca |-> "revoked",
     identity |-> [applicable |-> FALSE, enforced |-> FALSE, sampled |-> 0, compliant |-> 0],
     proxy |-> proxy, exchanges |-> 0, read |-> Closed]

\* getPreflight takes the open store; the hosts of the folder are counted, with
\* awaits, when nothing is included.
BeginPreflight ==
    /\ report.phase \in {"none", "done", "failed"} /\ edits.reports < MaxReports
    /\ report' = IF store = Closed
                 THEN [phase |-> "done", in |-> NoProjectInputs, of |-> Closed, moved |-> FALSE]
                 ELSE [phase |-> IF store.project \in included THEN "inputs" ELSE "counting",
                       of |-> store, moved |-> FALSE]
    /\ edits' = [edits EXCEPT !.reports = @ + 1]
    /\ UNCHANGED <<store, profile, included, ca, history, proxy>>

CountHosts ==
    /\ report.phase = "counting"
    /\ report' = [report EXCEPT !.phase = "inputs"]
    /\ UNCHANGED <<store, profile, included, ca, history, proxy, edits>>

\* The arguments up to the next await: the scope of the store taken before, the
\* rest of the store that is open now, which must be one.
TakeInputs ==
    /\ report.phase = "inputs"
    /\ report' = IF store = Closed
                 THEN [phase |-> "failed", of |-> report.of, moved |-> TRUE]
                 ELSE [phase |-> "summary", of |-> report.of, moved |-> report.moved,
                       in |-> [project |-> report.of.project,
                               authorization |-> profile[store.project].authorization,
                               included |-> report.of.project \in included,
                               ca |-> ca[store.project], identity |-> Compliance(store.project),
                               proxy |-> proxy, exchanges |-> 0, read |-> store]]
    /\ UNCHANGED <<store, profile, included, ca, history, proxy, edits>>

\* The rows are counted in the store that was open at first, as if it still is.
FinishOnAnyStore ==
    /\ report.phase = "summary"
    /\ report' = [report EXCEPT !.phase = "done", !.in.exchanges = Cardinality(RowsOf(report.of.project))]
    /\ UNCHANGED <<store, profile, included, ca, history, proxy, edits>>

\* After the summary: the database of a store that was closed throws.
FinishPreflight ==
    /\ report.phase = "summary"
    /\ report' = IF report.of # store
                 THEN [phase |-> "failed", of |-> report.of, moved |-> TRUE]
                 ELSE [report EXCEPT !.phase = "done", !.in.exchanges = Cardinality(RowsOf(report.of.project))]
    /\ UNCHANGED <<store, profile, included, ca, history, proxy, edits>>

\* engineBriefing: it stands in for recon, and halts the run on a blocker.
Briefing ==
    CASE report.phase = "done" -> IF Ready(BuildPreflight(report.in)) THEN "briefing" ELSE "BLOCKED"
      [] report.phase = "failed" -> "briefing"
      [] OTHER -> "none"

-----------------------------------------------------------------------------
(* What goes on meanwhile. *)

Touched == IF report.phase \in {"counting", "inputs", "summary", "done"}
           THEN report' = [report EXCEPT !.moved = TRUE] ELSE UNCHANGED report

OpenProject ==
    \E p \in Projects :
        /\ edits.opens < MaxOpens
        /\ store' = [project |-> p, gen |-> edits.opens + 1]
        /\ edits' = [edits EXCEPT !.opens = @ + 1]
        /\ proxy' = "off"
        /\ Touched
        /\ UNCHANGED <<profile, included, ca, history>>

CloseProject ==
    /\ store # Closed
    /\ store' = Closed /\ proxy' = "off"
    /\ Touched
    /\ UNCHANGED <<profile, included, ca, history, edits>>

Edit == store # Closed /\ edits.made < MaxEdits /\ edits' = [edits EXCEPT !.made = @ + 1] /\ Touched

SetEngagementProfile ==
    /\ Edit
    /\ \E prof \in Profiles : ValidProfile(prof) /\ profile' = [profile EXCEPT ![store.project] = prof]
    /\ UNCHANGED <<store, included, ca, history, proxy>>

SetScope ==
    /\ Edit
    /\ included' = IF store.project \in included THEN included \ {store.project}
                   ELSE included \cup {store.project}
    /\ UNCHANGED <<store, profile, ca, history, proxy>>

ChangeCa ==
    /\ Edit
    /\ ca' = [ca EXCEPT ![store.project] = IF @ = "revoked" THEN "valid"
                                           ELSE IF @ = "valid" THEN "revoked" ELSE "valid"]
    /\ UNCHANGED <<store, profile, included, history, proxy>>

ChangeProxy ==
    /\ Edit
    /\ proxy' \in {"off", "loopback", "exposed"} \ {proxy}
    /\ UNCHANGED <<store, profile, included, ca, history>>

Record(source, headers) ==
    /\ store # Closed /\ Len(history) < MaxSends
    /\ history' = Append(history, [project |-> store.project, source |-> source,
                                   headers |-> headers, under |-> profile[store.project]])
    /\ Touched
    /\ UNCHANGED <<store, profile, included, ca, proxy, edits>>

Generate ==
    \E hs \in Requests, source \in {"repeater", "variation"} :
        Record(source, ApplyIdentity(hs, profile[store.project]))

\* The proxy forwards a request as it came.
Browse == proxy # "off" /\ \E hs \in Requests : Record("proxy", hs)

EngagementInit ==
    /\ store = Closed
    /\ \E s \in Starts : profile = s.profile /\ included = s.included /\ ca = s.ca
    /\ history = <<>> /\ proxy = "off" /\ report = Nothing
    /\ edits = [made |-> 0, opens |-> 0, reports |-> 0]

EngagementNext ==
    \/ BeginPreflight \/ CountHosts \/ TakeInputs \/ FinishPreflight
    \/ OpenProject \/ CloseProject \/ SetEngagementProfile \/ SetScope \/ ChangeCa \/ ChangeProxy
    \/ (store # Closed /\ Generate) \/ Browse

EngagementSpec == EngagementInit /\ [][EngagementNext]_engagementVars

-----------------------------------------------------------------------------
\* Every generated request reached the target with each required header once
\* and with its value, with no header the request did not have but those, and
\* with the others as written, in their order; and passing a request twice
\* through it, as the hops of a redirect do, adds nothing (identity.ts:70).
IdentityOnWire ==
    \A i \in DOMAIN history :
        LET r == history[i]
            required == RequiredIdentityHeaders(r.under)
            Others(hs) == Picked(hs, DOMAIN hs \ AskedFor(hs, required))
        IN Generated(r) /\ IdentityEnforced(r.under) =>
             /\ Missing(r.headers, r.under) = {}
             /\ ApplyIdentity(r.headers, r.under) = r.headers
             /\ \E hs \in Requests : /\ Others(r.headers) = Others(hs)
                                     /\ Len(r.headers) <= Len(hs) + Len(required)

\* A profile that came with a project file adds no header the engine reserves
\* and no value that could not be sent, and no more headers than the limit.
NothingInvalidIsAdded ==
    \A p \in Projects :
        LET required == RequiredIdentityHeaders(profile[p])
        IN /\ \A h \in ToSet(required) : Valid(h)
           /\ Len(required) <= MaxIdentityHeaders + 1 /\ Cardinality(Names(required)) = Len(required)

\* Compliance is measured on generated traffic however much was browsed since,
\* so a report with no complaint about the identity is not the report of an
\* empty sample while requests without it were sent (session.ts:1259).
ComplianceIsMeasured ==
    store # Closed =>
        LET p == store.project
            sent == {i \in RowsOf(p) : Generated(history[i])}
        IN /\ Compliance(p).sampled = Min({Limit, Cardinality(sent)})
           /\ (sent # {} /\ UserAgentCheck(Compliance(p)) = "ok") =>
                Missing(history[Max(sent)].headers, profile[p]) = {}

\* A finished report is of one store: what was read of the open store in
\* between, and what of the one it began with, never of two (session.ts:1607).
ReportIsOfOneProject == report.phase = "done" => report.in.read = report.of

\* A report since which nothing changed says ready exactly when there is a
\* reference that authorizes the tests, a host in scope, no expired CA and no
\* proxy that others can reach; and the briefing that stands in for recon halts
\* the run whenever it does not (session.ts:962).
ReadyMeansReady ==
    report.phase = "done" /\ ~report.moved =>
        LET p == store.project
            workable == /\ store # Closed /\ profile[p].authorization /\ p \in included
                        /\ ca[p] # "expired" /\ proxy # "exposed"
        IN Briefing = IF workable THEN "briefing" ELSE "BLOCKED"

\* A request generated under a profile that was accepted carries every identity
\* header of it, as shared/engagement.ts:40 and preflight.ts:242 say.  It does
\* not hold: the limit on the headers counts the User-Agent (identity.ts:55).
EveryConfiguredHeader ==
    \A i \in DOMAIN history :
        LET prof == history[i].under
        IN Generated(history[i]) /\ ValidProfile(prof) /\ IdentityEnforced(prof) =>
             ToSet(prof.headers) \subseteq ToSet(history[i].headers)

\* Generated traffic identifies itself as its profile asks, with nothing in it
\* that could not be sent, and is measured as such (identity.ts, session.ts:1255).
IdentityHolds == IdentityOnWire /\ NothingInvalidIsAdded /\ ComplianceIsMeasured

\* A readiness report is of one project and says ready when it is
\* (preflight.ts:60, session.ts:1607).
ReadinessHolds == ReportIsOfOneProject /\ ReadyMeansReady
=============================================================================

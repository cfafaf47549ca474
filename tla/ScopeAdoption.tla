---------------------------- MODULE ScopeAdoption ----------------------------
(* From the documents of an engagement folder to the scope gate: proposeScope *)
(* reads hosts out of the documents, the Engagement view shows them a page at *)
(* a time and lets the operator tick them, scopeRulesFromProposal turns the   *)
(* ticks and every exclusion into rules, the Scope view edits rules by hand,  *)
(* MetaRepo stores the scope and hands out one cached copy, and evaluateScope *)
(* decides by its compiled form.                                              *)
(*                                                                            *)
(* A host is the sequence of its labels, "*" and "**" labels of their own.  A *)
(* line of a document says whether it is a heading, which scope wordings it   *)
(* holds ("in", "out") and which hosts it names.                              *)
EXTENDS Integers, FiniteSets, FiniteSetsExt, SequencesExt, TLC

CONSTANTS
    Folders,        \* the folders the operator may point the engagement at
    Documents,      \* assignments of documents to the folders
    Noise,          \* tokens normalizeHost drops (file names, platforms)
    Targets,        \* the concrete hosts requests may go to
    HandRules,      \* rules the operator may add in the Scope view
    MaxWrites,      \* bound: writes of the scope in a behavior
    MaxCandidates,  \* MAX_PROPOSED_CANDIDATES
    Page            \* CANDIDATE_PAGE

\* The hosts some line names.
Named(sources) == UNION {ToSet(line.hosts) : line \in UNION {ToSet(source) : source \in ToSet(sources)}}

\* What HOST_RE finds: labels, the first of which may be "*".
IsName(host) == host \in Seq(STRING) /\ host # <<>> /\ host[1] # "**"

ASSUME DocumentsAssumption ==
    \A documents \in Documents, f \in Folders : \A h \in Named(documents[f]) : IsName(h)

VARIABLES
    docs,           \* docs[f]: the documents of folder f, in reading order
    root,           \* the engagement folder in use
    reading,        \* folders whose proposal is being read
    proposal,       \* what the Engagement view shows, or NoProposal
    filter,         \* whether the host filter is on
    shown,          \* rows drawn at most
    picked, unticked, reviewed,     \* the view's sets of hosts
    adding,         \* an Add in flight: the scope it read and its rules; or Idle
    stored,         \* the scope in project_meta
    cache,          \* MetaRepo.scopeCache, compiled; or NoCache
    adopted,        \* exclusions of the last Add that no hand edit followed
    writes          \* writes of the scope so far

readVars == <<root, reading, proposal>>
tickVars == <<filter, shown, picked, unticked, reviewed>>
scopeVars == <<stored, cache, adopted, writes>>
scopeAdoptionVars == <<docs, readVars, tickVars, adding, scopeVars>>

NoCache == [is |-> "none"]
Idle == [is |-> "none"]
NoProposal == [is |-> "none"]

-----------------------------------------------------------------------------
(* The gate. *)

IsWild(host) == host # <<>> /\ host[1] \in {"*", "**"}

\* `*` stands for one label, `**` for one or more; the apex is neither.
GlobMatches(pattern, host) ==
    IF ~IsWild(pattern) THEN host = pattern
    ELSE /\ IF pattern[1] = "*" THEN Len(host) = Len(pattern) ELSE Len(host) >= Len(pattern)
         /\ IsSuffix(Tail(pattern), host)

HostMatches(rule, host) ==
    CASE rule.hostMatch = "exact" -> host = rule.host
      [] rule.hostMatch = "subdomain" -> IsSuffix(rule.host, host)
      [] rule.hostMatch = "wildcard" -> GlobMatches(rule.host, host)

RuleMatches(rule, t) ==
    /\ rule.enabled
    /\ HostMatches(rule, t.host)
    /\ rule.ports = {} \/ t.port \in rule.ports

EvaluateScope(config, t) ==
    /\ \A rule \in config.exclude : ~RuleMatches(rule, t)
    /\ \E rule \in config.include : RuleMatches(rule, t)

-----------------------------------------------------------------------------
(* Reading scope out of documents. *)

MarkerDisposition(line) ==
    CASE "out" \in line.says -> "exclude"
      [] "in" \in line.says /\ "out" \notin line.says -> "include"
      [] OTHER -> "none"

\* The marker of the nearest heading at or above line i that has one.
SectionDisposition(source, i) ==
    LET headings == {j \in 1..i : source[j].heading /\ MarkerDisposition(source[j]) # "none"}
    IN IF headings = {} THEN "none" ELSE MarkerDisposition(source[Max(headings)])

Disposition(source, i) ==
    IF MarkerDisposition(source[i]) # "none" THEN MarkerDisposition(source[i])
    ELSE IF SectionDisposition(source, i) # "none" THEN SectionDisposition(source, i)
    ELSE "unclear"

\* Every naming of a host, in reading order.
Namings(sources) ==
    FlattenSeq([s \in DOMAIN sources |->
        FlattenSeq([i \in DOMAIN sources[s] |->
            LET hosts == SelectSeq(sources[s][i].hosts, LAMBDA h : h \notin Noise)
            IN [k \in DOMAIN hosts |->
                  [host |-> hosts[k], disposition |-> Disposition(sources[s], i)]]])])

Resolve(old, new) ==
    IF new = "exclude" \/ (old = "unclear" /\ new = "include") THEN new ELSE old

Capped(acc, n) ==
    Cardinality(DOMAIN acc.seen) >= MaxCandidates /\ n.disposition # "exclude"

TakeNaming(acc, n) ==
    CASE n.host \in DOMAIN acc.seen ->
           [acc EXCEPT !.seen[n.host] = Resolve(@, n.disposition)]
      [] n.host \notin DOMAIN acc.seen /\ Capped(acc, n) ->
           [acc EXCEPT !.omitted = @ \cup {n.host}]
      [] OTHER ->
           [seen |-> (n.host :> n.disposition) @@ acc.seen, omitted |-> acc.omitted \ {n.host}]

ProposeScope(sources) ==
    LET found == FoldLeft(TakeNaming, [seen |-> <<>>, omitted |-> {}], Namings(sources))
        With(d) == {h \in Named(sources) : h \in DOMAIN found.seen /\ found.seen[h] = d}
    IN [is |-> "proposal", include |-> With("include"), exclude |-> With("exclude"),
        unclear |-> With("unclear"), omitted |-> Cardinality(found.omitted)]

\* The count the readiness message is built from, by a scan of its own.
CountProposedHosts(sources) ==
    LET Seen(acc, n) == IF n.host \in DOMAIN acc
                        THEN [acc EXCEPT ![n.host] = Resolve(@, n.disposition)]
                        ELSE (n.host :> n.disposition) @@ acc
        seen == FoldLeft(Seen, <<>>, Namings(sources))
        excluded == {h \in DOMAIN seen : seen[h] = "exclude"}
    IN [count |-> Cardinality(DOMAIN seen \ excluded), excluded |-> Cardinality(excluded)]

-----------------------------------------------------------------------------
(* The Engagement view. *)

Candidates(p) == IF p = NoProposal THEN <<>> ELSE SetToSeq(p.include) \o SetToSeq(p.unclear)

\* The filter keeps hosts with a label "api".
Visible(p, on, n) ==
    LET matching == SelectSeq(Candidates(p), LAMBDA h : on => Contains(h, "api"))
    IN ToSet(SubSeq(matching, 1, Min({n, Len(matching)})))

\* The effect that runs when the rows drawn or the unticked hosts changed:
\* what is drawn counts as seen, and what reads as in scope is ticked.
DrawRows(p, on, n, picks, off, seen) ==
    LET rows == Visible(p, on, n)
    IN /\ reviewed' = seen \cup rows
       /\ picked' = picks \cup {h \in rows : p # NoProposal /\ h \in p.include /\ h \notin off}
       /\ unticked' = off

\* save() of another folder: preflight is refreshed and, the root being new,
\* readProposal runs.
SwitchFolder(f) ==
    /\ f # root
    /\ root' = f
    /\ reading' = reading \cup {f}
    /\ UNCHANGED <<docs, proposal, tickVars, adding, scopeVars>>

Reread ==
    /\ reading = {}
    /\ reading' = {root}
    /\ UNCHANGED <<docs, root, proposal, tickVars, adding, scopeVars>>

ReadDone(f) ==
    /\ f \in reading
    /\ reading' = reading \ {f}
    /\ proposal' = ProposeScope(docs[f])
    /\ filter' = FALSE /\ shown' = Page
    /\ DrawRows(proposal', FALSE, Page, {}, {}, {})
    /\ UNCHANGED <<docs, root, adding, scopeVars>>

FilterHosts ==
    /\ proposal # NoProposal
    /\ filter' = ~filter /\ shown' = Page
    /\ DrawRows(proposal, filter', Page, picked, unticked, reviewed)
    /\ UNCHANGED <<docs, readVars, adding, scopeVars>>

ShowMore ==
    /\ Cardinality(Visible(proposal, filter, shown)) < Cardinality(Visible(proposal, filter, 99))
    /\ shown' = shown + Page
    /\ DrawRows(proposal, filter, shown', picked, unticked, reviewed)
    /\ UNCHANGED <<docs, readVars, filter, adding, scopeVars>>

TickHost(h) ==
    /\ h \in Visible(proposal, filter, shown)
    /\ IF h \in picked
       THEN DrawRows(proposal, filter, shown, picked \ {h}, unticked \cup {h}, reviewed)
       ELSE DrawRows(proposal, filter, shown, picked \cup {h}, unticked \ {h}, reviewed)
    /\ UNCHANGED <<docs, readVars, filter, shown, adding, scopeVars>>

-----------------------------------------------------------------------------
(* From candidates to rules. *)

\* A policy's wildcard taken literally: one label only.
ToRuleLiteral(h) ==
    [enabled |-> TRUE, hostMatch |-> IF IsWild(h) THEN "wildcard" ELSE "exact",
     host |-> h, ports |-> {}]

ToRule(h) ==
    [enabled |-> TRUE, hostMatch |-> IF IsWild(h) THEN "wildcard" ELSE "exact",
     host |-> IF IsWild(h) THEN <<"**">> \o Tail(h) ELSE h, ports |-> {}]

ScopeRulesFromProposal(p, confirmed, existing) ==
    LET haveInclude == {r.host : r \in existing.include}
        haveExclude == {r.host : r \in existing.exclude}
    IN [include |-> {ToRule(h) : h \in ((p.include \cup p.unclear) \cap confirmed) \ haveInclude},
        exclude |-> {ToRule(h) : h \in p.exclude \ haveExclude}]

\* addSelectedToScope up to the answer of getScope; the rules are those of the
\* proposal and the ticks at the click.
AddSelected ==
    /\ adding = Idle /\ proposal # NoProposal /\ picked # {} /\ writes < MaxWrites
    /\ adding' = [is |-> "adding", current |-> stored, from |-> proposal,
                  rules |-> ScopeRulesFromProposal(proposal, picked \cap reviewed, stored)]
    /\ cache' = stored
    /\ UNCHANGED <<docs, readVars, tickVars, stored, adopted, writes>>

StoreScope(scope) ==
    stored' = scope /\ writes' = writes + 1 /\ cache' = NoCache

WriteScope ==
    /\ adding # Idle
    /\ StoreScope([include |-> adding.current.include \cup adding.rules.include,
                   exclude |-> adding.current.exclude \cup adding.rules.exclude])
    /\ adopted' = adding.from.exclude
    /\ adding' = Idle
    /\ UNCHANGED <<docs, readVars, tickVars>>

-----------------------------------------------------------------------------
(* The Scope view, and the gate at work. *)

EditScope(scope) ==
    /\ writes < MaxWrites
    /\ StoreScope(scope)
    /\ adopted' = {}
    /\ UNCHANGED <<docs, readVars, tickVars, adding>>

AddRule ==
    \E r \in HandRules, list \in {"include", "exclude"} :
        r \notin stored[list] /\ EditScope([stored EXCEPT ![list] = @ \cup {r}])

RemoveRule ==
    \E list \in {"include", "exclude"} : \E r \in stored[list] :
        EditScope([stored EXCEPT ![list] = @ \ {r}])

ToggleRule ==
    \E list \in {"include", "exclude"} : \E r \in stored[list] :
        EditScope([stored EXCEPT ![list] = (@ \ {r}) \cup {[r EXCEPT !.enabled = ~@]}])

\* MetaRepo.getScope parses and freezes once per write; evaluateScope compiles
\* once per parsed object.
GateScope == IF cache = NoCache THEN stored ELSE cache

AskGate ==
    /\ cache = NoCache
    /\ cache' = stored
    /\ UNCHANGED <<docs, readVars, tickVars, adding, stored, adopted, writes>>

ScopeAdoptionInit ==
    /\ docs \in Documents
    /\ root \in Folders /\ reading = {root}
    /\ proposal = NoProposal
    /\ filter = FALSE /\ shown = Page
    /\ picked = {} /\ unticked = {} /\ reviewed = {}
    /\ adding = Idle
    /\ stored = [include |-> {}, exclude |-> {}] /\ cache = NoCache
    /\ adopted = {} /\ writes = 0

ScopeAdoptionNext ==
    \/ \E f \in Folders : SwitchFolder(f) \/ ReadDone(f)
    \/ Reread \/ FilterHosts \/ ShowMore
    \/ \E h \in ToSet(Candidates(proposal)) : TickHost(h)
    \/ AddSelected \/ WriteScope
    \/ AddRule \/ RemoveRule \/ ToggleRule
    \/ AskGate

ScopeAdoptionSpec == ScopeAdoptionInit /\ [][ScopeAdoptionNext]_scopeAdoptionVars

-----------------------------------------------------------------------------
(* What the documents say, read without the cap and without an order. *)
Says(sources, d) == {n.host : n \in {m \in ToSet(Namings(sources)) : m.disposition = d}}

\* proposeScope, with its cap and its order of reading, keeps every exclusion
\* and offers no excluded host, whatever comes first; a host it offers as in
\* scope is one some document names so; and it tells how many it left out, so
\* that the count of the readiness message, made by a second scan
\* (scopeProposal.ts:390), agrees with it.
ProposalKeepsExclusions ==
    \A f \in reading :
        LET p == ProposeScope(docs[f])
            c == CountProposedHosts(docs[f])
            out == Says(docs[f], "exclude")
        IN /\ p.exclude = out
           /\ p.include \subseteq Says(docs[f], "include") \ out
           /\ p.unclear \subseteq Says(docs[f], "unclear") \ (out \cup Says(docs[f], "include"))
           /\ c.excluded = Cardinality(out)
           /\ c.count = Cardinality(p.include) + Cardinality(p.unclear) + p.omitted

\* A policy's wildcard means every depth below the name, and not the name.
Covers(candidate, host) ==
    IF IsWild(candidate)
    THEN IsSuffix(Tail(candidate), host) /\ Len(host) >= Len(candidate)
    ELSE host = candidate

Reached(t) == EvaluateScope(GateScope, t)

\* A host the adopted documents put out of scope is refused by the gate until
\* the operator edits the scope by hand, whatever was ticked and however wide
\* the include rules are (scopeProposal.ts:486), unless an exclude rule of the
\* same name and another form was there already: disabled, for some ports, or
\* matching less than a rule made of the candidate.
ExcludedStaysOut ==
    \A c \in adopted, t \in Targets :
        Covers(c, t.host) /\ Reached(t) => \E r \in stored.exclude : r.host = c /\ r # ToRule(c)

\* The same without the exception, as the comment at scopeProposal.ts:486 has
\* it.  It does not hold: the name alone decides that a rule is there already.
ExclusionsAlwaysAdded ==
    \A c \in adopted, t \in Targets : Covers(c, t.host) => ~Reached(t)

\* The gate decides by the scope that is stored, through the parsed copy and
\* its compiled form (metaRepo.ts:63): narrowing takes effect at once.
GateIsCurrent ==
    \A t \in Targets : EvaluateScope(GateScope, t) <=> EvaluateScope(stored, t)

\* Nothing becomes an include rule through the Engagement view that was not
\* drawn, and an unticked host does not come back by paging or filtering.
TicksAreTheOperators ==
    /\ picked \subseteq reviewed
    /\ picked \cap unticked = {}
    /\ adding # Idle => \A r \in adding.rules.include : r.host \notin adding.from.exclude

\* A scope taken from documents keeps what they exclude out at the gate, which
\* decides by the scope as it is, and takes in what the operator ticked
\* (scopeProposal.ts, scope.ts, EngagementView.tsx).
ScopeAdoptionCorrect == ExcludedStaysOut /\ GateIsCurrent /\ TicksAreTheOperators

\* The card shows what the folder in use holds, once nothing is being read.
\* It does not hold: two reads may answer out of order (EngagementView.tsx:137).
CardShowsFolder ==
    reading = {} /\ proposal # NoProposal => proposal = ProposeScope(docs[root])
=============================================================================

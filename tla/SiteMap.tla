-------------------------------- MODULE SiteMap --------------------------------
(* The site map built over the captured exchanges (siteMap.ts) and the ranking *)
(* of its endpoints (surface.ts).                                              *)
(*                                                                             *)
(* A row is [id, scheme, host, port, method, path, query, params, status, at]; *)
(* the rows come newest first.  A rule of scope is [host, paths, enabled]: the *)
(* origin-form paths, query included, it matches, or AnyPath.                  *)
EXTENDS Integers, FiniteSets, FiniteSetsExt, SequencesExt

CONSTANTS
    Canonical,      \* Canonical[h]: normalizeHost
    AnyPath,
    Vocabulary,     \* <<word, class>>: SIGNALS
    Words,          \* Words[n]: the words of a path or of a parameter name
    ObjectPaths,    \* paths with a segment that reads as an identifier
    Mutating,       \* methods that change state
    MaxLeads

-----------------------------------------------------------------------------
(* Scope as the gate evaluates it. *)

Matches(rule, host, scopePath) ==
    /\ rule.enabled /\ rule.host = host
    /\ rule.paths = AnyPath \/ scopePath \in rule.paths

InScope(scope, host, scopePath) ==
    /\ \E r \in scope.include : Matches(r, host, scopePath)
    /\ ~\E r \in scope.exclude : Matches(r, host, scopePath)

-----------------------------------------------------------------------------
(* The map. *)

Origin(row) == <<row.scheme, Canonical[row.host], row.port>>
ScopePath(row) == <<row.path, row.query>>
RowsAt(rows, origin, path) == SelectSeq(rows, LAMBDA r : Origin(r) = origin /\ r.path = path)

\* The latest of an endpoint's rows, the first of them on a tie.
Latest(rows) ==
    FoldLeft(LAMBDA best, r : IF r.at > best.at THEN r ELSE best, Head(rows), rows)

\* One decision for a site when no rule of the scope has a path.
SiteDecisionIsShared(scope) ==
    \A r \in scope.include \cup scope.exclude : r.paths = AnyPath

Endpoint(rows, scope, origin, path) ==
    LET mine == RowsAt(rows, origin, path)
        latest == Latest(mine)
    IN [path |-> path,
        methods |-> {mine[i].method : i \in DOMAIN mine},
        statuses |-> {mine[i].status : i \in DOMAIN mine} \ {0},
        params |-> UNION {mine[i].params : i \in DOMAIN mine},
        count |-> Len(mine), first |-> Min({mine[i].at : i \in DOMAIN mine}), last |-> latest.at,
        latest |-> latest.id,
        inScope |-> IF SiteDecisionIsShared(scope) THEN InScope(scope, origin[2], <<"/", "">>)
                    ELSE InScope(scope, origin[2], ScopePath(latest))]

Site(rows, scope, origin) ==
    LET paths == {r.path : r \in {q \in ToSet(rows) : Origin(q) = origin}}
        endpoints == {Endpoint(rows, scope, origin, p) : p \in paths}
    IN [origin |-> origin, endpoints |-> endpoints]

BuildTargetMap(rows, scope, total) ==
    [sites |-> {Site(rows, scope, o) : o \in {Origin(r) : r \in ToSet(rows)}},
     truncated |-> Len(rows) < total]

-----------------------------------------------------------------------------
(* The ranking. *)

Hits(name, class) == Cardinality({w \in Words[name] : <<w, class>> \in Vocabulary})

Classes == {v[2] : v \in Vocabulary} \cup {"access-control", "state-change"}

ScoreOf(e, class) ==
    LET named == MapThenSumSet(LAMBDA n : 3 * Hits(n, class), e.params) + Hits(e.path, class)
        byId == IF class = "access-control" /\ e.path \in ObjectPaths THEN 4 ELSE 0
        mutates == e.methods \cap Mutating # {}
        byMethod == CASE mutates /\ class = "state-change" -> 2
                      [] mutates /\ class = "access-control" /\ named + byId > 0 -> 2
                      [] OTHER -> 0
    IN named + byId + byMethod

Score(e) == MapThenSumSet(LAMBDA c : ScoreOf(e, c), Classes)

Leads(map) ==
    UNION {{[origin |-> s.origin, e |-> e] : e \in {f \in s.endpoints : f.inScope /\ Score(f) > 0}} :
           s \in map.sites}

Before(a, b) == Score(a.e) > Score(b.e) \/ (Score(a.e) = Score(b.e) /\ a.e.count > b.e.count)

RankAttackSurface(map, limit) ==
    LET order == SetToSortSeq(Leads(map), Before)
        n == Max({1, Min({limit, MaxLeads})})
    IN [leads |-> SubSeq(order, 1, Min({n, Len(order)})),
        skipped |-> MapThenSumSet(LAMBDA s : Cardinality({e \in s.endpoints : ~e.inScope}), map.sites)]

-----------------------------------------------------------------------------
\* Every captured exchange is in one endpoint of one site, whatever the case or
\* the trailing dots of its host, and the counts add up to the rows.
MapIsPartition(rows, scope) ==
    LET map == BuildTargetMap(rows, scope, Len(rows))
        endpoints == UNION {{<<s.origin, e>> : e \in s.endpoints} : s \in map.sites}
    IN /\ MapThenSumSet(LAMBDA x : x[2].count, endpoints) = Len(rows)
       /\ \A r \in ToSet(rows) :
            Cardinality({x \in endpoints : x[1] = Origin(r) /\ x[2].path = r.path
                                           /\ r.method \in x[2].methods}) = 1
       /\ ~map.truncated

\* An endpoint is in scope in the map exactly when the gate would let its latest
\* request go again, query and all, whether the decision was shared by the site
\* or not (siteMap.ts:130); and the latest is the newest captured, the row that
\* came first among those of one millisecond.
MapAgreesWithGate(rows, scope) ==
    \A s \in BuildTargetMap(rows, scope, Len(rows)).sites, r \in ToSet(rows) :
        \A e \in s.endpoints :
            s.origin = Origin(r) /\ e.latest = r.id =>
                /\ e.inScope = InScope(scope, s.origin[2], ScopePath(r))
                /\ \A q \in ToSet(RowsAt(rows, s.origin, e.path)) : q.at <= r.at
                /\ r = RowsAt(rows, s.origin, e.path)[Min({i \in DOMAIN RowsAt(rows, s.origin, e.path) :
                        RowsAt(rows, s.origin, e.path)[i].at = r.at})]

\* The ranking only reorders: every lead is an endpoint that was captured and
\* that the gate would let through, none twice, the best first; what is in scope
\* and has a signal is left out only for the limit; the rest is counted.
RankingOnlyReorders(rows, scope, limit) ==
    LET map == BuildTargetMap(rows, scope, Len(rows))
        ranking == RankAttackSurface(map, limit)
        leads == ranking.leads
    IN /\ \A i \in DOMAIN leads :
            /\ \E r \in ToSet(rows) : Origin(r) = leads[i].origin /\ r.id = leads[i].e.latest
                                      /\ InScope(scope, leads[i].origin[2], ScopePath(r))
            /\ \A j \in 1..(i - 1) : leads[j] # leads[i] /\ Score(leads[j].e) >= Score(leads[i].e)
       /\ Len(leads) < Min({limit, MaxLeads}) =>
            \A s \in map.sites : \A e \in s.endpoints :
                e.inScope /\ Score(e) > 0 => \E i \in DOMAIN leads : leads[i] = [origin |-> s.origin, e |-> e]
       /\ ranking.skipped + Cardinality(UNION {{<<s.origin, e.path>> : e \in {f \in s.endpoints : f.inScope}} : s \in map.sites})
            = Cardinality(UNION {{<<s.origin, e.path>> : e \in s.endpoints} : s \in map.sites})

SiteMapHolds(rows, scope, limit) ==
    MapIsPartition(rows, scope) /\ MapAgreesWithGate(rows, scope) /\ RankingOnlyReorders(rows, scope, limit)
=============================================================================

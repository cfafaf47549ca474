------------------------------- MODULE Session -------------------------------
(***************************************************************************)
(* TacnocSession: the lifecycle of the open project, the proxy that serves *)
(* it, the engines wired to it, and the traffic they still have in flight  *)
(* when it goes away.                                                      *)
(*                                                                         *)
(* Handlers of the main process are not serialised: a call suspends at its *)
(* awaits, and another may run in between.  Fields of the session are read *)
(* when they are used, so what a call finds after an await may be new.     *)
(***************************************************************************)
EXTENDS Naturals, FiniteSets

CONSTANTS
  Calls,      \* callers of the session (each has one call outstanding)
  Stores,     \* ProjectStore instances: every open or create makes one
  Proxies,    \* ProxyServer instances
  Exchanges,  \* proxied exchanges
  Sends,      \* Repeater sends
  Jobs,       \* variation jobs
  None,
  MaxBuilds   \* bound: repeaters built, by an open or by setConfig

ASSUME SessionAssumption ==
  /\ None \notin Stores \cup Proxies
  /\ MaxBuilds \in Nat
  /\ Exchanges \cap (Sends \cup Jobs) = {} /\ Sends \cap Jobs = {}

VARIABLES
  project,   \* this.project
  store,     \* store[s]: the database of the instance
  engine,    \* the store this.variation was made for
  repeater,  \* this.repeater, as the number of its construction; 0 when undefined
  built,     \* repeaters constructed
  proxy,     \* this.proxy
  listener,  \* listener[x]: the server socket of a proxy instance
  serves,    \* serves[x]: the project a proxy instance was made for
  call,      \* call[c]: where the call is suspended, and the proxy it awaits
  phase,     \* phase[w]: on the wire, being stored, or over
  of,        \* of[w]: the project a piece of work began under
  gen,       \* gen[w]: the repeater a send began in
  aborted,   \* work whose signal aborted
  rows       \* <<began under, recorded in>> for every exchange in a history

lifecycle == <<project, store, engine, repeater, built>>
proxying  == <<proxy, listener, serves>>
working   == <<phase, of, gen>>
vars      == <<lifecycle, proxying, call, working, aborted, rows>>

Work   == Exchanges \cup Sends \cup Jobs
Places == {"idle", "closing", "reopening", "loading", "binding", "stopping"}
Idle   == [at |-> "idle", px |-> None]

Init ==
  /\ project = None
  /\ store = [s \in Stores |-> "fresh"]
  /\ engine = None /\ repeater = 0 /\ built = 0
  /\ proxy = None
  /\ listener = [x \in Proxies |-> "fresh"]
  /\ serves = [x \in Proxies |-> None]
  /\ call = [c \in Calls |-> Idle]
  /\ phase = [w \in Work |-> "none"]
  /\ of = [w \in Work |-> None]
  /\ gen = [w \in Work |-> 0]
  /\ aborted = {} /\ rows = {}

Goes(c, at, px) == call' = [call EXCEPT ![c] = [at |-> at, px |-> px]]

InFlight == {w \in Work : phase[w] \in {"sending", "storing"}}

----------------------------------------------------------------------------
(* Work under way *)

\* What the engines that are wired now can stop: the jobs of this.variation and
\* the sends of this.repeater.
Reachable ==
  {w \in InFlight : (w \in Jobs /\ of[w] = engine) \/ (w \in Sends /\ gen[w] = repeater)}

\* emergencyStop
EmergencyStop ==
  /\ aborted' = aborted \cup Reachable
  /\ UNCHANGED <<lifecycle, proxying, call, working, rows>>

Begins(w, s) ==
  /\ phase[w] = "none"
  /\ phase' = [phase EXCEPT ![w] = "sending"]
  /\ of' = [of EXCEPT ![w] = s]
  /\ UNCHANGED <<lifecycle, proxying, call, aborted, rows>>

\* A request reaches a proxy that listens, whichever the session thinks is its own.
Proxied(w) ==
  /\ w \in Exchanges
  /\ \E x \in Proxies : listener[x] = "listening" /\ Begins(w, serves[x])
  /\ UNCHANGED gen

SendRepeater(w) ==
  /\ w \in Sends
  /\ repeater # 0
  /\ Begins(w, project)
  /\ gen' = [gen EXCEPT ![w] = repeater]

RunVariationJob(w) ==
  /\ w \in Jobs
  /\ engine # None
  /\ Begins(w, engine)
  /\ UNCHANGED gen

\* The answer is in.  The repeater reads the scope of its project before it goes
\* on, which throws on a closed database; the others read nothing.
Answered(w) ==
  /\ phase[w] = "sending"
  /\ w \notin aborted
  /\ phase' = [phase EXCEPT ![w] =
       IF w \in Sends /\ store[of[w]] = "closed" THEN "over" ELSE "storing"]
  /\ UNCHANGED <<lifecycle, proxying, call, of, gen, aborted, rows>>

Over(w) == phase' = [phase EXCEPT ![w] = "over"]

\* ingest: the exchange goes into the history of the project that is open now.
Ingest(w) == rows' = IF project = None THEN rows ELSE rows \cup {<<of[w], project>>}

Stored(w) ==
  /\ phase[w] = "storing"
  /\ Over(w)
  /\ Ingest(w)
  /\ UNCHANGED <<lifecycle, proxying, call, of, gen, aborted>>

\* A proxied exchange whose origin fails is ingested; a send or a job that fails or
\* is aborted leaves no exchange.
Failed(w) ==
  /\ phase[w] = "sending"
  /\ Over(w)
  /\ IF w \in Exchanges
     THEN Ingest(w)
     ELSE UNCHANGED rows
  /\ UNCHANGED <<lifecycle, proxying, call, of, gen, aborted>>

----------------------------------------------------------------------------
(* Projects *)

\* Mutant: the store is forgotten and not closed.
CloseRestLeaking ==
  /\ aborted' = aborted \cup Reachable
  /\ project' = None /\ engine' = None /\ repeater' = 0
  /\ UNCHANGED <<store, built, working, rows>>

\* Mutant: the variation engine is dropped and not stopped.
CloseRestOrphaning ==
  /\ aborted' = aborted \cup (Reachable \ Jobs)
  /\ store' = [s \in Stores |-> IF s = project THEN "closed" ELSE store[s]]
  /\ project' = None /\ engine' = None /\ repeater' = 0
  /\ UNCHANGED <<built, working, rows>>

\* Mutant: the repeater of the closed project stays in place.
CloseRestKeepingRepeater ==
  /\ aborted' = aborted \cup Reachable
  /\ store' = [s \in Stores |-> IF s = project THEN "closed" ELSE store[s]]
  /\ project' = None /\ engine' = None
  /\ UNCHANGED <<repeater, built, working, rows>>

\* closeProject once the proxy has stopped: stop the engines, close the store,
\* drop the components.
CloseRest ==
  /\ aborted' = aborted \cup Reachable
  /\ store' = [s \in Stores |-> IF s = project THEN "closed" ELSE store[s]]
  /\ project' = None /\ engine' = None /\ repeater' = 0
  /\ UNCHANGED <<built, working, rows>>

\* ProxyServer.stop: the server stops listening at once and closes later.
StopsListening(x) == listener' = [listener EXCEPT ![x] = "closed"]

\* closeProject, for itself or as the first half of createProject or openProject.
CloseProject(c, toOpen) ==
  /\ call[c] = Idle
  /\ \/ /\ proxy = None
        /\ CloseRest
        /\ Goes(c, IF toOpen THEN "loading" ELSE "idle", None)
        /\ UNCHANGED proxying
     \/ /\ proxy # None
        /\ StopsListening(proxy)
        /\ Goes(c, IF toOpen THEN "reopening" ELSE "closing", proxy)
        /\ UNCHANGED <<lifecycle, proxy, serves, working, aborted, rows>>

\* The proxy has closed.  this.proxy is cleared, whatever it holds by now.
ProxyClosed(c) ==
  /\ call[c].at \in {"closing", "reopening"}
  /\ proxy' = None
  /\ CloseRest
  /\ Goes(c, IF call[c].at = "reopening" THEN "loading" ELSE "idle", None)
  /\ UNCHANGED <<listener, serves>>

BuildRepeater ==
  /\ built < MaxBuilds
  /\ built' = built + 1
  /\ repeater' = built + 1

\* The store is open: this.project is assigned and the engines are wired to it.
Loaded(c) ==
  /\ call[c].at = "loading"
  /\ \E s \in Stores :
       /\ store[s] = "fresh"
       /\ store' = [store EXCEPT ![s] = "open"]
       /\ project' = s /\ engine' = s
  /\ BuildRepeater
  /\ Goes(c, "idle", None)
  /\ UNCHANGED <<proxying, working, aborted, rows>>

LoadFails(c) ==
  /\ call[c].at = "loading"
  /\ Goes(c, "idle", None)
  /\ UNCHANGED <<lifecycle, proxying, working, aborted, rows>>

\* setConfig constructs the scanner and the repeater anew.
SetConfig ==
  /\ project # None
  /\ BuildRepeater
  /\ UNCHANGED <<project, store, engine, proxying, call, working, aborted, rows>>

----------------------------------------------------------------------------
(* The proxy *)

StartProxy(c) ==
  /\ call[c] = Idle
  /\ project # None /\ proxy = None
  /\ \E x \in Proxies :
       /\ listener[x] = "fresh"
       /\ listener' = [listener EXCEPT ![x] = "binding"]
       /\ serves' = [serves EXCEPT ![x] = project]
       /\ Goes(c, "binding", x)
  /\ UNCHANGED <<lifecycle, proxy, working, aborted, rows>>

Bound(c) ==
  /\ call[c].at = "binding"
  /\ listener' = [listener EXCEPT ![call[c].px] = "listening"]
  /\ proxy' = call[c].px
  /\ Goes(c, "idle", None)
  /\ UNCHANGED <<lifecycle, serves, working, aborted, rows>>

BindFails(c) ==
  /\ call[c].at = "binding"
  /\ StopsListening(call[c].px)
  /\ Goes(c, "idle", None)
  /\ UNCHANGED <<lifecycle, proxy, serves, working, aborted, rows>>

StopProxy(c) ==
  /\ call[c] = Idle
  /\ proxy # None
  /\ StopsListening(proxy)
  /\ Goes(c, "stopping", proxy)
  /\ UNCHANGED <<lifecycle, proxy, serves, working, aborted, rows>>

Stopped(c) ==
  /\ call[c].at = "stopping"
  /\ proxy' = None
  /\ Goes(c, "idle", None)
  /\ UNCHANGED <<lifecycle, listener, serves, working, aborted, rows>>

----------------------------------------------------------------------------
Lifecycle(c) ==
  \/ \E toOpen \in BOOLEAN : CloseProject(c, toOpen)
  \/ ProxyClosed(c) \/ Loaded(c) \/ LoadFails(c)
  \/ StartProxy(c) \/ Bound(c) \/ BindFails(c)
  \/ StopProxy(c) \/ Stopped(c)

Traffic(w) ==
  \/ Proxied(w) \/ SendRepeater(w) \/ RunVariationJob(w)
  \/ Answered(w) \/ Stored(w) \/ Failed(w)

Next ==
  \/ \E c \in Calls : Lifecycle(c)
  \/ \E w \in Work : Traffic(w)
  \/ SetConfig
  \/ EmergencyStop

Spec == Init /\ [][Next]_vars

----------------------------------------------------------------------------
\* Every variable has the type of what it stands for.
TypeOK ==
  /\ project \in Stores \cup {None} /\ engine \in Stores \cup {None}
  /\ store \in [Stores -> {"fresh", "open", "closed"}]
  /\ repeater \in 0..MaxBuilds /\ built \in 0..MaxBuilds
  /\ proxy \in Proxies \cup {None}
  /\ listener \in [Proxies -> {"fresh", "binding", "listening", "closed"}]
  /\ serves \in [Proxies -> Stores \cup {None}]
  /\ call \in [Calls -> [at : Places, px : Proxies \cup {None}]]
  /\ phase \in [Work -> {"none", "sending", "storing", "over"}]
  /\ of \in [Work -> Stores \cup {None}]
  /\ gen \in [Work -> 0..MaxBuilds]
  /\ aborted \in SUBSET Work
  /\ rows \in SUBSET (Stores \X Stores)

\* However calls overlap, the fields agree: the engines are those of the open
\* project, its database is open, and a send of the repeater in place is its own.
WiredTogether ==
  /\ engine = project
  /\ repeater # 0 <=> project # None
  /\ project # None => store[project] = "open"
  /\ \A w \in Sends : repeater # 0 /\ gen[w] = repeater => of[w] = project

\* However calls overlap, closing a project stops its jobs: none is left running
\* on a closed database.
ClosedJobsAreStopped ==
  \A w \in Jobs : w \in InFlight /\ store[of[w]] = "closed" => w \in aborted

\* At most one project is open in a session.
OneProjectOpen == Cardinality({s \in Stores : store[s] = "open"}) <= 1

\* A proxy listens for the open project only: with its CA, into its history.
ProxyServesOpenProject ==
  \A x \in Proxies : listener[x] = "listening" => serves[x] = project /\ proxy = x

\* A history holds the traffic of its own project only.
RowsAreOwn == \A r \in rows : r[1] = r[2]

\* An emergency stop reaches every variation job under way.
StopReachesJobs ==
  [][EmergencyStop => Jobs \cap InFlight \subseteq aborted']_vars

\* An emergency stop reaches all automated work: the repeater follows redirects of
\* the server's choosing, so its sends count.
StopReachesAll ==
  [][EmergencyStop => (Jobs \cup Sends) \cap InFlight \subseteq aborted']_vars

\* However calls overlap: the engines, the repeater and the jobs are those of the open
\* project.
ProjectOwnsItsEngines == TypeOK /\ WiredTogether /\ ClosedJobsAreStopped

\* One lifecycle call after the other: one project, and one proxy that serves it.
OneProjectServed == OneProjectOpen /\ ProxyServesOpenProject

=============================================================================

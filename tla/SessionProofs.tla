---------------------------- MODULE SessionProofs ----------------------------
(***************************************************************************)
(* Proofs about Session for any number of callers, projects, proxies and   *)
(* pieces of work: what holds of the session however its calls overlap.    *)
(***************************************************************************)
EXTENDS Session, FiniteSetTheorems, TLAPS

\* What is in flight began under a project, and no send is newer than the last
\* repeater built.
Grounded ==
  /\ \A w \in InFlight : of[w] \in Stores
  /\ \A w \in Work : gen[w] <= built
  /\ repeater <= built

\* A proxy instance that was made serves a project; the session's own proxy and the
\* one a call is binding were made.
Served ==
  /\ \A x \in Proxies : listener[x] # "fresh" => serves[x] \in Stores
  /\ proxy # None => proxy \in Proxies /\ listener[proxy] # "fresh"
  /\ \A c \in Calls : call[c].at = "binding" => call[c].px \in Proxies /\ listener[call[c].px] # "fresh"

\* The inductive invariant: the fields agree, and jobs of closed projects stopped.
SInv == TypeOK /\ Grounded /\ Served /\ WiredTogether /\ ClosedJobsAreStopped

\* The initial state satisfies the invariant.
LEMMA Starts == Init => SInv
BY SessionAssumption
   DEF Init, SInv, TypeOK, Grounded, Served, WiredTogether, ClosedJobsAreStopped, InFlight, Idle, Places

\* The types survive every step.
LEMMA TypeStep == TypeOK /\ Grounded /\ [Next]_vars => TypeOK'
<1> SUFFICES ASSUME TypeOK, Grounded, [Next]_vars PROVE TypeOK'
  OBVIOUS
<1> USE SessionAssumption DEF TypeOK, lifecycle, proxying, working, Goes, Idle, Places
<1>1. CASE UNCHANGED vars
  BY <1>1 DEF vars
<1>2. ASSUME NEW c \in Calls, Lifecycle(c) PROVE TypeOK'
  <2>1. ASSUME CloseRest PROVE /\ project' \in Stores \cup {None} /\ engine' \in Stores \cup {None}
                               /\ store' \in [Stores -> {"fresh", "open", "closed"}]
                               /\ repeater' \in 0..MaxBuilds /\ built' \in 0..MaxBuilds
                               /\ phase' = phase /\ of' = of /\ gen' = gen /\ rows' = rows
                               /\ aborted' \in SUBSET Work
    BY <2>1 DEF CloseRest, Reachable, InFlight
  <2>2. ASSUME NEW toOpen \in BOOLEAN, CloseProject(c, toOpen) PROVE TypeOK'
    <3>1. CASE proxy = None
      BY <2>1, <2>2, <3>1 DEF CloseProject
    <3>2. CASE proxy # None
      BY <2>2, <3>2 DEF CloseProject, StopsListening
    <3> QED BY <3>1, <3>2
  <2>3. CASE ProxyClosed(c)
    BY <2>1, <2>3 DEF ProxyClosed
  <2>4. CASE Loaded(c)
    BY <2>4 DEF Loaded, BuildRepeater
  <2>5. CASE LoadFails(c)
    BY <2>5 DEF LoadFails
  <2>6. CASE StartProxy(c)
    BY <2>6 DEF StartProxy
  <2>7. CASE Bound(c)
    <3>1. call[c].px \in Proxies \cup {None}
      OBVIOUS
    <3> QED BY <2>7, <3>1 DEF Bound
  <2>8. CASE BindFails(c)
    BY <2>8 DEF BindFails, StopsListening
  <2>9. CASE StopProxy(c)
    BY <2>9 DEF StopProxy, StopsListening
  <2>10. CASE Stopped(c)
    BY <2>10 DEF Stopped
  <2> QED BY <1>2, <2>2, <2>3, <2>4, <2>5, <2>6, <2>7, <2>8, <2>9, <2>10 DEF Lifecycle
<1>3. ASSUME NEW w \in Work, Traffic(w) PROVE TypeOK'
  <2>1. CASE Proxied(w)
    BY <1>3, <2>1 DEF Proxied, Begins
  <2>2. CASE SendRepeater(w)
    BY <1>3, <2>2 DEF SendRepeater, Begins
  <2>3. CASE RunVariationJob(w)
    BY <1>3, <2>3 DEF RunVariationJob, Begins
  <2>4. CASE Answered(w)
    BY <1>3, <2>4 DEF Answered
  <2>5. CASE Stored(w)
    BY <1>3, <2>5 DEF Stored, Over, Ingest, InFlight, Grounded
  <2>6. CASE Failed(w)
    BY <1>3, <2>6 DEF Failed, Over, Ingest, InFlight, Grounded
  <2> QED BY <1>3, <2>1, <2>2, <2>3, <2>4, <2>5, <2>6 DEF Traffic
<1>4. CASE SetConfig
  BY <1>4 DEF SetConfig, BuildRepeater
<1>5. CASE EmergencyStop
  BY <1>5 DEF EmergencyStop, Reachable, InFlight
<1> QED BY <1>1, <1>2, <1>3, <1>4, <1>5 DEF Next

\* What a close leaves behind, whichever call runs it.
LEMMA CloseLeaves ==
  ASSUME SInv, CloseRest
  PROVE  /\ Grounded' /\ WiredTogether'
         /\ ClosedJobsAreStopped'
<1> USE DEF SInv, CloseRest, working
<1>1. InFlight' = InFlight
  BY DEF InFlight
<1>2. Grounded'
  BY <1>1 DEF Grounded, TypeOK
<1>3. WiredTogether'
  BY SessionAssumption DEF WiredTogether
<1>4. ASSUME NEW w \in Jobs, w \in InFlight, store'[of[w]] = "closed" PROVE w \in aborted'
  <2>1. of[w] \in Stores
    BY <1>4 DEF Grounded
  <2>2. CASE of[w] = project
    <3>1. of[w] = engine
      BY <2>2 DEF WiredTogether
    <3> QED BY <1>4, <3>1 DEF Reachable
  <2>3. CASE of[w] # project
    <3>1. store[of[w]] = "closed"
      BY <1>4, <2>1, <2>3
    <3> QED BY <1>4, <3>1 DEF ClosedJobsAreStopped
  <2> QED BY <2>2, <2>3
<1>5. ClosedJobsAreStopped'
  BY <1>1, <1>4 DEF ClosedJobsAreStopped
<1> QED BY <1>2, <1>3, <1>5

\* A step that leaves the projects, the engines and the work alone.
LEMMA Bystander ==
  ASSUME SInv, UNCHANGED <<lifecycle, working, aborted>>
  PROVE  Grounded' /\ WiredTogether' /\ ClosedJobsAreStopped'
<1>1. InFlight' = InFlight
  BY DEF InFlight, working
<1> QED BY <1>1 DEF SInv, lifecycle, working, Grounded, WiredTogether, ClosedJobsAreStopped

\* A lifecycle call at any of its steps.
LEMMA LifecycleStep ==
  ASSUME SInv, NEW c \in Calls, Lifecycle(c)
  PROVE  Grounded' /\ WiredTogether' /\ ClosedJobsAreStopped'
<1>1. ASSUME NEW toOpen \in BOOLEAN, CloseProject(c, toOpen)
      PROVE Grounded' /\ WiredTogether' /\ ClosedJobsAreStopped'
  <2>1. CASE CloseRest
    BY <2>1, CloseLeaves
  <2>2. CASE UNCHANGED <<lifecycle, working, aborted>>
    BY <2>2, Bystander
  <2> QED BY <1>1, <2>1, <2>2 DEF CloseProject
<1>2. CASE ProxyClosed(c)
  BY <1>2, CloseLeaves DEF ProxyClosed
<1>3. CASE Loaded(c)
  <2>1. PICK s \in Stores : /\ store[s] = "fresh"
                            /\ store' = [store EXCEPT ![s] = "open"]
                            /\ project' = s /\ engine' = s
    BY <1>3 DEF Loaded
  <2>2. /\ repeater' = built + 1 /\ built' = built + 1
        /\ phase' = phase /\ of' = of /\ gen' = gen /\ aborted' = aborted
    BY <1>3 DEF Loaded, BuildRepeater, working
  <2>3. InFlight' = InFlight
    BY <2>2 DEF InFlight
  <2>4. /\ built \in Nat /\ store \in [Stores -> {"fresh", "open", "closed"}]
        /\ gen \in [Work -> 0..MaxBuilds]
    BY SessionAssumption DEF SInv, TypeOK
  <2>5. \A w \in Work : gen[w] <= built /\ gen[w] \in Nat
    BY <2>4, SessionAssumption DEF SInv, Grounded
  <2>6. Grounded'
    BY <2>2, <2>3, <2>4, <2>5 DEF SInv, Grounded
  <2>7. WiredTogether'
    BY <2>1, <2>2, <2>4, <2>5, SessionAssumption DEF WiredTogether, Work
  <2>8. ClosedJobsAreStopped'
    BY <2>1, <2>2, <2>3, <2>4 DEF SInv, ClosedJobsAreStopped, Grounded
  <2> QED BY <2>6, <2>7, <2>8
<1>4. CASE LoadFails(c)
  BY <1>4, Bystander DEF LoadFails
<1>5. CASE StartProxy(c)
  BY <1>5, Bystander DEF StartProxy
<1>6. CASE Bound(c)
  BY <1>6, Bystander DEF Bound
<1>7. CASE BindFails(c)
  BY <1>7, Bystander DEF BindFails
<1>8. CASE StopProxy(c)
  BY <1>8, Bystander DEF StopProxy
<1>9. CASE Stopped(c)
  BY <1>9, Bystander DEF Stopped
<1> QED BY <1>1, <1>2, <1>3, <1>4, <1>5, <1>6, <1>7, <1>8, <1>9 DEF Lifecycle

\* Work that begins is grounded in the project and the engines of the moment.
LEMMA Beginning ==
  ASSUME SInv, NEW w \in Work, NEW s \in Stores, Begins(w, s),
         w \in Jobs => s = engine,
         IF w \in Sends THEN s = project /\ gen' = [gen EXCEPT ![w] = repeater] ELSE gen' = gen
  PROVE  Grounded' /\ WiredTogether' /\ ClosedJobsAreStopped'
<1>1. /\ phase \in [Work -> {"none", "sending", "storing", "over"}]
      /\ of \in [Work -> Stores \cup {None}] /\ gen \in [Work -> 0..MaxBuilds]
      /\ built \in Nat /\ repeater \in Nat
  BY SessionAssumption DEF SInv, TypeOK
<1>2. /\ phase[w] = "none" /\ phase' = [phase EXCEPT ![w] = "sending"]
      /\ of' = [of EXCEPT ![w] = s] /\ aborted' = aborted
      /\ project' = project /\ store' = store /\ engine' = engine
      /\ repeater' = repeater /\ built' = built
  BY DEF Begins, lifecycle
<1>3. InFlight' = InFlight \cup {w} /\ w \notin InFlight
  BY <1>1, <1>2 DEF InFlight
<1>4. Grounded'
  <2>1. \A v \in Work : gen[v] <= built /\ repeater <= built
    BY DEF SInv, Grounded
  <2>2. \A v \in Work : gen'[v] <= built'
    BY <1>1, <1>2, <2>1
  <2>3. \A v \in InFlight' : of'[v] \in Stores
    BY <1>1, <1>2, <1>3 DEF SInv, Grounded, InFlight
  <2> QED BY <1>2, <2>1, <2>2, <2>3 DEF Grounded
<1>5. ClosedJobsAreStopped'
  <2>1. ASSUME NEW v \in Jobs, v \in InFlight', store[of'[v]] = "closed" PROVE v \in aborted
    <3>1. CASE v = w
      <4>1. of'[v] = s /\ s = engine
        BY <2>1, <3>1, <1>1, <1>2
      <4>2. store[s] = "open"
        BY <4>1, SessionAssumption DEF SInv, WiredTogether
      <4> QED BY <2>1, <4>1, <4>2
    <3>2. CASE v # w
      <4>1. v \in InFlight /\ of'[v] = of[v]
        BY <2>1, <3>2, <1>1, <1>2, <1>3 DEF Work
      <4> QED BY <2>1, <4>1 DEF SInv, ClosedJobsAreStopped
    <3> QED BY <3>1, <3>2
  <2> QED BY <2>1, <1>2 DEF ClosedJobsAreStopped
<1>6. WiredTogether'
  <2>1. ASSUME NEW v \in Sends, repeater # 0, gen'[v] = repeater PROVE of'[v] = project
    <3>1. CASE v = w
      BY <3>1, <1>1, <1>2
    <3>2. CASE v # w
      <4>1. gen'[v] = gen[v] /\ of'[v] = of[v]
        BY <3>2, <1>1, <1>2 DEF Work
      <4> QED BY <2>1, <4>1 DEF SInv, WiredTogether
    <3> QED BY <3>1, <3>2
  <2> QED BY <2>1, <1>2 DEF SInv, WiredTogether
<1> QED BY <1>4, <1>5, <1>6

\* A step that moves one piece of work on, or ends it.
LEMMA Progress ==
  ASSUME SInv, NEW w \in Work, w \in InFlight,
         UNCHANGED <<lifecycle, of, gen, aborted>>,
         phase' \in {[phase EXCEPT ![w] = "storing"], [phase EXCEPT ![w] = "over"]}
  PROVE  Grounded' /\ WiredTogether' /\ ClosedJobsAreStopped'
<1>1. phase \in [Work -> {"none", "sending", "storing", "over"}]
  BY DEF SInv, TypeOK
<1>2. InFlight' \subseteq InFlight
  BY <1>1 DEF InFlight
<1> QED BY <1>2 DEF SInv, lifecycle, Grounded, WiredTogether, ClosedJobsAreStopped

\* A piece of work at any of its steps.
LEMMA TrafficStep ==
  ASSUME SInv, NEW w \in Work, Traffic(w)
  PROVE  Grounded' /\ WiredTogether' /\ ClosedJobsAreStopped'
<1>1. CASE Proxied(w)
  <2>1. PICK x \in Proxies : listener[x] = "listening" /\ Begins(w, serves[x])
    BY <1>1 DEF Proxied
  <2>2. serves[x] \in Stores /\ w \notin Jobs /\ w \notin Sends
    BY <1>1, <2>1, SessionAssumption DEF Proxied, SInv, Served
  <2> QED BY <1>1, <2>1, <2>2, Beginning DEF Proxied
<1>2. CASE SendRepeater(w)
  <2>1. project \in Stores /\ w \notin Jobs
    BY <1>2, SessionAssumption DEF SendRepeater, SInv, TypeOK, WiredTogether
  <2> QED BY <1>2, <2>1, Beginning DEF SendRepeater
<1>3. CASE RunVariationJob(w)
  <2>1. engine \in Stores /\ w \notin Sends
    BY <1>3, SessionAssumption DEF RunVariationJob, SInv, TypeOK
  <2> QED BY <1>3, <2>1, Beginning DEF RunVariationJob
<1>4. CASE Answered(w)
  <2>1. w \in InFlight
    BY <1>4 DEF Answered, InFlight
  <2> QED BY <1>4, <2>1, Progress DEF Answered
<1>5. CASE Stored(w)
  <2>1. w \in InFlight
    BY <1>5 DEF Stored, InFlight
  <2> QED BY <1>5, <2>1, Progress DEF Stored, Over
<1>6. CASE Failed(w)
  <2>1. w \in InFlight
    BY <1>6 DEF Failed, InFlight
  <2> QED BY <1>6, <2>1, Progress DEF Failed, Over
<1> QED BY <1>1, <1>2, <1>3, <1>4, <1>5, <1>6 DEF Traffic

\* Proxies stay served by the project they were made for.
LEMMA ServedStep == SInv /\ [Next]_vars => Served'
<1> SUFFICES ASSUME SInv, [Next]_vars PROVE Served'
  OBVIOUS
<1>0. /\ listener \in [Proxies -> {"fresh", "binding", "listening", "closed"}]
      /\ serves \in [Proxies -> Stores \cup {None}]
      /\ call \in [Calls -> [at : Places, px : Proxies \cup {None}]]
      /\ Served
  BY DEF SInv, TypeOK
<1> USE SessionAssumption DEF Served, proxying, Goes, Idle
<1>1. CASE UNCHANGED <<proxying, call>>
  BY <1>0, <1>1
<1>2. ASSUME NEW c \in Calls, Lifecycle(c) PROVE Served'
  <2>1. ASSUME NEW toOpen \in BOOLEAN, CloseProject(c, toOpen) PROVE Served'
    <3>1. CASE proxy = None
      BY <1>0, <2>1, <3>1 DEF CloseProject
    <3>2. CASE proxy # None
      BY <1>0, <2>1, <3>2 DEF CloseProject, StopsListening
    <3> QED BY <3>1, <3>2
  <2>2. CASE ProxyClosed(c)
    BY <1>0, <2>2 DEF ProxyClosed
  <2>3. CASE Loaded(c)
    BY <1>0, <2>3 DEF Loaded
  <2>4. CASE LoadFails(c)
    BY <1>0, <2>4 DEF LoadFails
  <2>5. CASE StartProxy(c)
    <3>1. project \in Stores
      BY <2>5 DEF StartProxy, SInv, TypeOK
    <3> QED BY <1>0, <2>5, <3>1 DEF StartProxy
  <2>6. CASE Bound(c)
    BY <1>0, <2>6 DEF Bound
  <2>7. CASE BindFails(c)
    BY <1>0, <2>7 DEF BindFails, StopsListening
  <2>8. CASE StopProxy(c)
    BY <1>0, <2>8 DEF StopProxy, StopsListening
  <2>9. CASE Stopped(c)
    BY <1>0, <2>9 DEF Stopped
  <2> QED BY <1>2, <2>1, <2>2, <2>3, <2>4, <2>5, <2>6, <2>7, <2>8, <2>9 DEF Lifecycle
<1>3. ASSUME NEW w \in Work, Traffic(w) PROVE UNCHANGED <<proxying, call>>
  BY <1>3 DEF Traffic, Proxied, SendRepeater, RunVariationJob, Begins, Answered, Stored, Failed
<1>4. CASE SetConfig
  BY <1>1, <1>4 DEF SetConfig
<1>5. CASE EmergencyStop
  BY <1>1, <1>5 DEF EmergencyStop
<1>6. CASE UNCHANGED vars
  BY <1>1, <1>6 DEF vars
<1> QED BY <1>1, <1>2, <1>3, <1>4, <1>5, <1>6 DEF Next

\* Every step keeps the invariant.
LEMMA Keeps == SInv /\ [Next]_vars => SInv'
<1> SUFFICES ASSUME SInv, [Next]_vars PROVE SInv'
  OBVIOUS
<1>1. TypeOK'
  BY TypeStep DEF SInv
<1>2. Served'
  BY ServedStep
<1>3. Grounded' /\ WiredTogether' /\ ClosedJobsAreStopped'
  <2>1. CASE UNCHANGED vars
    BY <2>1, Bystander DEF vars
  <2>2. ASSUME NEW c \in Calls, Lifecycle(c) PROVE Grounded' /\ WiredTogether' /\ ClosedJobsAreStopped'
    BY <2>2, LifecycleStep
  <2>3. ASSUME NEW w \in Work, Traffic(w) PROVE Grounded' /\ WiredTogether' /\ ClosedJobsAreStopped'
    BY <2>3, TrafficStep
  <2>4. CASE SetConfig
    <3>1. /\ project # None /\ repeater' = built + 1 /\ built' = built + 1
          /\ UNCHANGED <<project, store, engine, working, aborted>>
      BY <2>4 DEF SetConfig, BuildRepeater
    <3>2. built \in Nat /\ \A w \in Work : gen[w] \in Nat /\ gen[w] <= built
      BY SessionAssumption DEF SInv, TypeOK, Grounded
    <3>3. InFlight' = InFlight
      BY <3>1 DEF InFlight, working
    <3> QED BY <3>1, <3>2, <3>3 DEF SInv, working, Work, Grounded, WiredTogether, ClosedJobsAreStopped
  <2>5. CASE EmergencyStop
    <3>1. UNCHANGED <<lifecycle, working>> /\ aborted \subseteq aborted'
      BY <2>5 DEF EmergencyStop
    <3>2. InFlight' = InFlight
      BY <3>1 DEF InFlight, working
    <3> QED BY <3>1, <3>2 DEF SInv, lifecycle, working, Grounded, WiredTogether, ClosedJobsAreStopped
  <2> QED BY <2>1, <2>2, <2>3, <2>4, <2>5 DEF Next
<1> QED BY <1>1, <1>2, <1>3 DEF SInv

\* The invariant holds in every reachable state, for any number of callers.
THEOREM SessionInductive == Spec => []SInv
BY Starts, Keeps, PTL DEF Spec

\* Every variable of the session keeps its type.
THEOREM SessionTypes == Spec => []TypeOK
<1>1. SInv => TypeOK
  BY DEF SInv
<1> QED BY <1>1, SessionInductive, PTL

\* The engines of the session are those of the open project and its database is
\* open, however many calls overlap at their awaits.
THEOREM AlwaysWired == Spec => []WiredTogether
<1>1. SInv => WiredTogether
  BY DEF SInv
<1> QED BY <1>1, SessionInductive, PTL

\* No variation job of a closed project is left running, however calls overlap.
THEOREM ClosedAreStopped == Spec => []ClosedJobsAreStopped
<1>1. SInv => ClosedJobsAreStopped
  BY DEF SInv
<1> QED BY <1>1, SessionInductive, PTL

\* The open project, its engines, its repeater and its jobs belong together.
THEOREM AlwaysOwned == Spec => []ProjectOwnsItsEngines
<1>1. SInv => ProjectOwnsItsEngines
  BY DEF SInv, ProjectOwnsItsEngines
<1> QED BY <1>1, SessionInductive, PTL

----------------------------------------------------------------------------
(* One lifecycle call after the other.                                        *)

OneCaller == \A c, d \in Calls : c = d

NoneListens == \A x \in Proxies : listener[x] # "listening"

\* The one call in progress finds the session as it left it at its last await: nothing
\* listens while it waits for a proxy to close, no proxy is there while it loads a
\* project or binds one, and the one it binds is for the project still open.
Found(c) ==
  /\ call[c].at \in {"closing", "reopening", "stopping"} => NoneListens
  /\ call[c].at = "loading" => project = None /\ proxy = None
  /\ call[c].at = "binding" => proxy = None /\ serves[call[c].px] = project

\* A store that was opened is closed before the next one is.
OpenIsMine ==
  /\ \A s \in Stores : store[s] = "open" => s = project
  /\ \A w \in Jobs : w \in InFlight => store[of[w]] # "fresh"

SerialInv ==
  /\ OneCaller /\ SInv
  /\ OpenIsMine /\ ProxyServesOpenProject
  /\ \A c \in Calls : Found(c)

LEMMA SerialStarts == OneCaller /\ Init => SerialInv
<1> SUFFICES ASSUME OneCaller, Init PROVE SerialInv
  OBVIOUS
<1>1. SInv
  BY Starts
<1>2. OpenIsMine /\ ProxyServesOpenProject
  BY DEF Init, OpenIsMine, ProxyServesOpenProject, InFlight, Work
<1>3. \A c \in Calls : Found(c)
  BY DEF Init, Found, Idle
<1> QED BY <1>1, <1>2, <1>3 DEF SerialInv

\* Without a proxy of its own the session has none that listens.
LEMMA Unserved ==
  ASSUME SerialInv, proxy = None
  PROVE  NoneListens
BY SessionAssumption DEF SerialInv, ProxyServesOpenProject, NoneListens

\* The only call is at one place.
LEMMA OnlyCall ==
  ASSUME SerialInv, NEW c \in Calls, NEW at \in Places, NEW px \in Proxies \cup {None}, Goes(c, at, px)
  PROVE  \A d \in Calls : d = c /\ call'[d].at = at /\ call'[d].px = px
<1>1. call \in [Calls -> [at : Places, px : Proxies \cup {None}]] /\ \A d \in Calls : d = c
  BY DEF SerialInv, SInv, TypeOK, OneCaller
<1>2. call'[c] = [at |-> at, px |-> px]
  BY <1>1 DEF Goes
<1> QED BY <1>1, <1>2

\* A close leaves no store open, once nothing listens.
LEMMA ClosesAll ==
  ASSUME SerialInv, CloseRest, NoneListens, UNCHANGED listener
  PROVE  OpenIsMine' /\ ProxyServesOpenProject' /\ NoneListens'
<1>1. store \in [Stores -> {"fresh", "open", "closed"}] /\ \A w \in InFlight : of[w] \in Stores
  BY DEF SerialInv, SInv, TypeOK, Grounded
<1>2. /\ \A s \in Stores : store'[s] = (IF s = project THEN "closed" ELSE store[s])
      /\ UNCHANGED <<phase, of>>
  BY <1>1 DEF CloseRest, working
<1>3. InFlight' = InFlight
  BY <1>2 DEF InFlight
<1>4. \A s \in Stores : store'[s] # "open"
  BY <1>2 DEF SerialInv, OpenIsMine
<1>5. \A w \in Jobs : w \in InFlight => store'[of[w]] # "fresh"
  BY <1>1, <1>2 DEF SerialInv, OpenIsMine
<1>6. OpenIsMine'
  BY <1>2, <1>3, <1>4, <1>5 DEF OpenIsMine
<1>7. NoneListens' /\ ProxyServesOpenProject'
  BY DEF NoneListens, ProxyServesOpenProject
<1> QED BY <1>6, <1>7

\* A step of the call at one of its awaits.
LEMMA SerialLifecycle ==
  ASSUME SerialInv, NEW c \in Calls, Lifecycle(c)
  PROVE  OpenIsMine' /\ ProxyServesOpenProject' /\ \A d \in Calls : Found(d)'
<1>0. SInv /\ OpenIsMine /\ ProxyServesOpenProject /\ Found(c)
  BY DEF SerialInv
<1>1. /\ listener \in [Proxies -> {"fresh", "binding", "listening", "closed"}]
      /\ serves \in [Proxies -> Stores \cup {None}]
      /\ store \in [Stores -> {"fresh", "open", "closed"}]
      /\ proxy \in Proxies \cup {None} /\ None \notin Proxies /\ None \notin Stores
      /\ project \in Stores \cup {None}
      /\ call[c].px \in Proxies \cup {None}
      /\ \A w \in InFlight : of[w] \in Stores
  BY <1>0, SessionAssumption DEF SInv, TypeOK, Grounded
<1>2. /\ {"idle", "closing", "reopening", "loading", "binding", "stopping"} = Places
      /\ None \in Proxies \cup {None}
  BY DEF Places
<1>3. ASSUME UNCHANGED <<lifecycle, working>> PROVE OpenIsMine'
  <2>1. InFlight' = InFlight /\ UNCHANGED <<project, store, of>>
    BY <1>3 DEF InFlight, lifecycle, working
  <2> QED BY <1>0, <2>1 DEF OpenIsMine
<1>4. ASSUME proxy # None, StopsListening(proxy) PROVE NoneListens'
  <2>1. \A x \in Proxies : listener'[x] = (IF x = proxy THEN "closed" ELSE listener[x])
    BY <1>1, <1>4 DEF StopsListening
  <2> QED BY <1>0, <2>1 DEF NoneListens, ProxyServesOpenProject
<1>5. NoneListens' => ProxyServesOpenProject'
  BY DEF NoneListens, ProxyServesOpenProject
<1>6. ASSUME NEW toOpen \in BOOLEAN, CloseProject(c, toOpen)
      PROVE OpenIsMine' /\ ProxyServesOpenProject' /\ \A d \in Calls : Found(d)'
  <2>1. CASE proxy = None /\ CloseRest /\ UNCHANGED proxying
                /\ Goes(c, IF toOpen THEN "loading" ELSE "idle", None)
    <3>1. OpenIsMine' /\ ProxyServesOpenProject' /\ NoneListens'
      BY <2>1, Unserved, ClosesAll DEF proxying
    <3>2. PICK at \in {"loading", "idle"} : Goes(c, at, None)
      BY <2>1
    <3>3. \A d \in Calls : call'[d].at = at
      BY <1>2, <3>2, OnlyCall
    <3>4. project' = None /\ proxy' = None
      BY <2>1 DEF CloseRest, proxying
    <3>5. \A d \in Calls : Found(d)'
      BY <3>2, <3>3, <3>4 DEF Found
    <3> QED BY <3>1, <3>5
  <2>2. CASE proxy # None /\ StopsListening(proxy) /\ UNCHANGED <<lifecycle, proxy, serves, working>>
                /\ Goes(c, IF toOpen THEN "reopening" ELSE "closing", proxy)
    <3>1. PICK at \in {"reopening", "closing"}, px \in Proxies : Goes(c, at, px)
      BY <1>1, <2>2
    <3>2. \A d \in Calls : call'[d].at = at
      BY <1>2, <3>1, OnlyCall
    <3>3. \A d \in Calls : Found(d)'
      BY <1>4, <2>2, <3>1, <3>2 DEF Found
    <3> QED BY <1>3, <1>4, <1>5, <2>2, <3>3
  <2> QED BY <1>6, <2>1, <2>2 DEF CloseProject
<1>7. CASE ProxyClosed(c)
  <2>1. NoneListens /\ CloseRest /\ UNCHANGED <<listener, serves>> /\ proxy' = None
        /\ Goes(c, IF call[c].at = "reopening" THEN "loading" ELSE "idle", None)
    BY <1>0, <1>7 DEF ProxyClosed, Found
  <2>2. OpenIsMine' /\ ProxyServesOpenProject' /\ NoneListens'
    BY <2>1, ClosesAll
  <2>3. PICK at \in {"loading", "idle"} : Goes(c, at, None)
    BY <2>1
  <2>4. \A d \in Calls : call'[d].at = at
    BY <1>2, <2>3, OnlyCall
  <2>5. project' = None
    BY <2>1 DEF CloseRest
  <2>6. \A d \in Calls : Found(d)'
    BY <2>1, <2>3, <2>4, <2>5 DEF Found
  <2> QED BY <2>2, <2>6
<1>8. CASE Loaded(c)
  <2>1. PICK s \in Stores : store[s] = "fresh" /\ store' = [store EXCEPT ![s] = "open"] /\ project' = s
    BY <1>8 DEF Loaded
  <2>2. project = None /\ proxy = None /\ UNCHANGED <<listener, serves, proxy, phase, of>> /\ Goes(c, "idle", None)
    BY <1>0, <1>8 DEF Loaded, Found, proxying, working
  <2>3. NoneListens'
    BY <2>2, Unserved DEF NoneListens
  <2>4. \A d \in Calls : Found(d)'
    <3>1. \A d \in Calls : call'[d].at = "idle"
      BY <1>2, <2>2, OnlyCall
    <3> QED BY <3>1 DEF Found
  <2>5. OpenIsMine'
    <3>1. InFlight' = InFlight
      BY <2>2 DEF InFlight
    <3>2. \A t \in Stores : store'[t] = (IF t = s THEN "open" ELSE store[t])
      BY <1>1, <2>1
    <3>3. \A t \in Stores : store[t] # "open"
      BY <1>0, <1>1, <2>2 DEF OpenIsMine
    <3> QED BY <1>0, <1>1, <2>1, <2>2, <3>1, <3>2, <3>3 DEF OpenIsMine
  <2> QED BY <1>5, <2>3, <2>4, <2>5
<1>9. ASSUME Goes(c, "idle", None) PROVE \A d \in Calls : Found(d)'
  <2>1. \A d \in Calls : call'[d].at = "idle"
    BY <1>2, <1>9, OnlyCall
  <2> QED BY <2>1 DEF Found
<1>10. CASE LoadFails(c)
  <2>1. ProxyServesOpenProject'
    BY <1>0, <1>10 DEF LoadFails, ProxyServesOpenProject, lifecycle, proxying
  <2> QED BY <1>3, <1>9, <1>10, <2>1 DEF LoadFails
<1>11. CASE StartProxy(c)
  <2>1. PICK x \in Proxies : /\ listener[x] = "fresh"
                             /\ listener' = [listener EXCEPT ![x] = "binding"]
                             /\ serves' = [serves EXCEPT ![x] = project]
                             /\ Goes(c, "binding", x)
    BY <1>11 DEF StartProxy
  <2>2. proxy = None /\ UNCHANGED <<lifecycle, proxy, working, project>>
    BY <1>11 DEF StartProxy, lifecycle
  <2>3. NoneListens'
    <3>1. NoneListens
      BY <2>2, Unserved
    <3> QED BY <1>1, <2>1, <3>1 DEF NoneListens
  <2>4. \A d \in Calls : call'[d].at = "binding" /\ call'[d].px = x
    BY <1>2, <2>1, OnlyCall
  <2>5. \A d \in Calls : Found(d)'
    BY <1>1, <2>1, <2>2, <2>4 DEF Found
  <2> QED BY <1>3, <1>5, <2>2, <2>3, <2>5
<1>12. CASE Bound(c)
  <2> DEFINE x == call[c].px
  <2>1. /\ proxy = None /\ serves[x] = project /\ listener' = [listener EXCEPT ![x] = "listening"]
        /\ proxy' = x /\ Goes(c, "idle", None) /\ UNCHANGED <<lifecycle, serves, working, project>>
    BY <1>0, <1>12 DEF Bound, Found, lifecycle
  <2>2. ProxyServesOpenProject'
    <3>1. NoneListens
      BY <2>1, Unserved
    <3>2. \A y \in Proxies : y # x => listener'[y] = listener[y]
      BY <1>1, <2>1
    <3> QED BY <2>1, <3>1, <3>2 DEF NoneListens, ProxyServesOpenProject
  <2> QED BY <1>3, <1>9, <2>1, <2>2
<1>13. CASE BindFails(c)
  <2> DEFINE x == call[c].px
  <2>1. /\ proxy = None /\ listener' = [listener EXCEPT ![x] = "closed"]
        /\ Goes(c, "idle", None) /\ UNCHANGED <<lifecycle, proxy, serves, working>>
    BY <1>0, <1>13 DEF BindFails, Found, StopsListening
  <2>2. NoneListens'
    <3>1. NoneListens
      BY <2>1, Unserved
    <3> QED BY <1>1, <2>1, <3>1 DEF NoneListens
  <2> QED BY <1>3, <1>5, <1>9, <2>1, <2>2
<1>14. CASE StopProxy(c)
  <2>1. proxy # None /\ StopsListening(proxy) /\ Goes(c, "stopping", proxy)
        /\ UNCHANGED <<lifecycle, proxy, serves, working>>
    BY <1>14 DEF StopProxy
  <2>2. PICK px \in Proxies : Goes(c, "stopping", px)
    BY <1>1, <2>1
  <2>3. \A d \in Calls : call'[d].at = "stopping"
    BY <1>2, <2>2, OnlyCall
  <2>4. \A d \in Calls : Found(d)'
    BY <1>4, <2>1, <2>3 DEF Found
  <2> QED BY <1>3, <1>4, <1>5, <2>1, <2>4
<1>15. CASE Stopped(c)
  <2>1. NoneListens /\ UNCHANGED <<lifecycle, listener, serves, working>> /\ Goes(c, "idle", None)
    BY <1>0, <1>15 DEF Stopped, Found
  <2>2. NoneListens'
    BY <2>1 DEF NoneListens
  <2> QED BY <1>3, <1>5, <1>9, <2>1, <2>2
<1> QED BY <1>6, <1>7, <1>8, <1>10, <1>11, <1>12, <1>13, <1>14, <1>15 DEF Lifecycle

\* Work begins under an open store, and moves no call.
LEMMA SerialTraffic ==
  ASSUME SerialInv, NEW w \in Work, Traffic(w)
  PROVE  OpenIsMine' /\ ProxyServesOpenProject' /\ \A d \in Calls : Found(d)'
<1>0. SInv /\ OpenIsMine /\ ProxyServesOpenProject
  BY DEF SerialInv
<1>1. UNCHANGED <<lifecycle, proxying, call>>
  BY DEF Traffic, Proxied, SendRepeater, RunVariationJob, Begins, Answered, Stored, Failed
<1>2. UNCHANGED <<project, store, proxy, listener, serves, call, engine>>
  BY <1>1 DEF lifecycle, proxying
<1>3. ProxyServesOpenProject' /\ \A d \in Calls : Found(d)'
  BY <1>2 DEF SerialInv, ProxyServesOpenProject, Found, NoneListens
<1>4. \A v \in Jobs : v \in InFlight' => store[of'[v]] # "fresh"
  <2> SUFFICES ASSUME NEW v \in Jobs, v \in InFlight' PROVE store[of'[v]] # "fresh"
    OBVIOUS
  <2>1. /\ phase \in [Work -> {"none", "sending", "storing", "over"}] /\ of \in [Work -> Stores \cup {None}]
        /\ v \in Work
    BY <1>0 DEF SInv, TypeOK, Work
  <2>2. CASE v \in InFlight /\ of'[v] = of[v]
    BY <1>0, <2>2 DEF OpenIsMine
  <2>3. ASSUME NEW s, Begins(w, s), v # w PROVE v \in InFlight /\ of'[v] = of[v]
    BY <2>1, <2>3 DEF Begins, InFlight
  <2>4. CASE RunVariationJob(w)
    <3>1. CASE v = w
      <4>1. of'[v] = engine /\ engine # None
        BY <2>1, <2>4, <3>1 DEF RunVariationJob, Begins
      <4>2. store[engine] = "open"
        BY <1>0, <4>1 DEF SInv, WiredTogether
      <4> QED BY <4>1, <4>2
    <3>2. CASE v # w
      BY <2>2, <2>3, <2>4, <3>2 DEF RunVariationJob
    <3> QED BY <3>1, <3>2
  <2>5. CASE Proxied(w)
    <3>1. v # w
      BY <2>5, SessionAssumption DEF Proxied
    <3>2. PICK x \in Proxies : Begins(w, serves[x])
      BY <2>5 DEF Proxied
    <3> QED BY <2>2, <2>3, <3>1, <3>2
  <2>6. CASE SendRepeater(w)
    <3>1. v # w
      BY <2>6, SessionAssumption DEF SendRepeater
    <3> QED BY <2>2, <2>3, <2>6, <3>1 DEF SendRepeater
  <2>7. CASE Answered(w) \/ Stored(w) \/ Failed(w)
    <3>1. v \in InFlight /\ of'[v] = of[v]
      BY <2>1, <2>7 DEF Answered, Stored, Failed, Over, InFlight
    <3> QED BY <2>2, <3>1
  <2> QED BY <2>4, <2>5, <2>6, <2>7 DEF Traffic
<1>5. OpenIsMine'
  BY <1>0, <1>2, <1>4 DEF OpenIsMine
<1> QED BY <1>3, <1>5

LEMMA SerialKeeps == SerialInv /\ [Next]_vars => SerialInv'
<1> SUFFICES ASSUME SerialInv, [Next]_vars PROVE SerialInv'
  OBVIOUS
<1>1. SInv' /\ OneCaller
  BY Keeps DEF SerialInv
<1> SUFFICES OpenIsMine' /\ ProxyServesOpenProject' /\ \A d \in Calls : Found(d)'
  BY <1>1 DEF SerialInv, OneCaller
<1>2. CASE UNCHANGED <<project, store, proxying, call, working>>
  <2>1. UNCHANGED <<project, store, proxy, listener, serves, call, of>> /\ InFlight' = InFlight
    BY <1>2 DEF proxying, working, InFlight
  <2> QED BY <2>1 DEF SerialInv, OpenIsMine, ProxyServesOpenProject, Found, NoneListens
<1>3. CASE SetConfig
  BY <1>2, <1>3 DEF SetConfig
<1>4. CASE EmergencyStop
  BY <1>2, <1>4 DEF EmergencyStop, lifecycle
<1>5. CASE UNCHANGED vars
  BY <1>2, <1>5 DEF vars, lifecycle
<1> QED BY <1>3, <1>4, <1>5, SerialLifecycle, SerialTraffic DEF Next

\* What holds of a session whose calls are made one after the other.
THEOREM SerialInductive == OneCaller /\ Spec => []SerialInv
BY SerialStarts, SerialKeeps, PTL DEF Spec

\* One lifecycle call after the other, one project is open at most, and a proxy that
\* listens is the session's own and serves it (session.ts).
THEOREM OneIsServed == OneCaller /\ Spec => []OneProjectServed
<1>1. SerialInv => OneProjectServed
  <2> SUFFICES ASSUME SerialInv PROVE OneProjectServed
    OBVIOUS
  <2>1. {s \in Stores : store[s] = "open"} \subseteq {project}
    BY DEF SerialInv, OpenIsMine
  <2>2. Cardinality({s \in Stores : store[s] = "open"}) <= 1
    <3>1. Cardinality({project}) = 1 /\ IsFiniteSet({project})
      BY FS_Singleton
    <3> QED BY <2>1, <3>1, FS_Subset
  <2> QED BY <2>2 DEF SerialInv, OneProjectServed, OneProjectOpen
<1> QED BY <1>1, SerialInductive, PTL

\* One lifecycle call after the other, an emergency stop reaches every variation job
\* under way: those of a closed project were stopped when it was closed.
THEOREM StopsReachJobs == OneCaller /\ Spec => StopReachesJobs
<1>1. SerialInv /\ [Next]_vars => [EmergencyStop => Jobs \cap InFlight \subseteq aborted']_vars
  <2> SUFFICES ASSUME SerialInv, EmergencyStop PROVE Jobs \cap InFlight \subseteq aborted'
    OBVIOUS
  <2> SUFFICES ASSUME NEW w \in Jobs, w \in InFlight PROVE w \in aborted'
    OBVIOUS
  <2>1. aborted' = aborted \cup Reachable
    BY DEF EmergencyStop
  <2>2. of[w] \in Stores /\ store[of[w]] \in {"open", "closed"}
    BY DEF SerialInv, SInv, TypeOK, Grounded, OpenIsMine
  <2>3. CASE store[of[w]] = "open"
    <3>1. of[w] = engine
      BY <2>2, <2>3 DEF SerialInv, OpenIsMine, SInv, WiredTogether
    <3> QED BY <2>1, <3>1 DEF Reachable
  <2>4. CASE store[of[w]] = "closed"
    BY <2>1, <2>4 DEF SerialInv, SInv, ClosedJobsAreStopped
  <2> QED BY <2>2, <2>3, <2>4
<1> QED BY <1>1, SerialInductive, PTL DEF Spec, StopReachesJobs

=============================================================================

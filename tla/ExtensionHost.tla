--------------------------- MODULE ExtensionHost ---------------------------
(* The extension host (src/sdk/host.ts) and the child process it forks      *)
(* (src/sdk/subprocessRuntime.ts).  The two exchange messages over one IPC   *)
(* channel, FIFO in each direction; a call is correlated by a request id,    *)
(* times out, and is rejected when the child exits.  What an extension       *)
(* registers (checks, transforms, tabs, actions) is reduced to one           *)
(* registration that carries the extension's id.                             *)
EXTENDS Naturals, Sequences, FiniteSets

CONSTANTS
    Loads,       \* the calls of load
    Checks,      \* the calls of runChecks
    Others,      \* the calls of applyTransform and renderTab
    IdOf         \* IdOf[l]: the id in the manifest that load l names

Ids   == {IdOf[l] : l \in Loads}
Calls == Loads \cup Checks \cup Others

ASSUME CallsAssumption == Loads \cap (Checks \cup Others) = {} /\ Checks \cap Others = {} /\ IdOf \in [Loads -> Ids]

VARIABLES
    ready,        \* the promise: "pending", "ok" or "failed"
    connected,    \* child.connected
    dead,         \* the exit handler ran
    spawned,      \* FALSE once fork reported an error: there will be no exit event
    terminating,  \* terminate was called
    seq,          \* the last request id given out
    reqOf,        \* reqOf[c]: the id call c waits on in the map `pending`, or 0
    st,           \* st[c]: where call c is
    extensions,   \* the ids of the loaded extensions, in order
    checksMeta,   \* what the host advertises, one entry per registration told
    child,        \* the child process: "booting", "up", "hung" or "gone"
    registered,   \* the registrations alive in the child, by extension id
    toChild,      \* messages on their way to the child
    toHost        \* messages on their way back

hostVars == <<ready, connected, dead, spawned, terminating, seq, reqOf, st, extensions, checksMeta>>
chanVars == <<child, registered, toChild, toHost>>
extensionVars     == <<hostVars, chanVars>>

Settled == {"returned", "rejected", "timed-out", "duplicate"}

\* How often an id is in a list of ids.
Count(s, id) == Cardinality({i \in DOMAIN s : s[i] = id})

HostTypeOK ==
    /\ ready \in {"pending", "ok", "failed"}
    /\ connected \in BOOLEAN /\ dead \in BOOLEAN /\ spawned \in BOOLEAN /\ terminating \in BOOLEAN
    /\ seq \in Nat
    /\ reqOf \in [Calls -> 0..seq]
    /\ st \in [Calls -> {"idle", "awaits-ready", "pending"} \cup Settled]
    /\ extensions \in Seq(Ids) /\ checksMeta \in Seq(Ids) /\ registered \in Seq(Ids)
    /\ child \in {"booting", "up", "hung", "gone"}

HostInit ==
    /\ ready = "pending"
    /\ connected = TRUE
    /\ dead = FALSE
    /\ spawned = TRUE
    /\ terminating = FALSE
    /\ seq = 0
    /\ reqOf = [c \in Calls |-> 0]
    /\ st = [c \in Calls |-> "idle"]
    /\ extensions = <<>>
    /\ checksMeta = <<>>
    /\ child = "booting"
    /\ registered = <<>>
    /\ toChild = <<>>
    /\ toHost = <<>>

----------------------------------------------------------------------------
(* The host: a call up to its await.                                         *)

\* call(): an id is used up even if the child is not running.
Call(c) ==
    /\ seq' = seq + 1
    /\ IF dead \/ ~connected
       THEN /\ st' = [st EXCEPT ![c] = "rejected"]
            /\ UNCHANGED <<reqOf, toChild>>
       ELSE /\ st' = [st EXCEPT ![c] = "pending"]
            /\ reqOf' = [reqOf EXCEPT ![c] = seq + 1]
            /\ toChild' = IF child = "gone" THEN toChild
                          ELSE Append(toChild, [type |-> "call", call |-> c, reqId |-> seq + 1])

\* runChecks alone returns at once when no extension registered a check.
Begin(c) ==
    /\ st[c] = "idle"
    /\ st' = [st EXCEPT ![c] = IF c \in Checks /\ checksMeta = <<>>
                               THEN "returned" ELSE "awaits-ready"]
    /\ UNCHANGED <<ready, connected, dead, spawned, terminating, seq, reqOf, extensions, checksMeta, chanVars>>

ReadyFailed(c) ==
    /\ st[c] = "awaits-ready" /\ ready = "failed"
    /\ st' = [st EXCEPT ![c] = "rejected"]
    /\ UNCHANGED <<ready, connected, dead, spawned, terminating, seq, reqOf, extensions, checksMeta, chanVars>>

\* load looks for its id among the loaded ones before it asks the child.
AfterReady(c) ==
    /\ st[c] = "awaits-ready" /\ ready = "ok"
    /\ IF c \in Loads /\ Count(extensions, IdOf[c]) > 0
       THEN /\ st' = [st EXCEPT ![c] = "duplicate"]
            /\ UNCHANGED <<seq, reqOf, toChild>>
       ELSE Call(c)
    /\ UNCHANGED <<ready, connected, dead, spawned, terminating, extensions, checksMeta,
                   child, registered, toHost>>

\* A mutant: the timer is set for loads only.
TimeoutOfLoads(c) ==
    /\ c \in Loads /\ st[c] = "pending"
    /\ st' = [st EXCEPT ![c] = "timed-out"]
    /\ reqOf' = [reqOf EXCEPT ![c] = 0]
    /\ UNCHANGED <<ready, connected, dead, spawned, terminating, seq, extensions, checksMeta, chanVars>>

\* Five seconds may pass at any moment; the child is not told.
Timeout(c) ==
    /\ st[c] = "pending"
    /\ st' = [st EXCEPT ![c] = "timed-out"]
    /\ reqOf' = [reqOf EXCEPT ![c] = 0]
    /\ UNCHANGED <<ready, connected, dead, spawned, terminating, seq, extensions, checksMeta, chanVars>>

----------------------------------------------------------------------------
(* The host: onMessage and the continuation of the call it settles.          *)

Waiting(reqId) == {c \in Calls : reqOf[c] = reqId}

\* What load does with the answer; runChecks and the others only return it.
Continue(c, m) ==
    IF c \in Loads /\ m.ok
    THEN /\ extensions' = Append(extensions, IdOf[c])
         /\ checksMeta' = checksMeta \o m.registrations
    ELSE UNCHANGED <<extensions, checksMeta>>

OnMessage ==
    /\ toHost # <<>>
    /\ toHost' = Tail(toHost)
    /\ LET m == Head(toHost) IN
       IF m.type = "ready"
       THEN /\ ready' = IF ready = "pending" THEN "ok" ELSE ready
            /\ UNCHANGED <<reqOf, st, extensions, checksMeta>>
       ELSE IF Waiting(m.reqId) = {}
       THEN UNCHANGED <<ready, reqOf, st, extensions, checksMeta>>
       ELSE \E c \in Waiting(m.reqId) :
            /\ reqOf' = [reqOf EXCEPT ![c] = 0]
            /\ st' = [st EXCEPT ![c] = IF m.ok THEN "returned" ELSE "rejected"]
            /\ Continue(c, m)
            /\ UNCHANGED ready
    /\ UNCHANGED <<connected, dead, spawned, terminating, seq, child, registered, toChild>>

\* A mutant: the exit handler forgets the calls that wait.
OnExitKeepingPending ==
    /\ child = "gone" /\ ~dead /\ spawned
    /\ dead' = TRUE
    /\ ready' = IF ready = "pending" THEN "failed" ELSE ready
    /\ IF terminating THEN UNCHANGED <<extensions, checksMeta>>
       ELSE extensions' = <<>> /\ checksMeta' = <<>>
    /\ UNCHANGED <<reqOf, st, connected, spawned, terminating, seq, chanVars>>

\* The 'exit' event: reject what waits, and if nobody asked for the exit drop
\* all that was advertised.  Messages still in the channel may come after it.
OnExit ==
    /\ child = "gone" /\ ~dead /\ spawned
    /\ dead' = TRUE
    /\ ready' = IF ready = "pending" THEN "failed" ELSE ready
    /\ reqOf' = [c \in Calls |-> 0]
    /\ st' = [c \in Calls |-> IF st[c] = "pending" THEN "rejected" ELSE st[c]]
    /\ IF terminating THEN UNCHANGED <<extensions, checksMeta>>
       ELSE extensions' = <<>> /\ checksMeta' = <<>>
    /\ UNCHANGED <<connected, spawned, terminating, seq, chanVars>>

\* The 'error' event of a fork that failed.
OnError ==
    /\ child = "booting" /\ ~terminating
    /\ child' = "gone"
    /\ spawned' = FALSE
    /\ connected' = FALSE
    /\ ready' = "failed"
    /\ toChild' = <<>>
    /\ UNCHANGED <<dead, terminating, seq, reqOf, st, extensions, checksMeta, registered, toHost>>

OnDisconnect ==
    /\ child = "gone" /\ connected
    /\ connected' = FALSE
    /\ UNCHANGED <<ready, dead, spawned, terminating, seq, reqOf, st, extensions, checksMeta, chanVars>>

\* terminate asks the child to shut down ...
Terminate ==
    /\ ~terminating
    /\ terminating' = TRUE
    /\ toChild' = IF ~dead /\ connected /\ child # "gone"
                  THEN Append(toChild, [type |-> "shutdown"]) ELSE toChild
    /\ UNCHANGED <<ready, connected, dead, spawned, seq, reqOf, st, extensions, checksMeta,
                   child, registered, toHost>>

\* ... and kills it half a second later.
Kill ==
    /\ terminating /\ child # "gone"
    /\ child' = "gone"
    /\ toChild' = <<>>
    /\ UNCHANGED <<hostVars, registered, toHost>>

----------------------------------------------------------------------------
(* The child.                                                                *)

Boot ==
    /\ child = "booting"
    /\ child' = "up"
    /\ toHost' = Append(toHost, [type |-> "ready"])
    /\ UNCHANGED <<hostVars, registered, toChild>>

Reply(m, ok, registrations) ==
    toHost' = Append(toHost, [type |-> "reply", reqId |-> m.reqId, ok |-> ok,
                              registrations |-> registrations])

\* load in the child: activate registers, and the answer lists every
\* registration under that id, those of an earlier load included.
ChildLoads(m) ==
    LET id == IdOf[m.call] IN
    /\ registered' = Append(registered, id)
    /\ Reply(m, TRUE, [i \in 1..Count(registered', id) |-> id])

\* activate throws: its registrations are cut off again.
ChildRefuses(m) == Reply(m, FALSE, <<>>) /\ UNCHANGED registered

ChildHandles ==
    /\ child = "up" /\ toChild # <<>>
    /\ Head(toChild).type = "call"
    /\ LET m == Head(toChild) IN
       IF m.call \in Loads THEN ChildLoads(m) \/ ChildRefuses(m)
       ELSE (\E ok \in BOOLEAN : Reply(m, ok, <<>>)) /\ UNCHANGED registered
    /\ toChild' = Tail(toChild)
    /\ UNCHANGED <<hostVars, child>>

\* The code of an extension does not come back.
ChildHangs ==
    /\ child = "up" /\ toChild # <<>>
    /\ child' = "hung"
    /\ toChild' = Tail(toChild)
    /\ UNCHANGED <<hostVars, registered, toHost>>

\* Asked to, out of memory, or by its own process.exit.
ChildExits ==
    /\ child # "gone"
    /\ child' = "gone"
    /\ toChild' = <<>>
    /\ UNCHANGED <<hostVars, registered, toHost>>

HostNext ==
    \/ \E c \in Calls : Begin(c) \/ ReadyFailed(c) \/ AfterReady(c) \/ Timeout(c)
    \/ OnMessage \/ OnExit \/ OnError \/ OnDisconnect \/ Terminate \/ Kill
    \/ Boot \/ ChildHandles \/ ChildHangs \/ ChildExits

HostSpec == HostInit /\ [][HostNext]_extensionVars

\* Timers fire, events are delivered, promise jobs run; a forked child boots
\* or dies.  Whether it answers a call is up to the extension.
HostFairSpec ==
    /\ HostSpec
    /\ \A c \in Calls : WF_extensionVars(ReadyFailed(c) \/ AfterReady(c)) /\ WF_extensionVars(Timeout(c))
    /\ WF_extensionVars(OnMessage) /\ WF_extensionVars(OnExit) /\ WF_extensionVars(OnDisconnect)
    /\ WF_extensionVars(Kill) /\ WF_extensionVars(Boot)

----------------------------------------------------------------------------
(* Properties.                                                               *)

\* Request ids are never shared: an answer finds the call it belongs to, a late
\* answer (after the timeout or after the exit) finds none.
OneCallPerRequest ==
    /\ \A c, d \in Calls : reqOf[c] # 0 /\ reqOf[c] = reqOf[d] => c = d
    /\ \A c \in Calls : reqOf[c] # 0 <=> st[c] = "pending"

\* host.ts:164: after an unexpected death the app never goes on advertising
\* what can no longer run, in whatever order the exit event, the last messages
\* of the channel and the calls begun before come.
DeadAdvertisesNothing ==
    dead /\ ~terminating => extensions = <<>> /\ checksMeta = <<>>

\* What the host lists the child has, as long as its exit was not handled.
ListedIsRegistered ==
    ~dead => \A id \in Ids : Count(extensions, id) <= Count(registered, id)

\* The converse needs a timeout: a registration the host does not know of
\* belongs to a load still on its way or to one that timed out.
UnlistedIsExplained ==
    child # "gone" =>
      \A id \in Ids :
        Count(registered, id) > Count(extensions, id)
          => \E l \in Loads : IdOf[l] = id /\ st[l] \in {"pending", "timed-out"}

\* A request to the child is answered to one caller, a dead child offers nothing,
\* and what the host lists is what the child registered, but for loads that are
\* under way or timed out (host.ts).
HostMatchesChild ==
    HostTypeOK /\ OneCallPerRequest /\ DeadAdvertisesNothing
           /\ ListedIsRegistered /\ UnlistedIsExplained

\* No caller waits for ever, although the child may hang or die at any point:
\* a passive scan that asked an extension goes on.
CallsSettle == \A c \in Calls : (st[c] # "idle") ~> (st[c] \in Settled)

\* terminate always gets the exit event it waits for, or has none to wait for.
TerminateEnds == terminating ~> dead \/ ~spawned

\* Whatever the child does, callers and terminate come back.
HostSettles == CallsSettle /\ TerminateEnds

\* host.ts:264: "Reject a duplicate id".
NoIdTwice == \A id \in Ids : Count(extensions, id) <= 1
=============================================================================

------------------------------ MODULE ProxyFlow ------------------------------
(***************************************************************************)
(* The path of a request through the intercepting proxy: onRequest,        *)
(* handleUpstreamResponse and pumpResponse, the hold queues of the          *)
(* Interceptor, the clients and origins at either end, and the controls    *)
(* (interception switches, decisions, emergency stop, stop of the proxy)   *)
(* that come while a handler is suspended.                                 *)
(*                                                                         *)
(* A handler suspends where it waits for a socket, for the operator or for *)
(* the disk.  Storing a body that stays in memory does not suspend: whether *)
(* a body spills to the blob store, before or after an edit, and whether it *)
(* then exceeds the capture cap, is a choice.                               *)
(***************************************************************************)
EXTENDS Naturals, Sequences

CONSTANT Reqs  \* requests clients make through the proxy

VARIABLES
  intercept,  \* Interceptor.state: [requests |-> BOOLEAN, responses |-> BOOLEAN]
  up,         \* the proxy listens
  at,         \* at[r]: where the handler of r is suspended
  client,     \* client[r]: what the client of r has got
  origin,     \* origin[r]: the upstream request of r
  ears,       \* ears[r]: the listeners on r's upstream request
  rows,       \* rows[r]: the exchanges emitted for r
  crashed     \* an 'error' event was emitted and nothing listened

vars == <<intercept, up, at, client, origin, ears, rows, crashed>>

Storing   == {"fold", "rebuild", "commit", "rfold", "rrebuild", "rcommit"}
Positions == Storing \cup
  {"new", "drain", "held", "tee", "flush", "await", "rdrain", "rheld", "rtee", "end"}
Clients   == {"none", "open", "gone", "answered", "refused", "cut"}
Origins   == {"none", "open", "sent", "replied", "ended", "failed", "lost"}
Ears      == {"none", "stale", "full"}
Outcomes  == {"answer", "dropped", "reply-dropped", "too-large", "error"}

Init ==
  /\ intercept = [requests |-> FALSE, responses |-> FALSE]
  /\ up = TRUE
  /\ at = [r \in Reqs |-> "new"]
  /\ client = [r \in Reqs |-> "none"]
  /\ origin = [r \in Reqs |-> "none"]
  /\ ears = [r \in Reqs |-> "none"]
  /\ rows = [r \in Reqs |-> << >>]
  /\ crashed = FALSE

\* Interceptor.pendingRequests and pendingResponses
HeldRequests  == {r \in Reqs : at[r] = "held"}
HeldResponses == {r \in Reqs : at[r] = "rheld"}

\* Mutant: the outcome is written whatever the client already got.
ReachedAnyway(r, outcome) == outcome

\* A client that is still there gets the outcome; one that left gets nothing.
Reached(r, outcome) == IF client[r] = "open" THEN outcome ELSE client[r]

Suspend(r, where) == at' = [at EXCEPT ![r] = where]

\* The handler is over; one exchange is emitted for it, or none when it is silent.
End(r, emitted, outcome) ==
  /\ at' = [at EXCEPT ![r] = "end"]
  /\ rows' = [rows EXCEPT ![r] = @ \o emitted]
  /\ client' = [client EXCEPT ![r] = Reached(r, outcome)]

----------------------------------------------------------------------------
(* Releasing what is held *)

\* Mutant: a dropped request is recorded and then sent (a missing return).
ResolveNoReturn(drop, fwd, dropR, fwdR) ==
  \E spilled \in SUBSET (drop \cup fwd \cup fwdR) :
    LET opened == (drop \cup fwd) \ spilled
        done   == fwdR \ spilled
    IN /\ at' = [r \in Reqs |->
            IF r \in dropR \cup done THEN "end"
            ELSE IF r \in opened THEN "await"
            ELSE IF r \in drop \cup fwd THEN "rebuild"
            ELSE IF r \in fwdR THEN "rrebuild"
            ELSE at[r]]
       /\ origin' = [r \in Reqs |-> IF r \in opened THEN "sent" ELSE origin[r]]
       /\ ears' = [r \in Reqs |-> IF r \in opened THEN "full" ELSE ears[r]]
       /\ client' = [r \in Reqs |->
            IF r \in drop \cup dropR THEN Reached(r, "cut")
            ELSE IF r \in done THEN Reached(r, "answered")
            ELSE client[r]]
       /\ rows' = [r \in Reqs |->
            IF r \in drop THEN Append(rows[r], "dropped")
            ELSE IF r \in dropR THEN Append(rows[r], "reply-dropped")
            ELSE IF r \in done THEN Append(rows[r], "answer")
            ELSE rows[r]]

\* drop and fwd are held requests, dropR and fwdR held replies: what becomes of
\* each when its promise is resolved.  A message let through has its body rebuilt,
\* which takes a while when it spills; then the upstream request is opened and
\* written, with the answer listened for in the same turn, or the reply delivered.
Resolve(drop, fwd, dropR, fwdR) ==
  \E spilled \in SUBSET (fwd \cup fwdR) :
    LET opened == fwd \ spilled
        done   == fwdR \ spilled
    IN /\ at' = [r \in Reqs |->
            IF r \in drop \cup dropR \cup done THEN "end"
            ELSE IF r \in opened THEN "await"
            ELSE IF r \in fwd THEN "rebuild"
            ELSE IF r \in fwdR THEN "rrebuild"
            ELSE at[r]]
       /\ origin' = [r \in Reqs |-> IF r \in opened THEN "sent" ELSE origin[r]]
       /\ ears' = [r \in Reqs |-> IF r \in opened THEN "full" ELSE ears[r]]
       /\ client' = [r \in Reqs |->
            IF r \in drop \cup dropR THEN Reached(r, "cut")
            ELSE IF r \in done THEN Reached(r, "answered")
            ELSE client[r]]
       /\ rows' = [r \in Reqs |->
            IF r \in drop THEN Append(rows[r], "dropped")
            ELSE IF r \in dropR THEN Append(rows[r], "reply-dropped")
            ELSE IF r \in done THEN Append(rows[r], "answer")
            ELSE rows[r]]

\* resolveRequest and resolveResponse: the operator's decision on one message.
Decide(r) ==
  /\ \/ at[r] = "held" /\ (Resolve({r}, {}, {}, {}) \/ Resolve({}, {r}, {}, {}))
     \/ at[r] = "rheld" /\ (Resolve({}, {}, {r}, {}) \/ Resolve({}, {}, {}, {r}))
  /\ UNCHANGED <<intercept, up, crashed>>

\* setState: what is held in a direction that is switched off goes on its way.
SetState(s) ==
  /\ s # intercept
  /\ intercept' = s
  /\ Resolve({}, IF s.requests THEN {} ELSE HeldRequests,
             {}, IF s.responses THEN {} ELSE HeldResponses)
  /\ UNCHANGED <<up, crashed>>

\* releaseAll('drop'), as the session's emergency stop calls it.
EmergencyStop ==
  /\ Resolve(HeldRequests, {}, HeldResponses, {})
  /\ UNCHANGED <<intercept, up, crashed>>

\* stop(): drop everything held, then destroy every client socket.  The other
\* handlers are not told; those that read from the client find it gone.
Stop ==
  /\ up
  /\ up' = FALSE
  /\ LET held == HeldRequests \cup HeldResponses
     IN /\ at' = [r \in Reqs |-> IF r \in held THEN "end" ELSE at[r]]
        /\ client' = [r \in Reqs |->
             IF client[r] # "open" THEN client[r] ELSE IF r \in held THEN "cut" ELSE "gone"]
        /\ rows' = [r \in Reqs |->
             IF r \in HeldRequests THEN Append(rows[r], "dropped")
             ELSE IF r \in HeldResponses THEN Append(rows[r], "reply-dropped")
             ELSE rows[r]]
  /\ UNCHANGED <<intercept, origin, ears, crashed>>

\* The session starts another proxy on the same interceptor.
Start ==
  /\ ~up
  /\ up' = TRUE
  /\ UNCHANGED <<intercept, at, client, origin, ears, rows, crashed>>

----------------------------------------------------------------------------
(* The request side: onRequest *)

\* The interception switch is read once, before the body is: held requests are
\* buffered first, others are streamed to an upstream request opened at once.
Arrive(r) ==
  /\ at[r] = "new"
  /\ up
  /\ client' = [client EXCEPT ![r] = "open"]
  /\ IF intercept.requests
     THEN Suspend(r, "drain") /\ UNCHANGED origin
     ELSE Suspend(r, "tee") /\ origin' = [origin EXCEPT ![r] = "open"]
  /\ UNCHANGED <<intercept, up, ears, rows, crashed>>

ClientLeaves(r) ==
  /\ client[r] = "open"
  /\ client' = [client EXCEPT ![r] = "gone"]
  /\ UNCHANGED <<intercept, up, at, origin, ears, rows, crashed>>

\* The catch of onRequest: 502 to the client, an error exchange in the history.
\* The upstream request, when there is one, is left as it is.
Caught(r) == End(r, <<"error">>, "refused")

\* The client goes away while its body is read.
BodyBreaks(r) ==
  /\ at[r] \in {"drain", "tee"}
  /\ client[r] = "gone"
  /\ Caught(r)
  /\ UNCHANGED <<intercept, up, origin, ears, crashed>>

\* The body is complete: held when the interceptor, which looks at its switch
\* again, holds; else sent on.
Offer(r) ==
  \/ /\ intercept.requests
     /\ Suspend(r, "held")
     /\ UNCHANGED <<client, origin, ears, rows>>
  \/ /\ ~intercept.requests
     /\ Resolve({}, {r}, {}, {})

BodyRead(r) ==
  /\ at[r] = "drain"
  /\ client[r] = "open"
  /\ \/ Suspend(r, "fold") /\ UNCHANGED <<client, origin, ears, rows>>
     \/ Offer(r)
  /\ UNCHANGED <<intercept, up, crashed>>

\* The client's body is through: the upstream request is ended and its flush
\* awaited, with a listener that rejects on its error.
BodyTeed(r) ==
  /\ at[r] = "tee"
  /\ client[r] = "open"
  /\ Suspend(r, "flush")
  /\ ears' = [ears EXCEPT ![r] = "stale"]
  /\ UNCHANGED <<intercept, up, client, origin, rows, crashed>>

\* handleUpstreamResponse listens for the reply, the error and the timeout.
Listen(r) ==
  /\ Suspend(r, "await")
  /\ ears' = [ears EXCEPT ![r] = "full"]

Flushed(r) ==
  /\ at[r] = "flush"
  /\ origin' = [origin EXCEPT ![r] = IF @ = "open" THEN "sent" ELSE @]
  /\ \/ Suspend(r, "commit") /\ UNCHANGED ears
     \/ Listen(r)
  /\ UNCHANGED <<intercept, up, client, rows, crashed>>

\* A body that spilled is in the blob store: the request side goes on, unless the
\* body is too large to be edited.
RequestStored(r) ==
  /\ \/ /\ at[r] = "fold"
        /\ Offer(r)
     \/ /\ at[r] = "fold"
        /\ End(r, <<"too-large">>, "refused")
        /\ UNCHANGED <<origin, ears>>
     \/ /\ at[r] = "rebuild"
        /\ Listen(r)
        /\ origin' = [origin EXCEPT ![r] = "sent"]
        /\ UNCHANGED <<client, rows>>
     \/ /\ at[r] = "commit"
        /\ Listen(r)
        /\ UNCHANGED <<client, origin, rows>>
  /\ UNCHANGED <<intercept, up, crashed>>

----------------------------------------------------------------------------
(* The reply side: handleUpstreamResponse and pumpResponse *)

\* A reply that arrives before anything listens for it is discarded.
OriginReplies(r) ==
  /\ origin[r] \in {"open", "sent"}
  /\ IF ears[r] = "full"
     THEN /\ origin' = [origin EXCEPT ![r] = "replied"]
          /\ Suspend(r, IF intercept.responses THEN "rdrain" ELSE "rtee")
     ELSE /\ origin' = [origin EXCEPT ![r] = "lost"]
          /\ UNCHANGED at
  /\ UNCHANGED <<intercept, up, client, ears, rows, crashed>>

\* Mutant: the error listener answers and records, and does not resolve.
OriginErrorsUnresolved(r) ==
  /\ origin[r] \in {"open", "sent", "replied"}
  /\ origin' = [origin EXCEPT ![r] = IF ears[r] = "full" \/ at[r] = "flush" THEN "failed" ELSE "lost"]
  /\ crashed' = (crashed \/ ears[r] = "none")
  /\ IF ears[r] = "full"
     THEN /\ rows' = [rows EXCEPT ![r] = Append(@, "error")]
          /\ client' = [client EXCEPT ![r] = Reached(r, "refused")]
          /\ UNCHANGED at
     ELSE IF at[r] = "flush" THEN Caught(r) ELSE UNCHANGED <<at, client, rows>>
  /\ UNCHANGED <<intercept, up, ears>>

\* An error event with no listener is thrown; one that reaches the listener of a
\* flush already over is swallowed; the others end the handler.
OriginErrors(r) ==
  /\ origin[r] \in {"open", "sent", "replied"}
  /\ origin' = [origin EXCEPT ![r] = IF ears[r] = "full" \/ at[r] = "flush" THEN "failed" ELSE "lost"]
  /\ crashed' = (crashed \/ ears[r] = "none")
  /\ \/ /\ ears[r] = "full"
        /\ End(r, <<"error">>, IF origin[r] = "replied" THEN "cut" ELSE "refused")
     \/ /\ ears[r] = "stale" /\ at[r] = "flush"
        /\ Caught(r)
     \/ /\ ears[r] # "full" /\ at[r] # "flush"
        /\ UNCHANGED <<at, client, rows>>
  /\ UNCHANGED <<intercept, up, ears>>

\* Mutant: an error text is appended to a reply that has begun.
PumpCaughtPoisoning(r) ==
  End(r, << >>, IF at[r] \in {"rtee", "rcommit"} THEN "answered" ELSE "refused")

\* The catch of the pump: nothing is emitted, and the client is cut when it has
\* already been given a head.
PumpCaught(r) ==
  End(r, << >>, IF at[r] \in {"rtee", "rcommit"} THEN "cut" ELSE "refused")

\* The reply ends early with no error event, or the client it is streamed to left.
PumpBreaks(r) ==
  /\ at[r] \in {"rdrain", "rtee"}
  /\ \/ origin[r] = "replied"
     \/ at[r] = "rtee" /\ client[r] = "gone"
  /\ origin' = [origin EXCEPT ![r] = "failed"]
  /\ PumpCaught(r)
  /\ UNCHANGED <<intercept, up, ears, crashed>>

\* A reply read in full is held, or rebuilt and delivered.
OfferReply(r) ==
  \/ /\ intercept.responses
     /\ Suspend(r, "rheld")
     /\ UNCHANGED <<client, rows>>
  \/ /\ ~intercept.responses
     /\ \/ Suspend(r, "rrebuild") /\ UNCHANGED <<client, rows>>
        \/ End(r, <<"answer">>, "answered")

ReplyRead(r) ==
  /\ at[r] = "rdrain"
  /\ origin[r] = "replied"
  /\ origin' = [origin EXCEPT ![r] = "ended"]
  /\ \/ Suspend(r, "rfold") /\ UNCHANGED <<client, rows>>
     \/ OfferReply(r)
  /\ UNCHANGED <<intercept, up, ears, crashed>>

\* The last byte is streamed to the client before the body is committed.
ReplyTeed(r) ==
  /\ at[r] = "rtee"
  /\ origin[r] = "replied"
  /\ client[r] = "open"
  /\ origin' = [origin EXCEPT ![r] = "ended"]
  /\ \/ /\ Suspend(r, "rcommit")
        /\ client' = [client EXCEPT ![r] = "answered"]
        /\ UNCHANGED rows
     \/ End(r, <<"answer">>, "answered")
  /\ UNCHANGED <<intercept, up, ears, crashed>>

ReplyStored(r) ==
  /\ \/ at[r] = "rfold" /\ (OfferReply(r) \/ End(r, <<"too-large">>, "cut"))
     \/ at[r] \in {"rrebuild", "rcommit"} /\ End(r, <<"answer">>, "answered")
  /\ UNCHANGED <<intercept, up, origin, ears, crashed>>

\* The blob store cannot be written: each side has a catch of its own.
StorageFails(r) ==
  /\ at[r] \in Storing
  /\ IF at[r] \in {"fold", "rebuild", "commit"} THEN Caught(r) ELSE PumpCaught(r)
  /\ UNCHANGED <<intercept, up, origin, ears, crashed>>

----------------------------------------------------------------------------
Operator ==
  \/ \E r \in Reqs : Decide(r)
  \/ \E s \in [requests : BOOLEAN, responses : BOOLEAN] : SetState(s)
  \/ EmergencyStop
  \/ Stop
  \/ Start

\* What the handler does as soon as its client, its origin and the disk let it.
Handler(r) ==
  \/ BodyBreaks(r)
  \/ BodyRead(r)
  \/ BodyTeed(r)
  \/ Flushed(r)
  \/ RequestStored(r)
  \/ ReplyRead(r)
  \/ ReplyTeed(r)
  \/ ReplyStored(r)

Origin(r) == OriginReplies(r) \/ OriginErrors(r)

Next ==
  \/ Operator
  \/ \E r \in Reqs :
       Arrive(r) \/ ClientLeaves(r) \/ Handler(r) \/ Origin(r) \/ PumpBreaks(r) \/ StorageFails(r)

\* Clients finish their bodies or leave, disks answer, and an origin replies or
\* is timed out (a reply that stalls too: the idle timeout stays armed).  The
\* operator owes nothing: what is held may stay held.
Fairness == \A r \in Reqs : WF_vars(Handler(r)) /\ WF_vars(Origin(r))

Spec == Init /\ [][Next]_vars

FairSpec == Spec /\ Fairness

----------------------------------------------------------------------------
\* Every variable has the type of what it stands for.
TypeOK ==
  /\ intercept \in [requests : BOOLEAN, responses : BOOLEAN]
  /\ up \in BOOLEAN
  /\ at \in [Reqs -> Positions]
  /\ client \in [Reqs -> Clients]
  /\ origin \in [Reqs -> Origins]
  /\ ears \in [Reqs -> Ears]
  /\ rows \in [Reqs -> Seq(Outcomes)]
  /\ crashed \in BOOLEAN

\* The history gets at most one exchange per request, although the catch of
\* onRequest, the error listener and the pump may all emit one.
OneRowEach == \A r \in Reqs : Len(rows[r]) <= 1

Recorded(r, outcome) == \E n \in DOMAIN rows[r] : rows[r][n] = outcome

\* A request recorded as dropped, by a decision, an emergency stop or the stop of
\* the proxy, never reached its origin, and never will.
DroppedNeverSent == \A r \in Reqs : Recorded(r, "dropped") => origin[r] = "none"

\* A client sees a complete reply only when the origin's reply was complete: an
\* upstream failure in the middle is never passed off as success.
CompleteMeansComplete == \A r \in Reqs : client[r] = "answered" => origin[r] = "ended"

\* Nothing waits in the queue of a direction that is switched off, although the
\* switch may turn between the reading of a body and the hold.
OffHoldsNothing ==
  /\ ~intercept.requests => HeldRequests = {}
  /\ ~intercept.responses => HeldResponses = {}

\* What a client was given is final: no late error is written after an answer,
\* no answer after the proxy cut the client off.
ClientOutcomeIsFinal ==
  [][\A r \in Reqs :
       client[r] \in {"answered", "refused", "cut"} => client'[r] = client[r]]_vars

\* A handler that has ended stays ended, whatever its origin still does.
EndIsFinal ==
  [][\A r \in Reqs : at[r] = "end" => at'[r] = "end" /\ rows'[r] = rows[r]]_vars

\* Stopping the proxy stops it from sending: no upstream request goes out after.
NoSendAfterStop ==
  [][\A r \in Reqs : origin[r] = "none" /\ origin'[r] # "none" => up]_vars

\* No 'error' event of an upstream request goes without a listener.
EveryErrorHandled == ~crashed

\* A handler ends, or waits for the operator, unless its origin's reply was lost.
HandlersEnd ==
  \A r \in Reqs :
    at[r] # "new" ~> (at[r] \in {"end", "held", "rheld"} \/ origin[r] = "lost")

\* The history has one exchange per request at most, and what looks complete to the
\* client was complete at its origin.
RowsAreTrue == TypeOK /\ OneRowEach /\ CompleteMeansComplete

\* The operator's hold: what is dropped is never sent, what is released is not held.
HoldsAreHonoured == DroppedNeverSent /\ OffHoldsNothing

\* The end a client and a handler were given is not taken back by a late event.
EndsAreFinal == ClientOutcomeIsFinal /\ EndIsFinal

=============================================================================

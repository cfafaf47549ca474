------------------------------ MODULE Repeater ------------------------------
(* Manual sends (src/engine/repeater/): the redirect chain of each send with *)
(* its credentials and cookies, the token bucket they share, the cookie jar  *)
(* of the session, and the emergency stop.  A parsed request is its           *)
(* destination and the credentials in its headers; whether a redirect turns  *)
(* it into a GET without a body is left out.                                 *)
EXTENDS Integers, FiniteSets

CONSTANTS
    Sends,         \* the calls of send
    Hosts,
    Home,          \* the host the operator typed the requests for
    JarSends,      \* the sends with useCookieJar
    MaxRedirects,  \* MaxRedirects[s]: the option of a send
    Burst,         \* the capacity of the bucket
    MaxStops       \* bound: emergency stops

ASSUME RepeaterAssumption ==
    /\ Home \in Hosts /\ JarSends \subseteq Sends
    /\ MaxRedirects \in [Sends -> Nat] /\ Burst \in Nat \ {0} /\ MaxStops \in Nat

VARIABLES
    at,      \* at[s]: where the send is
    req,     \* req[s]: the request of its next hop, from the parsed one on
    onWire,  \* onWire[s]: what its last hop put on the wire, and the stops before that
    hops,    \* hops[s]: redirects followed
    signal,  \* signal[s]: the stops before it began; it is aborted when there are more
    stops,
    tokens,
    owed,    \* the tokens there were so far, less the hops sent
    jar      \* the cookies: [host, secure]

repeaterVars == <<at, req, onWire, hops, signal, stops, tokens, owed, jar>>

Cookies  == [host : Hosts, secure : BOOLEAN]
Typed    == [host |-> Home, secure |-> TRUE]
Requests == [host : Hosts, https : BOOLEAN, auth : BOOLEAN,
             cookies : SUBSET Cookies]
Fresh    == [host |-> Home, https |-> TRUE, auth |-> TRUE, cookies |-> {Typed}]

InFlight == {"wire", "body"}
Places   == {"idle", "take", "granted", "answered", "cut", "settled"} \cup InFlight

RepeaterTypeOK ==
    /\ at \in [Sends -> Places]
    /\ req \in [Sends -> Requests]
    /\ onWire \in [Sends -> [hop : Requests, stops : 0..MaxStops]]
    /\ hops \in [Sends -> Nat]
    /\ signal \in [Sends -> 0..MaxStops] /\ stops \in 0..MaxStops
    /\ tokens \in 0..Burst /\ owed \in Int
    /\ jar \subseteq Cookies

RepeaterInit ==
    /\ at = [s \in Sends |-> "idle"]
    /\ req = [s \in Sends |-> Fresh]
    /\ onWire = [s \in Sends |-> [hop |-> Fresh, stops |-> 0]]
    /\ hops = [s \in Sends |-> 0]
    /\ signal = [s \in Sends |-> 0] /\ stops = 0
    /\ tokens = Burst /\ owed = Burst
    /\ jar = {}

Aborted(s) == signal[s] < stops
Go(s, place) == at' = [at EXCEPT ![s] = place]

----------------------------------------------------------------------------
(* The cookie jar: one name, kept per host.                                  *)

\* cookieHeader.
CookiesFor(cookies, host, https) == {c \in cookies : c.host = host /\ (https \/ ~c.secure)}

\* The Set-Cookie lines of one reply: nothing, a deletion, a value.
SetCookies == {"none", "delete", "plain", "secure"}

\* ingest.
Ingested(s, setCookie) ==
    LET others == {c \in jar : c.host # onWire[s].hop.host}
    IN CASE s \notin JarSends \/ setCookie = "none" -> jar
         [] s \in JarSends /\ setCookie = "delete" -> others
         [] OTHER -> others \cup {[host |-> onWire[s].hop.host, secure |-> setCookie = "secure"]}

ClearCookies ==
    /\ jar # {}
    /\ jar' = {}
    /\ UNCHANGED <<at, req, onWire, hops, signal, stops, tokens, owed>>

----------------------------------------------------------------------------
(* A send.                                                                   *)

\* The headers of a hop: with the jar, its cookies for this host and scheme
\* replace whatever Cookie header there was.
WithJar(s, r, cookies) ==
    IF s \in JarSends THEN [r EXCEPT !.cookies = CookiesFor(cookies, r.host, r.https)] ELSE r

\* The raw request parses, and the signal of this moment is kept for all hops.
Send(s) ==
    /\ at[s] = "idle"
    /\ Go(s, "take")
    /\ req' = [req EXCEPT ![s] = WithJar(s, Fresh, jar)]
    /\ signal' = [signal EXCEPT ![s] = stops]
    /\ UNCHANGED <<onWire, hops, stops, tokens, owed, jar>>

\* A malformed request line or header: the promise rejects at once.  How a
\* promise settled is left out.
Malformed(s) ==
    /\ at[s] = "idle"
    /\ Go(s, "settled")
    /\ UNCHANGED <<req, onWire, hops, signal, stops, tokens, owed, jar>>

\* TokenBucket.take: one turn of its loop finds a token ...
Take(s) ==
    /\ at[s] = "take" /\ ~Aborted(s) /\ tokens > 0
    /\ tokens' = tokens - 1
    /\ Go(s, "granted")
    /\ UNCHANGED <<req, onWire, hops, signal, stops, owed, jar>>

\* ... or its delay is cut short by the signal.
TakeAborted(s) ==
    /\ at[s] = "take" /\ Aborted(s)
    /\ Go(s, "settled")
    /\ UNCHANGED <<req, onWire, hops, signal, stops, tokens, owed, jar>>

\* Time passes: less than a full bucket gets a token.
Refill ==
    /\ tokens < Burst
    /\ tokens' = tokens + 1
    /\ owed' = owed + 1
    /\ UNCHANGED <<at, req, onWire, hops, signal, stops, jar>>

\* A mutant: an aborted signal makes it return without rejecting.
SendOnceSilent(s) ==
    /\ at[s] = "granted" /\ ~Aborted(s)
    /\ Go(s, "wire")
    /\ onWire' = [onWire EXCEPT ![s] = [hop |-> req[s], stops |-> stops]]
    /\ owed' = owed - 1
    /\ UNCHANGED <<req, hops, signal, stops, tokens, jar>>

\* sendOnce opens the request, unless a stop came between the token and it.
SendOnce(s) ==
    /\ at[s] = "granted"
    /\ IF Aborted(s)
       THEN Go(s, "settled") /\ UNCHANGED <<onWire, owed>>
       ELSE /\ Go(s, "wire")
            /\ onWire' = [onWire EXCEPT ![s] = [hop |-> req[s], stops |-> stops]]
            /\ owed' = owed - 1
    /\ UNCHANGED <<req, hops, signal, stops, tokens, jar>>

\* The head of the reply.
ReadHead(s) ==
    /\ at[s] = "wire"
    /\ Go(s, "body")
    /\ UNCHANGED <<req, onWire, hops, signal, stops, tokens, owed, jar>>

\* The origin breaks the connection, or is silent for timeoutMs: the request's
\* error listener rejects.
Broken(s) ==
    /\ at[s] \in InFlight
    /\ Go(s, "settled")
    /\ UNCHANGED <<req, onWire, hops, signal, stops, tokens, owed, jar>>

\* The origin ends the connection inside the body.  The reply is aborted,
\* which sendOnce does not listen for, and the request has no error: neither
\* the timeout nor the signal ends the promise any more.
BodyCut(s) ==
    /\ at[s] = "body"
    /\ Go(s, "cut")
    /\ UNCHANGED <<req, onWire, hops, signal, stops, tokens, owed, jar>>

\* A mutant: only the Cookie header is dropped.
LeaveHostKeepingAuth(r, host) ==
    IF host = r.host THEN r ELSE [r EXCEPT !.host = host, !.cookies = {}]

\* Drops the credentials when the host changes.
LeaveHost(r, host) ==
    IF host = r.host THEN r ELSE [r EXCEPT !.host = host, !.cookies = {}, !.auth = FALSE]

\* A redirect, while there are redirects left.  The jar is asked again at the
\* top of the loop, after it took in the reply.
Follow(s, host, https, setCookie) ==
    /\ at[s] = "body" /\ hops[s] < MaxRedirects[s]
    /\ jar' = Ingested(s, setCookie)
    /\ LET next == [LeaveHost(req[s], host) EXCEPT !.https = https]
       IN req' = [req EXCEPT ![s] = WithJar(s, next, jar')]
    /\ hops' = [hops EXCEPT ![s] = @ + 1]
    /\ Go(s, "take")
    /\ UNCHANGED <<onWire, signal, stops, tokens, owed>>

\* The last reply; its body and the request's go to the store before the
\* promise resolves and the session ingests the exchange.
Answer(s, setCookie) ==
    /\ at[s] = "body"
    /\ jar' = Ingested(s, setCookie)
    /\ Go(s, "answered")
    /\ UNCHANGED <<req, onWire, hops, signal, stops, tokens, owed>>

Resolve(s) ==
    /\ at[s] = "answered"
    /\ Go(s, "settled")
    /\ UNCHANGED <<req, onWire, hops, signal, stops, tokens, owed, jar>>
\* emergencyStopAll aborts the controller and makes a new one.  A hop on the
\* wire is destroyed, which is one of the ways it breaks.
EmergencyStop ==
    /\ stops < MaxStops
    /\ stops' = stops + 1
    /\ UNCHANGED <<at, req, onWire, hops, signal, tokens, owed, jar>>

Hop(s) ==
    \/ Take(s) \/ TakeAborted(s) \/ SendOnce(s) \/ ReadHead(s) \/ Broken(s) \/ Resolve(s)
    \/ \E setCookie \in SetCookies :
          \/ Answer(s, setCookie)
          \/ \E host \in Hosts, https \in BOOLEAN :
                Follow(s, host, https, setCookie)

RepeaterNext ==
    \/ \E s \in Sends : Send(s) \/ Malformed(s) \/ Hop(s) \/ BodyCut(s)
    \/ Refill \/ ClearCookies \/ EmergencyStop

RepeaterSpec == RepeaterInit /\ [][RepeaterNext]_repeaterVars

\* Every await of a send comes back, the reply by its own idle timeout, and
\* time passes.
Fairness == WF_repeaterVars(Refill) /\ \A s \in Sends : WF_repeaterVars(Hop(s))

RepeaterFairSpec == RepeaterSpec /\ Fairness

----------------------------------------------------------------------------
(* Properties.                                                               *)

\* Along any chain of redirects, beside other sends that fill the same jar, a
\* host only gets the cookies that are its own, a Secure one from the jar only
\* over TLS, and the Authorization header only if it is the host the operator
\* typed it for.
CredentialsStayHome ==
    \A s \in Sends : at[s] \in InFlight =>
        LET hop == onWire[s].hop
        IN /\ \A c \in hop.cookies : c.host = hop.host
           /\ s \in JarSends => \A c \in hop.cookies : c.secure => hop.https
           /\ hop.auth => hop.host = Home

\* The sends of one repeater together put no more hops on the wire than the
\* bucket had tokens, redirects included, and a send puts none there after a
\* stop that came while it was running.
HopsArePaced ==
    /\ owed >= tokens
    /\ \A s \in Sends : at[s] \in InFlight => onWire[s].stops = signal[s] /\ hops[s] <= MaxRedirects[s]

\* Credentials and cookies go to no other host along a chain of redirects, and
\* each hop is paced and can be stopped (repeater.ts, cookieJar.ts).
RepeaterCorrect == CredentialsStayHome /\ HopsArePaced

\* A send comes to an end, however long the chain and whoever competes for the
\* tokens, unless its origin cut a reply short.
SendsSettle == \A s \in Sends : at[s] = "take" ~> at[s] \in {"settled", "cut"}
=============================================================================

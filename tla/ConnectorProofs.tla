--------------------------- MODULE ConnectorProofs ---------------------------
(***************************************************************************)
(* Proofs about what exchanges messages with something that may fail to    *)
(* answer: the lines of McpServer, for any number of them, the sends of    *)
(* Repeater, for any number of sends, hosts and stops, and the calls of    *)
(* ExtensionHost, for any number of loads and other calls.                 *)
(***************************************************************************)
EXTENDS McpServer, ExtensionHost, Repeater, FiniteSetTheorems, SequenceTheorems, TLAPS

Bodies == {"result", "isError", "parse-error", "invalid-request", "method-not-found"}

Responses == [line : Nat, id : Nat, body : Bodies]

\* The responses are of lines that are settled, in order, each under the id of its line.
AnsweredSoFar ==
  /\ out \in Seq(Responses)
  /\ \A i \in DOMAIN out : /\ out[i].line \in 1..done
                           /\ out[i].id = IF sent[out[i].line].hasId THEN out[i].line ELSE 0
  /\ AnsweredInOrder
  /\ \A n \in 1..done : ExpectsAnswer(sent[n]) => \E i \in DOMAIN out : out[i].line = n

\* A tool call under way is of the next line; a chain is rejected by a line that is
\* null; the process leaves with everything answered or with a rejected chain.
Standing ==
  /\ calling = TRUE => chain = "ok" /\ done < split /\ sent[done + 1].method = "call-known"
  /\ chain = "rejected" => \E n \in 1..done : sent[n].shape = "null"
  /\ proc = "exited" => stdin = "ended" /\ (chain = "rejected" \/ done = split)

McpBounds ==
  /\ sent \in Seq(Lines) /\ Len(sent) <= MaxLines
  /\ split \in 0..Len(sent) /\ done \in 0..split
  /\ calling \in BOOLEAN /\ chain \in {"ok", "rejected"}
  /\ stdin \in {"open", "ended"} /\ proc \in {"up", "exited", "crashed"}

McpInv == McpBounds /\ AnsweredSoFar /\ Standing

\* The initial state satisfies the invariant.
LEMMA McpStarts == McpInit => McpInv
<1> SUFFICES ASSUME McpInit PROVE McpInv
  OBVIOUS
<1>1. McpBounds
  <2>1. << >> \in Seq(Lines) /\ Len(<< >>) = 0 /\ 0 \in 0..0 /\ 0 <= MaxLines
    BY MaxLinesAssumption
  <2> QED BY <2>1 DEF McpInit, McpBounds
<1>2. AnsweredSoFar
  BY DEF McpInit, AnsweredSoFar, AnsweredInOrder
<1>3. Standing
  BY DEF McpInit, Standing
<1> QED BY <1>1, <1>2, <1>3 DEF McpInv

\* What handle answers: one body at most, and one to every line that expects it.
LEMMA OneAnswer ==
  ASSUME NEW line \in Lines, line.shape \in {"scalar", "object"}, line.method # "call-known"
  PROVE  /\ Answers(line) = << >> \/ \E body \in Bodies : Answers(line) = << body >>
         /\ ExpectsAnswer(line) => Answers(line) # << >>
<1>1. line.method \in Methods /\ line.hasId \in BOOLEAN
  BY DEF Lines, Methods
<1> QED BY <1>1 DEF Answers, ExpectsAnswer, Bodies, Methods

\* Settling the next line with one body at most keeps what was answered.
LEMMA SettleStep ==
  ASSUME McpInv, NEW bodies, bodies = << >> \/ \E body \in Bodies : bodies = << body >>,
         ExpectsAnswer(sent[done + 1]) => bodies # << >>,
         done < split, Settle(done + 1, bodies), sent' = sent, split' = split
  PROVE  AnsweredSoFar' /\ done' \in 0..split' /\ done' = done + 1
<1>0. /\ out \in Seq(Responses) /\ done \in Nat /\ split \in Nat /\ sent \in Seq(Lines) /\ done + 1 \in 1..Len(sent)
      /\ \A i \in DOMAIN out : out[i].line \in 1..done
  BY DEF McpInv, McpBounds, AnsweredSoFar
<1>1. CASE bodies = << >>
  <2>1. out' = out /\ done' = done + 1
    <3>1. [i \in DOMAIN bodies |-> Response(done + 1, bodies[i])] = << >>
      BY <1>1
    <3> QED BY <1>0, <3>1 DEF Settle
  <2>2. ~ExpectsAnswer(sent[done + 1])
    BY <1>1
  <2> QED BY <1>0, <2>1, <2>2 DEF McpInv, AnsweredSoFar, AnsweredInOrder, ExpectsAnswer
<1>2. ASSUME NEW body \in Bodies, bodies = << body >>
      PROVE  AnsweredSoFar' /\ done' \in 0..split' /\ done' = done + 1
  <2> DEFINE r == Response(done + 1, body)
  <2>1. /\ r \in Responses /\ r.line = done + 1
        /\ r.id = IF sent[done + 1].hasId THEN done + 1 ELSE 0
    BY <1>0 DEF Responses, Response
  <2>2. [i \in DOMAIN bodies |-> Response(done + 1, bodies[i])] = << r >>
    BY <1>2
  <2> HIDE DEF r
  <2>3. out' = Append(out, r) /\ done' = done + 1
    BY <1>0, <2>1, <2>2 DEF Settle
  <2>4. /\ out' \in Seq(Responses) /\ DOMAIN out' = 1..(Len(out) + 1) /\ DOMAIN out = 1..Len(out)
        /\ Len(out) \in Nat /\ out'[Len(out) + 1] = r /\ \A i \in DOMAIN out : out'[i] = out[i]
    BY <1>0, <2>1, <2>3
  <2>5. \A i \in DOMAIN out' : /\ out'[i].line \in 1..done'
                               /\ out'[i].id = IF sent[out'[i].line].hasId THEN out'[i].line ELSE 0
    BY <1>0, <2>1, <2>3, <2>4 DEF McpInv, AnsweredSoFar
  <2>6. AnsweredInOrder'
    BY <1>0, <2>1, <2>4 DEF McpInv, AnsweredSoFar, AnsweredInOrder
  <2>7. \A n \in 1..done' : ExpectsAnswer(sent[n]) => \E i \in DOMAIN out' : out'[i].line = n
    <3> TAKE n \in 1..done'
    <3>1. CASE n = done + 1
      BY <1>0, <2>1, <2>4, <3>1
    <3>2. CASE n \in 1..done
      BY <2>4, <3>2 DEF McpInv, AnsweredSoFar
    <3> QED BY <1>0, <2>3, <3>1, <3>2
  <2> QED BY <1>0, <2>3, <2>4, <2>5, <2>6, <2>7, SMTT(30) DEF AnsweredSoFar, ExpectsAnswer
<1> QED BY <1>1, <1>2

LEMMA McpStep == McpInv /\ [McpNext]_mcpVars => McpInv'
<1> SUFFICES ASSUME McpInv, [McpNext]_mcpVars PROVE McpInv'
  OBVIOUS
<1>0. /\ McpBounds /\ AnsweredSoFar /\ Standing
      /\ done \in Nat /\ split \in Nat /\ Len(sent) \in Nat /\ done <= split /\ split <= Len(sent)
  BY DEF McpInv, McpBounds
<1>1. CASE UNCHANGED mcpVars
  BY <1>0, <1>1 DEF mcpVars, McpInv, McpBounds, AnsweredSoFar, AnsweredInOrder, Standing, ExpectsAnswer
<1>2. ASSUME NEW line \in Lines, ClientWrites(line) PROVE McpInv'
  <2>1. /\ sent' = Append(sent, line) /\ sent' \in Seq(Lines) /\ Len(sent') = Len(sent) + 1
        /\ \A n \in 1..Len(sent) : sent'[n] = sent[n]
    BY <1>0, <1>2 DEF ClientWrites, McpBounds
  <2>2. McpBounds'
    BY <1>0, <1>2, <2>1, MaxLinesAssumption DEF ClientWrites, McpBounds
  <2>3. \A n \in 1..split : sent'[n] = sent[n]
    BY <1>0, <2>1 DEF McpBounds
  <2>4. AnsweredSoFar'
    BY <1>0, <1>2, <2>3 DEF ClientWrites, McpBounds, AnsweredSoFar, AnsweredInOrder, ExpectsAnswer
  <2>5. calling = TRUE => sent'[done + 1] = sent[done + 1]
    BY <1>0, <2>3 DEF Standing
  <2>6. chain = "rejected" => \E n \in 1..done : sent'[n].shape = "null"
    BY <1>0, <2>3 DEF Standing
  <2>7. Standing'
    BY <1>0, <1>2, <2>5, <2>6 DEF ClientWrites, Standing
  <2> QED BY <2>2, <2>4, <2>7 DEF McpInv
<1>3. CASE Data
  <2>1. PICK n \in (split + 1)..Len(sent) : split' = n
    BY <1>3 DEF Data
  <2>2. McpBounds'
    BY <1>0, <1>3, <2>1 DEF Data, McpBounds
  <2>3. AnsweredSoFar'
    BY <1>0, <1>3 DEF Data, AnsweredSoFar, AnsweredInOrder, ExpectsAnswer
  <2>4. Standing'
    BY <1>0, <1>3, <2>1 DEF Data, Standing
  <2> QED BY <2>2, <2>3, <2>4 DEF McpInv
<1>4. CASE End
  BY <1>0, <1>4 DEF End, McpInv, McpBounds, AnsweredSoFar, AnsweredInOrder, Standing, ExpectsAnswer
<1>5. ASSUME CanDispatch
      PROVE  sent[done + 1] \in Lines /\ done < split /\ proc = "up" /\ calling = FALSE
  <2>1. calling = FALSE
    BY <1>0, <1>5 DEF CanDispatch, McpBounds
  <2> QED BY <1>0, <1>5, <2>1 DEF CanDispatch, McpBounds
<1>6. ASSUME NEW bodies, bodies = << >> \/ \E body \in Bodies : bodies = << body >>,
             ExpectsAnswer(sent[done + 1]) => bodies # << >>,
             done < split, Settle(done + 1, bodies), calling' = FALSE, proc = "up",
             UNCHANGED <<sent, split, chain, stdin, proc>>
      PROVE  McpInv'
  <2>1. AnsweredSoFar' /\ done' \in 0..split' /\ done' = done + 1
    BY <1>6, SettleStep
  <2>2. McpBounds'
    BY <1>0, <1>6, <2>1 DEF McpBounds
  <2>3. Standing'
    BY <1>0, <1>6, <2>1 DEF Standing
  <2> QED BY <2>1, <2>2, <2>3 DEF McpInv
<1>7. CASE DispatchGarbage
  <2>1. "parse-error" \in Bodies /\ << "parse-error" >> # << >>
    BY DEF Bodies
  <2>2. CanDispatch /\ Settle(done + 1, << "parse-error" >>) /\ UNCHANGED <<sent, split, calling, chain, stdin, proc>>
    BY <1>7 DEF DispatchGarbage
  <2> QED BY <1>5, <1>6, <2>1, <2>2
<1>8. CASE DispatchNull
  <2>1. ~ExpectsAnswer(sent[done + 1])
    BY <1>5, <1>8 DEF DispatchNull, ExpectsAnswer
  <2>2. McpBounds'
    BY <1>0, <1>5, <1>8 DEF DispatchNull, McpBounds, CanDispatch
  <2>3. AnsweredSoFar'
    BY <1>0, <1>5, <1>8, <2>1 DEF DispatchNull, CanDispatch, AnsweredSoFar, AnsweredInOrder, ExpectsAnswer
  <2>4. Standing'
    <3>1. done + 1 \in 1..done' /\ sent'[done + 1].shape = "null" /\ proc' = "up" /\ ~calling'
      BY <1>0, <1>8 DEF DispatchNull, CanDispatch
    <3> QED BY <3>1 DEF Standing
  <2> QED BY <2>2, <2>3, <2>4 DEF McpInv
<1>9. CASE DispatchMessage
  <2>1. /\ CanDispatch /\ Settle(done + 1, Answers(sent[done + 1]))
        /\ UNCHANGED <<sent, split, calling, chain, stdin, proc>>
        /\ sent[done + 1].shape \in {"scalar", "object"} /\ sent[done + 1].method # "call-known"
    BY <1>9 DEF DispatchMessage
  <2>2. /\ Answers(sent[done + 1]) = << >> \/ \E body \in Bodies : Answers(sent[done + 1]) = << body >>
        /\ ExpectsAnswer(sent[done + 1]) => Answers(sent[done + 1]) # << >>
    BY <1>5, <2>1, OneAnswer
  <2> QED BY <1>5, <1>6, <2>1, <2>2
<1>10. CASE BeginCall
  BY <1>0, <1>10 DEF BeginCall, CanDispatch, McpInv, McpBounds, AnsweredSoFar, AnsweredInOrder, Standing, ExpectsAnswer
<1>11. CASE FinishCall
  <2>1. calling = TRUE
    BY <1>0, <1>11 DEF FinishCall, McpBounds
  <2>2. PICK body \in {"result", "isError"} : Settle(done + 1, << body >>)
    BY <1>11 DEF FinishCall
  <2>3. body \in Bodies /\ << body >> # << >>
    BY DEF Bodies
  <2> QED BY <1>0, <1>6, <1>11, <2>1, <2>2, <2>3 DEF FinishCall, Standing
<1>12. CASE UnhandledRejection
  BY <1>0, <1>12 DEF UnhandledRejection, McpInv, McpBounds, AnsweredSoFar, AnsweredInOrder, Standing, ExpectsAnswer
<1>13. CASE ServeResolves
  BY <1>0, <1>13 DEF ServeResolves, McpInv, McpBounds, AnsweredSoFar, AnsweredInOrder, Standing, ExpectsAnswer
<1> QED BY <1>1, <1>2, <1>3, <1>4, <1>7, <1>8, <1>9, <1>10, <1>11, <1>12, <1>13 DEF McpNext, Dispatch

\* The inductive invariant of the MCP server, for any number of lines.
THEOREM McpInductive == McpSpec => []McpInv
BY McpStarts, McpStep, PTL DEF McpSpec

\* Every line that expects an answer gets one, under its id and in order of arrival,
\* and the server does not leave before (createProtocolHandler, protocol.ts), for any
\* number of lines and any way the chunks cut them.
THEOREM AnswersAlwaysMatch == McpSpec => []AnswersMatchRequests
<1>1. McpInv => AnswersMatchRequests
  <2> SUFFICES ASSUME McpInv PROVE AnswersMatchRequests
    OBVIOUS
  <2>1. McpTypeOK
    <3>1. \A i \in DOMAIN out : out[i].line \in 1..split /\ out[i].body \in Bodies
      <4> TAKE i \in DOMAIN out
      <4>1. out[i] \in Responses /\ out[i].line \in 1..done
        BY DEF McpInv, AnsweredSoFar
      <4> QED BY <4>1 DEF McpInv, McpBounds, Responses
    <3> QED BY <3>1 DEF McpInv, McpBounds, McpTypeOK, Bodies
  <2>2. EveryRequestAnsweredOnce
    <3> SUFFICES ASSUME NEW n \in 1..done, ExpectsAnswer(sent[n])
                 PROVE  \E i \in DOMAIN out :
                          /\ out[i].line = n /\ out[i].id = IF sent[n].hasId THEN n ELSE 0
                          /\ \A j \in DOMAIN out \ {i} : out[j].line # n
      BY DEF EveryRequestAnsweredOnce
    <3>1. PICK i \in DOMAIN out : out[i].line = n
      BY DEF McpInv, AnsweredSoFar
    <3>2. \A j \in DOMAIN out \ {i} : out[j].line # n
      <4> TAKE j \in DOMAIN out \ {i}
      <4>1. i \in Nat /\ j \in Nat /\ (i < j \/ j < i) /\ n \in Nat
        BY DEF McpInv, McpBounds, AnsweredSoFar
      <4>2. out[i].line \in Nat /\ out[j].line \in Nat
        BY DEF McpInv, McpBounds, AnsweredSoFar
      <4>3. out[i].line < out[j].line \/ out[j].line < out[i].line
        BY <4>1 DEF McpInv, AnsweredSoFar, AnsweredInOrder
      <4>4. out[i].line # out[j].line
        BY <4>2, <4>3
      <4> QED BY <3>1, <4>4
    <3> QED BY <3>1, <3>2 DEF McpInv, AnsweredSoFar
  <2>3. DrainedBeforeExit
    BY DEF McpInv, McpBounds, Standing, DrainedBeforeExit
  <2> QED BY <2>1, <2>2, <2>3 DEF McpInv, AnsweredSoFar, AnswersMatchRequests
<1> QED BY <1>1, McpInductive, PTL

----------------------------------------------------------------------------
(* Sends of the repeater                                                   *)

\* The sends that have a token and have not used it yet.
Granted == {s \in Sends : at[s] = "granted"}

\* A request of send s carries what its host may see.
StaysHome(s, r) ==
  /\ \A c \in r.cookies : c.host = r.host
  /\ s \in JarSends => \A c \in r.cookies : c.secure => r.https = TRUE
  /\ r.auth = TRUE => r.host = Home

\* The bucket covers the hops sent and those that still may be.
Paced == IsFiniteSet(Granted) /\ owed >= tokens + Cardinality(Granted)

\* A send's own state.
SendInv(s) ==
  /\ signal[s] <= stops
  /\ hops[s] <= MaxRedirects[s]
  /\ StaysHome(s, req[s])
  /\ at[s] \in InFlight => StaysHome(s, onWire[s].hop) /\ onWire[s].stops = signal[s]

\* The inductive invariant.
RepeaterInv == RepeaterTypeOK /\ Paced /\ \A s \in Sends : SendInv(s)

LEMMA FreshStaysHome == Fresh \in Requests /\ \A s \in Sends : StaysHome(s, Fresh)
BY RepeaterAssumption DEF Fresh, Requests, Cookies, Typed, StaysHome

LEMMA RepeaterStarts == RepeaterInit => RepeaterInv
<1> SUFFICES ASSUME RepeaterInit PROVE RepeaterInv
  OBVIOUS
<1>1. RepeaterTypeOK
  BY RepeaterAssumption, FreshStaysHome DEF RepeaterInit, RepeaterTypeOK, Places
<1>2. Granted = {}
  BY DEF RepeaterInit, Granted
<1>3. Paced
  BY <1>2, FS_EmptySet, RepeaterAssumption DEF Paced, RepeaterInit
<1>4. ASSUME NEW s \in Sends PROVE SendInv(s)
  BY FreshStaysHome, RepeaterAssumption DEF RepeaterInit, SendInv, InFlight
<1> QED BY <1>1, <1>3, <1>4 DEF RepeaterInv

\* The jar's cookies for a hop are its host's, and go over cleartext only if they may.
LEMMA JarStaysHome ==
  ASSUME NEW s \in Sends, NEW r \in Requests, NEW cookies \in SUBSET Cookies,
         s \in JarSends \/ StaysHome(s, r), r.auth = TRUE => r.host = Home
  PROVE  WithJar(s, r, cookies) \in Requests /\ StaysHome(s, WithJar(s, r, cookies))
<1>1. CASE s \notin JarSends
  BY <1>1 DEF WithJar
<1>2. CASE s \in JarSends
  <2> DEFINE kept == CookiesFor(cookies, r.host, r.https)
  <2>1. WithJar(s, r, cookies) = [r EXCEPT !.cookies = kept]
    BY <1>2 DEF WithJar
  <2>2. /\ kept \in SUBSET Cookies /\ \A c \in kept : c.host = r.host /\ (c.secure => r.https = TRUE)
    BY DEF CookiesFor, Requests, Cookies
  <2> HIDE DEF kept
  <2>3. /\ [r EXCEPT !.cookies = kept] \in Requests
        /\ [r EXCEPT !.cookies = kept].cookies = kept
        /\ [r EXCEPT !.cookies = kept].host = r.host
        /\ [r EXCEPT !.cookies = kept].https = r.https
        /\ [r EXCEPT !.cookies = kept].auth = r.auth
    BY <2>2 DEF Requests
  <2> QED BY <2>1, <2>2, <2>3 DEF StaysHome
<1> QED BY <1>1, <1>2

\* A redirect takes nothing to another host that was typed for this one.
LEMMA RedirectStaysHome ==
  ASSUME NEW s \in Sends, NEW r \in Requests, StaysHome(s, r), NEW host \in Hosts, NEW https \in BOOLEAN
  PROVE  LET next == [LeaveHost(r, host) EXCEPT !.https = https]
         IN /\ next \in Requests
            /\ \A c \in next.cookies : c.host = next.host
            /\ next.auth = TRUE => next.host = Home
<1>1. CASE host = r.host
  BY <1>1 DEF LeaveHost, StaysHome, Requests
<1>2. CASE host # r.host
  BY <1>2 DEF LeaveHost, StaysHome, Requests
<1> QED BY <1>1, <1>2

\* What a reply does to the jar leaves a jar.
LEMMA IngestedIsJar ==
  ASSUME RepeaterTypeOK, NEW s \in Sends, NEW setCookie \in SetCookies
  PROVE  Ingested(s, setCookie) \in SUBSET Cookies
<1>1. onWire[s].hop.host \in Hosts /\ jar \subseteq Cookies
  BY DEF RepeaterTypeOK, Requests
<1>2. [host |-> onWire[s].hop.host, secure |-> setCookie = "secure"] \in Cookies
  BY <1>1 DEF Cookies
<1>3. {c \in jar : c.host # onWire[s].hop.host} \in SUBSET Cookies
  BY <1>1
<1> QED BY <1>1, <1>2, <1>3 DEF Ingested

\* How the sends with a token change when s goes somewhere.
LEMMA GrantedGoes ==
  ASSUME RepeaterInv, NEW s \in Sends, NEW place \in Places, Go(s, place)
  PROVE  /\ IsFiniteSet(Granted)' /\ Cardinality(Granted) \in Nat /\ Cardinality(Granted)' \in Nat
         /\ at[s] # "granted" /\ place # "granted" => Granted' = Granted
         /\ at[s] # "granted" /\ place = "granted" => Cardinality(Granted)' = Cardinality(Granted) + 1
         /\ at[s] = "granted" /\ place # "granted" => Cardinality(Granted)' = Cardinality(Granted) - 1
         /\ at' \in [Sends -> Places] /\ at'[s] = place /\ \A t \in Sends \ {s} : at'[t] = at[t]
<1>1. IsFiniteSet(Granted) /\ at \in [Sends -> Places]
  BY DEF RepeaterInv, Paced, RepeaterTypeOK
<1>2. at' \in [Sends -> Places] /\ at'[s] = place /\ \A t \in Sends \ {s} : at'[t] = at[t]
  BY <1>1 DEF Go
<1>3. Granted' = IF place = "granted" THEN Granted \cup {s} ELSE Granted \ {s}
  BY <1>2 DEF Granted
<1>4. s \in Granted <=> at[s] = "granted"
  BY DEF Granted
<1>5. /\ IsFiniteSet(Granted \cup {s}) /\ IsFiniteSet(Granted \ {s})
      /\ Cardinality(Granted \cup {s}) = IF s \in Granted THEN Cardinality(Granted) ELSE Cardinality(Granted) + 1
      /\ Cardinality(Granted \ {s}) = IF s \in Granted THEN Cardinality(Granted) - 1 ELSE Cardinality(Granted)
  BY <1>1, FS_AddElement, FS_RemoveElement
<1>6. Cardinality(Granted) \in Nat /\ Cardinality(Granted \cup {s}) \in Nat /\ Cardinality(Granted \ {s}) \in Nat
  BY <1>1, <1>5, FS_CardinalityType
<1>7. place # "granted" /\ at[s] # "granted" => Granted' = Granted
  BY <1>3, <1>4
<1>8. Cardinality(Granted)' = Cardinality(Granted') /\ (IsFiniteSet(Granted)' <=> IsFiniteSet(Granted'))
  OBVIOUS
<1> QED BY <1>2, <1>3, <1>4, <1>5, <1>6, <1>7, <1>8

\* A step of s after which its own state is as it should be.
Steps(s) ==
  /\ RepeaterTypeOK' /\ Paced' /\ SendInv(s)'
  /\ stops' = stops
  /\ \A t \in Sends \ {s} : /\ signal'[t] = signal[t] /\ hops'[t] = hops[t] /\ req'[t] = req[t]
                            /\ onWire'[t] = onWire[t] /\ at'[t] = at[t]

LEMMA OneSteps == ASSUME RepeaterInv, NEW s \in Sends, Steps(s) PROVE RepeaterInv'
<1>1. ASSUME NEW t \in Sends, t # s PROVE SendInv(t)'
  BY <1>1 DEF Steps, SendInv, RepeaterInv
<1> QED BY <1>1 DEF Steps, RepeaterInv

\* Steps that neither take nor use a token and leave the requests alone.
LEMMA MovesOn ==
  ASSUME RepeaterInv, NEW s \in Sends, NEW place \in Places \ {"granted"}, Go(s, place), at[s] # "granted",
         place \in InFlight => at[s] \in InFlight,
         UNCHANGED <<req, onWire, hops, signal, stops, tokens, owed>>, jar' \in SUBSET Cookies
  PROVE  RepeaterInv'
<1>1. Granted' = Granted /\ at' \in [Sends -> Places] /\ at'[s] = place /\ \A t \in Sends \ {s} : at'[t] = at[t]
  BY GrantedGoes
<1>2. RepeaterTypeOK'
  BY <1>1 DEF RepeaterInv, RepeaterTypeOK
<1>3. Paced'
  BY <1>1 DEF RepeaterInv, Paced
<1>4. SendInv(s)'
  BY <1>1 DEF RepeaterInv, SendInv, StaysHome
<1> QED BY <1>1, <1>2, <1>3, <1>4, OneSteps DEF Steps

\* A hop sent on a token, or a token come in, changes both sides alike.
LEMMA StillCovers ==
  ASSUME NEW a \in Int, NEW b \in Int, NEW c \in Int, NEW d \in Int, NEW n \in Int, c - d = a - b, a >= b + n
  PROVE  c >= d + n
OBVIOUS

LEMMA RepeaterStep == RepeaterInv /\ [RepeaterNext]_repeaterVars => RepeaterInv'
<1> SUFFICES ASSUME RepeaterInv, [RepeaterNext]_repeaterVars PROVE RepeaterInv'
  OBVIOUS
<1>0. RepeaterTypeOK /\ Paced /\ tokens \in Nat /\ owed \in Int /\ Burst \in Nat /\ Cardinality(Granted) \in Nat
  BY RepeaterAssumption, FS_CardinalityType DEF RepeaterInv, RepeaterTypeOK, Paced
<1>1. CASE UNCHANGED repeaterVars
  BY <1>1 DEF repeaterVars, RepeaterInv, RepeaterTypeOK, Paced, Granted, SendInv, StaysHome
<1>2. ASSUME at' = at, UNCHANGED <<req, onWire, hops, signal>>, RepeaterTypeOK',
             owed' - tokens' = owed - tokens, stops <= stops', stops \in Nat, stops' \in Nat
      PROVE  RepeaterInv'
  <2>1. Granted' = Granted
    BY <1>2 DEF Granted
  <2>2. Paced'
    <3>1. tokens' \in Nat /\ owed' \in Int
      BY <1>2, RepeaterAssumption DEF RepeaterTypeOK
    <3>2. owed >= tokens + Cardinality(Granted) /\ IsFiniteSet(Granted)
      BY <1>0 DEF Paced
    <3>3. owed' >= tokens' + Cardinality(Granted)
      <4>1. owed' - tokens' = owed - tokens
        BY <1>2
      <4>2. tokens \in Int /\ owed \in Int /\ tokens' \in Int /\ owed' \in Int /\ Cardinality(Granted) \in Int
        BY <1>0, <3>1
      <4>3. owed >= tokens + Cardinality(Granted)
        BY <3>2
      <4> QED BY <4>1, <4>2, <4>3, StillCovers
    <3> QED BY <2>1, <3>2, <3>3 DEF Paced
  <2>3. ASSUME NEW s \in Sends PROVE SendInv(s)'
    <3>1. signal[s] \in Nat
      BY <1>0, RepeaterAssumption DEF RepeaterTypeOK
    <3> QED BY <1>2, <3>1 DEF RepeaterInv, SendInv, StaysHome
  <2> QED BY <1>2, <2>2, <2>3 DEF RepeaterInv
<1>3. CASE Refill
  <2>1. RepeaterTypeOK' /\ owed' - tokens' = owed - tokens /\ stops \in Nat
    BY <1>0, <1>3, RepeaterAssumption DEF Refill, RepeaterTypeOK
  <2> QED BY <1>2, <1>3, <2>1 DEF Refill
<1>4. CASE ClearCookies
  <2>1. RepeaterTypeOK' /\ stops \in Nat
    BY <1>0, <1>4, RepeaterAssumption DEF ClearCookies, RepeaterTypeOK
  <2> QED BY <1>2, <1>4, <2>1 DEF ClearCookies
<1>5. CASE EmergencyStop
  <2>1. RepeaterTypeOK' /\ stops \in Nat /\ stops' = stops + 1
    BY <1>0, <1>5, RepeaterAssumption DEF EmergencyStop, RepeaterTypeOK
  <2> QED BY <1>2, <1>5, <2>1 DEF EmergencyStop
<1>6. ASSUME NEW s \in Sends, Send(s) PROVE RepeaterInv'
  <2> DEFINE r == WithJar(s, Fresh, jar)
  <2>1. r \in Requests /\ StaysHome(s, r)
    BY <1>0, FreshStaysHome, JarStaysHome DEF RepeaterTypeOK, StaysHome
  <2> HIDE DEF r
  <2>2. Granted' = Granted /\ at' \in [Sends -> Places] /\ at'[s] = "take" /\ \A t \in Sends \ {s} : at'[t] = at[t]
    BY <1>6, GrantedGoes DEF Send, Places
  <2>3. req' = [req EXCEPT ![s] = r]
    BY <1>6 DEF Send, r
  <2>4. RepeaterTypeOK'
    BY <1>0, <1>6, <2>1, <2>2, <2>3 DEF Send, RepeaterTypeOK
  <2>5. Paced'
    BY <1>0, <1>6, <2>2 DEF Send, Paced
  <2>6. SendInv(s)'
    BY <1>0, <1>6, <2>1, <2>2, <2>3, RepeaterAssumption DEF Send, RepeaterInv, RepeaterTypeOK, SendInv, InFlight, StaysHome
  <2> QED BY <1>0, <1>6, <2>2, <2>3, <2>4, <2>5, <2>6, OneSteps DEF Send, Steps, RepeaterTypeOK
<1>7. ASSUME NEW s \in Sends, Malformed(s) \/ TakeAborted(s) \/ ReadHead(s) \/ Broken(s) \/ Resolve(s) \/ BodyCut(s)
      PROVE  RepeaterInv'
  <2>1. PICK place \in {"settled", "body", "cut"} :
          Go(s, place) /\ at[s] # "granted" /\ (place = "body" => at[s] = "wire")
    BY <1>7 DEF Malformed, TakeAborted, ReadHead, Broken, Resolve, BodyCut, InFlight
  <2>2. UNCHANGED <<req, onWire, hops, signal, stops, tokens, owed, jar>>
    BY <1>7 DEF Malformed, TakeAborted, ReadHead, Broken, Resolve, BodyCut
  <2> QED BY <1>0, <2>1, <2>2, MovesOn DEF Places, InFlight, RepeaterTypeOK
<1>8. ASSUME NEW s \in Sends, Take(s) PROVE RepeaterInv'
  <2>1. /\ IsFiniteSet(Granted)' /\ Cardinality(Granted)' = Cardinality(Granted) + 1
        /\ at' \in [Sends -> Places] /\ at'[s] = "granted" /\ \A t \in Sends \ {s} : at'[t] = at[t]
    BY <1>8, GrantedGoes DEF Take, Places
  <2>2. RepeaterTypeOK'
    BY <1>0, <1>8, <2>1 DEF Take, RepeaterTypeOK
  <2>3. Paced'
    BY <1>0, <1>8, <2>1 DEF Take, Paced
  <2>4. SendInv(s)'
    BY <1>8, <2>1 DEF Take, RepeaterInv, SendInv, InFlight, StaysHome
  <2> QED BY <1>8, <2>1, <2>2, <2>3, <2>4, OneSteps DEF Take, Steps
<1>9. ASSUME NEW s \in Sends, SendOnce(s) PROVE RepeaterInv'
  <2>1. PICK place \in {"settled", "wire"} : Go(s, place) /\ (Aborted(s) <=> place = "settled")
    BY <1>9 DEF SendOnce
  <2>2. /\ IsFiniteSet(Granted)' /\ Cardinality(Granted)' = Cardinality(Granted) - 1
        /\ at' \in [Sends -> Places] /\ at'[s] = place /\ \A t \in Sends \ {s} : at'[t] = at[t]
    <3>1. place \in Places /\ place # "granted" /\ at[s] = "granted"
      BY <1>9 DEF SendOnce, Places, InFlight
    <3> QED BY <2>1, <3>1, GrantedGoes
  <2>3. /\ owed' \in {owed, owed - 1}
        /\ onWire' = IF Aborted(s) THEN onWire
                     ELSE [onWire EXCEPT ![s] = [hop |-> req[s], stops |-> stops]]
        /\ UNCHANGED <<req, hops, signal, stops, tokens, jar>>
    BY <1>9 DEF SendOnce
  <2>4. RepeaterTypeOK'
    BY <1>0, <2>2, <2>3 DEF RepeaterTypeOK
  <2>5. Paced'
    BY <1>0, <2>2, <2>3 DEF Paced
  <2>6. SendInv(s)'
    <3>1. signal[s] \in Nat /\ stops \in Nat /\ onWire \in [Sends -> [hop : Requests, stops : 0..MaxStops]]
      BY <1>0, RepeaterAssumption DEF RepeaterTypeOK
    <3>2. CASE place = "settled"
      BY <2>2, <2>3, <3>2 DEF RepeaterInv, SendInv, InFlight, StaysHome
    <3>3. CASE place = "wire"
      <4>1. signal[s] = stops
        BY <2>1, <3>1, <3>3 DEF RepeaterInv, SendInv, Aborted
      <4>2. onWire'[s] = [hop |-> req[s], stops |-> stops]
        BY <2>1, <2>3, <3>1, <3>3
      <4> QED BY <2>2, <2>3, <4>1, <4>2 DEF RepeaterInv, SendInv, StaysHome
    <3> QED BY <3>2, <3>3
  <2> QED BY <1>0, <2>2, <2>3, <2>4, <2>5, <2>6, OneSteps DEF Steps, RepeaterTypeOK
<1>10. ASSUME NEW s \in Sends, NEW setCookie \in SetCookies, Answer(s, setCookie) PROVE RepeaterInv'
  BY <1>0, <1>10, MovesOn, IngestedIsJar DEF Answer, Places, InFlight
<1>11. ASSUME NEW s \in Sends, NEW setCookie \in SetCookies, NEW host \in Hosts, NEW https \in BOOLEAN,
              Follow(s, host, https, setCookie)
       PROVE  RepeaterInv'
  <2> DEFINE next == [LeaveHost(req[s], host) EXCEPT !.https = https]
             r    == WithJar(s, next, jar')
  <2>1. jar' \in SUBSET Cookies
    BY <1>0, <1>11, IngestedIsJar DEF Follow
  <2>2. next \in Requests /\ (\A c \in next.cookies : c.host = next.host) /\ (next.auth = TRUE => next.host = Home)
    <3>1. req[s] \in Requests /\ StaysHome(s, req[s])
      BY <1>0 DEF RepeaterInv, RepeaterTypeOK, SendInv
    <3> QED BY <3>1, RedirectStaysHome
  <2>3. req' = [req EXCEPT ![s] = r]
    BY <1>11 DEF Follow
  <2> HIDE DEF next
  <2>4. r \in Requests /\ StaysHome(s, r)
    <3>1. s \notin JarSends => StaysHome(s, next)
      BY <2>2 DEF StaysHome
    <3> QED BY <2>1, <2>2, <3>1, JarStaysHome
  <2> HIDE DEF r
  <2>5. Granted' = Granted /\ at' \in [Sends -> Places] /\ at'[s] = "take" /\ \A t \in Sends \ {s} : at'[t] = at[t]
    BY <1>11, GrantedGoes DEF Follow, Places
  <2>6. hops' = [hops EXCEPT ![s] = hops[s] + 1] /\ hops[s] < MaxRedirects[s] /\ hops \in [Sends -> Nat]
        /\ MaxRedirects[s] \in Nat
    BY <1>0, <1>11, RepeaterAssumption DEF Follow, RepeaterTypeOK
  <2>7. RepeaterTypeOK'
    BY <1>0, <1>11, <2>1, <2>3, <2>4, <2>5, <2>6 DEF Follow, RepeaterTypeOK
  <2>8. Paced'
    BY <1>0, <1>11, <2>5 DEF Follow, Paced
  <2>9. SendInv(s)'
    <3>1. /\ req'[s] = r /\ hops'[s] = hops[s] + 1 /\ hops'[s] <= MaxRedirects[s]
          /\ signal'[s] = signal[s] /\ stops' = stops /\ signal[s] <= stops /\ at'[s] = "take"
      BY <1>0, <1>11, <2>3, <2>5, <2>6 DEF Follow, RepeaterInv, RepeaterTypeOK, SendInv
    <3> QED BY <2>4, <3>1 DEF SendInv, InFlight, StaysHome
  <2> QED BY <1>0, <1>11, <2>3, <2>5, <2>6, <2>7, <2>8, <2>9, OneSteps DEF Follow, Steps, RepeaterTypeOK
<1> QED BY <1>1, <1>3, <1>4, <1>5, <1>6, <1>7, <1>8, <1>9, <1>10, <1>11 DEF RepeaterNext, Hop

\* The inductive invariant of the repeater.
THEOREM RepeaterInductive == RepeaterSpec => []RepeaterInv
BY RepeaterStarts, RepeaterStep, PTL DEF RepeaterSpec

\* Along every chain of redirects credentials and cookies stay with their hosts, the
\* bucket paces every hop and a stop holds (Repeater.send, CookieJar, TokenBucket), for
\* any number of sends, hosts, redirects, tokens and stops.
THEOREM RepeaterStaysCorrect == RepeaterSpec => []RepeaterCorrect
<1>1. RepeaterInv => RepeaterCorrect
  <2> SUFFICES ASSUME RepeaterInv PROVE RepeaterCorrect
    OBVIOUS
  <2>1. CredentialsStayHome
    BY DEF RepeaterInv, RepeaterTypeOK, Requests, SendInv, StaysHome, CredentialsStayHome
  <2>2. owed >= tokens
    BY FS_CardinalityType, RepeaterAssumption DEF RepeaterInv, RepeaterTypeOK, Paced
  <2> QED BY <2>1, <2>2 DEF RepeaterInv, SendInv, HopsArePaced, RepeaterCorrect
<1> QED BY <1>1, RepeaterInductive, PTL

----------------------------------------------------------------------------
(* The extension host: each request is of one call, and the counts of what is    *)
(* listed, confirmed and registered are those of the loads.                       *)
HostRequests == [type : {"call"}, call : Calls, reqId : Nat]
HostReplies  == [type : {"reply"}, reqId : Nat, ok : BOOLEAN, registrations : Seq(Ids)]

\* A load that is answered, or whose answer is on its way; a request of a call that
\* the child has yet to handle; a call that hears no from the child.
Confirmed(l) ==
  \/ st[l] = "returned"
  \/ reqOf[l] # 0 /\ \E j \in DOMAIN toHost : toHost[j].type = "reply" /\ toHost[j].reqId = reqOf[l] /\ toHost[j].ok = TRUE

Asking(c) == \E i \in DOMAIN toChild : toChild[i].type = "call" /\ toChild[i].call = c

Refused(c) == \E j \in DOMAIN toHost : toHost[j].type = "reply" /\ toHost[j].reqId = reqOf[c] /\ toHost[j].ok = FALSE

\* The child has been asked for the load and may have registered it.
Handled(l) ==
  \/ st[l] = "returned"
  \/ st[l] = "timed-out" /\ ~Asking(l)
  \/ st[l] = "pending" /\ ~Asking(l) /\ ~Refused(l)

ReturnedOf(id)  == {l \in Loads : IdOf[l] = id /\ st[l] = "returned"}
ConfirmedOf(id) == {l \in Loads : IdOf[l] = id /\ Confirmed(l)}
HandledOf(id)   == {l \in Loads : IdOf[l] = id /\ Handled(l)}

\* What is in the two directions of the channel.
Channels ==
  /\ toChild \in Seq(HostRequests \cup {[type |-> "shutdown"]})
  /\ toHost \in Seq(HostReplies \cup {[type |-> "ready"]})
  /\ child = "gone" => toChild = <<>>
  /\ \A j \in DOMAIN toHost : toHost[j].type = "reply" => toHost[j].reqId \in 1..seq

\* A request on its way to the child is of one call, which still waits or timed out.
InTransit(i) ==
  /\ toChild[i].reqId \in 1..seq
  /\ st[toChild[i].call] \in {"pending", "timed-out"}
  /\ reqOf[toChild[i].call] \in {0, toChild[i].reqId}
  /\ \A c \in Calls : reqOf[c] = toChild[i].reqId => c = toChild[i].call
  /\ \A j \in DOMAIN toChild :
        toChild[j].type = "call" /\ (toChild[j].call = toChild[i].call \/ toChild[j].reqId = toChild[i].reqId) => j = i
  /\ \A j \in DOMAIN toHost : toHost[j].type = "reply" => toHost[j].reqId # toChild[i].reqId

Transits == \A i \in DOMAIN toChild : toChild[i].type = "call" => InTransit(i)

\* As long as the exit was not handled, the host lists what was answered with yes, the
\* child has what it confirmed, and had a load of its own for each registration.
Listed(id) ==
  IsFiniteSet(ReturnedOf(id)) /\ Count(extensions, id) = Cardinality(ReturnedOf(id))

Backed(id) ==
  /\ IsFiniteSet(ConfirmedOf(id)) /\ Cardinality(ConfirmedOf(id)) <= Count(registered, id)
  /\ child # "gone" => IsFiniteSet(HandledOf(id)) /\ Count(registered, id) <= Cardinality(HandledOf(id))

\* What the exit handler leaves.
Exited ==
  dead = TRUE => /\ child = "gone" /\ \A c \in Calls : reqOf[c] = 0
                 /\ terminating = FALSE => extensions = <<>> /\ checksMeta = <<>>

HostInv ==
  /\ HostTypeOK /\ Channels /\ OneCallPerRequest /\ Transits /\ Exited
  /\ dead = FALSE => \A id \in Ids : Listed(id) /\ Backed(id)

----------------------------------------------------------------------------
\* Sequences, element by element.
LEMMA TailIs ==
  ASSUME NEW S, NEW s \in Seq(S), s # <<>>
  PROVE  /\ Tail(s) \in Seq(S) /\ Head(s) = s[1] /\ 1 \in DOMAIN s
         /\ \A i \in DOMAIN Tail(s) : i \in Nat /\ i + 1 \in DOMAIN s /\ Tail(s)[i] = s[i + 1]
         /\ \A i \in DOMAIN s \ {1} : i \in Nat /\ i - 1 \in DOMAIN Tail(s) /\ Tail(s)[i - 1] = s[i]
OBVIOUS

LEMMA AppendIs ==
  ASSUME NEW S, NEW s \in Seq(S), NEW x \in S
  PROVE  /\ Append(s, x) \in Seq(S) /\ Len(s) \in Nat
         /\ DOMAIN Append(s, x) = DOMAIN s \cup {Len(s) + 1} /\ Len(s) + 1 \notin DOMAIN s
         /\ \A i \in DOMAIN s : i \in Nat /\ Append(s, x)[i] = s[i]
         /\ Append(s, x)[Len(s) + 1] = x
OBVIOUS

LEMMA CountIs ==
  ASSUME NEW s \in Seq(Ids), NEW id \in Ids
  PROVE  /\ Count(s, id) \in Nat /\ Count(<<>>, id) = 0
         /\ \A x \in Ids : Count(Append(s, x), id) = IF x = id THEN Count(s, id) + 1 ELSE Count(s, id)
<1> DEFINE At(z) == {i \in DOMAIN z : z[i] = id}
<1>1. IsFiniteSet(1..Len(s)) /\ Len(s) \in Nat /\ DOMAIN s = 1..Len(s)
  BY FS_Interval
<1>2. IsFiniteSet(At(s))
  BY <1>1, FS_Subset
<1>3. Cardinality(At(s)) \in Nat
  BY <1>2, FS_CardinalityType
<1>4. At(<<>>) = {} /\ Cardinality({}) = 0
  BY FS_EmptySet
<1>5. ASSUME NEW x \in Ids
      PROVE  Count(Append(s, x), id) = IF x = id THEN Count(s, id) + 1 ELSE Count(s, id)
  <2>1. At(Append(s, x)) = IF x = id THEN At(s) \cup {Len(s) + 1} ELSE At(s)
    BY <1>1
  <2>2. Len(s) + 1 \notin At(s)
    BY <1>1
  <2>3. Cardinality(At(s) \cup {Len(s) + 1}) = Cardinality(At(s)) + 1
    BY <1>2, <2>2, FS_AddElement
  <2> QED BY <2>1, <2>3 DEF Count
<1> QED BY <1>3, <1>4, <1>5 DEF Count

----------------------------------------------------------------------------
\* Steps that answer no load with yes.
LEMMA ListedStays ==
  ASSUME NEW id \in Ids, Listed(id), extensions' = extensions,
         \A l \in Loads : st'[l] = "returned" <=> st[l] = "returned"
  PROVE  Listed(id)'
<1>1. ReturnedOf(id)' = ReturnedOf(id)
  BY DEF ReturnedOf
<1> QED BY <1>1 DEF Listed, Count

\* Steps that register nothing; the load c may come to be handled, and an answer may be lost.
LEMMA BackedStays ==
  ASSUME NEW id \in Ids, Backed(id), NEW c, registered \in Seq(Ids), registered' = registered,
         \A l \in Loads : Confirmed(l)' => Confirmed(l),
         child' # "gone" => /\ child # "gone"
                            /\ \A l \in Loads : (Handled(l) => Handled(l)') /\ (Handled(l)' => Handled(l) \/ l = c)
  PROVE  Backed(id)'
<1>1. Count(registered, id)' = Count(registered, id) /\ Count(registered, id) \in Nat
  BY CountIs DEF Count
<1>3. ConfirmedOf(id)' \subseteq ConfirmedOf(id)
  BY DEF ConfirmedOf
<1>4. /\ IsFiniteSet(ConfirmedOf(id)') /\ Cardinality(ConfirmedOf(id)') <= Cardinality(ConfirmedOf(id))
      /\ Cardinality(ConfirmedOf(id)') \in Nat /\ Cardinality(ConfirmedOf(id)) \in Nat
  BY <1>3, FS_Subset, FS_CardinalityType DEF Backed
<1>5. ASSUME child' # "gone"
      PROVE  IsFiniteSet(HandledOf(id)') /\ Count(registered, id) <= Cardinality(HandledOf(id)')
  <2>1. HandledOf(id) \subseteq HandledOf(id)' /\ HandledOf(id)' \subseteq HandledOf(id) \cup {c}
    BY <1>5 DEF HandledOf
  <2>2. IsFiniteSet(HandledOf(id)) /\ Count(registered, id) <= Cardinality(HandledOf(id))
    BY <1>5 DEF Backed
  <2>3. IsFiniteSet(HandledOf(id) \cup {c})
    BY <2>2, FS_AddElement
  <2>4. IsFiniteSet(HandledOf(id)')
    BY <2>1, <2>3, FS_Subset
  <2>5. /\ Cardinality(HandledOf(id)) <= Cardinality(HandledOf(id)')
        /\ Cardinality(HandledOf(id)) \in Nat /\ Cardinality(HandledOf(id)') \in Nat
    BY <2>1, <2>2, <2>4, FS_Subset, FS_CardinalityType
  <2> QED BY <1>1, <2>2, <2>4, <2>5
<1> QED BY <1>1, <1>4, <1>5 DEF Backed

\* The messages in the channel are what they are.
LEMMA Messages ==
  ASSUME Channels
  PROVE  /\ \A i \in DOMAIN toChild : toChild[i].type = "call" => toChild[i].call \in Calls /\ toChild[i].reqId \in Nat
         /\ \A i \in DOMAIN toChild : toChild[i].type # "call" => toChild[i] = [type |-> "shutdown"]
         /\ \A j \in DOMAIN toHost : toHost[j].type # "reply" => toHost[j] = [type |-> "ready"]
         /\ \A j \in DOMAIN toHost : toHost[j].type = "reply" =>
               /\ toHost[j].reqId \in Nat /\ toHost[j].ok \in BOOLEAN /\ toHost[j].registrations \in Seq(Ids)
<1>1. /\ \A i \in DOMAIN toChild : toChild[i] \in HostRequests \cup {[type |-> "shutdown"]}
      /\ \A j \in DOMAIN toHost : toHost[j] \in HostReplies \cup {[type |-> "ready"]}
  BY DEF Channels
<1> QED BY <1>1 DEF HostRequests, HostReplies

\* A call that asks the child nothing: it waits for the child to be ready, or it is over.
LEMMA Aside ==
  ASSUME HostInv, NEW c \in Calls, st[c] \in {"idle", "awaits-ready"},
         NEW where \in {"awaits-ready", "rejected", "duplicate", "returned"}, where = "returned" => c \notin Loads,
         st' = [st EXCEPT ![c] = where], seq' \in {seq, seq + 1},
         UNCHANGED <<ready, connected, dead, spawned, terminating, reqOf, extensions, checksMeta, chanVars>>
  PROVE  HostInv'
<1>1. HostTypeOK /\ seq \in Nat /\ seq' \in Nat /\ seq <= seq' /\ st \in [Calls -> {"idle", "awaits-ready", "pending"} \cup Settled]
  BY DEF HostInv, HostTypeOK
<1>2. HostTypeOK'
  BY <1>1 DEF HostTypeOK, Settled, chanVars
<1>3. Channels'
  <2>1. \A j \in DOMAIN toHost : toHost[j].type = "reply" => toHost[j].reqId \in 1..seq'
    BY <1>1, Messages DEF HostInv, Channels
  <2> QED BY <2>1 DEF HostInv, Channels, chanVars, HostRequests, HostReplies, Calls, Ids
<1>4. st' \in [Calls -> {"idle", "awaits-ready", "pending"} \cup Settled] /\ st'[c] = where /\ \A d \in Calls \ {c} : st'[d] = st[d]
  BY <1>1, <1>2 DEF HostTypeOK
<1>5. OneCallPerRequest'
  BY <1>4 DEF HostInv, OneCallPerRequest
<1>6. Transits'
  <2>1. ASSUME NEW i \in DOMAIN toChild, toChild[i].type = "call" PROVE InTransit(i)'
    <3>1. InTransit(i) /\ toChild[i].call \in Calls \ {c}
      BY <2>1, Messages DEF HostInv, Transits, InTransit
    <3> QED BY <1>1, <1>4, <3>1 DEF InTransit, chanVars
  <2> QED BY <2>1 DEF Transits, chanVars
<1>7. Exited'
  BY DEF HostInv, Exited, chanVars
<1>8. ASSUME dead' = FALSE, NEW id \in Ids PROVE Listed(id)' /\ Backed(id)'
  <2>1. Listed(id) /\ Backed(id) /\ Loads \subseteq Calls
    BY <1>8 DEF HostInv, Calls
  <2>2. \A l \in Loads : st'[l] = "returned" <=> st[l] = "returned"
    BY <1>4, <2>1
  <2>3. \A l \in Loads : Confirmed(l)' => Confirmed(l)
    BY <2>2 DEF Confirmed, chanVars
  <2>4. \A l \in Loads : Handled(l)' <=> Handled(l)
    BY <1>4, <2>1, <2>2 DEF Handled, Asking, Refused, chanVars
  <2> QED BY <1>1, <2>1, <2>2, <2>3, <2>4, ListedStays, BackedStays DEF chanVars, HostTypeOK
<1> QED BY <1>2, <1>3, <1>5, <1>6, <1>7, <1>8 DEF HostInv, Ids

\* A request goes to a child that is there.
LEMMA Asked ==
  ASSUME HostInv, NEW c \in Calls, st[c] = "awaits-ready", dead = FALSE,
         st' = [st EXCEPT ![c] = "pending"], seq' = seq + 1, reqOf' = [reqOf EXCEPT ![c] = seq + 1],
         toChild' = IF child = "gone" THEN toChild ELSE Append(toChild, [type |-> "call", call |-> c, reqId |-> seq + 1]),
         UNCHANGED <<ready, connected, dead, spawned, terminating, extensions, checksMeta, child, registered, toHost>>
  PROVE  HostInv'
<1> DEFINE m == [type |-> "call", call |-> c, reqId |-> seq + 1]
<1>1. /\ HostTypeOK /\ seq \in Nat /\ seq' \in Nat /\ seq < seq' /\ reqOf \in [Calls -> 0..seq]
      /\ st \in [Calls -> {"idle", "awaits-ready", "pending"} \cup Settled]
  BY DEF HostInv, HostTypeOK
<1>2. /\ st' \in [Calls -> {"idle", "awaits-ready", "pending"} \cup Settled] /\ st'[c] = "pending" /\ \A d \in Calls \ {c} : st'[d] = st[d]
      /\ reqOf' \in [Calls -> 0..seq'] /\ reqOf'[c] = seq + 1 /\ \A d \in Calls \ {c} : reqOf'[d] = reqOf[d]
  BY <1>1
<1>3. HostTypeOK'
  BY <1>1, <1>2 DEF HostTypeOK, Settled
<1>4. m \in HostRequests \cup {[type |-> "shutdown"]} /\ m.type = "call" /\ m.call = c /\ m.reqId = seq + 1
  BY <1>1 DEF HostRequests
<1> HIDE DEF m
<1>5. toChild \in Seq(HostRequests \cup {[type |-> "shutdown"]})
  BY DEF HostInv, Channels
<1>6. \/ toChild' = toChild /\ child = "gone" /\ toChild = <<>>
      \/ toChild' = Append(toChild, m) /\ child # "gone"
  BY DEF m, HostInv, Channels
<1>7. /\ toChild' \in Seq(HostRequests \cup {[type |-> "shutdown"]})
      /\ \A i \in DOMAIN toChild : i \in DOMAIN toChild' /\ toChild'[i] = toChild[i]
      /\ \A i \in DOMAIN toChild' : i \notin DOMAIN toChild => toChild'[i] = m /\ i = Len(toChild) + 1
      /\ child = "gone" => toChild' = <<>>
  BY <1>4, <1>5, <1>6, AppendIs
<1>8. Channels'
  <2>1. \A j \in DOMAIN toHost : toHost[j].type = "reply" => toHost[j].reqId \in 1..seq'
    BY <1>1, Messages DEF HostInv, Channels
  <2> QED BY <1>7, <2>1 DEF HostInv, Channels, HostRequests, HostReplies, Calls, Ids
<1>9. OneCallPerRequest'
  BY <1>1, <1>2 DEF HostInv, OneCallPerRequest
<1>10. Transits'
  <2>1. \A j \in DOMAIN toHost : toHost[j].type = "reply" => toHost[j].reqId # seq + 1
    BY <1>1, Messages DEF HostInv, Channels
  <2>2. \A i \in DOMAIN toChild : toChild[i].type = "call" =>
           toChild[i].call \in Calls \ {c} /\ toChild[i].reqId \in Nat /\ toChild[i].reqId # seq + 1
    BY <1>1, Messages DEF HostInv, Transits, InTransit
  <2>3. ASSUME NEW i \in DOMAIN toChild, toChild[i].type = "call" PROVE InTransit(i)'
    <3>1. InTransit(i)
      BY <2>3 DEF HostInv, Transits
    <3> QED BY <1>1, <1>2, <1>4, <1>7, <2>1, <2>2, <2>3, <3>1 DEF InTransit
  <2>4. ASSUME NEW i \in DOMAIN toChild', i \notin DOMAIN toChild PROVE InTransit(i)'
    <3>1. toChild'[i] = m /\ \A j \in DOMAIN toChild' : j \notin DOMAIN toChild => j = i
      BY <1>7, <2>4
    <3> QED BY <1>1, <1>2, <1>4, <1>7, <2>1, <2>2, <2>4, <3>1 DEF InTransit
  <2> QED BY <1>7, <2>3, <2>4 DEF Transits
<1>11. Exited'
  BY DEF Exited
<1>12. ASSUME NEW id \in Ids PROVE Listed(id)' /\ Backed(id)'
  <2>1. Listed(id) /\ Backed(id) /\ Loads \subseteq Calls
    BY DEF HostInv, Calls
  <2>2. \A l \in Loads : st'[l] = "returned" <=> st[l] = "returned"
    BY <1>2, <2>1
  <2>3. \A j \in DOMAIN toHost : toHost[j].type = "reply" => toHost[j].reqId # seq + 1
    BY <1>1, Messages DEF HostInv, Channels
  <2>4. \A l \in Loads : Confirmed(l)' => Confirmed(l)
    BY <1>2, <2>1, <2>2, <2>3 DEF Confirmed
  <2>5. ASSUME NEW l \in Loads, child # "gone" PROVE (Handled(l) => Handled(l)') /\ (Handled(l)' => Handled(l) \/ l = c)
    <3>1. CASE l = c
      BY <2>1, <2>2, <3>1 DEF Handled
    <3>2. CASE l # c
      <4>1. Asking(l)' <=> Asking(l)
        BY <1>4, <1>7, <3>2 DEF Asking
      <4> QED BY <1>2, <2>1, <2>2, <3>2, <4>1 DEF Handled, Refused
    <3> QED BY <3>1, <3>2
  <2> QED BY <1>1, <2>1, <2>2, <2>4, <2>5, ListedStays, BackedStays DEF HostTypeOK
<1> QED BY <1>3, <1>8, <1>9, <1>10, <1>11, <1>12 DEF HostInv, Ids

\* The five seconds are over; the child may still handle the request.
LEMMA TimedOut ==
  ASSUME HostInv, NEW c \in Calls, Timeout(c) PROVE HostInv'
<1>1. /\ HostTypeOK /\ reqOf \in [Calls -> 0..seq] /\ seq \in Nat
      /\ st \in [Calls -> {"idle", "awaits-ready", "pending"} \cup Settled]
  BY DEF HostInv, HostTypeOK
<1>2. UNCHANGED <<ready, connected, dead, spawned, terminating, seq, extensions, checksMeta, child, registered, toChild, toHost>>
  BY DEF Timeout, chanVars
<1>3. /\ st[c] = "pending" /\ st' = [st EXCEPT ![c] = "timed-out"] /\ reqOf' = [reqOf EXCEPT ![c] = 0]
  BY DEF Timeout
<1>4. /\ st' \in [Calls -> {"idle", "awaits-ready", "pending"} \cup Settled] /\ st'[c] = "timed-out" /\ \A d \in Calls \ {c} : st'[d] = st[d]
      /\ reqOf' \in [Calls -> 0..seq] /\ reqOf'[c] = 0 /\ \A d \in Calls \ {c} : reqOf'[d] = reqOf[d]
  BY <1>1, <1>3 DEF Settled
<1>5. HostTypeOK'
  BY <1>1, <1>2, <1>4 DEF HostTypeOK, Settled
<1>6. Channels'
  BY <1>2 DEF HostInv, Channels, HostRequests, HostReplies, Calls, Ids
<1>7. OneCallPerRequest'
  BY <1>4 DEF HostInv, OneCallPerRequest
<1>8. Transits'
  <2>1. ASSUME NEW i \in DOMAIN toChild, toChild[i].type = "call" PROVE InTransit(i)'
    <3>1. InTransit(i) /\ toChild[i].call \in Calls /\ toChild[i].reqId \in Nat
      BY <2>1, Messages DEF HostInv, Transits
    <3> QED BY <1>2, <1>4, <3>1 DEF InTransit
  <2> QED BY <1>2, <2>1 DEF Transits
<1>9. Exited'
  BY <1>2, <1>4 DEF HostInv, Exited
<1>10. ASSUME dead' = FALSE, NEW id \in Ids PROVE Listed(id)' /\ Backed(id)'
  <2>1. Listed(id) /\ Backed(id) /\ Loads \subseteq Calls
    BY <1>2, <1>10 DEF HostInv, Calls
  <2>2. \A l \in Loads : st'[l] = "returned" <=> st[l] = "returned"
    BY <1>3, <1>4, <2>1
  <2>3. \A l \in Loads : Confirmed(l)' => Confirmed(l)
    BY <1>2, <1>4, <2>1, <2>2 DEF Confirmed
  <2>4. ASSUME NEW l \in Loads PROVE (Handled(l) => Handled(l)') /\ (Handled(l)' => Handled(l) \/ l = c)
    BY <1>2, <1>3, <1>4, <2>1, <2>2 DEF Handled, Asking, Refused
  <2> QED BY <1>1, <1>2, <2>1, <2>2, <2>3, <2>4, ListedStays, BackedStays DEF HostTypeOK
<1> QED BY <1>5, <1>6, <1>7, <1>8, <1>9, <1>10 DEF HostInv, Ids

\* A message leaves the channel to the host.
LEMMA Received ==
  ASSUME Channels, toHost # <<>>, toHost' = Tail(toHost), UNCHANGED <<seq, child, toChild>>
  PROVE  /\ Channels' /\ Head(toHost) = toHost[1] /\ 1 \in DOMAIN toHost
         /\ \A j \in DOMAIN toHost' : \E k \in DOMAIN toHost : toHost'[j] = toHost[k]
         /\ \A k \in DOMAIN toHost \ {1} : \E j \in DOMAIN toHost' : toHost'[j] = toHost[k]
<1>1. toHost \in Seq(HostReplies \cup {[type |-> "ready"]})
  BY DEF Channels
<1>2. /\ toHost' \in Seq(HostReplies \cup {[type |-> "ready"]}) /\ Head(toHost) = toHost[1] /\ 1 \in DOMAIN toHost
      /\ \A j \in DOMAIN toHost' : j + 1 \in DOMAIN toHost /\ toHost'[j] = toHost[j + 1]
      /\ \A k \in DOMAIN toHost \ {1} : k - 1 \in DOMAIN toHost' /\ toHost'[k - 1] = toHost[k]
  BY <1>1, TailIs
<1>3. \A j \in DOMAIN toHost' : \E k \in DOMAIN toHost : toHost'[j] = toHost[k]
  BY <1>2
<1>4. Channels'
  BY <1>2, <1>3 DEF Channels, HostRequests, HostReplies, Calls, Ids
<1> QED BY <1>2, <1>3, <1>4

\* The host hears that the child is ready, or an answer nobody waits for.
LEMMA Stray ==
  ASSUME HostInv, toHost # <<>>, toHost' = Tail(toHost),
         \/ Head(toHost).type = "ready" /\ ready' \in {"ok", ready}
         \/ Head(toHost).type = "reply" /\ Waiting(Head(toHost).reqId) = {} /\ ready' = ready,
         UNCHANGED <<connected, dead, spawned, terminating, seq, reqOf, st, extensions, checksMeta, child, registered, toChild>>
  PROVE  HostInv'
<1>1. Channels
  BY DEF HostInv
<1>2. /\ Channels' /\ Head(toHost) = toHost[1] /\ 1 \in DOMAIN toHost
      /\ \A j \in DOMAIN toHost' : \E k \in DOMAIN toHost : toHost'[j] = toHost[k]
      /\ \A k \in DOMAIN toHost \ {1} : \E j \in DOMAIN toHost' : toHost'[j] = toHost[k]
  BY <1>1, Received
<1>3. HostTypeOK'
  BY DEF HostInv, HostTypeOK
<1>4. OneCallPerRequest' /\ Exited'
  BY DEF HostInv, OneCallPerRequest, Exited
<1>5. Transits'
  BY <1>2 DEF HostInv, Transits, InTransit
<1>6. ASSUME dead' = FALSE, NEW id \in Ids PROVE Listed(id)' /\ Backed(id)'
  <2>1. Listed(id) /\ Backed(id) /\ Loads \subseteq Calls
    BY <1>6 DEF HostInv, Calls
  <2>2. \A l \in Loads : toHost[1].type = "reply" => toHost[1].reqId # reqOf[l]
    BY <1>2, <2>1 DEF Waiting
  <2>3. \A l \in Loads : Confirmed(l)' => Confirmed(l)
    BY <1>2 DEF Confirmed
  <2>4. \A l \in Loads : Refused(l)' <=> Refused(l)
    BY <1>2, <2>2 DEF Refused
  <2>5. \A l \in Loads : Handled(l)' <=> Handled(l)
    BY <2>4 DEF Handled, Asking
  <2> QED BY <2>1, <2>3, <2>5, ListedStays, BackedStays DEF HostInv, HostTypeOK
<1> QED BY <1>2, <1>3, <1>4, <1>5, <1>6 DEF HostInv, Ids

\* The host hears the answer call c waits for.
LEMMA Answered ==
  ASSUME HostInv, toHost # <<>>, toHost' = Tail(toHost), Head(toHost).type = "reply",
         NEW c \in Calls, reqOf[c] = Head(toHost).reqId, reqOf' = [reqOf EXCEPT ![c] = 0],
         NEW ok \in BOOLEAN, Head(toHost).ok = ok,
         st' = [st EXCEPT ![c] = IF ok = TRUE THEN "returned" ELSE "rejected"],
         IF c \in Loads /\ ok = TRUE
         THEN /\ extensions' = Append(extensions, IdOf[c])
              /\ checksMeta' = checksMeta \o Head(toHost).registrations
         ELSE UNCHANGED <<extensions, checksMeta>>,
         UNCHANGED <<ready, connected, dead, spawned, terminating, seq, child, registered, toChild>>
  PROVE  HostInv'
<1> DEFINE where == IF ok = TRUE THEN "returned" ELSE "rejected"
<1>1. Channels /\ HostTypeOK /\ OneCallPerRequest /\ Transits /\ Exited
  BY DEF HostInv
<1>2. /\ Channels' /\ Head(toHost) = toHost[1] /\ 1 \in DOMAIN toHost
      /\ \A j \in DOMAIN toHost' : \E k \in DOMAIN toHost : toHost'[j] = toHost[k]
      /\ \A k \in DOMAIN toHost \ {1} : \E j \in DOMAIN toHost' : toHost'[j] = toHost[k]
  BY <1>1, Received
<1>3. /\ reqOf[c] = toHost[1].reqId /\ reqOf[c] \in 1..seq /\ seq \in Nat /\ reqOf \in [Calls -> 0..seq]
      /\ toHost[1].type = "reply" /\ toHost[1].registrations \in Seq(Ids) /\ toHost[1].ok = ok
      /\ st \in [Calls -> {"idle", "awaits-ready", "pending"} \cup Settled]
  BY <1>1, <1>2, Messages DEF Channels, HostTypeOK
<1>4. st[c] = "pending" /\ dead = FALSE /\ \A d \in Calls \ {c} : reqOf[d] # toHost[1].reqId
  <2>1. st[c] = "pending" /\ \A d \in Calls \ {c} : reqOf[d] # toHost[1].reqId
    BY <1>1, <1>3 DEF OneCallPerRequest
  <2>2. reqOf[c] # 0 /\ dead \in BOOLEAN
    BY <1>1, <1>3 DEF HostTypeOK
  <2>3. ~(dead = TRUE)
    BY <1>1, <2>2 DEF Exited
  <2> QED BY <2>1, <2>2, <2>3
<1>5. /\ st' \in [Calls -> {"idle", "awaits-ready", "pending"} \cup Settled] /\ st'[c] = where /\ \A d \in Calls \ {c} : st'[d] = st[d]
      /\ reqOf' \in [Calls -> 0..seq] /\ reqOf'[c] = 0 /\ \A d \in Calls \ {c} : reqOf'[d] = reqOf[d]
  BY <1>3 DEF Settled
<1>6. extensions' \in Seq(Ids) /\ checksMeta' \in Seq(Ids)
  <2>1. extensions \in Seq(Ids) /\ checksMeta \in Seq(Ids) /\ (c \in Loads => IdOf[c] \in Ids)
    BY <1>1 DEF HostTypeOK, Ids
  <2>2. checksMeta \o Head(toHost).registrations \in Seq(Ids)
    BY <1>2, <1>3, <2>1
  <2>3. c \in Loads => Append(extensions, IdOf[c]) \in Seq(Ids)
    BY <2>1
  <2> QED BY <2>1, <2>2, <2>3
<1>7. HostTypeOK'
  BY <1>1, <1>5, <1>6 DEF HostTypeOK, Settled
<1>8. OneCallPerRequest' /\ Exited'
  BY <1>1, <1>4, <1>5 DEF OneCallPerRequest, Exited
<1>9. \A i \in DOMAIN toChild : toChild[i].type = "call" => toChild[i].call \in Calls \ {c}
  BY <1>1, <1>2, <1>3, Messages DEF Transits, InTransit
<1>10. Transits'
  <2>1. ASSUME NEW i \in DOMAIN toChild, toChild[i].type = "call" PROVE InTransit(i)'
    <3>1. InTransit(i) /\ toChild[i].reqId \in Nat /\ toChild[i].call \in Calls \ {c} /\ toChild[i].reqId # 0
      BY <1>1, <1>9, <2>1, Messages DEF Transits, InTransit
    <3> QED BY <1>2, <1>5, <3>1 DEF InTransit
  <2> QED BY <2>1 DEF Transits
<1>11. /\ \A l \in Loads : Confirmed(l)' => Confirmed(l)
       /\ \A l \in Loads : (Handled(l) => Handled(l)') /\ (Handled(l)' => Handled(l) \/ l = c)
  <2>0. Loads \subseteq Calls
    BY DEF Calls
  <2>1. ASSUME NEW l \in Loads, l # c
        PROVE  (Confirmed(l)' => Confirmed(l)) /\ (Handled(l)' <=> Handled(l))
    <3>1. reqOf'[l] = reqOf[l] /\ st'[l] = st[l] /\ reqOf[l] # toHost[1].reqId
      BY <1>4, <1>5, <2>0, <2>1
    <3>2. Confirmed(l)' => Confirmed(l)
      BY <1>2, <3>1 DEF Confirmed
    <3>3. Refused(l)' <=> Refused(l)
      BY <1>2, <3>1 DEF Refused
    <3> QED BY <3>1, <3>2, <3>3 DEF Handled, Asking
  <2>2. ASSUME c \in Loads
        PROVE  (Confirmed(c)' => Confirmed(c)) /\ (Handled(c) => Handled(c)')
    <3>1. Confirmed(c)' => ok = TRUE
      <4>1. reqOf'[c] = 0 /\ (ok # TRUE => st'[c] = "rejected")
        BY <1>5
      <4> QED BY <4>1 DEF Confirmed
    <3>2. ok = TRUE => Confirmed(c)
      <4>1. /\ 1 \in DOMAIN toHost /\ toHost[1].type = "reply" /\ toHost[1].reqId = reqOf[c] /\ reqOf[c] # 0
            /\ ok = TRUE => toHost[1].ok = TRUE
        BY <1>2, <1>3
      <4> QED BY <4>1 DEF Confirmed
    <3>3. ok # TRUE => ok = FALSE
      OBVIOUS
    <3>4. ok = FALSE => Refused(c)
      BY <1>2, <1>3 DEF Refused
    <3>5. Handled(c) => ok = TRUE
      BY <1>4, <3>3, <3>4 DEF Handled
    <3>6. ok = TRUE => Handled(c)'
      BY <1>5 DEF Handled
    <3> QED BY <3>1, <3>2, <3>5, <3>6
  <2> QED BY <2>1, <2>2
<1>12. ASSUME NEW id \in Ids PROVE Listed(id)' /\ Backed(id)'
  <2>1. Listed(id) /\ Backed(id) /\ registered \in Seq(Ids) /\ extensions \in Seq(Ids)
    BY <1>1, <1>4 DEF HostInv, HostTypeOK
  <2>2. Backed(id)'
    BY <1>11, <2>1, BackedStays
  <2>3. Listed(id)'
    <3>1. CASE c \in Loads /\ ok = TRUE
      <4>1. extensions' = Append(extensions, IdOf[c]) /\ IdOf[c] \in Ids
        BY <3>1 DEF Ids
      <4>2. ReturnedOf(id)' = IF IdOf[c] = id THEN ReturnedOf(id) \cup {c} ELSE ReturnedOf(id)
        BY <1>4, <1>5, <3>1 DEF ReturnedOf, Calls
      <4>3. c \notin ReturnedOf(id) /\ IsFiniteSet(ReturnedOf(id))
        BY <1>4, <2>1 DEF ReturnedOf, Listed
      <4>4. IsFiniteSet(ReturnedOf(id) \cup {c}) /\ Cardinality(ReturnedOf(id) \cup {c}) = Cardinality(ReturnedOf(id)) + 1
        BY <4>3, FS_AddElement
      <4>5. Count(extensions', id) = IF IdOf[c] = id THEN Count(extensions, id) + 1 ELSE Count(extensions, id)
        BY <2>1, <4>1, CountIs
      <4>6. IsFiniteSet(ReturnedOf(id)') /\ Count(extensions', id) = Cardinality(ReturnedOf(id)')
        BY <2>1, <4>2, <4>4, <4>5 DEF Listed
      <4> QED BY <4>6 DEF Listed, Count
    <3>2. CASE ~(c \in Loads /\ ok = TRUE)
      <4>1. \A l \in Loads : st'[l] = "returned" <=> st[l] = "returned"
        BY <1>4, <1>5, <3>2 DEF Calls
      <4> QED BY <2>1, <3>2, <4>1, ListedStays
    <3> QED BY <3>1, <3>2
  <2> QED BY <2>2, <2>3
<1> QED BY <1>2, <1>7, <1>8, <1>10, <1>12 DEF HostInv, Ids

\* The host takes a message.
LEMMA OnMessageStep == ASSUME HostInv, OnMessage PROVE HostInv'
<1> DEFINE m == Head(toHost)
<1>1. /\ toHost # <<>> /\ toHost' = Tail(toHost)
      /\ UNCHANGED <<connected, dead, spawned, terminating, seq, child, registered, toChild>>
  BY DEF OnMessage
<1>2. /\ m = toHost[1] /\ 1 \in DOMAIN toHost
      /\ m.type = "ready" \/ (m.type = "reply" /\ m.ok \in BOOLEAN)
  <2>1. Channels /\ toHost \in Seq(HostReplies \cup {[type |-> "ready"]})
    BY DEF HostInv, Channels
  <2>2. Head(toHost) = toHost[1] /\ 1 \in DOMAIN toHost
    BY <1>1, <2>1, TailIs
  <2>3. m = [type |-> "ready"] \/ (m.type = "reply" /\ m.ok \in BOOLEAN)
    <3>1. CASE toHost[1].type = "reply"
      BY <2>1, <2>2, <3>1, Messages
    <3>2. CASE toHost[1].type # "reply"
      <4>1. toHost[1] = [type |-> "ready"]
        BY <2>1, <2>2, <3>2, Messages
      <4> QED BY <2>2, <4>1
    <3> QED BY <3>1, <3>2
  <2> QED BY <2>2, <2>3
<1>3. CASE m.type = "ready"
  <2>1. ready' \in {"ok", ready} /\ UNCHANGED <<reqOf, st, extensions, checksMeta>>
    BY <1>3 DEF OnMessage
  <2> QED BY <1>1, <1>3, <2>1, Stray
<1>4. CASE m.type = "reply" /\ Waiting(m.reqId) = {}
  <2>1. UNCHANGED <<ready, reqOf, st, extensions, checksMeta>>
    BY <1>4 DEF OnMessage
  <2> QED BY <1>1, <1>4, <2>1, Stray
<1>5. CASE m.type = "reply" /\ Waiting(m.reqId) # {}
  <2>1. PICK c \in Waiting(m.reqId) :
           /\ reqOf' = [reqOf EXCEPT ![c] = 0]
           /\ st' = [st EXCEPT ![c] = IF m.ok THEN "returned" ELSE "rejected"]
           /\ Continue(c, m)
           /\ UNCHANGED ready
    BY <1>5 DEF OnMessage
  <2>2. c \in Calls /\ reqOf[c] = m.reqId
    BY DEF Waiting
  <2>3. PICK ok \in BOOLEAN : m.ok = ok
    BY <1>2, <1>5
  <2>4. st' = [st EXCEPT ![c] = IF ok = TRUE THEN "returned" ELSE "rejected"]
    BY <2>1, <2>3
  <2>5. IF c \in Loads /\ ok = TRUE
        THEN extensions' = Append(extensions, IdOf[c]) /\ checksMeta' = checksMeta \o m.registrations
        ELSE UNCHANGED <<extensions, checksMeta>>
    BY <2>1, <2>3 DEF Continue
  <2> QED BY <1>1, <1>5, <2>1, <2>2, <2>3, <2>4, <2>5, Answered
<1> QED BY <1>2, <1>3, <1>4, <1>5

\* The request at the front of the channel leaves it; no other is of its call.
LEMMA Taken ==
  ASSUME HostInv, toChild # <<>>, toChild' = Tail(toChild), UNCHANGED <<seq, st, reqOf>>, child # "gone"
  PROVE  /\ toChild' \in Seq(HostRequests \cup {[type |-> "shutdown"]}) /\ Head(toChild) = toChild[1] /\ 1 \in DOMAIN toChild
         /\ dead = FALSE
         /\ \A i \in DOMAIN toChild' : toChild'[i].type = "call" =>
               /\ InTransit(i + 1) /\ i + 1 \in DOMAIN toChild /\ toChild'[i] = toChild[i + 1]
               /\ \A j \in DOMAIN toChild' : toChild'[j].type = "call" /\ (toChild'[j].call = toChild'[i].call \/ toChild'[j].reqId = toChild'[i].reqId) => j = i
               /\ toChild[1].type = "call" => /\ toChild'[i].call # toChild[1].call /\ toChild'[i].reqId # toChild[1].reqId
         /\ toChild[1].type = "call" =>
               /\ InTransit(1) /\ toChild[1].call \in Calls /\ toChild[1].reqId \in Nat
               /\ \A c \in Calls : Asking(c)' <=> Asking(c) /\ c # toChild[1].call
         /\ toChild[1].type # "call" => \A c \in Calls : Asking(c)' <=> Asking(c)
<1>1. Channels /\ Transits /\ toChild \in Seq(HostRequests \cup {[type |-> "shutdown"]})
  BY DEF HostInv, Channels
<1>2. /\ toChild' \in Seq(HostRequests \cup {[type |-> "shutdown"]}) /\ Head(toChild) = toChild[1] /\ 1 \in DOMAIN toChild
      /\ \A i \in DOMAIN toChild' : i \in Nat \ {0} /\ i + 1 \in DOMAIN toChild /\ toChild'[i] = toChild[i + 1]
      /\ \A k \in DOMAIN toChild \ {1} : k \in Nat /\ k - 1 \in DOMAIN toChild' /\ toChild'[k - 1] = toChild[k]
  BY <1>1, TailIs
<1>3. dead = FALSE
  <2>1. dead \in BOOLEAN /\ ~(dead = TRUE)
    BY DEF HostInv, HostTypeOK, Exited
  <2> QED BY <2>1
<1>4. ASSUME NEW i \in DOMAIN toChild', toChild'[i].type = "call"
      PROVE  /\ InTransit(i + 1) /\ i + 1 \in DOMAIN toChild /\ toChild'[i] = toChild[i + 1]
             /\ \A j \in DOMAIN toChild' : toChild'[j].type = "call" /\ (toChild'[j].call = toChild'[i].call \/ toChild'[j].reqId = toChild'[i].reqId) => j = i
             /\ toChild[1].type = "call" => toChild'[i].call # toChild[1].call /\ toChild'[i].reqId # toChild[1].reqId
  <2>1. InTransit(i + 1) /\ i \in Nat \ {0}
    BY <1>1, <1>2, <1>4 DEF Transits
  <2>2. \A j \in DOMAIN toChild :
           toChild[j].type = "call" /\ (toChild[j].call = toChild'[i].call \/ toChild[j].reqId = toChild'[i].reqId) => j = i + 1
    BY <1>2, <2>1 DEF InTransit
  <2>3. ASSUME NEW j \in DOMAIN toChild', toChild'[j].type = "call",
               toChild'[j].call = toChild'[i].call \/ toChild'[j].reqId = toChild'[i].reqId
        PROVE  j = i
    <3>1. j + 1 = i + 1 /\ j \in Nat
      BY <1>2, <2>2, <2>3
    <3> QED BY <2>1, <3>1
  <2>4. toChild[1].type = "call" => toChild'[i].call # toChild[1].call /\ toChild'[i].reqId # toChild[1].reqId
    BY <1>2, <2>1, <2>2
  <2> QED BY <1>2, <2>1, <2>3, <2>4
<1>5. ASSUME toChild[1].type = "call"
      PROVE  /\ InTransit(1) /\ toChild[1].call \in Calls /\ toChild[1].reqId \in Nat
             /\ \A c \in Calls : Asking(c)' <=> Asking(c) /\ c # toChild[1].call
  <2>1. InTransit(1) /\ toChild[1].call \in Calls /\ toChild[1].reqId \in Nat
    BY <1>1, <1>2, <1>5, Messages DEF Transits
  <2>2. ASSUME NEW c \in Calls, Asking(c)' PROVE Asking(c) /\ c # toChild[1].call
    BY <1>2, <1>4, <1>5, <2>2 DEF Asking
  <2>3. ASSUME NEW c \in Calls, Asking(c), c # toChild[1].call PROVE Asking(c)'
    BY <1>2, <2>3 DEF Asking
  <2> QED BY <2>1, <2>2, <2>3
<1>6. ASSUME toChild[1].type # "call", NEW c \in Calls PROVE Asking(c)' <=> Asking(c)
  BY <1>2, <1>6 DEF Asking
<1> QED BY <1>2, <1>3, <1>4, <1>5, <1>6

\* The child answers a request; it registers if it was a load and the answer is yes.
LEMMA Handles ==
  ASSUME HostInv, child # "gone", toChild # <<>>, toChild' = Tail(toChild), toChild[1].type = "call",
         NEW c \in Calls, toChild[1].call = c, NEW q \in Nat, toChild[1].reqId = q,
         NEW ok \in BOOLEAN, NEW registrations \in Seq(Ids),
         toHost' = Append(toHost, [type |-> "reply", reqId |-> q, ok |-> ok, registrations |-> registrations]),
         registered' = IF c \in Loads /\ ok = TRUE
                       THEN Append(registered, IdOf[c]) ELSE registered,
         UNCHANGED <<ready, connected, dead, spawned, terminating, seq, reqOf, st, extensions, checksMeta, child>>
  PROVE  HostInv'
<1> DEFINE r == [type |-> "reply", reqId |-> q, ok |-> ok, registrations |-> registrations]
<1>1. /\ Channels /\ HostTypeOK /\ OneCallPerRequest /\ Transits /\ Exited
      /\ toHost \in Seq(HostReplies \cup {[type |-> "ready"]}) /\ seq \in Nat
  BY DEF HostInv, Channels, HostTypeOK
<1>2. /\ toChild' \in Seq(HostRequests \cup {[type |-> "shutdown"]}) /\ dead = FALSE
      /\ InTransit(1) /\ 1 \in DOMAIN toChild
      /\ \A d \in Calls : Asking(d)' <=> Asking(d) /\ d # c
  BY Taken
<1>3. /\ q \in 1..seq /\ st[c] \in {"pending", "timed-out"} /\ reqOf[c] \in {0, q}
      /\ \A d \in Calls : reqOf[d] = q => d = c
      /\ \A j \in DOMAIN toHost : toHost[j].type = "reply" => toHost[j].reqId # q
  BY <1>2 DEF InTransit
<1>4. r \in HostReplies \cup {[type |-> "ready"]} /\ r.type = "reply" /\ r.reqId = q /\ r.ok = ok
  BY <1>2 DEF HostReplies
<1> HIDE DEF r
<1>5. /\ toHost' \in Seq(HostReplies \cup {[type |-> "ready"]})
      /\ \A j \in DOMAIN toHost : j \in DOMAIN toHost' /\ toHost'[j] = toHost[j]
      /\ \A j \in DOMAIN toHost' : (j \in DOMAIN toHost /\ toHost'[j] = toHost[j]) \/ toHost'[j] = r
      /\ \E j \in DOMAIN toHost' : toHost'[j] = r
  <2>1. toHost' = Append(toHost, r)
    BY DEF r
  <2> QED BY <1>1, <1>4, <2>1, AppendIs
<1>6. Channels'
  <2>1. \A j \in DOMAIN toHost' : toHost'[j].type = "reply" => toHost'[j].reqId \in 1..seq
    BY <1>1, <1>3, <1>4, <1>5 DEF Channels
  <2> QED BY <1>2, <1>5, <2>1 DEF Channels, HostRequests, HostReplies, Calls, Ids
<1>7. registered \in Seq(Ids) /\ registered' \in Seq(Ids)
  BY <1>1 DEF HostTypeOK, Ids
<1>8. HostTypeOK'
  BY <1>1, <1>7 DEF HostTypeOK
<1>9. OneCallPerRequest' /\ Exited'
  BY <1>1 DEF OneCallPerRequest, Exited
<1>10. Transits'
  <2>1. ASSUME NEW i \in DOMAIN toChild', toChild'[i].type = "call" PROVE InTransit(i)'
    <3>1. /\ InTransit(i + 1) /\ toChild'[i] = toChild[i + 1] /\ toChild'[i].reqId # q
          /\ \A j \in DOMAIN toChild' : toChild'[j].type = "call" /\ (toChild'[j].call = toChild'[i].call \/ toChild'[j].reqId = toChild'[i].reqId) => j = i
      BY <2>1, Taken
    <3>2. \A j \in DOMAIN toHost' : toHost'[j].type = "reply" => toHost'[j].reqId # toChild'[i].reqId
      BY <1>4, <1>5, <3>1 DEF InTransit
    <3> QED BY <3>1, <3>2 DEF InTransit
  <2> QED BY <2>1 DEF Transits
<1>11. \A l \in Loads : /\ Confirmed(l)' => Confirmed(l) \/ (l = c /\ ok = TRUE)
                        /\ l # c => (Handled(l)' <=> Handled(l))
  <2>1. ASSUME NEW l \in Loads PROVE Confirmed(l)' => Confirmed(l) \/ (l = c /\ ok = TRUE)
    BY <1>3, <1>4, <1>5 DEF Confirmed, Calls
  <2>2. ASSUME NEW l \in Loads, l # c PROVE Handled(l)' <=> Handled(l)
    <3>1. Refused(l)' <=> Refused(l)
      <4>1. reqOf[l] # q
        BY <1>3, <2>2 DEF Calls
      <4>2. Refused(l)' => Refused(l)
        BY <1>4, <1>5, <4>1 DEF Refused
      <4>3. Refused(l) => Refused(l)'
        BY <1>5 DEF Refused
      <4> QED BY <4>2, <4>3
    <3> QED BY <1>2, <2>2, <3>1 DEF Handled, Calls
  <2> QED BY <2>1, <2>2
<1>12. ~Handled(c) /\ (ok = TRUE => Handled(c)')
  <2>1. Asking(c) /\ ~Asking(c)'
    BY <1>2 DEF Asking
  <2>2. ok = TRUE /\ st[c] = "pending" => ~Refused(c)'
    <3>1. \A j \in DOMAIN toHost' : toHost'[j].type = "reply" /\ toHost'[j].reqId = q => toHost'[j].ok = ok
      BY <1>3, <1>4, <1>5
    <3>2. st[c] = "pending" => reqOf[c] = q
      BY <1>1, <1>2, <1>3 DEF OneCallPerRequest
    <3> QED BY <3>1, <3>2 DEF Refused
  <2> QED BY <1>3, <2>1, <2>2 DEF Handled
<1>13. ASSUME NEW id \in Ids PROVE Listed(id)' /\ Backed(id)'
  <2>1. Listed(id) /\ Backed(id)
    BY <1>2 DEF HostInv
  <2>2. Listed(id)'
    BY <2>1, ListedStays
  <2>3. Backed(id)'
    <3>1. CASE ~(c \in Loads /\ ok = TRUE)
      BY <1>7, <1>11, <1>12, <2>1, <3>1, BackedStays
    <3>2. CASE c \in Loads /\ ok = TRUE /\ IdOf[c] # id
      <4>1. ConfirmedOf(id)' \subseteq ConfirmedOf(id) /\ HandledOf(id)' = HandledOf(id)
        BY <1>11, <3>2 DEF ConfirmedOf, HandledOf
      <4>2. IsFiniteSet(ConfirmedOf(id)) /\ IsFiniteSet(ConfirmedOf(id)') /\ Cardinality(ConfirmedOf(id)') <= Cardinality(ConfirmedOf(id))
        BY <2>1, <4>1, FS_Subset DEF Backed
      <4>3. Cardinality(ConfirmedOf(id)) \in Nat /\ Cardinality(ConfirmedOf(id)') \in Nat
        BY <4>2, FS_CardinalityType
      <4>4. Count(registered', id) = Count(registered, id) /\ Count(registered, id) \in Nat
        <5>1. registered' = Append(registered, IdOf[c]) /\ IdOf[c] \in Ids
          BY <3>2 DEF Ids
        <5> QED BY <1>7, <3>2, <5>1, CountIs
      <4>5. Cardinality(ConfirmedOf(id)') <= Count(registered', id)
        BY <2>1, <4>2, <4>3, <4>4 DEF Backed
      <4> QED BY <2>1, <4>1, <4>2, <4>4, <4>5 DEF Backed, Count
    <3>3. CASE c \in Loads /\ ok = TRUE /\ IdOf[c] = id
      <4>1. Count(registered', id) = Count(registered, id) + 1 /\ Count(registered, id) \in Nat
        BY <1>7, <3>3, CountIs DEF Ids
      <4>2. /\ IsFiniteSet(ConfirmedOf(id)) /\ Cardinality(ConfirmedOf(id)) <= Count(registered, id)
            /\ IsFiniteSet(HandledOf(id)) /\ Count(registered, id) <= Cardinality(HandledOf(id))
        BY <2>1 DEF Backed
      <4>3. IsFiniteSet(ConfirmedOf(id)') /\ Cardinality(ConfirmedOf(id)') <= Count(registered', id)
        <5>1. ConfirmedOf(id)' \subseteq ConfirmedOf(id) \cup {c}
          BY <1>11, <3>3 DEF ConfirmedOf
        <5>2. IsFiniteSet(ConfirmedOf(id) \cup {c}) /\ Cardinality(ConfirmedOf(id)) \in Nat
              /\ Cardinality(ConfirmedOf(id) \cup {c}) \in {Cardinality(ConfirmedOf(id)), Cardinality(ConfirmedOf(id)) + 1}
          BY <4>2, FS_AddElement, FS_CardinalityType
        <5>3. IsFiniteSet(ConfirmedOf(id)') /\ Cardinality(ConfirmedOf(id)') <= Cardinality(ConfirmedOf(id) \cup {c})
              /\ Cardinality(ConfirmedOf(id)') \in Nat
          BY <5>1, <5>2, FS_Subset, FS_CardinalityType
        <5> QED BY <4>1, <4>2, <5>2, <5>3
      <4>4. IsFiniteSet(HandledOf(id)') /\ Cardinality(HandledOf(id)') = Cardinality(HandledOf(id)) + 1
        <5>1. HandledOf(id)' = HandledOf(id) \cup {c} /\ c \notin HandledOf(id)
          BY <1>11, <1>12, <3>3 DEF HandledOf
        <5> QED BY <4>2, <5>1, FS_AddElement
      <4>5. Cardinality(HandledOf(id)) \in Nat
        BY <4>2, FS_CardinalityType
      <4>6. Count(registered', id) <= Cardinality(HandledOf(id)')
        BY <4>1, <4>2, <4>4, <4>5
      <4> QED BY <4>3, <4>4, <4>6 DEF Backed, Count
    <3> QED BY <3>1, <3>2, <3>3
  <2> QED BY <2>2, <2>3
<1> QED BY <1>6, <1>8, <1>9, <1>10, <1>13 DEF HostInv, Ids

\* The child handles the request at the front.
LEMMA ChildHandlesStep == ASSUME HostInv, ChildHandles PROVE HostInv'
<1>1. /\ child # "gone" /\ toChild # <<>> /\ toChild' = Tail(toChild)
      /\ UNCHANGED <<ready, connected, dead, spawned, terminating, seq, reqOf, st, extensions, checksMeta, child>>
  BY DEF ChildHandles, hostVars
<1>2. Head(toChild) = toChild[1] /\ toChild[1].type = "call"
  <2>1. Head(toChild).type = "call" /\ UNCHANGED <<seq, st, reqOf>>
    BY <1>1 DEF ChildHandles
  <2>2. Head(toChild) = toChild[1]
    BY <1>1, <2>1, Taken
  <2> QED BY <2>1, <2>2
<1>3. toChild[1].call \in Calls /\ toChild[1].reqId \in Nat
  BY <1>1, <1>2, Taken
<1>4. PICK c \in Calls, q \in Nat : toChild[1].call = c /\ toChild[1].reqId = q
  BY <1>3
<1>5. PICK ok \in BOOLEAN, registrations \in Seq(Ids) :
         /\ toHost' = Append(toHost, [type |-> "reply", reqId |-> q, ok |-> ok, registrations |-> registrations])
         /\ registered' = IF c \in Loads /\ ok = TRUE THEN Append(registered, IdOf[c]) ELSE registered
  <2>1. <<>> \in Seq(Ids) /\ registered \in Seq(Ids)
    BY DEF HostInv, HostTypeOK
  <2>2. CASE c \in Loads /\ ChildLoads(toChild[1])
    <3> DEFINE regs == [i \in 1..Count(registered', IdOf[c]) |-> IdOf[c]]
    <3>1. registered' = Append(registered, IdOf[c]) /\ Reply(toChild[1], TRUE, regs) /\ IdOf[c] \in Ids
      BY <1>4, <2>2 DEF ChildLoads, Ids
    <3>2. Count(registered', IdOf[c]) \in Nat
      BY <2>1, <3>1, CountIs
    <3>3. regs \in Seq(Ids)
      BY <3>1, <3>2
    <3> QED BY <1>4, <2>2, <3>1, <3>3 DEF Reply
  <2>3. CASE c \in Loads /\ ChildRefuses(toChild[1])
    BY <1>4, <2>1, <2>3 DEF ChildRefuses, Reply
  <2>4. CASE c \notin Loads
    <3>1. PICK ok \in BOOLEAN : Reply(toChild[1], ok, <<>>) /\ UNCHANGED registered
      BY <1>2, <1>4, <2>4 DEF ChildHandles
    <3> QED BY <1>4, <2>1, <2>4, <3>1 DEF Reply
  <2> QED BY <1>2, <1>4, <2>2, <2>3, <2>4 DEF ChildHandles
<1> QED BY <1>1, <1>2, <1>4, <1>5, Handles

\* The child is hung by the request at the front.
LEMMA ChildHangsStep == ASSUME HostInv, ChildHangs PROVE HostInv'
<1>1. /\ child # "gone" /\ child' = "hung" /\ toChild # <<>> /\ toChild' = Tail(toChild)
      /\ UNCHANGED <<ready, connected, dead, spawned, terminating, seq, reqOf, st, extensions, checksMeta, registered, toHost>>
  BY DEF ChildHangs, hostVars
<1>2. /\ toChild' \in Seq(HostRequests \cup {[type |-> "shutdown"]}) /\ dead = FALSE
      /\ \A i \in DOMAIN toChild' : toChild'[i].type = "call" =>
               /\ InTransit(i + 1) /\ toChild'[i] = toChild[i + 1]
               /\ \A j \in DOMAIN toChild' : toChild'[j].type = "call" /\ (toChild'[j].call = toChild'[i].call \/ toChild'[j].reqId = toChild'[i].reqId) => j = i
  BY <1>1, Taken
<1>3. \E c : \A d \in Calls : (Asking(d)' => Asking(d)) /\ (Asking(d) => Asking(d)' \/ d = c)
  BY <1>1, Taken
<1>4. HostTypeOK' /\ Channels' /\ OneCallPerRequest' /\ Exited'
  BY <1>1, <1>2 DEF HostInv, HostTypeOK, Channels, OneCallPerRequest, Exited, HostRequests, HostReplies, Calls, Ids
<1>5. Transits'
  BY <1>1, <1>2 DEF Transits, InTransit
<1>6. ASSUME NEW id \in Ids PROVE Listed(id)' /\ Backed(id)'
  <2>1. Listed(id) /\ Backed(id) /\ registered \in Seq(Ids)
    BY <1>2 DEF HostInv, HostTypeOK
  <2>2. PICK c : \A d \in Calls : (Asking(d)' => Asking(d)) /\ (Asking(d) => Asking(d)' \/ d = c)
    BY <1>3
  <2>3. \A l \in Loads : Confirmed(l)' => Confirmed(l)
    BY <1>1 DEF Confirmed
  <2>4. ASSUME NEW l \in Loads PROVE (Handled(l) => Handled(l)') /\ (Handled(l)' => Handled(l) \/ l = c)
    BY <1>1, <2>2 DEF Handled, Refused, Calls
  <2> QED BY <1>1, <2>1, <2>3, <2>4, ListedStays, BackedStays
<1> QED BY <1>4, <1>5, <1>6 DEF HostInv, Ids

\* The child is gone, and with it what it did not read.
LEMMA Gone ==
  ASSUME HostInv, child # "gone", child' = "gone", toChild' = <<>>, ready' \in {"failed", ready}, connected' \in {FALSE, connected},
         spawned' \in {FALSE, spawned},
         UNCHANGED <<dead, terminating, seq, reqOf, st, extensions, checksMeta, registered, toHost>>
  PROVE  HostInv'
<1>1. HostTypeOK' /\ Channels' /\ OneCallPerRequest' /\ Transits' /\ Exited'
  <2>1. HostTypeOK'
    BY DEF HostInv, HostTypeOK
  <2>2. Channels'
    BY DEF HostInv, Channels, HostRequests, HostReplies, Calls, Ids
  <2>3. OneCallPerRequest' /\ Exited' /\ Transits'
    BY DEF HostInv, OneCallPerRequest, Exited, Transits
  <2> QED BY <2>1, <2>2, <2>3
<1>2. ASSUME dead' = FALSE, NEW id \in Ids PROVE Listed(id)' /\ Backed(id)'
  <2>1. Listed(id) /\ Backed(id) /\ registered \in Seq(Ids)
    BY <1>2 DEF HostInv, HostTypeOK
  <2>2. \A l \in Loads : Confirmed(l)' => Confirmed(l)
    BY DEF Confirmed
  <2> QED BY <2>1, <2>2, ListedStays, BackedStays
<1> QED BY <1>1, <1>2 DEF HostInv, Ids

\* The channel closes, or a message that is no answer and no request is sent.
LEMMA Quiet ==
  ASSUME HostInv, connected' \in BOOLEAN, terminating' \in {TRUE, terminating}, child # "gone" \/ child' = child,
         child' \in {"up", child},
         toChild' = toChild \/ (child # "gone" /\ toChild' = Append(toChild, [type |-> "shutdown"])),
         toHost' = toHost \/ toHost' = Append(toHost, [type |-> "ready"]),
         UNCHANGED <<ready, dead, spawned, seq, reqOf, st, extensions, checksMeta, registered>>
  PROVE  HostInv'
<1>1. /\ toChild' \in Seq(HostRequests \cup {[type |-> "shutdown"]})
      /\ \A i \in DOMAIN toChild : i \in DOMAIN toChild' /\ toChild'[i] = toChild[i]
      /\ \A i \in DOMAIN toChild' : toChild'[i].type = "call" => i \in DOMAIN toChild
      /\ child = "gone" => toChild' = <<>>
  <2> DEFINE S == HostRequests \cup {[type |-> "shutdown"]}
  <2>1. toChild \in Seq(S) /\ (child = "gone" => toChild = <<>>)
    BY DEF HostInv, Channels
  <2>2. CASE toChild' = toChild
    BY <2>1, <2>2
  <2>3. CASE child # "gone" /\ toChild' = Append(toChild, [type |-> "shutdown"])
    <3>1. [type |-> "shutdown"] \in S
      OBVIOUS
    <3> HIDE DEF S
    <3>2. /\ toChild' \in Seq(S) /\ DOMAIN toChild' = DOMAIN toChild \cup {Len(toChild) + 1}
          /\ \A i \in DOMAIN toChild : toChild'[i] = toChild[i]
          /\ toChild'[Len(toChild) + 1].type = "shutdown"
      BY <2>1, <2>3, <3>1, AppendIs
    <3> QED BY <2>3, <3>2 DEF S
  <2> QED BY <2>2, <2>3
<1>2. /\ toHost' \in Seq(HostReplies \cup {[type |-> "ready"]})
      /\ \A i \in DOMAIN toHost : i \in DOMAIN toHost' /\ toHost'[i] = toHost[i]
      /\ \A i \in DOMAIN toHost' : toHost'[i].type = "reply" => i \in DOMAIN toHost
  <2>1. toHost \in Seq(HostReplies \cup {[type |-> "ready"]})
    BY DEF HostInv, Channels
  <2> QED BY <2>1, AppendIs
<1>3. (child' = "gone" <=> child = "gone") /\ (terminating' = FALSE => terminating = FALSE)
  BY DEF HostInv, HostTypeOK
<1>4. HostTypeOK'
  BY DEF HostInv, HostTypeOK
<1>5. Channels'
  BY <1>1, <1>2, <1>3 DEF HostInv, Channels, HostRequests, HostReplies, Calls, Ids
<1>6. OneCallPerRequest' /\ Exited'
  BY <1>3 DEF HostInv, OneCallPerRequest, Exited
<1>7. Transits'
  BY <1>1, <1>2 DEF HostInv, Transits, InTransit
<1>8. ASSUME dead' = FALSE, NEW id \in Ids PROVE Listed(id)' /\ Backed(id)'
  <2>1. Listed(id) /\ Backed(id) /\ registered \in Seq(Ids)
    BY <1>8 DEF HostInv, HostTypeOK
  <2>2. \A l \in Loads : (Confirmed(l)' <=> Confirmed(l)) /\ (Refused(l)' <=> Refused(l))
    BY <1>2 DEF Confirmed, Refused
  <2>3. \A l \in Loads : Asking(l)' <=> Asking(l)
    BY <1>1 DEF Asking
  <2>4. \A l \in Loads : Handled(l)' <=> Handled(l)
    BY <2>2, <2>3 DEF Handled
  <2> QED BY <1>3, <2>1, <2>2, <2>4, ListedStays, BackedStays
<1> QED BY <1>4, <1>5, <1>6, <1>7, <1>8 DEF HostInv, Ids

\* The exit handler.
LEMMA OnExitStep == ASSUME HostInv, OnExit PROVE HostInv'
<1>1. /\ child = "gone" /\ dead' = TRUE /\ ready' \in {"failed", ready}
      /\ UNCHANGED <<connected, spawned, terminating, seq, child, registered, toChild, toHost>>
  BY DEF OnExit, chanVars
<1>2. /\ reqOf' = [c \in Calls |-> 0]
      /\ st' = [c \in Calls |-> IF st[c] = "pending" THEN "rejected" ELSE st[c]]
  BY DEF OnExit
<1>3. terminating = FALSE => extensions' = <<>> /\ checksMeta' = <<>>
  BY DEF OnExit
<1>4. extensions' \in Seq(Ids) /\ checksMeta' \in Seq(Ids)
  <2>1. extensions' \in {<<>>, extensions} /\ checksMeta' \in {<<>>, checksMeta}
    BY DEF OnExit
  <2>2. extensions \in Seq(Ids) /\ checksMeta \in Seq(Ids)
    BY DEF HostInv, HostTypeOK
  <2>3. <<>> \in Seq(Ids)
    OBVIOUS
  <2> QED BY <2>1, <2>2, <2>3
<1>5. HostTypeOK'
  <2>1. HostTypeOK /\ reqOf' \in [Calls -> 0..seq] /\ st' \in [Calls -> {"idle", "awaits-ready", "pending"} \cup Settled]
    BY <1>2 DEF HostInv, HostTypeOK, Settled
  <2> QED BY <1>1, <1>4, <2>1 DEF HostTypeOK
<1>6. Channels' /\ toChild' = <<>>
  BY <1>1 DEF HostInv, Channels, HostRequests, HostReplies, Calls, Ids
<1>7. OneCallPerRequest' /\ Transits'
  BY <1>2, <1>6 DEF OneCallPerRequest, Transits
<1>8. Exited'
  BY <1>1, <1>2, <1>3 DEF Exited
<1> QED BY <1>1, <1>5, <1>6, <1>7, <1>8 DEF HostInv

LEMMA HostStarts == HostInit => HostInv
<1> SUFFICES ASSUME HostInit PROVE HostInv
  OBVIOUS
<1>1. HostTypeOK
  <2>1. \A S : <<>> \in Seq(S)
    OBVIOUS
  <2>2. 0 \in 0..0
    OBVIOUS
  <2> QED BY <2>1, <2>2 DEF HostInit, HostTypeOK
<1>2. Channels /\ OneCallPerRequest /\ Transits /\ Exited
  BY DEF HostInit, Channels, OneCallPerRequest, Transits, Exited
<1>3. ASSUME NEW id \in Ids PROVE Listed(id) /\ Backed(id)
  <2>1. ReturnedOf(id) = {} /\ ConfirmedOf(id) = {}
    BY DEF HostInit, ReturnedOf, ConfirmedOf, Confirmed, Calls
  <2>2. HandledOf(id) = {}
    BY DEF HostInit, HandledOf, Handled, Calls
  <2>3. extensions = <<>> /\ registered = <<>> /\ Count(<<>>, id) = 0
    <3>1. extensions = <<>> /\ registered = <<>> /\ registered \in Seq(Ids)
      BY <1>1 DEF HostInit, HostTypeOK
    <3> QED BY <3>1, CountIs
  <2> QED BY <2>1, <2>2, <2>3, FS_EmptySet DEF Listed, Backed
<1> QED BY <1>1, <1>2, <1>3 DEF HostInv

LEMMA HostStep == HostInv /\ [HostNext]_extensionVars => HostInv'
<1> SUFFICES ASSUME HostInv, [HostNext]_extensionVars PROVE HostInv'
  OBVIOUS
<1>1. CASE UNCHANGED extensionVars
  <2>1. UNCHANGED <<ready, connected, dead, spawned, terminating, seq, reqOf, st, extensions, checksMeta, child, registered, toChild, toHost>>
    BY <1>1 DEF extensionVars, hostVars, chanVars
  <2>2. terminating \in BOOLEAN /\ connected \in BOOLEAN
    BY DEF HostInv, HostTypeOK
  <2> QED BY <2>1, <2>2, Quiet
<1>2. ASSUME NEW c \in Calls, Begin(c) \/ ReadyFailed(c) PROVE HostInv'
  <2>1. PICK where \in {"awaits-ready", "rejected", "returned"} :
           /\ st' = [st EXCEPT ![c] = where] /\ (where = "returned" => c \in Checks)
           /\ st[c] \in {"idle", "awaits-ready"}
           /\ UNCHANGED <<ready, connected, dead, spawned, terminating, seq, reqOf, extensions, checksMeta, chanVars>>
    BY <1>2 DEF Begin, ReadyFailed
  <2>2. where = "returned" => c \notin Loads
    BY <2>1, CallsAssumption
  <2> QED BY <2>1, <2>2, Aside
<1>3. ASSUME NEW c \in Calls, AfterReady(c) PROVE HostInv'
  <2>1. /\ st[c] = "awaits-ready"
        /\ UNCHANGED <<ready, connected, dead, spawned, terminating, extensions, checksMeta, child, registered, toHost>>
    BY <1>3 DEF AfterReady
  <2>2. CASE st' = [st EXCEPT ![c] = "duplicate"] /\ UNCHANGED <<seq, reqOf, toChild>>
    BY <2>1, <2>2, Aside DEF chanVars
  <2>3. CASE Call(c)
    <3>1. CASE dead \/ ~connected
      <4>1. seq' = seq + 1 /\ st' = [st EXCEPT ![c] = "rejected"] /\ UNCHANGED <<reqOf, toChild>>
        BY <2>3, <3>1 DEF Call
      <4> QED BY <2>1, <4>1, Aside DEF chanVars
    <3>2. CASE ~(dead \/ ~connected)
      <4>1. dead = FALSE
        BY <3>2 DEF HostInv, HostTypeOK
      <4>2. /\ seq' = seq + 1 /\ st' = [st EXCEPT ![c] = "pending"] /\ reqOf' = [reqOf EXCEPT ![c] = seq + 1]
            /\ toChild' = IF child = "gone" THEN toChild ELSE Append(toChild, [type |-> "call", call |-> c, reqId |-> seq + 1])
        BY <2>3, <3>2 DEF Call
      <4> QED BY <2>1, <4>1, <4>2, Asked
    <3> QED BY <3>1, <3>2
  <2> QED BY <1>3, <2>2, <2>3 DEF AfterReady
<1>4. ASSUME NEW c \in Calls, Timeout(c) PROVE HostInv'
  BY <1>4, TimedOut
<1>5. CASE OnMessage
  BY <1>5, OnMessageStep
<1>6. CASE OnExit
  BY <1>6, OnExitStep
<1>7. CASE OnError \/ Kill \/ ChildExits
  <2>1. /\ child # "gone" /\ child' = "gone" /\ toChild' = <<>>
        /\ ready' \in {"failed", ready} /\ connected' \in {FALSE, connected} /\ spawned' \in {FALSE, spawned}
        /\ UNCHANGED <<dead, terminating, seq, reqOf, st, extensions, checksMeta, registered, toHost>>
    BY <1>7 DEF OnError, Kill, ChildExits, hostVars
  <2> QED BY <2>1, Gone
<1>8. CASE OnDisconnect \/ Terminate \/ Boot
  <2>1. /\ connected' \in {FALSE, connected} /\ terminating' \in {TRUE, terminating}
        /\ child # "gone" \/ child' = child
        /\ child' \in {"up", child}
        /\ toChild' = toChild \/ (child # "gone" /\ toChild' = Append(toChild, [type |-> "shutdown"]))
        /\ toHost' = toHost \/ toHost' = Append(toHost, [type |-> "ready"])
        /\ UNCHANGED <<ready, dead, spawned, seq, reqOf, st, extensions, checksMeta, registered>>
    BY <1>8 DEF OnDisconnect, Terminate, Boot, hostVars, chanVars
  <2>2. connected' \in BOOLEAN
    BY <2>1 DEF HostInv, HostTypeOK
  <2> QED BY <2>1, <2>2, Quiet
<1>9. CASE ChildHandles
  BY <1>9, ChildHandlesStep
<1>10. CASE ChildHangs
  BY <1>10, ChildHangsStep
<1> QED BY <1>1, <1>2, <1>3, <1>4, <1>5, <1>6, <1>7, <1>8, <1>9, <1>10 DEF HostNext

\* The inductive invariant of the extension host.
THEOREM HostInductive == HostSpec => []HostInv
<1>1. HostInit => HostInv
  BY HostStarts
<1>2. HostInv /\ [HostNext]_extensionVars => HostInv'
  BY HostStep
<1> QED BY <1>1, <1>2, PTL DEF HostSpec

LEMMA HostInvMatches == HostInv => HostMatchesChild
<1> SUFFICES ASSUME HostInv PROVE HostMatchesChild
  OBVIOUS
<1>1. dead \in BOOLEAN /\ terminating \in BOOLEAN /\ extensions \in Seq(Ids) /\ registered \in Seq(Ids)
  BY DEF HostInv, HostTypeOK
<1>2. DeadAdvertisesNothing
  BY <1>1 DEF HostInv, Exited, DeadAdvertisesNothing
<1>3. ASSUME dead = FALSE, NEW id \in Ids
      PROVE  /\ Count(extensions, id) \in Nat /\ Count(registered, id) \in Nat
             /\ IsFiniteSet(ReturnedOf(id)) /\ Count(extensions, id) = Cardinality(ReturnedOf(id))
             /\ Backed(id)
  BY <1>1, <1>3, CountIs DEF HostInv, Listed
<1>4. ListedIsRegistered
  <2>1. ASSUME dead = FALSE, NEW id \in Ids PROVE Count(extensions, id) <= Count(registered, id)
    <3>1. ReturnedOf(id) \subseteq ConfirmedOf(id)
      BY DEF ReturnedOf, ConfirmedOf, Confirmed
    <3>2. IsFiniteSet(ConfirmedOf(id)) /\ Cardinality(ConfirmedOf(id)) <= Count(registered, id)
      BY <1>3, <2>1 DEF Backed
    <3>3. Cardinality(ReturnedOf(id)) <= Cardinality(ConfirmedOf(id)) /\ Cardinality(ConfirmedOf(id)) \in Nat
      BY <3>1, <3>2, FS_Subset, FS_CardinalityType
    <3>4. Count(extensions, id) = Cardinality(ReturnedOf(id)) /\ Count(extensions, id) \in Nat /\ Count(registered, id) \in Nat
      BY <1>3, <2>1
    <3> QED BY <3>2, <3>3, <3>4
  <2> QED BY <1>1, <2>1 DEF ListedIsRegistered
<1>5. UnlistedIsExplained
  <2>1. ASSUME child # "gone", NEW id \in Ids, Count(registered, id) > Count(extensions, id),
               ~ \E l \in Loads : IdOf[l] = id /\ st[l] \in {"pending", "timed-out"}
        PROVE  FALSE
    <3>1. dead = FALSE
      <4>1. ~(dead = TRUE)
        BY <2>1 DEF HostInv, Exited
      <4> QED BY <1>1, <4>1
    <3>2. HandledOf(id) \subseteq ReturnedOf(id)
      BY <2>1 DEF HandledOf, ReturnedOf, Handled
    <3>3. IsFiniteSet(HandledOf(id)) /\ Count(registered, id) <= Cardinality(HandledOf(id))
      BY <1>3, <2>1, <3>1 DEF Backed
    <3>4. IsFiniteSet(ReturnedOf(id)) /\ Count(extensions, id) = Cardinality(ReturnedOf(id))
      BY <1>3, <3>1
    <3>5. Cardinality(HandledOf(id)) <= Cardinality(ReturnedOf(id)) /\ Cardinality(HandledOf(id)) \in Nat /\ Cardinality(ReturnedOf(id)) \in Nat
      BY <3>2, <3>3, <3>4, FS_Subset, FS_CardinalityType
    <3>6. Count(extensions, id) \in Nat /\ Count(registered, id) \in Nat
      BY <1>3, <3>1
    <3> QED BY <2>1, <3>3, <3>4, <3>5, <3>6
  <2> QED BY <2>1 DEF UnlistedIsExplained
<1> QED BY <1>2, <1>4, <1>5 DEF HostInv, HostMatchesChild

\* The answer to a request finds its caller, a dead child offers nothing, and what the
\* host lists is what the child registered but for loads under way or timed out,
\* whatever the number of loads and whoever dies when.
THEOREM HostAlwaysMatchesChild == HostSpec => []HostMatchesChild
<1>1. HostSpec => []HostInv
  BY HostInductive
<1> QED BY <1>1, HostInvMatches, PTL
=============================================================================

----------------------------- MODULE ProxyProofs -----------------------------
(***************************************************************************)
(* Proofs about ProxyFlow for any set of requests: the history and the     *)
(* client's view of each request agree with what went to its origin,       *)
(* wherever the operator's switches, the stops and the failures come; and  *)
(* about WebSocketTunnel for any two streams: what is stored of them is    *)
(* what was sent, however it is cut into chunks.                           *)
(***************************************************************************)
EXTENDS ProxyFlow, WebSocketTunnel, SequenceTheorems, FiniteSetTheorems, TLAPS

\* Where the upstream request was not opened yet.
Unopened == {"new", "drain", "held", "fold", "rebuild"}

\* Where the reply was read to its end.
Complete == {"rheld", "rfold", "rrebuild", "rcommit"}

\* What the position of a handler says of its upstream request.
Upstream(r) ==
  /\ at[r] \in Unopened => origin[r] = "none" /\ ears[r] = "none"
  /\ at[r] = "tee" => ears[r] = "none"
  /\ at[r] \in {"flush", "commit"} => ears[r] = "stale"
  /\ at[r] = "await" => ears[r] = "full"
  /\ at[r] \in {"rdrain", "rtee"} => ears[r] = "full" /\ origin[r] = "replied"
  /\ at[r] \in Complete => ears[r] = "full" /\ origin[r] = "ended"

\* Nothing comes in for a handler that has ended: its listeners are off, or its
\* upstream request is over.
Over(r) == at[r] = "end" /\ ears[r] = "full" => origin[r] \notin {"open", "sent", "replied"}

\* No row, or one.
AtMostOne == {<< >>} \cup {<< x >> : x \in Outcomes}

\* A handler emits when it ends, and only then; what it emits for a drop says that
\* nothing was opened.
Emitted(r) ==
  /\ at[r] # "end" => rows[r] = << >>
  /\ rows[r] \in AtMostOne
  /\ rows[r] = << "dropped" >> => origin[r] = "none"

\* The client is there once the handler has begun, and a full answer is of a reply
\* read in full.
Served(r) ==
  /\ at[r] = "new" => client[r] = "none"
  /\ client[r] = "answered" => origin[r] = "ended"

\* A held message is held by a switch that is on.
Waits(r) ==
  /\ at[r] = "held" => intercept.requests
  /\ at[r] = "rheld" => intercept.responses

Flow(r) == Upstream(r) /\ Over(r) /\ Emitted(r) /\ Served(r) /\ Waits(r)

\* The inductive invariant.
FlowInv == TypeOK /\ \A r \in Reqs : Flow(r)

\* What a step may not take back of a request.
Final(r) ==
  /\ client[r] \in {"answered", "refused", "cut"} => client'[r] = client[r]
  /\ at[r] = "end" => at'[r] = "end" /\ rows'[r] = rows[r]

----------------------------------------------------------------------------
(* The rows of one request                                                 *)

\* The row of a handler that ends is the only one.
LEMMA OneRow ==
  ASSUME NEW x \in Outcomes
  PROVE  /\ << >> \o << x >> = << x >>
         /\ Append(<< >>, x) = << x >>
         /\ << x >> \in Seq(Outcomes)
         /\ << x >> \in AtMostOne
BY DEF AtMostOne

\* A handler that ends without a row leaves none.
LEMMA NoRow ==
  /\ << >> \o << >> = << >>
  /\ << >> \in Seq(Outcomes)
  /\ << >> \in AtMostOne
BY DEF AtMostOne

\* What the history shows of a request that has one row at most.
LEMMA RowsRead ==
  ASSUME NEW r \in Reqs, rows[r] \in AtMostOne
  PROVE  /\ Len(rows[r]) <= 1
         /\ Recorded(r, "dropped") => rows[r] = << "dropped" >>
<1>1. CASE rows[r] = << >>
  BY <1>1 DEF Recorded
<1>2. ASSUME NEW x \in Outcomes, rows[r] = << x >>
      PROVE  /\ Len(rows[r]) <= 1
             /\ Recorded(r, "dropped") => rows[r] = << "dropped" >>
  <2>1. Len(rows[r]) = 1 /\ rows[r][1] = x /\ DOMAIN rows[r] = {1}
    BY <1>2
  <2> QED BY <1>2, <2>1 DEF Recorded
<1> QED BY <1>1, <1>2 DEF AtMostOne

\* The initial state satisfies the invariant.
LEMMA FlowStarts == Init => FlowInv
<1> SUFFICES ASSUME Init PROVE FlowInv
  OBVIOUS
<1>1. TypeOK
  BY NoRow DEF Init, TypeOK, Positions, Storing, Clients, Origins, Ears
<1>2. ASSUME NEW r \in Reqs PROVE Flow(r)
  BY NoRow DEF Init, Flow, Upstream, Over, Emitted, Served, Waits, Unopened, Complete
<1> QED BY <1>1, <1>2 DEF FlowInv

----------------------------------------------------------------------------
(* One step of one request                                                 *)

\* What a step leaves alone stays as the invariant wants it.
LEMMA Untouched ==
  ASSUME NEW q \in Reqs, Flow(q), intercept' = intercept,
         at'[q] = at[q], client'[q] = client[q], origin'[q] = origin[q],
         ears'[q] = ears[q], rows'[q] = rows[q]
  PROVE  Flow(q)' /\ Final(q)
BY DEF Flow, Upstream, Over, Emitted, Served, Waits, Final

\* A step of request r: the variables of the others stay, those of r are again
\* as the invariant wants them.
Moves(r) ==
  /\ TypeOK'
  /\ intercept' = intercept
  /\ \A q \in Reqs \ {r} : /\ at'[q] = at[q] /\ client'[q] = client[q] /\ origin'[q] = origin[q]
                           /\ ears'[q] = ears[q] /\ rows'[q] = rows[q]
  /\ Flow(r)' /\ Final(r)

LEMMA OneMoves ==
  ASSUME FlowInv, NEW r \in Reqs, Moves(r)
  PROVE  FlowInv' /\ \A q \in Reqs : Final(q)
BY Untouched DEF FlowInv, Moves

\* What a handler leaves that ends with the row x, or with none.
Leaves(r, emitted, outcome) ==
  /\ at' \in [Reqs -> Positions] /\ rows' \in [Reqs -> Seq(Outcomes)] /\ client' \in [Reqs -> Clients]
  /\ \A q \in Reqs \ {r} : at'[q] = at[q] /\ client'[q] = client[q] /\ rows'[q] = rows[q]
  /\ at'[r] = "end" /\ rows'[r] = emitted /\ rows'[r] \in AtMostOne
  /\ client'[r] = IF client[r] = "open" THEN outcome ELSE client[r]

LEMMA Ends ==
  ASSUME FlowInv, NEW r \in Reqs, at[r] # "end",
         NEW emitted \in AtMostOne, NEW outcome \in Clients, End(r, emitted, outcome)
  PROVE  Leaves(r, emitted, outcome)
<1>1. rows[r] = << >>
  BY DEF FlowInv, Flow, Emitted
<1>2. emitted \in Seq(Outcomes) /\ << >> \o emitted = emitted
  BY OneRow, NoRow DEF AtMostOne
<1>3. rows' = [rows EXCEPT ![r] = emitted]
  BY <1>1, <1>2 DEF End, FlowInv, TypeOK
<1>4. rows' \in [Reqs -> Seq(Outcomes)]
  BY <1>2, <1>3 DEF FlowInv, TypeOK
<1> QED BY <1>3, <1>4 DEF Leaves, End, Reached, FlowInv, TypeOK, Positions, Clients

\* The rows a handler may emit.
LEMMA Emits ==
  /\ << >> \in AtMostOne /\ << >> # << "dropped" >>
  /\ \A x \in Outcomes : << x >> \in AtMostOne /\ (<< x >> = << "dropped" >> => x = "dropped")
BY DEF AtMostOne

\* An end keeps the invariant when nothing more is listened for and the outcome
\* and the row agree with what became of the upstream request.
LEMMA EndsWell ==
  ASSUME FlowInv, NEW r \in Reqs, at[r] # "end",
         NEW emitted \in AtMostOne, NEW outcome \in Clients, Leaves(r, emitted, outcome),
         emitted = << "dropped" >> => origin'[r] = "none",
         outcome = "answered" \/ client[r] = "answered" => origin'[r] = "ended",
         ears'[r] = "full" => origin'[r] \notin {"open", "sent", "replied"}
  PROVE  Flow(r)' /\ Final(r)
BY DEF Leaves, Flow, Upstream, Over, Emitted, Served, Waits, Final, Unopened, Complete

LEMMA ArriveStep == ASSUME FlowInv, NEW r \in Reqs, Arrive(r) PROVE Moves(r)
<1> USE DEF FlowInv
<1>1. TypeOK'
  BY DEF Arrive, Suspend, TypeOK, Positions, Storing, Clients, Origins, Ears
<1>2. \A q \in Reqs \ {r} : /\ at'[q] = at[q] /\ client'[q] = client[q] /\ origin'[q] = origin[q]
                             /\ ears'[q] = ears[q] /\ rows'[q] = rows[q]
  BY DEF Arrive, Suspend, TypeOK
<1>3. Flow(r)' /\ Final(r)
  BY Emits DEF Arrive, Suspend, TypeOK, Flow, Upstream, Over, Emitted, Served, Waits, Final,
     Unopened, Complete, Storing
<1> QED BY <1>1, <1>2, <1>3 DEF Moves, Arrive, Suspend

LEMMA ClientLeavesStep == ASSUME FlowInv, NEW r \in Reqs, ClientLeaves(r) PROVE Moves(r)
<1> USE DEF FlowInv
<1>1. TypeOK'
  BY DEF ClientLeaves, TypeOK, Positions, Storing, Clients, Origins, Ears
<1>2. \A q \in Reqs \ {r} : /\ at'[q] = at[q] /\ client'[q] = client[q] /\ origin'[q] = origin[q]
                             /\ ears'[q] = ears[q] /\ rows'[q] = rows[q]
  BY DEF ClientLeaves, TypeOK
<1>3. Flow(r)' /\ Final(r)
  BY DEF ClientLeaves, TypeOK, Flow, Upstream, Over, Emitted, Served, Waits, Final,
     Unopened, Complete, Storing
<1> QED BY <1>1, <1>2, <1>3 DEF Moves, ClientLeaves

LEMMA BodyTeedStep == ASSUME FlowInv, NEW r \in Reqs, BodyTeed(r) PROVE Moves(r)
<1> USE DEF FlowInv
<1>1. TypeOK'
  BY DEF BodyTeed, Suspend, TypeOK, Positions, Storing, Clients, Origins, Ears
<1>2. \A q \in Reqs \ {r} : /\ at'[q] = at[q] /\ client'[q] = client[q] /\ origin'[q] = origin[q]
                             /\ ears'[q] = ears[q] /\ rows'[q] = rows[q]
  BY DEF BodyTeed, Suspend, TypeOK
<1>3. Flow(r)' /\ Final(r)
  BY DEF BodyTeed, Suspend, TypeOK, Flow, Upstream, Over, Emitted, Served, Waits, Final,
     Unopened, Complete, Storing
<1> QED BY <1>1, <1>2, <1>3 DEF Moves, BodyTeed, Suspend

LEMMA FlushedStep == ASSUME FlowInv, NEW r \in Reqs, Flushed(r) PROVE Moves(r)
<1> USE DEF FlowInv
<1>1. TypeOK'
  BY DEF Flushed, Suspend, Listen, TypeOK, Positions, Storing, Clients, Origins, Ears
<1>2. \A q \in Reqs \ {r} : /\ at'[q] = at[q] /\ client'[q] = client[q] /\ origin'[q] = origin[q]
                             /\ ears'[q] = ears[q] /\ rows'[q] = rows[q]
  BY DEF Flushed, Suspend, Listen, TypeOK
<1>3. Flow(r)' /\ Final(r)
  BY DEF Flushed, Suspend, Listen, TypeOK, Flow, Upstream, Over, Emitted, Served, Waits, Final,
     Unopened, Complete, Storing
<1> QED BY <1>1, <1>2, <1>3 DEF Moves, Flushed, Suspend, Listen

LEMMA OriginRepliesStep == ASSUME FlowInv, NEW r \in Reqs, OriginReplies(r) PROVE Moves(r)
<1> USE DEF FlowInv
<1>1. TypeOK'
  BY DEF OriginReplies, Suspend, TypeOK, Positions, Storing, Clients, Origins, Ears
<1>2. \A q \in Reqs \ {r} : /\ at'[q] = at[q] /\ client'[q] = client[q] /\ origin'[q] = origin[q]
                             /\ ears'[q] = ears[q] /\ rows'[q] = rows[q]
  BY DEF OriginReplies, Suspend, TypeOK
<1>3. Flow(r)' /\ Final(r)
  BY ZenonT(60) DEF OriginReplies, Suspend, TypeOK, Flow, Upstream, Over, Emitted, Served, Waits, Final,
     Unopened, Complete, Storing
<1> QED BY <1>1, <1>2, <1>3 DEF Moves, OriginReplies, Suspend

LEMMA BodyBreaksStep == ASSUME FlowInv, NEW r \in Reqs, BodyBreaks(r) PROVE Moves(r)
<1>1. Leaves(r, << "error" >>, "refused")
  BY Ends, Emits DEF BodyBreaks, Caught, Outcomes, Clients
<1>2. Flow(r)' /\ Final(r)
  BY <1>1, EndsWell, Emits DEF BodyBreaks, Clients, Outcomes, FlowInv, Flow, Upstream, Served, Unopened
<1> QED BY <1>1, <1>2 DEF BodyBreaks, Leaves, Moves, FlowInv, TypeOK

LEMMA PumpBreaksStep == ASSUME FlowInv, NEW r \in Reqs, PumpBreaks(r) PROVE Moves(r)
<1>1. PICK outcome \in {"cut", "refused"} : Leaves(r, << >>, outcome)
  BY Ends, Emits DEF PumpBreaks, PumpCaught, Clients
<1>2. at[r] # "end" /\ origin'[r] = "failed" /\ client[r] # "answered"
  BY DEF PumpBreaks, FlowInv, TypeOK, Flow, Upstream, Served
<1>3. Flow(r)' /\ Final(r)
  BY <1>1, <1>2, EndsWell, Emits DEF Clients
<1> QED BY <1>1, <1>3 DEF PumpBreaks, Leaves, Moves, FlowInv, TypeOK, Origins

LEMMA OriginErrorsStep == ASSUME FlowInv, NEW r \in Reqs, OriginErrors(r) PROVE Moves(r)
<1>1. /\ origin' \in [Reqs -> Origins] /\ ears' = ears /\ crashed' \in BOOLEAN
      /\ intercept' = intercept /\ up' = up
      /\ origin'[r] = IF ears[r] = "full" \/ at[r] = "flush" THEN "failed" ELSE "lost"
      /\ \A q \in Reqs \ {r} : origin'[q] = origin[q]
  BY DEF OriginErrors, FlowInv, TypeOK, Origins
<1>2. client[r] # "answered"
  BY DEF OriginErrors, FlowInv, Flow, Served
<1>3. ASSUME ears[r] = "full" \/ at[r] = "flush",
             NEW outcome \in {"cut", "refused"}, End(r, << "error" >>, outcome)
      PROVE  Moves(r)
  <2>1. at[r] # "end"
    BY <1>3 DEF OriginErrors, FlowInv, Flow, Over
  <2>2. Leaves(r, << "error" >>, outcome)
    BY <1>3, <2>1, Ends, Emits DEF Outcomes, Clients
  <2>3. Flow(r)' /\ Final(r)
    BY <1>1, <1>2, <1>3, <2>1, <2>2, EndsWell, Emits DEF Clients, Outcomes
  <2> QED BY <1>1, <2>2, <2>3 DEF Leaves, Moves, FlowInv, TypeOK
<1>4. CASE ears[r] # "full" /\ at[r] # "flush" /\ UNCHANGED <<at, client, rows>>
  <2>1. at[r] \notin Unopened \cup Complete \cup {"await", "rdrain", "rtee"}
    BY <1>4 DEF OriginErrors, FlowInv, Flow, Upstream
  <2>2. rows[r] # << "dropped" >>
    BY DEF OriginErrors, FlowInv, Flow, Emitted
  <2>3. Flow(r)' /\ Final(r)
    BY <1>1, <1>2, <1>4, <2>1, <2>2 DEF FlowInv, Flow, Upstream, Over, Emitted, Served, Waits, Final,
       Unopened, Complete
  <2> QED BY <1>1, <1>4, <2>3 DEF Moves, FlowInv, TypeOK
<1> QED BY <1>3, <1>4 DEF OriginErrors, Caught

\* A reply read in full goes on its way, is held, or is delivered.
LEMMA OfferedReply ==
  ASSUME FlowInv, NEW r \in Reqs, OfferReply(r) \/ End(r, << "too-large" >>, "cut"),
         at[r] \in {"rdrain", "rfold"},
         ears' = ears, intercept' = intercept, origin' \in [Reqs -> Origins],
         origin'[r] = "ended", \A q \in Reqs \ {r} : origin'[q] = origin[q],
         up' = up, crashed' = crashed
  PROVE  Moves(r)
<1>1. ASSUME NEW x \in {"answer", "too-large"}, NEW outcome \in {"answered", "cut"},
             End(r, << x >>, outcome)
      PROVE  Moves(r)
  <2>1. Leaves(r, << x >>, outcome)
    BY <1>1, Ends, Emits DEF Outcomes, Clients
  <2>2. Flow(r)' /\ Final(r)
    BY <1>1, <2>1, EndsWell, Emits DEF Clients, Outcomes
  <2> QED BY <2>1, <2>2 DEF Leaves, Moves, FlowInv, TypeOK
<1>2. CASE \E where \in {"rheld", "rrebuild"} :
             /\ Suspend(r, where) /\ UNCHANGED <<client, rows>>
             /\ where = "rheld" => intercept.responses
  BY <1>2, SMTT(30) DEF Suspend, Moves, FlowInv, TypeOK, Positions, Storing, Flow, Upstream, Over, Emitted, Served,
     Waits, Final, Unopened, Complete
<1> QED BY <1>1, <1>2 DEF OfferReply

LEMMA ReplyReadStep == ASSUME FlowInv, NEW r \in Reqs, ReplyRead(r) PROVE Moves(r)
<1>1. CASE OfferReply(r)
  BY <1>1, OfferedReply DEF ReplyRead, FlowInv, TypeOK, Origins
<1>2. CASE Suspend(r, "rfold") /\ UNCHANGED <<client, rows>>
  BY <1>2, Emits DEF ReplyRead, Suspend, Moves, FlowInv, TypeOK, Positions, Storing, Origins, Flow, Upstream, Over,
     Emitted, Served, Waits, Final, Unopened, Complete
<1> QED BY <1>1, <1>2 DEF ReplyRead

LEMMA ReplyTeedStep == ASSUME FlowInv, NEW r \in Reqs, ReplyTeed(r) PROVE Moves(r)
<1>1. CASE End(r, << "answer" >>, "answered")
  <2>1. Leaves(r, << "answer" >>, "answered")
    BY <1>1, Ends, Emits DEF ReplyTeed, Outcomes, Clients
  <2>2. Flow(r)' /\ Final(r)
    BY <1>1, <2>1, EndsWell, Emits DEF ReplyTeed, Clients, Outcomes, FlowInv, TypeOK
  <2> QED BY <2>1, <2>2 DEF ReplyTeed, Leaves, Moves, FlowInv, TypeOK, Origins
<1>2. CASE Suspend(r, "rcommit") /\ client' = [client EXCEPT ![r] = "answered"] /\ UNCHANGED rows
  BY <1>2, Emits DEF ReplyTeed, Suspend, Moves, FlowInv, TypeOK, Positions, Storing, Origins, Clients, Flow, Upstream,
     Over, Emitted, Served, Waits, Final, Unopened, Complete
<1> QED BY <1>1, <1>2 DEF ReplyTeed

LEMMA ReplyStoredStep == ASSUME FlowInv, NEW r \in Reqs, ReplyStored(r) PROVE Moves(r)
<1>1. at[r] \in {"rfold", "rrebuild", "rcommit"} /\ origin[r] = "ended"
  BY DEF ReplyStored, FlowInv, Flow, Upstream, Complete
<1>2. CASE at[r] = "rfold"
  BY <1>1, <1>2, OfferedReply DEF ReplyStored, FlowInv, TypeOK
<1>3. CASE End(r, << "answer" >>, "answered")
  <2>1. Leaves(r, << "answer" >>, "answered")
    BY <1>1, <1>3, Ends, Emits DEF Outcomes, Clients
  <2>2. Flow(r)' /\ Final(r)
    BY <1>1, <2>1, EndsWell, Emits DEF ReplyStored, Clients, Outcomes
  <2> QED BY <2>1, <2>2 DEF ReplyStored, Leaves, Moves, FlowInv, TypeOK
<1> QED BY <1>1, <1>2, <1>3 DEF ReplyStored

LEMMA StorageFailsStep == ASSUME FlowInv, NEW r \in Reqs, StorageFails(r) PROVE Moves(r)
<1>1. PICK emitted \in {<< "error" >>, << >>}, outcome \in {"cut", "refused"} : Leaves(r, emitted, outcome)
  BY Ends, Emits DEF StorageFails, Caught, PumpCaught, Outcomes, Clients, Storing
<1>2. at[r] \in Unopened \cup Complete \cup {"commit"}
  BY DEF StorageFails, Storing, Unopened, Complete
<1>3. Flow(r)' /\ Final(r)
  BY <1>1, <1>2, EndsWell, Emits DEF StorageFails, Storing, Clients, Outcomes, FlowInv, Flow, Upstream, Served
<1> QED BY <1>1, <1>3 DEF StorageFails, Leaves, Moves, FlowInv, TypeOK

----------------------------------------------------------------------------
(* Steps of the operator, which resolve many holds at once                 *)

\* Whatever is dropped or let through, the other variables staying, each message
\* ends as it may.
LEMMA ResolveOne ==
  ASSUME FlowInv, NEW q \in Reqs,
         NEW drop \in SUBSET HeldRequests, NEW fwd \in SUBSET Reqs,
         NEW dropR \in SUBSET HeldResponses, NEW fwdR \in SUBSET HeldResponses,
         \A r \in fwd : at[r] \in {"held", "drain", "fold"},
         drop \cap fwd = {}, dropR \cap fwdR = {},
         Resolve(drop, fwd, dropR, fwdR),
         q \notin drop \cup fwd => (at[q] = "held" => intercept'.requests),
         q \notin dropR \cup fwdR => (at[q] = "rheld" => intercept'.responses)
  PROVE  /\ at'[q] \in Positions /\ client'[q] \in Clients /\ origin'[q] \in Origins
         /\ ears'[q] \in Ears /\ rows'[q] \in Seq(Outcomes)
         /\ Flow(q)' /\ Final(q)
<1>1. PICK spilled \in SUBSET (fwd \cup fwdR) : Resolve(drop, fwd, dropR, fwdR)!(spilled)
  BY DEF Resolve
<1> DEFINE opened == fwd \ spilled
           done   == fwdR \ spilled
<1>t. /\ at[q] \in Positions /\ client[q] \in Clients /\ origin[q] \in Origins
      /\ ears[q] \in Ears /\ rows[q] \in Seq(Outcomes) /\ Flow(q)
  BY DEF FlowInv, TypeOK
<1>2. CASE q \in drop
  <2>1. at[q] = "held" /\ q \notin dropR \cup fwdR \cup fwd
    BY <1>2 DEF HeldRequests, HeldResponses
  <2>2. /\ at'[q] = "end" /\ origin'[q] = origin[q] /\ ears'[q] = ears[q]
        /\ client'[q] = Reached(q, "cut") /\ rows'[q] = Append(rows[q], "dropped")
    BY <1>1, <1>2, <2>1
  <2>3. rows[q] = << >> /\ rows'[q] = << "dropped" >> /\ rows'[q] \in Seq(Outcomes) /\ rows'[q] \in AtMostOne
    BY <1>t, <2>1, <2>2, OneRow DEF Flow, Emitted, Outcomes
  <2> QED BY <1>t, <2>1, <2>2, <2>3 DEF Reached, Positions, Clients, Flow, Upstream, Over, Emitted, Served, Waits,
          Final, Unopened, Complete
<1>3. CASE q \in dropR
  <2>1. at[q] = "rheld" /\ q \notin drop \cup fwdR \cup fwd
    BY <1>3 DEF HeldRequests, HeldResponses
  <2>2. /\ at'[q] = "end" /\ origin'[q] = origin[q] /\ ears'[q] = ears[q]
        /\ client'[q] = Reached(q, "cut") /\ rows'[q] = Append(rows[q], "reply-dropped")
    BY <1>1, <1>3, <2>1
  <2>3. rows[q] = << >> /\ rows'[q] = << "reply-dropped" >> /\ rows'[q] \in Seq(Outcomes) /\ rows'[q] \in AtMostOne
    BY <1>t, <2>1, <2>2, OneRow DEF Flow, Emitted, Outcomes
  <2>4. rows'[q] # << "dropped" >>
    BY <2>3, Emits DEF Outcomes
  <2> QED BY <1>t, <2>1, <2>2, <2>3, <2>4 DEF Reached, Positions, Clients, Flow, Upstream, Over, Emitted, Served, Waits,
          Final, Unopened, Complete
<1>4. CASE q \in done
  <2>1. at[q] = "rheld" /\ q \notin drop \cup dropR \cup fwd
    BY <1>4 DEF HeldRequests, HeldResponses
  <2>2. /\ at'[q] = "end" /\ origin'[q] = origin[q] /\ ears'[q] = ears[q]
        /\ client'[q] = Reached(q, "answered") /\ rows'[q] = Append(rows[q], "answer")
    BY <1>1, <1>4, <2>1
  <2>3. rows[q] = << >> /\ rows'[q] = << "answer" >> /\ rows'[q] \in Seq(Outcomes) /\ rows'[q] \in AtMostOne
    BY <1>t, <2>1, <2>2, OneRow DEF Flow, Emitted, Outcomes
  <2>4. rows'[q] # << "dropped" >>
    BY <2>3, Emits DEF Outcomes
  <2> QED BY <1>t, <2>1, <2>2, <2>3, <2>4 DEF Reached, Positions, Clients, Flow, Upstream, Over, Emitted, Served, Waits,
          Final, Unopened, Complete
<1>5. CASE q \in fwdR \ done
  <2>1. at[q] = "rheld" /\ q \notin drop \cup dropR \cup fwd
    BY <1>5 DEF HeldRequests, HeldResponses
  <2>2. /\ at'[q] = "rrebuild" /\ origin'[q] = origin[q] /\ ears'[q] = ears[q]
        /\ client'[q] = client[q] /\ rows'[q] = rows[q]
    BY <1>1, <1>5, <2>1
  <2> QED BY <1>t, <2>1, <2>2 DEF Positions, Storing, Flow, Upstream, Over, Emitted, Served, Waits,
          Final, Unopened, Complete
<1>6. CASE q \in fwd
  <2>1. at[q] \in {"held", "drain", "fold"} /\ q \notin drop \cup dropR \cup fwdR
    BY <1>6 DEF HeldRequests, HeldResponses
  <2>2. client'[q] = client[q] /\ rows'[q] = rows[q]
    BY <1>1, <1>6, <2>1
  <2>3. /\ at'[q] = IF q \in opened THEN "await" ELSE "rebuild"
        /\ origin'[q] = IF q \in opened THEN "sent" ELSE origin[q]
        /\ ears'[q] = IF q \in opened THEN "full" ELSE ears[q]
    BY <1>1, <1>6, <2>1
  <2>4. client[q] # "answered" /\ rows[q] # << "dropped" >>
    BY <1>t, <2>1, Emits DEF Flow, Upstream, Served, Emitted, Unopened
  <2> QED BY <1>t, <2>1, <2>2, <2>3, <2>4 DEF Positions, Storing, Origins, Ears, Flow, Upstream, Over, Emitted,
          Served, Waits, Final, Unopened, Complete
<1>7. CASE q \notin drop \cup fwd \cup dropR \cup fwdR
  <2>1. /\ at'[q] = at[q] /\ client'[q] = client[q] /\ origin'[q] = origin[q]
        /\ ears'[q] = ears[q] /\ rows'[q] = rows[q]
    BY <1>1, <1>7
  <2> QED BY <1>t, <1>7, <2>1 DEF Flow, Upstream, Over, Emitted, Served, Waits, Final
<1> QED BY <1>2, <1>3, <1>4, <1>5, <1>6, <1>7

\* So all of them do.
LEMMA ResolveAll ==
  ASSUME FlowInv,
         NEW drop \in SUBSET HeldRequests, NEW fwd \in SUBSET Reqs,
         NEW dropR \in SUBSET HeldResponses, NEW fwdR \in SUBSET HeldResponses,
         \A r \in fwd : at[r] \in {"held", "drain", "fold"},
         drop \cap fwd = {}, dropR \cap fwdR = {},
         Resolve(drop, fwd, dropR, fwdR),
         \A q \in Reqs \ (drop \cup fwd) : at[q] = "held" => intercept'.requests,
         \A q \in Reqs \ (dropR \cup fwdR) : at[q] = "rheld" => intercept'.responses,
         intercept' \in [requests : BOOLEAN, responses : BOOLEAN], up' = up, crashed' = crashed
  PROVE  FlowInv' /\ \A q \in Reqs : Final(q)
<1>1. \A q \in Reqs : /\ at'[q] \in Positions /\ client'[q] \in Clients /\ origin'[q] \in Origins
                      /\ ears'[q] \in Ears /\ rows'[q] \in Seq(Outcomes)
                      /\ Flow(q)' /\ Final(q)
  BY ResolveOne
<1>2. /\ at' = [q \in Reqs |-> at'[q]] /\ client' = [q \in Reqs |-> client'[q]]
      /\ origin' = [q \in Reqs |-> origin'[q]] /\ ears' = [q \in Reqs |-> ears'[q]]
      /\ rows' = [q \in Reqs |-> rows'[q]]
  BY DEF Resolve
<1>3. TypeOK'
  BY <1>1, <1>2 DEF FlowInv, TypeOK
<1> QED BY <1>1, <1>3 DEF FlowInv

\* No message is held in both queues, and what is held in one is held by its switch.
LEMMA HeldAreDistinct ==
  ASSUME FlowInv
  PROVE  /\ \A q \in Reqs : at[q] = "held" => intercept.requests
         /\ \A q \in Reqs : at[q] = "rheld" => intercept.responses
         /\ HeldRequests \subseteq Reqs /\ HeldResponses \subseteq Reqs
BY DEF FlowInv, Flow, Waits, HeldRequests, HeldResponses

\* Nothing meets anything in no set.
LEMMA Nothing == \A S : {} \in SUBSET S /\ {} \cap S = {} /\ S \cap {} = {} /\ {} \cup S = S /\ S \cup {} = S
OBVIOUS

\* Good: the invariant holds again and nothing was taken back.
Good == FlowInv' /\ \A q \in Reqs : Final(q)

LEMMA OfferStep ==
  ASSUME FlowInv, NEW r \in Reqs, at[r] \in {"drain", "fold"}, Offer(r), UNCHANGED <<intercept, up, crashed>>
  PROVE  Good
<1>1. CASE Resolve({}, {r}, {}, {})
  <2>1. {r} \in SUBSET Reqs /\ \A q \in {r} : at[q] \in {"held", "drain", "fold"}
    OBVIOUS
  <2>2. intercept' \in [requests : BOOLEAN, responses : BOOLEAN] /\ UNCHANGED <<intercept, up, crashed>>
    BY DEF FlowInv, TypeOK
  <2> QED BY <1>1, <2>1, <2>2, Nothing, ResolveAll, HeldAreDistinct DEF Good
<1>2. CASE intercept.requests /\ Suspend(r, "held") /\ UNCHANGED <<client, origin, ears, rows>>
  <2>1. Moves(r)
    BY <1>2 DEF Suspend, Moves, FlowInv, TypeOK, Positions, Storing, Flow, Upstream, Over, Emitted, Served,
       Waits, Final, Unopened, Complete
  <2> QED BY <2>1, OneMoves DEF Good
<1> QED BY <1>1, <1>2 DEF Offer

LEMMA BodyReadStep == ASSUME FlowInv, NEW r \in Reqs, BodyRead(r) PROVE Good
<1>1. CASE Offer(r)
  BY <1>1, OfferStep DEF BodyRead
<1>2. CASE Suspend(r, "fold") /\ UNCHANGED <<client, origin, ears, rows>>
  <2>1. Moves(r)
    BY <1>2 DEF BodyRead, Suspend, Moves, FlowInv, TypeOK, Positions, Storing, Flow, Upstream, Over, Emitted, Served,
       Waits, Final, Unopened, Complete
  <2> QED BY <2>1, OneMoves DEF Good
<1> QED BY <1>1, <1>2 DEF BodyRead

LEMMA RequestStoredStep == ASSUME FlowInv, NEW r \in Reqs, RequestStored(r) PROVE Good
<1>1. CASE at[r] = "fold" /\ Offer(r)
  BY <1>1, OfferStep DEF RequestStored
<1>2. CASE at[r] = "fold" /\ End(r, << "too-large" >>, "refused") /\ UNCHANGED <<origin, ears>>
  <2>1. Leaves(r, << "too-large" >>, "refused")
    BY <1>2, Ends, Emits DEF Outcomes, Clients
  <2>2. origin[r] = "none" /\ ears[r] = "none" /\ client[r] # "answered"
    BY <1>2 DEF FlowInv, Flow, Upstream, Served, Unopened
  <2>3. Flow(r)' /\ Final(r)
    BY <1>2, <2>1, <2>2, EndsWell, Emits DEF Clients, Outcomes
  <2>4. Moves(r)
    BY <1>2, <2>1, <2>3 DEF RequestStored, Leaves, Moves, FlowInv, TypeOK
  <2> QED BY <2>4, OneMoves DEF Good
<1>3. CASE at[r] = "rebuild" /\ Listen(r) /\ origin' = [origin EXCEPT ![r] = "sent"] /\ UNCHANGED <<client, rows>>
  <2>1. Moves(r)
    BY <1>3, Emits DEF RequestStored, Listen, Suspend, Moves, FlowInv, TypeOK, Positions, Storing, Origins, Ears, Flow,
       Upstream, Over, Emitted, Served, Waits, Final, Unopened, Complete
  <2> QED BY <2>1, OneMoves DEF Good
<1>4. CASE at[r] = "commit" /\ Listen(r) /\ UNCHANGED <<client, origin, rows>>
  <2>1. Moves(r)
    BY <1>4 DEF RequestStored, Listen, Suspend, Moves, FlowInv, TypeOK, Positions, Storing, Ears, Flow,
       Upstream, Over, Emitted, Served, Waits, Final, Unopened, Complete
  <2> QED BY <2>1, OneMoves DEF Good
<1> QED BY <1>1, <1>2, <1>3, <1>4 DEF RequestStored

LEMMA OperatorStep == ASSUME FlowInv, Operator PROVE Good
<1> USE HeldAreDistinct
<1>1. ASSUME NEW r \in Reqs, Decide(r) PROVE Good
  <2>1. UNCHANGED <<intercept, up, crashed>> /\ intercept' \in [requests : BOOLEAN, responses : BOOLEAN]
    BY <1>1 DEF Decide, FlowInv, TypeOK
  <2>2. CASE at[r] = "held" /\ (Resolve({r}, {}, {}, {}) \/ Resolve({}, {r}, {}, {}))
    <3>1. {r} \in SUBSET HeldRequests /\ {r} \in SUBSET Reqs /\ \A q \in {r} : at[q] \in {"held", "drain", "fold"}
      BY <2>2 DEF HeldRequests
    <3> QED BY <2>1, <2>2, <3>1, Nothing, ResolveAll DEF Good
  <2>3. CASE at[r] = "rheld" /\ (Resolve({}, {}, {r}, {}) \/ Resolve({}, {}, {}, {r}))
    <3>1. {r} \in SUBSET HeldResponses
      BY <2>3 DEF HeldResponses
    <3> QED BY <2>1, <2>3, <3>1, Nothing, ResolveAll DEF Good
  <2> QED BY <1>1, <2>2, <2>3 DEF Decide
<1>2. ASSUME NEW s \in [requests : BOOLEAN, responses : BOOLEAN], SetState(s) PROVE Good
  <2> DEFINE fwd  == IF s.requests THEN {} ELSE HeldRequests
             fwdR == IF s.responses THEN {} ELSE HeldResponses
  <2>1. fwd \in SUBSET Reqs /\ fwdR \in SUBSET HeldResponses /\ \A r \in fwd : at[r] = "held"
    BY DEF HeldRequests
  <2>2. /\ \A q \in Reqs \ fwd : at[q] = "held" => s.requests
        /\ \A q \in Reqs \ fwdR : at[q] = "rheld" => s.responses
    BY DEF HeldRequests, HeldResponses
  <2>3. Resolve({}, fwd, {}, fwdR) /\ intercept' = s /\ up' = up /\ crashed' = crashed
    BY <1>2 DEF SetState
  <2> HIDE DEF fwd, fwdR
  <2> QED BY <2>1, <2>2, <2>3, ResolveAll DEF Good
<1>3. CASE EmergencyStop
  <2>1. Resolve(HeldRequests, {}, HeldResponses, {}) /\ UNCHANGED <<intercept, up, crashed>>
        /\ intercept' \in [requests : BOOLEAN, responses : BOOLEAN]
    BY <1>3 DEF EmergencyStop, FlowInv, TypeOK
  <2>2. HeldRequests \in SUBSET HeldRequests /\ HeldResponses \in SUBSET HeldResponses
    OBVIOUS
  <2> QED BY <2>1, <2>2, Nothing, ResolveAll DEF Good
<1>4. CASE Stop
  <2>2. ASSUME NEW q \in Reqs
        PROVE  /\ at'[q] \in Positions /\ client'[q] \in Clients /\ rows'[q] \in Seq(Outcomes)
               /\ Flow(q)' /\ Final(q)
    <3>0. /\ at[q] \in Positions /\ client[q] \in Clients /\ rows[q] \in Seq(Outcomes) /\ Flow(q)
          /\ UNCHANGED <<intercept, origin, ears>>
      BY <1>4 DEF Stop, FlowInv, TypeOK
    <3>1. CASE at[q] = "held"
      <4>1. at'[q] = "end" /\ rows'[q] = Append(rows[q], "dropped") /\ client'[q] \in {client[q], "cut"}
            /\ (client'[q] # client[q] => client[q] = "open")
        BY <1>4, <3>1 DEF Stop, HeldRequests, HeldResponses
      <4>2. rows'[q] = << "dropped" >> /\ rows'[q] \in Seq(Outcomes) /\ rows'[q] \in AtMostOne
        BY <3>0, <3>1, <4>1, OneRow DEF Flow, Emitted, Outcomes
      <4> QED BY <3>0, <3>1, <4>1, <4>2 DEF Positions, Clients, Flow, Upstream, Over, Emitted, Served, Waits,
              Final, Unopened, Complete
    <3>2. CASE at[q] = "rheld"
      <4>1. at'[q] = "end" /\ rows'[q] = Append(rows[q], "reply-dropped") /\ client'[q] \in {client[q], "cut"}
            /\ (client'[q] # client[q] => client[q] = "open")
        BY <1>4, <3>2 DEF Stop, HeldRequests, HeldResponses
      <4>2. rows'[q] = << "reply-dropped" >> /\ rows'[q] \in Seq(Outcomes) /\ rows'[q] \in AtMostOne
            /\ rows'[q] # << "dropped" >>
        BY <3>0, <3>2, <4>1, OneRow, Emits DEF Flow, Emitted, Outcomes
      <4> QED BY <3>0, <3>2, <4>1, <4>2 DEF Positions, Clients, Flow, Upstream, Over, Emitted, Served, Waits,
              Final, Unopened, Complete
    <3>3. CASE at[q] \notin {"held", "rheld"}
      <4>1. at'[q] = at[q] /\ rows'[q] = rows[q] /\ client'[q] \in {client[q], "gone"}
            /\ (client'[q] # client[q] => client[q] = "open")
        BY <1>4, <3>3 DEF Stop, HeldRequests, HeldResponses
      <4> QED BY <3>0, <3>3, <4>1 DEF Clients, Flow, Upstream, Over, Emitted, Served, Waits, Final
    <3> QED BY <3>1, <3>2, <3>3
  <2>3. /\ at' = [q \in Reqs |-> at'[q]] /\ client' = [q \in Reqs |-> client'[q]]
        /\ rows' = [q \in Reqs |-> rows'[q]]
    BY <1>4 DEF Stop
  <2>4. TypeOK'
    BY <1>4, <2>2, <2>3 DEF Stop, FlowInv, TypeOK
  <2> QED BY <2>2, <2>4 DEF Good, FlowInv
<1>5. CASE Start
  <2>1. TypeOK'
    BY <1>5 DEF Start, FlowInv, TypeOK
  <2> QED BY <1>5, <2>1, Untouched DEF Start, Good, FlowInv
<1> QED BY <1>1, <1>2, <1>3, <1>4, <1>5 DEF Operator

----------------------------------------------------------------------------
(* The theorems                                                            *)

LEMMA FlowStep == FlowInv /\ [Next]_vars => Good
<1> SUFFICES ASSUME FlowInv, [Next]_vars PROVE Good
  OBVIOUS
<1>1. CASE UNCHANGED vars
  BY <1>1, Untouched DEF vars, Good, FlowInv, TypeOK
<1>2. CASE Operator
  BY <1>2, OperatorStep
<1>3. ASSUME NEW r \in Reqs,
             \/ Arrive(r) \/ ClientLeaves(r) \/ BodyBreaks(r) \/ BodyTeed(r) \/ Flushed(r) \/ ReplyRead(r)
             \/ ReplyTeed(r) \/ ReplyStored(r) \/ Origin(r) \/ PumpBreaks(r) \/ StorageFails(r)
      PROVE  Good
  <2>1. Moves(r)
    BY <1>3, ArriveStep, ClientLeavesStep, BodyBreaksStep, BodyTeedStep, FlushedStep, ReplyReadStep, ReplyTeedStep,
       ReplyStoredStep, OriginRepliesStep, OriginErrorsStep, PumpBreaksStep, StorageFailsStep DEF Origin
  <2> QED BY <2>1, OneMoves DEF Good
<1>4. ASSUME NEW r \in Reqs, BodyRead(r) \/ RequestStored(r) PROVE Good
  BY <1>4, BodyReadStep, RequestStoredStep
<1> QED BY <1>1, <1>2, <1>3, <1>4 DEF Next, Handler

\* The inductive invariant holds of every reachable state: where a handler is
\* suspended determines what became of its upstream request.
THEOREM ProxyInductive == Spec => []FlowInv
<1>1. FlowInv /\ [Next]_vars => FlowInv'
  BY FlowStep DEF Good
<1> QED BY <1>1, FlowStarts, PTL DEF Spec

\* The history has one row per request at most, and a client that got a complete
\* reply got one that was complete at its origin (onRequest, handleUpstreamResponse,
\* pumpResponse), for any number of requests.
THEOREM RowsStayTrue == Spec => []RowsAreTrue
<1>1. FlowInv => RowsAreTrue
  BY RowsRead DEF FlowInv, Flow, Emitted, Served, RowsAreTrue, OneRowEach, CompleteMeansComplete
<1> QED BY <1>1, ProxyInductive, PTL

\* What the operator or a stop dropped was never sent, and nothing is held in a
\* direction that is switched off (Interceptor), for any number of requests.
THEOREM HoldsStayHonoured == Spec => []HoldsAreHonoured
<1>1. FlowInv => HoldsAreHonoured
  BY RowsRead DEF FlowInv, Flow, Emitted, Waits, HoldsAreHonoured, DroppedNeverSent, OffHoldsNothing,
     HeldRequests, HeldResponses
<1> QED BY <1>1, ProxyInductive, PTL

\* No late event of a client, an origin or the disk takes back what a client was
\* given or adds a row to a handler that ended.
THEOREM EndsStayFinal == Spec => EndsAreFinal
<1>1. FlowInv /\ [Next]_vars =>
        /\ [\A r \in Reqs :
              client[r] \in {"answered", "refused", "cut"} => client'[r] = client[r]]_vars
        /\ [\A r \in Reqs : at[r] = "end" => at'[r] = "end" /\ rows'[r] = rows[r]]_vars
  BY FlowStep DEF Good, Final
<1> QED BY <1>1, ProxyInductive, PTL DEF Spec, EndsAreFinal, ClientOutcomeIsFinal, EndIsFinal

-----------------------------------------------------------------------------
(* Induction over the natural numbers, and functions defined by recursion.    *)

\* What holds of 0 and of the successor of each number it holds of holds of all:
\* else the successor would map those up to one it does not hold of into
\* themselves, one to one, and miss 0.
LEMMA ByInduction ==
    ASSUME NEW S, 0 \in S, \A k \in Nat : k \in S => k + 1 \in S
    PROVE  \A n \in Nat : n \in S
<1> SUFFICES ASSUME NEW n \in Nat, n \notin S PROVE FALSE
    OBVIOUS
<1> DEFINE C == {k \in 0..n : k \in S}
           succ == [k \in C |-> k + 1]
<1>1. IsFiniteSet(C)
  <2>1. IsFiniteSet(0..n) /\ C \in SUBSET (0..n)
    BY FS_Interval
  <2> QED BY <2>1, FS_Subset
<1>2. \A k \in C : k + 1 \in C
  <2>1. \A k \in C : k \in Nat /\ k <= n /\ k # n /\ k + 1 \in S
    OBVIOUS
  <2> QED BY <2>1
<1>3. 0 \in C /\ \A k \in C : k + 1 # 0 /\ k \in Nat
    OBVIOUS
<1> HIDE DEF C
<1>4. succ \in Injection(C, C)
    BY <1>2, <1>3 DEF Injection, IsInjective
<1>5. succ \in Surjection(C, C)
    BY <1>1, <1>4, FS_Injection
<1> QED BY <1>3, <1>5 DEF Surjection

\* A function that is given by its value before.
Steps(step, K, A) == \A j \in 1..K, x \in A : step[j][x] \in A
Recurs(f, K, A, a, step) == f \in [0..K -> A] /\ f[0] = a /\ \A j \in 1..K : f[j] = step[j][f[j - 1]]

LEMMA Recursion ==
    ASSUME NEW K \in Nat, NEW A, NEW a \in A, NEW step, Steps(step, K, A)
    PROVE  \E f : Recurs(f, K, A, a, step)
<1> DEFINE Is(f, k) == f[0] = a /\ \A j \in 1..k : f[j] = step[j][f[j - 1]]
           S == {k \in Nat : k <= K => \E f \in [0..k -> A] : Is(f, k)}
<1>1. 0 \in S
  <2> DEFINE f == [j \in 0..0 |-> a]
  <2>1. f \in [0..0 -> A] /\ Is(f, 0)
    OBVIOUS
  <2> QED BY <2>1
<1>2. \A j \in 1..K, x \in A : step[j][x] \in A
    BY DEF Steps
<1>3. ASSUME NEW k \in Nat, k \in S PROVE k + 1 \in S
  <2> SUFFICES ASSUME k + 1 <= K PROVE \E g \in [0..(k + 1) -> A] : Is(g, k + 1)
    OBVIOUS
  <2>1. PICK f \in [0..k -> A] : Is(f, k)
    BY <1>3
  <2> DEFINE g == [j \in 0..(k + 1) |-> IF j = k + 1 THEN step[k + 1][f[k]] ELSE f[j]]
  <2>2. /\ \A j \in 0..k : g[j] = f[j] /\ f[j] \in A
        /\ g[k + 1] = step[k + 1][f[k]] /\ step[k + 1][f[k]] \in A
    <3>1. k + 1 \in 1..K /\ k \in 0..k /\ f[k] \in A
      BY <2>1
    <3>2. step[k + 1][f[k]] \in A
      BY <1>2, <3>1
    <3> QED BY <2>1, <3>2
  <2>3. \A j \in 0..(k + 1) : j = k + 1 \/ j \in 0..k
    OBVIOUS
  <2>4. g \in [0..(k + 1) -> A]
    BY <2>2, <2>3
  <2> HIDE DEF g
  <2>5. ASSUME NEW j \in 1..(k + 1) PROVE g[j] = step[j][g[j - 1]]
    <3>1. CASE j = k + 1
      <4>1. j - 1 = k /\ k \in 0..k
        BY <3>1
      <4> QED BY <2>2, <3>1, <4>1
    <3>2. CASE j \in 1..k
      <4>1. j - 1 \in 0..k /\ j \in 0..k
        BY <3>2
      <4> QED BY <2>1, <2>2, <3>2, <4>1
    <3> QED BY <3>1, <3>2
  <2>6. g[0] = a
    BY <2>1, <2>2
  <2> QED BY <2>4, <2>5, <2>6
<1>4. K \in S
  <2> HIDE DEF S
  <2> QED BY <1>1, <1>3, ByInduction
<1> QED BY <1>4 DEF Recurs

LEMMA UnitsAre ==
    ASSUME NEW fs \in Seq(Frames)
    PROVE  /\ Units(fs, 0) = 0 /\ \A j \in 0..Len(fs) : Units(fs, j) \in Nat
           /\ \A j \in 1..Len(fs) : Units(fs, j) = Units(fs, j - 1) + Header + fs[j].len
<1>1. PICK n \in Nat : n = Len(fs) /\ \A j \in 1..n : fs[j].len \in Nat
  <2>1. PICK n \in Nat : n = Len(fs) /\ fs \in [1..n -> Frames]
    BY LenProperties
  <2>2. \A j \in 1..n : fs[j] \in Frames
    BY <2>1
  <2> QED BY <2>1, <2>2 DEF Frames
<1> DEFINE sum[j \in 0..Len(fs)] == IF j = 0 THEN 0 ELSE sum[j - 1] + Header + fs[j].len
           step == [j \in 1..n |-> [x \in Nat |-> x + Header + fs[j].len]]
<1>2. sum = CHOOSE f : f = [j \in 0..n |-> IF j = 0 THEN 0 ELSE f[j - 1] + Header + fs[j].len]
    BY <1>1
<1>3. \A j : Units(fs, j) = sum[j]
    BY DEF Units
<1>4. \A j \in 1..n, x \in Nat : step[j][x] = x + Header + fs[j].len
    OBVIOUS
<1> HIDE DEF sum, step
<1>5. PICK f \in [0..n -> Nat] : f[0] = 0 /\ \A j \in 1..n : f[j] = step[j][f[j - 1]]
  <2>1. ASSUME NEW j \in 1..n, NEW x \in Nat PROVE step[j][x] \in Nat
    <3>1. PICK l \in Nat : l = fs[j].len
      BY <1>1
    <3>2. step[j][x] = x + 2 + l
      BY <1>4, <3>1 DEF Header
    <3> QED BY <3>2
  <2>2. PICK A, a : A = Nat /\ a = 0
    OBVIOUS
  <2>3. a \in A /\ Steps(step, n, A)
    BY <2>1, <2>2 DEF Steps
  <2>4. \E f : Recurs(f, n, A, a, step)
    BY <2>3, Recursion
  <2> QED BY <2>2, <2>4 DEF Recurs
<1>6. f = [j \in 0..n |-> IF j = 0 THEN 0 ELSE f[j - 1] + Header + fs[j].len]
  <2>1. \A j \in 0..n : j # 0 => j \in 1..n /\ f[j - 1] \in Nat
    OBVIOUS
  <2>2. \A j \in 0..n : f[j] = IF j = 0 THEN 0 ELSE f[j - 1] + Header + fs[j].len
    BY <1>4, <1>5, <2>1
  <2> QED BY <2>2
<1>7. sum = [j \in 0..n |-> IF j = 0 THEN 0 ELSE sum[j - 1] + Header + fs[j].len]
    BY <1>2, <1>6
<1>8. sum[0] = 0 /\ \A j \in 1..n : sum[j] = sum[j - 1] + Header + fs[j].len
  <2>1. 0 \in 0..n /\ \A j \in 1..n : j \in 0..n /\ j # 0
    OBVIOUS
  <2> QED BY <1>7, <2>1
<1>9. \A j \in 0..n : sum[j] \in Nat
  <2> DEFINE S == {j \in Nat : j <= n => sum[j] \in Nat}
  <2>1. 0 \in S
    BY <1>8
  <2>2. ASSUME NEW j \in Nat, j \in S PROVE j + 1 \in S
    <3> SUFFICES ASSUME j + 1 <= n PROVE sum[j + 1] \in Nat
      OBVIOUS
    <3>1. j + 1 \in 1..n /\ j + 1 - 1 = j /\ sum[j] \in Nat
      BY <2>2
    <3>2. PICK i \in 1..n : i = j + 1 /\ i - 1 = j
      BY <3>1
    <3>3. PICK x \in Nat : x = sum[i - 1]
      BY <3>1, <3>2
    <3>4. PICK l \in Nat : l = fs[i].len
      BY <1>1
    <3>5. sum[i] = x + 2 + l
      BY <1>8, <3>3, <3>4 DEF Header
    <3> QED BY <3>2, <3>5
  <2>3. \A j \in Nat : j \in S
    <3> HIDE DEF S
    <3> QED BY <2>1, <2>2, ByInduction
  <2> QED BY <2>3
<1> QED BY <1>1, <1>3, <1>8, <1>9

\* The sums that Size is made of.
SumsOf(s, fs, P) ==
    /\ s \in [0..Len(fs) -> Nat] /\ s[0] = 0
    /\ \A j \in 1..Len(fs) : s[j] = s[j - 1] + (IF j \in P THEN fs[j].len ELSE 0)

LEMMA SizeIs ==
    ASSUME NEW fs \in Seq(Frames), NEW P
    PROVE  \E s : SumsOf(s, fs, P) /\ Size(fs, P) = s[Len(fs)]
<1>1. PICK n \in Nat : n = Len(fs) /\ \A j \in 1..n : fs[j].len \in Nat
  <2>1. PICK n \in Nat : n = Len(fs) /\ fs \in [1..n -> Frames]
    BY LenProperties
  <2>2. \A j \in 1..n : fs[j] \in Frames
    BY <2>1
  <2> QED BY <2>1, <2>2 DEF Frames
<1> DEFINE sum[j \in 0..Len(fs)] ==
             IF j = 0 THEN 0 ELSE sum[j - 1] + (IF j \in P THEN fs[j].len ELSE 0)
           step == [j \in 1..n |-> [x \in Nat |-> x + (IF j \in P THEN fs[j].len ELSE 0)]]
<1>2. sum = CHOOSE f : f = [j \in 0..n |-> IF j = 0 THEN 0
                                           ELSE f[j - 1] + (IF j \in P THEN fs[j].len ELSE 0)]
    BY <1>1
<1>3. Size(fs, P) = sum[n]
    BY <1>1 DEF Size
<1>4. \A j \in 1..n, x \in Nat : step[j][x] = x + (IF j \in P THEN fs[j].len ELSE 0)
    OBVIOUS
<1> HIDE DEF sum, step
<1>5. PICK f \in [0..n -> Nat] : f[0] = 0 /\ \A j \in 1..n : f[j] = step[j][f[j - 1]]
  <2>1. ASSUME NEW j \in 1..n, NEW x \in Nat PROVE step[j][x] \in Nat
    <3>1. PICK l \in Nat : l = IF j \in P THEN fs[j].len ELSE 0
      BY <1>1
    <3>2. step[j][x] = x + l
      BY <1>4, <3>1
    <3> QED BY <3>2
  <2>2. PICK A, a : A = Nat /\ a = 0
    OBVIOUS
  <2>3. a \in A /\ Steps(step, n, A)
    BY <2>1, <2>2 DEF Steps
  <2>4. \E f : Recurs(f, n, A, a, step)
    BY <2>3, Recursion
  <2> QED BY <2>2, <2>4 DEF Recurs
<1>6. f = [j \in 0..n |-> IF j = 0 THEN 0 ELSE f[j - 1] + (IF j \in P THEN fs[j].len ELSE 0)]
  <2>1. \A j \in 0..n : j # 0 => j \in 1..n /\ f[j - 1] \in Nat
    OBVIOUS
  <2>2. \A j \in 0..n : f[j] = IF j = 0 THEN 0 ELSE f[j - 1] + (IF j \in P THEN fs[j].len ELSE 0)
    BY <1>4, <1>5, <2>1
  <2> QED BY <2>2
<1>7. sum = [j \in 0..n |-> IF j = 0 THEN 0 ELSE sum[j - 1] + (IF j \in P THEN fs[j].len ELSE 0)]
    BY <1>2, <1>6
<1>8. sum[0] = 0 /\ \A j \in 1..n : sum[j] = sum[j - 1] + (IF j \in P THEN fs[j].len ELSE 0)
  <2>1. 0 \in 0..n /\ \A j \in 1..n : j \in 0..n /\ j # 0
    OBVIOUS
  <2> QED BY <1>7, <2>1
<1>9. \A j \in 0..n : sum[j] \in Nat
  <2> DEFINE S == {j \in Nat : j <= n => sum[j] \in Nat}
  <2>1. 0 \in S
    BY <1>8
  <2>2. ASSUME NEW j \in Nat, j \in S PROVE j + 1 \in S
    <3> SUFFICES ASSUME j + 1 <= n PROVE sum[j + 1] \in Nat
      OBVIOUS
    <3>1. j + 1 \in 1..n /\ j + 1 - 1 = j /\ sum[j] \in Nat
      BY <2>2
    <3>2. PICK l \in Nat : l = IF j + 1 \in P THEN fs[j + 1].len ELSE 0
      BY <1>1, <3>1
    <3>3. sum[j + 1] = sum[j] + l
      BY <1>8, <3>1, <3>2
    <3> QED BY <3>1, <3>3
  <2>3. \A j \in Nat : j \in S
    <3> HIDE DEF S
    <3> QED BY <2>1, <2>2, ByInduction
  <2> QED BY <2>3
<1>10. sum \in [0..n -> Nat]
    BY <1>7, <1>9
<1> QED BY <1>1, <1>3, <1>8, <1>10 DEF SumsOf

LEMMA SizeOfNone ==
    ASSUME NEW fs \in Seq(Frames)
    PROVE  Size(fs, {}) = 0
<1>1. PICK n \in Nat : n = Len(fs)
    BY LenProperties
<1>2. PICK s : SumsOf(s, fs, {}) /\ Size(fs, {}) = s[Len(fs)]
    BY SizeIs
<1> DEFINE S == {j \in Nat : j <= n => s[j] = 0}
<1>3. 0 \in S
    BY <1>2 DEF SumsOf
<1>4. ASSUME NEW j \in Nat, j \in S PROVE j + 1 \in S
  <2> SUFFICES ASSUME j + 1 <= n PROVE s[j + 1] = 0
    OBVIOUS
  <2>1. j + 1 \in 1..n /\ j + 1 - 1 = j /\ s[j] = 0
    BY <1>4
  <2> QED BY <1>1, <1>2, <2>1 DEF SumsOf
<1>5. n \in S
  <2> HIDE DEF S
  <2> QED BY <1>3, <1>4, ByInduction
<1> QED BY <1>1, <1>2, <1>5

\* One frame more adds its payload.
LEMMA SizeOfMore ==
    ASSUME NEW fs \in Seq(Frames), NEW P, NEW i \in 1..Len(fs), i \notin P
    PROVE  /\ Size(fs, P \cup {i}) = Size(fs, P) + fs[i].len
           /\ Size(fs, P) \in Nat /\ fs[i].len \in Nat
<1>1. PICK n \in Nat : n = Len(fs) /\ \A j \in 1..n : fs[j].len \in Nat
  <2>1. PICK n \in Nat : n = Len(fs) /\ fs \in [1..n -> Frames]
    BY LenProperties
  <2>2. \A j \in 1..n : fs[j] \in Frames
    BY <2>1
  <2> QED BY <2>1, <2>2 DEF Frames
<1>2. PICK s : SumsOf(s, fs, P) /\ Size(fs, P) = s[Len(fs)]
    BY SizeIs
<1>3. PICK t : SumsOf(t, fs, P \cup {i}) /\ Size(fs, P \cup {i}) = t[Len(fs)]
    BY SizeIs
<1>4. PICK l \in Nat : l = fs[i].len
    BY <1>1
<1> DEFINE S == {j \in Nat : j <= n => t[j] = s[j] + (IF i <= j THEN l ELSE 0)}
<1>5. 0 \in S
    BY <1>1, <1>2, <1>3 DEF SumsOf
<1>6. ASSUME NEW j \in Nat, j \in S PROVE j + 1 \in S
  <2> SUFFICES ASSUME j + 1 <= n PROVE t[j + 1] = s[j + 1] + (IF i <= j + 1 THEN l ELSE 0)
    OBVIOUS
  <2>1. j + 1 \in 1..n /\ j \in 0..n /\ j + 1 - 1 = j /\ t[j] = s[j] + (IF i <= j THEN l ELSE 0)
    BY <1>6
  <2>2. /\ s[j + 1] = s[j] + (IF j + 1 \in P THEN fs[j + 1].len ELSE 0)
        /\ t[j + 1] = t[j] + (IF j + 1 \in P \cup {i} THEN fs[j + 1].len ELSE 0)
        /\ s[j] \in Nat /\ fs[j + 1].len \in Nat
    <3>1. /\ s \in [0..n -> Nat] /\ t \in [0..n -> Nat]
          /\ \A k \in 1..n : s[k] = s[k - 1] + (IF k \in P THEN fs[k].len ELSE 0)
          /\ \A k \in 1..n : t[k] = t[k - 1] + (IF k \in P \cup {i} THEN fs[k].len ELSE 0)
      BY <1>1, <1>2, <1>3 DEF SumsOf
    <3>2. PICK k \in 1..n : k = j + 1 /\ k - 1 = j
      BY <2>1
    <3>3. /\ s[k] = s[k - 1] + (IF k \in P THEN fs[k].len ELSE 0)
          /\ t[k] = t[k - 1] + (IF k \in P \cup {i} THEN fs[k].len ELSE 0)
      BY <3>1
    <3>4. s[j] \in Nat /\ fs[j + 1].len \in Nat
      BY <1>1, <2>1, <3>1
    <3> QED BY <3>2, <3>3, <3>4
  <2>3. CASE j + 1 = i
    BY <1>4, <2>1, <2>2, <2>3
  <2>4. CASE j + 1 # i
    <3>1. (i <= j + 1) <=> (i <= j)
      BY <1>1, <2>4
    <3>2. PICK x \in Nat : x = IF j + 1 \in P THEN fs[j + 1].len ELSE 0
      BY <2>2
    <3>3. PICK y \in Nat : y = IF i <= j THEN l ELSE 0
      OBVIOUS
    <3>4. s[j + 1] = s[j] + x /\ t[j + 1] = t[j] + x /\ t[j] = s[j] + y
      BY <2>1, <2>2, <2>4, <3>2, <3>3
    <3>5. t[j + 1] = s[j + 1] + y
      BY <2>2, <3>4
    <3> QED BY <3>1, <3>3, <3>5
  <2> QED BY <2>3, <2>4
<1>7. n \in S
  <2> HIDE DEF S
  <2> QED BY <1>5, <1>6, ByInduction
<1>8. t[n] = s[n] + l /\ s[n] \in Nat
    BY <1>1, <1>2, <1>7 DEF SumsOf
<1> QED BY <1>1, <1>2, <1>3, <1>4, <1>8

-----------------------------------------------------------------------------
(* What the messages should be, frame by frame.                               *)

TellableOf(d, fs) == {MessageOf(d, fs, i) : i \in 1..Len(fs)}
Tellable(d) == TellableOf(d, read[d])

LEMMA ToldOf ==
    ASSUME NEW d, NEW fs \in Seq(Frames)
    PROVE  /\ Told(d, fs, 0) = <<>>
           /\ \A i \in 0..Len(fs) : Told(d, fs, i) \in Seq(TellableOf(d, fs))
           /\ \A i \in 1..Len(fs) :
                 /\ EndsMessage(fs, i) => Told(d, fs, i) = Append(Told(d, fs, i - 1), MessageOf(d, fs, i))
                 /\ ~EndsMessage(fs, i) => Told(d, fs, i) = Told(d, fs, i - 1)
<1>1. PICK n \in Nat : n = Len(fs)
    BY LenProperties
<1>2. PICK M : M = Seq(TellableOf(d, fs))
    OBVIOUS
<1> DEFINE told[i \in 0..Len(fs)] ==
             IF i = 0 THEN <<>>
             ELSE IF EndsMessage(fs, i) THEN Append(told[i - 1], MessageOf(d, fs, i)) ELSE told[i - 1]
           step == [i \in 1..n |-> [x \in M |->
                     IF EndsMessage(fs, i) THEN Append(x, MessageOf(d, fs, i)) ELSE x]]
<1>3. told = CHOOSE f : f = [i \in 0..n |->
                 IF i = 0 THEN <<>>
                 ELSE IF EndsMessage(fs, i) THEN Append(f[i - 1], MessageOf(d, fs, i)) ELSE f[i - 1]]
    BY <1>1
<1>4. \A i : Told(d, fs, i) = told[i]
    BY DEF Told
<1>5. \A i \in 1..n, x \in M :
         step[i][x] = IF EndsMessage(fs, i) THEN Append(x, MessageOf(d, fs, i)) ELSE x
    OBVIOUS
<1> HIDE DEF told, step
<1>6. PICK f \in [0..n -> M] : f[0] = <<>> /\ \A i \in 1..n : f[i] = step[i][f[i - 1]]
  <2>1. ASSUME NEW i \in 1..n, NEW x \in M PROVE step[i][x] \in M
    <3>1. PICK m \in TellableOf(d, fs) : m = MessageOf(d, fs, i)
      BY <1>1 DEF TellableOf
    <3>2. Append(x, m) \in M
      BY <1>2, AppendProperties
    <3> QED BY <1>5, <3>1, <3>2
  <2>2. <<>> \in M /\ Steps(step, n, M)
    BY <1>2, <2>1 DEF Steps
  <2>3. \E f : Recurs(f, n, M, <<>>, step)
    BY <2>2, Recursion
  <2> QED BY <2>3 DEF Recurs
<1>7. f = [i \in 0..n |->
             IF i = 0 THEN <<>>
             ELSE IF EndsMessage(fs, i) THEN Append(f[i - 1], MessageOf(d, fs, i)) ELSE f[i - 1]]
  <2>1. \A i \in 0..n : i # 0 => i \in 1..n /\ f[i - 1] \in M
    OBVIOUS
  <2>2. \A i \in 0..n : f[i] =
             IF i = 0 THEN <<>>
             ELSE IF EndsMessage(fs, i) THEN Append(f[i - 1], MessageOf(d, fs, i)) ELSE f[i - 1]
    BY <1>5, <1>6, <2>1
  <2> QED BY <2>2
<1>8. told = [i \in 0..n |->
                IF i = 0 THEN <<>>
                ELSE IF EndsMessage(fs, i) THEN Append(told[i - 1], MessageOf(d, fs, i)) ELSE told[i - 1]]
    BY <1>3, <1>7
<1>9. /\ told[0] = <<>>
      /\ \A i \in 1..n : told[i] = IF EndsMessage(fs, i)
                                   THEN Append(told[i - 1], MessageOf(d, fs, i)) ELSE told[i - 1]
  <2>1. 0 \in 0..n /\ \A i \in 1..n : i \in 0..n /\ i # 0
    OBVIOUS
  <2> QED BY <1>8, <2>1
<1>10. \A i \in 0..n : told[i] \in M
  <2> DEFINE S == {i \in Nat : i <= n => told[i] \in M}
  <2>1. <<>> \in M
    BY <1>2
  <2>2. 0 \in S
    BY <1>9, <2>1
  <2>3. ASSUME NEW i \in Nat, i \in S PROVE i + 1 \in S
    <3> SUFFICES ASSUME i + 1 <= n PROVE told[i + 1] \in M
      OBVIOUS
    <3>1. PICK k \in 1..n : k = i + 1 /\ k - 1 = i /\ told[i] \in M
      BY <2>3
    <3>2. PICK m \in TellableOf(d, fs) : m = MessageOf(d, fs, k)
      BY <1>1 DEF TellableOf
    <3>3. Append(told[i], m) \in M
      BY <1>2, <3>1, <3>2, AppendProperties
    <3> QED BY <1>9, <3>1, <3>2, <3>3
  <2>4. \A i \in Nat : i \in S
    <3> HIDE DEF S
    <3> QED BY <2>2, <2>3, ByInduction
  <2> QED BY <2>4
<1> QED BY <1>1, <1>2, <1>4, <1>9, <1>10

LEMMA ToldIs ==
    ASSUME NEW d, read[d] \in Seq(Frames)
    PROVE  /\ Told(d, read[d], 0) = <<>>
           /\ \A i \in 0..Len(read[d]) : Told(d, read[d], i) \in Seq(Tellable(d))
           /\ \A i \in 1..Len(read[d]) :
                 /\ EndsMessage(read[d], i) => Told(d, read[d], i) = Append(Told(d, read[d], i - 1), MessageOf(d, read[d], i))
                 /\ ~EndsMessage(read[d], i) => Told(d, read[d], i) = Told(d, read[d], i - 1)
BY ToldOf DEF Tellable, TellableOf

\* Later frames end later, by a header at least.
LEMMA UnitsGrow ==
    ASSUME NEW fs \in Seq(Frames)
    PROVE  \A i, j \in 0..Len(fs) : /\ i <= j => Units(fs, i) <= Units(fs, j)
                                    /\ i < j => Units(fs, i) + Header <= Units(fs, j)
<1>1. PICK n \in Nat : n = Len(fs)
    BY LenProperties
<1>2. /\ \A j \in 0..n : Units(fs, j) \in Nat
      /\ \A j \in 1..n : fs[j].len \in Nat
      /\ \A j \in 1..n : Units(fs, j) = Units(fs, j - 1) + Header + fs[j].len
  <2>1. \A j \in 1..n : fs[j] \in Frames
    BY <1>1, ElementOfSeq
  <2>2. \A j \in 1..n : fs[j].len \in Nat
    BY <2>1 DEF Frames
  <2> QED BY <1>1, <2>2, UnitsAre
<1> SUFFICES ASSUME NEW i \in 0..n
             PROVE  \A j \in 0..n : /\ i <= j => Units(fs, i) <= Units(fs, j)
                                    /\ i < j => Units(fs, i) + Header <= Units(fs, j)
    BY <1>1
<1> DEFINE S == {j \in Nat : j <= n => /\ i <= j => Units(fs, i) <= Units(fs, j)
                                       /\ i < j => Units(fs, i) + Header <= Units(fs, j)}
<1>3. 0 \in S
    BY <1>2
<1>4. ASSUME NEW j \in Nat, j \in S PROVE j + 1 \in S
  <2> SUFFICES ASSUME j + 1 <= n, i <= j + 1
               PROVE  /\ Units(fs, i) <= Units(fs, j + 1)
                      /\ i < j + 1 => Units(fs, i) + Header <= Units(fs, j + 1)
    OBVIOUS
  <2>1. PICK k \in 1..n : k = j + 1 /\ k - 1 = j /\ j \in 0..n
    OBVIOUS
  <2>2. PICK l \in Nat : l = fs[k].len
    BY <1>2
  <2>3. PICK a, b, c \in Nat : a = Units(fs, i) /\ b = Units(fs, j) /\ c = Units(fs, k)
    BY <1>2, <2>1
  <2>4. c = b + 2 + l
    BY <1>2, <2>1, <2>2, <2>3 DEF Header
  <2>5. CASE i = k
    BY <2>1, <2>3, <2>5
  <2>6. CASE i # k
    <3>1. i <= j
      BY <2>1, <2>6
    <3>2. a <= b
      BY <1>4, <2>1, <2>3, <3>1
    <3> QED BY <2>1, <2>3, <2>4, <3>2 DEF Header
  <2> QED BY <2>5, <2>6
<1>5. \A j \in Nat : j \in S
  <2> HIDE DEF S
  <2> QED BY <1>3, <1>4, ByInduction
<1> QED BY <1>5

LEMMA StartsMove ==
    ASSUME NEW fs, NEW k \in Nat, k >= 1
    PROVE  /\ (fs[k].op = "data" /\ ~fs[k].fin) => StartsOf(fs, k + 1) = {k}
           /\ (fs[k].op = "cont" /\ fs[k].fin) => StartsOf(fs, k + 1) = {}
           /\ (~(fs[k].op = "data" /\ ~fs[k].fin) /\ ~(fs[k].op = "cont" /\ fs[k].fin)) =>
                 StartsOf(fs, k + 1) = StartsOf(fs, k)
<1>1. k + 1 - 1 = k /\ k \in 1..k /\ k \notin 1..(k - 1)
    OBVIOUS
<1>2. \A j : j \in 1..k <=> (j = k \/ j \in 1..(k - 1))
    OBVIOUS
<1>3. \A j \in 1..(k - 1) : \A m : m \in (j + 1)..k <=> (m = k \/ m \in (j + 1)..(k - 1))
    OBVIOUS
<1>4. \A m : m \notin (k + 1)..k
    OBVIOUS
<1>5. \A j : j \in StartsOf(fs, k + 1) <=>
               /\ j \in 1..k /\ fs[j].op = "data" /\ ~fs[j].fin
               /\ \A m \in (j + 1)..k :
                     ~(fs[m].op = "data" /\ ~fs[m].fin) /\ ~(fs[m].op = "cont" /\ fs[m].fin)
    BY <1>1 DEF StartsOf
<1>6. \A j : j \in StartsOf(fs, k) <=>
               /\ j \in 1..(k - 1) /\ fs[j].op = "data" /\ ~fs[j].fin
               /\ \A m \in (j + 1)..(k - 1) :
                     ~(fs[m].op = "data" /\ ~fs[m].fin) /\ ~(fs[m].op = "cont" /\ fs[m].fin)
    BY DEF StartsOf
<1>7. ASSUME fs[k].op = "data", ~fs[k].fin PROVE StartsOf(fs, k + 1) = {k}
  <2>1. k \in StartsOf(fs, k + 1)
    BY <1>1, <1>4, <1>5, <1>7
  <2>2. \A j \in 1..(k - 1) : k \in (j + 1)..k
    OBVIOUS
  <2>3. \A j \in StartsOf(fs, k + 1) : j = k
    BY <1>2, <1>5, <1>7, <2>2
  <2> QED BY <2>1, <2>3
<1>8. ASSUME fs[k].op = "cont", fs[k].fin PROVE StartsOf(fs, k + 1) = {}
  <2>1. \A j \in 1..(k - 1) : k \in (j + 1)..k
    OBVIOUS
  <2> QED BY <1>2, <1>5, <1>8, <2>1
<1>9. ASSUME ~(fs[k].op = "data" /\ ~fs[k].fin), ~(fs[k].op = "cont" /\ fs[k].fin)
      PROVE  StartsOf(fs, k + 1) = StartsOf(fs, k)
  <2>1. \A j : j \in StartsOf(fs, k + 1) <=> j \in StartsOf(fs, k)
    BY <1>2, <1>3, <1>5, <1>6, <1>9
  <2> QED BY <2>1 DEF StartsOf
<1> QED BY <1>7, <1>8, <1>9

\* The fragments of the message that is open before frame k.
Before(fs, k) ==
    UNION {{j} \cup {m \in j..(k - 1) : fs[m].op = "cont"} : j \in StartsOf(fs, k)}

LEMMA BeforeMoves ==
    ASSUME NEW fs, NEW k \in Nat, k >= 1
    PROVE  /\ Before(fs, k) \in SUBSET (1..(k - 1)) /\ k \notin Before(fs, k)
           /\ (fs[k].op = "data" /\ ~fs[k].fin) => Before(fs, k + 1) = {k}
           /\ (fs[k].op = "control" \/ (fs[k].op = "data" /\ fs[k].fin)) =>
                 Before(fs, k + 1) = Before(fs, k)
           /\ (fs[k].op = "cont" /\ ~fs[k].fin /\ StartsOf(fs, k) # {}) =>
                 Before(fs, k + 1) = Before(fs, k) \cup {k}
           /\ (fs[k].op = "cont" /\ StartsOf(fs, k) # {}) =>
                 Pieces(fs, k) = Before(fs, k) \cup {k}
           /\ fs[k].op # "cont" => Pieces(fs, k) = {k}
<1>1. k + 1 - 1 = k /\ k \in 1..k /\ k \notin 1..(k - 1)
    OBVIOUS
<1>2. StartsOf(fs, k) \in SUBSET (1..(k - 1))
    BY DEF StartsOf
<1>3. \A j \in 1..(k - 1) : \A m : m \in j..k <=> (m = k \/ m \in j..(k - 1))
    OBVIOUS
<1>4. \A m : m \in Before(fs, k) <=>
               \E j \in StartsOf(fs, k) : m = j \/ (m \in j..(k - 1) /\ fs[m].op = "cont")
    BY DEF Before
<1>5. \A m : m \in Before(fs, k + 1) <=>
               \E j \in StartsOf(fs, k + 1) : m = j \/ (m \in j..k /\ fs[m].op = "cont")
    BY <1>1 DEF Before
<1>6. Before(fs, k) \in SUBSET (1..(k - 1))
  <2>1. \A j \in 1..(k - 1) : \A m \in j..(k - 1) : m \in 1..(k - 1)
    OBVIOUS
  <2> QED BY <1>2, <1>4, <2>1
<1>7. ASSUME fs[k].op = "data", ~fs[k].fin PROVE Before(fs, k + 1) = {k}
  <2>1. StartsOf(fs, k + 1) = {k}
    BY <1>7, StartsMove
  <2>2. \A m \in k..k : m = k
    OBVIOUS
  <2>3. \A m : m \in Before(fs, k + 1) <=> m = k
    BY <1>5, <2>1, <2>2
  <2> QED BY <2>3
<1>8. ASSUME fs[k].op = "control" \/ (fs[k].op = "data" /\ fs[k].fin)
      PROVE  Before(fs, k + 1) = Before(fs, k)
  <2>1. StartsOf(fs, k + 1) = StartsOf(fs, k) /\ fs[k].op # "cont"
    BY <1>8, StartsMove
  <2>2. \A m : m \in Before(fs, k + 1) <=> m \in Before(fs, k)
    BY <1>2, <1>3, <1>4, <1>5, <2>1
  <2> QED BY <2>2
<1>9. ASSUME fs[k].op = "cont", StartsOf(fs, k) # {} PROVE Pieces(fs, k) = Before(fs, k) \cup {k}
  <2>1. Pieces(fs, k) = UNION {{j} \cup {m \in j..k : fs[m].op = "cont"} : j \in StartsOf(fs, k)}
    BY <1>9 DEF Pieces
  <2>2. \A m : m \in Pieces(fs, k) <=>
                 \E j \in StartsOf(fs, k) : m = j \/ (m \in j..k /\ fs[m].op = "cont")
    BY <2>1
  <2>3. \A m : m \in Pieces(fs, k) <=> (m = k \/ m \in Before(fs, k))
    BY <1>2, <1>3, <1>4, <1>9, <2>2
  <2> QED BY <2>3
<1>10. ASSUME fs[k].op = "cont", ~fs[k].fin, StartsOf(fs, k) # {}
       PROVE  Before(fs, k + 1) = Before(fs, k) \cup {k}
  <2>1. StartsOf(fs, k + 1) = StartsOf(fs, k)
    BY <1>10, StartsMove
  <2>2. \A m : m \in Before(fs, k + 1) <=> (m = k \/ m \in Before(fs, k))
    BY <1>2, <1>3, <1>4, <1>5, <1>10, <2>1
  <2> QED BY <2>2
<1>11. fs[k].op # "cont" => Pieces(fs, k) = {k}
    BY DEF Pieces
<1> QED BY <1>1, <1>6, <1>7, <1>8, <1>9, <1>10, <1>11

-----------------------------------------------------------------------------
(* The parser against the stream: where it stands after n units.              *)

Parsers == [buf : Nat, next : Nat, inFrame : BOOLEAN, remaining : Nat, capturedLen : Nat,
            inFragment : BOOLEAN, fragLen : Nat, fragTotal : Nat, broken : BOOLEAN]

\* The units up to here: the frames before, the header, the payload taken, and
\* what is buffered.
Position(fs, p, n) ==
    /\ p.broken => /\ p.next <= Len(fs) /\ fs[p.next].op = "huge"
                   /\ Units(fs, p.next - 1) <= n
    /\ (~p.broken /\ ~p.inFrame) => n = Units(fs, p.next - 1) + p.buf
    /\ (~p.broken /\ p.inFrame) =>
          /\ p.next <= Len(fs) /\ fs[p.next].op # "huge"
          /\ p.remaining <= fs[p.next].len
          /\ p.capturedLen = Smaller(fs[p.next].len - p.remaining, Cap)
          /\ n = Units(fs, p.next - 1) + Header + (fs[p.next].len - p.remaining) + p.buf

\* The fragments of the open message are counted in full, and kept to the cap.
Fragments(fs, p) ==
    /\ p.inFragment <=> StartsOf(fs, p.next) # {}
    /\ p.inFragment => /\ p.fragTotal = Size(fs, Before(fs, p.next))
                       /\ p.fragLen = Smaller(p.fragTotal, Cap)

Parsed(fs, p, n) ==
    /\ p \in Parsers /\ p.next \in 1..(Len(fs) + 1)
    /\ \A j \in 1..(p.next - 1) : fs[j].op # "huge"
    /\ Position(fs, p, n)
    /\ Fragments(fs, p)

\* What the messages of a chunk add to those of the chunks before.
Reading(d, n, told) ==
    {r \in [p : Parsers, out : Seq(Tellable(d))] :
        Parsed(read[d], r.p, n) /\ told \o r.out = Told(d, read[d], r.p.next - 1)}

\* The stream of a direction is what the runs make it.
Stream(fs, n) == fs \in Seq(Frames) /\ n \in Nat /\ n <= Units(fs, Len(fs))

LEMMA FrameAt ==
    ASSUME NEW fs \in Seq(Frames), NEW i \in 1..Len(fs)
    PROVE  fs[i] \in Frames /\ fs[i].len \in Nat /\ fs[i].fin \in BOOLEAN
           /\ fs[i].op \in {"data", "cont", "control", "huge"}
<1>1. fs[i] \in Frames
    BY ElementOfSeq
<1> QED BY <1>1 DEF Frames

LEMMA HeaderReads ==
    ASSUME TunnelAssumption, NEW fs, NEW n, Stream(fs, n),
           NEW p, Parsed(fs, p, n), ~p.broken, ~p.inFrame, p.buf >= Header
    PROVE  /\ p.next <= Len(fs)
           /\ Parsed(fs, ParseHeader(p, fs[p.next]), n)
           /\ ParseHeader(p, fs[p.next]).next = p.next
           /\ ParseHeader(p, fs[p.next]).broken => ParseHeader(p, fs[p.next]).buf = 0
           /\ ParseHeader(p, fs[p.next]).broken \/ ParseHeader(p, fs[p.next]).inFrame
<1>1. PICK L \in Nat : L = Len(fs)
    BY LenProperties DEF Stream
<1>2. PICK k \in 1..(L + 1) : k = p.next
    BY <1>1 DEF Parsed
<1>3. PICK b \in Nat : b = p.buf /\ b >= 2
    BY DEF Parsed, Parsers, Header
<1>4. k - 1 \in 0..L /\ L \in 0..L
    OBVIOUS
<1>5. PICK u \in Nat : u = Units(fs, k - 1)
    BY <1>1, <1>4, UnitsAre DEF Stream
<1>6. n = u + b /\ n \in Nat
    BY <1>2, <1>3, <1>5 DEF Parsed, Position, Stream
<1>7. k <= L
  <2>1. ASSUME k = L + 1 PROVE FALSE
    <3>1. n <= Units(fs, k - 1)
      BY <1>1, <2>1 DEF Stream
    <3> QED BY <1>3, <1>5, <1>6, <3>1
  <2> QED BY <2>1
<1>8. PICK f \in Frames : f = fs[k] /\ f.len \in Nat /\ f.op \in {"data", "cont", "control", "huge"}
    BY <1>1, <1>7, FrameAt DEF Stream
<1>9. PICK q : q = ParseHeader(p, f)
    OBVIOUS
<1>10. PICK l \in Nat : l = f.len
    BY <1>8
<1>11. CASE f.op = "huge"
  <2>1. q = [p EXCEPT !.broken = TRUE, !.buf = 0]
    BY <1>9, <1>11 DEF ParseHeader
  <2>2. /\ q \in Parsers /\ q.broken = TRUE /\ q.buf = 0 /\ q.next = k /\ q.inFragment = p.inFragment
        /\ q.fragLen = p.fragLen /\ q.fragTotal = p.fragTotal
    BY <1>2, <2>1 DEF Parsed, Parsers
  <2>3. Position(fs, q, n)
    BY <1>1, <1>5, <1>6, <1>7, <1>8, <1>11, <2>2 DEF Position
  <2>4. Fragments(fs, q)
    BY <1>2, <2>2 DEF Parsed, Fragments
  <2>5. Parsed(fs, q, n)
    BY <1>2, <2>2, <2>3, <2>4 DEF Parsed
  <2> QED BY <1>1, <1>2, <1>7, <1>8, <1>9, <2>2, <2>5
<1>12. CASE f.op # "huge"
  <2>1. q = [p EXCEPT !.buf = @ - Header, !.inFrame = TRUE, !.remaining = f.len, !.capturedLen = 0]
    BY <1>9, <1>12 DEF ParseHeader
  <2>2. /\ q \in Parsers /\ q.broken = FALSE /\ q.inFrame = TRUE /\ q.buf = b - 2 /\ q.next = k
        /\ q.remaining = l /\ q.capturedLen = 0
        /\ q.inFragment = p.inFragment /\ q.fragLen = p.fragLen /\ q.fragTotal = p.fragTotal
    <3>1. PICK x \in Nat : x = b - 2
      BY <1>3
    <3>2. q = [p EXCEPT !.buf = x, !.inFrame = TRUE, !.remaining = l, !.capturedLen = 0]
      BY <1>3, <1>10, <2>1, <3>1 DEF Header
    <3>3. p \in Parsers /\ p.broken = FALSE /\ p.next = k
      BY <1>2 DEF Parsed, Parsers
    <3> QED BY <3>1, <3>2, <3>3 DEF Parsers
  <2>3. Position(fs, q, n)
    <3>1. n = u + 2 + (l - l) + (b - 2)
      BY <1>6
    <3>2. 0 = Smaller(l - l, Cap) /\ l <= l
      BY DEF Smaller, TunnelAssumption
    <3>3. q.next <= Len(fs) /\ fs[q.next].op # "huge" /\ fs[q.next].len = l
      BY <1>1, <1>7, <1>8, <1>10, <1>12, <2>2
    <3>4. n = Units(fs, q.next - 1) + Header + (fs[q.next].len - q.remaining) + q.buf
      BY <1>5, <2>2, <3>1, <3>3 DEF Header
    <3> QED BY <2>2, <3>2, <3>3, <3>4 DEF Position
  <2>4. Fragments(fs, q)
    BY <1>2, <2>2 DEF Parsed, Fragments
  <2>5. Parsed(fs, q, n)
    BY <1>2, <2>2, <2>3, <2>4 DEF Parsed
  <2> QED BY <1>1, <1>2, <1>7, <1>8, <1>9, <2>2, <2>5
<1> QED BY <1>11, <1>12

LEMMA PayloadReads ==
    ASSUME TunnelAssumption, NEW fs, NEW n, Stream(fs, n),
           NEW p, Parsed(fs, p, n), ~p.broken, p.inFrame
    PROVE  /\ Parsed(fs, TakePayload(p), n)
           /\ TakePayload(p).next = p.next
           /\ TakePayload(p).inFrame = TRUE /\ TakePayload(p).broken = FALSE
           /\ TakePayload(p).remaining > 0 => TakePayload(p).buf = 0
<1>1. PICK L \in Nat : L = Len(fs)
    BY LenProperties DEF Stream
<1>2. PICK k \in 1..L : k = p.next /\ fs[k].op # "huge"
    BY <1>1 DEF Parsed, Position
<1>3. PICK l \in Nat : l = fs[k].len
    BY <1>1, FrameAt DEF Stream
<1>4. PICK b, m, c \in Nat : b = p.buf /\ m = p.remaining /\ c = p.capturedLen
    BY DEF Parsed, Parsers
<1>5. m <= l /\ c = Smaller(l - m, Cap) /\ n = Units(fs, k - 1) + 2 + (l - m) + b
    BY <1>2, <1>3, <1>4 DEF Parsed, Position, Header
<1>6. PICK t \in Nat : t = Smaller(m, b)
    BY DEF Smaller
<1>7. t <= m /\ t <= b /\ (m - t > 0 => b - t = 0) /\ b - t \in Nat /\ m - t \in Nat
    BY <1>6 DEF Smaller
<1>8. PICK C \in Nat : C = Cap
    BY DEF TunnelAssumption
<1>9. c + Smaller(t, C - c) = Smaller(l - (m - t), C) /\ c + Smaller(t, C - c) \in Nat
    BY <1>5, <1>7, <1>8 DEF Smaller
<1>10. PICK q : q = TakePayload(p)
    OBVIOUS
<1>11. q = [p EXCEPT !.buf = @ - t, !.remaining = @ - t, !.capturedLen = @ + Smaller(t, C - c)]
    BY <1>4, <1>6, <1>8, <1>10 DEF TakePayload
<1>12. /\ q \in Parsers /\ q.broken = FALSE /\ q.inFrame = TRUE /\ q.buf = b - t /\ q.next = k
       /\ q.remaining = m - t /\ q.capturedLen = c + Smaller(t, C - c)
       /\ q.inFragment = p.inFragment /\ q.fragLen = p.fragLen /\ q.fragTotal = p.fragTotal
  <2>1. PICK x \in Nat : x = c + Smaller(t, C - c)
    BY <1>9
  <2>2. q = [p EXCEPT !.buf = b - t, !.remaining = m - t, !.capturedLen = x]
    BY <1>4, <1>11, <2>1
  <2> QED BY <1>2, <1>7, <2>1, <2>2 DEF Parsed, Parsers
<1>13. Position(fs, q, n)
  <2>1. PICK u \in Nat : u = Units(fs, k - 1)
    <3>1. k - 1 \in 0..L /\ \A j \in 0..L : Units(fs, j) \in Nat
      BY <1>1, UnitsAre DEF Stream
    <3> QED BY <3>1
  <2>2. n = u + 2 + (l - m) + b /\ m <= l
    BY <1>5, <2>1
  <2>3. n = u + 2 + (l - (m - t)) + (b - t) /\ m - t <= l
    BY <1>7, <2>2
  <2>4. q.next <= Len(fs) /\ fs[q.next].op # "huge" /\ fs[q.next].len = l
    BY <1>1, <1>2, <1>3, <1>12
  <2>5. n = Units(fs, q.next - 1) + Header + (fs[q.next].len - q.remaining) + q.buf
    BY <1>12, <2>1, <2>3, <2>4 DEF Header
  <2>6. q.capturedLen = Smaller(fs[q.next].len - q.remaining, Cap)
    BY <1>8, <1>9, <1>12, <2>4
  <2>7. q.remaining <= fs[q.next].len
    BY <1>12, <2>3, <2>4
  <2> QED BY <1>12, <2>4, <2>5, <2>6, <2>7 DEF Position
<1>14. Fragments(fs, q)
    BY <1>2, <1>12 DEF Parsed, Fragments
<1>15. Parsed(fs, q, n)
    BY <1>2, <1>12, <1>13, <1>14 DEF Parsed
<1> QED BY <1>2, <1>7, <1>10, <1>12, <1>15

\* What finishFrame makes of a frame taken in full.
Finished(d, p, n, done) ==
    /\ Parsed(read[d], done.p, n) /\ done.p.next = p.next + 1
    /\ done.p.inFrame = FALSE /\ done.p.broken = FALSE
    /\ done.out \in Seq(Tellable(d))
    /\ Told(d, read[d], p.next) = Told(d, read[d], p.next - 1) \o done.out

LEMMA FinishReads ==
    ASSUME TunnelAssumption, NEW d, NEW n, Stream(read[d], n),
           NEW p, Parsed(read[d], p, n), ~p.broken, p.inFrame, p.remaining = 0
    PROVE  Finished(d, p, n, FinishFrame(d, p, read[d][p.next]))
<1>1. PICK fs \in Seq(Frames) : fs = read[d]
    BY DEF Stream
<1>2. PICK L \in Nat : L = Len(fs) /\ fs = read[d] /\ fs \in Seq(Frames)
    BY <1>1, LenProperties
<1>3. PICK k \in Nat : /\ k = p.next /\ fs[k].op # "huge" /\ k >= 1 /\ k <= L
                       /\ k \in 1..L /\ k \in 0..L /\ k - 1 \in 0..L
  <2>1. p.next \in 1..L /\ fs[p.next].op # "huge"
    BY <1>2 DEF Parsed, Position
  <2> QED BY <2>1
<1>4. PICK k1 \in Nat : k1 = k + 1
    BY <1>3
<1>5. PICK f : f = fs[k] /\ f.fin \in BOOLEAN /\ f.op \in {"data", "cont", "control"} /\ f.len \in Nat
    BY <1>2, <1>3, FrameAt
<1>6. PICK l \in Nat : l = f.len
    BY <1>5
<1>7. PICK C \in Nat \ {0} : C = Cap
    BY DEF TunnelAssumption
<1>8. p \in Parsers /\ p.broken = FALSE /\ p.capturedLen = Smaller(l, C)
  <2>1. p \in Parsers /\ p.broken = FALSE
    BY DEF Parsed, Parsers
  <2>2. p.capturedLen = Smaller(l - 0, C)
    BY <1>2, <1>3, <1>5, <1>6, <1>7 DEF Parsed, Position
  <2> QED BY <2>1, <2>2
<1>9. PICK u \in Nat : u = Units(fs, k) /\ n = u + p.buf
  <2>1. PICK v \in Nat : v = Units(fs, k - 1)
    BY <1>2, <1>3, UnitsAre
  <2>2. Units(fs, k) = v + 2 + l
    BY <1>2, <1>3, <1>5, <1>6, <2>1, UnitsAre DEF Header
  <2>3. n = v + 2 + (l - 0) + p.buf
    BY <1>2, <1>3, <1>5, <1>6, <2>1 DEF Parsed, Position, Header
  <2> QED BY <1>8, <2>2, <2>3 DEF Parsers
<1>10. \A j \in 1..k : fs[j].op # "huge"
  <2>1. \A j \in 1..k : j = k \/ j \in 1..(k - 1)
    OBVIOUS
  <2> QED BY <1>2, <1>3, <2>1 DEF Parsed
<1>11. Fragments(fs, p)
    BY <1>2 DEF Parsed
<1>12. PICK starts : starts = (StartsOf(fs, k) # {}) /\ starts \in BOOLEAN
    OBVIOUS
<1>13. (p.inFragment = TRUE) <=> starts = TRUE
    BY <1>3, <1>8, <1>11, <1>12 DEF Fragments, Parsers
<1>14. PICK done : done = FinishFrame(d, p, f)
    OBVIOUS
<1> SUFFICES Finished(d, p, n, done)
    BY <1>2, <1>3, <1>5, <1>14
<1>15. ASSUME NEW q \in Parsers, q.next = k + 1, q.inFrame = FALSE, q.broken = FALSE, q.buf = p.buf,
              Fragments(fs, q)
       PROVE  Parsed(fs, q, n)
  <2>1. k + 1 - 1 = k /\ k + 1 \in 1..(L + 1)
    BY <1>3
  <2>2. Position(fs, q, n)
    BY <1>9, <1>15, <2>1 DEF Position
  <2> QED BY <1>2, <1>10, <1>15, <2>1, <2>2 DEF Parsed
<1>16. Size(fs, {k}) = l
  <2>1. Size(fs, {} \cup {k}) = Size(fs, {}) + fs[k].len
    BY <1>2, <1>3, SizeOfMore
  <2>2. Size(fs, {}) = 0 /\ {} \cup {k} = {k}
    BY <1>2, SizeOfNone
  <2> QED BY <1>5, <1>6, <2>1, <2>2
<1>17. /\ Told(d, read[d], k - 1) \in Seq(Tellable(d)) /\ MessageOf(d, read[d], k) \in Tellable(d)
       /\ EndsMessage(fs, k) => Told(d, read[d], k) = Told(d, read[d], k - 1) \o <<MessageOf(d, read[d], k)>>
       /\ ~EndsMessage(fs, k) => Told(d, read[d], k) = Told(d, read[d], k - 1) \o <<>>
  <2>1. MessageOf(d, read[d], k) \in Tellable(d)
    BY <1>2, <1>3 DEF Tellable, TellableOf
  <2>2. Told(d, read[d], k - 1) \in Seq(Tellable(d))
    BY <1>2, <1>3, ToldIs
  <2>3. EndsMessage(fs, k) => Told(d, read[d], k) = Append(Told(d, read[d], k - 1), MessageOf(d, read[d], k))
    BY <1>2, <1>3, ToldIs
  <2>4. ~EndsMessage(fs, k) => Told(d, read[d], k) = Told(d, read[d], k - 1)
    BY <1>2, <1>3, ToldIs
  <2>5. Append(Told(d, read[d], k - 1), MessageOf(d, read[d], k)) = Told(d, read[d], k - 1) \o <<MessageOf(d, read[d], k)>>
    BY <2>1, <2>2, AppendIsConcat
  <2>6. Told(d, read[d], k - 1) \o <<>> = Told(d, read[d], k - 1)
    BY <2>2, ConcatEmptySeq
  <2> QED BY <2>1, <2>2, <2>3, <2>4, <2>5, <2>6
<1>18. MessageOf(d, read[d], k) = Message(d, IF f.op = "control" THEN "control" ELSE "data",
                                 Size(fs, Pieces(fs, k)), Smaller(Size(fs, Pieces(fs, k)), C))
    BY <1>2, <1>5, <1>7 DEF MessageOf
<1>19. ASSUME Parsed(fs, done.p, n), done.p.next = k + 1, done.p.inFrame = FALSE, done.p.broken = FALSE,
              \/ ~EndsMessage(fs, k) /\ done.out = <<>>
              \/ EndsMessage(fs, k) /\ done.out = <<MessageOf(d, read[d], k)>>
       PROVE  Finished(d, p, n, done)
  <2>1. <<>> \in Seq(Tellable(d)) /\ <<MessageOf(d, read[d], k)>> \in Seq(Tellable(d))
    BY <1>17
  <2>2. done.out \in Seq(Tellable(d)) /\ Told(d, read[d], k) = Told(d, read[d], k - 1) \o done.out
    BY <1>17, <1>19, <2>1
  <2> QED BY <1>2, <1>3, <1>19, <2>2 DEF Finished
<1>20. CASE f.op = "control" \/ (f.op = "data" /\ f.fin)
  <2>1. PICK q : q = [p EXCEPT !.inFrame = FALSE, !.next = k1]
    OBVIOUS
  <2>2. /\ q \in Parsers /\ q.next = k + 1 /\ q.inFrame = FALSE /\ q.broken = FALSE /\ q.buf = p.buf
        /\ q.inFragment = p.inFragment /\ q.fragLen = p.fragLen /\ q.fragTotal = p.fragTotal
        /\ q.capturedLen = p.capturedLen
    BY <1>8, <1>4, <2>1 DEF Parsers
  <2>3. done = [p |-> q, out |-> <<Message(d, f.op, l, Smaller(l, C))>>]
    BY <1>3, <1>6, <1>8, <1>14, <1>4, <1>20, <2>1, <2>2 DEF FinishFrame
  <2>4. StartsOf(fs, k + 1) = StartsOf(fs, k) /\ Before(fs, k + 1) = Before(fs, k)
    BY <1>3, <1>5, <1>20, StartsMove, BeforeMoves
  <2>5. Fragments(fs, q)
    BY <1>3, <1>11, <2>2, <2>4 DEF Fragments
  <2>6. EndsMessage(fs, k)
    BY <1>5, <1>20 DEF EndsMessage
  <2>7. Pieces(fs, k) = {k}
    BY <1>3, <1>5, <1>20, BeforeMoves
  <2>8. MessageOf(d, read[d], k) = Message(d, f.op, l, Smaller(l, C))
    BY <1>16, <1>18, <1>20, <2>7
  <2>9. Parsed(fs, q, n)
    BY <1>15, <2>2, <2>5
  <2>10. done.p = q /\ done.out = <<MessageOf(d, read[d], k)>>
    BY <2>3, <2>8
  <2>11. Parsed(fs, done.p, n) /\ done.p.next = k + 1 /\ done.p.inFrame = FALSE /\ done.p.broken = FALSE
    BY <2>2, <2>9, <2>10
  <2> QED BY <1>19, <2>10, <2>11, <2>6
<1>21. CASE f.op = "data" /\ ~f.fin
  <2>1. PICK q : q = [p EXCEPT !.inFrame = FALSE, !.next = k1, !.inFragment = TRUE,
                               !.fragLen = p.capturedLen, !.fragTotal = l]
    OBVIOUS
  <2>2. /\ q \in Parsers /\ q.next = k + 1 /\ q.inFrame = FALSE /\ q.broken = FALSE /\ q.buf = p.buf
        /\ q.inFragment = TRUE /\ q.fragLen = Smaller(l, C) /\ q.fragTotal = l
    BY <1>8, <1>4, <2>1 DEF Parsers
  <2>3. done = [p |-> q, out |-> <<>>]
    BY <1>3, <1>6, <1>8, <1>14, <1>4, <1>21, <2>1, <2>2 DEF FinishFrame, Parsers
  <2>4. StartsOf(fs, k + 1) = {k} /\ Before(fs, k + 1) = {k}
    BY <1>3, <1>5, <1>21, StartsMove, BeforeMoves
  <2>5. Fragments(fs, q)
    BY <1>7, <1>16, <2>2, <2>4 DEF Fragments
  <2>6. ~EndsMessage(fs, k)
    BY <1>5, <1>21 DEF EndsMessage
  <2>7. Parsed(fs, q, n)
    BY <1>15, <2>2, <2>5
  <2>8. done.p = q /\ done.out = <<>>
    BY <2>3
  <2>9. Parsed(fs, done.p, n) /\ done.p.next = k + 1 /\ done.p.inFrame = FALSE /\ done.p.broken = FALSE
    BY <2>2, <2>7, <2>8
  <2> QED BY <1>19, <2>8, <2>9, <2>6
<1>22. CASE f.op = "cont" /\ ~p.inFragment
  <2>1. PICK q : q = [p EXCEPT !.inFrame = FALSE, !.next = k1]
    OBVIOUS
  <2>2. /\ q \in Parsers /\ q.next = k + 1 /\ q.inFrame = FALSE /\ q.broken = FALSE /\ q.buf = p.buf
        /\ q.inFragment = FALSE
    BY <1>8, <1>22, <1>4, <2>1 DEF Parsers
  <2>3. done = [p |-> q, out |-> <<>>]
    BY <1>3, <1>14, <1>4, <1>22, <2>1 DEF FinishFrame
  <2>4. StartsOf(fs, k) = {}
    BY <1>12, <1>13, <1>22
  <2>5. StartsOf(fs, k + 1) = {}
    BY <1>3, <1>5, <1>22, <2>4, StartsMove
  <2>6. Fragments(fs, q)
    BY <2>2, <2>5 DEF Fragments
  <2>7. ~EndsMessage(fs, k)
    BY <1>5, <1>22, <2>4 DEF EndsMessage
  <2>8. Parsed(fs, q, n)
    BY <1>15, <2>2, <2>6
  <2>9. done.p = q /\ done.out = <<>>
    BY <2>3
  <2>10. Parsed(fs, done.p, n) /\ done.p.next = k + 1 /\ done.p.inFrame = FALSE /\ done.p.broken = FALSE
    BY <2>2, <2>8, <2>9
  <2> QED BY <1>19, <2>9, <2>10, <2>7
<1>23. CASE f.op = "cont" /\ p.inFragment
  <2>1. StartsOf(fs, k) # {}
    BY <1>8, <1>12, <1>13, <1>23 DEF Parsers
  <2>2. PICK P, T : P = Before(fs, k) /\ T = Size(fs, P) /\ k \notin P /\ T \in Nat
                           /\ Size(fs, P \cup {k}) = T + l
    <3>1. PICK P : P = Before(fs, k) /\ k \notin P
      BY <1>3, BeforeMoves
    <3>2. Size(fs, P \cup {k}) = Size(fs, P) + l /\ Size(fs, P) \in Nat
      BY <1>2, <1>3, <1>5, <1>6, <3>1, SizeOfMore
    <3>3. PICK T \in Nat : T = Size(fs, P)
      BY <3>2
    <3> QED BY <3>1, <3>2, <3>3
  <2>3. p.fragTotal = T /\ p.fragLen = Smaller(T, C)
    BY <1>3, <1>7, <1>11, <1>23, <2>2 DEF Fragments
  <2>4. PICK e \in Nat : e = Smaller(T, C) + Smaller(Smaller(l, C), C - Smaller(T, C)) /\ e = Smaller(T + l, C)
    <3>1. PICK x \in Nat : x = Smaller(T, C)
      BY <1>7, <2>2 DEF Smaller
    <3>2. PICK y \in Nat : y = Smaller(l, C)
      BY <1>7 DEF Smaller
    <3>3. PICK z \in Nat : z = Smaller(T + l, C)
      BY <1>7, <2>2 DEF Smaller
    <3>4. x = Smaller(T, C) /\ y = Smaller(l, C) /\ z = Smaller(T + l, C)
      BY <3>1, <3>2, <3>3
    <3>5. x + Smaller(y, C - x) = z
      BY <1>7, <2>2, <3>4 DEF Smaller
    <3> QED BY <3>4, <3>5
  <2>5. CASE ~f.fin
    <3>1. PICK q : q = [p EXCEPT !.inFrame = FALSE, !.next = k1, !.fragLen = e, !.fragTotal = T + l]
      OBVIOUS
    <3>2. /\ q \in Parsers /\ q.next = k + 1 /\ q.inFrame = FALSE /\ q.broken = FALSE /\ q.buf = p.buf
          /\ q.inFragment = TRUE /\ q.fragLen = e /\ q.fragTotal = T + l
      <4>1. PICK x \in Nat : x = T + l
        BY <2>2
      <4>2. q = [p EXCEPT !.inFrame = FALSE, !.next = k1, !.fragLen = e, !.fragTotal = x]
        BY <3>1, <4>1
      <4>3. p.inFragment = TRUE
        BY <1>8, <1>23 DEF Parsers
      <4> QED BY <1>8, <1>4, <2>4, <4>1, <4>2, <4>3 DEF Parsers
    <3>3. done = [p |-> q, out |-> <<>>]
      <4>1. PICK o : o = [p EXCEPT !.inFrame = FALSE, !.next = k1]
        OBVIOUS
      <4>2. o.capturedLen = Smaller(l, C) /\ o.fragLen = Smaller(T, C) /\ o.fragTotal = T /\ o \in Parsers
        BY <1>8, <1>4, <2>3, <4>1 DEF Parsers
      <4>3. q = [o EXCEPT !.fragLen = e, !.fragTotal = T + l]
        BY <1>8, <3>1, <4>1 DEF Parsers
      <4>4. PICK w : w = [o EXCEPT !.fragLen = @ + Smaller(o.capturedLen, Cap - o.fragLen),
                                   !.fragTotal = @ + f.len]
        OBVIOUS
      <4>5. done = [p |-> w, out |-> <<>>]
        BY <1>3, <1>14, <1>23, <1>4, <2>5, <4>1, <4>4 DEF FinishFrame, FragmentSize
      <4>6. w = q
        BY <1>6, <1>7, <2>4, <4>2, <4>3, <4>4
      <4> QED BY <4>5, <4>6
    <3>4. StartsOf(fs, k + 1) = StartsOf(fs, k) /\ Before(fs, k + 1) = P \cup {k}
      <4>1. fs[k].op = "cont" /\ ~fs[k].fin
        BY <1>5, <1>23, <2>5
      <4>2. Before(fs, k + 1) = Before(fs, k) \cup {k}
        BY <1>3, <2>1, <4>1, BeforeMoves
      <4>3. StartsOf(fs, k + 1) = StartsOf(fs, k)
        BY <1>3, <4>1, StartsMove
      <4> QED BY <2>2, <4>2, <4>3
    <3>5. Fragments(fs, q)
      BY <1>7, <2>1, <2>2, <2>4, <3>2, <3>4 DEF Fragments
    <3>6. ~EndsMessage(fs, k)
      BY <1>5, <1>23, <2>5 DEF EndsMessage
    <3>7. Parsed(fs, q, n)
      BY <1>15, <3>2, <3>5
    <3>8. done.p = q /\ done.out = <<>>
      BY <3>3
    <3>9. Parsed(fs, done.p, n) /\ done.p.next = k + 1 /\ done.p.inFrame = FALSE /\ done.p.broken = FALSE
      BY <3>2, <3>7, <3>8
    <3> QED BY <1>19, <3>8, <3>9, <3>6
  <2>6. CASE f.fin
    <3>1. PICK q : q = [p EXCEPT !.inFrame = FALSE, !.next = k1, !.fragLen = 0, !.fragTotal = 0,
                                 !.inFragment = FALSE]
      OBVIOUS
    <3>2. /\ q \in Parsers /\ q.next = k + 1 /\ q.inFrame = FALSE /\ q.broken = FALSE /\ q.buf = p.buf
          /\ q.inFragment = FALSE
      BY <1>8, <1>4, <3>1 DEF Parsers
    <3>3. done = [p |-> q, out |-> <<Message(d, "data", T + l, e)>>]
      BY <1>3, <1>6, <1>7, <1>8, <1>14, <1>4, <1>23, <2>3, <2>4, <2>6, <3>1 DEF FinishFrame, FragmentSize, Parsers
    <3>4. StartsOf(fs, k + 1) = {}
      BY <1>3, <1>5, <1>23, <2>6, StartsMove
    <3>5. Fragments(fs, q)
      BY <3>2, <3>4 DEF Fragments
    <3>6. EndsMessage(fs, k)
      BY <1>5, <1>23, <2>1, <2>6 DEF EndsMessage
    <3>7. Pieces(fs, k) = P \cup {k}
      BY <1>3, <1>5, <1>23, <2>1, <2>2, BeforeMoves
    <3>8. MessageOf(d, read[d], k) = Message(d, "data", T + l, e)
      BY <1>18, <1>23, <2>2, <2>4, <3>7
    <3>9. Parsed(fs, q, n)
      BY <1>15, <3>2, <3>5
    <3>10. done.p = q /\ done.out = <<MessageOf(d, read[d], k)>>
      BY <3>3, <3>8
    <3>11. Parsed(fs, done.p, n) /\ done.p.next = k + 1 /\ done.p.inFrame = FALSE /\ done.p.broken = FALSE
      BY <3>2, <3>9, <3>10
    <3> QED BY <1>19, <3>10, <3>11, <3>6
  <2> QED BY <2>5, <2>6
<1> QED BY <1>5, <1>8, <1>20, <1>21, <1>22, <1>23

\* Where push stops: it threw, or the bytes do not make the next step.
Still(p) ==
    \/ p.broken /\ p.buf = 0
    \/ ~p.broken /\ ~p.inFrame /\ p.buf < Header
    \/ ~p.broken /\ p.inFrame /\ p.remaining > 0 /\ p.buf = 0

Rank(p) == 2 * (p.next - 1) + (IF p.inFrame THEN 1 ELSE 0)

\* Each turn before that takes a header or finishes a frame.
Advances(d, r) ==
    /\ Still(r.p) => Still(Turn(d, r).p)
    /\ Still(Turn(d, r).p) \/ Rank(Turn(d, r).p) = Rank(r.p) + 1

\* What one turn does, by where the parser stands.
TurnRules(d, r, p, t) ==
    /\ p.broken => t = [p |-> [p EXCEPT !.buf = 0], out |-> r.out]
    /\ (~p.broken /\ ~p.inFrame /\ p.buf < Header) => t = r
    /\ (~p.broken /\ ~p.inFrame /\ p.buf >= Header) =>
          t = [p |-> ParseHeader(p, read[d][p.next]), out |-> r.out]
    /\ (~p.broken /\ p.inFrame /\ TakePayload(p).remaining > 0) =>
          t = [p |-> TakePayload(p), out |-> r.out]
    /\ (~p.broken /\ p.inFrame /\ TakePayload(p).remaining = 0) =>
          t = [p |-> FinishFrame(d, TakePayload(p), read[d][p.next]).p,
                out |-> r.out \o FinishFrame(d, TakePayload(p), read[d][p.next]).out]

LEMMA TurnIs ==
    ASSUME NEW d, NEW r, NEW p \in Parsers, p = r.p
    PROVE  TurnRules(d, r, p, Turn(d, r))
<1> DEFINE q == TakePayload(p)
           done == FinishFrame(d, q, read[d][p.next])
<1>1. PICK a : a = [p |-> [p EXCEPT !.buf = 0], out |-> r.out]
    OBVIOUS
<1>2. PICK b : b = [p |-> ParseHeader(p, read[d][p.next]), out |-> r.out]
    OBVIOUS
<1>3. PICK c : c = [p |-> q, out |-> r.out]
    OBVIOUS
<1>4. PICK e : e = [p |-> done.p, out |-> r.out \o done.out]
    OBVIOUS
<1>5. PICK x \in BOOLEAN, y \in BOOLEAN : x = p.broken /\ y = p.inFrame
    BY DEF Parsers
<1>6. PICK n \in Nat, m \in Int : n = p.buf /\ m = q.remaining
  <2>1. PICK l \in Nat, n \in Nat : n = p.buf /\ l = p.remaining
    BY DEF Parsers
  <2>2. q.remaining = l - Smaller(l, n) /\ Smaller(l, n) \in Nat
    BY <2>1 DEF TakePayload, Smaller, Parsers
  <2> QED BY <2>1, <2>2
<1>7. Turn(d, r) = CASE x -> a
                     [] ~x /\ ~y /\ n < Header -> r
                     [] ~x /\ ~y /\ n >= Header -> b
                     [] ~x /\ y /\ m > 0 -> c
                     [] ~x /\ y /\ m = 0 -> e
    BY <1>1, <1>2, <1>3, <1>4, <1>5, <1>6, Zenon DEF Turn
<1> HIDE DEF q, done
<1>8. /\ x => Turn(d, r) = a
      /\ (~x /\ ~y /\ n < Header) => Turn(d, r) = r
      /\ (~x /\ ~y /\ n >= Header) => Turn(d, r) = b
      /\ (~x /\ y /\ m > 0) => Turn(d, r) = c
      /\ (~x /\ y /\ m = 0) => Turn(d, r) = e
    BY <1>7 DEF Header
<1> QED BY <1>1, <1>2, <1>3, <1>4, <1>5, <1>6, <1>8 DEF q, done, TurnRules

LEMMA TurnReads ==
    ASSUME TunnelAssumption, NEW d, NEW n, Stream(read[d], n),
           NEW told, told \in Seq(Tellable(d)), NEW r \in Reading(d, n, told)
    PROVE  Turn(d, r) \in Reading(d, n, told) /\ Advances(d, r)
<1>1. PICK fs : fs = read[d] /\ Stream(fs, n)
    OBVIOUS
<1>2. PICK p, o : p = r.p /\ o = r.out /\ r = [p |-> p, out |-> o]
    BY DEF Reading
<1>3. /\ Parsed(fs, p, n) /\ p \in Parsers /\ o \in Seq(Tellable(d))
      /\ told \o o = Told(d, read[d], p.next - 1)
    BY <1>1, <1>2 DEF Reading
<1>4. PICK k, b, m \in Nat : k = p.next /\ b = p.buf /\ m = p.remaining
    BY <1>3 DEF Parsers
<1>5. p.broken \in BOOLEAN /\ p.inFrame \in BOOLEAN
    BY <1>3 DEF Parsers
<1>6. PICK t : t = Turn(d, r)
    OBVIOUS
<1>7. TurnRules(d, r, p, t)
    BY <1>2, <1>3, <1>6, TurnIs
<1>8. ASSUME NEW q, NEW out, t = [p |-> q, out |-> out], Parsed(fs, q, n), out \in Seq(Tellable(d)),
             told \o out = Told(d, read[d], q.next - 1)
      PROVE  t \in Reading(d, n, told)
  <2>1. q \in Parsers
    BY <1>8 DEF Parsed
  <2>2. t \in [p : Parsers, out : Seq(Tellable(d))] /\ t.p = q /\ t.out = out
    BY <1>8, <2>1
  <2> QED BY <1>1, <1>8, <2>2 DEF Reading
<1> SUFFICES /\ t \in Reading(d, n, told) /\ (Still(p) => Still(t.p))
             /\ Still(t.p) \/ Rank(t.p) = Rank(p) + 1
    BY <1>2, <1>6 DEF Advances
<1>9. CASE p.broken = TRUE
  <2>1. PICK q : q = [p EXCEPT !.buf = 0]
    OBVIOUS
  <2>2. /\ q \in Parsers /\ q.broken = TRUE /\ q.buf = 0 /\ q.next = p.next
        /\ q.inFragment = p.inFragment /\ q.fragLen = p.fragLen /\ q.fragTotal = p.fragTotal
    BY <1>3, <1>9, <2>1 DEF Parsers
  <2>3. t = [p |-> q, out |-> o]
    BY <1>7, <1>2, <1>6, <1>9, <2>1 DEF TurnRules
  <2>4. Position(fs, q, n) /\ Fragments(fs, q)
    BY <1>3, <1>9, <2>2 DEF Parsed, Position, Fragments
  <2>5. Parsed(fs, q, n)
    BY <1>3, <2>2, <2>4 DEF Parsed
  <2>6. t \in Reading(d, n, told)
    BY <1>3, <1>8, <2>2, <2>3, <2>5
  <2>7. Still(t.p)
    BY <2>2, <2>3 DEF Still
  <2> QED BY <2>6, <2>7
<1>10. CASE p.broken = FALSE /\ p.inFrame = FALSE /\ b < Header
  <2>1. t = r
    BY <1>7, <1>2, <1>4, <1>6, <1>10 DEF TurnRules
  <2>2. Still(p)
    BY <1>4, <1>10 DEF Still
  <2> QED BY <1>2, <2>1, <2>2
<1>11. CASE p.broken = FALSE /\ p.inFrame = FALSE /\ b >= Header
  <2>1. PICK q : q = ParseHeader(p, fs[p.next])
    OBVIOUS
  <2>2. t = [p |-> q, out |-> o]
    BY <1>7, <1>1, <1>2, <1>4, <1>6, <1>11, <2>1 DEF TurnRules
  <2>3. /\ Parsed(fs, q, n) /\ q.next = p.next /\ q \in Parsers
        /\ (q.broken => q.buf = 0) /\ (q.broken \/ q.inFrame)
    <3>1. p.buf >= Header /\ ~p.broken /\ ~p.inFrame
      BY <1>4, <1>11
    <3>2. /\ Parsed(fs, q, n) /\ q.next = p.next
          /\ (q.broken => q.buf = 0) /\ (q.broken \/ q.inFrame)
      BY <1>1, <1>3, <2>1, <3>1, HeaderReads
    <3> QED BY <3>2 DEF Parsed
  <2>4. t \in Reading(d, n, told)
    BY <1>3, <1>8, <2>2, <2>3
  <2>5. ~Still(p)
    BY <1>4, <1>11 DEF Still, Header
  <2>6. Still(t.p) \/ Rank(t.p) = Rank(p) + 1
    <3>1. CASE q.broken
      BY <2>2, <2>3, <3>1 DEF Still
    <3>2. CASE ~q.broken
      <4>1. q.inFrame /\ ~p.inFrame
        BY <1>11, <2>3, <3>2
      <4>2. Rank(q) = 2 * (k - 1) + 1 /\ Rank(p) = 2 * (k - 1) + 0
        BY <1>4, <2>3, <4>1 DEF Rank
      <4>3. Rank(q) = Rank(p) + 1
        BY <4>2
      <4> QED BY <2>2, <4>3
    <3> QED BY <3>1, <3>2
  <2> QED BY <2>4, <2>5, <2>6
<1>12. CASE p.broken = FALSE /\ p.inFrame = TRUE
  <2>1. PICK q : q = TakePayload(p)
    OBVIOUS
  <2>2. /\ Parsed(fs, q, n) /\ q.next = p.next /\ q.inFrame = TRUE /\ q.broken = FALSE
        /\ (q.remaining > 0 => q.buf = 0)
    <3>1. ~p.broken /\ p.inFrame
      BY <1>12
    <3>2. Parsed(fs, p, n) /\ Stream(fs, n)
      BY <1>1, <1>3
    <3>3. /\ Parsed(fs, TakePayload(p), n)
          /\ TakePayload(p).next = p.next
          /\ TakePayload(p).inFrame = TRUE /\ TakePayload(p).broken = FALSE
          /\ TakePayload(p).remaining > 0 => TakePayload(p).buf = 0
      BY <3>1, <3>2, PayloadReads
    <3> QED BY <2>1, <3>3
  <2>3. q \in Parsers /\ q.remaining \in Nat
    BY <2>2 DEF Parsed, Parsers
  <2>4. CASE q.remaining > 0
    <3>1. t = [p |-> q, out |-> o]
      BY <1>7, <1>2, <1>6, <1>12, <2>1, <2>4 DEF TurnRules
    <3>2. t \in Reading(d, n, told)
      BY <1>3, <1>8, <2>2, <3>1
    <3>3. Still(t.p)
      BY <2>2, <2>4, <3>1 DEF Still
    <3> QED BY <3>2, <3>3
  <2>5. CASE q.remaining = 0
    <3>1. PICK done : done = FinishFrame(d, q, fs[p.next])
      OBVIOUS
    <3>2. t = [p |-> done.p, out |-> o \o done.out]
      BY <1>7, <1>1, <1>2, <1>6, <1>12, <2>1, <2>5, <3>1 DEF TurnRules
    <3>3. Finished(d, q, n, done)
      BY <1>1, <2>2, <2>5, <3>1, FinishReads
    <3>4. /\ Parsed(fs, done.p, n) /\ done.p.next = k + 1 /\ done.p.inFrame = FALSE
          /\ done.out \in Seq(Tellable(d)) /\ Told(d, read[d], k) = Told(d, read[d], k - 1) \o done.out
      BY <1>1, <1>4, <2>2, <3>3 DEF Finished
    <3>5. o \o done.out \in Seq(Tellable(d)) /\ told \o (o \o done.out) = (told \o o) \o done.out
      <4>1. PICK M, x, y : M = Tellable(d) /\ x = done.out /\ y = told \o o
        OBVIOUS
      <4>2. told \in Seq(M) /\ o \in Seq(M) /\ x \in Seq(M)
        BY <1>3, <3>4, <4>1
      <4>3. o \o x \in Seq(M)
        BY <4>2, ConcatProperties
      <4>4. (told \o o) \o x = told \o (o \o x)
        BY <4>2, ConcatAssociative
      <4> QED BY <4>1, <4>3, <4>4
    <3>6. told \o (o \o done.out) = Told(d, read[d], done.p.next - 1)
      <4>1. k + 1 - 1 = k
        BY <1>4
      <4>2. Told(d, read[d], done.p.next - 1) = Told(d, read[d], k)
        <5>1. done.p.next - 1 = k
          BY <3>4, <4>1
        <5> QED BY <5>1
      <4>3. told \o o = Told(d, read[d], k - 1)
        BY <1>3, <1>4
      <4>4. Told(d, read[d], k) = (told \o o) \o done.out
        BY <3>4, <4>3
      <4> QED BY <3>5, <4>2, <4>4
    <3>7. t \in Reading(d, n, told)
      BY <1>8, <3>2, <3>4, <3>5, <3>6
    <3>8. ~Still(p)
      <4>1. ASSUME m > 0, b = 0 PROVE FALSE
        <5>1. q.remaining = m
          BY <1>3, <1>4, <2>1, <4>1 DEF TakePayload, Smaller, Parsers
        <5> QED BY <2>5, <4>1, <5>1
      <4>2. ~(m > 0 /\ b = 0)
        BY <4>1
      <4> QED BY <1>4, <1>12, <4>2 DEF Still
    <3>9. Rank(p) = 2 * (k - 1) + 1
      BY <1>4, <1>12 DEF Rank
    <3>10. t.p.next = k + 1 /\ t.p.inFrame = FALSE
      BY <3>2, <3>4
    <3>11. Rank(t.p) = 2 * (k + 1 - 1) + 0
      BY <3>10 DEF Rank
    <3>12. Rank(t.p) = Rank(p) + 1
      BY <1>4, <3>9, <3>11
    <3> QED BY <3>7, <3>8, <3>12
  <2> QED BY <2>3, <2>4, <2>5
<1>13. b < Header \/ b >= Header
    BY <1>4 DEF Header
<1> QED BY <1>5, <1>9, <1>10, <1>11, <1>12, <1>13

\* So the turns that Push counts are enough, and what comes out of them is what
\* the frames that were finished have to tell.
LEMMA PushReads ==
    ASSUME TunnelAssumption, NEW d, NEW n, Stream(read[d], n),
           NEW p, Parsed(read[d], p, n), NEW told, told = Told(d, read[d], p.next - 1)
    PROVE  Push(d, p) \in Reading(d, n, told) /\ Still(Push(d, p).p)
<1>1. PICK L \in Nat : L = Len(read[d])
    BY LenProperties DEF Stream
<1>2. PICK K \in Nat : K = Turns(d) /\ K = 2 * L + 2
    BY <1>1 DEF Turns
<1>3. PICK A : A = Reading(d, n, told)
    OBVIOUS
<1>4. PICK a : a = [p |-> p, out |-> <<>>]
    OBVIOUS
<1>5. told \in Seq(Tellable(d))
  <2>1. p.next \in 1..(L + 1) /\ read[d] \in Seq(Frames)
    BY <1>1 DEF Parsed, Stream
  <2>2. p.next - 1 \in 0..L
    BY <2>1
  <2> QED BY <1>1, <2>1, <2>2, ToldIs
<1>6. a \in A
  <2>1. <<>> \in Seq(Tellable(d)) /\ told \o <<>> = told
    BY <1>5, EmptySeq, ConcatEmptySeq
  <2>2. p \in Parsers
    BY DEF Parsed
  <2> QED BY <1>3, <1>4, <2>1, <2>2 DEF Reading
<1>7. \A r \in A : Turn(d, r) \in A /\ Advances(d, r)
    BY <1>3, <1>5, TurnReads
<1> DEFINE turn[k \in 0..Turns(d)] == IF k = 0 THEN [p |-> p, out |-> <<>>] ELSE Turn(d, turn[k - 1])
           step == [k \in 1..K |-> [r \in A |-> Turn(d, r)]]
<1>8. turn = CHOOSE f : f = [k \in 0..K |-> IF k = 0 THEN a ELSE Turn(d, f[k - 1])]
    BY <1>2, <1>4
<1>9. Push(d, p) = turn[K]
    BY <1>2 DEF Push
<1>10. \A k \in 1..K, r \in A : step[k][r] = Turn(d, r)
    OBVIOUS
<1> HIDE DEF turn, step
<1>11. PICK f \in [0..K -> A] : f[0] = a /\ \A k \in 1..K : f[k] = step[k][f[k - 1]]
  <2>1. Steps(step, K, A)
    BY <1>7, <1>10 DEF Steps
  <2>2. \E f : Recurs(f, K, A, a, step)
    BY <1>6, <2>1, Recursion
  <2> QED BY <2>2 DEF Recurs
<1>12. \A k \in 0..K : f[k] = IF k = 0 THEN a ELSE Turn(d, f[k - 1])
  <2>1. \A k \in 0..K : k # 0 => k \in 1..K /\ f[k - 1] \in A
    OBVIOUS
  <2> QED BY <1>10, <1>11, <2>1
<1>13. f = [k \in 0..K |-> IF k = 0 THEN a ELSE Turn(d, f[k - 1])]
    BY <1>12
<1>14. turn = [k \in 0..K |-> IF k = 0 THEN a ELSE Turn(d, turn[k - 1])]
    BY <1>8, <1>13
<1>15. turn[0] = a /\ \A k \in 1..K : turn[k] = Turn(d, turn[k - 1])
  <2>1. 0 \in 0..K /\ \A k \in 1..K : k \in 0..K /\ k # 0
    OBVIOUS
  <2> QED BY <1>14, <2>1
<1>16. \A k \in Nat : k <= K => turn[k] \in A /\ (Still(turn[k].p) \/ Rank(turn[k].p) >= k)
  <2> DEFINE S == {k \in Nat : k <= K => turn[k] \in A /\ (Still(turn[k].p) \/ Rank(turn[k].p) >= k)}
  <2>1. 0 \in S
    <3>1. a.p = p /\ p.next \in 1..(L + 1)
      BY <1>1, <1>4 DEF Parsed
    <3>2. PICK x \in 1..(L + 1) : x = p.next
      BY <3>1
    <3>3. Rank(p) >= 0
      BY <3>2 DEF Rank
    <3> QED BY <1>6, <1>15, <3>1, <3>3
  <2>2. ASSUME NEW k \in Nat, k \in S PROVE k + 1 \in S
    <3> SUFFICES ASSUME k + 1 <= K
                 PROVE  turn[k + 1] \in A /\ (Still(turn[k + 1].p) \/ Rank(turn[k + 1].p) >= k + 1)
      OBVIOUS
    <3>1. PICK r \in A : r = turn[k] /\ (Still(r.p) \/ Rank(r.p) >= k)
      BY <2>2
    <3>2. PICK j \in 1..K : j = k + 1 /\ j - 1 = k
      OBVIOUS
    <3>3. turn[k + 1] = Turn(d, r)
      BY <1>15, <3>1, <3>2
    <3>4. Turn(d, r) \in A /\ Advances(d, r)
      BY <1>7
    <3>5. PICK x \in Int : x = Rank(r.p)
      <4>1. r.p.next \in Nat
        BY <1>3 DEF Reading, Parsers
      <4> QED BY <4>1 DEF Rank
    <3>6. Still(Turn(d, r).p) \/ Rank(Turn(d, r).p) >= k + 1
      BY <3>1, <3>4, <3>5 DEF Advances
    <3> QED BY <3>3, <3>4, <3>6
  <2>3. \A k \in Nat : k \in S
    <3> HIDE DEF S
    <3> QED BY <2>1, <2>2, ByInduction
  <2> QED BY <2>3
<1>17. PICK r \in A : r = turn[K] /\ (Still(r.p) \/ Rank(r.p) >= K)
    BY <1>16
<1>18. Rank(r.p) < K \/ Still(r.p)
  <2>1. PICK q : q = r.p /\ Parsed(read[d], q, n)
    BY <1>3 DEF Reading
  <2>2. PICK x \in 1..(L + 1) : x = q.next
    BY <1>1, <2>1 DEF Parsed
  <2>3. CASE q.inFrame
    <3>1. Rank(q) = 2 * (x - 1) + 1
      BY <2>2, <2>3 DEF Rank
    <3> QED BY <1>2, <2>1, <2>2, <3>1
  <2>4. CASE ~q.inFrame
    <3>1. Rank(q) = 2 * (x - 1) + 0
      BY <2>2, <2>4 DEF Rank
    <3> QED BY <1>2, <2>1, <2>2, <3>1
  <2> QED BY <2>3, <2>4
<1>19. Still(r.p)
  <2>1. PICK x \in Int : x = Rank(r.p)
    <3>1. r.p.next \in Nat
      BY <1>3 DEF Reading, Parsers
    <3> QED BY <3>1 DEF Rank
  <2> QED BY <1>17, <1>18, <2>1
<1> QED BY <1>3, <1>9, <1>17, <1>19

\* A parser that waits has finished what has arrived.
LEMMA StillTells ==
    ASSUME NEW d, NEW n, Stream(read[d], n),
           NEW p, Parsed(read[d], p, n), Still(p)
    PROVE  Expected(d, read[d], n) = Told(d, read[d], p.next - 1)
<1>1. PICK fs \in Seq(Frames) : fs = read[d]
    BY DEF Stream
<1>2. PICK L \in Nat : L = Len(fs) /\ DOMAIN fs = 1..L
    BY LenProperties
<1>3. PICK k \in Nat : k = p.next /\ k >= 1 /\ k <= L + 1
  <2>1. p.next \in 1..(L + 1)
    BY <1>1, <1>2 DEF Parsed
  <2> QED BY <2>1
<1>4. PICK m \in Nat : m = k - 1 /\ m \in 0..L
    BY <1>3
<1>5. PICK u \in Nat : u = Units(fs, m)
    BY <1>2, <1>4, UnitsAre
<1>6. \A j \in 0..L : Units(fs, j) \in Nat
    BY <1>2, UnitsAre
<1>7. /\ \A j \in 0..L : j <= m => Units(fs, j) <= u
      /\ \A j \in 0..L : k <= j /\ k \in 0..L => Units(fs, k) <= Units(fs, j)
    BY <1>2, <1>4, <1>5, UnitsGrow
<1>8. \A j \in 1..m : fs[j].op # "huge"
    BY <1>1, <1>3, <1>4 DEF Parsed
<1>9. Position(fs, p, n) /\ p \in Parsers /\ n \in Nat
    BY <1>1 DEF Parsed, Stream
<1>10. u <= n
  <2>1. CASE p.broken
    BY <1>3, <1>4, <1>5, <1>9, <2>1 DEF Position
  <2>2. CASE ~p.broken /\ ~p.inFrame
    <3>1. PICK b \in Nat : b = p.buf
      BY <1>9 DEF Parsers
    <3>2. n = u + b
      BY <1>3, <1>4, <1>5, <1>9, <2>2, <3>1 DEF Position
    <3> QED BY <1>9, <3>2
  <2>3. CASE ~p.broken /\ p.inFrame
    <3>1. PICK b, c \in Nat : b = p.buf /\ c = p.remaining
      BY <1>9 DEF Parsers
    <3>2. k \in 1..L
      BY <1>2, <1>3, <1>9, <2>3 DEF Position
    <3>3. PICK l \in Nat : l = fs[k].len
      BY <1>2, <3>2, FrameAt
    <3>4. n = u + 2 + (l - c) + b /\ c <= l
      BY <1>3, <1>4, <1>5, <1>9, <2>3, <3>1, <3>3 DEF Position, Header
    <3> QED BY <1>9, <3>1, <3>4
  <2> QED BY <2>1, <2>2, <2>3
<1>11. ASSUME k <= L PROVE fs[k].op = "huge" \/ Units(fs, k) > n
  <2>1. k \in 1..L
    BY <1>3, <1>11
  <2>2. PICK l \in Nat : l = fs[k].len
    BY <1>2, <2>1, FrameAt
  <2>3. Units(fs, k) = u + 2 + l
    BY <1>2, <1>4, <1>5, <2>1, <2>2, UnitsAre DEF Header
  <2>4. PICK b, c \in Nat : b = p.buf /\ c = p.remaining
    BY <1>9 DEF Parsers
  <2>5. CASE p.broken
    BY <1>3, <1>9, <2>5 DEF Position
  <2>6. CASE ~p.broken /\ ~p.inFrame
    <3>1. n = u + b /\ b < 2
      BY <1>3, <1>4, <1>5, <1>9, <2>4, <2>6 DEF Position, Still, Header
    <3> QED BY <2>2, <2>3, <2>4, <3>1
  <2>7. CASE ~p.broken /\ p.inFrame
    <3>1. n = u + 2 + (l - c) + b /\ c <= l /\ b = 0 /\ c > 0
      BY <1>3, <1>4, <1>5, <1>9, <2>2, <2>4, <2>7 DEF Position, Still, Header
    <3> QED BY <2>2, <2>3, <2>4, <3>1
  <2> QED BY <2>5, <2>6, <2>7
<1>12. Arrived(fs, n) = 1..m
  <2>1. Arrived(fs, n) = {i \in 1..L : Units(fs, i) <= n /\ \A j \in 1..i : fs[j].op # "huge"}
    BY <1>1, <1>2 DEF Arrived
  <2>2. ASSUME NEW i \in 1..m PROVE i \in Arrived(fs, n)
    <3>1. i \in 0..L /\ i \in 1..L /\ i <= m
      BY <1>4
    <3>2. Units(fs, i) <= n
      <4>1. PICK v \in Nat : v = Units(fs, i) /\ v <= u
        BY <1>6, <1>7, <3>1
      <4> QED BY <1>9, <1>10, <4>1
    <3>3. \A j \in 1..i : j \in 1..m
      BY <1>4
    <3> QED BY <1>8, <2>1, <3>1, <3>2, <3>3
  <2>3. ASSUME NEW i \in 1..L, i \in Arrived(fs, n), i > m PROVE FALSE
    <3>1. k <= L /\ k \in 1..i /\ k \in 0..L /\ k <= i /\ i \in 0..L
      BY <1>3, <1>4, <2>3
    <3>2. Units(fs, k) > n
      BY <1>11, <2>1, <2>3, <3>1
    <3>3. PICK v \in Nat, w \in Nat : v = Units(fs, k) /\ w = Units(fs, i) /\ v <= w
      BY <1>6, <1>7, <3>1
    <3> QED BY <1>9, <2>1, <2>3, <3>2, <3>3
  <2>4. Arrived(fs, n) \in SUBSET (1..L)
    BY <2>1
  <2>5. \A i \in 1..L : ~(i > m) => i \in 1..m
    BY <1>4
  <2> QED BY <2>2, <2>3, <2>4, <2>5
<1>13. Max({0} \cup Arrived(fs, n)) = m
  <2>1. /\ m \in {0} \cup Arrived(fs, n)
        /\ \A i \in {0} \cup Arrived(fs, n) : m >= i /\ i \in Int
    BY <1>4, <1>12
  <2>2. ASSUME NEW x \in {0} \cup Arrived(fs, n), \A i \in {0} \cup Arrived(fs, n) : x >= i
        PROVE  x = m
    <3>1. x >= m /\ m >= x /\ x \in Int
      BY <2>1, <2>2
    <3> QED BY <3>1
  <2> QED BY <2>1, <2>2 DEF Max
<1> QED BY <1>1, <1>3, <1>4, <1>13 DEF Expected

-----------------------------------------------------------------------------
(* The connection: between two chunks both parsers wait, and the calls that   *)
(* were made are the first of what their frames have to tell.                 *)

\* All of it, as long as the connection has not reached its limit.
Heard(d) ==
    /\ messages[d] \in Seq(Tellable(d))
    /\ \E rest \in Seq(Tellable(d)), i \in Nat :
          /\ i = parser[d].next - 1 /\ messages[d] \o rest = Told(d, read[d], i)
          /\ Captured < MaxMessages => rest = <<>>

Waiting(d) ==
    /\ Stream(read[d], delivered[d])
    /\ Parsed(read[d], parser[d], delivered[d]) /\ Still(parser[d])

\* Nothing has come through before the upstream socket is connected.
Unheard ==
    \A d \in Directions : delivered[d] = 0 /\ parser[d] = NewParser /\ messages[d] = <<>>

TunnelInv ==
    /\ script \in Scripts
    /\ DOMAIN read = Directions /\ read = [d \in Directions |-> read[d]]
    /\ \A d \in Directions : InStep(d) => read[d] = Behind(d)
    /\ phase = "dialing" => Unheard
    /\ delivered = [d \in Directions |-> delivered[d]]
    /\ parser = [d \in Directions |-> parser[d]]
    /\ messages = [d \in Directions |-> messages[d]]
    /\ \A d \in Directions : Waiting(d) /\ Heard(d)
    /\ Captured <= MaxMessages
    /\ Captured > 0 => row = TRUE
    /\ phase = "tunnel" => row = TRUE

LEMMA ScriptStays ==
    ASSUME read' = read
    PROVE  \A d, i : Tellable(d)' = Tellable(d) /\ Told(d, read[d], i)' = Told(d, read[d], i)
<1>1. \A d, i : MessageOf(d, read[d], i)' = MessageOf(d, read[d], i)
    BY DEF MessageOf
<1>2. \A d : Tellable(d)' = Tellable(d)
    BY <1>1 DEF Tellable, TellableOf
<1>3. \A d, i : Told(d, read[d], i)' = Told(d, read[d], i)
    BY <1>1 DEF Told
<1> QED BY <1>2, <1>3

LEMMA ChunkArrives ==
    ASSUME NEW fs \in Seq(Frames), NEW n \in Nat, NEW p, Parsed(fs, p, n), NEW m \in Nat
    PROVE  /\ Parsed(fs, [p EXCEPT !.buf = @ + m], n + m)
           /\ [p EXCEPT !.buf = @ + m].next = p.next
<1>1. PICK b \in Nat : b = p.buf
    BY DEF Parsed, Parsers
<1>2. PICK q : q = [p EXCEPT !.buf = @ + m]
    OBVIOUS
<1>3. /\ q \in Parsers /\ q.buf = b + m /\ q.next = p.next /\ q.inFrame = p.inFrame
      /\ q.broken = p.broken /\ q.remaining = p.remaining /\ q.capturedLen = p.capturedLen
      /\ q.inFragment = p.inFragment /\ q.fragLen = p.fragLen /\ q.fragTotal = p.fragTotal
  <2>1. PICK x \in Nat : x = b + m
    OBVIOUS
  <2>2. q = [p EXCEPT !.buf = x]
    BY <1>1, <1>2, <2>1
  <2> QED BY <2>1, <2>2 DEF Parsed, Parsers
<1>4. Position(fs, q, n + m)
  <2>1. Position(fs, p, n)
    BY DEF Parsed
  <2>2. PICK L \in Nat : L = Len(fs)
    BY LenProperties
  <2>3. PICK k \in 1..(L + 1) : k = p.next
    BY <2>2 DEF Parsed
  <2>4. PICK u \in Nat : u = Units(fs, k - 1)
    <3>1. k - 1 \in 0..L
      OBVIOUS
    <3> QED BY <2>2, <3>1, UnitsAre
  <2>5. CASE p.broken
    <3>1. u <= n + m
      BY <2>1, <2>3, <2>4, <2>5 DEF Position
    <3> QED BY <1>3, <2>1, <2>3, <2>4, <2>5, <3>1 DEF Position
  <2>6. CASE ~p.broken /\ ~p.inFrame
    <3>1. n = u + b
      BY <1>1, <2>1, <2>3, <2>4, <2>6 DEF Position
    <3>2. n + m = u + (b + m)
      BY <3>1
    <3> QED BY <1>3, <2>3, <2>4, <2>6, <3>2 DEF Position
  <2>7. CASE ~p.broken /\ p.inFrame
    <3>1. k \in 1..L
      BY <2>1, <2>2, <2>3, <2>7 DEF Position
    <3>2. PICK l, c \in Nat : l = fs[k].len /\ c = p.remaining
      BY <2>2, <3>1, FrameAt DEF Parsed, Parsers
    <3>3. n = u + 2 + (l - c) + b
      BY <1>1, <2>1, <2>3, <2>4, <2>7, <3>2 DEF Position, Header
    <3>4. n + m = u + 2 + (l - c) + (b + m)
      BY <3>3
    <3> QED BY <1>3, <2>1, <2>3, <2>4, <2>7, <3>2, <3>4 DEF Position, Header
  <2> QED BY <2>5, <2>6, <2>7
<1>5. Fragments(fs, q)
    BY <1>3 DEF Parsed, Fragments
<1>6. Parsed(fs, q, n + m)
    BY <1>3, <1>4, <1>5 DEF Parsed
<1> QED BY <1>2, <1>3, <1>6

\* What is kept of a chunk's messages, against what there was to keep.
Kept(M, old, out, room) ==
    /\ old \o SubSeq(out, 1, room) \in Seq(M)
    /\ Len(old \o SubSeq(out, 1, room)) = Len(old) + room

Remains(M, old, rest, out, room) ==
    \E r \in Seq(M) : /\ (old \o SubSeq(out, 1, room)) \o r = (old \o rest) \o out
                      /\ (rest = <<>> /\ room = Len(out)) => r = <<>>

LEMMA Keeping ==
    ASSUME NEW M, NEW old \in Seq(M), NEW rest \in Seq(M), NEW out \in Seq(M),
           NEW room \in 0..Len(out)
    PROVE  Kept(M, old, out, room) /\ (rest = <<>> \/ room = 0 => Remains(M, old, rest, out, room))
<1>1. PICK L \in Nat : L = Len(out) /\ \A i \in 1..L : out[i] \in M
    BY LenProperties, ElementOfSeq
<1>2. PICK k \in Nat : k = room /\ k <= L /\ k \in 0..L /\ k \in 0..Len(out) /\ 1 \in 1..(Len(out) + 1)
    BY <1>1
<1>3. PICK pre, post : pre = SubSeq(out, 1, k) /\ post = SubSeq(out, k + 1, L)
    OBVIOUS
<1>4. pre \in Seq(M) /\ Len(pre) = k
  <2>1. \A i \in 1..k : out[i] \in M
    BY <1>1, <1>2
  <2>2. pre \in Seq(M) /\ Len(pre) = IF 1 <= k THEN k - 1 + 1 ELSE 0
    BY <1>3, <2>1, SubSeqProperties
  <2> QED BY <2>2
<1>5. post \in Seq(M) /\ (k = L => post = <<>>)
  <2>1. \A i \in (k + 1)..L : out[i] \in M
    BY <1>1, <1>2
  <2>2. post \in Seq(M)
    BY <1>3, <2>1, SubSeqProperties
  <2>3. k = L => post = <<>>
    BY <1>3, SubSeqEmpty
  <2> QED BY <2>2, <2>3
<1>6. pre \o post = out
  <2>1. SubSeq(out, 1, k) \o SubSeq(out, k + 1, L) = SubSeq(out, 1, L)
    <3>1. 1 \in 1..(Len(out) + 1) /\ k \in (1 - 1)..Len(out) /\ L \in k..Len(out)
      BY <1>1, <1>2
    <3> QED BY <3>1, ConcatAdjacentSubSeq
  <2>2. SubSeq(out, 1, L) = out
    BY <1>1, SubSeqFull
  <2> QED BY <1>3, <2>1, <2>2
<1>7. old \o pre \in Seq(M) /\ Len(old \o pre) = Len(old) + k
    BY <1>4, ConcatProperties
<1>8. ASSUME rest = <<>> PROVE Remains(M, old, rest, out, room)
  <2>1. (old \o pre) \o post = old \o (pre \o post)
    <3>1. pre \in Seq(M) /\ post \in Seq(M) /\ old \in Seq(M)
      BY <1>4, <1>5
    <3>2. \A x, y \in Seq(M) : (old \o x) \o y = old \o (x \o y)
      BY ConcatAssociative, SMTT(30)
    <3> QED BY <3>1, <3>2
  <2>2. old \o rest = old
    BY <1>8, ConcatEmptySeq
  <2> QED BY <1>1, <1>2, <1>3, <1>5, <1>6, <1>7, <2>1, <2>2 DEF Remains
<1>9. ASSUME rest # <<>>, k = 0 PROVE Remains(M, old, rest, out, room)
  <2>1. old \o pre = old
    <3>1. pre = <<>>
      BY <1>3, <1>9, SubSeqEmpty
    <3> QED BY <3>1, ConcatEmptySeq
  <2>2. old \o (rest \o out) = (old \o rest) \o out /\ rest \o out \in Seq(M)
    <3>1. old \o (rest \o out) = (old \o rest) \o out
      BY ConcatAssociative, SMTT(30)
    <3>2. rest \o out \in Seq(M)
      BY ConcatProperties
    <3> QED BY <3>1, <3>2
  <2> QED BY <1>2, <1>3, <1>7, <1>9, <2>1, <2>2 DEF Remains
<1>10. Kept(M, old, out, room)
    BY <1>2, <1>3, <1>7 DEF Kept
<1> QED BY <1>2, <1>8, <1>9, <1>10

LEMMA ObserveKeeps ==
    ASSUME TunnelAssumption, TunnelInv, NEW d \in Directions, NEW m \in Nat, m <= Left(d),
           Observe(d, m), read' = read
    PROVE  /\ delivered' = [e \in Directions |-> delivered'[e]]
           /\ parser' = [e \in Directions |-> parser'[e]]
           /\ messages' = [e \in Directions |-> messages'[e]]
           /\ \A e \in Directions : Waiting(e)' /\ Heard(e)'
           /\ Captured' <= MaxMessages
<1>1. PICK fs \in Seq(Frames) : fs = read[d]
    BY DEF TunnelInv, Waiting, Stream
<1>2. PICK n \in Nat : n = delivered[d] /\ Stream(fs, n)
    BY <1>1 DEF TunnelInv, Waiting, Stream
<1>3. PICK p : p = parser[d] /\ Parsed(fs, p, n) /\ Still(p)
    BY <1>1, <1>2 DEF TunnelInv, Waiting
<1>4. PICK q : q = [p EXCEPT !.buf = @ + m]
    OBVIOUS
<1>5. Parsed(fs, q, n + m) /\ q.next = p.next
    BY <1>3, <1>4, ChunkArrives
<1>6. Stream(fs, n + m)
  <2>1. PICK L \in Nat : L = Len(fs)
    BY LenProperties
  <2>2. PICK u \in Nat : u = Units(fs, L)
    BY <2>1, UnitsAre
  <2>3. m <= u - n
    BY <1>1, <1>2, <2>1, <2>2 DEF Left
  <2>4. n + m <= u /\ n + m \in Nat
    BY <2>3
  <2> QED BY <2>1, <2>2, <2>4 DEF Stream
<1>7. PICK told : told = Told(d, read[d], p.next - 1)
    OBVIOUS
<1>8. PICK r : r = Push(d, q)
    OBVIOUS
<1>9. r \in Reading(d, n + m, told) /\ Still(r.p)
    BY <1>1, <1>5, <1>6, <1>7, <1>8, PushReads
<1>10. /\ Parsed(fs, r.p, n + m) /\ r.out \in Seq(Tellable(d)) /\ told \o r.out = Told(d, read[d], r.p.next - 1)
    BY <1>1, <1>9 DEF Reading
<1>11. PICK L \in Nat : L = Len(r.out)
    BY <1>10, LenProperties
<1>12. PICK c, x \in Nat : c = Captured /\ x = MaxMessages /\ c <= x
  <2>1. Captured \in Nat
    <3>1. \A e \in Directions : Len(messages[e]) \in Nat
      BY LenProperties DEF TunnelInv, Heard
    <3>2. PICK a, b \in Nat : a = Len(messages["c2s"]) /\ b = Len(messages["s2c"])
      BY <3>1 DEF Directions
    <3>3. Captured = a + b
      BY <3>2 DEF Captured
    <3> QED BY <3>3
  <2> QED BY <2>1 DEF TunnelInv, TunnelAssumption
<1>13. PICK room \in 0..L : room = Smaller(L, x - c)
  <2>1. PICK y \in Nat : y = x - c
    BY <1>12
  <2>2. Smaller(L, y) \in 0..L
    BY DEF Smaller
  <2> QED BY <2>1, <2>2
<1>14. /\ parser' = [parser EXCEPT ![d] = r.p]
       /\ messages' = [messages EXCEPT ![d] = @ \o SubSeq(r.out, 1, room)]
       /\ delivered' = [delivered EXCEPT ![d] = @ + m]
  <2>1. q = [parser[d] EXCEPT !.buf = @ + m]
    BY <1>3, <1>4
  <2> QED BY <1>8, <1>11, <1>12, <1>13, <2>1 DEF Observe
<1>15. PICK M, old : M = Tellable(d) /\ old = messages[d] /\ old \in Seq(M)
    BY DEF TunnelInv, Heard
<1>16. PICK rest \in Seq(M) : old \o rest = told /\ (c < x => rest = <<>>)
    BY <1>3, <1>7, <1>12, <1>15 DEF TunnelInv, Heard
<1>17. PICK now \in Nat : now = r.p.next - 1
  <2>1. PICK L1 \in Nat : L1 = Len(fs)
    BY LenProperties
  <2>2. r.p.next \in 1..(L1 + 1)
    BY <1>10, <2>1 DEF Parsed
  <2> QED BY <2>2
<1>18. rest = <<>> \/ room = 0
    BY <1>12, <1>13, <1>16 DEF Smaller
<1>19. PICK new : new = old \o SubSeq(r.out, 1, room)
    OBVIOUS
<1>20. /\ new \in Seq(M) /\ Len(new) = Len(old) + room
       /\ \E s \in Seq(M) : new \o s = told \o r.out /\ ((rest = <<>> /\ room = L) => s = <<>>)
  <2>1. r.out \in Seq(M) /\ room \in 0..Len(r.out)
    BY <1>10, <1>11, <1>15
  <2>2. PICK out : out = r.out /\ out \in Seq(M) /\ room \in 0..Len(out)
    BY <2>1
  <2>3. Kept(M, old, out, room) /\ (rest = <<>> \/ room = 0 => Remains(M, old, rest, out, room))
    BY <1>15, <2>2, Keeping
  <2>4. \E s \in Seq(M) : /\ (old \o SubSeq(out, 1, room)) \o s = (old \o rest) \o out
                          /\ (rest = <<>> /\ room = Len(out)) => s = <<>>
    BY <1>18, <2>3 DEF Remains
  <2> QED BY <1>11, <1>16, <1>19, <2>2, <2>3, <2>4 DEF Kept
<1>21. /\ delivered = [e \in Directions |-> delivered[e]]
       /\ parser = [e \in Directions |-> parser[e]]
       /\ messages = [e \in Directions |-> messages[e]]
    BY DEF TunnelInv
<1>22. /\ delivered' = [e \in Directions |-> IF e = d THEN n + m ELSE delivered[e]]
       /\ parser' = [e \in Directions |-> IF e = d THEN r.p ELSE parser[e]]
       /\ messages' = [e \in Directions |-> IF e = d THEN new ELSE messages[e]]
    BY <1>2, <1>14, <1>15, <1>19, <1>21
<1>23. /\ delivered'[d] = n + m /\ parser'[d] = r.p /\ messages'[d] = new
       /\ \A e \in Directions : e # d => /\ delivered'[e] = delivered[e] /\ parser'[e] = parser[e]
                                         /\ messages'[e] = messages[e]
    BY <1>22
<1>24. Captured' = c + room
  <2>1. PICK a, b \in Nat : a = Len(messages["c2s"]) /\ b = Len(messages["s2c"])
    <3>1. \A e \in Directions : Len(messages[e]) \in Nat
      BY LenProperties DEF TunnelInv, Heard
    <3> QED BY <3>1 DEF Directions
  <2>2. c = a + b
    BY <1>12, <2>1 DEF Captured
  <2>3. CASE d = "c2s"
    <3>1. Captured' = (a + room) + b
      BY <1>15, <1>20, <1>23, <2>1, <2>3 DEF Captured, Directions
    <3> QED BY <2>2, <3>1
  <2>4. CASE d = "s2c"
    <3>1. Captured' = a + (b + room)
      BY <1>15, <1>20, <1>23, <2>1, <2>4 DEF Captured, Directions
    <3> QED BY <2>2, <3>1
  <2> QED BY <2>3, <2>4 DEF Directions
<1>25. Captured' <= MaxMessages /\ (Captured' < MaxMessages => c < x /\ room = L)
    BY <1>12, <1>13, <1>24 DEF Smaller
<1>26. ASSUME NEW e \in Directions PROVE Waiting(e)' /\ Heard(e)'
  <2>1. Tellable(e)' = Tellable(e) /\ \A i : Told(e, read[e], i)' = Told(e, read[e], i)
    BY ScriptStays
  <2>2. CASE e = d
    <3>1. Waiting(e)'
      BY <1>1, <1>6, <1>9, <1>10, <1>23, <2>2 DEF Waiting
    <3>2. PICK s \in Seq(M) : new \o s = told \o r.out /\ ((rest = <<>> /\ room = L) => s = <<>>)
      BY <1>20
    <3>3. new \o s = Told(d, read[d], now) /\ (Captured' < MaxMessages => s = <<>>)
      BY <1>10, <1>16, <1>25, <1>17, <3>2
    <3>4. now = parser'[e].next - 1 /\ Told(e, read[e], now)' = Told(d, read[d], now)
      BY <1>23, <1>17, <2>1, <2>2
    <3>5. messages'[e] \in Seq(Tellable(e)')
      BY <1>15, <1>20, <1>23, <2>1, <2>2
    <3>6. s \in Seq(Tellable(e)') /\ messages'[e] \o s = Told(d, read[d], now)
      BY <1>15, <1>23, <2>1, <2>2, <3>3
    <3> QED BY <3>1, <3>3, <3>4, <3>5, <3>6 DEF Heard
  <2>3. CASE e # d
    <3>1. Waiting(e) /\ Heard(e)
      BY DEF TunnelInv
    <3>2. Waiting(e)'
      BY <1>23, <2>3, <3>1 DEF Waiting
    <3>3. messages[e] \in Seq(Tellable(e))
      BY <3>1 DEF Heard
    <3>4. PICK s \in Seq(Tellable(e)), j \in Nat :
             /\ j = parser[e].next - 1 /\ messages[e] \o s = Told(e, read[e], j)
             /\ Captured < MaxMessages => s = <<>>
      BY <3>1 DEF Heard
    <3>5. Captured' < MaxMessages => s = <<>>
      BY <1>12, <1>25, <3>4
    <3>6. j = parser'[e].next - 1 /\ Told(e, read[e], j)' = Told(e, read[e], j)
      BY <1>23, <2>1, <2>3, <3>4
    <3> QED BY <1>23, <2>1, <2>3, <3>2, <3>3, <3>4, <3>5, <3>6 DEF Heard
  <2> QED BY <2>2, <2>3
<1> QED BY <1>22, <1>23, <1>25, <1>26

\* A parser that has seen nothing waits at the beginning of any stream.
LEMMA Begins ==
    ASSUME NEW d, NEW fs \in Seq(Frames)
    PROVE  /\ Stream(fs, 0) /\ Parsed(fs, NewParser, 0) /\ Still(NewParser)
           /\ NewParser.next - 1 = 0 /\ Told(d, fs, 0) = <<>>
<1>1. PICK L \in Nat : L = Len(fs)
    BY LenProperties
<1>2. Units(fs, 0) = 0 /\ Units(fs, L) \in Nat
    BY <1>1, UnitsAre
<1>3. Stream(fs, 0)
    BY <1>1, <1>2 DEF Stream
<1>4. StartsOf(fs, 1) = {}
  <2>1. 1..(1 - 1) = {}
    OBVIOUS
  <2> QED BY <2>1 DEF StartsOf
<1>5. Fragments(fs, NewParser)
    BY <1>4 DEF Fragments, NewParser
<1>6. Position(fs, NewParser, 0)
    BY <1>2 DEF Position, NewParser
<1>7. Parsed(fs, NewParser, 0)
  <2>1. NewParser \in Parsers /\ NewParser.next = 1
    BY DEF NewParser, Parsers
  <2>2. 1 \in 1..(Len(fs) + 1) /\ 1..(1 - 1) = {}
    BY <1>1
  <2> QED BY <1>5, <1>6, <2>1, <2>2 DEF Parsed
<1>8. Still(NewParser)
    BY DEF Still, NewParser, Header
<1>9. Told(d, fs, 0) = <<>>
    BY ToldOf
<1> QED BY <1>3, <1>7, <1>8, <1>9 DEF NewParser

\* Where a stream is cut says how many frames are before the cut.
LEMMA OneCut ==
    ASSUME NEW s, NEW k \in 0..Len(s), NEW m \in 0..Len(s), s \in Seq(Frames),
           Units(s, k) = Units(s, m)
    PROVE  k = m
<1>1. PICK n \in Nat : n = Len(s)
    BY LenProperties
<1>2. PICK a, b \in Nat : a = Units(s, k) /\ b = Units(s, m)
    BY UnitsAre
<1>3. k < m => a + 2 <= b
    BY <1>2, UnitsGrow DEF Header
<1>4. m < k => b + 2 <= a
    BY <1>2, UnitsGrow DEF Header
<1> QED BY <1>1, <1>2, <1>3, <1>4

\* Behind k whole frames the client's stream is the frames after them.
LEMMA BehindFrames ==
    ASSUME script["c2s"] \in Seq(Frames), NEW k \in 0..Len(script["c2s"]),
           ahead = Units(script["c2s"], k)
    PROVE  Behind("c2s") = FramesBehind(k)
<1> DEFINE c == CHOOSE m \in 0..Len(script["c2s"]) : ahead = Units(script["c2s"], m)
<1>1. c \in 0..Len(script["c2s"]) /\ ahead = Units(script["c2s"], c)
    OBVIOUS
<1>2. Behind("c2s") = FramesBehind(c)
    BY DEF Behind
<1> HIDE DEF c
<1>3. c = k
    BY <1>1, OneCut
<1> QED BY <1>2, <1>3

LEMMA BehindSeq ==
    ASSUME script["c2s"] \in Seq(Frames), NEW k \in 0..Len(script["c2s"])
    PROVE  FramesBehind(k) \in Seq(Frames)
<1>1. PICK n \in Nat : n = Len(script["c2s"])
    BY LenProperties
<1>2. k + 1 \in 1..(n + 1) /\ n \in (k + 1 - 1)..n
    BY <1>1
<1> QED BY <1>1, <1>2, SubSeqProperties DEF FramesBehind

LEMMA TunnelStarts == ASSUME TunnelAssumption, WsInit PROVE TunnelInv
<1>1. \A d \in Directions : script[d] \in Seq(Frames) /\ read = script
    BY DEF WsInit, TunnelAssumption
<1>2. Unheard
    BY DEF WsInit, Unheard
<1>3. Captured = 0
  <2>1. messages["c2s"] = <<>> /\ messages["s2c"] = <<>>
    BY DEF WsInit, Directions
  <2>2. Len(<<>>) = 0
    BY EmptySeq
  <2> QED BY <2>1, <2>2 DEF Captured
<1>4. ASSUME NEW d \in Directions PROVE Waiting(d) /\ Heard(d)
  <2>1. delivered[d] = 0 /\ parser[d] = NewParser /\ messages[d] = <<>> /\ read[d] \in Seq(Frames)
    BY <1>1, <1>2 DEF Unheard
  <2>2. /\ Stream(read[d], 0) /\ Parsed(read[d], NewParser, 0) /\ Still(NewParser)
        /\ NewParser.next - 1 = 0 /\ Told(d, read[d], 0) = <<>>
    BY <2>1, Begins
  <2>3. <<>> \in Seq(Tellable(d)) /\ <<>> \o <<>> = <<>>
    BY EmptySeq, ConcatEmptySeq
  <2>4. /\ messages[d] \in Seq(Tellable(d)) /\ 0 = parser[d].next - 1
        /\ messages[d] \o <<>> = Told(d, read[d], 0)
    BY <2>1, <2>2, <2>3
  <2>5. 0 \in Nat /\ <<>> \in Seq(Tellable(d)) /\ (Captured < MaxMessages => <<>> = <<>>)
    BY <2>3
  <2> QED BY <2>1, <2>2, <2>4, <2>5 DEF Waiting, Heard
<1>5. /\ delivered = [d \in Directions |-> delivered[d]]
      /\ parser = [d \in Directions |-> parser[d]]
      /\ messages = [d \in Directions |-> messages[d]]
  BY DEF WsInit
<1>6. /\ script \in Scripts /\ phase # "tunnel" /\ 0 <= MaxMessages
      /\ script["c2s"] \in Seq(Frames)
  BY <1>1 DEF WsInit, TunnelAssumption, Directions
<1>7. read["c2s"] = Behind("c2s") /\ read["s2c"] = Behind("s2c")
  <2>1. PICK n \in Nat : n = Len(script["c2s"])
    BY <1>6, LenProperties
  <2>2. 0 \in 0..Len(script["c2s"]) /\ ahead = Units(script["c2s"], 0)
    BY <1>6, <2>1, UnitsAre DEF WsInit
  <2>3. Behind("c2s") = FramesBehind(0)
    BY <1>6, <2>2, BehindFrames
  <2>4. FramesBehind(0) = script["c2s"]
    BY <1>6, SubSeqFull DEF FramesBehind
  <2> QED BY <1>1, <2>3, <2>4 DEF Behind, Directions
<1>8. DOMAIN read = Directions /\ read = [d \in Directions |-> read[d]]
  <2>1. PICK f \in [Directions -> Seq(Frames)] : f = read
    <3>1. read = script /\ script \in [Directions -> Seq(Frames)]
      BY <1>6 DEF TunnelAssumption, WsInit
    <3> QED BY <3>1
  <2> QED BY <2>1
<1> QED BY <1>2, <1>3, <1>4, <1>5, <1>6, <1>7, <1>8 DEF TunnelInv, Directions

LEMMA TunnelStays ==
    ASSUME TunnelInv, UNCHANGED <<script, ahead, read, delivered, parser, messages>>, row' = row,
           phase' = phase
    PROVE  TunnelInv'
<1>1. ASSUME NEW d \in Directions PROVE Waiting(d)' /\ Heard(d)'
  <2>1. Waiting(d) /\ Heard(d)
    BY DEF TunnelInv
  <2>2. Waiting(d)'
    BY <2>1 DEF Waiting
  <2>3. Tellable(d)' = Tellable(d) /\ \A i : Told(d, read[d], i)' = Told(d, read[d], i)
    BY ScriptStays
  <2>4. Captured' = Captured
    BY DEF Captured
  <2>5. PICK rest \in Seq(Tellable(d)), i \in Nat :
           /\ i = parser[d].next - 1 /\ messages[d] \o rest = Told(d, read[d], i)
           /\ Captured < MaxMessages => rest = <<>>
    BY <2>1 DEF Heard
  <2>6. messages[d] \in Seq(Tellable(d))
    BY <2>1 DEF Heard
  <2> QED BY <2>2, <2>3, <2>4, <2>5, <2>6 DEF Heard
<1>2. Captured' = Captured
  BY DEF Captured
<1>3. \A d \in Directions : InStep(d)' = InStep(d) /\ Behind(d)' = Behind(d)
  BY DEF InStep, Behind, FramesBehind
<1>4. Unheard' = Unheard
  BY DEF Unheard
<1> QED BY <1>1, <1>2, <1>3, <1>4 DEF TunnelInv

\* The upstream is connected: whatever came with the upgrade, a parser that has seen
\* nothing waits at the beginning of what it will read.
LEMMA ConnectedKeeps == ASSUME TunnelAssumption, TunnelInv, Connected PROVE TunnelInv'
<1> DEFINE c == script["c2s"]
<1>1. /\ phase = "dialing" /\ phase' = "handshake"
      /\ UNCHANGED <<script, clientSocket, upstreamSocket, delivered, parser, row, messages>>
  BY DEF Connected
<1>2. /\ c \in Seq(Frames) /\ script["s2c"] \in Seq(Frames) /\ script \in Scripts
  BY DEF TunnelInv, TunnelAssumption, Directions
<1>3. Unheard /\ DOMAIN read = Directions /\ read["s2c"] = script["s2c"]
  BY <1>1 DEF TunnelInv, InStep, Behind, Directions
<1>4. PICK frames \in Seq(Frames) :
         /\ read' = [read EXCEPT !["c2s"] = frames]
         /\ \A k \in 0..Len(c) : ahead' = Units(c, k) => frames = FramesBehind(k)
  <2>1. CASE \E k \in 0..Len(c) :
                ahead' = Units(c, k) /\ read' = [read EXCEPT !["c2s"] = FramesBehind(k)]
    <3>1. PICK k \in 0..Len(c) :
             ahead' = Units(c, k) /\ read' = [read EXCEPT !["c2s"] = FramesBehind(k)]
      BY <2>1
    <3>2. FramesBehind(k) \in Seq(Frames)
      BY <1>2, BehindSeq
    <3>3. \A m \in 0..Len(c) : Units(c, k) = Units(c, m) => k = m
      BY <1>2, OneCut
    <3> QED BY <3>1, <3>2, <3>3
  <2>2. CASE /\ \A k \in 0..Len(c) : ahead' # Units(c, k)
             /\ \E frames \in Misreadings : read' = [read EXCEPT !["c2s"] = frames]
    BY <2>2 DEF TunnelAssumption
  <2> QED BY <2>1, <2>2 DEF Connected
<1>5. /\ read'["c2s"] = frames /\ read'["s2c"] = script["s2c"] /\ DOMAIN read' = Directions
      /\ read' = [d \in Directions |-> read'[d]]
      /\ \A d \in Directions : read'[d] \in Seq(Frames)
  BY <1>2, <1>3, <1>4 DEF Directions
<1>6. ASSUME NEW d \in Directions PROVE Waiting(d)' /\ Heard(d)'
  <2>1. delivered'[d] = 0 /\ parser'[d] = NewParser /\ messages'[d] = <<>> /\ read'[d] \in Seq(Frames)
    BY <1>1, <1>3, <1>5 DEF Unheard
  <2>2. PICK fs \in Seq(Frames) : fs = read'[d]
    BY <2>1
  <2>3. /\ Stream(fs, 0) /\ Parsed(fs, NewParser, 0) /\ Still(NewParser)
        /\ NewParser.next - 1 = 0 /\ Told(d, fs, 0) = <<>>
    BY Begins
  <2>4. <<>> \in Seq(TellableOf(d, fs)) /\ <<>> \o <<>> = <<>>
    BY EmptySeq, ConcatEmptySeq
  <2>5. Waiting(d)'
    BY <2>1, <2>2, <2>3 DEF Waiting
  <2>6. TellableOf(d, fs) = Tellable(d)' /\ Told(d, read[d], 0)' = Told(d, fs, 0)
    BY <2>2 DEF Tellable, TellableOf, MessageOf, Told
  <2>7. /\ messages'[d] \in Seq(Tellable(d)') /\ 0 = parser'[d].next - 1
        /\ messages'[d] \o <<>> = Told(d, read[d], 0)'
    BY <2>1, <2>3, <2>4, <2>6
  <2>8. 0 \in Nat /\ <<>> \in Seq(Tellable(d)') /\ (Captured' < MaxMessages => <<>> = <<>>)
    BY <2>4, <2>6
  <2> QED BY <2>5, <2>7, <2>8 DEF Heard
<1>7. Captured' = Captured
  BY <1>1 DEF Captured
<1>8. InStep("c2s")' => read'["c2s"] = Behind("c2s")'
  <2> SUFFICES ASSUME InStep("c2s")' PROVE frames = Behind("c2s")'
    BY <1>5
  <2>1. PICK k \in 0..Len(c) : ahead' = Units(c, k)
    BY <1>1 DEF InStep
  <2> DEFINE m == CHOOSE m \in 0..Len(c) : ahead' = Units(c, m)
  <2>2. m \in 0..Len(c) /\ ahead' = Units(c, m)
    BY <2>1
  <2>3. Behind("c2s")' = FramesBehind(m)
    BY <1>1 DEF Behind, FramesBehind
  <2> HIDE DEF m
  <2> QED BY <1>4, <2>2, <2>3
<1>9. read'["s2c"] = Behind("s2c")'
  BY <1>1, <1>5 DEF Behind
<1> QED BY <1>1, <1>2, <1>5, <1>6, <1>7, <1>8, <1>9 DEF TunnelInv, Directions

LEMMA TunnelSteps == ASSUME TunnelAssumption, TunnelInv, [WsNext]_wsVars PROVE TunnelInv'
<1>1. CASE Connected
  BY <1>1, ConnectedKeeps
<1>2. CASE HandshakeTooLong
  BY <1>2, TunnelStays DEF HandshakeTooLong, TunnelInv
<1>3. CASE UpstreamFails
  BY <1>3, TunnelStays DEF UpstreamFails, TunnelInv
<1>4. CASE ClientCloses
  BY <1>4, TunnelStays DEF ClientCloses, TunnelInv
<1>5. ASSUME NEW d \in Directions, NEW m \in Nat, m <= Left(d), Observe(d, m),
             UNCHANGED <<script, ahead, read>>, row' = TRUE, phase' = "tunnel"
      PROVE  TunnelInv'
  <2>1. /\ delivered' = [e \in Directions |-> delivered'[e]]
        /\ parser' = [e \in Directions |-> parser'[e]]
        /\ messages' = [e \in Directions |-> messages'[e]]
        /\ \A e \in Directions : Waiting(e)' /\ Heard(e)'
        /\ Captured' <= MaxMessages
    BY <1>5, ObserveKeeps
  <2>2. script' \in Scripts /\ DOMAIN read' = Directions /\ read' = [e \in Directions |-> read'[e]]
    BY <1>5 DEF TunnelInv
  <2>3. \A e \in Directions : InStep(e)' => read'[e] = Behind(e)'
    <3>1. \A e \in Directions : InStep(e)' = InStep(e) /\ Behind(e)' = Behind(e)
      BY <1>5 DEF InStep, Behind, FramesBehind
    <3> QED BY <1>5, <3>1 DEF TunnelInv
  <2> QED BY <1>5, <2>1, <2>2, <2>3 DEF TunnelInv
<1>6. ASSUME NEW n \in 0..Left("s2c"), HandshakeEnds(n) PROVE TunnelInv'
  <2>1. /\ Observe("s2c", n) /\ UNCHANGED <<script, ahead, read>> /\ row' = TRUE
        /\ n <= Left("s2c") /\ phase' = "tunnel"
    BY <1>6 DEF HandshakeEnds, CaptureHandshake
  <2>2. "s2c" \in Directions /\ n \in Nat
    BY DEF Directions
  <2> QED BY <1>5, <2>1, <2>2
<1>7. ASSUME NEW d \in Directions, NEW n \in 1..Left(d), Chunk(d, n) PROVE TunnelInv'
  <2>1. /\ Observe(d, n) /\ UNCHANGED <<script, ahead, read>> /\ row' = TRUE
        /\ n <= Left(d) /\ phase' = "tunnel"
    BY <1>7 DEF Chunk, TunnelInv
  <2>2. n \in Nat
    OBVIOUS
  <2> QED BY <1>5, <2>1, <2>2
<1>8. CASE UNCHANGED wsVars
  BY <1>8, TunnelStays DEF wsVars, TunnelInv
<1> QED BY <1>1, <1>2, <1>3, <1>4, <1>6, <1>7, <1>8 DEF WsNext

\* The parsers stand where the delivered stream says, and the calls made are the
\* first of what their frames tell: inductive under every chunking, and whatever part
\* of the client's stream came with the upgrade.
THEOREM TunnelInductive == WsSpec => []TunnelInv
<1>1. WsInit => TunnelInv
  BY TunnelAssumption, TunnelStarts
<1>2. TunnelInv /\ [WsNext]_wsVars => TunnelInv'
  BY TunnelAssumption, TunnelSteps
<1> QED BY <1>1, <1>2, PTL DEF WsSpec

\* Whatever the peers send through the tunnel and however it is cut, what is stored of a
\* direction is its messages in order, whole or to the cap, until the connection's limit;
\* of the client's frames those behind what came with the upgrade, if that ended with one.
THEOREM CaptureFaithful == WsSpec => []CaptureIsFaithful
<1>1. ASSUME TunnelAssumption, TunnelInv PROVE CaptureIsFaithful
  <2>1. ASSUME NEW d \in Directions, InStep(d)
        PROVE  /\ IsPrefix(messages[d], Expected(d, Behind(d), delivered[d]))
               /\ Captured < MaxMessages => messages[d] = Expected(d, Behind(d), delivered[d])
    <3>1. Waiting(d) /\ Heard(d) /\ Behind(d) = read[d]
      BY <1>1, <2>1 DEF TunnelInv
    <3>2. PICK M, old : M = Tellable(d) /\ old = messages[d] /\ old \in Seq(M)
      BY <3>1 DEF Heard
    <3>3. PICK rest \in Seq(M), i \in Nat :
             /\ i = parser[d].next - 1 /\ old \o rest = Told(d, read[d], i)
             /\ Captured < MaxMessages => rest = <<>>
      BY <3>1, <3>2 DEF Heard
    <3>4. Expected(d, Behind(d), delivered[d]) = old \o rest
      BY <3>1, <3>3, StillTells DEF Waiting
    <3>5. IsPrefix(old, old \o rest)
      <4>1. PICK k \in Nat : k = Len(old)
        BY <3>2, LenProperties
      <4>2. PICK l \in Nat : l = Len(rest)
        BY LenProperties
      <4>3. Len(old \o rest) = k + l
        BY <3>2, <4>1, <4>2, ConcatProperties
      <4>4. SubSeq(old \o rest, 1, k) = SubSeq(old, 1, k)
        <5>1. CASE k = 0
          BY <5>1, SubSeqEmpty
        <5>2. CASE k # 0
          <6>1. 1 \in 1..Len(old) /\ k \in 1..Len(old)
            BY <4>1, <5>2
          <6> QED BY <3>2, <6>1, SubSeqOfConcat1
        <5> QED BY <5>1, <5>2
      <4> QED BY <4>1, <4>3, <4>4 DEF IsPrefix
    <3>6. rest = <<>> => old \o rest = old
      BY <3>2, ConcatEmptySeq
    <3> QED BY <3>2, <3>3, <3>4, <3>5, <3>6
  <2> QED BY <1>1, <2>1 DEF CaptureIsFaithful, TunnelInv
<1>2. TunnelInv => CaptureIsFaithful
  BY <1>1, TunnelAssumption
<1> QED BY <1>2, TunnelInductive, PTL
=============================================================================

--------------------------- MODULE WebSocketTunnel ---------------------------
(* A WebSocket connection through the proxy: the upgrade, the tunnel, and    *)
(* the observation of its frames (proxyServer.ts, wsFrame.ts).  The bytes    *)
(* come in chunks cut anywhere; a frame is a header of two units and one     *)
(* unit per byte of payload.  Masking and the longer length fields are left  *)
(* out, and so is backpressure, which only delays.                           *)
EXTENDS Integers, SequencesExt, FiniteSetsExt

CONSTANTS
    Scripts,        \* what the two peers send: [Directions -> Seq(Frames)]
    Misreadings,    \* what a parser that begins inside a frame makes of the rest
    Cap,            \* maxMessageBytes
    MaxMessages     \* WS_MAX_MESSAGES

Directions == {"c2s", "s2c"}

\* A "huge" frame announces a length that is refused.
Frames == [op : {"data", "cont", "control", "huge"}, fin : BOOLEAN, len : Nat]

ASSUME TunnelAssumption ==
    /\ Scripts \subseteq [Directions -> Seq(Frames)]
    /\ Misreadings \subseteq Seq(Frames)
    /\ Cap \in Nat \ {0} /\ MaxMessages \in Nat

VARIABLES
    script,      \* the frames of this connection
    ahead,       \* units of the client's stream that came with the upgrade
    read,        \* read[d]: the frames the parser of a direction makes of what it is given
    phase,       \* "dialing", "handshake", "tunnel"
    clientSocket, upstreamSocket,   \* "open" or "closed"
    delivered,   \* delivered[d]: units that arrived, and were written on
    parser,      \* parser[d]: the WsFrameParser of a direction
    row,         \* the handshake was recorded as an exchange
    messages     \* messages[d]: the onWebSocketMessage calls of a direction

wsVars == <<script, ahead, read, phase, clientSocket, upstreamSocket, delivered, parser, row, messages>>

Header == 2
\* Where frame i ends in the stream.
Units(fs, i) ==
    LET sum[j \in 0..Len(fs)] == IF j = 0 THEN 0 ELSE sum[j - 1] + Header + fs[j].len
    IN sum[i]

NewParser == [buf |-> 0, next |-> 1, inFrame |-> FALSE, remaining |-> 0, capturedLen |-> 0,
              inFragment |-> FALSE, fragLen |-> 0, fragTotal |-> 0, broken |-> FALSE]

WsInit ==
    /\ script \in Scripts
    /\ ahead = 0 /\ read = script
    /\ phase = "dialing"
    /\ clientSocket = "open" /\ upstreamSocket = "open"
    /\ delivered = [d \in Directions |-> 0]
    /\ parser = [d \in Directions |-> NewParser]
    /\ row = FALSE
    /\ messages = [d \in Directions |-> <<>>]

----------------------------------------------------------------------------
(* The parser.  Its result is the parser after a chunk and what it found.    *)

Smaller(a, b) == IF a < b THEN a ELSE b

Message(d, op, size, kept) == [dir |-> d, op |-> op, size |-> size, kept |-> kept]

\* parseHeader.
ParseHeader(p, f) ==
    IF f.op = "huge"
    THEN [p EXCEPT !.broken = TRUE, !.buf = 0]
    ELSE [p EXCEPT !.buf = @ - Header, !.inFrame = TRUE, !.remaining = f.len, !.capturedLen = 0]

\* The part of consumePayload that takes bytes.
TakePayload(p) ==
    LET take == Smaller(p.remaining, p.buf)
    IN [p EXCEPT !.buf = @ - take, !.remaining = @ - take,
                 !.capturedLen = @ + Smaller(take, Cap - p.capturedLen)]

\* A mutant: a fragment counts for what was kept of it.
FragmentSizeKept(q, f) == q.capturedLen

\* What a continuation adds to the size of its message.
FragmentSize(q, f) == f.len

\* finishFrame: control frames stand alone, also between fragments; a
\* continuation without a start is ignored.
FinishFrame(d, p, f) ==
    LET q    == [p EXCEPT !.inFrame = FALSE, !.next = @ + 1]
        kept == Smaller(q.capturedLen, Cap - q.fragLen)
        whole == [q EXCEPT !.fragLen = @ + kept, !.fragTotal = @ + FragmentSize(q, f)]
        fragment == [q EXCEPT !.inFragment = TRUE, !.fragLen = q.capturedLen, !.fragTotal = f.len]
    IN CASE f.op = "control" \/ (f.op = "data" /\ f.fin) ->
              [p |-> q, out |-> <<Message(d, f.op, f.len, q.capturedLen)>>]
         [] f.op = "data" /\ ~f.fin -> [p |-> fragment, out |-> <<>>]
         [] f.op = "cont" /\ ~p.inFragment -> [p |-> q, out |-> <<>>]
         [] f.op = "cont" /\ p.inFragment /\ ~f.fin -> [p |-> whole, out |-> <<>>]
         [] f.op = "cont" /\ p.inFragment /\ f.fin ->
              [p |-> [whole EXCEPT !.inFragment = FALSE, !.fragLen = 0, !.fragTotal = 0],
               out |-> <<Message(d, "data", whole.fragTotal, whole.fragLen)>>]

\* One turn of the loop of push; after the last one nothing changes any more.
Turn(d, r) ==
    LET p == r.p
        f == read[d][p.next]
        q == TakePayload(p)
        done == FinishFrame(d, q, f)
    IN CASE p.broken -> [p |-> [p EXCEPT !.buf = 0], out |-> r.out]
         [] ~p.broken /\ ~p.inFrame /\ p.buf < Header -> r
         [] ~p.broken /\ ~p.inFrame /\ p.buf >= Header -> [p |-> ParseHeader(p, f), out |-> r.out]
         [] ~p.broken /\ p.inFrame /\ q.remaining > 0 -> [p |-> q, out |-> r.out]
         [] ~p.broken /\ p.inFrame /\ q.remaining = 0 -> [p |-> done.p, out |-> r.out \o done.out]

\* Two turns for each frame and two for what is left of the last one.
Turns(d) == 2 * Len(read[d]) + 2

Push(d, p) ==
    LET turn[k \in 0..Turns(d)] == IF k = 0 THEN [p |-> p, out |-> <<>>] ELSE Turn(d, turn[k - 1])
    IN turn[Turns(d)]

----------------------------------------------------------------------------
(* The connection.                                                           *)

Captured == Len(messages["c2s"]) + Len(messages["s2c"])

\* observe and emit: the first MaxMessages of both directions together.
Observe(d, n) ==
    LET pushed == Push(d, [parser[d] EXCEPT !.buf = @ + n])
        room   == Smaller(Len(pushed.out), MaxMessages - Captured)
    IN /\ parser' = [parser EXCEPT ![d] = pushed.p]
       /\ messages' = [messages EXCEPT ![d] = @ \o SubSeq(pushed.out, 1, room)]
       /\ delivered' = [delivered EXCEPT ![d] = @ + n]

Left(d) == Units(read[d], Len(read[d])) - delivered[d]

\* The client's frames behind which the parser begins when k frames came ahead.
FramesBehind(k) == SubSeq(script["c2s"], k + 1, Len(script["c2s"]))

\* The upstream socket connects and gets the request and, unseen by any parser, the
\* bytes that came behind it.
Connected ==
    /\ phase = "dialing" /\ upstreamSocket = "open"
    /\ phase' = "handshake"
    /\ ahead' \in 0..Units(script["c2s"], Len(script["c2s"]))
    /\ \/ \E k \in 0..Len(script["c2s"]) :
             /\ ahead' = Units(script["c2s"], k)
             /\ read' = [read EXCEPT !["c2s"] = FramesBehind(k)]
       \/ /\ \A k \in 0..Len(script["c2s"]) : ahead' # Units(script["c2s"], k)
          /\ \E frames \in Misreadings : read' = [read EXCEPT !["c2s"] = frames]
    /\ UNCHANGED <<script, clientSocket, upstreamSocket, delivered, parser, row, messages>>

\* captureWebSocketHandshake: the exchange, with whatever status the head has.
CaptureHandshake == row' = TRUE

\* The head of the reply ends in this chunk: the exchange is recorded, then
\* the frames behind the head are observed, and the tunnel begins.
HandshakeEnds(n) ==
    /\ phase = "handshake" /\ upstreamSocket = "open"
    /\ n <= Left("s2c")
    /\ phase' = "tunnel"
    /\ CaptureHandshake
    /\ Observe("s2c", n)
    /\ UNCHANGED <<script, ahead, read, clientSocket, upstreamSocket>>

HandshakeTooLong ==
    /\ phase = "handshake" /\ upstreamSocket = "open"
    /\ clientSocket' = "closed" /\ upstreamSocket' = "closed"
    /\ UNCHANGED <<script, ahead, read, phase, delivered, parser, row, messages>>

Chunk(d, n) ==
    /\ phase = "tunnel" /\ clientSocket = "open" /\ upstreamSocket = "open"
    /\ n <= Left(d)
    /\ Observe(d, n)
    /\ UNCHANGED <<script, ahead, read, phase, clientSocket, upstreamSocket, row>>

\* A failing upstream takes the client with it.
UpstreamFails ==
    /\ upstreamSocket = "open"
    /\ clientSocket' = "closed" /\ upstreamSocket' = "closed"
    /\ UNCHANGED <<script, ahead, read, phase, delivered, parser, row, messages>>

\* The listeners that close one end with the other come with the tunnel: a
\* client that leaves earlier leaves the upstream socket open.
ClientCloses ==
    /\ clientSocket = "open"
    /\ clientSocket' = "closed"
    /\ upstreamSocket' = IF phase = "tunnel" THEN "closed" ELSE upstreamSocket
    /\ UNCHANGED <<script, ahead, read, phase, delivered, parser, row, messages>>

WsNext ==
    \/ Connected \/ HandshakeTooLong \/ UpstreamFails \/ ClientCloses
    \/ \E n \in 0..Left("s2c") : HandshakeEnds(n)
    \/ \E d \in Directions : \E n \in 1..Left(d) : Chunk(d, n)

WsSpec == WsInit /\ [][WsNext]_wsVars

----------------------------------------------------------------------------
(* What the messages of a direction should be, said without the parser: the  *)
(* frames that have arrived in full, before any that is refused, grouped by  *)
(* the fragment they continue.                                               *)

Arrived(fs, units) ==
    {i \in DOMAIN fs : /\ Units(fs, i) <= units
                       /\ \A j \in 1..i : fs[j].op # "huge"}

\* The fragment that frame i continues, if it does, or nothing.
StartsOf(fs, i) ==
    {j \in 1..(i - 1) :
        /\ fs[j].op = "data" /\ ~fs[j].fin
        /\ \A k \in (j + 1)..(i - 1) :
              ~(fs[k].op = "data" /\ ~fs[k].fin) /\ ~(fs[k].op = "cont" /\ fs[k].fin)}

EndsMessage(fs, i) ==
    \/ fs[i].op = "control"
    \/ fs[i].op = "data" /\ fs[i].fin
    \/ fs[i].op = "cont" /\ fs[i].fin /\ StartsOf(fs, i) # {}

Pieces(fs, i) ==
    IF fs[i].op # "cont" THEN {i}
    ELSE UNION {{j} \cup {k \in j..i : fs[k].op = "cont"} : j \in StartsOf(fs, i)}

\* The payload of the frames at the positions.
Size(fs, positions) ==
    LET sum[j \in 0..Len(fs)] ==
            IF j = 0 THEN 0 ELSE sum[j - 1] + (IF j \in positions THEN fs[j].len ELSE 0)
    IN sum[Len(fs)]

MessageOf(d, fs, i) ==
    LET size == Size(fs, Pieces(fs, i))
    IN Message(d, IF fs[i].op = "control" THEN "control" ELSE "data", size, Smaller(size, Cap))

\* The messages that end with one of the first m frames.
Told(d, fs, m) ==
    LET told[i \in 0..Len(fs)] ==
            IF i = 0 THEN <<>>
            ELSE IF EndsMessage(fs, i) THEN Append(told[i - 1], MessageOf(d, fs, i)) ELSE told[i - 1]
    IN told[m]

Expected(d, fs, units) == Told(d, fs, Max({0} \cup Arrived(fs, units)))

\* What came with the upgrade ends with a frame.
InStep(d) == d = "s2c" \/ \E k \in 0..Len(script["c2s"]) : ahead = Units(script["c2s"], k)

\* The frames a direction sends through the tunnel.
Behind(d) ==
    IF d = "s2c" THEN script[d]
    ELSE FramesBehind(CHOOSE k \in 0..Len(script[d]) : ahead = Units(script[d], k))

\* wsFrame.ts:6: however the stream is cut into chunks and messages into frames, what is
\* stored of a direction is the messages of its frames in order, each with its full size
\* and as much of it as the cap allows, until the limit of the connection; never before
\* the exchange they belong to.  The client's frames count from behind what came with the
\* upgrade, and are not claimed at all when that ends inside one.
CaptureIsFaithful ==
    /\ \A d \in Directions : InStep(d) =>
          LET expected == Expected(d, Behind(d), delivered[d])
          IN /\ IsPrefix(messages[d], expected)
             /\ Captured < MaxMessages => messages[d] = expected
    /\ Captured <= MaxMessages
    /\ Captured > 0 => row

\* proxyServer.ts:871: frames are observed in both directions, those that came with the
\* upgrade among them.  It does not hold.
BothDirectionsAreObserved ==
    phase = "tunnel" /\ Captured < MaxMessages =>
        messages["c2s"] = Expected("c2s", script["c2s"], ahead + delivered["c2s"])
=============================================================================

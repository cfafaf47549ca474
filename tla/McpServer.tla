---------------------------- MODULE McpServer ----------------------------
(* The MCP server: newline-delimited JSON-RPC over stdio, one promise chain  *)
(* that dispatches the lines in arrival order (src/mcp/protocol.ts), and the *)
(* process around it (src/mcp/index.ts).  A line is reduced to what the      *)
(* dispatcher tells apart: does it decode, to an object or to something      *)
(* else, has it an id, and which method does it name.                        *)
EXTENDS Naturals, Sequences

CONSTANT MaxLines          \* bound: the lines a client writes

ASSUME MaxLinesAssumption == MaxLines \in Nat \ {0}

Methods == {"missing", "initialize", "initialized", "ping", "tools/list",
            "call-known", "call-unknown", "other"}

\* What one line may decode to.  "scalar" is any JSON value without an id and
\* a method: a number, a string, an array (so a JSON-RPC batch too).
Lines ==
    [shape : {"garbage", "null", "scalar"}, hasId : {FALSE}, method : {"missing"}]
      \cup [shape : {"object"}, hasId : BOOLEAN, method : Methods]

VARIABLES
    sent,      \* the lines the client wrote, in order
    split,     \* how many of them the data handler cut off and chained
    done,      \* how many of them dispatchLine has settled
    calling,   \* the line at hand awaits its tool handler
    chain,     \* the promise chain: "ok" or "rejected"
    stdin,     \* "open" or "ended"
    proc,      \* "up", "exited" (code 0) or "crashed"
    out        \* the responses written to stdout

mcpVars == <<sent, split, done, calling, chain, stdin, proc, out>>

Response(n, body) ==
    [line |-> n, id |-> IF sent[n].hasId THEN n ELSE 0, body |-> body]

McpTypeOK ==
    /\ sent \in Seq(Lines) /\ Len(sent) <= MaxLines
    /\ split \in 0..Len(sent)
    /\ done \in 0..split
    /\ calling \in BOOLEAN
    /\ chain \in {"ok", "rejected"}
    /\ stdin \in {"open", "ended"}
    /\ proc \in {"up", "exited", "crashed"}
    /\ \A i \in DOMAIN out :
          /\ out[i].line \in 1..split
          /\ out[i].body \in {"result", "isError", "parse-error", "invalid-request",
                              "method-not-found"}

McpInit ==
    /\ sent = <<>>
    /\ split = 0
    /\ done = 0
    /\ calling = FALSE
    /\ chain = "ok"
    /\ stdin = "open"
    /\ proc = "up"
    /\ out = <<>>

----------------------------------------------------------------------------
(* The client and the pipe.                                                  *)

ClientWrites(line) ==
    /\ stdin = "open" /\ proc = "up"
    /\ Len(sent) < MaxLines
    /\ sent' = Append(sent, line)
    /\ UNCHANGED <<split, done, calling, chain, stdin, proc, out>>

\* A chunk ends anywhere, so it completes any number of the pending lines;
\* each of them is chained behind the ones before it.  Node settles an
\* unhandled rejection before it reads the next chunk.
Data ==
    /\ proc = "up" /\ stdin = "open" /\ chain = "ok"
    /\ \E n \in (split + 1)..Len(sent) : split' = n
    /\ UNCHANGED <<sent, done, calling, chain, stdin, proc, out>>

\* What stays in the buffer, a last line without its newline, is not dispatched.
End ==
    /\ proc = "up" /\ stdin = "open" /\ chain = "ok"
    /\ Len(sent) - split \in {0, 1}
    /\ stdin' = "ended"
    /\ UNCHANGED <<sent, split, done, calling, chain, proc, out>>

----------------------------------------------------------------------------
(* dispatchLine, and handle inside it.                                       *)

CanDispatch == proc = "up" /\ chain = "ok" /\ ~calling /\ done < split

\* What handle answers a line with, apart from a tool call: nothing for
\* a notification the switch stays silent on.
Answers(line) ==
    IF line.method \in {"initialize", "tools/list"} THEN <<"result">>
    ELSE IF line.method = "call-unknown" THEN <<"method-not-found">>
    ELSE IF ~line.hasId \/ line.method = "initialized" THEN <<>>
    ELSE CASE line.method = "missing" -> <<"invalid-request">>
           [] line.method = "ping"    -> <<"result">>
           [] line.method = "other"   -> <<"method-not-found">>

Settle(n, bodies) ==
    /\ done' = n
    /\ out' = out \o [i \in DOMAIN bodies |-> Response(n, bodies[i])]

DispatchGarbage ==
    /\ CanDispatch
    /\ sent[done + 1].shape = "garbage"
    /\ Settle(done + 1, <<"parse-error">>)
    /\ UNCHANGED <<sent, split, calling, chain, stdin, proc>>

\* handle(null) throws on msg.id, and the catch block throws again on
\* parsed.id: the link of the chain is rejected, and so is every later one.
DispatchNull ==
    /\ CanDispatch
    /\ sent[done + 1].shape = "null"
    /\ done' = done + 1
    /\ chain' = "rejected"
    /\ UNCHANGED <<sent, split, calling, stdin, proc, out>>

DispatchMessage ==
    /\ CanDispatch
    /\ sent[done + 1].shape \in {"scalar", "object"}
    /\ sent[done + 1].method # "call-known"
    /\ Settle(done + 1, Answers(sent[done + 1]))
    /\ UNCHANGED <<sent, split, calling, chain, stdin, proc>>

BeginCall ==
    /\ CanDispatch
    /\ sent[done + 1].method = "call-known"
    /\ calling' = TRUE
    /\ UNCHANGED <<sent, split, done, chain, stdin, proc, out>>

\* A mutant: what the handler throws is swallowed and nothing is written.
FinishCallSilently ==
    /\ proc = "up" /\ calling
    /\ calling' = FALSE
    /\ \E bodies \in {<<"result">>, <<>>} : Settle(done + 1, bodies)
    /\ UNCHANGED <<sent, split, chain, stdin, proc>>

\* A handler that throws is answered with an error-flagged result.
FinishCall ==
    /\ proc = "up" /\ calling
    /\ calling' = FALSE
    /\ \E body \in {"result", "isError"} : Settle(done + 1, <<body>>)
    /\ UNCHANGED <<sent, split, chain, stdin, proc>>

----------------------------------------------------------------------------
(* The process.                                                              *)

\* Nothing has a handler on the last link until stdin ends: Node ends the
\* process on the unhandled rejection.
UnhandledRejection ==
    /\ proc = "up" /\ stdin = "open" /\ chain = "rejected"
    /\ proc' = "crashed"
    /\ UNCHANGED <<sent, split, done, calling, chain, stdin, out>>

\* A mutant: only a chain that held resolves.
ServeResolvesIfHeld ==
    /\ proc = "up" /\ stdin = "ended"
    /\ chain = "ok" /\ ~calling /\ done = split
    /\ proc' = "exited"
    /\ UNCHANGED <<sent, split, done, calling, chain, stdin, out>>

\* chain.then(resolve).catch(resolve), and main returns.
ServeResolves ==
    /\ proc = "up" /\ stdin = "ended"
    /\ \/ chain = "rejected"
       \/ ~calling /\ done = split
    /\ proc' = "exited"
    /\ UNCHANGED <<sent, split, done, calling, chain, stdin, out>>

Dispatch ==
    DispatchGarbage \/ DispatchNull \/ DispatchMessage \/ BeginCall \/ FinishCall

McpNext ==
    \/ \E line \in Lines : ClientWrites(line)
    \/ Data
    \/ End
    \/ Dispatch
    \/ UnhandledRejection
    \/ ServeResolves

McpSpec == McpInit /\ [][McpNext]_mcpVars

\* Promise jobs run as long as there are any.  The client owes nothing.
McpFairSpec ==
    /\ McpSpec
    /\ WF_mcpVars(Dispatch)
    /\ WF_mcpVars(UnhandledRejection)
    /\ WF_mcpVars(ServeResolves)

----------------------------------------------------------------------------
(* Properties.                                                               *)

ExpectsAnswer(line) ==
    \/ line.shape = "garbage"
    \/ line.shape = "object" /\ line.hasId /\ line.method # "initialized"

\* Responses leave in the order the requests came, however the chunks cut the
\* lines and however long a tool takes: a later line is not looked at before
\* the earlier one is settled.
AnsweredInOrder ==
    \A i, j \in DOMAIN out : i < j => out[i].line < out[j].line

\* A settled request has exactly one response, and a request with an id gets
\* it under its own id, whatever the method is, but for the handshake's
\* "initialized", and whether or not the tool threw.
EveryRequestAnsweredOnce ==
    \A n \in 1..done :
        ExpectsAnswer(sent[n]) =>
            \E i \in DOMAIN out :
                /\ out[i].line = n /\ out[i].id = IF sent[n].hasId THEN n ELSE 0
                /\ \A j \in DOMAIN out \ {i} : out[j].line # n

\* The server leaves on its own only after it has answered all that was cut
\* off the stream, or after a line that broke the chain.
DrainedBeforeExit ==
    proc = "exited" /\ done < split => \E n \in 1..done : sent[n].shape = "null"

\* One stream, one order, one answer each (protocol.ts:195, "processed strictly
\* in arrival order").
AnswersMatchRequests ==
    McpTypeOK /\ AnsweredInOrder /\ EveryRequestAnsweredOnce /\ DrainedBeforeExit

\* Once stdin has ended the process goes away: no tool call and no broken
\* chain keeps it holding the pipe.
EndedLeadsToExit == stdin = "ended" ~> proc # "up"

\* protocol.ts:102 says that a message without an id gets no response.  It does
\* not hold: initialize, tools/list and tools/call answer it under the id null.
NotificationsStaySilent ==
    \A i \in DOMAIN out :
        sent[out[i].line].shape = "object" => sent[out[i].line].hasId

\* protocol.ts:243 says that a failure of the dispatcher is reported "rather
\* than dying, so a single malformed message can't end the session".
NoLineEndsTheSession == proc # "crashed"

=============================================================================

----------------------------- MODULE MCConnectors -----------------------------
(* What exchanges messages with something that may fail to answer: the lines  *)
(* of the MCP server, the extension host and the sends of the repeater.  A    *)
(* behavior is of one part; the others stay as they began.                    *)
EXTENDS McpServer, ExtensionHost, Repeater, TLC

CONSTANTS l1, l2, typed, cookied, home, other

(* Two loads, of one id, and two calls beside them.                          *)
SameId == [l \in Loads |-> "a"]

(* Two sends at once: one with typed credentials and a chain of two          *)
(* redirects, one with the cookie jar and a single redirect.                 *)
MCSends        == {typed, cookied}
MCHosts        == {home, other}
MCJarSends     == {cookied}
MCMaxRedirects == (typed :> 2) @@ (cookied :> 1)

VARIABLE part

connectorsVars == <<mcpVars, extensionVars, repeaterVars, part>>

ConnectorsInit == part \in {"mcp", "host", "repeater"} /\ McpInit /\ HostInit /\ RepeaterInit

McpStep      == part = "mcp" /\ McpNext /\ UNCHANGED <<extensionVars, repeaterVars, part>>
HostStep     == part = "host" /\ HostNext /\ UNCHANGED <<mcpVars, repeaterVars, part>>
RepeaterStep == part = "repeater" /\ RepeaterNext /\ UNCHANGED <<mcpVars, extensionVars, part>>

\* The fairness of McpFairSpec, HostFairSpec and RepeaterFairSpec, each for the
\* behaviors of its part.
ConnectorsFairness ==
    /\ WF_mcpVars(part = "mcp" /\ Dispatch)
    /\ WF_mcpVars(part = "mcp" /\ UnhandledRejection)
    /\ WF_mcpVars(part = "mcp" /\ ServeResolves)
    /\ \A c \in Calls :
          /\ WF_extensionVars(part = "host" /\ (ReadyFailed(c) \/ AfterReady(c)))
          /\ WF_extensionVars(part = "host" /\ Timeout(c))
    /\ WF_extensionVars(part = "host" /\ OnMessage)
    /\ WF_extensionVars(part = "host" /\ OnExit)
    /\ WF_extensionVars(part = "host" /\ OnDisconnect)
    /\ WF_extensionVars(part = "host" /\ Kill)
    /\ WF_extensionVars(part = "host" /\ Boot)
    /\ WF_repeaterVars(part = "repeater" /\ Refill)
    /\ \A s \in Sends : WF_repeaterVars(part = "repeater" /\ Hop(s))

ConnectorsSpec ==
    ConnectorsInit /\ [][McpStep \/ HostStep \/ RepeaterStep]_connectorsVars /\ ConnectorsFairness
===============================================================================

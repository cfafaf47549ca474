-------------------------- MODULE MCVariationEngine --------------------------
(***************************************************************************)
(* Either two jobs of one request each under one emergency stop and one    *)
(* scope, that of j1 off the base path and that of j2 not to be rendered;  *)
(* or one job, j3, of three requests, two at a time, the last of them off  *)
(* the base path.                                                          *)
(***************************************************************************)
EXTENDS VariationEngine

CONSTANTS j1, j2, j3, base, other

VARIABLE alone  \* whether j3 is the job of this behavior

MCPaths    == {base, other}
MCBasePath == [j \in Jobs |-> base]

MCCount     == [j \in Jobs |-> CASE j = j1 -> 1 [] j = j2 -> 1 [] OTHER -> 3]
MCConc      == [j \in Jobs |-> IF j = j3 THEN 2 ELSE 1]
MCBurst     == [j \in Jobs |-> IF j = j3 THEN 2 ELSE 1]
MCPathOf    == [j \in Jobs |-> [i \in Iters |-> IF j # j2 /\ i = MCCount[j] THEN other ELSE base]]
MCMalformed == [j \in Jobs |-> IF j = j2 THEN {1} ELSE {}]

Absent == IF alone THEN {j1, j2} ELSE {j3}

MCNext == Next /\ (\A j \in Absent : status'[j] = "none") /\ UNCHANGED alone

MCInit == Init /\ alone \in BOOLEAN

MCFairSpec == MCInit /\ [][MCNext]_<<vars, alone>> /\ Fairness
=============================================================================

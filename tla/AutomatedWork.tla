---------------------------- MODULE AutomatedWork ----------------------------
(***************************************************************************)
(* What a variation job promises, with its loop, its rate limiter, its     *)
(* semaphore and its pause gate left out: work is admitted, started, sent  *)
(* out a bounded number at a time, can be stopped at any moment, sends     *)
(* nothing more once stopped, and ends only when nothing is out.           *)
(***************************************************************************)
EXTENDS Naturals, FiniteSets

CONSTANTS Jobs, Iters, Count, Conc

VARIABLES
  state,  \* state[j] \in {"none", "ready", "open", "stopping", "ended"}
  out,    \* out[j]: requests the job has out
  used    \* used[j]: iterations it has dealt with, sent or not

vars == <<state, out, used>>

Init ==
  /\ state = [j \in Jobs |-> "none"]
  /\ out = [j \in Jobs |-> {}]
  /\ used = [j \in Jobs |-> {}]

Admit(j) ==
  /\ state[j] = "none"
  /\ Count[j] > 0
  /\ state' = [state EXCEPT ![j] = "ready"]
  /\ UNCHANGED <<out, used>>

Start(j) ==
  /\ state[j] = "ready"
  /\ state' = [state EXCEPT ![j] = "open"]
  /\ UNCHANGED <<out, used>>

Send(j, i) ==
  /\ state[j] = "open"
  /\ i \notin used[j]
  /\ Cardinality(out[j]) < Conc[j]
  /\ out' = [out EXCEPT ![j] = @ \cup {i}]
  /\ used' = [used EXCEPT ![j] = @ \cup {i}]
  /\ UNCHANGED state

\* An iteration dealt with without sending: malformed, out of scope or stopped.
Drop(j, i) ==
  /\ state[j] \in {"open", "stopping"}
  /\ i \notin used[j]
  /\ used' = [used EXCEPT ![j] = @ \cup {i}]
  /\ UNCHANGED <<state, out>>

Return(j, i) ==
  /\ i \in out[j]
  /\ out' = [out EXCEPT ![j] = @ \ {i}]
  /\ UNCHANGED <<state, used>>

\* Any set of jobs is stopped in one step; a job never started just ends.
Stop(S) ==
  /\ state' = [j \in Jobs |->
       IF j \in S /\ state[j] = "ready" THEN "ended"
       ELSE IF j \in S /\ state[j] = "open" THEN "stopping"
       ELSE state[j]]
  /\ UNCHANGED <<out, used>>

End(j) ==
  /\ out[j] = {}
  /\ \/ state[j] = "stopping"
     \/ state[j] = "open" /\ 1..Count[j] \subseteq used[j]
  /\ state' = [state EXCEPT ![j] = "ended"]
  /\ UNCHANGED <<out, used>>

Next ==
  \/ \E j \in Jobs : Admit(j) \/ Start(j) \/ End(j)
  \/ \E j \in Jobs, i \in Iters : Send(j, i) \/ Drop(j, i) \/ Return(j, i)
  \/ \E S \in SUBSET Jobs : Stop(S)

Spec == Init /\ [][Next]_vars

=============================================================================

--------------------------- MODULE VariationEngine ---------------------------
(***************************************************************************)
(* The scope-gated, rate-limited request variation engine: jobs, the loop  *)
(* that launches one request per payload assignment, the token bucket and  *)
(* the semaphore that pace it, and the pause / resume / stop / emergency   *)
(* stop controls that race with it.                                        *)
(*                                                                         *)
(* One action is one run of JavaScript between two awaits that really      *)
(* suspend.  An await that finds its promise already resolved (a token in  *)
(* the bucket, a free permit) does not end the action; one that has to     *)
(* wait (pause gate, empty bucket, exhausted semaphore, socket, disk) does.*)
(* At the top of its loop ("top") the code runs on in a microtask; letting  *)
(* other actions come first there only adds behaviours.                    *)
(***************************************************************************)
EXTENDS Naturals, FiniteSets

CONSTANTS
  Jobs,         \* job identifiers
  Paths,        \* origin-form targets the scope rules tell apart
  MaxRequests,  \* plan.limits.maxRequestsPerJob
  Count,        \* Count[j]: requests job j's plan generates (planCount)
  Conc,         \* Conc[j]: plan.limits.maxConcurrency
  Burst,        \* Burst[j]: token bucket capacity
  BasePath,     \* BasePath[j]: target of the base request
  PathOf,       \* PathOf[j][i]: target of the i-th rendered request
  Malformed     \* Malformed[j]: iterations whose rendering or parsing throws

Iters == 1..MaxRequests

ASSUME PlanAssumption ==
  /\ MaxRequests \in Nat
  /\ Count \in [Jobs -> Nat]
  /\ Conc \in [Jobs -> Nat \ {0}]
  /\ Burst \in [Jobs -> Nat \ {0}]
  /\ BasePath \in [Jobs -> Paths]
  /\ PathOf \in [Jobs -> [Iters -> Paths]]
  /\ Malformed \in [Jobs -> SUBSET Iters]

VARIABLES
  scope,    \* the targets the live project scope lets through
  status,   \* status[j]: JobStatus, "none" before createJob
  aborted,  \* aborted[j]: the job's AbortController fired
  gate,     \* gate[j]: job.pauseGate is defined
  pc,       \* pc[j]: where run(j)'s loop is suspended
  next,     \* next[j]: index of the iteration the loop is at
  tokens,   \* tokens[j]: whole tokens in the job's bucket
  permits,  \* permits[j]: Semaphore.available
  phase,    \* phase[j][i]: what became of iteration i (its result row)
  audit     \* audit[j]: the last audit entry about the life of job j

vars == <<scope, status, aborted, gate, pc, next, tokens, permits, phase, audit>>

Statuses == {"none", "created", "running", "paused", "stopped", "completed"}
LoopAt   == {"idle", "top", "gate", "bucket", "sem", "granted", "drain", "done"}
Reported == {"completed", "skipped", "error"}      \* iterations with a result row
Phases   == {"idle", "inflight", "storing", "abandoned"} \cup Reported
Entries  == {"none", "job.create", "job.start", "job.pause", "job.resume", "job.stop",
             "emergency-stop", "job.stopped", "job.complete"}

Finished(j) == status[j] \in {"stopped", "completed"}

\* Requests holding a permit: on the wire, or with a body being stored.
Open(j) == {i \in Iters : phase[j][i] \in {"inflight", "storing"}}

Init ==
  /\ scope = Paths
  /\ status = [j \in Jobs |-> "none"]
  /\ aborted = [j \in Jobs |-> FALSE]
  /\ gate = [j \in Jobs |-> FALSE]
  /\ pc = [j \in Jobs |-> "idle"]
  /\ next = [j \in Jobs |-> 1]
  /\ tokens = [j \in Jobs |-> 0]
  /\ permits = [j \in Jobs |-> 0]
  /\ phase = [j \in Jobs |-> [i \in Iters |-> "idle"]]
  /\ audit = [j \in Jobs |-> "none"]

----------------------------------------------------------------------------
(* Launching one iteration *)

\* (mutant) sendRaw does not look at a signal that is already aborted.
FirstPhaseIgnoringAbort(j, i) ==
  IF i \in Malformed[j] THEN "error"
  ELSE IF PathOf[j][i] \notin scope THEN "skipped"
  ELSE "inflight"

\* What runOne does before it first suspends: render, check scope, hand the
\* request to sendRaw, which refuses an aborted signal before any byte is sent.
FirstPhase(j, i) ==
  IF i \in Malformed[j] THEN "error"
  ELSE IF PathOf[j][i] \notin scope THEN "skipped"
  ELSE IF aborted[j] THEN "abandoned"
  ELSE "inflight"

\* (mutant) An iteration that ends without suspending does not release its permit.
LaunchKeepingPermit(j, p) ==
  LET i == next[j]
  IN /\ phase' = [phase EXCEPT ![j][i] = FirstPhase(j, i)]
     /\ permits' = [permits EXCEPT ![j] = p]
     /\ next' = [next EXCEPT ![j] = i + 1]
     /\ pc' = [pc EXCEPT ![j] = "top"]

\* The loop launches iteration next[j], holding a permit, with p others free.
\* An iteration that ends without suspending gives the permit back at once.
Launch(j, p) ==
  LET i == next[j]
      first == FirstPhase(j, i)
  IN /\ phase' = [phase EXCEPT ![j][i] = first]
     /\ permits' = [permits EXCEPT ![j] = IF first = "inflight" THEN p ELSE p + 1]
     /\ next' = [next EXCEPT ![j] = i + 1]
     /\ pc' = [pc EXCEPT ![j] = "top"]

\* sem.acquire() right after the token is taken, with no look at the signal or
\* at the gate in between: launch now, or queue on the semaphore.
Acquire(j) ==
  \/ /\ permits[j] > 0
     /\ Launch(j, permits[j] - 1)
  \/ /\ permits[j] = 0
     /\ pc' = [pc EXCEPT ![j] = "sem"]
     /\ UNCHANGED <<permits, next, phase>>

\* Past the pause gate the loop takes a token, or waits for the bucket to refill.
PassGate(j) ==
  \/ /\ tokens[j] > 0
     /\ tokens' = [tokens EXCEPT ![j] = tokens[j] - 1]
     /\ Acquire(j)
  \/ /\ tokens[j] = 0
     /\ pc' = [pc EXCEPT ![j] = "bucket"]
     /\ UNCHANGED <<tokens, permits, next, phase>>

----------------------------------------------------------------------------
(* Operator actions *)

\* The operator edits the scope; every check after this reads the new one.
SetScope(s) ==
  /\ scope' = s
  /\ UNCHANGED <<status, aborted, gate, pc, next, tokens, permits, phase, audit>>

\* A plan is refused when its base target is out of scope, when it generates
\* nothing, or when it exceeds the per-job maximum.
CreateJob(j) ==
  /\ status[j] = "none"
  /\ BasePath[j] \in scope
  /\ Count[j] \in 1..MaxRequests
  /\ status' = [status EXCEPT ![j] = "created"]
  /\ audit' = [audit EXCEPT ![j] = "job.create"]
  /\ UNCHANGED <<scope, aborted, gate, pc, next, tokens, permits, phase>>

\* run(): only a job that is still 'created' starts; bucket and semaphore are new.
Run(j) ==
  /\ status[j] = "created"
  /\ status' = [status EXCEPT ![j] = "running"]
  /\ audit' = [audit EXCEPT ![j] = "job.start"]
  /\ tokens' = [tokens EXCEPT ![j] = Burst[j]]
  /\ permits' = [permits EXCEPT ![j] = Conc[j]]
  /\ pc' = [pc EXCEPT ![j] = "top"]
  /\ UNCHANGED <<scope, aborted, gate, next, phase>>

\* (mutant) pause() changes the status and installs no gate.
CloseNoGate(j) == UNCHANGED gate

CloseGate(j) == gate' = [gate EXCEPT ![j] = TRUE]

\* pause() on a job that is not running changes nothing and is not audited.
Pause(j) ==
  /\ status[j] = "running"
  /\ status' = [status EXCEPT ![j] = "paused"]
  /\ CloseGate(j)
  /\ audit' = [audit EXCEPT ![j] = "job.pause"]
  /\ UNCHANGED <<scope, aborted, pc, next, tokens, permits, phase>>

\* The loop, when it waits at the gate, goes on at once: its continuation runs
\* before any other call can close the gate again.
Resume(j) ==
  /\ status[j] = "paused"
  /\ status' = [status EXCEPT ![j] = "running"]
  /\ gate' = [gate EXCEPT ![j] = FALSE]
  /\ audit' = [audit EXCEPT ![j] = "job.resume"]
  /\ IF pc[j] = "gate" THEN PassGate(j) ELSE UNCHANGED <<pc, next, tokens, permits, phase>>
  /\ UNCHANGED <<scope, aborted>>

\* A stop resolves the gate promise: the loop sees the aborted signal and breaks.
Unblocked(j) == IF pc[j] = "gate" THEN "drain" ELSE pc[j]

\* The jobs of S that VariationJob.stop() does not leave alone.
Live(S) == {j \in S : ~Finished(j)}

\* VariationJob.stop() on every job of S: the live ones become 'stopped', leave
\* the pause gate and have their signal aborted.
Halt(S) ==
  LET live == Live(S)
  IN /\ status' = [j \in Jobs |-> IF j \in live THEN "stopped" ELSE status[j]]
     /\ aborted' = [j \in Jobs |-> j \in live \/ aborted[j]]
     /\ gate' = [j \in Jobs |-> j \notin live /\ gate[j]]
     /\ pc' = [j \in Jobs |-> IF j \in live THEN Unblocked(j) ELSE pc[j]]

\* stop(): audited even when the job had already finished.
StopJob(j) ==
  /\ status[j] # "none"
  /\ Halt({j})
  /\ audit' = [audit EXCEPT ![j] = "job.stop"]
  /\ UNCHANGED <<scope, next, tokens, permits, phase>>

\* Global emergency stop: one audit entry, then every job of the table.
EmergencyStopAll ==
  LET table == {j \in Jobs : status[j] # "none"}
  IN /\ Halt(table)
     /\ audit' = [j \in Jobs |-> IF j \in table THEN "emergency-stop" ELSE audit[j]]
     /\ UNCHANGED <<scope, next, tokens, permits, phase>>

----------------------------------------------------------------------------
(* The loop of run() *)

\* The plan is exhausted or the signal aborted: on to the settling of what is
\* still in flight.
LeaveLoop(j) ==
  /\ \/ pc[j] = "top" /\ (aborted[j] \/ next[j] > Count[j])
     \/ pc[j] = "bucket" /\ aborted[j]
  /\ pc' = [pc EXCEPT ![j] = "drain"]
  /\ UNCHANGED <<scope, status, aborted, gate, next, tokens, permits, phase, audit>>

AwaitGate(j) ==
  /\ pc[j] = "top"
  /\ ~aborted[j]
  /\ next[j] <= Count[j]
  /\ gate[j]
  /\ pc' = [pc EXCEPT ![j] = "gate"]
  /\ UNCHANGED <<scope, status, aborted, gate, next, tokens, permits, phase, audit>>

TakeToken(j) ==
  /\ pc[j] = "top"
  /\ ~aborted[j]
  /\ next[j] <= Count[j]
  /\ ~gate[j]
  /\ PassGate(j)
  /\ UNCHANGED <<scope, status, aborted, gate, audit>>

\* A refill, or the timer of delay(), finds the loop waiting in take().
WakeUp(j) ==
  /\ pc[j] = "bucket"
  /\ ~aborted[j]
  /\ tokens[j] > 0
  /\ PassGate(j)
  /\ UNCHANGED <<scope, status, aborted, gate, audit>>

\* The loop was queued on the semaphore and a finished request let it through.
LaunchGranted(j) ==
  /\ pc[j] = "granted"
  /\ Launch(j, permits[j])
  /\ UNCHANGED <<scope, status, aborted, gate, tokens, audit>>

\* (mutant) run() does not await the requests in flight.
DrainedAtOnce(j) == TRUE

\* Every task pushed to inFlight has settled.
Drained(j) == Open(j) = {}

\* The status and the audit entry the finally block derives from the signal.
Outcome(j) ==
  IF aborted[j] THEN <<"stopped", "job.stopped">> ELSE <<"completed", "job.complete">>

\* Promise.allSettled(inFlight), then the finally block.  A job paused after its
\* last launch is completed here without having been resumed.
Finish(j) ==
  /\ pc[j] = "drain"
  /\ Drained(j)
  /\ pc' = [pc EXCEPT ![j] = "done"]
  /\ status' = [status EXCEPT ![j] = Outcome(j)[1]]
  /\ audit' = [audit EXCEPT ![j] = Outcome(j)[2]]
  /\ UNCHANGED <<scope, aborted, gate, next, tokens, permits, phase>>

----------------------------------------------------------------------------
(* The bucket's clock, and what happens to requests once launched *)

Refill(j) ==
  /\ pc[j] \notin {"idle", "done"}
  /\ tokens[j] < Burst[j]
  /\ tokens' = [tokens EXCEPT ![j] = tokens[j] + 1]
  /\ UNCHANGED <<scope, status, aborted, gate, pc, next, permits, phase, audit>>

\* (mutant) release() never looks at the queue of waiters.
ReleaseForgetful(j) ==
  /\ permits' = [permits EXCEPT ![j] = permits[j] + 1]
  /\ UNCHANGED pc

\* Semaphore.release(): the permit goes to the loop when it is queued.
Release(j) ==
  IF pc[j] = "sem"
  THEN pc' = [pc EXCEPT ![j] = "granted"] /\ UNCHANGED permits
  ELSE permits' = [permits EXCEPT ![j] = permits[j] + 1] /\ UNCHANGED pc

Settle(j, i, outcome) ==
  /\ phase' = [phase EXCEPT ![j][i] = outcome]
  /\ Release(j)
  /\ UNCHANGED <<scope, status, aborted, gate, next, tokens, audit>>

\* sendRaw resolves; runOne goes on to store both bodies, which suspends.
Respond(j, i) ==
  /\ phase[j][i] = "inflight"
  /\ ~aborted[j]
  /\ phase' = [phase EXCEPT ![j][i] = "storing"]
  /\ UNCHANGED <<scope, status, aborted, gate, pc, next, tokens, permits, audit>>

\* sendRaw rejects: a network error or its wall-clock deadline.
Fail(j, i) ==
  /\ phase[j][i] = "inflight"
  /\ ~aborted[j]
  /\ Settle(j, i, "error")

\* The abort signal destroys the request; runOne returns without a result row.
Cancel(j, i) ==
  /\ phase[j][i] = "inflight"
  /\ aborted[j]
  /\ Settle(j, i, "abandoned")

\* The exchange is handed to onExchange and counted, even if the job was stopped
\* while its body was being stored.
Store(j, i) ==
  /\ phase[j][i] = "storing"
  /\ Settle(j, i, "completed")

\* Storing throws: an error row, unless the job has been stopped meanwhile.
StoreFails(j, i) ==
  /\ phase[j][i] = "storing"
  /\ Settle(j, i, IF aborted[j] THEN "abandoned" ELSE "error")

----------------------------------------------------------------------------
LoopStep(j) ==
  \/ LeaveLoop(j)
  \/ AwaitGate(j)
  \/ TakeToken(j)
  \/ WakeUp(j)
  \/ LaunchGranted(j)
  \/ Finish(j)

Answered(j, i) == Respond(j, i) \/ Fail(j, i) \/ Cancel(j, i)

Stored(j, i) == Store(j, i) \/ StoreFails(j, i)

Operator ==
  \/ \E s \in SUBSET Paths : SetScope(s)
  \/ \E j \in Jobs : CreateJob(j) \/ Run(j) \/ Pause(j) \/ Resume(j) \/ StopJob(j)
  \/ EmergencyStopAll

Next ==
  \/ Operator
  \/ \E j \in Jobs : LoopStep(j) \/ Refill(j)
  \/ \E j \in Jobs, i \in Iters : Answered(j, i) \/ Stored(j, i)

\* The event loop runs a job's continuations, time refills the bucket, sendRaw
\* settles within its deadline and disk writes end.  The operator owes nothing.
Fairness ==
  /\ \A j \in Jobs : WF_vars(LoopStep(j)) /\ WF_vars(Refill(j))
  /\ \A j \in Jobs, i \in Iters : WF_vars(Answered(j, i)) /\ WF_vars(Stored(j, i))

Spec == Init /\ [][Next]_vars

FairSpec == Spec /\ Fairness

----------------------------------------------------------------------------
(* Type invariant *)

\* Every variable has the type its field has in the code.
TypeOK ==
  /\ scope \subseteq Paths
  /\ status \in [Jobs -> Statuses]
  /\ aborted \in [Jobs -> BOOLEAN]
  /\ gate \in [Jobs -> BOOLEAN]
  /\ pc \in [Jobs -> LoopAt]
  /\ next \in [Jobs -> 1..(MaxRequests + 1)]
  /\ tokens \in [Jobs -> Nat]
  /\ permits \in [Jobs -> Nat]
  /\ phase \in [Jobs -> [Iters -> Phases]]
  /\ audit \in [Jobs -> Entries]

(* Safety *)

\* No more requests of a job are open at once than its plan's maxConcurrency,
\* however launches, releases and stops interleave on the semaphore.
ConcurrencyBound ==
  \A j \in Jobs : Cardinality(Open(j)) <= Conc[j]

\* A job reports 'completed' only when every generated request has a result row
\* (run() waits for what is in flight, and only a stop may leave gaps).
CompletedMeansAll ==
  \A j \in Jobs : status[j] = "completed" =>
    \A i \in 1..Count[j] : phase[j][i] \in Reported

\* 'stopped' and the aborted signal go together: no interleaving of stop with
\* pause, resume or the end of the loop takes a stopped job back.
StopSticks ==
  \A j \in Jobs : aborted[j] <=> status[j] = "stopped"

\* Reading a job's last audit entry tells the state the job is in; a stop of a
\* job that had already completed is the one entry that leaves two readings.
AuditExplainsStatus ==
  \A j \in Jobs :
    CASE audit[j] = "none"                          -> status[j] = "none"
      [] audit[j] = "job.create"                    -> status[j] = "created"
      [] audit[j] \in {"job.start", "job.resume"}   -> status[j] = "running"
      [] audit[j] = "job.pause"                     -> status[j] = "paused"
      [] audit[j] = "job.complete"                  -> status[j] = "completed"
      [] audit[j] = "job.stopped"                   -> status[j] = "stopped"
      [] OTHER                                      -> Finished(j)

----------------------------------------------------------------------------
(* The inductive invariant behind the safety properties *)

\* The loop of run() exists from the start of a job to its final report.
LoopMatchesStatus ==
  \A j \in Jobs :
    /\ status[j] \in {"none", "created"} => pc[j] = "idle"
    /\ status[j] \in {"running", "paused"} => pc[j] \notin {"idle", "done"}
    /\ status[j] = "completed" => pc[j] = "done"
    /\ pc[j] = "done" => Finished(j)

\* Iterations are launched in order, each once, and none beyond the plan.
LaunchedInOrder ==
  \A j \in Jobs :
    /\ \A i \in Iters : phase[j][i] = "idle" <=> i >= next[j]
    /\ status[j] # "none" => Count[j] \in 1..MaxRequests
    /\ pc[j] = "idle" => next[j] = 1
    /\ pc[j] # "idle" => status[j] # "none" /\ next[j] <= Count[j] + 1
    /\ pc[j] \in {"gate", "bucket", "sem", "granted"} => next[j] <= Count[j]
    /\ pc[j] \in {"drain", "done"} => aborted[j] \/ next[j] > Count[j]

Granted(j) == IF pc[j] = "granted" THEN 1 ELSE 0

\* Permits are neither lost nor duplicated: free, held by an open request, or on
\* their way to the queued loop.
PermitsConserved ==
  \A j \in Jobs : pc[j] # "idle" => permits[j] + Cardinality(Open(j)) + Granted(j) = Conc[j]

\* Only a stop leaves an iteration without a result row, and a job that has
\* reported its outcome has nothing outstanding.
NothingLost ==
  \A j \in Jobs :
    /\ \A i \in Iters : phase[j][i] = "abandoned" => aborted[j]
    /\ pc[j] = "done" => Open(j) = {}

\* The state of the loop, the semaphore and the result rows at every moment:
\* what makes the properties above hold from one step to the next.
IInv ==
  /\ TypeOK
  /\ StopSticks
  /\ LoopMatchesStatus
  /\ LaunchedInOrder
  /\ PermitsConserved
  /\ NothingLost

----------------------------------------------------------------------------
(* Action properties *)

Sent(j, i) == phase[j][i] # "inflight" /\ phase'[j][i] = "inflight"

\* No request of a job goes out after its signal aborted, although the loop does
\* not look at the signal between waiting for a permit and launching.
NoSendAfterStop ==
  [][\A j \in Jobs, i \in Iters : Sent(j, i) => ~aborted[j]]_vars

\* Every request that goes out is in the scope that holds at that moment, not
\* merely in the one that held when the job was created or started.
SendsInScope ==
  [][\A j \in Jobs, i \in Iters : Sent(j, i) => PathOf[j][i] \in scope]_vars

\* A paused job whose loop is back at its top takes no further payload: at most
\* the one iteration that was past the gate when pause() came still goes out.
PauseHoldsTheLoop ==
  [][\A j \in Jobs :
       status[j] = "paused" /\ status'[j] = "paused" /\ pc[j] \in {"top", "gate"}
         => next'[j] = next[j]]_vars

\* Once run() has reported the outcome, status and result rows are final.
OutcomeIsFinal ==
  [][\A j \in Jobs : pc[j] = "done" =>
       /\ pc'[j] = "done"
       /\ status'[j] = status[j]
       /\ phase'[j] = phase[j]]_vars

(* Refinement *)

WorkState(j) ==
  CASE status[j] = "none"                  -> "none"
    [] status[j] = "created"               -> "ready"
    [] status[j] \in {"running", "paused"} -> "open"
    [] Finished(j) /\ pc[j] \in {"idle", "done"}    -> "ended"
    [] Finished(j) /\ pc[j] \notin {"idle", "done"} -> "stopping"

Work == INSTANCE AutomatedWork WITH
  state <- [j \in Jobs |-> WorkState(j)],
  out   <- [j \in Jobs |-> Open(j)],
  used  <- [j \in Jobs |-> {i \in Iters : phase[j][i] # "idle"}]

\* The engine, with its gate, bucket and semaphore, keeps the promise of
\* AutomatedWork: bounded, stoppable work that ends with nothing outstanding.
ImplementsWork == Work!Spec

(* Liveness *)

\* A stop always ends the run, wherever the loop was suspended when it came.
StopDrains ==
  \A j \in Jobs : (aborted[j] /\ pc[j] # "idle") ~> pc[j] = "done"

\* A started job is never stuck on its own limits: it ends unless it is paused.
JobsFinish ==
  \A j \in Jobs : status[j] = "running" ~> (pc[j] = "done" \/ status[j] = "paused")

(* What the runs check together *)

\* Nothing goes out that the operator did not allow at that moment: not after a
\* stop, and not outside of the scope as it is.
SendsAreAllowed == NoSendAfterStop /\ SendsInScope

\* Status, audit and result rows tell one story of what the controls did to a job,
\* and a reported outcome is whole and not told again.
ControlsHold == /\ []AuditExplainsStatus /\ []ConcurrencyBound /\ []CompletedMeansAll
                /\ PauseHoldsTheLoop /\ OutcomeIsFinal

\* A job that is started or stopped ends, unless it is paused.
JobsEnd == StopDrains /\ JobsFinish

=============================================================================

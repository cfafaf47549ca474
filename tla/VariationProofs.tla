--------------------------- MODULE VariationProofs ---------------------------
(***************************************************************************)
(* Proofs about VariationEngine, for every set of jobs and every plan.     *)
(***************************************************************************)
EXTENDS VariationEngine, FiniteSetTheorems, TLAPS

\* What the synchronous part of runOne can leave behind.
LEMMA FirstPhaseCases ==
  ASSUME NEW j, NEW i
  PROVE  FirstPhase(j, i) \in {"error", "skipped", "abandoned", "inflight"}
BY DEF FirstPhase

\* A launch moves to the next iteration and keeps every variable in its type.
LEMMA LaunchType ==
  ASSUME TypeOK, NEW j \in Jobs, next[j] \in Iters, NEW p \in Nat, Launch(j, p)
  PROVE  /\ pc' \in [Jobs -> LoopAt]
         /\ next' \in [Jobs -> 1..(MaxRequests + 1)]
         /\ permits' \in [Jobs -> Nat]
         /\ phase' \in [Jobs -> [Iters -> Phases]]
<1>1. FirstPhase(j, next[j]) \in Phases
  BY FirstPhaseCases DEF Phases, Reported
<1>2. next[j] + 1 \in 1..(MaxRequests + 1)
  BY PlanAssumption DEF Iters, TypeOK
<1>. QED
  BY <1>1, <1>2 DEF Launch, TypeOK, LoopAt

LEMMA PassGateType ==
  ASSUME TypeOK, NEW j \in Jobs, next[j] \in Iters, PassGate(j)
  PROVE  /\ pc' \in [Jobs -> LoopAt]
         /\ next' \in [Jobs -> 1..(MaxRequests + 1)]
         /\ tokens' \in [Jobs -> Nat]
         /\ permits' \in [Jobs -> Nat]
         /\ phase' \in [Jobs -> [Iters -> Phases]]
<1>1. tokens[j] \in Nat /\ permits[j] \in Nat
  BY DEF TypeOK
<1>2. CASE tokens[j] > 0 /\ permits[j] > 0
  <2>1. permits[j] - 1 \in Nat /\ Launch(j, permits[j] - 1)
    BY <1>1, <1>2 DEF PassGate, Acquire
  <2>2. tokens' \in [Jobs -> Nat]
    BY <1>1, <1>2 DEF PassGate, TypeOK
  <2>. QED
    BY <2>1, <2>2, LaunchType
<1>3. CASE tokens[j] > 0 /\ permits[j] = 0
  <2>1. /\ tokens' = [tokens EXCEPT ![j] = tokens[j] - 1]
        /\ pc' = [pc EXCEPT ![j] = "sem"]
        /\ UNCHANGED <<permits, next, phase>>
    BY <1>1, <1>3 DEF PassGate, Acquire
  <2>. QED
    BY <1>1, <1>3, <2>1 DEF TypeOK, LoopAt
<1>4. CASE tokens[j] = 0
  BY <1>4 DEF PassGate, TypeOK, LoopAt
<1>. QED
  BY <1>1, <1>2, <1>3, <1>4

\* A settled request leaves its row and the permit it held in their types.
LEMMA SettleType ==
  ASSUME TypeOK, NEW j \in Jobs, NEW i \in Iters, NEW outcome \in Phases,
         Settle(j, i, outcome)
  PROVE  TypeOK'
<1>1. phase' \in [Jobs -> [Iters -> Phases]]
  BY DEF Settle, TypeOK
<1>2. CASE pc[j] = "sem"
  <2>1. pc' = [pc EXCEPT ![j] = "granted"] /\ permits' = permits
    BY <1>2 DEF Settle, Release
  <2>. QED
    BY <1>1, <2>1 DEF Settle, TypeOK, LoopAt
<1>3. CASE pc[j] # "sem"
  <2>1. permits' = [permits EXCEPT ![j] = permits[j] + 1] /\ pc' = pc
    BY <1>3 DEF Settle, Release
  <2>. QED
    BY <1>1, <2>1 DEF Settle, TypeOK
<1>. QED
  BY <1>2, <1>3

\* An index the loop may launch is a valid iteration of the plan.
LEMMA NextIsIteration ==
  ASSUME TypeOK, LaunchedInOrder, NEW j \in Jobs, status[j] # "none", next[j] <= Count[j]
  PROVE  next[j] \in Iters
BY PlanAssumption DEF TypeOK, LaunchedInOrder, Iters

LEMMA TypeStep == TypeOK /\ LoopMatchesStatus /\ LaunchedInOrder /\ [Next]_vars => TypeOK'
<1>. SUFFICES ASSUME TypeOK, LoopMatchesStatus, LaunchedInOrder, [Next]_vars
              PROVE  TypeOK'
  OBVIOUS
<1>1. ASSUME NEW s \in SUBSET Paths, SetScope(s) PROVE TypeOK'
  BY <1>1 DEF SetScope, TypeOK
<1>2. ASSUME NEW j \in Jobs, CreateJob(j) PROVE TypeOK'
  BY <1>2 DEF CreateJob, TypeOK, Statuses, Entries
<1>3. ASSUME NEW j \in Jobs, Run(j) PROVE TypeOK'
  BY <1>3, PlanAssumption DEF Run, TypeOK, Statuses, Entries, LoopAt
<1>4. ASSUME NEW j \in Jobs, Pause(j) PROVE TypeOK'
  BY <1>4 DEF Pause, CloseGate, TypeOK, Statuses, Entries
<1>5. ASSUME NEW j \in Jobs, Resume(j) PROVE TypeOK'
  <2>1. CASE pc[j] = "gate"
    <3>1. next[j] \in Iters
      BY <2>1, <1>5, NextIsIteration DEF Resume, LaunchedInOrder
    <3>. QED
      BY <1>5, <2>1, <3>1, PassGateType DEF Resume, TypeOK, Statuses, Entries
  <2>2. CASE pc[j] # "gate"
    BY <1>5, <2>2 DEF Resume, TypeOK, Statuses, Entries
  <2>. QED
    BY <2>1, <2>2
<1>6. ASSUME NEW j \in Jobs, StopJob(j) PROVE TypeOK'
  BY <1>6 DEF StopJob, Halt, Live, Unblocked, TypeOK, Statuses, Entries, LoopAt
<1>7. ASSUME EmergencyStopAll PROVE TypeOK'
  BY <1>7 DEF EmergencyStopAll, Halt, Live, Unblocked, TypeOK, Statuses, Entries, LoopAt
<1>8. ASSUME NEW j \in Jobs, LoopStep(j) PROVE TypeOK'
  <2>1. CASE LeaveLoop(j)
    BY <2>1 DEF LeaveLoop, TypeOK, LoopAt
  <2>2. CASE AwaitGate(j)
    BY <2>2 DEF AwaitGate, TypeOK, LoopAt
  <2>3. CASE TakeToken(j)
    <3>1. next[j] \in Iters
      BY <2>3, NextIsIteration DEF TakeToken, LaunchedInOrder
    <3>. QED
      BY <2>3, <3>1, PassGateType DEF TakeToken, TypeOK
  <2>4. CASE WakeUp(j)
    <3>1. next[j] \in Iters
      BY <2>4, NextIsIteration DEF WakeUp, LaunchedInOrder
    <3>. QED
      BY <2>4, <3>1, PassGateType DEF WakeUp, TypeOK
  <2>5. CASE LaunchGranted(j)
    <3>1. next[j] \in Iters
      BY <2>5, NextIsIteration DEF LaunchGranted, LaunchedInOrder
    <3>2. permits[j] \in Nat
      BY DEF TypeOK
    <3>. QED
      BY <2>5, <3>1, <3>2, LaunchType DEF LaunchGranted, TypeOK
  <2>6. CASE Finish(j)
    BY <2>6 DEF Finish, Outcome, TypeOK, LoopAt, Statuses, Entries
  <2>. QED
    BY <1>8, <2>1, <2>2, <2>3, <2>4, <2>5, <2>6 DEF LoopStep
<1>9. ASSUME NEW j \in Jobs, Refill(j) PROVE TypeOK'
  BY <1>9 DEF Refill, TypeOK
<1>10. ASSUME NEW j \in Jobs, NEW i \in Iters, Answered(j, i) \/ Stored(j, i)
       PROVE  TypeOK'
  <2>1. CASE Respond(j, i)
    BY <2>1 DEF Respond, TypeOK, Phases
  <2>2. CASE \E outcome \in Phases : Settle(j, i, outcome)
    BY <2>2, SettleType
  <2>. QED
    BY <1>10, <2>1, <2>2 DEF Answered, Stored, Fail, Cancel, Store, StoreFails, Phases, Reported
<1>11. ASSUME UNCHANGED vars PROVE TypeOK'
  BY <1>11 DEF vars, TypeOK
<1>. QED
  BY <1>1, <1>2, <1>3, <1>4, <1>5, <1>6, <1>7, <1>8, <1>9, <1>10, <1>11 DEF Next, Operator

----------------------------------------------------------------------------
(* Counting the open requests *)

LEMMA OpenFinite ==
  ASSUME NEW j
  PROVE  /\ Open(j) \subseteq Iters
         /\ IsFiniteSet(Open(j))
         /\ Cardinality(Open(j)) \in Nat
<1>1. Open(j) \subseteq Iters
  BY DEF Open
<1>2. IsFiniteSet(Iters)
  BY PlanAssumption, FS_Interval DEF Iters
<1>3. IsFiniteSet(Open(j))
  BY <1>1, <1>2, FS_Subset
<1>. QED
  BY <1>1, <1>3, FS_CardinalityType

\* A launch keeps the count of permits and open requests: the permit the loop
\* held is now held by the request, or free again.
LEMMA LaunchCount ==
  ASSUME TypeOK, NEW j \in Jobs, NEW p \in Nat, next[j] \in Iters,
         phase[j][next[j]] = "idle", Launch(j, p)
  PROVE  /\ permits'[j] \in Nat
         /\ Cardinality(Open(j)') \in Nat
         /\ permits'[j] + Cardinality(Open(j)') = p + 1 + Cardinality(Open(j))
<1>. DEFINE i == next[j]
            first == FirstPhase(j, i)
<1>1. phase'[j] = [phase[j] EXCEPT ![i] = first]
  BY DEF Launch, TypeOK
<1>2. permits'[j] = IF first = "inflight" THEN p ELSE p + 1
  BY DEF Launch, TypeOK
<1>3. IsFiniteSet(Open(j)) /\ Cardinality(Open(j)) \in Nat /\ i \notin Open(j)
  BY OpenFinite DEF Open
<1>4. CASE first = "inflight"
  <2>1. Open(j)' = Open(j) \cup {i}
    BY <1>1, <1>4 DEF Open, TypeOK
  <2>2. Cardinality(Open(j)') = Cardinality(Open(j)) + 1
    BY <2>1, <1>3, FS_AddElement
  <2>. QED
    BY <1>2, <1>3, <1>4, <2>2
<1>5. CASE first # "inflight"
  <2>1. first \in {"error", "skipped", "abandoned"}
    BY <1>5, FirstPhaseCases
  <2>2. Open(j)' = Open(j)
    BY <1>1, <2>1 DEF Open, TypeOK
  <2>. QED
    BY <1>2, <1>3, <1>5, <2>2
<1>. QED
  BY <1>4, <1>5

\* A request that settles is no longer open.
LEMMA SettleCount ==
  ASSUME TypeOK, NEW j \in Jobs, NEW i \in Open(j),
         NEW outcome \in Reported \cup {"abandoned"}, Settle(j, i, outcome)
  PROVE  /\ Open(j)' = Open(j) \ {i}
         /\ Cardinality(Open(j)') = Cardinality(Open(j)) - 1
         /\ Cardinality(Open(j)) \in Nat \ {0}
<1>1. phase'[j] = [phase[j] EXCEPT ![i] = outcome] /\ i \in Iters
  BY DEF Settle, TypeOK, Open
<1>2. Open(j)' = Open(j) \ {i}
  BY <1>1 DEF Open, TypeOK, Reported
<1>3. IsFiniteSet(Open(j)) /\ Cardinality(Open(j)) \in Nat
  BY OpenFinite
<1>4. Cardinality(Open(j)) # 0
  BY <1>3, FS_EmptySet
<1>5. Cardinality(Open(j) \ {i}) = Cardinality(Open(j)) - 1
  BY <1>3, FS_RemoveElement
<1>. QED
  BY <1>2, <1>3, <1>4, <1>5

\* Another job's launches and answers leave this job's requests alone.
LEMMA OthersOpen ==
  ASSUME NEW j \in Jobs, phase'[j] = phase[j]
  PROVE  Open(j)' = Open(j)
BY DEF Open

----------------------------------------------------------------------------
(* What the loop does keeps its invariant *)

\* The parts of IInv that speak of the loop.
LoopInv == LoopMatchesStatus /\ LaunchedInOrder /\ PermitsConserved /\ NothingLost

\* All a step of job j changes of the loops concerns job j alone.
OnlyJob(j) ==
  \A k \in Jobs \ {j} :
    /\ pc'[k] = pc[k]
    /\ next'[k] = next[k]
    /\ permits'[k] = permits[k]
    /\ phase'[k] = phase[k]

\* A resume sets a paused job running; every other step of the loop that can
\* launch leaves the statuses and the signals alone.
SameOrResumed(j) ==
  /\ aborted' = aborted
  /\ \A k \in Jobs : status'[k] = status[k] \/ (k = j /\ status'[k] = "running")

\* The loop is past the checks at its top, with an iteration left to launch.
Launching(j) == next[j] <= Count[j] /\ pc[j] \notin {"idle", "drain", "done"}

LEMMA LaunchKeeps ==
  ASSUME IInv, NEW j \in Jobs, Launching(j), NEW p \in Nat,
         p + 1 + Cardinality(Open(j)) = Conc[j], Launch(j, p), SameOrResumed(j)
  PROVE  LoopInv'
<1>. DEFINE i == next[j]
<1>1. status[j] # "none" /\ i \in Iters /\ phase[j][i] = "idle"
  BY PlanAssumption DEF IInv, TypeOK, LaunchedInOrder, Launching, Iters
<1>2. OnlyJob(j)
  BY DEF Launch, OnlyJob, IInv, TypeOK
<1>3. /\ pc'[j] = "top"
      /\ next'[j] = i + 1
      /\ phase'[j] = [phase[j] EXCEPT ![i] = FirstPhase(j, i)]
  BY DEF Launch, IInv, TypeOK
<1>4. /\ permits'[j] \in Nat
      /\ Cardinality(Open(j)') \in Nat
      /\ permits'[j] + Cardinality(Open(j)') = Conc[j]
  BY <1>1, LaunchCount DEF IInv
<1>5. LoopMatchesStatus'
  BY <1>2, <1>3 DEF LoopMatchesStatus, OnlyJob, SameOrResumed, IInv, Launching, Finished
<1>6. LaunchedInOrder'
  <2>1. ASSUME NEW k \in Jobs, k # j
        PROVE  /\ \A n \in Iters : phase'[k][n] = "idle" <=> n >= next'[k]
               /\ status'[k] # "none" => Count[k] \in 1..MaxRequests
               /\ pc'[k] = "idle" => next'[k] = 1
               /\ pc'[k] # "idle" => status'[k] # "none" /\ next'[k] <= Count[k] + 1
               /\ pc'[k] \in {"gate", "bucket", "sem", "granted"} => next'[k] <= Count[k]
               /\ pc'[k] \in {"drain", "done"} => aborted'[k] \/ next'[k] > Count[k]
    BY <1>2, <2>1 DEF IInv, LaunchedInOrder, OnlyJob, SameOrResumed
  <2>2. ASSUME NEW n \in Iters
        PROVE  phase'[j][n] = "idle" <=> n >= next'[j]
    <3>1. FirstPhase(j, i) # "idle"
      BY FirstPhaseCases
    <3>2. phase'[j][n] = IF n = i THEN FirstPhase(j, i) ELSE phase[j][n]
      BY <1>3 DEF IInv, TypeOK
    <3>. QED
      BY <1>1, <1>3, <3>1, <3>2, PlanAssumption DEF IInv, LaunchedInOrder, Iters
  <2>3. /\ status'[j] # "none" /\ Count[j] \in 1..MaxRequests
        /\ next'[j] <= Count[j] + 1
    <3>1. status'[j] # "none" /\ Count[j] \in 1..MaxRequests
      BY <1>1 DEF IInv, LaunchedInOrder, SameOrResumed
    <3>. QED
      BY <1>1, <1>3, <3>1, PlanAssumption DEF Launching, Iters
  <2>. QED
    BY <1>3, <2>1, <2>2, <2>3 DEF LaunchedInOrder
<1>7. PermitsConserved'
  <2>1. ASSUME NEW k \in Jobs, k # j, pc'[k] # "idle"
        PROVE  permits'[k] + Cardinality(Open(k)') + Granted(k)' = Conc[k]
    <3>1. Open(k)' = Open(k) /\ Granted(k)' = Granted(k)
      BY <1>2, <2>1, OthersOpen DEF OnlyJob, Granted
    <3>. QED
      BY <1>2, <2>1, <3>1 DEF OnlyJob, IInv, PermitsConserved
  <2>2. permits'[j] + Cardinality(Open(j)') + Granted(j)' = Conc[j]
    <3>1. Granted(j)' = 0
      BY <1>3 DEF Granted
    <3>. QED
      BY <1>4, <3>1
  <2>. QED
    BY <2>1, <2>2 DEF PermitsConserved
<1>8. NothingLost'
  <2>1. ASSUME NEW k \in Jobs, k # j
        PROVE  /\ \A n \in Iters : phase'[k][n] = "abandoned" => aborted'[k]
               /\ pc'[k] = "done" => Open(k)' = {}
    BY <1>2, <2>1, OthersOpen DEF IInv, NothingLost, OnlyJob, SameOrResumed
  <2>2. ASSUME NEW n \in Iters, phase'[j][n] = "abandoned" PROVE aborted'[j]
    BY <1>1, <1>3, <2>2 DEF IInv, TypeOK, NothingLost, SameOrResumed, FirstPhase
  <2>. QED
    BY <1>3, <2>1, <2>2 DEF NothingLost
<1>. QED
  BY <1>5, <1>6, <1>7, <1>8 DEF LoopInv

\* A loop that is only suspended, or resumed, somewhere before its end: nothing
\* is launched and no permit moves.
LEMMA SuspendKeeps ==
  ASSUME IInv, NEW j \in Jobs, NEW at \in LoopAt,
         Launching(j), pc[j] # "granted",
         at \notin {"idle", "granted", "drain", "done"},
         pc' = [pc EXCEPT ![j] = at], UNCHANGED <<permits, next, phase>>,
         SameOrResumed(j)
  PROVE  LoopInv'
<1>1. status[j] # "none" /\ Count[j] \in Nat /\ next[j] \in Nat /\ OnlyJob(j) /\ pc'[j] = at
  BY PlanAssumption DEF IInv, TypeOK, LaunchedInOrder, Launching, OnlyJob
<1>2. LoopMatchesStatus'
  BY <1>1 DEF LoopMatchesStatus, OnlyJob, SameOrResumed, IInv, Launching, Finished
<1>3. LaunchedInOrder'
  BY <1>1 DEF LaunchedInOrder, OnlyJob, SameOrResumed, IInv, Launching
<1>4. \A k \in Jobs : Open(k)' = Open(k) /\ Granted(k)' = Granted(k)
  BY <1>1, OthersOpen DEF OnlyJob, Granted
<1>5. PermitsConserved'
  BY <1>1, <1>4 DEF PermitsConserved, IInv, Launching, OnlyJob
<1>6. NothingLost'
  BY <1>1, <1>4 DEF NothingLost, IInv, OnlyJob, SameOrResumed
<1>. QED
  BY <1>2, <1>3, <1>5, <1>6 DEF LoopInv

\* Past the gate: the loop launches, or waits for a token or for a permit.
LEMMA PassGateKeeps ==
  ASSUME IInv, NEW j \in Jobs, Launching(j), pc[j] \notin {"sem", "granted"},
         PassGate(j), SameOrResumed(j)
  PROVE  LoopInv'
<1>1. /\ tokens[j] \in Nat
      /\ permits[j] \in Nat
      /\ Cardinality(Open(j)) \in Nat
      /\ permits[j] + Cardinality(Open(j)) = Conc[j]
  BY OpenFinite, PlanAssumption DEF IInv, TypeOK, PermitsConserved, Granted, Launching
<1>2. CASE Acquire(j) /\ permits[j] > 0
  <2>1. Launch(j, permits[j] - 1) /\ permits[j] - 1 \in Nat
    BY <1>1, <1>2 DEF Acquire
  <2>2. permits[j] - 1 + 1 + Cardinality(Open(j)) = Conc[j]
    BY <1>1
  <2>. QED
    BY <2>1, <2>2, LaunchKeeps
<1>3. CASE Acquire(j) /\ permits[j] = 0
  <2>1. pc' = [pc EXCEPT ![j] = "sem"] /\ UNCHANGED <<permits, next, phase>>
    BY <1>1, <1>3 DEF Acquire
  <2>. QED
    BY <2>1, SuspendKeeps DEF LoopAt, Launching
<1>4. CASE tokens[j] = 0
  <2>1. pc' = [pc EXCEPT ![j] = "bucket"] /\ UNCHANGED <<permits, next, phase>>
    BY <1>1, <1>4 DEF PassGate
  <2>. QED
    BY <2>1, SuspendKeeps DEF LoopAt, Launching
<1>. QED
  BY <1>1, <1>2, <1>3, <1>4 DEF PassGate

\* An answer that settles gives its permit to the queued loop or back.
LEMMA SettleKeeps ==
  ASSUME IInv, NEW j \in Jobs, NEW i \in Open(j),
         NEW outcome \in Reported \cup {"abandoned"},
         outcome = "abandoned" => aborted[j], Settle(j, i, outcome)
  PROVE  LoopInv'
<1>1. /\ i \in Iters
      /\ phase'[j] = [phase[j] EXCEPT ![i] = outcome]
      /\ next' = next /\ status' = status /\ aborted' = aborted
      /\ \A k \in Jobs \ {j} : phase'[k] = phase[k]
  BY DEF Settle, IInv, TypeOK, Open
<1>2. /\ \A k \in Jobs \ {j} : pc'[k] = pc[k] /\ permits'[k] = permits[k]
      /\ IF pc[j] = "sem"
         THEN pc'[j] = "granted" /\ permits'[j] = permits[j]
         ELSE pc'[j] = pc[j] /\ permits'[j] = permits[j] + 1
  <2>1. CASE pc[j] = "sem"
    BY <2>1 DEF Settle, Release, IInv, TypeOK
  <2>2. CASE pc[j] # "sem"
    BY <2>2 DEF Settle, Release, IInv, TypeOK
  <2>. QED
    BY <2>1, <2>2
<1>3. phase[j][i] # "idle" /\ outcome # "idle" /\ pc[j] # "done"
  BY DEF Open, Reported, IInv, NothingLost
<1>4. pc[j] # "idle"
  BY <1>1, <1>3, PlanAssumption DEF IInv, LaunchedInOrder, TypeOK, Iters
<1>5. LoopMatchesStatus'
  BY <1>1, <1>2 DEF LoopMatchesStatus, IInv, Finished
<1>6. LaunchedInOrder'
  <2>1. \A k \in Jobs, n \in Iters : phase'[k][n] = "idle" <=> phase[k][n] = "idle"
    BY <1>1, <1>3 DEF IInv, TypeOK
  <2>. QED
    BY <1>1, <1>2, <2>1 DEF LaunchedInOrder, IInv
<1>7. \A k \in Jobs \ {j} : Open(k)' = Open(k) /\ Granted(k)' = Granted(k)
  BY <1>1, <1>2, OthersOpen DEF Granted
<1>8. PermitsConserved'
  <2>1. /\ permits[j] \in Nat
        /\ Cardinality(Open(j)) \in Nat \ {0}
        /\ Cardinality(Open(j)') = Cardinality(Open(j)) - 1
        /\ permits[j] + Cardinality(Open(j)) + Granted(j) = Conc[j]
    BY <1>4, SettleCount DEF IInv, TypeOK, PermitsConserved
  <2>2. permits'[j] + Cardinality(Open(j)') + Granted(j)' = Conc[j]
    BY <1>2, <2>1 DEF Granted
  <2>. QED
    BY <1>2, <1>7, <2>2 DEF PermitsConserved, IInv
<1>9. NothingLost'
  <2>1. \A k \in Jobs, n \in Iters : phase'[k][n] = "abandoned" => aborted'[k]
    BY <1>1 DEF IInv, TypeOK, NothingLost
  <2>2. \A k \in Jobs : pc'[k] = "done" => Open(k)' = {}
    BY <1>2, <1>3, <1>7 DEF IInv, NothingLost
  <2>. QED
    BY <2>1, <2>2 DEF NothingLost
<1>. QED
  BY <1>5, <1>6, <1>8, <1>9 DEF LoopInv

----------------------------------------------------------------------------
(* Every step keeps the inductive invariant *)

LEMMA InitInv == Init => IInv
<1>. SUFFICES ASSUME Init PROVE IInv
  OBVIOUS
<1>1. TypeOK
  BY PlanAssumption DEF Init, TypeOK, Statuses, LoopAt, Phases, Entries
<1>2. StopSticks /\ LoopMatchesStatus /\ PermitsConserved
  BY DEF Init, StopSticks, LoopMatchesStatus, PermitsConserved
<1>3. LaunchedInOrder
  BY DEF Init, LaunchedInOrder, Iters
<1>4. NothingLost
  BY DEF Init, NothingLost
<1>. QED
  BY <1>1, <1>2, <1>3, <1>4 DEF IInv

\* Steps that change no loop: no program counter, permit, index or result row.
LEMMA FrameKeeps ==
  ASSUME IInv, UNCHANGED <<pc, next, permits, phase>>,
         \A k \in Jobs : aborted[k] => aborted'[k],
         \A k \in Jobs :
           \/ status'[k] = status[k]
           \/ status[k] \in {"running", "paused"} /\ status'[k] \in {"running", "paused"}
           \/ status[k] = "created" /\ status'[k] = "stopped"
           \/ status[k] \in {"running", "paused"} /\ status'[k] = "stopped"
           \/ status[k] = "none" /\ status'[k] = "created" /\ Count[k] \in 1..MaxRequests
  PROVE  LoopInv'
<1>1. LoopMatchesStatus'
  BY DEF IInv, LoopMatchesStatus, Finished
<1>2. LaunchedInOrder'
  BY DEF IInv, LaunchedInOrder
<1>3. \A k \in Jobs : Open(k)' = Open(k) /\ Granted(k)' = Granted(k)
  BY DEF Open, Granted
<1>4. PermitsConserved' /\ NothingLost'
  BY <1>3 DEF IInv, PermitsConserved, NothingLost
<1>. QED
  BY <1>1, <1>2, <1>4 DEF LoopInv

LEMMA RunKeeps ==
  ASSUME IInv, NEW j \in Jobs, Run(j)
  PROVE  LoopInv'
<1>1. /\ status[j] = "created" /\ pc[j] = "idle" /\ next[j] = 1 /\ Count[j] \in 1..MaxRequests
      /\ status'[j] = "running" /\ pc'[j] = "top" /\ permits'[j] = Conc[j]
      /\ Conc[j] \in Nat
      /\ UNCHANGED <<aborted, next, phase>>
      /\ \A k \in Jobs \ {j} : status'[k] = status[k] /\ pc'[k] = pc[k]
                               /\ permits'[k] = permits[k]
  BY PlanAssumption DEF Run, IInv, TypeOK, LoopMatchesStatus, LaunchedInOrder
<1>2. LoopMatchesStatus'
  BY <1>1 DEF IInv, LoopMatchesStatus, Finished
<1>3. LaunchedInOrder'
  BY <1>1, PlanAssumption DEF IInv, LaunchedInOrder
<1>4. \A k \in Jobs : Open(k)' = Open(k)
  BY <1>1 DEF Open
<1>5. Cardinality(Open(j)) = 0
  <2>1. \A i \in Iters : phase[j][i] = "idle"
    BY <1>1 DEF IInv, LaunchedInOrder, Iters
  <2>. QED
    BY <2>1, FS_EmptySet DEF Open
<1>6. PermitsConserved'
  BY <1>1, <1>4, <1>5 DEF IInv, PermitsConserved, Granted
<1>7. NothingLost'
  BY <1>1, <1>4 DEF IInv, NothingLost
<1>. QED
  BY <1>2, <1>3, <1>6, <1>7 DEF LoopInv

\* A stop moves a loop that waits at the gate on to its end, and no other loop.
LEMMA HaltKeeps ==
  ASSUME IInv, NEW S \in SUBSET Jobs, \A j \in S : status[j] # "none",
         Halt(S), UNCHANGED <<next, permits, phase>>
  PROVE  LoopInv' /\ StopSticks'
<1>1. /\ \A k \in Jobs : status'[k] = IF k \in S /\ ~Finished(k) THEN "stopped" ELSE status[k]
      /\ \A k \in Jobs : aborted'[k] <=> (k \in S /\ ~Finished(k)) \/ aborted[k]
      /\ \A k \in Jobs : pc'[k] = IF k \in S /\ ~Finished(k) THEN Unblocked(k) ELSE pc[k]
  BY DEF Halt, Live
<1>2. StopSticks'
  BY <1>1 DEF IInv, StopSticks, Finished
<1>3. \A k \in Jobs : pc'[k] = pc[k] \/ (pc[k] = "gate" /\ pc'[k] = "drain" /\ aborted'[k])
  <2>. SUFFICES ASSUME NEW k \in Jobs
                PROVE  pc'[k] = pc[k] \/ (pc[k] = "gate" /\ pc'[k] = "drain" /\ aborted'[k])
    OBVIOUS
  <2>1. CASE k \in S /\ ~Finished(k)
    BY <1>1, <2>1 DEF Unblocked, Finished
  <2>2. CASE ~(k \in S /\ ~Finished(k))
    BY <1>1, <2>2 DEF Finished
  <2>. QED
    BY <2>1, <2>2
<1>4. LoopMatchesStatus'
  <2>. SUFFICES ASSUME NEW k \in Jobs
                PROVE  /\ status'[k] \in {"none", "created"} => pc'[k] = "idle"
                       /\ status'[k] \in {"running", "paused"} => pc'[k] \notin {"idle", "done"}
                       /\ status'[k] = "completed" => pc'[k] = "done"
                       /\ pc'[k] = "done" => Finished(k)'
    BY DEF LoopMatchesStatus
  <2>1. CASE k \in S /\ ~Finished(k)
    BY <1>1, <2>1 DEF Finished
  <2>2. CASE ~(k \in S /\ ~Finished(k))
    BY <1>1, <2>2 DEF IInv, LoopMatchesStatus, Finished
  <2>. QED
    BY <2>1, <2>2
<1>5. LaunchedInOrder'
  <2>1. \A k \in Jobs : (status'[k] = "none" <=> status[k] = "none")
                        /\ (aborted[k] => aborted'[k])
    BY <1>1
  <2>. QED
    BY <1>3, <2>1 DEF IInv, LaunchedInOrder
<1>6. \A k \in Jobs : Open(k)' = Open(k) /\ Granted(k)' = Granted(k)
  BY <1>3 DEF Open, Granted
<1>7. PermitsConserved'
  BY <1>3, <1>6 DEF IInv, PermitsConserved
<1>8. NothingLost'
  BY <1>1, <1>3, <1>6 DEF IInv, NothingLost
<1>. QED
  BY <1>2, <1>4, <1>5, <1>7, <1>8 DEF LoopInv

\* The loop leaves on an exhausted plan or on an aborted signal.
LEMMA LeaveKeeps ==
  ASSUME IInv, NEW j \in Jobs, LeaveLoop(j)
  PROVE  LoopInv'
<1>1. /\ pc[j] \in {"top", "bucket"} /\ pc'[j] = "drain"
      /\ aborted[j] \/ next[j] > Count[j]
      /\ \A k \in Jobs \ {j} : pc'[k] = pc[k]
      /\ UNCHANGED <<status, aborted, next, permits, phase>>
  BY DEF LeaveLoop, IInv, TypeOK
<1>2. LoopMatchesStatus' /\ LaunchedInOrder'
  BY <1>1 DEF IInv, LoopMatchesStatus, LaunchedInOrder, Finished
<1>3. \A k \in Jobs : Open(k)' = Open(k) /\ Granted(k)' = Granted(k)
  BY <1>1 DEF Open, Granted
<1>4. PermitsConserved' /\ NothingLost'
  BY <1>1, <1>3 DEF IInv, PermitsConserved, NothingLost
<1>. QED
  BY <1>2, <1>4 DEF LoopInv

\* The finally block runs when nothing is open, and reports what the signal says.
LEMMA FinishKeeps ==
  ASSUME IInv, NEW j \in Jobs, Finish(j)
  PROVE  LoopInv' /\ StopSticks'
<1>1. /\ pc[j] = "drain" /\ pc'[j] = "done" /\ Open(j) = {}
      /\ status'[j] = IF aborted[j] THEN "stopped" ELSE "completed"
      /\ \A k \in Jobs \ {j} : pc'[k] = pc[k] /\ status'[k] = status[k]
      /\ UNCHANGED <<aborted, next, permits, phase>>
  BY DEF Finish, Outcome, Drained, IInv, TypeOK
<1>2. status[j] # "none"
  BY <1>1 DEF IInv, LaunchedInOrder
<1>3. StopSticks'
  BY <1>1 DEF IInv, StopSticks
<1>4. LoopMatchesStatus'
  BY <1>1 DEF IInv, LoopMatchesStatus, Finished
<1>5. LaunchedInOrder'
  BY <1>1, <1>2 DEF IInv, LaunchedInOrder
<1>6. \A k \in Jobs : Open(k)' = Open(k) /\ Granted(k)' = Granted(k)
  BY <1>1 DEF Open, Granted
<1>7. PermitsConserved' /\ NothingLost'
  BY <1>1, <1>6 DEF IInv, PermitsConserved, NothingLost
<1>. QED
  BY <1>3, <1>4, <1>5, <1>7 DEF LoopInv

\* A response moves a request from the wire to the body store: still open.
LEMMA RespondKeeps ==
  ASSUME IInv, NEW j \in Jobs, NEW i \in Iters, Respond(j, i)
  PROVE  LoopInv'
<1>1. /\ phase[j][i] = "inflight"
      /\ phase'[j] = [phase[j] EXCEPT ![i] = "storing"]
      /\ \A k \in Jobs \ {j} : phase'[k] = phase[k]
      /\ UNCHANGED <<status, aborted, next, permits, pc>>
  BY DEF Respond, IInv, TypeOK
<1>2. \A k \in Jobs, n \in Iters :
        /\ phase'[k][n] = "idle" <=> phase[k][n] = "idle"
        /\ phase'[k][n] = "abandoned" => phase[k][n] = "abandoned"
        /\ phase'[k][n] \in {"inflight", "storing"} <=> phase[k][n] \in {"inflight", "storing"}
  BY <1>1 DEF IInv, TypeOK
<1>3. \A k \in Jobs : Open(k)' = Open(k) /\ Granted(k)' = Granted(k)
  BY <1>1, <1>2 DEF Open, Granted
<1>4. LoopMatchesStatus' /\ LaunchedInOrder'
  BY <1>1, <1>2 DEF IInv, LoopMatchesStatus, LaunchedInOrder, Finished
<1>5. PermitsConserved' /\ NothingLost'
  BY <1>1, <1>2, <1>3 DEF IInv, PermitsConserved, NothingLost
<1>. QED
  BY <1>4, <1>5 DEF LoopInv

LEMMA StepInv == IInv /\ [Next]_vars => IInv'
<1>. SUFFICES ASSUME IInv, [Next]_vars PROVE StopSticks' /\ LoopInv'
  BY TypeStep DEF IInv, LoopInv
<1>1. ASSUME NEW s \in SUBSET Paths, SetScope(s) PROVE StopSticks' /\ LoopInv'
  BY <1>1, FrameKeeps DEF SetScope, IInv, StopSticks
<1>2. ASSUME NEW j \in Jobs, CreateJob(j) PROVE StopSticks' /\ LoopInv'
  <2>1. /\ aborted' = aborted
        /\ status[j] = "none" /\ status'[j] = "created" /\ Count[j] \in 1..MaxRequests
        /\ \A k \in Jobs \ {j} : status'[k] = status[k]
    BY <1>2 DEF CreateJob, IInv, TypeOK
  <2>2. LoopInv'
    BY <1>2, <2>1, FrameKeeps DEF CreateJob
  <2>. QED
    BY <2>1, <2>2 DEF IInv, StopSticks
<1>3. ASSUME NEW j \in Jobs, Run(j) PROVE StopSticks' /\ LoopInv'
  BY <1>3, RunKeeps DEF Run, IInv, TypeOK, StopSticks
<1>4. ASSUME NEW j \in Jobs, Pause(j) PROVE StopSticks' /\ LoopInv'
  <2>1. /\ aborted' = aborted
        /\ status[j] = "running" /\ status'[j] = "paused"
        /\ \A k \in Jobs \ {j} : status'[k] = status[k]
    BY <1>4 DEF Pause, IInv, TypeOK
  <2>2. LoopInv'
    BY <1>4, <2>1, FrameKeeps DEF Pause
  <2>. QED
    BY <2>1, <2>2 DEF IInv, StopSticks
<1>5. ASSUME NEW j \in Jobs, Resume(j) PROVE StopSticks' /\ LoopInv'
  <2>1. /\ aborted' = aborted
        /\ status[j] = "paused" /\ status'[j] = "running"
        /\ \A k \in Jobs \ {j} : status'[k] = status[k]
    BY <1>5 DEF Resume, IInv, TypeOK
  <2>2. StopSticks'
    BY <2>1 DEF IInv, StopSticks
  <2>3. SameOrResumed(j)
    BY <2>1 DEF SameOrResumed
  <2>4. CASE pc[j] = "gate"
    <3>1. Launching(j)
      BY <2>4 DEF Launching, IInv, LaunchedInOrder
    <3>. QED
      BY <1>5, <2>2, <2>3, <2>4, <3>1, PassGateKeeps DEF Resume
  <2>5. CASE pc[j] # "gate"
    BY <1>5, <2>1, <2>2, <2>5, FrameKeeps DEF Resume
  <2>. QED
    BY <2>4, <2>5
<1>6. ASSUME NEW j \in Jobs, StopJob(j) PROVE StopSticks' /\ LoopInv'
  BY <1>6, HaltKeeps DEF StopJob
<1>7. ASSUME EmergencyStopAll PROVE StopSticks' /\ LoopInv'
  BY <1>7, HaltKeeps DEF EmergencyStopAll
<1>8. ASSUME NEW j \in Jobs, LoopStep(j) PROVE StopSticks' /\ LoopInv'
  <2>1. CASE LeaveLoop(j)
    BY <2>1, LeaveKeeps DEF LeaveLoop, IInv, StopSticks
  <2>2. CASE AwaitGate(j)
    <3>1. Launching(j) /\ SameOrResumed(j) /\ StopSticks'
      BY <2>2 DEF AwaitGate, Launching, SameOrResumed, IInv, StopSticks
    <3>. QED
      BY <2>2, <3>1, SuspendKeeps DEF AwaitGate, LoopAt
  <2>3. CASE TakeToken(j)
    <3>1. Launching(j) /\ SameOrResumed(j) /\ StopSticks'
      BY <2>3 DEF TakeToken, Launching, SameOrResumed, IInv, StopSticks
    <3>. QED
      BY <2>3, <3>1, PassGateKeeps DEF TakeToken
  <2>4. CASE WakeUp(j)
    <3>1. Launching(j) /\ SameOrResumed(j) /\ StopSticks'
      BY <2>4 DEF WakeUp, Launching, SameOrResumed, IInv, StopSticks, LaunchedInOrder
    <3>. QED
      BY <2>4, <3>1, PassGateKeeps DEF WakeUp
  <2>5. CASE LaunchGranted(j)
    <3>1. Launching(j) /\ SameOrResumed(j) /\ StopSticks'
      BY <2>5 DEF LaunchGranted, Launching, SameOrResumed, IInv, StopSticks, LaunchedInOrder
    <3>2. permits[j] \in Nat /\ permits[j] + 1 + Cardinality(Open(j)) = Conc[j]
      BY <2>5, OpenFinite DEF LaunchGranted, IInv, TypeOK, PermitsConserved, Granted
    <3>. QED
      BY <2>5, <3>1, <3>2, LaunchKeeps DEF LaunchGranted
  <2>6. CASE Finish(j)
    BY <2>6, FinishKeeps
  <2>. QED
    BY <1>8, <2>1, <2>2, <2>3, <2>4, <2>5, <2>6 DEF LoopStep
<1>9. ASSUME NEW j \in Jobs, Refill(j) PROVE StopSticks' /\ LoopInv'
  BY <1>9, FrameKeeps DEF Refill, IInv, StopSticks
<1>10. ASSUME NEW j \in Jobs, NEW i \in Iters, Answered(j, i) \/ Stored(j, i)
       PROVE  StopSticks' /\ LoopInv'
  <2>1. CASE Respond(j, i)
    BY <2>1, RespondKeeps DEF Respond, IInv, StopSticks
  <2>2. CASE \E outcome \in Reported \cup {"abandoned"} :
               /\ i \in Open(j)
               /\ outcome = "abandoned" => aborted[j]
               /\ Settle(j, i, outcome)
    BY <2>2, SettleKeeps DEF Settle, IInv, StopSticks
  <2>. QED
    BY <1>10, <2>1, <2>2 DEF Answered, Stored, Fail, Cancel, Store, StoreFails, Open, Reported
<1>11. ASSUME UNCHANGED vars PROVE StopSticks' /\ LoopInv'
  BY <1>11, FrameKeeps DEF vars, IInv, StopSticks
<1>. QED
  BY <1>1, <1>2, <1>3, <1>4, <1>5, <1>6, <1>7, <1>8, <1>9, <1>10, <1>11 DEF Next, Operator

----------------------------------------------------------------------------
(* The theorems *)

\* The inductive invariant holds in every reachable state, for every set of jobs,
\* every plan, every scope and every order of operator, loop and answers.
THEOREM Inductive == Spec => []IInv
<1>. QED
  BY InitInv, StepInv, PTL DEF Spec

\* Every variable keeps its type.
THEOREM TypeCorrect == Spec => []TypeOK
<1>1. IInv => TypeOK
  BY DEF IInv
<1>. QED
  BY <1>1, Inductive, PTL

\* A stopped job stays stopped, whatever pause, resume or the end of the loop do.
THEOREM StopsStick == Spec => []StopSticks
<1>1. IInv => StopSticks
  BY DEF IInv
<1>. QED
  BY <1>1, Inductive, PTL

\* The semaphore bounds the requests of a job that are open at once.
THEOREM Bounded == Spec => []ConcurrencyBound
<1>1. IInv => ConcurrencyBound
  <2>. SUFFICES ASSUME IInv, NEW j \in Jobs PROVE Cardinality(Open(j)) <= Conc[j]
    BY DEF ConcurrencyBound
  <2>1. Cardinality(Open(j)) \in Nat /\ permits[j] \in Nat /\ Conc[j] \in Nat
    BY OpenFinite, PlanAssumption DEF IInv, TypeOK
  <2>2. CASE pc[j] = "idle"
    <3>1. \A i \in Iters : phase[j][i] = "idle"
      BY <2>2 DEF IInv, LaunchedInOrder, Iters
    <3>2. Cardinality(Open(j)) = 0
      BY <3>1, FS_EmptySet DEF Open
    <3>. QED
      BY <2>1, <3>2
  <2>3. CASE pc[j] # "idle"
    BY <2>1, <2>3 DEF IInv, PermitsConserved, Granted
  <2>. QED
    BY <2>2, <2>3
<1>. QED
  BY <1>1, Inductive, PTL

\* A completed job has a result row for every request its plan generated.
THEOREM CompletedIsComplete == Spec => []CompletedMeansAll
<1>1. IInv => CompletedMeansAll
  <2>. SUFFICES ASSUME IInv, NEW j \in Jobs, status[j] = "completed", NEW i \in 1..Count[j]
                PROVE  phase[j][i] \in Reported
    BY DEF CompletedMeansAll
  <2>1. pc[j] = "done" /\ ~aborted[j] /\ Open(j) = {}
    BY DEF IInv, LoopMatchesStatus, StopSticks, NothingLost
  <2>2. i \in Iters /\ i < next[j]
    BY <2>1, PlanAssumption DEF IInv, LaunchedInOrder, TypeOK, Iters
  <2>3. phase[j][i] \in Phases /\ phase[j][i] # "idle"
    BY <2>2, PlanAssumption DEF IInv, LaunchedInOrder, TypeOK, Iters
  <2>4. phase[j][i] # "abandoned" /\ phase[j][i] \notin {"inflight", "storing"}
    BY <2>1, <2>2 DEF IInv, NothingLost, Open
  <2>. QED
    BY <2>3, <2>4 DEF Phases
<1>. QED
  BY <1>1, Inductive, PTL

----------------------------------------------------------------------------
(* What goes out *)

LEMMA LaunchSends ==
  ASSUME TypeOK, NEW k \in Jobs, NEW p, Launch(k, p), NEW j \in Jobs, NEW i \in Iters, Sent(j, i)
  PROVE  FirstPhase(j, i) = "inflight"
<1>1. phase' = [phase EXCEPT ![k][next[k]] = FirstPhase(k, next[k])]
  BY DEF Launch
<1>2. CASE j = k /\ i = next[k]
  BY <1>1, <1>2 DEF Sent, TypeOK
<1>3. CASE ~(j = k /\ i = next[k])
  BY <1>1, <1>3 DEF Sent, TypeOK
<1>. QED
  BY <1>2, <1>3

LEMMA PassGateSends ==
  ASSUME TypeOK, NEW k \in Jobs, PassGate(k), NEW j \in Jobs, NEW i \in Iters, Sent(j, i)
  PROVE  FirstPhase(j, i) = "inflight"
<1>1. CASE \E p \in Int : Launch(k, p)
  BY <1>1, LaunchSends
<1>2. CASE phase' = phase
  BY <1>2 DEF Sent
<1>. QED
  BY <1>1, <1>2 DEF PassGate, Acquire, TypeOK

\* A step sends a request only through the checks of FirstPhase.
LEMMA OnlyFirstPhaseSends ==
  ASSUME TypeOK, [Next]_vars, NEW j \in Jobs, NEW i \in Iters, Sent(j, i)
  PROVE  FirstPhase(j, i) = "inflight"
<1>1. CASE UNCHANGED phase
  BY <1>1 DEF Sent
<1>2. CASE \E k \in Jobs : PassGate(k)
  BY <1>2, PassGateSends
<1>3. CASE \E k \in Jobs : Launch(k, permits[k])
  BY <1>3, LaunchSends
<1>4. CASE \E k \in Jobs, n \in Iters, to \in {"storing", "completed", "error", "abandoned"} :
             phase' = [phase EXCEPT ![k][n] = to]
  <2>1. PICK k \in Jobs, n \in Iters, to \in {"storing", "completed", "error", "abandoned"} :
          phase' = [phase EXCEPT ![k][n] = to]
    BY <1>4
  <2>2. phase'[j][i] \in {phase[j][i], to}
    BY <2>1 DEF TypeOK
  <2>. QED
    BY <2>2 DEF Sent
<1>5. ASSUME Operator PROVE UNCHANGED phase \/ \E k \in Jobs : PassGate(k)
  BY <1>5 DEF Operator, SetScope, CreateJob, Run, Pause, Resume, StopJob, EmergencyStopAll
<1>6. ASSUME NEW k \in Jobs, LoopStep(k)
      PROVE  UNCHANGED phase \/ PassGate(k) \/ Launch(k, permits[k])
  BY <1>6 DEF LoopStep, LeaveLoop, AwaitGate, TakeToken, WakeUp, LaunchGranted, Finish
<1>7. ASSUME NEW k \in Jobs, NEW n \in Iters, Answered(k, n) \/ Stored(k, n)
      PROVE  \E to \in {"storing", "completed", "error", "abandoned"} :
               phase' = [phase EXCEPT ![k][n] = to]
  BY <1>7 DEF Answered, Stored, Respond, Fail, Cancel, Store, StoreFails, Settle
<1>8. ASSUME NEW k \in Jobs, Refill(k) PROVE UNCHANGED phase
  BY <1>8 DEF Refill
<1>. QED
  BY <1>1, <1>2, <1>3, <1>4, <1>5, <1>6, <1>7, <1>8 DEF Next, vars

\* No request goes out once the job's signal has aborted.
THEOREM StoppedSendsNothing == Spec => NoSendAfterStop
<1>1. IInv /\ [Next]_vars => [\A j \in Jobs, i \in Iters : Sent(j, i) => ~aborted[j]]_vars
  <2>. SUFFICES ASSUME IInv, [Next]_vars, NEW j \in Jobs, NEW i \in Iters, Sent(j, i)
                PROVE  ~aborted[j]
    OBVIOUS
  <2>. QED
    BY OnlyFirstPhaseSends DEF IInv, FirstPhase
<1>. QED
  BY <1>1, Inductive, PTL DEF Spec, NoSendAfterStop

\* Every request is in the scope that holds when it goes out.
THEOREM ScopeIsLive == Spec => SendsInScope
<1>1. IInv /\ [Next]_vars => [\A j \in Jobs, i \in Iters : Sent(j, i) => PathOf[j][i] \in scope]_vars
  <2>. SUFFICES ASSUME IInv, [Next]_vars, NEW j \in Jobs, NEW i \in Iters, Sent(j, i)
                PROVE  PathOf[j][i] \in scope
    OBVIOUS
  <2>. QED
    BY OnlyFirstPhaseSends DEF IInv, FirstPhase
<1>. QED
  BY <1>1, Inductive, PTL DEF Spec, SendsInScope

\* Every request of a job goes out before its stop and in the scope of that moment.
THEOREM SendsAllowed == Spec => SendsAreAllowed
BY StoppedSendsNothing, ScopeIsLive, PTL DEF SendsAreAllowed

----------------------------------------------------------------------------
(* What the controls leave behind *)

\* The two stops.
StopAny == EmergencyStopAll \/ \E j \in Jobs : StopJob(j)

\* The audit entry of a job and its status are written in the same step; a step
\* that leaves both alone for a job keeps what they say of it.
LEMMA AuditStep == IInv /\ AuditExplainsStatus /\ [Next]_vars => AuditExplainsStatus'
<1>. SUFFICES ASSUME IInv, AuditExplainsStatus, [Next]_vars PROVE AuditExplainsStatus'
  OBVIOUS
<1>1. CASE UNCHANGED <<status, audit>>
  BY <1>1 DEF AuditExplainsStatus, Finished
<1>2. ASSUME NEW j \in Jobs, CreateJob(j) \/ Run(j) \/ Pause(j) \/ Resume(j)
      PROVE  AuditExplainsStatus'
  <2>1. /\ \A k \in Jobs \ {j} : status'[k] = status[k] /\ audit'[k] = audit[k]
        /\ \/ status'[j] = "created" /\ audit'[j] = "job.create"
           \/ status'[j] = "running" /\ audit'[j] \in {"job.start", "job.resume"}
           \/ status'[j] = "paused" /\ audit'[j] = "job.pause"
    BY <1>2 DEF CreateJob, Run, Pause, Resume, IInv, TypeOK
  <2>. QED
    BY <2>1 DEF AuditExplainsStatus, Finished
<1>3. ASSUME NEW j \in Jobs, StopJob(j) PROVE AuditExplainsStatus'
  <2>1. /\ \A k \in Jobs \ {j} : status'[k] = status[k] /\ audit'[k] = audit[k]
        /\ status'[j] \in {"stopped", "completed"} /\ audit'[j] = "job.stop"
    BY <1>3 DEF StopJob, Halt, Live, Finished, IInv, TypeOK
  <2>. QED
    BY <2>1 DEF AuditExplainsStatus, Finished
<1>4. ASSUME EmergencyStopAll PROVE AuditExplainsStatus'
  <2>1. \A k \in Jobs :
          \/ status'[k] = status[k] /\ audit'[k] = audit[k]
          \/ status'[k] \in {"stopped", "completed"} /\ audit'[k] = "emergency-stop"
    BY <1>4 DEF EmergencyStopAll, Halt, Live, Finished, IInv, TypeOK
  <2>. QED
    BY <2>1 DEF AuditExplainsStatus, Finished
<1>5. ASSUME NEW j \in Jobs, Finish(j) PROVE AuditExplainsStatus'
  <2>1. /\ \A k \in Jobs \ {j} : status'[k] = status[k] /\ audit'[k] = audit[k]
        /\ \/ status'[j] = "stopped" /\ audit'[j] = "job.stopped"
           \/ status'[j] = "completed" /\ audit'[j] = "job.complete"
    BY <1>5 DEF Finish, Outcome, IInv, TypeOK
  <2>. QED
    BY <2>1 DEF AuditExplainsStatus, Finished
<1>6. ASSUME NEW s \in SUBSET Paths, SetScope(s) PROVE UNCHANGED <<status, audit>>
  BY <1>6 DEF SetScope
<1>7. ASSUME NEW j \in Jobs, LoopStep(j) \/ Refill(j)
      PROVE  Finish(j) \/ UNCHANGED <<status, audit>>
  BY <1>7 DEF LoopStep, LeaveLoop, AwaitGate, TakeToken, WakeUp, LaunchGranted, Refill
<1>8. ASSUME NEW j \in Jobs, NEW i \in Iters, Answered(j, i) \/ Stored(j, i)
      PROVE  UNCHANGED <<status, audit>>
  BY <1>8 DEF Answered, Stored, Respond, Fail, Cancel, Store, StoreFails, Settle
<1>. QED
  BY <1>1, <1>2, <1>3, <1>4, <1>5, <1>6, <1>7, <1>8 DEF Next, Operator, vars

\* Reading a job's last audit entry tells the state the job is in.
THEOREM AuditTells == Spec => []AuditExplainsStatus
<1>1. Init => AuditExplainsStatus
  BY DEF Init, AuditExplainsStatus, Finished
<1>. QED
  BY <1>1, AuditStep, Inductive, PTL DEF Spec

\* The loop goes on to the next iteration past the gate, or with a permit it was
\* handed, or because its job was resumed.
LEMMA OnlyLaunchMoves ==
  ASSUME IInv, [Next]_vars, NEW j \in Jobs, next'[j] # next[j]
  PROVE  \/ pc[j] = "granted"
         \/ pc[j] = "bucket"
         \/ pc[j] = "top" /\ ~gate[j]
         \/ status'[j] = "running"
<1>1. ASSUME NEW k \in Jobs, PassGate(k) \/ \E p \in Int : Launch(k, p) PROVE k = j
  BY <1>1 DEF PassGate, Acquire, Launch, IInv, TypeOK
<1>2. ASSUME Operator
      PROVE  UNCHANGED next \/ \E k \in Jobs : Resume(k) /\ PassGate(k)
  BY <1>2 DEF Operator, SetScope, CreateJob, Run, Pause, Resume, StopJob, EmergencyStopAll
<1>3. ASSUME NEW k \in Jobs, Resume(k) PROVE status'[k] = "running"
  BY <1>3 DEF Resume, IInv, TypeOK
<1>4. ASSUME NEW k \in Jobs, LoopStep(k) \/ Refill(k)
      PROVE  UNCHANGED next \/ TakeToken(k) \/ WakeUp(k) \/ LaunchGranted(k)
  BY <1>4 DEF LoopStep, LeaveLoop, AwaitGate, Finish, Refill
<1>5. ASSUME NEW k \in Jobs, TakeToken(k) \/ WakeUp(k) \/ LaunchGranted(k)
      PROVE  pc[j] = "granted" \/ pc[j] = "bucket" \/ (pc[j] = "top" /\ ~gate[j])
  <2>1. CASE TakeToken(k)
    BY <1>1, <2>1 DEF TakeToken
  <2>2. CASE WakeUp(k)
    BY <1>1, <2>2 DEF WakeUp
  <2>3. CASE LaunchGranted(k)
    <3>1. permits[k] \in Int
      BY DEF IInv, TypeOK
    <3>. QED
      BY <1>1, <2>3, <3>1 DEF LaunchGranted
  <2>. QED
    BY <1>5, <2>1, <2>2, <2>3
<1>6. ASSUME NEW k \in Jobs, NEW i \in Iters, Answered(k, i) \/ Stored(k, i)
      PROVE  UNCHANGED next
  BY <1>6 DEF Answered, Stored, Respond, Fail, Cancel, Store, StoreFails, Settle
<1>. QED
  BY <1>1, <1>2, <1>3, <1>4, <1>5, <1>6 DEF Next, vars

\* The gate of a paused job is closed.
PausedIsGated == \A j \in Jobs : status[j] = "paused" => gate[j] = TRUE

LEMMA GateStep == IInv /\ PausedIsGated /\ [Next]_vars => PausedIsGated'
<1>. SUFFICES ASSUME IInv, PausedIsGated, [Next]_vars PROVE PausedIsGated'
  OBVIOUS
<1>1. CASE UNCHANGED <<status, gate>>
  BY <1>1 DEF PausedIsGated
<1>2. ASSUME NEW j \in Jobs, CreateJob(j) \/ Run(j) \/ Pause(j) \/ Resume(j)
      PROVE  PausedIsGated'
  <2>1. /\ \A k \in Jobs \ {j} : status'[k] = status[k] /\ gate'[k] = gate[k]
        /\ status'[j] \in {"created", "running"} \/ gate'[j] = TRUE
    BY <1>2 DEF CreateJob, Run, Pause, CloseGate, Resume, IInv, TypeOK
  <2>. QED
    BY <2>1 DEF PausedIsGated
<1>3. ASSUME NEW S \in SUBSET Jobs, Halt(S) PROVE PausedIsGated'
  <2>. SUFFICES ASSUME NEW k \in Jobs, status'[k] = "paused" PROVE gate'[k] = TRUE
    BY DEF PausedIsGated
  <2>1. status'[k] = IF k \in Live(S) THEN "stopped" ELSE status[k]
    BY <1>3 DEF Halt
  <2>2. k \notin Live(S) /\ gate[k] = TRUE
    BY <2>1 DEF PausedIsGated
  <2>3. gate'[k] = (k \notin Live(S) /\ gate[k])
    BY <1>3 DEF Halt
  <2>. QED
    BY <2>2, <2>3
<1>4. ASSUME NEW j \in Jobs, Finish(j) PROVE PausedIsGated'
  <2>1. /\ \A k \in Jobs \ {j} : status'[k] = status[k]
        /\ status'[j] \in {"stopped", "completed"}
        /\ gate' = gate
    BY <1>4 DEF Finish, Outcome, IInv, TypeOK
  <2>. QED
    BY <2>1 DEF PausedIsGated
<1>5. ASSUME NEW s \in SUBSET Paths, SetScope(s) PROVE UNCHANGED <<status, gate>>
  BY <1>5 DEF SetScope
<1>6. ASSUME NEW j \in Jobs, LoopStep(j) \/ Refill(j)
      PROVE  Finish(j) \/ UNCHANGED <<status, gate>>
  BY <1>6 DEF LoopStep, LeaveLoop, AwaitGate, TakeToken, WakeUp, LaunchGranted, Refill
<1>7. ASSUME NEW j \in Jobs, NEW i \in Iters, Answered(j, i) \/ Stored(j, i)
      PROVE  UNCHANGED <<status, gate>>
  BY <1>7 DEF Answered, Stored, Respond, Fail, Cancel, Store, StoreFails, Settle
<1>8. ASSUME StopAny PROVE \E S \in SUBSET Jobs : Halt(S)
  BY <1>8 DEF StopAny, StopJob, EmergencyStopAll
<1>. QED
  BY <1>1, <1>2, <1>3, <1>4, <1>5, <1>6, <1>7, <1>8 DEF Next, Operator, StopAny, vars

\* A paused job whose loop is back at its top takes no further payload.
THEOREM PauseHolds == Spec => PauseHoldsTheLoop
<1>1. Init => PausedIsGated
  BY DEF Init, PausedIsGated
<1>2. IInv /\ PausedIsGated /\ [Next]_vars =>
        [\A j \in Jobs :
           status[j] = "paused" /\ status'[j] = "paused" /\ pc[j] \in {"top", "gate"}
             => next'[j] = next[j]]_vars
  <2>. SUFFICES ASSUME IInv, PausedIsGated, [Next]_vars,
                       NEW j \in Jobs, status[j] = "paused", status'[j] = "paused",
                       pc[j] \in {"top", "gate"}, next'[j] # next[j]
                PROVE  FALSE
    OBVIOUS
  <2>. QED
    BY OnlyLaunchMoves DEF PausedIsGated
<1>. QED
  BY <1>1, <1>2, GateStep, Inductive, PTL DEF Spec, PauseHoldsTheLoop

\* No step changes a job that has reported: nothing of it is open, a stop leaves
\* it alone, and its loop has ended.
LEMMA DoneStays ==
  ASSUME IInv, [Next]_vars, NEW j \in Jobs, pc[j] = "done"
  PROVE  /\ pc'[j] = "done"
         /\ status'[j] = status[j]
         /\ phase'[j] = phase[j]
<1>1. Finished(j) /\ Open(j) = {}
  BY DEF IInv, LoopMatchesStatus, NothingLost
<1>2. ASSUME NEW k \in Jobs, k # j, PassGate(k) \/ \E p \in Int : Launch(k, p)
      PROVE  pc'[j] = pc[j] /\ phase'[j] = phase[j]
  BY <1>2 DEF PassGate, Acquire, Launch, IInv, TypeOK
<1>3. ASSUME NEW s \in SUBSET Paths, SetScope(s) PROVE UNCHANGED <<pc, status, phase>>
  BY <1>3 DEF SetScope
<1>4. ASSUME NEW k \in Jobs, CreateJob(k) \/ Run(k) \/ Pause(k) \/ Resume(k)
      PROVE  /\ k # j /\ status'[j] = status[j]
             /\ pc'[j] = pc[j] /\ phase'[j] = phase[j]
  <2>1. k # j /\ status'[j] = status[j]
    BY <1>1, <1>4 DEF CreateJob, Run, Pause, Resume, Finished, IInv, TypeOK
  <2>2. pc'[j] = pc[j] /\ phase'[j] = phase[j]
    <3>1. CASE CreateJob(k) \/ Run(k) \/ Pause(k)
      BY <2>1, <3>1 DEF CreateJob, Run, Pause, IInv, TypeOK
    <3>2. CASE Resume(k)
      BY <1>2, <2>1, <3>2 DEF Resume
    <3>. QED
      BY <1>4, <3>1, <3>2
  <2>. QED
    BY <2>1, <2>2
<1>5. ASSUME StopAny PROVE pc'[j] = pc[j] /\ status'[j] = status[j] /\ phase'[j] = phase[j]
  <2>1. PICK S \in SUBSET Jobs : Halt(S) /\ phase' = phase
    BY <1>5 DEF StopAny, StopJob, EmergencyStopAll
  <2>2. j \notin Live(S)
    BY <1>1 DEF Live
  <2>. QED
    BY <2>1, <2>2 DEF Halt
<1>6. ASSUME NEW k \in Jobs, LoopStep(k) \/ Refill(k)
      PROVE  pc'[j] = pc[j] /\ status'[j] = status[j] /\ phase'[j] = phase[j]
  <2>1. CASE k = j
    BY <1>6, <2>1 DEF LoopStep, LeaveLoop, AwaitGate, TakeToken, WakeUp, LaunchGranted, Finish, Refill
  <2>2. CASE k # j /\ (LeaveLoop(k) \/ AwaitGate(k) \/ Finish(k) \/ Refill(k))
    BY <2>2 DEF LeaveLoop, AwaitGate, Finish, Refill, IInv, TypeOK
  <2>3. CASE k # j /\ (TakeToken(k) \/ WakeUp(k) \/ LaunchGranted(k))
    <3>1. permits[k] \in Int
      BY DEF IInv, TypeOK
    <3>. QED
      BY <1>2, <2>3, <3>1 DEF TakeToken, WakeUp, LaunchGranted
  <2>. QED
    BY <1>6, <2>1, <2>2, <2>3 DEF LoopStep
<1>7. ASSUME NEW k \in Jobs, NEW i \in Iters, Answered(k, i) \/ Stored(k, i)
      PROVE  pc'[j] = pc[j] /\ status'[j] = status[j] /\ phase'[j] = phase[j]
  <2>1. k # j
    BY <1>1, <1>7 DEF Answered, Stored, Respond, Fail, Cancel, Store, StoreFails, Open
  <2>2. CASE Respond(k, i)
    BY <2>1, <2>2 DEF Respond, IInv, TypeOK
  <2>3. CASE \E outcome \in Phases : Settle(k, i, outcome)
    BY <2>1, <2>3 DEF Settle, Release, IInv, TypeOK
  <2>. QED
    BY <1>7, <2>2, <2>3 DEF Answered, Stored, Fail, Cancel, Store, StoreFails, Phases, Reported
<1>8. CASE UNCHANGED vars
  BY <1>8 DEF vars
<1>. QED
  BY <1>3, <1>4, <1>5, <1>6, <1>7, <1>8 DEF Next, Operator, StopAny

\* Once run() has reported the outcome of a job, status and result rows are final.
THEOREM OutcomesStay == Spec => OutcomeIsFinal
<1>1. IInv /\ [Next]_vars =>
        [\A j \in Jobs : pc[j] = "done" =>
           /\ pc'[j] = "done"
           /\ status'[j] = status[j]
           /\ phase'[j] = phase[j]]_vars
  BY DoneStays
<1>. QED
  BY <1>1, Inductive, PTL DEF Spec, OutcomeIsFinal

\* Status, audit and result rows tell one story of what the controls did to a job,
\* for every set of jobs and every plan.
THEOREM ControlsStay == Spec => ControlsHold
BY AuditTells, Bounded, CompletedIsComplete, PauseHolds, OutcomesStay, PTL DEF ControlsHold

----------------------------------------------------------------------------
(* The engine implements AutomatedWork *)

\* Where a job is in its life is told by its status and by whether its loop runs.
LoopEnded(j) == pc[j] \in {"idle", "done"}

\* What one step leaves of a job as AutomatedWork sees it.
SameState(j) ==
  /\ \/ status'[j] = status[j]
     \/ status[j] \in {"running", "paused"} /\ status'[j] \in {"running", "paused"}
  /\ LoopEnded(j)' <=> LoopEnded(j)

LEMMA WorkStateSame ==
  ASSUME NEW j \in Jobs, SameState(j), status[j] \in Statuses
  PROVE  WorkState(j)' = WorkState(j)
BY DEF SameState, WorkState, LoopEnded, Finished, Statuses

\* The iterations a job has dealt with.
Used(j) == {i \in Iters : phase[j][i] # "idle"}

\* A step that launches nothing, settles nothing and moves no job in its life.
LEMMA Stutters ==
  ASSUME IInv, \A j \in Jobs : SameState(j) /\ Open(j)' = Open(j) /\ Used(j)' = Used(j)
  PROVE  UNCHANGED Work!vars
<1>1. \A j \in Jobs : WorkState(j)' = WorkState(j)
  BY WorkStateSame DEF IInv, TypeOK
<1>2. [j \in Jobs |-> WorkState(j)]' = [j \in Jobs |-> WorkState(j)]
  BY <1>1
<1>3. [j \in Jobs |-> Open(j)]' = [j \in Jobs |-> Open(j)]
  OBVIOUS
<1>4. [j \in Jobs |-> {i \in Iters : phase[j][i] # "idle"}]'
        = [j \in Jobs |-> {i \in Iters : phase[j][i] # "idle"}]
  BY DEF Used
<1>. QED
  BY <1>2, <1>3, <1>4 DEF Work!vars

\* AutomatedWork counts as this module does.
LEMMA WorkCounts == \A S : Work!Cardinality(S) = Cardinality(S)
BY DEF Work!Cardinality, Cardinality

\* The loop of a job under way launches: the request goes out while the job is
\* open and below its bound, or the iteration is dropped.
LEMMA LaunchWorks ==
  ASSUME IInv, NEW j \in Jobs, Launching(j), NEW p \in Nat,
         p + 1 + Cardinality(Open(j)) = Conc[j], Launch(j, p),
         \A k \in Jobs : SameState(k), aborted' = aborted
  PROVE  \E i \in Iters : Work!Send(j, i) \/ Work!Drop(j, i)
<1>0. next[j] \in Iters
  BY NextIsIteration DEF Launching, IInv, LaunchedInOrder
<1>. PICK i \in Iters : i = next[j]
  BY <1>0
<1>. DEFINE first == FirstPhase(j, i)
<1>1. status[j] # "none" /\ i \in Iters /\ phase[j][i] = "idle"
  BY PlanAssumption DEF IInv, TypeOK, LaunchedInOrder, Launching, Iters
<1>2. /\ phase'[j] = [phase[j] EXCEPT ![i] = first]
      /\ \A k \in Jobs \ {j} : phase'[k] = phase[k]
  BY DEF Launch, IInv, TypeOK
<1>3. [k \in Jobs |-> WorkState(k)]' = [k \in Jobs |-> WorkState(k)]
  <2>1. \A k \in Jobs : WorkState(k)' = WorkState(k)
    BY WorkStateSame DEF IInv, TypeOK
  <2>. QED
    BY <2>1
<1>4. first # "idle" /\ first \in {"error", "skipped", "abandoned", "inflight"}
  BY FirstPhaseCases
<1>5. Used(j)' = Used(j) \cup {i}
  BY <1>1, <1>2, <1>4 DEF Used, IInv, TypeOK
<1>6. \A k \in Jobs \ {j} : Used(k)' = Used(k) /\ Open(k)' = Open(k)
  BY <1>2 DEF Used, Open
<1>7. [k \in Jobs |-> Used(k)]' = [[k \in Jobs |-> Used(k)] EXCEPT ![j] = @ \cup {i}]
  BY <1>5, <1>6
<1>8. i \notin Used(j)
  BY <1>1 DEF Used
<1>9. WorkState(j) = IF aborted[j] THEN "stopping" ELSE "open"
  <2>1. pc[j] \notin {"idle", "done"}
    BY DEF Launching
  <2>2. status[j] \in {"running", "paused", "stopped"}
    BY <1>1, <2>1 DEF IInv, TypeOK, Statuses, LoopMatchesStatus
  <2>3. aborted[j] <=> status[j] = "stopped"
    BY DEF IInv, StopSticks
  <2>. QED
    BY <2>1, <2>2, <2>3 DEF WorkState, Finished
<1>10. CASE first = "inflight"
  <2>1. ~aborted[j]
    BY <1>10 DEF FirstPhase
  <2>2. Open(j)' = Open(j) \cup {i}
    BY <1>1, <1>2, <1>10 DEF Open, IInv, TypeOK
  <2>3. [k \in Jobs |-> Open(k)]' = [[k \in Jobs |-> Open(k)] EXCEPT ![j] = @ \cup {i}]
    BY <1>6, <2>2
  <2>4. Cardinality(Open(j)) < Conc[j]
    BY OpenFinite, PlanAssumption
  <2>5. Work!Cardinality([k \in Jobs |-> Open(k)][j]) < Conc[j]
    BY <2>4, WorkCounts
  <2>6. Work!Send(j, i)
    BY <1>3, <1>7, <1>8, <1>9, <2>1, <2>3, <2>5 DEF Work!Send, Used
  <2>. QED
    BY <1>1, <2>6
<1>11. CASE first # "inflight"
  <2>1. Open(j)' = Open(j)
    BY <1>1, <1>2, <1>4, <1>11 DEF Open, IInv, TypeOK
  <2>2. [k \in Jobs |-> Open(k)]' = [k \in Jobs |-> Open(k)]
    BY <1>6, <2>1
  <2>3. Work!Drop(j, i)
    BY <1>3, <1>7, <1>8, <1>9, <2>2 DEF Work!Drop, Used
  <2>. QED
    BY <1>1, <2>3
<1>. QED
  BY <1>10, <1>11

\* Past the gate the loop deals with one iteration, or only waits.
LEMMA PassGateWorks ==
  ASSUME IInv, NEW j \in Jobs, Launching(j), pc[j] \notin {"sem", "granted"},
         PassGate(j), SameOrResumed(j),
         \A k \in Jobs : status'[k] = status[k] \/ status[k] = "paused"
  PROVE  UNCHANGED Work!vars \/ \E i \in Iters : Work!Send(j, i) \/ Work!Drop(j, i)
<1>1. /\ tokens[j] \in Nat /\ permits[j] \in Nat /\ Cardinality(Open(j)) \in Nat
      /\ permits[j] + Cardinality(Open(j)) = Conc[j]
  BY OpenFinite, PlanAssumption DEF IInv, TypeOK, PermitsConserved, Granted, Launching
<1>2. \A k \in Jobs : SameState(k)
  <2>1. \A k \in Jobs : LoopEnded(k)' <=> LoopEnded(k)
    BY DEF PassGate, Acquire, Launch, LoopEnded, Launching, IInv, TypeOK
  <2>. QED
    BY <2>1 DEF SameState, SameOrResumed
<1>3. CASE tokens[j] > 0 /\ permits[j] > 0
  <2>1. Launch(j, permits[j] - 1) /\ permits[j] - 1 \in Nat
    BY <1>1, <1>3 DEF PassGate, Acquire
  <2>2. permits[j] - 1 + 1 + Cardinality(Open(j)) = Conc[j]
    BY <1>1
  <2>. QED
    BY <1>2, <2>1, <2>2, LaunchWorks DEF SameOrResumed
<1>4. CASE tokens[j] = 0 \/ permits[j] = 0
  <2>1. phase' = phase
    BY <1>1, <1>4 DEF PassGate, Acquire
  <2>. QED
    BY <1>2, <2>1, Stutters DEF Open, Used
<1>. QED
  BY <1>1, <1>3, <1>4

\* A request that settles returns.
LEMMA SettleWorks ==
  ASSUME IInv, NEW j \in Jobs, NEW i \in Open(j),
         NEW outcome \in Reported \cup {"abandoned"}, Settle(j, i, outcome)
  PROVE  Work!Return(j, i)
<1>1. Open(j)' = Open(j) \ {i}
  BY SettleCount DEF IInv
<1>2. /\ i \in Iters
      /\ phase'[j] = [phase[j] EXCEPT ![i] = outcome]
      /\ \A k \in Jobs \ {j} : phase'[k] = phase[k]
  BY DEF Settle, IInv, TypeOK, Open
<1>3. \A k \in Jobs : Used(k)' = Used(k)
  <2>1. outcome # "idle" /\ phase[j][i] # "idle"
    BY DEF Reported, Open
  <2>2. \A n \in Iters : phase'[j][n] # "idle" <=> phase[j][n] # "idle"
    BY <1>2, <2>1 DEF IInv, TypeOK
  <2>. QED
    BY <1>2, <2>2 DEF Used
<1>4. \A k \in Jobs \ {j} : Open(k)' = Open(k)
  BY <1>2 DEF Open
<1>5. \A k \in Jobs : SameState(k)
  BY DEF Settle, Release, SameState, LoopEnded, IInv, TypeOK
<1>6. \A k \in Jobs : WorkState(k)' = WorkState(k)
  BY <1>5, WorkStateSame DEF IInv, TypeOK
<1>7. [k \in Jobs |-> WorkState(k)]' = [k \in Jobs |-> WorkState(k)]
  BY <1>6
<1>8. [k \in Jobs |-> Used(k)]' = [k \in Jobs |-> Used(k)]
  BY <1>3
<1>9. [k \in Jobs |-> Open(k)]' = [[k \in Jobs |-> Open(k)] EXCEPT ![j] = @ \ {i}]
  BY <1>1, <1>4
<1>. QED
  BY <1>7, <1>8, <1>9 DEF Work!Return, Used

\* A stop of any number of jobs is one stop of AutomatedWork.
LEMMA HaltWorks ==
  ASSUME IInv, NEW S \in SUBSET Jobs, \A j \in S : status[j] # "none",
         Halt(S), phase' = phase
  PROVE  Work!Stop(S)
<1>1. /\ \A k \in Jobs : status'[k] = IF k \in S /\ ~Finished(k) THEN "stopped" ELSE status[k]
      /\ \A k \in Jobs : pc'[k] = IF k \in S /\ ~Finished(k) THEN Unblocked(k) ELSE pc[k]
  BY DEF Halt, Live
<1>2. \A k \in Jobs : LoopEnded(k)' <=> LoopEnded(k)
  BY <1>1 DEF LoopEnded, Unblocked
<1>3. ASSUME NEW k \in Jobs
      PROVE  WorkState(k)' = IF k \in S /\ WorkState(k) = "ready" THEN "ended"
                             ELSE IF k \in S /\ WorkState(k) = "open" THEN "stopping"
                             ELSE WorkState(k)
  <2>1. status[k] \in Statuses
    BY DEF IInv, TypeOK
  <2>2. CASE k \notin S \/ Finished(k)
    <3>1. SameState(k)
      BY <1>1, <1>2, <2>2 DEF SameState
    <3>2. k \notin S \/ WorkState(k) \notin {"ready", "open"}
      BY <2>2 DEF WorkState, Finished, LoopEnded
    <3>. QED
      BY <2>1, <3>1, <3>2, WorkStateSame
  <2>3. CASE k \in S /\ status[k] = "created"
    <3>1. LoopEnded(k)
      BY <2>3 DEF IInv, LoopMatchesStatus, LoopEnded
    <3>. QED
      BY <1>1, <1>2, <2>3, <3>1 DEF WorkState, Finished, LoopEnded
  <2>4. CASE k \in S /\ status[k] \in {"running", "paused"}
    <3>1. ~LoopEnded(k)
      BY <2>4 DEF IInv, LoopMatchesStatus, LoopEnded
    <3>. QED
      BY <1>1, <1>2, <2>4, <3>1 DEF WorkState, Finished, LoopEnded
  <2>. QED
    BY <2>1, <2>2, <2>3, <2>4 DEF Statuses, Finished
<1>4. \A k \in Jobs : Open(k)' = Open(k) /\ Used(k)' = Used(k)
  BY DEF Open, Used
<1>5. [k \in Jobs |-> WorkState(k)]' =
        [k \in Jobs |->
           IF k \in S /\ [m \in Jobs |-> WorkState(m)][k] = "ready" THEN "ended"
           ELSE IF k \in S /\ [m \in Jobs |-> WorkState(m)][k] = "open" THEN "stopping"
           ELSE [m \in Jobs |-> WorkState(m)][k]]
  BY <1>3
<1>6. UNCHANGED <<[k \in Jobs |-> Open(k)], [k \in Jobs |-> Used(k)]>>
  BY <1>4
<1>. QED
  BY <1>5, <1>6 DEF Work!Stop, Used

\* A job ends when it was stopped or has dealt with all of its plan.
LEMMA FinishWorks ==
  ASSUME IInv, NEW j \in Jobs, Finish(j)
  PROVE  Work!End(j)
<1>1. /\ pc[j] = "drain" /\ pc'[j] = "done" /\ Open(j) = {}
      /\ status'[j] \in {"stopped", "completed"}
      /\ \A k \in Jobs \ {j} : pc'[k] = pc[k] /\ status'[k] = status[k]
      /\ phase' = phase
  BY DEF Finish, Outcome, Drained, IInv, TypeOK
<1>2. /\ status[j] \in {"running", "paused", "stopped"}
      /\ status[j] # "stopped" => ~aborted[j]
  BY <1>1 DEF IInv, TypeOK, Statuses, LoopMatchesStatus, StopSticks
<1>3. WorkState(j) = "stopping" \/ (WorkState(j) = "open" /\ 1..Count[j] \subseteq Used(j))
  <2>1. CASE status[j] = "stopped"
    BY <1>1, <2>1 DEF WorkState, Finished
  <2>2. CASE status[j] # "stopped"
    <3>1. next[j] > Count[j] /\ Count[j] \in 1..MaxRequests
      BY <1>1, <1>2, <2>2 DEF IInv, LaunchedInOrder
    <3>2. 1..Count[j] \subseteq Used(j)
      BY <3>1, PlanAssumption DEF IInv, TypeOK, LaunchedInOrder, Used, Iters
    <3>. QED
      BY <1>2, <2>2, <3>2 DEF WorkState, Finished
  <2>. QED
    BY <2>1, <2>2
<1>4. WorkState(j)' = "ended"
  BY <1>1 DEF WorkState, Finished
<1>5. \A k \in Jobs \ {j} : WorkState(k)' = WorkState(k)
  BY <1>1 DEF WorkState, Finished
<1>6. [k \in Jobs |-> WorkState(k)]' = [[k \in Jobs |-> WorkState(k)] EXCEPT ![j] = "ended"]
  BY <1>4, <1>5
<1>7. UNCHANGED <<[k \in Jobs |-> Open(k)], [k \in Jobs |-> Used(k)]>>
  BY <1>1 DEF Open, Used
<1>. QED
  BY <1>1, <1>3, <1>6, <1>7 DEF Work!End, Used

\* Every step of the engine is a step of AutomatedWork or leaves it as it was.
LEMMA WorkStep == IInv /\ [Next]_vars => [Work!Next]_(Work!vars)
<1>. SUFFICES ASSUME IInv, [Next]_vars PROVE Work!Next \/ UNCHANGED Work!vars
  OBVIOUS
<1>1. ASSUME UNCHANGED <<status, pc, phase>> PROVE UNCHANGED Work!vars
  BY <1>1, Stutters DEF SameState, LoopEnded, Open, Used
<1>2. ASSUME NEW j \in Jobs, UNCHANGED Work!vars \/ \E i \in Iters : Work!Send(j, i) \/ Work!Drop(j, i)
      PROVE  Work!Next \/ UNCHANGED Work!vars
  BY <1>2 DEF Work!Next
<1>3. ASSUME NEW j \in Jobs, CreateJob(j) PROVE Work!Admit(j)
  <2>1. /\ status[j] = "none" /\ status'[j] = "created"
        /\ \A k \in Jobs \ {j} : status'[k] = status[k]
        /\ UNCHANGED <<pc, phase>>
        /\ Count[j] > 0
    BY <1>3, PlanAssumption DEF CreateJob, IInv, TypeOK
  <2>2. WorkState(j) = "none" /\ WorkState(j)' = "ready"
    BY <2>1 DEF WorkState, Finished
  <2>3. \A k \in Jobs \ {j} : WorkState(k)' = WorkState(k)
    BY <2>1 DEF WorkState, Finished
  <2>4. [k \in Jobs |-> WorkState(k)]' = [[k \in Jobs |-> WorkState(k)] EXCEPT ![j] = "ready"]
    BY <2>2, <2>3
  <2>5. UNCHANGED <<[k \in Jobs |-> Open(k)], [k \in Jobs |-> Used(k)]>>
    BY <2>1 DEF Open, Used
  <2>. QED
    BY <2>1, <2>2, <2>4, <2>5 DEF Work!Admit, Used
<1>4. ASSUME NEW j \in Jobs, Run(j) PROVE Work!Start(j)
  <2>1. /\ status[j] = "created" /\ status'[j] = "running"
        /\ \A k \in Jobs \ {j} : status'[k] = status[k] /\ pc'[k] = pc[k]
        /\ UNCHANGED phase
    BY <1>4 DEF Run, IInv, TypeOK
  <2>2. WorkState(j) = "ready" /\ WorkState(j)' = "open"
    BY <2>1 DEF WorkState, Finished
  <2>3. \A k \in Jobs \ {j} : WorkState(k)' = WorkState(k)
    BY <2>1 DEF WorkState, Finished
  <2>4. [k \in Jobs |-> WorkState(k)]' = [[k \in Jobs |-> WorkState(k)] EXCEPT ![j] = "open"]
    BY <2>2, <2>3
  <2>5. UNCHANGED <<[k \in Jobs |-> Open(k)], [k \in Jobs |-> Used(k)]>>
    BY <2>1 DEF Open, Used
  <2>. QED
    BY <2>2, <2>4, <2>5 DEF Work!Start, Used
<1>5. ASSUME NEW j \in Jobs, Pause(j) PROVE UNCHANGED Work!vars
  <2>1. /\ \A k \in Jobs : SameState(k)
        /\ phase' = phase
    BY <1>5 DEF Pause, SameState, LoopEnded, IInv, TypeOK
  <2>. QED
    BY <2>1, Stutters DEF Open, Used
<1>6. ASSUME NEW j \in Jobs, Resume(j)
      PROVE  UNCHANGED Work!vars \/ \E i \in Iters : Work!Send(j, i) \/ Work!Drop(j, i)
  <2>1. /\ status[j] = "paused" /\ status'[j] = "running"
        /\ \A k \in Jobs \ {j} : status'[k] = status[k]
        /\ aborted' = aborted
    BY <1>6 DEF Resume, IInv, TypeOK
  <2>2. CASE pc[j] = "gate"
    <3>1. Launching(j) /\ SameOrResumed(j) /\ PassGate(j)
      BY <1>6, <2>1, <2>2 DEF Resume, Launching, SameOrResumed, IInv, LaunchedInOrder
    <3>2. \A k \in Jobs : status'[k] = status[k] \/ status[k] = "paused"
      BY <2>1
    <3>. QED
      BY <2>2, <3>1, <3>2, PassGateWorks
  <2>3. CASE pc[j] # "gate"
    <3>1. UNCHANGED <<pc, phase>>
      BY <1>6, <2>3 DEF Resume
    <3>2. \A k \in Jobs : SameState(k)
      BY <2>1, <3>1 DEF SameState, LoopEnded
    <3>. QED
      BY <3>1, <3>2, Stutters DEF Open, Used
  <2>. QED
    BY <2>2, <2>3
<1>7. ASSUME StopAny PROVE \E S \in SUBSET Jobs : Work!Stop(S)
  <2>1. PICK S \in SUBSET Jobs :
          (\A j \in S : status[j] # "none") /\ Halt(S) /\ phase' = phase
    BY <1>7 DEF StopAny, StopJob, EmergencyStopAll
  <2>. QED
    BY <2>1, HaltWorks
<1>8. ASSUME NEW j \in Jobs, LoopStep(j)
      PROVE  \/ UNCHANGED Work!vars
             \/ \E i \in Iters : Work!Send(j, i) \/ Work!Drop(j, i)
             \/ Work!End(j)
  <2>1. CASE LeaveLoop(j) \/ AwaitGate(j)
    <3>1. /\ \A k \in Jobs : SameState(k)
          /\ phase' = phase
      BY <2>1 DEF LeaveLoop, AwaitGate, SameState, LoopEnded, IInv, TypeOK
    <3>. QED
      BY <3>1, Stutters DEF Open, Used
  <2>2. CASE TakeToken(j)
    <3>1. Launching(j) /\ SameOrResumed(j)
      BY <2>2 DEF TakeToken, Launching, SameOrResumed
    <3>. QED
      BY <2>2, <3>1, PassGateWorks DEF TakeToken
  <2>3. CASE WakeUp(j)
    <3>1. Launching(j) /\ SameOrResumed(j)
      BY <2>3 DEF WakeUp, Launching, SameOrResumed, IInv, LaunchedInOrder
    <3>. QED
      BY <2>3, <3>1, PassGateWorks DEF WakeUp
  <2>4. CASE LaunchGranted(j)
    <3>1. Launching(j)
      BY <2>4 DEF LaunchGranted, Launching, IInv, LaunchedInOrder
    <3>2. permits[j] \in Nat /\ permits[j] + 1 + Cardinality(Open(j)) = Conc[j]
      BY <2>4, OpenFinite DEF LaunchGranted, IInv, TypeOK, PermitsConserved, Granted
    <3>3. \A k \in Jobs : SameState(k)
      BY <2>4 DEF LaunchGranted, Launch, SameState, LoopEnded, IInv, TypeOK
    <3>. QED
      BY <2>4, <3>1, <3>2, <3>3, LaunchWorks DEF LaunchGranted
  <2>5. CASE Finish(j)
    BY <2>5, FinishWorks
  <2>. QED
    BY <1>8, <2>1, <2>2, <2>3, <2>4, <2>5 DEF LoopStep
<1>9. ASSUME NEW j \in Jobs, NEW i \in Iters, Answered(j, i) \/ Stored(j, i)
      PROVE  UNCHANGED Work!vars \/ Work!Return(j, i)
  <2>1. CASE Respond(j, i)
    <3>1. /\ phase[j][i] = "inflight"
          /\ phase'[j] = [phase[j] EXCEPT ![i] = "storing"]
          /\ \A k \in Jobs \ {j} : phase'[k] = phase[k]
          /\ UNCHANGED <<status, pc>>
      BY <2>1 DEF Respond, IInv, TypeOK
    <3>2. \A k \in Jobs, n \in Iters :
            /\ phase'[k][n] = "idle" <=> phase[k][n] = "idle"
            /\ phase'[k][n] \in {"inflight", "storing"} <=> phase[k][n] \in {"inflight", "storing"}
      BY <3>1 DEF IInv, TypeOK
    <3>. QED
      BY <3>1, <3>2, Stutters DEF Open, Used, SameState, LoopEnded
  <2>2. CASE i \in Open(j) /\ \E outcome \in Reported \cup {"abandoned"} : Settle(j, i, outcome)
    BY <2>2, SettleWorks
  <2>. QED
    BY <1>9, <2>1, <2>2 DEF Answered, Stored, Fail, Cancel, Store, StoreFails, Open, Reported
<1>10. ASSUME NEW s \in SUBSET Paths, SetScope(s) PROVE UNCHANGED <<status, pc, phase>>
  BY <1>10 DEF SetScope
<1>11. ASSUME NEW j \in Jobs, Refill(j) PROVE UNCHANGED <<status, pc, phase>>
  BY <1>11 DEF Refill
<1>12. ASSUME UNCHANGED vars PROVE UNCHANGED <<status, pc, phase>>
  BY <1>12 DEF vars
<1>13. CASE Operator
  <2>1. ASSUME NEW j \in Jobs, CreateJob(j) \/ Run(j) \/ Pause(j) \/ Resume(j)
        PROVE  Work!Next \/ UNCHANGED Work!vars
    <3>1. CASE CreateJob(j)
      BY <1>3, <3>1 DEF Work!Next
    <3>2. CASE Run(j)
      BY <1>4, <3>2 DEF Work!Next
    <3>3. CASE Pause(j)
      BY <1>5, <3>3
    <3>4. CASE Resume(j)
      BY <1>2, <1>6, <3>4
    <3>. QED
      BY <2>1, <3>1, <3>2, <3>3, <3>4
  <2>2. ASSUME StopAny PROVE Work!Next
    BY <1>7, <2>2 DEF Work!Next
  <2>. QED
    BY <1>1, <1>10, <1>13, <2>1, <2>2 DEF Operator, StopAny
<1>14. ASSUME NEW j \in Jobs, LoopStep(j) PROVE Work!Next \/ UNCHANGED Work!vars
  BY <1>8, <1>14 DEF Work!Next
<1>15. ASSUME NEW j \in Jobs, NEW i \in Iters, Answered(j, i) \/ Stored(j, i)
       PROVE  Work!Next \/ UNCHANGED Work!vars
  BY <1>9, <1>15 DEF Work!Next
<1>. QED
  BY <1>1, <1>11, <1>12, <1>13, <1>14, <1>15 DEF Next

\* The engine, with its gate, bucket and semaphore, implements AutomatedWork: the
\* initial states map to its initial states, every step to a step or a stutter.
THEOREM WorkImplemented == Spec => ImplementsWork
<1>1. ASSUME Init PROVE Work!Init
  <2>1. \A j \in Jobs : status[j] = "none" /\ \A i \in Iters : phase[j][i] = "idle"
    BY <1>1 DEF Init
  <2>2. \A j \in Jobs : WorkState(j) = "none" /\ Open(j) = {} /\ Used(j) = {}
    <3>. SUFFICES ASSUME NEW j \in Jobs
                  PROVE  WorkState(j) = "none" /\ Open(j) = {} /\ Used(j) = {}
      OBVIOUS
    <3>1. WorkState(j) = "none"
      BY <2>1 DEF WorkState, Finished
    <3>2. Open(j) = {} /\ Used(j) = {}
      BY <2>1 DEF Open, Used
    <3>. QED
      BY <3>1, <3>2
  <2>3. [j \in Jobs |-> WorkState(j)] = [j \in Jobs |-> "none"]
    BY <2>2
  <2>4. /\ [j \in Jobs |-> Open(j)] = [j \in Jobs |-> {}]
        /\ [j \in Jobs |-> Used(j)] = [j \in Jobs |-> {}]
    BY <2>2
  <2>. QED
    BY <2>3, <2>4 DEF Work!Init, Used
<1>. QED
  BY <1>1, WorkStep, Inductive, PTL DEF Spec, ImplementsWork, Work!Spec

=============================================================================

----------------------------- MODULE MeshProofs -----------------------------
(***************************************************************************)
(* Proofs about MeshOrchestrator: for any number of runs, projects, rounds *)
(* and calls, one run acts at a time, within its budget, and a stop holds. *)
(***************************************************************************)
EXTENDS MeshOrchestrator, TLAPS

Busy     == {"planning", "running"}
Awaits   == Roles \cup Briefs
Actions  == {"start", "request", "refused"} \cup Terminal

\* A run acts while it executes and was not stopped.
Acts(r) == at[r] \notin {"none", "over"} /\ ~aborted[r]

\* The status of a run goes with where it is, and a run that acts is never evicted.
Paired ==
  \A r \in Runs :
    /\ at[r] = "none" <=> r > started
    /\ at[r] = "none" <=> status[r] = "none"
    /\ at[r] = "none" => ~aborted[r] /\ r \notin kept
    /\ Acts(r) <=> status[r] \in Busy
    /\ Acts(r) => r \in kept

Alone == \A r, q \in Runs : Acts(r) /\ Acts(q) => r = q

MeshInv == TypeOK /\ Paired /\ Alone /\ WithinBudget

\* The initial state satisfies the invariant.
LEMMA MeshStarts == Init => MeshInv
<1> SUFFICES ASSUME Init PROVE MeshInv
  OBVIOUS
<1>1. TypeOK
  BY MeshAssumption DEF Init, TypeOK, Runs, Terminal
<1>2. Paired /\ Alone
  BY DEF Init, Paired, Alone, Acts, Runs, Busy
<1>3. WithinBudget
  BY MeshAssumption DEF Init, WithinBudget
<1> QED BY <1>1, <1>2, <1>3 DEF MeshInv

\* Rows go to the open project, if there is one.
LEMMA LoggedRows ==
  ASSUME project \in 0..MaxProjects, NEW es, es \subseteq Runs \X Actions
  PROVE  Logged(es) \subseteq Projects \X (Runs \X Actions)
BY DEF Logged, Projects

\* A step of execute: the run's await and status change together, as its signal allows.
Goes(r, x, y) ==
  /\ at' = [at EXCEPT ![r] = x]
  /\ status' = [status EXCEPT ![r] = y]
  /\ IF aborted[r] THEN x = "over" /\ y \in Terminal ELSE x = "over" <=> y \in Terminal
  /\ status[r] \in Terminal => y = status[r] \/ (status[r] = "stopped" /\ y = "done" /\ at[r] = "reporter")

Moves(r) ==
  /\ r \in Executing
  /\ \E x \in Awaits \cup {"over"}, y \in Busy \cup Terminal : Goes(r, x, y)
  /\ UNCHANGED <<place, started, kept, aborted, home, traffic>>

\* Such a step keeps the runs paired with their status, and the one that acts alone.
LEMMA MovesKeep ==
  ASSUME TypeOK, Paired, Alone, NEW r \in Runs, Moves(r)
  PROVE  /\ Paired' /\ Alone'
         /\ at' \in [Runs -> {"none", "over"} \cup Awaits]
         /\ status' \in [Runs -> {"none"} \cup Busy \cup Terminal]
<1>1. PICK x \in Awaits \cup {"over"}, y \in Busy \cup Terminal : Goes(r, x, y)
  BY DEF Moves
<1>2. UNCHANGED <<started, kept, aborted>> /\ at[r] \notin {"none", "over"}
  BY DEF Moves, Executing
<1>3. at \in [Runs -> {"none", "over"} \cup Awaits] /\ status \in [Runs -> {"none"} \cup Busy \cup Terminal]
      /\ aborted \in [Runs -> BOOLEAN]
  BY DEF TypeOK, Awaits, Busy
<1>4. /\ at' \in [Runs -> {"none", "over"} \cup Awaits]
      /\ status' \in [Runs -> {"none"} \cup Busy \cup Terminal]
  BY <1>1, <1>3 DEF Goes
<1>5. x # "none" /\ y # "none" /\ (y \in Busy <=> y \notin Terminal)
  BY DEF Awaits, Busy, Terminal, Roles, Briefs
<1>6. \A q \in Runs : /\ at'[q] = (IF q = r THEN x ELSE at[q])
                      /\ status'[q] = (IF q = r THEN y ELSE status[q])
  BY <1>1, <1>3 DEF Goes
<1>7. IF aborted[r] THEN x = "over" /\ y \in Terminal ELSE x = "over" <=> y \in Terminal
  BY <1>1 DEF Goes
<1>8. \A q \in Runs : Acts(q)' => Acts(q)
  BY <1>2, <1>6 DEF Acts
<1>9. Paired'
  <2> SUFFICES ASSUME NEW q \in Runs
               PROVE  /\ at'[q] = "none" <=> q > started'
                      /\ at'[q] = "none" <=> status'[q] = "none"
                      /\ at'[q] = "none" => ~aborted'[q] /\ q \notin kept'
                      /\ Acts(q)' <=> status'[q] \in Busy
                      /\ Acts(q)' => q \in kept'
    BY DEF Paired
  <2>1. CASE q = r
    <3>1. Acts(r)' <=> x # "over" /\ ~aborted[r]
      BY <1>2, <1>5, <1>6 DEF Acts
    <3>2. r \in Runs /\ ~(r > started) /\ (Acts(r)' => r \in kept)
      BY <1>2, <1>8 DEF Paired
    <3> QED BY <1>2, <1>5, <1>6, <1>7, <2>1, <3>1, <3>2
  <2>2. CASE q # r
    BY <1>2, <1>6, <2>2 DEF Paired, Acts
  <2> QED BY <2>1, <2>2
<1>10. Alone'
  BY <1>8 DEF Alone
<1> QED BY <1>4, <1>9, <1>10

\* The words of a run keep their types through a step of execute.
Says ==
  /\ round' \in [Runs -> 0..MaxRounds]
  /\ declined' \in [Runs -> BOOLEAN] /\ told' \in [Runs -> BOOLEAN]
  /\ report' \in [Runs -> {"none", "blocked", "written", "not-written"}]
  /\ rows' \subseteq Projects \X (Runs \X Actions)

LEMMA MovesInv ==
  ASSUME MeshInv, NEW r \in Runs, Moves(r), Says
  PROVE  MeshInv'
<1>1. TypeOK /\ Paired /\ Alone /\ WithinBudget
  BY DEF MeshInv
<1>2. Paired' /\ Alone'
      /\ at' \in [Runs -> {"none", "over"} \cup Awaits]
      /\ status' \in [Runs -> {"none"} \cup Busy \cup Terminal]
  BY <1>1, MovesKeep
<1>3. UNCHANGED <<project, opened, started, kept, aborted, home, used, owed, sent>>
  BY DEF Moves, place, traffic
<1>4. TypeOK'
  BY <1>1, <1>2, <1>3 DEF TypeOK, Says, Awaits, Busy, Actions
<1>5. WithinBudget'
  BY <1>1, <1>3 DEF WithinBudget
<1> QED BY <1>2, <1>4, <1>5 DEF MeshInv

\* The actions a turn's end is made of.
LEMMA Dispatches ==
  ASSUME NEW r \in Runs, NEW role \in Roles, ~aborted[r], status[r] \notin Terminal, Dispatch(r, role)
  PROVE  \E x \in Awaits \cup {"over"}, y \in Busy \cup Terminal : Goes(r, x, y)
<1> DEFINE y == IF role \in {"recon", "planner"} THEN "planning" ELSE "running"
<1>1. role \in Awaits \cup {"over"} /\ y \in Busy \cup Terminal /\ role # "over" /\ y \notin Terminal
  BY DEF Awaits, Roles, Busy, Terminal
<1>2. Goes(r, role, y)
  BY <1>1 DEF Dispatch, Goes
<1> QED BY <1>1, <1>2

\* A run that executes and was not stopped has not ended; one that was stopped has.
LEMMA ActsOrEnded ==
  ASSUME TypeOK, Paired, NEW r \in Runs, r \in Executing
  PROVE  /\ aborted[r] \in BOOLEAN
         /\ ~aborted[r] => status[r] \notin Terminal /\ status[r] \in Busy /\ r \in kept
         /\ aborted[r] => status[r] \in Terminal
<1>1. at[r] \notin {"none", "over"} /\ aborted[r] \in BOOLEAN
      /\ status[r] \in {"none", "planning", "running"} \cup Terminal
  BY DEF Executing, TypeOK
<1> QED BY <1>1 DEF Paired, Acts, Busy, Terminal

LEMMA GivesUpMoves ==
  ASSUME TypeOK, Paired, NEW r \in Runs, r \in Executing, aborted[r], GivesUp(r)
  PROVE  Moves(r)
<1>1. status[r] \in Terminal /\ status \in [Runs -> {"none", "planning", "running"} \cup Terminal]
  BY ActsOrEnded DEF TypeOK
<1>2. Goes(r, "over", status[r])
  BY <1>1 DEF GivesUp, Over, Goes
<1> QED BY <1>1, <1>2 DEF Moves, GivesUp

\* A run that executes ends: as finish or fail say, by itself or after a stop.
LEMMA EndMoves ==
  ASSUME TypeOK, Paired, NEW r \in Runs, r \in Executing, NEW y \in Terminal, Over(r),
         status' = [status EXCEPT ![r] = y],
         aborted[r] => y = status[r] \/ (status[r] = "stopped" /\ y = "done" /\ at[r] = "reporter"),
         UNCHANGED <<place, started, kept, aborted, home, traffic>>
  PROVE  Moves(r)
<1>1. Goes(r, "over", y)
  BY ActsOrEnded DEF Goes, Over
<1> QED BY <1>1 DEF Moves

\* The head of the loop dispatches the attacker, within the rounds, or the reporter.
LEMMA LoopMoves ==
  ASSUME TypeOK, Paired, NEW r \in Runs, r \in Executing, ~aborted[r],
         NEW n \in Nat \ {0}, NEW b \in BOOLEAN, Loop(r, n, b),
         declined' \in [Runs -> BOOLEAN],
         UNCHANGED <<place, started, kept, aborted, home, traffic>>
  PROVE  /\ Moves(r)
         /\ round' \in [Runs -> 0..MaxRounds] /\ told' \in [Runs -> BOOLEAN]
<1>1. status[r] \notin Terminal
  BY ActsOrEnded
<1>2. round \in [Runs -> 0..MaxRounds] /\ told \in [Runs -> BOOLEAN]
  BY DEF TypeOK
<1>3. CASE ToReporter(r)
  <2>1. Dispatch(r, "reporter") /\ told' = [told EXCEPT ![r] = declined'[r]] /\ round' = round
    BY <1>3 DEF ToReporter
  <2>2. "reporter" \in Roles
    BY DEF Roles
  <2>3. \E x \in Awaits \cup {"over"}, y \in Busy \cup Terminal : Goes(r, x, y)
    BY <1>1, <2>1, <2>2, Dispatches
  <2>4. declined'[r] \in BOOLEAN
    OBVIOUS
  <2>5. told' \in [Runs -> BOOLEAN]
    BY <1>2, <2>1, <2>4
  <2> QED BY <1>2, <2>1, <2>3, <2>5 DEF Moves
<1>4. CASE ~(n > MaxRounds) /\ Dispatch(r, "attacker") /\ round' = [round EXCEPT ![r] = n] /\ UNCHANGED told
  <2>1. n \in 0..MaxRounds /\ "attacker" \in Roles
    BY <1>4, MeshAssumption DEF Roles
  <2>2. \E x \in Awaits \cup {"over"}, y \in Busy \cup Terminal : Goes(r, x, y)
    BY <1>1, <1>4, <2>1, Dispatches
  <2> QED BY <1>2, <1>4, <2>1, <2>2 DEF Moves
<1> QED BY <1>3, <1>4 DEF Loop

LEMMA NotesSay ==
  ASSUME TypeOK, NEW r \in Runs, NEW b \in BOOLEAN, Notes(r, b)
  PROVE  declined' \in [Runs -> BOOLEAN] /\ rows' \subseteq Projects \X (Runs \X Actions)
<1>1. declined \in [Runs -> BOOLEAN] /\ project \in 0..MaxProjects
      /\ rows \subseteq Projects \X (Runs \X Actions)
  BY DEF TypeOK, Actions
<1>2. Logged({<<r, "refused">>}) \subseteq Projects \X (Runs \X Actions)
  BY <1>1, LoggedRows DEF Actions
<1> QED BY <1>1, <1>2 DEF Notes

\* Every way a turn or a briefing can end.
LEMMA StepOfExecute ==
  ASSUME MeshInv, NEW r \in Runs, TurnEnds(r) \/ TurnThrows(r) \/ Briefed(r)
  PROVE  Moves(r) /\ Says
<1>0. TypeOK /\ Paired /\ Alone
  BY DEF MeshInv
<1>1. r \in Executing
  BY DEF TurnEnds, TurnThrows, Briefed, ReconEnds, PlannerEnds, AttackerEnds, AnalystEnds, ReporterEnds,
         TurnOf, Executing, Roles, Briefs
<1>2. /\ round \in [Runs -> 0..MaxRounds] /\ declined \in [Runs -> BOOLEAN] /\ told \in [Runs -> BOOLEAN]
      /\ report \in [Runs -> {"none", "blocked", "written", "not-written"}]
      /\ rows \subseteq Projects \X (Runs \X Actions)
      /\ project \in 0..MaxProjects /\ aborted[r] \in BOOLEAN
      /\ status \in [Runs -> {"none", "planning", "running"} \cup Terminal]
  BY <1>0 DEF TypeOK, Actions
<1>3. /\ ~aborted[r] => status[r] \in Busy /\ status[r] \notin Terminal /\ r \in kept
      /\ aborted[r] => status[r] \in Terminal
  BY <1>0, <1>1, ActsOrEnded
<1>4. CASE aborted[r] /\ GivesUp(r) /\ declined' \in [Runs -> BOOLEAN]
           /\ rows' \subseteq Projects \X (Runs \X Actions)
  BY <1>0, <1>1, <1>2, <1>4, GivesUpMoves DEF Says, GivesUp
<1>5. ASSUME NEW role \in Roles, ~aborted[r], Dispatch(r, role),
             UNCHANGED <<place, started, kept, aborted, home, traffic>>
      PROVE  Moves(r)
  BY <1>1, <1>3, <1>5, Dispatches DEF Moves
<1>6. CASE Briefed(r)
  <2>1. CASE at[r] \in Briefs /\ aborted[r] /\ GivesUp(r) /\ UNCHANGED <<declined, rows>>
    BY <1>2, <1>4, <2>1
  <2>2. CASE ~aborted[r] /\ Dispatch(r, "planner")
             /\ UNCHANGED <<place, started, kept, round, aborted, home, traffic, words, rows>>
    <3>1. Moves(r)
      BY <1>5, <2>2 DEF Roles
    <3> QED BY <1>2, <2>2, <3>1 DEF Says, words
  <2>3. CASE /\ ~aborted[r]
             /\ UNCHANGED <<place, started, kept, aborted, home, traffic, declined, report, rows>>
             /\ \E b \in BOOLEAN : Loop(r, 1, b)
    <3>1. PICK b \in BOOLEAN : Loop(r, 1, b)
      BY <2>3
    <3>2. Moves(r) /\ round' \in [Runs -> 0..MaxRounds] /\ told' \in [Runs -> BOOLEAN]
      BY <1>0, <1>1, <1>2, <2>3, <3>1, LoopMoves
    <3> QED BY <1>2, <2>3, <3>2 DEF Says
  <2> QED BY <1>6, <2>1, <2>2, <2>3 DEF Briefed
<1>7. ASSUME NEW b \in BOOLEAN, NEW c \in BOOLEAN, ReconEnds(r, b, c) PROVE Moves(r) /\ Says
  <2>1. CASE aborted[r] /\ GivesUp(r) /\ UNCHANGED <<declined, rows>>
    BY <1>2, <1>4, <2>1
  <2>2. CASE ~aborted[r] /\ Notes(r, TRUE) /\ at' = [at EXCEPT ![r] = "recon-brief"]
             /\ UNCHANGED <<place, started, kept, status, round, aborted, home, traffic, told, report>>
    <3>1. declined' \in [Runs -> BOOLEAN] /\ rows' \subseteq Projects \X (Runs \X Actions)
      BY <1>0, <2>2, NotesSay
    <3>2. Goes(r, "recon-brief", status[r]) /\ "recon-brief" \in Awaits
      BY <1>2, <1>3, <2>2 DEF Goes, Awaits, Briefs
    <3>3. Moves(r)
      BY <1>1, <1>3, <2>2, <3>2 DEF Moves
    <3> QED BY <1>2, <2>2, <3>1, <3>3 DEF Says
  <2>3. CASE ~aborted[r] /\ report' = [report EXCEPT ![r] = "blocked"] /\ Finish(r, "done") /\ Over(r)
             /\ UNCHANGED <<place, started, kept, round, aborted, home, traffic, declined, told>>
    <3>1. Finishes(r)
      BY <1>3, <2>3 DEF Finishes, Terminal, Busy
    <3>2. status' = [status EXCEPT ![r] = "done"] /\ rows' = rows \cup Logged({<<r, "done">>})
      BY <2>3, <3>1 DEF Finish
    <3>3. Logged({<<r, "done">>}) \subseteq Projects \X (Runs \X Actions)
      BY <1>2, LoggedRows DEF Actions, Terminal
    <3>4. Moves(r)
      BY <1>0, <1>1, <2>3, <3>2, EndMoves DEF Terminal
    <3>5. report' \in [Runs -> {"none", "blocked", "written", "not-written"}]
      BY <1>2, <2>3
    <3> QED BY <1>2, <2>3, <3>2, <3>3, <3>4, <3>5 DEF Says
  <2>4. CASE ~aborted[r] /\ Dispatch(r, "planner")
             /\ UNCHANGED <<place, started, kept, round, aborted, home, traffic, words, rows>>
    <3>1. Moves(r)
      BY <1>5, <2>4 DEF Roles
    <3> QED BY <1>2, <2>4, <3>1 DEF Says, words
  <2> QED BY <1>7, <2>1, <2>2, <2>3, <2>4 DEF ReconEnds
<1>8. ASSUME NEW b \in BOOLEAN, NEW c \in BOOLEAN, PlannerEnds(r, b, c) PROVE Moves(r) /\ Says
  <2>1. CASE aborted[r] /\ GivesUp(r) /\ UNCHANGED <<declined, rows>>
    BY <1>2, <1>4, <2>1
  <2>2. CASE ~aborted[r] /\ Notes(r, TRUE) /\ at' = [at EXCEPT ![r] = "planner-brief"]
             /\ UNCHANGED <<place, started, kept, status, round, aborted, home, traffic, told, report>>
    <3>1. declined' \in [Runs -> BOOLEAN] /\ rows' \subseteq Projects \X (Runs \X Actions)
      BY <1>0, <2>2, NotesSay
    <3>2. Goes(r, "planner-brief", status[r]) /\ "planner-brief" \in Awaits
      BY <1>2, <1>3, <2>2 DEF Goes, Awaits, Briefs
    <3>3. Moves(r)
      BY <1>1, <1>3, <2>2, <3>2 DEF Moves
    <3> QED BY <1>2, <2>2, <3>1, <3>3 DEF Says
  <2>3. CASE ~aborted[r] /\ Notes(r, FALSE) /\ Loop(r, 1, c)
             /\ UNCHANGED <<place, started, kept, aborted, home, traffic, report>>
    <3>1. declined' \in [Runs -> BOOLEAN] /\ rows' \subseteq Projects \X (Runs \X Actions)
      BY <1>0, <2>3, NotesSay
    <3>2. Moves(r) /\ round' \in [Runs -> 0..MaxRounds] /\ told' \in [Runs -> BOOLEAN]
      BY <1>0, <1>1, <2>3, <3>1, LoopMoves
    <3> QED BY <1>2, <2>3, <3>1, <3>2 DEF Says
  <2> QED BY <1>8, <2>1, <2>2, <2>3 DEF PlannerEnds
<1>9. ASSUME NEW b \in BOOLEAN, AttackerEnds(r, b) PROVE Moves(r) /\ Says
  <2>1. CASE aborted[r] /\ GivesUp(r) /\ UNCHANGED <<declined, rows>>
    BY <1>2, <1>4, <2>1
  <2>2. CASE ~aborted[r] /\ Notes(r, b) /\ Dispatch(r, "analyst")
             /\ UNCHANGED <<place, started, kept, round, aborted, home, traffic, told, report>>
    <3>1. declined' \in [Runs -> BOOLEAN] /\ rows' \subseteq Projects \X (Runs \X Actions)
      BY <1>0, <2>2, NotesSay
    <3>2. Moves(r)
      BY <1>5, <2>2 DEF Roles
    <3> QED BY <1>2, <2>2, <3>1, <3>2 DEF Says
  <2> QED BY <1>9, <2>1, <2>2 DEF AttackerEnds
<1>10. ASSUME NEW b \in BOOLEAN, NEW d \in BOOLEAN, NEW c \in BOOLEAN, AnalystEnds(r, b, d, c)
       PROVE  Moves(r) /\ Says
  <2>1. declined' \in [Runs -> BOOLEAN] /\ rows' \subseteq Projects \X (Runs \X Actions)
    BY <1>0, <1>10, NotesSay DEF AnalystEnds
  <2>2. CASE aborted[r] /\ GivesUp(r)
    BY <1>4, <2>1, <2>2
  <2>3. CASE ~aborted[r] /\ ToReporter(r)
             /\ UNCHANGED <<place, started, kept, aborted, home, traffic, report>>
    <3>1. Dispatch(r, "reporter") /\ told' = [told EXCEPT ![r] = declined'[r]] /\ round' = round
      BY <2>3 DEF ToReporter
    <3>2. told' \in [Runs -> BOOLEAN]
      BY <1>2, <2>1, <3>1
    <3>3. Moves(r)
      BY <1>5, <2>3, <3>1 DEF Roles
    <3> QED BY <1>2, <2>1, <2>3, <3>1, <3>2, <3>3 DEF Says
  <2>4. CASE ~aborted[r] /\ Loop(r, round[r] + 1, c)
             /\ UNCHANGED <<place, started, kept, aborted, home, traffic, report>>
    <3>1. round[r] + 1 \in Nat \ {0}
      BY <1>2
    <3>2. Moves(r) /\ round' \in [Runs -> 0..MaxRounds] /\ told' \in [Runs -> BOOLEAN]
      BY <1>0, <1>1, <2>1, <2>4, <3>1, LoopMoves
    <3> QED BY <1>2, <2>1, <2>4, <3>2 DEF Says
  <2> QED BY <1>10, <2>2, <2>3, <2>4 DEF AnalystEnds
<1>11. ASSUME NEW b \in BOOLEAN, ReporterEnds(r, b) PROVE Moves(r) /\ Says
  <2> DEFINE y == IF Finishes(r) THEN "done" ELSE status[r]
             es == (IF b THEN {<<r, "refused">>} ELSE {}) \cup (IF Finishes(r) THEN {<<r, "done">>} ELSE {})
  <2>1. /\ at[r] = "reporter" /\ Over(r) /\ status' = [status EXCEPT ![r] = y]
        /\ declined' = [declined EXCEPT ![r] = @ \/ b]
        /\ report' = [report EXCEPT ![r] = IF b THEN "not-written" ELSE "written"]
        /\ rows' = rows \cup Logged(es)
        /\ UNCHANGED <<place, started, kept, round, aborted, home, traffic, told>>
    BY <1>11 DEF ReporterEnds, TurnOf
  <2>2. y \in Terminal /\ (aborted[r] => y = status[r] \/ (status[r] = "stopped" /\ y = "done" /\ at[r] = "reporter"))
    <3>1. CASE Finishes(r)
      BY <1>2, <1>3, <2>1, <3>1 DEF Finishes, Terminal
    <3>2. CASE ~Finishes(r)
      BY <1>2, <1>3, <3>2 DEF Finishes, Terminal, Busy
    <3> QED BY <3>1, <3>2
  <2>3. Moves(r)
    <3> HIDE DEF y
    <3> QED BY <1>0, <1>1, <2>1, <2>2, EndMoves
  <2>4. Logged(es) \subseteq Projects \X (Runs \X Actions)
    <3>1. es \subseteq Runs \X Actions
      BY DEF Actions, Terminal
    <3> QED BY <1>2, <3>1, LoggedRows
  <2>5. declined' \in [Runs -> BOOLEAN] /\ report' \in [Runs -> {"none", "blocked", "written", "not-written"}]
    BY <1>2, <2>1
  <2> QED BY <1>2, <2>1, <2>3, <2>4, <2>5 DEF Says
<1>12. CASE TurnThrows(r)
  <2>1. Over(r) /\ UNCHANGED <<place, started, kept, round, aborted, home, traffic, words>>
    BY <1>12 DEF TurnThrows
  <2>2. CASE aborted[r]
    <3>1. Finish(r, "stopped")
      BY <1>12, <2>2 DEF TurnThrows
    <3>2. Logged({<<r, "stopped">>}) \subseteq Projects \X (Runs \X Actions)
      BY <1>2, LoggedRows DEF Actions, Terminal
    <3>3. rows' \subseteq Projects \X (Runs \X Actions) /\ status' = status
      <4>1. Finishes(r) => status[r] = "stopped"
        BY <1>3, <2>2 DEF Finishes, Terminal
      <4> QED BY <1>2, <3>1, <3>2, <4>1 DEF Finish
    <3>4. GivesUp(r)
      BY <2>1, <3>3 DEF GivesUp, words
    <3> QED BY <1>2, <1>4, <2>1, <2>2, <3>3, <3>4 DEF words
  <2>3. CASE ~aborted[r]
    <3>1. status' = [status EXCEPT ![r] = "error"] /\ rows' = rows \cup Logged({<<r, "error">>})
      BY <1>12, <2>3 DEF TurnThrows
    <3>2. Logged({<<r, "error">>}) \subseteq Projects \X (Runs \X Actions)
      BY <1>2, LoggedRows DEF Actions, Terminal
    <3>3. Moves(r)
      BY <1>0, <1>1, <2>1, <2>3, <3>1, EndMoves DEF Terminal
    <3> QED BY <1>2, <2>1, <3>1, <3>2, <3>3 DEF Says, words
  <2> QED BY <1>2, <2>2, <2>3
<1> QED BY <1>6, <1>7, <1>8, <1>9, <1>10, <1>11, <1>12 DEF TurnEnds

\* A tool call that is dispatched, sends, or settles keeps within the budget.
LEMMA StepOfCall ==
  ASSUME MeshInv, NEW r \in Runs,
         (\E cost \in Costs : Call(r, cost)) \/ Send(r) \/ Settle(r)
  PROVE  MeshInv' /\ UNCHANGED <<at, status>> /\ (aborted[r] => UNCHANGED used)
                  /\ \A q \in Runs : q # r => used'[q] = used[q]
<1>0. TypeOK /\ Paired /\ Alone /\ WithinBudget
  BY DEF MeshInv
<1>1. UNCHANGED <<place, started, kept, status, at, round, aborted, home, words>>
  BY DEF Call, Send, Settle
<1>2. Paired' /\ Alone'
  BY <1>0, <1>1 DEF Paired, Alone, Acts
<1>3. /\ used \in [Runs -> Nat] /\ owed \in [Runs -> Nat] /\ sent \in [Runs -> Nat]
      /\ \A q \in Runs : sent[q] + owed[q] <= used[q] /\ used[q] <= Cap
      /\ project \in 0..MaxProjects /\ rows \subseteq Projects \X (Runs \X Actions)
  BY <1>0 DEF TypeOK, WithinBudget, Actions
<1>4. ASSUME used' \in [Runs -> Nat], owed' \in [Runs -> Nat], sent' \in [Runs -> Nat],
             \A q \in Runs : sent'[q] + owed'[q] <= used'[q] /\ used'[q] <= Cap,
             rows' \subseteq Projects \X (Runs \X Actions)
      PROVE  MeshInv'
  BY <1>0, <1>1, <1>2, <1>4 DEF MeshInv, TypeOK, WithinBudget, Actions, place, words
<1>5. ASSUME NEW cost \in Costs, Call(r, cost)
      PROVE  MeshInv' /\ ~aborted[r] /\ \A q \in Runs : q # r => used'[q] = used[q]
  <2>1. cost \in Nat /\ Cap \in Nat
    BY MeshAssumption
  <2>2. /\ used[r] + cost <= Cap /\ ~aborted[r]
        /\ used' = [used EXCEPT ![r] = used[r] + cost] /\ owed' = [owed EXCEPT ![r] = owed[r] + cost]
        /\ sent' = sent /\ rows' = rows \cup Logged({<<r, "request">>})
    BY <1>5 DEF Call
  <2>3. Logged({<<r, "request">>}) \subseteq Projects \X (Runs \X Actions)
    BY <1>3, LoggedRows DEF Actions
  <2>4. \A q \in Runs : /\ used'[q] = (IF q = r THEN used[r] + cost ELSE used[q])
                        /\ owed'[q] = (IF q = r THEN owed[r] + cost ELSE owed[q])
    BY <1>3, <2>2
  <2>5. used' \in [Runs -> Nat] /\ owed' \in [Runs -> Nat]
    BY <1>3, <2>1, <2>2
  <2>6. \A q \in Runs : sent'[q] + owed'[q] <= used'[q] /\ used'[q] <= Cap
    BY <1>3, <2>1, <2>2, <2>4
  <2> QED BY <1>3, <1>4, <2>2, <2>3, <2>4, <2>5, <2>6
<1>6. CASE Send(r)
  <2>1. owed[r] > 0 /\ owed' = [owed EXCEPT ![r] = owed[r] - 1] /\ sent' = [sent EXCEPT ![r] = sent[r] + 1]
        /\ used' = used /\ rows' = rows
    BY <1>6 DEF Send
  <2>2. owed' \in [Runs -> Nat] /\ sent' \in [Runs -> Nat]
    BY <1>3, <2>1
  <2>3. \A q \in Runs : sent'[q] + owed'[q] <= used'[q] /\ used'[q] <= Cap
    BY <1>3, <2>1
  <2> QED BY <1>1, <1>3, <1>4, <2>1, <2>2, <2>3
<1>7. CASE Settle(r)
  <2>1. owed' = [owed EXCEPT ![r] = 0] /\ sent' = sent /\ used' = used /\ rows' = rows
    BY <1>7 DEF Settle
  <2>2. owed' \in [Runs -> Nat]
    BY <1>3, <2>1
  <2>3. \A q \in Runs : sent'[q] + owed'[q] <= used'[q] /\ used'[q] <= Cap
    BY <1>3, <2>1
  <2> QED BY <1>1, <1>3, <1>4, <2>1, <2>2, <2>3
<1> QED BY <1>1, <1>5, <1>6, <1>7

\* Stopping runs, all of which are kept or not, keeps the invariant.
LEMMA StoppingKeeps ==
  ASSUME MeshInv, NEW rs \in SUBSET kept, Stopping(rs),
         project' \in 0..MaxProjects,
         UNCHANGED <<opened, started, kept, at, round, home, traffic, words>>
  PROVE  /\ MeshInv'
         /\ \A r \in Runs : status[r] \in Terminal => status'[r] = status[r]
<1>0. TypeOK /\ Paired /\ Alone /\ WithinBudget
  BY DEF MeshInv
<1>1. /\ status \in [Runs -> {"none", "planning", "running"} \cup Terminal] /\ aborted \in [Runs -> BOOLEAN]
      /\ kept \subseteq Runs /\ project \in 0..MaxProjects /\ rows \subseteq Projects \X (Runs \X Actions)
  <2>1. kept \subseteq 1..started /\ started \in 0..MaxRuns /\ MaxRuns \in Nat
    BY <1>0, MeshAssumption DEF TypeOK
  <2>2. kept \subseteq Runs
    BY <2>1 DEF Runs
  <2> QED BY <1>0, <2>2 DEF TypeOK, Actions
<1>2. /\ aborted' = [r \in Runs |-> aborted[r] \/ r \in rs]
      /\ status' = [r \in Runs |-> IF r \in rs /\ Finishes(r) THEN "stopped" ELSE status[r]]
      /\ rows' = rows \cup Logged({<<r, "stopped">> : r \in {q \in rs : Finishes(q)}})
  BY DEF Stopping
<1>3. status' \in [Runs -> {"none", "planning", "running"} \cup Terminal] /\ aborted' \in [Runs -> BOOLEAN]
  BY <1>1, <1>2 DEF Terminal
<1>4. rows' \subseteq Projects \X (Runs \X Actions)
  <2>1. {<<r, "stopped">> : r \in {q \in rs : Finishes(q)}} \subseteq Runs \X Actions
    BY <1>1 DEF Actions, Terminal
  <2> QED BY <1>1, <1>2, <2>1, LoggedRows
<1>5. TypeOK' /\ WithinBudget'
  BY <1>0, <1>3, <1>4 DEF TypeOK, WithinBudget, Actions, traffic, words
<1>6. \A r \in Runs : r \in rs => at[r] # "none" /\ status[r] # "none"
  BY <1>0 DEF Paired
<1>7. \A r \in Runs : /\ aborted'[r] = (aborted[r] \/ r \in rs)
                      /\ status'[r] = (IF r \in rs /\ Finishes(r) THEN "stopped" ELSE status[r])
  BY <1>2
<1>8. \A r \in Runs : Acts(r)' <=> Acts(r) /\ r \notin rs
  BY <1>7 DEF Acts
<1>9. Paired'
  <2> SUFFICES ASSUME NEW r \in Runs
               PROVE  /\ at'[r] = "none" <=> r > started'
                      /\ at'[r] = "none" <=> status'[r] = "none"
                      /\ at'[r] = "none" => ~aborted'[r] /\ r \notin kept'
                      /\ Acts(r)' <=> status'[r] \in Busy
                      /\ Acts(r)' => r \in kept'
    BY DEF Paired
  <2>1. /\ at[r] = "none" <=> r > started
        /\ at[r] = "none" <=> status[r] = "none"
        /\ at[r] = "none" => ~aborted[r] /\ r \notin kept
        /\ Acts(r) <=> status[r] \in Busy
        /\ Acts(r) => r \in kept
    BY <1>0 DEF Paired
  <2>2. CASE r \in rs
    <3>1. r \in kept /\ at[r] # "none" /\ ~Acts(r)' /\ status'[r] \notin Busy /\ status'[r] # "none"
      <4>1. CASE Finishes(r)
        BY <1>6, <1>7, <1>8, <2>2, <4>1 DEF Busy
      <4>2. CASE ~Finishes(r)
        BY <1>6, <1>7, <1>8, <2>2, <4>2 DEF Finishes, Busy
      <4> QED BY <4>1, <4>2
    <3> QED BY <2>1, <3>1
  <2>3. CASE r \notin rs
    BY <1>7, <1>8, <2>1, <2>3
  <2> QED BY <2>2, <2>3
<1>10. Alone'
  BY <1>0, <1>8 DEF Alone
<1>11. \A r \in Runs : status[r] \in Terminal => status'[r] = status[r]
  BY <1>7 DEF Finishes, Terminal
<1> QED BY <1>5, <1>9, <1>10, <1>11 DEF MeshInv

\* A new run is the only one that acts, and evicts none that does.
LEMMA StepOfStart ==
  ASSUME MeshInv, Start
  PROVE  /\ MeshInv'
         /\ \A r \in Runs : aborted[r] \/ status[r] \in Terminal => UNCHANGED <<at[r], status[r]>>
         /\ UNCHANGED used
<1>0. TypeOK /\ Paired /\ Alone /\ WithinBudget
  BY DEF MeshInv
<1> DEFINE n == started + 1
<1>1. /\ started \in 0..MaxRuns /\ started < MaxRuns /\ n \in Runs /\ MaxRuns \in Nat
      /\ kept \subseteq 1..started /\ project \in 0..MaxProjects
      /\ rows \subseteq Projects \X (Runs \X Actions)
      /\ status \in [Runs -> {"none", "planning", "running"} \cup Terminal]
      /\ at \in [Runs -> {"none", "over"} \cup Roles \cup Briefs]
      /\ home \in [Runs -> 0..MaxProjects]
  <2>1. started \in 0..MaxRuns /\ started < MaxRuns /\ MaxRuns \in Nat
    BY <1>0, MeshAssumption DEF TypeOK, Start
  <2>2. n \in Runs
    BY <2>1 DEF Runs
  <2>3. rows \subseteq Projects \X (Runs \X Actions)
    BY <1>0 DEF TypeOK, Actions
  <2> QED BY <1>0, <2>1, <2>2, <2>3 DEF TypeOK
<1>2. /\ started' = n /\ kept' = (kept \cup {n}) \ Evicted(kept \cup {n})
      /\ status' = [status EXCEPT ![n] = "planning"] /\ at' = [at EXCEPT ![n] = "recon"]
      /\ home' = [home EXCEPT ![n] = project] /\ rows' = rows \cup Logged({<<n, "start">>})
      /\ UNCHANGED <<project, opened, round, aborted, used, owed, sent, declined, told, report>>
      /\ Active = {}
  BY DEF Start, place, traffic, words
<1>3. at[n] = "none" /\ status[n] = "none" /\ ~aborted[n] /\ n \notin kept
  BY <1>0, <1>1 DEF Paired
<1>4. \A r \in Runs : ~Acts(r)
  <2> SUFFICES ASSUME NEW r \in Runs, Acts(r) PROVE FALSE
    OBVIOUS
  <2>1. r \in kept /\ status[r] \in Busy
    BY <1>0 DEF Paired
  <2>2. r \in Active
    BY <2>1 DEF Active, Busy, Terminal
  <2> QED BY <1>2, <2>2
<1>5. \A r \in Runs : /\ at'[r] = (IF r = n THEN "recon" ELSE at[r])
                      /\ status'[r] = (IF r = n THEN "planning" ELSE status[r])
  BY <1>1, <1>2
<1>6. \A r \in Runs : Acts(r)' <=> r = n
  BY <1>2, <1>3, <1>4, <1>5 DEF Acts
<1>7. n \in kept'
  <2>1. n \notin Evicted(kept \cup {n})
    BY <1>3 DEF Evicted, Terminal
  <2> QED BY <1>2, <2>1
<1>8. Paired'
  <2> SUFFICES ASSUME NEW r \in Runs
               PROVE  /\ at'[r] = "none" <=> r > started'
                      /\ at'[r] = "none" <=> status'[r] = "none"
                      /\ at'[r] = "none" => ~aborted'[r] /\ r \notin kept'
                      /\ Acts(r)' <=> status'[r] \in Busy
                      /\ Acts(r)' => r \in kept'
    BY DEF Paired
  <2>1. CASE r = n
    <3>1. at'[r] # "none" /\ status'[r] \in Busy /\ status'[r] # "none" /\ Acts(r)' /\ r \in kept' /\ ~(r > started')
      BY <1>1, <1>2, <1>5, <1>6, <1>7, <2>1 DEF Busy
    <3> QED BY <3>1
  <2>2. CASE r # n
    <3>1. /\ at'[r] = at[r] /\ status'[r] = status[r] /\ aborted'[r] = aborted[r] /\ ~Acts(r)' /\ ~Acts(r)
          /\ r \in kept' => r \in kept
      BY <1>2, <1>4, <1>5, <1>6, <2>2
    <3>2. r > started' <=> r > started
      BY <1>1, <1>2, <2>2 DEF Runs
    <3>3. /\ at[r] = "none" <=> r > started
          /\ at[r] = "none" <=> status[r] = "none"
          /\ at[r] = "none" => ~aborted[r] /\ r \notin kept
          /\ Acts(r) <=> status[r] \in Busy
      BY <1>0 DEF Paired
    <3> QED BY <3>1, <3>2, <3>3
  <2> QED BY <2>1, <2>2
<1>9. Alone'
  BY <1>6 DEF Alone
<1>10. TypeOK'
  <2>1. Logged({<<n, "start">>}) \subseteq Projects \X (Runs \X Actions)
    BY <1>1, LoggedRows DEF Actions
  <2>2. started' \in 0..MaxRuns /\ kept' \subseteq 1..started'
    <3>1. started' = n /\ kept' \subseteq kept \cup {n}
      BY <1>2
    <3>2. n \in 0..MaxRuns /\ n \in 1..n /\ 1..started \subseteq 1..n
      BY <1>1
    <3> QED BY <1>1, <3>1, <3>2
  <2>3. status' \in [Runs -> {"none", "planning", "running"} \cup Terminal]
        /\ at' \in [Runs -> {"none", "over"} \cup Roles \cup Briefs] /\ home' \in [Runs -> 0..MaxProjects]
    BY <1>1, <1>2 DEF Roles
  <2>4. rows' \subseteq Projects \X (Runs \X Actions)
    BY <1>1, <1>2, <2>1
  <2> QED BY <1>0, <1>2, <2>2, <2>3, <2>4 DEF TypeOK, Actions
<1>11. WithinBudget'
  BY <1>0, <1>2 DEF WithinBudget
<1>12. \A r \in Runs : aborted[r] \/ status[r] \in Terminal => r # n
  BY <1>3 DEF Terminal
<1> QED BY <1>2, <1>5, <1>8, <1>9, <1>10, <1>11, <1>12 DEF MeshInv

\* What a step may do to a run that was stopped or has ended.
Holds(r) ==
  /\ aborted[r] => used'[r] = used[r] /\ at'[r] \in {at[r], "over"}
  /\ status[r] \in Terminal =>
       \/ status'[r] = status[r]
       \/ status[r] = "stopped" /\ status'[r] = "done" /\ at[r] = "reporter"

\* Every step keeps the invariant, and what was stopped or has ended.
LEMMA MeshKeeps == MeshInv /\ [Next]_vars => MeshInv' /\ \A r \in Runs : Holds(r)
<1> SUFFICES ASSUME MeshInv, [Next]_vars PROVE MeshInv' /\ \A r \in Runs : Holds(r)
  OBVIOUS
<1>0. TypeOK /\ Paired /\ Alone /\ WithinBudget
  BY DEF MeshInv
<1>1. CASE UNCHANGED vars
  <2>1. UNCHANGED <<project, opened, started, kept, status, at, round, aborted, home,
                    used, owed, sent, declined, told, report, rows>>
    BY <1>1 DEF vars, place, traffic, words
  <2> QED BY <1>0, <2>1 DEF MeshInv, TypeOK, Paired, Alone, Acts, WithinBudget, Holds
<1>2. CASE OpenProject
  <2>1. /\ project' \in 0..MaxProjects /\ opened' \in 0..MaxProjects
        /\ UNCHANGED <<started, kept, status, at, round, aborted, home,
                       used, owed, sent, declined, told, report, rows>>
    <3>1. opened \in 0..MaxProjects /\ MaxProjects \in Nat
      BY <1>0, MeshAssumption DEF TypeOK
    <3> QED BY <1>2, <3>1 DEF OpenProject, traffic, words
  <2> QED BY <1>0, <2>1 DEF MeshInv, TypeOK, Paired, Alone, Acts, WithinBudget, Holds
<1>3. ASSUME NEW rs \in SUBSET kept, Stopping(rs), project' \in 0..MaxProjects,
             UNCHANGED <<opened, started, kept, at, round, home, traffic, words>>
      PROVE  MeshInv' /\ \A r \in Runs : Holds(r)
  BY <1>3, StoppingKeeps DEF Holds, traffic
<1>4. CASE CloseProject
  <2>1. project' \in 0..MaxProjects
    BY <1>4, MeshAssumption DEF CloseProject
  <2> QED BY <1>3, <1>4, <2>1 DEF CloseProject
<1>5. CASE EmergencyStop
  <2>1. project' \in 0..MaxProjects
    BY <1>0, <1>5 DEF EmergencyStop, TypeOK, place
  <2> QED BY <1>3, <1>5, <2>1 DEF EmergencyStop, place
<1>6. ASSUME NEW r \in Runs, Stop(r) PROVE MeshInv' /\ \A q \in Runs : Holds(q)
  <2>1. project' \in 0..MaxProjects
    BY <1>0, <1>6 DEF Stop, TypeOK, place
  <2> QED BY <1>3, <1>6, <2>1 DEF Stop, place
<1>7. CASE Start
  BY <1>7, StepOfStart DEF Holds
<1>8. ASSUME NEW r \in Runs, TurnEnds(r) \/ TurnThrows(r) \/ Briefed(r)
      PROVE  MeshInv' /\ \A q \in Runs : Holds(q)
  <2>1. Moves(r) /\ Says
    BY <1>8, StepOfExecute
  <2>2. MeshInv'
    BY <2>1, MovesInv
  <2>3. PICK x \in Awaits \cup {"over"}, y \in Busy \cup Terminal : Goes(r, x, y)
    BY <2>1 DEF Moves
  <2>4. \A q \in Runs : /\ at'[q] = (IF q = r THEN x ELSE at[q])
                        /\ status'[q] = (IF q = r THEN y ELSE status[q])
    BY <1>0, <2>3 DEF Goes, TypeOK
  <2>5. UNCHANGED used
    BY <2>1 DEF Moves, traffic
  <2>6. /\ aborted[r] => x = "over"
        /\ status[r] \in Terminal => y = status[r] \/ (status[r] = "stopped" /\ y = "done" /\ at[r] = "reporter")
    BY <2>3 DEF Goes
  <2> QED BY <2>2, <2>4, <2>5, <2>6 DEF Holds
<1>9. ASSUME NEW r \in Runs, (\E cost \in Costs : Call(r, cost)) \/ Send(r) \/ Settle(r)
      PROVE  MeshInv' /\ \A q \in Runs : Holds(q)
  <2>1. /\ MeshInv' /\ UNCHANGED <<at, status>> /\ aborted[r] => UNCHANGED used
        /\ \A q \in Runs : q # r => used'[q] = used[q]
    BY <1>9, StepOfCall
  <2>2. MeshInv' /\ UNCHANGED <<at, status>>
    BY <1>9, StepOfCall
  <2>3. \A q \in Runs : aborted[q] => used'[q] = used[q]
    BY <1>9, StepOfCall
  <2> QED BY <2>2, <2>3 DEF Holds
<1> QED BY <1>1, <1>2, <1>4, <1>5, <1>6, <1>7, <1>8, <1>9 DEF Next

\* The invariant holds in every reachable state.
THEOREM MeshInductive == Spec => []MeshInv
BY MeshStarts, MeshKeeps, PTL DEF Spec

\* Every variable keeps its type.
THEOREM MeshTypes == Spec => []TypeOK
<1>1. MeshInv => TypeOK
  BY DEF MeshInv
<1> QED BY <1>1, MeshInductive, PTL

\* The run that activeRun reports is the one that acts, and there is one at most.
THEOREM OneRunActs == Spec => []ActiveRunActs
<1>1. MeshInv => ActiveRunActs
  <2> SUFFICES ASSUME MeshInv PROVE ActiveRunActs
    OBVIOUS
  <2>1. TypeOK /\ Paired /\ Alone
    BY DEF MeshInv
  <2>2. kept \subseteq Runs
    <3>1. kept \subseteq 1..started /\ started \in 0..MaxRuns /\ MaxRuns \in Nat
      BY <2>1, MeshAssumption DEF TypeOK
    <3> QED BY <3>1 DEF Runs
  <2>3. \A r \in Runs : status[r] \in {"none"} \cup Busy \cup Terminal
    BY <2>1 DEF TypeOK, Busy
  <2>4. \A r \in Runs : r \in kept /\ status[r] \notin Terminal <=> Acts(r)
    BY <2>1, <2>3 DEF Paired, Busy, Terminal
  <2>5. Active = {r \in Executing : ~aborted[r]} /\ \A r \in Active : r \in Runs /\ Acts(r)
    BY <2>2, <2>4 DEF Active, Executing, Acts
  <2> QED BY <2>1, <2>5 DEF ActiveRunActs, Alone
<1> QED BY <1>1, MeshInductive, PTL

\* A run sends no more than it was charged, and is charged no more than its cap.
THEOREM BudgetHolds == Spec => []WithinBudget
<1>1. MeshInv => WithinBudget
  BY DEF MeshInv
<1> QED BY <1>1, MeshInductive, PTL

\* A stopped run is charged nothing more and is given no further turn.
THEOREM StopsHold == Spec => StopHolds
<1>1. MeshInv /\ [Next]_vars =>
        [\A r \in Runs : aborted[r] =>
           /\ used'[r] = used[r]
           /\ at'[r] \in {at[r], "over"}]_vars
  BY MeshKeeps DEF Holds
<1> QED BY <1>1, MeshInductive, PTL DEF Spec, StopHolds

\* An ended run keeps its outcome, but for a reporter's turn that returns after a stop.
THEOREM OutcomesHold == Spec => OutcomeIsFinal
<1>1. MeshInv /\ [Next]_vars =>
        [\A r \in Runs : status[r] \in Terminal =>
           \/ status'[r] = status[r]
           \/ status[r] = "stopped" /\ status'[r] = "done" /\ at[r] = "reporter"]_vars
  BY MeshKeeps DEF Holds
<1> QED BY <1>1, MeshInductive, PTL DEF Spec, OutcomeIsFinal

\* One run acts at a time, and no run spends more than its budget.
THEOREM RunsBounded == Spec => []RunsAreBounded
BY MeshTypes, OneRunActs, BudgetHolds, PTL DEF RunsAreBounded

\* A stop is the end of a run, and an outcome is final.
THEOREM StopsFinal == Spec => StopsAreFinal
BY StopsHold, OutcomesHold, PTL DEF StopsAreFinal

----------------------------------------------------------------------------
(* What a run leaves behind: its report and its rows in the audit log.        *)

\* A run that acts acts in the project it was started in, which is still open; one
\* that was never started was never charged.
Rooted ==
  /\ \A r \in 1..started : home[r] \in Projects /\ (Acts(r) => project = home[r])
  /\ \A r \in Runs : r > started => used[r] = 0

\* The reporter's turn is the last one, and knows of every declined turn before it.
WordedAt(r) ==
  /\ at[r] = "reporter" => declined[r] = told[r]
  /\ report[r] # "none" => at[r] = "over"
  /\ report[r] = "written" => declined[r] = told[r]
  /\ status[r] = "done" => report[r] # "none"

RecordInv ==
  /\ MeshInv /\ Rooted
  /\ \A r \in Runs : WordedAt(r)
  /\ OutcomeIsAudited

\* The initial state satisfies it.
LEMMA RecordStarts == Init => RecordInv
<1> SUFFICES ASSUME Init PROVE RecordInv
  OBVIOUS
<1>1. MeshInv
  BY MeshStarts
<1>2. started = 0 /\ \A r \in Runs : used[r] = 0
  BY DEF Init
<1>3. Rooted /\ OutcomeIsAudited
  BY <1>2 DEF Rooted, OutcomeIsAudited
<1>4. \A r \in Runs : WordedAt(r)
  BY DEF Init, WordedAt
<1> QED BY <1>1, <1>3, <1>4 DEF RecordInv

\* While a project is open every row goes to it.
LEMMA LoggedHere ==
  ASSUME project \in Projects, NEW es, NEW e \in es
  PROVE  <<project, e>> \in Logged(es)
BY DEF Logged, Projects

\* What a step of execute leaves of r: words that fit its end, and a row that says so.
Recorded(r) ==
  /\ WordedAt(r)'
  /\ \A q \in Runs : q # r => /\ at'[q] = at[q] /\ status'[q] = status[q]
                              /\ declined'[q] = declined[q] /\ told'[q] = told[q] /\ report'[q] = report[q]
  /\ rows \subseteq rows'
  /\ ~aborted[r] /\ status'[r] \in Terminal => <<home[r], <<r, status'[r]>>>> \in rows'

\* A run that executes has no report, and has not reported that it is done.
LEMMA Unreported ==
  ASSUME RecordInv, NEW r \in Runs, r \in Executing
  PROVE  /\ report[r] = "none" /\ status[r] # "done"
         /\ r \in 1..started /\ home[r] \in Projects
         /\ ~aborted[r] => project = home[r] /\ status[r] \in Busy /\ r \in kept
<1>0. TypeOK /\ Paired /\ Rooted /\ WordedAt(r)
  BY DEF RecordInv, MeshInv
<1>1. at[r] \notin {"none", "over"}
  BY DEF Executing
<1>2. report[r] = "none" /\ status[r] # "done"
  BY <1>0, <1>1 DEF WordedAt
<1>3. r \in 1..started
  <2>1. ~(r > started) /\ started \in 0..MaxRuns /\ MaxRuns \in Nat
    BY <1>0, <1>1, MeshAssumption DEF Paired, TypeOK
  <2> QED BY <2>1 DEF Runs
<1>4. ~aborted[r] => status[r] \in Busy /\ r \in kept
  BY <1>0, ActsOrEnded
<1>5. home[r] \in Projects /\ (~aborted[r] => project = home[r])
  BY <1>0, <1>1, <1>3 DEF Rooted, Acts
<1> QED BY <1>2, <1>3, <1>4, <1>5

\* An execute that finds its run aborted has nothing to report.
LEMMA GivesUpRecords ==
  ASSUME RecordInv, NEW r \in Runs, r \in Executing, aborted[r], GivesUp(r),
         \A q \in Runs : q # r => declined'[q] = declined[q],
         rows \subseteq rows'
  PROVE  Recorded(r)
<1>1. at' = [at EXCEPT ![r] = "over"] /\ UNCHANGED <<status, told, report>>
  BY DEF GivesUp, Over
<1>2. at \in [Runs -> {"none", "over"} \cup Roles \cup Briefs]
  BY DEF RecordInv, MeshInv, TypeOK
<1>3. at'[r] = "over" /\ \A q \in Runs : q # r => at'[q] = at[q]
  BY <1>1, <1>2
<1>4. report[r] = "none" /\ status[r] # "done"
  BY Unreported
<1>5. WordedAt(r)'
  BY <1>1, <1>3, <1>4 DEF WordedAt
<1> QED BY <1>1, <1>3, <1>5 DEF Recorded

\* A turn that is dispatched: the reporter's, with the declined turns, or another's.
LEMMA DispatchRecords ==
  ASSUME RecordInv, NEW r \in Runs, r \in Executing, ~aborted[r], NEW role \in Roles, Dispatch(r, role),
         role = "reporter" => declined'[r] = told'[r],
         \A q \in Runs : q # r => declined'[q] = declined[q] /\ told'[q] = told[q],
         UNCHANGED report, rows \subseteq rows'
  PROVE  Recorded(r)
<1>1. at \in [Runs -> {"none", "over"} \cup Roles \cup Briefs]
      /\ status \in [Runs -> {"none", "planning", "running"} \cup Terminal]
  BY DEF RecordInv, MeshInv, TypeOK
<1>2. at'[r] = role /\ \A q \in Runs : q # r => at'[q] = at[q]
  BY <1>1 DEF Dispatch
<1>3. status'[r] \in Busy /\ \A q \in Runs : q # r => status'[q] = status[q]
  BY <1>1 DEF Dispatch, Busy
<1>4. status'[r] \notin Terminal /\ status'[r] # "done"
  BY <1>3 DEF Busy, Terminal
<1>5. report'[r] = "none"
  BY Unreported
<1>6. WordedAt(r)'
  BY <1>2, <1>4, <1>5 DEF WordedAt
<1> QED BY <1>2, <1>3, <1>4, <1>6 DEF Recorded

LEMMA LoopRecords ==
  ASSUME RecordInv, NEW r \in Runs, r \in Executing, ~aborted[r], NEW n, NEW b, Loop(r, n, b),
         \A q \in Runs : q # r => declined'[q] = declined[q],
         UNCHANGED report, rows \subseteq rows'
  PROVE  Recorded(r)
<1>1. told \in [Runs -> BOOLEAN]
  BY DEF RecordInv, MeshInv, TypeOK
<1>2. CASE ToReporter(r)
  <2>1. Dispatch(r, "reporter") /\ told' = [told EXCEPT ![r] = declined'[r]]
    BY <1>2 DEF ToReporter
  <2>2. told'[r] = declined'[r] /\ \A q \in Runs : q # r => told'[q] = told[q]
    BY <1>1, <2>1
  <2> QED BY <2>1, <2>2, DispatchRecords DEF Roles
<1>3. CASE Dispatch(r, "attacker") /\ UNCHANGED told
  BY <1>3, DispatchRecords DEF Roles
<1> QED BY <1>2, <1>3 DEF Loop

LEMMA NotesRecord ==
  ASSUME TypeOK, NEW r \in Runs, NEW b \in BOOLEAN, Notes(r, b)
  PROVE  (\A q \in Runs : q # r => declined'[q] = declined[q]) /\ rows \subseteq rows'
<1>1. declined \in [Runs -> BOOLEAN]
  BY DEF TypeOK
<1> QED BY <1>1 DEF Notes

\* A run that ends by itself, in a row of its own project.
LEMMA EndRecords ==
  ASSUME RecordInv, NEW r \in Runs, r \in Executing, Over(r),
         NEW y \in Terminal, status' = [status EXCEPT ![r] = y],
         NEW d \in BOOLEAN, declined' = [declined EXCEPT ![r] = d],
         NEW p \in {"none", "blocked", "written", "not-written"}, report' = [report EXCEPT ![r] = p],
         UNCHANGED told,
         p = "written" => d = told[r],
         y = "done" => p # "none",
         NEW es, rows' = rows \cup Logged(es),
         ~aborted[r] => <<r, y>> \in es
  PROVE  Recorded(r)
<1>1. /\ at \in [Runs -> {"none", "over"} \cup Roles \cup Briefs]
      /\ status \in [Runs -> {"none", "planning", "running"} \cup Terminal]
      /\ declined \in [Runs -> BOOLEAN]
      /\ report \in [Runs -> {"none", "blocked", "written", "not-written"}]
  BY DEF RecordInv, MeshInv, TypeOK
<1>2. at'[r] = "over" /\ status'[r] = y /\ declined'[r] = d /\ report'[r] = p
  BY <1>1 DEF Over
<1>3. \A q \in Runs : q # r => at'[q] = at[q] /\ status'[q] = status[q]
                               /\ declined'[q] = declined[q] /\ report'[q] = report[q]
  BY <1>1 DEF Over
<1>4. WordedAt(r)'
  BY <1>2 DEF WordedAt
<1>5. ~aborted[r] => <<home[r], <<r, y>>>> \in rows'
  <2> SUFFICES ASSUME ~aborted[r] PROVE <<home[r], <<r, y>>>> \in rows'
    OBVIOUS
  <2>1. project = home[r] /\ project \in Projects
    BY Unreported
  <2>2. <<project, <<r, y>>>> \in Logged(es)
    BY <2>1, LoggedHere
  <2> QED BY <2>1, <2>2
<1> QED BY <1>2, <1>3, <1>4, <1>5 DEF Recorded

LEMMA StepRecords ==
  ASSUME RecordInv, NEW r \in Runs, TurnEnds(r) \/ TurnThrows(r) \/ Briefed(r)
  PROVE  Recorded(r)
<1>0. TypeOK /\ Paired /\ WordedAt(r)
  BY DEF RecordInv, MeshInv
<1>1. r \in Executing
  BY DEF TurnEnds, TurnThrows, Briefed, ReconEnds, PlannerEnds, AttackerEnds, AnalystEnds, ReporterEnds,
         TurnOf, Executing, Roles, Briefs
<1>2. /\ declined \in [Runs -> BOOLEAN] /\ told \in [Runs -> BOOLEAN]
      /\ at \in [Runs -> {"none", "over"} \cup Roles \cup Briefs]
      /\ status \in [Runs -> {"none", "planning", "running"} \cup Terminal]
      /\ report \in [Runs -> {"none", "blocked", "written", "not-written"}]
  BY <1>0 DEF TypeOK
<1>3. /\ report[r] = "none" /\ status[r] # "done"
      /\ ~aborted[r] => status[r] \in Busy /\ status[r] \notin Terminal /\ r \in kept
      /\ aborted[r] => status[r] \in Terminal
  BY <1>0, <1>1, Unreported, ActsOrEnded
<1>4. /\ declined = [declined EXCEPT ![r] = declined[r]] /\ declined[r] \in BOOLEAN
      /\ report = [report EXCEPT ![r] = "none"]
      /\ status = [status EXCEPT ![r] = status[r]]
  BY <1>2, <1>3
<1>5. CASE aborted[r] /\ GivesUp(r) /\ UNCHANGED <<declined, rows>>
  BY <1>1, <1>5, GivesUpRecords
<1>6. ASSUME NEW role \in Roles \ {"reporter"}, ~aborted[r], Dispatch(r, role),
             UNCHANGED <<told, report>>,
             \A q \in Runs : q # r => declined'[q] = declined[q], rows \subseteq rows'
      PROVE  Recorded(r)
  BY <1>1, <1>6, DispatchRecords
<1>7. ASSUME ~aborted[r], Notes(r, TRUE), NEW b \in Briefs, at' = [at EXCEPT ![r] = b],
             UNCHANGED <<status, told, report>>
      PROVE  Recorded(r)
  <2>1. at'[r] = b /\ b # "reporter" /\ \A q \in Runs : q # r => at'[q] = at[q]
    BY <1>2, <1>7 DEF Briefs
  <2>2. WordedAt(r)'
    BY <1>3, <1>7, <2>1 DEF WordedAt
  <2>3. (\A q \in Runs : q # r => declined'[q] = declined[q]) /\ rows \subseteq rows'
    BY <1>0, <1>7, NotesRecord
  <2> QED BY <1>3, <1>7, <2>1, <2>2, <2>3 DEF Recorded
<1>8. CASE Briefed(r)
  <2>1. CASE ~aborted[r] /\ Dispatch(r, "planner") /\ UNCHANGED <<words, rows>>
    BY <1>6, <2>1 DEF Roles, words
  <2>2. CASE /\ ~aborted[r] /\ UNCHANGED <<declined, report, rows>>
             /\ \E b \in BOOLEAN : Loop(r, 1, b)
    BY <1>1, <2>2, LoopRecords
  <2> QED BY <1>5, <1>8, <2>1, <2>2 DEF Briefed
<1>9. ASSUME NEW b \in BOOLEAN, NEW c \in BOOLEAN, ReconEnds(r, b, c) PROVE Recorded(r)
  <2>1. CASE ~aborted[r] /\ Notes(r, TRUE) /\ at' = [at EXCEPT ![r] = "recon-brief"]
             /\ UNCHANGED <<status, told, report>>
    BY <1>7, <2>1 DEF Briefs
  <2>2. CASE /\ ~aborted[r] /\ report' = [report EXCEPT ![r] = "blocked"] /\ Finish(r, "done") /\ Over(r)
             /\ UNCHANGED <<declined, told>>
    <3>1. Finishes(r)
      BY <1>3, <2>2 DEF Finishes, Terminal, Busy
    <3>2. status' = [status EXCEPT ![r] = "done"] /\ rows' = rows \cup Logged({<<r, "done">>})
      BY <2>2, <3>1 DEF Finish
    <3>3. declined' = [declined EXCEPT ![r] = declined[r]]
      BY <1>4, <2>2
    <3>4. "done" \in Terminal
      BY DEF Terminal
    <3> QED BY <1>1, <1>4, <2>2, <3>2, <3>3, <3>4, EndRecords
  <2>3. CASE ~aborted[r] /\ Dispatch(r, "planner") /\ UNCHANGED <<words, rows>>
    BY <1>6, <2>3 DEF Roles, words
  <2> QED BY <1>5, <1>9, <2>1, <2>2, <2>3 DEF ReconEnds
<1>10. ASSUME NEW b \in BOOLEAN, NEW c \in BOOLEAN, PlannerEnds(r, b, c) PROVE Recorded(r)
  <2>1. CASE ~aborted[r] /\ Notes(r, TRUE) /\ at' = [at EXCEPT ![r] = "planner-brief"]
             /\ UNCHANGED <<status, told, report>>
    BY <1>7, <2>1 DEF Briefs
  <2>2. CASE ~aborted[r] /\ Notes(r, FALSE) /\ Loop(r, 1, c) /\ UNCHANGED report
    <3>1. (\A q \in Runs : q # r => declined'[q] = declined[q]) /\ rows \subseteq rows'
      BY <1>0, <2>2, NotesRecord
    <3> QED BY <1>1, <2>2, <3>1, LoopRecords
  <2> QED BY <1>5, <1>10, <2>1, <2>2 DEF PlannerEnds
<1>11. ASSUME NEW b \in BOOLEAN, AttackerEnds(r, b) PROVE Recorded(r)
  <2>1. CASE ~aborted[r] /\ Notes(r, b) /\ Dispatch(r, "analyst") /\ UNCHANGED <<told, report>>
    <3>1. (\A q \in Runs : q # r => declined'[q] = declined[q]) /\ rows \subseteq rows'
      BY <1>0, <2>1, NotesRecord
    <3> QED BY <1>6, <2>1, <3>1 DEF Roles
  <2> QED BY <1>5, <1>11, <2>1 DEF AttackerEnds
<1>12. ASSUME NEW b \in BOOLEAN, NEW d \in BOOLEAN, NEW c \in BOOLEAN, AnalystEnds(r, b, d, c)
       PROVE  Recorded(r)
  <2>1. (\A q \in Runs : q # r => declined'[q] = declined[q]) /\ rows \subseteq rows'
    BY <1>0, <1>12, NotesRecord DEF AnalystEnds
  <2>2. CASE aborted[r] /\ GivesUp(r)
    BY <1>1, <2>1, <2>2, GivesUpRecords
  <2>3. CASE ~aborted[r] /\ ToReporter(r) /\ UNCHANGED report
    <3>1. Dispatch(r, "reporter") /\ told' = [told EXCEPT ![r] = declined'[r]]
      BY <2>3 DEF ToReporter
    <3>2. told'[r] = declined'[r] /\ \A q \in Runs : q # r => told'[q] = told[q]
      BY <1>2, <3>1
    <3> QED BY <1>1, <2>1, <2>3, <3>1, <3>2, DispatchRecords DEF Roles
  <2>4. CASE ~aborted[r] /\ Loop(r, round[r] + 1, c) /\ UNCHANGED report
    BY <1>1, <2>1, <2>4, LoopRecords
  <2> QED BY <1>12, <2>2, <2>3, <2>4 DEF AnalystEnds
<1>13. ASSUME NEW b \in BOOLEAN, ReporterEnds(r, b) PROVE Recorded(r)
  <2> DEFINE y == IF Finishes(r) THEN "done" ELSE status[r]
             d == declined[r] \/ b
             p == IF b THEN "not-written" ELSE "written"
             es == (IF b THEN {<<r, "refused">>} ELSE {}) \cup (IF Finishes(r) THEN {<<r, "done">>} ELSE {})
  <2>1. /\ at[r] = "reporter" /\ Over(r) /\ status' = [status EXCEPT ![r] = y]
        /\ declined' = [declined EXCEPT ![r] = d] /\ report' = [report EXCEPT ![r] = p]
        /\ rows' = rows \cup Logged(es) /\ UNCHANGED told
    BY <1>13 DEF ReporterEnds, TurnOf
  <2>2. y \in Terminal /\ (~aborted[r] => <<r, y>> \in es)
    <3>1. CASE Finishes(r)
      BY <3>1 DEF Terminal
    <3>2. CASE ~Finishes(r)
      BY <1>3, <3>2 DEF Finishes, Terminal, Busy
    <3> QED BY <3>1, <3>2
  <2>3. /\ d \in BOOLEAN /\ p \in {"none", "blocked", "written", "not-written"} /\ p # "none"
        /\ p = "written" => d = told[r]
    <3>1. declined[r] = told[r] /\ declined[r] \in BOOLEAN
      BY <1>0, <1>2, <2>1 DEF WordedAt
    <3> QED BY <3>1
  <2> HIDE DEF y, d, p, es
  <2> QED BY <1>1, <2>1, <2>2, <2>3, EndRecords
<1>14. CASE TurnThrows(r)
  <2>1. Over(r) /\ UNCHANGED words
    BY <1>14 DEF TurnThrows
  <2>2. CASE aborted[r]
    <3>1. Finish(r, "stopped")
      BY <1>14, <2>2 DEF TurnThrows
    <3>2. rows \subseteq rows'
      BY <3>1 DEF Finish
    <3>3. status' = status
      <4>1. Finishes(r) => status[r] = "stopped"
        BY <1>3, <2>2 DEF Finishes, Terminal
      <4> QED BY <1>4, <3>1, <4>1 DEF Finish
    <3>4. GivesUp(r)
      BY <1>14, <2>1, <3>3 DEF GivesUp, words, TurnThrows
    <3> QED BY <1>1, <2>1, <2>2, <3>2, <3>4, GivesUpRecords DEF words
  <2>3. CASE ~aborted[r]
    <3>1. status' = [status EXCEPT ![r] = "error"] /\ rows' = rows \cup Logged({<<r, "error">>})
      BY <1>14, <2>3 DEF TurnThrows
    <3>2. declined' = [declined EXCEPT ![r] = declined[r]] /\ report' = [report EXCEPT ![r] = "none"]
          /\ told' = told
      BY <1>4, <2>1 DEF words
    <3>3. "error" \in Terminal
      BY DEF Terminal
    <3> QED BY <1>1, <1>4, <2>1, <3>1, <3>2, <3>3, EndRecords
  <2> QED BY <2>2, <2>3
<1> QED BY <1>8, <1>9, <1>10, <1>11, <1>12, <1>13, <1>14 DEF TurnEnds

\* The row of a run that says so.
Logs(r, a) == <<home[r], <<r, a>>>> \in rows

\* A step that opens no run keeps the log true, when what it adds to a run is logged.
LEMMA AuditKeeps ==
  ASSUME RecordInv, UNCHANGED <<started, home>>, rows \subseteq rows',
         \A r \in Runs : Acts(r)' => Acts(r) /\ project' = project,
         \A r \in 1..started : used'[r] > 0 => used[r] > 0 \/ Logs(r, "request")',
         \A r \in Runs : r > started => used'[r] = used[r],
         \A r \in 1..started : status'[r] \in Terminal \/ aborted'[r] =>
           status[r] \in Terminal \/ \E s \in Terminal : Logs(r, s)'
  PROVE  Rooted' /\ OutcomeIsAudited'
<1>0. MeshInv /\ Rooted /\ OutcomeIsAudited
  BY DEF RecordInv
<1>1. 1..started \subseteq Runs
  <2>1. started \in 0..MaxRuns /\ MaxRuns \in Nat
    BY <1>0, MeshAssumption DEF MeshInv, TypeOK
  <2> QED BY <2>1 DEF Runs
<1>2. Rooted'
  BY <1>0, <1>1 DEF Rooted
<1>3. \A r \in 1..started : status[r] \in Terminal => \E s \in Terminal : Logs(r, s)'
  BY <1>0 DEF OutcomeIsAudited, Logs
<1>4. \A r \in 1..started : status'[r] \in Terminal \/ aborted'[r] => \E s \in Terminal : Logs(r, s)'
  BY <1>3
<1>5. \A r \in 1..started : Logs(r, "start")' /\ (used'[r] > 0 => Logs(r, "request")')
  BY <1>0 DEF OutcomeIsAudited, Logs
<1>6. OutcomeIsAudited'
  BY <1>4, <1>5 DEF OutcomeIsAudited, Logs, Terminal
<1> QED BY <1>2, <1>6

\* A stopped run was running in the open project, or had ended before.
LEMMA StoppingRecords ==
  ASSUME RecordInv, NEW rs \in SUBSET kept, Stopping(rs),
         UNCHANGED <<opened, started, kept, at, round, home, traffic, words>>,
         \A r \in Runs : Acts(r)' => project' = project
  PROVE  Rooted' /\ OutcomeIsAudited' /\ \A r \in Runs : WordedAt(r)'
<1>0. TypeOK /\ Paired /\ Rooted
  BY DEF RecordInv, MeshInv
<1>1. /\ status \in [Runs -> {"none", "planning", "running"} \cup Terminal] /\ aborted \in [Runs -> BOOLEAN]
      /\ 1..started \subseteq Runs
  <2>1. started \in 0..MaxRuns /\ MaxRuns \in Nat
    BY <1>0, MeshAssumption DEF TypeOK
  <2>2. 1..started \subseteq Runs
    BY <2>1 DEF Runs
  <2> QED BY <1>0, <2>2 DEF TypeOK
<1>2. /\ \A r \in Runs : /\ aborted'[r] = (aborted[r] \/ r \in rs)
                         /\ status'[r] = (IF r \in rs /\ Finishes(r) THEN "stopped" ELSE status[r])
      /\ rows' = rows \cup Logged({<<r, "stopped">> : r \in {q \in rs : Finishes(q)}})
  BY DEF Stopping
<1>3. \A r \in Runs : Acts(r)' => Acts(r)
  BY <1>2 DEF Acts
<1>4. ASSUME NEW r \in 1..started, status'[r] \in Terminal \/ aborted'[r]
      PROVE  status[r] \in Terminal \/ \E s \in Terminal : Logs(r, s)'
  <2>1. r \in Runs /\ (Acts(r) <=> status[r] \in Busy) /\ (status[r] # "none") /\ (aborted[r] => ~Acts(r))
    <3>1. r \in Runs /\ ~(r > started) /\ started \in Nat
      BY <1>0, <1>1 DEF TypeOK
    <3> QED BY <1>0, <3>1 DEF Paired, Acts
  <2>2. status[r] \in {"none"} \cup Busy \cup Terminal
    BY <1>1, <2>1 DEF Busy
  <2>3. CASE Acts(r) /\ r \in rs
    <3>1. Finishes(r)
      BY <1>0, <2>1, <2>3 DEF Finishes, Busy, Paired
    <3>2. project = home[r] /\ project \in Projects
      BY <1>0, <2>3 DEF Rooted
    <3>3. <<r, "stopped">> \in {<<q, "stopped">> : q \in {q \in rs : Finishes(q)}}
      BY <2>3, <3>1
    <3>4. <<project, <<r, "stopped">>>> \in rows'
      BY <1>2, <3>2, <3>3, LoggedHere
    <3>5. Logs(r, "stopped")'
      BY <3>2, <3>4 DEF Logs
    <3> QED BY <3>5 DEF Terminal
  <2>4. CASE r \notin rs
    BY <1>2, <1>4, <2>1, <2>2, <2>4 DEF Busy, Terminal
  <2>5. CASE ~Acts(r)
    BY <2>1, <2>2, <2>5
  <2> QED BY <2>3, <2>4, <2>5
<1>5. UNCHANGED used
  BY DEF traffic
<1>6. \A r \in Runs : Acts(r)' => Acts(r) /\ project' = project
  BY <1>3
<1>7. rows \subseteq rows'
  BY <1>2
<1>8. \A r \in 1..started : used'[r] > 0 => used[r] > 0 \/ Logs(r, "request")'
  BY <1>5
<1>9. Rooted' /\ OutcomeIsAudited'
  BY <1>4, <1>5, <1>6, <1>7, <1>8, AuditKeeps
<1>10. ASSUME NEW r \in Runs PROVE WordedAt(r)'
  <2>1. WordedAt(r) /\ UNCHANGED <<at, declined, told, report>>
    BY DEF RecordInv, words
  <2>2. status'[r] = "done" => status[r] = "done"
    BY <1>2
  <2> QED BY <2>1, <2>2 DEF WordedAt
<1> QED BY <1>9, <1>10

\* A new run is logged where it starts, and was never charged.
LEMMA StartRecords ==
  ASSUME RecordInv, Start
  PROVE  Rooted' /\ OutcomeIsAudited' /\ \A r \in Runs : WordedAt(r)'
<1> DEFINE n == started + 1
<1>0. TypeOK /\ Paired /\ Rooted /\ OutcomeIsAudited /\ MeshInv
  BY DEF RecordInv, MeshInv
<1>1. /\ started \in Nat /\ started < MaxRuns /\ MaxRuns \in Nat /\ n \in Runs
      /\ project \in Projects
      /\ status \in [Runs -> {"none", "planning", "running"} \cup Terminal]
      /\ at \in [Runs -> {"none", "over"} \cup Roles \cup Briefs]
      /\ home \in [Runs -> 0..MaxProjects]
  <2>1. started \in 0..MaxRuns /\ started < MaxRuns /\ MaxRuns \in Nat
        /\ project \in 0..MaxProjects /\ project # 0 /\ MaxProjects \in Nat
    BY <1>0, MeshAssumption DEF TypeOK, Start
  <2>2. n \in Runs /\ project \in Projects
    BY <2>1 DEF Runs, Projects
  <2> QED BY <1>0, <2>1, <2>2 DEF TypeOK
<1>2. /\ started' = n
      /\ status' = [status EXCEPT ![n] = "planning"] /\ at' = [at EXCEPT ![n] = "recon"]
      /\ home' = [home EXCEPT ![n] = project] /\ rows' = rows \cup Logged({<<n, "start">>})
      /\ UNCHANGED <<project, aborted, used, declined, told, report>>
      /\ Active = {}
  BY DEF Start, place, traffic, words
<1>3. at[n] = "none" /\ status[n] = "none" /\ ~aborted[n] /\ used[n] = 0
  BY <1>0, <1>1 DEF Paired, Rooted
<1>4. /\ home'[n] = project /\ status'[n] = "planning" /\ at'[n] = "recon"
      /\ \A r \in Runs : r # n => home'[r] = home[r] /\ status'[r] = status[r] /\ at'[r] = at[r]
  BY <1>1, <1>2
<1>5. \A r \in 1..started' : r \in Runs /\ (r = n \/ (r \in 1..started /\ r # n))
  BY <1>1, <1>2 DEF Runs
<1>6. \A r \in Runs : r # n => ~Acts(r)'
  <2> SUFFICES ASSUME NEW r \in Runs, r # n, Acts(r)' PROVE FALSE
    OBVIOUS
  <2>1. Acts(r)
    BY <1>2, <1>4 DEF Acts
  <2>2. r \in kept /\ status[r] \in Busy
    BY <1>0, <2>1 DEF Paired
  <2>3. r \in Active
    BY <2>2 DEF Active, Busy, Terminal
  <2> QED BY <1>2, <2>3
<1>7. Rooted'
  <2>1. \A r \in 1..started' : home'[r] \in Projects /\ (Acts(r)' => project' = home'[r])
    BY <1>0, <1>1, <1>2, <1>4, <1>5, <1>6 DEF Rooted
  <2>2. \A r \in Runs : r > started' => used'[r] = 0
    BY <1>0, <1>1, <1>2 DEF Rooted, Runs
  <2> QED BY <2>1, <2>2 DEF Rooted
<1>8. OutcomeIsAudited'
  <2>1. <<project, <<n, "start">>>> \in rows'
    <3>1. <<project, <<n, "start">>>> \in Logged({<<n, "start">>})
      BY <1>1, LoggedHere
    <3> QED BY <1>2, <3>1
  <2>2. status'[n] \notin Terminal /\ ~aborted'[n] /\ used'[n] = 0 /\ <<home'[n], <<n, "start">>>> \in rows'
    BY <1>2, <1>3, <1>4, <2>1 DEF Terminal
  <2>3. rows \subseteq rows'
    BY <1>2
  <2>4. ASSUME NEW r \in 1..started'
        PROVE  /\ <<home'[r], <<r, "start">>>> \in rows'
               /\ used'[r] > 0 => <<home'[r], <<r, "request">>>> \in rows'
               /\ status'[r] \in Terminal => \E s \in Terminal : <<home'[r], <<r, s>>>> \in rows'
               /\ aborted'[r] /\ <<home'[r], <<r, "done">>>> \notin rows' /\ <<home'[r], <<r, "error">>>> \notin rows'
                    => <<home'[r], <<r, "stopped">>>> \in rows'
    <3>1. CASE r = n
      BY <2>2, <3>1
    <3>2. CASE r # n
      <4>1. home'[r] = home[r] /\ status'[r] = status[r] /\ used'[r] = used[r] /\ (aborted'[r] <=> aborted[r])
            /\ r \in 1..started
        BY <1>2, <1>4, <1>5, <3>2
      <4>2. /\ <<home[r], <<r, "start">>>> \in rows
            /\ used[r] > 0 => <<home[r], <<r, "request">>>> \in rows
            /\ status[r] \in Terminal => \E s \in Terminal : <<home[r], <<r, s>>>> \in rows
            /\ aborted[r] /\ <<home[r], <<r, "done">>>> \notin rows /\ <<home[r], <<r, "error">>>> \notin rows
                 => <<home[r], <<r, "stopped">>>> \in rows
        BY <1>0, <4>1 DEF OutcomeIsAudited
      <4>3. <<home'[r], <<r, "start">>>> \in rows' /\ (used'[r] > 0 => <<home'[r], <<r, "request">>>> \in rows')
        BY <2>3, <4>1, <4>2
      <4>4. status'[r] \in Terminal => \E s \in Terminal : <<home'[r], <<r, s>>>> \in rows'
        BY <2>3, <4>1, <4>2
      <4>5. aborted'[r] /\ <<home'[r], <<r, "done">>>> \notin rows' /\ <<home'[r], <<r, "error">>>> \notin rows'
              => <<home'[r], <<r, "stopped">>>> \in rows'
        BY <2>3, <4>1, <4>2
      <4> QED BY <4>3, <4>4, <4>5
    <3> QED BY <3>1, <3>2
  <2> QED BY <2>4 DEF OutcomeIsAudited
<1>9. ASSUME NEW r \in Runs PROVE WordedAt(r)'
  <2>1. WordedAt(r) /\ UNCHANGED <<declined, told, report>>
    BY <1>2 DEF RecordInv
  <2>2. CASE r = n
    BY <1>3, <1>4, <2>1, <2>2 DEF WordedAt
  <2>3. CASE r # n
    BY <1>4, <2>1, <2>3 DEF WordedAt
  <2> QED BY <2>2, <2>3
<1> QED BY <1>7, <1>8, <1>9

LEMMA RecordKeeps == RecordInv /\ [Next]_vars => RecordInv'
<1> SUFFICES ASSUME RecordInv, [Next]_vars PROVE RecordInv'
  OBVIOUS
<1>0. TypeOK /\ Paired /\ Rooted /\ OutcomeIsAudited /\ MeshInv
  BY DEF RecordInv, MeshInv
<1>1. MeshInv'
  BY <1>0, MeshKeeps
<1>2. 1..started \subseteq Runs
  <2>1. started \in 0..MaxRuns /\ MaxRuns \in Nat
    BY <1>0, MeshAssumption DEF TypeOK
  <2> QED BY <2>1 DEF Runs
<1>3. ASSUME Rooted', OutcomeIsAudited', \A r \in Runs : WordedAt(r)' PROVE RecordInv'
  BY <1>1, <1>3 DEF RecordInv
<1>4. CASE UNCHANGED vars
  <2>1. UNCHANGED <<project, started, status, at, aborted, home, used, declined, told, report, rows>>
    BY <1>4 DEF vars, place, traffic, words
  <2>2. Rooted' /\ OutcomeIsAudited'
    BY <1>0, <2>1 DEF Rooted, OutcomeIsAudited, Acts
  <2>3. \A r \in Runs : WordedAt(r)'
    BY <2>1 DEF RecordInv, WordedAt
  <2> QED BY <1>3, <2>2, <2>3
<1>5. CASE OpenProject
  <2>1. UNCHANGED <<started, status, at, aborted, home, used, declined, told, report, rows>> /\ project = 0
    BY <1>5 DEF OpenProject, traffic, words
  <2>2. \A r \in Runs : ~Acts(r)
    <3> SUFFICES ASSUME NEW r \in Runs, Acts(r) PROVE FALSE
      OBVIOUS
    <3>1. r \in 1..started
      <4>1. ~(r > started) /\ started \in 0..MaxRuns /\ MaxRuns \in Nat
        BY <1>0, MeshAssumption DEF Paired, TypeOK, Acts
      <4> QED BY <4>1 DEF Runs
    <3> QED BY <1>0, <2>1, <3>1 DEF Rooted, Projects
  <2>3. Rooted' /\ OutcomeIsAudited'
    <3>1. \A r \in Runs : ~Acts(r)'
      BY <2>1, <2>2 DEF Acts
    <3> QED BY <1>0, <1>2, <2>1, <3>1 DEF Rooted, OutcomeIsAudited
  <2>4. \A r \in Runs : WordedAt(r)'
    BY <2>1 DEF RecordInv, WordedAt
  <2> QED BY <1>3, <2>3, <2>4
<1>6. CASE CloseProject
  <2>1. Stopping(kept) /\ UNCHANGED <<opened, started, kept, at, round, home, traffic, words>>
    BY <1>6 DEF CloseProject
  <2>2. \A r \in Runs : ~Acts(r)'
    <3>1. \A r \in Runs : aborted'[r] = (aborted[r] \/ r \in kept)
      BY <2>1 DEF Stopping
    <3> QED BY <1>0, <2>1, <3>1 DEF Acts, Paired
  <2> QED BY <1>3, <2>1, <2>2, StoppingRecords
<1>7. CASE EmergencyStop
  <2>1. Stopping(kept) /\ UNCHANGED <<opened, started, kept, at, round, home, traffic, words>>
        /\ project' = project
    BY <1>7 DEF EmergencyStop, place
  <2> QED BY <1>3, <2>1, StoppingRecords
<1>8. ASSUME NEW r \in Runs, Stop(r) PROVE RecordInv'
  <2>1. Stopping({r}) /\ UNCHANGED <<opened, started, kept, at, round, home, traffic, words>>
        /\ project' = project /\ {r} \in SUBSET kept
    BY <1>8 DEF Stop, place
  <2> QED BY <1>3, <2>1, StoppingRecords
<1>9. CASE Start
  BY <1>3, <1>9, StartRecords
<1>10. ASSUME NEW r \in Runs, TurnEnds(r) \/ TurnThrows(r) \/ Briefed(r) PROVE RecordInv'
  <2>1. Moves(r) /\ Recorded(r)
    BY <1>0, <1>10, StepOfExecute, StepRecords
  <2>2. UNCHANGED <<project, started, aborted, home, used>> /\ r \in Executing
    BY <2>1 DEF Moves, place, traffic
  <2>3. \A q \in Runs : Acts(q)' => Acts(q)
    BY <2>1, <2>2 DEF Recorded, Acts, Executing
  <2>4. ASSUME NEW q \in 1..started, status'[q] \in Terminal \/ aborted'[q]
        PROVE  status[q] \in Terminal \/ \E s \in Terminal : Logs(q, s)'
    <3>1. q \in Runs /\ (aborted[q] => status[q] \in Terminal)
      <4>1. q \in Runs /\ ~(q > started) /\ started \in Nat
        BY <1>0, <1>2 DEF TypeOK
      <4>2. status[q] \in {"none"} \cup Busy \cup Terminal
        BY <1>0, <4>1 DEF TypeOK, Busy
      <4> QED BY <1>0, <4>1, <4>2 DEF Paired, Acts
    <3>2. CASE aborted[q]
      BY <3>1, <3>2
    <3>3. CASE ~aborted[q] /\ q = r
      BY <2>1, <2>2, <2>4, <3>3 DEF Recorded, Logs
    <3>4. CASE ~aborted[q] /\ q # r
      BY <2>1, <2>2, <2>4, <3>1, <3>4 DEF Recorded
    <3> QED BY <3>2, <3>3, <3>4
  <2>5. Rooted' /\ OutcomeIsAudited'
    <3>1. rows \subseteq rows'
      BY <2>1 DEF Recorded
    <3>2. \A q \in Runs : Acts(q)' => Acts(q) /\ project' = project
      BY <2>2, <2>3
    <3>3. \A q \in 1..started : used'[q] > 0 => used[q] > 0 \/ Logs(q, "request")'
      BY <2>2
    <3> QED BY <2>2, <2>4, <3>1, <3>2, <3>3, AuditKeeps
  <2>6. ASSUME NEW q \in Runs PROVE WordedAt(q)'
    <3>1. CASE q = r
      BY <2>1, <3>1 DEF Recorded
    <3>2. CASE q # r
      BY <2>1, <3>2 DEF Recorded, RecordInv, WordedAt
    <3> QED BY <3>1, <3>2
  <2> QED BY <1>3, <2>5, <2>6
<1>11. ASSUME NEW r \in Runs, (\E cost \in Costs : Call(r, cost)) \/ Send(r) \/ Settle(r) PROVE RecordInv'
  <2>1. UNCHANGED <<project, started, status, at, aborted, home, declined, told, report>>
    BY <1>11 DEF Call, Send, Settle, place, words
  <2>2. \A q \in Runs : Acts(q)' => Acts(q) /\ project' = project
    BY <2>1 DEF Acts
  <2>3. \/ used' = used /\ rows' = rows
        \/ /\ Acts(r) /\ r \in kept /\ (\A q \in Runs : q # r => used'[q] = used[q])
           /\ rows' = rows \cup Logged({<<r, "request">>})
    <3>1. ASSUME NEW cost \in Costs, Call(r, cost)
          PROVE  /\ Acts(r) /\ r \in kept /\ (\A q \in Runs : q # r => used'[q] = used[q])
                 /\ rows' = rows \cup Logged({<<r, "request">>})
      <4>1. used \in [Runs -> Nat]
        BY <1>0 DEF TypeOK
      <4> QED BY <3>1, <4>1 DEF Call, Acts
    <3>2. Send(r) \/ Settle(r) => used' = used /\ rows' = rows
      BY DEF Send, Settle
    <3> QED BY <1>11, <3>1, <3>2
  <2>4. CASE used' = used /\ rows' = rows
    <3>1. Rooted' /\ OutcomeIsAudited'
      BY <1>0, <2>1, <2>4 DEF Rooted, OutcomeIsAudited, Acts
    <3>2. \A q \in Runs : WordedAt(q)'
      BY <2>1 DEF RecordInv, WordedAt
    <3> QED BY <1>3, <3>1, <3>2
  <2>5. CASE /\ Acts(r) /\ r \in kept /\ (\A q \in Runs : q # r => used'[q] = used[q])
             /\ rows' = rows \cup Logged({<<r, "request">>})
    <3>1. r \in 1..started
      BY <1>0, <2>5 DEF TypeOK
    <3>2. project = home[r] /\ project \in Projects
      BY <1>0, <2>5, <3>1 DEF Rooted
    <3>3. <<project, <<r, "request">>>> \in Logged({<<r, "request">>})
      BY <3>2, LoggedHere
    <3>4. Logs(r, "request")'
      BY <2>1, <2>5, <3>2, <3>3 DEF Logs
    <3>5. \A q \in 1..started : used'[q] > 0 => used[q] > 0 \/ Logs(q, "request")'
      BY <1>2, <2>5, <3>4
    <3>6. \A q \in Runs : q > started => used'[q] = used[q]
      <4>1. started \in Nat
        BY <1>0 DEF TypeOK
      <4> QED BY <2>5, <3>1, <4>1 DEF Runs
    <3>7. \A q \in 1..started : status'[q] \in Terminal \/ aborted'[q] => status[q] \in Terminal
      <4> SUFFICES ASSUME NEW q \in 1..started, aborted[q] PROVE status[q] \in Terminal
        BY <2>1
      <4>1. q \in Runs /\ ~(q > started)
        BY <1>0, <1>2 DEF TypeOK
      <4>2. status[q] \in {"none"} \cup Busy \cup Terminal
        BY <1>0, <4>1 DEF TypeOK, Busy
      <4> QED BY <1>0, <4>1, <4>2 DEF Paired, Acts
    <3>8. rows \subseteq rows'
      BY <2>5
    <3>9. Rooted' /\ OutcomeIsAudited'
      BY <2>1, <2>2, <3>5, <3>6, <3>7, <3>8, AuditKeeps
    <3>10. \A q \in Runs : WordedAt(q)'
      BY <2>1 DEF RecordInv, WordedAt
    <3> QED BY <1>3, <3>9, <3>10
  <2> QED BY <2>3, <2>4, <2>5
<1> QED BY <1>4, <1>5, <1>6, <1>7, <1>8, <1>9, <1>10, <1>11 DEF Next

\* The record invariant holds in every reachable state.
THEOREM RecordInductive == Spec => []RecordInv
BY RecordStarts, RecordKeeps, PTL DEF Spec

\* A written report was asked for with every declined turn told, a run that is done has
\* something to show, and the start, the requests and the end of a run are in the audit
\* log of its own project (meshOrchestrator.ts).
THEOREM RecordsAreTrue == Spec => []RecordIsTrue
<1>1. RecordInv => RecordIsTrue
  BY DEF RecordInv, RecordIsTrue, DeclinesAreTold, WordedAt
<1> QED BY <1>1, RecordInductive, PTL

=============================================================================

-------------------------- MODULE MeshOrchestrator --------------------------
(***************************************************************************)
(* MeshOrchestrator: runs of the AI mesh, one at a time, through the turns *)
(* of recon, planner, attacker, analyst and reporter; the tool calls the   *)
(* attacker's turn charges to the run's budget; stop, emergency stop and   *)
(* the close of the project while a turn, a briefing or a tool call is     *)
(* under way; and what each of them leaves in the audit log.               *)
(*                                                                         *)
(* The provider is external: a turn returns or throws, also after an abort *)
(* (the last tool calls of a turn are followed by no request to abort),    *)
(* and not before its tool calls have settled.                             *)
(***************************************************************************)
EXTENDS Naturals, FiniteSets

CONSTANTS
  MaxRuns,     \* bound: runs started; a run is its number
  MaxProjects, \* bound: projects opened in turn; 0 stands for none
  MaxRetained, \* MAX_RETAINED_RUNS
  MaxRounds,   \* MAX_ROUNDS of attack and analysis
  Cap,         \* maxActiveRequestsPerRun
  Costs        \* requests a tool call may launch

ASSUME MeshAssumption ==
  /\ MaxRuns \in Nat /\ MaxProjects \in Nat /\ MaxRetained \in Nat \ {0}
  /\ MaxRounds \in Nat \ {0} /\ Cap \in Nat
  /\ Costs \subseteq Nat \ {0}

VARIABLES
  project,   \* the project that is open, 0 when there is none
  opened,    \* projects opened so far
  started,   \* runs started so far
  kept,      \* the runs in this.runs
  status,    \* progress.status
  at,        \* at[r]: the await execute is suspended in, or "none" or "over"
  round,     \* round[r]: of the attack loop
  aborted,   \* aborted[r]: the signal of its controller
  home,      \* home[r]: the project it was started in
  used,      \* progress.activeRequests
  owed,      \* owed[r]: requests of dispatched tool calls that may still be sent
  sent,      \* sent[r]: requests that were
  declined,  \* declined[r]: the model declined a turn
  told,      \* told[r]: the reporter was told of declined turns
  report,    \* report[r]: what state.report holds
  rows       \* audit rows: <<project, run, action>>

place   == <<project, opened>>
words   == <<declined, told, report>>
traffic == <<used, owed, sent>>
vars    == <<place, started, kept, status, at, round, aborted, home, traffic, words, rows>>

Runs     == 1..MaxRuns
Projects == 1..MaxProjects
Roles    == {"recon", "planner", "attacker", "analyst", "reporter"}
Briefs   == {"recon-brief", "planner-brief"}
Terminal == {"done", "error", "stopped"}

Executing == {r \in Runs : at[r] \notin {"none", "over"}}

\* activeRun: the kept run whose status is not terminal.
Active == {r \in kept : status[r] \notin Terminal}

Init ==
  /\ project = 0 /\ opened = 0
  /\ started = 0 /\ kept = {}
  /\ status = [r \in Runs |-> "none"]
  /\ at = [r \in Runs |-> "none"]
  /\ round = [r \in Runs |-> 0]
  /\ aborted = [r \in Runs |-> FALSE]
  /\ home = [r \in Runs |-> 0]
  /\ used = [r \in Runs |-> 0]
  /\ owed = [r \in Runs |-> 0]
  /\ sent = [r \in Runs |-> 0]
  /\ declined = [r \in Runs |-> FALSE]
  /\ told = [r \in Runs |-> FALSE]
  /\ report = [r \in Runs |-> "none"]
  /\ rows = {}

\* The audit callback: the row goes to the project that is open now, if one is.
Logged(entries) == IF project = 0 THEN {} ELSE {project} \X entries

----------------------------------------------------------------------------
(* Ends of a run *)

\* finish: the first done or error stays; a run that is no longer kept is left alone.
Finishes(r) == r \in kept /\ status[r] \notin {"done", "error"}

Finish(r, s) ==
  IF Finishes(r)
  THEN status' = [status EXCEPT ![r] = s] /\ rows' = rows \cup Logged({<<r, s>>})
  ELSE UNCHANGED <<status, rows>>

Over(r) == at' = [at EXCEPT ![r] = "over"]

\* An execute that finds its run aborted returns and leaves the status as it is.
GivesUp(r) ==
  /\ Over(r)
  /\ UNCHANGED <<place, started, kept, status, round, aborted, home, traffic, told, report>>

----------------------------------------------------------------------------
(* Turns *)

\* runRole: the next role's turn is dispatched.
Dispatch(r, role) ==
  /\ at' = [at EXCEPT ![r] = role]
  /\ status' = [status EXCEPT ![r] = IF role \in {"recon", "planner"} THEN "planning" ELSE "running"]

\* noteRefusal
Notes(r, refused) ==
  /\ declined' = [declined EXCEPT ![r] = @ \/ refused]
  /\ rows' = IF refused THEN rows \cup Logged({<<r, "refused">>}) ELSE rows

\* Mutant: the reporter is dispatched as it was before declined turns were counted.
ToReporterUntold(r) ==
  /\ Dispatch(r, "reporter")
  /\ UNCHANGED <<told, round>>

ToReporter(r) ==
  /\ Dispatch(r, "reporter")
  /\ told' = [told EXCEPT ![r] = declined'[r]]
  /\ UNCHANGED round

\* Mutant: the rounds are not counted.
LoopUnbounded(r, n, outOfTokens) ==
  IF outOfTokens \/ used[r] >= Cap
  THEN ToReporter(r)
  ELSE Dispatch(r, "attacker") /\ UNCHANGED <<round, told>>

\* The head of the attack loop.
Loop(r, n, outOfTokens) ==
  IF n > MaxRounds \/ outOfTokens \/ used[r] >= Cap
  THEN ToReporter(r)
  ELSE Dispatch(r, "attacker") /\ round' = [round EXCEPT ![r] = n] /\ UNCHANGED told

\* The role's turn of r is over, every tool call of it settled.
TurnOf(r, role) == at[r] = role /\ owed[r] = 0

\* Mutant: the engine's briefing is built without looking at the signal afterwards.
BriefedUnchecked(r) ==
  \/ /\ at[r] = "recon-brief"
     /\ Dispatch(r, "planner")
     /\ UNCHANGED <<place, started, kept, round, aborted, home, traffic, words, rows>>
  \/ /\ at[r] = "planner-brief"
     /\ UNCHANGED <<place, started, kept, aborted, home, traffic, declined, report, rows>>
     /\ \E outOfTokens \in BOOLEAN : Loop(r, 1, outOfTokens)

\* engineBriefing has been awaited in place of a declined turn.
Briefed(r) ==
  \/ /\ at[r] \in Briefs /\ aborted[r]
     /\ GivesUp(r)
     /\ UNCHANGED <<declined, rows>>
  \/ /\ at[r] = "recon-brief" /\ ~aborted[r]
     /\ Dispatch(r, "planner")
     /\ UNCHANGED <<place, started, kept, round, aborted, home, traffic, words, rows>>
  \/ /\ at[r] = "planner-brief" /\ ~aborted[r]
     /\ UNCHANGED <<place, started, kept, aborted, home, traffic, declined, report, rows>>
     /\ \E outOfTokens \in BOOLEAN : Loop(r, 1, outOfTokens)

ReconEnds(r, refused, blocked) ==
  /\ TurnOf(r, "recon")
  /\ \/ /\ aborted[r]
        /\ GivesUp(r)
        /\ UNCHANGED <<declined, rows>>
     \/ /\ ~aborted[r] /\ refused
        /\ Notes(r, TRUE)
        /\ at' = [at EXCEPT ![r] = "recon-brief"]
        /\ UNCHANGED <<place, started, kept, status, round, aborted, home, traffic, told, report>>
     \/ /\ ~aborted[r] /\ ~refused /\ blocked
        /\ report' = [report EXCEPT ![r] = "blocked"]
        /\ Finish(r, "done")
        /\ Over(r)
        /\ UNCHANGED <<place, started, kept, round, aborted, home, traffic, declined, told>>
     \/ /\ ~aborted[r] /\ ~refused /\ ~blocked
        /\ Dispatch(r, "planner")
        /\ UNCHANGED <<place, started, kept, round, aborted, home, traffic, words, rows>>

PlannerEnds(r, refused, outOfTokens) ==
  /\ TurnOf(r, "planner")
  /\ \/ /\ aborted[r]
        /\ GivesUp(r)
        /\ UNCHANGED <<declined, rows>>
     \/ /\ ~aborted[r] /\ refused
        /\ Notes(r, TRUE)
        /\ at' = [at EXCEPT ![r] = "planner-brief"]
        /\ UNCHANGED <<place, started, kept, status, round, aborted, home, traffic, told, report>>
     \/ /\ ~aborted[r] /\ ~refused
        /\ Notes(r, FALSE)
        /\ Loop(r, 1, outOfTokens)
        /\ UNCHANGED <<place, started, kept, aborted, home, traffic, report>>

AttackerEnds(r, refused) ==
  /\ TurnOf(r, "attacker")
  /\ \/ /\ aborted[r]
        /\ GivesUp(r)
        /\ UNCHANGED <<declined, rows>>
     \/ /\ ~aborted[r]
        /\ Notes(r, refused)
        /\ Dispatch(r, "analyst")
        /\ UNCHANGED <<place, started, kept, round, aborted, home, traffic, told, report>>

\* A declined turn of the analyst is noted whether the run was stopped or not.
AnalystEnds(r, refused, done, outOfTokens) ==
  /\ TurnOf(r, "analyst")
  /\ Notes(r, refused)
  /\ \/ /\ aborted[r]
        /\ GivesUp(r)
     \/ /\ ~aborted[r]
        /\ IF done /\ ~refused THEN ToReporter(r) ELSE Loop(r, round[r] + 1, outOfTokens)
        /\ UNCHANGED <<place, started, kept, aborted, home, traffic, report>>

\* The reporter's turn is not followed by a look at the signal.
ReporterEnds(r, refused) ==
  /\ TurnOf(r, "reporter")
  /\ declined' = [declined EXCEPT ![r] = @ \/ refused]
  /\ report' = [report EXCEPT ![r] = IF refused THEN "not-written" ELSE "written"]
  /\ status' = [status EXCEPT ![r] = IF Finishes(r) THEN "done" ELSE @]
  /\ rows' = rows \cup Logged((IF refused THEN {<<r, "refused">>} ELSE {})
                              \cup (IF Finishes(r) THEN {<<r, "done">>} ELSE {}))
  /\ Over(r)
  /\ UNCHANGED <<place, started, kept, round, aborted, home, traffic, told>>

\* The provider throws: an aborted run ends stopped, any other in error.
TurnThrows(r) ==
  /\ \E role \in Roles : TurnOf(r, role)
  /\ IF aborted[r]
     THEN Finish(r, "stopped")
     ELSE /\ status' = [status EXCEPT ![r] = "error"]
          /\ rows' = rows \cup Logged({<<r, "error">>})
  /\ Over(r)
  /\ UNCHANGED <<place, started, kept, round, aborted, home, traffic, words>>

TurnEnds(r) ==
  \E refused, other, outOfTokens \in BOOLEAN :
    \/ ReconEnds(r, refused, other)
    \/ PlannerEnds(r, refused, outOfTokens)
    \/ AttackerEnds(r, refused)
    \/ AnalystEnds(r, refused, other, outOfTokens)
    \/ ReporterEnds(r, refused)

----------------------------------------------------------------------------
(* Tool calls of the attacker *)

\* wrapActive: a call that launches requests, of a run that was not stopped, within
\* its budget.  A turn may have several outstanding.  Others are answered with an
\* error and change nothing.
Call(r, cost) ==
  /\ at[r] = "attacker"
  /\ r \in kept /\ ~aborted[r]
  /\ used[r] + cost <= Cap
  /\ used' = [used EXCEPT ![r] = @ + cost]
  /\ owed' = [owed EXCEPT ![r] = @ + cost]
  /\ rows' = rows \cup Logged({<<r, "request">>})
  /\ UNCHANGED <<place, started, kept, status, at, round, aborted, home, sent, words>>

\* A dispatched call sends, also after a stop, or settles for less than its charge
\* (out of scope, a job that was stopped or is of a closed project).
Send(r) ==
  /\ owed[r] > 0
  /\ owed' = [owed EXCEPT ![r] = @ - 1]
  /\ sent' = [sent EXCEPT ![r] = @ + 1]
  /\ UNCHANGED <<place, started, kept, status, at, round, aborted, home, used, words, rows>>

Settle(r) ==
  /\ owed[r] > 0
  /\ owed' = [owed EXCEPT ![r] = 0]
  /\ UNCHANGED <<place, started, kept, status, at, round, aborted, home, used, sent, words, rows>>

----------------------------------------------------------------------------
(* The operator *)

\* prune: the oldest ended runs, as many as there are too many of.
Evicted(all) ==
  LET ended == {r \in all : status[r] \in Terminal}
  IN  {r \in ended : Cardinality({q \in ended : q <= r}) <= Cardinality(all) - MaxRetained}

\* Mutant: a second run may start beside the first.
StartBeside ==
  LET r == started + 1
  IN  /\ project # 0 /\ started < MaxRuns
      /\ started' = r
      /\ kept' = (kept \cup {r}) \ Evicted(kept \cup {r})
      /\ status' = [status EXCEPT ![r] = "planning"]
      /\ at' = [at EXCEPT ![r] = "recon"]
      /\ home' = [home EXCEPT ![r] = project]
      /\ rows' = rows \cup Logged({<<r, "start">>})
      /\ UNCHANGED <<place, round, aborted, traffic, words>>

\* start, in a project whose configuration and scope allow it: recon's turn is
\* dispatched in the same turn of the event loop.
Start ==
  LET r == started + 1
  IN  /\ project # 0 /\ started < MaxRuns
      /\ Active = {}
      /\ started' = r
      /\ kept' = (kept \cup {r}) \ Evicted(kept \cup {r})
      /\ status' = [status EXCEPT ![r] = "planning"]
      /\ at' = [at EXCEPT ![r] = "recon"]
      /\ home' = [home EXCEPT ![r] = project]
      /\ rows' = rows \cup Logged({<<r, "start">>})
      /\ UNCHANGED <<place, round, aborted, traffic, words>>

\* stop, of one run or of every kept one.
Stopping(rs) ==
  /\ aborted' = [r \in Runs |-> aborted[r] \/ r \in rs]
  /\ status' = [r \in Runs |-> IF r \in rs /\ Finishes(r) THEN "stopped" ELSE status[r]]
  /\ rows' = rows \cup Logged({<<r, "stopped">> : r \in {q \in rs : Finishes(q)}})

Stop(r) ==
  /\ r \in kept
  /\ Stopping({r})
  /\ UNCHANGED <<place, started, kept, at, round, home, traffic, words>>

\* The mesh's part of an emergency stop.
EmergencyStop ==
  /\ Stopping(kept)
  /\ UNCHANGED <<place, started, kept, at, round, home, traffic, words>>

\* The mesh's part of closeProject, and the next project.
CloseProject ==
  /\ project # 0
  /\ Stopping(kept)
  /\ project' = 0
  /\ UNCHANGED <<opened, started, kept, at, round, home, traffic, words>>

OpenProject ==
  /\ project = 0 /\ opened < MaxProjects
  /\ opened' = opened + 1
  /\ project' = opened + 1
  /\ UNCHANGED <<started, kept, status, at, round, aborted, home, traffic, words, rows>>

----------------------------------------------------------------------------
Next ==
  \/ OpenProject \/ CloseProject \/ Start \/ EmergencyStop
  \/ \E r \in Runs :
       \/ Stop(r)
       \/ TurnEnds(r) \/ TurnThrows(r) \/ Briefed(r)
       \/ \E cost \in Costs : Call(r, cost)
       \/ Send(r) \/ Settle(r)

Spec == Init /\ [][Next]_vars

\* Turns end (their tool calls are capped, their requests time out), briefings are
\* built, dispatched calls settle.  The operator owes nothing.
Fairness ==
  \A r \in Runs :
    WF_vars(TurnEnds(r) \/ TurnThrows(r)) /\ WF_vars(Briefed(r)) /\ WF_vars(Settle(r))

FairSpec == Spec /\ Fairness

----------------------------------------------------------------------------
\* Every variable has the type of what it stands for.
TypeOK ==
  /\ project \in 0..MaxProjects /\ opened \in 0..MaxProjects
  /\ started \in 0..MaxRuns /\ kept \subseteq 1..started
  /\ status \in [Runs -> {"none", "planning", "running"} \cup Terminal]
  /\ at \in [Runs -> {"none", "over"} \cup Roles \cup Briefs]
  /\ round \in [Runs -> 0..MaxRounds]
  /\ aborted \in [Runs -> BOOLEAN]
  /\ home \in [Runs -> 0..MaxProjects]
  /\ used \in [Runs -> Nat] /\ owed \in [Runs -> Nat] /\ sent \in [Runs -> Nat]
  /\ declined \in [Runs -> BOOLEAN] /\ told \in [Runs -> BOOLEAN]
  /\ report \in [Runs -> {"none", "blocked", "written", "not-written"}]
  /\ rows \subseteq Projects \X (Runs \X ({"start", "request", "refused"} \cup Terminal))

\* What the UI and the guard of start call the active run is exactly the run that
\* still acts: executing, and not stopped.  There is one at most.
ActiveRunActs ==
  /\ Active = {r \in Executing : ~aborted[r]}
  /\ \A r, q \in Active : r = q

\* However many calls a turn has outstanding, a run sends no more than it was charged
\* and is charged no more than its cap.
WithinBudget == \A r \in Runs : sent[r] + owed[r] <= used[r] /\ used[r] <= Cap

\* A written report was asked for with the declined turns of the run on the table, and
\* a run that is done has something to show, if only that there is no report.
DeclinesAreTold ==
  \A r \in Runs :
    /\ report[r] = "written" => declined[r] = told[r]
    /\ status[r] = "done" => report[r] # "none"

\* The start of a run, the fact that it sent anything, and its end are in the audit log
\* of its own project, whatever was closed or opened since.
OutcomeIsAudited ==
  \A r \in 1..started :
    LET logged(a) == <<home[r], <<r, a>>>> \in rows
    IN  /\ logged("start")
        /\ used[r] > 0 => logged("request")
        /\ status[r] \in Terminal => \E s \in Terminal : logged(s)
        /\ aborted[r] /\ ~logged("done") /\ ~logged("error") => logged("stopped")

\* A row of a run goes to the audit log of its own project.
AuditIsOwn == \A row \in rows : row[1] = home[row[2][1]]

\* A stopped run is charged nothing more and is given no further turn.
StopHolds ==
  [][\A r \in Runs : aborted[r] =>
       /\ used'[r] = used[r]
       /\ at'[r] \in {at[r], "over"}]_vars

\* An ended run keeps its outcome, but for a reporter's turn that returns after a stop.
OutcomeIsFinal ==
  [][\A r \in Runs : status[r] \in Terminal =>
       \/ status'[r] = status[r]
       \/ status[r] = "stopped" /\ status'[r] = "done" /\ at[r] = "reporter"]_vars

\* Every run that starts ends.
RunsEnd == \A r \in Runs : r \in Executing ~> r \notin Executing

\* One run acts, and within what it may spend.
RunsAreBounded == TypeOK /\ ActiveRunActs /\ WithinBudget

\* The report and the audit log say what became of a run.
RecordIsTrue == DeclinesAreTold /\ OutcomeIsAudited

\* A stopped run begins nothing more, neither a tool call nor a turn, and an ended one
\* keeps its outcome, but for the reporter's turn that returns after the stop.
StopsAreFinal == StopHolds /\ OutcomeIsFinal

=============================================================================

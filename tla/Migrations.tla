------------------------------- MODULE Migrations -------------------------------
(* Opening the database of a project (database.ts, migrations.ts): each        *)
(* migration in a transaction of its own, with crashes anywhere, builds of     *)
(* different age, and two instances of the application at once.                *)
(*                                                                             *)
(* A migration is the set of tables it creates.  Migration v makes version v.  *)
EXTENDS Integers, FiniteSets, Sequences

CONSTANTS
    Processes,
    MIGRATIONS,     \* a sequence of sets of tables
    MaxOpens        \* bound of the model on the opens of each process

\* No table is created by two migrations, and none of them creates nothing.
ASSUME MigrationsAssumption ==
    /\ MIGRATIONS \in Seq(SUBSET UNION {MIGRATIONS[v] : v \in DOMAIN MIGRATIONS})
    /\ \A v, w \in DOMAIN MIGRATIONS : MIGRATIONS[v] # {} /\ (v # w => MIGRATIONS[v] \cap MIGRATIONS[w] = {})
    /\ "nobody" \notin Processes /\ MaxOpens \in Nat

VARIABLES
    saved,          \* the database file: [version, tables], as last committed
    work,           \* work[p]: the same as p's open transaction has it
    lock,           \* who is in a transaction, Nobody
    proc            \* proc[p]: [at, knows, current, next, opens, raced]

schemaVars == <<saved, work, lock, proc>>

Nobody == "nobody"
Down(p) == [proc[p] EXCEPT !.at = "down"]

SchemaTypeOK ==
    /\ saved \in [version : 0..Len(MIGRATIONS), tables : SUBSET UNION {MIGRATIONS[v] : v \in DOMAIN MIGRATIONS}]
    /\ lock \in Processes \cup {Nobody}
    /\ \A p \in Processes : proc[p].at \in {"down", "read", "loop", "changing", "versioned", "open", "refused"}

\* The process starts with a build that knows so many migrations.
Open(p, knows) ==
    /\ proc[p].at = "down" /\ proc[p].opens < MaxOpens
    /\ proc' = [proc EXCEPT ![p] = [at |-> "read", knows |-> knows, current |-> 0, next |-> 1,
                                    opens |-> proc[p].opens + 1, raced |-> FALSE]]
    /\ UNCHANGED <<saved, work, lock>>

\* getUserVersion, once, before any transaction.
ReadVersion(p) ==
    /\ proc[p].at = "read"
    /\ proc' = [proc EXCEPT ![p].at = "loop", ![p].current = saved.version]
    /\ UNCHANGED <<saved, work, lock>>

\* What the version says was applied is skipped.
Skip(p) ==
    /\ proc[p].at = "loop" /\ proc[p].next <= proc[p].knows /\ proc[p].next <= proc[p].current
    /\ proc' = [proc EXCEPT ![p].next = @ + 1]
    /\ UNCHANGED <<saved, work, lock>>

\* BEGIN IMMEDIATE, which fails while another process has the file.
Begin(p) ==
    /\ proc[p].at = "loop" /\ proc[p].next <= proc[p].knows /\ proc[p].next > proc[p].current
    /\ IF lock = Nobody
       THEN lock' = p /\ work' = [work EXCEPT ![p] = saved] /\ proc' = [proc EXCEPT ![p].at = "changing"]
       ELSE proc' = [proc EXCEPT ![p].at = "refused", ![p].raced = TRUE] /\ UNCHANGED <<work, lock>>
    /\ UNCHANGED saved

\* CREATE TABLE throws when the table is there: ROLLBACK, and the open fails.
Up(p) ==
    /\ proc[p].at = "changing"
    /\ LET new == MIGRATIONS[proc[p].next]
       IN IF new \cap work[p].tables = {}
          THEN /\ work' = [work EXCEPT ![p].tables = @ \cup new, ![p].version = proc[p].next]
               /\ proc' = [proc EXCEPT ![p].at = "versioned"]
               /\ UNCHANGED lock
          ELSE proc' = [proc EXCEPT ![p].at = "refused"] /\ lock' = Nobody /\ UNCHANGED work
    /\ UNCHANGED saved

\* The version set after the COMMIT, in a step of its own.
CommitThenVersion(p) ==
    /\ proc[p].at = "versioned"
    /\ IF saved.tables = work[p].tables
       THEN /\ saved' = work[p] /\ lock' = Nobody
            /\ proc' = [q \in Processes |->
                           IF q = p THEN [proc[p] EXCEPT !.at = "loop", !.next = @ + 1]
                           ELSE [proc[q] EXCEPT !.raced = TRUE]]
       ELSE saved' = [saved EXCEPT !.tables = work[p].tables] /\ UNCHANGED <<lock, proc>>
    /\ UNCHANGED work

\* COMMIT makes the tables and the version those of the file at once.
Commit(p) ==
    /\ proc[p].at = "versioned"
    /\ saved' = work[p] /\ lock' = Nobody
    /\ proc' = [q \in Processes |->
                   IF q = p THEN [proc[p] EXCEPT !.at = "loop", !.next = @ + 1]
                   ELSE [proc[q] EXCEPT !.raced = TRUE]]
    /\ UNCHANGED work

Opened(p) ==
    /\ proc[p].at = "loop" /\ proc[p].next > proc[p].knows
    /\ proc' = [proc EXCEPT ![p].at = "open"]
    /\ UNCHANGED <<saved, work, lock>>

\* The process ends, or dies wherever it is; the journal undoes its transaction.
Exit(p) ==
    /\ proc[p].at # "down"
    /\ proc' = [proc EXCEPT ![p] = Down(p)]
    /\ lock' = IF lock = p THEN Nobody ELSE lock
    /\ UNCHANGED <<saved, work>>

SchemaInit ==
    /\ saved = [version |-> 0, tables |-> {}] /\ lock = Nobody
    /\ work = [p \in Processes |-> saved]
    /\ proc = [p \in Processes |-> [at |-> "down", knows |-> 0, current |-> 0, next |-> 1, opens |-> 0, raced |-> FALSE]]

SchemaNext ==
    \E p \in Processes :
        \/ \E k \in DOMAIN MIGRATIONS : Open(p, k)
        \/ ReadVersion(p) \/ Skip(p) \/ Begin(p) \/ Up(p) \/ Commit(p) \/ Opened(p) \/ Exit(p)

SchemaSpec == SchemaInit /\ [][SchemaNext]_schemaVars

-----------------------------------------------------------------------------
\* The file is at all times that of one version: its tables are those of the
\* migrations up to it, whatever crashed in between (migrations.ts:178).
FileIsOfOneVersion == saved.tables = UNION {MIGRATIONS[v] : v \in 1..saved.version}

\* An open that found nobody else at work is not refused: no crash leaves tables
\* that the next open would create once more.
LoneOpenSucceeds ==
    \A p \in Processes : proc[p].at = "refused" => proc[p].raced

\* A process that has the project open finds every table its build uses.
OpenMeansCurrent ==
    \A p \in Processes : proc[p].at = "open" => saved.version >= proc[p].knows

\* A project's database is whole for whoever opens it (database.ts:36-43,
\* migrations.ts:169-189).
SchemaCorrect == SchemaTypeOK /\ FileIsOfOneVersion /\ LoneOpenSucceeds /\ OpenMeansCurrent
=============================================================================

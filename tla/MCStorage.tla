------------------------------ MODULE MCStorage ------------------------------
(* What a project keeps on disk and what outlives it: bodies and their blobs, *)
(* the database and its rows, and the memory of earlier hunts.  A behavior is *)
(* of one part; the others stay in their initial state.                       *)
EXTENDS BlobStore, Records, HuntMemory, Migrations, TLC

VARIABLE part

storageVars == <<blobVars, recordsVars, huntVars, schemaVars, part>>

(* Two exchanges of two hosts, the second the younger one, pages of one row. *)

TwoHosts  == [e \in Ex |-> IF e = 1 THEN "h1" ELSE "h2"]
SomeRules == {[key |-> "", host |-> "h1"], [key |-> "", host |-> ""]}

MCOutcome(host, segment, outcome, note) ==
    [host |-> host, path |-> <<"orders", segment>>, klass |-> "access", outcome |-> outcome, note |-> note]
MCOutcomes == <<MCOutcome("h", "7", "refuted", <<"w", "head", "tail">>), MCOutcome("g", "8", "confirmed", <<>>),
                MCOutcome("h", "8", "refuted", <<"w">>)>>
MCProgramOf == [p \in Engagements |-> IF p = "p" THEN "acme" ELSE ""]
MCSymmetry == Permutations(Calls)
MCNameOf == [p \in Engagements |-> p]

MCMigrations == <<{"exchanges", "jobs"}, {"ws"}>>

StorageInit ==
    /\ part \in {"blobs", "records", "memory", "schema"}
    /\ BlobInit /\ RecordsInit /\ HuntInit /\ SchemaInit

BlobStep    == part = "blobs" /\ BlobNext /\ UNCHANGED <<recordsVars, huntVars, schemaVars, part>>
RecordsStep == part = "records" /\ RecordsNext /\ UNCHANGED <<blobVars, huntVars, schemaVars, part>>
MemoryStep  == part = "memory" /\ HuntNext /\ UNCHANGED <<blobVars, recordsVars, schemaVars, part>>
SchemaStep  == part = "schema" /\ SchemaNext /\ UNCHANGED <<blobVars, recordsVars, huntVars, part>>

StorageSpec == StorageInit /\ [][BlobStep \/ RecordsStep \/ MemoryStep \/ SchemaStep]_storageVars
==============================================================================

------------------------------ MODULE Migrations ------------------------------
(***************************************************************************)
(* Migrations: runMigrations (cmd/migrate), which may run more than once at *)
(* a time, and EnsureMigrationsApplied (internal/db/migration_guard.go),    *)
(* by which the server refuses to start on another schema.                  *)
(***************************************************************************)
EXTENDS Integers, Sequences, Functions

CONSTANTS
    Migrator,   \* processes that run "migrate up"
    Last        \* versions are 1..Last, in the order of their file names

VARIABLES
    schema,     \* the versions whose statements have been committed, in order
    recorded,   \* the rows of schema_migrations
    mig,        \* what each migrator is doing, and at which version
    serving     \* whether the server has started

vars == <<schema, recorded, mig, serving>>

Versions == 1..Last

Idle == [pc |-> "idle", at |-> 0]

Init ==
    /\ schema = <<>>
    /\ recorded = {}
    /\ mig = [m \in Migrator |-> Idle]
    /\ serving = FALSE

At(m, pc) == mig[m].pc = pc
Goto(m, pc) == mig' = [mig EXCEPT ![m].pc = pc]

(* The next file, or the end.                                               *)
Advance(m) == mig' = [mig EXCEPT ![m] = IF @.at = Last THEN Idle
                                        ELSE [pc |-> "check", at |-> @.at + 1]]

-----------------------------------------------------------------------------
(* CREATE TABLE IF NOT EXISTS schema_migrations.                            *)
Start(m) ==
    /\ At(m, "idle")
    /\ mig' = [mig EXCEPT ![m] = [pc |-> "check", at |-> 1]]
    /\ UNCHANGED <<schema, recorded, serving>>

CheckVersion(m) ==
    /\ At(m, "check")
    /\ IF mig[m].at \in recorded THEN Advance(m) ELSE Goto(m, "apply")
    /\ UNCHANGED <<schema, recorded, serving>>

(* The file's statements, in a transaction.                                 *)
ApplyBody(m) ==
    /\ At(m, "apply")
    /\ Goto(m, "record")
    /\ UNCHANGED <<schema, recorded, serving>>

(* Not the code: the row's version is not a primary key.                    *)
BugNoKey(m) ==
    /\ At(m, "record")
    /\ Goto(m, "commit")
    /\ UNCHANGED <<schema, recorded, serving>>

(* INSERT waits for a transaction that has inserted this version, and fails *)
(* when it is there.                                                        *)
InsertVersion(m) ==
    /\ At(m, "record")
    /\ \A n \in Migrator : ~(At(n, "commit") /\ mig[n].at = mig[m].at)
    /\ IF mig[m].at \in recorded THEN mig' = [mig EXCEPT ![m] = Idle] ELSE Goto(m, "commit")
    /\ UNCHANGED <<schema, recorded, serving>>

(* The answer to the commit may be lost, which ends the migrator.           *)
Commit(m) ==
    /\ At(m, "commit")
    /\ schema' = Append(schema, mig[m].at)
    /\ recorded' = recorded \cup {mig[m].at}
    /\ Advance(m) \/ mig' = [mig EXCEPT ![m] = Idle]
    /\ UNCHANGED serving

(* An error or the end of the process; its transaction is rolled back.      *)
Exit(m) ==
    /\ ~At(m, "idle")
    /\ mig' = [mig EXCEPT ![m] = Idle]
    /\ UNCHANGED <<schema, recorded, serving>>

StartServer ==
    /\ ~serving
    /\ Versions \subseteq recorded
    /\ serving' = TRUE
    /\ UNCHANGED <<schema, recorded, mig>>

StopServer ==
    /\ serving
    /\ serving' = FALSE
    /\ UNCHANGED <<schema, recorded, mig>>

Migrate(m) ==
    \/ Start(m) \/ CheckVersion(m) \/ ApplyBody(m) \/ InsertVersion(m) \/ Commit(m) \/ Exit(m)

Next == (\E m \in Migrator : Migrate(m)) \/ StartServer \/ StopServer

Spec == Init /\ [][Next]_vars

-----------------------------------------------------------------------------
(* Properties.                                                              *)

(* The shape of every variable; only known versions are recorded.           *)
TypeOK ==
    /\ schema \in Seq(Versions)
    /\ recorded \subseteq Versions
    /\ mig \in [Migrator -> [pc : {"idle", "check", "apply", "record", "commit"}, at : 0..Last]]
    /\ serving \in BOOLEAN

(* Whatever runs at once and breaks off, the schema is that of the first    *)
(* versions, each applied once and in order, and the table says so; a       *)
(* server that serves has them all.                                         *)
SchemaInOrder ==
    /\ schema = [i \in 1..Len(schema) |-> i]
    /\ recorded = Range(schema)
    /\ serving => Len(schema) = Last
=============================================================================

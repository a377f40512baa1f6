----------------------------- MODULE Deployment -----------------------------
(***************************************************************************)
(* Bringing the database up: the migration runner                          *)
(* (packages/db/src/migrate.ts) and the seed of the administrator          *)
(* (packages/db/src/seed.ts), each a process of its own that may run beside *)
(* another one of its kind and may be killed at any point.                 *)
(*                                                                         *)
(* A step is what SQLite does at once: a query, or a transaction.          *)
(***************************************************************************)
EXTENDS Schema, Integers

CONSTANTS
    Runner,     \* the migrate processes
    Seeder      \* the seed processes, which all seed the same name

VARIABLES
    db,        \* the tables of the database
    journal,   \* __migrations: the files recorded
    runner,    \* each migrate process: the file it is at
    admins,    \* the rows of users with the administrator's name
    seeder     \* each seed process

deployVars == <<db, journal, runner, admins, seeder>>

Deployed == \A r \in Runner : runner[r].pc = "done"

\* A row is there, whoever is still to try: a seed that starts later finds it.
Seeded ==
    /\ \E s \in Seeder : seeder[s] = "done"
    /\ \A s \in Seeder : seeder[s] \in {"hashing", "done"}

InitDeployment ==
    /\ db = EmptyDb /\ journal = {}
    /\ runner = [r \in Runner |-> [pc |-> "looking", file |-> 1]]
    /\ admins = {} /\ seeder = [s \in Seeder |-> "looking"]

-----------------------------------------------------------------------------
(* runMigrations.                                                          *)

\* Mutant: one file too far.
NextFilePast(r) ==
    IF runner[r].file > Len(Files)
    THEN [pc |-> "done", file |-> Len(Files)]
    ELSE [pc |-> "looking", file |-> runner[r].file + 1]

NextFile(r) ==
    IF runner[r].file = Len(Files)
    THEN [pc |-> "done", file |-> Len(Files)]
    ELSE [pc |-> "looking", file |-> runner[r].file + 1]

\* Is the file recorded?
LookUp(r) ==
    /\ runner[r].pc = "looking"
    /\ runner' = [runner EXCEPT ![r] =
         IF runner[r].file \in journal THEN NextFile(r) ELSE [@ EXCEPT !.pc = "new"]]
    /\ UNCHANGED <<db, journal, admins, seeder>>

\* Mutant: the file is run and recorded by two transactions, and a process may
\* be killed between them.
ApplyThenRecord(r) ==
    LET n == runner[r].file
    IN  /\ db' = After(db, Files[n], Len(Files[n]))
        /\ \/ journal' = journal \cup {n} /\ runner' = [runner EXCEPT ![r] = NextFile(r)]
           \/ journal' = journal /\ runner' = [runner EXCEPT ![r].pc = "failed"]

\* One transaction runs the file's statements and records it.
ApplyFile(r) ==
    LET n == runner[r].file
    IN  /\ db' = After(db, Files[n], Len(Files[n]))
        /\ journal' = journal \cup {n}
        /\ runner' = [runner EXCEPT ![r] = NextFile(r)]

\* The transaction is rolled back, and the process ends with an error: a
\* statement fails, or the row of __migrations is there by now, or the other
\* process holds the lock.
ApplyFails(r) ==
    /\ runner' = [runner EXCEPT ![r].pc = "failed"]
    /\ UNCHANGED <<db, journal>>

Migrate(r) ==
    LET n == runner[r].file
        possible == FileRuns(db, Files[n]) /\ n \notin journal
        contended == \E q \in Runner \ {r} : runner[q].pc = "new"
    IN  /\ runner[r].pc = "new"
        /\ \/ possible /\ ApplyFile(r)
           \/ (~ possible \/ contended) /\ ApplyFails(r)
        /\ UNCHANGED <<admins, seeder>>

\* The process is killed, or failed, and is started again.
RestartRunner(r) ==
    /\ runner[r].pc # "done"
    /\ runner' = [runner EXCEPT ![r] = [pc |-> "looking", file |-> 1]]
    /\ UNCHANGED <<db, journal, admins, seeder>>

-----------------------------------------------------------------------------
(* seedAdmin.                                                              *)

\* The lookup: without the table the process ends with an error.
SeedLookUp(s) ==
    /\ seeder[s] \in {"looking", "failed"}
    /\ seeder' = [seeder EXCEPT ![s] =
         IF "users" \notin DOMAIN db.tables THEN "failed"
         ELSE IF admins # {} THEN "done" ELSE "hashing"]
    /\ UNCHANGED <<db, journal, runner, admins>>

\* Mutant: nothing keeps a name from being inserted twice.
SeedTwice(s) == admins' = admins \cup {s}

\* INSERT OR IGNORE: the UNIQUE key on the name keeps the row there is.
SeedRow(s) ==
    admins' = IF admins # {} /\ <<"users", {"username"}>> \in db.uniques
              THEN admins ELSE admins \cup {s}

\* After the password was hashed.
SeedInsert(s) ==
    /\ seeder[s] = "hashing"
    /\ SeedRow(s)
    /\ seeder' = [seeder EXCEPT ![s] = "done"]
    /\ UNCHANGED <<db, journal, runner>>

-----------------------------------------------------------------------------
NextDeployment ==
    \/ \E r \in Runner : LookUp(r) \/ Migrate(r) \/ RestartRunner(r)
    \/ \E s \in Seeder : SeedLookUp(s) \/ SeedInsert(s)

DeploymentTypeOK ==
    /\ journal \subseteq DOMAIN Files
    /\ runner \in [Runner -> [pc : {"looking", "new", "failed", "done"},
                              file : DOMAIN Files]]
    /\ admins \subseteq Seeder
    /\ seeder \in [Seeder -> {"looking", "hashing", "failed", "done"}]

\* The files recorded are the first of the list, and the tables are exactly what
\* these build, whichever process was killed where or ran beside another
\* (runMigrations: each file and its record in one transaction).
MigratedWhole ==
    \E n \in 0 .. Len(Files) : journal = 1 .. n /\ db = SchemaAfter[n]

\* A database on which the runner has ended has the tables, columns and foreign
\* keys the code declares, and at least its UNIQUE keys (migrations, schema.ts).
SchemaMatchesCode ==
    (\E r \in Runner : runner[r].pc = "done") =>
        /\ db.tables = DrizzleTables
        /\ db.refs = DrizzleRefs
        /\ DrizzleUniques \subseteq db.uniques

=============================================================================

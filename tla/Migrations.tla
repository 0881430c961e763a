----------------------------- MODULE Migrations -----------------------------
(***************************************************************************)
(* run_migrations of wkdmgr-core/src/storage.rs: bringing a database up to *)
(* date at the start of wkdmgr-mgmt, one transaction per migration, with   *)
(* starts that overlap, fail or die anywhere.  MIGRATIONS is empty in this *)
(* release; the mechanism is modelled for any number of them.  As in the   *)
(* comment of run_migrations, a migration adds one column, so that running *)
(* it on a database that has the column already is an error.               *)
(***************************************************************************)
EXTENDS Integers, FiniteSets

CONSTANTS
  Starters,   \* processes that start and may be started again
  N,          \* MIGRATIONS.len()
  None

ASSUME NType         == N \in Nat
ASSUME NoneNoStarter == None \notin Starters

VARIABLES version,  \* PRAGMA user_version, committed
          columns,  \* the migrations whose column is in the committed schema
          proc,     \* each process: its next statement and the migration it is at
          writing   \* the process whose transaction holds the write lock

migVars == <<version, columns, proc, writing>>

\* at: the number of migrations this process takes to be applied, as far as the
\* one its loop is at.
Down == [pc |-> "down", at |-> 0]

\* The database is of any age: fresh, behind, or written by a newer release.  A
\* negative version is one somebody set by hand; no column goes with it.
MigInit ==
  /\ version \in -1..(N + 1)
  /\ columns = 1..version
  /\ proc = [p \in Starters |-> Down]
  /\ writing = None

Step(p, pc) == proc' = [proc EXCEPT ![p].pc = pc]

\* open_writable, up to the SCHEMA batch.
Start(p) ==
  /\ proc[p].pc = "down"
  /\ Step(p, "read")
  /\ UNCHANGED <<version, columns, writing>>

\* let current = user_version.max(0), read outside of any transaction.
Applied == IF version < 0 THEN 0 ELSE version

ReadVersion(p) ==
  /\ proc[p].pc = "read"
  /\ proc' = [proc EXCEPT ![p] = [pc |-> "next", at |-> Applied]]
  /\ UNCHANGED <<version, columns, writing>>

\* Mutant of Ready: the loop ends one migration early.
ReadyEarly(p) ==
  /\ proc[p].pc = "next" /\ proc[p].at >= N - 1
  /\ Step(p, "up")
  /\ UNCHANGED <<version, columns, writing>>

\* The loop over the migrations from `current` on is through.
Ready(p) ==
  /\ proc[p].pc = "next" /\ proc[p].at >= N
  /\ Step(p, "up")
  /\ UNCHANGED <<version, columns, writing>>

\* Mutant of Alter: the DDL runs outside the transaction of the version bump.
AlterCommits(p) ==
  /\ proc[p].pc = "next" /\ proc[p].at < N
  /\ writing = None
  /\ proc[p].at + 1 \notin columns
  /\ columns' = columns \cup {proc[p].at + 1}
  /\ writing' = p
  /\ Step(p, "stamp")
  /\ UNCHANGED version

\* BEGIN and the migration's DDL: it takes the write lock on the latest commit.
Alter(p) ==
  /\ proc[p].pc = "next" /\ proc[p].at < N
  /\ writing = None
  /\ proc[p].at + 1 \notin columns
  /\ writing' = p
  /\ Step(p, "stamp")
  /\ UNCHANGED <<version, columns>>

\* "duplicate column name": another start was faster.
MeetsColumn(p) ==
  /\ proc[p].pc = "next" /\ proc[p].at < N
  /\ writing = None
  /\ proc[p].at + 1 \in columns

\* run_migrations and with it the start fail.
AlterFails(p) ==
  /\ MeetsColumn(p)
  /\ proc' = [proc EXCEPT ![p] = Down]
  /\ UNCHANGED <<version, columns, writing>>

\* pragma_update user_version = i + 1, in the same transaction.
Stamp(p) ==
  /\ proc[p].pc = "stamp"
  /\ Step(p, "commit")
  /\ UNCHANGED <<version, columns, writing>>

\* The column and the version become visible together.
Commit(p) ==
  /\ proc[p].pc = "commit"
  /\ version' = proc[p].at + 1
  /\ columns' = columns \cup {proc[p].at + 1}
  /\ proc' = [proc EXCEPT ![p] = [pc |-> "next", at |-> @.at + 1]]
  /\ writing' = None

\* The process dies, is stopped, or a statement fails and ends its start: an open
\* transaction is rolled back.
Dies(p) ==
  /\ proc[p].pc # "down"
  /\ proc' = [proc EXCEPT ![p] = Down]
  /\ writing' = IF writing = p THEN None ELSE writing
  /\ UNCHANGED <<version, columns>>

Run(p) == ReadVersion(p) \/ Ready(p) \/ Alter(p) \/ AlterFails(p) \/ Stamp(p) \/ Commit(p)

MigNext == \E p \in Starters : Start(p) \/ Run(p) \/ Dies(p)

MigSpec == MigInit /\ [][MigNext]_migVars

-----------------------------------------------------------------------------
\* Version and columns stay in range, and no process believes in a version below 0
\* or beyond what the database can have.
MigTypeOK ==
  /\ version \in -1..(N + 1) /\ columns \subseteq 1..(N + 1)
  /\ proc \in [Starters -> [pc: {"down", "read", "next", "stamp", "commit", "up"},
                            at: 0..(N + 1)]]
  /\ writing \in Starters \cup {None}

\* user_version says exactly which migrations are in the schema, wherever a start
\* was cut short and however many starts overlapped: no start can be wedged by a
\* column whose migration the version still calls pending.
VersionTellsColumns == columns = 1..version

\* A process that serves requests found or made every migration applied.
UpMeansMigrated == \A p \in Starters : proc[p].pc = "up" => 1..N \subseteq columns
=============================================================================

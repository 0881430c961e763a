------------------------------ MODULE Lifecycle ------------------------------
(***************************************************************************)
(* Both services from start to end (main.rs of wkdmgr-mgmt and             *)
(* wkdmgr-query): opening the database, its journal mode and -wal/-shm     *)
(* files, the migrations (Migrations, on the same variables), the socket,  *)
(* serving, a graceful stop, a failing start, a death.                     *)
(*                                                                         *)
(* wkdmgr-query is not the owner of the database's directory.  SharedDir   *)
(* says whether it may create files there, as the README recommends.       *)
(***************************************************************************)
EXTENDS Migrations

CONSTANTS
  Readers,    \* wkdmgr-query processes; Starters are those of wkdmgr-mgmt
  SharedDir,
  Stale,      \* a socket file that nobody listens on
  MaxFaults   \* bound: stops, deaths and failing statements

Procs == Starters \cup Readers

ASSUME ReadersAreOthers == Readers \cap Starters = {}
ASSUME NoProcs == {None, Stale} \cap Procs = {} /\ None # Stale
ASSUME FaultsBound == MaxFaults \in Nat

VARIABLES stage,   \* what each process does next
          mode,    \* the journal mode in the file's header, "none" without a file
          side,    \* -wal and -shm are there
          wal,     \* processes whose connection has the WAL open
          schema,  \* table keys is there
          owner,   \* per socket path: who listens on the file, None without a file
          perm,    \* per socket path: the file's mode, the umask's or the configured
          tidy,    \* wkdmgr-mgmt stopped in company of no connection; none since
          faults

fileVars == <<mode, side, wal, schema>>
sockVars == <<owner, perm>>
lifeVars == <<migVars, stage, fileVars, sockVars, tidy, faults>>

Paths   == {"mgmt", "query"}
Path(p) == IF p \in Starters THEN "mgmt" ELSE "query"

Reach(p, s) == stage' = [stage EXCEPT ![p] = s]

LifeInit ==
  /\ MigInit
  /\ stage = [p \in Procs |-> "off"]
  /\ \/ mode = "none" /\ version = 0 /\ schema = FALSE
     \/ mode = "rollback" /\ schema = TRUE
  /\ side = FALSE /\ wal = {}
  /\ owner = [x \in Paths |-> None] /\ perm = [x \in Paths |-> "umask"]
  /\ tidy = FALSE /\ faults = 0

-----------------------------------------------------------------------------
(* wkdmgr-mgmt opens the database. *)

\* open_writable: Connection::open, which creates a missing file.
Open(p) ==
  /\ stage[p] = "off" /\ Start(p) /\ Reach(p, "opened")
  /\ mode' = IF mode = "none" THEN "rollback" ELSE mode
  /\ tidy' = FALSE
  /\ UNCHANGED <<side, wal, schema, sockVars, faults>>

\* journal_mode=WAL opens the WAL, creating its files.
SetWal(p) ==
  /\ stage[p] = "opened" /\ Reach(p, "wal")
  /\ mode' = "wal" /\ side' = TRUE /\ wal' = wal \cup {p}
  /\ UNCHANGED <<migVars, schema, sockVars, tidy, faults>>

\* The SCHEMA batch.
CreateSchema(p) ==
  /\ stage[p] = "wal" /\ Reach(p, "migrate")
  /\ schema' = TRUE
  /\ UNCHANGED <<migVars, mode, side, wal, sockVars, tidy, faults>>

\* A statement of run_migrations.
Migrate(p) ==
  /\ p \in Starters /\ stage[p] = "migrate"
  /\ \/ /\ ReadVersion(p) \/ Alter(p) \/ Stamp(p) \/ Commit(p)
        /\ UNCHANGED stage
     \/ Ready(p) /\ Reach(p, "ready")
  /\ UNCHANGED <<fileVars, sockVars, tidy, faults>>

-----------------------------------------------------------------------------
(* The socket, in the main of either service. *)

\* wkdmgr-query comes to its socket without having touched the file.
QueryStarts(p) ==
  /\ p \in Readers
  /\ stage[p] = "off" /\ Reach(p, "ready")
  /\ UNCHANGED <<migVars, fileVars, sockVars, tidy, faults>>

\* Mutant of Unlink: the socket file found is left where it is.
UnlinkSkipped(p) ==
  /\ stage[p] = "ready" /\ Reach(p, "bind")
  /\ UNCHANGED <<migVars, fileVars, sockVars, tidy, faults>>

\* remove_file, whoever listens on the file.
Unlink(p) ==
  /\ stage[p] = "ready" /\ Reach(p, "bind")
  /\ owner' = [owner EXCEPT ![Path(p)] = None]
  /\ UNCHANGED <<migVars, fileVars, perm, tidy, faults>>

\* Mutant of Bind: the listener is served without a set_permissions.
BindAndServe(p) ==
  /\ stage[p] = "bind" /\ Reach(p, "serve")
  /\ owner[Path(p)] = None
  /\ owner' = [owner EXCEPT ![Path(p)] = p]
  /\ perm' = [perm EXCEPT ![Path(p)] = "umask"]
  /\ UNCHANGED <<migVars, fileVars, tidy, faults>>

\* UnixListener::bind creates the file, with the umask's mode, and listens: from here on
\* clients connect, and wait in the backlog for axum::serve to take their requests.
Bind(p) ==
  /\ stage[p] = "bind" /\ Reach(p, "chmod")
  /\ owner[Path(p)] = None
  /\ owner' = [owner EXCEPT ![Path(p)] = p]
  /\ perm' = [perm EXCEPT ![Path(p)] = "umask"]
  /\ UNCHANGED <<migVars, fileVars, tidy, faults>>

\* set_permissions changes whatever file the path names by then.
Chmod(p) ==
  /\ stage[p] = "chmod" /\ Reach(p, "serve")
  /\ owner[Path(p)] # None
  /\ perm' = [perm EXCEPT ![Path(p)] = "set"]
  /\ UNCHANGED <<migVars, fileVars, owner, tidy, faults>>

-----------------------------------------------------------------------------
(* Lookups. *)

\* A SELECT goes through: a file in WAL mode is only read with its side files, or
\* where they can be created.
CanRead(q) == schema /\ (mode = "rollback" \/ q \in wal \/ side \/ SharedDir)

\* A lookup through the cached handle: success leaves the WAL open, failure drops
\* the handle.
Lookup(q) ==
  /\ q \in Readers
  /\ stage[q] = "serve"
  /\ wal' = IF CanRead(q) /\ mode = "wal" THEN wal \cup {q} ELSE wal \ {q}
  /\ side' = (side \/ (CanRead(q) /\ mode = "wal"))
  /\ UNCHANGED <<migVars, stage, mode, schema, sockVars, tidy, faults>>

-----------------------------------------------------------------------------
(* Ends. *)

Fault == faults < MaxFaults /\ faults' = faults + 1

\* The process is gone; its socket file stays.
Leave(p) ==
  /\ Reach(p, "off")
  /\ owner' = [owner EXCEPT ![Path(p)] = IF @ = p THEN Stale ELSE @]
  /\ IF p \in Starters THEN Dies(p) ELSE UNCHANGED migVars

\* Mutant of Close: the side files go with whoever closes.
CloseDeletes(p) ==
  /\ wal' = wal \ {p}
  /\ side' = (side /\ p \notin wal)

\* sqlite3_close of a writable connection: the last one out of the WAL removes its
\* files, and the header goes on saying WAL.
Close(p) ==
  /\ wal' = wal \ {p}
  /\ side' = (side /\ wal # {p})

Kill(p) ==
  /\ Fault
  /\ stage[p] # "off" /\ Leave(p)
  /\ wal' = wal \ {p}
  /\ UNCHANGED <<mode, side, schema, perm, tidy>>

\* Another start was faster with a migration, or came to the socket path between
\* p's steps on it.
LosesRace(p) ==
  \/ stage[p] = "migrate" /\ MeetsColumn(p)
  \/ stage[p] = "ready" /\ \E o \in Procs \ {p} : Path(o) = Path(p) /\ stage[o] = "bind"
  \/ stage[p] = "bind" /\ owner[Path(p)] # None
  \/ stage[p] = "chmod" /\ owner[Path(p)] = None

\* main returns an error: a lost race, a statement or call that fails, an invalid
\* socket mode.  Connections are closed on the way out.
Fail(p) ==
  /\ \/ LosesRace(p) /\ UNCHANGED faults
     \/ stage[p] \notin {"off", "serve", "closing"} /\ Fault
  /\ Leave(p)
  /\ IF p \in Starters THEN Close(p) ELSE wal' = wal \ {p} /\ UNCHANGED side
  /\ UNCHANGED <<mode, schema, perm, tidy>>

\* Mutant of Switch: the journal mode is left as it is.
SwitchSkipped(p) == UNCHANGED <<mode, side, wal>>

\* journal_mode=DELETE, which SQLite refuses while others have the WAL open.
Switch(p) ==
  IF wal = {p} THEN mode' = "rollback" /\ side' = FALSE /\ wal' = {}
               ELSE UNCHANGED <<mode, side, wal>>

\* SIGTERM or Ctrl-C: wkdmgr-mgmt stops serving and switches the journal mode.
Stop(p) ==
  /\ Fault
  /\ p \in Starters /\ stage[p] = "serve" /\ Reach(p, "closing")
  /\ Switch(p)
  /\ tidy' = (wal = {p} /\ \A o \in Starters \ {p} : stage[o] = "off")
  /\ UNCHANGED <<migVars, schema, sockVars>>

\* main returns and its connection is closed.
Exit(p) ==
  /\ stage[p] = "closing" /\ Leave(p)
  /\ Close(p)
  /\ UNCHANGED <<mode, schema, perm, tidy, faults>>

Proceed(p) ==
  \/ SetWal(p) \/ CreateSchema(p) \/ Migrate(p)
  \/ QueryStarts(p) \/ Unlink(p) \/ Bind(p) \/ Chmod(p)
  \/ LosesRace(p) /\ Fail(p)
  \/ Exit(p)

LifeNext ==
  \/ \E p \in Starters : Open(p) \/ Stop(p)
  \/ \E p \in Procs : Proceed(p) \/ Kill(p) \/ Fail(p)
  \/ \E q \in Readers : Lookup(q)

LifeSpec == LifeInit /\ [][LifeNext]_lifeVars

\* A started process runs, and the service manager starts a process that is down.
LifeFairness ==
  /\ \A p \in Starters : WF_lifeVars(Open(p))
  /\ \A p \in Procs : WF_lifeVars(Proceed(p))

LifeLiveSpec == LifeSpec /\ LifeFairness

-----------------------------------------------------------------------------
\* Files, sockets and processes stay well typed: there are side files only beside a
\* file whose header says WAL, and no socket is owned by a process that is off.
LifeTypeOK ==
  /\ stage \in [Procs -> {"off", "opened", "wal", "migrate", "ready", "bind", "chmod",
                          "serve", "closing"}]
  /\ mode \in {"none", "rollback", "wal"}
  /\ side \in BOOLEAN /\ (side => mode = "wal")
  /\ wal \subseteq Procs
  /\ schema \in BOOLEAN
  /\ owner \in [Paths -> Procs \cup {None, Stale}]
  /\ \A x \in Paths : owner[x] \in Procs => stage[owner[x]] # "off"
  /\ perm \in [Paths -> {"umask", "set"}]
  /\ tidy \in BOOLEAN /\ faults \in 0..MaxFaults

\* While a wkdmgr-mgmt is past open_writable and not yet stopping, lookups can read
\* the file without being allowed to write its directory, whatever other processes
\* are stopped, fail to start or die meanwhile.
UpMeansReadable ==
  \A p \in Starters, q \in Readers :
    stage[p] \in {"ready", "bind", "chmod", "serve"} => CanRead(q)

\* After a graceful stop in company of no other connection, and until the next
\* start, lookups can read the file without being allowed to write its directory,
\* whatever becomes of wkdmgr-query meanwhile.
StopLeavesReadable == tidy => \A q \in Readers : CanRead(q)

\* Clients can connect at path x.
Listening(x) == owner[x] \in Procs /\ stage[owner[x]] \in {"chmod", "serve"}

\* Clients connect under the umask's mode only between the bind of the process that
\* listens and its own set_permissions, however many starts meet on its path: once it has
\* begun to take requests, nothing brings that mode back, and none serves behind it.  A
\* client that connects in that window stays connected, and is served after it.
UmaskOnlyUntilChmod ==
  \A x \in Paths : Listening(x) /\ perm[x] = "umask" => stage[owner[x]] = "chmod"

\* No two processes are at the same socket path.
OneAtATime ==
  \A p, o \in Procs :
    p # o /\ Path(p) = Path(o) =>
      ~ {stage[p], stage[o]} \subseteq {"ready", "bind", "chmod"}

\* Requests to path x are taken.
Answering(x) == owner[x] \in Procs /\ stage[owner[x]] = "serve"

\* In the end every process serves on a database that is up to date, and both
\* services take requests, whatever died, failed or lost a race before: if starts do
\* not go on meeting on a socket path, where two can fail each other for ever.
AllComeUp ==
  <>[]OneAtATime =>
    <>[](/\ version >= N
         /\ \A p \in Procs : stage[p] = "serve"
         /\ \A x \in Paths : Answering(x))

\* The comment on the switch: that it fails while "a still-running wkdmgr-query with
\* its own already-open handle" is attached "is fine, since that connection already
\* works".  After a graceful stop lookups would then go on working.
GracefulStopIsFine ==
  [][\A p \in Starters, q \in Readers :
       stage[p] = "closing" /\ stage'[p] = "off" /\ CanRead(q) => CanRead(q)']_lifeVars
=============================================================================

--------------------------- MODULE LifecycleProofs ---------------------------
(***************************************************************************)
(* Theorems about Migrations, for every number of migrations, of processes *)
(* that start and every age of the database they start on, and about       *)
(* Lifecycle, for any number of processes of either service and of faults. *)
(***************************************************************************)
EXTENDS Lifecycle, TLAPS

(* The migrations. *)

\* What the version says was never ahead of what a process believes; the one
\* process inside a transaction believes exactly the latest commit.
BeliefInv ==
  \A p \in Starters :
    /\ proc[p].at <= Applied
    /\ proc[p].pc \in {"stamp", "commit"} =>
         writing = p /\ proc[p].at = Applied /\ proc[p].at < N
    /\ proc[p].pc = "up" => proc[p].at >= N

MigInv == MigTypeOK /\ VersionTellsColumns /\ BeliefInv

\* A database of any age satisfies the invariant before the first start.
LEMMA MigInitInv == MigInit => MigInv
  BY NType DEF MigInit, MigInv, MigTypeOK, VersionTellsColumns, BeliefInv, Applied, Down

\* Every statement of every process preserves the invariant.
LEMMA MigNextInv == MigInv /\ [MigNext]_migVars => MigInv'
  <1> SUFFICES ASSUME MigInv, [MigNext]_migVars PROVE MigInv'
    OBVIOUS
  <1> USE NType, NoneNoStarter DEF MigInv, MigTypeOK, BeliefInv, VersionTellsColumns, Applied
  <1>1. ASSUME NEW p \in Starters, Start(p) PROVE MigInv'
    BY <1>1 DEF Start, Step
  <1>2. ASSUME NEW p \in Starters, ReadVersion(p) PROVE MigInv'
    BY <1>2 DEF ReadVersion
  <1>3. ASSUME NEW p \in Starters, Ready(p) PROVE MigInv'
    BY <1>3 DEF Ready, Step
  <1>4. ASSUME NEW p \in Starters, Alter(p) PROVE MigInv'
    <2>1. proc[p].at = Applied
      BY <1>4 DEF Alter
    <2> QED
      BY <1>4, <2>1 DEF Alter, Step
  <1>5. ASSUME NEW p \in Starters, AlterFails(p) PROVE MigInv'
    BY <1>5 DEF AlterFails, MeetsColumn, Down
  <1>6. ASSUME NEW p \in Starters, Stamp(p) PROVE MigInv'
    BY <1>6 DEF Stamp, Step
  <1>7. ASSUME NEW p \in Starters, Commit(p) PROVE MigInv'
    <2>1. /\ proc[p].at = Applied /\ proc[p].at < N /\ writing = p
          /\ \A q \in Starters : q # p => proc[q].pc \notin {"stamp", "commit"}
      BY <1>7 DEF Commit
    <2>2. version' = Applied + 1 /\ columns' = 1..(Applied + 1) /\ Applied' = Applied + 1
      BY <1>7, <2>1 DEF Commit
    <2>3. proc' \in [Starters -> [pc: {"down", "read", "next", "stamp", "commit", "up"},
                                  at: 0..(N + 1)]]
      BY <1>7, <2>1 DEF Commit
    <2>4. BeliefInv'
      BY <1>7, <2>1, <2>2 DEF Commit
    <2> QED
      BY <1>7, <2>1, <2>2, <2>3, <2>4 DEF Commit
  <1>8. ASSUME NEW p \in Starters, Dies(p) PROVE MigInv'
    BY <1>8 DEF Dies, Down
  <1>9. CASE UNCHANGED migVars
    BY <1>9 DEF migVars
  <1> QED
    BY <1>1, <1>2, <1>3, <1>4, <1>5, <1>6, <1>7, <1>8, <1>9 DEF MigNext, Run

\* Version, columns, processes and the write lock keep their types.
THEOREM MigTyped == MigSpec => []MigTypeOK
  <1>1. MigInv => MigTypeOK
    BY DEF MigInv
  <1> QED
    BY <1>1, MigInitInv, MigNextInv, PTL DEF MigSpec

\* However starts overlap, fail and die, the committed version and the committed
\* columns never part.
THEOREM VersionIsTrue == MigSpec => []VersionTellsColumns
  <1>1. MigInv => VersionTellsColumns
    BY DEF MigInv
  <1> QED
    BY <1>1, MigInitInv, MigNextInv, PTL DEF MigSpec

\* No process ever serves requests on a database that lacks a migration.
THEOREM ServingIsMigrated == MigSpec => []UpMeansMigrated
  <1>1. MigInv => UpMeansMigrated
    BY NType DEF MigInv, MigTypeOK, VersionTellsColumns, BeliefInv, Applied, UpMeansMigrated
  <1> QED
    BY <1>1, MigInitInv, MigNextInv, PTL DEF MigSpec

-----------------------------------------------------------------------------
(* The services around the migrations. *)

\* The processes go through the migrations as Migrations says.
THEOREM LifeMigrates == LifeSpec => MigSpec
<1>1. LifeInit => MigInit
  BY DEF LifeInit
<1>2. [LifeNext]_lifeVars => [MigNext]_migVars
  <2>. SUFFICES ASSUME LifeNext, ~ UNCHANGED migVars PROVE MigNext
    BY DEF lifeVars
  <2>1. ASSUME NEW p \in Starters, Open(p) \/ Stop(p) PROVE MigNext
    BY <2>1 DEF Open, Stop, MigNext
  <2>2. ASSUME NEW p \in Procs, Proceed(p) \/ Kill(p) \/ Fail(p) PROVE MigNext
    <3>1. ASSUME Leave(p) PROVE MigNext
      BY <3>1 DEF Leave, MigNext
    <3>2. ASSUME Migrate(p) PROVE MigNext
      BY <3>2 DEF Migrate, MigNext, Run
    <3>. QED
      BY <2>2, <3>1, <3>2
         DEF Proceed, SetWal, CreateSchema, QueryStarts, Unlink, Bind, Chmod, Exit, Kill, Fail
  <2>3. ASSUME NEW q \in Readers, Lookup(q) PROVE MigNext
    BY <2>3 DEF Lookup
  <2>. QED
    BY <2>1, <2>2, <2>3 DEF LifeNext
<1>. QED
  BY <1>1, <1>2, PTL DEF LifeSpec, MigSpec

-----------------------------------------------------------------------------
\* A process of wkdmgr-mgmt is as far in main as Migrations says it is, and one of
\* wkdmgr-query never opens the file for writing.
StageInv ==
  /\ stage \in [Procs -> {"off", "opened", "wal", "migrate", "ready", "bind", "chmod",
                          "serve", "closing"}]
  /\ \A p \in Starters :
       /\ stage[p] = "off" <=> proc[p].pc = "down"
       /\ stage[p] \in {"opened", "wal"} => proc[p].pc = "read"
       /\ stage[p] \in {"ready", "bind", "chmod", "serve", "closing"} => proc[p].pc = "up"
  /\ \A q \in Readers : stage[q] \notin {"opened", "wal", "migrate", "closing"}

\* While the WAL is open its files are there; a process opens it before it goes on
\* to the schema, and keeps it open until it stops serving.
WalInv ==
  /\ mode \in {"none", "rollback", "wal"} /\ side \in BOOLEAN /\ schema \in BOOLEAN
  /\ wal \subseteq Procs
  /\ side => mode = "wal"
  /\ wal # {} => side
  /\ \A p \in Starters :
       /\ stage[p] \in {"wal", "migrate", "ready", "bind", "chmod", "serve"} => p \in wal
       /\ stage[p] \in {"migrate", "ready", "bind", "chmod", "serve", "closing"} => schema

\* After a tidy stop no process has opened the file for writing.
TidyInv ==
  /\ tidy \in BOOLEAN /\ faults \in 0..MaxFaults
  /\ tidy => /\ mode = "rollback" /\ schema
             /\ \A p \in Starters : stage[p] \in {"off", "closing"}

\* The file at a socket path is of a process that bound it and is still there, and
\* one that serves has set its mode: nobody binds a path that another one owns.
SockInv ==
  /\ owner \in [Paths -> Procs \cup {None, Stale}]
  /\ perm \in [Paths -> {"umask", "set"}]
  /\ \A x \in Paths : owner[x] \in Procs =>
       /\ Path(owner[x]) = x
       /\ stage[owner[x]] \in {"chmod", "serve", "closing"}
       /\ stage[owner[x]] \in {"serve", "closing"} => perm[x] = "set"

LifeInv == StageInv /\ WalInv /\ TidyInv /\ SockInv

\* The invariant holds before the first process starts.
LEMMA LifeInitInv == LifeInit => LifeInv
<1>. SUFFICES ASSUME LifeInit PROVE LifeInv
  OBVIOUS
<1>1. StageInv
  BY ReadersAreOthers DEF LifeInit, StageInv, MigInit, Down, Procs
<1>2. WalInv
  BY <1>1 DEF LifeInit, WalInv, StageInv, Procs
<1>3. TidyInv
  <2>1. tidy = FALSE /\ faults = 0
    BY DEF LifeInit
  <2>2. faults \in 0..MaxFaults
    BY <2>1, FaultsBound
  <2>. QED
    BY <2>1, <2>2, Zenon DEF TidyInv
<1>4. SockInv
  BY NoProcs DEF LifeInit, SockInv
<1>. QED
  BY <1>1, <1>2, <1>3, <1>4 DEF LifeInv

\* The steps of Next, with the invariant as it is before them.
LEMMA StageStep == MigTypeOK /\ StageInv /\ [LifeNext]_lifeVars => StageInv'
<1>. SUFFICES ASSUME MigTypeOK, StageInv, [LifeNext]_lifeVars PROVE StageInv'
  OBVIOUS
<1>. USE ReadersAreOthers DEF StageInv, MigTypeOK, Procs, Reach, Step, Down
<1>1. ASSUME NEW p \in Starters, Open(p) PROVE StageInv'
  BY <1>1 DEF Open, Start
<1>2. ASSUME NEW p \in Starters, Stop(p) PROVE StageInv'
  BY <1>2 DEF Stop, migVars
<1>3. ASSUME NEW p \in Procs, SetWal(p) \/ CreateSchema(p) PROVE StageInv'
  BY <1>3 DEF SetWal, CreateSchema, migVars
<1>4. ASSUME NEW p \in Procs, Migrate(p) PROVE StageInv'
  <2>1. CASE Ready(p) /\ Reach(p, "ready")
    BY <1>4, <2>1 DEF Migrate, Ready
  <2>2. CASE UNCHANGED stage /\ (ReadVersion(p) \/ Alter(p) \/ Stamp(p) \/ Commit(p))
    BY <1>4, <2>2 DEF Migrate, ReadVersion, Alter, Stamp, Commit
  <2>. QED
    BY <1>4, <2>1, <2>2 DEF Migrate
<1>5. ASSUME NEW p \in Procs, QueryStarts(p) PROVE StageInv'
  BY <1>5, ReadersAreOthers DEF QueryStarts, migVars
<1>6. ASSUME NEW p \in Procs, Unlink(p) \/ Bind(p) \/ Chmod(p) PROVE StageInv'
  BY <1>6 DEF Unlink, Bind, Chmod, migVars
<1>7. ASSUME NEW p \in Procs, Leave(p) PROVE StageInv'
  BY <1>7 DEF Leave, Dies, migVars
<1>8. ASSUME NEW q \in Readers, Lookup(q) PROVE StageInv'
  BY <1>8 DEF Lookup, migVars
<1>9. CASE UNCHANGED lifeVars
  BY <1>9 DEF lifeVars, migVars
<1>. QED
  BY <1>1, <1>2, <1>3, <1>4, <1>5, <1>6, <1>7, <1>8, <1>9
     DEF LifeNext, Proceed, Kill, Fail, Exit

\* Opening, closing, switching and reading keep the WAL and its files together.
LEMMA WalStep == StageInv /\ WalInv /\ [LifeNext]_lifeVars => WalInv'
<1>. SUFFICES ASSUME StageInv, WalInv, [LifeNext]_lifeVars PROVE WalInv'
  OBVIOUS
<1>. USE DEF StageInv, WalInv, Procs, Reach
<1>1. ASSUME NEW p \in Starters, Open(p) PROVE WalInv'
  BY <1>1 DEF Open
<1>2. ASSUME NEW p \in Starters, Stop(p) PROVE WalInv'
  BY <1>2 DEF Stop, Switch
<1>3. ASSUME NEW p \in Procs, SetWal(p) PROVE WalInv'
  BY <1>3 DEF SetWal
<1>4. ASSUME NEW p \in Procs, CreateSchema(p) PROVE WalInv'
  BY <1>4 DEF CreateSchema
<1>5. ASSUME NEW p \in Procs, Migrate(p) PROVE WalInv'
  BY <1>5 DEF Migrate, fileVars
<1>6. ASSUME NEW p \in Procs, QueryStarts(p) PROVE WalInv'
  BY <1>6, ReadersAreOthers DEF QueryStarts, fileVars
<1>7. ASSUME NEW p \in Procs, Unlink(p) \/ Bind(p) \/ Chmod(p) PROVE WalInv'
  BY <1>7 DEF Unlink, Bind, Chmod, fileVars
<1>8. ASSUME NEW p \in Procs, Leave(p), Close(p), UNCHANGED <<mode, schema>> PROVE WalInv'
  BY <1>8 DEF Leave, Close
<1>9. ASSUME NEW p \in Procs, Leave(p), wal' = wal \ {p}, UNCHANGED <<mode, side, schema>>
      PROVE  WalInv'
  BY <1>9 DEF Leave
<1>10. ASSUME NEW q \in Readers, Lookup(q) PROVE WalInv'
  BY <1>10, ReadersAreOthers DEF Lookup, CanRead
<1>11. CASE UNCHANGED lifeVars
  BY <1>11 DEF lifeVars, fileVars
<1>. QED
  BY <1>1, <1>2, <1>3, <1>4, <1>5, <1>6, <1>7, <1>8, <1>9, <1>10, <1>11
     DEF LifeNext, Proceed, Kill, Fail, Exit

\* A tidy stop finds everybody else off; any start ends the tidiness.
LEMMA TidyStep ==
  StageInv /\ WalInv /\ TidyInv /\ [LifeNext]_lifeVars => TidyInv'
<1>. SUFFICES ASSUME StageInv, WalInv, TidyInv, [LifeNext]_lifeVars PROVE TidyInv'
  OBVIOUS
<1>. USE FaultsBound DEF StageInv, WalInv, TidyInv, Procs, Reach, Fault
<1>1. ASSUME NEW p \in Starters, Open(p) PROVE TidyInv'
  BY <1>1 DEF Open
<1>2. ASSUME NEW p \in Starters, Stop(p) PROVE TidyInv'
  BY <1>2 DEF Stop, Switch
<1>3. ASSUME NEW p \in Procs, SetWal(p) \/ CreateSchema(p) \/ Migrate(p) PROVE TidyInv'
  <2>1. CASE SetWal(p)
    BY <2>1, ReadersAreOthers DEF SetWal
  <2>2. CASE CreateSchema(p)
    BY <2>2, ReadersAreOthers DEF CreateSchema
  <2>3. CASE Migrate(p)
    BY <2>3 DEF Migrate, fileVars
  <2>. QED
    BY <1>3, <2>1, <2>2, <2>3
<1>4. ASSUME NEW p \in Procs, QueryStarts(p) PROVE TidyInv'
  BY <1>4, ReadersAreOthers DEF QueryStarts, fileVars
<1>5. ASSUME NEW p \in Procs, Unlink(p) \/ Bind(p) \/ Chmod(p) PROVE TidyInv'
  BY <1>5 DEF Unlink, Bind, Chmod, fileVars
<1>6. ASSUME NEW p \in Procs, Leave(p), UNCHANGED <<mode, schema, tidy>>, UNCHANGED faults \/ Fault
      PROVE  TidyInv'
  BY <1>6 DEF Leave
<1>7. ASSUME NEW q \in Readers, Lookup(q) PROVE TidyInv'
  BY <1>7 DEF Lookup
<1>8. CASE UNCHANGED lifeVars
  BY <1>8 DEF lifeVars, fileVars
<1>. QED
  BY <1>1, <1>2, <1>3, <1>4, <1>5, <1>6, <1>7, <1>8
     DEF LifeNext, Proceed, Kill, Fail, Exit

\* Whoever binds or changes a socket, its file stays tied to a process that is there.
LEMMA SockStep == StageInv /\ SockInv /\ [LifeNext]_lifeVars => SockInv'
<1>. SUFFICES ASSUME StageInv, SockInv, [LifeNext]_lifeVars PROVE SockInv'
  OBVIOUS
<1>. USE NoProcs DEF StageInv, SockInv, Reach
<1>1. ASSUME NEW p \in Procs, UNCHANGED sockVars,
             \/ UNCHANGED stage
             \/ /\ stage[p] \in {"off", "opened", "wal", "migrate"}
                /\ \E s \in {"opened", "wal", "migrate", "ready"} : Reach(p, s)
             \/ stage[p] = "serve" /\ Reach(p, "closing")
      PROVE  SockInv'
  BY <1>1 DEF sockVars
<1>2. ASSUME NEW p \in Procs, Unlink(p) PROVE SockInv'
  BY <1>2 DEF Unlink, Paths, Path
<1>3. ASSUME NEW p \in Procs, Bind(p) PROVE SockInv'
  BY <1>3 DEF Bind, Paths, Path
<1>4. ASSUME NEW p \in Procs, Chmod(p) PROVE SockInv'
  BY <1>4 DEF Chmod, Paths, Path
<1>5. ASSUME NEW p \in Procs, Leave(p), UNCHANGED perm PROVE SockInv'
  BY <1>5 DEF Leave, Paths, Path
<1>6. CASE UNCHANGED lifeVars
  BY <1>6 DEF lifeVars, sockVars
<1>. QED
  BY <1>1, <1>2, <1>3, <1>4, <1>5, <1>6
     DEF LifeNext, Proceed, Kill, Fail, Exit, Open, Stop, SetWal, CreateSchema, Migrate,
         QueryStarts, Lookup, Procs

\* The invariant of every reachable state, with that of Migrations.
THEOREM LifeInvariant == LifeSpec => [](MigTypeOK /\ LifeInv)
<1>1. LifeSpec => []MigTypeOK
  BY LifeMigrates, MigTyped, PTL
<1>2. LifeInit => LifeInv
  BY LifeInitInv
<1>3. MigTypeOK /\ LifeInv /\ [LifeNext]_lifeVars => LifeInv'
  BY StageStep, WalStep, TidyStep, SockStep DEF LifeInv
<1>. QED
  BY <1>1, <1>2, <1>3, PTL DEF LifeSpec

\* Types and ownership hold in every reachable state.
THEOREM LifeTyped == LifeSpec => []LifeTypeOK
<1>1. LifeInv => LifeTypeOK
  BY DEF LifeInv, StageInv, WalInv, TidyInv, SockInv, LifeTypeOK
<1>. QED
  BY <1>1, LifeInvariant, PTL

\* While wkdmgr-mgmt is up, lookups can read, whatever fails around it: its own
\* connection keeps the WAL open and with it the files of the WAL.
THEOREM LookupsWhileUp == LifeSpec => []UpMeansReadable
<1>1. LifeInv => UpMeansReadable
  BY DEF LifeInv, StageInv, WalInv, UpMeansReadable, CanRead
<1>. QED
  BY <1>1, LifeInvariant, PTL

\* A graceful stop with nobody attached leaves a file that lookups can read.
THEOREM StopReadable == LifeSpec => []StopLeavesReadable
<1>1. LifeInv => StopLeavesReadable
  BY DEF LifeInv, TidyInv, StopLeavesReadable, CanRead
<1>. QED
  BY <1>1, LifeInvariant, PTL

\* A socket that clients can connect to has the umask's mode only until its owner's
\* set_permissions, for any number of starts that meet on its path.
THEOREM UmaskOnlyInWindow == LifeSpec => []UmaskOnlyUntilChmod
<1>1. LifeInv => UmaskOnlyUntilChmod
  BY DEF LifeInv, SockInv, LifeTypeOK, Listening, UmaskOnlyUntilChmod
<1>. QED
  BY <1>1, LifeInvariant, PTL

\* The guarantees of Migrations carry over to the processes that run them.
THEOREM LifeUpToDate == LifeSpec => [](VersionTellsColumns /\ UpMeansMigrated)
  BY LifeMigrates, VersionIsTrue, ServingIsMigrated, PTL
=============================================================================

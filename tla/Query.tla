------------------------------- MODULE Query --------------------------------
(***************************************************************************)
(* wkdmgr-query: lookups through one cached read-only SQLite handle behind *)
(* a mutex (wkdmgr-query/src/lib.rs), while wkdmgr-mgmt writes the file and *)
(* an operator replaces, overwrites or damages it.                         *)
(*                                                                         *)
(* A generation is one inode that db_path has named.  A handle stays on    *)
(* the generation it was opened on.  One served slot is modelled: what     *)
(* lookup_key_data answers for it in a generation is one value, a          *)
(* certificate or None.                                                    *)
(***************************************************************************)
EXTENDS Naturals

CONSTANTS
  Lookups,      \* concurrent requests
  Certs, None,
  MaxRenames,   \* bound: times the file is replaced by another inode
  MaxFaults     \* bound: in-place overwrites, damages, restarts of either process

ASSUME NoneIsNoneOf == None \notin Certs \cup Lookups
ASSUME QueryBounds  == MaxRenames \in Nat /\ MaxFaults \in Nat

Gens == 1..(MaxRenames + 1)

VARIABLES path,     \* the generation db_path names, 0 when there is no file
          schema,   \* generations whose keys table exists
          answer,   \* what lookup_key_data answers in each generation
          damaged,  \* the file db_path names cannot be read just now
          writer,   \* the generation wkdmgr-mgmt has open, 0 when it is down
          handle,   \* the cached connection: its generation and what it reads of it
          mutex,    \* the lookup inside the closure
          pc, reply, faults

fileVars  == <<path, schema, answer, damaged, writer>>
queryVars == <<path, schema, answer, damaged, writer, handle, mutex, pc, reply, faults>>

Answers  == Certs \cup {None}

\* What a SELECT through a handle may find: what the file says, or, after the file was
\* overwritten underneath the connection, anything at all, or an error every time.
Reads == {"file", "anything", "nothing"}

NoHandle == [gen |-> 0, reads |-> "nothing"]

\* open_read_only: the file must be there, and damage may or may not show yet.
OpenResults ==
  (IF path = 0 \/ damaged THEN {NoHandle} ELSE {})
    \cup (IF path # 0 THEN {[gen |-> path, reads |-> "file"]} ELSE {})

QueryInit ==
  /\ path = 0 /\ schema = {} /\ writer = 0 /\ damaged = FALSE
  /\ answer = [g \in Gens |-> None]
  /\ handle = NoHandle /\ mutex = None
  /\ pc = [q \in Lookups |-> "idle"]
  /\ reply = [q \in Lookups |-> "none"]
  /\ faults = 0

-----------------------------------------------------------------------------
(* A lookup. *)

\* A GET for an allowed domain reaches lookup_and_respond.
Ask(q) ==
  /\ pc[q] = "idle"
  /\ pc' = [pc EXCEPT ![q] = "waiting"]
  /\ reply' = [reply EXCEPT ![q] = "none"]
  /\ UNCHANGED <<fileVars, handle, mutex, faults>>

Respond(q, a) ==
  /\ pc' = [pc EXCEPT ![q] = "idle"]
  /\ reply' = [reply EXCEPT ![q] = a]
  /\ mutex' = None

\* Mutant of Enter: the handle is used without taking the mutex.
EnterUnlocked(q) ==
  /\ pc[q] = "waiting"
  /\ \E h \in (IF handle = NoHandle THEN OpenResults ELSE {handle}) :
       /\ handle' = h
       /\ IF h = NoHandle
          THEN Respond(q, None)
          ELSE /\ mutex' = q
               /\ pc' = [pc EXCEPT ![q] = "select"]
               /\ UNCHANGED reply
  /\ UNCHANGED <<fileVars, faults>>

\* Mutant of Enter: a lookup that finds the mutex taken gives up.
EnterOrGiveUp(q) ==
  /\ pc[q] = "waiting"
  /\ \E h \in (IF handle = NoHandle THEN OpenResults ELSE {handle}) :
       /\ handle' = h
       /\ IF h = NoHandle \/ mutex # None
          THEN /\ pc' = [pc EXCEPT ![q] = "idle"] /\ UNCHANGED mutex
               /\ reply' = [reply EXCEPT ![q] = None]
          ELSE /\ mutex' = q
               /\ pc' = [pc EXCEPT ![q] = "select"]
               /\ UNCHANGED reply
  /\ UNCHANGED <<fileVars, faults>>

\* The closure takes the mutex and opens the file if no handle is cached; when
\* that fails the answer is a 404.
Enter(q) ==
  /\ pc[q] = "waiting"
  /\ mutex = None
  /\ \E h \in (IF handle = NoHandle THEN OpenResults ELSE {handle}) :
       /\ handle' = h
       /\ IF h = NoHandle
          THEN Respond(q, None)
          ELSE /\ mutex' = q
               /\ pc' = [pc EXCEPT ![q] = "select"]
               /\ UNCHANGED reply
  /\ UNCHANGED <<fileVars, faults>>

\* The SELECT goes through and is the file's answer: the handle reads its file, the file
\* has the table, and it is not damaged where the handle is on the damaged one.
Readable(h) == h.reads = "file" /\ h.gen \in schema /\ ~(damaged /\ h.gen = path)

\* What lookup_key_data may answer through h when it gives no error.
Found(h) ==
  CASE h.reads = "anything" -> Answers
    [] Readable(h)          -> {answer[h.gen]}
    [] OTHER                -> {}

\* Mutant of HandleAfterError: the handle that failed stays cached.
HandleKept == handle

\* What becomes of the cached handle when the SELECT failed.
HandleAfterError == NoHandle

Select(q) ==
  /\ pc[q] = "select"
  /\ \/ /\ \E a \in Found(handle) : Respond(q, a)
        /\ UNCHANGED handle
     \/ /\ ~Readable(handle)
        /\ Respond(q, None)
        /\ handle' = HandleAfterError
  /\ UNCHANGED <<fileVars, faults>>

-----------------------------------------------------------------------------
(* wkdmgr-mgmt and the operator. *)

Fault == faults < MaxFaults /\ faults' = faults + 1

QueryIdle == UNCHANGED <<handle, mutex, pc, reply>>

\* open_writable: Connection::open creates a missing file ...
MgmtOpens ==
  /\ writer = 0 /\ ~damaged
  /\ path' = IF path = 0 THEN 1 ELSE path
  /\ writer' = path'
  /\ UNCHANGED <<schema, answer, damaged, faults>> /\ QueryIdle

\* ... and the SCHEMA batch comes after it.
MgmtCreatesSchema ==
  /\ writer # 0 /\ writer \notin schema /\ ~(damaged /\ writer = path)
  /\ schema' = schema \cup {writer}
  /\ UNCHANGED <<path, answer, damaged, writer, faults>> /\ QueryIdle

\* An upload or a delete commits, in the generation wkdmgr-mgmt has open.
MgmtCommits ==
  /\ writer \in schema /\ ~(damaged /\ writer = path)
  /\ \E a \in Answers : answer' = [answer EXCEPT ![writer] = a]
  /\ UNCHANGED <<path, schema, damaged, writer, faults>> /\ QueryIdle

MgmtStops ==
  /\ Fault
  /\ writer # 0
  /\ writer' = 0
  /\ UNCHANGED <<path, schema, answer, damaged>> /\ QueryIdle

\* The operator renames another database onto db_path.
Rename ==
  /\ path # 0 /\ path + 1 \in Gens
  /\ path' = path + 1
  /\ schema' = schema \cup {path + 1}
  /\ damaged' = FALSE
  /\ \E a \in Answers : answer' = [answer EXCEPT ![path + 1] = a]
  /\ UNCHANGED <<writer, faults>> /\ QueryIdle

\* The operator copies a backup over the file in place.  What a connection on it had read
\* no longer fits: its statements may all fail, or SQLite, which sees nothing of the copy
\* while the WAL index stays as it was, may answer the old pages, the new ones or a mix of
\* both without an error.
Overwrite ==
  /\ Fault
  /\ path # 0 /\ writer = 0
  /\ schema' = schema \cup {path}
  /\ \E a \in Answers : answer' = [answer EXCEPT ![path] = a]
  /\ \E reads \in {"anything", "nothing"} :
       handle' = IF handle.gen = path THEN [handle EXCEPT !.reads = reads] ELSE handle
  /\ UNCHANGED <<path, damaged, writer, mutex, pc, reply>>

\* Permissions or I/O fail on the file, and come back.
Damage ==
  /\ Fault
  /\ path # 0 /\ ~damaged
  /\ damaged' = TRUE
  /\ UNCHANGED <<path, schema, answer, writer>> /\ QueryIdle

Repair ==
  /\ damaged
  /\ damaged' = FALSE
  /\ UNCHANGED <<path, schema, answer, writer, faults>> /\ QueryIdle

\* wkdmgr-query is restarted: AppState::new tries to open the file once.
QueryRestarts ==
  /\ Fault
  /\ handle' \in OpenResults
  /\ mutex' = None
  /\ pc' = [q \in Lookups |-> "idle"]
  /\ reply' = [q \in Lookups |-> "none"]
  /\ UNCHANGED fileVars

QueryNext ==
  \/ \E q \in Lookups : Ask(q) \/ Enter(q) \/ Select(q)
  \/ MgmtOpens \/ MgmtCreatesSchema \/ MgmtCommits \/ MgmtStops
  \/ Rename \/ Overwrite \/ Damage \/ Repair \/ QueryRestarts

\* Closures on the blocking pool run to their end.
QuerySpec ==
  /\ QueryInit /\ [][QueryNext]_queryVars
  /\ \A q \in Lookups : WF_queryVars(Enter(q) \/ Select(q))

-----------------------------------------------------------------------------
\* The file db_path names can be read and says a.
Says(a) == path \in schema /\ ~damaged /\ answer[path] = a

\* The cached handle answers without an error, and not from the file db_path names: it
\* is on a file renamed away, or on pages of before an overwrite.
Misled ==
  \/ handle.reads = "anything"
  \/ handle.reads = "file" /\ handle.gen # path /\ handle.gen \in schema

\* "just ensured Some above": the lookup that selects is the one that holds the mutex,
\* and the handle it opened or found is still there.  Otherwise the closure would panic
\* and leave the mutex poisoned, for every later lookup.
HandleWhileSelecting ==
  \A q \in Lookups : pc[q] = "select" => mutex = q /\ handle # NoHandle

\* Why a 404 may be given for an address that has a key: there is no file, no table in
\* it, the file cannot be read, or the handle cannot be read through: an overwrite spoilt
\* it, or the file it is on was renamed away before it had a table.
MayFail ==
  \/ path = 0 \/ damaged \/ path \notin schema
  \/ handle # NoHandle /\ (handle.reads = "nothing" \/ handle.gen \notin schema)

\* Every answer is what the file says at the very moment it is given: a certificate that
\* was replaced or withdrawn is never served again, and a published one is missed only
\* for a reason.  The exception is a handle that the operator's rename or overwrite misled.
AnswersAreTheFiles ==
  [][\A q \in Lookups :
       reply'[q] # reply[q] /\ reply'[q] # "none" =>
         Says(reply'[q]) \/ Misled \/ (reply'[q] = None /\ MayFail)]_queryVars

\* From now on every answer given is a.
OnlyAnswers(a) == [][\A q \in Lookups : reply'[q] \in {reply[q], "none", a}]_queryVars

\* Once the file is readable and settled, lookups that fail come right without a restart:
\* neither a start before the file or its table existed, nor a transient fault, nor a
\* rename or a restore in place that makes the cached handle fail leaves them failing.  A
\* handle that answers without an error from something else is another matter: Misled.
Recovers ==
  \A a \in Answers : <>[](Says(a) /\ ~Misled) => <>OnlyAnswers(a)

\* The comment on dropping the handle: a cached handle that outlives "the file
\* replaced by a backup restore or an atomic deploy rename" is dropped "so the
\* next request reopens from scratch".  Lookups then come to follow a rename.
FollowsRename ==
  \A a \in Answers : <>[]Says(a) => <>OnlyAnswers(a)
=============================================================================

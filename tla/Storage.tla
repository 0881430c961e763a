------------------------------ MODULE Storage -------------------------------
(***************************************************************************)
(* insert_key and the delete closure of wkdmgr-mgmt statement by statement, *)
(* on several connections to one SQLite file in WAL mode.  Inside one      *)
(* process a mutex lets only one connection at a time do this; two         *)
(* processes overlap when a new wkdmgr-mgmt is started (it removes the      *)
(* socket it finds and binds its own) before the old one is gone.          *)
(*                                                                         *)
(* A transaction is DEFERRED: its first SELECT fixes the snapshot it reads, *)
(* its first write takes the one write lock, which SQLite grants only while *)
(* the snapshot is still the latest commit.                                *)
(***************************************************************************)
EXTENDS KeyTable

CONSTANTS
  Writers,   \* connections of wkdmgr-mgmt processes
  Uploads,   \* the new keys uploads bring
  MaxId      \* bound: ids handed out before uploads stop coming

ASSUME UploadsType == Uploads \subseteq NewKeys
ASSUME MaxIdType   == MaxId \in Nat
ASSUME NoneIsNoWriter == None \notin Writers

VARIABLES tx,    \* the statement each connection is about to run, and its data
          lock   \* the connection holding the write lock

storageVars == <<rows, lastId, tx, lock>>

\* pc: the next statement.  key, replace: insert_key's arguments.  id, uid: the
\* delete closure's.  base: the snapshot.  view, seq: the snapshot with the
\* transaction's own writes.
Idle == [pc |-> "idle", key |-> None, replace |-> None, id |-> 0, uid |-> None,
         base |-> <<{}, 0>>, view |-> {}, seq |-> 0]

StorageInit ==
  /\ TableInit
  /\ tx = [w \in Writers |-> Idle]
  /\ lock = None

Free == lock = None

-----------------------------------------------------------------------------
(* insert_key. *)

\* A handler calls insert_key.
CallInsert(w, n, replace) ==
  /\ tx[w].pc = "idle"
  /\ lastId < MaxId
  /\ tx' = [tx EXCEPT ![w] = [Idle EXCEPT !.pc = "select", !.key = n, !.replace = replace]]
  /\ UNCHANGED <<rows, lastId, lock>>

\* Mutant of AfterSelect: the row that is replaced is not deleted first.
AfterSelectKeepsOld(owner, n, replace) ==
  CASE InsertOutcome(owner, n, replace) \in {"created", "replaced"} -> "insert"
    [] OTHER -> "idle"

\* Mutant of AfterSelect: any authorisation deletes whoever's row is there.
AfterSelectTrusting(owner, n, replace) ==
  CASE owner = None                        -> "insert"
    [] owner \notin {None, n.uid} /\ replace # None -> "delete"
    [] OTHER                               -> "idle"

\* What the match sends the transaction to; "idle" is an early return, which
\* drops the transaction.
AfterSelect(owner, n, replace) ==
  CASE InsertOutcome(owner, n, replace) = "created"  -> "insert"
    [] InsertOutcome(owner, n, replace) = "replaced" -> "delete"
    [] OTHER -> "idle"

\* BEGIN and SELECT uid: the snapshot, and the match on the uid found in it.
SelectOwner(w) ==
  LET step == AfterSelect(OwnerIn(rows, tx[w].key.slot), tx[w].key, tx[w].replace)
  IN /\ tx[w].pc = "select"
     /\ tx' = [tx EXCEPT ![w] = IF step = "idle" THEN Idle
                                ELSE [@ EXCEPT !.pc = step, !.base = tableVars,
                                               !.view = rows, !.seq = lastId]]
     /\ UNCHANGED <<rows, lastId, lock>>

\* The snapshot of w is the latest commit.  A commit that changed anything is
\* told apart by the table: an insert moves the sequence, which never goes back,
\* and a deleted row never returns.
Current(w) == tx[w].base = tableVars

\* Mutant of MayWrite: without a transaction around them each statement runs on the
\* connection by itself, so nothing ties the write to the earlier read.
MayWriteStale(w) == lock = w \/ Free

\* conn.transaction() is DEFERRED: the SELECT takes the snapshot, and the first write
\* the lock, which fails if another connection has committed since.
MayWrite(w) == lock = w \/ (Free /\ Current(w))

\* Mutant of DeleteOld: the statement runs on the connection before the
\* transaction is begun, and commits by itself.
DeleteOldCommits(w) ==
  /\ tx[w].pc = "delete"
  /\ MayWrite(w)
  /\ rows' = rows \ AtIn(rows, tx[w].key.slot)
  /\ tx' = [tx EXCEPT ![w].pc = "insert",
                      ![w].base = <<rows', lastId>>, ![w].view = rows']
  /\ UNCHANGED <<lastId, lock>>

\* DELETE FROM keys WHERE domain = ? AND wkd_hash = ?
DeleteOld(w) ==
  /\ tx[w].pc = "delete"
  /\ MayWrite(w)
  /\ lock' = w
  /\ tx' = [tx EXCEPT ![w].pc = "insert",
                      ![w].view = @ \ AtIn(@, tx[w].key.slot)]
  /\ UNCHANGED <<rows, lastId>>

\* UNIQUE(domain, wkd_hash), checked when the INSERT runs.
UniqueHolds(w) == AtIn(tx[w].view, tx[w].key.slot) = {}

\* INSERT INTO keys.
InsertRow(w) ==
  /\ tx[w].pc = "insert"
  /\ MayWrite(w)
  /\ UniqueHolds(w)
  /\ lock' = w
  /\ tx' = [tx EXCEPT ![w].pc = "commit", ![w].seq = @ + 1,
                      ![w].view = @ \cup {RowFor(tx[w].seq + 1, tx[w].key)}]
  /\ UNCHANGED <<rows, lastId>>

\* tx.commit().
Commit(w) ==
  /\ tx[w].pc = "commit"
  /\ rows' = tx[w].view
  /\ lastId' = tx[w].seq
  /\ tx' = [tx EXCEPT ![w] = Idle]
  /\ lock' = None

-----------------------------------------------------------------------------
(* The closure of delete_key: two statements, each its own transaction. *)

CallDelete(w, i, u) ==
  /\ tx[w].pc = "idle"
  /\ tx' = [tx EXCEPT ![w] = [Idle EXCEPT !.pc = "list", !.id = i, !.uid = u]]
  /\ UNCHANGED <<rows, lastId, lock>>

\* list_keys_for_uid and the search for the id in its result.
List(w) ==
  /\ tx[w].pc = "list"
  /\ tx' = IF \E k \in ListKeysForUid(tx[w].uid) : k.id = tx[w].id
           THEN [tx EXCEPT ![w].pc = "remove"]
           ELSE [tx EXCEPT ![w] = Idle]
  /\ UNCHANGED <<rows, lastId, lock>>

\* delete_key_for_uid: it may find the listed row gone.
Remove(w) ==
  /\ tx[w].pc = "remove"
  /\ Free
  /\ rows' = rows \ Deletable(tx[w].id, tx[w].uid)
  /\ tx' = [tx EXCEPT ![w] = Idle]
  /\ UNCHANGED <<lastId, lock>>

-----------------------------------------------------------------------------
\* A statement fails (busy, stale snapshot, I/O) or the process dies: an open
\* transaction is rolled back and its lock released.
RollBack(w) ==
  /\ tx[w].pc # "idle"
  /\ tx' = [tx EXCEPT ![w] = Idle]
  /\ lock' = IF lock = w THEN None ELSE lock
  /\ UNCHANGED <<rows, lastId>>

StorageNext ==
  \E w \in Writers :
    \/ \E n \in Uploads, replace \in Uids \cup {None} : CallInsert(w, n, replace)
    \/ \E i \in 1..MaxId, u \in Uids : CallDelete(w, i, u)
    \/ SelectOwner(w) \/ DeleteOld(w) \/ InsertRow(w) \/ Commit(w)
    \/ List(w) \/ Remove(w) \/ RollBack(w)

StorageSpec == StorageInit /\ [][StorageNext]_storageVars

-----------------------------------------------------------------------------
\* What a connection can be at.
Transactions ==
  [pc: {"idle", "select", "delete", "insert", "commit", "list", "remove"},
   key: Uploads \cup {None}, replace: Uids \cup {None}, id: Nat, uid: Uids \cup {None},
   base: (SUBSET Rows) \X Nat, view: SUBSET Rows, seq: Nat]

\* The table, the lock and every transaction's own view stay well typed.
StorageTypeOK ==
  /\ TableTypeOK
  /\ lock \in Writers \cup {None}
  /\ tx \in [Writers -> Transactions]

\* The transaction sees the conflict before the constraint does: an INSERT never
\* runs into UNIQUE(domain, wkd_hash), which would reach the client as a 500
\* where it is owed a 409.
UniqueNeverFires == \A w \in Writers : tx[w].pc = "insert" => UniqueHolds(w)

\* Uncommitted writes are built on the latest commit, by one connection at a
\* time, so that a commit never buries another one.
WritesOnLatest ==
  \A w \in Writers :
    <<tx[w].view, tx[w].seq>> # tx[w].base => lock = w /\ Current(w)

\* Statement by statement, over any number of connections and with a failure
\* anywhere, the table changes as if insert_key and delete_key_for_uid were
\* atomic: no commit is buried, none is half done.
StoresAtomically == TableSpec

\* A commit is insert_key with the arguments of its own call on the table as it
\* is at the commit: the row it takes away is still that of the uid the caller
\* named, whatever was committed since the caller's UserDb check.
CommitsAsCalled ==
  [][\A w \in Writers : Commit(w) => InsertKey(tx[w].key, tx[w].replace)]_storageVars

\* An upload that takes over a slot never leaves it empty, not even for a moment
\* or when it fails half way: a row disappears without a successor only if its
\* own uid deletes it by its id.
TakeoverLeavesNoGap ==
  [][\A k \in rows \ rows' :
       \/ \E w \in Writers : tx[w].pc = "remove" /\ tx[w].id = k.id /\ tx[w].uid = k.uid
       \/ \E l \in rows' : l.slot = k.slot]_storageVars
=============================================================================

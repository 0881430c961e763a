--------------------------- MODULE StorageProofs ----------------------------
(***************************************************************************)
(* Statement by statement, Storage implements the atomic KeyTable: a       *)
(* theorem for any number of connections, users, slots and uploads.        *)
(***************************************************************************)
EXTENDS Storage, KeyTableProofs

\* What insert_key decides on the snapshot of w.
BaseOutcome(w) ==
  InsertOutcome(OwnerIn(tx[w].base[1], tx[w].key.slot), tx[w].key, tx[w].replace)

\* The snapshot of w without the rows its insert replaces.
Cleared(w) ==
  IF BaseOutcome(w) = "replaced" THEN tx[w].base[1] \ AtIn(tx[w].base[1], tx[w].key.slot)
                                 ELSE tx[w].base[1]

\* How far a transaction has got, in terms of its snapshot.
Progress(w) ==
  /\ tx[w].pc \in {"select", "delete", "insert", "commit"} =>
       tx[w].key \in Uploads /\ tx[w].replace \in Uids \cup {None}
  /\ tx[w].pc = "delete" =>
       /\ BaseOutcome(w) = "replaced"
       /\ tx[w].view = tx[w].base[1] /\ tx[w].seq = tx[w].base[2]
  /\ tx[w].pc = "insert" =>
       /\ BaseOutcome(w) \in {"created", "replaced"}
       /\ BaseOutcome(w) = "replaced" => lock = w
       /\ tx[w].view = Cleared(w) /\ tx[w].seq = tx[w].base[2]
  /\ tx[w].pc = "commit" =>
       /\ BaseOutcome(w) \in {"created", "replaced"}
       /\ lock = w
       /\ tx[w].view = Cleared(w) \cup {RowFor(tx[w].base[2] + 1, tx[w].key)}
       /\ tx[w].seq = tx[w].base[2] + 1
  /\ tx[w].pc \in {"idle", "select", "list", "remove"} =>
       tx[w].view = {} /\ tx[w].seq = 0 /\ tx[w].base = <<{}, 0>>
  /\ lock = w => Current(w) /\ tx[w].pc \in {"insert", "commit"}

TxInv == StorageTypeOK /\ \A w \in Writers : Progress(w)

-----------------------------------------------------------------------------
(* The invariant. *)

\* No connection has anything open at the start.
LEMMA InitTxInv == StorageInit => TxInv
  BY NoneIsNoWriter
  DEF StorageInit, TableInit, TxInv, StorageTypeOK, Transactions, TableTypeOK, Rows, Idle, Progress

\* What another connection has done so far is untouched by a step that leaves the
\* table, its transaction and its hold on the lock alone.
LEMMA OthersStay ==
  ASSUME NEW q \in Writers, Progress(q), tx'[q] = tx[q], lock' = q => lock = q,
         lock = q => lock' = q, UNCHANGED tableVars
  PROVE  Progress(q)'
  BY DEF Progress, BaseOutcome, Cleared, Current, tableVars

\* A connection with nothing open satisfies its part of the invariant.
LEMMA IdleProgress ==
  ASSUME NEW w \in Writers, tx'[w].pc \in {"idle", "list", "remove"},
         tx'[w].view = {}, tx'[w].seq = 0, tx'[w].base = <<{}, 0>>, lock' # w
  PROVE  Progress(w)'
  BY DEF Progress

\* The fields of a record with nothing open.
LEMMA IdleIsIdle == Idle.pc = "idle" /\ Idle.view = {} /\ Idle.seq = 0 /\ Idle.base = <<{}, 0>>
                    /\ Idle.key = None /\ Idle.replace = None /\ Idle.id = 0 /\ Idle.uid = None
  BY DEF Idle

\* That record is well typed.
LEMMA IdleIsTyped == Idle \in Transactions
  BY DEF Idle, Transactions

\* A step that gives one connection a new well-typed record and leaves the table
\* alone keeps the types.
LEMMA RecordChange ==
  ASSUME StorageTypeOK, NEW w \in Writers, NEW q \in Transactions,
         tx' = [tx EXCEPT ![w] = q], UNCHANGED <<rows, lastId>>,
         lock' \in {lock, w, None}
  PROVE  StorageTypeOK'
  BY DEF StorageTypeOK, TableTypeOK

\* A call of insert_key opens nothing yet.
LEMMA CallInsertInv ==
  ASSUME TxInv, NEW w \in Writers, NEW n \in Uploads, NEW replace \in Uids \cup {None},
         CallInsert(w, n, replace)
  PROVE  TxInv'
  <1>1. StorageTypeOK'
    <2> DEFINE q == [Idle EXCEPT !.pc = "select", !.key = n, !.replace = replace]
    <2>1. q \in Transactions
      BY IdleIsTyped DEF Transactions
    <2>2. tx' = [tx EXCEPT ![w] = q] /\ UNCHANGED <<rows, lastId, lock>>
      BY DEF CallInsert
    <2> HIDE DEF q
    <2> QED
      BY <2>1, <2>2, RecordChange DEF TxInv
  <1>2. Progress(w)'
    BY DEF TxInv, StorageTypeOK, Transactions, Progress, CallInsert, Idle
  <1>3. ASSUME NEW q \in Writers, q # w PROVE Progress(q)'
    BY <1>3, OthersStay DEF TxInv, StorageTypeOK, Transactions, CallInsert, tableVars
  <1> QED
    BY <1>1, <1>2, <1>3 DEF TxInv

\* The first SELECT fixes the snapshot and decides on it.
LEMMA SelectOwnerInv ==
  ASSUME TxInv, NEW w \in Writers, SelectOwner(w)
  PROVE  TxInv'
  <1> DEFINE o    == InsertOutcome(OwnerIn(rows, tx[w].key.slot), tx[w].key, tx[w].replace)
             step == AfterSelect(OwnerIn(rows, tx[w].key.slot), tx[w].key, tx[w].replace)
             q    == [tx[w] EXCEPT !.pc = step, !.base = tableVars,
                                   !.view = rows, !.seq = lastId]
  <1>1. /\ step \in {"insert", "delete", "idle"}
        /\ step = "insert" => o = "created"
        /\ step = "delete" => o = "replaced"
    BY DEF AfterSelect, InsertOutcome
  <1>2. /\ tx[w].pc = "select" /\ UNCHANGED <<rows, lastId, lock>>
        /\ tx' = [tx EXCEPT ![w] = IF step = "idle" THEN Idle ELSE q]
        /\ lock # w
    BY DEF SelectOwner, TxInv, Progress
  <1>3. /\ q.pc = step /\ q.base = <<rows, lastId>> /\ q.view = rows /\ q.seq = lastId
        /\ q.key = tx[w].key /\ q.replace = tx[w].replace
        /\ q.id = tx[w].id /\ q.uid = tx[w].uid
    BY DEF TxInv, StorageTypeOK, Transactions, tableVars
  <1>4. StorageTypeOK'
    <2>1. q \in Transactions
      <3>1. tx[w] \in Transactions /\ rows \in SUBSET Rows /\ lastId \in Nat
        BY DEF TxInv, StorageTypeOK, TableTypeOK
      <3>2. tableVars \in (SUBSET Rows) \X Nat
        BY <3>1 DEF tableVars
      <3> HIDE DEF step
      <3> QED
        BY <1>1, <3>1, <3>2 DEF Transactions
    <2> HIDE DEF q, step
    <2> QED
      BY <1>2, <2>1, IdleIsTyped, RecordChange DEF TxInv
  <1>5. tx'[w] = IF step = "idle" THEN Idle ELSE q
    BY <1>2 DEF TxInv, StorageTypeOK, Transactions
  <1>6. Progress(w)'
    <2>1. CASE step = "idle"
      BY <1>2, <1>5, <2>1, IdleIsIdle, IdleProgress
    <2>2. CASE step # "idle"
      <3>1. tx'[w].pc = step /\ tx'[w].base = <<rows, lastId>> /\ tx'[w].view = rows
            /\ tx'[w].seq = lastId /\ tx'[w].key = tx[w].key /\ tx'[w].replace = tx[w].replace
        BY <1>3, <1>5, <2>2
      <3>2. BaseOutcome(w)' = o
        BY <3>1 DEF BaseOutcome
      <3>3. tx[w].key \in Uploads /\ tx[w].replace \in Uids \cup {None}
        BY <1>2 DEF TxInv, Progress
      <3> HIDE DEF o, step, q
      <3> QED
        BY <1>1, <1>2, <2>2, <3>1, <3>2, <3>3 DEF Progress, Cleared
    <2> QED
      BY <2>1, <2>2
  <1>7. ASSUME NEW v \in Writers, v # w PROVE Progress(v)'
    BY <1>2, <1>7, OthersStay DEF TxInv, StorageTypeOK, Transactions, tableVars
  <1> QED
    BY <1>4, <1>6, <1>7 DEF TxInv

\* The DELETE takes the write lock on a snapshot that is still the latest commit.
LEMMA DeleteOldInv ==
  ASSUME TxInv, NEW w \in Writers, DeleteOld(w)
  PROVE  TxInv'
  <1>1. /\ tx[w].pc = "delete" /\ lock = None /\ Current(w) /\ lock' = w
        /\ UNCHANGED tableVars
    BY DEF DeleteOld, MayWrite, Free, TxInv, Progress, tableVars
  <1>2. StorageTypeOK'
    <2> DEFINE q == [tx[w] EXCEPT !.pc = "insert", !.view = @ \ AtIn(@, tx[w].key.slot)]
    <2>1. q \in Transactions
      <3>1. tx[w] \in Transactions /\ tx[w].view \in SUBSET Rows
        BY DEF TxInv, StorageTypeOK, Transactions
      <3>2. tx[w].view \ AtIn(tx[w].view, tx[w].key.slot) \in SUBSET Rows
        BY <3>1
      <3> QED
        BY <3>1, <3>2 DEF Transactions
    <2>2. tx' = [tx EXCEPT ![w] = q]
      BY DEF DeleteOld, TxInv, StorageTypeOK
    <2> HIDE DEF q
    <2> QED
      BY <1>1, <2>1, <2>2, RecordChange DEF TxInv, tableVars
  <1>3. /\ tx'[w].pc = "insert" /\ tx'[w].view = tx[w].view \ AtIn(tx[w].view, tx[w].key.slot)
        /\ tx'[w].base = tx[w].base /\ tx'[w].seq = tx[w].seq
        /\ tx'[w].key = tx[w].key /\ tx'[w].replace = tx[w].replace
    BY DEF DeleteOld, TxInv, StorageTypeOK, Transactions
  <1>4. Progress(w)'
    BY <1>1, <1>3 DEF TxInv, Progress, BaseOutcome, Cleared, Current, tableVars
  <1>5. ASSUME NEW v \in Writers, v # w PROVE Progress(v)'
    <2>1. tx'[v] = tx[v] /\ lock # v /\ lock' # v
      BY <1>1, <1>5, NoneIsNoWriter DEF DeleteOld, TxInv, StorageTypeOK, Transactions
    <2> QED
      BY <1>1, <2>1, OthersStay DEF TxInv
  <1> QED
    BY <1>2, <1>4, <1>5 DEF TxInv

\* The INSERT gives the row the sequence's next id.
LEMMA InsertRowInv ==
  ASSUME TxInv, NEW w \in Writers, InsertRow(w)
  PROVE  TxInv'
  <1>1. /\ tx[w].pc = "insert" /\ lock \in {None, w} /\ Current(w) /\ lock' = w
        /\ UNCHANGED tableVars
    BY DEF InsertRow, MayWrite, Free, TxInv, Progress, tableVars
  <1>2. tx[w].key \in NewKeys /\ tx[w].seq \in Nat
    BY <1>1, UploadsType DEF TxInv, Progress, StorageTypeOK, Transactions
  <1>3. RowFor(tx[w].seq + 1, tx[w].key) \in Rows
    BY <1>2 DEF RowFor, NewKeys, Rows
  <1>4. StorageTypeOK'
    BY <1>2, <1>3 DEF InsertRow, TxInv, StorageTypeOK, Transactions, TableTypeOK
  <1>5. /\ tx'[w].pc = "commit" /\ tx'[w].seq = tx[w].seq + 1
        /\ tx'[w].view = tx[w].view \cup {RowFor(tx[w].seq + 1, tx[w].key)}
        /\ tx'[w].base = tx[w].base
        /\ tx'[w].key = tx[w].key /\ tx'[w].replace = tx[w].replace
    BY DEF InsertRow, TxInv, StorageTypeOK, Transactions
  <1>6. Progress(w)'
    BY <1>1, <1>5 DEF TxInv, Progress, BaseOutcome, Cleared, Current, tableVars
  <1>7. ASSUME NEW v \in Writers, v # w PROVE Progress(v)'
    <2>1. tx'[v] = tx[v] /\ lock # v /\ lock' # v
      BY <1>1, <1>7, NoneIsNoWriter DEF InsertRow, TxInv, StorageTypeOK, Transactions
    <2> QED
      BY <1>1, <2>1, OthersStay DEF TxInv
  <1> QED
    BY <1>4, <1>6, <1>7 DEF TxInv

\* A commit releases the lock; no other connection had written anything.
LEMMA CommitInv ==
  ASSUME TxInv, NEW w \in Writers, Commit(w)
  PROVE  TxInv'
  <1>1. tx[w].pc = "commit" /\ lock = w /\ lock' = None
    BY DEF Commit, TxInv, Progress
  <1>2. StorageTypeOK'
    BY DEF Commit, TxInv, StorageTypeOK, Transactions, TableTypeOK, Idle
  <1>3. tx'[w] = Idle
    BY DEF Commit, TxInv, StorageTypeOK, Transactions
  <1>4. Progress(w)'
    BY <1>1, <1>3, IdleIsIdle, IdleProgress, NoneIsNoWriter
  <1>5. ASSUME NEW v \in Writers, v # w PROVE Progress(v)'
    <2>1. tx'[v] = tx[v] /\ lock # v /\ lock' # v
      BY <1>1, <1>5, NoneIsNoWriter DEF Commit, TxInv, StorageTypeOK, Transactions
    <2> QED
      BY <2>1 DEF TxInv, Progress, BaseOutcome, Cleared
  <1> QED
    BY <1>2, <1>4, <1>5 DEF TxInv

\* The statements of the delete closure open no transaction, and a row removed
\* is removed under nobody else's write lock.
LEMMA DeleteClosureInv ==
  ASSUME TxInv, NEW w \in Writers,
         (\E i \in 1..MaxId, u \in Uids : CallDelete(w, i, u)) \/ List(w) \/ Remove(w)
  PROVE  TxInv'
  <1>1. ASSUME NEW i \in 1..MaxId, NEW u \in Uids, CallDelete(w, i, u) PROVE TxInv'
    <2>1. StorageTypeOK'
      <3> DEFINE q == [Idle EXCEPT !.pc = "list", !.id = i, !.uid = u]
      <3>1. q \in Transactions
        <4>1. q = [Idle EXCEPT !.pc = "list", !.id = i, !.uid = u] /\ Idle \in Transactions
          BY IdleIsTyped
        <4>2. i \in Nat
          BY MaxIdType
        <4> HIDE DEF q
        <4> QED
          BY <4>1, <4>2 DEF Transactions
      <3>2. tx' = [tx EXCEPT ![w] = q] /\ UNCHANGED <<rows, lastId, lock>>
        BY <1>1 DEF CallDelete
      <3> HIDE DEF q
      <3> QED
        BY <3>1, <3>2, RecordChange DEF TxInv, StorageTypeOK
    <2>2. Progress(w)'
      BY <1>1 DEF TxInv, StorageTypeOK, Transactions, Progress, CallDelete, Idle
    <2>3. ASSUME NEW q \in Writers, q # w PROVE Progress(q)'
      BY <1>1, <2>3, OthersStay DEF TxInv, StorageTypeOK, Transactions, CallDelete, tableVars
    <2> QED
      BY <2>1, <2>2, <2>3 DEF TxInv
  <1>2. CASE List(w)
    <2>1. StorageTypeOK'
      <3> DEFINE q == [tx[w] EXCEPT !.pc = "remove"]
      <3>1. q \in Transactions
        BY DEF TxInv, StorageTypeOK, Transactions
      <3>2. (tx' = [tx EXCEPT ![w] = q] \/ tx' = [tx EXCEPT ![w] = Idle])
            /\ UNCHANGED <<rows, lastId, lock>>
        BY <1>2 DEF List
      <3> HIDE DEF q
      <3> QED
        BY <3>1, <3>2, IdleIsTyped, RecordChange DEF TxInv, StorageTypeOK
    <2>2. Progress(w)'
      <3>1. tx'[w] = Idle \/ tx'[w] = [tx[w] EXCEPT !.pc = "remove"]
        BY <1>2 DEF List, TxInv, StorageTypeOK, Transactions
      <3>2. tx[w].view = {} /\ tx[w].seq = 0 /\ tx[w].base = <<{}, 0>> /\ lock' # w
        BY <1>2 DEF List, TxInv, Progress
      <3>3. tx'[w].pc \in {"idle", "remove"} /\ tx'[w].view = {} /\ tx'[w].seq = 0
            /\ tx'[w].base = <<{}, 0>>
        BY <3>1, <3>2, IdleIsIdle DEF TxInv, StorageTypeOK, Transactions
      <3> QED
        BY <3>2, <3>3, IdleProgress
    <2>3. ASSUME NEW q \in Writers, q # w PROVE Progress(q)'
      BY <1>2, <2>3, OthersStay DEF TxInv, StorageTypeOK, Transactions, List, tableVars
    <2> QED
      BY <2>1, <2>2, <2>3 DEF TxInv
  <1>3. CASE Remove(w)
    <2>1. StorageTypeOK'
      BY <1>3 DEF Remove, TxInv, StorageTypeOK, Transactions, TableTypeOK, Idle
    <2>2. tx'[w] = Idle /\ lock = None /\ lock' = None
      BY <1>3 DEF Remove, Free, TxInv, StorageTypeOK, Transactions
    <2>3. Progress(w)'
      BY <2>2, IdleIsIdle, IdleProgress, NoneIsNoWriter
    <2>4. ASSUME NEW q \in Writers, q # w PROVE Progress(q)'
      <3>1. tx'[q] = tx[q] /\ lock # q /\ lock' # q
        BY <1>3, <2>2, <2>4, NoneIsNoWriter DEF Remove, TxInv, StorageTypeOK, Transactions
      <3> QED
        BY <3>1 DEF TxInv, Progress, BaseOutcome, Cleared
    <2> QED
      BY <2>1, <2>3, <2>4 DEF TxInv
  <1> QED
    BY <1>1, <1>2, <1>3

\* A rollback leaves nothing of the transaction.
LEMMA RollBackInv ==
  ASSUME TxInv, NEW w \in Writers, RollBack(w)
  PROVE  TxInv'
  <1>1. StorageTypeOK'
    BY DEF RollBack, TxInv, StorageTypeOK, Transactions, TableTypeOK, Idle
  <1>2. tx'[w] = Idle /\ lock' # w
    BY NoneIsNoWriter DEF RollBack, TxInv, StorageTypeOK, Transactions
  <1>3. Progress(w)'
    BY <1>2, IdleIsIdle, IdleProgress
  <1>4. ASSUME NEW q \in Writers, q # w PROVE Progress(q)'
    BY <1>4, OthersStay, NoneIsNoWriter DEF RollBack, TxInv, StorageTypeOK, Transactions, tableVars
  <1> QED
    BY <1>1, <1>3, <1>4 DEF TxInv

\* Every statement of every connection preserves the invariant.
LEMMA NextTxInv == TxInv /\ [StorageNext]_storageVars => TxInv'
  <1> SUFFICES ASSUME TxInv, [StorageNext]_storageVars PROVE TxInv'
    OBVIOUS
  <1>1. CASE UNCHANGED storageVars
    BY <1>1 DEF storageVars, TxInv, StorageTypeOK, Transactions, TableTypeOK, Progress, BaseOutcome,
                Cleared, Current, tableVars
  <1> QED
    BY <1>1, CallInsertInv, SelectOwnerInv, DeleteOldInv, InsertRowInv, CommitInv,
       DeleteClosureInv, RollBackInv DEF StorageNext

\* Whatever fails and however connections interleave, TxInv holds.
THEOREM TransactionInvariant == StorageSpec => []TxInv
  BY InitTxInv, NextTxInv, PTL DEF StorageSpec

-----------------------------------------------------------------------------
(* What follows from it. *)

\* Table, lock and transactions keep their types.
THEOREM StorageTyped == StorageSpec => []StorageTypeOK
  <1>1. TxInv => StorageTypeOK
    BY DEF TxInv
  <1> QED
    BY <1>1, TransactionInvariant, PTL

\* insert_key decides its conflicts before SQLite does: no INSERT ever meets the
\* UNIQUE constraint, on any number of connections.
THEOREM InsertMeetsNoConstraint == StorageSpec => []UniqueNeverFires
  <1>1. TxInv => UniqueNeverFires
    <2> SUFFICES ASSUME TxInv, NEW w \in Writers, tx[w].pc = "insert" PROVE UniqueHolds(w)
      BY DEF UniqueNeverFires
    <2> DEFINE s == tx[w].key.slot
    <2>1. tx[w].view = Cleared(w) /\ BaseOutcome(w) \in {"created", "replaced"}
      BY DEF TxInv, Progress
    <2>2. CASE BaseOutcome(w) = "replaced"
      BY <2>1, <2>2 DEF Cleared, UniqueHolds, AtIn
    <2>3. CASE BaseOutcome(w) = "created"
      <3>1. OwnerIn(tx[w].base[1], s) = None
        BY <2>3 DEF BaseOutcome, InsertOutcome
      <3>2. tx[w].base[1] \subseteq Rows
        BY DEF TxInv, StorageTypeOK, Transactions
      <3>3. AtIn(tx[w].base[1], s) = {}
        BY <3>1, <3>2, OwnerInType
      <3> QED
        BY <2>1, <2>3, <3>3 DEF Cleared, UniqueHolds
    <2> QED
      BY <2>1, <2>2, <2>3
  <1> QED
    BY <1>1, TransactionInvariant, PTL

\* Uncommitted writes always extend the latest commit, under the write lock.
THEOREM NoLostCommit == StorageSpec => []WritesOnLatest
  <1>1. TxInv => WritesOnLatest
    <2> SUFFICES ASSUME TxInv, NEW w \in Writers, <<tx[w].view, tx[w].seq>> # tx[w].base
                 PROVE  lock = w /\ Current(w)
      BY DEF WritesOnLatest
    <2>1. tx[w].base = <<tx[w].base[1], tx[w].base[2]>>
      BY DEF TxInv, StorageTypeOK, Transactions
    <2>2. tx[w].pc \in {"insert", "commit"} /\ lock = w
      BY <2>1 DEF TxInv, StorageTypeOK, Transactions, Progress, Cleared
    <2> QED
      BY <2>2 DEF TxInv, Progress
  <1> QED
    BY <1>1, TransactionInvariant, PTL

\* The commit of w is insert_key with w's own arguments on the current table.
LEMMA CommitIsInsertKey ==
  ASSUME TxInv, NEW w \in Writers, Commit(w)
  PROVE  /\ tx[w].key \in NewKeys /\ tx[w].replace \in Uids \cup {None}
         /\ InsertKey(tx[w].key, tx[w].replace)
  <1> DEFINE n == tx[w].key
             p == tx[w].replace
  <1>1. /\ n \in NewKeys /\ p \in Uids \cup {None}
        /\ BaseOutcome(w) \in {"created", "replaced"}
        /\ tx[w].view = Cleared(w) \cup {RowFor(tx[w].base[2] + 1, n)}
        /\ tx[w].seq = tx[w].base[2] + 1
        /\ tx[w].base = tableVars
    BY UploadsType DEF Commit, TxInv, Progress, Current
  <1>2. tx[w].base[1] = rows /\ tx[w].base[2] = lastId
    BY <1>1 DEF tableVars
  <1>3. BaseOutcome(w) = Outcome(n, p)
    BY <1>2 DEF BaseOutcome, Outcome, ExistingOwner
  <1>4. Cleared(w) = rows \ ReplacedRows(n, p)
    BY <1>2, <1>3 DEF Cleared, ReplacedRows, At
  <1>5. InsertKey(n, p)
    BY <1>1, <1>2, <1>3, <1>4 DEF Commit, InsertKey, InsertAllowed, NextId
  <1> QED
    BY <1>1, <1>5

\* The delete closure's second statement is an atomic delete_key_for_uid, or
\* finds the row gone and changes nothing.
LEMMA RemoveIsDelete ==
  ASSUME TxInv, NEW w \in Writers, Remove(w)
  PROVE  [TableNext]_tableVars
  <1>1. CASE Deletable(tx[w].id, tx[w].uid) = {}
    BY <1>1 DEF Remove, tableVars
  <1>2. CASE Deletable(tx[w].id, tx[w].uid) # {}
    <2>1. PICK k \in rows : k.id = tx[w].id /\ k.uid = tx[w].uid
      BY <1>2 DEF Deletable
    <2>2. DeleteKeyForUid(k.id, k.uid)
      BY <1>2, <2>1 DEF Remove, DeleteKeyForUid
    <2> QED
      BY <2>2 DEF TableNext
  <1> QED
    BY <1>1, <1>2

\* No statement but a commit and the DELETE of delete_key_for_uid touches the
\* committed table.
LEMMA OthersKeepTable ==
  ASSUME NEW w \in Writers,
         \/ \E n \in Uploads, replace \in Uids \cup {None} : CallInsert(w, n, replace)
         \/ \E i \in 1..MaxId, u \in Uids : CallDelete(w, i, u)
         \/ SelectOwner(w) \/ DeleteOld(w) \/ InsertRow(w) \/ List(w) \/ RollBack(w)
  PROVE  UNCHANGED tableVars
  BY DEF CallInsert, CallDelete, SelectOwner, DeleteOld, InsertRow, List, RollBack, tableVars

\* Every step is a step of the atomic table, or leaves it alone.
LEMMA StatementIsAtomic == TxInv /\ [StorageNext]_storageVars => [TableNext]_tableVars
  <1> SUFFICES ASSUME TxInv, [StorageNext]_storageVars PROVE [TableNext]_tableVars
    OBVIOUS
  <1>1. CASE UNCHANGED storageVars
    BY <1>1 DEF storageVars, tableVars
  <1>2. ASSUME NEW w \in Writers, Commit(w) PROVE TableNext
    BY <1>2, CommitIsInsertKey DEF TableNext
  <1> QED
    BY <1>1, <1>2, OthersKeepTable, RemoveIsDelete DEF StorageNext

\* The transactions of insert_key and delete_key, statement by statement and on
\* any number of connections, implement their atomic counterparts.
THEOREM StorageIsAtomic == StorageSpec => StoresAtomically
  <1>1. StorageInit => TableInit
    BY DEF StorageInit
  <1> QED
    BY <1>1, TransactionInvariant, StatementIsAtomic, PTL
    DEF StorageSpec, StoresAtomically, TableSpec

\* Every commit is the insert_key its caller asked for, decided on the table as it
\* is at that moment.
THEOREM CommitsAreTheCalls == StorageSpec => CommitsAsCalled
  <1> DEFINE AsCalled == \A w \in Writers : Commit(w) => InsertKey(tx[w].key, tx[w].replace)
  <1>1. TxInv => AsCalled
    BY CommitIsInsertKey
  <1>2. TxInv /\ [StorageNext]_storageVars => [AsCalled]_storageVars
    BY <1>1
  <1> HIDE DEF AsCalled
  <1>3. StorageSpec => [][AsCalled]_storageVars
    BY <1>2, TransactionInvariant, PTL DEF StorageSpec
  <1> QED
    BY <1>3 DEF CommitsAsCalled, AsCalled

\* A row that disappears without a successor at its slot was deleted by its uid.
LEMMA StepLeavesNoGap ==
  ASSUME TxInv, [StorageNext]_storageVars, NEW k \in rows \ rows'
  PROVE  \/ \E w \in Writers : tx[w].pc = "remove" /\ tx[w].id = k.id /\ tx[w].uid = k.uid
         \/ \E l \in rows' : l.slot = k.slot
  <1>1. rows' # rows
    OBVIOUS
  <1>2. PICK w \in Writers : Commit(w) \/ Remove(w)
    BY <1>1, OthersKeepTable DEF StorageNext, storageVars, tableVars
  <1>3. CASE Commit(w)
    <2> DEFINE n == tx[w].key
               p == tx[w].replace
    <2>1. n \in NewKeys /\ InsertKey(n, p)
      BY <1>3, CommitIsInsertKey
    <2>2. /\ rows' = (rows \ At(n.slot)) \cup {RowFor(NextId, n)}
          /\ RowFor(NextId, n).slot = n.slot
      BY <2>1, InsertKeyEffect, NewRow DEF TxInv, StorageTypeOK
    <2>3. k.slot = n.slot
      BY <2>2 DEF At, AtIn
    <2> QED
      BY <2>2, <2>3
  <1>4. CASE Remove(w)
    BY <1>4 DEF Remove, Deletable
  <1> QED
    BY <1>2, <1>3, <1>4

\* No upload, completed or failed, ever empties a slot.
THEOREM NoGap == StorageSpec => TakeoverLeavesNoGap
  <1> DEFINE NoGapStep ==
        \A k \in rows \ rows' :
          \/ \E w \in Writers : tx[w].pc = "remove" /\ tx[w].id = k.id /\ tx[w].uid = k.uid
          \/ \E l \in rows' : l.slot = k.slot
  <1>1. TxInv /\ [StorageNext]_storageVars => NoGapStep
    BY StepLeavesNoGap
  <1>2. TxInv /\ [StorageNext]_storageVars => [NoGapStep]_storageVars
    BY <1>1
  <1> HIDE DEF NoGapStep
  <1>3. StorageSpec => [][NoGapStep]_storageVars
    BY <1>2, TransactionInvariant, PTL DEF StorageSpec
  <1> QED
    BY <1>3 DEF TakeoverLeavesNoGap, NoGapStep

\* Hence readers of the database see a directory, whatever the transactions do.
THEOREM StorageIsDirectory == StorageSpec => IsDirectory
  BY StorageIsAtomic, TableIsDirectory DEF StoresAtomically
=============================================================================

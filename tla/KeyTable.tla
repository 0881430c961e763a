------------------------------ MODULE KeyTable ------------------------------
(***************************************************************************)
(* The `keys` table of the wkdmgr database and the statements that         *)
(* wkdmgr-core/src/storage.rs runs against it, each as one atomic step.    *)
(*                                                                         *)
(* A slot stands for one pair (domain, wkd_hash), the table's UNIQUE key.  *)
(* A cert stands for an uploaded certificate, hence for its fingerprint    *)
(* and its minimized key_data.  Times are whole seconds, the precision of  *)
(* rfc3339_secs, and Never is the NULL of expires_at.                      *)
(***************************************************************************)
EXTENDS Integers, FiniteSets

CONSTANTS Uids, Slots, Certs, Expiries, Never, None

ASSUME NeverIsNoTime == Never \notin Nat
ASSUME ExpiriesType  == Expiries \subseteq Nat \cup {Never}
ASSUME NoneIsNoUid   == None \notin Uids
ASSUME NoneIsNoSlot  == None \notin Slots
ASSUME NoneIsNoEntry == None \notin [uid: Uids, cert: Certs]

VARIABLES rows,    \* the committed rows of table keys
          lastId   \* sqlite_sequence: the largest id AUTOINCREMENT ever gave

tableVars == <<rows, lastId>>

NewKeys == [uid: Uids, slot: Slots, cert: Certs, revoked: BOOLEAN, expires: Expiries]

Rows == [id: Nat \ {0}, uid: Uids, slot: Slots, cert: Certs,
         revoked: BOOLEAN, expires: Expiries]

TableTypeOK == rows \subseteq Rows /\ lastId \in Nat

-----------------------------------------------------------------------------
(* Queries. *)

\* The rows a WHERE domain = ? AND wkd_hash = ? selects of a set of rows, and
\* the uid that SELECT uid returns of them, None when there is no row.
AtIn(view, s) == {k \in view : k.slot = s}

OwnerIn(view, s) ==
  IF AtIn(view, s) = {} THEN None ELSE (CHOOSE k \in AtIn(view, s) : TRUE).uid

At(s) == AtIn(rows, s)

\* existing_owner: the uid on file at the slot.
ExistingOwner(s) == OwnerIn(rows, s)

\* list_keys_for_uid, its order left out.
ListKeysForUid(u) == {k \in rows : k.uid = u}

\* Mutant of Served: the expiry comparison is missing from the statement.
ServedPastExpiry(k, t) == ~k.revoked

\* The filter of lookup_key_data: neither revoked nor expired at time t.
Served(k, t) == ~k.revoked /\ (k.expires = Never \/ k.expires > t)

\* lookup_key_data at time t: the rows whose bytes the statement can return.
LookupKeyData(s, t) == {k \in At(s) : Served(k, t)}

-----------------------------------------------------------------------------
(* Statements that write. *)

\* Mutant of NextId: the id is read from the sequence before it is advanced.
LastIdAgain == lastId

\* Mutant of NextId: INTEGER PRIMARY KEY without AUTOINCREMENT, one more than the
\* largest id in the table.
RecycledId ==
  IF rows = {} THEN 1
  ELSE 1 + (CHOOSE k \in rows : \A l \in rows : l.id <= k.id).id

\* AUTOINCREMENT: larger than every id ever given, deleted rows included.
NextId == lastId + 1

RowFor(i, n) == [id |-> i, uid |-> n.uid, slot |-> n.slot, cert |-> n.cert,
                 revoked |-> n.revoked, expires |-> n.expires]

\* Mutant of InsertOutcome: an upload over one's own key replaces it silently.
OverwritesOwn(owner, n, replace) ==
  CASE owner = None             -> "created"
    [] owner \in {n.uid, replace} \ {None} -> "replaced"
    [] OTHER                    -> "ownedByOther"

\* Mutant of InsertOutcome: the authorisation is the bare conclusion "may replace"
\* and not the uid it was reached about.
TrustsEarlierCheck(owner, n, replace) ==
  CASE owner = None    -> "created"
    [] owner = n.uid   -> "duplicate"
    [] replace # None /\ owner \notin {None, n.uid} -> "replaced"
    [] OTHER           -> "ownedByOther"

\* The match on existing_uid in insert_key: what becomes of new key n when the
\* slot's row belongs to owner and the caller authorised replacing a row of
\* uid `replace`.
InsertOutcome(owner, n, replace) ==
  CASE owner = None    -> "created"
    [] owner = n.uid   -> "duplicate"
    [] owner = replace /\ owner \notin {None, n.uid} -> "replaced"
    [] OTHER           -> "ownedByOther"

Outcome(n, replace) == InsertOutcome(ExistingOwner(n.slot), n, replace)

\* Mutant of ReplacedRows: the DELETE is forgotten.
NothingReplaced(n, replace) == {}

\* The DELETE before the INSERT, issued only on an authorised replacement.
ReplacedRows(n, replace) ==
  IF Outcome(n, replace) = "replaced" THEN At(n.slot) ELSE {}

InsertAllowed(n, replace) ==
  Outcome(n, replace) \in {"created", "replaced"}

\* insert_key when it returns Ok: the replaced row goes and the new one comes
\* in one transaction.
InsertKey(n, replace) ==
  /\ InsertAllowed(n, replace)
  /\ rows' = (rows \ ReplacedRows(n, replace)) \cup {RowFor(NextId, n)}
  /\ lastId' = NextId

\* The row DELETE ... WHERE id = ? AND uid = ? removes, if there is one.
Deletable(i, u) == {k \in rows : k.id = i /\ k.uid = u}

\* delete_key_for_uid when it returns true.
DeleteKeyForUid(i, u) ==
  /\ Deletable(i, u) # {}
  /\ rows' = rows \ Deletable(i, u)
  /\ UNCHANGED lastId

-----------------------------------------------------------------------------
TableInit == rows = {} /\ lastId = 0

TableNext ==
  \/ \E n \in NewKeys, replace \in Uids \cup {None} : InsertKey(n, replace)
  \/ \E k \in rows : DeleteKeyForUid(k.id, k.uid)

TableSpec == TableInit /\ [][TableNext]_tableVars

-----------------------------------------------------------------------------
\* UNIQUE(domain, wkd_hash): no slot ever has two rows, so a lookup never
\* depends on which of them SQLite finds first, and the insert_key transaction
\* never runs into the constraint it was written to anticipate.
OneRowPerSlot == \A k, l \in rows : k.slot = l.slot => k = l

\* Row ids are distinct and bounded by the sequence, so an id a client has seen
\* names the same row as long as that row exists.
IdsAreKeys ==
  /\ \A k, l \in rows : k.id = l.id => k = l
  /\ \A k \in rows : k.id <= lastId

-----------------------------------------------------------------------------
\* What the outside sees of the table: who publishes which key at each slot.
Published ==
  [s \in Slots |-> IF At(s) = {} THEN None
                   ELSE LET k == CHOOSE k \in At(s) : TRUE
                        IN [uid |-> k.uid, cert |-> k.cert]]

D == INSTANCE Directory WITH entry <- Published

\* The table implements the directory: a replacement is one step, so no reader
\* ever finds the slot empty in between, and a user's own publication is never
\* overwritten in place.
IsDirectory == D!Spec
=============================================================================

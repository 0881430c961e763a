--------------------------- MODULE KeyTableProofs ---------------------------
(***************************************************************************)
(* Theorems about the `keys` table, for every set of users, slots and      *)
(* certificates: its invariants, and that it implements Directory.         *)
(***************************************************************************)
EXTENDS KeyTable, TLAPS

TableInv == TableTypeOK /\ OneRowPerSlot /\ IdsAreKeys

\* SELECT uid on any set of rows answers a uid or nothing, and nothing only when
\* no row is at the slot.
LEMMA OwnerInType ==
  ASSUME NEW view, view \subseteq Rows, NEW s
  PROVE  /\ OwnerIn(view, s) \in Uids \cup {None}
         /\ OwnerIn(view, s) = None <=> AtIn(view, s) = {}
         /\ AtIn(view, s) # {} => \E k \in AtIn(view, s) : OwnerIn(view, s) = k.uid
  <1>1. CASE AtIn(view, s) = {}
    BY <1>1 DEF OwnerIn
  <1>2. CASE AtIn(view, s) # {}
    <2>1. PICK k \in AtIn(view, s) : k = CHOOSE l \in AtIn(view, s) : TRUE
      BY <1>2
    <2>2. k.uid \in Uids
      BY DEF AtIn, Rows
    <2> QED
      BY <1>2, <2>1, <2>2, NoneIsNoUid DEF OwnerIn
  <1> QED
    BY <1>1, <1>2

\* existing_owner is that SELECT on the committed rows.
LEMMA ExistingOwnerType ==
  ASSUME TableTypeOK, NEW s \in Slots
  PROVE  /\ ExistingOwner(s) \in Uids \cup {None}
         /\ ExistingOwner(s) = None <=> At(s) = {}
         /\ At(s) # {} => \E k \in At(s) : ExistingOwner(s) = k.uid
  BY OwnerInType DEF ExistingOwner, At, TableTypeOK

\* The id an insert gets is new, and the row it adds is well typed.
LEMMA NewRow ==
  ASSUME TableTypeOK, NEW n \in NewKeys
  PROVE  /\ NextId \in Nat \ {0} /\ NextId > lastId
         /\ RowFor(NextId, n) \in Rows
         /\ RowFor(NextId, n).id = NextId
         /\ RowFor(NextId, n).uid = n.uid
         /\ RowFor(NextId, n).slot = n.slot
         /\ RowFor(NextId, n).cert = n.cert
  BY DEF NextId, TableTypeOK, RowFor, NewKeys, Rows

\* insert_key: every row it leaves in place is at another slot, every row it
\* takes away belongs to the uid the caller named, and that is not the uploader.
LEMMA InsertKeyEffect ==
  ASSUME TableTypeOK, NEW n \in NewKeys, NEW replace, InsertKey(n, replace)
  PROVE  /\ rows' = (rows \ At(n.slot)) \cup {RowFor(NextId, n)}
         /\ lastId' = NextId
         /\ At(n.slot) # {} => /\ ExistingOwner(n.slot) = replace
                               /\ ExistingOwner(n.slot) # n.uid
  <1>1. n.slot \in Slots
    BY DEF NewKeys
  <1>2. CASE Outcome(n, replace) = "created"
    <2>1. At(n.slot) = {}
      BY <1>1, <1>2, ExistingOwnerType DEF Outcome, InsertOutcome
    <2> QED
      BY <1>2, <2>1 DEF InsertKey, ReplacedRows
  <1>3. CASE Outcome(n, replace) = "replaced"
    <2>1. ExistingOwner(n.slot) = replace /\ ExistingOwner(n.slot) # n.uid
      BY <1>3 DEF Outcome, InsertOutcome
    <2> QED
      BY <1>3, <2>1 DEF InsertKey, ReplacedRows
  <1> QED
    BY <1>2, <1>3 DEF InsertKey, InsertAllowed

\* A database just created has no rows.
LEMMA InitTableInv == TableInit => TableInv
  BY DEF TableInit, TableInv, TableTypeOK, OneRowPerSlot, IdsAreKeys, Rows

\* insert_key keeps slots and ids unique: it frees the slot first, and its id is
\* beyond every id there is.
LEMMA InsertTableInv ==
  ASSUME TableInv, NEW n \in NewKeys, NEW replace, InsertKey(n, replace)
  PROVE  TableInv'
  <1> DEFINE k == RowFor(NextId, n)
  <1>1. TableTypeOK /\ OneRowPerSlot /\ IdsAreKeys
    BY DEF TableInv
  <1>2. /\ k \in Rows /\ k.id = NextId /\ k.slot = n.slot
        /\ NextId \in Nat \ {0} /\ NextId > lastId
    BY <1>1, NewRow
  <1>3. rows' = (rows \ At(n.slot)) \cup {k} /\ lastId' = NextId
    BY <1>1, InsertKeyEffect
  <1> HIDE DEF k
  <1>4. TableTypeOK'
    BY <1>1, <1>2, <1>3 DEF TableTypeOK
  <1>5. OneRowPerSlot'
    BY <1>1, <1>2, <1>3 DEF OneRowPerSlot, At, AtIn
  <1>6. \A l \in rows : l.id \in Nat /\ l.id <= lastId
    BY <1>1 DEF TableTypeOK, Rows, IdsAreKeys
  <1>7. IdsAreKeys'
    BY <1>1, <1>2, <1>3, <1>6 DEF IdsAreKeys, TableTypeOK
  <1> QED
    BY <1>4, <1>5, <1>7 DEF TableInv

\* delete_key_for_uid only takes a row away.
LEMMA DeleteTableInv ==
  ASSUME TableInv, NEW i, NEW u, DeleteKeyForUid(i, u)
  PROVE  TableInv'
  BY DEF TableInv, DeleteKeyForUid, TableTypeOK, OneRowPerSlot, IdsAreKeys

\* Every write of storage.rs preserves the table's invariant.
LEMMA NextTableInv == TableInv /\ [TableNext]_tableVars => TableInv'
  <1> SUFFICES ASSUME TableInv, [TableNext]_tableVars PROVE TableInv'
    OBVIOUS
  <1>1. CASE UNCHANGED tableVars
    BY <1>1 DEF tableVars, TableInv, TableTypeOK, OneRowPerSlot, IdsAreKeys
  <1> QED
    BY <1>1, InsertTableInv, DeleteTableInv DEF TableNext

\* Whatever keys are inserted, replaced and deleted, the table keeps its type, no
\* slot has two rows and no two rows share an id.
THEOREM TableInvariant == TableSpec => []TableInv
  BY InitTableInv, NextTableInv, PTL DEF TableSpec

-----------------------------------------------------------------------------
(* The table implements the directory. *)

Shown(k) == [uid |-> k.uid, cert |-> k.cert]

\* What the directory shows is what the rows say.
ShowsRows ==
  /\ \A k \in rows : Published[k.slot] = Shown(k)
  /\ \A s \in Slots : At(s) = {} => Published[s] = None

\* With one row per slot the directory shows each of them.
LEMMA TableShowsRows == TableInv => ShowsRows
  <1> SUFFICES ASSUME TableInv PROVE ShowsRows
    OBVIOUS
  <1>1. ASSUME NEW k \in rows PROVE Published[k.slot] = Shown(k)
    <2>1. k.slot \in Slots /\ k \in At(k.slot)
      BY DEF TableInv, TableTypeOK, Rows, At, AtIn
    <2>2. \A l \in At(k.slot) : l = k
      BY DEF TableInv, OneRowPerSlot, At, AtIn
    <2>3. (CHOOSE l \in At(k.slot) : TRUE) = k
      BY <2>1, <2>2
    <2> QED
      BY <2>1, <2>3 DEF Published, Shown
  <1>2. ASSUME NEW s \in Slots, At(s) = {} PROVE Published[s] = None
    BY <1>2 DEF Published
  <1> QED
    BY <1>1, <1>2 DEF ShowsRows

\* The same in the next state.
LEMMA TableShowsRowsNext == TableInv' => ShowsRows'
  BY TableShowsRows, PTL

\* An insert publishes at a free slot or takes the slot over from another uid.
LEMMA InsertIsPublish ==
  ASSUME TableInv, TableInv', NEW n \in NewKeys, NEW replace, InsertKey(n, replace)
  PROVE  D!Next
  <1> DEFINE k == RowFor(NextId, n)
             s == n.slot
  <1>1. s \in Slots /\ Shown(k) \in D!Publication
    BY DEF NewKeys, RowFor, Shown, D!Publication
  <1>2. rows' = (rows \ At(s)) \cup {k} /\ k.slot = s /\ k.uid = n.uid
    BY InsertKeyEffect, NewRow DEF TableInv
  <1>3. ShowsRows /\ ShowsRows'
    BY TableShowsRows, TableShowsRowsNext
  <1>4. Published'[s] = Shown(k)
    BY <1>2, <1>3 DEF ShowsRows
  <1>5. ASSUME NEW t \in Slots, t # s PROVE Published'[t] = Published[t]
    <2>1. At(t)' = At(t)
      BY <1>2, <1>5 DEF At, AtIn
    <2> QED
      BY <2>1 DEF Published
  <1>6. Published' = [Published EXCEPT ![s] = Shown(k)]
    BY <1>1, <1>4, <1>5 DEF Published
  <1>7. CASE At(s) = {}
    BY <1>1, <1>6, <1>7, <1>3 DEF ShowsRows, D!Next, D!Publish
  <1>8. CASE At(s) # {}
    <2>1. PICK l \in At(s) : ExistingOwner(s) = l.uid
      BY <1>1, <1>8, ExistingOwnerType DEF TableInv
    <2>2. l.uid # n.uid /\ l \in rows /\ l.slot = s
      BY <1>8, <2>1, InsertKeyEffect DEF TableInv, At, AtIn
    <2>3. Published[s] = Shown(l) /\ Shown(l).uid # Shown(k).uid
      BY <1>2, <2>2, <1>3 DEF ShowsRows, Shown
    <2>4. Shown(l) # None
      BY <2>2, NoneIsNoEntry DEF Shown, TableInv, TableTypeOK, Rows
    <2> QED
      BY <1>1, <1>6, <2>3, <2>4 DEF D!Next, D!TakeOver
  <1> QED
    BY <1>7, <1>8

\* A delete withdraws the publication of the row's slot.
LEMMA DeleteIsWithdraw ==
  ASSUME TableInv, TableInv', NEW k \in rows, DeleteKeyForUid(k.id, k.uid)
  PROVE  D!Next
  <1>1. rows' = rows \ {k}
    BY DEF DeleteKeyForUid, Deletable, TableInv, IdsAreKeys
  <1>2. k.slot \in Slots /\ Shown(k) \in D!Publication
    BY DEF TableInv, TableTypeOK, Rows, Shown, D!Publication
  <1>3. At(k.slot)' = {}
    BY <1>1 DEF At, AtIn, TableInv, OneRowPerSlot
  <1>4. Published'[k.slot] = None
    BY <1>2, <1>3 DEF Published
  <1>5. ASSUME NEW t \in Slots, t # k.slot PROVE Published'[t] = Published[t]
    <2>1. At(t)' = At(t)
      BY <1>1, <1>5 DEF At, AtIn
    <2> QED
      BY <2>1 DEF Published
  <1>6. Published' = [Published EXCEPT ![k.slot] = None]
    BY <1>2, <1>4, <1>5 DEF Published
  <1>7. Published[k.slot] # None
    BY <1>2, TableShowsRows, NoneIsNoEntry DEF ShowsRows, D!Publication
  <1> QED
    BY <1>2, <1>6, <1>7 DEF D!Next, D!Withdraw

\* The empty table is the empty directory.
LEMMA InitIsDirectory == TableInit => D!Init
  BY DEF TableInit, D!Init, Published, At, AtIn

\* Every write of storage.rs is a step of the directory.
LEMMA StepIsDirectory == TableInv /\ TableInv' /\ [TableNext]_tableVars => [D!Next]_Published
  <1> SUFFICES ASSUME TableInv, TableInv', [TableNext]_tableVars PROVE [D!Next]_Published
    OBVIOUS
  <1>1. CASE UNCHANGED tableVars
    BY <1>1 DEF tableVars, Published, At, AtIn
  <1> QED
    BY <1>1, InsertIsPublish, DeleteIsWithdraw DEF TableNext

\* The table implements the directory: what it shows at a slot changes only by a
\* publication, a withdrawal or a one-step takeover by another user.
THEOREM TableIsDirectory == TableSpec => IsDirectory
  BY TableInvariant, InitIsDirectory, StepIsDirectory, PTL
  DEF TableSpec, IsDirectory, D!Spec
=============================================================================

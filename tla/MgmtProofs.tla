----------------------------- MODULE MgmtProofs -----------------------------
(***************************************************************************)
(* Theorems about Mgmt and MgmtAudit, for every set of users, slots,       *)
(* certificates and requests and for every value of the bounds.            *)
(***************************************************************************)
EXTENDS MgmtAudit, KeyTableProofs

-----------------------------------------------------------------------------
(* Types. *)

\* What an upload asks to store is a well-typed new key.
LEMMA NewKeyOfType ==
  ASSUME TypeOK, NEW r \in Requests, req[r].uid \in Uids, req[r].slot \in Slots,
         req[r].cert \in Certs
  PROVE  NewKeyOf(req[r]) \in NewKeys
  BY CertInfoType DEF NewKeyOf, NewKeys

\* Which fields of a request its program counter promises to be there.
Asking(r) ==
  /\ req[r].pc \notin {"idle", "delete"} =>
       req[r].uid \in Uids /\ req[r].slot \in Slots /\ req[r].cert \in Certs
  /\ req[r].pc = "delete" => req[r].uid \in Uids

AskingOK == \A r \in Requests : Asking(r)

TypeInv == TypeOK /\ AskingOK

\* A handler that returns leaves its request well typed.
LEMMA FinishType ==
  ASSUME TypeInv, NEW r \in Requests, NEW reply \in Replies, Finish(r, reply)
  PROVE  req' \in [Requests -> ReqType] /\ AskingOK'
  <1> DEFINE q == [NoRequest EXCEPT !.reply = IF req[r].attached THEN reply ELSE "none"]
  <1>1. q \in ReqType /\ q.pc = "idle"
    BY DEF NoRequest, ReqType, PCs, Replies
  <1>2. req' = [req EXCEPT ![r] = q]
    BY DEF Finish
  <1> HIDE DEF q
  <1> QED
    BY <1>1, <1>2 DEF TypeInv, TypeOK, AskingOK, Asking

\* So does one that moves on to another step of an upload.
LEMMA GotoType ==
  ASSUME TypeInv, NEW r \in Requests, NEW pc \in PCs \ {"idle", "delete"},
         req[r].pc \notin {"idle", "delete"}, Goto(r, pc)
  PROVE  req' \in [Requests -> ReqType] /\ AskingOK'
  <1>1. [req[r] EXCEPT !.pc = pc] \in ReqType
    BY DEF TypeInv, TypeOK, ReqType
  <1>2. req' = [req EXCEPT ![r] = [req[r] EXCEPT !.pc = pc]]
    BY DEF Goto
  <1>3. req[r] \in ReqType
    BY DEF TypeInv, TypeOK
  <1>4. [req[r] EXCEPT !.pc = pc].uid = req[r].uid /\ [req[r] EXCEPT !.pc = pc].slot = req[r].slot
        /\ [req[r] EXCEPT !.pc = pc].cert = req[r].cert /\ [req[r] EXCEPT !.pc = pc].pc = pc
    BY <1>3 DEF ReqType
  <1> QED
    BY <1>1, <1>2, <1>4 DEF TypeInv, TypeOK, AskingOK, Asking

\* The service starts well typed.
LEMMA InitTypeInv == Init => TypeInv
  BY OwnsType DEF Init, TableInit, TypeInv, TypeOK, TableTypeOK, AskingOK, Asking,
                  NoRequest, ReqType, PCs, Replies, Rows

\* Every step of a handler, of a failure and of the environment keeps the types.
LEMMA NextTypeInv == TypeInv /\ [Next]_mgmtVars => TypeInv'
  <1> SUFFICES ASSUME TypeInv, [Next]_mgmtVars PROVE TypeInv'
    OBVIOUS
  <1> USE DEF TypeInv, TypeOK, AskingOK
  <1>1. ASSUME NEW r \in Requests, NEW u \in Uids, NEW s \in Slots, NEW c \in Certs,
               ReceiveUpload(r, u, s, c)
        PROVE  TypeInv'
    BY <1>1 DEF ReceiveUpload, TableTypeOK, Asking, NoRequest, ReqType, PCs, Replies
  <1>2. ASSUME NEW r \in Requests, NEW u \in Uids, NEW i \in 1..MaxId,
               ReceiveDelete(r, u, i)
        PROVE  TypeInv'
    <2> DEFINE q == [NoRequest EXCEPT !.pc = "delete", !.uid = u, !.id = i, !.attached = TRUE]
    <2>1. i \in Nat
      BY BoundsType
    <2>2. q \in ReqType /\ q.pc = "delete" /\ q.uid = u
      BY <2>1 DEF NoRequest, ReqType, PCs, Replies
    <2>3. req' = [req EXCEPT ![r] = q]
      BY <1>2 DEF ReceiveDelete
    <2> HIDE DEF q
    <2> QED
      BY <1>2, <2>2, <2>3 DEF ReceiveDelete, TableTypeOK, Asking
  <1>3. ASSUME NEW r \in Requests, ResolveCaller(r)
        PROVE  TypeInv'
    <2>1. req' \in [Requests -> ReqType] /\ AskingOK'
      BY <1>3, FinishType, GotoType DEF ResolveCaller, AtPc, PCs, Replies
    <2> QED
      BY <1>3, <2>1 DEF ResolveCaller, TableTypeOK
  <1>4. ASSUME NEW r \in Requests, Validate(r)
        PROVE  TypeInv'
    <2>1. Verdict(req[r].cert, req[r].slot) \in Replies \cup {"ok"}
      BY DEF Verdict, Replies
    <2>2. req' \in [Requests -> ReqType] /\ AskingOK'
      BY <1>4, <2>1, FinishType, GotoType DEF Validate, AtPc, PCs
    <2> QED
      BY <1>4, <2>2 DEF Validate, TableTypeOK
  <1>5. ASSUME NEW r \in Requests, Peek(r)
        PROVE  TypeInv'
    BY <1>5, ExistingOwnerType DEF Peek, AtPc, Goto, TableTypeOK, Asking, NoRequest,
                ReqType, PCs, Replies
  <1>6. ASSUME NEW r \in Requests, ResolveHolder(r)
        PROVE  TypeInv'
    <2>1. req' \in [Requests -> ReqType] /\ AskingOK'
      BY <1>6, FinishType, GotoType DEF ResolveHolder, AtPc, PCs, Replies
    <2> QED
      BY <1>6, <2>1 DEF ResolveHolder, TableTypeOK
  <1>7. ASSUME NEW r \in Requests, Insert(r)
        PROVE  TypeInv'
    <2>1. TableTypeOK'
        <3>1. NewKeyOf(req[r]) \in NewKeys
        BY <1>7, NewKeyOfType DEF Insert, AtPc, Asking
      <3> QED
        BY <1>7, <3>1, InsertKeyEffect, NewRow DEF Insert, TableTypeOK, tableVars
    <2>2. \E reply \in Replies : Finish(r, reply)
      BY <1>7 DEF Insert, Replies
    <2> QED
      BY <1>7, <2>1, <2>2, FinishType DEF Insert
  <1>8. ASSUME NEW r \in Requests, Delete(r)
        PROVE  TypeInv'
    <2>1. TableTypeOK'
      BY <1>8 DEF Delete, DeleteKeyForUid, TableTypeOK, tableVars
    <2>2. \E reply \in Replies : Finish(r, reply)
      BY <1>8 DEF Delete, Replies
    <2> QED
      BY <1>8, <2>1, <2>2, FinishType DEF Delete
  <1>9. ASSUME NEW r \in Requests, UserDbFails(r) \/ SqlFails(r)
        PROVE  TypeInv'
    <2>1. \E reply \in Replies : Finish(r, reply)
      BY <1>9 DEF UserDbFails, SqlFails, Replies
    <2> QED
      BY <1>9, <2>1, FinishType DEF UserDbFails, SqlFails, Fault, TableTypeOK
  <1>10. ASSUME NEW r \in Requests, Disconnect(r)
         PROVE  TypeInv'
    <2>1. NoRequest \in ReqType /\ NoRequest.pc = "idle"
      BY DEF NoRequest, ReqType, PCs, Replies
    <2>2. CASE req' = [req EXCEPT ![r] = NoRequest]
      BY <1>10, <2>1, <2>2 DEF Disconnect, Fault, TableTypeOK, Asking
    <2>3. CASE req' = [req EXCEPT ![r].attached = FALSE]
      <3> DEFINE q == [req[r] EXCEPT !.attached = FALSE]
      <3>1. req[r] \in ReqType
        OBVIOUS
      <3>2. /\ q \in ReqType /\ q.pc = req[r].pc /\ q.uid = req[r].uid
            /\ q.slot = req[r].slot /\ q.cert = req[r].cert
        BY <3>1 DEF ReqType
      <3>3. req' = [req EXCEPT ![r] = q]
        BY <2>3
      <3> HIDE DEF q
      <3> QED
        BY <1>10, <3>2, <3>3 DEF Disconnect, Fault, TableTypeOK, Asking
    <2> QED
      BY <1>10, <2>2, <2>3 DEF Disconnect
  <1>11. CASE Crash
    BY <1>11 DEF Crash, Fault, TableTypeOK, Asking, NoRequest, ReqType, PCs, Replies
  <1>12. CASE Reassign
    BY <1>12 DEF Reassign, TableTypeOK, Asking
  <1>13. CASE Tick
    BY <1>13 DEF Tick, TableTypeOK, Asking
  <1>14. CASE UNCHANGED mgmtVars
    BY <1>14 DEF mgmtVars, TableTypeOK, Asking
  <1> QED
    BY <1>1, <1>2, <1>3, <1>4, <1>5, <1>6, <1>7, <1>8, <1>9, <1>10, <1>11, <1>12,
       <1>13, <1>14
    DEF Next, Handler

\* Every variable of the management service keeps its type.
THEOREM TypeCorrect == Spec => []TypeOK
  <1>1. Spec => []TypeInv
    BY InitTypeInv, NextTypeInv, PTL DEF Spec
  <1>2. TypeInv => TypeOK
    BY DEF TypeInv
  <1> QED
    BY <1>1, <1>2, PTL

-----------------------------------------------------------------------------
(* The handlers use the table only through its own operations. *)

\* The service starts on the empty table.
LEMMA InitIsTable == Init => TableInit
  BY DEF Init

\* Only the closures of Insert and Delete write to the table.
LEMMA OnlyTwoWriters ==
  [Next]_mgmtVars => UNCHANGED tableVars \/ \E r \in Requests : Insert(r) \/ Delete(r)
  <1> SUFFICES ASSUME [Next]_mgmtVars, ~ \E r \in Requests : Insert(r) \/ Delete(r)
               PROVE  UNCHANGED tableVars
    OBVIOUS
  <1> USE DEF tableVars
  <1>1. ASSUME NEW r \in Requests, NEW u \in Uids, NEW s \in Slots, NEW c \in Certs,
               ReceiveUpload(r, u, s, c)
        PROVE  UNCHANGED tableVars
    BY <1>1 DEF ReceiveUpload
  <1>2. ASSUME NEW r \in Requests, NEW u \in Uids, NEW i \in 1..MaxId, ReceiveDelete(r, u, i)
        PROVE  UNCHANGED tableVars
    BY <1>2 DEF ReceiveDelete
  <1>3. ASSUME NEW r \in Requests,
               ResolveCaller(r) \/ Validate(r) \/ Peek(r) \/ ResolveHolder(r)
        PROVE  UNCHANGED tableVars
    BY <1>3 DEF ResolveCaller, Validate, Peek, ResolveHolder
  <1>4. ASSUME NEW r \in Requests, UserDbFails(r) \/ SqlFails(r) \/ Disconnect(r)
        PROVE  UNCHANGED tableVars
    BY <1>4 DEF UserDbFails, SqlFails, Disconnect
  <1>5. CASE Crash \/ Reassign \/ Tick \/ UNCHANGED mgmtVars
    BY <1>5 DEF Crash, Reassign, Tick, mgmtVars
  <1> QED
    BY <1>1, <1>2, <1>3, <1>4, <1>5 DEF Next, Handler

\* Every step of the service is one operation of the table, or none.
LEMMA StepIsTable == TypeInv /\ [Next]_mgmtVars => [TableNext]_tableVars
  <1> SUFFICES ASSUME TypeInv, [Next]_mgmtVars PROVE [TableNext]_tableVars
    OBVIOUS
  <1>1. ASSUME NEW r \in Requests, Insert(r) PROVE [TableNext]_tableVars
    <2>1. NewKeyOf(req[r]) \in NewKeys
      BY <1>1, NewKeyOfType DEF Insert, AtPc, TypeInv, AskingOK, Asking
    <2>2. req[r].replace \in Uids \cup {None}
      BY DEF TypeInv, TypeOK, ReqType
    <2> QED
      BY <1>1, <2>1, <2>2 DEF Insert, TableNext
  <1>2. ASSUME NEW r \in Requests, Delete(r) PROVE [TableNext]_tableVars
    BY <1>2 DEF Delete, ListKeysForUid, TableNext
  <1> QED
    BY <1>1, <1>2, OnlyTwoWriters

\* The handlers, whatever they are interleaved with, change the database only as
\* insert_key and delete_key_for_uid would.
THEOREM MgmtUsesTable == Spec => TableSpec
  <1>1. Spec => []TypeInv
    BY InitTypeInv, NextTypeInv, PTL DEF Spec
  <1> QED
    BY <1>1, InitIsTable, StepIsTable, PTL DEF Spec, TableSpec

\* Under every interleaving of requests, reassignments and failures no slot ever
\* has two rows.
THEOREM SlotsUnique == Spec => []OneRowPerSlot
  <1>1. TableInv => OneRowPerSlot
    BY DEF TableInv
  <1> QED
    BY <1>1, MgmtUsesTable, TableInvariant, PTL

\* The management service as a whole implements the directory: readers see a
\* slot change hands in one step and never see a publication overwritten by its
\* own uid, whatever the handlers, their clients and UserDb do.
THEOREM MgmtIsDirectory == Spec => IsDirectory
  BY MgmtUsesTable, TableIsDirectory

-----------------------------------------------------------------------------
(* What one step may do to one request. *)

\* Where an upload may be suspended.
Uploading == {"resolveCaller", "validate", "peek", "resolveHolder", "insert"}

\* An upload keeps who asks, for what and with which certificate.
SameUpload(r) ==
  /\ req'[r].uid = req[r].uid /\ req'[r].slot = req[r].slot /\ req'[r].cert = req[r].cert

\* What may become of r in one step of anybody.
Advance(r) ==
  \/ req'[r] = req[r]
  \/ req'[r].pc \in {"idle", "delete"}
  \/ req'[r].pc = "resolveCaller" /\ req'[r].replace = None
  \/ /\ SameUpload(r) /\ req'[r].replace = req[r].replace
     /\ \/ /\ req[r].pc = "resolveCaller" /\ req'[r].pc = "validate"
           /\ Owns(req[r].uid, req[r].slot)
        \/ /\ req[r].pc = "validate" /\ req'[r].pc = "peek"
           /\ Verdict(req[r].cert, req[r].slot) = "ok"
        \/ /\ req[r].pc = "peek" /\ req'[r].pc = "insert"
           /\ ExistingOwner(req[r].slot) \in {None, req[r].uid}
        \/ /\ req[r].pc = "resolveHolder" /\ req'[r].pc = "insert"
           /\ ~Owns(req[r].replace, req[r].slot)
        \/ /\ req[r].pc = "insert" /\ req'[r].pc = "insert"
  \/ /\ SameUpload(r)
     /\ req[r].pc = "peek" /\ req'[r].pc = "resolveHolder"
     /\ req'[r].replace = ExistingOwner(req[r].slot)

\* Whoever moves, a request only advances along its own handler, and past a check
\* only if the check succeeded at that moment.
LEMMA StepAdvances ==
  ASSUME TypeInv, [Next]_mgmtVars, NEW q \in Requests
  PROVE  Advance(q)
  <1> USE DEF TypeInv, TypeOK, Advance, SameUpload
  <1>1. ASSUME NEW r \in Requests, NEW u \in Uids, NEW s \in Slots, NEW c \in Certs,
               ReceiveUpload(r, u, s, c)
        PROVE  Advance(q)
    BY <1>1 DEF ReceiveUpload, NoRequest
  <1>2. ASSUME NEW r \in Requests, NEW u \in Uids, NEW i \in 1..MaxId, ReceiveDelete(r, u, i)
        PROVE  Advance(q)
    BY <1>2 DEF ReceiveDelete, NoRequest
  <1>3. ASSUME NEW r \in Requests, NEW reply, Finish(r, reply)
        PROVE  Advance(q)
    BY <1>3 DEF Finish, NoRequest
  <1>4. ASSUME NEW r \in Requests, NEW pc, Goto(r, pc)
        PROVE  /\ q # r => req'[q] = req[q]
               /\ q = r => SameUpload(q) /\ req'[q].replace = req[q].replace /\ req'[q].pc = pc
    <2>1. req[r] \in ReqType
      OBVIOUS
    <2> QED
      BY <1>4, <2>1 DEF Goto, ReqType
  <1>5. ASSUME NEW r \in Requests, ResolveCaller(r) PROVE Advance(q)
    BY <1>3, <1>4, <1>5 DEF ResolveCaller, AtPc
  <1>6. ASSUME NEW r \in Requests, Validate(r) PROVE Advance(q)
    BY <1>3, <1>4, <1>6 DEF Validate, AtPc
  <1>7. ASSUME NEW r \in Requests, Peek(r) PROVE Advance(q)
    <2>1. CASE Goto(r, "insert")
      <3>1. req[r] \in ReqType
        OBVIOUS
      <3>2. ExistingOwner(req[r].slot) \in {None, req[r].uid}
        BY <1>7, <2>1, <3>1 DEF Peek, AtPc, Goto, NeedsHolder, ReqType
      <3> QED
        BY <1>4, <1>7, <2>1, <3>2 DEF Peek, AtPc
    <2>2. CASE req' = [req EXCEPT ![r].pc = "resolveHolder",
                                  ![r].replace = ExistingOwner(req[r].slot)]
      <3>1. req[r] \in ReqType
        OBVIOUS
      <3> QED
        BY <1>7, <2>2, <3>1 DEF Peek, AtPc, ReqType
    <2> QED
      BY <1>7, <2>1, <2>2 DEF Peek
  <1>8. ASSUME NEW r \in Requests, ResolveHolder(r) PROVE Advance(q)
    BY <1>3, <1>4, <1>8 DEF ResolveHolder, AtPc
  <1>9. ASSUME NEW r \in Requests, Insert(r) \/ Delete(r) \/ UserDbFails(r) \/ SqlFails(r)
        PROVE  Advance(q)
    BY <1>3, <1>9 DEF Insert, Delete, UserDbFails, SqlFails
  <1>10. ASSUME NEW r \in Requests, Disconnect(r) PROVE Advance(q)
    <2>1. CASE req' = [req EXCEPT ![r] = NoRequest]
      BY <2>1 DEF NoRequest
    <2>2. CASE req[r].pc \in {"insert", "delete"} /\ req' = [req EXCEPT ![r].attached = FALSE]
      <3>1. req[r] \in ReqType
        OBVIOUS
      <3> QED
        BY <2>2, <3>1 DEF ReqType
    <2> QED
      BY <1>10, <2>1, <2>2 DEF Disconnect
  <1>11. CASE Crash \/ Reassign \/ Tick \/ UNCHANGED mgmtVars
    BY <1>11 DEF Crash, Reassign, Tick, mgmtVars, NoRequest
  <1> QED
    BY <1>1, <1>2, <1>5, <1>6, <1>7, <1>8, <1>9, <1>10, <1>11 DEF Next, Handler

-----------------------------------------------------------------------------
(* What is served was checked. *)

\* Certificate c was found good for slot s, whatever the clock says by now.
Checked(c, s) ==
  s \in ServedSlots /\ CertInfo[c].parses /\ s \in CertInfo[c].names

\* The check of Validate holds for as long as its upload goes on, and every row
\* stems from such an upload and has the columns made of its certificate.
CheckedInv ==
  /\ \A r \in Requests :
       req[r].pc \in {"peek", "resolveHolder", "insert"} => Checked(req[r].cert, req[r].slot)
  /\ \A k \in rows : /\ Checked(k.cert, k.slot)
                     /\ k.revoked = CertInfo[k.cert].revoked
                     /\ k.expires = CertInfo[k.cert].expires

\* At the start there is nothing to have been checked.
LEMMA InitCheckedInv == Init => CheckedInv
  BY DEF Init, TableInit, NoRequest, CheckedInv

\* Rows come into the table only from an upload at its insert step.
LEMMA NewRowsStem ==
  ASSUME TypeInv, [Next]_mgmtVars, NEW k \in rows' \ rows
  PROVE  \E r \in Requests :
           /\ AtPc(r, "insert")
           /\ NewKeyOf(req[r]) \in NewKeys
           /\ InsertKey(NewKeyOf(req[r]), req[r].replace)
           /\ k = RowFor(NextId, NewKeyOf(req[r]))
  <1>1. ASSUME NEW r \in Requests, Insert(r), rows' # rows
        PROVE  /\ AtPc(r, "insert") /\ NewKeyOf(req[r]) \in NewKeys
               /\ InsertKey(NewKeyOf(req[r]), req[r].replace)
    BY <1>1, NewKeyOfType DEF Insert, AtPc, tableVars, TypeInv, AskingOK, Asking
  <1>2. ASSUME NEW r \in Requests, Insert(r)
        PROVE  k = RowFor(NextId, NewKeyOf(req[r]))
    BY <1>1, <1>2 DEF InsertKey
  <1>3. ASSUME NEW r \in Requests, Delete(r) PROVE FALSE
    BY <1>3 DEF Delete, DeleteKeyForUid, tableVars
  <1> QED
    BY <1>1, <1>2, <1>3, OnlyTwoWriters DEF tableVars

\* The checks of an upload survive until its insert, and rows keep what was
\* checked of them.
LEMMA NextCheckedInv == TypeInv /\ CheckedInv /\ [Next]_mgmtVars => CheckedInv'
  <1> SUFFICES ASSUME TypeInv, CheckedInv, [Next]_mgmtVars PROVE CheckedInv'
    OBVIOUS
  <1>1. ASSUME NEW r \in Requests, req'[r].pc \in {"peek", "resolveHolder", "insert"}
        PROVE  Checked(req'[r].cert, req'[r].slot)
    <2>1. Advance(r)
      BY StepAdvances
    <2> QED
      BY <1>1, <2>1 DEF Advance, SameUpload, CheckedInv, Checked, Verdict
  <1>2. ASSUME NEW k \in rows'
        PROVE  /\ Checked(k.cert, k.slot)
               /\ k.revoked = CertInfo[k.cert].revoked
               /\ k.expires = CertInfo[k.cert].expires
    <2>1. CASE k \in rows
      BY <2>1 DEF CheckedInv
    <2>2. CASE k \notin rows
      <3>1. PICK r \in Requests : AtPc(r, "insert") /\ k = RowFor(NextId, NewKeyOf(req[r]))
        BY <2>2, NewRowsStem
      <3>2. /\ k.cert = req[r].cert /\ k.slot = req[r].slot
            /\ k.revoked = CertInfo[req[r].cert].revoked
            /\ k.expires = CertInfo[req[r].cert].expires
        BY <3>1 DEF RowFor, NewKeyOf
      <3> QED
        BY <3>1, <3>2 DEF CheckedInv, AtPc
    <2> QED
      BY <2>1, <2>2
  <1> QED
    BY <1>1, <1>2 DEF CheckedInv, Checked

\* Whatever a lookup returns, at any time and after any interleaving, was checked
\* for that address, is not revoked and has not expired.
THEOREM OnlyGoodKeysServed == Spec => []ServedIsGood
  <1>1. Spec => []TypeInv
    BY InitTypeInv, NextTypeInv, PTL DEF Spec
  <1>2. Spec => []CheckedInv
    BY <1>1, InitCheckedInv, NextCheckedInv, PTL DEF Spec
  <1>3. CheckedInv => ServedIsGood
    BY DEF CheckedInv, Checked, ServedIsGood, LookupKeyData, At, AtIn, Served, Alive
  <1> QED
    BY <1>2, <1>3, PTL

-----------------------------------------------------------------------------
(* What the auditor sees. *)

\* The upload of r has got past the check that its caller owns the address.
PastCaller(r) == req[r].pc \in {"validate", "peek", "resolveHolder", "insert"}

\* held and unheld cover the present; a caller past its check is in held, and a
\* uid that an upload is about to replace is in unheld.
HeldInv ==
  \A r \in Requests :
    /\ req[r].pc \in Uploading =>
         /\ OwnersIn(owns, req[r].slot) \subseteq held[r]
         /\ Uids \ OwnersIn(owns, req[r].slot) \subseteq unheld[r]
    /\ PastCaller(r) => req[r].uid \in held[r]
    /\ req[r].pc \in {"resolveCaller", "validate", "peek"} => req[r].replace = None
    /\ req[r].pc = "insert" => req[r].replace \in unheld[r] \cup {None}

\* At the start no upload is in flight.
LEMMA InitHeldInv == AInit => HeldInv
  BY DEF AInit, Init, NoRequest, HeldInv, PastCaller, Uploading

\* The auditor records the present owners, and forgets nothing of an upload that
\* goes on.
LEMMA AuditCovers ==
  ASSUME TypeInv, TypeInv', AuditStep, NEW r \in Requests, req'[r].pc \in Uploading
  PROVE  /\ OwnersIn(owns', req'[r].slot) \subseteq held'[r]
         /\ Uids \ OwnersIn(owns', req'[r].slot) \subseteq unheld'[r]
         /\ req[r].pc \in Uploading => held[r] \subseteq held'[r] /\ unheld[r] \subseteq unheld'[r]
  <1>1. req'[r].slot # None
    BY NoneIsNoSlot DEF TypeInv, AskingOK, Asking, Uploading
  <1>2. req[r].pc \in Uploading => UploadStays(r)
    BY <1>1, NoneIsNoSlot DEF TypeInv, AskingOK, Asking, Uploading, UploadStays
  <1> QED
    BY <1>1, <1>2 DEF AuditStep

\* Every step keeps what a handler has concluded within what the auditor saw.
LEMMA NextHeldInv == TypeInv /\ TypeInv' /\ HeldInv /\ [ANext]_allVars => HeldInv'
  <1> SUFFICES ASSUME TypeInv, TypeInv', HeldInv, [ANext]_allVars PROVE HeldInv'
    OBVIOUS
  <1>1. CASE UNCHANGED allVars
    BY <1>1 DEF allVars, HeldInv, PastCaller, OwnersIn
  <1>2. CASE ANext
    <2> SUFFICES ASSUME NEW r \in Requests, req'[r].pc \in Uploading
                 PROVE  /\ OwnersIn(owns', req'[r].slot) \subseteq held'[r]
                        /\ Uids \ OwnersIn(owns', req'[r].slot) \subseteq unheld'[r]
                        /\ req'[r].pc # "resolveCaller" => req'[r].uid \in held'[r]
                        /\ req'[r].pc \in {"resolveCaller", "validate", "peek"}
                             => req'[r].replace = None
                        /\ req'[r].pc = "insert" => req'[r].replace \in unheld'[r] \cup {None}
      BY DEF HeldInv, PastCaller, Uploading, OwnersIn
    <2>1. Advance(r)
      BY <1>2, StepAdvances DEF ANext
    <2>2. /\ OwnersIn(owns', req'[r].slot) \subseteq held'[r]
          /\ Uids \ OwnersIn(owns', req'[r].slot) \subseteq unheld'[r]
          /\ req[r].pc \in Uploading => held[r] \subseteq held'[r] /\ unheld[r] \subseteq unheld'[r]
      BY <1>2, AuditCovers DEF ANext
    <2>3. req[r] \in ReqType /\ req[r].replace \in Uids \cup {None}
      BY DEF TypeInv, TypeOK, ReqType
    <2>4. req[r].pc = "resolveCaller" /\ Owns(req[r].uid, req[r].slot) => req[r].uid \in held[r]
      BY DEF HeldInv, OwnersIn, Owns, Uploading, TypeInv, AskingOK, Asking
    <2>5. req[r].pc = "resolveHolder" /\ ~Owns(req[r].replace, req[r].slot)
            => req[r].replace \in unheld[r] \cup {None}
      BY <2>3 DEF HeldInv, OwnersIn, Owns, Uploading
    <2>6. req'[r].pc # "resolveCaller" => req'[r].uid \in held'[r]
      BY <2>1, <2>2, <2>4 DEF Advance, SameUpload, HeldInv, PastCaller, Uploading
    <2>7. req'[r].pc \in {"resolveCaller", "validate", "peek"} => req'[r].replace = None
      BY <2>1 DEF Advance, HeldInv
    <2>8. req'[r].pc = "insert" => req'[r].replace \in unheld'[r] \cup {None}
      BY <2>1, <2>2, <2>5 DEF Advance, HeldInv, Uploading
    <2> QED
      BY <2>2, <2>6, <2>7, <2>8
  <1> QED
    BY <1>1, <1>2

\* The auditor does not interfere: an audited run is a run of the service.
LEMMA AuditedRuns == ASpec => Spec
  <1>1. AInit => Init
    BY DEF AInit
  <1>2. [ANext]_allVars => [Next]_mgmtVars
    BY DEF ANext, allVars, mgmtVars
  <1> QED
    BY <1>1, <1>2, PTL DEF ASpec, Spec

\* The three invariants together hold on every audited run.
LEMMA AuditInv == ASpec => [](TypeInv /\ HeldInv /\ TableInv)
  <1>1. Spec => []TypeInv
    BY InitTypeInv, NextTypeInv, PTL DEF Spec
  <1>2. ASpec => []HeldInv
    BY <1>1, AuditedRuns, InitHeldInv, NextHeldInv, PTL DEF ASpec
  <1> QED
    BY <1>1, <1>2, AuditedRuns, MgmtUsesTable, TableInvariant, PTL

\* Rows leave the table only by a delete of their own uid and id, or through an
\* upload at its insert step that named their uid.
LEMMA GoneRowsStem ==
  ASSUME TypeInv, TableInv, [Next]_mgmtVars, NEW k \in rows \ rows'
  PROVE  \E r \in Requests :
           \/ OwnDelete(r, k)
           \/ /\ AtPc(r, "insert") /\ req[r].slot = k.slot
              /\ req[r].replace = k.uid
  <1>1. ASSUME NEW r \in Requests, Insert(r)
        PROVE  AtPc(r, "insert") /\ req[r].slot = k.slot /\ req[r].replace = k.uid
    <2>1. /\ AtPc(r, "insert") /\ NewKeyOf(req[r]) \in NewKeys
          /\ InsertKey(NewKeyOf(req[r]), req[r].replace)
      BY <1>1, NewKeyOfType DEF Insert, AtPc, tableVars, TypeInv, AskingOK, Asking
    <2>2. NewKeyOf(req[r]).slot = req[r].slot
      BY DEF NewKeyOf
    <2>3. k \in At(req[r].slot)
      BY <2>1, <2>2, InsertKeyEffect DEF TableInv
    <2>4. ExistingOwner(req[r].slot) = req[r].replace
      BY <2>1, <2>2, <2>3, InsertKeyEffect DEF TableInv
    <2>5. req[r].slot \in Slots
      BY <2>1, <2>2 DEF NewKeys
    <2>6. PICK l \in At(req[r].slot) : ExistingOwner(req[r].slot) = l.uid
      BY <2>3, <2>5, ExistingOwnerType DEF TableInv
    <2>7. l = k
      BY <2>3, <2>6 DEF TableInv, OneRowPerSlot, At, AtIn
    <2> QED
      BY <2>1, <2>3, <2>4, <2>6, <2>7 DEF At, AtIn
  <1>2. ASSUME NEW r \in Requests, Delete(r) PROVE OwnDelete(r, k)
    BY <1>2 DEF Delete, DeleteKeyForUid, Deletable, tableVars, OwnDelete
  <1> QED
    BY <1>1, <1>2, OnlyTwoWriters DEF tableVars

\* One step of AppearsAuthorised.
LEMMA StepAppears ==
  TypeInv /\ HeldInv /\ [ANext]_allVars =>
    [\A k \in rows' \ rows :
       \E r \in Requests : OwnUpload(r, k.slot) /\ req[r].uid = k.uid]_allVars
  <1> SUFFICES ASSUME TypeInv, HeldInv, ANext, NEW k \in rows' \ rows
               PROVE  \E r \in Requests : OwnUpload(r, k.slot) /\ req[r].uid = k.uid
    OBVIOUS
  <1>1. PICK r \in Requests : AtPc(r, "insert") /\ k = RowFor(NextId, NewKeyOf(req[r]))
    BY NewRowsStem DEF ANext
  <1>2. k.slot = req[r].slot /\ k.uid = req[r].uid
    BY <1>1 DEF RowFor, NewKeyOf
  <1> QED
    BY <1>1, <1>2 DEF OwnUpload, HeldInv, PastCaller, AtPc

\* One step of DisappearsAuthorised.
LEMMA StepDisappears ==
  TypeInv /\ HeldInv /\ TableInv /\ [ANext]_allVars =>
    [\A k \in rows \ rows' :
       \E r \in Requests :
         \/ OwnDelete(r, k)
         \/ OwnUpload(r, k.slot) /\ k.uid \in unheld[r]]_allVars
  <1> SUFFICES ASSUME TypeInv, HeldInv, TableInv, ANext, NEW k \in rows \ rows'
               PROVE  \E r \in Requests :
                        \/ OwnDelete(r, k)
                        \/ OwnUpload(r, k.slot) /\ k.uid \in unheld[r]
    OBVIOUS
  <1>1. PICK r \in Requests :
          \/ OwnDelete(r, k)
          \/ /\ AtPc(r, "insert") /\ req[r].slot = k.slot
             /\ req[r].replace = k.uid
    BY GoneRowsStem DEF ANext
  <1>2. k.uid # None
    <2>1. k \in Rows
      BY DEF TableInv, TableTypeOK
    <2> QED
      BY <2>1, NoneIsNoUid DEF Rows
  <1> QED
    BY <1>1, <1>2 DEF OwnUpload, HeldInv, PastCaller, AtPc

\* A key is published only by an upload whose caller owned the address at some
\* moment while that upload was in flight.
THEOREM PublicationIsAuthorised == ASpec => AppearsAuthorised
  BY AuditInv, StepAppears, PTL DEF ASpec, AppearsAuthorised

\* A key goes only by its owner's delete, or by the upload of an owner at some
\* moment of which the key's uid did not own the address: of two users who both
\* own an address throughout, neither can evict the other.
THEOREM RemovalIsAuthorised == ASpec => DisappearsAuthorised
  BY AuditInv, StepDisappears, PTL DEF ASpec, DisappearsAuthorised

-----------------------------------------------------------------------------
(* Ids name rows for good. *)

\* Every row that ever was has an id the sequence has reached.
EverInv ==
  /\ ever \subseteq Rows /\ rows \subseteq ever
  /\ \A k \in ever : k.id <= lastId
  /\ IdNamesOneRow

\* At the start no row has ever been committed.
LEMMA InitEverInv == AInit => EverInv
  BY DEF AInit, AuditInit, Init, TableInit, EverInv, IdNamesOneRow, Rows

\* A row that is new has an id beyond every id there ever was.
LEMMA NextEverInv == TypeInv /\ TypeInv' /\ EverInv /\ [ANext]_allVars => EverInv'
  <1> SUFFICES ASSUME TypeInv, TypeInv', EverInv, [ANext]_allVars PROVE EverInv'
    OBVIOUS
  <1>1. CASE UNCHANGED allVars
    BY <1>1 DEF allVars, EverInv, IdNamesOneRow
  <1>2. CASE ANext
    <2>1. ever' = ever \cup rows' /\ [Next]_mgmtVars
      BY <1>2 DEF ANext, AuditStep
    <2>2. lastId \in Nat /\ rows' \subseteq Rows
      BY DEF TypeInv, TypeOK, TableTypeOK
    <2>3. CASE rows' \subseteq rows
      <3>1. ever' = ever /\ rows' \subseteq ever'
        BY <2>1, <2>3 DEF EverInv
      <3>2. [TableNext]_tableVars
        BY <2>1, StepIsTable
      <3>3. lastId' >= lastId /\ lastId' \in Nat
        BY <2>2, <3>2 DEF TableNext, InsertKey, DeleteKeyForUid, NextId, tableVars
      <3>4. \A k \in ever : k.id \in Nat
        BY DEF EverInv, Rows
      <3> QED
        BY <2>2, <3>1, <3>3, <3>4 DEF EverInv, IdNamesOneRow
    <2>4. CASE \E k \in rows' : k \notin rows
      <3>1. PICK k \in rows' : k \notin rows
        BY <2>4
      <3>2. PICK r \in Requests :
              /\ NewKeyOf(req[r]) \in NewKeys
              /\ InsertKey(NewKeyOf(req[r]), req[r].replace)
              /\ k = RowFor(NextId, NewKeyOf(req[r]))
        BY <2>1, <3>1, NewRowsStem
      <3>3. rows' \subseteq rows \cup {k} /\ lastId' = NextId /\ k.id = NextId
        BY <3>2, InsertKeyEffect, NewRow DEF TypeInv, TypeOK
      <3>4. ever' = ever \cup {k} /\ lastId' = lastId + 1 /\ k.id = lastId + 1
        BY <2>1, <3>1, <3>3 DEF EverInv, NextId
      <3>5. \A l \in ever : l.id \in Nat /\ l.id <= lastId
        BY DEF EverInv, Rows
      <3> QED
        BY <2>1, <2>2, <3>4, <3>5 DEF EverInv, IdNamesOneRow
    <2> QED
      BY <2>3, <2>4
  <1> QED
    BY <1>1, <1>2

\* Over the whole life of the database an id never stands for two rows.
THEOREM IdsNeverReused == ASpec => []IdNamesOneRow
  <1>1. ASpec => []TypeInv
    BY AuditInv, PTL
  <1>2. ASpec => []EverInv
    BY <1>1, InitEverInv, NextEverInv, PTL DEF ASpec
  <1>3. EverInv => IdNamesOneRow
    BY DEF EverInv
  <1> QED
    BY <1>2, <1>3, PTL

-----------------------------------------------------------------------------
(* What is in the way of an upload answered "shared". *)

\* What a handler concluded from its peek holds of every row that is not newer than
\* its request.
PeekInv ==
  \A r \in Requests :
    /\ first[r] \in 0..lastId
    /\ req[r].pc = "resolveHolder" =>
         \A k \in At(req[r].slot) : k.uid = req[r].replace \/ k.id > first[r]
    /\ req[r].pc = "insert" =>
         \A k \in At(req[r].slot) : k.uid \in {req[r].replace, req[r].uid} \/ k.id > first[r]

\* At the start nobody has peeked.
LEMMA InitPeekInv == AInit => PeekInv
  BY DEF AInit, AuditInit, Init, TableInit, NoRequest, PeekInv

\* existing_owner is the uid of every row in the slot.
LEMMA OwnerOfRow ==
  ASSUME TableInv, NEW k \in rows
  PROVE  ExistingOwner(k.slot) = k.uid
  <1>1. k.slot \in Slots /\ k \in At(k.slot)
    BY DEF TableInv, TableTypeOK, Rows, At, AtIn
  <1>2. PICK l \in At(k.slot) : ExistingOwner(k.slot) = l.uid
    BY <1>1, ExistingOwnerType DEF TableInv
  <1> QED
    BY <1>1, <1>2 DEF TableInv, OneRowPerSlot, At, AtIn

\* A row that is new is newer than every upload in flight.
LEMMA NextPeekInv ==
  TypeInv /\ TypeInv' /\ TableInv /\ PeekInv /\ [ANext]_allVars => PeekInv'
  <1> SUFFICES ASSUME TypeInv, TypeInv', TableInv, PeekInv, [ANext]_allVars PROVE PeekInv'
    OBVIOUS
  <1>1. CASE UNCHANGED allVars
    BY <1>1 DEF allVars, PeekInv, At, AtIn
  <1>2. CASE ANext
    <2>1. lastId \in Nat /\ lastId' \in Nat /\ lastId <= lastId'
      <3>1. [TableNext]_tableVars
        BY <1>2, StepIsTable DEF ANext
      <3> QED
        BY <3>1 DEF TypeInv, TypeOK, TableTypeOK, TableNext, InsertKey, DeleteKeyForUid,
                    NextId, tableVars
    <2>2. \A k \in rows' \ rows : k.id = lastId + 1
      BY <1>2, NewRowsStem DEF ANext, RowFor, NextId
    <2>3. ASSUME NEW r \in Requests
          PROVE  /\ first'[r] \in 0..lastId'
                 /\ req[r].pc \in Uploading /\ req'[r].pc \in Uploading => first'[r] = first[r]
      <3>1. req[r].pc \in Uploading /\ req'[r].pc \in Uploading => UploadStays(r)
        BY NoneIsNoSlot DEF TypeInv, AskingOK, Asking, Uploading, UploadStays
      <3>2. first'[r] = IF req'[r].slot = None THEN 0
                        ELSE IF UploadStays(r) THEN first[r] ELSE lastId
        BY <1>2 DEF ANext, AuditStep
      <3> QED
        BY <2>1, <3>1, <3>2 DEF PeekInv, UploadStays
    <2>4. ASSUME NEW r \in Requests, NEW k \in rows', k.slot = req'[r].slot,
                 req'[r].pc \in {"resolveHolder", "insert"}
          PROVE  \/ k.uid = req'[r].replace
                 \/ req'[r].pc = "insert" /\ k.uid = req'[r].uid
                 \/ k.id > first'[r]
      <3>1. Advance(r)
        BY <1>2, StepAdvances DEF ANext
      <3>2. req[r].pc \in Uploading /\ req'[r].pc \in Uploading /\ req'[r].slot = req[r].slot
        BY <2>4, <3>1 DEF Advance, SameUpload, Uploading
      <3>3. first'[r] = first[r] /\ first[r] \in 0..lastId
        BY <2>3, <3>2 DEF PeekInv
      <3>4. CASE k \notin rows
        BY <2>1, <2>2, <3>3, <3>4
      <3>5. CASE k \in rows
        <4>1. ExistingOwner(req[r].slot) = k.uid /\ k \in At(req[r].slot)
          BY <2>4, <3>2, <3>5, OwnerOfRow DEF At, AtIn
        <4>2. k.uid # None
          BY <3>5, NoneIsNoUid DEF TableInv, TableTypeOK, Rows
        <4> QED
          BY <2>4, <3>1, <3>3, <4>1, <4>2 DEF Advance, SameUpload, PeekInv
      <3> QED
        BY <3>4, <3>5
    <2> QED
      BY <2>3, <2>4 DEF PeekInv, At, AtIn
  <1> QED
    BY <1>1, <1>2

\* The two places where an upload is answered "shared".
LEMMA SharedReplies ==
  ASSUME TypeInv, [Next]_mgmtVars, NEW q \in Requests,
         ~AtPc(q, "idle"), req'[q].pc = "idle", req'[q].reply = "shared"
  PROVE  \/ AtPc(q, "resolveHolder") /\ Owns(req[q].replace, req[q].slot)
         \/ /\ AtPc(q, "insert")
            /\ Outcome(NewKeyOf(req[q]), req[q].replace) = "ownedByOther"
  <1> USE DEF TypeInv, TypeOK, AtPc
  <1>1. ASSUME NEW r \in Requests, NEW u \in Uids, NEW s \in Slots, NEW c \in Certs,
               ReceiveUpload(r, u, s, c)
        PROVE  FALSE
    BY <1>1 DEF ReceiveUpload, NoRequest
  <1>2. ASSUME NEW r \in Requests, NEW u \in Uids, NEW i \in 1..MaxId, ReceiveDelete(r, u, i)
        PROVE  FALSE
    BY <1>2 DEF ReceiveDelete, NoRequest
  <1>3. ASSUME NEW r \in Requests, NEW reply, Finish(r, reply)
        PROVE  r = q /\ reply = "shared"
    BY <1>3 DEF Finish, NoRequest
  <1>4. ASSUME NEW r \in Requests, NEW pc \in PCs \ {"idle"}, Goto(r, pc)
        PROVE  FALSE
    <2>1. req[r] \in ReqType
      OBVIOUS
    <2> QED
      BY <1>4, <2>1 DEF Goto, ReqType
  <1>5. ASSUME NEW r \in Requests, ResolveCaller(r) PROVE FALSE
    BY <1>3, <1>4, <1>5 DEF ResolveCaller, PCs
  <1>6. ASSUME NEW r \in Requests, Validate(r) PROVE FALSE
    BY <1>3, <1>4, <1>6 DEF Validate, Verdict, PCs
  <1>7. ASSUME NEW r \in Requests, Peek(r) PROVE FALSE
    <2>1. req[r] \in ReqType
      OBVIOUS
    <2>2. CASE req' = [req EXCEPT ![r].pc = "resolveHolder",
                                  ![r].replace = ExistingOwner(req[r].slot)]
      BY <2>1, <2>2 DEF ReqType
    <2> QED
      BY <1>4, <1>7, <2>2 DEF Peek, PCs
  <1>8. ASSUME NEW r \in Requests, ResolveHolder(r)
        PROVE  AtPc(q, "resolveHolder") /\ Owns(req[q].replace, req[q].slot)
    <2>1. CASE Finish(r, "shared") /\ Owns(req[r].replace, req[r].slot)
      BY <1>3, <1>8, <2>1 DEF ResolveHolder
    <2> QED
      BY <1>4, <1>8, <2>1 DEF ResolveHolder, PCs
  <1>9. ASSUME NEW r \in Requests, Insert(r)
        PROVE  /\ AtPc(q, "insert")
               /\ Outcome(NewKeyOf(req[q]), req[q].replace) = "ownedByOther"
    <2>1. ~ Finish(r, "created") /\ ~ Finish(r, "duplicate")
      BY <1>3
    <2>2. /\ ~InsertAllowed(NewKeyOf(req[r]), req[r].replace)
          /\ Outcome(NewKeyOf(req[r]), req[r].replace) # "duplicate" /\ r = q
      BY <1>3, <1>9, <2>1 DEF Insert
    <2> QED
      BY <1>9, <2>2 DEF Insert, InsertAllowed, Outcome, InsertOutcome
  <1>10. ASSUME NEW r \in Requests, Delete(r) \/ UserDbFails(r) \/ SqlFails(r) PROVE FALSE
    BY <1>3, <1>10 DEF Delete, UserDbFails, SqlFails
  <1>11. ASSUME NEW r \in Requests, Disconnect(r) PROVE FALSE
    <2>1. req[r] \in ReqType
      OBVIOUS
    <2> QED
      BY <1>11, <2>1 DEF Disconnect, NoRequest, ReqType
  <1>12. CASE Crash \/ Reassign \/ Tick \/ UNCHANGED mgmtVars
    BY <1>12 DEF Crash, Reassign, Tick, mgmtVars, NoRequest
  <1> QED
    BY <1>1, <1>2, <1>5, <1>6, <1>7, <1>8, <1>9, <1>10, <1>11, <1>12 DEF Next, Handler

\* One step of SharedConflictIsRecent.
LEMMA StepShared ==
  TypeInv /\ HeldInv /\ TableInv /\ PeekInv /\ [ANext]_allVars =>
    [\A r \in Requests :
       ~AtPc(r, "idle") /\ req'[r].pc = "idle" /\ req'[r].reply = "shared"
         => \A k \in At(req[r].slot) : k.uid \in held[r] \/ k.id > first[r]]_allVars
  <1> SUFFICES ASSUME TypeInv, HeldInv, TableInv, PeekInv, ANext, NEW r \in Requests,
                      ~AtPc(r, "idle"), req'[r].pc = "idle", req'[r].reply = "shared",
                      NEW k \in At(req[r].slot)
               PROVE  k.uid \in held[r] \/ k.id > first[r]
    OBVIOUS
  <1>1. k \in rows /\ k.slot = req[r].slot /\ k.uid \in Uids
    BY DEF At, AtIn, TableInv, TableTypeOK, Rows
  <1>2. CASE AtPc(r, "resolveHolder") /\ Owns(req[r].replace, req[r].slot)
    <2>1. k.uid = req[r].replace => k.uid \in OwnersIn(owns, req[r].slot)
      BY <1>1, <1>2 DEF Owns, OwnersIn
    <2> QED
      BY <1>2, <2>1 DEF PeekInv, HeldInv, AtPc, Uploading
  <1>3. CASE AtPc(r, "insert") /\ Outcome(NewKeyOf(req[r]), req[r].replace) = "ownedByOther"
    <2>1. ExistingOwner(req[r].slot) = k.uid
      BY <1>1, OwnerOfRow
    <2>2. k.uid \notin {req[r].uid, req[r].replace}
      BY <1>1, <1>3, <2>1, NoneIsNoUid DEF Outcome, InsertOutcome, NewKeyOf
    <2> QED
      BY <1>3, <2>2 DEF PeekInv, AtPc
  <1> QED
    BY <1>2, <1>3, SharedReplies DEF ANext

\* Whoever is told that an address is shared: every row in the way is of a uid that
\* owned the address at some moment of the upload, or was published during it.
THEOREM SharedMeansRecent == ASpec => SharedConflictIsRecent
  <1>1. ASpec => []PeekInv
    BY AuditInv, InitPeekInv, NextPeekInv, PTL DEF ASpec
  <1> QED
    BY <1>1, AuditInv, StepShared, PTL DEF ASpec, SharedConflictIsRecent
=============================================================================

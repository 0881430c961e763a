----------------------------- MODULE MgmtAudit ------------------------------
(***************************************************************************)
(* Mgmt with an auditor that watches and never interferes: it remembers    *)
(* which rows there have ever been, who has owned the address of a request *)
(* while the request was in flight, and which rows outlived the ownership  *)
(* they were published under.  The properties compare what the handlers do *)
(* on stale answers with what UserDb said at some moment of the request.   *)
(***************************************************************************)
EXTENDS Mgmt

VARIABLES ever,    \* every row that was ever committed
          lapsed,  \* ids of rows whose uid has not owned the slot all along
          held,    \* held[r]: uids that owned r's slot at some moment of r
          unheld,  \* unheld[r]: uids that did not, at some moment of r
          first    \* first[r]: lastId when r was received

auditVars == <<ever, lapsed, held, unheld, first>>
allVars   == <<rows, lastId, owns, now, req, faults, ever, lapsed, held, unheld, first>>

OwnersIn(f, s) == {u \in Uids : s \in f[u]}

AuditInit ==
  /\ ever = {} /\ lapsed = {}
  /\ held = [r \in Requests |-> {}]
  /\ unheld = [r \in Requests |-> {}]
  /\ first = [r \in Requests |-> 0]

\* A row is lapsed once its uid did not own its slot in some state since the
\* row is there, the state it appeared in included.
LapsedNext ==
  {k.id : k \in {l \in rows' : l.slot \notin owns'[l.uid] \/ l.id \in lapsed}}

\* Upload r is in flight after this step; it was before it as well.
UploadStays(r) == req[r].slot # None /\ req'[r].slot # None

AuditStep ==
  /\ ever' = ever \cup rows'
  /\ lapsed' = LapsedNext
  /\ held' = [r \in Requests |->
       IF req'[r].slot = None THEN {}
       ELSE (IF UploadStays(r) THEN held[r] ELSE {}) \cup OwnersIn(owns', req'[r].slot)]
  /\ unheld' = [r \in Requests |->
       IF req'[r].slot = None THEN {}
       ELSE (IF UploadStays(r) THEN unheld[r] ELSE {})
            \cup (Uids \ OwnersIn(owns', req'[r].slot))]
  /\ first' = [r \in Requests |->
       IF req'[r].slot = None THEN 0
       ELSE IF UploadStays(r) THEN first[r] ELSE lastId]

AInit == Init /\ AuditInit
ANext == Next /\ AuditStep
ASpec == AInit /\ [][ANext]_allVars

-----------------------------------------------------------------------------
\* Row ids name rows for good: no two rows that ever existed share an id, so a
\* delete sent for a row that is gone (another tab deleted it, a new owner
\* replaced it) never hits a newer row.
IdNamesOneRow == \A k, l \in ever : k.id = l.id => k = l

OwnDelete(r, k) ==
  AtPc(r, "delete") /\ req[r].uid = k.uid /\ req[r].id = k.id

\* Upload r may write to row k's slot: its caller owned it during the request.
OwnUpload(r, s) ==
  AtPc(r, "insert") /\ req[r].slot = s /\ req[r].uid \in held[r]

\* A row appears only through the upload of its own uid, for a slot that uid
\* owned at some moment while the upload was in flight: not before it, and not
\* by virtue of what somebody else owns.
AppearsAuthorised ==
  [][\A k \in rows' \ rows :
       \E r \in Requests : OwnUpload(r, k.slot) /\ req[r].uid = k.uid]_allVars

\* A row disappears only because its uid deleted it by its id, or because the
\* upload of an owner replaced it and its uid was at some moment of that upload
\* not an owner.  It may be one again when the row goes: see ContinuousOwnerKeepsKey.
DisappearsAuthorised ==
  [][\A k \in rows \ rows' :
       \E r \in Requests :
         \/ OwnDelete(r, k)
         \/ OwnUpload(r, k.slot) /\ k.uid \in unheld[r]]_allVars

\* The 409 "another owner of this shared address" is worded from a UserDb answer
\* about one uid, or from none, when the row in the way may be another's by then.
\* When it is given, every row in the way is of a uid that owned the address at
\* some moment of the upload, or was published while the upload was in flight.
SharedConflictIsRecent ==
  [][\A r \in Requests :
       ~AtPc(r, "idle") /\ req'[r].pc = "idle" /\ req'[r].reply = "shared"
         => \A k \in At(req[r].slot) : k.uid \in held[r] \/ k.id > first[r]]_allVars

-----------------------------------------------------------------------------
(* Two claims of the sources that the code does not keep. *)

\* README: a replacement "only happens when [...] UserDb no longer reports that
\* other uid as an owner of it either".  A row whose uid has owned the address
\* from the moment it was inserted is then only ever removed by its own uid.
ContinuousOwnerKeepsKey ==
  [][\A k \in rows \ rows' :
       k.id \in lapsed \/ \E r \in Requests : OwnDelete(r, k)]_allVars

\* The 409 of already_exists_shared: the key in the way was "published by
\* another owner who still owns it too", at some moment of the request.
SharedConflictMeansHolderOwns ==
  [][\A r \in Requests :
       AtPc(r, "insert") /\ req'[r].reply = "shared"
         => \A k \in At(req[r].slot) : k.uid \in held[r]]_allVars
=============================================================================

-------------------------------- MODULE Mgmt --------------------------------
(***************************************************************************)
(* wkdmgr-mgmt: the upload and delete handlers of wkdmgr-mgmt/src/lib.rs,  *)
(* run by any number of concurrent requests against one SQLite connection  *)
(* behind a mutex and one UserDb whose answers change under them.          *)
(*                                                                         *)
(* A request keeps a program counter: its handler suspends at every await, *)
(* and between two awaits it runs as one step.  A closure handed to        *)
(* spawn_blocking holds the mutex for its whole run, so it is one step too, *)
(* and it runs even when its client has gone away in the meantime.         *)
(*                                                                         *)
(* An address is its slot: two spellings that eq_ignore_ascii_case accepts *)
(* as the same address have one (domain, wkd_hash).                        *)
(***************************************************************************)
EXTENDS KeyTable

CONSTANTS
  Requests,        \* connections that carry at most one request at a time
  ServedSlots,     \* the slots whose domain is in allowed_domains
  CertInfo,        \* what openpgp.rs computes of each certificate
  InitialOwns,     \* the addresses UserDb reports at startup
  MaxId,           \* bound: ids handed out before clients stop asking
  MaxTime,         \* bound: the clock stops here
  MaxFaults        \* bound: UserDb outages, SQL errors, disconnects, crashes

\* What the upload handler learns of a certificate.  parses: parse_key_material
\* succeeds and the primary key's self-signature is valid; names: the slots
\* of its User IDs; revoked: is_revoked of its minimized form; expires:
\* expiration_time.
ASSUME CertInfoType ==
  CertInfo \in [Certs -> [parses: BOOLEAN, names: SUBSET Slots,
                          revoked: BOOLEAN, expires: Expiries]]
ASSUME ServedType == ServedSlots \subseteq Slots
ASSUME OwnsType   == InitialOwns \in [Uids -> SUBSET Slots]
ASSUME BoundsType == MaxId \in Nat /\ MaxTime \in Nat /\ MaxFaults \in Nat

VARIABLES owns,    \* addresses_for_user, as UserDb would answer now
          now,     \* Utc::now() in seconds
          req,     \* the requests in flight and the last reply on each
          faults   \* faults so far

mgmtVars == <<rows, lastId, owns, now, req, faults>>

\* Where a request's handler is suspended.
PCs == {"idle", "resolveCaller", "validate", "peek", "resolveHolder", "insert", "delete"}

Replies == {"none", "created", "deleted", "notFound", "notOwned", "notServed",
            "badKey", "expired", "noMatch", "duplicate", "shared",
            "unavailable", "internal"}

\* uid, slot, cert: who asks and what is uploaded; id: what is deleted; replace: replace_if_owned_by once known, and the uid found by the
\* peek while it is being looked up; attached: the client still waits.
NoRequest == [pc |-> "idle", uid |-> None, slot |-> None, cert |-> None,
              replace |-> None, id |-> 0, attached |-> FALSE, reply |-> "none"]

ReqType == [pc: PCs, uid: Uids \cup {None}, slot: Slots \cup {None},
            cert: Certs \cup {None}, replace: Uids \cup {None},
            id: Nat, attached: BOOLEAN, reply: Replies]

Init ==
  /\ TableInit
  /\ owns = InitialOwns
  /\ now = 0
  /\ req = [r \in Requests |-> NoRequest]
  /\ faults = 0

-----------------------------------------------------------------------------
(* Steps of a handler. *)

AtPc(r, pc) == req[r].pc = pc

\* A handler returns: the reply stays on the connection until its next request.
Finish(r, reply) ==
  req' = [req EXCEPT ![r] = [NoRequest EXCEPT
                               !.reply = IF req[r].attached THEN reply ELSE "none"]]

Goto(r, pc) == req' = [req EXCEPT ![r].pc = pc]

\* addresses_for_user(u) has the request's address.
Owns(u, s) == s \in owns[u]

\* POST /api/keys with an authenticated uid.  A client stops once MaxId ids
\* have been given, which keeps the table's ids finite.
ReceiveUpload(r, u, s, c) ==
  /\ AtPc(r, "idle")
  /\ lastId < MaxId
  /\ req' = [req EXCEPT ![r] = [NoRequest EXCEPT !.pc = "resolveCaller", !.uid = u,
                                  !.slot = s, !.cert = c, !.attached = TRUE]]
  /\ UNCHANGED <<rows, lastId, owns, now, faults>>

\* Mutant of ResolveCaller: the address is not looked for in UserDb's answer.
ResolveCallerUnchecked(r) ==
  /\ AtPc(r, "resolveCaller")
  /\ Goto(r, "validate")
  /\ UNCHANGED <<rows, lastId, owns, now, faults>>

\* The first UserDb round trip: the caller's own addresses.
ResolveCaller(r) ==
  /\ AtPc(r, "resolveCaller")
  /\ IF Owns(req[r].uid, req[r].slot) THEN Goto(r, "validate") ELSE Finish(r, "notOwned")
  /\ UNCHANGED <<rows, lastId, owns, now, faults>>

\* validate_for_address: alive() is "expires strictly after now".
Alive(c) == CertInfo[c].expires = Never \/ CertInfo[c].expires > now

\* The checks between the UserDb answer and the database, in the handler's
\* order: the domain, then parse_key_material, then validate_for_address.
Verdict(c, s) ==
  IF s \notin ServedSlots THEN "notServed"
  ELSE IF ~CertInfo[c].parses THEN "badKey"
  ELSE IF ~Alive(c) THEN "expired"
  ELSE IF s \notin CertInfo[c].names THEN "noMatch"
  ELSE "ok"

\* The synchronous part between the first UserDb answer and the first closure.
Validate(r) ==
  /\ AtPc(r, "validate")
  /\ LET v == Verdict(req[r].cert, req[r].slot)
     IN IF v = "ok" THEN Goto(r, "peek") ELSE Finish(r, v)
  /\ UNCHANGED <<rows, lastId, owns, now, faults>>

\* Mutant of NeedsHolder: the handler never asks who held the address before.
NeverAsksHolder(owner, u) == FALSE

\* The first closure, existing_owner, and the match on its result: another
\* uid's row sends the handler to UserDb a second time.
NeedsHolder(owner, u) == owner \notin {None, u}

Peek(r) ==
  /\ AtPc(r, "peek")
  /\ LET owner == ExistingOwner(req[r].slot)
     IN IF NeedsHolder(owner, req[r].uid)
        THEN req' = [req EXCEPT ![r].pc = "resolveHolder", ![r].replace = owner]
        ELSE Goto(r, "insert")
  /\ UNCHANGED <<rows, lastId, owns, now, faults>>

\* The second UserDb round trip: does the uid on file still own the address?
ResolveHolder(r) ==
  /\ AtPc(r, "resolveHolder")
  /\ IF Owns(req[r].replace, req[r].slot) THEN Finish(r, "shared") ELSE Goto(r, "insert")
  /\ UNCHANGED <<rows, lastId, owns, now, faults>>

\* The row the upload wants: revoked and expires come from the certificate.
NewKeyOf(q) == [uid |-> q.uid, slot |-> q.slot, cert |-> q.cert,
                revoked |-> CertInfo[q.cert].revoked, expires |-> CertInfo[q.cert].expires]

\* The second closure, insert_key, and the reply made of its result.
Insert(r) ==
  LET n == NewKeyOf(req[r])
  IN /\ AtPc(r, "insert")
     /\ \/ /\ InsertKey(n, req[r].replace)
           /\ Finish(r, "created")
        \/ /\ ~InsertAllowed(n, req[r].replace)
           /\ Finish(r, IF Outcome(n, req[r].replace) = "duplicate" THEN "duplicate" ELSE "shared")
           /\ UNCHANGED tableVars
     /\ UNCHANGED <<owns, now, faults>>

\* DELETE /api/keys/{id} with an authenticated uid and any id at all.
ReceiveDelete(r, u, i) ==
  /\ AtPc(r, "idle")
  /\ req' = [req EXCEPT ![r] = [NoRequest EXCEPT !.pc = "delete", !.uid = u,
                                  !.id = i, !.attached = TRUE]]
  /\ UNCHANGED <<rows, lastId, owns, now, faults>>

\* delete_key's one closure: list_keys_for_uid, find the id, delete it.
Delete(r) ==
  /\ AtPc(r, "delete")
  /\ \/ /\ \E k \in ListKeysForUid(req[r].uid) : k.id = req[r].id
        /\ DeleteKeyForUid(req[r].id, req[r].uid)
        /\ Finish(r, "deleted")
     \/ /\ ~ \E k \in ListKeysForUid(req[r].uid) : k.id = req[r].id
        /\ Finish(r, "notFound")
        /\ UNCHANGED tableVars
  /\ UNCHANGED <<owns, now, faults>>

-----------------------------------------------------------------------------
(* Failures. *)

Fault == faults < MaxFaults /\ faults' = faults + 1

\* UserDb answers with an error, the LDAP timeout included.
UserDbFails(r) ==
  /\ Fault
  /\ req[r].pc \in {"resolveCaller", "resolveHolder"}
  /\ Finish(r, "unavailable")
  /\ UNCHANGED <<rows, lastId, owns, now>>

\* A statement fails: the transaction is rolled back when it is dropped.
SqlFails(r) ==
  /\ Fault
  /\ req[r].pc \in {"peek", "insert", "delete"}
  /\ Finish(r, "internal")
  /\ UNCHANGED <<rows, lastId, owns, now>>

\* The client goes away and its handler is dropped.  A writing closure that was
\* already handed to spawn_blocking runs all the same, with nobody to tell.
Disconnect(r) ==
  /\ Fault
  /\ req[r].pc # "idle" /\ req[r].attached
  /\ \/ req' = [req EXCEPT ![r] = NoRequest]
     \/ /\ req[r].pc \in {"insert", "delete"}
        /\ req' = [req EXCEPT ![r].attached = FALSE]
  /\ UNCHANGED <<rows, lastId, owns, now>>

\* The process dies and is started again on the same database.
Crash ==
  /\ Fault
  /\ \E r \in Requests : req[r].pc # "idle"
  /\ req' = [r \in Requests |-> NoRequest]
  /\ UNCHANGED <<rows, lastId, owns, now>>

-----------------------------------------------------------------------------
(* The environment. *)

\* An address changes hands: H is the set of uids UserDb reports it for now.
Reassign ==
  /\ \E s \in Slots, H \in SUBSET Uids :
       owns' = [u \in Uids |-> IF u \in H THEN owns[u] \cup {s} ELSE owns[u] \ {s}]
  /\ owns' # owns
  /\ UNCHANGED <<rows, lastId, now, req, faults>>

Tick ==
  /\ now < MaxTime
  /\ now' = now + 1
  /\ UNCHANGED <<rows, lastId, owns, req, faults>>

Handler(r) == \/ ResolveCaller(r) \/ Validate(r) \/ Peek(r) \/ ResolveHolder(r)
              \/ Insert(r) \/ Delete(r)

Next ==
  \/ \E r \in Requests :
       \/ \E u \in Uids, s \in Slots, c \in Certs : ReceiveUpload(r, u, s, c)
       \/ \E u \in Uids, i \in 1..MaxId : ReceiveDelete(r, u, i)
       \/ Handler(r)
       \/ UserDbFails(r) \/ SqlFails(r) \/ Disconnect(r)
  \/ Crash \/ Reassign \/ Tick

Spec == Init /\ [][Next]_mgmtVars

\* Every suspended handler is resumed: closures on the blocking pool run, and a
\* UserDb call answers or, through the LDAP timeout, fails.
HandlersRun == \A r \in Requests : WF_mgmtVars(Handler(r))

\* A user keeps asking: an upload they may send infinitely often is sent.  This
\* is an assumption about clients, not about the program.
ClientsRetry ==
  \A u \in Uids, s \in Slots, c \in Certs :
    SF_mgmtVars(\E r \in Requests : ReceiveUpload(r, u, s, c))

LiveSpec == Spec /\ HandlersRun /\ ClientsRetry

-----------------------------------------------------------------------------
\* The table, UserDb's answers, the clock and every request stay well typed: no
\* row ever gets the id 0 or a column of the wrong kind.
TypeOK ==
  /\ TableTypeOK
  /\ owns \in [Uids -> SUBSET Slots]
  /\ now \in Nat
  /\ req \in [Requests -> ReqType]
  /\ faults \in Nat

\* What a WKD lookup can return now was checked for that very address and is
\* neither revoked nor expired now, however long ago the upload was checked and
\* whatever happened between its check and its insert.
ServedIsGood ==
  \A s \in Slots : \A k \in LookupKeyData(s, now) :
    /\ s \in ServedSlots
    /\ CertInfo[k.cert].parses /\ s \in CertInfo[k.cert].names
    /\ ~CertInfo[k.cert].revoked
    /\ Alive(k.cert)

\* The address belongs to u alone from some moment on.
SoleOwner(u, s) == \A v \in Uids : s \in owns[v] <=> v = u

\* A new owner is never locked out by the row of a previous one: whoever becomes
\* the only owner of a served address for good, has a good key for it and keeps
\* uploading, gets a row of their own (or the clients' id bound was reached).
NewOwnerPublishes ==
  \A u \in Uids, s \in ServedSlots :
    [](SoleOwner(u, s)) ~> (ExistingOwner(s) = u \/ lastId >= MaxId)
=============================================================================

------------------------------ MODULE Frontend ------------------------------
(***************************************************************************)
(* The page (frontend/src): one user's addresses, upload form and key list. *)
(* Its requests to wkdmgr-mgmt are in flight on their own, are handled and *)
(* answered in any order, and may fail.  Behind them are the user's rows of *)
(* the key table, which somebody else may take away.                       *)
(***************************************************************************)
EXTENDS Naturals, FiniteSets

CONSTANTS
  Addresses,   \* what GET /api/me answers
  Expiries, Never, None,
  InitialIds,  \* ids given before the page is opened
  MaxClicks, MaxFaults, MaxNow   \* bounds

ASSUME PageExpiries == Expiries \subseteq Nat \cup {Never} /\ {Never, None} \cap Nat = {}
ASSUME PageBounds   ==
  InitialIds \in Nat /\ MaxClicks \in Nat /\ MaxFaults \in Nat /\ MaxNow \in Nat

VARIABLES
  server,    \* the user's rows and the last id given
  now, page, \* page: the refs of App and its three components
  requests,  \* in flight
  abandoned, \* requests whose connection broke, and that may still be carried out
  sent, clicks, faults,
  doubt      \* history: a refresh failed, overlapped another, or was not asked for
             \* when the rows changed

frontendVars == <<server, now, page, requests, abandoned, sent, clicks, faults, doubt>>

Ids  == 1..(InitialIds + MaxClicks)
Keys == [address: Addresses, revoked: BOOLEAN, expires: Expiries]
Rows == [id: Ids, key: Keys]
Statuses == {"published", "revoked", "expired", "no key"}

\* key: what a POST brings.  id: what a DELETE names.  rows: the answer of a GET.
Requests == [n: 1..(2 * MaxClicks + 2), kind: {"me", "list", "upload", "delete"},
             key: Keys \cup {None}, id: Ids \cup {None},
             done: BOOLEAN, ok: BOOLEAN, rows: SUBSET Rows]
NewRequest(n, kind, key, id) ==
  [n |-> n, kind |-> kind, key |-> key, id |-> id, done |-> FALSE, ok |-> FALSE, rows |-> {}]

InFlight(kind) == {r \in requests : r.kind = kind}

-----------------------------------------------------------------------------
(* wkdmgr-mgmt: an address has one key, a row is deleted by its id. *)
After(r) ==
  CASE r.kind = "upload" /\ \A k \in server.rows : k.key.address # r.key.address ->
         [lastId |-> server.lastId + 1,
          rows   |-> server.rows \cup {[id |-> server.lastId + 1, key |-> r.key]}]
    [] r.kind = "delete" -> [server EXCEPT !.rows = {k \in @ : k.id # r.id}]
    [] OTHER             -> server

Handle(r) ==
  /\ ~r.done
  /\ server' = After(r)
  /\ requests' = (requests \ {r}) \cup
       {[r EXCEPT !.done = TRUE, !.ok = r.kind \in {"me", "list"} \/ server' # server,
                  !.rows = IF r.kind = "list" THEN server.rows ELSE {}]}
  /\ UNCHANGED <<now, page, abandoned, sent, clicks, faults, doubt>>

\* An upload refused for its key, its address or another holder's sake.
Refuse(r) ==
  /\ r.kind = "upload" /\ ~r.done
  /\ requests' = (requests \ {r}) \cup {[r EXCEPT !.done = TRUE]}
  /\ UNCHANGED <<server, now, page, abandoned, sent, clicks, faults, doubt>>

\* The closure of an upload or a delete runs to its end although its handler was dropped
\* with the connection; nobody gets an answer, and no refresh follows.
HandleAbandoned(r) ==
  /\ server' = After(r)
  /\ abandoned' = abandoned \ {r}
  /\ doubt' = (doubt \/ server' # server)
  /\ UNCHANGED <<now, page, requests, sent, clicks, faults>>

-----------------------------------------------------------------------------
\* Mutant of StatusFor: having a row is being published.
StatusByRow(K, a) == IF \E k \in K : k.key.address = a THEN "published" ELSE "no key"

\* AddressList's statusFor of the row found for an address.
StatusFor(K, a) ==
  LET found == {k.key : k \in {k \in K : k.key.address = a}}
  IN IF found = {} THEN "no key"
     ELSE IF \E k \in found : k.revoked THEN "revoked"
     ELSE IF \E k \in found : k.expires # Never /\ k.expires <= now THEN "expired"
     ELSE "published"

\* The end of a request: what it leaves of the page, and whether the list may now
\* be behind.
End(r, newPage, behind) ==
  /\ requests' = requests \ {r}
  /\ page' = newPage
  /\ doubt' = (doubt \/ behind)
  /\ UNCHANGED <<server, now, sent, clicks>>

\* The end of a request that is followed by refreshKeys.
EndAndRefresh(r, newPage) ==
  /\ sent' = sent + 1
  /\ requests' = (requests \ {r}) \cup {NewRequest(sent', "list", None, None)}
  /\ page' = newPage
  /\ doubt' = (doubt \/ InFlight("list") # {})
  /\ UNCHANGED <<server, now, clicks>>

\* loadAll, between getMe and refreshKeys.
MeAnswered(r) == r.kind = "me" /\ EndAndRefresh(r, page)

\* refreshKeys: an answer becomes the list, whatever came before it.  The computed
\* rows of AddressList are rendered anew; Date.now() is nothing Vue watches.
\* Within loadAll it also ends the loading.
ListAnswered(r) ==
  /\ r.kind = "list"
  /\ End(r, [page EXCEPT !.phase = "ready", !.keys = r.rows,
                         !.badges = [a \in Addresses |-> StatusFor(r.rows, a)]], FALSE)

\* Mutant of UploadAnswered: uploaded is not emitted.
UploadAnsweredSilently(r) ==
  r.kind = "upload" /\ End(r, [page EXCEPT !.submitting = FALSE], FALSE)

\* onSubmit after its await: on a 201 it emits uploaded, which App refreshes on.
UploadAnswered(r) ==
  LET p == [page EXCEPT !.submitting = FALSE]
  IN r.kind = "upload" /\ IF r.ok THEN EndAndRefresh(r, p) ELSE End(r, p, FALSE)

\* onDelete after its await: whichever delete was pending, none is any more.
DeleteAnswered(r) ==
  LET p == [page EXCEPT !.pendingId = None]
  IN r.kind = "delete" /\ IF r.ok THEN EndAndRefresh(r, p) ELSE End(r, p, FALSE)

Answer(r) ==
  /\ r.done
  /\ MeAnswered(r) \/ ListAnswered(r) \/ UploadAnswered(r) \/ DeleteAnswered(r)
  /\ UNCHANGED <<abandoned, faults>>

\* Mutant of AfterFailure: only a success ends what was begun.
AfterFailureStuck(r) ==
  IF r.kind \in {"me", "list"} /\ page.phase = "loading" THEN [page EXCEPT !.phase = "failed"]
  ELSE page

\* The catch and finally of the callers.  A refresh that fails after loading is
\* caught by nobody and leaves the old list.
AfterFailure(r) ==
  CASE r.kind = "upload" -> [page EXCEPT !.submitting = FALSE]
    [] r.kind = "delete" -> [page EXCEPT !.pendingId = None]
    [] OTHER -> IF page.phase = "loading" THEN [page EXCEPT !.phase = "failed"] ELSE page

\* The connection breaks, before or after the request was handled.  One that changes rows
\* and was not handled yet is lost, or is still carried out some time: page and server know
\* nothing of each other any more.
Break(r) ==
  /\ faults < MaxFaults
  /\ faults' = faults + 1
  /\ End(r, AfterFailure(r), r.ok \/ r.kind = "list")
  /\ \/ UNCHANGED abandoned
     \/ /\ r.kind \in {"upload", "delete"} /\ ~r.done
        /\ abandoned' = abandoned \cup {r}

-----------------------------------------------------------------------------
Click(kind, key, id, newPage) ==
  /\ page.phase = "ready" /\ clicks < MaxClicks
  /\ clicks' = clicks + 1
  /\ sent' = sent + 1
  /\ requests' = requests \cup {NewRequest(sent', kind, key, id)}
  /\ page' = newPage
  /\ UNCHANGED <<server, now, abandoned, faults, doubt>>

\* Mutant of Submit: the button stays enabled while an upload runs.
SubmitAgain(key) == Click("upload", key, None, [page EXCEPT !.submitting = TRUE])

\* onSubmit with both fields filled in.
Submit(key) ==
  ~page.submitting /\ Click("upload", key, None, [page EXCEPT !.submitting = TRUE])

\* onDelete: only the button of the row clicked last is disabled.
Delete(k) ==
  page.pendingId # k.id /\ Click("delete", None, k.id, [page EXCEPT !.pendingId = k.id])

\* Another page of the user deletes a row, or its address is taken over.
OthersTake(k) ==
  /\ faults < MaxFaults
  /\ faults' = faults + 1
  /\ server' = [server EXCEPT !.rows = @ \ {k}]
  /\ doubt' = TRUE
  /\ UNCHANGED <<now, page, requests, abandoned, sent, clicks>>

Tick == now < MaxNow /\ now' = now + 1
        /\ UNCHANGED <<server, page, requests, abandoned, sent, clicks, faults, doubt>>

-----------------------------------------------------------------------------
\* The user's keys when the page is opened: any, one at most for an address.
InitialRows ==
  {R \in SUBSET [id: 1..InitialIds, key: Keys] :
     \A k, l \in R : k # l => k.id # l.id /\ k.key.address # l.key.address}

FrontendInit ==
  /\ server \in [rows: InitialRows, lastId: {InitialIds}]
  /\ now = 0 /\ sent = 1 /\ clicks = 0 /\ faults = 0 /\ doubt = FALSE
  /\ requests = {NewRequest(1, "me", None, None)} /\ abandoned = {}
  /\ page = [phase |-> "loading", keys |-> {}, badges |-> [a \in Addresses |-> "no key"],
             submitting |-> FALSE, pendingId |-> None]

FrontendNext ==
  \/ \E r \in requests : Handle(r) \/ Refuse(r) \/ Answer(r) \/ Break(r)
  \/ \E r \in abandoned : HandleAbandoned(r)
  \/ \E key \in Keys : Submit(key)
  \/ \E k \in page.keys : Delete(k)
  \/ \E k \in server.rows : OthersTake(k)
  \/ Tick

FrontendSpec == FrontendInit /\ [][FrontendNext]_frontendVars

\* Every request is handled and answered, unless its connection breaks.
FrontendFairSpec ==
  FrontendSpec /\ WF_frontendVars(\E r \in requests : Handle(r) \/ Answer(r))

-----------------------------------------------------------------------------
Pages == [phase: {"loading", "failed", "ready"}, keys: SUBSET Rows,
          badges: [Addresses -> Statuses], submitting: BOOLEAN, pendingId: Ids \cup {None}]

\* The page, the requests and the server's rows stay well typed.
FrontendTypeOK ==
  /\ server.rows \subseteq Rows /\ server.lastId \in Ids \cup {0}
  /\ page \in Pages
  /\ \A r \in requests \cup abandoned : r \in Requests
  /\ now \in 0..MaxNow /\ faults \in 0..MaxFaults /\ doubt \in BOOLEAN

\* The form waits for one upload at most, and knows whether it waits for one.  The server
\* may still have another, whose connection broke.
OneUploadAtATime ==
  Cardinality(InFlight("upload")) = IF page.submitting THEN 1 ELSE 0

\* A row shown as being removed is being removed, though several deletes run at
\* once and share the one pendingId.
PendingIsInFlight ==
  page.pendingId # None => \E r \in InFlight("delete") : r.id = page.pendingId

\* What the page did itself ends up in its list: at rest it shows the user's rows,
\* unless a refresh failed or was overtaken by another, somebody else changed them, or a
\* request whose connection had broken was carried out all the same.
ListIsCurrent ==
  page.phase = "ready" /\ requests = {} /\ ~doubt => page.keys = server.rows

\* A lookup finds the key of an address in a list: what wkdmgr-query filters by.
FoundIn(K, a) ==
  \E k \in K : /\ k.key.address = a /\ ~k.key.revoked
               /\ k.key.expires = Never \/ k.key.expires > now

\* A badge says published only of what a lookup would find, going by the list and
\* the clock at the time it is rendered.
RenderedHonestly ==
  [][page'.badges # page.badges =>
       \A a \in Addresses :
         page'.badges[a] = "published" => FoundIn(page'.keys, a)]_frontendVars

\* However requests overlap and fail, the form becomes usable again.
SubmitEnds == page.submitting ~> ~page.submitting

\* A badge of a list that is current says published only of what a lookup finds.
BadgeIsHonest ==
  \A a \in Addresses :
    page.badges[a] = "published" /\ page.keys = server.rows => FoundIn(page.keys, a)
=============================================================================

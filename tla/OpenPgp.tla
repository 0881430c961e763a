------------------------------ MODULE OpenPgp -------------------------------
(***************************************************************************)
(* openpgp.rs: what an upload makes of a certificate, and what is served of *)
(* it afterwards.  The owner edits one certificate in their own OpenPGP     *)
(* program and publishes it for their addresses; what is published is a     *)
(* minimised copy that no longer follows the original.                      *)
(*                                                                         *)
(* A certificate is its components with what self-signatures say of them.  *)
(* sequoia drops what has no valid self-signature before this code sees it. *)
(***************************************************************************)
EXTENDS Naturals

CONSTANTS
  UserIds, Addresses, EmailOf,   \* EmailOf[u]: the address User ID u contains
  Subkeys, Certifiers,           \* Certifiers: other people's keys
  Expiries, Never, None,
  MaxNow, MaxEdits   \* bounds: the clock, and changes of the certificate

ASSUME EmailOfType   == EmailOf \in [UserIds -> Addresses]
ASSUME ExpiriesType  == Expiries \subseteq Nat \ {0} /\ Never \notin Nat
ASSUME OpenPgpBounds == MaxNow \in Nat /\ MaxEdits \in Nat

VARIABLES key,       \* the owner's certificate
          edits, now,
          rows,      \* per address what the table holds, None if nothing
          uploaded   \* history: the certificate each row was made from

openPgpVars == <<key, edits, now, rows, uploaded>>

Components(S, Info) == UNION {[D -> Info] : D \in SUBSET S}
Bindings == [revoked: BOOLEAN, expires: Expiries \cup {Never}, certs: SUBSET Certifiers]
Certificates == [uids: Components(UserIds, Bindings), subkeys: Components(Subkeys, BOOLEAN),
                 revoked: BOOLEAN, secret: BOOLEAN]
Row == [data: Certificates, revoked: BOOLEAN, expires: Expiries \cup {Never}]

\* A component joins or changes.
With(f, x, info) == [y \in DOMAIN f \cup {x} |-> IF y = x THEN info ELSE f[y]]

-----------------------------------------------------------------------------
\* The text of an upload.  Armor that does not parse is refused as such; what is
\* no armor is tried as base64.
Forms == {"armor", "brokenArmor", "base64", "neither"}
Parses(form) == form \in {"armor", "base64"}

\* The User ID whose self-signature speaks for the primary key: sequoia prefers
\* one that is not revoked, then goes by flags and dates, which are left open.
PrimaryUserIds(c) ==
  LET good == {u \in DOMAIN c.uids : ~c.uids[u].revoked}
  IN IF good = {} THEN DOMAIN c.uids ELSE good

Unexpired(expires) == expires = Never \/ expires > now

\* Mutant of Matching: a revoked User ID does not count.
MatchingUnrevoked(c, a) ==
  {u \in DOMAIN c.uids : EmailOf[u] = a /\ ~c.uids[u].revoked}

\* userid_matches over the User IDs of the certificate, revoked ones included.
Matching(c, a) == {u \in DOMAIN c.uids : EmailOf[u] = a}

\* validate_for_address, with p speaking for the primary key; a certificate
\* without a User ID has no self-signature on its primary key.
Verdict(form, c, a, p) ==
  IF ~Parses(form) \/ DOMAIN c.uids = {} THEN "parse_failed"
  ELSE IF ~Unexpired(c.uids[p].expires) THEN "expired"
  ELSE IF Matching(c, a) = {} THEN "no_matching_uid"
  ELSE "created"

\* Mutant of Minimised: the other User IDs are kept.
MinimisedAllUserIds(c, u) ==
  [c EXCEPT !.uids = [v \in DOMAIN @ |-> [@[v] EXCEPT !.certs = {}]], !.secret = FALSE]

\* Mutant of Minimised: self-revocations are taken for foreign signatures.
MinimisedUnrevoked(c, u) ==
  [uids    |-> [v \in {u} |-> [c.uids[u] EXCEPT !.certs = {}, !.revoked = FALSE]],
   subkeys |-> [k \in DOMAIN c.subkeys |-> FALSE], revoked |-> FALSE, secret |-> FALSE]

\* minimize_for_address, u being the matching User ID found first.
Minimised(c, u) ==
  [uids    |-> [v \in {u} |-> [c.uids[u] EXCEPT !.certs = {}]],
   subkeys |-> c.subkeys, revoked |-> c.revoked, secret |-> FALSE]

\* is_revoked.
IsRevoked(c) == c.revoked \/ \E u \in DOMAIN c.uids : c.uids[u].revoked

\* Mutant of ExpirationTime: the expiry is not stored.
ExpirationForgotten(c, p) == Never

\* expiration_time: of the certificate as uploaded, not of the minimised one.
ExpirationTime(c, p) == c.uids[p].expires

-----------------------------------------------------------------------------
(* upload_key, delete_key and the lookup, for these addresses. *)

Upload(form, a) ==
  \E p \in PrimaryUserIds(key), u \in Matching(key, a) :
    /\ rows[a] = None
    /\ Verdict(form, key, a, p) = "created"
    /\ rows' = [rows EXCEPT ![a] = [data    |-> Minimised(key, u),
                                    revoked |-> IsRevoked(Minimised(key, u)),
                                    expires |-> ExpirationTime(key, p)]]
    /\ uploaded' = [uploaded EXCEPT ![a] = key]
    /\ UNCHANGED <<key, edits, now>>

Remove(a) ==
  /\ rows[a] # None
  /\ rows' = [rows EXCEPT ![a] = None]
  /\ uploaded' = [uploaded EXCEPT ![a] = None]
  /\ UNCHANGED <<key, edits, now>>

Serves(a) == rows[a] # None /\ ~rows[a].revoked /\ Unexpired(rows[a].expires)

-----------------------------------------------------------------------------
(* The owner's OpenPGP program, and other people's. *)

Edit(c) ==
  /\ edits < MaxEdits
  /\ edits' = edits + 1
  /\ key' = c
  /\ UNCHANGED <<now, rows, uploaded>>

AddUserId(u, expires) ==
  /\ u \notin DOMAIN key.uids
  /\ Edit([key EXCEPT !.uids = With(@, u, [revoked |-> FALSE, expires |-> expires,
                                           certs |-> {}])])

RevokeUserId(u) ==
  /\ u \in DOMAIN key.uids
  /\ Edit([key EXCEPT !.uids[u].revoked = TRUE])

RevokeKey == Edit([key EXCEPT !.revoked = TRUE])

\* New self-signatures with another expiry, on all User IDs or some.
Renew(S, expires) ==
  /\ S # {} /\ S \subseteq DOMAIN key.uids
  /\ Edit([key EXCEPT !.uids = [u \in DOMAIN @ |->
                                  IF u \in S THEN [@[u] EXCEPT !.expires = expires]
                                  ELSE @[u]]])

SetSubkey(k, revoked) ==
  /\ k \in DOMAIN key.subkeys <=> revoked
  /\ Edit([key EXCEPT !.subkeys = With(@, k, revoked)])

Certify(u, other) ==
  /\ u \in DOMAIN key.uids
  /\ Edit([key EXCEPT !.uids[u].certs = @ \cup {other}])

Tick == now < MaxNow /\ now' = now + 1 /\ UNCHANGED <<key, edits, rows, uploaded>>

-----------------------------------------------------------------------------
OpenPgpInit ==
  /\ \E secret \in BOOLEAN :
       key = [uids |-> [u \in {} |-> None], subkeys |-> [k \in {} |-> FALSE],
              revoked |-> FALSE, secret |-> secret]
  /\ edits = 0 /\ now = 0
  /\ rows = [a \in Addresses |-> None]
  /\ uploaded = [a \in Addresses |-> None]

OpenPgpNext ==
  \/ \E a \in Addresses : (\E form \in Forms : Upload(form, a)) \/ Remove(a)
  \/ \E u \in UserIds, e \in Expiries \cup {Never} : AddUserId(u, e)
  \/ \E u \in UserIds : RevokeUserId(u) \/ \E other \in Certifiers : Certify(u, other)
  \/ RevokeKey
  \/ \E S \in SUBSET UserIds, e \in Expiries \cup {Never} : Renew(S, e)
  \/ \E k \in Subkeys, revoked \in BOOLEAN : SetSubkey(k, revoked)
  \/ Tick

OpenPgpSpec == OpenPgpInit /\ [][OpenPgpNext]_openPgpVars

-----------------------------------------------------------------------------
\* The certificate, the rows and what they were made from stay well typed.
OpenPgpTypeOK ==
  /\ key \in Certificates /\ edits \in 0..MaxEdits /\ now \in 0..MaxNow
  /\ rows \in [Addresses -> Row \cup {None}]
  /\ uploaded \in [Addresses -> Certificates \cup {None}]

\* Whatever the certificate has become by the time of an upload, what is
\* published for an address carries one User ID, that address's, nobody else's
\* certification and no secret.
PublishesTargetOnly ==
  \A a \in Addresses : rows[a] # None =>
    LET c == rows[a].data
    IN /\ \E u \in UserIds : DOMAIN c.uids = {u} /\ EmailOf[u] = a /\ c.uids[u].certs = {}
       /\ ~c.secret

\* A lookup is never answered with a key that its owner had revoked when they
\* uploaded it, nor with a User ID or a subkey whose revocation minimisation lost.
ServedNotRevoked ==
  \A a \in Addresses : Serves(a) =>
    LET c == uploaded[a]
    IN /\ ~c.revoked
       /\ \A u \in DOMAIN rows[a].data.uids : ~c.uids[u].revoked
       /\ \A k \in DOMAIN c.subkeys : c.subkeys[k] => rows[a].data.subkeys[k]

Unrevoked(c) ==
  [c EXCEPT !.revoked = FALSE,
            !.uids = [u \in DOMAIN @ |-> [@[u] EXCEPT !.revoked = FALSE]]]

\* c is accepted for a, whichever User ID speaks for its primary key.
Accepted(c, a) ==
  DOMAIN c.uids # {} /\ \A p \in PrimaryUserIds(c) : Verdict("armor", c, a, p) = "created"

\* Revocations can be published wherever the key itself could be: a certificate that would
\* be accepted without them, whichever User ID speaks for its primary key, is accepted with
\* them, although they may leave that to another User ID, with another expiry, and revoke
\* the very User ID the upload is for.
RevocationAccepted ==
  \A a \in Addresses : Accepted(Unrevoked(key), a) => Accepted(key, a)

\* The comment on the test of a revoked User ID: "revocation must not block the very upload
\* that publishes it".  Accepted by its primary User ID before, the certificate would still
\* be when a User ID is revoked, also when another one has to speak for the primary key.
RevocationNeverBlocks ==
  \A a \in Addresses :
    (\E q \in PrimaryUserIds(Unrevoked(key)) :
       Verdict("armor", Unrevoked(key), a, q) = "created") =>
      \E p \in PrimaryUserIds(key) : Verdict("armor", key, a, p) = "created"

\* Every self-signature of c states the same expiry.
SameExpiry(c) == \A u, v \in DOMAIN c.uids : c.uids[u].expires = c.uids[v].expires

\* What a lookup is answered with would be accepted if it were uploaded, and
\* published unchanged, also later, when the clock has moved on: if the certificate it was
\* made from states one expiry.  What is stored of it is the primary User ID's, what is
\* served carries the address's own.
ServedRevalidates ==
  \A a \in Addresses : Serves(a) /\ SameExpiry(uploaded[a]) =>
    LET c == rows[a].data
    IN \A u \in DOMAIN c.uids :
         Verdict("armor", c, a, u) = "created" /\ Minimised(c, u) = c

\* A certificate that is served has not expired: its own self-signature, the only
\* one whoever looks it up gets to see, still holds, whatever expiries the uploaded
\* certificate stated.
ServedIsAlive ==
  \A a \in Addresses : Serves(a) =>
    \A u \in DOMAIN rows[a].data.uids : Unexpired(rows[a].data.uids[u].expires)
=============================================================================

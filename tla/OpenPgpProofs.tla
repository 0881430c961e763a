--------------------------- MODULE OpenPgpProofs ----------------------------
(* Theorems about OpenPgp: what is published and served of a certificate,   *)
(* for any User IDs, addresses, certifiers and any number of edits.         *)
EXTENDS OpenPgp, TLAPS

\* The owner's certificate is one.
KeyInv == key \in Certificates

\* What an upload of c for address a makes the table hold.
MadeFrom(row, c, a) ==
  \E p \in PrimaryUserIds(c), u \in Matching(c, a) :
    row = [data |-> Minimised(c, u), revoked |-> IsRevoked(Minimised(c, u)),
           expires |-> ExpirationTime(c, p)]

\* Every row was made from the certificate remembered with it.
RowInv ==
  /\ rows = [a \in Addresses |-> rows[a]] /\ uploaded = [a \in Addresses |-> uploaded[a]]
  /\ \A a \in Addresses :
       rows[a] = None \/ (uploaded[a] \in Certificates /\ MadeFrom(rows[a], uploaded[a], a))

\* The components of a certificate are functions on a part of the names.
LEMMA ComponentsMember ==
  ASSUME NEW S, NEW Info, NEW f
  PROVE  f \in Components(S, Info) <=> \E D \in SUBSET S : f \in [D -> Info]
  BY DEF Components

\* Adding or changing a component keeps the function well typed.
LEMMA WithComponent ==
  ASSUME NEW S, NEW Info, NEW f \in Components(S, Info), NEW x \in S, NEW info \in Info
  PROVE  With(f, x, info) \in Components(S, Info)
<1>1. PICK D \in SUBSET S : f \in [D -> Info]
  BY ComponentsMember
<1>2. With(f, x, info) \in [D \cup {x} -> Info]
  BY <1>1 DEF With
<1>. QED
  BY <1>2, ComponentsMember

\* A certificate stays well typed when its User IDs are replaced.
LEMMA OtherUserIds ==
  ASSUME NEW c \in Certificates, NEW f \in Components(UserIds, Bindings)
  PROVE  [c EXCEPT !.uids = f] \in Certificates
  BY DEF Certificates

\* The initial certificate is well typed.
LEMMA KeyInvInit == OpenPgpInit => KeyInv
<1>. SUFFICES ASSUME OpenPgpInit PROVE KeyInv
  OBVIOUS
<1>1. PICK secret \in BOOLEAN :
        key = [uids |-> [u \in {} |-> None], subkeys |-> [k \in {} |-> FALSE],
               revoked |-> FALSE, secret |-> secret]
  BY DEF OpenPgpInit
<1>2. [u \in {} |-> None] \in Components(UserIds, Bindings)
  <2>1. [u \in {} |-> None] \in [{} -> Bindings]
    OBVIOUS
  <2>. QED
    BY <2>1, ComponentsMember
<1>3. [k \in {} |-> FALSE] \in Components(Subkeys, BOOLEAN)
  <2>1. [k \in {} |-> FALSE] \in [{} -> BOOLEAN]
    OBVIOUS
  <2>. QED
    BY <2>1, ComponentsMember
<1>. QED
  BY <1>1, <1>2, <1>3 DEF KeyInv, Certificates

\* Every edit of the certificate keeps it well typed.
LEMMA KeyInvStep == KeyInv /\ [OpenPgpNext]_openPgpVars => KeyInv'
<1>. SUFFICES ASSUME KeyInv, [OpenPgpNext]_openPgpVars PROVE KeyInv'
  OBVIOUS
<1>. USE DEF KeyInv
<1>k. /\ key.uids \in Components(UserIds, Bindings)
      /\ key.subkeys \in Components(Subkeys, BOOLEAN)
      /\ key = [uids |-> key.uids, subkeys |-> key.subkeys,
                revoked |-> key.revoked, secret |-> key.secret]
  BY DEF Certificates
<1>d. PICK D \in SUBSET UserIds : key.uids \in [D -> Bindings]
  BY <1>k, ComponentsMember
<1>1. CASE key' = key
  BY <1>1
<1>2. ASSUME NEW u \in UserIds, NEW e \in Expiries \cup {Never}, AddUserId(u, e)
      PROVE  KeyInv'
  <2>. DEFINE b == [revoked |-> FALSE, expires |-> e, certs |-> {}]
              f == With(key.uids, u, b)
  <2>1. key' = [key EXCEPT !.uids = f]
    BY <1>2 DEF AddUserId, Edit
  <2>2. f \in Components(UserIds, Bindings)
    <3>1. b \in Bindings
      BY DEF Bindings
    <3>. QED
      BY <1>k, <3>1, WithComponent
  <2>. HIDE DEF f
  <2>. QED
    BY <2>1, <2>2, OtherUserIds
<1>3. ASSUME NEW u \in UserIds, RevokeUserId(u)
      PROVE  KeyInv'
  <2>. DEFINE f == [key.uids EXCEPT ![u].revoked = TRUE]
  <2>1. key' = [key EXCEPT !.uids = f]
    BY <1>3 DEF RevokeUserId, Edit
  <2>2. f \in [D -> Bindings]
    BY <1>3, <1>d DEF RevokeUserId, Bindings
  <2>3. f \in Components(UserIds, Bindings)
    BY <2>2, ComponentsMember
  <2>. HIDE DEF f
  <2>. QED
    BY <2>1, <2>3, OtherUserIds
<1>4. CASE RevokeKey
  BY <1>4 DEF RevokeKey, Edit, Certificates
<1>5. ASSUME NEW S \in SUBSET UserIds, NEW e \in Expiries \cup {Never}, Renew(S, e)
      PROVE  KeyInv'
  <2>. DEFINE f == [u \in DOMAIN key.uids |->
                      IF u \in S THEN [key.uids[u] EXCEPT !.expires = e] ELSE key.uids[u]]
  <2>1. key' = [key EXCEPT !.uids = f]
    BY <1>5 DEF Renew, Edit
  <2>2. f \in [D -> Bindings]
    BY <1>d DEF Bindings
  <2>3. f \in Components(UserIds, Bindings)
    BY <2>2, ComponentsMember
  <2>. HIDE DEF f
  <2>. QED
    BY <2>1, <2>3, OtherUserIds
<1>6. ASSUME NEW k \in Subkeys, NEW revoked \in BOOLEAN, SetSubkey(k, revoked)
      PROVE  KeyInv'
  <2>1. key' = [key EXCEPT !.subkeys = With(key.subkeys, k, revoked)]
    BY <1>6 DEF SetSubkey, Edit
  <2>2. With(key.subkeys, k, revoked) \in Components(Subkeys, BOOLEAN)
    BY <1>k, WithComponent
  <2>. QED
    BY <2>1, <2>2 DEF Certificates
<1>7. ASSUME NEW u \in UserIds, NEW other \in Certifiers, Certify(u, other)
      PROVE  KeyInv'
  <2>. DEFINE f == [key.uids EXCEPT ![u].certs = key.uids[u].certs \cup {other}]
  <2>1. key' = [key EXCEPT !.uids = f]
    BY <1>7 DEF Certify, Edit
  <2>2. f \in [D -> Bindings]
    BY <1>7, <1>d DEF Certify, Bindings
  <2>3. f \in Components(UserIds, Bindings)
    BY <2>2, ComponentsMember
  <2>. HIDE DEF f
  <2>. QED
    BY <2>1, <2>3, OtherUserIds
<1>. QED
  <2>1. ASSUME NEW a \in Addresses, (\E form \in Forms : Upload(form, a)) \/ Remove(a)
        PROVE  key' = key
    BY <2>1 DEF Upload, Remove
  <2>2. Tick \/ UNCHANGED openPgpVars => key' = key
    BY DEF Tick, openPgpVars
  <2>. QED
    BY <1>1, <1>2, <1>3, <1>4, <1>5, <1>6, <1>7, <2>1, <2>2 DEF OpenPgpNext

\* The owner's certificate stays well typed.
THEOREM KeyStaysCertificate == OpenPgpSpec => []KeyInv
  BY KeyInvInit, KeyInvStep, PTL DEF OpenPgpSpec

-----------------------------------------------------------------------------
\* Rows start empty, and come only from uploads of the certificate as it is then.
LEMMA RowInvInit == OpenPgpInit => RowInv
  BY DEF OpenPgpInit, RowInv

\* An upload makes its row of the certificate as it is then; no other step makes one.
LEMMA RowInvStep == KeyInv /\ RowInv /\ [OpenPgpNext]_openPgpVars => RowInv'
<1>. SUFFICES ASSUME KeyInv, RowInv, [OpenPgpNext]_openPgpVars PROVE RowInv'
  OBVIOUS
<1>1. CASE rows' = rows /\ uploaded' = uploaded
  BY <1>1 DEF RowInv
<1>2. ASSUME NEW form \in Forms, NEW a \in Addresses, Upload(form, a)
      PROVE  RowInv'
  <2>1. PICK p \in PrimaryUserIds(key), u \in Matching(key, a) :
          rows' = [rows EXCEPT ![a] = [data    |-> Minimised(key, u),
                                       revoked |-> IsRevoked(Minimised(key, u)),
                                       expires |-> ExpirationTime(key, p)]]
    BY <1>2 DEF Upload
  <2>2. uploaded' = [uploaded EXCEPT ![a] = key]
    BY <1>2 DEF Upload
  <2>3. MadeFrom(rows'[a], uploaded'[a], a) /\ uploaded'[a] = key
    BY <2>1, <2>2 DEF RowInv, MadeFrom
  <2>4. \A b \in Addresses \ {a} : rows'[b] = rows[b] /\ uploaded'[b] = uploaded[b]
    BY <2>1, <2>2 DEF RowInv
  <2>5. /\ rows' = [b \in Addresses |-> rows'[b]]
        /\ uploaded' = [b \in Addresses |-> uploaded'[b]]
    BY <2>1, <2>2 DEF RowInv
  <2>. QED
    BY <2>3, <2>4, <2>5 DEF RowInv, KeyInv
<1>3. ASSUME NEW a \in Addresses, Remove(a)
      PROVE  RowInv'
  BY <1>3 DEF Remove, RowInv
<1>4. ASSUME \/ Tick
             \/ \E u \in UserIds, e \in Expiries \cup {Never} : AddUserId(u, e)
             \/ \E u \in UserIds : RevokeUserId(u) \/ \E other \in Certifiers : Certify(u, other)
             \/ RevokeKey
             \/ \E S \in SUBSET UserIds, e \in Expiries \cup {Never} : Renew(S, e)
             \/ \E k \in Subkeys, revoked \in BOOLEAN : SetSubkey(k, revoked)
      PROVE  rows' = rows /\ uploaded' = uploaded
  BY <1>4 DEF Tick, AddUserId, RevokeUserId, Certify, RevokeKey, Renew, SetSubkey, Edit
<1>. QED
  BY <1>1, <1>2, <1>3, <1>4 DEF OpenPgpNext, openPgpVars

\* Every row the table ever holds was made from a certificate its owner had.
THEOREM RowsAreUploads == OpenPgpSpec => [](KeyInv /\ RowInv)
  BY KeyInvInit, KeyInvStep, RowInvInit, RowInvStep, PTL DEF OpenPgpSpec

\* What minimize_for_address keeps: one User ID with its own self-signature, the
\* subkeys, and every revocation.
LEMMA MinimisedKeeps ==
  ASSUME NEW c \in Certificates, NEW a, NEW u \in Matching(c, a)
  PROVE  LET m == Minimised(c, u)
         IN /\ u \in UserIds /\ EmailOf[u] = a /\ DOMAIN m.uids = {u}
            /\ m.uids[u].certs = {} /\ ~m.secret
            /\ m.uids[u].revoked = c.uids[u].revoked
            /\ m.uids[u].expires = c.uids[u].expires
            /\ m.subkeys = c.subkeys /\ m.revoked = c.revoked
<1>1. PICK D \in SUBSET UserIds : c.uids \in [D -> Bindings]
  BY ComponentsMember DEF Certificates
<1>2. u \in D /\ EmailOf[u] = a
  BY <1>1 DEF Matching
<1>. QED
  BY <1>1, <1>2 DEF Minimised, Bindings

\* Nobody's other addresses, certifiers or secrets are ever published.
THEOREM OnlyTargetPublished == OpenPgpSpec => []PublishesTargetOnly
<1>1. KeyInv /\ RowInv => PublishesTargetOnly
  <2>. SUFFICES ASSUME RowInv, NEW a \in Addresses, rows[a] # None
                PROVE  LET c == rows[a].data
                       IN /\ \E u \in UserIds :
                               DOMAIN c.uids = {u} /\ EmailOf[u] = a /\ c.uids[u].certs = {}
                          /\ ~c.secret
    BY DEF PublishesTargetOnly
  <2>1. PICK u \in Matching(uploaded[a], a) : rows[a].data = Minimised(uploaded[a], u)
    BY DEF RowInv, MadeFrom
  <2>2. uploaded[a] \in Certificates
    BY DEF RowInv
  <2>. QED
    BY <2>1, <2>2, MinimisedKeeps
<1>. QED
  BY <1>1, RowsAreUploads, PTL

\* A revocation in an upload keeps the key from being served.
THEOREM RevokedIsNotServed == OpenPgpSpec => []ServedNotRevoked
<1>1. KeyInv /\ RowInv => ServedNotRevoked
  <2>. SUFFICES ASSUME RowInv, NEW a \in Addresses, Serves(a)
                PROVE  LET c == uploaded[a]
                       IN /\ ~c.revoked
                          /\ \A u \in DOMAIN rows[a].data.uids : ~c.uids[u].revoked
                          /\ \A k \in DOMAIN c.subkeys :
                               c.subkeys[k] => rows[a].data.subkeys[k]
    BY DEF ServedNotRevoked
  <2>1. PICK u \in Matching(uploaded[a], a) :
          /\ rows[a].data = Minimised(uploaded[a], u)
          /\ rows[a].revoked = IsRevoked(Minimised(uploaded[a], u))
    BY DEF RowInv, MadeFrom, Serves
  <2>2. uploaded[a] \in Certificates
    BY DEF RowInv, Serves
  <2>3. ~IsRevoked(rows[a].data)
    BY <2>1 DEF Serves
  <2>. QED
    BY <2>1, <2>2, <2>3, MinimisedKeeps DEF IsRevoked
<1>. QED
  BY <1>1, RowsAreUploads, PTL

\* What is served has not expired, if the certificate it was made from states one expiry.
ServedIsAliveIfSame ==
  \A a \in Addresses : Serves(a) /\ SameExpiry(uploaded[a]) =>
    \A u \in DOMAIN rows[a].data.uids : Unexpired(rows[a].data.uids[u].expires)

\* A certificate whose self-signatures all state one expiry is not served past it, though
\* what is stored is the primary User ID's expiry and what is served carries another's.
THEOREM ServedStaysAlive == OpenPgpSpec => []ServedIsAliveIfSame
<1>1. RowInv => ServedIsAliveIfSame
  <2>. SUFFICES ASSUME RowInv, NEW a \in Addresses, Serves(a), SameExpiry(uploaded[a]),
                       NEW v \in DOMAIN rows[a].data.uids
                PROVE  Unexpired(rows[a].data.uids[v].expires)
    BY DEF ServedIsAliveIfSame
  <2>1. PICK p \in PrimaryUserIds(uploaded[a]), u \in Matching(uploaded[a], a) :
          /\ rows[a].data = Minimised(uploaded[a], u)
          /\ rows[a].expires = ExpirationTime(uploaded[a], p)
    BY DEF RowInv, MadeFrom, Serves
  <2>2. uploaded[a] \in Certificates
    BY DEF RowInv, Serves
  <2>3. v = u /\ rows[a].data.uids[v].expires = uploaded[a].uids[u].expires
    BY <2>1, <2>2, MinimisedKeeps
  <2>4. {p, u} \subseteq DOMAIN uploaded[a].uids
    BY DEF PrimaryUserIds, Matching
  <2>. QED
    BY <2>1, <2>3, <2>4 DEF Serves, ExpirationTime, SameExpiry
<1>. QED
  BY <1>1, RowsAreUploads, PTL

\* A minimised certificate is a fixed point of minimisation.
LEMMA MinimisedTwice ==
  ASSUME NEW c \in Certificates, NEW a, NEW u \in Matching(c, a)
  PROVE  Minimised(Minimised(c, u), u) = Minimised(c, u)
<1>. DEFINE m == Minimised(c, u)
<1>1. PICK D \in SUBSET UserIds : c.uids \in [D -> Bindings]
  BY ComponentsMember DEF Certificates
<1>2. u \in D
  BY <1>1 DEF Matching
<1>3. m.uids[u] \in Bindings /\ m.uids[u].certs = {}
  BY <1>1, <1>2 DEF Minimised, Bindings
<1>4. [m.uids[u] EXCEPT !.certs = {}] = m.uids[u]
  BY <1>3 DEF Bindings
<1>5. m.uids = [v \in {u} |-> m.uids[u]]
  BY DEF Minimised
<1>6. m = [uids |-> m.uids, subkeys |-> m.subkeys, revoked |-> m.revoked, secret |-> FALSE]
  BY DEF Minimised
<1>. HIDE DEF m
<1>7. Minimised(m, u) = [uids |-> [v \in {u} |-> [m.uids[u] EXCEPT !.certs = {}]],
                         subkeys |-> m.subkeys, revoked |-> m.revoked, secret |-> FALSE]
  BY DEF Minimised
<1>8. Minimised(m, u) = m
  BY <1>4, <1>5, <1>6, <1>7
<1>. QED
  BY <1>8 DEF m

\* What is served of a certificate that states one expiry would be accepted and published
\* unchanged if it were uploaded.
THEOREM ServedIsAcceptable == OpenPgpSpec => []ServedRevalidates
<1>1. RowInv /\ ServedIsAliveIfSame => ServedRevalidates
  <2>. SUFFICES ASSUME RowInv, ServedIsAliveIfSame, NEW a \in Addresses, Serves(a),
                       SameExpiry(uploaded[a]),
                       NEW v \in DOMAIN rows[a].data.uids
                PROVE  LET c == rows[a].data
                       IN Verdict("armor", c, a, v) = "created" /\ Minimised(c, v) = c
    BY DEF ServedRevalidates
  <2>1. PICK u \in Matching(uploaded[a], a) : rows[a].data = Minimised(uploaded[a], u)
    BY DEF RowInv, MadeFrom, Serves
  <2>2. uploaded[a] \in Certificates
    BY DEF RowInv, Serves
  <2>3. v = u /\ EmailOf[v] = a
    BY <2>1, <2>2, MinimisedKeeps
  <2>4. Unexpired(rows[a].data.uids[v].expires)
    BY DEF ServedIsAliveIfSame
  <2>5. v \in Matching(rows[a].data, a)
    BY <2>3 DEF Matching
  <2>6. Verdict("armor", rows[a].data, a, v) = "created"
    BY <2>4, <2>5 DEF Verdict, Parses
  <2>7. Minimised(rows[a].data, v) = rows[a].data
    BY <2>1, <2>2, <2>3, MinimisedTwice
  <2>. QED
    BY <2>6, <2>7
<1>. QED
  BY <1>1, RowsAreUploads, ServedStaysAlive, PTL

-----------------------------------------------------------------------------
\* The bounds, and what the history remembers.
CountInv ==
  /\ edits \in 0..MaxEdits /\ now \in 0..MaxNow
  /\ uploaded \in [Addresses -> Certificates \cup {None}]

\* Edits and the clock are counted up to their bounds; only certificates are uploaded.
LEMMA CountInvStep == KeyInv /\ CountInv /\ [OpenPgpNext]_openPgpVars => CountInv'
<1>. SUFFICES ASSUME KeyInv, CountInv, [OpenPgpNext]_openPgpVars PROVE CountInv'
  OBVIOUS
<1>. USE OpenPgpBounds DEF CountInv
<1>1. ASSUME NEW c, Edit(c) PROVE CountInv'
  BY <1>1 DEF Edit
<1>2. ASSUME NEW form \in Forms, NEW a \in Addresses, Upload(form, a) PROVE CountInv'
  BY <1>2 DEF Upload, KeyInv
<1>3. ASSUME NEW a \in Addresses, Remove(a) PROVE CountInv'
  BY <1>3 DEF Remove
<1>4. CASE Tick
  BY <1>4 DEF Tick
<1>5. CASE UNCHANGED openPgpVars
  BY <1>5 DEF openPgpVars
<1>6. ASSUME \/ \E u \in UserIds, e \in Expiries \cup {Never} : AddUserId(u, e)
             \/ \E u \in UserIds : RevokeUserId(u) \/ \E other \in Certifiers : Certify(u, other)
             \/ RevokeKey
             \/ \E S \in SUBSET UserIds, e \in Expiries \cup {Never} : Renew(S, e)
             \/ \E k \in Subkeys, revoked \in BOOLEAN : SetSubkey(k, revoked)
      PROVE  \E c : Edit(c)
  BY <1>6 DEF AddUserId, RevokeUserId, Certify, RevokeKey, Renew, SetSubkey
<1>. QED
  BY <1>1, <1>2, <1>3, <1>4, <1>5, <1>6 DEF OpenPgpNext

\* A row made from a certificate has the columns of the table.
LEMMA MadeRowType ==
  ASSUME NEW row, NEW c \in Certificates, NEW a, MadeFrom(row, c, a)
  PROVE  row \in Row
<1>1. PICK p \in PrimaryUserIds(c), u \in Matching(c, a) :
        row = [data |-> Minimised(c, u), revoked |-> IsRevoked(Minimised(c, u)),
               expires |-> ExpirationTime(c, p)]
  BY DEF MadeFrom
<1>2. PICK D \in SUBSET UserIds : c.uids \in [D -> Bindings]
  BY ComponentsMember DEF Certificates
<1>3. p \in D /\ u \in D
  BY <1>2 DEF PrimaryUserIds, Matching
<1>4. c.uids[p].expires \in Expiries \cup {Never}
  BY <1>2, <1>3 DEF Bindings
<1>5. Minimised(c, u) \in Certificates
  <2>. DEFINE f == [v \in {u} |-> [c.uids[u] EXCEPT !.certs = {}]]
  <2>1. [c.uids[u] EXCEPT !.certs = {}] \in Bindings
    BY <1>2, <1>3 DEF Bindings
  <2>2. f \in [{u} -> Bindings] /\ {u} \in SUBSET UserIds
    BY <1>3, <2>1
  <2>3. f \in Components(UserIds, Bindings)
    BY <2>2, ComponentsMember
  <2>. HIDE DEF f
  <2>. QED
    BY <2>3 DEF Minimised, Certificates, f
<1>6. IsRevoked(Minimised(c, u)) \in BOOLEAN
  BY DEF IsRevoked
<1>. QED
  BY <1>1, <1>4, <1>5, <1>6 DEF ExpirationTime, Row

\* The certificate, every row and the history keep their types, for any number of
\* edits.
THEOREM OpenPgpTyped == OpenPgpSpec => []OpenPgpTypeOK
<1>1. OpenPgpInit => CountInv
  BY OpenPgpBounds DEF OpenPgpInit, CountInv
<1>2. KeyInv /\ RowInv /\ CountInv => OpenPgpTypeOK
  <2>. SUFFICES ASSUME KeyInv, RowInv, CountInv PROVE OpenPgpTypeOK
    OBVIOUS
  <2>1. \A a \in Addresses : rows[a] \in Row \cup {None}
    BY MadeRowType DEF RowInv
  <2>2. rows \in [Addresses -> Row \cup {None}]
    BY <2>1 DEF RowInv
  <2>. QED
    BY <2>2 DEF KeyInv, CountInv, OpenPgpTypeOK
<1>. QED
  BY <1>1, <1>2, CountInvStep, RowsAreUploads, PTL DEF OpenPgpSpec

\* Revocations never keep an upload from being accepted that would be accepted without
\* them, whichever User ID speaks for its primary key before and after.
THEOREM RevocationsAccepted == OpenPgpSpec => []RevocationAccepted
<1>1. KeyInv => RevocationAccepted
  <2>. SUFFICES ASSUME KeyInv, NEW a \in Addresses, Accepted(Unrevoked(key), a)
                PROVE  Accepted(key, a)
    BY DEF RevocationAccepted
  <2>. DEFINE c == Unrevoked(key)
  <2>1. PICK D \in SUBSET UserIds : key.uids \in [D -> Bindings]
    BY ComponentsMember DEF KeyInv, Certificates
  <2>2. key = [uids |-> key.uids, subkeys |-> key.subkeys,
               revoked |-> key.revoked, secret |-> key.secret]
    BY DEF KeyInv, Certificates
  <2>3. c.uids = [u \in D |-> [key.uids[u] EXCEPT !.revoked = FALSE]]
    BY <2>1, <2>2 DEF Unrevoked
  <2>4. /\ DOMAIN c.uids = D /\ DOMAIN key.uids = D
        /\ \A u \in D : ~c.uids[u].revoked /\ c.uids[u].expires = key.uids[u].expires
    BY <2>1, <2>3 DEF Bindings
  <2>5. Accepted(c, a)
    OBVIOUS
  <2>. HIDE DEF c
  <2>6. PrimaryUserIds(c) = D /\ PrimaryUserIds(key) \subseteq D
    BY <2>4 DEF PrimaryUserIds
  <2>7. Matching(c, a) = Matching(key, a)
    BY <2>4 DEF Matching
  <2>8. ASSUME NEW p \in PrimaryUserIds(key)
        PROVE  Verdict("armor", key, a, p) = "created"
    <3>1. Verdict("armor", c, a, p) = "created"
      BY <2>5, <2>6 DEF Accepted
    <3>. QED
      BY <2>4, <2>6, <2>7, <3>1 DEF Verdict
  <2>. QED
    BY <2>4, <2>5, <2>8 DEF Accepted
<1>. QED
  BY <1>1, KeyStaysCertificate, PTL
=============================================================================

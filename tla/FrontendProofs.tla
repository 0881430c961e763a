--------------------------- MODULE FrontendProofs ---------------------------
(***************************************************************************)
(* What holds of the page for any number of addresses, keys, clicks and    *)
(* broken connections.                                                     *)
(***************************************************************************)
EXTENDS Frontend, FiniteSetTheorems, TLAPS

LEMMA Without ==
  ASSUME NEW S, IsFiniteSet(S), NEW r \in S, NEW q
  PROVE  /\ IsFiniteSet(S \ {r}) /\ Cardinality(S \ {r}) = Cardinality(S) - 1
         /\ IsFiniteSet((S \ {r}) \cup {q})
         /\ Cardinality((S \ {r}) \cup {q}) <= Cardinality(S)
         /\ Cardinality(S) \in Nat
<1>1. IsFiniteSet(S \ {r}) /\ Cardinality(S \ {r}) = Cardinality(S) - 1
  BY FS_RemoveElement
<1>2. Cardinality(S) \in Nat /\ Cardinality(S \ {r}) \in Nat
  BY <1>1, FS_CardinalityType
<1>3. /\ IsFiniteSet((S \ {r}) \cup {q})
      /\ \/ Cardinality((S \ {r}) \cup {q}) = Cardinality(S \ {r})
         \/ Cardinality((S \ {r}) \cup {q}) = Cardinality(S \ {r}) + 1
  BY <1>1, FS_AddElement
<1> QED BY <1>1, <1>2, <1>3

LEMMA With ==
  ASSUME NEW S, IsFiniteSet(S), NEW q
  PROVE  /\ IsFiniteSet(S \cup {q})
         /\ Cardinality(S \cup {q}) <= Cardinality(S) + 1
         /\ Cardinality(S) \in Nat /\ Cardinality(S \cup {q}) \in Nat
BY FS_AddElement, FS_CardinalityType

-----------------------------------------------------------------------------
(* Types.  Ids and requests are numbered within their bounds because every *)
(* click is stored once at most and followed by one refresh at most.       *)

Asking(S)  == {r \in S : r.kind \in {"me", "upload", "delete"}}
ToStore(S) == {r \in S : r.kind = "upload" /\ ~r.done}

Counted ==
  /\ IsFiniteSet(requests)
  /\ sent \in Nat /\ clicks \in 0..MaxClicks
  /\ sent + Cardinality(Asking(requests)) <= 2 * clicks + 2
  /\ IsFiniteSet(abandoned)
  /\ server.lastId + Cardinality(ToStore(requests)) + Cardinality(ToStore(abandoned))
       <= InitialIds + clicks

TypeInv ==
  /\ FrontendTypeOK
  /\ server \in [rows: SUBSET Rows, lastId: Nat]
  /\ \A r \in requests \cup abandoned : r.kind = "upload" => r.key \in Keys
  /\ \A r \in abandoned : ~r.done
  /\ Counted

LEMMA PartsFinite ==
  ASSUME NEW S, IsFiniteSet(S)
  PROVE  /\ IsFiniteSet(Asking(S)) /\ Cardinality(Asking(S)) \in Nat
         /\ IsFiniteSet(ToStore(S)) /\ Cardinality(ToStore(S)) \in Nat
BY FS_Subset, FS_CardinalityType DEF Asking, ToStore

\* A request that is replaced by what its handling leaves of it.
LEMMA Replaced ==
  ASSUME NEW S, IsFiniteSet(S), NEW r \in S, NEW q, q.kind = r.kind, q.done,
         NEW T, T = (S \ {r}) \cup {q}
  PROVE  /\ IsFiniteSet(T)
         /\ Cardinality(Asking(T)) <= Cardinality(Asking(S))
         /\ Cardinality(ToStore(T)) <= Cardinality(ToStore(S))
         /\ r.kind = "upload" /\ ~r.done =>
              Cardinality(ToStore(T)) <= Cardinality(ToStore(S)) - 1
<1>1. IsFiniteSet(T)
  BY Without
<1>2. Cardinality(Asking(T)) <= Cardinality(Asking(S))
  <2>1. CASE r \in Asking(S)
    <3>1. Asking(T) = (Asking(S) \ {r}) \cup {q}
      BY <2>1 DEF Asking
    <3> QED BY <2>1, <3>1, Without, PartsFinite
  <2>2. CASE r \notin Asking(S)
    <3>1. Asking(T) = Asking(S)
      BY <2>2 DEF Asking
    <3> QED BY <3>1, PartsFinite
  <2> QED BY <2>1, <2>2
<1>3. ToStore(T) = ToStore(S) \ {r}
  BY DEF ToStore
<1>4. CASE r \in ToStore(S)
  <2>1. Cardinality(ToStore(T)) = Cardinality(ToStore(S)) - 1
    BY <1>3, <1>4, Without, PartsFinite
  <2> QED BY <1>1, <1>2, <2>1, PartsFinite
<1>5. CASE r \notin ToStore(S)
  <2>1. ToStore(T) = ToStore(S) /\ ~(r.kind = "upload" /\ ~r.done)
    BY <1>3, <1>5 DEF ToStore
  <2> QED BY <1>1, <1>2, <2>1, PartsFinite
<1> QED BY <1>4, <1>5

\* A request that is over.
LEMMA Removed ==
  ASSUME NEW S, IsFiniteSet(S), NEW r \in S
  PROVE  /\ IsFiniteSet(S \ {r})
         /\ Cardinality(Asking(S \ {r})) <= Cardinality(Asking(S))
         /\ r.kind \in {"me", "upload", "delete"} =>
              Cardinality(Asking(S \ {r})) <= Cardinality(Asking(S)) - 1
         /\ Cardinality(ToStore(S \ {r})) <= Cardinality(ToStore(S))
         /\ r.kind = "upload" /\ ~r.done =>
              Cardinality(ToStore(S \ {r})) <= Cardinality(ToStore(S)) - 1
<1>1. Asking(S \ {r}) \subseteq Asking(S) /\ ToStore(S \ {r}) \subseteq ToStore(S)
  BY DEF Asking, ToStore
<1>2. /\ IsFiniteSet(S \ {r})
      /\ Cardinality(Asking(S \ {r})) <= Cardinality(Asking(S))
      /\ Cardinality(ToStore(S \ {r})) <= Cardinality(ToStore(S))
  BY <1>1, Without, PartsFinite, FS_Subset
<1>3. r.kind \in {"me", "upload", "delete"} =>
        Cardinality(Asking(S \ {r})) = Cardinality(Asking(S)) - 1
  <2> SUFFICES ASSUME r.kind \in {"me", "upload", "delete"}
               PROVE  Cardinality(Asking(S \ {r})) = Cardinality(Asking(S)) - 1
    OBVIOUS
  <2>1. r \in Asking(S) /\ Asking(S \ {r}) = Asking(S) \ {r}
    BY DEF Asking
  <2> QED BY <2>1, Without, PartsFinite
<1>4. r.kind = "upload" /\ ~r.done =>
        Cardinality(ToStore(S \ {r})) = Cardinality(ToStore(S)) - 1
  <2> SUFFICES ASSUME r.kind = "upload", ~r.done
               PROVE  Cardinality(ToStore(S \ {r})) = Cardinality(ToStore(S)) - 1
    OBVIOUS
  <2>1. r \in ToStore(S) /\ ToStore(S \ {r}) = ToStore(S) \ {r}
    BY DEF ToStore
  <2> QED BY <2>1, Without, PartsFinite
<1> QED BY <1>2, <1>3, <1>4, PartsFinite

\* A new request that is not stored yet.
LEMMA Added ==
  ASSUME NEW S, IsFiniteSet(S), NEW q
  PROVE  /\ IsFiniteSet(S \cup {q})
         /\ Cardinality(Asking(S \cup {q})) <= Cardinality(Asking(S)) + 1
         /\ Cardinality(ToStore(S \cup {q})) <= Cardinality(ToStore(S)) + 1
         /\ q.kind = "list" =>
              /\ Cardinality(Asking(S \cup {q})) = Cardinality(Asking(S))
              /\ Cardinality(ToStore(S \cup {q})) = Cardinality(ToStore(S))
         /\ q.kind # "upload" =>
              Cardinality(ToStore(S \cup {q})) = Cardinality(ToStore(S))
<1>1. IsFiniteSet(S \cup {q})
  BY With
<1>2. q.kind = "list" => /\ Asking(S \cup {q}) = Asking(S)
                         /\ ToStore(S \cup {q}) = ToStore(S)
  BY DEF Asking, ToStore
<1>3. Cardinality(Asking(S \cup {q})) <= Cardinality(Asking(S)) + 1
  <2>1. Asking(S \cup {q}) = Asking(S) \/ Asking(S \cup {q}) = Asking(S) \cup {q}
    BY DEF Asking
  <2>2. Cardinality(Asking(S) \cup {q}) <= Cardinality(Asking(S)) + 1
    BY With, PartsFinite
  <2>3. Cardinality(Asking(S)) <= Cardinality(Asking(S)) + 1
    BY PartsFinite
  <2> QED BY <2>1, <2>2, <2>3
<1>4. Cardinality(ToStore(S \cup {q})) <= Cardinality(ToStore(S)) + 1
  <2>1. ToStore(S \cup {q}) = ToStore(S) \/ ToStore(S \cup {q}) = ToStore(S) \cup {q}
    BY DEF ToStore
  <2>2. Cardinality(ToStore(S) \cup {q}) <= Cardinality(ToStore(S)) + 1
    BY With, PartsFinite
  <2>3. Cardinality(ToStore(S)) <= Cardinality(ToStore(S)) + 1
    BY PartsFinite
  <2> QED BY <2>1, <2>2, <2>3
<1>5. q.kind # "upload" => ToStore(S \cup {q}) = ToStore(S)
  BY DEF ToStore
<1> QED BY <1>1, <1>2, <1>3, <1>4, <1>5

LEMMA TypeInitially == FrontendInit => TypeInv
<1> SUFFICES ASSUME FrontendInit PROVE TypeInv
  OBVIOUS
<1> USE PageExpiries, PageBounds
<1>1. PICK R \in InitialRows : server = [rows |-> R, lastId |-> InitialIds]
  BY DEF FrontendInit
<1>2. R \subseteq Rows
  <2>1. R \subseteq [id: 1..InitialIds, key: Keys] /\ 1..InitialIds \subseteq Ids
    BY DEF InitialRows, Ids
  <2> QED BY <2>1 DEF Rows
<1>3. server \in [rows: SUBSET Rows, lastId: Nat] /\ server.lastId = InitialIds
  BY <1>1, <1>2
<1>4. server.lastId \in Ids \cup {0}
  BY <1>3 DEF Ids
<1>5. NewRequest(1, "me", None, None) \in Requests
  BY DEF NewRequest, Requests
<1>6. Asking(requests) = requests /\ ToStore(requests) = {} /\ Cardinality(requests) = 1
      /\ IsFiniteSet(requests) /\ \A r \in requests : r.kind # "upload"
  <2> DEFINE m == NewRequest(1, "me", None, None)
  <2>1. requests = {m}
    BY DEF FrontendInit
  <2>2. m.kind = "me"
    BY DEF NewRequest
  <2> HIDE DEF m
  <2> QED BY <2>1, <2>2, FS_Singleton DEF Asking, ToStore
<1>7. Cardinality(ToStore(requests)) = 0
  BY <1>6, FS_EmptySet
<1>8. Counted
  <2>1. sent = 1 /\ clicks = 0 /\ abandoned = {}
    BY DEF FrontendInit
  <2>2. IsFiniteSet(abandoned) /\ Cardinality(ToStore(abandoned)) = 0
    <3>1. ToStore(abandoned) = {}
      BY <2>1 DEF ToStore
    <3> QED BY <2>1, <3>1, FS_EmptySet
  <2> QED BY <1>3, <1>6, <1>7, <2>1, <2>2 DEF Counted
<1>9. page \in Pages
  BY DEF FrontendInit, Pages, Statuses
<1>10. FrontendTypeOK
  <2>1. now \in 0..MaxNow /\ faults \in 0..MaxFaults /\ doubt \in BOOLEAN
    <3>1. now = 0 /\ faults = 0 /\ doubt = FALSE
      BY DEF FrontendInit
    <3>2. now \in 0..MaxNow /\ faults \in 0..MaxFaults
      BY <3>1
    <3>3. doubt \in BOOLEAN
      BY <3>1
    <3> QED BY <3>2, <3>3
  <2>2. \A r \in requests \cup abandoned : r \in Requests
    BY <1>5 DEF FrontendInit
  <2>3. server.rows \subseteq Rows
    BY <1>3
  <2> QED BY <1>4, <1>9, <2>1, <2>2, <2>3 DEF FrontendTypeOK
<1>11. abandoned = {}
  BY DEF FrontendInit
<1> QED BY <1>3, <1>6, <1>8, <1>10, <1>11 DEF TypeInv

\* The statuses that can be computed.
LEMMA StatusType == \A K, a : StatusFor(K, a) \in Statuses
BY DEF StatusFor, Statuses

\* A step that ends request r, which the server may still have, keeps the types.
LEMMA TypeEnd ==
  ASSUME TypeInv, NEW r \in requests, NEW p \in Pages, NEW b,
         End(r, p, b), b \in BOOLEAN, faults' \in 0..MaxFaults,
         abandoned' = abandoned \/ (~r.done /\ abandoned' = abandoned \cup {r})
  PROVE  TypeInv'
<1> USE PageBounds
<1>0. IsFiniteSet(requests) /\ IsFiniteSet(abandoned) /\ requests' = requests \ {r}
  BY DEF TypeInv, Counted, End
<1>1. Counted'
  <2>1. /\ IsFiniteSet(requests')
        /\ Cardinality(Asking(requests')) <= Cardinality(Asking(requests))
        /\ Cardinality(ToStore(requests')) <= Cardinality(ToStore(requests))
    BY <1>0, Removed
  <2>2. /\ IsFiniteSet(abandoned')
        /\ Cardinality(ToStore(requests')) + Cardinality(ToStore(abandoned'))
             <= Cardinality(ToStore(requests)) + Cardinality(ToStore(abandoned))
    <3>1. CASE abandoned' = abandoned
      BY <1>0, <2>1, <3>1, PartsFinite
    <3>2. CASE ~r.done /\ abandoned' = abandoned \cup {r} /\ r.kind = "upload"
      <4>1. Cardinality(ToStore(requests')) <= Cardinality(ToStore(requests)) - 1
        BY <1>0, <3>2, Removed
      <4>2. /\ IsFiniteSet(abandoned')
            /\ Cardinality(ToStore(abandoned')) <= Cardinality(ToStore(abandoned)) + 1
        BY <1>0, <3>2, Added
      <4> QED BY <1>0, <2>1, <4>1, <4>2, PartsFinite
    <3>3. CASE abandoned' = abandoned \cup {r} /\ r.kind # "upload"
      <4>1. /\ IsFiniteSet(abandoned')
            /\ Cardinality(ToStore(abandoned')) = Cardinality(ToStore(abandoned))
        BY <1>0, <3>3, Added
      <4> QED BY <1>0, <2>1, <4>1, PartsFinite
    <3> QED BY <3>1, <3>2, <3>3
  <2>3. server' = server /\ sent' = sent /\ clicks' = clicks
    BY DEF End
  <2>4. /\ Cardinality(ToStore(requests)) \in Nat /\ Cardinality(ToStore(requests')) \in Nat
        /\ Cardinality(ToStore(abandoned)) \in Nat /\ Cardinality(ToStore(abandoned')) \in Nat
        /\ Cardinality(Asking(requests)) \in Nat /\ Cardinality(Asking(requests')) \in Nat
    BY <1>0, <2>1, <2>2, PartsFinite
  <2> QED BY <2>1, <2>2, <2>3, <2>4 DEF TypeInv, Counted
<1>2. \A q \in requests' \cup abandoned' : q \in requests \cup abandoned
  BY <1>0
<1>3. \A q \in abandoned' : ~q.done
  BY DEF TypeInv
<1> QED BY <1>1, <1>2, <1>3 DEF TypeInv, FrontendTypeOK, End

LEMMA TypeEndAndRefresh ==
  ASSUME TypeInv, NEW r \in requests, NEW p \in Pages, EndAndRefresh(r, p),
         r.kind # "list", faults' \in 0..MaxFaults, abandoned' = abandoned
  PROVE  TypeInv'
<1> USE PageBounds
<1> DEFINE q == NewRequest(sent', "list", None, None)
<1>1. r \in Requests /\ r.kind \in {"me", "upload", "delete"}
  BY DEF TypeInv, FrontendTypeOK, Requests
<1>2. Counted'
  <2>1. /\ IsFiniteSet(requests \ {r})
        /\ Cardinality(Asking(requests \ {r})) <= Cardinality(Asking(requests)) - 1
        /\ Cardinality(ToStore(requests \ {r})) <= Cardinality(ToStore(requests))
    BY <1>1, Removed DEF TypeInv, Counted
  <2>2. q.kind = "list"
    BY DEF NewRequest
  <2>3. /\ IsFiniteSet(requests') /\ requests' = (requests \ {r}) \cup {q}
        /\ Cardinality(Asking(requests')) = Cardinality(Asking(requests \ {r}))
        /\ Cardinality(ToStore(requests')) = Cardinality(ToStore(requests \ {r}))
    BY <2>1, <2>2, Added DEF EndAndRefresh
  <2> QED BY <2>1, <2>3, PartsFinite DEF TypeInv, Counted, EndAndRefresh
<1>3. q \in Requests
  <2>1. sent' \in 1..(2 * MaxClicks + 2)
    BY <1>2, PartsFinite DEF TypeInv, Counted, EndAndRefresh
  <2> QED BY <2>1 DEF NewRequest, Requests
<1>4. q.kind # "upload"
  BY DEF NewRequest
<1> QED BY <1>2, <1>3, <1>4 DEF TypeInv, FrontendTypeOK, EndAndRefresh

LEMMA TypeClick ==
  ASSUME TypeInv, NEW kind \in {"upload", "delete"}, NEW key \in Keys \cup {None},
         NEW id \in Ids \cup {None}, NEW p \in Pages, Click(kind, key, id, p),
         kind = "upload" => key \in Keys
  PROVE  TypeInv'
<1> USE PageBounds
<1> DEFINE q == NewRequest(sent', kind, key, id)
<1>1. Counted'
  <2>1. /\ IsFiniteSet(requests')
        /\ Cardinality(Asking(requests')) <= Cardinality(Asking(requests)) + 1
        /\ Cardinality(ToStore(requests')) <= Cardinality(ToStore(requests)) + 1
    <3>1. IsFiniteSet(requests) /\ requests' = requests \cup {q}
      BY DEF TypeInv, Counted, Click
    <3> QED BY <3>1, Added
  <2> QED BY <2>1, PartsFinite DEF TypeInv, Counted, Click
<1>2. q \in Requests
  <2>1. sent' \in 1..(2 * MaxClicks + 2)
    BY <1>1, PartsFinite DEF TypeInv, Counted, Click
  <2> QED BY <2>1 DEF NewRequest, Requests
<1>3. q.kind = kind /\ q.key = key
  BY DEF NewRequest
<1> QED BY <1>1, <1>2, <1>3 DEF TypeInv, FrontendTypeOK, Click

\* What a request leaves of the rows: an upload that is stored takes the next id.
LEMMA AfterType ==
  ASSUME TypeInv, NEW r \in requests \cup abandoned,
         r.kind = "upload" => server.lastId + 1 \in Ids
  PROVE  /\ \/ After(r).lastId = server.lastId
            \/ r.kind = "upload" /\ After(r).lastId = server.lastId + 1
         /\ After(r) \in [rows: SUBSET Rows, lastId: Nat]
<1>1. CASE r.kind = "upload" /\ \A k \in server.rows : k.key.address # r.key.address
  <2>1. After(r) = [lastId |-> server.lastId + 1,
                    rows |-> server.rows \cup {[id |-> server.lastId + 1, key |-> r.key]}]
    BY <1>1 DEF After
  <2>2. [id |-> server.lastId + 1, key |-> r.key] \in Rows
    BY <1>1 DEF TypeInv, Rows
  <2> QED BY <1>1, <2>1, <2>2 DEF TypeInv
<1>2. CASE r.kind = "delete"
  BY <1>2 DEF After, TypeInv
<1>3. CASE After(r) = server
  BY <1>3 DEF TypeInv
<1> QED BY <1>1, <1>2, <1>3 DEF After

\* A row is given an id that the uploads still to be stored leave room for.
LEMMA TypeHandle ==
  ASSUME TypeInv, NEW r \in requests, Handle(r)
  PROVE  TypeInv'
<1> USE PageBounds
<1> DEFINE q == [r EXCEPT !.done = TRUE,
                          !.ok = r.kind \in {"me", "list"} \/ server' # server,
                          !.rows = IF r.kind = "list" THEN server.rows ELSE {}]
           stored == r.kind = "upload" /\ server'.lastId = server.lastId + 1
<1>1. r \in Requests /\ server.rows \subseteq Rows
  BY DEF TypeInv, FrontendTypeOK
<1>2. q \in Requests /\ q.kind = r.kind /\ q.done /\ q.key = r.key
  BY <1>1 DEF Requests
<1>3. requests' = (requests \ {r}) \cup {q}
  BY DEF Handle
<1>4. /\ IsFiniteSet(requests')
      /\ Cardinality(Asking(requests')) <= Cardinality(Asking(requests))
      /\ Cardinality(ToStore(requests')) <= Cardinality(ToStore(requests))
      /\ r.kind = "upload" =>
           Cardinality(ToStore(requests')) <= Cardinality(ToStore(requests)) - 1
  <2>1. IsFiniteSet(requests) /\ ~r.done
    BY DEF TypeInv, Counted, Handle
  <2> HIDE DEF q
  <2> QED BY <1>2, <1>3, <2>1, Replaced
<1>5. /\ server'.lastId = server.lastId \/ stored
      /\ server' \in [rows: SUBSET Rows, lastId: Nat]
  <2>1. r.kind = "upload" => server.lastId + 1 \in Ids
    BY <1>4, PartsFinite DEF TypeInv, Counted, Ids
  <2> QED BY <2>1, AfterType DEF Handle
<1>6. Counted'
  BY <1>4, <1>5, PartsFinite DEF TypeInv, Counted, Handle
<1>7. server'.lastId \in Ids \cup {0}
  BY <1>5, <1>6, PartsFinite DEF Counted, Ids
<1>8. server'.rows \subseteq Rows
  BY <1>5
<1> QED BY <1>2, <1>3, <1>5, <1>6, <1>7, <1>8 DEF TypeInv, FrontendTypeOK, Handle

\* So is a row of an upload whose connection had broken.
LEMMA TypeHandleAbandoned ==
  ASSUME TypeInv, NEW r \in abandoned, HandleAbandoned(r)
  PROVE  TypeInv'
<1> USE PageBounds
<1>1. /\ IsFiniteSet(requests) /\ IsFiniteSet(abandoned) /\ ~r.done
      /\ abandoned' = abandoned \ {r} /\ requests' = requests
  BY DEF TypeInv, Counted, HandleAbandoned
<1>2. /\ IsFiniteSet(abandoned')
      /\ Cardinality(ToStore(abandoned')) <= Cardinality(ToStore(abandoned))
      /\ r.kind = "upload" =>
           Cardinality(ToStore(abandoned')) <= Cardinality(ToStore(abandoned)) - 1
  BY <1>1, Removed
<1>3. /\ Cardinality(ToStore(requests)) \in Nat /\ Cardinality(Asking(requests)) \in Nat
      /\ Cardinality(ToStore(abandoned)) \in Nat /\ Cardinality(ToStore(abandoned')) \in Nat
  BY <1>1, <1>2, PartsFinite
<1>4. /\ server'.lastId = server.lastId \/ (r.kind = "upload" /\ server'.lastId = server.lastId + 1)
      /\ server' \in [rows: SUBSET Rows, lastId: Nat]
  <2>1. r.kind = "upload" => server.lastId + 1 \in Ids
    BY <1>2, <1>3 DEF TypeInv, Counted, Ids
  <2> QED BY <2>1, AfterType DEF HandleAbandoned
<1>5. Counted'
  BY <1>1, <1>2, <1>3, <1>4 DEF TypeInv, Counted, HandleAbandoned
<1>6. server'.lastId \in Ids \cup {0}
  BY <1>1, <1>3, <1>4, <1>5 DEF Counted, Ids
<1>7. doubt' \in BOOLEAN /\ UNCHANGED <<now, page, faults>>
  BY DEF HandleAbandoned, TypeInv, FrontendTypeOK
<1> QED BY <1>1, <1>4, <1>5, <1>6, <1>7 DEF TypeInv, FrontendTypeOK

LEMMA PageTypes ==
  ASSUME page \in Pages
  PROVE  /\ [page EXCEPT !.submitting = TRUE] \in Pages
         /\ [page EXCEPT !.submitting = FALSE] \in Pages
         /\ \A i \in Ids \cup {None} : [page EXCEPT !.pendingId = i] \in Pages
         /\ \A K \in SUBSET Rows :
              [page EXCEPT !.phase = "ready", !.keys = K,
                           !.badges = [a \in Addresses |-> StatusFor(K, a)]] \in Pages
         /\ \A r : AfterFailure(r) \in Pages
BY StatusType DEF Pages, AfterFailure

LEMMA TypePreserved == TypeInv /\ [FrontendNext]_frontendVars => TypeInv'
<1> SUFFICES ASSUME TypeInv, [FrontendNext]_frontendVars PROVE TypeInv'
  OBVIOUS
<1> USE PageBounds
<1>1. page \in Pages /\ faults \in 0..MaxFaults
  BY DEF TypeInv, FrontendTypeOK
<1>2. ASSUME NEW r \in requests, Handle(r) PROVE TypeInv'
  BY <1>2, TypeHandle
<1>3. ASSUME NEW r \in requests, Refuse(r) PROVE TypeInv'
  <2> DEFINE q == [r EXCEPT !.done = TRUE]
  <2>1. r \in Requests
    BY DEF TypeInv, FrontendTypeOK
  <2>2. q \in Requests /\ q.kind = r.kind /\ q.done /\ q.key = r.key
    BY <2>1 DEF Requests
  <2>3. requests' = (requests \ {r}) \cup {q} /\ IsFiniteSet(requests)
    BY <1>3 DEF Refuse, TypeInv, Counted
  <2> HIDE DEF q
  <2>4. /\ IsFiniteSet(requests')
        /\ Cardinality(Asking(requests')) <= Cardinality(Asking(requests))
        /\ Cardinality(ToStore(requests')) <= Cardinality(ToStore(requests))
    BY <2>2, <2>3, Replaced
  <2>5. Counted'
    BY <1>3, <2>4, PartsFinite DEF TypeInv, Counted, Refuse
  <2> QED BY <1>3, <2>2, <2>3, <2>5 DEF TypeInv, FrontendTypeOK, Refuse
<1>4. ASSUME NEW r \in requests, Answer(r) PROVE TypeInv'
  <2>1. faults' \in 0..MaxFaults /\ r.rows \in SUBSET Rows /\ abandoned' = abandoned
    BY <1>1, <1>4 DEF Answer, TypeInv, FrontendTypeOK, Requests
  <2>2. CASE MeAnswered(r)
    BY <1>1, <2>1, <2>2, TypeEndAndRefresh DEF MeAnswered
  <2>3. CASE ListAnswered(r)
    BY <1>1, <2>1, <2>3, TypeEnd, PageTypes DEF ListAnswered
  <2>4. CASE UploadAnswered(r)
    BY <1>1, <2>1, <2>4, TypeEnd, TypeEndAndRefresh, PageTypes DEF UploadAnswered
  <2>5. CASE DeleteAnswered(r)
    BY <1>1, <2>1, <2>5, TypeEnd, TypeEndAndRefresh, PageTypes DEF DeleteAnswered
  <2> QED BY <1>4, <2>2, <2>3, <2>4, <2>5 DEF Answer
<1>5. ASSUME NEW r \in requests, Break(r) PROVE TypeInv'
  <2>1. faults' \in 0..MaxFaults
    BY <1>1, <1>5 DEF Break
  <2>2. (r.ok \/ r.kind = "list") \in BOOLEAN
    OBVIOUS
  <2> QED BY <1>1, <1>5, <2>1, <2>2, TypeEnd, PageTypes DEF Break
<1>6. ASSUME NEW key \in Keys, Submit(key) PROVE TypeInv'
  BY <1>1, <1>6, TypeClick, PageTypes DEF Submit
<1>7. ASSUME NEW k \in page.keys, Delete(k) PROVE TypeInv'
  <2>1. k.id \in Ids
    BY <1>1 DEF Pages, Rows
  <2> QED BY <1>1, <1>7, <2>1, TypeClick, PageTypes DEF Delete
<1>8. ASSUME NEW k \in server.rows, OthersTake(k) PROVE TypeInv'
  <2>1. /\ server' \in [rows: SUBSET Rows, lastId: Nat] /\ server'.rows \subseteq Rows
        /\ server'.lastId = server.lastId /\ faults' \in 0..MaxFaults /\ doubt' = TRUE
        /\ UNCHANGED <<now, page, requests, abandoned, sent, clicks>>
    BY <1>8 DEF OthersTake, TypeInv, FrontendTypeOK
  <2> QED BY <2>1 DEF TypeInv, FrontendTypeOK, Counted
<1>9. CASE Tick
  <2>1. now' \in 0..MaxNow /\ UNCHANGED <<server, page, requests, abandoned, sent, clicks, faults, doubt>>
    BY <1>9 DEF Tick, TypeInv, FrontendTypeOK
  <2> QED BY <2>1 DEF TypeInv, FrontendTypeOK, Counted
<1>10. CASE UNCHANGED frontendVars
  BY <1>10 DEF frontendVars, TypeInv, FrontendTypeOK, Counted
<1>11. ASSUME NEW r \in abandoned, HandleAbandoned(r) PROVE TypeInv'
  BY <1>11, TypeHandleAbandoned
<1> QED BY <1>2, <1>3, <1>4, <1>5, <1>6, <1>7, <1>8, <1>9, <1>10, <1>11 DEF FrontendNext

LEMMA TypeInvariant == FrontendSpec => []TypeInv
BY TypeInitially, TypePreserved, PTL DEF FrontendSpec

\* Page, requests and rows stay well typed: however often the user clicks, there is
\* an id for every upload that may be stored and a number for every refresh.
THEOREM FrontendTyped == FrontendSpec => []FrontendTypeOK
<1>1. TypeInv => FrontendTypeOK
  BY DEF TypeInv
<1> QED BY <1>1, TypeInvariant, PTL

-----------------------------------------------------------------------------
(* The form and the pending row. *)

Uploading(S) == {r \in S : r.kind = "upload"}

FormInv ==
  /\ ~page.submitting => Uploading(requests) = {}
  /\ page.submitting => \E r : Uploading(requests) = {r}

\* Refreshes and other answers leave the form alone, and the answer of an upload is
\* that of the only one.
LEMMA FormPreserved == TypeInv /\ FormInv /\ [FrontendNext]_frontendVars => FormInv'
<1> SUFFICES ASSUME TypeInv, FormInv, [FrontendNext]_frontendVars PROVE FormInv'
  OBVIOUS
<1>1. page \in Pages /\ \A r \in requests : r \in Requests
  BY DEF TypeInv, FrontendTypeOK
<1>2. ASSUME NEW r \in requests, NEW q, q.kind = r.kind,
             requests' = (requests \ {r}) \cup {q}, page' = page
      PROVE  FormInv'
  <2>1. CASE r.kind = "upload"
    <3>1. Uploading(requests') = {q} /\ page.submitting
      BY <1>2, <2>1 DEF Uploading, FormInv
    <3> QED BY <1>2, <3>1 DEF FormInv
  <2>2. CASE r.kind # "upload"
    BY <1>2, <2>2 DEF Uploading, FormInv
  <2> QED BY <2>1, <2>2
<1>3. ASSUME NEW r \in requests, Handle(r) \/ Refuse(r) PROVE FormInv'
  <2>1. CASE Handle(r)
    <3>1. PICK q : q.kind = r.kind /\ requests' = (requests \ {r}) \cup {q}
      BY <1>1, <2>1 DEF Handle, Requests
    <3> QED BY <1>2, <2>1, <3>1 DEF Handle
  <2>2. CASE Refuse(r)
    <3>1. PICK q : q.kind = r.kind /\ requests' = (requests \ {r}) \cup {q}
      BY <1>1, <2>2 DEF Refuse, Requests
    <3> QED BY <1>2, <2>2, <3>1 DEF Refuse
  <2> QED BY <1>3, <2>1, <2>2
<1>4. ASSUME NEW r \in requests, r.kind = "upload",
             Uploading(requests') = Uploading(requests \ {r}), ~page'.submitting
      PROVE  FormInv'
  BY <1>4 DEF Uploading, FormInv
<1>5. ASSUME Uploading(requests') = Uploading(requests),
             page'.submitting = page.submitting
      PROVE  FormInv'
  BY <1>5 DEF FormInv
<1>6. ASSUME NEW r \in requests, NEW p, End(r, p, FALSE) \/ EndAndRefresh(r, p)
      PROVE  Uploading(requests') = Uploading(requests \ {r}) /\ page' = p
  <2>1. NewRequest(sent', "list", None, None).kind = "list"
    BY DEF NewRequest
  <2> QED BY <1>6, <2>1 DEF End, EndAndRefresh, Uploading
<1>7. ASSUME NEW r \in requests, r.kind # "upload"
      PROVE  Uploading(requests \ {r}) = Uploading(requests)
  BY <1>7 DEF Uploading
<1>8. ASSUME NEW r \in requests, Answer(r) PROVE FormInv'
  <2>1. CASE MeAnswered(r)
    <3>1. r.kind # "upload" /\ EndAndRefresh(r, page)
      BY <2>1 DEF MeAnswered
    <3>2. Uploading(requests') = Uploading(requests \ {r}) /\ page' = page
      BY <1>6, <3>1
    <3>3. Uploading(requests \ {r}) = Uploading(requests)
      BY <1>7, <3>1
    <3> QED BY <1>5, <3>3, <3>2
  <2>2. CASE ListAnswered(r)
    <3> DEFINE p == [page EXCEPT !.phase = "ready", !.keys = r.rows,
                       !.badges = [a \in Addresses |-> StatusFor(r.rows, a)]]
    <3>1. r.kind # "upload" /\ End(r, p, FALSE) /\ p.submitting = page.submitting
      BY <1>1, <2>2 DEF ListAnswered, Pages
    <3> HIDE DEF p
    <3>2. Uploading(requests') = Uploading(requests \ {r}) /\ page' = p
      BY <1>6, <3>1
    <3>3. Uploading(requests \ {r}) = Uploading(requests)
      BY <1>7, <3>1
    <3> QED BY <1>5, <3>3, <3>1, <3>2
  <2>3. CASE UploadAnswered(r)
    <3> DEFINE p == [page EXCEPT !.submitting = FALSE]
    <3>1. r.kind = "upload" /\ (End(r, p, FALSE) \/ EndAndRefresh(r, p)) /\ ~p.submitting
      BY <1>1, <2>3 DEF UploadAnswered, Pages
    <3> HIDE DEF p
    <3>2. Uploading(requests') = Uploading(requests \ {r}) /\ page' = p
      BY <1>6, <3>1
    <3> QED BY <1>4, <3>1, <3>2
  <2>4. CASE DeleteAnswered(r)
    <3> DEFINE p == [page EXCEPT !.pendingId = None]
    <3>1. /\ r.kind # "upload" /\ (End(r, p, FALSE) \/ EndAndRefresh(r, p))
          /\ p.submitting = page.submitting
      BY <1>1, <2>4 DEF DeleteAnswered, Pages
    <3> HIDE DEF p
    <3>2. Uploading(requests') = Uploading(requests \ {r}) /\ page' = p
      BY <1>6, <3>1
    <3>3. Uploading(requests \ {r}) = Uploading(requests)
      BY <1>7, <3>1
    <3> QED BY <1>5, <3>3, <3>1, <3>2
  <2> QED BY <1>8, <2>1, <2>2, <2>3, <2>4 DEF Answer
<1>9. ASSUME NEW r \in requests, Break(r) PROVE FormInv'
  <2>1. requests' = requests \ {r} /\ page' = AfterFailure(r)
    BY <1>9 DEF Break, End
  <2>2. CASE r.kind = "upload"
    <3>1. page' = [page EXCEPT !.submitting = FALSE]
      BY <2>1, <2>2 DEF AfterFailure
    <3>2. ~page'.submitting
      BY <1>1, <3>1 DEF Pages
    <3> QED BY <1>4, <2>1, <2>2, <3>2
  <2>3. CASE r.kind # "upload"
    <3>1. page'.submitting = page.submitting
      BY <1>1, <2>1, <2>3 DEF AfterFailure, Pages
    <3> QED BY <1>5, <1>7, <2>1, <2>3, <3>1
  <2> QED BY <2>2, <2>3
<1>10. ASSUME NEW key \in Keys, Submit(key) PROVE FormInv'
  <2> DEFINE q == NewRequest(sent', "upload", key, None)
  <2>1. q.kind = "upload"
    BY DEF NewRequest
  <2>2. requests' = requests \cup {q} /\ page'.submitting /\ Uploading(requests) = {}
    BY <1>1, <1>10 DEF Submit, Click, FormInv, Pages
  <2>3. Uploading(requests') = {q}
    BY <2>1, <2>2 DEF Uploading
  <2> QED BY <2>2, <2>3 DEF FormInv
<1>11. ASSUME NEW k \in page.keys, Delete(k) PROVE FormInv'
  <2>1. NewRequest(sent', "delete", None, k.id).kind = "delete"
    BY DEF NewRequest
  <2>2. Uploading(requests') = Uploading(requests) /\ page'.submitting = page.submitting
    BY <1>1, <1>11, <2>1 DEF Delete, Click, Uploading, Pages
  <2> QED BY <1>5, <2>2
<1>12. ASSUME \/ \E r \in abandoned : HandleAbandoned(r)
              \/ \E k \in server.rows : OthersTake(k)
              \/ Tick \/ UNCHANGED frontendVars
       PROVE  FormInv'
  <2>1. requests' = requests /\ page' = page
    BY <1>12 DEF HandleAbandoned, OthersTake, Tick, frontendVars
  <2> QED BY <2>1 DEF FormInv
<1> QED BY <1>3, <1>8, <1>9, <1>10, <1>11, <1>12 DEF FrontendNext

\* However uploads, refreshes, deletes and failures overlap, the form waits for one upload
\* exactly while its button is disabled, and never for more.
THEOREM OneUpload == FrontendSpec => []OneUploadAtATime
<1>1. FrontendInit => FormInv
  <2>1. NewRequest(1, "me", None, None).kind = "me"
    BY DEF NewRequest
  <2> SUFFICES ASSUME FrontendInit PROVE FormInv
    OBVIOUS
  <2>2. Uploading(requests) = {}
    BY <2>1 DEF FrontendInit, Uploading
  <2>3. page.submitting = FALSE
    BY DEF FrontendInit
  <2> QED BY <2>2, <2>3 DEF FormInv
<1>2. FormInv /\ TypeInv => OneUploadAtATime
  <2> SUFFICES ASSUME FormInv, TypeInv PROVE OneUploadAtATime
    OBVIOUS
  <2>1. InFlight("upload") = Uploading(requests)
    BY DEF InFlight, Uploading
  <2>2. page.submitting \in BOOLEAN
    BY DEF TypeInv, FrontendTypeOK, Pages
  <2> QED BY <2>1, <2>2, FS_EmptySet, FS_Singleton DEF FormInv, OneUploadAtATime
<1> QED BY <1>1, <1>2, FormPreserved, TypeInvariant, PTL DEF FrontendSpec

\* Deletes that share the one pendingId, and the row it names.
LEMMA PendingPreserved ==
  TypeInv /\ PendingIsInFlight /\ [FrontendNext]_frontendVars => PendingIsInFlight'
<1> SUFFICES ASSUME TypeInv, PendingIsInFlight, [FrontendNext]_frontendVars,
                    page'.pendingId # None
             PROVE  \E r \in requests' : r.kind = "delete" /\ r.id = page'.pendingId
  BY DEF PendingIsInFlight, InFlight
<1>1. page \in Pages /\ \A r \in requests : r \in Requests
  BY DEF TypeInv, FrontendTypeOK
<1>2. ASSUME page'.pendingId = page.pendingId
      PROVE  \E d \in requests : d.kind = "delete" /\ d.id = page'.pendingId
  BY <1>2 DEF PendingIsInFlight, InFlight
<1>3. ASSUME NEW r \in requests, Handle(r) \/ Refuse(r)
      PROVE  \E d \in requests' : d.kind = "delete" /\ d.id = page'.pendingId
  <2>1. PICK q : /\ q.kind = r.kind /\ q.id = r.id
                 /\ requests' = (requests \ {r}) \cup {q} /\ page' = page
    BY <1>1, <1>3 DEF Handle, Refuse, Requests
  <2>2. PICK d \in requests : d.kind = "delete" /\ d.id = page'.pendingId
    BY <1>2, <2>1
  <2> QED BY <2>1, <2>2
<1>4. ASSUME NEW r \in requests, r.kind # "delete", requests \ {r} \subseteq requests',
             page'.pendingId = page.pendingId
      PROVE  \E d \in requests' : d.kind = "delete" /\ d.id = page'.pendingId
  BY <1>2, <1>4
<1>5. ASSUME NEW r \in requests, Answer(r)
      PROVE  \E d \in requests' : d.kind = "delete" /\ d.id = page'.pendingId
  <2>1. requests \ {r} \subseteq requests'
    BY <1>5 DEF Answer, MeAnswered, ListAnswered, UploadAnswered, DeleteAnswered,
                End, EndAndRefresh
  <2>2. r.kind # "delete"
    <3>1. DeleteAnswered(r) => page' = [page EXCEPT !.pendingId = None]
      BY DEF DeleteAnswered, End, EndAndRefresh
    <3>2. ~DeleteAnswered(r)
      BY <1>1, <3>1 DEF Pages
    <3> QED BY <1>5, <3>2 DEF Answer, MeAnswered, ListAnswered, UploadAnswered
  <2>3. page'.pendingId = page.pendingId
    <3>1. CASE MeAnswered(r)
      BY <3>1 DEF MeAnswered, EndAndRefresh
    <3>2. CASE ListAnswered(r)
      BY <1>1, <3>2 DEF ListAnswered, End, Pages
    <3>3. CASE UploadAnswered(r)
      <4>1. page' = [page EXCEPT !.submitting = FALSE]
        BY <3>3 DEF UploadAnswered, End, EndAndRefresh
      <4> QED BY <1>1, <4>1 DEF Pages
    <3> QED BY <1>5, <2>2, <3>1, <3>2, <3>3 DEF Answer, DeleteAnswered
  <2> QED BY <1>4, <2>1, <2>2, <2>3
<1>6. ASSUME NEW r \in requests, Break(r)
      PROVE  \E d \in requests' : d.kind = "delete" /\ d.id = page'.pendingId
  <2>1. requests' = requests \ {r} /\ page' = AfterFailure(r)
    BY <1>6 DEF Break, End
  <2>2. r.kind = "delete" => page' = [page EXCEPT !.pendingId = None]
    BY <2>1 DEF AfterFailure
  <2>3. r.kind # "delete"
    BY <1>1, <2>2 DEF Pages
  <2>4. page'.pendingId = page.pendingId
    BY <1>1, <2>1, <2>3 DEF AfterFailure, Pages
  <2> QED BY <1>4, <2>1, <2>3, <2>4
<1>7. ASSUME NEW key \in Keys, Submit(key)
      PROVE  \E d \in requests' : d.kind = "delete" /\ d.id = page'.pendingId
  <2>1. requests \subseteq requests' /\ page' = [page EXCEPT !.submitting = TRUE]
    BY <1>7 DEF Submit, Click
  <2>2. page'.pendingId = page.pendingId
    BY <1>1, <2>1 DEF Pages
  <2> QED BY <1>2, <2>1, <2>2
<1>8. ASSUME NEW k \in page.keys, Delete(k)
      PROVE  \E d \in requests' : d.kind = "delete" /\ d.id = page'.pendingId
  <2> DEFINE d == NewRequest(sent', "delete", None, k.id)
  <2>1. d.kind = "delete" /\ d.id = k.id
    BY DEF NewRequest
  <2>2. d \in requests' /\ page' = [page EXCEPT !.pendingId = k.id]
    BY <1>8 DEF Delete, Click
  <2>3. page'.pendingId = k.id
    BY <1>1, <2>2 DEF Pages
  <2> QED BY <2>1, <2>2, <2>3
<1>9. ASSUME \/ \E r \in abandoned : HandleAbandoned(r)
             \/ \E k \in server.rows : OthersTake(k)
             \/ Tick \/ UNCHANGED frontendVars
      PROVE  \E d \in requests' : d.kind = "delete" /\ d.id = page'.pendingId
  <2>1. requests' = requests /\ page' = page
    BY <1>9 DEF HandleAbandoned, OthersTake, Tick, frontendVars
  <2> QED BY <1>2, <2>1
<1> QED BY <1>3, <1>5, <1>6, <1>7, <1>8, <1>9 DEF FrontendNext

\* Whatever deletes overlap, fail or find their row gone, a row is shown as being
\* removed only while a delete of it is on its way.
THEOREM PendingInFlight == FrontendSpec => []PendingIsInFlight
<1>1. FrontendInit => PendingIsInFlight
  <2> SUFFICES ASSUME FrontendInit PROVE PendingIsInFlight
    OBVIOUS
  <2>1. page.pendingId = None
    BY DEF FrontendInit
  <2> QED BY <2>1 DEF PendingIsInFlight
<1> QED BY <1>1, PendingPreserved, TypeInvariant, PTL DEF FrontendSpec

-----------------------------------------------------------------------------
(* The list. *)

\* A refresh of the list that will show the rows as they are is still to come.
Stored(S)  == \E r \in S : r.kind \in {"upload", "delete"} /\ r.done /\ r.ok
Current(r) == r.kind = "list" /\ (~r.done \/ r.rows = server.rows)
Coming     == Stored(requests) \/ \E r \in requests : Current(r)

\* While nothing is in doubt: the list is current or a refresh will make it so, and
\* an old answer that is still to come is never the last.  The user's addresses are
\* asked for once, before everything else.
ListInv ==
  /\ \A r \in requests : r.kind = "me" => page.phase = "loading" /\ requests = {r}
  /\ ~doubt /\ page.phase = "ready" => page.keys = server.rows \/ Coming
  /\ ~doubt => \A r \in requests : r.kind = "list" => Current(r) \/ Stored(requests)

LEMMA ListPreserved == TypeInv /\ ListInv /\ [FrontendNext]_frontendVars => ListInv'
<1> SUFFICES ASSUME TypeInv, ListInv, [FrontendNext]_frontendVars PROVE ListInv'
  OBVIOUS
<1>1. page \in Pages /\ \A r \in requests : r \in Requests
  BY DEF TypeInv, FrontendTypeOK
<1>2. PICK refresh : /\ refresh = NewRequest(sent', "list", None, None)
                     /\ refresh.kind = "list" /\ ~refresh.done
  <2>1. LET q == NewRequest(sent', "list", None, None) IN q.kind = "list" /\ ~q.done
    BY DEF NewRequest
  <2> QED BY <2>1
<1>3. ASSUME NEW r \in requests, Handle(r) PROVE ListInv'
  <2>1. PICK q : /\ q.kind = r.kind /\ q.done /\ requests' = (requests \ {r}) \cup {q}
                 /\ server' # server => q.ok
                 /\ r.kind = "list" => q.rows = server.rows
    <3> DEFINE q == [r EXCEPT !.done = TRUE,
                              !.ok = r.kind \in {"me", "list"} \/ server' # server,
                              !.rows = IF r.kind = "list" THEN server.rows ELSE {}]
    <3>1. requests' = (requests \ {r}) \cup {q}
      BY <1>3 DEF Handle
    <3>2. q.kind = r.kind /\ q.done /\ (server' # server => q.ok)
      BY <1>1 DEF Requests
    <3>3. r.kind = "list" => q.rows = server.rows
      BY <1>1 DEF Requests
    <3> HIDE DEF q
    <3> QED BY <3>1, <3>2, <3>3
  <2>2. ~r.done /\ page' = page /\ doubt' = doubt
    BY <1>3 DEF Handle
  <2>3. r.kind \in {"me", "list"} => server' = server
    BY <1>3 DEF Handle, After
  <2>4. r.kind \in {"me", "list", "upload", "delete"}
    BY <1>1 DEF Requests
  <2>5. Stored(requests) => Stored(requests')
    BY <2>1, <2>2 DEF Stored
  <2>6. CASE server' # server
    <3>1. Stored(requests')
      BY <2>1, <2>3, <2>4, <2>6 DEF Stored
    <3> QED BY <2>1, <2>2, <3>1 DEF ListInv, Coming
  <2>7. CASE server' = server
    <3>1. \A w \in requests : Current(w) => \E v \in requests' : Current(v)'
      BY <2>1, <2>7 DEF Current
    <3>2. \A w \in requests' :
            w.kind = "list" => Current(w)' \/ (w \in requests /\ Current(w)' = Current(w))
      BY <2>1, <2>7 DEF Current
    <3> QED BY <2>1, <2>2, <2>5, <2>7, <3>1, <3>2 DEF ListInv, Coming
  <2> QED BY <2>6, <2>7
<1>4. ASSUME NEW r \in requests, Refuse(r) PROVE ListInv'
  <2>1. PICK q : q.kind = "upload" /\ requests' = (requests \ {r}) \cup {q}
    BY <1>1, <1>4 DEF Refuse, Requests
  <2>2. /\ r.kind = "upload" /\ ~r.done
        /\ page' = page /\ doubt' = doubt /\ server' = server
    BY <1>4 DEF Refuse
  <2>3. Stored(requests) => Stored(requests')
    BY <2>1, <2>2 DEF Stored
  <2>4. \A w \in requests : Current(w) => w \in requests' /\ Current(w)'
    BY <2>1, <2>2 DEF Current
  <2> QED BY <2>1, <2>2, <2>3, <2>4 DEF ListInv, Coming
<1>5. ASSUME NEW r \in requests, NEW p, EndAndRefresh(r, p), r.kind # "list"
      PROVE  ListInv'
  <2>1. /\ requests' = (requests \ {r}) \cup {refresh}
        /\ ~doubt' => ~doubt /\ \A w \in requests : w.kind # "list"
    BY <1>2, <1>5 DEF EndAndRefresh, InFlight
  <2>2. Current(refresh)'
    BY <1>2 DEF Current
  <2>3. \A w \in requests' : w.kind # "me"
    BY <1>2, <2>1 DEF ListInv
  <2>4. Coming'
    BY <2>1, <2>2 DEF Coming
  <2>5. ~doubt' => \A w \in requests' : w.kind = "list" => w = refresh
    BY <2>1
  <2> QED BY <2>2, <2>3, <2>4, <2>5 DEF ListInv
<1>6. ASSUME NEW r \in requests, requests' = requests \ {r}, r.kind \in {"upload", "delete"},
             server' = server, ~doubt' => ~doubt /\ ~r.ok,
             page'.phase = page.phase, page'.keys = page.keys
      PROVE  ListInv'
  <2>1. ~doubt' /\ Stored(requests) => Stored(requests')
    BY <1>6 DEF Stored
  <2>2. \A w \in requests : Current(w) => w \in requests' /\ Current(w)'
    BY <1>6 DEF Current
  <2>3. \A w \in requests : w.kind # "me"
    BY <1>6 DEF ListInv
  <2> QED BY <1>6, <2>1, <2>2, <2>3 DEF ListInv, Coming
<1>7. ASSUME NEW r \in requests, Answer(r) PROVE ListInv'
  <2>1. CASE MeAnswered(r)
    BY <1>5, <2>1 DEF MeAnswered
  <2>2. CASE ListAnswered(r)
    <3>1. /\ r.kind = "list" /\ r.done /\ requests' = requests \ {r}
          /\ server' = server /\ (doubt' <=> doubt)
          /\ page'.phase = "ready" /\ page'.keys = r.rows
      BY <1>1, <1>7, <2>2 DEF Answer, ListAnswered, End, Pages
    <3>2. Stored(requests) => Stored(requests')
      BY <3>1 DEF Stored
    <3>3. \A w \in requests : w.kind # "me"
      BY <3>1 DEF ListInv
    <3>4. \A w : Current(w)' <=> Current(w)
      BY <3>1 DEF Current
    <3>5. Current(r) => page'.keys = server'.rows
      BY <3>1 DEF Current
    <3> QED BY <3>1, <3>2, <3>3, <3>4, <3>5 DEF ListInv, Coming
  <2>3. CASE UploadAnswered(r)
    <3> DEFINE p == [page EXCEPT !.submitting = FALSE]
    <3>1. r.kind = "upload" /\ p.phase = page.phase /\ p.keys = page.keys
      BY <1>1, <2>3 DEF UploadAnswered, Pages
    <3>2. CASE r.ok
      BY <1>5, <2>3, <3>1, <3>2 DEF UploadAnswered
    <3>3. CASE ~r.ok
      <4>1. End(r, p, FALSE)
        BY <2>3, <3>3 DEF UploadAnswered
      <4> HIDE DEF p
      <4> QED BY <1>6, <3>1, <3>3, <4>1 DEF End
    <3> QED BY <3>2, <3>3
  <2>4. CASE DeleteAnswered(r)
    <3> DEFINE p == [page EXCEPT !.pendingId = None]
    <3>1. r.kind = "delete" /\ p.phase = page.phase /\ p.keys = page.keys
      BY <1>1, <2>4 DEF DeleteAnswered, Pages
    <3>2. CASE r.ok
      BY <1>5, <2>4, <3>1, <3>2 DEF DeleteAnswered
    <3>3. CASE ~r.ok
      <4>1. End(r, p, FALSE)
        BY <2>4, <3>3 DEF DeleteAnswered
      <4> HIDE DEF p
      <4> QED BY <1>6, <3>1, <3>3, <4>1 DEF End
    <3> QED BY <3>2, <3>3
  <2> QED BY <1>7, <2>1, <2>2, <2>3, <2>4 DEF Answer
<1>8. ASSUME NEW r \in requests, Break(r) PROVE ListInv'
  <2>1. /\ requests' = requests \ {r} /\ page' = AfterFailure(r) /\ server' = server
        /\ ~doubt' => ~doubt /\ ~r.ok /\ r.kind # "list"
    BY <1>8 DEF Break, End
  <2>2. r.kind \in {"me", "list", "upload", "delete"}
    BY <1>1 DEF Requests
  <2>3. CASE r.kind \in {"upload", "delete"}
    <3>1. page'.phase = page.phase /\ page'.keys = page.keys
      BY <1>1, <2>1, <2>3 DEF AfterFailure, Pages
    <3> QED BY <1>6, <2>1, <2>3, <3>1
  <2>4. CASE r.kind = "me"
    <3>1. requests' = {} /\ page.phase = "loading"
      BY <2>1, <2>4 DEF ListInv
    <3>2. page'.phase = "failed"
      BY <1>1, <2>1, <2>4, <3>1 DEF AfterFailure, Pages
    <3> QED BY <3>1, <3>2 DEF ListInv
  <2>5. CASE r.kind = "list"
    BY <2>1, <2>5 DEF ListInv
  <2> QED BY <2>2, <2>3, <2>4, <2>5
<1>9. ASSUME NEW kind \in {"upload", "delete"}, NEW key, NEW id, NEW p,
             Click(kind, key, id, p), p.phase = page.phase, p.keys = page.keys
      PROVE  ListInv'
  <2> DEFINE q == NewRequest(sent', kind, key, id)
  <2>1. q.kind = kind
    BY DEF NewRequest
  <2>2. /\ requests' = requests \cup {q} /\ server' = server /\ doubt' = doubt
        /\ page' = p /\ page.phase = "ready"
    BY <1>9 DEF Click
  <2> HIDE DEF q
  <2>3. Stored(requests) => Stored(requests')
    BY <2>2 DEF Stored
  <2>4. \A w : Current(w)' <=> Current(w)
    BY <2>2 DEF Current
  <2>5. \A w \in requests' : w.kind # "me"
    BY <2>1, <2>2 DEF ListInv
  <2> QED BY <1>9, <2>1, <2>2, <2>3, <2>4, <2>5 DEF ListInv, Coming
<1>10. ASSUME NEW key \in Keys, Submit(key) PROVE ListInv'
  <2> DEFINE p == [page EXCEPT !.submitting = TRUE]
  <2>1. Click("upload", key, None, p) /\ p.phase = page.phase /\ p.keys = page.keys
    BY <1>1, <1>10 DEF Submit, Pages
  <2> HIDE DEF p
  <2> QED BY <1>9, <2>1
<1>11. ASSUME NEW k \in page.keys, Delete(k) PROVE ListInv'
  <2> DEFINE p == [page EXCEPT !.pendingId = k.id]
  <2>1. Click("delete", None, k.id, p) /\ p.phase = page.phase /\ p.keys = page.keys
    BY <1>1, <1>11 DEF Delete, Pages
  <2> HIDE DEF p
  <2> QED BY <1>9, <2>1
<1>12. ASSUME NEW k \in server.rows, OthersTake(k) PROVE ListInv'
  BY <1>12 DEF OthersTake, ListInv
<1>13. CASE Tick \/ UNCHANGED frontendVars
  <2>1. UNCHANGED <<server, page, requests, doubt>>
    BY <1>13 DEF Tick, frontendVars
  <2> QED BY <2>1 DEF ListInv, Coming, Stored, Current
<1>14. ASSUME NEW r \in abandoned, HandleAbandoned(r) PROVE ListInv'
  <2>1. page' = page /\ requests' = requests /\ (~doubt' => ~doubt /\ server' = server)
    BY <1>14 DEF HandleAbandoned
  <2> QED BY <2>1 DEF ListInv, Coming, Stored, Current
<1> QED BY <1>3, <1>4, <1>7, <1>8, <1>10, <1>11, <1>12, <1>13, <1>14 DEF FrontendNext

\* For any number of clicks, answers in any order and failed uploads and deletes, the
\* page at rest shows the user's rows, unless a refresh failed or overlapped another,
\* somebody else changed them, or a request was carried out after its connection had broken.
THEOREM ListCurrent == FrontendSpec => []ListIsCurrent
<1>1. FrontendInit => ListInv
  <2> SUFFICES ASSUME FrontendInit PROVE ListInv
    OBVIOUS
  <2>1. NewRequest(1, "me", None, None).kind = "me"
    BY DEF NewRequest
  <2>2. requests = {NewRequest(1, "me", None, None)} /\ page.phase = "loading"
    BY DEF FrontendInit
  <2> QED BY <2>1, <2>2 DEF ListInv
<1>2. ListInv => ListIsCurrent
  BY DEF ListInv, ListIsCurrent, Coming, Stored
<1> QED BY <1>1, <1>2, ListPreserved, TypeInvariant, PTL DEF FrontendSpec

-----------------------------------------------------------------------------
\* A status is computed of the rows shown: "published" is said of an address only
\* where a lookup at that moment would find one of them.
LEMMA StatusIsFound ==
  ASSUME TypeInv, NEW K \in SUBSET Rows, NEW a, StatusFor(K, a) = "published"
  PROVE  FoundIn(K, a)
<1> DEFINE found == {k.key : k \in {k \in K : k.key.address = a}}
<1>1. /\ found # {} /\ ~\E k \in found : k.revoked
      /\ ~\E k \in found : k.expires # Never /\ k.expires <= now
  BY DEF StatusFor
<1>2. PICK k \in K : k.key \in found /\ k.key.address = a
  BY <1>1
<1>3. k.key.expires \in Nat \cup {Never} /\ now \in Nat
  <2>1. now \in Nat
    BY PageBounds DEF TypeInv, FrontendTypeOK
  <2>2. k.key \in Keys
    BY DEF Rows
  <2>3. k.key.expires \in Nat \cup {Never}
    BY <2>2, PageExpiries DEF Keys
  <2> QED BY <2>1, <2>3
<1>4. k.key.expires = Never \/ k.key.expires > now
  BY <1>1, <1>2, <1>3
<1> QED BY <1>1, <1>2, <1>4 DEF FoundIn

\* No badge is rendered "published" of an address for which a lookup of the rows
\* shown, at that moment, finds nothing.
THEOREM BadgesRenderedHonestly == FrontendSpec => RenderedHonestly
<1>1. ASSUME TypeInv, [FrontendNext]_frontendVars, page'.badges # page.badges,
             NEW a \in Addresses, page'.badges[a] = "published"
      PROVE  FoundIn(page'.keys, a)
  <2>1. page \in Pages /\ \A r \in requests : r \in Requests
    BY <1>1 DEF TypeInv, FrontendTypeOK
  <2>2. PICK r \in requests : ListAnswered(r)
    <3>1. ASSUME NEW r \in requests, Answer(r), ~ListAnswered(r)
          PROVE  page'.badges = page.badges
      <4>1. page' \in {page, [page EXCEPT !.submitting = FALSE],
                       [page EXCEPT !.pendingId = None]}
        BY <3>1 DEF Answer, MeAnswered, UploadAnswered, DeleteAnswered, End, EndAndRefresh
      <4> QED BY <2>1, <4>1 DEF Pages
    <3>2. ASSUME NEW r \in requests, Break(r) PROVE page'.badges = page.badges
      BY <2>1, <3>2 DEF Break, End, AfterFailure, Pages
    <3>3. ASSUME NEW k \in Keys, Submit(k) PROVE page'.badges = page.badges
      BY <2>1, <3>3 DEF Submit, Click, Pages
    <3>4. ASSUME NEW k \in page.keys, Delete(k) PROVE page'.badges = page.badges
      BY <2>1, <3>4 DEF Delete, Click, Pages
    <3>5. ASSUME NEW r \in requests, Handle(r) \/ Refuse(r) PROVE page' = page
      BY <3>5 DEF Handle, Refuse
    <3>6. ASSUME \/ \E r \in abandoned : HandleAbandoned(r)
                 \/ \E k \in server.rows : OthersTake(k)
                 \/ Tick \/ UNCHANGED frontendVars
          PROVE  page' = page
      BY <3>6 DEF HandleAbandoned, OthersTake, Tick, frontendVars
    <3> QED BY <1>1, <3>1, <3>2, <3>3, <3>4, <3>5, <3>6 DEF FrontendNext
  <2>3. page'.keys = r.rows /\ page'.badges[a] = StatusFor(r.rows, a)
    BY <2>1, <2>2 DEF ListAnswered, End, Pages
  <2>4. r.rows \in SUBSET Rows
    BY <2>1 DEF Requests
  <2> QED BY <1>1, <2>3, <2>4, StatusIsFound
<1>2. TypeInv /\ [FrontendNext]_frontendVars =>
        [page'.badges # page.badges =>
           \A a \in Addresses :
             page'.badges[a] = "published" => FoundIn(page'.keys, a)]_frontendVars
  BY <1>1
<1> QED BY <1>2, TypeInvariant, PTL DEF FrontendSpec, RenderedHonestly
=============================================================================

---------------------------- MODULE UserDbProofs ----------------------------
(***************************************************************************)
(* Theorems about the two backends: FlatFile, for any number of saves,     *)
(* faults and events, and Ldap, for any directory and any timeout.         *)
(***************************************************************************)
EXTENDS FlatFile, Ldap, TLAPS

FlatTyped == FlatFileTypeOK /\ users.part # "none"

\* Every statement of load, the callback and the editors keeps the types.
LEMMA TypeInit == FlatFileInit => FlatTyped
<1>1. Empty \in Contents /\ Empty.part = "all" /\ Empty.save = 0
  BY DEF Contents, Empty
<1>2. 0 \in 0..MaxEvents /\ 0 \in 0..MaxFaults /\ 0 <= MaxSaves
  BY FlatFileBounds
<1>. QED
  BY <1>1, <1>2 DEF FlatFileInit, FlatTyped, FlatFileTypeOK

\* The same, step by step.
LEMMA TypeStep == FlatTyped /\ [FlatFileNext]_flatFileVars => FlatTyped'
<1>. SUFFICES ASSUME FlatTyped, [FlatFileNext]_flatFileVars PROVE FlatTyped'
  OBVIOUS
<1>. USE FlatFileBounds DEF FlatTyped, FlatFileTypeOK, Contents, fileVars, watchVars
<1>1. CASE Load
  BY <1>1 DEF Load
<1>2. CASE Watch
  BY <1>2 DEF Watch
<1>3. CASE Call
  BY <1>3 DEF Call
<1>4. CASE Read
  BY <1>4 DEF Read, ReadUsers
<1>5. CASE Swap
  BY <1>5 DEF Swap
<1>6. CASE CallWithError
  BY <1>6 DEF CallWithError
<1>7. CASE RenameOnto
  <2>1. PICK part \in {"all", "none"} : file' = [save |-> file.save + 1, part |-> part]
    BY <1>7 DEF RenameOnto
  <2>2. file' \in Contents /\ file'.save <= MaxSaves
    BY <1>7, <2>1 DEF RenameOnto, MaySave
  <2>. QED
    BY <1>7, <2>2 DEF RenameOnto, Announce
<1>8. CASE BeginRewrite
  <2>1. PICK part \in {"some", "none"} : file' = [save |-> file.save + 1, part |-> part]
    BY <1>8 DEF BeginRewrite
  <2>2. file' \in Contents /\ file'.save <= MaxSaves
    BY <1>8, <2>1 DEF BeginRewrite, MaySave
  <2>. QED
    BY <1>8, <2>2 DEF BeginRewrite, Announce
<1>9. CASE EndRewrite
  <2>1. file' \in Contents /\ file'.save <= MaxSaves
    BY <1>9 DEF EndRewrite
  <2>2. events' \in 0..MaxEvents /\ missed' \in BOOLEAN
    BY <1>9 DEF EndRewrite, Announce
  <2>. QED
    BY <1>9, <2>1, <2>2 DEF EndRewrite
<1>10. CASE OtherEvent
  <2>1. events' \in 0..MaxEvents /\ missed' \in BOOLEAN
    BY <1>10 DEF OtherEvent, Announce
  <2>. QED
    BY <1>10, <2>1 DEF OtherEvent
<1>11. CASE Crash
  <2>1. events' = 0 /\ 0 \in 0..MaxEvents
    BY <1>11 DEF Crash
  <2>2. faults' \in 0..MaxFaults
    BY <1>11 DEF Crash
  <2>3. missed' = FALSE /\ pc' = "off" /\ cb' = "idle"
    BY <1>11 DEF Crash
  <2>4. UNCHANGED <<file, writing, state, users>>
    BY <1>11 DEF Crash
  <2>. QED
    BY <2>1, <2>2, <2>3, <2>4
<1>12. CASE UNCHANGED flatFileVars
  BY <1>12 DEF flatFileVars
<1>. QED
  BY <1>1, <1>2, <1>3, <1>4, <1>5, <1>6, <1>7, <1>8, <1>9, <1>10, <1>11, <1>12
     DEF FlatFileNext, Watcher

\* The map answered from is always one read_users accepted.
THEOREM FlatFileTyped == FlatFileSpec => []FlatFileTypeOK
<1>1. FlatTyped => FlatFileTypeOK
  BY DEF FlatTyped
<1>. QED
  BY <1>1, TypeInit, TypeStep, PTL DEF FlatFileSpec

-----------------------------------------------------------------------------
\* Only a process that is up has a watcher; the callback holds a map no older than
\* the one shown and no newer than the file: with one thread, nothing is shown between its read and its swap.
OrderInv ==
  /\ state.save <= file.save
  /\ pc # "up" => cb = "idle" /\ events = 0
  /\ cb = "read" => users.save \in state.save..file.save

\* The steps that change the order: a read, a swap, a load, a save.
LEMMA OrderStep ==
  ASSUME FlatTyped, OrderInv, [FlatFileNext]_flatFileVars
  PROVE  OrderInv' /\ [Promise!Save \/ Promise!Follow]_<<file.save, state.save>>
<1>. USE DEF FlatTyped, FlatFileTypeOK, Contents, OrderInv, fileVars, watchVars,
             Promise!Save, Promise!Follow
<1>1. CASE Load
  BY <1>1 DEF Load
<1>2. CASE Watch
  BY <1>2 DEF Watch
<1>3. CASE Call
  BY <1>3 DEF Call
<1>4. CASE Read
  BY <1>4 DEF Read, ReadUsers
<1>5. CASE Swap
  BY <1>5 DEF Swap
<1>6. CASE CallWithError
  BY <1>6 DEF CallWithError
<1>7. CASE RenameOnto
  BY <1>7 DEF RenameOnto, Announce
<1>8. CASE BeginRewrite
  BY <1>8 DEF BeginRewrite, Announce
<1>9. CASE EndRewrite
  BY <1>9 DEF EndRewrite, Announce
<1>10. CASE OtherEvent
  BY <1>10 DEF OtherEvent, Announce
<1>11. CASE Crash
  BY <1>11 DEF Crash
<1>12. CASE UNCHANGED flatFileVars
  BY <1>12 DEF flatFileVars
<1>. QED
  BY <1>1, <1>2, <1>3, <1>4, <1>5, <1>6, <1>7, <1>8, <1>9, <1>10, <1>11, <1>12
     DEF FlatFileNext, Watcher

\* Answers come from a map the file had, and never from an older one than before.
THEOREM AnswersFollowFile == FlatFileSpec => FollowsFile
<1>1. FlatFileInit => OrderInv /\ Promise!HotReloadInit
  BY DEF FlatFileInit, Empty, OrderInv, Promise!HotReloadInit
<1>2. FlatTyped /\ OrderInv /\ [FlatFileNext]_flatFileVars
        => OrderInv' /\ [Promise!Save \/ Promise!Follow]_<<file.save, state.save>>
  BY OrderStep
<1>. QED
  BY <1>1, <1>2, TypeInit, TypeStep, PTL DEF FlatFileSpec, FollowsFile, Promise!HotReloadSpec

-----------------------------------------------------------------------------
(* Ldap. *)

\* Whatever the server sent of an entry are addresses listed there, under one
\* spelling of each attribute.
ResultsInv ==
  \A e \in DOMAIN results :
    /\ \A n \in DOMAIN results[e] :
         n \in Names /\ results[e][n] \subseteq {a \in Addresses : EntryOf[a] = e}
    /\ \A n, m \in DOMAIN results[e] : Fold[n] = Fold[m] => n = m

\* Results are there only during the search and the unbind, and with the latter
\* they are complete and collected.
CallInv ==
  /\ step \notin {"search", "unbind"} => DOMAIN results = {}
  /\ step = "unbind" => DOMAIN results = Entries /\ answer = Listed

\* What the timer has left and what the call took are the budget.
BudgetInv == age \in 0..Budget /\ (Busy => left + age = Budget)

LdapInv == LdapTypeOK /\ ResultsInv /\ CallInv /\ BudgetInv

\* find_attr_ci misses nothing: mail_attr and alias_attr are all that was asked for.
LEMMA CollectsAll == LdapTypeOK /\ ResultsInv => Collected = Listed
<1>. SUFFICES ASSUME LdapTypeOK, ResultsInv PROVE Collected = Listed
  OBVIOUS
<1>1. ASSUME NEW e \in DOMAIN results
      PROVE  FindAttrCi(results[e], "mail") \cup FindAttrCi(results[e], "alias")
               = UNION {results[e][n] : n \in DOMAIN results[e]}
  <2>. DEFINE attrs == results[e]
  <2>1. ASSUME NEW n \in DOMAIN attrs
        PROVE  FindAttrCi(attrs, Fold[n]) = attrs[n]
    <3>1. (CHOOSE m \in DOMAIN attrs : Fold[m] = Fold[n]) = n
      BY DEF ResultsInv
    <3>. QED
      BY <3>1 DEF FindAttrCi
  <2>2. \A n \in DOMAIN attrs : Fold[n] \in {"mail", "alias"}
    BY FoldType DEF ResultsInv, Attrs
  <2>3. ASSUME NEW t \in {"mail", "alias"}, NEW a \in FindAttrCi(attrs, t)
        PROVE  \E n \in DOMAIN attrs : a \in attrs[n]
    BY <2>3 DEF FindAttrCi
  <2>. QED
    BY <2>1, <2>2, <2>3
<1>. QED
  BY <1>1 DEF Collected, Listed

\* What SendEntry adds to the results.
LEMMA SendsListed ==
  ASSUME LdapTypeOK, ResultsInv, NEW e \in Entries, SendEntry(e)
  PROVE  /\ DOMAIN results' = DOMAIN results \cup {e}
         /\ ResultsInv'
         /\ Listed' = Listed \cup {a \in owns : EntryOf[a] = e}
<1>. DEFINE listed == {a \in owns : EntryOf[a] = e}
<1>1. PICK spelt \in [Attrs -> Names] :
        /\ \A t \in Attrs : Fold[spelt[t]] = t
        /\ results' = [x \in DOMAIN results \cup {e} |->
             IF x = e THEN [n \in {spelt[AttrOf[a]] : a \in listed} |->
                              {a \in listed : spelt[AttrOf[a]] = n}]
                      ELSE results[x]]
  BY DEF SendEntry
<1>. DEFINE attrs == [n \in {spelt[AttrOf[a]] : a \in listed} |->
                       {a \in listed : spelt[AttrOf[a]] = n}]
<1>2. DOMAIN results' = DOMAIN results \cup {e} /\ e \notin DOMAIN results
  BY <1>1 DEF SendEntry
<1>3. results'[e] = attrs /\ \A x \in DOMAIN results : results'[x] = results[x]
  BY <1>1, <1>2
<1>4. \A a \in listed : AttrOf[a] \in Attrs /\ a \in Addresses
  BY AttrOfType DEF LdapTypeOK
<1>5. \A n \in DOMAIN attrs : n \in Names /\ attrs[n] \subseteq {a \in Addresses : EntryOf[a] = e}
  BY <1>1, <1>4
<1>6. \A n, m \in DOMAIN attrs : Fold[n] = Fold[m] => n = m
  BY <1>1, <1>4
<1>7. UNION {attrs[n] : n \in DOMAIN attrs} = listed
  <2>1. \A n \in DOMAIN attrs : attrs[n] \subseteq listed
    OBVIOUS
  <2>2. \A a \in listed : \E n \in DOMAIN attrs : a \in attrs[n]
    OBVIOUS
  <2>. HIDE DEF attrs, listed
  <2>. QED
    BY <2>1, <2>2
<1>8. ResultsInv'
  <2>. HIDE DEF attrs
  <2>1. ASSUME NEW x \in DOMAIN results'
        PROVE  /\ \A n \in DOMAIN results'[x] :
                    n \in Names /\ results'[x][n] \subseteq {a \in Addresses : EntryOf[a] = x}
               /\ \A n, m \in DOMAIN results'[x] : Fold[n] = Fold[m] => n = m
    <3>1. CASE x = e
      BY <1>3, <1>5, <1>6, <3>1
    <3>2. CASE x \in DOMAIN results
      BY <1>3, <3>2 DEF ResultsInv
    <3>. QED
      BY <1>2, <2>1, <3>1, <3>2
  <2>. QED
    BY <2>1 DEF ResultsInv
<1>9. Listed' = Listed \cup listed
  <2>1. \A x \in DOMAIN results :
          UNION {results'[x][n] : n \in DOMAIN results'[x]}
            = UNION {results[x][n] : n \in DOMAIN results[x]}
    BY <1>3
  <2>2. UNION {results'[e][n] : n \in DOMAIN results'[e]} = listed
    <3>. HIDE DEF attrs, listed
    <3>. QED
      BY <1>3, <1>7
  <2>. HIDE DEF listed
  <2>. QED
    BY <1>2, <2>1, <2>2 DEF Listed
<1>. QED
  BY <1>2, <1>8, <1>9

\* Every step of a call keeps the invariant.
LEMMA LdapStep == LdapInv /\ [LdapNext]_ldapVars => LdapInv'
<1>. SUFFICES ASSUME LdapInv, [LdapNext]_ldapVars PROVE LdapInv'
  OBVIOUS
<1>. USE BudgetType DEF LdapInv, LdapTypeOK, CallInv, BudgetInv, Busy, Awaits
<1>1. DOMAIN NoResults = {}
  BY DEF NoResults
<1>2. ASSUME NEW o \in {"idle", "answered", "failed"}, Return(o),
             UNCHANGED <<owns, answer, left, age>>
      PROVE  LdapInv'
  BY <1>1, <1>2 DEF Return, ResultsInv
<1>3. CASE New
  BY <1>3 DEF New, ResultsInv
<1>4. CASE Ask
  BY <1>1, <1>4 DEF Ask, ResultsInv
<1>5. CASE Connect
  BY <1>5 DEF Connect, ResultsInv
<1>6. CASE step = "bind" /\ step' = "search" /\ session' = "bound"
           /\ UNCHANGED <<owns, results, answer, left, age>>
  BY <1>6 DEF ResultsInv
<1>7. ASSUME NEW e \in Entries, SendEntry(e) PROVE LdapInv'
  BY <1>7, SendsListed DEF SendEntry
<1>8. CASE step = "search" /\ Complete /\ step' = "unbind" /\ answer' = Collected
           /\ UNCHANGED <<session, results, owns, left, age>>
  <2>1. Collected = Listed
    BY CollectsAll
  <2>2. Listed \subseteq Addresses
    BY DEF Listed, ResultsInv
  <2>3. Listed' = Listed /\ ResultsInv'
    BY <1>8 DEF Listed, ResultsInv
  <2>. QED
    BY <1>8, <2>1, <2>2, <2>3 DEF Complete
<1>9. CASE Tick
  BY <1>9 DEF Tick, ResultsInv, Listed
<1>10. CASE Change
  BY <1>10 DEF Change, ResultsInv, Listed
<1>11. CASE UNCHANGED ldapVars
  BY <1>11 DEF ldapVars, ResultsInv, Listed
<1>. QED
  BY <1>2, <1>3, <1>4, <1>5, <1>6, <1>7, <1>8, <1>9, <1>10, <1>11
     DEF LdapNext, Bind, SearchDone, Unbind, Breaks, Timeout, Drop

\* The invariant of every reachable state of a call.
THEOREM LdapInvariant == LdapSpec => []LdapInv
<1>1. LdapInit => LdapInv
  BY BudgetType DEF LdapInit, LdapInv, LdapTypeOK, ResultsInv, CallInv, BudgetInv, Busy, Awaits,
                    NoResults
<1>. QED
  BY <1>1, LdapStep, PTL DEF LdapSpec

\* Types hold, and every search is made on a bound connection.
THEOREM LdapTyped == LdapSpec => []LdapTypeOK
<1>1. LdapInv => LdapTypeOK
  BY DEF LdapInv
<1>. QED
  BY <1>1, LdapInvariant, PTL

\* However many awaits a call is made of, they share one timeout.
THEOREM LdapInBudget == LdapSpec => []WithinBudget
<1>1. LdapInv => WithinBudget
  BY BudgetType DEF LdapInv, BudgetInv, WithinBudget
<1>. QED
  BY <1>1, LdapInvariant, PTL

\* A call is a call of UserDb: each entry that is sent is a look at the addresses
\* listed there, an answer is made when every address was looked at.
LEMMA LdapMaps ==
  ASSUME LdapInv, [LdapNext]_ldapVars
  PROVE  [Db!Ask \/ Db!Look \/ Db!Answer \/ Db!GiveUp \/ Db!Change]_<<owns, Outcome, Yes, No>>
<1>. USE DEF LdapInv, LdapTypeOK, Busy, Awaits, Outcome, Yes, No
<1>. DEFINE Same == UNCHANGED <<owns, Outcome, Yes, No>>
<1>1. ASSUME NEW o \in {"idle", "failed"}, Return(o), Busy, UNCHANGED owns PROVE Db!GiveUp
  BY <1>1 DEF Return, Db!GiveUp
<1>2. CASE New
  BY <1>2 DEF New
<1>3. CASE Ask
  <2>1. Listed' = {} /\ Passed' = {}
    BY <1>3 DEF Ask, NoResults, Listed, Passed
  <2>2. Db!Ask
    BY <1>3, <2>1 DEF Ask, Db!Ask
  <2>. QED
    BY <2>2
<1>4. ASSUME Busy, Busy', UNCHANGED <<owns, results>> PROVE Same
  BY <1>4 DEF Listed, Passed
<1>5. ASSUME NEW e \in Entries, SendEntry(e) PROVE Db!Look
  <2>. DEFINE S == {a \in Addresses : EntryOf[a] = e}
  <2>1. Busy /\ Busy' /\ UNCHANGED <<owns, step>> /\ e \notin DOMAIN results
    BY <1>5 DEF SendEntry
  <2>2. DOMAIN results' = DOMAIN results \cup {e}
        /\ Listed' = Listed \cup {a \in owns : EntryOf[a] = e}
    BY <1>5, SendsListed
  <2>3. Listed \subseteq Passed
    BY DEF Listed, Passed, ResultsInv
  <2>4. Passed' = Passed \cup S /\ Passed \cap S = {}
    BY <2>1, <2>2 DEF Passed
  <2>5. S \cap owns = {a \in owns : EntryOf[a] = e}
    OBVIOUS
  <2>6. Yes' = Yes \cup (S \cap owns) /\ No' = No \cup (S \ owns)
    <3>. HIDE DEF S
    <3>. QED
      BY <2>1, <2>2, <2>3, <2>4, <2>5
  <2>7. S \in SUBSET (Addresses \ (Yes \cup No))
    <3>1. S \subseteq Addresses
      OBVIOUS
    <3>. HIDE DEF S
    <3>. QED
      BY <2>1, <2>3, <2>4, <3>1
  <2>8. Outcome = "asked" /\ UNCHANGED <<owns, Outcome>>
    BY <2>1
  <2>. QED
    BY <2>6, <2>7, <2>8 DEF Db!Look
<1>6. CASE Unbind
  <2>1. Passed = Addresses /\ answer = Listed
    BY <1>6, EntryOfType DEF Unbind, CallInv, Passed
  <2>2. Db!Answer
    BY <1>6, <2>1 DEF Unbind, Return, Db!Answer
  <2>. QED
    BY <2>2
<1>7. CASE Change
  <2>1. Db!Change
    BY <1>7 DEF Change, Listed, Passed, Db!Change
  <2>. QED
    BY <2>1
<1>8. CASE UNCHANGED ldapVars
  BY <1>8 DEF ldapVars, Listed, Passed
<1>9. CASE Connect \/ Tick
  BY <1>4, <1>9 DEF Connect, Tick
<1>10. CASE Breaks \/ Timeout \/ Drop
  BY <1>1, <1>10 DEF Breaks, Timeout, Drop
<1>11. CASE Bind
  <2>1. CASE Return("failed")
    BY <1>1, <1>11, <2>1 DEF Bind
  <2>2. CASE step' = "search" /\ UNCHANGED results
    BY <1>4, <1>11, <2>2 DEF Bind
  <2>. QED
    BY <1>11, <2>1, <2>2 DEF Bind
<1>12. CASE SearchDone
  <2>1. CASE Return("failed")
    BY <1>1, <1>12, <2>1 DEF SearchDone
  <2>2. CASE step' = "unbind" /\ UNCHANGED results
    BY <1>4, <1>12, <2>2 DEF SearchDone
  <2>. QED
    BY <1>12, <2>1, <2>2 DEF SearchDone
<1>. QED
  BY <1>2, <1>3, <1>5, <1>6, <1>7, <1>8, <1>9, <1>10, <1>11, <1>12 DEF LdapNext

\* An answer is never one with a part missing, for any directory, any number of
\* entries and any point where the server breaks off.
THEOREM LdapAnswers == LdapSpec => AnswersAsDirectory
<1>1. LdapInit => Db!UserDbInit
  BY DEF LdapInit, Db!UserDbInit, Outcome, Yes, No, Busy, Awaits
<1>2. LdapInv /\ [LdapNext]_ldapVars
        => [Db!Ask \/ Db!Look \/ Db!Answer \/ Db!GiveUp \/ Db!Change]_<<owns, Outcome, Yes, No>>
  BY LdapMaps
<1>. QED
  BY <1>1, <1>2, LdapInvariant, PTL DEF LdapSpec, AnswersAsDirectory, Db!UserDbSpec
=============================================================================

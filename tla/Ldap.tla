-------------------------------- MODULE Ldap --------------------------------
(***************************************************************************)
(* userdb/ldap.rs: a call of addresses_for_user, against a directory that   *)
(* changes, refuses, hangs, breaks off, or spells attributes its own way.   *)
(* Every call has its connection to itself, so one uid's calls, one at a    *)
(* time, stand for all.                                                     *)
(*                                                                         *)
(* The server is external: it reads one entry at a time, each at its own    *)
(* moment, and reports success for a search it completed.  To a session     *)
(* whose bind it refused it is an anonymous one's, that may see no entry.   *)
(***************************************************************************)
EXTENDS Naturals

CONSTANTS
  Addresses,
  Entries,   \* the entries that can match the uid
  EntryOf,   \* the entry an address is listed at, while it is listed
  AttrOf,    \* and the attribute there: mail_attr or alias_attr
  Names,     \* spellings of attribute names
  Fold,      \* what eq_ignore_ascii_case keeps of a spelling
  Budget     \* timeout_secs, in ticks

Attrs == {"mail", "alias"}

ASSUME EntryOfType == EntryOf \in [Addresses -> Entries]
ASSUME AttrOfType  == AttrOf \in [Addresses -> Attrs]
ASSUME FoldType    == Fold \in [Names -> Attrs]
ASSUME BudgetType  == Budget \in Nat

VARIABLES owns,     \* the addresses the directory lists for the uid
          step,     \* the await the call is suspended at
          session,  \* what the server takes the connection for
          results,  \* per entry the server came past: its attributes as answered
          answer,   \* the addresses collected
          left,     \* what is left of the timeout
          age       \* time since the call began

ldapVars == <<owns, step, session, results, answer, left, age>>

NoResults == [e \in {} |-> {}]

Awaits == {"connect", "bind", "search", "unbind"}
Busy   == step \in Awaits

LdapInit ==
  /\ owns \in SUBSET Addresses
  /\ step = "off" /\ session = "none"
  /\ results = NoResults /\ answer = {} /\ left = 0 /\ age = 0

\* LdapUserDb::new: a timeout of zero ends the process.
New ==
  /\ step = "off" /\ Budget > 0
  /\ step' = "idle"
  /\ UNCHANGED <<owns, session, results, answer, left, age>>

Ask ==
  /\ step \in {"idle", "answered", "failed"}
  /\ step' = "connect" /\ session' = "none"
  /\ results' = NoResults /\ answer' = {} /\ left' = Budget /\ age' = 0
  /\ UNCHANGED owns

-----------------------------------------------------------------------------
(* addresses_for_user_inner: one action per await that ends. *)

\* The call returns; connection and results are dropped.
Return(outcome) == step' = outcome /\ session' = "none" /\ results' = NoResults

\* The ? after an await: a refused or broken connection, a failed TLS handshake.
Breaks ==
  /\ step \in Awaits \ {"unbind"}
  /\ Return("failed")
  /\ UNCHANGED <<owns, answer, left, age>>

\* Mutant of Connect: the timeout starts anew with each await.
ConnectRearmed ==
  /\ step = "connect" /\ step' = "bind"
  /\ left' = Budget
  /\ UNCHANGED <<owns, session, results, answer, age>>

Connect ==
  /\ step = "connect" /\ step' = "bind"
  /\ UNCHANGED <<owns, session, results, answer, left, age>>

\* Mutant of Bind: the result code of the bind is not looked at.
BindUnchecked ==
  /\ step = "bind" /\ step' = "search"
  /\ session' \in {"bound", "anonymous"}
  /\ UNCHANGED <<owns, results, answer, left, age>>

\* simple_bind, and .success()?.
Bind ==
  /\ step = "bind"
  /\ \/ step' = "search" /\ session' = "bound" /\ UNCHANGED results
     \/ Return("failed")
  /\ UNCHANGED <<owns, answer, left, age>>

\* The server comes past entry e and sends what it lists, under its own spelling of
\* the attributes.  (No entry, or one without values, is sent as nothing.)
SendEntry(e) ==
  /\ step = "search" /\ session = "bound"
  /\ e \notin DOMAIN results
  /\ \E spelt \in [Attrs -> Names] :
       /\ \A t \in Attrs : Fold[spelt[t]] = t
       /\ LET listed == {a \in owns : EntryOf[a] = e}
              attrs  == [n \in {spelt[AttrOf[a]] : a \in listed} |->
                           {a \in listed : spelt[AttrOf[a]] = n}]
          IN  results' = [x \in DOMAIN results \cup {e} |->
                            IF x = e THEN attrs ELSE results[x]]
  /\ UNCHANGED <<owns, step, session, answer, left, age>>

\* Mutant of FindAttrCi: the attribute is looked up under its configured name.
FindAttrExact(attrs, name) == IF name \in DOMAIN attrs THEN attrs[name] ELSE {}

\* find_attr_ci, with no values for None.
FindAttrCi(attrs, name) ==
  IF \E n \in DOMAIN attrs : Fold[n] = name
  THEN attrs[CHOOSE n \in DOMAIN attrs : Fold[n] = name]
  ELSE {}

\* The loop over the results.
Collected ==
  UNION {FindAttrCi(results[e], "mail") \cup FindAttrCi(results[e], "alias") :
           e \in DOMAIN results}

\* The server's part: success once every entry was come past.
Complete == session = "anonymous" \/ DOMAIN results = Entries

\* The search's result code (size or time limit, busy, ...), .success()?, the loop.
SearchDone ==
  /\ step = "search"
  /\ \/ /\ Complete
        /\ step' = "unbind" /\ answer' = Collected
        /\ UNCHANGED <<session, results>>
     \/ Return("failed") /\ UNCHANGED answer
  /\ UNCHANGED <<owns, left, age>>

\* Whatever becomes of the unbind.
Unbind ==
  /\ step = "unbind"
  /\ Return("answered")
  /\ UNCHANGED <<owns, answer, left, age>>

-----------------------------------------------------------------------------
(* addresses_for_user: the timeout around it all. *)

\* Mutant of Timeout: the elapsed timeout is not looked at while searching.
TimeoutOutsideSearch ==
  /\ Busy /\ step # "search" /\ left = 0
  /\ Return("failed")
  /\ UNCHANGED <<owns, answer, left, age>>

\* It may still lose to an await that ends in the same tick.
Timeout ==
  /\ Busy /\ left = 0
  /\ Return("failed")
  /\ UNCHANGED <<owns, answer, left, age>>

\* Time passes; a timeout that is due is taken before it does.
Tick ==
  /\ Busy /\ left > 0
  /\ left' = left - 1 /\ age' = age + 1
  /\ UNCHANGED <<owns, step, session, results, answer>>

\* The handler that asked is dropped with its client.
Drop ==
  /\ Busy
  /\ Return("idle")
  /\ UNCHANGED <<owns, answer, left, age>>

\* The directory is edited.
Change ==
  /\ owns' \in SUBSET Addresses
  /\ UNCHANGED <<step, session, results, answer, left, age>>

LdapNext ==
  \/ New \/ Ask \/ Connect \/ Bind \/ (\E e \in Entries : SendEntry(e))
  \/ SearchDone \/ Unbind \/ Breaks \/ Timeout \/ Tick \/ Drop \/ Change

LdapSpec == LdapInit /\ [][LdapNext]_ldapVars

\* Time passes and the runtime's timer fires.  Nothing is assumed of the server.
LdapFairness == WF_ldapVars(Tick) /\ WF_ldapVars(Timeout)

-----------------------------------------------------------------------------
\* The call's state stays well typed, and no search is ever made on a connection
\* that is not bound.
LdapTypeOK ==
  /\ owns \subseteq Addresses
  /\ step \in Awaits \cup {"off", "idle", "answered", "failed"}
  /\ session = IF step \in {"search", "unbind"} THEN "bound" ELSE "none"
  /\ DOMAIN results \subseteq Entries
  /\ answer \subseteq Addresses
  /\ left \in 0..Budget /\ age \in Nat

\* The whole of a call takes no longer than the configured timeout, however many of
\* its awaits are slow.
WithinBudget == age <= Budget

\* A call that is under way ends, though the server may stop answering anywhere.
CallEnds == Busy ~> ~Busy

\* Whatever the server does, an answer is what the directory had: a result that is
\* cut off, a refused bind or an unexpected spelling never looks like a user who
\* does not own an address (any longer).
Listed == UNION {UNION {results[e][n] : n \in DOMAIN results[e]} : e \in DOMAIN results}
Passed == {a \in Addresses : EntryOf[a] \in DOMAIN results}

Outcome == IF Busy THEN "asked" ELSE IF step = "off" THEN "idle" ELSE step
Yes == IF Busy THEN Listed ELSE IF step = "answered" THEN answer ELSE {}
No  == IF Busy THEN Passed \ Listed
       ELSE IF step = "answered" THEN Addresses \ answer ELSE {}

Db == INSTANCE UserDb WITH call <- Outcome, yes <- Yes, no <- No
AnswersAsDirectory == Db!UserDbSpec
=============================================================================

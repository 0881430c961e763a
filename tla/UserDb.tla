------------------------------- MODULE UserDb -------------------------------
(***************************************************************************)
(* What a call of UserDb::addresses_for_user promises the handlers of      *)
(* wkdmgr-mgmt: it fails, or says of every address whether the uid owned   *)
(* it at some moment of the call.  Never an answer with a part missing.    *)
(***************************************************************************)
CONSTANT Addresses

VARIABLES owns,  \* the addresses the uid owns
          call,  \* "idle", "asked", "answered", "failed"
          yes,   \* addresses found to be owned
          no     \* addresses found not to be

UserDbInit == owns \in SUBSET Addresses /\ call = "idle" /\ yes = {} /\ no = {}

Ask == call # "asked" /\ call' = "asked" /\ yes' = {} /\ no' = {} /\ UNCHANGED owns

Look ==
  /\ call = "asked"
  /\ \E S \in SUBSET (Addresses \ (yes \cup no)) :
       yes' = yes \cup (S \cap owns) /\ no' = no \cup (S \ owns)
  /\ UNCHANGED <<owns, call>>

Answer ==
  /\ call = "asked" /\ yes \cup no = Addresses
  /\ call' = "answered" /\ UNCHANGED <<owns, yes, no>>

\* An error, or nobody waits for the answer any more.
GiveUp ==
  /\ call = "asked"
  /\ call' \in {"failed", "idle"} /\ yes' = {} /\ no' = {} /\ UNCHANGED owns

Change == owns' \in SUBSET Addresses /\ UNCHANGED <<call, yes, no>>

UserDbSpec == UserDbInit /\ [][Ask \/ Look \/ Answer \/ GiveUp \/ Change]_<<owns, call, yes, no>>
=============================================================================

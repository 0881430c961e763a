----------------------------- MODULE Directory ------------------------------
(***************************************************************************)
(* What the key store promises, with no table, id or transaction: a        *)
(* directory that holds at most one publication per slot.  A free slot may *)
(* be published, a publication may be withdrawn, and it may be taken over  *)
(* in a single step by a different user -- so that no reader ever sees the *)
(* slot empty in between -- but a user never overwrites a publication of   *)
(* their own ("delete it first").                                          *)
(***************************************************************************)
CONSTANTS Uids, Slots, Certs, None

VARIABLE entry

Publication == [uid: Uids, cert: Certs]

Init == entry = [s \in Slots |-> None]

Publish(s, p) ==
  /\ entry[s] = None
  /\ entry' = [entry EXCEPT ![s] = p]

TakeOver(s, p) ==
  /\ entry[s] # None
  /\ entry[s].uid # p.uid
  /\ entry' = [entry EXCEPT ![s] = p]

Withdraw(s) ==
  /\ entry[s] # None
  /\ entry' = [entry EXCEPT ![s] = None]

Next == \E s \in Slots :
          \/ Withdraw(s)
          \/ \E p \in Publication : Publish(s, p) \/ TakeOver(s, p)

Spec == Init /\ [][Next]_entry
=============================================================================

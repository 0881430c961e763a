---------------------------- MODULE MCMgmtAudit -----------------------------
(* Instances of MgmtAudit for TLC: ownership races, with one good key. *)
EXTENDS MgmtAudit, TLC

CONSTANTS alice

\* One certificate that is good for every slot and never expires.
MCCertInfo ==
  [c \in Certs |-> [parses |-> TRUE, names |-> Slots, revoked |-> FALSE, expires |-> Never]]

\* alice owns every address at startup, nobody else owns any.
MCOwns == [u \in Uids |-> IF u = alice THEN Slots ELSE {}]
\* Requests are alike, and so are the users who own nothing at first.
MCSymmetry == Permutations(Requests) \cup Permutations(Uids \ {alice})
=============================================================================

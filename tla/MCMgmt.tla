------------------------------- MODULE MCMgmt -------------------------------
(* Instances of Mgmt for TLC. *)
EXTENDS Mgmt

CONSTANTS alice, bob, carol, home, foreign, good, dated, revokedCert, wrong

Cert(parses, names, revoked, expires) ==
  [parses |-> parses, names |-> names, revoked |-> revoked, expires |-> expires]

\* One certificate of each kind the handlers tell apart.
MCCertInfo ==
  [c \in Certs |->
     CASE c = good        -> Cert(TRUE, Slots, FALSE, Never)
       [] c = dated       -> Cert(TRUE, Slots, FALSE, 1)
       [] c = revokedCert -> Cert(TRUE, Slots, TRUE, Never)
       [] c = wrong       -> Cert(TRUE, {}, FALSE, Never)
       [] OTHER           -> Cert(FALSE, {}, TRUE, Never)]

\* alice owns every address at startup, nobody else owns any.
MCOwns == [u \in Uids |-> IF u = alice THEN Slots ELSE {}]
=============================================================================

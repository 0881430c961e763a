----------------------------- MODULE MCOpenPgp ------------------------------
(* Instances of OpenPgp for TLC. *)
EXTENDS OpenPgp

CONSTANTS work, workOld, private, office, home

\* Two of the owner's User IDs contain the same address.
MCEmailOf == [u \in UserIds |-> IF u = private THEN home ELSE office]
=============================================================================

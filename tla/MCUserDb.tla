------------------------------ MODULE MCUserDb ------------------------------
(* An instance of BuildUserDb for TLC: two entries, one address under each     *)
(* attribute of the first.                                                    *)
EXTENDS BuildUserDb

CONSTANTS primary, alias, other, first, second

MCEntryOf == [a \in Addresses |-> IF a = other THEN second ELSE first]
MCAttrOf  == [a \in Addresses |-> IF a = alias THEN "alias" ELSE "mail"]
MCFold    == [n \in Names |-> IF n \in {"alias", "Alias"} THEN "alias" ELSE "mail"]
=============================================================================

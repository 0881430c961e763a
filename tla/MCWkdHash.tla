----------------------------- MODULE MCWkdHash ------------------------------
(***************************************************************************)
(* The two halves of wkd_hash.rs for TLC, one at a time: either an address  *)
(* is written, or a digest is encoded.                                      *)
(***************************************************************************)
EXTENDS ZBase32, Address

MCLowerOf == [c \in Capital |-> "a"]
MCAllowedDomains == {<<"A">>, <<"a", "0">>}

WkdHashInit == EncoderInit /\ AddressInit

WkdHashNext ==
  \/ address = <<>> /\ EncoderNext /\ UNCHANGED address
  \/ EncoderInit /\ AddressNext /\ UNCHANGED encoderVars

WkdHashSpec == WkdHashInit /\ [][WkdHashNext]_<<encoderVars, address>>
=============================================================================

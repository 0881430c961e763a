----------------------------- MODULE MCStorage ------------------------------
(* Instances of Storage for TLC. *)
EXTENDS Storage

\* Any user may upload any certificate anywhere; none is revoked or expires.
MCUploads == [uid: Uids, slot: Slots, cert: Certs, revoked: {FALSE}, expires: {Never}]
=============================================================================

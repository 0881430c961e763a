---------------------------- MODULE BuildUserDb -----------------------------
(***************************************************************************)
(* build_userdb of userdb/mod.rs: which of the two backends a process runs  *)
(* is what userdb.yaml says when it starts.                                 *)
(***************************************************************************)
EXTENDS FlatFile, Ldap

VARIABLE backend  \* the tag of UserDbConfig

backendVars == <<flatFileVars, ldapVars, backend>>

BuildUserDbInit == FlatFileInit /\ LdapInit /\ backend \in {"flatfile", "ldap"}

BuildUserDbNext ==
  \/ backend = "flatfile" /\ FlatFileNext /\ UNCHANGED <<ldapVars, backend>>
  \/ backend = "ldap" /\ LdapNext /\ UNCHANGED <<flatFileVars, backend>>

BuildUserDbSpec ==
  /\ BuildUserDbInit /\ [][BuildUserDbNext]_backendVars
  /\ backend = "flatfile" => FlatFileFairness
  /\ backend = "ldap" => LdapFairness
=============================================================================

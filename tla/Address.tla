------------------------------ MODULE Address -------------------------------
(***************************************************************************)
(* From an address to the slot its key is kept in and back: split_address  *)
(* and wkd_hash_for_address, the ASCII case-blind comparison of upload_key, *)
(* the domains that are served, and the domain a lookup arrives at.        *)
(* Addresses are sequences of characters; SHA-1 with Z-Base-32 is taken to *)
(* be one to one.                                                          *)
(***************************************************************************)
EXTENDS Naturals, Sequences, FiniteSets

CONSTANTS
  Small, Capital,   \* letters, with LowerOf their small form
  LowerOf,
  Other,            \* characters ASCII folding leaves alone
  allowed_domains,  \* as the configuration spells them
  NotServed,        \* the answer to a lookup in any other domain
  MaxLen            \* bound: length of an address

ASSUME LowerOfType == LowerOf \in [Capital -> Small]
ASSUME MaxLenType  == MaxLen \in Nat
\* The @ is no letter and stays what it is; the colon that sets off a port is in no
\* name of a domain.
ASSUME LettersOnly == {"@", ":"} \cap (Small \cup Capital \cup Other) = {}

VARIABLE address

Chars == Small \cup Capital \cup Other \cup {"@"}

\* to_ascii_lowercase.
Lowered(s) == [i \in DOMAIN s |-> IF s[i] \in Capital THEN LowerOf[s[i]] ELSE s[i]]

EqIgnoreCase(s, t) == Lowered(s) = Lowered(t)

Has(s, c) == \E i \in DOMAIN s : s[i] = c
FirstAt(s) == CHOOSE i \in DOMAIN s : s[i] = "@" /\ \A j \in 1..(i - 1) : s[j] # "@"

\* splitn(2, '@').
LocalPart(s) == SubSeq(s, 1, FirstAt(s) - 1)
DomainPart(s) == SubSeq(s, FirstAt(s) + 1, Len(s))

\* Mutant of Valid: whatever follows the first @ is a domain.
ValidAnyDomain(s) == Has(s, "@") /\ LocalPart(s) # <<>> /\ DomainPart(s) # <<>>

\* What split_address accepts.
Valid(s) ==
  Has(s, "@") /\ LocalPart(s) # <<>> /\ DomainPart(s) # <<>> /\ ~Has(DomainPart(s), "@")

\* Mutant of Slot: the local part is hashed as it is written.
SlotAsWritten(s) == [hash |-> LocalPart(s), domain |-> Lowered(DomainPart(s))]

\* wkd_hash_for_address.
Slot(s) == [hash |-> Lowered(LocalPart(s)), domain |-> Lowered(DomainPart(s))]

\* domain_from_host_header: the part before the last colon, if there is one.
DomainFromHost(host) ==
  IF Has(host, ":")
  THEN LET last == CHOOSE i \in DOMAIN host :
                     host[i] = ":" /\ \A j \in (i + 1)..Len(host) : host[j] # ":"
       IN SubSeq(host, 1, last - 1)
  ELSE host

\* allowed_domains.iter().any(eq_ignore_ascii_case), in either service.
IsDomainAllowed(domain) == \E d \in allowed_domains : EqIgnoreCase(d, domain)

\* Mutant of LookupDomain: the Host header is used as it came.
LookupDomainAsSent(domain) == IF IsDomainAllowed(domain) THEN domain ELSE NotServed

\* The domain lookup_and_respond looks in, for either route.
LookupDomain(domain) ==
  IF IsDomainAllowed(Lowered(domain)) THEN Lowered(domain) ELSE NotServed

AddressInit == address = <<>>
AddressNext == Len(address) < MaxLen /\ \E c \in Chars : address' = Append(address, c)
AddressSpec == AddressInit /\ [][AddressNext]_address

-----------------------------------------------------------------------------
\* An address is accepted if and only if it has exactly one @, with something on
\* either side of it.
AcceptsExactlyOneAt ==
  Valid(address) <=>
    /\ Cardinality({i \in DOMAIN address : address[i] = "@"}) = 1
    /\ address[1] # "@" /\ address[Len(address)] # "@"

\* Two spellings are the same to the ownership check exactly if they are the same
\* slot to the table: who owns an address can publish for it and for no other.
OwnedIsPublished ==
  \A other \in [1..Len(address) -> Chars] :
    /\ EqIgnoreCase(address, other) => (Valid(address) <=> Valid(other))
    /\ Valid(address) /\ Valid(other) =>
         (EqIgnoreCase(address, other) <=> Slot(address) = Slot(other))

\* A client that asks the domain of an address in whatever case, by path or by Host,
\* without a port or with one, is taken to the domain of the address's slot if an
\* upload for the address passes the domain check, and is turned away otherwise.
\* The hash in a lookup is the client's and is not compared.
LookupFindsSlot ==
  Valid(address) =>
    \A spelt \in [DOMAIN DomainPart(address) -> Chars] :
      EqIgnoreCase(spelt, DomainPart(address)) =>
        \A host \in {spelt, spelt \o <<":", "443">>} :
          LookupDomain(DomainFromHost(host)) =
            IF IsDomainAllowed(Slot(address).domain) THEN Slot(address).domain ELSE NotServed
=============================================================================

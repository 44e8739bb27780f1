------------------------------ MODULE CertChain ------------------------------
(***************************************************************************)
(* The TPM half of an attestation: the walk from the attestation key's     *)
(* certificate to the pinned Google root through the vendored and the      *)
(* carried intermediates (fugal_subnet/tee/tpm.py verify_ak_chain), then   *)
(* the quote's signature (verify_tpm_quote).                               *)
(*                                                                         *)
(* A certificate names its issuer and is signed by a key, which need not   *)
(* be that issuer's.                                                       *)
(***************************************************************************)
EXTENDS Naturals, Sequences, SequencesExt, FiniteSets

CONSTANTS
  CaNames,     \* names of intermediates, the vendored one's among them
  VendoredName,
  RootName,    \* the pinned root's
  CaKeys,      \* keys of intermediates
  VendoredKey,
  RootKey,     \* the pinned root's
  Junk,        \* bytes that are no certificate
  MaxCarried,  \* TPM_INTERMEDIATES_MAX
  MaxWalk      \* certificates looked at before the walk is refused: 8

ASSUME ChainAssumption ==
  /\ VendoredName \in CaNames /\ RootName \notin CaNames
  /\ VendoredKey \in CaKeys /\ RootKey \notin CaKeys
  /\ MaxCarried \in Nat /\ MaxWalk \in Nat \ {0, 1}

VARIABLES
  leaf,         \* the attestation key's certificate, and if its key signed the quote
  carried,      \* tpm_intermediates
  cert,         \* the certificate of the walk
  walked,       \* certificates left behind
  chainVerdict  \* of verify_tpm_quote

chainVars == <<leaf, carried, cert, walked, chainVerdict>>

(* expired stands for any time outside the validity window. *)
Intermediate ==
  [subject : CaNames, key : CaKeys, kind : {"ca", "not_ca", "expired"},
   issuer : CaNames \cup {RootName}, signedBy : CaKeys \cup {RootKey}]
Leaf == [issuer : CaNames \cup {RootName}, signedBy : CaKeys \cup {RootKey},
         kind : {"leaf", "expired"}, signs : BOOLEAN]

(* The certificate in fugal_subnet/tee/roots *)
Vendored == [subject |-> VendoredName, key |-> VendoredKey, kind |-> "ca",
             issuer |-> RootName, signedBy |-> RootKey]
Root == [subject |-> RootName, key |-> RootKey, kind |-> "ca"]

ChainTypeOK ==
  /\ leaf \in Leaf
  /\ Len(carried) <= MaxCarried /\ Range(carried) \subseteq Intermediate \cup {Junk}
  /\ cert \in Leaf \cup Intermediate
  /\ walked \in 0..MaxWalk
  /\ chainVerdict \in {"walking", "chained", "verified", "refused"}
  /\ walked = MaxWalk => chainVerdict = "refused"

ChainBlank == cert = leaf /\ walked = 0 /\ chainVerdict = "walking"

ChainInit ==
  /\ leaf \in Leaf
  /\ carried \in UNION {[1..n -> Intermediate \cup {Junk}] : n \in 0..MaxCarried}
  /\ ChainBlank

-----------------------------------------------------------------------------

(* _load_pinned, then the certificates the proof carries *)
Pool == <<Vendored>> \o carried

(* The root by its name, else the first certificate of the pool with it. *)
IssuersOf(name) ==
  IF name = RootName THEN {Root}
  ELSE {Pool[i] : i \in {k \in DOMAIN Pool :
                           /\ Pool[k].subject = name
                           /\ \A j \in 1..k - 1 : Pool[j].subject # name}}

(* Mutant of Issues: a certificate issues whatever its basicConstraints say. *)
IssuesUnchecked(issuer, c) == c.signedBy = issuer.key

(* It may issue, and did. *)
Issues(issuer, c) == issuer.kind # "not_ca" /\ c.signedBy = issuer.key

Parses == Junk \notin Range(carried)

(* The certificate is in its window, its issuer is found, and did issue it. *)
CanClimb ==
  /\ Parses /\ cert.kind # "expired"
  /\ \E issuer \in IssuersOf(cert.issuer) : Issues(issuer, cert)

(* One turn of the loop *)
Climb ==
  /\ chainVerdict = "walking" /\ CanClimb
  /\ \E issuer \in IssuersOf(cert.issuer) :
       /\ Issues(issuer, cert)
       /\ IF issuer = Root THEN chainVerdict' = "chained" /\ UNCHANGED <<cert, walked>>
          ELSE /\ cert' = issuer /\ walked' = walked + 1
               /\ chainVerdict' = IF walked' = MaxWalk THEN "refused" ELSE "walking"
  /\ UNCHANGED <<leaf, carried>>

(* One of the returns of False, or a TpmError. *)
StopWalk ==
  /\ chainVerdict = "walking" /\ ~CanClimb
  /\ chainVerdict' = "refused"
  /\ UNCHANGED <<leaf, carried, cert, walked>>

(* verify_quote_signature: under the leaf's key, that of an elliptic curve *)
QuoteIsSigned == leaf.signs

CheckSignature ==
  /\ chainVerdict = "chained"
  /\ chainVerdict' = IF QuoteIsSigned THEN "verified" ELSE "refused"
  /\ UNCHANGED <<leaf, carried, cert, walked>>

ChainNext == Climb \/ StopWalk \/ CheckSignature

ChainSpec == ChainInit /\ [][ChainNext]_chainVars

-----------------------------------------------------------------------------
MayIssue(c) == c.kind = "ca"

(* The keys the root vouches for through these certificates: in every set that
   has the root's key and is closed under their signatures. *)
Vouched(key, certs) ==
  \A T \in SUBSET (CaKeys \cup {RootKey}) :
    /\ RootKey \in T
    /\ \A c \in certs : MayIssue(c) /\ c.signedBy \in T => c.key \in T
    => key \in T

(* "A supplied certificate is worthless unless it chains to the anchor we
   pinned" (verify_ak_chain): a verified quote is signed by its leaf's key, and
   the leaf by a key that a chain of certificate authorities, all in their
   validity window, ties to the pinned root.  Names decide nothing. *)
VerifiedIsVouched ==
  chainVerdict = "verified" =>
    /\ leaf.signs /\ leaf.kind = "leaf"
    /\ Vouched(leaf.signedBy, {Vendored} \cup Range(carried))

(* A leaf the pinned files alone chain is accepted whatever the proof carries
   besides, except bytes that are no certificate: no stale or foreign
   intermediate can shadow a vendored one. *)
VendoredIsNotShadowed ==
  /\ chainVerdict = "refused" /\ Parses /\ leaf.signs /\ leaf.kind = "leaf"
  => <<leaf.issuer, leaf.signedBy>> \notin {<<VendoredName, VendoredKey>>, <<RootName, RootKey>>}

(* tpm_intermediates is "carried so a miner whose region (or whose rotated
   intermediate) is not vendored still verifies" (tee/proof.py): an honest
   leaf is accepted when the proof carries, alone, the intermediate that
   issued it and that the root issued. *)
CarriedIntermediateHelps ==
  /\ chainVerdict = "refused" /\ leaf.signs /\ leaf.kind = "leaf" /\ Len(carried) = 1 /\ Parses
  => ~ /\ MayIssue(carried[1])
       /\ carried[1].issuer = RootName /\ carried[1].signedBy = RootKey
       /\ leaf.issuer = carried[1].subject /\ leaf.signedBy = carried[1].key

(* What the walk accepts, and what it may not refuse. *)
ChainSafety == ChainTypeOK /\ VerifiedIsVouched /\ VendoredIsNotShadowed

=============================================================================

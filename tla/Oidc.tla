---------------------------------- MODULE Oidc ----------------------------------
(***************************************************************************)
(* GenericOidcIdentityProvider.exchangeCode and verifyIdToken: which       *)
(* identities a login with a state may come back with.  The token endpoint *)
(* is not believed: any token may be in its reply that the issuer, or      *)
(* somebody else, has signed, for this client or another, for this login   *)
(* or another.                                                             *)
(***************************************************************************)
EXTENDS PkceStore, FiniteSets

CONSTANTS
  Externals,      \* (issuer, subject) pairs of the configured issuer
  Authenticated,  \* <<s, e>>: e logged in at the issuer on the URL of state s
  IssuerKeys,     \* the key pairs of the issuer, retired ones included
  Kids,           \* key ids
  Served          \* the key sets that the JWKS endpoint may answer with

ASSUME OidcAssumption ==
  /\ None \notin Externals /\ None \notin IssuerKeys /\ None \notin Kids
  /\ Authenticated \subseteq (1..MaxStates) \X Externals
  /\ \A jwks \in Served : jwks \in Seq([kid : Kids \cup {None}, key : IssuerKeys])

\* header, claims and the key of the signature, None for one that is not the
\* issuer's.  ours, forUs and live: what iss, aud and exp say.
IdToken == [ext : Externals, nonce : 0..MaxStates, ours : BOOLEAN, forUs : BOOLEAN,
            live : BOOLEAN, key : IssuerKeys \cup {None},
            kid : Kids \cup {None}, rs256 : BOOLEAN]

\* What the issuer puts its name to: a token for this client says who logged in,
\* with the nonce of the URL.  It signs for other clients, and with the same keys
\* in the name of other tenants.
Vouched(t) ==
  t.key # None /\ t.ours /\ t.forUs => <<t.nonce, t.ext>> \in Authenticated

\* pickKey: the first key of that id, or else the first key; it throws without any.
PickKey(jwks, kid, i) ==
  LET named == {j \in DOMAIN jwks : kid # None /\ jwks[j].kid = kid}
  IN  IF named = {} THEN i = 1 ELSE i \in named /\ \A j \in named : i <= j

SignatureValid(t, jwks) ==
  \E i \in DOMAIN jwks : PickKey(jwks, t.kid, i) /\ jwks[i].key = t.key

AnyNonce(t, s) == TRUE

\* The nonce of a login is its state's: beginLogin makes one for every state.
NonceMatches(t, s) == t.nonce = s

\* verifyIdToken returns the claims.
Verified(t, jwks, s) ==
  /\ t.rs256
  /\ SignatureValid(t, jwks)
  /\ t.ours /\ t.forUs /\ t.live
  /\ NonceMatches(t, s)

\* exchangeCode of a login with state s may return e; otherwise it throws.
Identified ==
  UNION {{<<s, t.ext>> : t \in {u \in IdToken :
           Vouched(u) /\ \E jwks \in Served : Verified(u, jwks, s)}} : s \in 1..MaxStates}
=============================================================================

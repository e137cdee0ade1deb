------------------------------- MODULE Tokens -------------------------------
(***************************************************************************)
(* JWTs in compact form, which have one header, as the code that inspects, *)
(* signs and validates them sees them.  A key is named by its key ID, and  *)
(* a subject is the trust domain of its SPIFFE ID, or NoSpiffeID.          *)
(***************************************************************************)
EXTENDS Integers, Sequences, FiniteSets

CONSTANT Unset     \* a header or a claim that is not there

NoSpiffeID == "no SPIFFE ID"

ASSUME UnsetAssumption == Unset \notin {"JWT", "JOSE", NoSpiffeID}

\* One algorithm stands for the three key lengths of its family.
SvidSignatureAlgorithms == {"RS256", "ES256", "PS256"}
AllSignatureAlgorithms == SvidSignatureAlgorithms \cup {"EdDSA", "HS256"}

\* claims.Validate allows this many minutes of difference between two clocks: exp, nbf
\* and iat are minutes, or not there.
Leeway == 1

\* jose.Header.ExtraHeaders, in which go-jose keeps typ: nil when it is empty.
HasExtraHeaders(tok) == tok.typ # Unset \/ tok.extra

DeserializeJwt(tok) == tok.alg \in AllSignatureAlgorithms

\* Mutant: the audience is not looked at.
IsSvid_anyAudience(tok) ==
  /\ tok.alg \in SvidSignatureAlgorithms
  /\ HasExtraHeaders(tok) /\ tok.typ \in {"JWT", "JOSE", Unset}
  /\ tok.sub \notin {Unset, NoSpiffeID}
  /\ tok.exp # Unset

\* A token with no typ passes if it has another extra header, and not else.
IsSvid(tok) ==
  /\ tok.alg \in SvidSignatureAlgorithms
  /\ HasExtraHeaders(tok) /\ tok.typ \in {"JWT", "JOSE", Unset}
  /\ tok.sub \notin {Unset, NoSpiffeID}
  /\ tok.aud # {}
  /\ tok.exp # Unset

Signed(tok, keys) == tok.by = tok.kid /\ <<tok.sub, tok.kid>> \in keys
InTime(tok, now) ==
  /\ tok.exp # Unset => now <= tok.exp[1] + Leeway
  /\ \A t \in {tok.nbf, tok.iat} \ {Unset} : t[1] <= now + Leeway

\* keys: the <<trust domain, key ID>> of the bundles; every audience must be there.
ValidateToken(tok, keys, audience, now) ==
  /\ tok.alg \in SvidSignatureAlgorithms
  /\ tok.kid # Unset
  /\ tok.sub \notin {Unset, NoSpiffeID}
  /\ Signed(tok, keys)
  /\ audience \subseteq tok.aud
  /\ InTime(tok, now)

\* go-spiffe's jwtsvid.ParseAndValidate: one of the audiences, and an expiry.
ParseAndValidate(tok, keys, audience, now) ==
  /\ ValidateToken(tok, keys, {}, now)
  /\ tok.exp # Unset
  /\ audience \cap tok.aud # {}

PruneEmptyValues(values) == {v \in values : v # ""}

\* The tokens Signer.SignToken may return at now: none when a parameter is missing.
SignToken(sub, audience, expires, kid, now) ==
  {tok \in {[alg |-> alg, typ |-> "JWT", extra |-> FALSE, kid |-> kid, sub |-> sub,
             aud |-> PruneEmptyValues(audience), exp |-> expires, nbf |-> Unset,
             iat |-> <<now>>, by |-> kid] :
              alg \in SvidSignatureAlgorithms} :
     sub # Unset /\ expires # Unset /\ tok.aud # {} /\ kid # Unset}

=============================================================================

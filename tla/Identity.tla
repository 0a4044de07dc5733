------------------------------- MODULE Identity -------------------------------
(***************************************************************************)
(* internal/oidc without its key set: what makes a credential a token, the *)
(* algorithms accepted, the provider's key document, the signature check   *)
(* and the claims that name a tenant.                                      *)
(*                                                                         *)
(* A credential is <<"none">>, <<"key", text>> or <<"jwt", token>>.  Time  *)
(* is counted from now: a token's exp and nbf are offsets, NoTime when the *)
(* claim is absent or unreadable.                                          *)
(***************************************************************************)
EXTENDS Integers, SequencesExt

CONSTANTS NoTime, Refused

DefaultSkew == 1

(* The allow list, with the kind of key each algorithm is checked with.    *)
Algorithms == [RS256 |-> "RSA", PS256 |-> "RSA", ES256 |-> "EC",
               RS384 |-> "RSA", PS384 |-> "RSA", ES384 |-> "EC",
               RS512 |-> "RSA", PS512 |-> "RSA", ES512 |-> "EC"]

LooksLikeJWT(credential) == credential[1] = "jwt"

(* Everything that is decided before a key is looked up.                   *)
Readable(token) == token.readable /\ token.alg \in DOMAIN Algorithms

(* parseJWKS: entries for another use, of another type or that do not      *)
(* decode are passed over; of two with one kid the later one stays.        *)
Usable(jwk) == jwk.use \in {"", "sig"} /\ jwk.kty \in {"RSA", "EC"} /\ jwk.decodes

ParseJWKS(doc) ==
    LET usable == SelectSeq(doc, Usable)
    IN  [kid \in {usable[i].kid : i \in DOMAIN usable} |->
            usable[SelectLastInSeq(usable, LAMBDA jwk : jwk.kid = kid)]]

(* The key's type must be the algorithm's, and the key the signer's.       *)
VerifySignature(token, key) ==
    Algorithms[token.alg] = key.kty /\ token.signer = key.material

Current(token) ==
    /\ token.exp # NoTime /\ ~(0 > token.exp + DefaultSkew)
    /\ token.nbf = NoTime \/ ~(DefaultSkew < token.nbf)

(* The first value of the claim that the map names gives the tenant.       *)
TenantOf(token, map) ==
    LET at == SelectInSeq(token.groups, LAMBDA g : g \in DOMAIN map)
    IN  IF at = 0 THEN Refused ELSE map[token.groups[at]]

Claims(token, oidc) ==
    IF /\ token.iss = oidc.issuer
       /\ oidc.audience \in ToSet(token.aud)
       /\ Current(token)
    THEN TenantOf(token, oidc.map)
    ELSE Refused

(* Verify once a key is in hand.                                           *)
Judge(token, key, oidc) ==
    IF VerifySignature(token, key) THEN Claims(token, oidc) ELSE Refused
=============================================================================

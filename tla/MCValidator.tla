------------------------------ MODULE MCValidator ------------------------------
(***************************************************************************)
(* Instances of Validator: two issuers, each the owner of one kid, and     *)
(* tokens that differ from an acceptable one in a single respect.          *)
(***************************************************************************)
EXTENDS Validator, TLC

CONSTANTS
  i1, i2, k1, k2, aud1, j1, j2, rs256, es256,
  key1a, key1b, key2, noise,   \* noise: bytes that verify no signature
  c1, c2, c3

MCIssuersOf == [k \in {k1, k2} |-> IF k = k1 THEN {i1} ELSE {i2}]

\* Keys that never change; a key that is rotated and revoked beside one that
\* is not; a keyserver that may answer with noise.
StaticKeys   == [k \in {k1, k2} |-> IF k = k1 THEN {key1a} ELSE {key2}]
RotatingKeys == [k \in {k1, k2} |-> IF k = k1 THEN {key1a, key1b, None} ELSE {key2}]
NoisyKeys    == [k \in {k1, k2} |-> IF k = k1 THEN {key1a, noise, None} ELSE {key2}]

GoodClaims ==
  [iss |-> i1, sub |-> None, aud |-> {aud1}, jti |-> j1, iat |-> 0, exp |-> 2, nbf |-> None]

Good ==
  [header |-> "ok", kid |-> k1, alg |-> rs256, signer |-> key1a, claims |-> GoodClaims]

OtherNonce   == [Good EXCEPT !.claims.jti = j2]
OtherIssuer  == [Good EXCEPT !.kid = k2, !.signer = key2, !.claims.iss = i2]
NewKey       == [Good EXCEPT !.signer = key1b]
Forged       == [Good EXCEPT !.signer = key2]
ForeignKid   == [Good EXCEPT !.kid = k2, !.signer = key2]
ShortLived   == [Good EXCEPT !.claims.exp = 0]
WrongAud     == [Good EXCEPT !.claims.aud = {}]
WrongAlg     == [Good EXCEPT !.alg = es256]
NoKid        == [Good EXCEPT !.kid = None]
NoBody       == [Good EXCEPT !.claims = None]
Malformed    == [Good EXCEPT !.header = "malformed"]

\* Nonces shared by good, differently issued, forged and finally rejected tokens.
NonceTokens == {Good, OtherNonce, OtherIssuer, Forged, ForeignKid, WrongAud}

\* Two generations of one key, another issuer's, and a genuine token that is
\* rejected; without a fetch of its generation a token is as good as forged.
KeyTokens == {Good, NewKey, OtherIssuer, WrongAud}

\* Every way through decode.
AllTokens ==
  NonceTokens \cup {ShortLived, WrongAlg, NoKid, NoBody, Malformed}

NoList == { {} }

AnyCall == Permutations(Calls)
===============================================================================

------------------------------ MODULE ClaimsCodec ------------------------------
(***************************************************************************)
(* The claims of a token in their three forms: the struct a client fills   *)
(* in (claims::Claims), the JSON object that is signed and sent, and what  *)
(* `validate` extracts from that object.                                   *)
(*                                                                         *)
(* A JSON object is a function from names to values; a value is a pair of  *)
(* its type and its content.  Aud is an untagged enum, so it is its own    *)
(* JSON: a string for One, an array for Many.  Arrays are those of strings *)
(* and are sets of them, since nothing depends on their order.             *)
(***************************************************************************)
EXTENDS TokenRules

String(s)   == <<"string", s>>
Number(n)   == <<"number", n>>
Array(list) == <<"array", list>>
Other       == <<"other", "">>   \* null, a Boolean, an object, a fraction, ...

Content(json)  == json[2]
IsString(json) == json[1] = "string"
IsI64(json)    == json[1] = "number" /\ json[2] \in I64
IsArray(json)  == json[1] = "array"

REQUIRED_CLAIMS == {"aud", "iss", "jti", "iat", "exp"}

Without(object, names) == [n \in DOMAIN object \ names |-> object[n]]

\* A HashMap of claims as an Option: an empty one is deserialised as None.
AsExtra(object) == IF DOMAIN object = {} THEN None ELSE object
ExtraOf(c)      == IF c.extra = None THEN [n \in {} |-> Other] ELSE c.extra

\* The fields that Serialize writes for itself.
RequiredOf(c) ==
  [ aud |-> c.aud, iss |-> String(c.iss), jti |-> String(c.jti),
    iat |-> Number(c.iat), exp |-> Number(c.exp) ]

Over(upper, lower) ==
  [n \in DOMAIN upper \cup DOMAIN lower |-> IF n \in DOMAIN upper THEN upper[n] ELSE lower[n]]

\* Claims::serialize, extra claims flattened; ser_extra_claims skips those with
\* the names of required ones.  Mutant: it does not, and the last entry wins.
EncodedExtrasLast(c) == Over(ExtraOf(c), RequiredOf(c))
Encoded(c) == Over(RequiredOf(c), Without(ExtraOf(c), REQUIRED_CLAIMS))

\* Claims::deserialize accepts the object.
Decodes(wire) ==
  /\ REQUIRED_CLAIMS \subseteq DOMAIN wire
  /\ IsString(wire["aud"]) \/ IsArray(wire["aud"])
  /\ IsString(wire["iss"]) /\ IsString(wire["jti"])
  /\ IsI64(wire["iat"]) /\ IsI64(wire["exp"])

\* What it returns; de_extra_claims takes what the fields leave over.  Mutant:
\* nothing is flattened.
DecodedRequiredOnly(wire) ==
  [ aud |-> wire["aud"], iss |-> Content(wire["iss"]), jti |-> Content(wire["jti"]),
    iat |-> Content(wire["iat"]), exp |-> Content(wire["exp"]), extra |-> None ]

Decoded(wire) ==
  [ aud |-> wire["aud"], iss |-> Content(wire["iss"]), jti |-> Content(wire["jti"]),
    iat |-> Content(wire["iat"]), exp |-> Content(wire["exp"]),
    extra |-> AsExtra(Without(wire, REQUIRED_CLAIMS)) ]

\* Claims::cache_key; json! of None is null.  Mutant: extra claims are left out.
cache_keyNoExtra(c) == [aud |-> c.aud, iss |-> c.iss, iat |-> c.iat, exp |-> c.exp]
cache_key(c) == [aud |-> c.aud, iss |-> c.iss, iat |-> c.iat, exp |-> c.exp, extra |-> c.extra]

-------------------------------------------------------------------------------
\* extract_claim::<String> and ::<i64>, None where they fail; `validate` gives
\* `sub` and `nbf` a default then.
extract_string(wire, name) ==
  IF name \in DOMAIN wire /\ IsString(wire[name]) THEN Content(wire[name]) ELSE None
extract_i64(wire, name) ==
  IF name \in DOMAIN wire /\ IsI64(wire[name]) THEN Content(wire[name]) ELSE None

AudienceList(aud) == IF IsArray(aud) THEN Content(aud) ELSE {Content(aud)}
extract_aud_from_claims(wire) == AudienceList(wire["aud"])

\* The claims of TokenRules, as `validate` extracts them.
Extracted(wire) ==
  [ iss |-> extract_string(wire, "iss"),
    sub |-> extract_string(wire, "sub"),
    aud |-> extract_aud_from_claims(wire),
    jti |-> extract_string(wire, "jti"),
    iat |-> extract_i64(wire, "iat"),
    exp |-> extract_i64(wire, "exp"),
    nbf |-> extract_i64(wire, "nbf") ]
===============================================================================

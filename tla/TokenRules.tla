------------------------------ MODULE TokenRules ------------------------------
(***************************************************************************)
(* The stateless half of GenericValidator::validate: the checks that turn  *)
(* a key id, a set of claims, a whitelist and the current second into a    *)
(* verdict.  asap/src/validator.rs evaluates them in a fixed order and     *)
(* returns at the first one that fails; the duplicate-jti check, which     *)
(* reads and writes shared state, belongs to module Validator.             *)
(*                                                                         *)
(* Strings are members of small sets.  Of a `kid` only one thing matters,  *)
(* for which issuers it starts with "$iss/" (with nested issuer names more *)
(* than one may qualify): that is the constant IssuersOf.                  *)
(***************************************************************************)
EXTENDS Int64

CONSTANTS
  Issuers,                  \* strings that appear as `iss` or `sub`
  Audiences,                \* strings that appear in `aud`
  Jtis,                     \* token nonces
  Kids,                     \* key ids
  IssuersOf,                \* IssuersOf[kid]: { iss : kid.starts_with(iss + "/") }
  None,                     \* the absent Option
  resource_server_audience,
  validate_kid,
  leeway,
  DEFAULT_MAX_LIFESPAN,
  configured_max_lifespan   \* the argument of Builder::max_lifespan, or None

ASSUME RulesAssumption ==
  /\ IssuersOf \in [Kids -> SUBSET Issuers]
  /\ validate_kid \in BOOLEAN
  /\ leeway \in I64
  /\ DEFAULT_MAX_LIFESPAN \in I64
  /\ configured_max_lifespan \in I64 \cup {None}
  /\ None \notin Issuers /\ None \notin Int

(***************************************************************************)
(* The decoded claims.  `nbf` and `sub` travel as extra claims: a value of *)
(* the wrong JSON type fails extract_claim and is then treated exactly     *)
(* like an absent one, so None stands for both.                            *)
(***************************************************************************)
Claims ==
  [ iss : Issuers, sub : Issuers \cup {None}, aud : SUBSET Audiences,
    jti : Jtis, iat : I64, exp : I64, nbf : I64 \cup {None} ]

\* An Option as the set of its value: {list} is the Some(list) of `decode`, {}
\* the None of `decode_without_whitelist`.
Whitelist == { {list} : list \in SUBSET Issuers } \cup { {} }

\* The limit that was asked for; Builder::build clamps a negative one to zero.
\* Mutant: it also cuts off what is above the default, as the comment on the
\* builder's field says.
RequestedLifespan ==
  IF configured_max_lifespan = None THEN DEFAULT_MAX_LIFESPAN ELSE configured_max_lifespan

max_lifespanCapped ==
  IF RequestedLifespan \in 0 .. DEFAULT_MAX_LIFESPAN THEN RequestedLifespan
  ELSE IF RequestedLifespan > 0 THEN DEFAULT_MAX_LIFESPAN ELSE 0
max_lifespan == IF RequestedLifespan > 0 THEN RequestedLifespan ELSE 0

\* A missing nbf defaults to iat.  Mutant: it defaults to the epoch.
NotBeforeEpoch(c) == IF c.nbf = None THEN 0 ELSE c.nbf
NotBefore(c) == IF c.nbf = None THEN c.iat ELSE c.nbf

\* A missing sub defaults to iss.
Subject(c) == IF c.sub = None THEN c.iss ELSE c.sub

Verdicts ==
  { "Ok", "InvalidKID", "ImmatureSignature", "ExpiredSignature",
    "InvalidLifespan", "UnrecognisedAudience", "UnauthorizedSubject", "panic" }

\* Mutant: the lifespan is measured from nbf instead of iat.
LifespanFromNotBefore(c) == c.exp - NotBefore(c)
Lifespan(c) == c.exp - c.iat

\* Mutant: leeway shortens the end of the window instead of extending it.
ExpiredEarly(c, now) == c.exp < Wrap(now + leeway)
Expired(c, now)      == c.exp < Wrap(now - leeway)

Verdict(kid, c, wl, now) ==
  IF validate_kid /\ c.iss \notin IssuersOf[kid] THEN "InvalidKID"
  ELSE IF Panics(now + leeway) THEN "panic"
  ELSE IF NotBefore(c) > Wrap(now + leeway) THEN "ImmatureSignature"
  ELSE IF Panics(now - leeway) THEN "panic"
  ELSE IF Expired(c, now) THEN "ExpiredSignature"
  ELSE IF Panics(Lifespan(c)) THEN "panic"
  ELSE IF Wrap(Lifespan(c)) > max_lifespan THEN "InvalidLifespan"
  ELSE IF resource_server_audience \notin c.aud THEN "UnrecognisedAudience"
  ELSE IF \E list \in wl : Subject(c) \notin list THEN "UnauthorizedSubject"
  ELSE "Ok"

-------------------------------------------------------------------------------
\* Every sum the checks compute fits in an i64.
NoOverflow(c, now) == {now + leeway, now - leeway, Lifespan(c)} \subseteq I64

(***************************************************************************)
(* The policy the ASAP quotations in `validate` describe, with exact       *)
(* arithmetic and no order between the rules.                              *)
(***************************************************************************)
Conforms(kid, c, wl, now) ==
  /\ validate_kid => c.iss \in IssuersOf[kid]
  /\ c.nbf # None => c.nbf - leeway <= now
  /\ c.nbf = None => c.iat - leeway <= now
  /\ now <= c.exp + leeway
  /\ c.exp - c.iat <= max_lifespan
  /\ resource_server_audience \in c.aud
  /\ \A list \in wl : Subject(c) \in list
===============================================================================

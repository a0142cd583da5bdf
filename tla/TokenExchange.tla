----------------------------- MODULE TokenExchange -----------------------------
(***************************************************************************)
(* A client that makes tokens with ClaimsBuilder and a server that checks  *)
(* them, each with its own clock.  A token in flight may be presented at   *)
(* any time and any number of times, so what the server says of it is a    *)
(* function of the server's clock.  Signatures, keys and nonces are the    *)
(* business of module Validator; other issuers sign any JSON they like.    *)
(***************************************************************************)
EXTENDS ClaimsCodec, FiniteSets

CONSTANTS
  client_iss, client_kid,   \* the arguments of Generator::new
  Auds, Extras,             \* the arguments of `token`
  Lifespans,                \* the arguments of set_max_lifespan
  ForeignWires,             \* objects signed by other implementations
  whitelist,                \* the server's whitelisted_issuers
  DEFAULT_TOKEN_LIFESPAN,
  MaxClock,                 \* bound on both clocks
  MaxTokens                 \* bound on the tokens in flight

IsObject(json) == json = [n \in DOMAIN json |-> <<json[n][1], json[n][2]>>]

ASSUME ExchangeAssumption ==
  /\ client_iss \in Issuers /\ client_kid \in Kids
  /\ Auds \subseteq { String(a) : a \in Audiences } \cup { Array(list) : list \in SUBSET Audiences }
  /\ \A extra \in Extras \ {None} : IsObject(extra)
  /\ \A wire \in ForeignWires : IsObject(wire) /\ Without(wire, REQUIRED_CLAIMS) # None
  /\ \A extra \in Extras \ {None} : Without(extra, REQUIRED_CLAIMS) # None
  /\ Lifespans \subseteq I64 /\ DEFAULT_TOKEN_LIFESPAN \in I64
  /\ whitelist \in Whitelist
  /\ MaxClock \in Nat \cap I64 /\ MaxTokens \in Nat

VARIABLES
  client_clock,   \* the client's second
  server_clock,   \* the server's second
  lifespan,       \* ClaimsBuilder.lifespan
  sent            \* the tokens in flight: the object signed, and the claims
                  \* the client built it from, None for a foreign one

vars == <<client_clock, server_clock, lifespan, sent>>

Own == { t \in sent : t.claims # None }

Init ==
  /\ client_clock = 0 /\ server_clock = 0
  /\ lifespan = DEFAULT_TOKEN_LIFESPAN
  /\ sent = {}

\* ClaimsBuilder::build; generate_jti draws any nonce.  Mutant: the two times are
\* swapped.
BuiltSwapped(aud, extra, jti) ==
  [ aud |-> aud, iss |-> client_iss, jti |-> jti, iat |-> Wrap(client_clock + lifespan),
    exp |-> client_clock, extra |-> extra ]

Built(aud, extra, jti) ==
  [ aud |-> aud, iss |-> client_iss, jti |-> jti, iat |-> client_clock,
    exp |-> Wrap(client_clock + lifespan), extra |-> extra ]

\* Generator::token; it panics when the expiry overflows.
Token(aud, extra, jti) ==
  /\ Cardinality(sent) < MaxTokens
  /\ ~Panics(client_clock + lifespan)
  /\ sent' = sent \cup { [ claims |-> Built(aud, extra, jti),
                           wire   |-> Encoded(Built(aud, extra, jti)) ] }
  /\ UNCHANGED <<client_clock, server_clock, lifespan>>

ForeignToken(wire) ==
  /\ Cardinality(sent) < MaxTokens
  /\ sent' = sent \cup { [claims |-> None, wire |-> wire] }
  /\ UNCHANGED <<client_clock, server_clock, lifespan>>

set_max_lifespan(seconds) ==
  /\ lifespan' = seconds
  /\ UNCHANGED <<client_clock, server_clock, sent>>

ClientTick ==
  /\ client_clock < MaxClock
  /\ client_clock' = client_clock + 1
  /\ UNCHANGED <<server_clock, lifespan, sent>>

ServerTick ==
  /\ server_clock < MaxClock
  /\ server_clock' = server_clock + 1
  /\ UNCHANGED <<client_clock, lifespan, sent>>

Next ==
  \/ \E aud \in Auds, extra \in Extras, jti \in Jtis : Token(aud, extra, jti)
  \/ \E wire \in ForeignWires : ForeignToken(wire)
  \/ \E seconds \in Lifespans : set_max_lifespan(seconds)
  \/ ClientTick \/ ServerTick

Spec == Init /\ [][Next]_vars

\* decode_optwl on a genuine token: the claims are deserialised, serialised
\* again, and the result is validated.
Outcome(wire, kid) ==
  IF Decodes(wire)
    THEN Verdict(kid, Extracted(Encoded(Decoded(wire))), whitelist, server_clock)
    ELSE "InvalidClaims"

-------------------------------------------------------------------------------
TypeOK ==
  /\ client_clock \in 0 .. MaxClock /\ server_clock \in 0 .. MaxClock /\ lifespan \in I64
  /\ \A t \in sent :
       \/ t.claims = None /\ t.wire \in ForeignWires
       \/ /\ t.claims \in [ aud : Auds, iss : {client_iss}, jti : Jtis, iat : 0 .. client_clock,
                            exp : I64, extra : Extras ]
          /\ t.wire = Encoded(t.claims)

(***************************************************************************)
(* "Note that overriding the required ASAP claims will have no effect"     *)
(* (claims.rs 17): the server reads every token the client made, and finds *)
(* the claims the client built, without the extra ones that bear the names *)
(* of required ones (claims.rs 96-123).                                    *)
(***************************************************************************)
ReceivedAsSent ==
  \A t \in Own :
    /\ Decodes(t.wire)
    /\ Decoded(t.wire) =
         [t.claims EXCEPT !.extra = AsExtra(Without(ExtraOf(t.claims), REQUIRED_CLAIMS))]

(***************************************************************************)
(* The claims are checked on a copy that was deserialised and serialised   *)
(* again, "this messy serialise-deserialise hack" (validator.rs 525-533):  *)
(* whoever signed the token, the copy is what was signed, so no extra      *)
(* claim that a check reads is lost, and no required one is added.         *)
(***************************************************************************)
CheckedAsSigned ==
  \A t \in sent : Decodes(t.wire) => Encoded(Decoded(t.wire)) = t.wire

(***************************************************************************)
(* Tokens that share a cache key are the same but for the nonce, so a      *)
(* generator may hand out one for the other (claims.rs 126-135).           *)
(***************************************************************************)
OneKeyOneToken ==
  \A s, t \in Own :
    cache_key(s.claims) = cache_key(t.claims) =>
      Without(s.wire, {"jti"}) = Without(t.wire, {"jti"})

\* The client may expect the server to accept the token t right now.
Honest(t) ==
  /\ t \in Own
  /\ validate_kid => client_iss \in IssuersOf[client_kid]
  /\ t.claims.exp - t.claims.iat <= max_lifespan
  /\ resource_server_audience \in AudienceList(t.claims.aud)
  /\ \A list \in whitelist : client_iss \in list
  /\ {"sub", "nbf"} \cap DOMAIN ExtraOf(t.claims) = {}
  /\ client_clock <= t.claims.exp
  /\ client_clock - server_clock \in -leeway .. leeway
  /\ NoOverflow(t.claims, server_clock)

(***************************************************************************)
(* While a token has not expired by the client's clock and the clocks are  *)
(* no more than the leeway apart, the server accepts it, whatever extra    *)
(* claims it carries besides `sub` and `nbf`: a client needs no margin of  *)
(* its own (claims.rs 162-177, validator.rs 596-607).                      *)
(***************************************************************************)
HonestTokensAccepted ==
  \A t \in sent : Honest(t) => Outcome(t.wire, client_kid) = "Ok"
===============================================================================

-------------------------- MODULE TokenExchangeProofs --------------------------
(***************************************************************************)
(* What a client sends is what a server checks, for any names, claims,     *)
(* clocks and leeway.  The codec is proved about first, object by object;  *)
(* the invariants follow from the types of the tokens in flight.           *)
(***************************************************************************)
EXTENDS TokenExchange, TLAPS

\* The types and contents of the values that occur in claims.
LEMMA ValueFacts ==
  /\ \A s : IsString(String(s)) /\ Content(String(s)) = s
  /\ \A n : Content(Number(n)) = n
  /\ \A n \in I64 : IsI64(Number(n))
BY DEF IsString, IsI64, Content, String, Number

\* The names and values of an encoded object.
LEMMA EncodedFacts ==
  ASSUME NEW c
  PROVE  /\ DOMAIN Encoded(c) = REQUIRED_CLAIMS \cup DOMAIN ExtraOf(c)
         /\ Encoded(c)["aud"] = c.aud
         /\ Encoded(c)["iss"] = String(c.iss) /\ Encoded(c)["jti"] = String(c.jti)
         /\ Encoded(c)["iat"] = Number(c.iat) /\ Encoded(c)["exp"] = Number(c.exp)
         /\ \A n \in DOMAIN ExtraOf(c) \ REQUIRED_CLAIMS : Encoded(c)[n] = ExtraOf(c)[n]
<1> DEFINE required == RequiredOf(c)
           rest     == Without(ExtraOf(c), REQUIRED_CLAIMS)
<1>1. DOMAIN required = REQUIRED_CLAIMS
  BY DEF RequiredOf, REQUIRED_CLAIMS
<1>2. /\ DOMAIN rest = DOMAIN ExtraOf(c) \ REQUIRED_CLAIMS
      /\ \A n \in DOMAIN rest : rest[n] = ExtraOf(c)[n]
  BY DEF Without
<1>3. /\ required["aud"] = c.aud /\ required["iss"] = String(c.iss)
      /\ required["jti"] = String(c.jti) /\ required["iat"] = Number(c.iat)
      /\ required["exp"] = Number(c.exp)
  BY DEF RequiredOf, REQUIRED_CLAIMS
<1>4. REQUIRED_CLAIMS = {"aud", "iss", "jti", "iat", "exp"}
  BY DEF REQUIRED_CLAIMS
<1>5. Encoded(c) = [n \in DOMAIN required \cup DOMAIN rest |->
                      IF n \in DOMAIN required THEN required[n] ELSE rest[n]]
  BY DEF Encoded, Over
<1> HIDE DEF required, rest
<1>6. DOMAIN Encoded(c) = DOMAIN required \cup DOMAIN rest
  BY <1>5
<1>7. \A n \in DOMAIN required : Encoded(c)[n] = required[n]
  BY <1>5
<1>8. \A n \in DOMAIN rest : n \notin DOMAIN required => Encoded(c)[n] = rest[n]
  BY <1>5
<1> QED
  BY <1>1, <1>2, <1>3, <1>4, <1>6, <1>7, <1>8

\* A well-typed set of claims survives the way over the wire.
LEMMA RoundTrip ==
  ASSUME NEW c, IsString(c.aud) \/ IsArray(c.aud), c.iat \in I64, c.exp \in I64
  PROVE  /\ Decodes(Encoded(c))
         /\ Decoded(Encoded(c)) =
              [ aud |-> c.aud, iss |-> c.iss, jti |-> c.jti, iat |-> c.iat, exp |-> c.exp,
                extra |-> AsExtra(Without(ExtraOf(c), REQUIRED_CLAIMS)) ]
<1>1. Decodes(Encoded(c))
  <2> DEFINE wire == Encoded(c)
  <2>1. /\ REQUIRED_CLAIMS \subseteq DOMAIN wire
        /\ IsString(wire["aud"]) \/ IsArray(wire["aud"])
    BY EncodedFacts
  <2>2. IsString(wire["iss"]) /\ IsString(wire["jti"])
    BY EncodedFacts, ValueFacts
  <2>3. IsI64(wire["iat"]) /\ IsI64(wire["exp"])
    BY EncodedFacts, ValueFacts
  <2> QED BY <2>1, <2>2, <2>3 DEF Decodes
<1>2. Without(Encoded(c), REQUIRED_CLAIMS) = Without(ExtraOf(c), REQUIRED_CLAIMS)
  <2>1. DOMAIN Encoded(c) \ REQUIRED_CLAIMS = DOMAIN ExtraOf(c) \ REQUIRED_CLAIMS
    BY EncodedFacts
  <2> QED BY <2>1, EncodedFacts DEF Without
<1> QED
  BY <1>1, <1>2, EncodedFacts, ValueFacts DEF Decoded

\* Claims are serialised alike when their extra ones differ in required names only.
LEMMA EncodedAlike ==
  ASSUME NEW c, NEW d,
         d.aud = c.aud, d.iss = c.iss, d.jti = c.jti, d.iat = c.iat, d.exp = c.exp,
         Without(ExtraOf(d), REQUIRED_CLAIMS) = Without(ExtraOf(c), REQUIRED_CLAIMS)
  PROVE  Encoded(d) = Encoded(c)
<1>1. RequiredOf(d) = RequiredOf(c)
  BY DEF RequiredOf
<1> QED BY <1>1 DEF Encoded

\* An object that decodes is serialised again as it was.
LEMMA Reserialised ==
  ASSUME NEW wire, IsObject(wire), Decodes(wire), Without(wire, REQUIRED_CLAIMS) # None
  PROVE  Encoded(Decoded(wire)) = wire
<1> DEFINE d    == Decoded(wire)
           rest == Without(wire, REQUIRED_CLAIMS)
<1>1. /\ d.aud = wire["aud"] /\ d.extra = AsExtra(rest)
      /\ String(d.iss) = <<"string", Content(wire["iss"])>>
      /\ String(d.jti) = <<"string", Content(wire["jti"])>>
      /\ Number(d.iat) = <<"number", Content(wire["iat"])>>
      /\ Number(d.exp) = <<"number", Content(wire["exp"])>>
  BY DEF Decoded, String, Number
<1>2. DOMAIN rest = DOMAIN wire \ REQUIRED_CLAIMS /\ \A n \in DOMAIN rest : rest[n] = wire[n]
  BY DEF Without
<1>3. DOMAIN ExtraOf(d) = DOMAIN rest /\ \A n \in DOMAIN rest : ExtraOf(d)[n] = rest[n]
  BY <1>1, <1>2 DEF ExtraOf, AsExtra
<1>4. DOMAIN Encoded(d) = DOMAIN wire
  BY <1>2, <1>3, EncodedFacts DEF Decodes
<1>5. ASSUME NEW n \in DOMAIN wire PROVE Encoded(d)[n] = wire[n]
  <2>1. wire[n] = <<wire[n][1], wire[n][2]>>
    BY DEF IsObject
  <2>2. CASE n \in REQUIRED_CLAIMS
    <3>1. n \in {"aud", "iss", "jti", "iat", "exp"}
      BY <2>2 DEF REQUIRED_CLAIMS
    <3>2. wire[n] = <<wire[n][1], Content(wire[n])>>
      BY <2>1 DEF Content
    <3>3. CASE n = "aud"
      BY <1>1, <3>3, EncodedFacts
    <3>4. CASE n \in {"iss", "jti"}
      <4>1. Encoded(d)[n] = <<"string", Content(wire[n])>>
        <5> HIDE DEF d
        <5> QED BY <1>1, <3>4, EncodedFacts
      <4>2. wire[n][1] = "string"
        BY <3>4 DEF Decodes, IsString
      <4> QED BY <3>2, <4>1, <4>2
    <3>5. CASE n \in {"iat", "exp"}
      <4>1. Encoded(d)[n] = <<"number", Content(wire[n])>>
        <5> HIDE DEF d
        <5> QED BY <1>1, <3>5, EncodedFacts
      <4>2. wire[n][1] = "number"
        BY <3>5 DEF Decodes, IsI64
      <4> QED BY <3>2, <4>1, <4>2
    <3> QED BY <3>1, <3>3, <3>4, <3>5
  <2>3. CASE n \notin REQUIRED_CLAIMS
    <3> HIDE DEF d
    <3> QED BY <2>3, <1>2, <1>3, EncodedFacts
  <2> QED BY <2>2, <2>3
<1>6. Encoded(d) = [n \in DOMAIN wire |-> Encoded(d)[n]]
  <2> HIDE DEF d
  <2> QED BY <1>4 DEF Encoded, Over
<1>7. wire = [n \in DOMAIN wire |-> wire[n]]
  BY DEF IsObject
<1> QED BY <1>5, <1>6, <1>7

-------------------------------------------------------------------------------
(***************************************************************************)
(* Types: the tokens in flight are foreign ones or encodings of claims the *)
(* client built at a second that has passed (claims.rs 162-177).           *)
(***************************************************************************)
THEOREM TypeCorrect == Spec => []TypeOK
<1> USE ExchangeAssumption
<1>1. Init => TypeOK
  BY DEF Init, TypeOK
<1>2. TypeOK /\ [Next]_vars => TypeOK'
  <2> SUFFICES ASSUME TypeOK, [Next]_vars PROVE TypeOK'
    OBVIOUS
  <2>1. ASSUME NEW aud \in Auds, NEW extra \in Extras, NEW jti \in Jtis, Token(aud, extra, jti)
        PROVE  TypeOK'
    <3> DEFINE c == Built(aud, extra, jti)
    <3>1. Wrap(client_clock + lifespan) \in I64
      BY Int64Assumption DEF TypeOK, Wrap, I64
    <3>2. c \in [ aud : Auds, iss : {client_iss}, jti : Jtis, iat : 0 .. client_clock,
                  exp : I64, extra : Extras ]
      BY <3>1 DEF Built, TypeOK
    <3> HIDE DEF c
    <3>3. sent' = sent \cup {[claims |-> c, wire |-> Encoded(c)]}
      BY <2>1 DEF Token, c
    <3> QED BY <2>1, <3>2, <3>3 DEF Token, TypeOK
  <2>2. ASSUME NEW wire \in ForeignWires, ForeignToken(wire) PROVE TypeOK'
    BY <2>2 DEF ForeignToken, TypeOK
  <2>3. ASSUME NEW seconds \in Lifespans, set_max_lifespan(seconds) PROVE TypeOK'
    BY <2>3 DEF set_max_lifespan, TypeOK
  <2>4. CASE ClientTick
    <3>1. client_clock' \in 0 .. MaxClock /\ 0 .. client_clock \subseteq 0 .. client_clock'
      BY <2>4 DEF ClientTick, TypeOK
    <3> QED BY <2>4, <3>1 DEF ClientTick, TypeOK
  <2>5. CASE ServerTick
    BY <2>5 DEF ServerTick, TypeOK
  <2>6. CASE UNCHANGED vars
    BY <2>6 DEF vars, TypeOK
  <2> QED BY <2>1, <2>2, <2>3, <2>4, <2>5, <2>6 DEF Next
<1> QED BY <1>1, <1>2, PTL DEF Spec

ClientClaims ==
  [ aud : Auds, iss : {client_iss}, jti : Jtis, iat : 0 .. client_clock, exp : I64, extra : Extras ]

\* What the types say of the claims of a client.
LEMMA OwnFields ==
  ASSUME TypeOK, NEW c \in ClientClaims
  PROVE  /\ c.iss = client_iss /\ (IsString(c.aud) \/ IsArray(c.aud))
         /\ c.iat \in I64 /\ c.iat <= client_clock /\ c.exp \in I64 /\ c.extra \in Extras
         /\ c = [ aud |-> c.aud, iss |-> c.iss, jti |-> c.jti, iat |-> c.iat, exp |-> c.exp,
                  extra |-> c.extra ]
<1>1. 0 .. client_clock \subseteq I64
  BY ExchangeAssumption, Int64Assumption DEF TypeOK, I64
<1>2. \A aud \in Auds : IsString(aud) \/ IsArray(aud)
  BY ExchangeAssumption DEF IsString, IsArray, String, Array
<1> QED BY <1>1, <1>2 DEF ClientClaims

LEMMA OwnToken ==
  ASSUME TypeOK, NEW t \in Own
  PROVE  t.claims \in ClientClaims /\ t.wire = Encoded(t.claims)
BY DEF TypeOK, Own, ClientClaims

(***************************************************************************)
(* Extra claims never override required ones (claims.rs 17, 107-123).      *)
(***************************************************************************)
THEOREM ClaimsArrive == Spec => []ReceivedAsSent
<1>1. TypeOK => ReceivedAsSent
  <2> SUFFICES ASSUME TypeOK, NEW t \in Own
               PROVE  /\ Decodes(t.wire)
                      /\ Decoded(t.wire) = [t.claims EXCEPT !.extra =
                            AsExtra(Without(ExtraOf(t.claims), REQUIRED_CLAIMS))]
    BY DEF ReceivedAsSent
  <2> DEFINE c == t.claims
             extra == AsExtra(Without(ExtraOf(c), REQUIRED_CLAIMS))
  <2>1. Decodes(t.wire) /\ Decoded(t.wire) =
          [ aud |-> c.aud, iss |-> c.iss, jti |-> c.jti, iat |-> c.iat, exp |-> c.exp,
            extra |-> extra ]
    BY OwnToken, OwnFields, RoundTrip
  <2>2. ASSUME NEW e PROVE [c EXCEPT !.extra = e] =
          [ aud |-> c.aud, iss |-> c.iss, jti |-> c.jti, iat |-> c.iat, exp |-> c.exp, extra |-> e ]
    BY OwnToken, OwnFields
  <2> QED BY <2>1, <2>2
<1> QED BY <1>1, TypeCorrect, PTL

(***************************************************************************)
(* The copy that is validated is what was signed (validator.rs 525-533).   *)
(***************************************************************************)
THEOREM CopyIsFaithful == Spec => []CheckedAsSigned
<1>1. TypeOK => CheckedAsSigned
  <2> SUFFICES ASSUME TypeOK, NEW t \in sent, Decodes(t.wire)
               PROVE  Encoded(Decoded(t.wire)) = t.wire
    BY DEF CheckedAsSigned
  <2>1. CASE t.claims = None /\ t.wire \in ForeignWires
    BY <2>1, Reserialised, ExchangeAssumption
  <2>2. CASE t.claims \in ClientClaims /\ t.wire = Encoded(t.claims)
    <3> DEFINE c    == t.claims
               rest == Without(ExtraOf(c), REQUIRED_CLAIMS)
               d    == Decoded(t.wire)
    <3>1. /\ c.iat \in I64 /\ c.exp \in I64 /\ (IsString(c.aud) \/ IsArray(c.aud))
          /\ c.extra \in Extras
      BY <2>2, OwnFields
    <3>2. /\ d.aud = c.aud /\ d.iss = c.iss /\ d.jti = c.jti /\ d.iat = c.iat /\ d.exp = c.exp
          /\ d.extra = AsExtra(rest)
      <4>1. d = [ aud |-> c.aud, iss |-> c.iss, jti |-> c.jti, iat |-> c.iat, exp |-> c.exp,
                  extra |-> AsExtra(rest) ]
        BY <2>2, <3>1, RoundTrip
      <4> HIDE DEF d
      <4> QED BY <4>1
    <3>3. Without(ExtraOf(d), REQUIRED_CLAIMS) = rest
      <4>1. Without(rest, REQUIRED_CLAIMS) = rest
        BY DEF Without
      <4>2. CASE DOMAIN rest = {}
        <5>1. ExtraOf(d) = [n \in {} |-> Other]
          BY <3>2, <4>2 DEF AsExtra, ExtraOf
        <5>2. Without(ExtraOf(d), REQUIRED_CLAIMS) = [n \in {} |-> Other]
          BY <5>1 DEF Without
        <5>3. rest = [n \in {} |-> Other]
          BY <4>2 DEF Without
        <5> QED BY <5>2, <5>3
      <4>3. CASE DOMAIN rest # {}
        <5>1. rest # None
          BY <4>3, <3>1, ExchangeAssumption DEF ExtraOf, Without
        <5> QED BY <3>2, <4>1, <4>3, <5>1 DEF AsExtra, ExtraOf
      <4> QED BY <4>2, <4>3
    <3> QED BY <2>2, <3>2, <3>3, EncodedAlike
  <2> QED BY <2>1, <2>2 DEF TypeOK, ClientClaims
<1> QED BY <1>1, TypeCorrect, PTL

(***************************************************************************)
(* A token from the cache is the one the call would have made, but for the *)
(* nonce (claims.rs 126-135).                                              *)
(***************************************************************************)
THEOREM KeysSeparateTokens == Spec => []OneKeyOneToken
<1>1. TypeOK => OneKeyOneToken
  <2> SUFFICES ASSUME TypeOK, NEW s \in Own, NEW t \in Own,
                      cache_key(s.claims) = cache_key(t.claims)
               PROVE  Without(s.wire, {"jti"}) = Without(t.wire, {"jti"})
    BY DEF OneKeyOneToken
  <2> DEFINE c == s.claims
             d == t.claims
  <2>1. s.wire = Encoded(c) /\ t.wire = Encoded(d)
    BY OwnToken
  <2>2. c.aud = d.aud /\ c.iss = d.iss /\ c.iat = d.iat /\ c.exp = d.exp /\ c.extra = d.extra
    BY DEF cache_key
  <2>3. ExtraOf(c) = ExtraOf(d)
    BY <2>2 DEF ExtraOf
  <2> HIDE DEF c, d
  <2>4. DOMAIN Encoded(c) = DOMAIN Encoded(d)
    BY <2>3, EncodedFacts
  <2>5. ASSUME NEW n \in DOMAIN Encoded(c), n # "jti" PROVE Encoded(c)[n] = Encoded(d)[n]
    <3>1. CASE n \in REQUIRED_CLAIMS
      <4>1. n \in {"aud", "iss", "iat", "exp"}
        BY <2>5, <3>1 DEF REQUIRED_CLAIMS
      <4> QED BY <4>1, <2>2, EncodedFacts
    <3>2. CASE n \notin REQUIRED_CLAIMS
      <4>1. n \in DOMAIN ExtraOf(c) \ REQUIRED_CLAIMS /\ n \in DOMAIN ExtraOf(d) \ REQUIRED_CLAIMS
        BY <2>3, <2>5, <3>2, EncodedFacts
      <4>2. Encoded(c)[n] = ExtraOf(c)[n] /\ Encoded(d)[n] = ExtraOf(d)[n]
        BY <4>1, EncodedFacts
      <4> QED BY <2>3, <4>2
    <3> QED BY <3>1, <3>2
  <2> QED BY <2>1, <2>4, <2>5 DEF Without
<1> QED BY <1>1, TypeCorrect, PTL

(***************************************************************************)
(* The server accepts every honest token, for any clocks no further apart  *)
(* than the leeway (validator.rs 585-663).                                 *)
(***************************************************************************)
THEOREM HonestTokensPass == Spec => []HonestTokensAccepted
<1>1. TypeOK /\ ReceivedAsSent /\ CheckedAsSigned => HonestTokensAccepted
  <2> SUFFICES ASSUME TypeOK, ReceivedAsSent, CheckedAsSigned, NEW t \in sent, Honest(t)
               PROVE  Outcome(t.wire, client_kid) = "Ok"
    BY DEF HonestTokensAccepted
  <2> DEFINE c == t.claims
             x == Extracted(t.wire)
  <2>1. t \in Own
    BY DEF Honest
  <2>2. c \in ClientClaims /\ t.wire = Encoded(c)
    BY <2>1, OwnToken
  <2>3. /\ c.iss = client_iss /\ c.iat \in I64 /\ c.iat <= client_clock /\ c.exp \in I64
        /\ client_clock \in Int /\ server_clock \in Int
    <3>1. client_clock \in Int /\ server_clock \in Int
      BY ExchangeAssumption DEF TypeOK
    <3> QED BY <2>2, <3>1, OwnFields
  <2>4. Outcome(t.wire, client_kid) = Verdict(client_kid, x, whitelist, server_clock)
    BY <2>1 DEF Outcome, ReceivedAsSent, CheckedAsSigned, Own
  <2>5. x.iss = c.iss /\ x.iat = c.iat /\ x.exp = c.exp /\ x.aud = AudienceList(c.aud)
    <3>1. /\ REQUIRED_CLAIMS \subseteq DOMAIN t.wire
          /\ t.wire["aud"] = c.aud /\ t.wire["iss"] = String(c.iss)
          /\ t.wire["iat"] = Number(c.iat) /\ t.wire["exp"] = Number(c.exp)
      BY <2>2, EncodedFacts
    <3>2. {"iss", "iat", "exp"} \subseteq DOMAIN t.wire
      BY <3>1 DEF REQUIRED_CLAIMS
    <3> HIDE DEF c
    <3> QED
      BY <2>3, <3>1, <3>2, ValueFacts
         DEF Extracted, extract_string, extract_i64, extract_aud_from_claims
  <2>6. x.sub = None /\ x.nbf = None
    <3>1. "sub" \notin DOMAIN t.wire /\ "nbf" \notin DOMAIN t.wire
      <4>1. DOMAIN t.wire = REQUIRED_CLAIMS \cup DOMAIN ExtraOf(c)
        BY <2>2, EncodedFacts
      <4> QED BY <4>1 DEF Honest, REQUIRED_CLAIMS
    <3> QED BY <3>1 DEF Extracted, extract_string, extract_i64
  <2> HIDE DEF x
  <2>7. /\ validate_kid => x.iss \in IssuersOf[client_kid]
        /\ resource_server_audience \in x.aud
        /\ \A list \in whitelist : Subject(x) \in list
    BY <2>3, <2>5, <2>6 DEF Honest, Subject
  <2>8. /\ {server_clock + leeway, server_clock - leeway, Lifespan(x)} \subseteq I64
        /\ NotBefore(x) <= server_clock + leeway
        /\ x.exp >= server_clock - leeway /\ Lifespan(x) <= max_lifespan
    <3>1. NotBefore(x) = c.iat /\ Lifespan(x) = c.exp - c.iat
      BY <2>5, <2>6 DEF NotBefore, Lifespan
    <3>2. {server_clock + leeway, server_clock - leeway, c.exp - c.iat} \subseteq I64
      BY DEF Honest, NoOverflow, Lifespan
    <3>3. /\ c.exp - c.iat <= max_lifespan /\ client_clock <= c.exp
          /\ client_clock - server_clock \in -leeway .. leeway
      BY DEF Honest
    <3>4. leeway \in Int /\ c.iat \in Int /\ c.exp \in Int
      BY <2>3, RulesAssumption, Int64Assumption DEF I64
    <3>5. client_clock <= server_clock + leeway /\ client_clock >= server_clock - leeway
      BY <2>3, <3>3, <3>4
    <3> HIDE DEF c
    <3>6. c.iat <= server_clock + leeway /\ c.exp >= server_clock - leeway
      BY <2>3, <3>3, <3>4, <3>5
    <3> QED BY <2>5, <3>1, <3>2, <3>3, <3>6
  <2>9. \A n \in I64 : Wrap(n) = n /\ ~Panics(n)
    BY Int64Assumption DEF Wrap, Panics, I64
  <2>10. /\ x.exp \in Int /\ NotBefore(x) \in Int /\ Lifespan(x) \in Int /\ max_lifespan \in Int
         /\ server_clock + leeway \in Int /\ server_clock - leeway \in Int
    BY <2>3, <2>5, <2>6, <2>8, RulesAssumption, Int64Assumption
       DEF NotBefore, max_lifespan, RequestedLifespan, I64
  <2>11. ~(NotBefore(x) > Wrap(server_clock + leeway)) /\ ~Expired(x, server_clock)
         /\ ~(Wrap(Lifespan(x)) > max_lifespan)
    BY <2>8, <2>9, <2>10 DEF Expired
  <2> QED BY <2>4, <2>7, <2>8, <2>9, <2>11 DEF Verdict
<1> QED BY <1>1, TypeCorrect, ClaimsArrive, CopyIsFaithful, PTL
===============================================================================

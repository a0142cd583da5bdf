--------------------------- MODULE TokenRulesProofs ---------------------------
(***************************************************************************)
(* What the chain of checks of TokenRules computes, for any width of the   *)
(* integers, settings and names: shared by the proofs about every module   *)
(* that asks for a verdict.                                                *)
(***************************************************************************)
EXTENDS TokenRules, TLAPS

\* The constants have the types the arithmetic needs.
LEMMA SettingTypes ==
  /\ I64Max \in Nat /\ leeway \in Int /\ max_lifespan \in Nat
  /\ overflow_checks \in BOOLEAN /\ None \notin Int
  /\ RequestedLifespan \in Int /\ RequestedLifespan <= max_lifespan
BY Int64Assumption, RulesAssumption DEF max_lifespan, RequestedLifespan, I64

\* The times of a token are integers, its nbf too when it has one.
LEMMA ClaimTypes ==
  ASSUME NEW c \in Claims
  PROVE  /\ c.iat \in Int /\ c.exp \in Int /\ NotBefore(c) \in Int
         /\ c.nbf # None => c.nbf \in Int
BY DEF Claims, NotBefore, I64

\* Wrapping leaves a value that fits in an i64 alone, so in range the chain of
\* checks accepts exactly when every rule holds.
LEMMA AcceptedMeansConforming ==
  ASSUME NEW kid \in Kids, NEW c \in Claims, NEW wl \in Whitelist, NEW t \in Int,
         NoOverflow(c, t)
  PROVE  Verdict(kid, c, wl, t) = "Ok" <=> Conforms(kid, c, wl, t)
<1> USE SettingTypes, ClaimTypes
<1>1. {t + leeway, t - leeway, Lifespan(c)} \subseteq I64
  BY DEF NoOverflow
<1>2. /\ Wrap(t + leeway) = t + leeway /\ Wrap(t - leeway) = t - leeway
      /\ Wrap(Lifespan(c)) = Lifespan(c)
  BY <1>1 DEF Wrap, I64
<1>3. ~Panics(t + leeway) /\ ~Panics(t - leeway) /\ ~Panics(Lifespan(c))
  BY <1>1 DEF Panics
<1>4. Lifespan(c) = c.exp - c.iat
  BY DEF Lifespan
<1>5. Verdict(kid, c, wl, t) = "Ok" <=>
        /\ validate_kid => c.iss \in IssuersOf[kid]
        /\ NotBefore(c) <= t + leeway
        /\ t - leeway <= c.exp
        /\ Lifespan(c) <= max_lifespan
        /\ resource_server_audience \in c.aud
        /\ \A list \in wl : Subject(c) \in list
  BY <1>2, <1>3, <1>4 DEF Verdict, Expired
<1> QED
  BY <1>4, <1>5 DEF Conforms, NotBefore
===============================================================================

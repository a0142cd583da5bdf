-------------------------- MODULE TokenLifetimeProofs --------------------------
(* What TokenLifetime checks on a 4-bit i64, proved for every width, leeway, *)
(* lifespan and set of names.                                                *)
EXTENDS TokenLifetime, TokenRulesProofs, TLAPS

\* The inputs and the clock never leave their types.
LifetimeTypeOK == input \in Input /\ now \in Int

\* No step changes the token that is presented, and the clock stays an integer.
LEMMA LifetimeTypes == Spec => []LifetimeTypeOK
<1>1. Init => LifetimeTypeOK
  BY LifetimeAssumption DEF Init, LifetimeTypeOK
<1>2. LifetimeTypeOK /\ [Next]_vars => LifetimeTypeOK'
  BY DEF LifetimeTypeOK, Next, NextSecond, vars
<1> QED
  BY <1>1, <1>2, PTL DEF Spec

\* At every second the verdict on every token is the one the ASAP rules quoted
\* in `validate` prescribe, unless a sum leaves the i64 range.
THEOREM ExactAcceptance == Spec => []AcceptsExactlyConforming
<1>1. LifetimeTypeOK => AcceptsExactlyConforming
  BY AcceptedMeansConforming DEF LifetimeTypeOK, Input, AcceptsExactlyConforming, VerdictAt
<1> QED
  BY <1>1, LifetimeTypes, PTL

\* In a build with overflow checks no token above max_lifespan is accepted,
\* even when the difference of its times does not fit in an i64.
THEOREM LifespanLimited ==
  ASSUME overflow_checks
  PROVE  Spec => []AcceptedLifespanLimited
<1>1. LifetimeTypeOK => AcceptedLifespanLimited
  <2> SUFFICES ASSUME LifetimeTypeOK, VerdictAt(now) = "Ok"
               PROVE  Lifespan(input.claims) <= max_lifespan
    BY DEF AcceptedLifespanLimited, Lifespan
  <2> USE SettingTypes, ClaimTypes
  <2>1. input.claims \in Claims
    BY DEF LifetimeTypeOK, Input
  <2>2. Lifespan(input.claims) \in Int
    BY <2>1 DEF Lifespan
  <2>3. /\ ~Panics(Lifespan(input.claims))
        /\ ~(Wrap(Lifespan(input.claims)) > max_lifespan)
    BY DEF VerdictAt, Verdict
  <2>4. Wrap(Lifespan(input.claims)) = Lifespan(input.claims)
    BY <2>2, <2>3 DEF Panics, Wrap, I64
  <2> QED
    BY <2>2, <2>3, <2>4
<1> QED
  BY <1>1, LifetimeTypes, PTL

\* Whatever limit was asked for, above the default or not, no token within it is
\* rejected for its lifespan.
THEOREM SettingHonoured == Spec => []RejectedOnlyBeyondSetting
<1>1. LifetimeTypeOK => RejectedOnlyBeyondSetting
  <2> SUFFICES ASSUME LifetimeTypeOK, VerdictAt(now) = "InvalidLifespan",
                      NoOverflow(input.claims, now)
               PROVE  Lifespan(input.claims) > RequestedLifespan
    BY DEF RejectedOnlyBeyondSetting
  <2>1. /\ Lifespan(input.claims) \in I64
        /\ Wrap(Lifespan(input.claims)) > max_lifespan
    BY DEF VerdictAt, Verdict, NoOverflow
  <2>2. Wrap(Lifespan(input.claims)) = Lifespan(input.claims)
    BY <2>1, SettingTypes DEF Wrap, I64
  <2> QED
    BY <2>1, <2>2, SettingTypes DEF I64
<1> QED
  BY <1>1, LifetimeTypes, PTL

\* A token without nbf is of use for at most max_lifespan after it was issued,
\* give or take the leeway at both ends.
THEOREM UseIsBounded == Spec => []BoundedUse
<1>1. LifetimeTypeOK => BoundedUse
  <2> SUFFICES ASSUME LifetimeTypeOK, VerdictAt(now) = "Ok",
                      input.claims.nbf = None, NoOverflow(input.claims, now)
               PROVE  now \in (input.claims.iat - leeway) ..
                              (input.claims.iat + max_lifespan + leeway)
    BY DEF BoundedUse
  <2>1. /\ input.kid \in Kids /\ input.claims \in Claims
        /\ input.wl \in Whitelist /\ now \in Int
    BY DEF LifetimeTypeOK, Input
  <2>2. Conforms(input.kid, input.claims, input.wl, now)
    BY <2>1, AcceptedMeansConforming DEF VerdictAt
  <2> QED
    BY <2>1, <2>2, SettingTypes, ClaimTypes DEF Conforms
<1> QED
  BY <1>1, LifetimeTypes, PTL
===============================================================================

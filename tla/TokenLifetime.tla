----------------------------- MODULE TokenLifetime -----------------------------
(***************************************************************************)
(* One token with a valid signature, offered to GenericValidator::validate *)
(* second after second.  The state is the input of `validate`; the verdict *)
(* is a function of it.                                                    *)
(***************************************************************************)
EXTENDS TokenRules

CONSTANTS
  Inputs,    \* the [kid, claims, wl] combinations examined
  MaxNow     \* bound on the clock

Input == [kid : Kids, claims : Claims, wl : Whitelist]

ASSUME LifetimeAssumption ==
  /\ Inputs \subseteq Input
  /\ MaxNow \in I64 /\ 0 <= MaxNow

VARIABLES input, now

vars == <<input, now>>

\* The verdict of a call that presents the token at second t.
VerdictAt(t) == Verdict(input.kid, input.claims, input.wl, t)

Init == input \in Inputs /\ now = 0

NextSecond ==
  /\ now < MaxNow
  /\ now' = now + 1
  /\ UNCHANGED input

Next == NextSecond

Spec == Init /\ [][Next]_vars

-------------------------------------------------------------------------------
(***************************************************************************)
(* Whenever no sum overflows, `validate` accepts exactly the tokens the    *)
(* ASAP rules quoted in it accept, at the boundary seconds included, for a *)
(* leeway of either sign (validator.rs 585-659).                           *)
(***************************************************************************)
AcceptsExactlyConforming ==
  NoOverflow(input.claims, now) =>
    (VerdictAt(now) = "Ok" <=> Conforms(input.kid, input.claims, input.wl, now))

(***************************************************************************)
(* "The resource server MUST reject a token if it lifespan (the difference *)
(* between exp and iat) exceeds one hour ... a more restrictive upper      *)
(* bound" (validator.rs 609-613): no accepted token spans more than        *)
(* max_lifespan seconds, whatever its claims.                              *)
(***************************************************************************)
AcceptedLifespanLimited ==
  VerdictAt(now) = "Ok" => input.claims.exp - input.claims.iat <= max_lifespan

(***************************************************************************)
(* "You may use this to set a higher limit" (validator.rs 173-175), where  *)
(* the builder's field says a higher one has no effect (86): a token is    *)
(* rejected for its lifespan only when that exceeds the limit asked for.   *)
(***************************************************************************)
RejectedOnlyBeyondSetting ==
  VerdictAt(now) = "InvalidLifespan" /\ NoOverflow(input.claims, now)
    => Lifespan(input.claims) > RequestedLifespan

(***************************************************************************)
(* Without an nbf claim the clock readings at which a token is accepted    *)
(* lie within max_lifespan of its iat, give or take the leeway: the        *)
(* lifespan limit bounds how long a token can be reused only because nbf   *)
(* then defaults to iat (validator.rs 602-616).                            *)
(***************************************************************************)
BoundedUse ==
  /\ VerdictAt(now) = "Ok"
  /\ input.claims.nbf = None
  /\ NoOverflow(input.claims, now)
  => now \in (input.claims.iat - leeway) .. (input.claims.iat + max_lifespan + leeway)
===============================================================================

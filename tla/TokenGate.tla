------------------------------- MODULE TokenGate -------------------------------
(***************************************************************************)
(* What a validator promises its callers, with no key cache, no keyserver  *)
(* and no locks: a call is found genuine with a key that was trusted under *)
(* its kid, at a second of the clock; its nonce is compared with the spent *)
(* ones and then spent; and it is granted only if the rules pass it at     *)
(* that second.  An answer is final.                                       *)
(***************************************************************************)
EXTENDS TokenRules

CONSTANTS Calls, Tokens, Whitelists, Keys, TicksPerSecond, validate_jti

VARIABLES
  clock,
  req,       \* req[c]: what call c presents
  trusted,   \* the <<kid, key>> pairs trusted so far
  spent,     \* the nonces spent
  stage,     \* stage[c]: how far call c has come
  second,    \* second[c]: the second it is judged at
  answer     \* answer[c]: what it was told

vars == <<clock, req, trusted, spent, stage, second, answer>>

Kid(c)  == req[c].token.kid
Body(c) == req[c].token.claims

Init ==
  /\ clock = 0
  /\ req \in [Calls -> [token : Tokens, wl : Whitelists]]
  /\ trusted \subseteq Kids \X Keys
  /\ spent = {}
  /\ stage = [c \in Calls |-> "asked"]
  /\ second = [c \in Calls |-> 0]
  /\ answer = [c \in Calls |-> "pending"]

Trust ==
  /\ trusted \subseteq trusted' /\ trusted' \subseteq Kids \X Keys
  /\ UNCHANGED <<clock, req, spent, stage, second, answer>>

Move ==
  /\ clock' \in {clock - 1, clock + 1} \cap Nat
  /\ UNCHANGED <<req, trusted, spent, stage, second, answer>>

Reach(c, s) == stage' = [stage EXCEPT ![c] = s]

FindGenuine(c) ==
  /\ stage[c] = "asked" /\ Reach(c, IF validate_jti THEN "genuine" ELSE "counted")
  /\ Body(c) # None /\ <<Kid(c), req[c].token.signer>> \in trusted
  /\ second' = [second EXCEPT ![c] = clock \div TicksPerSecond]
  /\ UNCHANGED <<clock, req, trusted, spent, answer>>

Compare(c) ==
  /\ stage[c] = "genuine" /\ Reach(c, "unspent")
  /\ Body(c).jti \notin spent
  /\ UNCHANGED <<clock, req, trusted, spent, second, answer>>

Spend(c) ==
  /\ stage[c] = "unspent" /\ Reach(c, "counted")
  /\ spent' = spent \cup {Body(c).jti}
  /\ UNCHANGED <<clock, req, trusted, second, answer>>

Tell(c, a) ==
  /\ stage[c] # "answered" /\ Reach(c, "answered")
  /\ answer' = [answer EXCEPT ![c] = a]
  /\ UNCHANGED <<clock, req, trusted, spent, second>>

Grant(c) ==
  /\ stage[c] = "counted"
  /\ Verdict(Kid(c), Body(c), req[c].wl, second[c]) = "Ok"
  /\ Tell(c, "Ok")

\* A genuine token is refused for what the rules say of it, or a panic.
Refuse(c) ==
  \/ /\ stage[c] = "asked"
     /\ \E a \in {"InvalidToken", "NoKIDFound", "KeyserverError", "InvalidAlgorithm",
                  "InvalidSignature", "InvalidClaims", "cancelled", "panic"} : Tell(c, a)
  \/ /\ stage[c] = "genuine" /\ Body(c).jti \in spent
     /\ Tell(c, "DuplicateJTI")
  \/ /\ stage[c] = "counted"
     /\ \E a \in {Verdict(Kid(c), Body(c), req[c].wl, second[c]), "panic"} \ {"Ok"} : Tell(c, a)

Next ==
  \/ Trust \/ Move
  \/ \E c \in Calls :
       FindGenuine(c) \/ Compare(c) \/ Spend(c) \/ Grant(c) \/ Refuse(c)

Spec == Init /\ [][Next]_vars
===============================================================================

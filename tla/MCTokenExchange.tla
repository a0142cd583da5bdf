---------------------------- MODULE MCTokenExchange ----------------------------
(* An instance of TokenExchange: one client, three audiences, extra claims that  *)
(* clash with required ones, are read by checks, or mean nothing to them, and    *)
(* foreign tokens that differ from a well-formed one in the type of one claim.   *)
EXTENDS TokenExchange, TLC

CONSTANTS i1, i2, k1, aud1, aud2, j1, j2

MCIssuersOf == [k \in {k1} |-> {i1}]

MCAuds == { String(aud1), Array({aud1, aud2}), Array({}) }

Clashing == [n \in REQUIRED_CLAIMS \cup {"foo"} |-> IF n = "exp" THEN Number(7) ELSE Other]
MCExtras == { None, [n \in {} |-> Other], [n \in {"foo"} |-> Other], Clashing,
              ("nbf" :> Number(2)), ("sub" :> String(i2)) }

Plain ==
  [ aud |-> String(aud1), iss |-> String(i2), jti |-> String(j1),
    iat |-> Number(0), exp |-> Number(2) ]

MCForeignWires ==
  { Plain, Plain @@ ("nbf" :> Other), Plain @@ ("sub" :> String(i1)),
    [Plain EXCEPT !.exp = Number(8)], [Plain EXCEPT !.aud = Other],
    Without(Plain, {"jti"}) }

MCWhitelist == { {i1} }
===============================================================================

---------------------------- MODULE MCTokenLifetime ----------------------------
(* Instances of TokenLifetime: two nested issuers, every combination of times *)
(* in a 4-bit i64, and the smallest sets that let each other check pass and   *)
(* fail.                                                                      *)
EXTENDS TokenLifetime

CONSTANTS i1, i2, k1, aud1, aud2, j1

\* "i1" owns key k1; "i2" does not.
MCIssuersOf == [k \in {k1} |-> {i1}]

\* All times, with otherwise acceptable claims.
TimeInputs ==
  { [kid |-> k1, wl |-> {},
     claims |-> [iss |-> i1, sub |-> None, aud |-> {aud1}, jti |-> j1,
                 iat |-> iat, exp |-> exp, nbf |-> nbf]] :
    iat \in I64, exp \in I64, nbf \in I64 \cup {None} }

\* All identities, with a few times.
NameInputs ==
  { [kid |-> k1, wl |-> wl,
     claims |-> [iss |-> iss, sub |-> sub, aud |-> aud, jti |-> j1,
                 iat |-> 1, exp |-> exp, nbf |-> None]] :
    wl \in { {}, { {} }, { {i1} }, { {i2} } }, iss \in {i1, i2}, sub \in {None, i1, i2},
    aud \in SUBSET {aud1, aud2}, exp \in {0, 2, 3, 5} }

MCInputs == TimeInputs \cup NameInputs
===============================================================================

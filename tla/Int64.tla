--------------------------------- MODULE Int64 ---------------------------------
(* i64 arithmetic as rustc compiles it: a panic in a build with overflow       *)
(* checks, two's complement otherwise.                                         *)
EXTENDS Integers

CONSTANTS
  I64Max,           \* i64::MAX; small in the TLC instances
  overflow_checks   \* TRUE: a build that panics on overflow (dev profile)

ASSUME Int64Assumption == I64Max \in Nat /\ overflow_checks \in BOOLEAN

I64 == (-I64Max - 1) .. I64Max

\* The i64 a release build stores for a sum or difference of two i64 values:
\* the exact result leaves the range by less than one modulus.
Wrap(x) ==
  IF x > I64Max THEN x - (2 * I64Max + 2)
  ELSE IF x < -I64Max - 1 THEN x + (2 * I64Max + 2)
  ELSE x

Panics(x) == overflow_checks /\ x \notin I64
===============================================================================

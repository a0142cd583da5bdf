---------------------------------- MODULE MCCli ----------------------------------
(* An instance of Cli: two invocations of init and one of token, over three *)
(* files of two pieces each.                                                *)
EXTENDS Cli, TLC

CONSTANTS i1, i2, t1

AnyInit == Permutations(Inits)

\* No option, or --config and one that replaces a piece.
SomeOptions ==
  { [config_path |-> None, replaced |-> {}], [config_path |-> "other", replaced |-> {1}] }
===============================================================================

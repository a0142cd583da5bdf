---------------------------- MODULE MCHttpKeyserver ----------------------------
(* An instance of HttpKeyserver: two servers, a mistyped URL, two keys, and the *)
(* shortest timeouts.  A URL may be configured twice.                            *)
EXTENDS HttpKeyserver

CONSTANTS primary, mistyped, fallback, old, new
===============================================================================

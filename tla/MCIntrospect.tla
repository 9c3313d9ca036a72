----------------------------- MODULE MCIntrospect -----------------------------
(* Introspect with interchangeable requests and tokens.                      *)
EXTENDS Introspect, TLC

Symmetry == Permutations(Request) \cup Permutations(Token)
=============================================================================

-------------------------- MODULE MCClientRegistry --------------------------
(* ClientRegistry for TLC: two applications, whose secrets may be mixed up, *)
(* and two calls at a time.                                                *)
EXTENDS ClientRegistry, TLC

CONSTANTS c1, c2, w1, w2

Symmetry == Permutations({c1, c2}) \cup Permutations({w1, w2})
=============================================================================

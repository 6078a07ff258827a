----------------------------- MODULE MCCiToken -----------------------------
(* Small instances of CiToken: three concurrent requests, so that one may  *)
(* overtake two that are under way, and three tokens for two rotations.    *)
EXTENDS CiToken, TLC

Symmetry == Permutations(Request) \cup Permutations(Token)

=============================================================================

----------------------------- MODULE MCSessions -----------------------------
(* Two accounts, one of which the seed writes again, and two requests.      *)
EXTENDS Sessions, TLC

Symmetry == Permutations(SessionIds) \union Permutations(Tokens) \union Permutations(Requests)
=============================================================================

---- MODULE MCServiceToken ----
(* ServiceToken on small sets for TLC. *)
EXTENDS ServiceToken, TLC

Symmetry ==
  Permutations(Call) \cup Permutations(ClientId) \cup Permutations(TokenUrl)
====

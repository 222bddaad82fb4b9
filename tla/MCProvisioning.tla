---- MODULE MCProvisioning ----
(* Provisioning on small sets for TLC. *)
EXTENDS Provisioning, TLC

Symmetry ==
  Permutations(Launch) \cup Permutations(Rest) \cup Permutations(Prefix)
    \cup Permutations(Title)
====

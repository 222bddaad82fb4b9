---- MODULE MCToolKeys ----
(* ToolKeys on small sets for TLC. *)
EXTENDS ToolKeys, TLC

Symmetry == Permutations(Process)
====

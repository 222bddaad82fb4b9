---- MODULE MCRegistration ----
(* Registration on small sets for TLC: each issuer but one is seeded. *)
EXTENDS Registration, TLC

CONSTANTS i1, i2

MCIssuer == {i1, i2}
MCSeeds == <<i1>>

Symmetry == Permutations(Process)
====

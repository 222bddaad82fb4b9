---- MODULE MCOidcLaunch ----
(* OidcLaunch on small sets for TLC. *)
EXTENDS OidcLaunch, TLC

Symmetry ==
  Permutations(Request) \cup Permutations(State)
    \cup Permutations(Issuer) \cup Permutations(Browser)
====

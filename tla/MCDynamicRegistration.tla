---- MODULE MCDynamicRegistration ----
(* DynamicRegistration on small sets for TLC: two platforms, one of which
   has two endpoints, and two ways to the tool: with TLS on a port of its
   own, and without TLS. *)
EXTENDS DynamicRegistration, TLC

CONSTANTS i1, i2, e1, e2, e3

MCIssuer == {i1, i2}

EndpointOwner == (e1 :> i1) @@ (e2 :> i1) @@ (e3 :> i2)

Tokens == (i1 :> "token") @@ (i2 :> "")

ToolFronts ==
  {[scheme |-> "https", host |-> [name |-> "tool", port |-> 8443], path |-> ""],
   [scheme |-> "http", host |-> [name |-> "tool", port |-> NoPort], path |-> ""]}

NoSeeds == <<>>

Symmetry == Permutations(Process)
====

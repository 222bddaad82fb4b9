---- MODULE MCLtiServices ----
(* LtiServices on small sets for TLC: two platforms, the first of which has
   moved its token endpoint once. *)
EXTENDS LtiServices, TLC

CONSTANTS p1, p2, i1, i2, k1, k2, u1, u2, u3

EndpointOwner == (u1 :> i1) @@ (u2 :> i2) @@ (u3 :> i1)

Launch(iss, aud, azp, deep_linking, names_and_roles) ==
  [iss |-> iss, aud |-> aud, auds |-> <<>>, azp |-> azp,
   deep_linking |-> deep_linking, names_and_roles |-> names_and_roles]

(* The second platform names two audiences, the tool first; the first may
   also sign the tool's client id at the second, which nothing checks. *)
First(deep_linking, names_and_roles) ==
  Launch(i1, <<k1>>, <<>>, deep_linking, names_and_roles)

Second(deep_linking, names_and_roles) ==
  Launch(i2, <<k2, k1>>, <<k2>>, deep_linking, names_and_roles)

Stray == Launch(i1, <<k2>>, <<>>, FALSE, TRUE)

(* One page has a button or a roster, the other a roster: the requests for
   signatures and those for rosters share nothing but the page. *)
PageLaunches ==
  (p1 :> {First(TRUE, FALSE), Second(TRUE, FALSE), First(FALSE, TRUE), Second(FALSE, TRUE)})
    @@ (p2 :> {Second(FALSE, TRUE), Stray})
====

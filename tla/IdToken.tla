------------------------------- MODULE IdToken -------------------------------
(***************************************************************************)
(* The claims of a launch: what a platform signs, what the tool decodes it *)
(* to, and what it makes of it, the JWT that its page is given and what    *)
(* the page offers.  A claim that may be missing is a sequence, empty or   *)
(* of one; of the deep linking settings and of the endpoints, only whether *)
(* they are there is kept.                                                 *)
(***************************************************************************)
EXTENDS Naturals, Sequences

(* "aud" is a string or an array, here an array of one or more.  "auds" is *)
(* read from a claim of that name, not from "aud", and so is empty unless  *)
(* a platform makes one up.                                                *)
Claims(issuers, clients) ==
  [iss : issuers, aud : Seq(clients) \ {<<>>}, auds : Seq(clients),
   azp : {<<>>} \cup {<<c>> : c \in clients},
   deep_linking : BOOLEAN, names_and_roles : BOOLEAN]

(* IdToken's deserializers.                                                *)
Decode(claims) == [claims EXCEPT !.aud = Head(claims.aud)]

(* IdToken::client_id: azp decides between several auds.                   *)
client_id(token) ==
  IF token.auds = <<>> THEN token.aud
  ELSE IF Len(token.auds) > 1 /\ token.azp # <<>> THEN Head(token.azp)
  ELSE Head(token.auds)

(* ToolJwtStore::build_jwt                                                 *)
build_jwt(token, host, exp) ==
  [platform_iss |-> token.iss, client_id |-> client_id(token), iss |-> host,
   exp |-> exp]

(* renderDeepLinkSection and renderNrpsSection, when the page is drawn.    *)
Offers(token) ==
  [pc |-> "open",
   button |-> IF token.deep_linking THEN "ready" ELSE "absent",
   roster |-> IF token.names_and_roles THEN "loading" ELSE "absent"]
=============================================================================

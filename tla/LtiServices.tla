----------------------------- MODULE LtiServices -----------------------------
(***************************************************************************)
(* The page of a launch and the services behind it: the browser asks       *)
(* /lti_services/names_and_roles for the roster as soon as the page is     *)
(* drawn, and /lti_services/sign_deep_link for a signed response each time *)
(* its button is clicked, and posts the response to the platform.  The     *)
(* roster's handler asks ServiceToken for a token, so that the pages of    *)
(* all the platforms meet at one cache and one lock; a page asks for the   *)
(* roster once, and its call of the function bears its name.               *)
(***************************************************************************)
EXTENDS ServiceToken, IdToken

CONSTANTS
  Issuer,       \* platforms
  Owner,        \* the platform that each token endpoint belongs to
  Launches,     \* the claims that platforms may launch each page with
  NrpsScope,    \* the scope that the handler asks for
  JwtLifetime,  \* three hundred minutes
  MaxClicks,    \* bound on the clicks on one page
  Host,         \* the tool, as the launch names it
  None          \* no session yet

(* The claims of the JWT that the services read.                           *)
ToolJwt ==
  [platform_iss : Issuer, client_id : ClientId, iss : {Host}, exp : Nat]

ASSUME ServicesAssumption ==
  /\ Owner \in [TokenUrl -> Issuer]
  /\ \A p \in Call : \A claims \in Launches[p] : claims \in Claims(Issuer, ClientId)
  /\ NrpsScope \in Scopes
  /\ JwtLifetime \in Nat
  /\ MaxClicks \in Nat
  /\ Host \notin Issuer
  /\ None \notin ToolJwt

VARIABLES
  platforms,  \* the token_url of each issuer's row in lti_platforms
  session,    \* the claims of the JWT that each page was given
  page,       \* what the browser shows
  roster,     \* the request for the roster, as far as the server is with it
  sign,       \* the request for a signature that each click makes
  responses   \* the deep linking responses that platforms have received

browserVars == <<session, page, sign, responses>>

serviceVars == <<platforms, roster, browserVars>>

-----------------------------------------------------------------------------
Page ==
  [pc : {"blank", "gone"}]
    \cup [pc : {"open"}, button : {"absent", "ready", "busy"},
          roster : {"absent", "loading", "shown", "failed"}]

(* "token": in request_service_token_cached, and once that has returned,   *)
(* waiting for the platform's list.                                        *)
RosterUnderWay == {"sent", "allowed", "token", "ok", "error"}

SignUnderWay == {"sent", "signed", "refused", "submitted"}

Clicks == 1..MaxClicks

DeepLinkResponse ==
  [page : Call, nth : Clicks, iss : ClientId, aud : Issuer \cup {Host}]

ServicesTypeOK ==
  /\ TypeOK
  /\ platforms \in [Issuer -> TokenUrl]
  /\ session \in [Call -> ToolJwt \cup {None}]
  /\ page \in [Call -> Page]
  /\ roster \in [Call -> RosterUnderWay \cup {"none", "done"}]
  /\ sign \in [Call -> [Clicks -> SignUnderWay \cup {"none", "done", "received"}]]
  /\ responses \subseteq DeepLinkResponse
  /\ \A p \in Call : page[p].pc = "open" => session[p] \in ToolJwt

ServicesInit ==
  /\ Init
  /\ platforms \in [Issuer -> TokenUrl]
  /\ \A i \in Issuer : Owner[platforms[i]] = i
  /\ session = [p \in Call |-> None]
  /\ page = [p \in Call |-> [pc |-> "blank"]]
  /\ roster = [p \in Call |-> "none"]
  /\ sign = [p \in Call |-> [n \in Clicks |-> "none"]]
  /\ responses = {}

-----------------------------------------------------------------------------
(* The browser.                                                            *)

IsOpen(p) == page[p].pc = "open"

(* Slip: a page without the JWT of its launch.                             *)
OpenBare(p) ==
  /\ page[p].pc = "blank"
  /\ page' = [page EXCEPT ![p] =
       [pc |-> "open", button |-> "absent", roster |-> "absent"]]
  /\ UNCHANGED <<vars, platforms, roster, session, sign, responses>>

(* A launch has been granted and ltiLaunch agrees: the page is drawn, with *)
(* a button if this is a deep linking launch, and the roster is asked for  *)
(* if the platform offers it.                                              *)
OpenPage(p) ==
  /\ page[p].pc = "blank"
  /\ \E claims \in Launches[p] :
       LET token == Decode(claims)
       IN /\ session' = [session EXCEPT ![p] = build_jwt(token, Host, now + JwtLifetime)]
          /\ page' = [page EXCEPT ![p] = Offers(token)]
          /\ roster' = [roster EXCEPT ![p] = IF token.names_and_roles THEN "sent" ELSE @]
  /\ UNCHANGED <<vars, platforms, sign, responses>>

(* ltiLaunch does not find the state in the platform's storage, or throws; *)
(* or the user leaves.                                                     *)
LeavePage(p) ==
  /\ page[p].pc \in {"blank", "open"}
  /\ page' = [page EXCEPT ![p] = [pc |-> "gone"]]
  /\ UNCHANGED <<vars, platforms, roster, session, sign, responses>>

(* Slip: a button that is not disabled.                                    *)
ClickAgain(p, n) ==
  /\ IsOpen(p) /\ page[p].button # "absent"
  /\ sign[p][n] = "none" /\ \A m \in 1..(n - 1) : sign[p][m] # "none"
  /\ sign' = [sign EXCEPT ![p][n] = "sent"]
  /\ UNCHANGED <<vars, platforms, roster, session, page, responses>>

(* The nth click that the button takes.                                    *)
Click(p, n) ==
  /\ IsOpen(p) /\ page[p].button = "ready"
  /\ sign[p][n] = "none" /\ \A m \in 1..(n - 1) : sign[p][m] # "none"
  /\ page' = [page EXCEPT ![p].button = "busy"]
  /\ sign' = [sign EXCEPT ![p][n] = "sent"]
  /\ UNCHANGED <<vars, platforms, roster, session, responses>>

(* The signature arrives, and the form with it is submitted.               *)
Submit(p) ==
  /\ IsOpen(p)
  /\ \E n \in Clicks :
       /\ sign[p][n] = "signed"
       /\ sign' = [sign EXCEPT ![p][n] = "submitted"]
  /\ UNCHANGED <<vars, platforms, roster, session, page, responses>>

(* Slip: a click whose failure nobody catches.                             *)
SignFailedQuietly(p) ==
  /\ IsOpen(p)
  /\ \E n \in Clicks :
       /\ sign[p][n] \in {"sent", "signed", "refused"}
       /\ sign' = [sign EXCEPT ![p][n] = "done"]
  /\ UNCHANGED <<vars, platforms, roster, session, page, responses>>

(* The server refused, or its answer is lost on the way, the request       *)
(* itself perhaps too.                                                     *)
SignFailed(p) ==
  /\ IsOpen(p)
  /\ \E n \in Clicks :
       /\ sign[p][n] \in {"sent", "signed", "refused"}
       /\ sign' = [sign EXCEPT ![p][n] = "done"]
  /\ page' = [page EXCEPT ![p].button = "ready"]
  /\ UNCHANGED <<vars, platforms, roster, session, responses>>

(* Slip: an error is not shown.                                            *)
RosterIgnored(p) ==
  /\ IsOpen(p) /\ page[p].roster = "loading" /\ roster[p] \in {"ok", "error"}
  /\ roster' = [roster EXCEPT ![p] = "done"]
  /\ page' = [page EXCEPT ![p].roster = IF roster[p] = "ok" THEN "shown" ELSE @]
  /\ UNCHANGED <<vars, platforms, session, sign, responses>>

(* The roster's answer arrives.                                            *)
RosterArrives(p) ==
  /\ IsOpen(p) /\ page[p].roster = "loading" /\ roster[p] \in {"ok", "error"}
  /\ page' = [page EXCEPT ![p].roster = IF roster[p] = "ok" THEN "shown" ELSE "failed"]
  /\ roster' = [roster EXCEPT ![p] = "done"]
  /\ UNCHANGED <<vars, platforms, session, sign, responses>>

(* It is lost: fetch rejects, and the server may not know.                 *)
RosterLost(p) ==
  /\ IsOpen(p) /\ page[p].roster = "loading"
  /\ page' = [page EXCEPT ![p].roster = "failed"]
  /\ UNCHANGED <<vars, platforms, roster, session, sign, responses>>

-----------------------------------------------------------------------------
(* The server.                                                             *)

(* decode: the signature aside, a JWT is good until it expires.            *)
Verifies(jwt) == now <= jwt.exp

(* JwtClaims reads the tool's key and checks the JWT; the key that signs   *)
(* is read after it.  Either query can fail.                               *)
AllowRoster(p) ==
  /\ roster[p] = "sent"
  /\ \/ Verifies(session[p]) /\ roster' = [roster EXCEPT ![p] = "allowed"]
     \/ roster' = [roster EXCEPT ![p] = "error"]
  /\ UNCHANGED <<vars, platforms, browserVars>>

TokenArgs(p) ==
  [client_id |-> session[p].client_id, scopes |-> NrpsScope,
   platform_token_url |-> platforms[session[p].platform_iss]]

(* The platform's row is read, and request_service_token_cached called.    *)
AskForToken(p) ==
  /\ roster[p] = "allowed"
  /\ Begin(p, TokenArgs(p))
  /\ roster' = [roster EXCEPT ![p] = "token"]
  /\ UNCHANGED <<platforms, browserVars>>

(* The row is gone, or the query fails.                                    *)
NoTokenUrl(p) ==
  /\ roster[p] = "allowed"
  /\ roster' = [roster EXCEPT ![p] = "error"]
  /\ UNCHANGED <<vars, platforms, browserVars>>

(* A step of the call, among them those of the platform's token endpoint.  *)
TokenStep(p) ==
  /\ Enter(p) \/ Answer(p) \/ Awake(p)
  /\ UNCHANGED serviceVars

(* The token is presented to the platform's roster, and the list comes     *)
(* back, or an error, or a body that is not a list; or there is no token.  *)
Listed(p) ==
  /\ roster[p] = "token"
  /\ \/ /\ call[p].pc = "returned"
        /\ \E answer \in {"ok", "error"} : roster' = [roster EXCEPT ![p] = answer]
     \/ call[p].pc = "failed" /\ roster' = [roster EXCEPT ![p] = "error"]
  /\ UNCHANGED <<vars, platforms, browserVars>>

(* Slip: the call is dropped, and keeps the lock.                          *)
DropHolding(p) ==
  /\ ~(IsOpen(p) /\ page[p].roster = "loading")
  /\ roster[p] = "token" /\ call[p].pc = "asking"
  /\ roster' = [roster EXCEPT ![p] = "done"]
  /\ call' = [call EXCEPT ![p] = [pc |-> "dropped"]]
  /\ UNCHANGED <<now, cache, lock, platforms, browserVars>>

(* The connection is gone, and the handler's future is dropped.            *)
DropRoster(p) ==
  /\ ~(IsOpen(p) /\ page[p].roster = "loading")
  /\ roster[p] \in RosterUnderWay
  /\ roster' = [roster EXCEPT ![p] = "done"]
  /\ \/ Drop(p)
     \/ call[p].pc \notin {"waiting"} \cup Inside /\ UNCHANGED vars
  /\ UNCHANGED <<platforms, browserVars>>

(* sign_deep_link, which waits for the tool's keys only; what it answers a *)
(* page that has gone changes nothing.                                     *)
SignDeepLink(p) ==
  /\ IsOpen(p)
  /\ \E n \in Clicks :
       /\ sign[p][n] = "sent"
       /\ \/ Verifies(session[p]) /\ sign' = [sign EXCEPT ![p][n] = "signed"]
          \/ sign' = [sign EXCEPT ![p][n] = "refused"]
  /\ UNCHANGED <<vars, platforms, roster, session, page, responses>>

-----------------------------------------------------------------------------
(* The platforms and their rows.                                           *)

(* DeepLinkPayload::new, with the claims that sign_deep_link gives it.     *)
Payload(p, n) ==
  [page |-> p, nth |-> n, iss |-> session[p].client_id, aud |-> session[p].iss]

(* The platform's answer to the form takes the page's place.               *)
Receive(p) ==
  /\ \E n \in Clicks :
       /\ sign[p][n] = "submitted"
       /\ sign' = [sign EXCEPT ![p][n] = "received"]
       /\ responses' = responses \cup {Payload(p, n)}
  /\ page' = [page EXCEPT ![p] = [pc |-> "gone"]]
  /\ UNCHANGED <<vars, platforms, roster, session>>

(* A registration, a seeding or an update gives the row an endpoint of its *)
(* own issuer (OwnEndpoints of Registration).  That the row can be deleted *)
(* shows in NoTokenUrl.                                                    *)
SetPlatform(i) ==
  /\ \E u \in TokenUrl :
       Owner[u] = i /\ platforms' = [platforms EXCEPT ![i] = u]
  /\ UNCHANGED <<vars, roster, browserVars>>

-----------------------------------------------------------------------------
RosterStep(p) ==
  AllowRoster(p) \/ AskForToken(p) \/ NoTokenUrl(p) \/ Listed(p)

(* What moves once the lock is had or not needed.                          *)
HandlerStep(p) ==
  \/ RosterStep(p)
  \/ (Answer(p) \/ Awake(p)) /\ UNCHANGED serviceVars

Arrives(p) == RosterArrives(p) \/ Submit(p) \/ SignFailed(p) \/ Receive(p)

ServicesNext ==
  \/ Tick /\ UNCHANGED serviceVars
  \/ \E p \in Call :
       \/ OpenPage(p) \/ LeavePage(p) \/ \E n \in Clicks : Click(p, n)
       \/ Arrives(p) \/ RosterLost(p)
       \/ RosterStep(p) \/ TokenStep(p) \/ DropRoster(p) \/ SignDeepLink(p)
  \/ \E i \in Issuer : SetPlatform(i)

allVars == <<vars, serviceVars>>

ServicesSpec == ServicesInit /\ [][ServicesNext]_allVars

(* As in ServiceToken; handlers run, and what is sent arrives or is lost.  *)
FairServicesSpec ==
  /\ ServicesSpec
  /\ \A p \in Call :
       /\ SF_allVars(Enter(p) /\ UNCHANGED serviceVars)
       /\ WF_allVars(HandlerStep(p))
       /\ WF_allVars(SignDeepLink(p))
       /\ WF_allVars(Arrives(p))

-----------------------------------------------------------------------------
(* The pages' calls are a behaviour of ServiceToken, whatever its calls    *)
(* are left with by users that leave and connections that break, so what   *)
(* is checked and proved of it holds here.                                 *)
CallsAreServiceToken == Spec

(* The platforms that have launched pages, and as which client.            *)
Launched ==
  {<<session[q].platform_iss, session[q].client_id>> :
     q \in {q \in Call : session[q] # None}}

(* A token that is shown to a platform's roster was granted by a platform  *)
(* that has launched the tool under the client id of the page's launch:    *)
(* by the page's own one, or by another that uses the same id.  The cache  *)
(* is shared by all the pages (lti_services.rs:50, client_credentials.rs:  *)
(* 108) and outlives changes of the rows.  That it is the page's own takes *)
(* client ids that differ and launches that are addressed to the tool,     *)
(* which nothing checks (jwks.rs:79).                                      *)
OwnToken ==
  \A p \in Call : roster[p] = "token" /\ call[p].pc = "returned" =>
    <<Owner[call[p].token.issued_by], session[p].client_id>> \in Launched

(* A deep linking launch is answered once, whatever the clicks, refusals   *)
(* and losses (app.ts:349 and app.ts:380).                                 *)
SubmittedOnce ==
  \A p \in Call :
    /\ Cardinality({n \in Clicks : sign[p][n] \in {"submitted", "received"}}) <= 1
    /\ Cardinality({r \in responses : r.page = p}) <= 1

(* What the page shows is true: it says "loading..." while the server has  *)
(* the request, and its button is disabled exactly while one request is    *)
(* under way or submitted.                                                 *)
PageTells ==
  \A p \in Call : IsOpen(p) =>
    /\ page[p].roster = "loading" => roster[p] \in RosterUnderWay
    /\ page[p].button = "busy" <=>
         \E n \in Clicks : sign[p][n] \in SignUnderWay
    /\ \A m, n \in Clicks :
         sign[p][m] \in SignUnderWay /\ sign[p][n] \in SignUnderWay => m = n

(* Nobody waits for ever: the roster is shown or its failure is, though    *)
(* all the pages wait for one lock, and a button that was clicked becomes  *)
(* ready again or the platform takes the page.                             *)
PageSettles ==
  \A p \in Call :
    /\ (IsOpen(p) /\ page[p].roster = "loading") ~>
         ~(IsOpen(p) /\ page[p].roster = "loading")
    /\ (IsOpen(p) /\ page[p].button = "busy") ~>
         ~(IsOpen(p) /\ page[p].button = "busy")

(* "aud: String, // iss from id token" (deep_linking.rs:53): a response is *)
(* for the platform whose launch it answers.                               *)
ResponseAddressesPlatform ==
  \A r \in responses : r.aud = session[r.page].platform_iss
=============================================================================

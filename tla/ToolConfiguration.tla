-------------------------- MODULE ToolConfiguration --------------------------
(***************************************************************************)
(* What the tool tells a platform of itself when it registers, as the      *)
(* builders of atomic-lti make it for atomic-decay, and what the handlers  *)
(* of a launch later make of the URLs in it.  A URL is a scheme, a host    *)
(* with its port, and a path.  Labels, icons, roles, custom parameters and *)
(* claims are left out; every field that a builder insists on is set, so   *)
(* that build() cannot fail here.                                          *)
(***************************************************************************)
EXTENDS Naturals, Sequences

CONSTANT Names  \* the names that the tool is reached by

Scheme == {"http", "https"}

NoPort == 0

Host == [name : Names, port : Nat]

(* https://example.com, without a path.                                    *)
BaseUrl == [scheme : Scheme, host : Host, path : {""}]

At(base, path) == [scheme |-> base.scheme, host |-> base.host, path |-> path]

DefaultPort == [s \in Scheme |-> IF s = "https" THEN 443 ELSE 80]

(* Url::parse: a port that goes without saying is dropped.                 *)
Parsed(url) ==
  IF url.host.port = DefaultPort[url.scheme]
  THEN [url EXCEPT !.host.port = NoPort]
  ELSE url

-----------------------------------------------------------------------------
(* LtiMessageBuilder.  No placements are null in the JSON, not an empty    *)
(* list; no builder makes an empty list, which stands for null here.       *)

NewMessage(base) ==
  [base_url |-> base, launch_path |-> "lti/launch",
   message_type |-> "LtiResourceLinkRequest", placements |-> <<>>]

SetDeepLinkingType(b) == [b EXCEPT !.message_type = "LtiDeepLinkingRequest"]

AddPlacement(b, placement) == [b EXCEPT !.placements = Append(@, placement)]

AddDeepLinkPlacements(b, family) ==
  [b EXCEPT !.placements = @ \o
     CASE family = "canvas" -> <<"editor_button">>
       [] family = "desire2learn" -> <<"RichTextEditor", "ContentArea">>
       [] OTHER -> <<"ContentArea">>]

AddCourseNavigationPlacement(b, family) ==
  IF family = "canvas" THEN AddPlacement(b, "course_navigation") ELSE b

(* Slip: a slash too many between the base and the path.                   *)
TargetWithSlash(b) == At(b.base_url, "/lti/launch")

MessageTarget(b) == At(b.base_url, b.launch_path)

BuildMessage(b) ==
  [type |-> b.message_type, target_link_uri |-> MessageTarget(b),
   placements |-> b.placements]

-----------------------------------------------------------------------------
(* ToolConfigurationBuilder                                                *)

NewTool(base) ==
  [base_url |-> base, init_path |-> "lti/init", redirect_path |-> "lti/redirect",
   jwks_path |-> "jwks", launch_path |-> "lti/launch", scopes |-> <<>>,
   messages |-> <<>>]

AddScope(b, scope) ==
  IF \E n \in DOMAIN b.scopes : b.scopes[n] = scope
  THEN b
  ELSE [b EXCEPT !.scopes = Append(@, scope)]

AddMessage(b, message) == [b EXCEPT !.messages = Append(@, message)]

BuildTool(b) ==
  [initiate_login_uri |-> At(b.base_url, b.init_path),
   redirect_uris |-> {At(b.base_url, b.redirect_path)},
   jwks_uri |-> At(b.base_url, b.jwks_path),
   target_link_uri |-> At(b.base_url, b.launch_path),
   scope |-> b.scopes,
   messages |-> b.messages]

(* The three messages of get_client_registration_request.                  *)
DeepLinkMessage(base, family) ==
  BuildMessage(AddDeepLinkPlacements(SetDeepLinkingType(NewMessage(base)), family))

LtiMessage(base, family) ==
  BuildMessage(AddCourseNavigationPlacement(NewMessage(base), family))

CourseMaterialsMessage(base) ==
  BuildMessage(AddPlacement(NewMessage(base), "course_materials"))

(* get_client_registration_request: the domain is set over and is that of  *)
(* the URL.                                                                *)
ClientRegistrationRequest(current_url, family) ==
  LET tool ==
        AddScope(
          AddMessage(
            AddMessage(
              AddMessage(NewTool(current_url), DeepLinkMessage(current_url, family)),
              LtiMessage(current_url, family)),
            CourseMaterialsMessage(current_url)),
          "contextmembership.readonly")
  IN [configuration |-> BuildTool(tool), domain |-> Parsed(current_url).host]

-----------------------------------------------------------------------------
(* The handlers that a platform's calls arrive at.                         *)

Routes ==
  {<<"GET", "lti/init">>, <<"POST", "lti/init">>, <<"POST", "lti/redirect">>,
   <<"POST", "lti/launch">>, <<"GET", "jwks">>, <<"GET", "lti/register">>,
   <<"POST", "lti/registration/finish">>}

(* The header that a browser sends: it leaves a default port out.          *)
HostHeader(url) == Parsed(url).host

(* The redirect_uri that init gives the platform.                          *)
RedirectUrl(host) == [scheme |-> "https", host |-> host, path |-> "lti/redirect"]

(* launch's check of the target_link_uri in the token.                     *)
TargetAgrees(target, host) ==
  Parsed(target) = [scheme |-> "https", host |-> host, path |-> "lti/launch"]

(* A platform that holds this configuration can launch each of its         *)
(* messages: it finds the keys, a login gives a redirect_uri that is       *)
(* registered, and the form that redirect makes is posted to a target that *)
(* launch agrees to.                                                       *)
Launches(c) ==
  LET login == c.initiate_login_uri
      redirect == RedirectUrl(HostHeader(login))
  IN /\ <<"GET", c.jwks_uri.path>> \in Routes
     /\ {<<"GET", login.path>>, <<"POST", login.path>>} \subseteq Routes
     /\ redirect \in c.redirect_uris
     /\ <<"POST", redirect.path>> \in Routes
     /\ \A n \in DOMAIN c.messages :
          LET target == c.messages[n].target_link_uri
          IN /\ <<"POST", target.path>> \in Routes
             /\ TargetAgrees(target, HostHeader(target))
=============================================================================

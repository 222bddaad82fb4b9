------------------------- MODULE DynamicRegistration -------------------------
(***************************************************************************)
(* A dynamic registration from the platform's invitation to the row in     *)
(* lti_registrations.  A platform opens /lti/register in a tab of an       *)
(* administrator's browser; register draws a form from the platform's      *)
(* document; the browser posts it, as often as the user likes, and         *)
(* registration_finish builds the tool's configuration from the address of *)
(* this request and from the form, sends it to the platform, and stores    *)
(* what Registration stores.  Between any two steps the platform may       *)
(* publish another document, and nothing of a tab is kept on the server:   *)
(* what finish knows of the invitation is what the form carries.           *)
(*                                                                         *)
(* A process of Registration is a tab here, with the handler that serves   *)
(* it.                                                                     *)
(***************************************************************************)
EXTENDS Registration, ToolConfiguration

CONSTANTS
  Endpoint,  \* registration endpoints
  Owner,     \* the platform of each
  Family,    \* product family codes
  TokenOf,   \* the registration_token that each platform gives, "" for none
  Front      \* current_url, by the proxies that a request may come through

ASSUME DynamicAssumption ==
  /\ Owner \in [Endpoint -> Issuer]
  /\ TokenOf \in [Issuer -> STRING]
  /\ Front \subseteq BaseUrl
  /\ \A f \in Front : Parsed(f) = f
  /\ "" \in Family

VARIABLES
  document,  \* the openid-configuration that each platform publishes
  tab,       \* what each tab shows, or the request that it waits for
  invited,   \* history: the platform and the family that opened the tab
  held       \* the configuration that a platform holds of each client

dynamicVars == <<document, tab, invited, held>>

-----------------------------------------------------------------------------
Form ==
  [registration_endpoint : Endpoint, registration_token : STRING,
   product_family_code : Family, openid_configuration : Issuer]

Requests == {ClientRegistrationRequest(f, family) : f \in Front, family \in Family}

Tab ==
  [pc : {"blank", "refused"}]
    \cup [pc : {"form", "finishing", "complete", "failed"}, form : Form]
    \cup [pc : {"posting"}, form : Form, request : Requests]

Invitation == [issuer : Issuer, family : Family]

DynamicTypeOK ==
  /\ TypeOK
  /\ document \in [Issuer -> [registration_endpoint : Endpoint, family : Family]]
  /\ \A i \in Issuer : Owner[document[i].registration_endpoint] = i
  /\ tab \in [Process -> Tab]
  /\ DOMAIN invited \subseteq Process
  /\ \A p \in DOMAIN invited : invited[p] \in Invitation
  /\ DOMAIN held = clients
  /\ \A k \in clients : held[k] \in Requests

DynamicInit ==
  /\ Init
  /\ document \in [Issuer -> [registration_endpoint : Endpoint, family : Family]]
  /\ \A i \in Issuer : Owner[document[i].registration_endpoint] = i
  /\ tab = [p \in Process |-> [pc |-> "blank"]]
  /\ invited = [p \in {} |-> None]
  /\ held = [k \in {} |-> None]

-----------------------------------------------------------------------------
(* The platforms.                                                          *)

(* A platform moves its endpoint, or changes what it says of itself.       *)
Publish(i, endpoint, family) ==
  /\ Owner[endpoint] = i
  /\ document' = [document EXCEPT ![i] =
       [registration_endpoint |-> endpoint, family |-> family]]
  /\ UNCHANGED <<vars, tab, invited, held>>

(* The platform refuses the request, or cannot be reached; or the host of  *)
(* the request does not parse and it is never made.                        *)
PostFails(p) ==
  /\ tab[p].pc = "posting"
  /\ tab' = [tab EXCEPT ![p] = [pc |-> "failed", form |-> tab[p].form]]
  /\ UNCHANGED <<vars, document, invited, held>>

-----------------------------------------------------------------------------
(* Slip: the form has no product_family_code, and finish takes "".         *)
FormWithoutFamily(i) ==
  [registration_endpoint |-> document[i].registration_endpoint,
   registration_token |-> TokenOf[i],
   product_family_code |-> "",
   openid_configuration |-> i]

(* The hidden fields of dynamic_registration_init_html.                    *)
FormOf(i) ==
  [registration_endpoint |-> document[i].registration_endpoint,
   registration_token |-> TokenOf[i],
   product_family_code |-> document[i].family,
   openid_configuration |-> i]

(* Slip: a page without the hidden fields.                                 *)
RegisterBare(p, i, claimed) ==
  /\ tab[p].pc = "blank"
  /\ tab' = [tab EXCEPT ![p] = [pc |-> "form"]]
  /\ invited' = Put(invited, p, [issuer |-> i, family |-> document[i].family])
  /\ UNCHANGED <<vars, document, held>>

(* register: the platform's document is fetched, and has to claim the      *)
(* issuer that it was found at.                                            *)
Register(p, i, claimed) ==
  /\ tab[p].pc = "blank"
  /\ \/ /\ claimed = i
        /\ tab' = [tab EXCEPT ![p] = [pc |-> "form", form |-> FormOf(i)]]
        /\ invited' = Put(invited, p, [issuer |-> i, family |-> document[i].family])
     \/ /\ tab' = [tab EXCEPT ![p] = [pc |-> "refused"]]
        /\ UNCHANGED invited
  /\ UNCHANGED <<vars, document, held>>

(* registration_finish, up to the request to the platform.  The user may   *)
(* come back to the form and submit it again.                              *)
Submit(p, current_url) ==
  /\ tab[p].pc \in {"form", "complete", "failed"}
  /\ tab' = [tab EXCEPT ![p] =
       [pc |-> "posting", form |-> tab[p].form,
        request |-> ClientRegistrationRequest(current_url, tab[p].form.product_family_code)]]
  /\ UNCHANGED <<vars, document, invited, held>>

(* register_tool: the platform that owns the endpoint registers the tool   *)
(* as c, an old client or a new one, and answers.                          *)
Receive(p, c) ==
  /\ tab[p].pc = "posting"
  /\ LET form == tab[p].form
         client == <<Owner[form.registration_endpoint], c>>
     IN /\ tab[p].form.registration_token = TokenOf[client[1]]
        /\ clients' = clients \cup {client}
        /\ held' = Put(held, client, tab[p].request)
        /\ Begin(p, [pc |-> "fetching", issuer |-> form.openid_configuration, client |-> c])
        /\ tab' = [tab EXCEPT ![p] = [pc |-> "finishing", form |-> form]]
  /\ UNCHANGED <<platforms, registrations, next_id, lost, document, invited>>

(* The rest of registration_finish is that of Registration.                *)
Answer(p, pc) == tab' = [tab EXCEPT ![p] = [pc |-> pc, form |-> tab[p].form]]

Refetch(p, claimed) ==
  /\ FetchConfig(p, claimed)
  /\ Answer(p, IF claimed = op[p].issuer THEN "finishing" ELSE "failed")
  /\ UNCHANGED <<document, invited, held>>

(* Slip: the second look at the document is skipped.                       *)
CompleteUnfetched(p) ==
  /\ op[p].pc = "fetching"
  /\ UpsertPlatform(op[p].issuer, op[p].issuer)
  /\ UpsertRegistration(<<platforms'[op[p].issuer].id, op[p].client>>)
  /\ Idle(p)
  /\ Answer(p, "complete")
  /\ UNCHANGED <<clients, lost, document, invited, held>>

Complete(p) ==
  /\ Store(p)
  /\ Answer(p, "complete")
  /\ UNCHANGED <<document, invited, held>>

Fail(p) ==
  /\ FinishFails(p)
  /\ Answer(p, "failed")
  /\ UNCHANGED <<document, invited, held>>

-----------------------------------------------------------------------------
Exchange(p) ==
  \/ \E i, claimed \in Issuer : Register(p, i, claimed)
  \/ \E f \in Front : Submit(p, f)
  \/ \E c \in Client : Receive(p, c)
  \/ PostFails(p)
  \/ \E claimed \in Issuer : Refetch(p, claimed)
  \/ Complete(p)
  \/ Fail(p)

DynamicNext ==
  \/ \E p \in Process : Exchange(p)
  \/ \E i \in Issuer, e \in Endpoint, family \in Family : Publish(i, e, family)
  \/ \E i \in Issuer : DeletePlatform(i) /\ UNCHANGED dynamicVars

DynamicSpec == DynamicInit /\ [][DynamicNext]_<<vars, dynamicVars>>

-----------------------------------------------------------------------------
(* What registration_finish does to the tables is what Registration says   *)
(* it does: the client that a platform has registered is looked up and     *)
(* stored under that platform, however its document changes between the    *)
(* page and the end (the form's registration_endpoint and                  *)
(* openid_configuration are of one document).                              *)
StoresAsRegistration == Spec

(* A request goes to the platform that opened its tab, with the token that *)
(* platform gave, and offers the placements of the product family that the *)
(* platform named (the hidden fields of dynamic_registration_init_html,    *)
(* get_client_registration_request).                                       *)
RegisteredAsInvited ==
  \A p \in Process :
    tab[p].pc = "posting" =>
      /\ p \in DOMAIN invited
      /\ Owner[tab[p].form.registration_endpoint] = invited[p].issuer
      /\ tab[p].form.registration_token = TokenOf[invited[p].issuer]
      /\ \E f \in Front : tab[p].request = ClientRegistrationRequest(f, invited[p].family)

(* A tool that was registered through https can be launched: what a        *)
(* platform was told of it agrees with what init, redirect and launch      *)
(* expect, at whichever host and port (get_client_registration_request,    *)
(* init's redirect_url, launch's requested_url).                           *)
RegisteredToolLaunches ==
  \A k \in DOMAIN held :
    held[k].configuration.initiate_login_uri.scheme = "https" =>
      Launches(held[k].configuration)
=============================================================================

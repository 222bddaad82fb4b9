---------------------- MODULE DynamicRegistrationProofs ----------------------
(***************************************************************************)
(* What DynamicRegistration guarantees for any number of tabs, platforms,  *)
(* endpoints and clients, any product families, and any proxies in front.  *)
(***************************************************************************)
EXTENDS DynamicRegistration, RegistrationProofs

-----------------------------------------------------------------------------
(* The configuration that is sent.                                         *)

(* A URL on a host without a default port is its own parse.                *)
LEMMA ParsedAt ==
  ASSUME NEW f \in BaseUrl, Parsed(f) = f, NEW path
  PROVE  Parsed(At(f, path)) = At(f, path)
BY DEF BaseUrl, Host, At, Parsed

LEMMA DeepLinkTarget ==
  ASSUME NEW base, NEW family
  PROVE  DeepLinkMessage(base, family).target_link_uri = At(base, "lti/launch")
BY DEF DeepLinkMessage, BuildMessage, MessageTarget, AddDeepLinkPlacements,
       SetDeepLinkingType, NewMessage

LEMMA LtiTarget ==
  ASSUME NEW base, NEW family
  PROVE  LtiMessage(base, family).target_link_uri = At(base, "lti/launch")
BY DEF LtiMessage, BuildMessage, MessageTarget, AddCourseNavigationPlacement,
       AddPlacement, NewMessage

LEMMA CourseMaterialsTarget ==
  ASSUME NEW base
  PROVE  CourseMaterialsMessage(base).target_link_uri = At(base, "lti/launch")
BY DEF CourseMaterialsMessage, BuildMessage, MessageTarget, AddPlacement, NewMessage

LEMMA ThreeMessages ==
  ASSUME NEW a, NEW b, NEW c
  PROVE  LET s == Append(Append(Append(<<>>, a), b), c)
         IN \A n \in DOMAIN s : s[n] \in {a, b, c}
OBVIOUS

(* What build() makes of the calls of get_client_registration_request.     *)
LEMMA Sent ==
  ASSUME NEW base, NEW family
  PROVE  LET c == ClientRegistrationRequest(base, family).configuration
         IN /\ c.initiate_login_uri = At(base, "lti/init")
            /\ c.redirect_uris = {At(base, "lti/redirect")}
            /\ c.jwks_uri = At(base, "jwks")
            /\ \A n \in DOMAIN c.messages :
                 c.messages[n].target_link_uri = At(base, "lti/launch")
<1>. DEFINE Tool(messages) ==
              [base_url |-> base, init_path |-> "lti/init",
               redirect_path |-> "lti/redirect", jwks_path |-> "jwks",
               launch_path |-> "lti/launch", scopes |-> <<>>, messages |-> messages]
            tool == Tool(Append(Append(Append(<<>>, DeepLinkMessage(base, family)),
                                       LtiMessage(base, family)),
                                CourseMaterialsMessage(base)))
<1>1. AddMessage(AddMessage(AddMessage(NewTool(base), DeepLinkMessage(base, family)),
                            LtiMessage(base, family)), CourseMaterialsMessage(base)) = tool
  <2>1. ASSUME NEW s, NEW m PROVE AddMessage(Tool(s), m) = Tool(Append(s, m))
    <3>1. \A x : [Tool(s) EXCEPT !.messages = x] = Tool(x)
      OBVIOUS
    <3>2. Tool(s).messages = s
      OBVIOUS
    <3>. HIDE DEF Tool
    <3>. QED
      BY <3>1, <3>2 DEF AddMessage
  <2>2. NewTool(base) = Tool(<<>>)
    BY DEF NewTool
  <2>. HIDE DEF Tool
  <2>3. AddMessage(NewTool(base), DeepLinkMessage(base, family))
          = Tool(Append(<<>>, DeepLinkMessage(base, family)))
    BY <2>1, <2>2
  <2>4. AddMessage(Tool(Append(<<>>, DeepLinkMessage(base, family))),
                   LtiMessage(base, family))
          = Tool(Append(Append(<<>>, DeepLinkMessage(base, family)),
                        LtiMessage(base, family)))
    BY <2>1
  <2>5. AddMessage(Tool(Append(Append(<<>>, DeepLinkMessage(base, family)),
                               LtiMessage(base, family))),
                   CourseMaterialsMessage(base)) = tool
    BY <2>1
  <2>. QED
    BY <2>3, <2>4, <2>5
<1>2. ClientRegistrationRequest(base, family).configuration
        = BuildTool(AddScope(tool, "contextmembership.readonly"))
  BY <1>1 DEF ClientRegistrationRequest
<1>. QED
  BY <1>2, DeepLinkTarget, LtiTarget, CourseMaterialsTarget, ThreeMessages
  DEF BuildTool, AddScope

LEMMA HttpsLaunches ==
  ASSUME NEW f \in Front, NEW family \in Family,
         ClientRegistrationRequest(f, family).configuration.initiate_login_uri.scheme = "https"
  PROVE  Launches(ClientRegistrationRequest(f, family).configuration)
<1>. DEFINE c == ClientRegistrationRequest(f, family).configuration
<1>0. /\ c.initiate_login_uri = At(f, "lti/init")
      /\ c.redirect_uris = {At(f, "lti/redirect")}
      /\ c.jwks_uri = At(f, "jwks")
      /\ \A n \in DOMAIN c.messages : c.messages[n].target_link_uri = At(f, "lti/launch")
  BY Sent
<1>1. f \in BaseUrl /\ Parsed(f) = f
  BY DynamicAssumption
<1>. HIDE DEF c
<1>2. f.scheme = "https"
  BY <1>0 DEF At, c
<1>3. \A path : HostHeader(At(f, path)) = f.host
  BY <1>1, ParsedAt DEF HostHeader, At
<1>4. RedirectUrl(f.host) = At(f, "lti/redirect")
  BY <1>2 DEF RedirectUrl, At
<1>5. TargetAgrees(At(f, "lti/launch"), f.host)
  BY <1>1, <1>2, ParsedAt DEF TargetAgrees, At
<1>6. Launches(c)
  BY <1>0, <1>1, <1>3, <1>4, <1>5 DEF Launches, Routes, At
<1>. QED
  BY <1>6 DEF c

-----------------------------------------------------------------------------
(* The invariant.                                                          *)

Drawn == {"form", "posting", "finishing", "complete", "failed"}

DocumentsOK ==
  /\ document \in [Issuer -> [registration_endpoint : Endpoint, family : Family]]
  /\ \A i \in Issuer : Owner[document[i].registration_endpoint] = i

InvitedOK ==
  /\ DOMAIN invited \subseteq Process
  /\ \A p \in DOMAIN invited : invited[p] \in Invitation

(* Everything in a form is of the platform that opened its tab.            *)
FormIsOf(form, invitation) ==
  /\ Owner[form.registration_endpoint] = invitation.issuer
  /\ form.registration_token = TokenOf[invitation.issuer]
  /\ form.product_family_code = invitation.family
  /\ form.openid_configuration = invitation.issuer

TabOK(p) ==
  /\ tab[p].pc \in Drawn => p \in DOMAIN invited /\ FormIsOf(tab[p].form, invited[p])
  /\ tab[p].pc = "posting" =>
       \E f \in Front : tab[p].request = ClientRegistrationRequest(f, invited[p].family)
  /\ op[p].pc \in InExchange => tab[p].pc = "finishing"

TabsOK ==
  /\ tab \in [Process -> Tab]
  /\ \A p \in Process : TabOK(p)

HeldOK ==
  /\ DOMAIN held = clients
  /\ \A k \in clients : held[k] \in Requests

DynamicInv == IInv /\ DocumentsOK /\ InvitedOK /\ TabsOK /\ HeldOK

LEMMA DynamicInvTypeOK == DynamicInv => DynamicTypeOK
BY IInvTypeOK DEF DynamicInv, DocumentsOK, InvitedOK, TabsOK, HeldOK, DynamicTypeOK

LEMMA InitDynamicInv == DynamicInit => DynamicInv
<1>. SUFFICES ASSUME DynamicInit PROVE DynamicInv
  OBVIOUS
<1>1. IInv
  BY InitIInv DEF DynamicInit
<1>2. DocumentsOK /\ InvitedOK /\ HeldOK
  BY DEF DynamicInit, Init, DocumentsOK, InvitedOK, HeldOK
<1>3. TabsOK
  BY DEF DynamicInit, Init, TabsOK, Tab, TabOK, Drawn, InExchange
<1>. QED
  BY <1>1, <1>2, <1>3 DEF DynamicInv

-----------------------------------------------------------------------------
(* The tabs.                                                               *)

LEMMA DrawnForm ==
  ASSUME tab \in [Process -> Tab], NEW p \in Process, tab[p].pc \in Drawn
  PROVE  /\ tab[p].form \in Form
         /\ tab[p].pc = "posting" => tab[p].request \in Requests
BY DEF Tab, Drawn

LEMMA IdleTab ==
  ASSUME NEW form \in Form, NEW pc \in {"form", "finishing", "complete", "failed"}
  PROVE  /\ [pc |-> pc, form |-> form] \in Tab
         /\ [pc |-> pc, form |-> form].pc = pc
         /\ [pc |-> pc, form |-> form].form = form
BY DEF Tab

(* One tab goes on with the form that it has.                              *)
LEMMA TabGoesOn ==
  ASSUME DynamicInv, NEW p \in Process, tab[p].pc \in Drawn,
         NEW pc \in {"form", "finishing", "complete", "failed"},
         tab' = [tab EXCEPT ![p] = [pc |-> pc, form |-> tab[p].form]],
         UNCHANGED invited,
         op' \in [Process -> Local],
         \A q \in Process : q # p => op'[q] = op[q],
         op'[p].pc \in InExchange => pc = "finishing"
  PROVE  TabsOK' /\ InvitedOK'
<1>1. tab[p].form \in Form
  BY DrawnForm DEF DynamicInv, TabsOK
<1>2. tab' \in [Process -> Tab]
  BY <1>1, IdleTab DEF DynamicInv, TabsOK
<1>3. TabOK(p)'
  <2>1. tab'[p].pc = pc /\ tab'[p].form = tab[p].form
    BY <1>1, IdleTab DEF DynamicInv, TabsOK
  <2>. QED
    BY <2>1 DEF DynamicInv, TabsOK, TabOK
<1>4. ASSUME NEW q \in Process, q # p PROVE TabOK(q)'
  BY <1>4 DEF DynamicInv, TabsOK, TabOK
<1>. QED
  BY <1>2, <1>3, <1>4 DEF TabsOK, DynamicInv, InvitedOK

LEMMA RegisterStep ==
  ASSUME DynamicInv, NEW p \in Process, NEW i \in Issuer, NEW claimed \in Issuer,
         Register(p, i, claimed)
  PROVE  TabsOK' /\ InvitedOK'
<1>. USE DEF DynamicInv
<1>1. op[p].pc \notin InExchange /\ UNCHANGED op
  BY DEF Register, TabsOK, TabOK, vars, InExchange
<1>2. CASE tab' = [tab EXCEPT ![p] = [pc |-> "refused"]] /\ UNCHANGED invited
  <2>1. tab' \in [Process -> Tab] /\ tab'[p].pc = "refused"
    BY <1>2 DEF TabsOK, Tab
  <2>2. \A q \in Process : TabOK(q)'
    BY <1>1, <1>2, <2>1 DEF TabsOK, TabOK, Drawn
  <2>. QED
    BY <1>2, <2>1, <2>2 DEF TabsOK, InvitedOK
<1>3. CASE /\ tab' = [tab EXCEPT ![p] = [pc |-> "form", form |-> FormOf(i)]]
           /\ invited' = Put(invited, p, [issuer |-> i, family |-> document[i].family])
  <2>. DEFINE invitation == [issuer |-> i, family |-> document[i].family]
  <2>1. FormOf(i) \in Form /\ FormIsOf(FormOf(i), invitation)
    BY DynamicAssumption DEF FormOf, Form, FormIsOf, DocumentsOK
  <2>2. invitation \in Invitation
    BY DEF Invitation, DocumentsOK
  <2>3. /\ DOMAIN invited' = DOMAIN invited \cup {p}
        /\ invited'[p] = invitation
        /\ \A q \in DOMAIN invited : q # p => invited'[q] = invited[q]
    BY <1>3 DEF Put
  <2>4. InvitedOK'
    BY <2>2, <2>3 DEF InvitedOK
  <2>. HIDE DEF invitation
  <2>5. /\ tab' \in [Process -> Tab]
        /\ tab'[p].pc = "form" /\ tab'[p].form = FormOf(i)
    BY <1>3, <2>1, IdleTab DEF TabsOK
  <2>6. TabOK(p)'
    BY <1>1, <2>1, <2>3, <2>5 DEF TabOK
  <2>7. ASSUME NEW q \in Process, q # p PROVE TabOK(q)'
    <3>1. tab'[q] = tab[q] /\ op'[q] = op[q] /\ TabOK(q)
      BY <1>1, <1>3, <2>7 DEF TabsOK
    <3>2. q \in DOMAIN invited => q \in DOMAIN invited' /\ invited'[q] = invited[q]
      BY <2>3, <2>7
    <3>. QED
      BY <3>1, <3>2 DEF TabOK, Drawn
  <2>. QED
    BY <2>4, <2>5, <2>6, <2>7 DEF TabsOK
<1>. QED
  BY <1>2, <1>3 DEF Register

LEMMA SubmitStep ==
  ASSUME DynamicInv, NEW p \in Process, NEW f \in Front, Submit(p, f)
  PROVE  TabsOK' /\ InvitedOK'
<1>. USE DEF DynamicInv
<1>. DEFINE request == ClientRegistrationRequest(f, tab[p].form.product_family_code)
<1>1. /\ tab[p].pc \in Drawn /\ op[p].pc \notin InExchange
      /\ UNCHANGED <<op, invited>>
      /\ p \in DOMAIN invited /\ FormIsOf(tab[p].form, invited[p])
  BY DEF Submit, TabsOK, TabOK, vars, Drawn, InExchange
<1>2. tab[p].form \in Form
  BY <1>1, DrawnForm DEF TabsOK
<1>3. request \in Requests /\ request = ClientRegistrationRequest(f, invited[p].family)
  BY <1>1, <1>2 DEF Requests, Form, FormIsOf
<1>. HIDE DEF request
<1>4. tab' = [tab EXCEPT ![p] = [pc |-> "posting", form |-> tab[p].form, request |-> request]]
  BY DEF Submit, request
<1>5. tab' \in [Process -> Tab]
  BY <1>2, <1>3, <1>4 DEF TabsOK, Tab
<1>6. /\ tab'[p].pc = "posting" /\ tab'[p].form = tab[p].form
      /\ tab'[p].request = request
  BY <1>4 DEF TabsOK
<1>7. TabOK(p)'
  BY <1>1, <1>3, <1>6 DEF TabOK
<1>8. ASSUME NEW q \in Process, q # p PROVE TabOK(q)'
  BY <1>1, <1>4, <1>8 DEF TabsOK, TabOK
<1>. QED
  BY <1>1, <1>5, <1>7, <1>8 DEF TabsOK, InvitedOK

-----------------------------------------------------------------------------
(* The tables.                                                             *)

(* The platform that answers is the one whose document finish fetches.     *)
LEMMA ReceiveIsRegisterTool ==
  ASSUME DynamicInv, NEW p \in Process, NEW c \in Client, Receive(p, c)
  PROVE  LET i == tab[p].form.openid_configuration
         IN /\ i \in Issuer
            /\ RegisterTool(p, i, c)
            /\ held' = Put(held, <<i, c>>, tab[p].request)
<1>. USE DEF DynamicInv
<1>1. tab[p].pc \in Drawn /\ FormIsOf(tab[p].form, invited[p])
  BY DEF Receive, TabsOK, TabOK, Drawn
<1>2. tab[p].form \in Form
  BY <1>1, DrawnForm DEF TabsOK
<1>3. Owner[tab[p].form.registration_endpoint] = tab[p].form.openid_configuration
  BY <1>1 DEF FormIsOf
<1>4. tab[p].form.openid_configuration \in Issuer
  BY <1>2 DEF Form
<1>. QED
  BY <1>3, <1>4 DEF Receive, RegisterTool

LEMMA StepRefines ==
  DynamicInv /\ [DynamicNext]_<<vars, dynamicVars>> => [Next]_vars
<1>. SUFFICES ASSUME DynamicInv, DynamicNext PROVE [Next]_vars
  OBVIOUS
<1>1. ASSUME NEW p \in Process, Exchange(p) PROVE [Next]_vars
  <2>1. CASE \E i, claimed \in Issuer : Register(p, i, claimed)
    BY <2>1 DEF Register
  <2>2. CASE \E f \in Front : Submit(p, f)
    BY <2>2 DEF Submit
  <2>3. ASSUME NEW c \in Client, Receive(p, c) PROVE [Next]_vars
    BY <2>3, ReceiveIsRegisterTool DEF Finish, Next
  <2>4. CASE PostFails(p)
    BY <2>4 DEF PostFails
  <2>5. CASE \E claimed \in Issuer : Refetch(p, claimed)
    BY <2>5 DEF Refetch, Finish, Next
  <2>6. CASE Complete(p) \/ Fail(p)
    BY <2>6 DEF Complete, Fail, Finish, Next
  <2>. QED
    BY <1>1, <2>1, <2>2, <2>3, <2>4, <2>5, <2>6 DEF Exchange
<1>2. ASSUME NEW i \in Issuer, DeletePlatform(i) PROVE Next
  BY <1>2 DEF Next
<1>3. ASSUME NEW i \in Issuer, NEW e \in Endpoint, NEW family \in Family,
             Publish(i, e, family)
      PROVE  UNCHANGED vars
  BY <1>3 DEF Publish
<1>. QED
  BY <1>1, <1>2, <1>3 DEF DynamicNext

(* How the rest of registration_finish moves op.                           *)
LEMMA FinishOp ==
  ASSUME op \in [Process -> Local], NEW p \in Process, op[p].pc \in InExchange,
         \/ \E claimed \in Issuer :
              FetchConfig(p, claimed) /\ claimed # op[p].issuer
         \/ Store(p) \/ FinishFails(p)
  PROVE  op' = [op EXCEPT ![p] = [pc |-> "idle"]]
BY DEF FetchConfig, Store, FinishFails, GiveUp, Idle

LEMMA FinishTabs ==
  ASSUME DynamicInv, op' \in [Process -> Local], NEW p \in Process,
         \/ \E claimed \in Issuer : Refetch(p, claimed)
         \/ Complete(p) \/ Fail(p)
  PROVE  TabsOK' /\ InvitedOK'
<1>. USE DEF DynamicInv
<1>1. op[p].pc \in InExchange /\ tab[p].pc = "finishing" /\ op \in [Process -> Local]
  BY DEF Refetch, Complete, Fail, FetchConfig, Store, FinishFails, TabsOK, TabOK,
         InExchange, IInv
<1>2. tab[p].pc \in Drawn
  BY <1>1 DEF Drawn
<1>3. ASSUME NEW claimed \in Issuer, Refetch(p, claimed), claimed = op[p].issuer
      PROVE  TabsOK' /\ InvitedOK'
  <2>1. /\ tab' = [tab EXCEPT ![p] = [pc |-> "finishing", form |-> tab[p].form]]
        /\ UNCHANGED invited
        /\ \A q \in Process : q # p => op'[q] = op[q]
    BY <1>1, <1>3 DEF Refetch, Answer, FetchConfig
  <2>. QED
    BY <1>2, <2>1, TabGoesOn
<1>4. ASSUME NEW pc \in {"complete", "failed"}, Answer(p, pc), UNCHANGED invited,
             op' = [op EXCEPT ![p] = [pc |-> "idle"]]
      PROVE  TabsOK' /\ InvitedOK'
  <2>1. /\ tab' = [tab EXCEPT ![p] = [pc |-> pc, form |-> tab[p].form]]
        /\ \A q \in Process : q # p => op'[q] = op[q]
        /\ op'[p].pc \notin InExchange
    BY <1>1, <1>4 DEF Answer, InExchange
  <2>. QED
    BY <1>2, <1>4, <2>1, TabGoesOn
<1>5. ASSUME NEW claimed \in Issuer, Refetch(p, claimed), claimed # op[p].issuer
      PROVE  TabsOK' /\ InvitedOK'
  BY <1>1, <1>4, <1>5, FinishOp DEF Refetch
<1>6. CASE Complete(p)
  BY <1>1, <1>4, <1>6, FinishOp DEF Complete
<1>7. CASE Fail(p)
  BY <1>1, <1>4, <1>7, FinishOp DEF Fail
<1>. QED
  BY <1>3, <1>5, <1>6, <1>7

LEMMA ReceiveTabs ==
  ASSUME DynamicInv, op' \in [Process -> Local], NEW p \in Process, NEW c \in Client,
         Receive(p, c)
  PROVE  TabsOK' /\ InvitedOK' /\ HeldOK'
<1>. USE DEF DynamicInv
<1>1. tab[p].pc \in Drawn /\ tab[p].request \in Requests
  BY DrawnForm DEF Receive, TabsOK, Drawn
<1>2. /\ tab' = [tab EXCEPT ![p] = [pc |-> "finishing", form |-> tab[p].form]]
      /\ UNCHANGED invited
      /\ \A q \in Process : q # p => op'[q] = op[q]
  BY DEF Receive, Begin, IInv
<1>3. TabsOK' /\ InvitedOK'
  BY <1>1, <1>2, TabGoesOn
<1>4. HeldOK'
  <2>1. PICK k : held' = Put(held, k, tab[p].request) /\ clients' = clients \cup {k}
    BY DEF Receive
  <2>. QED
    BY <1>1, <2>1 DEF HeldOK, Put
<1>. QED
  BY <1>3, <1>4

LEMMA NextDynamicInv ==
  DynamicInv /\ [DynamicNext]_<<vars, dynamicVars>> => DynamicInv'
<1>. SUFFICES ASSUME DynamicInv, [DynamicNext]_<<vars, dynamicVars>> PROVE DynamicInv'
  OBVIOUS
<1>1. IInv' /\ op' \in [Process -> Local]
  BY StepRefines, NextIInv DEF DynamicInv, IInv
<1>. DEFINE Rest == DocumentsOK' /\ InvitedOK' /\ TabsOK' /\ HeldOK'
<1>2. ASSUME UNCHANGED <<vars, dynamicVars>> PROVE Rest
  BY <1>2 DEF vars, dynamicVars, DynamicInv, DocumentsOK, InvitedOK, TabsOK, TabOK, HeldOK
<1>3. ASSUME NEW p \in Process, Exchange(p) PROVE Rest
  <2>1. DocumentsOK'
    BY <1>3 DEF Exchange, Register, Submit, Receive, PostFails, Refetch, Complete, Fail,
                DynamicInv, DocumentsOK
  <2>2. CASE \E i, claimed \in Issuer : Register(p, i, claimed)
    BY <2>1, <2>2, RegisterStep DEF Register, vars, DynamicInv, HeldOK
  <2>3. CASE \E f \in Front : Submit(p, f)
    BY <2>1, <2>3, SubmitStep DEF Submit, vars, DynamicInv, HeldOK
  <2>4. CASE \E c \in Client : Receive(p, c)
    BY <1>1, <2>1, <2>4, ReceiveTabs
  <2>5. CASE PostFails(p)
    <3>1. /\ tab[p].pc \in Drawn
          /\ tab' = [tab EXCEPT ![p] = [pc |-> "failed", form |-> tab[p].form]]
          /\ op[p].pc \notin InExchange
          /\ UNCHANGED <<op, invited, clients, held>>
      BY <2>5 DEF PostFails, vars, DynamicInv, TabsOK, TabOK, Drawn
    <3>. QED
      BY <1>1, <2>1, <3>1, TabGoesOn DEF DynamicInv, HeldOK
  <2>6. CASE (\E claimed \in Issuer : Refetch(p, claimed)) \/ Complete(p) \/ Fail(p)
    <3>1. UNCHANGED <<clients, held>>
      BY <2>6 DEF Refetch, Complete, Fail, FetchConfig, Store, FinishFails
    <3>. QED
      BY <1>1, <2>1, <2>6, <3>1, FinishTabs DEF DynamicInv, HeldOK
  <2>. QED
    BY <1>3, <2>2, <2>3, <2>4, <2>5, <2>6 DEF Exchange
<1>4. ASSUME NEW i \in Issuer, NEW e \in Endpoint, NEW family \in Family,
             Publish(i, e, family)
      PROVE  Rest
  BY <1>4 DEF Publish, vars, DynamicInv, DocumentsOK, InvitedOK, TabsOK, TabOK, HeldOK
<1>5. ASSUME NEW i \in Issuer, DeletePlatform(i), UNCHANGED dynamicVars PROVE Rest
  <2>1. UNCHANGED <<op, clients, document, tab, invited, held>>
    BY <1>5 DEF DeletePlatform, dynamicVars
  <2>. QED
    BY <2>1 DEF DynamicInv, DocumentsOK, InvitedOK, TabsOK, TabOK, HeldOK
<1>6. Rest
  BY <1>2, <1>3, <1>4, <1>5 DEF DynamicNext
<1>. QED
  BY <1>1, <1>6 DEF DynamicInv

LEMMA SpecDynamicInv == DynamicSpec => []DynamicInv
BY InitDynamicInv, NextDynamicInv, PTL DEF DynamicSpec

-----------------------------------------------------------------------------
(* The forms, the requests and the configurations that platforms hold keep *)
(* their types.                                                            *)
THEOREM DynamicTypeCorrect == DynamicSpec => []DynamicTypeOK
BY SpecDynamicInv, DynamicInvTypeOK, PTL

(* registration_finish, fed by the forms of register, is the one that      *)
(* Registration has, however documents and tabs change in between.         *)
THEOREM FinishRefines == DynamicSpec => StoresAsRegistration
<1>1. DynamicInit => Init
  BY DEF DynamicInit
<1>2. DynamicSpec => [][Next]_vars
  BY StepRefines, SpecDynamicInv, PTL DEF DynamicSpec
<1>. QED
  BY <1>1, <1>2, PTL DEF DynamicSpec, StoresAsRegistration, Spec

(* So the tables that dynamic registrations fill are as Registration's:    *)
(* endpoints come from their issuer's own document, and a client that a    *)
(* platform has registered is on record.                                   *)
THEOREM FormsKeepTables == DynamicSpec => [](OwnEndpoints /\ ClientsAreRecorded)
BY FinishRefines, EndpointsAreOwn, Recording, PTL DEF StoresAsRegistration

(* Whatever else is open or published meanwhile, a platform is sent what   *)
(* its own invitation asked for.                                           *)
THEOREM InvitationsAreKept == DynamicSpec => []RegisteredAsInvited
<1>1. DynamicInv => RegisteredAsInvited
  BY DEF DynamicInv, TabsOK, TabOK, FormIsOf, Drawn, RegisteredAsInvited
<1>. QED
  BY <1>1, SpecDynamicInv, PTL

(* Under any name and port, and for any product family, a tool that was    *)
(* registered through https can be launched.                               *)
THEOREM RegisteredToolsLaunch == DynamicSpec => []RegisteredToolLaunches
<1>1. ASSUME DynamicInv, NEW k \in DOMAIN held,
             held[k].configuration.initiate_login_uri.scheme = "https"
      PROVE  Launches(held[k].configuration)
  <2>1. PICK f \in Front, family \in Family :
          held[k] = ClientRegistrationRequest(f, family)
    BY <1>1 DEF DynamicInv, HeldOK, Requests
  <2>. QED
    BY <1>1, <2>1, HttpsLaunches
<1>2. DynamicInv => RegisteredToolLaunches
  BY <1>1 DEF RegisteredToolLaunches
<1>. QED
  BY <1>2, SpecDynamicInv, PTL
=============================================================================

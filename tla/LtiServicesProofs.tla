-------------------------- MODULE LtiServicesProofs --------------------------
(***************************************************************************)
(* What LtiServices guarantees for any number of pages, platforms, clicks  *)
(* and endpoints: its calls are those of ServiceToken, a token comes from  *)
(* a platform that launched under the client id it is used for, and a      *)
(* launch is answered once.                                                *)
(***************************************************************************)
EXTENDS LtiServices, ServiceTokenProofs, FiniteSetTheorems

(* An endpoint of a platform that has launched the tool as this client.    *)
Good(url, id) == <<Owner[url], id>> \in Launched

(* Whom the calls ask and for whom, and what the cache and the calls have. *)
GoodCalls ==
  /\ \A c \in Call :
       call[c].pc \in {"waiting"} \cup Trying =>
         Good(call[c].args.platform_token_url, call[c].args.client_id)
  /\ \A c \in Call : call[c].pc \in {"granted", "returned"} =>
       Good(call[c].token.issued_by, call[c].args.client_id)
  /\ \A k \in DOMAIN cache : Good(cache[k].token.issued_by, k[1])

GoodRows == \A i \in Issuer : Owner[platforms[i]] = i

(* How far the handler, the call and the page are.                         *)
Pace ==
  \A p \in Call :
    /\ page[p].pc = "blank" => roster[p] = "none" /\ session[p] = None
    /\ roster[p] \in RosterUnderWay => session[p] \in ToolJwt
    /\ roster[p] \in {"none", "sent", "allowed"} => call[p].pc = "idle"
    /\ roster[p] = "token" =>
         /\ call[p].pc \notin {"idle", "dropped"}
         /\ call[p].args.client_id = session[p].client_id

(* The clicks of a page: one at most is under way or has been received,    *)
(* and the button tells.                                                   *)
Sent == SignUnderWay \cup {"received"}

SignPace ==
  \A p \in Call :
    /\ \A n \in Clicks :
         sign[p][n] # "none" => page[p].pc # "blank" /\ session[p] \in ToolJwt
    /\ \A m, n \in Clicks : sign[p][m] \in Sent /\ sign[p][n] \in Sent => m = n
    /\ IsOpen(p) =>
         /\ \A n \in Clicks : sign[p][n] # "received"
         /\ page[p].button = "busy" <=> \E n \in Clicks : sign[p][n] \in SignUnderWay

ResponsesAreOfPages ==
  \A r \in responses :
    sign[r.page][r.nth] = "received" /\ r = Payload(r.page, r.nth)

RosterTells ==
  \A p \in Call : IsOpen(p) /\ page[p].roster = "loading" =>
    roster[p] \in RosterUnderWay

ServicesInv ==
  /\ ServicesTypeOK /\ LockInv
  /\ GoodCalls /\ GoodRows /\ Pace
  /\ SignPace /\ ResponsesAreOfPages /\ RosterTells

-----------------------------------------------------------------------------
LEMMA InitServicesInv == ServicesInit => ServicesInv
<1>. SUFFICES ASSUME ServicesInit PROVE ServicesInv
  OBVIOUS
<1>1. LockInv
  BY InitLockInv DEF ServicesInit
<1>2. ServicesTypeOK
  BY <1>1, ServicesAssumption
     DEF ServicesInit, ServicesTypeOK, LockInv, Page, RosterUnderWay, SignUnderWay
<1>3. GoodCalls
  BY DEF ServicesInit, Init, GoodCalls, Trying
<1>4. GoodRows /\ Pace
  BY ServicesAssumption DEF ServicesInit, Init, GoodRows, Pace, RosterUnderWay
<1>5. SignPace /\ ResponsesAreOfPages /\ RosterTells
  BY DEF ServicesInit, SignPace, Sent, SignUnderWay, ResponsesAreOfPages,
         RosterTells, IsOpen
<1>. QED
  BY <1>1, <1>2, <1>3, <1>4, <1>5 DEF ServicesInv

(* The arguments of a call that is about to begin.                         *)
LEMMA ArgsAreGood ==
  ASSUME ServicesInv, NEW p \in Call, roster[p] = "allowed"
  PROVE  /\ TokenArgs(p) \in Args
         /\ Good(TokenArgs(p).platform_token_url, TokenArgs(p).client_id)
         /\ TokenArgs(p).client_id = session[p].client_id
<1>1. session[p] \in ToolJwt
  BY DEF ServicesInv, Pace, RosterUnderWay
<1>. QED
  BY <1>1, ServicesAssumption
     DEF ServicesInv, ServicesTypeOK, GoodRows, ToolJwt, TokenArgs, Args, Good,
         Launched

(* Each step is a step of ServiceToken, or leaves its variables alone.     *)
LEMMA StepIsTokenStep == ServicesInv /\ [ServicesNext]_allVars => [Next]_vars
<1>. SUFFICES ASSUME ServicesInv, ServicesNext PROVE [Next]_vars
  BY DEF allVars, vars
<1>1. ASSUME NEW p \in Call, AskForToken(p) PROVE [Next]_vars
  BY <1>1, ArgsAreGood DEF AskForToken, Next
<1>2. ASSUME NEW p \in Call, DropRoster(p) PROVE [Next]_vars
  BY <1>2 DEF DropRoster, Next
<1>3. ASSUME NEW p \in Call, TokenStep(p) PROVE [Next]_vars
  BY <1>3 DEF TokenStep, Next
<1>4. CASE Tick /\ UNCHANGED serviceVars
  BY <1>4 DEF Next
<1>. QED
  BY <1>1, <1>2, <1>3, <1>4
     DEF ServicesNext, OpenPage, LeavePage, Click, Arrives, RosterArrives, Submit,
         SignFailed, Receive, RosterLost, RosterStep, AllowRoster, NoTokenUrl,
         Listed, SignDeepLink, SetPlatform

(* No step of ServiceToken but the one that begins a call brings in a      *)
(* client or an endpoint.                                                  *)
LEMMA TokenStepGoodCalls ==
  ASSUME LockInv, GoodCalls, Launched \subseteq Launched',
         \/ UNCHANGED vars
         \/ Tick
         \/ \E p \in Call : Enter(p) \/ Answer(p) \/ Awake(p) \/ Drop(p)
         \/ \E p \in Call, args \in Args :
              Begin(p, args) /\ Good(args.platform_token_url, args.client_id)
  PROVE  GoodCalls'
<1>. TypeOK /\ call \in [Call -> Local]
  BY DEF LockInv, TypeOK
<1>1. CASE UNCHANGED vars \/ Tick
  BY <1>1 DEF vars, Tick, GoodCalls, Good
<1>2. ASSUME NEW p \in Call, NEW args \in Args, Begin(p, args),
             Good(args.platform_token_url, args.client_id)
      PROVE  GoodCalls'
  BY <1>2 DEF Begin, GoodCalls, Good, Trying
<1>3. ASSUME NEW p \in Call, Enter(p) PROVE GoodCalls'
  <2>. DEFINE k == KeyOf(call[p].args)
  <2>1. CASE Fresh(k) /\ Return(p, cache[k].token) /\ UNCHANGED <<cache, lock>>
    BY <2>1, <1>3 DEF Enter, Return, Fresh, GoodCalls, Good, KeyOf, Trying
  <2>2. CASE /\ ~Fresh(k)
             /\ cache' = [j \in DOMAIN cache \ {k} |-> cache[j]]
             /\ call' = [call EXCEPT ![p] =
                  [pc |-> "asking", args |-> call[p].args, count |-> 0]]
    BY <2>2, <1>3 DEF Enter, GoodCalls, Good, Trying
  <2>. QED
    BY <1>3, <2>1, <2>2 DEF Enter
<1>4. ASSUME NEW p \in Call, Arrive(p) PROVE GoodCalls'
  <2>. DEFINE k == KeyOf(call[p].args)
              entry == [token |-> call[p].token, set_at |-> now]
  <2>1. PICK keep \in Room(k) :
          cache' = [j \in keep |-> IF j = k THEN entry ELSE cache[j]]
    BY <1>4 DEF Arrive
  <2>2. keep \subseteq DOMAIN cache \cup {k}
    BY RoomKeys
  <2>3. /\ Good(call[p].token.issued_by, call[p].args.client_id)
        /\ k[1] = call[p].args.client_id
    BY <1>4 DEF Arrive, GoodCalls, KeyOf
  <2>4. \A j \in DOMAIN cache' : Good(cache'[j].token.issued_by, j[1])
    BY <2>1, <2>2, <2>3 DEF GoodCalls
  <2>5. /\ call'[p] = [pc |-> "returned", args |-> call[p].args,
                       token |-> call[p].token]
        /\ \A c \in Call \ {p} : call'[c] = call[c]
    BY <1>4 DEF Arrive, Return
  <2>. QED
    BY <2>3, <2>4, <2>5 DEF GoodCalls, Good, Trying
<1>5. ASSUME NEW p \in Call, Grant(p) PROVE GoodCalls'
  <2>1. PICK new \in Local :
          /\ call[p].pc = "asking" /\ new.pc = "granted"
          /\ new.args = call[p].args
          /\ new.token.issued_by = call[p].args.platform_token_url
          /\ call' = [call EXCEPT ![p] = new]
          /\ UNCHANGED <<now, cache, lock>>
    BY <1>5, GrantedIs
  <2>2. call'[p] = new /\ \A c \in Call \ {p} : call'[c] = call[c]
    BY <2>1
  <2>. QED
    BY <2>1, <2>2 DEF GoodCalls, Good, Trying
<1>6. ASSUME NEW p \in Call,
             RateLimited(p) \/ Refused(p) \/ Awake(p) \/ Drop(p)
      PROVE  GoodCalls'
  <2>1. UNCHANGED cache /\ \A c \in Call \ {p} : call'[c] = call[c]
    BY <1>6, CallBecomes DEF RateLimited, Refused, Awake, Drop, Answer
  <2>2. CASE call'[p].pc \in {"failed", "dropped"}
    BY <2>1, <2>2 DEF GoodCalls, Good, Trying
  <2>3. CASE call'[p].pc \notin {"failed", "dropped"}
    <3>1. RateLimited(p) \/ Awake(p)
      BY <1>6, <2>3, CallBecomes
    <3>2. call[p] \in [pc : Trying, args : Args, count : 0..(Tries - 1)]
      BY <3>1, TryingRecord DEF RateLimited, Awake, Trying
    <3>3. call'[p].pc \in Trying /\ call'[p].args = call[p].args
      BY <2>3, <3>1, <3>2 DEF RateLimited, Awake, Fail, Trying
    <3>. QED
      BY <2>1, <3>2, <3>3 DEF GoodCalls, Good, Trying
  <2>. QED
    BY <2>2, <2>3
<1>. QED
  BY <1>1, <1>2, <1>3, <1>4, <1>5, <1>6 DEF Answer

-----------------------------------------------------------------------------
(* Whatever the launch names, it is the client id of some platform's.      *)
LEMMA ClientIdIsKnown ==
  ASSUME NEW claims \in Claims(Issuer, ClientId)
  PROVE  client_id(Decode(claims)) \in ClientId
<1>. DEFINE token == Decode(claims)
<1>1. /\ claims.aud \in Seq(ClientId) \ {<<>>} /\ claims.auds \in Seq(ClientId)
      /\ claims.azp \in {<<>>} \cup {<<c>> : c \in ClientId}
  BY DEF Claims
<1>2. token.aud = Head(claims.aud) /\ token.auds = claims.auds /\ token.azp = claims.azp
  BY DEF Decode, Claims
<1>3. Head(claims.aud) \in ClientId
  BY <1>1
<1>4. claims.auds # <<>> => Head(claims.auds) \in ClientId
  BY <1>1
<1>5. claims.azp # <<>> => Head(claims.azp) \in ClientId
  BY <1>1
<1>. HIDE DEF token
<1>6. client_id(token) \in ClientId
  BY <1>2, <1>3, <1>4, <1>5 DEF client_id
<1>. QED
  BY <1>6 DEF token

LEMMA LaunchIsGood ==
  ASSUME NEW p \in Call, NEW claims \in Launches[p]
  PROVE  LET token == Decode(claims)
         IN /\ token.iss \in Issuer /\ client_id(token) \in ClientId
            /\ token.deep_linking \in BOOLEAN /\ token.names_and_roles \in BOOLEAN
<1> DEFINE token == Decode(claims)
<1>1. claims \in Claims(Issuer, ClientId)
  BY ServicesAssumption
<1>2. /\ token.iss = claims.iss /\ token.deep_linking = claims.deep_linking
      /\ token.names_and_roles = claims.names_and_roles
  BY <1>1 DEF Claims, Decode
<1>3. client_id(token) \in ClientId
  BY <1>1, ClientIdIsKnown
<1>. QED
  BY <1>1, <1>2, <1>3 DEF Claims

(* What a page that is drawn has.                                          *)
Drawn(p, jwt, b, r) ==
  /\ session' = [session EXCEPT ![p] = jwt]
  /\ page' = [page EXCEPT ![p] = [pc |-> "open", button |-> b, roster |-> r]]
  /\ roster' = [roster EXCEPT ![p] = IF r = "loading" THEN "sent" ELSE @]

LEMMA PageOpens ==
  ASSUME now \in Nat, NEW p \in Call, OpenPage(p)
  PROVE  \E jwt \in ToolJwt, b \in {"absent", "ready"}, r \in {"absent", "loading"} :
           Drawn(p, jwt, b, r)
<1>1. PICK claims \in Launches[p] :
        LET token == Decode(claims)
        IN /\ session' = [session EXCEPT ![p] = build_jwt(token, Host, now + JwtLifetime)]
           /\ page' = [page EXCEPT ![p] = Offers(token)]
           /\ roster' = [roster EXCEPT ![p] = IF token.names_and_roles THEN "sent" ELSE @]
  BY DEF OpenPage
<1> DEFINE token == Decode(claims)
           jwt == build_jwt(token, Host, now + JwtLifetime)
           b == IF token.deep_linking THEN "ready" ELSE "absent"
           r == IF token.names_and_roles THEN "loading" ELSE "absent"
<1>2. now + JwtLifetime \in Nat
  BY ServicesAssumption
<1>3. token.iss \in Issuer /\ client_id(token) \in ClientId
  BY LaunchIsGood
<1>. HIDE DEF token
<1>4. jwt \in ToolJwt
  BY <1>2, <1>3 DEF build_jwt, ToolJwt
<1>5. Offers(token) = [pc |-> "open", button |-> b, roster |-> r]
  BY DEF Offers
<1>6. (IF token.names_and_roles THEN "sent" ELSE roster[p])
        = (IF r = "loading" THEN "sent" ELSE roster[p])
  OBVIOUS
<1>7. /\ session' = [session EXCEPT ![p] = jwt]
      /\ page' = [page EXCEPT ![p] = [pc |-> "open", button |-> b, roster |-> r]]
      /\ roster' = [roster EXCEPT ![p] = IF r = "loading" THEN "sent" ELSE @]
  BY <1>1, <1>5, <1>6 DEF token
<1>8. b \in {"absent", "ready"} /\ r \in {"absent", "loading"}
  OBVIOUS
<1>. HIDE DEF jwt, b, r
<1>9. Drawn(p, jwt, b, r)
  BY <1>4, <1>7 DEF Drawn
<1>. QED
  BY <1>4, <1>8, <1>9

(* A page keeps the session that it was opened with.                       *)
LEMMA LaunchedGrows ==
  ServicesInv /\ [ServicesNext]_allVars => Launched \subseteq Launched'
<1>. SUFFICES ASSUME ServicesInv, [ServicesNext]_allVars
              PROVE  \A q \in Call : session[q] # None => session'[q] = session[q]
  BY DEF Launched
<1>1. ASSUME NEW p \in Call, OpenPage(p)
      PROVE  \A q \in Call : session[q] # None => session'[q] = session[q]
  <2>1. session[p] = None /\ \A q \in Call \ {p} : session'[q] = session[q]
    BY <1>1 DEF OpenPage, ServicesInv, ServicesTypeOK, Pace
  <2>. QED
    BY <2>1
<1>. QED
  BY <1>1
     DEF ServicesNext, LeavePage, Click, Arrives, RosterArrives, Submit,
         SignFailed, Receive, RosterLost, RosterStep, AllowRoster, AskForToken,
         NoTokenUrl, Listed, TokenStep, DropRoster, SignDeepLink, SetPlatform,
         allVars, serviceVars, browserVars

LEMMA NextGoodCalls == ServicesInv /\ [ServicesNext]_allVars => GoodCalls'
<1>. SUFFICES ASSUME ServicesInv, [ServicesNext]_allVars PROVE GoodCalls'
  OBVIOUS
<1>. LockInv /\ GoodCalls /\ Launched \subseteq Launched'
  BY LaunchedGrows DEF ServicesInv
<1>1. CASE UNCHANGED vars \/ Tick
  BY <1>1, TokenStepGoodCalls
<1>2. ASSUME NEW p \in Call, AskForToken(p) PROVE GoodCalls'
  BY <1>2, ArgsAreGood, TokenStepGoodCalls DEF AskForToken
<1>3. ASSUME NEW p \in Call, DropRoster(p) PROVE GoodCalls'
  BY <1>3, TokenStepGoodCalls DEF DropRoster
<1>4. ASSUME NEW p \in Call, TokenStep(p) PROVE GoodCalls'
  BY <1>4, TokenStepGoodCalls DEF TokenStep
<1>. QED
  BY <1>1, <1>2, <1>3, <1>4
     DEF ServicesNext, OpenPage, LeavePage, Click, Arrives, RosterArrives, Submit,
         SignFailed, Receive, RosterLost, RosterStep, AllowRoster, NoTokenUrl,
         Listed, SignDeepLink, SetPlatform, allVars, vars

LEMMA NextGoodRows == ServicesInv /\ [ServicesNext]_allVars => GoodRows'
<1>. SUFFICES ASSUME ServicesInv, [ServicesNext]_allVars PROVE GoodRows'
  OBVIOUS
<1>1. CASE UNCHANGED platforms
  BY <1>1 DEF ServicesInv, GoodRows
<1>2. ASSUME NEW i \in Issuer, SetPlatform(i) PROVE GoodRows'
  BY <1>2 DEF SetPlatform, ServicesInv, ServicesTypeOK, GoodRows, browserVars
<1>. QED
  BY <1>1, <1>2
     DEF ServicesNext, OpenPage, LeavePage, Click, Arrives, RosterArrives, Submit,
         SignFailed, Receive, RosterLost, RosterStep, AllowRoster, AskForToken,
         NoTokenUrl, Listed, TokenStep, DropRoster, SignDeepLink, allVars,
         serviceVars, browserVars

(* A call that goes on stays what it was asked for.                        *)
LEMMA CallGoesOn ==
  ASSUME LockInv, NEW p \in Call, Enter(p) \/ Answer(p) \/ Awake(p)
  PROVE  /\ call[p].pc \in {"waiting"} \cup Inside
         /\ call'[p].pc \notin {"idle", "dropped"}
         /\ call'[p].args = call[p].args
         /\ \A q \in Call \ {p} : call'[q] = call[q]
<1>. TypeOK /\ call \in [Call -> Local]
  BY DEF LockInv, TypeOK
<1>1. CASE Enter(p)
  BY <1>1 DEF Enter, Return
<1>2. CASE Arrive(p) \/ Refused(p)
  BY <1>2 DEF Arrive, Refused, Return, Fail, Inside
<1>3. CASE Grant(p)
  BY <1>3, GrantedIs DEF Inside
<1>4. CASE RateLimited(p) \/ Awake(p)
  <2>1. call[p] \in [pc : Trying, args : Args, count : 0..(Tries - 1)]
    BY <1>4, TryingRecord DEF RateLimited, Awake, Trying
  <2>. QED
    BY <1>4, <2>1 DEF RateLimited, Awake, Fail, Trying, Inside
<1>. QED
  BY <1>1, <1>2, <1>3, <1>4 DEF Answer

LEMMA NextPace == ServicesInv /\ [ServicesNext]_allVars => Pace'
<1>. SUFFICES ASSUME ServicesInv, [ServicesNext]_allVars PROVE Pace'
  OBVIOUS
<1>. USE DEF Pace, ServicesInv, ServicesTypeOK, RosterUnderWay
<1>1. CASE UNCHANGED <<session, roster, call>> /\
           \A p \in Call : page'[p].pc = "blank" => page[p].pc = "blank"
  BY <1>1
<1>2. ASSUME NEW p \in Call, OpenPage(p) PROVE Pace'
  <2>1. session'[p] \in ToolJwt /\ page'[p].pc = "open"
        /\ roster'[p] \in {"none", "sent"} /\ call'[p].pc = "idle"
    <3>0. now \in Nat
      BY DEF LockInv, TypeOK
    <3>1. PICK jwt \in ToolJwt, b \in {"absent", "ready"}, r \in {"absent", "loading"} :
            Drawn(p, jwt, b, r)
      BY <1>2, <3>0, PageOpens
    <3>. QED
      BY <1>2, <3>1 DEF Drawn, OpenPage, vars, LockInv, TypeOK
  <2>2. \A q \in Call \ {p} :
          /\ session'[q] = session[q] /\ page'[q] = page[q]
          /\ roster'[q] = roster[q] /\ call'[q] = call[q]
    BY <1>2 DEF OpenPage, vars
  <2>3. Pace!(p)'
    BY <2>1
  <2>. QED
    BY <2>1, <2>2, <2>3
<1>3. ASSUME NEW p \in Call,
             LeavePage(p) \/ (\E n \in Clicks : Click(p, n)) \/ Submit(p)
               \/ SignFailed(p) \/ Receive(p) \/ RosterLost(p) \/ SignDeepLink(p)
      PROVE  Pace'
  BY <1>1, <1>3
     DEF LeavePage, Click, Submit, SignFailed, Receive, RosterLost, SignDeepLink,
         IsOpen, vars, Page
<1>4. ASSUME NEW p \in Call,
             RosterArrives(p) \/ AllowRoster(p) \/ NoTokenUrl(p) \/ Listed(p)
      PROVE  Pace'
  BY <1>4 DEF RosterArrives, AllowRoster, NoTokenUrl, Listed, IsOpen, vars, Page,
              browserVars
<1>5. ASSUME NEW p \in Call, AskForToken(p) PROVE Pace'
  BY <1>5, ArgsAreGood DEF AskForToken, Begin, browserVars, LockInv, TypeOK
<1>6. ASSUME NEW p \in Call, TokenStep(p) PROVE Pace'
  BY <1>6, CallGoesOn DEF TokenStep, serviceVars, browserVars, Inside
<1>7. ASSUME NEW p \in Call, DropRoster(p) PROVE Pace'
  <2>1. /\ roster[p] \in RosterUnderWay /\ roster'[p] = "done"
        /\ UNCHANGED <<session, page>>
        /\ \A q \in Call \ {p} : roster'[q] = roster[q] /\ call'[q] = call[q]
    BY <1>7 DEF DropRoster, Drop, browserVars, vars, LockInv, TypeOK
  <2>. QED
    BY <2>1
<1>8. CASE UNCHANGED <<session, roster, call, page>>
  BY <1>8
<1>. QED
  BY <1>2, <1>3, <1>4, <1>5, <1>6, <1>7, <1>8
     DEF ServicesNext, Arrives, RosterStep, SetPlatform, Tick, allVars,
         serviceVars, browserVars, vars

(* What the steps make of a page is a page.                                *)
LEMMA PageStep ==
  ASSUME page \in [Call -> Page], NEW p \in Call, IsOpen(p)
  PROVE  /\ \A b \in {"absent", "ready", "busy"} :
              [page EXCEPT ![p].button = b] \in [Call -> Page]
         /\ \A r \in {"absent", "loading", "shown", "failed"} :
              [page EXCEPT ![p].roster = r] \in [Call -> Page]
         /\ \A b, r : \A q \in Call :
              /\ [page EXCEPT ![p].button = b][q].pc = page[q].pc
              /\ [page EXCEPT ![p].roster = r][q].pc = page[q].pc
<1>1. page[p] \in [pc : {"open"}, button : {"absent", "ready", "busy"},
                    roster : {"absent", "loading", "shown", "failed"}]
  BY DEF IsOpen, Page
<1>2. \A b \in {"absent", "ready", "busy"} : [page[p] EXCEPT !.button = b] \in Page
  BY <1>1 DEF Page
<1>3. \A r \in {"absent", "loading", "shown", "failed"} :
        [page[p] EXCEPT !.roster = r] \in Page
  BY <1>1 DEF Page
<1>. QED
  BY <1>1, <1>2, <1>3

LEMMA NextServicesType == ServicesInv /\ [ServicesNext]_allVars => ServicesTypeOK'
<1>. SUFFICES ASSUME ServicesInv, [ServicesNext]_allVars PROVE ServicesTypeOK'
  OBVIOUS
<1>1. TypeOK'
  BY StepIsTokenStep, NextLockInv DEF ServicesInv, LockInv
<1>. DEFINE Own == /\ platforms \in [Issuer -> TokenUrl]
                   /\ session \in [Call -> ToolJwt \cup {None}]
                   /\ page \in [Call -> Page]
                   /\ roster \in [Call -> RosterUnderWay \cup {"none", "done"}]
                   /\ sign \in [Call -> [Clicks -> SignUnderWay \cup {"none", "done", "received"}]]
                   /\ responses \subseteq DeepLinkResponse
                   /\ \A p \in Call : page[p].pc = "open" => session[p] \in ToolJwt
<1>2. Own
  BY DEF ServicesInv, ServicesTypeOK
<1>3. ASSUME UNCHANGED serviceVars PROVE Own'
  BY <1>2, <1>3 DEF serviceVars, browserVars
<1>4. ASSUME NEW p \in Call, OpenPage(p) PROVE Own'
  <2>0. now \in Nat
    BY DEF ServicesInv, LockInv, TypeOK
  <2>1. PICK jwt \in ToolJwt, b \in {"absent", "ready"}, r \in {"absent", "loading"} :
          Drawn(p, jwt, b, r)
    BY <1>4, <2>0, PageOpens
  <2>2. session'[p] \in ToolJwt /\ session' \in [Call -> ToolJwt \cup {None}]
    BY <1>2, <2>1 DEF Drawn
  <2>3. page' \in [Call -> Page]
    BY <1>2, <2>1 DEF Drawn, Page
  <2>4. \A q \in Call \ {p} : session'[q] = session[q] /\ page'[q] = page[q]
    BY <1>2, <2>1 DEF Drawn
  <2>5. roster' \in [Call -> RosterUnderWay \cup {"none", "done"}]
    BY <1>2, <1>4 DEF OpenPage, RosterUnderWay
  <2>. QED
    BY <1>2, <1>4, <2>2, <2>3, <2>4, <2>5 DEF OpenPage
<1>5. ASSUME NEW p \in Call, LeavePage(p) PROVE Own'
  BY <1>2, <1>5 DEF LeavePage, Page
<1>6. ASSUME NEW p \in Call, RosterArrives(p) \/ RosterLost(p) PROVE Own'
  <2>1. PICK r \in {"shown", "failed"} : page' = [page EXCEPT ![p].roster = r]
    BY <1>6 DEF RosterArrives, RosterLost
  <2>2. IsOpen(p)
    BY <1>6 DEF RosterArrives, RosterLost
  <2>3. /\ roster' \in [Call -> RosterUnderWay \cup {"none", "done"}]
        /\ UNCHANGED <<platforms, session, sign, responses>>
    BY <1>2, <1>6 DEF RosterArrives, RosterLost
  <2>. QED
    BY <1>2, <2>1, <2>2, <2>3, PageStep
<1>7. ASSUME NEW p \in Call, NEW n \in Clicks, Click(p, n) PROVE Own'
  <2>1. sign' \in [Call -> [Clicks -> SignUnderWay \cup {"none", "done", "received"}]]
    BY <1>2, <1>7 DEF Click, SignUnderWay
  <2>. QED
    BY <1>2, <1>7, <2>1, PageStep DEF Click, IsOpen
<1>8. ASSUME NEW p \in Call, Submit(p) \/ SignFailed(p) \/ SignDeepLink(p)
      PROVE  Own'
  <2>1. sign' \in [Call -> [Clicks -> SignUnderWay \cup {"none", "done", "received"}]]
    BY <1>2, <1>8 DEF Submit, SignFailed, SignDeepLink, SignUnderWay
  <2>2. UNCHANGED <<platforms, session, roster, responses>> /\ IsOpen(p)
    BY <1>8 DEF Submit, SignFailed, SignDeepLink
  <2>3. CASE UNCHANGED page
    BY <1>2, <2>1, <2>2, <2>3
  <2>4. CASE page' = [page EXCEPT ![p].button = "ready"]
    <3>1. page' \in [Call -> Page]
      BY <1>2, <2>2, <2>4, PageStep
    <3>2. \A q \in Call : page'[q].pc = page[q].pc
      <4>1. page[p] \in [pc : {"open"}, button : {"absent", "ready", "busy"},
                         roster : {"absent", "loading", "shown", "failed"}]
        BY <1>2, <2>2 DEF IsOpen, Page
      <4>. QED
        BY <1>2, <2>4, <4>1
    <3>. QED
      BY <1>2, <2>1, <2>2, <3>1, <3>2
  <2>. QED
    BY <1>8, <2>3, <2>4 DEF Submit, SignFailed, SignDeepLink
<1>9. ASSUME NEW p \in Call, Receive(p) PROVE Own'
  <2>1. PICK n \in Clicks :
          /\ sign[p][n] = "submitted"
          /\ sign' = [sign EXCEPT ![p][n] = "received"]
          /\ responses' = responses \cup {Payload(p, n)}
    BY <1>9 DEF Receive
  <2>2. sign' \in [Call -> [Clicks -> SignUnderWay \cup {"none", "done", "received"}]]
    BY <1>2, <2>1
  <2>3. page' \in [Call -> Page] /\ \A q \in Call : page'[q].pc = "open" => page[q].pc = "open"
    BY <1>2, <1>9 DEF Receive, Page
  <2>4. session[p] \in ToolJwt
    BY <2>1 DEF ServicesInv, SignPace
  <2>5. Payload(p, n) \in DeepLinkResponse
    BY <2>4 DEF Payload, DeepLinkResponse, ToolJwt
  <2>. QED
    BY <1>2, <1>9, <2>1, <2>2, <2>3, <2>5 DEF Receive
<1>10. ASSUME NEW p \in Call, RosterStep(p) \/ DropRoster(p) PROVE Own'
  <2>1. roster' \in [Call -> RosterUnderWay \cup {"none", "done"}]
    BY <1>2, <1>10 DEF RosterStep, AllowRoster, AskForToken, NoTokenUrl, Listed,
                       DropRoster, RosterUnderWay
  <2>2. UNCHANGED <<platforms, browserVars>>
    BY <1>10 DEF RosterStep, AllowRoster, AskForToken, NoTokenUrl, Listed, DropRoster
  <2>. QED
    BY <1>2, <2>1, <2>2 DEF browserVars
<1>11. ASSUME NEW i \in Issuer, SetPlatform(i) PROVE Own'
  BY <1>2, <1>11 DEF SetPlatform, browserVars
<1>12. Own'
  BY <1>3, <1>4, <1>5, <1>6, <1>7, <1>8, <1>9, <1>10, <1>11
     DEF ServicesNext, Arrives, TokenStep, allVars
<1>. QED
  BY <1>1, <1>12 DEF ServicesTypeOK

(* What a step that changes one click of one page leaves of SignPace.      *)
LEMMA NextSignPace == ServicesInv /\ [ServicesNext]_allVars => SignPace'
<1>. SUFFICES ASSUME ServicesInv, [ServicesNext]_allVars PROVE SignPace'
  OBVIOUS
<1>. /\ SignPace
     /\ page \in [Call -> Page] /\ session \in [Call -> ToolJwt \cup {None}]
     /\ sign \in [Call -> [Clicks -> SignUnderWay \cup {"none", "done", "received"}]]
     /\ \A p \in Call : page[p].pc = "open" => session[p] \in ToolJwt
  BY DEF ServicesInv, ServicesTypeOK
<1>. USE DEF IsOpen, Sent, SignUnderWay
<1>1. ASSUME UNCHANGED <<session, sign>>,
             \A p \in Call : \/ page'[p].pc = "gone"
                             \/ /\ page'[p].pc = page[p].pc
                                /\ page[p].pc = "open" =>
                                     page'[p].button = page[p].button
      PROVE  SignPace'
  BY <1>1 DEF SignPace
<1>2. ASSUME NEW p \in Call, NEW n \in Clicks, NEW s \in Sent \cup {"done"},
             sign[p][n] # "done", UNCHANGED session,
             sign' = [sign EXCEPT ![p][n] = s],
             \A q \in Call \ {p} : page'[q] = page[q],
             s \in Sent => \A m \in Clicks \ {n} : sign[p][m] \notin Sent,
             \/ page'[p].pc = "gone"
             \/ /\ page'[p].pc = "open" /\ page[p].pc = "open" /\ s # "received"
                /\ page'[p].button = "busy" <=> s \in SignUnderWay
                /\ \A m \in Clicks \ {n} : sign[p][m] \notin Sent,
             session[p] \in ToolJwt
      PROVE  SignPace'
  <2>1. /\ sign'[p][n] = s
        /\ \A m \in Clicks \ {n} : sign'[p][m] = sign[p][m]
        /\ \A q \in Call \ {p} : sign'[q] = sign[q]
    BY <1>2
  <2>2. SignPace!(p)'
    BY <1>2, <2>1 DEF SignPace
  <2>3. ASSUME NEW q \in Call \ {p} PROVE SignPace!(q)'
    BY <1>2, <2>1, <2>3 DEF SignPace
  <2>. QED
    BY <2>2, <2>3 DEF SignPace
<1>3. ASSUME NEW p \in Call, OpenPage(p) PROVE SignPace'
  <2>. now \in Nat
    BY DEF ServicesInv, LockInv, TypeOK
  <2>0. PICK jwt \in ToolJwt, b \in {"absent", "ready"}, r \in {"absent", "loading"} :
          Drawn(p, jwt, b, r)
    BY <1>3, PageOpens
  <2>1. /\ page[p].pc = "blank" /\ page'[p].pc = "open" /\ page'[p].button # "busy"
        /\ \A q \in Call \ {p} : page'[q] = page[q] /\ session'[q] = session[q]
        /\ sign' = sign
    BY <1>3, <2>0 DEF Drawn, OpenPage
  <2>2. SignPace!(p)'
    BY <2>1 DEF SignPace
  <2>3. ASSUME NEW q \in Call \ {p} PROVE SignPace!(q)'
    BY <2>1, <2>3 DEF SignPace
  <2>. QED
    BY <2>2, <2>3 DEF SignPace
<1>4. ASSUME NEW p \in Call, LeavePage(p) \/ RosterArrives(p) \/ RosterLost(p)
      PROVE  SignPace'
  <2>1. CASE LeavePage(p)
    BY <1>1, <2>1 DEF LeavePage
  <2>2. CASE RosterArrives(p) \/ RosterLost(p)
    <3>1. PICK r : page' = [page EXCEPT ![p].roster = r]
      BY <2>2 DEF RosterArrives, RosterLost
    <3>2. page[p] \in [pc : {"open"}, button : {"absent", "ready", "busy"},
                       roster : {"absent", "loading", "shown", "failed"}]
      BY <2>2 DEF RosterArrives, RosterLost, Page
    <3>. QED
      BY <1>1, <2>2, <3>1, <3>2 DEF RosterArrives, RosterLost
  <2>. QED
    BY <1>4, <2>1, <2>2
<1>5. ASSUME NEW p \in Call, NEW n \in Clicks, Click(p, n) PROVE SignPace'
  <2>1. /\ page'[p].pc = "open" /\ page'[p].button = "busy"
        /\ \A q \in Call \ {p} : page'[q] = page[q]
    BY <1>5, PageStep DEF Click, Page
  <2>2. \A m \in Clicks \ {n} : sign[p][m] \notin Sent
    BY <1>5 DEF Click, SignPace
  <2>. QED
    BY <1>2, <1>5, <2>1, <2>2 DEF Click
<1>6. ASSUME NEW p \in Call, Submit(p) \/ SignDeepLink(p) PROVE SignPace'
  <2>1. PICK n \in Clicks, s \in SignUnderWay :
          sign[p][n] \in SignUnderWay /\ sign' = [sign EXCEPT ![p][n] = s]
    BY <1>6 DEF Submit, SignDeepLink
  <2>2. page[p].pc = "open" /\ UNCHANGED <<page, session>>
    BY <1>6 DEF Submit, SignDeepLink
  <2>3. /\ page[p].button = "busy"
        /\ \A m \in Clicks \ {n} : sign[p][m] \notin Sent
    BY <2>1, <2>2 DEF SignPace
  <2>. QED
    BY <1>2, <2>1, <2>2, <2>3
<1>7. ASSUME NEW p \in Call, SignFailed(p) PROVE SignPace'
  <2>1. PICK n \in Clicks :
          sign[p][n] \in SignUnderWay /\ sign' = [sign EXCEPT ![p][n] = "done"]
    BY <1>7 DEF SignFailed
  <2>2. /\ page[p].pc = "open" /\ page'[p].pc = "open" /\ page'[p].button = "ready"
        /\ UNCHANGED session /\ \A q \in Call \ {p} : page'[q] = page[q]
    BY <1>7, PageStep DEF SignFailed, Page
  <2>3. \A m \in Clicks \ {n} : sign[p][m] \notin Sent
    BY <2>1, <2>2 DEF SignPace
  <2>. QED
    BY <1>2, <2>1, <2>2, <2>3
<1>8. ASSUME NEW p \in Call, Receive(p) PROVE SignPace'
  <2>1. PICK n \in Clicks :
          sign[p][n] = "submitted" /\ sign' = [sign EXCEPT ![p][n] = "received"]
    BY <1>8 DEF Receive
  <2>2. /\ page'[p].pc = "gone" /\ UNCHANGED session
        /\ \A q \in Call \ {p} : page'[q] = page[q]
    BY <1>8 DEF Receive
  <2>3. session[p] \in ToolJwt /\ \A m \in Clicks \ {n} : sign[p][m] \notin Sent
    BY <2>1 DEF SignPace
  <2>. QED
    BY <1>2, <2>1, <2>2, <2>3
<1>9. CASE UNCHANGED <<session, page, sign>>
  BY <1>1, <1>9
<1>. QED
  BY <1>3, <1>4, <1>5, <1>6, <1>7, <1>8, <1>9
     DEF ServicesNext, Arrives, RosterStep, AllowRoster, AskForToken, NoTokenUrl,
         Listed, TokenStep, DropRoster, SetPlatform, allVars, serviceVars,
         browserVars

LEMMA NextResponses == ServicesInv /\ [ServicesNext]_allVars => ResponsesAreOfPages'
<1>. SUFFICES ASSUME ServicesInv, [ServicesNext]_allVars PROVE ResponsesAreOfPages'
  OBVIOUS
<1>. /\ ResponsesAreOfPages /\ responses \subseteq DeepLinkResponse
     /\ session \in [Call -> ToolJwt \cup {None}]
     /\ sign \in [Call -> [Clicks -> SignUnderWay \cup {"none", "done", "received"}]]
     /\ \A p \in Call, n \in Clicks : sign[p][n] # "none" => page[p].pc # "blank"
  BY DEF ServicesInv, ServicesTypeOK, SignPace
<1>1. ASSUME UNCHANGED responses,
             \A p \in Call, n \in Clicks : sign[p][n] = "received" =>
               sign'[p][n] = "received" /\ session'[p] = session[p]
      PROVE  ResponsesAreOfPages'
  BY <1>1 DEF ResponsesAreOfPages, Payload, DeepLinkResponse
<1>2. ASSUME NEW p \in Call, OpenPage(p) PROVE ResponsesAreOfPages'
  <2>1. page[p].pc = "blank" /\ UNCHANGED <<sign, responses>>
        /\ \A q \in Call \ {p} : session'[q] = session[q]
    BY <1>2 DEF OpenPage
  <2>. QED
    BY <1>1, <2>1
<1>3. ASSUME NEW p \in Call,
             (\E n \in Clicks : Click(p, n)) \/ Submit(p) \/ SignFailed(p)
               \/ SignDeepLink(p)
      PROVE  ResponsesAreOfPages'
  BY <1>1, <1>3 DEF Click, Submit, SignFailed, SignDeepLink
<1>4. ASSUME NEW p \in Call, Receive(p) PROVE ResponsesAreOfPages'
  <2>1. PICK n \in Clicks :
          /\ sign[p][n] = "submitted"
          /\ sign' = [sign EXCEPT ![p][n] = "received"]
          /\ responses' = responses \cup {Payload(p, n)}
          /\ UNCHANGED session
    BY <1>4 DEF Receive
  <2>2. Payload(p, n).page = p /\ Payload(p, n).nth = n
    BY DEF Payload
  <2>3. ASSUME NEW r \in responses
        PROVE  sign'[r.page][r.nth] = "received" /\ r = Payload(r.page, r.nth)'
    BY <2>1 DEF ResponsesAreOfPages, DeepLinkResponse, Payload
  <2>4. /\ sign'[p][n] = "received"
        /\ Payload(p, n) = Payload(p, n)'
    BY <2>1 DEF Payload
  <2>. QED
    BY <2>1, <2>2, <2>3, <2>4 DEF ResponsesAreOfPages
<1>5. CASE UNCHANGED <<session, sign, responses>>
  BY <1>1, <1>5
<1>. QED
  BY <1>2, <1>3, <1>4, <1>5
     DEF ServicesNext, LeavePage, Arrives, RosterArrives, RosterLost, RosterStep,
         AllowRoster, AskForToken, NoTokenUrl, Listed, TokenStep, DropRoster,
         SetPlatform, allVars, serviceVars, browserVars

LEMMA NextRosterTells == ServicesInv /\ [ServicesNext]_allVars => RosterTells'
<1>. SUFFICES ASSUME ServicesInv, [ServicesNext]_allVars PROVE RosterTells'
  OBVIOUS
<1>. /\ RosterTells /\ page \in [Call -> Page]
     /\ roster \in [Call -> RosterUnderWay \cup {"none", "done"}]
  BY DEF ServicesInv, ServicesTypeOK
<1>. USE DEF RosterTells, RosterUnderWay
<1>1. ASSUME UNCHANGED roster,
             \A p \in Call : page'[p].pc = "open" /\ page'[p].roster = "loading" =>
               page[p].pc = "open" /\ page[p].roster = "loading"
      PROVE  RosterTells'
  BY <1>1 DEF IsOpen
<1>2. ASSUME NEW p \in Call, OpenPage(p) PROVE RosterTells'
  <2>0. now \in Nat
    BY DEF ServicesInv, LockInv, TypeOK
  <2>1. PICK jwt \in ToolJwt, b \in {"absent", "ready"}, r \in {"absent", "loading"} :
          Drawn(p, jwt, b, r)
    BY <1>2, <2>0, PageOpens
  <2>. QED
    BY <2>1 DEF Drawn, IsOpen
<1>3. ASSUME NEW p \in Call,
             LeavePage(p) \/ (\E n \in Clicks : Click(p, n)) \/ SignFailed(p)
               \/ Receive(p) \/ RosterLost(p)
      PROVE  RosterTells'
  <2>1. UNCHANGED roster /\ \A q \in Call \ {p} : page'[q] = page[q]
    BY <1>3 DEF LeavePage, Click, SignFailed, Receive, RosterLost
  <2>2. CASE page'[p].pc = "gone"
    BY <1>1, <2>1, <2>2
  <2>3. CASE \/ \E b : page' = [page EXCEPT ![p].button = b]
             \/ page' = [page EXCEPT ![p].roster = "failed"]
    <3>1. CASE page[p].pc = "open"
      <4>1. page[p] \in [pc : {"open"}, button : {"absent", "ready", "busy"},
                         roster : {"absent", "loading", "shown", "failed"}]
        BY <3>1 DEF Page
      <4>. QED
        BY <1>1, <2>1, <2>3, <3>1, <4>1
    <3>2. CASE page[p].pc # "open"
      BY <1>3, <3>2, <1>1, <2>1
         DEF LeavePage, Click, SignFailed, Receive, RosterLost, IsOpen
    <3>. QED
      BY <3>1, <3>2
  <2>. QED
    BY <1>3, <2>2, <2>3 DEF LeavePage, Click, SignFailed, Receive, RosterLost
<1>4. ASSUME NEW p \in Call, RosterArrives(p) PROVE RosterTells'
  <2>1. PICK r \in {"shown", "failed"} :
          /\ page' = [page EXCEPT ![p].roster = r]
          /\ roster' = [roster EXCEPT ![p] = "done"]
    BY <1>4 DEF RosterArrives
  <2>2. page[p] \in [pc : {"open"}, button : {"absent", "ready", "busy"},
                     roster : {"absent", "loading", "shown", "failed"}]
    BY <1>4 DEF RosterArrives, IsOpen, Page
  <2>. QED
    BY <2>1, <2>2 DEF IsOpen
<1>5. ASSUME NEW p \in Call, RosterStep(p) PROVE RosterTells'
  BY <1>5 DEF RosterStep, AllowRoster, AskForToken, NoTokenUrl, Listed,
              browserVars, IsOpen
<1>6. ASSUME NEW p \in Call, DropRoster(p) PROVE RosterTells'
  BY <1>6 DEF DropRoster, browserVars, IsOpen
<1>7. CASE UNCHANGED <<page, roster>>
  BY <1>1, <1>7
<1>. QED
  BY <1>2, <1>3, <1>4, <1>5, <1>6, <1>7
     DEF ServicesNext, Arrives, Submit, TokenStep, SignDeepLink, SetPlatform,
         allVars, serviceVars, browserVars

LEMMA SpecServicesInv == ServicesSpec => []ServicesInv
<1>1. ServicesInv /\ [ServicesNext]_allVars => ServicesInv'
  <2>1. ServicesInv /\ [ServicesNext]_allVars => LockInv'
    BY StepIsTokenStep, NextLockInv DEF ServicesInv
  <2>. QED
    BY <2>1, NextServicesType, NextGoodCalls, NextGoodRows, NextPace,
       NextSignPace, NextResponses, NextRosterTells DEF ServicesInv
<1>. QED
  BY <1>1, InitServicesInv, PTL DEF ServicesSpec

-----------------------------------------------------------------------------
(* Every variable of the pages, the handlers and the cache keeps its type. *)
THEOREM ServicesTypeCorrect == ServicesSpec => []ServicesTypeOK
<1>1. ServicesInv => ServicesTypeOK
  BY DEF ServicesInv
<1>. QED
  BY <1>1, SpecServicesInv, PTL

(* The handlers behind the pages use request_service_token_cached as       *)
(* ServiceToken has it, however pages close and connections break.         *)
THEOREM CallsRefine == ServicesSpec => CallsAreServiceToken
<1>1. ServicesInit => Init
  BY DEF ServicesInit
<1>2. ServicesSpec => [][Next]_vars
  BY StepIsTokenStep, SpecServicesInv, PTL DEF ServicesSpec
<1>. QED
  BY <1>1, <1>2, PTL DEF ServicesSpec, CallsAreServiceToken, Spec

(* So what holds of ServiceToken holds of the pages: no platform is asked  *)
(* twice for one token, and the lock is never left behind.                 *)
THEOREM PagesShareOneFetch == ServicesSpec => [](NoSecondFetch /\ LockIsReleased)
BY CallsRefine, NobodyFetchesTwice, LockIsFreed, PTL DEF CallsAreServiceToken

(* The pages share a SyncCache: a page that closes in the middle of its    *)
(* fetch keeps nothing in it and holds up no other page.                   *)
THEOREM PagesAreMemoized == ServicesSpec => ImplementsSyncCache
BY CallsRefine, TokensAreMemoized, PTL DEF CallsAreServiceToken

(* A page's handler gets a token granted less than a lifespan and a delay  *)
(* ago, though another page may have asked for it and left.                *)
THEOREM PagesGetRecentTokens == ServicesSpec => RecentOnReturn
BY CallsRefine, TokensAreYoung, PTL DEF CallsAreServiceToken

(* A token is presented only where its platform, or another one with the   *)
(* same client id, has launched a page: for any rows, endpoints that move, *)
(* and audiences that the launches name.                                   *)
THEOREM TokensAreOwn == ServicesSpec => []OwnToken
<1>1. ServicesInv => OwnToken
  BY DEF ServicesInv, GoodCalls, Good, Pace, OwnToken
<1>. QED
  BY <1>1, SpecServicesInv, PTL

(* Sets without two elements.                                              *)
LEMMA AtMostOne ==
  ASSUME NEW S, \A x, y \in S : x = y
  PROVE  Cardinality(S) <= 1
<1>1. CASE S = {}
  BY <1>1, FS_EmptySet
<1>2. ASSUME NEW x \in S PROVE Cardinality(S) <= 1
  <2>1. S = {x}
    OBVIOUS
  <2>. QED
    BY <2>1, FS_Singleton
<1>. QED
  BY <1>1, <1>2

(* A deep linking launch is answered at most once, for any number of       *)
(* clicks, refusals and losses.                                            *)
THEOREM AnsweredOnce == ServicesSpec => []SubmittedOnce
<1>1. ASSUME ServicesInv, NEW p \in Call
      PROVE  /\ Cardinality({n \in Clicks : sign[p][n] \in {"submitted", "received"}}) <= 1
             /\ Cardinality({r \in responses : r.page = p}) <= 1
  <2>1. \A m, n \in Clicks :
          sign[p][m] \in {"submitted", "received"} /\ sign[p][n] \in {"submitted", "received"}
            => m = n
    BY <1>1 DEF ServicesInv, SignPace, Sent, SignUnderWay
  <2>2. \A r, s \in {r \in responses : r.page = p} : r = s
    <3>1. \A r \in responses : r.page = p =>
            r.nth \in Clicks /\ sign[p][r.nth] = "received" /\ r = Payload(p, r.nth)
      BY <1>1 DEF ServicesInv, ServicesTypeOK, ResponsesAreOfPages, DeepLinkResponse
    <3>. QED
      BY <2>1, <3>1
  <2>. QED
    BY <2>1, <2>2, AtMostOne
<1>2. ServicesInv => SubmittedOnce
  BY <1>1 DEF SubmittedOnce
<1>. QED
  BY <1>2, SpecServicesInv, PTL

(* The page tells what goes on behind it.                                  *)
THEOREM PageIsTrue == ServicesSpec => []PageTells
<1>1. ServicesInv => PageTells
  BY DEF ServicesInv, SignPace, RosterTells, Sent, PageTells
<1>. QED
  BY <1>1, SpecServicesInv, PTL
=============================================================================

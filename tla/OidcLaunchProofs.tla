-------------------------- MODULE OidcLaunchProofs --------------------------
(***************************************************************************)
(* What OidcLaunch guarantees for any number of states, issuers, browsers, *)
(* requests and any lifetimes.                                             *)
(***************************************************************************)
EXTENDS OidcLaunch, TLAPS

LEMMA InitType == Init => TypeOK
BY LaunchAssumption DEF Init, TypeOK, Quiet

LEMMA AnswerType ==
  ASSUME TypeOK, NEW r \in Request, NEW pc \in {"forwarded", "failed"},
         Answer(r, pc)
  PROVE  req' \in [Request -> Quiet \cup Live]
BY DEF TypeOK, Answer, Quiet

(* A request past its arrival has the local state of one.                  *)
LEMMA LiveRecord ==
  ASSUME TypeOK, NEW r \in Request, req[r].pc \in Running \cup {"minted"}
  PROVE  req[r] \in Live
BY DEF TypeOK, Quiet, Running

LEMMA AfterDestroyType ==
  ASSUME TypeOK, NEW r \in Request, req[r].pc = "validated", AfterDestroy(r)
  PROVE  req' \in [Request -> Quiet \cup Live]
<1>1. req[r] \in Live
  BY LiveRecord DEF Running
<1>2. CASE req' = [req EXCEPT ![r].pc = "destroyed"]
  <2>1. [req[r] EXCEPT !.pc = "destroyed"] \in Live
    BY <1>1 DEF Live, Running
  <2>. QED
    BY <1>2, <2>1 DEF TypeOK
<1>. QED
  BY <1>2, AnswerType DEF AfterDestroy

LEMMA NextType == TypeOK /\ [Next]_vars => TypeOK'
<1> SUFFICES ASSUME TypeOK, [Next]_vars PROVE TypeOK'
  OBVIOUS
<1> USE LaunchAssumption
<1>1. CASE Tick
  BY <1>1 DEF Tick, TypeOK
<1>2. ASSUME NEW s \in State, NEW i \in Issuer, NEW b \in Browser,
             InitInsert(s, i, b)
      PROVE  TypeOK'
  BY <1>2 DEF InitInsert, TypeOK, Login
<1>3. ASSUME NEW s \in State, InitRespond(s)
      PROVE  TypeOK'
  <2>1. now + CookieLifetime \in 0..(MaxTime + CookieLifetime)
    BY DEF TypeOK
  <2>2. jar' \in [Browser -> [State -> 0..(MaxTime + CookieLifetime)]]
    <3> DEFINE owner == login[s].browser
               Expiry == 0..(MaxTime + CookieLifetime)
               later == [jar EXCEPT ![owner][s] = now + CookieLifetime]
    <3>1. \A b \in Browser : [jar[b] EXCEPT ![s] = now + CookieLifetime] \in [State -> Expiry]
      BY <2>1 DEF TypeOK
    <3>2. later \in [Browser -> [State -> Expiry]]
      BY <3>1 DEF TypeOK
    <3>. QED
      BY <1>3, <3>2 DEF InitRespond, TypeOK
  <2>. QED
    BY <1>3, <2>2 DEF InitRespond, TypeOK
<1>4. ASSUME NEW s \in State, InitBreak(s)
      PROVE  TypeOK'
  BY <1>4 DEF InitBreak, TypeOK
<1>5. ASSUME NEW r \in Request, NEW h \in Handler, NEW b \in Browser,
             NEW s \in State, NEW t \in IdToken, NEW stored \in BOOLEAN,
             Arrive(r, h, b, s, t, stored)
      PROVE  TypeOK'
  <2> DEFINE new == [pc |-> "found", handler |-> h, browser |-> b, state |-> s,
                     id_token |-> t, storage |-> stored,
                     cookie |-> now < jar[b][s], checked_at |-> 0]
  <2>1. new \in Live
    BY DEF Live, Running, TypeOK
  <2>2. req' \in [Request -> Quiet \cup Live]
    <3>1. CASE req' = [req EXCEPT ![r] = new]
      BY <2>1, <3>1 DEF TypeOK
    <3>. QED
      BY <1>5, <3>1, AnswerType DEF Arrive
  <2>. QED
    BY <1>5, <2>2 DEF Arrive, TypeOK
<1>6. ASSUME NEW r \in Request, Validate(r)
      PROVE  TypeOK'
  <2>1. req[r] \in Live
    BY <1>6, LiveRecord DEF Validate, Running
  <2>2. [req[r] EXCEPT !.pc = "validated", !.checked_at = now] \in Live
    BY <2>1 DEF Live, Running, TypeOK
  <2>3. req' \in [Request -> Quiet \cup Live]
    <3>1. CASE req' = [req EXCEPT ![r].pc = "validated", ![r].checked_at = now]
      BY <2>2, <3>1 DEF TypeOK
    <3>. QED
      BY <1>6, <3>1, AnswerType DEF Validate
  <2>. QED
    BY <1>6, <2>3 DEF Validate, TypeOK
<1>7. ASSUME NEW r \in Request, Destroy(r)
      PROVE  TypeOK'
  <2>1. req' \in [Request -> Quiet \cup Live]
    BY <1>7, AfterDestroyType DEF Destroy
  <2>. QED
    BY <1>7, <2>1 DEF Destroy, TypeOK
<1>8. ASSUME NEW r \in Request, DestroyError(r)
      PROVE  TypeOK'
  <2>1. req' \in [Request -> Quiet \cup Live]
    BY <1>8, AfterDestroyType, AnswerType DEF DestroyError
  <2>2. ignored' \in SUBSET State
    <3>1. req[r] \in Live
      BY <1>8, LiveRecord DEF DestroyError, Running
    <3>. QED
      BY <1>8, <3>1 DEF DestroyError, TypeOK, Live
  <2>. QED
    BY <1>8, <2>1, <2>2 DEF DestroyError, TypeOK
<1>9. ASSUME NEW r \in Request, Mint(r)
      PROVE  TypeOK'
  <2>1. req[r] \in Live
    BY <1>9, LiveRecord DEF Mint, Running
  <2>2. [req[r] EXCEPT !.pc = "minted"] \in Live
    BY <2>1 DEF Live
  <2>. QED
    BY <1>9, <2>2 DEF Mint, TypeOK
<1>10. ASSUME NEW r \in Request, Abort(r)
       PROVE  TypeOK'
  <2>1. req' \in [Request -> Quiet \cup Live]
    BY <1>10, AnswerType DEF Abort
  <2>. QED
    BY <1>10, <2>1 DEF Abort, TypeOK
<1>11. CASE UNCHANGED vars
  BY <1>11 DEF vars, TypeOK
<1>. QED
  BY <1>1, <1>2, <1>3, <1>4, <1>5, <1>6, <1>7, <1>8, <1>9, <1>10, <1>11
     DEF Next, Handle, Progress

(* Every variable of the launch keeps its type.                            *)
THEOREM TypeCorrect == Spec => []TypeOK
BY InitType, NextType, PTL DEF Spec

-----------------------------------------------------------------------------
(* The inductive invariant behind LaunchBinding.  Sound(q) is what the     *)
(* steps a live request has taken have established about its local state.  *)

Sound(q) ==
  /\ Signed(q.id_token)
  /\ flow[q.state] # "unused"
  /\ q.cookie => q.browser = login[q.state].browser
  /\ q.pc \in {"validated", "destroyed", "minted"} =>
       /\ q.id_token.nonce = q.state
       /\ q.checked_at < created_at[q.state] + StateLifetime
  /\ q.pc \in {"destroyed", "minted"} => Accepted(q)

LiveNow(r) == req[r].pc \in Running \cup {"minted"}

RequestsSound == \A r \in Request : LiveNow(r) => Sound(req[r])

(* A state has rows, cookies and a login only once an init has served it.  *)
UnusedIsBlank ==
  \A s \in State : flow[s] = "unused" =>
    s \notin oidc_states /\ \A b \in Browser : jar[b][s] = 0

CookieAtOwner ==
  \A b \in Browser, s \in State : jar[b][s] > 0 => b = login[s].browser

LaunchInv == TypeOK /\ RequestsSound /\ UnusedIsBlank /\ CookieAtOwner

(* A login that has begun is never rewritten, and one whose response has   *)
(* been sent stays sent.                                                   *)
LoginsKept ==
  \A s \in State : flow[s] # "unused" =>
    /\ flow'[s] # "unused"
    /\ login'[s] = login[s]
    /\ created_at'[s] = created_at[s]
    /\ flow[s] = "sent" => flow'[s] = "sent"

LEMMA NextKeepsLogins == TypeOK /\ [Next]_vars => LoginsKept
<1> SUFFICES ASSUME TypeOK, [Next]_vars PROVE LoginsKept
  OBVIOUS
<1>1. ASSUME NEW s \in State, NEW i \in Issuer, NEW b \in Browser,
             InitInsert(s, i, b)
      PROVE  LoginsKept
  BY <1>1 DEF InitInsert, TypeOK, LoginsKept
<1>2. ASSUME NEW s \in State, InitRespond(s)
      PROVE  LoginsKept
  BY <1>2 DEF InitRespond, TypeOK, LoginsKept
<1>3. ASSUME NEW s \in State, InitBreak(s)
      PROVE  LoginsKept
  BY <1>3 DEF InitBreak, TypeOK, LoginsKept
<1>4. CASE UNCHANGED <<created_at, flow, login>>
  BY <1>4 DEF LoginsKept
<1>. QED
  BY <1>1, <1>2, <1>3, <1>4
     DEF Next, vars, Tick, Arrive, Handle, Progress, Validate, Destroy,
         DestroyError, Mint, Abort

(* What is sound stays so while logins are kept.                           *)
LEMMA SoundStays ==
  ASSUME TypeOK, LoginsKept, NEW q \in Live, Sound(q)
  PROVE  Sound(q)'
<1>1. q.state \in State /\ q.id_token.nonce \in State
  BY DEF Live, IdToken
<1>. QED
  BY <1>1 DEF LoginsKept, Sound, Signed, Accepted

LEMMA UntouchedRequest ==
  ASSUME TypeOK, RequestsSound, LoginsKept, NEW o \in Request,
         req'[o] = req[o], LiveNow(o)'
  PROVE  Sound(req[o])'
<1>1. LiveNow(o)
  BY DEF LiveNow
<1>2. req[o] \in Live /\ Sound(req[o])
  BY <1>1, LiveRecord DEF LiveNow, RequestsSound
<1>3. PICK q \in Live : q = req[o]
  BY <1>2
<1>4. Sound(q)'
  BY <1>2, <1>3, SoundStays
<1>. QED
  BY <1>3, <1>4 DEF Sound, Signed, Accepted

(* A step that touches one request, and leaves that one sound if it is     *)
(* still live, leaves all of them sound.                                   *)
LEMMA OneRequest ==
  ASSUME TypeOK, RequestsSound, LoginsKept, NEW r \in Request,
         \A o \in Request \ {r} : req'[o] = req[o],
         LiveNow(r)' => Sound(req[r])'
  PROVE  RequestsSound'
BY UntouchedRequest DEF RequestsSound

LEMMA InitLaunchInv == Init => LaunchInv
<1> SUFFICES ASSUME Init PROVE LaunchInv
  OBVIOUS
<1>1. TypeOK
  BY InitType
<1>2. RequestsSound
  BY DEF Init, RequestsSound, LiveNow, Running
<1>3. UnusedIsBlank /\ CookieAtOwner
  BY DEF Init, UnusedIsBlank, CookieAtOwner
<1>. QED
  BY <1>1, <1>2, <1>3 DEF LaunchInv

LEMMA NextTables ==
  ASSUME LaunchInv, [Next]_vars
  PROVE  UnusedIsBlank' /\ CookieAtOwner'
<1> USE DEF LaunchInv
<1>1. ASSUME NEW s \in State, NEW i \in Issuer, NEW b \in Browser,
             InitInsert(s, i, b)
      PROVE  UnusedIsBlank' /\ CookieAtOwner'
  BY <1>1 DEF InitInsert, TypeOK, UnusedIsBlank, CookieAtOwner
<1>2. ASSUME NEW s \in State, InitRespond(s)
      PROVE  UnusedIsBlank' /\ CookieAtOwner'
  <2>1. \A b \in Browser, t \in State :
          jar'[b][t] # jar[b][t] => t = s /\ b = login[s].browser
    BY <1>2 DEF InitRespond, TypeOK
  <2>. QED
    BY <1>2, <2>1 DEF InitRespond, TypeOK, UnusedIsBlank, CookieAtOwner
<1>3. ASSUME NEW s \in State, InitBreak(s)
      PROVE  UnusedIsBlank' /\ CookieAtOwner'
  BY <1>3 DEF InitBreak, TypeOK, UnusedIsBlank, CookieAtOwner
<1>4. CASE UNCHANGED <<flow, login, jar>> /\ oidc_states' \subseteq oidc_states
  BY <1>4 DEF UnusedIsBlank, CookieAtOwner
<1>. QED
  BY <1>1, <1>2, <1>3, <1>4
     DEF Next, vars, Tick, Arrive, Handle, Progress, Validate, Destroy,
         DestroyError, Mint, Abort

LEMMA NextRequests ==
  ASSUME LaunchInv, [Next]_vars
  PROVE  RequestsSound'
<1> USE DEF LaunchInv
<1>0. LoginsKept
  BY NextKeepsLogins
<1>1. ASSUME UNCHANGED req
      PROVE  RequestsSound'
  <2> SUFFICES ASSUME NEW o \in Request, LiveNow(o)'
               PROVE  Sound(req[o])'
    BY DEF RequestsSound
  <2>. QED
    BY <1>0, <1>1, UntouchedRequest
<1>2. ASSUME NEW r \in Request, NEW pc \in {"forwarded", "failed"}, Answer(r, pc)
      PROVE  RequestsSound'
  <2>1. ~LiveNow(r)' /\ \A o \in Request \ {r} : req'[o] = req[o]
    BY <1>2 DEF Answer, LiveNow, Running, TypeOK
  <2>. QED
    BY <1>0, <2>1, OneRequest
<1>3. ASSUME NEW r \in Request, NEW h \in Handler, NEW b \in Browser,
             NEW s \in State, NEW t \in IdToken, NEW stored \in BOOLEAN,
             Arrive(r, h, b, s, t, stored), s \in oidc_states
      PROVE  RequestsSound'
  <2>1. \A o \in Request \ {r} : req'[o] = req[o]
    BY <1>3 DEF Arrive, TypeOK
  <2>2. /\ req'[r].pc = "found" /\ req'[r].state = s /\ req'[r].browser = b
        /\ req'[r].id_token = t /\ req'[r].cookie = (now < jar[b][s])
    BY <1>3 DEF Arrive, TypeOK
  <2>3. now < jar[b][s] => b = login[s].browser
    BY DEF CookieAtOwner, TypeOK
  <2>4. flow[s] # "unused" /\ Signed(t)
    BY <1>3 DEF UnusedIsBlank, Arrive
  <2>5. Sound(req[r])'
    BY <1>3, <2>2, <2>3, <2>4 DEF Sound, Arrive, Signed
  <2>. QED
    BY <1>0, <2>1, <2>5, OneRequest
<1>4. ASSUME NEW r \in Request, req[r].pc = "found", ValidLaunch(req[r]),
             UNCHANGED <<flow, login, created_at>>,
             req' = [req EXCEPT ![r].pc = "validated", ![r].checked_at = now]
      PROVE  RequestsSound'
  <2>1. req[r] \in Live /\ Sound(req[r])
    BY <1>4, LiveRecord DEF LiveNow, Running, RequestsSound
  <2>2. \A o \in Request \ {r} : req'[o] = req[o]
    BY <1>4 DEF TypeOK
  <2>3. /\ req'[r].pc = "validated" /\ req'[r].checked_at = now
        /\ req'[r].state = req[r].state /\ req'[r].id_token = req[r].id_token
        /\ req'[r].browser = req[r].browser /\ req'[r].cookie = req[r].cookie
    BY <1>4, <2>1 DEF TypeOK, Live
  <2>4. Sound(req[r])'
    BY <1>4, <2>1, <2>3 DEF Sound, Signed, ValidLaunch, is_expired
  <2>. QED
    BY <1>0, <2>2, <2>4, OneRequest
<1>5. ASSUME NEW r \in Request, NEW pc \in {"destroyed", "minted"},
             req[r].pc \in {"validated", "destroyed"}, Accepted(req[r]),
             UNCHANGED <<flow, login, created_at>>,
             req' = [req EXCEPT ![r].pc = pc]
      PROVE  RequestsSound'
  <2>1. req[r] \in Live /\ Sound(req[r])
    BY <1>5, LiveRecord DEF LiveNow, Running, RequestsSound
  <2>2. \A o \in Request \ {r} : req'[o] = req[o]
    BY <1>5 DEF TypeOK
  <2>3. /\ req'[r].pc = pc /\ req'[r].checked_at = req[r].checked_at
        /\ req'[r].state = req[r].state /\ req'[r].id_token = req[r].id_token
        /\ req'[r].browser = req[r].browser /\ req'[r].cookie = req[r].cookie
        /\ req'[r].storage = req[r].storage
    BY <1>5, <2>1 DEF TypeOK, Live
  <2>4. Sound(req[r])'
    BY <1>5, <2>1, <2>3 DEF Sound, Signed, Accepted
  <2>. QED
    BY <1>0, <2>2, <2>4, OneRequest
<1>6. ASSUME NEW r \in Request, req[r].pc = "validated", AfterDestroy(r),
             UNCHANGED <<flow, login, created_at>>
      PROVE  RequestsSound'
  BY <1>2, <1>5, <1>6 DEF AfterDestroy
<1>7. ASSUME NEW r \in Request, Handle(r)
      PROVE  RequestsSound'
  <2>1. CASE Validate(r)
    BY <1>2, <1>4, <2>1 DEF Validate
  <2>2. CASE Destroy(r)
    BY <1>6, <2>2 DEF Destroy
  <2>3. CASE DestroyError(r)
    BY <1>2, <1>6, <2>3 DEF DestroyError
  <2>4. CASE Mint(r)
    <3>1. Accepted(req[r])
      BY <2>4 DEF Mint, RequestsSound, LiveNow, Running, Sound
    <3>. QED
      BY <1>5, <2>4, <3>1 DEF Mint
  <2>5. CASE Abort(r)
    BY <1>2, <2>5 DEF Abort
  <2>. QED
    BY <1>7, <2>1, <2>2, <2>3, <2>4, <2>5 DEF Handle, Progress
<1>8. ASSUME NEW r \in Request, NEW h \in Handler, NEW b \in Browser,
             NEW s \in State, NEW t \in IdToken, NEW stored \in BOOLEAN,
             Arrive(r, h, b, s, t, stored)
      PROVE  RequestsSound'
  <2>1. CASE s \in oidc_states
    BY <1>3, <1>8, <2>1
  <2>2. CASE s \notin oidc_states
    BY <1>2, <1>8, <2>2 DEF Arrive
  <2>. QED
    BY <2>1, <2>2
<1>. QED
  BY <1>1, <1>7, <1>8 DEF Next, vars, Tick, InitInsert, InitRespond, InitBreak

LEMMA LaunchInvStays == LaunchInv /\ [Next]_vars => LaunchInv'
BY NextType, NextTables, NextRequests DEF LaunchInv

LEMMA InvGivesBinding == LaunchInv => LaunchBinding
<1> SUFFICES ASSUME LaunchInv, NEW r \in Minted
             PROVE  /\ flow[req[r].state] = "sent"
                    /\ req[r].id_token.nonce = req[r].state
                    /\ req[r].id_token.target
                    /\ req[r].checked_at < created_at[req[r].state] + StateLifetime
                    /\ ~req[r].storage =>
                          req[r].browser = login[req[r].state].browser
  BY DEF LaunchBinding
<1>1. Sound(req[r]) /\ req[r].pc = "minted"
  BY DEF LaunchInv, RequestsSound, LiveNow, Minted
<1>. QED
  BY <1>1 DEF Sound, Signed, Accepted

(* Every tool JWT goes back to the login whose state it was minted for,    *)
(* whatever the lifetimes and however many requests run at once.           *)
THEOREM Binding == Spec => []LaunchBinding
BY InitLaunchInv, LaunchInvStays, InvGivesBinding, PTL DEF Spec

-----------------------------------------------------------------------------
(* Consumption.  A consumer's state was generated before, so no init can   *)
(* insert its row again, and the row was deleted when it became a consumer.*)

ConsumedInv == LaunchInv /\ ConsumedStateIsGone

LEMMA ConsumerIsSound ==
  ASSUME LaunchInv, NEW r \in Consumers
  PROVE  req[r] \in Live /\ Sound(req[r])
BY LiveRecord DEF LaunchInv, RequestsSound, LiveNow, Consumers, Running

(* A handler's step changes the state of its own request only.             *)
LEMMA OwnRequest ==
  ASSUME TypeOK, NEW r \in Request, Handle(r), NEW o \in Request, o # r
  PROVE  req'[o] = req[o]
<1>1. CASE Validate(r)
  BY <1>1 DEF Validate, Answer, TypeOK
<1>2. CASE Destroy(r)
  BY <1>2 DEF Destroy, AfterDestroy, Answer, TypeOK
<1>3. CASE DestroyError(r)
  BY <1>3 DEF DestroyError, AfterDestroy, Answer, TypeOK
<1>4. CASE Mint(r)
  BY <1>4 DEF Mint, TypeOK
<1>5. CASE Abort(r)
  BY <1>5 DEF Abort, Answer, TypeOK
<1>. QED
  BY <1>1, <1>2, <1>3, <1>4, <1>5 DEF Handle, Progress

(* An answer leaves no consumer behind.                                    *)
LEMMA AnsweredIsNoConsumer ==
  ASSUME TypeOK, NEW r \in Request, NEW pc \in {"forwarded", "failed"},
         Answer(r, pc)
  PROVE  r \notin Consumers'
BY DEF TypeOK, Answer, Consumers

(* What a step does to the set of consumers and to their records.          *)
LEMMA NewConsumer ==
  ASSUME TypeOK, [Next]_vars, NEW c \in Consumers', c \notin Consumers
  PROVE  /\ req'[c].state = req[c].state
         /\ Destroy(c) \/ (DestroyError(c) /\ ~PropagateDestroyError)
<1>0. c \in Request
  BY DEF Consumers
<1>1. ASSUME NEW r \in Request, NEW h \in Handler, NEW b \in Browser,
             NEW s \in State, NEW t \in IdToken, NEW stored \in BOOLEAN,
             Arrive(r, h, b, s, t, stored)
      PROVE  FALSE
  <2>1. CASE s \in oidc_states
    BY <1>1, <2>1 DEF Arrive, TypeOK, Consumers
  <2>2. CASE s \notin oidc_states
    BY <1>1, <2>2 DEF Arrive, Answer, TypeOK, Consumers
  <2>. QED
    BY <2>1, <2>2
<1>2. ASSUME NEW r \in Request, Handle(r)
      PROVE  Handle(c)
  BY <1>0, <1>2, OwnRequest DEF Consumers
<1>3. Handle(c)
  BY <1>1, <1>2
     DEF Next, vars, Tick, InitInsert, InitRespond, InitBreak, Consumers
<1>4. ~Validate(c)
  <2> SUFFICES ASSUME Validate(c) PROVE FALSE
    OBVIOUS
  <2>1. req' # [req EXCEPT ![c].pc = "validated", ![c].checked_at = now]
    <3> SUFFICES ASSUME req' = [req EXCEPT ![c].pc = "validated",
                                           ![c].checked_at = now]
                 PROVE  FALSE
      OBVIOUS
    <3>1. req[c] \in Live
      BY <1>0, LiveRecord DEF Validate, Running
    <3>2. req'[c].pc = "validated"
      BY <1>0, <3>1 DEF TypeOK, Live
    <3>. QED
      BY <3>2 DEF Consumers
  <2>. QED
    BY <1>0, <2>1, AnsweredIsNoConsumer DEF Validate
<1>5. ~Mint(c)
  BY <1>0 DEF Mint, Consumers
<1>6. ~Abort(c)
  BY <1>0, AnsweredIsNoConsumer DEF Abort
<1>7. Destroy(c) \/ (DestroyError(c) /\ ~PropagateDestroyError)
  BY <1>0, <1>3, <1>4, <1>5, <1>6, AnsweredIsNoConsumer
     DEF Handle, Progress, DestroyError
<1>8. req[c].pc = "validated" /\ AfterDestroy(c)
  BY <1>7 DEF Destroy, DestroyError
<1>9. req' = [req EXCEPT ![c].pc = "destroyed"]
  BY <1>0, <1>8, AnsweredIsNoConsumer DEF AfterDestroy
<1>10. req[c] \in Live
  BY <1>0, <1>8, LiveRecord DEF Running
<1>11. req'[c].state = req[c].state
  BY <1>0, <1>9, <1>10 DEF TypeOK, Live
<1>. QED
  BY <1>7, <1>11

LEMMA OldConsumer ==
  ASSUME TypeOK, [Next]_vars, NEW c \in Consumers', c \in Consumers
  PROVE  req'[c].state = req[c].state
<1>0. c \in Request /\ req[c].pc \in {"destroyed", "minted"}
  BY DEF Consumers
<1>1. req[c] \in Live
  BY <1>0, LiveRecord DEF Running
<1>2. ASSUME NEW r \in Request, NEW h \in Handler, NEW b \in Browser,
             NEW s \in State, NEW t \in IdToken, NEW stored \in BOOLEAN,
             Arrive(r, h, b, s, t, stored)
      PROVE  req'[c] = req[c]
  BY <1>0, <1>2 DEF Arrive, Answer, TypeOK
<1>3. ASSUME Handle(c)
      PROVE  req'[c].state = req[c].state
  <2>1. Mint(c)
    BY <1>0, <1>3, AnsweredIsNoConsumer
       DEF Handle, Progress, Validate, Destroy, DestroyError, Abort
  <2>. QED
    BY <1>0, <1>1, <2>1 DEF Mint, TypeOK, Live
<1>4. ASSUME NEW r \in Request, Handle(r), r # c
      PROVE  req'[c] = req[c]
  BY <1>0, <1>4, OwnRequest
<1>. QED
  BY <1>2, <1>3, <1>4 DEF Next, vars, Tick, InitInsert, InitRespond, InitBreak

(* A row that is in the table after a step was there before it, or belongs *)
(* to a state that no init had generated.                                  *)
LEMMA NewRow ==
  ASSUME [Next]_vars, NEW s \in oidc_states', s \notin oidc_states
  PROVE  flow[s] = "unused"
BY DEF Next, vars, Tick, InitInsert, InitRespond, InitBreak, Arrive, Handle,
       Progress, Validate, Destroy, DestroyError, Mint, Abort

LEMMA IgnoredStays ==
  ASSUME [Next]_vars
  PROVE  ignored \subseteq ignored'
BY DEF Next, vars, Tick, InitInsert, InitRespond, InitBreak, Arrive, Handle,
       Progress, Validate, Destroy, DestroyError, Mint, Abort

LEMMA NextConsumed ==
  ASSUME ConsumedInv, [Next]_vars
  PROVE  ConsumedStateIsGone'
<1> USE DEF ConsumedInv, LaunchInv
<1> SUFFICES ASSUME NEW c \in Consumers', req'[c].state \in oidc_states'
             PROVE  req'[c].state \in ignored'
  BY DEF ConsumedStateIsGone
<1>1. CASE c \in Consumers
  <2>1. req'[c].state = req[c].state /\ flow[req[c].state] # "unused"
    BY <1>1, OldConsumer, ConsumerIsSound DEF Sound
  <2>2. req[c].state \in oidc_states
    BY <2>1, NewRow
  <2>. QED
    BY <1>1, <2>1, <2>2, IgnoredStays DEF ConsumedStateIsGone
<1>2. CASE c \notin Consumers
  BY <1>2, NewConsumer DEF Destroy, DestroyError
<1>. QED
  BY <1>1, <1>2

LEMMA ConsumedInvHolds == Spec => []ConsumedInv
<1>1. Init => ConsumedInv
  BY InitLaunchInv
     DEF ConsumedInv, ConsumedStateIsGone, Consumers, Init
<1>2. ConsumedInv /\ [Next]_vars => ConsumedInv'
  BY LaunchInvStays, NextConsumed DEF ConsumedInv
<1>. QED
  BY <1>1, <1>2, PTL DEF Spec

(* Once a launch has got through, its state has no row, for any number of  *)
(* concurrent launches of it, unless atomic-decay ignored a failed DELETE. *)
THEOREM ConsumedGone == Spec => []ConsumedStateIsGone
BY ConsumedInvHolds, PTL DEF ConsumedInv

(* A request that is admitted finds a row that was there before it came.   *)
LEMMA FoundIsStored ==
  ASSUME TypeOK, Next, NEW r \in Request,
         req[r].pc = "idle", req'[r].pc = "found"
  PROVE  req'[r].state \in oidc_states
<1>1. ASSUME NEW o \in Request, Handle(o)
      PROVE  FALSE
  BY <1>1 DEF Handle, Progress, Validate, Destroy, DestroyError,
              AfterDestroy, Mint, Abort, Answer, TypeOK, Running
<1>2. ASSUME NEW o \in Request, NEW h \in Handler, NEW b \in Browser,
             NEW s \in State, NEW t \in IdToken, NEW stored \in BOOLEAN,
             Arrive(o, h, b, s, t, stored)
      PROVE  req'[r].state \in oidc_states
  BY <1>2 DEF Arrive, Answer, TypeOK
<1>. QED
  BY <1>1, <1>2 DEF Next, Tick, InitInsert, InitRespond, InitBreak

(* Whichever way a failed DELETE is treated: a launch that has got through *)
(* is repeated by a later request only on a state whose DELETE failed and  *)
(* was passed over, which is atomic-decay's (lti.rs:361).                  *)
THEOREM ReplayNeedsFailure ==
  Spec => [][\A r \in Request :
               req[r].pc = "idle" /\ req'[r].pc = "found" =>
                 \A c \in Consumers :
                   req[c].state = req'[r].state => req[c].state \in ignored]_vars
<1>1. ConsumedInv /\ [Next]_vars =>
        [\A r \in Request :
           req[r].pc = "idle" /\ req'[r].pc = "found" =>
             \A c \in Consumers :
               req[c].state = req'[r].state => req[c].state \in ignored]_vars
  BY FoundIsStored DEF ConsumedInv, LaunchInv, ConsumedStateIsGone
<1>. QED
  BY <1>1, ConsumedInvHolds, PTL DEF Spec

(* Where the DELETE's error is propagated, a launch that has got through   *)
(* cannot be repeated by any later request.                                *)
THEOREM NoReplay ==
  ASSUME PropagateDestroyError
  PROVE  Spec => NoLookupAfterConsumption
<1> DEFINE Kept == ignored = {}
           Fresh == \A r \in Request :
                      req[r].pc = "idle" /\ req'[r].pc = "found" =>
                        \A c \in Consumers : req[c].state # req'[r].state
<1>1. Init => Kept
  BY DEF Init
<1>2. Kept /\ [Next]_vars => Kept'
  BY DEF Next, vars, Tick, InitInsert, InitRespond, InitBreak, Arrive, Handle,
         Progress, Validate, Destroy, DestroyError, Mint, Abort
<1>3. ConsumedInv /\ Kept /\ [Next]_vars => [Fresh]_vars
  BY FoundIsStored DEF ConsumedInv, LaunchInv, ConsumedStateIsGone
<1>. QED
  BY <1>1, <1>2, <1>3, ConsumedInvHolds, PTL DEF Spec, NoLookupAfterConsumption

-----------------------------------------------------------------------------
(* The refinement of LaunchTicket.                                         *)

(* What holds of every state of OidcLaunch where errors propagate.         *)
TicketInv == ConsumedInv /\ ignored = {}

(* A step that changes no row and makes no state used changes no ticket.   *)
LEMMA TicketsStay ==
  ASSUME UNCHANGED oidc_states,
         \A s \in State : flow'[s] = "unused" <=> flow[s] = "unused"
  PROVE  ticketOf' = ticketOf
BY DEF ticketOf

(* What the mapping makes of one request.                                  *)
LEMMA HolderIs ==
  ASSUME NEW r \in Request
  PROVE  /\ req[r].pc = "idle" => holderOf[r] = "none" /\ shownOf[r] = "none"
         /\ req[r].pc \in Running => holderOf[r] = "admitted" /\ shownOf[r] = req[r].state
         /\ req[r].pc = "minted" => holderOf[r] = "granted" /\ shownOf[r] = req[r].state
         /\ req[r].pc \in {"forwarded", "failed"} =>
              holderOf[r] = "released" /\ shownOf[r] = "none"
BY DEF holderOf, shownOf, Running

LEMMA HolderIsNext ==
  ASSUME NEW r \in Request
  PROVE  /\ req'[r].pc = "idle" => holderOf'[r] = "none" /\ shownOf'[r] = "none"
         /\ req'[r].pc \in Running => holderOf'[r] = "admitted" /\ shownOf'[r] = req'[r].state
         /\ req'[r].pc = "minted" => holderOf'[r] = "granted" /\ shownOf'[r] = req'[r].state
         /\ req'[r].pc \in {"forwarded", "failed"} =>
              holderOf'[r] = "released" /\ shownOf'[r] = "none"
BY DEF holderOf, shownOf, Running

(* A step that changes one request changes one holder.                     *)
LEMMA OneHolder ==
  ASSUME TypeOK, NEW r \in Request, \A o \in Request \ {r} : req'[o] = req[o]
  PROVE  /\ holderOf' = [holderOf EXCEPT ![r] = holderOf'[r]]
         /\ shownOf' = [shownOf EXCEPT ![r] = shownOf'[r]]
<1>1. /\ DOMAIN holderOf = Request /\ DOMAIN holderOf' = Request
      /\ holderOf = [o \in Request |-> holderOf[o]]
      /\ holderOf' = [o \in Request |-> holderOf'[o]]
  BY DEF holderOf
<1>2. ASSUME NEW o \in Request, o # r
      PROVE  holderOf'[o] = holderOf[o]
  <2>1. req'[o] = req[o]
    BY <1>2
  <2>2. \/ req[o].pc \in {"idle", "minted", "forwarded", "failed"}
        \/ req[o].pc \in Running
    BY DEF TypeOK, Quiet, Live, Running
  <2>. QED
    BY <2>1, <2>2, HolderIs, HolderIsNext
<1>3. holderOf' = [holderOf EXCEPT ![r] = holderOf'[r]]
  BY <1>1, <1>2
<1>4. shownOf' = [shownOf EXCEPT ![r] = shownOf'[r]]
  BY DEF shownOf
<1>. QED
  BY <1>3, <1>4

LEMMA HoldersStay ==
  ASSUME UNCHANGED req
  PROVE  holderOf' = holderOf /\ shownOf' = shownOf
BY DEF holderOf, shownOf

(* An answer other than a launch releases the ticket.                      *)
LEMMA AnswerReleases ==
  ASSUME TypeOK, NEW r \in Request, NEW pc \in {"forwarded", "failed"}, Answer(r, pc)
  PROVE  /\ holderOf' = [holderOf EXCEPT ![r] = "released"]
         /\ shownOf' = [shownOf EXCEPT ![r] = "none"]
<1>1. req'[r].pc = pc /\ \A o \in Request \ {r} : req'[o] = req[o]
  BY DEF Answer, TypeOK
<1>2. holderOf'[r] = "released" /\ shownOf'[r] = "none"
  BY <1>1, HolderIsNext
<1>. QED
  BY <1>1, <1>2, OneHolder

(* A request that goes on keeps its ticket.                                *)
LEMMA HolderGoesOn ==
  ASSUME TypeOK, NEW r \in Request, req[r].pc \in Running,
         req'[r].pc \in Running, req'[r].state = req[r].state,
         \A o \in Request \ {r} : req'[o] = req[o]
  PROVE  holderOf' = holderOf /\ shownOf' = shownOf
<1>1. holderOf'[r] = holderOf[r] /\ shownOf'[r] = shownOf[r]
  BY HolderIs, HolderIsNext
<1>2. holderOf' = [holderOf EXCEPT ![r] = holderOf[r]]
      /\ shownOf' = [shownOf EXCEPT ![r] = shownOf[r]]
  BY <1>1, OneHolder
<1>. QED
  BY <1>2 DEF holderOf, shownOf

LEMMA InsertIssues ==
  ASSUME TypeOK, NEW s \in State, NEW i \in Issuer, NEW b \in Browser,
         InitInsert(s, i, b)
  PROVE  Ticket!Issue(s)
<1>1. ticketOf[s] = "unissued"
  BY DEF InitInsert, ticketOf
<1>2. ticketOf' = [ticketOf EXCEPT ![s] = "open"]
  <2>1. /\ flow'[s] # "unused" /\ s \in oidc_states'
        /\ \A t \in State \ {s} :
             flow'[t] = flow[t] /\ (t \in oidc_states' <=> t \in oidc_states)
    BY DEF InitInsert, TypeOK
  <2>. QED
    BY <2>1 DEF ticketOf
<1>3. UNCHANGED req
  BY DEF InitInsert
<1>. QED
  BY <1>1, <1>2, <1>3, HoldersStay DEF Ticket!Issue

LEMMA ArrivalAdmits ==
  ASSUME TypeOK, UnusedIsBlank, NEW r \in Request, NEW h \in Handler, NEW b \in Browser,
         NEW s \in State, NEW t \in IdToken, NEW stored \in BOOLEAN,
         Arrive(r, h, b, s, t, stored)
  PROVE  Ticket!Admit(r, s) \/ Ticket!Release(r)
<1>1. ticketOf' = ticketOf
  BY TicketsStay DEF Arrive
<1>2. holderOf[r] = "none"
  BY HolderIs DEF Arrive
<1>3. CASE s \in oidc_states
  <2>1. /\ req'[r].pc = "found" /\ req'[r].state = s
        /\ \A o \in Request \ {r} : req'[o] = req[o]
    BY <1>3 DEF Arrive, TypeOK
  <2>2. holderOf'[r] = "admitted" /\ shownOf'[r] = s
    BY <2>1, HolderIsNext DEF Running
  <2>3. /\ holderOf' = [holderOf EXCEPT ![r] = "admitted"]
        /\ shownOf' = [shownOf EXCEPT ![r] = s]
    BY <2>1, <2>2, OneHolder
  <2>4. ticketOf[s] = "open"
    BY <1>3 DEF UnusedIsBlank, ticketOf
  <2>. QED
    BY <1>1, <1>2, <2>3, <2>4 DEF Ticket!Admit
<1>4. CASE s \notin oidc_states
  <2>1. Answer(r, "failed")
    BY <1>4 DEF Arrive
  <2>. QED
    BY <1>1, <1>2, <2>1, AnswerReleases DEF Ticket!Release
<1>. QED
  BY <1>3, <1>4

LEMMA DestroyCloses ==
  ASSUME TypeOK, RequestsSound, NEW r \in Request, Destroy(r)
  PROVE  Ticket!Close(r)
<1> DEFINE s == req[r].state
<1>1. req[r] \in Live /\ flow[s] # "unused" /\ req[r].pc \in Running
  BY LiveRecord DEF Destroy, Running, RequestsSound, LiveNow, Sound
<1>2. holderOf[r] = "admitted" /\ shownOf[r] = s
  BY <1>1, HolderIs
<1>3. ticketOf' = [ticketOf EXCEPT ![s] = "closed"]
  <2>1. s \in State
    BY <1>1 DEF Live
  <2>2. /\ UNCHANGED flow /\ s \notin oidc_states'
        /\ \A t \in State \ {s} : t \in oidc_states' <=> t \in oidc_states
    BY DEF Destroy
  <2>. QED
    BY <1>1, <2>1, <2>2 DEF ticketOf
<1>4. CASE req' = [req EXCEPT ![r].pc = "destroyed"]
  <2>1. /\ req'[r].pc \in Running /\ req'[r].state = req[r].state
        /\ \A o \in Request \ {r} : req'[o] = req[o]
    BY <1>1, <1>4 DEF Live, Running, TypeOK
  <2>. QED
    BY <1>1, <1>2, <1>3, <2>1, HolderGoesOn DEF Ticket!Close
<1>5. CASE Answer(r, "failed")
  BY <1>2, <1>3, <1>5, AnswerReleases DEF Ticket!Close
<1>. QED
  BY <1>4, <1>5 DEF Destroy, AfterDestroy

LEMMA MintGrants ==
  ASSUME TicketInv, NEW r \in Request, Mint(r)
  PROVE  Ticket!Grant(r)
<1>. USE DEF TicketInv, ConsumedInv, LaunchInv
<1>1. req[r] \in Live /\ Sound(req[r]) /\ r \in Consumers
  BY ConsumerIsSound DEF Mint, Consumers
<1>2. req[r].state \in State /\ req[r].state \notin oidc_states
      /\ flow[req[r].state] # "unused"
  BY <1>1 DEF Live, ConsumedStateIsGone, Sound
<1>3. holderOf[r] = "admitted" /\ shownOf[r] = req[r].state
  BY HolderIs DEF Mint, Running
<1>4. ticketOf[req[r].state] = "closed"
  BY <1>2 DEF ticketOf
<1>5. /\ req'[r].pc = "minted" /\ req'[r].state = req[r].state
      /\ \A o \in Request \ {r} : req'[o] = req[o]
  BY <1>1 DEF Mint, TypeOK, Live
<1>6. holderOf'[r] = "granted" /\ shownOf'[r] = shownOf[r]
  BY <1>3, <1>5, HolderIsNext
<1>7. holderOf' = [holderOf EXCEPT ![r] = "granted"]
      /\ shownOf' = [shownOf EXCEPT ![r] = shownOf[r]]
  BY <1>5, <1>6, OneHolder
<1>8. shownOf' = shownOf
  BY <1>7 DEF shownOf
<1>9. ticketOf' = ticketOf
  BY TicketsStay DEF Mint
<1>. QED
  BY <1>3, <1>4, <1>7, <1>8, <1>9 DEF Ticket!Grant

LEMMA ReleaseOnFailure ==
  ASSUME TypeOK, NEW r \in Request, NEW pc \in {"forwarded", "failed"},
         req[r].pc \in Running, Answer(r, pc), UNCHANGED <<oidc_states, flow>>
  PROVE  Ticket!Release(r)
<1>1. holderOf[r] = "admitted"
  BY HolderIs
<1>2. ticketOf' = ticketOf
  BY TicketsStay
<1>. QED
  BY <1>1, <1>2, AnswerReleases DEF Ticket!Release

LEMMA HandleRefines ==
  ASSUME PropagateDestroyError, TicketInv, NEW r \in Request, Handle(r)
  PROVE  \/ Ticket!Close(r) \/ Ticket!Release(r) \/ Ticket!Grant(r)
         \/ UNCHANGED <<ticketOf, holderOf, shownOf>>
<1>. USE DEF TicketInv, ConsumedInv, LaunchInv
<1>1. CASE Validate(r)
  <2>1. CASE Answer(r, "failed") \/ Answer(r, "forwarded")
    BY <1>1, <2>1, ReleaseOnFailure DEF Validate, Running
  <2>2. CASE req' = [req EXCEPT ![r].pc = "validated", ![r].checked_at = now]
    <3>1. req[r] \in Live
      BY <1>1, LiveRecord DEF Validate, Running
    <3>2. /\ req'[r].pc \in Running /\ req'[r].state = req[r].state
          /\ \A o \in Request \ {r} : req'[o] = req[o]
      BY <2>2, <3>1 DEF Live, Running, TypeOK
    <3>3. holderOf' = holderOf /\ shownOf' = shownOf
      BY <1>1, <3>2, HolderGoesOn DEF Validate, Running
    <3>. QED
      BY <1>1, <3>3, TicketsStay DEF Validate
  <2>. QED
    BY <1>1, <2>1, <2>2 DEF Validate
<1>2. CASE Destroy(r)
  BY <1>2, DestroyCloses
<1>3. CASE DestroyError(r)
  BY <1>3, ReleaseOnFailure DEF DestroyError, Running
<1>4. CASE Mint(r)
  BY <1>4, MintGrants
<1>5. CASE Abort(r)
  BY <1>5, ReleaseOnFailure DEF Abort
<1>. QED
  BY <1>1, <1>2, <1>3, <1>4, <1>5 DEF Handle, Progress

LEMMA StepRefines ==
  ASSUME PropagateDestroyError, TicketInv, [Next]_vars
  PROVE  [Ticket!Next]_(Ticket!vars)
<1>. USE DEF TicketInv, ConsumedInv, LaunchInv
<1>1. ASSUME UNCHANGED <<oidc_states, req>>,
             \A s \in State : flow'[s] = "unused" <=> flow[s] = "unused"
      PROVE  UNCHANGED <<ticketOf, holderOf, shownOf>>
  BY <1>1, TicketsStay, HoldersStay
<1>2. ASSUME NEW s \in State, InitRespond(s) \/ InitBreak(s)
      PROVE  UNCHANGED <<ticketOf, holderOf, shownOf>>
  <2>1. \A t \in State : flow'[t] = "unused" <=> flow[t] = "unused"
    BY <1>2 DEF InitRespond, InitBreak, TypeOK
  <2>. QED
    BY <1>1, <1>2, <2>1 DEF InitRespond, InitBreak
<1>3. CASE Tick \/ UNCHANGED vars
  BY <1>1, <1>3 DEF Tick, vars, Ticket!vars
<1>4. ASSUME NEW s \in State, NEW i \in Issuer, NEW b \in Browser, InitInsert(s, i, b)
      PROVE  Ticket!Next
  BY <1>4, InsertIssues DEF Ticket!Next
<1>5. ASSUME NEW r \in Request, NEW h \in Handler, NEW b \in Browser, NEW s \in State,
             NEW t \in IdToken, NEW stored \in BOOLEAN, Arrive(r, h, b, s, t, stored)
      PROVE  Ticket!Next
  BY <1>5, ArrivalAdmits DEF Ticket!Next
<1>6. ASSUME NEW r \in Request, Handle(r)
      PROVE  Ticket!Next \/ UNCHANGED <<ticketOf, holderOf, shownOf>>
  BY <1>6, HandleRefines DEF Ticket!Next
<1>7. CASE Next
  <2>1. CASE Tick
    BY <1>3, <2>1 DEF Ticket!vars
  <2>2. CASE \E s \in State : InitRespond(s) \/ InitBreak(s)
    BY <1>2, <2>2 DEF Ticket!vars
  <2>3. CASE \E s \in State, i \in Issuer, b \in Browser : InitInsert(s, i, b)
    BY <1>4, <2>3
  <2>4. CASE \E r \in Request, h \in Handler, b \in Browser, s \in State,
                t \in IdToken, stored \in BOOLEAN : Arrive(r, h, b, s, t, stored)
    BY <1>5, <2>4
  <2>5. CASE \E r \in Request : Handle(r)
    BY <1>6, <2>5 DEF Ticket!vars
  <2>. QED
    BY <1>7, <2>1, <2>2, <2>3, <2>4, <2>5 DEF Next
<1>. QED
  BY <1>3, <1>7 DEF Ticket!vars

(* Where the DELETE's error is propagated, the handlers implement the      *)
(* ticket: a launch is granted only once its state can never be shown      *)
(* again, for any number of requests, states and browsers.                 *)
THEOREM TicketImplemented ==
  ASSUME PropagateDestroyError
  PROVE  Spec => ImplementsTicket
<1> DEFINE Kept == ignored = {}
<1>1. Init => Ticket!Init
  BY DEF Init, Ticket!Init, ticketOf, holderOf, shownOf, Running
<1>2. Init => Kept
  BY DEF Init
<1>3. Kept /\ [Next]_vars => Kept'
  BY DEF Next, vars, Tick, InitInsert, InitRespond, InitBreak, Arrive, Handle,
         Progress, Validate, Destroy, DestroyError, Mint, Abort
<1>4. Spec => []TicketInv
  <2>1. ConsumedInv /\ Kept => TicketInv
    BY DEF TicketInv
  <2>. QED
    BY <1>2, <1>3, <2>1, ConsumedInvHolds, PTL DEF Spec
<1>5. TicketInv /\ [Next]_vars => [Ticket!Next]_(Ticket!vars)
  BY StepRefines
<1>. QED
  BY <1>1, <1>4, <1>5, PTL DEF Spec, ImplementsTicket, Ticket!Spec
=============================================================================

----------------------------- MODULE OidcLaunch -----------------------------
(***************************************************************************)
(* The LTI 1.3 login and launch: /lti/init, /lti/redirect and /lti/launch  *)
(* over the oidc_states table.  A handler runs as a sequence of steps cut  *)
(* at its awaits (a query or a fetch), so that the steps of concurrent     *)
(* requests interleave; between two steps its future can be dropped, when  *)
(* the browser goes away or the process stops, and the table survives.     *)
(*                                                                         *)
(* Times are in units of the shortest lifetime that matters.  A state      *)
(* value stands for the pair of random strings an init generates: the      *)
(* state, and the nonce stored with it.                                    *)
(***************************************************************************)
EXTENDS Naturals, FiniteSets

CONSTANTS
  State,                 \* what generate_secure_string can return
  Issuer,                \* platform issuers
  Browser,               \* user agents, each with a cookie jar
  Request,               \* POSTs to /lti/redirect and /lti/launch
  StateLifetime,         \* ten minutes in validate_launch
  CookieLifetime,        \* the max_age of the state cookie, sixty seconds
  MaxTime,               \* bound on the clock
  PropagateDestroyError  \* TRUE: `destroy().await?` (atomic-lti-tool and
                         \* atomic-lti-tool-axum); FALSE: `let _ =
                         \* destroy().await` (atomic-decay)

ASSUME LaunchAssumption ==
  /\ StateLifetime \in Nat \ {0}
  /\ CookieLifetime \in Nat \ {0}
  /\ MaxTime \in Nat
  /\ PropagateDestroyError \in BOOLEAN
  /\ State # {} /\ Issuer # {} /\ Browser # {}

VARIABLES
  now,          \* the clock
  oidc_states,  \* the states that have a row in the table
  created_at,   \* created_at[s]: the column of s's row
  flow,         \* flow[s]: how far the init that generated s has come
  login,        \* login[s]: the issuer and the browser that init served
  jar,          \* jar[b][s]: when b's cookie open_id_<s> expires, 0 if none
  req,          \* req[r]: the local state of request r
  ignored       \* history: states whose DELETE failed and was passed over

vars == <<now, oidc_states, created_at, flow, login, jar, req, ignored>>

-----------------------------------------------------------------------------
(* What a platform signs.  target tells whether target_link_uri is the     *)
(* launch URL of this host.                                                *)
IdToken == [iss : Issuer, nonce : State, target : BOOLEAN]

(* A platform signs a token only for an authorization request that was     *)
(* sent, and copies the nonce of that request into it.  Which platform the *)
(* browser took the request to is not known: it may be another than the    *)
(* one the login is for, and nothing compares the two issuers.             *)
Signed(t) == flow[t.nonce] = "sent"

Handler == {"redirect", "launch"}
Running == {"found", "validated", "destroyed"}
Ended == {"minted", "forwarded", "failed"}

(* A request has local state from its arrival to its answer, and a minted  *)
(* one keeps it as the record of what was granted.                         *)
Quiet == [pc : {"idle", "forwarded", "failed"}]
Live ==
  [pc : Running \cup {"minted"}, handler : Handler, browser : Browser,
   state : State, id_token : IdToken, storage : BOOLEAN, cookie : BOOLEAN,
   checked_at : 0..MaxTime]

NoLogin == [iss |-> "none", browser |-> "none"]
Login == [iss : Issuer, browser : Browser]

TypeOK ==
  /\ now \in 0..MaxTime
  /\ oidc_states \in SUBSET State
  /\ created_at \in [State -> 0..MaxTime]
  /\ flow \in [State -> {"unused", "inserted", "sent", "broken"}]
  /\ login \in [State -> Login \cup {NoLogin}]
  /\ jar \in [Browser -> [State -> 0..(MaxTime + CookieLifetime)]]
  /\ req \in [Request -> Quiet \cup Live]
  /\ ignored \in SUBSET State

Init ==
  /\ now = 0
  /\ oidc_states = {}
  /\ created_at = [s \in State |-> 0]
  /\ flow = [s \in State |-> "unused"]
  /\ login = [s \in State |-> NoLogin]
  /\ jar = [b \in Browser |-> [s \in State |-> 0]]
  /\ req = [r \in Request |-> [pc |-> "idle"]]
  /\ ignored = {}

Tick ==
  /\ now < MaxTime
  /\ now' = now + 1
  /\ UNCHANGED <<oidc_states, created_at, flow, login, jar, req, ignored>>

-----------------------------------------------------------------------------
(* Slips that the properties are tried against: a state served twice, the  *)
(* row's lifetime given to the cookie as well, a token of another login, a *)
(* state destroyed for cookie launches only, an error passed over, a       *)
(* handler that waits for the row it is to delete.                         *)

InitInsertAgain(s, i, b) ==
  /\ flow[s] # "inserted"
  /\ flow' = [flow EXCEPT ![s] = "inserted"]
  /\ login' = [login EXCEPT ![s] = [iss |-> i, browser |-> b]]
  /\ oidc_states' = oidc_states \cup {s}
  /\ created_at' = [created_at EXCEPT ![s] = now]
  /\ UNCHANGED <<now, jar, req, ignored>>

InitRespondLong(s) ==
  /\ flow[s] = "inserted"
  /\ flow' = [flow EXCEPT ![s] = "sent"]
  /\ jar' = [jar EXCEPT ![login[s].browser][s] =
               now + StateLifetime + CookieLifetime]
  /\ UNCHANGED <<now, oidc_states, created_at, login, req, ignored>>

ValidLaunchAnyNonce(q) == now < created_at[q.state] + StateLifetime

DestroyForCookie(r) ==
  /\ req[r].pc = "validated"
  /\ oidc_states' = IF req[r].cookie THEN oidc_states \ {req[r].state}
                    ELSE oidc_states
  /\ req' = [req EXCEPT ![r].pc = "destroyed"]
  /\ UNCHANGED <<now, created_at, flow, login, jar, ignored>>

DestroyErrorPassed(r) ==
  /\ req[r].pc = "validated"
  /\ req' = [req EXCEPT ![r].pc = "destroyed"]
  /\ UNCHANGED <<now, oidc_states, created_at, flow, login, jar, ignored>>

DestroyPresent(r) ==
  /\ req[r].pc = "validated"
  /\ req[r].state \in oidc_states
  /\ oidc_states' = oidc_states \ {req[r].state}
  /\ req' = [req EXCEPT ![r].pc = "destroyed"]
  /\ UNCHANGED <<now, created_at, flow, login, jar, ignored>>

-----------------------------------------------------------------------------
(* /lti/init.  The row is inserted first; the platform and the page are    *)
(* looked up after it.                                                     *)

InitInsert(s, i, b) ==
  /\ flow[s] = "unused"
  /\ flow' = [flow EXCEPT ![s] = "inserted"]
  /\ login' = [login EXCEPT ![s] = [iss |-> i, browser |-> b]]
  /\ oidc_states' = oidc_states \cup {s}
  /\ created_at' = [created_at EXCEPT ![s] = now]
  /\ UNCHANGED <<now, jar, req, ignored>>

(* The response carries the state cookie, which the browser may refuse,    *)
(* and sends the browser on to the platform.                               *)
InitRespond(s) ==
  /\ flow[s] = "inserted"
  /\ flow' = [flow EXCEPT ![s] = "sent"]
  /\ \/ jar' = [jar EXCEPT ![login[s].browser][s] = now + CookieLifetime]
     \/ UNCHANGED jar
  /\ UNCHANGED <<now, oidc_states, created_at, login, req, ignored>>

(* No asset, no such platform, or a dropped request: the row stays.        *)
InitBreak(s) ==
  /\ flow[s] = "inserted"
  /\ flow' = [flow EXCEPT ![s] = "broken"]
  /\ UNCHANGED <<now, oidc_states, created_at, login, jar, req, ignored>>

-----------------------------------------------------------------------------
(* /lti/redirect and /lti/launch.                                          *)

(* The answer is an error or, from /lti/redirect, the self-submitting form *)
(* that posts the same token to /lti/launch.                               *)
Answer(r, pc) == req' = [req EXCEPT ![r] = [pc |-> pc]]

(* The request arrives and its row is read.  The cookies are those of its  *)
(* headers, so they are judged as the browser sent them.                   *)
Arrive(r, h, b, s, t, stored) ==
  /\ req[r].pc = "idle"
  /\ Signed(t)
  /\ \/ /\ s \in oidc_states
        /\ req' = [req EXCEPT ![r] =
             [pc |-> "found", handler |-> h, browser |-> b, state |-> s,
              id_token |-> t, storage |-> stored, cookie |-> now < jar[b][s],
              checked_at |-> 0]]
     \/ s \notin oidc_states /\ Answer(r, "failed")
  /\ UNCHANGED <<now, oidc_states, created_at, flow, login, jar, ignored>>

(* validate_launch: is_expired is TRUE of a row that is still fresh.       *)
is_expired(s) == now < created_at[s] + StateLifetime

ValidLaunch(q) == is_expired(q.state) /\ q.id_token.nonce = q.state

(* The key set has been fetched and the signature holds: the row read on   *)
(* arrival is compared with the token.  /lti/redirect ends here.           *)
Validate(r) ==
  /\ req[r].pc = "found"
  /\ \/ ~ValidLaunch(req[r]) /\ Answer(r, "failed")
     \/ /\ ValidLaunch(req[r]) /\ req[r].handler = "redirect"
        /\ Answer(r, "forwarded")
     \/ /\ ValidLaunch(req[r]) /\ req[r].handler = "launch"
        /\ req' = [req EXCEPT ![r].pc = "validated", ![r].checked_at = now]
  /\ UNCHANGED <<now, oidc_states, created_at, flow, login, jar, ignored>>

(* target_link_uri, then the cookie where the platform offers no storage.  *)
Accepted(q) == q.id_token.target /\ (q.storage \/ q.cookie)

AfterDestroy(r) ==
  \/ Accepted(req[r]) /\ req' = [req EXCEPT ![r].pc = "destroyed"]
  \/ ~Accepted(req[r]) /\ Answer(r, "failed")

(* The row is deleted by id; that no row is left to delete is no error.    *)
Destroy(r) ==
  /\ req[r].pc = "validated"
  /\ oidc_states' = oidc_states \ {req[r].state}
  /\ AfterDestroy(r)
  /\ UNCHANGED <<now, created_at, flow, login, jar, ignored>>

(* The DELETE itself fails: the libraries return the error, atomic-decay   *)
(* goes on as if the row were gone.                                        *)
DestroyError(r) ==
  /\ req[r].pc = "validated"
  /\ \/ /\ PropagateDestroyError
        /\ Answer(r, "failed")
        /\ UNCHANGED ignored
     \/ /\ ~PropagateDestroyError
        /\ AfterDestroy(r)
        /\ ignored' = ignored \cup {req[r].state}
  /\ UNCHANGED <<now, oidc_states, created_at, flow, login, jar>>

(* The platform is read again, the tool's JWT is signed and sent.          *)
Mint(r) ==
  /\ req[r].pc = "destroyed"
  /\ req' = [req EXCEPT ![r].pc = "minted"]
  /\ UNCHANGED <<now, oidc_states, created_at, flow, login, jar, ignored>>

(* Any await can fail (no platform, no key set, a bad signature, no        *)
(* signing key) or never return because the future is dropped.             *)
Abort(r) ==
  /\ req[r].pc \in Running
  /\ Answer(r, "failed")
  /\ UNCHANGED <<now, oidc_states, created_at, flow, login, jar, ignored>>

-----------------------------------------------------------------------------
Progress(r) == Validate(r) \/ Destroy(r) \/ Mint(r)

Handle(r) == Progress(r) \/ DestroyError(r) \/ Abort(r)

Next ==
  \/ Tick
  \/ \E s \in State, i \in Issuer, b \in Browser : InitInsert(s, i, b)
  \/ \E s \in State : InitRespond(s) \/ InitBreak(s)
  \/ \E r \in Request, h \in Handler, b \in Browser, s \in State,
        t \in IdToken, stored \in BOOLEAN : Arrive(r, h, b, s, t, stored)
  \/ \E r \in Request : Handle(r)

Spec == Init /\ [][Next]_vars

(* The runtime polls every ready handler; that a query or a fetch returns  *)
(* is the assumption, that it succeeds is not.                             *)
FairSpec == Spec /\ \A r \in Request : WF_vars(Progress(r))

-----------------------------------------------------------------------------
Minted == {r \in Request : req[r].pc = "minted"}

(* The launches that have passed the destruction of their state.           *)
Consumers == {r \in Request : req[r].pc \in {"destroyed", "minted"}}

(* Every tool JWT goes back to one login: its request was sent, the token  *)
(* carries its nonce, was checked while the state was fresh and names this *)
(* tool; and without platform storage the JWT goes to the browser that     *)
(* logged in (launch, validate_launch).  Of the platform it says nothing:  *)
(* a token counts for whatever registered platform signed it.              *)
LaunchBinding ==
  \A r \in Minted :
    LET q == req[r] IN
      /\ flow[q.state] = "sent"
      /\ q.id_token.nonce = q.state
      /\ q.id_token.target
      /\ q.checked_at < created_at[q.state] + StateLifetime
      /\ ~q.storage => q.browser = login[q.state].browser

(* A state a launch has got through has no row left to serve another one,  *)
(* unless its DELETE failed in atomic-decay, which ignores that            *)
(* (lti.rs:361, axum launch.rs:115, tool launch.rs:79).                    *)
ConsumedStateIsGone ==
  \A r \in Consumers :
    req[r].state \in oidc_states => req[r].state \in ignored

(* A request that arrives after a launch has got through on its state is   *)
(* refused: a launch cannot be repeated (init_oidc_state_store).           *)
NoLookupAfterConsumption ==
  [][\A r \in Request :
       req[r].pc = "idle" /\ req'[r].pc = "found" =>
         \A c \in Consumers : req[c].state # req'[r].state]_vars

(* Every request that is let in is answered, whatever fails on the way.    *)
EveryRequestEnds ==
  \A r \in Request : req[r].pc = "found" ~> req[r].pc \in Ended

-----------------------------------------------------------------------------
(* The tickets of LaunchTicket, read off the table and the requests.       *)
ticketOf ==
  [s \in State |-> IF flow[s] = "unused" THEN "unissued"
                   ELSE IF s \in oidc_states THEN "open" ELSE "closed"]

holderOf ==
  [r \in Request |-> CASE req[r].pc = "idle" -> "none"
                       [] req[r].pc \in Running -> "admitted"
                       [] req[r].pc = "minted" -> "granted"
                       [] OTHER -> "released"]

shownOf ==
  [r \in Request |-> IF req[r].pc \in Running \cup {"minted"}
                     THEN req[r].state ELSE "none"]

Ticket == INSTANCE LaunchTicket WITH
            ticket <- ticketOf, holder <- holderOf, shown <- shownOf

(* Where a failed DELETE is an error, the handlers implement LaunchTicket: *)
(* a launch is granted only once its state can never be shown again.       *)
ImplementsTicket == Ticket!Spec
=============================================================================

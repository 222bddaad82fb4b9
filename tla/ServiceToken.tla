---------------------------- MODULE ServiceToken ----------------------------
(***************************************************************************)
(* request_service_token_cached: service tokens of the platforms, asked    *)
(* for by concurrent handlers, retried when rate-limited, and kept by the  *)
(* cached crate, whose sync_writes = "default" holds one lock over the     *)
(* whole cache while the function runs, its awaits included.               *)
(*                                                                         *)
(* Times are in units of which Lifespan makes fifteen minutes; the second  *)
(* between two tries is below them.  expires_in is not in the model, as    *)
(* nothing reads it.                                                       *)
(***************************************************************************)
EXTENDS Naturals, FiniteSets

CONSTANTS
  Call,       \* the calls of the function
  ClientId,   \* client ids, which each platform hands out on its own
  TokenUrl,   \* token endpoints, one for each platform
  Scopes,     \* scope strings
  Lifespan,   \* of a cache entry
  MaxDelay,   \* that a grant is on its way; the client sets no timeout
  Size,       \* entries in the cache, one hundred
  Tries,      \* AUTHORIZATION_TRIES, three
  MaxTime     \* bound on the clock

ASSUME TokenAssumption ==
  /\ Lifespan \in Nat \ {0}
  /\ Size \in Nat \ {0}
  /\ Tries \in Nat \ {0}
  /\ MaxDelay \in Nat
  /\ MaxTime \in Nat
  /\ "free" \notin Call

VARIABLES
  now,     \* the clock
  cache,   \* the entry of each key that has one
  lock,    \* the call that holds the cache's lock, or "free"
  call     \* the local state of each call

vars == <<now, cache, lock, call>>

-----------------------------------------------------------------------------
Args == [client_id : ClientId, platform_token_url : TokenUrl, scopes : Scopes]

(* Slip: a key without the client.                                         *)
KeyOfScopes(args) == <<CHOOSE k \in ClientId : TRUE, args.scopes>>

(* The convert attribute: the platform is not part of the key.             *)
KeyOf(args) == <<args.client_id, args.scopes>>

Key == ClientId \X Scopes

(* A token is good for service calls to the platform that issued it, for a *)
(* time that runs from the grant.                                          *)
Token == [issued_by : TokenUrl, granted_at : 0..MaxTime]

Entry == [token : Token, set_at : 0..MaxTime]

Local ==
  [pc : {"idle", "dropped"}]
    \cup [pc : {"waiting", "failed"}, args : Args]
    \cup [pc : {"asking", "sleeping"}, args : Args, count : 0..(Tries - 1)]
    \cup [pc : {"granted", "returned"}, args : Args, token : Token]

(* A call is in the function while it asks, sleeps, or a grant is on its   *)
(* way to it.                                                              *)
Inside == {"asking", "sleeping", "granted"}

TypeOK ==
  /\ now \in 0..MaxTime
  /\ DOMAIN cache \subseteq Key
  /\ \A k \in DOMAIN cache : cache[k] \in Entry
  /\ lock \in Call \cup {"free"}
  /\ call \in [Call -> Local]

Init ==
  /\ now = 0
  /\ cache = [k \in {} |-> 0]
  /\ lock = "free"
  /\ call = [c \in Call |-> [pc |-> "idle"]]

(* A grant arrives before it is older than MaxDelay.                       *)
Tick ==
  /\ now < MaxTime
  /\ \A c \in Call :
       call[c].pc = "granted" => now < call[c].token.granted_at + MaxDelay
  /\ now' = now + 1
  /\ UNCHANGED <<cache, lock, call>>

-----------------------------------------------------------------------------
(* The generated wrapper.                                                  *)

(* Slip: an entry lives for its lifespan and a moment.                     *)
FreshTooLong(k) == k \in DOMAIN cache /\ now <= cache[k].set_at + Lifespan

Fresh(k) == k \in DOMAIN cache /\ now < cache[k].set_at + Lifespan

Begin(c, args) ==
  /\ call[c].pc = "idle"
  /\ call' = [call EXCEPT ![c] = [pc |-> "waiting", args |-> args]]
  /\ UNCHANGED <<now, cache, lock>>

Return(c, token) ==
  call' = [call EXCEPT ![c] =
            [pc |-> "returned", args |-> call[c].args, token |-> token]]

Fail(c) ==
  call' = [call EXCEPT ![c] = [pc |-> "failed", args |-> call[c].args]]

(* Slips: the cache without sync_writes, a loop that does not count, and   *)
(* one that counts but whose guard outlives its last error.                *)
EnterUnlocked(c) ==
  /\ call[c].pc = "waiting"
  /\ ~Fresh(KeyOf(call[c].args))
  /\ lock' = c
  /\ call' = [call EXCEPT ![c] =
               [pc |-> "asking", args |-> call[c].args, count |-> 0]]
  /\ UNCHANGED <<now, cache>>

AwakeForever(c) ==
  /\ call[c].pc = "sleeping"
  /\ call' = [call EXCEPT ![c].pc = "asking", ![c].count = @ + 1]
  /\ UNCHANGED <<now, cache, lock>>

AwakeHolding(c) ==
  /\ call[c].pc = "sleeping"
  /\ IF call[c].count + 1 < Tries
     THEN call' = [call EXCEPT ![c].pc = "asking", ![c].count = @ + 1]
     ELSE Fail(c)
  /\ UNCHANGED <<now, cache, lock>>

(* The lock is taken.  An entry that is still fresh is returned at once;   *)
(* otherwise an old one is removed and the function starts.                *)
Enter(c) ==
  /\ call[c].pc = "waiting"
  /\ lock = "free"
  /\ LET k == KeyOf(call[c].args) IN
       \/ /\ Fresh(k)
          /\ Return(c, cache[k].token)
          /\ UNCHANGED <<cache, lock>>
       \/ /\ ~Fresh(k)
          /\ cache' = [j \in DOMAIN cache \ {k} |-> cache[j]]
          /\ lock' = c
          /\ call' = [call EXCEPT ![c] =
               [pc |-> "asking", args |-> call[c].args, count |-> 0]]
  /\ UNCHANGED now

(* Room for one more entry is made by dropping another one; which one the  *)
(* crate drops is left open.                                               *)
Room(k) ==
  IF Cardinality(DOMAIN cache \cup {k}) <= Size
  THEN {DOMAIN cache \cup {k}}
  ELSE {(DOMAIN cache \cup {k}) \ {j} : j \in DOMAIN cache \ {k}}

(* The platform grants a token and sends it.                               *)
Grant(c) ==
  /\ call[c].pc = "asking"
  /\ call' = [call EXCEPT ![c] =
       [pc |-> "granted", args |-> call[c].args,
        token |-> [issued_by |-> call[c].args.platform_token_url,
                   granted_at |-> now]]]
  /\ UNCHANGED <<now, cache, lock>>

(* The answer is parsed, kept from now on for Lifespan, and returned.      *)
Arrive(c) ==
  /\ call[c].pc = "granted"
  /\ LET k == KeyOf(call[c].args)
         entry == [token |-> call[c].token, set_at |-> now] IN
       \E keep \in Room(k) :
         cache' = [j \in keep |-> IF j = k THEN entry ELSE cache[j]]
  /\ Return(c, call[c].token)
  /\ lock' = "free"
  /\ UNCHANGED now

(* The platform asks for patience, and the function sleeps for a second.   *)
RateLimited(c) ==
  /\ call[c].pc = "asking"
  /\ call' = [call EXCEPT ![c].pc = "sleeping"]
  /\ UNCHANGED <<now, cache, lock>>

Awake(c) ==
  /\ call[c].pc = "sleeping"
  /\ \/ /\ call[c].count + 1 < Tries
        /\ call' = [call EXCEPT ![c].pc = "asking", ![c].count = @ + 1]
        /\ UNCHANGED lock
     \/ call[c].count + 1 >= Tries /\ Fail(c) /\ lock' = "free"
  /\ UNCHANGED <<now, cache>>

(* Any other error ends the function, an answer lost on its way or one     *)
(* that does not parse among them; only an Ok result is kept.              *)
Refused(c) ==
  /\ call[c].pc \in {"asking", "granted"}
  /\ Fail(c)
  /\ lock' = "free"
  /\ UNCHANGED <<now, cache>>

(* The handler's future is dropped at an await, and the guard with it.     *)
Drop(c) ==
  /\ call[c].pc \in {"waiting"} \cup Inside
  /\ call' = [call EXCEPT ![c] = [pc |-> "dropped"]]
  /\ lock' = IF lock = c THEN "free" ELSE lock
  /\ UNCHANGED <<now, cache>>

Answer(c) == Grant(c) \/ Arrive(c) \/ RateLimited(c) \/ Refused(c)

Next ==
  \/ Tick
  \/ \E c \in Call, args \in Args : Begin(c, args)
  \/ \E c \in Call : Enter(c) \/ Answer(c) \/ Awake(c) \/ Drop(c)

Spec == Init /\ [][Next]_vars

(* tokio's lock serves its waiters in turn; a timer fires; that a platform *)
(* answers is an assumption, as the client sets no timeout.                *)
FairSpec ==
  /\ Spec
  /\ \A c \in Call : SF_vars(Enter(c)) /\ WF_vars(Answer(c)) /\ WF_vars(Awake(c))

-----------------------------------------------------------------------------
(* "duplicate argument-calls will be synchronized so as to only run once"  *)
(* (client_credentials.rs:105): no platform is asked for a token while     *)
(* the cache has one, nor by two calls at once.                            *)
NoSecondFetch ==
  \A c \in Call : call[c].pc \in Inside =>
    /\ ~Fresh(KeyOf(call[c].args))
    /\ \A d \in Call \ {c} : call[d].pc \notin Inside

(* The lock is held by the call that runs and by no other: one that fails, *)
(* gives up or is dropped leaves it free for the next.                     *)
LockIsReleased ==
  lock # "free" => call[lock].pc \in Inside

(* "cache the resulting token for 15 minutes" (client_credentials.rs:95),  *)
(* with no look at expires_in: a token is returned only within a lifespan  *)
(* and a delay of its grant, for the cache counts from the arrival and the *)
(* platform from the grant.  Tokens that live as long are returned alive.  *)
RecentOnReturn ==
  [][\A c \in Call :
       call[c].pc # "returned" /\ call'[c].pc = "returned" =>
         now < call'[c].token.granted_at + MaxDelay + Lifespan]_vars

(* How far a call in the local state r has got, as a caller of SyncCache.  *)
StageOf(r) ==
  CASE r.pc = "idle"                  -> [at |-> "away"]
    [] r.pc = "waiting"               -> [at |-> "queued", key |-> KeyOf(r.args)]
    [] r.pc \in Inside                -> [at |-> "running", key |-> KeyOf(r.args)]
    [] r.pc = "returned"              -> [at |-> "served"]
    [] r.pc \in {"failed", "dropped"} -> [at |-> "unserved"]

keptOf == [k \in DOMAIN cache |-> cache[k].set_at]

callerOf == [c \in Call |-> StageOf(call[c])]

Memo == INSTANCE SyncCache WITH
  Caller <- Call, kept <- keptOf, caller <- callerOf

(* "Only "Ok" results are cached", "duplicate argument-calls will be       *)
(* synchronized so as to only run once" (client_credentials.rs:105): with  *)
(* its retries, errors and dropped futures the function is a SyncCache.    *)
ImplementsSyncCache == Memo!Spec

(* Every call comes to an end if the platforms answer.                     *)
EveryCallEnds ==
  \A c \in Call : call[c].pc = "waiting" ~>
    call[c].pc \in {"returned", "failed", "dropped"}
=============================================================================

------------------------------ MODULE JwksCache ------------------------------
(***************************************************************************)
(* get_jwk_set: the key sets that platforms publish, fetched by concurrent *)
(* launches and kept for an hour by the cached crate, whose sync_writes =  *)
(* "default" holds one lock over the whole cache while the function runs;  *)
(* and platforms that rotate their keys meanwhile.                         *)
(*                                                                         *)
(* A launch verifies its token in the same step in which it gets the set.  *)
(* Times are in units of which Lifespan makes an hour.                     *)
(***************************************************************************)
EXTENDS Naturals, Sequences

CONSTANTS
  Launch,    \* launches, each with a token to verify
  Url,       \* the jwks_url of each platform
  Lifespan,  \* of a cache entry
  MaxDelay,  \* that an answer is on its way; the client sets no timeout
  MaxKeys,   \* bound on the keys of a platform
  MaxTime    \* bound on the clock

ASSUME JwksAssumption ==
  /\ Lifespan \in Nat \ {0}
  /\ MaxDelay \in Nat \ {0}
  /\ MaxKeys \in Nat \ {0}
  /\ MaxTime \in Nat
  /\ "free" \notin Launch

VARIABLES
  now,    \* the clock
  jwks,   \* the keys of each platform, in the order it made them; the kid is
          \* the position
  cache,  \* the entry of each URL that has one
  lock,   \* the launch that holds the cache's lock, or "free"
  launch  \* the local state of each launch

vars == <<now, jwks, cache, lock, launch>>

-----------------------------------------------------------------------------
Time == 0..MaxTime
Kid == 1..MaxKeys
Never == MaxTime + 1

Jwk == [published : Time, withdrawn : 0..Never]

(* served_at is history: when the platform made the set up.                *)
Entry == [keys : SUBSET Kid, served_at : Time, set_at : Time]

Local ==
  [pc : {"idle", "dropped"}]
    \cup [pc : {"waiting", "asking", "failed"}, url : Url, kid : Kid]
    \cup [pc : {"answered"}, url : Url, kid : Kid, keys : SUBSET Kid, served_at : Time]
    \cup [pc : {"accepted", "refused"}, url : Url, kid : Kid, at : Time]

TypeOK ==
  /\ now \in Time
  /\ jwks \in [Url -> Seq(Jwk)]
  /\ \A u \in Url : Len(jwks[u]) \in Kid
  /\ DOMAIN cache \subseteq Url
  /\ \A u \in DOMAIN cache : cache[u] \in Entry
  /\ lock \in {"free"} \cup {l \in Launch : launch[l].pc \in {"asking", "answered"}}
  /\ launch \in [Launch -> Local]

NewKey == [published |-> now, withdrawn |-> Never]

Init ==
  /\ now = 0
  /\ jwks = [u \in Url |-> <<NewKey>>]
  /\ cache = [u \in {} |-> 0]
  /\ lock = "free"
  /\ launch = [l \in Launch |-> [pc |-> "idle"]]

(* An answer arrives before it is MaxDelay old.                            *)
Tick ==
  /\ now < MaxTime
  /\ \A l \in Launch :
       launch[l].pc = "answered" => now < launch[l].served_at + MaxDelay
  /\ now' = now + 1
  /\ UNCHANGED <<jwks, cache, lock, launch>>

-----------------------------------------------------------------------------
(* The platforms.  A key that signs is published first; the newest stays.  *)

Published(u) == {k \in DOMAIN jwks[u] : jwks[u][k].withdrawn = Never}

Rotate(u) ==
  /\ Len(jwks[u]) < MaxKeys
  /\ jwks' = [jwks EXCEPT ![u] = Append(@, NewKey)]
  /\ UNCHANGED <<now, cache, lock, launch>>

Withdraw(u, k) ==
  /\ k \in Published(u) /\ k < Len(jwks[u])
  /\ jwks' = [jwks EXCEPT ![u][k].withdrawn = now]
  /\ UNCHANGED <<now, cache, lock, launch>>

-----------------------------------------------------------------------------
(* Slip: an entry lives for its lifespan and a moment.                     *)
FreshTooLong(u) == u \in DOMAIN cache /\ now <= cache[u].set_at + Lifespan

Fresh(u) == u \in DOMAIN cache /\ now < cache[u].set_at + Lifespan

Free(l) == IF lock = l THEN "free" ELSE lock

(* The launch comes with a token that a key of the platform has signed.    *)
Begin(l, u, k) ==
  /\ launch[l].pc = "idle"
  /\ k \in DOMAIN jwks[u]
  /\ launch' = [launch EXCEPT ![l] = [pc |-> "waiting", url |-> u, kid |-> k]]
  /\ UNCHANGED <<now, jwks, cache, lock>>

(* decode: the set has the kid of the token, or the launch is refused.     *)
Decode(l, keys) ==
  launch' = [launch EXCEPT ![l] =
    [pc |-> IF @.kid \in keys THEN "accepted" ELSE "refused",
     url |-> @.url, kid |-> @.kid, at |-> now]]

Miss(l) ==
  /\ ~Fresh(launch[l].url)
  /\ cache' = [u \in DOMAIN cache \ {launch[l].url} |-> cache[u]]
  /\ lock' = l
  /\ launch' = [launch EXCEPT ![l].pc = "asking"]

(* Slip: the cache without sync_writes.                                    *)
EnterUnlocked(l) ==
  /\ launch[l].pc = "waiting"
  /\ \/ Miss(l)
     \/ /\ Fresh(launch[l].url)
        /\ Decode(l, cache[launch[l].url].keys)
        /\ UNCHANGED <<cache, lock>>
  /\ UNCHANGED <<now, jwks>>

(* The lock is taken.  A fresh entry is returned at once; otherwise an old *)
(* one is removed and the function starts.                                 *)
Enter(l) ==
  /\ launch[l].pc = "waiting"
  /\ lock = "free"
  /\ \/ Miss(l)
     \/ /\ Fresh(launch[l].url)
        /\ Decode(l, cache[launch[l].url].keys)
        /\ UNCHANGED <<cache, lock>>
  /\ UNCHANGED <<now, jwks>>

(* The platform answers the request with the keys of the moment.           *)
Serve(l) ==
  /\ launch[l].pc = "asking"
  /\ launch' = [launch EXCEPT ![l] =
       [pc |-> "answered", url |-> @.url, kid |-> @.kid,
        keys |-> Published(@.url), served_at |-> now]]
  /\ UNCHANGED <<now, jwks, cache, lock>>

(* Slips: the set of a failed request is kept as an empty one; a guard     *)
(* outlives an error, or a dropped future.                                 *)
FailsKept(l) ==
  /\ launch[l].pc \in {"asking", "answered"}
  /\ cache' = [u \in DOMAIN cache \cup {launch[l].url} |->
                 IF u = launch[l].url
                 THEN [keys |-> {}, served_at |-> now, set_at |-> now]
                 ELSE cache[u]]
  /\ launch' = [launch EXCEPT ![l] =
       [pc |-> "failed", url |-> @.url, kid |-> @.kid]]
  /\ lock' = Free(l)
  /\ UNCHANGED <<now, jwks>>

FailsHolding(l) ==
  /\ launch[l].pc \in {"asking", "answered"}
  /\ launch' = [launch EXCEPT ![l] =
       [pc |-> "failed", url |-> @.url, kid |-> @.kid]]
  /\ UNCHANGED <<now, jwks, cache, lock>>

DropHolding(l) ==
  /\ launch[l].pc \in {"waiting", "asking", "answered"}
  /\ launch' = [launch EXCEPT ![l] = [pc |-> "dropped"]]
  /\ UNCHANGED <<now, jwks, cache, lock>>

(* The answer is parsed and kept, from now on for Lifespan.                *)
Arrive(l) ==
  /\ launch[l].pc = "answered"
  /\ LET entry == [keys |-> launch[l].keys, served_at |-> launch[l].served_at,
                   set_at |-> now] IN
       cache' = [u \in DOMAIN cache \cup {launch[l].url} |->
                   IF u = launch[l].url THEN entry ELSE cache[u]]
  /\ Decode(l, launch[l].keys)
  /\ lock' = Free(l)
  /\ UNCHANGED <<now, jwks>>

(* No answer, or one that does not parse: nothing is kept.                 *)
Fails(l) ==
  /\ launch[l].pc \in {"asking", "answered"}
  /\ launch' = [launch EXCEPT ![l] =
       [pc |-> "failed", url |-> @.url, kid |-> @.kid]]
  /\ lock' = Free(l)
  /\ UNCHANGED <<now, jwks, cache>>

(* The handler's future is dropped at an await, and the guard with it.     *)
Drop(l) ==
  /\ launch[l].pc \in {"waiting", "asking", "answered"}
  /\ launch' = [launch EXCEPT ![l] = [pc |-> "dropped"]]
  /\ lock' = Free(l)
  /\ UNCHANGED <<now, jwks, cache>>

Proceed(l) == Serve(l) \/ Arrive(l) \/ Fails(l)

Next ==
  \/ Tick
  \/ \E u \in Url : Rotate(u) \/ \E k \in Kid : Withdraw(u, k)
  \/ \E l \in Launch :
       \/ \E u \in Url, k \in Kid : Begin(l, u, k)
       \/ Enter(l) \/ Proceed(l) \/ Drop(l)

Spec == Init /\ [][Next]_vars

(* tokio's lock serves its waiters in turn; that a platform answers or the *)
(* request fails is an assumption, as the client sets no timeout.          *)
FairSpec ==
  Spec /\ \A l \in Launch : SF_vars(Enter(l)) /\ WF_vars(Proceed(l))

-----------------------------------------------------------------------------
KeyOf(l) == jwks[launch[l].url][launch[l].kid]

(* "time = 3600" (platforms.rs:161): a key that a platform has withdrawn   *)
(* is accepted for an hour and a fetch's time at the longest.              *)
AcceptedIsRecent ==
  \A l \in Launch : launch[l].pc = "accepted" =>
    launch[l].at < KeyOf(l).withdrawn + MaxDelay + Lifespan

(* A token is refused for its kid only if the platform has withdrawn the   *)
(* key, or has published it within the last hour and a fetch's time, and   *)
(* not because a fetch before it has failed (result = true).               *)
RefusedIsRecent ==
  \A l \in Launch : launch[l].pc = "refused" =>
    \/ KeyOf(l).withdrawn <= launch[l].at
    \/ launch[l].at < KeyOf(l).published + MaxDelay + Lifespan

(* A set never takes the place of one that the platform made up later: the *)
(* answers of two fetches do not overtake each other (sync_writes).        *)
NeverOlder ==
  [][\A u \in DOMAIN cache \cap DOMAIN cache' :
       cache[u].served_at <= cache'[u].served_at]_vars

(* How far a launch in the local state r has got, as a caller of SyncCache.*)
StageOf(r) ==
  CASE r.pc = "idle"                   -> [at |-> "away"]
    [] r.pc = "waiting"                -> [at |-> "queued", key |-> r.url]
    [] r.pc \in {"asking", "answered"}  -> [at |-> "running", key |-> r.url]
    [] r.pc \in {"accepted", "refused"} -> [at |-> "served"]
    [] r.pc \in {"failed", "dropped"}   -> [at |-> "unserved"]

keptOf == [u \in DOMAIN cache |-> cache[u].set_at]

callerOf == [l \in Launch |-> StageOf(launch[l])]

Memo == INSTANCE SyncCache WITH
  Caller <- Launch, Key <- Url, kept <- keptOf, caller <- callerOf

(* "Only "Ok" results are cached", "duplicate argument-calls will be       *)
(* synchronized so as to only run once" (platforms.rs:163): with its       *)
(* errors and dropped futures the function is a SyncCache.                 *)
ImplementsSyncCache == Memo!Spec

(* Every launch gets its key set or an error, whatever the others do.      *)
EveryLaunchIsAnswered ==
  \A l \in Launch : launch[l].pc = "waiting" ~>
    launch[l].pc \in {"accepted", "refused", "failed", "dropped"}
=============================================================================

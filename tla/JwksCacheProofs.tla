--------------------------- MODULE JwksCacheProofs ---------------------------
(***************************************************************************)
(* What JwksCache guarantees for any number of launches, platforms and     *)
(* keys, and any lifespan and delay.                                       *)
(***************************************************************************)
EXTENDS JwksCache, TLAPS

Busy == {"asking", "answered"}
Ended == {"accepted", "refused"}
HasToken == Busy \cup Ended \cup {"waiting", "failed"}

TypeInv ==
  /\ now \in Time
  /\ jwks \in [Url -> Seq(Jwk)]
  /\ \A u \in Url : Len(jwks[u]) \in Kid
  /\ DOMAIN cache \subseteq Url
  /\ \A u \in DOMAIN cache : cache[u] \in Entry
  /\ launch \in [Launch -> Local]

KeysOK ==
  \A u \in Url : \A k \in DOMAIN jwks[u] :
    /\ jwks[u][k].published <= now
    /\ jwks[u][k].withdrawn = Never \/ jwks[u][k].withdrawn <= now

(* A set that the platform of u made up at served_at, of the keys that it  *)
(* has by now.                                                             *)
SetOK(u, keys, served_at) ==
  \A k \in DOMAIN jwks[u] :
    /\ k \in keys => served_at <= jwks[u][k].withdrawn
    /\ k \notin keys => \/ served_at <= jwks[u][k].published
                        \/ jwks[u][k].withdrawn <= served_at

CacheOK ==
  \A u \in DOMAIN cache :
    /\ SetOK(u, cache[u].keys, cache[u].served_at)
    /\ cache[u].set_at <= cache[u].served_at + MaxDelay
    /\ cache[u].served_at <= cache[u].set_at
    /\ cache[u].set_at <= now

(* Who fetches holds the lock and has taken the entry out.                 *)
HolderOK ==
  /\ lock \in {"free"} \cup {l \in Launch : launch[l].pc \in Busy}
  /\ \A l \in Launch : launch[l].pc \in Busy =>
       lock = l /\ launch[l].url \notin DOMAIN cache

(* What a launch in the local state r knows.                               *)
KnownOK(r) ==
  /\ r.pc \in HasToken => r.url \in Url /\ r.kid \in DOMAIN jwks[r.url]
  /\ r.pc = "answered" =>
       /\ SetOK(r.url, r.keys, r.served_at)
       /\ r.served_at <= now /\ now <= r.served_at + MaxDelay
  /\ r.pc \in Ended => r.at <= now
  /\ r.pc = "accepted" =>
       r.at < jwks[r.url][r.kid].withdrawn + MaxDelay + Lifespan
  /\ r.pc = "refused" =>
       \/ jwks[r.url][r.kid].withdrawn <= r.at
       \/ r.at < jwks[r.url][r.kid].published + MaxDelay + Lifespan

LaunchesOK == \A l \in Launch : KnownOK(launch[l])

IInv == TypeInv /\ KeysOK /\ CacheOK /\ HolderOK /\ LaunchesOK

LEMMA Numbers ==
  /\ Lifespan \in Nat /\ Lifespan > 0 /\ MaxDelay \in Nat
  /\ Never \in Nat /\ Never = MaxTime + 1 /\ MaxTime \in Nat
  /\ \A t \in Time : t \in Nat /\ t <= MaxTime /\ t \in 0..Never
BY JwksAssumption DEF Never, Time

LEMMA InitIInv == Init => IInv
<1>. SUFFICES ASSUME Init PROVE IInv
  OBVIOUS
<1>1. NewKey \in Jwk /\ NewKey.published = now /\ NewKey.withdrawn = Never
  BY Numbers DEF Init, NewKey, Jwk, Time
<1>2. \A u \in Url : /\ jwks[u] = <<NewKey>> /\ jwks[u] \in Seq(Jwk)
                     /\ Len(jwks[u]) = 1 /\ DOMAIN jwks[u] = {1}
                     /\ jwks[u][1] = NewKey
  BY <1>1 DEF Init
<1>3. TypeInv
  BY <1>2, JwksAssumption DEF Init, TypeInv, Time, Kid, Local
<1>4. KeysOK
  BY <1>1, <1>2, Numbers DEF KeysOK, Init
<1>5. CacheOK /\ HolderOK /\ LaunchesOK
  BY DEF Init, CacheOK, HolderOK, LaunchesOK, KnownOK, HasToken, Busy, Ended
<1>. QED
  BY <1>3, <1>4, <1>5 DEF IInv

(* The times of keys and entries are numbers.                              *)
LEMMA KeyTimes ==
  ASSUME TypeInv, NEW u \in Url, NEW k \in DOMAIN jwks[u]
  PROVE  jwks[u][k] \in Jwk /\ jwks[u][k].published \in Nat
         /\ jwks[u][k].withdrawn \in Nat /\ jwks[u][k].withdrawn <= Never
<1>1. jwks[u] \in Seq(Jwk)
  BY DEF TypeInv
<1>2. jwks[u][k] \in Jwk
  BY <1>1
<1>. QED
  BY <1>2, Numbers DEF Jwk

LEMMA EntryTimes ==
  ASSUME TypeInv, NEW u \in DOMAIN cache
  PROVE  cache[u].set_at \in Time /\ cache[u].served_at \in Time
         /\ cache[u].keys \in SUBSET Kid
BY DEF TypeInv, Entry

LEMMA EntryBounds ==
  ASSUME IInv, NEW u \in DOMAIN cache
  PROVE  /\ cache[u].set_at \in Nat /\ cache[u].served_at \in Nat
         /\ cache[u].served_at <= cache[u].set_at
         /\ cache[u].set_at <= now /\ cache[u].served_at <= now
         /\ cache[u].set_at <= cache[u].served_at + MaxDelay
<1>1. now \in Nat
  BY Numbers DEF IInv, TypeInv
<1>2. cache[u].set_at \in Nat /\ cache[u].served_at \in Nat
  BY EntryTimes, Numbers DEF IInv
<1>3. /\ cache[u].served_at <= cache[u].set_at /\ cache[u].set_at <= now
      /\ cache[u].set_at <= cache[u].served_at + MaxDelay
  BY DEF IInv, CacheOK
<1>. QED
  BY <1>1, <1>2, <1>3

LEMMA LocalTimes ==
  ASSUME TypeInv, NEW l \in Launch
  PROVE  /\ launch[l].pc = "answered" => /\ launch[l].served_at \in Time
                                        /\ launch[l].keys \in SUBSET Kid
         /\ launch[l].pc \in Ended => launch[l].at \in Time
         /\ launch[l].pc \in HasToken => launch[l].url \in Url /\ launch[l].kid \in Kid
BY DEF TypeInv, Local, HasToken, Busy, Ended

-----------------------------------------------------------------------------
LEMMA TickStep == IInv /\ Tick => IInv'
<1>. SUFFICES ASSUME IInv, Tick PROVE IInv'
  OBVIOUS
<1>1. now \in Nat /\ now' = now + 1 /\ now' \in Time
  BY Numbers DEF IInv, TypeInv, Tick, Time
<1>2. TypeInv'
  BY <1>1 DEF IInv, TypeInv, Tick, Entry
<1>3. KeysOK'
  <2>. SUFFICES ASSUME NEW u \in Url, NEW k \in DOMAIN jwks[u]
                PROVE  /\ jwks[u][k].published <= now'
                       /\ jwks[u][k].withdrawn = Never \/ jwks[u][k].withdrawn <= now'
    BY DEF KeysOK, Tick
  <2>. QED
    BY <1>1, KeyTimes DEF IInv, KeysOK
<1>4. CacheOK'
  <2>. SUFFICES ASSUME NEW u \in DOMAIN cache PROVE cache[u].set_at <= now'
    BY DEF CacheOK, IInv, Tick, SetOK
  <2>1. cache[u].set_at <= now /\ cache[u].set_at \in Nat
    BY EntryBounds
  <2>. QED
    BY <1>1, <2>1
<1>5. HolderOK'
  BY DEF IInv, HolderOK, Tick
<1>6. LaunchesOK'
  <2>. SUFFICES ASSUME NEW l \in Launch
                PROVE  /\ launch[l].pc = "answered" =>
                            /\ launch[l].served_at <= now'
                            /\ now' <= launch[l].served_at + MaxDelay
                       /\ launch[l].pc \in Ended => launch[l].at <= now'
    BY DEF LaunchesOK, KnownOK, IInv, Tick, SetOK
  <2>1. launch[l].pc = "answered" => now < launch[l].served_at + MaxDelay
    BY DEF Tick
  <2>2. KnownOK(launch[l])
    BY DEF IInv, LaunchesOK
  <2>3. /\ launch[l].pc = "answered" => launch[l].served_at \in Nat
        /\ launch[l].pc \in Ended => launch[l].at \in Nat
    BY LocalTimes, Numbers DEF IInv
  <2>4. /\ launch[l].pc = "answered" => launch[l].served_at <= now
        /\ launch[l].pc \in Ended => launch[l].at <= now
    BY <2>2 DEF KnownOK
  <2>. QED
    BY <1>1, <2>1, <2>3, <2>4, Numbers
<1>. QED
  BY <1>2, <1>3, <1>4, <1>5, <1>6 DEF IInv

-----------------------------------------------------------------------------
(* The platforms: a key keeps its place and its publication; it is         *)
(* withdrawn once, now; a new one is published now.                        *)
KeysMove ==
  \A u \in Url :
    /\ DOMAIN jwks[u] \subseteq DOMAIN jwks'[u]
    /\ \A k \in DOMAIN jwks[u] :
         /\ jwks'[u][k].published = jwks[u][k].published
         /\ \/ jwks'[u][k].withdrawn = jwks[u][k].withdrawn
            \/ jwks[u][k].withdrawn = Never /\ jwks'[u][k].withdrawn = now
    /\ \A k \in DOMAIN jwks'[u] \ DOMAIN jwks[u] :
         jwks'[u][k].published = now /\ jwks'[u][k].withdrawn = Never

LEMMA KeysMoveSet ==
  ASSUME TypeInv, KeysMove, NEW u \in Url, NEW keys, NEW t \in Nat, t <= now,
         SetOK(u, keys, t)
  PROVE  SetOK(u, keys, t)'
<1>. SUFFICES ASSUME NEW k \in DOMAIN jwks'[u]
              PROVE  /\ k \in keys => t <= jwks'[u][k].withdrawn
                     /\ k \notin keys => \/ t <= jwks'[u][k].published
                                         \/ jwks'[u][k].withdrawn <= t
  BY DEF SetOK
<1>1. now \in Nat /\ now <= MaxTime
  BY Numbers DEF TypeInv
<1>2. CASE k \notin DOMAIN jwks[u]
  BY <1>1, <1>2, Numbers DEF KeysMove
<1>3. CASE k \in DOMAIN jwks[u]
  BY <1>1, <1>3, KeyTimes, Numbers DEF KeysMove, SetOK
<1>. QED
  BY <1>2, <1>3

LEMMA KeysMoveStep ==
  ASSUME IInv, TypeInv', KeysMove, UNCHANGED <<now, cache, lock, launch>>
  PROVE  IInv'
<1>0. TypeInv /\ now \in Nat /\ now <= MaxTime
  BY Numbers DEF IInv, TypeInv
<1>1. KeysOK'
  <2>. SUFFICES ASSUME NEW u \in Url, NEW k \in DOMAIN jwks'[u]
                PROVE  /\ jwks'[u][k].published <= now
                       /\ \/ jwks'[u][k].withdrawn = Never
                          \/ jwks'[u][k].withdrawn <= now
    BY DEF KeysOK
  <2>. QED
    BY <1>0, Numbers DEF IInv, KeysOK, KeysMove
<1>2. CacheOK'
  <2>. SUFFICES ASSUME NEW u \in DOMAIN cache
                PROVE  SetOK(u, cache[u].keys, cache[u].served_at)'
    BY DEF CacheOK, IInv
  <2>1. u \in Url /\ cache[u].served_at \in Nat /\ cache[u].served_at <= now
    BY <1>0, EntryBounds DEF TypeInv
  <2>2. SetOK(u, cache[u].keys, cache[u].served_at)
    BY DEF IInv, CacheOK
  <2>. QED
    BY <1>0, <2>1, <2>2, KeysMoveSet
<1>3. HolderOK'
  BY DEF IInv, HolderOK
<1>4. LaunchesOK'
  <2>. SUFFICES ASSUME NEW l \in Launch PROVE KnownOK(launch[l])'
    BY DEF LaunchesOK
  <2>. DEFINE r == launch[l]
  <2>1. KnownOK(r)
    BY DEF IInv, LaunchesOK
  <2>2. r.pc \in HasToken => r.url \in Url /\ r.kid \in DOMAIN jwks[r.url]
                            /\ r.kid \in DOMAIN jwks'[r.url]
    BY <2>1 DEF KnownOK, KeysMove
  <2>3. r.pc = "answered" => SetOK(r.url, r.keys, r.served_at)'
    <3>. HAVE r.pc = "answered"
    <3>1. r.url \in Url
      BY <2>2 DEF HasToken, Busy
    <3>2. r.served_at \in Nat /\ r.served_at <= now /\ SetOK(r.url, r.keys, r.served_at)
      BY <1>0, <2>1, LocalTimes, Numbers DEF KnownOK
    <3>. QED
      BY <1>0, <3>1, <3>2, KeysMoveSet
  <2>4. r.pc = "accepted" =>
          r.at < jwks'[r.url][r.kid].withdrawn + MaxDelay + Lifespan
    BY <1>0, <2>1, <2>2, LocalTimes, KeyTimes, Numbers
       DEF KnownOK, KeysMove, HasToken, Ended
  <2>5. r.pc = "refused" =>
          \/ jwks'[r.url][r.kid].withdrawn <= r.at
          \/ r.at < jwks'[r.url][r.kid].published + MaxDelay + Lifespan
    BY <1>0, <2>1, <2>2, LocalTimes, KeyTimes, Numbers
       DEF KnownOK, KeysMove, HasToken, Ended
  <2>. QED
    BY <2>1, <2>2, <2>3, <2>4, <2>5 DEF KnownOK
<1>. QED
  BY <1>1, <1>2, <1>3, <1>4 DEF IInv

LEMMA RotateStep == IInv => \A u \in Url : Rotate(u) => IInv'
<1>. SUFFICES ASSUME IInv, NEW u \in Url, Rotate(u) PROVE IInv'
  OBVIOUS
<1>1. jwks[u] \in Seq(Jwk) /\ Len(jwks[u]) \in Nat /\ now \in Time
  BY DEF IInv, TypeInv
<1>2. NewKey \in Jwk /\ NewKey.published = now /\ NewKey.withdrawn = Never
  BY <1>1, Numbers DEF NewKey, Jwk
<1>3. /\ jwks'[u] = Append(jwks[u], NewKey)
      /\ \A v \in Url \ {u} : jwks'[v] = jwks[v]
      /\ jwks' = [jwks EXCEPT ![u] = Append(jwks[u], NewKey)]
  BY DEF Rotate, IInv, TypeInv
<1>. HIDE DEF NewKey
<1>4. /\ jwks'[u] \in Seq(Jwk) /\ Len(jwks'[u]) = Len(jwks[u]) + 1
      /\ DOMAIN jwks'[u] = 1..(Len(jwks[u]) + 1)
      /\ DOMAIN jwks[u] = 1..Len(jwks[u])
      /\ \A k \in 1..Len(jwks[u]) : jwks'[u][k] = jwks[u][k]
      /\ jwks'[u][Len(jwks[u]) + 1] = NewKey
  BY <1>1, <1>2, <1>3
<1>5. KeysMove
  <2>. SUFFICES ASSUME NEW v \in Url, v = u
                PROVE  /\ DOMAIN jwks[v] \subseteq DOMAIN jwks'[v]
                       /\ \A k \in DOMAIN jwks[v] : jwks'[v][k] = jwks[v][k]
                       /\ \A k \in DOMAIN jwks'[v] \ DOMAIN jwks[v] :
                            jwks'[v][k] = NewKey
    BY <1>2, <1>3 DEF KeysMove
  <2>. QED
    BY <1>1, <1>4
<1>6. TypeInv'
  <2>1. Len(jwks'[u]) \in Kid
    BY <1>1, <1>4, JwksAssumption DEF Rotate, Kid
  <2>. QED
    BY <1>3, <1>4, <2>1 DEF IInv, TypeInv, Rotate
<1>. QED
  BY <1>5, <1>6, KeysMoveStep DEF Rotate

LEMMA WithdrawStep ==
  IInv => \A u \in Url, k \in Kid : Withdraw(u, k) => IInv'
<1>. SUFFICES ASSUME IInv, NEW u \in Url, NEW k \in Kid, Withdraw(u, k) PROVE IInv'
  OBVIOUS
<1>1. /\ k \in DOMAIN jwks[u] /\ jwks[u][k].withdrawn = Never
      /\ jwks[u] \in Seq(Jwk) /\ now \in Time
  BY DEF IInv, TypeInv, Withdraw, Published
<1>2. jwks[u][k] \in Jwk
  BY <1>1
<1>. DEFINE key == [published |-> jwks[u][k].published, withdrawn |-> now]
<1>3. key \in Jwk /\ key.published = jwks[u][k].published /\ key.withdrawn = now
  BY <1>1, <1>2, Numbers DEF Jwk
<1>4. [jwks[u][k] EXCEPT !.withdrawn = now] = key
  BY <1>2 DEF Jwk
<1>. DEFINE keys == [jwks[u] EXCEPT ![k] = key]
<1>5. jwks' = [jwks EXCEPT ![u] = keys]
  BY <1>4 DEF Withdraw
<1>. HIDE DEF key
<1>6. /\ keys \in Seq(Jwk) /\ Len(keys) = Len(jwks[u])
      /\ DOMAIN keys = DOMAIN jwks[u] /\ keys[k] = key
      /\ \A j \in DOMAIN jwks[u] \ {k} : keys[j] = jwks[u][j]
  BY <1>1, <1>3
<1>. HIDE DEF keys
<1>7. jwks'[u] = keys /\ \A v \in Url \ {u} : jwks'[v] = jwks[v]
  BY <1>5 DEF IInv, TypeInv
<1>8. KeysMove
  BY <1>1, <1>3, <1>6, <1>7 DEF KeysMove
<1>9. TypeInv'
  BY <1>5, <1>6, <1>7 DEF IInv, TypeInv, Withdraw
<1>. QED
  BY <1>8, <1>9, KeysMoveStep DEF Withdraw

-----------------------------------------------------------------------------
(* One launch moves; what it then knows is right, and so is the cache.     *)
LEMMA LaunchStep ==
  ASSUME IInv, NEW l \in Launch, NEW new \in Local,
         launch' = [launch EXCEPT ![l] = new], KnownOK(new),
         UNCHANGED <<now, jwks>>,
         DOMAIN cache' \subseteq Url,
         \A u \in DOMAIN cache' : cache'[u] \in Entry, CacheOK', HolderOK'
  PROVE  IInv'
<1>1. /\ launch'[l] = new
      /\ \A m \in Launch \ {l} : launch'[m] = launch[m]
      /\ launch' \in [Launch -> Local]
  BY DEF IInv, TypeInv
<1>2. TypeInv' /\ KeysOK'
  BY <1>1 DEF IInv, TypeInv, KeysOK
<1>3. LaunchesOK'
  <2>. SUFFICES ASSUME NEW m \in Launch PROVE KnownOK(launch[m])'
    BY DEF LaunchesOK
  <2>1. KnownOK(launch'[m])
    BY <1>1 DEF IInv, LaunchesOK
  <2>. QED
    BY <2>1 DEF KnownOK, SetOK
<1>. QED
  BY <1>2, <1>3 DEF IInv

(* The cache stays, and a launch that does not fetch, or fetches no more,  *)
(* frees the lock if it has it.                                            *)
LEMMA FreeingStep ==
  ASSUME IInv, NEW l \in Launch, NEW new \in Local,
         launch' = [launch EXCEPT ![l] = new], KnownOK(new),
         UNCHANGED <<now, jwks, cache>>, new.pc \notin Busy, lock' = Free(l)
  PROVE  IInv'
<1>1. /\ launch'[l] = new
      /\ \A m \in Launch \ {l} : launch'[m] = launch[m]
  BY DEF IInv, TypeInv
<1>2. HolderOK'
  BY <1>1, JwksAssumption DEF IInv, HolderOK, Free
<1>3. CacheOK'
  BY DEF IInv, CacheOK, SetOK
<1>. QED
  BY <1>2, <1>3, LaunchStep DEF IInv, TypeInv

LEMMA NotHolding ==
  ASSUME IInv, NEW l \in Launch, launch[l].pc \notin Busy
  PROVE  lock # l /\ Free(l) = lock
BY JwksAssumption DEF IInv, HolderOK, Free

(* What Decode leaves of a launch that got a set not older than MaxDelay   *)
(* and Lifespan together.                                                  *)
Decoded(r, keys) ==
  [pc |-> IF r.kid \in keys THEN "accepted" ELSE "refused",
   url |-> r.url, kid |-> r.kid, at |-> now]

LEMMA DecodedOK ==
  ASSUME IInv, NEW l \in Launch, launch[l].pc \in HasToken,
         NEW keys, NEW t \in Nat, SetOK(launch[l].url, keys, t), t <= now,
         now < t + MaxDelay + Lifespan
  PROVE  /\ Decoded(launch[l], keys) \in Local
         /\ KnownOK(Decoded(launch[l], keys))
         /\ Decoded(launch[l], keys).pc \notin Busy
<1>. DEFINE r == launch[l]
            new == Decoded(r, keys)
<1>1. now \in Time /\ now \in Nat
  BY Numbers DEF IInv, TypeInv
<1>2. /\ r.url \in Url /\ r.kid \in Kid /\ r.kid \in DOMAIN jwks[r.url]
  BY LocalTimes DEF IInv, LaunchesOK, KnownOK
<1>3. new \in Local /\ new.pc \notin Busy /\ new.pc \in Ended
  BY <1>1, <1>2 DEF Decoded, Local, Busy, Ended
<1>4. /\ new.url = r.url /\ new.kid = r.kid /\ new.at = now
      /\ new.pc = "accepted" => r.kid \in keys
      /\ new.pc = "refused" => r.kid \notin keys
  BY DEF Decoded
<1>. HIDE DEF new
<1>5. /\ jwks[r.url][r.kid].published \in Nat
      /\ jwks[r.url][r.kid].withdrawn \in Nat
  BY <1>2, KeyTimes DEF IInv
<1>6. /\ r.kid \in keys => t <= jwks[r.url][r.kid].withdrawn
      /\ r.kid \notin keys => \/ t <= jwks[r.url][r.kid].published
                             \/ jwks[r.url][r.kid].withdrawn <= t
  BY <1>2 DEF SetOK
<1>7. new.pc = "accepted" =>
        now < jwks[r.url][r.kid].withdrawn + MaxDelay + Lifespan
  BY <1>1, <1>4, <1>5, <1>6, Numbers
<1>8. new.pc = "refused" =>
        \/ jwks[r.url][r.kid].withdrawn <= now
        \/ now < jwks[r.url][r.kid].published + MaxDelay + Lifespan
  BY <1>1, <1>4, <1>5, <1>6, Numbers
<1>9. KnownOK(new)
  BY <1>1, <1>2, <1>3, <1>4, <1>7, <1>8 DEF KnownOK, Ended
<1>. QED
  BY <1>3, <1>9 DEF new

LEMMA DecodeIs ==
  ASSUME NEW l \in Launch, NEW keys, Decode(l, keys)
  PROVE  launch' = [launch EXCEPT ![l] = Decoded(launch[l], keys)]
BY DEF Decode, Decoded

LEMMA BeginStep ==
  IInv => \A l \in Launch, u \in Url, k \in Kid : Begin(l, u, k) => IInv'
<1>. SUFFICES ASSUME IInv, NEW l \in Launch, NEW u \in Url, NEW k \in Kid,
                     Begin(l, u, k)
              PROVE  IInv'
  OBVIOUS
<1>. DEFINE new == [pc |-> "waiting", url |-> u, kid |-> k]
<1>1. new \in Local /\ KnownOK(new) /\ new.pc \notin Busy
  BY DEF Local, Begin, KnownOK, HasToken, Busy, Ended
<1>2. launch' = [launch EXCEPT ![l] = new] /\ UNCHANGED <<now, jwks, cache, lock>>
  BY DEF Begin
<1>3. lock' = Free(l)
  BY <1>2, NotHolding DEF Begin, Busy
<1>. HIDE DEF new
<1>. QED
  BY <1>1, <1>2, <1>3, FreeingStep

LEMMA EnterStep == IInv => \A l \in Launch : Enter(l) => IInv'
<1>. SUFFICES ASSUME IInv, NEW l \in Launch, Enter(l) PROVE IInv'
  OBVIOUS
<1>. DEFINE u == launch[l].url
<1>1. /\ launch[l].pc = "waiting" /\ lock = "free" /\ UNCHANGED <<now, jwks>>
      /\ launch[l].pc \in HasToken /\ launch[l].pc \notin Busy
  BY DEF Enter, HasToken, Busy
<1>2. u \in Url /\ launch[l].kid \in Kid /\ launch[l].kid \in DOMAIN jwks[u]
  BY <1>1, LocalTimes DEF IInv, LaunchesOK, KnownOK
<1>3. CASE Fresh(u) /\ Decode(l, cache[u].keys) /\ UNCHANGED <<cache, lock>>
  <2>1. /\ u \in DOMAIN cache /\ now < cache[u].set_at + Lifespan
        /\ SetOK(u, cache[u].keys, cache[u].served_at)
    BY <1>3 DEF Fresh, IInv, CacheOK
  <2>2. now \in Nat
    BY Numbers DEF IInv, TypeInv
  <2>3. /\ cache[u].served_at \in Nat /\ cache[u].served_at <= now
        /\ now < cache[u].served_at + MaxDelay + Lifespan
    BY <2>1, <2>2, EntryBounds, Numbers
  <2>. DEFINE new == Decoded(launch[l], cache[u].keys)
  <2>4. new \in Local /\ KnownOK(new) /\ new.pc \notin Busy
    BY <1>1, <2>1, <2>3, DecodedOK
  <2>5. launch' = [launch EXCEPT ![l] = new]
    BY <1>3, DecodeIs
  <2>6. lock' = Free(l)
    BY <1>1, <1>3, NotHolding
  <2>. HIDE DEF new
  <2>. QED
    BY <1>1, <1>3, <2>4, <2>5, <2>6, FreeingStep
<1>4. CASE Miss(l)
  <2>1. /\ DOMAIN cache' = DOMAIN cache \ {u}
        /\ \A v \in DOMAIN cache' : cache'[v] = cache[v]
        /\ lock' = l
    BY <1>4 DEF Miss
  <2>. DEFINE new == [pc |-> "asking", url |-> u, kid |-> launch[l].kid]
  <2>2. launch[l] \in [pc : {"waiting", "asking", "failed"}, url : Url, kid : Kid]
    BY <1>1 DEF IInv, TypeInv, Local
  <2>3. [launch[l] EXCEPT !.pc = "asking"] = new
    BY <2>2
  <2>4. launch' = [launch EXCEPT ![l] = new]
    BY <1>4, <2>3 DEF Miss
  <2>5. new \in Local /\ KnownOK(new) /\ new.pc \in Busy /\ new.url = u
    BY <1>2 DEF Local, KnownOK, HasToken, Busy, Ended
  <2>. HIDE DEF new
  <2>6. /\ launch'[l] = new
        /\ \A m \in Launch \ {l} : launch'[m] = launch[m]
    BY <2>4 DEF IInv, TypeInv
  <2>7. \A m \in Launch : launch[m].pc \notin Busy
    BY <1>1, JwksAssumption DEF IInv, HolderOK
  <2>8. HolderOK'
    BY <2>1, <2>5, <2>6, <2>7 DEF HolderOK
  <2>9. CacheOK'
    BY <1>1, <2>1 DEF IInv, CacheOK, SetOK
  <2>10. /\ DOMAIN cache' \subseteq Url
         /\ \A v \in DOMAIN cache' : cache'[v] \in Entry
    BY <2>1 DEF IInv, TypeInv
  <2>. QED
    BY <1>1, <2>4, <2>5, <2>8, <2>9, <2>10, LaunchStep
<1>. QED
  BY <1>3, <1>4 DEF Enter

LEMMA ServeStep == IInv => \A l \in Launch : Serve(l) => IInv'
<1>. SUFFICES ASSUME IInv, NEW l \in Launch, Serve(l) PROVE IInv'
  OBVIOUS
<1>. DEFINE u == launch[l].url
            new == [pc |-> "answered", url |-> u, kid |-> launch[l].kid,
                    keys |-> Published(u), served_at |-> now]
<1>1. /\ launch[l].pc = "asking" /\ UNCHANGED <<now, jwks, cache, lock>>
      /\ launch' = [launch EXCEPT ![l] = new]
  BY DEF Serve
<1>2. u \in Url /\ launch[l].kid \in Kid /\ launch[l].kid \in DOMAIN jwks[u]
  BY <1>1, LocalTimes DEF IInv, LaunchesOK, KnownOK, HasToken, Busy
<1>3. now \in Time /\ now \in Nat /\ now <= MaxTime
  BY Numbers DEF IInv, TypeInv
<1>4. Published(u) \subseteq Kid
  <2>1. jwks[u] \in Seq(Jwk) /\ Len(jwks[u]) \in Kid
    BY <1>2 DEF IInv, TypeInv
  <2>. QED
    BY <2>1, JwksAssumption DEF Published, Kid
<1>5. SetOK(u, Published(u), now)
  BY <1>2, <1>3, Numbers DEF SetOK, Published, IInv, KeysOK
<1>6. new \in Local
  BY <1>2, <1>3, <1>4 DEF Local
<1>7. KnownOK(new)
  BY <1>2, <1>3, <1>5, Numbers DEF KnownOK, HasToken, Busy, Ended
<1>8. new.pc \in Busy /\ new.url = u
  BY DEF Busy
<1>. HIDE DEF new
<1>9. /\ launch'[l] = new
      /\ \A m \in Launch \ {l} : launch'[m] = launch[m]
  BY <1>1 DEF IInv, TypeInv
<1>10. HolderOK'
  BY <1>1, <1>8, <1>9 DEF IInv, HolderOK, Busy
<1>11. CacheOK'
  BY <1>1 DEF IInv, CacheOK, SetOK
<1>. QED
  BY <1>1, <1>6, <1>7, <1>10, <1>11, LaunchStep DEF IInv, TypeInv

LEMMA ArriveStep == IInv => \A l \in Launch : Arrive(l) => IInv'
<1>. SUFFICES ASSUME IInv, NEW l \in Launch, Arrive(l) PROVE IInv'
  OBVIOUS
<1>. DEFINE u == launch[l].url
            keys == launch[l].keys
            t == launch[l].served_at
            entry == [keys |-> keys, served_at |-> t, set_at |-> now]
            new == Decoded(launch[l], keys)
<1>1. /\ launch[l].pc = "answered" /\ UNCHANGED <<now, jwks>>
      /\ launch[l].pc \in HasToken /\ launch[l].pc \in Busy
      /\ Decode(l, keys) /\ lock' = Free(l)
  BY DEF Arrive, HasToken, Busy
<1>2. KnownOK(launch[l])
  BY DEF IInv, LaunchesOK
<1>3. u \in Url /\ t \in Time /\ keys \in SUBSET Kid /\ t \in Nat
  BY <1>1, LocalTimes, Numbers DEF IInv
<1>4. now \in Time /\ now \in Nat
  BY Numbers DEF IInv, TypeInv
<1>5. SetOK(u, keys, t) /\ t <= now /\ now <= t + MaxDelay
  BY <1>1, <1>2 DEF KnownOK
<1>6. now < t + MaxDelay + Lifespan
  BY <1>3, <1>4, <1>5, Numbers
<1>7. new \in Local /\ KnownOK(new) /\ new.pc \notin Busy
  BY <1>1, <1>3, <1>5, <1>6, DecodedOK
<1>8. launch' = [launch EXCEPT ![l] = new]
  BY <1>1, DecodeIs
<1>9. /\ entry \in Entry /\ entry.keys = keys
      /\ entry.served_at = t /\ entry.set_at = now
  BY <1>3, <1>4 DEF Entry
<1>10. cache' = [v \in DOMAIN cache \cup {u} |-> IF v = u THEN entry ELSE cache[v]]
  BY DEF Arrive
<1>. HIDE DEF new, entry
<1>11. /\ DOMAIN cache' = DOMAIN cache \cup {u} /\ cache'[u] = entry
       /\ \A v \in DOMAIN cache \ {u} : cache'[v] = cache[v]
  BY <1>10
<1>12. /\ launch'[l] = new
       /\ \A m \in Launch \ {l} : launch'[m] = launch[m]
  BY <1>8 DEF IInv, TypeInv
<1>13. lock = l /\ \A m \in Launch \ {l} : launch[m].pc \notin Busy
  BY <1>1 DEF IInv, HolderOK
<1>14. HolderOK'
  BY <1>1, <1>7, <1>12, <1>13 DEF HolderOK, Free
<1>15. CacheOK'
  <2>. SUFFICES ASSUME NEW v \in DOMAIN cache'
                PROVE  /\ SetOK(v, cache'[v].keys, cache'[v].served_at)
                       /\ cache'[v].set_at <= cache'[v].served_at + MaxDelay
                       /\ cache'[v].served_at <= cache'[v].set_at
                       /\ cache'[v].set_at <= now
    BY <1>1 DEF CacheOK, SetOK
  <2>1. CASE v = u
    BY <2>1, <1>4, <1>5, <1>9, <1>11
  <2>2. CASE v # u
    BY <2>2, <1>11 DEF IInv, CacheOK
  <2>. QED
    BY <2>1, <2>2
<1>16. /\ DOMAIN cache' \subseteq Url
       /\ \A v \in DOMAIN cache' : cache'[v] \in Entry
  BY <1>3, <1>9, <1>11 DEF IInv, TypeInv
<1>. QED
  BY <1>1, <1>7, <1>8, <1>14, <1>15, <1>16, LaunchStep

LEMMA FailsStep == IInv => \A l \in Launch : Fails(l) => IInv'
<1>. SUFFICES ASSUME IInv, NEW l \in Launch, Fails(l) PROVE IInv'
  OBVIOUS
<1>. DEFINE new == [pc |-> "failed", url |-> launch[l].url, kid |-> launch[l].kid]
<1>1. /\ launch[l].pc \in HasToken /\ UNCHANGED <<now, jwks, cache>>
      /\ launch' = [launch EXCEPT ![l] = new] /\ lock' = Free(l)
  BY DEF Fails, HasToken, Busy
<1>2. /\ launch[l].url \in Url /\ launch[l].kid \in Kid
      /\ launch[l].kid \in DOMAIN jwks[launch[l].url]
  BY <1>1, LocalTimes DEF IInv, LaunchesOK, KnownOK
<1>3. new \in Local /\ KnownOK(new) /\ new.pc \notin Busy
  BY <1>2 DEF Local, KnownOK, HasToken, Busy, Ended
<1>. HIDE DEF new
<1>. QED
  BY <1>1, <1>3, FreeingStep

LEMMA DropStep == IInv => \A l \in Launch : Drop(l) => IInv'
<1>. SUFFICES ASSUME IInv, NEW l \in Launch, Drop(l) PROVE IInv'
  OBVIOUS
<1>. DEFINE new == [pc |-> "dropped"]
<1>1. new \in Local /\ KnownOK(new) /\ new.pc \notin Busy
  BY DEF Local, KnownOK, HasToken, Busy, Ended
<1>2. /\ launch' = [launch EXCEPT ![l] = new] /\ lock' = Free(l)
      /\ UNCHANGED <<now, jwks, cache>>
  BY DEF Drop
<1>. HIDE DEF new
<1>. QED
  BY <1>1, <1>2, FreeingStep

LEMMA NextIInv == IInv /\ [Next]_vars => IInv'
<1>1. IInv /\ UNCHANGED vars => IInv'
  BY DEF vars, IInv, TypeInv, KeysOK, CacheOK, HolderOK, LaunchesOK, KnownOK, SetOK
<1>2. IInv /\ Next => IInv'
  BY TickStep, RotateStep, WithdrawStep, BeginStep, EnterStep, ServeStep,
     ArriveStep, FailsStep, DropStep DEF Next, Proceed
<1>. QED
  BY <1>1, <1>2

LEMMA SpecIInv == Spec => []IInv
BY InitIInv, NextIInv, PTL DEF Spec

(* Every variable keeps its type, and the lock is held only by a launch    *)
(* that fetches.                                                           *)
THEOREM TypeCorrect == Spec => []TypeOK
<1>1. IInv => TypeOK
  BY DEF IInv, TypeInv, HolderOK, Busy, TypeOK
<1>. QED
  BY <1>1, SpecIInv, PTL

(* A withdrawn key is accepted for a lifespan and a fetch's time at most,  *)
(* however the platforms rotate and the launches race.                     *)
THEOREM AcceptedInTime == Spec => []AcceptedIsRecent
<1>1. IInv => AcceptedIsRecent
  BY DEF IInv, LaunchesOK, KnownOK, AcceptedIsRecent, KeyOf
<1>. QED
  BY <1>1, SpecIInv, PTL

(* A token is refused for its kid only if its key was withdrawn, or was    *)
(* published within the last lifespan and fetch's time.                    *)
THEOREM RefusedInTime == Spec => []RefusedIsRecent
<1>1. IInv => RefusedIsRecent
  BY DEF IInv, LaunchesOK, KnownOK, RefusedIsRecent, KeyOf
<1>. QED
  BY <1>1, SpecIInv, PTL

(* No answer takes the place of a later one: the entry of a URL is out of  *)
(* the cache while a launch fetches it.                                    *)
THEOREM NoStepBack == Spec => NeverOlder
<1>. DEFINE Kept == \A u \in DOMAIN cache \cap DOMAIN cache' :
                      cache[u].served_at <= cache'[u].served_at
<1>1. IInv /\ [Next]_vars => [Kept]_vars
  <2>. SUFFICES ASSUME IInv, Next, NEW u \in DOMAIN cache, u \in DOMAIN cache'
                PROVE  cache[u].served_at <= cache'[u].served_at
    BY DEF vars
  <2>1. cache[u].served_at <= cache[u].served_at
    BY EntryBounds
  <2>2. ASSUME NEW l \in Launch, Arrive(l) PROVE cache'[u] = cache[u]
    <3>1. launch[l].url \notin DOMAIN cache
      BY <2>2 DEF Arrive, IInv, HolderOK, Busy
    <3>. QED
      BY <2>2, <3>1 DEF Arrive
  <2>3. ASSUME NEW l \in Launch, Enter(l) PROVE cache'[u] = cache[u]
    BY <2>3 DEF Enter, Miss
  <2>4. cache'[u] = cache[u]
    BY <2>2, <2>3
       DEF Next, Proceed, Tick, Rotate, Withdraw, Begin, Serve, Fails, Drop
  <2>. QED
    BY <2>1, <2>4
<1>. HIDE DEF Kept
<1>2. Spec => [][Kept]_vars
  BY <1>1, SpecIInv, PTL DEF Spec
<1>. QED
  BY <1>2 DEF Kept, NeverOlder

-----------------------------------------------------------------------------
(* The refinement of SyncCache.                                            *)

(* What the mapping makes of one launch.                                   *)
LEMMA StageIs ==
  ASSUME NEW r \in Local
  PROVE  /\ r.pc = "idle" => StageOf(r) = [at |-> "away"]
         /\ r.pc = "waiting" => StageOf(r) = [at |-> "queued", key |-> r.url]
         /\ r.pc \in Busy => StageOf(r) = [at |-> "running", key |-> r.url]
         /\ r.pc \in Ended => StageOf(r) = [at |-> "served"]
         /\ r.pc \in {"failed", "dropped"} => StageOf(r) = [at |-> "unserved"]
BY DEF StageOf, Busy, Ended

LEMMA CallerIs ==
  ASSUME NEW l \in Launch
  PROVE  callerOf[l] = StageOf(launch[l])
BY DEF callerOf

(* A step of one launch is a step of one caller.                           *)
LEMMA OneCaller ==
  ASSUME TypeInv, NEW l \in Launch, NEW new,
         launch' = [launch EXCEPT ![l] = new]
  PROVE  Memo!Becomes(l, StageOf(new))
<1>1. launch' = [m \in Launch |-> IF m = l THEN new ELSE launch[m]]
  BY DEF TypeInv
<1>2. callerOf' = [m \in Launch |-> StageOf(launch'[m])]
  BY DEF callerOf
<1>3. \A m \in Launch :
        StageOf(launch'[m]) = IF m = l THEN StageOf(new) ELSE StageOf(launch[m])
  BY <1>1
<1>4. callerOf' = [m \in Launch |-> IF m = l THEN StageOf(new) ELSE StageOf(launch[m])]
  BY <1>2, <1>3
<1>. QED
  BY <1>4 DEF Memo!Becomes, callerOf

(* The entry of a URL is fresh for the one as for the other.               *)
LEMMA FreshIs == \A u : Memo!Fresh(u) <=> Fresh(u)
BY DEF Memo!Fresh, Fresh, keptOf

LEMMA BeginRefines ==
  ASSUME IInv, NEW l \in Launch, NEW u \in Url, NEW k \in Kid, Begin(l, u, k)
  PROVE  Memo!Ask(l, u)
<1>. DEFINE new == [pc |-> "waiting", url |-> u, kid |-> k]
<1>1. new \in Local /\ new.pc = "waiting" /\ new.url = u
  BY DEF Local
<1>2. /\ launch[l].pc = "idle" /\ launch[l] \in Local /\ TypeInv
      /\ launch' = [launch EXCEPT ![l] = new] /\ UNCHANGED <<now, cache>>
  BY DEF Begin, IInv, TypeInv
<1>. HIDE DEF new
<1>3. callerOf[l].at = "away"
  BY <1>2, StageIs, CallerIs
<1>4. Memo!Becomes(l, [at |-> "queued", key |-> u])
  BY <1>1, <1>2, OneCaller, StageIs
<1>. QED
  BY <1>2, <1>3, <1>4 DEF Memo!Ask, keptOf

LEMMA EnterRefines ==
  ASSUME IInv, NEW l \in Launch, Enter(l)
  PROVE  Memo!Hit(l) \/ Memo!Run(l)
<1>. DEFINE u == launch[l].url
<1>1. /\ launch[l].pc = "waiting" /\ lock = "free" /\ now' = now
      /\ launch[l] \in Local /\ TypeInv /\ launch[l].pc \in HasToken
  BY DEF Enter, IInv, TypeInv, HasToken
<1>2. u \in Url /\ launch[l].kid \in Kid /\ now \in Time
  BY <1>1, LocalTimes DEF TypeInv
<1>3. callerOf[l] = [at |-> "queued", key |-> u]
  BY <1>1, StageIs, CallerIs
<1>4. CASE Fresh(u) /\ Decode(l, cache[u].keys) /\ UNCHANGED <<cache, lock>>
  <2>. DEFINE new == Decoded(launch[l], cache[u].keys)
  <2>1. new \in Local /\ new.pc \in Ended
    BY <1>2 DEF Decoded, Local, Ended
  <2>2. launch' = [launch EXCEPT ![l] = new]
    BY <1>4, DecodeIs
  <2>. HIDE DEF new
  <2>3. Memo!Becomes(l, [at |-> "served"])
    BY <1>1, <2>1, <2>2, OneCaller, StageIs
  <2>. QED
    BY <1>1, <1>3, <1>4, <2>3, FreshIs DEF Memo!Hit, keptOf
<1>5. CASE Miss(l)
  <2>. DEFINE new == [pc |-> "asking", url |-> u, kid |-> launch[l].kid]
  <2>1. launch[l] \in [pc : {"waiting", "asking", "failed"}, url : Url, kid : Kid]
    BY <1>1 DEF Local
  <2>2. new \in Local /\ new.pc \in Busy /\ new.url = u
    BY <1>2 DEF Local, Busy
  <2>. [launch[l] EXCEPT !.pc = "asking"] = new
    BY <2>1
  <2>3. launch' = [launch EXCEPT ![l] = new]
    BY <1>5 DEF Miss
  <2>. HIDE DEF new
  <2>4. Memo!Becomes(l, [at |-> "running", key |-> u])
    BY <1>1, <2>2, <2>3, OneCaller, StageIs
  <2>5. \A m \in Launch : callerOf[m].at # "running"
    <3>. TAKE m \in Launch
    <3>1. launch[m] \in Local /\ launch[m].pc \notin Busy
      BY <1>1, JwksAssumption DEF IInv, HolderOK, TypeInv
    <3>2. launch[m].pc \in {"idle", "waiting", "failed", "dropped"} \cup Ended
      BY <3>1 DEF Local, Busy, Ended
    <3>. QED
      BY <3>1, <3>2, StageIs, CallerIs
  <2>6. keptOf' = [v \in DOMAIN keptOf \ {u} |-> keptOf[v]]
    BY <1>5 DEF Miss, keptOf
  <2>. QED
    BY <1>1, <1>3, <1>5, <2>4, <2>5, <2>6, FreshIs DEF Memo!Run, Miss
<1>. QED
  BY <1>4, <1>5 DEF Enter

(* That the platform has made up its answer is a stutter.                  *)
LEMMA ServeRefines ==
  ASSUME IInv, NEW l \in Launch, Serve(l)
  PROVE  UNCHANGED <<now, keptOf, callerOf>>
<1>1. /\ launch[l].pc = "asking" /\ UNCHANGED <<now, cache>>
      /\ launch[l] \in Local /\ TypeInv
  BY DEF Serve, IInv, TypeInv
<1>2. launch' \in [Launch -> Local]
  BY ServeStep DEF IInv, TypeInv
<1>3. /\ launch'[l].pc = "answered" /\ launch'[l].url = launch[l].url
      /\ \A m \in Launch \ {l} : launch'[m] = launch[m]
  BY <1>1 DEF Serve, TypeInv
<1>4. StageOf(launch'[l]) = StageOf(launch[l])
  BY <1>1, <1>2, <1>3, StageIs DEF Busy
<1>5. \A m \in Launch : StageOf(launch'[m]) = StageOf(launch[m])
  BY <1>3, <1>4
<1>. QED
  BY <1>1, <1>5 DEF keptOf, callerOf

LEMMA ArriveRefines ==
  ASSUME IInv, NEW l \in Launch, Arrive(l)
  PROVE  Memo!Keep(l)
<1>. DEFINE u == launch[l].url
            new == Decoded(launch[l], launch[l].keys)
<1>1. /\ launch[l].pc = "answered" /\ now' = now
      /\ launch[l] \in Local /\ TypeInv /\ launch[l].pc \in HasToken
      /\ Decode(l, launch[l].keys)
  BY DEF Arrive, IInv, TypeInv, HasToken, Busy
<1>2. u \in Url /\ launch[l].kid \in Kid /\ now \in Time
  BY <1>1, LocalTimes DEF TypeInv
<1>3. callerOf[l] = [at |-> "running", key |-> u]
  BY <1>1, StageIs, CallerIs DEF Busy
<1>4. new \in Local /\ new.pc \in Ended
  BY <1>2 DEF Decoded, Local, Ended
<1>5. launch' = [launch EXCEPT ![l] = new]
  BY <1>1, DecodeIs
<1>. HIDE DEF new
<1>6. Memo!Becomes(l, [at |-> "served"])
  BY <1>1, <1>4, <1>5, OneCaller, StageIs
<1>7. keptOf' = [v \in DOMAIN keptOf \cup {u} |-> IF v = u THEN now ELSE keptOf[v]]
  BY DEF Arrive, keptOf
<1>. QED
  BY <1>1, <1>3, <1>6, <1>7 DEF Memo!Keep

LEMMA GivesUp ==
  ASSUME IInv, NEW l \in Launch, Fails(l) \/ Drop(l)
  PROVE  Memo!GiveUp(l)
<1>1. /\ launch[l].pc \in {"waiting"} \cup Busy /\ UNCHANGED <<now, cache>>
      /\ launch[l] \in Local /\ TypeInv
  BY DEF Fails, Drop, Busy, IInv, TypeInv
<1>2. callerOf[l].at \in {"queued", "running"}
  BY <1>1, StageIs, CallerIs
<1>3. PICK new \in Local : /\ new.pc \in {"failed", "dropped"}
                           /\ launch' = [launch EXCEPT ![l] = new]
  <2>1. CASE Fails(l)
    <3>. DEFINE r == [pc |-> "failed", url |-> launch[l].url, kid |-> launch[l].kid]
    <3>1. launch[l].url \in Url /\ launch[l].kid \in Kid
      BY <1>1, <2>1, LocalTimes DEF Fails, HasToken, Busy
    <3>2. r \in Local /\ r.pc = "failed"
      BY <3>1 DEF Local
    <3>3. launch' = [launch EXCEPT ![l] = r]
      BY <2>1 DEF Fails
    <3>. HIDE DEF r
    <3>. QED
      BY <3>2, <3>3
  <2>2. CASE Drop(l)
    <3>1. [pc |-> "dropped"] \in Local
      BY DEF Local
    <3>. QED
      BY <2>2, <3>1 DEF Drop
  <2>. QED
    BY <2>1, <2>2
<1>4. Memo!Becomes(l, [at |-> "unserved"])
  BY <1>1, <1>3, OneCaller, StageIs
<1>. QED
  BY <1>1, <1>2, <1>4 DEF Memo!GiveUp, keptOf

LEMMA StepRefines ==
  ASSUME IInv, [Next]_vars
  PROVE  [Memo!Next]_(Memo!vars)
<1>1. CASE UNCHANGED vars
  BY <1>1 DEF vars, Memo!vars, keptOf, callerOf
<1>2. CASE Tick
  <2>1. UNCHANGED <<keptOf, callerOf>>
    BY <1>2 DEF Tick, keptOf, callerOf
  <2>. QED
    BY <1>2, <2>1 DEF Tick, Memo!Tick, Memo!Next
<1>3. ASSUME NEW u \in Url, Rotate(u) \/ \E k \in Kid : Withdraw(u, k)
      PROVE  UNCHANGED Memo!vars
  BY <1>3 DEF Rotate, Withdraw, Memo!vars, keptOf, callerOf
<1>4. ASSUME NEW l \in Launch, \/ \E u \in Url, k \in Kid : Begin(l, u, k)
                              \/ Enter(l) \/ Arrive(l) \/ Fails(l) \/ Drop(l)
      PROVE  Memo!Next
  BY <1>4, BeginRefines, EnterRefines, ArriveRefines, GivesUp DEF Memo!Next
<1>5. ASSUME NEW l \in Launch, Serve(l)
      PROVE  UNCHANGED Memo!vars
  BY <1>5, ServeRefines DEF Memo!vars
<1>. QED
  BY <1>1, <1>2, <1>3, <1>4, <1>5 DEF Next, Proceed

(* The function is a SyncCache for any number of launches and platforms:   *)
(* one launch at a time fetches, only for want of a fresh set, and one     *)
(* whose fetch fails or that is dropped holds up nobody.                   *)
THEOREM KeySetsAreMemoized == Spec => ImplementsSyncCache
<1>1. Init => Memo!Init
  <2>. SUFFICES ASSUME Init PROVE Memo!Init
    OBVIOUS
  <2>1. [pc |-> "idle"] \in Local
    BY DEF Local
  <2>2. callerOf = [l \in Launch |-> [at |-> "away"]]
    BY <2>1, StageIs DEF Init, callerOf
  <2>. QED
    BY <2>2 DEF Init, Memo!Init, keptOf
<1>2. IInv /\ [Next]_vars => [Memo!Next]_(Memo!vars)
  BY StepRefines
<1>. QED
  BY <1>1, <1>2, SpecIInv, PTL DEF Spec, ImplementsSyncCache, Memo!Spec
=============================================================================

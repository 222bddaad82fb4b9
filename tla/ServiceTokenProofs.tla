------------------------- MODULE ServiceTokenProofs -------------------------
(***************************************************************************)
(* What ServiceToken guarantees for any number of calls, clients and       *)
(* platforms, any lifetimes and any size of the cache.                     *)
(***************************************************************************)
EXTENDS ServiceToken, TLAPS

Trying == {"asking", "sleeping"}

(* Who runs holds the lock, and the lock is held by who runs; while the    *)
(* lock is held nobody writes the entry of the key, and time only ages it. *)
HolderRuns == \A c \in Call : call[c].pc \in Inside => lock = c

NothingFresh ==
  \A c \in Call : call[c].pc \in Inside => ~Fresh(KeyOf(call[c].args))

LockInv == TypeOK /\ HolderRuns /\ LockIsReleased /\ NothingFresh

LEMMA InitLockInv == Init => LockInv
BY TokenAssumption
   DEF Init, LockInv, TypeOK, Local, HolderRuns, Inside, LockIsReleased,
       NothingFresh

(* The local states that the steps lead to.                                *)
LEMMA WaitingRecord ==
  ASSUME TypeOK, NEW c \in Call, call[c].pc = "waiting"
  PROVE  call[c] \in [pc : {"waiting", "failed"}, args : Args]
BY DEF TypeOK, Local

LEMMA TryingRecord ==
  ASSUME TypeOK, NEW c \in Call, call[c].pc \in Trying
  PROVE  call[c] \in [pc : Trying, args : Args, count : 0..(Tries - 1)]
BY DEF TypeOK, Local, Trying

LEMMA GrantedRecord ==
  ASSUME TypeOK, NEW c \in Call, call[c].pc \in {"granted", "returned"}
  PROVE  call[c] \in [pc : {"granted", "returned"}, args : Args, token : Token]
BY DEF TypeOK, Local

(* A call that steps out, or stays out, and a cache that keeps of its      *)
(* entries what it keeps.                                                  *)
LEMMA CallStep ==
  ASSUME LockInv, NEW c \in Call, NEW new \in Local,
         call' = [call EXCEPT ![c] = new], UNCHANGED <<now, cache>>,
         \/ /\ new.pc \notin Inside
            /\ lock' = IF lock = c THEN "free" ELSE lock
         \/ /\ call[c].pc \in Inside /\ new.pc \in Inside
            /\ new.args = call[c].args /\ UNCHANGED lock
  PROVE  LockInv'
<1>1. /\ call'[c] = new
      /\ \A d \in Call \ {c} : call'[d] = call[d]
  BY DEF LockInv, TypeOK
<1>2. TypeOK'
  BY <1>1 DEF LockInv, TypeOK
<1>3. HolderRuns'
  BY <1>1 DEF LockInv, HolderRuns
<1>4. LockIsReleased'
  BY <1>1, TokenAssumption DEF LockInv, TypeOK, LockIsReleased, Inside, HolderRuns
<1>5. NothingFresh'
  BY <1>1 DEF LockInv, NothingFresh, Fresh
<1>. QED
  BY <1>2, <1>3, <1>4, <1>5 DEF LockInv

(* A call that waits or runs has the arguments it was given.               *)
LEMMA ArgsOf ==
  ASSUME TypeOK, NEW c \in Call, call[c].pc \in {"waiting"} \cup Inside
  PROVE  call[c].args \in Args /\ KeyOf(call[c].args) \in Key
<1>1. call[c].args \in Args
  BY WaitingRecord, TryingRecord, GrantedRecord DEF Inside, Trying
<1>. QED
  BY <1>1 DEF Args, KeyOf, Key

LEMMA TickStep == LockInv /\ Tick => LockInv'
<1>. SUFFICES ASSUME LockInv, Tick PROVE LockInv'
  OBVIOUS
<1>1. now \in Nat /\ now' = now + 1 /\ now' \in 0..MaxTime
  BY TokenAssumption DEF LockInv, TypeOK, Tick
<1>2. TypeOK'
  BY <1>1 DEF LockInv, TypeOK, Tick, Entry, Token
<1>3. HolderRuns' /\ LockIsReleased'
  BY DEF LockInv, Tick, HolderRuns, LockIsReleased
<1>4. NothingFresh'
  <2>. SUFFICES ASSUME NEW c \in Call, call[c].pc \in Inside,
                       KeyOf(call[c].args) \in DOMAIN cache
                PROVE  ~(now' < cache[KeyOf(call[c].args)].set_at + Lifespan)
    BY DEF Tick, NothingFresh, Fresh, KeyOf
  <2>1. ~(now < cache[KeyOf(call[c].args)].set_at + Lifespan)
    BY DEF LockInv, NothingFresh, Fresh
  <2>2. cache[KeyOf(call[c].args)].set_at \in Nat
    BY TokenAssumption DEF LockInv, TypeOK, Entry
  <2>. QED
    BY <1>1, <2>1, <2>2, TokenAssumption
<1>. QED
  BY <1>2, <1>3, <1>4 DEF LockInv

LEMMA EnterStep == LockInv => \A c \in Call : Enter(c) => LockInv'
<1>. SUFFICES ASSUME LockInv, NEW c \in Call, Enter(c) PROVE LockInv'
  OBVIOUS
<1>. DEFINE k == KeyOf(call[c].args)
<1>1. call[c].pc = "waiting" /\ lock = "free" /\ now' = now
      /\ call[c].args \in Args /\ k \in Key
  BY ArgsOf DEF Enter, LockInv
<1>2. CASE Fresh(k) /\ Return(c, cache[k].token) /\ UNCHANGED <<cache, lock>>
  <2>1. cache[k].token \in Token
    BY <1>2 DEF LockInv, TypeOK, Fresh, Entry
  <2>. DEFINE new == [pc |-> "returned", args |-> call[c].args,
                      token |-> cache[k].token]
  <2>2. new \in Local /\ new.pc \notin Inside
    BY <1>1, <2>1 DEF Local, Inside
  <2>3. call' = [call EXCEPT ![c] = new]
    BY <1>2 DEF Return
  <2>. HIDE DEF new
  <2>. QED
    BY <1>1, <1>2, <2>2, <2>3, CallStep
<1>3. CASE /\ ~Fresh(k)
           /\ cache' = [j \in DOMAIN cache \ {k} |-> cache[j]]
           /\ lock' = c
           /\ call' = [call EXCEPT ![c] =
                [pc |-> "asking", args |-> call[c].args, count |-> 0]]
  <2>. DEFINE new == [pc |-> "asking", args |-> call[c].args, count |-> 0]
  <2>1. new \in Local /\ new.pc = "asking" /\ new.args = call[c].args
    BY <1>1, TokenAssumption DEF Local
  <2>2. call' = [call EXCEPT ![c] = new]
    BY <1>3
  <2>. HIDE DEF new
  <2>3. /\ call'[c] = new
        /\ \A d \in Call \ {c} : call'[d] = call[d]
    BY <2>2 DEF LockInv, TypeOK
  <2>4. \A d \in Call : call[d].pc \notin Inside
    BY <1>1, TokenAssumption DEF LockInv, HolderRuns
  <2>5. TypeOK'
    <3>1. call' \in [Call -> Local]
      BY <2>1, <2>2 DEF LockInv, TypeOK
    <3>2. /\ DOMAIN cache' \subseteq Key
          /\ \A j \in DOMAIN cache' : cache'[j] \in Entry
      BY <1>3 DEF LockInv, TypeOK
    <3>. QED
      BY <3>1, <3>2, <1>1, <1>3 DEF LockInv, TypeOK
  <2>6. HolderRuns' /\ LockIsReleased'
    BY <2>1, <2>3, <2>4, <1>3 DEF HolderRuns, LockIsReleased, Inside
  <2>7. NothingFresh'
    <3>. SUFFICES ASSUME NEW d \in Call, call'[d].pc \in Inside
                  PROVE  ~Fresh(KeyOf(call[d].args))'
      BY <2>1, <2>3, <2>4 DEF NothingFresh, KeyOf
    <3>1. d = c
      BY <2>3, <2>4
    <3>2. KeyOf(call'[c].args) = k
      BY <2>1, <2>3
    <3>3. k \notin DOMAIN cache'
      BY <1>3
    <3>. QED
      BY <3>1, <3>2, <3>3 DEF Fresh, KeyOf
  <2>. QED
    BY <2>5, <2>6, <2>7 DEF LockInv
<1>. QED
  BY <1>2, <1>3 DEF Enter

(* The entries that room is made for are old ones and the new one.         *)
LEMMA RoomKeys ==
  ASSUME NEW k, NEW keep \in Room(k)
  PROVE  keep \subseteq DOMAIN cache \cup {k}
BY DEF Room

LEMMA ArriveStep == LockInv => \A c \in Call : Arrive(c) => LockInv'
<1>. SUFFICES ASSUME LockInv, NEW c \in Call, Arrive(c) PROVE LockInv'
  OBVIOUS
<1>. DEFINE k == KeyOf(call[c].args)
            entry == [token |-> call[c].token, set_at |-> now]
            new == [pc |-> "returned", args |-> call[c].args, token |-> call[c].token]
<1>1. call[c].pc = "granted" /\ call[c].args \in Args /\ k \in Key
      /\ lock' = "free" /\ now' = now
  BY ArgsOf DEF Arrive, LockInv, Inside
<1>2. PICK keep \in Room(k) :
        cache' = [j \in keep |-> IF j = k THEN entry ELSE cache[j]]
  BY DEF Arrive
<1>3. call[c].token \in Token
  BY <1>1, GrantedRecord DEF LockInv
<1>4. entry \in Entry
  BY <1>3 DEF Entry, LockInv, TypeOK
<1>5. new \in Local /\ new.pc = "returned"
  BY <1>1, <1>3 DEF Local
<1>6. call' = [call EXCEPT ![c] = new]
  BY DEF Arrive, Return
<1>. HIDE DEF new, entry
<1>7. /\ call'[c] = new
      /\ \A d \in Call \ {c} : call'[d] = call[d]
      /\ call' \in [Call -> Local]
  BY <1>5, <1>6 DEF LockInv, TypeOK
<1>8. \A d \in Call : call'[d].pc \notin Inside
  BY <1>1, <1>5, <1>7 DEF LockInv, HolderRuns, Inside
<1>9. TypeOK'
  <2>1. keep \subseteq DOMAIN cache \cup {k}
    BY RoomKeys
  <2>2. DOMAIN cache' = keep /\ keep \subseteq Key
    BY <1>1, <1>2, <2>1 DEF LockInv, TypeOK
  <2>3. ASSUME NEW j \in keep PROVE cache'[j] \in Entry
    BY <1>2, <1>4, <2>1 DEF LockInv, TypeOK
  <2>. QED
    BY <1>1, <1>7, <2>2, <2>3 DEF LockInv, TypeOK
<1>10. HolderRuns' /\ LockIsReleased' /\ NothingFresh'
  BY <1>1, <1>8 DEF HolderRuns, LockIsReleased, NothingFresh
<1>. QED
  BY <1>9, <1>10 DEF LockInv

(* The local state of a call whose grant is on its way.                    *)
LEMMA GrantedIs ==
  ASSUME TypeOK, NEW c \in Call, Grant(c)
  PROVE  \E new \in Local :
           /\ call[c].pc = "asking" /\ new.pc = "granted"
           /\ new.args = call[c].args /\ new.token.granted_at = now
           /\ new.token.issued_by = call[c].args.platform_token_url
           /\ call' = [call EXCEPT ![c] = new]
           /\ UNCHANGED <<now, cache, lock>>
<1>. DEFINE token == [issued_by |-> call[c].args.platform_token_url,
                      granted_at |-> now]
            new == [pc |-> "granted", args |-> call[c].args, token |-> token]
<1>1. call[c].args \in Args
  BY ArgsOf DEF Grant, Inside
<1>2. token \in Token
  BY <1>1 DEF Args, Token, TypeOK
<1>3. new \in Local
  BY <1>1, <1>2 DEF Local
<1>4. /\ call[c].pc = "asking" /\ call' = [call EXCEPT ![c] = new]
      /\ UNCHANGED <<now, cache, lock>>
  BY DEF Grant
<1>. QED
  BY <1>3, <1>4

(* The steps that change one call and leave the cache alone.               *)
LEMMA PlainStep ==
  LockInv => \A c \in Call :
    (\E args \in Args : Begin(c, args)) \/ Grant(c) \/ RateLimited(c)
      \/ Refused(c) \/ Awake(c) \/ Drop(c) => LockInv'
<1>. SUFFICES ASSUME LockInv, NEW c \in Call,
                     (\E args \in Args : Begin(c, args)) \/ Grant(c)
                       \/ RateLimited(c) \/ Refused(c) \/ Awake(c) \/ Drop(c)
              PROVE  LockInv'
  OBVIOUS
<1>1. ASSUME NEW args \in Args, Begin(c, args) PROVE LockInv'
  <2>. DEFINE new == [pc |-> "waiting", args |-> args]
  <2>1. new \in Local /\ new.pc \notin Inside
    BY DEF Local, Inside
  <2>2. lock # c
    BY <1>1, TokenAssumption DEF Begin, LockInv, LockIsReleased, Inside
  <2>3. call' = [call EXCEPT ![c] = new] /\ UNCHANGED <<now, cache, lock>>
    BY <1>1 DEF Begin
  <2>. HIDE DEF new
  <2>. QED
    BY <2>1, <2>2, <2>3, CallStep
<1>2. ASSUME call[c].pc \in Inside, Fail(c), lock' = "free",
             UNCHANGED <<now, cache>>
      PROVE  LockInv'
  <2>. DEFINE new == [pc |-> "failed", args |-> call[c].args]
  <2>1. new \in Local /\ new.pc \notin Inside
    BY <1>2, ArgsOf DEF Local, Inside, LockInv
  <2>2. lock = c
    BY <1>2 DEF LockInv, HolderRuns
  <2>3. call' = [call EXCEPT ![c] = new]
    BY <1>2 DEF Fail
  <2>. HIDE DEF new
  <2>. QED
    BY <1>2, <2>1, <2>2, <2>3, CallStep
<1>3. ASSUME NEW new \in Local, call' = [call EXCEPT ![c] = new],
             call[c].pc \in Inside, new.pc \in Inside,
             new.args = call[c].args, UNCHANGED <<now, cache, lock>>
      PROVE  LockInv'
  BY <1>3, CallStep
<1>4. CASE RateLimited(c)
  <2>. DEFINE new == [call[c] EXCEPT !.pc = "sleeping"]
  <2>1. call[c] \in [pc : Trying, args : Args, count : 0..(Tries - 1)]
    BY <1>4, TryingRecord DEF RateLimited, LockInv, Trying
  <2>2. new \in Local /\ new.pc \in Inside /\ new.args = call[c].args
    BY <2>1 DEF Local, Inside, Trying
  <2>3. call' = [call EXCEPT ![c] = new] /\ UNCHANGED <<now, cache, lock>>
    BY <1>4 DEF RateLimited
  <2>4. call[c].pc \in Inside
    BY <1>4 DEF RateLimited, Inside
  <2>. HIDE DEF new
  <2>. QED
    BY <1>3, <2>2, <2>3, <2>4
<1>5. CASE Refused(c)
  BY <1>2, <1>5 DEF Refused, Inside
<1>6. CASE Awake(c)
  <2>1. call[c].pc = "sleeping" /\ UNCHANGED <<now, cache>>
    BY <1>6 DEF Awake
  <2>2. CASE Fail(c) /\ lock' = "free"
    BY <1>2, <2>1, <2>2 DEF Inside
  <2>3. CASE /\ call[c].count + 1 < Tries
             /\ call' = [call EXCEPT ![c].pc = "asking", ![c].count = @ + 1]
             /\ UNCHANGED lock
    <3>. DEFINE new == [call[c] EXCEPT !.pc = "asking", !.count = @ + 1]
    <3>1. call[c] \in [pc : Trying, args : Args, count : 0..(Tries - 1)]
      BY <2>1, TryingRecord DEF LockInv, Trying
    <3>2. call[c].count \in Nat /\ call[c].count + 1 \in 0..(Tries - 1)
      BY <2>3, <3>1, TokenAssumption
    <3>3. new \in [pc : {"asking", "sleeping"}, args : Args, count : 0..(Tries - 1)]
          /\ new.pc = "asking" /\ new.args = call[c].args
      BY <3>1, <3>2
    <3>4. new \in Local
      BY <3>3 DEF Local
    <3>5. call' = [call EXCEPT ![c] = new]
      BY <2>3 DEF LockInv, TypeOK
    <3>. HIDE DEF new
    <3>. QED
      BY <1>3, <2>1, <2>3, <3>3, <3>4, <3>5 DEF Inside
  <2>. QED
    BY <1>6, <2>2, <2>3 DEF Awake
<1>7. CASE Drop(c)
  <2>. DEFINE new == [pc |-> "dropped"]
  <2>1. new \in Local /\ new.pc \notin Inside
    BY DEF Local, Inside
  <2>2. /\ call' = [call EXCEPT ![c] = new]
        /\ lock' = IF lock = c THEN "free" ELSE lock
        /\ UNCHANGED <<now, cache>>
    BY <1>7 DEF Drop
  <2>. HIDE DEF new
  <2>. QED
    BY <2>1, <2>2, CallStep
<1>8. CASE Grant(c)
  <2>1. PICK new \in Local :
          /\ call[c].pc = "asking" /\ new.pc = "granted"
          /\ new.args = call[c].args
          /\ call' = [call EXCEPT ![c] = new]
          /\ UNCHANGED <<now, cache, lock>>
    BY <1>8, GrantedIs DEF LockInv
  <2>. QED
    BY <1>3, <2>1 DEF Inside
<1>. QED
  BY <1>1, <1>4, <1>5, <1>6, <1>7, <1>8

LEMMA NextLockInv == LockInv /\ [Next]_vars => LockInv'
<1>1. LockInv /\ UNCHANGED vars => LockInv'
  BY DEF vars, LockInv, TypeOK, HolderRuns, LockIsReleased, NothingFresh, Fresh,
         KeyOf
<1>2. LockInv /\ Next => LockInv'
  BY TickStep, EnterStep, ArriveStep, PlainStep DEF Next, Answer
<1>. QED
  BY <1>1, <1>2

LEMMA SpecLockInv == Spec => []LockInv
BY InitLockInv, NextLockInv, PTL DEF Spec

(* Every variable keeps the type of TypeOK, whatever the platforms answer. *)
THEOREM TypeCorrect == Spec => []TypeOK
<1>1. LockInv => TypeOK
  BY DEF LockInv
<1>. QED
  BY <1>1, SpecLockInv, PTL

(* sync_writes does what client_credentials.rs:105 relies on: no call asks *)
(* a platform while the cache has a fresh token for it, or while another   *)
(* call asks.                                                              *)
THEOREM NobodyFetchesTwice == Spec => []NoSecondFetch
<1>1. LockInv => NoSecondFetch
  BY DEF LockInv, HolderRuns, NothingFresh, NoSecondFetch, Inside
<1>. QED
  BY <1>1, SpecLockInv, PTL

(* However a call ends, it does not leave the lock behind.                 *)
THEOREM LockIsFreed == Spec => []LockIsReleased
<1>1. LockInv => LockIsReleased
  BY DEF LockInv
<1>. QED
  BY <1>1, SpecLockInv, PTL

-----------------------------------------------------------------------------
(* How old a token is that is returned.                                    *)

(* A grant is on its way for MaxDelay at most, and its entry counts from   *)
(* the arrival.                                                            *)
EntriesDated ==
  \A k \in DOMAIN cache : cache[k].set_at <= cache[k].token.granted_at + MaxDelay

GrantsDated ==
  \A c \in Call : call[c].pc = "granted" =>
    now <= call[c].token.granted_at + MaxDelay

AgeInv == LockInv /\ EntriesDated /\ GrantsDated

(* A step that adds no entry leaves the entries dated, and one that makes  *)
(* no grant and keeps the time leaves the grants dated.                    *)
LEMMA FewerEntries ==
  ASSUME EntriesDated, DOMAIN cache' \subseteq DOMAIN cache,
         \A k \in DOMAIN cache' : cache'[k] = cache[k]
  PROVE  EntriesDated'
BY DEF EntriesDated

LEMMA NoNewGrant ==
  ASSUME GrantsDated, now' = now, NEW c \in Call, call'[c].pc # "granted",
         \A d \in Call \ {c} : call'[d] = call[d]
  PROVE  GrantsDated'
BY DEF GrantsDated

LEMMA ArriveDated ==
  ASSUME AgeInv, NEW c \in Call, Arrive(c)
  PROVE  EntriesDated'
<1>. DEFINE k == KeyOf(call[c].args)
            entry == [token |-> call[c].token, set_at |-> now]
<1>1. PICK keep \in Room(k) :
        cache' = [j \in keep |-> IF j = k THEN entry ELSE cache[j]]
  BY DEF Arrive
<1>2. now <= call[c].token.granted_at + MaxDelay
  BY DEF AgeInv, GrantsDated, Arrive
<1>3. keep \subseteq DOMAIN cache \cup {k}
  BY RoomKeys
<1>4. ASSUME NEW j \in DOMAIN cache'
      PROVE  cache'[j].set_at <= cache'[j].token.granted_at + MaxDelay
  <2>1. j \in keep
    BY <1>1, <1>4
  <2>2. CASE j = k
    BY <1>1, <1>2, <2>1, <2>2
  <2>3. CASE j # k
    <3>1. cache'[j] = cache[j] /\ j \in DOMAIN cache
      BY <1>1, <1>3, <2>1, <2>3
    <3>. QED
      BY <3>1 DEF AgeInv, EntriesDated
  <2>. QED
    BY <2>2, <2>3
<1>. QED
  BY <1>4 DEF EntriesDated

(* What a step of a call makes of it.                                      *)
LEMMA CallBecomes ==
  ASSUME LockInv, NEW c \in Call
  PROVE  /\ \A args \in Args : Begin(c, args) => call'[c].pc = "waiting"
         /\ Enter(c) => call'[c].pc \in {"returned", "asking"}
         /\ Arrive(c) => call'[c].pc = "returned" /\ call'[c].token = call[c].token
         /\ RateLimited(c) => call'[c].pc = "sleeping"
         /\ Refused(c) => call'[c].pc = "failed"
         /\ Awake(c) => call'[c].pc \in {"asking", "failed"}
         /\ Drop(c) => call'[c].pc = "dropped"
         /\ \/ \E args \in Args : Begin(c, args)
            \/ Enter(c) \/ Answer(c) \/ Awake(c) \/ Drop(c)
            => \A d \in Call \ {c} : call'[d] = call[d]
<1>. call \in [Call -> Local] /\ TypeOK
  BY DEF LockInv, TypeOK
<1>1. RateLimited(c) => call'[c].pc = "sleeping"
  <2>. HAVE RateLimited(c)
  <2>1. call[c] \in [pc : Trying, args : Args, count : 0..(Tries - 1)]
    BY TryingRecord DEF RateLimited, Trying
  <2>. QED
    BY <2>1 DEF RateLimited
<1>2. Awake(c) => call'[c].pc \in {"asking", "failed"}
  <2>. HAVE Awake(c)
  <2>1. call[c] \in [pc : Trying, args : Args, count : 0..(Tries - 1)]
    BY TryingRecord DEF Awake, Trying
  <2>. QED
    BY <2>1 DEF Awake, Fail
<1>3. ASSUME NEW args \in Args, Begin(c, args)
      PROVE  call'[c].pc = "waiting" /\ \A d \in Call \ {c} : call'[d] = call[d]
  BY <1>3 DEF Begin
<1>4. Enter(c) => call'[c].pc \in {"returned", "asking"}
                  /\ \A d \in Call \ {c} : call'[d] = call[d]
  BY DEF Enter, Return
<1>5. /\ Arrive(c) => call'[c].pc = "returned" /\ call'[c].token = call[c].token
      /\ Refused(c) => call'[c].pc = "failed"
      /\ Drop(c) => call'[c].pc = "dropped"
  BY DEF Arrive, Return, Refused, Fail, Drop
<1>6. Answer(c) \/ Awake(c) \/ Drop(c) => \A d \in Call \ {c} : call'[d] = call[d]
  BY DEF Answer, Grant, Arrive, Return, RateLimited, Refused, Fail, Awake, Drop
<1>. QED
  BY <1>1, <1>2, <1>3, <1>4, <1>5, <1>6

LEMMA NextAgeInv == AgeInv /\ [Next]_vars => AgeInv'
<1>. SUFFICES ASSUME AgeInv, [Next]_vars PROVE EntriesDated' /\ GrantsDated'
  BY NextLockInv DEF AgeInv
<1>. LockInv /\ EntriesDated /\ GrantsDated
  BY DEF AgeInv
<1>1. CASE UNCHANGED vars
  BY <1>1 DEF EntriesDated, GrantsDated, vars
<1>2. CASE Tick
  <2>1. EntriesDated'
    BY <1>2, FewerEntries DEF Tick
  <2>2. ASSUME NEW c \in Call, call[c].pc = "granted"
        PROVE  now' <= call[c].token.granted_at + MaxDelay
    <3>1. call[c].token.granted_at \in Nat
      BY <2>2, GrantedRecord, TokenAssumption DEF LockInv, Token
    <3>2. now < call[c].token.granted_at + MaxDelay /\ now' = now + 1 /\ now \in Nat
      BY <1>2, <2>2, TokenAssumption DEF Tick, LockInv, TypeOK
    <3>. QED
      BY <3>1, <3>2, TokenAssumption
  <2>. QED
    BY <1>2, <2>1, <2>2 DEF Tick, GrantsDated
<1>3. ASSUME NEW c \in Call, Grant(c)
      PROVE  EntriesDated' /\ GrantsDated'
  <2>1. PICK new \in Local :
          /\ new.token.granted_at = now
          /\ call' = [call EXCEPT ![c] = new]
          /\ UNCHANGED <<now, cache, lock>>
    BY <1>3, GrantedIs DEF LockInv
  <2>2. now <= new.token.granted_at + MaxDelay
    BY <2>1, TokenAssumption DEF LockInv, TypeOK
  <2>3. call'[c] = new /\ \A d \in Call \ {c} : call'[d] = call[d]
    BY <2>1 DEF LockInv, TypeOK
  <2>. QED
    BY <2>1, <2>2, <2>3, FewerEntries DEF GrantsDated
<1>4. ASSUME NEW c \in Call, Arrive(c)
      PROVE  EntriesDated' /\ GrantsDated'
  BY <1>4, ArriveDated, CallBecomes, NoNewGrant DEF Arrive, Answer
<1>5. ASSUME NEW c \in Call,
             \/ \E args \in Args : Begin(c, args)
             \/ Enter(c) \/ RateLimited(c) \/ Refused(c) \/ Awake(c) \/ Drop(c)
      PROVE  EntriesDated' /\ GrantsDated'
  <2>1. /\ now' = now /\ DOMAIN cache' \subseteq DOMAIN cache
        /\ \A k \in DOMAIN cache' : cache'[k] = cache[k]
    BY <1>5 DEF Begin, Enter, RateLimited, Refused, Awake, Drop
  <2>2. call'[c].pc # "granted" /\ \A d \in Call \ {c} : call'[d] = call[d]
    BY <1>5, CallBecomes DEF Answer
  <2>. QED
    BY <2>1, <2>2, FewerEntries, NoNewGrant
<1>. QED
  BY <1>1, <1>2, <1>3, <1>4, <1>5 DEF Next, Answer

LEMMA SpecAgeInv == Spec => []AgeInv
<1>1. Init => AgeInv
  BY InitLockInv DEF AgeInv, EntriesDated, GrantsDated, Init
<1>. QED
  BY <1>1, NextAgeInv, PTL DEF Spec

(* A call that returns got a fresh entry's token or a grant of its own.    *)
LEMMA ReturnedAge ==
  ASSUME AgeInv, Next, NEW c \in Call,
         call[c].pc # "returned", call'[c].pc = "returned"
  PROVE  now < call'[c].token.granted_at + MaxDelay + Lifespan
<1>1. /\ now \in Nat /\ Lifespan \in Nat \ {0} /\ MaxDelay \in Nat
      /\ call \in [Call -> Local] /\ LockInv
  BY TokenAssumption DEF AgeInv, LockInv, TypeOK
<1>2. ASSUME NEW d \in Call, Enter(d)
      PROVE  now < call'[c].token.granted_at + MaxDelay + Lifespan
  <2>. DEFINE k == KeyOf(call[d].args)
  <2>1. /\ Fresh(k) /\ d = c
        /\ call'[c].token = cache[k].token
    BY <1>1, <1>2 DEF Enter, Return
  <2>2. /\ cache[k].set_at \in Nat /\ cache[k].token.granted_at \in Nat
        /\ cache[k].set_at <= cache[k].token.granted_at + MaxDelay
        /\ now < cache[k].set_at + Lifespan
    BY <2>1, TokenAssumption
       DEF AgeInv, EntriesDated, LockInv, TypeOK, Entry, Token, Fresh
  <2>. QED
    BY <1>1, <2>1, <2>2
<1>3. ASSUME NEW d \in Call, Arrive(d)
      PROVE  now < call'[c].token.granted_at + MaxDelay + Lifespan
  <2>1. d = c /\ call'[c].token = call[c].token /\ call[c].pc = "granted"
    BY <1>1, <1>3, CallBecomes DEF Answer, Arrive
  <2>2. call[c].token.granted_at \in Nat
    BY <1>1, <2>1, GrantedRecord, TokenAssumption DEF LockInv, Token
  <2>3. now <= call[c].token.granted_at + MaxDelay
    BY <2>1 DEF AgeInv, GrantsDated
  <2>. QED
    BY <1>1, <2>1, <2>2, <2>3
<1>4. ASSUME NEW d \in Call,
             \/ \E args \in Args : Begin(d, args)
             \/ Grant(d) \/ RateLimited(d) \/ Refused(d) \/ Awake(d) \/ Drop(d)
      PROVE  call'[c].pc # "returned"
  <2>1. CASE Grant(d)
    BY <1>1, <2>1, GrantedIs DEF LockInv
  <2>2. CASE ~Grant(d)
    BY <1>1, <1>4, <2>2, CallBecomes DEF Answer
  <2>. QED
    BY <2>1, <2>2
<1>. QED
  BY <1>2, <1>3, <1>4 DEF Next, Answer, Tick

(* A token that is returned was granted less than a lifespan and a delay   *)
(* ago, whether it comes from the cache or not: it may have expired only   *)
(* where a platform's tokens live shorter (client_credentials.rs:106).     *)
THEOREM TokensAreYoung == Spec => RecentOnReturn
<1>1. AgeInv /\ [Next]_vars =>
        [\A c \in Call :
           call[c].pc # "returned" /\ call'[c].pc = "returned" =>
             now < call'[c].token.granted_at + MaxDelay + Lifespan]_vars
  BY ReturnedAge
<1>. QED
  BY <1>1, SpecAgeInv, PTL DEF Spec, RecentOnReturn

-----------------------------------------------------------------------------
(* How long a call can run.                                                *)

(* The steps that a call has left, at most: one for the lock, and for each *)
(* try a request and a sleep, or at last the answer's way.                 *)
Left(r) ==
  CASE r.pc = "waiting"  -> 2 * Tries + 1
    [] r.pc = "asking"   -> 2 * (Tries - r.count)
    [] r.pc = "sleeping" -> 2 * (Tries - r.count) - 1
    [] r.pc = "granted"  -> 1
    [] OTHER             -> 0

LEMMA LeftBounds ==
  ASSUME NEW r \in Local
  PROVE  /\ Left(r) \in 0..(2 * Tries + 1)
         /\ r.pc \in {"waiting"} \cup Inside => 0 < Left(r)
         /\ r.pc \notin {"waiting"} \cup Inside => Left(r) = 0
<1>. Tries \in Nat \ {0}
  BY TokenAssumption
<1>1. CASE r.pc \in Trying
  <2>1. r.count \in 0..(Tries - 1)
    BY <1>1 DEF Local, Trying
  <2>. QED
    BY <1>1, <2>1 DEF Left, Inside, Trying
<1>2. CASE r.pc \in {"waiting", "granted"}
  BY <1>2 DEF Left, Inside
<1>3. CASE r.pc \notin {"waiting"} \cup Inside
  BY <1>3 DEF Left, Inside
<1>. QED
  BY <1>1, <1>2, <1>3 DEF Inside, Trying

LEMMA StepUsesOne ==
  ASSUME LockInv, Next, NEW c \in Call, call[c].pc # "idle", call'[c] # call[c]
  PROVE  Left(call'[c]) < Left(call[c])
<1>1. /\ call \in [Call -> Local] /\ call' \in [Call -> Local]
      /\ Tries \in Nat \ {0} /\ TypeOK
  BY NextLockInv, TokenAssumption DEF LockInv, TypeOK
<1>. DEFINE a == call[c]
            b == call'[c]
<1>2. ASSUME a.pc \in {"waiting"} \cup Inside, b.pc \notin {"waiting"} \cup Inside
      PROVE  Left(b) < Left(a)
  BY <1>1, <1>2, LeftBounds
<1>3. ASSUME NEW d \in Call, NEW args \in Args, Begin(d, args)
      PROVE  FALSE
  BY <1>1, <1>3 DEF Begin
<1>4. ASSUME NEW d \in Call, Arrive(d) \/ Refused(d) \/ Drop(d)
      PROVE  Left(b) < Left(a)
  <2>1. d = c
    BY <1>4, CallBecomes DEF Answer
  <2>2. b.pc \in {"returned", "failed", "dropped"}
    BY <1>4, <2>1, CallBecomes
  <2>3. a.pc \in {"waiting"} \cup Inside
    BY <1>4, <2>1 DEF Arrive, Refused, Drop, Inside
  <2>. QED
    BY <1>2, <2>2, <2>3 DEF Inside
<1>5. ASSUME NEW d \in Call, Grant(d)
      PROVE  Left(b) < Left(a)
  <2>1. d = c /\ a.pc = "asking" /\ b.pc = "granted"
    BY <1>1, <1>5, GrantedIs
  <2>2. a.count \in 0..(Tries - 1)
    BY <1>1, <2>1, TryingRecord DEF Trying
  <2>. QED
    BY <1>1, <2>1, <2>2 DEF Left
<1>6. ASSUME NEW d \in Call, Enter(d)
      PROVE  Left(b) < Left(a)
  <2>1. d = c /\ a.pc = "waiting"
    BY <1>1, <1>6 DEF Enter, Return
  <2>2. \/ b.pc = "returned"
        \/ b.pc = "asking" /\ b.count = 0
    BY <1>1, <1>6, <2>1 DEF Enter, Return
  <2>3. CASE b.pc = "asking" /\ b.count = 0
    BY <1>1, <2>1, <2>3 DEF Left
  <2>. QED
    BY <1>2, <2>1, <2>2, <2>3 DEF Inside
<1>7. ASSUME NEW d \in Call, RateLimited(d) \/ Awake(d)
      PROVE  Left(b) < Left(a)
  <2>1. call[d] \in [pc : Trying, args : Args, count : 0..(Tries - 1)]
    BY <1>1, <1>7, TryingRecord DEF RateLimited, Awake, Trying
  <2>2. d = c
    BY <1>1, <1>7 DEF RateLimited, Awake, Fail
  <2>3. \/ a.pc = "asking" /\ b.pc = "sleeping" /\ b.count = a.count
        \/ a.pc = "sleeping" /\ b.pc = "asking" /\ b.count = a.count + 1
        \/ a.pc = "sleeping" /\ b.pc = "failed"
    BY <1>1, <1>7, <2>1, <2>2 DEF RateLimited, Awake, Fail
  <2>4. CASE a.pc = "sleeping" /\ b.pc = "failed"
    BY <1>2, <2>4 DEF Inside
  <2>. QED
    BY <1>1, <2>1, <2>2, <2>3, <2>4 DEF Left
<1>. QED
  BY <1>3, <1>4, <1>5, <1>6, <1>7 DEF Next, Answer, Tick

(* A call that has begun takes 2 * Tries + 1 steps at most, so no platform *)
(* is asked more than Tries times on its behalf, and no step of another    *)
(* call or of the clock gives it more (the loop over AUTHORIZATION_TRIES). *)
THEOREM RetriesEnd ==
  Spec => [][\A c \in Call :
               /\ Left(call[c]) \in 0..(2 * Tries + 1)
               /\ call[c].pc # "idle" /\ call'[c] # call[c] =>
                    Left(call'[c]) < Left(call[c])]_vars
<1>1. LockInv /\ [Next]_vars =>
        [\A c \in Call :
           /\ Left(call[c]) \in 0..(2 * Tries + 1)
           /\ call[c].pc # "idle" /\ call'[c] # call[c] =>
                Left(call'[c]) < Left(call[c])]_vars
  BY StepUsesOne, LeftBounds DEF LockInv, TypeOK
<1>. QED
  BY <1>1, SpecLockInv, PTL DEF Spec

-----------------------------------------------------------------------------
(* The refinement of SyncCache.                                            *)

(* What the mapping makes of one call.                                     *)
LEMMA StageIs ==
  ASSUME NEW r \in Local
  PROVE  /\ r.pc = "idle" => StageOf(r) = [at |-> "away"]
         /\ r.pc = "waiting" => StageOf(r) = [at |-> "queued", key |-> KeyOf(r.args)]
         /\ r.pc \in Inside => StageOf(r) = [at |-> "running", key |-> KeyOf(r.args)]
         /\ r.pc = "returned" => StageOf(r) = [at |-> "served"]
         /\ r.pc \in {"failed", "dropped"} => StageOf(r) = [at |-> "unserved"]
BY DEF StageOf, Inside

LEMMA CallerIs ==
  ASSUME NEW c \in Call
  PROVE  callerOf[c] = StageOf(call[c])
BY DEF callerOf

(* A step of one call is a step of one caller.                             *)
LEMMA OneCaller ==
  ASSUME TypeOK, NEW c \in Call, NEW new,
         call' = [call EXCEPT ![c] = new]
  PROVE  Memo!Becomes(c, StageOf(new))
<1>1. call' = [d \in Call |-> IF d = c THEN new ELSE call[d]]
  BY DEF TypeOK
<1>2. callerOf' = [d \in Call |-> StageOf(call'[d])]
  BY DEF callerOf
<1>3. \A d \in Call : StageOf(call'[d]) = IF d = c THEN StageOf(new) ELSE StageOf(call[d])
  BY <1>1
<1>4. callerOf' = [d \in Call |-> IF d = c THEN StageOf(new) ELSE StageOf(call[d])]
  BY <1>2, <1>3
<1>. QED
  BY <1>4 DEF Memo!Becomes, callerOf

(* The entry of a key is fresh for the one as for the other.               *)
LEMMA FreshIs == \A k : Memo!Fresh(k) <=> Fresh(k)
BY DEF Memo!Fresh, Fresh, keptOf

LEMMA KeptStays ==
  ASSUME UNCHANGED <<now, cache>>
  PROVE  UNCHANGED <<now, keptOf>>
BY DEF keptOf

LEMMA EnterRefines ==
  ASSUME LockInv, NEW c \in Call, Enter(c)
  PROVE  Memo!Hit(c) \/ Memo!Run(c)
<1>. DEFINE k == KeyOf(call[c].args)
<1>1. /\ call[c].pc = "waiting" /\ lock = "free" /\ now' = now
      /\ call[c] \in Local /\ TypeOK
      /\ call[c].args \in Args
  BY ArgsOf DEF Enter, LockInv, TypeOK
<1>2. callerOf[c] = [at |-> "queued", key |-> k]
  BY <1>1, StageIs, CallerIs
<1>3. CASE Fresh(k) /\ Return(c, cache[k].token) /\ UNCHANGED <<cache, lock>>
  <2>. DEFINE new == [pc |-> "returned", args |-> call[c].args,
                      token |-> cache[k].token]
  <2>1. cache[k].token \in Token
    BY <1>3 DEF LockInv, TypeOK, Fresh, Entry
  <2>2. new \in Local /\ new.pc = "returned"
    BY <1>1, <2>1 DEF Local
  <2>3. call' = [call EXCEPT ![c] = new]
    BY <1>3 DEF Return
  <2>. HIDE DEF new
  <2>4. Memo!Becomes(c, [at |-> "served"])
    BY <1>1, <2>2, <2>3, OneCaller, StageIs
  <2>5. UNCHANGED <<now, keptOf>>
    BY <1>1, <1>3, KeptStays
  <2>. QED
    BY <1>2, <1>3, <2>4, <2>5, FreshIs DEF Memo!Hit
<1>4. CASE /\ ~Fresh(k)
           /\ cache' = [j \in DOMAIN cache \ {k} |-> cache[j]]
           /\ lock' = c
           /\ call' = [call EXCEPT ![c] =
                [pc |-> "asking", args |-> call[c].args, count |-> 0]]
  <2>. DEFINE new == [pc |-> "asking", args |-> call[c].args, count |-> 0]
  <2>1. new \in Local /\ new.pc \in Inside /\ new.args = call[c].args
    BY <1>1, TokenAssumption DEF Local, Inside
  <2>2. call' = [call EXCEPT ![c] = new]
    BY <1>4
  <2>. HIDE DEF new
  <2>3. Memo!Becomes(c, [at |-> "running", key |-> k])
    BY <1>1, <2>1, <2>2, OneCaller, StageIs
  <2>4. \A d \in Call : callerOf[d].at # "running"
    <3>. TAKE d \in Call
    <3>1. call[d] \in Local /\ call[d].pc \notin Inside
      BY <1>1, TokenAssumption DEF LockInv, HolderRuns, TypeOK
    <3>2. call[d].pc \in {"idle", "waiting", "returned", "failed", "dropped"}
      BY <3>1 DEF Local, Inside
    <3>. QED
      BY <3>1, <3>2, StageIs, CallerIs
  <2>5. keptOf' = [j \in DOMAIN keptOf \ {k} |-> keptOf[j]]
    BY <1>4 DEF keptOf
  <2>. QED
    BY <1>1, <1>2, <1>4, <2>3, <2>4, <2>5, FreshIs DEF Memo!Run
<1>. QED
  BY <1>3, <1>4 DEF Enter

LEMMA ArriveRefines ==
  ASSUME LockInv, NEW c \in Call, Arrive(c)
  PROVE  Memo!Keep(c)
<1>. DEFINE k == KeyOf(call[c].args)
            entry == [token |-> call[c].token, set_at |-> now]
            new == [pc |-> "returned", args |-> call[c].args, token |-> call[c].token]
<1>1. /\ call[c].pc = "granted" /\ now' = now
      /\ call[c] \in Local /\ TypeOK
      /\ call[c].args \in Args /\ call[c].token \in Token
  BY ArgsOf, GrantedRecord DEF Arrive, LockInv, Inside, TypeOK
<1>2. PICK keep \in Room(k) :
        cache' = [j \in keep |-> IF j = k THEN entry ELSE cache[j]]
  BY DEF Arrive
<1>3. callerOf[c] = [at |-> "running", key |-> k]
  BY <1>1, StageIs, CallerIs DEF Inside
<1>4. new \in Local /\ new.pc = "returned" /\ call' = [call EXCEPT ![c] = new]
  BY <1>1 DEF Local, Arrive, Return
<1>. HIDE DEF new
<1>5. Memo!Becomes(c, [at |-> "served"])
  BY <1>1, <1>4, OneCaller, StageIs
<1>6. k \in keep /\ keep \subseteq DOMAIN cache \cup {k}
  BY DEF Room
<1>. DEFINE stay == keep \ {k}
<1>7. stay \in SUBSET DOMAIN keptOf /\ keep = stay \cup {k}
  BY <1>6 DEF keptOf
<1>8. keptOf' = [j \in keep |-> IF j = k THEN now ELSE keptOf[j]]
  BY <1>2, <1>6 DEF keptOf
<1>. HIDE DEF stay
<1>. QED
  BY <1>1, <1>3, <1>5, <1>7, <1>8 DEF Memo!Keep

LEMMA GivesUp ==
  ASSUME TypeOK, NEW c \in Call, call[c].pc \in {"waiting"} \cup Inside,
         NEW new \in Local, new.pc \in {"failed", "dropped"},
         call' = [call EXCEPT ![c] = new], UNCHANGED <<now, cache>>
  PROVE  Memo!GiveUp(c)
<1>1. call[c] \in Local
  BY DEF TypeOK
<1>2. callerOf[c].at \in {"queued", "running"}
  BY <1>1, StageIs, CallerIs
<1>3. Memo!Becomes(c, [at |-> "unserved"])
  BY OneCaller, StageIs
<1>. QED
  BY <1>2, <1>3, KeptStays DEF Memo!GiveUp

LEMMA Retries ==
  ASSUME LockInv, NEW c \in Call, call[c].pc \in Inside,
         NEW new \in Local, new.pc \in Inside, new.args = call[c].args,
         call' = [call EXCEPT ![c] = new], UNCHANGED <<now, cache>>
  PROVE  UNCHANGED <<now, keptOf, callerOf>>
<1>1. call[c] \in Local /\ TypeOK /\ call' \in [Call -> Local]
  BY DEF LockInv, TypeOK
<1>2. StageOf(new) = StageOf(call[c])
  BY <1>1, StageIs
<1>3. \A d \in Call : StageOf(call'[d]) = StageOf(call[d])
  BY <1>1, <1>2 DEF TypeOK
<1>4. callerOf' = callerOf
  BY <1>3 DEF callerOf
<1>. QED
  BY <1>4, KeptStays

LEMMA OtherStepRefines ==
  ASSUME LockInv, NEW c \in Call,
         (\E args \in Args : Begin(c, args)) \/ Grant(c) \/ RateLimited(c)
           \/ Refused(c) \/ Awake(c) \/ Drop(c)
  PROVE  \/ Memo!GiveUp(c) \/ \E k \in Key : Memo!Ask(c, k)
         \/ UNCHANGED <<now, keptOf, callerOf>>
<1>0. TypeOK /\ call[c] \in Local
  BY DEF LockInv, TypeOK
<1>1. ASSUME NEW args \in Args, Begin(c, args)
      PROVE  \E k \in Key : Memo!Ask(c, k)
  <2>. DEFINE new == [pc |-> "waiting", args |-> args]
  <2>1. new \in Local /\ new.pc = "waiting" /\ new.args = args
    BY DEF Local
  <2>2. call[c].pc = "idle" /\ call' = [call EXCEPT ![c] = new] /\ UNCHANGED <<now, cache>>
    BY <1>1 DEF Begin
  <2>. HIDE DEF new
  <2>3. KeyOf(args) \in Key
    BY DEF Args, KeyOf, Key
  <2>4. callerOf[c].at = "away"
    BY <1>0, <2>2, StageIs, CallerIs
  <2>5. Memo!Becomes(c, [at |-> "queued", key |-> KeyOf(args)])
    BY <1>0, <2>1, <2>2, OneCaller, StageIs
  <2>. QED
    BY <2>2, <2>3, <2>4, <2>5, KeptStays DEF Memo!Ask
<1>2. CASE RateLimited(c)
  <2>. DEFINE new == [call[c] EXCEPT !.pc = "sleeping"]
  <2>1. call[c] \in [pc : Trying, args : Args, count : 0..(Tries - 1)]
    BY <1>0, <1>2, TryingRecord DEF RateLimited, Trying
  <2>2. /\ new \in Local /\ new.args = call[c].args
        /\ call[c].pc \in Inside /\ new.pc \in Inside
    BY <2>1 DEF Local, Inside, Trying
  <2>3. call' = [call EXCEPT ![c] = new] /\ UNCHANGED <<now, cache>>
    BY <1>2 DEF RateLimited
  <2>. HIDE DEF new
  <2>. QED
    BY <2>2, <2>3, Retries
<1>3. ASSUME call[c].pc \in Inside, Fail(c), UNCHANGED <<now, cache>>
      PROVE  Memo!GiveUp(c)
  <2>. DEFINE new == [pc |-> "failed", args |-> call[c].args]
  <2>1. new \in Local /\ new.pc = "failed"
    BY <1>0, <1>3, ArgsOf DEF Local
  <2>2. call' = [call EXCEPT ![c] = new]
    BY <1>3 DEF Fail
  <2>. HIDE DEF new
  <2>. QED
    BY <1>0, <1>3, <2>1, <2>2, GivesUp
<1>4. CASE Refused(c)
  BY <1>3, <1>4 DEF Refused, Inside
<1>5. CASE Awake(c)
  <2>1. call[c].pc = "sleeping" /\ UNCHANGED <<now, cache>>
    BY <1>5 DEF Awake
  <2>2. CASE Fail(c)
    BY <1>3, <2>1, <2>2 DEF Inside
  <2>3. CASE /\ call[c].count + 1 < Tries
             /\ call' = [call EXCEPT ![c].pc = "asking", ![c].count = @ + 1]
    <3>. DEFINE new == [call[c] EXCEPT !.pc = "asking", !.count = @ + 1]
    <3>1. call[c] \in [pc : Trying, args : Args, count : 0..(Tries - 1)]
      BY <1>0, <2>1, TryingRecord DEF Trying
    <3>2. call[c].count \in Nat /\ call[c].count + 1 \in 0..(Tries - 1)
      BY <2>3, <3>1, TokenAssumption
    <3>3. new \in [pc : {"asking", "sleeping"}, args : Args, count : 0..(Tries - 1)]
          /\ new.pc = "asking" /\ new.args = call[c].args
      BY <3>1, <3>2
    <3>4. new \in Local
      BY <3>3 DEF Local
    <3>5. call' = [call EXCEPT ![c] = new]
      BY <1>0, <2>3 DEF TypeOK
    <3>. HIDE DEF new
    <3>. QED
      BY <2>1, <3>1, <3>3, <3>4, <3>5, Retries DEF Inside
  <2>. QED
    BY <1>5, <2>2, <2>3 DEF Awake
<1>6. CASE Drop(c)
  <2>. DEFINE new == [pc |-> "dropped"]
  <2>1. new \in Local /\ new.pc = "dropped"
    BY DEF Local
  <2>2. /\ call' = [call EXCEPT ![c] = new] /\ UNCHANGED <<now, cache>>
        /\ call[c].pc \in {"waiting"} \cup Inside
    BY <1>6 DEF Drop, Inside
  <2>. HIDE DEF new
  <2>. QED
    BY <1>0, <2>1, <2>2, GivesUp
<1>7. CASE Grant(c)
  BY <1>0, <1>7, GrantedIs, Retries DEF Inside
<1>. QED
  BY <1>1, <1>2, <1>4, <1>5, <1>6, <1>7

LEMMA StepRefines ==
  ASSUME LockInv, [Next]_vars
  PROVE  [Memo!Next]_(Memo!vars)
<1>1. CASE UNCHANGED vars
  BY <1>1 DEF vars, Memo!vars, keptOf, callerOf
<1>2. CASE Tick
  <2>1. UNCHANGED <<keptOf, callerOf>>
    BY <1>2 DEF Tick, keptOf, callerOf
  <2>2. Memo!Tick
    BY <1>2, <2>1 DEF Tick, Memo!Tick
  <2>. QED
    BY <2>2 DEF Memo!Next
<1>3. ASSUME NEW c \in Call, Enter(c) \/ Arrive(c)
      PROVE  Memo!Next
  BY <1>3, EnterRefines, ArriveRefines DEF Memo!Next
<1>4. ASSUME NEW c \in Call,
             (\E args \in Args : Begin(c, args)) \/ Grant(c) \/ RateLimited(c)
               \/ Refused(c) \/ Awake(c) \/ Drop(c)
      PROVE  [Memo!Next]_(Memo!vars)
  BY <1>4, OtherStepRefines DEF Memo!Next, Memo!vars
<1>. QED
  BY <1>1, <1>2, <1>3, <1>4 DEF Next, Answer

(* The function is a SyncCache for any number of calls, whatever its tries *)
(* come to: one call at a time asks a platform, only for want of a fresh   *)
(* token, and a call that fails, gives up or is dropped holds up nobody.   *)
THEOREM TokensAreMemoized == Spec => ImplementsSyncCache
<1>1. Init => Memo!Init
  BY StageIs DEF Init, Memo!Init, keptOf, callerOf, Local
<1>2. LockInv /\ [Next]_vars => [Memo!Next]_(Memo!vars)
  BY StepRefines
<1>. QED
  BY <1>1, <1>2, SpecLockInv, PTL DEF Spec, ImplementsSyncCache, Memo!Spec

=============================================================================

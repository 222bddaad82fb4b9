--------------------------- MODULE ToolKeysProofs ---------------------------
(***************************************************************************)
(* What ToolKeys guarantees for any number of servers, any limits and any  *)
(* order of created_at.                                                    *)
(***************************************************************************)
EXTENDS ToolKeys, FiniteSetTheorems, TLAPS

(* A server that is about to make a key has made none; one that serves has *)
(* found or made one.                                                      *)
MakingHasNone ==
  \A p \in Process : server[p].pc \in {"generating", "inserting"} =>
    \A k \in DOMAIN keys : keys[k].by # p

ServingFoundKey ==
  \A p \in Process : server[p].pc = "serving" => keys # <<>>

KeyInv == TypeOK /\ OneKeyPerServer /\ MakingHasNone /\ ServingFoundKey

LEMMA KeysAreFinite ==
  ASSUME KeyInv
  PROVE  /\ Len(keys) \in Nat /\ IsFiniteSet(DOMAIN keys)
         /\ Cardinality(DOMAIN keys) = Len(keys)
<1>1. Len(keys) \in Nat /\ DOMAIN keys = 1..Len(keys)
  BY DEF KeyInv, TypeOK
<1>2. \A n \in Nat : IsFiniteSet(1..n) /\ Cardinality(1..n) = n
  <2> SUFFICES ASSUME NEW n \in Nat
               PROVE  IsFiniteSet(1..n) /\ Cardinality(1..n) = n
    OBVIOUS
  <2>1. /\ IsFiniteSet(1..n)
        /\ Cardinality(1..n) = IF 1 > n THEN 0 ELSE n - 1 + 1
    BY FS_Interval
  <2>. QED
    BY <2>1
<1>. QED
  BY <1>1, <1>2

LEMMA MakingIsFinite ==
  IsFiniteSet(Making) /\ Cardinality(Making) \in Nat
<1>1. Making \in SUBSET Process
  BY DEF Making
<1>. QED
  BY <1>1, KeyAssumption, FS_Subset, FS_CardinalityType

LEMMA RivalsAreNat ==
  ASSUME KeyInv, NEW k \in DOMAIN keys
  PROVE  /\ IsFiniteSet(NotOlder(k)) /\ Cardinality(NotOlder(k)) \in Nat
         /\ Rivals(k) \in Nat
<1>1. NotOlder(k) \in SUBSET (DOMAIN keys)
  BY DEF NotOlder
<1>. QED
  BY <1>1, KeysAreFinite, MakingIsFinite, FS_Subset, FS_CardinalityType DEF Rivals

LEMMA InitKeyInv == Init => KeyInv
BY KeyAssumption
   DEF Init, KeyInv, TypeOK, OneKeyPerServer, MakingHasNone, ServingFoundKey,
       Local

(* A step of one server that leaves the table alone.                       *)
LEMMA ServerStep ==
  ASSUME KeyInv, UNCHANGED <<keys, signed>>, NEW p \in Process,
         NEW new \in Local, server' = [server EXCEPT ![p] = new],
         new.pc \in {"generating", "inserting"} =>
           \A k \in DOMAIN keys : keys[k].by # p,
         new.pc = "serving" => keys # <<>>
  PROVE  KeyInv'
BY DEF KeyInv, TypeOK, OneKeyPerServer, MakingHasNone, ServingFoundKey

LEMMA InsertStep ==
  ASSUME KeyInv, NEW p \in Process, Insert(p)
  PROVE  KeyInv'
<1> DEFINE row == [created_at |-> server[p].created_at, by |-> p]
           id == Len(keys) + 1
<1>1. server[p] \in Local /\ server[p].created_at \in 0..MaxTime
  BY DEF KeyInv, TypeOK, Local, Insert
<1>2. row \in Key
  BY <1>1 DEF Key
<1>3. keys \in Seq(Key) /\ Len(keys) \in Nat /\ keys' = Append(keys, row)
  BY DEF KeyInv, TypeOK, Insert
<1>4. /\ keys' \in Seq(Key) /\ keys' # <<>> /\ DOMAIN keys' = 1..id
      /\ DOMAIN keys = 1..Len(keys) /\ keys'[id] = row
      /\ \A k \in DOMAIN keys : keys'[k] = keys[k]
  BY <1>2, <1>3
<1>5. \A k \in DOMAIN keys' : k \in DOMAIN keys \/ k = id
  BY <1>3, <1>4
<1>6. \A k \in DOMAIN keys : keys[k].by # p
  BY DEF KeyInv, MakingHasNone, Insert
<1>7. PICK pc \in {"serving", "down"} : server' = [server EXCEPT ![p] = [pc |-> pc]]
  BY DEF Insert
<1>8. TypeOK'
  BY <1>3, <1>4, <1>7 DEF KeyInv, TypeOK, Local, Insert
<1>9. OneKeyPerServer'
  BY <1>4, <1>5, <1>6 DEF KeyInv, OneKeyPerServer
<1>10. MakingHasNone'
  BY <1>4, <1>5, <1>7 DEF KeyInv, TypeOK, MakingHasNone
<1>11. ServingFoundKey'
  BY <1>4 DEF ServingFoundKey
<1>. QED
  BY <1>8, <1>9, <1>10, <1>11 DEF KeyInv

LEMMA NextKeyInv == KeyInv /\ [Next]_vars => KeyInv'
<1> SUFFICES ASSUME KeyInv, [Next]_vars PROVE KeyInv'
  OBVIOUS
<1>1. CASE UNCHANGED vars
  BY <1>1 DEF vars, KeyInv, TypeOK, OneKeyPerServer, MakingHasNone,
              ServingFoundKey
<1>2. ASSUME NEW p \in Process, Ensure(p)
      PROVE  KeyInv'
  <2>1. CASE keys # <<>> /\ server' = [server EXCEPT ![p] = [pc |-> "serving"]]
    BY <1>2, <2>1, ServerStep DEF Ensure, Local
  <2>2. CASE keys = <<>> /\ server' = [server EXCEPT ![p] = [pc |-> "generating"]]
    <3>1. \A k \in DOMAIN keys : FALSE
      BY <2>2
    <3>. QED
      BY <1>2, <2>2, <3>1, ServerStep DEF Ensure, Local
  <2>. QED
    BY <1>2, <2>1, <2>2 DEF Ensure
<1>3. ASSUME NEW p \in Process, Stamp(p)
      PROVE  KeyInv'
  <2>1. PICK now \in 0..MaxTime :
          server' = [server EXCEPT ![p] = [pc |-> "inserting", created_at |-> now]]
    BY <1>3 DEF Stamp
  <2>2. \A k \in DOMAIN keys : keys[k].by # p
    BY <1>3 DEF KeyInv, MakingHasNone, Stamp
  <2>. QED
    BY <1>3, <2>1, <2>2, ServerStep DEF Stamp, Local
<1>4. ASSUME NEW p \in Process, Insert(p)
      PROVE  KeyInv'
  BY <1>4, InsertStep
<1>5. ASSUME NEW p \in Process, Stop(p)
      PROVE  KeyInv'
  BY <1>5, ServerStep DEF Stop, Local
<1>6. ASSUME NEW p \in Process, Sign(p)
      PROVE  KeyInv'
  <2>1. PICK S \in Newest(1) :
          signed' = signed \cup {[key |-> k, rivals |-> Rivals(k)] : k \in S}
    BY <1>6 DEF Sign
  <2>2. \A k \in S : k \in DOMAIN keys /\ Rivals(k) \in Nat
    BY RivalsAreNat DEF Newest
  <2>3. signed' \subseteq [key : DOMAIN keys, rivals : Nat]
    BY <2>1, <2>2 DEF KeyInv, TypeOK
  <2>. QED
    BY <1>6, <2>3 DEF Sign, KeyInv, TypeOK, OneKeyPerServer, MakingHasNone,
                      ServingFoundKey
<1>. QED
  BY <1>1, <1>2, <1>3, <1>4, <1>5, <1>6 DEF Next

LEMMA KeyInvHolds == Spec => []KeyInv
BY InitKeyInv, NextKeyInv, PTL DEF Spec

-----------------------------------------------------------------------------
(* The table, the servers and the signatures are what they should be.      *)
THEOREM TypeCorrect == Spec => []TypeOK
BY KeyInvHolds, PTL DEF KeyInv

(* However often servers start, stop and race, each inserts one key at     *)
(* most.                                                                   *)
THEOREM OneKey == Spec => []OneKeyPerServer
BY KeyInvHolds, PTL DEF KeyInv

(* A server that serves can sign.                                          *)
THEOREM CanSign == Spec => []ServingHasKey
<1>1. KeyInv => ServingHasKey
  <2> SUFFICES ASSUME KeyInv, NEW p \in Process, server[p].pc = "serving",
                      {} \in Newest(1)
               PROVE  FALSE
    BY DEF ServingHasKey
  <2>1. keys # <<>> /\ keys \in Seq(Key)
    BY DEF KeyInv, ServingFoundKey, TypeOK
  <2>2. Len(keys) \in Nat \ {0}
    BY <2>1
  <2>3. Cardinality({}) = 1
    BY <2>2 DEF Newest
  <2>. QED
    BY <2>3, FS_EmptySet
<1>. QED
  BY <1>1, KeyInvHolds, PTL

-----------------------------------------------------------------------------
(* The race for the limits.  Once a key has signed, its rivals never grow  *)
(* more: a server that inserts was already making a key, and nobody starts *)
(* to make one while there is any.                                         *)
RaceInv == KeyInv /\ \A t \in signed : Rivals(t.key) <= t.rivals

(* A step that inserts nothing and sends no server to make a key.          *)
LEMMA NoNewRival ==
  ASSUME RaceInv, UNCHANGED <<keys, signed>>, Making' \subseteq Making
  PROVE  \A t \in signed' : Rivals(t.key)' <= t.rivals
<1> SUFFICES ASSUME NEW t \in signed PROVE Rivals(t.key)' <= t.rivals
  OBVIOUS
<1>1. t.key \in DOMAIN keys /\ t.rivals \in Nat /\ Rivals(t.key) <= t.rivals
  BY DEF RaceInv, KeyInv, TypeOK
<1>2. NotOlder(t.key)' = NotOlder(t.key)
  BY DEF NotOlder
<1>3. Cardinality(NotOlder(t.key)) \in Nat
  BY <1>1, RivalsAreNat DEF RaceInv
<1>4. Cardinality(Making) \in Nat /\ Cardinality(Making') \in Nat
      /\ Cardinality(Making') <= Cardinality(Making)
  BY MakingIsFinite, FS_Subset, FS_CardinalityType DEF RaceInv
<1>. QED
  BY <1>1, <1>2, <1>3, <1>4 DEF Rivals

(* An insert makes one rival more, and one server less that is making.     *)
LEMMA RivalLands ==
  ASSUME RaceInv, NEW p \in Process, Insert(p)
  PROVE  \A t \in signed' : Rivals(t.key)' <= t.rivals
<1> DEFINE id == Len(keys) + 1
<1> SUFFICES ASSUME NEW t \in signed PROVE Rivals(t.key)' <= t.rivals
  BY DEF Insert
<1>1. t.key \in DOMAIN keys /\ t.rivals \in Nat /\ Rivals(t.key) <= t.rivals
  BY DEF RaceInv, KeyInv, TypeOK
<1>2. /\ DOMAIN keys = 1..Len(keys) /\ DOMAIN keys' = 1..id /\ Len(keys) \in Nat
      /\ \A k \in DOMAIN keys : keys'[k] = keys[k]
  BY DEF RaceInv, KeyInv, TypeOK, Insert
<1>3. NotOlder(t.key)' \subseteq NotOlder(t.key) \cup {id}
  BY <1>1, <1>2 DEF NotOlder
<1>4. /\ Cardinality(NotOlder(t.key)') \in Nat /\ Cardinality(NotOlder(t.key)) \in Nat
      /\ Cardinality(NotOlder(t.key)') <= Cardinality(NotOlder(t.key)) + 1
  <2>1. IsFiniteSet(NotOlder(t.key)) /\ Cardinality(NotOlder(t.key)) \in Nat
    BY <1>1, RivalsAreNat DEF RaceInv
  <2>2. /\ IsFiniteSet(NotOlder(t.key) \cup {id})
        /\ Cardinality(NotOlder(t.key) \cup {id}) <= Cardinality(NotOlder(t.key)) + 1
    <3> DEFINE N == NotOlder(t.key)
    <3>. HIDE DEF N, id
    <3>1. /\ IsFiniteSet(N \cup {id})
          /\ Cardinality(N \cup {id}) = IF id \in N THEN Cardinality(N) ELSE Cardinality(N) + 1
      BY <2>1, FS_AddElement DEF N
    <3>2. Cardinality(N) \in Nat
      BY <2>1 DEF N
    <3>. QED
      BY <3>1, <3>2 DEF N
  <2>3. /\ IsFiniteSet(NotOlder(t.key)')
        /\ Cardinality(NotOlder(t.key)') <= Cardinality(NotOlder(t.key) \cup {id})
    BY <1>3, <2>2, FS_Subset
  <2>. QED
    BY <2>1, <2>2, <2>3, FS_CardinalityType
<1>5. p \in Making /\ Making' = Making \ {p}
  <2>1. PICK pc \in {"serving", "down"} : server' = [server EXCEPT ![p] = [pc |-> pc]]
    BY DEF Insert
  <2>. QED
    BY <2>1 DEF Insert, Making, RaceInv, KeyInv, TypeOK
<1>6. Cardinality(Making) \in Nat /\ Cardinality(Making') = Cardinality(Making) - 1
  BY <1>5, MakingIsFinite, FS_RemoveElement, FS_CardinalityType DEF RaceInv
<1>. QED
  BY <1>1, <1>4, <1>6 DEF Rivals

LEMMA RaceInvStays == RaceInv /\ [Next]_vars => RaceInv'
<1> SUFFICES ASSUME RaceInv, [Next]_vars
             PROVE  \A t \in signed' : Rivals(t.key)' <= t.rivals
  BY NextKeyInv DEF RaceInv
<1>1. CASE UNCHANGED vars
  BY <1>1, NoNewRival DEF vars, Making
<1>2. ASSUME NEW p \in Process, Ensure(p)
      PROVE  \A t \in signed' : Rivals(t.key)' <= t.rivals
  <2>1. CASE keys = <<>>
    <3>1. signed = {}
      BY <2>1 DEF RaceInv, KeyInv, TypeOK
    <3>. QED
      BY <1>2, <3>1 DEF Ensure
  <2>2. CASE keys # <<>>
    <3>1. Making' \subseteq Making
      BY <1>2, <2>2 DEF Ensure, Making, RaceInv, KeyInv, TypeOK
    <3>. QED
      BY <1>2, <3>1, NoNewRival DEF Ensure
  <2>. QED
    BY <2>1, <2>2
<1>3. ASSUME NEW p \in Process, Stamp(p) \/ Stop(p)
      PROVE  \A t \in signed' : Rivals(t.key)' <= t.rivals
  <2>1. Making' \subseteq Making
    BY <1>3 DEF Stamp, Stop, Making, RaceInv, KeyInv, TypeOK
  <2>. QED
    BY <1>3, <2>1, NoNewRival DEF Stamp, Stop
<1>4. ASSUME NEW p \in Process, Insert(p)
      PROVE  \A t \in signed' : Rivals(t.key)' <= t.rivals
  BY <1>4, RivalLands
<1>5. ASSUME NEW p \in Process, Sign(p)
      PROVE  \A t \in signed' : Rivals(t.key)' <= t.rivals
  <2>1. PICK S \in Newest(1) :
          signed' = signed \cup {[key |-> k, rivals |-> Rivals(k)] : k \in S}
    BY <1>5 DEF Sign
  <2>2. \A k : Rivals(k)' = Rivals(k)
    BY <1>5 DEF Sign, Rivals, NotOlder, Making
  <2>3. \A t \in signed : Rivals(t.key)' <= t.rivals
    BY <2>2 DEF RaceInv
  <2>4. \A k \in S : Rivals(k)' <= Rivals(k)
    BY <2>2, RivalsAreNat DEF RaceInv, Newest
  <2>. QED
    BY <2>1, <2>3, <2>4
<1>. QED
  BY <1>1, <1>2, <1>3, <1>4, <1>5 DEF Next

LEMMA RaceInvHolds == Spec => []RaceInv
<1>1. Init => RaceInv
  BY InitKeyInv DEF Init, RaceInv
<1>. QED
  BY <1>1, RaceInvStays, PTL DEF Spec

(* A key with no more rivals than a query's limit is in the query's answer.*)
LEMMA AmongNewest ==
  ASSUME KeyInv, NEW n \in Nat \ {0}, NEW k \in DOMAIN keys, Rivals(k) <= n,
         NEW S \in Newest(n)
  PROVE  k \in S
<1> SUFFICES ASSUME k \notin S PROVE FALSE
  OBVIOUS
<1>1. S \subseteq DOMAIN keys /\ IsFiniteSet(S)
  BY KeysAreFinite, FS_Subset DEF Newest
<1>2. Cardinality(S) = n
  <2>1. Cardinality(S) # Len(keys)
    BY <1>1, KeysAreFinite, FS_Subset
  <2>. QED
    BY <2>1 DEF Newest
<1>3. S \subseteq NotOlder(k) \ {k} /\ k \in NotOlder(k)
  <2>1. \A j \in DOMAIN keys : keys[j].created_at \in Nat
    <3>1. \A j \in DOMAIN keys : keys[j] \in Key
      BY DEF KeyInv, TypeOK
    <3>. QED
      BY <3>1, KeyAssumption DEF Key
  <2>2. \A j \in S : keys[k].created_at <= keys[j].created_at
    BY DEF Newest
  <2>. QED
    BY <1>1, <2>1, <2>2 DEF NotOlder
<1>4. Cardinality(NotOlder(k) \ {k}) = Cardinality(NotOlder(k)) - 1
      /\ Cardinality(S) <= Cardinality(NotOlder(k) \ {k})
  BY <1>3, RivalsAreNat, FS_RemoveElement, FS_Subset
<1>5. Cardinality(NotOlder(k)) \in Nat /\ Cardinality(NotOlder(k)) <= n
  BY RivalsAreNat, MakingIsFinite, FS_CardinalityType DEF Rivals
<1>. QED
  BY <1>2, <1>4, <1>5

(* However many servers race, however their clocks differ and whenever     *)
(* they stop: every server verifies a token for ever, if get_key's limit   *)
(* admits the keys that were in the race when it was signed.               *)
THEOREM Verifies == Spec => []VerifiedUnlessOutraced
<1>1. RaceInv => VerifiedUnlessOutraced
  <2> SUFFICES ASSUME RaceInv, NEW t \in signed, t.rivals <= VerifyLimit,
                      NEW S \in Accepted
               PROVE  t.key \in S
    BY DEF VerifiedUnlessOutraced
  <2>1. t.key \in DOMAIN keys /\ t.rivals \in Nat /\ Rivals(t.key) <= t.rivals
    BY DEF RaceInv, KeyInv, TypeOK
  <2>2. Rivals(t.key) <= VerifyLimit
    BY <2>1, RivalsAreNat, KeyAssumption DEF RaceInv
  <2>. QED
    BY <2>1, <2>2, AmongNewest, KeyAssumption DEF RaceInv, Accepted
<1>. QED
  BY <1>1, RaceInvHolds, PTL

(* The same of what platforms find, and get_current_jwks's limit.          *)
THEOREM Publishes == Spec => []PublishedUnlessOutraced
<1>1. RaceInv => PublishedUnlessOutraced
  <2> SUFFICES ASSUME RaceInv, NEW t \in signed, t.rivals <= PublishLimit,
                      NEW S \in Published
               PROVE  t.key \in S
    BY DEF PublishedUnlessOutraced
  <2>1. t.key \in DOMAIN keys /\ t.rivals \in Nat /\ Rivals(t.key) <= t.rivals
    BY DEF RaceInv, KeyInv, TypeOK
  <2>2. Rivals(t.key) <= PublishLimit
    BY <2>1, RivalsAreNat, KeyAssumption DEF RaceInv
  <2>. QED
    BY <2>1, <2>2, AmongNewest, KeyAssumption DEF RaceInv, Published
<1>. QED
  BY <1>1, RaceInvHolds, PTL

-----------------------------------------------------------------------------
(* What happens to the table in the long run.                              *)

(* No server is between its look at the table and its insert.              *)
SettledTable ==
  keys # <<>> /\ \A p \in Process : server[p].pc \in {"down", "serving"}

LEMMA SettledStays ==
  ASSUME KeyInv, SettledTable, [Next]_vars
  PROVE  SettledTable' /\ UNCHANGED keys
<1>1. ASSUME NEW p \in Process, Stamp(p) \/ Insert(p)
      PROVE  FALSE
  BY <1>1 DEF SettledTable, Stamp, Insert
<1>2. ASSUME NEW p \in Process, Ensure(p) \/ Stop(p)
      PROVE  SettledTable' /\ UNCHANGED keys
  BY <1>2 DEF SettledTable, KeyInv, TypeOK, Ensure, Stop
<1>. QED
  BY <1>1, <1>2 DEF Next, vars, Sign, SettledTable

(* ensure_keys makes keys at the first start only: once the table has one  *)
(* and the race for it is over, no start, stop or crash of any server ever *)
(* adds another, so keys are never rotated.                                *)
THEOREM KeysSettle == Spec => [](SettledTable => [][UNCHANGED keys]_vars)
<1>1. KeyInv /\ SettledTable /\ [Next]_vars => SettledTable'
  BY SettledStays
<1>2. KeyInv /\ SettledTable /\ [Next]_vars => [UNCHANGED keys]_vars
  BY SettledStays
<1>. QED
  BY <1>1, <1>2, KeyInvHolds, PTL DEF Spec
=============================================================================

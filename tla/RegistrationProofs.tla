------------------------- MODULE RegistrationProofs -------------------------
(***************************************************************************)
(* What Registration guarantees for any number of processes, issuers and   *)
(* client ids, and any issuers to seed.                                    *)
(***************************************************************************)
EXTENDS Registration, TLAPS

InExchange == {"fetching", "storing"}

(* The serial gives every platform an id of its own.                       *)
UniqueIds ==
  /\ \A i \in DOMAIN platforms : platforms[i].id < next_id
  /\ \A i, j \in DOMAIN platforms : platforms[i].id = platforms[j].id => i = j

(* The part of the invariant that is about lti_platforms alone.            *)
PlatformsOK ==
  /\ DOMAIN platforms \subseteq Issuer
  /\ \A i \in DOMAIN platforms : platforms[i] \in PlatformRow
  /\ next_id \in 1..(MaxId + 1)
  /\ UniqueIds
  /\ OwnEndpoints

RegistrationsOK ==
  /\ DOMAIN registrations \subseteq Ids \X Client
  /\ \A k \in DOMAIN registrations : registrations[k] \in RegistrationRow

ClientsOK ==
  /\ clients \in SUBSET (Issuer \X Client)
  /\ lost \in SUBSET clients

(* An exchange knows a client that the platform knows, and stores what     *)
(* that platform said.                                                     *)
ExchangesOK ==
  \A p \in Process :
    /\ op[p].pc \in InExchange => <<op[p].issuer, op[p].client>> \in clients
    /\ op[p].pc = "storing" => op[p].urls = op[p].issuer

IInv ==
  /\ PlatformsOK
  /\ RegistrationsOK
  /\ ClientsOK
  /\ op \in [Process -> Local]
  /\ ExchangesOK
  /\ ClientsAreRecorded

LEMMA IInvTypeOK == IInv => TypeOK
BY DEF IInv, TypeOK, PlatformsOK, RegistrationsOK, ClientsOK

LEMMA InitIInv == Init => IInv
<1>. SUFFICES ASSUME Init PROVE IInv
  OBVIOUS
<1>1. PlatformsOK
  BY RegistrationAssumption DEF Init, PlatformsOK, UniqueIds, OwnEndpoints
<1>2. RegistrationsOK /\ ClientsOK
  BY DEF Init, RegistrationsOK, ClientsOK
<1>3. op \in [Process -> Local]
  BY DEF Init, Local
<1>4. ExchangesOK /\ ClientsAreRecorded
  BY DEF Init, ExchangesOK, ClientsAreRecorded, InExchange
<1>. QED
  BY <1>1, <1>2, <1>3, <1>4 DEF IInv

-----------------------------------------------------------------------------
(* The local states that steps start from.                                 *)

LEMMA ExchangeRecord ==
  ASSUME op \in [Process -> Local], NEW p \in Process, op[p].pc \in InExchange
  PROVE  /\ op[p].issuer \in Issuer /\ op[p].client \in Client
         /\ op[p].pc = "storing" => op[p].urls \in Issuer
BY DEF Local, InExchange

LEMMA SeedRecord ==
  ASSUME op \in [Process -> Local], NEW p \in Process,
         op[p].pc \in {"seed_find", "seed_create"}
  PROVE  op[p] \in [pc : {"seed_find", "seed_create"}, next : 1..Len(Seeds)]
BY DEF Local

LEMMA UpdatingRecord ==
  ASSUME op \in [Process -> Local], NEW p \in Process, op[p].pc = "updating"
  PROVE  op[p].issuer \in Issuer /\ op[p].name \in Name
BY DEF Local

LEMMA KeyRecord ==
  ASSUME op \in [Process -> Local], NEW p \in Process,
         op[p].pc \in {"creating", "setting_status", "setting_capabilities"}
  PROVE  /\ op[p].key \in Key
         /\ op[p].pc = "setting_status" => op[p].value \in Status
         /\ op[p].pc = "setting_capabilities" => op[p].value \in Capabilities
BY DEF Local

-----------------------------------------------------------------------------
(* Steps that keep what there is.                                          *)

(* No platform goes or changes its id.                                     *)
PlatformsKept ==
  /\ DOMAIN platforms \subseteq DOMAIN platforms'
  /\ \A i \in DOMAIN platforms : platforms'[i].id = platforms[i].id

LEMMA IdsKept ==
  ASSUME PlatformsKept PROVE Ids \subseteq Ids'
BY DEF PlatformsKept, Ids

LEMMA RecordedKept ==
  ASSUME PlatformsKept, DOMAIN registrations \subseteq DOMAIN registrations',
         NEW i, NEW c, Recorded(i, c)
  PROVE  Recorded(i, c)'
BY DEF PlatformsKept, Recorded

(* The rows stay, and no exchange begins or ends.                          *)
LEMMA GrowStep ==
  ASSUME IInv, PlatformsOK', RegistrationsOK', op' \in [Process -> Local],
         PlatformsKept, DOMAIN registrations \subseteq DOMAIN registrations',
         UNCHANGED <<clients, lost>>,
         \A p \in Process : op'[p] # op[p] =>
           op[p].pc \notin InExchange /\ op'[p].pc \notin InExchange
  PROVE  IInv'
<1>1. ClientsOK'
  BY DEF IInv, ClientsOK
<1>2. ExchangesOK'
  BY DEF IInv, ExchangesOK, InExchange
<1>3. ClientsAreRecorded'
  <2>. SUFFICES ASSUME NEW k \in clients \ lost
                PROVE  Exchanging(k[1], k[2])' \/ Recorded(k[1], k[2])'
    BY DEF ClientsAreRecorded
  <2>1. CASE Exchanging(k[1], k[2])
    BY <2>1 DEF Exchanging, InExchange
  <2>2. CASE Recorded(k[1], k[2])
    BY <2>2, RecordedKept
  <2>. QED
    BY <2>1, <2>2 DEF IInv, ClientsAreRecorded
<1>. QED
  BY <1>1, <1>2, <1>3 DEF IInv

(* One process moves, and the tables stay.                                 *)
LEMMA LocalStep ==
  ASSUME IInv, NEW p \in Process, NEW new \in Local,
         op' = [op EXCEPT ![p] = new],
         op[p].pc \notin InExchange, new.pc \notin InExchange,
         UNCHANGED <<platforms, registrations, next_id, clients, lost>>
  PROVE  IInv'
<1>1. PlatformsOK' /\ RegistrationsOK'
  BY DEF IInv, PlatformsOK, RegistrationsOK, UniqueIds, OwnEndpoints, Ids
<1>2. PlatformsKept
  BY DEF PlatformsKept
<1>3. op' \in [Process -> Local]
  BY DEF IInv
<1>4. \A q \in Process : op'[q] # op[q] =>
        op[q].pc \notin InExchange /\ op'[q].pc \notin InExchange
  BY DEF IInv
<1>. QED
  BY <1>1, <1>2, <1>3, <1>4, GrowStep

(* One process gets idle and has changed rows of one table.                *)
LEMMA IdleStep ==
  ASSUME IInv, NEW p \in Process, Idle(p), op[p].pc \notin InExchange,
         PlatformsOK', RegistrationsOK', PlatformsKept,
         DOMAIN registrations \subseteq DOMAIN registrations',
         UNCHANGED <<clients, lost>>
  PROVE  IInv'
<1>. DEFINE new == [pc |-> "idle"]
<1>1. new \in Local /\ new.pc \notin InExchange
  BY DEF Local, InExchange
<1>2. op' = [op EXCEPT ![p] = new]
  BY DEF Idle
<1>. HIDE DEF new
<1>3. op' \in [Process -> Local]
  BY <1>1, <1>2 DEF IInv
<1>4. \A q \in Process : op'[q] # op[q] =>
        op[q].pc \notin InExchange /\ op'[q].pc \notin InExchange
  BY <1>1, <1>2 DEF IInv
<1>. QED
  BY <1>3, <1>4, GrowStep

(* A new platform gets an id that no platform has.                         *)
LEMMA Insert ==
  ASSUME PlatformsOK, NEW i \in Issuer, i \notin DOMAIN platforms,
         NEW name \in Name, NEW urls \in {i, "static", "typed"},
         InsertPlatform(i, name, urls)
  PROVE  /\ PlatformsOK' /\ PlatformsKept /\ i \in DOMAIN platforms'
         /\ \A j \in DOMAIN platforms : platforms'[j] = platforms[j]
<1>. DEFINE row == [id |-> next_id, name |-> name, urls |-> urls]
<1>1. /\ next_id \in 1..MaxId /\ next_id' = next_id + 1
      /\ next_id' \in 1..(MaxId + 1)
  BY RegistrationAssumption DEF PlatformsOK, InsertPlatform
<1>2. row \in PlatformRow /\ row.id = next_id /\ row.urls = urls
  BY <1>1 DEF PlatformRow
<1>3. platforms' = [j \in DOMAIN platforms \cup {i} |->
                      IF j = i THEN row ELSE platforms[j]]
  BY DEF InsertPlatform, Put
<1>. HIDE DEF row
<1>4. /\ DOMAIN platforms' = DOMAIN platforms \cup {i}
      /\ platforms'[i] = row
      /\ \A j \in DOMAIN platforms : platforms'[j] = platforms[j]
  BY <1>3
<1>5. \A j \in DOMAIN platforms : platforms[j].id \in Nat
  BY DEF PlatformsOK, PlatformRow
<1>6. UniqueIds'
  BY <1>1, <1>2, <1>4, <1>5 DEF PlatformsOK, UniqueIds
<1>7. OwnEndpoints'
  BY <1>2, <1>4 DEF PlatformsOK, OwnEndpoints
<1>. QED
  BY <1>1, <1>2, <1>4, <1>6, <1>7 DEF PlatformsOK, PlatformsKept

(* A row that keeps its id.                                                *)
LEMMA Refresh ==
  ASSUME PlatformsOK, NEW i \in DOMAIN platforms, NEW name \in Name,
         NEW urls \in {i, "static", "typed"},
         platforms' = [platforms EXCEPT ![i].name = name, ![i].urls = urls],
         UNCHANGED next_id
  PROVE  PlatformsOK' /\ PlatformsKept
<1>1. i \in Issuer /\ platforms[i] \in PlatformRow
  BY DEF PlatformsOK
<1>. DEFINE row == [id |-> platforms[i].id, name |-> name, urls |-> urls]
<1>2. row \in PlatformRow /\ row.id = platforms[i].id /\ row.urls = urls
  BY <1>1 DEF PlatformRow
<1>3. /\ DOMAIN platforms' = DOMAIN platforms
      /\ platforms'[i] = row
      /\ \A j \in DOMAIN platforms \ {i} : platforms'[j] = platforms[j]
  BY <1>1 DEF PlatformRow
<1>. HIDE DEF row
<1>4. PlatformsKept
  BY <1>2, <1>3 DEF PlatformsKept
<1>5. UniqueIds'
  BY <1>2, <1>3 DEF PlatformsOK, UniqueIds
<1>6. OwnEndpoints'
  BY <1>2, <1>3 DEF PlatformsOK, OwnEndpoints
<1>. QED
  BY <1>2, <1>3, <1>4, <1>5, <1>6 DEF PlatformsOK

(* The registrations are of platforms that are still there.                *)
LEMMA RegistrationsStay ==
  ASSUME RegistrationsOK, PlatformsKept, UNCHANGED registrations
  PROVE  RegistrationsOK'
BY IdsKept DEF RegistrationsOK

-----------------------------------------------------------------------------
(* The end of a dynamic registration.                                      *)

(* The exchange of p begins, goes on or ends, and the rows stay.           *)
LEMMA RegisterToolStep ==
  IInv => \A p \in Process, i \in Issuer, c \in Client :
    RegisterTool(p, i, c) => IInv'
<1>. SUFFICES ASSUME IInv, NEW p \in Process, NEW i \in Issuer, NEW c \in Client,
                     RegisterTool(p, i, c)
              PROVE  IInv'
  OBVIOUS
<1>. DEFINE new == [pc |-> "fetching", issuer |-> i, client |-> c]
<1>1. /\ new \in Local /\ new.pc = "fetching"
      /\ new.issuer = i /\ new.client = c
  BY DEF Local
<1>2. /\ op[p].pc = "idle" /\ op' = [op EXCEPT ![p] = new]
      /\ clients' = clients \cup {<<i, c>>}
      /\ UNCHANGED <<platforms, registrations, next_id, lost>>
  BY DEF RegisterTool, Begin
<1>. HIDE DEF new
<1>3. PlatformsOK' /\ RegistrationsOK' /\ ClientsOK'
  BY <1>2 DEF IInv, PlatformsOK, RegistrationsOK, ClientsOK, UniqueIds,
              OwnEndpoints, Ids
<1>4. /\ op' \in [Process -> Local] /\ op'[p] = new
      /\ \A q \in Process \ {p} : op'[q] = op[q]
  BY <1>1, <1>2 DEF IInv
<1>5. ExchangesOK'
  BY <1>1, <1>2, <1>4 DEF IInv, ExchangesOK, InExchange
<1>6. ClientsAreRecorded'
  <2>. SUFFICES ASSUME NEW k \in clients' \ lost'
                PROVE  Exchanging(k[1], k[2])' \/ Recorded(k[1], k[2])'
    BY DEF ClientsAreRecorded
  <2>1. CASE k = <<i, c>>
    BY <2>1, <1>1, <1>4 DEF Exchanging
  <2>2. CASE k \in clients \ lost
    <3>1. CASE Exchanging(k[1], k[2])
      BY <3>1, <1>2, <1>4 DEF Exchanging
    <3>2. CASE Recorded(k[1], k[2])
      BY <3>2, <1>2 DEF Recorded
    <3>. QED
      BY <2>2, <3>1, <3>2 DEF IInv, ClientsAreRecorded
  <2>. QED
    BY <1>2, <2>1, <2>2
<1>. QED
  BY <1>3, <1>4, <1>5, <1>6 DEF IInv

LEMMA GiveUpStep ==
  ASSUME IInv, NEW p \in Process, op[p].pc \in InExchange, GiveUp(p),
         UNCHANGED <<platforms, registrations, next_id, clients>>
  PROVE  IInv'
<1>. DEFINE new == [pc |-> "idle"]
            mine == <<op[p].issuer, op[p].client>>
<1>1. new \in Local /\ new.pc = "idle"
  BY DEF Local
<1>2. /\ op' = [op EXCEPT ![p] = new]
      /\ lost' = lost \cup {k \in {mine} : ~Recorded(k[1], k[2])}
  BY DEF GiveUp, Idle
<1>. HIDE DEF new
<1>3. mine \in clients
  BY DEF IInv, ExchangesOK
<1>4. PlatformsOK' /\ RegistrationsOK' /\ ClientsOK'
  BY <1>2, <1>3 DEF IInv, PlatformsOK, RegistrationsOK, ClientsOK, UniqueIds,
                    OwnEndpoints, Ids
<1>5. /\ op' \in [Process -> Local] /\ op'[p] = new
      /\ \A q \in Process \ {p} : op'[q] = op[q]
  BY <1>1, <1>2 DEF IInv
<1>6. ExchangesOK'
  BY <1>1, <1>5 DEF IInv, ExchangesOK, InExchange
<1>7. ClientsAreRecorded'
  <2>. SUFFICES ASSUME NEW k \in clients \ lost', ~Recorded(k[1], k[2])
                PROVE  Exchanging(k[1], k[2])'
    BY DEF ClientsAreRecorded, Recorded
  <2>1. k # mine
    BY <1>2
  <2>2. Exchanging(k[1], k[2])
    BY <1>2 DEF IInv, ClientsAreRecorded
  <2>3. PICK q \in Process : /\ op[q].pc \in InExchange
                             /\ op[q].issuer = k[1] /\ op[q].client = k[2]
    BY <2>2 DEF Exchanging, InExchange
  <2>4. k = <<k[1], k[2]>>
    BY DEF IInv, ClientsOK
  <2>5. q # p
    BY <2>1, <2>3, <2>4
  <2>. QED
    BY <1>5, <2>3, <2>5 DEF Exchanging, InExchange
<1>. QED
  BY <1>4, <1>5, <1>6, <1>7 DEF IInv

LEMMA FetchConfigStep ==
  IInv => \A p \in Process, claimed \in Issuer : FetchConfig(p, claimed) => IInv'
<1>. SUFFICES ASSUME IInv, NEW p \in Process, NEW claimed \in Issuer,
                     FetchConfig(p, claimed)
              PROVE  IInv'
  OBVIOUS
<1>. DEFINE new == [pc |-> "storing", issuer |-> claimed,
                    client |-> op[p].client, urls |-> op[p].issuer]
<1>1. /\ op[p].pc = "fetching"
      /\ UNCHANGED <<platforms, registrations, next_id, clients>>
  BY DEF FetchConfig
<1>2. CASE claimed # op[p].issuer /\ GiveUp(p)
  BY <1>1, <1>2, GiveUpStep DEF InExchange
<1>3. CASE /\ claimed = op[p].issuer
           /\ op' = [op EXCEPT ![p] = new]
           /\ UNCHANGED lost
  <2>1. op[p].issuer \in Issuer /\ op[p].client \in Client
    BY <1>1, ExchangeRecord DEF IInv, InExchange
  <2>2. /\ new \in Local /\ new.pc = "storing" /\ new.issuer = op[p].issuer
        /\ new.client = op[p].client /\ new.urls = new.issuer
    BY <1>3, <2>1 DEF Local
  <2>. HIDE DEF new
  <2>3. PlatformsOK' /\ RegistrationsOK' /\ ClientsOK'
    BY <1>1, <1>3 DEF IInv, PlatformsOK, RegistrationsOK, ClientsOK, UniqueIds,
                      OwnEndpoints, Ids
  <2>4. /\ op' \in [Process -> Local] /\ op'[p] = new
        /\ \A q \in Process \ {p} : op'[q] = op[q]
    BY <1>3, <2>2 DEF IInv
  <2>5. ExchangesOK'
    BY <1>1, <2>2, <2>4 DEF IInv, ExchangesOK, InExchange
  <2>6. \A i, c : Exchanging(i, c) => Exchanging(i, c)'
    BY <1>1, <2>2, <2>4 DEF Exchanging
  <2>7. ClientsAreRecorded'
    BY <1>1, <1>3, <2>6 DEF IInv, ClientsAreRecorded, Recorded
  <2>. QED
    BY <2>3, <2>4, <2>5, <2>7 DEF IInv
<1>. QED
  BY <1>2, <1>3 DEF FetchConfig

(* Both upserts leave their row, and no row goes.                          *)
LEMMA UpsertedPlatform ==
  ASSUME PlatformsOK, NEW i \in Issuer, UpsertPlatform(i, i)
  PROVE  PlatformsOK' /\ PlatformsKept /\ i \in DOMAIN platforms'
<1>1. CASE i \in DOMAIN platforms /\ platforms' = [platforms EXCEPT ![i].urls = i]
           /\ UNCHANGED next_id
  <2>1. platforms[i] \in PlatformRow
    BY <1>1 DEF PlatformsOK
  <2>. DEFINE row == [id |-> platforms[i].id, name |-> platforms[i].name, urls |-> i]
  <2>2. row \in PlatformRow /\ row.id = platforms[i].id /\ row.urls = i
    BY <2>1 DEF PlatformRow
  <2>3. /\ DOMAIN platforms' = DOMAIN platforms
        /\ platforms'[i] = row
        /\ \A j \in DOMAIN platforms \ {i} : platforms'[j] = platforms[j]
    BY <1>1, <2>1 DEF PlatformRow
  <2>. HIDE DEF row
  <2>4. PlatformsKept
    BY <2>2, <2>3 DEF PlatformsKept
  <2>5. UniqueIds'
    BY <1>1, <2>2, <2>3 DEF PlatformsOK, UniqueIds
  <2>6. OwnEndpoints'
    BY <2>2, <2>3 DEF PlatformsOK, OwnEndpoints
  <2>. QED
    BY <1>1, <2>2, <2>3, <2>4, <2>5, <2>6 DEF PlatformsOK
<1>2. CASE i \notin DOMAIN platforms /\ InsertPlatform(i, None, i)
  BY <1>2, Insert DEF Name
<1>. QED
  BY <1>1, <1>2 DEF UpsertPlatform

LEMMA UpsertedRegistration ==
  ASSUME RegistrationsOK, PlatformsKept, NEW k \in Ids' \X Client,
         UpsertRegistration(k)
  PROVE  /\ RegistrationsOK'
         /\ DOMAIN registrations' = DOMAIN registrations \cup {k}
<1>1. DOMAIN registrations \subseteq Ids' \X Client
  BY IdsKept DEF RegistrationsOK
<1>2. CASE k \in DOMAIN registrations
  BY <1>1, <1>2
     DEF RegistrationsOK, RegistrationRow, UpsertRegistration, Status
<1>3. CASE k \notin DOMAIN registrations
  BY <1>1, <1>3
     DEF RegistrationsOK, RegistrationRow, UpsertRegistration, Put, Status,
         Capabilities
<1>. QED
  BY <1>2, <1>3

LEMMA StoreStep == IInv => \A p \in Process : Store(p) => IInv'
<1>. SUFFICES ASSUME IInv, NEW p \in Process, Store(p) PROVE IInv'
  OBVIOUS
<1>. DEFINE i == op[p].issuer
            c == op[p].client
            new == [pc |-> "idle"]
<1>1. /\ op[p].pc = "storing" /\ i \in Issuer /\ c \in Client
      /\ UpsertPlatform(i, i)
      /\ UpsertRegistration(<<platforms'[i].id, c>>)
      /\ lost' = lost \ {<<i, c>>} /\ clients' = clients
  BY ExchangeRecord DEF Store, IInv, ExchangesOK, InExchange
<1>2. new \in Local /\ new.pc = "idle" /\ op' = [op EXCEPT ![p] = new]
  BY DEF Local, Store, Idle
<1>. HIDE DEF new
<1>3. PlatformsOK' /\ PlatformsKept /\ i \in DOMAIN platforms'
  BY <1>1, UpsertedPlatform DEF IInv
<1>4. <<platforms'[i].id, c>> \in Ids' \X Client
  BY <1>1, <1>3 DEF Ids
<1>5. /\ RegistrationsOK'
      /\ DOMAIN registrations' =
           DOMAIN registrations \cup {<<platforms'[i].id, c>>}
  BY <1>1, <1>3, <1>4, UpsertedRegistration DEF IInv
<1>6. ClientsOK'
  BY <1>1 DEF IInv, ClientsOK
<1>7. /\ op' \in [Process -> Local] /\ op'[p] = new
      /\ \A q \in Process \ {p} : op'[q] = op[q]
  BY <1>2 DEF IInv
<1>8. ExchangesOK'
  BY <1>1, <1>2, <1>7 DEF IInv, ExchangesOK, InExchange
<1>9. ClientsAreRecorded'
  <2>. SUFFICES ASSUME NEW k \in clients \ lost'
                PROVE  Exchanging(k[1], k[2])' \/ Recorded(k[1], k[2])'
    BY <1>1 DEF ClientsAreRecorded
  <2>1. k = <<k[1], k[2]>>
    BY DEF IInv, ClientsOK
  <2>2. CASE k = <<i, c>>
    BY <2>2, <1>3, <1>5 DEF Recorded
  <2>3. CASE k # <<i, c>> /\ Recorded(k[1], k[2])
    BY <2>3, <1>3, <1>5, RecordedKept
  <2>4. CASE k # <<i, c>> /\ Exchanging(k[1], k[2])
    <3>1. PICK q \in Process : /\ op[q].pc \in InExchange
                               /\ op[q].issuer = k[1] /\ op[q].client = k[2]
      BY <2>4 DEF Exchanging, InExchange
    <3>2. q # p
      BY <2>1, <2>4, <3>1
    <3>. QED
      BY <1>7, <3>1, <3>2 DEF Exchanging, InExchange
  <2>. QED
    BY <1>1, <2>2, <2>3, <2>4 DEF IInv, ClientsAreRecorded
<1>. QED
  BY <1>3, <1>5, <1>6, <1>7, <1>8, <1>9 DEF IInv

-----------------------------------------------------------------------------
(* The seeding.                                                            *)

LEMMA SeedNextLocal ==
  ASSUME op \in [Process -> Local], NEW p \in Process,
         op[p].pc \in {"seed_find", "seed_create"}, SeedNext(p)
  PROVE  \E new \in Local : op' = [op EXCEPT ![p] = new] /\ new.pc \notin InExchange
<1>1. op[p].next \in 1..Len(Seeds) /\ Len(Seeds) \in Nat
  BY SeedRecord, RegistrationAssumption
<1>2. CASE op[p].next < Len(Seeds)
  <2>. DEFINE new == [pc |-> "seed_find", next |-> op[p].next + 1]
  <2>1. new \in Local /\ new.pc \notin InExchange
    BY <1>1, <1>2 DEF Local, InExchange
  <2>2. op' = [op EXCEPT ![p] = new]
    BY <1>2 DEF SeedNext
  <2>. HIDE DEF new
  <2>. QED
    BY <2>1, <2>2
<1>3. CASE ~(op[p].next < Len(Seeds))
  <2>. DEFINE new == [pc |-> "idle"]
  <2>1. new \in Local /\ new.pc \notin InExchange
    BY DEF Local, InExchange
  <2>2. op' = [op EXCEPT ![p] = new]
    BY <1>3 DEF SeedNext
  <2>. HIDE DEF new
  <2>. QED
    BY <2>1, <2>2
<1>. QED
  BY <1>2, <1>3

LEMMA SeedStep == IInv => \A p \in Process : Seed(p) => IInv'
<1>. SUFFICES ASSUME IInv, NEW p \in Process, Seed(p) PROVE IInv'
  OBVIOUS
<1>0. op \in [Process -> Local]
  BY DEF IInv
<1>1. CASE SeedBegin(p)
  <2>. DEFINE new == [pc |-> "seed_find", next |-> 1]
  <2>1. new \in Local /\ new.pc \notin InExchange
    BY <1>1, RegistrationAssumption DEF SeedBegin, Local, InExchange
  <2>2. /\ op[p].pc = "idle" /\ op' = [op EXCEPT ![p] = new]
        /\ UNCHANGED <<platforms, registrations, next_id, clients, lost>>
    BY <1>1 DEF SeedBegin, Begin
  <2>. HIDE DEF new
  <2>. QED
    BY <2>1, <2>2, LocalStep DEF InExchange
<1>2. CASE SeedFind(p)
  <2>1. /\ op[p].pc = "seed_find"
        /\ UNCHANGED <<platforms, registrations, next_id, clients, lost>>
    BY <1>2 DEF SeedFind
  <2>2. CASE SeedNext(p)
    BY <1>0, <2>1, <2>2, SeedNextLocal, LocalStep DEF InExchange
  <2>3. CASE op' = [op EXCEPT ![p].pc = "seed_create"]
    <3>. DEFINE new == [op[p] EXCEPT !.pc = "seed_create"]
    <3>1. op[p] \in [pc : {"seed_find", "seed_create"}, next : 1..Len(Seeds)]
      BY <1>0, <2>1, SeedRecord
    <3>2. new \in [pc : {"seed_find", "seed_create"}, next : 1..Len(Seeds)]
          /\ new.pc = "seed_create"
      BY <3>1
    <3>3. new \in Local
      BY <3>2 DEF Local
    <3>4. op' = [op EXCEPT ![p] = new]
      BY <2>3
    <3>. HIDE DEF new
    <3>. QED
      BY <2>1, <3>2, <3>3, <3>4, LocalStep DEF InExchange
  <2>. QED
    BY <1>2, <2>2, <2>3 DEF SeedFind
<1>3. CASE SeedCreate(p)
  <2>. DEFINE i == Seeds[op[p].next]
  <2>1. /\ op[p].pc = "seed_create" /\ SeedNext(p)
        /\ UNCHANGED <<registrations, clients, lost>>
    BY <1>3 DEF SeedCreate
  <2>2. i \in Issuer
    BY <1>0, <2>1, SeedRecord, RegistrationAssumption
  <2>3. PlatformsOK' /\ PlatformsKept
    <3>1. CASE i \notin DOMAIN platforms /\ InsertPlatform(i, "named", "static")
      BY <2>2, <3>1, Insert DEF IInv, Name
    <3>2. CASE UNCHANGED <<platforms, next_id>>
      BY <3>2 DEF IInv, PlatformsOK, PlatformsKept, UniqueIds, OwnEndpoints
    <3>. QED
      BY <1>3, <3>1, <3>2 DEF SeedCreate
  <2>4. RegistrationsOK'
    BY <2>1, <2>3, RegistrationsStay DEF IInv
  <2>5. PICK new \in Local : op' = [op EXCEPT ![p] = new] /\ new.pc \notin InExchange
    BY <1>0, <2>1, SeedNextLocal
  <2>6. op' \in [Process -> Local]
    BY <1>0, <2>5
  <2>7. \A q \in Process : op'[q] # op[q] =>
          op[q].pc \notin InExchange /\ op'[q].pc \notin InExchange
    BY <1>0, <2>1, <2>5 DEF InExchange
  <2>. QED
    BY <2>1, <2>3, <2>4, <2>6, <2>7, GrowStep
<1>. QED
  BY <1>1, <1>2, <1>3 DEF Seed

-----------------------------------------------------------------------------
(* The platform store.                                                     *)

LEMMA CreatePlatformStep ==
  IInv => \A i \in Issuer, name \in Name : CreatePlatform(i, name) => IInv'
<1>. SUFFICES ASSUME IInv, NEW i \in Issuer, NEW name \in Name,
                     CreatePlatform(i, name)
              PROVE  IInv'
  OBVIOUS
<1>1. PlatformsOK' /\ PlatformsKept
  BY Insert DEF IInv, CreatePlatform
<1>2. RegistrationsOK'
  BY <1>1, RegistrationsStay DEF IInv, CreatePlatform
<1>. QED
  BY <1>1, <1>2, GrowStep DEF CreatePlatform, IInv

LEMMA UpdatePlatformFindStep ==
  IInv => \A p \in Process, i \in Issuer, name \in Name :
    UpdatePlatformFind(p, i, name) => IInv'
<1>. SUFFICES ASSUME IInv, NEW p \in Process, NEW i \in Issuer, NEW name \in Name,
                     UpdatePlatformFind(p, i, name)
              PROVE  IInv'
  OBVIOUS
<1>. DEFINE new == [pc |-> "updating", issuer |-> i, id |-> platforms[i].id,
                    name |-> name]
<1>1. platforms[i].id \in 1..MaxId
  BY DEF IInv, PlatformsOK, PlatformRow, UpdatePlatformFind
<1>2. new \in Local /\ new.pc \notin InExchange
  BY <1>1 DEF Local, InExchange
<1>3. /\ op[p].pc = "idle" /\ op' = [op EXCEPT ![p] = new]
      /\ UNCHANGED <<platforms, registrations, next_id, clients, lost>>
  BY DEF UpdatePlatformFind, Begin
<1>. HIDE DEF new
<1>. QED
  BY <1>2, <1>3, LocalStep DEF InExchange

LEMMA UpdatePlatformStep == IInv => \A p \in Process : UpdatePlatform(p) => IInv'
<1>. SUFFICES ASSUME IInv, NEW p \in Process, UpdatePlatform(p) PROVE IInv'
  OBVIOUS
<1>1. /\ op[p].pc = "updating" /\ Idle(p)
      /\ UNCHANGED <<registrations, next_id, clients, lost>>
  BY DEF UpdatePlatform
<1>2. PlatformsOK' /\ PlatformsKept
  <2>1. CASE UNCHANGED platforms
    BY <1>1, <2>1 DEF IInv, PlatformsOK, PlatformsKept, UniqueIds, OwnEndpoints
  <2>2. ASSUME NEW i \in DOMAIN platforms,
               platforms' = [platforms EXCEPT ![i].name = op[p].name,
                                              ![i].urls = "typed"]
        PROVE  PlatformsOK' /\ PlatformsKept
    <3>1. op[p].name \in Name
      BY <1>1, UpdatingRecord DEF IInv
    <3>. QED
      BY <1>1, <2>2, <3>1, Refresh DEF IInv
  <2>. QED
    BY <2>1, <2>2 DEF UpdatePlatform
<1>3. RegistrationsOK'
  BY <1>1, <1>2, RegistrationsStay DEF IInv
<1>. QED
  BY <1>1, <1>2, <1>3, IdleStep DEF InExchange

(* What goes with the platform is its own, since ids are unique.           *)
LEMMA DeletePlatformStep ==
  IInv => \A i \in Issuer : DeletePlatform(i) => IInv'
<1>. SUFFICES ASSUME IInv, NEW i \in Issuer, DeletePlatform(i) PROVE IInv'
  OBVIOUS
<1>1. /\ i \in DOMAIN platforms
      /\ DOMAIN platforms' = DOMAIN platforms \ {i}
      /\ \A j \in DOMAIN platforms \ {i} : platforms'[j] = platforms[j]
      /\ lost' = lost \cup {k \in clients : k[1] = i}
      /\ UNCHANGED <<next_id, clients, op>>
  BY DEF DeletePlatform
<1>2. /\ DOMAIN registrations' =
           {k \in DOMAIN registrations : k[1] # platforms[i].id}
      /\ \A k \in DOMAIN registrations' : registrations'[k] = registrations[k]
  BY DEF DeletePlatform
<1>3. PlatformsOK'
  BY <1>1 DEF IInv, PlatformsOK, UniqueIds, OwnEndpoints
<1>4. RegistrationsOK'
  <2>1. ASSUME NEW k \in DOMAIN registrations' PROVE k \in Ids' \X Client
    <3>1. k \in Ids \X Client /\ k[1] # platforms[i].id
      BY <1>2 DEF IInv, RegistrationsOK
    <3>2. PICK j \in DOMAIN platforms : k[1] = platforms[j].id
      BY <3>1 DEF Ids
    <3>3. j \in DOMAIN platforms' /\ platforms'[j].id = k[1]
      BY <1>1, <3>1, <3>2
    <3>4. k[1] \in Ids'
      BY <3>3 DEF Ids
    <3>. QED
      BY <3>1, <3>4
  <2>. QED
    BY <1>2, <2>1 DEF IInv, RegistrationsOK
<1>5. ClientsOK' /\ ExchangesOK' /\ op' \in [Process -> Local]
  BY <1>1 DEF IInv, ClientsOK, ExchangesOK
<1>6. ClientsAreRecorded'
  <2>. SUFFICES ASSUME NEW k \in clients \ lost, k[1] # i,
                       ~Exchanging(k[1], k[2])
                PROVE  Recorded(k[1], k[2])'
    BY <1>1 DEF ClientsAreRecorded, Exchanging
  <2>1. Recorded(k[1], k[2])
    BY DEF IInv, ClientsAreRecorded
  <2>2. platforms[k[1]].id # platforms[i].id
    BY <1>1, <2>1 DEF Recorded, IInv, PlatformsOK, UniqueIds
  <2>. QED
    BY <1>1, <1>2, <2>1, <2>2 DEF Recorded
<1>. QED
  BY <1>3, <1>4, <1>5, <1>6 DEF IInv

-----------------------------------------------------------------------------
(* The registration store.                                                 *)

LEMMA FindStep ==
  IInv => \A p \in Process :
    \/ \E i \in Issuer, c \in Client : CreateFind(p, i, c)
    \/ \E k \in DOMAIN registrations, s \in Status : UpdateStatusFind(p, k, s)
    \/ \E k \in DOMAIN registrations, a \in Capabilities :
         UpdateCapabilitiesFind(p, k, a)
    => IInv'
<1>. SUFFICES ASSUME IInv, NEW p \in Process PROVE
       /\ \A i \in Issuer, c \in Client : CreateFind(p, i, c) => IInv'
       /\ \A k \in DOMAIN registrations, s \in Status :
            UpdateStatusFind(p, k, s) => IInv'
       /\ \A k \in DOMAIN registrations, a \in Capabilities :
            UpdateCapabilitiesFind(p, k, a) => IInv'
  OBVIOUS
<1>1. \A i \in DOMAIN platforms : platforms[i].id \in 1..MaxId
  BY DEF IInv, PlatformsOK, PlatformRow
<1>2. DOMAIN registrations \subseteq Key
  BY <1>1 DEF IInv, RegistrationsOK, Ids, Key
<1>3. ASSUME NEW i \in Issuer, NEW c \in Client, CreateFind(p, i, c) PROVE IInv'
  <2>. DEFINE new == [pc |-> "creating", key |-> <<platforms[i].id, c>>]
  <2>1. new \in Local /\ new.pc \notin InExchange
    BY <1>1, <1>3 DEF CreateFind, Local, Key, InExchange
  <2>2. /\ op[p].pc = "idle" /\ op' = [op EXCEPT ![p] = new]
        /\ UNCHANGED <<platforms, registrations, next_id, clients, lost>>
    BY <1>3 DEF CreateFind, Begin
  <2>. HIDE DEF new
  <2>. QED
    BY <2>1, <2>2, LocalStep DEF InExchange
<1>4. ASSUME NEW k \in DOMAIN registrations, NEW s \in Status,
             UpdateStatusFind(p, k, s)
      PROVE  IInv'
  <2>. DEFINE new == [pc |-> "setting_status", key |-> k, value |-> s]
  <2>1. new \in Local /\ new.pc \notin InExchange
    BY <1>2 DEF Local, InExchange
  <2>2. /\ op[p].pc = "idle" /\ op' = [op EXCEPT ![p] = new]
        /\ UNCHANGED <<platforms, registrations, next_id, clients, lost>>
    BY <1>4 DEF UpdateStatusFind, Begin
  <2>. HIDE DEF new
  <2>. QED
    BY <2>1, <2>2, LocalStep DEF InExchange
<1>5. ASSUME NEW k \in DOMAIN registrations, NEW a \in Capabilities,
             UpdateCapabilitiesFind(p, k, a)
      PROVE  IInv'
  <2>. DEFINE new == [pc |-> "setting_capabilities", key |-> k, value |-> a]
  <2>1. new \in Local /\ new.pc \notin InExchange
    BY <1>2 DEF Local, InExchange
  <2>2. /\ op[p].pc = "idle" /\ op' = [op EXCEPT ![p] = new]
        /\ UNCHANGED <<platforms, registrations, next_id, clients, lost>>
    BY <1>5 DEF UpdateCapabilitiesFind, Begin
  <2>. HIDE DEF new
  <2>. QED
    BY <2>1, <2>2, LocalStep DEF InExchange
<1>. QED
  BY <1>3, <1>4, <1>5

LEMMA RegistrationWriteStep ==
  IInv => \A p \in Process :
    \/ \E row \in RegistrationRow : CreateRegistration(p, row)
    \/ UpdateStatus(p)
    \/ UpdateCapabilities(p)
    => IInv'
<1>. SUFFICES ASSUME IInv, NEW p \in Process,
                     \/ \E row \in RegistrationRow : CreateRegistration(p, row)
                     \/ UpdateStatus(p)
                     \/ UpdateCapabilities(p)
              PROVE  IInv'
  OBVIOUS
<1>1. /\ op[p].pc \in {"creating", "setting_status", "setting_capabilities"}
      /\ Idle(p) /\ UNCHANGED <<platforms, next_id, clients, lost>>
  BY DEF CreateRegistration, UpdateStatus, UpdateCapabilities
<1>2. PlatformsOK' /\ PlatformsKept /\ Ids' = Ids
  BY <1>1 DEF IInv, PlatformsOK, PlatformsKept, UniqueIds, OwnEndpoints, Ids
<1>. DEFINE Grown ==
       RegistrationsOK' /\ DOMAIN registrations \subseteq DOMAIN registrations'
<1>3. ASSUME NEW row \in RegistrationRow, CreateRegistration(p, row) PROVE Grown
  <2>1. op[p].key \in Key
    BY <1>1, KeyRecord DEF IInv
  <2>. QED
    BY <1>2, <1>3, <2>1
       DEF CreateRegistration, Put, IInv, RegistrationsOK, Key
<1>4. ASSUME UpdateStatus(p) PROVE Grown
  <2>1. op[p].value \in Status
    BY <1>4, KeyRecord DEF IInv, UpdateStatus
  <2>. QED
    BY <1>2, <1>4, <2>1
       DEF UpdateStatus, IInv, RegistrationsOK, RegistrationRow
<1>5. ASSUME UpdateCapabilities(p) PROVE Grown
  <2>1. op[p].value \in Capabilities
    BY <1>5, KeyRecord DEF IInv, UpdateCapabilities
  <2>. QED
    BY <1>2, <1>5, <2>1
       DEF UpdateCapabilities, IInv, RegistrationsOK, RegistrationRow
<1>6. Grown
  BY <1>3, <1>4, <1>5
<1>. QED
  BY <1>1, <1>2, <1>6, IdleStep DEF InExchange

-----------------------------------------------------------------------------
LEMMA NextIInv == IInv /\ [Next]_vars => IInv'
<1>1. IInv /\ UNCHANGED vars => IInv'
  BY DEF vars, IInv, PlatformsOK, RegistrationsOK, ClientsOK, ExchangesOK,
         ClientsAreRecorded, UniqueIds, OwnEndpoints, Ids, Exchanging, Recorded
<1>2. ASSUME IInv, NEW p \in Process, Finish(p) PROVE IInv'
  <2>1. FinishFails(p) => IInv'
    BY <1>2, GiveUpStep DEF FinishFails, InExchange
  <2>. QED
    BY <1>2, <2>1, RegisterToolStep, FetchConfigStep, StoreStep DEF Finish
<1>3. ASSUME IInv, NEW p \in Process, Administer(p) PROVE IInv'
  BY <1>3, UpdatePlatformFindStep, UpdatePlatformStep, FindStep,
     RegistrationWriteStep DEF Administer
<1>4. IInv /\ Next => IInv'
  BY <1>2, <1>3, SeedStep, CreatePlatformStep, DeletePlatformStep DEF Next
<1>. QED
  BY <1>1, <1>4

LEMMA SpecIInv == Spec => []IInv
BY InitIInv, NextIInv, PTL DEF Spec

(* Both tables keep their types: registrations are of platforms that are   *)
(* there, and only clients that a platform registered can get lost.        *)
THEOREM TypeCorrect == Spec => []TypeOK
BY SpecIInv, IInvTypeOK, PTL

(* However exchanges, updates and seedings interleave, no platform's row   *)
(* has endpoints that another issuer's document gave.                      *)
THEOREM EndpointsAreOwn == Spec => []OwnEndpoints
<1>1. IInv => OwnEndpoints
  BY DEF IInv, PlatformsOK
<1>. QED
  BY <1>1, SpecIInv, PTL

(* The tool knows every client that a platform has registered for it,      *)
(* unless an exchange goes on or failed or the platform was deleted.       *)
THEOREM Recording == Spec => []ClientsAreRecorded
<1>1. IInv => ClientsAreRecorded
  BY DEF IInv
<1>. QED
  BY <1>1, SpecIInv, PTL

-----------------------------------------------------------------------------
(* The row a step changes: its platform's own.                             *)
ByItsOwn(i) ==
  \E p \in Process :
    /\ op'[p] # op[p]
    /\ \/ op[p].pc = "storing" /\ op[p].issuer = i
       \/ op[p].pc = "updating" /\ op[p].id = platforms[i].id
    /\ platforms'[i].id = platforms[i].id

LEMMA GoesIdle ==
  ASSUME op \in [Process -> Local], NEW p \in Process, Idle(p), op[p].pc # "idle"
  PROVE  /\ op'[p] # op[p] /\ op'[p].pc = "idle"
         /\ \A q \in Process \ {p} : op'[q] = op[q]
BY DEF Idle

LEMMA OwnUpdateStep ==
  ASSUME IInv, [Next]_vars, NEW i \in DOMAIN platforms \cap DOMAIN platforms',
         platforms'[i] # platforms[i]
  PROVE  ByItsOwn(i)
<1>0. op \in [Process -> Local] /\ platforms[i] \in PlatformRow
  BY DEF IInv, PlatformsOK
<1>1. ASSUME NEW j, NEW name, NEW urls, j \notin DOMAIN platforms,
             InsertPlatform(j, name, urls)
      PROVE  FALSE
  BY <1>1 DEF InsertPlatform, Put
<1>2. ~UNCHANGED platforms
  OBVIOUS
<1>3. ASSUME NEW p \in Process, Store(p) PROVE ByItsOwn(i)
  <2>1. /\ op[p].pc = "storing" /\ Idle(p)
        /\ UpsertPlatform(op[p].issuer, op[p].urls)
    BY <1>3 DEF Store
  <2>2. platforms' = [platforms EXCEPT ![op[p].issuer].urls = op[p].urls]
    BY <1>1, <2>1 DEF UpsertPlatform
  <2>3. op[p].issuer = i /\ platforms'[i].id = platforms[i].id
    BY <1>0, <2>2 DEF PlatformRow
  <2>. QED
    BY <1>0, <2>1, <2>3, GoesIdle DEF ByItsOwn
<1>4. ASSUME NEW p \in Process, UpdatePlatform(p) PROVE ByItsOwn(i)
  <2>1. op[p].pc = "updating" /\ Idle(p)
    BY <1>4 DEF UpdatePlatform
  <2>2. PICK j \in DOMAIN platforms :
          /\ platforms[j].id = op[p].id
          /\ platforms' = [platforms EXCEPT ![j].name = op[p].name,
                                            ![j].urls = "typed"]
    BY <1>2, <1>4 DEF UpdatePlatform
  <2>3. j = i /\ platforms'[i].id = platforms[i].id
    BY <1>0, <2>2 DEF PlatformRow
  <2>. QED
    BY <1>0, <2>1, <2>2, <2>3, GoesIdle DEF ByItsOwn
<1>5. ASSUME NEW p \in Process, Finish(p) PROVE ByItsOwn(i)
  BY <1>2, <1>3, <1>5 DEF Finish, RegisterTool, FetchConfig, FinishFails
<1>6. ASSUME NEW p \in Process, Seed(p) PROVE ByItsOwn(i)
  BY <1>1, <1>2, <1>6 DEF Seed, SeedBegin, SeedFind, SeedCreate
<1>7. ASSUME NEW p \in Process, Administer(p) PROVE ByItsOwn(i)
  BY <1>2, <1>4, <1>7
     DEF Administer, UpdatePlatformFind, CreateFind, CreateRegistration,
         UpdateStatusFind, UpdateStatus, UpdateCapabilitiesFind, UpdateCapabilities
<1>8. ASSUME NEW j \in Issuer, NEW name \in Name, CreatePlatform(j, name)
      PROVE  ByItsOwn(i)
  BY <1>1, <1>8 DEF CreatePlatform
<1>9. ASSUME NEW j \in Issuer, DeletePlatform(j) PROVE ByItsOwn(i)
  BY <1>9 DEF DeletePlatform
<1>. QED
  BY <1>2, <1>5, <1>6, <1>7, <1>8, <1>9 DEF Next, vars

(* Only the registration of its issuer or the update that found this very  *)
(* row changes a platform, and no step gives a platform another id.        *)
THEOREM OnlyOwnUpdates == Spec => OnlyItsOwnUpdates
<1>1. IInv /\ [Next]_vars =>
        [\A i \in DOMAIN platforms \cap DOMAIN platforms' :
           platforms'[i] # platforms[i] => ByItsOwn(i)]_vars
  BY OwnUpdateStep
<1>2. Spec => [][\A i \in DOMAIN platforms \cap DOMAIN platforms' :
                   platforms'[i] # platforms[i] => ByItsOwn(i)]_vars
  BY <1>1, SpecIInv, PTL DEF Spec
<1>. QED
  BY <1>2 DEF OnlyItsOwnUpdates, ByItsOwn

(* A step of another process leaves p where it is.                         *)
LEMMA OnlyExchangeEnds ==
  ASSUME IInv, Next, NEW p \in Process, op[p].pc = "storing", op'[p].pc = "idle"
  PROVE  Store(p) \/ (FinishFails(p) /\ UNCHANGED <<platforms, registrations>>)
<1>0. op \in [Process -> Local] /\ op'[p] # op[p]
  BY DEF IInv
<1>1. ASSUME NEW q \in Process, q # p, op'[p] # op[p],
             Finish(q) \/ Seed(q) \/ Administer(q)
      PROVE  FALSE
  <2>1. Finish(q) => op'[p] = op[p]
    BY <1>0, <1>1 DEF Finish, RegisterTool, FetchConfig, Store, FinishFails,
                      GiveUp, Begin, Idle
  <2>2. Seed(q) => op'[p] = op[p]
    BY <1>0, <1>1 DEF Seed, SeedBegin, SeedFind, SeedCreate, SeedNext, Begin
  <2>3. Administer(q) => op'[p] = op[p]
    BY <1>0, <1>1
       DEF Administer, UpdatePlatformFind, UpdatePlatform, CreateFind,
           CreateRegistration, UpdateStatusFind, UpdateStatus,
           UpdateCapabilitiesFind, UpdateCapabilities, Begin, Idle
  <2>. QED
    BY <1>1, <2>1, <2>2, <2>3
<1>2. CASE Finish(p)
  BY <1>2 DEF Finish, RegisterTool, FetchConfig, FinishFails, Begin
<1>3. ~Seed(p) /\ ~Administer(p)
  BY DEF Seed, SeedBegin, SeedFind, SeedCreate, Begin, Administer,
         UpdatePlatformFind, UpdatePlatform, CreateFind, CreateRegistration,
         UpdateStatusFind, UpdateStatus, UpdateCapabilitiesFind,
         UpdateCapabilities
<1>4. /\ \A i \in Issuer, name \in Name : ~CreatePlatform(i, name)
      /\ \A i \in Issuer : ~DeletePlatform(i)
  BY <1>0 DEF CreatePlatform, DeletePlatform
<1>. QED
  BY <1>0, <1>1, <1>2, <1>3, <1>4 DEF Next

LEMMA StoreKeeps ==
  ASSUME IInv, NEW p \in Process, Store(p)
  PROVE  /\ \A i \in DOMAIN platforms : platforms'[i].name = platforms[i].name
         /\ \A k \in DOMAIN registrations :
              registrations'[k].capabilities = registrations[k].capabilities
<1>1. /\ \A i \in DOMAIN platforms : platforms[i] \in PlatformRow
      /\ \A k \in DOMAIN registrations : registrations[k] \in RegistrationRow
  BY DEF IInv, PlatformsOK, RegistrationsOK
<1>2. \A i \in DOMAIN platforms : platforms'[i].name = platforms[i].name
  BY <1>1 DEF Store, UpsertPlatform, InsertPlatform, Put, PlatformRow
<1>3. ASSUME NEW k, UpsertRegistration(k), NEW l \in DOMAIN registrations
      PROVE  registrations'[l].capabilities = registrations[l].capabilities
  BY <1>1, <1>3 DEF UpsertRegistration, Put, RegistrationRow
<1>. QED
  BY <1>2, <1>3 DEF Store

(* A registration that is repeated takes nothing from what an              *)
(* administrator has set since the first.                                  *)
THEOREM RegisteringAgain == Spec => RegisteringAgainKeeps
<1>. DEFINE Keeps ==
       \A p \in Process :
         op[p].pc = "storing" /\ op'[p].pc = "idle" =>
           /\ \A i \in DOMAIN platforms : platforms'[i].name = platforms[i].name
           /\ \A k \in DOMAIN registrations :
                registrations'[k].capabilities = registrations[k].capabilities
<1>1. IInv /\ [Next]_vars => [Keeps]_vars
  <2>. SUFFICES ASSUME IInv, Next, NEW p \in Process,
                       op[p].pc = "storing", op'[p].pc = "idle"
                PROVE
         /\ \A i \in DOMAIN platforms : platforms'[i].name = platforms[i].name
         /\ \A k \in DOMAIN registrations :
              registrations'[k].capabilities = registrations[k].capabilities
    BY DEF vars
  <2>. QED
    BY OnlyExchangeEnds, StoreKeeps
<1>. HIDE DEF Keeps
<1>2. Spec => [][Keeps]_vars
  BY <1>1, SpecIInv, PTL DEF Spec
<1>. QED
  BY <1>2 DEF Keeps, RegisteringAgainKeeps
=============================================================================

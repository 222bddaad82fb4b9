---------------------------- MODULE Registration ----------------------------
(***************************************************************************)
(* The tables lti_platforms and lti_registrations of atomic-decay and all  *)
(* that writes to them: the two stores, the seeding at start-up and the    *)
(* end of a dynamic registration.  A step is one statement, one fetch from *)
(* a platform, or the one transaction there is.                            *)
(*                                                                         *)
(* An issuer stands for its host, so that the comparison of the hosts of   *)
(* two URLs is the comparison of two issuers.  The endpoints in a row are  *)
(* modelled by where they come from.                                       *)
(***************************************************************************)
EXTENDS Naturals, Sequences

CONSTANTS
  Process,  \* handlers and starting servers
  Issuer,   \* platform issuers
  Client,   \* client ids, which each platform hands out on its own
  Seeds,    \* PLATFORM_DATA, the issuers to seed, in order
  MaxId     \* bound on the ids of platforms

ASSUME RegistrationAssumption ==
  /\ Seeds \in Seq(Issuer)
  /\ MaxId \in Nat
  /\ "static" \notin Issuer /\ "typed" \notin Issuer

VARIABLES
  platforms,      \* the row of each issuer that has one
  registrations,  \* the row of each <<platform_id, client_id>> that has one
  next_id,        \* the serial of lti_platforms
  clients,        \* the <<issuer, client id>> that platforms have registered
  op,             \* the local state of each process
  lost            \* history: the clients that a failed exchange or a deleted
                  \* platform left unknown to the tool

vars == <<platforms, registrations, next_id, clients, op, lost>>

-----------------------------------------------------------------------------
None == "none"
Name == {None, "named"}
Status == {"active", "revoked"}
Capabilities == {None, "granted"}

PlatformRow == [id : 1..MaxId, name : Name, urls : Issuer \cup {"static", "typed"}]

RegistrationRow == [status : Status, capabilities : Capabilities]

Key == (1..MaxId) \X Client

Local ==
  [pc : {"idle"}]
    \cup [pc : {"fetching"}, issuer : Issuer, client : Client]
    \cup [pc : {"storing"}, issuer : Issuer, client : Client, urls : Issuer]
    \cup [pc : {"seed_find", "seed_create"}, next : 1..Len(Seeds)]
    \cup [pc : {"updating"}, issuer : Issuer, id : 1..MaxId, name : Name]
    \cup [pc : {"creating"}, key : Key]
    \cup [pc : {"setting_status"}, key : Key, value : Status]
    \cup [pc : {"setting_capabilities"}, key : Key, value : Capabilities]

Ids == {platforms[i].id : i \in DOMAIN platforms}

TypeOK ==
  /\ DOMAIN platforms \subseteq Issuer
  /\ \A i \in DOMAIN platforms : platforms[i] \in PlatformRow
  /\ DOMAIN registrations \subseteq Ids \X Client
  /\ \A k \in DOMAIN registrations : registrations[k] \in RegistrationRow
  /\ next_id \in 1..(MaxId + 1)
  /\ clients \in SUBSET (Issuer \X Client)
  /\ op \in [Process -> Local]
  /\ lost \in SUBSET clients

Init ==
  /\ platforms = [i \in {} |-> None]
  /\ registrations = [k \in {} |-> None]
  /\ next_id = 1
  /\ clients = {}
  /\ op = [p \in Process |-> [pc |-> "idle"]]
  /\ lost = {}

Put(table, key, row) ==
  [k \in DOMAIN table \cup {key} |-> IF k = key THEN row ELSE table[k]]

Idle(p) == op' = [op EXCEPT ![p] = [pc |-> "idle"]]

Begin(p, local) ==
  /\ op[p].pc = "idle"
  /\ op' = [op EXCEPT ![p] = local]

Recorded(i, c) ==
  i \in DOMAIN platforms /\ <<platforms[i].id, c>> \in DOMAIN registrations

(* An exchange ends without a record, if it has not left one before.       *)
GiveUp(p) ==
  /\ Idle(p)
  /\ lost' = lost \cup {k \in {<<op[p].issuer, op[p].client>>} : ~Recorded(k[1], k[2])}

(* INSERT INTO lti_platforms; the callers know that the issuer has no row. *)
InsertPlatform(i, name, urls) ==
  /\ next_id <= MaxId
  /\ platforms' = Put(platforms, i, [id |-> next_id, name |-> name, urls |-> urls])
  /\ next_id' = next_id + 1

-----------------------------------------------------------------------------
(* registration_finish, for a form that register() made of i's document:   *)
(* the platform registers the tool and answers with a client id, a new one *)
(* or the one it gave before.                                              *)
RegisterTool(p, i, c) ==
  /\ Begin(p, [pc |-> "fetching", issuer |-> i, client |-> c])
  /\ clients' = clients \cup {<<i, c>>}
  /\ UNCHANGED <<platforms, registrations, next_id, lost>>

(* Slip: the issuer in the document is taken on its word.                  *)
FetchUnchecked(p, claimed) ==
  /\ op[p].pc = "fetching"
  /\ op' = [op EXCEPT ![p] = [pc |-> "storing", issuer |-> claimed,
                              client |-> op[p].client, urls |-> op[p].issuer]]
  /\ UNCHANGED <<platforms, registrations, next_id, clients, lost>>

(* i's document is fetched again; the issuer it claims has to be i.        *)
FetchConfig(p, claimed) ==
  /\ op[p].pc = "fetching"
  /\ \/ /\ claimed = op[p].issuer
        /\ op' = [op EXCEPT ![p] = [pc |-> "storing", issuer |-> claimed,
                                    client |-> op[p].client, urls |-> op[p].issuer]]
        /\ UNCHANGED lost
     \/ /\ claimed # op[p].issuer
        /\ GiveUp(p)
  /\ UNCHANGED <<platforms, registrations, next_id, clients>>

(* handle_platform_response: both rows are inserted or refreshed, in one   *)
(* transaction; the name and the capabilities of old rows stay.            *)
UpsertPlatform(i, urls) ==
  \/ /\ i \in DOMAIN platforms
     /\ platforms' = [platforms EXCEPT ![i].urls = urls]
     /\ UNCHANGED next_id
  \/ i \notin DOMAIN platforms /\ InsertPlatform(i, None, urls)

(* Slip: the insert's NULLs replace what was there.                        *)
UpsertRegistrationErasing(k) ==
  registrations' =
    Put(registrations, k, [status |-> "active", capabilities |-> None])

UpsertRegistration(k) ==
  registrations' =
    IF k \in DOMAIN registrations
    THEN [registrations EXCEPT ![k].status = "active"]
    ELSE Put(registrations, k, [status |-> "active", capabilities |-> None])

(* Slip: the upserts are not in one transaction, and the process stops     *)
(* between them.                                                           *)
StoreTorn(p) ==
  /\ op[p].pc = "storing"
  /\ UpsertPlatform(op[p].issuer, op[p].urls)
  /\ Idle(p)
  /\ UNCHANGED <<registrations, clients, lost>>

Store(p) ==
  /\ op[p].pc = "storing"
  /\ UpsertPlatform(op[p].issuer, op[p].urls)
  /\ UpsertRegistration(<<platforms'[op[p].issuer].id, op[p].client>>)
  /\ lost' = lost \ {<<op[p].issuer, op[p].client>>}
  /\ Idle(p)
  /\ UNCHANGED clients

(* A form without openid_configuration, a fetch or a transaction that      *)
(* fails, an answer without a client id, a dropped request: the platform   *)
(* has its registration, the tool has none.                                *)
FinishFails(p) ==
  /\ op[p].pc \in {"fetching", "storing"}
  /\ GiveUp(p)
  /\ UNCHANGED <<platforms, registrations, next_id, clients>>

-----------------------------------------------------------------------------
(* seed_platforms                                                          *)

SeedNext(p) ==
  op' = [op EXCEPT ![p] = IF op[p].next < Len(Seeds)
                          THEN [pc |-> "seed_find", next |-> op[p].next + 1]
                          ELSE [pc |-> "idle"]]

SeedBegin(p) ==
  /\ Seeds # <<>>
  /\ Begin(p, [pc |-> "seed_find", next |-> 1])
  /\ UNCHANGED <<platforms, registrations, next_id, clients, lost>>

(* A row that is found is skipped; an error of the query is not told from  *)
(* a missing row.                                                          *)
SeedFind(p) ==
  /\ op[p].pc = "seed_find"
  /\ \/ Seeds[op[p].next] \in DOMAIN platforms /\ SeedNext(p)
     \/ op' = [op EXCEPT ![p].pc = "seed_create"]
  /\ UNCHANGED <<platforms, registrations, next_id, clients, lost>>

(* The INSERT; that it fails, for the row's sake or another, is reported   *)
(* and passed over.                                                        *)
SeedCreate(p) ==
  /\ op[p].pc = "seed_create"
  /\ \/ /\ Seeds[op[p].next] \notin DOMAIN platforms
        /\ InsertPlatform(Seeds[op[p].next], "named", "static")
     \/ UNCHANGED <<platforms, next_id>>
  /\ SeedNext(p)
  /\ UNCHANGED <<registrations, clients, lost>>

-----------------------------------------------------------------------------
(* The platform store.                                                     *)

CreatePlatform(i, name) ==
  /\ i \notin DOMAIN platforms
  /\ InsertPlatform(i, name, "typed")
  /\ UNCHANGED <<registrations, clients, op, lost>>

UpdatePlatformFind(p, i, name) ==
  /\ i \in DOMAIN platforms
  /\ Begin(p, [pc |-> "updating", issuer |-> i, id |-> platforms[i].id, name |-> name])
  /\ UNCHANGED <<platforms, registrations, next_id, clients, lost>>

(* Slip: UPDATE ... WHERE issuer.                                          *)
UpdatePlatformByIssuer(p) ==
  /\ op[p].pc = "updating"
  /\ platforms' = [i \in DOMAIN platforms |->
                     IF i = op[p].issuer
                     THEN [platforms[i] EXCEPT !.name = op[p].name, !.urls = "typed"]
                     ELSE platforms[i]]
  /\ Idle(p)
  /\ UNCHANGED <<registrations, next_id, clients, lost>>

(* UPDATE ... WHERE id: an error if the row is gone, or if the query fails.*)
UpdatePlatform(p) ==
  /\ op[p].pc = "updating"
  /\ \/ \E i \in DOMAIN platforms :
          /\ platforms[i].id = op[p].id
          /\ platforms' = [platforms EXCEPT ![i].name = op[p].name, ![i].urls = "typed"]
     \/ UNCHANGED platforms
  /\ Idle(p)
  /\ UNCHANGED <<registrations, next_id, clients, lost>>

(* Slip: no ON DELETE CASCADE, and no foreign key to object.               *)
DeletePlatformOnly(i) ==
  /\ i \in DOMAIN platforms
  /\ platforms' = [j \in DOMAIN platforms \ {i} |-> platforms[j]]
  /\ lost' = lost \cup {k \in clients : k[1] = i}
  /\ UNCHANGED <<registrations, next_id, clients, op>>

(* The registrations of the platform go with it.                           *)
DeletePlatform(i) ==
  /\ i \in DOMAIN platforms
  /\ platforms' = [j \in DOMAIN platforms \ {i} |-> platforms[j]]
  /\ registrations' =
       [k \in {k \in DOMAIN registrations : k[1] # platforms[i].id} |-> registrations[k]]
  /\ lost' = lost \cup {k \in clients : k[1] = i}
  /\ UNCHANGED <<next_id, clients, op>>

-----------------------------------------------------------------------------
(* The registration store.                                                 *)

(* The client id may not be in use on any platform.                        *)
CreateFind(p, i, c) ==
  /\ i \in DOMAIN platforms
  /\ \A k \in DOMAIN registrations : k[2] # c
  /\ Begin(p, [pc |-> "creating", key |-> <<platforms[i].id, c>>])
  /\ UNCHANGED <<platforms, registrations, next_id, clients, lost>>

(* The INSERT has to satisfy the foreign key and the UNIQUE constraint.    *)
CreateRegistration(p, row) ==
  /\ op[p].pc = "creating"
  /\ \/ /\ op[p].key[1] \in Ids
        /\ op[p].key \notin DOMAIN registrations
        /\ registrations' = Put(registrations, op[p].key, row)
     \/ UNCHANGED registrations
  /\ Idle(p)
  /\ UNCHANGED <<platforms, next_id, clients, lost>>

(* Any row with the client id will do.  Rows go only with their platform,  *)
(* so a key that is found again is the row that was found.                 *)
UpdateStatusFind(p, k, status) ==
  /\ k \in DOMAIN registrations
  /\ Begin(p, [pc |-> "setting_status", key |-> k, value |-> status])
  /\ UNCHANGED <<platforms, registrations, next_id, clients, lost>>

UpdateStatus(p) ==
  /\ op[p].pc = "setting_status"
  /\ \/ /\ op[p].key \in DOMAIN registrations
        /\ registrations' = [registrations EXCEPT ![op[p].key].status = op[p].value]
     \/ UNCHANGED registrations
  /\ Idle(p)
  /\ UNCHANGED <<platforms, next_id, clients, lost>>

UpdateCapabilitiesFind(p, k, capabilities) ==
  /\ k \in DOMAIN registrations
  /\ Begin(p, [pc |-> "setting_capabilities", key |-> k, value |-> capabilities])
  /\ UNCHANGED <<platforms, registrations, next_id, clients, lost>>

UpdateCapabilities(p) ==
  /\ op[p].pc = "setting_capabilities"
  /\ \/ /\ op[p].key \in DOMAIN registrations
        /\ registrations' = [registrations EXCEPT ![op[p].key].capabilities = op[p].value]
     \/ UNCHANGED registrations
  /\ Idle(p)
  /\ UNCHANGED <<platforms, next_id, clients, lost>>

-----------------------------------------------------------------------------
Finish(p) ==
  \/ \E i \in Issuer, c \in Client : RegisterTool(p, i, c)
  \/ \E claimed \in Issuer : FetchConfig(p, claimed)
  \/ Store(p)
  \/ FinishFails(p)

Seed(p) == SeedBegin(p) \/ SeedFind(p) \/ SeedCreate(p)

Administer(p) ==
  \/ \E i \in Issuer, name \in Name : UpdatePlatformFind(p, i, name)
  \/ UpdatePlatform(p)
  \/ \E i \in Issuer, c \in Client : CreateFind(p, i, c)
  \/ \E row \in RegistrationRow : CreateRegistration(p, row)
  \/ \E k \in DOMAIN registrations, s \in Status : UpdateStatusFind(p, k, s)
  \/ UpdateStatus(p)
  \/ \E k \in DOMAIN registrations, a \in Capabilities : UpdateCapabilitiesFind(p, k, a)
  \/ UpdateCapabilities(p)

Next ==
  \/ \E p \in Process : Finish(p) \/ Seed(p) \/ Administer(p)
  \/ \E i \in Issuer, name \in Name : CreatePlatform(i, name)
  \/ \E i \in Issuer : DeletePlatform(i)

Spec == Init /\ [][Next]_vars

-----------------------------------------------------------------------------
(* A launch verifies with the keys of its own issuer: the endpoints in a   *)
(* row are those of the issuer's own document, or an administrator's, or   *)
(* the static ones (validate_platform_config, called before the store).    *)
OwnEndpoints ==
  \A i \in DOMAIN platforms : platforms[i].urls \in {i, "static", "typed"}

Exchanging(i, c) ==
  \E p \in Process :
    op[p].pc \in {"fetching", "storing"} /\ op[p].issuer = i /\ op[p].client = c

(* "Implementations must persist the platform and the registration"        *)
(* (dynamic_registration_store.rs:18): a client that a platform has        *)
(* registered is on record with that platform, unless its exchange goes on *)
(* or failed, or the platform was deleted.                                 *)
ClientsAreRecorded ==
  \A k \in clients \ lost : Exchanging(k[1], k[2]) \/ Recorded(k[1], k[2])

(* Only a registration of its issuer, or the update that found this very   *)
(* row and not one that was deleted and created since, changes a platform; *)
(* seeding does not, nor does any step move a row to another id            *)
(* (seed_platforms, LtiPlatform::update).                                  *)
OnlyItsOwnUpdates ==
  [][\A i \in DOMAIN platforms \cap DOMAIN platforms' :
       platforms'[i] # platforms[i] =>
         \E p \in Process :
           /\ op'[p] # op[p]
           /\ \/ op[p].pc = "storing" /\ op[p].issuer = i
              \/ op[p].pc = "updating" /\ op[p].id = platforms[i].id
           /\ platforms'[i].id = platforms[i].id]_vars

(* Registering again keeps the name an administrator gave the platform and *)
(* the capabilities given to the registration (handle_platform_response).  *)
RegisteringAgainKeeps ==
  [][\A p \in Process :
       op[p].pc = "storing" /\ op'[p].pc = "idle" =>
         /\ \A i \in DOMAIN platforms : platforms'[i].name = platforms[i].name
         /\ \A k \in DOMAIN registrations :
              registrations'[k].capabilities = registrations[k].capabilities]_vars
=============================================================================

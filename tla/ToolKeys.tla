------------------------------ MODULE ToolKeys ------------------------------
(***************************************************************************)
(* The tool's signing keys: ensure_keys at the start of each server, the   *)
(* key a token is signed with, the keys it can be verified with and the    *)
(* keys /jwks publishes.  Several servers share one keys table and may     *)
(* start together on an empty one; nothing ever deletes a key.  Each       *)
(* stamps its key by its own clock, and clocks need not agree: created_at  *)
(* says nothing of the order in which rows land.                           *)
(***************************************************************************)
EXTENDS Naturals, Sequences, FiniteSets

CONSTANTS
  Process,       \* the servers
  VerifyLimit,   \* keys get_key looks through, two
  PublishLimit,  \* keys get_current_jwks publishes, three
  MaxTime        \* bound on what the clocks can show

ASSUME KeyAssumption ==
  /\ IsFiniteSet(Process)
  /\ VerifyLimit \in Nat \ {0}
  /\ PublishLimit \in Nat \ {0}
  /\ MaxTime \in Nat

VARIABLES
  keys,    \* the table in the order of its inserts, with created_at and,
           \* as history, the server that inserted the row
  server,  \* the local state of each server
  signed   \* history: the key each token was signed with and the rivals
           \* that key had at the time

vars == <<keys, server, signed>>

Key == [created_at : 0..MaxTime, by : Process]

Local == [pc : {"down", "generating", "serving"}]
           \cup [pc : {"inserting"}, created_at : 0..MaxTime]

TypeOK ==
  /\ keys \in Seq(Key)
  /\ server \in [Process -> Local]
  /\ signed \subseteq [key : DOMAIN keys, rivals : Nat]

Init ==
  /\ keys = <<>>
  /\ server = [p \in Process |-> [pc |-> "down"]]
  /\ signed = {}

-----------------------------------------------------------------------------
(* ORDER BY created_at DESC LIMIT n: rows of one instant come in any order.*)
Newest(n) ==
  {S \in SUBSET (DOMAIN keys) :
     /\ Cardinality(S) = IF Len(keys) < n THEN Len(keys) ELSE n
     /\ \A k \in S, j \in (DOMAIN keys) \ S :
          keys[j].created_at <= keys[k].created_at}

(* The keys that key k has to share the limit with now or later: those not *)
(* older than it, itself among them, and those still to be inserted.       *)
NotOlder(k) == {j \in DOMAIN keys : keys[j].created_at >= keys[k].created_at}

Making == {p \in Process : server[p].pc \in {"generating", "inserting"}}

Rivals(k) == Cardinality(NotOlder(k)) + Cardinality(Making)

(* Slips: a server that always makes a key, one that destroys its own when *)
(* it stops, a limit too small.                                            *)
EnsureAlways(p) ==
  /\ server[p].pc = "down"
  /\ server' = [server EXCEPT ![p] = [pc |-> "generating"]]
  /\ UNCHANGED <<keys, signed>>

StopDestroying(p) ==
  /\ server[p].pc # "down"
  /\ server' = [server EXCEPT ![p] = [pc |-> "down"]]
  /\ keys' = SelectSeq(keys, LAMBDA k : k.by # p)
  /\ UNCHANGED signed

PublishedOfTwo == Newest(PublishLimit - 1)

-----------------------------------------------------------------------------
(* ensure_keys: list, and if the table was empty, generate and insert.     *)
Ensure(p) ==
  /\ server[p].pc = "down"
  /\ \/ keys # <<>> /\ server' = [server EXCEPT ![p] = [pc |-> "serving"]]
     \/ keys = <<>> /\ server' = [server EXCEPT ![p] = [pc |-> "generating"]]
  /\ UNCHANGED <<keys, signed>>

(* Key::create takes the time from the server's clock before its INSERT is *)
(* sent.                                                                   *)
Stamp(p) ==
  /\ server[p].pc = "generating"
  /\ \E now \in 0..MaxTime :
       server' = [server EXCEPT ![p] = [pc |-> "inserting", created_at |-> now]]
  /\ UNCHANGED <<keys, signed>>

(* The server serves, or goes down before it learns of the insert.         *)
Insert(p) ==
  /\ server[p].pc = "inserting"
  /\ keys' = Append(keys, [created_at |-> server[p].created_at, by |-> p])
  /\ \E pc \in {"serving", "down"} : server' = [server EXCEPT ![p] = [pc |-> pc]]
  /\ UNCHANGED signed

(* A crash, a deployment, or a failed query (main expects ensure_keys to   *)
(* succeed and panics if it does not).                                     *)
Stop(p) ==
  /\ server[p].pc # "down"
  /\ server' = [server EXCEPT ![p] = [pc |-> "down"]]
  /\ UNCHANGED <<keys, signed>>

(* get_current_key, for a tool JWT, a client assertion or a deep link.     *)
Sign(p) ==
  /\ server[p].pc = "serving"
  /\ \E S \in Newest(1) :
       signed' = signed \cup {[key |-> k, rivals |-> Rivals(k)] : k \in S}
  /\ UNCHANGED <<keys, server>>

Next ==
  \E p \in Process : Ensure(p) \/ Stamp(p) \/ Insert(p) \/ Stop(p) \/ Sign(p)

Spec == Init /\ [][Next]_vars

-----------------------------------------------------------------------------
(* What get_key and get_current_jwks may see.                              *)
Accepted == Newest(VerifyLimit)

Published == Newest(PublishLimit)

(* A server that serves has a key to sign with (main, ensure_keys).        *)
ServingHasKey ==
  \A p \in Process : server[p].pc = "serving" => Newest(1) # {{}}

(* Restarts and races leave at most one key for each server that ever      *)
(* started: ensure_keys makes one only for an empty table.                 *)
OneKeyPerServer ==
  \A j, k \in DOMAIN keys : keys[j].by = keys[k].by => j = k

(* A token stays good with every server, whatever starts, stops and lands  *)
(* later, unless more keys were in the race for get_key's limit when it    *)
(* was signed than the limit admits.  That the race is the only way out is *)
(* what the limit relies on: keys are not rotated.  (get_key,              *)
(* decode_using_store, JwtClaims)                                          *)
VerifiedUnlessOutraced ==
  \A t \in signed :
    t.rivals <= VerifyLimit => \A S \in Accepted : t.key \in S

(* The same of the platforms, which look for the key of what they were     *)
(* sent in the tool's key set (get_current_jwks).                          *)
PublishedUnlessOutraced ==
  \A t \in signed :
    t.rivals <= PublishLimit => \A S \in Published : t.key \in S
=============================================================================

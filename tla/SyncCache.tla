------------------------------ MODULE SyncCache ------------------------------
(***************************************************************************)
(* What an attribute #[cached(result = true, sync_writes = "default")]     *)
(* with a lifespan makes of a function, without the lock it makes it with: *)
(* one caller at a time runs the function, and only for a key that has no  *)
(* fresh value; a caller is served a fresh value or its own; and only a    *)
(* run that succeeds keeps one.  ServiceToken and JwksCache are shown to   *)
(* implement this module.                                                  *)
(***************************************************************************)
EXTENDS Naturals

CONSTANTS
  Caller,   \* the calls of the function
  Key,      \* what the arguments are filed under
  Lifespan  \* of a value

VARIABLES
  now,    \* the clock
  kept,   \* for each key that has a value, since when
  caller  \* how far each caller has got

vars == <<now, kept, caller>>

Init ==
  /\ now = 0
  /\ kept = [k \in {} |-> 0]
  /\ caller = [c \in Caller |-> [at |-> "away"]]

Fresh(k) == k \in DOMAIN kept /\ now < kept[k] + Lifespan

Becomes(c, stage) == caller' = [caller EXCEPT ![c] = stage]

Tick ==
  /\ now' = now + 1
  /\ UNCHANGED <<kept, caller>>

Ask(c, k) ==
  /\ caller[c].at = "away"
  /\ Becomes(c, [at |-> "queued", key |-> k])
  /\ UNCHANGED <<now, kept>>

Hit(c) ==
  /\ caller[c].at = "queued"
  /\ Fresh(caller[c].key)
  /\ Becomes(c, [at |-> "served"])
  /\ UNCHANGED <<now, kept>>

(* An old value goes when the function is run for a new one.               *)
Run(c) ==
  /\ caller[c].at = "queued"
  /\ ~Fresh(caller[c].key)
  /\ \A d \in Caller : caller[d].at # "running"
  /\ kept' = [k \in DOMAIN kept \ {caller[c].key} |-> kept[k]]
  /\ Becomes(c, [at |-> "running", key |-> caller[c].key])
  /\ UNCHANGED now

(* The value is kept; others may have to go for it.                        *)
Keep(c) ==
  /\ caller[c].at = "running"
  /\ \E stay \in SUBSET DOMAIN kept :
       kept' = [k \in stay \cup {caller[c].key} |->
                  IF k = caller[c].key THEN now ELSE kept[k]]
  /\ Becomes(c, [at |-> "served"])
  /\ UNCHANGED now

(* An error, or a caller that goes away: nothing is kept, nobody is held up*)
GiveUp(c) ==
  /\ caller[c].at \in {"queued", "running"}
  /\ Becomes(c, [at |-> "unserved"])
  /\ UNCHANGED <<now, kept>>

Next ==
  \/ Tick
  \/ \E c \in Caller, k \in Key : Ask(c, k)
  \/ \E c \in Caller : Hit(c) \/ Run(c) \/ Keep(c) \/ GiveUp(c)

Spec == Init /\ [][Next]_vars
=============================================================================

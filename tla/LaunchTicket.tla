---------------------------- MODULE LaunchTicket ----------------------------
(***************************************************************************)
(* What the OIDC state store promises its callers, without its database:   *)
(* a state is a ticket.  It is issued once, it can be shown while it is    *)
(* open, it is closed once and for ever, and a launch is granted only to a *)
(* request that showed the ticket while it was open and only after the     *)
(* ticket has been closed.  OidcLaunch is shown to implement this module.  *)
(***************************************************************************)
CONSTANTS
  State,     \* the tickets
  Request    \* the requests that show them

VARIABLES
  ticket,    \* ticket[s]: where s is in its life
  holder,    \* holder[r]: what became of request r
  shown      \* shown[r]: the ticket request r was let in with, or "none"

vars == <<ticket, holder, shown>>

TicketLife == {"unissued", "open", "closed"}
HolderLife == {"none", "admitted", "granted", "released"}

TypeOK ==
  /\ ticket \in [State -> TicketLife]
  /\ holder \in [Request -> HolderLife]
  /\ shown \in [Request -> State \cup {"none"}]

Init ==
  /\ ticket = [s \in State |-> "unissued"]
  /\ holder = [r \in Request |-> "none"]
  /\ shown = [r \in Request |-> "none"]

Issue(s) ==
  /\ ticket[s] = "unissued"
  /\ ticket' = [ticket EXCEPT ![s] = "open"]
  /\ UNCHANGED <<holder, shown>>

(* A request arrives with ticket s and is let in while s is open. *)
Admit(r, s) ==
  /\ holder[r] = "none"
  /\ ticket[s] = "open"
  /\ holder' = [holder EXCEPT ![r] = "admitted"]
  /\ shown' = [shown EXCEPT ![r] = s]
  /\ UNCHANGED ticket

(* A request is turned away at the door, or turned down after it.          *)
Release(r) ==
  /\ holder[r] \in {"none", "admitted"}
  /\ holder' = [holder EXCEPT ![r] = "released"]
  /\ shown' = [shown EXCEPT ![r] = "none"]
  /\ UNCHANGED ticket

(* An admitted request closes its ticket; it may be turned down with it.   *)
Close(r) ==
  /\ holder[r] = "admitted"
  /\ ticket' = [ticket EXCEPT ![shown[r]] = "closed"]
  /\ \/ UNCHANGED <<holder, shown>>
     \/ /\ holder' = [holder EXCEPT ![r] = "released"]
        /\ shown' = [shown EXCEPT ![r] = "none"]

Grant(r) ==
  /\ holder[r] = "admitted"
  /\ ticket[shown[r]] = "closed"
  /\ holder' = [holder EXCEPT ![r] = "granted"]
  /\ UNCHANGED <<ticket, shown>>

Next ==
  \/ \E s \in State : Issue(s)
  \/ \E r \in Request, s \in State : Admit(r, s)
  \/ \E r \in Request : Close(r) \/ Release(r) \/ Grant(r)

Spec == Init /\ [][Next]_vars
=============================================================================

-------------------------- MODULE TenantDirectory --------------------------
(***************************************************************************)
(* What LtiProvisioningService promises ("Provision (or get existing)"),   *)
(* without its ids and queries: a directory of tenants, courses and users  *)
(* that go by the names a launch gives them.  A name that is missing is    *)
(* entered in one step, however many launches miss it; one that is there   *)
(* stays; and a launch is served only when all of its names are there.     *)
(* Provisioning is shown to implement this module.                         *)
(***************************************************************************)
CONSTANTS
  Launch,  \* the launches
  Claims,  \* what they may bring: [registration, context, title, sub]
  SlugOf,  \* the slug of each registration
  None     \* a context or a title that is missing

VARIABLES
  owner,    \* for each slug that has a tenant, the registration it was made for
  titles,   \* the title of each <<slug, context>> that has a course
  members,  \* the <<slug, sub>> that have a user
  visit     \* how far each launch has got

vars == <<owner, titles, members, visit>>

Init ==
  /\ owner = [s \in {} |-> None]
  /\ titles = [k \in {} |-> None]
  /\ members = {}
  /\ visit = [l \in Launch |-> [at |-> "away"]]

Slug(l) == SlugOf[visit[l].claims.registration]

Course(l) == <<Slug(l), visit[l].claims.context>>

Becomes(l, stage) == visit' = [visit EXCEPT ![l] = stage]

Come(l, claims) ==
  /\ visit[l].at = "away"
  /\ Becomes(l, [at |-> "in", claims |-> claims])
  /\ UNCHANGED <<owner, titles, members>>

OpenTenant(l) ==
  /\ visit[l].at = "in"
  /\ Slug(l) \notin DOMAIN owner
  /\ owner' = [s \in DOMAIN owner \cup {Slug(l)} |->
                 IF s = Slug(l) THEN visit[l].claims.registration ELSE owner[s]]
  /\ UNCHANGED <<titles, members, visit>>

(* Only a course that is new may go without a title.                       *)
EnterCourse(l) ==
  /\ visit[l].at = "in"
  /\ Slug(l) \in DOMAIN owner /\ visit[l].claims.context # None
  /\ Course(l) \in DOMAIN titles => visit[l].claims.title # None
  /\ titles' = [k \in DOMAIN titles \cup {Course(l)} |->
                  IF k = Course(l) THEN visit[l].claims.title ELSE titles[k]]
  /\ UNCHANGED <<owner, members, visit>>

Serve(l) ==
  /\ visit[l].at = "in"
  /\ Slug(l) \in DOMAIN owner
  /\ visit[l].claims.context # None => Course(l) \in DOMAIN titles
  /\ members' = members \cup {<<Slug(l), visit[l].claims.sub>>}
  /\ Becomes(l, [at |-> "served"])
  /\ UNCHANGED <<owner, titles>>

(* A query that fails, or a race that is lost; what is entered stays.      *)
TurnAway(l) ==
  /\ visit[l].at = "in"
  /\ Becomes(l, [at |-> "turned away"])
  /\ UNCHANGED <<owner, titles, members>>

Next ==
  \E l \in Launch :
    \/ \E claims \in Claims : Come(l, claims)
    \/ OpenTenant(l) \/ EnterCourse(l) \/ Serve(l) \/ TurnAway(l)

Spec == Init /\ [][Next]_vars
=============================================================================

---------------------------- MODULE Provisioning ----------------------------
(***************************************************************************)
(* Just-in-time provisioning of a launch's tenant, course and user         *)
(* (atomic-decay's LtiProvisioningService), called for several launches at *)
(* once.  Each query is a step; between two queries other launches run.    *)
(***************************************************************************)
EXTENDS Naturals, Sequences, FiniteSets

CONSTANTS
  Launch,   \* the launches
  Domain,   \* host names of platform issuers
  Prefix,   \* first eight characters of client ids
  Rest,     \* what else an issuer and a client id consist of
  Context,  \* context ids of courses
  Title,    \* titles of courses
  User      \* subs

VARIABLES
  tenants,  \* the table, in the order of its ids: [slug, registration]
  courses,  \* the title of each <<tenant id, context id>> that has a row
  users,    \* the <<tenant id, sub>> that have a row
  launch    \* the local state of each launch

vars == <<tenants, courses, users, launch>>

-----------------------------------------------------------------------------
(* A registration is a platform_iss with a client_id.                      *)
Registration == [domain : Domain, prefix : Prefix, rest : Rest]

(* The slug keeps the host and eight characters of the client id.  Rest    *)
(* stands for everything it drops: the remainder of the client id, the     *)
(* issuer's path, letter case, and what is cut off after fifty characters. *)
create_tenant_slug(registration) ==
  [domain |-> registration.domain, prefix |-> registration.prefix]

Slug == [domain : Domain, prefix : Prefix]

None == "none"

Claims == [registration : Registration, context : Context \cup {None},
           title : Title \cup {None}, sub : User]

Tenant == [slug : Slug, registration : Registration]

Running == {"find_by_slug", "find_by_platform_and_client", "create_tenant",
            "find_course", "update_title", "create_course", "find_user",
            "create_user"}

(* course is the title on the Course that was returned, "absent" for none. *)
Local == [pc : Running \cup {"done", "conflict", "error"}, claims : Claims,
          tenant : Nat, course : Title \cup {None, "absent"}]

TypeOK ==
  /\ tenants \in Seq(Tenant)
  /\ DOMAIN courses \subseteq (DOMAIN tenants) \X Context
  /\ \A k \in DOMAIN courses : courses[k] \in Title \cup {None}
  /\ users \in SUBSET ((DOMAIN tenants) \X User)
  /\ launch \in [Launch -> Local \cup {[pc |-> "idle"]}]

Init ==
  /\ tenants = <<>>
  /\ courses = [k \in {} |-> None]
  /\ users = {}
  /\ launch = [l \in Launch |-> [pc |-> "idle"]]

Goto(l, pc) == launch' = [launch EXCEPT ![l].pc = pc]

WithTenant(l, id) ==
  launch' = [launch EXCEPT ![l].pc = "find_course", ![l].tenant = id]

WithCourse(l, title) ==
  launch' = [launch EXCEPT ![l].pc = "find_user", ![l].course = title]

Start(l, claims) ==
  /\ launch[l].pc = "idle"
  /\ launch' = [launch EXCEPT ![l] = [pc |-> "find_by_slug", claims |-> claims,
                                      tenant |-> 0, course |-> "absent"]]
  /\ UNCHANGED <<tenants, courses, users>>

-----------------------------------------------------------------------------
(* provision_tenant *)

BySlug(slug) == {id \in DOMAIN tenants : tenants[id].slug = slug}

ByRegistration(registration) ==
  {id \in DOMAIN tenants : tenants[id].registration = registration}

FindBySlug(l) ==
  /\ launch[l].pc = "find_by_slug"
  /\ LET found == BySlug(create_tenant_slug(launch[l].claims.registration)) IN
       \/ \E id \in found : WithTenant(l, id)
       \/ found = {} /\ Goto(l, "find_by_platform_and_client")
  /\ UNCHANGED <<tenants, courses, users>>

FindByPlatformAndClient(l) ==
  /\ launch[l].pc = "find_by_platform_and_client"
  /\ LET found == ByRegistration(launch[l].claims.registration) IN
       \/ \E id \in found : WithTenant(l, id)
       \/ found = {} /\ Goto(l, "create_tenant")
  /\ UNCHANGED <<tenants, courses, users>>

(* Slips: a table without its constraints, and one tenant per platform.    *)
CreateTenantUnchecked(l) ==
  /\ launch[l].pc = "create_tenant"
  /\ LET registration == launch[l].claims.registration IN
       tenants' = Append(tenants, [slug |-> create_tenant_slug(registration),
                                   registration |-> registration])
  /\ WithTenant(l, Len(tenants) + 1)
  /\ UNCHANGED <<courses, users>>

CreateTenantPerIssuer(l) ==
  /\ launch[l].pc = "create_tenant"
  /\ LET registration == launch[l].claims.registration
         taken == {id \in DOMAIN tenants :
                     tenants[id].slug.domain = registration.domain} IN
       \/ /\ taken = {}
          /\ tenants' = Append(tenants,
                          [slug |-> create_tenant_slug(registration),
                           registration |-> registration])
          /\ WithTenant(l, Len(tenants) + 1)
       \/ taken # {} /\ Goto(l, "conflict") /\ UNCHANGED tenants
  /\ UNCHANGED <<courses, users>>

(* Both UNIQUE constraints of the table; the launch that violates one is   *)
(* answered with the database's error.                                     *)
CreateTenant(l) ==
  /\ launch[l].pc = "create_tenant"
  /\ LET registration == launch[l].claims.registration
         slug == create_tenant_slug(registration)
         taken == BySlug(slug) \cup ByRegistration(registration) IN
       \/ /\ taken = {}
          /\ tenants' = Append(tenants,
                          [slug |-> slug, registration |-> registration])
          /\ WithTenant(l, Len(tenants) + 1)
       \/ taken # {} /\ Goto(l, "conflict") /\ UNCHANGED tenants
  /\ UNCHANGED <<courses, users>>

-----------------------------------------------------------------------------
(* provision_course *)

Course(l) == <<launch[l].tenant, launch[l].claims.context>>

(* Slips: no early return without a context, and no is_some() on the title.*)
FindCourseAlways(l) ==
  /\ launch[l].pc = "find_course"
  /\ IF Course(l) \in DOMAIN courses THEN WithCourse(l, courses[Course(l)])
     ELSE Goto(l, "create_course")
  /\ UNCHANGED <<tenants, courses, users>>

FindCourseErasing(l) ==
  /\ launch[l].pc = "find_course"
  /\ CASE launch[l].claims.context = None -> Goto(l, "find_user")
       [] Course(l) \notin DOMAIN courses -> Goto(l, "create_course")
       [] OTHER -> Goto(l, "update_title")
  /\ UNCHANGED <<tenants, courses, users>>

FindCourse(l) ==
  /\ launch[l].pc = "find_course"
  /\ LET title == launch[l].claims.title
         exists == Course(l) \in DOMAIN courses IN
       \/ launch[l].claims.context = None /\ Goto(l, "find_user")
       \/ /\ launch[l].claims.context # None /\ exists
          /\ title # None /\ title # courses[Course(l)]
          /\ Goto(l, "update_title")
       \/ /\ launch[l].claims.context # None /\ exists
          /\ title = None \/ title = courses[Course(l)]
          /\ WithCourse(l, courses[Course(l)])
       \/ /\ launch[l].claims.context # None /\ ~exists
          /\ Goto(l, "create_course")
  /\ UNCHANGED <<tenants, courses, users>>

UpdateTitle(l) ==
  /\ launch[l].pc = "update_title"
  /\ courses' = [courses EXCEPT ![Course(l)] = launch[l].claims.title]
  /\ WithCourse(l, launch[l].claims.title)
  /\ UNCHANGED <<tenants, users>>

CreateCourse(l) ==
  /\ launch[l].pc = "create_course"
  /\ \/ /\ Course(l) \notin DOMAIN courses
        /\ courses' = [k \in DOMAIN courses \cup {Course(l)} |->
                         IF k = Course(l) THEN launch[l].claims.title
                         ELSE courses[k]]
        /\ WithCourse(l, launch[l].claims.title)
     \/ /\ Course(l) \in DOMAIN courses
        /\ Goto(l, "conflict")
        /\ UNCHANGED courses
  /\ UNCHANGED <<tenants, users>>

-----------------------------------------------------------------------------
(* provision_user: a row that exists is never brought up to date.          *)

Member(l) == <<launch[l].tenant, launch[l].claims.sub>>

(* Slip: the query forgets the tenant.                                     *)
FindUserAnywhere(l) ==
  /\ launch[l].pc = "find_user"
  /\ Goto(l, IF \E id \in DOMAIN tenants : <<id, launch[l].claims.sub>> \in users
             THEN "done" ELSE "create_user")
  /\ UNCHANGED <<tenants, courses, users>>

FindUser(l) ==
  /\ launch[l].pc = "find_user"
  /\ \/ Member(l) \in users /\ Goto(l, "done")
     \/ Member(l) \notin users /\ Goto(l, "create_user")
  /\ UNCHANGED <<tenants, courses, users>>

CreateUser(l) ==
  /\ launch[l].pc = "create_user"
  /\ \/ Member(l) \notin users /\ users' = users \cup {Member(l)} /\ Goto(l, "done")
     \/ Member(l) \in users /\ Goto(l, "conflict") /\ UNCHANGED users
  /\ UNCHANGED <<tenants, courses>>

-----------------------------------------------------------------------------
(* A query that fails ends the launch where it stands; what the earlier    *)
(* ones wrote stays, there is no transaction around them.                  *)
QueryFails(l) ==
  /\ launch[l].pc \in Running
  /\ Goto(l, "error")
  /\ UNCHANGED <<tenants, courses, users>>

Provision(l) ==
  \/ FindBySlug(l) \/ FindByPlatformAndClient(l) \/ CreateTenant(l)
  \/ FindCourse(l) \/ UpdateTitle(l) \/ CreateCourse(l)
  \/ FindUser(l) \/ CreateUser(l)

Next ==
  \/ \E l \in Launch, claims \in Claims : Start(l, claims)
  \/ \E l \in Launch : Provision(l) \/ QueryFails(l)

Spec == Init /\ [][Next]_vars

-----------------------------------------------------------------------------
Settled == {l \in Launch : launch[l].pc # "idle" /\ launch[l].tenant # 0}

(* However launches race, those of one registration get one tenant, and    *)
(* launches whose slugs differ get different ones (provision_tenant).      *)
OneTenantPerSlug ==
  \A k, l \in Settled :
    launch[k].tenant = launch[l].tenant
      <=> create_tenant_slug(launch[k].claims.registration)
            = create_tenant_slug(launch[l].claims.registration)

(* A launch that is answered has its course and its user under its own     *)
(* tenant, and the course it is answered with bears its title.             *)
DoneIsProvisioned ==
  \A l \in Launch : launch[l].pc = "done" =>
    /\ launch[l].tenant \in DOMAIN tenants
    /\ Member(l) \in users
    /\ launch[l].claims.context # None =>
         /\ Course(l) \in DOMAIN courses
         /\ launch[l].claims.title # None =>
              launch[l].course = launch[l].claims.title

(* A launch that loses a race against a UNIQUE constraint finds at its     *)
(* next attempt the row it could not create (Tenant, Course, User create). *)
ConflictMeansPresent ==
  \A l \in Launch : launch[l].pc = "conflict" =>
    LET claims == launch[l].claims IN
      CASE launch[l].tenant = 0 ->
             BySlug(create_tenant_slug(claims.registration)) # {}
        [] launch[l].tenant # 0 /\ claims.context # None
             /\ launch[l].course = "absent" -> Course(l) \in DOMAIN courses
        [] OTHER -> Member(l) \in users

(* A course that has a title keeps one: a launch without a title does not  *)
(* erase it, nor does one that read the row before it had one.             *)
TitleIsKept ==
  [][\A k \in DOMAIN courses :
       k \in DOMAIN courses' /\ (courses[k] # None => courses'[k] # None)]_vars

(* "each tool registration gets its own isolated tenant"                   *)
(* (lti_provisioning.rs:14, README.md:360).                                *)
TenantIsolation ==
  \A k, l \in Settled :
    launch[k].tenant = launch[l].tenant =>
      launch[k].claims.registration = launch[l].claims.registration

(* The directory behind the ids: rows by the names their launches gave.    *)
IdOf(slug) == CHOOSE id \in DOMAIN tenants : tenants[id].slug = slug

ownerOf ==
  [s \in {tenants[id].slug : id \in DOMAIN tenants} |-> tenants[IdOf(s)].registration]

titlesOf ==
  [k \in {<<tenants[c[1]].slug, c[2]>> : c \in DOMAIN courses} |->
     courses[<<IdOf(k[1]), k[2]>>]]

membersOf == {<<tenants[m[1]].slug, m[2]>> : m \in users}

(* How far a launch in the local state r has got, as one of TenantDirectory*)
StageOf(r) ==
  CASE r.pc = "idle"                  -> [at |-> "away"]
    [] r.pc \in Running               -> [at |-> "in", claims |-> r.claims]
    [] r.pc = "done"                  -> [at |-> "served"]
    [] r.pc \in {"conflict", "error"} -> [at |-> "turned away"]

visitOf == [l \in Launch |-> StageOf(launch[l])]

Directory == INSTANCE TenantDirectory WITH
  SlugOf <- [r \in Registration |-> create_tenant_slug(r)],
  owner <- ownerOf, titles <- titlesOf, members <- membersOf, visit <- visitOf

(* "Provision (or get existing)" (lti_provisioning.rs:25, 55, 87): reading *)
(* and then writing, without a transaction, the service does what one      *)
(* step would, for every name of every launch.                             *)
ImplementsDirectory == Directory!Spec
=============================================================================

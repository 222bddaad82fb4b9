------------------------- MODULE ProvisioningProofs -------------------------
(***************************************************************************)
(* What Provisioning guarantees for any number of launches, whatever the   *)
(* claims and whichever queries fail.                                      *)
(***************************************************************************)
EXTENDS Provisioning, TLAPS

LEMMA InitType == Init => TypeOK
BY DEF Init, TypeOK

(* A launch that has started has its claims.                               *)
LEMMA StartedRecord ==
  ASSUME TypeOK, NEW l \in Launch, launch[l].pc # "idle"
  PROVE  launch[l] \in Local
BY DEF TypeOK

LEMMA GotoType ==
  ASSUME TypeOK, NEW l \in Launch, launch[l].pc # "idle",
         NEW pc \in Running \cup {"done", "conflict", "error"}, Goto(l, pc)
  PROVE  launch' \in [Launch -> Local \cup {[pc |-> "idle"]}]
<1>1. launch[l] \in Local
  BY StartedRecord
<1>2. [launch[l] EXCEPT !.pc = pc] \in Local
  BY <1>1 DEF Local
<1>. QED
  BY <1>2 DEF TypeOK, Goto

LEMMA WithTenantType ==
  ASSUME TypeOK, NEW l \in Launch, launch[l].pc # "idle", NEW id \in Nat,
         WithTenant(l, id)
  PROVE  launch' \in [Launch -> Local \cup {[pc |-> "idle"]}]
<1>1. launch[l] \in Local
  BY StartedRecord
<1>2. [launch[l] EXCEPT !.pc = "find_course", !.tenant = id] \in Local
  BY <1>1 DEF Local, Running
<1>. QED
  BY <1>2 DEF TypeOK, WithTenant

LEMMA WithCourseType ==
  ASSUME TypeOK, NEW l \in Launch, launch[l].pc # "idle",
         NEW title \in Title \cup {None}, WithCourse(l, title)
  PROVE  launch' \in [Launch -> Local \cup {[pc |-> "idle"]}]
<1>1. launch[l] \in Local
  BY StartedRecord
<1>2. [launch[l] EXCEPT !.pc = "find_user", !.course = title] \in Local
  BY <1>1 DEF Local, Running
<1>. QED
  BY <1>2 DEF TypeOK, WithCourse

-----------------------------------------------------------------------------
(* The invariant.  A tenant bears the slug of its registration, no two     *)
(* tenants bear one slug, and the tenant of a launch bears the launch's.   *)

SlugIsOwn ==
  \A id \in DOMAIN tenants :
    tenants[id].slug = create_tenant_slug(tenants[id].registration)

SlugIsUnique ==
  \A i, j \in DOMAIN tenants : tenants[i].slug = tenants[j].slug => i = j

HasTenant(l) ==
  /\ launch[l].tenant \in DOMAIN tenants
  /\ tenants[launch[l].tenant].slug
       = create_tenant_slug(launch[l].claims.registration)

(* A launch beyond its tenant has one: the tables it writes to refer to it.*)
BeyondTenant == {"find_course", "update_title", "create_course", "find_user",
                 "create_user"}

GoodLaunch(l) ==
  /\ launch[l].pc # "idle" /\ launch[l].tenant # 0 => HasTenant(l)
  /\ launch[l].pc \in BeyondTenant => launch[l].tenant # 0
  /\ launch[l].pc \in {"update_title", "create_course"} =>
       launch[l].claims.context # None
  /\ launch[l].pc = "update_title" => launch[l].claims.title # None

GoodLaunches == \A l \in Launch : GoodLaunch(l)

TenantTable ==
  /\ tenants \in Seq(Tenant)
  /\ SlugIsOwn /\ SlugIsUnique

CourseTable ==
  /\ DOMAIN courses \subseteq (DOMAIN tenants) \X Context
  /\ \A k \in DOMAIN courses : courses[k] \in Title \cup {None}

UserTable == users \in SUBSET ((DOMAIN tenants) \X User)

LaunchTable == launch \in [Launch -> Local \cup {[pc |-> "idle"]}]

TenantInv ==
  TenantTable /\ CourseTable /\ UserTable /\ LaunchTable /\ GoodLaunches

LEMMA InvGivesType == TenantInv => TypeOK
BY DEF TenantInv, TypeOK, TenantTable, CourseTable, UserTable, LaunchTable

LEMMA InitTenantInv == Init => TenantInv
BY InitType DEF Init, TypeOK, TenantInv, TenantTable, CourseTable, UserTable,
                LaunchTable, SlugIsOwn, SlugIsUnique, GoodLaunches, GoodLaunch,
                BeyondTenant

(* Rows of tenants are only appended.                                      *)
TenantsGrow ==
  /\ DOMAIN tenants \subseteq DOMAIN tenants'
  /\ \A id \in DOMAIN tenants : tenants'[id] = tenants[id]

LEMMA OneLaunch ==
  ASSUME GoodLaunches, TenantsGrow, NEW l \in Launch,
         \A k \in Launch \ {l} : launch'[k] = launch[k],
         GoodLaunch(l)'
  PROVE  GoodLaunches'
<1> SUFFICES ASSUME NEW k \in Launch, k # l
             PROVE  GoodLaunch(k)'
  BY DEF GoodLaunches
<1>. QED
  BY DEF GoodLaunches, GoodLaunch, TenantsGrow, HasTenant

(* A step that leaves the tenants alone and moves a launch on.             *)
LEMMA GotoGood ==
  ASSUME TypeOK, GoodLaunches, UNCHANGED tenants, NEW l \in Launch,
         launch[l].pc # "idle",
         NEW pc \in Running \cup {"done", "conflict", "error"}, Goto(l, pc),
         pc \in BeyondTenant => launch[l].pc \in BeyondTenant,
         pc \in {"update_title", "create_course"} =>
           launch[l].claims.context # None,
         pc = "update_title" => launch[l].claims.title # None
  PROVE  GoodLaunches'
<1>1. launch[l] \in Local
  BY StartedRecord
<1>2. /\ launch'[l].pc = pc /\ launch'[l].tenant = launch[l].tenant
      /\ launch'[l].claims = launch[l].claims
  BY <1>1 DEF Goto, TypeOK, Local
<1>3. \A k \in Launch \ {l} : launch'[k] = launch[k]
  BY DEF Goto, TypeOK
<1>4. TenantsGrow
  BY DEF TenantsGrow
<1>5. GoodLaunch(l)'
  BY <1>2 DEF GoodLaunches, GoodLaunch, HasTenant
<1>. QED
  BY <1>3, <1>4, <1>5, OneLaunch

LEMMA WithCourseGood ==
  ASSUME TypeOK, GoodLaunches, UNCHANGED tenants, NEW l \in Launch,
         launch[l].pc \in BeyondTenant, NEW title, WithCourse(l, title)
  PROVE  GoodLaunches'
<1>1. launch[l] \in Local
  BY StartedRecord DEF BeyondTenant
<1>2. /\ launch'[l].pc = "find_user" /\ launch'[l].tenant = launch[l].tenant
      /\ launch'[l].claims = launch[l].claims
  BY <1>1 DEF WithCourse, TypeOK, Local
<1>3. \A k \in Launch \ {l} : launch'[k] = launch[k]
  BY DEF WithCourse, TypeOK
<1>4. TenantsGrow
  BY DEF TenantsGrow
<1>5. GoodLaunch(l)'
  BY <1>2 DEF GoodLaunches, GoodLaunch, HasTenant, BeyondTenant
<1>. QED
  BY <1>3, <1>4, <1>5, OneLaunch

(* A launch is given a tenant that bears its slug.                         *)
LEMMA WithTenantGood ==
  ASSUME TypeOK, GoodLaunches, TenantsGrow, NEW l \in Launch,
         launch[l].pc # "idle", NEW id \in DOMAIN tenants', id \in Nat \ {0},
         tenants'[id].slug = create_tenant_slug(launch[l].claims.registration),
         WithTenant(l, id)
  PROVE  GoodLaunches'
<1>1. launch[l] \in Local
  BY StartedRecord
<1>2. /\ launch'[l].pc = "find_course" /\ launch'[l].tenant = id
      /\ launch'[l].claims = launch[l].claims
  BY <1>1 DEF WithTenant, TypeOK, Local
<1>3. \A k \in Launch \ {l} : launch'[k] = launch[k]
  BY DEF WithTenant, TypeOK
<1>4. GoodLaunch(l)'
  BY <1>2 DEF GoodLaunch, HasTenant, BeyondTenant, create_tenant_slug
<1>. QED
  BY <1>3, <1>4, OneLaunch

-----------------------------------------------------------------------------
(* The steps, one lemma for each action that writes a table.               *)

LEMMA StartInv ==
  ASSUME TenantInv, NEW l \in Launch, NEW claims \in Claims, Start(l, claims)
  PROVE  TenantInv'
<1> DEFINE new == [pc |-> "find_by_slug", claims |-> claims, tenant |-> 0,
                   course |-> "absent"]
<1>1. new \in Local
  BY DEF Local, Running
<1>2. launch' = [launch EXCEPT ![l] = new]
  BY DEF Start
<1>3. LaunchTable'
  BY <1>1, <1>2 DEF TenantInv, LaunchTable
<1>4. GoodLaunch(l)' /\ \A k \in Launch \ {l} : launch'[k] = launch[k]
  BY <1>2 DEF TenantInv, LaunchTable, GoodLaunch, BeyondTenant
<1>5. GoodLaunches' /\ UNCHANGED <<tenants, courses, users>>
  BY <1>4, OneLaunch DEF TenantInv, Start, TenantsGrow
<1>. QED
  BY <1>3, <1>5, InvGivesType
     DEF TenantInv, TenantTable, CourseTable, UserTable, SlugIsOwn, SlugIsUnique

(* A step that moves a launch on and writes no table.                      *)
LEMMA GotoInv ==
  ASSUME TenantInv, UNCHANGED <<tenants, courses, users>>, NEW l \in Launch,
         launch[l].pc # "idle",
         NEW pc \in Running \cup {"done", "conflict", "error"}, Goto(l, pc),
         pc \in BeyondTenant => launch[l].pc \in BeyondTenant,
         pc \in {"update_title", "create_course"} =>
           launch[l].claims.context # None,
         pc = "update_title" => launch[l].claims.title # None
  PROVE  TenantInv'
<1>1. GoodLaunches'
  BY GotoGood, InvGivesType DEF TenantInv
<1>2. LaunchTable'
  BY GotoType, InvGivesType DEF TenantInv, LaunchTable
<1>. QED
  BY <1>1, <1>2, InvGivesType
     DEF TenantInv, TenantTable, CourseTable, UserTable, SlugIsOwn, SlugIsUnique

(* A launch that found a row goes on with its tenant.                      *)
LEMMA FoundInv ==
  ASSUME TenantInv, UNCHANGED <<tenants, courses, users>>, NEW l \in Launch,
         launch[l].pc # "idle", NEW id \in DOMAIN tenants,
         tenants[id].slug = create_tenant_slug(launch[l].claims.registration),
         WithTenant(l, id)
  PROVE  TenantInv'
<1>1. id \in Nat \ {0}
  BY DEF TenantInv, TenantTable
<1>2. GoodLaunches'
  BY <1>1, WithTenantGood, InvGivesType DEF TenantInv, TenantsGrow
<1>3. LaunchTable'
  BY <1>1, WithTenantType, InvGivesType DEF TenantInv, LaunchTable
<1>. QED
  BY <1>2, <1>3, InvGivesType
     DEF TenantInv, TenantTable, CourseTable, UserTable, SlugIsOwn, SlugIsUnique

LEMMA FindBySlugInv ==
  ASSUME TenantInv, NEW l \in Launch, FindBySlug(l)
  PROVE  TenantInv'
<1> DEFINE found == BySlug(create_tenant_slug(launch[l].claims.registration))
<1>1. ASSUME NEW id \in found, WithTenant(l, id)
      PROVE  TenantInv'
  BY <1>1, FoundInv DEF FindBySlug, BySlug
<1>2. CASE Goto(l, "find_by_platform_and_client")
  BY <1>2, GotoInv DEF FindBySlug, Running, BeyondTenant
<1>. QED
  BY <1>1, <1>2 DEF FindBySlug

LEMMA FindByPlatformAndClientInv ==
  ASSUME TenantInv, NEW l \in Launch, FindByPlatformAndClient(l)
  PROVE  TenantInv'
<1> DEFINE found == ByRegistration(launch[l].claims.registration)
<1>1. ASSUME NEW id \in found, WithTenant(l, id)
      PROVE  TenantInv'
  <2>1. tenants[id].slug = create_tenant_slug(launch[l].claims.registration)
    BY <1>1 DEF ByRegistration, TenantInv, TenantTable, SlugIsOwn
  <2>. QED
    BY <1>1, <2>1, FoundInv DEF FindByPlatformAndClient, ByRegistration
<1>2. CASE Goto(l, "create_tenant")
  BY <1>2, GotoInv DEF FindByPlatformAndClient, Running, BeyondTenant
<1>. QED
  BY <1>1, <1>2 DEF FindByPlatformAndClient

LEMMA CreateTenantInv ==
  ASSUME TenantInv, NEW l \in Launch, CreateTenant(l)
  PROVE  TenantInv'
<1> DEFINE registration == launch[l].claims.registration
           row == [slug |-> create_tenant_slug(registration),
                   registration |-> registration]
           taken == BySlug(create_tenant_slug(registration))
                      \cup ByRegistration(registration)
<1>1. launch[l] \in Local /\ launch[l].pc # "idle"
  BY StartedRecord, InvGivesType DEF CreateTenant
<1>2. row \in Tenant
  BY <1>1 DEF Local, Claims, Tenant, Slug, Registration, create_tenant_slug
<1>3. ASSUME taken = {}, tenants' = Append(tenants, row),
             WithTenant(l, Len(tenants) + 1)
      PROVE  TenantInv'
  <2> DEFINE id == Len(tenants) + 1
  <2>1. tenants \in Seq(Tenant) /\ Len(tenants) \in Nat
    BY DEF TenantInv, TenantTable
  <2>2. /\ tenants' \in Seq(Tenant) /\ DOMAIN tenants' = 1..id
        /\ DOMAIN tenants = 1..Len(tenants)
        /\ tenants'[id] = row
        /\ \A j \in DOMAIN tenants : tenants'[j] = tenants[j]
    BY <1>2, <1>3, <2>1
  <2>3. \A j \in DOMAIN tenants' : j \in DOMAIN tenants \/ j = id
    BY <2>1, <2>2
  <2>4. id \in DOMAIN tenants' /\ id \in Nat \ {0}
    BY <2>1, <2>2
  <2>5. SlugIsOwn'
    BY <2>2, <2>3 DEF TenantInv, TenantTable, SlugIsOwn, create_tenant_slug
  <2>6. \A j \in DOMAIN tenants : tenants[j].slug # row.slug
    BY <1>3 DEF BySlug
  <2>7. SlugIsUnique'
    BY <2>2, <2>3, <2>6 DEF TenantInv, TenantTable, SlugIsUnique
  <2>8. TenantsGrow
    BY <2>1, <2>2 DEF TenantsGrow
  <2>9. GoodLaunches'
    BY <1>1, <1>3, <2>2, <2>4, <2>8, WithTenantGood, InvGivesType DEF TenantInv
  <2>10. LaunchTable'
    BY <1>1, <1>3, <2>4, WithTenantType, InvGivesType DEF TenantInv, LaunchTable
  <2>11. CourseTable' /\ UserTable'
    BY <2>8 DEF TenantInv, CreateTenant, CourseTable, UserTable, TenantsGrow
  <2>. QED
    BY <2>2, <2>5, <2>7, <2>9, <2>10, <2>11, InvGivesType DEF TenantInv, TenantTable
<1>4. CASE Goto(l, "conflict") /\ UNCHANGED tenants
  BY <1>1, <1>4, GotoInv DEF CreateTenant, BeyondTenant
<1>. QED
  BY <1>3, <1>4 DEF CreateTenant

LEMMA FindCourseInv ==
  ASSUME TenantInv, NEW l \in Launch, FindCourse(l)
  PROVE  TenantInv'
<1>1. ASSUME Course(l) \in DOMAIN courses, WithCourse(l, courses[Course(l)])
      PROVE  TenantInv'
  <2>1. courses[Course(l)] \in Title \cup {None}
    BY <1>1 DEF TenantInv, CourseTable
  <2>2. GoodLaunches'
    BY <1>1, WithCourseGood, InvGivesType DEF TenantInv, FindCourse, BeyondTenant
  <2>3. LaunchTable'
    BY <1>1, <2>1, WithCourseType, InvGivesType DEF FindCourse, LaunchTable
  <2>. QED
    BY <2>2, <2>3 DEF FindCourse, TenantInv, TenantTable, CourseTable,
                      UserTable, SlugIsOwn, SlugIsUnique
<1>2. CASE Goto(l, "find_user")
  BY <1>2, GotoInv DEF FindCourse, Running, BeyondTenant
<1>3. CASE /\ launch[l].claims.context # None /\ launch[l].claims.title # None
           /\ Goto(l, "update_title")
  BY <1>3, GotoInv DEF FindCourse, Running, BeyondTenant
<1>4. CASE launch[l].claims.context # None /\ Goto(l, "create_course")
  BY <1>4, GotoInv DEF FindCourse, Running, BeyondTenant
<1>. QED
  BY <1>1, <1>2, <1>3, <1>4 DEF FindCourse

LEMMA UpdateTitleInv ==
  ASSUME TenantInv, NEW l \in Launch, UpdateTitle(l)
  PROVE  TenantInv'
<1>1. launch[l] \in Local /\ launch[l].claims.title \in Title \cup {None}
  BY StartedRecord, InvGivesType DEF UpdateTitle, Local, Claims
<1>2. GoodLaunches'
  BY WithCourseGood, InvGivesType DEF TenantInv, UpdateTitle, BeyondTenant
<1>3. LaunchTable'
  BY <1>1, WithCourseType, InvGivesType DEF UpdateTitle, LaunchTable
<1>4. CourseTable'
  BY <1>1 DEF TenantInv, UpdateTitle, CourseTable
<1>. QED
  BY <1>2, <1>3, <1>4 DEF UpdateTitle, TenantInv, TenantTable, UserTable,
                          SlugIsOwn, SlugIsUnique

LEMMA CreateCourseInv ==
  ASSUME TenantInv, NEW l \in Launch, CreateCourse(l)
  PROVE  TenantInv'
<1>1. /\ launch[l] \in Local /\ launch[l].claims.title \in Title \cup {None}
      /\ launch[l].claims.context \in Context \cup {None}
  BY StartedRecord, InvGivesType DEF CreateCourse, Local, Claims
<1>2. Course(l) \in (DOMAIN tenants) \X Context
  BY <1>1 DEF TenantInv, GoodLaunches, GoodLaunch, HasTenant, BeyondTenant,
              CreateCourse, Course
<1>3. CASE Goto(l, "conflict") /\ UNCHANGED courses
  BY <1>3, GotoInv DEF CreateCourse, BeyondTenant
<1>4. ASSUME courses' = [k \in DOMAIN courses \cup {Course(l)} |->
                           IF k = Course(l) THEN launch[l].claims.title
                           ELSE courses[k]],
             WithCourse(l, launch[l].claims.title)
      PROVE  TenantInv'
  <2>1. GoodLaunches'
    BY <1>4, WithCourseGood, InvGivesType
       DEF TenantInv, CreateCourse, BeyondTenant
  <2>2. LaunchTable'
    BY <1>1, <1>4, WithCourseType, InvGivesType DEF CreateCourse, LaunchTable
  <2>3. CourseTable'
    BY <1>1, <1>2, <1>4 DEF TenantInv, CreateCourse, CourseTable
  <2>. QED
    BY <2>1, <2>2, <2>3 DEF CreateCourse, TenantInv, TenantTable, UserTable,
                            SlugIsOwn, SlugIsUnique
<1>. QED
  BY <1>3, <1>4 DEF CreateCourse

LEMMA CreateUserInv ==
  ASSUME TenantInv, NEW l \in Launch, CreateUser(l)
  PROVE  TenantInv'
<1>1. launch[l] \in Local /\ launch[l].claims.sub \in User
  BY StartedRecord, InvGivesType DEF CreateUser, Local, Claims
<1>2. Member(l) \in (DOMAIN tenants) \X User
  BY <1>1 DEF TenantInv, GoodLaunches, GoodLaunch, HasTenant, BeyondTenant,
              CreateUser, Member
<1>3. CASE Goto(l, "conflict") /\ UNCHANGED users
  BY <1>3, GotoInv DEF CreateUser, BeyondTenant
<1>4. CASE users' = users \cup {Member(l)} /\ Goto(l, "done")
  <2>1. GoodLaunches'
    BY <1>4, GotoGood, InvGivesType DEF TenantInv, CreateUser, BeyondTenant
  <2>2. LaunchTable'
    BY <1>4, GotoType, InvGivesType DEF CreateUser, LaunchTable
  <2>3. UserTable'
    BY <1>2, <1>4 DEF TenantInv, CreateUser, UserTable
  <2>. QED
    BY <2>1, <2>2, <2>3 DEF CreateUser, TenantInv, TenantTable, CourseTable,
                            SlugIsOwn, SlugIsUnique
<1>. QED
  BY <1>3, <1>4 DEF CreateUser

LEMMA NextTenantInv == TenantInv /\ [Next]_vars => TenantInv'
<1> SUFFICES ASSUME TenantInv, [Next]_vars PROVE TenantInv'
  OBVIOUS
<1>1. CASE UNCHANGED vars
  BY <1>1 DEF vars, TenantInv, TenantTable, CourseTable, UserTable,
              LaunchTable, SlugIsOwn, SlugIsUnique, GoodLaunches, GoodLaunch,
              HasTenant
<1>2. ASSUME NEW l \in Launch, NEW claims \in Claims, Start(l, claims)
      PROVE  TenantInv'
  BY <1>2, StartInv
<1>3. ASSUME NEW l \in Launch, Provision(l)
      PROVE  TenantInv'
  <2>1. CASE FindUser(l)
    BY <2>1, GotoInv DEF FindUser, Running, BeyondTenant
  <2>. QED
    BY <1>3, <2>1, FindBySlugInv, FindByPlatformAndClientInv, CreateTenantInv,
       FindCourseInv, UpdateTitleInv, CreateCourseInv, CreateUserInv
       DEF Provision
<1>4. ASSUME NEW l \in Launch, QueryFails(l)
      PROVE  TenantInv'
  BY <1>4, GotoInv DEF QueryFails, Running, BeyondTenant
<1>. QED
  BY <1>1, <1>2, <1>3, <1>4 DEF Next

LEMMA TenantInvHolds == Spec => []TenantInv
BY InitTenantInv, NextTenantInv, PTL DEF Spec

-----------------------------------------------------------------------------
(* The tables refer to tenants that exist, and hold what they may hold.    *)
THEOREM TypeCorrect == Spec => []TypeOK
BY TenantInvHolds, InvGivesType, PTL

(* Launches get one tenant if and only if their registrations have one     *)
(* slug: racing launches of a registration never split over two tenants,   *)
(* and nothing but a shared slug can make two registrations share one.     *)
THEOREM OneTenant == Spec => []OneTenantPerSlug
<1>1. TenantInv => OneTenantPerSlug
  BY DEF TenantInv, TenantTable, SlugIsUnique, GoodLaunches, GoodLaunch,
         HasTenant, OneTenantPerSlug, Settled
<1>. QED
  BY <1>1, TenantInvHolds, PTL

(* "each tool registration gets its own isolated tenant"                   *)
(* (lti_provisioning.rs:14) is true as long as create_tenant_slug tells    *)
(* the registrations that have launched apart, and no longer.              *)
THEOREM IsolationNeedsSlugs ==
  Spec => [](TenantIsolation <=>
               \A k, l \in Settled :
                 create_tenant_slug(launch[k].claims.registration)
                   = create_tenant_slug(launch[l].claims.registration)
                 => launch[k].claims.registration = launch[l].claims.registration)
<1>1. OneTenantPerSlug =>
        (TenantIsolation <=>
           \A k, l \in Settled :
             create_tenant_slug(launch[k].claims.registration)
               = create_tenant_slug(launch[l].claims.registration)
             => launch[k].claims.registration = launch[l].claims.registration)
  BY Zenon DEF OneTenantPerSlug, TenantIsolation
<1>. QED
  BY <1>1, OneTenant, PTL

(* No launch, however late its write, takes a course's title away.         *)
THEOREM TitleStays == Spec => TitleIsKept
<1> DEFINE Kept == \A k \in DOMAIN courses :
                     k \in DOMAIN courses' /\ (courses[k] # None => courses'[k] # None)
<1>1. TenantInv /\ [Next]_vars => [Kept]_vars
  <2> SUFFICES ASSUME TenantInv, Next PROVE Kept
    BY DEF vars
  <2>1. ASSUME NEW l \in Launch, UpdateTitle(l)
        PROVE  Kept
    <3>1. launch[l].claims.title # None
      BY <2>1 DEF TenantInv, GoodLaunches, GoodLaunch, UpdateTitle
    <3>. QED
      BY <2>1, <3>1 DEF UpdateTitle
  <2>2. ASSUME NEW l \in Launch, CreateCourse(l)
        PROVE  Kept
    BY <2>2 DEF CreateCourse
  <2>. QED
    BY <2>1, <2>2 DEF Next, Start, Provision, QueryFails, FindBySlug,
       FindByPlatformAndClient, CreateTenant, FindCourse, FindUser, CreateUser
<1>. QED
  BY <1>1, TenantInvHolds, PTL DEF Spec, TitleIsKept

-----------------------------------------------------------------------------
(* What a launch has written, or lost to another, by the step it is at.    *)

ConflictOf(l) ==
  LET claims == launch[l].claims IN
    CASE launch[l].tenant = 0 ->
           BySlug(create_tenant_slug(claims.registration)) # {}
      [] launch[l].tenant # 0 /\ claims.context # None
           /\ launch[l].course = "absent" -> Course(l) \in DOMAIN courses
      [] OTHER -> Member(l) \in users

HasCourse(l) ==
  launch[l].claims.context # None =>
    /\ Course(l) \in DOMAIN courses
    /\ launch[l].claims.title # None => launch[l].course = launch[l].claims.title

BeforeTenant == {"find_by_slug", "find_by_platform_and_client", "create_tenant"}

BeforeCourse == BeforeTenant \cup {"find_course", "update_title", "create_course"}

Written(l) ==
  /\ launch[l].pc \in BeforeTenant => launch[l].tenant = 0
  /\ launch[l].pc \in BeforeCourse => launch[l].course = "absent"
  /\ launch[l].pc = "update_title" => Course(l) \in DOMAIN courses
  /\ launch[l].pc \in {"find_user", "create_user", "done"} =>
       launch[l].tenant # 0 /\ HasCourse(l)
  /\ launch[l].pc = "done" => Member(l) \in users
  /\ launch[l].pc = "conflict" => ConflictOf(l)

AllWritten == \A l \in Launch : Written(l)

TablesGrow ==
  /\ TenantsGrow
  /\ DOMAIN courses \subseteq DOMAIN courses'
  /\ users \subseteq users'

(* Nothing is ever deleted, so that the other launches keep what they have.*)
LEMMA OthersWritten ==
  ASSUME AllWritten, TablesGrow, NEW l \in Launch,
         \A k \in Launch \ {l} : launch'[k] = launch[k],
         Written(l)'
  PROVE  AllWritten'
<1>. SUFFICES ASSUME NEW k \in Launch, k # l PROVE Written(k)'
  BY DEF AllWritten
<1>1. launch'[k] = launch[k] /\ Written(k)
  BY DEF AllWritten
<1>2. Course(k)' = Course(k) /\ Member(k)' = Member(k)
  BY <1>1 DEF Course, Member
<1>3. HasCourse(k) => HasCourse(k)'
  BY <1>1, <1>2 DEF HasCourse, TablesGrow
<1>4. \A slug : BySlug(slug) # {} => BySlug(slug)' # {}
  BY DEF BySlug, TablesGrow, TenantsGrow
<1>5. ConflictOf(k) => ConflictOf(k)'
  BY <1>1, <1>2, <1>4 DEF ConflictOf, TablesGrow
<1>. QED
  BY <1>1, <1>2, <1>3, <1>5 DEF Written, TablesGrow

(* The local state of a launch after it has moved on.                      *)
LEMMA Moved ==
  ASSUME TypeOK, NEW l \in Launch, launch[l].pc # "idle"
  PROVE  /\ \A pc : Goto(l, pc) =>
              /\ launch'[l].pc = pc /\ launch'[l].claims = launch[l].claims
              /\ launch'[l].tenant = launch[l].tenant
              /\ launch'[l].course = launch[l].course
         /\ \A id : WithTenant(l, id) =>
              /\ launch'[l].pc = "find_course" /\ launch'[l].claims = launch[l].claims
              /\ launch'[l].tenant = id /\ launch'[l].course = launch[l].course
         /\ \A title : WithCourse(l, title) =>
              /\ launch'[l].pc = "find_user" /\ launch'[l].claims = launch[l].claims
              /\ launch'[l].tenant = launch[l].tenant /\ launch'[l].course = title
<1>1. launch[l] \in Local
  BY StartedRecord
<1>. QED
  BY <1>1 DEF Goto, WithTenant, WithCourse, TypeOK, Local

LEMMA OneMoves ==
  ASSUME TypeOK, NEW l \in Launch,
         \/ \E pc : Goto(l, pc)
         \/ \E id : WithTenant(l, id)
         \/ \E title : WithCourse(l, title)
  PROVE  \A k \in Launch \ {l} : launch'[k] = launch[k]
BY DEF Goto, WithTenant, WithCourse, TypeOK

(* A launch that finds or makes its tenant, or looks in vain.              *)
LEMMA TenantWritten ==
  ASSUME TenantInv, TenantInv', AllWritten, NEW l \in Launch,
         FindBySlug(l) \/ FindByPlatformAndClient(l) \/ CreateTenant(l)
  PROVE  AllWritten'
<1>. DEFINE registration == launch[l].claims.registration
            slug == create_tenant_slug(registration)
<1>1. TypeOK /\ launch[l].pc \in BeforeTenant /\ launch[l].pc # "idle"
  BY InvGivesType DEF FindBySlug, FindByPlatformAndClient, CreateTenant, BeforeTenant
<1>2. launch[l].tenant = 0 /\ launch[l].course = "absent"
  BY <1>1 DEF AllWritten, Written, BeforeCourse
<1>3. TablesGrow
  <2>1. TenantsGrow
    BY DEF FindBySlug, FindByPlatformAndClient, CreateTenant, TenantsGrow, TenantInv,
           TenantTable
  <2>. QED
    BY <2>1 DEF FindBySlug, FindByPlatformAndClient, CreateTenant, TablesGrow
<1>4. ASSUME NEW id, WithTenant(l, id) PROVE AllWritten'
  <2>1. Written(l)'
    BY <1>1, <1>2, <1>4, Moved DEF Written, BeforeTenant, BeforeCourse
  <2>. QED
    BY <1>1, <1>3, <1>4, <2>1, OthersWritten, OneMoves
<1>5. ASSUME NEW pc \in BeforeTenant, Goto(l, pc) PROVE AllWritten'
  <2>1. Written(l)'
    BY <1>1, <1>2, <1>5, Moved DEF Written, BeforeTenant, BeforeCourse
  <2>. QED
    BY <1>1, <1>3, <1>5, <2>1, OthersWritten, OneMoves
<1>6. ASSUME BySlug(slug) \cup ByRegistration(registration) # {},
             Goto(l, "conflict"), UNCHANGED tenants
      PROVE  AllWritten'
  <2>1. BySlug(slug) # {}
    BY <1>6 DEF BySlug, ByRegistration, TenantInv, TenantTable, SlugIsOwn
  <2>2. BySlug(slug)' = BySlug(slug)
    BY <1>1, <1>6, Moved DEF BySlug
  <2>3. Written(l)'
    BY <1>1, <1>2, <1>6, <2>1, <2>2, Moved
       DEF Written, ConflictOf, BeforeTenant, BeforeCourse
  <2>. QED
    BY <1>1, <1>3, <1>6, <2>3, OthersWritten, OneMoves
<1>7. CASE FindBySlug(l)
  BY <1>4, <1>5, <1>7 DEF FindBySlug, BeforeTenant
<1>8. CASE FindByPlatformAndClient(l)
  BY <1>4, <1>5, <1>8 DEF FindByPlatformAndClient, BeforeTenant
<1>9. CASE CreateTenant(l)
  BY <1>4, <1>6, <1>9 DEF CreateTenant
<1>. QED
  BY <1>7, <1>8, <1>9

LEMMA StartWritten ==
  ASSUME TypeOK, AllWritten, NEW l \in Launch, NEW claims \in Claims, Start(l, claims)
  PROVE  AllWritten'
<1>1. launch'[l] = [pc |-> "find_by_slug", claims |-> claims, tenant |-> 0,
                    course |-> "absent"]
  BY DEF Start, TypeOK
<1>2. Written(l)'
  BY <1>1 DEF Written, BeforeTenant, BeforeCourse
<1>3. \A k \in Launch \ {l} : launch'[k] = launch[k]
  BY DEF Start, TypeOK
<1>4. TablesGrow
  BY DEF Start, TablesGrow, TenantsGrow
<1>. QED
  BY <1>2, <1>3, <1>4, OthersWritten

(* A launch that finds, renames or makes its course.                       *)
LEMMA CourseWritten ==
  ASSUME TypeOK, AllWritten, GoodLaunches, NEW l \in Launch,
         FindCourse(l) \/ UpdateTitle(l) \/ CreateCourse(l)
  PROVE  AllWritten'
<1>1. /\ launch[l].pc \in {"find_course", "update_title", "create_course"}
      /\ launch[l].pc # "idle"
  BY DEF FindCourse, UpdateTitle, CreateCourse
<1>2. launch[l].tenant # 0 /\ launch[l].course = "absent"
  BY <1>1 DEF AllWritten, Written, BeforeCourse, GoodLaunches, GoodLaunch, BeyondTenant
<1>3. TablesGrow
  <2>1. TenantsGrow
    BY DEF FindCourse, UpdateTitle, CreateCourse, TenantsGrow
  <2>. QED
    BY <2>1 DEF FindCourse, UpdateTitle, CreateCourse, TablesGrow
<1>4. ASSUME NEW title, WithCourse(l, title),
             launch[l].claims.context # None => Course(l) \in DOMAIN courses',
             launch[l].claims.title # None => title = launch[l].claims.title
      PROVE  AllWritten'
  <2>1. Course(l)' = Course(l)
    BY <1>1, <1>4, Moved DEF Course
  <2>2. Written(l)'
    BY <1>1, <1>2, <1>4, <2>1, Moved DEF Written, HasCourse, BeforeTenant, BeforeCourse
  <2>. QED
    BY <1>1, <1>3, <1>4, <2>2, OthersWritten, OneMoves
<1>5. ASSUME NEW pc \in {"find_user", "update_title", "create_course", "conflict"},
             Goto(l, pc),
             pc = "find_user" => launch[l].claims.context = None,
             pc = "update_title" => Course(l) \in DOMAIN courses',
             pc = "conflict" => launch[l].claims.context # None
                                  /\ Course(l) \in DOMAIN courses'
      PROVE  AllWritten'
  <2>1. Course(l)' = Course(l)
    BY <1>1, <1>5, Moved DEF Course
  <2>2. HasCourse(l)' \/ pc # "find_user"
    BY <1>1, <1>5, Moved DEF HasCourse
  <2>3. ConflictOf(l)' \/ pc # "conflict"
    BY <1>1, <1>2, <1>5, <2>1, Moved DEF ConflictOf
  <2>4. Written(l)'
    BY <1>1, <1>2, <1>5, <2>1, <2>2, <2>3, Moved
       DEF Written, BeforeTenant, BeforeCourse
  <2>. QED
    BY <1>1, <1>3, <1>5, <2>4, OthersWritten, OneMoves
<1>6. CASE FindCourse(l)
  BY <1>4, <1>5, <1>6 DEF FindCourse
<1>7. CASE UpdateTitle(l)
  <2>1. Course(l) \in DOMAIN courses
    BY <1>7 DEF UpdateTitle, AllWritten, Written
  <2>. QED
    BY <1>4, <1>7, <2>1 DEF UpdateTitle
<1>8. CASE CreateCourse(l)
  <2>1. launch[l].claims.context # None
    BY <1>8 DEF CreateCourse, GoodLaunches, GoodLaunch
  <2>. QED
    BY <1>4, <1>5, <1>8, <2>1 DEF CreateCourse
<1>. QED
  BY <1>6, <1>7, <1>8

(* A launch that finds or makes its user.                                  *)
LEMMA UserWritten ==
  ASSUME TypeOK, AllWritten, NEW l \in Launch, FindUser(l) \/ CreateUser(l)
  PROVE  AllWritten'
<1>1. launch[l].pc \in {"find_user", "create_user"} /\ launch[l].pc # "idle"
  BY DEF FindUser, CreateUser
<1>2. launch[l].tenant # 0 /\ HasCourse(l)
  BY <1>1 DEF AllWritten, Written
<1>3. TablesGrow
  BY DEF FindUser, CreateUser, TablesGrow, TenantsGrow
<1>4. ASSUME NEW pc \in {"done", "create_user", "conflict"}, Goto(l, pc),
             pc \in {"done", "conflict"} => Member(l) \in users'
      PROVE  AllWritten'
  <2>1. Course(l)' = Course(l) /\ Member(l)' = Member(l)
    BY <1>1, <1>4, Moved DEF Course, Member
  <2>2. HasCourse(l)'
    BY <1>1, <1>2, <1>3, <1>4, <2>1, Moved DEF HasCourse, TablesGrow
  <2>3. ConflictOf(l)' \/ pc # "conflict"
    BY <1>1, <1>2, <1>4, <2>1, <2>2, Moved DEF ConflictOf, HasCourse
  <2>4. Written(l)'
    BY <1>1, <1>2, <1>4, <2>1, <2>2, <2>3, Moved
       DEF Written, BeforeTenant, BeforeCourse
  <2>. QED
    BY <1>1, <1>3, <1>4, <2>4, OthersWritten, OneMoves
<1>5. CASE FindUser(l)
  BY <1>4, <1>5 DEF FindUser
<1>6. CASE CreateUser(l)
  BY <1>4, <1>6 DEF CreateUser
<1>. QED
  BY <1>5, <1>6

LEMMA FailureWritten ==
  ASSUME TypeOK, AllWritten, NEW l \in Launch, QueryFails(l)
  PROVE  AllWritten'
<1>1. launch[l].pc # "idle" /\ Goto(l, "error")
  BY DEF QueryFails, Running
<1>2. Written(l)'
  BY <1>1, Moved DEF Written, BeforeTenant, BeforeCourse
<1>3. TablesGrow
  BY DEF QueryFails, TablesGrow, TenantsGrow
<1>. QED
  BY <1>1, <1>2, <1>3, OthersWritten, OneMoves

LEMMA NextWritten ==
  TenantInv /\ TenantInv' /\ AllWritten /\ [Next]_vars => AllWritten'
<1>. SUFFICES ASSUME TenantInv, TenantInv', AllWritten, [Next]_vars PROVE AllWritten'
  OBVIOUS
<1>1. TypeOK /\ GoodLaunches
  BY InvGivesType DEF TenantInv
<1>2. CASE UNCHANGED vars
  BY <1>2 DEF vars, AllWritten, Written, HasCourse, ConflictOf, Course, Member, BySlug
<1>3. ASSUME NEW l \in Launch, NEW claims \in Claims, Start(l, claims) PROVE AllWritten'
  BY <1>1, <1>3, StartWritten
<1>4. ASSUME NEW l \in Launch, Provision(l) PROVE AllWritten'
  BY <1>1, <1>4, TenantWritten, CourseWritten, UserWritten DEF Provision
<1>5. ASSUME NEW l \in Launch, QueryFails(l) PROVE AllWritten'
  BY <1>1, <1>5, FailureWritten
<1>. QED
  BY <1>2, <1>3, <1>4, <1>5 DEF Next

LEMMA AllWrittenHolds == Spec => []AllWritten
<1>1. Init => AllWritten
  BY DEF Init, AllWritten, Written, BeforeTenant, BeforeCourse
<1>. QED
  BY <1>1, NextWritten, TenantInvHolds, PTL DEF Spec

(* A launch that is answered has its tenant, its course and its user,      *)
(* whatever ran between its queries.                                       *)
THEOREM Provisioned == Spec => []DoneIsProvisioned
<1>1. TenantInv /\ AllWritten => DoneIsProvisioned
  <2>. SUFFICES ASSUME TenantInv, AllWritten, NEW l \in Launch, launch[l].pc = "done"
                PROVE  /\ HasTenant(l) /\ HasCourse(l) /\ Member(l) \in users
    BY DEF DoneIsProvisioned, HasTenant, HasCourse
  <2>. QED
    BY DEF TenantInv, GoodLaunches, GoodLaunch, AllWritten, Written
<1>. QED
  BY <1>1, TenantInvHolds, AllWrittenHolds, PTL

(* A launch that loses a race finds at its next attempt the row it could   *)
(* not create: a retry by the platform gets further than this one.         *)
THEOREM ConflictsArePresent == Spec => []ConflictMeansPresent
<1>1. AllWritten => ConflictMeansPresent
  BY DEF AllWritten, Written, ConflictOf, ConflictMeansPresent
<1>. QED
  BY <1>1, AllWrittenHolds, PTL

-----------------------------------------------------------------------------
(* The refinement of TenantDirectory.                                      *)

(* A slug leads back to its tenant.                                        *)
LEMMA IdOfSlug ==
  ASSUME SlugIsUnique, NEW id \in DOMAIN tenants
  PROVE  IdOf(tenants[id].slug) = id
BY DEF SlugIsUnique, IdOf

(* What the mapping makes of the rows of one tenant.                       *)
OwnersKnown ==
  /\ DOMAIN ownerOf = {tenants[id].slug : id \in DOMAIN tenants}
  /\ \A id \in DOMAIN tenants : ownerOf[tenants[id].slug] = tenants[id].registration

TitlesKnown ==
  /\ \A id \in DOMAIN tenants : \A x :
       <<tenants[id].slug, x>> \in DOMAIN titlesOf <=> <<id, x>> \in DOMAIN courses
  /\ \A c \in DOMAIN courses :
       titlesOf[<<tenants[c[1]].slug, c[2]>>] = courses[c]

LEMMA TitlesAre == TenantInv => TitlesKnown
<1>. SUFFICES ASSUME TenantInv PROVE TitlesKnown
  OBVIOUS
<1>1. \A c \in DOMAIN courses : c[1] \in DOMAIN tenants /\ c = <<c[1], c[2]>>
  BY DEF TenantInv, CourseTable
<1>2. \A i, j \in DOMAIN tenants : tenants[i].slug = tenants[j].slug => i = j
  BY DEF TenantInv, TenantTable, SlugIsUnique
<1>3. DOMAIN titlesOf = {<<tenants[c[1]].slug, c[2]>> : c \in DOMAIN courses}
  BY DEF titlesOf
<1>4. ASSUME NEW c \in DOMAIN courses
      PROVE  titlesOf[<<tenants[c[1]].slug, c[2]>>] = courses[c]
  <2>1. IdOf(tenants[c[1]].slug) = c[1]
    BY <1>1, IdOfSlug DEF TenantInv, TenantTable
  <2>. QED
    BY <1>1, <2>1 DEF titlesOf
<1>. QED
  BY <1>1, <1>2, <1>3, <1>4 DEF TitlesKnown

LEMMA OwnersAre == TenantInv => OwnersKnown
<1>. SUFFICES ASSUME TenantInv PROVE OwnersKnown
  OBVIOUS
<1>1. \A id \in DOMAIN tenants : IdOf(tenants[id].slug) = id
  BY IdOfSlug DEF TenantInv, TenantTable
<1>. QED
  BY <1>1 DEF ownerOf, OwnersKnown

(* And after a step.                                                       *)
LEMMA KnownNext == TenantInv' => TypeOK' /\ OwnersKnown' /\ TitlesKnown'
BY InvGivesType, OwnersAre, TitlesAre, PTL

(* What the mapping makes of one launch.                                   *)
LEMMA StagesAre ==
  ASSUME NEW r
  PROVE  /\ r.pc = "idle" => StageOf(r) = [at |-> "away"]
         /\ r.pc \in Running => StageOf(r) = [at |-> "in", claims |-> r.claims]
         /\ r.pc = "done" => StageOf(r) = [at |-> "served"]
         /\ r.pc \in {"conflict", "error"} => StageOf(r) = [at |-> "turned away"]
<1>1. CASE r.pc = "idle"
  BY <1>1 DEF StageOf, Running
<1>2. CASE r.pc \in Running
  BY <1>2 DEF StageOf, Running
<1>3. CASE r.pc = "done"
  BY <1>3 DEF StageOf, Running
<1>4. CASE r.pc \in {"conflict", "error"}
  BY <1>4 DEF StageOf, Running
<1>. QED
  BY <1>1, <1>2, <1>3, <1>4 DEF Running

LEMMA StageIs ==
  ASSUME TypeOK, NEW l \in Launch
  PROVE  /\ visitOf[l] = StageOf(launch[l])
         /\ launch[l].pc = "idle" => visitOf[l] = [at |-> "away"]
         /\ launch[l].pc \in Running =>
              /\ visitOf[l] = [at |-> "in", claims |-> launch[l].claims]
              /\ Directory!Slug(l) = create_tenant_slug(launch[l].claims.registration)
<1>1. visitOf[l] = StageOf(launch[l])
  BY DEF visitOf
<1>2. launch[l].pc = "idle" => visitOf[l] = [at |-> "away"]
  BY <1>1, StagesAre
<1>3. ASSUME launch[l].pc \in Running
      PROVE  /\ visitOf[l] = [at |-> "in", claims |-> launch[l].claims]
             /\ Directory!Slug(l) = create_tenant_slug(launch[l].claims.registration)
  <2>1. visitOf[l] = [at |-> "in", claims |-> launch[l].claims]
    BY <1>1, <1>3, StagesAre
  <2>2. launch[l].claims.registration \in Registration
    BY <1>3, StartedRecord DEF Running, Local, Claims
  <2>. QED
    BY <2>1, <2>2 DEF Directory!Slug
<1>. QED
  BY <1>1, <1>2, <1>3

(* A launch that has its tenant goes by its slug.                          *)
LEMMA TenantIsThere ==
  ASSUME TenantInv, NEW l \in Launch, launch[l].pc \in Running, launch[l].tenant # 0
  PROVE  /\ launch[l].tenant \in DOMAIN tenants
         /\ Directory!Slug(l) = tenants[launch[l].tenant].slug
         /\ Directory!Slug(l) \in DOMAIN ownerOf
<1>1. HasTenant(l)
  BY DEF TenantInv, GoodLaunches, GoodLaunch, Running
<1>2. Directory!Slug(l) = create_tenant_slug(launch[l].claims.registration)
  BY StageIs, InvGivesType
<1>. QED
  BY <1>1, <1>2, OwnersAre DEF HasTenant, OwnersKnown

(* One launch moves on.                                                    *)
LEMMA OneVisit ==
  ASSUME TypeOK, TypeOK', NEW l \in Launch,
         \A k \in Launch \ {l} : launch'[k] = launch[k]
  PROVE  Directory!Becomes(l, StageOf(launch'[l]))
<1>1. visitOf' = [k \in Launch |-> StageOf(launch'[k])]
  BY DEF visitOf
<1>2. \A k \in Launch : StageOf(launch'[k])
        = IF k = l THEN StageOf(launch'[l]) ELSE StageOf(launch[k])
  OBVIOUS
<1>3. visitOf' = [k \in Launch |-> IF k = l THEN StageOf(launch'[l])
                                            ELSE StageOf(launch[k])]
  BY <1>1, <1>2
<1>. QED
  BY <1>3 DEF Directory!Becomes, visitOf

LEMMA StaysIn ==
  ASSUME TypeOK, TypeOK', NEW l \in Launch,
         \A k \in Launch \ {l} : launch'[k] = launch[k],
         launch[l].pc \in Running, launch'[l].pc \in Running,
         launch'[l].claims = launch[l].claims
  PROVE  UNCHANGED visitOf
<1>1. StageOf(launch'[l]) = StageOf(launch[l])
  BY StagesAre
<1>2. \A k \in Launch : StageOf(launch'[k]) = StageOf(launch[k])
  BY <1>1
<1>. QED
  BY <1>2 DEF visitOf

LEMMA RowsStay ==
  ASSUME UNCHANGED <<tenants, courses, users>>
  PROVE  UNCHANGED <<ownerOf, titlesOf, membersOf>>
<1>1. \A s : IdOf(s)' = IdOf(s)
  BY DEF IdOf
<1>2. ownerOf' = ownerOf
  BY <1>1 DEF ownerOf
<1>3. titlesOf' = titlesOf
  BY <1>1 DEF titlesOf
<1>. QED
  BY <1>2, <1>3 DEF membersOf

LEMMA StartRefines ==
  ASSUME TenantInv, TenantInv', NEW l \in Launch, NEW claims \in Claims, Start(l, claims)
  PROVE  Directory!Come(l, claims)
<1>1. TypeOK /\ TypeOK' /\ launch[l].pc = "idle"
  BY InvGivesType, KnownNext DEF Start
<1>2. /\ launch'[l].pc = "find_by_slug" /\ launch'[l].claims = claims
      /\ \A k \in Launch \ {l} : launch'[k] = launch[k]
  BY <1>1 DEF Start, TypeOK
<1>3. Directory!Becomes(l, [at |-> "in", claims |-> claims])
  BY <1>1, <1>2, OneVisit, StagesAre DEF Running
<1>4. UNCHANGED <<ownerOf, titlesOf, membersOf>>
  BY RowsStay DEF Start
<1>5. visitOf[l] = [at |-> "away"]
  BY <1>1, StageIs
<1>6. visitOf[l].at = "away"
  BY <1>5
<1>. QED
  BY <1>3, <1>4, <1>6 DEF Directory!Come

(* A query that reads, fails, or loses a race.                             *)
LEMMA ReadRefines ==
  ASSUME TenantInv, TenantInv', NEW l \in Launch, launch[l].pc \in Running,
         UNCHANGED <<tenants, courses, users>>,
         \/ \E pc \in Running \cup {"conflict", "error"} : Goto(l, pc)
         \/ \E id : WithTenant(l, id)
         \/ \E title : WithCourse(l, title)
  PROVE  Directory!TurnAway(l) \/ UNCHANGED Directory!vars
<1>1. TypeOK /\ TypeOK' /\ launch[l].pc # "idle"
  BY InvGivesType, KnownNext DEF Running
<1>2. /\ \A k \in Launch \ {l} : launch'[k] = launch[k]
      /\ launch'[l].claims = launch[l].claims
      /\ launch'[l].pc \in Running \cup {"conflict", "error"}
  BY <1>1, OneMoves, Moved DEF Running
<1>3. UNCHANGED <<ownerOf, titlesOf, membersOf>>
  BY RowsStay
<1>4. CASE launch'[l].pc \in Running
  BY <1>1, <1>2, <1>3, <1>4, StaysIn DEF Directory!vars
<1>5. CASE launch'[l].pc \in {"conflict", "error"}
  <2>1. Directory!Becomes(l, [at |-> "turned away"])
    BY <1>1, <1>2, <1>5, OneVisit, StagesAre
  <2>2. visitOf[l] = [at |-> "in", claims |-> launch[l].claims]
    BY <1>1, StageIs
  <2>3. visitOf[l].at = "in"
    BY <2>2
  <2>. QED
    BY <1>3, <2>1, <2>3 DEF Directory!TurnAway
<1>. QED
  BY <1>2, <1>4, <1>5

(* The courses of the tenants that are there are not affected by more.     *)
LEMMA TitlesStay ==
  ASSUME TenantInv, TenantInv', TenantsGrow, UNCHANGED courses
  PROVE  titlesOf' = titlesOf
<1>1. \A c \in DOMAIN courses :
        c[1] \in DOMAIN tenants /\ tenants'[c[1]] = tenants[c[1]]
  BY DEF TenantInv, CourseTable, TenantsGrow
<1>2. DOMAIN titlesOf' = DOMAIN titlesOf
  BY <1>1 DEF titlesOf
<1>3. \A c \in DOMAIN courses :
        titlesOf'[<<tenants[c[1]].slug, c[2]>>] = titlesOf[<<tenants[c[1]].slug, c[2]>>]
  BY <1>1, TitlesAre, KnownNext DEF TitlesKnown
<1>4. \A k \in DOMAIN titlesOf : titlesOf'[k] = titlesOf[k]
  <2>1. \A k \in DOMAIN titlesOf :
          \E c \in DOMAIN courses : k = <<tenants[c[1]].slug, c[2]>>
    BY DEF titlesOf
  <2>. QED
    BY <1>3, <2>1
<1>5. /\ titlesOf = [k \in DOMAIN titlesOf |-> titlesOf[k]]
      /\ titlesOf' = [k \in DOMAIN titlesOf' |-> titlesOf'[k]]
  BY DEF titlesOf
<1>. QED
  BY <1>2, <1>4, <1>5

(* A row of a new tenant: no course or user goes by another slug for it.   *)
LEMMA TenantRefines ==
  ASSUME TenantInv, TenantInv', NEW l \in Launch, launch[l].pc = "create_tenant",
         BySlug(create_tenant_slug(launch[l].claims.registration)) = {},
         tenants' = Append(tenants,
           [slug |-> create_tenant_slug(launch[l].claims.registration),
            registration |-> launch[l].claims.registration]),
         WithTenant(l, Len(tenants) + 1), UNCHANGED <<courses, users>>
  PROVE  Directory!OpenTenant(l)
<1>. DEFINE registration == launch[l].claims.registration
            slug == create_tenant_slug(registration)
            id == Len(tenants) + 1
<1>1. TypeOK /\ TypeOK' /\ launch[l].pc \in Running /\ launch[l].pc # "idle"
  BY InvGivesType, KnownNext DEF Running
<1>2. /\ visitOf[l] = [at |-> "in", claims |-> launch[l].claims]
      /\ Directory!Slug(l) = slug
  BY <1>1, StageIs
<1>3. tenants \in Seq(Tenant) /\ Len(tenants) \in Nat
  BY DEF TenantInv, TenantTable
<1>4. /\ DOMAIN tenants' = DOMAIN tenants \cup {id} /\ id \notin DOMAIN tenants
      /\ tenants'[id].slug = slug /\ tenants'[id].registration = registration
      /\ \A j \in DOMAIN tenants : tenants'[j] = tenants[j]
  BY <1>3
<1>5. \A j \in DOMAIN tenants : tenants[j].slug # slug
  BY DEF BySlug
<1>. HIDE DEF slug, id
<1>6. slug \notin DOMAIN ownerOf
  BY <1>5, OwnersAre DEF OwnersKnown
<1>7. DOMAIN ownerOf' = DOMAIN ownerOf \cup {slug}
  BY <1>4, OwnersAre, KnownNext DEF OwnersKnown
<1>8. \A s \in DOMAIN ownerOf' :
        ownerOf'[s] = IF s = slug THEN registration ELSE ownerOf[s]
  <2>1. ownerOf'[slug] = registration
    BY <1>4, OwnersAre, KnownNext DEF OwnersKnown
  <2>2. ASSUME NEW j \in DOMAIN tenants
        PROVE  ownerOf'[tenants[j].slug] = ownerOf[tenants[j].slug]
    <3>1. ownerOf[tenants[j].slug] = tenants[j].registration
      BY OwnersAre DEF OwnersKnown
    <3>2. ownerOf'[tenants'[j].slug] = tenants'[j].registration
      BY <1>4, OwnersAre, KnownNext DEF OwnersKnown
    <3>. QED
      BY <1>4, <3>1, <3>2
  <2>. QED
    BY <1>7, <2>1, <2>2, OwnersAre DEF OwnersKnown
<1>9. ownerOf' = [s \in DOMAIN ownerOf \cup {slug} |->
                    IF s = slug THEN registration ELSE ownerOf[s]]
  <2>1. ownerOf' = [s \in DOMAIN ownerOf' |-> ownerOf'[s]]
    BY DEF ownerOf
  <2>. QED
    BY <1>7, <1>8, <2>1
<1>10. TenantsGrow
  BY <1>4 DEF TenantsGrow
<1>11. titlesOf' = titlesOf
  BY <1>10, TitlesStay
<1>12. membersOf' = membersOf
  <2>1. \A m \in users : tenants'[m[1]].slug = tenants[m[1]].slug
    BY <1>4 DEF TenantInv, UserTable
  <2>. QED
    BY <2>1 DEF membersOf
<1>13. UNCHANGED visitOf
  BY <1>1, OneMoves, Moved, StaysIn DEF Running
<1>. QED
  BY <1>2, <1>6, <1>9, <1>11, <1>12, <1>13 DEF Directory!OpenTenant

(* A row written for the course of a launch, new or renamed.               *)
LEMMA CourseRefines ==
  ASSUME TenantInv, TenantInv', NEW l \in Launch,
         launch[l].pc \in {"update_title", "create_course"},
         Course(l) \in DOMAIN courses => launch[l].claims.title # None,
         courses' = [k \in DOMAIN courses \cup {Course(l)} |->
                       IF k = Course(l) THEN launch[l].claims.title ELSE courses[k]],
         WithCourse(l, launch[l].claims.title), UNCHANGED <<tenants, users>>
  PROVE  Directory!EnterCourse(l)
<1>. DEFINE id == launch[l].tenant
            context == launch[l].claims.context
            title == launch[l].claims.title
            name == <<tenants[id].slug, context>>
<1>1. TypeOK /\ TypeOK' /\ launch[l].pc \in Running /\ launch[l].pc # "idle"
  BY InvGivesType, KnownNext DEF Running
<1>2. id # 0 /\ context # None
  BY DEF TenantInv, GoodLaunches, GoodLaunch, BeyondTenant
<1>3. /\ id \in DOMAIN tenants /\ Directory!Slug(l) = tenants[id].slug
      /\ Directory!Slug(l) \in DOMAIN ownerOf
  BY <1>1, <1>2, TenantIsThere
<1>4. visitOf[l] = [at |-> "in", claims |-> launch[l].claims]
  BY <1>1, StageIs
<1>5. visitOf[l].at = "in" /\ visitOf[l].claims = launch[l].claims
  BY <1>4
<1>6. Directory!Course(l) = name
  BY <1>3, <1>5 DEF Directory!Course
<1>7. Course(l) = <<id, context>>
  BY DEF Course
<1>8. \A c \in DOMAIN courses : c[1] \in DOMAIN tenants /\ c = <<c[1], c[2]>>
  BY DEF TenantInv, CourseTable
<1>9. DOMAIN titlesOf' = DOMAIN titlesOf \cup {name}
  <2>. DEFINE NameOf(c) == <<tenants[c[1]].slug, c[2]>>
              row == <<id, context>>
  <2>1. DOMAIN courses' = DOMAIN courses \cup {row}
    BY <1>7
  <2>2. DOMAIN titlesOf = {NameOf(c) : c \in DOMAIN courses}
    BY DEF titlesOf
  <2>3. DOMAIN titlesOf' = {NameOf(c) : c \in DOMAIN courses'}
    BY DEF titlesOf
  <2>4. NameOf(row) = name
    OBVIOUS
  <2>. HIDE DEF NameOf, row, name
  <2>. QED
    BY <2>1, <2>2, <2>3, <2>4
<1>10. titlesOf'[name] = title
  <2>1. <<id, context>> \in DOMAIN courses' /\ courses'[<<id, context>>] = title
    BY <1>7
  <2>. QED
    BY <2>1, KnownNext DEF TitlesKnown
<1>11. \A k \in DOMAIN titlesOf \ {name} : titlesOf'[k] = titlesOf[k]
  <2>1. ASSUME NEW c \in DOMAIN courses, <<tenants[c[1]].slug, c[2]>> # name
        PROVE  titlesOf'[<<tenants[c[1]].slug, c[2]>>]
                 = titlesOf[<<tenants[c[1]].slug, c[2]>>]
    <3>1. c # <<id, context>>
      BY <2>1
    <3>2. c \in DOMAIN courses' /\ courses'[c] = courses[c]
      BY <1>7, <3>1
    <3>. QED
      BY <3>2, TitlesAre, KnownNext DEF TitlesKnown
  <2>2. \A k \in DOMAIN titlesOf :
          \E c \in DOMAIN courses : k = <<tenants[c[1]].slug, c[2]>>
    BY DEF titlesOf
  <2>. HIDE DEF name
  <2>. QED
    BY <2>1, <2>2
<1>12. titlesOf' = [k \in DOMAIN titlesOf \cup {name} |->
                      IF k = name THEN title ELSE titlesOf[k]]
  <2>1. titlesOf' = [k \in DOMAIN titlesOf' |-> titlesOf'[k]]
    BY DEF titlesOf
  <2>. QED
    BY <1>9, <1>10, <1>11, <2>1
<1>13. name \in DOMAIN titlesOf => title # None
  BY <1>3, <1>7, TitlesAre DEF TitlesKnown
<1>14. UNCHANGED <<ownerOf, membersOf>>
  <2>1. \A s : IdOf(s)' = IdOf(s)
    BY DEF IdOf
  <2>. QED
    BY <2>1 DEF ownerOf, membersOf
<1>15. UNCHANGED visitOf
  BY <1>1, OneMoves, Moved, StaysIn DEF Running
<1>. HIDE DEF name, title, context
<1>. QED
  BY <1>2, <1>3, <1>5, <1>6, <1>12, <1>13, <1>14, <1>15 DEF Directory!EnterCourse, title, context

(* A launch that has its user is served.                                   *)
LEMMA UserRefines ==
  ASSUME TenantInv, TenantInv', AllWritten, NEW l \in Launch,
         launch[l].pc \in {"find_user", "create_user"}, Goto(l, "done"),
         users' = users \cup {Member(l)}, UNCHANGED <<tenants, courses>>
  PROVE  Directory!Serve(l)
<1>. DEFINE id == launch[l].tenant
            claims == launch[l].claims
<1>1. TypeOK /\ TypeOK' /\ launch[l].pc \in Running /\ launch[l].pc # "idle"
  BY InvGivesType, KnownNext DEF Running
<1>2. id # 0 /\ HasCourse(l)
  BY DEF AllWritten, Written
<1>3. /\ id \in DOMAIN tenants /\ Directory!Slug(l) = tenants[id].slug
      /\ Directory!Slug(l) \in DOMAIN ownerOf
  BY <1>1, <1>2, TenantIsThere
<1>4. visitOf[l] = [at |-> "in", claims |-> claims]
  BY <1>1, StageIs
<1>5. visitOf[l].at = "in" /\ visitOf[l].claims = claims
  BY <1>4
<1>6. claims.context # None => Directory!Course(l) \in DOMAIN titlesOf
  BY <1>2, <1>3, <1>5, TitlesAre DEF TitlesKnown, HasCourse, Course, Directory!Course
<1>7. membersOf' = membersOf \cup {<<tenants[id].slug, claims.sub>>}
  <2>. DEFINE NameOf(m) == <<tenants[m[1]].slug, m[2]>>
              row == <<id, claims.sub>>
  <2>1. users' = users \cup {row}
    BY DEF Member
  <2>2. membersOf = {NameOf(m) : m \in users}
    BY DEF membersOf
  <2>3. membersOf' = {NameOf(m) : m \in users'}
    BY DEF membersOf
  <2>4. NameOf(row) = <<tenants[id].slug, claims.sub>>
    OBVIOUS
  <2>. HIDE DEF NameOf, row
  <2>. QED
    BY <2>1, <2>2, <2>3, <2>4
<1>8. UNCHANGED <<ownerOf, titlesOf>>
  <2>1. \A s : IdOf(s)' = IdOf(s)
    BY DEF IdOf
  <2>. QED
    BY <2>1 DEF ownerOf, titlesOf
<1>9. Directory!Becomes(l, [at |-> "served"])
  <2>1. \A k \in Launch \ {l} : launch'[k] = launch[k]
    BY <1>1, OneMoves
  <2>2. launch'[l].pc = "done"
    BY <1>1, Moved
  <2>3. StageOf(launch'[l]) = [at |-> "served"]
    BY <2>2, StagesAre
  <2>. QED
    BY <1>1, <2>1, <2>3, OneVisit
<1>. QED
  BY <1>3, <1>5, <1>6, <1>7, <1>8, <1>9 DEF Directory!Serve

LEMMA StepRefines ==
  ASSUME TenantInv, TenantInv', AllWritten, [Next]_vars
  PROVE  [Directory!Next]_(Directory!vars)
<1>1. CASE UNCHANGED vars
  BY <1>1, RowsStay DEF vars, Directory!vars, visitOf
<1>2. ASSUME NEW l \in Launch, NEW claims \in Claims, Start(l, claims)
      PROVE  Directory!Next
  BY <1>2, StartRefines DEF Directory!Next
<1>3. ASSUME NEW l \in Launch,
             FindBySlug(l) \/ FindByPlatformAndClient(l) \/ FindCourse(l) \/ QueryFails(l)
      PROVE  Directory!TurnAway(l) \/ UNCHANGED Directory!vars
  <2>1. launch[l].pc \in Running /\ UNCHANGED <<tenants, courses, users>>
    BY <1>3 DEF FindBySlug, FindByPlatformAndClient, FindCourse, QueryFails, Running
  <2>2. \/ \E pc \in Running \cup {"conflict", "error"} : Goto(l, pc)
        \/ \E id : WithTenant(l, id)
        \/ \E title : WithCourse(l, title)
    BY <1>3 DEF FindBySlug, FindByPlatformAndClient, FindCourse, QueryFails, Running
  <2>. QED
    BY <2>1, <2>2, ReadRefines
<1>4. ASSUME NEW l \in Launch, CreateTenant(l)
      PROVE  Directory!OpenTenant(l) \/ Directory!TurnAway(l) \/ UNCHANGED Directory!vars
  <2>1. launch[l].pc = "create_tenant" /\ UNCHANGED <<courses, users>>
    BY <1>4 DEF CreateTenant
  <2>2. CASE Goto(l, "conflict") /\ UNCHANGED tenants
    BY <2>1, <2>2, ReadRefines DEF Running
  <2>3. CASE ~(Goto(l, "conflict") /\ UNCHANGED tenants)
    BY <1>4, <2>1, <2>3, TenantRefines DEF CreateTenant
  <2>. QED
    BY <2>2, <2>3
<1>5. ASSUME NEW l \in Launch, UpdateTitle(l)
      PROVE  Directory!EnterCourse(l)
  <2>1. Course(l) \in DOMAIN courses
    BY <1>5 DEF UpdateTitle, AllWritten, Written
  <2>2. launch[l].claims.title # None
    BY <1>5 DEF UpdateTitle, TenantInv, GoodLaunches, GoodLaunch
  <2>3. courses' = [k \in DOMAIN courses \cup {Course(l)} |->
                      IF k = Course(l) THEN launch[l].claims.title ELSE courses[k]]
    BY <1>5, <2>1 DEF UpdateTitle
  <2>. QED
    BY <1>5, <2>2, <2>3, CourseRefines DEF UpdateTitle
<1>6. ASSUME NEW l \in Launch, CreateCourse(l)
      PROVE  Directory!EnterCourse(l) \/ Directory!TurnAway(l) \/ UNCHANGED Directory!vars
  <2>1. launch[l].pc = "create_course" /\ UNCHANGED <<tenants, users>>
    BY <1>6 DEF CreateCourse
  <2>2. CASE Goto(l, "conflict") /\ UNCHANGED courses
    BY <2>1, <2>2, ReadRefines DEF Running
  <2>3. CASE ~(Goto(l, "conflict") /\ UNCHANGED courses)
    BY <1>6, <2>1, <2>3, CourseRefines DEF CreateCourse
  <2>. QED
    BY <2>2, <2>3
<1>7. ASSUME NEW l \in Launch, FindUser(l) \/ CreateUser(l)
      PROVE  Directory!Serve(l) \/ Directory!TurnAway(l) \/ UNCHANGED Directory!vars
  <2>1. launch[l].pc \in {"find_user", "create_user"} /\ UNCHANGED <<tenants, courses>>
    BY <1>7 DEF FindUser, CreateUser
  <2>2. CASE Goto(l, "done") /\ users' = users \cup {Member(l)}
    BY <2>1, <2>2, UserRefines
  <2>3. CASE UNCHANGED users /\ \E pc \in {"create_user", "conflict"} : Goto(l, pc)
    BY <2>1, <2>3, ReadRefines DEF Running
  <2>4. \/ Goto(l, "done") /\ users' = users \cup {Member(l)}
        \/ UNCHANGED users /\ \E pc \in {"create_user", "conflict"} : Goto(l, pc)
    BY <1>7 DEF FindUser, CreateUser
  <2>. QED
    BY <2>2, <2>3, <2>4
<1>8. ASSUME NEW l \in Launch, Provision(l) \/ QueryFails(l)
      PROVE  [Directory!Next]_(Directory!vars)
  BY <1>3, <1>4, <1>5, <1>6, <1>7, <1>8 DEF Provision, Directory!Next
<1>. QED
  BY <1>1, <1>2, <1>8 DEF Next

LEMMA InitRefines == Init => Directory!Init
<1>. SUFFICES ASSUME Init PROVE Directory!Init
  OBVIOUS
<1>1. ownerOf = [s \in {} |-> None]
  BY DEF Init, ownerOf
<1>2. titlesOf = [k \in {} |-> None]
  BY DEF Init, titlesOf
<1>3. membersOf = {}
  BY DEF Init, membersOf
<1>4. visitOf = [l \in Launch |-> [at |-> "away"]]
  <2>1. \A l \in Launch : StageOf(launch[l]) = [at |-> "away"]
    BY StagesAre DEF Init
  <2>. QED
    BY <2>1 DEF visitOf
<1>. QED
  BY <1>1, <1>2, <1>3, <1>4 DEF Directory!Init

(* "Provision (or get existing)" (lti_provisioning.rs:25, 55, 87): however *)
(* the queries of the launches interleave and whichever of them fail, each *)
(* step of the service is one step of the directory, or none.              *)
THEOREM DirectoryImplemented == Spec => ImplementsDirectory
<1>1. TenantInv /\ TenantInv' /\ AllWritten /\ [Next]_vars
        => [Directory!Next]_(Directory!vars)
  BY StepRefines
<1>. QED
  BY <1>1, InitRefines, TenantInvHolds, AllWrittenHolds, PTL
     DEF Spec, ImplementsDirectory, Directory!Spec
=============================================================================

# A TLA+ verification of atomic-forge's LTI 1.3 tool

atomic-forge is a set of Rust crates for writing an LTI 1.3 *tool*: a web
application that a learning platform (an LMS) launches inside a course.

| crate | what it is |
|---|---|
| `atomic-lti` | the protocol: tokens, validation, key sets, service calls, and the traits of the stores |
| `atomic-lti-tool` | the tool's handlers as actix functions |
| `atomic-lti-tool-axum` | the same handlers for axum |
| `atomic-oxide` | an example application on actix with a PostgreSQL database |
| `atomic-decay` | the larger application on axum: PostgreSQL stores, tenants, dynamic registration, its own copy of the handlers |
| `atomic-lti-test` | test helpers |

Everything that has to be remembered lives in PostgreSQL tables or in two
process-wide caches. The handlers are `async`: each is a sequence of queries
and HTTP fetches, with other requests, and other servers, running between any
two of them, and a future that is dropped at an `.await` simply stops there.
There are almost no transactions. That is what the models are about.

## 1. Inventory

Each part with its state, its operations, what it talks to, what is hard, and
what makes it correct.

**OIDC login and launch** (`atomic-decay/src/handlers/lti.rs`,
`atomic-lti-tool{,-axum}/src/handlers/{init,redirect,launch}.rs`).
State: the local variables of each request; the browser's cookies
`open_id_<state>` (60 s) and `can_store_cookies`.
Operations: `/lti/init` creates a state and sends the browser to the platform;
`/lti/redirect` checks the platform's token and answers with a form that posts
it to `/lti/launch`, which checks it again, destroys the state and mints the
tool's JWT.
Talks to: state store, platform store, key set cache, key store.
Hard: the row is read, a fetch follows, the row is judged as it was read and
deleted later, so concurrent posts of one form interleave; a DELETE can fail;
three pieces of evidence (state row, token's nonce, cookie) must belong to one
login; a state outlives its cookie.
Correct when: every JWT goes back to one login, by its state, nonce, time and
cookie (not by its platform, see section 5), and a launch cannot be repeated.

**OIDC state store** (`oidc_states`; `db_oidc_state_store.rs`,
`models/oidc_state.rs`). One row for each login: state, nonce, created_at.
`create`, `init` (find by state), `destroy` (delete by id). Nothing collects
old rows.
Correct when: a state is created once, found until destroyed and never again.

**Launch validation** (`atomic-lti/src/validate.rs`). Pure: ten minutes, nonce.

**Tool keys** (`keys`; `db_key_store.rs`, `models/key.rs`). Rows are inserted
by `ensure_keys` at start-up when the table is empty and are never deleted.
`get_current_key` takes the newest, `get_key` looks through the two newest,
`get_current_jwks` publishes the three newest, all by `created_at`.
Hard: several servers start at once on an empty table; they stop between the
look and the insert; their clocks and the order of inserts disagree or tie; more
keys than the limits are left.
Correct when: what one server signed, every server verifies and every platform
finds the key of, unless more keys than the limit were racing when it signed.

**Tool JWT and extractors** (`tool_jwt_store.rs`, `extractors/jwt_claims.rs`,
`tool_jwt.rs`, the middlewares): sign and verify with the keys above.

**Service tokens** (`client_credentials.rs`). State: the `cached` crate's timed
cache (fifteen minutes, one hundred entries) behind one lock that is held while
the function runs, and the loop counter of each running call.
Hard: the lock is held across HTTP requests and sleeps; calls fail, give up or
are dropped while they hold it; a token ages on its way and then in the cache;
keys that leave something out.
Correct when: no needless request is made, the lock is always freed, and what
is returned was granted recently, to the client id that the call is about.

**Just-in-time provisioning** (`lti_provisioning.rs`,
`models/{tenant,course,user}.rs`). Tables `tenants`, `courses`, `users` with
UNIQUE constraints. For each launch: find or create the tenant (by slug, then
by issuer and client id), the course (and refresh its title), the user.
Hard: six to eight separate statements, other launches between them, a failure
anywhere; a slug that forgets part of the registration.
Correct when: racing launches agree on the tenant, an answered launch has its
rows, and a lost race does no harm.

**Platform key sets** (`platforms.rs`). A one-hour cache of each platform's
JWKs behind one lock, held across the fetch. `decode` looks the token's `kid`
up in the set and does not fetch again when it is missing.
Hard: a platform rotates its keys while an old set is cached; fetches fail or
take long; answers could overtake each other.
Correct when: the staleness has a bound, a failure leaves nothing behind, and
every launch is answered.

**Platform store and seeding** (`lti_platforms`; `db_platform_store.rs`,
`seed_platforms.rs`), **registration store** (`lti_registrations`;
`db_registration_store.rs`), **dynamic registration**
(`db_dynamic_registration.rs`, `handlers/dynamic_registration.rs`). Find-then-
insert and find-then-update in separate statements, a cascade from platforms to
registrations, an exchange with the platform of which each step can fail, and
one real transaction at its end.
Correct when: endpoints come from the issuer they are filed under, an update
reaches the row it found or none, and no exchange that succeeded is forgotten.

The tab of the browser is part of the exchange: `/lti/register` draws a form
whose hidden fields are all that `registration_finish` later knows of the
invitation, and the user may post it late, twice, or never.

**Tool configuration** (`dynamic_registration/{tool_configuration,lti_message}.rs`,
`get_client_registration_request`). Pure: the URLs, messages, placements and
scopes a platform is told, made from the address of one request and the
platform's product family.
Hard: `init` and `launch` build the same URLs again, long afterwards, from their
own requests, and compare; port, scheme and path have to come out alike.
Correct when: a tool that was registered can be launched.

**LTI service handlers** (`lti_services.rs`, `names_and_roles.rs`,
`extractors/jwt_claims.rs`) and the **page of a launch** (`client/app.ts`).
State: the page (a roster that is loading, a button that is enabled or not) and
the locals of each request it makes. `names_and_roles` checks the page's JWT,
reads the platform's row, gets a service token and asks the platform for the
roster; `sign_deep_link` checks the JWT and signs a response, which the page
posts to the platform.
Hard: clicks come at any moment, answers are lost after the server has worked,
users leave while their request holds the lock that every page waits for, rows
change between the launch and the request.
Correct when: a page gets a token only of a platform that has launched the tool
under the page's client id, a launch is answered once, the page tells the truth,
and nobody waits for ever.

**ID token** (`id_token.rs`): the claims of a launch. A platform may name one
audience or several; `client_id()` chooses, and the choice is what every later
request of the page acts for.

**Pure parts** without a model: roles, grades, validation helpers, pages, assets
and URLs, configuration. **Browser client**, the rest: the check of the state in
the platform's storage, done by a package outside this repository.

## 2. Modules

    LaunchTicket      what a state promises                 (abstract)
    OidcLaunch        login and launch over the state table (implements LaunchTicket)
    ToolKeys          the keys table and the servers
    SyncCache         what #[cached] makes of a function          (abstract)
    ServiceToken      the token cache, its lock and the retries (implements SyncCache)
    TenantDirectory   tenants, courses and users by name          (abstract)
    Provisioning      the queries that keep them        (implements TenantDirectory)
    Registration      platforms, registrations, seeding, dynamic registration
    JwksCache         the key sets of platforms that rotate their keys
                      (implements SyncCache)
    IdToken           the claims of a launch and what is made of them
    LtiServices       the page and the services (over ServiceToken and IdToken)
    ToolConfiguration what a platform is told of the tool
    DynamicRegistration
                      from the invitation to the row (over Registration and
                      ToolConfiguration)
    MC<module>        the symmetry sets TLC is given
    <module>Proofs    theorems about <module>

Most components share no variable: they meet in the database, in different
tables, or in a call that either works or fails. Their modules stand alone, and
what one takes from another component is a nondeterministic outcome (in
`OidcLaunch`, "the key set was fetched", "a signing key was there"). Where they
do share state they are composed. `LtiServices` extends `ServiceToken`: every
page's handler is one of its calls, and all of them meet at its cache and its
lock. `DynamicRegistration` extends `Registration`: each tab is one of its
processes. Both are checked, and proved, to be behaviours of the module they
extend (`CallsAreServiceToken`, `StoresAsRegistration`), so what holds of the
part holds of the whole.

Every module cuts a handler at its awaits. An action is what runs between two
of them: one statement on the database, or what follows a fetch. An error of an
await, and a future dropped there, are actions too (`Abort`, `InitBreak`,
`QueryFails`, `FinishFails`, `Fails`, `Drop`, `Stop`).

### OidcLaunch

| TLA+ | code |
|---|---|
| `oidc_states`, `created_at` | the table. A state value stands for the pair (state, nonce) that one `create` generates |
| `flow`, `login` | what has become of each `init`, and whom it served |
| `jar` | when each browser's state cookie expires |
| `req` | the locals of each POST to `/lti/redirect` or `/lti/launch` |
| `InitInsert`, `InitRespond`, `InitBreak` | `init`: the insert, the answer with its cookie (which the browser may refuse), a failure or drop in between |
| `Arrive` | decoding the form and reading the row; the cookies are those of the request's headers |
| `Validate` | after the key set was fetched: `validate_launch`; `/lti/redirect` answers |
| `Destroy`, `DestroyError` | the DELETE by id, working or failing, then `target_link_uri` and the cookie |
| `Mint` | the signed JWT |

`PropagateDestroyError` tells the two implementations apart: the libraries
return the DELETE's error with `?`, `atomic-decay` discards it with `let _ =`.

Abstractions. A platform signs only for authorization requests that were sent
and copies their nonce (`Signed`); which platform the browser took the request to
is open, and a token counts for whatever registered platform signed it, because
nothing compares its issuer with the login's. The signature itself is a check
that can fail. `created_at` is taken with the insert. The cookie is looked for by
its exact name, where the code searches the header for the text. The token's
expiry belongs to the JWT library; its audience is checked by nobody, as
`jwks.rs:79` switches that check off (`LtiServices` has what follows from it).

### LaunchTicket

A state as a ticket: unissued, open, closed; a request is admitted while the
ticket is open and is granted a launch only when it is closed. The refinement
mapping reads the ticket off the table (`ticketOf`) and the request off its
program counter (`holderOf`, `shownOf`). Two requests may be admitted on one
ticket and both be granted: the code promises no more (see section 5).

### ToolKeys

`keys` is the table in insert order with `created_at`; `server[p]` is one
process from start to stop. `Ensure` is the look at the table, `Stamp` takes the
time from the server's own clock (`Key::create` does so before its INSERT is
sent), so it is any time and says nothing of the order in which rows land;
`Insert` lands. `Newest(n)` is `ORDER BY created_at DESC LIMIT n` with ties in any
order. A server that stops while inserting has either landed the row or lost it.

`signed` is history: the key of each token with its `Rivals` at the time, the
number of keys that are not older (itself among them) and of servers that are
still making one. A key drops out of a limit of n once n others are newer, and
the code does let that happen, with three servers for `get_key`. The properties
say that it happens only to keys that had more rivals than the limit when they
signed: no start, stop or insert afterwards adds one.

### ServiceToken

`cache`, `lock` and the clock stand for the code the `cached` macro generates;
`call[c]` for one call. `Enter` takes the lock and answers from the cache or
starts the function; `Grant` is the platform making up a token, `Arrive` its
answer being parsed, filed and returned, with the lock held in between;
`RateLimited` and `Refused` are the other answers; `Awake` is the end of the
one-second sleep and the loop's count; `Drop` is a dropped future. An entry is
dated at its arrival, so a token is older than its entry by the time in transit,
`MaxDelay` at most. Which entry a full cache drops is left open. The sleep is
shorter than the clock's unit. `expires_in` is not modelled because nothing reads
it: `RecentOnReturn` says how old a token can be when it is returned, so one that
lives for `Lifespan + MaxDelay` or longer is returned alive, and one that lives
for less, be it exactly `Lifespan`, may be returned expired.

### SyncCache

What `result = true`, `sync_writes = "default"` and a lifespan promise together,
for both functions of `atomic-lti` that carry the attribute: one caller at a
time runs the function, for a key without a fresh value only; a run that ends in
an error, or is dropped, keeps nothing and holds up nobody. There is no lock, no
retry and no platform in it. The mapping reads the entry's age off the cache
(`keptOf`) and a caller's stage off its program counter (`StageOf`): asking,
sleeping and a grant on its way are one stage, so the retries are stutters.

### Provisioning

One step for each query of `provision_tenant`, `provision_course` and
`provision_user`, in the order of the code, over the tables with their UNIQUE
constraints. `Rest` stands for whatever of a registration the slug forgets: the
issuer's path, letter case, the rest of the client id after eight characters,
the slug's end after fifty. `course` is the title on the course that is
returned.

### TenantDirectory

"Provision (or get existing)" without ids or queries: a launch brings the names
of its tenant (a slug), course and user; each name that is missing is entered in
one step, an entry stays, only a launch with a title changes a title, and a
launch is served when its names are there. The mapping replaces ids by slugs
(`ownerOf`, `titlesOf`, `membersOf`). A look at a table is a stutter, so what a
launch has looked at and others have changed since must not show in what it
writes.

### Registration

| TLA+ | code |
|---|---|
| `platforms`, `next_id` | `lti_platforms`, UNIQUE by issuer, with its serial |
| `registrations` | `lti_registrations`, UNIQUE by platform id and client id; rows go only by the cascade |
| `clients` | what the platforms, outside, have registered |
| `op[p]` | the locals of each handler and of each starting server |
| `lost` | history: clients left unknown by a failed exchange or a deleted platform |
| `RegisterTool`, `FetchConfig`, `Store`, `FinishFails` | `registration_finish`: register at the platform; fetch its document again and compare hosts; the transaction; a failure in between |
| `SeedBegin`, `SeedFind`, `SeedCreate` | `seed_platforms`, one query at a time, errors passed over |
| `UpdatePlatformFind`, `UpdatePlatform` | find by issuer, then UPDATE by id |
| `CreateFind`, `CreateRegistration`, `Update...` | the registration store, find and then write |

An issuer stands for its host: `validate_platform_config` compares hosts. A
row's three URLs are one value, where they come from: an issuer's document, an
administrator, the static table. A registration row keeps the status and the
capabilities, the columns that different writers write. The model is
`atomic-decay`'s. `atomic-oxide` has the same seeding and the same registration
store; its platform store differs in that an update keeps the name when none is
given and that a delete looks for the row first, and neither its
`handle_platform_response` nor the finish handler of `atomic-lti-tool-axum`
stores anything, which their comments call unfinished.

### JwksCache

`jwks[u]` is a platform's list of keys with the times at which it published and
withdrew each; a `kid` is a position. `Enter` takes the lock and either decodes
with the cached set or (`Miss`) drops an old entry and sends the request;
`Serve` is the platform making up its answer, `Arrive` that answer being kept
and the token looked up, `Fails` an error, of which nothing is kept.
`Published` is what the document says at the moment. `served_at` and `at` are
history. A launch decodes without an await after it got the set, so both are
one step. The signature itself is assumed good: the subject is the `kid`.

### IdToken and LtiServices

| TLA+ | code |
|---|---|
| `Claims`, `Decode`, `client_id` | the token a platform signs; `aud_deserializer`, `auds_deserializer`; the client it is for |
| `session`, `build_jwt` | the JWT that the page is given: `ToolJwtStore::build_jwt` |
| `page`, `OpenPage`, `Offers` | what `app.ts` shows: a button if there are deep linking settings, a roster if there is an endpoint |
| `Click`, `Submit`, `SignFailed`, `RosterArrives`, `RosterLost`, `LeavePage` | the handlers and promises of `app.ts` |
| `AllowRoster` | the extractor and the key that signs |
| `AskForToken`, `NoTokenUrl`, `TokenStep`, `Listed` | `names_and_roles`: the row, the call of `request_service_token_cached` with all of its steps, the platform's list |
| `SignDeepLink`, `Payload` | `sign_deep_link`, `DeepLinkPayload::new` |
| `Launched` | the platforms that have launched pages, and as which client |
| `DropRoster` | axum drops the handler when its connection closes, in whatever it was waiting for |
| `SetPlatform` | a registration, seeding or update of the row |
| `Receive`, `responses` | the platform, when the form reaches it |

A launch's audience is whatever the platform signed, since nothing checks it: a
page may act for a client id that is the tool's at another platform.

Abstractions. A page asks for the roster once, so its call bears its name. A
row that was deleted, a query that fails and a key that is missing are refusals
that can happen at any time. The server answers a signature whether or not the
page is still there, but an answer to a page that has gone changes nothing and
is left out. Titles, roles and members are left out. The model is that of
`atomic-decay`; the button of `atomic-oxide` is never disabled, so `SubmittedOnce`
is not claimed of it.

### ToolConfiguration and DynamicRegistration

| TLA+ | code |
|---|---|
| `NewMessage`, `SetDeepLinkingType`, `Add...Placement`, `MessageTarget`, `BuildMessage` | `LtiMessageBuilder` |
| `NewTool`, `AddScope`, `AddMessage`, `BuildTool` | `ToolConfigurationBuilder` |
| `ClientRegistrationRequest` | `get_client_registration_request` |
| `Routes`, `RedirectUrl`, `TargetAgrees` | the router, and the URLs that `init` and `launch` build and compare |
| `document` | the openid-configuration that a platform publishes, and may change |
| `tab` | what the administrator's tab shows, or the request it waits for |
| `held` | the configuration each platform keeps of each client |
| `Register`, `FormOf` | `register` and the hidden fields of its page |
| `Submit`, `Receive`, `PostFails` | `registration_finish` up to `register_tool`, and the platform's answer |
| `Refetch`, `Complete`, `Fail` | the rest, which is `FetchConfig`, `Store` and `FinishFails` of `Registration` |

Abstractions. A URL is a scheme, a name with a port, and a path; `Parsed` is
what `Url::parse` does to a default port. Labels, icons, roles, custom
parameters and claims are left out; the builders' errors are missing fields,
and `get_client_registration_request` sets them all. Forms are posted as they
were drawn, although the source calls them client-editable
(`atomic-lti-tool/src/handlers/dynamic_registration.rs:49-53`): against an edited
one there is the second fetch, with the comparison of hosts, which `Registration`
has. `RegisteredToolLaunches` is about URLs and says nothing of cookies: at a host
with a port, `init` sets `Domain=host:port` (`lti.rs:217-234`), which browsers
ignore, so a launch there needs the platform's storage. A tab waits for one
request at a time. Seeding and administration race registrations in
`Registration` itself and are not repeated here; deletes are, because they
decide what `Complete` finds.

## 3. Runs

| run | instance | shows |
|---|---|---|
| `launch_binding` | `atomic-decay`'s variant, 1 request, 2 states, 2 issuers, 2 browsers | `LaunchBinding`: every JWT goes back to one login by its state, nonce, time and cookie |
| `launch_once` | the libraries' variant, 2 requests, 2 states, no symmetry | a consumed state has no row, `LaunchTicket` is implemented (so a closed ticket admits nobody), every request is answered |
| `launch_replay` | `atomic-decay`, 2 requests, 1 state | *violated*: a failed DELETE leaves the launch repeatable |
| `provision` | 3 launches, 4 registrations of which pairs share a slug, 2 titles | one tenant for a slug, complete answers, harmless conflicts, `TenantDirectory` is implemented (so no title is erased) |
| `provision_isolation` | 2 registrations with one slug | *violated*: they share a tenant |
| `keys` | 4 servers with clocks of their own, 4 instants | one key for each server; a key that signed drops out of `get_key` or `/jwks` only if it was outraced |
| `tokens` | 3 calls, 2 clients, room for 1 entry | no second fetch, `SyncCache` is implemented (so the lock is freed), recent tokens, every call ends |
| `services` | 2 pages, 2 platforms of which 1 has two endpoints and may sign the other's client id, and 1 names two audiences, 2 clicks, no symmetry | a token is that of a platform that launched under the page's client id, a launch is answered once, the page tells the truth, nobody waits for ever, `ServiceToken` is implemented |
| `deep_link_audience` | the same, 1 click | *violated*: the response is not addressed to the platform |
| `registration` | 2 processes, 2 platforms of which 1 is seeded, 1 client id | own endpoints, no forgotten client, no update of another row, registering again keeps what was set |
| `jwks` | 2 launches, 2 platforms with up to 2 keys | bounded staleness both ways, no older set over a later one, `SyncCache` is implemented, every launch is answered |
| `dynamic` | 2 tabs, 2 platforms with 3 endpoints, 2 product families, https on a port of its own and http | requests go where they were invited, registered tools can be launched, the tables change as in `Registration` |

**Bounds.** `LaunchBinding` speaks of one request at a time, so one request
with two of everything it could be confused with (state, issuer, browser)
contains every wrong combination; times run past the end of the cookie and of
the state. The races about one state need two requests. A tenant race needs two
launches, and a third to come after it or to take part under another
registration. Four servers leave up to four keys, more than `get_key` looks
through and more than `/jwks` publishes, in any order of `created_at` and with
ties; any number of servers is in the proofs. The clock of `tokens` runs past the
end of a delay and a lifespan. Three calls contend for the
token lock while one holds it and another is dropped; one place in the cache
forces an eviction with every second client. In `registration` every race is
between two processes, or one and the steps that need none (a create or a
delete of a platform is one statement); two ids let a platform be deleted and
created anew under an update that found the old row. Client ids are handed out
by each platform, so one is enough to have it on both. In `jwks` a rotation
needs two keys, and the clock runs to the end of the longest staleness, a
lifespan and a delay. In `services` two pages are a holder and a waiter of the
lock, or two users of one cached token; the second click is the one after a
refusal; of the two offers, signatures and rosters share only the page, so one
page has both and the other a roster. A JWT lives for no time there, so that it
expires under way. In `dynamic` the second tab is another invitation or the
same one again, and a document can move between any two steps. `MaxClicks` bounds the
clicks on a page, `MaxId` bounds the serial, `MaxKeys` the rotations and
`MaxTime` the clock of the other modules; nothing else is bounded. Deadlock is
not checked, because requests, launches and calls finish, the clock stops and
ids run out.

**Symmetry** is used only in runs without liveness.

**Fairness.** `OidcLaunch!FairSpec`: weak fairness of the next step of each
request, because the runtime polls every ready task and queries and fetches
return, with a result or an error; that they *succeed* is not assumed, an error
is an action too. `ServiceToken!FairSpec`: strong fairness of taking the lock,
because tokio's lock serves its waiters in order; weak fairness of waking, a
timer; weak fairness of the platform's answer, which is an assumption about
platforms: the HTTP client sets no timeout, and without it one silent platform
stops every caller of every platform. `JwksCache!FairSpec` assumes the same of
its lock and its platforms. `MaxDelay` of both modules, the longest that an answer
is on its way, is an assumption about the network, made in the guard of `Tick`.
`LtiServices!FairServicesSpec`: strong fairness of taking the lock, as in
`ServiceToken`; weak fairness of each handler's next step and of the platforms'
answers to it, of `sign_deep_link`, and of an answer's arrival at the page,
which may be the news that it was lost. No user has to click, stay or leave.

## 4. Proofs

TLAPS checks these for every value of the constants, under each module's named
assumption (lifetimes and limits are numbers, positive where zero would make no
sense; sets that a choice is made from are not empty).

| theorem | says |
|---|---|
| `OidcLaunchProofs!TypeCorrect`, `Binding`, `ConsumedGone`, `NoReplay`, `TicketImplemented` | `TypeOK`, `LaunchBinding`, `ConsumedStateIsGone`; `NoLookupAfterConsumption` and `ImplementsTicket` where `PropagateDestroyError` |
| `OidcLaunchProofs!ReplayNeedsFailure` | in either variant, a consumed state admits a later request only if its DELETE failed and was passed over: what run `launch_replay` shows is the only way |
| `ProvisioningProofs!TypeCorrect`, `OneTenant`, `TitleStays`, `Provisioned`, `ConflictsArePresent` | `TypeOK`, `OneTenantPerSlug`, `TitleIsKept`, `DoneIsProvisioned`, `ConflictMeansPresent` |
| `ProvisioningProofs!IsolationNeedsSlugs` | `TenantIsolation` exactly as long as the slugs of the registrations that have launched differ |
| `ProvisioningProofs!DirectoryImplemented` | `ImplementsDirectory` |
| `ToolKeysProofs!TypeCorrect`, `OneKey`, `CanSign`, `Verifies`, `Publishes` | `TypeOK`, `OneKeyPerServer`, `ServingHasKey`, `VerifiedUnlessOutraced`, `PublishedUnlessOutraced`, for any number of servers and any clocks |
| `ToolKeysProofs!KeysSettle` | once the race for an empty table is over no key is ever added |
| `ServiceTokenProofs!TypeCorrect`, `NobodyFetchesTwice`, `LockIsFreed`, `TokensAreMemoized` | `TypeOK`, `NoSecondFetch`, `LockIsReleased`, `ImplementsSyncCache` |
| `ServiceTokenProofs!TokensAreYoung` | `RecentOnReturn`: a returned token was granted less than `Lifespan + MaxDelay` ago |
| `ServiceTokenProofs!RetriesEnd` | a call that has begun takes at most `2 * Tries + 1` steps, whatever others do |
| `RegistrationProofs!TypeCorrect`, `EndpointsAreOwn`, `Recording`, `OnlyOwnUpdates`, `RegisteringAgain` | `TypeOK`, `OwnEndpoints`, `ClientsAreRecorded`, `OnlyItsOwnUpdates`, `RegisteringAgainKeeps` |
| `JwksCacheProofs!TypeCorrect`, `AcceptedInTime`, `RefusedInTime`, `NoStepBack`, `KeySetsAreMemoized` | `TypeOK`, `AcceptedIsRecent`, `RefusedIsRecent`, `NeverOlder`, `ImplementsSyncCache` |
| `LtiServicesProofs!ServicesTypeCorrect`, `TokensAreOwn`, `AnsweredOnce`, `PageIsTrue` | `ServicesTypeOK`, `OwnToken`, `SubmittedOnce`, `PageTells` |
| `LtiServicesProofs!CallsRefine`, `PagesShareOneFetch` | `CallsAreServiceToken`; with it `NoSecondFetch` and `LockIsReleased` under the pages |
| `LtiServicesProofs!PagesAreMemoized`, `PagesGetRecentTokens` | `ImplementsSyncCache` and `RecentOnReturn` for the pages |
| `DynamicRegistrationProofs!DynamicTypeCorrect`, `InvitationsAreKept`, `RegisteredToolsLaunch` | `DynamicTypeOK`, `RegisteredAsInvited`, `RegisteredToolLaunches` |
| `DynamicRegistrationProofs!FinishRefines`, `FormsKeepTables` | `StoresAsRegistration`; with it `OwnEndpoints` and `ClientsAreRecorded` for registrations that come from forms |

The arguments:

* **Binding.** Each conjunct of `LaunchBinding` is established at a different
  step, so the inductive invariant says of a request, at each program counter,
  what has been checked so far; and of the rest, that a row, a cookie and an
  authorization request exist only for a login that happened, and that a
  cookie sits only in the jar of the browser that logged in. `login` and
  `created_at` of a state never change after its insert.
* **ConsumedGone, NoReplay.** A state is inserted once (`flow` leaves
  `"unused"` for ever), so a row that was deleted does not come back; a request
  past `Destroy` therefore has no row, or is recorded in `ignored`. Where
  errors propagate, `ignored` stays empty.
* **TicketImplemented.** A step of the handlers changes one request, so one
  holder (`OneHolder`), and at most one row, so one ticket; `Arrive` is `Admit`
  or `Release`, `Destroy` is `Close`, `Mint` is `Grant`, an answer with an error
  is `Release`. `Mint` needs the invariant: its row is gone because `ignored` is
  empty, which is where the proof uses `PropagateDestroyError`.
* **OneTenant.** Two facts make it inductive: slugs are unique in the table,
  and the slug of a row is the slug of its registration. The second makes the
  second lookup (by registration) agree with the first, and rows never change,
  so a launch's tenant stays the one for its slug.
* **Provisioned, ConflictsArePresent.** Rows of the three tables are never
  deleted and keep their keys, so what a launch found or wrote stays; the
  invariant says of each program counter what that is so far, and of a failed
  INSERT which row stood in its way.
* **DirectoryImplemented.** Slugs are unique in the table, so an id and its slug
  name the same tenant (`OwnersAre`, `TitlesAre`), and a new tenant has no
  courses or users yet, so its INSERT enters one name and nothing else. The
  UPDATE of a title and the INSERTs of courses and users are the directory's
  steps with the names of the launch; that a launch served is one whose names
  are there comes from the invariant of `Provisioned`. Everything else reads,
  fails or loses a race.
* **IsolationNeedsSlugs.** The converse of the finding, from `OneTenant`: nothing
  but the slug can mix two registrations.
* **OneKey, Verifies, Publishes.** A key by `p` exists only if `p` passed
  `Ensure` on an empty table, and while `p` is between the look and the insert
  it has no key, so keys map one-to-one into servers. The rivals of a key that
  is in the table never grow: a server that inserts was already making its key,
  so it is counted before as it is after, and nobody starts to make one while
  the table has a key. And a key that some `Newest(n)` leaves out has n others
  that are not older, hence more than n rivals. **KeysSettle**: a server inserts
  only if it saw an empty table, which no later one does.
* **NobodyFetchesTwice, LockIsFreed.** The inductive invariant makes the lock
  and the program counters say the same thing: a call is between `Enter` and
  its end exactly when it holds the lock. The entry of the key in question was
  removed on entry, and only the holder writes.
* **TokensAreMemoized, KeySetsAreMemoized.** Each step changes one caller, so one
  stage, and at most one entry. `Run` needs the invariant above: nobody else
  runs, because who runs has the lock. `PagesAreMemoized` and
  `PagesGetRecentTokens` follow from `CallsRefine`.
* **TokensAreYoung.** The invariant dates every token: on its way it is at most
  `MaxDelay` old, so its entry is dated no later than that after the grant, and
  it is handed out only while the entry is fresh. **RetriesEnd**: `Left` counts the steps a call can still take;
  only its own steps change it, and they take it down.
* **Recording, EndpointsAreOwn.** Ids come from a serial, so they are unique and
  below `next_id`; without that the cascade of one platform could take the
  registrations of another. A running exchange knows a client that its platform
  has registered, and after `FetchConfig` carries that platform's own
  endpoints. A record goes only with its platform, and then its client is
  `lost`.
* **AcceptedInTime, RefusedInTime.** The invariant says of every set, cached or
  on its way, what was true when the platform made it up: a key in it was not
  withdrawn before, a key not in it was withdrawn before or published after.
  A set is at most `MaxDelay` old when it is kept and kept for less than
  `Lifespan`. **NoStepBack**: who fetches holds the lock and has taken the
  entry out.

* **CallsRefine.** Each step of a page or handler leaves `ServiceToken`'s
  variables alone or is one of its steps. `Begin` is the one with an
  obligation: a call begins once, from "idle", with arguments of the right type,
  because a roster is "allowed" only for a page that has its JWT.
* **TokensAreOwn.** A call's endpoint was read from the row of the page's
  platform, and an endpoint never changes its owner; so what the call asks for,
  and what is cached for it, is issued by a platform that has launched the tool
  under the client id it is filed under. The cache outlives changes of the rows,
  so the invariant speaks of the owner of the endpoint and not of the row; a page
  keeps its JWT, so `Launched` only grows. No audience is assumed: a page of one
  platform may bring the client id of another, and the two then share tokens.
* **AnsweredOnce, PageIsTrue.** The button is busy exactly while one click is
  under way, and a click needs a ready one; a response is received from a page
  that goes with it.
* **FinishRefines, InvitationsAreKept.** A form's endpoint and issuer were drawn
  from one document, and an endpoint never changes its owner; so the client is
  registered at the platform under whose issuer it is looked up and stored.
* **RegisteredToolsLaunch.** Every URL that is told is the front's scheme and
  host with a path of `Routes`, and fronts are as `Url::parse` leaves them, so
  what `launch` parses and what it builds agree. The premise is https: see
  below.

Only model-checked: liveness (`EveryRequestEnds`, `EveryCallEnds`,
`EveryLaunchIsAnswered`, `PageSettles`), which TLAPS does not do under fairness.
`TitleIsKept`, `LockIsReleased` and
`ServingHasKey` are proved and not run: the refinements and the other runs say
more.

## 5. Where the code and its documents disagree

Shown by a run:

* `launch_replay`: in `atomic-decay` a failed DELETE is discarded, and a test
  asserts that the state is destroyed after a successful launch.
* `provision_isolation`: "each tool registration gets its own isolated tenant",
  but the tenant found by slug is used without comparing its registration.
* `deep_link_audience`: the audience of a deep linking response is the "iss from
  id token", but `atomic-decay` passes the `iss` of its own JWT, the tool's host.

What the models say where a stronger statement would be wrong:

* Reading a state's row and deleting it are two statements, and the number of
  deleted rows is not looked at: `LaunchTicket` lets two launches that overlap
  both be granted.
* Nothing compares the issuer of a token with that of the login it is posted for:
  `validate.rs:29-50` checks state, age and nonce, and `oidc_states.issuer` is
  never set, although `atomic-lti/README.md:261` says "The issuer field allows
  associating OIDC state with specific platforms, enabling proper state validation
  in multi-platform scenarios". So `LaunchBinding` says nothing of the platform: an
  authorization request that is carried to another registered platform launches
  from there.
* `get_key` ("Get a key by the kid", `atomic-lti/src/stores/key_store.rs:17`) looks
  through two keys while three are published. When three servers race for an
  empty table, or four for `/jwks`, a key that signed drops out for ever;
  `VerifiedUnlessOutraced` and `PublishedUnlessOutraced` say that this race is the
  only way.
* The token cache is keyed without the platform, and the audience of a launch is
  not checked (`jwks.rs:79`): `OwnToken` says "by a platform that has launched the
  tool under the same client id", its own or another.
* `expires_in` is never read: a token that lives for less than a cache entry's
  fifteen minutes and its time in transit is returned after it has expired.
* A registration that comes in through plain http tells the platform http URLs,
  which `init` (always https) and `launch` then refuse: the premise of
  `RegisteredToolLaunches`.
* `client_id()` promises azp when there are several audiences, but `auds` is
  read from a claim "auds" that no platform sends, so it is the first of `aud`,
  whoever that is.

Met while reading, outside what is modelled: the key of `IdToken::data` ends in
a blank, so the platform's deep linking `data` is never returned;
`names_and_roles::list` looks for a header named `rel="next"`, so further pages
are never asked for; `line_items::delete` parses a body that a platform need not
send; `LtiMessage` posts `null` for placements it has none of.

## 6. Not modelled, and why

* HTML, assets, request URLs and error texts, and the reading of configuration:
  no state, no ordering.
* Roles and grades (`roles.rs`, `assignment_grade_services/`): predicates on
  strings, and single requests to a platform that no handler makes.
* `atomic-lti-tool-axum`'s dynamic registration and deep link handlers post and
  sign fixed example values; its launch validator has no caller.
* The platform store of `atomic-oxide`, where it differs (see Registration), and
  its page, which neither disables its button nor looks at the status of an
  answer.
* The check of the state in the platform's storage, in the browser: a package
  outside the repository. A page is drawn or it is not.
* `Tenant::update_name`, `User::update`, `create_with_issuer`, `find_by_state`,
  `destroy_by_state` and the key store's `destroy*`: no caller but tests.
* Rows of abandoned logins are never collected; the model keeps them too.

Much of the repository is of these kinds, or is a second copy of what is
modelled: the crates hold the login and the launch three times and the stores
twice, and each definition is mapped to one of the copies.

## 7. Plan

Done: the modules above with their proofs; every safety property that a run
checks is proved. What is left to prove is one more abstraction: the tables of
`Registration` as a directory by issuer and client id, which `DynamicRegistration`
would then inherit through `StoresAsRegistration` as the pages inherit
`SyncCache`; and the bounds of `JwksCache` restated for the launches of
`OidcLaunch`, which today takes "the key set was fetched" as given.

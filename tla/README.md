# Verification of Flyio.Demo

TLA+ specifications of the modular monolith in `src/`, the TLC configurations
that check them on small instances, and theorems about them that TLAPS has
checked. The reference is the code; where a library decides what happens (EF
Core, Blazor's enhanced navigation, Duende's token management, HotChocolate,
`EventSource`), the model has what the code relies on, and says so.

Paths below are relative to the repository's `src/` directory, which holds the
projects.

## The system

```
 browser ── Web (Blazor SSR, page scripts, OIDC cookie, token store)
    │          │ bearer token of the subject
    │          ▼
    └─────► ApiService ──┐              GraphQLService
              │ Heart    │ Todos              │ Todos
              │          ▼                    ▼
              │        one PostgreSQL schema, migrated by both hosts
              └─ in-process mediator: TodoIsDoneEvent → TodoIsDoneIntegrationEvent → Heart
```

### Inventory

| Component | State | Operations | What is hard |
| --- | --- | --- | --- |
| Todos module (`Flyio.Demo.Todos`) | table `Todos`; per request a `TodosDbContext`: tracked entities with their original tokens and domain events | create, set done, get, get all, `SaveChangesAsync` | read, change and save are three steps, from two hosts; a scope that outlives a failed save |
| Save interceptors (`Flyio.Demo.Module.SharedKernel`) | table `AuditTrails`; audit entries added to the tracker | audit every tracked entity, set `TenantId` | they work on the tracker before the transaction, so a failed save leaves their work behind |
| Events (`Flyio.Demo.SharedKernel`, `Todos/Integrations`) | the events on the tracked entities | collect, clear, publish after the commit | crash between commit and publish; a publish that throws |
| REST api (`Flyio.Demo.ApiService`) | none of its own | one command per request, for callers with a tenant | |
| GraphQL host (`Flyio.Demo.GraphQLService`) | none of its own | several mutation fields in one scope, queries | what one field leaves in the scope is what the next one finds |
| Heart: event handler | none | receives the integration event | only the Api has it among its assemblies |
| Heart: stream (`Heart/Endpoints`, `Web/Program.cs`, `Home.razor.js`) | a generator per request, a proxy handler, an `EventSource` | open, relay, cancel, reconnect | cancellation along three processes, re-entry of the page, errors |
| Page scripts (`Web/wwwroot/*.lib.module.js`, `PageScript.razor`) | map of scripts, reference counts, modules | register, unregister, import, dispose | imports resolve after the page has gone, or gone and come back |
| Web sessions (`Web/SessionManagement`) | cookie per browser; in-memory token store per subject | sign in, call the api, refresh, sign out | one store entry for all browsers of a subject; restart |
| Migrations (`Todos/Infra/MigrationDbTask.cs`, `Todos/Migrations`) | history table, schema | migrate at startup | two hosts and several builds on one database |
| Pages of the web application | form and search box | list, create | the create form ignores the status of its `POST` |
| Terraform resource (`AppHost/Terraform.cs`) | the state of the resource on the dashboard; a process and two pipes per command | init, plan, apply, destroy | commands overlap, fail to start or are cancelled; the pipes of a process that is waited for |
| Role claims, AppHost, ServiceDefaults | none at run time | | |

Components interact in four ways: by the shared database (the two hosts), by
in-process publication (Todos → Heart), by HTTP calls that carry a token or a
stream (browser → Web → Api), and by callbacks (Blazor → page scripts).

### What makes each component correct

- *Todos*: of concurrent requests to finish a todo one wins and the others are
  told so; a finished todo is never written again; the rest of the monolith is
  told once, after the commit and before the client, and an event that is lost
  is not lost in silence; the audit table tells the story of the rows; no
  tenant sees or touches the rows of another; what a client was told stays true,
  and what it was refused has a cause.
- *Page scripts*: reference counts are exact, a script runs once and only on
  its page, and it is started if its page stays.
- *Stream*: the browser is fed only while the page is shown, what it leaves is
  released everywhere, and what it loses comes back.
- *Sessions*: a token belongs to its subject; failures are explained by
  something the user did or a fault; a sign-out reaches all browsers; a session
  that was replaced or ended comes back through a refresh under way at most.
- *Migrations*: a host that serves finds its schema; once there are tenants,
  every todo has one; a start ends.
- *Terraform resource*: it is not left running; a command reports what its
  process did; commands and processes end, however much is written.

`PROJECT.json` lists the hazards behind these, each at its line. Two have no
property, since the code does what they warn of and nothing in the repository
promises otherwise: the create form ignores the status of its `POST`
(`ApiServiceApiClient.cs:28`), and of two commands of the Terraform resource
that overlap, the first to end shows it as finished (`Terraform.cs:83`).
`ErrorsHaveCause` and `StateHasCause` leave just these cases out.

## Modules

| Module | What it is |
| --- | --- |
| `TodoLifecycle` | abstract: absent → open → done, then announced, once |
| `Todos` | the Todos module, both hosts, interceptors, dispatcher, Heart's handler; implements `TodoLifecycle` |
| `TodosProofs` | theorems about `Todos`: rows, events, the refinement, and that requests only advance |
| `TodosAnswersProofs` | theorems about `Todos`: answers, tenants and audits; extends `TodosProofs` |
| `TodosEventsProofs` | theorems about `Todos`: what answers say about events, and refusals; extends `TodosAnswersProofs` |
| `ScriptLifecycle` | abstract: which page scripts run, given the page on screen |
| `PageScripts` | the page-script element and Blazor's merging; implements `ScriptLifecycle` |
| `PageScriptsProofs` | theorems about `PageScripts` |
| `HeartRate` | the stream through browser, web application and api; takes the page scripts by `INSTANCE ScriptLifecycle`, that is by what `PageScripts` was shown to implement |
| `HeartRateProofs` | theorems about `HeartRate` |
| `SessionLifecycle` | abstract: which session a subject has, and which one a refresh may bring back |
| `WebSessions`, `WebSessionsProofs` | cookies and the token store; implements `SessionLifecycle`; theorems |
| `Migrations`, `MigrationsProofs` | migrations at startup; theorems |
| `Terraform`, `TerraformProofs` | the commands of the Terraform resource; theorems |
| `MCTodos`, `MCPageScripts`, `MCHeartRate`, `MCWebSessions`, `MCMigrations`, `MCTerraform` | the sets and symmetries TLC is given |

The mutants (definitions commented "Mutant") are forms of a mapped definition
that a plausible bug would give it. Each property of each passing run has one
that breaks it; no specification uses them.

### Todos

A request is one dependency-injection scope and so one `TodosDbContext`. Its
local state is `pc`, `script` (the commands it asks for), `answers`, `entries`
(the change tracker), `audits` (entries added by the interceptor but not saved),
`queue` (`entitiesWithEvents` still to dispatch) and `target`.

| Action | Code |
| --- | --- |
| `Arrive` | endpoint, `RequireTenant` of the `v1/todos` group, or 403; on GraphQL `[Authorize]` only |
| `Create`, `SetDone`, `Get`, `GetAll` | the four handlers with `TodoEntity`, up to `SaveChangesAsync`. `SetDone` reads the database for visibility and answers from the tracker |
| `Save`, `SaveRejected` | interceptors, transaction, NOT NULL and key constraints, concurrency tokens, `AcceptAllChanges` |
| `SaveFails`, `SaveUnacknowledged` | the database cannot be reached, or a commit of which the host never hears, directly or through a retry of the execution strategy that meets its own commit |
| `Publish`, `PublishThrows`, `Return` | one step per entity in `DispatchAndClearEventsAsync`, then the answer |
| `Abort`, `Crash` | a GraphQL client that leaves between two fields; a host that stops |

`ModifiedBy` and `ModifiedAt`, the two concurrency tokens, are one stamp: the
request that wrote the row. That takes two requests not to write the same user
at the same instant of the clock, which the tokens themselves take.
`UnhandledPublishThrows` leaves open whether the mediator throws on a
notification that no handler takes; proofs cover both answers. After a mutation
field that threw, HotChocolate may go on with the next field or give up,
depending on nullability; both are possible in the model. Where it goes on, the
client may still be shown the error alone, as the payloads are not null
(`schema.graphql:17`). The model keeps the answers of all fields, which is the
stronger reading for what is said of answers: what holds of all of them holds of
those that are delivered.
Initially there may be open todos of any tenant, each with its audit entry.

### Page scripts

JavaScript runs to completion, so `turn` separates a merge (`start` for the
first document, `merge` for an enhanced navigation), in which element callbacks
run in any order and then `onEnhancedLoad`, from `idle`, in which imports
resolve. `AttributeChanged` and `Disconnected` are the two callbacks,
`Started` and `EnhancedLoad` end the merge, `Resolve` and `Reject` are the two
ends of `initializePageScriptModule`, `Navigate` and `Reload` the user.
`running` counts `onLoad` calls less `onDispose` calls and is not in the code.
A rejected import leaves its object in the map without a module: the script is
`Stuck` until its page is left, which the abstract module calls `broken`.

### Stream

`source` and `conn` are the `EventSource` of `Home.razor.js`; `web` the handler
of `MapGet heart-rate` with `SubscribeHeartRateAsync`; `api` the generator of
the Heart endpoints; `buffered` what is on its way. An `EventSource` asks again
after a lost connection and is closed for good by an answer that is no stream. An
answer that ends before the browser has seen anything of it may be such a one
(`Ends`), be it that the call to the api fails, that the stream of the api is
over at once, or that a machine stops; and while the web application is away,
the proxy of fly.io answers for it (`Unavailable`). `ImportFails` is the failing
import that `ScriptLifecycle` allows for.

### Sessions

One machine of the web application. `tokens` is `_tokens`; `TokenValidated`,
`ValidatePrincipal`, `SigningOut`/`Revoke`/`ClearToken` are the event handlers,
cut where they wait for Keycloak; `GetToken`, `Refresh`, `StoreToken`, `Send`
the access-token handler as the web application uses it. A call that the api
refuses ends as "error" on a page that shows todos and as "dropped" in the
create form, which does not look at the status (`Refused`, `ApiFails`).
`disturbed` and `settled` are history variables for the properties.

The refinement of `SessionLifecycle` maps the store to the session of each
subject (`Current`) and the requests that refresh to the sessions they may yet
store (`Carried`).

### Migrations

`version` is the length of the applied prefix of the three migrations. Each
host asks for the migration lock, applies what its build has more, one
transaction each (`Up`), and serves. `KeepsRows` says which migrations can be
applied to a table with rows: `Done` has a default, `TenantId` has none. A start
fails because of such rows (`UpFails`) or for any other reason for which
`MigrateAsync` throws (`StartThrows`: the database is away, a wait takes too
long, the start is cancelled). `owned` is the column `TenantId` of the rows:
those whose tenant was inserted with them.

### Terraform resource

A call of `ExecuteAsync` is cut at its awaits: `Execute` publishes the resource
as running, `Start` and `StartThrows` are the two ends of `process.Start`,
`Waited` and `Cancelled` those of `WaitForExitAsync`, `Report` takes both
outputs and the exit code, `Finally` publishes the resource as finished. `Write`
and `Exit` are the program, `Read` the two `ReadToEndAsync`, which begin before
the wait and survive a cancellation. `overtaken` is a history variable.

## Runs

All bounds are in the configurations. They are the least at which the hazards
meet: two requests of a race and a third that comes later; two todos, so that
one scope holds one of each state; two tenants; enough faults to hit two
different steps of one request.

| Run | Instance | Shows |
| --- | --- | --- |
| `todos_single` | 3 requests of one command, 2 todos, callers of 2 tenants, of none and without email, both hosts, 1 fault, unhandled events throw (867 k states) | one winner, one audit entry per change, true conflicts, isolation of tenants, rows only advance, the event is out before the answer |
| `todos_batch` | 2 GraphQL requests of up to 3 fields, 2 todos, 2 faults (811 k) | the scope that outlives failures: at most one event, answers hold, audits match, lost events are noticed, conflicts have a cause, `TodoLifecycle` implemented |
| `todos_live` | 2 requests, up to 2 fields, callers with and without email, both hosts, no fault (139 k) | requests end, also those whose save is rejected; the fair lifecycle; Heart hears of what the Api finished |
| `scripts_safe` | 2 scripts, 3 places, 4 objects, failing imports (31 k) | exact counts, no script off its page |
| `scripts_live` | 2 scripts, 2 places, 3 objects, failing imports (39 k) | `ScriptLifecycle` with its fairness |
| `heart_rate` | 3 requests, 2 events, 2 faults, failing imports (15 k) | streams follow the page, end, and resume |
| `web_sessions` | 2 subjects, 2 browsers, 3 requests, 2 sign-ins, 2 faults (481 k) | own tokens, explained failures, sign-outs that reach all browsers, `SessionLifecycle` implemented |
| `migrations` | 4 hosts of 3 builds, 2 todos, starts that fail (4.5 k) | schema complete, every todo has a tenant, starts end, what blocks an upgrade |
| `terraform` | 2 commands, pipes that hold less than is written, 1 fault (12 k) | the state that is shown, true outcomes, commands and processes end |
| `todos_heart_graphql`, `todos_conflict`, `heart_rate_reconnect` | | the three findings below |

Requests are used once, and so are calls, so their number bounds the behaviours
of `Todos`, `WebSessions` and `Terraform`, and `CHECK_DEADLOCK FALSE` is set
where all of them may be over; page scripts, streams and migrations run for
ever. When every id
of a small `TodoIds` is in use, `Create` can only answer that the name is blank.
Four bounds limit what happens at once and not how long: `Infos` (objects
alive), `Conns` (streams alive), `MaxBuffered` and `Capacity`. A pipe of one
unit next to programs that write up to two makes every program block that
nobody reads. Symmetry is used in the
safety runs only, never with a temporal property that needs fairness.

`AuditsExactlyOnce` and `ConflictIsTrue` are checked where a scope has one
command: with several they are false, which `todos_conflict` shows for the
second, and the interceptor's habit of auditing every tracked entity of every
attempt makes so for the first. What is left of them with several is checked in
`todos_batch`: `AuditsMatchRows`, and `ConflictHasCause`, which says that a
refused todo is done or was tried, and failed, earlier in the same request.

### Fairness

- `Todos`: weak fairness of the steps of each request that has arrived. A host
  runs what it has accepted. Arrivals and faults are not fair.
- `PageScripts`: weak fairness of the merge, one turn of the event loop; strong
  fairness of `Resolve`, since an import is answered between two turns, however
  often the user navigates.
- `HeartRate`: weak fairness of each process and of the reconnection;
  of `onLoad` because `PageScripts` implements `ScriptLifecycle!FairSpec`.
  `WebCancelled` rests on the server's noticing that the browser has left.
- `Migrations`: strong fairness of getting the lock, which other hosts take and
  release; weak fairness of the rest of a start.
- `Terraform`: weak fairness of each call, of each read and of the program,
  which goes on where it can write and exits when it has written all. Starting
  a command, cancelling one and failing are not fair.
- `TodoLifecycle`, `ScriptLifecycle`: fairness of the promise itself.
- `WebSessions` states none: its properties are about what may never happen.

`ImplementsFairLifecycle` of `Todos` has no faults because the code has no
remedy: an event whose process died after the commit is lost. A failed import
has one, which is part of the promise: `ScriptLifecycle` starts a script that
stays on its page unless its import failed since the page was entered.

## Findings

1. *Heart never hears of todos finished through GraphQL.* The GraphQL host
   registers the mediator with the Todos assembly only
   (`Flyio.Demo.GraphQLService/Program.cs:30`), so the integration event has no
   handler there; the README says other modules such as Heart consume it. Run
   `todos_heart_graphql`.
2. *A conflict that is not one.* After a failed save the tracked entity keeps
   `Done = true`; a later `setTodoDone` of the same GraphQL request is refused
   with "This todo is already in Done state" while the row is open. Run
   `todos_conflict`. It is the only way to a false refusal: `ConflictsAreCaused`.
   The finding is about the refused command; the client may be shown the error
   of the first field alone, see above.
3. *The browser does not try to reconnect after an error status.* `onerror`
   logs that it will (`Home.razor.js:19`), but an answer with an error status
   closes the `EventSource` for good. Run `heart_rate_reconnect`.
   `ErrorStatusIsFinal` proves that no later step of the visit helps. Other
   losses are survived: `BeatsResume`, in the run `heart_rate`.

## Theorems

All are proved for every value of the constants that satisfies the `ASSUME` of
the module: any number of requests, todos, tenants, browsers or hosts, any
length of a GraphQL request, any number of faults.

`TodosProofs`. `TypeCorrect` (types, and that a request stands where its script
and answers say), `PublishedOnce` (`EventAtMostOnce`), `RowsAdvance`
(`RowsOnlyAdvance`), `Refinement` (`ImplementsLifecycle`). `EventAtMostOnce` is
not inductive: an event may sit in the tracker of a request whose save failed,
be saved by a later field, and be dispatched then. `IInv` adds the reason it
still goes out once. `RowsInv`: a row is done exactly if it is stamped.
`TrackerInv` (`Sound`): an entity in memory is modified only towards done and
only from a row it read without stamp, and a saved entity still holds its event
only in the request whose stamp the row has, and only while nothing was
published. `QueueInv`: only a dispatching request has a queue, of such
entities. Then the token check of `CanCommit` says that a commit closes an open
row or none (`WriteRows`), which gives `RowsAdvance` and the step of the
refinement too. `RequestsAdvance` is what can be proved of `EveryRequestEnds`:
each step takes a request to its next answer, from the handler to the save, from
there to the dispatch, or one entity out of its queue; none takes a request back
or touches one that is over.

`TodosAnswersProofs`. `WinnersAreUnique` (`OneWinner`), `AnswersAreTrue`
(`AnswersHold`), `TenantsAreIsolated` (`TenantIsolation`), `AuditsAreOfRows`
(`AuditsMatchRows`). None is inductive: an answer is given several steps after
the commit it tells of, from a scope that may have failed before. `CInv` adds,
for each request, what its tracker and its unsaved audit entries may hold for a
todo, given the row (`Fits`); that a todo it was told it finished has its stamp,
and is tracked as done while the scope lives, so that a later field cannot
finish it again (`Wins`, `Once`); and what the command under way will answer
(`Aims`). Across requests it says only that no id is added twice (`AddedOnce`).
A step is then a lemma about the request that takes it (`ReplyKeeps`,
`StageKeeps`, `SaveKeeps`, ...) and one about the bystanders, who see rows
appear or close that are not theirs (`Bystander`). Under the assumption
`MaxFields = 1` two more hold, `AuditsOnce` (`AuditsExactlyOnce`) and
`ConflictsAreTrue` (`ConflictIsTrue`): `SInv` adds that a command begins with an
empty tracker and saves only what it has changed.

`TodosEventsProofs`. `AnnouncementsComeFirst` (`AnnouncedBeforeAnswer`),
`LossesAreNoticed` (`LossIsNoticed`), `ConflictsAreCaused` (`ConflictHasCause`).
They relate what different steps of one request do, and it may fail between any
two of them, so `EInv` follows the request through its scope. A modified entity
has its event, and is either the one being saved or one that the request has
failed to save (`Changes`): hence a commit queues the event of every row it
closes, and a refusal that the row does not justify has an error before it
(`Causes`). What is closed and not announced is in the queue, or the request has
answered with an error, or it was cut off (`Losses`); what it was told, or is
about to be told, it finished is announced or queued (`Announces`). `Hears` says
the same of Heart, for requests of the Api. The invariant is per request: what
others do to a row, a request only sees as rows that close with a stamp that is
not its own, and the lemmas on bystanders of `TodosAnswersProofs` cover it.

`PageScriptsProofs`. `TypeCorrect`, `CountsAreExact`, `NoScriptLeaks`,
`Refinement`, `NoScriptIsForgotten`. `PInv`
adds to the counts that the map is injective and an object waits for the import
of its own script only (`MapInv`), that a script runs exactly if the object in
the map has its module (`RunInv`), and what holds between two turns
(`TurnInv`). An object that left the map with its import under way has no
references, which is why a late import starts nothing. `NoScriptIsForgotten` is
the converse, and what can be proved of `ImplementsFairLifecycle`: a script that
the page names runs, or was rejected, or its object awaits an import that will
start it.

`HeartRateProofs`. `TypeCorrect`, `StreamIsOfThePage`; the invariant adds that
nothing is buffered where no generator runs. From it follow
`ErrorStatusIsFinal` (finding 3) and `LeftStreamsWindDown`: a stream that
the browser has left is never taken up again and needs at most three more steps
to be gone (`Remaining`), none of which anything else undoes.

`WebSessionsProofs`. `TypeCorrect`, `TokensAreOwn`, `ErrorsAreExplained`,
`SignOutsSettle`, `Refinement` (`ImplementsLifecycle`) and, through it,
`SessionsAreOwn`: no two subjects hold, or may come to hold, one session.
The invariant adds that no refresh is under way for a subject that has settled
(`NoneRefreshing`), and that a request which is about to ask for its token
finds one unless it was disturbed (`TokenAwaits`).

`MigrationsProofs`. `TypeCorrect`, `SchemaIsComplete`, `TenantsAreComplete`
(`TodosHaveTenants`); the conjunction of the three invariants of the run is
inductive. That every todo has a tenant rests on two things: the column is added
to an empty table only, and a build that does not know it can insert nothing
afterwards.
`OldRowsBlockUpgrades` (`OldRowsBlock`): a leads-to that needs no fairness, as a
schema that is stuck stays so (`StuckStays`) and is served by older builds only.

`TerraformProofs`. `TypeCorrect`, `StateIsExplained` (`StateHasCause`),
`OutcomesAreTrue` (`OutcomeIsExit`). The invariant adds where a call may stand,
given its process: no process before its start, one that has exited from the
reading of its output on (`PlaceInv`). `NobodyIsStuck` and `StepsAreBounded` are
the two halves of `CallsEnd` and `ProcessesEnd` that do not mention fairness: a
call that waits does so for its process, which waits for a read at most, and a
read waits for nobody (`CanGo`, the guards of the fair actions); and every step
lowers `StepsLeft` of one call and raises that of none. The argument is for
any `Capacity` of at least one.

### Model-checked only

Liveness and the fair refinements (`EveryRequestEnds`,
`ImplementsFairLifecycle` of `Todos` and of `PageScripts`,
`ApiDoneReachesHeart`, `StreamsEnd`, `BeatsResume`, `StartEnds`, `CallsEnd`,
`ProcessesEnd`): TLAPS does not prove formulas with fairness. For `Todos`,
`PageScripts`, `HeartRate` (`StreamsEnd`) and `Terraform` their safety halves are
proved, as said above;
that the scheduler takes the steps which can be taken is left to TLC. All the
invariants of the runs and all other action and temporal properties are proved.

## Assumptions about what is outside

- `MigrateAsync` of EF Core 10 holds the database's migration lock from reading
  the history to the last migration.
- An access token in hand does not expire within the request that holds it;
  each request of a subject refreshes on its own.
- PostgreSQL's transactions: a commit is one step, and a duplicate key, a null
  or a missed update undoes all of it.
- The database and Keycloak keep what they stored.

`SignOutReachesAll` speaks of sign-outs that meet no refresh. A refresh that was
under way stores its token after the sign-out, the hazard at
`ServerSideTokenStore.cs:32`. What bounds it is `ImplementsLifecycle`: the
session of that refresh is the only one that may come back.

## Not modelled

- *Role claims* (`KeycloakRoles.cs`, twice): a function from claims to claims.
  It is called once per request, on the principal of that request alone, and
  nothing depends on its result: no endpoint asks for the policies
  `todos_viewer` and `todos_writer`, the only ones that name a role.
- *AppHost* (`AppHost.cs`): declares containers, projects and references for
  development; it has no operation and keeps no state.
- *ServiceDefaults*: configuration and telemetry.
- `SkipMigrations` (registered by tests only), the `Down` methods of the
  migrations (nothing calls them), several machines of the web application,
  the search box (a filter on an answer), the JSON of audited values, response
  bodies, wording, the rates themselves, what is logged.

## Plan

Done, in this order, the most important behaviour first: `Todos` with its
lifecycle and proofs; `PageScripts` with its lifecycle and proofs; `HeartRate`
on top of it; `WebSessions`; `Migrations`; the failing imports as part of the
script lifecycle; the session lifecycle; the pages that call the api;
`Terraform`; the proofs of what clients and auditors rely on; those of what
answers say about events and refusals; the safety halves of the liveness
properties.

What may still be worth writing:

1. Several machines of the web application, which `fly.toml` does not rule out,
   each with a token store of its own behind one cookie.
2. The composition of `WebSessions` with `Todos`: a page's call, with the token
   of its subject, as the arrival of a request.

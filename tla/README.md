# A TLA+ verification of netix-backend

`netix_backend` is a library that the services of a platform share: ASGI
middleware, service registration and discovery, HTTP clients with retries, an
audit trail for Django models, and tenant-scoped viewsets. This project models
the parts that keep state and run concurrently or may fail half way, checks them
with TLC on small instances, and proves with TLAPS, for every instance, the safety
properties the runs check and that the request timeout implements its abstract
contract. `PROJECT.json` lists the components, the runs, which source lines each
definition stands for, the hazards and the theorems.

## The system and its parts

| Component | State it keeps | Operations | What is hard about it |
|---|---|---|---|
| Request timeout, `asgi/timeout.py` | per request a `_ResponseChannel`; per worker the pool `_abandoned` | `__call__`, the channel's `send`, the done callback | handler, application and timer interleave on one event loop and share one `send`; a task outlives its request |
| Service registration, `asgi/registration.py` | latch, stop event, registration and heartbeat threads | `trigger_service_registration`, `register`, `_heartbeat`, `reset_registration_state` | several request threads trigger; update-service is down or forgets the service; a reset overlaps retries |
| Service discovery, `discovery.py` | the process-wide `_snapshot` and `_lock` | `_current`, `_refresh`, `_fetch`, `reset_discovery_cache` | stores without the lock, a first fetch under the lock, outages, overlapping refreshes |
| Client factory, `http/clients.py` | `_client_cache` and its lock | `build_client`, `reset_client_cache` | the URL is resolved before the cache is locked; the peer moves; clients are shared by calls with different options |
| Retry loops, `http/retry.py`, `http/static.py` | the loop's locals, the connection pool | `_send_with_retries` and its async twin, `_request_within_deadline`, `static_upload`, `_fetch` | lost answers, timeouts per wait against a deadline per call, a mixture of responses and exceptions |
| Change history, `django/change_history.py` | two columns' worth of state: values and trail; per instance a snapshot | `from_db`, `refresh_from_db`, `save` | several copies of one row, deferred fields, partial and failed saves |
| Actor context, same file, and `django/serializers.py` | a context variable, tokens | `set_actor`, `reset_actor`, `actor_context`, `reason_context`, middleware, the serializer's `save` | contexts are inherited by tasks, copied for threads and copied back; tokens cross them; requests are cancelled |
| Tracing, `observability/otel.py`, `otel_middleware.py` | the latch, the middleware list, spans | `configure`, `use_async_middleware`, the middleware's `__acall__` | called twice, with the environment loaded in between; an instrumentor raises half way; a hang-up under a sync-only middleware deadlocks the loop |
| Sentry filters, `observability/sentry_filters.py` | none between events; a walk over linked exceptions | `chain` and the filters given to it | one fault arrives in several shapes; links form cycles; a filter raises; the order of the filters decides |
| Database timeouts, `django/db_timeout.py` | a signal receiver per process, a setting per server connection | `install`, `uninstall`, the receiver | a session setting under a pool that hands server connections round |
| Viewsets and models, `django/views.py`, `org_scope.py`, `models.py`, `views_aio.py` | rows of several organizations | scoped reads, pinned writes, soft delete | rows are read without a lock and written later, whole; lists fail half way; sync and async paths differ |
| Organization bootstrap, `org_bootstrap.py`, `cloning.py` | none of its own; drives a service's clone | clone, teardown | failure half way |
| Sentry set-up, logging, lifespan, health | none | arguments for an SDK; two replies in a row; one request | nothing concurrent |
| Settings, errors, schema, spreadsheets, test support | none | pure functions | nothing concurrent |

Interactions: `ServiceRegistration*` wrap the application and call the trigger on
each request, inside or outside the timeout middleware; `build_client` resolves a
peer through discovery, and discovery's frontends decide CORS on the event loop;
clients carry the retry transport; discovery and registration talk to
update-service. Two compositions are modelled: the client factory over discovery, and
requests with their actor and span in a worker that tracing was set up in. The other
parts share no state, so they are modelled separately.

## Modules

* `AnswerContract`: what a server and its clients may rely on, abstractly.
  `RequestTimeout`: the timeout middleware, which implements it.
* `ServiceRegistration`: registration and heartbeats against update-service.
* `Discovery`: the registry snapshot. `ClientFactory` extends it and composes
  `build_client` with it: a caller's lookup is the first half of its call.
* `RetryLoop`: the four retry loops.
* `ChangeHistory`: rows with a trail.
* `TenantViews`: writes by requests of several organizations to one table.
* `Tracing`: `configure()` in a worker that boots. `RequestContext` extends it: what
  requests, jobs and tasks of that worker are attributed to, and their spans.
* `SentryFilters`: the `before_send` chain.
* `StatementTimeout`: the ceiling on statements, through a connection pool.
* `*Proofs`: the theorems about the module of that name, with their proofs;
  `RequestTimeoutProofs` has the refinement as well, `ClientFactoryProofs` also
  `Discovery`, and `RequestContextProofs` also `Tracing`.
* `MC*`: constants for TLC. Operators named `X_Something`, directly before `X`,
  are wrong versions of `X` used to see that each property can fail.

### RequestTimeout

A slot carries one request after the other. `handler` is the middleware's
coroutine, `app` the application task, `wire` what reached the server.
`PassThrough`, `Shed` and `Watch` are the three ways out of the first half of
`__call__`; `Collect`, `TimeoutStarted`, `TimeoutAbandon` and `Reply` what
follows `asyncio.wait`; `LateFinish` the done callback; `AppSend` the channel's
`send`. The application (external) computes, sends a head and a body, each of
which may be suspended in the server's flow control (`AppWrite`), and returns or
raises at any point. The loop is single threaded, so each action is the code
between two suspensions. Bodies and headers of the 504 and 503 are left out.

Properties: `OneResponse`, `UnwatchedIsCounted`, `WatchedIsAnswered`,
`SheddingEnds` and `ImplementsContract`. `SheddingEnds` holds when application tasks
end (asgiref waits for their threads) and the methods that are never shed do not
hang: a preflight answered by the CORS middleware reaches no view. Both are
premises of the property, not of the specification. The limit is compared at
admission only: requests already admitted join the pool later, so the pool may grow
past it, which the contract allows on purpose.

`AnswerContract` has per slot a `kind` (never cut short, or cut short and refusable,
or cut short and never refused), the `author` of the answer, the number of messages
`sent`, and the set of `orphans`. The mapping `Contract` reads the kind off the
request's scope, the author off the wire or, before anything is sent, off what the
middleware has decided, and takes the pool for the orphans. A step of the middleware
that settles, sends or forgets nothing is a stutter. The contract says what
`WritesNeverTimedOut` says of a write's answer, and more: the author is settled once,
a 503 is decided only at the limit and never for an exempt method, every 504 counts an
orphan, and a slot is not reused while it has one. `WritesNeverTimedOut` itself
is proved and has no place in the run.

### ServiceRegistration

`caller` is a request thread in `trigger_service_registration`, `thread` a
registration thread that turns into its heartbeat thread. The stop event is the
number of resets at the time it was made: it is set iff there has been a reset
since. update-service (external) goes up and down, and forgets a service that does
not beat. `OncePerLatch`, `KeptAlive` and `SetEventEndsHeartbeat` hold. The
last is about the event a heartbeat took: when a reset falls into the retries, the
heartbeat takes the new event and outlives the reset, which the model shows and no
property forbids.

### Discovery and ClientFactory

The registry's content is a version number: parsing an entry is left out, and so
is the difference between the causes of a failed fetch. The two stores of
`_refresh` are separate steps, and so are the answer and its storing. A window
expires by `Expire`; where `SlowFetch` is `FALSE` no fetch lasts longer than a
window, which holds as `TIMEOUT_SECONDS` is 2 and `CACHE_SECONDS` larger unless a
response trickles, and where it is `TRUE` refreshes overlap and store in any order.
`ClientFactory` maps a version to the peer's URL, falls back to the environment's
and keeps the cache. What a call asks for falls into its `identity`, which is part of
the cache key, and its `options` (extra headers, limits, pool timeout, retries), which
are not: a cached client keeps those of the call that constructed it, and later calls of
the same key get it as it is. Lookups that arrive during
the first fetch wait on its lock; `BlocksOnlyBeforeFirstAnswer` says that they are
the only ones.
`ClientIsCurrent` relates the client a call gets to the snapshot when the call began
(`known`, kept for this property only): its address is one the registry has named since.
Cached clients are never evicted, so this rests on the URL in the key, and on the order of
lookups and refreshes. `OnePoolPerKey` says that racing calls of one key share a client
whatever their options.
`OneRefreshPerWindow` and `NeverGoesBack` are checked without resets and with
fetches that fit in their window, the assumptions they need. `OverrideReachesClients`
is the convergence of discovery and factory together: once the registry stays as it
is, clients built later have its URL, or the environment's for a peer that left.

### RetryLoop

A call is one of four kinds and holds its loop's locals. An attempt may fail to
get a connection, or exchange: the peer carries the request out or not and answers
or not, independently. An attempt may also raise what is not in `RETRYABLE_EXC`
(`"fatal"`: a proxy's refusal, an unsupported scheme, a body that does not decode), before
the request is sent or after the peer has carried it out; no loop catches that, so it ends
the call at once and is raised past any response seen before. `LastResponseWins` says so
exactly: a deadline call that saw a response raises if and only if its last attempt ended
that way. Backoff and Retry-After are any delay up to a bound. Only a
deadline call reads the clock, so only there time is counted. httpx times out each
wait of an attempt separately (pool, connect, write, each read), hence the
constant `Waits`. A deadline is therefore not kept to the tick, as the docstring of
`retry.py` would have it; `OverrunBounded` says by how much it is missed at most.

### ChangeHistory

One row, several in-memory copies of it. `Changes`, `ActionFor`, `Capped`,
`NewHistory`, `WritesTrail` and `Resynced` translate the methods of
`ChangeHistoryModel`, `HandBuilt` is an instance of the row that was never read and
is saved as an update (no snapshot, no history), `Save` puts them together, `SaveFails` is a save the
database refuses. Values are atoms, so `json_safe` and display labels are left
out; the actor is `RequestContext`'s. Assigning a deferred field is documented to go
unrecorded and is left out. `NoSilentWrite` and `RowAndTrailAgree` hold under the
conditions they state; `EditsAreRecorded` fails after a partial refresh. A save by
a stale copy writes its own trail over a newer one, like every other column of it:
the trail is append-only for each copy and not for the row, and a full save of an
instance built by hand empties it. A refused save leaves its entry on the instance, and the
next save stores it with its own: `NoSilentWrite` still holds, as the entry of a save is
the newest, and the stored entry of the refused one is what `RowAndTrailAgree` excepts as
`"phantom"`; no property forbids it.

### TenantViews

Requests write to one table. `Admit` stands for everything before the first save:
the organization filter and the ownership check of `envoy_pyauth` (external, taken
from how the viewsets call them and what the tests expect), `?include_deleted`,
`?organization=`, the rejections of `pin_and_reject` and the repeat check of a soft
delete, all pure functions of the request and of the copy `get_object` returned.
`Save` is one `save()`, `Answer` the handler's return and `Fail` an exception at any
point. `get_object` takes no lock; what a transaction wrote is invisible to others
and locked until it ends (read committed, the default of the database in use). The
class attributes of a viewset are a record of knobs, `ViewType`; a caller is what its
envoy payload says, `IdentityType`. Per-action permission codenames are external and
could only turn an admission into a refusal. Columns other than the organization and
`is_deleted` are one column that remembers who wrote it.

`WritesLandHome`: pins hold on every path. `ForeignRowsUntouched`, `TombstonesStay`
and `DeleteUndoesNoEdit` say exactly what overlapping requests can do to each other:
an update that read a row before it was retired or moved writes its old copy back,
a delete never does. `FailedSyncWriteLeavesNothing` holds, for lists too;
`FailedWriteLeavesNothing`, which a comment claims for async handlers as well, fails.

### Tracing and RequestContext

`Tracing` is `configure()`: manage.py and asgi.py both call it, the environment of a
call is any, and any stage may raise, after which the worker boots on without it. The
latch is set before the stages, so none is ever repeated (`InstrumentedOnce`), and
`use_async_middleware` swaps upstream's entry only on the way that reaches it. The
exchange is what `CancelledEnds` needs: under upstream's middleware, which asgiref
can only run in a thread, a cancelled request leaves the loop waiting for that thread
and the thread for the loop (`loop = "wedged"`). That is asgiref's behaviour before 3.12;
the library now requires 3.12.1 (`CHANGELOG.md`), so the model takes the worst case, in
which the exchange alone has to prevent it.

`RequestContext` has threads, which serve one request or job after another in one
`Context`, and tasks of the event loop. `stack[x]` is the blocks `x` is inside; each
remembers the token it gives back, and, for the properties only, the actor its code
is meant to act for. `Request` enters the tracing middleware and the actor
middleware, `SetActor` and `ResetActor` are hooks of a view, `actor_context`,
`reason_context` and `SerializerSave` nest, `EnterCopy` and `LeaveCopy` are
`sync_to_async` (asgiref, external: a fresh copy of the context, whose values come
back), `SpawnTask` a task that inherits a context and may outlive its maker, `Cancel`
a hang-up. Blocks are left innermost first, by return, exception or cancellation.
`SavesAreAttributed`: a save is attributed to the actor and reason the blocks ask for;
where a token crossed a thread boundary it may be the system's, never another
user's, and an idle thread is nobody's. `GaugeCountsRequests`: spans are closed on
every way out except where OTel's own hook raised, counted in `lost`. What tests call
(`reset_for_tests`) is left out. `ListSerializer.save` calls `child.create` and never
the child's `save`, so a reason stated in a list body is popped and not used: the
model's `SerializerSave` is that of single objects.

### SentryFilters

A fault is a set of exceptions linked by cause and context; a text is the set of
signatures it contains. Each report of it goes through the chain filter by filter:
`StartWalk` and `WalkStep` are `exception_chain_text`, `Apply` a filter's return,
`Raise` a filter that raises and is skipped, `Finish` the end of the chain. The
walk follows cause or else context and ignores `__suppress_context__`; what the SDK
serialized (external) heeds it. `FirstMatchDecides` restates the documented chain
without its state: a drop by any filter that ran, otherwise the service's fingerprint,
otherwise the first match. A report whose hint has no exception may still carry the
serialized ones in its event. `OneIssuePerFault`: Django's capture and the server's log
record of one fault get one fingerprint. `EveryReportIsSent` needs the `seen` set,
since `__context__` may form a cycle. Guards against events that are no mappings are
left out.

### StatementTimeout

Processes share PgBouncer's server connections (external: a transaction gets any that
is free, no state is reset). The receiver's `SET` is a transaction of its own when a
process connects; the later ones may run elsewhere. So `MigrationsRunUnbounded`, which
the docstrings promise and the comment on SETting even 0 argues for, fails with two
server connections: the migration's 0 goes to one and its statements to the other.

## Runs

| Run | Shows |
|---|---|
| `timeout` | the properties of RequestTimeout and its contract, 2 slots, limit 1 (22 000 states) |
| `registration` | 2 request threads, 2 registrations, one reset, one change of the environment, 2 attempts (108 000 states) |
| `clients` | safety of snapshot and cache, 2 threads, 2 sets of options, 2 refresh threads, 2 registry versions (220 000 states) |
| `clients_fresh` | convergence, 1 thread, 2 overlapping refreshes, a reset (350 000 states) |
| `retry` | all kinds of call, 3 attempts, deadlines of 0 and 3 ticks with timeouts of 2 (12 000 states) |
| `history` | 2 copies, read or built by hand, 2 fields, cap 2, 3 writes, 2 edits, 1 failed save (1.7 million states) |
| `history_pending` | *violation*: an edit is written and not recorded |
| `views` | any two requests through four viewsets by four callers, one live or retired row, lists of up to 2 (850 000 states) |
| `views_async` | *violation*: a failed async write stays |
| `context` | attribution, gauge, cancellation and instrumentation: a thread and a task, a user, blocks nested two deep, a copy, a failed hook (180 000 states) |
| `sentry` | the documented chain with a drop list, 3 exceptions in 6 link graphs, one filter raising per report (170 000 states) |
| `db_pool` | *violation*: a migration's statement runs under a service's ceiling |

Why the bounds suffice. Two slots and a limit of one reach every relation of a
request to a full and to an empty pool, and the proofs cover all other sizes. Two
threads and one reset give every overlap of an old and a new generation. One identity
has two cache keys, as the peer moves, and two sets of options meet on each of them. Two
versions and two refreshers give an older answer that comes after a newer one.
Three attempts have a first, a middle and a last; a deadline of 3 with timeouts of
2 is reached inside an attempt, between attempts and in a sleep. Three writes with
a cap of two fill the cap, and creation plus two saves by two copies are what a stale
copy needs; building an instance by hand counts as one of the edits. Every conflict between writes to a row is between a reader that
writes later and one other writer, so two requests suffice; each is any request the
viewsets accept, and the viewsets between them take both values of every knob the
properties depend on. `Rows` of three hold the row at hand and a list of two. One user
is told apart from nobody and from the system, the actors a wrong token could restore;
depth two nests a block in a request, and the task spawned from it nests its own. One
copy of a context is enough for a token to meet a context it was not made in. Three
exceptions have a cause beside a context, a suppressed context, a chain and cycles of
one and of two; the reports are a fault's two shapes, a log whose hint has no
exception, and one whose exception is missing. Other bounds are guards (`MaxResets`, `MaxVersion`,
`MaxWrites`, `MaxEdits`, `MaxFailures`, `MaxClientResets`, `MaxEnvChanges`, `MaxDepth`,
`MaxCopies`, `MaxLost`, `MaxRaises`).

Deadlock is checked everywhere but in `sentry`, whose chain ends when the fault's
reports are sent, and in `views` and `views_async`, where requests are over when they are
answered and none follows.

Symmetry: `clients` permutes callers, refreshers and options, `history` copies and
`views` requests; none of the three runs has a liveness property.

Fairness. RequestTimeout: weak fairness of the handler, the done callback and the
server's `send` (the event loop runs what is ready), none of the application.
ServiceRegistration: weak fairness of threads, none of requests, resets or
update-service. Discovery: weak fairness of threads and of time; strong fairness
of a lookup that waits for the lock, since a lock released again and again is
given to each waiter in the end; and lookups keep coming. RetryLoop: attempts end
by an answer or a timeout, and sleeps end. RequestContext: what is being unwound goes
on, and nothing else has to. SentryFilters: `before_send` is a call and runs on.

## What is proved

Every invariant and every action property of a passing run is a theorem
`Spec => []P` (or `Spec => P`), for every value of the constants that the module's
named assumption allows: any number of requests, threads, rows or instances, any
chain of filters, any bound. A bound such as `MaxWrites` is a constant like the
others, and a safety property is violated in finitely many steps if at all, so the
theorems say the same of the unbounded system. None of the properties is inductive; each
module has an invariant `IInv` (`FInv` for the factory) that is, together with three facts:
`Init` establishes it, each action keeps it, it implies the property. TLC has checked
each of them on the configuration of the module's run too.

| Module | Theorems, beside type correctness |
|---|---|
| `RequestTimeoutProofs` | `OneResponseTheorem`, `UnwatchedIsCountedTheorem`, `WritesNeverTimedOutTheorem`, `Implements` |
| `ServiceRegistrationProofs` | `OncePerLatchTheorem` |
| `ClientFactoryProofs` | `LockTheorem`, `BlocksOnlyBeforeFirstAnswerTheorem`, `OneRefreshPerWindowTheorem`, `NeverGoesBackTheorem` of the snapshot; `FactoryUsesDiscovery`, which carries them over; `ClientIsCurrentTheorem`, `OnePoolPerKeyTheorem` |
| `RetryLoopProofs` | `NoStatusReplayTheorem`, `SleepersHoldNothingTheorem`, `LastResponseWinsTheorem`, `OverrunBoundedTheorem` |
| `ChangeHistoryProofs` | `RowAndTrailAgreeTheorem`, `NoSilentWriteTheorem` |
| `TenantViewsProofs` | `WritesLandHomeTheorem`, `FailedSyncWriteLeavesNothingTheorem`, `ForeignRowsUntouchedTheorem`, `TombstonesStayTheorem`, `DeleteUndoesNoEditTheorem` |
| `RequestContextProofs` | `InstrumentedOnceTheorem`, `SavesAreAttributedTheorem`, `GaugeCountsRequestsTheorem` |
| `SentryFiltersProofs` | `FirstMatchDecidesTheorem`, `OneIssuePerFaultTheorem` |

### The invariants, and why they are needed

*RequestTimeout.* `OneResponse` needs to know
that nobody but the application has written while its channel is open, that the
channel's `started` is set before the head reaches the server, and that a
suspended head belongs to a channel that was not muted when it was suspended.
`SlotInv` states this for one slot as a relation between `handler`, `app`,
`started`, `abandoned`, membership in the pool and `wire`, state by state. Slots share
only the pool, and `SlotInv` mentions only the slot's own membership, so a step of one
slot keeps the invariant of the others; `Inductive` shows action by action that it
keeps its own.

`Implements` rests on the same invariant: without `SlotInv`, a 504 might be decided
where somebody has answered, and the mapping would not be a step of the contract.
`SlotMapped` shows action by action what a step does to its own slot's image
(`Maps`), in terms of kind, author, count and pool; `ImageFacts` reads the image off
the wire. `MapsAtSlot` says that the other slots' images stay, so that the functions of
the contract are updated at one place, and `Lifted` turns each disjunct of `Maps` into
the contract's action.

*ServiceRegistration.* A generation's latch is a token: while it is open nobody holds
it, then one caller does, then one thread stands for it. `NothingEarly` and `OneHolder`
say so for the current generation and the earlier ones, whose threads may still run.

*Discovery.* Four layers: who holds the lock (`LockInv`); that until the first fetch has
stored, no lookup is past `_current` and no refresh runs (`FirstInv`); that one fetch
is in flight at most (`SingleInv`); and that the versions in the snapshot, in the
answer in flight and in the registry are in order (`OrderInv`). The last three are
about the time before the first `reset_discovery_cache`, which only tests call: a reset
forgets the window while a refresh may be running. `OneRefreshPerWindowTheorem` and
`NeverGoesBackTheorem` assume `~SlowFetch`, fetches shorter than the window, and the
latter `MaxResets = 0`; with either gone TLC finds the older answer stored last.
*ClientFactory.* A call in progress has been handed nothing yet, so what it still settles
cannot contradict a client already returned (`CallInv`); a client with an id is in the
cache until the cache is reset, and the cache has one client per key (`PoolInv`).
`ClientIsCurrentTheorem` needs the order of versions that `OrderInv` gives: `Timely`
follows the version a call has read, then the URL made of it, then the client found or
made under that URL, and says of each that it is no older than what the snapshot held when
the call began. It assumes `~SlowFetch` and speaks of the time before
`reset_discovery_cache`: a reset empties the snapshot, and so does an older answer stored
late.

*RetryLoop.* Calls meet only in the connection pool, so the invariant is stated call by
call. `CountsAttempts` and `ReplaysLostOnly` relate round trips, lost answers and the
place in the loop: a guarded write is in the loop again only if every round trip so far
was lost. `KeepsBudget`: an attempt and a sleep begin within the budget and the first
wait of an attempt is covered by what remains of it, so only the attempt's other waits
can exceed it. `ReturnsResponse` adds that a loop never goes on after an exception it
does not catch.

*ChangeHistory.* An up-to-date instance that was not re-baselined has a snapshot equal
to the row (`Match`): its diff is what the save changes, which is `NoSilentWrite`. As
long as nothing worse than staleness happened the trail explains the row (`Agrees`),
and the history in the memory of an instance without flaws explains that instance's
snapshot (`Recall`), so that a stale save puts back values together with their own
history. `CappedExplains` and `AppendExplains` say that neither dropping the oldest
entries nor appending one takes away an explanation. When a save writes, every other
instance falls behind at once (`WriteStep`), and what the invariant says of an
up-to-date one no longer concerns it. An instance built by hand has read no version, so
it is never up to date before it has saved every column.

*TenantViews.* What the checks before the first save established of a question and of
the copy `get_object` read (`Settled`) mentions no other state, so it lasts. The
invariant follows the images a request writes from there into its transaction (`Owed`)
and into the table (`Wrote`); that one open transaction at most has a pending image of a
row, its lock, is what makes the image still right when it commits. The views are any
combination of mixins and attributes that `ViewType` has; the table may hold any rows,
which nobody of the model wrote (`TablesAssumption`).

*RequestContext and Tracing.* An actor fits a block when a save in it is attributed as
the property allows. `Good` says of a context's stack that the bound actor fits the
innermost block, and that the actor each token remembers fits the block around its own,
so that what leaving a block restores is right again, also after a token went through
a copy. Threads and tasks are finitely many, since a gauge counts them.

*SentryFilters.* While the walk runs, what it has seen is in every set closed under the
links, and a link out of it leads to the cursor (`Reaching`): when the loop ends, at an
end or in a cycle, it has seen exactly the chain (`WalkEnds`). So the filters that
read text decide on all of it, and after each filter the event is as the filters so far
decide (`Progress`, `PinnedIsFirst`). `OneIssuePerFaultTheorem` assumes that
`group_log_events_by_template` comes after the filters that pin, which the comment on
`fingerprint_asgi_executor_teardown` asks of a service; in another order it is false.

### Only model-checked

Every liveness property (`WatchedIsAnswered`, `SheddingEnds`, `KeptAlive`,
`SetEventEndsHeartbeat`, `OverrideReachesClients`, `CallEnds`, `CancelledEnds`,
`EveryReportIsSent`): fairness is out of the prover's reach. The properties that the
code violates have counterexamples and no theorem, `StatementTimeout` among them.

## What is not modelled

Configuration, formatting and test support, as the table and `PROJECT.json` say;
lifespan (two replies in a row) and the health probe (one request mapped to a status).
`requests_session_with_retry` configures urllib3's loop. The ASGI and WSGI
registration wrappers are their call of the trigger. Of the viewsets, reads
beyond what they see (ordering, pagination, error mapping) and schema decoration.
`history_requested` selects what a response shows. Organization bootstrap drives a
service's own clone and is planned.

Seen while modelling and not covered by a property: a call of `build_client` may get a
client with the options of an earlier one; the cache keeps a client for every address a
peer ever had; the entry of a refused save is stored by the next one; two overlapping deletes of one row
both answer 204.

## Plan

1. Organization bootstrap and clone keys: refusals and re-driven clones.
2. An abstract registry cache that `Discovery` implements, with the outage and the
   overlapping refreshes hidden.
3. Proofs: that `Discovery` implements the abstract cache; what the rest of item 1 adds.

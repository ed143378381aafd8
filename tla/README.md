# A verification project for OCTW

OCTW runs one OpenClaw gateway container per tenant and manages the containers
through a FastAPI service, a CLI, an edge proxy, PostgreSQL and the Docker
daemon. This directory holds TLA+ modules translated from `src/octw`, TLC
configurations that check them on small instances, and proofs checked by TLAPS.
`PROJECT.json` lists components, runs, mutants, findings, hazards and theorems,
and maps each definition to the source lines it stands for.

Paths below are relative to `src/octw/`.

## 1. The system

| Component | State it keeps | Operations | Interacts with | What makes it correct |
|---|---|---|---|---|
| `TenantService` (`orchestrator/tenant_service.py`) | the `tenants` row: status, container id, last activity | create, start, stop, pause, wake, delete, touch | Docker orchestrator (synchronous calls), vault, PostgreSQL | a request leaves row and Docker in agreement; delete leaves nothing; every request ends |
| `DockerOrchestrator` (`orchestrator/docker_orch.py`) | none of its own; Docker's containers and networks, tenant directories | create/remove directories and network, start, stop, pause, unpause, init job, configure | Docker daemon, file system | one container per tenant; a paused one keeps its memory; calls survive what others did |
| Vault (`vault/`, `api/routers/secrets_router.py`) | `tenant_deks`, `secrets` | set, rotate, delete, decrypt for a start | PostgreSQL | every stored secret stays readable under the stored key |
| Hibernation (`orchestrator/hibernation.py`) | none between passes; one transaction during a pass | a pass over all tenants, every minute | Docker orchestrator, PostgreSQL | idle tenants are paused, then stopped; active ones are not |
| Edge (`edge/proxy.py`) | an HTTP client | authenticate, resolve, ensure-running, proxy | internal API, tenant containers | a request reaches the running tenant, which it wakes if need be |
| Internal API, runtime and tenant routes (`api/routers/`) | none | one session and one commit per request | `TenantService` | only an admin changes a tenant |
| Provisioning (`api/routers/provision_router.py`) | none | create tenant, secrets, init job, configure, start, in one transaction | all of the above | a tenant is listed all at once and complete; a slug for one tenant at a time; a deleted tenant leaves nothing |
| Memberships, authentication (`tenant_service.py`, `auth_router.py`, `api/auth.py`) | `memberships`, `users`, audit events; pending login tokens in memory | add, remove, check; login, verify | PostgreSQL | a login link serves once; one user per address; no membership of a deleted tenant; no removal goes unlogged |
| CLI (`cli/main.py`) | none | the same services, each command a process | PostgreSQL, Docker | as above |
| Backup (`orchestrator/backup.py`) | archives | tar, restore, pg_dump | nothing calls it | an archive per backup |

What is hard here:

* **Two stores, no common transaction.** A handler calls Docker first and writes
  PostgreSQL afterwards. Failures in between, and other handlers in between, leave
  the two in disagreement; the next handler has to cope with what it finds.
* **Two kinds of concurrency.** API requests share one event loop and the Docker SDK
  is synchronous, so code between two awaits is atomic among API requests; a CLI
  command is another process and interleaves with every single Docker call.
* **Locks that span Docker calls.** `delete_tenant` flushes `DELETING` and holds the
  row lock through the whole cleanup; the first DEK of a tenant is inserted under a
  foreign-key lock that a start holds until it commits; a hibernation pass holds the
  locks of many rows.
* **Transactions as long as an onboarding.** A provision is one transaction over two
  containers and up to two minutes; its slug is locked all the while, and what it made in
  Docker and on disk is not undone when it rolls back.
* **Check, then act.** The role of the caller, the existence of a user, a slug or a
  membership are read in one statement and relied on in a later one.
* **Snapshots.** Each statement of a READ COMMITTED transaction sees other commits;
  objects in the session's identity map do not.

`PROJECT.json` "hazards" lists each of these at its line.

## 2. Modules

### `TenantRuntime` — the handlers against Docker and the tenants table

One request is a record with a `pc`; its values are the awaits and Docker calls of
the handlers in `tenant_service.py:127-225` and `docker_orch.py:286-456`.

| Variable | Code |
|---|---|
| `row[t]` | committed `TenantRow`: status, `container_id`, `last_activity_at` (as three age classes: below the pause threshold, beyond it, beyond the stop threshold) |
| `dek[t]` | whether `tenant_deks` has a committed row (a start may have to insert it, and its lock matters) |
| `rowLock[t]` | the transaction with an uncommitted UPDATE of the row |
| `container[t]` | the container named `octw_tenant_<t>`: Docker id and state |
| `network[t]`, `dirs[t]` | the bridge network, the directories |
| `loop` | the API request inside a section without awaits |
| `req[p]` | handler, tenant, `pc`, the container object in hand, the uncommitted DEK |

`SyncPcs` are the calls reached without an await. `Runs(p)` lets an API request
take a step only when the loop is free or its own; a CLI command always may. A
handler that holds a container object holds its *id* (`Gone` is Docker's 404 after
somebody else removed or replaced it); `HandleCall` is a call on such an object:
`NotFound` is caught, as in the code, and another refusal leaves the handler.
`containers.run` is two steps, because the SDK creates and then starts and may fail
in between. Uncommitted data is never visible to others: a write that is
followed by the commit alone is one step with it, and the flushed `DELETING` is only
a row lock. `Holders` are those who may hold one: the requests and `Others`, transactions
of a module that extends this one (the scheduler in `Hibernation`, nobody elsewhere).
`Fail` is any exception or a killed process; Docker restarts crashed
containers (`restart_policy`).

`alone` in a request record is auxiliary: no other request on the tenant, and no
crash of its container, since the request began.

`Blocked(p)` says that the next statement of `p` has to wait for a lock (`UpdatePcs` for the row's,
`KeyPcs` for that of an uncommitted DEK), `WaitsFor(p, q)` for whose.

### `Deletion` — which deletes are complete

EXTENDS `TenantRuntime` with two history variables that no step reads: `unstarted`, the deletes beside
which no start or wake has been at work on the tenant, and `cleared`, the tenants that such
deletes have deleted. `Observe` maintains them beside every step of `TenantRuntime!Next`. It says from
the other side what finding 1 is about: a start that overlaps is the *only* thing that makes a delete
incomplete.

### `Vault` — envelope encryption

One tenant's `tenant_deks` and `secrets` rows; one step per SQL statement of
`ensure_tenant_dek`, `store_secret`, `get_decrypted_secrets` and `delete_secret`.
A value is represented by the key that seals it. The ORM's UPDATE of the changed
columns only (`UpdatedRow`), the unique and foreign keys, the waits for an
uncommitted duplicate key, and the cascade of the tenant's deletion are modelled,
for they decide who wins. `TypeOK` says besides the types that no data key outlives its tenant,
which the foreign key of `tenant_deks` sees to.

### `Hibernation` — the scheduler beside the handlers

EXTENDS `TenantRuntime` with a pass of `_check_idle_tenants`: SELECT, the first loop, the
autoflush UPDATE of each row (each may wait for a lock and may find its row gone), the
second SELECT, the second loop, the commit; or an exception anywhere, which `run()` logs
and survives. A loop has no await, so it is one step for whoever shares the event loop;
this is why the module takes `CliCommands = {}`. `Beside(A)` is a step of `TenantRuntime`
that also maintains the auxiliary set `clean` (the tenants that nobody has touched since the
pass began), and `Overtake` is what a step of the pass does to the auxiliary `alone`: requests
on the tenants whose container or row it changes are no longer alone. A row that was deleted under the pass
raises `StaleDataError` or goes unnoticed, depending on whether the driver counts the rows
of a batch: both are allowed. `EdgeProxy` is a proxied request; `Tick` is time.

Nothing in the repository starts `HibernationScheduler`. The module assumes what its
`async def run` and its shared `DockerOrchestrator` suggest: a task of the API process.

### `Edge` — wake-on-request

EXTENDS `TenantRuntime` with the visits that `octw-edge` serves: `edge[p]` is the coroutine
of `proxy_path` whose current call of the internal API runs in request slot `p`. The steps
are the resolve and the inspection of `get_status` (an await, then Docker calls without
one), `ensure-running` (a `wake` request of `TenantRuntime`, started by `EdgeEnsure` and
awaited by `EdgeEnsured`), `get_status` again, and the proxied request. An address is the id
of the container that has it. `EdgeTimeout` is httpx giving up on any of the API calls: the
handler goes on without a visitor, and a later visit may overlap it.

A container that runs is not yet a gateway that answers: its healthcheck has ten seconds to
start (`docker_orch.py:366-372`), and nothing in the proxy or the internal API looks at health.
`listening[t]` says that the gateway in `t`'s container accepts connections: `GatewayUp` sets it
some time after the container runs, `Listeners`, part of every step that changes a container,
clears it when the container's process ends. `EdgeProxy` is `client.request` at once, so its
answer is `served`, `refused` (the container runs, the gateway does not listen yet), `timeout` (it
is paused) or `unreachable` (another container or none has the address).

`calm` in a visit is auxiliary: since the visit began nobody has stopped, paused or deleted
the tenant, no request on it has failed, its container has not crashed and the client has
not timed out. `warm`, auxiliary too: it is calm, and the gateway listened when the API took it up.
`EdgeReaches` says that a calm visit reaches the tenant's own running container, and a warm one
its gateway: not that the steps succeed one by one, but that each stale answer (a status read before
another visitor's start committed, a row that still names a container long gone, an exited,
created or missing container) is repaired by a later step, and that no wake or start replaces a
container that runs. `EdgeServes` is what docs/architecture.md:107 promises, that a calm visit is
served; for want of a wait it is false (finding 4). Like the pass, `EdgeReaches` presumes that the API
process alone drives Docker. `KeyedSpec` starts with a data key for every tenant, as after the first
secret or start; `ESpec` does not.

Two assumptions: octw-edge has a way to the tenants' networks, which nothing in the repository
gives it in a container (section 5), and tenants are named by slugs: a name that parses as a UUID
skips the lookup in `_resolve_tenant_id` (`internal_router.py:23-26`) and fails later, if at all.

### `Provisioning` — how tenants come into being and go — and `Directory`

A request is `provision_tenant`, `create_tenant` (POST /tenants, `octw tenant create`) or
`delete_tenant` in its transaction; its `pc` names the SQL statement or Docker call that is
next, through the init job, `configure_tenant`, the first start and the one commit.

| Variable | Code |
|---|---|
| `drawn` | how many ids `uuid4` has returned: the n-th is n, so none comes twice |
| `row[i]` | the committed `TenantRow`: slug, status, whether `network_id` and the provider are set, and whether the creator's membership and the data key were committed with it |
| `network[i]`, `home[i]` | the network; the directories, with an `openclaw.json` that the init job wrote or that `configure_tenant` rewrote |
| `container[i]`, `initJob[i]` | the tenant's container, the init container |
| `req[p]` | handler, slug, id, `pc`, and `draft`: the row as the uncommitted statements have made it |

An INSERT waits for the transaction that holds the slug (`HoldsSlug`) and fails if that one
commits. `InitJobEnds` is the onboarding itself, external: it succeeds with or without a
configuration, fails, or hangs until `wait` times out. The Docker objects of a tenant without a
committed row are named after an id that nobody else knows, so the sections of the event loop
do not matter here, and neither do start, stop, pause
and wake of a listed tenant: those are `TenantRuntime`'s.

`Directory` is the abstract specification: a set of entries [slug, tenant], `Publish` of a
tenant that was never listed under a free slug, `Withdraw`. The refinement mapping takes
`listed` from the rows with a live status and `known` from those that were ever committed;
`ImplementsDirectory == Dir!Spec` is checked by TLC and proved.

### `Access` — who may act — and `Roster`

The users, the memberships and audit events of one tenant, the pending login tokens and the
access tokens granted; a request is `verify`, `add_member`, `remove_member`, `update_tenant`
or `delete_tenant`, one step per SQL statement, but two for the DELETE of the tenant: it locks the
tenant's row (`DeleteTenantRow`), then the memberships' (`Cascade`). `login` is one step, as it awaits nothing.

| Variable | Code |
|---|---|
| `user[e]` | the committed `users` row of an address |
| `tenant` | the tenant's name, or none when deleted |
| `member[u]` | the committed `memberships` row of a user |
| `audit[u]` | the committed audit events that add the user, less those that remove them: a balance, for the log has no order of commits (`created_at` is the transaction's start, the id a random UUID) |
| `token[k]` | `_pending_tokens` and the mail box: drawn, expired, popped or lost; `granted` (auxiliary) counts its successes |
| `sessions` | access tokens returned: signed, so they outlive everything |
| `req[p]` | handler, actor, arguments, `pc`, the uncommitted user and membership |

`Blocks(q, p)` says that the statement of `p` waits for the end of `q`'s transaction, and is the
guard of every writing step. An INSERT of an address or a membership waits while another transaction has one
uncommitted, and raises when that one commits (`UsersRow`, `MembershipsRow`); a second removal waits for the
first and finds nothing, and the cascade waits for a removal. By the foreign key the DELETE of the
tenant waits for an uncommitted membership, and an INSERT of a membership for a DELETE that has gone on to the
memberships; the UPDATE to DELETING keeps other writers of the tenant's row out (`TenantsRow`).
`audit_events` has no foreign key, so writing an event waits for nobody. A removal that a cascade has
overtaken is taken to come before it: it holds nothing while it waits. `Restart` loses the
pending tokens and every request. `entitled` in a request is auxiliary: its actor has been an
admin at some time since the request began.

`Roster` is the abstract specification: the accounts, the members with their roles, and whether the
tenant is open; `Register`, `Admit` (whose account an invitation may make in the same step),
`Dismiss`, `Close`. The refinement mapping reads them off `user`, `member` and `tenant`; renaming
is a stutter, and so is a removal that finds no row any more. `ImplementsRoster == Ros!Spec` is checked by
TLC and proved.

### `MC...` and `...Proofs`

`MCTenantRuntime`, `MCDeletion`, `MCVault`, `MCHibernation`, `MCEdge`, `MCProvisioning`, `MCAccess` give
symmetry sets and initial states to TLC; `TenantRuntimeProofs`, `DeletionProofs`, `VaultProofs`,
`HibernationProofs`, `ProvisioningProofs`, `AccessProofs`, `EdgeProofs` hold the theorems.

## 3. Runs

| Run | Instance | Shows |
|---|---|---|
| `runtime_mixed` | `MCSpec`: 1 API slot, 1 CLI slot, 1 tenant; every call of the CLI command may fail; crashes between requests | `TypeOK`; `AloneDelivers`: an undisturbed successful request delivers its promise from any mess; `EveryRequestCompletes`, under `Fairness` |
| `runtime_api` | `DSpec`: 3 API slots, 1 tenant; every call may fail; crashes | `ClearedStaysEmpty`: a delete beside which nobody starts or wakes the tenant leaves nothing, for good (with CLI commands, by `ClearedForGood`); `NoDockerConflict`: no request meets a container other than the one it looked at; `PauseRetainsMemory`; `WaitsEnd`: whoever waits for a lock waits for a transaction that goes on, waits for one that does, or is ended by the deadlock detector |
| `provisioning` | 2 API slots, 1 CLI slot, 1 slug, 2 ids; one API request and the CLI may fail at any call; init jobs fail or hang | `TypeOK`, `PublishedComplete`, `DeletedLeavesNothing`, `ImplementsDirectory`; `EveryRequestEnds`, under `FairSpec` |
| `access` | 2 requests, 2 addresses, 3 users, 3 membership ids, 1 login token; failures, expiry, restart | `TypeOK`, `LoginOnce`, `SessionNamesUser`, `NoOrphanMembers`, `NoUnloggedRemoval`, `NoDeadlock`, `OnlyEntitledActors`, `ImplementsRoster` |
| `vault` | 3 handlers, 1 name | `TypeOK` (with: no data key outlives its tenant), `SecretsReadable`, `DecryptionNeverFails` |
| `hibernation` | scheduler, 1 API slot, 1 tenant, one fault | `NoDockerConflict`, `AloneDelivers`, `EveryRequestCompletes`, `IdleTenantHibernates` with the pass, also one that fails half way, beside stop, wake and delete; `MemoryBesidePass`: who may take a paused container |
| `hibernation_many` | `BusySpec`: scheduler, 2 idle tenants with or without a data key, a delete and a start of either; one fault | `PassWaitsEnd`: the pass with its many row locks is in no cycle of waits, also not with a start that holds a key; `HTypeOK`, `PassReconciles`, `IdleTenantHibernates`; `PassSparesActive`: only idle tenants are touched, and only those beyond the stop threshold stopped |
| `runtime_deleted` | 2 API slots, no failure | **violated**: start overlapping delete leaves resources |
| `edge` | `KeyedSpec`: 2 API slots, 1 tenant with a data key; visits, starts, stops, pauses, deletes; failures, crashes, timeouts | `EdgeReaches`: an undisturbed visit reaches the tenant's container, and its gateway if that listened |
| `edge_first` | `ESpec`, which may have no data key; 2 visits, no failure | `EdgeReaches` **violated**: two first visits, one is told 503 |
| `edge_cold` | `KeyedSpec`: 1 visit, no failure | `EdgeServes` **violated**: the visit wakes the tenant and is proxied before the gateway listens |
| `hibernation_traffic` | scheduler, 1 visited tenant | **violated**: edge traffic is not activity |

**Bounds.** Handlers on different tenants share only the event loop (in `TenantRuntime`)
and the pass (in `Hibernation`); one tenant is enough for the first and two for the
second. Two requests reach every pairwise conflict, and three are used where a third
could matter (a start that loses to a start and a stop). Container ids, keys and row ids
are fresh when made: each cfg says how many can be in use at once. A bounded
number of faults (`MaxFaults`) is used only for the scheduler, whose liveness no
unbounded sequence of failures could satisfy. `idle` and the age classes stop at the last
threshold. In `provisioning` one slug is contended by three transactions and two tenants can
follow each other under it (`MaxTenants` bounds the ids drawn, not the requests that fail or
delete). In `access` two requests are enough for each pair of statements to meet; the third
user and row id are those of a user or membership made while two others exist, and with one
login token both requests verify the same one; `MaxSurplus` bounds the balance of `audit` from below
only: further removals are not counted, so that `audit` is then above the log's and the property,
an upper bound, stays as strict. In `hibernation_many` the pass begins over tenants that are idle
already (all started, one beyond each threshold; or both beyond the stop threshold, paused and
without a key after a start that failed at its commit), each slot serves one request, a delete and a
start that come at any time, and nobody falls idle again: the conflicts of one pass, which may
fail and be repeated, in every order. Four ids are enough for what two containers and two requests
hold. Repeated requests and time beside the pass are in `hibernation`, with one tenant. Deadlock is
checked in every run.

**Fairness.** `SF(Step(p))` for each request: PostgreSQL queues lock requests and asyncio
runs ready callbacks in order, so a step that is enabled again and again is taken.
`Fail` and the arrival of requests have no fairness. `SF(PassStep)`: `run()` repeats
the pass for ever. `DeadlockAbort` is part of `Step`: PostgreSQL looks for cycles after
`deadlock_timeout`. `Provisioning` asks the same `SF(Step(p))`, of a `Step` without `Fail`, and
nothing of the init job: a `wait` ends by its own timeout. `hibernation_many` uses the same fairness
as `HSpec`.

**Mutants.** Each property of a passing run has a mutant of the code that breaks it,
defined beside the original in the module.

## 4. Proofs

`TenantRuntimeProofs` proves, for any tenants, request slots, container ids, faulty
requests and flaky tenants:

* `TypeCorrect`: `Spec => []TypeOK`.
* `NoConflict`: if `CliCommands = {}`, `Spec => []NoDockerConflict`.
* `AloneDelivered`: `Spec => AloneDelivers`.
* `PauseRetained`: if `CliCommands = {}`, `Spec => PauseRetainsMemory`.
* `WaitingEnds`: `Spec => []WaitsEnd`.

The inductive invariant `IInv` has these parts: types; a container record is either
`NoContainer` or has an id; at most one request is in a synchronous section and it is the
one in `loop`; a request that is `alone` is the only one on its tenant; and for each
request `InHandler` (its `pc` belongs to its handler, the fields it holds fit the
`pc`), `SectionFacts` (what the first calls of its section saw still holds) when nobody
can disturb the section — the request is alone, or no CLI runs — and `AloneFacts`
(what the earlier *sections* established still holds) when it is alone. `NoDockerConflict`
alone is not inductive: it says nothing of who could change the container between two
calls; the event-loop part does. `AloneDelivers` needs `AloneFacts` at the commit. No
fairness and no bound on anything enters.

`WaitingEnds` rests on `LockInv` besides: the holder of a row lock is a delete of that tenant between
the flush of `DELETING` and its `DELETE`; an uncommitted DEK belongs to a start between the INSERT and
its UPDATE; and whoever has the loop is in a synchronous section. So a wait leads to a delete, which
waits at most for a start's key, or to a start, which waits at most for a delete's row
(`KeyHolder`, `RowHolderSettled`): a chain of waits has two links, or closes after two and
PostgreSQL breaks it. It is the safety half of `EveryRequestCompletes`, for any number of requests.

`DeletionProofs` proves `ClearedForGood` (`DSpec => []ClearedStaysEmpty`) for any tenants, requests and
CLI commands, each of which may fail anywhere. `DInv` adds to `IInv` and `LockInv`: a
container has an id and who holds a container object holds one (`Named`); an unstarted delete has removed
by each `pc` what comes before it (`Removed`), or holds the very container that is left; and a
start of a cleared tenant has not got past `get_tenant` (`Empty`). The lemma that carries it is
`StepShrinks`: no step of a stop, a pause or a delete brings a container, network, directory, key or row
back, nor puts another container under the name.

`VaultProofs` proves `TypeCorrect` (with: no data key outlives its tenant), `NoSecretLost` (`[]SecretsReadable`) and
`StartDecrypts` (`[]DecryptionNeverFails`). `VaultProofs!IInv` strengthens them by: a
deleted tenant has no DEK; at most one uncommitted DEK; and for each request past
`get_dek`, the key in hand is the committed one or its own uncommitted one, unless the tenant
is gone. The cascade and the foreign keys carry the last case.

`HibernationProofs` carries the first theorems over to the scheduler and proves its own, for
any number of tenants and requests and any `MaxFaults`:

* `HTypeCorrect`: `HSpec => []HTypeOK`.
* `NoConflictBesidePass`: if `CliCommands = {}`, `HSpec => []NoDockerConflict`.
* `AloneDeliveredBesidePass`: `HSpec => AloneDelivers`.
* `PassReconciled`: `HSpec => PassReconciles`.
* `PassSparesTheActive`: `HSpec => PassSparesActive`.
* `MemoryRetainedBesidePass`: if `CliCommands = {}`, `HSpec => MemoryBesidePass`.
* `PassWaitingEnds`: `HSpec => []PassWaitsEnd`.

`HInv` is `TenantRuntimeProofs!IInv` with the types of the pass. A step of the pass is not a step
of `TenantRuntime`; it either leaves containers alone (`...Ages`: rows only grow older or are
locked) or changes containers and rows between two synchronous sections (`...Intervenes`), when no
`SectionFacts` are due, and takes `alone` from the requests concerned, which ends their
`AloneFacts`. `PassReconciled` needs `PassKnows` besides: of a clean tenant the pass has seen the row as
it still is (`AsSeen`) and the containers are as its loops have left them (`Dealt`), through
both autoflushes and the lost rows. `PassSparesTheActive` follows from `AsSeen` alone: what the loops
find due of a clean tenant is what its row says. `PassWaitingEnds` extends `LockInv` by `HLockInv`: a
row lock is a request's or the pass's, and the pass has one only from its first autoflush to the end
of its transaction. A request that holds a row is a delete past its own UPDATE, so it never waits for
the pass: the pass waits for such deletes, and they at most for a start's key, which closes no cycle.

`ProvisioningProofs` proves `TypeCorrect`, `Published` (`PublishedComplete`), `DeletedGone`
(`[]DeletedLeavesNothing`), `Implements` (`Spec => ImplementsDirectory`) and, from the abstract
specification alone, `SlugsOneToOne`. Its invariant says what each handler has made or
removed by each `pc` (`Made`, `Unmade`), what its uncommitted row looks like (`Drafted`), that no two
transactions hold the same id, slug or row (`Apart`), that the slug of a creation is free
(`SlugFree`), and of each id what its row implies (`RowOK`). `DeletedLeavesNothing` alone is not
inductive: that a listed tenant has no init job comes from `Made` at the commit.

`AccessProofs` proves `TypeCorrect`, `LinkServesOnce`, `SessionsNameUsers`, `MembersBelong`,
`RemovalsLogged`, `NoCircle` and `ActorsEntitled`. Its invariant adds: the fields of a request fit its handler
(`Shaped`); the user in hand is committed under its address or is the request's own insert
(`UserFits`); an uncommitted membership keeps the tenant (`TenantFits`); beyond the role check the
actor is entitled (`RoleFits`); no two requests insert one address or verify one token, and none
inserts a membership beside a cascade (`Apart`); a pending token has granted nothing (`TokensOK`).
`NoCircle` (`NoDeadlock` for any number of requests; the run, with two, sees circles of two) gives
each request a `Height` by its statement and shows that whoever waits is higher than whom it waits for
(`WaitsDescend`); that the holder of an uncommitted address is past its INSERT, and so lower, is
`UserFits`. A set of requests then has a lowest one, which waits for none of the others.

It proves the refinement `KeepsRoster` (`Spec => ImplementsRoster`) besides, and from `Roster` alone
`RosterOrderly` (`[]Ros!Orderly`: addresses and accounts one to one, one role for each member, none without
an account or in a closed tenant) and `RosterSteady` (`Ros!Steady`: no account is withdrawn or handed
over, no member's role is overwritten, no closed tenant opens). `IInv` is not enough for it:
`RInv` adds that the ids of uncommitted users are nobody else's (`Unshared`) and that an
uncommitted membership is the only one of a user who has none (`Sole`), which is what the INSERTs have waited
for.

`EdgeProofs` proves, for any tenants, visits and requests:

* `VisitsReach`: if `CliCommands = {}`, `KeyedSpec => []EdgeReaches`.
* `VisitsAreRequests`: `ESpec => Spec`: `Edge` implements `TenantRuntime`, so its theorems hold
  beside the visits.

`EInv` has `TenantRuntimeProofs!IInv`; `Keyed` (a tenant with a row has its data key, so that no start
inserts one, none fails on a duplicate and PostgreSQL finds no cycle of waits); and for each calm
visit what it knows (`Knows`): its tenant is `Quiet` (it exists, Docker is not restarting it, and the requests
on it are starts and wakes), from the first resolve on it is `Spared` (no start is about to remove
a container that runs), while the visit waits its wake is on the way up (`Waking`), and afterwards
the tenant is up under the address in hand. `Spared` is what makes it inductive: Docker
may restart a container that a start has seen restarting and is about to remove, but then the start
is in its synchronous section and the visit's next call of the API waits for the end of that.
A warm visit knows besides that the gateway listens, which no step of a start or wake ends.
`Effect` is what a single step of a start or wake may do to a quiet tenant; `edge_first` shows that
`Keyed` cannot be dropped.

Assumptions: those named `...Assumption` in the modules — disjointness and membership of the
constants.

Only model-checked: liveness (`EveryRequestCompletes`, `EveryRequestEnds`,
`IdleTenantHibernates`). That every visit ends is not checked: it follows from
`EveryRequestCompletes` step by step, and the state graph that would show it is out of
TLC's reach in a few minutes.

## 5. Findings

1. `DELETE /tenants/{id}` does not always "delete tenant and all resources"
   (docs/api.md:138): a start in flight recreates them (`runtime_deleted`), and a second
   delete finds no row and returns.
2. Two first visits to a tenant race to insert its data key; one visitor gets 503
   (`edge_first`), against docs/architecture.md:107. The wake lock that
   plans/octw-spec.md:403 asks for does not exist.
3. Edge traffic is not activity (`hibernation_traffic`), against docs/architecture.md:109.
4. octw-edge proxies to a container that has just been started without waiting for its gateway
   (`edge_cold`), against "waits, then proxies" in docs/architecture.md:107; the refused connection is
   not caught. Once a gateway listens, `EdgeReaches` keeps its visitors.

Seen while reading, with no run: secret changes emit no audit event although
docs/security.md:105 lists them; rotation goes through `store_secret`'s defaults and so drops the
secret's `target_env_var` and type (`secrets_router.py:87`), where the comment at line 83 says that it
"just re-encrypts" (`RotateSecret` in `Vault` has the defaults); it does not restart the container
(plans/octw-spec.md:323); a pause of a stopped tenant gives it status paused
(plans/octw-spec.md:378 says "container paused (memory retained)");
`stop-if-idle` and `pause-if-idle` do not look at idleness; the scheduler is never started;
the loser of a race for a slug gets 500, not the 409 of docs/api.md:99, and waits for the
winner's whole onboarding; a provision that fails leaves directories, a network and perhaps an
init container that no command can name; an init job that exits 0 without a configuration is
followed by a tenant reported running; a removal emits its audit event whether or not it
removed a row, so the log may hold more removals of a user than happened (the converse is
`NoUnloggedRemoval`); the log cannot be read in the order of what happened, for `created_at` is the
start of the transaction (`db/tables.py:130`) and a removal that began before an addition and
committed after it sorts before it; `connect_edge_to_network` is never called, although
docs/security.md:82 says that octw-edge "is connected to tenant networks": docker-compose puts it on
`octw_control` only, where its `_INTERNAL_API` (127.0.0.1:8000) is not the API either; the last admin of a tenant can be removed; a `verify` that fails, or a
restart, burns the login link.

## 6. Plan

Written, in this order: `TenantRuntime`, its proofs, `Vault`, its proofs, `Hibernation`, `Edge`,
`Provisioning` with `Directory` and proofs, `Access` with proofs, the proofs about
`Hibernation` and `Edge`, `Deletion` with proofs, `Roster` and its refinement. What is left:

1. An abstract tenant lifecycle (`stopped`, `running`, `paused`, `gone`) and a refinement
   mapping from undisturbed requests of `TenantRuntime`; `AloneDelivers` states the same per
   request.
2. Visits beside the scheduler: `Edge` and `Hibernation` in one module.

**Not modelled.** `backup.py` (nothing calls it), logs, metrics, audit events other than those of
memberships, static tables and settings (`models/`, `common/`); header, path and URL handling in the
proxy and in `api/`, request validation (400), the expiry of access tokens (it only ends
sessions; logout does nothing), and who may run the CLI, which checks no membership; JSON
patching of `openclaw.json` beyond whether it was done; cryptography itself; the refresh of
`updated_at`; `create_all` and migrations; the connection pool (its timeout is one of the
exceptions of `Fail`); Redis (configured, never used); `connect_edge_to_network`, which
nothing calls (`Edge` assumes the connection); when a gateway starts to listen (`Edge` leaves it open); handlers that only read (`list_...`, `get_container_logs`).

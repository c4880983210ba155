# A TLA+ model of RootCX Core

RootCX Core is one Rust process over one PostgreSQL database. It hosts
applications: their data behind a governed SQL layer, their backends in worker
processes, their automation (jobs, crons, workflows, agents) behind a durable
queue. This project models the parts of it whose correctness depends on
interleavings, crashes, redeliveries and concurrent administration, checks them
with TLC on small instances, and proves the main guarantees of several of them
with TLAPS for all values of the constants.

`PROJECT.json` lists the runs, the mutants, the source lines behind every
definition, the findings, the hazards, the theorems, and every part of the
system with its status.

## The parts and their modules

| Part | Module | State | What makes it hard |
|---|---|---|---|
| Job queue (`jobs.rs`) | `JobQueue` | pgmq tables `jobs`, `jobs_dlq` | leases that expire under live work; dead-lettering in two statements |
| What the queue promises | `JobContract` | how far each message is | abstract; the next two implement it |
| Scheduler, workflow branch | `WorkflowDispatch` | dispatch permits, in-flight set, run tasks, execution rows | every statement may fail; redelivery races the run it repeats |
| Scheduler, app-job branch; supervisor and process | `AppJobs` | command channel, leases, heartbeats, pipe | one loop that may block; crash backoff |
| Workflow drive (`runner.rs`, `executor.rs`) | `WorkflowRunner`, `TopoSort` | node rows, locals of `run` | resumed in another order; Stop; lost records |
| Worker pool (`worker_manager.rs`) | `WorkerPool` | map of workers, permits | decided before an await, applied after it |
| Worker transactions (`sql_proxy.rs`, `worker.rs`) | `GovernedTx` | transaction actors, supervisor loop, bounded channels | cancellation, deadline and COMMIT race |
| Roles and permissions | `Authority` | role table, assignments | wildcards, row scopes, cycles, two resolvers of one hierarchy |
| Row access and sharing | `RowAccess` | manifest, saved contract, policies in force, rows | the plan is replaced under live writes |
| Cross-app grants and publications | `CrossAppAccess` | installations, grants, publications, lock tables | revocation is a barrier for work in flight |
| Approved actions and releases | `AppRelease` | releases, sealed bytes, approvals, executions | reviewed code against deployed code |
| Filters of reads | `CollectionReads` | pure | placeholders, precedence, sensitive fields |
| Declarative rules | `RuleLanguage`, `RuleReference`, `RuleInstall` | columns, checks and indexes of a table | precedence in PostgreSQL; replaced on live tables |
| Object storage | `ObjectStorage`, `BucketTree` | large objects, upload sessions, folders | resumable uploads, cascades, overlapping moves |
| Sign-in, roles of people, service accounts | `SignIn` | users, assignments, invitations, sessions | the last administrator, single-use links |
| Connections | `Connections` | credentials, bindings, provider's tokens | rotating refresh tokens renewed twice |
| Chat channels | `Channels` | receipts, links, sessions, approvals | repeated and reordered webhooks |
| Crons, hooks, webhooks | `Triggers` | rows, pg_cron jobs, delegations | two systems kept in step |
| Agent runs | `AgentTurns` | runs, calls, approvals, rate windows | permissions change during a run |
| Hosted builder | `HostedBuilder` | repository, runs, leases, live app | publication recovered half-way |

How they interact. `Triggers` and the routes of `WorkflowDispatch` enqueue what
`JobQueue` holds; `WorkflowDispatch` and `AppJobs` are two consumers of that
queue and extend its module. A workflow run driven by `WorkflowDispatch` is
opened up in `WorkflowRunner`, which relies on its `SingleFlight`. A job reaches
a process through the pool (`WorkerPool`), and the process reaches the database
through `GovernedTx`. Whether a request may do what it asks is decided by
`Authority`, `RowAccess`, `CrossAppAccess` and `AppRelease`.

### How a module stands next to its code

An action is one database statement, one transaction that takes a single lock,
or one critical section: everything the code does between two points where
another task may run. A request, task or process is a record with a program
point (`pc`) and the locals it carries across an await. A statement that may
fail has a second alternative, the error path of the code; a crash loses
everything but the database. Variables marked *history* in a module record what
a property needs and no action reads. `pgmq`, `pg_cron`, PostgreSQL's locks,
cascades and precedence, and the OAuth providers are external: they are
modelled from how the code uses them and marked so in `PROJECT.json`.

Data is abstracted to what the properties tell apart. A digest is the content it
stands for, a chunk of a file its position, a permission key its segments and
its scope, a filter or a rule its syntax tree, a message its number. Time is a
step that may happen at any moment: a lease nobody renews runs out, a grant
lapses, a deadline passes.

Each module's head says what its variables stand for. Points worth knowing
before reading one:

* `JobQueue.dead_letter` is two definitions because it is two statements.
* `WorkflowDispatch.http` holds manual runs between their INSERT and their
  enqueue; `LastStatement` is a statement whose result the code throws away.
* In `AppJobs` the supervisor does nothing else while it writes to stdin or
  settles a message (`sup.pc`); replacing a dead supervisor is one step here, its
  races are in `WorkerPool`.
* `CrossAppAccess` and `AppRelease` model locks explicitly. In the first a request
  wants the next lock of its list (`nextOf`, `Want`) and waits until no
  conflicting one is held; in the second an administrator holds the lifecycle
  lock, and waits for the rows an execution holds (`FreeOfRuns`, `FreeOfAdmins`).
  Writes become visible when the request ends.
* In `RuleInstall` an installation is a sequence of statements between which rows
  are written; `interrupt` stops it for good.
* `GovernedTx.loop.pc` is where the supervisor's loop is blocked, if it is.

## Runs

A run over several components is a sum: the `MC` module extends all of them, and
a behaviour is one of a single part (`part`) while the others rest in one of
their initial states. The parts share no state, so the states of the run are the
union of those of the parts, and each property says something in the
behaviours of its own part. For a pure part (`CollectionReads`, `RuleLanguage`)
the steps build an input piece by piece, and the last one computes what the code
makes of it (`answer`, `verdict`).

Passing runs (distinct states, time on two cores):

| Run | Parts | Asks | Size |
|---|---|---|---|
| `dispatch_faults` | `WorkflowDispatch` | one crash, panic or failed statement anywhere, with redeliveries: no execution driven twice (`SingleFlight`), success is final, `JobContract` is implemented | 680,000, 86 s |
| `dispatch_settles` | `WorkflowDispatch` | hung runs, a crash, the workflow edited or deleted: every message leaves the queue | 338,000, 112 s |
| `jobs_faults` | `AppJobs` | two jobs in one worker, one fault of any kind, each message delivered once: what runs is leased | 1,197,000, 60 s |
| `jobs_settle` | `AppJobs` | a job that may hang, redelivered while it runs, deaths up to the crash loop, a stop, a restart: it is started no more often than it is delivered (`JobContract`), and its message leaves the queue | 434,000, 120 s |
| `engine` | `WorkerPool`, `WorkflowRunner`, `TopoSort` | no process is lost or handed to another identity; a resumed drive cannot be told from one that never crashed; `topo_sort` on every graph of 4 nodes and up to 5 edges | 469,000, 83 s |
| `governance` | `Authority`, `RowAccess`, `CrossAppAccess`, `AppRelease` | narrowing is exact, act-as never escalates, both resolvers of the role hierarchy agree and cycles are found; the contract in force is the accepted one and confined writers stay confined; work commits only under the grant, publication or approval it was given; who may deadlock | 403,000, 86 s |
| `content` | `CollectionReads`, `RuleLanguage`, `RuleInstall`, `ObjectStorage`, `BucketTree` | a filter and a rule mean in SQL what they say; installed rules hold and replacing one opens no window; every file is whole and every large object has one owner; trees stay trees | 520,000, 128 s |
| `accounts` | `SignIn`, `Connections`, `Channels`, `Triggers` | the last administrator stays, sessions end with what earned them; no refresh token is presented again once a renewal consumed it, and none that was is left stored; a delivery to a channel is handled once, a run acts and an approval is answered only under the link they started under; schedules match their rows, triggers act for their owner | 741,000, 142 s |
| `work` | `GovernedTx`, `AgentTurns`, `HostedBuilder` | all or nothing, outcomes are final; calls stay within the admitted authority and the policy; publications follow one line of heads and were allowed | 319,000, 29 s |
| `settles` | the same | under fairness: closing a worker ends, an ended run leaves nothing waiting, every build request ends | 33,000, 25 s |

Violated runs, each of a sentence in the code that the code does not keep (the
quotes are in `PROJECT.json`):

| Run | What TLC finds |
|---|---|
| `stop_halts` | a recorded Stop is skipped on resume, and the nodes beside it run |
| `refusal_changes_nothing` | a rule that could not be evaluated before a column was retyped is refused afterwards: the refusal finds the column changed |

### Disagreements without a run of their own

The modules also define properties that quote the code or its docs and that the
models violate. Put one of them in the place of the properties of the run named
(for an action property, under PROPERTY) to see the trace.

| Property | Run to reuse | The sentence, and where it fails |
|---|---|---|
| `DeniedRunIsFailed` | `dispatch_faults` | `scheduler.rs:325` "fail the … execution so it can't sit in 'queued' forever": the message is dropped first (333), a death in between leaves the row live |
| `EvictionSparesLiveWork` | `engine` | `worker_manager.rs:482`: a worker re-used since the idle probe is stopped with work in flight (487) |
| `NoDeadlock` | `governance` | `docs/testing.md:106`: creating a grant takes the two installations in another order than a publication does (`cross_app.rs:1183`, `publications.rs:419`); `OnlyCreationDeadlocks` is what holds |
| `RevokedStaysRevoked` | `accounts` | `oauth.rs:173` "resurrect one the owner just revoked": a disconnect between the second look (177) and the write (186) is undone |
| `ReconnectStands` | `accounts` | `oauth.rs:173` "writing now would revert a fresh credential": a reconnect between the same two statements is overwritten |
| `RenewedByItsClient` | `accounts` | `connections.rs:426` "config_id pins which OAuth client refreshes its token": a reconnect pins the new config before it stores the new token, and a renewal in between presents the old token as the new client |
| `NoSecondRun` | `accounts` | `jobs.rs:243` on surrendering a lease "under a live handler": the heartbeat gives up in the end, and the redelivered message starts a second run beside the first |
| `FirstUserAloneIsAdmin` | `accounts` | `oidc/routes.rs:619` "The first non-system user … bootstraps as admin": two first sign-ins both read that the tenant is new (711) |
| `UnlinkEndsTheDelegation` | `accounts` | `channels/routes.rs:641`: a link completed beside an unlink keeps its delegation |
| `NoFallbackToAdmin` | `accounts` | `scheduler.rs:435`: the boot migration gives a cron without owner to the first administrator (`grants.rs:137`) |
| `DeclaredHandlerIsCalled` | `accounts` | `integrations/routes.rs:246`: the boot migration rewrites a webhook's handler (`grants.rs:194`) |
| `NoCircularMoves` | `content` | `platform_storage/mod.rs:523` "Prevent circular moves": two moves that overlap make a cycle |
| `NoLoneCircle` | `content` | the same sentence: the walk ends after 100 folders (526) and the UPDATE follows (538), so one move below a deeper descendant makes a cycle |
| `LeftoversAreCleaned` | `content` | ADR 0010 "the next install cleans the leftovers": an index built and not yet commented when the session is lost (`reconcile.rs:421`) is unknown to an installation that does not declare it, and goes on refusing rows |
| `NeverUnenforced` | `content`, with `Stories <- MCNarrowed` | ADR 0010: dropping a column drops the checks that read it before their replacements exist |
| `EveryRateLimitHolds` | `work` | `supervision.rs:15` "timestamps of recent calls": the limits that match a tool share one list, and the one with the shortest window cuts it for all (86) |
| `DroppedRunIsCancelled` | `work` | ADR 0011: an approval given after the run was dropped still lets its call through (`worker.rs:1321`) |
| `AdminGovernsTheAgent` | `work` | a deployment re-creates the default role an administrator removed |
| `HalfPublishedBlocks` | `work` | the recovery scan may find the lease of a run free before the run's own task has noticed that it lost it (`builder/mod.rs:441`): both go on, and a half-published change is left without a run that blocks later ones |
| `NoSilentDrift` | `work` | `docs/hosted-builder.md:126`: a direct deployment that passes the guard before the import is recorded (`builder/mod.rs:470`) leaves the served files and the head apart |

Further behaviours the models show: a worker that stops reading blocks its
supervisor, and redeliveries queue behind it holding every permit
(`worker.rs:1022`); the supervisor may wait for room in its own outbound channel
(`worker.rs:1571`); a redelivery that binds between a run's final UPDATE and the
archive of its message creates a second execution; an evicted worker's permit
is free before its process has stopped; of two callers that find the same dead
worker, the slower one removes, by key, the replacement the faster one inserted
(so `NoWorkerIsStranded` is stated only of deployments where no entry is removed
by its key: enough permits, no reaper, no worker found dead, no stop); a service
account may be given the administrator's role, is then counted by the guard of
`revoke_role` and `delete_user`, and is deleted by `delete_sa` without a count
(so `AdminRemains` is stated of scenarios in which not both happen); an invitation
to the address of a service account opens a session for it, and one to the
address of a service account not yet made creates a plain user, in whose way
`create_sa` then stands.

More of the same kind. A rate limit of 0 panics at the first call, which stays
unanswered (`supervision.rs:91`). A managed channel that is deleted and provisioned again has
lost its receipts with its row, so an old delivery is handled once more
(`HandledOnce` is stated of one row). A webhook that a manifest stops declaring
keeps its delegation; a revocation that fails is swallowed; a webhook that changes
hands has none until the new one is written; boot gives a cron without owner to
the administrator, with the delegation of the owner it lost. A reference dropped
from a manifest keeps its foreign key. A demotion between the builder's second
check and the installation does not stop it, and where unbacked sources are
allowed a publication has no backup. Refresh tokens the Core does not manage go to
the worker, which may spend one and lose the next.

### Bounds

Every bound is a constant of its module, given in the `.cfg`. Messages, rows,
grants, approvals, installations and workers ever created are bounded by the
number a scenario needs; failed statements, crashes and restarts by one or two,
which puts a fault between any two steps (and, in the drive of a workflow, a
second one into the resumed drive). `OneFault` (`MCWorkflowDispatch`,
`MCAppJobs`) is a state constraint and is used with safety only. Two tasks are
enough for a redelivery to race the delivery it repeats; two deliveries reach
the limit and the dead-letter path. With one message there is at most one run
(the in-flight set), so `dispatch_settles` has one run task; it has two execution
rows, one for the manual run and one for the delivery within the bound.
Limits of the code that are larger than a model needs are lowered:
`MAX_DELIVERIES` (5), `CmdCap` (64), eviction probes (4), the channels of
`GovernedTx` (8, 64 and 4), `MAX_ROLE_DEPTH` (64), the walk of `rename_object`
(100, here 3). The scenarios come up to each of them. Beyond two of them the code
gives a weaker answer, and the properties say so: `RolesAreResolved` speaks of
hierarchies within the depth, `TreeIsSound` of trees no deeper than the walk.

`jobs_faults` allows one delivery, because two jobs, two deliveries and a fault
anywhere are more states than five minutes allow. Redelivery, and with it
`HonoursContract`, is the subject of `jobs_settle`, which has one job and no failed
statement; their combination is covered by the proof of `JobsHonourContract`.

Where every combination of requests would be too many, a scenario says what each
request may do (`Mixes`, `Duties`, `Scenes`, `Plots`, `Casts`, …); the
interleaving, the faults and the outcomes are never fixed by it. Each scenario
carries a comment that says what it is for. Symmetry is used in the safety runs
over interchangeable tasks, callers and keys. Deadlock is not checked: with
bounded requests and faults every model comes to rest.

### Fairness

Weak fairness throughout: on polling, on each task's next statement, on the
statements of a run, on the supervisor's loop, on a heartbeat that has reached
its limit and a lease nobody renews (`FairSpec` in `WorkflowDispatch` and
`AppJobs`); on transaction actors, one-shot operations and the loop that closes
a worker (`GovernedTx`); on the steps and the expiry of an agent's calls and on
the fan-out task (`AgentTurns`); on the builder's tasks, its dispatcher and the
recovery scan (`HostedBuilder`). The runtime schedules tasks, and time passes.
Nodes and jobs are never assumed to finish, a process that stopped reading is
never assumed to read, a person is never assumed to answer.

### Mutants

Every property of every passing run has a mutant: a plausible slip in the
modelled code (a guard dropped, a bound off by one, an order swapped, a status
condition forgotten) under which TLC finds that property violated.

## Proofs

All constants are arbitrary within the assumptions named in the modules: numbers
are naturals, positive where a limit must be, and scenarios are well formed
(`QueueAssumption`, `DispatchAssumption`, `KeysAssumption`,
`JobsAssumption`, `TablesAssumption`, `ReleaseAssumption`, `AccessAssumption`,
`SignInAssumption`, `TxAssumption`, `CnAssumption`). Sets of tasks, requests, processes,
administrators, people, calls and transactions are arbitrary. Every inductive
invariant was checked by TLC on an instance before it was proved.

Each proof module says `USE ZenonT(60)` once: a leaf is Zenon's unless it cites
`SMTT(30)` (arithmetic, sequences, the fields of an updated record) or `PTL`.

**Workflow dispatch** (`WorkflowDispatchProofs`, lemmas about the queue in
`JobQueueProofs`).

* `DispatchTypeCorrect`, `DispatchSingleFlight`. `SingleFlight` is not
  inductive: it speaks of executions, the guard in `spawn_workflow_run` of
  messages. `FlightInv` bridges the two. A row belongs to one message for good
  (`RowsKeepTheirMessage`), a task about to spawn holds a row of its own message
  (`TasksHoldTheirRow`), and live runs have distinct messages, all in the
  in-flight set (`RunsAreInFlight`). Hence distinct rows.
* `DispatchSucceededIsFinal`. The UPDATEs of a run have no status guard, so the
  proof rests on single flight: the only run that could overwrite a succeeded
  row is the one that wrote it, and it has finished driving (`DrivenInv`).
* `DispatchHonoursContract`, the refinement of `JobContract`. `DeliveryInv` says
  that each task holds a delivery nobody else holds and nobody has started, and
  that a task past the bound check holds one within the bound. Every step is
  then a send, a start, or an `Advance` of the contract.

**App jobs** (`AppJobsProofs`, with the same lemmas about the queue).
`JobsTypeCorrect`, `JobsAreLeased` (`RunningJobIsLeased`) and
`JobsHonourContract` (the refinement of `JobContract`) follow from `JobsInv`:

* `ResultsInv`: the supervisor gives up a lease when it reads a result, so that
  running jobs stay leased needs more than leases for them: every unread result
  has a lease of its own, and no job runs whose result is in the pipe;
* `SupervisorInv`, `ProcessInv`: a job being written has no lease yet, the
  supervisor runs or backs off only below the crash limit, and a process that is
  gone has no jobs;
* `HoldersInv`, `ApartInv`: a delivery is held by at most one of a task, a command in
  the channel and the blocked supervisor; one that is held has not been started,
  and past the check is within `MAX_DELIVERIES`;
* `WaitingInv`: a status request in the channel belongs to one waiting task;
* `CountersInv`: what was started had been delivered.

`SixKinds` sorts the steps of the system by what they do to deliveries (nothing,
enqueue, poll, post a command, block the supervisor on one, start one), so that
`DeliveryInv` and the refinement are shown once for each kind instead of once for
each action.

**Permissions** (`GovernanceProofs`).

* `DelegatedAuthorityIsExact`: `NarrowingIsExact` for every set of keys. The meet
  of two patterns covers a key exactly when both do (by cases on which pattern is
  a wildcard and which prefix is longer), and so for sets of patterns.
* `ActAsGateIsSound`: `ActingNeverEscalates`. The gate tests the target's keys one
  by one; that this suffices for every key they cover is the transitivity of
  `covers`.

**Approved releases** (`GovernanceProofs`). `ReleaseSound` and
`CommitsOnlyWhileApproved` follow from `ReleaseInv`:

* `OneHolder`: at most one administrator is inside the lifecycle lock, and only
  the holder changes the release, the directory or the installation;
* `RequestsFit`: what each request has read is still so at its next step, because
  it holds the lock;
* `ReviewFits`, `ApprovalsFit`: a revision names one content, and one manifest
  while its installation is active; an approval names a revision that was sealed
  with the bytes reviewed;
* `ExecutionsFit`: an execution inside a data transaction holds the rows of the
  installation, the release and the approval, and whoever would revoke or
  replace them waits for these rows.

`CommitsOnlyWhileApproved` is the last of these, read at the commit.

**Cross-app access** (`CrossAppAccessProofs`).
`GrantsAccountable` and `CommitsOnlyUnderAuthority` follow from `AccessInv`:

* `LocksExclude`: no two requests hold locks that conflict. It is preserved
  because a lock is granted only when it is free (`GrantedIsFree`), whatever it is;
* `Fits`, one clause per program point: what a request found under its locks is
  still there. `Placed` says which locks a request at a given point holds, `Named`
  and `Recorded` what its grant and publication were when it read them;
* the argument is the same at every step: the request that would change what
  another relies on (an app, an installation row, a grant, a publication) needs a
  lock that conflicts with the one the other holds. `SafeFor` states what a step
  on the tables must leave alone for that, and each step on the tables is shown
  to be safe for every other request; steps that touch only their own request come
  first in the module.

At the program point `provider` the invariant says that the grant, the
publication and the installations are exactly what was authorized, which is
`CommitsUnderAuthority`.

**Sign-in** (`SignInProofs`). `SessionsEarned` (`SessionsAreEarned`) and
`AdminsRemain` (`AdminRemains`) follow from `SignInv`. An account's row counts its
insertions and deletions, so an id is odd while the account exists and never
comes back:

* `Earned` follows a request from the id it read to the session it opens: every
  statement that writes checks the id again, so a live session's id is the row's;
* `Invited`, `OneAcceptance`: a request that is spending the invitation holds its
  row, which is live, so only one request ever opens a session with it;
* `Guarded`: a request past the count of the administrators holds the lock that
  every other revocation and deletion needs, and saw an administrator other than
  the one it takes away. Nobody can remove that one before it writes.

**Connections** (`ConnectionsProofs`). `TokensStayUnspent` (`TokensAreUnspent`)
follows from `ConnInv`. A provider that rotates refresh tokens accepts each once, so
the argument follows every token:

* `TokensHaveOnePlace`: a token is in the secret of one connection, in one connect
  flow that will store it, or in the hands of the renewal that got it. Without this
  a token spent through one place could still be presented from another;
* `GuardIsHeld`: a connection's guard names the request that renews it, so at most
  one request presents the stored token;
* `SpentAreReplaced`: while no statement failed, a spent token is stored only under a
  guard whose holder is on its way to overwrite it;
* `Overtaken`: a renewal whose connection was reconnected or disconnected while it was
  at the provider holds another token than the stored one, hence fails the recheck.

The proof takes from the constants only that requests have names of their own
(`CnAssumption`).

**Governed transactions** (`GovernedTxProofs`). `CommitsAreWhole`
(`NoPartialCommit`) and `AnswersAreFinal` (`OutcomesAreFinal`) follow from `TxInv`:

* `InOrder`: a commit or rollback is the last command of a queue, because the
  session leaves `open_txs` when it is sent;
* `Warned`: what went wrong is known to the actor, or waits as a poison in the
  queue, which is ahead of any commit. With `InOrder` the actor learns it first;
* `Progress`: a transaction that is committing was not spoilt;
* `Watched`, `ClosingHasAll`: under an approved worker every transaction that may
  still commit is tracked, or awaited by the close in progress. Hence, when a
  close is over, everything of its invocation is decided (`AnsweredIsOver`,
  `StoppedIsOver`). This is what makes an answer final.

`Evolves` says what a step may do to one transaction and `Steady` what a step of
the system must leave alone; each action is shown to be one or the other, and
`SteadyStep` carries the invariant and both properties through.

### Only model-checked

Liveness and fairness are out of this prover's reach (`EveryMessageSettles`,
`WorkSettles`). So is induction over data: what `topo_sort`, the resolution of
roles, the compilation of filters and the parser and emitter of rules compute
for every input (`SortsEveryGraph`, `RolesAreResolved`, `ReadsAreExact`,
`EnforcedAsWritten`). `OnlyCreationDeadlocks` speaks of arbitrary sets of waiting
requests. The invariants of the remaining components are checked by TLC and not
yet proved.

## Not modelled

`PROJECT.json` has the status of every part, and for a part that is modelled in
part what is left out. Not modelled at all: expressions and items of workflow
nodes (pure conversions of JSON), audit and log records (append-only), secrets
(encryption), static files and onboarding, the command line, the client SDKs and
the separate builder service. Left out of the modelled parts: SSE streams, the
scheduler's watchdog (its agent branch is the start of a run in `Triggers`), `restart_all`, message formats and
signatures of chat providers, the wording of errors and of generated SQL,
cryptography.

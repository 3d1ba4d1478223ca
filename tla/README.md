# CommandOS in TLA+

TLA+ modules, model-checking configurations and machine-checked proofs for
CommandOS. Two parts: the durable execution core (the leased job queue and its
cron-driven worker, the durable workflow runtime, the signal and schedule triggers
that start runs, the workflow definitions they start), and the components that serve
requests (the AI runtime, agents, operations, signals from their bus to their pages,
runs started in a request, first logins, the command palette).

    tlc -workers 2 -config MCJobQueue.cfg MCJobQueue      # model-check one configuration
    tlapm JobQueueProofs.tla                              # check the proofs of one module

Every definition is a translation of the TypeScript and SQL it stands for;
`PROJECT.json` maps it to the lines, and lists runs, theorems, hazards and findings.

## 1. The system

CommandOS is a Next.js application on Postgres (Supabase). Nothing of it runs for
long: a request or a cron tick starts a process, which talks to the database call by
call and ends. What is durable is rows; what coordinates is conditional UPDATEs,
unique constraints and a handful of SQL functions. Two processes therefore
interleave between any two database calls of either, and any of them may die there.

| Component | State | Operations | Talks to | What is hard |
|---|---|---|---|---|
| **Job queue and worker** (`services/jobs/*`, `claim_jobs` in `20260729000000`) | the `jobs` table: status, schedule, attempts, lease; one tick's batch in memory | enqueue, claimDue, renewLease, complete, fail, reclaimExpired, cancel; `tick()` | cron starts ticks every minute; handlers are the workflow service | leases that run out while a batch is still being run, ticks of a region sharing one worker id, `fail()` in two calls, a `complete()` that throws after it took effect |
| **Workflow runtime** (`lib/workflows/runtime`) | one run in memory: frontier, arrivals at joins, completed nodes | start, resume, the advance loop, one executor per node type, checkpoint, suspend, finish | repository, capabilities (agents, operations), signal bus | a crash between two writes, re-running after a redelivery, a suspension visible before it is saved |
| **Durable run service** (`workflow-service.ts`, `workflow-durable.ts`, `20260807000000`) | `workflow_runs`, `workflow_step_runs`, `workflow_timers`, `workflow_approvals` | runEnqueued, resumeEnqueued, decideApproval, cancelRun; passes `claim_due_timers` and `claim_pending_approvals` | job queue, runtime, approvers, operators | whole-row saves over stale reads; three parties that each drop what they think is stale |
| **Signal triggers** (`durable-trigger-evaluator.ts`, port and SQL) | `trigger_scan_cursor`, `trigger_claims`, `signals` | the pass over each workspace: list, read cursor, scan a batch, claim each, advance | definitions, signals, job queue | stamps made before the row is stored, overlapping scans, first sight of a workspace |
| **Schedules** (`durable-schedule-evaluator.ts`) | `schedule_occurrences` | the pass: read clock, list, claim the latest boundary | definitions, job queue | boundaries after downtime, a version published under a pass |
| **Workflow definitions** (`workflow-service.ts`, `state-machine.ts`) | `workflows`, `workflow_versions` | create, update, publish, transition, execute | triggers, runtime | read, check, write whole row, with nothing to notice a change in between |
| **In-process trigger engine** (`trigger-engine.ts`) | subscriptions in memory, one set per process | register, unregister, on signal | signal bus, workflow service | goes on in the durable mode, beside the passes of the worker; lost on restart |
| **Conditions and variables** (`conditions.ts`, `variables.ts`) | none | evaluate, interpolate, resolve | runtime | absent values, comparison across types |
| **Platform retry and cancellation** (`lib/platform`) | a token, a counter of attempts | runWithRetry, cancel, onCancelled | AI runtime, action nodes | a cancel during the sleep, a timeout that leaves the call running |
| **AI execution runtime** (`lib/ai/runtime`) | one execution: status, events, attempts | run | provider, logger, signal bus | timeout against a late answer, classification of what ended it |
| **Agents** (`services/agents`) | `agents`, `agent_executions`, activity | create, update, transition, execute | AI runtime, signals | guard against two executions in two calls; an execution stuck in running |
| **Operations** (`services/operations`, its pages and actions) | `operations`, activity; the page of every tab | create, update, transition | signals | whole-row writes over stale reads, pages that offer what the row no longer allows |
| **Signal bus and event store** (`lib/signals`, `services/signals`) | append-only signals and lifecycle events, counters of a bus | publish, subscribe, acknowledge, resolve, dismiss | everybody emits | two inserts per signal whose errors are swallowed; events in any order, folded into a lifecycle |
| **Catalogue, timeline, metrics, health** (`lib/signals`) | none | projections, filters in Postgres and in memory | event store | the same answer from two stores |
| **Workspaces and membership** (`services/workspace*`, `app_provision_personal_workspace`) | `workspaces`, members | provision, list, resolve | auth | two first requests at once |
| **Auth, roles, row-level security** | sessions (external) | middleware, session look-ups, permission checks | all services | a session that ends between two look-ups |
| **Command palette** (`command-menu.tsx`, `workspace-provider.tsx`) | selected workspace, cache of feeds, recordings under way, all in a tab | open, pick, switch, sign out | feed routes, signals | answers that arrive after a switch or a sign-out |
| **Providers, prompts, conversation** | none | text assembly, one external call | AI runtime | – |
| **Other pages and server actions** | none | thin wrappers | services | – |
| **Validation scripts and tests** | none | – | – | – |

What makes each component correct:

* *Queue*: a job is leased exactly while it runs; one more tick holds it for each lease
  that ran out, and no other; who lost the lease cannot settle the row; attempts are accounted for;
  what is settled stays settled; a queued job settles in the end; to its clients the
  queue is delivery at least once.
* *Runs*: nothing starts before what it waits for, nobody passes an approval that was
  not given or a delay that is not over; effects happen once plus once per fault; a
  completed run left nothing out; one executor advances a run, and one more per fault; a
  suspended run has something that will wake it; what is over stays over; every run ends.
* *Triggers*: the cursor never passes a signal that is owed a run and has none; it
  moves forward only; each owed signal is claimed in the end; occurrences fire on a
  boundary, and none is forgotten.
* *Definitions*: an active workflow names a version that exists; an archived one stays
  archived.
* *AI runtime*: however answer, timer and token race, one outcome that fits the error; no
  call of the model after an aborted one; every run that is served ends.
* *Agents*: one active execution per agent; what a row says the log says; no signal tells
  of what did not happen.
* *Operations*: the trail accounts for the status of the row.
* *Signals*: the lifecycle shown never goes back; Postgres and memory, list and pages,
  chains and counts agree; a lost delivery shows in the health.
* *Starts in a request*: an occurrence starts one run whoever meets it.
* *Access*: one personal workspace per user, and nobody acts where they are no member.
* *Palette*: what is listed is of the selected workspace, what is recorded is recorded where
  it belongs.

`PROJECT.json` lists the hazards, each at its line, with the properties
that would catch it.

## 2. The modules

| Module | Models | Used by |
|---|---|---|
| `JobDelivery` | what the queue promises: an abstract queue that delivers at least once | implemented by `JobQueue`, instantiated by `DurableRun` |
| `JobQueue` | the jobs table and the whole of `tick()` around the handlers | `MCJobQueue`, `JobQueueProofs` |
| `DurableRun` | one run: worker, runtime, timers, approvals, cancel | `MCDurableRun`, `DurableRunProofs`, `DurableRunCalm` |
| `WorkflowDefinition` | definitions and versions under concurrent requests | `Triggers` |
| `Triggers` | signals and schedules, on top of the definitions | `MCTriggers`, `TriggersProofs` |
| `AiExecution` | one run of the AI runtime with the platform's retry policy, token and status machine | `AgentService`, `ServicesProofs` |
| `WorkspaceRoles` | the role hierarchy | `AgentService`, `OperationsConsole`, `SignalStore` |
| `AgentService` | requests on agents, the runtime in the middle of them | `MCServices`, `ServicesProofs` |
| `OperationsConsole` | operations, and the tabs that work on them | `MCServices`, `ServicesProofs` |
| `SignalViews` | what is computed from signals: pure operators, no variables | `SignalStore`, `SignalProofs` |
| `SignalStore` | bus, the two logs, operators at their desks | `MCServices`, `SignalProofs` |
| `InlineStarts` | starts outside the worker: in-process engines, manual starts | `MCServices`, `ServicesProofs` |
| `WorkspaceAccess` | from session to workspace, with provisioning | `MCServices`, `WorkspaceProofs` |
| `CommandPalette` | the state of one tab above its pages | `MCServices`, `WorkspaceProofs` |
| `MCServices` | these components side by side, one at work in a behaviour | its configuration, `PartsProofs` |
| other `MC*` | graphs, trigger sets, rows and symmetry for TLC | the configurations |
| `*Proofs`, `DurableRunCalm` | theorems; `DurableRunCalm` has those about a run up to its first fault | – |

Composition: `JobQueue` implements `JobDelivery` (its property `DeliversAtLeastOnce`
hides leases and workers); `DurableRun` takes its queue operations from an
`INSTANCE` of `JobDelivery`, so its executors are driven by anything the real queue may
do and need not repeat the leases; `Triggers` extends `WorkflowDefinition`, whose
requests interleave with the ticks. A `DurableRun` begins where a claim of `Triggers`
ends: a pending run and its job, created by one transaction. `AgentService` extends
`AiExecution`: between creating an execution and settling it, a request is a run of the
runtime under the same id. The other request-serving components share no state but the
rows of their own tables; `MCServices` is their sum (section 3), in which each keeps its own
specification (`PartsProofs`).

Next to some definitions stand one-line variants of the same idea that are used by
nothing (`OwnsAnyRunning`, `AdvanceBlindly`, ...): each is a bug the definition could
have had, `PROJECT.json` names it under "mutants", and putting it in the place of the
definition makes TLC refute the property it is listed with. They are how we know that
each property can fail.

### JobQueue

One function per column of the row: `status`, `scheduledFor`, `createdAt`, `attempts`,
`leaseUntil`, `leaseWorker`. Per invocation of `tick()`: `pc`, its `now` (read once,
before everything else), the rest of the batch `todo`, the job it runs `current`, what
`fail()` read `failing`. `holder`, `handled`, `expired`, `heldUntil` are history.

| Action | Code |
|---|---|
| `Enqueue`, `Cancel`, `RenewLease` | `enqueue`, `cancel`, `renewLease` of `SupabaseJobStore` |
| `StartTick`, `ReclaimExpired`, `ClaimDue` | the first half of `tick()`: `reclaimExpired`, `claim_jobs` (one atomic statement, skipping locked rows) |
| `TakeNext`, `HandlerReturns`, `HandlerThrows` | the sequential loop; a handler is opaque here |
| `Complete`, `CompleteThrows` | `complete()`; the second one is an error before or after the UPDATE took effect, which the catch clause turns into a `fail()` |
| `FailRead`, `FailWrite` | the SELECT and the UPDATE of `fail()` |
| `EndTick`, `Crash` | the end of a tick, or of its process, or a call that nothing catches |

`RegionOf` says in which region an invocation runs. The worker id of the deployment is
`worker-${VERCEL_REGION ?? 'local'}`, so all the ticks of a region share one (`WorkerId`);
an invocation is `Sole` if it is the only one of its region. The order in
which `tick()` treats a batch is left open. `stats`, `dequeue('inline')` and `save`
(which nothing calls) are left out; the in-memory store honours the same interface and
is not modelled apart.

### DurableRun

`run` is the row of the run (status, frontier, arrivals); `steps[n]` the set of statuses
checkpointed for a node; `timer`, `claims`, `approval` the rows of the two waits;
`taken` is history: the edges that completed nodes have selected; `effects` and `approved`
are history too. `elapsed[n]` stands for time: the `resumeAt` checkpointed for the delay has passed.
An executor is a tick with one job at a time: `pc`, and in memory the run (`mem`),
the completed nodes (`done`), the node at hand and its outcome. Every `await` on
the repository is an action of its own. Approvers and the operator have their
reads and writes split in the same way.

| Action | Code |
|---|---|
| `ClaimJob`, `Return`, `Settle`, `FailJob`, `Throw`, `Crash` | `worker.ts` around a handler, on `JobDelivery` |
| `LoadRun`, `VerifyApproval` | `runEnqueued`, `resumeEnqueued`: load, drop what is stale |
| `SaveStart`, `ListSteps`, `NextNode`, `Drained` | `start`, `resume`, the loop of `advance` |
| `ExecuteControl`, `ExecuteAction`, `ExecuteDelay`, `ExecuteApproval`, `ExecuteEnd` | the executors of the node types |
| `Checkpoint`, `CreateApproval`, `CreateTimer`, `Suspend`, `SaveRun`, `Finish` | the writes that follow, in the order of the code |
| `TimerPass`, `ApprovalPass` | `claim_due_timers`, `claim_pending_approvals`: claim and enqueue in one statement |
| `ReadApproval`, `SaveDecision`, `LoadForResume`, `ClaimResume`, `LoseRequest` | `decideApproval` |
| `ReadForCancel`, `SaveCancelled` | `cancelRun` |

Abstractions: what a condition or branch evaluates to is left open (any label the graph
has); which graphs there are is `ValidGraph`, the rules of `validateGraph` at publish; the
nodes that only compute or emit are `step`s, because a failed emit is
swallowed and variables are read by nothing but expressions; an action fails or times
out with its effect or without, which is all that `withPolicies` lets its caller see;
`enqueue` is a fold of `Arrive`, one target, over the edges in
their order; a call that throws has not taken effect (the queue model has both cases, and a
crash right after the call covers the other one here). Left out: a version that is
missing or does not match, `resumeRun`, the
cancellation token (the durable path never passes one).

### WorkflowDefinition and Triggers

`workflow[w]` is status and current version, `versions[w]` the rows of its versions,
`editing[e]` one request with the row it is going to write. `Update`, `Transition` and
`Publish`; `ListVersions`, `CreateVersion`, `SaveWorkflow` are the calls of the
service in their order; a request may abort between any two. The name, the graph and
its validation are abstracted: `TriggerSets` says what a version may listen to.

`createdAt[s]` is the stamp of a stored signal, `cursor`, `claims` and `fired` are the
three tables, `pass[i]` is where a tick is and what it remembers. `StoreSignal` chooses
any stamp up to now, because the emitter stamps and stores in two steps. The scan order
is `(created_at, id)`, and ids are numbers to have an order. A claim is one transaction with its run
and job; `AdvanceCursor` keeps the later of two positions as the SQL does. `owed` is
history: which workflows were active and listened when a signal was stored, and whether
that workflow is sure to get its run (the signal is stored behind everything else, with no
first sight under way, and no scan under way listed the workflows before this one was
activated or published anew).
Left out: all workspaces but one (a pass treats them one by one, on separate
rows), the signal type, several schedules of one version, `app_reset_trigger_cursor`
(a tool of operators).

### AiExecution and AgentService

`ai[r]` holds the local variables of `run()`: phase, status, events, attempt, the delays
announced, which of timer and token fired, and whether the call under way was born
aborted. Awaits end actions: `Begin`, `CallModel`, `Answer`, `CallFails`, `Log`, `LogThrows`,
`Report`; `TimerFires` and `Cancel` come in between. What the provider answers, and with
which error it fails, is open; its mapping to codes, the retryable ones, the delays and
the classification are the code's. An abort during the backoff does not
shorten it: the next call is made with a dead signal, which is why `bornAborted` exists.

A request of `AgentService` is a record of where it stands and what it read: `Create`,
`Update`, `Transition`, `Execute` are the checks up to the first write or the guard; `Save`,
`Guard`, `CreateExecution`, `StartRun`, `UpdateExecution`, `Record`, `Announce` the calls
that follow; `CallThrows` and `Crash` may take the place of any. Editable fields are one
value, named for the request that wrote them last. Left out: listing (no state changes),
the text of prompts and results, streaming.

### OperationsConsole

One row, its trail, and per tab the page with the row it was rendered from. `OpenList`,
`OpenDetail`, `OpenNew`, `OpenEdit` render, `Move` and `SubmitForm` send what the shown row
allowed, `OpsCreate`, `OpsUpdate`, `OpsTransition` read again and decide, `OpsSave`,
`OpsRecord`, `OpsReport` are the calls that follow, `OpsThrow` an error in any of them.
Title, description and priority are one text; the signal is best-effort and dropped.

### SignalViews and SignalStore

`SignalViews` has the catalogue, `CreateSignal` (source, category and severity are the emitter's
where it gives its own, the catalogue's elsewhere), the fold of lifecycle events
(`ProjectLifecycle`, a recursive function on sets of places of the log that applies the
latest event last; `Precedes` is the order of the code's stable sort), filters in memory and in
Postgres (`MemoryList`, `PostgresList`), timelines, chains, metrics, health and the two pages.
`Merged` is the spread of one query over another, `SortedBy` a list of all members of a
set by a key, with ties in any order.
`SignalStore` has the tables `rows` and `log`, a delivery per emission with its two inserts
(`AppendSignal`, `AppendEmitted`, `DeliveryFails`), the counters of each bus, and desks where
an operator opens a signal, asks for one of the verbs the page offered, and the request reads,
decides, appends and reads again. A failed read of the events counts as no
events, as in `project()`. Left out: tags and text search (one more facet each),
durations and costs, `reopen` (no caller, but its event is folded), and two limits on size:
the in-memory store forgets all but its latest 5000 signals (`store.ts:49`), and PostgREST cuts
a select off at the row limit of its configuration. Beyond either, list and memory differ.

### InlineStarts, WorkspaceAccess, CommandPalette

`InlineStarts`: the row of one workflow, what each process has registered, and starts that
claim an occurrence (`ClaimTrigger`), look up who has it (`LookUpRun`), create the run
(`CreateRun`), throw, or die with their process; `PassClaims` is the durable pass of
`Triggers` on the same table. Edits are atomic here, their races being
`WorkflowDefinition`'s; the registration that follows one is a step of its own. What
becomes of a run is `DurableRun`'s.

`WorkspaceAccess`: a visit goes through middleware, second look at the session, the
statements of `app_provision_personal_workspace` (one transaction: what it writes is seen
when it commits, an insert waits on a key another transaction has written), the listing of
memberships and `resolveWorkspace`. Display names and the kind of sign-in are left out.

`CommandPalette`: `signedIn` is what the cookies say, and another tab or an expiry may change it
at any time (`SessionBecomes`); `shell` is what the tab was rendered for,
`selected` the store that outlives both; `feeds` is the query cache by key, `loading` and
`telemetry` are requests under way, answered in any order or never. Ranking and text
of commands are left out, as is the second and third feed, which are alike.

## 3. The runs

Sizes are distinct states.

| Run | Instance | What it shows |
|---|---|---|
| `queue` | 1 job, 3 ticks, two of them in one region, clock to 2, fair (730 thousand) | types, leases exactly on running rows, holders and attempts accounted for by expired leases, a tick that lost its lease to another region does no harm, settled is final, the queue implements `JobDelivery` (done only after a handler ran, settled for good), every queued job settles |
| `queue_shared_id` | 1 job, 2 ticks of one region, clock to 4 | **violated**: a tick that lost its lease settles the job under its new holder |
| `run_whole` | every node kind, 2 approvers, 2 executors, no faults, fair (22 thousand) | types, completed left nothing out, every run settles over all its suspensions, unless its only wakeup came before it was saved as waiting |
| `run_overlap` | an approval; 3 executors, an operator, a crash, throw or lapsed lease anywhere, symmetric (570 thousand) | one advancer and one more per fault; until the first fault an ended run is left by all and taken up by nobody, cancels at any time included |
| `run_faults` | a fork with approval, delay and join, two delays in a row, one crash, throw or lapsed lease anywhere (1 million) | order, gates and effects hold although two executors may advance one run |
| `run_recovery` | approval, delay, action; 1 executor, two crashes or throws, an operator (190 thousand) | a suspended run is woken by its decision and its timer, and a cancel at rest is final |
| `run_lost_decision` | an approval; 2 executors, no faults | **violated**: a decision between the insert of the approval and the save of the suspension never resumes the run |
| `run_skipped` | the same, 1 executor, one crash | **violated**: a crash between checkpoint and save completes a run without what follows |
| `triggers` | 1 workflow, 2 requests, 2 ticks, 2 signals (one emitted by a workflow), batches of one, symmetric (1.3 million) | no owed signal is passed over, the cursor moves forward, an active workflow is runnable, archived at rest is final |
| `triggers_live` | 1 workflow that listens or is scheduled, 1 request, 1 tick, 2 signals, interval 2, clock to 3, one fault, fair (350 thousand) | owed signals get their runs, due occurrences are claimed, on time |
| `triggers_lost` | 3 signals, 2 ticks | **violated**: a signal stored late, or a tick at first sight, loses work |
| `services` | one instance per request-serving component, below (405 thousand) | 13 properties: outcomes and retries of the AI runtime, agents and their logs, the trail of operations, the lifecycle, the views and the losses of signals, starts, first logins, the palette |

`services` is a sum, not a product: `part` is chosen at first and names the component that
moves for ever, while the others stay at an initial state with nothing under way. The
components share no variables, so that their interleavings would multiply the states
without a behaviour any property could tell apart. Its instances:

* runtime: a request with a token, a policy of two tries, a provider that may be missing;
* agents: an agent, two requests, an admin and a member who owns it, one fault;
* operations: two tabs of an admin and a member, four requests, one call that throws;
* signals: a failure and its retry in one chain, one of them stored at first, two desks with a
  request each, one instance, two instants, one loss;
* starts: one process, one editor, two versions, one signal, one key, two starts, one death;
* access: two visits by any of two users, a team, one abort;
* palette: two operators in one tab, a shared workspace, one fetch at a time, one pick.

### The bounds, and why they are enough

* One job (queue): `todo` then never has a second one, whose lease runs out while the first is
  handled; the handler of a job outlasts its own lease instead. The theorems are for
  any number of jobs, and two jobs with two ticks of one region were checked apart, once: types,
  leases, attempts, settled (2.9 million states), without a violation. So were the exclusion and the
  lost lease with three ticks and a clock to 3 (2.8 million).
* `MaxClock` (queue): the horizon. One lease and one backoff of length 1 fit in it
  with the expiry, the reclaim and the second claim. `Due` keeps schedules within the
  horizon, and `Crash` is possible only where its lease can still expire, so that the
  horizon does not fake a stuck job.
* Two or three ticks and executors, two approvers and requests: every hazard listed is between two
  actors; the theorems cover more.
* `MaxFaults`, `MaxAttempts`, `MaxClaims` (runs): enough for a fault in the recovery
  from a fault; `run_recovery` has more attempts than faults, so that no job is given
  up, which the code does not recover from (section 6). `MaxClaims` bounds how often the
  upsert of a re-suspension may arm a timer again, and is as large as faults
  make necessary.
* One job in a batch of `DurableRun`: all jobs of one run share the run, and jobs of a
  batch are handled one after the other, like those of two ticks in a row. The first
  claim can also find a job whose lease ran out, the fault `lapse`.
* Graphs: `WholeNode` has every kind of node, both joins, and a branch whose
  join of all may never get its arrivals; `TwiceNode` has two frontier
  nodes while suspended and a second delay for a stale timer job to meet; `ChainNode`
  has both waits one after the other; `GateNode` is the least graph for the violations.
* `MaxNow`, `MaxVersions`, signals (triggers): two stamps make in-order, equal and
  out-of-order storage possible; batches of one make any backlog longer than a batch.
  Two requests race for version 1; with one version the second insert
  violates the constraint. In `triggers_live` an interval of 2 on a clock to 3 has
  publishes with a boundary and publishes without.
* `triggers` has no faults: a tick that dies is one that never steps again, which is
  among its behaviours already; `triggers_live` has a fault, and the theorems
  any number.
* `services`: what one process, two visits and one fetch could hide was checked apart from it,
  once, with the same properties and without a violation: two processes (785 thousand
  states), three visits (1.7 million), fetches without a bound (870 thousand). Two requests, tabs
  and desks are what the hazards of these components need, and all
  properties but `ExecutionSettles` are proved for any number.
* `SYMMETRY` is used in runs of safety only, on ids that nothing orders.

`CHECK_DEADLOCK FALSE` in the runs of `DurableRun`: a run that has ended, with its
jobs settled and its people gone, is the end of the model too.

### Fairness

Vercel's cron starts a tick every minute (`* * * * *` in `vercel.json`), and a
tick is a loop over calls that return or throw. So: weak fairness of the clock and of
every `Step` of a tick (`JobQueue`); of `Advance`, `ClaimJob`, both passes,
`Elapse` and of the decision of a pending approval (`DurableRun`; `RunSettles` is about
runs whose approvers do decide); of `Tick` (`Triggers`). Nothing is assumed about
crashes, throws, cancels, renewals, edits, new signals, or what a request does
after its decision is saved (`LoadForResume`, `ClaimResume`): the approval pass alone
has to be enough, which is what the documentation claims. In `AgentService` the
steps of a request that is served are fair (`Served`), and so is the clock that fires the
runtime's timer (`ClockRuns`); the provider need never answer, except that a call whose
signal is aborted is rejected, as `fetch` does.

## 4. The proofs

All theorems hold for every value of the constants that satisfies the assumptions of
its module. Those are `ConstantsAssumption` (a lease and a batch are positive, SQL null
is no value), `GraphAssumption` (the graphs that `validateGraph` lets be published, with
their edges in a finite sequence), `BoundsAssumption`, `RowsAssumption` and
`OperationsAssumption` (bounds are numbers, the rows to start from are rows),
`SignalStoreAssumption` (finitely many emissions, each with the correlation that
`createSignal` makes up where there is none, queries that do not filter by parent, as none in the
program does, roles that exist, bounds are numbers),
`InlineAssumption`, `AccessAssumption` and `PaletteAssumption` (finite bounds, ids that
differ, members of existing teams), `ServicesAssumption` (the one request whose run `services` looks
at apart is a request),
`DefinitionAssumption` and `TriggersAssumption` (finitely many signals, positive
interval and batch, `None` is no number).

No theorem has another hypothesis: worker ids are shared as the deployment shares them, any
fault may happen anywhere, and an operator may cancel at any time. Where the code loses
something at a fault, the property says so itself: `FinishedUntilFault` and `EndedStaysEnded` speak of
what precedes the first fault *that has happened*, in a system where faults may, and
`AdvancersAccounted`, `EffectsAccounted`, `LeaseExclusion` and `RetryBudget` count what each may cost.

| Theorem | Claim |
|---|---|
| **`JobQueueProofs`** | |
| `TypeCorrect` | `TypeOK` |
| `LeaseColumns` | a row is leased exactly while it runs; any ids |
| `SettledForGood` | settled is final; any ids |
| `LeasesExclude` | one holder, and one more per expired lease; the lease of a tick with an id of its own is never replaced while it lasts |
| `LostLeaseIsHarmless` | who lost the row to another region leaves it alone, and so does a tick with an id of its own |
| `RetriesAreAccounted` | attempts within the budget plus expiries, given up only when spent; any ids |
| `ImplementsDelivery` | the queue implements `JobDelivery`; any ids |
| **`DurableRunProofs`** | for any graph, executors, approvers, timers, cancels and faults: |
| `TypesHold` | `TypeOK` |
| `DrivenByDelivery` | every step is a step of `JobDelivery` or leaves the queue alone; no job is done unhandled, or given up with attempts left |
| `OrderHolds` | no node starts before what it waits for has completed |
| `GatesHoldAlways` | nobody passes an approval not given, or a delay not over |
| `EffectsHold` | an action is carried out once, and once more per fault at most |
| `CancelHolds` | a cancel that finds no executor with the run in memory is final |
| **`DurableRunCalm`** | for any graph, executors, approvers, timers, cancels and faults: |
| `AdvancersHold` | one executor advances the run at a time until the first fault, and one more per fault at most |
| `EndedHolds` | until the first fault an ended run is left alone by all but a cancel |
| `FinishedHolds` | until the first fault a completed run has left out nothing its nodes selected |
| **`TriggersProofs`** | |
| `TypeCorrect` | `TypeOK` |
| `NothingIsSkipped` | the cursor passes no owed signal without its run |
| `CursorMovesForward` | overlapping ticks never take it back |
| `ActiveHasVersion` | an active workflow names a version that exists |
| `ArchivedHolds` | archived at rest is final |
| `SchedulesOnTime` | occurrences fire on a boundary and not early |
| **`ServicesProofs`** | |
| `OutcomeHolds` | a run of the AI runtime that is over has the status, last event and retries that fit its error |
| `OneCallHolds` | after timer or token, the provider is called at most once more |
| `AgentOutcomeHolds` | both, when requests on agents start, drop and crash the runs |
| `OneActiveHolds` | one execution running per agent |
| `LoggedHolds` | an execution with an outcome has the outcome of its log |
| `SignalsHold` | a signal announces only what the tables hold |
| `TrailHolds` | while no call throws, the trail accounts for the status of an operation |
| `OccurrencesStartOnce` | an occurrence starts at most one run, the one its claim names |
| `AgentTypesHold`, `OpsTypesHold`, `InlineTypesHold` | types |
| **`SignalProofs`** | for any emissions, instances, desks, losses and stops: |
| `LifecycleHolds` | what is shown of a signal never goes back, and a closed signal was seen before |
| `ViewsHold` | both stores list the same, every stored signal is on one chain, pages show what the list shows, losses show |
| `LossHolds` | its last part: a swallowed delivery shows in the health of its instance until that stops |
| `SignalTypesHold` | types; no event is stamped ahead of the clock |
| **`WorkspaceProofs`** | |
| `MembersOnly` | one personal workspace per user; nobody acts where they are no member |
| `PaletteIsScoped` | the palette lists the selected workspace only, and records where the actor belongs |
| `AccessTypesHold`, `PaletteTypesHold` | types |
| **`PartsProofs`** | of the composition that `services` checks: |
| `PartsKeepTheirSpecs` | it implements the specification of operations, signals, starts, access and palette each |
| `ServicesTypesHold` | types of all components |
| `ServicesHold` | every safety invariant and both action properties of the run `services` |

The arguments, and why the properties need strengthening:

* *Queue*. `BatchInv` says that what a tick holds are real jobs and `RowInv` adds that
  a tick's `now` is in the past and that what is held was enqueued; both are needed for
  the comparisons of the clock to mean anything. Neither exclusion nor the budget is inductive.
  `LeaseKnown` says that a tick with an id of its own and within its lease owns the row, or the row is
  settled. `LatestHolder` and `HolderOwns` connect the column `lease_worker` with the history of claims:
  the id on the row is that of the latest claim, so a tick with the id of nobody else, or replaced from another region, is told
  apart. With shared ids it is not, and counting takes over: `HoldersCounted` adds the ticks that
  hold a job and the one claim that the row still waits for, `AttemptsCounted` the attempts
  and the ticks that are about to grant another; a claim, an expiry, a `fail()` by either holder and a crash keep both
  sums within what expired leases pay for.
* *Refinement*. `DeliveryInv` (a job being completed has been handled, done jobs were
  handled, given-up jobs have spent their attempts) makes every abstract guard true; then each action
  is mapped to one abstract step or a stutter. Reclaim, renewal, the read of `fail()` and
  the clock are stutters.
* *Types of a run*. `TypeInv` is `TypeOK` with the shape of what `TypeOK` leaves open: the
  status an executor is about to write, edges that exist, counters that are numbers.
* *Delivery*. `JobQueue` implements `JobDelivery` (`ImplementsDelivery`), and `DurableRun` moves its
  jobs by nothing else (`DrivenByDelivery`): what is enqueued is a job of the run, which for
  timers needs that no claim goes past the bound, and what is settled is in the hands of whoever
  settles it, which is what `TypeInv` says of an executor that is not idle.
* *Enqueue*. `EnqueueTargets` goes over a finite sequence. That its fold exists and what it
  preserves is proved by induction on the length in the form of sets (`SetInduction`,
  `EnqueueInduction`), since the induction theorems of the library take an operator: what
  holds at first and is kept by every `Arrive` holds in the end.
* *Order*. `RunsInOrder` says that a node starts after all that it lies `Behind`, a
  property of paths, and is not inductive. `Confined` is stated for sets that are
  closed under the edges that can start something: while a node has not completed, all
  that is queued, started or in hand, in the row and in every copy of it, lies in every
  closed set without that node. A step keeps such sets one at a time. What could leave one is
  a join of all that opens too early; `Counted` excludes it: the row counts no more arrivals
  at a join than it has edges from completed nodes, and a copy in memory no more than
  from the nodes that its executor knows to have completed, however stale it is.
  `saveRun` writes arrivals and frontier in one row, after the checkpoint, so a
  redelivery counts none twice.
* *Gates*. `Gated` adds the executor that has read the approval or the time and is about
  to checkpoint the node.
* *Effects*. An action is carried out by virtue of a token: a free job, an armed timer, an
  approval whose job is not enqueued yet, or an executor that does not know the action to
  have completed. `Account` adds tokens and effects: one token is there at first,
  carrying the action out spends it, decisions and passes turn one token into another, and a
  fault adds one at most.
* *Calm runs*. Counted for no action at all, the tokens are the ways the run is under way, so
  until the first fault there is one of them, and an executor that advances the run holds one: so
  there is one of those, and as each fault adds one token at most, one more per fault
  (`AdvancersHoldTokens`; an executor that has inserted the timer or the approval has handed its token over, and only
  saves the run). `Calm` adds what the
  state of the row says of the jobs and executors there can be: every wake-up is of
  the node the run waits at or is about to wait at, the executor with the run in memory knows
  it as it is, and nobody works on a run that is over, from which `EndedStaysEnded` follows.
* *Finished*. `Covered` says that each edge in `taken` leads to a node that completed, or
  stands in the frontier of whoever has the run, or is the node in hand, or is a join of all
  with an edge not taken; for that join the arrivals must be no fewer than the edges
  taken. It holds while each checkpoint is followed by its save: the first crash
  in between breaks it, and `run_skipped` is the counterexample.
* *AI runtime*. `Sound` says for each phase of a run which status, attempts, delays and
  token it has, and at the end that status and last event fit the error; a run is never over
  without having passed through the phases before. `AiLogged` ties a reported run to its log.
* *Agents*. `OneActiveExecution` holds by the unique index, whatever passes the guard;
  the other properties need `RequestInv`, which says for each call a request can break off at
  what its execution, its log and its trail have by then, and `IsTrue` of each signal sent.
* *Operations*. `TrailInv`: the row a call is about to write has the initial status, one
  that is accounted for, or the target of the move that the call will record. It speaks of
  runs without a throw only: an insert into the trail that fails after the save leaves a
  status unexplained.
* *Signals*. `ProjectLifecycle` goes through events in their order, and a late event of an
  early stamp changes what all later ones are applied to. `AmountsTo` says what comes out
  whatever the order: the status is settled by which kinds of events there are, an
  acknowledgement by one of them, no later than the resolution. That the
  recursive function exists and that every entry of its table is so (`FoldExists`,
  `FoldAmounts`) is proved with a minimal set for which it is not (`MinimalMember`), as
  induction over data is out of reach. The log only grows, so the kinds of events do, and
  `LifecycleAdvances` follows. `SignalInv` has the types that this needs: a row is a signal as
  it was emitted, the log holds real events, a request carries one while it is about to
  append. `LossesAreCounted` ties the state of a delivery to the counter in memory.
* *Palette*. Every feed and every answer under way is of the workspace its key names, and
  every recording under way names an item of the workspace it is for; whoever signs in or
  out, and whatever is selected, changes neither.
* *Views*. `RowsAreOne`: a stored row is the row of one emission, and has a correlation. Then
  `StoresAgree` is a law of the operators: a filter on columns selects the same rows before the
  lifecycle is folded in as after, since folding changes none of them
  (`ProjectKeeps`), and a facet that Postgres leaves to the code is applied after in both stores. The
  rest speaks of sorted lists. `SortedBy` is a `CHOOSE`, so it has to be shown that there
  is such a list of every finite set (`SortedExists`): a least set without one loses its largest
  key, has a list then, and the key goes to the end. `ViewsCoverAll` counts the chains a
  signal is on: it is on that of its correlation (`OnChain`), two chains of a
  page have different correlations, and a page lists each chain once.
* *Parts*. A step of `MCServices` is one of the part at work and leaves the variables of the
  others as they are, so each part keeps its own `Spec` and its theorems hold. The runtime
  is the exception, as its variables belong to the agents too: `RuntimeInv` says that while
  it runs alone no request is served and no execution has a row, and signals tell
  only of what the log has; `PartsInv` is this, or the invariant of the agents.

Only model-checked: liveness (`EveryJobSettles`, `RunSettles`, `DecisionResumes`,
`TimerResumes`, `SignalsFire`, `SchedulesFire`, `ExecutionSettles`), which needs fairness and
is beyond the prover. Every invariant and every action property of the passing runs is proved.

## 5. What the runs found

Four runs end in a counterexample to something the documentation says.

1. **A lost lease can finalize** (`queue_shared_id`). `complete()` and `fail()` compare
   `lease_worker` only, and all ticks of a region have the same one. A tick whose lease
   ran out settles the job while another tick of the region is running it.
   `docs/durable-triggers.md` says "Lost lease can't finalize".
2. **A decision may be lost** (`run_lost_decision`). The approval can be decided as soon
   as its row exists, which is before the run is saved as waiting. A decision in between
   claims the only resume job; its handler finds the run still running and drops it.
   `docs/durable-triggers.md` says "the persisted decision alone guarantees eventual
   resumption".
3. **A completed run may lack steps** (`run_skipped`). The checkpoint of a node and the
   frontier with its successors are two writes. After a crash in between, the
   re-run skips the node as completed and queues nothing for it. `docs/worker.md`
   says "at-least-once re-execution is safe" for that reason.
4. **A signal may be lost** (`triggers_lost`). Stamps are made before rows are stored, so
   a signal can be stored behind the cursor; and a tick that found no cursor jumps to
   the frontier it saw even when others have begun to match. A scan that is under way
   goes by the workflows it listed first, and moves the cursor over what one activated since should
   have had (`durable-trigger-evaluator.ts:114`; its comment at line 99 says that such a workflow "fires on
   FUTURE signals"). The migration says that
   concurrent scans "never lose work". `NothingSkipped` is the part of the
   claim that does hold, and is proved.

## 6. Behaviours to know of

Met while modelling, seen in the model's behaviours, without a run of their own (TLC has
traces of the first, the second and the fourth on graphs of three nodes):

* a worker that saves its run after `cancelRun` overwrites the cancel, and the run goes on
  (`CancelAtRestIsFinal` is about cancels that meet no worker);
* a worker that dies between `createApproval` and the save of the suspension leaves a run whose
  redelivered job inserts the approval again, fails on the unique key until its attempts are
  spent, and leaves it `running` (`runtime.ts:142`, `:146`);
* a worker that dies in the middle of a resume leaves the run `running`, and the
  redelivered resume job takes itself for stale (`workflow-service.ts:421`);
* a timer claimed between its insert and the save of the suspension loses its job like
  the decision of finding 2, and the run waits for ever; the upsert arms it again only if the
  node runs again. `RunSettles` allows for a wakeup lost in this way and for no other;
* after a crash or an expired lease two executors may advance one run;
* expiry adds attempts without a look at `max_attempts`: a job that kills its worker is
  retried for ever;
* a resume job that is given up after its attempts strands its run;
* a start in a request that dies between claim and `createRun` leaves an occurrence that
  nothing will start, the durable pass included (`workflow-service.ts:561`, `:594`); one that
  dies after it leaves a run without a job;
* the in-process engine goes on in the durable mode: both claim the same keys, so a signal
  still starts one run per version, but an engine that has not heard of a publish starts the
  version it knows, and the pass the new one (`trigger-engine.ts:30` takes registration
  for driven by the lifecycle; an edit reaches the engine of its own process only);
* agents and operations are written back whole: an archive between the read and the write of
  another request is undone, without an entry in the trail;
* a request that dies while the model runs leaves its execution `running`, and the guard
  refuses every later run of that agent;
* the log of an AI run is awaited outside any `try`: an answer is lost when its insert fails;
* signals of authentication name workspaces `personal-<id>` and `system`, which are no uuids:
  in Postgres their inserts fail, and the bus swallows it; `PostgresList` ignores a filter
  by parent;
* the effect that should repair a selection the operator cannot access sets it to itself
  (`workspace-provider.tsx:36`, `:41`), and the query cache outlives a sign-out: after another
  user signed in in the same tab, what was fetched for the former one is still listed until it is
  fetched again, when the route answers that nothing is found, or is collected. What the
  palette lists is of the selected workspace throughout, which is all that `PaletteKeepsScope` says;
  the pages of the console show the personal workspace whatever is selected;
* a publish between a tick that died and the next scan starts a workflow twice for one
  signal, since claims are keyed by version; reactivating the only workflow that
  listens fires on the backlog; and a publish resets the anchor of a schedule.

## 7. Not modelled, and the plan

`PROJECT.json` has the status of every component with what is left out of it. Not modelled
at all: conditions and variables (pure; `DurableRun` takes any outcome of them), scripts
and tests, which are not part of the running system. Left out of what is modelled:

* the pages of agents, workflows and settings, and everything that is layout or wording;
* row-level security: the services use the service role, which it does not bind;
* sessions, providers and the database itself, modelled by what the code sees of them;
* `resumeRun`, versions that are missing or do not match, the effects of an action that
  timed out and is retried while it goes on;
* the in-memory stores of the development mode, but for the one of signals, which is the
  reference for the one in Postgres;
* `stats` and `dequeue` of the queue, tools and streaming of the AI runtime, the schedules of the
  in-process engine: nothing in the program calls them.

Next, in this order:

1. conditions and variables as operators, against what the graph editor promises;
2. the composition of `InlineStarts` with `DurableRun`: a run without a job beside one with;
3. theorems about that composition, and that the passes of `Triggers` feed the same abstract queue.

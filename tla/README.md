# CloudMark verification project

CloudMark is a benchmark controller for cloud machines. A **Controller** (`cloudmark/server.py`: an HTTP
server with a thread per request and a worker thread per Run, state in SQLite through
`cloudmark/database.py`) admits benchmark **Runs**, executes them on its own host or hands them as **Agent
tasks** to **Agents** (`cloudmark/agent.py`: one process per machine that polls the Controller), follows
their progress, and stores results. This directory holds TLA+ models of that machinery, TLC configurations
that check them on small instances, and TLAPS proofs of what matters most for every instance.

Paths below are relative to the repository root; `server.py` means `cloudmark/server.py`, and so on.

## 1. Inventory

| Component | State | Operations | What is hard about it | What makes it correct |
|---|---|---|---|---|
| **Agent task store** (`database.py:623-839`) | rows of `agent_tasks`: status, agent, run, result, secret, creation time | create, claim, finish, progress, abort, cancellation sweep, recovery, busy test | each call is one transaction, but callers combine several; a claim, an abort and a completion race | closed rows are final, claims are first in first out, secrets do not outlive their task |
| **Run control** (`server.py:479-930`, `database.py:185-338`, `runner.py`) | rows of `runs`, worker threads, `_active_runs` tokens, `_submission_lock` | submit, execute, finish, cancel, progress handler, recovery | threads read in one transaction and write in another; a restart loses threads and tokens but not Agents | every open Run has a worker and ends; a target has one Run at a time; terminal means released |
| **Remote execution** (`remote.py`, `agent.py:4098-4367`) | one task, the Agent's current task and pending completions | create, poll, abort; claim, execute, report, post, retry | lost claims and answers, heartbeat gaps, late completions | load stops after its Run, results are acknowledged, evidence is kept |
| **Paired executors** (`database_benchmark.py`, `redis_benchmark.py`, `mysql_benchmark.py`, `web_benchmark.py`, `distributed.py`) | the executor's step, what it has scheduled, the partial result | report, create task, wait, complete step, cleanup | any step fails, times out or is cancelled; cleanup itself is lost or swept | cleanup is scheduled once and in order; a completed Run left nothing behind |
| **Paired services on an Agent** (`agent.py:2057-4090`, `4275-4301`) | `active_*_servers`, service directories | start, probe, client, stop, watchdog | services outlive Runs, Controllers and, when killed, Agents | one service at a time, ready means one's own server, services disappear, verified means gone |
| **Pairing, sessions, heartbeats** (`server.py:933-1015`, `topology.py`) | sessions, agents, the system each Agent sent, last contact | create, join, authenticate, heartbeat | concurrent joins, expiry, a registry older than the machines | the pair and the topology a Run is attributed to are the ones it measured; another pair ends a campaign's windows |
| **Network suite** (`network.py`, `agent.py`) | as paired executors, plus iperf3 servers | start server, client, collect, probe, analysis | its own wait does not know `cancelled`; two Runs in one session; servers that are never collected hold their ports | client and server evidence of a measurement are of one connection; ports become free |
| **Campaigns** (`campaigns.py`, `storage_campaigns.py`, `server.py:236-477`) | campaign contracts; projections of Runs | create, start window, project | the projection is recomputed from changing Runs, sessions, machines and releases | one window per UTC day; only matching Runs count; what counted stays; one active campaign per subject |
| **HTTP API, authentication** (`server.py:1081-1344`) | tokens | route, authorise | - | each request is one controller call |
| **Local executors** (`compute.py`, `benchmarks.py`, `filesystem_benchmark.py`, `security_posture.py`) | child process, workspace | run jobs, clean up | cancellation inside a job, residual workspace | partial evidence per finished job |
| **Collectors, provider detection** (`inventory.py`, `*_environment.py`, `provider.py`) | none | observe | - | read-only |
| **Suitability** (`suitability.py`) | none, computed from Runs and the registry | evaluate | stale evidence, replacement in any order, paired Runs met twice | a comparable cohort has enough distinct Runs, targets and days; verdicts follow the strongest evidence |
| **Cost observations** (`cost.py`) | rows | validate, insert | - | rows are independent |
| **Tooling, bootstrap, native helper, web fixture, backup scripts, dashboard** | - | - | restore interrupted half-way | - |

Interactions: the dashboard and the CLI call the HTTP API; a submit starts a worker thread under
`_submission_lock`; the worker talks to Agents only through rows of `agent_tasks`, which Agents reach by
polling `tasks/next`, `tasks/<id>/progress` and `tasks/<id>/result`; a progress request also writes the Run's
row; `cancel_run` writes the Run's row, sweeps its queued tasks and sets the worker's token; a restart runs
`recover_incomplete_runs` and nothing else. `PROJECT.json` lists the hazards this leads to, each at its line,
with the properties that cover it.

## 2. Modules

| Module | Models |
|---|---|
| `AgentTasks` | The operators of the task table, one per method of `Database` on `agent_tasks`. Instantiated by the specifications below, so they share one translation of that code. |
| `TaskStore`, `MCTaskStore`, `TaskStoreProofs` | The table alone, under any order of calls. |
| `RunLedger` | The abstract promise: a Run moves once through queued, running and a terminal status, holds its target exclusively, lets go before it settles, and completes only on delivered work. |
| `RunControl`, `MCRunControl`, `RunControlProofs` | Single-target Runs: admission, worker, cancellation, progress handlers, restart, remote Agents. Implements `RunLedger`. |
| `PairedService`, `MCPairedService`, `PairedServiceProofs` | Paired Runs of the database and web suites: the four executors and the Agents' services, as the Controller sees them. |
| `EphemeralService` | The abstract promise of an Agent's services: one at a time, started once, gone for good. |
| `ServiceLifecycle`, `MCServiceLifecycle`, `ServiceLifecycleProofs` | The host of one Agent: the stages of the four service starts, stop, watchdog, interrupt, kill, replacement workers, the recovery drill. Implements `EphemeralService`. |
| `NetworkSuite`, `MCNetworkSuite`, `NetworkSuiteProofs` | Runs of the network suite and the iperf3 servers of two Agents. |
| `PairingTopology`, `NetworkCampaign`, `StorageCampaign`, `Suitability` | The pure rules of `topology.py`, `campaigns.py`, `storage_campaigns.py` and `suitability.py`, as operators over stored Runs. |
| `Campaigns`, `MCCampaigns`, `CampaignsProofs` | Their composition over days: Runs, campaigns, joins, changed machines, restarts and upgrades; the report is evaluated in every state. |

### RunControl and the code

`runs`, `tasks` are the tables. `worker[r].pc` is the place of the thread of `_execute_run`: `created` (row
inserted, token not yet registered), `ready`, `dispatching`, then `local` for the Controller's host or
`creating`/`polling`/`unwinding`/`aborting` inside `run_remote_benchmark`, and `sweeping`/`settling`/`leaving`
for the two transactions of `finish_run` and the `finally`. `canceller[r]` is the place of an HTTP thread in
`cancel_run` (checked, flagged, swept; the token is set last). `handler[h]` is an HTTP thread in
`progress_agent_task`, which writes the task row, then reads the Run, then writes the Run, each a separate
transaction. `agents[a]` is an Agent process: idle, executing, or holding a completion it has to post.
`Claim` may lose its answer, `GiveUp` loses a progress answer, `PostResultUnanswered` a completion's; `AgentCrash` and
`ControllerRestart` may come at any time. One action stands for one transaction or for what a thread does
between two of them.

Evidence is a number: 0 is NULL, `k` the partial result of `k` finished jobs, `MaxJobs + 1` the final result.
The phase, progress and current-job columns follow the evidence and are left out. A timer may expire whenever
it is armed.

### PairedService and the code

`Plan` is the sequence of tasks an executor creates (start, MySQL prepare, checkpoint probes, clients, the
recovery drill, MySQL table cleanup, stop); `worker[r].step` is the position in it. `reporting` and
`completing` are `context.report` and `context.complete_step`, `waiting` is `wait_task` with the context,
`unwinding` and `closing` are the `except` clause, whose tests `cleanup_scheduled` and `prepared` are `Due`.
`outcome` is what `_execute_run` will make of it; `unexpected` is its last `except`. `services` are the Runs whose service
is in one of the Target's `active_*_servers`. A client is modelled by the service it reached; the Redis and MySQL
passwords tie it to its own.

Simplifications: the transactions of a progress request are one step here (their interleavings are
`RunControl`'s); a start succeeds, fails, or the process dies (its stages are `ServiceLifecycle`'s); the removal
of the token from `_active_runs` is part of `Settle`.

### ServiceLifecycle and the code

`Stages(t)` lists what a start does after its checks have made the directory: children that
`_guarded_service_process` waits for, processes that are spawned, readiness probes, commands, and `register`, the
assignment to `active_*_servers`. `job` is the place in it. `procs` and `dirs` belong to the host and survive a
killed worker; `active` is the worker's memory. `FailBeforeTry` is every exit after the directory is made and before
the `try` is entered: the lookup of the tools, and for Redis also the launch of the server and the lookup of its client
(`agent.py:2862-2863`). Nothing is terminated on this exit, so a Redis server that has been launched lives on;
`abandoned`, a history variable, remembers whose. `Unwind` is the `except BaseException` of the four starts; `Expires` is
`_cleanup_expired`, whose `OSError` ends the worker; `Interrupt` is the `finally` of `run_forever`; `Kill` skips all of it.
`NoStrayProcess` allows an abandoned process to Redis alone, and `ServiceRemoved` expects no end of it: neither a stop
task nor the watchdog knows it. `OperatorClears` is the manual procedure of `docs/OPERATIONS_RUNBOOK.md`, and the only action that stands for no code.
A probe succeeds when somebody answers: PostgreSQL's and the web probe accept any listener on the port, Redis's
password and MySQL's socket only their own server. `faults` counts removals that fail.

The refinement mapping `Seen` reads `EphemeralService`'s state off `active`, `job` and the answer to the start: absent,
starting, serving, gone. `StopActive` with a failed removal keeps the service in `active`, as the code does, and stutters.

### NetworkSuite and the code

`Steps` is the sequence of tasks `run_network` creates for a profile: probes, then server start, client and
collection of each measurement, on ports that rotate with its index. `servers[t]` is the iperf3 process that task
`t` started; `tracked` is `active_servers`. `Connect` lets a client reach whatever listens on the port of its peer, so a
server an earlier or a concurrent Run left may answer it. `StartServer` counts a server as ready whether or not it could
bind, since the code looks at it once after 0.15 seconds. The evidence a task returns is `Own` or `Foreign`, by whether
client and server belong to one measurement. Nothing is cleaned up by a Run; `ServerExpires` is the Agent's
deadline. Admission does not look for another network Run, as in the code.

The code stores the raw output of client and server side by side and never compares them (`network.py:636-672`), so
`EvidencePaired` asks what can be said of the two all the same: they agree on whether they met each other, and with two
Runs they always did. With three they need not: the first Run's server listens, the second's server cannot bind but is
alive after 0.15 seconds, its client is served by the first Run's server, and the first Run's client by the server of the
third; the first Run then collects a server and a client that both met strangers, and nothing fails.

### Campaigns and the code

A Run is one record with its declared day, the days it started and finished, the profile version, the system of the
machine that measured, the pair and the topology. A campaign is its contract and nothing else, as in the database;
`NetworkStatus`, `StorageStatus`, the open windows and the report are recomputed in every state from the stored Runs and the
`installed` versions, as `project_network_campaign`, `project_storage_campaign` and `evaluate_suitability` do. Creation
and dispatch hold `_submission_lock`, hence one action each; `join_session` does not, and is two. `members` is the
session as `get_session` returns it, ordered by `joined_at`; that time is read from the clock before the lock is taken and
the clock may be set back, so `AddAgent` inserts before any Agent of the same role or at the end: who joins last may be
the first of its role, whom the next network Run measures. `registered` is
what an Agent sent when it joined: `once` never sends `system` again (`agent.py:4310`), so the registry does not notice a
machine that is resized, which is why `host` and `registered` are two variables. `sound` stands for a complete
measurement (storage) and for `comparison_eligible` (network). One metric stands for all metrics of a suite, which
every profile of the suite feeds, and scenario thresholds are left out: a check is unavailable, stale or observed.

The report is evaluated by the loops of the code, as recursive functions. `Evidence` meets the stored Runs in a sequence
and keeps, by `_put`, the fresher item, then the one whose profile has the higher rank (`disk-quick` 1, `disk-standard` 2),
then the later one; `MetricCohort` goes over the peers of a cohort and, within, over the Runs of each, and adds a sample
unless the Run was met before. The sequences are those of `list_runs` and of the registry, which depend on clocks and
identifiers; the properties quantify over every order.

## 3. Runs

| Run | Configuration | Shows |
|---|---|---|
| `task_store` | 3 tasks, 2 Runs, 2 Agents | `TasksTypeOK`, `SecretOnlyWhileActive`, `NoOvertaking`, `ClosedTaskIsFinal` |
| `run_exclusion` | 2 Runs, 1 Agent and the host, 1 handler, 1 restart | `TypeOK`; `TargetExclusive`; `ImplementsLedger` |
| `run_lifecycle` | 1 Run, cancellable, 1 handler, 1 restart | `TerminalRunReleasesTarget`; `OpenRunHasWorker`; `ControlInv`, the inductive invariant; `EveryRunEnds`, `LoadStopsAfterRun`, `ResultIsAcknowledged` |
| `paired_exclusion` | 2 PostgreSQL Runs in succession, 1 restart | `MeasuredOwnService`, `StoppedStaysStopped` |
| `paired_lifecycle` | 1 MySQL Run (all cleanup there is), cancellable, 1 restart | `TypeOK`, `CompletedRunLeftNothing`, `CleanupScheduled`; `EveryRunEnds`, `ServiceEventuallyGone` |
| `network_evidence` | 2 network Runs, 1 TCP measurement each, 2 ports, 1 restart | `TypeOK`, `EvidencePaired`, `CompletedRunLeftNothing` |
| `network_lifecycle` | 1 network Run, latency and TCP in both directions, cancellable, 1 restart | `EveryRunEnds`, `ServerEventuallyGone` |
| `agent_services` | 3 starts of two engines (two of PostgreSQL and one of MySQL, two of Redis and one of web), 1 failed removal, 1 replacement worker | `TypeOK`, `ReadyMeansOwn`, `NoStrayProcess`, `CleanupVerifiedIsTrue`; `ServiceRemoved`, `ImplementsService` |
| `campaign_evidence` | 3 days, 3 Runs of 2 storage profiles and 1 network profile, 2 campaigns, 3 Agents, 2 releases, 3 systems, 2 upsets | `TypeOK`, `OneActiveCampaign`, `NoWindowTwice`, `OpenWindowIsCurrent`, `OnlyLastWindowStrays`, `CampaignFeedsCohort`, `ComparableIsEarned`, `VerdictKeepsUp`; `CountedStays` |

Three further runs are expected to violate what a document says; see section 6.

**Bounds.** Exclusion needs two Runs that compete, and a host beside the Agent so that both kinds of target
occur; a third Run adds no new kind of conflict, since every guard compares two. One handler is enough for a
progress request to be overtaken by the worker, by a restart or by its own Agent, which gives up and goes on;
two that overtake each other differ only in the evidence they write, and the theorems hold for any number of
handlers. One job makes partial evidence differ from none and
from the final result. One restart separates the life before from the life after, and the Agents' state
carries over it. The paired plans have one client task: every further one repeats the same actions. In
`paired_exclusion` no operator cancels: cancellation acts on tasks as a timeout plus a sweep, and the
instance with both cancellable does not finish in reasonable time; `paired_lifecycle` has cancellation with one
Run. 
In `network_evidence` two Runs share two ports, so their first measurements collide, and one direction suffices for a
client to reach a server that is not its own; the code always measures both directions, as `network_lifecycle` does.
What three Runs can do to each other is beyond this instance; the theorem covers any number.
Its Runs cannot be cancelled, for the same reason as in `paired_exclusion`. In `agent_services` two starts of one engine
can find what the other left and the third competes as another engine; one failed removal and one new worker
are enough to meet a residue of a dead predecessor. In `campaign_evidence` two windows complete a campaign and two
samples make a comparison (`Windows`, `MinSamples`, `MinTargets`, `MinDays` are constants; the code has 3, 9, 3 and 3),
evidence older than one day is stale (30 in the code), and an upset is a join, a changed machine or a restart, perhaps as
another release. One join at a time is enough there, because it may come first or last of its role; the theorems hold for
any `MaxJoining`. `PlainMixes` limits the Runs outside campaigns: one network Run, or one `disk-standard` Run and after it perhaps
one `disk-quick` Run, which is enough for a baseline of one rank and an unrelated Run of the other beside the windows;
three days are a day that counts, a day after it and one on which evidence has aged.
Runs, tasks and handlers that are alike are symmetric; runs with liveness use no symmetry.
`CHECK_DEADLOCK FALSE` stands where the system may really stop: all Runs are used up and the Agents are idle
with nothing to do, or dead.

**Fairness** (`FairSpec`). Weak fairness of the threads of the Controller (workers, cancelling and progress
requests), of the timers that bound their waits (`PollExpired`, `LocalStop`: the Run timeout of 30 to 43 200
seconds; `wait_task` and the cleanup waits: 30 to 300 seconds), of an Agent's reaction to a refused progress
request, of the end of a guarded task (`_guarded_service_process` raises after its expected duration plus 20
seconds), of posting a completion (the loop of `run_forever` retries for ever, so some answer arrives), and of
the watchdog at the head of `once`. There is no fairness for claims, for answers to claims, for a benchmark to
succeed, for the operator, or for any process to survive. `NetworkSuite` and `ServiceLifecycle` assume the same kinds: threads
run, waits and stages end after their seconds, and `once` reaches `_cleanup_expired` as long as the Agent lives.
`Campaigns` states no fairness: whether a window is dispatched is the operator's choice.

## 4. Proofs

Checked by TLAPS for every value of the constants, under `RunControlAssumption` (finitely many Runs, natural
bounds, hosts are not Agents), `AgentTasksAssumption` of the instantiated store, `ServiceAssumption` (every
start task has one of the four engines, natural bounds), `PairedAssumption` (the plan is one of the sequences the four
executors create), `NetworkAssumption` (a profile, at least one direction, each between two different Agents, at
least one port) and `CampaignsAssumption` (finitely many Agents, each with one of the four roles, natural bounds, versions
that are numbers, nobody twice in the initial session). No theorem about `Campaigns` asks anything of the thresholds
`Windows`, `MinSamples`, `MinTargets`, `MinDays` and `MaxAge` beyond being natural numbers, nor of the profiles that
`QuickProfiles` names.

* `TaskStoreProofs`: `StoreTypeCorrect`, `SecretsErased`, `FirstInFirstOut`, `ClosedStaysClosed`. The
  inductive invariant `StoreInv` adds to the type that creation numbers follow insertion and that a claimed
  row has no older queued row of its Agent. Lemma `OpsAge` says what every operation but create and claim does to a
  row, and is used by all four.
* `RunControlProofs`: `ControlInvariant`, and from it `TypeCorrect`, `Exclusion`, `Release`, `Workers`.
  `TargetExclusive` is not inductive: that two Runs never work on one target, although busy test and
  insertion are separate transactions, rests on admission. `ControlInv` says so: the place of a worker
  determines its Run's status and limits its task's (`WorkerInv`), a task belongs to its Run and that Run's target
  (`TaskInv`), one open Run per target (`AdmissionInv`), and requests in flight name existing tasks
  (`ReferenceInv`). The proof goes action by action; `TaskStepPlace` and `TaskOpsMove` reduce the many
  actions that touch one task row to one argument.
* `Refinement`: `RunControl` implements `RunLedger`, with `WorkOf` as refinement mapping: the work of a
  Run is read off its task row, or off its worker for the host. Every step is a ledger step or a stutter.
* `ServiceLifecycleProofs`: `ServiceInvariant`, and from it `ServiceTypes`, `ReadyIsOwn`, `NoProcessIsStray`,
  `VerifiedCleanup`, for any number of start tasks, failed removals and replacement workers. `NoProcessIsStray` shows that
  the launch of Redis is the only place where a process can be left without an owner: in the three other starts, and in Redis
  from its `try` on, each process has one. The difficult one is
  `ReadyMeansOwn`: the probes of PostgreSQL and web accept any listener, so the proof needs that a process is
  always in a directory (`HostInv`), that a start of these engines holds the only directory of its engine
  (`ReadinessInv`, from the residue check), and that one start or one service exists at a time
  (`OccupancyInv`). `StageFacts` says what the proofs need of the four stage sequences. That an answered
  `cleanup_verified` stays true needs that a stopped task is never started again.
* `ServiceRefinement`: `ServiceLifecycle` implements `EphemeralService` under the mapping `Seen`. A start stage is a
  stutter, the registration serves, and every way to end a start or a service removes it.

* `PairedServiceProofs`: `TypeCorrect`, `OwnServiceMeasured`, `StoppedForGood`, `NothingLeft`, `CleanupIsScheduled`,
  for every plan. None of the five is inductive. `Inv` adds: a row belongs to its step of the plan, what its status, claim
  and creation number allow each other, and that no stored measurement is foreign (`RowInv`); rows of a Run are created in
  the order of the plan (`OrderInv`); an Agent works on a row it has claimed, and foreign evidence comes too late for its row
  (`AgentInv`); the executor's place determines the rows it has created (`WorkerInv`); a Run is open exactly while its
  executor lives, and completed only with its last row (`RunInv`); at most one Run occupies the pair, by a living executor or
  an open row (`ExclusiveInv`); a start is past before its stop is claimed, a stopped service stays gone, and there is no
  other service while the Run that occupies the pair has its own (`ServiceInv`). `StoppedForGood` is first in first out plus
  one task at a time on the Target; `OwnServiceMeasured` is that a client which reaches a foreign service has lost its row.
* `NetworkSuiteProofs`: `TypeCorrect`, `EvidenceIsPaired`, `NothingLeft`, for every profile. `StepsWellFormed` shows once
  that start, client and collection of a measurement follow each other in whatever sequence a profile gives. `Inv` has the
  rows of a Run in the order of its steps, each after the last completed (`ChainInv`), the executors (`WorkerInv`,
  `RunInv`), and of the hosts: a server stems from a start that is over (`ServerInv`), one live server per port (`PortInv`),
  what client, server and collection of a measurement say of each other (`MeasurementInv`), and that among two Runs a
  client meets a stranger only when its own server has failed or gone (`CrossInv`). The heart is lemma `Stranger`: a client
  finds another Run's server on its port while its own has served someone else only if three Runs take part. Steps that
  start no server and bring no evidence are handled together by `ServersKept`.

* `CampaignsProofs`: `TypeCorrect`, `ActiveIsUnique`, `DaysCountOnce`, `OpenIsCurrent`, `StraysAreLast`, `CountedForGood`,
  `CampaignIsOneCohort`, `ComparableEarned`, `VerdictIsRecent`. What a storage campaign counts disappears when another release
  is installed and comes back with its own, so nothing stated under the installed release is inductive. `Inv` speaks of
  each campaign under its own release (`OwnRelease`): its baseline is valid there (`BaselineInv`); the attempts that are
  open or count there have declared different days, none of them the baseline's (`WindowInv`, which makes the code's choice
  of the first attempt of a day superfluous); and a campaign followed by another of the same subject and release has all
  its windows (`SuccessorInv`). `Projection` turns this into what is projected under any installed release, which is also
  what `CountedForGood` needs. Beside them, `OpenInv` is `OpenWindowIsCurrent` campaign by campaign, and `RunInv` ties
  attempts to campaigns of their suite. All steps on Runs are instances of `Moves` (an open Run goes on or fails, a
  closed one is never touched), `Adds` or `Records`.
  * `StraysAreLast`: that a window measures the pinned pair is not invariant, since a join may change the first Agent of
    a role. `PairInv` says that it does while exactly the pinned Agents are in the session, and that a window followed by
    another one is over and, if it measured anybody, measured them: the dispatch of the later one compared the session.
  * The report: `EvidenceLoop`, `PeerSampled` and `CohortSampled` say what its loops end with, whatever the order
    (`SameLoop` and `LoopEnds` stand in for induction over a sequence: two loops that take the same steps agree, by the least
    index at which they would not). `CohortIs` then gives a metric cohort as the union of what was filed, and
    `EvidenceIsBest` the kept item as one that no other outranks, which needs that the order of `_put` is transitive
    (`OutranksOrder`). `CountedIsEvidence` shows that the two modules, which test a Run in different words, agree on what a
    campaign has counted. `LeastNumber` is the only use of well-foundedness.

Every invariant and every action property of the passing runs is proved, and both refinements. Only model-checked: the
eight liveness properties (fairness and ENABLED are outside the prover) and the violations of section 6.

## 5. Not modelled, and assumptions

* Admission looks at the 200 latest Runs (`database.py:354`): the models assume fewer. Tasks of other
  suites do not occupy `RunControl`'s Agents; so the busy branch of `Dispatch` is not taken there.
* `created_at` of a task is monotone: the creation order in the store is the order of insertion. (Of the times of Agents
  and Runs, which order the session and the report, nothing of the kind is assumed.) The UTC day itself never goes back.
* The test for an active campaign looks at the 500 latest campaigns (`server.py:281`, `428`), and
  the lists show 50 (`server.py:239`, `387`): the models store fewer.
* The heartbeat endpoint would accept a new `system`; the Agent of this repository sends none after the join.
* Seconds: no model compares two timers. That an Agent gives up (20 s) before the Controller does (45 s) is
  left open, which is weaker than the code: the properties hold without it.
* `once` keeps at most one pending completion at a time, which is the one in `agents[a]`.
* `_network_analysis` and the parsers of the network suite, the numbers of the suitability engine (thresholds, percentiles,
  spread, inventory evidence, CSV export) and of the local executors: computation over data without state.
* Session tokens, endpoints and other heartbeats; presence only refuses a dispatch that is otherwise open.
* HTTP routing, collectors, bootstrap, backup scripts and the dashboard are I/O or presentation.

## 6. Where the code and its documents differ

Each of these is a run that TLC ends with a counterexample; the quotation is in `PROJECT.json`.

| Run | Document | The code |
|---|---|---|
| `terminal_run_written` | `docs/ARCHITECTURE.md:316`, immutable result payloads | a progress handler that read an open Run writes after it became terminal |
| `cancel_takes_cleanup` | `docs/SAFETY.md:85`, cancellation then performs cleanup | the sweep of `cancel_run` closes the queued stop task, and no other follows |
| `network_overlap` | `docs/NETWORK_METHODOLOGY.md:195`, one saturation suite per Agent at a time | admission does not look for another network Run, and sees its tasks only while one is open |

These were met while modelling and have no run of their own:

* A cancellation between the busy test and the task insertion sweeps nothing, and the task is created and claimed
  (`remote.py:171`; `docs/SAFETY.md:137`).
* A worker past its last checkpoint stores completed or failed although the cancellation was accepted (`server.py:859`;
  `docs/API.md:432-434`).
* The worker's older read of the partial result overwrites evidence acknowledged since (`remote.py:208`;
  `docs/REMOTE_EXECUTION.md:125-127`).
* Redis and MySQL errors reach the last `except` of `_execute_run`, which stores no result with the cleanup evidence
  (`server.py:908`; `docs/REDIS_METHODOLOGY.md:22-23`).
* A Redis server is launched, and `redis-cli` looked up, before the `try` that terminates it (`agent.py:2862-2864`): an
  interrupt or an error in between leaves it running, and neither a stop task nor the watchdog knows it, against
  `docs/SAFETY.md:231` and `docs/REDIS_METHODOLOGY.md:12-14` (removed on every terminal path). `NoStrayProcess` names
  it as the one exception.
* An Agent that joins with an earlier `joined_at` after a window was dispatched is measured by that window, which counts all the
  same: `_attempt_contract_status` compares no pair (`campaigns.py:121-143`), while `docs/NETWORK_METHODOLOGY.md:210` binds
  a campaign to one fixed pair. `OnlyLastWindowStrays` states what is left.
* A start whose tools are missing leaves its directory (`agent.py:2167`, `3531`; `docs/WEB_METHODOLOGY.md:119-121`,
  `docs/SAFETY.md:294-297`).
* After an upgrade of a storage profile an unfinished storage campaign, and a completed one, projects as `invalid` and never
  as `superseded`: the baseline is measured against the installed profile (`storage_campaigns.py:252`, so the branch of line
  441 is unreachable; `docs/STORAGE_CAMPAIGN_METHODOLOGY.md:79`). `CountedStays` states what is left.
* A fresh Run of a higher rank outranks every newer window of a quick profile (`suitability.py:373`), so the verdict of a
  target does not follow a `disk-quick` campaign while such a Run is fresh; `VerdictKeepsUp` is stated accordingly.
* The report groups old Runs under the system its target has now (`suitability.py:1342`;
  `docs/SUITABILITY_METHODOLOGY.md`, cohorts of one product).
* A network campaign whose session another Target or Generator has joined can neither go on nor be replaced: its contract
  no longer matches, and it stays active.

## 7. Plan

1. That no projection depends on Runs of other campaigns, as a promise of its own.
2. Pure algorithms as functions against reference definitions: counter deltas and UDP rate clamps of the network
   analysis, percentiles.

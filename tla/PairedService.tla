--------------------------- MODULE PairedService ---------------------------
(***************************************************************************)
(* A paired Run of the database and web suites: the Controller's executor  *)
(* (run_database, run_redis, run_mysql, run_web) drives a plan of Agent    *)
(* tasks over a Target, where a start task brings up an ephemeral service  *)
(* and a stop task removes it, and a Generator, whose client tasks load    *)
(* that service.  Operator cancellation, lost responses, task waits that   *)
(* run out, the Target's watchdog, Agent crashes and a Controller restart  *)
(* interfere.                                                              *)
(*                                                                         *)
(* Step i of the plan of Run r creates at most one task, named <<r, i>>.   *)
(* A timer may expire whenever it is armed.                                *)
(***************************************************************************)
EXTENDS Integers, Sequences, FiniteSets

CONSTANTS
  Runs,         \* paired Runs of one session that can be submitted
  Engine,       \* which of the four executors
  Plan,         \* the kinds of task it creates, in order; a protocol probe of
                \* the web suite is a client task, a probe is a checkpoint's
  Cancellable,  \* bound: Runs the operator may ask to cancel
  MaxRestarts,  \* bound: Controller restarts in one behaviour
  NoRun         \* the Run of no task

Kinds == {"start", "probe", "prepare", "client", "recovery", "cleanup", "stop"}
Last == Len(Plan)

ASSUME PairedAssumption ==
  /\ IsFiniteSet(Runs) /\ NoRun \notin Runs
  /\ Engine \in {"postgresql", "redis", "mysql", "web"}
  /\ MaxRestarts \in Nat
  /\ Plan \in Seq(Kinds) /\ Last >= 3
  /\ \A i \in 1..Last : (Plan[i] = "start" <=> i = 1) /\ (Plan[i] = "stop" <=> i = Last)
  /\ \A i \in 1..Last : Plan[i] = "cleanup" <=> (Engine = "mysql" /\ i = Last - 1)
  /\ \A i \in 1..Last : Plan[i] = "prepare" <=> (Engine = "mysql" /\ i = 2)

Agents == {"target", "generator"}
NoAgent == "none"
TaskIds == Runs \X (1..Last)
NoTask == <<NoRun, 0>>

\* What a task result was measured on: 0 nothing stored, 1 the service of its
\* own Run (or no service at all), 2 the service of another Run.
Evidence == 0..2
Own == 1
Foreign == 2

VARIABLES
  runs,       \* the rows of the runs table
  tasks,      \* the rows of agent_tasks
  worker,     \* per Run: the thread of _execute_run, inside its executor
  cancelled,  \* Runs whose CancellationToken is set
  canceller,  \* per Run: where an operator's cancel_run call stands
  agents,     \* the Target's and the Generator's worker process
  services,   \* Runs whose service is active on the Target
  restarts    \* Controller restarts so far

vars == <<runs, tasks, worker, cancelled, canceller, agents, services, restarts>>

INSTANCE AgentTasks

Open == Active
KindOf(t) == Plan[t[2]]
AgentFor(kind) ==
  IF kind \in {"start", "probe", "recovery", "stop"} THEN "target" ELSE "generator"

RunRow == [status : {"absent"} \cup Open \cup Terminal, cancel : BOOLEAN]

Outcomes == {"none", "completed", "cancelled", "failed", "timed-out", "unexpected"}

Worker == [pc : {"none", "created", "ready", "reporting", "creating", "waiting", "completing",
                 "unwinding", "closing", "sweeping", "settling", "gone"},
           step : 1..(Last + 1), outcome : Outcomes,
           prepared : BOOLEAN]   \* the dataset has been prepared

Agent == [mode : {"idle", "busy", "posting", "dead"}, task : TaskIds \cup {NoTask},
          status : Terminal \cup {"none"}, result : Evidence]

NoWorker == [pc |-> "none", step |-> 1, outcome |-> "none", prepared |-> FALSE]
IdleAgent == [mode |-> "idle", task |-> NoTask, status |-> "none", result |-> 0]

Init ==
  /\ runs = [r \in Runs |-> [status |-> "absent", cancel |-> FALSE]]
  /\ TasksInit
  /\ worker = [r \in Runs |-> NoWorker]
  /\ cancelled = {}
  /\ canceller = [r \in Runs |-> "idle"]
  /\ agents = [a \in Agents |-> IdleAgent]
  /\ services = {}
  /\ restarts = 0

-----------------------------------------------------------------------------
(* Admission and the start of the worker.                                   *)

\* Under _submission_lock: no open Run of this session, no active task on
\* either Agent.  The lock is held until the thread starts.
Submit(r) ==
  /\ worker[r].pc = "none"
  /\ \A a \in Agents : ~HasActiveAgentTask(a)
  /\ \A s \in Runs : runs[s].status \notin Open
  /\ runs' = [runs EXCEPT ![r].status = "queued"]
  /\ worker' = [worker EXCEPT ![r].pc = "created"]
  /\ UNCHANGED <<tasks, cancelled, canceller, agents, services, restarts>>

RegisterToken(r) ==
  /\ worker[r].pc = "created"
  /\ worker' = [worker EXCEPT ![r].pc = "ready"]
  /\ UNCHANGED <<runs, tasks, cancelled, canceller, agents, services, restarts>>

\* A token can be found from its registration to the end of its worker.
Registered(r) == worker[r].pc \notin {"none", "created", "gone"}

\* Whether the executor calls context.report before it creates a task.
Reports(i) ==
  \/ Engine \in {"postgresql", "web"}
  \/ Engine = "mysql" /\ Plan[i] \in {"start", "client"}

BeforeStep(i) == IF Reports(i) THEN "reporting" ELSE "creating"

Begin(r) ==
  /\ worker[r].pc = "ready"
  /\ runs' = [runs EXCEPT ![r].status = "running"]
  /\ worker' = [worker EXCEPT ![r].pc = BeforeStep(1)]
  /\ UNCHANGED <<tasks, cancelled, canceller, agents, services, restarts>>

-----------------------------------------------------------------------------
(* The executor: report, create the task, wait for it, complete the step.   *)

WorkerStep(r, next) ==
  /\ worker' = [worker EXCEPT ![r] = next]
  /\ UNCHANGED <<canceller, agents, services, restarts>>

At(r, pc, step) == [worker[r] EXCEPT !.pc = pc, !.step = step]
FailedAs(r, outcome) == [worker[r] EXCEPT !.pc = "unwinding", !.outcome = outcome]

Current(r) == <<r, worker[r].step>>

\* report() and complete_step(): checkpoint, then on_progress, which reads the
\* durable cancel flag into the token.  After the
\* stop task the executor returns without another checkpoint.
Report(r) ==
  LET i == worker[r].step IN
  /\ worker[r].pc \in {"reporting", "completing"} /\ r \notin cancelled
  /\ cancelled' = IF runs[r].cancel THEN cancelled \cup {r} ELSE cancelled
  /\ WorkerStep(r, IF i > Last THEN [At(r, "sweeping", i) EXCEPT !.outcome = "completed"]
                   ELSE IF worker[r].pc = "completing" THEN At(r, BeforeStep(i), i)
                   ELSE At(r, "creating", i))
  /\ UNCHANGED <<runs, tasks>>

\* A password per Run travels with every task of Redis and MySQL but the stop
\* task.
Secured == Engine \in {"redis", "mysql"}

CreateStep(r, i) ==
  CreateAgentTask(<<r, i>>, r, AgentFor(Plan[i]), Secured /\ Plan[i] # "stop")

CreateTask(r) ==
  /\ worker[r].pc = "creating"
  /\ CreateStep(r, worker[r].step)
  /\ WorkerStep(r, At(r, "waiting", worker[r].step))
  /\ UNCHANGED <<runs, cancelled>>

\* Mutant of Awaited: a stop task that was closed without completing also counts.
AwaitedClosed(r) ==
  /\ worker[r].pc = "waiting"
  /\ tasks[Current(r)].status \in IF Plan[worker[r].step] = "stop" THEN Terminal ELSE {"completed"}
  /\ WorkerStep(r, [At(r, "completing", worker[r].step + 1) EXCEPT
                      !.prepared = @ \/ Plan[worker[r].step] = "prepare"])
  /\ UNCHANGED <<runs, tasks, cancelled>>

Awaited(r) ==
  /\ worker[r].pc = "waiting" /\ tasks[Current(r)].status = "completed"
  /\ WorkerStep(r, [At(r, "completing", worker[r].step + 1) EXCEPT
                      !.prepared = @ \/ Plan[worker[r].step] = "prepare"])
  /\ UNCHANGED <<runs, tasks, cancelled>>

\* Evidence of the wrong form.  Only the errors of PostgreSQL and web are
\* listed in _execute_run; those of Redis and MySQL reach its last resort.
InvalidEvidence(r) ==
  /\ worker[r].pc = "waiting" /\ tasks[Current(r)].status = "completed"
  /\ Plan[worker[r].step] \notin {"start", "cleanup", "stop"}
  /\ WorkerStep(r, FailedAs(r, IF Secured THEN "unexpected" ELSE "failed"))
  /\ UNCHANGED <<runs, tasks, cancelled>>

\* DistributedError: the task failed, was cancelled, or took too long.
WaitFailed(r) ==
  /\ worker[r].pc = "waiting" /\ tasks[Current(r)].status # "completed"
  /\ WorkerStep(r, FailedAs(r, "failed"))
  /\ UNCHANGED <<runs, tasks, cancelled>>

\* context.checkpoint(), in report() and in every wait but those of cleanup.
Checkpoints(r) ==
  \/ worker[r].pc \in {"reporting", "completing"}
  \/ worker[r].pc = "waiting" /\ Plan[worker[r].step] \notin {"cleanup", "stop"}

StopCancelled(r) ==
  /\ Checkpoints(r) /\ r \in cancelled
  /\ WorkerStep(r, FailedAs(r, "cancelled"))
  /\ UNCHANGED <<runs, tasks, cancelled>>

StopTimedOut(r) ==
  /\ Checkpoints(r)
  /\ WorkerStep(r, FailedAs(r, "timed-out"))
  /\ UNCHANGED <<runs, tasks, cancelled>>

-----------------------------------------------------------------------------
(* The except clause: what was set up is cleaned up, once.                  *)

Created(r, i) == tasks[<<r, i>>].status # "absent"

\* Cleanup tasks that are due and have not been scheduled before.
Due(r) ==
  {i \in 1..Last : /\ Plan[i] = "stop" \/ (Plan[i] = "cleanup" /\ worker[r].prepared)
                   /\ Created(r, 1) /\ ~Created(r, i)}

\* Mutant of Unwind: a cancelled Run is left to the watchdog.
UnwindUnlessCancelled(r) ==
  /\ worker[r].pc = "unwinding"
  /\ \/ /\ Due(r) = {} \/ worker[r].outcome = "cancelled"
        /\ WorkerStep(r, At(r, "sweeping", worker[r].step))
        /\ UNCHANGED tasks
     \/ /\ worker[r].outcome # "cancelled"
        /\ \E i \in Due(r) :
             /\ \A j \in Due(r) : i <= j
             /\ CreateStep(r, i)
             /\ WorkerStep(r, At(r, "closing", i))
  /\ UNCHANGED <<runs, cancelled>>

Unwind(r) ==
  /\ worker[r].pc = "unwinding"
  /\ \/ /\ Due(r) = {}
        /\ WorkerStep(r, At(r, "sweeping", worker[r].step))
        /\ UNCHANGED tasks
     \/ \E i \in Due(r) :
          /\ \A j \in Due(r) : i <= j
          /\ CreateStep(r, i)
          /\ WorkerStep(r, At(r, "closing", i))
  /\ UNCHANGED <<runs, cancelled>>

\* Mutant of Closed: the cleanup is awaited for as long as it takes.
ClosedOnceTerminal(r) ==
  /\ worker[r].pc = "closing" /\ tasks[Current(r)].status \in Terminal
  /\ WorkerStep(r, At(r, "unwinding", worker[r].step))
  /\ UNCHANGED <<runs, tasks, cancelled>>

\* The wait for a cleanup task ends when the task is closed, or after 30 to 60
\* seconds; a DistributedError is swallowed.
Closed(r) ==
  /\ worker[r].pc = "closing"
  /\ WorkerStep(r, At(r, "unwinding", worker[r].step))
  /\ UNCHANGED <<runs, tasks, cancelled>>

-----------------------------------------------------------------------------
(* finish_run.                                                              *)

Sweep(r) ==
  /\ worker[r].pc = "sweeping"
  /\ CancelQueuedRunTasks(r)
  /\ WorkerStep(r, At(r, "settling", worker[r].step))
  /\ UNCHANGED <<runs, cancelled>>

\* Mutant of StatusOf: only a timeout is known to be a failure.
StatusOfListed(outcome) == IF outcome = "timed-out" THEN "failed" ELSE outcome

StatusOf(outcome) == IF outcome \in {"timed-out", "unexpected"} THEN "failed" ELSE outcome

\* The result is left out: a failed or cancelled Run keeps its partial one.
Settle(r) ==
  /\ worker[r].pc = "settling"
  /\ runs' = [runs EXCEPT ![r].status = StatusOf(worker[r].outcome)]
  /\ cancelled' = cancelled \ {r}
  /\ WorkerStep(r, At(r, "gone", worker[r].step))
  /\ UNCHANGED tasks

-----------------------------------------------------------------------------
(* cancel_run: four separate steps of an HTTP thread.                       *)

CancelStep(r, from, to) ==
  /\ canceller[r] = from
  /\ canceller' = [canceller EXCEPT ![r] = to]
  /\ UNCHANGED <<worker, agents, services, restarts>>

CancelCheck(r) ==
  /\ r \in Cancellable
  /\ runs[r].status \in Open
  /\ CancelStep(r, "idle", "checked")
  /\ UNCHANGED <<runs, tasks, cancelled>>

RequestCancel(r) ==
  /\ CancelStep(r, "checked", "flagged")
  /\ runs' = [runs EXCEPT ![r].cancel = @ \/ runs[r].status \in Open]
  /\ UNCHANGED <<tasks, cancelled>>

CancelQueued(r) ==
  /\ CancelStep(r, "flagged", "swept")
  /\ CancelQueuedRunTasks(r)
  /\ UNCHANGED <<runs, cancelled>>

CancelToken(r) ==
  /\ CancelStep(r, "swept", "idle")
  /\ cancelled' = IF Registered(r) THEN cancelled \cup {r} ELSE cancelled
  /\ UNCHANGED <<runs, tasks>>

-----------------------------------------------------------------------------
(* The Agents: one task at a time (AgentWorker.once).                       *)

AgentStep(a, next) ==
  /\ agents' = [agents EXCEPT ![a] = next]
  /\ UNCHANGED <<runs, worker, cancelled, canceller, restarts>>

\* tasks/next answers with the oldest queued task, or its answer is lost.
Claim(a, t) ==
  /\ agents[a].mode = "idle"
  /\ ClaimAgentTask(a, t)
  /\ \/ AgentStep(a, [IdleAgent EXCEPT !.mode = "busy", !.task = t])
     \/ AgentStep(a, agents[a])
  /\ UNCHANGED services

Executes(a, kinds) == agents[a].mode = "busy" /\ KindOf(agents[a].task) \in kinds

Ends(a, status, result) ==
  AgentStep(a, [agents[a] EXCEPT !.mode = "posting", !.status = status, !.result = result])

\* Mutant of StartService: no look at the services that are already active.
StartServiceBeside ==
  /\ Executes("target", {"start"})
  /\ services' = services \cup {agents["target"].task[1]}
  /\ Ends("target", "completed", Own)
  /\ UNCHANGED tasks

\* An Agent brings up one service at a time, whatever its engine.
StartService ==
  /\ Executes("target", {"start"})
  /\ services = {}
  /\ services' = {agents["target"].task[1]}
  /\ Ends("target", "completed", Own)
  /\ UNCHANGED tasks

\* A client reaches whatever service listens on the Target; Redis and MySQL
\* only answer to the password of their own Run.
RunClient ==
  /\ Executes("generator", {"prepare", "client", "cleanup"})
  /\ LET own == agents["generator"].task[1] IN
     \E s \in services :
       /\ Secured => s = own
       /\ Ends("generator", "completed", IF s = own THEN Own ELSE Foreign)
  /\ UNCHANGED <<tasks, services>>

\* A probe or a recovery drill looks its Run's service up by its start task.
ProbeService ==
  /\ Executes("target", {"probe", "recovery"})
  /\ agents["target"].task[1] \in services
  /\ Ends("target", "completed", Own)
  /\ UNCHANGED <<tasks, services>>

\* An absent service counts as stopped.
StopService ==
  /\ Executes("target", {"stop"})
  /\ services' = services \ {agents["target"].task[1]}
  /\ Ends("target", "completed", Own)
  /\ UNCHANGED tasks

\* Any task can fail: its own checks, its tools, its guarded timeout, 20
\* seconds without the Controller, or an OSError while a service directory is
\* removed, which leaves the service registered.
TaskFails(a) ==
  /\ agents[a].mode = "busy"
  /\ Ends(a, "failed", 0)
  /\ UNCHANGED <<tasks, services>>

\* Every task but a stop and the Redis start reports progress, and is told to
\* give up when its row is no longer running, or its Run is cancelled or over.
ControlRefuses(a) ==
  LET t == agents[a].task IN
  /\ agents[a].mode = "busy" /\ KindOf(t) # "stop"
  /\ Engine = "redis" => KindOf(t) # "start"
  /\ ~ProgressAccepted(t, a) \/ runs[t[1]].cancel \/ runs[t[1]].status \notin Open
  /\ Ends(a, "cancelled", 0)
  /\ UNCHANGED <<tasks, services>>

\* The completion is posted, and kept for another attempt unless the answer
\* arrives and says that the row is closed.
PostResult(a) ==
  /\ agents[a].mode = "posting"
  /\ FinishAgentTask(agents[a].task, a, agents[a].status, agents[a].result)
  /\ AgentStep(a, IF FinishAccepted(agents[a].task, a) THEN IdleAgent ELSE agents[a])
  /\ UNCHANGED services

PostResultUnanswered(a) ==
  /\ agents[a].mode = "posting"
  /\ FinishAgentTask(agents[a].task, a, agents[a].status, agents[a].result)
  /\ AgentStep(a, agents[a])
  /\ UNCHANGED services

\* Mutant of ServiceExpires: only services the Controller has given up on.
ServiceExpiresOnceStopped(r) ==
  /\ agents["target"].mode \in {"idle", "posting"}
  /\ r \in services /\ Created(r, Last)
  /\ services' = services \ {r}
  /\ UNCHANGED <<runs, tasks, worker, cancelled, canceller, agents, restarts>>

\* _cleanup_expired, at the head of every turn of the Agent's loop: the
\* service's deadline has passed, or the Controller's contact is lost.
ServiceExpires(r) ==
  /\ agents["target"].mode \in {"idle", "posting"}
  /\ r \in services
  /\ services' = services \ {r}
  /\ UNCHANGED <<runs, tasks, worker, cancelled, canceller, agents, restarts>>

\* The worker process ends: run_forever stops its services on the way out,
\* unless the process was killed and left them running.
AgentCrash(a) ==
  /\ agents[a].mode # "dead"
  /\ AgentStep(a, [IdleAgent EXCEPT !.mode = "dead"])
  /\ services' \in IF a = "target" THEN {services, {}} ELSE {services}
  /\ UNCHANGED tasks

ControllerRestart ==
  /\ restarts < MaxRestarts
  /\ restarts' = restarts + 1
  /\ runs' = [r \in Runs |->
       IF runs[r].status \in Open THEN [runs[r] EXCEPT !.status = "failed"] ELSE runs[r]]
  /\ RecoverTasks
  /\ worker' = [r \in Runs |-> IF worker[r].pc \in {"none", "gone"} THEN worker[r]
                               ELSE [worker[r] EXCEPT !.pc = "gone", !.outcome = "none"]]
  /\ cancelled' = {}
  /\ canceller' = [r \in Runs |-> "idle"]
  /\ UNCHANGED <<agents, services>>

-----------------------------------------------------------------------------
WorkerMoves(r) ==
  \/ RegisterToken(r) \/ Begin(r) \/ Report(r) \/ CreateTask(r)
  \/ Awaited(r) \/ InvalidEvidence(r) \/ WaitFailed(r) \/ StopCancelled(r)
  \/ Unwind(r) \/ Closed(r) \/ Sweep(r) \/ Settle(r)

CancelMoves(r) == RequestCancel(r) \/ CancelQueued(r) \/ CancelToken(r)

TaskEnds(a) ==
  \/ a = "target" /\ (StartService \/ ProbeService \/ StopService)
  \/ a = "generator" /\ RunClient
  \/ TaskFails(a)

Next ==
  \/ \E r \in Runs :
       \/ Submit(r) \/ WorkerMoves(r) \/ StopTimedOut(r)
       \/ CancelCheck(r) \/ CancelMoves(r) \/ ServiceExpires(r)
  \/ \E a \in Agents :
       \/ \E t \in TaskIds : Claim(a, t)
       \/ TaskEnds(a) \/ ControlRefuses(a)
       \/ PostResult(a) \/ PostResultUnanswered(a) \/ AgentCrash(a)
  \/ ControllerRestart

Spec == Init /\ [][Next]_vars
-----------------------------------------------------------------------------
TypeOK ==
  /\ runs \in [Runs -> RunRow]
  /\ TasksTypeOK
  /\ worker \in [Runs -> Worker]
  /\ cancelled \subseteq Runs
  /\ canceller \in [Runs -> {"idle", "checked", "flagged", "swept"}]
  /\ agents \in [Agents -> Agent]
  /\ services \subseteq Runs
  /\ restarts \in 0..MaxRestarts

\* No task ever stores a measurement of another Run's service, although a
\* service may outlive its Run, a client may outlive its task, and a Controller
\* restart admits the next Run while both Agents still execute for the last.
MeasuredOwnService ==
  \A t \in TaskIds : tasks[t].result # Foreign

\* The stop task is the last word on a service: a start task that was still
\* waiting or executing when it was scheduled does not bring it up afterwards.
StoppedStaysStopped ==
  \A r \in Runs : tasks[<<r, Last>>].status = "completed" => r \notin services

\* A completed Run has seen its stop task complete, and its service is gone.
CompletedRunLeftNothing ==
  \A r \in Runs : runs[r].status = "completed" =>
    tasks[<<r, Last>>].status = "completed" /\ r \notin services

\* Whichever step failed, timed out or was cancelled, an executor that has
\* created its start task has also scheduled the stop task, and for a prepared
\* MySQL dataset the table cleanup before it.
CleanupScheduled ==
  \A r \in Runs :
    worker[r].pc \in {"sweeping", "settling", "gone"} /\ worker[r].outcome # "none"
      /\ Created(r, 1) =>
        /\ Created(r, Last)
        /\ \A i \in 1..Last : Plan[i] = "cleanup" /\ worker[r].prepared =>
             Created(r, i) /\ tasks[<<r, i>>].created < tasks[<<r, Last>>].created

-----------------------------------------------------------------------------
(* Liveness: threads run, waits end after their seconds, guarded tasks end  *)
(* after their timeout, a result is answered some day, and an Agent that is *)
(* alive gets round to _cleanup_expired.                                    *)

Fairness ==
  /\ \A r \in Runs : WF_vars(WorkerMoves(r)) /\ WF_vars(CancelMoves(r))
  /\ \A r \in Runs : WF_vars(ServiceExpires(r))
  /\ \A a \in Agents : WF_vars(TaskEnds(a)) /\ WF_vars(PostResult(a))

FairSpec == Spec /\ Fairness

\* Every paired Run ends, whichever Agent has stopped answering: no wait of the
\* executor, and none of its cleanup, depends on an Agent being there.
EveryRunEnds ==
  \A r \in Runs : runs[r].status \in Open ~> runs[r].status \in Terminal

\* The watchdog is the Target's own: a service disappears although its stop
\* task was swept, lost, failed or never created, as long as the Agent lives.
ServiceEventuallyGone ==
  \A r \in Runs : r \in services ~> (r \notin services \/ agents["target"].mode = "dead")

-----------------------------------------------------------------------------
(* What the documentation says, and the code does not guarantee.            *)

\* docs/SAFETY.md:85, cancellation "then performs cleanup": the operator's
\* cancel_run does not take away the stop task its Run is waiting for.
CancellationPerformsCleanup ==
  [][\A r \in Runs :
       tasks[<<r, Last>>].status = "queued" /\ worker[r].pc \in {"waiting", "closing"}
         => tasks'[<<r, Last>>].status # "cancelled"]_vars
=============================================================================

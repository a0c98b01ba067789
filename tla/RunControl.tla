----------------------------- MODULE RunControl -----------------------------
(***************************************************************************)
(* The Controller's control of single-target Runs (compute, memory,        *)
(* storage, security): admission, the worker thread of each Run, operator  *)
(* cancellation, the progress handlers of the HTTP server, a Controller    *)
(* restart, and the Agents that claim, execute and report remote tasks     *)
(* over a network that loses responses.                                    *)
(*                                                                         *)
(* Each remote Run creates exactly one Agent task, so a task is named by   *)
(* its Run.  Seconds are abstracted away: a timer (Run timeout, heartbeat  *)
(* grace, request timeout, Agent contact limit) may expire at any moment   *)
(* at which it is armed.  Agent tasks of other suites do not appear here.  *)
(***************************************************************************)
EXTENDS Integers, FiniteSets

CONSTANTS
  Runs,          \* Runs that can be submitted
  Agents,        \* Agents that have joined
  Hosts,         \* the Controller's own host as an execution target, or {}
  Cancellable,   \* bound: Runs the operator may ask to cancel
  Handlers,      \* HTTP server threads that can serve progress at one time
  MaxJobs,       \* jobs of a profile; partial evidence counts finished jobs
  MaxRestarts,   \* bound: Controller restarts in one behaviour
  NoRun, NoAgent

Evidence == 0..(MaxJobs + 1)      \* 0: NULL; MaxJobs + 1: the final result
FinalEvidence == MaxJobs + 1
Partial == 0..MaxJobs

VARIABLES
  runs,       \* the rows of the runs table
  tasks,      \* the rows of agent_tasks, see TaskStore
  worker,     \* per Run: the thread of _execute_run
  cancelled,  \* Runs whose CancellationToken is set
  registered, \* Runs whose token is in _active_runs
  canceller,  \* per Run: where an operator's cancel_run call stands
  handler,    \* per server thread: the progress request it serves
  agents,     \* per Agent: the worker process on the Agent host
  restarts    \* Controller restarts so far

vars == <<runs, tasks, worker, cancelled, registered, canceller, handler, agents, restarts>>

INSTANCE AgentTasks WITH TaskIds <- Runs

ASSUME RunControlAssumption ==
  /\ IsFiniteSet(Runs)
  /\ MaxJobs \in Nat \ {0} /\ MaxRestarts \in Nat
  /\ Hosts \cap Agents = {} /\ NoAgent \notin Agents \cup Hosts /\ NoRun \notin Runs

Targets == Agents \cup Hosts
Open == Active
RunStatus == {"absent"} \cup Open \cup Terminal

RunRow == [status : RunStatus, target : Targets \cup {NoAgent},
           cancel : BOOLEAN, result : Evidence]

Outcomes == {"none", "completed", "cancelled", "failed", "timed-out"}

Worker == [pc : {"none", "created", "ready", "dispatching", "creating", "polling",
                 "unwinding", "aborting", "local", "sweeping", "settling", "leaving", "gone"},
           outcome : Outcomes, carried : Evidence]

Handler == [pc : {"idle", "reading", "writing", "replying"}, task : Runs \cup {NoRun},
            agent : Agents \cup {NoAgent}, result : Evidence, cancel : BOOLEAN, awaited : BOOLEAN]

Agent == [mode : {"idle", "busy", "posting", "dead"}, task : Runs \cup {NoRun},
          stop : BOOLEAN, jobs : Partial, status : Terminal \cup {"none"},
          result : Evidence]

NoWorker == [pc |-> "none", outcome |-> "none", carried |-> 0]
IdleHandler == [pc |-> "idle", task |-> NoRun, agent |-> NoAgent, result |-> 0,
                cancel |-> FALSE, awaited |-> FALSE]
IdleAgent == [mode |-> "idle", task |-> NoRun, stop |-> FALSE, jobs |-> 0,
              status |-> "none", result |-> 0]

Init ==
  /\ runs = [r \in Runs |-> [status |-> "absent", target |-> NoAgent, cancel |-> FALSE,
                             result |-> 0]]
  /\ TasksInit
  /\ worker = [r \in Runs |-> NoWorker]
  /\ cancelled = {} /\ registered = {}
  /\ canceller = [r \in Runs |-> "idle"]
  /\ handler = [h \in Handlers |-> IdleHandler]
  /\ agents = [a \in Agents |-> IdleAgent]
  /\ restarts = 0

-----------------------------------------------------------------------------
(* Admission and the start of the worker thread (_submit_run_locked).       *)

\* Mutant of Submit: only a Run that is already running refuses the next one.
SubmitBesideQueued(r, g) ==
  /\ worker[r].pc = "none"
  /\ \A s \in Runs : worker[s].pc # "created"
  /\ g \in Agents => ~HasActiveAgentTask(g)
  /\ \A s \in Runs : runs[s].status = "running" => runs[s].target # g
  /\ runs' = [runs EXCEPT ![r].status = "queued", ![r].target = g]
  /\ worker' = [worker EXCEPT ![r].pc = "created"]
  /\ UNCHANGED <<tasks, cancelled, registered, canceller, handler, agents, restarts>>

\* Under _submission_lock: the target has no open single-target Run and, when
\* it is an Agent, no active task.  The lock is held until the thread starts.
Submit(r, g) ==
  /\ worker[r].pc = "none"
  /\ \A s \in Runs : worker[s].pc # "created"
  /\ g \in Agents => ~HasActiveAgentTask(g)
  /\ \A s \in Runs : runs[s].status \in Open => runs[s].target # g
  /\ runs' = [runs EXCEPT ![r].status = "queued", ![r].target = g]
  /\ worker' = [worker EXCEPT ![r].pc = "created"]
  /\ UNCHANGED <<tasks, cancelled, registered, canceller, handler, agents, restarts>>

\* The token becomes findable only after the row is: an operator who cancels
\* in between finds none.
RegisterToken(r) ==
  /\ worker[r].pc = "created"
  /\ registered' = registered \cup {r}
  /\ worker' = [worker EXCEPT ![r].pc = "ready"]
  /\ UNCHANGED <<runs, tasks, cancelled, canceller, handler, agents, restarts>>

\* update_run(status="running") has no guard on the status it replaces.
Begin(r) ==
  /\ worker[r].pc = "ready"
  /\ runs' = [runs EXCEPT ![r].status = "running"]
  /\ worker' = [worker EXCEPT ![r].pc = "dispatching"]
  /\ UNCHANGED <<tasks, cancelled, registered, canceller, handler, agents, restarts>>

-----------------------------------------------------------------------------
(* The worker of a remote Run (run_remote_benchmark).                       *)

WorkerStep(r, pc, outcome, carried) ==
  /\ worker' = [worker EXCEPT ![r] = [pc |-> pc, outcome |-> outcome, carried |-> carried]]
  /\ UNCHANGED <<cancelled, registered, canceller, handler, agents, restarts>>

\* A Run of the Controller's host executes in this thread.  An Agent is looked
\* at once more before its task is created, in a separate transaction; a busy
\* Agent fails the Run before the try block is entered.
Dispatch(r) ==
  /\ worker[r].pc = "dispatching"
  /\ IF runs[r].target \in Hosts THEN WorkerStep(r, "local", "none", 0)
     ELSE IF HasActiveAgentTask(runs[r].target)
          THEN WorkerStep(r, "sweeping", "failed", 0)
          ELSE WorkerStep(r, "creating", "none", 0)
  /\ UNCHANGED <<runs, tasks>>

CreateTask(r) ==
  /\ worker[r].pc = "creating"
  /\ CreateAgentTask(r, r, runs[r].target, FALSE)
  /\ WorkerStep(r, "polling", "none", 0)
  /\ UNCHANGED runs

\* context.checkpoint(): the operator's cancellation, then the Run timeout.
PollCancelled(r) ==
  /\ worker[r].pc = "polling" /\ r \in cancelled
  /\ WorkerStep(r, "unwinding", "cancelled", 0)
  /\ UNCHANGED <<runs, tasks>>

\* Mutant of PollExpired: the timeout counts only once an Agent has claimed.
PollExpiredOnceClaimed(r) ==
  /\ worker[r].pc = "polling" /\ tasks[r].claimed
  /\ WorkerStep(r, "unwinding", "timed-out", 0)
  /\ UNCHANGED <<runs, tasks>>

PollExpired(r) ==
  /\ worker[r].pc = "polling"
  /\ WorkerStep(r, "unwinding", "timed-out", 0)
  /\ UNCHANGED <<runs, tasks>>

\* Mutant of PollClosed: any closed task counts as a result.
PollClosedAnyhow(r) ==
  /\ worker[r].pc = "polling" /\ tasks[r].status \in Terminal
  /\ WorkerStep(r, "sweeping", "completed", tasks[r].result)
  /\ UNCHANGED <<runs, tasks>>

\* The task has been closed by its Agent or by cancel_run.  A completed task
\* whose envelope does not match what was dispatched is a failure.
PollClosed(r) ==
  /\ worker[r].pc = "polling" /\ tasks[r].status \in Terminal
  /\ \/ /\ tasks[r].status = "completed"
        /\ WorkerStep(r, "sweeping", "completed", tasks[r].result)
     \/ /\ tasks[r].status = "completed"
        /\ WorkerStep(r, "unwinding", "failed", 0)
     \/ /\ tasks[r].status \in {"cancelled", "failed"}
        /\ WorkerStep(r, "unwinding", tasks[r].status, tasks[r].result)
  /\ UNCHANGED <<runs, tasks>>

\* No heartbeat for TASK_HEARTBEAT_GRACE_SECONDS.
PollSilent(r) ==
  /\ worker[r].pc = "polling" /\ tasks[r].status = "running"
  /\ WorkerStep(r, "unwinding", "failed", tasks[r].result)
  /\ UNCHANGED <<runs, tasks>>

\* A stopped Run takes the evidence its task holds at this read ...
Unwind(r) ==
  /\ worker[r].pc = "unwinding"
  /\ WorkerStep(r, "aborting", worker[r].outcome,
                IF worker[r].outcome \in {"cancelled", "timed-out"} THEN tasks[r].result
                ELSE worker[r].carried)
  /\ UNCHANGED <<runs, tasks>>

\* ... and only then is the task closed.
Abort(r) ==
  /\ worker[r].pc = "aborting"
  /\ AbortAgentTask(r)
  /\ WorkerStep(r, "sweeping", worker[r].outcome, worker[r].carried)
  /\ UNCHANGED runs

-----------------------------------------------------------------------------
(* The worker of a Run on the Controller's host (JobContext in the thread). *)

\* report(): checkpoint, then on_progress, which reads the durable cancel flag
\* into the token and stores the jobs finished so far.
LocalReport(r) ==
  /\ worker[r].pc = "local" /\ r \notin cancelled
  /\ cancelled' = IF runs[r].cancel THEN cancelled \cup {r} ELSE cancelled
  /\ \E e \in Partial \cap {runs[r].result, runs[r].result + 1} :
       runs' = [runs EXCEPT ![r].result = e]
  /\ UNCHANGED <<tasks, worker, registered, canceller, handler, agents, restarts>>

LocalStop(r) ==
  /\ worker[r].pc = "local"
  /\ \/ r \in cancelled /\ WorkerStep(r, "sweeping", "cancelled", runs[r].result)
     \/ WorkerStep(r, "sweeping", "timed-out", runs[r].result)
  /\ UNCHANGED <<runs, tasks>>

LocalEnd(r) ==
  /\ worker[r].pc = "local"
  /\ \/ WorkerStep(r, "sweeping", "failed", 0)
     \/ runs[r].result = MaxJobs /\ WorkerStep(r, "sweeping", "completed", FinalEvidence)
  /\ UNCHANGED <<runs, tasks>>

-----------------------------------------------------------------------------
(* The end of every worker (finish_run and the finally clause).             *)

Sweep(r) ==
  /\ worker[r].pc = "sweeping"
  /\ CancelQueuedRunTasks(r)
  /\ WorkerStep(r, "settling", worker[r].outcome, worker[r].carried)
  /\ UNCHANGED runs

\* Mutant of StatusOf: the phase of a timeout is stored as its status.
StatusOfPhase(outcome) == outcome

\* A timeout is a failure; phase alone tells the two apart.
StatusOf(outcome) == IF outcome = "timed-out" THEN "failed" ELSE outcome

Settle(r) ==
  /\ worker[r].pc = "settling"
  /\ runs' = [runs EXCEPT ![r].status = StatusOf(worker[r].outcome),
                          ![r].result = Coalesce(worker[r].carried, @)]
  /\ WorkerStep(r, "leaving", StatusOf(worker[r].outcome), 0)
  /\ UNCHANGED tasks

Leave(r) ==
  /\ worker[r].pc = "leaving"
  /\ registered' = registered \ {r}
  /\ cancelled' = cancelled \ {r}      \* the token goes with its last reference
  /\ worker' = [worker EXCEPT ![r].pc = "gone"]
  /\ UNCHANGED <<runs, tasks, canceller, handler, agents, restarts>>

-----------------------------------------------------------------------------
(* cancel_run: four separate steps of an HTTP thread.                       *)

CancelStep(r, from, to) ==
  /\ canceller[r] = from
  /\ canceller' = [canceller EXCEPT ![r] = to]
  /\ UNCHANGED <<worker, registered, handler, agents, restarts>>

CancelCheck(r) ==
  /\ r \in Cancellable
  /\ runs[r].status \in Open
  /\ CancelStep(r, "idle", "checked")
  /\ UNCHANGED <<runs, tasks, cancelled>>

RequestCancel(r) ==
  /\ CancelStep(r, "checked", "flagged")
  /\ runs' = [runs EXCEPT ![r].cancel = @ \/ runs[r].status \in Open]
  /\ UNCHANGED <<tasks, cancelled>>

CancelQueued(r) ==
  /\ CancelStep(r, "flagged", "swept")
  /\ CancelQueuedRunTasks(r)
  /\ UNCHANGED <<runs, cancelled>>

CancelToken(r) ==
  /\ CancelStep(r, "swept", "idle")
  /\ cancelled' = IF r \in registered THEN cancelled \cup {r} ELSE cancelled
  /\ UNCHANGED <<runs, tasks>>

-----------------------------------------------------------------------------
(* progress_agent_task: the task row, then the Run row, in separate         *)
(* transactions of one HTTP thread.                                         *)

AwaitedBy(a) == {h \in Handlers : handler[h].awaited /\ handler[h].agent = a}

\* The Agent's monitor, or its main thread at the end of a job, posts what has
\* been finished; the task row is still running and takes it.
ProgressReceived(a, h) ==
  /\ agents[a].mode = "busy" /\ ~agents[a].stop
  /\ handler[h].pc = "idle"
  /\ UpdateAgentTaskProgress(agents[a].task, a, agents[a].jobs)
  /\ handler' = [handler EXCEPT ![h] =
       [pc |-> "reading", task |-> agents[a].task, agent |-> a,
        result |-> agents[a].jobs, cancel |-> FALSE, awaited |-> TRUE]]
  /\ UNCHANGED <<runs, worker, cancelled, registered, canceller, agents, restarts>>

\* Mutant of ProgressRefused: the Agent looks only at cancel_requested of an
\* accepted report.
ProgressRefusedUnheeded(a) ==
  /\ agents[a].mode = "busy" /\ ~agents[a].stop
  /\ ~ProgressAccepted(agents[a].task, a)
  /\ UNCHANGED vars

\* The task is no longer running: the answer tells the Agent to stop.
ProgressRefused(a) ==
  /\ agents[a].mode = "busy" /\ ~agents[a].stop
  /\ ~ProgressAccepted(agents[a].task, a)
  /\ agents' = [agents EXCEPT ![a].stop = TRUE]
  /\ UNCHANGED <<runs, tasks, worker, cancelled, registered, canceller, handler, restarts>>

ReadRun(h) ==
  /\ handler[h].pc = "reading"
  /\ LET run == runs[handler[h].task] IN
       handler' = [handler EXCEPT
         ![h].pc = IF run.status \in Open THEN "writing" ELSE "replying",
         ![h].cancel = run.cancel \/ run.status \notin Open]
  /\ UNCHANGED <<runs, tasks, worker, cancelled, registered, canceller, agents, restarts>>

\* update_run_progress does not look at the status it was decided on.
WriteRun(h) ==
  /\ handler[h].pc = "writing"
  /\ runs' = [runs EXCEPT
       ![handler[h].task].result = Coalesce(handler[h].result, @)]
  /\ handler' = [handler EXCEPT ![h].pc = "replying"]
  /\ UNCHANGED <<tasks, worker, cancelled, registered, canceller, agents, restarts>>

Reply(h) ==
  /\ handler[h].pc = "replying"
  /\ handler' = [handler EXCEPT ![h] = IdleHandler]
  /\ agents' = [a \in Agents |->
       IF handler[h].awaited /\ handler[h].agent = a
       THEN [agents[a] EXCEPT !.stop = @ \/ handler[h].cancel]
       ELSE agents[a]]
  /\ UNCHANGED <<runs, tasks, worker, cancelled, registered, canceller, restarts>>

\* The Agent's transport timeout: the handler goes on without its caller.
GiveUp(h) ==
  /\ handler[h].awaited
  /\ handler' = [handler EXCEPT ![h].awaited = FALSE]
  /\ UNCHANGED <<runs, tasks, worker, cancelled, registered, canceller, agents, restarts>>

-----------------------------------------------------------------------------
(* The Agent process (AgentWorker.once and _run_benchmark).                 *)

AgentStep(a, next) ==
  /\ agents' = [agents EXCEPT ![a] = next]
  /\ UNCHANGED <<runs, worker, cancelled, registered, canceller, handler, restarts>>

\* tasks/next answers with the oldest queued task, or its answer is lost and
\* the task is running with nobody executing it.
Claim(a, t) ==
  /\ agents[a].mode = "idle"
  /\ ClaimAgentTask(a, t)
  /\ \/ AgentStep(a, [IdleAgent EXCEPT !.mode = "busy", !.task = t])
     \/ AgentStep(a, agents[a])

FinishJob(a) ==
  /\ agents[a].mode = "busy" /\ ~agents[a].stop
  /\ agents[a].jobs < MaxJobs
  /\ AgentStep(a, [agents[a] EXCEPT !.jobs = @ + 1])
  /\ UNCHANGED tasks

\* More than 20 seconds without an answer from the Controller.
LoseContact(a) ==
  /\ agents[a].mode = "busy" /\ ~agents[a].stop
  /\ AgentStep(a, [agents[a] EXCEPT !.stop = TRUE])
  /\ UNCHANGED tasks

\* The benchmark ends and its completion is recorded before it is posted.  The
\* monitor thread has been joined, so no progress request is awaited.
Conclude(a) ==
  /\ agents[a].mode = "busy" /\ AwaitedBy(a) = {}
  /\ \E status \in Terminal :
       /\ status = "completed" => agents[a].jobs = MaxJobs
       /\ status = "cancelled" => agents[a].stop
       /\ AgentStep(a, [agents[a] EXCEPT !.mode = "posting", !.status = status,
            !.result = IF status = "completed" THEN FinalEvidence ELSE agents[a].jobs])
  /\ UNCHANGED tasks

\* The completion is posted, and kept for another attempt unless the answer
\* arrives and says that the row is closed.
PostResult(a) ==
  /\ agents[a].mode = "posting"
  /\ FinishAgentTask(agents[a].task, a, agents[a].status, agents[a].result)
  /\ AgentStep(a, IF FinishAccepted(agents[a].task, a) THEN IdleAgent ELSE agents[a])

PostResultUnanswered(a) ==
  /\ agents[a].mode = "posting"
  /\ FinishAgentTask(agents[a].task, a, agents[a].status, agents[a].result)
  /\ AgentStep(a, agents[a])

\* The worker process dies; a restarted one joins as a new Agent.
AgentCrash(a) ==
  /\ agents[a].mode # "dead"
  /\ agents' = [agents EXCEPT ![a] = [IdleAgent EXCEPT !.mode = "dead"]]
  /\ handler' = [h \in Handlers |-> [handler[h] EXCEPT !.awaited = @ /\ handler[h].agent # a]]
  /\ UNCHANGED <<runs, tasks, worker, cancelled, registered, canceller, restarts>>

-----------------------------------------------------------------------------
\* Mutant of ControllerRestart: Runs that were still queued are left alone.
RestartRunningOnly ==
  /\ restarts < MaxRestarts
  /\ restarts' = restarts + 1
  /\ runs' = [r \in Runs |->
       IF runs[r].status = "running" THEN [runs[r] EXCEPT !.status = "failed"] ELSE runs[r]]
  /\ RecoverTasks
  /\ worker' = [r \in Runs |-> IF worker[r].pc = "none" THEN worker[r]
                               ELSE [pc |-> "gone", carried |-> 0, outcome |-> worker[r].outcome]]
  /\ cancelled' = {} /\ registered' = {}
  /\ canceller' = [r \in Runs |-> "idle"]
  /\ handler' = [h \in Handlers |-> IdleHandler]
  /\ UNCHANGED agents

\* The Controller process dies with every thread in it and starts again:
\* recover_incomplete_runs settles what the tables still show as open.
ControllerRestart ==
  /\ restarts < MaxRestarts
  /\ restarts' = restarts + 1
  /\ runs' = [r \in Runs |->
       IF runs[r].status \in Open
       THEN [runs[r] EXCEPT !.status = "failed"]
       ELSE runs[r]]
  /\ RecoverTasks
  /\ worker' = [r \in Runs |-> IF worker[r].pc = "none" THEN worker[r]
                               ELSE [pc |-> "gone", carried |-> 0, outcome |->
                                       IF worker[r].pc = "local" THEN "failed"
                                       ELSE worker[r].outcome]]
  /\ cancelled' = {} /\ registered' = {}
  /\ canceller' = [r \in Runs |-> "idle"]
  /\ handler' = [h \in Handlers |-> IdleHandler]
  /\ UNCHANGED agents

-----------------------------------------------------------------------------
WorkerMoves(r) ==
  \/ RegisterToken(r) \/ Begin(r) \/ Dispatch(r) \/ CreateTask(r)
  \/ PollCancelled(r) \/ PollClosed(r) \/ Unwind(r) \/ Abort(r)
  \/ Sweep(r) \/ Settle(r) \/ Leave(r)

CancelMoves(r) == RequestCancel(r) \/ CancelQueued(r) \/ CancelToken(r)
HandlerMoves(h) == ReadRun(h) \/ WriteRun(h) \/ Reply(h)

Next ==
  \/ \E r \in Runs, g \in Targets : Submit(r, g)
  \/ \E r \in Runs :
       WorkerMoves(r) \/ PollExpired(r) \/ PollSilent(r)
       \/ LocalReport(r) \/ LocalStop(r) \/ LocalEnd(r)
       \/ CancelCheck(r) \/ CancelMoves(r)
  \/ \E h \in Handlers : HandlerMoves(h) \/ GiveUp(h)
  \/ \E a \in Agents, h \in Handlers : ProgressReceived(a, h)
  \/ \E a \in Agents, t \in Runs : Claim(a, t)
  \/ \E a \in Agents :
       \/ ProgressRefused(a) \/ FinishJob(a) \/ LoseContact(a) \/ Conclude(a)
       \/ PostResult(a) \/ PostResultUnanswered(a) \/ AgentCrash(a)
  \/ ControllerRestart

Spec == Init /\ [][Next]_vars
-----------------------------------------------------------------------------
TypeOK ==
  /\ runs \in [Runs -> RunRow]
  /\ TasksTypeOK
  /\ worker \in [Runs -> Worker]
  /\ cancelled \subseteq Runs /\ registered \subseteq Runs
  /\ canceller \in [Runs -> {"idle", "checked", "flagged", "swept"}]
  /\ handler \in [Handlers -> Handler]
  /\ agents \in [Agents -> Agent]
  /\ restarts \in 0..MaxRestarts

\* A Run works on its target while its task is queued or running there, or
\* while its worker executes the profile on the Controller's host.
Occupies(r, g) ==
  runs[r].target = g /\ (tasks[r].status \in Active \/ worker[r].pc = "local")

\* Only one saturation workload targets a machine at a time, although the test
\* for a busy Agent and the creation of its task are separate transactions,
\* and although a cancelled, failed or interrupted Run may have left its Agent
\* executing.
TargetExclusive ==
  \A r, s \in Runs : \A g \in Targets : Occupies(r, g) /\ Occupies(s, g) => r = s

\* A terminal Run has let go of its target: no path out of the worker, and no
\* restart, leaves a task behind that would make the Agent count as busy.
TerminalRunReleasesTarget ==
  \A r \in Runs : runs[r].status \in Terminal => \A g \in Targets : ~Occupies(r, g)

\* An open Run has a thread that will settle it.  Without one it would refuse
\* every later Run of its target until the next restart.
OpenRunHasWorker ==
  \A r \in Runs : runs[r].status \in Open => worker[r].pc \notin {"none", "leaving", "gone"}

-----------------------------------------------------------------------------
(* The inductive invariant behind the properties above.                     *)

NotYetDispatched == {"dispatching", "creating"}
AwaitingTask == {"polling", "unwinding", "aborting"}
Finishing == {"sweeping", "settling"}
Over == {"leaving", "gone"}

\* What the place of a worker says about its Run row, its task row and the
\* outcome it carries.
WorkerInv(r) ==
  /\ worker[r].pc = "none" <=> runs[r].status = "absent"
  /\ worker[r].pc \in {"created", "ready"} => runs[r].status = "queued"
  /\ worker[r].pc \in NotYetDispatched \cup AwaitingTask \cup Finishing \cup {"local"}
       => runs[r].status = "running"
  /\ worker[r].pc \in Over => runs[r].status \in Terminal
  /\ worker[r].pc \in AwaitingTask => tasks[r].status # "absent"
  /\ worker[r].pc \in {"none", "created", "ready", "local"} \cup NotYetDispatched
       => tasks[r].status = "absent" /\ worker[r].outcome = "none"
  /\ worker[r].pc = "polling" => worker[r].outcome = "none"
  /\ worker[r].pc \in {"unwinding", "aborting"} => worker[r].outcome \notin {"none", "completed"}
  /\ worker[r].pc \in Finishing => worker[r].outcome # "none"
  /\ worker[r].pc \in Finishing \cup Over => tasks[r].status \notin Active
  /\ worker[r].pc \in Finishing /\ worker[r].outcome = "completed" /\ runs[r].target \in Agents
       => tasks[r].status = "completed"
  /\ worker[r].pc = "local" => runs[r].target \in Hosts
  /\ worker[r].pc \in {"creating"} \cup AwaitingTask => runs[r].target \in Agents

\* A task row belongs to the Run it is named for and to that Run's target.
TaskInv(r) ==
  /\ runs[r].status # "absent" => runs[r].target \in Targets
  /\ tasks[r].status # "absent" =>
       tasks[r].run = r /\ tasks[r].agent = runs[r].target /\ runs[r].target \in Agents

\* Admission lets one open Run at a time onto a target.
AdmissionInv ==
  \A r, s \in Runs :
    runs[r].status \in Open /\ runs[s].status \in Open /\ runs[r].target = runs[s].target
      => r = s

\* Requests and Agents in progress name an existing task.
ReferenceInv ==
  /\ \A h \in Handlers : handler[h].pc # "idle" => handler[h].task \in Runs
  /\ \A a \in Agents :
       /\ agents[a].mode \in {"busy", "posting"} => agents[a].task \in Runs
       /\ agents[a].mode = "posting" => agents[a].status \in Terminal

ControlInv ==
  TypeOK /\ (\A r \in Runs : WorkerInv(r) /\ TaskInv(r)) /\ AdmissionInv /\ ReferenceInv

-----------------------------------------------------------------------------
(* Refinement: what a Run's work is in the eyes of RunLedger.               *)

WorkOf(r) ==
  IF runs[r].target \in Hosts
  THEN CASE worker[r].pc = "local"          -> "held"
         [] worker[r].outcome = "completed" -> "delivered"
         [] worker[r].outcome = "none" /\ worker[r].pc # "local" -> "none"
         [] OTHER -> "dropped"
  ELSE CASE tasks[r].status = "absent"      -> "none"
         [] tasks[r].status \in Active      -> "held"
         [] tasks[r].status = "completed"   -> "delivered"
         [] OTHER -> "dropped"

Ledger == INSTANCE RunLedger WITH
            NoTarget <- NoAgent,
            status <- [r \in Runs |-> runs[r].status],
            target <- [r \in Runs |-> runs[r].target],
            work <- [r \in Runs |-> WorkOf(r)]

\* Every behaviour of the Controller and its Agents is one the ledger allows:
\* statuses only move forward, a target is held by one Run and released before
\* that Run settles, and a completed Run was delivered by its own task.
ImplementsLedger == Ledger!LedgerSpec

-----------------------------------------------------------------------------
(* Liveness.  Threads of the Controller are scheduled; the Run timeout      *)
(* (30..43200 seconds) expires; an Agent polls every second and stops its   *)
(* child at the next checkpoint; a posted result is answered some day.  No  *)
(* fairness makes a benchmark finish, an operator act, an Agent claim, or a *)
(* process survive.                                                         *)

Fairness ==
  /\ \A r \in Runs :
       /\ WF_vars(WorkerMoves(r))
       /\ WF_vars(PollExpired(r))
       /\ WF_vars(LocalStop(r))
       /\ WF_vars(CancelMoves(r))
  /\ \A h \in Handlers : WF_vars(HandlerMoves(h))
  /\ \A a \in Agents :
       /\ WF_vars(ProgressRefused(a))
       /\ WF_vars(agents[a].stop /\ Conclude(a))
       /\ WF_vars(PostResult(a))

FairSpec == Spec /\ Fairness

\* Every admitted Run ends, whatever was lost: the claim, the result, the
\* Agent itself, or the cancellation that found no token.
EveryRunEnds ==
  \A r \in Runs : runs[r].status \in Open ~> runs[r].status \in Terminal

\* The load stops after its Run has ended: an Agent that still executes a task
\* whose Run was cancelled, timed out or interrupted is told so, and leaves.
LoadStopsAfterRun ==
  \A r \in Runs, a \in Agents :
    (runs[r].status \in Terminal /\ agents[a].mode = "busy" /\ agents[a].task = r)
      ~> ~(agents[a].mode = "busy" /\ agents[a].task = r)

\* A recorded completion never blocks its Agent for good: it is posted until
\* the Controller has closed the row, also when a cancellation, a heartbeat
\* gap or a restart closed it first.
ResultIsAcknowledged ==
  \A a \in Agents : agents[a].mode = "posting" ~> agents[a].mode # "posting"

-----------------------------------------------------------------------------
(* What the documentation says, and the code does not guarantee.            *)

\* docs/ARCHITECTURE.md:316, "immutable request and result payloads": the
\* stored result of a terminal Run never changes again.
TerminalRunIsImmutable ==
  [][\A r \in Runs : runs[r].status \in Terminal => runs'[r] = runs[r]]_vars
=============================================================================

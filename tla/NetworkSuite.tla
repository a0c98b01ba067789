---------------------------- MODULE NetworkSuite ----------------------------
(***************************************************************************)
(* A Run of the network suite: run_network measures between the two Agents *)
(* of a session in both directions.  A throughput measurement is three     *)
(* tasks: a one-off iperf3 server is started on the receiver, a client on  *)
(* the sender connects to it, and the receiver collects what its server    *)
(* saw.  Nothing is cleaned up when a Run fails, no task of it can be      *)
(* stopped once it is claimed, and two network Runs of one session may be  *)
(* admitted together; the ports, the server's exit status and its deadline *)
(* are what keeps measurements apart.                                      *)
(***************************************************************************)
EXTENDS Integers, Sequences, FiniteSets

CONSTANTS
  Runs,         \* network Runs of one session that can be submitted
  Profile,      \* what is measured, see below
  Directions,   \* the (sender, receiver) pairs it is measured in
  PortCount,    \* ALLOWED_PORT_MAX - ALLOWED_PORT_MIN + 1
  Cancellable,  \* bound: Runs the operator may ask to cancel
  MaxRestarts,  \* bound: Controller restarts in one behaviour
  NoRun

ASSUME NetworkAssumption ==
  /\ IsFiniteSet(Runs) /\ NoRun \notin Runs
  /\ Profile \in [path : BOOLEAN, latency : BOOLEAN, post : BOOLEAN, bidirectional : BOOLEAN,
                  streams : Nat \ {0}, rates : Nat]
  /\ Directions \in Seq([sender : {"target", "generator"}, receiver : {"target", "generator"}])
  /\ \A d \in 1..Len(Directions) : Directions[d].sender # Directions[d].receiver
  /\ Directions # <<>>
  /\ PortCount \in Nat \ {0} /\ MaxRestarts \in Nat

Agents == {"target", "generator"}
NoAgent == "none"

-----------------------------------------------------------------------------
(* The plan of run_network: the tasks it creates, in order.                 *)

Ways == Len(Directions)

Step(kind, agent, port) == [kind |-> kind, agent |-> agent, port |-> port]

\* _path_measurement and _latency_measurement: one task of the sender.
Probes(on) ==
  IF on THEN [d \in 1..Ways |-> Step("probe", Directions[d].sender, 0)] ELSE <<>>

\* _measurement: the port rotates with the index of the measurement.
Measurement(d, index) ==
  LET port == index % PortCount IN
  << Step("server-start", d.receiver, port), Step("client", d.sender, port),
     Step("server-collect", d.receiver, port) >>

\* n measurements in each direction, numbered from index.
EachWay(n, index) ==
  [i \in 1..(3 * n * Ways) |->
     LET k == (i - 1) \div 3 IN
     Measurement(Directions[(k \div n) + 1], index + k)[((i - 1) % 3) + 1]]

Steps ==
  LET tcp == Profile.streams
      udp == Profile.rates
  IN Probes(Profile.path) \o Probes(Profile.latency)
       \o EachWay(tcp, 0)
       \o EachWay(udp, Ways * tcp)
       \o (IF Profile.bidirectional THEN Measurement(Directions[1], Ways * (tcp + udp)) ELSE <<>>)
       \o Probes(Profile.post)

Last == Len(Steps)
TaskIds == Runs \X (1..Last)
NoTask == <<NoRun, 0>>
Evidence == 0..2
Own == 1      \* measured between the client and the server of one measurement
Foreign == 2

VARIABLES
  runs,       \* the rows of the runs table
  tasks,      \* the rows of agent_tasks
  worker,     \* per Run: the thread of _execute_run
  cancelled,  \* Runs whose CancellationToken is set
  canceller,  \* per Run: where an operator's cancel_run call stands
  agents,     \* the worker processes of the two Agents
  servers,    \* per server-start task: its iperf3 process
  tracked,    \* active_servers: server processes their Agent knows of
  restarts

vars == <<runs, tasks, worker, cancelled, canceller, agents, servers, tracked, restarts>>

INSTANCE AgentTasks

StepOf(t) == Steps[t[2]]
Open == Active

Worker == [pc : {"none", "created", "reporting", "creating", "waiting", "completing",
                 "sweeping", "settling", "gone"},
           step : 1..(Last + 1), outcome : {"none", "completed", "failed", "cancelled"}]

Agent == [mode : {"idle", "busy", "posting", "dead"}, task : TaskIds \cup {NoTask},
          peer : TaskIds \cup {NoTask},   \* the server its client is connected to
          status : Terminal \cup {"none"}, result : Evidence]

\* One iperf3 --server --one-off process; client is the task it has served.
Server == [state : {"none", "listening", "serving", "served", "failed"},
           client : TaskIds \cup {NoTask}]

NoServer == [state |-> "none", client |-> NoTask]
IdleAgent == [mode |-> "idle", task |-> NoTask, peer |-> NoTask, status |-> "none", result |-> 0]

Init ==
  /\ runs = [r \in Runs |-> [status |-> "absent", cancel |-> FALSE]]
  /\ TasksInit
  /\ worker = [r \in Runs |-> [pc |-> "none", step |-> 1, outcome |-> "none"]]
  /\ cancelled = {}
  /\ canceller = [r \in Runs |-> "idle"]
  /\ agents = [a \in Agents |-> IdleAgent]
  /\ servers = [t \in TaskIds |-> NoServer]
  /\ tracked = {}
  /\ restarts = 0

-----------------------------------------------------------------------------
(* Admission and the start of the thread.                                   *)

\* No active task on either Agent.  The list of conflicting suites does not
\* hold network itself, so another open network Run is no obstacle.
Submit(r) ==
  /\ worker[r].pc = "none"
  /\ \A a \in Agents : ~HasActiveAgentTask(a)
  /\ runs' = [runs EXCEPT ![r].status = "queued"]
  /\ worker' = [worker EXCEPT ![r].pc = "created"]
  /\ UNCHANGED <<tasks, cancelled, canceller, agents, servers, tracked, restarts>>

\* The token is registered, and the thread runs.
StartThread(r) ==
  /\ worker[r].pc = "created"
  /\ runs' = [runs EXCEPT ![r].status = "running"]
  /\ worker' = [worker EXCEPT ![r].pc = "reporting"]
  /\ UNCHANGED <<tasks, cancelled, canceller, agents, servers, tracked, restarts>>

Registered(r) == worker[r].pc \notin {"none", "created", "gone"}

-----------------------------------------------------------------------------
(* run_network.                                                             *)

WorkerStep(r, next) ==
  /\ worker' = [worker EXCEPT ![r] = next]
  /\ UNCHANGED <<canceller, agents, servers, tracked, restarts>>

At(r, pc, step) == [worker[r] EXCEPT !.pc = pc, !.step = step]
EndsAs(r, outcome) == [worker[r] EXCEPT !.pc = "sweeping", !.outcome = outcome]
Current(r) == <<r, worker[r].step>>

\* Only a collection is created without a report before it.
Before(i) ==
  IF i <= Last /\ Steps[i].kind = "server-collect" THEN "creating" ELSE "reporting"

\* report() and complete_step(): checkpoint, then on_progress, which reads the
\* durable cancel flag into the token.
Report(r) ==
  LET i == worker[r].step IN
  /\ worker[r].pc \in {"reporting", "completing"} /\ r \notin cancelled
  /\ cancelled' = IF runs[r].cancel THEN cancelled \cup {r} ELSE cancelled
  /\ WorkerStep(r, IF i > Last THEN EndsAs(r, "completed")
                   ELSE At(r, IF worker[r].pc = "completing" THEN Before(i) ELSE "creating", i))
  /\ UNCHANGED <<runs, tasks>>

CreateTask(r) ==
  /\ worker[r].pc = "creating"
  /\ CreateAgentTask(Current(r), r, StepOf(Current(r)).agent, FALSE)
  /\ WorkerStep(r, At(r, "waiting", worker[r].step))
  /\ UNCHANGED <<runs, cancelled>>

\* Mutant of Awaited: a task that is closed is taken for a completed one.
AwaitedClosed(r) ==
  LET i == worker[r].step IN
  /\ worker[r].pc = "waiting" /\ tasks[Current(r)].status \notin Active
  /\ WorkerStep(r, At(r, IF Steps[i].kind \in {"probe", "server-collect"} THEN "completing"
                         ELSE Before(i + 1), i + 1))
  /\ UNCHANGED <<runs, tasks, cancelled>>

\* The last task of a measurement completes a step of the Run.
Awaited(r) ==
  LET i == worker[r].step IN
  /\ worker[r].pc = "waiting" /\ tasks[Current(r)].status = "completed"
  /\ WorkerStep(r, At(r, IF Steps[i].kind \in {"probe", "server-collect"} THEN "completing"
                         ELSE Before(i + 1), i + 1))
  /\ UNCHANGED <<runs, tasks, cancelled>>

\* NetworkError: the task failed, its evidence has the wrong form, or no TCP
\* baseline is left to derive a UDP rate from.
MeasurementFailed(r) ==
  /\ worker[r].pc = "waiting" /\ tasks[Current(r)].status \in {"failed", "completed"}
  /\ WorkerStep(r, EndsAs(r, "failed"))
  /\ UNCHANGED <<runs, tasks, cancelled>>

\* Mutant of WaitTimedOut: only a task that was claimed can take too long.
WaitTimedOutOnceClaimed(r) ==
  /\ worker[r].pc = "waiting" /\ tasks[Current(r)].status = "running"
  /\ WorkerStep(r, EndsAs(r, "failed"))
  /\ UNCHANGED <<runs, tasks, cancelled>>

\* _wait_task knows completed and failed; on any other status, cancelled too,
\* it goes on until its seconds are over.
WaitTimedOut(r) ==
  /\ worker[r].pc = "waiting" /\ tasks[Current(r)].status \notin {"failed", "completed"}
  /\ WorkerStep(r, EndsAs(r, "failed"))
  /\ UNCHANGED <<runs, tasks, cancelled>>

Checkpoints(r) == worker[r].pc \in {"reporting", "waiting", "completing"}

StopCancelled(r) ==
  /\ Checkpoints(r) /\ r \in cancelled
  /\ WorkerStep(r, EndsAs(r, "cancelled"))
  /\ UNCHANGED <<runs, tasks, cancelled>>

\* Mutant of StopTimedOut: the Run keeps the name of the exception.
StopTimedOutAsSuch(r) ==
  /\ Checkpoints(r)
  /\ WorkerStep(r, EndsAs(r, "timed-out"))
  /\ UNCHANGED <<runs, tasks, cancelled>>

StopTimedOut(r) ==
  /\ Checkpoints(r)
  /\ WorkerStep(r, EndsAs(r, "failed"))
  /\ UNCHANGED <<runs, tasks, cancelled>>

\* finish_run takes back the queued tasks; a claimed one is left to its Agent.
Sweep(r) ==
  /\ worker[r].pc = "sweeping"
  /\ CancelQueuedRunTasks(r)
  /\ WorkerStep(r, At(r, "settling", worker[r].step))
  /\ UNCHANGED <<runs, cancelled>>

Settle(r) ==
  /\ worker[r].pc = "settling"
  /\ runs' = [runs EXCEPT ![r].status = worker[r].outcome]
  /\ cancelled' = cancelled \ {r}
  /\ WorkerStep(r, At(r, "gone", worker[r].step))
  /\ UNCHANGED tasks

-----------------------------------------------------------------------------
(* cancel_run: check, flag, sweep, token.                                   *)

CancelStep(r, from, to) ==
  /\ canceller[r] = from
  /\ canceller' = [canceller EXCEPT ![r] = to]
  /\ UNCHANGED <<worker, agents, servers, tracked, restarts>>

RequestCancel(r) ==
  /\ r \in Cancellable /\ runs[r].status \in Open
  /\ CancelStep(r, "idle", "flagged")
  /\ runs' = [runs EXCEPT ![r].cancel = TRUE]
  /\ UNCHANGED <<tasks, cancelled>>

CancelQueued(r) ==
  /\ CancelStep(r, "flagged", "swept")
  /\ CancelQueuedRunTasks(r)
  /\ UNCHANGED <<runs, cancelled>>

CancelToken(r) ==
  /\ CancelStep(r, "swept", "done")
  /\ cancelled' = IF Registered(r) THEN cancelled \cup {r} ELSE cancelled
  /\ UNCHANGED <<runs, tasks>>

-----------------------------------------------------------------------------
(* The Agents.                                                              *)

AgentStep(a, next) ==
  /\ agents' = [agents EXCEPT ![a] = next]
  /\ UNCHANGED <<runs, worker, cancelled, canceller, restarts>>

\* tasks/next answers with the oldest queued task, or its answer is lost.
Claim(a, t) ==
  /\ agents[a].mode = "idle"
  /\ ClaimAgentTask(a, t)
  /\ \/ AgentStep(a, [IdleAgent EXCEPT !.mode = "busy", !.task = t])
     \/ AgentStep(a, agents[a])
  /\ UNCHANGED <<servers, tracked>>

Executes(a, kind) == agents[a].mode = "busy" /\ StepOf(agents[a].task).kind = kind

Ends(a, status, result) ==
  /\ AgentStep(a, [agents[a] EXCEPT !.mode = "posting", !.peer = NoTask,
                                    !.status = status, !.result = result])
  /\ UNCHANGED tasks

Live(u) == servers[u].state \in {"listening", "serving"}

\* Servers on an Agent that hold the port of a step.
Holding(a, port) ==
  {u \in TaskIds : Live(u) /\ StepOf(u).agent = a /\ StepOf(u).port = port}

\* _start_server: the process counts as ready when it is alive after 0.15
\* seconds.  One that cannot bind its port has left by then, or leaves later
\* and is taken for ready.
StartServer(a) ==
  LET t == agents[a].task
      bound == Holding(a, StepOf(t).port) = {}
  IN /\ Executes(a, "server-start")
     /\ servers' = [servers EXCEPT ![t].state = IF bound THEN "listening" ELSE "failed"]
     /\ tracked' = tracked \cup {t}
     /\ Ends(a, "completed", Own)

\* The iperf3 client reaches whatever listens on the port of its peer.
Connect(a, u) ==
  /\ Executes(a, "client") /\ agents[a].peer = NoTask
  /\ servers[u].state = "listening"
  /\ StepOf(u).agent # a /\ StepOf(u).port = StepOf(agents[a].task).port
  /\ servers' = [servers EXCEPT ![u].state = "serving"]
  /\ AgentStep(a, [agents[a] EXCEPT !.peer = u])
  /\ UNCHANGED <<tasks, tracked>>

\* The server started by the task before a client's, or before the client a
\* collection is for.
ServerFor(t) == <<t[1], IF StepOf(t).kind = "client" THEN t[2] - 1 ELSE t[2] - 2>>
ClientFor(t) == <<t[1], t[2] - 1>>

FinishClient(a) ==
  LET t == agents[a].task
      u == agents[a].peer
  IN /\ Executes(a, "client") /\ u # NoTask
     /\ servers[u].state = "serving"
     /\ servers' = [servers EXCEPT ![u] = [state |-> "served", client |-> t]]
     /\ Ends(a, "completed", IF u = ServerFor(t) THEN Own ELSE Foreign)
     /\ UNCHANGED tracked

\* Mutant of CollectServer: the exit status of the server is not looked at.
CollectAnyServer(a) ==
  LET t == agents[a].task
      u == ServerFor(t)
  IN /\ Executes(a, "server-collect") /\ u \in tracked
     /\ tracked' = tracked \ {u}
     /\ Ends(a, "completed", IF servers[u].client = ClientFor(t) THEN Own ELSE Foreign)
     /\ servers' = [servers EXCEPT ![u] = NoServer]

\* _collect_server: the server has to be known, to end within its seconds, to
\* have exited well and to have printed a valid report; otherwise it is killed,
\* or has ended, and the task fails.
CollectServer(a) ==
  LET t == agents[a].task
      u == ServerFor(t)
  IN /\ Executes(a, "server-collect") /\ u \in tracked
     /\ tracked' = tracked \ {u}
     /\ servers' = [servers EXCEPT ![u] = NoServer]
     /\ \/ /\ servers[u].state = "served"
           /\ Ends(a, "completed", IF servers[u].client = ClientFor(t) THEN Own ELSE Foreign)
        \/ Ends(a, "failed", 0)

\* A path probe or a latency measurement: nothing outlives the task.
RunProbe(a) ==
  /\ Executes(a, "probe")
  /\ Ends(a, "completed", Own)
  /\ UNCHANGED <<servers, tracked>>

\* Its own checks, its tools, its guarded timeout; the server of a client that
\* breaks off exits with an error.
TaskFails(a) ==
  /\ agents[a].mode = "busy" /\ ~(Executes(a, "server-collect") /\ ServerFor(agents[a].task) \in tracked)
  /\ servers' = [u \in TaskIds |-> IF u = agents[a].peer /\ Live(u)
                                   THEN [servers[u] EXCEPT !.state = "failed"] ELSE servers[u]]
  /\ Ends(a, "failed", 0)
  /\ UNCHANGED tracked

\* Kept for another attempt unless the answer says that the row is closed.
PostResult(a) ==
  /\ agents[a].mode = "posting"
  /\ FinishAgentTask(agents[a].task, a, agents[a].status, agents[a].result)
  /\ AgentStep(a, IF FinishAccepted(agents[a].task, a) THEN IdleAgent ELSE agents[a])
  /\ UNCHANGED <<servers, tracked>>

PostResultUnanswered(a) ==
  /\ agents[a].mode = "posting"
  /\ FinishAgentTask(agents[a].task, a, agents[a].status, agents[a].result)
  /\ AgentStep(a, agents[a])
  /\ UNCHANGED <<servers, tracked>>

Between(a) == agents[a].mode \in {"idle", "posting"}

\* Mutant of ServerExpires: a server that has a client is left alone.
ServerExpiresUnused(u) ==
  /\ u \in tracked /\ Between(StepOf(u).agent) /\ servers[u].state # "listening"
  /\ servers' = [servers EXCEPT ![u] = NoServer]
  /\ tracked' = tracked \ {u}
  /\ UNCHANGED <<runs, tasks, worker, cancelled, canceller, agents, restarts>>

\* _cleanup_expired: the deadline has passed.  Contact with the Controller
\* plays no part for these servers.
ServerExpires(u) ==
  /\ u \in tracked /\ Between(StepOf(u).agent)
  /\ servers' = [servers EXCEPT ![u] = NoServer]
  /\ tracked' = tracked \ {u}
  /\ UNCHANGED <<runs, tasks, worker, cancelled, canceller, agents, restarts>>

\* The worker process ends: run_forever kills its servers on the way out, or
\* the process was killed and they run on without it.  Its client breaks off.
AgentCrash(a) ==
  LET own == {u \in tracked : StepOf(u).agent = a} IN
  /\ agents[a].mode # "dead"
  /\ \E killed \in {{}, own} :
       servers' = [u \in TaskIds |->
         IF u \in killed \/ (u \in own /\ ~Live(u)) THEN NoServer
         ELSE IF u = agents[a].peer /\ Live(u) THEN [servers[u] EXCEPT !.state = "failed"]
         ELSE servers[u]]
  /\ tracked' = tracked \ own
  /\ AgentStep(a, [IdleAgent EXCEPT !.mode = "dead"])
  /\ UNCHANGED tasks

ControllerRestart ==
  /\ restarts < MaxRestarts
  /\ restarts' = restarts + 1
  /\ runs' = [r \in Runs |->
       IF runs[r].status \in Open THEN [runs[r] EXCEPT !.status = "failed"] ELSE runs[r]]
  /\ RecoverTasks
  /\ worker' = [r \in Runs |-> IF worker[r].pc \in {"none", "gone"} THEN worker[r]
                               ELSE [worker[r] EXCEPT !.pc = "gone", !.outcome = "none"]]
  /\ cancelled' = {}
  /\ canceller' = [r \in Runs |-> IF canceller[r] = "idle" THEN "idle" ELSE "done"]
  /\ UNCHANGED <<agents, servers, tracked>>

-----------------------------------------------------------------------------
WorkerMoves(r) ==
  \/ StartThread(r) \/ Report(r) \/ CreateTask(r)
  \/ Awaited(r) \/ MeasurementFailed(r) \/ WaitTimedOut(r) \/ StopCancelled(r)
  \/ Sweep(r) \/ Settle(r)

CancelMoves(r) == CancelQueued(r) \/ CancelToken(r)

TaskEnds(a) ==
  \/ StartServer(a) \/ FinishClient(a) \/ CollectServer(a) \/ RunProbe(a) \/ TaskFails(a)

Next ==
  \/ \E r \in Runs :
       Submit(r) \/ WorkerMoves(r) \/ StopTimedOut(r) \/ RequestCancel(r) \/ CancelMoves(r)
  \/ \E a \in Agents :
       \/ TaskEnds(a) \/ PostResult(a) \/ PostResultUnanswered(a) \/ AgentCrash(a)
       \/ \E t \in TaskIds : Claim(a, t) \/ Connect(a, t)
  \/ \E u \in TaskIds : ServerExpires(u)
  \/ ControllerRestart

Spec == Init /\ [][Next]_vars

\* Threads run, waits and guarded tasks end after their seconds, an Agent that
\* is alive gets round to _cleanup_expired, and a result is answered some day.
Fairness ==
  /\ \A r \in Runs : WF_vars(WorkerMoves(r)) /\ WF_vars(CancelMoves(r))
  /\ \A a \in Agents : WF_vars(TaskEnds(a)) /\ WF_vars(PostResult(a))
  /\ \A u \in TaskIds : WF_vars(ServerExpires(u))

FairSpec == Spec /\ Fairness

-----------------------------------------------------------------------------
TypeOK ==
  /\ runs \in [Runs -> [status : {"absent"} \cup Open \cup Terminal, cancel : BOOLEAN]]
  /\ TasksTypeOK
  /\ worker \in [Runs -> Worker]
  /\ cancelled \subseteq Runs
  /\ canceller \in [Runs -> {"idle", "flagged", "swept", "done"}]
  /\ agents \in [Agents -> Agent]
  /\ servers \in [TaskIds -> Server]
  /\ tracked \subseteq TaskIds
  /\ restarts \in 0..MaxRestarts

Collected == {t \in TaskIds : StepOf(t).kind = "server-collect" /\ tasks[t].status = "completed"}
Admitted == {r \in Runs : worker[r].pc # "none"}

\* The two ends of a collected measurement agree: either its client talked to
\* its own server, or both talked to strangers.  The latter takes at least three
\* network Runs; no two can do it, whatever servers and clients they leave on
\* the same ports.
EvidencePaired ==
  \A t \in Collected :
    /\ tasks[t].result = tasks[ClientFor(t)].result
    /\ tasks[t].result = Foreign => \A p, q \in Runs : \E r \in Admitted : r \notin {p, q}

\* What docs/NETWORK_METHODOLOGY.md:195 says: "only one saturation suite may target
\* an Agent at a time."  All Runs here are of one session, so of the same Agents.
OneSaturationSuite ==
  \A p, q \in Runs : runs[p].status = "running" /\ runs[q].status = "running" => p = q

\* A completed Run has no task left that anybody could still execute, and no
\* iperf3 server of it is alive.
CompletedRunLeftNothing ==
  \A t \in TaskIds : runs[t[1]].status = "completed" =>
    tasks[t].status = "completed" /\ ~Live(t) /\ t \notin tracked

\* Every network Run ends, although a wait does not notice that its task was
\* cancelled and no Agent can be told to stop.
EveryRunEnds ==
  \A r \in Runs : runs[r].status \in Open ~> runs[r].status \in Terminal

\* A server nobody collects, of a failed or cancelled measurement, does not
\* hold its port for ever while its Agent is alive.
ServerEventuallyGone ==
  \A t \in TaskIds : Live(t) ~> (~Live(t) \/ agents[StepOf(t).agent].mode = "dead")
=============================================================================

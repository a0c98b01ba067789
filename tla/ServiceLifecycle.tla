-------------------------- MODULE ServiceLifecycle --------------------------
(***************************************************************************)
(* The paired services on the host of one Agent: what its worker process   *)
(* does for a start task, stage by stage, for a stop task, for the         *)
(* PostgreSQL recovery drill, in its watchdog and on the way out of        *)
(* run_forever.  The processes and directories belong to the host: they    *)
(* outlive a worker that is killed, and a worker that takes its place      *)
(* knows nothing of them.                                                  *)
(***************************************************************************)
EXTENDS Integers, Sequences, FiniteSets

CONSTANTS
  Tasks,       \* the start tasks the Agents of this host can receive
  Assignments, \* the engines they can be for
  MaxFaults,   \* bound: removals of a directory that fail
  MaxWorkers,  \* bound: worker processes that follow the first
  NoTask

Engines == {"postgresql", "redis", "mysql", "web"}

ASSUME ServiceAssumption ==
  /\ IsFiniteSet(Tasks) /\ NoTask \notin Tasks
  /\ Assignments \subseteq [Tasks -> Engines]
  /\ MaxFaults \in Nat /\ MaxWorkers \in Nat

VARIABLES
  engineOf,  \* the engine each of them is for
  up,        \* a worker process runs
  job,       \* the start it is executing, and at which stage
  active,    \* services in the dictionaries of the worker
  mine,      \* start tasks of the worker that is up
  procs,     \* per service: its processes on the host
  dirs,      \* services whose directory is in the workspace
  start,     \* per service: the answer to its start task
  stop,      \* per service: the answer to its stop task
  observed,  \* per service: the services its readiness probes reached
  drill,     \* the recovery drill of a PostgreSQL service
  orphaned,  \* services whose processes survived their worker
  abandoned, \* services whose start failed and left a process that nobody holds
  faults,
  workers

vars == <<engineOf, up, job, active, mine, procs, dirs, start, stop, observed, drill, orphaned,
          abandoned, faults, workers>>

-----------------------------------------------------------------------------
(* The stages of a start after its checks have made the directory.  A      *)
(* child is a guarded process that is waited for; a command is not guarded *)
(* by contact with the Controller.                                         *)

PostgresqlStages == <<"tools", "child", "server", "ready", "child", "register">>

\* The server is launched, and its client looked up, before the try.
RedisStages == <<"tools", "launch", "client", "ready", "register">>

\* The server first runs without a network, to set up its accounts.
MySQLStages ==
  << "tools", "child", "server", "bootstrapped", "command", "stop", "server", "ready",
     "command", "register" >>

\* Certificate and configuration test, the bundled application, then Nginx.
WebStages ==
  << "tools", "child", "child", "application", "application ready", "server", "ready",
     "register" >>

Stages(t) ==
  CASE engineOf[t] = "postgresql" -> PostgresqlStages
    [] engineOf[t] = "redis" -> RedisStages
    [] engineOf[t] = "mysql" -> MySQLStages
    [] engineOf[t] = "web" -> WebStages

\* A readiness probe asks whether somebody listens, and only Redis and MySQL
\* tell their own server from another one.
ProbesAnyone(t) == engineOf[t] \in {"postgresql", "web"}

\* _run_database_recovery, after its directory is made.
DrillStages ==
  << "tools", "source-row-counts", "logical-backup", "create-restore-database",
     "logical-restore", "restored-row-counts" >>

Idle == [task |-> NoTask, at |-> 0]
NoDrill == [task |-> NoTask, at |-> 0, dump |-> FALSE, restored |-> FALSE, known |-> FALSE,
            answer |-> "none"]

Init ==
  /\ engineOf \in Assignments
  /\ up = TRUE
  /\ job = Idle
  /\ active = {} /\ mine = {} /\ dirs = {} /\ orphaned = {} /\ abandoned = {}
  /\ procs = [t \in Tasks |-> {}]
  /\ start = [t \in Tasks |-> "none"]
  /\ stop = [t \in Tasks |-> "none"]
  /\ observed = [t \in Tasks |-> {}]
  /\ drill = NoDrill
  /\ faults = 0 /\ workers = 0

Free == up /\ job = Idle /\ drill.at = 0

\* Whether the directory of t is gone afterwards; what is inside goes with it.
Removal(t, ok) ==
  /\ faults' = IF ok \/ t \notin dirs THEN faults ELSE faults + 1
  /\ faults' <= MaxFaults
  /\ dirs' = IF ok THEN dirs \ {t} ELSE dirs
  /\ drill' = IF ok /\ drill.task = t
              THEN [drill EXCEPT !.at = 0, !.dump = FALSE, !.restored = FALSE] ELSE drill

Ends(t, processes, answer) ==
  /\ procs' = [procs EXCEPT ![t] = processes]
  /\ start' = [start EXCEPT ![t] = answer]

-----------------------------------------------------------------------------
(* A start task.                                                            *)

\* Mutant of NoResidue: every engine looks for the directory of the task only.
NoResidueOfTask(t) == t \notin dirs

\* Any directory below the root of its engine is residue; Redis looks for the
\* one of the task.
NoResidue(t) ==
  IF engineOf[t] = "redis" THEN t \notin dirs
  ELSE \A u \in dirs : engineOf[u] # engineOf[t]

\* Mutant of Admits: a start looks at the services of its own engine.
AdmitsBesideOthers(t) == (\A u \in active : engineOf[u] # engineOf[t]) /\ NoResidue(t)

\* None of the four dictionaries holds a service.
Admits(t) == active = {} /\ NoResidue(t)

Received(t) == Free /\ start[t] = "none" /\ mine' = mine \cup {t}

BeginStart(t) ==
  /\ Received(t)
  /\ Admits(t)
  /\ dirs' = dirs \cup {t}
  /\ job' = [task |-> t, at |-> 1]
  /\ start' = [start EXCEPT ![t] = "busy"]
  /\ UNCHANGED <<engineOf, up, active, procs, stop, observed, drill, orphaned, abandoned, faults, workers>>

\* One of the checks before the directory is made.
RefuseStart(t) ==
  /\ Received(t)
  /\ start' = [start EXCEPT ![t] = "failed"]
  /\ UNCHANGED <<engineOf, up, job, active, procs, dirs, stop, observed, drill, orphaned, abandoned, faults, workers>>

\* The answer to tasks/next was lost: nobody executes the task.
LoseStart(t) ==
  /\ Received(t)
  /\ start' = [start EXCEPT ![t] = "lost"]
  /\ UNCHANGED <<engineOf, up, job, active, procs, dirs, stop, observed, drill, orphaned, abandoned, faults, workers>>

Executing(t) == up /\ job.task = t
Stage == Stages(job.task)[job.at]

\* The try whose handler terminates the processes has not been entered.
BeforeTry == Stage \in {"tools", "launch", "client"}

\* Services of the same engine whose process of a kind holds the port.
Holding(t, process) ==
  {u \in Tasks \ {t} : engineOf[u] = engineOf[t] /\ process \in procs[u]}

Advance(t) ==
  /\ job' = [job EXCEPT !.at = @ + 1]
  /\ UNCHANGED <<engineOf, up, active, mine, dirs, start, stop, drill, orphaned, abandoned, faults, workers>>

\* Tools found, a child or a command that ended well.
StagePasses(t) ==
  /\ Executing(t) /\ Stage \in {"tools", "client", "child", "command"}
  /\ Advance(t)
  /\ UNCHANGED <<procs, observed>>

\* A server whose port is taken ends by itself; its bootstrap needs none.
Spawn(t) ==
  LET process == IF Stage = "application" THEN "application" ELSE "server"
      taken == Holding(t, process) # {} /\ Stages(t)[job.at + 1] # "bootstrapped"
  IN /\ Executing(t) /\ Stage \in {"launch", "server", "application"}
     /\ Advance(t)
     /\ procs' = IF taken THEN procs ELSE [procs EXCEPT ![t] = @ \cup {process}]
     /\ UNCHANGED observed

\* A probe that succeeds was answered by whoever holds the port.
BecomeReady(t) ==
  LET process == IF Stage = "application ready" THEN "application" ELSE "server"
      reached == IF process \in procs[t] THEN {t}
                 ELSE IF ProbesAnyone(t) THEN Holding(t, process) ELSE {}
  IN /\ Executing(t) /\ Stage \in {"ready", "bootstrapped", "application ready"}
     /\ reached # {}
     /\ Advance(t)
     /\ observed' = [observed EXCEPT ![t] = @ \cup reached]
     /\ UNCHANGED procs

StopBootstrap(t) ==
  /\ Executing(t) /\ Stage = "stop"
  /\ Advance(t)
  /\ procs' = [procs EXCEPT ![t] = {}]
  /\ UNCHANGED observed

\* Mutant of Register: the start does not return.
RegisterAndGoOn(t) ==
  /\ Executing(t) /\ Stage = "register"
  /\ job' = [job EXCEPT !.at = @ + 1]
  /\ active' = active \cup {t}
  /\ start' = [start EXCEPT ![t] = "ready"]
  /\ UNCHANGED <<engineOf, up, mine, procs, dirs, stop, observed, drill, orphaned, abandoned, faults, workers>>

Register(t) ==
  /\ Executing(t) /\ Stage = "register"
  /\ job' = Idle
  /\ active' = active \cup {t}
  /\ start' = [start EXCEPT ![t] = "ready"]
  /\ UNCHANGED <<engineOf, up, mine, procs, dirs, stop, observed, drill, orphaned, abandoned, faults, workers>>

\* Nothing is terminated here: a Redis server that has been launched lives on,
\* in a directory that stays.  Of the tools, a missing redis-server and a MySQL
\* socket path that is too long clean up themselves.
FailBeforeTry(t) ==
  /\ Executing(t) /\ BeforeTry
  /\ \/ UNCHANGED <<dirs, faults, drill>>
     \/ /\ Stage = "tools" /\ engineOf[t] \in {"redis", "mysql"}
        /\ \E ok \in BOOLEAN : Removal(t, ok)
  /\ job' = Idle
  /\ up' \in BOOLEAN
  /\ Ends(t, procs[t], IF up' THEN "failed" ELSE "lost")
  /\ abandoned' = IF procs[t] = {} THEN abandoned ELSE abandoned \cup {t}
  /\ UNCHANGED <<engineOf, active, mine, stop, observed, orphaned, workers>>

\* Mutant of Unwind: the application process is not terminated.
UnwindServer(t) ==
  /\ Executing(t) /\ ~BeforeTry
  /\ job' = Idle
  /\ \E ok \in BOOLEAN :
       /\ Removal(t, ok)
       /\ \/ Ends(t, procs[t] \ {"server"}, "failed") /\ up' = up
          \/ /\ ok \/ engineOf[t] = "redis"
             /\ Ends(t, procs[t] \ {"server"}, "lost") /\ up' = FALSE
  /\ UNCHANGED <<engineOf, active, mine, stop, observed, orphaned, abandoned, workers>>

\* except BaseException: terminate, close, remove, raise.  once() answers the
\* exceptions it lists.  An interrupt, or the timeout of a probe or a command,
\* it does not list: run_forever is left.  A removal that fails puts an
\* OSError, which is listed, in their place, except that Redis ignores it.
Unwind(t) ==
  /\ Executing(t) /\ ~BeforeTry
  /\ job' = Idle
  /\ \E ok \in BOOLEAN :
       /\ Removal(t, ok)
       /\ \/ Ends(t, {}, "failed") /\ up' = up
          \/ /\ ok \/ engineOf[t] = "redis"
             /\ Ends(t, {}, "lost") /\ up' = FALSE
  /\ UNCHANGED <<engineOf, active, mine, stop, observed, orphaned, abandoned, workers>>

-----------------------------------------------------------------------------
(* A stop task, the watchdog, the way out.                                  *)

AskedToStop(t) ==
  /\ Free /\ t \in mine
  /\ start[t] \in {"ready", "failed", "lost"} /\ stop[t] = "none"

\* Terminated, then removed, then forgotten: a removal that fails leaves a
\* dead service registered.
StopActive(t) ==
  /\ AskedToStop(t) /\ t \in active
  /\ procs' = [procs EXCEPT ![t] = {}]
  /\ \E ok \in BOOLEAN :
       /\ Removal(t, ok)
       /\ active' = IF ok THEN active \ {t} ELSE active
       /\ stop' = [stop EXCEPT ![t] = IF ok THEN "verified" ELSE "failed"]
  /\ UNCHANGED <<engineOf, up, job, mine, start, observed, orphaned, abandoned, workers>>

\* Mutant of StopAbsent: nothing was active, so nothing can be left.
StopAbsentUnseen(t) ==
  /\ AskedToStop(t) /\ t \notin active
  /\ stop' = [stop EXCEPT ![t] = "verified"]
  /\ UNCHANGED <<engineOf, up, job, active, mine, procs, dirs, start, observed, drill, orphaned,
                 abandoned, faults, workers>>

StopAbsent(t) ==
  /\ AskedToStop(t) /\ t \notin active
  /\ stop' = [stop EXCEPT ![t] = IF t \in dirs THEN "unverified" ELSE "verified"]
  /\ UNCHANGED <<engineOf, up, job, active, mine, procs, dirs, start, observed, drill, orphaned,
                 abandoned, faults, workers>>

\* Mutant of Expires: only a service that a stop has failed for expires.
ExpiresOnceStopped(t) ==
  /\ Free /\ t \in active /\ stop[t] # "none"
  /\ procs' = [procs EXCEPT ![t] = {}]
  /\ \E ok \in BOOLEAN :
       /\ Removal(t, ok)
       /\ active' = active \ {t}
       /\ up' = ok
  /\ UNCHANGED <<engineOf, job, mine, start, stop, observed, orphaned, abandoned, workers>>

\* _cleanup_expired: the deadline or the contact with the Controller has run
\* out.  once() does not catch the OSError of a removal here, and run_forever
\* meets it again in its finally clause.
Expires(t) ==
  /\ Free /\ t \in active
  /\ procs' = [procs EXCEPT ![t] = {}]
  /\ \E ok \in BOOLEAN :
       /\ Removal(t, ok)
       /\ active' = active \ {t}
       /\ up' = ok
  /\ UNCHANGED <<engineOf, job, mine, start, stop, observed, orphaned, abandoned, workers>>

\* Interrupted between tasks: the finally clause of run_forever.
Interrupt ==
  /\ Free
  /\ up' = FALSE
  /\ active' = {}
  /\ procs' = [t \in Tasks |-> IF t \in active THEN {} ELSE procs[t]]
  /\ IF active = {} THEN UNCHANGED <<dirs, drill, faults>>
     ELSE \E t \in active, ok \in BOOLEAN : Removal(t, ok)
  /\ UNCHANGED <<engineOf, job, mine, start, stop, observed, orphaned, abandoned, workers>>

\* The worker is killed, alone or with the whole host.
Kill ==
  /\ up
  /\ up' = FALSE
  /\ job' = Idle
  /\ active' = {}
  /\ start' = [t \in Tasks |-> IF job.task = t THEN "lost" ELSE start[t]]
  /\ \E host \in BOOLEAN :
       procs' = IF host THEN [t \in Tasks |-> {}] ELSE procs
  /\ orphaned' = {t \in Tasks : procs'[t] # {}}
  /\ drill' = [drill EXCEPT !.at = 0]
  /\ UNCHANGED <<engineOf, mine, dirs, stop, observed, abandoned, faults, workers>>

\* Another worker joins, as another Agent with the same workspace.
NewWorker ==
  /\ ~up /\ workers < MaxWorkers
  /\ up' = TRUE /\ workers' = workers + 1
  /\ mine' = {}
  /\ UNCHANGED <<engineOf, job, active, procs, dirs, start, stop, observed, drill, orphaned, abandoned, faults>>

\* The runbook: without a worker, end the processes of a residual directory,
\* then remove it.
OperatorClears(t) ==
  /\ ~up /\ t \in dirs
  /\ IF procs[t] # {}
     THEN procs' = [procs EXCEPT ![t] = {}] /\ UNCHANGED dirs
     ELSE dirs' = dirs \ {t} /\ UNCHANGED procs
  /\ drill' = IF drill.task = t THEN [drill EXCEPT !.dump = FALSE, !.restored = FALSE] ELSE drill
  /\ UNCHANGED <<engineOf, up, job, active, mine, start, stop, observed, orphaned, abandoned, faults, workers>>

-----------------------------------------------------------------------------
(* The recovery drill inside an active PostgreSQL service.                  *)

DrillStep ==
  UNCHANGED <<engineOf, up, job, active, mine, procs, dirs, start, stop, observed, orphaned, abandoned, workers>>

\* The executor asks for one drill of a service, before it stops it.
BeginDrill(t) ==
  /\ Free /\ t \in active /\ engineOf[t] = "postgresql" /\ stop[t] = "none"
  /\ drill.task # t
  /\ drill' = [NoDrill EXCEPT !.task = t, !.at = 1, !.dump = TRUE]
  /\ UNCHANGED faults
  /\ DrillStep

DrillStage == DrillStages[drill.at]
CreatesDatabase == drill.at > 0 /\ DrillStage = "create-restore-database"

DrillAdvances ==
  /\ up /\ drill.at \in 1..(Len(DrillStages) - 1)
  /\ drill' = [drill EXCEPT !.at = @ + 1, !.restored = @ \/ CreatesDatabase,
                            !.known = @ \/ CreatesDatabase]
  /\ UNCHANGED faults
  /\ DrillStep

\* The finally clause drops the database it knows to be created, and removes
\* the directory; an exception of the removal is the result of the task.
DrillCleanup(drops, removes, answer) ==
  /\ faults' = IF removes THEN faults ELSE faults + 1
  /\ faults' <= MaxFaults
  /\ drill' = [drill EXCEPT !.at = 0, !.dump = ~removes, !.answer = answer,
                            !.restored = @ /\ ~(drill.known /\ drops)]
  /\ DrillStep

DrillFails ==
  /\ up /\ drill.at > 0
  /\ IF DrillStage = "tools"
     THEN /\ drill' = [drill EXCEPT !.at = 0, !.answer = "failed"]
          /\ UNCHANGED faults
          /\ DrillStep
     ELSE \E drops, removes \in BOOLEAN : DrillCleanup(drops, removes, "failed")

\* createdb is stopped by its guard after the database was created.
CreateInterrupted ==
  /\ up /\ CreatesDatabase
  /\ \E removes \in BOOLEAN :
       /\ faults' = IF removes THEN faults ELSE faults + 1
       /\ faults' <= MaxFaults
       /\ drill' = [drill EXCEPT !.at = 0, !.dump = ~removes, !.restored = TRUE,
                                 !.answer = "failed"]
       /\ DrillStep

\* The row counts of source and copy may differ.
DrillEnds ==
  /\ up /\ drill.at = Len(DrillStages)
  /\ \E drops, removes, match \in BOOLEAN :
       DrillCleanup(drops, removes,
                    IF ~removes THEN "failed"
                    ELSE IF drops /\ match THEN "complete" ELSE "partial")

-----------------------------------------------------------------------------
StartStep(t) ==
  \/ StagePasses(t) \/ Spawn(t) \/ BecomeReady(t) \/ StopBootstrap(t) \/ Register(t)
  \/ FailBeforeTry(t) \/ Unwind(t)

Drilling == DrillAdvances \/ DrillFails \/ CreateInterrupted \/ DrillEnds

Next ==
  \/ \E t \in Tasks :
       \/ BeginStart(t) \/ RefuseStart(t) \/ LoseStart(t) \/ StartStep(t)
       \/ StopActive(t) \/ StopAbsent(t) \/ Expires(t) \/ BeginDrill(t) \/ OperatorClears(t)
  \/ Drilling \/ Interrupt \/ Kill \/ NewWorker

Spec == Init /\ [][Next]_vars

\* Every stage ends, by itself or by its timeout, and once() is called again
\* and again; the deadline of a service passes.
Fairness ==
  /\ \A t \in Tasks : WF_vars(StartStep(t)) /\ WF_vars(Expires(t))
  /\ WF_vars(Drilling)

FairSpec == Spec /\ Fairness

-----------------------------------------------------------------------------
TypeOK ==
  /\ engineOf \in Assignments
  /\ up \in BOOLEAN
  /\ job \in [task : Tasks \cup {NoTask}, at : Nat]
  /\ job.task = NoTask => job = Idle
  /\ \A t \in Tasks : job.task = t => job.at \in 1..Len(Stages(t))
  /\ active \subseteq mine /\ active \subseteq dirs
  /\ mine \subseteq Tasks /\ dirs \subseteq Tasks
  /\ orphaned \subseteq Tasks /\ abandoned \subseteq Tasks
  /\ procs \in [Tasks -> SUBSET {"server", "application"}]
  /\ start \in [Tasks -> {"none", "busy", "lost", "ready", "failed"}]
  /\ stop \in [Tasks -> {"none", "verified", "unverified", "failed"}]
  /\ observed \in [Tasks -> SUBSET Tasks]
  /\ drill \in [task : Tasks \cup {NoTask}, at : 0..Len(DrillStages), dump : BOOLEAN,
                restored : BOOLEAN, known : BOOLEAN,
                answer : {"none", "failed", "partial", "complete"}]
  /\ faults \in 0..MaxFaults /\ workers \in 0..MaxWorkers

\* A start that answers ready has reached its own processes: PostgreSQL and web
\* probes would take any listener on the port, and only the residue of a dead
\* worker keeps a later start away from a service that survived it.
ReadyMeansOwn == \A t \in Tasks : start[t] = "ready" => observed[t] = {t}

\* Whatever fails, times out, is cancelled or interrupted, a process of a
\* service belongs to a start, to the dictionaries or to a killed worker, and
\* is found by its directory.  One case is left over, of Redis alone: the
\* server that was launched by a start which ended before its try.
NoStrayProcess ==
  /\ \A t \in Tasks :
       procs[t] # {} => t \in dirs /\ t \in active \cup orphaned \cup abandoned \cup {job.task}
  /\ \A t \in abandoned : engineOf[t] = "redis" /\ t \notin active

\* A stop that answers cleanup_verified leaves neither process nor directory,
\* also when it found nothing to stop; a drill that is complete has left
\* neither its dump nor the database it restored.
CleanupVerifiedIsTrue ==
  /\ \A t \in Tasks : stop[t] = "verified" => procs[t] = {} /\ t \notin dirs
  /\ drill.answer = "complete" => ~drill.dump /\ ~drill.restored

\* A process of a service goes away, by a stop or by the watchdog of its worker,
\* unless that worker is killed, or the start was abandoned with its process:
\* that one has neither a stop nor a watchdog.
ServiceRemoved ==
  \A t \in Tasks : procs[t] # {} ~> (procs[t] = {} \/ t \in orphaned \cup abandoned)

\* What PairedService takes from the Agent: one service at a time, of whichever
\* engine, started once, and gone for good.
Seen ==
  [t \in Tasks |->
    IF t \in active THEN "serving"
    ELSE IF job.task = t THEN "starting"
    ELSE IF start[t] = "none" THEN "absent" ELSE "gone"]

Promise == INSTANCE EphemeralService WITH Services <- Tasks, service <- Seen

ImplementsService == Promise!Spec
=============================================================================

----------------------- MODULE ServiceLifecycleProofs -----------------------
(***************************************************************************)
(* Proofs about ServiceLifecycle, for every set of start tasks and every   *)
(* number of faults and workers: its invariant is inductive, the safety    *)
(* properties follow from it, and it implements EphemeralService.          *)
(***************************************************************************)
EXTENDS ServiceLifecycle, TLAPS

\* The stage at which a start first waits for a process of its own.
FirstReady(t) ==
  CASE engineOf[t] = "redis" -> 4
    [] engineOf[t] \in {"postgresql", "mysql"} -> 4
    [] engineOf[t] = "web" -> 5

ReadyStages == {"ready", "bootstrapped", "application ready"}

StageNames ==
  {"tools", "launch", "client", "child", "command", "server", "application", "stop", "register"}
    \cup ReadyStages

\* One start or one service at a time, and only of a worker that is up.
OccupancyInv ==
  /\ \A t \in Tasks : start[t] = "busy" <=> job.task = t
  /\ \A t \in Tasks : start[t] = "busy" => t \in mine
  /\ \A t \in active : start[t] = "ready"
  /\ active # {} => job = Idle
  /\ \A t, u \in active : t = u
  /\ ~up => active = {} /\ job = Idle

\* A start has no process before its second stage, an abandoned one has ended, a
\* directory is one of a start that was received, and what was stopped had been
\* answered.
HostInv ==
  /\ NoStrayProcess
  /\ \A t \in Tasks :
       /\ job.task = t /\ job.at = 1 => procs[t] = {}
       /\ t \in abandoned => start[t] \in {"failed", "lost"}
       /\ start[t] = "none" => t \notin dirs /\ stop[t] = "none" /\ observed[t] = {}
       /\ stop[t] # "none" => start[t] \in {"ready", "failed", "lost"}
       /\ stop[t] = "verified" => t \notin dirs

\* The start that is executing is alone with its port, unless it is Redis, and
\* has reached nobody but itself.
ReadinessInv ==
  /\ ReadyMeansOwn
  /\ \A t \in Tasks :
       /\ observed[t] \subseteq {t}
       /\ job.task = t =>
            /\ t \in dirs
            /\ engineOf[t] # "redis" => \A u \in dirs : u # t => engineOf[u] # engineOf[t]
            /\ job.at > FirstReady(t) => observed[t] = {t}

DrillRow ==
  [task : Tasks \cup {NoTask}, at : 0..6, dump : BOOLEAN, restored : BOOLEAN, known : BOOLEAN,
   answer : {"none", "failed", "partial", "complete"}]

\* A drill in progress has no answer yet, and knows the database it created.
DrillInv ==
  /\ drill \in DrillRow
  /\ drill.at > 0 => drill.answer = "none"
  /\ drill.at > 4 => drill.known
  /\ drill.answer = "complete" => ~drill.dump /\ ~drill.restored

ServiceInv == TypeOK /\ OccupancyInv /\ HostInv /\ ReadinessInv /\ DrillInv

-----------------------------------------------------------------------------
(* The stages.                                                              *)

\* A start begins with the lookup of its tools, ends with its registration, and
\* waits for a process of its own before that; it may launch it before its try.
WellStaged(stages, ready, launches) ==
  /\ Len(stages) \in Nat /\ ready \in 1..(Len(stages) - 1)
  /\ \A i \in 1..Len(stages) :
       /\ stages[i] \in StageNames
       /\ stages[i] = "register" <=> i = Len(stages)
       /\ stages[i] = "tools" <=> i = 1
       /\ stages[i] \in {"launch", "client"} => launches
  /\ stages[ready] \in ReadyStages

LEMMA PostgresqlStagesFacts == WellStaged(PostgresqlStages, 4, FALSE)
<1>1. Len(PostgresqlStages) = 6
  BY DEF PostgresqlStages
<1>2. /\ PostgresqlStages[1] = "tools" /\ PostgresqlStages[2] = "child"
      /\ PostgresqlStages[3] = "server" /\ PostgresqlStages[4] = "ready"
      /\ PostgresqlStages[5] = "child" /\ PostgresqlStages[6] = "register"
  BY DEF PostgresqlStages
<1>3. ASSUME NEW i \in 1..6
      PROVE  /\ PostgresqlStages[i] \in StageNames
             /\ PostgresqlStages[i] = "register" <=> i = 6
             /\ PostgresqlStages[i] = "tools" <=> i = 1
             /\ PostgresqlStages[i] \notin {"launch", "client"}
  <2>1. i = 1 \/ i = 2 \/ i = 3 \/ i = 4 \/ i = 5 \/ i = 6
    OBVIOUS
  <2> QED
    BY <1>2, <2>1 DEF StageNames, ReadyStages
<1>4. 4 \in 1..(6 - 1) /\ PostgresqlStages[4] \in ReadyStages
  BY <1>2 DEF ReadyStages
<1> QED
  BY <1>1, <1>3, <1>4 DEF WellStaged

LEMMA RedisStagesFacts == WellStaged(RedisStages, 4, TRUE)
<1>1. Len(RedisStages) = 5
  BY DEF RedisStages
<1>2. /\ RedisStages[1] = "tools" /\ RedisStages[2] = "launch"
      /\ RedisStages[3] = "client" /\ RedisStages[4] = "ready"
      /\ RedisStages[5] = "register"
  BY DEF RedisStages
<1>3. ASSUME NEW i \in 1..5
      PROVE  /\ RedisStages[i] \in StageNames
             /\ RedisStages[i] = "register" <=> i = 5
             /\ RedisStages[i] = "tools" <=> i = 1
  <2>1. i = 1 \/ i = 2 \/ i = 3 \/ i = 4 \/ i = 5
    OBVIOUS
  <2> QED
    BY <1>2, <2>1 DEF StageNames, ReadyStages
<1>4. 4 \in 1..(5 - 1) /\ RedisStages[4] \in ReadyStages
  BY <1>2 DEF ReadyStages
<1> QED
  BY <1>1, <1>3, <1>4 DEF WellStaged

LEMMA MySQLStagesFacts == WellStaged(MySQLStages, 4, FALSE)
<1>1. Len(MySQLStages) = 10
  BY DEF MySQLStages
<1>2. /\ MySQLStages[1] = "tools" /\ MySQLStages[2] = "child"
      /\ MySQLStages[3] = "server" /\ MySQLStages[4] = "bootstrapped"
      /\ MySQLStages[5] = "command" /\ MySQLStages[6] = "stop"
      /\ MySQLStages[7] = "server" /\ MySQLStages[8] = "ready"
      /\ MySQLStages[9] = "command" /\ MySQLStages[10] = "register"
  BY DEF MySQLStages
<1>3. ASSUME NEW i \in 1..10
      PROVE  /\ MySQLStages[i] \in StageNames
             /\ MySQLStages[i] = "register" <=> i = 10
             /\ MySQLStages[i] = "tools" <=> i = 1
             /\ MySQLStages[i] \notin {"launch", "client"}
  <2>1. i = 1 \/ i = 2 \/ i = 3 \/ i = 4 \/ i = 5 \/ i = 6 \/ i = 7 \/ i = 8 \/ i = 9 \/ i = 10
    OBVIOUS
  <2> QED
    BY <1>2, <2>1 DEF StageNames, ReadyStages
<1>4. 4 \in 1..(10 - 1) /\ MySQLStages[4] \in ReadyStages
  BY <1>2 DEF ReadyStages
<1> QED
  BY <1>1, <1>3, <1>4 DEF WellStaged

LEMMA WebStagesFacts == WellStaged(WebStages, 5, FALSE)
<1>1. Len(WebStages) = 8
  BY DEF WebStages
<1>2. /\ WebStages[1] = "tools" /\ WebStages[2] = "child"
      /\ WebStages[3] = "child" /\ WebStages[4] = "application"
      /\ WebStages[5] = "application ready" /\ WebStages[6] = "server"
      /\ WebStages[7] = "ready" /\ WebStages[8] = "register"
  BY DEF WebStages
<1>3. ASSUME NEW i \in 1..8
      PROVE  /\ WebStages[i] \in StageNames
             /\ WebStages[i] = "register" <=> i = 8
             /\ WebStages[i] = "tools" <=> i = 1
             /\ WebStages[i] \notin {"launch", "client"}
  <2>1. i = 1 \/ i = 2 \/ i = 3 \/ i = 4 \/ i = 5 \/ i = 6 \/ i = 7 \/ i = 8
    OBVIOUS
  <2> QED
    BY <1>2, <2>1 DEF StageNames, ReadyStages
<1>4. 5 \in 1..(8 - 1) /\ WebStages[5] \in ReadyStages
  <2>1. 5 \in 1..(8 - 1)
    OBVIOUS
  <2> QED
    BY <1>2, <2>1 DEF ReadyStages
<1> QED
  BY <1>1, <1>3, <1>4 DEF WellStaged

LEMMA StageFacts ==
  ASSUME NEW t \in Tasks, engineOf[t] \in Engines
  PROVE  WellStaged(Stages(t), FirstReady(t), engineOf[t] = "redis")
BY PostgresqlStagesFacts, RedisStagesFacts, MySQLStagesFacts, WebStagesFacts
   DEF Engines, Stages, FirstReady

LEMMA DrillLength == Len(DrillStages) = 6
BY DEF DrillStages

LEMMA EngineFacts ==
  ASSUME UNCHANGED engineOf
  PROVE  \A t \in Tasks : Stages(t)' = Stages(t) /\ FirstReady(t)' = FirstReady(t)
BY DEF Stages, FirstReady

-----------------------------------------------------------------------------
(* The initial states, and what a step may do to a directory, to the job or *)
(* to the drill.                                                            *)

LEMMA InitServiceInv == Init => ServiceInv
BY ServiceAssumption, DrillLength
   DEF Init, ServiceInv, TypeOK, OccupancyInv, HostInv, ReadinessInv, DrillInv, DrillRow,
       ReadyMeansOwn, NoStrayProcess, Idle, NoDrill

LEMMA RemovalFacts ==
  ASSUME ServiceInv, NEW t \in Tasks, NEW ok \in BOOLEAN, Removal(t, ok)
  PROVE  /\ faults' \in 0..MaxFaults
         /\ dirs' = IF ok THEN dirs \ {t} ELSE dirs
         /\ DrillInv'
<1>1. faults' \in 0..MaxFaults
  BY ServiceAssumption DEF Removal, ServiceInv, TypeOK
<1>2. DrillInv'
  <2>1. CASE ok /\ drill.task = t
    <3>1. drill' = [drill EXCEPT !.at = 0, !.dump = FALSE, !.restored = FALSE]
      BY <2>1 DEF Removal
    <3>2. drill \in DrillRow
      BY DEF ServiceInv, DrillInv
    <3>3. drill' \in DrillRow
      <4>1. 0 \in 0..6
        OBVIOUS
      <4> QED
        BY <3>1, <3>2, <4>1, Zenon DEF DrillRow
    <3>4. drill'.at = 0 /\ drill'.dump = FALSE /\ drill'.restored = FALSE
      BY <3>1, <3>2, Zenon DEF DrillRow
    <3> QED
      BY <3>3, <3>4 DEF DrillInv
  <2>2. CASE ~(ok /\ drill.task = t)
    <3>1. drill' = drill
      BY <2>2 DEF Removal
    <3> QED
      BY <3>1 DEF ServiceInv, DrillInv, DrillRow
  <2> QED
    BY <2>1, <2>2
<1> QED
  BY <1>1, <1>2 DEF Removal

\* Where the job is after a stage that is not the last one.
LEMMA AdvanceFacts ==
  ASSUME ServiceInv, NEW t \in Tasks, Executing(t), Stage # "register", Advance(t)
  PROVE  /\ job' \in [task : Tasks \cup {NoTask}, at : Nat]
         /\ job'.task = t /\ job.task = t /\ t # NoTask
         /\ job.at \in 1..(Len(Stages(t)) - 1) /\ job'.at = job.at + 1
         /\ FirstReady(t) \in Nat /\ Stages(t)[FirstReady(t)] \in ReadyStages
<1>1. WellStaged(Stages(t), FirstReady(t), engineOf[t] = "redis")
  BY ServiceAssumption, StageFacts DEF ServiceInv, TypeOK
<1>2. job \in [task : Tasks \cup {NoTask}, at : Nat] /\ job.task = t /\ t # NoTask
      /\ job.at \in 1..Len(Stages(t))
  BY ServiceAssumption DEF ServiceInv, TypeOK, Executing
<1>3. Stages(t)[job.at] # "register"
  BY <1>2 DEF Stage
<1>4. job.at # Len(Stages(t))
  BY <1>1, <1>2, <1>3 DEF WellStaged
<1> QED
  BY <1>1, <1>2, <1>4 DEF Advance, WellStaged

-----------------------------------------------------------------------------
(* Each operation keeps the invariant.                                      *)

LEMMA BeginStartKeeps ==
  ASSUME ServiceInv, NEW t \in Tasks, BeginStart(t)
  PROVE  ServiceInv'
<1>1. /\ 1 \in 1..Len(Stages(t)) /\ ~(1 > FirstReady(t)) /\ t # NoTask
      /\ job' = [task |-> t, at |-> 1] /\ job = Idle /\ engineOf' = engineOf
  BY ServiceAssumption, StageFacts DEF WellStaged, BeginStart, Received, Free, ServiceInv, TypeOK
<1>2. TypeOK'
  BY <1>1, EngineFacts DEF BeginStart, Received, ServiceInv, TypeOK
<1>3. OccupancyInv'
  BY DEF BeginStart, Received, Free, Admits, ServiceInv, TypeOK, OccupancyInv, Idle
<1>4. HostInv'
  BY DEF BeginStart, Received, Free, ServiceInv, TypeOK, HostInv, NoStrayProcess, Idle
<1>5. ReadinessInv'
  BY <1>1, EngineFacts DEF BeginStart, Admits, NoResidue, ServiceInv, ReadinessInv, ReadyMeansOwn
<1>6. DrillInv'
  BY DEF BeginStart, ServiceInv, DrillInv
<1> QED
  BY <1>2, <1>3, <1>4, <1>5, <1>6 DEF ServiceInv

LEMMA RefuseStartKeeps ==
  ASSUME ServiceInv, NEW t \in Tasks, RefuseStart(t)
  PROVE  ServiceInv'
<1>1. TypeOK'
  BY DEF RefuseStart, Received, Free, ServiceInv, TypeOK, Idle
<1>2. OccupancyInv'
  BY DEF RefuseStart, Received, ServiceInv, OccupancyInv
<1>3. HostInv'
  BY DEF RefuseStart, ServiceInv, HostInv, NoStrayProcess
<1>4. ReadinessInv'
  BY DEF RefuseStart, Received, Free, ServiceInv, TypeOK, ReadinessInv, ReadyMeansOwn, Idle
<1>5. DrillInv'
  BY DEF RefuseStart, ServiceInv, DrillInv
<1> QED
  BY <1>1, <1>2, <1>3, <1>4, <1>5 DEF ServiceInv

LEMMA LoseStartKeeps ==
  ASSUME ServiceInv, NEW t \in Tasks, LoseStart(t)
  PROVE  ServiceInv'
<1>1. TypeOK'
  BY DEF LoseStart, Received, Free, ServiceInv, TypeOK, Idle
<1>2. OccupancyInv'
  BY DEF LoseStart, Received, ServiceInv, OccupancyInv
<1>3. HostInv'
  BY DEF LoseStart, ServiceInv, HostInv, NoStrayProcess
<1>4. ReadinessInv'
  BY DEF LoseStart, Received, Free, ServiceInv, TypeOK, ReadinessInv, ReadyMeansOwn, Idle
<1>5. DrillInv'
  BY DEF LoseStart, ServiceInv, DrillInv
<1> QED
  BY <1>1, <1>2, <1>3, <1>4, <1>5 DEF ServiceInv

LEMMA StagePassesKeeps ==
  ASSUME ServiceInv, NEW t \in Tasks, StagePasses(t)
  PROVE  ServiceInv'
<1>1. Executing(t) /\ Stage # "register" /\ Advance(t)
  BY DEF StagePasses
<1>2. /\ job' \in [task : Tasks \cup {NoTask}, at : Nat]
      /\ job'.task = t /\ job.task = t /\ t # NoTask
      /\ job.at \in 1..(Len(Stages(t)) - 1) /\ job'.at = job.at + 1
      /\ FirstReady(t) \in Nat /\ Stages(t)[FirstReady(t)] \in ReadyStages
  BY <1>1, AdvanceFacts
<1>3. Stage = Stages(t)[job.at]
  BY <1>2 DEF Stage
<1>4. TypeOK'
  BY <1>2, EngineFacts DEF StagePasses, Advance, ServiceInv, TypeOK
<1>5. OccupancyInv'
  BY <1>2 DEF StagePasses, Advance, ServiceInv, OccupancyInv, Idle
<1>6. HostInv'
  BY <1>2 DEF StagePasses, Advance, ServiceInv, HostInv, NoStrayProcess
<1>7. ReadinessInv'
  <2>1. job.at # FirstReady(t)
    BY <1>2, <1>3 DEF StagePasses, ReadyStages
  <2>2. engineOf' = engineOf /\ dirs' = dirs /\ start' = start /\ observed' = observed
    BY DEF StagePasses, Advance
  <2> QED
    BY <1>2, <2>1, <2>2, EngineFacts DEF ServiceInv, TypeOK, ReadinessInv, ReadyMeansOwn
<1>8. DrillInv'
  BY DEF StagePasses, Advance, ServiceInv, DrillInv
<1> QED
  BY <1>4, <1>5, <1>6, <1>7, <1>8 DEF ServiceInv

LEMMA SpawnKeeps ==
  ASSUME ServiceInv, NEW t \in Tasks, Spawn(t)
  PROVE  ServiceInv'
<1>1. Executing(t) /\ Stage # "register" /\ Advance(t)
  BY DEF Spawn
<1>2. /\ job' \in [task : Tasks \cup {NoTask}, at : Nat]
      /\ job'.task = t /\ job.task = t /\ t # NoTask
      /\ job.at \in 1..(Len(Stages(t)) - 1) /\ job'.at = job.at + 1
      /\ FirstReady(t) \in Nat /\ Stages(t)[FirstReady(t)] \in ReadyStages
  BY <1>1, AdvanceFacts
<1>3. Stage = Stages(t)[job.at]
  BY <1>2 DEF Stage
<1>4. TypeOK'
  BY <1>2, EngineFacts DEF Spawn, Advance, ServiceInv, TypeOK
<1>5. OccupancyInv'
  BY <1>2 DEF Spawn, Advance, ServiceInv, OccupancyInv, Idle
<1>6. HostInv'
  <2>1. t \in dirs /\ start[t] = "busy"
    BY <1>2 DEF ServiceInv, OccupancyInv, ReadinessInv
  <2>2. \A u \in Tasks : u # t => procs'[u] = procs[u]
    BY DEF Spawn, ServiceInv, TypeOK
  <2>3. UNCHANGED <<engineOf, active, dirs, start, stop, observed, orphaned, abandoned>>
    BY DEF Spawn, Advance
  <2>4. ~(job'.task = t /\ job'.at = 1)
    BY <1>2
  <2> QED
    BY <1>2, <2>1, <2>2, <2>3, <2>4 DEF ServiceInv, TypeOK, HostInv, NoStrayProcess
<1>7. ReadinessInv'
  <2>1. job.at # FirstReady(t)
    BY <1>2, <1>3 DEF Spawn, ReadyStages
  <2>2. engineOf' = engineOf /\ dirs' = dirs /\ start' = start /\ observed' = observed
    BY DEF Spawn, Advance
  <2> QED
    BY <1>2, <2>1, <2>2, EngineFacts DEF ServiceInv, TypeOK, ReadinessInv, ReadyMeansOwn
<1>8. DrillInv'
  BY DEF Spawn, Advance, ServiceInv, DrillInv
<1> QED
  BY <1>4, <1>5, <1>6, <1>7, <1>8 DEF ServiceInv

LEMMA BecomeReadyKeeps ==
  ASSUME ServiceInv, NEW t \in Tasks, BecomeReady(t)
  PROVE  ServiceInv'
<1>1. Executing(t) /\ Stage # "register" /\ Advance(t) /\ procs' = procs
  BY DEF BecomeReady
<1>2. /\ job' \in [task : Tasks \cup {NoTask}, at : Nat]
      /\ job'.task = t /\ job.task = t /\ t # NoTask
      /\ job.at \in 1..(Len(Stages(t)) - 1) /\ job'.at = job.at + 1
      /\ FirstReady(t) \in Nat /\ Stages(t)[FirstReady(t)] \in ReadyStages
  BY <1>1, AdvanceFacts
<1>3. /\ t \in dirs /\ start[t] = "busy"
      /\ engineOf[t] # "redis" => \A u \in dirs : u # t => engineOf[u] # engineOf[t]
  BY <1>2 DEF ServiceInv, OccupancyInv, ReadinessInv
<1>4. observed' = [observed EXCEPT ![t] = {t}]
  <2>1. engineOf[t] # "redis" => \A process : Holding(t, process) = {}
    BY <1>3 DEF Holding, ServiceInv, HostInv, NoStrayProcess
  <2>2. observed' = [observed EXCEPT ![t] = @ \cup {t}]
    BY <2>1 DEF BecomeReady, ProbesAnyone
  <2> QED
    BY <2>2 DEF ServiceInv, TypeOK, ReadinessInv
<1>5. TypeOK'
  BY <1>1, <1>2, <1>4, EngineFacts DEF Advance, ServiceInv, TypeOK
<1>6. OccupancyInv'
  BY <1>1, <1>3 DEF Advance, ServiceInv, TypeOK, OccupancyInv, Idle
<1>7. HostInv'
  BY <1>1, <1>2, <1>3, <1>4 DEF Advance, ServiceInv, HostInv, NoStrayProcess
<1>8. ReadinessInv'
  BY <1>1, <1>2, <1>4 DEF Advance, ServiceInv, TypeOK, ReadinessInv, ReadyMeansOwn
<1>9. DrillInv'
  BY <1>1 DEF Advance, ServiceInv, DrillInv
<1> QED
  BY <1>5, <1>6, <1>7, <1>8, <1>9 DEF ServiceInv

LEMMA StopBootstrapKeeps ==
  ASSUME ServiceInv, NEW t \in Tasks, StopBootstrap(t)
  PROVE  ServiceInv'
<1>1. Executing(t) /\ Stage # "register" /\ Advance(t)
  BY DEF StopBootstrap
<1>2. /\ job' \in [task : Tasks \cup {NoTask}, at : Nat]
      /\ job'.task = t /\ job.task = t /\ t # NoTask
      /\ job.at \in 1..(Len(Stages(t)) - 1) /\ job'.at = job.at + 1
      /\ FirstReady(t) \in Nat /\ Stages(t)[FirstReady(t)] \in ReadyStages
  BY <1>1, AdvanceFacts
<1>3. Stage = Stages(t)[job.at]
  BY <1>2 DEF Stage
<1>4. TypeOK'
  BY <1>2, EngineFacts DEF StopBootstrap, Advance, ServiceInv, TypeOK
<1>5. OccupancyInv'
  BY <1>2 DEF StopBootstrap, Advance, ServiceInv, OccupancyInv, Idle
<1>6. HostInv'
  BY <1>2 DEF StopBootstrap, Advance, ServiceInv, HostInv, NoStrayProcess
<1>7. ReadinessInv'
  <2>1. job.at # FirstReady(t)
    BY <1>2, <1>3 DEF StopBootstrap, ReadyStages
  <2>2. engineOf' = engineOf /\ dirs' = dirs /\ start' = start /\ observed' = observed
    BY DEF StopBootstrap, Advance
  <2> QED
    BY <1>2, <2>1, <2>2, EngineFacts DEF ServiceInv, TypeOK, ReadinessInv, ReadyMeansOwn
<1>8. DrillInv'
  BY DEF StopBootstrap, Advance, ServiceInv, DrillInv
<1> QED
  BY <1>4, <1>5, <1>6, <1>7, <1>8 DEF ServiceInv

LEMMA RegisterKeeps ==
  ASSUME ServiceInv, NEW t \in Tasks, Register(t)
  PROVE  ServiceInv'
<1>1. /\ job.task = t /\ t # NoTask /\ up /\ t \in dirs /\ active = {} /\ start[t] = "busy"
      /\ t \in mine /\ job' = Idle /\ active' = {t}
  BY ServiceAssumption
     DEF Register, Executing, ServiceInv, TypeOK, OccupancyInv, ReadinessInv, Idle
<1>2. observed[t] = {t}
  <2>1. WellStaged(Stages(t), FirstReady(t), engineOf[t] = "redis") /\ job.at \in 1..Len(Stages(t))
    BY <1>1, StageFacts, ServiceAssumption DEF ServiceInv, TypeOK
  <2>2. job.at > FirstReady(t)
    BY <1>1, <2>1 DEF Register, Stage, WellStaged
  <2> QED
    BY <1>1, <2>2 DEF ServiceInv, ReadinessInv
<1>3. TypeOK'
  BY <1>1, ServiceAssumption DEF Register, ServiceInv, TypeOK, Idle
<1>4. OccupancyInv'
  BY <1>1, ServiceAssumption DEF Register, ServiceInv, TypeOK, OccupancyInv, Idle
<1>5. HostInv'
  BY <1>1, ServiceAssumption DEF Register, ServiceInv, TypeOK, HostInv, NoStrayProcess, Idle
<1>6. ReadinessInv'
  BY <1>2, ServiceAssumption DEF Register, ServiceInv, ReadinessInv, ReadyMeansOwn, Idle
<1>7. DrillInv'
  BY DEF Register, ServiceInv, DrillInv
<1> QED
  BY <1>3, <1>4, <1>5, <1>6, <1>7 DEF ServiceInv

\* A start that ends without a service: what it leaves behind is abandoned.
LEMMA StartEndsKeeps ==
  ASSUME ServiceInv, NEW t \in Tasks, Executing(t), job' = Idle, up' \in BOOLEAN,
         NEW answer \in {"failed", "lost"}, NEW left \in SUBSET procs[t], Ends(t, left, answer),
         dirs' = dirs \/ dirs' = dirs \ {t}, faults' \in 0..MaxFaults, DrillInv',
         abandoned' = IF left = {} THEN abandoned ELSE abandoned \cup {t},
         left # {} => dirs' = dirs /\ engineOf[t] = "redis",
         UNCHANGED <<engineOf, active, mine, stop, observed, orphaned, workers>>
  PROVE  ServiceInv'
<1>1. /\ active = {} /\ t # NoTask /\ job.task = t
      /\ t \in dirs /\ start[t] = "busy" /\ stop[t] = "none"
  BY ServiceAssumption
     DEF Executing, ServiceInv, TypeOK, OccupancyInv, HostInv, ReadinessInv, Idle
<1>2. /\ procs' = [procs EXCEPT ![t] = left] /\ start' = [start EXCEPT ![t] = answer]
      /\ job' = Idle /\ Idle.task = NoTask /\ Idle.at = 0
  BY DEF Ends, Idle
<1>3. TypeOK'
  BY <1>1, <1>2, DrillLength, ServiceAssumption
     DEF ServiceInv, TypeOK, DrillInv, DrillRow, Idle
<1>4. OccupancyInv'
  BY <1>1, <1>2, ServiceAssumption DEF ServiceInv, TypeOK, OccupancyInv
<1>5. HostInv'
  <2>1. NoStrayProcess'
    <3>1. \A u \in Tasks :
            procs[u] # {} => u \in dirs /\ u \in orphaned \cup abandoned \cup {t}
      BY <1>1 DEF ServiceInv, HostInv, NoStrayProcess
    <3>2. ASSUME NEW u \in Tasks, procs'[u] # {}
          PROVE  u \in dirs' /\ u \in orphaned' \cup abandoned'
      <4>1. CASE u = t
        <5>1. procs'[t] = left
          BY <1>2 DEF ServiceInv, TypeOK
        <5> QED
          BY <1>1, <3>2, <4>1, <5>1
      <4>2. CASE u # t
        BY <1>2, <3>1, <3>2, <4>2 DEF ServiceInv, TypeOK
      <4> QED
        BY <4>1, <4>2
    <3>3. \A u \in abandoned' : engineOf'[u] = "redis" /\ u \notin active'
      BY <1>1 DEF ServiceInv, HostInv, NoStrayProcess
    <3> QED
      BY <3>2, <3>3 DEF NoStrayProcess
  <2> QED
    BY <1>1, <1>2, <2>1, ServiceAssumption DEF ServiceInv, TypeOK, HostInv
<1>6. ReadinessInv'
  BY <1>1, <1>2, ServiceAssumption DEF ServiceInv, TypeOK, ReadinessInv, ReadyMeansOwn
<1> QED
  BY <1>3, <1>4, <1>5, <1>6 DEF ServiceInv

LEMMA FailBeforeTryKeeps ==
  ASSUME ServiceInv, NEW t \in Tasks, FailBeforeTry(t)
  PROVE  ServiceInv'
<1>1. /\ dirs' = dirs \/ dirs' = dirs \ {t}
      /\ faults' \in 0..MaxFaults /\ DrillInv'
  <2>1. CASE UNCHANGED <<dirs, faults, drill>>
    BY <2>1 DEF ServiceInv, TypeOK, DrillInv, DrillRow
  <2>2. ASSUME NEW ok \in BOOLEAN, Removal(t, ok)
        PROVE  (dirs' = dirs \/ dirs' = dirs \ {t}) /\ faults' \in 0..MaxFaults /\ DrillInv'
    BY <2>2, RemovalFacts
  <2> QED
    BY <2>1, <2>2 DEF FailBeforeTry
<1>2. PICK answer \in {"failed", "lost"} : Ends(t, procs[t], answer)
  BY DEF FailBeforeTry
<1>3. procs[t] # {} => dirs' = dirs /\ engineOf[t] = "redis"
  <2>1. /\ WellStaged(Stages(t), FirstReady(t), engineOf[t] = "redis")
        /\ job.task = t /\ job.at \in 1..Len(Stages(t)) /\ Stage = Stages(t)[job.at]
    BY StageFacts, ServiceAssumption
       DEF FailBeforeTry, Executing, Stage, ServiceInv, TypeOK
  <2>2. Stage = "tools" => procs[t] = {}
    BY <2>1 DEF WellStaged, ServiceInv, HostInv
  <2>3. Stage # "tools" => dirs' = dirs /\ engineOf[t] = "redis"
    BY <2>1 DEF FailBeforeTry, BeforeTry, WellStaged
  <2> QED
    BY <2>2, <2>3
<1>4. /\ Executing(t) /\ job' = Idle /\ up' \in BOOLEAN
      /\ abandoned' = IF procs[t] = {} THEN abandoned ELSE abandoned \cup {t}
      /\ UNCHANGED <<engineOf, active, mine, stop, observed, orphaned, workers>>
  BY DEF FailBeforeTry
<1>5. procs[t] \in SUBSET procs[t]
  OBVIOUS
<1> QED
  BY <1>1, <1>2, <1>3, <1>4, <1>5, StartEndsKeeps

LEMMA UnwindKeeps ==
  ASSUME ServiceInv, NEW t \in Tasks, Unwind(t)
  PROVE  ServiceInv'
<1>1. PICK ok \in BOOLEAN : Removal(t, ok)
  BY DEF Unwind
<1>2. (dirs' = dirs \/ dirs' = dirs \ {t}) /\ faults' \in 0..MaxFaults /\ DrillInv'
  BY <1>1, RemovalFacts
<1>3. PICK answer \in {"failed", "lost"} : Ends(t, {}, answer)
  BY DEF Unwind
<1>4. up' \in BOOLEAN
  BY DEF Unwind, ServiceInv, TypeOK
<1>5. {} \in SUBSET procs[t] /\ abandoned' = abandoned
  BY DEF Unwind
<1> QED
  BY <1>2, <1>3, <1>4, <1>5, StartEndsKeeps DEF Unwind

\* A service of the dictionaries that is terminated, and may stay registered.
LEMMA ServiceEndsKeeps ==
  ASSUME ServiceInv, job = Idle, job' = Idle, NEW ended \in SUBSET active,
         active' \subseteq active, up' \in BOOLEAN, ~up' => active' = {},
         procs' = [t \in Tasks |-> IF t \in ended THEN {} ELSE procs[t]],
         active \ active' \subseteq ended,
         dirs' = dirs \/ \E t \in ended : dirs' = dirs \ {t},
         faults' \in 0..MaxFaults, DrillInv', active' \subseteq dirs',
         stop' \in [Tasks -> {"none", "verified", "unverified", "failed"}],
         \A t \in Tasks : \/ stop'[t] = stop[t]
                          \/ t \in ended /\ (stop'[t] = "verified" => t \notin dirs'),
         UNCHANGED <<engineOf, mine, start, observed, orphaned, abandoned, workers>>
  PROVE  ServiceInv'
<1>1. Idle.task = NoTask /\ Idle.at = 0 /\ active \subseteq Tasks
  BY DEF Idle, ServiceInv, TypeOK
<1>2. TypeOK'
  BY <1>1, DrillLength, ServiceAssumption DEF ServiceInv, TypeOK, DrillInv, DrillRow
<1>3. OccupancyInv'
  BY <1>1, ServiceAssumption DEF ServiceInv, TypeOK, OccupancyInv
<1>4. HostInv'
  <2> SUFFICES ASSUME NEW t \in Tasks
               PROVE  /\ procs'[t] # {} =>
                           t \in dirs' /\ t \in active' \cup orphaned' \cup abandoned' \cup {job'.task}
                      /\ t \in abandoned' =>
                           engineOf'[t] = "redis" /\ t \notin active' /\ start'[t] \in {"failed", "lost"}
                      /\ job'.task = t /\ job'.at = 1 => procs'[t] = {}
                      /\ start'[t] = "none" =>
                           t \notin dirs' /\ stop'[t] = "none" /\ observed'[t] = {}
                      /\ stop'[t] # "none" => start'[t] \in {"ready", "failed", "lost"}
                      /\ stop'[t] = "verified" => t \notin dirs'
    <3>1. abandoned' \subseteq Tasks
      BY <1>2 DEF TypeOK
    <3> QED
      BY <3>1 DEF HostInv, NoStrayProcess
  <2>1. procs'[t] # {} => procs'[t] = procs[t] /\ t \notin ended
    OBVIOUS
  <2>2. procs'[t] # {} => t \in active' \cup orphaned' \cup abandoned' \cup {job'.task}
    BY <2>1 DEF ServiceInv, HostInv, NoStrayProcess
  <2>3. t \in dirs' => t \in dirs
    OBVIOUS
  <2>4. t \in ended => start[t] = "ready"
    BY DEF ServiceInv, OccupancyInv
  <2>5. procs'[t] # {} => t \in dirs'
    BY <2>1 DEF ServiceInv, HostInv, NoStrayProcess
  <2>6. /\ t \in abandoned' =>
             engineOf'[t] = "redis" /\ t \notin active' /\ start'[t] \in {"failed", "lost"}
        /\ job'.task # t
    BY <1>1, ServiceAssumption DEF ServiceInv, HostInv, NoStrayProcess
  <2> QED
    BY <2>2, <2>3, <2>4, <2>5, <2>6 DEF ServiceInv, HostInv
<1>5. ReadinessInv'
  BY <1>1, ServiceAssumption DEF ServiceInv, TypeOK, ReadinessInv, ReadyMeansOwn
<1> QED
  BY <1>2, <1>3, <1>4, <1>5 DEF ServiceInv

LEMMA StopActiveKeeps ==
  ASSUME ServiceInv, NEW t \in Tasks, StopActive(t)
  PROVE  ServiceInv'
<1>1. PICK ok \in BOOLEAN :
        /\ Removal(t, ok)
        /\ active' = IF ok THEN active \ {t} ELSE active
        /\ stop' = [stop EXCEPT ![t] = IF ok THEN "verified" ELSE "failed"]
  BY DEF StopActive
<1>2. faults' \in 0..MaxFaults /\ dirs' = (IF ok THEN dirs \ {t} ELSE dirs) /\ DrillInv'
  BY <1>1, RemovalFacts
<1>3. procs' = [u \in Tasks |-> IF u \in {t} THEN {} ELSE procs[u]] /\ {t} \in SUBSET active
  BY DEF StopActive, ServiceInv, TypeOK
<1>4. job = Idle /\ job' = Idle /\ up' \in BOOLEAN /\ up'
  BY DEF StopActive, AskedToStop, Free
<1>5. active' \subseteq dirs' /\ active' \subseteq active /\ active \ active' \subseteq {t}
  BY <1>1, <1>2 DEF ServiceInv, TypeOK
<1>6. /\ stop' \in [Tasks -> {"none", "verified", "unverified", "failed"}]
      /\ \A u \in Tasks : \/ stop'[u] = stop[u]
                          \/ u \in {t} /\ (stop'[u] = "verified" => u \notin dirs')
  BY <1>1, <1>2 DEF ServiceInv, TypeOK
<1> QED
  BY <1>2, <1>3, <1>4, <1>5, <1>6, ServiceEndsKeeps DEF StopActive

LEMMA StopAbsentKeeps ==
  ASSUME ServiceInv, NEW t \in Tasks, StopAbsent(t)
  PROVE  ServiceInv'
<1>1. TypeOK'
  BY EngineFacts DEF StopAbsent, ServiceInv, TypeOK
<1>2. OccupancyInv'
  BY DEF StopAbsent, ServiceInv, OccupancyInv
<1>3. HostInv'
  BY DEF StopAbsent, AskedToStop, ServiceInv, TypeOK, HostInv, NoStrayProcess
<1>4. ReadinessInv'
  BY EngineFacts DEF StopAbsent, ServiceInv, ReadinessInv, ReadyMeansOwn
<1>5. DrillInv'
  BY DEF StopAbsent, ServiceInv, DrillInv
<1> QED
  BY <1>1, <1>2, <1>3, <1>4, <1>5 DEF ServiceInv

LEMMA ExpiresKeeps ==
  ASSUME ServiceInv, NEW t \in Tasks, Expires(t)
  PROVE  ServiceInv'
<1>1. PICK ok \in BOOLEAN : Removal(t, ok) /\ active' = active \ {t} /\ up' = ok
  BY DEF Expires
<1>2. faults' \in 0..MaxFaults /\ dirs' = (IF ok THEN dirs \ {t} ELSE dirs) /\ DrillInv'
  BY <1>1, RemovalFacts
<1>3. procs' = [u \in Tasks |-> IF u \in {t} THEN {} ELSE procs[u]] /\ {t} \in SUBSET active
  BY DEF Expires, ServiceInv, TypeOK
<1>4. job = Idle /\ job' = Idle /\ stop' = stop /\ active' = {}
  BY <1>1 DEF Expires, Free, ServiceInv, OccupancyInv
<1>5. /\ active' \subseteq dirs' /\ active' \subseteq active /\ active \ active' \subseteq {t}
      /\ stop' \in [Tasks -> {"none", "verified", "unverified", "failed"}]
  BY <1>1, <1>3, <1>4 DEF ServiceInv, TypeOK
<1>6. dirs' = dirs \/ \E u \in {t} : dirs' = dirs \ {u}
  BY <1>2
<1>7. UNCHANGED <<engineOf, mine, start, observed, orphaned, abandoned, workers>>
  BY DEF Expires
<1> QED
  BY <1>1, <1>2, <1>3, <1>4, <1>5, <1>6, <1>7, ServiceEndsKeeps

LEMMA InterruptKeeps ==
  ASSUME ServiceInv, Interrupt
  PROVE  ServiceInv'
<1>1. /\ faults' \in 0..MaxFaults /\ DrillInv'
      /\ dirs' = dirs \/ \E t \in active : dirs' = dirs \ {t}
  <2>1. CASE active = {}
    BY <2>1 DEF Interrupt, ServiceInv, TypeOK, DrillInv
  <2>2. CASE active # {}
    <3>1. PICK t \in active, ok \in BOOLEAN : Removal(t, ok)
      BY <2>2 DEF Interrupt
    <3>2. t \in Tasks
      BY DEF ServiceInv, TypeOK
    <3> QED
      BY <3>1, <3>2, RemovalFacts
  <2> QED
    BY <2>1, <2>2
<1>2. /\ job = Idle /\ job' = Idle /\ up' = FALSE /\ active' = {} /\ stop' = stop
      /\ active \in SUBSET active
      /\ procs' = [t \in Tasks |-> IF t \in active THEN {} ELSE procs[t]]
  BY DEF Interrupt, Free
<1>3. /\ active' \subseteq dirs' /\ active' \subseteq active /\ active \ active' \subseteq active
      /\ stop' \in [Tasks -> {"none", "verified", "unverified", "failed"}]
  BY <1>2 DEF ServiceInv, TypeOK
<1>4. UNCHANGED <<engineOf, mine, start, observed, orphaned, abandoned, workers>>
  BY DEF Interrupt
<1> QED
  BY <1>1, <1>2, <1>3, <1>4, ServiceEndsKeeps

LEMMA KillKeeps ==
  ASSUME ServiceInv, Kill
  PROVE  ServiceInv'
<1>1. /\ job' = Idle /\ Idle.task = NoTask /\ Idle.at = 0 /\ active' = {} /\ up' = FALSE
      /\ start' = [t \in Tasks |-> IF job.task = t THEN "lost" ELSE start[t]]
      /\ procs' \in [Tasks -> SUBSET {"server", "application"}]
      /\ \A t \in Tasks : procs'[t] # {} => procs[t] # {}
      /\ orphaned' = {t \in Tasks : procs'[t] # {}}
  BY DEF Kill, Idle, ServiceInv, TypeOK
<1>2. DrillInv'
  <2>1. drill \in DrillRow /\ drill' = [drill EXCEPT !.at = 0]
    BY DEF Kill, ServiceInv, DrillInv
  <2> QED
    BY <2>1 DEF ServiceInv, DrillInv, DrillRow
<1>3. TypeOK'
  <2>1. /\ job' \in [task : Tasks \cup {NoTask}, at : Nat]
        /\ \A t \in Tasks : job'.task # t
    BY <1>1, ServiceAssumption DEF Idle
  <2>2. start' \in [Tasks -> {"none", "busy", "lost", "ready", "failed"}]
    BY <1>1 DEF ServiceInv, TypeOK
  <2>3. UNCHANGED <<engineOf, mine, dirs, stop, observed, abandoned, faults, workers>>
    BY DEF Kill
  <2> QED
    BY <1>1, <1>2, <2>1, <2>2, <2>3, DrillLength DEF ServiceInv, TypeOK, DrillInv, DrillRow
<1>4. OccupancyInv'
  BY <1>1, ServiceAssumption DEF Kill, ServiceInv, TypeOK, OccupancyInv
<1>5. HostInv'
  BY <1>1, ServiceAssumption DEF Kill, ServiceInv, TypeOK, OccupancyInv, HostInv, NoStrayProcess
<1>6. ReadinessInv'
  BY <1>1, ServiceAssumption DEF Kill, ServiceInv, TypeOK, ReadinessInv, ReadyMeansOwn
<1> QED
  BY <1>2, <1>3, <1>4, <1>5, <1>6 DEF ServiceInv

LEMMA NewWorkerKeeps ==
  ASSUME ServiceInv, NewWorker
  PROVE  ServiceInv'
<1>1. ~up /\ active = {} /\ job = Idle /\ Idle.task = NoTask
  BY DEF NewWorker, ServiceInv, OccupancyInv, Idle
<1>2. TypeOK'
  BY <1>1, EngineFacts, ServiceAssumption DEF NewWorker, ServiceInv, TypeOK
<1>3. OccupancyInv'
  BY <1>1, ServiceAssumption DEF NewWorker, ServiceInv, TypeOK, OccupancyInv
<1>4. HostInv'
  BY DEF NewWorker, ServiceInv, HostInv, NoStrayProcess
<1>5. ReadinessInv'
  BY EngineFacts DEF NewWorker, ServiceInv, ReadinessInv, ReadyMeansOwn
<1>6. DrillInv'
  BY DEF NewWorker, ServiceInv, DrillInv
<1> QED
  BY <1>2, <1>3, <1>4, <1>5, <1>6 DEF ServiceInv

LEMMA OperatorClearsKeeps ==
  ASSUME ServiceInv, NEW t \in Tasks, OperatorClears(t)
  PROVE  ServiceInv'
<1>1. /\ active = {} /\ job = Idle /\ Idle.task = NoTask
      /\ \/ procs' = [procs EXCEPT ![t] = {}] /\ dirs' = dirs
         \/ procs[t] = {} /\ procs' = procs /\ dirs' = dirs \ {t}
  BY DEF OperatorClears, ServiceInv, OccupancyInv, Idle
<1>2. DrillInv'
  <2>1. CASE drill.task = t
    <3>1. drill \in DrillRow /\ drill' = [drill EXCEPT !.dump = FALSE, !.restored = FALSE]
      BY <2>1 DEF OperatorClears, ServiceInv, DrillInv
    <3>2. drill' \in DrillRow
      BY <3>1, Zenon DEF DrillRow
    <3>3. /\ drill'.dump = FALSE /\ drill'.restored = FALSE /\ drill'.at = drill.at
          /\ drill'.answer = drill.answer /\ drill'.known = drill.known
      BY <3>1, Zenon DEF DrillRow
    <3> QED
      BY <3>2, <3>3 DEF ServiceInv, DrillInv
  <2>2. CASE drill.task # t
    BY <2>2 DEF OperatorClears, ServiceInv, DrillInv
  <2> QED
    BY <2>1, <2>2
<1>3. TypeOK'
  BY <1>1, <1>2, EngineFacts, DrillLength
     DEF OperatorClears, ServiceInv, TypeOK, DrillInv, DrillRow
<1>4. OccupancyInv'
  BY DEF OperatorClears, ServiceInv, OccupancyInv
<1>5. HostInv'
  BY <1>1 DEF OperatorClears, ServiceInv, TypeOK, HostInv, NoStrayProcess
<1>6. ReadinessInv'
  BY <1>1, EngineFacts, ServiceAssumption
     DEF OperatorClears, ServiceInv, TypeOK, ReadinessInv, ReadyMeansOwn
<1> QED
  BY <1>2, <1>3, <1>4, <1>5, <1>6 DEF ServiceInv

\* A step of the drill touches nothing of the services.
LEMMA DrillStepKeeps ==
  ASSUME ServiceInv, DrillStep, DrillInv', faults' \in 0..MaxFaults
  PROVE  ServiceInv'
<1>1. TypeOK'
  BY EngineFacts, DrillLength DEF DrillStep, ServiceInv, TypeOK, DrillInv, DrillRow
<1>2. OccupancyInv'
  BY DEF DrillStep, ServiceInv, OccupancyInv
<1>3. HostInv'
  BY DEF DrillStep, ServiceInv, HostInv, NoStrayProcess
<1>4. ReadinessInv'
  BY EngineFacts DEF DrillStep, ServiceInv, ReadinessInv, ReadyMeansOwn
<1> QED
  BY <1>1, <1>2, <1>3, <1>4 DEF ServiceInv

LEMMA BeginDrillKeeps ==
  ASSUME ServiceInv, NEW t \in Tasks, BeginDrill(t)
  PROVE  ServiceInv'
<1>1. drill' = [task |-> t, at |-> 1, dump |-> TRUE, restored |-> FALSE, known |-> FALSE,
                answer |-> "none"]
  BY DEF BeginDrill, NoDrill
<1>2. DrillInv'
  BY <1>1 DEF DrillInv, DrillRow
<1> QED
  BY <1>2, DrillStepKeeps DEF BeginDrill, ServiceInv, TypeOK

LEMMA DrillAdvancesKeeps ==
  ASSUME ServiceInv, DrillAdvances
  PROVE  ServiceInv'
<1>1. drill \in DrillRow /\ drill.answer = "none" /\ drill.at \in 1..5
      /\ (drill.at > 4 => drill.known) /\ (drill.at = 4 => CreatesDatabase)
  BY DrillLength
     DEF DrillAdvances, CreatesDatabase, DrillStage, DrillStages, ServiceInv, DrillInv
<1>2. /\ drill' \in DrillRow
      /\ drill'.answer = drill.answer /\ drill'.at = drill.at + 1
      /\ drill.known \/ CreatesDatabase => drill'.known
  <2> DEFINE restored == drill.restored \/ CreatesDatabase
             known == drill.known \/ CreatesDatabase
             at == drill.at + 1
  <2>1. drill' = [drill EXCEPT !.at = at, !.restored = restored, !.known = known]
    BY DEF DrillAdvances
  <2>2. at \in 0..6 /\ restored \in BOOLEAN /\ known \in BOOLEAN
    BY <1>1
  <2> HIDE DEF restored, known, at
  <2>3. drill' \in DrillRow /\ drill'.answer = drill.answer /\ drill'.at = at /\ drill'.known = known
    BY <1>1, <2>1, <2>2, Zenon DEF DrillRow
  <2> QED
    BY <2>3 DEF at, known
<1>3. DrillInv'
  BY <1>1, <1>2 DEF DrillInv
<1> QED
  BY <1>3, DrillStepKeeps DEF DrillAdvances, ServiceInv, TypeOK

LEMMA DrillCleanupKeeps ==
  ASSUME ServiceInv, NEW drops \in BOOLEAN, NEW removes \in BOOLEAN,
         NEW answer \in {"failed", "partial", "complete"},
         answer = "complete" => drops /\ removes /\ drill.known,
         DrillCleanup(drops, removes, answer)
  PROVE  ServiceInv'
<1> DEFINE dump == ~removes
           restored == drill.restored /\ ~(drill.known /\ drops)
<1>1. drill' = [drill EXCEPT !.at = 0, !.dump = dump, !.answer = answer, !.restored = restored]
  BY DEF DrillCleanup
<1>2. dump \in BOOLEAN /\ restored \in BOOLEAN /\ 0 \in 0..6 /\ drill \in DrillRow
  BY DEF ServiceInv, DrillInv
<1>3. answer = "complete" => ~dump /\ ~restored
  OBVIOUS
<1> HIDE DEF dump, restored
<1>4. /\ drill' \in DrillRow /\ drill'.at = 0 /\ drill'.dump = dump
      /\ drill'.restored = restored /\ drill'.answer = answer
  BY <1>1, <1>2, Zenon DEF DrillRow
<1>5. DrillInv'
  BY <1>3, <1>4 DEF DrillInv
<1>6. faults' \in 0..MaxFaults
  BY ServiceAssumption DEF DrillCleanup, ServiceInv, TypeOK
<1> QED
  BY <1>5, <1>6, DrillStepKeeps DEF DrillCleanup

LEMMA DrillFailsKeeps ==
  ASSUME ServiceInv, DrillFails
  PROVE  ServiceInv'
<1>1. CASE DrillStage = "tools"
  <2>1. drill \in DrillRow /\ drill' = [drill EXCEPT !.at = 0, !.answer = "failed"]
    BY <1>1 DEF DrillFails, ServiceInv, DrillInv
  <2>2. 0 \in 0..6
    OBVIOUS
  <2>3. drill' \in DrillRow /\ drill'.at = 0 /\ drill'.answer = "failed"
    BY <2>1, <2>2, Zenon DEF DrillRow
  <2>4. DrillInv'
    BY <2>3 DEF DrillInv
  <2> QED
    BY <1>1, <2>4, DrillStepKeeps DEF DrillFails, ServiceInv, TypeOK
<1>2. CASE DrillStage # "tools"
  BY <1>2, DrillCleanupKeeps DEF DrillFails
<1> QED
  BY <1>1, <1>2

LEMMA CreateInterruptedKeeps ==
  ASSUME ServiceInv, CreateInterrupted
  PROVE  ServiceInv'
<1>1. PICK removes \in BOOLEAN :
        /\ faults' = IF removes THEN faults ELSE faults + 1
        /\ faults' <= MaxFaults
        /\ drill' = [drill EXCEPT !.at = 0, !.dump = ~removes, !.restored = TRUE,
                                  !.answer = "failed"]
        /\ DrillStep
  BY DEF CreateInterrupted
<1> DEFINE dump == ~removes
<1>2. drill' = [drill EXCEPT !.at = 0, !.dump = dump, !.restored = TRUE, !.answer = "failed"]
  BY <1>1
<1>3. dump \in BOOLEAN /\ 0 \in 0..6 /\ drill \in DrillRow
  BY DEF ServiceInv, DrillInv
<1> HIDE DEF dump
<1>4. drill' \in DrillRow /\ drill'.at = 0 /\ drill'.answer = "failed"
  BY <1>2, <1>3, Zenon DEF DrillRow
<1>5. DrillInv'
  BY <1>4 DEF DrillInv
<1>6. faults' \in 0..MaxFaults
  BY <1>1, ServiceAssumption DEF ServiceInv, TypeOK
<1> QED
  BY <1>1, <1>5, <1>6, DrillStepKeeps

LEMMA DrillEndsKeeps ==
  ASSUME ServiceInv, DrillEnds
  PROVE  ServiceInv'
<1>1. drill.known
  BY DrillLength DEF DrillEnds, ServiceInv, DrillInv, DrillRow
<1>2. PICK drops \in BOOLEAN, removes \in BOOLEAN, match \in BOOLEAN :
        DrillCleanup(drops, removes, IF ~removes THEN "failed"
                                     ELSE IF drops /\ match THEN "complete" ELSE "partial")
  BY DEF DrillEnds
<1> DEFINE answer == IF ~removes THEN "failed"
                     ELSE IF drops /\ match THEN "complete" ELSE "partial"
<1>3. /\ answer \in {"failed", "partial", "complete"}
      /\ answer = "complete" => drops /\ removes
      /\ DrillCleanup(drops, removes, answer)
  BY <1>2
<1> HIDE DEF answer
<1> QED
  BY <1>1, <1>3, DrillCleanupKeeps

-----------------------------------------------------------------------------
(* The invariant, and what follows from it.                                 *)

LEMMA NextKeeps == ServiceInv /\ [Next]_vars => ServiceInv'
<1> SUFFICES ASSUME ServiceInv, [Next]_vars PROVE ServiceInv'
  OBVIOUS
<1>1. ASSUME NEW t \in Tasks, StartStep(t) PROVE ServiceInv'
  BY <1>1, StagePassesKeeps, SpawnKeeps, BecomeReadyKeeps, StopBootstrapKeeps, RegisterKeeps,
     FailBeforeTryKeeps, UnwindKeeps
     DEF StartStep
<1>2. ASSUME NEW t \in Tasks,
             \/ BeginStart(t) \/ RefuseStart(t) \/ LoseStart(t)
             \/ StopActive(t) \/ StopAbsent(t) \/ Expires(t) \/ BeginDrill(t) \/ OperatorClears(t)
      PROVE  ServiceInv'
  BY <1>2, BeginStartKeeps, RefuseStartKeeps, LoseStartKeeps, StopActiveKeeps, StopAbsentKeeps,
     ExpiresKeeps, BeginDrillKeeps, OperatorClearsKeeps
<1>3. CASE Drilling
  BY <1>3, DrillAdvancesKeeps, DrillFailsKeeps, CreateInterruptedKeeps, DrillEndsKeeps
     DEF Drilling
<1>4. CASE Interrupt \/ Kill \/ NewWorker
  BY <1>4, InterruptKeeps, KillKeeps, NewWorkerKeeps
<1>5. CASE UNCHANGED vars
  <2>1. DrillStep
    BY <1>5 DEF vars, DrillStep
  <2>2. DrillInv' /\ faults' \in 0..MaxFaults
    BY <1>5 DEF vars, ServiceInv, DrillInv, TypeOK
  <2> QED
    BY <2>1, <2>2, DrillStepKeeps
<1> QED
  BY <1>1, <1>2, <1>3, <1>4, <1>5 DEF Next

\* Whatever the worker, its host and the operator do, the invariant holds.
THEOREM ServiceInvariant == Spec => []ServiceInv
BY InitServiceInv, NextKeeps, PTL DEF Spec

\* Every variable of a worker and its host keeps its type.
THEOREM ServiceTypes == Spec => []TypeOK
<1>1. ServiceInv => TypeOK
  BY DEF ServiceInv
<1> QED
  BY <1>1, ServiceInvariant, PTL

\* A start answers ready only after it has reached its own process, although the
\* probes of PostgreSQL and web accept any listener: the residue check keeps it
\* away from a host where another service of its engine survives.
THEOREM ReadyIsOwn == Spec => []ReadyMeansOwn
<1>1. ServiceInv => ReadyMeansOwn
  BY DEF ServiceInv, ReadinessInv
<1> QED
  BY <1>1, ServiceInvariant, PTL

\* Every process of a service belongs to the start in progress, to a service of
\* the dictionaries, to a worker that was killed, or to a Redis start that ended
\* between its launch and its try; its directory is there in every case.
THEOREM NoProcessIsStray == Spec => []NoStrayProcess
<1>1. ServiceInv => NoStrayProcess
  BY DEF ServiceInv, HostInv
<1> QED
  BY <1>1, ServiceInvariant, PTL

\* cleanup_verified and a complete drill say the truth about the host, whatever
\* failed before.
THEOREM VerifiedCleanup == Spec => []CleanupVerifiedIsTrue
<1>1. ServiceInv => CleanupVerifiedIsTrue
  BY DEF ServiceInv, HostInv, NoStrayProcess, DrillInv, CleanupVerifiedIsTrue
<1> QED
  BY <1>1, ServiceInvariant, PTL

-----------------------------------------------------------------------------
(* Refinement: every step is a step of EphemeralService, or none.           *)

PromiseStep == [Promise!Next]_Seen

\* What is seen of a service depends on its start alone.
LEMMA SeenFrame ==
  ASSUME NEW t \in Tasks, t \in active' <=> t \in active, job'.task = t <=> job.task = t,
         start'[t] = "none" <=> start[t] = "none"
  PROVE  Seen'[t] = Seen[t]
BY DEF Seen

LEMMA SeenStutter ==
  ASSUME \A t \in Tasks : Seen'[t] = Seen[t]
  PROVE  PromiseStep
<1>1. Seen' = Seen
  BY DEF Seen
<1> QED
  BY <1>1 DEF PromiseStep

LEMMA SeenChange ==
  ASSUME NEW t \in Tasks, \A u \in Tasks : u # t => Seen'[u] = Seen[u]
  PROVE  Seen' = [Seen EXCEPT ![t] = Seen'[t]]
<1>1. Seen = [u \in Tasks |-> Seen[u]] /\ Seen' = [u \in Tasks |-> Seen'[u]]
  BY DEF Seen
<1> QED
  BY <1>1

LEMMA FrameStep ==
  ASSUME UNCHANGED <<active, start>>, \A t \in Tasks : job'.task = t <=> job.task = t
  PROVE  PromiseStep
BY SeenFrame, SeenStutter

LEMMA RemoveStep ==
  ASSUME NEW t \in Tasks, Seen[t] \in {"starting", "serving"}, Seen'[t] = "gone",
         \A u \in Tasks : u # t => Seen'[u] = Seen[u]
  PROVE  PromiseStep
BY SeenChange DEF PromiseStep, Promise!Next, Promise!Remove, Promise!Live

LEMMA AdmissionStep ==
  ASSUME ServiceInv, NEW t \in Tasks, BeginStart(t) \/ RefuseStart(t) \/ LoseStart(t)
  PROVE  PromiseStep
<1>1. /\ job = Idle /\ start[t] = "none" /\ t \notin active /\ active' = active
      /\ \A u \in Tasks : job.task # u
  BY ServiceAssumption
     DEF BeginStart, RefuseStart, LoseStart, Received, Free, ServiceInv, OccupancyInv, Idle
<1>2. Seen[t] = "absent"
  BY <1>1 DEF Seen
<1>3. CASE BeginStart(t)
  <2>1. /\ active = {} /\ job'.task = t
        /\ start' = [start EXCEPT ![t] = "busy"]
    BY <1>3 DEF BeginStart, Admits
  <2>2. Seen'[t] = "starting"
    BY <1>1, <2>1 DEF Seen
  <2>3. \A u \in Tasks : u # t => Seen'[u] = Seen[u]
    BY <1>1, <2>1, SeenFrame DEF ServiceInv, TypeOK
  <2>4. \A u \in Tasks : Seen[u] \notin {"starting", "serving"}
    BY <1>1, <2>1 DEF Seen
  <2> QED
    BY <1>2, <2>2, <2>3, <2>4, SeenChange
       DEF PromiseStep, Promise!Next, Promise!Start, Promise!Live
<1>4. CASE RefuseStart(t) \/ LoseStart(t)
  <2>1. job' = job /\ \E answer \in {"failed", "lost"} : start' = [start EXCEPT ![t] = answer]
    BY <1>4 DEF RefuseStart, LoseStart
  <2>2. Seen'[t] = "gone"
    BY <1>1, <2>1 DEF Seen, ServiceInv, TypeOK
  <2>3. \A u \in Tasks : u # t => Seen'[u] = Seen[u]
    BY <1>1, <2>1, SeenFrame DEF ServiceInv, TypeOK
  <2> QED
    BY <1>2, <2>2, <2>3, SeenChange DEF PromiseStep, Promise!Next, Promise!Refuse
<1> QED
  BY <1>3, <1>4

LEMMA StartPromise ==
  ASSUME ServiceInv, NEW t \in Tasks, StartStep(t)
  PROVE  PromiseStep
<1>1. /\ job.task = t /\ t # NoTask /\ active = {} /\ start[t] = "busy"
      /\ \A u \in Tasks : u # t => job.task # u
  <2>1. Executing(t)
    BY DEF StartStep, StagePasses, Spawn, BecomeReady, StopBootstrap, Register, FailBeforeTry,
           Unwind
  <2> QED
    BY <2>1, ServiceAssumption DEF Executing, ServiceInv, OccupancyInv, Idle
<1>2. Seen[t] = "starting"
  BY <1>1 DEF Seen
<1>3. CASE StagePasses(t) \/ Spawn(t) \/ BecomeReady(t) \/ StopBootstrap(t)
  <2>1. Advance(t)
    BY <1>3 DEF StagePasses, Spawn, BecomeReady, StopBootstrap
  <2>2. job'.task = job.task
    BY <2>1 DEF Advance, ServiceInv, TypeOK
  <2> QED
    BY <2>1, <2>2, FrameStep DEF Advance
<1>4. CASE Register(t)
  <2>1. active' = {t} /\ job'.task = NoTask /\ start' = [start EXCEPT ![t] = "ready"]
    BY <1>1, <1>4 DEF Register, Idle
  <2>2. Seen'[t] = "serving"
    BY <2>1 DEF Seen
  <2>3. \A u \in Tasks : u # t => Seen'[u] = Seen[u]
    BY <1>1, <2>1, SeenFrame, ServiceAssumption DEF ServiceInv, TypeOK
  <2> QED
    BY <1>2, <2>2, <2>3, SeenChange DEF PromiseStep, Promise!Next, Promise!Serve
<1>5. CASE FailBeforeTry(t) \/ Unwind(t)
  <2>1. /\ active' = {} /\ job'.task = NoTask
        /\ \E answer \in {"failed", "lost"} : start' = [start EXCEPT ![t] = answer]
    BY <1>1, <1>5 DEF FailBeforeTry, Unwind, Ends, Idle
  <2>2. Seen'[t] = "gone"
    BY <2>1, ServiceAssumption DEF Seen, ServiceInv, TypeOK
  <2>3. \A u \in Tasks : u # t => Seen'[u] = Seen[u]
    BY <1>1, <2>1, SeenFrame, ServiceAssumption DEF ServiceInv, TypeOK
  <2> QED
    BY <1>2, <2>2, <2>3, RemoveStep
<1> QED
  BY <1>3, <1>4, <1>5 DEF StartStep

\* A service that leaves the dictionaries.
LEMMA LeavePromise ==
  ASSUME ServiceInv, job = Idle, job' = Idle, UNCHANGED start,
         active' = active \/ active' = {}
  PROVE  PromiseStep
<1>1. \A t \in Tasks : job.task # t /\ job'.task # t
  BY ServiceAssumption DEF Idle
<1>2. CASE active' = active
  BY <1>2, FrameStep
<1>3. CASE active # {} /\ active' = {}
  <2>1. PICK t \in active : TRUE
    BY <1>3
  <2>2. t \in Tasks /\ active = {t} /\ start[t] = "ready"
    BY <2>1 DEF ServiceInv, TypeOK, OccupancyInv
  <2>3. Seen[t] = "serving" /\ Seen'[t] = "gone"
    BY <1>1, <1>3, <2>2 DEF Seen
  <2>4. \A u \in Tasks : u # t => Seen'[u] = Seen[u]
    BY <1>1, <1>3, <2>2, SeenFrame
  <2> QED
    BY <2>2, <2>3, <2>4, RemoveStep
<1> QED
  BY <1>2, <1>3

LEMMA KillPromise ==
  ASSUME ServiceInv, Kill
  PROVE  PromiseStep
<1>1. /\ active' = {} /\ job' = Idle
      /\ start' = [t \in Tasks |-> IF job.task = t THEN "lost" ELSE start[t]]
      /\ \A t \in Tasks : job'.task # t
  BY ServiceAssumption DEF Kill, Idle
<1>2. CASE job = Idle
  <2>1. start' = start
    BY <1>1, <1>2, ServiceAssumption DEF Idle, ServiceInv, TypeOK
  <2> QED
    BY <1>1, <1>2, <2>1, LeavePromise
<1>3. CASE job # Idle
  <2>1. PICK t \in Tasks : job.task = t
    BY <1>3 DEF ServiceInv, TypeOK
  <2>2. active = {}
    BY <1>3 DEF ServiceInv, OccupancyInv
  <2>3. Seen[t] = "starting" /\ Seen'[t] = "gone"
    BY <1>1, <2>1, <2>2 DEF Seen
  <2>4. \A u \in Tasks : u # t => Seen'[u] = Seen[u]
    BY <1>1, <2>1, <2>2, SeenFrame
  <2> QED
    BY <2>3, <2>4, RemoveStep
<1> QED
  BY <1>2, <1>3

LEMMA EveryPromiseStep == ServiceInv /\ [Next]_vars => PromiseStep
<1> SUFFICES ASSUME ServiceInv, [Next]_vars PROVE PromiseStep
  OBVIOUS
<1>1. ASSUME NEW t \in Tasks, BeginStart(t) \/ RefuseStart(t) \/ LoseStart(t) \/ StartStep(t)
      PROVE  PromiseStep
  BY <1>1, AdmissionStep, StartPromise
<1>2. ASSUME NEW t \in Tasks, StopActive(t) \/ StopAbsent(t) \/ Expires(t) PROVE PromiseStep
  <2>1. job = Idle /\ job' = Idle /\ UNCHANGED start
    BY <1>2 DEF StopActive, StopAbsent, Expires, AskedToStop, Free
  <2>2. active' = active \/ (active' = active \ {t} /\ t \in active)
    BY <1>2 DEF StopActive, StopAbsent, Expires
  <2>3. active' = active \/ active' = {}
    BY <2>2 DEF ServiceInv, OccupancyInv
  <2> QED
    BY <2>1, <2>3, LeavePromise
<1>3. ASSUME NEW t \in Tasks, BeginDrill(t) \/ OperatorClears(t) PROVE PromiseStep
  BY <1>3, FrameStep DEF BeginDrill, DrillStep, OperatorClears
<1>4. CASE Drilling
  BY <1>4, FrameStep
     DEF Drilling, DrillAdvances, DrillFails, CreateInterrupted, DrillEnds, DrillCleanup, DrillStep
<1>5. CASE Interrupt
  BY <1>5, LeavePromise DEF Interrupt, Free
<1>6. CASE Kill
  BY <1>6, KillPromise
<1>7. CASE NewWorker
  BY <1>7, FrameStep DEF NewWorker
<1>8. CASE UNCHANGED vars
  BY <1>8, FrameStep DEF vars
<1> QED
  BY <1>1, <1>2, <1>3, <1>4, <1>5, <1>6, <1>7, <1>8 DEF Next

\* Whatever its worker does, an Agent shows to the Controller the services that
\* EphemeralService allows: one at a time, each started once, none that returns.
THEOREM ServiceRefinement == Spec => ImplementsService
<1>1. Init => Promise!Init
  BY ServiceAssumption DEF Init, Idle, Seen, Promise!Init
<1>2. ServiceInv /\ [Next]_vars => [Promise!Next]_Seen
  BY EveryPromiseStep DEF PromiseStep
<1> QED
  BY <1>1, <1>2, ServiceInvariant, PTL DEF Spec, ImplementsService, Promise!Spec
=============================================================================

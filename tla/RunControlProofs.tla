-------------------------- MODULE RunControlProofs --------------------------
(***************************************************************************)
(* Proofs about RunControl: its invariant is inductive for every number of *)
(* Runs, Agents, hosts, handlers, jobs and restarts; target exclusion and  *)
(* release follow from it; and RunControl implements RunLedger.            *)
(***************************************************************************)
EXTENDS RunControl, FiniteSetTheorems, TLAPS

\* A run of the task table stays countable, so created_at is a number.
LEMMA CreatedType == Cardinality(Rows) + 1 \in Nat
<1>1. IsFiniteSet(Rows)
  BY RunControlAssumption, FS_Subset DEF Rows
<1> QED
  BY <1>1, FS_CardinalityType

LEMMA EvidenceFacts ==
  /\ 0 \in Evidence /\ FinalEvidence \in Evidence /\ Partial \subseteq Evidence /\ 0 \in Partial
  /\ \A e \in Evidence, f \in Evidence : Coalesce(e, f) \in Evidence
BY RunControlAssumption DEF Evidence, FinalEvidence, Partial, Coalesce

LEMMA InitTypeOK == Init => TypeOK
BY EvidenceFacts, RunControlAssumption
   DEF Init, TypeOK, TasksInit, TasksTypeOK, Row, NoRow, Active, Terminal, RunRow, RunStatus,
       Open, Worker, NoWorker, Outcomes, Handler, IdleHandler, Agent, IdleAgent, Targets

USE DEF Active, Terminal, Open, RunStatus

LEMMA WorkerStepType ==
  ASSUME TypeOK, NEW r \in Runs,
         NEW pc \in {"none", "created", "ready", "dispatching", "creating", "polling",
                 "unwinding", "aborting", "local", "sweeping", "settling", "leaving", "gone"},
         NEW outcome \in Outcomes, NEW carried \in Evidence,
         WorkerStep(r, pc, outcome, carried)
  PROVE  /\ worker' \in [Runs -> Worker]
         /\ UNCHANGED <<cancelled, registered, canceller, handler, agents, restarts>>
BY DEF WorkerStep, TypeOK, Worker

\* The operations of the task table keep its type.
LEMMA TaskOpsType ==
  ASSUME TasksTypeOK
  PROVE  /\ \A t \in Runs, r \in Runs, a \in Agents, s \in BOOLEAN :
              CreateAgentTask(t, r, a, s) => TasksTypeOK'
         /\ \A a \in Agents, t \in Runs : ClaimAgentTask(a, t) => TasksTypeOK'
         /\ \A t \in Runs, a \in Agents, s \in Terminal, e \in Evidence :
              FinishAgentTask(t, a, s, e) => TasksTypeOK'
         /\ \A t \in Runs, a \in Agents, e \in Evidence :
              UpdateAgentTaskProgress(t, a, e) => TasksTypeOK'
         /\ \A t \in Runs : AbortAgentTask(t) => TasksTypeOK'
         /\ \A r \in Runs : CancelQueuedRunTasks(r) => TasksTypeOK'
         /\ RecoverTasks => TasksTypeOK'
<1>1. ASSUME NEW t \in Runs, NEW r \in Runs, NEW a \in Agents, NEW s \in BOOLEAN,
             CreateAgentTask(t, r, a, s)
      PROVE TasksTypeOK'
  BY <1>1, CreatedType, EvidenceFacts DEF CreateAgentTask, TasksTypeOK, Row
<1>2. ASSUME NEW a \in Agents, NEW t \in Runs, ClaimAgentTask(a, t) PROVE TasksTypeOK'
  BY ZenonT(60), <1>2 DEF ClaimAgentTask, TasksTypeOK, Row
<1>3. ASSUME NEW t \in Runs, NEW a \in Agents, NEW s \in Terminal, NEW e \in Evidence,
             FinishAgentTask(t, a, s, e)
      PROVE TasksTypeOK'
  <2>1. Coalesce(e, tasks[t].result) \in Evidence
    BY EvidenceFacts DEF TasksTypeOK, Row
  <2>2. CASE tasks[t].agent = a /\ tasks[t].status = "running"
    <3> DEFINE c == Coalesce(e, tasks[t].result)
    <3>1. tasks' = [tasks EXCEPT ![t].status = s, ![t].secret = FALSE, ![t].result = c]
      BY <1>3, <2>2 DEF FinishAgentTask
    <3>2. c \in Evidence
      BY <2>1
    <3> HIDE DEF c
    <3> DEFINE row == [tasks[t] EXCEPT !.status = s, !.secret = FALSE, !.result = c]
    <3>3. tasks[t] \in Row /\ tasks \in [Runs -> Row]
      BY DEF TasksTypeOK
    <3>4. row \in Row
      BY <3>2, <3>3 DEF Row
    <3>5. tasks' = [tasks EXCEPT ![t] = row]
      BY <3>1, <3>3
    <3> HIDE DEF row
    <3> QED
      BY <3>3, <3>4, <3>5 DEF TasksTypeOK
  <2>3. CASE ~(tasks[t].agent = a /\ tasks[t].status = "running")
    <3> DEFINE bare == [tasks[t] EXCEPT !.secret = FALSE]
    <3>1. tasks[t] \in Row /\ tasks \in [Runs -> Row]
      BY DEF TasksTypeOK
    <3>2. tasks' = [tasks EXCEPT ![t] = bare] \/ tasks' = tasks
      BY <1>3, <2>3, <3>1 DEF FinishAgentTask
    <3>3. bare \in Row
      BY <3>1 DEF Row
    <3> HIDE DEF bare
    <3> QED
      BY <3>1, <3>2, <3>3 DEF TasksTypeOK
  <2> QED
    BY <2>2, <2>3
<1>4. ASSUME NEW t \in Runs, NEW a \in Agents, NEW e \in Evidence,
             UpdateAgentTaskProgress(t, a, e)
      PROVE TasksTypeOK'
  BY <1>4, EvidenceFacts DEF UpdateAgentTaskProgress, TasksTypeOK, Row
<1>5. ASSUME NEW t \in Runs, AbortAgentTask(t) PROVE TasksTypeOK'
  BY ZenonT(60), <1>5 DEF AbortAgentTask, TasksTypeOK, Row
<1>6. ASSUME NEW r \in Runs, CancelQueuedRunTasks(r) PROVE TasksTypeOK'
  <2>1. ASSUME NEW t \in Runs
        PROVE  (IF tasks[t].run = r /\ tasks[t].status = "queued"
                THEN [tasks[t] EXCEPT !.status = "cancelled", !.secret = FALSE]
                ELSE tasks[t]) \in Row
    BY DEF TasksTypeOK, Row
  <2> QED
    BY <1>6, <2>1 DEF CancelQueuedRunTasks, TasksTypeOK
<1>7. RecoverTasks => TasksTypeOK'
  <2>1. ASSUME NEW t \in Runs
        PROVE  [tasks[t] EXCEPT !.status = IF @ \in Active THEN "cancelled" ELSE @,
                                !.secret = FALSE] \in Row
    BY DEF TasksTypeOK, Row
  <2> QED
    BY <2>1 DEF RecoverTasks, TasksTypeOK
<1> QED
  BY <1>1, <1>2, <1>3, <1>4, <1>5, <1>6, <1>7

-----------------------------------------------------------------------------
(* Type correctness, together with what requests and Agents refer to.       *)

TypeInv == TypeOK /\ ReferenceInv

LEMMA InitTypeInv == Init => TypeInv
BY InitTypeOK DEF Init, TypeInv, ReferenceInv, IdleHandler, IdleAgent

\* The steps of a worker thread.
LEMMA WorkerTypeStep ==
  ASSUME ControlInv, NEW r \in Runs,
         \/ WorkerMoves(r) \/ PollExpired(r) \/ PollSilent(r)
         \/ LocalReport(r) \/ LocalStop(r) \/ LocalEnd(r)
  PROVE  TypeInv'
<1> TypeOK /\ ReferenceInv
  BY DEF ControlInv
<1> USE DEF TypeInv
<1>0. /\ worker[r] \in Worker /\ runs[r] \in RunRow /\ tasks[r] \in Row
      /\ worker[r].outcome \in Outcomes /\ worker[r].carried \in Evidence
      /\ runs[r].result \in Evidence /\ tasks[r].result \in Evidence
      /\ "failed" \in Outcomes /\ "cancelled" \in Outcomes /\ "timed-out" \in Outcomes
      /\ "completed" \in Outcomes /\ "none" \in Outcomes
  BY DEF TypeOK, TasksTypeOK, Worker, RunRow, Row, Outcomes
<1>1. CASE RegisterToken(r)
  BY <1>1 DEF RegisterToken, TypeOK, TasksTypeOK, Worker, ReferenceInv
<1>2. CASE Begin(r)
  BY ZenonT(60), <1>2 DEF Begin, TypeOK, TasksTypeOK, Worker, RunRow, ReferenceInv
<1>3. CASE Dispatch(r)
  BY <1>0, <1>3, EvidenceFacts, WorkerStepType DEF Dispatch, TypeOK, TasksTypeOK, ReferenceInv
<1>4. CASE CreateTask(r)
  <2>1. runs[r].target \in Agents
    BY <1>4 DEF CreateTask, ControlInv, WorkerInv
  <2>2. TasksTypeOK'
    BY <1>4, <2>1, TaskOpsType DEF CreateTask, TypeOK
  <2> QED
    BY <1>0, <1>4, <2>2, EvidenceFacts, WorkerStepType DEF CreateTask, TypeOK, ReferenceInv
<1>5. CASE PollCancelled(r) \/ PollExpired(r)
  BY <1>0, <1>5, EvidenceFacts, WorkerStepType
     DEF PollCancelled, PollExpired, TypeOK, TasksTypeOK, ReferenceInv
<1>6. CASE PollClosed(r) \/ PollSilent(r)
  BY <1>0, <1>6, EvidenceFacts, WorkerStepType
     DEF PollClosed, PollSilent, TypeOK, TasksTypeOK, ReferenceInv
<1>7. CASE Unwind(r)
  BY <1>0, <1>7, EvidenceFacts, WorkerStepType DEF Unwind, TypeOK, TasksTypeOK, ReferenceInv
<1>8. CASE Abort(r)
  BY <1>0, <1>8, TaskOpsType, WorkerStepType DEF Abort, TypeOK, ReferenceInv
<1>9. CASE Sweep(r)
  BY <1>0, <1>9, TaskOpsType, WorkerStepType DEF Sweep, TypeOK, ReferenceInv
<1>10. CASE Settle(r)
  <2>1. StatusOf(worker[r].outcome) \in Outcomes /\ worker[r].pc = "settling"
    BY <1>0, <1>10 DEF StatusOf, Outcomes, Settle
  <2>2. worker[r].outcome # "none"
    BY <2>1 DEF ControlInv, WorkerInv, Finishing
  <2>3. StatusOf(worker[r].outcome) \in Terminal
    BY <1>0, <2>2 DEF StatusOf, Outcomes
  <2>4. Coalesce(worker[r].carried, runs[r].result) \in Evidence
    BY <1>0, EvidenceFacts
  <2>5. runs' \in [Runs -> RunRow]
    BY ZenonT(60), <1>10, <2>3, <2>4 DEF Settle, TypeOK, RunRow
  <2> QED
    BY <1>10, <2>1, <2>5, EvidenceFacts, WorkerStepType
       DEF Settle, TypeOK, TasksTypeOK, ReferenceInv
<1>11. CASE Leave(r)
  BY <1>11 DEF Leave, TypeOK, TasksTypeOK, Worker, ReferenceInv
<1>12. CASE LocalReport(r)
  <2>1. runs' \in [Runs -> RunRow]
    <3>1. PICK v \in Evidence : runs' = [runs EXCEPT ![r].result = v]
      BY <1>0, <1>12, EvidenceFacts DEF LocalReport
    <3>2. runs \in [Runs -> RunRow] /\ [runs[r] EXCEPT !.result = v] \in RunRow
      BY <1>0 DEF TypeOK, RunRow
    <3>3. runs' = [runs EXCEPT ![r] = [runs[r] EXCEPT !.result = v]]
      BY <3>1
    <3> QED
      BY <3>2, <3>3
  <2> QED
    BY <1>12, <2>1 DEF LocalReport, TypeOK, TasksTypeOK, ReferenceInv
<1>13. CASE LocalStop(r) \/ LocalEnd(r)
  BY <1>0, <1>13, EvidenceFacts, WorkerStepType
     DEF LocalStop, LocalEnd, TypeOK, TasksTypeOK, ReferenceInv
<1> QED
  BY <1>1, <1>2, <1>3, <1>4, <1>5, <1>6, <1>7, <1>8, <1>9, <1>10, <1>11, <1>12, <1>13
     DEF WorkerMoves

\* The steps of the operator's cancellation and of the progress handlers.
LEMMA HandlerTypeStep ==
  ASSUME ControlInv,
         \/ \E r \in Runs : CancelCheck(r) \/ CancelMoves(r)
         \/ \E h \in Handlers : HandlerMoves(h) \/ GiveUp(h)
         \/ \E a \in Agents, h \in Handlers : ProgressReceived(a, h)
  PROVE  TypeInv'
<1> TypeOK /\ ReferenceInv
  BY DEF ControlInv
<1> USE DEF TypeInv
<1>1. ASSUME NEW r \in Runs, CancelCheck(r) \/ RequestCancel(r) \/ CancelToken(r)
      PROVE  TypeInv'
  <2>1. CASE CancelCheck(r) \/ CancelToken(r)
    BY <2>1 DEF CancelCheck, CancelToken, CancelStep, TypeOK, TasksTypeOK, ReferenceInv
  <2>2. CASE RequestCancel(r)
    <3> DEFINE flag == runs[r].cancel \/ runs[r].status \in Open
    <3>1. flag \in BOOLEAN
      OBVIOUS
    <3>2. runs' = [runs EXCEPT ![r].cancel = flag]
      BY <2>2 DEF RequestCancel, TypeOK, RunRow
    <3> HIDE DEF flag
    <3>3. runs' \in [Runs -> RunRow]
      BY <3>1, <3>2 DEF TypeOK, RunRow
    <3> QED
      BY <2>2, <3>3 DEF RequestCancel, CancelStep, TypeOK, TasksTypeOK, ReferenceInv
  <2> QED
    BY <1>1, <2>1, <2>2
<1>2. ASSUME NEW r \in Runs, CancelQueued(r) PROVE TypeInv'
  BY <1>2, TaskOpsType DEF CancelQueued, CancelStep, TypeOK, ReferenceInv
<1>3. ASSUME NEW h \in Handlers, ReadRun(h) PROVE TypeInv'
  <2>1. handler[h].task \in Runs /\ runs[handler[h].task].cancel \in BOOLEAN
    BY <1>3 DEF ReadRun, ReferenceInv, TypeOK, RunRow
  <2>2. handler' \in [Handlers -> Handler]
    <3> DEFINE run == runs[handler[h].task]
               pc == IF run.status \in Open THEN "writing" ELSE "replying"
               stop == run.cancel \/ run.status \notin Open
    <3>1. pc \in {"writing", "replying"} /\ stop \in BOOLEAN
      OBVIOUS
    <3>2. handler' = [handler EXCEPT ![h].pc = pc, ![h].cancel = stop]
      BY <1>3 DEF ReadRun
    <3> HIDE DEF pc, stop
    <3>3. handler \in [Handlers -> Handler]
      BY DEF TypeOK
    <3>4. [handler[h] EXCEPT !.pc = pc, !.cancel = stop] \in Handler
      BY <3>1, <3>3 DEF Handler
    <3>5. handler' = [handler EXCEPT ![h] = [handler[h] EXCEPT !.pc = pc, !.cancel = stop]]
      BY <3>2, <3>3
    <3> QED
      BY <3>3, <3>4, <3>5
  <2>3. ReferenceInv'
    BY <1>3 DEF ReadRun, ReferenceInv, TypeOK, Handler
  <2> QED
    BY <1>3, <2>2, <2>3 DEF ReadRun, TypeOK, TasksTypeOK
<1>4. ASSUME NEW h \in Handlers, WriteRun(h) PROVE TypeInv'
  <2>1. handler[h].task \in Runs /\ handler[h].result \in Evidence
    BY <1>4 DEF WriteRun, ReferenceInv, TypeOK, Handler
  <2>2. Coalesce(handler[h].result, runs[handler[h].task].result) \in Evidence
    BY <2>1, EvidenceFacts DEF TypeOK, RunRow
  <2>3. runs' \in [Runs -> RunRow]
    BY <1>4, <2>1, <2>2 DEF WriteRun, TypeOK, RunRow
  <2> QED
    BY <1>4, <2>3 DEF WriteRun, TypeOK, TasksTypeOK, Handler, ReferenceInv
<1>5. ASSUME NEW h \in Handlers, Reply(h) PROVE TypeInv'
  <2>1. ASSUME NEW a \in Agents
        PROVE  [agents[a] EXCEPT !.stop = @ \/ handler[h].cancel] \in Agent
    BY DEF TypeOK, Agent, Handler
  <2>2. agents' \in [Agents -> Agent]
    BY <1>5, <2>1 DEF Reply, TypeOK
  <2>3. handler' \in [Handlers -> Handler]
    BY <1>5, EvidenceFacts DEF Reply, TypeOK, Handler, IdleHandler
  <2>4. ReferenceInv'
    BY <1>5 DEF Reply, ReferenceInv, IdleHandler, TypeOK, Agent, Handler
  <2> QED
    BY <1>5, <2>2, <2>3, <2>4 DEF Reply, TypeOK, TasksTypeOK
<1>6. ASSUME NEW h \in Handlers, GiveUp(h) PROVE TypeInv'
  <2>1. handler' = [handler EXCEPT ![h] = [handler[h] EXCEPT !.awaited = FALSE]]
    BY <1>6 DEF GiveUp
  <2>2. handler \in [Handlers -> Handler] /\ [handler[h] EXCEPT !.awaited = FALSE] \in Handler
    BY DEF TypeOK, Handler
  <2>3. handler' \in [Handlers -> Handler]
    BY <2>1, <2>2
  <2>4. ReferenceInv'
    BY <1>6, <2>1, <2>2 DEF GiveUp, ReferenceInv, Handler
  <2> QED
    BY <1>6, <2>3, <2>4 DEF GiveUp, TypeOK, TasksTypeOK
<1>7. ASSUME NEW a \in Agents, NEW h \in Handlers, ProgressReceived(a, h) PROVE TypeInv'
  <2>1. agents[a].task \in Runs /\ agents[a].jobs \in Evidence
    BY <1>7, EvidenceFacts DEF ProgressReceived, ReferenceInv, TypeOK, Agent
  <2>2. TasksTypeOK'
    BY <1>7, <2>1, TaskOpsType DEF ProgressReceived, TypeOK
  <2>3. handler' \in [Handlers -> Handler] /\ ReferenceInv'
    BY <1>7, <2>1 DEF ProgressReceived, TypeOK, Handler, ReferenceInv
  <2> QED
    BY <1>7, <2>2, <2>3 DEF ProgressReceived, TypeOK
<1> QED
  BY <1>1, <1>2, <1>3, <1>4, <1>5, <1>6, <1>7 DEF CancelMoves, HandlerMoves

\* The steps of an Agent process.
AgentMoves(a) ==
  \/ \E t \in Runs : Claim(a, t)
  \/ ProgressRefused(a) \/ FinishJob(a) \/ LoseContact(a) \/ Conclude(a)
  \/ PostResult(a) \/ PostResultUnanswered(a) \/ AgentCrash(a)

LEMMA AgentTypeStep ==
  ASSUME ControlInv, NEW a \in Agents, AgentMoves(a)
  PROVE  TypeInv'
<1> TypeOK /\ ReferenceInv
  BY DEF ControlInv
<1> USE DEF TypeInv
<1>0. agents[a] \in Agent /\ IdleAgent \in Agent
  BY EvidenceFacts DEF TypeOK, Agent, IdleAgent
<1>1. ASSUME NEW t \in Runs, Claim(a, t) PROVE TypeInv'
  <2>1. TasksTypeOK'
    BY <1>1, TaskOpsType DEF Claim, TypeOK
  <2>2. [IdleAgent EXCEPT !.mode = "busy", !.task = t] \in Agent
    BY <1>0 DEF Agent, IdleAgent
  <2> QED
    BY ZenonT(60), <1>0, <1>1, <2>1, <2>2 DEF Claim, AgentStep, TypeOK, ReferenceInv, IdleAgent
<1>2. CASE ProgressRefused(a)
  BY ZenonT(60), <1>2 DEF ProgressRefused, TypeOK, TasksTypeOK, Agent, ReferenceInv
<1>3. CASE FinishJob(a)
  <2>1. agents[a].jobs + 1 \in Partial
    BY <1>0, <1>3, RunControlAssumption DEF FinishJob, Agent, Partial
  <2> QED
    BY <1>3, <2>1 DEF FinishJob, AgentStep, TypeOK, TasksTypeOK, Agent, ReferenceInv
<1>4. CASE LoseContact(a)
  BY ZenonT(60), <1>4 DEF LoseContact, AgentStep, TypeOK, TasksTypeOK, Agent, ReferenceInv
<1>5. CASE Conclude(a)
  <2>1. PICK status \in Terminal :
          AgentStep(a, [agents[a] EXCEPT !.mode = "posting", !.status = status,
            !.result = IF status = "completed" THEN FinalEvidence ELSE agents[a].jobs])
    BY <1>5 DEF Conclude
  <2> DEFINE result == IF status = "completed" THEN FinalEvidence ELSE agents[a].jobs
  <2>2. result \in Evidence
    BY <1>0, EvidenceFacts DEF Agent
  <2> HIDE DEF result
  <2>3. agents' = [agents EXCEPT ![a] =
                     [agents[a] EXCEPT !.mode = "posting", !.status = status, !.result = result]]
    BY <2>1 DEF AgentStep, result
  <2>4. [agents[a] EXCEPT !.mode = "posting", !.status = status, !.result = result] \in Agent
    BY <1>0, <2>2 DEF Agent
  <2>5. agents' \in [Agents -> Agent]
    BY <2>3, <2>4 DEF TypeOK
  <2>6. agents[a].task \in Runs
    BY <1>5 DEF Conclude, ReferenceInv
  <2>7. ReferenceInv'
    BY <1>0, <2>1, <2>3, <2>6 DEF AgentStep, TypeOK, Agent, ReferenceInv
  <2> QED
    BY <1>5, <2>1, <2>5, <2>7 DEF Conclude, AgentStep, TypeOK, TasksTypeOK
<1>6. CASE PostResult(a) \/ PostResultUnanswered(a)
  <2>1. /\ agents[a].task \in Runs /\ agents[a].status \in Terminal /\ agents[a].result \in Evidence
        /\ FinishAgentTask(agents[a].task, a, agents[a].status, agents[a].result)
    BY <1>0, <1>6 DEF PostResult, PostResultUnanswered, ReferenceInv, Agent
  <2>2. TasksTypeOK'
    BY <2>1, TaskOpsType DEF TypeOK
  <2>3. AgentStep(a, IdleAgent) \/ AgentStep(a, agents[a])
    BY <1>6 DEF PostResult, PostResultUnanswered
  <2>4. agents' \in [Agents -> Agent]
    BY <1>0, <2>3 DEF AgentStep, TypeOK
  <2>5. IdleAgent.mode = "idle"
    BY DEF IdleAgent
  <2>6. ReferenceInv'
    BY <2>3, <2>5 DEF AgentStep, TypeOK, ReferenceInv
  <2> QED
    BY <2>2, <2>3, <2>4, <2>6 DEF AgentStep, TypeOK
<1>7. CASE AgentCrash(a)
  <2>1. [IdleAgent EXCEPT !.mode = "dead"] \in Agent
    BY <1>0 DEF Agent, IdleAgent
  <2>2. agents' \in [Agents -> Agent]
    BY <1>7, <2>1 DEF AgentCrash, TypeOK
  <2>3. \A h \in Handlers : [handler[h] EXCEPT !.awaited = @ /\ handler[h].agent # a] \in Handler
    BY DEF TypeOK, Handler
  <2>4. handler' \in [Handlers -> Handler]
    BY <1>7, <2>3 DEF AgentCrash, TypeOK
  <2>5. \A h \in Handlers : handler'[h].pc = handler[h].pc /\ handler'[h].task = handler[h].task
    BY <1>7 DEF AgentCrash, TypeOK, Handler
  <2>6. \A b \in Agents : b # a => agents'[b] = agents[b]
    BY <1>7 DEF AgentCrash, TypeOK
  <2>7. agents'[a].mode = "dead"
    BY <1>7 DEF AgentCrash, TypeOK, IdleAgent
  <2>8. ReferenceInv'
    BY <2>5, <2>6, <2>7 DEF ReferenceInv
  <2> QED
    BY <1>7, <2>2, <2>4, <2>8 DEF AgentCrash, TypeOK, TasksTypeOK
<1> QED
  BY <1>1, <1>2, <1>3, <1>4, <1>5, <1>6, <1>7 DEF AgentMoves

LEMMA SubmitTypeStep ==
  ASSUME ControlInv, NEW r \in Runs, NEW g \in Targets, Submit(r, g)
  PROVE  TypeInv'
<1>1. TypeOK /\ ReferenceInv
  BY DEF ControlInv
<1>2. runs' \in [Runs -> RunRow]
  BY ZenonT(60), <1>1 DEF Submit, TypeOK, RunRow, Targets
<1>3. worker' \in [Runs -> Worker]
  BY <1>1 DEF Submit, TypeOK, Worker
<1> QED
  BY <1>1, <1>2, <1>3 DEF Submit, TypeInv, TypeOK, TasksTypeOK, ReferenceInv

LEMMA RestartTypeStep ==
  ASSUME ControlInv, ControllerRestart
  PROVE  TypeInv'
<1> TypeOK /\ ReferenceInv
  BY DEF ControlInv
<1>1. \A r \in Runs : [runs[r] EXCEPT !.status = "failed"] \in RunRow /\ runs[r] \in RunRow
  BY DEF TypeOK, RunRow
<1>2. runs' \in [Runs -> RunRow]
  BY <1>1 DEF ControllerRestart
<1>3. \A r \in Runs :
        /\ worker[r] \in Worker
        /\ [pc |-> "gone", carried |-> 0,
            outcome |-> IF worker[r].pc = "local" THEN "failed" ELSE worker[r].outcome] \in Worker
  BY EvidenceFacts DEF TypeOK, Worker, Outcomes
<1>4. worker' \in [Runs -> Worker]
  BY <1>3 DEF ControllerRestart
<1>5. TasksTypeOK'
  BY TaskOpsType DEF ControllerRestart, TypeOK
<1>6. restarts' \in 0..MaxRestarts
  BY RunControlAssumption DEF ControllerRestart, TypeOK
<1>7. handler' \in [Handlers -> Handler]
  BY EvidenceFacts DEF ControllerRestart, Handler, IdleHandler
<1> QED
  BY <1>2, <1>4, <1>5, <1>6, <1>7
     DEF ControllerRestart, TypeInv, TypeOK, ReferenceInv, IdleHandler

\* Every step of the system keeps the types.
LEMMA TypeStep == ControlInv /\ [Next]_vars => TypeInv'
<1> SUFFICES ASSUME ControlInv, [Next]_vars PROVE TypeInv'
  OBVIOUS
<1>1. CASE UNCHANGED vars
  BY <1>1 DEF vars, ControlInv, TypeInv, TypeOK, TasksTypeOK, ReferenceInv
<1>2. CASE Next
  BY <1>2, SubmitTypeStep, WorkerTypeStep, HandlerTypeStep, AgentTypeStep, RestartTypeStep
     DEF Next, AgentMoves
<1> QED
  BY <1>1, <1>2

-----------------------------------------------------------------------------
(* The places of the workers, the task rows and admission.                  *)

PlaceInv == (\A r \in Runs : WorkerInv(r) /\ TaskInv(r)) /\ AdmissionInv

SameRun(s) == runs'[s].status = runs[s].status /\ runs'[s].target = runs[s].target

\* What nobody touched about a Run keeps its part of the invariant.
LEMMA Frame ==
  ASSUME NEW s \in Runs, WorkerInv(s), TaskInv(s),
         SameRun(s), tasks'[s] = tasks[s], worker'[s] = worker[s]
  PROVE  WorkerInv(s)' /\ TaskInv(s)'
BY DEF WorkerInv, TaskInv, SameRun

\* Steps that admit nothing keep the admission rule.
LEMMA AdmissionKept ==
  ASSUME AdmissionInv,
         \A s \in Runs : runs'[s].status \in Open =>
           runs[s].status \in Open /\ runs'[s].target = runs[s].target
  PROVE  AdmissionInv'
BY DEF AdmissionInv

\* One task row moves on: an active row changes its status, a closed or absent
\* row keeps it, and no row changes hands.
TaskMoves(s) ==
  /\ tasks'[s].run = tasks[s].run /\ tasks'[s].agent = tasks[s].agent
  /\ \/ tasks'[s].status = tasks[s].status
     \/ tasks[s].status \in Active /\ tasks'[s].status # "absent"

\* Steps that only move task rows disturb neither the workers nor admission.
LEMMA TaskStepPlace ==
  ASSUME ControlInv, UNCHANGED worker,
         \A s \in Runs : SameRun(s) /\ TaskMoves(s)
  PROVE  PlaceInv'
<1>1. ASSUME NEW s \in Runs PROVE WorkerInv(s)' /\ TaskInv(s)'
  <2>1. WorkerInv(s) /\ TaskInv(s) /\ SameRun(s) /\ TaskMoves(s) /\ worker'[s] = worker[s]
    BY DEF ControlInv
  <2> QED
    BY <2>1 DEF WorkerInv, TaskInv, SameRun, TaskMoves
<1>2. AdmissionInv'
  BY AdmissionKept DEF ControlInv, SameRun
<1> QED
  BY <1>1, <1>2 DEF PlaceInv

\* Every operation of the task table except creation only moves rows.
LEMMA TaskOpsMove ==
  ASSUME TasksTypeOK
  PROVE  /\ \A a \in Agents, t \in Runs : ClaimAgentTask(a, t) => \A s \in Runs : TaskMoves(s)
         /\ \A t \in Runs, a \in Agents, st \in Terminal, e \in Evidence :
              FinishAgentTask(t, a, st, e) => \A s \in Runs : TaskMoves(s)
         /\ \A t \in Runs, a \in Agents, e \in Evidence :
              UpdateAgentTaskProgress(t, a, e) => \A s \in Runs : TaskMoves(s)
         /\ \A t \in Runs : AbortAgentTask(t) => \A s \in Runs : TaskMoves(s)
         /\ \A r \in Runs : CancelQueuedRunTasks(r) => \A s \in Runs : TaskMoves(s)
         /\ UNCHANGED tasks => \A s \in Runs : TaskMoves(s)
<1>1. ASSUME NEW a \in Agents, NEW t \in Runs, ClaimAgentTask(a, t), NEW s \in Runs
      PROVE  TaskMoves(s)
  BY <1>1 DEF ClaimAgentTask, QueuedFor, TaskMoves, TasksTypeOK, Row
<1>2. ASSUME NEW t \in Runs, NEW a \in Agents, NEW st \in Terminal, NEW e \in Evidence,
             FinishAgentTask(t, a, st, e), NEW s \in Runs
      PROVE  TaskMoves(s)
  <2>1. CASE tasks[t].agent = a /\ tasks[t].status = "running"
    <3>1. tasks' = [tasks EXCEPT ![t].status = st, ![t].secret = FALSE,
                                 ![t].result = Coalesce(e, tasks[t].result)]
      BY <1>2, <2>1 DEF FinishAgentTask
    <3>2. tasks[t].status \in Active /\ st # "absent"
      BY <2>1
    <3> QED
      BY <3>1, <3>2 DEF TaskMoves, TasksTypeOK, Row
  <2>2. CASE ~(tasks[t].agent = a /\ tasks[t].status = "running")
    <3>1. tasks' = [tasks EXCEPT ![t].secret = FALSE] \/ tasks' = tasks
      BY <1>2, <2>2 DEF FinishAgentTask
    <3> QED
      BY <3>1 DEF TaskMoves, TasksTypeOK, Row
  <2> QED
    BY <2>1, <2>2
<1>3. ASSUME NEW t \in Runs, NEW a \in Agents, NEW e \in Evidence,
             UpdateAgentTaskProgress(t, a, e), NEW s \in Runs
      PROVE  TaskMoves(s)
  BY <1>3 DEF UpdateAgentTaskProgress, TaskMoves, TasksTypeOK, Row
<1>4. ASSUME NEW t \in Runs, AbortAgentTask(t), NEW s \in Runs PROVE TaskMoves(s)
  BY <1>4 DEF AbortAgentTask, TaskMoves, TasksTypeOK, Row
<1>5. ASSUME NEW r \in Runs, CancelQueuedRunTasks(r), NEW s \in Runs PROVE TaskMoves(s)
  BY <1>5 DEF CancelQueuedRunTasks, TaskMoves, TasksTypeOK, Row
<1>6. UNCHANGED tasks => \A s \in Runs : TaskMoves(s)
  BY DEF TaskMoves
<1> QED
  BY <1>1, <1>2, <1>3, <1>4, <1>5, <1>6

\* The steps of a worker thread.  Each one is seen at its own Run; at every
\* other Run it is a frame step.
LEMMA WorkerPlaceStep ==
  ASSUME ControlInv, NEW r \in Runs,
         \/ WorkerMoves(r) \/ PollExpired(r) \/ PollSilent(r)
         \/ LocalReport(r) \/ LocalStop(r) \/ LocalEnd(r)
  PROVE  PlaceInv'
<1>0. /\ TypeOK /\ TasksTypeOK /\ AdmissionInv
      /\ \A s \in Runs : WorkerInv(s) /\ TaskInv(s)
      /\ runs \in [Runs -> RunRow] /\ worker \in [Runs -> Worker] /\ tasks \in [Runs -> Row]
  BY DEF ControlInv, TypeOK, TasksTypeOK
<1> DEFINE Elsewhere == \A s \in Runs \ {r} :
             SameRun(s) /\ tasks'[s] = tasks[s] /\ worker'[s] = worker[s]
           Here == WorkerInv(r)' /\ TaskInv(r)'
           NoneAdmitted == \A s \in Runs : runs'[s].status \in Open =>
             runs[s].status \in Open /\ runs'[s].target = runs[s].target
<1>q. ASSUME Elsewhere, Here, NoneAdmitted PROVE PlaceInv'
  <2>1. ASSUME NEW s \in Runs \ {r} PROVE WorkerInv(s)' /\ TaskInv(s)'
    BY <1>0, <1>q, Frame
  <2>2. AdmissionInv'
    BY <1>0, <1>q, AdmissionKept
  <2> QED
    BY <1>q, <2>1, <2>2 DEF PlaceInv
<1>1. CASE RegisterToken(r)
  <2>1. Elsewhere /\ NoneAdmitted
    BY <1>0, <1>1 DEF RegisterToken, SameRun
  <2>2. Here
    BY <1>0, <1>1 DEF RegisterToken, WorkerInv, TaskInv, Worker,
       NotYetDispatched, AwaitingTask, Finishing, Over
  <2> QED
    BY <1>q, <2>1, <2>2
<1>2. CASE Begin(r)
  <2>1. Elsewhere /\ NoneAdmitted
    BY <1>0, <1>2 DEF Begin, SameRun, WorkerInv, RunRow
  <2>2. Here
    BY <1>0, <1>2 DEF Begin, WorkerInv, TaskInv, Worker, RunRow,
       NotYetDispatched, AwaitingTask, Finishing, Over
  <2> QED
    BY <1>q, <2>1, <2>2
<1>3. CASE Dispatch(r)
  <2>1. Elsewhere /\ NoneAdmitted
    BY <1>0, <1>3 DEF Dispatch, WorkerStep, SameRun
  <2>2. Here
    BY <1>0, <1>3 DEF Dispatch, WorkerStep, WorkerInv, TaskInv, Worker, Targets,
       NotYetDispatched, AwaitingTask, Finishing, Over
  <2> QED
    BY <1>q, <2>1, <2>2
<1>4. CASE CreateTask(r)
  <2>1. Elsewhere /\ NoneAdmitted
    BY <1>0, <1>4 DEF CreateTask, CreateAgentTask, WorkerStep, SameRun
  <2>2. /\ tasks'[r].status = "queued" /\ tasks'[r].run = r /\ tasks'[r].agent = runs[r].target
        /\ UNCHANGED runs /\ worker[r].pc = "creating"
        /\ worker'[r] = [pc |-> "polling", outcome |-> "none", carried |-> 0]
    BY <1>0, <1>4 DEF CreateTask, CreateAgentTask, WorkerStep, Row
  <2>3. Here
    BY <1>0, <2>2 DEF WorkerInv, TaskInv,
       NotYetDispatched, AwaitingTask, Finishing, Over
  <2> QED
    BY <1>q, <2>1, <2>3
<1>5. CASE PollCancelled(r) \/ PollExpired(r) \/ PollClosed(r) \/ PollSilent(r) \/ Unwind(r)
  <2>1. Elsewhere /\ NoneAdmitted
    BY <1>0, <1>5 DEF PollCancelled, PollExpired, PollClosed, PollSilent, Unwind, WorkerStep, SameRun
  <2>2. Here
    BY <1>0, <1>5 DEF PollCancelled, PollExpired, PollClosed, PollSilent, Unwind, WorkerStep,
       WorkerInv, TaskInv, Worker, NotYetDispatched, AwaitingTask, Finishing, Over
  <2> QED
    BY <1>q, <2>1, <2>2
<1>6. CASE Abort(r)
  <2>1. Elsewhere /\ NoneAdmitted
    BY <1>0, <1>6 DEF Abort, AbortAgentTask, WorkerStep, SameRun
  <2>2. /\ tasks'[r].status \notin Active /\ tasks'[r].status # "absent"
        /\ tasks'[r].run = tasks[r].run /\ tasks'[r].agent = tasks[r].agent
        /\ worker[r].outcome \notin {"none", "completed"}
    BY <1>0, <1>6 DEF Abort, AbortAgentTask, WorkerInv, AwaitingTask, Row
  <2>3. Here
    BY <1>0, <1>6, <2>2 DEF Abort, WorkerStep, WorkerInv, TaskInv, Worker,
       NotYetDispatched, AwaitingTask, Finishing, Over
  <2> QED
    BY <1>q, <2>1, <2>3
<1>7. CASE Sweep(r)
  <2>1. tasks[r].status \notin Active
    BY <1>0, <1>7 DEF Sweep, WorkerInv, Finishing
  <2>2. \A s \in Runs : tasks[s].run = r => tasks[s].status = "absent" \/ s = r
    BY <1>0 DEF TaskInv
  <2>3. UNCHANGED tasks
    BY <1>0, <1>7, <2>1, <2>2 DEF Sweep, CancelQueuedRunTasks
  <2>4. Elsewhere /\ NoneAdmitted
    BY <1>0, <1>7, <2>3 DEF Sweep, WorkerStep, SameRun
  <2>5. Here
    BY <1>0, <1>7, <2>3 DEF Sweep, WorkerStep, WorkerInv, TaskInv, Worker,
       NotYetDispatched, AwaitingTask, Finishing, Over
  <2> QED
    BY <1>q, <2>4, <2>5
<1>8. CASE Settle(r)
  <2>1. StatusOf(worker[r].outcome) \in Terminal
    BY <1>0, <1>8 DEF StatusOf, Settle, WorkerInv, Finishing, Worker, Outcomes
  <2>2. /\ runs'[r].status = StatusOf(worker[r].outcome) /\ runs'[r].target = runs[r].target
        /\ worker'[r].pc = "leaving" /\ worker[r].pc = "settling" /\ UNCHANGED tasks
    BY <1>0, <1>8 DEF Settle, WorkerStep, RunRow
  <2>3. Elsewhere
    BY <1>0, <1>8 DEF Settle, WorkerStep, SameRun
  <2>4. NoneAdmitted
    BY <2>1, <2>2, <2>3 DEF SameRun
  <2>5. Here
    BY <1>0, <2>1, <2>2 DEF WorkerInv, TaskInv, NotYetDispatched, AwaitingTask, Finishing, Over
  <2> QED
    BY <1>q, <2>3, <2>4, <2>5
<1>9. CASE Leave(r)
  <2>1. Elsewhere /\ NoneAdmitted
    BY <1>0, <1>9 DEF Leave, SameRun
  <2>2. Here
    BY <1>0, <1>9 DEF Leave, WorkerInv, TaskInv, Worker,
       NotYetDispatched, AwaitingTask, Finishing, Over
  <2> QED
    BY <1>q, <2>1, <2>2
<1>10. CASE LocalReport(r)
  <2>1. \A s \in Runs : SameRun(s)
    BY <1>0, <1>10 DEF LocalReport, SameRun, RunRow
  <2>2. UNCHANGED <<tasks, worker>>
    BY <1>10 DEF LocalReport
  <2>3. Elsewhere /\ NoneAdmitted
    BY <2>1, <2>2 DEF SameRun
  <2>4. Here
    BY <1>0, <2>1, <2>2, Frame
  <2> QED
    BY <1>q, <2>3, <2>4
<1>11. CASE LocalStop(r) \/ LocalEnd(r)
  <2>1. Elsewhere /\ NoneAdmitted
    BY <1>0, <1>11 DEF LocalStop, LocalEnd, WorkerStep, SameRun
  <2>2. Hosts \cap Agents = {}
    BY RunControlAssumption
  <2>3. Here
    BY <1>0, <1>11, <2>2 DEF LocalStop, LocalEnd, WorkerStep, WorkerInv, TaskInv, Worker,
       NotYetDispatched, AwaitingTask, Finishing, Over
  <2> QED
    BY <1>q, <2>1, <2>3
<1> QED
  BY <1>1, <1>2, <1>3, <1>4, <1>5, <1>6, <1>7, <1>8, <1>9, <1>10, <1>11 DEF WorkerMoves

LEMMA InitPlace == Init => PlaceInv
BY DEF Init, PlaceInv, WorkerInv, TaskInv, AdmissionInv, NoWorker, TasksInit, NoRow,
       NotYetDispatched, AwaitingTask, Finishing, Over

\* Admission: the guard of Submit is what AdmissionInv needs.
LEMMA SubmitPlaceStep ==
  ASSUME ControlInv, NEW r \in Runs, NEW g \in Targets, Submit(r, g)
  PROVE  PlaceInv'
<1>0. /\ AdmissionInv
      /\ \A s \in Runs : WorkerInv(s) /\ TaskInv(s)
      /\ runs \in [Runs -> RunRow] /\ worker \in [Runs -> Worker]
  BY DEF ControlInv, TypeOK
<1>1. /\ runs'[r].status = "queued" /\ runs'[r].target = g
      /\ worker'[r].pc = "created" /\ worker'[r].outcome = worker[r].outcome
      /\ worker[r].pc = "none" /\ UNCHANGED tasks
      /\ \A s \in Runs \ {r} : SameRun(s) /\ worker'[s] = worker[s]
  BY <1>0 DEF Submit, SameRun, RunRow, Worker
<1>2. \A s \in Runs : runs[s].status \in Open => runs[s].target # g
  BY DEF Submit
<1>3. ASSUME NEW s \in Runs \ {r} PROVE WorkerInv(s)' /\ TaskInv(s)'
  BY <1>0, <1>1, Frame
<1>4. WorkerInv(r)' /\ TaskInv(r)'
  BY <1>0, <1>1 DEF WorkerInv, TaskInv, NotYetDispatched, AwaitingTask, Finishing, Over
<1>5. AdmissionInv'
  BY <1>0, <1>1, <1>2 DEF AdmissionInv, SameRun
<1> QED
  BY <1>3, <1>4, <1>5 DEF PlaceInv

\* Operators and progress handlers set flags and evidence, never a status.
LEMMA HandlerSameRun ==
  ASSUME ControlInv,
         \/ \E r \in Runs : CancelCheck(r) \/ CancelMoves(r)
         \/ \E h \in Handlers : HandlerMoves(h) \/ GiveUp(h)
         \/ \E a \in Agents, h \in Handlers : ProgressReceived(a, h)
  PROVE  UNCHANGED worker /\ \A s \in Runs : SameRun(s)
<1>0. runs \in [Runs -> RunRow]
  BY DEF ControlInv, TypeOK
<1>1. UNCHANGED worker
  BY DEF CancelCheck, CancelMoves, RequestCancel, CancelQueued, CancelToken, CancelStep,
         HandlerMoves, ReadRun, WriteRun, Reply, GiveUp, ProgressReceived
<1>2. ASSUME NEW r \in Runs, CancelCheck(r) \/ CancelMoves(r) PROVE \A s \in Runs : SameRun(s)
  BY <1>0, <1>2 DEF CancelCheck, CancelMoves, RequestCancel, CancelQueued, CancelToken,
     SameRun, RunRow
<1>3. ASSUME NEW h \in Handlers, HandlerMoves(h) \/ GiveUp(h) PROVE \A s \in Runs : SameRun(s)
  <2>1. CASE WriteRun(h)
    BY <1>0, <2>1 DEF WriteRun, SameRun, RunRow
  <2>2. CASE ReadRun(h) \/ Reply(h) \/ GiveUp(h)
    BY <2>2 DEF ReadRun, Reply, GiveUp, SameRun
  <2> QED
    BY <1>3, <2>1, <2>2 DEF HandlerMoves
<1>4. ASSUME NEW a \in Agents, NEW h \in Handlers, ProgressReceived(a, h)
      PROVE  \A s \in Runs : SameRun(s)
  BY <1>4 DEF ProgressReceived, SameRun
<1> QED
  BY <1>1, <1>2, <1>3, <1>4

LEMMA HandlerPlaceStep ==
  ASSUME ControlInv,
         \/ \E r \in Runs : CancelCheck(r) \/ CancelMoves(r)
         \/ \E h \in Handlers : HandlerMoves(h) \/ GiveUp(h)
         \/ \E a \in Agents, h \in Handlers : ProgressReceived(a, h)
  PROVE  PlaceInv'
<1>0. TasksTypeOK /\ ReferenceInv /\ agents \in [Agents -> Agent]
  BY DEF ControlInv, TypeOK
<1>1. UNCHANGED worker /\ \A s \in Runs : SameRun(s)
  BY HandlerSameRun
<1>2. ASSUME NEW r \in Runs, CancelCheck(r) \/ CancelMoves(r) PROVE \A s \in Runs : TaskMoves(s)
  BY <1>0, <1>2, TaskOpsMove DEF CancelCheck, CancelMoves, RequestCancel, CancelQueued, CancelToken
<1>3. ASSUME NEW h \in Handlers, HandlerMoves(h) \/ GiveUp(h) PROVE \A s \in Runs : TaskMoves(s)
  BY <1>0, <1>3, TaskOpsMove DEF HandlerMoves, ReadRun, WriteRun, Reply, GiveUp
<1>4. ASSUME NEW a \in Agents, NEW h \in Handlers, ProgressReceived(a, h)
      PROVE  \A s \in Runs : TaskMoves(s)
  <2>1. agents[a].task \in Runs /\ agents[a].jobs \in Evidence
    BY <1>0, <1>4, EvidenceFacts DEF ProgressReceived, ReferenceInv, Agent
  <2> QED
    BY <1>0, <1>4, <2>1, TaskOpsMove DEF ProgressReceived
<1> QED
  BY <1>1, <1>2, <1>3, <1>4, TaskStepPlace

\* Agents move task rows, by claiming and by reporting, and nothing else.
LEMMA AgentPlaceStep ==
  ASSUME ControlInv, NEW a \in Agents, AgentMoves(a)
  PROVE  PlaceInv'
<1>0. TasksTypeOK /\ ReferenceInv /\ agents \in [Agents -> Agent]
  BY DEF ControlInv, TypeOK
<1>1. UNCHANGED <<runs, worker>>
  BY DEF AgentMoves, Claim, ProgressRefused, FinishJob, LoseContact, Conclude, PostResult,
         PostResultUnanswered, AgentCrash, AgentStep
<1>2. \A s \in Runs : SameRun(s)
  BY <1>1 DEF SameRun
<1>3. \A s \in Runs : TaskMoves(s)
  <2>1. ASSUME NEW t \in Runs, Claim(a, t) PROVE \A s \in Runs : TaskMoves(s)
    BY <1>0, <2>1, TaskOpsMove DEF Claim
  <2>2. CASE PostResult(a) \/ PostResultUnanswered(a)
    <3>1. /\ agents[a].task \in Runs /\ agents[a].status \in Terminal
          /\ agents[a].result \in Evidence
          /\ FinishAgentTask(agents[a].task, a, agents[a].status, agents[a].result)
      BY <1>0, <2>2 DEF PostResult, PostResultUnanswered, ReferenceInv, Agent
    <3> QED
      BY <1>0, <3>1, TaskOpsMove
  <2>3. CASE ProgressRefused(a) \/ FinishJob(a) \/ LoseContact(a) \/ Conclude(a) \/ AgentCrash(a)
    BY <1>0, <2>3, TaskOpsMove DEF ProgressRefused, FinishJob, LoseContact, Conclude, AgentCrash
  <2> QED
    BY <2>1, <2>2, <2>3 DEF AgentMoves
<1> QED
  BY <1>1, <1>2, <1>3, TaskStepPlace

\* A restart ends every worker, settles every open Run and closes every task.
LEMMA RestartPlaceStep ==
  ASSUME ControlInv, ControllerRestart
  PROVE  PlaceInv'
<1>0. /\ \A s \in Runs : WorkerInv(s) /\ TaskInv(s)
      /\ runs \in [Runs -> RunRow] /\ worker \in [Runs -> Worker] /\ tasks \in [Runs -> Row]
  BY DEF ControlInv, TypeOK, TasksTypeOK
<1>1. ASSUME NEW s \in Runs PROVE WorkerInv(s)' /\ TaskInv(s)' /\ runs'[s].status \notin Open
  <2>1. /\ runs'[s].target = runs[s].target
        /\ runs'[s].status = IF runs[s].status \in Open THEN "failed" ELSE runs[s].status
    BY <1>0 DEF ControllerRestart, RunRow
  <2>2. /\ tasks'[s].run = tasks[s].run /\ tasks'[s].agent = tasks[s].agent
        /\ tasks'[s].status = IF tasks[s].status \in Active THEN "cancelled" ELSE tasks[s].status
    BY <1>0 DEF ControllerRestart, RecoverTasks, Row
  <2>3. worker[s].pc = "none" => worker'[s] = worker[s]
    BY DEF ControllerRestart
  <2>4. worker[s].pc # "none" => worker'[s].pc = "gone"
    BY DEF ControllerRestart
  <2>5. runs[s].status \in RunStatus
    BY <1>0 DEF RunRow
  <2>6. TaskInv(s)'
    BY <1>0, <2>1, <2>2 DEF TaskInv
  <2>7. WorkerInv(s)'
    BY <1>0, <2>1, <2>2, <2>3, <2>4, <2>5 DEF WorkerInv,
       NotYetDispatched, AwaitingTask, Finishing, Over
  <2> QED
    BY <2>1, <2>6, <2>7
<1>2. AdmissionInv'
  BY <1>1 DEF AdmissionInv
<1> QED
  BY <1>1, <1>2 DEF PlaceInv

LEMMA PlaceStep == ControlInv /\ [Next]_vars => PlaceInv'
<1> SUFFICES ASSUME ControlInv, [Next]_vars PROVE PlaceInv'
  OBVIOUS
<1>1. CASE UNCHANGED vars
  BY <1>1 DEF vars, ControlInv, PlaceInv, WorkerInv, TaskInv, AdmissionInv
<1>2. CASE Next
  BY <1>2, SubmitPlaceStep, WorkerPlaceStep, HandlerPlaceStep, AgentPlaceStep, RestartPlaceStep
     DEF Next, AgentMoves
<1> QED
  BY <1>1, <1>2

-----------------------------------------------------------------------------
(* The theorems about every reachable state.                                *)

LEMMA ControlInvParts == ControlInv <=> TypeInv /\ PlaceInv
BY DEF ControlInv, TypeInv, PlaceInv

\* The place of every worker thread, of every task row and of every admitted
\* target agree in all reachable states, however the threads, the operator, the
\* Agents and a Controller restart interleave.
THEOREM ControlInvariant == Spec => []ControlInv
<1>1. Init => ControlInv
  BY InitTypeInv, InitPlace, ControlInvParts
<1>2. ControlInv /\ [Next]_vars => ControlInv'
  BY TypeStep, PlaceStep DEF ControlInv, TypeInv, PlaceInv
<1> QED
  BY <1>1, <1>2, PTL DEF Spec

\* Every variable keeps its type: in particular no row of runs ever gets a
\* status from a task outcome that the API does not know.
THEOREM TypeCorrect == Spec => []TypeOK
<1>1. ControlInv => TypeOK
  BY DEF ControlInv
<1> QED
  BY <1>1, ControlInvariant, PTL

LEMMA ActiveTaskHasOpenRun ==
  ASSUME ControlInv, NEW r \in Runs, NEW g \in Targets, Occupies(r, g)
  PROVE  runs[r].status \in Open
<1>1. WorkerInv(r) /\ TaskInv(r) /\ worker[r] \in Worker /\ runs[r] \in RunRow
  BY DEF ControlInv, TypeOK
<1> QED
  BY <1>1 DEF Occupies, WorkerInv, Worker, NotYetDispatched, AwaitingTask, Finishing, Over

\* No two Runs work on one target: the guard of _submit_run_locked, the busy
\* test and the task insertion of run_remote_benchmark, although separate
\* transactions, exclude each other for any number of Runs and targets.
THEOREM Exclusion == Spec => []TargetExclusive
<1>1. ControlInv => TargetExclusive
  <2> SUFFICES ASSUME ControlInv, NEW r \in Runs, NEW s \in Runs, NEW g \in Targets,
                      Occupies(r, g), Occupies(s, g)
               PROVE  r = s
    BY DEF TargetExclusive
  <2>1. runs[r].status \in Open /\ runs[s].status \in Open
    BY ActiveTaskHasOpenRun
  <2> QED
    BY <2>1 DEF ControlInv, AdmissionInv, Occupies
<1> QED
  BY <1>1, ControlInvariant, PTL

\* A Run in a terminal status has let go of its target, on every path out of
\* _execute_run and through recover_incomplete_runs.
THEOREM Release == Spec => []TerminalRunReleasesTarget
<1>1. ControlInv => TerminalRunReleasesTarget
  BY ActiveTaskHasOpenRun DEF TerminalRunReleasesTarget
<1> QED
  BY <1>1, ControlInvariant, PTL

\* An open Run always has the thread that will settle it, so no Run can keep
\* its target refused with nobody left to end it.
THEOREM Workers == Spec => []OpenRunHasWorker
<1>1. ControlInv => OpenRunHasWorker
  BY DEF ControlInv, OpenRunHasWorker, WorkerInv, Over
<1> QED
  BY <1>1, ControlInvariant, PTL

-----------------------------------------------------------------------------
(* Refinement: every step is a step of RunLedger, or none.                  *)

LedgerStep == [Ledger!LedgerNext]_(Ledger!ledger)

LEMMA LedgerStutter ==
  ASSUME \A s \in Runs : SameRun(s) /\ WorkOf(s)' = WorkOf(s)
  PROVE  LedgerStep
<1>1. UNCHANGED Ledger!ledger
  BY DEF Ledger!ledger, SameRun
<1> QED
  BY <1>1 DEF LedgerStep

\* What the ledger sees of a Run is its target, its place while it works on the
\* Controller's host, its outcome there, and the status of its task elsewhere.
LEMMA WorkFrame ==
  ASSUME NEW s \in Runs, SameRun(s), tasks'[s].status = tasks[s].status,
         \/ worker'[s] = worker[s]
         \/ runs[s].target \notin Hosts
  PROVE  WorkOf(s)' = WorkOf(s)
BY DEF WorkOf, SameRun

\* A Run whose work is held occupies its target.
LEMMA HeldOccupies ==
  ASSUME ControlInv, NEW s \in Runs, WorkOf(s) = "held"
  PROVE  Occupies(s, runs[s].target)
BY DEF WorkOf, Occupies

\* Steps that move the status of one task row release its work or show nothing.
LEMMA TaskStepLedger ==
  ASSUME ControlInv, TypeInv',
         \A s \in Runs : SameRun(s) /\ TaskMoves(s),
         \A s \in Runs : worker'[s] = worker[s] \/ runs[s].target \in Agents,
         \A s, u \in Runs : tasks'[s].status # tasks[s].status /\ tasks'[u].status # tasks[u].status
           => s = u
  PROVE  LedgerStep
<1>0. Hosts \cap Agents = {}
  BY RunControlAssumption
<1>1. CASE \A s \in Runs : tasks'[s].status = tasks[s].status
  BY <1>0, <1>1, WorkFrame, LedgerStutter
<1>2. ASSUME NEW t \in Runs, tasks'[t].status # tasks[t].status PROVE LedgerStep
  <2>1. \A s \in Runs \ {t} : WorkOf(s)' = WorkOf(s)
    BY <1>0, <1>2, WorkFrame
  <2>2. /\ runs[t].target \in Agents /\ runs[t].target \notin Hosts /\ tasks[t].status \in Active
        /\ runs'[t].target = runs[t].target /\ tasks'[t].status \in Active \cup Terminal
    BY <1>0, <1>2 DEF TaskMoves, ControlInv, TaskInv, SameRun, TypeInv, TypeOK, TasksTypeOK, Row
  <2>3. WorkOf(t) = "held"
    BY <2>2 DEF WorkOf
  <2>4. CASE tasks'[t].status \in Active
    <3>1. WorkOf(t)' = "held"
      BY <2>2, <2>4 DEF WorkOf
    <3> QED
      BY <2>1, <2>3, <3>1, LedgerStutter
  <2>5. CASE tasks'[t].status \notin Active
    <3>1. WorkOf(t)' \in {"delivered", "dropped"}
      BY <2>2, <2>5 DEF WorkOf
    <3>2. Ledger!Release(t)
      BY <2>1, <2>3, <3>1 DEF Ledger!Release, SameRun
    <3> QED
      BY <3>2 DEF LedgerStep, Ledger!LedgerNext
  <2> QED
    BY <2>4, <2>5
<1> QED
  BY <1>1, <1>2

\* Every method of the task table moves the status of one row at most, because
\* the row of a Run carries the Run's own name.
LEMMA TaskOpsSingle ==
  ASSUME ControlInv
  PROVE  LET Single == \A s, u \in Runs :
                 tasks'[s].status # tasks[s].status /\ tasks'[u].status # tasks[u].status => s = u
         IN /\ \A a \in Agents, t \in Runs : ClaimAgentTask(a, t) => Single
            /\ \A t \in Runs, a \in Agents, st \in Terminal, e \in Evidence :
                 FinishAgentTask(t, a, st, e) => Single
            /\ \A t \in Runs, a \in Agents, e \in Evidence :
                 UpdateAgentTaskProgress(t, a, e) => Single
            /\ \A t \in Runs : AbortAgentTask(t) => Single
            /\ \A r \in Runs : CancelQueuedRunTasks(r) => Single
            /\ UNCHANGED tasks => Single
<1> DEFINE Single == \A s, u \in Runs :
             tasks'[s].status # tasks[s].status /\ tasks'[u].status # tasks[u].status => s = u
<1>0. TasksTypeOK /\ \A s \in Runs : TaskInv(s)
  BY DEF ControlInv, TypeOK
<1>1. ASSUME NEW a \in Agents, NEW t \in Runs, ClaimAgentTask(a, t) PROVE Single
  BY <1>0, <1>1 DEF ClaimAgentTask, TasksTypeOK, Row
<1>2. ASSUME NEW t \in Runs, NEW a \in Agents, NEW st \in Terminal, NEW e \in Evidence,
             FinishAgentTask(t, a, st, e)
      PROVE  Single
  BY <1>0, <1>2 DEF FinishAgentTask, TasksTypeOK, Row
<1>3. ASSUME NEW t \in Runs, NEW a \in Agents, NEW e \in Evidence,
             UpdateAgentTaskProgress(t, a, e)
      PROVE  Single
  BY <1>0, <1>3 DEF UpdateAgentTaskProgress, TasksTypeOK, Row
<1>4. ASSUME NEW t \in Runs, AbortAgentTask(t) PROVE Single
  BY <1>0, <1>4 DEF AbortAgentTask, TasksTypeOK, Row
<1>5. ASSUME NEW r \in Runs, CancelQueuedRunTasks(r) PROVE Single
  <2>1. \A s \in Runs : tasks'[s].status # tasks[s].status => s = r
    BY <1>0, <1>5 DEF CancelQueuedRunTasks, TaskInv
  <2> QED
    BY <2>1
<1>6. UNCHANGED tasks => Single
  OBVIOUS
<1> QED
  BY <1>1, <1>2, <1>3, <1>4, <1>5, <1>6

LEMMA AcquireLedger ==
  ASSUME ControlInv, NEW r \in Runs, runs[r].status = "running", WorkOf(r) = "none",
         \A s \in Runs : SameRun(s),
         \A s \in Runs \ {r} : WorkOf(s)' = WorkOf(s),
         WorkOf(r)' = "held"
  PROVE  LedgerStep
<1>1. \A s \in Runs : WorkOf(s) = "held" => runs[s].target # runs[r].target
  <2> SUFFICES ASSUME NEW s \in Runs, WorkOf(s) = "held", runs[s].target = runs[r].target
               PROVE  FALSE
    OBVIOUS
  <2>1. Occupies(s, runs[s].target)
    BY HeldOccupies
  <2>2. runs[s].target \in Targets
    <3>1. TaskInv(s) /\ WorkerInv(s) /\ worker[s] \in Worker /\ runs[s] \in RunRow
      BY DEF ControlInv, TypeOK
    <3> QED
      BY <2>1, <3>1 DEF Occupies, TaskInv, WorkerInv, Targets
  <2>3. runs[s].status \in Open
    BY <2>1, <2>2, ActiveTaskHasOpenRun
  <2>4. s = r
    BY <2>3 DEF ControlInv, AdmissionInv
  <2> QED
    BY <2>4
<1>2. Ledger!Acquire(r)
  BY <1>1 DEF Ledger!Acquire, SameRun
<1> QED
  BY <1>2 DEF LedgerStep, Ledger!LedgerNext

\* The steps of a worker thread.
LEMMA WorkerLedgerStep ==
  ASSUME ControlInv, TypeInv', NEW r \in Runs,
         \/ WorkerMoves(r) \/ PollExpired(r) \/ PollSilent(r)
         \/ LocalReport(r) \/ LocalStop(r) \/ LocalEnd(r)
  PROVE  LedgerStep
<1>0. /\ TypeOK /\ TasksTypeOK
      /\ \A s \in Runs : WorkerInv(s) /\ TaskInv(s)
      /\ runs \in [Runs -> RunRow] /\ worker \in [Runs -> Worker] /\ tasks \in [Runs -> Row]
      /\ Hosts \cap Agents = {}
  BY RunControlAssumption DEF ControlInv, TypeOK, TasksTypeOK
<1> DEFINE Elsewhere == \A s \in Runs \ {r} : SameRun(s) /\ WorkOf(s)' = WorkOf(s)
<1>1. CASE RegisterToken(r) \/ Leave(r) \/ LocalReport(r)
  <2>1. \A s \in Runs : /\ SameRun(s) /\ tasks'[s] = tasks[s]
                        /\ worker'[s].outcome = worker[s].outcome
                        /\ worker'[s].pc = "local" <=> worker[s].pc = "local"
    BY <1>0, <1>1 DEF RegisterToken, Leave, LocalReport, SameRun, RunRow, Worker
  <2>2. \A s \in Runs : WorkOf(s)' = WorkOf(s)
    BY <2>1 DEF WorkOf, SameRun
  <2> QED
    BY <2>1, <2>2, LedgerStutter
<1>2. CASE Begin(r)
  <2>1. /\ runs[r].status = "queued" /\ runs'[r].status = "running"
        /\ \A s \in Runs : runs'[s].target = runs[s].target
        /\ \A s \in Runs \ {r} : runs'[s].status = runs[s].status
    BY <1>0, <1>2 DEF Begin, WorkerInv, RunRow
  <2>2. \A s \in Runs : /\ tasks'[s] = tasks[s]
                        /\ worker'[s].outcome = worker[s].outcome
                        /\ worker'[s].pc = "local" <=> worker[s].pc = "local"
    BY <1>0, <1>2 DEF Begin, Worker
  <2>3. \A s \in Runs : WorkOf(s)' = WorkOf(s)
    BY <2>1, <2>2 DEF WorkOf
  <2>4. Ledger!Start(r)
    BY <2>1, <2>3 DEF Ledger!Start
  <2> QED
    BY <2>4 DEF LedgerStep, Ledger!LedgerNext
<1>3. CASE Dispatch(r)
  <2>1. /\ runs[r].status = "running" /\ tasks[r].status = "absent" /\ worker[r].outcome = "none"
        /\ worker[r].pc = "dispatching" /\ UNCHANGED <<runs, tasks>>
        /\ \A s \in Runs \ {r} : worker'[s] = worker[s]
    BY <1>0, <1>3 DEF Dispatch, WorkerStep, WorkerInv, NotYetDispatched
  <2>2. WorkOf(r) = "none" /\ Elsewhere
    BY <1>0, <2>1, WorkFrame DEF WorkOf, SameRun
  <2>3. CASE runs[r].target \in Hosts
    <3>1. worker'[r].pc = "local" /\ worker'[r].outcome = "none"
      BY <1>0, <1>3, <2>3 DEF Dispatch, WorkerStep
    <3>2. WorkOf(r)' = "held"
      BY <2>1, <2>3, <3>1 DEF WorkOf
    <3> QED
      BY <2>1, <2>2, <3>2, AcquireLedger DEF SameRun
  <2>4. CASE runs[r].target \notin Hosts
    BY <2>1, <2>2, <2>4, WorkFrame, LedgerStutter DEF SameRun
  <2> QED
    BY <2>3, <2>4
<1>4. CASE CreateTask(r)
  <2>1. /\ runs[r].status = "running" /\ tasks[r].status = "absent" /\ UNCHANGED runs
        /\ runs[r].target \in Agents /\ tasks'[r].status = "queued"
        /\ \A s \in Runs \ {r} : worker'[s] = worker[s] /\ tasks'[s] = tasks[s]
    BY <1>0, <1>4 DEF CreateTask, CreateAgentTask, WorkerStep, WorkerInv, NotYetDispatched
  <2>2. WorkOf(r) = "none" /\ WorkOf(r)' = "held"
    BY <1>0, <2>1 DEF WorkOf
  <2>3. Elsewhere
    BY <2>1, WorkFrame DEF SameRun
  <2> QED
    BY <2>1, <2>2, <2>3, AcquireLedger DEF SameRun
<1>5. CASE PollCancelled(r) \/ PollExpired(r) \/ PollClosed(r) \/ PollSilent(r) \/ Unwind(r)
  <2>1. /\ UNCHANGED <<runs, tasks>> /\ runs[r].target \in Agents
        /\ \A s \in Runs \ {r} : worker'[s] = worker[s]
    BY <1>0, <1>5 DEF PollCancelled, PollExpired, PollClosed, PollSilent, Unwind, WorkerStep,
       WorkerInv, AwaitingTask
  <2> QED
    BY <1>0, <2>1, WorkFrame, LedgerStutter DEF SameRun
<1>6. CASE Abort(r)
  <2>1. /\ UNCHANGED runs /\ runs[r].target \in Agents /\ AbortAgentTask(r)
        /\ \A s \in Runs \ {r} : worker'[s] = worker[s]
    BY <1>0, <1>6 DEF Abort, WorkerStep, WorkerInv, AwaitingTask
  <2>2. \A s \in Runs : SameRun(s) /\ TaskMoves(s)
    BY <1>0, <2>1, TaskOpsMove DEF SameRun
  <2> QED
    BY <2>1, <2>2, TaskOpsSingle, TaskStepLedger
<1>7. CASE Sweep(r)
  <2>1. tasks[r].status \notin Active
    BY <1>0, <1>7 DEF Sweep, WorkerInv, Finishing
  <2>2. \A s \in Runs : tasks'[s].status = tasks[s].status
    BY <1>0, <1>7, <2>1 DEF Sweep, CancelQueuedRunTasks, TaskInv
  <2>3. \A s \in Runs : /\ SameRun(s)
                        /\ worker'[s].outcome = worker[s].outcome
                        /\ worker'[s].pc = "local" <=> worker[s].pc = "local"
    BY <1>0, <1>7 DEF Sweep, WorkerStep, SameRun, Worker
  <2>4. \A s \in Runs : WorkOf(s)' = WorkOf(s)
    BY <2>2, <2>3 DEF WorkOf, SameRun
  <2> QED
    BY <2>3, <2>4, LedgerStutter
<1>8. CASE Settle(r)
  <2>1. /\ worker[r].pc = "settling" /\ runs[r].status = "running" /\ UNCHANGED tasks
        /\ tasks[r].status \notin Active /\ worker[r].outcome \in Outcomes \ {"none"}
        /\ runs[r].target \in Agents /\ worker[r].outcome = "completed"
             => tasks[r].status = "completed"
        /\ runs[r].target \in Targets
    BY <1>0, <1>8 DEF Settle, WorkerInv, TaskInv, Finishing, Worker
  <2>2. /\ runs'[r].status = StatusOf(worker[r].outcome) /\ runs'[r].target = runs[r].target
        /\ worker'[r].pc = "leaving" /\ worker'[r].outcome = StatusOf(worker[r].outcome)
        /\ \A s \in Runs \ {r} : runs'[s] = runs[s] /\ worker'[s] = worker[s]
    BY <1>0, <1>8 DEF Settle, WorkerStep, RunRow
  <2>3. Elsewhere
    BY <2>1, <2>2, WorkFrame DEF SameRun
  <2>4. WorkOf(r) # "held" /\ WorkOf(r)' = WorkOf(r)
    BY <2>1, <2>2 DEF WorkOf, StatusOf, Outcomes
  <2>5. runs'[r].status \in Terminal /\ (runs'[r].status = "completed" => WorkOf(r) = "delivered")
    BY <2>1, <2>2 DEF WorkOf, StatusOf, Outcomes, Targets
  <2>6. Ledger!Settle(r)
    BY <2>1, <2>2, <2>3, <2>4, <2>5 DEF Ledger!Settle, Ledger!Settled, SameRun
  <2> QED
    BY <2>6 DEF LedgerStep, Ledger!LedgerNext
<1>9. CASE LocalStop(r) \/ LocalEnd(r)
  <2>1. /\ worker[r].pc = "local" /\ runs[r].target \in Hosts /\ UNCHANGED <<runs, tasks>>
        /\ worker[r].outcome = "none" /\ worker'[r].pc = "sweeping" /\ worker'[r].outcome # "none"
        /\ \A s \in Runs \ {r} : worker'[s] = worker[s]
    BY <1>0, <1>9 DEF LocalStop, LocalEnd, WorkerStep, WorkerInv
  <2>2. WorkOf(r) = "held" /\ WorkOf(r)' \in {"delivered", "dropped"}
    BY <2>1 DEF WorkOf
  <2>3. Elsewhere
    BY <2>1, WorkFrame DEF SameRun
  <2>4. Ledger!Release(r)
    BY <2>1, <2>2, <2>3 DEF Ledger!Release
  <2> QED
    BY <2>4 DEF LedgerStep, Ledger!LedgerNext
<1> QED
  BY <1>1, <1>2, <1>3, <1>4, <1>5, <1>6, <1>7, <1>8, <1>9 DEF WorkerMoves

\* Operators release a task row that is still queued; handlers release nothing.
LEMMA HandlerLedgerStep ==
  ASSUME ControlInv, TypeInv',
         \/ \E r \in Runs : CancelCheck(r) \/ CancelMoves(r)
         \/ \E h \in Handlers : HandlerMoves(h) \/ GiveUp(h)
         \/ \E a \in Agents, h \in Handlers : ProgressReceived(a, h)
  PROVE  LedgerStep
<1>0. TasksTypeOK /\ ReferenceInv /\ agents \in [Agents -> Agent]
  BY DEF ControlInv, TypeOK
<1>1. UNCHANGED worker /\ \A s \in Runs : SameRun(s)
  BY HandlerSameRun
<1>2. CASE UNCHANGED tasks
  BY <1>1, <1>2, WorkFrame, LedgerStutter
<1>3. ASSUME NEW r \in Runs, CancelQueued(r) PROVE LedgerStep
  <2>1. CancelQueuedRunTasks(r)
    BY <1>3 DEF CancelQueued
  <2>2. \A s \in Runs : TaskMoves(s)
    BY <1>0, <2>1, TaskOpsMove
  <2> QED
    BY <1>1, <2>1, <2>2, TaskOpsSingle, TaskStepLedger
<1>4. ASSUME NEW a \in Agents, NEW h \in Handlers, ProgressReceived(a, h) PROVE LedgerStep
  <2>1. /\ agents[a].task \in Runs /\ agents[a].jobs \in Evidence
        /\ UpdateAgentTaskProgress(agents[a].task, a, agents[a].jobs)
    BY <1>0, <1>4, EvidenceFacts DEF ProgressReceived, ReferenceInv, Agent
  <2>2. \A s \in Runs : TaskMoves(s)
    BY <1>0, <2>1, TaskOpsMove
  <2> QED
    BY <1>1, <2>1, <2>2, TaskOpsSingle, TaskStepLedger
<1> QED
  BY <1>2, <1>3, <1>4 DEF CancelCheck, CancelMoves, RequestCancel, CancelToken,
     HandlerMoves, ReadRun, WriteRun, Reply, GiveUp

\* Agents release the target of a task by reporting its result.
LEMMA AgentLedgerStep ==
  ASSUME ControlInv, TypeInv', NEW a \in Agents, AgentMoves(a)
  PROVE  LedgerStep
<1>0. TasksTypeOK /\ ReferenceInv /\ agents \in [Agents -> Agent]
  BY DEF ControlInv, TypeOK
<1>1. UNCHANGED <<runs, worker>>
  BY DEF AgentMoves, Claim, ProgressRefused, FinishJob, LoseContact, Conclude, PostResult,
         PostResultUnanswered, AgentCrash, AgentStep
<1>2. ASSUME \A s \in Runs : TaskMoves(s),
             \A s, u \in Runs : tasks'[s].status # tasks[s].status
               /\ tasks'[u].status # tasks[u].status => s = u
      PROVE  LedgerStep
  BY <1>1, <1>2, TaskStepLedger DEF SameRun
<1>3. ASSUME NEW t \in Runs, Claim(a, t) PROVE LedgerStep
  BY <1>0, <1>2, <1>3, TaskOpsMove, TaskOpsSingle DEF Claim
<1>4. CASE PostResult(a) \/ PostResultUnanswered(a)
  <2>1. /\ agents[a].task \in Runs /\ agents[a].status \in Terminal
        /\ agents[a].result \in Evidence
        /\ FinishAgentTask(agents[a].task, a, agents[a].status, agents[a].result)
    BY <1>0, <1>4 DEF PostResult, PostResultUnanswered, ReferenceInv, Agent
  <2> QED
    BY <1>0, <1>2, <2>1, TaskOpsMove, TaskOpsSingle
<1>5. CASE ProgressRefused(a) \/ FinishJob(a) \/ LoseContact(a) \/ Conclude(a) \/ AgentCrash(a)
  <2>1. UNCHANGED tasks
    BY <1>5 DEF ProgressRefused, FinishJob, LoseContact, Conclude, AgentCrash
  <2> QED
    BY <1>0, <1>2, <2>1, TaskOpsMove, TaskOpsSingle
<1> QED
  BY <1>3, <1>4, <1>5 DEF AgentMoves

\* Admission and restart.
LEMMA AdmitLedgerStep ==
  ASSUME ControlInv, NEW r \in Runs, NEW g \in Targets, Submit(r, g)
  PROVE  LedgerStep
<1>0. /\ WorkerInv(r) /\ runs \in [Runs -> RunRow] /\ worker \in [Runs -> Worker]
  BY DEF ControlInv, TypeOK
<1>1. /\ worker[r].pc = "none" /\ runs[r].status = "absent" /\ worker[r].outcome = "none"
      /\ tasks[r].status = "absent" /\ UNCHANGED tasks
      /\ worker'[r].pc = "created" /\ worker'[r].outcome = "none"
      /\ \A s \in Runs \ {r} : runs'[s] = runs[s] /\ worker'[s] = worker[s]
      /\ runs'[r].status = "queued" /\ runs'[r].target = g
  BY <1>0 DEF Submit, WorkerInv, RunRow, Worker
<1>2. \A s \in Runs : WorkOf(s)' = WorkOf(s)
  <2>1. \A s \in Runs \ {r} : WorkOf(s)' = WorkOf(s)
    BY <1>1, WorkFrame DEF SameRun
  <2>2. WorkOf(r) = "none" /\ WorkOf(r)' = "none"
    BY <1>1 DEF WorkOf
  <2> QED
    BY <2>1, <2>2
<1>3. \A s \in Runs : runs[s].status \in Open => runs[s].target # g
  BY DEF Submit
<1>4. Ledger!Admit(r, g)
  BY <1>1, <1>2, <1>3 DEF Ledger!Admit, Ledger!Open
<1> QED
  BY <1>4 DEF LedgerStep, Ledger!LedgerNext

LEMMA RestartLedgerStep ==
  ASSUME ControlInv, ControllerRestart
  PROVE  LedgerStep
<1>0. /\ \A s \in Runs : WorkerInv(s) /\ TaskInv(s)
      /\ runs \in [Runs -> RunRow] /\ worker \in [Runs -> Worker] /\ tasks \in [Runs -> Row]
  BY DEF ControlInv, TypeOK, TasksTypeOK
<1>1. ASSUME NEW s \in Runs
      PROVE  /\ runs'[s].target = runs[s].target
             /\ runs'[s].status = IF runs[s].status \in Open THEN "failed" ELSE runs[s].status
             /\ WorkOf(s)' = IF WorkOf(s) = "held" THEN "dropped" ELSE WorkOf(s)
  <2>1. /\ runs'[s].target = runs[s].target
        /\ runs'[s].status = IF runs[s].status \in Open THEN "failed" ELSE runs[s].status
    BY <1>0 DEF ControllerRestart, RunRow
  <2>2. tasks'[s].status = IF tasks[s].status \in Active THEN "cancelled" ELSE tasks[s].status
    BY <1>0 DEF ControllerRestart, RecoverTasks, Row
  <2>3. /\ worker'[s].pc # "local"
        /\ worker'[s].outcome = IF worker[s].pc = "local" THEN "failed" ELSE worker[s].outcome
        /\ worker[s].pc = "local" => worker[s].outcome = "none"
    BY <1>0 DEF ControllerRestart, WorkerInv
  <2>4. WorkOf(s)' = IF WorkOf(s) = "held" THEN "dropped" ELSE WorkOf(s)
    BY <2>1, <2>2, <2>3 DEF WorkOf
  <2> QED
    BY <2>1, <2>4
<1>2. Ledger!Interrupt
  BY <1>1 DEF Ledger!Interrupt, Ledger!Open
<1> QED
  BY <1>2 DEF LedgerStep, Ledger!LedgerNext

LEMMA EveryLedgerStep == ControlInv /\ [Next]_vars => LedgerStep
<1> SUFFICES ASSUME ControlInv, [Next]_vars PROVE LedgerStep
  OBVIOUS
<1>1. TypeInv'
  BY TypeStep
<1>2. CASE UNCHANGED vars
  <2>1. \A s \in Runs : SameRun(s) /\ tasks'[s] = tasks[s] /\ worker'[s] = worker[s]
    BY <1>2 DEF vars, SameRun
  <2> QED
    BY <2>1, WorkFrame, LedgerStutter
<1>3. CASE Next
  BY <1>1, <1>3, AdmitLedgerStep, WorkerLedgerStep, HandlerLedgerStep, AgentLedgerStep,
     RestartLedgerStep DEF Next, AgentMoves
<1> QED
  BY <1>2, <1>3

\* The Controller with its Agents, threads, lost answers and restarts behaves
\* towards its users as the ledger says: a Run passes once through queued,
\* running and a terminal status, holds its target alone, has released it
\* before it settles, and is completed only by work that was delivered.
THEOREM Refinement == Spec => ImplementsLedger
<1>1. Init => Ledger!LedgerInit
  <2> SUFFICES ASSUME Init PROVE Ledger!LedgerInit
    OBVIOUS
  <2>1. \A r \in Runs : runs[r].status = "absent" /\ runs[r].target = NoAgent /\ WorkOf(r) = "none"
    BY DEF Init, TasksInit, NoRow, NoWorker, WorkOf
  <2> QED
    BY <2>1 DEF Ledger!LedgerInit
<1>2. ControlInv /\ [Next]_vars => [Ledger!LedgerNext]_(Ledger!ledger)
  BY EveryLedgerStep DEF LedgerStep
<1> QED
  BY <1>1, <1>2, ControlInvariant, PTL DEF Spec, ImplementsLedger, Ledger!LedgerSpec
=============================================================================

-------------------------- MODULE TaskStoreProofs --------------------------
(***************************************************************************)
(* Proofs about TaskStore: what the task table promises holds for any      *)
(* number of tasks, Runs and Agents, and for any order of calls.           *)
(***************************************************************************)
EXTENDS TaskStore, FiniteSetTheorems, TLAPS

USE DEF Active, Terminal

\* created_at follows the order of insertion, and a claimed row is not queued.
CreatedInOrder ==
  \A t \in Rows : tasks[t].created <= Cardinality(Rows)

ClaimedIsNotQueued ==
  \A t \in TaskIds : tasks[t].claimed => tasks[t].status \notin {"absent", "queued"}

StoreInv ==
  /\ TasksTypeOK /\ SecretOnlyWhileActive
  /\ CreatedInOrder /\ ClaimedIsNotQueued /\ NoOvertaking

LEMMA RowsFinite == IsFiniteSet(Rows) /\ Cardinality(Rows) \in Nat
<1>1. IsFiniteSet(Rows)
  BY AgentTasksAssumption, FS_Subset DEF Rows
<1> QED
  BY <1>1, FS_CardinalityType

LEMMA CoalesceType == \A e \in Evidence, f \in Evidence : Coalesce(e, f) \in Evidence
BY DEF Coalesce

LEMMA InitStore == TasksInit => StoreInv
BY AgentTasksAssumption
   DEF TasksInit, NoRow, StoreInv, TasksTypeOK, Row, SecretOnlyWhileActive,
       CreatedInOrder, ClaimedIsNotQueued, NoOvertaking, Rows

\* What every method but creation and claiming does to one row: its identity
\* stays, it never becomes queued or claimed, and it holds a secret only if it
\* held one and is still active.
Ages(t) ==
  /\ tasks'[t] \in Row
  /\ tasks'[t].run = tasks[t].run /\ tasks'[t].agent = tasks[t].agent
  /\ tasks'[t].created = tasks[t].created /\ tasks'[t].claimed = tasks[t].claimed
  /\ tasks[t].status = "absent" <=> tasks'[t].status = "absent"
  /\ tasks'[t].status = "queued" => tasks[t].status = "queued"
  /\ tasks'[t].secret => tasks[t].secret /\ tasks'[t].status = tasks[t].status
  /\ tasks[t].status \in Terminal =>
       tasks'[t].status = tasks[t].status /\ tasks'[t].result = tasks[t].result

LEMMA AgedStore ==
  ASSUME StoreInv, tasks' \in [TaskIds -> Row], \A t \in TaskIds : Ages(t)
  PROVE  StoreInv'
<1>1. Rows' = Rows
  BY DEF Rows, Ages
<1>2. TasksTypeOK' /\ SecretOnlyWhileActive' /\ ClaimedIsNotQueued'
  BY DEF StoreInv, TasksTypeOK, SecretOnlyWhileActive, ClaimedIsNotQueued, Ages
<1>3. CreatedInOrder'
  BY <1>1 DEF StoreInv, CreatedInOrder, Rows, Ages
<1>4. NoOvertaking'
  BY DEF StoreInv, NoOvertaking, Ages
<1> QED
  BY <1>2, <1>3, <1>4 DEF StoreInv

\* Results, progress, abort, the sweep of a Run and recovery only age rows.
LEMMA OpsAge ==
  ASSUME StoreInv,
         \/ \E t \in TaskIds, a \in Agents, s \in Terminal, e \in Evidence :
              FinishAgentTask(t, a, s, e)
         \/ \E t \in TaskIds, a \in Agents, e \in Evidence : UpdateAgentTaskProgress(t, a, e)
         \/ \E t \in TaskIds : AbortAgentTask(t)
         \/ \E r \in Runs : CancelQueuedRunTasks(r)
         \/ RecoverTasks
  PROVE  tasks' \in [TaskIds -> Row] /\ \A t \in TaskIds : Ages(t)
<1>0. tasks \in [TaskIds -> Row] /\ SecretOnlyWhileActive
  BY DEF StoreInv, TasksTypeOK
<1>1. ASSUME NEW t \in TaskIds, NEW a \in Agents, NEW s \in Terminal, NEW e \in Evidence,
             FinishAgentTask(t, a, s, e)
      PROVE  tasks' \in [TaskIds -> Row] /\ \A u \in TaskIds : Ages(u)
  <2>1. Coalesce(e, tasks[t].result) \in Evidence
    BY <1>0, CoalesceType DEF Row
  <2> DEFINE c == Coalesce(e, tasks[t].result)
             row == [tasks[t] EXCEPT !.status = s, !.secret = FALSE, !.result = c]
             bare == [tasks[t] EXCEPT !.secret = FALSE]
  <2>2. row \in Row /\ bare \in Row
    BY <1>0, <2>1 DEF Row
  <2>3. \/ tasks[t].status = "running" /\ tasks' = [tasks EXCEPT ![t] = row]
        \/ tasks' = [tasks EXCEPT ![t] = bare]
        \/ tasks' = tasks
    BY <1>0, <1>1 DEF FinishAgentTask
  <2>4. /\ row.status = s /\ row.secret = FALSE /\ row.run = tasks[t].run
        /\ row.agent = tasks[t].agent /\ row.created = tasks[t].created
        /\ row.claimed = tasks[t].claimed
        /\ bare.status = tasks[t].status /\ bare.secret = FALSE /\ bare.run = tasks[t].run
        /\ bare.agent = tasks[t].agent /\ bare.created = tasks[t].created
        /\ bare.claimed = tasks[t].claimed /\ bare.result = tasks[t].result
    BY <1>0 DEF Row
  <2> HIDE DEF row, bare
  <2>5. tasks' \in [TaskIds -> Row]
    BY <1>0, <2>2, <2>3
  <2>6. ASSUME NEW u \in TaskIds PROVE Ages(u)
    BY <1>0, <2>2, <2>3, <2>4 DEF Ages
  <2> QED
    BY <2>5, <2>6
<1>2. ASSUME NEW t \in TaskIds, NEW a \in Agents, NEW e \in Evidence,
             UpdateAgentTaskProgress(t, a, e)
      PROVE  tasks' \in [TaskIds -> Row] /\ \A u \in TaskIds : Ages(u)
  <2>1. Coalesce(e, tasks[t].result) \in Evidence
    BY <1>0, CoalesceType DEF Row
  <2> QED
    BY <1>0, <1>2, <2>1 DEF UpdateAgentTaskProgress, ProgressAccepted, Ages, Row
<1>3. ASSUME NEW t \in TaskIds, AbortAgentTask(t)
      PROVE  tasks' \in [TaskIds -> Row] /\ \A u \in TaskIds : Ages(u)
  BY <1>0, <1>3 DEF AbortAgentTask, Ages, Row
<1>4. ASSUME NEW r \in Runs, CancelQueuedRunTasks(r)
      PROVE  tasks' \in [TaskIds -> Row] /\ \A u \in TaskIds : Ages(u)
  <2>1. ASSUME NEW u \in TaskIds PROVE tasks'[u] \in Row /\ Ages(u)
    BY <1>0, <1>4, <2>1 DEF CancelQueuedRunTasks, Ages, Row
  <2> QED
    BY <1>4, <2>1 DEF CancelQueuedRunTasks
<1>5. ASSUME RecoverTasks
      PROVE  tasks' \in [TaskIds -> Row] /\ \A u \in TaskIds : Ages(u)
  <2>1. ASSUME NEW u \in TaskIds PROVE tasks'[u] \in Row /\ Ages(u)
    BY ZenonT(60), <1>0, <1>5, <2>1 DEF RecoverTasks, Ages, Row
  <2> QED
    BY <1>5, <2>1 DEF RecoverTasks
<1> QED
  BY <1>1, <1>2, <1>3, <1>4, <1>5

LEMMA CreateStore ==
  ASSUME StoreInv, NEW t \in TaskIds, NEW r \in Runs, NEW a \in Agents, NEW s \in BOOLEAN,
         CreateAgentTask(t, r, a, s)
  PROVE  StoreInv'
<1>0. /\ tasks \in [TaskIds -> Row] /\ Cardinality(Rows) \in Nat /\ IsFiniteSet(Rows)
      /\ tasks[t].status = "absent"
  BY RowsFinite DEF StoreInv, TasksTypeOK, CreateAgentTask
<1> DEFINE new == [status |-> "queued", run |-> r, agent |-> a, result |-> 0,
                   created |-> Cardinality(Rows) + 1, claimed |-> FALSE, secret |-> s]
<1>1. new \in Row /\ tasks' = [tasks EXCEPT ![t] = new]
  BY <1>0, AgentTasksAssumption DEF CreateAgentTask, Row
<1>2. /\ tasks'[t] = new /\ tasks' \in [TaskIds -> Row]
      /\ \A u \in TaskIds \ {t} : tasks'[u] = tasks[u]
  BY <1>0, <1>1
<1>3. Rows' = Rows \cup {t} /\ t \notin Rows
  BY <1>0, <1>2 DEF Rows
<1>4. Cardinality(Rows') = Cardinality(Rows) + 1
  BY <1>0, <1>3, FS_AddElement
<1>5. CreatedInOrder'
  <2> SUFFICES ASSUME NEW u \in Rows' PROVE tasks'[u].created <= Cardinality(Rows')
    BY DEF CreatedInOrder
  <2>1. u \in TaskIds /\ tasks'[u].created \in Nat
    BY <1>2 DEF Rows, Row
  <2>2. CASE u = t
    BY <1>2, <1>4, <2>2, <1>0
  <2>3. CASE u # t
    <3>1. u \in Rows /\ tasks'[u] = tasks[u]
      BY <1>2, <1>3, <2>1, <2>3
    <3>2. tasks[u].created <= Cardinality(Rows)
      BY <3>1 DEF StoreInv, CreatedInOrder
    <3> QED
      BY <1>0, <1>4, <2>1, <3>1, <3>2
  <2> QED
    BY <2>2, <2>3
<1>6. TasksTypeOK' /\ SecretOnlyWhileActive' /\ ClaimedIsNotQueued'
  BY <1>2 DEF StoreInv, TasksTypeOK, SecretOnlyWhileActive, ClaimedIsNotQueued
<1>7. NoOvertaking'
  <2> SUFFICES ASSUME NEW u \in TaskIds, NEW v \in TaskIds,
                      tasks'[u].claimed, tasks'[v].status # "absent",
                      tasks'[v].agent = tasks'[u].agent, tasks'[v].created < tasks'[u].created
               PROVE  tasks'[v].status # "queued"
    BY DEF NoOvertaking
  <2>1. u # t /\ tasks'[u] = tasks[u]
    BY <1>2
  <2>2. tasks[u].created \in Nat /\ (u \in Rows => tasks[u].created <= Cardinality(Rows))
    BY <1>0 DEF StoreInv, CreatedInOrder, Row
  <2>3. CASE v = t
    <3>1. tasks[u].status = "absent"
      BY <1>0, <1>2, <2>1, <2>2, <2>3 DEF Rows
    <3>2. FALSE
      BY <2>1, <3>1 DEF StoreInv, ClaimedIsNotQueued
    <3> QED
      BY <3>2
  <2>4. CASE v # t
    BY <1>2, <2>1, <2>4 DEF StoreInv, NoOvertaking
  <2> QED
    BY <2>3, <2>4
<1> QED
  BY <1>5, <1>6, <1>7 DEF StoreInv

LEMMA ClaimStore ==
  ASSUME StoreInv, NEW a \in Agents, NEW t \in TaskIds, ClaimAgentTask(a, t)
  PROVE  StoreInv'
<1>0. tasks \in [TaskIds -> Row]
  BY DEF StoreInv, TasksTypeOK
<1> DEFINE row == [tasks[t] EXCEPT !.status = "running", !.claimed = TRUE]
<1>1. row \in Row /\ tasks' = [tasks EXCEPT ![t] = row]
  BY <1>0 DEF ClaimAgentTask, Row
<1>2. /\ tasks'[t] = row /\ tasks' \in [TaskIds -> Row]
      /\ \A u \in TaskIds \ {t} : tasks'[u] = tasks[u]
      /\ row.status = "running" /\ row.agent = tasks[t].agent /\ row.created = tasks[t].created
      /\ row.secret = tasks[t].secret
      /\ tasks[t].status = "queued" /\ tasks[t].agent = a
  BY <1>0, <1>1 DEF ClaimAgentTask, QueuedFor, Row
<1>3. \A u \in TaskIds : tasks[u].status = "queued" /\ tasks[u].agent = a
        => tasks[t].created <= tasks[u].created
  BY DEF ClaimAgentTask, QueuedFor
<1> HIDE DEF row
<1>4. Rows' = Rows
  BY <1>2 DEF Rows
<1>5. TasksTypeOK' /\ SecretOnlyWhileActive' /\ ClaimedIsNotQueued'
  BY <1>2 DEF StoreInv, TasksTypeOK, SecretOnlyWhileActive, ClaimedIsNotQueued
<1>6. CreatedInOrder'
  BY <1>2, <1>4 DEF StoreInv, CreatedInOrder, Rows
<1>7. NoOvertaking'
  <2> SUFFICES ASSUME NEW u \in TaskIds, NEW v \in TaskIds,
                      tasks'[u].claimed, tasks'[v].status # "absent",
                      tasks'[v].agent = tasks'[u].agent, tasks'[v].created < tasks'[u].created,
                      tasks'[v].status = "queued"
               PROVE  FALSE
    BY DEF NoOvertaking
  <2>1. v # t /\ tasks'[v] = tasks[v]
    BY <1>2
  <2>2. tasks[u].created \in Nat /\ tasks[v].created \in Nat /\ tasks[t].created \in Nat
    BY <1>0 DEF Row
  <2>3. CASE u = t
    BY <1>2, <1>3, <2>1, <2>2, <2>3
  <2>4. CASE u # t
    BY <1>2, <2>1, <2>4 DEF StoreInv, NoOvertaking
  <2> QED
    BY <2>3, <2>4
<1> QED
  BY <1>5, <1>6, <1>7 DEF StoreInv

LEMMA StoreStep == StoreInv /\ [Next]_tasks => StoreInv'
<1> SUFFICES ASSUME StoreInv, [Next]_tasks PROVE StoreInv'
  OBVIOUS
<1>1. CASE UNCHANGED tasks
  BY <1>1 DEF StoreInv, TasksTypeOK, SecretOnlyWhileActive, CreatedInOrder, ClaimedIsNotQueued,
     NoOvertaking, Rows
<1>2. CASE Next
  BY <1>2, CreateStore, ClaimStore, OpsAge, AgedStore DEF Next
<1> QED
  BY <1>1, <1>2

LEMMA StoreInvariant == Spec => []StoreInv
BY InitStore, StoreStep, PTL DEF Spec

-----------------------------------------------------------------------------
\* The rows keep their type, whatever the order of the calls.
THEOREM StoreTypeCorrect == Spec => []TasksTypeOK
<1>1. StoreInv => TasksTypeOK
  BY DEF StoreInv
<1> QED
  BY <1>1, StoreInvariant, PTL

\* No secret outlives its task, whichever of completion, abort, cancellation
\* and recovery closes it.
THEOREM SecretsErased == Spec => []SecretOnlyWhileActive
<1>1. StoreInv => SecretOnlyWhileActive
  BY DEF StoreInv
<1> QED
  BY <1>1, StoreInvariant, PTL

\* claim_agent_task is first in, first out per Agent, also when tasks of
\* several Runs are created, cancelled and claimed in between.
THEOREM FirstInFirstOut == Spec => []NoOvertaking
<1>1. StoreInv => NoOvertaking
  BY DEF StoreInv
<1> QED
  BY <1>1, StoreInvariant, PTL

\* No method changes the status or the evidence of a closed row.
THEOREM ClosedStaysClosed == Spec => ClosedTaskIsFinal
<1> DEFINE Final == \A t \in TaskIds :
             tasks[t].status \in Terminal =>
               /\ tasks'[t].status = tasks[t].status
               /\ tasks'[t].result = tasks[t].result
<1>1. StoreInv /\ [Next]_tasks => [Final]_tasks
  <2> SUFFICES ASSUME StoreInv, Next PROVE Final
    BY DEF Final
  <2>0. tasks \in [TaskIds -> Row]
    BY DEF StoreInv, TasksTypeOK
  <2>1. ASSUME NEW t \in TaskIds, NEW r \in Runs, NEW a \in Agents, NEW s \in BOOLEAN,
               CreateAgentTask(t, r, a, s)
        PROVE  Final
    BY <2>0, <2>1 DEF CreateAgentTask
  <2>2. ASSUME NEW a \in Agents, NEW t \in TaskIds, ClaimAgentTask(a, t) PROVE Final
    BY <2>0, <2>2 DEF ClaimAgentTask, QueuedFor
  <2> QED
    BY <2>1, <2>2, OpsAge DEF Next, Ages
<1> QED
  BY <1>1, StoreInvariant, PTL DEF Spec, ClosedTaskIsFinal
=============================================================================

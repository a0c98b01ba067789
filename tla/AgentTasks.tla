---------------------------- MODULE AgentTasks -----------------------------
(***************************************************************************)
(* The durable Agent task table of cloudmark/database.py together with the *)
(* in-memory map of ephemeral task secrets beside it.  Every operator is   *)
(* one method of Database: the method holds the write lock and one SQLite  *)
(* transaction, so it is one atomic step.  The callers decide when a step  *)
(* happens; the modules that model them instantiate this one.              *)
(***************************************************************************)
EXTENDS Integers, FiniteSets

CONSTANTS
  TaskIds,      \* task rows that can ever be created
  Runs,         \* parent runs
  Agents,       \* Agent identities
  Evidence,     \* result payloads, ordered by how much evidence they hold
  NoRun, NoAgent

ASSUME AgentTasksAssumption ==
  /\ IsFiniteSet(TaskIds)
  /\ NoRun \notin Runs /\ NoAgent \notin Agents
  /\ Evidence \subseteq Nat /\ 0 \in Evidence   \* 0 is a NULL result_json

VARIABLE tasks  \* the rows of agent_tasks, with the secret kept for each

Active == {"queued", "running"}
Terminal == {"completed", "failed", "cancelled"}

Row == [status  : {"absent"} \cup Active \cup Terminal,
        run     : Runs \cup {NoRun},
        agent   : Agents \cup {NoAgent},
        result  : Evidence,
        created : Nat,             \* created_at
        claimed : BOOLEAN,         \* claimed_at IS NOT NULL
        secret  : BOOLEAN]         \* task id in _ephemeral_task_secrets

NoRow == [status |-> "absent", run |-> NoRun, agent |-> NoAgent, result |-> 0,
          created |-> 0, claimed |-> FALSE, secret |-> FALSE]

TasksTypeOK == tasks \in [TaskIds -> Row]

TasksInit == tasks = [t \in TaskIds |-> NoRow]

Rows == {t \in TaskIds : tasks[t].status # "absent"}

\* Mutant of Coalesce: evidence accumulates instead of being replaced.
CoalesceAdds(new, old) == new + old

\* SQL's COALESCE(new, old) on a result column.
Coalesce(new, old) == IF new = 0 THEN old ELSE new

-----------------------------------------------------------------------------
\* INSERT INTO agent_tasks: the row starts queued, behind every row before it.
CreateAgentTask(t, r, a, secret) ==
  /\ tasks[t].status = "absent"
  /\ tasks' = [tasks EXCEPT ![t] =
       [status |-> "queued", run |-> r, agent |-> a, result |-> 0,
        created |-> Cardinality(Rows) + 1, claimed |-> FALSE, secret |-> secret]]

QueuedFor(a) == {t \in TaskIds : tasks[t].status = "queued" /\ tasks[t].agent = a}

\* Mutant of ClaimAgentTask: no ORDER BY created_at.
ClaimAnyAgentTask(a, t) ==
  /\ t \in QueuedFor(a)
  /\ tasks' = [tasks EXCEPT ![t].status = "running", ![t].claimed = TRUE]

\* SELECT ... WHERE status = 'queued' ORDER BY created_at LIMIT 1, then the
\* guarded UPDATE of that row in the same transaction.  The secret stays in
\* the map: it is copied into the response.
ClaimAgentTask(a, t) ==
  /\ t \in QueuedFor(a)
  /\ \A u \in QueuedFor(a) : tasks[t].created <= tasks[u].created
  /\ tasks' = [tasks EXCEPT ![t].status = "running", ![t].claimed = TRUE]

\* Mutant of FinishAccepted: a row that has been closed before is not found.
FinishAcceptedWhileRunning(t, a) == tasks[t].agent = a /\ tasks[t].status = "running"

\* What finish_agent_task answers: True when it closed the row, and also when
\* the row had been closed before.
FinishAccepted(t, a) ==
  tasks[t].agent = a /\ tasks[t].status \in {"running"} \cup Terminal

\* Mutant of FinishAgentTask: the UPDATE has no guard on the status.
FinishAgentTaskUnguarded(t, a, status, result) ==
  tasks' = IF tasks[t].agent = a /\ tasks[t].status # "queued"
           THEN [tasks EXCEPT ![t].status = status, ![t].secret = FALSE,
                              ![t].result = Coalesce(result, tasks[t].result)]
           ELSE tasks

\* Guarded UPDATE of a running row; on a row that is already terminal only the
\* secret is dropped.
FinishAgentTask(t, a, status, result) ==
  tasks' =
    IF tasks[t].agent = a /\ tasks[t].status = "running"
    THEN [tasks EXCEPT ![t].status = status, ![t].secret = FALSE,
                       ![t].result = Coalesce(result, tasks[t].result)]
    ELSE IF FinishAccepted(t, a) THEN [tasks EXCEPT ![t].secret = FALSE]
    ELSE tasks

\* UPDATE ... WHERE status = 'running'; the caller learns from the guard
\* whether the row was still running.
ProgressAccepted(t, a) == tasks[t].agent = a /\ tasks[t].status = "running"

UpdateAgentTaskProgress(t, a, result) ==
  /\ ProgressAccepted(t, a)
  /\ tasks' = [tasks EXCEPT ![t].result = Coalesce(result, tasks[t].result)]

\* Mutants of AbortAgentTask: the secret stays; a claimed row stays.
AbortKeepsSecret(t) ==
  tasks' = IF tasks[t].status \in Active THEN [tasks EXCEPT ![t].status = "cancelled"] ELSE tasks

AbortOnlyQueued(t) ==
  tasks' = IF tasks[t].status = "queued"
           THEN [tasks EXCEPT ![t].status = "cancelled", ![t].secret = FALSE]
           ELSE tasks

\* UPDATE ... WHERE status IN ('queued', 'running').
AbortAgentTask(t) ==
  tasks' = IF tasks[t].status \in Active
           THEN [tasks EXCEPT ![t].status = "cancelled", ![t].secret = FALSE]
           ELSE tasks

HasActiveAgentTask(a) ==
  \E t \in TaskIds : tasks[t].agent = a /\ tasks[t].status \in Active

\* Only the rows nobody has claimed: what an Agent runs is left to the Agent.
CancelQueuedRunTasks(r) ==
  tasks' = [t \in TaskIds |->
              IF tasks[t].run = r /\ tasks[t].status = "queued"
              THEN [tasks[t] EXCEPT !.status = "cancelled", !.secret = FALSE]
              ELSE tasks[t]]

\* Mutant of RecoverTasks: rows an Agent has claimed survive the restart.
RecoverQueuedTasks ==
  tasks' = [t \in TaskIds |->
              [tasks[t] EXCEPT
                 !.status = IF @ = "queued" THEN "cancelled" ELSE @,
                 !.secret = FALSE]]

\* The agent_tasks half of recover_incomplete_runs, at Controller start.
RecoverTasks ==
  tasks' = [t \in TaskIds |->
              [tasks[t] EXCEPT
                 !.status = IF @ \in Active THEN "cancelled" ELSE @,
                 !.secret = FALSE]]
=============================================================================

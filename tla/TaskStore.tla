----------------------------- MODULE TaskStore -----------------------------
(***************************************************************************)
(* The task table on its own: any caller may use the methods of AgentTasks *)
(* in any order.  What holds here is the contract of the table itself, and *)
(* does not depend on the discipline of the Controller or of the Agents.   *)
(***************************************************************************)
EXTENDS AgentTasks

Next ==
  \/ \E t \in TaskIds, r \in Runs, a \in Agents, s \in BOOLEAN : CreateAgentTask(t, r, a, s)
  \/ \E a \in Agents, t \in TaskIds : ClaimAgentTask(a, t)
  \/ \E t \in TaskIds, a \in Agents, s \in Terminal, e \in Evidence : FinishAgentTask(t, a, s, e)
  \/ \E t \in TaskIds, a \in Agents, e \in Evidence : UpdateAgentTaskProgress(t, a, e)
  \/ \E t \in TaskIds : AbortAgentTask(t)
  \/ \E r \in Runs : CancelQueuedRunTasks(r)
  \/ RecoverTasks

Spec == TasksInit /\ [][Next]_tasks

-----------------------------------------------------------------------------
\* A secret is held only for a task that can still be delivered or is running:
\* completion, failure, cancellation, abort and a Controller restart all erase
\* it, whichever comes first and however often they are repeated.
SecretOnlyWhileActive ==
  \A t \in TaskIds : tasks[t].secret => tasks[t].status \in Active

\* An Agent starts its tasks in the order the Controller created them: once a
\* task has been claimed, no older task of the same Agent is still waiting.
\* The paired executors count on it when they queue the stop task of a service
\* behind whatever its Target was given before.
NoOvertaking ==
  \A t, u \in TaskIds :
    /\ tasks[t].claimed
    /\ tasks[u].status # "absent"
    /\ tasks[u].agent = tasks[t].agent
    /\ tasks[u].created < tasks[t].created
    => tasks[u].status # "queued"

\* A closed task keeps the outcome and the evidence it was closed with: a late
\* or repeated result, a late progress report, a second abort or the recovery
\* of a restart changes neither.
ClosedTaskIsFinal ==
  [][\A t \in TaskIds :
       tasks[t].status \in Terminal =>
         /\ tasks'[t].status = tasks[t].status
         /\ tasks'[t].result = tasks[t].result]_tasks
=============================================================================

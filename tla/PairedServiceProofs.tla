------------------------ MODULE PairedServiceProofs ------------------------
(***************************************************************************)
(* Proofs about PairedService, for every plan, any number of Runs and any  *)
(* number of restarts: its safety properties follow from one invariant.    *)
(***************************************************************************)
EXTENDS PairedService, FiniteSetTheorems, TLAPS

Status(r, i) == tasks[<<r, i>>].status
Claimed(r, i) == tasks[<<r, i>>].claimed

\* A row of the task table belongs to its plan step and was created after the
\* rows of earlier steps; what is open, claimed and measured fits together.
RowInv ==
  \A t \in TaskIds :
    /\ tasks[t].status = "queued" => ~tasks[t].claimed
    /\ tasks[t].status \in {"running", "completed"} => tasks[t].claimed
    /\ tasks[t].claimed => tasks[t].status \notin {"absent", "queued"}
    /\ tasks[t].status # "absent" =>
         /\ tasks[t].run = t[1] /\ tasks[t].agent = AgentFor(KindOf(t))
         /\ tasks[t].created <= Cardinality(Rows)
    /\ tasks[t].result # Foreign

OrderInv ==
  \A r \in Runs : \A i, j \in 1..Last :
    i < j /\ Created(r, i) /\ Created(r, j) => tasks[<<r, i>>].created < tasks[<<r, j>>].created

\* An Agent works on a row it has claimed; evidence from another Run's service
\* comes too late for its row.
AgentSound(a) ==
  agents[a].mode \in {"busy", "posting"} =>
    /\ agents[a].task \in TaskIds
    /\ tasks[agents[a].task].claimed /\ tasks[agents[a].task].agent = a
    /\ agents[a].mode = "posting" =>
         /\ agents[a].status \in Terminal
         /\ agents[a].result = Foreign => tasks[agents[a].task].status # "running"

AgentInv == \A a \in Agents : AgentSound(a)

Advancing == {"none", "created", "ready", "reporting", "creating", "waiting", "completing"}
Aborting == {"unwinding", "closing"}
Finishing == {"sweeping", "settling", "gone"}

\* Where the executor of Run r stands, w, and the rows it has created.
Placed(r, w) ==
  /\ w.pc \in {"none", "created", "ready"} => w.step = 1
  /\ w.pc \in {"reporting", "creating", "waiting"} => w.step <= Last
  /\ w.pc \in Advancing => w.outcome = "none"
  /\ w.pc \in Aborting => w.outcome \notin {"none", "completed"}
  /\ w.pc \in {"sweeping", "settling"} => w.outcome # "none"
  /\ w.pc \in Finishing /\ w.outcome = "completed" => Status(r, Last) = "completed"

Advance(r, w) ==
  w.pc \in Advancing => \A i \in 1..Last :
    /\ Created(r, i) <=> i < w.step \/ (i = w.step /\ w.pc = "waiting")
    /\ i < w.step => Status(r, i) = "completed"

Scheduled(r, w) ==
  /\ \A i \in 1..Last : Created(r, Last) /\ w.prepared /\ Plan[i] = "cleanup" => Created(r, i)
  /\ w.pc \in Finishing /\ w.outcome # "none" /\ Created(r, 1) => Created(r, Last)
  /\ \A i \in 1..Last : Created(r, i) => Created(r, 1)
  /\ \A i \in 2..(Last - 1) :
       Created(r, i) /\ Plan[i] # "cleanup" => Status(r, 1) = "completed"

WorkerSound(r, w) == Placed(r, w) /\ Advance(r, w) /\ Scheduled(r, w)

WorkerInv == \A r \in Runs : WorkerSound(r, worker[r])

Live(r) == worker[r].pc \notin {"none", "gone"}

RunInv ==
  \A r \in Runs :
    /\ runs[r].status \in Open <=> Live(r)
    /\ runs[r].status = "completed" => Status(r, Last) = "completed"

\* A Run occupies the pair while its executor lives or a row of it is open.
Occupies(r) == Live(r) \/ \E i \in 1..Last : Status(r, i) \in Active

ExclusiveInv == \A r, s \in Runs : Occupies(r) /\ Occupies(s) => r = s

On(mode, r, i) == agents["target"].mode = mode /\ agents["target"].task = <<r, i>>

\* The start task is past before the stop task is claimed; while a Run whose
\* service has come up occupies the pair, no other service can be active.
ServiceInv ==
  \A r \in Runs :
    /\ Claimed(r, Last) => Status(r, 1) # "queued"
    /\ On("busy", r, 1) => ~Claimed(r, Last)
    /\ On("posting", r, Last) /\ agents["target"].status = "completed" => r \notin services
    /\ Status(r, Last) = "completed" => r \notin services
    /\ On("posting", r, 1) /\ agents["target"].status = "completed" /\ Status(r, 1) = "running"
         => services \subseteq {r}
    /\ Occupies(r) /\ Status(r, 1) = "completed" =>
         /\ services \subseteq {r}
         /\ \A s \in Runs : On("busy", s, 1) => s = r

Inv ==
  /\ TypeOK /\ RowInv /\ OrderInv /\ AgentInv /\ WorkerInv /\ RunInv /\ ExclusiveInv /\ ServiceInv

-----------------------------------------------------------------------------
(* The plan, the rows, and the operations of the task table on them.        *)

LEMMA PlanFacts ==
  /\ Last \in Nat /\ Last >= 3 /\ 1 \in 1..Last /\ Last \in 1..Last
  /\ \A i \in 1..Last : /\ Plan[i] \in Kinds /\ (Plan[i] = "start" <=> i = 1)
                        /\ (Plan[i] = "stop" <=> i = Last)
                        /\ Plan[i] = "cleanup" <=> (Engine = "mysql" /\ i = Last - 1)
<1>1. Last \in Nat
  BY PairedAssumption DEF Last
<1> QED
  BY <1>1, PairedAssumption DEF Last

LEMMA TaskIdFacts ==
  /\ \A r \in Runs, i \in 1..Last : <<r, i>> \in TaskIds
  /\ \A t \in TaskIds : t[1] \in Runs /\ t[2] \in 1..Last /\ t = <<t[1], t[2]>>
  /\ NoTask \notin TaskIds
BY PairedAssumption DEF TaskIds, NoTask

LEMMA RowsFinite == IsFiniteSet(Rows) /\ Cardinality(Rows) \in Nat
<1>1. IsFiniteSet(1..Last)
  BY PlanFacts, FS_Interval
<1>2. IsFiniteSet(TaskIds)
  BY <1>1, PairedAssumption, FS_Product DEF TaskIds
<1>3. IsFiniteSet(Rows)
  BY <1>2, FS_Subset DEF Rows
<1> QED
  BY <1>3, FS_CardinalityType

LEMMA AgentForType == \A kind \in Kinds : AgentFor(kind) \in Agents
BY DEF AgentFor, Agents, Kinds

\* What no operation but the creation of a row does to the table.
RowsKept ==
  \A t \in TaskIds :
    /\ tasks'[t].status = "absent" <=> tasks[t].status = "absent"
    /\ tasks'[t].status = "queued" => tasks[t].status = "queued"
    /\ tasks[t].status \in Terminal => tasks'[t].status = tasks[t].status
    /\ tasks'[t].run = tasks[t].run /\ tasks'[t].agent = tasks[t].agent
    /\ tasks'[t].created = tasks[t].created
    /\ tasks[t].claimed => tasks'[t].claimed

\* In every row an operation keeps the table's type and its invariant.
LEMMA RowsKeptInv ==
  ASSUME RowInv, RowsKept,
         \A t \in TaskIds :
           /\ tasks'[t].status = "queued" => ~tasks'[t].claimed
           /\ tasks'[t].status \in {"running", "completed"} => tasks'[t].claimed
           /\ tasks'[t].claimed => tasks'[t].status \notin {"absent", "queued"}
           /\ tasks'[t].result # Foreign
  PROVE  Rows' = Rows /\ RowInv'
<1>1. Rows' = Rows
  BY DEF RowsKept, Rows
<1>2. Cardinality(Rows)' = Cardinality(Rows)
  BY <1>1
<1> QED
  BY <1>1, <1>2 DEF RowsKept, RowInv

LEMMA ClaimEffect ==
  ASSUME TasksTypeOK, RowInv, NEW a \in Agents, NEW t \in TaskIds, ClaimAgentTask(a, t)
  PROVE  /\ TasksTypeOK' /\ RowInv' /\ RowsKept
         /\ tasks[t].status = "queued" /\ tasks[t].agent = a /\ ~tasks[t].claimed
         /\ tasks'[t].status = "running" /\ tasks'[t].claimed
         /\ \A u \in TaskIds : u # t => tasks'[u] = tasks[u]
<1> DEFINE row == [tasks[t] EXCEPT !.status = "running", !.claimed = TRUE]
<1>1. tasks \in [TaskIds -> Row] /\ tasks[t] \in Row
  BY DEF TasksTypeOK
<1>2. row \in Row /\ row.status = "running" /\ row.claimed = TRUE /\ row.run = tasks[t].run
      /\ row.agent = tasks[t].agent /\ row.created = tasks[t].created
      /\ row.result = tasks[t].result
  BY <1>1, Zenon DEF Row, Active
<1>3. tasks' = [tasks EXCEPT ![t] = row]
  BY <1>1 DEF ClaimAgentTask
<1>4. tasks[t].status = "queued" /\ tasks[t].agent = a
  BY DEF ClaimAgentTask, QueuedFor
<1> HIDE DEF row
<1>5. TasksTypeOK' /\ tasks'[t] = row /\ \A u \in TaskIds : u # t => tasks'[u] = tasks[u]
  BY <1>1, <1>2, <1>3 DEF TasksTypeOK
<1>6. RowsKept
  BY <1>2, <1>4, <1>5 DEF RowsKept, Terminal
<1>7. RowInv'
  BY <1>2, <1>4, <1>5, <1>6, RowsKeptInv DEF RowInv
<1> QED
  BY <1>2, <1>4, <1>5, <1>6, <1>7 DEF RowInv

LEMMA FinishEffect ==
  ASSUME TasksTypeOK, RowInv, NEW a \in Agents, NEW t \in TaskIds,
         NEW status \in Terminal, NEW result \in Evidence,
         tasks[t].claimed, tasks[t].agent = a,
         result = Foreign => tasks[t].status # "running",
         FinishAgentTask(t, a, status, result)
  PROVE  /\ TasksTypeOK' /\ RowInv' /\ RowsKept
         /\ tasks'[t].status = IF tasks[t].status = "running" THEN status ELSE tasks[t].status
         /\ tasks'[t].claimed = tasks[t].claimed
         /\ \A u \in TaskIds : u # t => tasks'[u] = tasks[u]
<1> DEFINE stored == Coalesce(result, tasks[t].result)
           closed == [tasks[t] EXCEPT !.status = status, !.secret = FALSE, !.result = stored]
           bare == [tasks[t] EXCEPT !.secret = FALSE]
<1>1. tasks \in [TaskIds -> Row] /\ tasks[t] \in Row
  BY DEF TasksTypeOK
<1>2. tasks[t].status \in Terminal \cup {"running"} /\ tasks[t].claimed
      /\ tasks[t].result # Foreign
  BY <1>1 DEF RowInv, Row, Active
<1>3. CASE tasks[t].status = "running"
  <2>1. stored \in Evidence /\ stored # Foreign
    BY <1>1, <1>2, <1>3 DEF Coalesce, Row, Evidence
  <2>2. tasks' = [tasks EXCEPT ![t] = closed]
    BY <1>1, <1>3 DEF FinishAgentTask
  <2> HIDE DEF stored
  <2>3. closed \in Row /\ closed.status = status /\ closed.claimed = tasks[t].claimed
        /\ closed.run = tasks[t].run /\ closed.agent = tasks[t].agent
        /\ closed.created = tasks[t].created /\ closed.result = stored
    BY <1>1, <2>1, Zenon DEF Row
  <2> HIDE DEF closed
  <2>4. TasksTypeOK' /\ tasks'[t] = closed /\ \A u \in TaskIds : u # t => tasks'[u] = tasks[u]
    BY <1>1, <2>2, <2>3 DEF TasksTypeOK
  <2>5. RowsKept
    BY <1>3, <2>3, <2>4 DEF RowsKept, Terminal
  <2>6. /\ tasks'[t].status \notin {"absent", "queued", "running"} /\ tasks'[t].claimed
        /\ tasks'[t].result # Foreign
    BY <1>2, <2>1, <2>3, <2>4 DEF Terminal
  <2>7. ASSUME NEW u \in TaskIds
        PROVE  /\ tasks'[u].status = "queued" => ~tasks'[u].claimed
               /\ tasks'[u].status \in {"running", "completed"} => tasks'[u].claimed
               /\ tasks'[u].claimed => tasks'[u].status \notin {"absent", "queued"}
               /\ tasks'[u].result # Foreign
    <3>1. CASE u = t
      BY <2>6, <3>1
    <3>2. CASE u # t
      BY <2>4, <3>2 DEF RowInv
    <3> QED
      BY <3>1, <3>2
  <2>8. RowInv'
    BY <2>5, <2>7, RowsKeptInv
  <2> QED
    BY <1>3, <2>3, <2>4, <2>5, <2>8
<1>4. CASE tasks[t].status # "running"
  <2>1. tasks' = [tasks EXCEPT ![t] = bare]
    BY <1>1, <1>2, <1>4 DEF FinishAgentTask, FinishAccepted
  <2>2. bare \in Row /\ bare.status = tasks[t].status /\ bare.claimed = tasks[t].claimed
        /\ bare.run = tasks[t].run /\ bare.agent = tasks[t].agent
        /\ bare.created = tasks[t].created /\ bare.result = tasks[t].result
    BY <1>1, Zenon DEF Row
  <2> HIDE DEF bare
  <2>3. TasksTypeOK' /\ tasks'[t] = bare /\ \A u \in TaskIds : u # t => tasks'[u] = tasks[u]
    BY <1>1, <2>1, <2>2 DEF TasksTypeOK
  <2>4. RowsKept
    BY <2>2, <2>3 DEF RowsKept, Terminal
  <2>5. tasks'[t].status = tasks[t].status /\ tasks'[t].claimed = tasks[t].claimed
        /\ tasks'[t].result = tasks[t].result
    BY <2>2, <2>3
  <2>6. ASSUME NEW u \in TaskIds
        PROVE  tasks'[u].status = tasks[u].status /\ tasks'[u].claimed = tasks[u].claimed
               /\ tasks'[u].result = tasks[u].result
    BY <2>3, <2>5
  <2>7. RowInv'
    BY <2>4, <2>6, RowsKeptInv DEF RowInv
  <2> QED
    BY <1>4, <2>3, <2>4, <2>5, <2>7
<1> QED
  BY <1>3, <1>4

\* A sweep or a recovery closes rows; it claims none and completes none.
RowsClosed ==
  \A t \in TaskIds :
    /\ tasks'[t].status \in {tasks[t].status, "cancelled"}
    /\ tasks'[t].claimed = tasks[t].claimed /\ tasks'[t].result = tasks[t].result

LEMMA ClosedRows ==
  ASSUME TasksTypeOK, RowInv, RowsClosed,
         \A t \in TaskIds :
           /\ tasks'[t].run = tasks[t].run /\ tasks'[t].agent = tasks[t].agent
           /\ tasks'[t].created = tasks[t].created
           /\ tasks'[t].status # tasks[t].status => tasks[t].status \in Active
  PROVE  RowInv' /\ RowsKept
<1>1. RowsKept
  BY DEF RowsClosed, RowsKept, Active, Terminal
<1>2. ASSUME NEW t \in TaskIds
      PROVE  /\ tasks'[t].status = "queued" => ~tasks'[t].claimed
             /\ tasks'[t].status \in {"running", "completed"} => tasks'[t].claimed
             /\ tasks'[t].claimed => tasks'[t].status \notin {"absent", "queued"}
             /\ tasks'[t].result # Foreign
  BY DEF RowsClosed, RowInv
<1> QED
  BY <1>1, <1>2, RowsKeptInv

LEMMA SweepEffect ==
  ASSUME TasksTypeOK, RowInv, NEW r \in Runs, CancelQueuedRunTasks(r)
  PROVE  TasksTypeOK' /\ RowInv' /\ RowsKept /\ RowsClosed
<1>1. ASSUME NEW t \in TaskIds
      PROVE  /\ tasks'[t] \in Row
             /\ tasks'[t].status \in {tasks[t].status, "cancelled"}
             /\ tasks'[t].claimed = tasks[t].claimed /\ tasks'[t].result = tasks[t].result
             /\ tasks'[t].run = tasks[t].run /\ tasks'[t].agent = tasks[t].agent
             /\ tasks'[t].created = tasks[t].created
             /\ tasks'[t].status # tasks[t].status => tasks[t].status \in Active
  <2> DEFINE row == [tasks[t] EXCEPT !.status = "cancelled", !.secret = FALSE]
  <2>1. tasks[t] \in Row
    BY DEF TasksTypeOK
  <2>2. row \in Row /\ row.status = "cancelled" /\ row.claimed = tasks[t].claimed
        /\ row.run = tasks[t].run /\ row.agent = tasks[t].agent
        /\ row.created = tasks[t].created /\ row.result = tasks[t].result
    BY <2>1, Zenon DEF Row, Terminal
  <2>3. tasks'[t] = tasks[t] \/ (tasks'[t] = row /\ tasks[t].status = "queued")
    BY DEF CancelQueuedRunTasks
  <2> HIDE DEF row
  <2> QED
    BY <2>1, <2>2, <2>3 DEF Active
<1>2. TasksTypeOK'
  BY <1>1 DEF CancelQueuedRunTasks, TasksTypeOK
<1> QED
  BY <1>1, <1>2, ClosedRows DEF RowsClosed

LEMMA RecoverEffect ==
  ASSUME TasksTypeOK, RowInv, RecoverTasks
  PROVE  /\ TasksTypeOK' /\ RowInv' /\ RowsKept /\ RowsClosed
         /\ \A t \in TaskIds : tasks'[t].status \notin Active
<1>1. ASSUME NEW t \in TaskIds
      PROVE  /\ tasks'[t] \in Row
             /\ tasks'[t].status \in {tasks[t].status, "cancelled"}
             /\ tasks'[t].claimed = tasks[t].claimed /\ tasks'[t].result = tasks[t].result
             /\ tasks'[t].run = tasks[t].run /\ tasks'[t].agent = tasks[t].agent
             /\ tasks'[t].created = tasks[t].created
             /\ tasks'[t].status # tasks[t].status => tasks[t].status \in Active
             /\ tasks'[t].status \notin Active
  <2> DEFINE status == IF tasks[t].status \in Active THEN "cancelled" ELSE tasks[t].status
             row == [tasks[t] EXCEPT !.status = status, !.secret = FALSE]
  <2>1. tasks[t] \in Row
    BY DEF TasksTypeOK
  <2>2. tasks'[t] = row
    BY DEF RecoverTasks
  <2>3. status \in {"absent"} \cup Active \cup Terminal
    BY <2>1 DEF Row, Active, Terminal
  <2>4. /\ status \notin Active /\ status \in {tasks[t].status, "cancelled"}
        /\ status # tasks[t].status => tasks[t].status \in Active
    BY DEF Active
  <2> HIDE DEF status
  <2>5. row \in Row
    BY <2>1, <2>3, Zenon DEF Row
  <2>6. row.status = status /\ row.claimed = tasks[t].claimed
        /\ row.run = tasks[t].run /\ row.agent = tasks[t].agent
        /\ row.created = tasks[t].created /\ row.result = tasks[t].result
    BY <2>1, Zenon DEF Row
  <2> HIDE DEF row
  <2> QED
    BY <2>2, <2>4, <2>5, <2>6
<1>2. TasksTypeOK'
  BY <1>1 DEF RecoverTasks, TasksTypeOK
<1> QED
  BY <1>1, <1>2, ClosedRows DEF RowsClosed

LEMMA CreateEffect ==
  ASSUME TasksTypeOK, RowInv, OrderInv, NEW r \in Runs, NEW i \in 1..Last, CreateStep(r, i),
         \A j \in 1..Last : Created(r, j) => j < i
  PROVE  /\ TasksTypeOK' /\ RowInv' /\ OrderInv'
         /\ ~Created(r, i)
         /\ tasks'[<<r, i>>].status = "queued" /\ ~tasks'[<<r, i>>].claimed
         /\ \A u \in TaskIds : u # <<r, i>> => tasks'[u] = tasks[u]
<1> DEFINE t == <<r, i>>
           secret == Secured /\ Plan[i] # "stop"
           row == [status |-> "queued", run |-> r, agent |-> AgentFor(Plan[i]), result |-> 0,
                   created |-> Cardinality(Rows) + 1, claimed |-> FALSE, secret |-> secret]
<1>1. tasks[t].status = "absent" /\ tasks' = [tasks EXCEPT ![t] = row] /\ t \in TaskIds
  BY TaskIdFacts DEF CreateStep, CreateAgentTask
<1>2. Cardinality(Rows) \in Nat /\ IsFiniteSet(Rows) /\ AgentFor(Plan[i]) \in Agents
      /\ secret \in BOOLEAN /\ 0 \in Evidence /\ "queued" \in Active /\ 0 # Foreign
  BY RowsFinite, AgentForType, PlanFacts DEF Evidence, Active, Foreign
<1> HIDE DEF secret
<1>3. row \in Row
  BY <1>2 DEF Row
<1>4. row.status = "queued" /\ row.run = r /\ row.agent = AgentFor(Plan[i])
      /\ row.created = Cardinality(Rows) + 1 /\ row.claimed = FALSE /\ row.result = 0
  OBVIOUS
<1> HIDE DEF row
<1>5. TasksTypeOK' /\ tasks'[t] = row /\ \A u \in TaskIds : u # t => tasks'[u] = tasks[u]
  BY <1>1, <1>3 DEF TasksTypeOK
<1>6. Rows' = Rows \cup {t} /\ t \notin Rows
  BY <1>1, <1>4, <1>5 DEF Rows
<1>7. Cardinality(Rows)' = Cardinality(Rows) + 1
  BY <1>2, <1>6, FS_AddElement
<1>8. \A u \in Rows : tasks[u].created <= Cardinality(Rows)
  BY DEF RowInv, Rows
<1>9. RowInv'
  <2>1. SUFFICES ASSUME NEW u \in TaskIds
                 PROVE  /\ tasks'[u].status = "queued" => ~tasks'[u].claimed
                        /\ tasks'[u].status \in {"running", "completed"} => tasks'[u].claimed
                        /\ tasks'[u].claimed => tasks'[u].status \notin {"absent", "queued"}
                        /\ tasks'[u].status # "absent" =>
                             /\ tasks'[u].run = u[1] /\ tasks'[u].agent = AgentFor(KindOf(u))
                             /\ tasks'[u].created <= Cardinality(Rows)'
                        /\ tasks'[u].result # Foreign
    BY DEF RowInv, KindOf, AgentFor
  <2>2. CASE u = t
    BY <1>2, <1>4, <1>5, <1>7, <2>2 DEF KindOf
  <2>3. CASE u # t
    <3>1. tasks'[u] = tasks[u] /\ tasks[u] \in Row
      BY <1>5, <2>3 DEF TasksTypeOK
    <3>2. tasks[u].created <= Cardinality(Rows) => tasks[u].created <= Cardinality(Rows) + 1
      BY <1>2, <3>1 DEF Row
    <3> QED
      BY <1>7, <3>1, <3>2 DEF RowInv
  <2> QED
    BY <2>2, <2>3
<1>10. OrderInv'
  <2>1. SUFFICES ASSUME NEW s \in Runs, NEW j \in 1..Last, NEW k \in 1..Last, j < k,
                        tasks'[<<s, j>>].status # "absent", tasks'[<<s, k>>].status # "absent"
                 PROVE  tasks'[<<s, j>>].created < tasks'[<<s, k>>].created
    BY DEF OrderInv, Created
  <2>2. <<s, j>> \in TaskIds /\ <<s, k>> \in TaskIds
    BY TaskIdFacts
  <2>3. CASE <<s, k>> = t
    <3>1. s = r /\ k = i /\ <<s, j>> # t
      BY <2>1, <2>3
    <3>2. tasks'[<<s, j>>] = tasks[<<s, j>>] /\ <<s, j>> \in Rows /\ tasks[<<s, j>>] \in Row
      BY <1>5, <2>1, <2>2, <3>1 DEF Rows, TasksTypeOK
    <3> QED
      BY <1>2, <1>4, <1>5, <1>8, <2>3, <3>2 DEF Row
  <2>4. CASE <<s, k>> # t
    <3>1. tasks'[<<s, k>>] = tasks[<<s, k>>] /\ Created(s, k)
      BY <1>5, <2>1, <2>2, <2>4 DEF Created
    <3>2. <<s, j>> # t
      BY <2>1, <3>1
    <3> QED
      BY <1>5, <2>1, <2>2, <3>1, <3>2 DEF OrderInv, Created
  <2> QED
    BY <2>3, <2>4
<1> QED
  BY <1>1, <1>4, <1>5, <1>9, <1>10 DEF Created

-----------------------------------------------------------------------------
(* What keeps each part of the invariant.                                   *)

LEMMA TasksKept ==
  ASSUME TasksTypeOK, RowInv, UNCHANGED tasks
  PROVE  TasksTypeOK' /\ RowInv' /\ RowsKept
<1>1. Rows' = Rows
  BY DEF Rows
<1> QED
  BY <1>1 DEF TasksTypeOK, RowInv, RowsKept

LEMMA OrderKept ==
  ASSUME OrderInv, RowsKept
  PROVE  OrderInv'
BY TaskIdFacts DEF OrderInv, RowsKept, Created

\* The executors stay where they are, but for that of Run r, which is at w.
LEMMA WorkerKept ==
  ASSUME WorkerInv, RowsKept, NEW r \in Runs, NEW w,
         worker'[r] = w, WorkerSound(r, w),
         \A s \in Runs : s # r => worker'[s] = worker[s]
  PROVE  WorkerInv'
<1>1. ASSUME NEW s \in Runs, NEW v, worker'[s] = v, WorkerSound(s, v)
      PROVE  WorkerSound(s, worker[s])'
  <2>1. \A i \in 1..Last : /\ Created(s, i)' <=> Created(s, i)
                           /\ Status(s, i) = "completed" => Status(s, i)' = "completed"
    BY TaskIdFacts DEF RowsKept, Created, Status, Terminal
  <2>2. Placed(s, worker[s])'
    BY <1>1, <2>1, PlanFacts DEF WorkerSound, Placed
  <2>3. Advance(s, worker[s])'
    BY <1>1, <2>1, PlanFacts DEF WorkerSound, Advance
  <2>4. Scheduled(s, worker[s])'
    BY <1>1, <2>1, PlanFacts DEF WorkerSound, Scheduled
  <2> QED
    BY <2>2, <2>3, <2>4 DEF WorkerSound
<1>2. ASSUME NEW s \in Runs PROVE WorkerSound(s, worker[s])'
  <2>1. CASE s = r
    BY <1>1, <2>1
  <2>2. CASE s # r
    BY <1>1, <2>2 DEF WorkerInv
  <2> QED
    BY <2>1, <2>2
<1> QED
  BY <1>2 DEF WorkerInv

LEMMA WorkersStay ==
  ASSUME WorkerInv, RowsKept, UNCHANGED worker
  PROVE  WorkerInv'
BY WorkerKept DEF WorkerInv

LEMMA AgentKept ==
  ASSUME TasksTypeOK, RowInv, AgentInv, RowsKept, NEW a \in Agents, agents'[a] = agents[a]
  PROVE  AgentSound(a)'
<1>1. AgentSound(a)
  BY DEF AgentInv
<1>2. CASE agents[a].mode \in {"busy", "posting"}
  <2> DEFINE t == agents[a].task
  <2>1. t \in TaskIds /\ tasks[t].claimed /\ tasks[t].agent = a
    BY <1>1, <1>2 DEF AgentSound
  <2>2. tasks[t].status \notin {"absent", "queued"}
    BY <2>1 DEF RowInv
  <2>3. /\ tasks'[t].claimed /\ tasks'[t].agent = a
        /\ tasks[t].status # "running" => tasks'[t].status # "running"
    <3>1. tasks'[t].claimed
      BY <2>1 DEF RowsKept
    <3>2. tasks'[t].agent = a
      BY <2>1 DEF RowsKept
    <3>3. ASSUME tasks[t].status # "running" PROVE tasks'[t].status # "running"
      BY <2>1, <2>2, <3>3 DEF RowsKept, TasksTypeOK, Row, Active, Terminal
    <3> QED
      BY <3>1, <3>2, <3>3
  <2>4. agents'[a].task = t
    OBVIOUS
  <2> HIDE DEF t
  <2> QED
    BY <1>1, <2>1, <2>3, <2>4 DEF AgentSound
<1>3. CASE agents[a].mode \notin {"busy", "posting"}
  BY <1>3 DEF AgentSound
<1> QED
  BY <1>2, <1>3

LEMMA AgentsStay ==
  ASSUME TasksTypeOK, RowInv, AgentInv, RowsKept, UNCHANGED agents
  PROVE  AgentInv'
BY AgentKept DEF AgentInv

LEMMA RunsKept ==
  ASSUME RunInv, RowsKept,
         \A r \in Runs : /\ runs'[r].status \in Open <=> runs[r].status \in Open
                         /\ runs'[r].status = "completed" => runs[r].status = "completed"
                         /\ Live(r)' <=> Live(r)
  PROVE  RunInv'
BY TaskIdFacts, PlanFacts DEF RunInv, RowsKept, Status, Terminal

LEMMA ExclusiveKept ==
  ASSUME TasksTypeOK, ExclusiveInv, RowsKept, \A r \in Runs : Live(r)' => Live(r)
  PROVE  ExclusiveInv' /\ \A r \in Runs : Occupies(r)' => Occupies(r)
<1>1. ASSUME NEW r \in Runs, NEW i \in 1..Last, Status(r, i)' \in Active
      PROVE  Status(r, i) \in Active
  BY <1>1, TaskIdFacts DEF RowsKept, Status, TasksTypeOK, Row, Active, Terminal
<1>2. \A r \in Runs : Occupies(r)' => Occupies(r)
  BY <1>1 DEF Occupies
<1> QED
  BY <1>2 DEF ExclusiveInv

\* Rows are closed or lost to another Agent, no executor starts, no service
\* comes up, and the Target comes to rest or gives up its task.
LEMMA ServiceKept ==
  ASSUME TypeOK, RowInv, ServiceInv, RowsKept,
         \A r \in Runs, i \in {1, Last} :
           /\ Claimed(r, i)' = Claimed(r, i)
           /\ Status(r, i)' \in {"running", "completed"} => Status(r, i)' = Status(r, i),
         \A r \in Runs : Occupies(r)' => Occupies(r),
         services' \subseteq services,
         \/ agents'["target"] = agents["target"]
         \/ agents'["target"].mode \in {"idle", "dead"}
         \/ agents'["target"].mode = "posting" /\ agents'["target"].status # "completed"
  PROVE  ServiceInv'
<1> SUFFICES ASSUME NEW r \in Runs
             PROVE  /\ (Claimed(r, Last) => Status(r, 1) # "queued")'
                    /\ (On("busy", r, 1) => ~Claimed(r, Last))'
                    /\ (On("posting", r, Last) /\ agents["target"].status = "completed"
                          => r \notin services)'
                    /\ (Status(r, Last) = "completed" => r \notin services)'
                    /\ (On("posting", r, 1) /\ agents["target"].status = "completed"
                          /\ Status(r, 1) = "running" => services \subseteq {r})'
                    /\ (Occupies(r) /\ Status(r, 1) = "completed" =>
                          /\ services \subseteq {r}
                          /\ \A s \in Runs : On("busy", s, 1) => s = r)'
  BY DEF ServiceInv
<1>1. <<r, 1>> \in TaskIds /\ <<r, Last>> \in TaskIds /\ 1 \in 1..Last /\ Last \in 1..Last
  BY TaskIdFacts, PlanFacts
<1>2. /\ Claimed(r, Last)' = Claimed(r, Last)
      /\ Status(r, 1)' = "queued" => Status(r, 1) = "queued"
      /\ Status(r, 1)' \in {"running", "completed"} => Status(r, 1)' = Status(r, 1)
      /\ Status(r, Last)' = "completed" => Status(r, Last) = "completed"
  BY <1>1 DEF RowsKept, Status
<1>3. \A s \in Runs, i \in {1, Last} :
        /\ On("busy", s, i)' => On("busy", s, i)
        /\ On("posting", s, i)' /\ agents'["target"].status = "completed"
             => On("posting", s, i) /\ agents["target"].status = "completed"
  BY DEF On
<1> QED
  BY <1>2, <1>3 DEF ServiceInv

-----------------------------------------------------------------------------
(* The executor: steps that leave the task table alone.                     *)

LEMMA AtRecord ==
  ASSUME TypeOK, NEW r \in Runs, NEW pc \in Advancing \cup Aborting \cup Finishing,
         NEW step \in 1..(Last + 1)
  PROVE  /\ At(r, pc, step) \in Worker
         /\ At(r, pc, step).pc = pc /\ At(r, pc, step).step = step
         /\ At(r, pc, step).outcome = worker[r].outcome
         /\ At(r, pc, step).prepared = worker[r].prepared
<1>1. worker[r] \in Worker
  BY DEF TypeOK
<1> QED
  BY <1>1, Zenon DEF At, Worker, Advancing, Aborting, Finishing

LEMMA FailedRecord ==
  ASSUME TypeOK, NEW r \in Runs, NEW outcome \in Outcomes
  PROVE  /\ FailedAs(r, outcome) \in Worker
         /\ FailedAs(r, outcome).pc = "unwinding" /\ FailedAs(r, outcome).step = worker[r].step
         /\ FailedAs(r, outcome).outcome = outcome
         /\ FailedAs(r, outcome).prepared = worker[r].prepared
<1>1. worker[r] \in Worker
  BY DEF TypeOK
<1> QED
  BY <1>1, Zenon DEF FailedAs, Worker

\* The executor of Run r moves to w, and its Run may change its status with it.
LEMMA LocalStep ==
  ASSUME Inv, NEW r \in Runs, NEW w \in Worker, WorkerStep(r, w), WorkerSound(r, w),
         Live(r), UNCHANGED tasks, cancelled' \subseteq Runs,
         runs' \in [Runs -> RunRow], RunInv'
  PROVE  Inv'
<1>1. /\ worker' \in [Runs -> Worker] /\ worker'[r] = w
      /\ \A s \in Runs : s # r => worker'[s] = worker[s]
      /\ UNCHANGED <<canceller, agents, services, restarts>>
  BY DEF Inv, TypeOK, WorkerStep
<1>2. TasksTypeOK' /\ RowInv' /\ RowsKept
  BY TasksKept DEF Inv, TypeOK
<1>3. TypeOK'
  BY <1>1, <1>2 DEF Inv, TypeOK
<1>4. OrderInv' /\ AgentInv'
  BY <1>1, <1>2, OrderKept, AgentsStay DEF Inv, TypeOK
<1>5. WorkerInv'
  BY <1>1, <1>2, WorkerKept DEF Inv
<1>6. \A s \in Runs : Live(s)' => Live(s)
  BY <1>1 DEF Live
<1>7. ExclusiveInv' /\ \A s \in Runs : Occupies(s)' => Occupies(s)
  BY <1>2, <1>6, ExclusiveKept DEF Inv, TypeOK
<1>8. ServiceInv'
  <2>1. \A s \in Runs, i \in {1, Last} : Claimed(s, i)' = Claimed(s, i) /\ Status(s, i)' = Status(s, i)
    BY DEF Claimed, Status
  <2> QED
    BY <1>1, <1>2, <1>7, <2>1, ServiceKept DEF Inv
<1> QED
  BY <1>2, <1>3, <1>4, <1>5, <1>7, <1>8 DEF Inv

LEMMA ExecutorStep ==
  ASSUME Inv, NEW r \in Runs, NEW w \in Worker, WorkerStep(r, w), WorkerSound(r, w),
         Live(r), w.pc \notin {"none", "gone"}, UNCHANGED <<runs, tasks>>, cancelled' \subseteq Runs
  PROVE  Inv'
<1>1. worker'[r] = w /\ \A s \in Runs : s # r => worker'[s] = worker[s]
  BY DEF Inv, TypeOK, WorkerStep
<1>2. \A s \in Runs : Live(s)' <=> Live(s)
  BY <1>1 DEF Live
<1>3. RowsKept
  BY TasksKept DEF Inv, TypeOK
<1>4. RunInv'
  BY <1>2, <1>3, RunsKept DEF Inv
<1>5. runs' \in [Runs -> RunRow]
  BY DEF Inv, TypeOK
<1> QED
  BY <1>4, <1>5, LocalStep

\* Where an executor that has not failed stands.
LEMMA Standing ==
  ASSUME Inv, NEW r \in Runs
  PROVE  /\ worker[r] \in Worker /\ WorkerSound(r, worker[r])
         /\ worker[r].step \in 1..(Last + 1) /\ worker[r].outcome \in Outcomes
         /\ worker[r].prepared \in BOOLEAN
         /\ cancelled \subseteq Runs
BY DEF Inv, TypeOK, WorkerInv, Worker

LEMMA FailingStep ==
  ASSUME Inv, NEW r \in Runs, NEW outcome \in {"cancelled", "failed", "timed-out", "unexpected"},
         worker[r].pc \in {"reporting", "waiting", "completing"},
         WorkerStep(r, FailedAs(r, outcome)), UNCHANGED <<runs, tasks, cancelled>>
  PROVE  Inv'
<1> DEFINE w == FailedAs(r, outcome)
<1>1. /\ w \in Worker /\ w.pc = "unwinding" /\ w.step = worker[r].step /\ w.outcome = outcome
      /\ w.prepared = worker[r].prepared
  BY FailedRecord DEF Inv, Outcomes
<1>2. WorkerStep(r, w)
  OBVIOUS
<1> HIDE DEF w
<1>3. Placed(r, w) /\ Advance(r, w)
  BY <1>1 DEF Placed, Advance, Advancing, Aborting, Finishing
<1>4. Scheduled(r, w)
  BY <1>1, Standing DEF WorkerSound, Scheduled, Finishing
<1> QED
  BY <1>1, <1>2, <1>3, <1>4, Standing, ExecutorStep DEF WorkerSound, Live

LEMMA RegisterKeeps ==
  ASSUME Inv, NEW r \in Runs, RegisterToken(r) PROVE Inv'
<1> DEFINE w == At(r, "ready", worker[r].step)
<1>1. /\ w \in Worker /\ w.pc = "ready" /\ w.step = worker[r].step
      /\ w.outcome = worker[r].outcome /\ w.prepared = worker[r].prepared
  BY AtRecord, Standing DEF Inv, Advancing
<1>2. worker' = [worker EXCEPT ![r] = w]
  BY DEF RegisterToken, At, Inv, TypeOK, Worker
<1> HIDE DEF w
<1>3. WorkerStep(r, w)
  BY <1>2 DEF WorkerStep, RegisterToken
<1>4. worker[r].pc = "created"
  BY DEF RegisterToken
<1>5. WorkerSound(r, w)
  BY <1>1, <1>4, Standing
     DEF WorkerSound, Placed, Advance, Scheduled, Advancing, Aborting, Finishing
<1> QED
  BY <1>1, <1>3, <1>4, <1>5, Standing, ExecutorStep DEF RegisterToken, Live

LEMMA BeginKeeps ==
  ASSUME Inv, NEW r \in Runs, Begin(r) PROVE Inv'
<1> DEFINE w == At(r, BeforeStep(1), worker[r].step)
<1>1. BeforeStep(1) \in {"reporting", "creating"}
  BY DEF BeforeStep
<1>2. /\ w \in Worker /\ w.pc = BeforeStep(1) /\ w.step = worker[r].step
      /\ w.outcome = worker[r].outcome /\ w.prepared = worker[r].prepared
  BY <1>1, AtRecord, Standing DEF Inv, Advancing
<1>3. worker' = [worker EXCEPT ![r] = w]
  BY DEF Begin, At, Inv, TypeOK, Worker
<1> HIDE DEF w
<1>4. WorkerStep(r, w) /\ worker[r].pc = "ready" /\ Live(r)
  BY <1>3 DEF WorkerStep, Begin, Live
<1>5. WorkerSound(r, w)
  BY <1>1, <1>2, <1>4, Standing, PlanFacts
     DEF WorkerSound, Placed, Advance, Scheduled, Advancing, Aborting, Finishing
<1>6. runs' \in [Runs -> RunRow]
  BY DEF Begin, Inv, TypeOK, RunRow, Open, Active
<1>7. RunInv'
  <2>1. \A s \in Runs : Live(s)' <=> Live(s)
    BY <1>1, <1>2, <1>4 DEF Live, WorkerStep, Inv, TypeOK
  <2>2. runs[r].status \in Open
    BY <1>4 DEF Inv, RunInv
  <2>3. \A s \in Runs : /\ runs'[s].status \in Open <=> runs[s].status \in Open
                        /\ runs'[s].status = "completed" => runs[s].status = "completed"
    BY <2>2 DEF Begin, Inv, TypeOK, RunRow, Open, Active
  <2>4. RowsKept
    BY TasksKept DEF Begin, Inv, TypeOK
  <2> QED
    BY <2>1, <2>3, <2>4, RunsKept DEF Inv
<1> QED
  BY <1>2, <1>4, <1>5, <1>6, <1>7, Standing, LocalStep DEF Begin

LEMMA ReportKeeps ==
  ASSUME Inv, NEW r \in Runs, Report(r) PROVE Inv'
<1> DEFINE i == worker[r].step
<1>1. /\ worker[r].pc \in {"reporting", "completing"} /\ UNCHANGED <<runs, tasks>>
      /\ cancelled' \subseteq Runs /\ Live(r)
  BY Standing DEF Report, Live
<1>2. CASE i > Last
  <2> DEFINE w == [At(r, "sweeping", i) EXCEPT !.outcome = "completed"]
  <2>1. /\ At(r, "sweeping", i) \in Worker /\ At(r, "sweeping", i).pc = "sweeping"
        /\ At(r, "sweeping", i).step = i /\ At(r, "sweeping", i).prepared = worker[r].prepared
    BY AtRecord, Standing DEF Inv, Finishing
  <2>2. /\ w \in Worker /\ w.pc = "sweeping" /\ w.outcome = "completed"
        /\ w.prepared = worker[r].prepared
    BY <2>1, Zenon DEF Worker, Outcomes
  <2>3. WorkerStep(r, w)
    BY <1>2 DEF Report
  <2> HIDE DEF w
  <2>4. \A j \in 1..Last : Status(r, j) = "completed" /\ Created(r, j)
    BY <1>1, <1>2, Standing, PlanFacts DEF WorkerSound, Advance, Advancing, Created
  <2>5. WorkerSound(r, w)
    BY <2>2, <2>4, PlanFacts, Standing
       DEF WorkerSound, Placed, Advance, Scheduled, Advancing, Aborting, Finishing
  <2> QED
    BY <1>1, <2>2, <2>3, <2>5, ExecutorStep
<1>3. CASE i <= Last
  <2> DEFINE pc == IF worker[r].pc = "completing" THEN BeforeStep(i) ELSE "creating"
             w == At(r, pc, i)
  <2>1. pc \in {"reporting", "creating"}
    BY DEF BeforeStep
  <2>2. i \in 1..(Last + 1) /\ ~(i > Last)
    BY <1>3, Standing, PlanFacts
  <2>3. WorkerStep(r, w)
    BY <2>2 DEF Report
  <2> HIDE DEF pc
  <2>4. /\ w \in Worker /\ w.pc = pc /\ w.step = i
        /\ w.outcome = worker[r].outcome /\ w.prepared = worker[r].prepared
    BY <2>1, AtRecord, Standing DEF Inv, Advancing
  <2> HIDE DEF w
  <2>5. WorkerSound(r, w)
    BY <1>1, <1>3, <2>1, <2>4, Standing, PlanFacts
       DEF WorkerSound, Placed, Advance, Scheduled, Advancing, Aborting, Finishing
  <2> QED
    BY <1>1, <2>1, <2>3, <2>4, <2>5, ExecutorStep
<1> QED
  BY <1>2, <1>3, Standing, PlanFacts

LEMMA AwaitedKeeps ==
  ASSUME Inv, NEW r \in Runs, Awaited(r) PROVE Inv'
<1> DEFINE i == worker[r].step
           prepared == worker[r].prepared \/ Plan[i] = "prepare"
           w == [At(r, "completing", i + 1) EXCEPT !.prepared = prepared]
<1>1. worker[r].pc = "waiting" /\ Status(r, i) = "completed" /\ Live(r) /\ prepared \in BOOLEAN
  BY Standing DEF Awaited, Current, Status, Live
<1>2. i \in 1..Last /\ i + 1 \in 1..(Last + 1)
  BY <1>1, Standing, PlanFacts DEF WorkerSound, Placed
<1>3. /\ At(r, "completing", i + 1) \in Worker /\ At(r, "completing", i + 1).pc = "completing"
      /\ At(r, "completing", i + 1).step = i + 1
      /\ At(r, "completing", i + 1).outcome = worker[r].outcome
      /\ At(r, "completing", i + 1).prepared = worker[r].prepared
  BY <1>2, AtRecord DEF Inv, Advancing
<1>4. WorkerStep(r, w)
  BY <1>3 DEF Awaited
<1> HIDE DEF prepared
<1>5. /\ w \in Worker /\ w.pc = "completing" /\ w.step = i + 1
      /\ w.outcome = worker[r].outcome /\ w.prepared = prepared
  BY <1>1, <1>3, Zenon DEF Worker
<1> HIDE DEF w
<1>6. Placed(r, w) /\ Advance(r, w)
  BY <1>1, <1>2, <1>5, Standing, PlanFacts
     DEF WorkerSound, Placed, Advance, Advancing, Aborting, Finishing
<1>7. Scheduled(r, w)
  <2>1. Created(r, Last) => i = Last /\ \A j \in 1..Last : Created(r, j)
    BY <1>1, <1>2, Standing, PlanFacts DEF WorkerSound, Advance, Advancing
  <2> QED
    BY <1>5, <2>1, Standing DEF WorkerSound, Scheduled, Finishing
<1> QED
  BY <1>1, <1>4, <1>5, <1>6, <1>7, Standing, ExecutorStep DEF WorkerSound, Awaited

LEMMA FailuresKeep ==
  ASSUME Inv, NEW r \in Runs,
         InvalidEvidence(r) \/ WaitFailed(r) \/ StopCancelled(r) \/ StopTimedOut(r)
  PROVE  Inv'
<1>1. CASE InvalidEvidence(r)
  BY <1>1, FailingStep DEF InvalidEvidence
<1>2. CASE WaitFailed(r)
  BY <1>2, FailingStep DEF WaitFailed
<1>3. CASE StopCancelled(r)
  BY <1>3, FailingStep DEF StopCancelled, Checkpoints
<1>4. CASE StopTimedOut(r)
  BY <1>4, FailingStep DEF StopTimedOut, Checkpoints
<1> QED
  BY <1>1, <1>2, <1>3, <1>4

LEMMA ClosedKeeps ==
  ASSUME Inv, NEW r \in Runs, Closed(r) PROVE Inv'
<1> DEFINE w == At(r, "unwinding", worker[r].step)
<1>1. /\ w \in Worker /\ w.pc = "unwinding" /\ w.step = worker[r].step
      /\ w.outcome = worker[r].outcome /\ w.prepared = worker[r].prepared
  BY AtRecord, Standing DEF Inv, Aborting
<1>2. WorkerStep(r, w) /\ worker[r].pc = "closing" /\ UNCHANGED <<runs, tasks, cancelled>>
  BY DEF Closed
<1> HIDE DEF w
<1>3. WorkerSound(r, w)
  BY <1>1, <1>2, Standing
     DEF WorkerSound, Placed, Advance, Scheduled, Advancing, Aborting, Finishing
<1> QED
  BY <1>1, <1>2, <1>3, Standing, ExecutorStep DEF Live

-----------------------------------------------------------------------------
(* The executor: steps on the task table.                                   *)

\* A row is created for step i, by the executor on its way or in its except
\* clause; it is the last of its Run so far.
LEMMA CreatingStep ==
  ASSUME Inv, NEW r \in Runs, NEW i \in 1..Last, NEW pc, CreateStep(r, i),
         WorkerStep(r, At(r, pc, i)), UNCHANGED <<runs, cancelled>>,
         \/ pc = "waiting" /\ worker[r].pc = "creating" /\ worker[r].step = i
         \/ /\ pc = "closing" /\ worker[r].pc = "unwinding"
            /\ i \in Due(r) /\ \A j \in Due(r) : i <= j
  PROVE  Inv'
<1> DEFINE w == At(r, pc, i)
<1>1. /\ w \in Worker /\ w.pc = pc /\ w.step = i
      /\ w.outcome = worker[r].outcome /\ w.prepared = worker[r].prepared
  BY AtRecord, PlanFacts DEF Inv, Advancing, Aborting
<1>2. /\ worker' \in [Runs -> Worker] /\ worker'[r] = w
      /\ \A s \in Runs : s # r => worker'[s] = worker[s]
      /\ UNCHANGED <<canceller, agents, services, restarts>>
  BY <1>1 DEF Inv, TypeOK, WorkerStep
<1> HIDE DEF w
<1>3. ~Created(r, i)
  BY DEF CreateStep, CreateAgentTask, Created
<1>4. /\ \A j \in 1..Last : Created(r, j) => j < i
      /\ i # 1 => Created(r, 1)
      /\ i \in 2..(Last - 1) /\ Plan[i] # "cleanup" => Status(r, 1) = "completed"
  <2>1. CASE pc = "waiting"
    BY <2>1, Standing, PlanFacts DEF WorkerSound, Advance, Advancing
  <2>2. CASE pc = "closing"
    <3>1. i \in Due(r) /\ worker[r].pc = "unwinding"
      BY <2>2
    <3>2. Created(r, 1) /\ (i = Last \/ (Plan[i] = "cleanup" /\ worker[r].prepared))
      BY <3>1, PlanFacts DEF Due
    <3>3. CASE i = Last
      BY <1>3, <3>2, <3>3, PlanFacts
    <3>4. CASE Plan[i] = "cleanup" /\ worker[r].prepared
      <4>1. i = Last - 1 /\ ~Created(r, Last)
        BY <1>3, <3>4, Standing, PlanFacts DEF WorkerSound, Scheduled
      <4> QED
        BY <1>3, <3>2, <3>4, <4>1, PlanFacts
    <3> QED
      BY <3>2, <3>3, <3>4
  <2> QED
    BY <2>1, <2>2
<1>5. /\ TasksTypeOK' /\ RowInv' /\ OrderInv'
      /\ tasks'[<<r, i>>].status = "queued" /\ ~tasks'[<<r, i>>].claimed
      /\ \A u \in TaskIds : u # <<r, i>> => tasks'[u] = tasks[u]
  BY <1>4, CreateEffect DEF Inv, TypeOK
<1>6. TypeOK'
  BY <1>2, <1>5 DEF Inv, TypeOK
<1>7. ASSUME NEW s \in Runs, NEW j \in 1..Last, <<s, j>> # <<r, i>>
      PROVE  tasks'[<<s, j>>] = tasks[<<s, j>>]
  BY <1>5, <1>7, TaskIdFacts
<1>8. tasks[<<r, i>>].status = "absent" /\ <<r, i>> \in TaskIds
  BY <1>3, TaskIdFacts DEF Created
<1>9. AgentInv'
  <2>1. SUFFICES ASSUME NEW a \in Agents PROVE AgentSound(a)'
    BY DEF AgentInv
  <2>2. AgentSound(a) /\ agents'[a] = agents[a]
    BY <1>2 DEF Inv, AgentInv
  <2>3. CASE agents[a].mode \in {"busy", "posting"}
    <3>1. agents[a].task \in TaskIds /\ agents[a].task # <<r, i>>
      BY <1>8, <2>2, <2>3 DEF AgentSound, Inv, RowInv
    <3> QED
      BY <1>5, <2>2, <3>1 DEF AgentSound
  <2>4. CASE agents[a].mode \notin {"busy", "posting"}
    BY <2>2, <2>4 DEF AgentSound
  <2> QED
    BY <2>3, <2>4
<1>10. WorkerSound(r, worker[r])'
  <2>1. /\ \A j \in 1..Last : /\ Created(r, j)' <=> Created(r, j) \/ j = i
                              /\ j # i => Status(r, j)' = Status(r, j)
        /\ Status(r, i)' = "queued"
    BY <1>5, <1>7 DEF Created, Status
  <2>2. /\ worker'[r].pc = pc /\ worker'[r].step = i
        /\ worker'[r].outcome = worker[r].outcome /\ worker'[r].prepared = worker[r].prepared
    BY <1>1, <1>2
  <2>3. Placed(r, worker[r])'
    BY <2>2, Standing, PlanFacts DEF WorkerSound, Placed, Advancing, Aborting, Finishing
  <2>4. Advance(r, worker[r])'
    BY <2>1, <2>2, Standing, PlanFacts DEF WorkerSound, Advance, Advancing
  <2>5. Scheduled(r, worker[r])'
    <3>1. ASSUME NEW j \in 1..Last, Created(r, Last)', worker[r].prepared, Plan[j] = "cleanup"
          PROVE  Created(r, j)'
      <4>1. CASE Created(r, Last)
        BY <2>1, <3>1, <4>1, Standing DEF WorkerSound, Scheduled
      <4>2. CASE ~Created(r, Last)
        <5>1. i = Last /\ j = Last - 1
          BY <2>1, <3>1, <4>2, PlanFacts
        <5>2. CASE pc = "waiting"
          BY <2>1, <5>1, <5>2, Standing, PlanFacts DEF WorkerSound, Advance, Advancing
        <5>3. CASE pc = "closing"
          <6>1. Created(r, j)
            BY <3>1, <5>1, <5>3, PlanFacts DEF Due
          <6> QED
            BY <2>1, <6>1
        <5> QED
          BY <5>2, <5>3
      <4> QED
        BY <4>1, <4>2
    <3>2. \A j \in 1..Last : Created(r, j)' => Created(r, 1)'
      BY <1>4, <2>1, Standing, PlanFacts DEF WorkerSound, Scheduled
    <3>3. ASSUME NEW j \in 2..(Last - 1), Created(r, j)', Plan[j] # "cleanup"
          PROVE  Status(r, 1)' = "completed"
      <4>1. Status(r, 1) = "completed"
        BY <1>4, <2>1, <3>3, Standing, PlanFacts DEF WorkerSound, Scheduled
      <4>2. i # 1
        BY <1>8, <4>1 DEF Status
      <4> QED
        BY <2>1, <4>1, <4>2, PlanFacts
    <3>4. pc \notin Finishing
      BY DEF Finishing
    <3> QED
      BY <2>2, <3>1, <3>2, <3>3, <3>4 DEF Scheduled
  <2> QED
    BY <2>3, <2>4, <2>5 DEF WorkerSound
<1>11. WorkerInv'
  <2>1. SUFFICES ASSUME NEW s \in Runs, s # r PROVE WorkerSound(s, worker[s])'
    BY <1>10 DEF WorkerInv
  <2>2. \A j \in 1..Last : tasks'[<<s, j>>] = tasks[<<s, j>>]
    BY <1>7, <2>1
  <2>3. WorkerSound(s, worker[s]) /\ worker'[s] = worker[s]
    BY <1>2, <2>1 DEF Inv, WorkerInv
  <2> QED
    BY <2>2, <2>3, PlanFacts DEF WorkerSound, Placed, Advance, Scheduled, Created, Status
<1>12. Live(r) /\ \A s \in Runs : Live(s)' <=> Live(s)
  BY <1>1, <1>2 DEF Live
<1>13. RunInv'
  <2>1. SUFFICES ASSUME NEW s \in Runs, runs[s].status = "completed"
                 PROVE  Status(s, Last)' = "completed"
    BY <1>12 DEF RunInv, Inv
  <2>2. s # r /\ Status(s, Last) = "completed"
    BY <1>12, <2>1 DEF Inv, RunInv, Open, Active
  <2> QED
    BY <1>7, <2>2, PlanFacts DEF Status
<1>14. \A s \in Runs : Occupies(s)' => Occupies(s)
  BY <1>7, <1>12 DEF Occupies, Status
<1>15. ExclusiveInv'
  BY <1>14 DEF ExclusiveInv, Inv
<1>16. ServiceInv'
  <2>1. SUFFICES ASSUME NEW s \in Runs
                 PROVE  /\ (Claimed(s, Last) => Status(s, 1) # "queued")'
                        /\ (On("busy", s, 1) => ~Claimed(s, Last))'
                        /\ (On("posting", s, Last) /\ agents["target"].status = "completed"
                              => s \notin services)'
                        /\ (Status(s, Last) = "completed" => s \notin services)'
                        /\ (On("posting", s, 1) /\ agents["target"].status = "completed"
                              /\ Status(s, 1) = "running" => services \subseteq {s})'
                        /\ (Occupies(s) /\ Status(s, 1) = "completed" =>
                              /\ services \subseteq {s}
                              /\ \A u \in Runs : On("busy", u, 1) => u = s)'
    BY DEF ServiceInv
  <2>2. /\ Claimed(s, Last)' => Claimed(s, Last)
        /\ Status(s, 1)' \in {"running", "completed"} => Status(s, 1)' = Status(s, 1)
        /\ Status(s, Last)' = "completed" => Status(s, Last)' = Status(s, Last)
    BY <1>5, <1>7, PlanFacts DEF Claimed, Status
  <2>3. Claimed(s, Last)' => Status(s, 1)' # "queued"
    <3>1. CASE <<s, 1>> = <<r, i>>
      <4>1. s = r /\ i = 1 /\ ~Created(r, Last)
        BY <1>4, <3>1, PlanFacts
      <4> QED
        BY <1>7, <4>1, PlanFacts, TaskIdFacts DEF Claimed, Created, Inv, RowInv
    <3>2. CASE <<s, 1>> # <<r, i>>
      BY <1>7, <2>2, <3>2, PlanFacts DEF Status, Inv, ServiceInv
    <3> QED
      BY <3>1, <3>2
  <2>4. \A u \in Runs, m \in {"busy", "posting"}, j \in {1, Last} : On(m, u, j)' <=> On(m, u, j)
    BY <1>2 DEF On
  <2> QED
    BY <1>2, <1>14, <2>2, <2>3, <2>4, PlanFacts DEF Inv, ServiceInv
<1> QED
  BY <1>5, <1>6, <1>9, <1>11, <1>13, <1>15, <1>16 DEF Inv

LEMMA CreateTaskKeeps ==
  ASSUME Inv, NEW r \in Runs, CreateTask(r) PROVE Inv'
<1>1. worker[r].pc = "creating" /\ worker[r].step \in 1..Last
  BY Standing, PlanFacts DEF CreateTask, WorkerSound, Placed
<1> QED
  BY <1>1, CreatingStep DEF CreateTask

LEMMA UnwindKeeps ==
  ASSUME Inv, NEW r \in Runs, Unwind(r) PROVE Inv'
<1>1. worker[r].pc = "unwinding" /\ UNCHANGED <<runs, cancelled>>
  BY DEF Unwind
<1>2. CASE Due(r) = {} /\ WorkerStep(r, At(r, "sweeping", worker[r].step)) /\ UNCHANGED tasks
  <2> DEFINE w == At(r, "sweeping", worker[r].step)
  <2>1. /\ w \in Worker /\ w.pc = "sweeping" /\ w.step = worker[r].step
        /\ w.outcome = worker[r].outcome /\ w.prepared = worker[r].prepared
    BY AtRecord, Standing DEF Inv, Finishing
  <2>2. WorkerStep(r, w)
    BY <1>2
  <2> HIDE DEF w
  <2>3. Created(r, 1) => Created(r, Last)
    BY <1>2, PlanFacts DEF Due
  <2>4. WorkerSound(r, w)
    BY <1>1, <2>1, <2>3, Standing
       DEF WorkerSound, Placed, Advance, Scheduled, Advancing, Aborting, Finishing
  <2> QED
    BY <1>1, <1>2, <2>1, <2>2, <2>4, Standing, ExecutorStep DEF Live
<1>3. ASSUME NEW i \in Due(r), \A j \in Due(r) : i <= j, CreateStep(r, i),
             WorkerStep(r, At(r, "closing", i))
      PROVE  Inv'
  BY <1>1, <1>3, CreatingStep DEF Due
<1> QED
  BY <1>2, <1>3 DEF Unwind

\* A sweep of a Run's queued rows, by its executor or by the operator.
LEMMA SweepStep ==
  ASSUME Inv, NEW r \in Runs, CancelQueuedRunTasks(r), WorkerInv', TypeOK', UNCHANGED <<agents, services>>,
         \A s \in Runs : Live(s)' <=> Live(s), UNCHANGED runs
  PROVE  Inv'
<1>1. TasksTypeOK' /\ RowInv' /\ RowsKept /\ RowsClosed
  BY SweepEffect DEF Inv, TypeOK
<1>2. OrderInv' /\ AgentInv'
  BY <1>1, OrderKept, AgentsStay DEF Inv, TypeOK
<1>3. RunInv'
  BY <1>1, RunsKept DEF Inv
<1>4. ExclusiveInv' /\ \A s \in Runs : Occupies(s)' => Occupies(s)
  BY <1>1, ExclusiveKept DEF Inv, TypeOK
<1>5. \A s \in Runs, i \in {1, Last} :
        /\ Claimed(s, i)' = Claimed(s, i)
        /\ Status(s, i)' \in {"running", "completed"} => Status(s, i)' = Status(s, i)
  BY <1>1, TaskIdFacts, PlanFacts DEF RowsClosed, Claimed, Status
<1>6. ServiceInv'
  BY <1>1, <1>4, <1>5, ServiceKept DEF Inv
<1> QED
  BY <1>1, <1>2, <1>3, <1>4, <1>6 DEF Inv

LEMMA SweepKeeps ==
  ASSUME Inv, NEW r \in Runs, Sweep(r) PROVE Inv'
<1> DEFINE w == At(r, "settling", worker[r].step)
<1>1. /\ w \in Worker /\ w.pc = "settling" /\ w.step = worker[r].step
      /\ w.outcome = worker[r].outcome /\ w.prepared = worker[r].prepared
  BY AtRecord, Standing DEF Inv, Finishing
<1>2. /\ WorkerStep(r, w) /\ worker[r].pc = "sweeping" /\ CancelQueuedRunTasks(r)
      /\ UNCHANGED <<runs, cancelled>>
  BY DEF Sweep
<1> HIDE DEF w
<1>3. /\ worker' \in [Runs -> Worker] /\ worker'[r] = w
      /\ \A s \in Runs : s # r => worker'[s] = worker[s]
      /\ UNCHANGED <<canceller, agents, services, restarts>>
  BY <1>1, <1>2 DEF Inv, TypeOK, WorkerStep
<1>4. TasksTypeOK' /\ RowsKept
  BY <1>2, SweepEffect DEF Inv, TypeOK
<1>5. TypeOK'
  BY <1>2, <1>3, <1>4 DEF Inv, TypeOK
<1>6. WorkerSound(r, w)
  BY <1>1, <1>2, Standing
     DEF WorkerSound, Placed, Advance, Scheduled, Advancing, Aborting, Finishing
<1>7. WorkerInv'
  BY <1>3, <1>4, <1>6, WorkerKept DEF Inv
<1>8. \A s \in Runs : Live(s)' <=> Live(s)
  BY <1>1, <1>2, <1>3 DEF Live
<1> QED
  BY <1>2, <1>3, <1>5, <1>7, <1>8, SweepStep

LEMMA SettleKeeps ==
  ASSUME Inv, NEW r \in Runs, Settle(r) PROVE Inv'
<1> DEFINE w == At(r, "gone", worker[r].step)
           status == StatusOf(worker[r].outcome)
<1>1. /\ w \in Worker /\ w.pc = "gone" /\ w.step = worker[r].step
      /\ w.outcome = worker[r].outcome /\ w.prepared = worker[r].prepared
  BY AtRecord, Standing DEF Inv, Finishing
<1>2. /\ WorkerStep(r, w) /\ worker[r].pc = "settling" /\ Live(r) /\ UNCHANGED tasks
      /\ runs' = [runs EXCEPT ![r].status = status] /\ cancelled' \subseteq Runs
  BY Standing DEF Settle, Live
<1> HIDE DEF w
<1>3. WorkerSound(r, w)
  BY <1>1, <1>2, Standing
     DEF WorkerSound, Placed, Advance, Scheduled, Advancing, Aborting, Finishing
<1>4. /\ status \in Terminal /\ status \notin Open
      /\ status = "completed" => Status(r, Last) = "completed"
  <2>1. worker[r].outcome \in Outcomes \ {"none"}
    BY <1>2, Standing DEF WorkerSound, Placed
  <2>2. status = "completed" => worker[r].outcome = "completed"
    BY <2>1 DEF StatusOf
  <2>3. worker[r].outcome = "completed" => Status(r, Last) = "completed"
    BY <1>2, Standing DEF WorkerSound, Placed, Finishing
  <2> QED
    BY <2>1, <2>2, <2>3 DEF StatusOf, Outcomes, Terminal, Open, Active
<1> HIDE DEF status
<1>5. runs' \in [Runs -> RunRow]
  BY <1>2, <1>4 DEF Inv, TypeOK, RunRow
<1>6. RunInv'
  <2>1. SUFFICES ASSUME NEW s \in Runs
                 PROVE  /\ runs'[s].status \in Open <=> Live(s)'
                        /\ runs'[s].status = "completed" => Status(s, Last)' = "completed"
    BY DEF RunInv
  <2>2. CASE s = r
    <3>1. runs'[s].status = status /\ worker'[s].pc = "gone"
      BY <1>1, <1>2, <2>2 DEF WorkerStep, Inv, TypeOK, RunRow
    <3> QED
      BY <1>2, <1>4, <2>2, <3>1 DEF Live, Status
  <2>3. CASE s # r
    <3>1. runs'[s] = runs[s] /\ worker'[s] = worker[s]
      BY <1>2, <2>3 DEF WorkerStep, Inv, TypeOK
    <3> QED
      BY <1>2, <3>1 DEF Live, Status, Inv, RunInv
  <2> QED
    BY <2>2, <2>3
<1> QED
  BY <1>1, <1>2, <1>3, <1>5, <1>6, LocalStep

\* A Run is admitted: nothing occupies the pair before it.
LEMMA SubmitKeeps ==
  ASSUME Inv, NEW r \in Runs, Submit(r) PROVE Inv'
<1> DEFINE w == At(r, "created", worker[r].step)
<1>1. /\ w \in Worker /\ w.pc = "created" /\ w.step = worker[r].step
      /\ w.outcome = worker[r].outcome /\ w.prepared = worker[r].prepared
  BY AtRecord, Standing DEF Inv, Advancing
<1>2. worker' = [worker EXCEPT ![r] = w]
  BY DEF Submit, At, Inv, TypeOK, Worker
<1>3. /\ worker[r].pc = "none" /\ runs' = [runs EXCEPT ![r].status = "queued"]
      /\ UNCHANGED <<tasks, cancelled, canceller, agents, services, restarts>>
  BY DEF Submit
<1> HIDE DEF w
<1>4. /\ worker' \in [Runs -> Worker] /\ worker'[r] = w
      /\ \A s \in Runs : s # r => worker'[s] = worker[s]
  BY <1>1, <1>2 DEF Inv, TypeOK
<1>5. TasksTypeOK' /\ RowInv' /\ RowsKept
  BY <1>3, TasksKept DEF Inv, TypeOK
<1>6. runs' \in [Runs -> RunRow] /\ runs'[r].status = "queued"
      /\ \A s \in Runs : s # r => runs'[s] = runs[s]
  BY <1>3 DEF Inv, TypeOK, RunRow, Open, Active
<1>7. TypeOK'
  BY <1>3, <1>4, <1>5, <1>6 DEF Inv, TypeOK
<1>8. OrderInv' /\ AgentInv'
  BY <1>3, <1>5, OrderKept, AgentsStay DEF Inv, TypeOK
<1>9. WorkerSound(r, w)
  BY <1>1, <1>3, Standing
     DEF WorkerSound, Placed, Advance, Scheduled, Advancing, Aborting, Finishing
<1>10. WorkerInv'
  BY <1>4, <1>5, <1>9, WorkerKept DEF Inv
<1>11. Live(r)' /\ \A s \in Runs : s # r => (Live(s)' <=> Live(s))
  BY <1>1, <1>4 DEF Live
<1>12. RunInv'
  BY <1>3, <1>6, <1>11 DEF RunInv, Inv, Status, Open, Active
<1>13. \A s \in Runs : ~Occupies(s)
  <2>1. SUFFICES ASSUME NEW s \in Runs PROVE ~Live(s) /\ \A i \in 1..Last : Status(s, i) \notin Active
    BY DEF Occupies
  <2>2. ~Live(s)
    BY DEF Submit, Inv, RunInv
  <2>3. ASSUME NEW i \in 1..Last, Status(s, i) \in Active PROVE FALSE
    <3>1. <<s, i>> \in TaskIds /\ tasks[<<s, i>>].status \in Active
      BY <2>3, TaskIdFacts DEF Status
    <3>2. tasks[<<s, i>>].agent \in Agents
      BY <3>1, AgentForType, PlanFacts DEF Inv, RowInv, KindOf, Active
    <3> QED
      BY <3>1, <3>2 DEF Submit, HasActiveAgentTask
  <2> QED
    BY <2>2, <2>3
<1>14. \A s \in Runs : s # r => ~Occupies(s)'
  BY <1>3, <1>11, <1>13 DEF Occupies, Status
<1>15. ExclusiveInv'
  BY <1>14 DEF ExclusiveInv
<1>16. Status(r, 1) # "completed"
  <2>1. ~Created(r, 1)
    BY <1>3, Standing, PlanFacts DEF WorkerSound, Placed, Advance, Advancing
  <2> QED
    BY <2>1 DEF Created, Status
<1>17. ServiceInv'
  <2>1. SUFFICES ASSUME NEW s \in Runs
                 PROVE  /\ (Claimed(s, Last) => Status(s, 1) # "queued")'
                        /\ (On("busy", s, 1) => ~Claimed(s, Last))'
                        /\ (On("posting", s, Last) /\ agents["target"].status = "completed"
                              => s \notin services)'
                        /\ (Status(s, Last) = "completed" => s \notin services)'
                        /\ (On("posting", s, 1) /\ agents["target"].status = "completed"
                              /\ Status(s, 1) = "running" => services \subseteq {s})'
                        /\ (Occupies(s)' /\ Status(s, 1)' = "completed" => FALSE)
    BY DEF ServiceInv
  <2>2. ~(Occupies(s)' /\ Status(s, 1)' = "completed")
    BY <1>3, <1>14, <1>16 DEF Status
  <2> QED
    BY <1>3, <2>2 DEF Inv, ServiceInv, Claimed, Status, On
<1> QED
  BY <1>5, <1>7, <1>8, <1>10, <1>12, <1>15, <1>17 DEF Inv

-----------------------------------------------------------------------------
(* The operator, the watchdog, the Agents and the restart.                  *)

LEMMA CancelKeeps ==
  ASSUME Inv, NEW r \in Runs, CancelCheck(r) \/ CancelMoves(r) PROVE Inv'
<1>1. /\ canceller' \in [Runs -> {"idle", "checked", "flagged", "swept"}]
      /\ UNCHANGED <<worker, agents, services, restarts>>
  BY DEF CancelCheck, CancelMoves, RequestCancel, CancelQueued, CancelToken, CancelStep, Inv, TypeOK
<1>2. \A s \in Runs : Live(s)' <=> Live(s)
  BY <1>1 DEF Live
<1>3. ASSUME UNCHANGED tasks, cancelled' \subseteq Runs, runs' \in [Runs -> RunRow],
             \A s \in Runs : runs'[s].status = runs[s].status
      PROVE  Inv'
  <2>1. TasksTypeOK' /\ RowInv' /\ RowsKept
    BY <1>3, TasksKept DEF Inv, TypeOK
  <2>2. TypeOK'
    BY <1>1, <1>3, <2>1 DEF Inv, TypeOK
  <2>3. OrderInv' /\ AgentInv' /\ WorkerInv'
    BY <1>1, <2>1, OrderKept, AgentsStay, WorkersStay DEF Inv, TypeOK
  <2>4. RunInv'
    BY <1>2, <1>3, <2>1, RunsKept DEF Inv
  <2>5. ExclusiveInv' /\ \A s \in Runs : Occupies(s)' => Occupies(s)
    BY <1>2, <2>1, ExclusiveKept DEF Inv, TypeOK
  <2>6. \A s \in Runs, i \in {1, Last} : Claimed(s, i)' = Claimed(s, i) /\ Status(s, i)' = Status(s, i)
    BY <1>3 DEF Claimed, Status
  <2>7. ServiceInv'
    BY <1>1, <2>1, <2>5, <2>6, ServiceKept DEF Inv
  <2> QED
    BY <2>1, <2>2, <2>3, <2>4, <2>5, <2>7 DEF Inv
<1>4. CASE CancelCheck(r) \/ CancelToken(r)
  BY <1>3, <1>4 DEF CancelCheck, CancelToken, Inv, TypeOK
<1>5. CASE RequestCancel(r)
  <2> DEFINE cancel == runs[r].cancel \/ runs[r].status \in Open
             row == [runs[r] EXCEPT !.cancel = cancel]
  <2>1. cancel \in BOOLEAN /\ runs[r] \in RunRow /\ runs \in [Runs -> RunRow]
    BY DEF Inv, TypeOK, RunRow
  <2>2. runs' = [runs EXCEPT ![r] = row]
    BY <1>5, <2>1 DEF RequestCancel
  <2> HIDE DEF cancel
  <2>3. row \in RunRow /\ row.status = runs[r].status
    BY <2>1, Zenon DEF RunRow
  <2> HIDE DEF row
  <2>4. runs' \in [Runs -> RunRow] /\ \A s \in Runs : runs'[s].status = runs[s].status
    BY <2>1, <2>2, <2>3
  <2> QED
    BY <1>3, <1>5, <2>4 DEF RequestCancel, Inv, TypeOK
<1>6. CASE CancelQueued(r)
  <2>1. CancelQueuedRunTasks(r) /\ UNCHANGED <<runs, cancelled>>
    BY <1>6 DEF CancelQueued
  <2>2. TasksTypeOK' /\ RowsKept
    BY <2>1, SweepEffect DEF Inv, TypeOK
  <2>3. TypeOK'
    BY <1>1, <2>1, <2>2 DEF Inv, TypeOK
  <2>4. WorkerInv'
    BY <1>1, <2>2, WorkersStay DEF Inv
  <2> QED
    BY <1>1, <1>2, <2>1, <2>3, <2>4, SweepStep
<1> QED
  BY <1>4, <1>5, <1>6 DEF CancelMoves

\* A step of Agent a that leaves the Runs, their executors and the table alone.
LEMMA AgentLocalStep ==
  ASSUME Inv, NEW a \in Agents, NEW n \in Agent, AgentStep(a, n), UNCHANGED tasks,
         services' \subseteq Runs, AgentSound(a)', ServiceInv'
  PROVE  Inv'
<1>1. TasksTypeOK' /\ RowInv' /\ RowsKept
  BY TasksKept DEF Inv, TypeOK
<1>2. /\ agents' \in [Agents -> Agent] /\ \A b \in Agents : b # a => agents'[b] = agents[b]
      /\ UNCHANGED <<runs, worker, cancelled, canceller, restarts>>
  BY DEF AgentStep, Inv, TypeOK
<1>3. TypeOK'
  BY <1>1, <1>2 DEF Inv, TypeOK
<1>4. OrderInv' /\ WorkerInv'
  BY <1>1, <1>2, OrderKept, WorkersStay DEF Inv
<1>5. AgentInv'
  BY <1>1, <1>2, AgentKept DEF Inv, TypeOK, AgentInv
<1>6. \A s \in Runs : Live(s)' <=> Live(s)
  BY <1>2 DEF Live
<1>7. RunInv' /\ ExclusiveInv'
  BY <1>1, <1>2, <1>6, RunsKept, ExclusiveKept DEF Inv, TypeOK
<1> QED
  BY <1>1, <1>3, <1>4, <1>5, <1>7 DEF Inv

\* The Target comes to rest or gives its task up, or another Agent moves.
LEMMA QuietAgentStep ==
  ASSUME Inv, NEW a \in Agents, NEW n \in Agent, AgentStep(a, n), UNCHANGED tasks,
         services' \subseteq services, AgentSound(a)',
         a = "target" => n.mode \in {"idle", "dead"} \/ (n.mode = "posting" /\ n.status # "completed")
  PROVE  Inv'
<1>1. /\ agents'[a] = n /\ \A b \in Agents : b # a => agents'[b] = agents[b]
      /\ "target" \in Agents /\ UNCHANGED worker
  BY DEF AgentStep, Inv, TypeOK, Agents
<1>2. RowsKept
  BY TasksKept DEF Inv, TypeOK
<1>3. \A s \in Runs : Occupies(s)' => Occupies(s)
  BY <1>1 DEF Occupies, Live, Status
<1>4. \A s \in Runs, i \in {1, Last} : Claimed(s, i)' = Claimed(s, i) /\ Status(s, i)' = Status(s, i)
  BY DEF Claimed, Status
<1>5. ServiceInv'
  BY <1>1, <1>2, <1>3, <1>4, ServiceKept DEF Inv
<1>6. services' \subseteq Runs
  BY DEF Inv, TypeOK
<1> QED
  BY <1>5, <1>6, AgentLocalStep

\* A busy Agent ends its task and will post it.
LEMMA EndingSound ==
  ASSUME Inv, NEW a \in Agents, agents[a].mode = "busy",
         NEW status \in Terminal, NEW result \in Evidence, Ends(a, status, result),
         UNCHANGED tasks,
         result = Foreign => tasks[agents[a].task].status # "running"
  PROVE  AgentSound(a)'
<1> DEFINE n == [agents[a] EXCEPT !.mode = "posting", !.status = status, !.result = result]
<1>1. agents' = [agents EXCEPT ![a] = n] /\ agents[a] \in Agent
  BY DEF Ends, AgentStep, Inv, TypeOK
<1>2. n.mode = "posting" /\ n.task = agents[a].task /\ n.status = status /\ n.result = result
  BY <1>1, Zenon DEF Agent
<1> HIDE DEF n
<1>3. agents'[a] = n
  BY <1>1 DEF Inv, TypeOK
<1>4. AgentSound(a)
  BY DEF Inv, AgentInv
<1> QED
  BY <1>2, <1>3, <1>4 DEF AgentSound

LEMMA GivingUpKeeps ==
  ASSUME Inv, NEW a \in Agents, TaskFails(a) \/ ControlRefuses(a) PROVE Inv'
<1>1. PICK status \in {"failed", "cancelled"} :
        agents[a].mode = "busy" /\ Ends(a, status, 0) /\ UNCHANGED <<tasks, services>>
  BY DEF TaskFails, ControlRefuses
<1> DEFINE n == [agents[a] EXCEPT !.mode = "posting", !.status = status, !.result = 0]
<1>2. status \in Terminal /\ 0 \in Evidence /\ 0 # Foreign /\ status # "completed"
  BY DEF Terminal, Evidence, Foreign
<1>3. AgentStep(a, n) /\ agents[a] \in Agent
  BY <1>1 DEF Ends, Inv, TypeOK
<1>4. n \in Agent /\ n.mode = "posting" /\ n.status = status
  BY <1>2, <1>3, Zenon DEF Agent
<1> HIDE DEF n
<1>5. AgentSound(a)'
  BY <1>1, <1>2, EndingSound
<1> QED
  BY <1>1, <1>2, <1>3, <1>4, <1>5, QuietAgentStep

LEMMA IdleRecord ==
  /\ IdleAgent \in Agent /\ IdleAgent.mode = "idle"
  /\ [IdleAgent EXCEPT !.mode = "dead"] \in Agent
  /\ [IdleAgent EXCEPT !.mode = "dead"].mode = "dead"
BY DEF IdleAgent, Agent, Evidence

LEMMA AgentCrashKeeps ==
  ASSUME Inv, NEW a \in Agents, AgentCrash(a) PROVE Inv'
<1> DEFINE n == [IdleAgent EXCEPT !.mode = "dead"]
<1>1. AgentStep(a, n) /\ UNCHANGED tasks /\ services' \subseteq services
  BY DEF AgentCrash
<1>2. n \in Agent /\ n.mode = "dead"
  BY IdleRecord
<1> HIDE DEF n
<1>3. AgentSound(a)'
  BY <1>1, <1>2 DEF AgentStep, AgentSound, Inv, TypeOK
<1> QED
  BY <1>1, <1>2, <1>3, QuietAgentStep

LEMMA ServiceExpiresKeeps ==
  ASSUME Inv, NEW r \in Runs, ServiceExpires(r) PROVE Inv'
<1>1. /\ UNCHANGED <<runs, tasks, worker, cancelled, canceller, agents, restarts>>
      /\ services' \subseteq services
  BY DEF ServiceExpires
<1>2. TasksTypeOK' /\ RowInv' /\ RowsKept
  BY <1>1, TasksKept DEF Inv, TypeOK
<1>3. TypeOK'
  BY <1>1, <1>2 DEF Inv, TypeOK
<1>4. OrderInv' /\ AgentInv' /\ WorkerInv'
  BY <1>1, <1>2, OrderKept, AgentsStay, WorkersStay DEF Inv, TypeOK
<1>5. \A s \in Runs : Live(s)' <=> Live(s)
  BY <1>1 DEF Live
<1>6. RunInv'
  BY <1>1, <1>2, <1>5, RunsKept DEF Inv
<1>7. ExclusiveInv' /\ \A s \in Runs : Occupies(s)' => Occupies(s)
  BY <1>2, <1>5, ExclusiveKept DEF Inv, TypeOK
<1>8. \A s \in Runs, i \in {1, Last} : Claimed(s, i)' = Claimed(s, i) /\ Status(s, i)' = Status(s, i)
  BY <1>1 DEF Claimed, Status
<1>9. ServiceInv'
  BY <1>1, <1>2, <1>7, <1>8, ServiceKept DEF Inv
<1> QED
  BY <1>2, <1>3, <1>4, <1>6, <1>7, <1>9 DEF Inv

\* A task ends well and will be posted.
LEMMA EndingKeeps ==
  ASSUME Inv, NEW a \in Agents, agents[a].mode = "busy", NEW result \in Evidence,
         Ends(a, "completed", result), UNCHANGED tasks, services' \subseteq Runs, ServiceInv',
         result = Foreign => tasks[agents[a].task].status # "running"
  PROVE  Inv'
<1> DEFINE n == [agents[a] EXCEPT !.mode = "posting", !.status = "completed", !.result = result]
<1>1. AgentStep(a, n) /\ agents[a] \in Agent /\ "completed" \in Terminal
  BY DEF Ends, Inv, TypeOK, Terminal
<1>2. n \in Agent
  BY <1>1, Zenon DEF Agent
<1> HIDE DEF n
<1>3. AgentSound(a)'
  BY <1>1, EndingSound
<1> QED
  BY <1>1, <1>2, <1>3, AgentLocalStep

\* What the Target has when it has ended a task well.
LEMMA TargetEnds ==
  ASSUME Inv, agents["target"].mode = "busy", NEW result \in Evidence,
         Ends("target", "completed", result)
  PROVE  /\ agents'["target"].mode = "posting" /\ agents'["target"].status = "completed"
         /\ agents'["target"].task = agents["target"].task
         /\ agents["target"].task \in TaskIds /\ "target" \in Agents
         /\ UNCHANGED worker
<1> DEFINE n == [agents["target"] EXCEPT !.mode = "posting", !.status = "completed", !.result = result]
<1>1. /\ agents' = [agents EXCEPT !["target"] = n] /\ agents["target"] \in Agent
      /\ "target" \in Agents /\ UNCHANGED worker
  BY DEF Ends, AgentStep, Inv, TypeOK, Agents
<1>2. n.mode = "posting" /\ n.status = "completed" /\ n.task = agents["target"].task
  BY <1>1, Zenon DEF Agent
<1> HIDE DEF n
<1>3. agents'["target"] = n
  BY <1>1 DEF Inv, TypeOK
<1>4. agents["target"].task \in TaskIds
  BY <1>1 DEF Inv, AgentInv, AgentSound
<1> QED
  BY <1>1, <1>2, <1>3, <1>4

LEMMA StartServiceKeeps ==
  ASSUME Inv, StartService PROVE Inv'
<1> DEFINE own == agents["target"].task[1]
<1>1. /\ agents["target"].mode = "busy" /\ Own \in Evidence /\ Own # Foreign
      /\ Ends("target", "completed", Own) /\ UNCHANGED tasks
      /\ services = {} /\ services' = {own} /\ Plan[agents["target"].task[2]] = "start"
  BY DEF StartService, Executes, KindOf, Own, Foreign, Evidence
<1>2. /\ agents'["target"].mode = "posting" /\ agents'["target"].status = "completed"
      /\ agents'["target"].task = agents["target"].task
      /\ agents["target"].task \in TaskIds /\ "target" \in Agents /\ UNCHANGED worker
  BY <1>1, TargetEnds
<1>3. agents["target"].task = <<own, 1>> /\ own \in Runs
  BY <1>1, <1>2, TaskIdFacts, PlanFacts
<1> HIDE DEF own
<1>4. On("busy", own, 1)
  BY <1>1, <1>3 DEF On
<1>5. ServiceInv'
  <2>1. SUFFICES ASSUME NEW r \in Runs
                 PROVE  /\ (Claimed(r, Last) => Status(r, 1) # "queued")'
                        /\ (On("busy", r, 1) => ~Claimed(r, Last))'
                        /\ (On("posting", r, Last) /\ agents["target"].status = "completed"
                              => r \notin services)'
                        /\ (Status(r, Last) = "completed" => r \notin services)'
                        /\ (On("posting", r, 1) /\ agents["target"].status = "completed"
                              /\ Status(r, 1) = "running" => services \subseteq {r})'
                        /\ (Occupies(r) /\ Status(r, 1) = "completed" =>
                              /\ services \subseteq {r}
                              /\ \A s \in Runs : On("busy", s, 1) => s = r)'
    BY DEF ServiceInv
  <2>2. \A m, s, i : On(m, s, i)' <=> m = "posting" /\ <<s, i>> = <<own, 1>>
    BY <1>2, <1>3 DEF On
  <2>3. (Claimed(r, Last) => Status(r, 1) # "queued")'
    BY <1>1 DEF Inv, ServiceInv, Claimed, Status
  <2>4. ~On("busy", r, 1)' /\ ~On("posting", r, Last)'
    BY <2>2, PlanFacts
  <2>5. (Status(r, Last) = "completed" => r \notin services)'
    <3>1. ~Claimed(own, Last)
      BY <1>3, <1>4 DEF Inv, ServiceInv
    <3>2. Status(own, Last) # "completed"
      BY <1>3, <3>1, TaskIdFacts, PlanFacts DEF Inv, RowInv, Claimed, Status
    <3> QED
      BY <1>1, <3>2 DEF Status
  <2>6. (On("posting", r, 1) => services \subseteq {r})'
    BY <1>1, <2>2
  <2>7. (Occupies(r) /\ Status(r, 1) = "completed" => services \subseteq {r})'
    <3>1. Occupies(r)' => Occupies(r)
      BY <1>1, <1>2 DEF Occupies, Live, Status
    <3>2. Occupies(r) /\ Status(r, 1) = "completed" => own = r
      BY <1>3, <1>4 DEF Inv, ServiceInv
    <3> QED
      BY <1>1, <3>1, <3>2 DEF Status
  <2>8. \A s \in Runs : ~On("busy", s, 1)'
    BY <2>2
  <2> QED
    BY <2>3, <2>4, <2>5, <2>6, <2>7, <2>8
<1> QED
  BY <1>1, <1>2, <1>3, <1>5, EndingKeeps

\* A probe, a drill or the stop task: no service comes up.
LEMMA TargetTaskKeeps ==
  ASSUME Inv, ProbeService \/ StopService PROVE Inv'
<1> DEFINE t == agents["target"].task
<1>1. /\ agents["target"].mode = "busy" /\ Own \in Evidence /\ Own # Foreign
      /\ Ends("target", "completed", Own) /\ UNCHANGED tasks /\ services' \subseteq services
      /\ Plan[t[2]] # "start"
      /\ Plan[t[2]] = "stop" => t[1] \notin services'
  BY DEF ProbeService, StopService, Executes, KindOf, Own, Foreign, Evidence
<1>2. /\ agents'["target"].mode = "posting" /\ agents'["target"].status = "completed"
      /\ agents'["target"].task = t
      /\ t \in TaskIds /\ "target" \in Agents /\ UNCHANGED worker
  BY <1>1, TargetEnds
<1>3. /\ t[2] \in 1..Last /\ t[2] # 1
      /\ t[2] = Last => t[1] \notin services'
  BY <1>1, <1>2, TaskIdFacts, PlanFacts
<1> HIDE DEF t
<1>4. ServiceInv'
  <2>1. SUFFICES ASSUME NEW r \in Runs
                 PROVE  /\ (Claimed(r, Last) => Status(r, 1) # "queued")'
                        /\ (On("busy", r, 1) => ~Claimed(r, Last))'
                        /\ (On("posting", r, Last) /\ agents["target"].status = "completed"
                              => r \notin services)'
                        /\ (Status(r, Last) = "completed" => r \notin services)'
                        /\ (On("posting", r, 1) /\ agents["target"].status = "completed"
                              /\ Status(r, 1) = "running" => services \subseteq {r})'
                        /\ (Occupies(r) /\ Status(r, 1) = "completed" =>
                              /\ services \subseteq {r}
                              /\ \A s \in Runs : On("busy", s, 1) => s = r)'
    BY DEF ServiceInv
  <2>2. \A s \in Runs : ~On("busy", s, 1)' /\ ~On("posting", s, 1)'
    BY <1>2, <1>3 DEF On
  <2>3. On("posting", r, Last)' => r \notin services'
    BY <1>2, <1>3 DEF On
  <2>4. Occupies(r)' => Occupies(r)
    BY <1>1, <1>2 DEF Occupies, Live, Status
  <2> QED
    BY <1>1, <2>2, <2>3, <2>4 DEF Inv, ServiceInv, Claimed, Status
<1>5. services' \subseteq Runs
  BY <1>1 DEF Inv, TypeOK
<1> QED
  BY <1>1, <1>2, <1>4, <1>5, EndingKeeps

\* A client reaches another Run's service only when its own row is closed.
LEMMA RunClientKeeps ==
  ASSUME Inv, RunClient PROVE Inv'
<1> DEFINE t == agents["generator"].task
<1>1. PICK s \in services :
        /\ agents["generator"].mode = "busy" /\ Plan[t[2]] \in {"prepare", "client", "cleanup"}
        /\ Secured => s = t[1]
        /\ Ends("generator", "completed", IF s = t[1] THEN Own ELSE Foreign)
        /\ UNCHANGED <<tasks, services>>
  BY DEF RunClient, Executes, KindOf
<1> DEFINE result == IF s = t[1] THEN Own ELSE Foreign
<1>2. result \in Evidence /\ "generator" \in Agents /\ Ends("generator", "completed", result)
  BY <1>1 DEF Own, Foreign, Evidence, Agents
<1>3. t \in TaskIds /\ t[1] \in Runs /\ t[2] \in 1..Last /\ t = <<t[1], t[2]>>
  BY <1>1, <1>2, TaskIdFacts DEF Inv, AgentInv, AgentSound
<1>4. ASSUME s # t[1], tasks[t].status = "running" PROVE FALSE
  <2>1. Engine # "mysql"
    BY <1>1, <1>4 DEF Secured
  <2>2. t[2] \in 2..(Last - 1) /\ Plan[t[2]] # "cleanup"
    BY <1>1, <1>3, <2>1, PlanFacts
  <2>3. Created(t[1], t[2]) /\ Status(t[1], t[2]) = "running"
    BY <1>3, <1>4 DEF Created, Status
  <2>4. Status(t[1], 1) = "completed"
    BY <1>3, <2>2, <2>3, Standing DEF WorkerSound, Scheduled
  <2>5. Occupies(t[1])
    BY <1>3, <2>3 DEF Occupies, Active
  <2> QED
    BY <1>1, <1>3, <1>4, <2>4, <2>5 DEF Inv, ServiceInv
<1>5. result = Foreign => tasks[t].status # "running"
  BY <1>4 DEF Own, Foreign
<1> DEFINE n == [agents["generator"] EXCEPT !.mode = "posting", !.status = "completed",
                                            !.result = result]
<1>6. AgentStep("generator", n) /\ agents["generator"] \in Agent /\ "completed" \in Terminal
  BY <1>2 DEF Ends, Inv, TypeOK, Terminal
<1>7. AgentSound("generator")'
  BY <1>1, <1>2, <1>5, <1>6, EndingSound
<1> HIDE DEF result, t
<1>8. n \in Agent
  BY <1>2, <1>6, Zenon DEF Agent
<1> HIDE DEF n
<1> QED
  BY <1>1, <1>2, <1>6, <1>7, <1>8, QuietAgentStep

\* An Agent claims its oldest row: a stop task after the start task of its Run,
\* a start task only of the Run that occupies the pair.
LEMMA ClaimKeeps ==
  ASSUME Inv, NEW a \in Agents, NEW t \in TaskIds, Claim(a, t) PROVE Inv'
<1> DEFINE busy == [IdleAgent EXCEPT !.mode = "busy", !.task = t]
<1>1. busy \in Agent /\ busy.mode = "busy" /\ busy.task = t
  BY IdleRecord, Zenon DEF Agent
<1>2. /\ agents[a].mode = "idle" /\ ClaimAgentTask(a, t) /\ services' = services
      /\ (AgentStep(a, busy) \/ AgentStep(a, agents[a]))
  BY DEF Claim
<1>3. /\ TasksTypeOK' /\ RowInv' /\ RowsKept
      /\ tasks[t].status = "queued" /\ tasks[t].agent = a /\ ~tasks[t].claimed
      /\ tasks'[t].status = "running" /\ tasks'[t].claimed
      /\ \A u \in TaskIds : u # t => tasks'[u] = tasks[u]
  BY <1>2, ClaimEffect DEF Inv, TypeOK
<1> HIDE DEF busy
<1>4. /\ agents' \in [Agents -> Agent] /\ agents'[a] \in {busy, agents[a]}
      /\ \A b \in Agents : b # a => agents'[b] = agents[b]
      /\ UNCHANGED <<runs, worker, cancelled, canceller, restarts>>
  BY <1>1, <1>2 DEF AgentStep, Inv, TypeOK
<1>5. TypeOK'
  BY <1>2, <1>3, <1>4 DEF Inv, TypeOK
<1>6. OrderInv' /\ WorkerInv'
  BY <1>3, <1>4, OrderKept, WorkersStay DEF Inv
<1>7. AgentInv'
  <2>1. AgentSound(a)'
    BY <1>1, <1>2, <1>3, <1>4 DEF AgentSound, RowsKept
  <2>2. \A b \in Agents : b # a => AgentSound(b)'
    BY <1>3, <1>4, AgentKept DEF Inv, TypeOK
  <2> QED
    BY <2>1, <2>2 DEF AgentInv
<1>8. \A s \in Runs : Live(s)' <=> Live(s)
  BY <1>4 DEF Live
<1>9. RunInv'
  BY <1>3, <1>4, <1>8, RunsKept DEF Inv
<1>10. ExclusiveInv' /\ \A s \in Runs : Occupies(s)' => Occupies(s)
  BY <1>3, <1>8, ExclusiveKept DEF Inv, TypeOK
<1>11. PICK own \in Runs, i \in 1..Last : t = <<own, i>>
  BY TaskIdFacts
<1>12. a = AgentFor(Plan[i]) /\ Occupies(own)
  BY <1>3, <1>11 DEF Inv, RowInv, KindOf, Occupies, Status, Active
<1>13. ServiceInv'
  <2>1. SUFFICES ASSUME NEW r \in Runs
                 PROVE  /\ (Claimed(r, Last) => Status(r, 1) # "queued")'
                        /\ (On("busy", r, 1) => ~Claimed(r, Last))'
                        /\ (On("posting", r, Last) /\ agents["target"].status = "completed"
                              => r \notin services)'
                        /\ (Status(r, Last) = "completed" => r \notin services)'
                        /\ (On("posting", r, 1) /\ agents["target"].status = "completed"
                              /\ Status(r, 1) = "running" => services \subseteq {r})'
                        /\ (Occupies(r) /\ Status(r, 1) = "completed" =>
                              /\ services \subseteq {r}
                              /\ \A s \in Runs : On("busy", s, 1) => s = r)'
    BY DEF ServiceInv
  <2>2. \A s \in Runs, j \in 1..Last : <<s, j>> \in TaskIds /\ (<<s, j>> = t <=> s = own /\ j = i)
    BY <1>11, TaskIdFacts
  <2>3. \A s \in Runs, j \in 1..Last :
          s # own \/ j # i => Status(s, j)' = Status(s, j) /\ Claimed(s, j)' = Claimed(s, j)
    BY <1>3, <2>2 DEF Status, Claimed
  <2>4. Status(own, i) = "queued" /\ Status(own, i)' = "running" /\ ~Claimed(own, i)
    BY <1>3, <1>11 DEF Status, Claimed
  <2>5. i \in {1, Last} => a = "target"
    BY <1>12, PlanFacts DEF AgentFor
  <2>6. /\ On("busy", r, 1)' => On("busy", r, 1) \/ (r = own /\ i = 1)
        /\ \A m \in 1..Last :
             On("posting", r, m)' /\ agents'["target"].status = "completed"
               => On("posting", r, m) /\ agents["target"].status = "completed"
    <3>1. CASE a = "target"
      BY <1>1, <1>2, <1>4, <1>11, <3>1, PlanFacts DEF On
    <3>2. CASE a # "target"
      <4>1. agents'["target"] = agents["target"]
        BY <1>4, <3>2 DEF Agents
      <4> QED
        BY <4>1 DEF On
    <3> QED
      BY <3>1, <3>2
  <2>7. (Claimed(r, Last) => Status(r, 1) # "queued")'
    <3>1. CASE r = own /\ i = Last
      <4>1. ASSUME Status(r, 1) = "queued" PROVE FALSE
        <5>1. Created(r, 1) /\ Created(r, Last)
          BY <2>4, <3>1, <4>1 DEF Created, Status
        <5>2. tasks[<<r, 1>>].created < tasks[t].created
          BY <1>11, <3>1, <5>1, PlanFacts DEF Inv, OrderInv
        <5>3. tasks[<<r, 1>>].agent = a /\ <<r, 1>> \in TaskIds
          BY <2>2, <2>5, <3>1, <4>1, PlanFacts DEF Inv, RowInv, KindOf, AgentFor, Status
        <5>4. tasks[t].created <= tasks[<<r, 1>>].created
          BY <1>2, <4>1, <5>3 DEF ClaimAgentTask, QueuedFor, Status
        <5>5. tasks[t].created \in Nat /\ tasks[<<r, 1>>].created \in Nat
          BY <5>3 DEF Inv, TypeOK, TasksTypeOK, Row
        <5> QED
          BY <5>2, <5>4, <5>5
      <4> QED
        BY <2>3, <3>1, <4>1, PlanFacts
    <3>2. CASE ~(r = own /\ i = Last)
      <4>1. Claimed(r, Last)' = Claimed(r, Last)
        BY <2>3, <3>2, PlanFacts
      <4>2. Status(r, 1)' = "queued" => Status(r, 1) = "queued"
        BY <2>3, <2>4, PlanFacts
      <4> QED
        BY <4>1, <4>2 DEF Inv, ServiceInv
    <3> QED
      BY <3>1, <3>2
  <2>8. (On("busy", r, 1) => ~Claimed(r, Last))'
    <3>1. CASE i = Last
      <4>1. a = "target" /\ i # 1
        BY <2>5, <3>1, PlanFacts
      <4>2. ~On("busy", r, 1)'
        BY <1>1, <1>2, <1>4, <1>11, <4>1 DEF On
      <4> QED
        BY <4>2
    <3>2. CASE i # Last
      <4>1. Claimed(r, Last)' = Claimed(r, Last)
        BY <2>3, <3>2, PlanFacts
      <4>2. r = own /\ i = 1 => ~Claimed(r, Last)
        BY <2>4 DEF Inv, ServiceInv
      <4> QED
        BY <2>6, <4>1, <4>2 DEF Inv, ServiceInv
    <3> QED
      BY <3>1, <3>2
  <2>9. (On("posting", r, Last) /\ agents["target"].status = "completed" => r \notin services)'
    BY <1>2, <2>6, PlanFacts DEF Inv, ServiceInv
  <2>10. (Status(r, Last) = "completed" => r \notin services)'
    BY <1>2, <2>3, <2>4, PlanFacts DEF Inv, ServiceInv
  <2>11. (On("posting", r, 1) /\ agents["target"].status = "completed" /\ Status(r, 1) = "running"
            => services \subseteq {r})'
    <3>1. CASE r = own /\ i = 1
      <4>1. ~On("posting", r, 1)'
        BY <1>1, <1>2, <1>4, <2>5, <3>1 DEF On
      <4> QED
        BY <4>1
    <3>2. CASE ~(r = own /\ i = 1)
      <4>1. Status(r, 1)' = Status(r, 1)
        BY <2>3, <3>2, PlanFacts
      <4> QED
        BY <1>2, <2>6, <4>1, PlanFacts DEF Inv, ServiceInv
    <3> QED
      BY <3>1, <3>2
  <2>12. (Occupies(r) /\ Status(r, 1) = "completed" =>
            /\ services \subseteq {r}
            /\ \A s \in Runs : On("busy", s, 1) => s = r)'
    <3>1. SUFFICES ASSUME Occupies(r)', Status(r, 1)' = "completed"
                   PROVE  services' \subseteq {r} /\ \A s \in Runs : On("busy", s, 1)' => s = r
      OBVIOUS
    <3>2. Occupies(r) /\ Status(r, 1) = "completed"
      BY <1>10, <2>3, <2>4, <3>1, PlanFacts
    <3>3. own = r
      BY <1>12, <3>2 DEF Inv, ExclusiveInv
    <3>4. ASSUME NEW s \in Runs, On("busy", s, 1)' PROVE s = r
      <4>1. On("busy", s, 1) \/ s = own
        <5>1. CASE a = "target"
          BY <1>1, <1>2, <1>4, <1>11, <3>4, <5>1 DEF On
        <5>2. CASE a # "target"
          <6>1. agents'["target"] = agents["target"]
            BY <1>4, <5>2 DEF Agents
          <6> QED
            BY <3>4, <6>1 DEF On
        <5> QED
          BY <5>1, <5>2
      <4> QED
        BY <3>2, <3>3, <4>1 DEF Inv, ServiceInv
    <3> QED
      BY <1>2, <3>2, <3>4 DEF Inv, ServiceInv
  <2> QED
    BY <2>7, <2>8, <2>9, <2>10, <2>11, <2>12
<1> QED
  BY <1>3, <1>5, <1>6, <1>7, <1>9, <1>10, <1>13 DEF Inv

\* A result reaches the table: the stop task's after its service is gone, the
\* start task's while its service is the only one.
LEMMA PostKeeps ==
  ASSUME Inv, NEW a \in Agents, PostResult(a) \/ PostResultUnanswered(a) PROVE Inv'
<1> DEFINE t == agents[a].task
           status == agents[a].status
           result == agents[a].result
<1>1. /\ agents[a].mode = "posting" /\ FinishAgentTask(t, a, status, result)
      /\ services' = services /\ (AgentStep(a, IdleAgent) \/ AgentStep(a, agents[a]))
  BY DEF PostResult, PostResultUnanswered
<1>2. /\ t \in TaskIds /\ tasks[t].claimed /\ tasks[t].agent = a /\ status \in Terminal
      /\ result = Foreign => tasks[t].status # "running"
  BY <1>1 DEF Inv, AgentInv, AgentSound
<1>3. result \in Evidence /\ agents[a] \in Agent
  BY DEF Inv, TypeOK, Agent
<1>4. /\ TasksTypeOK' /\ RowInv' /\ RowsKept
      /\ tasks'[t].status = IF tasks[t].status = "running" THEN status ELSE tasks[t].status
      /\ tasks'[t].claimed = tasks[t].claimed
      /\ \A u \in TaskIds : u # t => tasks'[u] = tasks[u]
  BY <1>1, <1>2, <1>3, FinishEffect DEF Inv, TypeOK
<1>5. /\ agents' \in [Agents -> Agent] /\ agents'[a] \in {IdleAgent, agents[a]}
      /\ \A b \in Agents : b # a => agents'[b] = agents[b]
      /\ UNCHANGED <<runs, worker, cancelled, canceller, restarts>>
  BY <1>1, <1>3, IdleRecord DEF AgentStep, Inv, TypeOK
<1>6. TypeOK'
  BY <1>1, <1>4, <1>5 DEF Inv, TypeOK
<1>7. OrderInv' /\ WorkerInv'
  BY <1>4, <1>5, OrderKept, WorkersStay DEF Inv
<1>8. AgentInv'
  <2>1. agents'[a] = IdleAgent => AgentSound(a)'
    BY IdleRecord DEF AgentSound
  <2>2. \A b \in Agents : agents'[b] = agents[b] => AgentSound(b)'
    BY <1>4, AgentKept DEF Inv, TypeOK
  <2> QED
    BY <1>5, <2>1, <2>2 DEF AgentInv
<1>9. \A s \in Runs : Live(s)' <=> Live(s)
  BY <1>5 DEF Live
<1>10. RunInv'
  BY <1>4, <1>5, <1>9, RunsKept DEF Inv
<1>11. ExclusiveInv' /\ \A s \in Runs : Occupies(s)' => Occupies(s)
  BY <1>4, <1>9, ExclusiveKept DEF Inv, TypeOK
<1>12. PICK own \in Runs, i \in 1..Last : t = <<own, i>>
  BY <1>2, TaskIdFacts
<1>13. tasks[t].status # "absent" /\ a = AgentFor(Plan[i])
  BY <1>2, <1>12 DEF Inv, RowInv, KindOf
<1>14. \A m \in {"busy", "posting"}, s \in Runs, j \in 1..Last :
         On(m, s, j)' => On(m, s, j) /\ agents'["target"].status = agents["target"].status
  <2>1. CASE a = "target"
    BY <1>5, <2>1, IdleRecord DEF On
  <2>2. CASE a # "target"
    <3>1. agents'["target"] = agents["target"]
      BY <1>5, <2>2 DEF Agents
    <3> QED
      BY <3>1 DEF On
  <2> QED
    BY <2>1, <2>2
<1>15. i \in {1, Last} => a = "target" /\ On("posting", own, i) /\ agents["target"].status = status
  BY <1>1, <1>12, <1>13, PlanFacts DEF AgentFor, On
<1>16. /\ \A s \in Runs, j \in 1..Last : Claimed(s, j)' = Claimed(s, j)
       /\ \A s \in Runs, j \in 1..Last : s # own \/ j # i => Status(s, j)' = Status(s, j)
       /\ Status(own, i) # "running" => Status(own, i)' = Status(own, i)
       /\ Status(own, i) = "running" => Status(own, i)' = status
  <2> HIDE DEF t, status
  <2>1. \A s \in Runs, j \in 1..Last : <<s, j>> \in TaskIds /\ (<<s, j>> = t <=> s = own /\ j = i)
    BY <1>12, TaskIdFacts
  <2> QED
    BY <1>4, <1>12, <2>1 DEF Claimed, Status
<1> HIDE DEF t, status, result
<1>17. ServiceInv'
  <2>1. SUFFICES ASSUME NEW r \in Runs
                 PROVE  /\ (Claimed(r, Last) => Status(r, 1) # "queued")'
                        /\ (On("busy", r, 1) => ~Claimed(r, Last))'
                        /\ (On("posting", r, Last) /\ agents["target"].status = "completed"
                              => r \notin services)'
                        /\ (Status(r, Last) = "completed" => r \notin services)'
                        /\ (On("posting", r, 1) /\ agents["target"].status = "completed"
                              /\ Status(r, 1) = "running" => services \subseteq {r})'
                        /\ (Occupies(r) /\ Status(r, 1) = "completed" =>
                              /\ services \subseteq {r}
                              /\ \A s \in Runs : On("busy", s, 1) => s = r)'
    BY DEF ServiceInv
  <2>2. /\ Status(r, 1)' = "queued" => Status(r, 1) = "queued"
        /\ Status(r, 1)' = "running" => Status(r, 1) = "running"
    BY <1>2, <1>16, PlanFacts DEF Terminal
  <2>3. (Claimed(r, Last) => Status(r, 1) # "queued")'
    BY <1>16, <2>2, PlanFacts DEF Inv, ServiceInv
  <2>4. (On("busy", r, 1) => ~Claimed(r, Last))'
    BY <1>14, <1>16, PlanFacts DEF Inv, ServiceInv
  <2>5. (On("posting", r, Last) /\ agents["target"].status = "completed" => r \notin services)'
    BY <1>1, <1>14, PlanFacts DEF Inv, ServiceInv
  <2>6. (Status(r, Last) = "completed" => r \notin services)'
    <3>1. Status(r, Last)' = "completed" /\ Status(r, Last) # "completed"
            => On("posting", r, Last) /\ agents["target"].status = "completed"
      BY <1>15, <1>16, PlanFacts
    <3> QED
      BY <1>1, <3>1 DEF Inv, ServiceInv
  <2>7. (On("posting", r, 1) /\ agents["target"].status = "completed" /\ Status(r, 1) = "running"
           => services \subseteq {r})'
    BY <1>1, <1>14, <2>2, PlanFacts DEF Inv, ServiceInv
  <2>8. (Occupies(r) /\ Status(r, 1) = "completed" =>
           /\ services \subseteq {r}
           /\ \A s \in Runs : On("busy", s, 1) => s = r)'
    <3>1. SUFFICES ASSUME Occupies(r)', Status(r, 1)' = "completed"
                   PROVE  services' \subseteq {r} /\ \A s \in Runs : On("busy", s, 1)' => s = r
      OBVIOUS
    <3>2. CASE Status(r, 1) = "completed"
      BY <1>1, <1>11, <1>14, <3>1, <3>2, PlanFacts DEF Inv, ServiceInv
    <3>3. CASE Status(r, 1) # "completed"
      <4>1. /\ On("posting", r, 1) /\ agents["target"].status = "completed"
            /\ Status(r, 1) = "running"
        BY <1>15, <1>16, <3>1, <3>3, PlanFacts
      <4>2. \A s \in Runs : ~On("busy", s, 1)'
        BY <1>14, <4>1, PlanFacts DEF On
      <4> QED
        BY <1>1, <4>1, <4>2 DEF Inv, ServiceInv
    <3> QED
      BY <3>2, <3>3
  <2> QED
    BY <2>3, <2>4, <2>5, <2>6, <2>7, <2>8
<1> QED
  BY <1>4, <1>6, <1>7, <1>8, <1>10, <1>11, <1>17 DEF Inv

\* The restart ends every executor and closes every row.
LEMMA RestartKeeps ==
  ASSUME Inv, ControllerRestart PROVE Inv'
<1>1. /\ RecoverTasks /\ UNCHANGED <<agents, services>> /\ restarts' = restarts + 1
      /\ restarts < MaxRestarts /\ cancelled' = {} /\ canceller' = [r \in Runs |-> "idle"]
  BY DEF ControllerRestart
<1>2. /\ TasksTypeOK' /\ RowInv' /\ RowsKept /\ RowsClosed
      /\ \A t \in TaskIds : tasks'[t].status \notin Active
  BY <1>1, RecoverEffect DEF Inv, TypeOK
<1>3. ASSUME NEW r \in Runs
      PROVE  /\ worker'[r] \in Worker
             /\ \/ worker'[r] = worker[r] /\ ~Live(r)
                \/ /\ worker'[r].pc = "gone" /\ worker'[r].outcome = "none"
                   /\ worker'[r].prepared = worker[r].prepared
  <2> DEFINE over == [worker[r] EXCEPT !.pc = "gone", !.outcome = "none"]
  <2>1. worker'[r] = over \/ (worker'[r] = worker[r] /\ ~Live(r))
    BY DEF ControllerRestart, Live
  <2>2. worker[r] \in Worker
    BY DEF Inv, TypeOK
  <2>3. over \in Worker /\ over.pc = "gone" /\ over.outcome = "none" /\ over.prepared = worker[r].prepared
    BY <2>2, Zenon DEF Worker, Outcomes
  <2> HIDE DEF over
  <2> QED
    BY <2>1, <2>2, <2>3
<1>4. ASSUME NEW r \in Runs
      PROVE  /\ runs'[r] \in RunRow /\ runs'[r].status \notin Open
             /\ runs'[r].status = "completed" => runs[r].status = "completed"
  <2> DEFINE failed == [runs[r] EXCEPT !.status = "failed"]
  <2>1. runs'[r] = IF runs[r].status \in Open THEN failed ELSE runs[r]
    BY DEF ControllerRestart
  <2>2. runs[r] \in RunRow
    BY DEF Inv, TypeOK
  <2>3. failed \in RunRow /\ failed.status = "failed"
    BY <2>2, Zenon DEF RunRow, Terminal
  <2> HIDE DEF failed
  <2> QED
    BY <2>1, <2>2, <2>3 DEF Open, Active
<1>5. worker' \in [Runs -> Worker] /\ runs' \in [Runs -> RunRow]
  BY <1>3, <1>4 DEF ControllerRestart
<1>6. TypeOK'
  BY <1>1, <1>2, <1>5, PairedAssumption DEF Inv, TypeOK
<1>7. OrderInv' /\ AgentInv'
  BY <1>1, <1>2, OrderKept, AgentsStay DEF Inv, TypeOK
<1>8. WorkerInv'
  <2>1. SUFFICES ASSUME NEW r \in Runs PROVE WorkerSound(r, worker[r])'
    BY DEF WorkerInv
  <2>2. \A i \in 1..Last : /\ Created(r, i)' <=> Created(r, i)
                           /\ Status(r, i) = "completed" => Status(r, i)' = "completed"
    BY <1>2, TaskIdFacts DEF RowsKept, Created, Status, Terminal
  <2>3. CASE worker'[r] = worker[r]
    BY <2>2, <2>3, Standing, PlanFacts DEF WorkerSound, Placed, Advance, Scheduled
  <2>4. CASE /\ worker'[r].pc = "gone" /\ worker'[r].outcome = "none"
             /\ worker'[r].prepared = worker[r].prepared
    <3>1. Placed(r, worker[r])' /\ Advance(r, worker[r])'
      BY <2>4 DEF Placed, Advance, Advancing, Aborting, Finishing
    <3>2. Scheduled(r, worker[r])'
      BY <2>2, <2>4, Standing, PlanFacts DEF WorkerSound, Scheduled
    <3> QED
      BY <3>1, <3>2 DEF WorkerSound
  <2> QED
    BY <1>3, <2>3, <2>4
<1>9. \A r \in Runs : ~Live(r)'
  BY <1>3 DEF Live
<1>10. RunInv'
  BY <1>2, <1>4, <1>9, TaskIdFacts, PlanFacts DEF RunInv, Inv, RowsKept, Status, Terminal
<1>11. \A r \in Runs : ~Occupies(r)'
  BY <1>2, <1>9, TaskIdFacts DEF Occupies, Status
<1>12. ExclusiveInv'
  BY <1>11 DEF ExclusiveInv
<1>13. \A r \in Runs, i \in {1, Last} :
         /\ Claimed(r, i)' = Claimed(r, i)
         /\ Status(r, i)' \in {"running", "completed"} => Status(r, i)' = Status(r, i)
  BY <1>2, TaskIdFacts, PlanFacts DEF RowsClosed, Claimed, Status
<1>14. ServiceInv'
  BY <1>1, <1>2, <1>11, <1>13, ServiceKept DEF Inv
<1> QED
  BY <1>2, <1>6, <1>7, <1>8, <1>10, <1>12, <1>14 DEF Inv

-----------------------------------------------------------------------------
(* The invariant and what follows from it.                                  *)

LEMMA InitInv == Init => Inv
<1> SUFFICES ASSUME Init PROVE Inv
  OBVIOUS
<1>1. \A t \in TaskIds : tasks[t] = NoRow
  BY DEF Init, TasksInit
<1>2. \A r \in Runs, i \in 1..Last : Status(r, i) = "absent" /\ ~Created(r, i) /\ ~Claimed(r, i)
  <2>1. NoRow.status = "absent" /\ NoRow.claimed = FALSE
    BY DEF NoRow
  <2>2. \A r \in Runs, i \in 1..Last : tasks[<<r, i>>] = NoRow
    BY <1>1, TaskIdFacts
  <2> QED
    BY <2>1, <2>2 DEF Status, Created, Claimed
<1>3. TypeOK
  <2>1. TasksTypeOK
    BY DEF Init, TasksInit, TasksTypeOK, Row, NoRow, Evidence
  <2>2. worker \in [Runs -> Worker]
    BY PlanFacts DEF Init, NoWorker, Worker, Outcomes
  <2>3. agents \in [Agents -> Agent]
    BY IdleRecord DEF Init
  <2> QED
    BY <2>1, <2>2, <2>3, PairedAssumption DEF Init, TypeOK, RunRow
<1>4. RowInv /\ OrderInv
  BY <1>1, <1>2 DEF RowInv, OrderInv, NoRow, Foreign
<1>5. AgentInv /\ \A m \in {"busy", "posting"}, r \in Runs, i \in 1..Last : ~On(m, r, i)
  BY IdleRecord DEF Init, AgentInv, AgentSound, On, Agents
<1>6. \A r \in Runs : ~Live(r) /\ ~Occupies(r) /\ worker[r] = NoWorker
  BY <1>2 DEF Init, Live, Occupies, NoWorker, Active
<1>7. WorkerInv
  BY <1>2, <1>6, PlanFacts DEF WorkerInv, WorkerSound, Placed, Advance, Scheduled, NoWorker,
                               Advancing, Aborting, Finishing
<1>8. RunInv /\ ExclusiveInv
  BY <1>6 DEF Init, RunInv, ExclusiveInv, Open, Active
<1>9. ServiceInv
  BY <1>2, <1>5, <1>6, PlanFacts DEF ServiceInv
<1> QED
  BY <1>3, <1>4, <1>5, <1>7, <1>8, <1>9 DEF Inv

LEMMA StutterKeeps ==
  ASSUME Inv, UNCHANGED vars PROVE Inv'
<1>1. UNCHANGED <<runs, tasks, worker, cancelled, canceller, agents, services, restarts>>
  BY DEF vars
<1>2. TasksTypeOK' /\ RowInv' /\ RowsKept
  BY <1>1, TasksKept DEF Inv, TypeOK
<1>3. TypeOK'
  BY <1>1, <1>2 DEF Inv, TypeOK
<1>4. OrderInv' /\ AgentInv' /\ WorkerInv'
  BY <1>1, <1>2, OrderKept, AgentsStay, WorkersStay DEF Inv, TypeOK
<1>5. \A r \in Runs : Live(r)' <=> Live(r)
  BY <1>1 DEF Live
<1>6. RunInv'
  BY <1>1, <1>2, <1>5, RunsKept DEF Inv
<1>7. ExclusiveInv' /\ \A r \in Runs : Occupies(r)' => Occupies(r)
  BY <1>2, <1>5, ExclusiveKept DEF Inv, TypeOK
<1>8. \A r \in Runs, i \in {1, Last} : Claimed(r, i)' = Claimed(r, i) /\ Status(r, i)' = Status(r, i)
  BY <1>1 DEF Claimed, Status
<1>9. ServiceInv'
  BY <1>1, <1>2, <1>7, <1>8, ServiceKept DEF Inv
<1> QED
  BY <1>2, <1>3, <1>4, <1>6, <1>7, <1>9 DEF Inv

LEMMA NextKeeps ==
  ASSUME Inv, [Next]_vars PROVE Inv'
<1>1. ASSUME NEW r \in Runs, WorkerMoves(r) PROVE Inv'
  BY <1>1, RegisterKeeps, BeginKeeps, ReportKeeps, CreateTaskKeeps, AwaitedKeeps, FailuresKeep,
     UnwindKeeps, ClosedKeeps, SweepKeeps, SettleKeeps DEF WorkerMoves
<1>2. ASSUME NEW r \in Runs,
             Submit(r) \/ StopTimedOut(r) \/ CancelCheck(r) \/ CancelMoves(r) \/ ServiceExpires(r)
      PROVE  Inv'
  BY <1>2, SubmitKeeps, FailuresKeep, CancelKeeps, ServiceExpiresKeeps
<1>3. ASSUME NEW a \in Agents, TaskEnds(a) PROVE Inv'
  BY <1>3, StartServiceKeeps, TargetTaskKeeps, RunClientKeeps, GivingUpKeeps DEF TaskEnds
<1>4. ASSUME NEW a \in Agents,
             \/ \E t \in TaskIds : Claim(a, t)
             \/ ControlRefuses(a) \/ PostResult(a) \/ PostResultUnanswered(a) \/ AgentCrash(a)
      PROVE  Inv'
  BY <1>4, ClaimKeeps, GivingUpKeeps, PostKeeps, AgentCrashKeeps
<1>5. CASE ControllerRestart
  BY <1>5, RestartKeeps
<1>6. CASE UNCHANGED vars
  BY <1>6, StutterKeeps
<1> QED
  BY <1>1, <1>2, <1>3, <1>4, <1>5, <1>6 DEF Next

\* The table, the executors, the Agents and the services fit together in every
\* state, for every plan of the four executors.
THEOREM Invariant == Spec => []Inv
BY InitInv, NextKeeps, PTL DEF Spec

\* Every variable keeps to its type.
THEOREM TypeCorrect == Spec => []TypeOK
<1>1. Inv => TypeOK
  BY DEF Inv
<1> QED
  BY <1>1, Invariant, PTL

\* No stored result was measured on another Run's service: such a client's row
\* was closed by a restart before the other service could come up.
THEOREM OwnServiceMeasured == Spec => []MeasuredOwnService
<1>1. Inv => MeasuredOwnService
  BY DEF Inv, RowInv, MeasuredOwnService
<1> QED
  BY <1>1, Invariant, PTL

\* Once its stop task has completed a service stays down: the start task was
\* claimed before it and the Target executes one task at a time.
THEOREM StoppedForGood == Spec => []StoppedStaysStopped
<1>1. Inv => StoppedStaysStopped
  BY DEF Inv, ServiceInv, StoppedStaysStopped, Status
<1> QED
  BY <1>1, Invariant, PTL

\* A completed Run has had its stop task completed and left no service.
THEOREM NothingLeft == Spec => []CompletedRunLeftNothing
<1>1. Inv => CompletedRunLeftNothing
  BY DEF Inv, RunInv, ServiceInv, CompletedRunLeftNothing, Status
<1> QED
  BY <1>1, Invariant, PTL

\* Every executor that created its start task has scheduled the cleanup that
\* was due, in order, by the time its Run is swept.
THEOREM CleanupIsScheduled == Spec => []CleanupScheduled
<1>1. ASSUME Inv, NEW r \in Runs, worker[r].pc \in Finishing, worker[r].outcome # "none",
             Created(r, 1)
      PROVE  /\ Created(r, Last)
             /\ \A i \in 1..Last : Plan[i] = "cleanup" /\ worker[r].prepared =>
                  Created(r, i) /\ tasks[<<r, i>>].created < tasks[<<r, Last>>].created
  <2>1. Created(r, Last)
    BY <1>1, Standing DEF WorkerSound, Scheduled
  <2>2. ASSUME NEW i \in 1..Last, Plan[i] = "cleanup", worker[r].prepared
        PROVE  Created(r, i) /\ tasks[<<r, i>>].created < tasks[<<r, Last>>].created
    <3>1. Created(r, i) /\ i < Last
      BY <1>1, <2>1, <2>2, Standing, PlanFacts DEF WorkerSound, Scheduled
    <3> QED
      BY <1>1, <2>1, <3>1, PlanFacts DEF Inv, OrderInv
  <2> QED
    BY <2>1, <2>2
<1>2. Inv => CleanupScheduled
  BY <1>1 DEF CleanupScheduled, Finishing
<1> QED
  BY <1>2, Invariant, PTL

=============================================================================

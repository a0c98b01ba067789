------------------------- MODULE NetworkSuiteProofs -------------------------
(***************************************************************************)
(* Proofs about NetworkSuite, for every profile and any number of Runs,    *)
(* ports and restarts: its safety properties follow from one invariant.    *)
(***************************************************************************)
EXTENDS NetworkSuite, FiniteSetTheorems, SequenceTheorems, TLAPS

Status(r, i) == tasks[<<r, i>>].status
Created(r, i) == Status(r, i) # "absent"
Doer(t) == StepOf(t).agent

\* A row of the task table belongs to its step; what is claimed, closed and
\* measured fits together.
RowSound(t) ==
  /\ tasks[t].status = "queued" => ~tasks[t].claimed
  /\ tasks[t].status \in {"running", "completed"} => tasks[t].claimed
  /\ tasks[t].claimed => tasks[t].status \notin {"absent", "queued"}
  /\ tasks[t].status # "absent" => tasks[t].run = t[1] /\ tasks[t].agent = Doer(t)
  /\ tasks[t].result # 0 <=> tasks[t].status = "completed"

RowInv == \A t \in TaskIds : RowSound(t)

\* Rows are created in the order of the steps, each after the last completed.
ChainInv ==
  \A r \in Runs : \A i, j \in 1..Last :
    i < j /\ Created(r, j) => Status(r, i) = "completed"

Advancing == {"none", "created", "reporting", "creating", "waiting", "completing"}
Finishing == {"sweeping", "settling", "gone"}

\* Where run_network of Run r stands, w, and the rows it has created.
WorkerSound(r, w) ==
  /\ w.pc \in {"none", "created"} => w.step = 1
  /\ w.pc \in {"creating", "waiting"} => w.step <= Last
  /\ w.pc \in {"sweeping", "settling"} => w.outcome # "none"
  /\ w.pc \in Advancing => w.outcome = "none"
  /\ w.pc \in Advancing => \A i \in 1..Last :
       /\ Created(r, i) <=> i < w.step \/ (i = w.step /\ w.pc = "waiting")
       /\ i < w.step => Status(r, i) = "completed"
  /\ w.outcome = "completed" => \A i \in 1..Last : Status(r, i) = "completed"

WorkerInv == \A r \in Runs : WorkerSound(r, worker[r])

RunInv ==
  \A r \in Runs : runs[r].status = "completed" => \A i \in 1..Last : Status(r, i) = "completed"

-----------------------------------------------------------------------------
(* The Agents and their servers.                                            *)

Busy(t) == agents[Doer(t)].mode = "busy" /\ agents[Doer(t)].task = t

\* The execution of t is over, if its claim was ever answered.
Past(t) == tasks[t].claimed /\ ~Busy(t)

\* Task t ended well and returned evidence e, which may still be on its way.
Posted(t, e) ==
  LET g == agents[Doer(t)] IN
  g.mode = "posting" /\ g.task = t /\ g.status = "completed" /\ g.result = e

Done(t, e) == Posted(t, e) \/ (tasks[t].status = "completed" /\ tasks[t].result = e)

\* An Agent works on a row it has claimed, and only a client has a peer.
AgentSound(a) ==
  /\ agents[a].mode \in {"busy", "posting"} =>
       /\ agents[a].task \in TaskIds /\ Doer(agents[a].task) = a
       /\ tasks[agents[a].task].claimed
       /\ agents[a].mode = "busy" => tasks[agents[a].task].status # "completed"
       /\ agents[a].mode = "posting" =>
            /\ agents[a].status \in {"completed", "failed"}
            /\ agents[a].result # 0 <=> agents[a].status = "completed"
  /\ agents[a].peer # NoTask =>
       agents[a].mode = "busy" /\ StepOf(agents[a].task).kind = "client"

AgentInv == \A a \in Agents : AgentSound(a)

\* A server comes from a start task that is over, and remembers as its client a
\* client task that is over.
ServerSound(u) ==
  /\ servers[u].state # "none" \/ u \in tracked => StepOf(u).kind = "server-start" /\ Past(u)
  /\ servers[u].state = "served" <=> servers[u].client # NoTask
  /\ servers[u].client # NoTask =>
       /\ servers[u].client \in TaskIds
       /\ StepOf(servers[u].client).kind = "client" /\ Past(servers[u].client)

ServerInv == \A u \in TaskIds : ServerSound(u)

PortInv ==
  \A u, v \in TaskIds :
    Live(u) /\ Live(v) /\ Doer(u) = Doer(v) /\ StepOf(u).port = StepOf(v).port => u = v

Clients == {c \in TaskIds : StepOf(c).kind = "client"}
Collection(c) == <<c[1], c[2] + 1>>

\* What a client and a collection return agrees with what their server has seen.
ClientSound(c) ==
  LET u == ServerFor(c) IN
  /\ Done(c, Own) => servers[u].state = "none" \/ servers[u].client = c
  /\ servers[u].client = c => ~Done(c, Foreign)
  /\ \A e \in {Own, Foreign} : Done(Collection(c), e) =>
       /\ tasks[c].status = "completed" /\ tasks[c].result = e
       /\ servers[u].state = "none" /\ u \notin tracked

MeasurementInv == \A c \in Clients : ClientSound(c)

\* Client c talks, or has talked, to a server other than its own.
Strays(c) ==
  \/ Busy(c) /\ agents[Doer(c)].peer \notin {NoTask, ServerFor(c)}
  \/ Done(c, Foreign)
  \/ \E u \in TaskIds : u # ServerFor(c) /\ servers[u].client = c

\* No two Runs can have been all there was.
AmongTwo == \E p, q \in Runs : Admitted \subseteq {p, q}

\* Among two Runs a client strays only when its own server has failed or gone,
\* and then the measurement is never collected.
CrossInv ==
  AmongTwo => \A c \in Clients : Strays(c) =>
    /\ servers[ServerFor(c)].state \in {"none", "failed"}
    /\ \A e \in {Own, Foreign} : ~Done(Collection(c), e)

HostInv == AgentInv /\ ServerInv /\ PortInv /\ MeasurementInv /\ CrossInv

Inv == TypeOK /\ RowInv /\ ChainInv /\ WorkerInv /\ RunInv /\ HostInv

-----------------------------------------------------------------------------
(* The steps of a Run.                                                      *)

Kinds == {"probe", "server-start", "client", "server-collect"}
StepRecord == [kind : Kinds, agent : Agents, port : Nat]

\* Start, client and collection of a measurement follow each other.
WellFormed(s) ==
  /\ s \in Seq(StepRecord)
  /\ \A i \in 1..Len(s) :
       /\ s[i].kind = "server-start" =>
            /\ i + 2 <= Len(s)
            /\ s[i + 1].kind = "client" /\ s[i + 2].kind = "server-collect"
            /\ s[i + 1].agent # s[i].agent /\ s[i + 2].agent = s[i].agent
            /\ s[i + 1].port = s[i].port
       /\ s[i].kind = "client" => i > 1 /\ s[i - 1].kind = "server-start"
       /\ s[i].kind = "server-collect" => i > 2 /\ s[i - 2].kind = "server-start"

LEMMA ConcatWellFormed ==
  ASSUME NEW s, NEW t, WellFormed(s), WellFormed(t)
  PROVE  WellFormed(s \o t)
<1> DEFINE st == s \o t
<1>1. /\ s \in Seq(StepRecord) /\ t \in Seq(StepRecord) /\ st \in Seq(StepRecord)
      /\ Len(s) \in Nat /\ Len(t) \in Nat /\ Len(st) = Len(s) + Len(t)
      /\ \A i \in 1..Len(s) : st[i] = s[i]
      /\ \A i \in 1..Len(t) : st[Len(s) + i] = t[i]
  BY DEF WellFormed
<1> HIDE DEF st
<1>2. ASSUME NEW i \in 1..Len(st)
      PROVE  /\ st[i].kind = "server-start" =>
                  /\ i + 2 <= Len(st)
                  /\ st[i + 1].kind = "client" /\ st[i + 2].kind = "server-collect"
                  /\ st[i + 1].agent # st[i].agent /\ st[i + 2].agent = st[i].agent
                  /\ st[i + 1].port = st[i].port
             /\ st[i].kind = "client" => i > 1 /\ st[i - 1].kind = "server-start"
             /\ st[i].kind = "server-collect" => i > 2 /\ st[i - 2].kind = "server-start"
  <2>1. CASE i <= Len(s)
    <3>1. i \in 1..Len(s) /\ st[i] = s[i]
      BY <1>1, <2>1
    <3>2. ASSUME st[i].kind = "server-start"
          PROVE  /\ i + 2 <= Len(st) /\ st[i + 1] = s[i + 1] /\ st[i + 2] = s[i + 2]
      BY <1>1, <3>1, <3>2 DEF WellFormed
    <3>3. ASSUME st[i].kind = "client" PROVE i > 1 /\ st[i - 1] = s[i - 1]
      BY <1>1, <3>1, <3>3 DEF WellFormed
    <3>4. ASSUME st[i].kind = "server-collect" PROVE i > 2 /\ st[i - 2] = s[i - 2]
      <4>1. i > 2
        BY <3>1, <3>4 DEF WellFormed
      <4>2. i - 2 \in 1..Len(s)
        BY <1>1, <3>1, <4>1
      <4> QED
        BY <1>1, <4>1, <4>2
    <3> QED
      BY <3>1, <3>2, <3>3, <3>4 DEF WellFormed
  <2>2. CASE i > Len(s)
    <3> DEFINE k == i - Len(s)
    <3>1. k \in 1..Len(t) /\ i = Len(s) + k /\ st[i] = t[k]
      <4>1. k \in 1..Len(t) /\ i = Len(s) + k
        BY <1>1, <2>2
      <4> HIDE DEF k
      <4> QED
        BY <1>1, <4>1
    <3> HIDE DEF k
    <3>2. ASSUME st[i].kind = "server-start"
          PROVE  /\ i + 2 <= Len(st) /\ st[i + 1] = t[k + 1] /\ st[i + 2] = t[k + 2]
      <4>1. k + 2 <= Len(t)
        BY <3>1, <3>2 DEF WellFormed
      <4>2. k + 1 \in 1..Len(t) /\ k + 2 \in 1..Len(t)
        BY <1>1, <3>1, <4>1
      <4>3. Len(s) + (k + 1) = i + 1 /\ Len(s) + (k + 2) = i + 2 /\ i + 2 <= Len(st)
        BY <1>1, <3>1, <4>1
      <4>4. st[Len(s) + (k + 1)] = t[k + 1] /\ st[Len(s) + (k + 2)] = t[k + 2]
        BY <1>1, <4>2
      <4> QED
        BY <4>3, <4>4
    <3>3. ASSUME st[i].kind = "client" PROVE i > 1 /\ st[i - 1] = t[k - 1]
      <4>1. k > 1
        BY <3>1, <3>3 DEF WellFormed
      <4>2. k - 1 \in 1..Len(t) /\ Len(s) + (k - 1) = i - 1 /\ i > 1
        BY <1>1, <3>1, <4>1
      <4>3. st[Len(s) + (k - 1)] = t[k - 1]
        BY <1>1, <4>2
      <4> QED
        BY <4>2, <4>3
    <3>4. ASSUME st[i].kind = "server-collect" PROVE i > 2 /\ st[i - 2] = t[k - 2]
      <4>1. k > 2
        BY <3>1, <3>4 DEF WellFormed
      <4>2. k - 2 \in 1..Len(t) /\ Len(s) + (k - 2) = i - 2 /\ i > 2
        BY <1>1, <3>1, <4>1
      <4>3. st[Len(s) + (k - 2)] = t[k - 2]
        BY <1>1, <4>2
      <4> QED
        BY <4>2, <4>3
    <3>5. st[i].kind = "server-start" =>
            /\ i + 2 <= Len(st)
            /\ st[i + 1].kind = "client" /\ st[i + 2].kind = "server-collect"
            /\ st[i + 1].agent # st[i].agent /\ st[i + 2].agent = st[i].agent
            /\ st[i + 1].port = st[i].port
      BY <3>1, <3>2 DEF WellFormed
    <3>6. st[i].kind = "client" => i > 1 /\ st[i - 1].kind = "server-start"
      BY <3>1, <3>3 DEF WellFormed
    <3>7. st[i].kind = "server-collect" => i > 2 /\ st[i - 2].kind = "server-start"
      BY <3>1, <3>4 DEF WellFormed
    <3> QED
      BY <3>5, <3>6, <3>7
  <2> QED
    BY <1>1, <2>1, <2>2
<1> QED
  BY <1>1, <1>2 DEF WellFormed, st

LEMMA DirectionFacts ==
  /\ Ways \in Nat /\ Ways >= 1
  /\ \A d \in 1..Ways : /\ Directions[d].sender \in Agents /\ Directions[d].receiver \in Agents
                        /\ Directions[d].sender # Directions[d].receiver
<1> DEFINE way == [sender : Agents, receiver : Agents]
<1>1. Directions \in Seq(way) /\ Directions # <<>>
  BY NetworkAssumption DEF Agents
<1> HIDE DEF way
<1>2. Ways \in Nat /\ Ways # 0
  BY <1>1, EmptySeq DEF Ways
<1>3. \A d \in 1..Ways : Directions[d] \in way
  BY <1>1 DEF Ways
<1>4. \A d \in 1..Ways : Directions[d].sender # Directions[d].receiver
  BY NetworkAssumption DEF Ways
<1> QED
  BY <1>2, <1>3, <1>4 DEF way

LEMMA EmptyWellFormed == WellFormed(<<>>)
BY DEF WellFormed

LEMMA ProbesWellFormed ==
  ASSUME NEW on PROVE WellFormed(Probes(on))
<1>1. CASE on
  <2> DEFINE s == [d \in 1..Ways |-> Step("probe", Directions[d].sender, 0)]
  <2>1. \A d \in 1..Ways : /\ Step("probe", Directions[d].sender, 0) \in StepRecord
                           /\ Step("probe", Directions[d].sender, 0).kind = "probe"
    BY DirectionFacts DEF Step, StepRecord, Kinds
  <2>2. s \in Seq(StepRecord) /\ Len(s) = Ways /\ \A d \in 1..Ways : s[d].kind = "probe"
    BY <2>1, DirectionFacts
  <2>3. Probes(on) = s
    BY <1>1 DEF Probes
  <2> HIDE DEF s
  <2> QED
    BY <2>2, <2>3 DEF WellFormed
<1>2. CASE ~on
  BY <1>2, EmptyWellFormed DEF Probes
<1> QED
  BY <1>1, <1>2

LEMMA MeasurementFacts ==
  ASSUME NEW k \in 1..Ways, NEW index \in Nat
  PROVE  LET m == Measurement(Directions[k], index) IN
         /\ m \in Seq(StepRecord) /\ Len(m) = 3
         /\ m[1] \in StepRecord /\ m[2] \in StepRecord /\ m[3] \in StepRecord
         /\ m[1].kind = "server-start" /\ m[2].kind = "client" /\ m[3].kind = "server-collect"
         /\ m[2].agent # m[1].agent /\ m[3].agent = m[1].agent /\ m[2].port = m[1].port
<1> DEFINE d == Directions[k]
           port == index % PortCount
           m1 == Step("server-start", d.receiver, port)
           m2 == Step("client", d.sender, port)
           m3 == Step("server-collect", d.receiver, port)
<1>1. port \in Nat
  BY NetworkAssumption
<1>2. d.sender \in Agents /\ d.receiver \in Agents /\ d.sender # d.receiver
  BY DirectionFacts
<1>3. Measurement(Directions[k], index) = <<m1, m2, m3>>
  BY DEF Measurement
<1> HIDE DEF port, d
<1>4. m1 \in StepRecord /\ m2 \in StepRecord /\ m3 \in StepRecord
  BY <1>1, <1>2 DEF Step, StepRecord, Kinds
<1>5. /\ m1.kind = "server-start" /\ m2.kind = "client" /\ m3.kind = "server-collect"
      /\ m2.agent # m1.agent /\ m3.agent = m1.agent /\ m2.port = m1.port
  BY <1>2 DEF Step
<1> HIDE DEF m1, m2, m3
<1> QED
  BY <1>3, <1>4, <1>5

LEMMA EachWayWellFormed ==
  ASSUME NEW n \in Nat, NEW index \in Nat
  PROVE  WellFormed(EachWay(n, index))
<1> DEFINE size == n * Ways
           s == EachWay(n, index)
           m(k) == Measurement(Directions[(k \div n) + 1], index + k)
<1>1. size \in Nat /\ 3 * n * Ways = 3 * size
  BY DirectionFacts
<1>2. ASSUME NEW k \in 0..(size - 1)
      PROVE  (k \div n) + 1 \in 1..Ways /\ index + k \in Nat
  <2>1. n > 0
    BY <1>2, DirectionFacts
  <2>2. k \div n \in Nat /\ n * (k \div n) <= k
    BY <1>1, <1>2, <2>1
  <2>3. ASSUME k \div n >= Ways PROVE FALSE
    BY <1>1, <1>2, <2>1, <2>2, <2>3, DirectionFacts
  <2> QED
    BY <1>1, <1>2, <2>2, <2>3, DirectionFacts
<1>3. \A k \in 0..(size - 1) :
        /\ m(k)[1] \in StepRecord /\ m(k)[2] \in StepRecord /\ m(k)[3] \in StepRecord
        /\ m(k)[1].kind = "server-start" /\ m(k)[2].kind = "client"
        /\ m(k)[3].kind = "server-collect"
        /\ m(k)[2].agent # m(k)[1].agent /\ m(k)[3].agent = m(k)[1].agent
        /\ m(k)[2].port = m(k)[1].port
  BY <1>2, MeasurementFacts
<1>4. s = [i \in 1..(3 * size) |-> m((i - 1) \div 3)[((i - 1) % 3) + 1]]
  BY <1>1 DEF EachWay
<1> HIDE DEF s, m, size
<1>5. \A i \in 1..(3 * size) : \E k \in 0..(size - 1), j \in 1..3 : i = 3 * k + j /\ s[i] = m(k)[j]
  <2> TAKE i \in 1..(3 * size)
  <2> DEFINE k == (i - 1) \div 3
             j == ((i - 1) % 3) + 1
  <2>1. k \in 0..(size - 1) /\ j \in 1..3 /\ i = 3 * k + j
    BY <1>1
  <2>2. s[i] = m(k)[j]
    BY <1>4
  <2> QED
    BY <2>1, <2>2
<1>6. \A k \in 0..(size - 1), j \in 1..3 : 3 * k + j \in 1..(3 * size) /\ s[3 * k + j] = m(k)[j]
  <2> TAKE k \in 0..(size - 1), j \in 1..3
  <2>1. /\ 3 * k + j \in 1..(3 * size)
        /\ ((3 * k + j) - 1) \div 3 = k /\ (((3 * k + j) - 1) % 3) + 1 = j
    BY <1>1
  <2> QED
    BY <1>4, <2>1
<1>7. \A i \in 1..(3 * size) : s[i] \in StepRecord
  BY <1>3, <1>5
<1>8. s \in Seq(StepRecord) /\ Len(s) = 3 * size
  BY <1>1, <1>4, <1>7
<1>9. ASSUME NEW i \in 1..Len(s)
      PROVE  /\ s[i].kind = "server-start" =>
                  /\ i + 2 <= Len(s)
                  /\ s[i + 1].kind = "client" /\ s[i + 2].kind = "server-collect"
                  /\ s[i + 1].agent # s[i].agent /\ s[i + 2].agent = s[i].agent
                  /\ s[i + 1].port = s[i].port
             /\ s[i].kind = "client" => i > 1 /\ s[i - 1].kind = "server-start"
             /\ s[i].kind = "server-collect" => i > 2 /\ s[i - 2].kind = "server-start"
  <2>1. PICK k \in 0..(size - 1), j \in 1..3 : i = 3 * k + j /\ s[i] = m(k)[j]
    BY <1>5, <1>8
  <2>2. s[3 * k + 1] = m(k)[1] /\ s[3 * k + 2] = m(k)[2] /\ s[3 * k + 3] = m(k)[3]
        /\ 3 * k + 3 <= Len(s)
    BY <1>1, <1>6, <1>8
  <2>3. CASE j = 1
    <3>1. i = 3 * k + 1 /\ i + 1 = 3 * k + 2 /\ i + 2 = 3 * k + 3
      BY <2>1, <2>3
    <3> QED
      BY <1>3, <2>2, <3>1
  <2>4. CASE j = 2
    <3>1. i = 3 * k + 2 /\ i - 1 = 3 * k + 1 /\ i > 1
      BY <2>1, <2>4
    <3> QED
      BY <1>3, <2>2, <3>1
  <2>5. CASE j = 3
    <3>1. i = 3 * k + 3 /\ i - 2 = 3 * k + 1 /\ i > 2
      BY <2>1, <2>5
    <3> QED
      BY <1>3, <2>2, <3>1
  <2> QED
    BY <2>1, <2>3, <2>4, <2>5
<1> QED
  BY <1>8, <1>9 DEF WellFormed, s

LEMMA OneMeasurementWellFormed ==
  ASSUME NEW index \in Nat PROVE WellFormed(Measurement(Directions[1], index))
<1> DEFINE m == Measurement(Directions[1], index)
<1>1. /\ m \in Seq(StepRecord) /\ Len(m) = 3
      /\ m[1].kind = "server-start" /\ m[2].kind = "client" /\ m[3].kind = "server-collect"
      /\ m[2].agent # m[1].agent /\ m[3].agent = m[1].agent /\ m[2].port = m[1].port
  BY DirectionFacts, MeasurementFacts
<1> HIDE DEF m
<1>2. \A i \in 1..3 : i = 1 \/ i = 2 \/ i = 3
  OBVIOUS
<1>3. WellFormed(m)
  BY <1>1, <1>2 DEF WellFormed
<1> QED
  BY <1>3 DEF m

LEMMA StepsWellFormed == WellFormed(Steps)
<1> DEFINE tcp == Profile.streams
           udp == Profile.rates
           both == IF Profile.bidirectional
                   THEN Measurement(Directions[1], Ways * (tcp + udp)) ELSE <<>>
<1>1. tcp \in Nat /\ udp \in Nat /\ Ways * tcp \in Nat /\ Ways * (tcp + udp) \in Nat
  BY NetworkAssumption, DirectionFacts
<1>2. WellFormed(both)
  BY <1>1, OneMeasurementWellFormed, EmptyWellFormed
<1>3. WellFormed(EachWay(tcp, 0)) /\ WellFormed(EachWay(udp, Ways * tcp))
  BY <1>1, EachWayWellFormed
<1>4. Steps = Probes(Profile.path) \o Probes(Profile.latency) \o EachWay(tcp, 0)
                \o EachWay(udp, Ways * tcp) \o both \o Probes(Profile.post)
  BY DEF Steps
<1> HIDE DEF tcp, udp, both
<1>5. WellFormed(Probes(Profile.path) \o Probes(Profile.latency))
  BY ProbesWellFormed, ConcatWellFormed
<1>6. WellFormed(Probes(Profile.path) \o Probes(Profile.latency) \o EachWay(tcp, 0))
  BY <1>3, <1>5, ConcatWellFormed
<1>7. WellFormed(Probes(Profile.path) \o Probes(Profile.latency) \o EachWay(tcp, 0)
                   \o EachWay(udp, Ways * tcp))
  BY <1>3, <1>6, ConcatWellFormed
<1>8. WellFormed(Probes(Profile.path) \o Probes(Profile.latency) \o EachWay(tcp, 0)
                   \o EachWay(udp, Ways * tcp) \o both)
  BY <1>2, <1>7, ConcatWellFormed
<1> QED
  BY <1>4, <1>8, ProbesWellFormed, ConcatWellFormed

LEMMA StepFacts ==
  /\ Last \in Nat
  /\ \A i \in 1..Last :
       /\ Steps[i] \in StepRecord
       /\ Steps[i].kind = "server-start" =>
            i + 1 \in 1..Last /\ i + 2 \in 1..Last /\ Steps[i + 1].kind = "client"
       /\ Steps[i].kind = "client" =>
            /\ i - 1 \in 1..Last /\ i + 1 \in 1..Last
            /\ Steps[i - 1].kind = "server-start" /\ Steps[i + 1].kind = "server-collect"
            /\ Steps[i - 1].agent # Steps[i].agent /\ Steps[i + 1].agent = Steps[i - 1].agent
            /\ Steps[i - 1].port = Steps[i].port
       /\ Steps[i].kind = "server-collect" =>
            i - 1 \in 1..Last /\ i - 2 \in 1..Last /\ Steps[i - 1].kind = "client"
<1> DEFINE s == Steps
<1>1. WellFormed(s)
  BY StepsWellFormed
<1>2. s \in Seq(StepRecord) /\ Len(s) \in Nat /\ \A i \in 1..Len(s) : s[i] \in StepRecord
  BY <1>1 DEF WellFormed
<1>3. Last = Len(s)
  BY DEF Last
<1> HIDE DEF s
<1>4. ASSUME NEW i \in 1..Len(s), s[i].kind = "server-start"
      PROVE  i + 1 \in 1..Len(s) /\ i + 2 \in 1..Len(s) /\ s[i + 1].kind = "client"
  <2>1. i + 2 <= Len(s) /\ s[i + 1].kind = "client"
    BY <1>1, <1>4 DEF WellFormed
  <2> QED
    BY <1>2, <2>1
<1>5. ASSUME NEW i \in 1..Len(s), s[i].kind = "client"
      PROVE  /\ i - 1 \in 1..Len(s) /\ i + 1 \in 1..Len(s)
             /\ s[i - 1].kind = "server-start" /\ s[i + 1].kind = "server-collect"
             /\ s[i - 1].agent # s[i].agent /\ s[i + 1].agent = s[i - 1].agent
             /\ s[i - 1].port = s[i].port
  <2> DEFINE k == i - 1
  <2>1. k \in 1..Len(s) /\ s[k].kind = "server-start" /\ k + 1 = i /\ k + 2 = i + 1
    BY <1>1, <1>2, <1>5 DEF WellFormed
  <2> HIDE DEF k
  <2>2. /\ k + 2 <= Len(s) /\ s[k + 2].kind = "server-collect"
        /\ s[k + 1].agent # s[k].agent /\ s[k + 2].agent = s[k].agent
        /\ s[k + 1].port = s[k].port
    BY <1>1, <2>1 DEF WellFormed
  <2> QED
    BY <1>2, <2>1, <2>2 DEF k
<1>6. ASSUME NEW i \in 1..Len(s), s[i].kind = "server-collect"
      PROVE  i - 1 \in 1..Len(s) /\ i - 2 \in 1..Len(s) /\ s[i - 1].kind = "client"
  <2> DEFINE k == i - 2
  <2>0. i > 2 /\ s[i - 2].kind = "server-start"
    BY <1>1, <1>6 DEF WellFormed
  <2>1. k \in 1..Len(s) /\ s[k].kind = "server-start" /\ k + 1 = i - 1
    BY <1>2, <2>0
  <2> HIDE DEF k
  <2>2. k + 2 <= Len(s) /\ s[k + 1].kind = "client"
    BY <1>1, <2>1 DEF WellFormed
  <2> QED
    BY <1>2, <2>1, <2>2 DEF k
<1> QED
  BY <1>2, <1>3, <1>4, <1>5, <1>6 DEF s

LEMMA TaskIdFacts ==
  /\ \A r \in Runs, i \in 1..Last : <<r, i>> \in TaskIds
  /\ \A t \in TaskIds : /\ t[1] \in Runs /\ t[2] \in 1..Last /\ t = <<t[1], t[2]>>
                        /\ StepOf(t) \in StepRecord /\ Doer(t) \in Agents
  /\ NoTask \notin TaskIds
<1>1. \A t \in TaskIds : t[1] \in Runs /\ t[2] \in 1..Last /\ t = <<t[1], t[2]>>
  BY DEF TaskIds
<1>2. \A t \in TaskIds : StepOf(t) \in StepRecord
  BY <1>1, StepFacts DEF StepOf
<1>3. \A t \in TaskIds : Doer(t) \in Agents
  BY <1>2 DEF Doer, StepRecord
<1>4. NoTask \notin TaskIds
  BY NetworkAssumption DEF TaskIds, NoTask
<1> QED
  BY <1>1, <1>2, <1>3, <1>4 DEF TaskIds

\* The three tasks of a measurement, seen from its client.
LEMMA ClientFacts ==
  ASSUME NEW c \in Clients
  PROVE  /\ c \in TaskIds /\ ServerFor(c) \in TaskIds /\ Collection(c) \in TaskIds
         /\ StepOf(ServerFor(c)).kind = "server-start" /\ StepOf(c).kind = "client"
         /\ StepOf(Collection(c)).kind = "server-collect"
         /\ Doer(ServerFor(c)) # Doer(c) /\ Doer(Collection(c)) = Doer(ServerFor(c))
         /\ StepOf(ServerFor(c)).port = StepOf(c).port
         /\ ServerFor(Collection(c)) = ServerFor(c) /\ ClientFor(Collection(c)) = c
         /\ ServerFor(c) = <<c[1], c[2] - 1>> /\ Collection(c) = <<c[1], c[2] + 1>>
         /\ c = <<c[1], c[2]>> /\ c[1] \in Runs
         /\ c[2] \in 1..Last /\ c[2] - 1 \in 1..Last /\ c[2] + 1 \in 1..Last
<1> DEFINE r == c[1]
           i == c[2]
<1>1. c \in TaskIds /\ r \in Runs /\ i \in 1..Last /\ c = <<r, i>> /\ Steps[i].kind = "client"
  BY TaskIdFacts DEF Clients, StepOf
<1>2. /\ i - 1 \in 1..Last /\ i + 1 \in 1..Last
      /\ Steps[i - 1].kind = "server-start" /\ Steps[i + 1].kind = "server-collect"
      /\ Steps[i - 1].agent # Steps[i].agent /\ Steps[i + 1].agent = Steps[i - 1].agent
      /\ Steps[i - 1].port = Steps[i].port
  BY <1>1, StepFacts
<1>3. ServerFor(c) = <<r, i - 1>> /\ Collection(c) = <<r, i + 1>>
  BY <1>1 DEF ServerFor, Collection, StepOf
<1>4. ServerFor(Collection(c)) = <<r, i - 1>> /\ ClientFor(Collection(c)) = <<r, i>>
  <2>1. StepOf(Collection(c)).kind # "client"
    BY <1>2, <1>3 DEF StepOf
  <2>2. (i + 1) - 2 = i - 1 /\ (i + 1) - 1 = i
    BY <1>1, StepFacts
  <2> QED
    BY <1>3, <2>1, <2>2 DEF ServerFor, ClientFor
<1>5. <<r, i - 1>> \in TaskIds /\ <<r, i + 1>> \in TaskIds
  BY <1>1, <1>2, TaskIdFacts
<1> QED
  BY <1>1, <1>2, <1>3, <1>4, <1>5 DEF StepOf, Doer

\* No two measurements share a server or a collection.
LEMMA ClientsApart ==
  ASSUME NEW c \in Clients, NEW d \in Clients, c # d
  PROVE  ServerFor(c) # ServerFor(d) /\ Collection(c) # Collection(d)
<1>1. /\ ServerFor(c) = <<c[1], c[2] - 1>> /\ Collection(c) = <<c[1], c[2] + 1>>
      /\ ServerFor(d) = <<d[1], d[2] - 1>> /\ Collection(d) = <<d[1], d[2] + 1>>
      /\ c = <<c[1], c[2]>> /\ d = <<d[1], d[2]>> /\ c[2] \in 1..Last /\ d[2] \in 1..Last
  BY ClientFacts
<1>2. c[1] # d[1] \/ c[2] # d[2]
  BY <1>1
<1>3. c[2] # d[2] => c[2] - 1 # d[2] - 1 /\ c[2] + 1 # d[2] + 1
  BY <1>1, StepFacts
<1> QED
  BY <1>1, <1>2, <1>3

LEMMA MeasurementTasks ==
  ASSUME NEW t \in TaskIds
  PROVE  /\ StepOf(t).kind = "client" <=> t \in Clients
         /\ StepOf(t).kind = "server-collect" => ClientFor(t) \in Clients /\ t = Collection(ClientFor(t))
         /\ StepOf(t).kind = "server-start" => \E c \in Clients : t = ServerFor(c)
<1> DEFINE r == t[1]
           i == t[2]
<1>1. r \in Runs /\ i \in 1..Last /\ t = <<r, i>> /\ i \in Int
  BY TaskIdFacts, StepFacts
<1>2. StepOf(t).kind = "client" <=> t \in Clients
  BY DEF Clients
<1>3. ASSUME StepOf(t).kind = "server-collect"
      PROVE  ClientFor(t) \in Clients /\ t = Collection(ClientFor(t))
  <2>1. i - 1 \in 1..Last /\ Steps[i - 1].kind = "client"
    BY <1>1, <1>3, StepFacts DEF StepOf
  <2>2. <<r, i - 1>> \in Clients
    BY <1>1, <2>1, TaskIdFacts DEF Clients, StepOf
  <2>3. (i - 1) + 1 = i
    BY <1>1
  <2> QED
    BY <1>1, <2>2, <2>3 DEF ClientFor, Collection
<1>4. ASSUME StepOf(t).kind = "server-start" PROVE \E c \in Clients : t = ServerFor(c)
  <2>1. i + 1 \in 1..Last /\ Steps[i + 1].kind = "client"
    BY <1>1, <1>4, StepFacts DEF StepOf
  <2>2. <<r, i + 1>> \in Clients
    BY <1>1, <2>1, TaskIdFacts DEF Clients, StepOf
  <2>3. (i + 1) - 1 = i
    BY <1>1
  <2>4. ServerFor(<<r, i + 1>>) = <<r, i>>
    BY <2>1, <2>3 DEF ServerFor, StepOf
  <2> QED
    BY <1>1, <2>2, <2>4
<1> QED
  BY <1>2, <1>3, <1>4

LEMMA RowsFinite == IsFiniteSet(Rows) /\ Cardinality(Rows) \in Nat
<1>1. IsFiniteSet(1..Last)
  BY StepFacts, FS_Interval
<1>2. IsFiniteSet(TaskIds)
  BY <1>1, NetworkAssumption, FS_Product DEF TaskIds
<1>3. IsFiniteSet(Rows)
  BY <1>2, FS_Subset DEF Rows
<1> QED
  BY <1>3, FS_CardinalityType

-----------------------------------------------------------------------------
(* The operations of the task table.                                        *)

\* What no operation but the creation of a row does to the table.
RowsKept ==
  \A t \in TaskIds :
    /\ tasks'[t].status = "absent" <=> tasks[t].status = "absent"
    /\ tasks[t].status \in Terminal =>
         tasks'[t].status = tasks[t].status /\ tasks'[t].result = tasks[t].result
    /\ tasks[t].claimed => tasks'[t].claimed

\* A sweep or a recovery claims and completes nothing.
RowsClosed ==
  \A t \in TaskIds :
    /\ tasks'[t].claimed = tasks[t].claimed
    /\ tasks'[t].status = "completed" <=> tasks[t].status = "completed"

LEMMA ClaimEffect ==
  ASSUME TasksTypeOK, RowInv, NEW a \in Agents, NEW t \in TaskIds, ClaimAgentTask(a, t)
  PROVE  /\ TasksTypeOK' /\ RowInv' /\ RowsKept
         /\ tasks[t].status = "queued" /\ Doer(t) = a /\ ~tasks[t].claimed
         /\ tasks'[t].status = "running" /\ tasks'[t].claimed
         /\ \A u \in TaskIds : u # t => tasks'[u] = tasks[u]
<1> DEFINE row == [tasks[t] EXCEPT !.status = "running", !.claimed = TRUE]
<1>1. tasks \in [TaskIds -> Row] /\ tasks[t] \in Row
  BY DEF TasksTypeOK
<1>2. row \in Row /\ row.status = "running" /\ row.claimed = TRUE /\ row.run = tasks[t].run
      /\ row.agent = tasks[t].agent /\ row.result = tasks[t].result
  BY <1>1, Zenon DEF Row, Active
<1>3. tasks' = [tasks EXCEPT ![t] = row]
  BY <1>1 DEF ClaimAgentTask
<1>4. tasks[t].status = "queued" /\ tasks[t].agent = a /\ RowSound(t)
  BY DEF ClaimAgentTask, QueuedFor, RowInv
<1> HIDE DEF row
<1>5. TasksTypeOK' /\ tasks'[t] = row /\ \A u \in TaskIds : u # t => tasks'[u] = tasks[u]
  BY <1>1, <1>2, <1>3 DEF TasksTypeOK
<1>6. RowsKept
  BY <1>2, <1>4, <1>5 DEF RowsKept, Terminal
<1>7. RowSound(t)'
  BY <1>2, <1>4, <1>5 DEF RowSound, Doer, StepOf
<1>8. ASSUME NEW u \in TaskIds PROVE RowSound(u)'
  <2>1. CASE u = t
    BY <1>7, <2>1
  <2>2. CASE u # t
    BY <1>5, <2>2 DEF RowInv, RowSound, Doer, StepOf
  <2> QED
    BY <2>1, <2>2
<1>9. Doer(t) = a /\ ~tasks[t].claimed
  BY <1>4 DEF RowSound
<1> QED
  BY <1>2, <1>4, <1>5, <1>6, <1>8, <1>9 DEF RowInv

LEMMA FinishEffect ==
  ASSUME TasksTypeOK, RowInv, NEW t \in TaskIds, tasks[t].claimed,
         NEW status \in {"completed", "failed"}, NEW result \in Evidence,
         result # 0 <=> status = "completed",
         FinishAgentTask(t, Doer(t), status, result)
  PROVE  /\ TasksTypeOK' /\ RowInv' /\ RowsKept
         /\ tasks'[t].claimed
         /\ tasks'[t].status = "completed" =>
              \/ tasks[t].status = "completed" /\ tasks'[t].result = tasks[t].result
              \/ status = "completed" /\ tasks'[t].result = result
         /\ \A u \in TaskIds : u # t => tasks'[u] = tasks[u]
<1> DEFINE closed == [tasks[t] EXCEPT !.status = status, !.secret = FALSE, !.result = result]
           bare == [tasks[t] EXCEPT !.secret = FALSE]
<1>1. tasks \in [TaskIds -> Row] /\ tasks[t] \in Row /\ RowSound(t)
  BY DEF TasksTypeOK, RowInv
<1>2. /\ tasks[t].status \in Terminal \cup {"running"} /\ tasks[t].agent = Doer(t)
      /\ tasks[t].run = t[1]
  BY <1>1 DEF RowSound, Row, Active
<1>3. CASE tasks[t].status = "running"
  <2>1. Coalesce(result, tasks[t].result) = result
    BY <1>1, <1>3 DEF RowSound, Coalesce
  <2>2. tasks' = [tasks EXCEPT ![t] = closed]
    BY <1>1, <1>2, <1>3, <2>1 DEF FinishAgentTask
  <2>3. closed \in Row /\ closed.status = status /\ closed.claimed = tasks[t].claimed
        /\ closed.run = tasks[t].run /\ closed.agent = tasks[t].agent /\ closed.result = result
    BY <1>1, Zenon DEF Row, Terminal
  <2> HIDE DEF closed
  <2>4. TasksTypeOK' /\ tasks'[t] = closed /\ \A u \in TaskIds : u # t => tasks'[u] = tasks[u]
    BY <1>1, <2>2, <2>3 DEF TasksTypeOK
  <2>5. RowsKept
    BY <1>3, <2>3, <2>4 DEF RowsKept, Terminal
  <2>6. RowSound(t)'
    BY <1>2, <2>3, <2>4 DEF RowSound, Doer, StepOf
  <2>7. ASSUME NEW u \in TaskIds PROVE RowSound(u)'
    <3>1. CASE u = t
      BY <2>6, <3>1
    <3>2. CASE u # t
      BY <2>4, <3>2 DEF RowInv, RowSound, Doer, StepOf
    <3> QED
      BY <3>1, <3>2
  <2> QED
    BY <2>3, <2>4, <2>5, <2>7 DEF RowInv
<1>4. CASE tasks[t].status # "running"
  <2>1. tasks' = [tasks EXCEPT ![t] = bare]
    BY <1>1, <1>2, <1>4 DEF FinishAgentTask, FinishAccepted
  <2>2. bare \in Row /\ bare.status = tasks[t].status /\ bare.claimed = tasks[t].claimed
        /\ bare.run = tasks[t].run /\ bare.agent = tasks[t].agent
        /\ bare.result = tasks[t].result
    BY <1>1, Zenon DEF Row
  <2> HIDE DEF bare
  <2>3. TasksTypeOK' /\ tasks'[t] = bare /\ \A u \in TaskIds : u # t => tasks'[u] = tasks[u]
    BY <1>1, <2>1, <2>2 DEF TasksTypeOK
  <2>4. ASSUME NEW u \in TaskIds
        PROVE  /\ tasks'[u].status = tasks[u].status /\ tasks'[u].claimed = tasks[u].claimed
               /\ tasks'[u].result = tasks[u].result /\ tasks'[u].run = tasks[u].run
               /\ tasks'[u].agent = tasks[u].agent
    <3>1. CASE u = t
      BY <2>2, <2>3, <3>1
    <3>2. CASE u # t
      BY <2>3, <3>2
    <3> QED
      BY <3>1, <3>2
  <2>5. RowsKept
    BY <2>4 DEF RowsKept
  <2>6. RowInv'
    BY <2>4 DEF RowInv, RowSound, Doer, StepOf
  <2> QED
    BY <2>3, <2>4, <2>5, <2>6
<1> QED
  BY <1>3, <1>4

\* Row t is closed by a sweep or a recovery, or left alone.
ClosedOrKept(t) ==
  /\ tasks'[t] \in Row
  /\ \/ tasks'[t].status = tasks[t].status
     \/ tasks'[t].status = "cancelled" /\ tasks[t].status \in Active
  /\ tasks'[t].claimed = tasks[t].claimed /\ tasks'[t].result = tasks[t].result
  /\ tasks'[t].run = tasks[t].run /\ tasks'[t].agent = tasks[t].agent

LEMMA ClosedRows ==
  ASSUME TasksTypeOK, RowInv, tasks' = [t \in TaskIds |-> tasks'[t]],
         \A t \in TaskIds : ClosedOrKept(t)
  PROVE  TasksTypeOK' /\ RowInv' /\ RowsKept /\ RowsClosed
<1>1. TasksTypeOK'
  BY DEF ClosedOrKept, TasksTypeOK
<1>2. RowsKept /\ RowsClosed
  BY DEF ClosedOrKept, RowsKept, RowsClosed, Active, Terminal
<1>3. ASSUME NEW t \in TaskIds PROVE RowSound(t)'
  <2>1. RowSound(t) /\ ClosedOrKept(t)
    BY DEF RowInv
  <2>2. CASE tasks'[t].status = tasks[t].status
    BY <2>1, <2>2 DEF ClosedOrKept, RowSound, Doer, StepOf
  <2>3. CASE tasks'[t].status = "cancelled" /\ tasks[t].status \in Active
    BY <2>1, <2>3 DEF ClosedOrKept, RowSound, Doer, StepOf, Active
  <2> QED
    BY <2>1, <2>2, <2>3 DEF ClosedOrKept
<1> QED
  BY <1>1, <1>2, <1>3 DEF RowInv

LEMMA SweepEffect ==
  ASSUME TasksTypeOK, RowInv, NEW r \in Runs, CancelQueuedRunTasks(r)
  PROVE  TasksTypeOK' /\ RowInv' /\ RowsKept /\ RowsClosed
<1>1. ASSUME NEW t \in TaskIds PROVE ClosedOrKept(t)
  <2> DEFINE row == [tasks[t] EXCEPT !.status = "cancelled", !.secret = FALSE]
  <2>1. tasks[t] \in Row
    BY DEF TasksTypeOK
  <2>2. row \in Row /\ row.status = "cancelled" /\ row.claimed = tasks[t].claimed
        /\ row.run = tasks[t].run /\ row.agent = tasks[t].agent /\ row.result = tasks[t].result
    BY <2>1, Zenon DEF Row, Terminal
  <2>3. tasks'[t] = tasks[t] \/ (tasks'[t] = row /\ tasks[t].status = "queued")
    BY DEF CancelQueuedRunTasks
  <2> HIDE DEF row
  <2> QED
    BY <2>1, <2>2, <2>3 DEF ClosedOrKept, Active
<1>2. tasks' = [t \in TaskIds |-> tasks'[t]]
  BY DEF CancelQueuedRunTasks
<1> QED
  BY <1>1, <1>2, ClosedRows

LEMMA RecoverEffect ==
  ASSUME TasksTypeOK, RowInv, RecoverTasks
  PROVE  TasksTypeOK' /\ RowInv' /\ RowsKept /\ RowsClosed
<1>1. ASSUME NEW t \in TaskIds PROVE ClosedOrKept(t)
  <2> DEFINE status == IF tasks[t].status \in Active THEN "cancelled" ELSE tasks[t].status
             row == [tasks[t] EXCEPT !.status = status, !.secret = FALSE]
  <2>1. tasks[t] \in Row
    BY DEF TasksTypeOK
  <2>2. tasks'[t] = row
    BY DEF RecoverTasks
  <2>3. /\ status \in {"absent"} \cup Active \cup Terminal
        /\ status = tasks[t].status \/ (status = "cancelled" /\ tasks[t].status \in Active)
    BY <2>1 DEF Row, Active, Terminal
  <2> HIDE DEF status
  <2>4. row \in Row
    BY <2>1, <2>3, Zenon DEF Row
  <2>5. row.status = status /\ row.claimed = tasks[t].claimed
        /\ row.run = tasks[t].run /\ row.agent = tasks[t].agent /\ row.result = tasks[t].result
    BY <2>1, Zenon DEF Row
  <2> HIDE DEF row
  <2> QED
    BY <2>2, <2>3, <2>4, <2>5 DEF ClosedOrKept
<1>2. tasks' = [t \in TaskIds |-> tasks'[t]]
  BY DEF RecoverTasks
<1> QED
  BY <1>1, <1>2, ClosedRows

LEMMA CreateEffect ==
  ASSUME TasksTypeOK, RowInv, NEW t \in TaskIds, CreateAgentTask(t, t[1], Doer(t), FALSE)
  PROVE  /\ TasksTypeOK' /\ RowInv'
         /\ tasks[t].status = "absent" /\ ~tasks[t].claimed
         /\ tasks'[t].status = "queued" /\ ~tasks'[t].claimed
         /\ \A u \in TaskIds : u # t => tasks'[u] = tasks[u]
<1> DEFINE row == [status |-> "queued", run |-> t[1], agent |-> Doer(t), result |-> 0,
                   created |-> Cardinality(Rows) + 1, claimed |-> FALSE, secret |-> FALSE]
<1>1. tasks[t].status = "absent" /\ tasks' = [tasks EXCEPT ![t] = row]
  BY DEF CreateAgentTask
<1>2. /\ Cardinality(Rows) + 1 \in Nat /\ Doer(t) \in Agents /\ t[1] \in Runs
      /\ 0 \in Evidence /\ "queued" \in Active
  BY RowsFinite, TaskIdFacts DEF Evidence, Active
<1>3. row \in Row
  BY <1>2 DEF Row
<1>4. row.status = "queued" /\ row.run = t[1] /\ row.agent = Doer(t)
      /\ row.claimed = FALSE /\ row.result = 0
  OBVIOUS
<1> HIDE DEF row
<1>5. TasksTypeOK' /\ tasks'[t] = row /\ \A u \in TaskIds : u # t => tasks'[u] = tasks[u]
  BY <1>1, <1>3 DEF TasksTypeOK
<1>6. RowSound(t)'
  BY <1>4, <1>5 DEF RowSound, Doer, StepOf
<1>7. ASSUME NEW u \in TaskIds PROVE RowSound(u)'
  <2>1. CASE u = t
    BY <1>6, <2>1
  <2>2. CASE u # t
    BY <1>5, <2>2 DEF RowInv, RowSound, Doer, StepOf
  <2> QED
    BY <2>1, <2>2
<1>8. ~tasks[t].claimed
  BY <1>1 DEF RowInv, RowSound
<1> QED
  BY <1>1, <1>4, <1>5, <1>7, <1>8 DEF RowInv

-----------------------------------------------------------------------------
(* What keeps each part of the invariant.                                   *)

\* No row is claimed or completed, and evidence stays what it is.
QuietRows ==
  \A t \in TaskIds :
    /\ tasks'[t].claimed = tasks[t].claimed
    /\ tasks'[t].status = "completed" <=> tasks[t].status = "completed"
    /\ tasks[t].status = "completed" => tasks'[t].result = tasks[t].result

LEMMA TasksKept ==
  ASSUME TasksTypeOK, RowInv, UNCHANGED tasks
  PROVE  TasksTypeOK' /\ RowInv' /\ RowsKept /\ QuietRows
BY DEF TasksTypeOK, RowInv, RowSound, RowsKept, QuietRows, Doer, StepOf

LEMMA ClosedQuiet ==
  ASSUME RowsKept, RowsClosed PROVE QuietRows
BY DEF RowsKept, RowsClosed, QuietRows, Terminal

LEMMA ChainKept ==
  ASSUME ChainInv, RowsKept
  PROVE  ChainInv'
BY TaskIdFacts DEF ChainInv, RowsKept, Created, Status, Terminal

\* The executors stay where they are, but for that of Run r, which is at w.
LEMMA WorkerKept ==
  ASSUME WorkerInv, RowsKept, NEW r \in Runs, NEW w,
         worker'[r] = w, WorkerSound(r, w),
         \A s \in Runs : s # r => worker'[s] = worker[s]
  PROVE  WorkerInv'
<1>1. ASSUME NEW s \in Runs, NEW v, worker'[s] = v, WorkerSound(s, v)
      PROVE  WorkerSound(s, worker[s])'
  <2>1. \A i \in 1..Last : /\ Created(s, i)' <=> Created(s, i)
                           /\ Status(s, i) = "completed" => Status(s, i)' = "completed"
    BY TaskIdFacts DEF RowsKept, Created, Status, Terminal
  <2> QED
    BY <1>1, <2>1 DEF WorkerSound
<1>2. ASSUME NEW s \in Runs PROVE WorkerSound(s, worker[s])'
  <2>1. CASE s = r
    BY <1>1, <2>1
  <2>2. CASE s # r
    BY <1>1, <2>2 DEF WorkerInv
  <2> QED
    BY <2>1, <2>2
<1> QED
  BY <1>2 DEF WorkerInv

LEMMA WorkersStay ==
  ASSUME WorkerInv, RowsKept, UNCHANGED worker
  PROVE  WorkerInv'
<1>1. ASSUME NEW r \in Runs PROVE WorkerInv'
  BY WorkerKept DEF WorkerInv
<1> QED
  BY <1>1 DEF WorkerInv

LEMMA RunsKept ==
  ASSUME RunInv, RowsKept,
         \A r \in Runs : runs'[r].status = "completed" => runs[r].status = "completed"
  PROVE  RunInv'
BY TaskIdFacts DEF RunInv, RowsKept, Status, Terminal

LEMMA AgentKept ==
  ASSUME NEW a \in Agents, AgentSound(a), agents'[a] = agents[a],
         \A t \in TaskIds : /\ tasks[t].claimed => tasks'[t].claimed
                            /\ Busy(t) /\ tasks'[t].status = "completed"
                                 => tasks[t].status = "completed"
  PROVE  AgentSound(a)'
<1>1. CASE agents[a].mode \in {"busy", "posting"}
  <2> DEFINE t == agents[a].task
  <2>1. t \in TaskIds /\ Doer(t) = a /\ tasks[t].claimed /\ tasks'[t].claimed
    BY <1>1 DEF AgentSound
  <2>2. agents[a].mode = "busy" => tasks'[t].status # "completed"
    BY <2>1 DEF AgentSound, Busy
  <2>3. agents'[a].task = t
    OBVIOUS
  <2> HIDE DEF t
  <2> QED
    BY <2>1, <2>2, <2>3 DEF AgentSound, Doer, StepOf
<1>2. CASE agents[a].mode \notin {"busy", "posting"}
  BY <1>2 DEF AgentSound, Doer, StepOf
<1> QED
  BY <1>1, <1>2

\* Nobody starts what is over, brings new evidence of a client or a collection,
\* or connects.
HostFrame ==
  /\ \A t \in TaskIds : tasks[t].status = "completed" =>
       tasks'[t].status = "completed" /\ tasks'[t].result = tasks[t].result
  /\ \A t \in TaskIds : Past(t) => Past(t)'
  /\ \A t \in TaskIds, e \in {Own, Foreign} :
       StepOf(t).kind \in {"client", "server-collect"} /\ Done(t, e)' => Done(t, e)
  /\ \A c \in Clients : Busy(c)' /\ agents'[Doer(c)].peer # NoTask =>
       Busy(c) /\ agents'[Doer(c)].peer = agents[Doer(c)].peer
  /\ Admitted \subseteq Admitted'

\* Servers end, and none starts or is used up.
ServersEnd ==
  /\ tracked' \subseteq tracked
  /\ \A u \in TaskIds :
       \/ servers'[u] = servers[u]
       \/ servers'[u].state = "none" /\ servers'[u].client = NoTask
       \/ Live(u) /\ servers'[u].state = "failed" /\ servers'[u].client = NoTask

LEMMA AmongTwoKept ==
  ASSUME Admitted \subseteq Admitted', AmongTwo' PROVE AmongTwo
BY DEF AmongTwo

LEMMA ServersKept ==
  ASSUME ServerInv, PortInv, MeasurementInv, CrossInv, HostFrame, ServersEnd
  PROVE  ServerInv' /\ PortInv' /\ MeasurementInv' /\ CrossInv'
<1>1. ASSUME NEW u \in TaskIds PROVE ServerSound(u)'
  <2>1. ServerSound(u)
    BY DEF ServerInv
  <2>2. servers'[u].state # "none" \/ u \in tracked' => servers[u].state # "none" \/ u \in tracked
    BY DEF ServersEnd, Live
  <2>3. /\ servers'[u].client # NoTask => servers'[u] = servers[u]
        /\ servers'[u].state = "served" <=> servers'[u].client # NoTask
    BY <2>1 DEF ServersEnd, ServerSound
  <2>4. \A t \in TaskIds : Past(t) => Past(t)'
    BY DEF HostFrame
  <2> HIDE DEF Past
  <2>5. servers'[u].state # "none" \/ u \in tracked' =>
          StepOf(u).kind = "server-start" /\ Past(u)'
    BY <2>1, <2>2, <2>4 DEF ServerSound
  <2>6. ASSUME NEW d, servers'[u].client = d, d # NoTask
        PROVE  d \in TaskIds /\ StepOf(d).kind = "client" /\ Past(d)'
    BY <2>1, <2>3, <2>4, <2>6 DEF ServerSound
  <2> QED
    BY <2>3, <2>5, <2>6 DEF ServerSound, StepOf, Past, Busy, Doer
<1>2. PortInv'
  <2>1. \A u \in TaskIds : Live(u)' => Live(u)
    BY DEF ServersEnd, Live
  <2> QED
    BY <2>1 DEF PortInv, Doer, StepOf
<1>3. ASSUME NEW c \in Clients PROVE ClientSound(c)'
  <2> DEFINE u == ServerFor(c)
             t == Collection(c)
  <2>1. ClientSound(c) /\ u \in TaskIds /\ c \in TaskIds /\ t \in TaskIds
    BY ClientFacts DEF MeasurementInv
  <2>2. \A e \in {Own, Foreign} : (Done(c, e)' => Done(c, e)) /\ (Done(t, e)' => Done(t, e))
    BY <2>1, ClientFacts DEF HostFrame
  <2>3. c # NoTask
    BY <2>1, TaskIdFacts
  <2>4. servers[u].client = c => servers[u].state = "served"
    BY <2>1, <2>3 DEF ServerInv, ServerSound
  <2>5. u' = u /\ t' = t
    BY DEF ServerFor, Collection, StepOf
  <2> HIDE DEF u, t
  <2>6. /\ (servers[u].state = "none" \/ servers[u].client = c) =>
             servers'[u].state = "none" \/ servers'[u].client = c
        /\ servers'[u].client = c => servers[u].client = c
        /\ servers[u].state = "none" /\ u \notin tracked =>
             servers'[u].state = "none" /\ u \notin tracked'
    BY <2>1, <2>3, <2>4 DEF ServersEnd, Live
  <2>7. tasks[c].status = "completed" =>
          tasks'[c].status = "completed" /\ tasks'[c].result = tasks[c].result
    BY <2>1 DEF HostFrame
  <2>8. /\ Done(c, Own)' => servers'[u].state = "none" \/ servers'[u].client = c
        /\ servers'[u].client = c => ~Done(c, Foreign)'
        /\ \A e \in {Own, Foreign} : Done(t, e)' =>
             /\ tasks'[c].status = "completed" /\ tasks'[c].result = e
             /\ servers'[u].state = "none" /\ u \notin tracked'
    BY <2>1, <2>2, <2>6, <2>7 DEF ClientSound, u, t
  <2> QED
    BY <2>5, <2>8 DEF ClientSound, u, t
<1>4. CrossInv'
  <2>1. SUFFICES ASSUME AmongTwo', NEW c \in Clients, Strays(c)'
                 PROVE  /\ servers'[ServerFor(c)].state \in {"none", "failed"}
                        /\ \A e \in {Own, Foreign} : ~Done(Collection(c), e)'
    BY DEF CrossInv, Clients, ServerFor, Collection, StepOf
  <2>2. AmongTwo
    BY <2>1, AmongTwoKept DEF HostFrame
  <2>3. c \in TaskIds /\ c # NoTask /\ ServerFor(c) \in TaskIds
        /\ StepOf(c).kind = "client" /\ Foreign \in {Own, Foreign}
    BY ClientFacts, TaskIdFacts
  <2>4. Strays(c)
    <3>1. CASE (Busy(c) /\ agents[Doer(c)].peer \notin {NoTask, ServerFor(c)})'
      BY <3>1 DEF HostFrame, Strays, ServerFor, StepOf, Doer
    <3>2. CASE Done(c, Foreign)'
      BY <2>3, <3>2 DEF HostFrame, Strays
    <3>3. CASE \E u \in TaskIds : u # ServerFor(c) /\ servers'[u].client = c
      BY <2>3, <3>3 DEF ServersEnd, Strays
    <3> QED
      BY <2>1, <3>1, <3>2, <3>3 DEF Strays, ServerFor, StepOf, Done, Posted, Doer, Foreign
  <2>5. /\ servers[ServerFor(c)].state \in {"none", "failed"}
        /\ \A e \in {Own, Foreign} : ~Done(Collection(c), e)
    BY <2>2, <2>4 DEF CrossInv
  <2> QED
    BY <2>3, <2>5, ClientFacts DEF HostFrame, ServersEnd, Live
<1> QED
  BY <1>1, <1>2, <1>3, <1>4 DEF ServerInv, MeasurementInv, Clients, StepOf

LEMMA HostQuiet ==
  ASSUME HostInv, QuietRows, UNCHANGED <<agents, servers, tracked>>, Admitted \subseteq Admitted'
  PROVE  HostInv'
<1>1. \A t \in TaskIds : (Busy(t)' <=> Busy(t)) /\ (Past(t)' <=> Past(t))
  BY DEF QuietRows, Busy, Past, Doer, StepOf
<1>2. \A t \in TaskIds, e \in {Own, Foreign} : Done(t, e)' <=> Done(t, e)
  BY DEF QuietRows, Done, Posted, Doer, StepOf
<1>3. HostFrame
  BY <1>1, <1>2, ClientFacts DEF HostFrame, QuietRows
<1>4. ServersEnd
  BY DEF ServersEnd
<1>5. AgentInv'
  BY AgentKept DEF HostInv, AgentInv, QuietRows
<1> QED
  BY <1>3, <1>4, <1>5, ServersKept DEF HostInv

-----------------------------------------------------------------------------
(* run_network.                                                             *)

RunRecord == [status : {"absent"} \cup Open \cup Terminal, cancel : BOOLEAN]
Places == Advancing \cup Finishing

LEMMA WorkerRecords ==
  ASSUME TypeOK, NEW r \in Runs
  PROVE  /\ worker[r] \in Worker /\ worker[r].step \in 1..(Last + 1)
         /\ \A pc \in Places, step \in 1..(Last + 1) :
              /\ At(r, pc, step) \in Worker
              /\ At(r, pc, step).pc = pc /\ At(r, pc, step).step = step
              /\ At(r, pc, step).outcome = worker[r].outcome
         /\ \A outcome \in {"completed", "failed", "cancelled"} :
              /\ EndsAs(r, outcome) \in Worker
              /\ EndsAs(r, outcome).pc = "sweeping" /\ EndsAs(r, outcome).outcome = outcome
              /\ EndsAs(r, outcome).step = worker[r].step
<1>1. worker[r] \in Worker
  BY DEF TypeOK
<1>2. ASSUME NEW pc \in Places, NEW step \in 1..(Last + 1)
      PROVE  /\ At(r, pc, step) \in Worker
             /\ At(r, pc, step).pc = pc /\ At(r, pc, step).step = step
             /\ At(r, pc, step).outcome = worker[r].outcome
  BY <1>1, Zenon DEF At, Worker, Places, Advancing, Finishing
<1>3. ASSUME NEW outcome \in {"completed", "failed", "cancelled"}
      PROVE  /\ EndsAs(r, outcome) \in Worker
             /\ EndsAs(r, outcome).pc = "sweeping" /\ EndsAs(r, outcome).outcome = outcome
             /\ EndsAs(r, outcome).step = worker[r].step
  BY <1>1, Zenon DEF EndsAs, Worker
<1>4. worker[r].step \in 1..(Last + 1)
  BY <1>1 DEF Worker
<1> QED
  BY <1>1, <1>2, <1>3, <1>4

\* The executor of Run r moves to w, with its Run and its queued tasks.
LEMMA LocalStep ==
  ASSUME Inv, NEW r \in Runs, NEW w \in Worker, WorkerStep(r, w), WorkerSound(r, w),
         w.pc # "none", cancelled' \subseteq Runs,
         TasksTypeOK', RowInv', RowsKept, QuietRows,
         runs' \in [Runs -> RunRecord],
         \A s \in Runs : runs'[s].status = "completed" =>
           runs[s].status = "completed" \/ \A i \in 1..Last : Status(s, i) = "completed"
  PROVE  Inv'
<1>1. /\ worker' \in [Runs -> Worker] /\ worker'[r] = w
      /\ \A s \in Runs : s # r => worker'[s] = worker[s]
      /\ UNCHANGED <<canceller, agents, servers, tracked, restarts>>
  BY DEF Inv, TypeOK, WorkerStep
<1>2. TypeOK'
  BY <1>1 DEF Inv, TypeOK, RunRecord
<1>3. ChainInv' /\ WorkerInv'
  BY <1>1, ChainKept, WorkerKept DEF Inv
<1>4. RunInv'
  BY TaskIdFacts DEF Inv, RunInv, RowsKept, Status, Terminal
<1>5. Admitted \subseteq Admitted'
  BY <1>1 DEF Admitted
<1>6. HostInv'
  BY <1>1, <1>5, HostQuiet DEF Inv
<1> QED
  BY <1>2, <1>3, <1>4, <1>6 DEF Inv

\* A step of run_network that touches nothing durable.
LEMMA ExecutorStep ==
  ASSUME Inv, NEW r \in Runs, NEW w \in Worker, WorkerStep(r, w), WorkerSound(r, w),
         w.pc # "none", cancelled' \subseteq Runs, UNCHANGED <<runs, tasks>>
  PROVE  Inv'
<1>1. runs' \in [Runs -> RunRecord]
  BY DEF Inv, TypeOK, RunRecord
<1>2. TasksTypeOK' /\ RowInv' /\ RowsKept /\ QuietRows
  BY TasksKept DEF Inv, TypeOK
<1> QED
  BY <1>1, <1>2, LocalStep

LEMMA EndingKeeps ==
  ASSUME Inv, NEW r \in Runs, NEW outcome \in {"failed", "cancelled"},
         WorkerStep(r, EndsAs(r, outcome)), UNCHANGED <<runs, tasks, cancelled>>
  PROVE  Inv'
<1> DEFINE w == EndsAs(r, outcome)
<1>1. w \in Worker /\ w.pc = "sweeping" /\ w.outcome = outcome
  BY WorkerRecords DEF Inv
<1>2. WorkerStep(r, w)
  OBVIOUS
<1> HIDE DEF w
<1>3. WorkerSound(r, w)
  BY <1>1 DEF WorkerSound, Advancing
<1>4. cancelled' \subseteq Runs
  BY DEF Inv, TypeOK
<1> QED
  BY <1>1, <1>2, <1>3, <1>4, ExecutorStep

LEMMA SubmitKeeps ==
  ASSUME Inv, NEW r \in Runs, Submit(r) PROVE Inv'
<1> DEFINE w == At(r, "created", worker[r].step)
<1>1. w \in Worker /\ w.pc = "created" /\ w.step = worker[r].step /\ w.outcome = worker[r].outcome
  BY WorkerRecords DEF Inv, Places, Advancing
<1>2. worker' = [worker EXCEPT ![r] = w] /\ worker[r].pc = "none" /\ UNCHANGED tasks
  BY DEF Submit, At, Inv, TypeOK, Worker
<1> HIDE DEF w
<1>3. WorkerSound(r, worker[r])
  BY DEF Inv, WorkerInv
<1>4. WorkerSound(r, w)
  BY <1>1, <1>2, <1>3 DEF WorkerSound, Advancing
<1>5. runs' \in [Runs -> RunRecord]
      /\ \A s \in Runs : runs'[s].status = "completed" => runs[s].status = "completed"
  <2>1. runs \in [Runs -> RunRecord]
    BY DEF Inv, TypeOK, RunRecord
  <2>2. \A s \in Runs : s # r => runs'[s] = runs[s]
    BY <2>1 DEF Submit
  <2> DEFINE row == [runs[r] EXCEPT !.status = "queued"]
  <2>3. row \in RunRecord /\ row.status = "queued"
    BY <2>1, Zenon DEF RunRecord, Open, Active
  <2>4. runs' = [runs EXCEPT ![r] = row]
    BY <2>1 DEF Submit
  <2> HIDE DEF row
  <2> QED
    BY <2>1, <2>2, <2>3, <2>4
<1>6. WorkerStep(r, w) /\ cancelled' \subseteq Runs
  BY <1>2 DEF WorkerStep, Submit, Inv, TypeOK
<1>7. TasksTypeOK' /\ RowInv' /\ RowsKept /\ QuietRows
  BY <1>2, TasksKept DEF Inv, TypeOK
<1> QED
  BY <1>1, <1>4, <1>5, <1>6, <1>7, LocalStep

LEMMA StartThreadKeeps ==
  ASSUME Inv, NEW r \in Runs, StartThread(r) PROVE Inv'
<1> DEFINE w == At(r, "reporting", worker[r].step)
<1>1. w \in Worker /\ w.pc = "reporting" /\ w.step = worker[r].step
      /\ w.outcome = worker[r].outcome
  BY WorkerRecords DEF Inv, Places, Advancing
<1>2. worker' = [worker EXCEPT ![r] = w] /\ worker[r].pc = "created" /\ UNCHANGED tasks
  BY DEF StartThread, At, Inv, TypeOK, Worker
<1> HIDE DEF w
<1>3. WorkerSound(r, worker[r])
  BY DEF Inv, WorkerInv
<1>4. WorkerSound(r, w)
  BY <1>1, <1>2, <1>3 DEF WorkerSound, Advancing
<1>5. runs' \in [Runs -> RunRecord]
      /\ \A s \in Runs : runs'[s].status = "completed" => runs[s].status = "completed"
  <2>1. runs \in [Runs -> RunRecord]
    BY DEF Inv, TypeOK, RunRecord
  <2>2. \A s \in Runs : s # r => runs'[s] = runs[s]
    BY <2>1 DEF StartThread
  <2> DEFINE row == [runs[r] EXCEPT !.status = "running"]
  <2>3. row \in RunRecord /\ row.status = "running"
    BY <2>1, Zenon DEF RunRecord, Open, Active
  <2>4. runs' = [runs EXCEPT ![r] = row]
    BY <2>1 DEF StartThread
  <2> HIDE DEF row
  <2> QED
    BY <2>1, <2>2, <2>3, <2>4
<1>6. WorkerStep(r, w) /\ cancelled' \subseteq Runs
  BY <1>2 DEF WorkerStep, StartThread, Inv, TypeOK
<1>7. TasksTypeOK' /\ RowInv' /\ RowsKept /\ QuietRows
  BY <1>2, TasksKept DEF Inv, TypeOK
<1> QED
  BY <1>1, <1>4, <1>5, <1>6, <1>7, LocalStep

LEMMA ReportKeeps ==
  ASSUME Inv, NEW r \in Runs, Report(r) PROVE Inv'
<1> DEFINE i == worker[r].step
<1>1. /\ worker[r].pc \in {"reporting", "completing"} /\ UNCHANGED <<runs, tasks>>
      /\ cancelled' \subseteq Runs /\ WorkerSound(r, worker[r])
      /\ i \in 1..(Last + 1) /\ Last \in Nat
  BY WorkerRecords, StepFacts DEF Report, Inv, TypeOK, WorkerInv
<1>2. CASE i > Last
  <2> DEFINE w == EndsAs(r, "completed")
  <2>1. w \in Worker /\ w.pc = "sweeping" /\ w.outcome = "completed"
    BY WorkerRecords DEF Inv
  <2>2. WorkerStep(r, w)
    BY <1>2 DEF Report
  <2> HIDE DEF w
  <2>3. \A j \in 1..Last : Status(r, j) = "completed"
    BY <1>1, <1>2 DEF WorkerSound, Advancing
  <2>4. WorkerSound(r, w)
    BY <2>1, <2>3 DEF WorkerSound, Advancing
  <2> QED
    BY <1>1, <2>1, <2>2, <2>4, ExecutorStep
<1>3. CASE i <= Last
  <2> DEFINE pc == IF worker[r].pc = "completing" THEN Before(i) ELSE "creating"
             w == At(r, pc, i)
  <2>1. pc \in {"reporting", "creating"}
    BY DEF Before
  <2>2. ~(i > Last)
    BY <1>1, <1>3
  <2>3. WorkerStep(r, w)
    BY <2>2 DEF Report
  <2> HIDE DEF pc
  <2>4. w \in Worker /\ w.pc = pc /\ w.step = i /\ w.outcome = worker[r].outcome
    BY <1>1, <2>1, WorkerRecords DEF Inv, Places, Advancing
  <2> HIDE DEF w
  <2>5. WorkerSound(r, w)
    BY <1>1, <1>3, <2>1, <2>4 DEF WorkerSound, Advancing
  <2> QED
    BY <1>1, <2>1, <2>3, <2>4, <2>5, ExecutorStep
<1> QED
  BY <1>1, <1>2, <1>3

LEMMA AwaitedKeeps ==
  ASSUME Inv, NEW r \in Runs, Awaited(r) PROVE Inv'
<1> DEFINE i == worker[r].step
           pc == IF Steps[i].kind \in {"probe", "server-collect"} THEN "completing"
                 ELSE Before(i + 1)
           w == At(r, pc, i + 1)
<1>1. /\ worker[r].pc = "waiting" /\ Status(r, i) = "completed" /\ UNCHANGED <<runs, tasks>>
      /\ cancelled' \subseteq Runs /\ WorkerSound(r, worker[r])
      /\ i \in 1..(Last + 1) /\ Last \in Nat
  BY WorkerRecords, StepFacts DEF Awaited, Inv, TypeOK, WorkerInv, Current, Status
<1>2. i \in 1..Last /\ i + 1 \in 1..(Last + 1)
  BY <1>1 DEF WorkerSound
<1>3. /\ pc \in {"completing", "reporting", "creating"}
      /\ pc = "creating" => i + 1 <= Last
  BY DEF Before
<1>4. WorkerStep(r, w)
  BY DEF Awaited
<1> HIDE DEF pc
<1>5. w \in Worker /\ w.pc = pc /\ w.step = i + 1 /\ w.outcome = worker[r].outcome
  BY <1>2, <1>3, WorkerRecords DEF Inv, Places, Advancing
<1> HIDE DEF w
<1>6. WorkerSound(r, w)
  <2>1. /\ w.pc \in Advancing /\ w.pc \notin {"none", "created", "waiting", "sweeping", "settling"}
        /\ w.outcome = "none"
    BY <1>1, <1>3, <1>5 DEF WorkerSound, Advancing
  <2>2. \A j \in 1..Last : /\ Created(r, j) <=> j < i + 1
                           /\ j < i + 1 => Status(r, j) = "completed"
    BY <1>1, <1>2 DEF WorkerSound, Advancing
  <2> QED
    BY <1>3, <1>5, <2>1, <2>2 DEF WorkerSound
<1> QED
  BY <1>1, <1>3, <1>4, <1>5, <1>6, ExecutorStep

LEMMA EndingsKeep ==
  ASSUME Inv, NEW r \in Runs,
         MeasurementFailed(r) \/ WaitTimedOut(r) \/ StopCancelled(r) \/ StopTimedOut(r)
  PROVE  Inv'
BY EndingKeeps DEF MeasurementFailed, WaitTimedOut, StopCancelled, StopTimedOut

LEMMA SweepKeeps ==
  ASSUME Inv, NEW r \in Runs, Sweep(r) PROVE Inv'
<1> DEFINE w == At(r, "settling", worker[r].step)
<1>1. w \in Worker /\ w.pc = "settling" /\ w.outcome = worker[r].outcome
  <2>1. TypeOK /\ "settling" \in Places
    BY DEF Inv, Places, Finishing
  <2>2. worker[r].step \in 1..(Last + 1)
    BY <2>1, WorkerRecords
  <2> QED
    BY <2>1, <2>2, WorkerRecords
<1>2. WorkerStep(r, w) /\ worker[r].pc = "sweeping" /\ UNCHANGED <<runs, cancelled>>
  BY DEF Sweep
<1> HIDE DEF w
<1>3. TasksTypeOK' /\ RowInv' /\ RowsKept /\ QuietRows
  BY SweepEffect, ClosedQuiet DEF Sweep, Inv, TypeOK
<1>4. WorkerSound(r, worker[r])
  BY DEF Inv, WorkerInv
<1>5. WorkerSound(r, w)
  BY <1>1, <1>2, <1>4 DEF WorkerSound, Advancing
<1>6. runs' \in [Runs -> RunRecord] /\ cancelled' \subseteq Runs
  BY <1>2 DEF Inv, TypeOK, RunRecord
<1> QED
  BY <1>1, <1>2, <1>3, <1>5, <1>6, LocalStep

LEMMA SettleKeeps ==
  ASSUME Inv, NEW r \in Runs, Settle(r) PROVE Inv'
<1> DEFINE w == At(r, "gone", worker[r].step)
<1>1. w \in Worker /\ w.pc = "gone" /\ w.outcome = worker[r].outcome
  <2>1. TypeOK /\ "gone" \in Places
    BY DEF Inv, Places, Finishing
  <2>2. worker[r].step \in 1..(Last + 1)
    BY <2>1, WorkerRecords
  <2> QED
    BY <2>1, <2>2, WorkerRecords
<1>2. WorkerStep(r, w) /\ worker[r].pc = "settling" /\ UNCHANGED tasks
      /\ cancelled' \subseteq Runs
  BY DEF Settle, Inv, TypeOK
<1> HIDE DEF w
<1>3. TasksTypeOK' /\ RowInv' /\ RowsKept /\ QuietRows
  BY <1>2, TasksKept DEF Inv, TypeOK
<1>4. WorkerSound(r, worker[r]) /\ worker[r] \in Worker
  BY DEF Inv, WorkerInv, TypeOK
<1>5. WorkerSound(r, w)
  BY <1>1, <1>2, <1>4 DEF WorkerSound, Advancing
<1>6. worker[r].outcome \in Terminal
  BY <1>2, <1>4 DEF WorkerSound, Worker, Terminal
<1>7. /\ runs' \in [Runs -> RunRecord]
      /\ \A s \in Runs : runs'[s].status = "completed" =>
           runs[s].status = "completed" \/ \A i \in 1..Last : Status(s, i) = "completed"
  <2> DEFINE row == [runs[r] EXCEPT !.status = worker[r].outcome]
  <2>1. runs \in [Runs -> RunRecord] /\ runs' = [runs EXCEPT ![r] = row]
    BY DEF Settle, Inv, TypeOK, RunRecord
  <2>2. row \in RunRecord /\ row.status = worker[r].outcome
    BY <1>6, <2>1, Zenon DEF RunRecord
  <2> HIDE DEF row
  <2>3. \A s \in Runs : s # r => runs'[s] = runs[s]
    BY <2>1
  <2>4. runs'[r].status = "completed" => \A i \in 1..Last : Status(r, i) = "completed"
    BY <1>4, <2>1, <2>2 DEF WorkerSound
  <2> QED
    BY <2>1, <2>2, <2>3, <2>4
<1> QED
  BY <1>1, <1>2, <1>3, <1>5, <1>7, LocalStep

LEMMA CreateTaskKeeps ==
  ASSUME Inv, NEW r \in Runs, CreateTask(r) PROVE Inv'
<1> DEFINE i == worker[r].step
           t == <<r, i>>
           w == At(r, "waiting", i)
<1>1. /\ worker[r].pc = "creating" /\ UNCHANGED <<runs, cancelled>>
      /\ WorkerSound(r, worker[r]) /\ i \in 1..Last /\ Last \in Nat
  <2>1. worker[r].pc = "creating" /\ UNCHANGED <<runs, cancelled>> /\ WorkerSound(r, worker[r])
    BY DEF CreateTask, Inv, WorkerInv
  <2>2. i \in 1..(Last + 1) /\ Last \in Nat
    BY WorkerRecords, StepFacts DEF Inv
  <2>3. i <= Last
    BY <2>1 DEF WorkerSound
  <2> QED
    BY <2>1, <2>2, <2>3
<1>2. t \in TaskIds /\ t[1] = r
  BY <1>1, TaskIdFacts
<1>3. w \in Worker /\ w.pc = "waiting" /\ w.step = i /\ w.outcome = worker[r].outcome
  BY WorkerRecords DEF Inv, Places, Advancing
<1>4. WorkerStep(r, w) /\ CreateAgentTask(t, r, Doer(t), FALSE)
  BY DEF CreateTask, Current, Doer
<1> HIDE DEF w
<1>5. /\ worker' \in [Runs -> Worker] /\ worker'[r] = w
      /\ \A s \in Runs : s # r => worker'[s] = worker[s]
      /\ UNCHANGED <<canceller, agents, servers, tracked, restarts>>
  BY <1>3, <1>4 DEF Inv, TypeOK, WorkerStep
<1>6. /\ TasksTypeOK' /\ RowInv'
      /\ tasks[t].status = "absent" /\ ~tasks[t].claimed
      /\ tasks'[t].status = "queued" /\ ~tasks'[t].claimed
      /\ \A u \in TaskIds : u # t => tasks'[u] = tasks[u]
  <2>1. CreateAgentTask(t, t[1], Doer(t), FALSE)
    BY <1>2, <1>4
  <2> HIDE DEF t
  <2> QED
    BY <1>2, <2>1, CreateEffect DEF Inv, TypeOK
<1>7. TypeOK'
  BY <1>1, <1>5, <1>6 DEF Inv, TypeOK
<1>8. \A s \in Runs, j \in 1..Last :
        /\ <<s, j>> # t => Status(s, j)' = Status(s, j) /\ (Created(s, j)' <=> Created(s, j))
        /\ <<s, j>> = t => Status(s, j)' = "queued" /\ Created(s, j)'
        /\ Status(s, j) = "completed" => Status(s, j)' = "completed"
  BY <1>6, TaskIdFacts DEF Status, Created
<1>9. \A j \in 1..Last : /\ Created(r, j) <=> j < i
                         /\ j < i => Status(r, j) = "completed"
  BY <1>1 DEF WorkerSound, Advancing
<1>10. ChainInv'
  <2>1. SUFFICES ASSUME NEW s \in Runs, NEW j \in 1..Last, NEW k \in 1..Last, j < k, Created(s, k)'
                 PROVE  Status(s, j)' = "completed"
    BY DEF ChainInv
  <2>2. CASE <<s, k>> = t
    BY <1>8, <1>9, <2>1, <2>2
  <2>3. CASE <<s, k>> # t
    BY <1>8, <2>1, <2>3 DEF Inv, ChainInv
  <2> QED
    BY <2>2, <2>3
<1>11. ASSUME NEW s \in Runs PROVE WorkerSound(s, worker[s])'
  <2>1. CASE s = r
    <3>1. \A j \in 1..Last :
            /\ Created(r, j)' <=> j < i \/ j = i
            /\ j < i => Status(r, j)' = "completed"
      BY <1>1, <1>8, <1>9
    <3>2. worker'[r].pc = "waiting" /\ worker'[r].step = i /\ worker'[r].outcome = "none"
      BY <1>1, <1>3, <1>5 DEF WorkerSound, Advancing
    <3> QED
      BY <1>1, <2>1, <3>1, <3>2 DEF WorkerSound, Advancing
  <2>2. CASE s # r
    <3>1. \A j \in 1..Last : Status(s, j)' = Status(s, j) /\ (Created(s, j)' <=> Created(s, j))
      BY <1>8, <2>2
    <3>2. worker'[s] = worker[s] /\ WorkerSound(s, worker[s])
      BY <1>5, <2>2 DEF Inv, WorkerInv
    <3> QED
      BY <3>1, <3>2 DEF WorkerSound
  <2> QED
    BY <2>1, <2>2
<1>12. RunInv'
  BY <1>1, <1>8 DEF Inv, RunInv
<1>13. QuietRows
  <2> HIDE DEF t
  <2>1. ASSUME NEW u \in TaskIds
        PROVE  /\ tasks'[u].claimed = tasks[u].claimed
               /\ tasks'[u].status = "completed" <=> tasks[u].status = "completed"
               /\ tasks[u].status = "completed" => tasks'[u].result = tasks[u].result
    <3>1. CASE u = t
      <4>1. tasks'[t].claimed \in BOOLEAN /\ tasks[t].claimed \in BOOLEAN
        BY <1>2, <1>6 DEF Inv, TypeOK, TasksTypeOK, Row
      <4> QED
        BY <1>6, <3>1, <4>1
    <3>2. CASE u # t
      BY <1>6, <3>2
    <3> QED
      BY <3>1, <3>2
  <2> QED
    BY <2>1 DEF QuietRows
<1>14. Admitted \subseteq Admitted'
  BY <1>3, <1>5 DEF Admitted
<1>15. HostInv'
  BY <1>5, <1>13, <1>14, HostQuiet DEF Inv
<1> QED
  BY <1>6, <1>7, <1>10, <1>11, <1>12, <1>15 DEF Inv, WorkerInv

-----------------------------------------------------------------------------
(* Cancellation and the restart of the Controller.                          *)

\* A step of the Controller that leaves its executors where they are.
LEMMA ControllerStep ==
  ASSUME Inv, TasksTypeOK', RowInv', RowsKept, QuietRows,
         UNCHANGED <<worker, agents, servers, tracked, restarts>>,
         runs' \in [Runs -> RunRecord], cancelled' \subseteq Runs,
         canceller' \in [Runs -> {"idle", "flagged", "swept", "done"}],
         \A s \in Runs : runs'[s].status = "completed" => runs[s].status = "completed"
  PROVE  Inv'
<1>1. TypeOK'
  BY DEF Inv, TypeOK, RunRecord
<1>2. ChainInv' /\ WorkerInv' /\ RunInv'
  BY ChainKept, WorkersStay, RunsKept DEF Inv
<1>3. HostInv'
  BY HostQuiet DEF Inv, Admitted
<1> QED
  BY <1>1, <1>2, <1>3 DEF Inv

LEMMA CancelKeeps ==
  ASSUME Inv, NEW r \in Runs, RequestCancel(r) \/ CancelQueued(r) \/ CancelToken(r)
  PROVE  Inv'
<1>1. /\ UNCHANGED <<worker, agents, servers, tracked, restarts>>
      /\ canceller' \in [Runs -> {"idle", "flagged", "swept", "done"}]
  BY DEF RequestCancel, CancelQueued, CancelToken, CancelStep, Inv, TypeOK
<1>2. cancelled' \subseteq Runs
  BY DEF RequestCancel, CancelQueued, CancelToken, Inv, TypeOK
<1>3. TasksTypeOK' /\ RowInv' /\ RowsKept /\ QuietRows
  <2>1. CASE CancelQueued(r)
    BY <2>1, SweepEffect, ClosedQuiet DEF CancelQueued, Inv, TypeOK
  <2>2. CASE RequestCancel(r) \/ CancelToken(r)
    BY <2>2, TasksKept DEF RequestCancel, CancelToken, Inv, TypeOK
  <2> QED
    BY <2>1, <2>2
<1>4. /\ runs' \in [Runs -> RunRecord]
      /\ \A s \in Runs : runs'[s].status = "completed" => runs[s].status = "completed"
  <2>1. runs \in [Runs -> RunRecord]
    BY DEF Inv, TypeOK, RunRecord
  <2>2. CASE RequestCancel(r)
    <3> DEFINE row == [runs[r] EXCEPT !.cancel = TRUE]
    <3>1. row \in RunRecord /\ row.status = runs[r].status
      BY <2>1, Zenon DEF RunRecord
    <3>2. runs' = [runs EXCEPT ![r] = row]
      BY <2>1, <2>2 DEF RequestCancel
    <3> HIDE DEF row
    <3> QED
      BY <2>1, <3>1, <3>2
  <2>3. CASE CancelQueued(r) \/ CancelToken(r)
    BY <2>1, <2>3 DEF CancelQueued, CancelToken
  <2> QED
    BY <2>2, <2>3
<1> QED
  BY <1>1, <1>2, <1>3, <1>4, ControllerStep

LEMMA RestartKeeps ==
  ASSUME Inv, ControllerRestart PROVE Inv'
<1>1. TasksTypeOK' /\ RowInv' /\ RowsKept /\ QuietRows
  BY RecoverEffect, ClosedQuiet DEF ControllerRestart, Inv, TypeOK
<1>2. /\ runs' \in [Runs -> RunRecord]
      /\ \A s \in Runs : runs'[s].status = "completed" => runs[s].status = "completed"
  <2>1. runs \in [Runs -> RunRecord]
    BY DEF Inv, TypeOK, RunRecord
  <2>2. ASSUME NEW s \in Runs
        PROVE  runs'[s] \in RunRecord /\ (runs'[s].status = "completed" => runs[s].status = "completed")
    <3> DEFINE row == [runs[s] EXCEPT !.status = "failed"]
    <3>1. row \in RunRecord /\ row.status = "failed"
      BY <2>1, Zenon DEF RunRecord, Terminal
    <3>2. runs'[s] = row \/ runs'[s] = runs[s]
      BY DEF ControllerRestart
    <3> HIDE DEF row
    <3> QED
      BY <2>1, <3>1, <3>2
  <2> QED
    BY <2>2 DEF ControllerRestart
<1>3. /\ worker' \in [Runs -> Worker]
      /\ \A s \in Runs : \/ worker'[s] = worker[s]
                         \/ worker'[s].pc = "gone" /\ worker'[s].outcome = "none"
  <2>1. ASSUME NEW s \in Runs
        PROVE  /\ worker'[s] \in Worker
               /\ \/ worker'[s] = worker[s]
                  \/ worker'[s].pc = "gone" /\ worker'[s].outcome = "none"
    <3> DEFINE w == [worker[s] EXCEPT !.pc = "gone", !.outcome = "none"]
    <3>1. worker[s] \in Worker
      BY DEF Inv, TypeOK
    <3>2. w \in Worker /\ w.pc = "gone" /\ w.outcome = "none"
      BY <3>1, Zenon DEF Worker
    <3>3. worker'[s] = w \/ worker'[s] = worker[s]
      BY DEF ControllerRestart
    <3> HIDE DEF w
    <3> QED
      BY <3>1, <3>2, <3>3
  <2> QED
    BY <2>1 DEF ControllerRestart
<1>4. TypeOK'
  <2>1. restarts' \in 0..MaxRestarts
    <3>1. restarts \in 0..MaxRestarts
      BY DEF Inv, TypeOK
    <3>2. restarts < MaxRestarts /\ restarts' = restarts + 1 /\ MaxRestarts \in Nat
      BY NetworkAssumption DEF ControllerRestart
    <3> QED
      BY <3>1, <3>2
  <2>2. canceller' \in [Runs -> {"idle", "flagged", "swept", "done"}]
    BY DEF ControllerRestart, Inv, TypeOK
  <2>3. cancelled' \subseteq Runs /\ UNCHANGED <<agents, servers, tracked>>
    BY DEF ControllerRestart
  <2> QED
    BY <1>1, <1>2, <1>3, <2>1, <2>2, <2>3 DEF Inv, TypeOK, RunRecord
<1>5. WorkerInv'
  <2>1. ASSUME NEW s \in Runs PROVE WorkerSound(s, worker[s])'
    <3>1. CASE worker'[s] = worker[s]
      <4>1. WorkerSound(s, worker[s])
        BY DEF Inv, WorkerInv
      <4>2. \A i \in 1..Last : /\ Created(s, i)' <=> Created(s, i)
                               /\ Status(s, i) = "completed" => Status(s, i)' = "completed"
        BY <1>1, TaskIdFacts DEF RowsKept, Created, Status, Terminal
      <4> QED
        BY <3>1, <4>1, <4>2 DEF WorkerSound
    <3>2. CASE worker'[s].pc = "gone" /\ worker'[s].outcome = "none"
      BY <3>2 DEF WorkerSound, Advancing
    <3> QED
      BY <1>3, <3>1, <3>2
  <2> QED
    BY <2>1 DEF WorkerInv
<1>6. ChainInv' /\ RunInv'
  BY <1>1, <1>2, ChainKept, RunsKept DEF Inv
<1>7. Admitted \subseteq Admitted'
  BY <1>3 DEF Admitted
<1>8. HostInv'
  BY <1>1, <1>7, HostQuiet DEF Inv, ControllerRestart
<1> QED
  BY <1>1, <1>4, <1>5, <1>6, <1>8 DEF Inv

-----------------------------------------------------------------------------
(* The Agents: steps that start no server and use none up.                  *)

\* Agent a goes on as g; the task table keeps its rows or closes what a posted.
LEMMA HostStep ==
  ASSUME Inv, NEW a \in Agents, NEW g \in Agent,
         agents' = [agents EXCEPT ![a] = g], UNCHANGED <<runs, worker, cancelled, canceller, restarts>>,
         TasksTypeOK', RowInv', RowsKept,
         servers' \in [TaskIds -> Server], tracked' \subseteq TaskIds, HostInv'
  PROVE  Inv'
<1>1. TypeOK'
  BY DEF Inv, TypeOK
<1>2. ChainInv' /\ WorkerInv' /\ RunInv'
  BY ChainKept, WorkersStay, RunsKept DEF Inv
<1> QED
  BY <1>1, <1>2 DEF Inv

\* Agent a goes on as g, and with it what is executed and posted.
GoesOn(a, g) ==
  /\ agents'[a] = g /\ \A b \in Agents : b # a => agents'[b] = agents[b]
  /\ \A t \in TaskIds :
       /\ Doer(t) # a => (Busy(t)' <=> Busy(t))
       /\ Doer(t) = a => (Busy(t)' <=> g.mode = "busy" /\ g.task = t)
       /\ \A e \in {Own, Foreign} :
            /\ Doer(t) # a => (Posted(t, e)' <=> Posted(t, e))
            /\ Doer(t) = a =>
                 (Posted(t, e)' <=> g.mode = "posting" /\ g.task = t /\ g.status = "completed"
                                      /\ g.result = e)

LEMMA AgentMoves ==
  ASSUME Inv, NEW a \in Agents, NEW g, agents' = [agents EXCEPT ![a] = g]
  PROVE  GoesOn(a, g)
BY TaskIdFacts DEF Inv, TypeOK, Busy, Posted, Doer, StepOf, GoesOn

LEMMA Standing ==
  ASSUME Inv, NEW a \in Agents
  PROVE  /\ AgentSound(a) /\ agents[a] \in Agent
         /\ agents[a].mode \in {"busy", "posting"} =>
              LET t == agents[a].task IN
              /\ t \in TaskIds /\ Doer(t) = a /\ tasks[t].claimed /\ RowSound(t)
              /\ \A u \in TaskIds : Doer(u) = a /\ u # t => ~Busy(u) /\ \A e \in {Own, Foreign} : ~Posted(u, e)
BY DEF Inv, TypeOK, HostInv, AgentInv, AgentSound, RowInv, Busy, Posted

\* Whatever an executor or an Agent has begun was claimed, and what comes before
\* it in the Run is completed.
LEMMA ClaimedFirst ==
  ASSUME Inv, NEW t \in TaskIds
  PROVE  /\ Busy(t) => tasks[t].claimed /\ tasks[t].status # "completed"
         /\ \A e \in {Own, Foreign} : Done(t, e) => tasks[t].claimed /\ ~Busy(t)
         /\ tasks[t].claimed => Created(t[1], t[2]) /\ t[1] \in Admitted
<1>1. Doer(t) \in Agents /\ t = <<t[1], t[2]>> /\ t[1] \in Runs /\ t[2] \in 1..Last
  BY TaskIdFacts
<1>2. AgentSound(Doer(t)) /\ RowSound(t) /\ WorkerSound(t[1], worker[t[1]])
  BY <1>1 DEF Inv, HostInv, AgentInv, RowInv, WorkerInv
<1>3. Busy(t) => tasks[t].claimed /\ tasks[t].status # "completed"
  BY <1>2 DEF AgentSound, Busy
<1>4. ASSUME NEW e \in {Own, Foreign}, Done(t, e) PROVE tasks[t].claimed /\ ~Busy(t)
  BY <1>2, <1>4 DEF AgentSound, RowSound, Done, Posted, Busy
<1>5. ASSUME tasks[t].claimed PROVE Created(t[1], t[2]) /\ t[1] \in Admitted
  <2>1. Created(t[1], t[2])
    BY <1>1, <1>2, <1>5 DEF RowSound, Created, Status
  <2>2. worker[t[1]].pc = "none" => worker[t[1]].step = 1
    BY <1>2 DEF WorkerSound
  <2>3. worker[t[1]].pc = "none" =>
          (Created(t[1], t[2]) => t[2] < worker[t[1]].step)
    BY <1>1, <1>2 DEF WorkerSound, Advancing
  <2>4. worker[t[1]].pc # "none"
    BY <1>1, <2>1, <2>2, <2>3, StepFacts
  <2> QED
    BY <1>1, <2>1, <2>4 DEF Admitted
<1> QED
  BY <1>3, <1>4, <1>5

\* The order of the three tasks of a measurement.
LEMMA MeasurementOrder ==
  ASSUME Inv, NEW c \in Clients
  PROVE  /\ tasks[c].claimed => tasks[ServerFor(c)].status = "completed"
         /\ tasks[Collection(c)].claimed =>
              /\ tasks[c].status = "completed" /\ tasks[ServerFor(c)].status = "completed"
              /\ \E e \in {Own, Foreign} : tasks[c].result = e /\ Done(c, e)
<1> DEFINE r == c[1]
           i == c[2]
<1>1. /\ c \in TaskIds /\ ServerFor(c) = <<r, i - 1>> /\ Collection(c) = <<r, i + 1>> /\ c = <<r, i>>
      /\ r \in Runs /\ i \in 1..Last /\ i - 1 \in 1..Last /\ i + 1 \in 1..Last
      /\ Collection(c) \in TaskIds
  BY ClientFacts
<1>2. i - 1 < i /\ i < i + 1 /\ i - 1 < i + 1
  BY <1>1, StepFacts
<1>3. Collection(c)[1] = r /\ Collection(c)[2] = i + 1
  BY <1>1
<1>4. tasks[c].claimed => Status(r, i - 1) = "completed"
  BY <1>1, <1>2, ClaimedFirst DEF Inv, ChainInv
<1>5. tasks[Collection(c)].claimed => Status(r, i - 1) = "completed" /\ Status(r, i) = "completed"
  <2>1. tasks[Collection(c)].claimed => Created(r, i + 1)
    BY <1>1, <1>3, ClaimedFirst
  <2> QED
    BY <1>1, <1>2, <2>1 DEF Inv, ChainInv
<1>6. tasks[c].status = "completed" => \E e \in {Own, Foreign} : tasks[c].result = e /\ Done(c, e)
  <2>1. tasks[c].result \in 0..2 /\ RowSound(c)
    BY <1>1 DEF Inv, TypeOK, TasksTypeOK, Row, Evidence, RowInv
  <2> QED
    BY <2>1 DEF RowSound, Done, Own, Foreign
<1> QED
  BY <1>1, <1>4, <1>5, <1>6 DEF Status

\* Of two measurements of a Run the earlier is collected before the later begins.
LEMMA Earlier ==
  ASSUME Inv, NEW c \in Clients, NEW d \in Clients, c[1] = d[1], c[2] < d[2],
         tasks[ServerFor(d)].claimed
  PROVE  /\ \E e \in {Own, Foreign} : Done(Collection(c), e)
         /\ tasks[c].status = "completed" /\ servers[ServerFor(c)].state = "none"
<1> DEFINE r == c[1]
           i == c[2]
           j == d[2]
<1>1. /\ i \in 1..Last /\ j \in 1..Last /\ r \in Runs /\ i + 1 \in 1..Last /\ j - 1 \in 1..Last
      /\ ServerFor(d) = <<r, j - 1>> /\ Collection(c) = <<r, i + 1>> /\ d = <<r, j>>
      /\ ServerFor(d) \in TaskIds /\ Collection(c) \in TaskIds
  BY ClientFacts
<1>2. i + 1 # j
  BY <1>1, ClientFacts
<1>3. i + 1 # j - 1
  BY <1>1, ClientFacts
<1>4. i + 1 < j - 1
  BY <1>1, <1>2, <1>3, StepFacts
<1>5. Created(r, j - 1)
  <2>1. ServerFor(d)[1] = r /\ ServerFor(d)[2] = j - 1
    BY <1>1
  <2> QED
    BY <1>1, <2>1, ClaimedFirst
<1>6. tasks[Collection(c)].status = "completed"
  BY <1>1, <1>4, <1>5 DEF Inv, ChainInv, Status
<1>7. \E e \in {Own, Foreign} : Done(Collection(c), e)
  <2>1. tasks[Collection(c)].result \in 0..2 /\ RowSound(Collection(c))
    BY <1>1 DEF Inv, TypeOK, TasksTypeOK, Row, Evidence, RowInv
  <2> QED
    BY <1>6, <2>1 DEF RowSound, Done, Own, Foreign
<1>8. ClientSound(c)
  BY DEF Inv, HostInv, MeasurementInv
<1> QED
  BY <1>7, <1>8 DEF ClientSound

-----------------------------------------------------------------------------
(* A task that ends on its Agent.                                           *)

\* Agent a is through with task t: what is left to show of such a step is that the
\* Agents and the servers fit together.
TaskEnded(a, t, status, result) ==
  /\ t \in TaskIds /\ Doer(t) = a /\ tasks[t].claimed /\ tasks[t].status # "completed"
  /\ TasksTypeOK' /\ RowInv' /\ RowsKept /\ UNCHANGED <<tasks, worker>> /\ AgentInv'
  /\ \A u \in TaskIds : /\ Busy(u)' <=> Busy(u) /\ u # t
                        /\ Past(u) => Past(u)'
                        /\ \A e \in {Own, Foreign} :
                             Done(u, e)' <=> Done(u, e) \/ (u = t /\ status = "completed"
                                                                /\ e = result)
  /\ Past(t)'
  /\ \A c \in Clients : Busy(c)' => agents'[Doer(c)].peer = agents[Doer(c)].peer
  /\ servers' \in [TaskIds -> Server] /\ tracked' \subseteq TaskIds /\ HostInv' => Inv'

LEMMA EndsEffect ==
  ASSUME Inv, NEW a \in Agents, NEW t, agents[a].mode = "busy", agents[a].task = t,
         NEW status \in {"completed", "failed"}, NEW result \in Evidence,
         result # 0 <=> status = "completed", Ends(a, status, result)
  PROVE  TaskEnded(a, t, status, result)
<1> DEFINE g == [agents[a] EXCEPT !.mode = "posting", !.peer = NoTask,
                                  !.status = status, !.result = result]
<1>1. /\ AgentSound(a) /\ agents[a] \in Agent /\ t \in TaskIds /\ Doer(t) = a
      /\ tasks[t].claimed /\ tasks[t].status # "completed"
  BY Standing, Zenon DEF AgentSound
<1>2. /\ g \in Agent /\ g.mode = "posting" /\ g.task = t /\ g.peer = NoTask
      /\ g.status = status /\ g.result = result
  <2>1. status \in Terminal \cup {"none"}
    BY DEF Terminal
  <2> QED
    BY <1>1, <2>1, Zenon DEF Agent
<1>3. agents' = [agents EXCEPT ![a] = g] /\ UNCHANGED tasks
      /\ UNCHANGED <<runs, worker, cancelled, canceller, restarts>>
  BY DEF Ends, AgentStep
<1> HIDE DEF g
<1>4. TasksTypeOK' /\ RowInv' /\ RowsKept
  BY <1>3, TasksKept DEF Inv, TypeOK
<1>5. GoesOn(a, g)
  BY <1>3, AgentMoves
<1>6. \A u \in TaskIds : Doer(u) = a => (Busy(u) <=> u = t) /\ \A e \in {Own, Foreign} : ~Posted(u, e)
  BY <1>1 DEF Busy, Posted
<1>7. \A u \in TaskIds : Busy(u)' <=> Busy(u) /\ u # t
  BY <1>1, <1>2, <1>5, <1>6 DEF GoesOn
<1>8. \A u \in TaskIds, e \in {Own, Foreign} :
        Posted(u, e)' <=> Posted(u, e) \/ (u = t /\ status = "completed" /\ e = result)
  BY <1>1, <1>2, <1>5, <1>6 DEF GoesOn
<1>9. \A u \in TaskIds : Past(u) => Past(u)'
  BY <1>3, <1>7 DEF Past
<1>10. \A u \in TaskIds, e \in {Own, Foreign} :
         Done(u, e)' <=> Done(u, e) \/ (u = t /\ status = "completed" /\ e = result)
  BY <1>3, <1>8 DEF Done
<1>11. Past(t)'
  BY <1>1, <1>3, <1>7 DEF Past
<1>12. AgentInv'
  <2>1. AgentSound(a)'
    BY <1>1, <1>2, <1>3, <1>5 DEF AgentSound, Doer, StepOf, GoesOn
  <2>2. ASSUME NEW b \in Agents, b # a PROVE AgentSound(b)'
    BY <1>3, <1>5, <2>2, AgentKept DEF Inv, HostInv, AgentInv, GoesOn
  <2> QED
    BY <2>1, <2>2 DEF AgentInv
<1>13. \A c \in Clients : Busy(c)' => agents'[Doer(c)].peer = agents[Doer(c)].peer
  BY <1>2, <1>5, TaskIdFacts DEF Clients, GoesOn
<1>14. ASSUME servers' \in [TaskIds -> Server], tracked' \subseteq TaskIds, HostInv' PROVE Inv'
  BY <1>2, <1>3, <1>4, <1>14, HostStep
<1> QED
  BY <1>1, <1>3, <1>4, <1>7, <1>9, <1>10, <1>11, <1>12, <1>13, <1>14 DEF TaskEnded

\* A task ends without news of a client or a collection.
LEMMA EndsQuietly ==
  ASSUME Inv, NEW a \in Agents, NEW t, agents[a].mode = "busy", agents[a].task = t,
         NEW status \in {"completed", "failed"}, NEW result \in Evidence,
         result # 0 <=> status = "completed", Ends(a, status, result),
         status = "failed" \/ StepOf(t).kind = "probe", ServersEnd,
         servers' \in [TaskIds -> Server]
  PROVE  Inv'
<1>1. TaskEnded(a, t, status, result)
  BY EndsEffect
<1>2. HostFrame
  BY <1>1, ClientFacts DEF HostFrame, Admitted, TaskEnded
<1>3. HostInv'
  BY <1>1, <1>2, ServersKept DEF Inv, HostInv, TaskEnded
<1>4. tracked' \subseteq TaskIds
  BY DEF ServersEnd, Inv, TypeOK
<1> QED
  BY <1>1, <1>3, <1>4 DEF TaskEnded

LEMMA ServerRecords ==
  /\ NoServer \in Server /\ NoServer.state = "none" /\ NoServer.client = NoTask
  /\ \A s \in Server, x \in {"listening", "serving", "failed"} :
       /\ [s EXCEPT !.state = x] \in Server
       /\ [s EXCEPT !.state = x].state = x /\ [s EXCEPT !.state = x].client = s.client
<1>1. NoServer \in Server /\ NoServer.state = "none" /\ NoServer.client = NoTask
  BY DEF NoServer, Server
<1>2. ASSUME NEW s \in Server, NEW x \in {"listening", "serving", "failed"}
      PROVE  /\ [s EXCEPT !.state = x] \in Server
             /\ [s EXCEPT !.state = x].state = x /\ [s EXCEPT !.state = x].client = s.client
  <2>1. x \in {"none", "listening", "serving", "served", "failed"}
    OBVIOUS
  <2> QED
    BY <2>1, Zenon DEF Server
<1> QED
  BY <1>1, <1>2

LEMMA AgentRecords ==
  /\ IdleAgent \in Agent /\ IdleAgent.mode = "idle" /\ IdleAgent.peer = NoTask
  /\ \A t \in TaskIds : LET g == [IdleAgent EXCEPT !.mode = "busy", !.task = t] IN
       g \in Agent /\ g.mode = "busy" /\ g.task = t /\ g.peer = NoTask
  /\ LET g == [IdleAgent EXCEPT !.mode = "dead"] IN
       g \in Agent /\ g.mode = "dead" /\ g.peer = NoTask
<1>1. IdleAgent \in Agent
  BY DEF IdleAgent, Agent, Evidence
<1> QED
  BY <1>1 DEF IdleAgent, Agent

\* A server whose client breaks off had not been used up.
LEMMA ServerBreaksOff ==
  ASSUME Inv, NEW u \in TaskIds, Live(u), servers'[u] = [servers[u] EXCEPT !.state = "failed"]
  PROVE  servers'[u] \in Server /\ servers'[u].state = "failed" /\ servers'[u].client = NoTask
<1>1. servers[u] \in Server /\ ServerSound(u)
  BY DEF Inv, TypeOK, HostInv, ServerInv
<1>2. servers[u].client = NoTask
  BY <1>1 DEF ServerSound, Live
<1>3. /\ [servers[u] EXCEPT !.state = "failed"] \in Server
      /\ [servers[u] EXCEPT !.state = "failed"].state = "failed"
      /\ [servers[u] EXCEPT !.state = "failed"].client = servers[u].client
  BY <1>1, ServerRecords, Zenon
<1> QED
  BY <1>2, <1>3

\* A step of an Agent that brings no news of a measurement.
LEMMA QuietHost ==
  ASSUME Inv, NEW a \in Agents, NEW g \in Agent,
         agents' = [agents EXCEPT ![a] = g], UNCHANGED <<runs, worker, cancelled, canceller, restarts>>,
         TasksTypeOK', RowInv', RowsKept, AgentInv', HostFrame, ServersEnd,
         servers' \in [TaskIds -> Server]
  PROVE  Inv'
<1>1. HostInv'
  BY ServersKept DEF Inv, HostInv
<1>2. tracked' \subseteq TaskIds
  BY DEF ServersEnd, Inv, TypeOK
<1> QED
  BY <1>1, <1>2, HostStep

LEMMA ClaimKeeps ==
  ASSUME Inv, NEW a \in Agents, NEW t \in TaskIds, Claim(a, t)
  PROVE  Inv'
<1>1. /\ TasksTypeOK' /\ RowInv' /\ RowsKept
      /\ tasks[t].status = "queued" /\ Doer(t) = a /\ ~tasks[t].claimed
      /\ tasks'[t].status = "running" /\ tasks'[t].claimed
      /\ \A u \in TaskIds : u # t => tasks'[u] = tasks[u]
  BY ClaimEffect DEF Claim, Inv, TypeOK
<1>2. agents[a].mode = "idle" /\ agents[a] \in Agent /\ AgentSound(a)
  BY Standing DEF Claim
<1>3. PICK g \in Agent : /\ agents' = [agents EXCEPT ![a] = g]
                         /\ \/ g.mode = "idle"
                            \/ g.mode = "busy" /\ g.task = t
                         /\ g.peer = NoTask
  <2>1. agents[a].peer = NoTask
    BY <1>2 DEF AgentSound
  <2> QED
    BY <1>2, <2>1, AgentRecords DEF Claim, AgentStep
<1>4. UNCHANGED <<runs, worker, cancelled, canceller, restarts, servers, tracked>>
  BY DEF Claim, AgentStep
<1>5. GoesOn(a, g)
  BY <1>3, AgentMoves
<1>6. \A u \in TaskIds : Past(u) => Past(u)'
  <2>1. \A u \in TaskIds : u # t /\ Busy(u)' => Busy(u)
    BY <1>1, <1>3, <1>5 DEF GoesOn
  <2> QED
    BY <1>1, <2>1 DEF Past
<1>7. \A u \in TaskIds, e \in {Own, Foreign} : Done(u, e)' => Done(u, e)
  <2>1. \A u \in TaskIds, e \in {Own, Foreign} : Posted(u, e)' => Posted(u, e)
    BY <1>1, <1>3, <1>5 DEF GoesOn
  <2> QED
    BY <1>1, <2>1 DEF Done
<1>8. HostFrame
  <2>1. ASSUME NEW c \in Clients, Busy(c)', agents'[Doer(c)].peer # NoTask
        PROVE  Busy(c) /\ agents'[Doer(c)].peer = agents[Doer(c)].peer
    BY <1>3, <1>5, <2>1, ClientFacts, TaskIdFacts DEF GoesOn
  <2> QED
    BY <1>1, <1>4, <1>6, <1>7, <2>1 DEF HostFrame, Admitted
<1>9. AgentInv'
  <2>1. AgentSound(a)'
    BY <1>1, <1>3, <1>5 DEF AgentSound, GoesOn, Doer, StepOf
  <2>2. ASSUME NEW b \in Agents, b # a PROVE AgentSound(b)'
    BY <1>1, <1>5, <2>2, AgentKept DEF Inv, HostInv, AgentInv, GoesOn
  <2> QED
    BY <2>1, <2>2 DEF AgentInv
<1>10. ServersEnd /\ servers' \in [TaskIds -> Server]
  BY <1>4 DEF ServersEnd, Inv, TypeOK
<1> QED
  BY <1>1, <1>3, <1>4, <1>8, <1>9, <1>10, QuietHost

LEMMA RunProbeKeeps ==
  ASSUME Inv, NEW a \in Agents, RunProbe(a)
  PROVE  Inv'
<1>1. agents[a].mode = "busy" /\ StepOf(agents[a].task).kind = "probe"
  BY DEF RunProbe, Executes
<1>2. Ends(a, "completed", Own) /\ UNCHANGED <<servers, tracked>>
  BY DEF RunProbe
<1>3. ServersEnd /\ servers' \in [TaskIds -> Server]
  BY <1>2 DEF ServersEnd, Inv, TypeOK
<1>4. Own \in Evidence /\ Own # 0
  BY DEF Own, Evidence
<1> QED
  BY <1>1, <1>2, <1>3, <1>4, EndsQuietly

LEMMA TaskFailsKeeps ==
  ASSUME Inv, NEW a \in Agents, TaskFails(a)
  PROVE  Inv'
<1>1. agents[a].mode = "busy" /\ Ends(a, "failed", 0) /\ UNCHANGED tracked
  BY DEF TaskFails
<1>2. ASSUME NEW u \in TaskIds
      PROVE  /\ servers'[u] \in Server
             /\ \/ servers'[u] = servers[u]
                \/ Live(u) /\ servers'[u].state = "failed" /\ servers'[u].client = NoTask
  <2>1. \/ servers'[u] = servers[u]
        \/ Live(u) /\ servers'[u] = [servers[u] EXCEPT !.state = "failed"]
    BY DEF TaskFails
  <2> QED
    BY <2>1, ServerBreaksOff DEF Inv, TypeOK
<1>3. ServersEnd /\ servers' \in [TaskIds -> Server]
  <2>1. servers' = [u \in TaskIds |-> servers'[u]]
    BY DEF TaskFails
  <2> QED
    BY <1>1, <1>2, <2>1 DEF ServersEnd
<1>4. 0 \in Evidence
  BY DEF Evidence
<1> QED
  BY <1>1, <1>3, <1>4, EndsQuietly

\* Agent a posts what it has, and keeps it or goes on without it.
LEMMA PostKeeps ==
  ASSUME Inv, NEW a \in Agents, PostResult(a) \/ PostResultUnanswered(a)
  PROVE  Inv'
<1> DEFINE t == agents[a].task
           e == agents[a].result
<1>1. /\ agents[a].mode = "posting" /\ agents[a] \in Agent /\ AgentSound(a)
      /\ UNCHANGED <<runs, worker, cancelled, canceller, restarts, servers, tracked>>
  BY Standing DEF PostResult, PostResultUnanswered, AgentStep
<1>2. /\ t \in TaskIds /\ Doer(t) = a /\ tasks[t].claimed
      /\ agents[a].status \in {"completed", "failed"} /\ e \in Evidence
      /\ e # 0 <=> agents[a].status = "completed"
  BY <1>1 DEF AgentSound, Agent
<1>3. /\ TasksTypeOK' /\ RowInv' /\ RowsKept
      /\ tasks'[t].claimed
      /\ tasks'[t].status = "completed" =>
           \/ tasks[t].status = "completed" /\ tasks'[t].result = tasks[t].result
           \/ agents[a].status = "completed" /\ tasks'[t].result = e
      /\ \A u \in TaskIds : u # t => tasks'[u] = tasks[u]
  <2>1. FinishAgentTask(t, Doer(t), agents[a].status, e)
    BY <1>2 DEF PostResult, PostResultUnanswered
  <2> HIDE DEF t, e
  <2> QED
    BY <1>2, <2>1, FinishEffect DEF Inv, TypeOK
<1>4. PICK g \in Agent : agents' = [agents EXCEPT ![a] = g] /\ (g = IdleAgent \/ g = agents[a])
  BY <1>1, AgentRecords DEF PostResult, PostResultUnanswered, AgentStep
<1>5. GoesOn(a, g)
  BY <1>4, AgentMoves
<1>6. g.mode # "busy" /\ g.peer = NoTask /\ (g.mode = "posting" => g = agents[a])
  BY <1>1, <1>4, AgentRecords DEF AgentSound
<1>8. \A u \in TaskIds : /\ Busy(u)' => Busy(u)
                         /\ Past(u) => Past(u)'
  <2>1. \A u \in TaskIds : Busy(u)' => Busy(u)
    BY <1>5, <1>6 DEF GoesOn
  <2> QED
    BY <1>3, <2>1 DEF Past
<1>9. ASSUME NEW u \in TaskIds, NEW f \in {Own, Foreign}, Done(u, f)' PROVE Done(u, f)
  <2>1. Posted(u, f)' => Posted(u, f)
    <3>1. CASE Doer(u) = a
      BY <1>5, <1>6, <3>1 DEF GoesOn, Posted
    <3>2. CASE Doer(u) # a
      BY <1>5, <3>2 DEF GoesOn
    <3> QED
      BY <3>1, <3>2
  <2>2. tasks'[u].status = "completed" /\ tasks'[u].result = f => Done(u, f)
    <3>1. CASE u = t
      BY <1>1, <1>2, <1>3, <3>1 DEF Done, Posted
    <3>2. CASE u # t
      BY <1>3, <3>2 DEF Done
    <3> QED
      BY <3>1, <3>2
  <2> QED
    BY <1>9, <2>1, <2>2 DEF Done
<1>10. HostFrame
  <2>1. ASSUME NEW u \in TaskIds, tasks[u].status = "completed"
        PROVE  tasks'[u].status = "completed" /\ tasks'[u].result = tasks[u].result
    BY <1>3, <2>1 DEF RowsKept, Terminal
  <2>2. ASSUME NEW c \in Clients, Busy(c)', agents'[Doer(c)].peer # NoTask
        PROVE  Busy(c) /\ agents'[Doer(c)].peer = agents[Doer(c)].peer
    BY <1>5, <1>6, <2>2, ClientFacts, TaskIdFacts DEF GoesOn
  <2> QED
    BY <1>1, <1>8, <1>9, <2>1, <2>2 DEF HostFrame, Admitted
<1>11. AgentInv'
  <2>1. AgentSound(a)'
    <3>1. agents'[a] = g /\ tasks'[t].claimed
      BY <1>3, <1>5 DEF GoesOn
    <3>2. CASE g.mode = "posting"
      <4>1. g.task = t /\ g.result = e /\ g.status = agents[a].status
        BY <1>6, <3>2
      <4> HIDE DEF t, e
      <4> QED
        BY <1>2, <1>6, <3>1, <3>2, <4>1 DEF AgentSound, Doer, StepOf
    <3>3. CASE g.mode # "posting"
      BY <1>6, <3>1, <3>3 DEF AgentSound
    <3> QED
      BY <3>2, <3>3
  <2>2. ASSUME NEW b \in Agents, b # a PROVE AgentSound(b)'
    <3>1. ASSUME NEW u \in TaskIds, Busy(u), tasks'[u].status = "completed"
          PROVE  tasks[u].status = "completed"
      <4>1. u # t
        BY <1>1, <1>2, <3>1 DEF Busy
      <4> QED
        BY <1>3, <3>1, <4>1
    <3> QED
      BY <1>3, <1>5, <2>2, <3>1, AgentKept DEF Inv, HostInv, AgentInv, GoesOn, RowsKept
  <2> QED
    BY <2>1, <2>2 DEF AgentInv
<1>12. ServersEnd /\ servers' \in [TaskIds -> Server]
  BY <1>1 DEF ServersEnd, Inv, TypeOK
<1> QED
  BY <1>1, <1>3, <1>4, <1>10, <1>11, <1>12, QuietHost

LEMMA ServerExpiresKeeps ==
  ASSUME Inv, NEW u \in TaskIds, ServerExpires(u)
  PROVE  Inv'
<1>1. /\ UNCHANGED <<runs, tasks, worker, cancelled, canceller, agents, restarts>>
      /\ tracked' = tracked \ {u} /\ servers' = [servers EXCEPT ![u] = NoServer]
  BY DEF ServerExpires
<1>2. ServersEnd /\ servers' \in [TaskIds -> Server] /\ tracked' \subseteq TaskIds
  BY <1>1, ServerRecords DEF ServersEnd, Inv, TypeOK
<1>3. TasksTypeOK' /\ RowInv' /\ RowsKept /\ QuietRows
  BY <1>1, TasksKept DEF Inv, TypeOK
<1>4. TypeOK'
  BY <1>1, <1>2, <1>3 DEF Inv, TypeOK
<1>5. ChainInv' /\ WorkerInv' /\ RunInv'
  BY <1>1, <1>3, ChainKept, WorkersStay, RunsKept DEF Inv
<1>6. HostFrame /\ AgentInv'
  <2>1. \A t \in TaskIds : (Busy(t)' <=> Busy(t)) /\ (Past(t)' <=> Past(t))
    BY <1>1 DEF Busy, Past, Doer, StepOf
  <2>2. \A t \in TaskIds, e \in {Own, Foreign} : Done(t, e)' <=> Done(t, e)
    BY <1>1 DEF Done, Posted, Doer, StepOf
  <2>3. HostFrame
    BY <1>1, <2>1, <2>2, ClientFacts DEF HostFrame, Admitted
  <2>4. AgentInv'
    BY <1>1, AgentKept DEF Inv, HostInv, AgentInv
  <2> QED
    BY <2>3, <2>4
<1> QED
  BY <1>2, <1>3, <1>4, <1>5, <1>6, ServersKept DEF Inv, HostInv

LEMMA AgentCrashKeeps ==
  ASSUME Inv, NEW a \in Agents, AgentCrash(a)
  PROVE  Inv'
<1> DEFINE g == [IdleAgent EXCEPT !.mode = "dead"]
<1>1. /\ agents' = [agents EXCEPT ![a] = g]
      /\ UNCHANGED <<runs, tasks, worker, cancelled, canceller, restarts>>
      /\ tracked' \subseteq tracked
  BY DEF AgentCrash, AgentStep
<1>2. g \in Agent /\ g.mode = "dead" /\ g.peer = NoTask
  BY AgentRecords
<1> HIDE DEF g
<1>3. GoesOn(a, g)
  BY <1>1, AgentMoves
<1>4. TasksTypeOK' /\ RowInv' /\ RowsKept
  BY <1>1, TasksKept DEF Inv, TypeOK
<1>5. ASSUME NEW u \in TaskIds
      PROVE  /\ servers'[u] \in Server
             /\ \/ servers'[u] = servers[u]
                \/ servers'[u].state = "none" /\ servers'[u].client = NoTask
                \/ Live(u) /\ servers'[u].state = "failed" /\ servers'[u].client = NoTask
  <2>1. \/ servers'[u] = servers[u]
        \/ servers'[u] = NoServer
        \/ Live(u) /\ servers'[u] = [servers[u] EXCEPT !.state = "failed"]
    BY DEF AgentCrash
  <2> QED
    BY <2>1, ServerBreaksOff, ServerRecords DEF Inv, TypeOK
<1>6. ServersEnd /\ servers' \in [TaskIds -> Server]
  <2>1. servers' = [u \in TaskIds |-> servers'[u]]
    BY DEF AgentCrash
  <2> QED
    BY <1>1, <1>5, <2>1 DEF ServersEnd
<1>7. \A u \in TaskIds : Busy(u)' => Busy(u)
  BY <1>2, <1>3 DEF GoesOn
<1>8. \A u \in TaskIds, e \in {Own, Foreign} : Done(u, e)' => Done(u, e)
  <2>1. \A u \in TaskIds, e \in {Own, Foreign} : Posted(u, e)' => Posted(u, e)
    BY <1>2, <1>3 DEF GoesOn
  <2> QED
    BY <1>1, <2>1 DEF Done
<1>9. HostFrame
  <2>1. \A u \in TaskIds : Past(u) => Past(u)'
    BY <1>1, <1>7 DEF Past
  <2>2. ASSUME NEW c \in Clients, Busy(c)', agents'[Doer(c)].peer # NoTask
        PROVE  Busy(c) /\ agents'[Doer(c)].peer = agents[Doer(c)].peer
    BY <1>2, <1>3, <2>2, ClientFacts, TaskIdFacts DEF GoesOn
  <2> QED
    BY <1>1, <1>8, <2>1, <2>2 DEF HostFrame, Admitted
<1>10. AgentInv'
  <2>1. AgentSound(a)'
    BY <1>2, <1>3 DEF AgentSound, GoesOn
  <2>2. ASSUME NEW b \in Agents, b # a PROVE AgentSound(b)'
    BY <1>1, <1>3, <2>2, AgentKept DEF Inv, HostInv, AgentInv, GoesOn
  <2> QED
    BY <2>1, <2>2 DEF AgentInv
<1> QED
  BY <1>1, <1>2, <1>4, <1>6, <1>9, <1>10, QuietHost

-----------------------------------------------------------------------------
(* The steps of a measurement: start, connection, end of the client and     *)
(* collection.  Each changes one server and brings news of one task.        *)

\* Server u changes as it may; the others, and the Agents' lists, do not grow.
LEMMA ServerInvKept ==
  ASSUME ServerInv, NEW u \in TaskIds, ServerSound(u)',
         \A t \in TaskIds : Past(t) => Past(t)',
         \A v \in TaskIds : v # u => servers'[v] = servers[v] /\ (v \in tracked' => v \in tracked)
  PROVE  ServerInv'
<1>1. ASSUME NEW v \in TaskIds, v # u PROVE ServerSound(v)'
  <2>1. ServerSound(v) /\ servers'[v] = servers[v] /\ (v \in tracked' => v \in tracked)
    BY <1>1 DEF ServerInv
  <2> HIDE DEF Past
  <2>2. servers'[v].state # "none" \/ v \in tracked' =>
          StepOf(v).kind = "server-start" /\ Past(v)'
    BY <2>1 DEF ServerSound
  <2>3. ASSUME NEW d, servers'[v].client = d, d # NoTask
        PROVE  d \in TaskIds /\ StepOf(d).kind = "client" /\ Past(d)'
    BY <2>1, <2>3 DEF ServerSound
  <2>4. servers'[v].state = "served" <=> servers'[v].client # NoTask
    BY <2>1 DEF ServerSound
  <2> QED
    BY <2>2, <2>3, <2>4 DEF ServerSound, StepOf, Past, Busy, Doer
<1> QED
  BY <1>1 DEF ServerInv

\* Client c, its server and its collection are left alone.
LEMMA ClientKept ==
  ASSUME NEW c \in Clients, ClientSound(c), UNCHANGED tasks,
         servers'[ServerFor(c)] = servers[ServerFor(c)]
           \/ (servers'[ServerFor(c)].client = servers[ServerFor(c)].client
                 /\ servers'[ServerFor(c)].state # "none" /\ servers[ServerFor(c)].state # "none"),
         ServerFor(c) \in tracked' => ServerFor(c) \in tracked,
         \A e \in {Own, Foreign} : /\ Done(c, e)' => Done(c, e)
                                   /\ Done(Collection(c), e)' => Done(Collection(c), e)
  PROVE  ClientSound(c)'
<1> DEFINE u == ServerFor(c)
           t == Collection(c)
<1>1. u' = u /\ t' = t
  BY DEF ServerFor, Collection, StepOf
<1>2. /\ ClientSound(c)
      /\ u \in tracked' => u \in tracked
      /\ \A e \in {Own, Foreign} : (Done(c, e)' => Done(c, e)) /\ (Done(t, e)' => Done(t, e))
      /\ \/ servers'[u] = servers[u]
         \/ servers'[u].client = servers[u].client /\ servers'[u].state # "none"
              /\ servers[u].state # "none"
  OBVIOUS
<1> HIDE DEF u, t
<1>3. /\ Done(c, Own)' => servers'[u].state = "none" \/ servers'[u].client = c
      /\ servers'[u].client = c => ~Done(c, Foreign)'
      /\ \A e \in {Own, Foreign} : Done(t, e)' =>
           /\ tasks'[c].status = "completed" /\ tasks'[c].result = e
           /\ servers'[u].state = "none" /\ u \notin tracked'
  BY <1>2 DEF ClientSound, u, t
<1> QED
  BY <1>1, <1>3 DEF ClientSound, u, t

\* What c says of strangers is not new, and its own server and collection stay.
CrossKept(c) ==
  /\ Strays(c)' => Strays(c)
  /\ servers'[ServerFor(c)] = servers[ServerFor(c)]
       \/ servers[ServerFor(c)].state \notin {"none", "failed"}
  /\ \A e \in {Own, Foreign} : Done(Collection(c), e)' => Done(Collection(c), e)

\* The measurement of c will not be collected.
Broken(c) ==
  /\ servers[ServerFor(c)].state \in {"none", "failed"}
  /\ \A e \in {Own, Foreign} : ~Done(Collection(c), e)

LEMMA CrossInvKept ==
  ASSUME CrossInv, UNCHANGED worker,
         \A c \in Clients : CrossKept(c) \/ (AmongTwo /\ Strays(c)' => Broken(c)')
  PROVE  CrossInv'
<1>1. SUFFICES ASSUME AmongTwo', NEW c \in Clients, Strays(c)'
               PROVE  Broken(c)'
  BY DEF CrossInv, Broken, Clients, ServerFor, Collection, StepOf
<1>2. AmongTwo
  BY <1>1 DEF AmongTwo, Admitted
<1>3. CASE CrossKept(c)
  <2>1. Strays(c)
    BY <1>1, <1>3 DEF CrossKept
  <2>2. Broken(c)
    BY <1>2, <2>1 DEF CrossInv, Broken
  <2>3. /\ servers'[ServerFor(c)].state \in {"none", "failed"}
        /\ \A e \in {Own, Foreign} : ~Done(Collection(c), e)'
    BY <1>3, <2>2 DEF CrossKept, Broken
  <2> QED
    BY <2>3 DEF Broken, ServerFor, Collection, StepOf
<1>4. CASE AmongTwo /\ Strays(c)' => Broken(c)'
  BY <1>1, <1>2, <1>4
<1> QED
  BY <1>3, <1>4

\* Who strays has been claimed.
LEMMA StrayClaimed ==
  ASSUME Inv, NEW c \in Clients, Strays(c)
  PROVE  tasks[c].claimed
<1>1. c \in TaskIds /\ c # NoTask
  BY ClientFacts, TaskIdFacts
<1>2. CASE Busy(c)
  BY <1>1, <1>2, ClaimedFirst
<1>3. CASE Done(c, Foreign)
  BY <1>1, <1>3, ClaimedFirst
<1>4. CASE \E u \in TaskIds : u # ServerFor(c) /\ servers[u].client = c
  BY <1>1, <1>4 DEF Inv, HostInv, ServerInv, ServerSound, Past
<1> QED
  BY <1>2, <1>3, <1>4 DEF Strays

LEMMA StartServerKeeps ==
  ASSUME Inv, NEW a \in Agents, StartServer(a)
  PROVE  Inv'
<1>0. PICK t : t = agents[a].task
  OBVIOUS
<1> DEFINE port == StepOf(t).port
           state == IF Holding(a, port) = {} THEN "listening" ELSE "failed"
           s == [servers[t] EXCEPT !.state = state]
<1>1. /\ agents[a].mode = "busy" /\ StepOf(t).kind = "server-start"
      /\ servers' = [servers EXCEPT ![t] = s] /\ tracked' = tracked \cup {t}
      /\ Ends(a, "completed", Own) /\ Own \in Evidence /\ Own # 0
  <2>1. servers' = [servers EXCEPT ![t].state = state]
    BY <1>0 DEF StartServer
  <2> QED
    BY <1>0, <2>1 DEF StartServer, Executes, Own, Evidence
<1>2. TaskEnded(a, t, "completed", Own)
  BY <1>0, <1>1, EndsEffect
<1>3. servers \in [TaskIds -> Server] /\ servers[t] \in Server /\ ServerSound(t) /\ Busy(t)
  BY <1>0, <1>1, <1>2 DEF Inv, TypeOK, HostInv, ServerInv, Busy, TaskEnded
<1>4. servers[t].state = "none" /\ t \notin tracked /\ servers[t].client = NoTask
  BY <1>3 DEF ServerSound, Past
<1>5. /\ s \in Server /\ s.client = NoTask /\ s.state \in {"listening", "failed"}
      /\ s.state = "listening" => Holding(a, port) = {}
  <2>1. state \in {"listening", "serving", "failed"}
    OBVIOUS
  <2>2. state = "listening" => Holding(a, port) = {}
    OBVIOUS
  <2>3. state \in {"listening", "failed"}
    OBVIOUS
  <2> HIDE DEF state
  <2>4. s \in Server /\ s.state = state /\ s.client = servers[t].client
    BY <1>3, <2>1, ServerRecords, Zenon
  <2> QED
    BY <1>4, <2>2, <2>3, <2>4
<1>6. StepOf(t).kind = "server-start" /\ port = StepOf(t).port
  BY <1>1
<1> HIDE DEF s, state, port
<1>7. /\ servers' \in [TaskIds -> Server] /\ tracked' \subseteq TaskIds /\ servers'[t] = s
      /\ \A u \in TaskIds : u # t => servers'[u] = servers[u]
  BY <1>1, <1>2, <1>3, <1>5 DEF Inv, TypeOK, TaskEnded
<1>8. ServerInv'
  <2>1. ServerSound(t)'
    BY <1>2, <1>5, <1>6, <1>7 DEF ServerSound, StepOf, TaskEnded
  <2> QED
    BY <1>1, <1>2, <1>7, <2>1, ServerInvKept DEF Inv, HostInv, TaskEnded
<1>9. PortInv'
  <2>1. SUFFICES ASSUME NEW u \in TaskIds, NEW v \in TaskIds, Live(u)', Live(v)', u # v,
                        Doer(u) = Doer(v), StepOf(u).port = StepOf(v).port
                 PROVE  FALSE
    BY DEF PortInv, Doer, StepOf
  <2>2. ASSUME NEW w \in TaskIds, w # t, Live(w)', Doer(w) = a, StepOf(w).port = port, Live(t)'
        PROVE  FALSE
    <3>1. Live(w) /\ s.state = "listening"
      BY <1>5, <1>7, <2>2 DEF Live
    <3>2. w \in Holding(a, port)
      BY <2>2, <3>1 DEF Holding, Doer
    <3> QED
      BY <1>5, <3>1, <3>2
  <2>3. u # t /\ v # t
    BY <1>2, <1>6, <2>1, <2>2 DEF TaskEnded
  <2>4. Live(u) /\ Live(v)
    BY <1>7, <2>1, <2>3 DEF Live
  <2> QED
    BY <2>1, <2>4 DEF Inv, HostInv, PortInv
<1>10. ASSUME NEW c \in Clients, ServerFor(c) = t
       PROVE  ~tasks[c].claimed /\ ~tasks[Collection(c)].claimed
  BY <1>2, <1>10, MeasurementOrder DEF TaskEnded
<1>11. \A c \in Clients, e \in {Own, Foreign} :
         (Done(c, e)' <=> Done(c, e)) /\ (Done(Collection(c), e)' <=> Done(Collection(c), e))
  BY <1>2, <1>6, ClientFacts DEF TaskEnded
<1>12. ASSUME NEW c \in Clients PROVE ClientSound(c)'
  <2>1. ClientSound(c) /\ ServerFor(c) \in TaskIds /\ c \in TaskIds /\ Collection(c) \in TaskIds
        /\ c # NoTask
    BY ClientFacts, TaskIdFacts DEF Inv, HostInv, MeasurementInv
  <2>2. CASE ServerFor(c) = t
    <3>1. \A e \in {Own, Foreign} : ~Done(c, e)' /\ ~Done(Collection(c), e)'
      BY <1>10, <1>11, <2>1, <2>2, ClaimedFirst
    <3>2. servers'[ServerFor(c)].client # c
      BY <1>5, <1>7, <2>1, <2>2
    <3> QED
      BY <3>1, <3>2 DEF ClientSound, ServerFor, Collection, StepOf, Own, Foreign
  <2>3. CASE ServerFor(c) # t
    BY <1>1, <1>2, <1>7, <1>11, <2>1, <2>3, ClientKept DEF TaskEnded
  <2> QED
    BY <2>2, <2>3
<1>13. ASSUME NEW c \in Clients PROVE CrossKept(c) \/ (AmongTwo /\ Strays(c)' => Broken(c)')
  <2>1. Strays(c)' => Strays(c)
    <3>1. \A u \in TaskIds : servers'[u].client = servers[u].client
      BY <1>4, <1>5, <1>7
    <3>2. Busy(c)' => Busy(c) /\ agents'[Doer(c)].peer = agents[Doer(c)].peer
      BY <1>2, ClientFacts DEF TaskEnded
    <3> QED
      BY <1>11, <3>1, <3>2 DEF Strays, ServerFor, StepOf, Doer, Foreign, Own, Done, Posted
  <2>2. CASE ServerFor(c) = t
    <3>1. ~Strays(c)
      BY <1>10, <2>2, StrayClaimed
    <3> QED
      BY <2>1, <3>1
  <2>3. CASE ServerFor(c) # t
    <3>1. servers'[ServerFor(c)] = servers[ServerFor(c)]
      BY <1>7, <2>3, ClientFacts
    <3> QED
      BY <1>11, <2>1, <3>1 DEF CrossKept
  <2> QED
    BY <2>2, <2>3
<1>14. CrossInv'
  BY <1>2, <1>13, CrossInvKept DEF Inv, HostInv, TaskEnded
<1>15. MeasurementInv'
  BY <1>12 DEF MeasurementInv, Clients, StepOf
<1> QED
  BY <1>2, <1>7, <1>8, <1>9, <1>14, <1>15 DEF HostInv, TaskEnded

\* A collection finds the evidence its client has returned, if its server had one.
LEMMA BothEnds ==
  ASSUME Inv, NEW c \in Clients, tasks[Collection(c)].claimed,
         servers[ServerFor(c)].state = "served"
  PROVE  /\ tasks[c].status = "completed"
         /\ tasks[c].result = IF servers[ServerFor(c)].client = c THEN Own ELSE Foreign
<1>1. PICK e \in {Own, Foreign} : tasks[c].result = e /\ Done(c, e)
  BY MeasurementOrder
<1>2. ClientSound(c) /\ tasks[c].status = "completed"
  BY MeasurementOrder DEF Inv, HostInv, MeasurementInv
<1>3. servers[ServerFor(c)].client = c => e = Own
  BY <1>1, <1>2 DEF ClientSound
<1>4. servers[ServerFor(c)].client # c => e = Foreign
  BY <1>1, <1>2 DEF ClientSound
<1> QED
  BY <1>1, <1>2, <1>3, <1>4

LEMMA CollectServerKeeps ==
  ASSUME Inv, NEW a \in Agents, CollectServer(a)
  PROVE  Inv'
<1>0. PICK t : t = agents[a].task
  OBVIOUS
<1> DEFINE c == ClientFor(t)
           u == ServerFor(c)
           result == IF servers[u].client = c THEN Own ELSE Foreign
<1>1. /\ agents[a].mode = "busy" /\ StepOf(t).kind = "server-collect" /\ ServerFor(t) \in tracked
      /\ tracked' = tracked \ {ServerFor(t)} /\ servers' = [servers EXCEPT ![ServerFor(t)] = NoServer]
      /\ \/ /\ servers[ServerFor(t)].state = "served"
            /\ Ends(a, "completed", IF servers[ServerFor(t)].client = c THEN Own ELSE Foreign)
         \/ Ends(a, "failed", 0)
  BY <1>0 DEF CollectServer, Executes
<1>2. t \in TaskIds /\ tasks[t].claimed
  BY <1>0, <1>1, Standing
<1>3. /\ c \in Clients /\ t = Collection(c) /\ ServerFor(t) = u /\ c \in TaskIds /\ u \in TaskIds
      /\ t # c /\ t # u
  BY <1>1, <1>2, MeasurementTasks, ClientFacts
<1> HIDE DEF c, u
<1>4. servers \in [TaskIds -> Server]
  BY DEF Inv, TypeOK
<1>5. /\ servers' \in [TaskIds -> Server] /\ tracked' \subseteq TaskIds
      /\ servers'[u].state = "none" /\ servers'[u].client = NoTask /\ u \notin tracked'
      /\ \A v \in TaskIds : v # u => servers'[v] = servers[v] /\ (v \in tracked' => v \in tracked)
  BY <1>1, <1>3, <1>4, ServerRecords DEF Inv, TypeOK
<1>6. CASE Ends(a, "failed", 0)
  <2>1. ServersEnd
    BY <1>1, <1>5 DEF ServersEnd
  <2>2. 0 \in Evidence
    BY DEF Evidence
  <2> QED
    BY <1>0, <1>1, <1>5, <1>6, <2>1, <2>2, EndsQuietly
<1>7. CASE servers[u].state = "served" /\ Ends(a, "completed", result)
  <2>1. PICK e \in {Own, Foreign} : e = result
    OBVIOUS
  <2>2. e \in Evidence /\ e # 0 /\ Ends(a, "completed", e)
    BY <1>7, <2>1 DEF Evidence, Own, Foreign
  <2>3. TaskEnded(a, t, "completed", e)
    BY <1>0, <1>1, <2>2, EndsEffect
  <2>4. tasks[c].status = "completed" /\ tasks[c].result = e
    BY <1>2, <1>3, <1>7, <2>1, BothEnds DEF u
  <2> HIDE DEF result
  <2>5. \A v \in TaskIds : servers'[v].client # NoTask => servers'[v] = servers[v]
    BY <1>5
  <2>6. ServerInv'
    <3>1. ServerSound(u)'
      <4>1. /\ servers'[u].state = "none" /\ servers'[u].client = NoTask /\ u \notin tracked'
        BY <1>5
      <4>2. u' = u
        BY DEF u, c, ServerFor, ClientFor, StepOf
      <4> QED
        BY <4>1, <4>2 DEF ServerSound
    <3> QED
      BY <1>3, <1>5, <2>3, <3>1, ServerInvKept DEF Inv, HostInv, TaskEnded
  <2>7. PortInv'
    <3>1. \A v \in TaskIds : Live(v)' => Live(v)
      BY <1>5 DEF Live
    <3> QED
      BY <3>1 DEF Inv, HostInv, PortInv, Doer, StepOf
  <2>8. ASSUME NEW d \in Clients, d # c
        PROVE  /\ ServerFor(d) # u /\ ServerFor(d) \in TaskIds /\ Collection(d) # t
               /\ \A f \in {Own, Foreign} :
                    (Done(d, f)' <=> Done(d, f)) /\ (Done(Collection(d), f)' <=> Done(Collection(d), f))
    <3>1. ServerFor(d) # u /\ ServerFor(d) \in TaskIds /\ Collection(d) # t
      <4>1. ServerFor(c) # ServerFor(d) /\ Collection(c) # Collection(d)
        BY <1>3, <2>8, ClientsApart
      <4> QED
        BY <1>3, <4>1, ClientFacts DEF u
    <3>2. d # t /\ d \in TaskIds /\ Collection(d) \in TaskIds
      BY <1>1, ClientFacts
    <3> QED
      BY <2>3, <3>1, <3>2 DEF TaskEnded
  <2>9. ASSUME NEW d \in Clients PROVE ClientSound(d)'
    <3>1. CASE d = c
      <4>1. /\ tasks'[c].status = "completed" /\ tasks'[c].result = e
            /\ servers'[u].state = "none" /\ servers'[u].client # c /\ u \notin tracked'
        BY <1>3, <1>5, <2>3, <2>4, TaskIdFacts DEF TaskEnded
      <4>2. \A f \in {Own, Foreign} : Done(t, f)' => f = e
        <5>1. \A f \in {Own, Foreign} : ~Done(t, f)
          BY <1>0, <1>1, <1>2, <2>3, ClaimedFirst DEF Busy, TaskEnded
        <5> QED
          BY <1>2, <2>3, <5>1 DEF TaskEnded
      <4>3. ServerFor(d) = u /\ Collection(d) = t
        BY <1>3, <3>1 DEF u
      <4> QED
        BY <3>1, <4>1, <4>2, <4>3 DEF ClientSound, ServerFor, Collection, StepOf
    <3>2. CASE d # c
      BY <1>5, <2>3, <2>8, <3>2, ClientKept DEF Inv, HostInv, MeasurementInv, TaskEnded
    <3> QED
      BY <3>1, <3>2
  <2>10. ASSUME NEW d \in Clients PROVE CrossKept(d) \/ (AmongTwo /\ Strays(d)' => Broken(d)')
    <3>1. Strays(d)' => Strays(d)
      <4>1. Busy(d)' => Busy(d) /\ agents'[Doer(d)].peer = agents[Doer(d)].peer
        BY <2>3, ClientFacts DEF TaskEnded
      <4>2. Done(d, Foreign)' => Done(d, Foreign)
        BY <1>1, <2>3, ClientFacts DEF TaskEnded
      <4>3. \A v \in TaskIds : servers'[v].client = d => servers[v].client = d
        BY <2>5, ClientFacts, TaskIdFacts
      <4> QED
        BY <4>1, <4>2, <4>3 DEF Strays, ServerFor, StepOf, Doer, Foreign, Own, Done, Posted
    <3>2. CASE d = c
      <4>1. AmongTwo => ~Strays(c)
        BY <1>3, <1>7 DEF Inv, HostInv, CrossInv, u
      <4> QED
        BY <3>1, <3>2, <4>1
    <3>3. CASE d # c
      BY <1>5, <2>8, <3>1, <3>3 DEF CrossKept
    <3> QED
      BY <3>2, <3>3
  <2>11. CrossInv'
    BY <2>3, <2>10, CrossInvKept DEF Inv, HostInv, TaskEnded
  <2>12. MeasurementInv'
    BY <2>9 DEF MeasurementInv, Clients, StepOf
  <2> QED
    BY <1>5, <2>3, <2>6, <2>7, <2>11, <2>12 DEF HostInv, TaskEnded
<1> QED
  BY <1>1, <1>3, <1>6, <1>7

\* A server that has a client now has served nobody, and its measurement has
\* returned nothing from its client or its collection.
LEMMA LiveServer ==
  ASSUME Inv, NEW u \in TaskIds, Live(u)
  PROVE  /\ servers[u].client = NoTask /\ StepOf(u).kind = "server-start" /\ Past(u)
         /\ \A c \in Clients : ServerFor(c) = u =>
              ~Done(c, Own) /\ \A e \in {Own, Foreign} : ~Done(Collection(c), e)
<1>1. servers[u].client = NoTask /\ StepOf(u).kind = "server-start" /\ Past(u)
  BY DEF Inv, HostInv, ServerInv, ServerSound, Live
<1>2. ASSUME NEW c \in Clients, ServerFor(c) = u
      PROVE  ~Done(c, Own) /\ \A e \in {Own, Foreign} : ~Done(Collection(c), e)
  <2>1. ClientSound(c) /\ c # NoTask
    BY ClientFacts, TaskIdFacts DEF Inv, HostInv, MeasurementInv
  <2> QED
    BY <1>1, <1>2, <2>1 DEF ClientSound, Live
<1> QED
  BY <1>1, <1>2

LEMMA FinishClientKeeps ==
  ASSUME Inv, NEW a \in Agents, FinishClient(a)
  PROVE  Inv'
<1>0. PICK c : c = agents[a].task
  OBVIOUS
<1>1. PICK u : u = agents[a].peer
  OBVIOUS
<1>2. PICK e \in {Own, Foreign} : e = IF u = ServerFor(c) THEN Own ELSE Foreign
  OBVIOUS
<1> DEFINE s == [state |-> "served", client |-> c]
<1>3. /\ agents[a].mode = "busy" /\ StepOf(c).kind = "client" /\ u # NoTask
      /\ servers[u].state = "serving" /\ servers' = [servers EXCEPT ![u] = s]
      /\ Ends(a, "completed", e) /\ UNCHANGED tracked /\ e \in Evidence /\ e # 0
  BY <1>0, <1>1, <1>2 DEF FinishClient, Executes, Own, Foreign, Evidence
<1>4. TaskEnded(a, c, "completed", e)
  BY <1>0, <1>3, EndsEffect
<1>5. /\ c \in TaskIds /\ c \in Clients /\ c # NoTask /\ Doer(c) = a /\ Busy(c) /\ u \in TaskIds
      /\ agents[Doer(c)].peer = u /\ tasks[c].status # "completed" /\ u # c
  <2>1. c \in TaskIds /\ Doer(c) = a /\ c \in Clients /\ tasks[c].status # "completed"
    BY <1>3, <1>4, MeasurementTasks DEF TaskEnded
  <2>2. agents[a] \in Agent
    BY DEF Inv, TypeOK
  <2>3. u \in TaskIds
    BY <1>1, <1>3, <2>2 DEF Agent
  <2>4. StepOf(u).kind = "server-start"
    BY <1>3, <2>3, LiveServer DEF Live
  <2> QED
    BY <1>0, <1>1, <1>3, <2>1, <2>3, <2>4, TaskIdFacts DEF Busy
<1>6. s \in Server /\ s.state = "served" /\ s.client = c
  BY <1>5 DEF Server
<1> HIDE DEF s
<1>7. /\ servers' \in [TaskIds -> Server] /\ tracked' \subseteq TaskIds /\ servers'[u] = s
      /\ \A v \in TaskIds : v # u => servers'[v] = servers[v] /\ (v \in tracked' => v \in tracked)
  BY <1>3, <1>5, <1>6 DEF Inv, TypeOK
<1>8. /\ servers[u].client = NoTask /\ StepOf(u).kind = "server-start" /\ Past(u)
      /\ \A d \in Clients : ServerFor(d) = u =>
           ~Done(d, Own) /\ \A f \in {Own, Foreign} : ~Done(Collection(d), f)
  BY <1>3, <1>5, LiveServer DEF Live
<1>9. \A v \in TaskIds : servers[v].client # c
  BY <1>5 DEF Inv, HostInv, ServerInv, ServerSound, Past
<1>10. \A f \in {Own, Foreign} : ~Done(c, f) /\ ~Done(Collection(c), f)
  <2>1. ~tasks[Collection(c)].claimed /\ Collection(c) \in TaskIds
    BY <1>5, MeasurementOrder, ClientFacts
  <2> QED
    BY <1>5, <2>1, ClaimedFirst
<1>11. \A d \in Clients, f \in {Own, Foreign} :
         /\ Done(d, f)' <=> Done(d, f) \/ (d = c /\ f = e)
         /\ Done(Collection(d), f)' <=> Done(Collection(d), f)
  BY <1>4, <1>5, ClientFacts DEF TaskEnded
<1>12. ServerInv'
  <2>1. ServerSound(u)'
    <3>1. /\ servers'[u].state = "served" /\ servers'[u].client = c
          /\ StepOf(u).kind = "server-start" /\ Past(u)' /\ Past(c)' /\ StepOf(c).kind = "client"
      BY <1>3, <1>4, <1>5, <1>6, <1>7, <1>8 DEF TaskEnded
    <3> HIDE DEF Past
    <3>2. ASSUME NEW d, servers'[u].client = d, d # NoTask
          PROVE  d \in TaskIds /\ StepOf(d).kind = "client" /\ Past(d)'
      BY <1>5, <3>1, <3>2
    <3> QED
      BY <1>5, <3>1, <3>2 DEF ServerSound, StepOf, Past, Busy, Doer
  <2> QED
    BY <1>4, <1>5, <1>7, <2>1, ServerInvKept DEF Inv, HostInv, TaskEnded
<1>13. PortInv'
  <2>1. \A v \in TaskIds : Live(v)' => Live(v)
    BY <1>6, <1>7 DEF Live
  <2> QED
    BY <2>1 DEF Inv, HostInv, PortInv, Doer, StepOf
<1>14. ASSUME NEW d \in Clients PROVE ClientSound(d)'
  <2>1. ServerFor(d) \in TaskIds /\ Collection(d) \in TaskIds
    BY ClientFacts
  <2>2. CASE d = c
    <3>1. \A f \in {Own, Foreign} : (Done(d, f)' <=> f = e) /\ ~Done(Collection(d), f)'
      BY <1>5, <1>10, <1>11, <2>2
    <3>2. (e = Own => servers'[ServerFor(d)].client = d) /\ (e = Foreign => servers'[ServerFor(d)].client # d)
      BY <1>2, <1>6, <1>7, <1>9, <2>1, <2>2 DEF Own, Foreign
    <3> QED
      BY <3>1, <3>2 DEF ClientSound, ServerFor, Collection, StepOf, Own, Foreign
  <2>3. CASE d # c /\ ServerFor(d) = u
    <3>1. ~Done(d, Own)' /\ \A f \in {Own, Foreign} : ~Done(Collection(d), f)'
      BY <1>8, <1>11, <2>3 DEF Own, Foreign
    <3>2. servers'[ServerFor(d)].client # d
      BY <1>6, <1>7, <2>3
    <3> QED
      BY <3>1, <3>2 DEF ClientSound, ServerFor, Collection, StepOf, Own, Foreign
  <2>4. CASE d # c /\ ServerFor(d) # u
    <3>1. ClientSound(d) /\ UNCHANGED tasks
      BY <1>4 DEF Inv, HostInv, MeasurementInv, TaskEnded
    <3> QED
      BY <1>7, <1>11, <2>1, <2>4, <3>1, ClientKept
  <2> QED
    BY <2>2, <2>3, <2>4
<1>15. ASSUME NEW d \in Clients PROVE CrossKept(d) \/ (AmongTwo /\ Strays(d)' => Broken(d)')
  <2>1. /\ ServerFor(d) = u => d # c \/ e = Own
        /\ ServerFor(d) \in TaskIds
    BY <1>2, ClientFacts
  <2>2. CASE d = c /\ u = ServerFor(c)
    <3>1. ~Busy(d)' /\ ~Done(d, Foreign)'
      BY <1>2, <1>4, <1>5, <1>10, <1>11, <2>2 DEF TaskEnded, Own, Foreign
    <3>2. \A v \in TaskIds : v # ServerFor(d) => servers'[v].client # d
      BY <1>7, <1>9, <2>2
    <3>3. ~Strays(d)'
      BY <3>1, <3>2 DEF Strays, ServerFor, StepOf, Doer, Done, Posted, Busy, Foreign
    <3> QED
      BY <3>3
  <2>3. CASE d = c /\ u # ServerFor(c)
    <3>1. Strays(d)
      BY <1>3, <1>5, <2>3 DEF Strays
    <3> QED
      BY <1>7, <1>11, <2>1, <2>3, <3>1 DEF CrossKept
  <2>4. CASE d # c
    <3>1. Strays(d)' => Strays(d)
      <4>1. Busy(d)' => Busy(d) /\ agents'[Doer(d)].peer = agents[Doer(d)].peer
        BY <1>4, ClientFacts DEF TaskEnded
      <4>2. Done(d, Foreign)' => Done(d, Foreign)
        BY <1>11, <2>4
      <4>3. \A v \in TaskIds : servers'[v].client = d => servers[v].client = d
        BY <1>6, <1>7, <2>4
      <4> QED
        BY <4>1, <4>2, <4>3 DEF Strays, ServerFor, StepOf, Doer, Foreign, Own, Done, Posted
    <3> QED
      BY <1>3, <1>7, <1>11, <2>1, <3>1 DEF CrossKept
  <2> QED
    BY <2>2, <2>3, <2>4
<1>16. CrossInv'
  BY <1>4, <1>15, CrossInvKept DEF Inv, HostInv, TaskEnded
<1>17. MeasurementInv'
  BY <1>14 DEF MeasurementInv, Clients, StepOf
<1> QED
  BY <1>4, <1>7, <1>12, <1>13, <1>16, <1>17 DEF HostInv, TaskEnded

\* Among two Runs a client finds a stranger on its port only when its own server
\* has failed or gone.  Otherwise its own server has served another client d; the
\* server of d had failed then, and the stranger belongs to neither Run.
LEMMA Stranger ==
  ASSUME Inv, AmongTwo, NEW c \in Clients, Busy(c), NEW u \in TaskIds,
         servers[u].state = "listening", Doer(u) # Doer(c),
         StepOf(u).port = StepOf(c).port, u # ServerFor(c)
  PROVE  Broken(c)
<1> DEFINE v == ServerFor(c)
<1>1. /\ c \in TaskIds /\ v \in TaskIds /\ Doer(v) # Doer(c) /\ StepOf(v).port = StepOf(c).port
      /\ Doer(c) \in Agents /\ Doer(u) \in Agents /\ Doer(v) \in Agents
  BY ClientFacts, TaskIdFacts
<1>2. tasks[c].claimed /\ tasks[c].status # "completed" /\ tasks[v].claimed
  <2>1. tasks[c].claimed /\ tasks[c].status # "completed"
    BY <1>1, ClaimedFirst
  <2>2. tasks[v].status = "completed" /\ RowSound(v)
    BY <1>1, <2>1, MeasurementOrder DEF Inv, RowInv
  <2> QED
    BY <2>1, <2>2 DEF RowSound
<1>3. \A e \in {Own, Foreign} : ~Done(Collection(c), e)
  BY <1>2 DEF Inv, HostInv, MeasurementInv, ClientSound
<1>4. ~Live(v)
  <2>1. Doer(u) = Doer(v)
    BY <1>1 DEF Agents
  <2> QED
    BY <1>1, <2>1 DEF Live, Inv, HostInv, PortInv
<1>5. PICK k \in Clients : u = ServerFor(k)
  BY LiveServer, MeasurementTasks DEF Live
<1>6. k # c /\ tasks[u].claimed
  BY <1>5, LiveServer DEF Live, Past
<1>7. ASSUME servers[v].state = "served" PROVE FALSE
  <2>1. PICK d : d = servers[v].client
    OBVIOUS
  <2>2. d \in Clients /\ d \in TaskIds /\ tasks[d].claimed /\ d # c
    BY <1>1, <1>7, <2>1 DEF Inv, HostInv, ServerInv, ServerSound, Clients, Past
  <2>3. tasks[ServerFor(d)].claimed
    BY <2>2, MeasurementOrder, ClientFacts DEF Inv, RowInv, RowSound
  <2>4. v # ServerFor(d)
    BY <2>2, ClientsApart
  <2>5. Broken(d)
    <3>1. Strays(d)
      BY <1>1, <2>1, <2>4 DEF Strays
    <3> QED
      BY <2>2, <3>1 DEF Inv, HostInv, CrossInv, Broken
  <2>6. u # ServerFor(d) /\ k # d
    BY <1>5, <2>5 DEF Broken
  <2>7. /\ c = <<c[1], c[2]>> /\ d = <<d[1], d[2]>> /\ k = <<k[1], k[2]>>
        /\ c[2] \in Int /\ d[2] \in Int /\ k[2] \in Int /\ u[1] = k[1]
    BY <1>5, <2>2, ClientFacts
  <2>8. c[1] # d[1]
    <3>1. SUFFICES ASSUME c[1] = d[1] PROVE FALSE
      OBVIOUS
    <3>2. CASE d[2] < c[2]
      BY <1>2, <2>2, <2>5, <3>1, <3>2, Earlier DEF Broken
    <3>3. CASE c[2] < d[2]
      BY <1>2, <2>2, <2>3, <3>1, <3>3, Earlier
    <3> QED
      BY <2>2, <2>7, <3>1, <3>2, <3>3
  <2>9. k[1] # c[1]
    <3>1. SUFFICES ASSUME k[1] = c[1] PROVE FALSE
      OBVIOUS
    <3>2. CASE k[2] < c[2]
      BY <1>2, <1>5, <3>1, <3>2, Earlier
    <3>3. CASE c[2] < k[2]
      BY <1>2, <1>5, <1>6, <3>1, <3>3, Earlier
    <3> QED
      BY <1>6, <2>7, <3>1, <3>2, <3>3
  <2>10. k[1] # d[1]
    <3>1. SUFFICES ASSUME k[1] = d[1] PROVE FALSE
      OBVIOUS
    <3>2. CASE k[2] < d[2]
      BY <1>5, <2>2, <2>3, <3>1, <3>2, Earlier
    <3>3. CASE d[2] < k[2]
      BY <1>5, <1>6, <2>2, <2>5, <3>1, <3>3, Earlier DEF Broken
    <3> QED
      BY <2>6, <2>7, <3>1, <3>2, <3>3
  <2>11. c[1] \in Admitted /\ d[1] \in Admitted /\ k[1] \in Admitted
    BY <1>1, <1>2, <1>6, <2>2, <2>7, ClaimedFirst
  <2> QED
    BY <2>8, <2>9, <2>10, <2>11 DEF AmongTwo
<1>8. servers[v] \in Server
  BY <1>1 DEF Inv, TypeOK
<1> QED
  BY <1>3, <1>4, <1>7, <1>8 DEF Broken, Live, Server

LEMMA ConnectKeeps ==
  ASSUME Inv, NEW a \in Agents, NEW u \in TaskIds, Connect(a, u)
  PROVE  Inv'
<1>0. PICK c : c = agents[a].task
  OBVIOUS
<1> DEFINE s == [servers[u] EXCEPT !.state = "serving"]
           g == [agents[a] EXCEPT !.peer = u]
<1>1. /\ agents[a].mode = "busy" /\ StepOf(c).kind = "client" /\ agents[a].peer = NoTask
      /\ servers[u].state = "listening" /\ StepOf(u).agent # a
      /\ StepOf(u).port = StepOf(c).port
      /\ UNCHANGED <<tasks, tracked, runs, worker, cancelled, canceller, restarts>>
      /\ servers' = [servers EXCEPT ![u] = s] /\ agents' = [agents EXCEPT ![a] = g]
  BY <1>0 DEF Connect, Executes, AgentStep
<1>2. /\ c \in TaskIds /\ c \in Clients /\ Doer(c) = a /\ Busy(c) /\ agents[a] \in Agent
      /\ AgentSound(a)
  BY <1>0, <1>1, Standing, MeasurementTasks DEF Busy
<1>3. servers[u].client = NoTask /\ StepOf(u).kind = "server-start" /\ Past(u)
  BY <1>1, LiveServer DEF Live
<1>4. s \in Server /\ s.state = "serving" /\ s.client = NoTask
  BY <1>3, ServerRecords DEF Inv, TypeOK
<1>5. /\ g \in Agent /\ g.mode = "busy" /\ g.task = c /\ g.peer = u
  BY <1>0, <1>1, <1>2, Zenon DEF Agent
<1> HIDE DEF s, g
<1>6. /\ servers' \in [TaskIds -> Server] /\ tracked' \subseteq TaskIds /\ servers'[u] = s
      /\ \A v \in TaskIds : v # u => servers'[v] = servers[v] /\ (v \in tracked' => v \in tracked)
  BY <1>1, <1>4 DEF Inv, TypeOK
<1>7. GoesOn(a, g)
  BY <1>1, AgentMoves
<1>8. /\ \A t \in TaskIds : (Busy(t)' <=> Busy(t)) /\ (Past(t) => Past(t)')
      /\ \A t \in TaskIds, e \in {Own, Foreign} : Done(t, e)' <=> Done(t, e)
  <2>1. \A t \in TaskIds : /\ Busy(t)' <=> Busy(t)
                           /\ \A e \in {Own, Foreign} : Posted(t, e)' <=> Posted(t, e)
    BY <1>0, <1>1, <1>5, <1>7 DEF GoesOn, Busy, Posted
  <2> QED
    BY <1>1, <2>1 DEF Past, Done
<1>9. AgentInv'
  <2>1. AgentSound(a)'
    <3>1. tasks[c].claimed /\ tasks[c].status # "completed"
      BY <1>2, ClaimedFirst
    <3>2. agents'[a] = g /\ UNCHANGED tasks
      BY <1>1, <1>7 DEF GoesOn
    <3> QED
      BY <1>1, <1>2, <1>5, <3>1, <3>2 DEF AgentSound, Doer, StepOf
  <2>2. ASSUME NEW b \in Agents, b # a PROVE AgentSound(b)'
    BY <1>1, <1>7, <2>2, AgentKept DEF Inv, HostInv, AgentInv, GoesOn
  <2> QED
    BY <2>1, <2>2 DEF AgentInv
<1>10. ServerInv'
  <2>1. ServerSound(u)'
    BY <1>3, <1>4, <1>6, <1>8 DEF ServerSound, StepOf
  <2> QED
    BY <1>6, <1>8, <2>1, ServerInvKept DEF Inv, HostInv
<1>11. PortInv'
  <2>1. \A v \in TaskIds : Live(v)' => Live(v)
    BY <1>1, <1>6 DEF Live
  <2> QED
    BY <2>1 DEF Inv, HostInv, PortInv, Doer, StepOf
<1>12. ASSUME NEW d \in Clients PROVE ClientSound(d)'
  <2>1. /\ ServerFor(d) \in TaskIds /\ Collection(d) \in TaskIds /\ d \in TaskIds
        /\ ClientSound(d)
    BY ClientFacts DEF Inv, HostInv, MeasurementInv
  <2>2. \/ servers'[ServerFor(d)] = servers[ServerFor(d)]
        \/ servers'[ServerFor(d)].client = servers[ServerFor(d)].client
             /\ servers'[ServerFor(d)].state # "none" /\ servers[ServerFor(d)].state # "none"
    <3>1. CASE ServerFor(d) = u
      BY <1>1, <1>3, <1>4, <1>6, <3>1
    <3>2. CASE ServerFor(d) # u
      BY <1>6, <2>1, <3>2
    <3> QED
      BY <3>1, <3>2
  <2> QED
    BY <1>1, <1>8, <2>1, <2>2, ClientKept
<1>13. ASSUME NEW d \in Clients PROVE CrossKept(d) \/ (AmongTwo /\ Strays(d)' => Broken(d)')
  <2>1. /\ ServerFor(d) \in TaskIds /\ Collection(d) \in TaskIds /\ d \in TaskIds /\ Doer(d) \in Agents
    BY ClientFacts, TaskIdFacts
  <2>2. \A v \in TaskIds : servers'[v].client = servers[v].client
    BY <1>3, <1>4, <1>6
  <2>3. servers'[ServerFor(d)] = servers[ServerFor(d)]
          \/ servers[ServerFor(d)].state \notin {"none", "failed"}
    BY <1>1, <1>6, <2>1
  <2>4. CASE d # c
    <3>1. Busy(d)' => Busy(d) /\ agents'[Doer(d)].peer = agents[Doer(d)].peer
      <4>1. Busy(d) => Doer(d) # a
        BY <1>0, <2>4 DEF Busy
      <4> QED
        BY <1>7, <1>8, <2>1, <4>1 DEF GoesOn
    <3>2. Strays(d)' => Strays(d)
      BY <1>8, <2>1, <2>2, <3>1 DEF Strays, ServerFor, StepOf, Doer, Foreign, Own, Done, Posted
    <3> QED
      BY <1>8, <2>1, <2>3, <3>2 DEF CrossKept
  <2>5. CASE d = c /\ u = ServerFor(c)
    <3>1. Strays(d)' => Strays(d)
      <4>1. agents'[Doer(d)].peer = u
        BY <1>2, <1>5, <1>7, <2>5 DEF GoesOn
      <4> QED
        BY <1>8, <2>1, <2>2, <2>5, <4>1 DEF Strays, ServerFor, StepOf, Doer, Foreign, Own, Done, Posted
    <3> QED
      BY <1>8, <2>1, <2>3, <3>1 DEF CrossKept
  <2>6. CASE d = c /\ u # ServerFor(c)
    <3>1. ASSUME AmongTwo PROVE Broken(d)'
      <4>1. Doer(u) # Doer(c)
        BY <1>1, <1>2 DEF Doer
      <4>2. Broken(c)
        BY <1>1, <1>2, <2>6, <3>1, <4>1, Stranger
      <4>3. /\ servers'[ServerFor(d)].state \in {"none", "failed"}
            /\ \A e \in {Own, Foreign} : ~Done(Collection(d), e)'
        BY <1>6, <1>8, <2>1, <2>6, <4>2 DEF Broken
      <4> QED
        BY <4>3 DEF Broken, ServerFor, Collection, StepOf
    <3> QED
      BY <3>1
  <2> QED
    BY <2>4, <2>5, <2>6
<1>14. CrossInv'
  BY <1>1, <1>13, CrossInvKept DEF Inv, HostInv
<1>15. MeasurementInv'
  BY <1>12 DEF MeasurementInv, Clients, StepOf
<1>16. TasksTypeOK' /\ RowInv' /\ RowsKept
  BY <1>1, TasksKept DEF Inv, TypeOK
<1> QED
  BY <1>1, <1>5, <1>6, <1>9, <1>10, <1>11, <1>14, <1>15, <1>16, HostStep DEF HostInv

-----------------------------------------------------------------------------
(* The theorems.                                                            *)

LEMMA InitKeeps ==
  ASSUME Init PROVE Inv
<1>1. TypeOK
  <2>1. tasks \in [TaskIds -> Row]
    BY DEF Init, TasksInit, NoRow, Row, Evidence
  <2>2. runs \in [Runs -> [status : {"absent"} \cup Open \cup Terminal, cancel : BOOLEAN]]
    BY DEF Init
  <2>3. worker \in [Runs -> Worker]
    BY StepFacts DEF Init, Worker
  <2>4. agents \in [Agents -> Agent]
    BY AgentRecords DEF Init
  <2>5. servers \in [TaskIds -> Server]
    BY ServerRecords DEF Init
  <2> QED
    BY <2>1, <2>2, <2>3, <2>4, <2>5, NetworkAssumption DEF Init, TypeOK, TasksTypeOK
<1>2. \A t \in TaskIds : /\ tasks[t].status = "absent" /\ tasks[t].result = 0 /\ ~tasks[t].claimed
                         /\ servers[t].state = "none" /\ servers[t].client = NoTask
  BY DEF Init, TasksInit, NoRow, NoServer
<1>3. RowInv
  BY <1>2 DEF RowInv, RowSound
<1>4. \A r \in Runs, i \in 1..Last : ~Created(r, i)
  BY <1>2, TaskIdFacts DEF Created, Status
<1>5. ChainInv /\ RunInv
  BY <1>4 DEF ChainInv, RunInv, Init
<1>6. WorkerInv
  BY <1>4, StepFacts DEF WorkerInv, WorkerSound, Init, Advancing
<1>7. \A a \in Agents : agents[a].mode = "idle" /\ agents[a].peer = NoTask
  BY DEF Init, IdleAgent
<1>8. AgentInv
  BY <1>7 DEF AgentInv, AgentSound
<1>9. \A t \in TaskIds : ~Busy(t) /\ \A e \in {Own, Foreign} : ~Done(t, e)
  BY <1>2, <1>7, TaskIdFacts DEF Busy, Done, Posted
<1>10. ServerInv /\ PortInv
  BY <1>2 DEF Init, ServerInv, ServerSound, PortInv, Live
<1>11. MeasurementInv
  BY <1>2, <1>9, ClientFacts, TaskIdFacts DEF MeasurementInv, ClientSound, Own, Foreign
<1>12. CrossInv
  BY <1>2, <1>9, ClientFacts, TaskIdFacts DEF CrossInv, Strays, Foreign, Own
<1> QED
  BY <1>1, <1>3, <1>5, <1>6, <1>8, <1>10, <1>11, <1>12 DEF Inv, HostInv

LEMMA NextKeeps ==
  ASSUME Inv, [Next]_vars PROVE Inv'
<1>1. CASE UNCHANGED vars
  <2>1. TypeOK'
    BY <1>1 DEF vars, Inv, TypeOK, TasksTypeOK
  <2>2. TasksTypeOK' /\ RowInv' /\ RowsKept /\ QuietRows
    BY <1>1, TasksKept DEF vars, Inv, TypeOK
  <2>3. ChainInv' /\ WorkerInv' /\ RunInv'
    BY <1>1, <2>2, ChainKept, WorkersStay, RunsKept DEF vars, Inv
  <2>4. HostInv'
    BY <1>1, <2>2, HostQuiet DEF vars, Inv, Admitted
  <2> QED
    BY <2>1, <2>2, <2>3, <2>4 DEF Inv
<1>2. ASSUME NEW r \in Runs,
             Submit(r) \/ WorkerMoves(r) \/ StopTimedOut(r) \/ RequestCancel(r) \/ CancelMoves(r)
      PROVE  Inv'
  <2>1. CASE Submit(r)
    BY <2>1, SubmitKeeps
  <2>2. CASE WorkerMoves(r) \/ StopTimedOut(r)
    BY <2>2, StartThreadKeeps, ReportKeeps, CreateTaskKeeps, AwaitedKeeps, EndingsKeep, SweepKeeps,
       SettleKeeps DEF WorkerMoves
  <2>3. CASE RequestCancel(r) \/ CancelMoves(r)
    BY <2>3, CancelKeeps DEF CancelMoves
  <2> QED
    BY <1>2, <2>1, <2>2, <2>3
<1>3. ASSUME NEW a \in Agents,
             \/ TaskEnds(a) \/ PostResult(a) \/ PostResultUnanswered(a) \/ AgentCrash(a)
             \/ \E t \in TaskIds : Claim(a, t) \/ Connect(a, t)
      PROVE  Inv'
  <2>1. CASE TaskEnds(a)
    BY <2>1, StartServerKeeps, FinishClientKeeps, CollectServerKeeps, RunProbeKeeps, TaskFailsKeeps
    DEF TaskEnds
  <2>2. CASE PostResult(a) \/ PostResultUnanswered(a)
    BY <2>2, PostKeeps
  <2>3. CASE AgentCrash(a)
    BY <2>3, AgentCrashKeeps
  <2>4. CASE \E t \in TaskIds : Claim(a, t) \/ Connect(a, t)
    BY <2>4, ClaimKeeps, ConnectKeeps
  <2> QED
    BY <1>3, <2>1, <2>2, <2>3, <2>4
<1>4. ASSUME NEW u \in TaskIds, ServerExpires(u) PROVE Inv'
  BY <1>4, ServerExpiresKeeps
<1>5. CASE ControllerRestart
  BY <1>5, RestartKeeps
<1> QED
  BY <1>1, <1>2, <1>3, <1>4, <1>5 DEF Next

\* The invariant behind the theorems: the rows of a Run follow its steps, Agents
\* and servers work on what was claimed, a port has one live server, and server,
\* client and collection of a measurement tell of each other what happened.
THEOREM Invariant == Spec => []Inv
<1>1. Init => Inv
  BY InitKeeps
<1>2. Inv /\ [Next]_vars => Inv'
  BY NextKeeps
<1> QED
  BY <1>1, <1>2, PTL DEF Spec

\* Every variable of a network campaign's Runs keeps its type.
THEOREM TypeCorrect == Spec => []TypeOK
<1>1. Inv => TypeOK
  BY DEF Inv
<1> QED
  BY <1>1, Invariant, PTL

LEMMA CollectedEvidence ==
  ASSUME Inv, NEW t \in Collected
  PROVE  /\ ClientFor(t) \in Clients /\ t = Collection(ClientFor(t))
         /\ \E e \in {Own, Foreign} :
              /\ tasks[t].result = e /\ Done(t, e)
              /\ tasks[ClientFor(t)].result = e /\ Done(ClientFor(t), e)
              /\ servers[ServerFor(ClientFor(t))].state = "none"
              /\ ServerFor(ClientFor(t)) \notin tracked
<1>1. t \in TaskIds /\ tasks[t].status = "completed" /\ StepOf(t).kind = "server-collect"
  BY DEF Collected
<1>2. ClientFor(t) \in Clients /\ t = Collection(ClientFor(t))
  BY <1>1, MeasurementTasks
<1>3. tasks[t].result \in 0..2 /\ RowSound(t)
  BY <1>1 DEF Inv, TypeOK, TasksTypeOK, Row, Evidence, RowInv
<1>4. PICK e \in {Own, Foreign} : tasks[t].result = e /\ Done(t, e)
  BY <1>1, <1>3 DEF RowSound, Done, Own, Foreign
<1>5. ClientSound(ClientFor(t))
  BY <1>2 DEF Inv, HostInv, MeasurementInv
<1>6. /\ tasks[ClientFor(t)].status = "completed" /\ tasks[ClientFor(t)].result = e
      /\ servers[ServerFor(ClientFor(t))].state = "none"
      /\ ServerFor(ClientFor(t)) \notin tracked
  BY <1>2, <1>4, <1>5 DEF ClientSound
<1>7. Done(ClientFor(t), e)
  BY <1>6 DEF Done
<1> QED
  BY <1>2, <1>4, <1>6, <1>7

\* The client's and the server's evidence of a collected measurement agree, and
\* they tell of strangers only when three network Runs or more were admitted.
THEOREM EvidenceIsPaired == Spec => []EvidencePaired
<1>1. ASSUME Inv PROVE EvidencePaired
  <2>1. ASSUME NEW t \in Collected
        PROVE  /\ tasks[t].result = tasks[ClientFor(t)].result
               /\ tasks[t].result = Foreign => \A p, q \in Runs : \E r \in Admitted : r \notin {p, q}
    <3> DEFINE c == ClientFor(t)
    <3>1. c \in Clients /\ t = Collection(c)
      BY <1>1, CollectedEvidence
    <3>2. PICK e \in {Own, Foreign} : /\ tasks[t].result = e /\ Done(t, e)
                                      /\ tasks[c].result = e /\ Done(c, e)
      BY <1>1, CollectedEvidence
    <3> HIDE DEF c
    <3>3. ASSUME e = Foreign PROVE ~AmongTwo
      <4>1. Strays(c) /\ Done(Collection(c), e)
        BY <3>1, <3>2, <3>3 DEF Strays
      <4> QED
        BY <1>1, <3>1, <4>1 DEF Inv, HostInv, CrossInv
    <3> QED
      BY <3>2, <3>3 DEF AmongTwo, c
  <2> QED
    BY <2>1 DEF EvidencePaired
<1>2. Inv => EvidencePaired
  BY <1>1
<1> QED
  BY <1>2, Invariant, PTL

\* A completed Run has completed every task, and its servers were all collected.
THEOREM NothingLeft == Spec => []CompletedRunLeftNothing
<1>1. ASSUME Inv PROVE CompletedRunLeftNothing
  <2>1. ASSUME NEW t \in TaskIds, runs[t[1]].status = "completed"
        PROVE  tasks[t].status = "completed" /\ ~Live(t) /\ t \notin tracked
    <3>1. \A u \in TaskIds : u[1] = t[1] => tasks[u].status = "completed"
      BY <1>1, <2>1, TaskIdFacts DEF Inv, RunInv, Status
    <3>2. CASE StepOf(t).kind = "server-start"
      <4>1. PICK c \in Clients : t = ServerFor(c)
        BY <3>2, MeasurementTasks
      <4>2. Collection(c) \in TaskIds /\ Collection(c)[1] = t[1] /\ ClientFor(Collection(c)) = c
            /\ StepOf(Collection(c)).kind = "server-collect"
        BY <4>1, ClientFacts
      <4>3. Collection(c) \in Collected
        BY <3>1, <4>2 DEF Collected
      <4> QED
        BY <1>1, <3>1, <4>1, <4>2, <4>3, CollectedEvidence DEF Live
    <3>3. CASE StepOf(t).kind # "server-start"
      BY <1>1, <3>1, <3>3 DEF Inv, HostInv, ServerInv, ServerSound, Live
    <3> QED
      BY <3>2, <3>3
  <2> QED
    BY <2>1 DEF CompletedRunLeftNothing
<1>2. Inv => CompletedRunLeftNothing
  BY <1>1
<1> QED
  BY <1>2, Invariant, PTL

=============================================================================

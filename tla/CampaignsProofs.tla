--------------------------- MODULE CampaignsProofs ---------------------------
(***************************************************************************)
(* Proofs about Campaigns, for any number of Agents, Runs, campaigns, days *)
(* and releases.                                                           *)
(*                                                                         *)
(* A campaign is projected from Runs that change under it and against a    *)
(* release that changes too.  The invariant therefore speaks of what each  *)
(* campaign has under its own release: there its baseline is valid and its *)
(* windows are of different days, whatever is installed now.               *)
(***************************************************************************)
EXTENDS Campaigns, FiniteSetTheorems, WellFoundedInduction, TLAPS

-----------------------------------------------------------------------------
(* The inductive invariant. *)

OwnRelease(c) == [s \in Suites |-> campaigns[c].version]

(* Attempt r is a window of campaign c while c's release is installed. *)
Counts(c, r) ==
    IF CampaignKind(c) = "network" THEN NetworkAttemptValid(campaigns[c], runs[r])
    ELSE StorageAttemptValid(campaigns[c], runs[r], OwnRelease(c))

Counting(c) == {r \in Attempts(c, runs) : Counts(c, r)}

(* The attempts that have taken their declared day. *)
Holds(c) == {r \in Attempts(c, runs) : Open(runs[r]) \/ Counts(c, r)}

BaselineDay(c) == IF CampaignKind(c) = "storage" THEN {campaigns[c].day} ELSE {}

OwnDays(c) == {runs[r].declared : r \in Counting(c)} \cup BaselineDay(c)

(* Nobody joins twice. *)
SessionInv ==
    /\ joining \cap Joined = {}
    /\ \A i, j \in DOMAIN members : members[i] = members[j] => i = j

(* A storage Run has a machine, and an attempt is of its campaign's suite. *)
RunInv ==
    \A r \in DOMAIN runs :
        /\ runs[r].suite = "storage" => runs[r].where \in Machines
        /\ runs[r].campaign # 0 =>
              /\ runs[r].campaign \in DOMAIN campaigns
              /\ CampaignKind(runs[r].campaign) = runs[r].suite

(* The Agents t and g measured each other. *)
Between(run, t, g) ==
    /\ Role[t] = "target" /\ Role[g] = "generator"
    /\ run.pair = {t, g}
    /\ run.topology = Assess(Scope, <<registered[t]>>, <<registered[g]>>)

(* The campaign is about t and g, as they joined. *)
About(contract, t, g) ==
    /\ Role[t] = "target" /\ Role[g] = "generator"
    /\ contract.participants = {<<t, "target", registered[t]>>, <<g, "generator", registered[g]>>}

Measures(run) == run.status \in {"running", "completed"}

(* A network Run measures two of the joined Agents, and a network campaign *)
(* is about two of them.  While exactly these are in the session they are  *)
(* the ones its windows measured; a window followed by another measured    *)
(* them, and is over.                                                      *)
PairInv ==
    /\ \A r \in DOMAIN runs : runs[r].suite = "network" =>
          /\ Paired
          /\ Measures(runs[r]) => \E t, g \in Joined : Between(runs[r], t, g)
    /\ \A c \in DOMAIN campaigns : CampaignKind(c) = "network" =>
          /\ \E t, g \in Joined : About(campaigns[c], t, g)
          /\ \A r \in Attempts(c, runs) :
                /\ Measures(runs[r]) /\ SessionParticipants = campaigns[c].participants
                   => runs[r].pair = Pinned(c)
                /\ \A q \in Attempts(c, runs) : r < q =>
                      /\ ~ Open(runs[r])
                      /\ Measures(runs[r]) => runs[r].pair = Pinned(c)

BaselineInv ==
    \A c \in DOMAIN campaigns : CampaignKind(c) = "storage" =>
        /\ campaigns[c].baseline \in DOMAIN runs
        /\ BaselineValid(campaigns[c], runs, OwnRelease(c))

(* Attempts that hold a day hold different ones, and not the baseline's. *)
WindowInv ==
    \A c \in DOMAIN campaigns :
        /\ \A r, q \in Holds(c) : runs[r].declared = runs[q].declared => r = q
        /\ \A r \in Holds(c) : runs[r].declared \notin BaselineDay(c)

(* OpenWindowIsCurrent, campaign by campaign. *)
OpenInv ==
    \A c \in DOMAIN campaigns : \A r \in OpenRuns : runs[r].campaign = c =>
        /\ runs[r].version = campaigns[c].version
        /\ ProjectedStatus(c) = "active"
        /\ Attempts(c, runs) \cap OpenRuns = {r}

(* A campaign followed by another of its subject and release was completed. *)
SuccessorInv ==
    \A c, d \in DOMAIN campaigns :
        /\ c < d
        /\ SameSubject(c, d)
        /\ campaigns[c].version = campaigns[d].version
        => Cardinality(OwnDays(c)) >= Windows

Inv ==
    /\ TypeOK
    /\ SessionInv
    /\ RunInv
    /\ PairInv
    /\ BaselineInv
    /\ WindowInv
    /\ OpenInv
    /\ SuccessorInv

-----------------------------------------------------------------------------
(* Numbers, sets and records. *)

LEMMA LeastNumber ==
    ASSUME NEW S \in SUBSET Nat, S # {}
    PROVE  \E n \in S : \A m \in S : n <= m
<1>1. PICK n \in S : \A m \in S : ~ (<<m, n>> \in OpToRel(<, Nat))
  BY NatLessThanWellFounded, WFMin
<1>2. ASSUME NEW m \in S PROVE n <= m
  <2>1. m \in Nat /\ n \in Nat
    OBVIOUS
  <2>2. m < n => <<m, n>> \in OpToRel(<, Nat)
    BY <2>1, Zenon DEF OpToRel
  <2>3. ~ (m < n)
    BY <1>1, <2>2, Zenon
  <2> QED
    BY <2>1, <2>3
<1> QED
  BY <1>2

LEMMA Elements ==
    ASSUME TypeOK
    PROVE  /\ DOMAIN runs = 1 .. Len(runs) /\ Len(runs) \in Nat
           /\ DOMAIN campaigns = 1 .. Len(campaigns) /\ Len(campaigns) \in Nat
           /\ DOMAIN members = 1 .. Len(members) /\ Len(members) \in Nat
           /\ \A r \in DOMAIN runs : runs[r] \in RunRecords
           /\ \A c \in DOMAIN campaigns : campaigns[c] \in Contracts
           /\ \A i \in DOMAIN members : members[i] \in Agents
           /\ \A i \in DOMAIN runs : i \in Nat /\ i # 0
           /\ \A i \in DOMAIN campaigns : i \in Nat /\ i # 0
BY DEF TypeOK

LEMMA RunFields ==
    ASSUME NEW run \in RunRecords
    PROVE  /\ run.suite \in Suites
           /\ run.where \in Machines \cup {Session}
           /\ run.profile \in Profiles["storage"] \cup Profiles["network"]
           /\ run.campaign \in 0 .. MaxCampaigns
           /\ run.declared \in 0 .. MaxDay
           /\ run.status \in {"queued", "running", "completed", "failed"}
           /\ run.started \in 0 .. MaxDay
           /\ run.finished \in 0 .. MaxDay
           /\ run.version \in Versions
           /\ run.sound \in BOOLEAN
           /\ run.system \in Known
           /\ run.topology \in Topologies
           /\ run.pair \in SUBSET Agents
BY DEF RunRecords

NetworkContracts ==
    [kind : {"network"}, scope : {Session}, profile : Profiles["network"], version : Versions,
     participants : SUBSET (Agents \X Roles \X Known), topology : Topologies]

StorageContracts ==
    [kind : {"storage"}, scope : Machines, version : Versions,
     profile : Profiles["storage"] \cup Profiles["network"],
     target : {TargetIdentity(s) : s \in Known}, disk : {s.disk : s \in Known},
     baseline : 1 .. MaxRuns, day : 0 .. MaxDay]

LEMMA ContractFields ==
    ASSUME NEW k \in Contracts
    PROVE  /\ k.kind \in Suites
           /\ k.version \in Versions
           /\ k.profile \in Profiles["storage"] \cup Profiles["network"]
           /\ k.kind = "network" =>
                 k.participants \in SUBSET (Agents \X Roles \X Known)
           /\ k.kind = "storage" =>
                 k.scope \in Machines /\ k.baseline \in 1 .. MaxRuns /\ k.day \in 0 .. MaxDay
<1>1. CASE k \in NetworkContracts
  BY <1>1 DEF Suites, NetworkContracts
<1>2. CASE k \in StorageContracts
  BY <1>2 DEF Suites, StorageContracts
<1> QED
  BY <1>1, <1>2 DEF Contracts, NetworkContracts, StorageContracts

-----------------------------------------------------------------------------
(* What a projection says, in terms of the campaign's own release. *)

LEMMA DaysAreDays ==
    ASSUME TypeOK, NEW c \in DOMAIN campaigns
    PROVE  OwnDays(c) \subseteq 0 .. MaxDay /\ IsFiniteSet(OwnDays(c))
<1>1. ASSUME NEW r \in Counting(c) PROVE runs[r].declared \in 0 .. MaxDay
  <2>1. r \in DOMAIN runs
    BY DEF Counting, Attempts
  <2> QED
    BY <2>1, Elements, RunFields
<1>2. CampaignKind(c) = "storage" => campaigns[c].day \in 0 .. MaxDay
  BY Elements, ContractFields DEF CampaignKind
<1>3. OwnDays(c) \subseteq 0 .. MaxDay
  BY <1>1, <1>2 DEF OwnDays, BaselineDay
<1>4. IsFiniteSet(0 .. MaxDay)
  BY CampaignsAssumption, FS_Interval
<1> QED
  BY <1>3, <1>4, FS_Subset

LEMMA DaysNext ==
    TypeOK' => \A c \in DOMAIN campaigns' : IsFiniteSet(OwnDays(c)')
<1>1. TypeOK => \A c \in DOMAIN campaigns : IsFiniteSet(OwnDays(c))
  BY DaysAreDays
<1>2. (TypeOK => \A c \in DOMAIN campaigns : IsFiniteSet(OwnDays(c)))'
  BY <1>1, PTL
<1> QED
  BY <1>2

LEMMA Kinds ==
    ASSUME TypeOK, NEW c \in DOMAIN campaigns
    PROVE  /\ CampaignKind(c) \in Suites
           /\ CampaignKind(c) = "network" \/ CampaignKind(c) = "storage"
           /\ OwnRelease(c)["storage"] = campaigns[c].version
           /\ OwnRelease(c)["network"] = campaigns[c].version
<1>1. campaigns[c].kind \in Suites
  BY Elements, ContractFields
<1> QED
  BY <1>1 DEF CampaignKind, Suites, OwnRelease

(* Only the storage version of a release is asked. *)
LEMMA SameRelease ==
    ASSUME NEW k, NEW run, NEW rel, NEW other, rel["storage"] = other["storage"]
    PROVE  /\ StorageResultValid(k, run, rel) <=> StorageResultValid(k, run, other)
           /\ StorageAttemptValid(k, run, rel) <=> StorageAttemptValid(k, run, other)
BY DEF StorageAttemptValid, StorageResultValid, ResultAccepted, MeasurementComplete

LEMMA OtherRelease ==
    ASSUME NEW k, NEW run, NEW rel, rel["storage"] # k.version
    PROVE  ~ StorageResultValid(k, run, rel) /\ ~ StorageAttemptValid(k, run, rel)
BY DEF StorageAttemptValid, StorageResultValid, ResultAccepted, MeasurementComplete

Current(c) == installed[CampaignKind(c)] = campaigns[c].version

LEMMA NetworkProjection ==
    ASSUME TypeOK, NEW c \in DOMAIN campaigns, CampaignKind(c) = "network"
    PROVE  /\ ValidAttempts(c) = Counting(c)
           /\ \A rel : WindowsUnder(c, rel) = OwnDays(c)
           /\ ProjectedStatus(c) = "active"
                 <=> Current(c) /\ ~ (Cardinality(OwnDays(c)) >= Windows)
<1>1. ValidAttempts(c) = Counting(c)
  BY DEF ValidAttempts, Counting, Counts
<1>2. NetworkDays(campaigns[c], c, runs) = OwnDays(c)
  BY DEF NetworkDays, OwnDays, Counting, Counts, BaselineDay
<1> QED
  BY <1>1, <1>2 DEF WindowsUnder, ProjectedStatus, NetworkStatus, CampaignKind, Current

(* A storage campaign under its own release, and under any other one. *)
LEMMA UnderItsRelease ==
    ASSUME TypeOK, BaselineInv, WindowInv,
           NEW c \in DOMAIN campaigns, CampaignKind(c) = "storage",
           NEW rel, rel["storage"] = campaigns[c].version
    PROVE  /\ BaselineValid(campaigns[c], runs, rel)
           /\ {r \in Attempts(c, runs) : StorageAttemptValid(campaigns[c], runs[r], rel)}
                 = Counting(c)
           /\ CountedAttempts(campaigns[c], c, runs, rel) = Counting(c)
           /\ WindowsUnder(c, rel) = OwnDays(c)
<1>1. OwnRelease(c)["storage"] = rel["storage"]
  BY Kinds
<1>2. BaselineValid(campaigns[c], runs, rel)
  BY <1>1, SameRelease DEF BaselineInv, BaselineValid
<1>3. ASSUME NEW r
      PROVE  StorageAttemptValid(campaigns[c], runs[r], rel) <=> Counts(c, r)
  BY <1>1, SameRelease, CampaignKind(c) # "network" DEF Counts
<1>4. {r \in Attempts(c, runs) : StorageAttemptValid(campaigns[c], runs[r], rel)} = Counting(c)
  BY <1>3 DEF Counting
<1>5. {r \in StorageAttempts(c, runs) : StorageAttemptValid(campaigns[c], runs[r], rel)}
        = Counting(c)
  BY <1>4 DEF StorageAttempts, Attempts
<1>6. ASSUME NEW r \in Counting(c)
      PROVE  /\ runs[r].finished = runs[r].declared
             /\ runs[r].finished # campaigns[c].day
             /\ \A q \in Counting(c) : runs[q].finished = runs[r].finished => r <= q
  <2>1. \A q \in Counting(c) : q \in Holds(c) /\ runs[q].declared = runs[q].finished /\ q \in Nat
    BY Elements, CampaignKind(c) # "network"
    DEF Counting, Holds, Counts, StorageAttemptValid, Attempts
  <2>2. runs[r].declared \notin BaselineDay(c)
    BY <2>1 DEF WindowInv
  <2>3. \A q \in Counting(c) : runs[q].finished = runs[r].finished => r = q
    BY <2>1 DEF WindowInv
  <2> QED
    BY <2>1, <2>2, <2>3 DEF BaselineDay
<1>7. CountedAttempts(campaigns[c], c, runs, rel) = Counting(c)
  BY <1>5, <1>6 DEF CountedAttempts
<1>8. StorageDays(campaigns[c], c, runs, rel)
        = {runs[r].finished : r \in Counting(c)} \cup {campaigns[c].day}
  BY <1>2, <1>7 DEF StorageDays
<1>9. {runs[r].finished : r \in Counting(c)} = {runs[r].declared : r \in Counting(c)}
  BY <1>6
<1>10. WindowsUnder(c, rel) = OwnDays(c)
  BY <1>8, <1>9 DEF WindowsUnder, OwnDays, BaselineDay
<1> QED
  BY <1>2, <1>4, <1>7, <1>10

LEMMA UnderAnother ==
    ASSUME NEW c \in DOMAIN campaigns, CampaignKind(c) = "storage",
           NEW rel, rel["storage"] # campaigns[c].version
    PROVE  /\ ~ BaselineValid(campaigns[c], runs, rel)
           /\ {r \in Attempts(c, runs) : StorageAttemptValid(campaigns[c], runs[r], rel)} = {}
           /\ CountedAttempts(campaigns[c], c, runs, rel) = {}
           /\ WindowsUnder(c, rel) = {}
<1>1. ~ BaselineValid(campaigns[c], runs, rel)
  BY OtherRelease DEF BaselineValid
<1>2. ASSUME NEW r PROVE ~ StorageAttemptValid(campaigns[c], runs[r], rel)
  BY OtherRelease
<1>3. CountedAttempts(campaigns[c], c, runs, rel) = {}
  BY <1>2 DEF CountedAttempts
<1>4. WindowsUnder(c, rel) = {}
  BY <1>1, <1>3 DEF WindowsUnder, StorageDays
<1> QED
  BY <1>1, <1>2, <1>3, <1>4

LEMMA StorageProjection ==
    ASSUME TypeOK, BaselineInv, WindowInv,
           NEW c \in DOMAIN campaigns, CampaignKind(c) = "storage"
    PROVE  /\ Current(c) => ValidAttempts(c) = Counting(c)
           /\ ~ Current(c) => ValidAttempts(c) = {}
           /\ ProjectedStatus(c) = "active"
                 <=> Current(c) /\ ~ (Cardinality(OwnDays(c)) >= Windows)
<1>1. Current(c) <=> installed["storage"] = campaigns[c].version
  BY DEF Current
<1>2. ValidAttempts(c) =
        {r \in Attempts(c, runs) : StorageAttemptValid(campaigns[c], runs[r], installed)}
  BY DEF ValidAttempts
<1>3. /\ ProjectedStatus(c) = StorageStatus(campaigns[c], c, runs, installed, Windows)
      /\ WindowsUnder(c, installed) = StorageDays(campaigns[c], c, runs, installed)
  BY DEF ProjectedStatus, WindowsUnder, CampaignKind
<1>4. CASE Current(c)
  BY <1>1, <1>2, <1>3, <1>4, UnderItsRelease DEF StorageStatus
<1>5. CASE ~ Current(c)
  BY <1>1, <1>2, <1>3, <1>5, UnderAnother DEF StorageStatus
<1> QED
  BY <1>4, <1>5

(* What is active, for either suite. *)
LEMMA Projection ==
    ASSUME TypeOK, BaselineInv, WindowInv, NEW c \in DOMAIN campaigns
    PROVE  /\ ProjectedStatus(c) = "active"
                 <=> Current(c) /\ ~ (Cardinality(OwnDays(c)) >= Windows)
           /\ ValidAttempts(c) \subseteq Counting(c)
BY Kinds, NetworkProjection, StorageProjection

-----------------------------------------------------------------------------
(* What a step may do to the stored Runs: a Run that is over is never      *)
(* touched again, an open one fails or keeps its declared day and version. *)

Moves ==
    /\ campaigns' = campaigns
    /\ DOMAIN runs \subseteq DOMAIN runs'
    /\ \A r \in DOMAIN runs :
          /\ runs'[r].suite = runs[r].suite
          /\ runs'[r].where = runs[r].where
          /\ runs'[r].campaign = runs[r].campaign
          /\ ~ Open(runs[r]) => runs'[r] = runs[r]
          /\ Open(runs[r]) => \/ runs'[r].status = "failed"
                              \/ /\ runs'[r].declared = runs[r].declared
                                 /\ runs'[r].version = runs[r].version

LEMMA CountsIsCompleted ==
    ASSUME NEW c, NEW r, Counts(c, r)
    PROVE  runs[r].status = "completed" /\ ~ Open(runs[r])
BY DEF Counts, NetworkAttemptValid, StorageAttemptValid, StorageResultValid, ResultAccepted, Open

LEMMA SameCampaign ==
    ASSUME NEW c, campaigns'[c] = campaigns[c]
    PROVE  /\ CampaignKind(c)' = CampaignKind(c)
           /\ OwnRelease(c)' = OwnRelease(c)
           /\ BaselineDay(c)' = BaselineDay(c)
           /\ \A r : runs'[r] = runs[r] => (Counts(c, r)' <=> Counts(c, r))
<1>1. CampaignKind(c)' = CampaignKind(c)
  BY DEF CampaignKind
<1>2. OwnRelease(c)' = OwnRelease(c)
  BY DEF OwnRelease
<1>3. BaselineDay(c)' = BaselineDay(c)
  BY <1>1 DEF BaselineDay
<1>4. ASSUME NEW r, runs'[r] = runs[r] PROVE Counts(c, r)' <=> Counts(c, r)
  BY <1>1, <1>2, <1>4 DEF Counts
<1> QED
  BY <1>1, <1>2, <1>3, <1>4

LEMMA MovedCounting ==
    ASSUME Moves, NEW c \in DOMAIN campaigns
    PROVE  /\ Counting(c) \subseteq Counting(c)'
           /\ OwnDays(c) \subseteq OwnDays(c)'
           /\ \A r \in DOMAIN runs : r \in Holds(c)' =>
                 r \in Holds(c) /\ runs'[r].declared = runs[r].declared
<1>1. campaigns'[c] = campaigns[c]
  BY DEF Moves
<1>2. ASSUME NEW r \in Counting(c) PROVE r \in Counting(c)' /\ runs'[r] = runs[r]
  <2>1. r \in DOMAIN runs /\ runs[r].campaign = c /\ Counts(c, r)
    BY DEF Counting, Attempts
  <2>2. runs'[r] = runs[r] /\ r \in DOMAIN runs'
    BY <2>1, CountsIsCompleted DEF Moves
  <2>3. Counts(c, r)'
    BY <1>1, <2>1, <2>2, SameCampaign
  <2> QED
    BY <2>1, <2>2, <2>3 DEF Counting, Attempts
<1>3. OwnDays(c) \subseteq OwnDays(c)'
  BY <1>1, <1>2, SameCampaign DEF OwnDays
<1>4. ASSUME NEW r \in DOMAIN runs, r \in Holds(c)'
      PROVE  r \in Holds(c) /\ runs'[r].declared = runs[r].declared
  <2>1. runs[r].campaign = c /\ (Open(runs'[r]) \/ Counts(c, r)')
    BY <1>4 DEF Holds, Attempts, Moves
  <2>2. CASE Open(runs[r])
    <3>1. Counts(c, r)' => runs'[r].status = "completed"
      BY DEF Counts, NetworkAttemptValid, StorageAttemptValid, StorageResultValid, ResultAccepted
    <3>2. runs'[r].status # "failed"
      BY <2>1, <3>1 DEF Open
    <3>3. runs'[r].declared = runs[r].declared
      BY <2>2, <3>2 DEF Moves
    <3> QED
      BY <2>1, <2>2, <3>3 DEF Holds, Attempts
  <2>3. CASE ~ Open(runs[r])
    <3>1. runs'[r] = runs[r]
      BY <2>3 DEF Moves
    <3>2. Counts(c, r)
      BY <1>1, <2>1, <2>3, <3>1, SameCampaign
    <3> QED
      BY <2>1, <3>1, <3>2 DEF Holds, Attempts
  <2> QED
    BY <2>2, <2>3
<1> QED
  BY <1>2, <1>3, <1>4

(* Campaigns stay, and keep the days they have under their own release. *)
Grew ==
    \A c \in DOMAIN campaigns :
        /\ c \in DOMAIN campaigns'
        /\ campaigns'[c] = campaigns[c]
        /\ OwnDays(c) \subseteq OwnDays(c)'

LEMMA MovesGrow ==
    ASSUME Moves
    PROVE  Grew
BY MovedCounting DEF Grew, Moves

LEMMA MovedBaselines ==
    ASSUME BaselineInv, Moves
    PROVE  BaselineInv'
<1> SUFFICES ASSUME NEW c \in DOMAIN campaigns, CampaignKind(c) = "storage"
             PROVE  /\ campaigns[c].baseline \in DOMAIN runs'
                    /\ BaselineValid(campaigns[c], runs', OwnRelease(c))
  BY SameCampaign DEF BaselineInv, Moves
<1>1. campaigns[c].baseline \in DOMAIN runs /\ BaselineValid(campaigns[c], runs, OwnRelease(c))
  BY DEF BaselineInv
<1>2. runs[campaigns[c].baseline].status = "completed"
  BY <1>1 DEF BaselineValid, StorageResultValid, ResultAccepted
<1>3. runs'[campaigns[c].baseline] = runs[campaigns[c].baseline]
  BY <1>1, <1>2 DEF Moves, Open
<1> QED
  BY <1>1, <1>3 DEF BaselineValid, Moves

LEMMA MovedSuccessors ==
    ASSUME TypeOK', SuccessorInv, Moves
    PROVE  SuccessorInv'
<1> SUFFICES ASSUME NEW c \in DOMAIN campaigns, NEW d \in DOMAIN campaigns,
                    c < d, SameSubject(c, d), campaigns[c].version = campaigns[d].version
             PROVE  Cardinality(OwnDays(c)') >= Windows
  BY DEF SuccessorInv, SameSubject, CampaignKind, Moves
<1>1. Cardinality(OwnDays(c)) >= Windows
  BY DEF SuccessorInv
<1>2. OwnDays(c) \subseteq OwnDays(c)'
  BY MovedCounting
<1>3. IsFiniteSet(OwnDays(c)')
  BY DaysNext DEF Moves
<1>4. /\ Cardinality(OwnDays(c)) <= Cardinality(OwnDays(c)')
      /\ Cardinality(OwnDays(c)) \in Nat /\ Cardinality(OwnDays(c)') \in Nat
  BY <1>2, <1>3, FS_Subset, FS_CardinalityType
<1> QED
  BY <1>1, <1>4, CampaignsAssumption

LEMMA MovedWindows ==
    ASSUME WindowInv, Moves,
           \A c \in DOMAIN campaigns : \A r \in Holds(c)' :
              \/ r \in DOMAIN runs
              \/ /\ Holds(c)' \subseteq DOMAIN runs \cup {r}
                 /\ Holds(c) \subseteq Counting(c)
                 /\ runs'[r].declared \notin OwnDays(c)
    PROVE  WindowInv'
<1> SUFFICES ASSUME NEW c \in DOMAIN campaigns
             PROVE  /\ \A r, q \in Holds(c)' : runs'[r].declared = runs'[q].declared => r = q
                    /\ \A r \in Holds(c)' : runs'[r].declared \notin BaselineDay(c)
  BY SameCampaign DEF WindowInv, Moves
<1>1. ASSUME NEW r \in Holds(c)', r \notin DOMAIN runs,
             NEW q \in Holds(c)', q \in DOMAIN runs
      PROVE  runs'[r].declared # runs'[q].declared
  <2>1. runs'[r].declared \notin OwnDays(c)
    BY <1>1
  <2>2. q \in Counting(c) /\ runs'[q].declared = runs[q].declared
    BY <1>1, MovedCounting
  <2> QED
    BY <2>1, <2>2 DEF OwnDays
<1>2. ASSUME NEW r \in Holds(c)', NEW q \in Holds(c)', runs'[r].declared = runs'[q].declared
      PROVE  r = q
  <2>1. CASE r \in DOMAIN runs /\ q \in DOMAIN runs
    BY <1>2, <2>1, MovedCounting DEF WindowInv
  <2>2. CASE r \notin DOMAIN runs /\ q \notin DOMAIN runs
    BY <2>2
  <2> QED
    BY <1>1, <1>2, <2>1, <2>2
<1>3. ASSUME NEW r \in Holds(c)' PROVE runs'[r].declared \notin BaselineDay(c)
  <2>1. CASE r \in DOMAIN runs
    BY <2>1, MovedCounting DEF WindowInv
  <2>2. CASE r \notin DOMAIN runs
    BY <2>2 DEF OwnDays
  <2> QED
    BY <2>1, <2>2
<1> QED
  BY <1>2, <1>3

LEMMA ProjectionNext ==
    (TypeOK /\ BaselineInv /\ WindowInv)' =>
        \A c \in DOMAIN campaigns' :
            ProjectedStatus(c)' = "active"
                 <=> Current(c)' /\ ~ (Cardinality(OwnDays(c)') >= Windows)
<1>1. TypeOK /\ BaselineInv /\ WindowInv =>
        \A c \in DOMAIN campaigns :
            ProjectedStatus(c) = "active"
                 <=> Current(c) /\ ~ (Cardinality(OwnDays(c)) >= Windows)
  BY Projection
<1>2. (TypeOK /\ BaselineInv /\ WindowInv =>
        \A c \in DOMAIN campaigns :
            ProjectedStatus(c) = "active"
                 <=> Current(c) /\ ~ (Cardinality(OwnDays(c)) >= Windows))'
  BY <1>1, PTL
<1> QED
  BY <1>2

(* The windows a campaign has under the release that installs v. *)
LEMMA WindowsAre ==
    ASSUME TypeOK, BaselineInv, WindowInv, NEW c \in DOMAIN campaigns, NEW v
    PROVE  WindowsUnder(c, [s \in Suites |-> v]) =
              IF CampaignKind(c) = "network" \/ v = campaigns[c].version THEN OwnDays(c) ELSE {}
<1>1. [s \in Suites |-> v]["storage"] = v
  BY DEF Suites
<1>2. CASE CampaignKind(c) = "network"
  BY <1>2, NetworkProjection
<1>3. CASE CampaignKind(c) = "storage"
  BY <1>1, <1>3, UnderItsRelease, UnderAnother
<1> QED
  BY <1>2, <1>3, Kinds

LEMMA WindowsNext ==
    (TypeOK /\ BaselineInv /\ WindowInv)' =>
        \A c \in DOMAIN campaigns', v \in Versions :
            WindowsUnder(c, [s \in Suites |-> v])' =
              IF CampaignKind(c)' = "network" \/ v = campaigns'[c].version
              THEN OwnDays(c)' ELSE {}
<1>1. TypeOK /\ BaselineInv /\ WindowInv =>
        \A c \in DOMAIN campaigns, v \in Versions :
            WindowsUnder(c, [s \in Suites |-> v]) =
              IF CampaignKind(c) = "network" \/ v = campaigns[c].version THEN OwnDays(c) ELSE {}
  BY WindowsAre
<1>2. (TypeOK /\ BaselineInv /\ WindowInv =>
        \A c \in DOMAIN campaigns, v \in Versions :
            WindowsUnder(c, [s \in Suites |-> v]) =
              IF CampaignKind(c) = "network" \/ v = campaigns[c].version THEN OwnDays(c) ELSE {})'
  BY <1>1, PTL
<1> QED
  BY <1>2

(* A campaign none of whose attempts closes has the same windows and stays *)
(* active.                                                                 *)
LEMMA StaysActive ==
    ASSUME TypeOK, BaselineInv, WindowInv, (TypeOK /\ BaselineInv /\ WindowInv)',
           Moves, installed' = installed,
           NEW c \in DOMAIN campaigns, ProjectedStatus(c) = "active",
           \A q \in Attempts(c, runs') : \/ Open(runs'[q])
                                         \/ q \in DOMAIN runs /\ ~ Open(runs[q])
    PROVE  ProjectedStatus(c)' = "active"
<1>1. campaigns'[c] = campaigns[c] /\ c \in DOMAIN campaigns'
  BY DEF Moves
<1>2. ASSUME NEW q \in Counting(c)'
      PROVE  q \in Counting(c) /\ runs'[q] = runs[q]
  <2>1. q \in Attempts(c, runs') /\ Counts(c, q)'
    BY DEF Counting
  <2>2. ~ Open(runs'[q])
    BY <2>1
    DEF Counts, NetworkAttemptValid, StorageAttemptValid, StorageResultValid, ResultAccepted, Open
  <2>3. q \in DOMAIN runs /\ runs'[q] = runs[q]
    BY <2>1, <2>2 DEF Moves
  <2> QED
    BY <1>1, <2>1, <2>3, SameCampaign DEF Counting, Attempts
<1>3. OwnDays(c)' = OwnDays(c)
  <2>1. Counting(c)' = Counting(c)
    BY <1>2, MovedCounting
  <2>2. {runs'[q].declared : q \in Counting(c)'} = {runs[q].declared : q \in Counting(c)}
    BY <1>2, <2>1
  <2> QED
    BY <1>1, <2>2, SameCampaign DEF OwnDays
<1>4. Current(c)' <=> Current(c)
  BY <1>1, SameCampaign DEF Current
<1> QED
  BY <1>1, <1>3, <1>4, Projection, ProjectionNext

(* A step after which no other Run is open than before. *)
LEMMA OpenWindowsMove ==
    ASSUME Inv, (TypeOK /\ BaselineInv /\ WindowInv)', Moves,
           installed' = installed, DOMAIN runs' = DOMAIN runs,
           \A r \in DOMAIN runs : Open(runs'[r]) => Open(runs[r])
    PROVE  OpenInv'
<1> SUFFICES ASSUME NEW c \in DOMAIN campaigns, NEW r \in OpenRuns', runs'[r].campaign = c
             PROVE  /\ runs'[r].version = campaigns[c].version
                    /\ ProjectedStatus(c)' = "active"
                    /\ Attempts(c, runs') \cap OpenRuns' = {r}
  BY DEF OpenInv, Moves
<1>1. r \in DOMAIN runs /\ Open(runs'[r]) /\ Open(runs[r])
  BY DEF OpenRuns
<1>2. runs[r].campaign = c
  BY <1>1 DEF Moves
<1>3. runs'[r].version = runs[r].version
  BY <1>1 DEF Moves, Open
<1>4. /\ runs[r].version = campaigns[c].version
      /\ ProjectedStatus(c) = "active"
      /\ Attempts(c, runs) \cap OpenRuns = {r}
  BY <1>1, <1>2 DEF Inv, OpenInv, OpenRuns
<1>5. Attempts(c, runs') = Attempts(c, runs)
  BY DEF Attempts, Moves
<1>6. ASSUME NEW q \in Attempts(c, runs'), ~ Open(runs'[q])
      PROVE  q \in DOMAIN runs /\ ~ Open(runs[q])
  <2>1. q \in DOMAIN runs /\ q \in Attempts(c, runs)
    BY <1>5 DEF Attempts
  <2>2. q # r
    BY <1>1, <1>6
  <2> QED
    BY <1>4, <2>1, <2>2 DEF OpenRuns
<1>7. ProjectedStatus(c)' = "active"
  BY <1>4, <1>6, StaysActive DEF Inv
<1>8. Attempts(c, runs') \cap OpenRuns' = {r}
  <2>1. ASSUME NEW q \in Attempts(c, runs') \cap OpenRuns' PROVE q = r
    <3>1. q \in Attempts(c, runs) /\ q \in OpenRuns
      BY <1>5, <2>1 DEF OpenRuns, Attempts
    <3> QED
      BY <1>4, <3>1
  <2>2. r \in Attempts(c, runs') /\ r \in OpenRuns'
    BY <1>1 DEF Attempts, OpenRuns
  <2> QED
    BY <2>1, <2>2
<1> QED
  BY <1>3, <1>4, <1>7, <1>8

LEMMA RunsMove ==
    ASSUME RunInv, Moves, DOMAIN runs' = DOMAIN runs
    PROVE  RunInv'
BY SameCampaign DEF RunInv, Moves

(* One open Run gets another record. *)
Rewrites(r, run) ==
    /\ r \in DOMAIN runs /\ Open(runs[r])
    /\ runs' = [runs EXCEPT ![r] = run]
    /\ campaigns' = campaigns /\ installed' = installed
    /\ run.suite = runs[r].suite /\ run.where = runs[r].where
    /\ run.campaign = runs[r].campaign
    /\ run.status = "failed" \/ (run.declared = runs[r].declared /\ run.version = runs[r].version)

LEMMA OneRunKeeps ==
    ASSUME Inv, TypeOK', NEW r, NEW run, Rewrites(r, run)
    PROVE  RunInv' /\ BaselineInv' /\ WindowInv' /\ OpenInv' /\ SuccessorInv' /\ Grew
<1>1. DOMAIN runs' = DOMAIN runs /\ runs'[r] = run
      /\ \A q \in DOMAIN runs : q # r => runs'[q] = runs[q]
  BY DEF Rewrites
<1>2. Moves
  BY <1>1 DEF Moves, Rewrites
<1>3. RunInv' /\ BaselineInv' /\ SuccessorInv'
  BY <1>1, <1>2, RunsMove, MovedBaselines, MovedSuccessors DEF Inv
<1>4. WindowInv'
  <2>1. \A c \in DOMAIN campaigns : \A q \in Holds(c)' : q \in DOMAIN runs
    BY <1>1 DEF Holds, Attempts
  <2> QED
    BY <1>2, <2>1, MovedWindows DEF Inv
<1>5. OpenInv'
  BY <1>1, <1>2, <1>3, <1>4, OpenWindowsMove DEF Rewrites
<1> QED
  BY <1>2, <1>3, <1>4, <1>5, MovesGrow

(* Every open Run fails, and another release may come. *)
LEMMA AllRunsFail ==
    ASSUME Inv, TypeOK', campaigns' = campaigns,
           runs' = [r \in DOMAIN runs |-> IF Open(runs[r]) THEN Failed(runs[r]) ELSE runs[r]]
    PROVE  RunInv' /\ BaselineInv' /\ WindowInv' /\ OpenInv' /\ SuccessorInv' /\ Grew
<1>1. DOMAIN runs' = DOMAIN runs
  OBVIOUS
<1>2. ASSUME NEW r \in DOMAIN runs, Open(runs[r])
      PROVE  /\ runs'[r].suite = runs[r].suite /\ runs'[r].where = runs[r].where
             /\ runs'[r].campaign = runs[r].campaign /\ runs'[r].status = "failed"
  <2>1. runs'[r] = Failed(runs[r]) /\ runs[r] \in RunRecords
    BY <1>2, Elements DEF Inv
  <2> QED
    BY <2>1 DEF Failed, RunRecords
<1>3. ASSUME NEW r \in DOMAIN runs, ~ Open(runs[r]) PROVE runs'[r] = runs[r]
  BY <1>3
<1>4. Moves
  BY <1>1, <1>2, <1>3 DEF Moves
<1>5. RunInv' /\ BaselineInv' /\ SuccessorInv'
  BY <1>1, <1>4, RunsMove, MovedBaselines, MovedSuccessors DEF Inv
<1>6. WindowInv'
  <2>1. \A c \in DOMAIN campaigns : \A q \in Holds(c)' : q \in DOMAIN runs
    BY <1>1 DEF Holds, Attempts
  <2> QED
    BY <1>4, <2>1, MovedWindows DEF Inv
<1>7. \A r \in DOMAIN runs' : ~ Open(runs'[r])
  BY <1>1, <1>2, <1>3 DEF Open
<1>8. OpenInv'
  BY <1>7 DEF OpenInv, OpenRuns
<1> QED
  BY <1>4, <1>5, <1>6, <1>8, MovesGrow

(* A queued Run is added, outside campaigns or as the next window of one. *)
Adds(run) ==
    /\ runs' = Append(runs, run)
    /\ campaigns' = campaigns /\ installed' = installed
    /\ Open(run)
    /\ run.suite = "storage" => run.where \in Machines

NextWindow(c, run) ==
    /\ CampaignKind(c) = run.suite
    /\ ProjectedStatus(c) = "active"
    /\ run.version = campaigns[c].version
    /\ \A q \in Attempts(c, runs) : ~ Open(runs[q])
    /\ run.declared \notin OwnDays(c)

LEMMA Appended ==
    ASSUME TypeOK, NEW run, Adds(run)
    PROVE  /\ Moves
           /\ DOMAIN runs' = DOMAIN runs \cup {Len(runs) + 1} /\ Len(runs) + 1 \notin DOMAIN runs
           /\ runs'[Len(runs) + 1] = run
           /\ \A q \in DOMAIN runs : runs'[q] = runs[q]
           /\ \A c \in DOMAIN campaigns :
                 /\ Attempts(c, runs) \subseteq Attempts(c, runs')
                 /\ Attempts(c, runs') \subseteq Attempts(c, runs) \cup {Len(runs) + 1}
<1>1. runs \in Seq(RunRecords)
  BY DEF TypeOK
<1>2. /\ DOMAIN runs' = DOMAIN runs \cup {Len(runs) + 1} /\ Len(runs) + 1 \notin DOMAIN runs
      /\ runs'[Len(runs) + 1] = run
      /\ \A q \in DOMAIN runs : runs'[q] = runs[q]
  BY <1>1 DEF Adds
<1>3. Moves
  BY <1>2 DEF Moves, Adds
<1> QED
  BY <1>2, <1>3 DEF Attempts

LEMMA AddKeeps ==
    ASSUME Inv, TypeOK', NEW run, Adds(run),
           run.campaign # 0 =>
              run.campaign \in DOMAIN campaigns /\ NextWindow(run.campaign, run)
    PROVE  RunInv' /\ BaselineInv' /\ WindowInv' /\ OpenInv' /\ SuccessorInv' /\ Grew
<1> DEFINE new == Len(runs) + 1
<1>1. /\ Moves
      /\ DOMAIN runs' = DOMAIN runs \cup {new} /\ new \notin DOMAIN runs
      /\ runs'[new] = run
      /\ \A q \in DOMAIN runs : runs'[q] = runs[q]
      /\ \A c \in DOMAIN campaigns :
            /\ Attempts(c, runs) \subseteq Attempts(c, runs')
            /\ Attempts(c, runs') \subseteq Attempts(c, runs) \cup {new}
  BY Appended DEF Inv
<1> HIDE DEF new
<1>2. BaselineInv' /\ SuccessorInv'
  BY <1>1, MovedBaselines, MovedSuccessors DEF Inv
<1>3. RunInv'
  <2> SUFFICES ASSUME NEW r \in DOMAIN runs'
               PROVE  /\ runs'[r].suite = "storage" => runs'[r].where \in Machines
                      /\ runs'[r].campaign # 0 =>
                            /\ runs'[r].campaign \in DOMAIN campaigns
                            /\ campaigns[runs'[r].campaign].kind = runs'[r].suite
    BY <1>1 DEF RunInv, CampaignKind, Moves
  <2>1. CASE r \in DOMAIN runs
    BY <1>1, <2>1 DEF Inv, RunInv, CampaignKind
  <2>2. CASE r = new
    BY <1>1, <2>2 DEF Adds, NextWindow, CampaignKind
  <2> QED
    BY <1>1, <2>1, <2>2
<1>4. ASSUME NEW c \in DOMAIN campaigns, new \in Attempts(c, runs')
      PROVE  c = run.campaign /\ NextWindow(c, run)
  <2>1. runs'[new].campaign = c
    BY <1>4 DEF Attempts
  <2>2. c # 0
    BY Elements DEF Inv
  <2> QED
    BY <1>1, <2>1, <2>2
<1>5. WindowInv'
  <2> SUFFICES ASSUME NEW c \in DOMAIN campaigns, NEW r \in Holds(c)', r \notin DOMAIN runs
               PROVE  /\ Holds(c)' \subseteq DOMAIN runs \cup {r}
                      /\ Holds(c) \subseteq Counting(c)
                      /\ runs'[r].declared \notin OwnDays(c)
    BY <1>1, MovedWindows DEF Inv
  <2>1. r = new /\ r \in Attempts(c, runs')
    BY <1>1 DEF Holds, Attempts
  <2>2. NextWindow(c, run)
    BY <1>4, <2>1
  <2>3. Holds(c)' \subseteq DOMAIN runs \cup {r}
    BY <1>1, <2>1 DEF Holds, Attempts
  <2>4. Holds(c) \subseteq Counting(c)
    BY <2>2 DEF Holds, Counting, NextWindow
  <2> QED
    BY <1>1, <2>1, <2>2, <2>3, <2>4 DEF NextWindow
<1>6. OpenInv'
  <2> SUFFICES ASSUME NEW c \in DOMAIN campaigns, NEW r \in OpenRuns', runs'[r].campaign = c
               PROVE  /\ runs'[r].version = campaigns[c].version
                      /\ ProjectedStatus(c)' = "active"
                      /\ Attempts(c, runs') \cap OpenRuns' = {r}
    BY <1>1 DEF OpenInv, Moves
  <2>1. \A q \in DOMAIN runs : q \in OpenRuns' <=> q \in OpenRuns
    BY <1>1 DEF OpenRuns
  <2>2. CASE r = new
    <3>1. r \in Attempts(c, runs')
      BY <1>1, <2>2 DEF Attempts
    <3>2. NextWindow(c, run)
      BY <1>4, <2>2, <3>1
    <3>3. \A q \in Attempts(c, runs') : q # new => q \in DOMAIN runs /\ ~ Open(runs[q])
      BY <1>1, <3>2 DEF NextWindow, Attempts
    <3>4. Open(runs'[new])
      BY <1>1 DEF Adds
    <3>5. ProjectedStatus(c)' = "active"
      BY <1>1, <1>2, <1>5, <3>2, <3>3, <3>4, StaysActive DEF Inv, NextWindow, Adds
    <3>6. Attempts(c, runs') \cap OpenRuns' = {r}
      BY <2>1, <2>2, <3>1, <3>3 DEF OpenRuns
    <3> QED
      BY <1>1, <2>2, <3>2, <3>5, <3>6 DEF NextWindow
  <2>3. CASE r # new
    <3>1. r \in DOMAIN runs /\ runs'[r] = runs[r] /\ r \in OpenRuns /\ r \in Attempts(c, runs)
      BY <1>1, <2>1, <2>3 DEF OpenRuns, Attempts
    <3>2. /\ runs[r].version = campaigns[c].version
          /\ ProjectedStatus(c) = "active"
          /\ Attempts(c, runs) \cap OpenRuns = {r}
      BY <3>1 DEF Inv, OpenInv
    <3>3. new \notin Attempts(c, runs')
      BY <1>4, <3>1 DEF NextWindow, OpenRuns
    <3>4. Attempts(c, runs') = Attempts(c, runs)
      BY <1>1, <3>3
    <3>5. \A q \in Attempts(c, runs') : Open(runs'[q]) \/ (q \in DOMAIN runs /\ ~ Open(runs[q]))
      BY <1>1, <3>4 DEF Attempts
    <3>6. ProjectedStatus(c)' = "active"
      BY <1>1, <1>2, <1>5, <3>2, <3>5, StaysActive DEF Inv, Adds
    <3>7. Attempts(c, runs') \cap OpenRuns' = {r}
      BY <2>1, <3>2, <3>4 DEF Attempts
    <3> QED
      BY <3>1, <3>2, <3>6, <3>7
  <2> QED
    BY <2>2, <2>3
<1> QED
  BY <1>1, <1>2, <1>3, <1>5, <1>6, MovesGrow

(* A contract is added to those that are there. *)
Records(k) ==
    /\ campaigns' = Append(campaigns, k)
    /\ runs' = runs /\ installed' = installed
    /\ k.kind \in Suites /\ k.version = installed[k.kind]
    /\ ActiveFor(k) = {}
    /\ k.kind = "storage" =>
          /\ k.baseline \in DOMAIN runs
          /\ StorageResultValid(k, runs[k.baseline], installed)
          /\ runs[k.baseline].finished = k.day

LEMMA OthersKept ==
    ASSUME TypeOK, RunInv, NEW k, Records(k)
    PROVE  /\ DOMAIN campaigns' = DOMAIN campaigns \cup {Len(campaigns) + 1}
           /\ Len(campaigns) + 1 \notin DOMAIN campaigns
           /\ \A c \in DOMAIN campaigns : c < Len(campaigns) + 1
           /\ campaigns'[Len(campaigns) + 1] = k
           /\ Attempts(Len(campaigns) + 1, runs) = {}
           /\ \A c \in DOMAIN campaigns :
                 /\ campaigns'[c] = campaigns[c]
                 /\ CampaignKind(c)' = CampaignKind(c)
                 /\ Counting(c)' = Counting(c)
                 /\ Holds(c)' = Holds(c)
                 /\ OwnDays(c)' = OwnDays(c)
<1> DEFINE new == Len(campaigns) + 1
<1>1. campaigns \in Seq(Contracts)
  BY DEF TypeOK
<1>2. /\ DOMAIN campaigns' = DOMAIN campaigns \cup {new} /\ new \notin DOMAIN campaigns
      /\ \A c \in DOMAIN campaigns : c < new
      /\ campaigns'[new] = k
      /\ \A c \in DOMAIN campaigns : campaigns'[c] = campaigns[c]
      /\ new # 0
  BY <1>1 DEF Records
<1> HIDE DEF new
<1>3. Attempts(new, runs) = {}
  BY <1>2 DEF Attempts, RunInv
<1>4. ASSUME NEW c \in DOMAIN campaigns
      PROVE  /\ CampaignKind(c)' = CampaignKind(c)
             /\ Counting(c)' = Counting(c)
             /\ Holds(c)' = Holds(c)
             /\ OwnDays(c)' = OwnDays(c)
  <2>1. /\ CampaignKind(c)' = CampaignKind(c)
        /\ BaselineDay(c)' = BaselineDay(c)
        /\ \A r : Counts(c, r)' <=> Counts(c, r)
    BY <1>2, SameCampaign DEF Records
  <2>2. Attempts(c, runs') = Attempts(c, runs)
    BY DEF Records
  <2>3. Counting(c)' = Counting(c) /\ Holds(c)' = Holds(c)
    BY <2>1, <2>2 DEF Counting, Holds, Records
  <2>4. OwnDays(c)' = OwnDays(c)
    BY <2>1, <2>3 DEF OwnDays, Records
  <2> QED
    BY <2>1, <2>3, <2>4
<1> QED
  BY <1>2, <1>3, <1>4 DEF new

LEMMA RecordKeeps ==
    ASSUME Inv, TypeOK', NEW k, Records(k)
    PROVE  RunInv' /\ BaselineInv' /\ WindowInv' /\ OpenInv' /\ SuccessorInv' /\ Grew
<1>0. PICK new : new = Len(campaigns) + 1
  OBVIOUS
<1>1. /\ DOMAIN campaigns' = DOMAIN campaigns \cup {new} /\ new \notin DOMAIN campaigns
      /\ \A c \in DOMAIN campaigns : c < new
      /\ campaigns'[new] = k
      /\ Attempts(new, runs) = {}
      /\ \A c \in DOMAIN campaigns :
            /\ campaigns'[c] = campaigns[c]
            /\ CampaignKind(c)' = CampaignKind(c)
            /\ Counting(c)' = Counting(c)
            /\ Holds(c)' = Holds(c)
            /\ OwnDays(c)' = OwnDays(c)
      /\ new \in Nat /\ \A c \in DOMAIN campaigns : c \in Nat
  <2>1. new \in Nat /\ \A c \in DOMAIN campaigns : c \in Nat
    BY <1>0, Elements DEF Inv
  <2>2. TypeOK /\ RunInv
    BY DEF Inv
  <2> QED
    BY <1>0, <2>1, <2>2, OthersKept
<1>2. /\ CampaignKind(new)' = k.kind
      /\ OwnRelease(new)' = [s \in Suites |-> k.version]
      /\ Holds(new)' = {}
  <2>1. CampaignKind(new)' = k.kind /\ OwnRelease(new)' = [s \in Suites |-> k.version]
    BY <1>1 DEF CampaignKind, OwnRelease
  <2>2. Attempts(new, runs') = {}
    BY <1>1 DEF Records
  <2> QED
    BY <2>1, <2>2 DEF Holds
<1>3. RunInv'
  BY <1>1 DEF Inv, RunInv, Records
<1>4. BaselineInv'
  <2> SUFFICES ASSUME NEW c \in DOMAIN campaigns', CampaignKind(c)' = "storage"
               PROVE  /\ campaigns'[c].baseline \in DOMAIN runs
                      /\ BaselineValid(campaigns'[c], runs, OwnRelease(c)')
    BY DEF BaselineInv, Records
  <2>1. CASE c \in DOMAIN campaigns
    BY <1>1, <2>1, SameCampaign DEF Inv, BaselineInv
  <2>2. CASE c = new
    <3>1. k.kind = "storage" /\ campaigns'[c] = k
      BY <1>1, <1>2, <2>2
    <3>2. OwnRelease(c)'["storage"] = installed["storage"]
      BY <1>2, <2>2, <3>1 DEF Suites, Records
    <3> QED
      BY <3>1, <3>2, SameRelease DEF BaselineValid, Records
  <2> QED
    BY <1>1, <2>1, <2>2
<1>5. WindowInv'
  <2> SUFFICES ASSUME NEW c \in DOMAIN campaigns'
               PROVE  /\ \A r, q \in Holds(c)' : runs'[r].declared = runs'[q].declared => r = q
                      /\ \A r \in Holds(c)' : runs'[r].declared \notin BaselineDay(c)'
    BY DEF WindowInv
  <2>1. CASE c \in DOMAIN campaigns
    BY <1>1, <2>1, SameCampaign DEF Inv, WindowInv, Records
  <2>2. CASE c = new
    BY <1>2, <2>2
  <2> QED
    BY <1>1, <2>1, <2>2
<1>6. ASSUME NEW c \in DOMAIN campaigns
      PROVE  /\ c \in DOMAIN campaigns'
             /\ Current(c)' = Current(c)
             /\ ProjectedStatus(c)' = "active" <=> ProjectedStatus(c) = "active"
  <2>1. c \in DOMAIN campaigns'
    BY <1>1
  <2>2. Current(c)' = Current(c)
    BY <1>1 DEF Current, Records
  <2>3. /\ ProjectedStatus(c) = "active"
             <=> Current(c) /\ ~ (Cardinality(OwnDays(c)) >= Windows)
        /\ ProjectedStatus(c)' = "active"
             <=> Current(c)' /\ ~ (Cardinality(OwnDays(c)') >= Windows)
    BY <1>4, <1>5, <2>1, Projection, ProjectionNext DEF Inv
  <2> QED
    BY <1>1, <2>1, <2>2, <2>3
<1>7. OpenInv'
  <2> SUFFICES ASSUME NEW c \in DOMAIN campaigns', NEW r \in OpenRuns', runs'[r].campaign = c
               PROVE  /\ runs'[r].version = campaigns'[c].version
                      /\ ProjectedStatus(c)' = "active"
                      /\ Attempts(c, runs') \cap OpenRuns' = {r}
    BY DEF OpenInv
  <2>1. r \in Attempts(c, runs) /\ r \in OpenRuns /\ OpenRuns' = OpenRuns
    BY DEF Attempts, OpenRuns, Records
  <2>2. c \in DOMAIN campaigns
    BY <1>1, <2>1
  <2> QED
    BY <1>1, <1>6, <2>1, <2>2 DEF Inv, OpenInv, Records
<1>8. SuccessorInv'
  <2> SUFFICES ASSUME NEW c \in DOMAIN campaigns', NEW d \in DOMAIN campaigns',
                      c < d, SameSubject(c, d)', campaigns'[c].version = campaigns'[d].version
               PROVE  Cardinality(OwnDays(c)') >= Windows
    BY DEF SuccessorInv
  <2>1. CASE d \in DOMAIN campaigns
    <3>1. c \in DOMAIN campaigns
      BY <1>1, <2>1
    <3>2. SameSubject(c, d)
      BY <1>1, <2>1, <3>1 DEF SameSubject
    <3> QED
      BY <1>1, <2>1, <3>1, <3>2 DEF Inv, SuccessorInv
  <2>2. CASE d = new
    <3>1. c \in DOMAIN campaigns
      BY <1>1, <2>2
    <3>2. /\ campaigns[c].kind = k.kind /\ campaigns[c].scope = k.scope
          /\ campaigns[c].profile = k.profile
          /\ k.kind = "storage" => campaigns[c].target = k.target /\ campaigns[c].disk = k.disk
          /\ campaigns[c].version = k.version
      BY <1>1, <2>2, <3>1 DEF SameSubject, CampaignKind
    <3>3. ProjectedStatus(c) # "active"
      BY <3>1, <3>2 DEF Records, ActiveFor
    <3>4. Current(c)
      BY <3>2 DEF Current, CampaignKind, Records
    <3>5. Cardinality(OwnDays(c)) >= Windows
      BY <3>1, <3>3, <3>4, Projection DEF Inv
    <3> QED
      BY <1>1, <3>1, <3>5
  <2> QED
    BY <1>1, <2>1, <2>2
<1> QED
  BY <1>1, <1>3, <1>4, <1>5, <1>7, <1>8 DEF Grew

-----------------------------------------------------------------------------
(* The pairing session. *)

LEMMA FirstUnique ==
    ASSUME TypeOK, NEW r, NEW i \in OfRole(r), \A j \in OfRole(r) : i <= j
    PROVE  FirstOf(r) = members[i]
<1>1. ASSUME NEW k \in OfRole(r), \A j \in OfRole(r) : k <= j PROVE k = i
  <2>1. k <= i /\ i <= k /\ k \in Nat /\ i \in Nat
    BY <1>1, Elements DEF OfRole
  <2> QED
    BY <2>1
<1>2. i = CHOOSE k \in OfRole(r) : \A j \in OfRole(r) : k <= j
  BY <1>1
<1> QED
  BY <1>2 DEF FirstOf

LEMMA FirstIs ==
    ASSUME TypeOK, NEW r, OfRole(r) # {}
    PROVE  /\ \E i \in OfRole(r) : FirstOf(r) = members[i] /\ \A j \in OfRole(r) : i <= j
           /\ FirstOf(r) \in Agents /\ FirstOf(r) \in Joined /\ Role[FirstOf(r)] = r
<1>1. OfRole(r) \in SUBSET Nat
  BY Elements DEF OfRole
<1>2. PICK i \in OfRole(r) : \A j \in OfRole(r) : i <= j
  BY <1>1, LeastNumber
<1>3. FirstOf(r) = members[i]
  BY <1>2, FirstUnique
<1>4. i \in DOMAIN members /\ Role[members[i]] = r
  BY DEF OfRole
<1> QED
  BY <1>2, <1>3, <1>4, Elements DEF Joined

(* The participants are told by who joined, in whatever order.             *)
LEMMA ParticipantsAre ==
    SessionParticipants =
        {<<b, Role[b], registered[b]>> : b \in {x \in Joined : Role[x] \in {"target", "generator"}}}
<1>1. {members[i] : i \in {j \in DOMAIN members : Role[members[j]] \in {"target", "generator"}}}
        = {x \in Joined : Role[x] \in {"target", "generator"}}
  BY DEF Joined
<1> QED
  BY <1>1 DEF SessionParticipants, Participants

LEMMA ParticipantsNext ==
    SessionParticipants' =
        {<<b, Role[b], registered'[b]>> : b \in {x \in Joined' : Role[x] \in {"target", "generator"}}}
<1>1. (SessionParticipants =
         {<<b, Role[b], registered[b]>> :
             b \in {x \in Joined : Role[x] \in {"target", "generator"}}})'
  BY ParticipantsAre, PTL
<1> QED
  BY <1>1

(* A place is found for an Agent among the others, who keep their order.   *)
LEMMA Inserted ==
    ASSUME TypeOK, SessionInv, NEW a \in Agents, a \notin Joined,
           NEW i \in OfRole(Role[a]) \cup {Len(members) + 1},
           members' = InsertedAt(i, a)
    PROVE  /\ members' \in Seq(Agents)
           /\ Joined' = Joined \cup {a}
           /\ \A j, k \in DOMAIN members' : members'[j] = members'[k] => j = k
           /\ \A r : OfRole(r) # {} => OfRole(r)' # {}
<1>1. PICK n : n = Len(members)
  OBVIOUS
<1>2. /\ n \in Nat /\ DOMAIN members = 1 .. n /\ i \in 1 .. n + 1
      /\ \A j \in 1 .. n : members[j] \in Agents
  BY <1>1, Elements DEF OfRole
<1>3. members' = [j \in 1 .. n + 1 |->
                    IF j < i THEN members[j] ELSE IF j = i THEN a ELSE members[j - 1]]
  BY <1>1 DEF InsertedAt
<1>4. \A j \in 1 .. n + 1 :
         /\ j < i => j \in 1 .. n /\ members'[j] = members[j]
         /\ j = i => members'[j] = a
         /\ j > i => j - 1 \in 1 .. n /\ members'[j] = members[j - 1]
  BY <1>2, <1>3
<1>5. \A j \in 1 .. n :
         /\ j < i => j \in 1 .. n + 1 /\ members'[j] = members[j]
         /\ j >= i => j + 1 \in 1 .. n + 1 /\ members'[j + 1] = members[j]
  BY <1>2, <1>3
<1>6. DOMAIN members' = 1 .. n + 1
  BY <1>3
<1>7. members' \in Seq(Agents)
  <2>1. \A j \in 1 .. n + 1 : members'[j] \in Agents
    BY <1>2, <1>4
  <2> QED
    BY <1>2, <1>3, <2>1
<1>8. Joined' = Joined \cup {a}
  <2>1. ASSUME NEW j \in 1 .. n + 1 PROVE members'[j] \in Joined \cup {a}
    <3>1. j < i \/ j = i \/ j > i
      BY <1>2
    <3> QED
      BY <1>2, <1>4, <3>1 DEF Joined
  <2>2. ASSUME NEW j \in 1 .. n PROVE members[j] \in Joined'
    <3>1. j < i \/ j >= i
      BY <1>2
    <3> QED
      BY <1>5, <1>6, <3>1 DEF Joined
  <2>3. a \in Joined'
    BY <1>2, <1>4, <1>6 DEF Joined
  <2> QED
    BY <1>2, <1>6, <2>1, <2>2, <2>3 DEF Joined
<1>9. ASSUME NEW j \in 1 .. n + 1, NEW k \in 1 .. n + 1, members'[j] = members'[k], j # k
      PROVE  FALSE
  <2>1. \A x \in 1 .. n : members[x] # a
    BY <1>2 DEF Joined
  <2>2. \A x, y \in 1 .. n : members[x] = members[y] => x = y
    BY <1>2 DEF SessionInv
  <2>3. CASE j = i \/ k = i
    BY <1>2, <1>4, <1>9, <2>1, <2>3
  <2>4. CASE j # i /\ k # i
    <3>1. PICK x \in 1 .. n : members'[j] = members[x] /\ x = (IF j < i THEN j ELSE j - 1)
      BY <1>2, <1>4, <2>4
    <3>2. PICK y \in 1 .. n : members'[k] = members[y] /\ y = (IF k < i THEN k ELSE k - 1)
      BY <1>2, <1>4, <2>4
    <3>3. x = y
      BY <1>9, <2>2, <3>1, <3>2
    <3> QED
      BY <1>2, <1>9, <2>4, <3>1, <3>2, <3>3
  <2> QED
    BY <2>3, <2>4
<1>10. ASSUME NEW r, NEW j \in OfRole(r) PROVE OfRole(r)' # {}
  <2>1. j \in 1 .. n /\ Role[members[j]] = r
    BY <1>2 DEF OfRole
  <2>2. PICK k \in 1 .. n + 1 : members'[k] = members[j]
    BY <1>2, <1>5, <2>1
  <2> QED
    BY <1>6, <2>1, <2>2 DEF OfRole
<1> QED
  BY <1>6, <1>7, <1>8, <1>9, <1>10

(* The two Agents a contract is about are told apart by their roles. *)
LEMMA AboutPair ==
    ASSUME NEW k, NEW t, NEW g, About(k, t, g)
    PROVE  /\ {p[1] : p \in k.participants} = {t, g}
           /\ \A s, h : {s, h} = {t, g} /\ Role[s] = "target" /\ Role[h] = "generator"
                       => s = t /\ h = g
<1>1. {p[1] : p \in k.participants} = {t, g}
  <2>1. PICK x, y : x = <<t, "target", registered[t]>> /\ y = <<g, "generator", registered[g]>>
    OBVIOUS
  <2>2. x[1] = t /\ y[1] = g /\ k.participants = {x, y}
    BY <2>1 DEF About
  <2> QED
    BY <2>2
<1>2. Role[t] = "target" /\ Role[g] = "generator"
  BY DEF About
<1> QED
  BY <1>1, <1>2

(* What a network Run measures now.                                        *)
LEMMA MeasuresFirst ==
    ASSUME TypeOK, Paired
    PROVE  \E t, g \in Joined :
              /\ Role[t] = "target" /\ Role[g] = "generator"
              /\ Pair = {t, g}
              /\ SessionTopology = Assess(Scope, <<registered[t]>>, <<registered[g]>>)
<1>1. /\ FirstOf("target") \in Joined /\ Role[FirstOf("target")] = "target"
      /\ FirstOf("generator") \in Joined /\ Role[FirstOf("generator")] = "generator"
  BY FirstIs DEF Paired
<1>2. SessionTopology = Assess(Scope, <<registered[FirstOf("target")]>>,
                               <<registered[FirstOf("generator")]>>)
  BY DEF SessionTopology, FirstSystem, Paired
<1> QED
  BY <1>1, <1>2 DEF Pair

(* ... which are the pinned Agents while nobody else is there.             *)
LEMMA PinnedPair ==
    ASSUME TypeOK, Paired, NEW k, NEW t, NEW g, About(k, t, g),
           SessionParticipants = k.participants
    PROVE  Pair = {t, g}
<1>1. PICK s \in Joined, h \in Joined :
         Role[s] = "target" /\ Role[h] = "generator" /\ Pair = {s, h}
  BY MeasuresFirst
<1>2. PICK x, y : x = <<s, "target", registered[s]>> /\ y = <<h, "generator", registered[h]>>
  OBVIOUS
<1>3. PICK u, v : u = <<t, "target", registered[t]>> /\ v = <<g, "generator", registered[g]>>
  OBVIOUS
<1>4. x \in SessionParticipants /\ y \in SessionParticipants
  BY <1>1, <1>2, ParticipantsAre
<1>5. SessionParticipants = {u, v}
  BY <1>3 DEF About
<1>6. x[1] = s /\ x[2] = "target" /\ y[1] = h /\ y[2] = "generator"
  BY <1>2
<1>7. u[1] = t /\ u[2] = "target" /\ v[1] = g /\ v[2] = "generator"
  BY <1>3
<1>8. s = t /\ h = g
  BY <1>4, <1>5, <1>6, <1>7
<1> QED
  BY <1>1, <1>8

LEMMA Placed ==
    ASSUME TypeOK
    PROVE  /\ SessionTopology \in Topologies
           /\ NoTopology \in Topologies
           /\ Paired => Pair \in SUBSET Agents
<1>1. ASSUME NEW ts, NEW gs
      PROVE  /\ Verification(Scope, ts, gs).observed \in Scopes
             /\ Verification(Scope, ts, gs).status \in
                  {"pending", "unavailable", "derived", "compatible", "confirmed", "contradicted"}
  <2>1. CASE ts = << >> \/ gs = << >>
    BY <2>1 DEF Verification, Scopes
  <2>2. CASE ~ (ts = << >> \/ gs = << >>)
    <3>1. PICK seen : seen = ObservedScope(ts[1], gs[1])
      OBVIOUS
    <3>2. seen \in Scopes
      BY <3>1 DEF ObservedScope, Scopes
    <3>3. Verification(Scope, ts, gs) =
            [observed |-> seen,
             status |->
                 CASE seen = "undeclared" -> "unavailable"
                   [] seen # "undeclared" /\ Scope = "undeclared" -> "derived"
                   [] seen # "undeclared" /\ Scope = "public-internet" -> "compatible"
                   [] seen # "undeclared" /\ Scope = seen -> "confirmed"
                   [] Scope = "same-host" /\ seen = "same-zone" -> "compatible"
                   [] OTHER -> "contradicted"]
      BY <2>2, <3>1 DEF Verification
    <3> QED
      BY <3>2, <3>3
  <2> QED
    BY <2>1, <2>2
<1>2. SessionTopology \in Topologies
  <2>1. PICK v : v = Verification(Scope, FirstSystem("target"), FirstSystem("generator"))
    OBVIOUS
  <2>2. SessionTopology =
          [scope |-> Scope, status |-> v.status, observed |-> v.observed,
           source |-> IF Scope = "undeclared" THEN "unavailable" ELSE "operator-declared"]
    BY <2>1 DEF SessionTopology, Assess
  <2>3. v.observed \in Scopes /\ v.status \in
          {"pending", "unavailable", "derived", "compatible", "confirmed", "contradicted"}
    BY <1>1, <2>1
  <2> QED
    BY <2>2, <2>3, CampaignsAssumption DEF Topologies
<1>3. NoTopology \in Topologies
  BY DEF NoTopology, Topologies, Scopes
<1>4. Paired => Pair \in SUBSET Agents
  BY FirstIs DEF Paired, Pair
<1> QED
  BY <1>2, <1>3, <1>4

-----------------------------------------------------------------------------
(* Every action keeps the invariant. *)

LEMMA EvidenceFrame ==
    ASSUME Inv, runs' = runs, campaigns' = campaigns, installed' = installed
    PROVE  RunInv' /\ BaselineInv' /\ WindowInv' /\ OpenInv' /\ SuccessorInv' /\ Grew
<1>1. \A c : /\ CampaignKind(c)' = CampaignKind(c) /\ OwnRelease(c)' = OwnRelease(c)
             /\ BaselineDay(c)' = BaselineDay(c)
  BY DEF CampaignKind, OwnRelease, BaselineDay
<1>2. \A c, r : Counts(c, r)' <=> Counts(c, r)
  BY <1>1 DEF Counts
<1>3. \A c : Counting(c)' = Counting(c) /\ Holds(c)' = Holds(c)
  BY <1>2 DEF Counting, Holds
<1>4. \A c : OwnDays(c)' = OwnDays(c)
  BY <1>1, <1>3 DEF OwnDays
<1>5. \A c : ProjectedStatus(c)' = ProjectedStatus(c)
  BY DEF ProjectedStatus
<1>6. RunInv' /\ BaselineInv' /\ WindowInv'
  BY <1>1, <1>3 DEF Inv, RunInv, BaselineInv, WindowInv
<1>7. OpenInv'
  BY <1>5 DEF Inv, OpenInv, OpenRuns
<1>8. SuccessorInv'
  BY <1>1, <1>4 DEF Inv, SuccessorInv, SameSubject
<1>9. Grew
  <2>1. Moves
    BY DEF Moves
  <2> QED
    BY <2>1, MovesGrow
<1> QED
  BY <1>6, <1>7, <1>8, <1>9

LEMMA SessionFrame ==
    ASSUME members' = members, registered' = registered
    PROVE  /\ Paired' = Paired /\ Pair' = Pair /\ SessionTopology' = SessionTopology
           /\ Joined' = Joined /\ SessionParticipants' = SessionParticipants
           /\ SessionInv /\ joining' \subseteq joining => SessionInv'
<1>1. \A r : OfRole(r)' = OfRole(r)
  BY DEF OfRole
<1>2. \A r : FirstOf(r)' = FirstOf(r)
  BY <1>1 DEF FirstOf
<1>3. \A r : FirstSystem(r)' = FirstSystem(r)
  BY <1>1, <1>2 DEF FirstSystem
<1> QED
  BY <1>1, <1>2, <1>3
  DEF Paired, Pair, SessionTopology, Joined, SessionInv, SessionParticipants

(* The session stays; of the Runs there were, some start on the pair it    *)
(* has now and some end.                                                   *)
LEMMA PairMoves ==
    ASSUME Inv, Moves, members' = members, registered' = registered,
           DOMAIN runs' = DOMAIN runs,
           \A r \in DOMAIN runs :
              /\ Open(runs'[r]) => Open(runs[r])
              /\ runs[r].suite = "network" /\ Measures(runs'[r]) =>
                    \/ /\ Measures(runs[r])
                       /\ runs'[r].pair = runs[r].pair /\ runs'[r].topology = runs[r].topology
                    \/ /\ Open(runs[r])
                       /\ runs'[r].pair = Pair /\ runs'[r].topology = SessionTopology
    PROVE  PairInv'
<1>1. /\ Paired' = Paired /\ Joined' = Joined /\ SessionParticipants' = SessionParticipants
      /\ campaigns' = campaigns
  BY SessionFrame DEF Moves
<1>2. ASSUME NEW r \in DOMAIN runs, runs[r].suite = "network"
      PROVE  /\ Paired
             /\ Measures(runs'[r]) => \E t, g \in Joined : Between(runs'[r], t, g)
  <2>1. /\ Paired
        /\ Measures(runs[r]) => \E t, g \in Joined : Between(runs[r], t, g)
    BY <1>2 DEF Inv, PairInv
  <2>2. PICK t \in Joined, g \in Joined :
           /\ Role[t] = "target" /\ Role[g] = "generator"
           /\ Pair = {t, g}
           /\ SessionTopology = Assess(Scope, <<registered[t]>>, <<registered[g]>>)
    BY <2>1, MeasuresFirst DEF Inv
  <2> QED
    BY <1>2, <2>1, <2>2 DEF Between
<1>3. ASSUME NEW c \in DOMAIN campaigns, CampaignKind(c) = "network"
      PROVE  /\ \E t, g \in Joined : About(campaigns[c], t, g)
             /\ \A r \in Attempts(c, runs') :
                   /\ Measures(runs'[r]) /\ SessionParticipants = campaigns[c].participants
                      => runs'[r].pair = Pinned(c)
                   /\ \A q \in Attempts(c, runs') : r < q =>
                         /\ ~ Open(runs'[r])
                         /\ Measures(runs'[r]) => runs'[r].pair = Pinned(c)
  <2>1. PICK t \in Joined, g \in Joined : About(campaigns[c], t, g)
    BY <1>3 DEF Inv, PairInv
  <2>2. Pinned(c) = {t, g}
    BY <2>1, AboutPair DEF Pinned
  <2>3. Attempts(c, runs') = Attempts(c, runs)
    BY DEF Attempts, Moves
  <2>4. ASSUME NEW r \in Attempts(c, runs) PROVE r \in DOMAIN runs /\ runs[r].suite = "network"
    <3>1. r \in DOMAIN runs /\ runs[r].campaign = c
      BY DEF Attempts
    <3>2. c # 0
      BY Elements DEF Inv
    <3> QED
      BY <1>3, <3>1, <3>2 DEF Inv, RunInv
  <2>5. ASSUME NEW r \in Attempts(c, runs), Measures(runs'[r]),
               SessionParticipants = campaigns[c].participants
        PROVE  runs'[r].pair = Pinned(c)
    <3>1. CASE Measures(runs[r]) /\ runs'[r].pair = runs[r].pair
      BY <1>3, <2>5, <3>1 DEF Inv, PairInv
    <3>2. CASE runs'[r].pair = Pair
      <4>1. Paired /\ TypeOK
        BY <1>2, <2>4 DEF Inv
      <4> QED
        BY <2>1, <2>2, <2>5, <3>2, <4>1, PinnedPair
    <3> QED
      BY <2>4, <2>5, <3>1, <3>2
  <2>6. ASSUME NEW r \in Attempts(c, runs), NEW q \in Attempts(c, runs), r < q
        PROVE  /\ ~ Open(runs'[r])
               /\ Measures(runs'[r]) => runs'[r].pair = Pinned(c)
    <3>1. ~ Open(runs[r]) /\ (Measures(runs[r]) => runs[r].pair = Pinned(c))
      BY <1>3, <2>6 DEF Inv, PairInv
    <3>2. runs'[r] = runs[r]
      BY <2>4, <3>1 DEF Moves
    <3> QED
      BY <3>1, <3>2
  <2> QED
    BY <2>1, <2>3, <2>5, <2>6
<1>4. \A r \in DOMAIN runs : runs'[r].suite = runs[r].suite
  BY DEF Moves
<1>5. \A c : CampaignKind(c)' = CampaignKind(c) /\ Pinned(c)' = Pinned(c)
  BY <1>1 DEF CampaignKind, Pinned
<1> QED
  BY <1>1, <1>2, <1>3, <1>4, <1>5 DEF PairInv, Between, About

(* Nothing is stored. *)
LEMMA QuietKeeps ==
    ASSUME Inv, TypeOK', members' = members, registered' = registered, SessionInv',
           runs' = runs, campaigns' = campaigns, installed' = installed
    PROVE  Inv' /\ Grew
<1>1. Moves
  BY DEF Moves
<1>2. PairInv'
  BY <1>1, PairMoves
<1> QED
  BY <1>2, EvidenceFrame DEF Inv

LEMMA BeginJoinKeeps ==
    ASSUME Inv, NEW a \in Agents, BeginJoin(a)
    PROVE  Inv' /\ Grew
<1>1. TypeOK'
  BY CampaignsAssumption DEF Inv, TypeOK, BeginJoin
<1>2. SessionInv'
  BY SessionFrame DEF Inv, SessionInv, BeginJoin
<1> QED
  BY <1>1, <1>2, QuietKeeps DEF BeginJoin

LEMMA NewDayKeeps ==
    ASSUME Inv, NewDay
    PROVE  Inv' /\ Grew
<1>1. TypeOK'
  BY CampaignsAssumption DEF Inv, TypeOK, NewDay
<1>2. SessionInv'
  BY SessionFrame DEF Inv, NewDay
<1> QED
  BY <1>1, <1>2, QuietKeeps DEF NewDay

LEMMA MachineChangesKeeps ==
    ASSUME Inv, NEW m \in Targets \ {"controller"}, NEW s \in Systems, MachineChanges(m, s)
    PROVE  Inv' /\ Grew
<1>1. TypeOK'
  BY CampaignsAssumption DEF Inv, TypeOK, MachineChanges
<1>2. SessionInv'
  BY SessionFrame DEF Inv, MachineChanges
<1> QED
  BY <1>1, <1>2, QuietKeeps DEF MachineChanges

LEMMA AgentsFit ==
    ASSUME NEW s \in Seq(Agents), \A i, j \in DOMAIN s : s[i] = s[j] => i = j
    PROVE  Len(s) <= Cardinality(Agents)
<1>1. s \in Injection(1 .. Len(s), Agents)
  BY DEF Injection, IsInjective
<1>2. Cardinality(1 .. Len(s)) <= Cardinality(Agents)
  BY <1>1, CampaignsAssumption, FS_Injection
<1>3. Cardinality(1 .. Len(s)) = Len(s) /\ Len(s) \in Nat
  BY FS_Interval
<1> QED
  BY <1>2, <1>3

LEMMA AddAgentKeeps ==
    ASSUME Inv, NEW a \in Agents, AddAgent(a)
    PROVE  Inv' /\ Grew
<1>1. /\ joining' = joining \ {a} /\ a \in joining
      /\ registered' = [registered EXCEPT ![a] = host[a]]
      /\ registered \in [Agents -> Known]
      /\ runs' = runs /\ campaigns' = campaigns
  BY DEF Inv, TypeOK, AddAgent
<1>2. PICK i \in OfRole(Role[a]) \cup {Len(members) + 1} : members' = InsertedAt(i, a)
  BY DEF AddAgent
<1>3. a \notin Joined
  BY <1>1 DEF Inv, SessionInv
<1>4. /\ members' \in Seq(Agents)
      /\ Joined' = Joined \cup {a}
      /\ \A j, k \in DOMAIN members' : members'[j] = members'[k] => j = k
      /\ \A r : OfRole(r) # {} => OfRole(r)' # {}
  BY <1>2, <1>3, Inserted DEF Inv
<1>5. SessionInv'
  BY <1>1, <1>4 DEF Inv, SessionInv
<1>6. TypeOK'
  <2>1. Len(members') <= Cardinality(Agents)
    BY <1>4, AgentsFit
  <2>2. registered' \in [Agents -> Known]
    BY <1>1 DEF Inv, TypeOK, Machines, Known
  <2> QED
    BY <1>1, <1>4, <2>1, <2>2 DEF Inv, TypeOK, AddAgent
<1>7. \A b \in Joined : b \in Agents /\ b # a /\ registered'[b] = registered[b]
  <2>1. \A b \in Joined : b \in Agents
    BY Elements DEF Inv, Joined
  <2> QED
    BY <1>1, <1>3, <2>1
<1>8. ASSUME NEW k, NEW t \in Joined, NEW g \in Joined, About(k, t, g),
             SessionParticipants' = k.participants
      PROVE  SessionParticipants = k.participants
  <2>1. PICK mine : mine = <<a, Role[a], registered'[a]>>
    OBVIOUS
  <2>2. PICK u, v : u = <<t, "target", registered[t]>> /\ v = <<g, "generator", registered[g]>>
    OBVIOUS
  <2>3. mine \notin k.participants
    <3>1. k.participants = {u, v} /\ mine[1] = a /\ u[1] = t /\ v[1] = g
      BY <1>8, <2>1, <2>2 DEF About
    <3> QED
      BY <1>3, <3>1
  <2>4. Role[a] \notin {"target", "generator"}
    BY <1>4, <1>8, <2>1, <2>3, ParticipantsNext
  <2>5. {x \in Joined' : Role[x] \in {"target", "generator"}}
          = {x \in Joined : Role[x] \in {"target", "generator"}}
    BY <1>4, <2>4
  <2>6. SessionParticipants' = SessionParticipants
    BY <1>7, <2>5, ParticipantsAre, ParticipantsNext
  <2> QED
    BY <1>8, <2>6
<1>9. PairInv'
  <2>1. ASSUME NEW r \in DOMAIN runs, runs[r].suite = "network"
        PROVE  /\ Paired'
               /\ Measures(runs[r]) => (\E t, g \in Joined : Between(runs[r], t, g))'
    <3>1. /\ Paired
          /\ Measures(runs[r]) => \E t, g \in Joined : Between(runs[r], t, g)
      BY <2>1 DEF Inv, PairInv
    <3>2. Paired'
      BY <1>4, <3>1 DEF Paired
    <3>3. ASSUME NEW t \in Joined, NEW g \in Joined, Between(runs[r], t, g)
          PROVE  t \in Joined' /\ g \in Joined' /\ Between(runs[r], t, g)'
      BY <1>1, <1>4, <1>7, <3>3 DEF Between
    <3> QED
      BY <3>1, <3>2, <3>3
  <2>2. ASSUME NEW c \in DOMAIN campaigns, CampaignKind(c) = "network"
        PROVE  /\ (\E t, g \in Joined : About(campaigns[c], t, g))'
               /\ \A r \in Attempts(c, runs) :
                     /\ Measures(runs[r]) /\ SessionParticipants' = campaigns[c].participants
                        => runs[r].pair = Pinned(c)
                     /\ \A q \in Attempts(c, runs) : r < q =>
                           /\ ~ Open(runs[r])
                           /\ Measures(runs[r]) => runs[r].pair = Pinned(c)
    <3>1. PICK t \in Joined, g \in Joined : About(campaigns[c], t, g)
      BY <2>2 DEF Inv, PairInv
    <3>2. t \in Joined' /\ g \in Joined' /\ About(campaigns[c], t, g)'
      BY <1>1, <1>4, <1>7, <3>1 DEF About
    <3>3. SessionParticipants' = campaigns[c].participants
            => SessionParticipants = campaigns[c].participants
      BY <1>8, <3>1
    <3> QED
      BY <2>2, <3>2, <3>3 DEF Inv, PairInv
  <2>3. \A c : CampaignKind(c)' = CampaignKind(c) /\ Pinned(c)' = Pinned(c)
    BY <1>1 DEF CampaignKind, Pinned
  <2> QED
    BY <1>1, <2>1, <2>2, <2>3 DEF PairInv
<1>10. RunInv' /\ BaselineInv' /\ WindowInv' /\ OpenInv' /\ SuccessorInv' /\ Grew
  BY EvidenceFrame DEF AddAgent
<1> QED
  BY <1>5, <1>6, <1>9, <1>10 DEF Inv

(* A new Run. *)
LEMMA NewRunTyped ==
    ASSUME TypeOK, NEW suite \in Suites, NEW where \in Machines \cup {Session},
           NEW profile \in Profiles["storage"] \cup Profiles["network"],
           NEW c \in 0 .. MaxCampaigns, NEW declared \in 0 .. MaxDay
    PROVE  /\ NewRun(suite, where, profile, c, declared) \in RunRecords
           /\ NewRun(suite, where, profile, c, declared).suite = suite
           /\ NewRun(suite, where, profile, c, declared).where = where
           /\ NewRun(suite, where, profile, c, declared).campaign = c
           /\ NewRun(suite, where, profile, c, declared).declared = declared
           /\ NewRun(suite, where, profile, c, declared).status = "queued"
           /\ NewRun(suite, where, profile, c, declared).version = installed[suite]
           /\ Open(NewRun(suite, where, profile, c, declared))
<1>1. NoTopology \in Topologies /\ NoSystem \in Known /\ installed[suite] \in Versions
  BY Placed DEF Known, TypeOK
<1>2. NewRun(suite, where, profile, c, declared) \in RunRecords
  BY <1>1, CampaignsAssumption DEF NewRun, RunRecords
<1> QED
  BY <1>2 DEF NewRun, Open

LEMMA StoredKeeps ==
    ASSUME Inv, NEW run \in RunRecords, Stored(run), run.status = "queued",
           run.suite = "storage" => run.where \in Machines,
           run.suite = "network" => Paired,
           run.campaign # 0 =>
              run.campaign \in DOMAIN campaigns /\ NextWindow(run.campaign, run),
           run.campaign # 0 /\ run.suite = "network" =>
              SessionParticipants = campaigns[run.campaign].participants
    PROVE  Inv' /\ Grew
<1>1. runs' \in Seq(RunRecords) /\ Len(runs') <= MaxRuns
  BY CampaignsAssumption DEF Inv, TypeOK, Stored
<1>2. TypeOK'
  BY <1>1 DEF Inv, TypeOK, Stored
<1>3. Adds(run)
  BY DEF Adds, Stored, Open
<1>4. RunInv' /\ BaselineInv' /\ WindowInv' /\ OpenInv' /\ SuccessorInv' /\ Grew
  BY <1>2, <1>3, AddKeeps
<1>5. PICK new : new = Len(runs) + 1
  OBVIOUS
<1>6. /\ DOMAIN runs' = DOMAIN runs \cup {new}
      /\ runs'[new] = run /\ ~ Measures(run)
      /\ \A q \in DOMAIN runs : runs'[q] = runs[q] /\ ~ (new < q)
      /\ \A c \in DOMAIN campaigns :
            Attempts(c, runs') \subseteq Attempts(c, runs) \cup {new}
  <2>1. \A q \in DOMAIN runs : ~ (new < q)
    BY <1>5, Elements DEF Inv
  <2> QED
    BY <1>3, <1>5, <2>1, Appended DEF Inv, Measures
<1>7. /\ SessionInv' /\ Paired' = Paired /\ Joined' = Joined
      /\ SessionParticipants' = SessionParticipants
      /\ campaigns' = campaigns /\ registered' = registered
  BY SessionFrame DEF Inv, Stored
<1>8. ASSUME NEW r \in DOMAIN runs', runs'[r].suite = "network"
      PROVE  /\ Paired
             /\ Measures(runs'[r]) => \E t, g \in Joined : Between(runs'[r], t, g)
  <2>1. CASE r \in DOMAIN runs
    BY <1>6, <1>8, <2>1 DEF Inv, PairInv
  <2>2. CASE r = new
    BY <1>6, <1>8, <2>2
  <2> QED
    BY <1>6, <2>1, <2>2
<1>9. ASSUME NEW c \in DOMAIN campaigns, CampaignKind(c) = "network"
      PROVE  /\ \E t, g \in Joined : About(campaigns[c], t, g)
             /\ \A r \in Attempts(c, runs') :
                   /\ Measures(runs'[r]) /\ SessionParticipants = campaigns[c].participants
                      => runs'[r].pair = Pinned(c)
                   /\ \A q \in Attempts(c, runs') : r < q =>
                         /\ ~ Open(runs'[r])
                         /\ Measures(runs'[r]) => runs'[r].pair = Pinned(c)
  <2>1. \A r \in Attempts(c, runs) : r \in DOMAIN runs /\ runs'[r] = runs[r]
    BY <1>6 DEF Attempts
  <2>2. ASSUME NEW r \in Attempts(c, runs'), Measures(runs'[r]),
               SessionParticipants = campaigns[c].participants
        PROVE  runs'[r].pair = Pinned(c)
    BY <1>6, <1>9, <2>1, <2>2 DEF Inv, PairInv
  <2>3. ASSUME NEW r \in Attempts(c, runs'), NEW q \in Attempts(c, runs'), r < q
        PROVE  /\ ~ Open(runs'[r])
               /\ Measures(runs'[r]) => runs'[r].pair = Pinned(c)
    <3>1. CASE q = new /\ r \in Attempts(c, runs)
      <4>1. run.campaign = c
        BY <1>6, <3>1 DEF Attempts
      <4>2. c # 0
        BY Elements DEF Inv
      <4>3. NextWindow(c, run) /\ SessionParticipants = campaigns[c].participants
        BY <1>9, <4>1, <4>2 DEF NextWindow
      <4>4. ~ Open(runs[r])
        BY <3>1, <4>3 DEF NextWindow
      <4> QED
        BY <2>1, <2>2, <3>1, <4>3, <4>4
    <3>2. CASE q \in Attempts(c, runs) /\ r \in Attempts(c, runs)
      BY <1>9, <2>1, <2>3, <3>2 DEF Inv, PairInv
    <3>3. CASE r = new
      <4>1. q # new
        BY <1>5, <2>3, <3>3, Elements DEF Inv
      <4> QED
        BY <1>6, <2>1, <2>3, <3>3, <4>1
    <3> QED
      BY <1>6, <3>1, <3>2, <3>3
  <2> QED
    BY <1>9, <2>2, <2>3 DEF Inv, PairInv
<1>10. PairInv'
  <2>1. \A c : CampaignKind(c)' = CampaignKind(c) /\ Pinned(c)' = Pinned(c)
    BY <1>7 DEF CampaignKind, Pinned
  <2> QED
    BY <1>7, <1>8, <1>9, <2>1 DEF PairInv, Between, About
<1> QED
  BY <1>2, <1>4, <1>7, <1>10 DEF Inv

LEMMA SubmitStorageKeeps ==
    ASSUME Inv, NEW t \in Targets, NEW profile \in Profiles["storage"],
           SubmitStorage(t, profile)
    PROVE  Inv' /\ Grew
<1>1. t \in Machines /\ "storage" \in Suites /\ 0 \in 0 .. MaxDay /\ 0 \in 0 .. MaxCampaigns
  BY CampaignsAssumption DEF Suites
<1>2. TypeOK
  BY DEF Inv
<1> QED
  BY <1>1, <1>2, NewRunTyped, StoredKeeps DEF SubmitStorage

LEMMA SubmitNetworkKeeps ==
    ASSUME Inv, NEW profile \in Profiles["network"], SubmitNetwork(profile)
    PROVE  Inv' /\ Grew
<1>1. "network" \in Suites /\ 0 \in 0 .. MaxDay /\ 0 \in 0 .. MaxCampaigns
  BY CampaignsAssumption DEF Suites
<1>2. TypeOK
  BY DEF Inv
<1> QED
  BY <1>1, <1>2, NewRunTyped, StoredKeeps DEF SubmitNetwork, NetworkAdmitted

LEMMA DispatchNetworkKeeps ==
    ASSUME Inv, NEW c \in DOMAIN campaigns, DispatchNetworkWindow(c)
    PROVE  Inv' /\ Grew
<1>1. /\ "network" \in Suites /\ day \in 0 .. MaxDay /\ TypeOK
      /\ c \in 0 .. MaxCampaigns /\ c # 0
  BY CampaignsAssumption, Elements DEF Suites, Inv, TypeOK
<1>0. campaigns[c].profile \in Profiles["storage"] \cup Profiles["network"]
  BY <1>1, Elements, ContractFields
<1> DEFINE run == NewRun("network", Session, campaigns[c].profile, c, day)
<1>2. /\ run \in RunRecords /\ run.suite = "network" /\ run.campaign = c /\ run.declared = day
      /\ run.status = "queued" /\ run.version = installed["network"]
  BY <1>0, <1>1, NewRunTyped
<1>3. Stored(run) /\ Paired /\ SessionParticipants = campaigns[c].participants
  BY DEF DispatchNetworkWindow, NetworkAdmitted, NetworkWindowOpen, SessionMatches
<1> HIDE DEF run
<1>4. NextWindow(c, run)
  <2>1. CampaignKind(c) = "network"
    BY DEF DispatchNetworkWindow, CampaignKind
  <2>2. /\ ProjectedStatus(c) = "active"
        /\ \A q \in Attempts(c, runs) : ~ Open(runs[q])
        /\ day \notin WindowsUnder(c, installed)
    BY <2>1 DEF DispatchNetworkWindow, NetworkWindowOpen, ProjectedStatus, WindowsUnder
  <2>3. Current(c) /\ WindowsUnder(c, installed) = OwnDays(c)
    BY <1>1, <2>1, <2>2, NetworkProjection
  <2> QED
    BY <1>2, <2>1, <2>2, <2>3 DEF NextWindow, Current
<1> QED
  BY <1>2, <1>3, <1>4, StoredKeeps

LEMMA DispatchStorageKeeps ==
    ASSUME Inv, NEW c \in DOMAIN campaigns, DispatchStorageWindow(c)
    PROVE  Inv' /\ Grew
<1>1. /\ "storage" \in Suites /\ day \in 0 .. MaxDay /\ TypeOK /\ BaselineInv /\ WindowInv
      /\ c \in 0 .. MaxCampaigns /\ c # 0
  <2>1. "storage" \in Suites /\ TypeOK /\ BaselineInv /\ WindowInv
    BY DEF Suites, Inv
  <2>2. /\ day \in 1 .. MaxDay /\ Len(campaigns) <= MaxCampaigns
        /\ MaxDay \in Nat /\ MaxCampaigns \in Nat
    BY <2>1, CampaignsAssumption DEF TypeOK
  <2>3. DOMAIN campaigns = 1 .. Len(campaigns) /\ Len(campaigns) \in Nat
    BY <2>1, Elements
  <2> QED
    BY <2>1, <2>2, <2>3
<1>2. /\ CampaignKind(c) = "storage" /\ campaigns[c].scope \in Machines
      /\ campaigns[c].profile \in Profiles["storage"] \cup Profiles["network"]
  BY <1>1, Elements, ContractFields DEF DispatchStorageWindow, CampaignKind
<1> DEFINE run == NewRun("storage", campaigns[c].scope, campaigns[c].profile, c, day)
<1>3. /\ run \in RunRecords /\ run.suite = "storage" /\ run.campaign = c /\ run.declared = day
      /\ run.where \in Machines /\ run.status = "queued" /\ run.version = installed["storage"]
  BY <1>1, <1>2, NewRunTyped
<1>4. Stored(run)
  BY DEF DispatchStorageWindow
<1> HIDE DEF run
<1>5. NextWindow(c, run)
  <2>1. /\ ProjectedStatus(c) = "active"
        /\ \A q \in Attempts(c, runs) : ~ Open(runs[q])
        /\ day \notin WindowsUnder(c, installed)
    BY <1>2
    DEF DispatchStorageWindow, StorageWindowOpen, ProjectedStatus, WindowsUnder, CampaignKind,
        Open, Attempts, StorageAttempts
  <2>2. Current(c) /\ installed["storage"] = campaigns[c].version
    BY <1>1, <1>2, <2>1, StorageProjection DEF Current
  <2>3. WindowsUnder(c, installed) = OwnDays(c)
    BY <1>1, <1>2, <2>2, UnderItsRelease
  <2> QED
    BY <1>2, <1>3, <2>1, <2>2, <2>3 DEF NextWindow
<1> QED
  BY <1>3, <1>4, <1>5, StoredKeeps

(* A stored Run goes on or ends. *)
LEMMA OnlyRunKeeps ==
    ASSUME Inv, NEW r \in DOMAIN runs, Open(runs[r]), NEW run \in RunRecords, OnlyRun(r, run),
           run.suite = runs[r].suite, run.where = runs[r].where,
           run.campaign = runs[r].campaign,
           \/ run.status = "failed"
           \/ run.declared = runs[r].declared /\ run.version = runs[r].version,
           run.suite = "network" /\ Measures(run) =>
              \/ /\ Measures(runs[r])
                 /\ run.pair = runs[r].pair /\ run.topology = runs[r].topology
              \/ run.pair = Pair /\ run.topology = SessionTopology
    PROVE  Inv' /\ Grew
<1>1. /\ runs' = [runs EXCEPT ![r] = run] /\ campaigns' = campaigns /\ installed' = installed
      /\ members' = members /\ registered' = registered /\ joining' = joining
  BY DEF OnlyRun
<1>2. /\ runs' \in Seq(RunRecords) /\ Len(runs') = Len(runs) /\ DOMAIN runs' = DOMAIN runs
      /\ runs'[r] = run /\ \A q \in DOMAIN runs : q # r => runs'[q] = runs[q]
  BY <1>1 DEF Inv, TypeOK
<1>3. TypeOK'
  BY <1>2 DEF Inv, TypeOK, OnlyRun
<1>4. Rewrites(r, run)
  BY <1>1 DEF Rewrites
<1>5. RunInv' /\ BaselineInv' /\ WindowInv' /\ OpenInv' /\ SuccessorInv' /\ Grew
  BY <1>3, <1>4, OneRunKeeps
<1>6. Moves
  BY <1>1, <1>2, <1>4 DEF Moves, Rewrites
<1>7. PairInv'
  <2>1. ASSUME NEW q \in DOMAIN runs
        PROVE  /\ Open(runs'[q]) => Open(runs[q])
               /\ runs[q].suite = "network" /\ Measures(runs'[q]) =>
                    \/ /\ Measures(runs[q])
                       /\ runs'[q].pair = runs[q].pair /\ runs'[q].topology = runs[q].topology
                    \/ /\ Open(runs[q])
                       /\ runs'[q].pair = Pair /\ runs'[q].topology = SessionTopology
    BY <1>2
  <2> QED
    BY <1>1, <1>2, <1>6, <2>1, PairMoves
<1>8. SessionInv'
  BY <1>1, SessionFrame DEF Inv
<1> QED
  BY <1>3, <1>5, <1>7, <1>8 DEF Inv

LEMMA StartRunKeeps ==
    ASSUME Inv, NEW r \in DOMAIN runs, StartRun(r)
    PROVE  Inv' /\ Grew
<1>1. runs[r] \in RunRecords /\ runs[r].status = "queued" /\ Open(runs[r])
  BY Elements DEF Inv, StartRun, Open
<1>2. SessionTopology \in Topologies /\ (runs[r].suite = "network" => Pair \in SUBSET Agents)
  BY Placed DEF Inv, PairInv
<1>3. day \in 0 .. MaxDay
  BY CampaignsAssumption DEF Inv, TypeOK
<1>4. CASE runs[r].suite = "network"
  <2> DEFINE run == [runs[r] EXCEPT !.status = "running", !.pair = Pair,
                                    !.topology = SessionTopology]
  <2>1. /\ run \in RunRecords /\ run.suite = runs[r].suite /\ run.where = runs[r].where
        /\ run.campaign = runs[r].campaign /\ run.declared = runs[r].declared
        /\ run.version = runs[r].version /\ run.pair = Pair /\ run.topology = SessionTopology
    BY <1>1, <1>2, <1>4 DEF RunRecords
  <2>2. OnlyRun(r, run)
    BY <1>4 DEF StartRun
  <2> HIDE DEF run
  <2> QED
    BY <1>1, <2>1, <2>2, OnlyRunKeeps
<1>5. CASE runs[r].suite # "network"
  <2> DEFINE run == [runs[r] EXCEPT !.status = "running", !.started = day]
  <2>1. /\ run \in RunRecords /\ run.suite = runs[r].suite /\ run.where = runs[r].where
        /\ run.campaign = runs[r].campaign /\ run.declared = runs[r].declared
        /\ run.version = runs[r].version
    BY <1>1, <1>3 DEF RunRecords
  <2>2. OnlyRun(r, run)
    BY <1>5 DEF StartRun
  <2> HIDE DEF run
  <2> QED
    BY <1>1, <1>5, <2>1, <2>2, OnlyRunKeeps
<1> QED
  BY <1>4, <1>5

LEMMA CompleteRunKeeps ==
    ASSUME Inv, NEW r \in DOMAIN runs, NEW sound \in BOOLEAN, CompleteRun(r, sound)
    PROVE  Inv' /\ Grew
<1>1. runs[r] \in RunRecords /\ runs[r].status = "running" /\ Open(runs[r])
  BY Elements DEF Inv, CompleteRun, Open
<1>2. day \in 0 .. MaxDay
  BY CampaignsAssumption DEF Inv, TypeOK
<1>3. PICK seen : seen = IF runs[r].suite = "storage" THEN host[runs[r].where] ELSE runs[r].system
  OBVIOUS
<1>4. seen \in Known
  <2>1. runs[r].suite = "storage" => host[runs[r].where] \in Systems
    BY DEF Inv, RunInv, TypeOK
  <2> QED
    BY <1>1, <1>3, <2>1, RunFields DEF Known
<1> DEFINE run == [runs[r] EXCEPT !.status = "completed", !.finished = day, !.sound = sound,
                                  !.system = seen]
<1>5. /\ run \in RunRecords /\ run.suite = runs[r].suite /\ run.where = runs[r].where
      /\ run.campaign = runs[r].campaign /\ run.declared = runs[r].declared
      /\ run.version = runs[r].version /\ run.pair = runs[r].pair
      /\ run.topology = runs[r].topology
  BY <1>1, <1>2, <1>4 DEF RunRecords
<1>6. OnlyRun(r, run)
  BY <1>3 DEF CompleteRun
<1>7. Measures(runs[r])
  BY <1>1 DEF Measures
<1> HIDE DEF run
<1> QED
  BY <1>1, <1>5, <1>6, <1>7, OnlyRunKeeps

LEMMA FailedRun ==
    ASSUME NEW run \in RunRecords
    PROVE  /\ Failed(run) \in RunRecords
           /\ Failed(run).suite = run.suite /\ Failed(run).where = run.where
           /\ Failed(run).campaign = run.campaign /\ Failed(run).status = "failed"
<1>1. NoTopology \in Topologies
  BY DEF NoTopology, Topologies, Scopes
<1>2. 0 \in 0 .. MaxDay /\ 1 \in Versions /\ CampaignProfile \in Profiles["network"]
  BY CampaignsAssumption
<1> DEFINE over == [run EXCEPT !.status = "failed", !.profile = CampaignProfile, !.declared = 0,
                               !.started = 0]
<1>3. /\ over \in RunRecords
      /\ over.suite = run.suite /\ over.where = run.where
      /\ over.campaign = run.campaign /\ over.status = "failed"
  BY <1>2 DEF RunRecords
<1>4. Failed(run) = [over EXCEPT !.version = 1, !.pair = {}, !.topology = NoTopology]
  BY DEF Failed
<1> HIDE DEF over
<1> QED
  BY <1>1, <1>2, <1>3, <1>4 DEF RunRecords

LEMMA FailRunKeeps ==
    ASSUME Inv, NEW r \in DOMAIN runs, FailRun(r)
    PROVE  Inv' /\ Grew
<1>1. runs[r] \in RunRecords
  BY Elements DEF Inv
<1> QED
  BY <1>1, FailedRun, OnlyRunKeeps DEF FailRun, Measures

LEMMA RestartKeeps ==
    ASSUME Inv, NEW v \in Versions, NEW s \in ControllerSystems, RestartController(v, s)
    PROVE  Inv' /\ Grew
<1>1. /\ DOMAIN runs' = DOMAIN runs
      /\ \A r \in DOMAIN runs :
            runs'[r] = IF Open(runs[r]) THEN Failed(runs[r]) ELSE runs[r]
  BY DEF RestartController
<1>2. TypeOK'
  <2>1. runs' \in Seq(RunRecords) /\ Len(runs') = Len(runs)
    <3>1. \A r \in DOMAIN runs : runs'[r] \in RunRecords
      BY <1>1, Elements, FailedRun DEF Inv
    <3>2. DOMAIN runs = 1 .. Len(runs) /\ Len(runs) \in Nat
      BY Elements DEF Inv
    <3>3. runs' = [r \in 1 .. Len(runs) |-> runs'[r]]
      BY <3>2 DEF RestartController
    <3> QED
      BY <3>1, <3>2, <3>3
  <2>2. s \in Systems /\ "controller" \in Machines
    BY DEF ControllerSystems, Inv, TypeOK, Machines
  <2>3. host' \in [Machines -> Systems] /\ installed' \in [Suites -> Versions]
    BY <2>2 DEF Inv, TypeOK, RestartController
  <2>4. upsets' \in 0 .. MaxUpsets
    BY CampaignsAssumption DEF Inv, TypeOK, RestartController
  <2> QED
    BY <2>1, <2>3, <2>4 DEF Inv, TypeOK, RestartController
<1>3. RunInv' /\ BaselineInv' /\ WindowInv' /\ OpenInv' /\ SuccessorInv' /\ Grew
  BY <1>2, AllRunsFail DEF RestartController
<1>4. SessionInv'
  BY SessionFrame DEF Inv, RestartController
<1>5. ASSUME NEW r \in DOMAIN runs
      PROVE  /\ ~ Open(runs'[r])
             /\ runs'[r].suite = runs[r].suite /\ runs'[r].where = runs[r].where
             /\ runs'[r].campaign = runs[r].campaign
             /\ Open(runs[r]) => runs'[r].status = "failed"
             /\ ~ Open(runs[r]) => runs'[r] = runs[r]
  <2>1. CASE Open(runs[r])
    BY <1>1, <2>1, Elements, FailedRun DEF Inv, Open
  <2>2. CASE ~ Open(runs[r])
    BY <1>1, <2>2
  <2> QED
    BY <2>1, <2>2
<1>6. Moves
  BY <1>1, <1>5 DEF Moves, RestartController
<1>7. PairInv'
  BY <1>1, <1>5, <1>6, PairMoves DEF RestartController, Measures
<1> QED
  BY <1>2, <1>3, <1>4, <1>7 DEF Inv

(* A contract is recorded. *)
LEMMA RecordedKeeps ==
    ASSUME Inv, NEW k \in Contracts, Recorded(k), k.version = installed[k.kind],
           ActiveFor(k) = {},
           k.kind = "storage" =>
              /\ k.baseline \in DOMAIN runs
              /\ StorageResultValid(k, runs[k.baseline], installed)
              /\ runs[k.baseline].finished = k.day,
           k.kind = "network" => \E t, g \in Joined : About(k, t, g)
    PROVE  Inv' /\ Grew
<1>1. TypeOK'
  BY CampaignsAssumption DEF Inv, TypeOK, Recorded
<1>2. k.kind \in Suites
  BY ContractFields
<1>3. Records(k)
  BY <1>2 DEF Records, Recorded
<1>4. RunInv' /\ BaselineInv' /\ WindowInv' /\ OpenInv' /\ SuccessorInv' /\ Grew
  BY <1>1, <1>3, RecordKeeps
<1>5. /\ SessionInv' /\ Paired' = Paired /\ Joined' = Joined
      /\ SessionParticipants' = SessionParticipants
      /\ runs' = runs /\ registered' = registered
  BY SessionFrame DEF Inv, Recorded
<1>6. PICK new : new = Len(campaigns) + 1
  OBVIOUS
<1>7. /\ DOMAIN campaigns' = DOMAIN campaigns \cup {new}
      /\ campaigns'[new] = k
      /\ \A c \in DOMAIN campaigns : campaigns'[c] = campaigns[c]
      /\ Attempts(new, runs) = {}
  <2>1. TypeOK /\ RunInv
    BY DEF Inv
  <2> QED
    BY <1>3, <1>6, <2>1, OthersKept
<1>8. ASSUME NEW c \in DOMAIN campaigns', campaigns'[c].kind = "network"
      PROVE  /\ \E t, g \in Joined : About(campaigns'[c], t, g)
             /\ \A r \in Attempts(c, runs) :
                   /\ Measures(runs[r]) /\ SessionParticipants = campaigns'[c].participants
                      => runs[r].pair = {p[1] : p \in campaigns'[c].participants}
                   /\ \A q \in Attempts(c, runs) : r < q =>
                         /\ ~ Open(runs[r])
                         /\ Measures(runs[r]) =>
                               runs[r].pair = {p[1] : p \in campaigns'[c].participants}
  <2>1. CASE c \in DOMAIN campaigns
    BY <1>7, <1>8, <2>1 DEF Inv, PairInv, CampaignKind, Pinned
  <2>2. CASE c = new
    BY <1>7, <1>8, <2>2
  <2> QED
    BY <1>7, <2>1, <2>2
<1>9. PairInv'
  BY <1>5, <1>8 DEF Inv, PairInv, CampaignKind, Pinned, Between, About
<1> QED
  BY <1>1, <1>4, <1>5, <1>9 DEF Inv

(* Exactly one of each role: the Agents are the first of each role. *)
LEMMA CompletePair ==
    ASSUME TypeOK, Paired, PairComplete(SessionParticipants)
    PROVE  /\ SessionParticipants \in SUBSET (Agents \X Roles \X Known)
           /\ \E t, g \in Joined :
                 /\ Role[t] = "target" /\ Role[g] = "generator"
                 /\ SessionParticipants =
                       {<<t, "target", registered[t]>>, <<g, "generator", registered[g]>>}
<1> DEFINE D == {x \in Joined : Role[x] \in {"target", "generator"}}
           entry == [a \in D |-> <<a, Role[a], registered[a]>>]
<1>1. SessionParticipants = {<<a, Role[a], registered[a]>> : a \in D}
  BY ParticipantsAre
<1>2. D \in SUBSET Agents
  BY Elements DEF Joined
<1>3. SessionParticipants \in SUBSET (Agents \X Roles \X Known)
  <2>1. Role \in [Agents -> Roles]
    BY CampaignsAssumption
  <2>2. registered \in [Agents -> Known]
    BY DEF TypeOK
  <2> QED
    BY <1>1, <1>2, <2>1, <2>2
<1>4. PICK t \in Joined, g \in Joined : Role[t] = "target" /\ Role[g] = "generator"
  BY MeasuresFirst
<1>5. t \in D /\ g \in D
  BY <1>4
<1>6. IsFiniteSet(SessionParticipants)
  <2>1. IsFiniteSet(D)
    BY <1>2, CampaignsAssumption, FS_Subset
  <2>2. entry \in Surjection(D, SessionParticipants)
    BY <1>1 DEF Surjection
  <2> QED
    BY <2>1, <2>2, FS_Surjection
<1> HIDE DEF D, entry
<1> DEFINE pt == <<t, "target", registered[t]>>
           pg == <<g, "generator", registered[g]>>
<1>7. pt \in SessionParticipants /\ pg \in SessionParticipants /\ pt # pg
  BY <1>1, <1>4, <1>5
<1> HIDE DEF pt, pg
<1>8. Cardinality({pt, pg}) = 2
  <2>1. IsFiniteSet({pt}) /\ Cardinality({pt}) = 1
    BY FS_Singleton
  <2>2. Cardinality({pt} \cup {pg}) = 2
    BY <1>7, <2>1, FS_AddElement
  <2>3. {pt} \cup {pg} = {pt, pg}
    OBVIOUS
  <2> QED
    BY <2>2, <2>3
<1>9. SessionParticipants = {pt, pg}
  BY <1>6, <1>7, <1>8, FS_Subset DEF PairComplete
<1> QED
  BY <1>3, <1>4, <1>9 DEF pt, pg

LEMMA CreateNetworkKeeps ==
    ASSUME Inv, CreateNetworkCampaign
    PROVE  Inv' /\ Grew
<1> DEFINE k == NetworkContract(Session, CampaignProfile, installed["network"],
                                SessionTopology, SessionParticipants)
<1>1. Paired /\ ActiveFor(k) = {} /\ PairComplete(SessionParticipants) /\ Recorded(k)
  BY DEF CreateNetworkCampaign
<1>2. SessionParticipants \in SUBSET (Agents \X Roles \X Known) /\ SessionTopology \in Topologies
  BY <1>1, CompletePair, Placed DEF Inv
<1>3. installed["network"] \in Versions /\ CampaignProfile \in Profiles["network"]
  BY CampaignsAssumption DEF Inv, TypeOK, Suites
<1>4. /\ k \in NetworkContracts
      /\ k.kind = "network" /\ k.version = installed["network"]
      /\ k.participants = SessionParticipants
  BY <1>2, <1>3 DEF NetworkContract, NetworkContracts
<1> HIDE DEF k
<1>5. k \in Contracts
  BY <1>4 DEF Contracts, NetworkContracts
<1>6. \E t, g \in Joined : About(k, t, g)
  BY <1>1, <1>4, CompletePair DEF About, Inv
<1> QED
  BY <1>1, <1>4, <1>5, <1>6, RecordedKeeps

LEMMA CreateStorageKeeps ==
    ASSUME Inv, NEW r \in DOMAIN runs, CreateStorageCampaign(r)
    PROVE  Inv' /\ Grew
<1> DEFINE k == StorageContract(r, runs[r], installed["storage"])
<1>1. /\ runs[r].suite = "storage" /\ StorageResultValid(k, runs[r], installed)
      /\ ActiveFor(k) = {} /\ Recorded(k)
  BY DEF CreateStorageCampaign
<1>2. /\ runs[r].where \in Machines /\ runs[r].system \in Known
      /\ runs[r].profile \in Profiles["storage"] \cup Profiles["network"]
      /\ runs[r].finished \in 0 .. MaxDay /\ installed["storage"] \in Versions
  BY <1>1, Elements, RunFields DEF Inv, RunInv, TypeOK, Suites
<1>3. r \in 1 .. MaxRuns
  <2>1. TypeOK /\ Len(runs) <= MaxRuns /\ MaxRuns \in Nat
    BY CampaignsAssumption DEF Inv, TypeOK
  <2>2. DOMAIN runs = 1 .. Len(runs) /\ Len(runs) \in Nat
    BY <2>1, Elements
  <2> QED
    BY <2>1, <2>2
<1>4. /\ k \in StorageContracts
      /\ k.kind = "storage" /\ k.version = installed["storage"]
      /\ k.baseline = r /\ k.day = runs[r].finished
  BY <1>2, <1>3 DEF StorageContract, StorageEnvironment, StorageContracts
<1> HIDE DEF k
<1>5. k \in Contracts
  BY <1>4 DEF Contracts, StorageContracts
<1> QED
  BY <1>1, <1>4, <1>5, RecordedKeeps

-----------------------------------------------------------------------------
(* The theorems. *)

LEMMA InitInv == Init => Inv
<1> SUFFICES ASSUME Init PROVE Inv
  OBVIOUS
<1>1. /\ runs = << >> /\ campaigns = << >> /\ members = InitialMembers /\ joining = {}
      /\ DOMAIN runs = {} /\ DOMAIN campaigns = {}
  BY DEF Init
<1>2. SessionInv
  BY <1>1, CampaignsAssumption DEF SessionInv
<1>3. TypeOK
  <2>1. Len(members) <= Cardinality(Agents)
    BY <1>1, CampaignsAssumption, AgentsFit
  <2>2. host \in [Machines -> Systems] /\ registered \in [Agents -> Known]
    BY CampaignsAssumption DEF Init, Machines, Known
  <2>3. day \in 1 .. MaxDay /\ upsets \in 0 .. MaxUpsets /\ installed \in [Suites -> Versions]
    BY CampaignsAssumption DEF Init
  <2>4. runs \in Seq(RunRecords) /\ Len(runs) <= MaxRuns
        /\ campaigns \in Seq(Contracts) /\ Len(campaigns) <= MaxCampaigns
    BY <1>1, CampaignsAssumption
  <2> QED
    BY <1>1, <2>1, <2>2, <2>3, <2>4, CampaignsAssumption DEF TypeOK
<1> QED
  BY <1>1, <1>2, <1>3
  DEF Inv, RunInv, PairInv, BaselineInv, WindowInv, OpenInv, SuccessorInv

LEMMA NextKeeps == Inv /\ [Next]_vars => Inv' /\ Grew
<1> SUFFICES ASSUME Inv, [Next]_vars PROVE Inv' /\ Grew
  OBVIOUS
<1>1. ASSUME NEW a \in Agents, BeginJoin(a) PROVE Inv' /\ Grew
  BY <1>1, BeginJoinKeeps
<1>2. ASSUME NEW a \in Agents, AddAgent(a) PROVE Inv' /\ Grew
  BY <1>2, AddAgentKeeps
<1>3. ASSUME NEW t \in Targets, NEW profile \in Profiles["storage"], SubmitStorage(t, profile)
      PROVE  Inv' /\ Grew
  BY <1>3, SubmitStorageKeeps
<1>4. ASSUME NEW profile \in Profiles["network"], SubmitNetwork(profile) PROVE Inv' /\ Grew
  BY <1>4, SubmitNetworkKeeps
<1>5. ASSUME NEW r \in DOMAIN runs, StartRun(r) PROVE Inv' /\ Grew
  BY <1>5, StartRunKeeps
<1>6. ASSUME NEW r \in DOMAIN runs, FailRun(r) PROVE Inv' /\ Grew
  BY <1>6, FailRunKeeps
<1>7. ASSUME NEW r \in DOMAIN runs, CreateStorageCampaign(r) PROVE Inv' /\ Grew
  BY <1>7, CreateStorageKeeps
<1>8. ASSUME NEW r \in DOMAIN runs, NEW sound \in BOOLEAN, CompleteRun(r, sound)
      PROVE  Inv' /\ Grew
  BY <1>8, CompleteRunKeeps
<1>9. CASE CreateNetworkCampaign
  BY <1>9, CreateNetworkKeeps
<1>10. ASSUME NEW c \in DOMAIN campaigns, DispatchNetworkWindow(c) PROVE Inv' /\ Grew
  BY <1>10, DispatchNetworkKeeps
<1>11. ASSUME NEW c \in DOMAIN campaigns, DispatchStorageWindow(c) PROVE Inv' /\ Grew
  BY <1>11, DispatchStorageKeeps
<1>12. CASE NewDay
  BY <1>12, NewDayKeeps
<1>13. ASSUME NEW m \in Targets \ {"controller"}, NEW s \in Systems, MachineChanges(m, s)
       PROVE  Inv' /\ Grew
  BY <1>13, MachineChangesKeeps
<1>14. ASSUME NEW v \in Versions, NEW s \in ControllerSystems, RestartController(v, s)
       PROVE  Inv' /\ Grew
  BY <1>14, RestartKeeps
<1>15. CASE UNCHANGED vars
  <2>1. TypeOK' /\ SessionInv'
    BY <1>15, SessionFrame DEF Inv, TypeOK, vars
  <2> QED
    BY <1>15, <2>1, QuietKeeps DEF vars
<1> QED
  BY <1>1, <1>2, <1>3, <1>4, <1>5, <1>6, <1>7, <1>8, <1>9, <1>10, <1>11, <1>12, <1>13,
     <1>14, <1>15
  DEF Next

(* Inv holds for any Agents, machines, Runs, campaigns, days and releases  *)
(* (server.py:174-1015, database.py:185-577).                              *)
THEOREM Invariant == Spec => []Inv
<1>1. Inv /\ [Next]_vars => Inv'
  BY NextKeeps
<1> QED
  BY InitInv, <1>1, PTL DEF Spec

(* Stored Runs, contracts and the session have their types, and the bounds *)
(* on them hold.                                                           *)
THEOREM TypeCorrect == Spec => []TypeOK
<1>1. Inv => TypeOK
  BY DEF Inv
<1> QED
  BY <1>1, Invariant, PTL

(* One active campaign per subject, whatever is completed, upgraded or     *)
(* taken back in between (server.py:280-290, 428-438).                     *)
THEOREM ActiveIsUnique == Spec => []OneActiveCampaign
<1>1. Inv => OneActiveCampaign
  <2> SUFFICES ASSUME Inv, NEW c \in DOMAIN campaigns, NEW d \in DOMAIN campaigns,
                      SameSubject(c, d),
                      ProjectedStatus(c) = "active", ProjectedStatus(d) = "active"
               PROVE  c = d
    BY DEF OneActiveCampaign
  <2>1. /\ Current(c) /\ ~ (Cardinality(OwnDays(c)) >= Windows)
        /\ Current(d) /\ ~ (Cardinality(OwnDays(d)) >= Windows)
    BY Projection DEF Inv
  <2>2. /\ campaigns[c].version = campaigns[d].version
        /\ SameSubject(d, c)
    BY <2>1 DEF Current, SameSubject
  <2>3. ~ (c < d) /\ ~ (d < c)
    BY <2>1, <2>2 DEF Inv, SuccessorInv
  <2>4. c \in Nat /\ d \in Nat
    BY Elements DEF Inv
  <2> QED
    BY <2>3, <2>4
<1> QED
  BY <1>1, Invariant, PTL

(* No campaign counts a UTC day twice (campaigns.py:128-236,               *)
(* storage_campaigns.py:330-452).                                          *)
THEOREM DaysCountOnce == Spec => []NoWindowTwice
<1>1. Inv => NoWindowTwice
  <2> SUFFICES ASSUME Inv, NEW c \in DOMAIN campaigns
               PROVE  /\ CampaignKind(c) = "network" =>
                            \A r, q \in ValidAttempts(c) :
                                runs[r].declared = runs[q].declared => r = q
                      /\ CampaignKind(c) # "network" =>
                            \A r, q \in ValidAttempts(c) :
                                runs[r].finished = runs[q].finished => r = q
                      /\ CampaignKind(c) = "storage" =>
                            \A r \in ValidAttempts(c) : runs[r].finished # campaigns[c].day
    BY DEF NoWindowTwice
  <2>1. \A r \in ValidAttempts(c) : r \in Holds(c)
    BY Projection DEF Inv, Counting, Holds
  <2>2. CampaignKind(c) # "network" =>
           \A r \in ValidAttempts(c) : runs[r].finished = runs[r].declared
    BY DEF ValidAttempts, StorageAttemptValid
  <2>3. /\ \A r, q \in Holds(c) : runs[r].declared = runs[q].declared => r = q
        /\ \A r \in Holds(c) : runs[r].declared \notin BaselineDay(c)
    BY DEF Inv, WindowInv
  <2>4. \A r, q \in ValidAttempts(c) : runs[r].declared = runs[q].declared => r = q
    BY <2>1, <2>3
  <2>5. CampaignKind(c) = "storage" =>
           \A r \in ValidAttempts(c) : runs[r].declared # campaigns[c].day
    BY <2>1, <2>3 DEF BaselineDay
  <2>6. CampaignKind(c) = "storage" => CampaignKind(c) # "network"
    OBVIOUS
  <2> QED
    BY <2>2, <2>4, <2>5, <2>6
<1> QED
  BY <1>1, Invariant, PTL

(* The Run of an open window is its campaign's only one, under the release *)
(* that is installed (server.py:296-341, 443-477, database.py:316-338).    *)
THEOREM OpenIsCurrent == Spec => []OpenWindowIsCurrent
<1>1. Inv => OpenWindowIsCurrent
  BY DEF Inv, OpenInv, RunInv, OpenRuns, OpenWindowIsCurrent
<1> QED
  BY <1>1, Invariant, PTL

(* However Agents join, no window follows one that measured another pair   *)
(* than the pinned one (server.py:966-1002, database.py:491).              *)
THEOREM StraysAreLast == Spec => []OnlyLastWindowStrays
<1>1. Inv => OnlyLastWindowStrays
  <2> SUFFICES ASSUME Inv, NEW c \in DOMAIN campaigns, CampaignKind(c) = "network",
                      NEW r \in Attempts(c, runs), Measures(runs[r]),
                      runs[r].pair # Pinned(c)
               PROVE  /\ SessionParticipants # campaigns[c].participants
                      /\ \A q \in Attempts(c, runs) : q <= r
    BY DEF OnlyLastWindowStrays, Measures
  <2>1. ASSUME NEW q \in Attempts(c, runs) PROVE q <= r
    <3>1. ~ (r < q)
      BY DEF Inv, PairInv
    <3>2. q \in Nat /\ r \in Nat
      BY Elements DEF Attempts, Inv
    <3> QED
      BY <3>1, <3>2
  <2> QED
    BY <2>1 DEF Inv, PairInv
<1> QED
  BY <1>1, Invariant, PTL

(* No step takes away, under any release, a window that counts under it.   *)
THEOREM CountedForGood == Spec => CountedStays
<1>1. ASSUME Inv, [Next]_vars, NEW c \in DOMAIN campaigns, NEW v \in Versions
      PROVE  WindowsUnder(c, [s \in Suites |-> v]) \subseteq WindowsUnder(c, [s \in Suites |-> v])'
  <2>1. c \in DOMAIN campaigns' /\ campaigns'[c] = campaigns[c] /\ OwnDays(c) \subseteq OwnDays(c)'
    BY <1>1, NextKeeps DEF Grew
  <2>2. CampaignKind(c)' = CampaignKind(c)
    BY <2>1 DEF CampaignKind
  <2>3. (TypeOK /\ BaselineInv /\ WindowInv)'
    BY <1>1, NextKeeps DEF Inv
  <2>4. WindowsUnder(c, [s \in Suites |-> v]) =
           IF CampaignKind(c) = "network" \/ v = campaigns[c].version THEN OwnDays(c) ELSE {}
    BY <1>1, WindowsAre DEF Inv
  <2>5. WindowsUnder(c, [s \in Suites |-> v])' =
           IF CampaignKind(c)' = "network" \/ v = campaigns'[c].version THEN OwnDays(c)' ELSE {}
    BY <2>1, <2>3, WindowsNext
  <2> QED
    BY <2>1, <2>2, <2>4, <2>5
<1>2. Inv /\ [Next]_vars =>
        [\A c \in DOMAIN campaigns, v \in Versions :
            LET release == [s \in Suites |-> v]
            IN  WindowsUnder(c, release) \subseteq WindowsUnder(c, release)']_vars
  BY <1>1
<1> QED
  BY <1>2, Invariant, PTL DEF Spec, CountedStays

-----------------------------------------------------------------------------
(* What the suitability report makes of the same Runs. *)

(* The instantiated module counts with a Cardinality of its own.           *)
LEMMA ReportCounts == \A S : Report!Cardinality(S) = Cardinality(S)
BY DEF Report!Cardinality, Cardinality

(* Two loops that start alike and go on alike end alike. *)
Alike(n, f, h) ==
    /\ f[0] = h[0]
    /\ \A i \in 1 .. n : f[i - 1] = h[i - 1] => f[i] = h[i]

LEMMA SameLoop ==
    ASSUME NEW n \in Nat, NEW f, NEW h, Alike(n, f, h)
    PROVE  \A i \in 0 .. n : f[i] = h[i]
<1> DEFINE Apart == {i \in 0 .. n : f[i] # h[i]}
<1> SUFFICES ASSUME Apart # {} PROVE FALSE
  OBVIOUS
<1>0. Apart \in SUBSET Nat
  OBVIOUS
<1>1. PICK i \in Apart : \A j \in Apart : i <= j
  BY <1>0, LeastNumber
<1>2. i \in 1 .. n /\ i - 1 \in 0 .. n /\ ~ (i <= i - 1)
  BY <1>1 DEF Alike
<1>3. f[i - 1] = h[i - 1]
  BY <1>1, <1>2
<1> QED
  BY <1>1, <1>2, <1>3 DEF Alike

(* A loop comes to its end. *)
Steps(n, D, first, step) == n \in Nat /\ first \in D /\ step \in [(1 .. n) \X D -> D]

Loops(n, D, first, step, f) ==
    /\ f \in [0 .. n -> D]
    /\ f[0] = first /\ \A i \in 1 .. n : f[i] = step[<<i, f[i - 1]>>]

LEMMA LoopEnds ==
    ASSUME NEW n, NEW D, NEW first, NEW step, Steps(n, D, first, step)
    PROVE  \E f : Loops(n, D, first, step, f)
<1> USE DEF Steps, Loops
<1> DEFINE Upto(m) == \E f \in [0 .. m -> D] :
                         f[0] = first /\ \A i \in 1 .. m : f[i] = step[<<i, f[i - 1]>>]
           Stuck == {m \in 0 .. n : ~ Upto(m)}
<1> SUFFICES ASSUME Stuck # {} PROVE FALSE
  OBVIOUS
<1>0. Stuck \in SUBSET Nat
  OBVIOUS
<1>1. PICK m \in Stuck : \A j \in Stuck : m <= j
  BY <1>0, LeastNumber
<1>2. m # 0
  <2>1. PICK f : f = [i \in 0 .. 0 |-> first]
    OBVIOUS
  <2>2. f \in [0 .. 0 -> D] /\ f[0] = first /\ 1 .. 0 = {}
    BY <2>1
  <2>3. Upto(0)
    BY <2>2
  <2> QED
    BY <1>1, <2>3
<1>3. m \in 1 .. n /\ m - 1 \in 0 .. n /\ ~ (m <= m - 1)
  BY <1>1, <1>2
<1>4. Upto(m - 1)
  BY <1>1, <1>3
<1>5. PICK f \in [0 .. m - 1 -> D] :
         f[0] = first /\ \A i \in 1 .. m - 1 : f[i] = step[<<i, f[i - 1]>>]
  BY <1>4
<1>6. PICK h : h = [i \in 0 .. m |-> IF i = m THEN step[<<m, f[m - 1]>>] ELSE f[i]]
  OBVIOUS
<1>7. step[<<m, f[m - 1]>>] \in D
  BY <1>3
<1>8. h \in [0 .. m -> D] /\ h[0] = first
  BY <1>3, <1>5, <1>6, <1>7
<1>9. \A i \in 1 .. m : h[i] = step[<<i, h[i - 1]>>]
  <2>1. h[m - 1] = f[m - 1] /\ h[m] = step[<<m, f[m - 1]>>]
    BY <1>3, <1>6
  <2>2. ASSUME NEW i \in 1 .. m - 1 PROVE h[i] = step[<<i, h[i - 1]>>]
    BY <1>3, <1>5, <1>6
  <2>3. \A i \in 1 .. m : i = m \/ i \in 1 .. m - 1
    BY <1>3
  <2> QED
    BY <2>1, <2>2, <2>3
<1>10. Upto(m)
  BY <1>8, <1>9
<1> QED
  BY <1>1, <1>10

(* The samples of a set of Runs. *)
Samples(S, peers) ==
    [samples |-> Cardinality(S),
     runs |-> S,
     targets |-> UNION {Report!RunTargets(runs[r]) \cap peers : r \in S},
     days |-> {runs[r].finished : r \in S}]

LEMMA OneMoreSample ==
    ASSUME NEW S, IsFiniteSet(S), NEW r, NEW peers
    PROVE  Report!Sampled(Samples(S, peers), r, peers, runs) = Samples(S \cup {r}, peers)
<1>1. PICK built : built = Samples(S, peers)
  OBVIOUS
<1>2. /\ built.samples = Cardinality(S) /\ built.runs = S
      /\ built.targets = UNION {Report!RunTargets(runs[q]) \cap peers : q \in S}
      /\ built.days = {runs[q].finished : q \in S}
  BY <1>1 DEF Samples
<1>3. (IF r \in built.runs THEN built.samples ELSE built.samples + 1) = Cardinality(S \cup {r})
  <2>1. r \in S => S \cup {r} = S
    OBVIOUS
  <2>2. r \notin S => Cardinality(S \cup {r}) = Cardinality(S) + 1
    BY FS_AddElement
  <2> QED
    BY <1>2, <2>1, <2>2
<1>4. built.targets \cup (Report!RunTargets(runs[r]) \cap peers)
        = UNION {Report!RunTargets(runs[q]) \cap peers : q \in S \cup {r}}
  BY <1>2
<1>5. built.days \cup {runs[r].finished} = {runs[q].finished : q \in S \cup {r}}
  BY <1>2
<1> QED
  BY <1>1, <1>2, <1>3, <1>4, <1>5 DEF Report!Sampled, Samples

(* The inner loop adds the Runs filed for one peer, in any order. *)
Meets(n, met, filed, S) ==
    /\ n \in Nat /\ met \in Orders(1 .. n, n)
    /\ filed \in SUBSET (1 .. n) /\ S \in SUBSET (1 .. n)

LEMMA PeerSampled ==
    ASSUME NEW n, NEW met, NEW filed, NEW S, Meets(n, met, filed, S), NEW peers
    PROVE  Report!SamplesOfPeer(Samples(S, peers), met, filed, peers, runs)
              = Samples(S \cup filed, peers)
<1>0. n \in Nat /\ filed \in SUBSET (1 .. n) /\ S \in SUBSET (1 .. n)
  BY DEF Meets
<1> USE <1>0
<1>1. /\ met \in [1 .. n -> 1 .. n] /\ Len(met) = n
      /\ \A x \in 1 .. n : \E i \in 1 .. n : met[i] = x
  BY DEF Meets, Orders
<1>2. PICK So : So = [i \in 0 .. n |-> S \cup {r \in filed : \E j \in 1 .. i : met[j] = r}]
  OBVIOUS
<1>3. So[0] = S /\ So[n] = S \cup filed /\ DOMAIN So = 0 .. n
  <2>1. So[0] = S \cup {r \in filed : \E j \in 1 .. 0 : met[j] = r}
    BY <1>2
  <2>2. So[n] = S \cup {r \in filed : \E j \in 1 .. n : met[j] = r}
    BY <1>2
  <2>3. {r \in filed : \E j \in 1 .. 0 : met[j] = r} = {}
    OBVIOUS
  <2>4. {r \in filed : \E j \in 1 .. n : met[j] = r} = filed
    BY <1>1
  <2> QED
    BY <1>2, <2>1, <2>2, <2>3, <2>4
<1>4. ASSUME NEW i \in 1 .. n
      PROVE  /\ IsFiniteSet(So[i - 1])
             /\ met[i] \in filed => So[i] = So[i - 1] \cup {met[i]}
             /\ met[i] \notin filed => So[i] = So[i - 1]
  <2>1. /\ So[i] = S \cup {r \in filed : \E j \in 1 .. i : met[j] = r}
        /\ So[i - 1] = S \cup {r \in filed : \E j \in 1 .. i - 1 : met[j] = r}
    BY <1>2
  <2>2. So[i - 1] \in SUBSET (1 .. n)
    BY <2>1
  <2>3. IsFiniteSet(So[i - 1])
    <3>1. IsFiniteSet(1 .. n)
      BY FS_Interval
    <3> QED
      BY <2>2, <3>1, FS_Subset
  <2>4. \A r : (\E j \in 1 .. i : met[j] = r) <=> met[i] = r \/ (\E j \in 1 .. i - 1 : met[j] = r)
    OBVIOUS
  <2> QED
    BY <2>1, <2>3, <2>4
<1> DEFINE Body(after) ==
             [i \in 0 .. Len(met) |->
                IF i = 0 THEN Samples(S, peers)
                ELSE IF met[i] \in filed THEN Report!Sampled(after[i - 1], met[i], peers, runs)
                ELSE after[i - 1]]
<1>5. PICK known : known = [i \in 0 .. n |-> Samples(So[i], peers)]
  OBVIOUS
<1>6. known = Body(known)
  <2>1. ASSUME NEW i \in 1 .. n
        PROVE  known[i] = IF met[i] \in filed
                          THEN Report!Sampled(known[i - 1], met[i], peers, runs)
                          ELSE known[i - 1]
    <3>1. known[i] = Samples(So[i], peers) /\ known[i - 1] = Samples(So[i - 1], peers)
      BY <1>5
    <3>2. CASE met[i] \in filed
      <4>1. Report!Sampled(Samples(So[i - 1], peers), met[i], peers, runs)
              = Samples(So[i - 1] \cup {met[i]}, peers)
        BY <1>4, OneMoreSample
      <4> QED
        BY <1>4, <3>1, <3>2, <4>1
    <3>3. CASE met[i] \notin filed
      BY <1>4, <3>1, <3>3
    <3> QED
      BY <3>2, <3>3
  <2>2. known[0] = Samples(S, peers) /\ DOMAIN known = 0 .. n
    BY <1>3, <1>5
  <2>3. \A i \in 0 .. n : i = 0 \/ (i # 0 /\ i \in 1 .. n)
    OBVIOUS
  <2>4. \A i \in 0 .. n : known[i] = Body(known)[i]
    BY <1>1, <2>1, <2>2, <2>3
  <2>5. known = [i \in 0 .. n |-> known[i]]
    BY <1>5
  <2>6. Body(known) = [i \in 0 .. n |-> Body(known)[i]]
    BY <1>1
  <2> HIDE DEF Body
  <2> QED
    BY <2>4, <2>5, <2>6
<1>7. PICK after : after = CHOOSE f : f = Body(f)
  OBVIOUS
<1>8. after = Body(after)
  <2> HIDE DEF Body
  <2> QED
    BY <1>6, <1>7
<1>9. Report!SamplesOfPeer(Samples(S, peers), met, filed, peers, runs) = after[n]
  BY <1>1, <1>7 DEF Report!SamplesOfPeer
<1>10. after[n] = known[n]
  <2>1. \A i \in 0 .. n : after[i] = Body(after)[i] /\ known[i] = Body(known)[i]
    BY <1>6, <1>8, Zenon
  <2>2. after[0] = known[0]
    <3>1. 0 \in 0 .. n /\ Body(after)[0] = Samples(S, peers) /\ Body(known)[0] = Samples(S, peers)
      BY <1>1
    <3> HIDE DEF Body
    <3> QED
      BY <2>1, <3>1
  <2>3. ASSUME NEW i \in 1 .. n, after[i - 1] = known[i - 1] PROVE after[i] = known[i]
    <3>1. i \in 0 .. n /\ Body(after)[i] = Body(known)[i]
      BY <1>1, <2>3
    <3> HIDE DEF Body
    <3> QED
      BY <2>1, <3>1
  <2>4. Alike(n, after, known)
    BY <2>2, <2>3 DEF Alike
  <2> HIDE DEF Body
  <2>5. \A i \in 0 .. n : after[i] = known[i]
    BY <2>4, SameLoop
  <2> QED
    BY <2>5
<1>11. known[n] = Samples(S \cup filed, peers)
  <2>1. n \in 0 .. n
    OBVIOUS
  <2> QED
    BY <1>3, <1>5, <2>1
<1> QED
  BY <1>9, <1>10, <1>11

(* The outer loop adds the Runs filed for every peer, in any order. *)
LEMMA CohortSampled ==
    ASSUME NEW n \in Nat, NEW met \in Orders(1 .. n, n), NEW peers,
           NEW m \in Nat, NEW sequence \in Orders(peers, m),
           NEW filed \in [peers -> SUBSET (1 .. n)]
    PROVE  Report!MetricCohort(met, sequence, filed, peers, runs)
              = Samples(UNION {filed[p] : p \in peers}, peers)
<1>1. /\ sequence \in [1 .. m -> peers] /\ Len(sequence) = m
      /\ \A p \in peers : \E i \in 1 .. m : sequence[i] = p
  BY DEF Orders
<1>2. PICK So : So = [i \in 0 .. m |-> {r \in 1 .. n : \E j \in 1 .. i : r \in filed[sequence[j]]}]
  OBVIOUS
<1>3. So[0] = {} /\ So[m] = UNION {filed[p] : p \in peers} /\ DOMAIN So = 0 .. m
  <2>1. So[0] = {r \in 1 .. n : \E j \in 1 .. 0 : r \in filed[sequence[j]]}
    BY <1>2
  <2>2. So[m] = {r \in 1 .. n : \E j \in 1 .. m : r \in filed[sequence[j]]}
    BY <1>2
  <2>3. {r \in 1 .. n : \E j \in 1 .. 0 : r \in filed[sequence[j]]} = {}
    OBVIOUS
  <2>4. \A r : (r \in 1 .. n /\ \E j \in 1 .. m : r \in filed[sequence[j]])
                  <=> (\E p \in peers : r \in filed[p])
    <3>1. \A p \in peers : filed[p] \in SUBSET (1 .. n)
      OBVIOUS
    <3>2. \A j \in 1 .. m : sequence[j] \in peers
      BY <1>1
    <3> QED
      BY <1>1, <3>1, <3>2
  <2>5. {r \in 1 .. n : \E j \in 1 .. m : r \in filed[sequence[j]]}
          = UNION {filed[p] : p \in peers}
    BY <2>4
  <2> QED
    BY <1>2, <2>1, <2>2, <2>3, <2>5
<1>4. ASSUME NEW i \in 1 .. m
      PROVE  /\ So[i - 1] \in SUBSET (1 .. n)
             /\ filed[sequence[i]] \in SUBSET (1 .. n)
             /\ So[i] = So[i - 1] \cup filed[sequence[i]]
  <2>1. /\ So[i] = {r \in 1 .. n : \E j \in 1 .. i : r \in filed[sequence[j]]}
        /\ So[i - 1] = {r \in 1 .. n : \E j \in 1 .. i - 1 : r \in filed[sequence[j]]}
    BY <1>2
  <2>2. filed[sequence[i]] \in SUBSET (1 .. n)
    BY <1>1
  <2>3. \A r : (\E j \in 1 .. i : r \in filed[sequence[j]])
                  <=> r \in filed[sequence[i]] \/ (\E j \in 1 .. i - 1 : r \in filed[sequence[j]])
    OBVIOUS
  <2> QED
    BY <2>1, <2>2, <2>3
<1> DEFINE Body(after) ==
             [i \in 0 .. Len(sequence) |->
                IF i = 0 THEN Report!NoSamples
                ELSE Report!SamplesOfPeer(after[i - 1], met, filed[sequence[i]], peers, runs)]
<1>5. PICK known : known = [i \in 0 .. m |-> Samples(So[i], peers)]
  OBVIOUS
<1>6. known = Body(known)
  <2>1. ASSUME NEW i \in 1 .. m
        PROVE  known[i] = Report!SamplesOfPeer(known[i - 1], met, filed[sequence[i]], peers, runs)
    <3>1. known[i] = Samples(So[i], peers) /\ known[i - 1] = Samples(So[i - 1], peers)
      BY <1>5
    <3>2. PICK S \in SUBSET (1 .. n), more \in SUBSET (1 .. n) :
             S = So[i - 1] /\ more = filed[sequence[i]]
      BY <1>4
    <3>3. Report!SamplesOfPeer(Samples(S, peers), met, more, peers, runs)
            = Samples(S \cup more, peers)
      <4>1. Meets(n, met, more, S)
        BY DEF Meets
      <4> QED
        BY <4>1, PeerSampled
    <3> QED
      BY <1>4, <3>1, <3>2, <3>3
  <2>2. known[0] = Report!NoSamples /\ DOMAIN known = 0 .. m
    <3>0. 0 \in 0 .. m
      OBVIOUS
    <3>1. known[0] = Samples({}, peers) /\ DOMAIN known = 0 .. m
      BY <1>3, <1>5, <3>0
    <3>2. Samples({}, peers) = Report!NoSamples
      BY FS_EmptySet DEF Samples, Report!NoSamples
    <3> QED
      BY <3>1, <3>2
  <2>3. \A i \in 0 .. m : i = 0 \/ (i # 0 /\ i \in 1 .. m)
    OBVIOUS
  <2>4. \A i \in 0 .. m : known[i] = Body(known)[i]
    BY <1>1, <2>1, <2>2, <2>3
  <2>5. known = [i \in 0 .. m |-> known[i]]
    BY <1>5
  <2>6. Body(known) = [i \in 0 .. m |-> Body(known)[i]]
    BY <1>1
  <2> HIDE DEF Body
  <2> QED
    BY <2>4, <2>5, <2>6
<1>7. PICK after : after = CHOOSE f : f = Body(f)
  OBVIOUS
<1>8. after = Body(after)
  <2> HIDE DEF Body
  <2> QED
    BY <1>6, <1>7
<1>9. Report!MetricCohort(met, sequence, filed, peers, runs) = after[m]
  BY <1>1, <1>7 DEF Report!MetricCohort
<1>10. after[m] = known[m]
  <2>1. \A i \in 0 .. m : after[i] = Body(after)[i] /\ known[i] = Body(known)[i]
    BY <1>6, <1>8, Zenon
  <2>2. after[0] = known[0]
    <3>1. 0 \in 0 .. m /\ Body(after)[0] = Report!NoSamples /\ Body(known)[0] = Report!NoSamples
      BY <1>1
    <3> HIDE DEF Body
    <3> QED
      BY <2>1, <3>1
  <2>3. ASSUME NEW i \in 1 .. m, after[i - 1] = known[i - 1] PROVE after[i] = known[i]
    <3>1. i \in 0 .. m /\ Body(after)[i] = Body(known)[i]
      BY <1>1, <2>3
    <3> HIDE DEF Body
    <3> QED
      BY <2>1, <3>1
  <2>4. Alike(m, after, known)
    BY <2>2, <2>3 DEF Alike
  <2> HIDE DEF Body
  <2>5. \A i \in 0 .. m : after[i] = known[i]
    BY <2>4, SameLoop
  <2> QED
    BY <2>5
<1>11. known[m] = Samples(UNION {filed[p] : p \in peers}, peers)
  <2>1. m \in 0 .. m
    OBVIOUS
  <2> QED
    BY <1>3, <1>5, <2>1
<1> QED
  BY <1>9, <1>10, <1>11

(* The loop over the Runs keeps an item that none of them outranks. *)
Feeding(target, suite) ==
    {r \in Report!AcceptedOf(target, runs, installed) : runs[r].suite = suite}

(* The loop of _put over Runs of which those in feeding feed the item. *)
Keeps(n, met, feeding, kept) ==
    /\ n \in Nat /\ met \in [1 .. n -> 1 .. n] /\ kept \in [0 .. n -> 0 .. n]
    /\ feeding \in SUBSET (1 .. n)
    /\ kept[0] = 0
    /\ \A i \in 1 .. n :
          kept[i] = IF met[i] \in feeding THEN Report!Put(kept[i - 1], met[i], runs, day)
                    ELSE kept[i - 1]

(* The loop meets n Runs, those that feed the item among them.             *)
MeetsFeeding(n, met, target, suite) ==
    /\ n \in Nat /\ met \in [1 .. n -> 1 .. n]
    /\ Feeding(target, suite) \in SUBSET (1 .. n)

LEMMA EvidenceLoop ==
    ASSUME NEW n, NEW met, NEW target, NEW suite, MeetsFeeding(n, met, target, suite)
    PROVE  \E kept : /\ Keeps(n, met, Feeding(target, suite), kept)
                     /\ Report!Evidence(met, target, suite, runs, installed, day) = kept[n]
<1>0. n \in Nat /\ met \in [1 .. n -> 1 .. n] /\ Feeding(target, suite) \in SUBSET (1 .. n)
  BY DEF MeetsFeeding
<1>1. Len(met) = n /\ DOMAIN met = 1 .. n
  BY <1>0
<1> DEFINE Feeds(r) == r \in Report!AcceptedOf(target, runs, installed) /\ runs[r].suite = suite
           Body(kept) ==
             [i \in 0 .. Len(met) |->
                IF i = 0 THEN 0
                ELSE IF Feeds(met[i]) THEN Report!Put(kept[i - 1], met[i], runs, day)
                ELSE kept[i - 1]]
<1>2. \A r : Feeds(r) <=> r \in Feeding(target, suite)
  BY DEF Feeding
<1>3. \A k \in 0 .. n, r \in 1 .. n : Report!Put(k, r, runs, day) \in 0 .. n
  BY <1>0 DEF Report!Put
<1> DEFINE step == [p \in (1 .. n) \X (0 .. n) |->
                      IF Feeds(met[p[1]]) THEN Report!Put(p[2], met[p[1]], runs, day) ELSE p[2]]
<1> HIDE DEF Feeds
<1>4. PICK D, first, go : D = 0 .. n /\ first = 0 /\ go = step
  OBVIOUS
<1>5. PICK f \in [0 .. n -> 0 .. n] : f[0] = 0 /\ \A i \in 1 .. n : f[i] = step[<<i, f[i - 1]>>]
  <2>1. \A p \in (1 .. n) \X (0 .. n) : step[p] \in 0 .. n
    <3>1. \A p \in (1 .. n) \X (0 .. n) : p[1] \in 1 .. n /\ p[2] \in 0 .. n /\ met[p[1]] \in 1 .. n
      BY <1>0
    <3> QED
      BY <1>3, <3>1
  <2>2. step = [p \in (1 .. n) \X (0 .. n) |-> step[p]]
    OBVIOUS
  <2> HIDE DEF step
  <2>3. step \in [(1 .. n) \X (0 .. n) -> 0 .. n]
    BY <2>1, <2>2
  <2>4. Steps(n, D, first, go)
    BY <1>0, <1>4, <2>3 DEF Steps
  <2>5. PICK f : Loops(n, D, first, go, f)
    BY <2>4, LoopEnds
  <2> QED
    BY <1>4, <2>5 DEF Loops
<1>6. ASSUME NEW i \in 1 .. n
      PROVE  f[i] = IF Feeds(met[i]) THEN Report!Put(f[i - 1], met[i], runs, day) ELSE f[i - 1]
  <2>1. f[i] = step[<<i, f[i - 1]>>]
    BY <1>5
  <2>2. PICK k \in 0 .. n : k = f[i - 1]
    <3>1. i - 1 \in 0 .. n
      BY <1>0
    <3> QED
      BY <3>1
  <2>3. step[<<i, k>>] = IF Feeds(met[i]) THEN Report!Put(k, met[i], runs, day) ELSE k
    OBVIOUS
  <2> QED
    BY <2>1, <2>2, <2>3
<1>7. f = Body(f)
  <2>1. \A i \in 0 .. n : i = 0 \/ (i # 0 /\ i \in 1 .. n)
    BY <1>0
  <2>2. \A i \in 0 .. n : f[i] = Body(f)[i]
    BY <1>1, <1>5, <1>6, <2>1
  <2>3. f = [i \in 0 .. n |-> f[i]]
    BY <1>5
  <2>4. Body(f) = [i \in 0 .. n |-> Body(f)[i]]
    BY <1>1
  <2> HIDE DEF Body
  <2> QED
    BY <2>2, <2>3, <2>4
<1>8. PICK kept : kept = CHOOSE k : k = Body(k)
  OBVIOUS
<1>9. kept = Body(kept)
  <2> HIDE DEF Body
  <2> QED
    BY <1>7, <1>8
<1>10. Report!Evidence(met, target, suite, runs, installed, day) = kept[n]
  BY <1>1, <1>8 DEF Report!Evidence, Feeds
<1>11. \A i \in 0 .. n : kept[i] = f[i]
  <2>1. \A i \in 0 .. n : kept[i] = Body(kept)[i] /\ f[i] = Body(f)[i]
    BY <1>7, <1>9, Zenon
  <2>2. kept[0] = f[0]
    <3>1. 0 \in 0 .. n /\ Body(kept)[0] = 0 /\ Body(f)[0] = 0
      BY <1>1
    <3> HIDE DEF Body
    <3> QED
      BY <2>1, <3>1
  <2>3. ASSUME NEW i \in 1 .. n, kept[i - 1] = f[i - 1] PROVE kept[i] = f[i]
    <3>1. i \in 0 .. n /\ Body(kept)[i] = Body(f)[i]
      BY <1>1, <2>3
    <3> HIDE DEF Body
    <3> QED
      BY <2>1, <3>1
  <2>4. Alike(n, kept, f)
    BY <2>2, <2>3 DEF Alike
  <2> HIDE DEF Body
  <2> QED
    BY <1>0, <2>4, SameLoop
<1>12. n \in 0 .. n /\ 0 \in 0 .. n
  BY <1>0
<1>13. kept \in [0 .. n -> 0 .. n]
  <2>1. kept = [i \in 0 .. n |-> kept[i]]
    <3>1. Body(kept) = [i \in 0 .. n |-> Body(kept)[i]]
      BY <1>1
    <3> HIDE DEF Body
    <3> QED
      BY <1>9, <3>1
  <2> QED
    BY <1>5, <1>11, <2>1
<1>14. ASSUME NEW i \in 1 .. n
       PROVE  kept[i] = IF met[i] \in Feeding(target, suite)
                        THEN Report!Put(kept[i - 1], met[i], runs, day) ELSE kept[i - 1]
  <2>1. i \in 0 .. n /\ i - 1 \in 0 .. n
    BY <1>0
  <2> QED
    BY <1>2, <1>6, <1>11, <2>1
<1> HIDE DEF Feeds, Body, step
<1>15. Keeps(n, met, Feeding(target, suite), kept)
  BY <1>0, <1>5, <1>11, <1>12, <1>13, <1>14 DEF Keeps
<1> QED
  BY <1>10, <1>15

-----------------------------------------------------------------------------
(* The Runs that campaigns count. *)

LEMMA CountedNetwork ==
    ASSUME Inv, NEW c \in DOMAIN campaigns, CampaignKind(c) = "network",
           campaigns[c].version <= installed["network"], NEW r \in CountedRuns(c)
    PROVE  /\ r \in DOMAIN runs /\ runs[r].suite = "network"
           /\ Report!RunAccepted(runs[r], installed)
           /\ runs[r].version = campaigns[c].version
           /\ runs[r].profile = campaigns[c].profile
           /\ Measures(runs[r])
<1>1. /\ r \in DOMAIN runs /\ runs[r].campaign = c /\ c # 0
      /\ NetworkAttemptValid(campaigns[c], runs[r])
  BY Elements DEF Inv, CountedRuns, ValidAttempts, Attempts
<1>2. runs[r].suite = "network"
  BY <1>1 DEF Inv, RunInv
<1>3. /\ runs[r].status = "completed" /\ runs[r].version = campaigns[c].version
      /\ runs[r].profile = campaigns[c].profile /\ runs[r].sound
  BY <1>1 DEF NetworkAttemptValid
<1>4. Report!RunAccepted(runs[r], installed)
  BY <1>2, <1>3 DEF Report!RunAccepted
<1> QED
  BY <1>1, <1>2, <1>3, <1>4 DEF Measures

LEMMA CountedStorage ==
    ASSUME Inv, NEW c \in DOMAIN campaigns, CampaignKind(c) = "storage",
           NEW r \in CountedRuns(c)
    PROVE  /\ r \in DOMAIN runs /\ runs[r].suite = "storage"
           /\ Report!RunAccepted(runs[r], installed)
           /\ Report!RunTargets(runs[r]) = {campaigns[c].scope}
           /\ runs[r].version = campaigns[c].version
           /\ runs[r].profile = campaigns[c].profile
           /\ runs[r].system.disk = campaigns[c].disk
<1>1. r \in DOMAIN runs /\ StorageResultValid(campaigns[c], runs[r], installed)
  <2>1. CASE r \in CountedAttempts(campaigns[c], c, runs, installed)
    BY <2>1 DEF CountedAttempts, StorageAttempts, StorageAttemptValid
  <2>2. CASE r = campaigns[c].baseline /\ BaselineValid(campaigns[c], runs, installed)
    BY <2>2 DEF Inv, BaselineInv, BaselineValid
  <2> QED
    BY <2>1, <2>2 DEF CountedRuns
<1>2. /\ runs[r].suite = "storage" /\ runs[r].where = campaigns[c].scope
      /\ runs[r].status = "completed" /\ runs[r].profile = campaigns[c].profile
      /\ runs[r].version = campaigns[c].version /\ runs[r].version = installed["storage"]
      /\ runs[r].system.disk = campaigns[c].disk
  BY <1>1 DEF StorageResultValid, ResultAccepted, MeasurementComplete, StorageEnvironment
<1>3. Report!RunAccepted(runs[r], installed)
  BY <1>2 DEF Report!RunAccepted
<1>4. Report!RunTargets(runs[r]) = {campaigns[c].scope}
  BY <1>2 DEF Report!RunTargets
<1> QED
  BY <1>1, <1>2, <1>3, <1>4

(* Windows that measured the pinned pair saw one and the same topology. *)
LEMMA PinnedTopology ==
    ASSUME Inv, NEW c \in DOMAIN campaigns, CampaignKind(c) = "network"
    PROVE  /\ Pinned(c) # {}
           /\ \A r, q \in DOMAIN runs :
                 /\ runs[r].suite = "network" /\ runs[q].suite = "network"
                 /\ Measures(runs[r]) /\ Measures(runs[q])
                 /\ runs[r].pair = Pinned(c) /\ runs[q].pair = Pinned(c)
                 => runs[r].topology = runs[q].topology
<1>1. PICK t \in Joined, g \in Joined : About(campaigns[c], t, g)
  BY DEF Inv, PairInv
<1>2. /\ Pinned(c) = {t, g}
      /\ \A s, h : {s, h} = {t, g} /\ Role[s] = "target" /\ Role[h] = "generator"
                   => s = t /\ h = g
  BY <1>1, AboutPair DEF Pinned
<1>3. ASSUME NEW r \in DOMAIN runs, runs[r].suite = "network", Measures(runs[r]),
             runs[r].pair = Pinned(c)
      PROVE  runs[r].topology = Assess(Scope, <<registered[t]>>, <<registered[g]>>)
  <2>1. PICK s \in Joined, h \in Joined : Between(runs[r], s, h)
    BY <1>3 DEF Inv, PairInv
  <2>2. s = t /\ h = g
    BY <1>2, <1>3, <2>1 DEF Between
  <2> QED
    BY <2>1, <2>2 DEF Between
<1> QED
  BY <1>2, <1>3

(* The fresh windows of a campaign that measured what it is about.         *)
Windowed(c) ==
    {r \in CountedRuns(c) : /\ Report!Fresh(runs[r], day)
                            /\ CampaignKind(c) = "network" => runs[r].pair = Pinned(c)}

(* They are accepted, speak for somebody and have one contract.            *)
LEMMA CountedIsEvidence ==
    ASSUME Inv, NEW c \in DOMAIN campaigns,
           campaigns[c].version <= installed[CampaignKind(c)]
    PROVE  /\ \A r \in Windowed(c) :
                 /\ r \in DOMAIN runs
                 /\ Report!RunAccepted(runs[r], installed)
                 /\ Report!RunTargets(runs[r]) # {}
           /\ \A r, q \in Windowed(c) :
                 Report!MetricContract(runs[r]) = Report!MetricContract(runs[q])
<1>1. CASE CampaignKind(c) = "network"
  <2>1. ASSUME NEW r \in Windowed(c)
        PROVE  /\ r \in DOMAIN runs /\ runs[r].suite = "network"
               /\ Report!RunAccepted(runs[r], installed)
               /\ runs[r].version = campaigns[c].version
               /\ runs[r].profile = campaigns[c].profile
               /\ Measures(runs[r]) /\ runs[r].pair = Pinned(c)
    BY <1>1, CountedNetwork DEF Windowed
  <2>2. ASSUME NEW r \in Windowed(c), NEW q \in Windowed(c)
        PROVE  Report!MetricContract(runs[r]) = Report!MetricContract(runs[q])
    <3>1. runs[r].topology = runs[q].topology
      BY <1>1, <2>1, PinnedTopology
    <3> QED
      BY <2>1, <3>1 DEF Report!MetricContract
  <2>3. \A r \in Windowed(c) : Report!RunTargets(runs[r]) = Pinned(c)
    BY <2>1 DEF Report!RunTargets
  <2> QED
    BY <1>1, <2>1, <2>2, <2>3, PinnedTopology
<1>2. CASE CampaignKind(c) = "storage"
  <2>1. \A r \in Windowed(c) :
           Report!MetricContract(runs[r])
             = <<"storage", campaigns[c].version, <<"single-target", "single-target">>,
                 campaigns[c].disk, campaigns[c].profile>>
    BY <1>2, CountedStorage DEF Report!MetricContract, Windowed
  <2> QED
    BY <1>2, <2>1, CountedStorage DEF Windowed
<1> QED
  BY <1>1, <1>2, Kinds DEF Inv

(* The peers of a cohort are machines. *)
LEMMA PeersAreMachines ==
    ASSUME Inv, NEW peers \in CohortsNow
    PROVE  peers \in SUBSET Machines /\ IsFiniteSet(peers) /\ Cardinality(peers) \in Nat
<1>1. peers \subseteq Report!Reported(runs)
  BY DEF CohortsNow, Report!Cohorts
<1>2. Report!Reported(runs) \subseteq Machines
  <2>1. ASSUME NEW r \in DOMAIN runs PROVE Report!RunTargets(runs[r]) \subseteq Machines
    <3>1. runs[r].suite = "storage" => runs[r].where \in Machines
      BY DEF Inv, RunInv
    <3>2. runs[r].suite \in Suites /\ runs[r].pair \in SUBSET Agents
      BY Elements, RunFields DEF Inv
    <3> QED
      BY <3>1, <3>2 DEF Report!RunTargets, Suites, Machines
  <2> QED
    BY <2>1 DEF Report!Reported, Machines
<1>3. IsFiniteSet(Machines)
  BY CampaignsAssumption, FS_AddElement DEF Machines
<1> QED
  BY <1>1, <1>2, <1>3, FS_Subset, FS_CardinalityType

(* What a cohort builds for a contract is what was filed under it, however *)
(* its loops go.                                                           *)
LEMMA CohortIs ==
    ASSUME Inv, NEW peers \in CohortsNow, NEW k,
           NEW met \in RunOrders[Len(runs)],
           NEW sequence \in Orders(peers, Cardinality(peers))
    PROVE  Report!MetricCohort(met, sequence, Report!Filed(peers, k, runs, installed, day),
                               peers, runs)
              = Samples(UNION {Report!Filed(peers, k, runs, installed, day)[p] : p \in peers}, peers)
<1>1. PICK n, m, filed : /\ n = Len(runs) /\ m = Cardinality(peers)
                         /\ filed = Report!Filed(peers, k, runs, installed, day)
  OBVIOUS
<1>2. n \in Nat /\ n \in 0 .. MaxRuns /\ DOMAIN runs = 1 .. n /\ m \in Nat
  <2>1. TypeOK /\ Len(runs) <= MaxRuns /\ MaxRuns \in Nat
    BY CampaignsAssumption DEF Inv, TypeOK
  <2>2. DOMAIN runs = 1 .. Len(runs) /\ Len(runs) \in Nat
    BY <2>1, Elements
  <2>3. Cardinality(peers) \in Nat
    BY PeersAreMachines
  <2> QED
    BY <1>1, <2>1, <2>2, <2>3
<1>3. met \in Orders(1 .. n, n) /\ sequence \in Orders(peers, m)
  BY <1>1, <1>2 DEF RunOrders
<1>4. filed \in [peers -> SUBSET (1 .. n)]
  BY <1>1, <1>2 DEF Report!Filed
<1>5. Report!MetricCohort(met, sequence, filed, peers, runs)
        = Samples(UNION {filed[p] : p \in peers}, peers)
  BY <1>2, <1>3, <1>4, CohortSampled
<1> QED
  BY <1>1, <1>5

(* The fresh windows of a campaign are samples of one metric cohort        *)
(* (suitability.py:954-1076).                                              *)
THEOREM CampaignIsOneCohort == Spec => []CampaignFeedsCohort
<1>1. Inv => CampaignFeedsCohort
  <2> SUFFICES ASSUME Inv, NEW c \in DOMAIN campaigns,
                      campaigns[c].version <= installed[CampaignKind(c)],
                      Windowed(c) # {}, NEW peers \in CohortsNow,
                      \A r \in Windowed(c) : Report!RunTargets(runs[r]) \subseteq peers
               PROVE  \E k \in Report!MetricContracts(peers, runs, installed, day) :
                         \A met \in RunOrders[Len(runs)],
                            sequence \in Orders(peers, Cardinality(peers)) :
                             Windowed(c) \subseteq
                                 Report!MetricCohort(met, sequence,
                                     Report!Filed(peers, k, runs, installed, day), peers, runs).runs
    BY DEF CampaignFeedsCohort, Windowed
  <2>1. ASSUME NEW r \in Windowed(c)
        PROVE  r \in DOMAIN runs /\ \E p \in peers : Report!Observed(p, runs[r], peers, installed, day)
    <3>1. /\ r \in DOMAIN runs /\ Report!RunAccepted(runs[r], installed)
          /\ Report!RunTargets(runs[r]) # {} /\ Report!Fresh(runs[r], day)
      BY CountedIsEvidence DEF Windowed
    <3> QED
      BY <3>1 DEF Report!Observed
  <2>2. PICK q : q \in Windowed(c)
    OBVIOUS
  <2>3. PICK k : k = Report!MetricContract(runs[q])
    OBVIOUS
  <2>4. k \in Report!MetricContracts(peers, runs, installed, day)
    BY <2>1, <2>2, <2>3 DEF Report!MetricContracts
  <2>5. PICK filed : filed = Report!Filed(peers, k, runs, installed, day)
    OBVIOUS
  <2>6. ASSUME NEW r \in Windowed(c) PROVE r \in UNION {filed[p] : p \in peers}
    <3>1. PICK p \in peers : Report!Observed(p, runs[r], peers, installed, day)
      BY <2>1
    <3>2. Report!MetricContract(runs[r]) = k
      BY <2>2, <2>3, CountedIsEvidence
    <3>3. r \in filed[p]
      BY <2>1, <2>5, <3>1, <3>2 DEF Report!Filed
    <3> QED
      BY <3>3
  <2>7. ASSUME NEW met \in RunOrders[Len(runs)],
               NEW sequence \in Orders(peers, Cardinality(peers))
        PROVE  Windowed(c) \subseteq Report!MetricCohort(met, sequence, filed, peers, runs).runs
    <3>1. Report!MetricCohort(met, sequence, filed, peers, runs)
            = Samples(UNION {filed[p] : p \in peers}, peers)
      <4>1. Report!MetricCohort(met, sequence, Report!Filed(peers, k, runs, installed, day),
                                peers, runs)
              = Samples(UNION {Report!Filed(peers, k, runs, installed, day)[p] : p \in peers}, peers)
        BY <2>7, CohortIs, Zenon
      <4> QED
        BY <2>5, <4>1
    <3>2. Samples(UNION {filed[p] : p \in peers}, peers).runs = UNION {filed[p] : p \in peers}
      BY DEF Samples
    <3> QED
      BY <2>6, <3>1, <3>2
  <2> QED
    BY <2>4, <2>5, <2>7
<1> QED
  BY <1>1, Invariant, PTL

(* A comparable cohort has the Runs, targets and days it needs, however    *)
(* its loops go (suitability.py:974-1052).                                 *)
THEOREM ComparableEarned == Spec => []ComparableIsEarned
<1>1. Inv => ComparableIsEarned
  <2> SUFFICES ASSUME Inv, NEW peers \in CohortsNow, NEW k,
                      NEW met \in RunOrders[Len(runs)],
                      NEW sequence \in Orders(peers, Cardinality(peers)),
                      NEW filed, filed = Report!Filed(peers, k, runs, installed, day),
                      Report!Comparable(peers, k,
                          Report!MetricCohort(met, sequence, filed, peers, runs), ReportSystems),
                      NEW earned,
                      earned = {r \in DOMAIN runs :
                                  /\ Report!RunAccepted(runs[r], installed)
                                  /\ Report!Fresh(runs[r], day)
                                  /\ Report!MetricContract(runs[r]) = k
                                  /\ Report!RunTargets(runs[r]) \subseteq peers}
               PROVE  /\ Cardinality(earned) >= MinSamples
                      /\ Cardinality(UNION {Report!RunTargets(runs[r]) : r \in earned}) >= MinTargets
                      /\ Cardinality({runs[r].finished : r \in earned}) >= MinDays
    BY DEF ComparableIsEarned
  <2>1. PICK all : all = UNION {filed[p] : p \in peers}
    OBVIOUS
  <2>2. all \subseteq earned
    <3> SUFFICES ASSUME NEW p \in peers, NEW r \in filed[p] PROVE r \in earned
      BY <2>1
    <3>1. /\ r \in DOMAIN runs /\ Report!Observed(p, runs[r], peers, installed, day)
          /\ Report!MetricContract(runs[r]) = k
      BY DEF Report!Filed
    <3>2. Report!RunTargets(runs[r]) \subseteq peers
      <4>1. CASE runs[r].suite = "network"
        BY <3>1, <4>1 DEF Report!Observed
      <4>2. CASE runs[r].suite # "network"
        BY <3>1, <4>2 DEF Report!Observed, Report!RunTargets
      <4> QED
        BY <4>1, <4>2
    <3> QED
      BY <3>1, <3>2 DEF Report!Observed
  <2>3. PICK cohort : cohort = Samples(all, peers)
    OBVIOUS
  <2>4. Report!Comparable(peers, k, cohort, ReportSystems)
    BY <2>1, <2>3, CohortIs
  <2>5. /\ cohort.samples = Cardinality(all)
        /\ cohort.targets \subseteq UNION {Report!RunTargets(runs[r]) : r \in earned}
        /\ cohort.days \subseteq {runs[r].finished : r \in earned}
    BY <2>2, <2>3 DEF Samples
  <2>6. /\ Cardinality(all) >= MinSamples
        /\ Cardinality(cohort.targets) >= MinTargets
        /\ Cardinality(cohort.days) >= MinDays
    BY <2>4, <2>5, ReportCounts DEF Report!Comparable
  <2>7. /\ IsFiniteSet(earned)
        /\ IsFiniteSet(UNION {Report!RunTargets(runs[r]) : r \in earned})
        /\ IsFiniteSet({runs[r].finished : r \in earned})
    <3>1. IsFiniteSet(DOMAIN runs)
      BY Elements, FS_Interval DEF Inv
    <3>2. UNION {Report!RunTargets(runs[r]) : r \in earned} \subseteq peers
      OBVIOUS
    <3>3. IsFiniteSet(peers)
      BY PeersAreMachines
    <3>4. {runs[r].finished : r \in earned} \subseteq 0 .. MaxDay
      BY Elements, RunFields DEF Inv
    <3>5. IsFiniteSet(0 .. MaxDay)
      BY CampaignsAssumption, FS_Interval
    <3> QED
      BY <3>1, <3>2, <3>3, <3>4, <3>5, FS_Subset
  <2>8. ASSUME NEW S, NEW T, IsFiniteSet(T), S \subseteq T, NEW min \in Nat, Cardinality(S) >= min
        PROVE  Cardinality(T) >= min
    <3>1. /\ Cardinality(S) \in Nat /\ Cardinality(T) \in Nat
          /\ Cardinality(S) <= Cardinality(T)
      BY <2>8, FS_Subset, FS_CardinalityType
    <3> QED
      BY <2>8, <3>1
  <2>9. MinSamples \in Nat /\ MinTargets \in Nat /\ MinDays \in Nat
    BY CampaignsAssumption
  <2>10. Cardinality(earned) >= MinSamples
    BY <2>2, <2>6, <2>7, <2>8, <2>9
  <2>11. Cardinality(UNION {Report!RunTargets(runs[r]) : r \in earned}) >= MinTargets
    BY <2>5, <2>6, <2>7, <2>8, <2>9
  <2>12. Cardinality({runs[r].finished : r \in earned}) >= MinDays
    BY <2>5, <2>6, <2>7, <2>8, <2>9
  <2> QED
    BY <2>10, <2>11, <2>12
<1> QED
  BY <1>1, Invariant, PTL

-----------------------------------------------------------------------------
(* The item that is kept. *)

LEMMA OutranksOrder ==
    ASSUME NEW a, NEW b, NEW c, day \in Nat, MaxAge \in Nat,
           a.finished \in Nat, b.finished \in Nat, c.finished \in Nat
    PROVE  /\ ~ Report!Outranks(a, a, day)
           /\ Report!Outranks(a, b, day) /\ Report!Outranks(b, c, day)
              => Report!Outranks(a, c, day)
<1>1. /\ Report!Rank(a) \in Nat /\ Report!Rank(b) \in Nat /\ Report!Rank(c) \in Nat
      /\ Report!Fresh(a, day) \in BOOLEAN /\ Report!Fresh(b, day) \in BOOLEAN
      /\ Report!Fresh(c, day) \in BOOLEAN
  BY DEF Report!Rank, Report!Fresh
<1>2. ~ Report!Outranks(a, a, day)
  BY <1>1 DEF Report!Outranks
<1>3. ASSUME Report!Outranks(a, b, day), Report!Outranks(b, c, day)
      PROVE  Report!Outranks(a, c, day)
  <2>1. CASE Report!Fresh(a, day) # Report!Fresh(b, day)
    BY <1>1, <1>3, <2>1 DEF Report!Outranks
  <2>2. CASE Report!Fresh(b, day) # Report!Fresh(c, day)
    BY <1>1, <1>3, <2>2 DEF Report!Outranks
  <2>3. CASE Report!Fresh(a, day) = Report!Fresh(b, day) /\ Report!Fresh(b, day) = Report!Fresh(c, day)
    BY <1>1, <1>3, <2>3 DEF Report!Outranks
  <2> QED
    BY <2>1, <2>2, <2>3
<1> QED
  BY <1>2, <1>3

(* What was met is kept, or something that it does not outrank.            *)
Best(met, feeding, kept, i) ==
    /\ kept[i] \in feeding \cup {0}
    /\ \A j \in 1 .. i : met[j] \in feeding =>
          kept[i] \in feeding /\ ~ Report!Outranks(runs[met[j]], runs[kept[i]], day)

LEMMA OneMoreMet ==
    ASSUME NEW n, NEW met, NEW feeding, NEW kept, Keeps(n, met, feeding, kept),
           day \in Nat, MaxAge \in Nat, \A r \in feeding : runs[r].finished \in Nat,
           NEW i \in 1 .. n, Best(met, feeding, kept, i - 1)
    PROVE  Best(met, feeding, kept, i)
<1>1. PICK p : p = i - 1
  OBVIOUS
<1>2. PICK r : r = met[i]
  OBVIOUS
<1>3. /\ n \in Nat /\ i \in Nat /\ p \in 0 .. n /\ kept[p] \in 0 .. n /\ r \in 1 .. n
      /\ 0 \notin feeding
  BY <1>1, <1>2 DEF Keeps
<1>4. kept[i] = IF r \in feeding THEN Report!Put(kept[p], r, runs, day) ELSE kept[p]
  BY <1>1, <1>2 DEF Keeps
<1>5. \A j \in 1 .. i : j = i \/ j \in 1 .. p
  BY <1>1, <1>3
<1>6. /\ kept[p] \in feeding \cup {0}
      /\ \A j \in 1 .. p : met[j] \in feeding =>
            kept[p] \in feeding /\ ~ Report!Outranks(runs[met[j]], runs[kept[p]], day)
  BY <1>1 DEF Best
<1>7. CASE r \notin feeding
  <2>1. kept[i] = kept[p]
    BY <1>4, <1>7
  <2> QED
    BY <1>2, <1>5, <1>6, <1>7, <2>1 DEF Best
<1>8. CASE r \in feeding /\ kept[i] = r
  <2>1. kept[p] = 0 \/ Report!Outranks(runs[r], runs[kept[p]], day) \/ kept[p] = r
    BY <1>4, <1>8 DEF Report!Put
  <2>2. ASSUME NEW j \in 1 .. i, met[j] \in feeding
        PROVE  ~ Report!Outranks(runs[met[j]], runs[r], day)
    <3>1. CASE j = i
      BY <1>2, <1>8, <3>1, OutranksOrder
    <3>2. CASE j \in 1 .. p
      <4>1. kept[p] \in feeding /\ ~ Report!Outranks(runs[met[j]], runs[kept[p]], day)
        BY <1>6, <2>2, <3>2
      <4>2. kept[p] # 0
        BY <1>3, <4>1
      <4>3. CASE kept[p] = r
        BY <4>1, <4>3
      <4>4. CASE Report!Outranks(runs[r], runs[kept[p]], day)
        <5>1. /\ runs[met[j]].finished \in Nat /\ runs[r].finished \in Nat
              /\ runs[kept[p]].finished \in Nat
          BY <1>8, <2>2, <4>1
        <5>2. Report!Outranks(runs[met[j]], runs[r], day)
              => Report!Outranks(runs[met[j]], runs[kept[p]], day)
          BY <4>4, <5>1, OutranksOrder
        <5> QED
          BY <4>1, <5>2
      <4> QED
        BY <2>1, <4>2, <4>3, <4>4
    <3> QED
      BY <1>5, <3>1, <3>2
  <2> QED
    BY <1>8, <2>2 DEF Best
<1>9. CASE r \in feeding /\ kept[i] # r
  <2>1. kept[i] = kept[p] /\ kept[p] # 0 /\ ~ Report!Outranks(runs[r], runs[kept[p]], day)
    BY <1>4, <1>9 DEF Report!Put
  <2>2. kept[p] \in feeding
    BY <1>6, <2>1
  <2> QED
    BY <1>2, <1>5, <1>6, <2>1, <2>2 DEF Best
<1> QED
  BY <1>7, <1>8, <1>9

LEMMA BestKept ==
    ASSUME NEW n, NEW met, NEW feeding, NEW kept, Keeps(n, met, feeding, kept),
           day \in Nat, MaxAge \in Nat, \A r \in feeding : runs[r].finished \in Nat
    PROVE  Best(met, feeding, kept, n)
<1> DEFINE worse == {i \in 0 .. n : ~ Best(met, feeding, kept, i)}
<1>1. n \in Nat /\ kept[0] = 0
  BY DEF Keeps
<1>2. SUFFICES ASSUME worse # {} PROVE FALSE
  BY <1>1
<1>3. worse \in SUBSET Nat
  BY <1>1
<1>4. PICK i \in worse : \A j \in worse : i <= j
  BY <1>2, <1>3, LeastNumber
<1>5. i \in 0 .. n /\ ~ Best(met, feeding, kept, i)
  OBVIOUS
<1>6. CASE i = 0
  BY <1>1, <1>5, <1>6 DEF Best
<1>7. CASE i # 0
  <2>1. i \in 1 .. n /\ i - 1 \in 0 .. n /\ ~ (i <= i - 1)
    BY <1>1, <1>5, <1>7
  <2>2. Best(met, feeding, kept, i - 1)
    BY <1>4, <2>1
  <2> QED
    BY <1>5, <2>1, <2>2, OneMoreMet
<1> QED
  BY <1>6, <1>7

(* Whatever the loop meets first, the item it ends with is of a Run that   *)
(* feeds the metric and that none of those feeding it outranks.            *)
LEMMA EvidenceIsBest ==
    ASSUME Inv, NEW met \in RunOrders[Len(runs)], NEW target, NEW suite,
           NEW r \in Feeding(target, suite)
    PROVE  \E best \in Feeding(target, suite) :
              /\ best = Report!Evidence(met, target, suite, runs, installed, day)
              /\ ~ Report!Outranks(runs[r], runs[best], day)
<1>1. PICK n, feeding : n = Len(runs) /\ feeding = Feeding(target, suite)
  OBVIOUS
<1>2. /\ n \in Nat /\ n \in 0 .. MaxRuns /\ DOMAIN runs = 1 .. n
      /\ day \in Nat /\ MaxAge \in Nat /\ MaxDay \in Nat
  <2>1. /\ TypeOK /\ Len(runs) <= MaxRuns /\ MaxRuns \in Nat
        /\ day \in Nat /\ MaxAge \in Nat /\ MaxDay \in Nat
    BY CampaignsAssumption DEF Inv, TypeOK
  <2>2. DOMAIN runs = 1 .. Len(runs) /\ Len(runs) \in Nat
    BY <2>1, Elements
  <2> QED
    BY <1>1, <2>1, <2>2
<1>3. met \in Orders(1 .. n, n)
  BY <1>1, <1>2 DEF RunOrders
<1>4. met \in [1 .. n -> 1 .. n] /\ \A x \in 1 .. n : \E i \in 1 .. n : met[i] = x
  BY <1>3 DEF Orders
<1>5. feeding \in SUBSET (1 .. n) /\ r \in feeding
  BY <1>1, <1>2 DEF Feeding, Report!AcceptedOf
<1>6. \A q \in feeding : runs[q].finished \in Nat
  <2>1. \A q \in 1 .. n : runs[q].finished \in 0 .. MaxDay
    BY <1>2, Elements, RunFields DEF Inv
  <2> QED
    BY <1>2, <1>5, <2>1
<1>7. PICK kept : /\ Keeps(n, met, feeding, kept)
                  /\ Report!Evidence(met, target, suite, runs, installed, day) = kept[n]
  <2>1. MeetsFeeding(n, met, target, suite)
    BY <1>1, <1>2, <1>4, <1>5 DEF MeetsFeeding
  <2> QED
    BY <1>1, <2>1, EvidenceLoop
<1>8. PICK i \in 1 .. n : met[i] = r
  BY <1>4, <1>5
<1>9. Best(met, feeding, kept, n)
  BY <1>2, <1>6, <1>7, BestKept
<1>10. kept[n] \in feeding /\ ~ Report!Outranks(runs[r], runs[kept[n]], day)
  BY <1>5, <1>8, <1>9 DEF Best
<1> QED
  BY <1>1, <1>7, <1>10

(* While a counted window is fresh, the storage check of its target is     *)
(* observed and rests on a Run of a higher rank, or of its rank and at     *)
(* least as recent, in whatever order the stored Runs are met              *)
(* (suitability.py:368-376).                                               *)
THEOREM VerdictIsRecent == Spec => []VerdictKeepsUp
<1>1. Inv => VerdictKeepsUp
  <2> SUFFICES ASSUME Inv, NEW c \in DOMAIN campaigns, CampaignKind(c) = "storage",
                      NEW r \in CountedRuns(c), NEW met \in RunOrders[Len(runs)],
                      Report!Fresh(runs[r], day),
                      NEW target, target = campaigns[c].scope,
                      NEW best,
                      best = Report!Evidence(met, target, "storage", runs, installed, day)
               PROVE  /\ Report!Verdict(met, target, {"storage"}, runs, installed, day)
                            = "classified"
                      /\ best \in DOMAIN runs
                      /\ \/ Report!Rank(runs[best]) > Report!Rank(runs[r])
                         \/ /\ Report!Rank(runs[best]) = Report!Rank(runs[r])
                            /\ runs[best].finished >= runs[r].finished
    BY DEF VerdictKeepsUp
  <2>1. /\ r \in DOMAIN runs /\ runs[r].suite = "storage"
        /\ Report!RunAccepted(runs[r], installed)
        /\ Report!RunTargets(runs[r]) = {target}
    BY CountedStorage
  <2>2. r \in Feeding(target, "storage")
    BY <2>1 DEF Feeding, Report!AcceptedOf
  <2>3. best \in Feeding(target, "storage") /\ ~ Report!Outranks(runs[r], runs[best], day)
    BY <2>2, EvidenceIsBest
  <2>4. best \in DOMAIN runs
    BY <2>3 DEF Feeding, Report!AcceptedOf
  <2>5. Report!Fresh(runs[best], day)
    BY <2>3 DEF Report!Outranks
  <2>6. Report!CheckStatus(met, target, "storage", runs, installed, day) = "observed"
    <3>1. best # 0
      BY <2>4, Elements DEF Inv
    <3> QED
      BY <2>5, <3>1 DEF Report!CheckStatus
  <2>7. Report!Verdict(met, target, {"storage"}, runs, installed, day) = "classified"
    BY <2>6 DEF Report!Verdict
  <2>8. /\ runs[best].finished \in Nat /\ runs[r].finished \in Nat
        /\ Report!Rank(runs[best]) \in Nat /\ Report!Rank(runs[r]) \in Nat
    <3>1. MaxDay \in Nat
      BY CampaignsAssumption
    <3>2. runs[best].finished \in 0 .. MaxDay /\ runs[r].finished \in 0 .. MaxDay
      BY <2>1, <2>4, Elements, RunFields DEF Inv
    <3> QED
      BY <3>1, <3>2 DEF Report!Rank
  <2>9. \/ Report!Rank(runs[best]) > Report!Rank(runs[r])
        \/ /\ Report!Rank(runs[best]) = Report!Rank(runs[r])
           /\ runs[best].finished >= runs[r].finished
    BY <2>3, <2>5, <2>8 DEF Report!Outranks
  <2> QED
    BY <2>4, <2>7, <2>9
<1> QED
  BY <1>1, Invariant, PTL

=============================================================================

------------------------------ MODULE Campaigns ------------------------------
(***************************************************************************)
(* The evidence of the Controller over days: Runs are stored, campaigns    *)
(* are created over them and dispatch one Run per UTC day, Agents join a   *)
(* pairing session, machines are resized under their Agents, and the       *)
(* Controller is restarted, with the same release or another one.          *)
(*                                                                         *)
(* A campaign stores only its contract.  Its progress, its status and what *)
(* the suitability report makes of the same Runs are projections, computed *)
(* from the stored Runs and the installed profiles whenever they are read: *)
(* the operators of NetworkCampaign, StorageCampaign and Suitability.      *)
(*                                                                         *)
(* Create and dispatch hold _submission_lock from the first read to the    *)
(* insert, so each is one action.  An Agent that is silent refuses a       *)
(* dispatch; as every enabled dispatch may also not be asked for, presence *)
(* is not modelled.                                                        *)
(***************************************************************************)
EXTENDS Naturals, Sequences, FiniteSets, PairingTopology, NetworkCampaign, StorageCampaign

CONSTANTS
    Agents,          \* the Agents that may join the pairing session
    Role,            \* Role[a], the role an Agent joins with
    Session,         \* the pairing session
    Scope,           \* the topology scope the operator declared for it
    Targets,         \* the storage targets in use, of Agents and "controller"
    InitialSystem,   \* the system of each machine in the beginning
    Systems,         \* the systems a machine can become
    Profiles,        \* per suite: the profiles its Runs can have
    CampaignProfile, \* NETWORK_CAMPAIGN_PROFILE
    QuickProfiles,   \* see Suitability
    Versions,        \* profile versions a release can install
    Windows,         \* target_windows, at least 3 in the code
    InitialMembers,  \* the Agents that have joined it, in order
    MaxMembers,      \* 8 in the code
    MaxJoining,      \* bound: join requests served at the same time
    MaxDay, MaxRuns, MaxCampaigns,  \* bounds
    MaxUpsets,       \* bound: joins, changes of a machine and restarts, together
    PlainMixes,      \* bound: the sets of profiles, each once, that the Runs
                     \* outside campaigns can have at any time (one that failed
                     \* has CampaignProfile, see Failed)
    MaxAge, MinSamples, MinTargets, MinDays  \* see Suitability

Report == INSTANCE Suitability

VARIABLES
    day,         \* the UTC day
    installed,   \* the profile versions of the running release, per suite
    host,        \* the system each machine is now
    members,     \* the Agents in the session, ordered by their joined_at
    joining,     \* Agents whose join passed the checks and is not inserted
    registered,  \* the system each Agent sent when it joined
    runs,        \* every stored Run, in the order they were created
    campaigns,   \* the contracts of the campaigns, in the same way
    upsets       \* how many of MaxUpsets have happened

vars == <<day, installed, host, members, joining, registered, runs, campaigns, upsets>>

Machines == Agents \cup {"controller"}
NoSystem == [provider |-> "Unknown", trusted |-> FALSE, sku |-> "", region |-> "", zone |-> "",
             os |-> "", disk |-> "unknown"]
NoTopology == [scope |-> "undeclared", source |-> "unavailable", status |-> "pending",
               observed |-> "undeclared"]
Suites == {"network", "storage"}
Roles == {"target", "generator", "replica", "peer"}
Known == Systems \cup {NoSystem}

(* The profile versions are numbered from that of the first release.  A    *)
(* session's ids differ.                                                   *)
ASSUME CampaignsAssumption ==
    /\ IsFiniteSet(Agents) /\ Targets \subseteq Machines
    /\ Role \in [Agents -> Roles]
    /\ Scope \in Scopes
    /\ InitialSystem \in [Machines -> Systems]
    /\ CampaignProfile \in Profiles["network"]
    /\ Versions \subseteq Nat /\ 1 \in Versions
    /\ InitialMembers \in Seq(Agents)
    /\ \A i, j \in DOMAIN InitialMembers : InitialMembers[i] = InitialMembers[j] => i = j
    /\ {Windows, MaxMembers, MaxJoining, MaxRuns, MaxCampaigns, MaxUpsets} \subseteq Nat
    /\ {MaxAge, MinSamples, MinTargets, MinDays} \subseteq Nat
    /\ MaxDay \in Nat \ {0}

RunRecords ==
    [suite : Suites, where : Machines \cup {Session},
     profile : Profiles["storage"] \cup Profiles["network"], campaign : 0 .. MaxCampaigns,
     declared : 0 .. MaxDay, status : {"queued", "running", "completed", "failed"},
     started : 0 .. MaxDay, finished : 0 .. MaxDay, version : Versions, sound : BOOLEAN,
     system : Known, topology : Topologies, pair : SUBSET Agents]

Contracts ==
    [kind : {"network"}, scope : {Session}, profile : Profiles["network"], version : Versions,
     participants : SUBSET (Agents \X Roles \X Known), topology : Topologies]
    \cup
    [kind : {"storage"}, scope : Machines, version : Versions,
     profile : Profiles["storage"] \cup Profiles["network"],
     target : {TargetIdentity(s) : s \in Known}, disk : {s.disk : s \in Known},
     baseline : 1 .. MaxRuns, day : 0 .. MaxDay]

TypeOK ==
    /\ day \in 1 .. MaxDay
    /\ installed \in [Suites -> Versions]
    /\ host \in [Machines -> Systems]
    /\ members \in Seq(Agents) /\ Len(members) <= Cardinality(Agents)
    /\ joining \subseteq Agents
    /\ registered \in [Agents -> Known]
    /\ runs \in Seq(RunRecords) /\ Len(runs) <= MaxRuns
    /\ campaigns \in Seq(Contracts) /\ Len(campaigns) <= MaxCampaigns
    /\ upsets \in 0 .. MaxUpsets

Init ==
    /\ day = 1
    /\ installed = [s \in Suites |-> 1]
    /\ host = InitialSystem
    /\ members = InitialMembers /\ joining = {}
    /\ registered = [a \in Agents |-> IF \E i \in DOMAIN members : members[i] = a
                                     THEN host[a] ELSE NoSystem]
    /\ runs = << >> /\ campaigns = << >>
    /\ upsets = 0

-----------------------------------------------------------------------------
(* The pairing session as the Controller sees it. *)

Joined == {members[i] : i \in DOMAIN members}

OfRole(r) == {i \in DOMAIN members : Role[members[i]] = r}

FirstOf(r) == members[CHOOSE i \in OfRole(r) : \A j \in OfRole(r) : i <= j]

FirstSystem(r) == IF OfRole(r) = {} THEN << >> ELSE <<registered[FirstOf(r)]>>

SessionTopology == Assess(Scope, FirstSystem("target"), FirstSystem("generator"))

SessionParticipants == Participants(members, Role, registered)

(* validate_network_run takes the first Target and the first Generator.    *)
Paired == OfRole("target") # {} /\ OfRole("generator") # {}

Pair == {FirstOf("target"), FirstOf("generator")}

(* _storage_target_state: the Controller looks at its own machine again,   *)
(* an Agent is what it said when it joined.                                *)
CurrentSystem(t) == IF t = "controller" THEN host[t] ELSE registered[t]

(* join_session: the checks read the session once; the insert comes in a   *)
(* transaction of its own.  A session accepts Agents for thirty minutes.   *)
BeginJoin(a) ==
    /\ upsets < MaxUpsets
    /\ a \notin Joined \cup joining
    /\ day = 1
    /\ Len(members) < MaxMembers
    /\ Cardinality(joining) < MaxJoining
    /\ joining' = joining \cup {a}
    /\ upsets' = upsets + 1
    /\ UNCHANGED <<day, installed, host, members, registered, runs, campaigns>>

(* joined_at is read from the clock before the lock is taken, and the      *)
(* clock may have been set back: the Agent comes before or after any other *)
(* one of its role (how Agents of different roles are ordered is never     *)
(* read: the model inserts at the end or before one of the same role).     *)
InsertedAt(i, a) ==
    [j \in 1 .. Len(members) + 1 |->
        IF j < i THEN members[j] ELSE IF j = i THEN a ELSE members[j - 1]]

AddAgent(a) ==
    /\ a \in joining
    /\ joining' = joining \ {a}
    /\ \E i \in OfRole(Role[a]) \cup {Len(members) + 1} : members' = InsertedAt(i, a)
    /\ registered' = [registered EXCEPT ![a] = host[a]]
    /\ UNCHANGED <<day, installed, host, runs, campaigns, upsets>>

-----------------------------------------------------------------------------
(* The Runs. *)

OpenRuns == {r \in DOMAIN runs : Open(runs[r])}

(* _submit_run_locked for one storage Run: no other single-target Run on   *)
(* the target, and no paired Run in its session.                           *)
StorageAdmitted(t) ==
    /\ \A r \in OpenRuns : runs[r].suite = "storage" => runs[r].where # t
    /\ t # "controller" => t \in Joined /\ \A r \in OpenRuns : runs[r].suite # "network"

(* ... and for a network Run: no Run of another suite is open in the       *)
(* session.  Another network Run is noticed only by the task it may have   *)
(* at an Agent, and has none while queued or between two measurements.     *)
NetworkAdmitted ==
    /\ Paired
    /\ \A r \in OpenRuns : runs[r].suite = "storage" => runs[r].where \notin Joined

NewRun(suite, where, profile, c, declared) ==
    [suite |-> suite, where |-> where, profile |-> profile, campaign |-> c, declared |-> declared,
     status |-> "queued", started |-> 0, finished |-> 0, version |-> installed[suite],
     sound |-> FALSE, system |-> NoSystem, topology |-> NoTopology, pair |-> {}]

Stored(run) ==
    /\ Len(runs) < MaxRuns
    /\ runs' = Append(runs, run)
    /\ UNCHANGED <<day, installed, host, members, joining, registered, campaigns, upsets>>

PlainLeft(profile) ==
    LET plain == {runs[r].profile : r \in {q \in DOMAIN runs : runs[q].campaign = 0}}
    IN  profile \notin plain /\ plain \cup {profile} \in PlainMixes

SubmitStorage(t, profile) ==
    /\ PlainLeft(profile) /\ StorageAdmitted(t)
    /\ Stored(NewRun("storage", t, profile, 0, 0))

SubmitNetwork(profile) ==
    /\ PlainLeft(profile) /\ NetworkAdmitted
    /\ Stored(NewRun("network", Session, profile, 0, 0))

OnlyRun(r, run) ==
    /\ runs' = [runs EXCEPT ![r] = run]
    /\ UNCHANGED <<day, installed, host, members, joining, registered, campaigns, upsets>>

(* The worker picks the Run up, perhaps on a later day; a network Run      *)
(* reads the session again and keeps its pair and topology (the day it     *)
(* started is only asked of a storage Run).                                *)
StartRun(r) ==
    /\ runs[r].status = "queued"
    /\ OnlyRun(r, IF runs[r].suite = "network"
                  THEN [runs[r] EXCEPT !.status = "running", !.pair = Pair,
                                       !.topology = SessionTopology]
                  ELSE [runs[r] EXCEPT !.status = "running", !.started = day])

(* target_evidence is the machine that measured, as it is then; sound      *)
(* stands for a complete measurement (storage) and comparison_eligible     *)
(* (network).                                                              *)
CompleteRun(r, sound) ==
    /\ runs[r].status = "running"
    /\ OnlyRun(r, [runs[r] EXCEPT !.status = "completed", !.finished = day, !.sound = sound,
                     !.system = IF runs[r].suite = "storage" THEN host[runs[r].where] ELSE @])

\* Mutant of Failed: the phase of the Run is stored as its status.
FailedAsPhase(run) == [run EXCEPT !.status = "interrupted"]

(* No projection decides anything by the profile, days, version, pair or   *)
(* topology of a Run that did not complete; the model forgets them.        *)
Failed(run) ==
    [run EXCEPT !.status = "failed", !.profile = CampaignProfile, !.declared = 0, !.started = 0,
                !.version = 1, !.pair = {}, !.topology = NoTopology]

FailRun(r) ==
    /\ Open(runs[r])
    /\ OnlyRun(r, Failed(runs[r]))

-----------------------------------------------------------------------------
(* The campaigns. *)

ProjectedStatus(c) ==
    IF campaigns[c].kind = "network"
    THEN NetworkStatus(campaigns[c], c, runs, installed, Windows)
    ELSE StorageStatus(campaigns[c], c, runs, installed, Windows)

Recorded(contract) ==
    /\ Len(campaigns) < MaxCampaigns
    /\ campaigns' = Append(campaigns, contract)
    /\ UNCHANGED <<day, installed, host, members, joining, registered, runs, upsets>>

\* Mutant of ActiveFor: only a campaign that could dispatch now stands in the way.
ActiveForIdle(contract) ==
    {c \in DOMAIN campaigns :
        /\ campaigns[c].kind = contract.kind
        /\ campaigns[c].scope = contract.scope
        /\ ProjectedStatus(c) = "active"
        /\ \A r \in Attempts(c, runs) : ~ Open(runs[r])}

ActiveFor(contract) ==
    {c \in DOMAIN campaigns :
        /\ campaigns[c].kind = contract.kind
        /\ campaigns[c].scope = contract.scope
        /\ campaigns[c].profile = contract.profile
        /\ contract.kind = "storage" =>
              campaigns[c].target = contract.target /\ campaigns[c].disk = contract.disk
        /\ ProjectedStatus(c) = "active"}

(* _create_network_campaign_locked: validate_network_run, then no active   *)
(* campaign of the session and profile, then exactly one pair.             *)
CreateNetworkCampaign ==
    LET contract == NetworkContract(Session, CampaignProfile, installed["network"],
                                    SessionTopology, SessionParticipants)
    IN  /\ Paired
        /\ ActiveFor(contract) = {}
        /\ PairComplete(SessionParticipants)
        /\ Recorded(contract)

(* create_storage_campaign from the completed Run r. *)
CreateStorageCampaign(r) ==
    LET contract == StorageContract(r, runs[r], installed["storage"])
    IN  /\ runs[r].suite = "storage"
        /\ StorageResultValid(contract, runs[r], installed)
        /\ TargetIdentity(CurrentSystem(runs[r].where)) = contract.target
        /\ ActiveFor(contract) = {}
        /\ Recorded(contract)

(* start_network_campaign_window: the declared day is the day it is asked. *)
DispatchNetworkWindow(c) ==
    /\ campaigns[c].kind = "network"
    /\ NetworkWindowOpen(campaigns[c], c, runs, installed, Windows, day, SessionTopology,
                         SessionParticipants)
    /\ NetworkAdmitted
    /\ Stored(NewRun("network", Session, campaigns[c].profile, c, day))

(* start_storage_campaign_window *)
DispatchStorageWindow(c) ==
    /\ campaigns[c].kind = "storage"
    /\ StorageWindowOpen(campaigns[c], c, runs, installed, Windows, day,
                         CurrentSystem(campaigns[c].scope))
    /\ StorageAdmitted(campaigns[c].scope)
    /\ Stored(NewRun("storage", campaigns[c].scope, campaigns[c].profile, c, day))

-----------------------------------------------------------------------------
(* Around them. *)

NewDay ==
    /\ day < MaxDay
    /\ day' = day + 1
    /\ joining' = {}
    /\ UNCHANGED <<installed, host, members, registered, runs, campaigns, upsets>>

(* An Agent's machine is resized, moved or given another disk.  That ends  *)
(* what runs there; nothing makes the Agent send its system again, so only *)
(* a storage target's machine is looked at after the join.  (Bound: once   *)
(* per machine.)                                                           *)
MachineChanges(m, s) ==
    /\ upsets < MaxUpsets
    /\ host[m] = InitialSystem[m] /\ s # host[m]
    /\ \A r \in OpenRuns : runs[r].status = "running" => m \notin runs[r].pair \cup {runs[r].where}
    /\ host' = [host EXCEPT ![m] = s]
    /\ upsets' = upsets + 1
    /\ UNCHANGED <<day, installed, members, joining, registered, runs, campaigns>>

ControllerSystems ==
    IF "controller" \in Targets THEN Systems ELSE {host["controller"]}

\* Mutant of RestartController: recovery fails the running Runs and leaves the queue.
RestartControllerKeepingQueue(version, s) ==
    /\ upsets < MaxUpsets
    /\ upsets' = upsets + 1
    /\ installed' = [suite \in Suites |-> version]
    /\ host' = [host EXCEPT !["controller"] = s]
    /\ joining' = {}
    /\ runs' = [r \in DOMAIN runs |->
                  IF runs[r].status = "running" THEN Failed(runs[r]) ELSE runs[r]]
    /\ UNCHANGED <<day, members, registered, campaigns>>

(* The Controller stops and starts, perhaps as another release and on      *)
(* another machine; recover_incomplete_runs fails every open Run.  (To     *)
(* restart the same release does what FailRun does to each of them.)       *)
RestartController(version, s) ==
    /\ upsets < MaxUpsets
    /\ upsets' = upsets + 1
    /\ installed' = [suite \in Suites |-> version]
    /\ host' = [host EXCEPT !["controller"] = s]
    /\ joining' = {}
    /\ runs' = [r \in DOMAIN runs |->
                  IF Open(runs[r]) THEN Failed(runs[r]) ELSE runs[r]]
    /\ UNCHANGED <<day, members, registered, campaigns>>

Next ==
    \/ \E a \in Agents : BeginJoin(a) \/ AddAgent(a)
    \/ \E t \in Targets, profile \in Profiles["storage"] : SubmitStorage(t, profile)
    \/ \E profile \in Profiles["network"] : SubmitNetwork(profile)
    \/ \E r \in DOMAIN runs : StartRun(r) \/ FailRun(r) \/ CreateStorageCampaign(r)
    \/ \E r \in DOMAIN runs, sound \in BOOLEAN : CompleteRun(r, sound)
    \/ CreateNetworkCampaign
    \/ \E c \in DOMAIN campaigns : DispatchNetworkWindow(c) \/ DispatchStorageWindow(c)
    \/ NewDay
    \/ \E m \in Targets \ {"controller"}, s \in Systems : MachineChanges(m, s)
    \/ \E v \in Versions, s \in ControllerSystems :
          <<v, s>> # <<installed["network"], host["controller"]>> /\ RestartController(v, s)

Spec == Init /\ [][Next]_vars

-----------------------------------------------------------------------------
(* What the evidence promises. *)

CampaignKind(c) == campaigns[c].kind

ValidAttempts(c) ==
    {r \in Attempts(c, runs) :
        IF CampaignKind(c) = "network" THEN NetworkAttemptValid(campaigns[c], runs[r])
        ELSE StorageAttemptValid(campaigns[c], runs[r], installed)}

(* The windows that count while this is installed. *)
WindowsUnder(c, release) ==
    IF CampaignKind(c) = "network" THEN NetworkDays(campaigns[c], c, runs)
    ELSE StorageDays(campaigns[c], c, runs, release)

(* The Agents whose measurement a network campaign is about.               *)
Pinned(c) == {p[1] : p \in campaigns[c].participants}

(* The Runs a campaign counts, with the baseline of a storage campaign. *)
CountedRuns(c) ==
    IF CampaignKind(c) = "network" THEN ValidAttempts(c)
    ELSE CountedAttempts(campaigns[c], c, runs, installed)
           \cup {b \in {campaigns[c].baseline} : BaselineValid(campaigns[c], runs, installed)}

ReportSystems == [t \in Machines |-> CurrentSystem(t)]

CohortsNow == Report!Cohorts(runs, installed, day, ReportSystems)

(* The orders in which n stored Runs, or the members of a finite set, can  *)
(* be met.                                                                 *)
Orders(S, n) == {f \in [1 .. n -> S] : \A x \in S : \E i \in 1 .. n : f[i] = x}
RunOrders == [n \in 0 .. MaxRuns |-> Orders(1 .. n, n)]

SameSubject(c, d) ==
    /\ CampaignKind(c) = CampaignKind(d)
    /\ campaigns[c].scope = campaigns[d].scope
    /\ campaigns[c].profile = campaigns[d].profile
    /\ CampaignKind(c) = "storage" =>
          campaigns[c].target = campaigns[d].target /\ campaigns[c].disk = campaigns[d].disk

(* No two campaigns for the same thing are active at once, whatever was    *)
(* completed, superseded by an upgrade or revived by going back to an      *)
(* earlier release in between (server.py:280-290, 428-438).                *)
OneActiveCampaign ==
    \A c, d \in DOMAIN campaigns :
        /\ SameSubject(c, d)
        /\ ProjectedStatus(c) = "active" /\ ProjectedStatus(d) = "active"
        => c = d

(* A campaign never spends load on a day it has already counted: all its   *)
(* valid windows, the baseline included, are of different UTC days, over   *)
(* failed attempts, restarts and Runs that end on a later day.             *)
NoWindowTwice ==
    \A c \in DOMAIN campaigns :
        LET window(r) == IF CampaignKind(c) = "network" THEN runs[r].declared ELSE runs[r].finished
            valid == ValidAttempts(c)
        IN  /\ \A r, q \in valid : window(r) = window(q) => r = q
            /\ CampaignKind(c) = "storage" => \A r \in valid : window(r) # campaigns[c].day

(* While a window's Run is open its campaign is active under the installed *)
(* profile and it is the campaign's only open Run: a restart as another    *)
(* release leaves none behind (database.py:316-330, server.py:296-341).    *)
OpenWindowIsCurrent ==
    \A r \in OpenRuns : runs[r].campaign # 0 =>
        LET c == runs[r].campaign
        IN  /\ runs[r].version = campaigns[c].version
            /\ ProjectedStatus(c) = "active"
            /\ Attempts(c, runs) \cap OpenRuns = {r}

(* Agents may join between two windows, or between the dispatch and the    *)
(* start of one, past the session's limit and with an earlier joined_at    *)
(* than those pinned.  At most one window of a campaign measures a pair    *)
(* that is not the pinned one, and then no other follows it.  It counts as *)
(* the others do, because _attempt_contract_status compares no pair        *)
(* (server.py:966-1002, database.py:491, campaigns.py:122-170).            *)
OnlyLastWindowStrays ==
    \A c \in DOMAIN campaigns : CampaignKind(c) = "network" =>
        \A r \in Attempts(c, runs) :
            runs[r].status \in {"running", "completed"} /\ runs[r].pair # Pinned(c)
            => /\ SessionParticipants # campaigns[c].participants
               /\ \A q \in Attempts(c, runs) : q <= r

(* What a campaign counts the suitability report can aggregate: the fresh  *)
(* windows of one campaign that measured what it is about are samples of   *)
(* one and the same metric cohort, wherever their targets are in a cohort  *)
(* and in whatever order the Runs are met, unless the installed release is *)
(* older than the campaign (suitability.py:954-1076).                      *)
CampaignFeedsCohort ==
    \A c \in {d \in DOMAIN campaigns : campaigns[d].version <= installed[CampaignKind(d)]} :
        LET fresh == {r \in CountedRuns(c) :
                        /\ Report!Fresh(runs[r], day)
                        /\ CampaignKind(c) = "network" => runs[r].pair = Pinned(c)}
        IN  fresh # {} =>
               \A peers \in CohortsNow :
                  (\A r \in fresh : Report!RunTargets(runs[r]) \subseteq peers)
                  => \E k \in Report!MetricContracts(peers, runs, installed, day) :
                        LET filed == Report!Filed(peers, k, runs, installed, day)
                        IN  \A met \in RunOrders[Len(runs)],
                               sequence \in Orders(peers, Cardinality(peers)) :
                                fresh \subseteq
                                    Report!MetricCohort(met, sequence, filed, peers, runs).runs

(* A comparable cohort has earned it: that many different fresh Runs of    *)
(* its contract, of that many targets, on that many days, whatever the     *)
(* order its two loops meet them in; a paired Run, met under both its      *)
(* Agents, is one sample                                                   *)
(* (docs/SUITABILITY_METHODOLOGY.md, suitability.py:974-1052).             *)
ComparableIsEarned ==
    \A peers \in CohortsNow :
        \A k \in Report!MetricContracts(peers, runs, installed, day) :
            LET filed == Report!Filed(peers, k, runs, installed, day)
                earned == {r \in DOMAIN runs :
                             /\ Report!RunAccepted(runs[r], installed)
                             /\ Report!Fresh(runs[r], day)
                             /\ Report!MetricContract(runs[r]) = k
                             /\ Report!RunTargets(runs[r]) \subseteq peers}
            IN  (\E met \in RunOrders[Len(runs)], sequence \in Orders(peers, Cardinality(peers)) :
                    Report!Comparable(
                        peers, k, Report!MetricCohort(met, sequence, filed, peers, runs),
                        ReportSystems))
                => /\ Cardinality(earned) >= MinSamples
                   /\ Cardinality(UNION {Report!RunTargets(runs[r]) : r \in earned}) >= MinTargets
                   /\ Cardinality({runs[r].finished : r \in earned}) >= MinDays

(* A verdict keeps up with the campaign of its target: while a window      *)
(* counts and is fresh, the target's storage check is not stale, and it    *)
(* rests on a Run at least as recent, unless that Run's profile has a      *)
(* higher rank.  The loop meets the Runs in the order of their submission, *)
(* by a clock that may be set back: in any order                           *)
(* (suitability.py:368-376, database.py:354-360).                          *)
VerdictKeepsUp ==
    \A c \in DOMAIN campaigns : CampaignKind(c) = "storage" =>
        \A r \in CountedRuns(c), met \in RunOrders[Len(runs)] : Report!Fresh(runs[r], day) =>
            LET best == Report!Evidence(met, campaigns[c].scope, "storage", runs, installed, day)
            IN  /\ Report!Verdict(met, campaigns[c].scope, {"storage"}, runs, installed, day)
                      = "classified"
                /\ best \in DOMAIN runs
                /\ \/ Report!Rank(runs[best]) > Report!Rank(runs[r])
                   \/ /\ Report!Rank(runs[best]) = Report!Rank(runs[r])
                      /\ runs[best].finished >= runs[r].finished

(* Counted windows stay counted, under every release: nothing that happens *)
(* to the Runs, the machines, the session or the installed profiles takes  *)
(* away a window that counted under a release, so a release that comes     *)
(* back finds what it had counted (storage_campaigns.py:251-253, 339-380). *)
CountedStays ==
    [][\A c \in DOMAIN campaigns, v \in Versions :
          LET release == [s \in Suites |-> v]
          IN  WindowsUnder(c, release) \subseteq WindowsUnder(c, release)']_vars
=============================================================================

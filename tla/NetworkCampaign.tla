--------------------------- MODULE NetworkCampaign ---------------------------
(***************************************************************************)
(* campaigns.py: the rules of a repeated-window network campaign.  A       *)
(* campaign is a pinned contract; everything else about it is projected    *)
(* from the stored Runs each time it is read.  Pure operators over a       *)
(* campaign c, the sequence of stored runs and the installed profile       *)
(* versions; runs and campaigns are the records of Campaigns.tla, named by *)
(* their position.                                                         *)
(***************************************************************************)
LOCAL INSTANCE Naturals
LOCAL INSTANCE FiniteSets
LOCAL INSTANCE Sequences

Attempts(c, runs) == {r \in DOMAIN runs : runs[r].campaign = c}

Open(run) == run.status \in {"queued", "running"}

(* _participant_identity of the Agents that joined as Target or Generator. *)
Participants(members, role, registered) ==
    {<<a, role[a], registered[a]>> :
        a \in {members[i] : i \in {j \in DOMAIN members : role[members[j]] \in {"target", "generator"}}}}

(* build_network_campaign_contract: exactly one of each role. *)
PairComplete(participants) ==
    /\ Cardinality(participants) = 2
    /\ {p[2] : p \in participants} = {"target", "generator"}

NetworkContract(session, profile, version, topology, participants) ==
    [kind |-> "network", scope |-> session, profile |-> profile, version |-> version,
     participants |-> participants, topology |-> topology]

\* Mutant of SessionMatches: more Agents than the pinned ones may have joined.
SessionContains(contract, topology, participants) ==
    /\ contract.participants \subseteq participants
    /\ <<topology.scope, topology.source, topology.status>>
         = <<contract.topology.scope, contract.topology.source, contract.topology.status>>

(* campaign_contract_matches_session *)
SessionMatches(contract, topology, participants) ==
    /\ Cardinality(participants) = 2
    /\ participants = contract.participants
    /\ <<topology.scope, topology.source, topology.status>>
         = <<contract.topology.scope, contract.topology.source, contract.topology.status>>

(* _attempt_contract_status.  The dispatch endpoint is the only writer of  *)
(* campaign fields, so its confirmations and ids are those of the campaign.*)
NetworkAttemptValid(contract, run) ==
    /\ run.status = "completed"
    /\ run.profile = contract.profile
    /\ run.version = contract.version
    /\ run.sound

\* Mutant of NetworkDays: a failed attempt starts the count again.
NetworkDaysInARow(contract, c, runs) ==
    {runs[r].declared : r \in {q \in Attempts(c, runs) :
        /\ NetworkAttemptValid(contract, runs[q])
        /\ \A f \in Attempts(c, runs) : runs[f].status = "failed" => f < q}}

(* project_network_campaign: the declared days of the valid attempts. *)
NetworkDays(contract, c, runs) ==
    {runs[r].declared : r \in {q \in Attempts(c, runs) : NetworkAttemptValid(contract, runs[q])}}

NetworkStatus(contract, c, runs, installed, windows) ==
    IF Cardinality(NetworkDays(contract, c, runs)) >= windows THEN "completed"
    ELSE IF installed["network"] # contract.version THEN "superseded" ELSE "active"

\* Mutant of NetworkWindowOpen: a day that has counted can be dispatched again.
NetworkWindowOpenAnyDay(contract, c, runs, installed, windows, today, topology, participants) ==
    /\ NetworkStatus(contract, c, runs, installed, windows) = "active"
    /\ \A r \in Attempts(c, runs) : ~ Open(runs[r])
    /\ SessionMatches(contract, topology, participants)

(* next_window.eligible, without the presence of the two Agents.  The      *)
(* campaign's stored status is always "active": nothing writes another.    *)
NetworkWindowOpen(contract, c, runs, installed, windows, today, topology, participants) ==
    /\ NetworkStatus(contract, c, runs, installed, windows) = "active"
    /\ \A r \in Attempts(c, runs) : ~ Open(runs[r])
    /\ today \notin NetworkDays(contract, c, runs)
    /\ SessionMatches(contract, topology, participants)
=============================================================================

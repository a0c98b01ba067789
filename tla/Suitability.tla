----------------------------- MODULE Suitability -----------------------------
(***************************************************************************)
(* suitability.py: what the stored Runs prove.  evaluate_suitability       *)
(* accepts completed Runs, attributes them to targets and groups targets   *)
(* of one provider, product, region and operating system into cohorts; in  *)
(* a cohort every metric is split again by its exact contract, and is      *)
(* comparable only once enough samples, targets and UTC days support it.   *)
(* Metrics are abstracted to one per suite, which every profile of the     *)
(* suite feeds.  Pure operators over the stored runs (records of           *)
(* Campaigns.tla) and systems, the function from a target to the system    *)
(* the evaluator reads for it.  met is the sequence in which its loop over *)
(* the stored Runs meets them, which is not the order of their completion. *)
(***************************************************************************)
EXTENDS Naturals, FiniteSets, Sequences, PairingTopology

CONSTANTS QuickProfiles, \* the profiles that _profile_quality calls quick
          MaxAge,        \* EVIDENCE_MAX_AGE_DAYS, 30
          MinSamples,    \* COMPARISON_MIN_SAMPLES, 9
          MinTargets,    \* COMPARISON_MIN_TARGETS, 3
          MinDays        \* COMPARISON_MIN_WINDOWS, 3

(* _timestamp_is_fresh of the completion time *)
Fresh(run, today) == today - run.finished <= MaxAge

(* _run_targets: a paired Run speaks for both Agents it measured. *)
RunTargets(run) == IF run.suite = "network" THEN run.pair ELSE {run.where}

(* _run_valid: only the installed storage methodologies are recognised;    *)
(* those of earlier network profiles stay recognised, and a network Run    *)
(* has to be comparison-eligible.  A completed storage Run has removed its *)
(* files.                                                                  *)
RunAccepted(run, installed) ==
    /\ run.status = "completed"
    /\ run.suite = "storage" => run.version = installed["storage"]
    /\ run.suite = "network" => run.version <= installed["network"] /\ run.sound

AcceptedOf(target, runs, installed) ==
    {r \in DOMAIN runs : RunAccepted(runs[r], installed) /\ target \in RunTargets(runs[r])}

(* _profile_quality *)
Rank(run) == IF run.profile \in QuickProfiles THEN 1 ELSE 2

(* The order in which _put compares two items: fresh before stale, then    *)
(* the rank of their profiles, then the later completion.                  *)
Outranks(run, other, today) ==
    IF Fresh(run, today) # Fresh(other, today) THEN Fresh(run, today)
    ELSE IF Rank(run) # Rank(other) THEN Rank(run) > Rank(other)
    ELSE run.finished > other.finished

\* Mutant of Put: the first item met is kept.
PutFirst(kept, r, runs, today) == IF kept = 0 THEN r ELSE kept

(* _put: the position of the Run whose item is kept, 0 for none yet.       *)
Put(kept, r, runs, today) ==
    IF kept = 0 \/ Outranks(runs[r], runs[kept], today) THEN r ELSE kept

(* The item of one metric of one target after all Runs were met.           *)
Evidence(met, target, suite, runs, installed, today) ==
    LET Feeds(r) == r \in AcceptedOf(target, runs, installed) /\ runs[r].suite = suite
        kept[i \in 0 .. Len(met)] ==
            IF i = 0 THEN 0
            ELSE IF Feeds(met[i]) THEN Put(kept[i - 1], met[i], runs, today)
            ELSE kept[i - 1]
    IN  kept[Len(met)]

(* _evaluate_scenario: the status of the check of one metric ("observed"   *)
(* stands for pass and fail), and whether a scenario that asks for these   *)
(* suites can be classified at all.                                        *)
CheckStatus(met, target, suite, runs, installed, today) ==
    LET best == Evidence(met, target, suite, runs, installed, today)
    IN  IF best = 0 THEN "unavailable"
        ELSE IF Fresh(runs[best], today) THEN "observed" ELSE "stale"

Verdict(met, target, suites, runs, installed, today) ==
    IF \A s \in suites : CheckStatus(met, target, s, runs, installed, today) = "observed"
    THEN "classified" ELSE "insufficient"

(* evaluate_suitability: the targets with a report. *)
Reported(runs) ==
    {"controller"} \cup UNION {RunTargets(runs[r]) : r \in {q \in DOMAIN runs : runs[q].status = "completed"}}

(* _provider_observations leaves out a target without fresh evidence or    *)
(* without a provider and product name.                                    *)
Included(target, runs, installed, today, systems) ==
    /\ \E r \in AcceptedOf(target, runs, installed) : Fresh(runs[r], today)
    /\ systems[target].provider # "Unknown"
    /\ systems[target].sku # ""

CohortKey(s) == <<s.provider, s.sku, s.region, s.os>>

Cohorts(runs, installed, today, systems) ==
    LET included == {t \in Reported(runs) : Included(t, runs, installed, today, systems)}
    IN  {{t \in included : CohortKey(systems[t]) = k} : k \in {CohortKey(systems[t]) : t \in included}}

(* The contract a sample is filed under. *)
MetricContract(run) ==
    IF run.suite = "network"
    THEN <<run.suite, run.version, ScopeClaimed(run.topology), "not-applicable", run.profile>>
    ELSE <<run.suite, run.version, <<"single-target", "single-target">>, run.system.disk,
           run.profile>>

(* Whether the cohort looks at the Run for the peer: a paired Run only     *)
(* when both its Agents are peers.                                         *)
Observed(peer, run, peers, installed, today) ==
    /\ peer \in RunTargets(run)
    /\ RunAccepted(run, installed)
    /\ Fresh(run, today)
    /\ run.suite = "network" => RunTargets(run) \subseteq peers

NoSamples == [samples |-> 0, runs |-> {}, targets |-> {}, days |-> {}]

\* Mutant of Sampled: a Run is a sample of each of its targets.
SampledPerTarget(built, r, peers, runs) ==
    [samples |-> built.samples + 1,
     runs |-> built.runs \cup {r},
     targets |-> built.targets \cup (RunTargets(runs[r]) \cap peers),
     days |-> built.days \cup {runs[r].finished}]

(* A Run met again under another of its targets adds no sample. *)
Sampled(built, r, peers, runs) ==
    [samples |-> IF r \in built.runs THEN built.samples ELSE built.samples + 1,
     runs |-> built.runs \cup {r},
     targets |-> built.targets \cup (RunTargets(runs[r]) \cap peers),
     days |-> built.days \cup {runs[r].finished}]

(* For each peer, the Runs that file a sample of it under the contract.    *)
Filed(peers, contract, runs, installed, today) ==
    [peer \in peers |->
        {r \in DOMAIN runs : /\ Observed(peer, runs[r], peers, installed, today)
                             /\ MetricContract(runs[r]) = contract}]

(* The inner loop of _provider_observations: the Runs of one peer, as they *)
(* were met, with the samples of one contract built so far.                *)
SamplesOfPeer(built, met, filed, peers, runs) ==
    LET after[i \in 0 .. Len(met)] ==
            IF i = 0 THEN built
            ELSE IF met[i] \in filed THEN Sampled(after[i - 1], met[i], peers, runs)
            ELSE after[i - 1]
    IN  after[Len(met)]

(* The outer loop, over the sequence of the peers of a cohort.             *)
MetricCohort(met, sequence, filed, peers, runs) ==
    LET after[i \in 0 .. Len(sequence)] ==
            IF i = 0 THEN NoSamples
            ELSE SamplesOfPeer(after[i - 1], met, filed[sequence[i]], peers, runs)
    IN  after[Len(sequence)]

MetricContracts(peers, runs, installed, today) ==
    {MetricContract(runs[r]) : r \in
        {q \in DOMAIN runs : \E p \in peers : Observed(p, runs[q], peers, installed, today)}}

(* _provider_identity_verified for every peer, the three minima, a scope   *)
(* that is neither undeclared nor contradicted, and a storage contract     *)
(* that could be observed.                                                 *)
Comparable(peers, contract, cohort, systems) ==
    /\ \A t \in peers : Trusted(systems[t])
    /\ cohort.samples >= MinSamples
    /\ Cardinality(cohort.targets) >= MinTargets
    /\ Cardinality(cohort.days) >= MinDays
    /\ contract[3][1] # "undeclared"
    /\ contract[4] # "unknown"
=============================================================================

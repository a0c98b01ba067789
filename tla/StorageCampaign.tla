--------------------------- MODULE StorageCampaign ---------------------------
(***************************************************************************)
(* storage_campaigns.py: the rules of a repeated-window storage campaign.  *)
(* It starts from a completed baseline Run, which is its first window, and *)
(* is projected from that Run and the dispatched ones each time it is      *)
(* read.  The baseline and every attempt are measured against the pinned   *)
(* contract, and their measurement against the profile installed now.      *)
(***************************************************************************)
LOCAL INSTANCE Naturals
LOCAL INSTANCE FiniteSets
LOCAL INSTANCE Sequences

StorageAttempts(c, runs) == {r \in DOMAIN runs : runs[r].campaign = c}

(* storage_target_identity: the disk belongs to the storage contract. *)
TargetIdentity(s) ==
    [provider |-> s.provider, trusted |-> s.trusted, sku |-> s.sku, region |-> s.region,
     zone |-> s.zone, os |-> s.os]

(* storage_run_contract: the environment token and whether it is verified. *)
StorageEnvironment(run) == run.system.disk
EnvironmentVerified(run) == run.system.disk # "unknown"

(* _measurement_contract_complete: every expected job, measured under the  *)
(* profile and methodology versions the Controller has installed now.      *)
MeasurementComplete(run, installed) == run.sound /\ run.version = installed["storage"]

\* Mutant of ResultAccepted: the Run may have measured another disk.
ResultAcceptedAnyDisk(contract, run, installed) ==
    /\ run.suite = "storage"
    /\ run.where = contract.scope
    /\ run.profile = contract.profile
    /\ run.status = "completed"
    /\ run.version = contract.version
    /\ TargetIdentity(run.system) = contract.target
    /\ MeasurementComplete(run, installed)
    /\ EnvironmentVerified(run)

(* _validate_storage_result; the day it answers is the completion day, and *)
(* an earlier refusal answers no day at all (0).                           *)
ResultAccepted(contract, run, installed) ==
    /\ run.suite = "storage"
    /\ run.where = contract.scope
    /\ run.profile = contract.profile
    /\ run.status = "completed"
    /\ run.version = contract.version
    /\ TargetIdentity(run.system) = contract.target
    /\ MeasurementComplete(run, installed)
    /\ EnvironmentVerified(run)
    /\ StorageEnvironment(run) = contract.disk

StorageResultValid(contract, run, installed) ==
    /\ ResultAccepted(contract, run, installed)
    /\ run.started = run.finished

(* build_storage_campaign_contract: the candidate contract of a baseline.  *)
StorageContract(baseline, run, version) ==
    [kind |-> "storage", scope |-> run.where, profile |-> run.profile, version |-> version,
     target |-> TargetIdentity(run.system), disk |-> StorageEnvironment(run),
     baseline |-> baseline, day |-> run.finished]

(* The baseline as each projection finds it. *)
BaselineValid(contract, runs, installed) ==
    /\ StorageResultValid(contract, runs[contract.baseline], installed)
    /\ runs[contract.baseline].finished = contract.day

(* _attempt_contract_status: the declared day must be the completion day.  *)
StorageAttemptValid(contract, run, installed) ==
    /\ StorageResultValid(contract, run, installed)
    /\ run.declared = run.finished

(* The attempts that count: the first valid one of a day the baseline has  *)
(* not taken.  runs are in the order they were created, which is the order *)
(* in which the attempts of one campaign started.                          *)
CountedAttempts(contract, c, runs, installed) ==
    LET valid == {r \in StorageAttempts(c, runs) : StorageAttemptValid(contract, runs[r], installed)}
    IN  {r \in valid :
            /\ BaselineValid(contract, runs, installed) => runs[r].finished # contract.day
            /\ \A q \in valid : runs[q].finished = runs[r].finished => r <= q}

StorageDays(contract, c, runs, installed) ==
    {runs[r].finished : r \in CountedAttempts(contract, c, runs, installed)}
      \cup {d \in {contract.day} : BaselineValid(contract, runs, installed)}

(* project_storage_campaign *)
StorageStatus(contract, c, runs, installed, windows) ==
    IF ~ BaselineValid(contract, runs, installed) THEN "invalid"
    ELSE IF Cardinality(StorageDays(contract, c, runs, installed)) >= windows THEN "completed"
    ELSE IF installed["storage"] # contract.version THEN "superseded" ELSE "active"

(* next_window.eligible, without the presence of the target's Agent. *)
StorageWindowOpen(contract, c, runs, installed, windows, today, current) ==
    /\ StorageStatus(contract, c, runs, installed, windows) = "active"
    /\ \A r \in StorageAttempts(c, runs) : runs[r].status \notin {"queued", "running"}
    /\ today \notin StorageDays(contract, c, runs, installed)
    /\ TargetIdentity(current) = contract.target
=============================================================================

----------------------------- MODULE RunLedger -----------------------------
(***************************************************************************)
(* What CloudMark promises about single-target Runs, with no Controller    *)
(* threads, HTTP requests or task rows in sight: a Run moves once through  *)
(* queued, running and a terminal status, it holds its target exclusively  *)
(* while it works, it has let go of the target before it becomes terminal, *)
(* and it completes only on work that was really delivered.  RunControl    *)
(* implements this.                                                        *)
(***************************************************************************)
CONSTANTS
  Runs, Targets, NoTarget

VARIABLES
  status,   \* the Run's public status
  target,   \* the target the Run was admitted for
  work      \* "none", then "held" while the target is held, then the outcome

ledger == <<status, target, work>>

Open == {"queued", "running"}
Settled == {"completed", "failed", "cancelled"}

LedgerTypeOK ==
  /\ status \in [Runs -> {"absent"} \cup Open \cup Settled]
  /\ target \in [Runs -> Targets \cup {NoTarget}]
  /\ work \in [Runs -> {"none", "held", "delivered", "dropped"}]

LedgerInit ==
  /\ status = [r \in Runs |-> "absent"]
  /\ target = [r \in Runs |-> NoTarget]
  /\ work = [r \in Runs |-> "none"]

Admit(r, g) ==
  /\ status[r] = "absent"
  /\ \A s \in Runs : status[s] \in Open => target[s] # g
  /\ status' = [status EXCEPT ![r] = "queued"]
  /\ target' = [target EXCEPT ![r] = g]
  /\ UNCHANGED work

Start(r) ==
  /\ status[r] = "queued"
  /\ status' = [status EXCEPT ![r] = "running"]
  /\ UNCHANGED <<target, work>>

Acquire(r) ==
  /\ status[r] = "running" /\ work[r] = "none"
  /\ \A s \in Runs : work[s] = "held" => target[s] # target[r]
  /\ work' = [work EXCEPT ![r] = "held"]
  /\ UNCHANGED <<status, target>>

Release(r) ==
  /\ work[r] = "held"
  /\ \E w \in {"delivered", "dropped"} : work' = [work EXCEPT ![r] = w]
  /\ UNCHANGED <<status, target>>

Settle(r) ==
  /\ status[r] = "running" /\ work[r] # "held"
  /\ \E s \in Settled :
       /\ s = "completed" => work[r] = "delivered"
       /\ status' = [status EXCEPT ![r] = s]
  /\ UNCHANGED <<target, work>>

\* A Controller restart settles everything that was open in one step.
Interrupt ==
  /\ status' = [r \in Runs |-> IF status[r] \in Open THEN "failed" ELSE status[r]]
  /\ work' = [r \in Runs |-> IF work[r] = "held" THEN "dropped" ELSE work[r]]
  /\ UNCHANGED target

LedgerNext ==
  \/ \E r \in Runs, g \in Targets : Admit(r, g)
  \/ \E r \in Runs : Start(r) \/ Acquire(r) \/ Release(r) \/ Settle(r)
  \/ Interrupt

LedgerSpec == LedgerInit /\ [][LedgerNext]_ledger
=============================================================================

---------------------------- MODULE MCTaskStore ----------------------------
(***************************************************************************)
(* The task table with three rows, two runs and two Agents: enough for two *)
(* tasks of one Agent to be claimed in order beside a task of the other,   *)
(* and for two tasks of one run to be cancelled together.                  *)
(***************************************************************************)
EXTENDS TaskStore, TLC

MCEvidence == 0..1

MCSymmetry == Permutations(TaskIds) \cup Permutations(Runs) \cup Permutations(Agents)
=============================================================================

-------------------------- MODULE MCPairedService --------------------------
(***************************************************************************)
(* PairedService on small instances: one plan of each executor, shortened  *)
(* to one client task, for one Run or two Runs that follow each other on   *)
(* the same pair.                                                          *)
(***************************************************************************)
EXTENDS PairedService, TLC

MCMySQLPlan == <<"start", "prepare", "cleanup", "stop">>
MCPlainPlan == <<"start", "probe", "client", "stop">>
MCPostgresPlan == <<"start", "probe", "client", "recovery", "stop">>

MCSymmetry == Permutations(Runs)
=============================================================================

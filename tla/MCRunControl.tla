---------------------------- MODULE MCRunControl ----------------------------
(***************************************************************************)
(* RunControl on small instances: two Runs that compete for one Agent and  *)
(* the Controller's host, or one Run with every interference by operator,  *)
(* network, Agent and restart.  Runs, and server threads, are alike.       *)
(***************************************************************************)
EXTENDS RunControl, TLC

MCSymmetry == Permutations(Runs) \cup Permutations(Handlers)
=============================================================================

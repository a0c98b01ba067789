--------------------------- MODULE MCNetworkSuite ---------------------------
(***************************************************************************)
(* NetworkSuite on small instances: one TCP measurement in one direction,  *)
(* for two Runs, or a latency and a TCP measurement both ways.             *)
(***************************************************************************)
EXTENDS NetworkSuite, TLC

MCForward == << [sender |-> "generator", receiver |-> "target"] >>
MCBothDirections == MCForward \o << [sender |-> "target", receiver |-> "generator"] >>

MCTcpOnly == [path |-> FALSE, latency |-> FALSE, post |-> FALSE, bidirectional |-> FALSE,
              streams |-> 1, rates |-> 0]
MCWithLatency == [MCTcpOnly EXCEPT !.latency = TRUE]

MCSymmetry == Permutations(Runs)
=============================================================================

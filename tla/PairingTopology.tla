--------------------------- MODULE PairingTopology ---------------------------
(***************************************************************************)
(* Where a paired Run was measured: topology.py compares what the operator *)
(* declared for the pairing session with what the provider metadata of the *)
(* two Agents says.  A system is the record an Agent sent when it joined:  *)
(*   provider, trusted (a confident source that is neither declared nor    *)
(*   unverified), sku, region, zone, os, and disk, the storage contract of *)
(*   its file system ("unknown" where it could not be observed).           *)
(* Pure operators; the module keeps no state.                              *)
(***************************************************************************)

Scopes == {"undeclared", "same-host", "same-zone", "cross-zone", "cross-region",
           "public-internet"}

Topologies ==
    [scope : Scopes, source : {"unavailable", "operator-declared"},
     status : {"pending", "unavailable", "derived", "compatible", "confirmed", "contradicted"},
     observed : Scopes]

(* _trusted_provider *)
Trusted(s) == s.trusted /\ s.provider # "Unknown"

(* _independent_observation: "undeclared" stands for no observation. *)
ObservedScope(t, g) ==
    IF \/ ~ (Trusted(t) /\ Trusted(g))
       \/ t.provider # g.provider
       \/ "" \in {t.region, g.region}
    THEN "undeclared"
    ELSE IF t.region # g.region THEN "cross-region"
    ELSE IF "" \in {t.zone, g.zone} THEN "undeclared"
    ELSE IF t.zone # g.zone THEN "cross-zone" ELSE "same-zone"

(* assess_pairing_topology: ts and gs hold the system of the session's     *)
(* first Target and of its first Generator, or nothing.                    *)
Verification(scope, ts, gs) ==
    IF ts = << >> \/ gs = << >> THEN [status |-> "pending", observed |-> "undeclared"]
    ELSE LET seen == ObservedScope(ts[1], gs[1])
         IN  [observed |-> seen,
              status |->
                 CASE seen = "undeclared" -> "unavailable"
                   [] seen # "undeclared" /\ scope = "undeclared" -> "derived"
                   [] seen # "undeclared" /\ scope = "public-internet" -> "compatible"
                   [] seen # "undeclared" /\ scope = seen -> "confirmed"
                   [] scope = "same-host" /\ seen = "same-zone" -> "compatible"
                   [] OTHER -> "contradicted"]

Assess(scope, ts, gs) ==
    LET v == Verification(scope, ts, gs)
    IN  [scope |-> scope, status |-> v.status, observed |-> v.observed,
         source |-> IF scope = "undeclared" THEN "unavailable" ELSE "operator-declared"]

(* _run_topology_contract: the scope a cohort may claim and the class of   *)
(* the evidence for it.                                                    *)
ScopeClaimed(topology) ==
    CASE topology.status \in {"confirmed", "derived"} -> <<topology.observed, "independently-derived">>
      [] topology.status = "contradicted" -> <<"undeclared", "contradicted">>
      [] topology.status \notin {"confirmed", "derived", "contradicted"}
         /\ topology.source = "operator-declared" -> <<topology.scope, "operator-declared">>
      [] OTHER -> <<"undeclared", "unavailable">>
=============================================================================

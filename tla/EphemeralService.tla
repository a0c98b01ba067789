-------------------------- MODULE EphemeralService --------------------------
(***************************************************************************)
(* What an Agent promises of the paired services it is asked to start: one *)
(* at a time, each is started once, and one that is gone stays gone.       *)
(* ServiceLifecycle implements it; PairedService sees an Agent this way.   *)
(***************************************************************************)
CONSTANT Services  \* the start tasks an Agent may receive

VARIABLE service   \* per service: absent, starting, serving or gone

Init == service = [s \in Services |-> "absent"]

Live(s) == service[s] \in {"starting", "serving"}

\* Only while no other service is starting or serving.
Start(s) ==
  /\ service[s] = "absent"
  /\ \A u \in Services : ~Live(u)
  /\ service' = [service EXCEPT ![s] = "starting"]

Refuse(s) == service[s] = "absent" /\ service' = [service EXCEPT ![s] = "gone"]

Serve(s) == service[s] = "starting" /\ service' = [service EXCEPT ![s] = "serving"]

Remove(s) == Live(s) /\ service' = [service EXCEPT ![s] = "gone"]

Next == \E s \in Services : Start(s) \/ Refuse(s) \/ Serve(s) \/ Remove(s)

Spec == Init /\ [][Next]_service
=============================================================================

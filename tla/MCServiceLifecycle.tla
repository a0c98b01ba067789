------------------------- MODULE MCServiceLifecycle -------------------------
(***************************************************************************)
(* ServiceLifecycle with two starts of one engine, which can find what the *)
(* other left, and a third of another engine.                              *)
(***************************************************************************)
EXTENDS ServiceLifecycle, TLC

CONSTANTS first, second, other

MCPair(engine, another) == first :> engine @@ second :> engine @@ other :> another

MCAssignments == {MCPair("postgresql", "mysql"), MCPair("redis", "web")}
=============================================================================

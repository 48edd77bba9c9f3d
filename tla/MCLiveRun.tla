------------------------------ MODULE MCLiveRun ------------------------------
(* Two patterns whose seams are live services: P5 needs a gateway with a      *)
(* target, P6 a guardrail, and P6 is the one whose counts are not compared.   *)
EXTENDS LiveRun

MCPatterns == {"P5", "P6"}
\* All ids, those of the inventory after it lost the gateway's url, or none.
MCPassed   == {Kinds, {"memory", "guardrail"}, {}}
Symmetry == Permutations(Prefixes)
=============================================================================

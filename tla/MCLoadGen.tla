------------------------------ MODULE MCLoadGen ------------------------------
(* Demands for TLC: short, long, and one that mostly waits for a human. *)
EXTENDS LoadGen

MCDemands == {[service |-> 1, nonblocking |-> 0], [service |-> 4, nonblocking |-> 0],
              [service |-> 4, nonblocking |-> 3]}
=============================================================================

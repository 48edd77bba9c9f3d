---------------------------- MODULE MCBridgeProbe ----------------------------
(* A channel for TLC: four tasks among events of other runs. *)
EXTENDS BridgeProbe

MCStream == <<0, 1, 2, 0, 3, 4, 0>>
=============================================================================

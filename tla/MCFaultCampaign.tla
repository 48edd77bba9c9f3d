--------------------------- MODULE MCFaultCampaign ---------------------------
(* Small cells for TLC: values of FaultCampaign's constants. *)
EXTENDS FaultCampaign

\* S1: one step; S3: two steps; S2 in miniature: three steps with their stages.
MCShapes ==
    {[id |-> 0, steps |-> 1, staged |-> FALSE, low |-> FALSE],
     [id |-> 0, steps |-> 1, staged |-> FALSE, low |-> TRUE],
     [id |-> 0, steps |-> 2, staged |-> FALSE, low |-> FALSE],
     [id |-> 0, steps |-> 3, staged |-> TRUE,  low |-> TRUE]}

MCTools == <<"search", "crm_lookup">>

MCAllFaults == FaultType \cup {NoFault}
MCWindow == <<1, 4>>
=============================================================================

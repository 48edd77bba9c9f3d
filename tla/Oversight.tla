----------------------------- MODULE Oversight ------------------------------
(***************************************************************************)
(* The three gates of the repository that put a human between a result and *)
(* its use: the task gate of the seven-pattern effort, the governor of the *)
(* governance demonstration, and P6's pause and resume.  They share no     *)
(* state and no process, so one behaviour exercises one of them.           *)
(***************************************************************************)
EXTENDS TaskGate, Governor, Adjudication

VARIABLE gate       \* the gate this behaviour exercises

vars == <<gate, gateVars, govVars, adjVars>>

\* What a behaviour does not exercise starts in one state.
Init ==
    /\ gate \in {"tasks", "governor", "adjudication"}
    /\ GateInit /\ GovInit /\ AdjInit
    /\ gate # "tasks" => backlog = CHOOSE b \in Backlogs : TRUE
    /\ gate # "adjudication" => on_bedrock

Next ==
    /\ UNCHANGED gate
    /\ \/ gate = "tasks" /\ GateNext /\ UNCHANGED <<govVars, adjVars>>
       \/ gate = "governor" /\ GovNext /\ UNCHANGED <<gateVars, adjVars>>
       \/ gate = "adjudication" /\ AdjNext /\ UNCHANGED <<gateVars, govVars>>

Spec == Init /\ [][Next]_vars
=============================================================================

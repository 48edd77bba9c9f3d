------------------------------ MODULE Pipeline ------------------------------
(***************************************************************************)
(* P2 Sequential Pipeline (patterns/p2_pipeline.py): the stages run in     *)
(* order, each on the previous one's output; a failed stage ends the       *)
(* request and the stages behind it never run.                             *)
(***************************************************************************)
EXTENDS Pattern

CONSTANT DefaultStages   \* Len(DEFAULT_STAGES)

ASSUME StagesAssumption == DefaultStages \in Nat \ {0}

VARIABLE stage   \* stages completed by this request

P2Init == stage = 0

P2Begin(i, start, inFlight) ==
    run(i, start, inFlight, "P2.stage") /\ stage' = 0

\* The payload's own stage list, or a prefix of the default one.
stages == IF item.staged THEN item.steps
          ELSE Max({1, Min({item.steps, DefaultStages})})

StageCall == IF OnBedrock THEN invoke_agent(armed, ctx) ELSE send(armed, ctx, <<"stage">>)

RunStage ==
    /\ pc = "P2.stage"
    /\ \E r \in StageCall :
         \/ /\ r.ok
            /\ stage + 1 < stages
            /\ stage' = stage + 1
            /\ Goto(r.ctx, "P2.stage")
         \/ /\ r.ok
            /\ stage + 1 = stages
            /\ stage' = stage + 1
            /\ Return(r.ctx, "ok")
         \/ Raise(r) /\ UNCHANGED stage

P2Next == RunStage
=============================================================================

------------------------------- MODULE Pattern -------------------------------
(***************************************************************************)
(* The frame every orchestration pattern runs in (patterns/base.py): one   *)
(* pattern object on one platform, its call context and the request being  *)
(* executed.  A request is a straight line of client calls; pc names the   *)
(* next one.  The pattern modules add their own state and actions.         *)
(***************************************************************************)
EXTENDS CallContext

CONSTANTS
    Items   \* work items: [id, steps, staged, low]; see Item

\* steps: payload["steps"]; staged: the payload carries a stage list of that
\* length (S2); low: the confidence is below the adjudication threshold.
Item == [id : Nat, steps : Nat \ {0}, staged : BOOLEAN, low : BOOLEAN]

ASSUME ItemsAssumption == Items # {} /\ Items \subseteq Item

NoItem == [id |-> 0, steps |-> 1, staged |-> FALSE, low |-> FALSE]

VARIABLES
    platform,   \* "bedrock" or "agentforce"; fixed
    armed,      \* the injector's armed entry
    ctx,        \* the pattern's CallContext
    item,       \* the request being executed
    pc,         \* the next call of the request
    result      \* status of the returned WorkResult

frame == <<platform, armed, ctx, item, pc, result>>

Status == {"none", "ok", "error", "timeout"}

OnBedrock == platform = "bedrock"

work_steps == item.steps

CeilDiv(a, b) == (a + b - 1) \div b

Scaled(c, scale) == [c EXCEPT !.content_scale = scale]
Unscaled(c)      == Scaled(c, 1)

\* The status of a request whose client call failed with `fault`.
ErrorStatus(fault) == IF fault = "timeout" THEN "timeout" ELSE "error"

Goto(c, label) ==
    /\ ctx' = c
    /\ pc' = label
    /\ UNCHANGED <<platform, armed, item, result>>

Return(c, status) ==
    /\ ctx' = c
    /\ pc' = "returned"
    /\ result' = status
    /\ UNCHANGED <<platform, armed, item>>

\* The client error reaches the handler in _execute.
Raise(r) == ~r.ok /\ Return(r.ctx, ErrorStatus(r.fault))

\* run(): the load generator has set the timeline fields, then the request's
\* accumulators are reset and _execute starts.
run(i, start, inFlight, entry) ==
    /\ ctx' = reset_request([ctx EXCEPT !.request_start_ts = start,
                                        !.concurrent_in_flight = inFlight])
    /\ item' = i
    /\ pc' = entry
    /\ result' = "none"
    /\ UNCHANGED <<platform, armed>>
=============================================================================

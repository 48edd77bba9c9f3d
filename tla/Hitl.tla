-------------------------------- MODULE Hitl --------------------------------
(***************************************************************************)
(* P6 Human-in-the-Loop Adjudication (patterns/p6_hitl.py with OmniChannel *)
(* of clients/agentforce.py): a draft below the confidence threshold       *)
(* pauses the run, is routed to a human queue and resumes with the         *)
(* recorded decision.  A fault of the human queue defers the decision.     *)
(***************************************************************************)
EXTENDS Pattern

VARIABLES
    paused,         \* items with a pause token not yet resumed
    adjudication,   \* the Omni-Channel "adjudication" queue (Agentforce)
    decision_log,   \* items with a logged human decision, in order
    deferred,       \* the routing to the human queue failed
    decision        \* the request's decision

hitl == <<paused, adjudication, decision_log, deferred, decision>>

Decision == {"none", "auto_approved", "approved"}

P6Init ==
    /\ paused = {}
    /\ adjudication = <<>>
    /\ decision_log = <<>>
    /\ deferred = FALSE
    /\ decision = "none"

P6Begin(i, start, inFlight) ==
    /\ run(i, start, inFlight, "P6.draft")
    /\ decision' = "none"
    /\ UNCHANGED <<paused, adjudication, decision_log, deferred>>

DraftActions == [j \in 1..work_steps |-> "draft"]

\* The draft; on Bedrock the guardrails then log it in shadow mode.
DraftCall ==
    LET c == Scaled(ctx, work_steps) IN
    IF OnBedrock
    THEN Then(invoke_agent(armed, c), LAMBDA d : guardrails_apply(armed, Unscaled(d)))
    ELSE {[r EXCEPT !.ctx = IF r.ok THEN Unscaled(@) ELSE @]
            : r \in send(armed, c, DraftActions)}

\* confidence < threshold
NeedsReview == item.low

Draft ==
    /\ pc = "P6.draft"
    /\ \E r \in DraftCall :
         \/ /\ r.ok
            /\ NeedsReview
            /\ Goto(r.ctx, "P6.pause")
            /\ UNCHANGED decision
         \/ /\ r.ok
            /\ ~NeedsReview
            /\ Return(r.ctx, "ok")
            /\ decision' = "auto_approved"
         \/ Raise(r) /\ UNCHANGED decision
    /\ UNCHANGED <<paused, adjudication, decision_log, deferred>>

\* Mutant: the token is never registered.
tokenLost(stored) == paused

\* _paused[token] = state comes after memory_put.
PausedAfter(stored) == IF stored THEN paused \cup {item.id} ELSE paused

\* Bedrock: the paused state is put into the memory store; a store failure
\* raises before the token exists.
PauseInMemory ==
    /\ pc = "P6.pause"
    /\ OnBedrock
    /\ \E r \in memory_op(armed, ctx) :
         /\ paused' = PausedAfter(r.ok)
         /\ \/ r.ok /\ Goto(r.ctx, "P6.route")
            \/ Raise(r)
    /\ UNCHANGED <<adjudication, decision_log, deferred, decision>>

\* Bedrock: the routing hop to the human queue.
RouteToHuman ==
    /\ pc = "P6.route"
    /\ \E r \in boundary_call(armed, ctx, "memory", "human_queue", NoUnit) :
         /\ deferred' = ~r.ok
         /\ Goto(r.ctx, "P6.review")
    /\ UNCHANGED <<paused, adjudication, decision_log, decision>>

\* Agentforce: add_queue replaces the queue by an empty one, then the handoff
\* appends the item; a failed handoff is caught and defers the decision.
PauseByHandoff ==
    /\ pc = "P6.pause"
    /\ ~OnBedrock
    /\ \E r \in handoff(armed, ctx) :
         /\ adjudication' = IF r.ok THEN <<item.id>> ELSE <<>>
         /\ deferred' = ~r.ok
         /\ Goto(r.ctx, "P6.review")
    /\ paused' = paused \cup {item.id}
    /\ UNCHANGED <<decision_log, decision>>

\* Mutant: the deferral is not waited out.
noDeferral(c) == {c}

\* A deferred decision waits for the window to end, or a bounded delay.
Deferral(c) ==
    IF ~deferred THEN {c}
    ELSE IF HasWindow(armed, "human_queue")
         THEN WaitUntil(c, window_end(armed, "human_queue"), FALSE)
         ELSE {add_delay(c, throttle_delay_s, FALSE)}

\* The human decides, resume() pops the token and logs the decision.
Review ==
    /\ pc = "P6.review"
    /\ item.id \in paused
    /\ \E c \in Deferral(ctx), dt \in LatencySamples :
         Return(add_delay(c, dt, FALSE), "ok")
    /\ paused' = paused \ {item.id}
    /\ decision_log' = Append(decision_log, item.id)
    /\ decision' = "approved"
    /\ UNCHANGED <<adjudication, deferred>>

P6Next == Draft \/ PauseInMemory \/ RouteToHuman \/ PauseByHandoff \/ Review
=============================================================================

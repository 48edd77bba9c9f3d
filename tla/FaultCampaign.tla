---------------------------- MODULE FaultCampaign ----------------------------
(***************************************************************************)
(* The fault-injection campaign (rig/faultcampaign.py) over the seven      *)
(* patterns: one cell arms one fault on one component, MaxRequests         *)
(* requests run through one pattern object, and the cell is classified     *)
(* from what each request saw.  NoFault cells are the baseline conditions  *)
(* of rig/loadgen.py.                                                      *)
(*                                                                         *)
(* The load generator is reduced to what the patterns see of it: service   *)
(* starts never go back in time, and the in-flight count is at most the    *)
(* concurrency and at most one more than the requests before this one.     *)
(***************************************************************************)
EXTENDS Supervisor, Pipeline, Choreography, Blackboard, Gateway, Hitl, Bridge

CONSTANTS
    Patterns,            \* the patterns to run
    Platforms,           \* the platforms to run them on
    Faults,              \* the fault types to arm, NoFault included
    Window,              \* the outage window <<start_s, end_s>>
    MaxRequests,         \* requests per cell
    Starts,              \* the service starts to consider
    concurrency,         \* study.concurrency
    probability,         \* campaign.probability, in percent
    threshold            \* containment_threshold, in percent

ASSUME CampaignAssumption ==
    /\ Patterns \subseteq {"P1", "P2", "P3", "P4", "P5", "P6", "P7"}
    /\ Platforms \subseteq {"bedrock", "agentforce"}
    /\ Faults \subseteq FaultType \cup {NoFault}
    /\ Window \in Nat \X Nat /\ Window[1] < Window[2]
    /\ MaxRequests \in Nat \ {0} /\ Starts \subseteq Nat
    /\ concurrency \in Nat \ {0}
    /\ probability \in 0..100 /\ threshold \in 1..100

VARIABLES
    pattern,        \* the cell's pattern
    cell,           \* [component, fault] of the cell
    per_request,    \* [traversed, ok, degraded] of each finished request
    classification  \* the cell's class, once it has ended

patternVars == <<fanout, stage, choreography, blackboard, gateway, hitl, remote_ctx>>
campaign    == <<pattern, cell, per_request, classification>>
vars        == <<frame, patternVars, campaign>>

\* relevant_components: the components a clean probe of the pattern touches.
relevant_components(p, plat) ==
    CASE p \in {"P1", "P2"} -> {"model_backend"} \cup (IF plat = "agentforce" THEN {"tool"} ELSE {})
      [] p = "P3" -> {"model_backend", "event_bus"} \cup (IF plat = "agentforce" THEN {"tool"} ELSE {})
      [] p = "P4" -> {"model_backend", "memory_store"} \cup (IF plat = "agentforce" THEN {"tool"} ELSE {})
      [] p = "P5" -> {"model_backend", "tool"} \cup (IF plat = "bedrock" THEN {"gateway"} ELSE {})
      [] p = "P6" -> {"model_backend", "human_queue"} \cup (IF plat = "bedrock" THEN {"gateway", "memory_store"} ELSE {"tool"})
      [] p = "P7" -> {"model_backend", "tool"}

\* structural_unit: P5's first tool, P7's remote cluster, else every unit.
structural_unit(p, component) ==
    CASE p = "P5" /\ component = "tool"          -> Tools[1]
      [] p = "P7" /\ component = "model_backend" -> RemoteUnit
      [] OTHER                                   -> NoUnit

ArmedFor(p, component, fault) ==
    LET unit == structural_unit(p, component) IN
    CASE fault = NoFault  -> NothingArmed
      [] fault = "outage" -> arm_window(NothingArmed, component, fault,
                                        Window[1], Window[2], unit)
      [] OTHER            -> arm(NothingArmed, component, fault, probability, unit)

Init ==
    /\ pattern \in Patterns
    /\ platform \in Platforms
    /\ cell \in [component : relevant_components(pattern, platform), fault : Faults]
    /\ armed = ArmedFor(pattern, cell.component, cell.fault)
    /\ ctx = build(NoUnit)
    /\ item = NoItem /\ pc = "idle" /\ result = "none"
    /\ P1Init /\ P2Init /\ P3Init /\ P4Init /\ P5Init /\ P6Init /\ P7Init
    /\ per_request = <<>>
    /\ classification = "none"

\* The load generator hands the next item to the pattern.
StartRequest ==
    /\ pc = "idle"
    /\ Len(per_request) < MaxRequests
    /\ \E shape \in Items, start \in {s \in Starts : s >= ctx.request_start_ts},
          inFlight \in 1..Min({concurrency, Len(per_request) + 1}) :
         LET i == [shape EXCEPT !.id = Len(per_request) + 1] IN
         /\ CASE pattern = "P1" -> P1Begin(i, start, inFlight) /\ UNCHANGED <<stage, choreography, blackboard, gateway, hitl, remote_ctx>>
              [] pattern = "P2" -> P2Begin(i, start, inFlight) /\ UNCHANGED <<fanout, choreography, blackboard, gateway, hitl, remote_ctx>>
              [] pattern = "P3" -> P3Begin(i, start, inFlight) /\ UNCHANGED <<fanout, stage, blackboard, gateway, hitl, remote_ctx>>
              [] pattern = "P4" -> P4Begin(i, start, inFlight) /\ UNCHANGED <<fanout, stage, choreography, gateway, hitl, remote_ctx>>
              [] pattern = "P5" -> P5Begin(i, start, inFlight) /\ UNCHANGED <<fanout, stage, choreography, blackboard, hitl, remote_ctx>>
              [] pattern = "P6" -> P6Begin(i, start, inFlight) /\ UNCHANGED <<fanout, stage, choreography, blackboard, gateway, remote_ctx>>
              [] pattern = "P7" -> P7Begin(i, start, inFlight) /\ UNCHANGED <<fanout, stage, choreography, blackboard, gateway, hitl>>
    /\ UNCHANGED campaign

\* One client call of the running request.
PatternStep ==
    /\ UNCHANGED campaign
    /\ \/ P1Next /\ UNCHANGED <<stage, choreography, blackboard, gateway, hitl, remote_ctx>>
       \/ P2Next /\ UNCHANGED <<fanout, choreography, blackboard, gateway, hitl, remote_ctx>>
       \/ P3Next /\ UNCHANGED <<fanout, stage, blackboard, gateway, hitl, remote_ctx>>
       \/ P4Next /\ UNCHANGED <<fanout, stage, choreography, gateway, hitl, remote_ctx>>
       \/ P5Next /\ UNCHANGED <<fanout, stage, choreography, blackboard, hitl, remote_ctx>>
       \/ P6Next /\ UNCHANGED <<fanout, stage, choreography, blackboard, gateway, remote_ctx>>
       \/ P7Next /\ UNCHANGED <<fanout, stage, choreography, blackboard, gateway, hitl>>

\* The faults run_cell finds on the request: the remote context's too.
Observed == ctx.faults_seen \cup (IF pattern = "P7" THEN remote_ctx.faults_seen ELSE {})

\* service_fn: what the campaign records of the returned request.
RecordRequest ==
    /\ pc = "returned"
    /\ per_request' = Append(per_request,
           [traversed |-> \E seen \in Observed : seen[1] = cell.component,
            ok        |-> result = "ok",
            degraded  |-> ctx.degraded])
    /\ pc' = "idle"
    /\ UNCHANGED <<platform, armed, ctx, item, result>>
    /\ UNCHANGED <<patternVars, pattern, cell, classification>>

Traversing(requests) == {k \in DOMAIN requests : requests[k].traversed}

\* Mutant: a cell with a degraded request counts as propagated.
degradedAsPropagated(requests) ==
    IF Traversing(requests) = {} THEN "not_exercised"
    ELSE IF \E k \in Traversing(requests) : requests[k].degraded \/ ~requests[k].ok
    THEN "propagated" ELSE "absorbed"

classify_cell(requests) ==
    LET traversing == Traversing(requests)
        succeeded  == {k \in traversing : requests[k].ok}
    IN  IF traversing = {} THEN "not_exercised"
        ELSE IF 100 * Cardinality(succeeded) < threshold * Cardinality(traversing)
        THEN "propagated"
        ELSE IF \E k \in traversing : requests[k].degraded
        THEN "isolated" ELSE "absorbed"

\* The run of the cell is over: disarm and classify.
EndCell ==
    /\ pc = "idle"
    /\ Len(per_request) = MaxRequests
    /\ pc' = "ended"
    /\ armed' = NothingArmed
    /\ classification' = classify_cell(per_request)
    /\ UNCHANGED <<platform, ctx, item, result, patternVars, pattern, cell, per_request>>

Next == StartRequest \/ PatternStep \/ RecordRequest \/ EndCell

\* The rig is one loop that runs every request to its end.
Spec == Init /\ [][Next]_vars /\ WF_vars(Next)
-----------------------------------------------------------------------------
(* Properties *)

Returned == pc = "returned"

TypeOK ==
    /\ platform \in {"bedrock", "agentforce"}
    /\ ctx \in Context /\ remote_ctx \in Context
    /\ result \in Status
    /\ fanout \in FanoutType
    /\ stage \in Nat /\ subscriptions \in Nat /\ turn \in 0..n_specialists
    /\ request_log \in Seq(1..EventChain) /\ deliveries \in Seq(1..EventChain)
    /\ board \in Seq(1..n_specialists) /\ boardRead \in Seq(1..n_specialists)
    /\ toolCalls \in Nat /\ tool_results \subseteq ToSet(Tools) /\ failures \subseteq ToSet(Tools)
    /\ paused \subseteq 1..MaxRequests /\ adjudication \in Seq(1..MaxRequests)
    /\ decision_log \in Seq(1..MaxRequests)
    /\ deferred \in BOOLEAN /\ decision \in Decision
    /\ per_request \in Seq([traversed : BOOLEAN, ok : BOOLEAN, degraded : BOOLEAN])
    /\ Len(per_request) <= MaxRequests

\* A request that traversed no fault is never harmed: whatever the pattern
\* object did for earlier requests, it ends ok and undegraded.
UntraversedUnharmed ==
    \A k \in DOMAIN per_request :
        ~per_request[k].traversed => per_request[k].ok /\ ~per_request[k].degraded

\* The federated work the remote cluster has finished, over all requests: on
\* Agentforce it is an action, on Bedrock a model invocation.
RemoteWorks == IF OnBedrock THEN remote_ctx.service_calls ELSE remote_ctx.model_invocations

\* A result that reports "ok" stands for the pattern's whole work: no
\* collaborator, stage, event, contribution or tool is silently missing, and
\* its token volume covers all its steps, however they are shared out.  P7 says
\* "degraded" exactly when its federated work was not done: the remote cluster has
\* finished one piece of it for every ok and undegraded request, no more, no less.
OkMeansComplete ==
    Returned /\ result = "ok" =>
        /\ ctx.tokens >= work_steps
        /\ pattern = "P1" => ctx.model_invocations = 2 + n_collaborators * steps_per_branch
        /\ pattern = "P2" => ctx.model_invocations = stages
        /\ pattern = "P3" => request_log = FullChain /\ ctx.model_invocations = EventChain
        /\ pattern = "P4" => ToSet(board) = 1..n_specialists
        /\ pattern = "P5" => tool_results \cup failures = ToSet(Tools)
        /\ pattern = "P7" =>
             RemoteWorks = Cardinality({k \in DOMAIN per_request :
                                           per_request[k].ok /\ ~per_request[k].degraded})
                           + (IF ctx.degraded THEN 0 ELSE 1)

\* The longest a call may take when `seen` are the faults met so far.
LongestCall(seen) == Max(LatencySamples \cup UNION {CallTime(s[2]) : s \in seen})

\* What the load generator books: a human wait is never longer than the request
\* it is part of.  A request of P1, however many of its branches failed, is charged
\* no more than its critical path (plan, one branch, synthesis, each call as long as
\* the faults it met allow) and no less than any of those faults costs.
TimesAccounted ==
    Returned =>
        /\ ctx.nonblocking_s <= ctx.elapsed_s
        /\ pattern = "P1" =>
             /\ ctx.elapsed_s <= LongestCall(ctx.faults_seen)
                                 * (2 + steps_per_branch * (IF OnBedrock THEN 1 ELSE 2))
             /\ \A s \in ctx.faults_seen : \E dt \in CallTime(s[2]) : dt <= ctx.elapsed_s

\* A bus outage fails a P3 request only when the redelivery, after the wait
\* for the window's end, fell short of it by a rounding error.
BusOutageAbsorbedUpToRounding ==
    Returned /\ pattern = "P3" /\ cell = [component |-> "event_bus", fault |-> "outage"]
    /\ result # "ok" => Window[2] - sim_now(ctx) \in RoundDown \ {0}

\* A durable bus absorbs an outage: the request succeeds with elevated latency.
BusOutageAbsorbed ==
    Returned /\ pattern = "P3" /\ cell = [component |-> "event_bus", fault |-> "outage"]
        => result = "ok"

\* One faulted tool of P5 costs that tool's work only.
BulkheadHolds ==
    Returned /\ pattern = "P5" /\ cell.component = "tool" =>
        /\ result = "ok"
        /\ ToSet(Tools) \ {Tools[1]} \subseteq tool_results
        /\ failures \subseteq {Tools[1]}
        /\ ctx.degraded <=> failures # {}

\* No fault turns a low-confidence draft into an approved one without exactly
\* one human decision, which a human-queue outage puts off until its end, and
\* whatever fails leaves no pause token behind.
HumanDecides ==
    Returned /\ pattern = "P6" =>
        /\ paused = {}
        /\ result = "ok" =>
             /\ decision = IF item.low THEN "approved" ELSE "auto_approved"
             /\ Cardinality({k \in DOMAIN decision_log : decision_log[k] = item.id})
                  = IF item.low THEN 1 ELSE 0
             /\ item.low /\ deferred /\ cell = [component |-> "human_queue", fault |-> "outage"]
                  => sim_now(ctx) >= Window[2]

\* "Traversed" means the fault fired on one of the request's own calls; on P7's
\* remote cluster every fault but a throttle then costs the federated work.
TraversedMeansFired ==
    pattern = "P7" /\ cell.component = "model_backend" /\ cell.fault # "throttle" =>
        \A k \in DOMAIN per_request : per_request[k].traversed => per_request[k].degraded

Contained == {"isolated", "absorbed", "not_exercised"}

\* The consequences the campaign is to show: throttles only cost latency; the
\* supervisor, a stage and the store take the request down; the bulkhead, the
\* human queue and the bridge contain their faults.
ContainmentTable ==
    pc = "ended" =>
        /\ cell.fault \in {"throttle", NoFault} =>
             classification \in {"absorbed", "not_exercised"}
        /\ cell.fault \notin {"throttle", NoFault} /\ pattern \in {"P1", "P2", "P4"}
             => classification \in {"propagated", "not_exercised"}
        /\ pattern = "P5" /\ cell.component = "tool"          => classification \in Contained
        /\ pattern = "P6" /\ cell.component = "human_queue"   => classification \in Contained \ {"isolated"}
        /\ pattern = "P7" /\ cell.component = "model_backend" => classification \in Contained

\* Every cell of the campaign ends: no request waits for ever.
CellCompletes == <>(pc = "ended")
=============================================================================

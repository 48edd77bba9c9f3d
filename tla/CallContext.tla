----------------------------- MODULE CallContext -----------------------------
(***************************************************************************)
(* The shared call boundary of the mock platforms: FaultInjector           *)
(* (faults.py), CallContext (clients/context.py) and the client entry      *)
(* points of clients/bedrock.py and clients/agentforce.py.                 *)
(*                                                                         *)
(* Everything here is a constant-level operator on a context record, so    *)
(* that every pattern uses the same boundary.  An operator that stands for *)
(* a call returns the SET of its possible responses, because the latency   *)
(* sample and the probabilistic fault draw are choices of the environment. *)
(* Time is counted in ticks of the simulated arrival timeline.             *)
(***************************************************************************)
EXTENDS Integers, Sequences, FiniteSets, SequencesExt, FiniteSetsExt

CONSTANTS
    LatencySamples,    \* what the latency model may draw for one call
    timeout_s,         \* faults.timeout_s
    throttle_delay_s,  \* faults.throttle_delay_s
    RoundDown          \* ticks by which a float sum may fall short of the exact one

ASSUME TimingAssumption ==
    /\ LatencySamples \subseteq Nat \ {0}
    /\ LatencySamples # {}
    /\ timeout_s \in Nat
    /\ throttle_delay_s \in Nat
    /\ RoundDown \subseteq Nat
    /\ 0 \in RoundDown
    \* a rounding error is no longer than a call
    /\ \A d \in RoundDown, dt \in LatencySamples : d <= dt

Component == {"model_backend", "gateway", "tool", "event_bus",
              "memory_store", "human_queue"}
FaultType == {"timeout", "error", "throttle", "outage"}
NoFault   == "none"
NoUnit    == "any"     \* unit=None: every unit of the component
RemoteUnit == "remote" \* the label of P7's remote cluster
NoWindow  == <<>>

-----------------------------------------------------------------------------
(* FaultInjector: at most one armed entry per component; a later arm()     *)
(* replaces an earlier one.  Probabilities are percentages.                *)

Armed == [fault : FaultType, unit : STRING, probability : 0..100,
          window : {NoWindow} \cup (Nat \X Nat)]

NothingArmed == [c \in {} |-> c]

Entered(armed, component, entry) ==
    [k \in DOMAIN armed \cup {component} |-> IF k = component THEN entry ELSE armed[k]]

arm(armed, component, fault, probability, unit) ==
    Entered(armed, component, [fault |-> fault, unit |-> unit,
                               probability |-> probability, window |-> NoWindow])

arm_window(armed, component, fault, start_s, end_s, unit) ==
    Entered(armed, component, [fault |-> fault, unit |-> unit,
                               probability |-> 100, window |-> <<start_s, end_s>>])

HasWindow(armed, component) ==
    component \in DOMAIN armed /\ armed[component].window # NoWindow

window_end(armed, component) == armed[component].window[2]

\* The faults check() may return for a call to `unit` of `component` at `now`.
check(armed, component, unit, now) ==
    IF component \notin DOMAIN armed \/ armed[component].unit \notin {NoUnit, unit}
    THEN {NoFault}
    ELSE LET entry == armed[component] IN
         IF HasWindow(armed, component)
         THEN {IF entry.window[1] <= now /\ now < entry.window[2]
               THEN entry.fault ELSE NoFault}
         ELSE {f \in {entry.fault, NoFault} :
                  /\ f = entry.fault => entry.probability > 0
                  /\ f = NoFault     => entry.probability < 100}

-----------------------------------------------------------------------------
(* CallContext: the per-request accumulators.  services_called and         *)
(* faults_seen are kept as the number of billed calls and as the set of    *)
(* faults that fired; tokens are counted in default-sized invocations.     *)

Context ==
    [elapsed_s : Nat, nonblocking_s : Nat, request_start_ts : Nat,
     concurrent_in_flight : Nat, model_invocations : Nat, service_calls : Nat,
     services_called : Nat, tokens : Nat, content_scale : Nat,
     components_touched : SUBSET Component,
     faults_seen : SUBSET (Component \X FaultType),
     degraded : BOOLEAN, default_unit : {NoUnit, RemoteUnit}]

build(unit) ==
    [elapsed_s |-> 0, nonblocking_s |-> 0, request_start_ts |-> 0,
     concurrent_in_flight |-> 1, model_invocations |-> 0, service_calls |-> 0,
     services_called |-> 0, tokens |-> 0, content_scale |-> 1,
     components_touched |-> {}, faults_seen |-> {},
     degraded |-> FALSE, default_unit |-> unit]

\* Everything but the arrival-timeline fields and the unit label is cleared.
reset_request(c) ==
    [build(c.default_unit) EXCEPT !.request_start_ts = c.request_start_ts,
                                  !.concurrent_in_flight = c.concurrent_in_flight]

sim_now(c) == c.request_start_ts + c.elapsed_s

add_delay(c, dt, blocking) ==
    [c EXCEPT !.elapsed_s = @ + dt,
              !.nonblocking_s = @ + (IF blocking THEN 0 ELSE dt)]

Succeeds(fault) == fault \in {NoFault, "throttle"}

\* The time a call may take, by the fault that hit it.
CallTime(fault) ==
    CASE fault = "timeout"  -> {timeout_s}
      [] fault = "outage"   -> {0}
      [] fault = "throttle" -> {dt + throttle_delay_s : dt \in LatencySamples}
      [] OTHER              -> LatencySamples

\* A service call is billed before its outcome is known; a model call is not.
boundary_call(armed, c, service, component, unit) ==
    LET label == IF unit = NoUnit THEN c.default_unit ELSE unit
        Traced(f) ==
            [c EXCEPT !.components_touched = @ \cup {component},
                      !.services_called = @ + (IF service = "model_invoke" THEN 0 ELSE 1),
                      !.faults_seen = @ \cup (IF f = NoFault THEN {}
                                              ELSE {<<component, f>>})]
    IN  UNION {{[ctx |-> add_delay(Traced(f), dt, TRUE), ok |-> Succeeds(f), fault |-> f]
                   : dt \in CallTime(f)}
               : f \in check(armed, component, label, sim_now(c))}

-----------------------------------------------------------------------------
(* Client entry points.  A response with ok = FALSE is the raised client   *)
(* error; Then runs the rest of a call chain on the successes only.        *)

Then(responses, Op(_)) ==
    UNION {IF r.ok THEN Op(r.ctx) ELSE {r} : r \in responses}

Ok(c) == [ctx |-> c, ok |-> TRUE, fault |-> NoFault]

\* boundary call, then the service counter: gateway, tool, action, memory, ...
ServiceCall(armed, c, service, component, unit) ==
    {IF r.ok THEN [r EXCEPT !.ctx.service_calls = @ + 1] ELSE r
        : r \in boundary_call(armed, c, service, component, unit)}

\* One model invocation; its tokens scale with the content it covers.
invoke_agent(armed, c) ==
    {IF r.ok
     THEN [r EXCEPT !.ctx.model_invocations = @ + 1,
                    !.ctx.tokens = @ + Max({1, c.content_scale})]
     ELSE r : r \in boundary_call(armed, c, "model_invoke", "model_backend", NoUnit)}

\* An agent topic's or script's actions run in order; the first failure ends it.
run_agent_script(armed, c, actions) ==
    LET after[j \in 0..Len(actions)] ==
            IF j = 0 THEN {Ok(c)}
            ELSE Then(after[j - 1],
                      LAMBDA d : ServiceCall(armed, d, "action", "tool", actions[j]))
    IN  after[Len(actions)]

\* Topic routing costs one model call, then the topic's actions run.
send(armed, c, actions) ==
    Then(invoke_agent(armed, c), LAMBDA d : run_agent_script(armed, d, actions))

gateway_call(armed, c, tool) ==
    Then(ServiceCall(armed, c, "gateway", "gateway", NoUnit),
         LAMBDA d : ServiceCall(armed, d, "tool", "tool", tool))

memory_op(armed, c) == ServiceCall(armed, c, "memory", "memory_store", NoUnit)

guardrails_apply(armed, c) == ServiceCall(armed, c, "guardrails", "gateway", NoUnit)

handoff(armed, c) == ServiceCall(armed, c, "omni_channel", "human_queue", NoUnit)

\* The simulated time reached by waiting for `until`: the sum of the start, the
\* elapsed time and the wait is a float sum and may round below `until`.
WaitUntil(c, until, blocking) ==
    LET wait == Max({0, until - sim_now(c)})
    IN  {add_delay(c, wait - d, blocking) : d \in {e \in RoundDown : e <= wait}}

\* Mutant: the redelivery does not wait for the window to end.
redeliverAtOnce(armed, r, service) ==
    IF r.fault = "outage" /\ HasWindow(armed, "event_bus")
    THEN boundary_call(armed, r.ctx, service, "event_bus", NoUnit)
    ELSE {r}

\* An event published into a bus outage window waits for its end and is
\* published once more; any other failure keeps its outcome.
buffered_redelivery(armed, r, service) ==
    IF r.fault = "outage" /\ HasWindow(armed, "event_bus")
    THEN UNION {boundary_call(armed, c, service, "event_bus", NoUnit)
                  : c \in WaitUntil(r.ctx, window_end(armed, "event_bus"), TRUE)}
    ELSE {r}

\* publish_event and observability_emit.
publish_event(armed, c, service) ==
    {IF r.ok THEN [r EXCEPT !.ctx.service_calls = @ + 1] ELSE r
        : r \in UNION {buffered_redelivery(armed, r0, service)
                         : r0 \in boundary_call(armed, c, service, "event_bus", NoUnit)}}
=============================================================================

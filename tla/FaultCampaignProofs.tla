------------------------ MODULE FaultCampaignProofs ------------------------
(***************************************************************************)
(* Proofs about the seven patterns under the fault campaign, for every     *)
(* latency model, fault, window, number of requests, collaborators,        *)
(* stages, events, specialists and tools.                                  *)
(***************************************************************************)
EXTENDS FaultCampaign, CallProofs, FiniteSetTheorems

\* The one fault that calls of a cell can meet, and whether it fails them.
Hit   == IF cell.fault = NoFault THEN {} ELSE {<<cell.component, cell.fault>>}
Fatal == cell.fault \notin {"throttle", NoFault}

\* What a request may suffer: a fault that fails calls, and that it met.
Harmful == Observed # {} /\ Fatal

Serving == pc \notin {"idle", "returned", "ended"}

Labels(p, label) ==
    \/ p = "P1" /\ label \in {"P1.plan", "P1.branch", "P1.synthesize"}
    \/ p = "P2" /\ label = "P2.stage"
    \/ p = "P3" /\ label \in {"P3.hop", "P3.publish", "P3.deliver"}
    \/ p = "P4" /\ label \in {"P4.create", "P4.read", "P4.contribute", "P4.write",
                              "P4.store", "P4.send"}
    \/ p = "P5" /\ label \in {"P5.route", "P5.call"}
    \/ p = "P6" /\ label \in {"P6.draft", "P6.pause", "P6.route", "P6.review"}
    \/ p = "P7" /\ label \in {"P7.local", "P7.remote"}

\* A context of the pattern under way.
Sane(c) ==
    /\ c \in Context
    /\ c.default_unit = NoUnit
    /\ ~c.degraded
    /\ c.faults_seen \subseteq Hit
    /\ c.nonblocking_s <= c.elapsed_s

IsShape(i) == \E shape \in Items, k \in Nat : i = [shape EXCEPT !.id = k]

\* The frame of a request, whatever the pattern.
FrameInv ==
    /\ pattern \in Patterns /\ platform \in {"bedrock", "agentforce"}
    /\ cell \in [component : Component, fault : Fault]
    /\ pc # "ended" => armed = ArmedFor(pattern, cell.component, cell.fault)
    /\ ctx \in Context /\ ctx.default_unit = NoUnit /\ ctx.faults_seen \subseteq Hit
    /\ ctx.nonblocking_s <= ctx.elapsed_s
    /\ remote_ctx \in Context /\ remote_ctx.faults_seen \subseteq Hit
    /\ item \in Item /\ result \in Status
    /\ Serving => Labels(pattern, pc) /\ result = "none" /\ ~ctx.degraded
    /\ Serving \/ pc = "returned" =>
          item.id = Len(per_request) + 1 /\ Len(per_request) < MaxRequests /\ IsShape(item)
    /\ pc = "returned" =>
          /\ result \in {"ok", "error", "timeout"}
          /\ ctx.degraded \/ result # "ok" => Harmful

\* What the finished requests recorded.
RecordOK(r) ==
    /\ ~r.ok \/ r.degraded => r.traversed /\ Fatal
    /\ pattern \in {"P1", "P2", "P4"} /\ Fatal /\ r.traversed => ~r.ok
    /\ pattern = "P5" /\ cell.component = "tool" /\ Len(Tools) > 1 => r.ok
    /\ pattern = "P6" /\ cell.component = "human_queue" => r.ok /\ ~r.degraded
    /\ pattern = "P7" /\ cell.component = "model_backend" => r.ok

RecordsInv ==
    /\ per_request \in Seq([traversed : BOOLEAN, ok : BOOLEAN, degraded : BOOLEAN])
    /\ Len(per_request) <= MaxRequests
    /\ \A k \in DOMAIN per_request : RecordOK(per_request[k])

(***************************************************************************)
(* The armed cell                                                          *)
(***************************************************************************)
LEMMA ArmedCell ==
    ASSUME FrameInv, pc # "ended"
    PROVE  /\ WellArmed(armed)
           /\ AllHits(armed) = Hit
           /\ DOMAIN armed \subseteq {cell.component}
           /\ \A k \in DOMAIN armed :
                 /\ armed[k].fault = cell.fault
                 /\ armed[k].unit = structural_unit(pattern, k)
                 /\ cell.fault = "outage" => armed[k].window = Window
                 /\ cell.fault # "outage" => armed[k].window = NoWindow
<1> DEFINE unit == structural_unit(pattern, cell.component)
           entry == [fault |-> cell.fault, unit |-> unit,
                     probability |-> IF cell.fault = "outage" THEN 100 ELSE probability,
                     window |-> IF cell.fault = "outage" THEN Window ELSE NoWindow]
<1>1. cell.component \in Component /\ cell.fault \in Fault
  BY DEF FrameInv
<1>2. Window \in Nat \X Nat /\ <<Window[1], Window[2]>> = Window
  BY CampaignAssumption
<1>3. CASE cell.fault = NoFault
  <2>1. armed = NothingArmed
    BY <1>3 DEF FrameInv, ArmedFor, NoFault
  <2>2. DOMAIN armed = {}
    BY <2>1 DEF NothingArmed
  <2> QED
    BY <1>3, <2>2 DEF WellArmed, AllHits, Hit
<1>4. CASE cell.fault # NoFault
  <2>1. armed = [k \in {cell.component} |-> entry]
    <3>1. DOMAIN NothingArmed \cup {cell.component} = {cell.component}
      BY DEF NothingArmed
    <3>2. armed = [k \in {cell.component} |->
                     IF k = cell.component THEN entry ELSE NothingArmed[k]]
      <4>1. CASE cell.fault = "outage"
        BY <1>2, <1>4, <3>1, <4>1 DEF FrameInv, ArmedFor, arm_window, Entered, NoFault
      <4>2. CASE cell.fault # "outage"
        BY <1>4, <3>1, <4>2 DEF FrameInv, ArmedFor, arm, Entered
      <4> QED
        BY <4>1, <4>2
    <3> HIDE DEF entry
    <3> QED
      BY <3>2
  <2>2. entry.fault = cell.fault /\ entry.unit = unit
        /\ entry.window = (IF cell.fault = "outage" THEN Window ELSE NoWindow)
    OBVIOUS
  <2> HIDE DEF entry
  <2>3. DOMAIN armed = {cell.component} /\ armed[cell.component] = entry
    BY <2>1
  <2>4. cell.fault \in FaultType
    BY <1>1, <1>4 DEF Fault
  <2>5. WellArmed(armed)
    BY <1>1, <1>2, <2>2, <2>3, <2>4 DEF WellArmed
  <2>6. AllHits(armed) = Hit
    BY <1>4, <2>2, <2>3 DEF AllHits, Hit
  <2> QED
    BY <2>2, <2>3, <2>5, <2>6
<1> QED
  BY <1>3, <1>4

(***************************************************************************)
(* The inductive invariants of the patterns                                *)
(***************************************************************************)
\* No fault that fails calls was met so far; or by the request that succeeded.
Clean  == Fatal => ctx.faults_seen = {}
Spared == result = "ok" => Clean

\* The fan-out keeps the first error, or every branch has made its calls.
P1Inv ==
    /\ fanout \in FanoutType
    /\ pattern = "P1" =>
          /\ ctx.nonblocking_s = 0
          /\ pc = "P1.plan" => Clean /\ ctx.model_invocations = 0
          /\ pc = "P1.branch" =>
                /\ Len(fanout.durations) <= n_collaborators
                /\ fanout.error # NoFault => ctx.faults_seen # {} /\ Fatal
                /\ fanout.error = NoFault =>
                      /\ Clean
                      /\ ctx.model_invocations
                           = 1 + Len(fanout.durations) * steps_per_branch
          /\ pc = "P1.synthesize" =>
                Clean /\ ctx.model_invocations = 1 + n_collaborators * steps_per_branch
          /\ pc = "returned" =>
                /\ Spared
                /\ result = "ok" =>
                      /\ ctx.model_invocations = 2 + n_collaborators * steps_per_branch
                      /\ work_steps <= ctx.tokens

P2Inv ==
    /\ stage \in Nat
    /\ pattern = "P2" =>
          /\ pc = "P2.stage" =>
                /\ Clean /\ stage < stages
                /\ ctx.model_invocations = stage /\ stage <= ctx.tokens
          /\ pc = "returned" =>
                /\ Spared
                /\ result = "ok" => ctx.model_invocations = stages /\ stages <= ctx.tokens

BusOutage == cell = [component |-> "event_bus", fault |-> "outage"]

\* One subscriber per event, so at most the next event is under delivery.
P3Inv ==
    /\ subscriptions \in {0, 1}
    /\ request_log \in Seq(1..EventChain) /\ deliveries \in Seq(1..EventChain)
    /\ pattern = "P3" =>
          /\ Serving =>
                /\ Len(request_log) <= EventChain
                /\ request_log = [k \in 1..Len(request_log) |-> k]
                /\ ctx.model_invocations = Len(request_log)
                /\ Len(request_log) >= Enriched => work_steps <= ctx.tokens
          /\ pc = "P3.hop" => Len(request_log) < EventChain
          /\ pc = "P3.publish" => request_log = <<>>
          /\ pc = "P3.deliver" =>
                /\ subscriptions = 1
                /\ deliveries = IF Len(request_log) < EventChain
                                THEN <<Len(request_log) + 1>> ELSE <<>>
          /\ pc = "returned" =>
                /\ result = "ok" =>
                      /\ request_log = FullChain
                      /\ ctx.model_invocations = EventChain /\ work_steps <= ctx.tokens
                /\ result # "ok" /\ BusOutage => Window[2] - sim_now(ctx) \in RoundDown \ {0}

\* The tokens of one turn of a specialist.
PerTurn == Max({1, share})

P4Inv ==
    /\ board \in Seq(1..n_specialists) /\ boardRead \in Seq(1..n_specialists)
    /\ turn \in 0..n_specialists
    /\ pattern = "P4" =>
          /\ Serving => Clean /\ turn * PerTurn <= ctx.tokens
          /\ pc = "P4.create" => turn = 0
          /\ pc \in {"P4.read", "P4.contribute", "P4.write"} => board = [k \in 1..turn |-> k]
          /\ pc \in {"P4.contribute", "P4.write", "P4.store", "P4.send"} => turn < n_specialists
          /\ pc = "P4.contribute" => boardRead = board
          /\ pc = "P4.write" => /\ boardRead = [k \in 1..(turn + 1) |-> k]
                                /\ (turn + 1) * PerTurn <= ctx.tokens
          /\ pc \in {"P4.store", "P4.send"} =>
                Len(board) = turn * PerTurn /\ ToSet(board) = 1..turn
          /\ pc = "returned" =>
                /\ Spared
                /\ result = "ok" => /\ ToSet(board) = 1..n_specialists
                                    /\ n_specialists * PerTurn <= ctx.tokens

P5Inv ==
    /\ toolCalls \in Nat
    /\ tool_results \subseteq ToSet(Tools) /\ failures \subseteq ToSet(Tools)
    /\ pattern = "P5" =>
          /\ pc = "P5.route" => toolCalls = 0 /\ tool_results = {} /\ failures = {}
          /\ pc = "P5.call" =>
                /\ toolCalls <= n_calls /\ work_steps <= ctx.tokens
                /\ \A j \in 1..toolCalls : calls(j) \in tool_results \cup failures
                /\ failures # {} => ctx.faults_seen # {} /\ Fatal
                /\ cell.component = "tool" => failures \subseteq {Tools[1]}
          /\ pc = "returned" =>
                /\ result = "ok" => /\ tool_results \cup failures = ToSet(Tools)
                                    /\ work_steps <= ctx.tokens
                /\ cell.component = "tool" =>
                      /\ tool_results \cup failures = ToSet(Tools)
                      /\ failures \subseteq {Tools[1]}
                      /\ result = IF all_failed THEN "error" ELSE "ok"
                      /\ ctx.degraded <=> failures # {} /\ ~all_failed

HumanOutage == cell = [component |-> "human_queue", fault |-> "outage"]

\* Item ids are fresh, so older decisions are of smaller ids.
P6Inv ==
    /\ paused \subseteq 1..MaxRequests
    /\ adjudication \in Seq(1..MaxRequests) /\ decision_log \in Seq(1..MaxRequests)
    /\ deferred \in BOOLEAN /\ decision \in Decision
    /\ pattern = "P6" =>
          /\ paused = IF pc \in {"P6.route", "P6.review"} THEN {item.id} ELSE {}
          /\ Serving => decision = "none"
          /\ pc \in {"P6.pause", "P6.route", "P6.review"} => item.low /\ work_steps <= ctx.tokens
          /\ \A k \in DOMAIN decision_log :
                \/ decision_log[k] <= Len(per_request)
                \/ /\ pc = "returned" /\ decision = "approved"
                   /\ k = Len(decision_log) /\ decision_log[k] = item.id
          /\ pc = "returned" =>
                /\ ~ctx.degraded
                /\ decision = "approved" =>
                      decision_log # <<>> /\ decision_log[Len(decision_log)] = item.id
                /\ cell.component = "human_queue" => result = "ok"
                /\ result = "ok" =>
                      /\ decision = IF item.low THEN "approved" ELSE "auto_approved"
                      /\ work_steps <= ctx.tokens
                      /\ item.low /\ deferred /\ HumanOutage => sim_now(ctx) >= Window[2]

P7Inv ==
    /\ remote_ctx.default_unit = RemoteUnit
    /\ pattern = "P7" =>
          /\ pc = "P7.remote" => work_steps <= ctx.tokens
          /\ pc = "returned" =>
                /\ cell.component = "model_backend" => result = "ok"
                /\ result = "ok" => work_steps <= ctx.tokens

CampaignInv ==
    /\ FrameInv /\ RecordsInv
    /\ P1Inv /\ P2Inv /\ P3Inv /\ P4Inv /\ P5Inv /\ P6Inv /\ P7Inv

(***************************************************************************)
(* Steps of the frame                                                      *)
(***************************************************************************)
LEMMA ServingIsSane ==
    ASSUME FrameInv, Serving PROVE Sane(ctx) /\ pc # "ended"
BY DEF FrameInv, Sane, Serving

LEMMA SaneAfter ==
    ASSUME NEW c, Sane(c), NEW r, NEW n, Answers(c, r, Hit, n) PROVE Sane(r.ctx)
<1>1. Later(c, r.ctx) /\ r.ctx.faults_seen \subseteq c.faults_seen \cup Hit
  BY DEF Answers
<1>2. c.elapsed_s \in Nat /\ c.nonblocking_s \in Nat /\ r.ctx.elapsed_s \in Nat
  BY <1>1 DEF Sane, Later, Context
<1> QED
  BY <1>1, <1>2 DEF Sane, Later

LEMMA ScaledFields ==
    ASSUME NEW c \in Context, NEW scale \in Nat
    PROVE  /\ Scaled(c, scale) \in Context
           /\ Scaled(c, scale).content_scale = scale
           /\ Scaled(c, scale).elapsed_s = c.elapsed_s
           /\ Scaled(c, scale).nonblocking_s = c.nonblocking_s
           /\ Scaled(c, scale).request_start_ts = c.request_start_ts
           /\ Scaled(c, scale).degraded = c.degraded
           /\ Scaled(c, scale).default_unit = c.default_unit
           /\ Scaled(c, scale).faults_seen = c.faults_seen
           /\ Scaled(c, scale).tokens = c.tokens
           /\ Scaled(c, scale).model_invocations = c.model_invocations
<1>1. Scaled(c, scale) \in Context
  BY DEF Scaled, Context
<1>2. DOMAIN c = {"elapsed_s", "nonblocking_s", "request_start_ts",
     "concurrent_in_flight", "model_invocations", "service_calls",
     "services_called", "tokens", "content_scale",
     "components_touched", "faults_seen", "degraded", "default_unit"}
  BY DEF Context
<1> QED
  BY <1>1, <1>2, Zenon DEF Scaled

LEMMA SaneScaled ==
    ASSUME NEW c, Sane(c), NEW scale \in Nat PROVE Sane(Scaled(c, scale))
<1>1. c \in Context
  BY DEF Sane
<1> QED
  BY <1>1, ScaledFields DEF Sane

\* The client error of a response is a fault that fails calls, and was met.
LEMMA FailureIsHit ==
    ASSUME FrameInv, NEW c, NEW r, NEW n, Answers(c, r, Hit, n), ~r.ok
    PROVE  /\ Fatal /\ r.fault = cell.fault /\ r.fault \in FaultType
           /\ r.ctx.faults_seen # {}
           /\ ErrorStatus(r.fault) \in {"error", "timeout"}
<1>1. PICK k \in Component : <<k, r.fault>> \in Hit /\ <<k, r.fault>> \in r.ctx.faults_seen
  BY DEF Answers
<1>2. ~Succeeds(r.fault) /\ r.fault \in Fault
  BY DEF Answers, Response
<1>3. r.fault = cell.fault
  BY <1>1 DEF Hit
<1> QED
  BY <1>1, <1>2, <1>3 DEF Succeeds, Fatal, Fault, ErrorStatus

\* A success meets throttles only, so a clean request stays clean.
LEMMA StaysClean ==
    ASSUME NEW c, NEW r, NEW n, Responds(c, r, Hit, n), r.ok,
           c.faults_seen \subseteq Hit, Fatal, c.faults_seen = {}
    PROVE  r.ctx.faults_seen = {}
<1> SUFFICES ASSUME NEW s \in r.ctx.faults_seen PROVE FALSE
  OBVIOUS
<1>1. s \in Hit /\ Succeeds(s[2])
  BY DEF Responds, Answers
<1>2. s = <<cell.component, cell.fault>>
  BY <1>1 DEF Hit
<1>3. Succeeds(cell.fault)
  BY <1>1, <1>2
<1> QED
  BY <1>3 DEF Succeeds, Fatal

Unmoved == UNCHANGED <<pattern, cell, per_request, classification>>

LEMMA GotoKeepsFrame ==
    ASSUME FrameInv, Serving, NEW d, Sane(d), NEW label, Labels(pattern, label),
           Goto(d, label), UNCHANGED remote_ctx, Unmoved
    PROVE  FrameInv' /\ ctx' = d /\ pc' = label /\ UNCHANGED <<item, platform, armed, result>>
<1>1. /\ ctx' = d /\ pc' = label /\ UNCHANGED <<item, platform, armed, result>>
      /\ UNCHANGED <<remote_ctx, pattern, cell, per_request>>
  BY DEF Goto, Unmoved
<1>2. Hit' = Hit
  BY <1>1 DEF Hit
<1>3. label \notin {"idle", "returned", "ended"}
  BY DEF Labels
<1>4. Labels(pattern, pc)' 
  BY <1>1 DEF Labels
<1>5. Serving'
  BY <1>1, <1>3 DEF Serving
<1> QED
  BY <1>1, <1>2, <1>3, <1>4, <1>5 DEF FrameInv, Sane, Serving

LEMMA ReturnKeepsFrame ==
    ASSUME FrameInv, Serving, NEW d \in Context,
           d.default_unit = NoUnit, d.faults_seen \subseteq Hit,
           d.nonblocking_s <= d.elapsed_s,
           NEW status \in {"ok", "error", "timeout"}, Return(d, status),
           d.degraded \/ status # "ok" =>
               Fatal /\ (d.faults_seen # {} \/ (pattern = "P7" /\ remote_ctx'.faults_seen # {})),
           remote_ctx' \in Context, remote_ctx'.faults_seen \subseteq Hit, Unmoved
    PROVE  /\ FrameInv'
           /\ ctx' = d /\ pc' = "returned" /\ result' = status
           /\ UNCHANGED <<item, platform, armed>>
<1>1. /\ ctx' = d /\ pc' = "returned" /\ result' = status
      /\ UNCHANGED <<item, platform, armed>>
      /\ UNCHANGED <<pattern, cell, per_request>>
  BY DEF Return, Unmoved
<1>2. Hit' = Hit /\ Fatal' = Fatal
  BY <1>1 DEF Hit, Fatal
<1>3. ctx'.degraded \/ result' # "ok" => Harmful'
  BY <1>1, <1>2 DEF Harmful, Observed
<1>4. ~Serving'
  BY <1>1 DEF Serving
<1>5. result' \in Status
  BY <1>1 DEF Status
<1> QED
  BY <1>1, <1>2, <1>3, <1>4, <1>5 DEF FrameInv, Serving

LEMMA RaiseKeepsFrame ==
    ASSUME FrameInv, Serving, NEW c, Sane(c), NEW r, NEW n, Answers(c, r, Hit, n),
           Raise(r), UNCHANGED remote_ctx, Unmoved
    PROVE  /\ FrameInv' /\ Fatal /\ r.ctx.faults_seen # {}
           /\ ctx' = r.ctx /\ pc' = "returned" /\ result' \in {"error", "timeout"}
           /\ ~r.ctx.degraded
           /\ UNCHANGED <<item, platform, armed>>
<1>1. ~r.ok /\ Return(r.ctx, ErrorStatus(r.fault))
  BY DEF Raise
<1>2. /\ Fatal /\ r.ctx.faults_seen # {}
      /\ ErrorStatus(r.fault) \in {"error", "timeout"}
  BY <1>1, FailureIsHit
<1>3. Sane(r.ctx)
  BY SaneAfter
<1>4. remote_ctx' \in Context /\ remote_ctx'.faults_seen \subseteq Hit
  BY DEF FrameInv
<1>5. r.ctx \in Context /\ r.ctx.default_unit = NoUnit /\ r.ctx.faults_seen \subseteq Hit
      /\ r.ctx.nonblocking_s <= r.ctx.elapsed_s /\ ~r.ctx.degraded
  BY <1>3 DEF Sane
<1>6. PICK status \in {"error", "timeout"} : status = ErrorStatus(r.fault)
  BY <1>2
<1>7. PICK d \in Context : d = r.ctx
  BY <1>5
<1>8. Return(d, status) /\ status \in {"ok", "error", "timeout"}
  BY <1>1, <1>6, <1>7
<1>9. /\ d.default_unit = NoUnit /\ d.faults_seen \subseteq Hit
      /\ d.nonblocking_s <= d.elapsed_s
      /\ d.degraded \/ status # "ok" =>
            Fatal /\ (d.faults_seen # {} \/ (pattern = "P7" /\ remote_ctx'.faults_seen # {}))
  BY <1>2, <1>5, <1>7
<1>10. FrameInv' /\ ctx' = d /\ pc' = "returned" /\ result' = status
      /\ UNCHANGED <<item, platform, armed>>
  BY <1>4, <1>8, <1>9, ReturnKeepsFrame, Zenon
<1> QED
  BY <1>2, <1>5, <1>6, <1>7, <1>10

(***************************************************************************)
(* Client calls of a request                                               *)
(***************************************************************************)
LEMMA ArmedNow ==
    ASSUME FrameInv, Serving
    PROVE  WellArmed(armed) /\ AllHits(armed) = Hit
BY ServingIsSane, ArmedCell

LEMMA ModelCall ==
    ASSUME FrameInv, Serving, NEW c, Sane(c), NEW r \in invoke_agent(armed, c)
    PROVE  Responds(c, r, Hit, 1) /\ Sane(r.ctx)
<1>1. WellArmed(armed) /\ c \in Context
  BY ArmedNow DEF Sane
<1>2. Hits(armed, "model_backend", c.default_unit) \subseteq Hit
  BY ArmedNow, AnyHits
<1>3. Responds(c, r, Hit, 1)
  BY <1>1, <1>2, InvokeAgentResponds, RespondsWider
<1> QED
  BY <1>3, SaneAfter DEF Responds

LEMMA SendCall ==
    ASSUME FrameInv, Serving, NEW c, Sane(c), NEW actions, Len(actions) \in Nat,
           NEW r \in send(armed, c, actions)
    PROVE  Responds(c, r, Hit, 1) /\ Sane(r.ctx)
<1>1. WellArmed(armed) /\ c \in Context
  BY ArmedNow DEF Sane
<1>2. /\ Hits(armed, "model_backend", c.default_unit) \subseteq Hit
      /\ ScriptHits(armed, c, actions) \subseteq Hit
  BY ArmedNow, AnyHits
<1>3. Responds(c, r, Hit, 1)
  BY <1>1, <1>2, SendResponds
<1> QED
  BY <1>3, SaneAfter DEF Responds

LEMMA ScriptCall ==
    ASSUME FrameInv, Serving, NEW c, Sane(c), NEW actions, Len(actions) \in Nat,
           NEW r \in run_agent_script(armed, c, actions)
    PROVE  Responds(c, r, Hit, 0) /\ Sane(r.ctx)
<1>1. WellArmed(armed) /\ c \in Context
  BY ArmedNow DEF Sane
<1>2. ScriptHits(armed, c, actions) \subseteq Hit
  BY ArmedNow, AnyHits
<1>3. Responds(c, r, Hit, 0)
  BY <1>1, <1>2, RunAgentScriptResponds
<1> QED
  BY <1>3, SaneAfter DEF Responds

LEMMA StoreCall ==
    ASSUME FrameInv, Serving, NEW c, Sane(c), NEW r,
           r \in memory_op(armed, c) \cup guardrails_apply(armed, c)
                   \cup handoff(armed, c)
                   \cup boundary_call(armed, c, "memory", "human_queue", NoUnit)
    PROVE  Responds(c, r, Hit, 0) /\ Sane(r.ctx)
<1>1. WellArmed(armed) /\ c \in Context /\ AllHits(armed) \subseteq Hit
  BY ArmedNow DEF Sane
<1>2. Responds(c, r, Hit, 0)
  BY <1>1, StoreCallsRespond
<1> QED
  BY <1>2, SaneAfter DEF Responds

LEMMA PublishCall ==
    ASSUME FrameInv, Serving, NEW c, Sane(c), NEW service,
           NEW r \in publish_event(armed, c, service)
    PROVE  Answers(c, r, Hit, 0) /\ Sane(r.ctx)
<1>1. WellArmed(armed) /\ c \in Context /\ AllHits(armed) \subseteq Hit
  BY ArmedNow DEF Sane
<1>2. Answers(c, r, Hit, 0)
  BY <1>1, PublishEventAnswers
<1> QED
  BY <1>2, SaneAfter

LEMMA CeilDivFacts ==
    ASSUME NEW a \in Nat \ {0}, NEW b \in Nat \ {0}
    PROVE  CeilDiv(a, b) \in Nat \ {0} /\ b * CeilDiv(a, b) >= a
<1> DEFINE q == (a + b - 1) \div b
           m == (a + b - 1) % b
<1>1. q \in Int /\ m \in 0..(b - 1) /\ a + b - 1 = b * q + m
  OBVIOUS
<1>2. q >= 1
  <2>1. CASE q <= 0
    <3>1. b * q <= 0
      BY <1>1, <2>1
    <3> QED
      BY <1>1, <3>1
  <2> QED
    BY <1>1, <2>1
<1>3. b * q >= a
  BY <1>1
<1> QED
  BY <1>1, <1>2, <1>3 DEF CeilDiv

LEMMA WorkTypes ==
    ASSUME FrameInv
    PROVE  /\ work_steps \in Nat \ {0}
           /\ steps_per_branch \in Nat \ {0}
           /\ share \in Nat \ {0} /\ n_specialists * share >= work_steps
           /\ PerTurn = share
<1>1. work_steps \in Nat \ {0}
  BY DEF FrameInv, Item, work_steps
<1>2. steps_per_branch \in Nat \ {0}
  BY <1>1, CeilDivFacts, CollaboratorsAssumption DEF steps_per_branch
<1>3. share \in Nat \ {0} /\ n_specialists * share >= work_steps
  BY <1>1, CeilDivFacts, BlackboardAssumption DEF share
<1>4. PerTurn = share
  BY <1>3, MaxWithOne DEF PerTurn
<1> QED
  BY <1>1, <1>2, <1>3, <1>4

(***************************************************************************)
(* P1: the fan-out                                                         *)
(***************************************************************************)
\* The responses after one more call of a branch, and the chain of n of them.
NextCall(responses, agent) ==
    Then(responses, LAMBDA d : CollaboratorCall(d, agent))

Chain(c, agent, n, g) ==
    g = [j \in 0..n |-> IF j = 0 THEN {Ok(c)} ELSE NextCall(g[j - 1], agent)]

LEMMA NextCallResponds ==
    ASSUME FrameInv, Serving, NEW c, Sane(c), NEW agent, NEW n \in Nat,
           NEW responses, \A q \in responses : Responds(c, q, Hit, n),
           NEW r \in NextCall(responses, agent)
    PROVE  Responds(c, r, Hit, n + 1)
<1>1. PICK q \in responses :
        IF q.ok THEN r \in CollaboratorCall(q.ctx, agent) ELSE r = q
  BY DEF NextCall, Then
<1>2. CASE ~q.ok
  BY <1>1, <1>2, FailureEndsChain
<1>3. CASE q.ok
  <2>1. Responds(c, q, Hit, n) /\ Sane(q.ctx)
    BY SaneAfter DEF Responds
  <2>2. r \in invoke_agent(armed, q.ctx) \/ r \in send(armed, q.ctx, <<agent>>)
    BY <1>1, <1>3 DEF CollaboratorCall
  <2>3. Len(<<agent>>) \in Nat
    OBVIOUS
  <2>4. Responds(q.ctx, r, Hit, 1)
    BY <2>1, <2>2, <2>3, ModelCall, SendCall
  <2> QED
    BY <1>3, <2>1, <2>4, RespondsInOrder DEF Sane
<1> QED
  BY <1>2, <1>3

LEMMA ChainExists ==
    ASSUME NEW c, NEW agent
    PROVE  \A n \in Nat : \E g : Chain(c, agent, n, g)
<1> DEFINE Bad == {n \in Nat : ~\E g : Chain(c, agent, n, g)}
<1> SUFFICES ASSUME Bad # {} PROVE FALSE
  OBVIOUS
<1>1. PICK n \in Bad : \A m \in Bad : n <= m
  BY LeastNumber
<1>2. n \in Nat /\ ~\E g : Chain(c, agent, n, g)
  OBVIOUS
<1>3. CASE n = 0
  <2> DEFINE g == [j \in 0..0 |-> {Ok(c)}]
  <2>1. g = [j \in 0..0 |-> IF j = 0 THEN {Ok(c)} ELSE NextCall(g[j - 1], agent)]
    OBVIOUS
  <2> HIDE DEF g
  <2> QED
    BY <1>2, <1>3, <2>1 DEF Chain
<1>4. CASE n # 0
  <2>1. n - 1 \in Nat /\ n - 1 \notin Bad
    BY <1>1, <1>2, <1>4
  <2>2. PICK g : Chain(c, agent, n - 1, g)
    BY <2>1
  <2> DEFINE V(f, j) == IF j = 0 THEN {Ok(c)} ELSE NextCall(f[j - 1], agent)
             h == [j \in 0..n |-> V(g, j)]
  <2>3. \A j \in 0..(n - 1) : h[j] = g[j]
    <3>1. \A j \in 0..(n - 1) : g[j] = V(g, j)
      BY <2>2 DEF Chain
    <3> HIDE DEF V
    <3>2. 0..(n - 1) \subseteq 0..n
      BY <2>1
    <3> QED
      BY <3>1, <3>2
  <2>4. ASSUME NEW j \in 0..n PROVE V(g, j) = V(h, j)
    <3>1. CASE j = 0
      BY <3>1
    <3>2. CASE j # 0
      <4>1. j - 1 \in 0..(n - 1)
        BY <1>2, <3>2
      <4>2. h[j - 1] = g[j - 1]
        BY <2>3, <4>1
      <4> QED
        BY <3>2, <4>2
    <3> QED
      BY <3>1, <3>2
  <2>5. h = [j \in 0..n |-> V(h, j)]
    <3> HIDE DEF V
    <3> QED
      BY <2>4
  <2> QED
    <3> HIDE DEF h
    <3> QED
      BY <1>2, <2>5 DEF Chain
<1> QED
  BY <1>3, <1>4

\* A branch that succeeds has made all its calls.
LEMMA BranchResponds ==
    ASSUME FrameInv, Serving, NEW c, Sane(c), NEW agent, NEW r \in Branch(c, agent)
    PROVE  Responds(c, r, Hit, steps_per_branch) /\ Sane(r.ctx)
<1> DEFINE N == steps_per_branch
           g == CHOOSE f : Chain(c, agent, N, f)
<1>1. N \in Nat
  BY WorkTypes
<1>2. Chain(c, agent, N, g)
  BY <1>1, ChainExists
<1>3. r \in g[N]
  BY DEF Branch, Chain, NextCall
<1> HIDE DEF g, N
<1> DEFINE Bad == {j \in 0..N : \E q \in g[j] : ~Responds(c, q, Hit, j)}
<1>4. Bad = {}
  <2> SUFFICES ASSUME Bad # {} PROVE FALSE
    OBVIOUS
  <2>1. PICK j \in Bad : \A m \in Bad : j <= m
    <3>1. Bad \in SUBSET Nat
      BY <1>1
    <3> HIDE DEF Bad
    <3> QED
      BY <3>1, LeastNumber
  <2>2. CASE j = 0
    BY <1>1, <1>2, <2>1, <2>2, OkResponds DEF Chain, Sane
  <2>3. CASE j # 0
    <3>1. j - 1 \in 0..N /\ j \in 0..N /\ j - 1 \notin Bad /\ j - 1 \in Nat /\ (j - 1) + 1 = j
      BY <1>1, <2>1, <2>3
    <3>2. \A q \in g[j - 1] : Responds(c, q, Hit, j - 1)
      BY <3>1
    <3>3. g[j] = NextCall(g[j - 1], agent)
      BY <1>2, <2>3, <3>1 DEF Chain
    <3> QED
      BY <2>1, <3>1, <3>2, <3>3, NextCallResponds
  <2> QED
    BY <2>2, <2>3
<1>5. Responds(c, r, Hit, N)
  BY <1>1, <1>3, <1>4
<1> QED
  BY <1>5, SaneAfter DEF Responds, N

LEMMA P1Serves ==
    ASSUME FrameInv, pc \in {"P1.plan", "P1.branch", "P1.synthesize"}
    PROVE  Serving /\ pattern = "P1" /\ Sane(ctx)
<1>1. Serving
  BY DEF Serving
<1>2. Labels(pattern, pc)
  BY <1>1 DEF FrameInv
<1> QED
  BY <1>1, <1>2, ServingIsSane DEF Labels

\* The error of a client call ends the request with its own counters.
LEMMA P1Raises ==
    ASSUME FrameInv, P1Inv, Serving, pattern = "P1", NEW c, Sane(c), c.nonblocking_s = 0,
           NEW r, NEW n, Answers(c, r, Hit, n), Raise(r), UNCHANGED <<fanout, remote_ctx>>, Unmoved
    PROVE  FrameInv' /\ P1Inv'
<1>1. FrameInv' /\ ctx' = r.ctx /\ pc' = "returned" /\ result' \in {"error", "timeout"}
  BY RaiseKeepsFrame
<1>2. r.ctx.nonblocking_s = 0
  BY DEF Answers, Later
<1> QED
  BY <1>1, <1>2 DEF P1Inv, Unmoved, Spared

LEMMA PlanStep ==
    ASSUME FrameInv, P1Inv, Plan, UNCHANGED remote_ctx, Unmoved
    PROVE  FrameInv' /\ P1Inv'
<1>1. pc = "P1.plan" /\ Serving /\ pattern = "P1" /\ Sane(ctx)
  BY P1Serves DEF Plan
<1>2. PICK r \in invoke_agent(armed, ctx) :
        \/ /\ r.ok
           /\ Goto(r.ctx, "P1.branch")
           /\ fanout' = [NoFanout EXCEPT !.base = r.ctx.elapsed_s]
        \/ Raise(r) /\ UNCHANGED fanout
  BY DEF Plan
<1>3. Responds(ctx, r, Hit, 1) /\ Sane(r.ctx) /\ Answers(ctx, r, Hit, 1)
  BY <1>1, ModelCall DEF Responds
<1>4. ctx.nonblocking_s = 0 /\ Clean /\ ctx.model_invocations = 0
  BY <1>1 DEF P1Inv
<1>5. CASE Raise(r) /\ UNCHANGED fanout
  BY <1>1, <1>3, <1>4, <1>5, P1Raises
<1>6. CASE /\ r.ok
           /\ Goto(r.ctx, "P1.branch")
           /\ fanout' = [NoFanout EXCEPT !.base = r.ctx.elapsed_s]
  <2>1. Labels(pattern, "P1.branch")
    BY <1>1 DEF Labels
  <2>2. FrameInv' /\ ctx' = r.ctx /\ pc' = "P1.branch" /\ UNCHANGED <<item, platform, armed, result>>
    BY <1>1, <1>3, <1>6, <2>1, GotoKeepsFrame
  <2>3. fanout' = [base |-> r.ctx.elapsed_s, durations |-> <<>>, error |-> NoFault]
    BY <1>6 DEF NoFanout
  <2>4. fanout' \in FanoutType
    BY <1>3, <2>3 DEF FanoutType, Sane, Context
  <2>5. r.ctx.nonblocking_s = 0 /\ r.ctx.model_invocations = 1
    BY <1>3, <1>4, <1>6 DEF Responds, Answers, Later, Invoked
  <2>6. Clean'
    <3>1. Fatal' => Fatal
      BY DEF Fatal, Unmoved
    <3> QED
      BY <1>1, <1>3, <1>4, <1>6, <2>2, <3>1, StaysClean DEF Clean, Sane
  <2>7. steps_per_branch' = steps_per_branch /\ steps_per_branch \in Nat
    <3>1. steps_per_branch' = steps_per_branch
      BY <2>2 DEF steps_per_branch, work_steps
    <3> QED
      BY <3>1, WorkTypes
  <2>8. 0 * steps_per_branch' = 0
    BY <2>7
  <2>9. n_collaborators \in Nat /\ Len(<<>>) = 0
    BY CollaboratorsAssumption
  <2> QED
    BY <1>1, <2>2, <2>3, <2>4, <2>5, <2>6, <2>8, <2>9 DEF P1Inv, Unmoved
<1> QED
  BY <1>2, <1>5, <1>6

LEMMA SameWork ==
    ASSUME UNCHANGED item
    PROVE  UNCHANGED <<work_steps, steps_per_branch, stages, share, PerTurn, n_calls>>
BY DEF work_steps, steps_per_branch, stages, share, PerTurn, n_calls

LEMMA SameCell ==
    ASSUME Unmoved
    PROVE  /\ Hit' = Hit /\ Fatal' = Fatal
           /\ UNCHANGED <<pattern, cell, per_request, BusOutage, HumanOutage>>
BY DEF Unmoved, Hit, Fatal, BusOutage, HumanOutage

LEMMA StartedBranch ==
    ASSUME FrameInv, P1Inv, Serving, pattern = "P1", Sane(ctx)
    PROVE  LET c == StartOfBranch(ctx)
           IN  /\ Sane(c) /\ c.nonblocking_s = 0 /\ c.elapsed_s = fanout.base
               /\ c.faults_seen = ctx.faults_seen
               /\ c.model_invocations = ctx.model_invocations
<1> DEFINE c == StartOfBranch(ctx)
<1>1. fanout.base \in Nat /\ ctx.nonblocking_s = 0 /\ ctx \in Context
  BY DEF P1Inv, FanoutType, Sane
<1>2. DOMAIN ctx = {"elapsed_s", "nonblocking_s", "request_start_ts",
     "concurrent_in_flight", "model_invocations", "service_calls",
     "services_called", "tokens", "content_scale",
     "components_touched", "faults_seen", "degraded", "default_unit"}
  BY <1>1 DEF Context
<1>3. c \in Context
  BY <1>1 DEF Context, StartOfBranch
<1>4. /\ c.nonblocking_s = ctx.nonblocking_s /\ c.elapsed_s = fanout.base
      /\ c.faults_seen = ctx.faults_seen /\ c.degraded = ctx.degraded
      /\ c.default_unit = ctx.default_unit
      /\ c.model_invocations = ctx.model_invocations
  BY <1>2, Zenon DEF StartOfBranch
<1>5. c.nonblocking_s <= c.elapsed_s
  BY <1>1, <1>4
<1> QED
  BY <1>1, <1>3, <1>4, <1>5 DEF Sane

LEMMA RunBranchStep ==
    ASSUME FrameInv, P1Inv, RunBranch, UNCHANGED remote_ctx, Unmoved
    PROVE  FrameInv' /\ P1Inv'
<1>1. pc = "P1.branch" /\ Serving /\ pattern = "P1" /\ Sane(ctx)
      /\ Len(fanout.durations) < n_collaborators
  BY P1Serves DEF RunBranch
<1> DEFINE c == StartOfBranch(ctx)
           k == Len(fanout.durations)
           N == steps_per_branch
<1>2. PICK r \in Branch(c, "collab") :
         /\ fanout' = [fanout EXCEPT
                          !.durations = Append(@, r.ctx.elapsed_s - fanout.base),
                          !.error = BranchError(r)]
         /\ Goto(r.ctx, "P1.branch")
  BY DEF RunBranch, Duration
<1>3. /\ Sane(c) /\ c.nonblocking_s = 0 /\ c.elapsed_s = fanout.base
      /\ c.faults_seen = ctx.faults_seen /\ c.model_invocations = ctx.model_invocations
  BY <1>1, StartedBranch
<1> HIDE DEF c
<1>4. Responds(c, r, Hit, N) /\ Sane(r.ctx) /\ Answers(c, r, Hit, N)
  BY <1>1, <1>2, <1>3, BranchResponds DEF Responds
<1>5. Labels(pattern, "P1.branch")
  BY <1>1 DEF Labels
<1>6. FrameInv' /\ ctx' = r.ctx /\ pc' = "P1.branch" /\ UNCHANGED <<item, platform, armed, result>>
  BY <1>1, <1>2, <1>4, <1>5, GotoKeepsFrame
<1>7. /\ fanout.base \in Nat /\ fanout.durations \in Seq(Nat) /\ fanout.error \in Fault
      /\ fanout \in FanoutType
      /\ n_collaborators \in Nat /\ N \in Nat /\ k \in Nat
  BY WorkTypes, CollaboratorsAssumption DEF P1Inv, FanoutType, Fault
<1>8. r.ctx.elapsed_s - fanout.base \in Nat
  BY <1>3, <1>4, <1>7 DEF Answers, Later, Context
<1>9. BranchError(r) \in Fault
  BY <1>4, <1>7 DEF BranchError, Answers, Response
<1>10. /\ fanout'.base = fanout.base
       /\ fanout'.durations = Append(fanout.durations, r.ctx.elapsed_s - fanout.base)
       /\ fanout'.error = BranchError(r)
       /\ fanout' \in FanoutType
  <2> DEFINE ds == Append(fanout.durations, r.ctx.elapsed_s - fanout.base)
             er == BranchError(r)
  <2>1. ds \in Seq(Nat) /\ er \in FaultType \cup {NoFault}
    BY <1>7, <1>8, <1>9 DEF Fault
  <2>2. fanout' = [fanout EXCEPT !.durations = ds, !.error = er]
    BY <1>2
  <2> HIDE DEF ds, er
  <2>3. fanout'.base = fanout.base /\ fanout'.durations = ds /\ fanout'.error = er
        /\ fanout' \in FanoutType
    BY <1>7, <2>1, <2>2 DEF FanoutType
  <2> QED
    BY <2>3 DEF ds, er
<1>11. Len(fanout'.durations) = k + 1 /\ k + 1 <= n_collaborators
  BY <1>1, <1>7, <1>8, <1>10
<1>12. r.ctx.nonblocking_s = 0 /\ c.faults_seen \subseteq r.ctx.faults_seen
  BY <1>3, <1>4 DEF Answers, Later
<1>13. fanout'.error # NoFault => r.ctx.faults_seen # {} /\ Fatal
  <2>1. CASE fanout.error # NoFault
    BY <1>1, <1>3, <1>12, <2>1 DEF P1Inv
  <2>2. CASE ~r.ok
    BY <1>1, <1>4, <2>2, FailureIsHit
  <2>3. CASE fanout.error = NoFault /\ r.ok
    BY <1>10, <2>3 DEF BranchError
  <2> QED
    BY <2>1, <2>2, <2>3
<1>14. ASSUME fanout'.error = NoFault
       PROVE  /\ Fatal => r.ctx.faults_seen = {}
              /\ r.ctx.model_invocations = 1 + (k + 1) * N
  <2>1. fanout.error = NoFault /\ r.ok
    <3>1. CASE fanout.error = NoFault /\ ~r.ok
      BY <1>4, <1>10, <1>14, <3>1 DEF BranchError, Answers, Succeeds
    <3> QED
      BY <1>10, <1>14, <3>1 DEF BranchError
  <2>2. Clean /\ ctx.model_invocations = 1 + k * N
    BY <1>1, <2>1 DEF P1Inv
  <2>3. r.ctx.model_invocations = (1 + k * N) + N
    BY <1>3, <1>4, <2>1, <2>2 DEF Answers, Invoked
  <2>4. (1 + k * N) + N = 1 + (k + 1) * N
    BY <1>7
  <2>5. Fatal => r.ctx.faults_seen = {}
    BY <1>3, <1>4, <2>1, <2>2, StaysClean DEF Clean, Sane
  <2> QED
    BY <2>3, <2>4, <2>5
<1>15. N' = N /\ Fatal' = Fatal /\ pattern' = pattern
  BY <1>6, SameWork, SameCell
<1> QED
  BY <1>1, <1>6, <1>10, <1>11, <1>12, <1>13, <1>14, <1>15 DEF P1Inv, Clean

\* The longest of a nonempty sequence of durations exists.
LEMMA LongestExists ==
    ASSUME NEW s \in Seq(Nat), Len(s) > 0
    PROVE  /\ Max(ToSet(s)) \in Nat
           /\ \E j \in 1..Len(s) : Max(ToSet(s)) = s[j]
           /\ \A j \in 1..Len(s) : s[j] <= Max(ToSet(s))
<1> DEFINE Upper(n, m) == \A j \in 1..n : s[j] <= s[m]
           Bad == {n \in 1..Len(s) : ~\E m \in 1..n : Upper(n, m)}
<1>1. Len(s) \in Nat /\ \A j \in 1..Len(s) : s[j] \in Nat
  OBVIOUS
<1>2. Bad = {}
  <2> SUFFICES ASSUME Bad # {} PROVE FALSE
    OBVIOUS
  <2>1. PICK n \in Bad : \A m \in Bad : n <= m
    <3>1. Bad \in SUBSET Nat
      BY <1>1
    <3> HIDE DEF Bad
    <3> QED
      BY <3>1, LeastNumber
  <2>2. n \in Nat /\ 1 <= n /\ n <= Len(s) /\ \A m \in 1..n : ~Upper(n, m)
    <3> HIDE DEF Upper
    <3> QED
      BY <1>1, <2>1
  <2> HIDE DEF Bad
  <2>3. CASE n = 1
    <3>1. 1 \in 1..n /\ \A j \in 1..n : j = 1
      BY <2>2, <2>3
    <3>2. s[1] \in Nat
      BY <1>1, <2>2
    <3>3. ASSUME NEW j \in 1..n PROVE s[j] <= s[1]
      <4>1. j = 1
        BY <3>1
      <4> QED
        BY <3>2, <4>1
    <3> QED
      BY <2>2, <3>1, <3>3
  <2>4. CASE n # 1
    <3>1. n - 1 \in 1..Len(s) /\ n - 1 \notin Bad
      BY <1>1, <2>1, <2>2, <2>4
    <3>2. PICK m \in 1..(n - 1) : Upper(n - 1, m)
      <4> HIDE DEF Upper
      <4> QED
        BY <3>1 DEF Bad
    <3>3. \A j \in 1..n : j \in 1..(n - 1) \/ j = n
      BY <2>2
    <3>4. s[n] \in Nat /\ s[m] \in Nat /\ m \in 1..n /\ n \in 1..n
      BY <1>1, <2>2, <3>2
    <3>5. CASE s[n] <= s[m]
      <4>1. ASSUME NEW j \in 1..n PROVE s[j] <= s[m]
        BY <3>2, <3>3, <3>5, <4>1
      <4> QED
        BY <2>2, <3>4, <4>1
    <3>6. CASE s[m] <= s[n]
      <4>1. \A j \in 1..(n - 1) : s[j] \in Nat
        BY <1>1, <2>2
      <4>2. ASSUME NEW j \in 1..n PROVE s[j] <= s[n]
        <5>1. CASE j = n
          BY <3>4, <5>1
        <5>2. CASE j \in 1..(n - 1)
          <6>1. s[j] \in Nat /\ s[j] <= s[m]
            BY <3>2, <4>1, <5>2
          <6> QED
            BY <3>4, <3>6, <6>1
        <5> QED
          BY <3>3, <5>1, <5>2
      <4> QED
        BY <2>2, <3>4, <4>2
    <3> QED
      BY <3>4, <3>5, <3>6
  <2> QED
    BY <2>3, <2>4
<1>3. PICK m \in 1..Len(s) : \A j \in 1..Len(s) : s[j] <= s[m]
  <2>1. Len(s) \in 1..Len(s) /\ Len(s) \notin Bad
    <3> HIDE DEF Bad
    <3> QED
      BY <1>1, <1>2
  <2> QED
    BY <2>1
<1>4. ToSet(s) = {s[j] : j \in 1..Len(s)}
  BY DEF ToSet
<1>5. \E x \in ToSet(s) : \A y \in ToSet(s) : x >= y
  BY <1>1, <1>3, <1>4
<1>6. Max(ToSet(s)) \in ToSet(s) /\ \A y \in ToSet(s) : Max(ToSet(s)) >= y
  BY <1>5 DEF Max
<1> QED
  BY <1>1, <1>4, <1>6

LEMMA JoinBranchesStep ==
    ASSUME FrameInv, P1Inv, JoinBranches, UNCHANGED remote_ctx, Unmoved
    PROVE  FrameInv' /\ P1Inv'
<1>1. pc = "P1.branch" /\ Serving /\ pattern = "P1" /\ Sane(ctx)
      /\ Len(fanout.durations) = n_collaborators
  BY P1Serves DEF JoinBranches
<1> DEFINE e == fanout.base + Max(ToSet(fanout.durations))
           c == [ctx EXCEPT !.elapsed_s = e]
<1>2. e \in Nat /\ fanout.error \in Fault /\ n_collaborators \in Nat
  <2>1. fanout.base \in Nat /\ fanout.durations \in Seq(Nat) /\ fanout.error \in Fault
    BY DEF P1Inv, FanoutType, Fault
  <2>2. Max(ToSet(fanout.durations)) \in Nat
    BY <1>1, <2>1, LongestExists, CollaboratorsAssumption
  <2> QED
    BY <2>1, <2>2, CollaboratorsAssumption
<1>3. /\ IF fanout.error = NoFault
         THEN Goto(c, "P1.synthesize") ELSE Return(c, ErrorStatus(fanout.error))
      /\ UNCHANGED fanout
  BY DEF JoinBranches
<1> HIDE DEF e
<1>4. /\ c \in Context /\ c.elapsed_s = e /\ c.nonblocking_s = ctx.nonblocking_s
      /\ c.faults_seen = ctx.faults_seen /\ c.degraded = ctx.degraded
      /\ c.default_unit = ctx.default_unit
      /\ c.model_invocations = ctx.model_invocations
  <2>1. ctx \in Context
    BY <1>1 DEF Sane
  <2>2. c \in Context
    BY <1>2, <2>1 DEF Context
  <2>3. DOMAIN ctx = {"elapsed_s", "nonblocking_s", "request_start_ts",
     "concurrent_in_flight", "model_invocations", "service_calls",
     "services_called", "tokens", "content_scale",
     "components_touched", "faults_seen", "degraded", "default_unit"}
    BY <2>1 DEF Context
  <2> QED
    BY <2>2, <2>3, Zenon
<1>5. ctx.nonblocking_s = 0
  BY <1>1 DEF P1Inv
<1> HIDE DEF c
<1>6. Sane(c) /\ c.nonblocking_s = 0
  BY <1>1, <1>2, <1>4, <1>5 DEF Sane
<1>7. CASE fanout.error = NoFault
  <2>1. Goto(c, "P1.synthesize") /\ Labels(pattern, "P1.synthesize")
    BY <1>1, <1>3, <1>7 DEF Labels
  <2>2. FrameInv' /\ ctx' = c /\ pc' = "P1.synthesize" /\ UNCHANGED <<item, platform, armed, result>>
    BY <1>1, <1>6, <2>1, GotoKeepsFrame
  <2>3. Clean /\ ctx.model_invocations = 1 + n_collaborators * steps_per_branch
    BY <1>1, <1>7 DEF P1Inv
  <2>4. UNCHANGED <<steps_per_branch, pattern, Fatal>>
    BY <2>2, SameWork, SameCell
  <2> QED
    BY <1>1, <1>3, <1>4, <1>6, <2>2, <2>3, <2>4 DEF P1Inv, Clean
<1>8. CASE fanout.error # NoFault
  <2>1. Return(c, ErrorStatus(fanout.error)) /\ Fatal /\ c.faults_seen # {}
    BY <1>1, <1>3, <1>4, <1>8 DEF P1Inv
  <2>2. PICK status \in {"error", "timeout"} : status = ErrorStatus(fanout.error)
    BY DEF ErrorStatus
  <2>3. Return(c, status) /\ status \in {"ok", "error", "timeout"}
    BY <2>1, <2>2
  <2>4. /\ c \in Context /\ c.default_unit = NoUnit /\ c.faults_seen \subseteq Hit
        /\ c.nonblocking_s <= c.elapsed_s
        /\ c.degraded \/ status # "ok" =>
             Fatal /\ (c.faults_seen # {} \/ (pattern = "P7" /\ remote_ctx'.faults_seen # {}))
    BY <1>6, <2>1 DEF Sane
  <2>5. remote_ctx' \in Context /\ remote_ctx'.faults_seen \subseteq Hit
    BY DEF FrameInv
  <2>6. FrameInv' /\ ctx' = c /\ pc' = "returned" /\ result' = status
    BY <1>1, <2>3, <2>4, <2>5, ReturnKeepsFrame, Zenon
  <2>7. UNCHANGED pattern
    BY SameCell
  <2> QED
    BY <1>1, <1>3, <1>6, <2>2, <2>6, <2>7 DEF P1Inv, Spared
<1> QED
  BY <1>7, <1>8

LEMMA SynthesizeStep ==
    ASSUME FrameInv, P1Inv, Synthesize, UNCHANGED remote_ctx, Unmoved
    PROVE  FrameInv' /\ P1Inv'
<1>1. pc = "P1.synthesize" /\ Serving /\ pattern = "P1" /\ Sane(ctx)
  BY P1Serves DEF Synthesize
<1>2. work_steps \in Nat /\ steps_per_branch \in Nat /\ n_collaborators \in Nat
  BY WorkTypes, CollaboratorsAssumption
<1> DEFINE c == Scaled(ctx, work_steps)
<1>3. /\ Sane(c) /\ c.nonblocking_s = 0 /\ c.faults_seen = ctx.faults_seen
      /\ c.content_scale = work_steps /\ c.tokens \in Nat
      /\ c.model_invocations = 1 + n_collaborators * steps_per_branch
      /\ Clean
  <2>1. ctx \in Context /\ Sane(c)
    BY <1>1, <1>2, SaneScaled DEF Sane
  <2>2. /\ ctx.nonblocking_s = 0 /\ Clean
        /\ ctx.model_invocations = 1 + n_collaborators * steps_per_branch
    BY <1>1 DEF P1Inv
  <2>3. c.tokens \in Nat
    BY <2>1 DEF Sane, Context
  <2> QED
    BY <1>2, <2>1, <2>2, <2>3, ScaledFields
<1>4. PICK r \in invoke_agent(armed, c) :
        \/ r.ok /\ Return(Unscaled(r.ctx), "ok")
        \/ Raise(r)
  BY DEF Synthesize
<1> HIDE DEF c
<1>5. Responds(c, r, Hit, 1) /\ Sane(r.ctx) /\ Answers(c, r, Hit, 1)
  BY <1>1, <1>3, ModelCall DEF Responds
<1>6. UNCHANGED fanout
  BY DEF Synthesize
<1>7. CASE Raise(r)
  BY <1>1, <1>3, <1>5, <1>6, <1>7, P1Raises
<1>8. CASE r.ok /\ Return(Unscaled(r.ctx), "ok")
  <2>1. Sane(Unscaled(r.ctx)) /\ r.ctx \in Context
    BY <1>5, SaneScaled DEF Unscaled, Sane
  <2> DEFINE d == Unscaled(r.ctx)
  <2>2. /\ d.faults_seen = r.ctx.faults_seen /\ d.nonblocking_s = r.ctx.nonblocking_s
        /\ d.tokens = r.ctx.tokens /\ d.model_invocations = r.ctx.model_invocations
    BY <2>1, ScaledFields DEF Unscaled
  <2> HIDE DEF d
  <2>3. /\ d \in Context /\ d.default_unit = NoUnit /\ d.faults_seen \subseteq Hit
        /\ d.nonblocking_s <= d.elapsed_s /\ ~d.degraded
    BY <2>1 DEF Sane, d
  <2>4. remote_ctx' \in Context /\ remote_ctx'.faults_seen \subseteq Hit
    BY DEF FrameInv
  <2>5. Return(d, "ok")
    BY <1>8 DEF d
  <2>6. /\ FrameInv' /\ ctx' = d /\ pc' = "returned" /\ result' = "ok"
        /\ UNCHANGED <<item, platform, armed>>
    BY <1>1, <2>3, <2>4, <2>5, ReturnKeepsFrame
  <2>7. Fatal => d.faults_seen = {}
    BY <1>3, <1>5, <1>8, <2>2, StaysClean DEF Clean, Sane
  <2>8. /\ d.nonblocking_s = 0
        /\ d.model_invocations = 2 + n_collaborators * steps_per_branch
        /\ work_steps <= d.tokens
    <3>1. Max({1, work_steps}) >= work_steps /\ Max({1, work_steps}) \in Nat
      BY <1>2, MaxWithOne
    <3>2. c.tokens + Max({1, work_steps}) <= r.ctx.tokens /\ r.ctx.tokens \in Nat
      BY <1>3, <1>5, <1>8, <2>1 DEF Answers, Invoked, Context
    <3>3. r.ctx.model_invocations = (1 + n_collaborators * steps_per_branch) + 1
      BY <1>3, <1>5, <1>8 DEF Answers, Invoked
    <3>4. work_steps <= r.ctx.tokens
      BY <1>2, <1>3, <3>1, <3>2
    <3> QED
      BY <1>2, <1>3, <1>5, <2>2, <3>3, <3>4 DEF Answers, Later
  <2>9. UNCHANGED <<steps_per_branch, work_steps, pattern, Fatal>>
    BY <2>6, SameWork, SameCell
  <2> QED
    BY <1>1, <1>6, <2>6, <2>7, <2>8, <2>9 DEF P1Inv, Spared, Clean
<1> QED
  BY <1>4, <1>7, <1>8

\* Steps of one pattern leave what is recorded, and the other patterns, alone.
LEMMA RecordsStay == ASSUME RecordsInv, Unmoved PROVE RecordsInv'
BY SameCell DEF RecordsInv, RecordOK

LEMMA OthersStay ==
    ASSUME UNCHANGED pattern
    PROVE  /\ P1Inv /\ pattern # "P1" /\ UNCHANGED fanout     => P1Inv'
           /\ P2Inv /\ pattern # "P2" /\ UNCHANGED stage      => P2Inv'
           /\ P3Inv /\ pattern # "P3" /\ UNCHANGED choreography => P3Inv'
           /\ P4Inv /\ pattern # "P4" /\ UNCHANGED blackboard => P4Inv'
           /\ P5Inv /\ pattern # "P5" /\ UNCHANGED gateway    => P5Inv'
           /\ P6Inv /\ pattern # "P6" /\ UNCHANGED hitl       => P6Inv'
           /\ P7Inv /\ pattern # "P7" /\ UNCHANGED remote_ctx => P7Inv'
<1>1. P1Inv /\ pattern # "P1" /\ UNCHANGED fanout => P1Inv'
  BY DEF P1Inv
<1>2. P2Inv /\ pattern # "P2" /\ UNCHANGED stage => P2Inv'
  BY DEF P2Inv
<1>3. P3Inv /\ pattern # "P3" /\ UNCHANGED choreography => P3Inv'
  BY DEF P3Inv, choreography
<1>4. P4Inv /\ pattern # "P4" /\ UNCHANGED blackboard => P4Inv'
  BY DEF P4Inv, blackboard
<1>5. P5Inv /\ pattern # "P5" /\ UNCHANGED gateway => P5Inv'
  BY DEF P5Inv, gateway
<1>6. P6Inv /\ pattern # "P6" /\ UNCHANGED hitl => P6Inv'
  BY DEF P6Inv, hitl
<1>7. P7Inv /\ pattern # "P7" /\ UNCHANGED remote_ctx => P7Inv'
  BY DEF P7Inv
<1> QED
  BY <1>1, <1>2, <1>3, <1>4, <1>5, <1>6, <1>7

LEMMA P1Step ==
    ASSUME CampaignInv, P1Next, Unmoved,
           UNCHANGED <<stage, choreography, blackboard, gateway, hitl, remote_ctx>>
    PROVE  CampaignInv'
<1>1. FrameInv' /\ P1Inv'
  BY PlanStep, RunBranchStep, JoinBranchesStep, SynthesizeStep DEF CampaignInv, P1Next
<1>2. pattern = "P1"
  BY P1Serves DEF CampaignInv, P1Next, Plan, RunBranch, JoinBranches, Synthesize
<1>3. UNCHANGED pattern
  BY SameCell
<1> QED
  BY <1>1, <1>2, <1>3, RecordsStay, OthersStay DEF CampaignInv

\* A request that returns ok, or an error that is not the client's own.
LEMMA OkKeepsFrame ==
    ASSUME FrameInv, Serving, NEW d, Sane(d), Return(d, "ok"), UNCHANGED remote_ctx, Unmoved
    PROVE  /\ FrameInv' /\ ctx' = d /\ pc' = "returned" /\ result' = "ok"
           /\ UNCHANGED <<item, platform, armed>>
<1>1. PICK e \in Context : e = d
  BY DEF Sane
<1>2. /\ e.default_unit = NoUnit /\ e.faults_seen \subseteq Hit
      /\ e.nonblocking_s <= e.elapsed_s /\ ~e.degraded
  BY <1>1 DEF Sane
<1>3. remote_ctx' \in Context /\ remote_ctx'.faults_seen \subseteq Hit
  BY DEF FrameInv
<1>4. Return(e, "ok") /\ "ok" \in {"ok", "error", "timeout"}
  BY <1>1
<1>5. e.degraded \/ "ok" # "ok" =>
        Fatal /\ (e.faults_seen # {} \/ (pattern = "P7" /\ remote_ctx'.faults_seen # {}))
  BY <1>2
<1>6. /\ FrameInv' /\ ctx' = e /\ pc' = "returned" /\ result' = "ok"
      /\ UNCHANGED <<item, platform, armed>>
  BY <1>2, <1>3, <1>4, <1>5, ReturnKeepsFrame, Zenon
<1> QED
  BY <1>1, <1>6

(***************************************************************************)
(* P2: the stages                                                          *)
(***************************************************************************)
LEMMA ItemTypes ==
    ASSUME NEW i \in Item
    PROVE  /\ (IF i.staged THEN i.steps ELSE Max({1, Min({i.steps, DefaultStages})})) \in Nat \ {0}
           /\ Max({1, CeilDiv(i.steps, n_specialists)}) \in Nat
<1>1. i.steps \in Nat \ {0}
  BY DEF Item
<1>2. Min({i.steps, DefaultStages}) \in Nat
  <2>1. \E x \in {i.steps, DefaultStages} : \A y \in {i.steps, DefaultStages} : x <= y
    BY <1>1, StagesAssumption
  <2> QED
    BY <1>1, <2>1, StagesAssumption DEF Min
<1>3. Max({1, Min({i.steps, DefaultStages})}) \in Nat \ {0}
  BY <1>2, MaxWithOne
<1>4. Max({1, CeilDiv(i.steps, n_specialists)}) \in Nat
  BY <1>1, CeilDivFacts, MaxWithOne, BlackboardAssumption
<1> QED
  BY <1>1, <1>3, <1>4

LEMMA StageTypes ==
    ASSUME FrameInv PROVE stages \in Nat \ {0}
BY ItemTypes DEF FrameInv, stages

LEMMA P2Step ==
    ASSUME CampaignInv, P2Next, Unmoved,
           UNCHANGED <<fanout, choreography, blackboard, gateway, hitl, remote_ctx>>
    PROVE  CampaignInv'
<1>0. FrameInv /\ RecordsInv /\ P2Inv
  BY DEF CampaignInv
<1>1. pc = "P2.stage" /\ Serving /\ pattern = "P2" /\ Sane(ctx)
  <2>1. pc = "P2.stage" /\ Serving
    BY DEF P2Next, RunStage, Serving
  <2> QED
    BY <1>0, <2>1, ServingIsSane DEF FrameInv, Labels
<1>2. PICK r \in StageCall :
         \/ /\ r.ok
            /\ stage + 1 < stages
            /\ stage' = stage + 1
            /\ Goto(r.ctx, "P2.stage")
         \/ /\ r.ok
            /\ stage + 1 = stages
            /\ stage' = stage + 1
            /\ Return(r.ctx, "ok")
         \/ Raise(r) /\ UNCHANGED stage
  BY DEF P2Next, RunStage
<1>3. Responds(ctx, r, Hit, 1) /\ Sane(r.ctx) /\ Answers(ctx, r, Hit, 1)
  <2>1. Len(<<"stage">>) \in Nat
    OBVIOUS
  <2>2. r \in invoke_agent(armed, ctx) \/ r \in send(armed, ctx, <<"stage">>)
    BY <1>2 DEF StageCall
  <2> QED
    BY <1>0, <1>1, <2>1, <2>2, ModelCall, SendCall DEF Responds
<1>4. /\ stage \in Nat /\ stage < stages /\ Clean /\ stages \in Nat
      /\ ctx.model_invocations = stage /\ stage <= ctx.tokens
  BY <1>0, <1>1, StageTypes DEF P2Inv
<1>5. r.ok => /\ r.ctx.model_invocations = stage + 1 /\ stage + 1 <= r.ctx.tokens
              /\ Fatal => r.ctx.faults_seen = {}
  <2> SUFFICES ASSUME r.ok PROVE /\ r.ctx.model_invocations = stage + 1 /\ stage + 1 <= r.ctx.tokens
                                 /\ Fatal => r.ctx.faults_seen = {}
    OBVIOUS
  <2>1. /\ r.ctx.model_invocations = ctx.model_invocations + 1
        /\ ctx.tokens + Max({1, ctx.content_scale}) <= r.ctx.tokens
    BY <1>3 DEF Answers, Invoked
  <2>2. ctx.content_scale \in Nat /\ ctx.tokens \in Nat /\ r.ctx.tokens \in Nat
    BY <1>1, <1>3 DEF Sane, Context
  <2>3. Max({1, ctx.content_scale}) \in Nat /\ Max({1, ctx.content_scale}) >= 1
    BY <2>2, MaxWithOne
  <2>4. Fatal => r.ctx.faults_seen = {}
    BY <1>1, <1>3, <1>4, StaysClean DEF Clean, Sane
  <2> QED
    BY <1>4, <2>1, <2>2, <2>3, <2>4
<1>6. UNCHANGED <<pattern, Fatal>>
  BY SameCell
<1>7. FrameInv' /\ P2Inv'
  <2>1. CASE r.ok /\ stage + 1 < stages /\ stage' = stage + 1 /\ Goto(r.ctx, "P2.stage")
    <3>1. /\ FrameInv' /\ ctx' = r.ctx /\ pc' = "P2.stage"
          /\ UNCHANGED <<item, platform, armed, result>>
      BY <1>0, <1>1, <1>3, <2>1, GotoKeepsFrame DEF Labels
    <3>2. stages' = stages
      BY <3>1, SameWork
    <3> QED
      BY <1>1, <1>4, <1>5, <1>6, <2>1, <3>1, <3>2 DEF P2Inv, Clean
  <2>2. CASE r.ok /\ stage + 1 = stages /\ stage' = stage + 1 /\ Return(r.ctx, "ok")
    <3>1. /\ FrameInv' /\ ctx' = r.ctx /\ pc' = "returned" /\ result' = "ok"
          /\ UNCHANGED <<item, platform, armed>>
      BY <1>0, <1>1, <1>3, <2>2, OkKeepsFrame
    <3>2. stages' = stages
      BY <3>1, SameWork
    <3> QED
      BY <1>1, <1>4, <1>5, <1>6, <2>2, <3>1, <3>2 DEF P2Inv, Clean, Spared
  <2>3. CASE Raise(r) /\ UNCHANGED stage
    <3>1. FrameInv' /\ ctx' = r.ctx /\ pc' = "returned" /\ result' \in {"error", "timeout"}
      BY <1>0, <1>1, <1>3, <2>3, RaiseKeepsFrame
    <3> QED
      BY <1>1, <1>4, <1>6, <2>3, <3>1 DEF P2Inv, Spared
  <2> QED
    BY <1>2, <2>1, <2>2, <2>3
<1> QED
  BY <1>0, <1>1, <1>6, <1>7, RecordsStay, OthersStay DEF CampaignInv

(***************************************************************************)
(* Calls that cover several steps of an item                               *)
(***************************************************************************)
\* d is c after one model invocation for `scale` steps, the scale set back.
Reacted(c, scale, d) ==
    /\ Sane(d)
    /\ d.model_invocations = c.model_invocations + 1
    /\ c.tokens + scale <= d.tokens
    /\ c.elapsed_s <= d.elapsed_s
    /\ d.concurrent_in_flight = c.concurrent_in_flight
    /\ Fatal /\ c.faults_seen = {} => d.faults_seen = {}

LEMMA ScaledReply ==
    ASSUME NEW c, Sane(c), NEW scale \in Nat \ {0},
           NEW x, Responds(Scaled(c, scale), x, Hit, 1)
    PROVE  x.ok => Reacted(c, scale, Unscaled(x.ctx))
<1> SUFFICES ASSUME x.ok PROVE Reacted(c, scale, Unscaled(x.ctx))
  OBVIOUS
<1> DEFINE b == Scaled(c, scale)
           d == Unscaled(x.ctx)
<1>1. c \in Context /\ Sane(b)
  BY SaneScaled DEF Sane
<1>2. /\ b \in Context /\ b.content_scale = scale /\ b.elapsed_s = c.elapsed_s
      /\ b.faults_seen = c.faults_seen /\ b.tokens = c.tokens
      /\ b.model_invocations = c.model_invocations
      /\ b.concurrent_in_flight = c.concurrent_in_flight
  <2>1. b.concurrent_in_flight = c.concurrent_in_flight
    BY <1>1, Zenon DEF Scaled, Context
  <2> QED
    BY <1>1, <2>1, ScaledFields
<1>3. Answers(b, x, Hit, 1) /\ Sane(x.ctx) /\ x.ctx \in Context
  BY <1>1, SaneAfter DEF Responds, Sane
<1>4. /\ Sane(d) /\ d.elapsed_s = x.ctx.elapsed_s /\ d.faults_seen = x.ctx.faults_seen
      /\ d.tokens = x.ctx.tokens /\ d.model_invocations = x.ctx.model_invocations
      /\ d.concurrent_in_flight = x.ctx.concurrent_in_flight
  <2>1. d.concurrent_in_flight = x.ctx.concurrent_in_flight
    BY <1>3, Zenon DEF Unscaled, Scaled, Context
  <2> QED
    BY <1>3, <2>1, ScaledFields, SaneScaled DEF Unscaled
<1>5. Later(b, x.ctx) /\ Invoked(b, x.ctx, 1)
  BY <1>3 DEF Answers
<1>6. Fatal /\ c.faults_seen = {} => x.ctx.faults_seen = {}
  BY <1>2, StaysClean
<1> HIDE DEF b, d
<1>7. c.tokens + scale <= d.tokens
  <2>1. Max({1, scale}) \in Nat /\ Max({1, scale}) >= scale
    BY MaxWithOne
  <2>2. c.tokens \in Nat /\ d.tokens \in Nat
    BY <1>1, <1>4 DEF Sane, Context
  <2>3. c.tokens + Max({1, scale}) <= d.tokens
    BY <1>2, <1>4, <1>5 DEF Invoked
  <2> QED
    BY <2>1, <2>2, <2>3
<1>8. Reacted(c, scale, d)
  BY <1>2, <1>4, <1>5, <1>6, <1>7 DEF Reacted, Later, Invoked
<1> QED
  BY <1>8 DEF d

\* The failure of such a call, the scale set back or not.
LEMMA ScaledFailure ==
    ASSUME NEW c, Sane(c), NEW scale \in Nat \ {0},
           NEW x, Responds(Scaled(c, scale), x, Hit, 1), ~x.ok
    PROVE  /\ Answers(Scaled(c, scale), x, Hit, 1) /\ Sane(Scaled(c, scale))
           /\ Answers(Unscaled(c), [x EXCEPT !.ctx = Unscaled(@)], Hit, 1)
           /\ Sane(Unscaled(c))
<1> DEFINE b == Scaled(c, scale)
           u == Unscaled(c)
           y == [x EXCEPT !.ctx = Unscaled(@)]
<1>1. c \in Context /\ Sane(b) /\ Sane(u)
  BY SaneScaled DEF Sane, Unscaled
<1>2. Answers(b, x, Hit, 1) /\ Sane(x.ctx) /\ x.ctx \in Context /\ x \in Response
  BY <1>1, SaneAfter DEF Responds, Sane, Answers
<1>3. Unscaled(x.ctx) \in Context
  BY <1>2, ScaledFields DEF Unscaled
<1>4. y \in Response /\ y.ctx = Unscaled(x.ctx) /\ y.ok = x.ok /\ y.fault = x.fault
  <2> DEFINE d == Unscaled(x.ctx)
  <2>1. y = [x EXCEPT !.ctx = d]
    OBVIOUS
  <2> HIDE DEF d
  <2>2. y \in Response /\ y.ctx = d /\ y.ok = x.ok /\ y.fault = x.fault
    BY <1>2, <1>3, <2>1 DEF Response, d
  <2> QED
    BY <2>2 DEF d
<1>5. \A v \in {b, u} : /\ v.elapsed_s = c.elapsed_s /\ v.nonblocking_s = c.nonblocking_s
                        /\ v.request_start_ts = c.request_start_ts /\ v.degraded = c.degraded
                        /\ v.default_unit = c.default_unit /\ v.faults_seen = c.faults_seen
                        /\ v.concurrent_in_flight = c.concurrent_in_flight
                        /\ v.tokens = c.tokens
  <2>1. b.concurrent_in_flight = c.concurrent_in_flight
        /\ u.concurrent_in_flight = c.concurrent_in_flight
    BY <1>1, Zenon DEF Unscaled, Scaled, Context
  <2> QED
    BY <1>1, <2>1, ScaledFields DEF Unscaled
<1>6. LET d == Unscaled(x.ctx)
      IN  /\ d.elapsed_s = x.ctx.elapsed_s /\ d.nonblocking_s = x.ctx.nonblocking_s
          /\ d.request_start_ts = x.ctx.request_start_ts /\ d.degraded = x.ctx.degraded
          /\ d.default_unit = x.ctx.default_unit /\ d.faults_seen = x.ctx.faults_seen
          /\ d.concurrent_in_flight = x.ctx.concurrent_in_flight
          /\ d.content_scale = 1 /\ u.content_scale = 1 /\ d.tokens = x.ctx.tokens
  <2>1. Unscaled(x.ctx).concurrent_in_flight = x.ctx.concurrent_in_flight
    BY <1>2, Zenon DEF Unscaled, Scaled, Context
  <2> QED
    BY <1>1, <1>2, <2>1, ScaledFields DEF Unscaled
<1>7. Later(b, x.ctx) /\ x.ctx.faults_seen \subseteq b.faults_seen \cup Hit
      /\ ~Succeeds(x.fault)
      /\ \E k \in Component : <<k, x.fault>> \in Hit /\ <<k, x.fault>> \in x.ctx.faults_seen
  BY <1>2 DEF Answers
<1> HIDE DEF b, u, y
<1>8. Later(u, y.ctx)
  BY <1>3, <1>4, <1>5, <1>6, <1>7 DEF Later
<1>9. Answers(u, y, Hit, 1)
  BY <1>4, <1>5, <1>6, <1>7, <1>8 DEF Answers
<1> QED
  BY <1>1, <1>2, <1>9 DEF b, u, y

(***************************************************************************)
(* P3: the event chain                                                     *)
(***************************************************************************)
LEMMA CountUp ==
    ASSUME NEW n \in Nat
    PROVE  LET s == [k \in 1..n |-> k]
           IN  Len(s) = n /\ Append(s, n + 1) = [k \in 1..(n + 1) |-> k]
<1> DEFINE s == [k \in 1..n |-> k]
<1>1. s \in Seq(Nat) /\ Len(s) = n
  OBVIOUS
<1>2. Append(s, n + 1) \in Seq(Nat) /\ Len(Append(s, n + 1)) = n + 1
  BY <1>1
<1>3. \A k \in 1..(n + 1) : Append(s, n + 1)[k] = k
  BY <1>1
<1>4. DOMAIN Append(s, n + 1) = 1..(n + 1)
  BY <1>2
<1>5. Append(s, n + 1) = [k \in 1..(n + 1) |-> Append(s, n + 1)[k]]
  BY <1>2, <1>4
<1> QED
  BY <1>1, <1>3, <1>5

LEMMA P3Serves ==
    ASSUME FrameInv, pc \in {"P3.hop", "P3.publish", "P3.deliver"}
    PROVE  Serving /\ pattern = "P3" /\ Sane(ctx)
<1>1. Serving
  BY DEF Serving
<1>2. Labels(pattern, pc)
  BY <1>1 DEF FrameInv
<1> QED
  BY <1>1, <1>2, ServingIsSane DEF Labels

\* A bus fault spares the model and the actions.
LEMMA BusFaultSpares ==
    ASSUME FrameInv, Serving, cell.component = "event_bus", NEW c, Sane(c)
    PROVE  /\ \A r \in invoke_agent(armed, c) : r.ok
           /\ \A actions : Len(actions) \in Nat =>
                 \A r \in run_agent_script(armed, c, actions) : r.ok
<1>1. WellArmed(armed) /\ c \in Context
  BY ArmedNow DEF Sane
<1>2. DOMAIN armed \subseteq {"event_bus"}
  BY ServingIsSane, ArmedCell
<1>3. \A unit : Hits(armed, "model_backend", unit) = {} /\ Hits(armed, "tool", unit) = {}
  BY <1>2 DEF Hits
<1>4. ASSUME NEW r \in invoke_agent(armed, c) PROVE r.ok
  <2>1. Responds(c, r, Hits(armed, "model_backend", c.default_unit), 1)
    BY <1>1, InvokeAgentResponds
  <2> QED
    BY <1>3, <2>1 DEF Responds, Answers, Response
<1>5. ASSUME NEW actions, Len(actions) \in Nat, NEW r \in run_agent_script(armed, c, actions)
      PROVE  r.ok
  <2>1. ScriptHits(armed, c, actions) \subseteq {}
    BY <1>3 DEF ScriptHits
  <2>2. Responds(c, r, {}, 0)
    BY <1>1, <2>1, RunAgentScriptResponds
  <2> QED
    BY <2>2 DEF Responds, Answers, Response
<1> QED
  BY <1>4, <1>5

\* An event is lost only to an outage it was redelivered too early for.
LEMMA EventLost ==
    ASSUME FrameInv, Serving, BusOutage, NEW c, Sane(c), NEW service,
           NEW r \in publish_event(armed, c, service), ~r.ok
    PROVE  Window[2] - sim_now(r.ctx) \in RoundDown \ {0}
<1>1. cell.component = "event_bus" /\ cell.fault = "outage"
  BY DEF BusOutage
<1>2. /\ WellArmed(armed) /\ AllHits(armed) = Hit /\ DOMAIN armed \subseteq {"event_bus"}
      /\ \A k \in DOMAIN armed : armed[k].fault = "outage" /\ armed[k].window = Window
  BY <1>1, ServingIsSane, ArmedCell
<1>3. "event_bus" \in DOMAIN armed
  <2>1. Hit # {}
    BY <1>1 DEF Hit, NoFault
  <2> QED
    BY <1>2, <2>1 DEF AllHits
<1>4. Window # NoWindow
  BY CampaignAssumption DEF NoWindow
<1>5. HasWindow(armed, "event_bus") /\ armed["event_bus"].fault = "outage"
      /\ window_end(armed, "event_bus") = Window[2]
  BY <1>2, <1>3, <1>4 DEF HasWindow, window_end
<1>6. c \in Context
  BY DEF Sane
<1>7. window_end(armed, "event_bus") - sim_now(r.ctx) \in RoundDown \ {0}
  BY <1>2, <1>5, <1>6, LostToRounding
<1> QED
  BY <1>5, <1>7

LEMMA SameNow == ASSUME NEW d, ctx' = d PROVE sim_now(ctx)' = sim_now(d)
BY DEF sim_now

\* A client error that ends a P3 request.
LEMMA P3Raises ==
    ASSUME FrameInv, P3Inv, Serving, pattern = "P3", NEW c, Sane(c),
           NEW r, NEW n, Answers(c, r, Hit, n), Raise(r),
           BusOutage => Window[2] - sim_now(r.ctx) \in RoundDown \ {0},
           UNCHANGED <<subscriptions, request_log, remote_ctx>>,
           deliveries' \in Seq(1..EventChain), Unmoved
    PROVE  FrameInv' /\ P3Inv'
<1>1. FrameInv' /\ ctx' = r.ctx /\ pc' = "returned" /\ result' \in {"error", "timeout"}
  BY RaiseKeepsFrame
<1>2. BusOutage' = BusOutage /\ pattern' = pattern /\ sim_now(ctx)' = sim_now(r.ctx)
  BY <1>1, SameCell, SameNow
<1>3. subscriptions' \in {0, 1} /\ request_log' \in Seq(1..EventChain)
      /\ pc' \notin {"P3.hop", "P3.publish", "P3.deliver"}
  BY <1>1 DEF P3Inv
<1>4. ~Serving'
  BY <1>1 DEF Serving
<1> QED
  BY <1>1, <1>2, <1>3, <1>4 DEF P3Inv

\* What a handled event adds to the log and to the counters.
LEMMA EventHandled ==
    ASSUME FrameInv, P3Inv, Serving, pattern = "P3", Len(request_log) < EventChain,
           NEW d, d.model_invocations = ctx.model_invocations + 1,
           ctx.tokens + ReactionScale(Len(request_log) + 1) <= d.tokens, d \in Context
    PROVE  LET log == Append(request_log, Len(request_log) + 1)
           IN  /\ log \in Seq(1..EventChain)
               /\ Len(log) = Len(request_log) + 1
               /\ log = [k \in 1..Len(log) |-> k]
               /\ d.model_invocations = Len(log)
               /\ Len(log) >= Enriched => work_steps <= d.tokens
<1> DEFINE n == Len(request_log)
           log == Append(request_log, n + 1)
<1>1. /\ n \in Nat /\ request_log = [k \in 1..n |-> k]
      /\ request_log \in Seq(1..EventChain)
      /\ ctx.model_invocations = n /\ (n >= Enriched => work_steps <= ctx.tokens)
  BY DEF P3Inv
<1>2. EventChain \in Nat /\ n + 1 \in 1..EventChain
  BY <1>1, ChainAssumption
<1>3. log \in Seq(1..EventChain) /\ Len(log) = n + 1
  BY <1>1, <1>2
<1>4. log = [k \in 1..(n + 1) |-> k]
  BY <1>1, CountUp
<1>5. n + 1 >= Enriched => work_steps <= d.tokens
  <2>1. ctx.tokens \in Nat /\ d.tokens \in Nat /\ work_steps \in Nat
    BY ServingIsSane, WorkTypes DEF Sane, Context
  <2>2. CASE n >= Enriched
    BY <1>1, <2>1, <2>2 DEF ReactionScale
  <2>3. CASE n + 1 = Enriched
    BY <1>1, <2>1, <2>3 DEF ReactionScale
  <2> QED
    BY <1>1, <2>2, <2>3 DEF Enriched
<1> HIDE DEF log
<1>6. log = [k \in 1..Len(log) |-> k] /\ d.model_invocations = Len(log)
  BY <1>1, <1>3, <1>4
<1>7. Len(log) >= Enriched => work_steps <= d.tokens
  BY <1>3, <1>5
<1> QED
  BY <1>3, <1>6, <1>7 DEF log

LEMMA ScaleTypes ==
    ASSUME FrameInv, NEW event PROVE ReactionScale(event) \in Nat \ {0}
BY WorkTypes DEF ReactionScale

\* Bedrock: one hop of the chain.
LEMMA HopStep ==
    ASSUME FrameInv, P3Inv, Hop, UNCHANGED remote_ctx, Unmoved
    PROVE  FrameInv' /\ P3Inv' /\ pattern = "P3"
<1>1. pc = "P3.hop" /\ Serving /\ pattern = "P3" /\ Sane(ctx)
  BY P3Serves DEF Hop
<1> DEFINE event == Len(request_log) + 1
           scale == ReactionScale(event)
           c == Scaled(ctx, scale)
           Reply(x) == [x EXCEPT !.ctx = IF x.ok THEN Unscaled(@) ELSE @]
           log == Append(request_log, event)
<1>2. PICK r \in Then({Reply(x) : x \in invoke_agent(armed, c)},
                      LAMBDA d : publish_event(armed, d, "observability")) :
         \/ r.ok /\ event < EventChain /\ request_log' = log /\ Goto(r.ctx, "P3.hop")
         \/ r.ok /\ event = EventChain /\ request_log' = log /\ Return(r.ctx, "ok")
         \/ Raise(r) /\ UNCHANGED request_log
  BY DEF Hop
<1>3. PICK x \in invoke_agent(armed, c) :
        IF Reply(x).ok THEN r \in publish_event(armed, Reply(x).ctx, "observability")
        ELSE r = Reply(x)
  <2> HIDE DEF Reply
  <2> QED
    BY <1>2 DEF Then
<1>4. UNCHANGED <<subscriptions, deliveries>>
  BY DEF Hop
<1>5. scale \in Nat \ {0} /\ Sane(c) /\ Len(request_log) < EventChain
      /\ Len(request_log) \in Nat /\ request_log \in Seq(1..EventChain)
      /\ deliveries \in Seq(1..EventChain) /\ subscriptions \in {0, 1}
  BY <1>1, ScaleTypes, SaneScaled DEF P3Inv
<1>6. Responds(c, x, Hit, 1)
  BY <1>1, <1>3, <1>5, ModelCall
<1>7. Reply(x).ok = x.ok /\ Reply(x).ctx = (IF x.ok THEN Unscaled(x.ctx) ELSE x.ctx)
      /\ Reply(x).fault = x.fault /\ (~x.ok => Reply(x) = x)
  <2>1. x \in Response
    BY <1>6 DEF Responds, Answers
  <2>2. DOMAIN x = {"ctx", "ok", "fault"}
    BY <2>1 DEF Response
  <2>3. x = [ctx |-> x.ctx, ok |-> x.ok, fault |-> x.fault]
    BY <2>1 DEF Response
  <2> QED
    BY <2>1, <2>2, <2>3 DEF Response
<1> HIDE DEF Reply, c, scale, event, log
<1>8. CASE ~x.ok
  <2>1. r = x /\ ~r.ok /\ Raise(r) /\ UNCHANGED request_log
    BY <1>2, <1>3, <1>7, <1>8
  <2>2. ~BusOutage
    BY <1>1, <1>3, <1>5, <1>8, BusFaultSpares DEF BusOutage
  <2>3. Answers(c, r, Hit, 1)
    BY <1>6, <2>1 DEF Responds
  <2> QED
    BY <1>1, <1>4, <1>5, <2>1, <2>2, <2>3, P3Raises
<1>9. CASE x.ok
  <2> DEFINE d == Unscaled(x.ctx)
  <2>1. Reacted(ctx, scale, d)
    BY <1>1, <1>5, <1>6, <1>9, ScaledReply DEF c
  <2>2. r \in publish_event(armed, d, "observability") /\ Sane(d)
    BY <1>3, <1>7, <1>9, <2>1 DEF Reacted
  <2> HIDE DEF d
  <2>3. Answers(d, r, Hit, 0) /\ Sane(r.ctx)
    BY <1>1, <2>2, PublishCall
  <2>4. CASE Raise(r) /\ UNCHANGED request_log
    <3>1. ~r.ok
      BY <2>4 DEF Raise
    <3>2. BusOutage => Window[2] - sim_now(r.ctx) \in RoundDown \ {0}
      BY <1>1, <2>2, <3>1, EventLost
    <3> QED
      BY <1>1, <1>4, <1>5, <2>2, <2>3, <2>4, <3>2, P3Raises
  <2>5. r.ok => /\ r.ctx.model_invocations = ctx.model_invocations + 1
                /\ ctx.tokens + scale <= r.ctx.tokens
    <3>1. ctx.tokens \in Nat /\ d.tokens \in Nat /\ r.ctx.tokens \in Nat
          /\ d.model_invocations \in Nat
      BY <1>1, <2>2, <2>3 DEF Sane, Context
    <3> QED
      BY <1>5, <2>1, <2>3, <3>1 DEF Reacted, Answers, Invoked
  <2>6. r.ok => /\ log \in Seq(1..EventChain)
                /\ Len(log) = event
                /\ log = [k \in 1..Len(log) |-> k]
                /\ r.ctx.model_invocations = Len(log)
                /\ Len(log) >= Enriched => work_steps <= r.ctx.tokens
    BY <1>1, <1>5, <2>3, <2>5, EventHandled DEF event, log, scale, Sane
  <2>7. UNCHANGED <<pattern, BusOutage>>
    BY SameCell
  <2>8. EventChain \in Nat
    BY ChainAssumption
  <2>9. CASE r.ok /\ event < EventChain /\ request_log' = log /\ Goto(r.ctx, "P3.hop")
    <3>1. FrameInv' /\ ctx' = r.ctx /\ pc' = "P3.hop" /\ UNCHANGED <<item, platform, armed, result>>
      BY <1>1, <2>3, <2>9, GotoKeepsFrame DEF Labels
    <3>2. work_steps' = work_steps
      BY <3>1, SameWork
    <3> QED
      BY <1>1, <1>4, <1>5, <2>6, <2>7, <2>8, <2>9, <3>1, <3>2 DEF P3Inv
  <2>10. CASE r.ok /\ event = EventChain /\ request_log' = log /\ Return(r.ctx, "ok")
    <3>1. FrameInv' /\ ctx' = r.ctx /\ pc' = "returned" /\ result' = "ok"
          /\ UNCHANGED <<item, platform, armed>>
      BY <1>1, <2>3, <2>10, OkKeepsFrame
    <3>2. work_steps' = work_steps
      BY <3>1, SameWork
    <3>3. EventChain >= Enriched
      BY ChainAssumption DEF Enriched
    <3>4. ~Serving'
      BY <3>1 DEF Serving
    <3>5. log = FullChain /\ r.ctx.model_invocations = EventChain /\ work_steps <= r.ctx.tokens
      BY <2>6, <2>10, <3>3 DEF FullChain
    <3>6. log \in Seq(1..EventChain)
      BY <2>6, <2>10
    <3> QED
      BY <1>1, <1>4, <1>5, <2>7, <2>10, <3>1, <3>2, <3>4, <3>5, <3>6 DEF P3Inv, FullChain
  <2> QED
    BY <1>2, <2>4, <2>9, <2>10
<1> QED
  BY <1>1, <1>8, <1>9

LEMMA PublishedOne ==
    ASSUME NEW event \in 1..EventChain
    PROVE  /\ Published(event, <<>>, 1) = <<event>>
           /\ Published(event, Tail(<<event - 1>>), 1) = <<event>>
           /\ <<event>> \in Seq(1..EventChain)
<1>1. [k \in 1..1 |-> event] = <<event>>
  OBVIOUS
<1>2. <<event>> \in Seq(1..EventChain)
  OBVIOUS
<1>3. <<event>> \o <<>> = <<event>> /\ Tail(<<event - 1>>) = <<>>
  OBVIOUS
<1> QED
  BY <1>1, <1>2, <1>3 DEF Published

LEMMA PublishFirstStep ==
    ASSUME FrameInv, P3Inv, PublishFirst, UNCHANGED remote_ctx, Unmoved
    PROVE  FrameInv' /\ P3Inv' /\ pattern = "P3"
<1>1. pc = "P3.publish" /\ Serving /\ pattern = "P3" /\ Sane(ctx)
  BY P3Serves DEF PublishFirst
<1>2. PICK r \in publish_event(armed, ctx, "event_bus") :
         \/ /\ r.ok
            /\ deliveries' = Published(1, <<>>, ensure_subscribed)
            /\ Goto(r.ctx, "P3.deliver")
         \/ Raise(r) /\ UNCHANGED deliveries
  BY DEF PublishFirst
<1>3. Answers(ctx, r, Hit, 0) /\ Sane(r.ctx)
  BY <1>1, <1>2, PublishCall
<1>4. /\ UNCHANGED request_log /\ subscriptions' = 1 /\ ensure_subscribed = 1
      /\ request_log = <<>> /\ ctx.model_invocations = 0
      /\ deliveries \in Seq(1..EventChain) /\ request_log \in Seq(1..EventChain)
  BY <1>1 DEF PublishFirst, P3Inv, ensure_subscribed
<1>5. UNCHANGED <<pattern, BusOutage>> /\ EventChain \in Nat /\ 1 \in 1..EventChain
      /\ 0 < EventChain
  BY SameCell, ChainAssumption
<1>6. CASE Raise(r) /\ UNCHANGED deliveries
  <2>1. ~r.ok
    BY <1>6 DEF Raise
  <2>2. BusOutage => Window[2] - sim_now(r.ctx) \in RoundDown \ {0}
    BY <1>1, <2>1, EventLost
  <2>3. FrameInv' /\ ctx' = r.ctx /\ pc' = "returned" /\ result' \in {"error", "timeout"}
    BY <1>1, <1>3, <1>6, RaiseKeepsFrame
  <2>4. sim_now(ctx)' = sim_now(r.ctx) /\ ~Serving'
    BY <2>3, SameNow DEF Serving
  <2> QED
    BY <1>1, <1>4, <1>5, <1>6, <2>2, <2>3, <2>4 DEF P3Inv
<1>7. CASE /\ r.ok
           /\ deliveries' = Published(1, <<>>, ensure_subscribed)
           /\ Goto(r.ctx, "P3.deliver")
  <2>1. FrameInv' /\ ctx' = r.ctx /\ pc' = "P3.deliver" /\ UNCHANGED <<item, platform, armed, result>>
    BY <1>1, <1>3, <1>7, GotoKeepsFrame DEF Labels
  <2>2. deliveries' = <<1>> /\ deliveries' \in Seq(1..EventChain)
    BY <1>4, <1>5, <1>7, PublishedOne
  <2>3. r.ctx.model_invocations = 0
    BY <1>3, <1>4, <1>7 DEF Answers, Invoked
  <2>4. Len(<<>>) = 0 /\ <<>> = [k \in 1..0 |-> k]
    OBVIOUS
  <2>5. request_log' = <<>> /\ Len(request_log') = 0 /\ request_log' = [k \in 1..Len(request_log') |-> k]
    BY <1>4, <2>4
  <2> QED
    BY <1>1, <1>4, <1>5, <2>1, <2>2, <2>3, <2>5 DEF P3Inv, Enriched
<1> QED
  BY <1>1, <1>2, <1>6, <1>7

\* A handler's model step and actions, before it publishes the next event.
LEMMA HandlerAnswers ==
    ASSUME FrameInv, Serving, Sane(ctx), NEW event, NEW h \in Handle(event)
    PROVE  /\ h.ok => /\ Sane(h.ctx)
                      /\ h.ctx.model_invocations = ctx.model_invocations + 1
                      /\ ctx.tokens + ReactionScale(event) <= h.ctx.tokens
           /\ ~h.ok => \E c : Sane(c) /\ Answers(c, h, Hit, 1)
           /\ ~h.ok => ~BusOutage
<1> DEFINE scale == ReactionScale(event)
           c == Scaled(ctx, scale)
           Reply(x) == [x EXCEPT !.ctx = Unscaled(@)]
<1>1. scale \in Nat \ {0} /\ Sane(c)
  BY ScaleTypes, SaneScaled
<1>2. PICK x \in invoke_agent(armed, c) :
        IF Reply(x).ok
        THEN h \in (IF event = Enriched THEN run_agent_script(armed, Reply(x).ctx, EnrichActions)
                    ELSE {Ok(Reply(x).ctx)})
        ELSE h = Reply(x)
  <2>1. h \in Then({Reply(x) : x \in invoke_agent(armed, c)},
                   LAMBDA d : IF event = Enriched THEN run_agent_script(armed, d, EnrichActions)
                              ELSE {Ok(d)})
    BY DEF Handle
  <2> HIDE DEF Reply
  <2> QED
    BY <2>1 DEF Then
<1>3. Responds(c, x, Hit, 1) /\ x \in Response
  BY <1>1, <1>2, ModelCall DEF Responds, Answers
<1>4. Reply(x).ok = x.ok /\ Reply(x).ctx = Unscaled(x.ctx)
  BY <1>3 DEF Response
<1>5. CASE ~x.ok
  <2>1. Sane(Unscaled(ctx)) /\ Answers(Unscaled(ctx), Reply(x), Hit, 1)
    BY <1>1, <1>3, <1>5, ScaledFailure
  <2>2. ~BusOutage
    BY <1>1, <1>5, BusFaultSpares DEF BusOutage
  <2> HIDE DEF Reply, c, scale
  <2> QED
    BY <1>2, <1>4, <1>5, <2>1, <2>2
<1>6. CASE x.ok
  <2> DEFINE d == Unscaled(x.ctx)
  <2>1. Reacted(ctx, scale, d) /\ Sane(d)
    BY <1>1, <1>3, <1>6, ScaledReply DEF Reacted
  <2>2. h \in run_agent_script(armed, d, EnrichActions) \/ h = Ok(d)
    BY <1>2, <1>4, <1>6
  <2> HIDE DEF Reply, c, d
  <2>3. Len(EnrichActions) \in Nat
    BY WorkTypes DEF EnrichActions
  <2>4. Responds(d, h, Hit, 0) /\ Sane(h.ctx) /\ Answers(d, h, Hit, 0)
    <3>1. CASE h \in run_agent_script(armed, d, EnrichActions)
      BY <2>1, <2>3, <3>1, ScriptCall DEF Responds
    <3>2. CASE h = Ok(d)
      BY <2>1, <3>2, OkResponds DEF Responds, Sane, Ok
    <3> QED
      BY <2>2, <3>1, <3>2
  <2>5. ~h.ok => ~BusOutage
    <3>1. CASE h \in run_agent_script(armed, d, EnrichActions)
      BY <2>1, <2>3, <3>1, BusFaultSpares DEF BusOutage
    <3>2. CASE h = Ok(d)
      BY <3>2 DEF Ok
    <3> QED
      BY <2>2, <3>1, <3>2
  <2>6. h.ok => /\ h.ctx.model_invocations = ctx.model_invocations + 1
                /\ ctx.tokens + scale <= h.ctx.tokens
    <3>1. ctx.tokens \in Nat /\ d.tokens \in Nat /\ h.ctx.tokens \in Nat
          /\ d.model_invocations \in Nat /\ h.ctx.model_invocations \in Nat
      BY <2>1, <2>4 DEF Sane, Context
    <3> HIDE DEF scale
    <3> QED
      BY <1>1, <2>1, <2>4, <3>1 DEF Reacted, Answers, Invoked
  <2>7. ~h.ok => Answers(d, h, Hit, 1)
    BY <2>4 DEF Answers
  <2> QED
    BY <2>1, <2>4, <2>5, <2>6, <2>7
<1> QED
  BY <1>5, <1>6

\* Agentforce: one delivered event, with the publication of the next one.
LEMMA DeliverStep ==
    ASSUME FrameInv, P3Inv, Deliver, UNCHANGED remote_ctx, Unmoved
    PROVE  FrameInv' /\ P3Inv' /\ pattern = "P3"
<1>1. pc = "P3.deliver" /\ Serving /\ pattern = "P3" /\ Sane(ctx) /\ deliveries # <<>>
      /\ UNCHANGED subscriptions
  BY P3Serves DEF Deliver
<1> DEFINE event == Len(request_log) + 1
           log == Append(request_log, event)
<1>2. /\ subscriptions = 1 /\ deliveries = <<event>> /\ Len(request_log) < EventChain
      /\ request_log \in Seq(1..EventChain) /\ deliveries \in Seq(1..EventChain)
      /\ Len(request_log) \in Nat
  BY <1>1 DEF P3Inv
<1>3. /\ EventChain \in Nat /\ Head(deliveries) = event /\ Tail(deliveries) = <<>>
      /\ event \in 1..EventChain /\ <<>> \in Seq(1..EventChain)
  BY <1>2, ChainAssumption
<1>4. PICK h \in Handle(event) :
         \/ /\ h.ok
            /\ request_log' = log
            /\ event = EventChain
            /\ deliveries' = <<>>
            /\ Goto(h.ctx, "P3.deliver")
         \/ /\ h.ok
            /\ request_log' = log
            /\ event < EventChain
            /\ \E r \in publish_event(armed, h.ctx, "event_bus") :
                 \/ /\ r.ok
                    /\ deliveries' = Published(event + 1, Tail(deliveries), subscriptions)
                    /\ Goto(r.ctx, "P3.deliver")
                 \/ Raise(r) /\ deliveries' = <<>>
         \/ /\ Raise(h)
            /\ deliveries' = <<>>
            /\ UNCHANGED request_log
  <2> HIDE DEF event
  <2> QED
    BY <1>3 DEF Deliver
<1> HIDE DEF event, log
<1>5. UNCHANGED <<pattern, BusOutage>>
  BY SameCell
<1>6. h.ok => /\ log \in Seq(1..EventChain)
              /\ Len(log) = event
              /\ log = [k \in 1..Len(log) |-> k]
              /\ h.ctx.model_invocations = Len(log)
              /\ (Len(log) >= Enriched => work_steps <= h.ctx.tokens)
              /\ Sane(h.ctx)
  <2>1. h.ok => /\ Sane(h.ctx)
                /\ h.ctx.model_invocations = ctx.model_invocations + 1
                /\ ctx.tokens + ReactionScale(event) <= h.ctx.tokens
    BY <1>1, <1>4, HandlerAnswers
  <2> QED
    BY <1>1, <1>2, <2>1, EventHandled DEF event, log, Sane
<1>7. CASE Raise(h) /\ deliveries' = <<>> /\ UNCHANGED request_log
  <2>1. ~h.ok
    BY <1>7 DEF Raise
  <2>2. ~BusOutage /\ \E c : Sane(c) /\ Answers(c, h, Hit, 1)
    BY <1>1, <1>4, <2>1, HandlerAnswers
  <2> QED
    BY <1>1, <1>3, <1>7, <2>2, P3Raises
<1>8. CASE /\ h.ok
           /\ request_log' = log
           /\ event = EventChain
           /\ deliveries' = <<>>
           /\ Goto(h.ctx, "P3.deliver")
  <2>1. FrameInv' /\ ctx' = h.ctx /\ pc' = "P3.deliver" /\ UNCHANGED <<item, platform, armed, result>>
    BY <1>1, <1>6, <1>8, GotoKeepsFrame DEF Labels
  <2>2. work_steps' = work_steps
    BY <2>1, SameWork
  <2> QED
    BY <1>1, <1>2, <1>3, <1>5, <1>6, <1>8, <2>1, <2>2 DEF P3Inv
<1>9. CASE h.ok /\ request_log' = log /\ event < EventChain
  <2>1. PICK r \in publish_event(armed, h.ctx, "event_bus") :
                 \/ /\ r.ok
                    /\ deliveries' = Published(event + 1, Tail(deliveries), subscriptions)
                    /\ Goto(r.ctx, "P3.deliver")
                 \/ Raise(r) /\ deliveries' = <<>>
    <3>1. ~Raise(h)
      BY <1>9 DEF Raise
    <3>2. event # EventChain
      BY <1>3, <1>9
    <3> QED
      BY <1>4, <3>1, <3>2
  <2>2. Answers(h.ctx, r, Hit, 0) /\ Sane(r.ctx)
    BY <1>1, <1>6, <1>9, <2>1, PublishCall
  <2>3. CASE Raise(r) /\ deliveries' = <<>>
    <3>1. ~r.ok
      BY <2>3 DEF Raise
    <3>2. BusOutage => Window[2] - sim_now(r.ctx) \in RoundDown \ {0}
      BY <1>1, <1>6, <1>9, <2>1, <3>1, EventLost
    <3>3. FrameInv' /\ ctx' = r.ctx /\ pc' = "returned" /\ result' \in {"error", "timeout"}
      BY <1>1, <1>6, <1>9, <2>2, <2>3, RaiseKeepsFrame
    <3>4. sim_now(ctx)' = sim_now(r.ctx) /\ ~Serving'
      BY <3>3, SameNow DEF Serving
    <3> QED
      BY <1>1, <1>2, <1>3, <1>5, <1>6, <1>9, <2>3, <3>2, <3>3, <3>4 DEF P3Inv
  <2>4. CASE /\ r.ok
             /\ deliveries' = Published(event + 1, Tail(deliveries), subscriptions)
             /\ Goto(r.ctx, "P3.deliver")
    <3>1. FrameInv' /\ ctx' = r.ctx /\ pc' = "P3.deliver"
          /\ UNCHANGED <<item, platform, armed, result>>
      BY <1>1, <2>2, <2>4, GotoKeepsFrame DEF Labels
    <3>2. work_steps' = work_steps
      BY <3>1, SameWork
    <3>3. deliveries' = <<event + 1>> /\ deliveries' \in Seq(1..EventChain)
      <4>1. event + 1 \in 1..EventChain
        BY <1>3, <1>9
      <4>2. Tail(deliveries) = <<>> /\ subscriptions = 1
        BY <1>2, <1>3
      <4> QED
        BY <2>4, <4>1, <4>2, PublishedOne
    <3>4. r.ctx.model_invocations = Len(log) /\ (Len(log) >= Enriched => work_steps <= r.ctx.tokens)
      <4>1. work_steps \in Nat /\ h.ctx.tokens \in Nat /\ r.ctx.tokens \in Nat
            /\ h.ctx.model_invocations \in Nat
        BY <1>6, <1>9, <2>2, WorkTypes DEF Sane, Context
      <4> QED
        BY <1>6, <1>9, <2>2, <2>4, <4>1 DEF Answers, Invoked
    <3>5. Len(log) < EventChain /\ Len(log) + 1 = event + 1
      BY <1>3, <1>6, <1>9
    <3>6. log \in Seq(1..EventChain) /\ log = [k \in 1..Len(log) |-> k]
      BY <1>6, <1>9
    <3> QED
      BY <1>1, <1>2, <1>3, <1>5, <1>9, <3>1, <3>2, <3>3, <3>4, <3>5, <3>6 DEF P3Inv
  <2> QED
    BY <2>1, <2>3, <2>4
<1> QED
  BY <1>1, <1>4, <1>7, <1>8, <1>9

LEMMA ChainReturnsStep ==
    ASSUME FrameInv, P3Inv, ChainReturns, UNCHANGED remote_ctx, Unmoved
    PROVE  FrameInv' /\ P3Inv' /\ pattern = "P3"
<1>1. pc = "P3.deliver" /\ Serving /\ pattern = "P3" /\ Sane(ctx) /\ deliveries = <<>>
      /\ UNCHANGED <<subscriptions, request_log, deliveries>>
  BY P3Serves DEF ChainReturns, choreography
<1>2. EventChain \in Nat /\ EventChain >= Enriched
  BY ChainAssumption DEF Enriched
<1>3. /\ Len(request_log) = EventChain /\ request_log = FullChain
      /\ ctx.model_invocations = EventChain /\ work_steps <= ctx.tokens
      /\ subscriptions \in {0, 1}
      /\ request_log \in Seq(1..EventChain) /\ deliveries \in Seq(1..EventChain)
  <2>1. /\ Len(request_log) <= EventChain /\ Len(request_log) \in Nat
        /\ request_log = [k \in 1..Len(request_log) |-> k]
        /\ ctx.model_invocations = Len(request_log)
        /\ (Len(request_log) >= Enriched => work_steps <= ctx.tokens)
        /\ deliveries = IF Len(request_log) < EventChain
                        THEN <<Len(request_log) + 1>> ELSE <<>>
        /\ subscriptions \in {0, 1}
        /\ request_log \in Seq(1..EventChain) /\ deliveries \in Seq(1..EventChain)
    BY <1>1 DEF P3Inv
  <2>2. ~(Len(request_log) < EventChain)
    <3>1. <<Len(request_log) + 1>> # <<>>
      OBVIOUS
    <3> QED
      BY <1>1, <2>1, <3>1
  <2>3. Len(request_log) = EventChain
    <3>1. PICK n \in Nat : n = Len(request_log) /\ n <= EventChain /\ ~(n < EventChain)
      BY <2>1, <2>2, Zenon
    <3> QED
      BY <1>2, <3>1
  <2>4. request_log = FullChain
    <3>1. PICK n \in Nat : n = Len(request_log) /\ request_log = [k \in 1..n |-> k]
      BY <2>1, Zenon
    <3>2. n = EventChain
      BY <2>3, <3>1
    <3> QED
      BY <3>1, <3>2, Zenon DEF FullChain
  <2> QED
    BY <1>2, <2>1, <2>3, <2>4
<1>4. Return(ctx, "ok")
  BY <1>3 DEF ChainReturns
<1>5. /\ FrameInv' /\ ctx' = ctx /\ pc' = "returned" /\ result' = "ok"
      /\ UNCHANGED <<item, platform, armed>>
  BY <1>1, <1>4, OkKeepsFrame
<1>6. UNCHANGED <<pattern, work_steps>> /\ ~Serving'
  BY <1>5, SameCell, SameWork DEF Serving
<1> QED
  BY <1>1, <1>3, <1>5, <1>6 DEF P3Inv, FullChain

LEMMA P3Step ==
    ASSUME CampaignInv, P3Next, Unmoved,
           UNCHANGED <<fanout, stage, blackboard, gateway, hitl, remote_ctx>>
    PROVE  CampaignInv'
<1>1. FrameInv' /\ P3Inv' /\ pattern = "P3"
  BY HopStep, PublishFirstStep, DeliverStep, ChainReturnsStep DEF CampaignInv, P3Next
<1>2. UNCHANGED pattern
  BY SameCell
<1> QED
  BY <1>1, <1>2, RecordsStay, OthersStay DEF CampaignInv

(***************************************************************************)
(* P4: the blackboard                                                      *)
(***************************************************************************)
LEMMA P4Serves ==
    ASSUME FrameInv, pc \in {"P4.create", "P4.read", "P4.contribute", "P4.write",
                             "P4.store", "P4.send"}
    PROVE  Serving /\ pattern = "P4" /\ Sane(ctx)
<1>1. Serving
  BY DEF Serving
<1>2. Labels(pattern, pc)
  BY <1>1 DEF FrameInv
<1> QED
  BY <1>1, <1>2, ServingIsSane DEF Labels

LEMMA ContentionFields ==
    ASSUME NEW c, Sane(c)
    PROVE  LET d == contention_delay(c)
           IN  /\ Sane(d) /\ d.faults_seen = c.faults_seen /\ d.tokens = c.tokens
               /\ d.model_invocations = c.model_invocations
<1> DEFINE w == Max({1, c.concurrent_in_flight})
           dt == contention_per_writer_s * (w - 1)
<1>1. c \in Context /\ c.concurrent_in_flight \in Nat
      /\ c.elapsed_s \in Nat /\ c.nonblocking_s \in Nat
  BY DEF Sane, Context
<1>2. w \in Nat /\ w - 1 \in Nat
  BY <1>1, MaxWithOne
<1>3. dt \in Nat
  <2>1. contention_per_writer_s \in Nat
    BY BlackboardAssumption
  <2> HIDE DEF w
  <2> QED
    BY <1>2, <2>1
<1>4. contention_delay(c) = add_delay(c, dt, TRUE)
  BY DEF contention_delay
<1> HIDE DEF dt
<1> DEFINE d == add_delay(c, dt, TRUE)
<1>5. /\ d \in Context /\ d.elapsed_s = c.elapsed_s + dt /\ d.nonblocking_s = c.nonblocking_s + 0
      /\ d.degraded = c.degraded /\ d.default_unit = c.default_unit
      /\ d.faults_seen = c.faults_seen /\ d.tokens = c.tokens
      /\ d.model_invocations = c.model_invocations
  BY <1>1, <1>3, DelayTypes, Delayed
<1> HIDE DEF d
<1>6. Sane(d)
  BY <1>1, <1>3, <1>5 DEF Sane
<1> QED
  BY <1>4, <1>5, <1>6 DEF d

\* A request of P4 that fails: only the frame is left to keep.
LEMMA P4Returns ==
    ASSUME P4Inv, FrameInv', pc' = "returned", result' # "ok", pattern' = pattern,
           board' \in Seq(1..n_specialists), boardRead' \in Seq(1..n_specialists),
           turn' \in 0..n_specialists
    PROVE  P4Inv'
<1>1. ~Serving'
  BY DEF Serving
<1> QED
  BY <1>1 DEF P4Inv, Spared

LEMMA CreateBoardStep ==
    ASSUME FrameInv, P4Inv, CreateBoard, UNCHANGED remote_ctx, Unmoved
    PROVE  FrameInv' /\ P4Inv' /\ pattern = "P4"
<1>1. pc = "P4.create" /\ Serving /\ pattern = "P4" /\ Sane(ctx)
      /\ UNCHANGED <<boardRead, turn>>
  BY P4Serves DEF CreateBoard
<1>2. PICK r \in memory_op(armed, ctx) :
         \/ r.ok /\ Goto(r.ctx, "P4.read") /\ board' = <<>>
         \/ Raise(r) /\ UNCHANGED board
  BY DEF CreateBoard
<1>3. Responds(ctx, r, Hit, 0) /\ Answers(ctx, r, Hit, 0) /\ Sane(r.ctx)
  BY <1>1, <1>2, StoreCall DEF Responds
<1>4. /\ turn = 0 /\ Clean /\ board \in Seq(1..n_specialists)
      /\ boardRead \in Seq(1..n_specialists) /\ turn \in 0..n_specialists
      /\ turn * PerTurn <= ctx.tokens
  BY <1>1 DEF P4Inv
<1>5. UNCHANGED <<pattern, Fatal>> /\ PerTurn \in Nat
  BY SameCell, WorkTypes
<1>6. CASE Raise(r) /\ UNCHANGED board
  <2>1. FrameInv' /\ pc' = "returned" /\ result' \in {"error", "timeout"}
    BY <1>1, <1>3, <1>6, RaiseKeepsFrame
  <2> QED
    BY <1>1, <1>4, <1>5, <1>6, <2>1, P4Returns
<1>7. CASE r.ok /\ Goto(r.ctx, "P4.read") /\ board' = <<>>
  <2>1. FrameInv' /\ ctx' = r.ctx /\ pc' = "P4.read" /\ UNCHANGED <<item, platform, armed, result>>
    BY <1>1, <1>3, <1>7, GotoKeepsFrame DEF Labels
  <2>2. PerTurn' = PerTurn
    BY <2>1, SameWork
  <2>3. Fatal => r.ctx.faults_seen = {}
    BY <1>1, <1>3, <1>4, <1>7, StaysClean DEF Clean, Sane
  <2>4. turn' * PerTurn' <= r.ctx.tokens
    BY <1>1, <1>3, <1>4, <1>5, <1>7, <2>2 DEF Answers, Invoked, Sane, Context
  <2>5. <<>> \in Seq(1..n_specialists) /\ <<>> = [k \in 1..0 |-> k]
    OBVIOUS
  <2> QED
    BY <1>1, <1>4, <1>5, <1>7, <2>1, <2>3, <2>4, <2>5 DEF P4Inv, Clean
<1> QED
  BY <1>1, <1>2, <1>6, <1>7

LEMMA ReadBoardStep ==
    ASSUME FrameInv, P4Inv, ReadBoard, UNCHANGED remote_ctx, Unmoved
    PROVE  FrameInv' /\ P4Inv' /\ pattern = "P4"
<1>1. pc = "P4.read" /\ Serving /\ pattern = "P4" /\ Sane(ctx) /\ UNCHANGED <<board, turn>>
  BY P4Serves DEF ReadBoard
<1>2. PICK r \in memory_op(armed, ctx) :
         \/ /\ r.ok
            /\ turn < n_specialists
            /\ boardRead' = board
            /\ Goto(r.ctx, "P4.contribute")
         \/ /\ r.ok
            /\ turn = n_specialists
            /\ boardRead' = board
            /\ Return(r.ctx, IF Len(board) = n_specialists THEN "ok" ELSE "error")
         \/ Raise(r) /\ UNCHANGED boardRead
  BY DEF ReadBoard
<1>3. Responds(ctx, r, Hit, 0) /\ Answers(ctx, r, Hit, 0) /\ Sane(r.ctx)
  BY <1>1, <1>2, StoreCall DEF Responds
<1>4. /\ Clean /\ board \in Seq(1..n_specialists)
      /\ boardRead \in Seq(1..n_specialists) /\ turn \in 0..n_specialists
      /\ turn * PerTurn <= ctx.tokens /\ board = [k \in 1..turn |-> k]
  BY <1>1 DEF P4Inv
<1>5. UNCHANGED <<pattern, Fatal>> /\ PerTurn \in Nat /\ n_specialists \in Nat
  BY SameCell, WorkTypes, BlackboardAssumption
<1>6. r.ok => /\ turn * PerTurn <= r.ctx.tokens
              /\ Fatal => r.ctx.faults_seen = {}
  <2>1. r.ok => (Fatal => r.ctx.faults_seen = {})
    BY <1>1, <1>3, <1>4, StaysClean DEF Clean, Sane
  <2>2. turn * PerTurn \in Nat
    BY <1>4, <1>5
  <2>3. r.ok => turn * PerTurn <= r.ctx.tokens
    <3>1. ctx.tokens \in Nat /\ r.ctx.tokens \in Nat
      BY <1>1, <1>3 DEF Sane, Context
    <3>2. r.ok => ctx.tokens <= r.ctx.tokens
      BY <1>3 DEF Answers, Invoked
    <3> DEFINE w == turn * PerTurn
    <3>3. w \in Nat /\ w <= ctx.tokens
      BY <1>4, <2>2
    <3> HIDE DEF w
    <3>4. r.ok => w <= r.ctx.tokens
      BY <3>1, <3>2, <3>3
    <3> QED
      BY <3>4 DEF w
  <2> QED
    BY <2>1, <2>3
<1>7. CASE Raise(r) /\ UNCHANGED boardRead
  <2>1. FrameInv' /\ pc' = "returned" /\ result' \in {"error", "timeout"}
    BY <1>1, <1>3, <1>7, RaiseKeepsFrame
  <2> QED
    BY <1>1, <1>4, <1>5, <1>7, <2>1, P4Returns
<1>8. CASE r.ok /\ turn < n_specialists /\ boardRead' = board /\ Goto(r.ctx, "P4.contribute")
  <2>1. FrameInv' /\ ctx' = r.ctx /\ pc' = "P4.contribute"
        /\ UNCHANGED <<item, platform, armed, result>>
    BY <1>1, <1>3, <1>8, GotoKeepsFrame DEF Labels
  <2>2. PerTurn' = PerTurn
    BY <2>1, SameWork
  <2>3. turn * PerTurn <= r.ctx.tokens /\ (Fatal => r.ctx.faults_seen = {})
    BY <1>6, <1>8
  <2>4. UNCHANGED <<board, turn>> /\ boardRead' = board
        /\ turn * PerTurn' <= r.ctx.tokens /\ (Fatal' => r.ctx.faults_seen = {})
    BY <1>1, <1>5, <1>8, <2>2, <2>3
  <2>5. turn < n_specialists
    BY <1>8
  <2> QED
    BY <1>1, <1>4, <1>5, <2>1, <2>4, <2>5 DEF P4Inv, Clean
<1>9. CASE /\ r.ok /\ turn = n_specialists /\ boardRead' = board
           /\ Return(r.ctx, IF Len(board) = n_specialists THEN "ok" ELSE "error")
  <2>1. Len(board) = n_specialists /\ ToSet(board) = 1..n_specialists
    <3>1. board = [k \in 1..n_specialists |-> k]
      BY <1>4, <1>9
    <3> QED
      BY <1>5, <3>1, CountUp DEF ToSet
  <2>2. /\ FrameInv' /\ ctx' = r.ctx /\ pc' = "returned" /\ result' = "ok"
        /\ UNCHANGED <<item, platform, armed>>
    BY <1>1, <1>3, <1>9, <2>1, OkKeepsFrame
  <2>3. PerTurn' = PerTurn /\ ~Serving'
    BY <2>2, SameWork DEF Serving
  <2> QED
    BY <1>1, <1>4, <1>5, <1>6, <1>9, <2>1, <2>2, <2>3 DEF P4Inv, Clean, Spared
<1> QED
  BY <1>1, <1>2, <1>7, <1>8, <1>9

\* A store call that succeeds leaves the request clean and its tokens alone.
LEMMA StoreReply ==
    ASSUME NEW d, Sane(d), NEW r, Responds(d, r, Hit, 0), r.ok,
           Fatal => d.faults_seen = {}
    PROVE  /\ Fatal => r.ctx.faults_seen = {}
           /\ \A m \in Nat : m <= d.tokens => m <= r.ctx.tokens
<1>1. Fatal => r.ctx.faults_seen = {}
  BY StaysClean DEF Sane
<1>2. Answers(d, r, Hit, 0) /\ Sane(r.ctx)
  BY SaneAfter DEF Responds
<1>3. d.tokens \in Nat /\ r.ctx.tokens \in Nat /\ d.tokens <= r.ctx.tokens
  BY <1>2 DEF Answers, Invoked, Sane, Context
<1> QED
  BY <1>1, <1>3

LEMMA ContributeStep ==
    ASSUME FrameInv, P4Inv, Contribute, UNCHANGED remote_ctx, Unmoved
    PROVE  FrameInv' /\ P4Inv' /\ pattern = "P4"
<1>1. pc = "P4.contribute" /\ Serving /\ pattern = "P4" /\ Sane(ctx) /\ UNCHANGED <<board, turn>>
  BY P4Serves DEF Contribute
<1> DEFINE c == Scaled(ctx, share)
           d(r) == contention_delay(Unscaled(r.ctx))
<1>2. PICK r \in invoke_agent(armed, c) :
         \/ /\ r.ok
            /\ boardRead' = Append(boardRead, turn + 1)
            /\ Goto(d(r), "P4.write")
         \/ Raise(r) /\ UNCHANGED boardRead
  BY DEF Contribute
<1>3. share \in Nat \ {0} /\ PerTurn = share /\ n_specialists \in Nat
  BY WorkTypes, BlackboardAssumption
<1>4. Sane(c) /\ Responds(c, r, Hit, 1) /\ Answers(c, r, Hit, 1)
  BY <1>1, <1>2, <1>3, SaneScaled, ModelCall DEF Responds
<1>5. /\ Clean /\ board \in Seq(1..n_specialists) /\ boardRead = board
      /\ turn \in 0..n_specialists /\ turn < n_specialists
      /\ turn * share <= ctx.tokens /\ board = [k \in 1..turn |-> k]
  BY <1>1, <1>3 DEF P4Inv
<1>6. UNCHANGED <<pattern, Fatal>>
  BY SameCell
<1>7. CASE Raise(r) /\ UNCHANGED boardRead
  <2>1. FrameInv' /\ pc' = "returned" /\ result' \in {"error", "timeout"}
    BY <1>1, <1>4, <1>7, RaiseKeepsFrame
  <2> QED
    BY <1>1, <1>5, <1>6, <1>7, <2>1, P4Returns
<1>8. CASE r.ok /\ boardRead' = Append(boardRead, turn + 1) /\ Goto(d(r), "P4.write")
  <2>1. Reacted(ctx, share, Unscaled(r.ctx))
    BY <1>1, <1>3, <1>4, <1>8, ScaledReply
  <2>2. Sane(d(r)) /\ d(r).faults_seen = Unscaled(r.ctx).faults_seen
        /\ d(r).tokens = Unscaled(r.ctx).tokens
    BY <2>1, ContentionFields DEF Reacted
  <2> HIDE DEF d, c
  <2>3. FrameInv' /\ ctx' = d(r) /\ pc' = "P4.write" /\ UNCHANGED <<item, platform, armed, result>>
    BY <1>1, <1>8, <2>2, GotoKeepsFrame DEF Labels
  <2>4. PerTurn' = share
    BY <1>3, <2>3, SameWork
  <2>5. turn * share <= d(r).tokens /\ (turn + 1) * share <= d(r).tokens
    <3>1. ctx.tokens \in Nat /\ d(r).tokens \in Nat /\ ctx.tokens + share <= d(r).tokens
      BY <1>1, <2>1, <2>2 DEF Sane, Context, Reacted
    <3> DEFINE w == turn * share
    <3>2. w \in Nat /\ (turn + 1) * share = w + share /\ w <= ctx.tokens
      BY <1>3, <1>5
    <3> HIDE DEF w
    <3>3. w <= d(r).tokens /\ w + share <= d(r).tokens
      BY <1>3, <3>1, <3>2
    <3> QED
      BY <3>2, <3>3 DEF w
  <2>6. Fatal => d(r).faults_seen = {}
    BY <1>5, <2>1, <2>2 DEF Reacted, Clean
  <2>7. boardRead' = [k \in 1..(turn + 1) |-> k] /\ boardRead' \in Seq(1..n_specialists)
    <3>1. Append([k \in 1..turn |-> k], turn + 1) = [k \in 1..(turn + 1) |-> k]
      BY <1>5, CountUp
    <3>2. turn + 1 \in 1..n_specialists
      BY <1>3, <1>5
    <3>3. Append(boardRead, turn + 1) \in Seq(1..n_specialists)
      BY <1>5, <3>2
    <3> QED
      BY <1>5, <1>8, <3>1, <3>3
  <2>8. UNCHANGED <<board, turn>> /\ turn < n_specialists /\ turn \in 0..n_specialists
        /\ board \in Seq(1..n_specialists) /\ board = [k \in 1..turn |-> k]
    BY <1>1, <1>5
  <2> QED
    BY <1>1, <1>6, <2>3, <2>4, <2>5, <2>6, <2>7, <2>8 DEF P4Inv, Clean
<1> QED
  BY <1>1, <1>2, <1>7, <1>8

LEMMA WriteBoardStep ==
    ASSUME FrameInv, P4Inv, WriteBoard, UNCHANGED remote_ctx, Unmoved
    PROVE  FrameInv' /\ P4Inv' /\ pattern = "P4"
<1>1. pc = "P4.write" /\ Serving /\ pattern = "P4" /\ Sane(ctx) /\ UNCHANGED boardRead
  BY P4Serves DEF WriteBoard
<1>2. PICK r \in memory_op(armed, ctx) :
         \/ r.ok /\ board' = boardRead /\ turn' = turn + 1 /\ Goto(r.ctx, "P4.read")
         \/ Raise(r) /\ UNCHANGED <<board, turn>>
  BY DEF WriteBoard, Written
<1>3. Responds(ctx, r, Hit, 0) /\ Answers(ctx, r, Hit, 0) /\ Sane(r.ctx)
  BY <1>1, <1>2, StoreCall DEF Responds
<1>4. /\ Clean /\ board \in Seq(1..n_specialists) /\ boardRead \in Seq(1..n_specialists)
      /\ turn \in 0..n_specialists /\ turn < n_specialists
      /\ (turn + 1) * PerTurn <= ctx.tokens /\ boardRead = [k \in 1..(turn + 1) |-> k]
  BY <1>1 DEF P4Inv
<1>5. UNCHANGED <<pattern, Fatal>> /\ PerTurn \in Nat /\ n_specialists \in Nat
  BY SameCell, WorkTypes, BlackboardAssumption
<1>6. CASE Raise(r) /\ UNCHANGED <<board, turn>>
  <2>1. FrameInv' /\ pc' = "returned" /\ result' \in {"error", "timeout"}
    BY <1>1, <1>3, <1>6, RaiseKeepsFrame
  <2> QED
    BY <1>1, <1>4, <1>5, <1>6, <2>1, P4Returns
<1>7. CASE r.ok /\ board' = boardRead /\ turn' = turn + 1 /\ Goto(r.ctx, "P4.read")
  <2>1. FrameInv' /\ ctx' = r.ctx /\ pc' = "P4.read" /\ UNCHANGED <<item, platform, armed, result>>
    BY <1>1, <1>3, <1>7, GotoKeepsFrame DEF Labels
  <2>2. PerTurn' = PerTurn
    BY <2>1, SameWork
  <2>3. (turn + 1) * PerTurn \in Nat /\ turn + 1 \in 0..n_specialists
    BY <1>4, <1>5
  <2>4. (turn + 1) * PerTurn <= r.ctx.tokens /\ (Fatal => r.ctx.faults_seen = {})
    BY <1>1, <1>3, <1>4, <1>7, <2>3, StoreReply DEF Clean
  <2>5. turn' * PerTurn' <= r.ctx.tokens /\ board' = [k \in 1..turn' |-> k]
        /\ turn' \in 0..n_specialists /\ board' \in Seq(1..n_specialists)
    BY <1>4, <1>7, <2>2, <2>3, <2>4
  <2> QED
    BY <1>1, <1>4, <1>5, <2>1, <2>4, <2>5 DEF P4Inv, Clean
<1> QED
  BY <1>1, <1>2, <1>6, <1>7

LEMMA StoreTurnStep ==
    ASSUME FrameInv, P4Inv, StoreTurn, UNCHANGED remote_ctx, Unmoved
    PROVE  FrameInv' /\ P4Inv' /\ pattern = "P4"
<1>1. pc = "P4.store" /\ Serving /\ pattern = "P4" /\ Sane(ctx)
      /\ UNCHANGED <<board, boardRead, turn>>
  BY P4Serves DEF StoreTurn, blackboard
<1> DEFINE d == contention_delay(ctx)
<1>2. PICK r \in memory_op(armed, d) :
         \/ r.ok  /\ Goto(r.ctx, "P4.send")
         \/ ~r.ok /\ Return(r.ctx, "error")
  BY DEF StoreTurn
<1>3. Sane(d) /\ d.faults_seen = ctx.faults_seen /\ d.tokens = ctx.tokens
  BY <1>1, ContentionFields
<1> HIDE DEF d
<1>4. Responds(d, r, Hit, 0) /\ Answers(d, r, Hit, 0) /\ Sane(r.ctx)
  BY <1>1, <1>2, <1>3, StoreCall DEF Responds
<1>5. /\ Clean /\ board \in Seq(1..n_specialists) /\ boardRead \in Seq(1..n_specialists)
      /\ turn \in 0..n_specialists /\ turn < n_specialists
      /\ turn * PerTurn <= ctx.tokens
      /\ Len(board) = turn * PerTurn /\ ToSet(board) = 1..turn
  BY <1>1 DEF P4Inv
<1>6. UNCHANGED <<pattern, Fatal>> /\ PerTurn \in Nat /\ n_specialists \in Nat
  BY SameCell, WorkTypes, BlackboardAssumption
<1>7. CASE ~r.ok /\ Return(r.ctx, "error")
  <2>1. Fatal /\ r.ctx.faults_seen # {}
    BY <1>4, <1>7, FailureIsHit
  <2>2. PICK e \in Context : e = r.ctx
    BY <1>4 DEF Sane
  <2>3. /\ e.default_unit = NoUnit /\ e.faults_seen \subseteq Hit
        /\ e.nonblocking_s <= e.elapsed_s
    BY <1>4, <2>2 DEF Sane
  <2>4. e.degraded \/ "error" # "ok" =>
          Fatal /\ (e.faults_seen # {} \/ (pattern = "P7" /\ remote_ctx'.faults_seen # {}))
    BY <2>1, <2>2
  <2>5. Return(e, "error") /\ "error" \in {"ok", "error", "timeout"}
        /\ remote_ctx' \in Context /\ remote_ctx'.faults_seen \subseteq Hit
    BY <1>7, <2>2 DEF FrameInv
  <2>6. FrameInv' /\ pc' = "returned" /\ result' = "error"
    BY <1>1, <2>3, <2>4, <2>5, ReturnKeepsFrame, Zenon
  <2> QED
    BY <1>1, <1>5, <1>6, <2>6, P4Returns
<1>8. CASE r.ok /\ Goto(r.ctx, "P4.send")
  <2>1. FrameInv' /\ ctx' = r.ctx /\ pc' = "P4.send" /\ UNCHANGED <<item, platform, armed, result>>
    BY <1>1, <1>4, <1>8, GotoKeepsFrame DEF Labels
  <2>2. PerTurn' = PerTurn
    BY <2>1, SameWork
  <2>3. turn * PerTurn \in Nat
    BY <1>5, <1>6
  <2>4. turn * PerTurn <= r.ctx.tokens /\ (Fatal => r.ctx.faults_seen = {})
    BY <1>3, <1>4, <1>5, <1>8, <2>3, StoreReply DEF Clean
  <2> QED
    BY <1>1, <1>5, <1>6, <2>1, <2>2, <2>4 DEF P4Inv, Clean
<1> QED
  BY <1>1, <1>2, <1>7, <1>8

\* The board after one more specialist's turn.
LEMMA BoardGrows ==
    ASSUME NEW n \in Nat, NEW k \in Nat, NEW t \in 1..n,
           NEW s \in Seq(1..n), ToSet(s) = 1..(t - 1), k > 0,
           NEW u \in Seq(1..n), Len(u) = k, \A j \in 1..k : u[j] = t
    PROVE  LET b == s \o u
           IN  b \in Seq(1..n) /\ Len(b) = Len(s) + k /\ ToSet(b) = 1..t
<1> DEFINE b == s \o u
<1>1. u \in Seq(1..n) /\ Len(u) = k /\ \A j \in 1..k : u[j] = t
  OBVIOUS
<1>2. Len(s) \in Nat /\ ToSet(s) = {s[j] : j \in 1..Len(s)}
  BY DEF ToSet
<1>3. /\ b \in Seq(1..n) /\ Len(b) = Len(s) + k
      /\ \A j \in 1..Len(s) : b[j] = s[j]
      /\ \A j \in (Len(s) + 1)..(Len(s) + k) : b[j] = u[j - Len(s)]
  <2>1. b \in Seq(1..n) /\ Len(b) = Len(s) + k
    BY <1>1, <1>2
  <2>2. \A j \in 1..(Len(s) + k) : b[j] = IF j <= Len(s) THEN s[j] ELSE u[j - Len(s)]
    BY <1>1, <1>2
  <2>3. /\ \A j \in 1..Len(s) : j \in 1..(Len(s) + k) /\ j <= Len(s)
        /\ \A j \in (Len(s) + 1)..(Len(s) + k) : j \in 1..(Len(s) + k) /\ ~(j <= Len(s))
    BY <1>2
  <2> HIDE DEF b
  <2> QED
    BY <2>1, <2>2, <2>3
<1> HIDE DEF b
<1>4. ToSet(b) = {b[j] : j \in 1..Len(b)}
  <2>1. b \in Seq(1..n)
    BY <1>3
  <2> QED
    BY <2>1 DEF ToSet
<1>5. ASSUME NEW x \in ToSet(b) PROVE x \in 1..t
  <2>1. PICK j \in 1..Len(b) : x = b[j]
    BY <1>4
  <2>2. CASE j \in 1..Len(s)
    <3>1. x \in ToSet(s)
      BY <1>2, <1>3, <2>1, <2>2
    <3> QED
      BY <3>1
  <2>3. CASE j \notin 1..Len(s)
    <3>1. j \in (Len(s) + 1)..(Len(s) + k) /\ j - Len(s) \in 1..k
      BY <1>2, <1>3, <2>1, <2>3
    <3> QED
      BY <1>1, <1>3, <2>1, <3>1
  <2> QED
    BY <2>2, <2>3
<1>6. ASSUME NEW x \in 1..t PROVE x \in ToSet(b)
  <2>1. CASE x \in 1..(t - 1)
    <3>1. PICK j \in 1..Len(s) : x = s[j]
      BY <1>2, <2>1
    <3>2. j \in 1..Len(b) /\ b[j] = x
      BY <1>2, <1>3, <3>1
    <3> QED
      BY <1>4, <3>2
  <2>2. CASE x = t
    <3>1. Len(s) + 1 \in 1..Len(b) /\ Len(s) + 1 \in (Len(s) + 1)..(Len(s) + k)
          /\ (Len(s) + 1) - Len(s) = 1 /\ 1 \in 1..k
      BY <1>2, <1>3
    <3>2. b[Len(s) + 1] = u[1] /\ u[1] = t
      BY <1>1, <1>3, <3>1
    <3> QED
      BY <1>4, <2>2, <3>1, <3>2
  <2> QED
    BY <2>1, <2>2
<1> QED
  BY <1>3, <1>5, <1>6 DEF b

LEMMA SendTurnStep ==
    ASSUME FrameInv, P4Inv, SendTurn, UNCHANGED remote_ctx, Unmoved
    PROVE  FrameInv' /\ P4Inv' /\ pattern = "P4"
<1>1. pc = "P4.send" /\ Serving /\ pattern = "P4" /\ Sane(ctx) /\ UNCHANGED boardRead
  BY P4Serves DEF SendTurn
<1> DEFINE c == Scaled(ctx, share)
           b == board \o [j \in 1..Len(Contributions) |-> turn + 1]
           d(r) == Unscaled(r.ctx)
<1>2. PICK r \in send(armed, c, Contributions) :
         \/ /\ r.ok
            /\ board' = b
            /\ turn' = turn + 1
            /\ IF turn + 1 < n_specialists
               THEN Goto(d(r), "P4.store")
               ELSE Return(d(r), IF Len(board') = n_specialists * Max({1, share})
                                 THEN "ok" ELSE "error")
         \/ Raise(r) /\ UNCHANGED <<board, turn>>
  BY DEF SendTurn
<1>3. /\ share \in Nat \ {0} /\ PerTurn = share /\ n_specialists \in Nat
      /\ Max({1, share}) = share
  BY WorkTypes, BlackboardAssumption DEF PerTurn
<1>4. Len(Contributions) = share
  BY <1>3 DEF Contributions
<1>5. Sane(c) /\ Responds(c, r, Hit, 1) /\ Answers(c, r, Hit, 1)
  <2>1. Sane(c) /\ Len(Contributions) \in Nat
    BY <1>1, <1>3, <1>4, SaneScaled
  <2> QED
    BY <1>1, <1>2, <2>1, SendCall DEF Responds
<1>6. /\ Clean /\ board \in Seq(1..n_specialists) /\ boardRead \in Seq(1..n_specialists)
      /\ turn \in 0..n_specialists /\ turn < n_specialists
      /\ turn * share <= ctx.tokens
      /\ Len(board) = turn * share /\ ToSet(board) = 1..turn
  BY <1>1, <1>3 DEF P4Inv
<1>7. UNCHANGED <<pattern, Fatal>>
  BY SameCell
<1>8. CASE Raise(r) /\ UNCHANGED <<board, turn>>
  <2>1. FrameInv' /\ pc' = "returned" /\ result' \in {"error", "timeout"}
    BY <1>1, <1>5, <1>8, RaiseKeepsFrame
  <2> QED
    BY <1>1, <1>6, <1>7, <1>8, <2>1, P4Returns
<1>9. CASE r.ok
  <2>1. /\ r.ok /\ board' = b /\ turn' = turn + 1
        /\ IF turn + 1 < n_specialists
           THEN Goto(d(r), "P4.store")
           ELSE Return(d(r), IF Len(b) = n_specialists * share THEN "ok" ELSE "error")
    BY <1>2, <1>3, <1>9 DEF Raise
  <2>2. Reacted(ctx, share, d(r)) /\ Sane(d(r))
    BY <1>1, <1>3, <1>5, <2>1, ScaledReply DEF Reacted
  <2> HIDE DEF d, c
  <2>3. (turn + 1) * share <= d(r).tokens /\ (turn + 1) * share = turn * share + share
    <3>1. ctx.tokens \in Nat /\ d(r).tokens \in Nat /\ ctx.tokens + share <= d(r).tokens
      BY <1>1, <2>2 DEF Sane, Context, Reacted
    <3> DEFINE w == turn * share
    <3>2. w \in Nat /\ (turn + 1) * share = w + share /\ w <= ctx.tokens
      BY <1>3, <1>6
    <3> HIDE DEF w
    <3>3. w + share <= d(r).tokens
      BY <1>3, <3>1, <3>2
    <3> QED
      BY <3>2, <3>3 DEF w
  <2>4. Fatal => d(r).faults_seen = {}
    BY <1>6, <2>2 DEF Reacted, Clean
  <2>5. b \in Seq(1..n_specialists) /\ Len(b) = (turn + 1) * share /\ ToSet(b) = 1..(turn + 1)
    <3>1. turn + 1 \in 1..n_specialists /\ (turn + 1) - 1 = turn /\ share > 0
      BY <1>3, <1>6
    <3>2. /\ b \in Seq(1..n_specialists) /\ Len(b) = Len(board) + share
          /\ ToSet(b) = 1..(turn + 1)
      <4>1. PICK t \in 1..n_specialists : t = turn + 1 /\ t - 1 = turn
        BY <3>1
      <4>2. /\ n_specialists \in Nat /\ board \in Seq(1..n_specialists)
            /\ ToSet(board) = 1..(t - 1) /\ share \in Nat /\ share > 0
        BY <1>3, <1>6, <3>1, <4>1
      <4> DEFINE u == [j \in 1..share |-> t]
      <4>3. /\ b = board \o u /\ u \in Seq(1..n_specialists) /\ Len(u) = share
            /\ \A j \in 1..share : u[j] = t
        BY <1>4, <4>1, <4>2
      <4> HIDE DEF u
      <4>4. /\ board \o u \in Seq(1..n_specialists)
            /\ Len(board \o u) = Len(board) + share
            /\ ToSet(board \o u) = 1..t
        BY <4>1, <4>2, <4>3, BoardGrows
      <4> HIDE DEF b
      <4> QED
        BY <4>1, <4>3, <4>4
    <3> QED
      BY <1>6, <2>3, <3>2
  <2> HIDE DEF b
  <2>6. turn' \in 0..n_specialists /\ turn' = turn + 1
    BY <1>3, <1>6, <2>1
  <2>7. CASE turn + 1 < n_specialists
    <3>1. FrameInv' /\ ctx' = d(r) /\ pc' = "P4.store" /\ UNCHANGED <<item, platform, armed, result>>
      BY <1>1, <2>1, <2>2, <2>7, GotoKeepsFrame DEF Labels
    <3>2. PerTurn' = share
      BY <1>3, <3>1, SameWork
    <3>3. turn' * PerTurn' <= d(r).tokens /\ turn' < n_specialists
          /\ Len(board') = turn' * PerTurn' /\ ToSet(board') = 1..turn'
          /\ board' \in Seq(1..n_specialists)
      BY <2>1, <2>3, <2>5, <2>6, <2>7, <3>2
    <3> QED
      BY <1>1, <1>6, <1>7, <2>4, <2>6, <3>1, <3>3 DEF P4Inv, Clean
  <2>8. CASE ~(turn + 1 < n_specialists)
    <3>1. turn + 1 = n_specialists
      BY <1>3, <1>6, <2>8
    <3>2. Len(b) = n_specialists * share
      BY <2>5, <3>1
    <3>3. Return(d(r), "ok")
      BY <2>1, <2>8, <3>2
    <3>4. FrameInv' /\ ctx' = d(r) /\ pc' = "returned" /\ result' = "ok"
          /\ UNCHANGED <<item, platform, armed>>
      BY <1>1, <2>2, <3>3, OkKeepsFrame
    <3>5. PerTurn' = share /\ ~Serving'
      BY <1>3, <3>4, SameWork DEF Serving
    <3>6. ToSet(board') = 1..n_specialists /\ n_specialists * PerTurn' <= d(r).tokens
          /\ board' \in Seq(1..n_specialists)
      BY <2>1, <2>3, <2>5, <3>1, <3>5
    <3> QED
      BY <1>1, <1>6, <1>7, <2>4, <2>6, <3>4, <3>5, <3>6 DEF P4Inv, Clean, Spared
  <2> QED
    BY <1>1, <2>7, <2>8
<1> QED
  BY <1>1, <1>2, <1>8, <1>9

LEMMA P4Step ==
    ASSUME CampaignInv, P4Next, Unmoved,
           UNCHANGED <<fanout, stage, choreography, gateway, hitl, remote_ctx>>
    PROVE  CampaignInv'
<1>1. FrameInv' /\ P4Inv' /\ pattern = "P4"
  BY CreateBoardStep, ReadBoardStep, ContributeStep, WriteBoardStep, StoreTurnStep,
     SendTurnStep DEF CampaignInv, P4Next
<1>2. UNCHANGED pattern
  BY SameCell
<1> QED
  BY <1>1, <1>2, RecordsStay, OthersStay DEF CampaignInv

(***************************************************************************)
(* P5: the tools                                                           *)
(***************************************************************************)
LEMMA P5Serves ==
    ASSUME FrameInv, pc \in {"P5.route", "P5.call"}
    PROVE  Serving /\ pattern = "P5" /\ Sane(ctx)
<1>1. Serving
  BY DEF Serving
<1>2. Labels(pattern, pc)
  BY <1>1 DEF FrameInv
<1> QED
  BY <1>1, <1>2, ServingIsSane DEF Labels

\* A fault of another component spares the model.
LEMMA ModelSpared ==
    ASSUME FrameInv, Serving, cell.component # "model_backend", NEW c, Sane(c),
           NEW r \in invoke_agent(armed, c)
    PROVE  r.ok
<1>1. WellArmed(armed) /\ c \in Context
  BY ArmedNow DEF Sane
<1>2. DOMAIN armed \subseteq {cell.component}
  BY ServingIsSane, ArmedCell
<1>3. Hits(armed, "model_backend", c.default_unit) = {}
  BY <1>2 DEF Hits
<1>4. Responds(c, r, Hits(armed, "model_backend", c.default_unit), 1)
  BY <1>1, InvokeAgentResponds
<1> QED
  BY <1>3, <1>4 DEF Responds, Answers, Response

LEMMA ToolFacts ==
    /\ Len(Tools) \in Nat \ {0} /\ ToSet(Tools) = {Tools[k] : k \in 1..Len(Tools)}
    /\ \A k \in 1..Len(Tools) : Tools[k] \in STRING \ {NoUnit}
    /\ \A j \in Nat \ {0} : calls(j) \in ToSet(Tools)
    /\ \A j \in 1..Len(Tools) : calls(j) = Tools[j]
    /\ Tools[1] \in ToSet(Tools) /\ ToSet(Tools) # {}
<1>1. Tools \in Seq(STRING \ {NoUnit}) /\ Len(Tools) > 0
  BY ToolsAssumption
<1>2. Len(Tools) \in Nat \ {0} /\ \A k \in 1..Len(Tools) : Tools[k] \in STRING \ {NoUnit}
  BY <1>1
<1>3. ToSet(Tools) = {Tools[k] : k \in 1..Len(Tools)}
  BY <1>1 DEF ToSet
<1>4. \A j \in Nat \ {0} : ((j - 1) % Len(Tools)) + 1 \in 1..Len(Tools)
  BY <1>2
<1>5. \A j \in 1..Len(Tools) : ((j - 1) % Len(Tools)) + 1 = j
  BY <1>2
<1>6. \A j \in Nat \ {0} : calls(j) \in ToSet(Tools)
  BY <1>3, <1>4 DEF calls
<1>7. \A j \in 1..Len(Tools) : calls(j) = Tools[j]
  BY <1>5 DEF calls
<1>8. 1 \in 1..Len(Tools)
  BY <1>2
<1> QED
  BY <1>2, <1>3, <1>6, <1>7, <1>8

LEMMA CallTypes ==
    ASSUME FrameInv
    PROVE  n_calls \in Nat /\ n_calls >= Len(Tools)
<1>1. work_steps \in Nat /\ Len(Tools) \in Nat
  BY WorkTypes, ToolFacts
<1>2. \E x \in {Len(Tools), work_steps} : \A y \in {Len(Tools), work_steps} : x >= y
  BY <1>1
<1> QED
  BY <1>1, <1>2 DEF n_calls, Max

\* A tool call answers for its own tool; a fault of the tools hits the first only.
LEMMA ToolCallResponds ==
    ASSUME FrameInv, Serving, pattern = "P5", Sane(ctx), NEW tool \in ToSet(Tools),
           NEW r \in ToolCall(tool)
    PROVE  /\ Responds(ctx, r, Hit, 0) /\ Sane(r.ctx)
           /\ ~r.ok /\ cell.component = "tool" => tool = Tools[1]
<1>1. WellArmed(armed) /\ ctx \in Context /\ ctx.default_unit = NoUnit
  BY ArmedNow DEF Sane
<1>2. tool # NoUnit
  BY ToolFacts
<1> DEFINE H == Hits(armed, "gateway", NoUnit) \cup Hits(armed, "tool", tool)
<1>3. Responds(ctx, r, H, 0)
  <2>1. CASE r \in gateway_call(armed, ctx, tool)
    BY <1>1, <1>2, <2>1, GatewayCallResponds
  <2>2. CASE r \in run_agent_script(armed, ctx, <<tool>>)
    <3>1. Len(<<tool>>) = 1 /\ <<tool>>[1] = tool
      OBVIOUS
    <3>2. Label(ctx, tool) = tool
      BY <1>2 DEF Label
    <3>3. ScriptHits(armed, ctx, <<tool>>) \subseteq H
      BY <3>1, <3>2 DEF ScriptHits
    <3> QED
      BY <1>1, <2>2, <3>1, <3>3, RunAgentScriptResponds
  <2> QED
    BY <2>1, <2>2 DEF ToolCall
<1>4. H \subseteq Hit
  BY ArmedNow, AnyHits
<1>5. Responds(ctx, r, Hit, 0)
  BY <1>3, <1>4, RespondsWider
<1>6. ASSUME ~r.ok, cell.component = "tool" PROVE tool = Tools[1]
  <2>1. H # {}
    BY <1>3, <1>6 DEF Responds, Answers
  <2>2. /\ DOMAIN armed \subseteq {"tool"}
        /\ \A k \in DOMAIN armed : armed[k].unit = structural_unit(pattern, k)
    BY <1>6, ServingIsSane, ArmedCell
  <2>3. "tool" \in DOMAIN armed /\ armed["tool"].unit \in {NoUnit, tool}
    BY <2>1, <2>2 DEF Hits
  <2>4. armed["tool"].unit = Tools[1]
    BY <2>2, <2>3 DEF structural_unit
  <2>5. Tools[1] # NoUnit
    BY ToolFacts
  <2> QED
    BY <2>3, <2>4, <2>5
<1> QED
  BY <1>5, <1>6, SaneAfter DEF Responds

LEMMA RouteStep ==
    ASSUME FrameInv, P5Inv, Route, UNCHANGED remote_ctx, Unmoved
    PROVE  FrameInv' /\ P5Inv' /\ pattern = "P5"
<1>1. pc = "P5.route" /\ Serving /\ pattern = "P5" /\ Sane(ctx)
      /\ UNCHANGED <<toolCalls, tool_results, failures>>
  BY P5Serves DEF Route, gateway
<1> DEFINE c == Scaled(ctx, work_steps)
           d(r) == Unscaled(r.ctx)
<1>2. PICK r \in invoke_agent(armed, c) : (r.ok /\ Goto(d(r), "P5.call")) \/ Raise(r)
  BY DEF Route
<1>3. work_steps \in Nat \ {0} /\ n_calls \in Nat
  BY WorkTypes, CallTypes
<1>4. Sane(c) /\ Responds(c, r, Hit, 1) /\ Answers(c, r, Hit, 1)
  BY <1>1, <1>2, <1>3, SaneScaled, ModelCall DEF Responds
<1>5. toolCalls = 0 /\ tool_results = {} /\ failures = {}
  BY <1>1 DEF P5Inv
<1>6. UNCHANGED <<pattern, cell>>
  BY SameCell
<1>7. CASE Raise(r)
  <2>1. FrameInv' /\ pc' = "returned" /\ result' \in {"error", "timeout"}
    BY <1>1, <1>4, <1>7, RaiseKeepsFrame
  <2>2. cell.component = "model_backend"
    BY <1>1, <1>2, <1>4, <1>7, ModelSpared DEF Raise
  <2> QED
    BY <1>1, <1>5, <1>6, <2>1, <2>2 DEF P5Inv
<1>8. CASE r.ok /\ Goto(d(r), "P5.call")
  <2>1. Reacted(ctx, work_steps, d(r)) /\ Sane(d(r))
    BY <1>1, <1>3, <1>4, <1>8, ScaledReply DEF Reacted
  <2> HIDE DEF d, c
  <2>2. FrameInv' /\ ctx' = d(r) /\ pc' = "P5.call" /\ UNCHANGED <<item, platform, armed, result>>
    BY <1>1, <1>8, <2>1, GotoKeepsFrame DEF Labels
  <2>3. UNCHANGED <<n_calls, work_steps>>
    BY <2>2, SameWork
  <2>4. work_steps <= d(r).tokens
    BY <1>1, <1>3, <2>1 DEF Reacted, Sane, Context
  <2>5. \A j \in 1..0 : FALSE
    OBVIOUS
  <2> QED
    BY <1>1, <1>3, <1>5, <1>6, <2>2, <2>3, <2>4, <2>5 DEF P5Inv
<1> QED
  BY <1>1, <1>2, <1>7, <1>8

LEMMA CallToolStep ==
    ASSUME FrameInv, P5Inv, CallTool, UNCHANGED remote_ctx, Unmoved
    PROVE  FrameInv' /\ P5Inv' /\ pattern = "P5"
<1>1. pc = "P5.call" /\ Serving /\ pattern = "P5" /\ Sane(ctx) /\ toolCalls < n_calls
  BY P5Serves DEF CallTool
<1> DEFINE tool == calls(toolCalls + 1)
<1>2. PICK r \in ToolCall(tool) :
         /\ toolCalls' = toolCalls + 1
         /\ \/ /\ r.ok
               /\ tool_results' = tool_results \cup {tool}
               /\ Goto(r.ctx, "P5.call")
               /\ UNCHANGED failures
            \/ /\ ~r.ok
               /\ failures' = failures \cup {tool}
               /\ Goto(r.ctx, "P5.call")
               /\ UNCHANGED tool_results
  BY DEF CallTool, AfterFailure
<1>3. /\ toolCalls \in Nat /\ n_calls \in Nat
      /\ tool_results \subseteq ToSet(Tools) /\ failures \subseteq ToSet(Tools)
      /\ work_steps <= ctx.tokens
      /\ \A j \in 1..toolCalls : calls(j) \in tool_results \cup failures
      /\ failures # {} => ctx.faults_seen # {} /\ Fatal
      /\ cell.component = "tool" => failures \subseteq {Tools[1]}
  BY <1>1, CallTypes DEF P5Inv
<1>4. tool \in ToSet(Tools)
  BY <1>3, ToolFacts
<1>5. /\ Responds(ctx, r, Hit, 0) /\ Sane(r.ctx) /\ Answers(ctx, r, Hit, 0)
      /\ ~r.ok /\ cell.component = "tool" => tool = Tools[1]
  BY <1>1, <1>2, <1>4, ToolCallResponds DEF Responds
<1> HIDE DEF tool
<1>6. UNCHANGED <<pattern, cell, Fatal>>
  BY SameCell
<1>7. Goto(r.ctx, "P5.call")
  BY <1>2
<1>8. FrameInv' /\ ctx' = r.ctx /\ pc' = "P5.call" /\ UNCHANGED <<item, platform, armed, result>>
  BY <1>1, <1>5, <1>7, GotoKeepsFrame DEF Labels
<1>9. UNCHANGED <<n_calls, work_steps>>
  BY <1>8, SameWork
<1>10. /\ toolCalls' = toolCalls + 1 /\ toolCalls' \in Nat /\ toolCalls' <= n_calls
       /\ \A j \in 1..toolCalls' : j \in 1..toolCalls \/ j = toolCalls + 1
  BY <1>1, <1>2, <1>3
<1>11. /\ tool_results \subseteq tool_results' /\ failures \subseteq failures'
       /\ tool \in tool_results' \cup failures'
       /\ tool_results' \subseteq ToSet(Tools) /\ failures' \subseteq ToSet(Tools)
       /\ failures' \subseteq failures \cup (IF r.ok THEN {} ELSE {tool})
  BY <1>2, <1>3, <1>4
<1>12. \A j \in 1..toolCalls' : calls(j) \in tool_results' \cup failures'
  BY <1>3, <1>10, <1>11 DEF tool
<1>13. failures' # {} => r.ctx.faults_seen # {} /\ Fatal
  <2>1. CASE failures # {}
    BY <1>3, <1>5, <2>1 DEF Answers, Later
  <2>2. CASE ~r.ok
    BY <1>1, <1>5, <2>2, FailureIsHit
  <2> QED
    BY <1>11, <2>1, <2>2
<1>14. cell.component = "tool" => failures' \subseteq {Tools[1]}
  BY <1>3, <1>5, <1>11
<1>15. work_steps <= r.ctx.tokens
  <2>1. work_steps \in Nat /\ ctx.tokens \in Nat /\ r.ctx.tokens \in Nat
    BY <1>1, <1>5, WorkTypes DEF Sane, Context
  <2>2. ctx.tokens <= r.ctx.tokens
    BY <1>5 DEF Answers, Later
  <2> QED
    BY <1>3, <2>1, <2>2
<1> QED
  BY <1>1, <1>6, <1>8, <1>9, <1>10, <1>11, <1>12, <1>13, <1>14, <1>15 DEF P5Inv

LEMMA MarkedFields ==
    ASSUME NEW c \in Context, NEW mark \in BOOLEAN
    PROVE  LET d == [c EXCEPT !.degraded = mark]
           IN  /\ d \in Context /\ d.degraded = mark
               /\ d.elapsed_s = c.elapsed_s /\ d.nonblocking_s = c.nonblocking_s
               /\ d.request_start_ts = c.request_start_ts
               /\ d.default_unit = c.default_unit /\ d.faults_seen = c.faults_seen
               /\ d.tokens = c.tokens /\ d.model_invocations = c.model_invocations
<1>1. DOMAIN c = {"elapsed_s", "nonblocking_s", "request_start_ts",
     "concurrent_in_flight", "model_invocations", "service_calls",
     "services_called", "tokens", "content_scale",
     "components_touched", "faults_seen", "degraded", "default_unit"}
  BY DEF Context
<1>2. [c EXCEPT !.degraded = mark] \in Context
  BY DEF Context
<1> QED
  BY <1>1, <1>2, Zenon

LEMMA FinishToolsStep ==
    ASSUME FrameInv, P5Inv, FinishTools, UNCHANGED remote_ctx, Unmoved
    PROVE  FrameInv' /\ P5Inv' /\ pattern = "P5"
<1>1. pc = "P5.call" /\ Serving /\ pattern = "P5" /\ Sane(ctx) /\ toolCalls = n_calls
      /\ UNCHANGED <<toolCalls, tool_results, failures>>
  BY P5Serves DEF FinishTools, gateway
<1> DEFINE mark == failures # {} /\ ~all_failed
           d == [ctx EXCEPT !.degraded = mark]
<1>2. ctx \in Context /\ ~ctx.degraded
  BY <1>1 DEF Sane
<1>3. Return(d, IF all_failed THEN "error" ELSE "ok")
  BY <1>2 DEF FinishTools
<1>4. mark \in BOOLEAN
  OBVIOUS
<1> HIDE DEF mark
<1>5. /\ d \in Context /\ d.degraded = mark
      /\ d.elapsed_s = ctx.elapsed_s /\ d.nonblocking_s = ctx.nonblocking_s
      /\ d.default_unit = ctx.default_unit /\ d.faults_seen = ctx.faults_seen
      /\ d.tokens = ctx.tokens
  BY <1>2, <1>4, MarkedFields
<1> HIDE DEF d
<1>6. /\ toolCalls \in Nat
      /\ tool_results \subseteq ToSet(Tools) /\ failures \subseteq ToSet(Tools)
      /\ work_steps <= ctx.tokens
      /\ \A j \in 1..toolCalls : calls(j) \in tool_results \cup failures
      /\ failures # {} => ctx.faults_seen # {} /\ Fatal
      /\ cell.component = "tool" => failures \subseteq {Tools[1]}
  BY <1>1 DEF P5Inv
<1>7. tool_results \cup failures = ToSet(Tools)
  <2>1. ASSUME NEW x \in ToSet(Tools) PROVE x \in tool_results \cup failures
    <3>1. PICK k \in 1..Len(Tools) : x = Tools[k]
      BY ToolFacts
    <3>2. k \in 1..toolCalls
      BY <1>1, <1>6, CallTypes, ToolFacts
    <3>3. calls(k) = x
      BY <3>1, ToolFacts
    <3> QED
      BY <1>6, <3>2, <3>3
  <2> QED
    BY <1>6, <2>1
<1>8. PICK status \in {"ok", "error"} : status = IF all_failed THEN "error" ELSE "ok"
  OBVIOUS
<1>9. d.degraded \/ status # "ok" => failures # {}
  BY <1>5, <1>8, ToolFacts DEF mark, all_failed
<1>10. /\ Return(d, status) /\ status \in {"ok", "error", "timeout"}
       /\ d \in Context /\ d.default_unit = NoUnit /\ d.faults_seen \subseteq Hit
       /\ d.nonblocking_s <= d.elapsed_s
       /\ remote_ctx' \in Context /\ remote_ctx'.faults_seen \subseteq Hit
  BY <1>1, <1>3, <1>5, <1>8 DEF Sane, FrameInv
<1>11. d.degraded \/ status # "ok" =>
         Fatal /\ (d.faults_seen # {} \/ (pattern = "P7" /\ remote_ctx'.faults_seen # {}))
  BY <1>5, <1>6, <1>9
<1>12. /\ FrameInv' /\ ctx' = d /\ pc' = "returned" /\ result' = status
       /\ UNCHANGED <<item, platform, armed>>
  BY <1>1, <1>10, <1>11, ReturnKeepsFrame, Zenon
<1>13. UNCHANGED <<pattern, cell, work_steps, all_failed>>
  BY <1>1, <1>12, SameCell, SameWork DEF all_failed
<1> QED
  BY <1>1, <1>5, <1>6, <1>7, <1>8, <1>12, <1>13 DEF P5Inv, mark

LEMMA P5Step ==
    ASSUME CampaignInv, P5Next, Unmoved,
           UNCHANGED <<fanout, stage, choreography, blackboard, hitl, remote_ctx>>
    PROVE  CampaignInv'
<1>1. FrameInv' /\ P5Inv' /\ pattern = "P5"
  BY RouteStep, CallToolStep, FinishToolsStep DEF CampaignInv, P5Next
<1>2. UNCHANGED pattern
  BY SameCell
<1> QED
  BY <1>1, <1>2, RecordsStay, OthersStay DEF CampaignInv

(***************************************************************************)
(* P6: the human decision                                                  *)
(***************************************************************************)
LEMMA P6Serves ==
    ASSUME FrameInv, pc \in {"P6.draft", "P6.pause", "P6.route", "P6.review"}
    PROVE  Serving /\ pattern = "P6" /\ Sane(ctx)
<1>1. Serving
  BY DEF Serving
<1>2. Labels(pattern, pc)
  BY <1>1 DEF FrameInv
<1> QED
  BY <1>1, <1>2, ServingIsSane DEF Labels

\* A fault of the human queue spares every other call.
LEMMA QueueFaultSpares ==
    ASSUME FrameInv, Serving, cell.component = "human_queue", NEW c, Sane(c)
    PROVE  /\ \A r \in invoke_agent(armed, c) : r.ok
           /\ \A actions : Len(actions) \in Nat => \A r \in send(armed, c, actions) : r.ok
           /\ \A r \in memory_op(armed, c) \cup guardrails_apply(armed, c) : r.ok
<1>1. WellArmed(armed) /\ c \in Context
  BY ArmedNow DEF Sane
<1>2. DOMAIN armed \subseteq {"human_queue"}
  BY ServingIsSane, ArmedCell
<1>3. \A k, unit : k # "human_queue" => Hits(armed, k, unit) = {}
  BY <1>2 DEF Hits
<1>4. ASSUME NEW r, NEW n, Responds(c, r, {}, n) PROVE r.ok
  BY <1>4 DEF Responds, Answers, Response
<1>5. ASSUME NEW r \in invoke_agent(armed, c) PROVE r.ok
  BY <1>1, <1>3, <1>4, InvokeAgentResponds
<1>6. ASSUME NEW actions, Len(actions) \in Nat, NEW r \in send(armed, c, actions) PROVE r.ok
  <2>1. ScriptHits(armed, c, actions) \subseteq {}
    BY <1>3 DEF ScriptHits
  <2>2. Hits(armed, "model_backend", c.default_unit) \subseteq {}
    BY <1>3
  <2>3. Responds(c, r, {}, 1)
    BY <1>1, <2>1, <2>2, <1>6, SendResponds
  <2> QED
    BY <1>4, <2>3
<1>7. ASSUME NEW r \in memory_op(armed, c) \cup guardrails_apply(armed, c) PROVE r.ok
  <2>1. {"memory_store", "gateway"} \subseteq Component
    BY DEF Component
  <2>2. \E k \in {"memory_store", "gateway"} :
          Responds(c, r, Hits(armed, k, Label(c, NoUnit)), 0)
    BY <1>1, <1>7, <2>1, ServiceCallResponds DEF memory_op, guardrails_apply
  <2>3. Responds(c, r, {}, 0)
    BY <1>3, <2>2
  <2> QED
    BY <1>4, <2>3
<1> QED
  BY <1>5, <1>6, <1>7

LEMMA DraftReply ==
    ASSUME FrameInv, Serving, Sane(ctx), NEW r \in DraftCall
    PROVE  /\ r.ok => Sane(r.ctx) /\ work_steps <= r.ctx.tokens
           /\ ~r.ok => \E c, n : Sane(c) /\ Answers(c, r, Hit, n)
           /\ cell.component = "human_queue" => r.ok
<1> DEFINE c == Scaled(ctx, work_steps)
<1>1. work_steps \in Nat \ {0} /\ Sane(c) /\ ctx.tokens \in Nat
  BY WorkTypes, SaneScaled DEF Sane, Context
<1>2. CASE OnBedrock
  <2>1. PICK q \in invoke_agent(armed, c) :
          IF q.ok THEN r \in guardrails_apply(armed, Unscaled(q.ctx)) ELSE r = q
    BY <1>2 DEF DraftCall, Then
  <2>2. Responds(c, q, Hit, 1) /\ Answers(c, q, Hit, 1)
    BY <1>1, <2>1, ModelCall DEF Responds
  <2>3. CASE ~q.ok
    <3>1. r = q /\ cell.component # "human_queue"
      BY <1>1, <2>1, <2>3, QueueFaultSpares
    <3> QED
      BY <1>1, <2>2, <2>3, <3>1
  <2>4. CASE q.ok
    <3> DEFINE d == Unscaled(q.ctx)
    <3>1. Reacted(ctx, work_steps, d) /\ Sane(d)
      BY <1>1, <2>2, <2>4, ScaledReply DEF Reacted
    <3>2. r \in guardrails_apply(armed, d)
      BY <2>1, <2>4
    <3> HIDE DEF d
    <3>3. Responds(d, r, Hit, 0) /\ Answers(d, r, Hit, 0) /\ Sane(r.ctx)
      BY <3>1, <3>2, StoreCall DEF Responds
    <3>4. d.tokens \in Nat /\ r.ctx.tokens \in Nat /\ d.tokens <= r.ctx.tokens
      BY <3>1, <3>3 DEF Answers, Later, Sane, Context
    <3>5. work_steps <= r.ctx.tokens
      BY <1>1, <3>1, <3>4 DEF Reacted
    <3>6. cell.component = "human_queue" => r.ok
      BY <3>1, <3>2, QueueFaultSpares
    <3> QED
      BY <3>1, <3>3, <3>5, <3>6
  <2> QED
    BY <2>3, <2>4
<1>3. CASE ~OnBedrock
  <2> DEFINE Reply(x) == [x EXCEPT !.ctx = IF x.ok THEN Unscaled(@) ELSE @]
  <2>1. PICK x \in send(armed, c, DraftActions) : r = Reply(x)
    BY <1>3 DEF DraftCall
  <2>2. Len(DraftActions) \in Nat
    BY <1>1 DEF DraftActions
  <2>3. Responds(c, x, Hit, 1) /\ Answers(c, x, Hit, 1)
    BY <1>1, <2>1, <2>2, SendCall DEF Responds
  <2>4. Reply(x).ok = x.ok /\ Reply(x).ctx = (IF x.ok THEN Unscaled(x.ctx) ELSE x.ctx)
        /\ (~x.ok => Reply(x) = x)
    <3>1. x \in Response
      BY <2>3 DEF Answers
    <3>2. DOMAIN x = {"ctx", "ok", "fault"}
      BY <3>1 DEF Response
    <3>3. x = [ctx |-> x.ctx, ok |-> x.ok, fault |-> x.fault]
      BY <3>1 DEF Response
    <3> QED
      BY <3>1, <3>2, <3>3 DEF Response
  <2> HIDE DEF Reply
  <2>5. CASE ~x.ok
    <3>1. r = x /\ cell.component # "human_queue"
      BY <1>1, <2>1, <2>2, <2>4, <2>5, QueueFaultSpares
    <3> QED
      BY <1>1, <2>3, <2>5, <3>1
  <2>6. CASE x.ok
    <3> DEFINE d == Unscaled(x.ctx)
    <3>1. Reacted(ctx, work_steps, d) /\ Sane(d)
      BY <1>1, <2>3, <2>6, ScaledReply DEF Reacted
    <3>2. r.ok /\ r.ctx = d
      BY <2>1, <2>4, <2>6
    <3> HIDE DEF d, c
    <3>3. d.tokens \in Nat
      BY <3>1 DEF Sane, Context
    <3> QED
      BY <1>1, <3>1, <3>2, <3>3 DEF Reacted
  <2> QED
    BY <2>5, <2>6
<1> QED
  BY <1>2, <1>3

LEMMA DraftStep ==
    ASSUME FrameInv, P6Inv, Draft, UNCHANGED remote_ctx, Unmoved
    PROVE  FrameInv' /\ P6Inv' /\ pattern = "P6"
<1>1. pc = "P6.draft" /\ Serving /\ pattern = "P6" /\ Sane(ctx)
      /\ UNCHANGED <<paused, adjudication, decision_log, deferred>>
  BY P6Serves DEF Draft
<1>2. PICK r \in DraftCall :
         \/ r.ok /\ item.low /\ Goto(r.ctx, "P6.pause") /\ UNCHANGED decision
         \/ r.ok /\ ~item.low /\ Return(r.ctx, "ok") /\ decision' = "auto_approved"
         \/ Raise(r) /\ UNCHANGED decision
  BY DEF Draft, NeedsReview
<1>3. /\ r.ok => Sane(r.ctx) /\ work_steps <= r.ctx.tokens
      /\ ~r.ok => \E c, n : Sane(c) /\ Answers(c, r, Hit, n)
      /\ cell.component = "human_queue" => r.ok
  BY <1>1, DraftReply
<1>4. /\ paused = {} /\ decision = "none"
      /\ paused \subseteq 1..MaxRequests
      /\ adjudication \in Seq(1..MaxRequests) /\ decision_log \in Seq(1..MaxRequests)
      /\ deferred \in BOOLEAN /\ decision \in Decision
      /\ \A k \in DOMAIN decision_log : decision_log[k] <= Len(per_request)
  BY <1>1 DEF P6Inv
<1>5. UNCHANGED <<pattern, cell, HumanOutage, per_request>>
  BY SameCell DEF Unmoved
<1>6. CASE r.ok /\ item.low /\ Goto(r.ctx, "P6.pause") /\ UNCHANGED decision
  <2>1. FrameInv' /\ ctx' = r.ctx /\ pc' = "P6.pause" /\ UNCHANGED <<item, platform, armed, result>>
    BY <1>1, <1>3, <1>6, GotoKeepsFrame DEF Labels
  <2>2. work_steps' = work_steps
    BY <2>1, SameWork
  <2> QED
    BY <1>1, <1>3, <1>4, <1>5, <1>6, <2>1, <2>2 DEF P6Inv
<1>7. CASE r.ok /\ ~item.low /\ Return(r.ctx, "ok") /\ decision' = "auto_approved"
  <2>1. /\ FrameInv' /\ ctx' = r.ctx /\ pc' = "returned" /\ result' = "ok"
        /\ UNCHANGED <<item, platform, armed>>
    BY <1>1, <1>3, <1>7, OkKeepsFrame
  <2>2. work_steps' = work_steps /\ ~Serving'
    BY <2>1, SameWork DEF Serving
  <2>3. decision' \in Decision /\ ~r.ctx.degraded
    BY <1>3, <1>7 DEF Decision, Sane
  <2> QED
    BY <1>1, <1>3, <1>4, <1>5, <1>7, <2>1, <2>2, <2>3 DEF P6Inv
<1>8. CASE Raise(r) /\ UNCHANGED decision
  <2>1. ~r.ok
    BY <1>8 DEF Raise
  <2>2. PICK c, n : Sane(c) /\ Answers(c, r, Hit, n)
    BY <1>3, <2>1
  <2>3. FrameInv' /\ ctx' = r.ctx /\ pc' = "returned" /\ result' \in {"error", "timeout"}
        /\ ~r.ctx.degraded
    BY <1>1, <1>8, <2>2, RaiseKeepsFrame
  <2>4. ~Serving'
    BY <2>3 DEF Serving
  <2>5. cell.component # "human_queue"
    BY <1>3, <2>1
  <2> QED
    BY <1>1, <1>4, <1>5, <1>8, <2>3, <2>4, <2>5 DEF P6Inv
<1> QED
  BY <1>1, <1>2, <1>6, <1>7, <1>8

\* What a request of P6 is in between its draft and the decision.
LEMMA AwaitsHuman ==
    ASSUME FrameInv, P6Inv, pattern = "P6", pc \in {"P6.pause", "P6.route", "P6.review"}
    PROVE  /\ item.low /\ work_steps <= ctx.tokens /\ work_steps \in Nat
           /\ decision = "none" /\ item.id \in 1..MaxRequests
           /\ item.id = Len(per_request) + 1
           /\ adjudication \in Seq(1..MaxRequests) /\ decision_log \in Seq(1..MaxRequests)
           /\ deferred \in BOOLEAN
           /\ paused = IF pc = "P6.pause" THEN {} ELSE {item.id}
           /\ \A k \in DOMAIN decision_log : decision_log[k] <= Len(per_request)
<1>1. Serving
  BY DEF Serving
<1>2. item.id = Len(per_request) + 1 /\ Len(per_request) < MaxRequests /\ item.id \in Nat
  BY <1>1 DEF FrameInv, Item
<1>3. item.id \in 1..MaxRequests
  <2>1. Len(per_request) \in Nat \/ item.id >= 1
    BY <1>2 DEF FrameInv
  <2> QED
    BY <1>2, <2>1, CampaignAssumption
<1> QED
  BY <1>1, <1>2, <1>3, WorkTypes DEF P6Inv

LEMMA PauseInMemoryStep ==
    ASSUME FrameInv, P6Inv, RecordsInv, PauseInMemory, UNCHANGED remote_ctx, Unmoved
    PROVE  FrameInv' /\ P6Inv' /\ pattern = "P6"
<1>1. pc = "P6.pause" /\ Serving /\ pattern = "P6" /\ Sane(ctx)
      /\ UNCHANGED <<adjudication, decision_log, deferred, decision>>
  BY P6Serves DEF PauseInMemory
<1>2. PICK r \in memory_op(armed, ctx) :
         /\ paused' = PausedAfter(r.ok)
         /\ (r.ok /\ Goto(r.ctx, "P6.route")) \/ Raise(r)
  BY DEF PauseInMemory
<1>3. Responds(ctx, r, Hit, 0) /\ Answers(ctx, r, Hit, 0) /\ Sane(r.ctx)
  BY <1>1, <1>2, StoreCall DEF Responds
<1>4. /\ item.low /\ work_steps <= ctx.tokens /\ work_steps \in Nat
      /\ decision = "none" /\ item.id \in 1..MaxRequests
      /\ adjudication \in Seq(1..MaxRequests) /\ decision_log \in Seq(1..MaxRequests)
      /\ deferred \in BOOLEAN /\ paused = {}
      /\ \A k \in DOMAIN decision_log : decision_log[k] <= Len(per_request)
  BY <1>1, AwaitsHuman
<1>5. UNCHANGED <<pattern, cell, HumanOutage, per_request>>
  BY SameCell DEF Unmoved
<1>6. work_steps <= r.ctx.tokens
  <2>1. ctx.tokens \in Nat /\ r.ctx.tokens \in Nat /\ ctx.tokens <= r.ctx.tokens
    BY <1>1, <1>3 DEF Answers, Later, Sane, Context
  <2> QED
    BY <1>4, <2>1
<1>7. CASE r.ok /\ Goto(r.ctx, "P6.route")
  <2>1. FrameInv' /\ ctx' = r.ctx /\ pc' = "P6.route" /\ UNCHANGED <<item, platform, armed, result>>
    BY <1>1, <1>3, <1>7, GotoKeepsFrame DEF Labels
  <2>2. work_steps' = work_steps /\ paused' = {item.id}
    BY <1>2, <1>4, <1>7, <2>1, SameWork DEF PausedAfter
  <2>3. decision \in Decision
    BY <1>4 DEF Decision
  <2> QED
    BY <1>1, <1>4, <1>5, <1>6, <2>1, <2>2, <2>3 DEF P6Inv
<1>8. CASE Raise(r)
  <2>1. FrameInv' /\ ctx' = r.ctx /\ pc' = "returned" /\ result' \in {"error", "timeout"}
        /\ ~r.ctx.degraded
    BY <1>1, <1>3, <1>8, RaiseKeepsFrame
  <2>2. ~Serving' /\ paused' = {}
    BY <1>2, <1>4, <1>8, <2>1 DEF Serving, Raise, PausedAfter
  <2>3. cell.component # "human_queue"
    BY <1>1, <1>2, <1>8, QueueFaultSpares DEF Raise
  <2>4. decision \in Decision
    BY <1>4 DEF Decision
  <2> QED
    BY <1>1, <1>4, <1>5, <2>1, <2>2, <2>3, <2>4 DEF P6Inv
<1> QED
  BY <1>1, <1>2, <1>7, <1>8

\* On the way to the human queue a failure only defers the decision.
LEMMA RoutedStep ==
    ASSUME FrameInv, P6Inv, pattern = "P6", pc \in {"P6.pause", "P6.route"},
           NEW r, Answers(ctx, r, Hit, 0), Goto(r.ctx, "P6.review"),
           paused' = {item.id}, deferred' \in BOOLEAN, adjudication' \in Seq(1..MaxRequests),
           UNCHANGED <<decision_log, decision, remote_ctx>>, Unmoved
    PROVE  FrameInv' /\ P6Inv'
<1>1. Serving /\ Sane(ctx)
  BY P6Serves
<1>2. Sane(r.ctx)
  BY <1>1, SaneAfter
<1>3. /\ item.low /\ work_steps <= ctx.tokens /\ work_steps \in Nat
      /\ decision = "none" /\ item.id \in 1..MaxRequests
      /\ decision_log \in Seq(1..MaxRequests)
      /\ \A k \in DOMAIN decision_log : decision_log[k] <= Len(per_request)
  BY AwaitsHuman
<1>4. work_steps <= r.ctx.tokens
  <2>1. ctx.tokens \in Nat /\ r.ctx.tokens \in Nat /\ ctx.tokens <= r.ctx.tokens
    BY <1>1, <1>2 DEF Answers, Later, Sane, Context
  <2> QED
    BY <1>3, <2>1
<1>5. UNCHANGED <<pattern, per_request>>
  BY SameCell DEF Unmoved
<1>6. FrameInv' /\ ctx' = r.ctx /\ pc' = "P6.review" /\ UNCHANGED <<item, platform, armed, result>>
  BY <1>1, <1>2, GotoKeepsFrame DEF Labels
<1>7. work_steps' = work_steps /\ decision' \in Decision /\ paused' \subseteq 1..MaxRequests
  BY <1>3, <1>6, SameWork DEF Decision
<1> QED
  BY <1>3, <1>4, <1>5, <1>6, <1>7 DEF P6Inv

LEMMA RouteToHumanStep ==
    ASSUME FrameInv, P6Inv, RouteToHuman, UNCHANGED remote_ctx, Unmoved
    PROVE  FrameInv' /\ P6Inv' /\ pattern = "P6"
<1>1. pc = "P6.route" /\ Serving /\ pattern = "P6" /\ Sane(ctx)
      /\ UNCHANGED <<paused, adjudication, decision_log, decision>>
  BY P6Serves DEF RouteToHuman
<1>2. PICK r \in boundary_call(armed, ctx, "memory", "human_queue", NoUnit) :
         deferred' = ~r.ok /\ Goto(r.ctx, "P6.review")
  BY DEF RouteToHuman
<1>3. Answers(ctx, r, Hit, 0)
  BY <1>1, <1>2, StoreCall DEF Responds
<1>4. paused = {item.id} /\ adjudication \in Seq(1..MaxRequests)
  BY <1>1, AwaitsHuman
<1>5. r.ok \in BOOLEAN
  BY <1>3 DEF Answers, Response
<1> QED
  BY <1>1, <1>2, <1>3, <1>4, <1>5, RoutedStep

LEMMA PauseByHandoffStep ==
    ASSUME FrameInv, P6Inv, PauseByHandoff, UNCHANGED remote_ctx, Unmoved
    PROVE  FrameInv' /\ P6Inv' /\ pattern = "P6"
<1>1. pc = "P6.pause" /\ Serving /\ pattern = "P6" /\ Sane(ctx)
      /\ paused' = paused \cup {item.id} /\ UNCHANGED <<decision_log, decision>>
  BY P6Serves DEF PauseByHandoff
<1>2. PICK r \in handoff(armed, ctx) :
         /\ adjudication' = (IF r.ok THEN <<item.id>> ELSE <<>>)
         /\ deferred' = ~r.ok
         /\ Goto(r.ctx, "P6.review")
  BY DEF PauseByHandoff
<1>3. Answers(ctx, r, Hit, 0)
  BY <1>1, <1>2, StoreCall DEF Responds
<1>4. paused = {} /\ item.id \in 1..MaxRequests
  BY <1>1, AwaitsHuman
<1>5. adjudication' \in Seq(1..MaxRequests) /\ deferred' \in BOOLEAN
  <2>1. <<item.id>> \in Seq(1..MaxRequests) /\ <<>> \in Seq(1..MaxRequests)
    BY <1>4
  <2>2. r.ok \in BOOLEAN
    BY <1>3 DEF Answers, Response
  <2> QED
    BY <1>2, <2>1, <2>2
<1> QED
  BY <1>1, <1>2, <1>3, <1>4, <1>5, RoutedStep

LEMMA SaneDelayed ==
    ASSUME NEW c, Sane(c), NEW dt \in Nat, NEW blocking \in BOOLEAN
    PROVE  LET d == add_delay(c, dt, blocking)
           IN  Sane(d) /\ d.tokens = c.tokens /\ sim_now(d) = sim_now(c) + dt
<1> DEFINE d == add_delay(c, dt, blocking)
<1>1. c \in Context /\ c.elapsed_s \in Nat /\ c.nonblocking_s \in Nat
  BY DEF Sane, Context
<1>2. /\ d \in Context /\ d.elapsed_s = c.elapsed_s + dt
      /\ d.nonblocking_s = c.nonblocking_s + (IF blocking THEN 0 ELSE dt)
      /\ d.degraded = c.degraded /\ d.default_unit = c.default_unit
      /\ d.faults_seen = c.faults_seen /\ d.tokens = c.tokens
      /\ sim_now(d) = sim_now(c) + dt
  BY <1>1, DelayTypes, Delayed, DelayedNow
<1> HIDE DEF d
<1>3. Sane(d)
  BY <1>1, <1>2 DEF Sane
<1> QED
  BY <1>2, <1>3 DEF d

\* The wait for a deferred decision ends with the outage, up to rounding.
LEMMA DeferralEnds ==
    ASSUME FrameInv, Serving, NEW c \in Deferral(ctx)
    PROVE  /\ Sane(c) /\ c.tokens = ctx.tokens
           /\ deferred /\ HumanOutage => \E d \in RoundDown : sim_now(c) + d >= Window[2]
<1>1. Sane(ctx) /\ pc # "ended" /\ ctx \in Context
  BY ServingIsSane DEF Sane
<1>2. CASE ~deferred
  BY <1>1, <1>2 DEF Deferral
<1>3. CASE deferred /\ HasWindow(armed, "human_queue")
  <2>1. WellArmed(armed) /\ \A k \in DOMAIN armed : cell.fault = "outage" => armed[k].window = Window
    BY <1>1, ArmedCell
  <2>2. window_end(armed, "human_queue") \in Nat
    BY <1>3, <2>1 DEF WellArmed, HasWindow, window_end
  <2>3. c \in WaitUntil(ctx, window_end(armed, "human_queue"), FALSE)
    BY <1>3 DEF Deferral
  <2>4. PICK dt \in Nat, d \in RoundDown :
          Waits(ctx, window_end(armed, "human_queue"), FALSE, c, dt, d)
    BY <1>1, <2>2, <2>3, Waited
  <2>5. c = add_delay(ctx, dt, FALSE)
        /\ sim_now(ctx) + dt + d >= window_end(armed, "human_queue")
    BY <2>4 DEF Waits
  <2>6. Sane(c) /\ c.tokens = ctx.tokens /\ sim_now(c) = sim_now(ctx) + dt
    BY <1>1, <2>5, SaneDelayed
  <2>7. HumanOutage => window_end(armed, "human_queue") = Window[2]
    BY <1>3, <2>1 DEF HumanOutage, HasWindow, window_end
  <2> QED
    BY <2>5, <2>6, <2>7
<1>4. CASE deferred /\ ~HasWindow(armed, "human_queue")
  <2>1. c = add_delay(ctx, throttle_delay_s, FALSE)
    BY <1>4 DEF Deferral
  <2>2. Sane(c) /\ c.tokens = ctx.tokens
    BY <1>1, <2>1, SaneDelayed, TimingAssumption
  <2>3. ~HumanOutage
    <3> SUFFICES ASSUME HumanOutage PROVE FALSE
      OBVIOUS
    <3>1. cell.component = "human_queue" /\ cell.fault = "outage"
      BY DEF HumanOutage
    <3>2. /\ AllHits(armed) = Hit /\ DOMAIN armed \subseteq {"human_queue"}
          /\ \A k \in DOMAIN armed : armed[k].window = Window
      BY <1>1, <3>1, ArmedCell
    <3>3. Hit # {}
      BY <3>1 DEF Hit, NoFault
    <3>4. "human_queue" \in DOMAIN armed
      BY <3>2, <3>3 DEF AllHits
    <3>5. Window # NoWindow
      BY CampaignAssumption DEF NoWindow
    <3> QED
      BY <1>4, <3>2, <3>4, <3>5 DEF HasWindow
  <2> QED
    BY <2>2, <2>3
<1> QED
  BY <1>2, <1>3, <1>4

LEMMA ReviewStep ==
    ASSUME FrameInv, P6Inv, Review, UNCHANGED remote_ctx, Unmoved
    PROVE  FrameInv' /\ P6Inv' /\ pattern = "P6"
<1>1. pc = "P6.review" /\ Serving /\ pattern = "P6" /\ Sane(ctx)
      /\ paused' = paused \ {item.id} /\ decision_log' = Append(decision_log, item.id)
      /\ decision' = "approved" /\ UNCHANGED <<adjudication, deferred>>
  BY P6Serves DEF Review
<1>2. PICK c \in Deferral(ctx), dt \in LatencySamples : Return(add_delay(c, dt, FALSE), "ok")
  BY DEF Review
<1> DEFINE d == add_delay(c, dt, FALSE)
<1>3. dt \in Nat /\ \A e \in RoundDown : e \in Nat /\ e <= dt
  BY TimingAssumption
<1>4. /\ Sane(c) /\ c.tokens = ctx.tokens
      /\ deferred /\ HumanOutage => \E e \in RoundDown : sim_now(c) + e >= Window[2]
  BY <1>1, DeferralEnds
<1>5. Sane(d) /\ d.tokens = ctx.tokens /\ sim_now(d) = sim_now(c) + dt
  BY <1>3, <1>4, SaneDelayed
<1>6. deferred /\ HumanOutage => sim_now(d) >= Window[2]
  <2>1. sim_now(c) \in Nat /\ Window[2] \in Nat
    BY <1>4, NowTypes, CampaignAssumption DEF Sane
  <2> HIDE DEF d
  <2> QED
    BY <1>3, <1>4, <1>5, <2>1
<1> HIDE DEF d
<1>7. /\ item.low /\ work_steps <= ctx.tokens
      /\ item.id \in 1..MaxRequests
      /\ adjudication \in Seq(1..MaxRequests) /\ decision_log \in Seq(1..MaxRequests)
      /\ deferred \in BOOLEAN /\ paused = {item.id}
      /\ \A k \in DOMAIN decision_log : decision_log[k] <= Len(per_request)
  BY <1>1, AwaitsHuman
<1>8. UNCHANGED <<pattern, cell, HumanOutage, per_request>>
  BY SameCell DEF Unmoved
<1>9. /\ FrameInv' /\ ctx' = d /\ pc' = "returned" /\ result' = "ok"
      /\ UNCHANGED <<item, platform, armed>>
  BY <1>1, <1>2, <1>5, OkKeepsFrame DEF d
<1>10. work_steps' = work_steps /\ ~Serving' /\ decision' \in Decision /\ ~d.degraded
       /\ sim_now(ctx)' = sim_now(d)
  BY <1>1, <1>5, <1>9, SameWork, SameNow DEF Serving, Decision, Sane
<1> DEFINE log == Append(decision_log, item.id)
<1>11. /\ log \in Seq(1..MaxRequests) /\ log # <<>> /\ log[Len(log)] = item.id
       /\ \A k \in DOMAIN log : \/ log[k] <= Len(per_request)
                                \/ k = Len(log) /\ log[k] = item.id
  <2>1. Len(log) = Len(decision_log) + 1 /\ log \in Seq(1..MaxRequests)
        /\ DOMAIN log = 1..(Len(decision_log) + 1)
        /\ DOMAIN decision_log = 1..Len(decision_log)
        /\ Len(decision_log) \in Nat
    BY <1>7
  <2>2. \A k \in 1..Len(decision_log) : log[k] = decision_log[k]
    BY <1>7
  <2>3. log[Len(decision_log) + 1] = item.id
    BY <1>7
  <2> HIDE DEF log
  <2> QED
    BY <1>7, <2>1, <2>2, <2>3
<1>12. decision_log' = log /\ paused' = {}
  BY <1>1, <1>7
<1> HIDE DEF log
<1> QED
  BY <1>1, <1>5, <1>6, <1>7, <1>8, <1>9, <1>10, <1>11, <1>12 DEF P6Inv

LEMMA P6Step ==
    ASSUME CampaignInv, P6Next, Unmoved,
           UNCHANGED <<fanout, stage, choreography, blackboard, gateway, remote_ctx>>
    PROVE  CampaignInv'
<1>1. FrameInv' /\ P6Inv' /\ pattern = "P6"
  BY DraftStep, PauseInMemoryStep, RouteToHumanStep, PauseByHandoffStep, ReviewStep
     DEF CampaignInv, P6Next
<1>2. UNCHANGED pattern
  BY SameCell
<1> QED
  BY <1>1, <1>2, RecordsStay, OthersStay DEF CampaignInv

(***************************************************************************)
(* P7: the federated call                                                  *)
(***************************************************************************)
LEMMA P7Serves ==
    ASSUME FrameInv, pc \in {"P7.local", "P7.remote"}
    PROVE  Serving /\ pattern = "P7" /\ Sane(ctx)
<1>1. Serving
  BY DEF Serving
<1>2. Labels(pattern, pc)
  BY <1>1 DEF FrameInv
<1> QED
  BY <1>1, <1>2, ServingIsSane DEF Labels

\* A fault of the model backend is armed for the remote cluster only.
LEMMA LocalSpared ==
    ASSUME FrameInv, Serving, pattern = "P7", cell.component = "model_backend",
           NEW c, Sane(c)
    PROVE  /\ \A r \in invoke_agent(armed, c) : r.ok
           /\ \A actions : Len(actions) \in Nat => \A r \in send(armed, c, actions) : r.ok
<1>1. WellArmed(armed) /\ c \in Context /\ c.default_unit = NoUnit
  BY ArmedNow DEF Sane
<1>2. /\ DOMAIN armed \subseteq {"model_backend"}
      /\ \A k \in DOMAIN armed : armed[k].unit = RemoteUnit
  BY ServingIsSane, ArmedCell DEF structural_unit
<1>3. /\ Hits(armed, "model_backend", NoUnit) = {}
      /\ \A unit : Hits(armed, "tool", unit) = {}
  BY <1>2 DEF Hits, RemoteUnit, NoUnit
<1>4. ASSUME NEW r, NEW n, Responds(c, r, {}, n) PROVE r.ok
  BY <1>4 DEF Responds, Answers, Response
<1>5. ASSUME NEW r \in invoke_agent(armed, c) PROVE r.ok
  BY <1>1, <1>3, <1>4, InvokeAgentResponds
<1>6. ASSUME NEW actions, Len(actions) \in Nat, NEW r \in send(armed, c, actions) PROVE r.ok
  <2>1. ScriptHits(armed, c, actions) \subseteq {}
    BY <1>3 DEF ScriptHits
  <2>2. Hits(armed, "model_backend", c.default_unit) \subseteq {}
    BY <1>1, <1>3
  <2>3. Responds(c, r, {}, 1)
    BY <1>1, <2>1, <2>2, <1>6, SendResponds
  <2> QED
    BY <1>4, <2>3
<1> QED
  BY <1>5, <1>6

LEMMA LocalWorkStep ==
    ASSUME FrameInv, P7Inv, LocalWork, Unmoved
    PROVE  FrameInv' /\ P7Inv' /\ pattern = "P7"
<1>1. pc = "P7.local" /\ Serving /\ pattern = "P7" /\ Sane(ctx) /\ UNCHANGED remote_ctx
  BY P7Serves DEF LocalWork
<1> DEFINE c == Scaled(ctx, work_steps)
           d(r) == Unscaled(r.ctx)
<1>2. PICK r \in LocalCall : (r.ok /\ Goto(d(r), "P7.remote")) \/ Raise(r)
  BY DEF LocalWork
<1>3. work_steps \in Nat \ {0} /\ Sane(c)
  BY <1>1, WorkTypes, SaneScaled
<1>4. /\ Responds(c, r, Hit, 1) /\ Answers(c, r, Hit, 1)
      /\ cell.component = "model_backend" => r.ok
  <2>1. Len(LocalActions) \in Nat
    BY <1>3 DEF LocalActions
  <2>2. r \in invoke_agent(armed, c) \/ r \in send(armed, c, LocalActions)
    BY <1>2 DEF LocalCall
  <2> QED
    BY <1>1, <1>3, <2>1, <2>2, ModelCall, SendCall, LocalSpared DEF Responds
<1>5. UNCHANGED <<pattern, cell>> /\ remote_ctx.default_unit = RemoteUnit
  BY SameCell DEF P7Inv
<1>6. CASE Raise(r)
  <2>1. FrameInv' /\ pc' = "returned" /\ result' \in {"error", "timeout"}
    BY <1>1, <1>3, <1>4, <1>6, RaiseKeepsFrame
  <2>2. cell.component # "model_backend"
    BY <1>4, <1>6 DEF Raise
  <2> QED
    BY <1>1, <1>5, <2>1, <2>2 DEF P7Inv
<1>7. CASE r.ok /\ Goto(d(r), "P7.remote")
  <2>1. Reacted(ctx, work_steps, d(r)) /\ Sane(d(r))
    BY <1>1, <1>3, <1>4, <1>7, ScaledReply DEF Reacted
  <2> HIDE DEF d, c
  <2>2. FrameInv' /\ ctx' = d(r) /\ pc' = "P7.remote"
        /\ UNCHANGED <<item, platform, armed, result>>
    BY <1>1, <1>7, <2>1, GotoKeepsFrame DEF Labels
  <2>3. work_steps' = work_steps
    BY <2>2, SameWork
  <2>4. work_steps <= d(r).tokens
    BY <1>1, <1>3, <2>1 DEF Reacted, Sane, Context
  <2> QED
    BY <1>1, <1>5, <2>2, <2>3, <2>4 DEF P7Inv
<1> QED
  BY <1>1, <1>2, <1>6, <1>7

\* A context whose clock alone has moved on.
LEMMA LengthenedFields ==
    ASSUME NEW c \in Context, NEW dt \in Nat
    PROVE  LET d == [c EXCEPT !.elapsed_s = @ + dt]
           IN  /\ d \in Context /\ d.elapsed_s = c.elapsed_s + dt
               /\ d.nonblocking_s = c.nonblocking_s
               /\ d.degraded = c.degraded /\ d.default_unit = c.default_unit
               /\ d.faults_seen = c.faults_seen /\ d.tokens = c.tokens
<1> DEFINE e == c.elapsed_s + dt
<1>1. DOMAIN c = {"elapsed_s", "nonblocking_s", "request_start_ts",
     "concurrent_in_flight", "model_invocations", "service_calls",
     "services_called", "tokens", "content_scale",
     "components_touched", "faults_seen", "degraded", "default_unit"}
  BY DEF Context
<1>2. e \in Nat /\ [c EXCEPT !.elapsed_s = @ + dt] = [c EXCEPT !.elapsed_s = e]
  BY DEF Context
<1> HIDE DEF e
<1>3. [c EXCEPT !.elapsed_s = e] \in Context
  BY <1>2 DEF Context
<1>4. LET d == [c EXCEPT !.elapsed_s = e]
      IN  /\ d.elapsed_s = e /\ d.nonblocking_s = c.nonblocking_s
          /\ d.degraded = c.degraded /\ d.default_unit = c.default_unit
          /\ d.faults_seen = c.faults_seen /\ d.tokens = c.tokens
  BY <1>1, Zenon
<1> QED
  BY <1>2, <1>3, <1>4 DEF e

\* The remote cluster's context answers for the same cell.
LEMMA RemoteReply ==
    ASSUME FrameInv, Serving, NEW r \in RemoteCall
    PROVE  Answers(remote_ctx, r, Hit, 1)
<1>1. remote_ctx \in Context /\ WellArmed(armed) /\ AllHits(armed) = Hit
  BY ArmedNow DEF FrameInv
<1>2. Len(<<"remote_work">>) \in Nat
  OBVIOUS
<1>3. /\ Hits(armed, "model_backend", remote_ctx.default_unit) \subseteq Hit
      /\ ScriptHits(armed, remote_ctx, <<"remote_work">>) \subseteq Hit
  BY <1>1, AnyHits
<1>4. CASE r \in send(armed, remote_ctx, <<"remote_work">>)
  <2>1. Responds(remote_ctx, r, Hit, 1)
    BY <1>1, <1>2, <1>3, <1>4, SendResponds
  <2> QED
    BY <2>1 DEF Responds
<1>5. CASE r \in invoke_agent(armed, remote_ctx)
  <2>1. Responds(remote_ctx, r, Hits(armed, "model_backend", remote_ctx.default_unit), 1)
    BY <1>1, <1>5, InvokeAgentResponds
  <2>2. Responds(remote_ctx, r, Hit, 1)
    BY <1>3, <2>1, RespondsWider
  <2> QED
    BY <2>2 DEF Responds
<1> QED
  BY <1>4, <1>5 DEF RemoteCall

LEMMA FederatedWorkStep ==
    ASSUME FrameInv, P7Inv, FederatedWork, Unmoved
    PROVE  FrameInv' /\ P7Inv' /\ pattern = "P7"
<1>1. pc = "P7.remote" /\ Serving /\ pattern = "P7" /\ Sane(ctx)
  BY P7Serves DEF FederatedWork
<1> DEFINE After(rtt, dt) == [add_delay(ctx, rtt, TRUE) EXCEPT !.elapsed_s = @ + dt]
<1>2. PICK rtt \in LatencySamples, r \in RemoteCall :
         /\ remote_ctx' = r.ctx
         /\ ReturnFederated(After(rtt, r.ctx.elapsed_s - remote_ctx.elapsed_s), r)
  BY DEF FederatedWork
<1> DEFINE dt == r.ctx.elapsed_s - remote_ctx.elapsed_s
           a == add_delay(ctx, rtt, TRUE)
           b == After(rtt, dt)
           mark == b.degraded \/ ~r.ok
           d == [b EXCEPT !.degraded = mark]
<1>3. Answers(remote_ctx, r, Hit, 1) /\ remote_ctx \in Context /\ r.ctx \in Context
      /\ remote_ctx.faults_seen \subseteq Hit /\ r.ok \in BOOLEAN
  BY <1>1, <1>2, RemoteReply DEF FrameInv, Answers, Response
<1>4. dt \in Nat /\ rtt \in Nat /\ work_steps \in Nat
  <2>1. r.ctx.elapsed_s \in Nat /\ remote_ctx.elapsed_s \in Nat
        /\ remote_ctx.elapsed_s <= r.ctx.elapsed_s
    BY <1>3 DEF Answers, Later, Context
  <2> QED
    BY <2>1, WorkTypes, TimingAssumption
<1>5. Return(d, "ok")
  BY <1>2, Zenon DEF ReturnFederated
<1> HIDE DEF dt
<1>6. Sane(a) /\ a.tokens = ctx.tokens /\ a \in Context
  BY <1>1, <1>4, SaneDelayed DEF Sane
<1> HIDE DEF a
<1>7. /\ b \in Context /\ b.elapsed_s = a.elapsed_s + dt
      /\ b.nonblocking_s = a.nonblocking_s
      /\ b.degraded = a.degraded /\ b.default_unit = a.default_unit
      /\ b.faults_seen = a.faults_seen /\ b.tokens = a.tokens
  <2>1. b = [a EXCEPT !.elapsed_s = @ + dt]
    BY DEF a
  <2> HIDE DEF b
  <2> QED
    BY <1>4, <1>6, <2>1, LengthenedFields
<1> HIDE DEF b
<1>8. mark = ~r.ok /\ mark \in BOOLEAN
  BY <1>3, <1>6, <1>7 DEF Sane
<1> HIDE DEF mark
<1>9. /\ d \in Context /\ d.degraded = mark
      /\ d.elapsed_s = b.elapsed_s /\ d.nonblocking_s = b.nonblocking_s
      /\ d.default_unit = b.default_unit /\ d.faults_seen = b.faults_seen
      /\ d.tokens = b.tokens
  BY <1>7, <1>8, MarkedFields
<1> HIDE DEF d
<1>10. /\ d.default_unit = NoUnit /\ d.faults_seen \subseteq Hit
       /\ d.nonblocking_s <= d.elapsed_s /\ d.tokens = ctx.tokens
  <2>1. a.elapsed_s \in Nat /\ a.nonblocking_s \in Nat
    BY <1>6 DEF Context
  <2> QED
    BY <1>4, <1>6, <1>7, <1>9, <2>1 DEF Sane
<1>11. /\ remote_ctx' \in Context /\ remote_ctx'.faults_seen \subseteq Hit
       /\ remote_ctx'.default_unit = remote_ctx.default_unit
  BY <1>2, <1>3 DEF Answers, Later
<1>12. d.degraded \/ "ok" # "ok" =>
         Fatal /\ (d.faults_seen # {} \/ (pattern = "P7" /\ remote_ctx'.faults_seen # {}))
  <2>1. ~r.ok => Fatal /\ r.ctx.faults_seen # {}
    BY <1>3, FailureIsHit
  <2> QED
    BY <1>1, <1>2, <1>8, <1>9, <2>1
<1>13. /\ FrameInv' /\ ctx' = d /\ pc' = "returned" /\ result' = "ok"
       /\ UNCHANGED <<item, platform, armed>>
  <2>1. PICK status \in {"ok", "error", "timeout"} : status = "ok"
    OBVIOUS
  <2>2. Return(d, status) /\ d \in Context
        /\ (d.degraded \/ status # "ok" =>
             Fatal /\ (d.faults_seen # {} \/ (pattern = "P7" /\ remote_ctx'.faults_seen # {})))
    BY <1>5, <1>9, <1>12, <2>1
  <2>3. /\ FrameInv' /\ ctx' = d /\ pc' = "returned" /\ result' = status
        /\ UNCHANGED <<item, platform, armed>>
    BY <1>1, <1>10, <1>11, <2>2, ReturnKeepsFrame, Zenon
  <2> QED
    BY <2>1, <2>3
<1>14. UNCHANGED <<pattern, cell, work_steps>>
  BY <1>13, SameCell, SameWork
<1>15. work_steps <= ctx.tokens /\ remote_ctx.default_unit = RemoteUnit
  BY <1>1 DEF P7Inv
<1> QED
  BY <1>1, <1>8, <1>9, <1>10, <1>11, <1>13, <1>14, <1>15 DEF P7Inv

LEMMA P7Step ==
    ASSUME CampaignInv, P7Next, Unmoved,
           UNCHANGED <<fanout, stage, choreography, blackboard, gateway, hitl>>
    PROVE  CampaignInv'
<1>1. FrameInv' /\ P7Inv' /\ pattern = "P7"
  BY LocalWorkStep, FederatedWorkStep DEF CampaignInv, P7Next
<1>2. UNCHANGED pattern
  BY SameCell
<1> QED
  BY <1>1, <1>2, RecordsStay, OthersStay DEF CampaignInv

(***************************************************************************)
(* The requests of a cell                                                  *)
(***************************************************************************)
\* A request starts with fresh accumulators, on an item with a fresh id.
LEMMA RequestStarts ==
    ASSUME FrameInv, RecordsInv, pc = "idle", Len(per_request) < MaxRequests,
           NEW shape \in Items, NEW start \in Starts,
           NEW inFlight \in 1..Min({concurrency, Len(per_request) + 1}),
           NEW i, i = [shape EXCEPT !.id = Len(per_request) + 1],
           NEW entry, Labels(pattern, entry), run(i, start, inFlight, entry),
           UNCHANGED remote_ctx, Unmoved
    PROVE  /\ FrameInv' /\ Serving' /\ item' \in Item
           /\ pc' = entry /\ result' = "none"
           /\ ctx'.faults_seen = {} /\ ctx'.nonblocking_s = 0
           /\ ctx'.model_invocations = 0 /\ ctx'.tokens = 0
<1> DEFINE n == Len(per_request) + 1
           d == ctx'
<1>1. n \in Nat /\ MaxRequests \in Nat
  BY CampaignAssumption DEF RecordsInv
<1>2. i \in Item /\ i.id = n /\ IsShape(i)
  <2>1. shape \in Item
    BY ItemsAssumption
  <2>2. i \in Item /\ i.id = n
    BY <1>1, <2>1 DEF Item
  <2> QED
    BY <1>1, <2>2 DEF IsShape
<1>3. start \in Nat /\ inFlight \in Nat
  <2>1. Min({concurrency, n}) \in Nat
    <3>1. \E x \in {concurrency, n} : \A y \in {concurrency, n} : x <= y
      BY <1>1, CampaignAssumption
    <3> QED
      BY <1>1, <3>1, CampaignAssumption DEF Min
  <2> QED
    BY <2>1, CampaignAssumption
<1>4. /\ d \in Context /\ d.default_unit = NoUnit /\ d.faults_seen = {} /\ ~d.degraded
      /\ d.elapsed_s = 0 /\ d.nonblocking_s = 0
      /\ d.model_invocations = 0 /\ d.tokens = 0
  <2> DEFINE c == [ctx EXCEPT !.request_start_ts = start, !.concurrent_in_flight = inFlight]
  <2>1. c.default_unit = NoUnit /\ c.request_start_ts = start /\ c.concurrent_in_flight = inFlight
    BY DEF FrameInv, Context
  <2>2. d = reset_request(c)
    BY DEF run
  <2> HIDE DEF c
  <2>3. d = [build(NoUnit) EXCEPT !.request_start_ts = start, !.concurrent_in_flight = inFlight]
    BY <2>1, <2>2 DEF reset_request
  <2> HIDE DEF d
  <2>4. d = [elapsed_s |-> 0, nonblocking_s |-> 0, request_start_ts |-> start,
             concurrent_in_flight |-> inFlight, model_invocations |-> 0, service_calls |-> 0,
             services_called |-> 0, tokens |-> 0, content_scale |-> 1,
             components_touched |-> {}, faults_seen |-> {},
             degraded |-> FALSE, default_unit |-> NoUnit]
    BY <2>3 DEF build
  <2>5. /\ d.default_unit = NoUnit /\ d.faults_seen = {} /\ ~d.degraded
        /\ d.elapsed_s = 0 /\ d.nonblocking_s = 0
        /\ d.model_invocations = 0 /\ d.tokens = 0
    BY <2>4
  <2>6. d \in Context
    BY <1>3, <2>4 DEF Context
  <2> QED
    BY <2>5, <2>6
<1>5. item' = i /\ pc' = entry /\ result' = "none" /\ UNCHANGED <<platform, armed>>
  BY DEF run
<1>6. entry \notin {"idle", "returned", "ended"}
  BY DEF Labels
<1>7. Hit' = Hit /\ UNCHANGED <<pattern, cell, per_request>>
  BY SameCell
<1>8. Serving' /\ Labels(pattern, pc)'
  BY <1>5, <1>6, <1>7 DEF Serving, Labels
<1>9. result' \in Status /\ pc' # "ended" /\ pc # "ended" /\ pc' # "returned" /\ IsShape(item')
  BY <1>2, <1>5, <1>6 DEF Status
<1> HIDE DEF d
<1>10. ctx' = d
  BY DEF d
<1> QED
  BY <1>1, <1>2, <1>4, <1>5, <1>7, <1>8, <1>9, <1>10 DEF FrameInv

LEMMA StartStep ==
    ASSUME CampaignInv, StartRequest
    PROVE  CampaignInv' /\ pc' # "ended"
<1>1. pc = "idle" /\ Len(per_request) < MaxRequests /\ Unmoved
  BY DEF StartRequest, campaign, Unmoved
<1>2. PICK shape \in Items, start \in Starts,
           inFlight \in 1..Min({concurrency, Len(per_request) + 1}) :
        LET i == [shape EXCEPT !.id = Len(per_request) + 1] IN
        CASE pattern = "P1" -> P1Begin(i, start, inFlight) /\ UNCHANGED <<stage, choreography, blackboard, gateway, hitl, remote_ctx>>
          [] pattern = "P2" -> P2Begin(i, start, inFlight) /\ UNCHANGED <<fanout, choreography, blackboard, gateway, hitl, remote_ctx>>
          [] pattern = "P3" -> P3Begin(i, start, inFlight) /\ UNCHANGED <<fanout, stage, blackboard, gateway, hitl, remote_ctx>>
          [] pattern = "P4" -> P4Begin(i, start, inFlight) /\ UNCHANGED <<fanout, stage, choreography, gateway, hitl, remote_ctx>>
          [] pattern = "P5" -> P5Begin(i, start, inFlight) /\ UNCHANGED <<fanout, stage, choreography, blackboard, hitl, remote_ctx>>
          [] pattern = "P6" -> P6Begin(i, start, inFlight) /\ UNCHANGED <<fanout, stage, choreography, blackboard, gateway, remote_ctx>>
          [] pattern = "P7" -> P7Begin(i, start, inFlight) /\ UNCHANGED <<fanout, stage, choreography, blackboard, gateway, hitl>>
  BY DEF StartRequest
<1> DEFINE i == [shape EXCEPT !.id = Len(per_request) + 1]
<1>3. pattern \in {"P1", "P2", "P3", "P4", "P5", "P6", "P7"}
  BY CampaignAssumption DEF CampaignInv, FrameInv
<1>4. UNCHANGED <<pattern, per_request>> /\ RecordsInv'
  BY <1>1, SameCell, RecordsStay DEF CampaignInv
<1>5. ASSUME NEW entry, Labels(pattern, entry), run(i, start, inFlight, entry), UNCHANGED remote_ctx
      PROVE  /\ FrameInv' /\ Serving' /\ item' \in Item
             /\ pc' = entry /\ result' = "none"
             /\ ctx'.faults_seen = {} /\ ctx'.nonblocking_s = 0
             /\ ctx'.model_invocations = 0 /\ ctx'.tokens = 0
  BY <1>1, <1>5, RequestStarts DEF CampaignInv
<1> HIDE DEF i
<1>6. CASE pattern = "P1"
  <2>1. P1Begin(i, start, inFlight) /\ UNCHANGED <<stage, choreography, blackboard, gateway, hitl, remote_ctx>>
    BY <1>2, <1>6 DEF i
  <2>2. /\ FrameInv' /\ pc' = "P1.plan" /\ ctx'.faults_seen = {} /\ ctx'.nonblocking_s = 0
        /\ ctx'.model_invocations = 0
    BY <1>5, <1>6, <2>1 DEF P1Begin, Labels
  <2>3. fanout' \in FanoutType
    BY <2>1 DEF P1Begin, NoFanout, FanoutType
  <2>4. P1Inv'
    BY <2>2, <2>3 DEF P1Inv, Clean
  <2> QED
    BY <1>4, <1>6, <2>1, <2>2, <2>4, OthersStay DEF CampaignInv
<1>7. CASE pattern = "P2"
  <2>1. P2Begin(i, start, inFlight) /\ UNCHANGED <<fanout, choreography, blackboard, gateway, hitl, remote_ctx>>
    BY <1>2, <1>7 DEF i
  <2>2. /\ FrameInv' /\ pc' = "P2.stage" /\ ctx'.faults_seen = {}
        /\ ctx'.model_invocations = 0 /\ ctx'.tokens = 0 /\ item' \in Item
    BY <1>5, <1>7, <2>1 DEF P2Begin, Labels
  <2>3. stage' = 0 /\ stages' \in Nat \ {0}
    BY <2>1, <2>2, ItemTypes DEF P2Begin, stages
  <2>4. P2Inv'
    BY <2>2, <2>3 DEF P2Inv, Clean
  <2> QED
    BY <1>4, <1>7, <2>1, <2>2, <2>4, OthersStay DEF CampaignInv
<1>8. CASE pattern = "P3"
  <2>1. P3Begin(i, start, inFlight) /\ UNCHANGED <<fanout, stage, blackboard, gateway, hitl, remote_ctx>>
    BY <1>2, <1>8 DEF i
  <2>2. /\ FrameInv' /\ pc' \in {"P3.hop", "P3.publish"} /\ ctx'.model_invocations = 0
    BY <1>5, <1>8, <2>1 DEF P3Begin, Labels
  <2>3. /\ subscriptions' \in {0, 1} /\ request_log' = <<>> /\ deliveries' = <<>>
        /\ EventChain \in Nat /\ EventChain >= 2
    BY <2>1, ChainAssumption DEF P3Begin, CampaignInv, P3Inv
  <2>4. <<>> = [k \in 1..0 |-> k] /\ <<>> \in Seq(1..EventChain) /\ Len(<<>>) = 0
    OBVIOUS
  <2>5. P3Inv'
    BY <2>2, <2>3, <2>4 DEF P3Inv, Enriched
  <2> QED
    BY <1>4, <1>8, <2>1, <2>2, <2>5, OthersStay DEF CampaignInv
<1>9. CASE pattern = "P4"
  <2>1. P4Begin(i, start, inFlight) /\ UNCHANGED <<fanout, stage, choreography, gateway, hitl, remote_ctx>>
    BY <1>2, <1>9 DEF i
  <2>2. /\ FrameInv' /\ pc' \in {"P4.create", "P4.store"} /\ item' \in Item
        /\ ctx'.faults_seen = {} /\ ctx'.tokens = 0
    BY <1>5, <1>9, <2>1 DEF P4Begin, Labels
  <2>3. board' = <<>> /\ boardRead' = <<>> /\ turn' = 0
    BY <2>1 DEF P4Begin
  <2>4. PerTurn' \in Nat /\ n_specialists \in Nat \ {0}
    BY <2>2, ItemTypes, BlackboardAssumption DEF PerTurn, share, work_steps
  <2>5. <<>> \in Seq(1..n_specialists) /\ Len(<<>>) = 0 /\ ToSet(<<>>) = 1..0
    BY DEF ToSet
  <2>6. turn' * PerTurn' = 0 /\ turn' * PerTurn' <= ctx'.tokens
    <3>1. \A m \in Nat : 0 * m = 0
      OBVIOUS
    <3>2. turn' * PerTurn' = 0
      BY <2>3, <2>4, <3>1
    <3> QED
      BY <2>2, <3>2
  <2>7. (Len(board) = turn * PerTurn /\ ToSet(board) = 1..turn)'
    BY <2>3, <2>5, <2>6
  <2>8. P4Inv'
    <3>1. Clean' /\ pc' \notin {"P4.read", "P4.contribute", "P4.write", "returned"}
      BY <2>2 DEF Clean
    <3>2. board' \in Seq(1..n_specialists) /\ boardRead' \in Seq(1..n_specialists)
          /\ turn' \in 0..n_specialists /\ turn' < n_specialists
      BY <2>3, <2>4, <2>5
    <3> QED
      BY <2>3, <2>6, <2>7, <3>1, <3>2 DEF P4Inv
  <2> QED
    BY <1>4, <1>9, <2>1, <2>2, <2>8, OthersStay DEF CampaignInv
<1>10. CASE pattern = "P5"
  <2>1. P5Begin(i, start, inFlight) /\ UNCHANGED <<fanout, stage, choreography, blackboard, hitl, remote_ctx>>
    BY <1>2, <1>10 DEF i
  <2>2. FrameInv' /\ pc' = "P5.route"
    BY <1>5, <1>10, <2>1 DEF P5Begin, Labels
  <2>3. P5Inv'
    BY <2>1, <2>2 DEF P5Begin, P5Inv
  <2> QED
    BY <1>4, <1>10, <2>1, <2>2, <2>3, OthersStay DEF CampaignInv
<1>11. CASE pattern = "P6"
  <2>1. P6Begin(i, start, inFlight) /\ UNCHANGED <<fanout, stage, choreography, blackboard, gateway, remote_ctx>>
    BY <1>2, <1>11 DEF i
  <2>2. FrameInv' /\ pc' = "P6.draft"
    BY <1>5, <1>11, <2>1 DEF P6Begin, Labels
  <2>3. decision' = "none" /\ UNCHANGED <<paused, adjudication, decision_log, deferred>>
    BY <2>1 DEF P6Begin
  <2>4. P6Inv'
    BY <1>1, <1>4, <1>11, <2>2, <2>3 DEF P6Inv, Decision, CampaignInv
  <2> QED
    BY <1>4, <1>11, <2>1, <2>2, <2>4, OthersStay DEF CampaignInv
<1>12. CASE pattern = "P7"
  <2>1. P7Begin(i, start, inFlight) /\ UNCHANGED <<fanout, stage, choreography, blackboard, gateway, hitl>>
    BY <1>2, <1>12 DEF i
  <2>2. FrameInv' /\ pc' = "P7.local" /\ UNCHANGED remote_ctx
    BY <1>5, <1>12, <2>1 DEF P7Begin, Labels
  <2>3. P7Inv'
    BY <2>2 DEF P7Inv, CampaignInv
  <2> QED
    BY <1>4, <1>12, <2>1, <2>2, <2>3, OthersStay DEF CampaignInv
<1> QED
  BY <1>3, <1>6, <1>7, <1>8, <1>9, <1>10, <1>11, <1>12

\* The record of a returned request, and why it is sound.
NewRecord ==
    [traversed |-> \E seen \in Observed : seen[1] = cell.component,
     ok        |-> result = "ok",
     degraded  |-> ctx.degraded]

LEMMA NewRecordOK ==
    ASSUME CampaignInv, pc = "returned" PROVE RecordOK(NewRecord)
<1> DEFINE r == NewRecord
<1>1. /\ r.traversed = (\E seen \in Observed : seen[1] = cell.component)
      /\ r.ok = (result = "ok") /\ r.degraded = ctx.degraded
  BY DEF NewRecord
<1>2. Observed \subseteq Hit
  BY DEF CampaignInv, FrameInv, Observed
<1>3. Observed # {} => r.traversed
  BY <1>1, <1>2 DEF Hit
<1> HIDE DEF r
<1>4. ~r.ok \/ r.degraded => r.traversed /\ Fatal
  BY <1>1, <1>3 DEF CampaignInv, FrameInv, Harmful
<1>5. pattern \in {"P1", "P2", "P4"} /\ Fatal /\ r.traversed => ~r.ok
  <2> SUFFICES ASSUME pattern \in {"P1", "P2", "P4"}, Fatal, r.traversed, result = "ok"
               PROVE  FALSE
    BY <1>1
  <2>1. Spared
    BY DEF CampaignInv, P1Inv, P2Inv, P4Inv
  <2>2. ctx.faults_seen = {}
    BY <2>1 DEF Spared, Clean
  <2>3. Observed = {}
    BY <2>2 DEF Observed
  <2> QED
    BY <1>1, <2>3
<1>6. pattern = "P5" /\ cell.component = "tool" /\ Len(Tools) > 1 => r.ok
  <2> SUFFICES ASSUME pattern = "P5", cell.component = "tool", Len(Tools) > 1
               PROVE  ~all_failed
    BY <1>1 DEF CampaignInv, P5Inv
  <2>1. failures \subseteq {Tools[1]}
    BY DEF CampaignInv, P5Inv
  <2>2. 1 \in DOMAIN Tools /\ 2 \in DOMAIN Tools
    BY ToolsAssumption
  <2>3. Tools[1] # Tools[2]
    BY <2>2, ToolsAssumption DEF IsInjective
  <2>4. Tools[2] \in ToSet(Tools)
    BY <2>2 DEF ToSet
  <2> QED
    BY <2>1, <2>3, <2>4 DEF all_failed
<1>7. pattern = "P6" /\ cell.component = "human_queue" => r.ok /\ ~r.degraded
  BY <1>1 DEF CampaignInv, P6Inv
<1>8. pattern = "P7" /\ cell.component = "model_backend" => r.ok
  BY <1>1 DEF CampaignInv, P7Inv
<1> QED
  BY <1>4, <1>5, <1>6, <1>7, <1>8 DEF RecordOK, r

LEMMA RecordStep ==
    ASSUME CampaignInv, RecordRequest PROVE CampaignInv'
<1>1. /\ pc = "returned" /\ pc' = "idle" /\ per_request' = Append(per_request, NewRecord)
      /\ UNCHANGED <<platform, armed, ctx, item, result, pattern, cell>>
      /\ UNCHANGED patternVars
  BY DEF RecordRequest, NewRecord
<1>2. UNCHANGED <<fanout, stage, choreography, blackboard, gateway, hitl, remote_ctx>>
  BY <1>1 DEF patternVars
<1>3. Hit' = Hit /\ Fatal' = Fatal /\ ~Serving'
  BY <1>1 DEF Hit, Fatal, Serving
<1>4. item.id = Len(per_request) + 1 /\ Len(per_request) < MaxRequests
  BY <1>1 DEF CampaignInv, FrameInv
<1>5. FrameInv'
  BY <1>1, <1>2, <1>3 DEF CampaignInv, FrameInv
<1>6. /\ per_request' \in Seq([traversed : BOOLEAN, ok : BOOLEAN, degraded : BOOLEAN])
      /\ Len(per_request') = Len(per_request) + 1 /\ Len(per_request) \in Nat
  <2>1. ctx.degraded \in BOOLEAN
    BY DEF CampaignInv, FrameInv, Context
  <2>2. NewRecord \in [traversed : BOOLEAN, ok : BOOLEAN, degraded : BOOLEAN]
    BY <2>1 DEF NewRecord
  <2>3. per_request \in Seq([traversed : BOOLEAN, ok : BOOLEAN, degraded : BOOLEAN])
    BY DEF CampaignInv, RecordsInv
  <2> HIDE DEF NewRecord
  <2> QED
    BY <1>1, <2>2, <2>3
<1>7. ASSUME NEW k \in DOMAIN per_request' PROVE RecordOK(per_request'[k])
  <2>1. per_request \in Seq([traversed : BOOLEAN, ok : BOOLEAN, degraded : BOOLEAN])
        /\ \A j \in DOMAIN per_request : RecordOK(per_request[j])
    BY DEF CampaignInv, RecordsInv
  <2>2. CASE k \in DOMAIN per_request
    BY <1>1, <2>1, <2>2
  <2>3. CASE k \notin DOMAIN per_request
    <3>1. per_request'[k] = NewRecord
      BY <1>1, <1>6, <2>1, <2>3
    <3> QED
      BY <1>1, <3>1, NewRecordOK
  <2> QED
    BY <2>2, <2>3
<1>8. RecordsInv'
  <2>1. Len(per_request') <= MaxRequests
    BY <1>4, <1>6, CampaignAssumption
  <2>2. UNCHANGED <<pattern, cell, Fatal>>
    BY <1>1, <1>3
  <2> QED
    BY <1>6, <1>7, <2>1, <2>2 DEF RecordsInv, RecordOK
<1>9. P1Inv' /\ P2Inv' /\ P7Inv'
  BY <1>1, <1>2 DEF CampaignInv, P1Inv, P2Inv, P7Inv
<1>10. P3Inv' /\ P4Inv' /\ P5Inv'
  BY <1>1, <1>2, <1>3
     DEF CampaignInv, P3Inv, P4Inv, P5Inv, choreography, blackboard, gateway
<1>11. P6Inv'
  <2>1. UNCHANGED <<paused, adjudication, decision_log, deferred, decision>>
    BY <1>2 DEF hitl
  <2>2. pattern = "P6" => \A k \in DOMAIN decision_log : decision_log[k] <= Len(per_request')
    <3>1. decision_log \in Seq(1..MaxRequests)
      BY DEF CampaignInv, P6Inv
    <3>2. \A k \in DOMAIN decision_log : decision_log[k] \in Int
      <4>1. \A k \in DOMAIN decision_log : decision_log[k] \in 1..MaxRequests
        BY <3>1, ElementOfSeq, LenProperties
      <4> QED
        BY <4>1
    <3> QED
      BY <1>4, <1>6, <3>2 DEF CampaignInv, P6Inv
  <2> QED
    BY <1>1, <1>3, <2>1, <2>2 DEF CampaignInv, P6Inv
<1> QED
  BY <1>5, <1>8, <1>9, <1>10, <1>11 DEF CampaignInv

LEMMA EndStep ==
    ASSUME CampaignInv, EndCell PROVE CampaignInv'
<1>1. /\ pc = "idle" /\ pc' = "ended"
      /\ UNCHANGED <<platform, ctx, item, result, pattern, cell, per_request>>
      /\ UNCHANGED <<fanout, stage, choreography, blackboard, gateway, hitl, remote_ctx>>
  BY DEF EndCell, patternVars
<1>2. Hit' = Hit /\ Fatal' = Fatal /\ ~Serving'
  BY <1>1 DEF Hit, Fatal, Serving
<1>3. FrameInv' /\ RecordsInv'
  BY <1>1, <1>2 DEF CampaignInv, FrameInv, RecordsInv, RecordOK
<1>4. P1Inv' /\ P2Inv' /\ P7Inv'
  BY <1>1, <1>2 DEF CampaignInv, P1Inv, P2Inv, P7Inv
<1>5. P3Inv' /\ P4Inv' /\ P5Inv' /\ P6Inv'
  BY <1>1, <1>2
     DEF CampaignInv, P3Inv, P4Inv, P5Inv, P6Inv, choreography, blackboard, gateway, hitl
<1> QED
  BY <1>3, <1>4, <1>5 DEF CampaignInv

\* A request that is being served goes on or returns.
LEMMA PatternGoesOn == ASSUME PatternStep PROVE pc' # "ended" /\ Unmoved
<1>1. Unmoved
  BY DEF PatternStep, campaign, Unmoved
<1>2. P1Next => pc' # "ended"
  BY DEF P1Next, Plan, RunBranch, JoinBranches, Synthesize, Goto, Return, Raise
<1>3. P2Next => pc' # "ended"
  BY DEF P2Next, RunStage, Goto, Return, Raise
<1>4. P3Next => pc' # "ended"
  BY DEF P3Next, Hop, PublishFirst, Deliver, ChainReturns, Goto, Return, Raise
<1>5. P4Next => pc' # "ended"
  BY DEF P4Next, CreateBoard, ReadBoard, Contribute, WriteBoard, StoreTurn, SendTurn,
         Goto, Return, Raise
<1>6. P5Next => pc' # "ended"
  BY DEF P5Next, Route, CallTool, FinishTools, AfterFailure, Goto, Return, Raise
<1>7. P6Next => pc' # "ended"
  BY DEF P6Next, Draft, PauseInMemory, RouteToHuman, PauseByHandoff, Review, Goto, Return, Raise
<1>8. P7Next => pc' # "ended"
  BY DEF P7Next, LocalWork, FederatedWork, ReturnFederated, Goto, Return, Raise
<1> QED
  BY <1>1, <1>2, <1>3, <1>4, <1>5, <1>6, <1>7, <1>8 DEF PatternStep

LEMMA StutterStep ==
    ASSUME CampaignInv, UNCHANGED vars PROVE CampaignInv'
<1>1. /\ UNCHANGED <<platform, armed, ctx, item, pc, result, pattern, cell, per_request>>
      /\ UNCHANGED <<fanout, stage, choreography, blackboard, gateway, hitl, remote_ctx>>
  BY DEF vars, frame, patternVars, campaign
<1>2. Hit' = Hit /\ Fatal' = Fatal /\ Serving' = Serving /\ Harmful' = Harmful
  BY <1>1 DEF Hit, Fatal, Serving, Harmful, Observed
<1>3. FrameInv' /\ RecordsInv'
  BY <1>1, <1>2 DEF CampaignInv, FrameInv, RecordsInv, RecordOK
<1>4. UNCHANGED <<work_steps, steps_per_branch, stages, share, PerTurn, n_calls, all_failed,
                  sim_now(ctx), Clean, Spared, BusOutage, HumanOutage>>
  BY <1>1, <1>2, SameWork, SameNow
     DEF all_failed, gateway, Clean, Spared, BusOutage, HumanOutage
<1>5. P1Inv' /\ P2Inv' /\ P7Inv'
  BY <1>1, <1>2, <1>4 DEF CampaignInv, P1Inv, P2Inv, P7Inv
<1>6. P3Inv' /\ P4Inv'
  BY <1>1, <1>2, <1>4 DEF CampaignInv, P3Inv, P4Inv, choreography, blackboard
<1>7. P5Inv' /\ P6Inv'
  BY <1>1, <1>2, <1>4 DEF CampaignInv, P5Inv, P6Inv, gateway, hitl
<1> QED
  BY <1>3, <1>5, <1>6, <1>7 DEF CampaignInv

(***************************************************************************)
(* The campaign                                                            *)
(***************************************************************************)
LEMMA BuiltContext ==
    ASSUME NEW unit \in {NoUnit, RemoteUnit}
    PROVE  LET c == build(unit)
           IN  /\ c \in Context /\ c.default_unit = unit
               /\ c.faults_seen = {} /\ c.elapsed_s = 0 /\ c.nonblocking_s = 0
<1> DEFINE c == build(unit)
<1>1. c \in Context
  BY DEF build, Context
<1>2. /\ c.default_unit = unit /\ c.faults_seen = {}
      /\ c.elapsed_s = 0 /\ c.nonblocking_s = 0
  BY DEF build
<1> QED
  BY <1>1, <1>2

LEMMA CampaignStarts == ASSUME Init PROVE CampaignInv
<1>1. /\ pattern \in Patterns /\ platform \in {"bedrock", "agentforce"}
      /\ pattern \in {"P1", "P2", "P3", "P4", "P5", "P6", "P7"}
  BY CampaignAssumption DEF Init
<1>2. cell \in [component : Component, fault : Fault]
  <2>1. relevant_components(pattern, platform) \subseteq Component
    BY <1>1 DEF relevant_components, Component
  <2>2. Faults \subseteq Fault
    BY CampaignAssumption DEF Fault
  <2> QED
    BY <2>1, <2>2 DEF Init
<1>3. /\ pc = "idle" /\ result = "none" /\ item = NoItem /\ per_request = <<>>
      /\ armed = ArmedFor(pattern, cell.component, cell.fault)
      /\ ctx = build(NoUnit) /\ remote_ctx = build(RemoteUnit)
  BY DEF Init, P7Init
<1>4. /\ ctx \in Context /\ ctx.default_unit = NoUnit /\ ctx.faults_seen = {}
      /\ ctx.elapsed_s = 0 /\ ctx.nonblocking_s = 0
      /\ remote_ctx \in Context /\ remote_ctx.faults_seen = {}
      /\ remote_ctx.default_unit = RemoteUnit
  BY <1>3, BuiltContext
<1>5. item \in Item /\ result \in Status /\ ~Serving
  BY <1>3 DEF NoItem, Item, Status, Serving
<1>6. FrameInv
  BY <1>1, <1>2, <1>3, <1>4, <1>5 DEF FrameInv
<1>7. RecordsInv
  <2>1. <<>> \in Seq([traversed : BOOLEAN, ok : BOOLEAN, degraded : BOOLEAN])
        /\ Len(<<>>) = 0 /\ DOMAIN <<>> = {}
    OBVIOUS
  <2> QED
    BY <1>3, <2>1, CampaignAssumption DEF RecordsInv
<1>8. P1Inv /\ P2Inv /\ P7Inv
  <2>1. NoFanout \in FanoutType
    BY DEF NoFanout, FanoutType
  <2> QED
    BY <1>3, <1>4, <2>1 DEF Init, P1Init, P2Init, P1Inv, P2Inv, P7Inv
<1>9. P3Inv /\ P4Inv /\ P5Inv
  <2>1. <<>> \in Seq(1..EventChain) /\ <<>> \in Seq(1..n_specialists)
        /\ 0 \in 0..n_specialists
    BY BlackboardAssumption
  <2> QED
    BY <1>3, <1>5, <2>1 DEF Init, P3Init, P4Init, P5Init, P3Inv, P4Inv, P5Inv
<1>10. P6Inv
  <2>1. <<>> \in Seq(1..MaxRequests) /\ DOMAIN <<>> = {}
    OBVIOUS
  <2> QED
    BY <1>3, <1>5, <2>1 DEF Init, P6Init, P6Inv, Decision
<1> QED
  BY <1>6, <1>7, <1>8, <1>9, <1>10 DEF CampaignInv

LEMMA PatternKeeps == ASSUME CampaignInv, PatternStep PROVE CampaignInv'
<1>1. Unmoved
  BY PatternGoesOn
<1>2. CASE P1Next /\ UNCHANGED <<stage, choreography, blackboard, gateway, hitl, remote_ctx>>
  BY <1>1, <1>2, P1Step
<1>3. CASE P2Next /\ UNCHANGED <<fanout, choreography, blackboard, gateway, hitl, remote_ctx>>
  BY <1>1, <1>3, P2Step
<1>4. CASE P3Next /\ UNCHANGED <<fanout, stage, blackboard, gateway, hitl, remote_ctx>>
  BY <1>1, <1>4, P3Step
<1>5. CASE P4Next /\ UNCHANGED <<fanout, stage, choreography, gateway, hitl, remote_ctx>>
  BY <1>1, <1>5, P4Step
<1>6. CASE P5Next /\ UNCHANGED <<fanout, stage, choreography, blackboard, hitl, remote_ctx>>
  BY <1>1, <1>6, P5Step
<1>7. CASE P6Next /\ UNCHANGED <<fanout, stage, choreography, blackboard, gateway, remote_ctx>>
  BY <1>1, <1>7, P6Step
<1>8. CASE P7Next /\ UNCHANGED <<fanout, stage, choreography, blackboard, gateway, hitl>>
  BY <1>1, <1>8, P7Step
<1> QED
  BY <1>2, <1>3, <1>4, <1>5, <1>6, <1>7, <1>8 DEF PatternStep

\* The cell is classified from the records it ends with.
EndedInv == pc = "ended" => classification = classify_cell(per_request)

LEMMA EndedKept == ASSUME CampaignInv, EndedInv, [Next]_vars PROVE EndedInv'
<1>1. CASE StartRequest
  BY <1>1, StartStep DEF EndedInv
<1>2. CASE PatternStep
  BY <1>2, PatternGoesOn DEF EndedInv
<1>3. CASE RecordRequest
  BY <1>3 DEF RecordRequest, EndedInv
<1>4. CASE EndCell
  <2>1. classification' = classify_cell(per_request) /\ UNCHANGED per_request
    BY <1>4 DEF EndCell
  <2> QED
    BY <2>1 DEF EndedInv, classify_cell, Traversing
<1>5. CASE UNCHANGED vars
  BY <1>5 DEF vars, frame, campaign, EndedInv, classify_cell, Traversing
<1> QED
  BY <1>1, <1>2, <1>3, <1>4, <1>5 DEF Next

\* Whatever the cell, the frame of every request, what the finished ones
\* recorded, and the state of the seven patterns stay as described above.
THEOREM CampaignInvariant == Spec => [](CampaignInv /\ EndedInv)
<1>1. Init => CampaignInv /\ EndedInv
  <2>1. Init => EndedInv
    BY DEF Init, EndedInv
  <2> QED
    BY <2>1, CampaignStarts
<1>2. CampaignInv /\ EndedInv /\ [Next]_vars => (CampaignInv /\ EndedInv)'
  <2> SUFFICES ASSUME CampaignInv, EndedInv, [Next]_vars PROVE CampaignInv' /\ EndedInv'
    OBVIOUS
  <2>1. CampaignInv'
    BY StartStep, PatternKeeps, RecordStep, EndStep, StutterStep DEF Next
  <2> QED
    BY <2>1, EndedKept
<1> QED
  BY <1>1, <1>2, PTL DEF Spec

\* TypeOK: every variable of the campaign stays within its type.
THEOREM CampaignTypes == Spec => []TypeOK
<1>1. CampaignInv => TypeOK
  BY DEF CampaignInv, FrameInv, RecordsInv, P1Inv, P2Inv, P3Inv, P4Inv, P5Inv, P6Inv, TypeOK
<1> QED
  BY <1>1, CampaignInvariant, PTL

\* UntraversedUnharmed: a request whose calls met no fault of the cell ends
\* ok and undegraded, whatever earlier requests left in the pattern object.
THEOREM NoHarmWithoutFault == Spec => []UntraversedUnharmed
<1>1. CampaignInv => UntraversedUnharmed
  BY DEF CampaignInv, RecordsInv, RecordOK, UntraversedUnharmed
<1> QED
  BY <1>1, CampaignInvariant, PTL

\* BusOutageAbsorbedUpToRounding: an outage of the event bus fails a request
\* of P3 only when its redelivery came a rounding error before the window's end.
THEOREM BusOutageOnlyLostToRounding == Spec => []BusOutageAbsorbedUpToRounding
<1>1. CampaignInv => BusOutageAbsorbedUpToRounding
  BY DEF CampaignInv, P3Inv, BusOutage, Returned, BusOutageAbsorbedUpToRounding
<1> QED
  BY <1>1, CampaignInvariant, PTL

\* BulkheadHolds: with more than one tool, a fault of the first one costs P5
\* that tool's work only, and marks the request degraded exactly then.
THEOREM BulkheadContains ==
    ASSUME Len(Tools) > 1
    PROVE  Spec => []BulkheadHolds
<1>1. ASSUME CampaignInv, Returned, pattern = "P5", cell.component = "tool"
      PROVE  /\ result = "ok"
             /\ ToSet(Tools) \ {Tools[1]} \subseteq tool_results
             /\ failures \subseteq {Tools[1]}
             /\ ctx.degraded <=> failures # {}
  <2>1. /\ tool_results \cup failures = ToSet(Tools) /\ failures \subseteq {Tools[1]}
        /\ result = (IF all_failed THEN "error" ELSE "ok")
        /\ (ctx.degraded <=> failures # {} /\ ~all_failed)
    BY <1>1 DEF CampaignInv, P5Inv, Returned
  <2>2. ~all_failed
    <3>1. 1 \in DOMAIN Tools /\ 2 \in DOMAIN Tools
      BY ToolsAssumption
    <3>2. Tools[1] # Tools[2]
      BY <3>1, ToolsAssumption DEF IsInjective
    <3>3. Tools[2] \in ToSet(Tools)
      BY <3>1 DEF ToSet
    <3> QED
      BY <2>1, <3>2, <3>3 DEF all_failed
  <2> QED
    BY <2>1, <2>2
<1>2. CampaignInv => BulkheadHolds
  BY <1>1 DEF BulkheadHolds
<1> QED
  BY <1>2, CampaignInvariant, PTL

\* HumanDecides: a low-confidence draft is approved only by exactly one human
\* decision of its own, which an outage of the human queue puts off until its
\* end; and no request that returns leaves a pause token behind.
THEOREM OneHumanDecision == Spec => []HumanDecides
<1>1. ASSUME CampaignInv, Returned, pattern = "P6", result = "ok"
      PROVE  Cardinality({k \in DOMAIN decision_log : decision_log[k] = item.id})
               = IF item.low THEN 1 ELSE 0
  <2> DEFINE own == {k \in DOMAIN decision_log : decision_log[k] = item.id}
  <2>1. /\ item.id = Len(per_request) + 1 /\ Len(per_request) \in Nat
        /\ decision_log \in Seq(1..MaxRequests)
    BY <1>1 DEF CampaignInv, FrameInv, RecordsInv, P6Inv, Returned
  <2>2. \A k \in DOMAIN decision_log :
           \/ decision_log[k] <= Len(per_request)
           \/ decision = "approved" /\ k = Len(decision_log) /\ decision_log[k] = item.id
    BY <1>1 DEF CampaignInv, P6Inv
  <2>3. decision = (IF item.low THEN "approved" ELSE "auto_approved")
    BY <1>1 DEF CampaignInv, P6Inv, Returned
  <2>4. \A k \in DOMAIN decision_log : decision_log[k] \in 1..MaxRequests
    BY <2>1, ElementOfSeq, LenProperties
  <2>5. \A k \in own : decision = "approved" /\ k = Len(decision_log)
    BY <2>1, <2>2, <2>4
  <2>6. CASE item.low
    <3>1. Len(decision_log) \in DOMAIN decision_log /\ decision_log[Len(decision_log)] = item.id
      BY <1>1, <2>1, <2>3, <2>6 DEF CampaignInv, P6Inv, Returned
    <3>2. own = {Len(decision_log)}
      BY <2>5, <3>1
    <3> QED
      BY <2>6, <3>2, FS_Singleton
  <2>7. CASE ~item.low
    <3>1. own = {}
      BY <2>3, <2>5, <2>7
    <3> QED
      BY <2>7, <3>1, FS_EmptySet
  <2> QED
    BY <2>6, <2>7
<1>2. ASSUME CampaignInv, Returned, pattern = "P6"
      PROVE  /\ paused = {}
             /\ result = "ok" =>
                  /\ decision = IF item.low THEN "approved" ELSE "auto_approved"
                  /\ item.low /\ deferred /\ HumanOutage => sim_now(ctx) >= Window[2]
  BY <1>2 DEF CampaignInv, P6Inv, Returned
<1>3. CampaignInv => HumanDecides
  BY <1>1, <1>2 DEF HumanDecides, HumanOutage
<1> QED
  BY <1>3, CampaignInvariant, PTL

(***************************************************************************)
(* What a request of P7 leaves of its federated work: the remote context   *)
(* is never reset, so it has counted every remote call that succeeded.     *)
(***************************************************************************)
\* A call that succeeds counts one; one that fails counts nothing.
Once(ok) == IF ok THEN 1 ELSE 0

LEMMA BoundaryCallCounts ==
    ASSUME NEW c \in Context, NEW a, NEW service, NEW component, NEW unit,
           NEW r \in boundary_call(a, c, service, component, unit)
    PROVE  /\ r.ctx.service_calls = c.service_calls
           /\ r.ctx.model_invocations = c.model_invocations
<1>0. PICK f \in check(a, component, Label(c, unit), sim_now(c)) :
        \E dt \in CallTime(f) : r = Outcome(c, service, component, f, dt)
  BY CallIsOneFault
<1>1. PICK dt \in CallTime(f) : r = Outcome(c, service, component, f, dt)
  BY <1>0
<1> DEFINE t == Traced(c, service, component, f)
           d == add_delay(t, dt, TRUE)
<1>2. DOMAIN c = {"elapsed_s", "nonblocking_s", "request_start_ts",
     "concurrent_in_flight", "model_invocations", "service_calls",
     "services_called", "tokens", "content_scale",
     "components_touched", "faults_seen", "degraded", "default_unit"}
  BY DEF Context
<1>3. /\ t.service_calls = c.service_calls /\ t.model_invocations = c.model_invocations
      /\ DOMAIN t = DOMAIN c
  BY <1>2, Zenon DEF Traced
<1> HIDE DEF t
<1>4. d.service_calls = t.service_calls /\ d.model_invocations = t.model_invocations
  BY <1>2, <1>3, Zenon DEF add_delay
<1> HIDE DEF d
<1>5. r.ctx = d
  BY <1>1 DEF Outcome, t, d
<1> QED
  BY <1>3, <1>4, <1>5

LEMMA ServiceCallCounts ==
    ASSUME NEW a, WellArmed(a), NEW c \in Context, NEW service,
           NEW component \in Component, NEW unit,
           NEW r \in ServiceCall(a, c, service, component, unit)
    PROVE  r.ctx.service_calls = c.service_calls + Once(r.ok)
<1>1. PICK s \in boundary_call(a, c, service, component, unit) :
        r = IF s.ok THEN [s EXCEPT !.ctx.service_calls = @ + 1] ELSE s
  BY DEF ServiceCall
<1>2. s \in Response /\ s.ctx \in Context /\ s.ctx.service_calls = c.service_calls
  BY BoundaryCallResponds, BoundaryCallCounts DEF Responds, Answers, Response
<1>3. c.service_calls \in Nat
  BY DEF Context
<1>4. CASE ~s.ok
  BY <1>1, <1>2, <1>3, <1>4 DEF Once
<1>5. CASE s.ok
  <2> DEFINE n == s.ctx.service_calls + 1
             d == [s.ctx EXCEPT !.service_calls = n]
  <2>1. r = [s EXCEPT !.ctx = d]
    BY <1>1, <1>2, <1>5
  <2> HIDE DEF n
  <2>2. d.service_calls = n
    BY <1>2 DEF Context
  <2> HIDE DEF d
  <2>3. r.ctx = d /\ r.ok
    BY <1>2, <1>5, <2>1 DEF Response
  <2> QED
    BY <1>2, <2>2, <2>3 DEF Once, n
<1> QED
  BY <1>4, <1>5

LEMMA ModelCallCounts ==
    ASSUME NEW a, WellArmed(a), NEW c \in Context, NEW r \in invoke_agent(a, c)
    PROVE  /\ r.ctx.model_invocations = c.model_invocations + Once(r.ok)
           /\ r.ctx.service_calls = c.service_calls
           /\ r.ctx \in Context
<1>1. PICK s \in boundary_call(a, c, "model_invoke", "model_backend", NoUnit) :
        r = IF s.ok
            THEN [s EXCEPT !.ctx.model_invocations = @ + 1,
                           !.ctx.tokens = @ + Max({1, c.content_scale})]
            ELSE s
  BY DEF invoke_agent
<1>2. s \in Response /\ s.ctx \in Context /\ s.ctx.content_scale = c.content_scale
  <2>1. "model_backend" \in Component
    BY DEF Component
  <2> QED
    BY <2>1, BoundaryCallResponds DEF Responds, Answers, Response, Later
<1>3. /\ s.ctx.service_calls = c.service_calls
      /\ s.ctx.model_invocations = c.model_invocations
  BY <1>1, BoundaryCallCounts
<1>4. c.service_calls \in Nat /\ c.model_invocations \in Nat
  BY DEF Context
<1>5. CASE ~s.ok
  BY <1>1, <1>2, <1>3, <1>4, <1>5 DEF Once
<1>6. CASE s.ok
  <2> DEFINE n == s.ctx.model_invocations + 1
             t == s.ctx.tokens + Max({1, s.ctx.content_scale})
             d == [s.ctx EXCEPT !.model_invocations = n, !.tokens = t]
  <2>1. r = [s EXCEPT !.ctx = d]
    BY <1>1, <1>2, <1>6
  <2>2. d \in Context
    BY <1>2, InvocationCounted DEF Counted
  <2> HIDE DEF n, t
  <2>3. d.model_invocations = n /\ d.service_calls = s.ctx.service_calls
    BY <1>2 DEF Context
  <2> HIDE DEF d
  <2>4. r.ctx = d /\ r.ok
    BY <1>2, <1>6, <2>1 DEF Response
  <2> QED
    BY <1>3, <2>2, <2>3, <2>4 DEF Once, n
<1> QED
  BY <1>5, <1>6

LEMMA OneActionCounts ==
    ASSUME NEW a, WellArmed(a), NEW c \in Context, NEW action,
           NEW r \in send(a, c, <<action>>)
    PROVE  r.ctx.service_calls = c.service_calls + Once(r.ok)
<1> DEFINE actions == <<action>>
<1>1. PICK q \in invoke_agent(a, c) :
        IF q.ok THEN r \in run_agent_script(a, q.ctx, actions) ELSE r = q
  BY DEF send, Then
<1>2. q.ctx \in Context /\ q.ctx.service_calls = c.service_calls /\ c.service_calls \in Nat
  BY ModelCallCounts DEF Context
<1>3. CASE ~q.ok
  BY <1>1, <1>2, <1>3 DEF Once
<1>4. CASE q.ok
  <2> DEFINE g == CHOOSE f : AfterActions(a, q.ctx, actions, Len(actions), f)
  <2>1. Len(actions) = 1 /\ actions[1] = action
    OBVIOUS
  <2>2. AfterActions(a, q.ctx, actions, Len(actions), g)
    BY <2>1, ScriptExists
  <2>3. r \in g[Len(actions)]
    BY <1>1, <1>4 DEF run_agent_script, AfterActions, Acted
  <2> HIDE DEF g, actions
  <2>4. g[0] = {Ok(q.ctx)} /\ g[1] = Acted(a, g[0], action)
    BY <2>1, <2>2 DEF AfterActions
  <2>5. r \in ServiceCall(a, q.ctx, "action", "tool", action)
    BY <2>1, <2>3, <2>4 DEF Acted, Then, Ok
  <2>6. "tool" \in Component
    BY DEF Component
  <2> QED
    BY <1>2, <2>5, <2>6, ServiceCallCounts
<1> QED
  BY <1>3, <1>4

\* The remote work of a cell, as its records tell it and as it was counted.
Worked == Cardinality({k \in DOMAIN per_request : per_request[k].ok /\ ~per_request[k].degraded})

WorksInv ==
    pattern = "P7" =>
        RemoteWorks = Worked + Once(pc = "returned" /\ result = "ok" /\ ~ctx.degraded)

LEMMA WorkedTypes == ASSUME RecordsInv PROVE Worked \in Nat
<1> DEFINE S == {k \in DOMAIN per_request : per_request[k].ok /\ ~per_request[k].degraded}
<1>1. Len(per_request) \in Nat /\ DOMAIN per_request = 1..Len(per_request)
  BY DEF RecordsInv
<1>2. IsFiniteSet(1..Len(per_request)) /\ S \subseteq 1..Len(per_request)
  BY <1>1, FS_Interval
<1>3. IsFiniteSet(S)
  BY <1>2, FS_Subset
<1> QED
  BY <1>3, FS_CardinalityType DEF Worked

LEMMA FederatedWorkCounted ==
    ASSUME FrameInv, RecordsInv, WorksInv, FederatedWork, Unmoved PROVE WorksInv'
<1>1. pc = "P7.remote" /\ Serving /\ pattern = "P7" /\ Sane(ctx)
  BY P7Serves DEF FederatedWork
<1> DEFINE After(rtt, dt) == [add_delay(ctx, rtt, TRUE) EXCEPT !.elapsed_s = @ + dt]
<1>2. PICK rtt \in LatencySamples, r \in RemoteCall :
         /\ remote_ctx' = r.ctx
         /\ ReturnFederated(After(rtt, r.ctx.elapsed_s - remote_ctx.elapsed_s), r)
  BY DEF FederatedWork
<1> DEFINE dt == r.ctx.elapsed_s - remote_ctx.elapsed_s
           a == add_delay(ctx, rtt, TRUE)
           b == After(rtt, dt)
           mark == b.degraded \/ ~r.ok
           d == [b EXCEPT !.degraded = mark]
<1>3. remote_ctx \in Context /\ WellArmed(armed) /\ r.ok \in BOOLEAN
      /\ r.ctx \in Context /\ remote_ctx.elapsed_s <= r.ctx.elapsed_s
  BY <1>1, ArmedNow, RemoteReply DEF FrameInv, Answers, Response, Later
<1>4. dt \in Nat /\ rtt \in Nat
  BY <1>3, TimingAssumption DEF Context
<1>5. /\ ctx' = d /\ pc' = "returned" /\ result' = "ok" /\ UNCHANGED platform
  BY <1>2, Zenon DEF ReturnFederated, Return
<1> HIDE DEF dt
<1>6. Sane(a) /\ a \in Context
  BY <1>1, <1>4, SaneDelayed DEF Sane
<1> HIDE DEF a
<1>7. b \in Context /\ b.degraded = a.degraded
  <2>1. b = [a EXCEPT !.elapsed_s = @ + dt]
    BY DEF a
  <2> HIDE DEF b
  <2> QED
    BY <1>4, <1>6, <2>1, LengthenedFields
<1> HIDE DEF b
<1>8. mark = ~r.ok /\ mark \in BOOLEAN
  BY <1>3, <1>6, <1>7 DEF Sane
<1> HIDE DEF mark
<1>9. d.degraded = mark
  BY <1>7, <1>8, MarkedFields
<1> HIDE DEF d
<1>10. RemoteWorks' = RemoteWorks + Once(r.ok)
  <2>1. CASE OnBedrock
    <3>1. r \in send(armed, remote_ctx, <<"remote_work">>)
      BY <2>1 DEF RemoteCall
    <3>2. r.ctx.service_calls = remote_ctx.service_calls + Once(r.ok)
      BY <1>3, <3>1, OneActionCounts
    <3> QED
      BY <1>2, <1>5, <2>1, <3>2 DEF RemoteWorks, OnBedrock
  <2>2. CASE ~OnBedrock
    <3>1. r \in invoke_agent(armed, remote_ctx)
      BY <2>2 DEF RemoteCall
    <3>2. r.ctx.model_invocations = remote_ctx.model_invocations + Once(r.ok)
      BY <1>3, <3>1, ModelCallCounts
    <3> QED
      BY <1>2, <1>5, <2>2, <3>2 DEF RemoteWorks, OnBedrock
  <2> QED
    BY <2>1, <2>2
<1>11. UNCHANGED <<pattern, Worked>>
  BY DEF Unmoved, Worked
<1>12. RemoteWorks = Worked + 0 /\ RemoteWorks \in Nat
  BY <1>1, <1>3 DEF WorksInv, Once, RemoteWorks, Context
<1>13. RemoteWorks = Worked
  <2>1. Worked \in Nat
    BY WorkedTypes
  <2> QED
    BY <1>12, <2>1
<1>14. RemoteWorks' = Worked' + Once(r.ok)
  BY <1>10, <1>11, <1>13
<1>15. (pc = "returned" /\ result = "ok" /\ ~ctx.degraded)' = r.ok
  BY <1>3, <1>5, <1>8, <1>9
<1> QED
  BY <1>14, <1>15 DEF WorksInv

\* A finished request is worked when it was ok and not degraded.
LEMMA RecordedWork ==
    ASSUME CampaignInv, WorksInv, RecordRequest PROVE WorksInv'
<1> DEFINE done(k) == per_request[k].ok /\ ~per_request[k].degraded
           S == {k \in DOMAIN per_request : done(k)}
           n == Len(per_request) + 1
           good == result = "ok" /\ ~ctx.degraded
<1>1. /\ pc = "returned" /\ pc' = "idle" /\ per_request' = Append(per_request, NewRecord)
      /\ UNCHANGED <<pattern, platform, remote_ctx>>
  BY DEF RecordRequest, NewRecord, patternVars
<1>2. /\ per_request \in Seq([traversed : BOOLEAN, ok : BOOLEAN, degraded : BOOLEAN])
      /\ Len(per_request) \in Nat /\ DOMAIN per_request = 1..Len(per_request)
  BY DEF CampaignInv, RecordsInv
<1>3. /\ DOMAIN per_request' = 1..n /\ per_request'[n] = NewRecord
      /\ \A k \in DOMAIN per_request : per_request'[k] = per_request[k]
  <2>1. ctx.degraded \in BOOLEAN
    BY DEF CampaignInv, FrameInv, Context
  <2>2. NewRecord \in [traversed : BOOLEAN, ok : BOOLEAN, degraded : BOOLEAN]
    BY <2>1 DEF NewRecord
  <2> HIDE DEF NewRecord
  <2> QED
    BY <1>1, <1>2, <2>2
<1>4. (NewRecord.ok /\ ~NewRecord.degraded) = good
  BY DEF NewRecord
<1>5. S' = IF good THEN S \cup {n} ELSE S
  <2> HIDE DEF good
  <2>1. \A k \in 1..n : k \in DOMAIN per_request \/ k = n
    BY <1>2
  <2>2. n \notin DOMAIN per_request /\ n \in 1..n /\ DOMAIN per_request \subseteq 1..n
    BY <1>2
  <2>3. (per_request'[n].ok /\ ~per_request'[n].degraded) = good
    BY <1>3, <1>4
  <2> DEFINE m == n
  <2>4. S' = {k \in 1..m : per_request'[k].ok /\ ~per_request'[k].degraded}
    BY <1>3
  <2>5. /\ \A k \in 1..m : k \in DOMAIN per_request \/ k = m
        /\ m \notin DOMAIN per_request /\ m \in 1..m /\ DOMAIN per_request \subseteq 1..m
        /\ (per_request'[m].ok /\ ~per_request'[m].degraded) = good
    BY <2>1, <2>2, <2>3
  <2> HIDE DEF m
  <2>6. S' = IF good THEN S \cup {m} ELSE S
    BY <1>3, <2>4, <2>5
  <2> QED
    BY <2>6 DEF m
<1>6. IsFiniteSet(S) /\ n \notin S
  <2>1. IsFiniteSet(1..Len(per_request)) /\ S \subseteq 1..Len(per_request)
    BY <1>2, FS_Interval
  <2>2. n \notin 1..Len(per_request)
    BY <1>2
  <2> QED
    BY <2>1, <2>2, FS_Subset
<1>7. Worked = Cardinality(S) /\ Worked' = Cardinality(S')
  BY DEF Worked
<1> HIDE DEF S
<1>8. Worked' = Worked + Once(good)
  <2>1. Cardinality(S) \in Nat
    BY <1>6, FS_CardinalityType
  <2>2. CASE good
    BY <1>5, <1>6, <1>7, <2>2, FS_AddElement DEF Once
  <2>3. CASE ~good
    BY <1>5, <1>7, <2>1, <2>3 DEF Once
  <2> QED
    BY <2>2, <2>3
<1>9. pattern = "P7" => RemoteWorks = Worked + Once(good)
  BY <1>1 DEF WorksInv
<1>10. RemoteWorks' = RemoteWorks /\ Worked' \in Nat
  <2>1. Worked \in Nat /\ Once(good) \in Nat
    BY WorkedTypes DEF CampaignInv, Once
  <2> QED
    BY <1>1, <1>8, <2>1 DEF RemoteWorks, OnBedrock
<1> QED
  BY <1>1, <1>8, <1>9, <1>10 DEF WorksInv, Once

\* Nothing but federated work counts, and nothing else ends an undegraded request ok.
LEMMA WorksUnmoved ==
    ASSUME WorksInv, UNCHANGED <<pattern, platform, remote_ctx, per_request>>,
           pattern = "P7" => ~(pc = "returned" /\ result = "ok" /\ ~ctx.degraded)
                             /\ ~(pc = "returned" /\ result = "ok" /\ ~ctx.degraded)'
    PROVE  WorksInv'
BY DEF WorksInv, RemoteWorks, OnBedrock, Worked, Once

LEMMA WorksKept == ASSUME CampaignInv, WorksInv, [Next]_vars PROVE WorksInv'
<1>1. CASE StartRequest
  <2>1. pc = "idle" /\ UNCHANGED <<pattern, per_request>>
    BY <1>1 DEF StartRequest, campaign
  <2>2. CASE pattern = "P7"
    <3>1. PICK i, start, inFlight : P7Begin(i, start, inFlight)
      BY <1>1, <2>2, Zenon DEF StartRequest
    <3>2. pc' = "P7.local" /\ UNCHANGED <<platform, remote_ctx>>
      BY <3>1 DEF P7Begin, run
    <3> QED
      BY <2>1, <3>2, WorksUnmoved
  <2>3. CASE pattern # "P7"
    BY <2>1, <2>3 DEF WorksInv
  <2> QED
    BY <2>2, <2>3
<1>2. CASE PatternStep
  <2>1. Unmoved
    BY <1>2, PatternGoesOn
  <2>2. CASE pattern = "P7"
    <3>1. P1Next \/ P2Next \/ P3Next =>
            pc \in {"P1.plan", "P1.branch", "P1.synthesize", "P2.stage",
                    "P3.hop", "P3.publish", "P3.deliver"}
      BY DEF P1Next, Plan, RunBranch, JoinBranches, Synthesize,
             P2Next, RunStage, P3Next, Hop, PublishFirst, Deliver, ChainReturns
    <3>2. P4Next => pc \in {"P4.create", "P4.read", "P4.contribute", "P4.write",
                            "P4.store", "P4.send"}
      BY DEF P4Next, CreateBoard, ReadBoard, Contribute, WriteBoard, StoreTurn, SendTurn
    <3>3. P5Next => pc \in {"P5.route", "P5.call"}
      BY DEF P5Next, Route, CallTool, FinishTools
    <3>4. P6Next => pc \in {"P6.draft", "P6.pause", "P6.route", "P6.review"}
      BY DEF P6Next, Draft, PauseInMemory, RouteToHuman, PauseByHandoff, Review
    <3>5. Serving => pc \in {"P7.local", "P7.remote"}
      BY <2>2 DEF CampaignInv, FrameInv, Labels
    <3>6. P7Next
      BY <1>2, <3>1, <3>2, <3>3, <3>4, <3>5 DEF PatternStep, Serving
    <3>7. CASE FederatedWork
      BY <2>1, <3>7, FederatedWorkCounted DEF CampaignInv
    <3>8. CASE LocalWork
      <4>1. PICK r \in LocalCall : Goto(Unscaled(r.ctx), "P7.remote") \/ Raise(r)
        BY <3>8 DEF LocalWork
      <4>2. pc = "P7.local" /\ UNCHANGED <<remote_ctx, platform>>
        BY <3>8, <4>1 DEF LocalWork, Goto, Raise, Return
      <4>3. pc' = "P7.remote" \/ result' \in {"error", "timeout"}
        BY <4>1 DEF Goto, Raise, Return, ErrorStatus
      <4> QED
        BY <2>1, <4>2, <4>3, WorksUnmoved DEF Unmoved
    <3> QED
      BY <3>6, <3>7, <3>8 DEF P7Next
  <2>3. CASE pattern # "P7"
    BY <2>1, <2>3 DEF Unmoved, WorksInv
  <2> QED
    BY <2>2, <2>3
<1>3. CASE RecordRequest
  BY <1>3, RecordedWork
<1>4. CASE EndCell
  <2>1. pc = "idle" /\ pc' = "ended" /\ UNCHANGED <<pattern, platform, remote_ctx, per_request>>
    BY <1>4 DEF EndCell, patternVars
  <2> QED
    BY <2>1, WorksUnmoved
<1>5. CASE UNCHANGED vars
  <2>1. UNCHANGED <<pattern, platform, remote_ctx, per_request, pc, result, ctx>>
    BY <1>5 DEF vars, frame, patternVars, campaign
  <2> QED
    BY <2>1 DEF WorksInv, RemoteWorks, OnBedrock, Worked, Once
<1> QED
  BY <1>1, <1>2, <1>3, <1>4, <1>5 DEF Next

LEMMA WorksStart == ASSUME Init PROVE WorksInv
<1>1. pc = "idle" /\ per_request = <<>> /\ remote_ctx = build(RemoteUnit)
  BY DEF Init, P7Init
<1>2. remote_ctx.service_calls = 0 /\ remote_ctx.model_invocations = 0
  BY <1>1 DEF build
<1>3. Worked = 0
  <2>1. {k \in DOMAIN per_request : per_request[k].ok /\ ~per_request[k].degraded} = {}
    BY <1>1
  <2> QED
    BY <2>1, FS_EmptySet DEF Worked
<1> QED
  BY <1>1, <1>2, <1>3 DEF WorksInv, RemoteWorks, Once

\* The items the scenarios generate bring their own stages or have no more
\* steps than the default stages.
Staged == \A i \in Items : i.staged \/ i.steps <= DefaultStages

LEMMA StagesCoverWork ==
    ASSUME FrameInv, Staged, IsShape(item) PROVE work_steps <= stages
<1>1. PICK shape \in Items, k \in Nat : item = [shape EXCEPT !.id = k]
  BY DEF IsShape
<1>2. shape \in Item
  BY ItemsAssumption
<1>3. item.steps = shape.steps /\ item.staged = shape.staged /\ item.steps \in Nat \ {0}
  BY <1>1, <1>2 DEF Item
<1>4. CASE item.staged
  BY <1>3, <1>4 DEF stages, work_steps
<1>5. CASE ~item.staged
  <2>1. item.steps <= DefaultStages
    BY <1>3, <1>5 DEF Staged
  <2>2. Min({item.steps, DefaultStages}) = item.steps
    <3> DEFINE S == {item.steps, DefaultStages}
    <3>1. item.steps \in S /\ \A y \in S : item.steps <= y
      BY <1>3, <2>1, StagesAssumption
    <3>2. \A x \in S : (\A y \in S : x <= y) => x = item.steps
      BY <1>3, <2>1, StagesAssumption
    <3> HIDE DEF S
    <3>3. Min(S) = item.steps
      BY <3>1, <3>2 DEF Min
    <3> QED
      BY <3>3 DEF S
  <2>3. Max({1, item.steps}) >= item.steps
    BY <1>3, MaxWithOne
  <2> QED
    BY <1>3, <1>5, <2>2, <2>3 DEF stages, work_steps
<1> QED
  BY <1>4, <1>5

\* OkMeansComplete: a request that returns ok has made every invocation, stage,
\* event, contribution or tool call of its pattern, and its tokens cover all
\* steps of its item; and the remote cluster of P7 has finished exactly the work of
\* the requests that were ok and not degraded.
THEOREM OkIsComplete ==
    ASSUME Staged
    PROVE  Spec => []OkMeansComplete
<1>1. ASSUME CampaignInv, Returned, result = "ok" PROVE ctx.tokens >= work_steps
  <2>1. pattern \in {"P1", "P2", "P3", "P4", "P5", "P6", "P7"} /\ FrameInv
        /\ ctx.tokens \in Nat /\ work_steps \in Nat
    BY <1>1, WorkTypes, CampaignAssumption DEF CampaignInv, FrameInv, Context
  <2>2. CASE pattern \in {"P1", "P3", "P5", "P6", "P7"}
    BY <1>1, <2>1, <2>2 DEF CampaignInv, P1Inv, P3Inv, P5Inv, P6Inv, P7Inv, Returned
  <2>3. CASE pattern = "P2"
    <3>1. stages <= ctx.tokens /\ IsShape(item)
      BY <1>1, <2>3 DEF CampaignInv, FrameInv, P2Inv, Returned
    <3>2. work_steps <= stages /\ stages \in Nat
      BY <2>1, <3>1, StagesCoverWork, StageTypes
    <3> QED
      BY <2>1, <3>1, <3>2
  <2>4. CASE pattern = "P4"
    <3>1. n_specialists * PerTurn <= ctx.tokens /\ n_specialists * PerTurn >= work_steps
      BY <1>1, <2>1, <2>4, WorkTypes DEF CampaignInv, P4Inv, Returned
    <3> DEFINE w == n_specialists * PerTurn
    <3>2. w \in Nat
      BY <2>1, WorkTypes, BlackboardAssumption
    <3> HIDE DEF w
    <3>3. w <= ctx.tokens /\ w >= work_steps
      BY <3>1 DEF w
    <3> QED
      BY <2>1, <3>2, <3>3
  <2> QED
    BY <2>1, <2>2, <2>3, <2>4
<1>2. ASSUME CampaignInv, WorksInv, Returned, result = "ok"
      PROVE  /\ pattern = "P1" => ctx.model_invocations = 2 + n_collaborators * steps_per_branch
             /\ pattern = "P2" => ctx.model_invocations = stages
             /\ pattern = "P3" => request_log = FullChain /\ ctx.model_invocations = EventChain
             /\ pattern = "P4" => ToSet(board) = 1..n_specialists
             /\ pattern = "P5" => tool_results \cup failures = ToSet(Tools)
             /\ pattern = "P7" => RemoteWorks = Worked + (IF ctx.degraded THEN 0 ELSE 1)
  <2>1. pattern = "P7" => RemoteWorks = Worked + (IF ctx.degraded THEN 0 ELSE 1)
    BY <1>2 DEF WorksInv, Once, Returned
  <2> QED
    BY <1>2, <2>1 DEF CampaignInv, P1Inv, P2Inv, P3Inv, P4Inv, P5Inv, Returned
<1>3. CampaignInv /\ WorksInv => OkMeansComplete
  BY <1>1, <1>2 DEF OkMeansComplete, Worked
<1>4. Init => WorksInv
  BY WorksStart
<1>5. CampaignInv /\ WorksInv /\ [Next]_vars => WorksInv'
  BY WorksKept
<1> QED
  BY <1>3, <1>4, <1>5, CampaignInvariant, PTL DEF Spec

\* A cell whose traversing requests all succeed is contained; one whose
\* traversing requests all fail has propagated.
LEMMA ClassOfCell ==
    ASSUME RecordsInv
    PROVE  LET T     == Traversing(per_request)
               class == classify_cell(per_request)
           IN  /\ (\A k \in T : per_request[k].ok) => class \in Contained
               /\ (\A k \in T : per_request[k].ok /\ ~per_request[k].degraded) =>
                     class \in {"absorbed", "not_exercised"}
               /\ (\A k \in T : ~per_request[k].ok) => class \in {"propagated", "not_exercised"}
<1> DEFINE T == Traversing(per_request)
           S == {k \in T : per_request[k].ok}
           class == classify_cell(per_request)
<1>1. IsFiniteSet(T) /\ Cardinality(T) \in Nat /\ (T # {} => Cardinality(T) > 0)
  <2>1. Len(per_request) \in Nat /\ DOMAIN per_request = 1..Len(per_request)
    BY DEF RecordsInv
  <2>2. IsFiniteSet(1..Len(per_request))
    BY <2>1, FS_Interval
  <2>3. T \subseteq 1..Len(per_request)
    BY <2>1 DEF Traversing
  <2>4. IsFiniteSet(T)
    BY <2>2, <2>3, FS_Subset
  <2> HIDE DEF T
  <2>5. Cardinality(T) \in Nat /\ (Cardinality(T) = 0 <=> T = {})
    BY <2>4, FS_CardinalityType, FS_EmptySet
  <2> QED
    BY <2>4, <2>5
<1>2. class = IF T = {} THEN "not_exercised"
              ELSE IF 100 * Cardinality(S) < threshold * Cardinality(T)
              THEN "propagated"
              ELSE IF \E k \in T : per_request[k].degraded
              THEN "isolated" ELSE "absorbed"
  BY DEF classify_cell
<1> HIDE DEF T, class
<1>3. \A n \in Nat : /\ ~(100 * n < threshold * n)
                     /\ n > 0 => 100 * 0 < threshold * n
  <2> TAKE n \in Nat
  <2>1. threshold \in Nat /\ threshold <= 100 /\ threshold >= 1
    BY CampaignAssumption
  <2>2. threshold * n <= 100 * n /\ (n > 0 => threshold * n > 0)
    BY <2>1
  <2>3. threshold * n \in Nat /\ 100 * n \in Nat
    BY <2>1
  <2> QED
    BY <2>2, <2>3
<1>4. ASSUME \A k \in T : per_request[k].ok PROVE T = {} \/ ~(100 * Cardinality(S) < threshold * Cardinality(T))
  <2>1. S = T
    BY <1>4
  <2> QED
    BY <1>1, <1>3, <2>1
<1>5. ASSUME \A k \in T : ~per_request[k].ok PROVE T = {} \/ 100 * Cardinality(S) < threshold * Cardinality(T)
  <2>1. S = {}
    BY <1>5
  <2>2. Cardinality(S) = 0
    BY <2>1, FS_EmptySet
  <2> QED
    BY <1>1, <1>3, <2>2
<1>6. (\A k \in T : per_request[k].ok) => class \in Contained
  BY <1>2, <1>4 DEF Contained
<1>7. (\A k \in T : per_request[k].ok /\ ~per_request[k].degraded) =>
         class \in {"absorbed", "not_exercised"}
  BY <1>2, <1>4
<1>8. (\A k \in T : ~per_request[k].ok) => class \in {"propagated", "not_exercised"}
  BY <1>2, <1>5
<1> QED
  BY <1>6, <1>7, <1>8 DEF T, class

\* ContainmentTable: throttles only cost latency; a fault that fails calls takes
\* P1, P2 and P4 down whenever it is met; P5 contains a faulted tool of several,
\* P6 absorbs a faulted human queue and P7 contains a faulted remote cluster.
THEOREM FaultsAreContained ==
    ASSUME Len(Tools) > 1
    PROVE  Spec => []ContainmentTable
<1>1. ASSUME CampaignInv, EndedInv, pc = "ended"
      PROVE  /\ cell.fault \in {"throttle", NoFault} =>
                  classification \in {"absorbed", "not_exercised"}
             /\ cell.fault \notin {"throttle", NoFault} /\ pattern \in {"P1", "P2", "P4"}
                  => classification \in {"propagated", "not_exercised"}
             /\ pattern = "P5" /\ cell.component = "tool"          => classification \in Contained
             /\ pattern = "P6" /\ cell.component = "human_queue"   =>
                   classification \in {"absorbed", "not_exercised"}
             /\ pattern = "P7" /\ cell.component = "model_backend" => classification \in Contained
  <2> DEFINE T == Traversing(per_request)
  <2>1. classification = classify_cell(per_request)
    BY <1>1 DEF EndedInv
  <2>2. \A k \in T : RecordOK(per_request[k]) /\ per_request[k].traversed
    BY <1>1 DEF CampaignInv, RecordsInv, Traversing
  <2>3. /\ (\A k \in T : per_request[k].ok) => classification \in Contained
        /\ (\A k \in T : per_request[k].ok /\ ~per_request[k].degraded) =>
              classification \in {"absorbed", "not_exercised"}
        /\ (\A k \in T : ~per_request[k].ok) => classification \in {"propagated", "not_exercised"}
    BY <1>1, <2>1, ClassOfCell DEF CampaignInv
  <2> HIDE DEF T
  <2>4. cell.fault \in {"throttle", NoFault} =>
           \A k \in T : per_request[k].ok /\ ~per_request[k].degraded
    BY <2>2 DEF RecordOK, Fatal
  <2>5. cell.fault \notin {"throttle", NoFault} /\ pattern \in {"P1", "P2", "P4"} =>
           \A k \in T : ~per_request[k].ok
    BY <2>2 DEF RecordOK, Fatal
  <2>6. pattern = "P5" /\ cell.component = "tool" => \A k \in T : per_request[k].ok
    BY <2>2 DEF RecordOK
  <2>7. pattern = "P6" /\ cell.component = "human_queue" =>
           \A k \in T : per_request[k].ok /\ ~per_request[k].degraded
    BY <2>2 DEF RecordOK
  <2>8. pattern = "P7" /\ cell.component = "model_backend" => \A k \in T : per_request[k].ok
    BY <2>2 DEF RecordOK
  <2> QED
    BY <2>3, <2>4, <2>5, <2>6, <2>7, <2>8
<1>2. CampaignInv /\ EndedInv => ContainmentTable
  BY <1>1 DEF ContainmentTable, Contained
<1> QED
  BY <1>2, CampaignInvariant, PTL

(***************************************************************************)
(* The time of a request of P1.  Every call takes at most the longest call *)
(* among those of the faults met so far, and the time of each fault met is *)
(* paid: a branch takes its calls one after the other, and the join        *)
(* charges the longest branch, a failed one included.                      *)
(***************************************************************************)
LatencyBounded == \E m \in Nat : \A dt \in LatencySamples : dt <= m

Faulty == Component \X FaultType

\* The calls of one step of a branch, and of all its steps.
StepCalls   == IF OnBedrock THEN 1 ELSE 2
BranchCalls == steps_per_branch * StepCalls

LEMMA LongestOf ==
    ASSUME NEW S \in SUBSET Nat, S # {}, NEW b \in Nat, \A dt \in S : dt <= b
    PROVE  Max(S) \in S /\ \A dt \in S : dt <= Max(S)
<1> DEFINE Upper == {m \in Nat : \A dt \in S : dt <= m}
<1>1. Upper # {} /\ Upper \in SUBSET Nat
  OBVIOUS
<1>2. PICK u \in Upper : \A m \in Upper : u <= m
  <2> HIDE DEF Upper
  <2> QED
    BY <1>1, LeastNumber
<1>3. u \in Nat /\ \A dt \in S : dt \in Nat /\ dt <= u
  BY <1>2
<1>4. u \in S
  <2> SUFFICES ASSUME u \notin S PROVE FALSE
    OBVIOUS
  <2>1. \A dt \in S : dt <= u - 1
    BY <1>3
  <2>2. u - 1 \in Nat
    <3>1. PICK dt \in S : TRUE
      OBVIOUS
    <3> QED
      BY <1>3, <2>1, <3>1
  <2>3. u - 1 \in Upper
    BY <2>1, <2>2
  <2> QED
    BY <1>2, <1>3, <2>3
<1> HIDE DEF Upper
<1>5. Max(S) \in S /\ \A y \in S : Max(S) >= y
  BY <1>3, <1>4 DEF Max
<1> QED
  BY <1>3, <1>5

\* Whatever faults were met, there is a longest call, and with more faults it
\* does not get shorter.
LEMMA LongestCallExists ==
    ASSUME LatencyBounded, NEW seen \in SUBSET Faulty
    PROVE  /\ LongestCall(seen) \in Nat
           /\ \A dt \in LatencySamples : dt <= LongestCall(seen)
           /\ \A s \in seen : \A dt \in CallTime(s[2]) : dt <= LongestCall(seen)
           /\ \A fewer \in SUBSET seen : LongestCall(fewer) <= LongestCall(seen)
<1> DEFINE Calls(S) == LatencySamples \cup UNION {CallTime(s[2]) : s \in S}
<1>1. PICK m \in Nat : \A dt \in LatencySamples : dt <= m
  BY DEF LatencyBounded
<1>2. LatencySamples \in SUBSET Nat /\ LatencySamples # {}
      /\ timeout_s \in Nat /\ throttle_delay_s \in Nat
  BY TimingAssumption
<1>3. \A f \in FaultType : \A dt \in CallTime(f) :
        dt \in Nat /\ dt <= m + timeout_s + throttle_delay_s
  BY <1>1, <1>2 DEF CallTime
<1>4. ASSUME NEW S \in SUBSET Faulty
      PROVE  /\ Calls(S) \in SUBSET Nat /\ Calls(S) # {}
             /\ \A dt \in Calls(S) : dt <= m + timeout_s + throttle_delay_s
  <2>1. \A s \in S : s[2] \in FaultType
    BY DEF Faulty
  <2>2. ASSUME NEW dt \in Calls(S)
        PROVE  dt \in Nat /\ dt <= m + timeout_s + throttle_delay_s
    <3>1. CASE dt \in LatencySamples
      BY <1>1, <1>2, <3>1
    <3>2. CASE \E s \in S : dt \in CallTime(s[2])
      BY <1>3, <2>1, <3>2
    <3> QED
      BY <3>1, <3>2
  <2> QED
    BY <1>2, <2>2
<1>5. m + timeout_s + throttle_delay_s \in Nat
  BY <1>2
<1>6. \A S \in SUBSET Faulty : LongestCall(S) = Max(Calls(S))
  BY DEF LongestCall
<1>7. \A fewer \in SUBSET seen : fewer \in SUBSET Faulty /\ Calls(fewer) \subseteq Calls(seen)
  OBVIOUS
<1>8. LatencySamples \subseteq Calls(seen) /\ \A s \in seen : CallTime(s[2]) \subseteq Calls(seen)
  OBVIOUS
<1> HIDE DEF Calls
<1>9. \A S \in SUBSET Faulty :
        LongestCall(S) \in Calls(S) /\ \A dt \in Calls(S) : dt <= LongestCall(S)
  BY <1>4, <1>5, <1>6, LongestOf
<1> QED
  BY <1>4, <1>7, <1>8, <1>9

LEMMA SeenFaults == ASSUME NEW c \in Context PROVE c.faults_seen \in SUBSET Faulty
BY DEF Context, Faulty

LEMMA PathTypes ==
    ASSUME FrameInv
    PROVE  /\ StepCalls \in Nat /\ StepCalls >= 1 /\ BranchCalls \in Nat
           /\ steps_per_branch \in Nat
<1>1. steps_per_branch \in Nat
  BY WorkTypes
<1>2. StepCalls \in Nat /\ StepCalls >= 1
  BY DEF StepCalls
<1> QED
  BY <1>1, <1>2 DEF BranchCalls

\* r came within the time of n calls, and pays for every fault it met.
Timely(c, r, n) ==
    /\ r.ctx.elapsed_s <= c.elapsed_s + n * LongestCall(r.ctx.faults_seen)
    /\ \A s \in r.ctx.faults_seen \ c.faults_seen :
          \E dt \in CallTime(s[2]) : dt <= r.ctx.elapsed_s - c.elapsed_s

LEMMA BoundaryCallTimely ==
    ASSUME LatencyBounded, NEW a, WellArmed(a), NEW c \in Context, NEW service,
           NEW component \in Component, NEW unit,
           NEW r \in boundary_call(a, c, service, component, unit)
    PROVE  Timely(c, r, 1)
<1>0. PICK f \in check(a, component, Label(c, unit), sim_now(c)) :
        \E dt \in CallTime(f) : r = Outcome(c, service, component, f, dt)
  BY CallIsOneFault
<1>1. PICK dt \in CallTime(f) : r = Outcome(c, service, component, f, dt)
  BY <1>0
<1>2. f \in Fault /\ dt \in Nat
  BY CheckedFault, CallTimes
<1> DEFINE t == Traced(c, service, component, f)
<1>3. t \in Context /\ t.elapsed_s = c.elapsed_s
      /\ t.faults_seen = c.faults_seen \cup (IF f = NoFault THEN {} ELSE {<<component, f>>})
  BY <1>2, TracedTypes, TracedFields
<1> HIDE DEF t
<1>4. r.ctx = add_delay(t, dt, TRUE)
  BY <1>1 DEF Outcome, t
<1>5. r.ctx.elapsed_s = c.elapsed_s + dt /\ r.ctx.faults_seen = t.faults_seen
  <2>1. /\ add_delay(t, dt, TRUE).elapsed_s = t.elapsed_s + dt
        /\ add_delay(t, dt, TRUE).faults_seen = t.faults_seen
    BY <1>2, <1>3, Delayed
  <2> QED
    BY <1>3, <1>4, <2>1, Zenon
<1>6. r.ctx \in Context /\ r.ctx.faults_seen \in SUBSET Faulty
  <2>1. r.ctx \in Context
    BY BoundaryCallResponds DEF Responds, Answers, Response
  <2> QED
    BY <2>1, SeenFaults
<1>7. dt <= LongestCall(r.ctx.faults_seen) /\ LongestCall(r.ctx.faults_seen) \in Nat
  <2>1. CASE f = NoFault
    <3>1. dt \in LatencySamples
      BY <1>1, <2>1 DEF CallTime, NoFault
    <3> QED
      BY <1>6, <3>1, LongestCallExists
  <2>2. CASE f # NoFault
    <3>1. <<component, f>> \in r.ctx.faults_seen /\ <<component, f>>[2] = f
      BY <1>3, <1>5, <2>2
    <3> QED
      BY <1>1, <1>6, <3>1, LongestCallExists
  <2> QED
    BY <2>1, <2>2
<1>8. c.elapsed_s \in Nat
  BY DEF Context
<1>9. \A s \in r.ctx.faults_seen \ c.faults_seen :
        \E d \in CallTime(s[2]) : d <= r.ctx.elapsed_s - c.elapsed_s
  <2>1. \A s \in r.ctx.faults_seen \ c.faults_seen : s[2] = f
    BY <1>3, <1>5
  <2>2. dt <= r.ctx.elapsed_s - c.elapsed_s
    BY <1>2, <1>5, <1>8
  <2> QED
    BY <1>1, <2>1, <2>2
<1> QED
  BY <1>2, <1>5, <1>7, <1>8, <1>9 DEF Timely

LEMMA ServiceCallTimely ==
    ASSUME LatencyBounded, NEW a, WellArmed(a), NEW c \in Context, NEW service,
           NEW component \in Component, NEW unit,
           NEW r \in ServiceCall(a, c, service, component, unit)
    PROVE  Timely(c, r, 1)
<1>1. PICK s \in boundary_call(a, c, service, component, unit) :
        r = IF s.ok THEN [s EXCEPT !.ctx.service_calls = @ + 1] ELSE s
  BY DEF ServiceCall
<1>2. Timely(c, s, 1)
  BY BoundaryCallTimely
<1>3. s \in Response /\ s.ctx \in Context
  BY BoundaryCallResponds DEF Responds, Answers, Response
<1>4. CASE ~s.ok
  BY <1>1, <1>2, <1>4
<1>5. CASE s.ok
  <2> DEFINE d == [s.ctx EXCEPT !.service_calls = @ + 1]
  <2>1. r = [s EXCEPT !.ctx = d]
    BY <1>1, <1>5
  <2>2. Counted(s.ctx, d, 0)
    BY <1>3, ServiceCounted
  <2> HIDE DEF d
  <2>3. r.ctx = d
    BY <1>3, <2>1 DEF Response
  <2> QED
    BY <1>2, <2>2, <2>3 DEF Counted, Timely
<1> QED
  BY <1>4, <1>5

LEMMA ModelCallTimely ==
    ASSUME LatencyBounded, FrameInv, Serving, NEW c, Sane(c), NEW r \in invoke_agent(armed, c)
    PROVE  Timely(c, r, 1)
<1>1. PICK s \in boundary_call(armed, c, "model_invoke", "model_backend", NoUnit) :
        r = IF s.ok
            THEN [s EXCEPT !.ctx.model_invocations = @ + 1,
                           !.ctx.tokens = @ + Max({1, c.content_scale})]
            ELSE s
  BY DEF invoke_agent
<1>2. WellArmed(armed) /\ c \in Context /\ "model_backend" \in Component
  BY ArmedNow DEF Sane, Component
<1>3. Timely(c, s, 1)
  BY <1>2, BoundaryCallTimely
<1>4. s \in Response /\ s.ctx \in Context /\ s.ctx.content_scale = c.content_scale
  <2>1. Responds(c, s, Hits(armed, "model_backend", Label(c, NoUnit)), 0)
    BY <1>2, BoundaryCallResponds
  <2> QED
    BY <2>1 DEF Responds, Answers, Response, Later
<1>5. CASE ~s.ok
  BY <1>1, <1>3, <1>5
<1>6. CASE s.ok
  <2> DEFINE d == [s.ctx EXCEPT !.model_invocations = @ + 1,
                                !.tokens = @ + Max({1, s.ctx.content_scale})]
  <2>1. r = [s EXCEPT !.ctx = d]
    BY <1>1, <1>4, <1>6
  <2>2. Counted(s.ctx, d, 1)
    BY <1>4, InvocationCounted
  <2> HIDE DEF d
  <2>3. r.ctx = d
    BY <1>4, <2>1 DEF Response
  <2> QED
    BY <1>3, <2>2, <2>3 DEF Counted, Timely
<1> QED
  BY <1>5, <1>6

\* A product with a longer time is no less.
LEMMA LongerTimes ==
    ASSUME NEW n \in Nat, NEW a \in Nat, NEW b \in Nat, a <= b
    PROVE  n * a \in Nat /\ n * b \in Nat /\ n * a <= n * b
<1>1. b - a \in Nat /\ n * b = n * a + n * (b - a)
  OBVIOUS
<1>2. n * a \in Nat /\ n * b \in Nat /\ n * (b - a) \in Nat
  BY <1>1
<1> QED
  BY <1>1, <1>2

LEMMA MoreCalls ==
    ASSUME NEW n \in Nat, NEW m \in Nat, n <= m, NEW a \in Nat
    PROVE  n * a \in Nat /\ m * a \in Nat /\ n * a <= m * a
<1>1. m - n \in Nat /\ m * a = n * a + (m - n) * a
  OBVIOUS
<1>2. n * a \in Nat /\ m * a \in Nat /\ (m - n) * a \in Nat
  BY <1>1
<1> QED
  BY <1>1, <1>2

\* Calls in order take the sum of their times, and pay for the faults of each.
LEMMA TimelyInOrder ==
    ASSUME LatencyBounded, NEW c \in Context, NEW q, Later(c, q.ctx), NEW r, Later(q.ctx, r.ctx),
           NEW s \in Nat, NEW t \in Nat, Timely(c, q, s), Timely(q.ctx, r, t)
    PROVE  Timely(c, r, s + t)
<1>1. /\ c.elapsed_s \in Nat /\ q.ctx.elapsed_s \in Nat /\ r.ctx.elapsed_s \in Nat
      /\ c.elapsed_s <= q.ctx.elapsed_s /\ q.ctx.elapsed_s <= r.ctx.elapsed_s
  BY DEF Later, Context
<1>2. q.ctx.faults_seen \in SUBSET r.ctx.faults_seen /\ r.ctx.faults_seen \in SUBSET Faulty
      /\ q.ctx.faults_seen \in SUBSET Faulty
  BY SeenFaults DEF Later
<1> DEFINE L(d) == LongestCall(d.ctx.faults_seen)
<1>3. L(q) \in Nat /\ L(r) \in Nat /\ L(q) <= L(r)
  BY <1>2, LongestCallExists
<1>4. q.ctx.elapsed_s <= c.elapsed_s + s * L(q) /\ r.ctx.elapsed_s <= q.ctx.elapsed_s + t * L(r)
  BY DEF Timely
<1>5. ASSUME NEW x \in r.ctx.faults_seen \ c.faults_seen
      PROVE  \E dt \in CallTime(x[2]) : dt <= r.ctx.elapsed_s - c.elapsed_s
  <2>1. x[2] \in FaultType
    BY <1>2 DEF Faulty
  <2>2. CallTime(x[2]) \subseteq Nat
    BY <2>1, CallTimes DEF Fault
  <2>3. CASE x \in q.ctx.faults_seen
    <3>1. PICK dt \in CallTime(x[2]) : dt <= q.ctx.elapsed_s - c.elapsed_s
      BY <2>3 DEF Timely
    <3>2. dt <= r.ctx.elapsed_s - c.elapsed_s
      BY <1>1, <2>2, <3>1
    <3> QED
      BY <3>2
  <2>4. CASE x \notin q.ctx.faults_seen
    <3>1. PICK dt \in CallTime(x[2]) : dt <= r.ctx.elapsed_s - q.ctx.elapsed_s
      BY <2>4 DEF Timely
    <3>2. dt <= r.ctx.elapsed_s - c.elapsed_s
      BY <1>1, <2>2, <3>1
    <3> QED
      BY <3>2
  <2> QED
    BY <2>3, <2>4
<1> HIDE DEF L
<1>6. s * L(q) <= s * L(r) /\ s * L(q) \in Nat /\ s * L(r) \in Nat /\ t * L(r) \in Nat
  BY <1>3, LongerTimes
<1>7. (s + t) * L(r) = s * L(r) + t * L(r)
  BY <1>3
<1>8. r.ctx.elapsed_s <= c.elapsed_s + (s + t) * L(r)
  BY <1>1, <1>4, <1>6, <1>7
<1> QED
  BY <1>5, <1>8 DEF L, Timely

LEMMA TimelyWider ==
    ASSUME LatencyBounded, NEW c \in Context, NEW r, r.ctx \in Context,
           NEW s \in Nat, NEW t \in Nat, s <= t, Timely(c, r, s)
    PROVE  Timely(c, r, t)
<1> DEFINE L == LongestCall(r.ctx.faults_seen)
<1>1. c.elapsed_s \in Nat /\ r.ctx.elapsed_s \in Nat
  BY DEF Context
<1>2. L \in Nat
  BY SeenFaults, LongestCallExists
<1>3. r.ctx.elapsed_s <= c.elapsed_s + s * L
  BY DEF Timely
<1> HIDE DEF L
<1>4. s * L <= t * L /\ s * L \in Nat /\ t * L \in Nat
  BY <1>2, MoreCalls
<1>5. r.ctx.elapsed_s <= c.elapsed_s + t * L
  BY <1>1, <1>3, <1>4
<1> QED
  BY <1>5 DEF L, Timely

LEMMA OneActionTimely ==
    ASSUME LatencyBounded, FrameInv, Serving, NEW c, Sane(c), NEW agent,
           NEW r \in run_agent_script(armed, c, <<agent>>)
    PROVE  Timely(c, r, 1)
<1> DEFINE actions == <<agent>>
           g == CHOOSE f : AfterActions(armed, c, actions, Len(actions), f)
<1>1. Len(actions) = 1 /\ actions[1] = agent
  OBVIOUS
<1>2. AfterActions(armed, c, actions, Len(actions), g)
  BY <1>1, ScriptExists
<1>3. r \in g[Len(actions)]
  BY DEF run_agent_script, AfterActions, Acted
<1> HIDE DEF g, actions
<1>4. g[0] = {Ok(c)} /\ g[1] = Acted(armed, g[0], agent)
  BY <1>1, <1>2 DEF AfterActions
<1>5. r \in ServiceCall(armed, c, "action", "tool", agent)
  BY <1>1, <1>3, <1>4 DEF Acted, Then, Ok
<1>6. WellArmed(armed) /\ c \in Context /\ "tool" \in Component
  BY ArmedNow DEF Sane, Component
<1> QED
  BY <1>5, <1>6, ServiceCallTimely

LEMMA CollaboratorCallTimely ==
    ASSUME LatencyBounded, FrameInv, Serving, NEW c, Sane(c), NEW agent,
           NEW r \in CollaboratorCall(c, agent)
    PROVE  Timely(c, r, StepCalls) /\ r.ctx \in Context
<1>1. c \in Context
  BY DEF Sane
<1>2. CASE OnBedrock
  <2>1. r \in invoke_agent(armed, c) /\ StepCalls = 1
    BY <1>2 DEF CollaboratorCall, StepCalls
  <2> QED
    BY <2>1, ModelCall, ModelCallTimely DEF Sane
<1>3. CASE ~OnBedrock
  <2>1. r \in send(armed, c, <<agent>>) /\ StepCalls = 1 + 1
    BY <1>3 DEF CollaboratorCall, StepCalls
  <2>2. PICK q \in invoke_agent(armed, c) :
          IF q.ok THEN r \in run_agent_script(armed, q.ctx, <<agent>>) ELSE r = q
    BY <2>1 DEF send, Then
  <2>3. Timely(c, q, 1) /\ Sane(q.ctx) /\ q.ctx \in Context /\ Later(c, q.ctx)
    BY ModelCall, ModelCallTimely DEF Sane, Responds, Answers
  <2>4. CASE ~q.ok
    BY <1>1, <2>1, <2>2, <2>3, <2>4, TimelyWider
  <2>5. CASE q.ok
    <3>1. Timely(q.ctx, r, 1)
      BY <2>2, <2>3, <2>5, OneActionTimely
    <3>2. Later(q.ctx, r.ctx) /\ r.ctx \in Context
      <4>1. Len(<<agent>>) \in Nat
        OBVIOUS
      <4> QED
        BY <2>2, <2>3, <2>5, <4>1, ScriptCall DEF Responds, Answers, Sane
    <3> QED
      BY <1>1, <2>1, <2>3, <3>1, <3>2, TimelyInOrder
  <2> QED
    BY <2>4, <2>5
<1> QED
  BY <1>2, <1>3

\* A branch takes at most the time of its calls.
LEMMA BranchTimely ==
    ASSUME LatencyBounded, FrameInv, Serving, NEW c, Sane(c), NEW agent,
           NEW r \in Branch(c, agent)
    PROVE  Timely(c, r, BranchCalls)
<1> DEFINE N == steps_per_branch
           g == CHOOSE f : Chain(c, agent, N, f)
<1>1. N \in Nat /\ StepCalls \in Nat /\ c \in Context
  BY PathTypes DEF Sane
<1>2. Chain(c, agent, N, g)
  BY <1>1, ChainExists
<1>3. r \in g[N]
  BY DEF Branch, Chain, NextCall
<1> HIDE DEF g, N
<1> DEFINE Good(j, q) == Responds(c, q, Hit, j) /\ Timely(c, q, j * StepCalls)
           Bad == {j \in 0..N : \E q \in g[j] : ~Good(j, q)}
<1>4. Bad = {}
  <2> SUFFICES ASSUME Bad # {} PROVE FALSE
    OBVIOUS
  <2>1. PICK j \in Bad : \A m \in Bad : j <= m
    <3>1. Bad \in SUBSET Nat
      BY <1>1
    <3> HIDE DEF Bad
    <3> QED
      BY <3>1, LeastNumber
  <2>2. CASE j = 0
    <3>1. Responds(c, Ok(c), Hit, 0) /\ Ok(c).ctx = c
      BY <1>1, OkResponds DEF Ok
    <3>2. 0 * StepCalls = 0 /\ c.elapsed_s \in Nat
      BY <1>1 DEF Context
    <3>3. LongestCall(c.faults_seen) \in Nat
      BY <1>1, SeenFaults, LongestCallExists
    <3>4. Good(0, Ok(c))
      BY <3>1, <3>2, <3>3 DEF Timely
    <3> QED
      BY <1>1, <1>2, <2>1, <2>2, <3>4 DEF Chain
  <2>3. CASE j # 0
    <3>1. j - 1 \in 0..N /\ j \in 0..N /\ j - 1 \notin Bad /\ j - 1 \in Nat /\ (j - 1) + 1 = j
      BY <1>1, <2>1, <2>3
    <3>2. \A q \in g[j - 1] : Good(j - 1, q)
      BY <3>1
    <3>3. g[j] = NextCall(g[j - 1], agent)
      BY <1>2, <2>3, <3>1 DEF Chain
    <3> DEFINE T == (j - 1) * StepCalls
    <3>4. T \in Nat /\ T + StepCalls = j * StepCalls /\ T <= T + StepCalls
      BY <1>1, <3>1
    <3>5. ASSUME NEW p \in g[j] PROVE Good(j, p)
      <4>1. Responds(c, p, Hit, j)
        BY <3>1, <3>2, <3>3, <3>5, NextCallResponds
      <4>2. PICK q \in g[j - 1] :
              IF q.ok THEN p \in CollaboratorCall(q.ctx, agent) ELSE p = q
        BY <3>3, <3>5 DEF NextCall, Then
      <4>3. Responds(c, q, Hit, j - 1) /\ Timely(c, q, T) /\ Sane(q.ctx) /\ q.ctx \in Context
            /\ Later(c, q.ctx)
        BY <3>2, <4>2, SaneAfter DEF Responds, Answers, Sane
      <4> HIDE DEF T
      <4>4. CASE ~q.ok
        <5>1. Timely(c, p, T + StepCalls)
          BY <1>1, <3>4, <4>2, <4>3, <4>4, TimelyWider
        <5> QED
          BY <3>4, <4>1, <5>1
      <4>5. CASE q.ok
        <5>1. Timely(q.ctx, p, StepCalls)
          BY <4>2, <4>3, <4>5, CollaboratorCallTimely
        <5>2. Later(q.ctx, p.ctx)
          <6>1. p \in invoke_agent(armed, q.ctx) \/ p \in send(armed, q.ctx, <<agent>>)
            BY <4>2, <4>5 DEF CollaboratorCall
          <6>2. Len(<<agent>>) \in Nat
            OBVIOUS
          <6> QED
            BY <4>3, <6>1, <6>2, ModelCall, SendCall DEF Responds, Answers
        <5>3. Timely(c, p, T + StepCalls)
          BY <1>1, <3>4, <4>3, <5>1, <5>2, TimelyInOrder
        <5> QED
          BY <3>4, <4>1, <5>3
      <4> QED
        BY <4>4, <4>5
    <3> QED
      BY <2>1, <3>5
  <2> QED
    BY <2>2, <2>3
<1>5. Timely(c, r, N * StepCalls)
  BY <1>1, <1>3, <1>4
<1> QED
  BY <1>5 DEF N, BranchCalls

\* The time of each fault met is paid within e.
Paid(seen, e) == \A s \in seen : \E dt \in CallTime(s[2]) : dt <= e

\* What a request of P1 has been charged so far, for the faults it has met.
ChargedSoFar(seen) ==
    LET longest == LongestCall(seen)
    IN  /\ pc = "P1.plan" => ctx.elapsed_s = 0 /\ seen = {}
        /\ pc = "P1.branch" =>
              /\ fanout.base <= longest
              /\ \A k \in DOMAIN fanout.durations : fanout.durations[k] <= BranchCalls * longest
              /\ \A s \in seen : \E dt \in CallTime(s[2]) :
                    dt <= fanout.base \/ \E k \in DOMAIN fanout.durations : dt <= fanout.durations[k]
        /\ pc = "P1.synthesize" =>
              ctx.elapsed_s <= (1 + BranchCalls) * longest /\ Paid(seen, ctx.elapsed_s)
        /\ pc = "returned" =>
              ctx.elapsed_s <= (2 + BranchCalls) * longest /\ Paid(seen, ctx.elapsed_s)

PathInv == pattern = "P1" => ChargedSoFar(ctx.faults_seen)

\* Calls that start after what has been paid add to it.
LEMMA PaidOn ==
    ASSUME NEW c \in Context, NEW r, Later(c, r.ctx), NEW n, Timely(c, r, n),
           Paid(c.faults_seen, c.elapsed_s)
    PROVE  Paid(r.ctx.faults_seen, r.ctx.elapsed_s)
<1> SUFFICES ASSUME NEW s \in r.ctx.faults_seen
             PROVE  \E dt \in CallTime(s[2]) : dt <= r.ctx.elapsed_s
  BY DEF Paid
<1>1. /\ c.elapsed_s \in Nat /\ r.ctx.elapsed_s \in Nat /\ c.elapsed_s <= r.ctx.elapsed_s
  BY DEF Later, Context
<1>2. CallTime(s[2]) \subseteq Nat
  <2>1. s[2] \in FaultType
    BY SeenFaults DEF Later, Faulty
  <2> QED
    BY <2>1, CallTimes DEF Fault
<1>3. CASE s \in c.faults_seen
  <2>1. PICK dt \in CallTime(s[2]) : dt <= c.elapsed_s
    BY <1>3 DEF Paid
  <2>2. dt <= r.ctx.elapsed_s
    BY <1>1, <1>2, <2>1
  <2> QED
    BY <2>2
<1>4. CASE s \notin c.faults_seen
  <2>1. PICK dt \in CallTime(s[2]) : dt <= r.ctx.elapsed_s - c.elapsed_s
    BY <1>4 DEF Timely
  <2>2. dt <= r.ctx.elapsed_s
    BY <1>1, <1>2, <2>1
  <2> QED
    BY <2>2
<1> QED
  BY <1>3, <1>4

\* A response to n more calls, after at most m.
LEMMA CallsAdd ==
    ASSUME LatencyBounded, NEW c \in Context, NEW r, Later(c, r.ctx), NEW n \in Nat, NEW m \in Nat,
           Timely(c, r, n), c.elapsed_s <= m * LongestCall(c.faults_seen)
    PROVE  /\ r.ctx.elapsed_s <= (m + n) * LongestCall(r.ctx.faults_seen)
           /\ LongestCall(c.faults_seen) <= LongestCall(r.ctx.faults_seen)
           /\ LongestCall(c.faults_seen) \in Nat /\ LongestCall(r.ctx.faults_seen) \in Nat
<1> DEFINE L == LongestCall(c.faults_seen)
           K == LongestCall(r.ctx.faults_seen)
<1>1. /\ c.elapsed_s \in Nat /\ r.ctx.elapsed_s \in Nat
      /\ c.faults_seen \in SUBSET r.ctx.faults_seen
      /\ r.ctx.faults_seen \in SUBSET Faulty /\ c.faults_seen \in SUBSET Faulty
  BY SeenFaults DEF Later, Context
<1>2. L \in Nat /\ K \in Nat /\ L <= K
  BY <1>1, LongestCallExists
<1>3. r.ctx.elapsed_s <= c.elapsed_s + n * K /\ c.elapsed_s <= m * L
  BY DEF Timely
<1> HIDE DEF L, K
<1>4. m * L <= m * K /\ m * L \in Nat /\ m * K \in Nat /\ n * K \in Nat
  BY <1>2, LongerTimes
<1>5. (m + n) * K = m * K + n * K
  BY <1>2
<1>6. r.ctx.elapsed_s <= (m + n) * K
  BY <1>1, <1>3, <1>4, <1>5
<1> QED
  BY <1>2, <1>6 DEF L, K

LEMMA SamePath == ASSUME UNCHANGED <<item, platform>> PROVE BranchCalls' = BranchCalls
BY SameWork DEF BranchCalls, StepCalls, OnBedrock

\* The request has returned: what has been charged is all there is to say.
LEMMA ReturnedOnTime ==
    ASSUME LatencyBounded, FrameInv, pc' = "returned", UNCHANGED <<item, platform>>,
           NEW n \in Nat, n <= 2 + BranchCalls,
           ctx'.faults_seen \in SUBSET Faulty, ctx'.elapsed_s \in Nat,
           ctx'.elapsed_s <= n * LongestCall(ctx'.faults_seen),
           Paid(ctx'.faults_seen, ctx'.elapsed_s)
    PROVE  PathInv'
<1> DEFINE L == LongestCall(ctx'.faults_seen)
<1>1. L \in Nat /\ ctx'.elapsed_s <= n * L
  BY LongestCallExists
<1>2. BranchCalls \in Nat /\ BranchCalls' = BranchCalls
  BY PathTypes, SamePath
<1> HIDE DEF L
<1>3. ctx'.elapsed_s <= (2 + BranchCalls) * L
  <2>1. /\ n * L \in Nat /\ (2 + BranchCalls) * L \in Nat
        /\ n * L <= (2 + BranchCalls) * L
    BY <1>1, <1>2, MoreCalls
  <2> QED
    BY <1>1, <2>1
<1> QED
  BY <1>2, <1>3 DEF L, PathInv, ChargedSoFar, Paid

LEMMA PlanOnTime ==
    ASSUME LatencyBounded, FrameInv, PathInv, Plan, Unmoved PROVE PathInv'
<1>1. pc = "P1.plan" /\ Serving /\ pattern = "P1" /\ Sane(ctx) /\ ctx \in Context
  BY P1Serves DEF Plan, Sane
<1>2. PICK r \in invoke_agent(armed, ctx) :
        \/ /\ r.ok
           /\ Goto(r.ctx, "P1.branch")
           /\ fanout' = [NoFanout EXCEPT !.base = r.ctx.elapsed_s]
        \/ Raise(r) /\ UNCHANGED fanout
  BY DEF Plan
<1>3. Later(ctx, r.ctx) /\ Timely(ctx, r, 1) /\ r.ctx \in Context
  BY <1>1, ModelCall, ModelCallTimely DEF Responds, Answers, Later
<1>4. ctx.elapsed_s = 0 /\ ctx.faults_seen = {}
  BY <1>1 DEF PathInv, ChargedSoFar
<1>5. Paid(r.ctx.faults_seen, r.ctx.elapsed_s)
  BY <1>1, <1>3, <1>4, PaidOn DEF Paid
<1>6. /\ LongestCall(r.ctx.faults_seen) \in Nat /\ r.ctx.faults_seen \in SUBSET Faulty
      /\ r.ctx.elapsed_s \in Nat
      /\ r.ctx.elapsed_s <= 1 * LongestCall(r.ctx.faults_seen)
  <2>1. r.ctx.faults_seen \in SUBSET Faulty /\ r.ctx.elapsed_s \in Nat
    BY <1>3, SeenFaults DEF Context
  <2>2. LongestCall(r.ctx.faults_seen) \in Nat
    BY <2>1, LongestCallExists
  <2> QED
    BY <1>3, <1>4, <2>1, <2>2 DEF Timely
<1>7. CASE Raise(r)
  <2>1. ctx' = r.ctx /\ pc' = "returned" /\ UNCHANGED <<item, platform>>
    BY <1>7 DEF Raise, Return
  <2>2. 1 \in Nat /\ 1 <= 2 + BranchCalls
    BY PathTypes
  <2> QED
    BY <1>5, <1>6, <2>1, <2>2, ReturnedOnTime
<1>8. CASE /\ r.ok
           /\ Goto(r.ctx, "P1.branch")
           /\ fanout' = [NoFanout EXCEPT !.base = r.ctx.elapsed_s]
  <2>1. ctx' = r.ctx /\ pc' = "P1.branch"
    BY <1>8 DEF Goto
  <2>2. fanout' = [base |-> r.ctx.elapsed_s, durations |-> <<>>, error |-> NoFault]
    BY <1>8 DEF NoFanout
  <2>3. fanout'.base = r.ctx.elapsed_s /\ DOMAIN fanout'.durations = {}
    BY <2>2
  <2>4. fanout'.base <= LongestCall(r.ctx.faults_seen)
    BY <1>6, <2>3
  <2>5. ChargedSoFar(r.ctx.faults_seen)'
    BY <1>5, <2>1, <2>3, <2>4 DEF ChargedSoFar, Paid
  <2> QED
    BY <2>1, <2>5 DEF PathInv
<1> QED
  BY <1>2, <1>7, <1>8

LEMMA RunBranchOnTime ==
    ASSUME LatencyBounded, FrameInv, P1Inv, PathInv, RunBranch, Unmoved PROVE PathInv'
<1>1. pc = "P1.branch" /\ Serving /\ pattern = "P1" /\ Sane(ctx) /\ ctx \in Context
  BY P1Serves DEF RunBranch, Sane
<1> DEFINE c == StartOfBranch(ctx)
           k == Len(fanout.durations)
<1>2. PICK r \in Branch(c, "collab") :
         /\ fanout' = [fanout EXCEPT
                          !.durations = Append(@, Duration(r)),
                          !.error = BranchError(r)]
         /\ Goto(r.ctx, "P1.branch")
  BY DEF RunBranch
<1>3. Sane(c) /\ c \in Context /\ c.elapsed_s = fanout.base /\ c.faults_seen = ctx.faults_seen
  BY <1>1, StartedBranch DEF Sane
<1> HIDE DEF c
<1>4. Later(c, r.ctx) /\ Timely(c, r, BranchCalls) /\ r.ctx \in Context
  BY <1>1, <1>2, <1>3, BranchResponds, BranchTimely DEF Responds, Answers, Later
<1> DEFINE dt == Duration(r)
           er == BranchError(r)
           L  == LongestCall(ctx.faults_seen)
           K  == LongestCall(r.ctx.faults_seen)
<1>5. /\ fanout.base \in Nat /\ fanout.durations \in Seq(Nat) /\ k \in Nat
      /\ fanout \in FanoutType /\ dt \in Nat /\ dt = r.ctx.elapsed_s - c.elapsed_s
      /\ r.ctx.elapsed_s \in Nat
  BY <1>3, <1>4 DEF P1Inv, FanoutType, Later, Context, Duration
<1>6. fanout'.base = fanout.base /\ fanout'.durations = Append(fanout.durations, dt)
  <2> DEFINE ds == Append(fanout.durations, dt)
  <2>1. fanout' = [fanout EXCEPT !.durations = ds, !.error = er]
    BY <1>2
  <2> HIDE DEF ds, er
  <2>2. fanout'.base = fanout.base /\ fanout'.durations = ds
    BY <1>5, <2>1 DEF FanoutType
  <2> QED
    BY <2>2 DEF ds
<1>7. ctx' = r.ctx /\ pc' = "P1.branch" /\ UNCHANGED <<item, platform>>
  BY <1>2 DEF Goto
<1>8. BranchCalls \in Nat /\ BranchCalls' = BranchCalls
  BY <1>7, SamePath, PathTypes
<1>9. /\ fanout.base <= L
      /\ \A j \in DOMAIN fanout.durations : fanout.durations[j] <= BranchCalls * L
      /\ \A s \in ctx.faults_seen : \E d \in CallTime(s[2]) :
            d <= fanout.base \/ \E j \in DOMAIN fanout.durations : d <= fanout.durations[j]
  BY <1>1 DEF PathInv, ChargedSoFar
<1>10. L \in Nat /\ K \in Nat /\ L <= K
  <2>1. r.ctx.faults_seen \in SUBSET Faulty /\ ctx.faults_seen \in SUBSET r.ctx.faults_seen
        /\ ctx.faults_seen \in SUBSET Faulty
    BY <1>1, <1>3, <1>4, SeenFaults DEF Later
  <2> QED
    BY <2>1, LongestCallExists
<1>11. dt <= BranchCalls * K
  <2>1. r.ctx.elapsed_s <= c.elapsed_s + BranchCalls * K /\ c.elapsed_s \in Nat
    BY <1>3, <1>4 DEF Timely, Context
  <2> HIDE DEF K, dt
  <2>2. BranchCalls * K \in Nat
    BY <1>8, <1>10
  <2> QED
    BY <1>5, <2>1, <2>2
<1>12. \A s \in r.ctx.faults_seen \ ctx.faults_seen : \E d \in CallTime(s[2]) : d <= dt
  BY <1>3, <1>4, <1>5 DEF Timely
<1> HIDE DEF dt, er, L, K
<1>13. BranchCalls * L <= BranchCalls * K /\ BranchCalls * L \in Nat /\ BranchCalls * K \in Nat
  BY <1>8, <1>10, LongerTimes
<1>14. /\ DOMAIN fanout.durations = 1..k /\ DOMAIN fanout'.durations = 1..(k + 1)
       /\ fanout'.durations[k + 1] = dt
       /\ \A j \in 1..k : fanout'.durations[j] = fanout.durations[j] /\ fanout.durations[j] \in Nat
       /\ k + 1 \in 1..(k + 1) /\ 1..k \subseteq 1..(k + 1)
  BY <1>5, <1>6
<1>15. ASSUME NEW j \in DOMAIN fanout'.durations PROVE fanout'.durations[j] <= BranchCalls * K
  <2>1. j \in 1..k \/ j = k + 1
    BY <1>5, <1>14
  <2> HIDE DEF k
  <2>2. CASE j \in 1..k
    BY <1>9, <1>13, <1>14, <2>2
  <2>3. CASE j = k + 1
    BY <1>11, <1>14, <2>3
  <2> QED
    BY <2>1, <2>2, <2>3
<1> HIDE DEF k
<1>16. fanout'.base <= K
  BY <1>5, <1>6, <1>9, <1>10
<1>17. ASSUME NEW s \in r.ctx.faults_seen
       PROVE  \E d \in CallTime(s[2]) :
                 d <= fanout'.base \/ \E j \in DOMAIN fanout'.durations : d <= fanout'.durations[j]
  <2>1. CASE s \in ctx.faults_seen
    <3>1. PICK d \in CallTime(s[2]) :
            d <= fanout.base \/ \E j \in DOMAIN fanout.durations : d <= fanout.durations[j]
      BY <1>9, <2>1
    <3>2. CASE d <= fanout.base
      BY <1>6, <3>2
    <3>3. CASE \E j \in DOMAIN fanout.durations : d <= fanout.durations[j]
      BY <1>14, <3>3
    <3> QED
      BY <3>1, <3>2, <3>3
  <2>2. CASE s \notin ctx.faults_seen
    BY <1>12, <1>14, <2>2
  <2> QED
    BY <2>1, <2>2
<1>18. ChargedSoFar(r.ctx.faults_seen)'
  BY <1>7, <1>8, <1>15, <1>16, <1>17 DEF ChargedSoFar, K
<1> QED
  BY <1>7, <1>18 DEF PathInv

LEMMA JoinBranchesOnTime ==
    ASSUME LatencyBounded, FrameInv, P1Inv, PathInv, JoinBranches, Unmoved PROVE PathInv'
<1>1. pc = "P1.branch" /\ Serving /\ pattern = "P1" /\ Sane(ctx) /\ ctx \in Context
      /\ Len(fanout.durations) = n_collaborators
  BY P1Serves DEF JoinBranches, Sane
<1> DEFINE longest == Max(ToSet(fanout.durations))
           e == fanout.base + longest
           c == [ctx EXCEPT !.elapsed_s = e]
           L == LongestCall(ctx.faults_seen)
<1>2. fanout.base \in Nat /\ fanout.durations \in Seq(Nat)
  BY DEF P1Inv, FanoutType
<1>3. /\ longest \in Nat /\ \E j \in DOMAIN fanout.durations : longest = fanout.durations[j]
      /\ \A j \in DOMAIN fanout.durations : fanout.durations[j] <= longest
  BY <1>1, <1>2, LongestExists, CollaboratorsAssumption
<1>4. /\ fanout.base <= L
      /\ \A j \in DOMAIN fanout.durations : fanout.durations[j] <= BranchCalls * L
      /\ \A s \in ctx.faults_seen : \E d \in CallTime(s[2]) :
            d <= fanout.base \/ \E j \in DOMAIN fanout.durations : d <= fanout.durations[j]
  BY <1>1 DEF PathInv, ChargedSoFar
<1>5. /\ L \in Nat /\ ctx.faults_seen \in SUBSET Faulty /\ BranchCalls \in Nat
  BY <1>1, SeenFaults, LongestCallExists, PathTypes
<1>6. /\ ctx' = c /\ pc' \in {"P1.synthesize", "returned"}
      /\ UNCHANGED <<item, platform>>
  BY DEF JoinBranches, Goto, Return
<1>7. longest <= BranchCalls * L
  BY <1>3, <1>4
<1> HIDE DEF longest, L
<1>8. e \in Nat /\ e <= (1 + BranchCalls) * L
  <2>1. (1 + BranchCalls) * L = L + BranchCalls * L /\ BranchCalls * L \in Nat
    BY <1>5
  <2> QED
    BY <1>2, <1>3, <1>4, <1>5, <1>7, <2>1
<1>9. Paid(ctx.faults_seen, e)
  <2> SUFFICES ASSUME NEW s \in ctx.faults_seen PROVE \E d \in CallTime(s[2]) : d <= e
    BY DEF Paid
  <2>1. CallTime(s[2]) \subseteq Nat
    <3>1. s[2] \in FaultType
      BY <1>5 DEF Faulty
    <3> QED
      BY <3>1, CallTimes DEF Fault
  <2>2. PICK d \in CallTime(s[2]) :
          d <= fanout.base \/ \E j \in DOMAIN fanout.durations : d <= fanout.durations[j]
    BY <1>4
  <2>3. \A j \in DOMAIN fanout.durations : fanout.durations[j] \in Nat
    BY <1>2
  <2>4. d <= fanout.base \/ d <= longest
    BY <1>3, <2>1, <2>2, <2>3
  <2>5. d <= e
    BY <1>2, <1>3, <2>1, <2>4
  <2> QED
    BY <2>5
<1> HIDE DEF e
<1>10. c.elapsed_s = e /\ c.faults_seen = ctx.faults_seen
  BY <1>1 DEF Context
<1>11. BranchCalls' = BranchCalls
  BY <1>6, SamePath
<1>12. CASE pc' = "P1.synthesize"
  BY <1>6, <1>8, <1>9, <1>10, <1>11, <1>12 DEF PathInv, ChargedSoFar, L, Paid
<1>13. CASE pc' = "returned"
  <2>1. 1 + BranchCalls \in Nat /\ 1 + BranchCalls <= 2 + BranchCalls
    BY <1>5
  <2>2. /\ ctx'.faults_seen = ctx.faults_seen /\ ctx'.elapsed_s = e
    BY <1>6, <1>10
  <2>3. ctx'.elapsed_s <= (1 + BranchCalls) * LongestCall(ctx'.faults_seen)
    BY <1>8, <2>2 DEF L
  <2>4. /\ ctx'.faults_seen \in SUBSET Faulty /\ ctx'.elapsed_s \in Nat
        /\ Paid(ctx'.faults_seen, ctx'.elapsed_s)
    BY <1>5, <1>8, <1>9, <2>2
  <2> QED
    BY <1>6, <1>13, <2>1, <2>3, <2>4, ReturnedOnTime
<1> QED
  BY <1>6, <1>12, <1>13

LEMMA SynthesizeOnTime ==
    ASSUME LatencyBounded, FrameInv, PathInv, Synthesize, Unmoved PROVE PathInv'
<1>1. pc = "P1.synthesize" /\ Serving /\ pattern = "P1" /\ Sane(ctx) /\ ctx \in Context
  BY P1Serves DEF Synthesize, Sane
<1> DEFINE c == Scaled(ctx, work_steps)
<1>2. Sane(c) /\ c \in Context /\ c.elapsed_s = ctx.elapsed_s /\ c.faults_seen = ctx.faults_seen
  <2>1. work_steps \in Nat
    BY WorkTypes
  <2> QED
    BY <1>1, <2>1, SaneScaled, ScaledFields DEF Sane
<1>3. PICK r \in invoke_agent(armed, c) :
        \/ r.ok /\ Return(Unscaled(r.ctx), "ok")
        \/ Raise(r)
  BY DEF Synthesize
<1> HIDE DEF c
<1>4. Later(c, r.ctx) /\ Timely(c, r, 1) /\ r.ctx \in Context
  BY <1>1, <1>2, ModelCall, ModelCallTimely DEF Responds, Answers, Later
<1>5. /\ c.elapsed_s <= (1 + BranchCalls) * LongestCall(c.faults_seen)
      /\ Paid(c.faults_seen, c.elapsed_s)
  BY <1>1, <1>2 DEF PathInv, ChargedSoFar
<1>6. 1 + BranchCalls \in Nat /\ (1 + BranchCalls) + 1 = 2 + BranchCalls
      /\ 2 + BranchCalls \in Nat /\ 2 + BranchCalls <= 2 + BranchCalls
  BY PathTypes
<1>7. r.ctx.elapsed_s <= ((1 + BranchCalls) + 1) * LongestCall(r.ctx.faults_seen)
  <2> DEFINE m == 1 + BranchCalls
  <2>1. m \in Nat /\ 1 \in Nat /\ c.elapsed_s <= m * LongestCall(c.faults_seen)
    BY <1>5, <1>6
  <2> HIDE DEF m
  <2>2. r.ctx.elapsed_s <= (m + 1) * LongestCall(r.ctx.faults_seen)
    BY <1>2, <1>4, <2>1, CallsAdd
  <2> QED
    BY <2>2 DEF m
<1>8. Paid(r.ctx.faults_seen, r.ctx.elapsed_s)
  BY <1>2, <1>4, <1>5, PaidOn
<1>9. /\ ctx'.elapsed_s = r.ctx.elapsed_s /\ ctx'.faults_seen = r.ctx.faults_seen
      /\ pc' = "returned" /\ UNCHANGED <<item, platform>>
  <2>1. CASE Raise(r)
    BY <2>1 DEF Raise, Return
  <2>2. CASE r.ok /\ Return(Unscaled(r.ctx), "ok")
    BY <1>4, <2>2, ScaledFields DEF Return, Unscaled
  <2> QED
    BY <1>3, <2>1, <2>2
<1>10. r.ctx.faults_seen \in SUBSET Faulty /\ r.ctx.elapsed_s \in Nat
  BY <1>4, SeenFaults DEF Context
<1>11. ctx'.elapsed_s <= (2 + BranchCalls) * LongestCall(ctx'.faults_seen)
  BY <1>6, <1>7, <1>9
<1>12. /\ ctx'.faults_seen \in SUBSET Faulty /\ ctx'.elapsed_s \in Nat
       /\ Paid(ctx'.faults_seen, ctx'.elapsed_s)
  BY <1>8, <1>9, <1>10
<1> QED
  BY <1>6, <1>9, <1>11, <1>12, ReturnedOnTime

LEMMA StartOnTime == ASSUME CampaignInv, StartRequest PROVE PathInv'
<1>1. PICK shape \in Items, start \in Starts,
           inFlight \in 1..Min({concurrency, Len(per_request) + 1}) :
        pattern = "P1" => P1Begin([shape EXCEPT !.id = Len(per_request) + 1], start, inFlight)
  BY DEF StartRequest
<1>2. UNCHANGED pattern
  BY DEF StartRequest, campaign
<1>3. CASE pattern = "P1"
  <2> DEFINE c == [ctx EXCEPT !.request_start_ts = start, !.concurrent_in_flight = inFlight]
  <2>1. pc' = "P1.plan" /\ ctx' = reset_request(c)
    BY <1>1, <1>3 DEF P1Begin, run
  <2> HIDE DEF c
  <2>2. ctx'.elapsed_s = 0 /\ ctx'.faults_seen = {}
    BY <2>1 DEF reset_request, build
  <2> QED
    BY <2>1, <2>2 DEF PathInv, ChargedSoFar
<1>4. CASE pattern # "P1"
  BY <1>2, <1>4 DEF PathInv
<1> QED
  BY <1>3, <1>4

LEMMA PathKept ==
    ASSUME LatencyBounded, CampaignInv, PathInv, [Next]_vars PROVE PathInv'
<1>1. CASE StartRequest
  BY <1>1, StartOnTime
<1>2. CASE PatternStep
  <2>1. Unmoved
    BY <1>2, PatternGoesOn
  <2>2. CASE pattern = "P1"
    <3>1. P2Next \/ P3Next => pc \in {"P2.stage", "P3.hop", "P3.publish", "P3.deliver"}
      BY DEF P2Next, RunStage, P3Next, Hop, PublishFirst, Deliver, ChainReturns
    <3>2. P4Next => pc \in {"P4.create", "P4.read", "P4.contribute", "P4.write",
                            "P4.store", "P4.send"}
      BY DEF P4Next, CreateBoard, ReadBoard, Contribute, WriteBoard, StoreTurn, SendTurn
    <3>3. P5Next => pc \in {"P5.route", "P5.call"}
      BY DEF P5Next, Route, CallTool, FinishTools
    <3>4. P6Next => pc \in {"P6.draft", "P6.pause", "P6.route", "P6.review"}
      BY DEF P6Next, Draft, PauseInMemory, RouteToHuman, PauseByHandoff, Review
    <3>5. P7Next => pc \in {"P7.local", "P7.remote"}
      BY DEF P7Next, LocalWork, FederatedWork
    <3>6. Serving => pc \in {"P1.plan", "P1.branch", "P1.synthesize"}
      BY <2>2 DEF CampaignInv, FrameInv, Labels
    <3>7. P1Next
      BY <1>2, <3>1, <3>2, <3>3, <3>4, <3>5, <3>6 DEF PatternStep, Serving
    <3> QED
      BY <2>1, <3>7, PlanOnTime, RunBranchOnTime, JoinBranchesOnTime, SynthesizeOnTime
         DEF P1Next, CampaignInv
  <2>3. CASE pattern # "P1"
    BY <2>1, <2>3 DEF Unmoved, PathInv
  <2> QED
    BY <2>2, <2>3
<1>3. CASE RecordRequest
  BY <1>3 DEF RecordRequest, PathInv, ChargedSoFar
<1>4. CASE EndCell
  BY <1>4 DEF EndCell, PathInv, ChargedSoFar
<1>5. CASE UNCHANGED vars
  <2>1. UNCHANGED <<pattern, ctx, pc, item, platform, fanout>>
    BY <1>5 DEF vars, frame, patternVars, campaign
  <2>2. BranchCalls' = BranchCalls
    BY <2>1, SamePath
  <2> QED
    BY <2>1, <2>2 DEF PathInv, ChargedSoFar
<1> QED
  BY <1>1, <1>2, <1>3, <1>4, <1>5 DEF Next

\* TimesAccounted: a human wait is part of its request's time; a request of P1
\* takes no longer than planning, its longest branch and synthesis, each call
\* as long as the faults met allow, and no less than any fault it met costs, a
\* fault of a branch that failed included.
THEOREM CriticalPathCharged ==
    ASSUME LatencyBounded
    PROVE  Spec => []TimesAccounted
<1>1. Init => PathInv
  BY DEF Init, PathInv, ChargedSoFar
<1>2. CampaignInv /\ PathInv /\ [Next]_vars => PathInv'
  BY PathKept
<1>3. ASSUME CampaignInv, PathInv, Returned PROVE TimesAccounted
  <2>1. ctx.nonblocking_s <= ctx.elapsed_s /\ FrameInv /\ ctx \in Context
    BY <1>3 DEF CampaignInv, FrameInv
  <2> DEFINE L == LongestCall(ctx.faults_seen)
  <2>2. ASSUME pattern = "P1"
        PROVE  /\ ctx.elapsed_s <= L * (2 + steps_per_branch * StepCalls)
               /\ Paid(ctx.faults_seen, ctx.elapsed_s)
    <3>1. ctx.elapsed_s <= (2 + BranchCalls) * L /\ Paid(ctx.faults_seen, ctx.elapsed_s)
      BY <1>3, <2>2 DEF PathInv, ChargedSoFar, Returned
    <3>2. L \in Nat /\ BranchCalls \in Nat
      BY <2>1, PathTypes, SeenFaults, LongestCallExists
    <3> HIDE DEF L
    <3>3. (2 + BranchCalls) * L = L * (2 + BranchCalls)
      BY <3>2
    <3> QED
      BY <3>1, <3>3 DEF BranchCalls
  <2> QED
    BY <2>1, <2>2 DEF TimesAccounted, StepCalls, Paid
<1>4. CampaignInv /\ PathInv => TimesAccounted
  BY <1>3 DEF TimesAccounted
<1> QED
  BY <1>1, <1>2, <1>4, CampaignInvariant, PTL DEF Spec

====

----------------------------- MODULE CallProofs -----------------------------
(***************************************************************************)
(* What the client calls of CallContext may and may not do, for every      *)
(* latency model, timeout and armed fault.  Every call of every pattern    *)
(* goes through boundary_call, so a response is described once: Responds   *)
(* says what a caller may rely on, and the lemmas show that each entry     *)
(* point, and each chain of them, keeps it.                                *)
(***************************************************************************)
EXTENDS CallContext, WellFoundedInduction, SequenceTheorems, TLAPS

Fault    == FaultType \cup {NoFault}
Seen     == SUBSET (Component \X FaultType)
Response == [ctx : Context, ok : BOOLEAN, fault : Fault]

\* The armed entries name components, faults and windows that exist.
WellArmed(a) ==
    \A k \in DOMAIN a :
        /\ k \in Component /\ a[k].fault \in FaultType
        /\ a[k].window \in {NoWindow} \cup (Nat \X Nat)

\* The faults that calls to `unit` of `component` may meet, and those of any call.
Hits(a, component, unit) ==
    IF component \in DOMAIN a /\ a[component].unit \in {NoUnit, unit}
    THEN {<<component, a[component].fault>>} ELSE {}
AllHits(a) == {<<k, a[k].fault>> : k \in DOMAIN a}

\* d is c, later in the same request: accumulators grow, the rest stays.
Later(c, d) ==
    /\ d \in Context
    /\ d.request_start_ts = c.request_start_ts
    /\ d.concurrent_in_flight = c.concurrent_in_flight
    /\ d.nonblocking_s = c.nonblocking_s
    /\ d.degraded = c.degraded
    /\ d.default_unit = c.default_unit
    /\ d.content_scale = c.content_scale
    /\ c.elapsed_s <= d.elapsed_s /\ c.tokens <= d.tokens
    /\ c.faults_seen \subseteq d.faults_seen

\* What n model invocations add to a context.
Invoked(c, d, n) ==
    /\ d.model_invocations = c.model_invocations + n
    /\ c.tokens <= d.tokens
    /\ n > 0 => c.tokens + Max({1, c.content_scale}) <= d.tokens

\* A failure is a fault of H that fired on this call; a success made n model
\* invocations.
Answers(c, r, H, n) ==
    /\ r \in Response
    /\ Later(c, r.ctx)
    /\ r.ctx.faults_seen \subseteq c.faults_seen \cup H
    /\ ~r.ok => /\ ~Succeeds(r.fault)
                /\ \E k \in Component : <<k, r.fault>> \in H /\ <<k, r.fault>> \in r.ctx.faults_seen
    /\ r.ok  => Invoked(c, r.ctx, n)

\* Unless an event is redelivered, a success has met throttles only.
Responds(c, r, H, n) ==
    /\ Answers(c, r, H, n)
    /\ r.ok => \A s \in r.ctx.faults_seen : s \in c.faults_seen \/ Succeeds(s[2])

(***************************************************************************)
(* Contexts                                                                *)
(***************************************************************************)
LEMMA MaxWithOne == ASSUME NEW n \in Nat
                    PROVE  /\ Max({1, n}) \in Nat /\ Max({1, n}) >= 1 /\ Max({1, n}) >= n
                           /\ Max({1, n}) \in {1, n}
<1>1. \E x \in {1, n} : \A y \in {1, n} : x >= y
  <2>1. CASE n >= 1 BY <2>1
  <2>2. CASE n < 1 BY <2>2
  <2> QED BY <2>1, <2>2
<1> QED
  BY <1>1 DEF Max

LEMMA DelayTypes ==
    ASSUME NEW c \in Context, NEW dt \in Nat, NEW blocking \in BOOLEAN
    PROVE  add_delay(c, dt, blocking) \in Context
<1> DEFINE e == c.elapsed_s + dt
           n == c.nonblocking_s + (IF blocking THEN 0 ELSE dt)
<1>1. e \in Nat /\ n \in Nat
  BY DEF Context
<1>2. add_delay(c, dt, blocking) = [c EXCEPT !.elapsed_s = e, !.nonblocking_s = n]
  BY DEF add_delay
<1> HIDE DEF e, n
<1> QED
  BY <1>1, <1>2 DEF Context

LEMMA Delayed ==
    ASSUME NEW c \in Context, NEW dt \in Nat, NEW blocking \in BOOLEAN
    PROVE  LET d == add_delay(c, dt, blocking)
           IN  /\ d.elapsed_s = c.elapsed_s + dt
               /\ d.nonblocking_s = c.nonblocking_s + (IF blocking THEN 0 ELSE dt)
               /\ d.request_start_ts = c.request_start_ts
               /\ d.concurrent_in_flight = c.concurrent_in_flight
               /\ d.degraded = c.degraded
               /\ d.default_unit = c.default_unit
               /\ d.content_scale = c.content_scale
               /\ d.faults_seen = c.faults_seen
               /\ d.tokens = c.tokens
               /\ d.model_invocations = c.model_invocations
<1>1. DOMAIN c = {"elapsed_s", "nonblocking_s", "request_start_ts",
     "concurrent_in_flight", "model_invocations", "service_calls",
     "services_called", "tokens", "content_scale",
     "components_touched", "faults_seen", "degraded", "default_unit"}
  BY DEF Context
<1> QED
  BY <1>1, Zenon DEF add_delay

(***************************************************************************)
(* boundary_call                                                           *)
(***************************************************************************)
\* The context a call leaves behind before its time is added.
Traced(c, service, component, f) ==
    [c EXCEPT !.components_touched = @ \cup {component},
              !.services_called = @ + (IF service = "model_invoke" THEN 0 ELSE 1),
              !.faults_seen = @ \cup (IF f = NoFault THEN {} ELSE {<<component, f>>})]

LEMMA TracedTypes ==
    ASSUME NEW c \in Context, NEW component \in Component, NEW f \in Fault, NEW service
    PROVE  Traced(c, service, component, f) \in Context
<1> DEFINE touched == c.components_touched \cup {component}
           called  == c.services_called + (IF service = "model_invoke" THEN 0 ELSE 1)
           seen    == c.faults_seen \cup (IF f = NoFault THEN {} ELSE {<<component, f>>})
<1>1. called \in Nat /\ touched \in SUBSET Component
  BY DEF Context
<1>2. seen \in SUBSET (Component \X FaultType)
  BY DEF Context, Fault
<1>3. Traced(c, service, component, f) =
        [c EXCEPT !.components_touched = touched, !.services_called = called,
                  !.faults_seen = seen]
  BY DEF Traced
<1> HIDE DEF touched, called, seen
<1> QED
  BY <1>1, <1>2, <1>3 DEF Context

LEMMA TracedFields ==
    ASSUME NEW c \in Context, NEW component \in Component, NEW f \in Fault, NEW service
    PROVE  LET d == Traced(c, service, component, f)
           IN  /\ d.elapsed_s = c.elapsed_s
               /\ d.nonblocking_s = c.nonblocking_s
               /\ d.request_start_ts = c.request_start_ts
               /\ d.concurrent_in_flight = c.concurrent_in_flight
               /\ d.degraded = c.degraded
               /\ d.default_unit = c.default_unit
               /\ d.content_scale = c.content_scale
               /\ d.tokens = c.tokens
               /\ d.model_invocations = c.model_invocations
               /\ d.faults_seen = c.faults_seen \cup (IF f = NoFault THEN {} ELSE {<<component, f>>})
<1>1. DOMAIN c = {"elapsed_s", "nonblocking_s", "request_start_ts",
     "concurrent_in_flight", "model_invocations", "service_calls",
     "services_called", "tokens", "content_scale",
     "components_touched", "faults_seen", "degraded", "default_unit"}
  BY DEF Context
<1> QED
  BY <1>1, Zenon DEF Traced

Label(c, unit) == IF unit = NoUnit THEN c.default_unit ELSE unit

\* The response to a call that meets f and takes dt.
Outcome(c, service, component, f, dt) ==
    [ctx |-> add_delay(Traced(c, service, component, f), dt, TRUE),
     ok |-> Succeeds(f), fault |-> f]

\* A call meets one of the faults its component and unit may meet, or none.
LEMMA CallIsOneFault ==
    ASSUME NEW a, NEW c, NEW service, NEW component, NEW unit,
           NEW r \in boundary_call(a, c, service, component, unit)
    PROVE  \E f \in check(a, component, Label(c, unit), sim_now(c)) :
              \E dt \in CallTime(f) : r = Outcome(c, service, component, f, dt)
BY Zenon DEF boundary_call, Traced, Label, Outcome

LEMMA CallTimes == \A f \in Fault : CallTime(f) \subseteq Nat
<1> SUFFICES ASSUME NEW f \in Fault, NEW dt \in CallTime(f) PROVE dt \in Nat
  OBVIOUS
<1> QED
  BY TimingAssumption DEF CallTime

\* What check() returns: no fault, or the armed one where it may be met.
LEMMA CheckedFault ==
    ASSUME NEW a, WellArmed(a), NEW component \in Component, NEW label, NEW now,
           NEW f \in check(a, component, label, now)
    PROVE  /\ f \in Fault
           /\ f # NoFault => <<component, f>> \in Hits(a, component, label)
BY DEF check, WellArmed, Fault, Hits, HasWindow

LEMMA BoundaryCallResponds ==
    ASSUME NEW a, WellArmed(a), NEW c \in Context, NEW service,
           NEW component \in Component, NEW unit,
           NEW r \in boundary_call(a, c, service, component, unit)
    PROVE  /\ Responds(c, r, Hits(a, component, Label(c, unit)), 0)
           /\ Invoked(c, r.ctx, 0)
<1>0. PICK f \in check(a, component, Label(c, unit), sim_now(c)) :
        \E dt \in CallTime(f) : r = Outcome(c, service, component, f, dt)
  BY CallIsOneFault
<1>1. PICK dt \in CallTime(f) : r = Outcome(c, service, component, f, dt)
  BY <1>0
<1>2. /\ f \in Fault
      /\ f # NoFault => <<component, f>> \in Hits(a, component, Label(c, unit))
  BY CheckedFault
<1>3. dt \in Nat
  BY <1>2, CallTimes
<1> DEFINE t == Traced(c, service, component, f)
           d == add_delay(t, dt, TRUE)
<1>4. t \in Context /\ d \in Context
  BY <1>2, <1>3, TracedTypes, DelayTypes
<1>5. /\ d.elapsed_s = c.elapsed_s + dt
      /\ d.nonblocking_s = c.nonblocking_s + 0
      /\ d.request_start_ts = c.request_start_ts
      /\ d.concurrent_in_flight = c.concurrent_in_flight
      /\ d.degraded = c.degraded
      /\ d.default_unit = c.default_unit
      /\ d.content_scale = c.content_scale
      /\ d.tokens = c.tokens
      /\ d.model_invocations = c.model_invocations
      /\ d.faults_seen = c.faults_seen \cup (IF f = NoFault THEN {} ELSE {<<component, f>>})
  <2> HIDE DEF t
  <2>1. /\ d.elapsed_s = t.elapsed_s + dt
        /\ d.nonblocking_s = t.nonblocking_s + 0
        /\ d.request_start_ts = t.request_start_ts
        /\ d.concurrent_in_flight = t.concurrent_in_flight
        /\ d.degraded = t.degraded
        /\ d.default_unit = t.default_unit
        /\ d.content_scale = t.content_scale
        /\ d.tokens = t.tokens
        /\ d.model_invocations = t.model_invocations
        /\ d.faults_seen = t.faults_seen
    BY <1>3, <1>4, Delayed
  <2> USE DEF t
  <2>2. /\ t.elapsed_s = c.elapsed_s /\ t.nonblocking_s = c.nonblocking_s
        /\ t.request_start_ts = c.request_start_ts
        /\ t.concurrent_in_flight = c.concurrent_in_flight
        /\ t.degraded = c.degraded /\ t.default_unit = c.default_unit
        /\ t.content_scale = c.content_scale /\ t.tokens = c.tokens
        /\ t.model_invocations = c.model_invocations
        /\ t.faults_seen = c.faults_seen \cup (IF f = NoFault THEN {} ELSE {<<component, f>>})
    BY <1>2, TracedFields
  <2> HIDE DEF t, d
  <2> QED
    BY <2>1, <2>2
<1> HIDE DEF t, d
<1>6. r.ctx = d /\ r.ok = Succeeds(f) /\ r.fault = f /\ r \in Response
  <2>1. r = [ctx |-> d, ok |-> Succeeds(f), fault |-> f]
    BY <1>1 DEF Outcome, t, d
  <2>2. Succeeds(f) \in BOOLEAN
    BY DEF Succeeds
  <2> QED
    BY <1>2, <1>4, <2>1, <2>2 DEF Response
<1>7. /\ c.elapsed_s \in Nat /\ c.nonblocking_s \in Nat
      /\ c.tokens \in Nat /\ c.model_invocations \in Nat
  BY DEF Context
<1>8. Later(c, d)
  BY <1>3, <1>4, <1>5, <1>7 DEF Later
<1>9. ~r.ok => \E k \in Component : <<k, r.fault>> \in Hits(a, component, Label(c, unit))
                                    /\ <<k, r.fault>> \in r.ctx.faults_seen
  BY <1>2, <1>5, <1>6 DEF Succeeds
<1>10. r.ok => \A s \in r.ctx.faults_seen : s \in c.faults_seen \/ Succeeds(s[2])
  <2> SUFFICES ASSUME r.ok, NEW s \in r.ctx.faults_seen, s \notin c.faults_seen
               PROVE  Succeeds(s[2])
    OBVIOUS
  <2>1. s = <<component, f>>
    BY <1>5, <1>6
  <2> QED
    BY <1>6, <2>1
<1>11. Invoked(c, d, 0)
  BY <1>5, <1>7 DEF Invoked
<1> QED
  BY <1>2, <1>5, <1>6, <1>8, <1>9, <1>10, <1>11 DEF Responds, Answers
(***************************************************************************)
(* The client entry points                                                 *)
(***************************************************************************)
\* A call that has succeeded is counted: the counters grow, nothing else changes.
Counted(c, d, m) ==
    /\ d \in Context
    /\ d.elapsed_s = c.elapsed_s
    /\ d.nonblocking_s = c.nonblocking_s
    /\ d.request_start_ts = c.request_start_ts
    /\ d.concurrent_in_flight = c.concurrent_in_flight
    /\ d.degraded = c.degraded
    /\ d.default_unit = c.default_unit
    /\ d.content_scale = c.content_scale
    /\ d.faults_seen = c.faults_seen
    /\ d.model_invocations = c.model_invocations + m
    /\ d.tokens = IF m = 0 THEN c.tokens ELSE c.tokens + Max({1, c.content_scale})

LEMMA CountedAnswer ==
    ASSUME NEW c \in Context, NEW H, NEW r, Answers(c, r, H, 0), r.ok,
           NEW m \in Nat, NEW d, Counted(r.ctx, d, m)
    PROVE  Answers(c, [r EXCEPT !.ctx = d], H, m)
<1> DEFINE q == [r EXCEPT !.ctx = d]
<1>1. r \in Response /\ r.ctx \in Context
  BY DEF Answers, Response
<1>2. q \in Response /\ q.ctx = d /\ q.ok = r.ok /\ q.fault = r.fault
  BY <1>1 DEF Response, Counted
<1> HIDE DEF q
<1>3. Later(c, q.ctx)
  <2>1. Later(c, r.ctx)
    BY DEF Answers
  <2>2. r.ctx.content_scale \in Nat /\ r.ctx.tokens \in Nat /\ c.tokens \in Nat
    BY <1>1 DEF Context
  <2>3. Max({1, r.ctx.content_scale}) \in Nat
    BY <2>2, MaxWithOne
  <2>4. c.tokens <= d.tokens
    BY <2>1, <2>2, <2>3 DEF Later, Counted
  <2> QED
    BY <1>2, <2>1, <2>4 DEF Later, Counted
<1>4. Invoked(c, q.ctx, m)
  <2>1. /\ r.ctx.model_invocations = c.model_invocations + 0
        /\ c.tokens <= r.ctx.tokens
        /\ r.ctx.content_scale = c.content_scale
    BY DEF Answers, Invoked, Later
  <2>2. /\ c.model_invocations \in Nat /\ c.tokens \in Nat /\ r.ctx.tokens \in Nat
        /\ c.content_scale \in Nat
    BY <1>1 DEF Context
  <2>3. Max({1, c.content_scale}) \in Nat
    BY <2>2, MaxWithOne
  <2> QED
    BY <1>2, <2>1, <2>2, <2>3 DEF Invoked, Counted
<1>5. Answers(c, q, H, m)
  BY <1>2, <1>3, <1>4 DEF Answers, Counted
<1> QED
  BY <1>5 DEF q

LEMMA CountedCall ==
    ASSUME NEW c \in Context, NEW H, NEW r, Responds(c, r, H, 0), r.ok,
           NEW m \in Nat, NEW d, Counted(r.ctx, d, m)
    PROVE  Responds(c, [r EXCEPT !.ctx = d], H, m)
<1> DEFINE q == [r EXCEPT !.ctx = d]
<1>1. Answers(c, q, H, m)
  BY CountedAnswer DEF Responds
<1>2. q.ctx.faults_seen = r.ctx.faults_seen
  BY DEF Responds, Answers, Response, Counted
<1> HIDE DEF q
<1>3. Responds(c, q, H, m)
  BY <1>1, <1>2 DEF Responds
<1> QED
  BY <1>3 DEF q

LEMMA ServiceCounted ==
    ASSUME NEW c \in Context
    PROVE  Counted(c, [c EXCEPT !.service_calls = @ + 1], 0)
<1> DEFINE n == c.service_calls + 1
           d == [c EXCEPT !.service_calls = n]
<1>1. n \in Nat /\ c.model_invocations \in Nat /\ c.tokens \in Nat
  BY DEF Context
<1> HIDE DEF n
<1>2. d \in Context
  BY <1>1 DEF Context
<1> HIDE DEF d
<1>3. Counted(c, d, 0)
  BY <1>1, <1>2 DEF Counted, d, Context
<1> QED
  BY <1>3 DEF d, n

LEMMA InvocationCounted ==
    ASSUME NEW c \in Context
    PROVE  Counted(c, [c EXCEPT !.model_invocations = @ + 1,
                                !.tokens = @ + Max({1, c.content_scale})], 1)
<1> DEFINE n == c.model_invocations + 1
           t == c.tokens + Max({1, c.content_scale})
           d == [c EXCEPT !.model_invocations = n, !.tokens = t]
<1>1. n \in Nat /\ t \in Nat
  BY MaxWithOne DEF Context
<1> HIDE DEF n, t
<1>2. d \in Context
  BY <1>1 DEF Context
<1> HIDE DEF d
<1>3. /\ d.elapsed_s = c.elapsed_s
      /\ d.nonblocking_s = c.nonblocking_s
      /\ d.request_start_ts = c.request_start_ts
      /\ d.concurrent_in_flight = c.concurrent_in_flight
      /\ d.degraded = c.degraded
      /\ d.default_unit = c.default_unit
      /\ d.content_scale = c.content_scale
      /\ d.faults_seen = c.faults_seen
      /\ d.model_invocations = n
      /\ d.tokens = t
  BY <1>1 DEF d, Context
<1>4. Counted(c, d, 1)
  BY <1>2, <1>3 DEF Counted, n, t
<1> QED
  BY <1>4 DEF d, n, t

LEMMA ServiceCallResponds ==
    ASSUME NEW a, WellArmed(a), NEW c \in Context, NEW service,
           NEW component \in Component, NEW unit,
           NEW r \in ServiceCall(a, c, service, component, unit)
    PROVE  Responds(c, r, Hits(a, component, Label(c, unit)), 0)
<1>1. PICK s \in boundary_call(a, c, service, component, unit) :
        r = IF s.ok THEN [s EXCEPT !.ctx.service_calls = @ + 1] ELSE s
  BY DEF ServiceCall
<1>2. Responds(c, s, Hits(a, component, Label(c, unit)), 0)
  BY BoundaryCallResponds
<1>3. CASE ~s.ok
  BY <1>1, <1>2, <1>3
<1>4. CASE s.ok
  <2> DEFINE d == [s.ctx EXCEPT !.service_calls = @ + 1]
  <2>1. s \in Response /\ s.ctx \in Context
    BY <1>2 DEF Responds, Answers, Response
  <2>2. r = [s EXCEPT !.ctx = d]
    BY <1>1, <1>4
  <2>3. Counted(s.ctx, d, 0)
    BY <2>1, ServiceCounted
  <2> HIDE DEF d
  <2> QED
    BY <1>2, <1>4, <2>2, <2>3, CountedCall
<1> QED
  BY <1>3, <1>4

LEMMA InvokeAgentResponds ==
    ASSUME NEW a, WellArmed(a), NEW c \in Context, NEW r \in invoke_agent(a, c)
    PROVE  Responds(c, r, Hits(a, "model_backend", c.default_unit), 1)
<1> DEFINE H == Hits(a, "model_backend", c.default_unit)
<1>1. PICK s \in boundary_call(a, c, "model_invoke", "model_backend", NoUnit) :
        r = IF s.ok
            THEN [s EXCEPT !.ctx.model_invocations = @ + 1,
                           !.ctx.tokens = @ + Max({1, c.content_scale})]
            ELSE s
  BY DEF invoke_agent
<1>2. Responds(c, s, H, 0)
  <2>1. Label(c, NoUnit) = c.default_unit /\ "model_backend" \in Component
    BY DEF Label, Component
  <2> QED
    BY <2>1, BoundaryCallResponds
<1>3. CASE ~s.ok
  BY <1>1, <1>2, <1>3 DEF Responds, Answers
<1>4. CASE s.ok
  <2> DEFINE d == [s.ctx EXCEPT !.model_invocations = @ + 1,
                                !.tokens = @ + Max({1, s.ctx.content_scale})]
  <2>1. s \in Response /\ s.ctx \in Context /\ s.ctx.content_scale = c.content_scale
    BY <1>2 DEF Responds, Answers, Response, Later
  <2>2. r = [s EXCEPT !.ctx = d]
    BY <1>1, <1>4, <2>1
  <2>3. Counted(s.ctx, d, 1)
    BY <2>1, InvocationCounted
  <2> HIDE DEF d
  <2> QED
    BY <1>2, <1>4, <2>2, <2>3, CountedCall
<1> QED
  BY <1>3, <1>4

(***************************************************************************)
(* Chains of calls                                                         *)
(***************************************************************************)
LEMMA OkResponds == ASSUME NEW c \in Context, NEW H PROVE Responds(c, Ok(c), H, 0)
<1>1. Ok(c) \in Response /\ Ok(c).ctx = c /\ Ok(c).ok
  BY DEF Ok, Response, Fault
<1>2. c.elapsed_s \in Nat /\ c.tokens \in Nat /\ c.model_invocations \in Nat
  BY DEF Context
<1>3. Later(c, c) /\ Invoked(c, c, 0)
  BY <1>2 DEF Later, Invoked
<1> HIDE DEF Ok
<1> QED
  BY <1>1, <1>3 DEF Responds, Answers

LEMMA RespondsWider ==
    ASSUME NEW c, NEW r, NEW n, NEW H, NEW G, H \subseteq G, Responds(c, r, H, n)
    PROVE  Responds(c, r, G, n)
BY DEF Responds, Answers

LEMMA LaterTransitive ==
    ASSUME NEW c \in Context, NEW d \in Context, NEW e, Later(c, d), Later(d, e)
    PROVE  Later(c, e)
<1>1. /\ c.elapsed_s \in Nat /\ d.elapsed_s \in Nat /\ e.elapsed_s \in Nat
      /\ c.tokens \in Nat /\ d.tokens \in Nat /\ e.tokens \in Nat
  BY DEF Later, Context
<1> QED
  BY <1>1 DEF Later

LEMMA InvokedTransitive ==
    ASSUME NEW c \in Context, NEW d \in Context, NEW e \in Context,
           NEW m \in Nat, NEW n \in Nat, d.content_scale = c.content_scale,
           Invoked(c, d, m), Invoked(d, e, n)
    PROVE  Invoked(c, e, m + n)
<1>1. /\ c.model_invocations \in Nat /\ c.tokens \in Nat /\ c.content_scale \in Nat
      /\ d.model_invocations \in Nat /\ d.tokens \in Nat
      /\ e.model_invocations \in Nat /\ e.tokens \in Nat
  BY DEF Context
<1>2. Max({1, c.content_scale}) \in Nat
  BY <1>1, MaxWithOne
<1> QED
  BY <1>1, <1>2 DEF Invoked

\* A call after a successful one keeps what callers rely on.
LEMMA AnswersInOrder ==
    ASSUME NEW c \in Context, NEW H, NEW m \in Nat, NEW n \in Nat,
           NEW q, Answers(c, q, H, m), q.ok, NEW r, Answers(q.ctx, r, H, n)
    PROVE  Answers(c, r, H, m + n)
<1>1. q.ctx \in Context /\ r.ctx \in Context /\ Later(c, q.ctx) /\ Later(q.ctx, r.ctx)
  BY DEF Answers, Later
<1>2. Later(c, r.ctx)
  BY <1>1, LaterTransitive
<1>3. r.ok => Invoked(c, r.ctx, m + n)
  <2>1. q.ctx.content_scale = c.content_scale
    BY <1>1 DEF Later
  <2> QED
    BY <1>1, <2>1, InvokedTransitive DEF Answers
<1>4. r.ctx.faults_seen \subseteq c.faults_seen \cup H
  BY DEF Answers
<1> QED
  BY <1>2, <1>3, <1>4 DEF Answers

LEMMA RespondsInOrder ==
    ASSUME NEW c \in Context, NEW H, NEW m \in Nat, NEW n \in Nat,
           NEW q, Responds(c, q, H, m), q.ok, NEW r, Responds(q.ctx, r, H, n)
    PROVE  Responds(c, r, H, m + n)
<1>1. Answers(c, r, H, m + n)
  BY AnswersInOrder DEF Responds
<1>2. r.ok => \A s \in r.ctx.faults_seen : s \in c.faults_seen \/ Succeeds(s[2])
  BY DEF Responds
<1> QED
  BY <1>1, <1>2 DEF Responds

\* A failure ends a chain, whatever calls would have followed.
LEMMA FailureEndsChain ==
    ASSUME NEW c, NEW H, NEW m, NEW n, NEW r, Responds(c, r, H, m), ~r.ok
    PROVE  Responds(c, r, H, n)
BY DEF Responds, Answers

LEMMA GatewayCallResponds ==
    ASSUME NEW a, WellArmed(a), NEW c \in Context, c.default_unit = NoUnit, NEW tool,
           NEW r \in gateway_call(a, c, tool),
           NEW H, Hits(a, "gateway", NoUnit) \subseteq H, Hits(a, "tool", tool) \subseteq H,
           tool # NoUnit
    PROVE  Responds(c, r, H, 0)
<1>1. PICK q \in ServiceCall(a, c, "gateway", "gateway", NoUnit) :
        IF q.ok THEN r \in ServiceCall(a, q.ctx, "tool", "tool", tool) ELSE r = q
  BY DEF gateway_call, Then
<1>2. "gateway" \in Component /\ "tool" \in Component
  BY DEF Component
<1>3. Responds(c, q, H, 0)
  <2>1. Responds(c, q, Hits(a, "gateway", Label(c, NoUnit)), 0)
    BY <1>2, ServiceCallResponds
  <2> QED
    BY <2>1, RespondsWider DEF Label
<1>4. CASE ~q.ok
  BY <1>1, <1>3, <1>4
<1>5. CASE q.ok
  <2>1. q.ctx \in Context
    BY <1>3 DEF Responds, Answers, Response
  <2>2. Responds(q.ctx, r, Hits(a, "tool", Label(q.ctx, tool)), 0)
    BY <1>1, <1>2, <1>5, <2>1, ServiceCallResponds
  <2>3. Responds(q.ctx, r, H, 0)
    BY <2>2, RespondsWider DEF Label
  <2>4. Responds(c, r, H, 0 + 0)
    BY <1>3, <1>5, <2>3, RespondsInOrder
  <2> QED
    BY <2>4
<1> QED
  BY <1>4, <1>5

(***************************************************************************)
(* Agent scripts.  The responses after j actions are a recursive function; *)
(* that it exists, and what its values are, is shown through the least     *)
(* number of actions for which it would be otherwise.                      *)
(***************************************************************************)
LEMMA LeastNumber ==
    ASSUME NEW S \in SUBSET Nat, S # {}
    PROVE  \E x \in S : \A y \in S : x <= y
<1> DEFINE R == OpToRel(<, Nat)
<1>1. IsWellFoundedOn(R, Nat)
  BY NatLessThanWellFounded
<1>2. \A x, y \in Nat : <<y, x>> \in R <=> y < x
  BY DEF OpToRel
<1> HIDE DEF R
<1>3. PICK x \in S : \A y \in S : ~(<<y, x>> \in R)
  BY <1>1, WFMin
<1>4. ASSUME NEW y \in S PROVE x <= y
  <2>1. x \in Nat /\ y \in Nat
    OBVIOUS
  <2>2. ~(y < x)
    BY <1>2, <1>3, <2>1
  <2> QED
    BY <2>1, <2>2
<1> QED
  BY <1>4

Acted(a, responses, action) ==
    Then(responses, LAMBDA d : ServiceCall(a, d, "action", "tool", action))

AfterActions(a, c, actions, n, g) ==
    g = [j \in 0..n |-> IF j = 0 THEN {Ok(c)} ELSE Acted(a, g[j - 1], actions[j])]

LEMMA ActedResponds ==
    ASSUME NEW a, WellArmed(a), NEW c \in Context, NEW action,
           NEW H, Hits(a, "tool", Label(c, action)) \subseteq H,
           NEW responses, \A q \in responses : Responds(c, q, H, 0),
           NEW r \in Acted(a, responses, action)
    PROVE  Responds(c, r, H, 0)
<1>1. PICK q \in responses :
        IF q.ok THEN r \in ServiceCall(a, q.ctx, "action", "tool", action) ELSE r = q
  BY DEF Acted, Then
<1>2. CASE ~q.ok
  BY <1>1, <1>2
<1>3. CASE q.ok
  <2>1. Responds(c, q, H, 0) /\ q.ctx \in Context
    BY DEF Responds, Answers, Response
  <2>2. "tool" \in Component
    BY DEF Component
  <2>3. Responds(q.ctx, r, Hits(a, "tool", Label(q.ctx, action)), 0)
    BY <1>1, <1>3, <2>1, <2>2, ServiceCallResponds
  <2>4. Responds(q.ctx, r, H, 0)
    <3>1. Label(q.ctx, action) = Label(c, action)
      BY <2>1 DEF Responds, Answers, Later, Label
    <3> QED
      BY <2>3, <3>1, RespondsWider
  <2>5. Responds(c, r, H, 0 + 0)
    BY <1>3, <2>1, <2>4, RespondsInOrder
  <2> QED
    BY <2>5
<1> QED
  BY <1>2, <1>3

LEMMA ScriptExists ==
    ASSUME NEW a, NEW c, NEW actions
    PROVE  \A n \in Nat : \E g : AfterActions(a, c, actions, n, g)
<1> DEFINE Bad == {n \in Nat : ~\E g : AfterActions(a, c, actions, n, g)}
<1> SUFFICES ASSUME Bad # {} PROVE FALSE
  OBVIOUS
<1>1. PICK n \in Bad : \A m \in Bad : n <= m
  BY LeastNumber
<1>2. n \in Nat /\ ~\E g : AfterActions(a, c, actions, n, g)
  OBVIOUS
<1>3. CASE n = 0
  <2> DEFINE g == [j \in 0..0 |-> {Ok(c)}]
  <2>1. g = [j \in 0..0 |-> IF j = 0 THEN {Ok(c)} ELSE Acted(a, g[j - 1], actions[j])]
    OBVIOUS
  <2> HIDE DEF g
  <2> QED
    BY <1>2, <1>3, <2>1 DEF AfterActions
<1>4. CASE n # 0
  <2>1. n - 1 \in Nat /\ n - 1 \notin Bad
    BY <1>1, <1>2, <1>4
  <2>2. PICK g : AfterActions(a, c, actions, n - 1, g)
    BY <2>1
  <2> DEFINE V(f, j) == IF j = 0 THEN {Ok(c)} ELSE Acted(a, f[j - 1], actions[j])
             h == [j \in 0..n |-> V(g, j)]
  <2>3. \A j \in 0..(n - 1) : h[j] = g[j]
    <3>1. \A j \in 0..(n - 1) : g[j] = V(g, j)
      BY <2>2 DEF AfterActions
    <3> HIDE DEF V
    <3>2. 0..(n - 1) \subseteq 0..n
      BY <2>1
    <3> QED
      BY <3>1, <3>2
  <2>4. ASSUME NEW j \in 0..n PROVE V(g, j) = V(h, j)
    <3>1. CASE j = 0
      BY <3>1
    <3>2. CASE j # 0
      <4>1. j - 1 \in 0..(n - 1)
        BY <1>2, <3>2
      <4>2. h[j - 1] = g[j - 1]
        BY <2>3, <4>1
      <4> QED
        BY <3>2, <4>2
    <3> QED
      BY <3>1, <3>2
  <2>5. h = [j \in 0..n |-> V(h, j)]
    <3> HIDE DEF V
    <3> QED
      BY <2>4
  <2> QED
    <3> HIDE DEF h
    <3> QED
      BY <1>2, <2>5 DEF AfterActions
<1> QED
  BY <1>3, <1>4

\* The faults that a script's actions may meet.
ScriptHits(a, c, actions) ==
    UNION {Hits(a, "tool", Label(c, actions[j])) : j \in 1..Len(actions)}

LEMMA RunAgentScriptResponds ==
    ASSUME NEW a, WellArmed(a), NEW c \in Context, NEW actions, Len(actions) \in Nat,
           NEW H, ScriptHits(a, c, actions) \subseteq H,
           NEW r \in run_agent_script(a, c, actions)
    PROVE  Responds(c, r, H, 0)
<1> DEFINE g == CHOOSE f : AfterActions(a, c, actions, Len(actions), f)
<1>1. AfterActions(a, c, actions, Len(actions), g)
  BY ScriptExists
<1>2. r \in g[Len(actions)]
  BY DEF run_agent_script, AfterActions, Acted
<1> HIDE DEF g
<1> DEFINE Bad == {j \in 0..Len(actions) : \E q \in g[j] : ~Responds(c, q, H, 0)}
<1>3. Bad = {}
  <2> SUFFICES ASSUME Bad # {} PROVE FALSE
    OBVIOUS
  <2>1. PICK j \in Bad : \A m \in Bad : j <= m
    <3>1. Bad \in SUBSET Nat
      OBVIOUS
    <3> HIDE DEF Bad
    <3> QED
      BY <3>1, LeastNumber
  <2>2. CASE j = 0
    BY <1>1, <2>1, <2>2, OkResponds DEF AfterActions
  <2>3. CASE j # 0
    <3>1. j - 1 \in 0..Len(actions) /\ j \in 0..Len(actions) /\ j - 1 \notin Bad
      BY <2>1, <2>3
    <3>2. \A q \in g[j - 1] : Responds(c, q, H, 0)
      BY <3>1
    <3>3. g[j] = Acted(a, g[j - 1], actions[j])
      BY <1>1, <2>3, <3>1 DEF AfterActions
    <3>4. Hits(a, "tool", Label(c, actions[j])) \subseteq H
      <4>1. j \in 1..Len(actions)
        BY <2>3, <3>1
      <4> QED
        BY <4>1 DEF ScriptHits
    <3> QED
      BY <2>1, <3>2, <3>3, <3>4, ActedResponds
  <2> QED
    BY <2>2, <2>3
<1> QED
  BY <1>2, <1>3

LEMMA SendResponds ==
    ASSUME NEW a, WellArmed(a), NEW c \in Context, NEW actions, Len(actions) \in Nat,
           NEW H, Hits(a, "model_backend", c.default_unit) \subseteq H,
           ScriptHits(a, c, actions) \subseteq H,
           NEW r \in send(a, c, actions)
    PROVE  Responds(c, r, H, 1)
<1>1. PICK q \in invoke_agent(a, c) :
        IF q.ok THEN r \in run_agent_script(a, q.ctx, actions) ELSE r = q
  BY DEF send, Then
<1>2. Responds(c, q, H, 1)
  <2>1. Responds(c, q, Hits(a, "model_backend", c.default_unit), 1)
    BY InvokeAgentResponds
  <2> QED
    BY <2>1, RespondsWider
<1>3. CASE ~q.ok
  BY <1>1, <1>2, <1>3
<1>4. CASE q.ok
  <2>1. q.ctx \in Context /\ q.ctx.default_unit = c.default_unit
    BY <1>2 DEF Responds, Answers, Response, Later
  <2>2. ScriptHits(a, q.ctx, actions) = ScriptHits(a, c, actions)
    BY <2>1 DEF ScriptHits, Label
  <2>4. Responds(q.ctx, r, H, 0)
    BY <1>1, <1>4, <2>1, <2>2, RunAgentScriptResponds
  <2>3. Responds(c, r, H, 1 + 0)
    BY <1>2, <1>4, <2>4, RespondsInOrder
  <2> QED
    BY <2>3
<1> QED
  BY <1>3, <1>4

LEMMA AnyHits ==
    ASSUME NEW a, NEW c, NEW actions
    PROVE  /\ \A k, unit : Hits(a, k, unit) \subseteq AllHits(a)
           /\ ScriptHits(a, c, actions) \subseteq AllHits(a)
BY DEF Hits, AllHits, ScriptHits

LEMMA StoreCallsRespond ==
    ASSUME NEW a, WellArmed(a), NEW c \in Context, NEW H, AllHits(a) \subseteq H, NEW r,
           r \in memory_op(a, c) \cup guardrails_apply(a, c) \cup handoff(a, c)
                   \cup boundary_call(a, c, "memory", "human_queue", NoUnit)
    PROVE  Responds(c, r, H, 0)
<1>1. {"memory_store", "gateway", "human_queue"} \subseteq Component
  BY DEF Component
<1>2. \E k \in Component : Responds(c, r, Hits(a, k, Label(c, NoUnit)), 0)
  BY <1>1, ServiceCallResponds, BoundaryCallResponds DEF memory_op, guardrails_apply, handoff
<1>3. \A k \in Component : Hits(a, k, Label(c, NoUnit)) \subseteq H
  BY DEF Hits, AllHits
<1> QED
  BY <1>2, <1>3, RespondsWider

(***************************************************************************)
(* Waiting and redelivery                                                  *)
(***************************************************************************)
\* w is c after a wait for `until` that fell short of it by d.
Waits(c, until, blocking, w, dt, d) ==
    /\ w = add_delay(c, dt, blocking)
    /\ sim_now(c) + dt + d >= until
    /\ sim_now(c) < until => sim_now(c) + dt + d = until

LEMMA Waited ==
    ASSUME NEW c \in Context, NEW until \in Nat, NEW blocking \in BOOLEAN,
           NEW w \in WaitUntil(c, until, blocking)
    PROVE  \E dt \in Nat, d \in RoundDown : Waits(c, until, blocking, w, dt, d)
<1> DEFINE now  == sim_now(c)
           wait == Max({0, until - now})
<1>1. now \in Nat
  BY DEF sim_now, Context
<1> HIDE DEF now
<1>2. wait = IF now <= until THEN until - now ELSE 0
  <2> DEFINE S == {0, until - now}
             m == IF now <= until THEN until - now ELSE 0
  <2>1. m \in S /\ \A y \in S : m >= y
    BY <1>1
  <2>2. \A x \in S : (\A y \in S : x >= y) => x = m
    BY <1>1
  <2> HIDE DEF S, m
  <2>3. Max(S) = m
    BY <2>1, <2>2 DEF Max
  <2> QED
    BY <2>3 DEF S, m
<1> HIDE DEF wait
<1>3. PICK d \in RoundDown : d <= wait /\ w = add_delay(c, wait - d, blocking)
  BY DEF WaitUntil, wait, now
<1>4. d \in Nat /\ wait \in Nat /\ wait - d \in Nat
  BY <1>1, <1>2, <1>3, TimingAssumption
<1> QED
  BY <1>1, <1>2, <1>3, <1>4 DEF Waits, now

LEMMA AnswersAfterWait ==
    ASSUME NEW c \in Context, NEW H, NEW q, Responds(c, q, H, 0), Invoked(c, q.ctx, 0),
           NEW dt \in Nat, NEW s, Responds(add_delay(q.ctx, dt, TRUE), s, H, 0)
    PROVE  Answers(c, s, H, 0)
<1> DEFINE w == add_delay(q.ctx, dt, TRUE)
<1>1. q.ctx \in Context
  BY DEF Responds, Answers, Response
<1>2. w \in Context
  BY <1>1, DelayTypes
<1>3. /\ w.elapsed_s = q.ctx.elapsed_s + dt
      /\ w.nonblocking_s = q.ctx.nonblocking_s + 0
      /\ w.request_start_ts = q.ctx.request_start_ts
      /\ w.concurrent_in_flight = q.ctx.concurrent_in_flight
      /\ w.degraded = q.ctx.degraded
      /\ w.default_unit = q.ctx.default_unit
      /\ w.content_scale = q.ctx.content_scale
      /\ w.faults_seen = q.ctx.faults_seen
      /\ w.tokens = q.ctx.tokens
      /\ w.model_invocations = q.ctx.model_invocations
  BY <1>1, Delayed
<1>4. q.ctx.elapsed_s \in Nat /\ q.ctx.nonblocking_s \in Nat /\ q.ctx.tokens \in Nat
      /\ q.ctx.model_invocations \in Nat
  BY <1>1 DEF Context
<1>5. Answers(w, s, H, 0)
  BY DEF Responds
<1> HIDE DEF w
<1>6. Later(q.ctx, w)
  BY <1>2, <1>3, <1>4 DEF Later
<1>7. Invoked(q.ctx, w, 0)
  BY <1>3, <1>4 DEF Invoked
<1>8. Later(c, q.ctx) /\ q.ctx.faults_seen \subseteq c.faults_seen \cup H
  BY DEF Responds, Answers
<1>9. Later(c, w)
  BY <1>1, <1>2, <1>6, <1>8, LaterTransitive
<1>10. Later(c, s.ctx) /\ s.ctx \in Context
  BY <1>2, <1>5, <1>9, LaterTransitive DEF Answers, Response
<1>11. Invoked(c, w, 0)
  <2>1. q.ctx.content_scale = c.content_scale
    BY <1>8 DEF Later
  <2>2. Invoked(c, w, 0 + 0)
    BY <1>1, <1>2, <1>7, <2>1, InvokedTransitive
  <2> QED
    BY <2>2
<1>12. s.ok => Invoked(c, s.ctx, 0)
  <2>1. w.content_scale = c.content_scale
    BY <1>9 DEF Later
  <2>2. s.ok => Invoked(c, s.ctx, 0 + 0)
    BY <1>2, <1>5, <1>10, <1>11, <2>1, InvokedTransitive DEF Answers
  <2> QED
    BY <2>2
<1> QED
  BY <1>3, <1>5, <1>8, <1>10, <1>12 DEF Answers

\* Time on the simulated timeline.
LEMMA NowTypes == ASSUME NEW c \in Context PROVE sim_now(c) \in Nat
BY DEF sim_now, Context

LEMMA DelayedNow ==
    ASSUME NEW c \in Context, NEW dt \in Nat, NEW blocking \in BOOLEAN
    PROVE  sim_now(add_delay(c, dt, blocking)) = sim_now(c) + dt
<1>1. c.elapsed_s \in Nat /\ c.request_start_ts \in Nat
  BY DEF Context
<1>2. /\ add_delay(c, dt, blocking).elapsed_s = c.elapsed_s + dt
      /\ add_delay(c, dt, blocking).request_start_ts = c.request_start_ts
  BY Delayed
<1> QED
  BY <1>1, <1>2 DEF sim_now

LEMMA TracedNow ==
    ASSUME NEW c \in Context, NEW component \in Component, NEW f \in Fault, NEW service
    PROVE  sim_now(Traced(c, service, component, f)) = sim_now(c)
BY TracedFields DEF sim_now

\* One attempt to publish, and the redelivery after an outage window.
LEMMA RedeliveryAnswers ==
    ASSUME NEW a, WellArmed(a), NEW c \in Context, NEW service,
           NEW H, AllHits(a) \subseteq H,
           NEW q \in boundary_call(a, c, service, "event_bus", NoUnit),
           NEW s \in buffered_redelivery(a, q, service)
    PROVE  Answers(c, s, H, 0)
<1>1. "event_bus" \in Component
  BY DEF Component
<1>2. Responds(c, q, H, 0) /\ Invoked(c, q.ctx, 0)
  <2>1. Responds(c, q, Hits(a, "event_bus", Label(c, NoUnit)), 0) /\ Invoked(c, q.ctx, 0)
    BY <1>1, BoundaryCallResponds
  <2> QED
    BY <2>1, RespondsWider DEF Hits, AllHits
<1>3. CASE q.fault = "outage" /\ HasWindow(a, "event_bus")
  <2>1. PICK w \in WaitUntil(q.ctx, window_end(a, "event_bus"), TRUE) :
          s \in boundary_call(a, w, service, "event_bus", NoUnit)
    BY <1>3 DEF buffered_redelivery
  <2>2. window_end(a, "event_bus") \in Nat
    BY <1>3 DEF WellArmed, HasWindow, window_end
  <2>3. q.ctx \in Context
    BY <1>2 DEF Responds, Answers, Response
  <2>4. PICK dt \in Nat, d \in RoundDown :
          Waits(q.ctx, window_end(a, "event_bus"), TRUE, w, dt, d)
    BY <2>2, <2>3, Waited
  <2>8. w = add_delay(q.ctx, dt, TRUE)
    BY <2>4 DEF Waits
  <2>5. w \in Context
    BY <2>3, <2>8, DelayTypes
  <2>6. Responds(w, s, Hits(a, "event_bus", Label(w, NoUnit)), 0)
    BY <1>1, <2>1, <2>5, BoundaryCallResponds
  <2>7. Responds(w, s, H, 0)
    BY <2>6, RespondsWider DEF Hits, AllHits
  <2> QED
    BY <1>2, <2>8, <2>7, AnswersAfterWait
<1>4. CASE ~(q.fault = "outage" /\ HasWindow(a, "event_bus"))
  <2>1. s = q
    BY <1>4 DEF buffered_redelivery
  <2> QED
    BY <1>2, <2>1 DEF Responds
<1> QED
  BY <1>3, <1>4

LEMMA PublishEventAnswers ==
    ASSUME NEW a, WellArmed(a), NEW c \in Context, NEW service,
           NEW H, AllHits(a) \subseteq H,
           NEW r \in publish_event(a, c, service)
    PROVE  Answers(c, r, H, 0)
<1>1. PICK q \in boundary_call(a, c, service, "event_bus", NoUnit) :
        \E s \in buffered_redelivery(a, q, service) :
           r = IF s.ok THEN [s EXCEPT !.ctx.service_calls = @ + 1] ELSE s
  BY DEF publish_event
<1>2. PICK s \in buffered_redelivery(a, q, service) :
        r = IF s.ok THEN [s EXCEPT !.ctx.service_calls = @ + 1] ELSE s
  BY <1>1
<1>3. Answers(c, s, H, 0)
  BY RedeliveryAnswers
<1>4. CASE ~s.ok
  BY <1>2, <1>3, <1>4
<1>5. CASE s.ok
  <2> DEFINE d == [s.ctx EXCEPT !.service_calls = @ + 1]
  <2>1. s.ctx \in Context
    BY <1>3 DEF Answers, Response
  <2>2. r = [s EXCEPT !.ctx = d]
    BY <1>2, <1>5
  <2>3. Counted(s.ctx, d, 0)
    BY <2>1, ServiceCounted
  <2> HIDE DEF d
  <2> QED
    BY <1>3, <1>5, <2>2, <2>3, CountedAnswer
<1> QED
  BY <1>4, <1>5

\* A call that meets an outage fails at once, inside the window.
LEMMA OutageIsImmediate ==
    ASSUME NEW a, WellArmed(a), NEW c \in Context, NEW service,
           NEW component \in Component, NEW unit,
           HasWindow(a, component), a[component].fault = "outage",
           NEW r \in boundary_call(a, c, service, component, unit), ~r.ok
    PROVE  /\ r.fault = "outage"
           /\ sim_now(r.ctx) = sim_now(c)
           /\ sim_now(c) < window_end(a, component)
<1>1. PICK f \in check(a, component, Label(c, unit), sim_now(c)) :
        \E dt \in CallTime(f) : r = Outcome(c, service, component, f, dt)
  BY CallIsOneFault
<1>2. PICK dt \in CallTime(f) : r = Outcome(c, service, component, f, dt)
  BY <1>1
<1>3. r.ok = Succeeds(f) /\ r.fault = f
      /\ r.ctx = add_delay(Traced(c, service, component, f), dt, TRUE)
  BY <1>2 DEF Outcome
<1>4. f = "outage" /\ sim_now(c) < window_end(a, component)
  BY <1>3 DEF check, Succeeds, window_end, NoFault
<1>5. dt = 0 /\ f \in Fault
  BY <1>4 DEF CallTime, Fault, FaultType
<1>6. Traced(c, service, component, f) \in Context
  BY <1>5, TracedTypes
<1>7. sim_now(r.ctx) = sim_now(Traced(c, service, component, f)) + dt
  BY <1>3, <1>5, <1>6, DelayedNow
<1>8. sim_now(r.ctx) = sim_now(c)
  BY <1>5, <1>7, TracedNow, NowTypes
<1> QED
  BY <1>3, <1>4, <1>8

\* An event lost to an outage was redelivered a rounding error too early.
LEMMA LostToRounding ==
    ASSUME NEW a, WellArmed(a), NEW c \in Context, NEW service,
           HasWindow(a, "event_bus"), a["event_bus"].fault = "outage",
           NEW r \in publish_event(a, c, service), ~r.ok
    PROVE  window_end(a, "event_bus") - sim_now(r.ctx) \in RoundDown \ {0}
<1>0. "event_bus" \in Component /\ window_end(a, "event_bus") \in Nat
  BY DEF Component, WellArmed, HasWindow, window_end
<1>1. PICK q \in boundary_call(a, c, service, "event_bus", NoUnit) :
        \E s \in buffered_redelivery(a, q, service) :
           r = IF s.ok THEN [s EXCEPT !.ctx.service_calls = @ + 1] ELSE s
  BY DEF publish_event
<1>2. PICK s \in buffered_redelivery(a, q, service) :
        r = IF s.ok THEN [s EXCEPT !.ctx.service_calls = @ + 1] ELSE s
  BY <1>1
<1>3. Responds(c, q, Hits(a, "event_bus", Label(c, NoUnit)), 0) /\ Answers(c, s, AllHits(a), 0)
  BY <1>0, BoundaryCallResponds, RedeliveryAnswers
<1>4. ~s.ok /\ r = s
  <2>1. s \in Response
    BY <1>3 DEF Answers
  <2>2. s.ok => [s EXCEPT !.ctx.service_calls = @ + 1].ok
    BY <2>1 DEF Response
  <2> QED
    BY <1>2, <2>2
<1>5. ~q.ok
  <2> SUFFICES ASSUME q.ok PROVE FALSE
    OBVIOUS
  <2>1. q.fault # "outage"
    <3>1. PICK f \in check(a, "event_bus", Label(c, NoUnit), sim_now(c)) :
            \E dt \in CallTime(f) : q = Outcome(c, service, "event_bus", f, dt)
      BY CallIsOneFault
    <3>2. q.ok = Succeeds(f) /\ q.fault = f
      BY <3>1 DEF Outcome
    <3> QED
      BY <3>2 DEF Succeeds, NoFault
  <2>2. s = q
    BY <2>1 DEF buffered_redelivery
  <2> QED
    BY <1>4, <2>2
<1>6. q.fault = "outage" /\ sim_now(q.ctx) = sim_now(c)
      /\ sim_now(c) < window_end(a, "event_bus")
  BY <1>0, <1>5, OutageIsImmediate
<1>7. PICK w \in WaitUntil(q.ctx, window_end(a, "event_bus"), TRUE) :
        s \in boundary_call(a, w, service, "event_bus", NoUnit)
  BY <1>6 DEF buffered_redelivery
<1>8. q.ctx \in Context
  BY <1>3 DEF Responds, Answers, Response
<1>9. PICK dt \in Nat, d \in RoundDown : Waits(q.ctx, window_end(a, "event_bus"), TRUE, w, dt, d)
  BY <1>0, <1>8, Waited
<1>10. w \in Context /\ sim_now(w) = sim_now(q.ctx) + dt
  <2>1. w = add_delay(q.ctx, dt, TRUE)
    BY <1>9 DEF Waits
  <2> QED
    BY <1>8, <2>1, DelayTypes, DelayedNow
<1>11. sim_now(s.ctx) = sim_now(w) /\ sim_now(w) < window_end(a, "event_bus")
  BY <1>0, <1>4, <1>7, <1>10, OutageIsImmediate
<1>12. sim_now(q.ctx) \in Nat /\ d \in Nat
  BY <1>8, NowTypes, TimingAssumption
<1> DEFINE now == sim_now(q.ctx)
           end == window_end(a, "event_bus")
<1>13. sim_now(r.ctx) = now + dt /\ now + dt < end /\ now < end
  BY <1>4, <1>6, <1>10, <1>11
<1>14. now + dt + d = end
  BY <1>9, <1>13 DEF Waits
<1>15. end - (now + dt) = d /\ d # 0
  <2> HIDE DEF now, end
  <2> QED
    BY <1>0, <1>12, <1>13, <1>14 DEF end, now
<1> QED
  BY <1>13, <1>15

====

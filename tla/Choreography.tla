---------------------------- MODULE Choreography ----------------------------
(***************************************************************************)
(* P3 Event-Driven Choreography (patterns/p3_choreography.py).             *)
(*                                                                         *)
(* On Bedrock each event of the chain is one model reaction and one        *)
(* emission.  On Agentforce publishing an event calls its subscribers      *)
(* inside publish_event, and each of them publishes the next event: the    *)
(* nested calls are kept as the stack `deliveries` of events still to be   *)
(* handled, innermost first.  Handlers are registered once per client;     *)
(* `subscriptions` counts how often that was done.                         *)
(***************************************************************************)
EXTENDS Pattern

CONSTANT EventChain   \* EVENT_CHAIN, as the number of its events

ASSUME ChainAssumption == EventChain \in Nat /\ EventChain >= 2

VARIABLES
    subscriptions,   \* handlers registered for each event of the chain
    request_log,     \* events handled by this request, in order
    deliveries       \* events published and not yet handled (a stack)

choreography == <<subscriptions, request_log, deliveries>>

Enriched == 2        \* the position of item_enriched in the chain

FullChain == [k \in 1..EventChain |-> k]

P3Init ==
    /\ subscriptions = 0
    /\ request_log = <<>>
    /\ deliveries = <<>>

P3Begin(i, start, inFlight) ==
    /\ run(i, start, inFlight, IF OnBedrock THEN "P3.hop" ELSE "P3.publish")
    /\ request_log' = <<>>
    /\ deliveries' = <<>>
    /\ UNCHANGED subscriptions

\* The enrichment reaction covers all steps of the item at once.
ReactionScale(event) == IF event = Enriched THEN work_steps ELSE 1

EnrichActions == [j \in 1..work_steps |-> "enrich_step"]

\* Bedrock: react to the next event of the chain, then emit it.
Hop ==
    /\ pc = "P3.hop"
    /\ LET event == Len(request_log) + 1 IN
       \E r \in Then({[x EXCEPT !.ctx = IF x.ok THEN Unscaled(@) ELSE @]
                        : x \in invoke_agent(armed, Scaled(ctx, ReactionScale(event)))},
                     LAMBDA c : publish_event(armed, c, "observability")) :
         \/ /\ r.ok
            /\ event < EventChain
            /\ request_log' = Append(request_log, event)
            /\ Goto(r.ctx, "P3.hop")
         \/ /\ r.ok
            /\ event = EventChain
            /\ request_log' = Append(request_log, event)
            /\ Return(r.ctx, "ok")
         \/ /\ Raise(r)
            /\ UNCHANGED request_log
    /\ UNCHANGED <<subscriptions, deliveries>>

\* _ensure_subscribed: once per client.
ensure_subscribed == IF subscriptions = 0 THEN 1 ELSE subscriptions

\* The stack after publishing `event`: every subscriber is to handle it.
Published(event, stack, handlers) == [k \in 1..handlers |-> event] \o stack

\* Agentforce: subscribe if not done yet, then publish the first event.
PublishFirst ==
    /\ pc = "P3.publish"
    /\ subscriptions' = ensure_subscribed
    /\ \E r \in publish_event(armed, ctx, "event_bus") :
         \/ /\ r.ok
            /\ deliveries' = Published(1, <<>>, ensure_subscribed)
            /\ Goto(r.ctx, "P3.deliver")
         \/ Raise(r) /\ UNCHANGED deliveries
    /\ UNCHANGED request_log

\* What a handler does before it publishes: a model step, then for the
\* enrichment event one action per step.
Handle(event) ==
    Then({[x EXCEPT !.ctx = Unscaled(@)]
            : x \in invoke_agent(armed, Scaled(ctx, ReactionScale(event)))},
         LAMBDA c : IF event = Enriched THEN run_agent_script(armed, c, EnrichActions)
                    ELSE {Ok(c)})

Deliver ==
    /\ pc = "P3.deliver"
    /\ deliveries # <<>>
    /\ LET event == Head(deliveries) IN
       \E h \in Handle(event) :
         \/ /\ h.ok
            /\ request_log' = Append(request_log, event)
            /\ event = EventChain
            /\ deliveries' = Tail(deliveries)
            /\ Goto(h.ctx, "P3.deliver")
         \/ /\ h.ok
            /\ request_log' = Append(request_log, event)
            /\ event < EventChain
            /\ \E r \in publish_event(armed, h.ctx, "event_bus") :
                 \/ /\ r.ok
                    /\ deliveries' = Published(event + 1, Tail(deliveries), subscriptions)
                    /\ Goto(r.ctx, "P3.deliver")
                 \/ Raise(r) /\ deliveries' = <<>>
         \/ /\ Raise(h)
            /\ deliveries' = <<>>
            /\ UNCHANGED request_log
    /\ UNCHANGED subscriptions

\* publish_event of the first event has returned.
ChainReturns ==
    /\ pc = "P3.deliver"
    /\ deliveries = <<>>
    /\ Return(ctx, IF request_log = FullChain THEN "ok" ELSE "error")
    /\ UNCHANGED choreography

P3Next == Hop \/ PublishFirst \/ Deliver \/ ChainReturns
=============================================================================

------------------------------- MODULE LoadGen -------------------------------
(***************************************************************************)
(* The open-loop load generator (rig/loadgen.py, run_open_loop): requests  *)
(* are submitted on a schedule that does not wait for them, and a pool of  *)
(* servers takes them in arrival order.  The loop handles one request per  *)
(* iteration: it picks the server that is free first, tells the pattern    *)
(* the start of service and the number of requests in flight, and books    *)
(* the time the request occupies the server.  A human wait is part of the  *)
(* request's latency but releases the server.                              *)
(***************************************************************************)
EXTENDS Integers, Sequences, FiniteSets

CONSTANTS
    n,                \* the requests of the run
    concurrency,      \* study.concurrency
    consumer_scale,   \* patterns.p3.consumer_scale
    IsChoreography,   \* the pattern is P3, whose consumers scale the pool
    Gaps,             \* times between two arrivals
    Demands           \* what a request may take: [service, nonblocking]

Demand == [service : Nat, nonblocking : Nat]

\* A pattern's nonblocking time is part of its elapsed time
\* (FaultCampaign!ServerTimeNonNegative).
ASSUME LoadAssumption ==
    /\ n \in Nat
    /\ concurrency \in Nat \ {0} /\ consumer_scale \in Nat \ {0}
    /\ IsChoreography \in BOOLEAN
    /\ Gaps \subseteq Nat
    /\ Demands \subseteq Demand
    /\ \A d \in Demands : d.nonblocking <= d.service

effective_concurrency ==
    IF IsChoreography THEN concurrency * consumer_scale ELSE concurrency

Servers == 1..effective_concurrency

VARIABLES
    clock,         \* the last arrival
    server_free,   \* per server: the time it is free
    served         \* the requests handled, in order

vars == <<clock, server_free, served>>

Served == [submit : Nat, start : Nat, service : Nat, nonblocking : Nat,
           server : Servers, in_flight : Nat]

Init ==
    /\ clock = 0
    /\ server_free = [s \in Servers |-> 0]
    /\ served = <<>>

Later(a, b)   == IF a < b THEN b ELSE a
Smaller(a, b) == IF a < b THEN a ELSE b

CompletedAt(r) == r.start + r.service

\* Queue depth at submit: requests submitted but not yet complete.
depth(submit) == Cardinality({k \in 1..Len(served) : CompletedAt(served[k]) > submit})

\* Mutant: the request itself is not counted.
inFlightWithoutSelf(submit) == Smaller(effective_concurrency, depth(submit))

\* concurrent_in_flight, as the pattern is told.
in_flight(submit) == Smaller(effective_concurrency, depth(submit) + 1)

\* Mutant: the servers take turns.
picksInTurn(srv) == srv = (Len(served) % effective_concurrency) + 1

\* argmin: the first of the servers that are free first.
Picks(srv) ==
    \A s \in Servers : \/ server_free[srv] < server_free[s]
                       \/ server_free[srv] = server_free[s] /\ srv <= s

\* Mutant: the server is free as soon as the request has started.
releasedAtStart(start, d) == start

\* The server is busy only for the blocking part.
ReleasedAt(start, d) == start + (d.service - d.nonblocking)

\* One iteration: the request submitted `gap` after the last one.
Serve(gap, d) ==
    /\ Len(served) < n
    /\ \E srv \in Servers :
         /\ Picks(srv)
         /\ LET submit == clock + gap
                start  == Later(submit, server_free[srv])
            IN  /\ clock' = submit
                /\ server_free' = [server_free EXCEPT ![srv] = ReleasedAt(start, d)]
                /\ served' = Append(served,
                       [submit |-> submit, start |-> start, service |-> d.service,
                        nonblocking |-> d.nonblocking, server |-> srv,
                        in_flight |-> in_flight(submit)])

Next == \E gap \in Gaps, d \in Demands : Serve(gap, d)

Spec == Init /\ [][Next]_vars
-----------------------------------------------------------------------------
(* Properties *)

TypeOK ==
    /\ clock \in Nat
    /\ server_free \in [Servers -> Nat]
    /\ served \in Seq(Served)

\* Requests start in the order they were submitted, so the simulated time a
\* pattern sees never goes back (what the fault windows rely on).
StartsInOrder ==
    \A j, k \in 1..Len(served) : j < k => served[j].start <= served[k].start

\* A server never works on two requests at once.
OneAtATime ==
    \A j, k \in 1..Len(served) :
        j < k /\ served[j].server = served[k].server =>
            served[j].start + served[j].service - served[j].nonblocking <= served[k].start

\* The in-flight count a pattern is told, from which P4 computes its contention,
\* is the pool size or covers every predecessor not complete when it starts.
InFlightNotUnderstated ==
    \A k \in 1..Len(served) :
        LET open == {j \in 1..k - 1 : CompletedAt(served[j]) > served[k].start}
        IN  /\ served[k].in_flight >= Smaller(effective_concurrency, Cardinality(open) + 1)
            /\ served[k].in_flight \in 1..Smaller(effective_concurrency, k)

-----------------------------------------------------------------------------
(* The inductive invariant behind StartsInOrder and OneAtATime *)

\* A start lies before the last arrival or before every server's next free time.
StartsBehindPool ==
    \A k \in 1..Len(served) :
        served[k].start <= clock \/ \A s \in Servers : served[k].start <= server_free[s]

\* What a server has been booked for ends when it is free.
BookedUntilFree ==
    \A k \in 1..Len(served) :
        served[k].start + served[k].service - served[k].nonblocking
            <= server_free[served[k].server]

Inv == TypeOK /\ StartsBehindPool /\ BookedUntilFree /\ StartsInOrder /\ OneAtATime
=============================================================================

---------------------------- MODULE LoadGenProofs ----------------------------
(***************************************************************************)
(* Proofs about the open-loop load generator, for every pool size, run     *)
(* length, arrival schedule and demand: the pattern's simulated time never *)
(* goes back, and no server works on two requests at once.                 *)
(***************************************************************************)
EXTENDS LoadGen, SequenceTheorems, FiniteSetTheorems, TLAPS

USE LoadAssumption DEF LoadAssumption

(* The pool has a server and its size is a number, whichever pattern runs. *)
LEMMA PoolSize == effective_concurrency \in Nat /\ effective_concurrency >= 1
<1>1. concurrency \in Nat /\ consumer_scale \in Nat
  OBVIOUS
<1>2. concurrency >= 1 /\ consumer_scale >= 1
  OBVIOUS
<1>3. concurrency * consumer_scale \in Nat
  BY <1>1
<1>4. concurrency * consumer_scale >= 1
  BY <1>1, <1>2, SMTT(30)
<1> QED
  BY <1>1, <1>2, <1>3, <1>4 DEF effective_concurrency

(* What one iteration does to the pool: the request starts no earlier than  *)
(* its submission, than any release of its server and than the earliest     *)
(* server, and its server is booked from there.                             *)
LEMMA OneIteration ==
    ASSUME TypeOK, NEW gap \in Gaps, NEW d \in Demands, NEW srv \in Servers,
           Picks(srv), NEW start, start = Later(clock + gap, server_free[srv])
    PROVE  /\ start \in Nat
           /\ clock <= clock + gap /\ clock + gap <= start
           /\ server_free[srv] <= start
           /\ start = clock + gap \/ \A s \in Servers : start <= server_free[s]
           /\ ReleasedAt(start, d) \in Nat /\ start <= ReleasedAt(start, d)
           /\ ReleasedAt(start, d) = start + d.service - d.nonblocking
<1>1. clock \in Nat /\ gap \in Nat /\ server_free[srv] \in Nat
  BY DEF TypeOK
<1>2. d.service \in Nat /\ d.nonblocking \in Nat /\ d.nonblocking <= d.service
  BY DEF Demand
<1>3. \A s \in Servers : server_free[srv] <= server_free[s]
  <2> SUFFICES ASSUME NEW s \in Servers
               PROVE  server_free[srv] <= server_free[s]
    OBVIOUS
  <2> server_free[s] \in Nat /\ server_free[srv] \in Nat
    BY DEF TypeOK
  <2> QED
    BY DEF Picks
<1>4. start \in Nat /\ clock + gap <= start /\ server_free[srv] <= start
  BY <1>1 DEF Later
<1>5. start = clock + gap \/ start = server_free[srv]
  BY DEF Later
<1> QED
  BY <1>1, <1>2, <1>3, <1>4, <1>5 DEF ReleasedAt

(* The empty run satisfies the invariant. *)
LEMMA InitInv == Init => Inv
<1> SUFFICES ASSUME Init PROVE Inv
  OBVIOUS
<1>1. served = <<>> /\ Len(served) = 0 /\ 1..Len(served) = {}
  BY DEF Init
<1>2. TypeOK
  BY <1>1 DEF Init, TypeOK
<1> QED
  BY <1>1, <1>2 DEF Inv, StartsBehindPool, BookedUntilFree, StartsInOrder, OneAtATime

(* One iteration of the loop keeps the invariant. *)
LEMMA ServeKeepsInv ==
    ASSUME Inv, NEW gap \in Gaps, NEW d \in Demands, Serve(gap, d)
    PROVE  Inv'
<1> USE DEF Inv
<1>1. PICK srv \in Servers :
         /\ Picks(srv)
         /\ clock' = clock + gap
         /\ server_free' = [server_free EXCEPT ![srv] =
                ReleasedAt(Later(clock + gap, server_free[srv]), d)]
         /\ served' = Append(served,
                [submit |-> clock + gap, start |-> Later(clock + gap, server_free[srv]),
                 service |-> d.service, nonblocking |-> d.nonblocking,
                 server |-> srv, in_flight |-> in_flight(clock + gap)])
  BY DEF Serve
<1> DEFINE start == Later(clock + gap, server_free[srv])
           r == [submit |-> clock + gap, start |-> start, service |-> d.service,
                 nonblocking |-> d.nonblocking, server |-> srv,
                 in_flight |-> in_flight(clock + gap)]
<1>2. /\ start \in Nat
      /\ clock <= clock + gap /\ clock + gap <= start
      /\ server_free[srv] <= start
      /\ start = clock + gap \/ \A s \in Servers : start <= server_free[s]
      /\ ReleasedAt(start, d) \in Nat /\ start <= ReleasedAt(start, d)
      /\ ReleasedAt(start, d) = start + d.service - d.nonblocking
  BY <1>1, OneIteration
<1>3. /\ clock \in Nat /\ gap \in Nat /\ clock + gap \in Nat
      /\ d.service \in Nat /\ d.nonblocking \in Nat
      /\ server_free \in [Servers -> Nat] /\ served \in Seq(Served)
  BY DEF TypeOK, Demand
<1>4. in_flight(clock + gap) \in Nat
  <2> DEFINE open == {k \in 1..Len(served) : CompletedAt(served[k]) > clock + gap}
  <2>1. IsFiniteSet(open)
    <3>1. Len(served) \in Nat
      BY <1>3
    <3>2. IsFiniteSet(1..Len(served))
      BY <3>1, FS_Interval
    <3> QED
      BY <3>2, FS_Subset
  <2>2. depth(clock + gap) \in Nat
    BY <2>1, FS_CardinalityType DEF depth
  <2> QED
    BY <2>2, PoolSize DEF in_flight, Smaller
<1>5. r \in Served
  BY <1>2, <1>3, <1>4 DEF Served
<1>6. /\ served' \in Seq(Served)
      /\ Len(served') = Len(served) + 1 /\ Len(served) \in Nat
      /\ served'[Len(served) + 1] = r
      /\ \A k \in 1..Len(served) : served'[k] = served[k]
  BY <1>1, <1>3, <1>5
<1>7. \A k \in 1..Len(served') : k = Len(served) + 1 \/ k \in 1..Len(served)
  BY <1>6
<1>8. \A k \in 1..Len(served) :
         /\ served[k].start \in Nat /\ served[k].service \in Nat
         /\ served[k].nonblocking \in Nat /\ served[k].server \in Servers
  <2> TAKE k \in 1..Len(served)
  <2>1. served[k] \in Served
    BY <1>3
  <2> QED
    BY <2>1 DEF Served
<1>9. \A s \in Servers : /\ server_free[s] \in Nat /\ server_free'[s] \in Nat
                         /\ server_free[s] <= server_free'[s]
  BY <1>1, <1>2, <1>3
<1>10. server_free'[srv] = start + d.service - d.nonblocking
  BY <1>1, <1>2, <1>3
<1> HIDE DEF r, start
<1>11. /\ r.start = start /\ r.service = d.service
       /\ r.nonblocking = d.nonblocking /\ r.server = srv
  BY DEF r
<1>12. TypeOK'
  BY <1>1, <1>3, <1>6, <1>9 DEF TypeOK
<1>13. \A k \in 1..Len(served) : served[k].start <= start
  <2> TAKE k \in 1..Len(served)
  <2>1. CASE served[k].start <= clock
    BY <2>1, <1>2, <1>3, <1>8
  <2>2. CASE \A s \in Servers : served[k].start <= server_free[s]
    BY <2>2, <1>1, <1>2, <1>8, <1>9
  <2> QED
    BY <2>1, <2>2 DEF StartsBehindPool
<1>14. StartsBehindPool'
  <2> SUFFICES ASSUME NEW k \in 1..Len(served')
               PROVE  served'[k].start <= clock'
                        \/ \A s \in Servers : served'[k].start <= server_free'[s]
    BY DEF StartsBehindPool
  <2>1. CASE k = Len(served) + 1
    <3>1. CASE start = clock + gap
      BY <2>1, <3>1, <1>1, <1>2, <1>6, <1>11
    <3>2. CASE \A s \in Servers : start <= server_free[s]
      BY <2>1, <3>2, <1>2, <1>6, <1>9, <1>11
    <3> QED
      BY <3>1, <3>2, <1>2
  <2>2. CASE k \in 1..Len(served)
    <3>1. CASE served[k].start <= clock
      BY <2>2, <3>1, <1>1, <1>2, <1>3, <1>6, <1>8
    <3>2. CASE \A s \in Servers : served[k].start <= server_free[s]
      BY <2>2, <3>2, <1>6, <1>8, <1>9
    <3> QED
      BY <2>2, <3>1, <3>2 DEF StartsBehindPool
  <2> QED
    BY <2>1, <2>2, <1>7
<1>15. BookedUntilFree'
  <2> SUFFICES ASSUME NEW k \in 1..Len(served')
               PROVE  served'[k].start + served'[k].service - served'[k].nonblocking
                        <= server_free'[served'[k].server]
    BY DEF BookedUntilFree
  <2>1. CASE k = Len(served) + 1
    BY <2>1, <1>1, <1>2, <1>3, <1>6, <1>9, <1>10, <1>11
  <2>2. CASE k \in 1..Len(served)
    <3>1. served[k].start + served[k].service - served[k].nonblocking
            <= server_free[served[k].server]
      BY <2>2 DEF BookedUntilFree
    <3>2. server_free[served[k].server] <= server_free'[served[k].server]
      BY <2>2, <1>8, <1>9
    <3>3. served[k].start + served[k].service - served[k].nonblocking
            <= server_free'[served[k].server]
      BY <2>2, <3>1, <3>2, <1>8, <1>9
    <3> QED
      BY <2>2, <3>3, <1>6
  <2> QED
    BY <2>1, <2>2, <1>7
<1>16. StartsInOrder'
  <2> SUFFICES ASSUME NEW j \in 1..Len(served'), NEW k \in 1..Len(served'), j < k
               PROVE  served'[j].start <= served'[k].start
    BY DEF StartsInOrder
  <2>1. j \in 1..Len(served)
    BY <1>6
  <2>2. CASE k = Len(served) + 1
    BY <2>1, <2>2, <1>6, <1>11, <1>13
  <2>3. CASE k \in 1..Len(served)
    BY <2>1, <2>3, <1>6 DEF StartsInOrder
  <2> QED
    BY <2>2, <2>3, <1>7
<1>17. OneAtATime'
  <2> SUFFICES ASSUME NEW j \in 1..Len(served'), NEW k \in 1..Len(served'), j < k,
                      served'[j].server = served'[k].server
               PROVE  served'[j].start + served'[j].service - served'[j].nonblocking
                        <= served'[k].start
    BY DEF OneAtATime
  <2>1. j \in 1..Len(served)
    BY <1>6
  <2>2. CASE k = Len(served) + 1
    <3>1. served[j].server = srv
      BY <2>1, <2>2, <1>6, <1>11
    <3>2. served[j].start + served[j].service - served[j].nonblocking <= server_free[srv]
      BY <2>1, <3>1 DEF BookedUntilFree
    <3> QED
      BY <2>1, <2>2, <3>2, <1>1, <1>2, <1>6, <1>8, <1>9, <1>11
  <2>3. CASE k \in 1..Len(served)
    BY <2>1, <2>3, <1>6 DEF OneAtATime
  <2> QED
    BY <2>2, <2>3, <1>7
<1> QED
  BY <1>12, <1>14, <1>15, <1>16, <1>17

(* The invariant of the pool holds in every state of every run. *)
THEOREM Invariance == Spec => []Inv
<1>1. Inv /\ [Next]_vars => Inv'
  <2> SUFFICES ASSUME Inv, [Next]_vars PROVE Inv'
    OBVIOUS
  <2>1. CASE Next
    BY <2>1, ServeKeepsInv DEF Next
  <2>2. CASE UNCHANGED vars
    BY <2>2 DEF vars, Inv, TypeOK, StartsBehindPool, BookedUntilFree,
                StartsInOrder, OneAtATime
  <2> QED
    BY <2>1, <2>2
<1> QED
  BY InitInv, <1>1, PTL DEF Spec

(* Types: run_open_loop's times never become negative, whatever the demands. *)
THEOREM PoolTypes == Spec => []TypeOK
<1>1. Inv => TypeOK
  BY DEF Inv
<1> QED
  BY Invariance, <1>1, PTL

(* The start of service that run_open_loop hands to the pattern (loadgen.py,
   request_start_ts) never goes back from one request to the next. *)
THEOREM TimeNeverGoesBack == Spec => []StartsInOrder
<1>1. Inv => StartsInOrder
  BY DEF Inv
<1> QED
  BY Invariance, <1>1, PTL

(* The bookings of a server (loadgen.py, server_free) never overlap, although
   a human wait releases it early. *)
THEOREM NoDoubleBooking == Spec => []OneAtATime
<1>1. Inv => OneAtATime
  BY DEF Inv
<1> QED
  BY Invariance, <1>1, PTL
(* A request is told of everyone still open at its submission, hence of everyone
   still open when it starts; and of nobody but itself and its predecessors. *)
LEMMA ServeCountsOpen ==
    ASSUME Inv, InFlightNotUnderstated, NEW gap \in Gaps, NEW d \in Demands, Serve(gap, d)
    PROVE  InFlightNotUnderstated'
<1> DEFINE submit == clock + gap
           m      == Len(served)
           open(k, s) == {j \in 1..k - 1 : CompletedAt(s[j]) > s[k].start}
<1>1. PICK srv \in Servers :
         /\ Picks(srv)
         /\ served' = Append(served,
                [submit |-> submit, start |-> Later(submit, server_free[srv]),
                 service |-> d.service, nonblocking |-> d.nonblocking,
                 server |-> srv, in_flight |-> in_flight(submit)])
  BY DEF Serve
<1> DEFINE start == Later(submit, server_free[srv])
           r == [submit |-> submit, start |-> start, service |-> d.service,
                 nonblocking |-> d.nonblocking, server |-> srv,
                 in_flight |-> in_flight(submit)]
<1>2. TypeOK /\ TypeOK'
  BY ServeKeepsInv DEF Inv
<1>3. served \in Seq(Served) /\ served' \in Seq(Served)
  BY <1>2 DEF TypeOK
<1>4. m \in Nat /\ Len(served') = m + 1 /\ served'[m + 1] = r
      /\ \A k \in 1..m : served'[k] = served[k]
  <2> HIDE DEF r
  <2> QED
    BY <1>1, <1>3 DEF r
<1>5. start \in Nat /\ submit \in Nat /\ submit <= start
  BY <1>1, <1>2, OneIteration DEF TypeOK
<1>6. \A k \in 1..m : CompletedAt(served[k]) \in Nat
  <2> TAKE k \in 1..m
  <2>1. served[k] \in Served
    BY <1>3
  <2> QED
    BY <2>1 DEF Served, CompletedAt
<1>7. r.start = start /\ r.in_flight = in_flight(submit)
  OBVIOUS
<1> HIDE DEF r, start
<1> DEFINE waiting == {k \in 1..m : CompletedAt(served[k]) > submit}
<1>8. IsFiniteSet(1..m) /\ Cardinality(1..m) = m
  <2> HIDE DEF m
  <2>1. IsFiniteSet(1..m) /\ Cardinality(1..m) = IF 1 > m THEN 0 ELSE m - 1 + 1
    BY <1>4, FS_Interval
  <2> QED
    BY <1>4, <2>1
<1>9. IsFiniteSet(waiting) /\ Cardinality(waiting) \in 0..m /\ Cardinality(waiting) = depth(submit)
  <2>1. IsFiniteSet(waiting) /\ Cardinality(waiting) <= m
    BY <1>8, FS_Subset
  <2>2. Cardinality(waiting) \in Nat
    BY <2>1, FS_CardinalityType
  <2> QED
    BY <1>4, <2>1, <2>2 DEF depth
<1>10. Cardinality(open(m + 1, served')) \in 0..Cardinality(waiting)
  <2>1. open(m + 1, served') \subseteq waiting
    <3>1. open(m + 1, served') = {j \in 1..m : CompletedAt(served[j]) > start}
      BY <1>4, <1>7 DEF CompletedAt
    <3> QED
      BY <1>5, <1>6, <3>1
  <2> HIDE DEF waiting, open
  <2> QED
    BY <1>9, <2>1, FS_Subset, FS_CardinalityType
<1>11. ASSUME NEW k \in 1..(m + 1)
       PROVE  /\ served'[k].in_flight
                   >= Smaller(effective_concurrency, Cardinality(open(k, served')) + 1)
              /\ served'[k].in_flight \in 1..Smaller(effective_concurrency, k)
  <2>1. CASE k = m + 1
    <3>1. served'[k].in_flight
            = Smaller(effective_concurrency, Cardinality(waiting) + 1)
      BY <1>4, <1>7, <1>9, <2>1 DEF in_flight
    <3> HIDE DEF waiting, open
    <3>2. Cardinality(waiting) \in 0..m /\ Cardinality(open(k, served')) \in 0..Cardinality(waiting)
      BY <1>9, <1>10, <2>1
    <3> QED
      BY <1>4, <2>1, <3>1, <3>2, PoolSize DEF Smaller
  <2>2. CASE k \in 1..m
    <3>1. open(k, served') = open(k, served)
      BY <1>4, <2>2 DEF CompletedAt
    <3> QED
      BY <1>4, <2>2, <3>1 DEF InFlightNotUnderstated
  <2> QED
    BY <1>4, <2>1, <2>2
<1> QED
  BY <1>4, <1>11 DEF InFlightNotUnderstated, CompletedAt

(* The in-flight count that run_open_loop hands to the pattern covers every
   predecessor that is open when the request starts, up to the pool size
   (loadgen.py, concurrent_in_flight); it counts nobody else. *)
THEOREM ContentionNotUnderstated == Spec => []InFlightNotUnderstated
<1>1. Init => InFlightNotUnderstated
  BY DEF Init, InFlightNotUnderstated
<1>2. Inv /\ InFlightNotUnderstated /\ [Next]_vars => InFlightNotUnderstated'
  <2>1. InFlightNotUnderstated /\ UNCHANGED vars => InFlightNotUnderstated'
    BY DEF vars, InFlightNotUnderstated, CompletedAt
  <2> QED
    BY <2>1, ServeCountsOpen DEF Next
<1> QED
  BY Invariance, <1>1, <1>2, PTL DEF Spec
=============================================================================

-------------------------- MODULE BridgeProbeProofs --------------------------
(***************************************************************************)
(* Proofs about the bridge probe for every number of tasks, every channel  *)
(* that holds them in order, and every bound on the crashes.               *)
(*                                                                         *)
(* The argument: the tasks invoked so far are always a prefix 1..HighWater *)
(* of the tasks, and all their events lie before the cursor but for at     *)
(* most the one right behind it, which a crash left there.  So the event   *)
(* in hand is foreign, or the next task, or the latest one once more, and  *)
(* in the last case a crash has paid for it.                               *)
(***************************************************************************)
EXTENDS BridgeProbe, SequenceTheorems, TLAPS

USE TasksAssumption DEF TasksAssumption

-----------------------------------------------------------------------------
(* The channel *)

\* Events are task numbers or 0; run_probe's tasks come in publishing order.
LEMMA StreamFacts ==
    /\ Len(Stream) \in Nat
    /\ \A k \in 1..Len(Stream) : Stream[k] \in 0..N
    /\ \A j, k \in 1..Len(Stream) : j < k /\ Stream[k] # 0 => Stream[j] < Stream[k]
    /\ \A t \in 1..N : \E k \in 1..Len(Stream) : Stream[k] = t
BY StreamAssumption, PublishedAssumption DEF StreamAssumption, PublishedAssumption

\* When the tasks 1..h all lie among the first d events, the event after those
\* is none of them: each task is published once.
LEMMA NothingPending ==
    ASSUME NEW h \in 0..N, NEW d \in Nat,
           \A t \in 1..h : \E k \in 1..Len(Stream) : k <= d /\ Stream[k] = t
    PROVE  d < Len(Stream) => Stream[d + 1] \notin 1..h
<1> SUFFICES ASSUME d < Len(Stream), Stream[d + 1] \in 1..h
             PROVE  FALSE
  OBVIOUS
<1>1. PICK k \in 1..Len(Stream) : k <= d /\ Stream[k] = Stream[d + 1]
  OBVIOUS
<1>2. d + 1 \in 1..Len(Stream) /\ k < d + 1 /\ Stream[d + 1] # 0
  BY <1>1, StreamFacts
<1>3. Stream[k] < Stream[d + 1]
  BY <1>2, StreamFacts
<1> QED
  BY <1>1, <1>2, <1>3, StreamFacts

\* A task behind the cursor that was not invoked yet is the next one.
LEMMA NewIsNext ==
    ASSUME NEW h \in 0..N, NEW d \in Nat, d < Len(Stream),
           \A k \in 1..d : Stream[k] <= h,
           Stream[d + 1] # 0, Stream[d + 1] \notin 1..h
    PROVE  Stream[d + 1] = h + 1
<1>1. d + 1 \in 1..Len(Stream) /\ Stream[d + 1] \in h + 1 .. N /\ h + 1 \in 1..N
  BY StreamFacts
<1>2. PICK k \in 1..Len(Stream) : Stream[k] = h + 1
  BY <1>1, StreamFacts
<1>3. ~(k <= d)
  BY <1>1, <1>2
<1>4. ~(d + 1 < k)
  <2> SUFFICES ASSUME d + 1 < k
               PROVE  FALSE
    OBVIOUS
  <2>1. Stream[d + 1] < Stream[k]
    BY <1>1, <1>2, StreamFacts
  <2> QED
    BY <2>1, <1>1, <1>2
<1> QED
  BY <1>1, <1>2, <1>3, <1>4, StreamFacts

\* A task behind the cursor that was invoked already is the latest one.
LEMMA PendingIsLatest ==
    ASSUME NEW h \in 0..N, NEW d \in Nat, d < Len(Stream),
           \A t \in 1..h : \E k \in 1..Len(Stream) : k <= d + 1 /\ Stream[k] = t,
           Stream[d + 1] \in 1..h
    PROVE  Stream[d + 1] = h
<1> SUFFICES ASSUME Stream[d + 1] # h
             PROVE  FALSE
  OBVIOUS
<1>1. PICK k \in 1..Len(Stream) : k <= d + 1 /\ Stream[k] = h
  OBVIOUS
<1>2. d + 1 \in 1..Len(Stream) /\ k < d + 1 /\ Stream[d + 1] # 0
  BY <1>1, StreamFacts
<1>3. Stream[k] < Stream[d + 1]
  BY <1>2, StreamFacts
<1> QED
  BY <1>1, <1>3

-----------------------------------------------------------------------------
(* Type correctness *)

\* The event in hand lies in the channel and is a task or foreign.
LEMMA InHandType ==
    ASSUME TypeOK, durable_replay < Len(Stream)
    PROVE  InHand \in 0..N
BY StreamFacts DEF TypeOK, InHand

\* The empty run satisfies the inductive invariant.
LEMMA InitInv == Init => Inv
<1> SUFFICES ASSUME Init
             PROVE  Inv
  OBVIOUS
<1> USE DEF Init
<1>1. HighWater = 0
  BY DEF HighWater
<1>2. TypeOK
  <2>1. invocations \in Seq(1..N)
    BY EmptySeq
  <2>2. batchEnd \in 0..Len(Stream) /\ durable_replay \in 0..Len(Stream)
    BY StreamFacts
  <2>3. late \in BOOLEAN /\ ingress_on \in BOOLEAN
    BY Zenon
  <2>4. crashes \in 0..max_crashes /\ deliveries \in Nat /\ processed \subseteq 1..N
    OBVIOUS
  <2> QED
    BY <2>1, <2>2, <2>3, <2>4, Zenon DEF TypeOK
<1>3. BatchAhead /\ InvokedPrefix /\ CursorBehind /\ InvokedUpToCursor
  BY <1>1 DEF BatchAhead, InvokedPrefix, CursorBehind, InvokedUpToCursor
<1>4. Pending = 0
  BY <1>1 DEF Pending
<1>5. CrashesPaid /\ OnceWithIngress /\ DoneInvokedAll
  BY <1>1, <1>4 DEF CrashesPaid, OnceWithIngress, DoneInvokedAll
<1> QED
  BY <1>2, <1>3, <1>5 DEF Inv

-----------------------------------------------------------------------------
(* Steps that neither invoke the agent nor move the cursor *)

\* A step that leaves stream position, invocations and crashes alone keeps every
\* part of the invariant that speaks of nothing else.
LEMMA Frame ==
    ASSUME Inv, UNCHANGED <<ingress_on, durable_replay, processed, invocations, crashes>>
    PROVE  /\ HighWater' = HighWater /\ Pending' = Pending
           /\ InvokedPrefix' /\ CursorBehind' /\ InvokedUpToCursor' /\ OnceWithIngress'
<1>1. HighWater' = HighWater
  BY DEF HighWater
<1>2. Pending' = Pending
  BY <1>1 DEF Pending, InHand
<1> QED
  BY <1>1, <1>2 DEF Inv, InvokedPrefix, CursorBehind, InvokedUpToCursor, OnceWithIngress

\* Opening, losing and feeding a session, and the passing of time, keep it.
LEMMA SessionKeepsInv ==
    ASSUME Inv, Establish \/ SessionLost \/ ReceiveBatch \/ ClockPasses
    PROVE  Inv'
<1> USE DEF ResumeAt, Running, progress
<1>1. UNCHANGED <<ingress_on, durable_replay, processed, invocations, crashes,
                  deliveries, outcome>>
  BY DEF Establish, SessionLost, ReceiveBatch, ClockPasses
<1>2. TypeOK' /\ BatchAhead'
  <2>1. CASE Establish
    BY <2>1 DEF Inv, TypeOK, BatchAhead, Establish
  <2>2. CASE SessionLost
    BY <2>2 DEF Inv, TypeOK, BatchAhead, SessionLost
  <2>3. CASE ReceiveBatch
    BY <2>3, StreamFacts DEF Inv, TypeOK, BatchAhead, ReceiveBatch
  <2>4. CASE ClockPasses
    BY <2>4 DEF Inv, TypeOK, BatchAhead, ClockPasses
  <2> QED
    BY <2>1, <2>2, <2>3, <2>4
<1>3. CrashesPaid'
  BY <1>1, Frame DEF Inv, CrashesPaid
<1>4. DoneInvokedAll'
  BY <1>1, Frame DEF Inv, DoneInvokedAll
<1> QED
  BY <1>1, <1>2, <1>3, <1>4, Frame DEF Inv

\* An empty poll keeps it: "done" is reported only when all is invoked.
LEMMA EmptyPollKeepsInv ==
    ASSUME Inv, EmptyPoll
    PROVE  Inv'
<1> USE DEF EmptyPoll, Running, progress
<1>1. UNCHANGED <<ingress_on, durable_replay, processed, invocations, crashes, deliveries>>
  OBVIOUS
<1>2. TypeOK' /\ BatchAhead'
  BY DEF Inv, TypeOK, BatchAhead
<1>3. CrashesPaid'
  BY <1>1, Frame DEF Inv, CrashesPaid
<1>4. DoneInvokedAll'
  <2>1. HighWater \in 0..N /\ HighWater' = HighWater
    BY <1>1, Frame DEF Inv, InvokedPrefix
  <2>2. CASE outcome' = "done"
    <3>1. AllInvoked
      BY <2>2
    <3>2. HighWater = N
      <4>1. SUFFICES ASSUME HighWater < N
                     PROVE  FALSE
        BY <2>1
      <4>2. PICK k \in 1..Len(invocations) : invocations[k] = N
        BY <2>1, <3>1, <4>1 DEF AllInvoked
      <4> QED
        BY <2>1, <4>1, <4>2 DEF Inv, InvokedPrefix
    <3> QED
      BY <2>1, <3>2 DEF DoneInvokedAll
  <2> QED
    BY <2>2 DEF DoneInvokedAll
<1> QED
  BY <1>1, <1>2, <1>3, <1>4, Frame DEF Inv

\* An uncaught error keeps it, whatever was in hand.
LEMMA AbortKeepsInv ==
    ASSUME Inv, Abort
    PROVE  Inv'
<1> USE DEF Abort
<1>1. UNCHANGED <<ingress_on, durable_replay, processed, invocations, crashes>>
  OBVIOUS
<1>2. TypeOK' /\ BatchAhead'
  BY DEF Inv, TypeOK, BatchAhead
<1>3. CrashesPaid' /\ DoneInvokedAll'
  BY <1>1, Frame DEF Inv, CrashesPaid, DoneInvokedAll
<1> QED
  BY <1>1, <1>2, <1>3, Frame DEF Inv

-----------------------------------------------------------------------------
(* Steps on the event in hand *)

\* What appending an invocation does to the sequence of invocations.
LEMMA AppendFacts ==
    ASSUME NEW s \in Seq(1..N), NEW t \in 1..N
    PROVE  /\ Append(s, t) \in Seq(1..N) /\ Append(s, t) # <<>>
           /\ Len(s) \in Nat /\ Len(Append(s, t)) = Len(s) + 1
           /\ \A j \in 1..Len(s) : Append(s, t)[j] = s[j]
           /\ Append(s, t)[Len(s) + 1] = t
OBVIOUS

\* With a batch in hand the event behind the cursor exists.
LEMMA BatchInHand ==
    ASSUME Inv, session = "batch"
    PROVE  /\ durable_replay \in Nat /\ durable_replay < batchEnd
           /\ durable_replay < Len(Stream)
           /\ InHand \in 0..N /\ HighWater \in 0..N
BY StreamFacts, InHandType DEF Inv, TypeOK, BatchAhead, InvokedPrefix

\* Moving the cursor keeps it inside the batch, and nothing is pending behind it.
LEMMA AdvanceFacts ==
    ASSUME Inv, session = "batch", Advance, batchEnd' = batchEnd,
           HighWater' \in 0..N,
           \A t \in 1..HighWater' :
               \E k \in 1..Len(Stream) : k <= durable_replay + 1 /\ Stream[k] = t
    PROVE  /\ durable_replay' \in 0..Len(Stream)
           /\ session' \in {"connected", "batch"}
           /\ BatchAhead' /\ InvokedUpToCursor' /\ Pending' = 0
<1>1. /\ durable_replay' = durable_replay + 1
      /\ durable_replay' \in 0..Len(Stream) /\ session' \in {"connected", "batch"}
      /\ BatchAhead'
  BY BatchInHand, StreamFacts DEF Advance, Inv, TypeOK, BatchAhead
<1>2. InvokedUpToCursor'
  <2>1. SUFFICES ASSUME NEW t \in 1..HighWater'
                 PROVE  \E k \in 1..Len(Stream) : k <= durable_replay' + 1 /\ Stream[k] = t
    BY DEF InvokedUpToCursor
  <2>2. PICK k \in 1..Len(Stream) : k <= durable_replay + 1 /\ Stream[k] = t
    OBVIOUS
  <2>3. k <= durable_replay' + 1
    BY <1>1, <2>2, BatchInHand, StreamFacts
  <2> QED
    BY <2>2, <2>3
<1>3. durable_replay' < Len(Stream) => Stream[durable_replay' + 1] \notin 1..HighWater'
  BY <1>1, NothingPending
<1>4. Pending' = 0
  BY <1>3 DEF Pending, InHand
<1> QED
  BY <1>1, <1>2, <1>4

\* Skipping a foreign event keeps the invariant.
LEMMA SkipKeepsInv ==
    ASSUME Inv, SkipForeign
    PROVE  Inv'
<1> USE DEF SkipForeign, Running, progress
<1>1. /\ session = "batch" /\ Advance /\ InHand = 0
      /\ UNCHANGED <<batchEnd, ingress_on, processed, invocations, crashes, deliveries, outcome>>
  OBVIOUS
<1>2. HighWater' = HighWater
  BY <1>1 DEF HighWater
<1>3. \A t \in 1..HighWater' :
          \E k \in 1..Len(Stream) : k <= durable_replay + 1 /\ Stream[k] = t
  BY <1>2 DEF Inv, InvokedUpToCursor
<1>4. /\ durable_replay' \in 0..Len(Stream) /\ session' \in {"connected", "batch"}
      /\ BatchAhead' /\ InvokedUpToCursor' /\ Pending' = 0
  BY <1>1, <1>2, <1>3, AdvanceFacts, BatchInHand
<1>5. TypeOK'
  BY <1>1, <1>4 DEF Inv, TypeOK
<1>6. InvokedPrefix' /\ OnceWithIngress' /\ DoneInvokedAll'
  BY <1>1, <1>2 DEF Inv, InvokedPrefix, OnceWithIngress, DoneInvokedAll
<1>7. CursorBehind'
  BY <1>1, <1>2, BatchInHand DEF Inv, CursorBehind, Advance, InHand
<1>8. CrashesPaid'
  <2>1. Pending = 0
    BY <1>1, BatchInHand DEF Pending
  <2> QED
    BY <1>1, <1>2, <1>4, <2>1 DEF Inv, CrashesPaid
<1> QED
  BY <1>4, <1>5, <1>6, <1>7, <1>8 DEF Inv

\* Swallowing a duplicate at the ingress keeps the invariant.
LEMMA SwallowKeepsInv ==
    ASSUME Inv, SwallowDuplicate
    PROVE  Inv'
<1> USE DEF SwallowDuplicate, Running
<1>1. /\ session = "batch" /\ Advance /\ InHand \in processed /\ ingress_on
      /\ deliveries' = deliveries + 1
      /\ UNCHANGED <<batchEnd, ingress_on, processed, invocations, crashes, outcome>>
  BY DEF Swallows
<1>2. HighWater' = HighWater
  BY <1>1 DEF HighWater
<1>3. \A t \in 1..HighWater' :
          \E k \in 1..Len(Stream) : k <= durable_replay + 1 /\ Stream[k] = t
  BY <1>2 DEF Inv, InvokedUpToCursor
<1>4. /\ durable_replay' \in 0..Len(Stream) /\ session' \in {"connected", "batch"}
      /\ BatchAhead' /\ InvokedUpToCursor' /\ Pending' = 0
  BY <1>1, <1>2, <1>3, AdvanceFacts, BatchInHand
<1>5. TypeOK'
  BY <1>1, <1>4 DEF Inv, TypeOK
<1>6. InvokedPrefix' /\ OnceWithIngress' /\ DoneInvokedAll'
  BY <1>1, <1>2 DEF Inv, InvokedPrefix, OnceWithIngress, DoneInvokedAll
<1>7. InHand \in 1..HighWater /\ Pending = 1
  BY <1>1, BatchInHand DEF Inv, InvokedPrefix, Pending
<1>8. CursorBehind'
  BY <1>1, <1>2, <1>7, BatchInHand DEF Inv, CursorBehind, Advance, InHand
<1>9. CrashesPaid'
  <2>1. /\ HighWater \in Int /\ Len(invocations) \in Nat
        /\ deliveries \in Nat /\ crashes \in Nat
    BY <1>1, BatchInHand DEF Inv, TypeOK
  <2>2. /\ Len(invocations) - HighWater + 1 <= crashes
        /\ outcome # "aborted" => deliveries - HighWater + 1 = crashes
    BY <1>7 DEF Inv, CrashesPaid
  <2> QED
    BY <1>1, <1>2, <1>4, <2>1, <2>2 DEF CrashesPaid
<1> QED
  BY <1>4, <1>5, <1>6, <1>8, <1>9 DEF Inv

\* The task in hand is the next one, or the latest one once more; in the latter
\* case the ingress is off.
LEMMA InvokedTask ==
    ASSUME Inv, session = "batch", InHand # 0, ~Swallows
    PROVE  \/ InHand = HighWater + 1 /\ Pending = 0
           \/ InHand = HighWater /\ Pending = 1 /\ ~ingress_on
<1>1. CASE InHand \in 1..HighWater
  <2>1. InHand = HighWater
    BY <1>1, BatchInHand, PendingIsLatest DEF Inv, InvokedUpToCursor, InHand
  <2>2. Pending = 1
    BY <1>1, BatchInHand DEF Pending
  <2>3. ~ingress_on
    BY <1>1, BatchInHand DEF Swallows, Inv, InvokedPrefix
  <2> QED
    BY <2>1, <2>2, <2>3
<1>2. CASE InHand \notin 1..HighWater
  <2>1. InHand = HighWater + 1
    BY <1>2, BatchInHand, NewIsNext DEF Inv, CursorBehind, InHand
  <2>2. Pending = 0
    BY <1>2 DEF Pending
  <2> QED
    BY <2>1, <2>2
<1> QED
  BY <1>1, <1>2

\* What an invocation does to the tasks invoked so far.
LEMMA InvocationFacts ==
    ASSUME Inv, InvokeAgent
    PROVE  /\ session = "batch" /\ outcome = "running"
           /\ UNCHANGED <<ingress_on, batchEnd, late, outcome>>
           /\ InHand \in 1..N /\ HighWater' = InHand
           /\ invocations' \in Seq(1..N) /\ Len(invocations') = Len(invocations) + 1
           /\ deliveries' = deliveries + 1
           /\ processed' = processed \cup {InHand}
           /\ InvokedPrefix' /\ OnceWithIngress'
           /\ \/ InHand = HighWater + 1 /\ Pending = 0
              \/ InHand = HighWater /\ Pending = 1 /\ ~ingress_on
<1>1. /\ session = "batch" /\ outcome = "running" /\ InHand # 0 /\ ~Swallows
      /\ UNCHANGED <<ingress_on, batchEnd, late, outcome>>
      /\ invocations' = Append(invocations, InHand)
      /\ deliveries' = deliveries + 1
      /\ processed' = processed \cup {InHand}
  BY DEF InvokeAgent, Running, Recorded
<1>2. InHand \in 1..N /\ invocations \in Seq(1..N) /\ HighWater \in 0..N
  BY <1>1, BatchInHand DEF Inv, TypeOK
<1>3. /\ invocations' \in Seq(1..N) /\ invocations' # <<>>
      /\ Len(invocations) \in Nat /\ Len(invocations') = Len(invocations) + 1
      /\ \A j \in 1..Len(invocations) : invocations'[j] = invocations[j]
      /\ invocations'[Len(invocations')] = InHand
  BY <1>1, <1>2, AppendFacts
<1>4. HighWater' = InHand
  BY <1>3 DEF HighWater
<1>5. \/ InHand = HighWater + 1 /\ Pending = 0
      \/ InHand = HighWater /\ Pending = 1 /\ ~ingress_on
  BY <1>1, InvokedTask
<1>6. InvokedPrefix'
  <2>1. HighWater' \in 0..N /\ processed' = 1..HighWater'
    BY <1>1, <1>2, <1>4, <1>5 DEF Inv, InvokedPrefix
  <2>2. \A j \in 1..Len(invocations') : invocations'[j] <= HighWater'
    <3>1. TAKE j \in 1..Len(invocations')
    <3>2. CASE j = Len(invocations')
      BY <1>2, <1>3, <1>4, <3>2
    <3>3. CASE j # Len(invocations')
      <4>1. j \in 1..Len(invocations) /\ invocations'[j] = invocations[j]
        BY <1>3, <3>3
      <4>2. invocations[j] \in 1..N /\ invocations[j] <= HighWater
        BY <1>2, <4>1 DEF Inv, InvokedPrefix
      <4> QED
        BY <1>2, <1>4, <1>5, <4>1, <4>2
    <3> QED
      BY <3>2, <3>3
  <2>3. ASSUME NEW t \in 1..HighWater'
        PROVE  \E j \in 1..Len(invocations') : invocations'[j] = t
    <3>1. CASE t = InHand
      BY <1>3, <3>1
    <3>2. CASE t # InHand
      <4>1. t \in 1..HighWater
        BY <1>2, <1>4, <1>5, <3>2
      <4>2. PICK j \in 1..Len(invocations) : invocations[j] = t
        BY <4>1 DEF Inv, InvokedPrefix
      <4> QED
        BY <1>3, <4>2
    <3> QED
      BY <3>1, <3>2
  <2> QED
    BY <2>1, <2>2, <2>3 DEF InvokedPrefix
<1>7. OnceWithIngress'
  <2>1. SUFFICES ASSUME ingress_on, NEW j \in 1..Len(invocations')
                 PROVE  invocations'[j] = j
    BY <1>1 DEF OnceWithIngress
  <2>2. \A i \in 1..Len(invocations) : invocations[i] = i
    BY <2>1 DEF Inv, OnceWithIngress
  <2>3. InHand = HighWater + 1
    BY <1>5, <2>1
  <2>4. HighWater = Len(invocations)
    <3>1. CASE invocations = <<>>
      BY <3>1 DEF HighWater
    <3>2. CASE invocations # <<>>
      <4>1. Len(invocations) \in 1..Len(invocations)
        BY <1>2, <3>2, EmptySeq, LenProperties
      <4> QED
        BY <2>2, <3>2, <4>1 DEF HighWater
    <3> QED
      BY <3>1, <3>2
  <2> QED
    BY <1>3, <2>2, <2>3, <2>4
<1> QED
  BY <1>1, <1>2, <1>3, <1>4, <1>5, <1>6, <1>7

\* Invoking the agent, with or without the crash behind it, keeps the invariant.
LEMMA InvokeKeepsInv ==
    ASSUME Inv, InvokeAgent
    PROVE  Inv'
<1>1. /\ durable_replay \in Nat /\ durable_replay < batchEnd /\ durable_replay < Len(Stream)
      /\ HighWater \in 0..N /\ InHand \in 1..N /\ HighWater' = InHand
      /\ HighWater <= HighWater' /\ Stream[durable_replay + 1] = HighWater'
  BY InvocationFacts, BatchInHand DEF InHand
<1>2. \A t \in 1..HighWater' :
          \E k \in 1..Len(Stream) : k <= durable_replay + 1 /\ Stream[k] = t
  <2>1. TAKE t \in 1..HighWater'
  <2>2. CASE t = InHand
    <3>1. durable_replay + 1 \in 1..Len(Stream)
      BY <1>1, StreamFacts
    <3> QED
      BY <1>1, <2>2, <3>1
  <2>3. CASE t # InHand
    <3>1. t \in 1..HighWater
      BY <1>1, <2>3, InvocationFacts
    <3> QED
      BY <3>1 DEF Inv, InvokedUpToCursor
  <2> QED
    BY <2>2, <2>3
<1>3. DoneInvokedAll'
  BY InvocationFacts DEF DoneInvokedAll
<1>t. /\ ingress_on' \in BOOLEAN /\ late' \in BOOLEAN
      /\ batchEnd' \in 0..Len(Stream) /\ processed' \subseteq 1..N
      /\ invocations' \in Seq(1..N) /\ deliveries' \in Nat
      /\ outcome' \in {"running", "done", "timed_out", "aborted"}
  <2>1. TypeOK
    BY DEF Inv
  <2>2. deliveries' \in Nat
    BY <2>1, InvocationFacts DEF TypeOK
  <2>3. processed' \subseteq 1..N
    BY <2>1, InvocationFacts DEF TypeOK
  <2> QED
    BY <2>1, <2>2, <2>3, InvocationFacts, Zenon DEF TypeOK
<1>n. /\ Pending \in 0..1 /\ Len(invocations) \in Nat /\ deliveries \in Nat /\ crashes \in Nat
      /\ crashes <= max_crashes
      /\ Len(invocations) - HighWater + Pending <= crashes
      /\ ~ingress_on => Len(invocations) - HighWater + Pending = crashes
      /\ deliveries - HighWater + Pending = crashes
      /\ HighWater' = HighWater + 1 - Pending
      /\ ingress_on' = ingress_on
  BY <1>1, InvocationFacts DEF Inv, TypeOK, CrashesPaid, Pending
<1>4. CASE Advance /\ UNCHANGED crashes
  <2>1. HighWater' \in 0..N
    BY <1>1
  <2>2. /\ durable_replay' \in 0..Len(Stream) /\ session' \in {"connected", "batch"}
        /\ BatchAhead' /\ InvokedUpToCursor' /\ Pending' = 0
    BY <1>2, <1>4, <2>1, InvocationFacts, AdvanceFacts
  <2>3. TypeOK'
    <3>1. crashes' \in 0..max_crashes
      BY <1>4, <1>n
    <3> QED
      BY <1>t, <2>2, <3>1, Zenon DEF TypeOK
  <2>4. CursorBehind'
    <3>1. SUFFICES ASSUME NEW k \in 1..durable_replay'
                   PROVE  Stream[k] <= HighWater'
      BY DEF CursorBehind
    <3>2. CASE k \in 1..durable_replay
      <4>1. Stream[k] <= HighWater /\ Stream[k] \in 0..N
        BY <1>1, <3>2, StreamFacts DEF Inv, CursorBehind
      <4> QED
        BY <1>1, <4>1
    <3>3. CASE k = durable_replay + 1
      BY <1>1, <3>3
    <3> QED
      BY <1>1, <1>4, <3>2, <3>3 DEF Advance
  <2>5. CrashesPaid'
    BY <1>1, <1>n, <1>4, <2>2, InvocationFacts DEF CrashesPaid
  <2> QED
    BY <1>3, <2>2, <2>3, <2>4, <2>5, InvocationFacts DEF Inv
<1>5. CASE /\ MayCrash
           /\ crashes' = crashes + 1
           /\ session' = "none"
           /\ UNCHANGED durable_replay
  <2>1. TypeOK' /\ BatchAhead'
    <3>1. crashes' \in 0..max_crashes
      BY <1>5, <1>n DEF MayCrash
    <3>2. durable_replay' \in 0..Len(Stream)
      BY <1>5 DEF Inv, TypeOK
    <3>3. session' \in {"none", "connected", "batch"} /\ session' # "batch"
      BY <1>5
    <3> QED
      BY <1>t, <3>1, <3>2, <3>3, Zenon DEF TypeOK, BatchAhead
  <2>2. CursorBehind'
    <3>1. SUFFICES ASSUME NEW k \in 1..durable_replay
                   PROVE  Stream[k] <= HighWater'
      BY <1>5 DEF CursorBehind
    <3>2. Stream[k] <= HighWater /\ Stream[k] \in 0..N
      BY <1>1, StreamFacts DEF Inv, CursorBehind
    <3> QED
      BY <1>1, <3>2
  <2>3. InvokedUpToCursor'
    BY <1>2, <1>5 DEF InvokedUpToCursor
  <2>4. Pending' = 1
    BY <1>1, <1>5 DEF Pending, InHand
  <2>5. CrashesPaid'
    BY <1>1, <1>n, <1>5, <2>4, InvocationFacts DEF CrashesPaid
  <2> QED
    BY <1>3, <2>1, <2>2, <2>3, <2>5, InvocationFacts DEF Inv
<1> QED
  BY <1>4, <1>5 DEF InvokeAgent

-----------------------------------------------------------------------------
(* The invariant, and what follows from it *)

\* A stuttering step keeps the invariant.
LEMMA StutterKeepsInv ==
    ASSUME Inv, UNCHANGED vars
    PROVE  Inv'
BY DEF vars, Inv, TypeOK, BatchAhead, InvokedPrefix, CursorBehind, InvokedUpToCursor,
       CrashesPaid, OnceWithIngress, DoneInvokedAll, HighWater, Pending, InHand

\* The inductive invariant holds throughout every run of the probe, for every
\* channel, number of tasks and number of crashes.
THEOREM Invariance == Spec => []Inv
<1>1. Init => Inv
  BY InitInv
<1>2. Inv /\ [Next]_vars => Inv'
  BY SessionKeepsInv, EmptyPollKeepsInv, AbortKeepsInv, SkipKeepsInv, SwallowKeepsInv,
     InvokeKeepsInv, StutterKeepsInv DEF Next, HandleEvent
<1> QED
  BY <1>1, <1>2, PTL DEF Spec

\* The state of the probe has its declared type.
THEOREM TypeCorrectness == Spec => []TypeOK
<1>1. Inv => TypeOK
  BY DEF Inv
<1> QED
  BY <1>1, Invariance, PTL

\* With the idempotent ingress on no task reaches the agent twice, however the
\* sessions break and the bridge crashes.
THEOREM IngressStopsDuplicates == Spec => []NoDuplicateInvocation
<1>1. Inv => NoDuplicateInvocation
  BY DEF Inv, OnceWithIngress, NoDuplicateInvocation
<1> QED
  BY <1>1, Invariance, PTL

\* Each duplicate invocation, and each redelivery, has a crash of its own.
THEOREM DuplicatesArePaidFor == Spec => []DuplicatesBoundedByCrashes
<1>1. Inv => DuplicatesBoundedByCrashes
  <2>1. SUFFICES ASSUME Inv
                 PROVE  DuplicatesBoundedByCrashes
    OBVIOUS
  <2>2. /\ Pending \in 0..1 /\ HighWater \in 0..N /\ Len(invocations) \in Nat
        /\ deliveries \in Nat /\ crashes \in Nat
    BY <2>1 DEF Inv, TypeOK, InvokedPrefix, Pending
  <2> QED
    BY <2>1, <2>2 DEF Inv, CrashesPaid, DuplicatesBoundedByCrashes
<1> QED
  BY <1>1, Invariance, PTL

\* Every task whose event lies before the cursor has reached the agent.
THEOREM NothingIsSkipped == Spec => []CursorNeverSkips
<1>1. Inv => CursorNeverSkips
  <2>1. SUFFICES ASSUME Inv, NEW k \in 1..durable_replay, Stream[k] # 0
                 PROVE  \E j \in 1..Len(invocations) : invocations[j] = Stream[k]
    BY DEF CursorNeverSkips
  <2>2. k \in 1..Len(Stream) /\ Stream[k] \in 0..N /\ HighWater \in 0..N
    BY <2>1, StreamFacts DEF Inv, TypeOK, InvokedPrefix
  <2>3. Stream[k] \in 1..HighWater
    BY <2>1, <2>2 DEF Inv, CursorBehind
  <2> QED
    BY <2>1, <2>3 DEF Inv, InvokedPrefix
<1> QED
  BY <1>1, Invariance, PTL

\* A finished run reports as many redeliveries as crashes, one less when it ended
\* with a crashed task unread, and as many duplicates, none with the ingress.
THEOREM CrashesAreAccounted == Spec => []SummaryAccounts
<1>1. Inv => SummaryAccounts
  <2>1. SUFFICES ASSUME Inv, outcome = "done"
                 PROVE  SummaryAccounts
    BY DEF SummaryAccounts
  <2> DEFINE unread == \E k \in durable_replay + 1 .. Len(Stream) : Stream[k] # 0
  <2>2. /\ HighWater = N /\ durable_replay \in 0..Len(Stream) /\ Len(Stream) \in Nat
        /\ Len(invocations) \in Nat /\ deliveries \in Nat /\ crashes \in Nat
    BY <2>1, StreamFacts DEF Inv, TypeOK, DoneInvokedAll
  <2>3. Pending = IF unread THEN 1 ELSE 0
    <3>1. ASSUME unread
          PROVE  Pending = 1
      <4>1. PICK k \in durable_replay + 1 .. Len(Stream) : Stream[k] # 0
        BY <3>1
      <4>2. k \in 1..Len(Stream) /\ Stream[k] \in 1..N
        BY <2>2, <4>1, StreamFacts
      <4>3. PICK m \in 1..Len(Stream) : m <= durable_replay + 1 /\ Stream[m] = Stream[k]
        BY <2>1, <2>2, <4>2 DEF Inv, InvokedUpToCursor
      <4>4. ~(m < k)
        BY <4>2, <4>3, StreamFacts
      <4>5. k = durable_replay + 1
        BY <2>2, <4>1, <4>3, <4>4
      <4> QED
        BY <2>2, <4>1, <4>2, <4>5 DEF Pending, InHand
    <3>2. ASSUME ~unread
          PROVE  Pending = 0
      BY <2>2, <3>2 DEF Pending, InHand
    <3> QED
      BY <3>1, <3>2
  <2>4. deliveries - N + Pending = crashes
    BY <2>1, <2>2 DEF Inv, CrashesPaid
  <2>5. CASE ingress_on
    <3>1. Len(invocations) = HighWater
      BY <2>1, <2>2, <2>5 DEF Inv, OnceWithIngress, HighWater
    <3> QED
      BY <2>2, <2>3, <2>4, <2>5, <3>1 DEF SummaryAccounts
  <2>6. CASE ~ingress_on
    <3>1. Len(invocations) - N + Pending = crashes
      BY <2>1, <2>2, <2>6 DEF Inv, CrashesPaid
    <3> QED
      BY <2>2, <2>3, <2>4, <2>6, <3>1 DEF SummaryAccounts
  <2> QED
    BY <2>5, <2>6
<1> QED
  BY <1>1, Invariance, PTL

-----------------------------------------------------------------------------
(* The probe implements the task ledger *)

\* Establish ... Abort leave what the agent has received alone.
LEMMA NoInvocationNoLedgerStep ==
    ASSUME Inv, UNCHANGED <<invocations, ingress_on>>
    PROVE  UNCHANGED Ledger!ledger
<1>1. HighWater' = HighWater
  BY DEF HighWater
<1> QED
  BY <1>1 DEF Ledger!ledger

\* An invocation is the next task, or the latest once more, paid for by a crash.
LEMMA InvocationIsLedgerStep ==
    ASSUME Inv, InvokeAgent
    PROVE  Ledger!LedgerNext
<1>1. /\ HighWater \in 0..N /\ InHand \in 1..N /\ Len(invocations) \in Nat
      /\ HighWater' = InHand /\ Len(invocations') = Len(invocations) + 1
      /\ invocations' = Append(invocations, InHand)
      /\ UNCHANGED ingress_on
  <2>1. session = "batch"
    BY InvocationFacts
  <2>2. HighWater \in 0..N
    BY <2>1, BatchInHand
  <2>3. Len(invocations) \in Nat
    BY DEF Inv, TypeOK
  <2>4. invocations' = Append(invocations, InHand)
    BY DEF InvokeAgent
  <2> QED
    BY <2>2, <2>3, <2>4, InvocationFacts
<1>2. Ledger!Latest = HighWater
  BY DEF Ledger!Latest, HighWater
<1>3. CASE InHand = HighWater + 1
  BY <1>1, <1>2, <1>3 DEF Ledger!LedgerNext, Ledger!Invoke
<1>4. CASE InHand = HighWater /\ Pending = 1 /\ ~ingress_on
  <2>1. invocations # <<>>
    BY <1>1, <1>4 DEF HighWater
  <2>2. Len(invocations) - HighWater < max_crashes
    BY <1>1, <1>4 DEF Inv, TypeOK, CrashesPaid
  <2> QED
    BY <1>1, <1>2, <1>4, <2>1, <2>2 DEF Ledger!LedgerNext, Ledger!InvokeAgain
<1> QED
  BY <1>3, <1>4, InvocationFacts

\* The agent behind the bridge sees a task ledger: every task in publishing
\* order, a repeat only right after its task, none with the ingress.
THEOREM BridgeImplementsLedger == Spec => LedgerRefined
<1>1. Init => Ledger!LedgerInit
  <2>1. SUFFICES ASSUME Init
                 PROVE  Ledger!LedgerInit
    OBVIOUS
  <2>2. invocations = <<>> /\ HighWater = 0 /\ Len(invocations) = 0
    BY <2>1 DEF Init, HighWater
  <2> QED
    BY <2>1, <2>2 DEF Init, Ledger!LedgerInit
<1>2. Inv /\ [Next]_vars => [Ledger!LedgerNext]_(Ledger!ledger)
  <2>1. SUFFICES ASSUME Inv, [Next]_vars
                 PROVE  [Ledger!LedgerNext]_(Ledger!ledger)
    OBVIOUS
  <2>2. CASE InvokeAgent
    BY <2>1, <2>2, InvocationIsLedgerStep
  <2>3. CASE ~InvokeAgent
    <3>1. UNCHANGED <<invocations, ingress_on>>
      BY <2>1, <2>3 DEF Next, HandleEvent, Establish, SessionLost, ReceiveBatch, EmptyPoll,
                        SkipForeign, SwallowDuplicate, Abort, ClockPasses, progress, vars
    <3> QED
      BY <2>1, <3>1, NoInvocationNoLedgerStep
  <2> QED
    BY <2>2, <2>3
<1> QED
  BY <1>1, <1>2, Invariance, PTL DEF Spec, LedgerRefined, Ledger!LedgerSpec
=============================================================================

-------------------------- MODULE RetryAgentProofs --------------------------
(***************************************************************************)
(* Proofs about the retry agent, for every number of wire attempts and of  *)
(* worker processes.                                                       *)
(***************************************************************************)
EXTENDS RetryAgent, FiniteSetTheorems, TLAPS

USE AttemptsAssumption, WorkersAssumption

-----------------------------------------------------------------------------
(* Types *)

Labels == {"absent", "memoized", "waiting", "work", "working", "signal", "returned"}

LEMMA InitTypes == Init => TypeOK
<1> SUFFICES ASSUME Init PROVE TypeOK
  OBVIOUS
<1>1. (CHOOSE w \in Workers : TRUE) \in Workers
  OBVIOUS
<1>2. NoReply \in Reply
  BY DEF NoReply, Reply
<1>3. local \in [Attempts -> Locals]
  BY <1>1 DEF Init, Locals
<1>4. record \in Record /\ reply \in [Attempts -> Reply]
  BY <1>2 DEF Init, Record
<1>5. /\ ENTRIES \in [Workers -> Nat] /\ EXECUTIONS \in [Workers -> Nat]
      /\ RESULTS \in [Workers -> BOOLEAN] /\ WARM \in [Workers -> BOOLEAN]
      /\ INFLIGHT \in [Workers -> {NoOne} \cup Attempts]
      /\ isSet \in [Attempts -> BOOLEAN] /\ failed \in [Workers -> Nat]
  BY DEF Init
<1>6. /\ ingress \in BOOLEAN /\ sent \in 0..max_attempts /\ expired \subseteq 1..sent
      /\ pc \in [Attempts -> Labels]
  BY DEF Init, Labels
<1> QED
  BY <1>3, <1>4, <1>5, <1>6 DEF TypeOK, Labels

LEMMA ClientTypes == TypeOK /\ (Send \/ ReadTimeout \/ Receive) => TypeOK'
<1> SUFFICES ASSUME TypeOK, Send \/ ReadTimeout \/ Receive PROVE TypeOK'
  OBVIOUS
<1> USE DEF TypeOK
<1>1. CASE Send
  BY <1>1 DEF Send, tables
<1>2. CASE ReadTimeout
  <2>1. record' \in Record
    BY <1>2 DEF ReadTimeout, Record
  <2>2. expired' \subseteq 1..sent
    BY <1>2 DEF ReadTimeout, OpenAttempt
  <2> QED
    BY <1>2, <2>1, <2>2 DEF ReadTimeout, tables
<1>3. CASE Receive
  <2>1. sent \in Attempts
    BY <1>3 DEF Receive, Attempts
  <2>2. record' \in Record
    BY <1>3, <2>1 DEF Receive, Record
  <2> QED
    BY <1>3, <2>2 DEF Receive, tables
<1> QED
  BY <1>1, <1>2, <1>3

\* What a response may hold, and where a thread may go.
LEMMA Responses ==
    ASSUME TypeOK, NEW k \in Attempts, NEW n \in Nat, NEW e \in BOOLEAN, NEW d \in BOOLEAN,
           Respond(k, n, e, d)
    PROVE  reply' \in [Attempts -> Reply]
<1>1. [entry_count |-> local[k].entry_count, executions |-> n, executed |-> e, digest |-> d]
        \in Reply
  BY DEF TypeOK, Locals, Reply
<1> QED
  BY <1>1 DEF TypeOK, Respond

LEMMA Jumps ==
    ASSUME TypeOK, NEW k \in Attempts, NEW l \in Labels, Jump(k, l)
    PROVE  pc' \in [Attempts -> Labels]
BY DEF TypeOK, Jump, Labels

LEMMA WorkLocals ==
    ASSUME NEW f \in [Attempts -> Locals], NEW k \in Attempts, NEW c \in BOOLEAN, NEW m \in Nat
    PROVE  [f EXCEPT ![k].cold = c, ![k].n = m] \in [Attempts -> Locals]
<1>1. [[f[k] EXCEPT !.cold = c] EXCEPT !.n = m] \in Locals
  <2>1. f[k] \in Locals
    OBVIOUS
  <2> QED
    BY <2>1 DEF Locals
<1>2. [f EXCEPT ![k].cold = c, ![k].n = m]
        = [f EXCEPT ![k] = [[f[k] EXCEPT !.cold = c] EXCEPT !.n = m]]
  OBVIOUS
<1> QED
  BY <1>1, <1>2

LEMMA EnterTypes == ASSUME TypeOK, NEW k \in Attempts, Enter(k) PROVE TypeOK'
<1> USE DEF TypeOK
<1>1. PICK w \in Workers :
         /\ ENTRIES' = [ENTRIES EXCEPT ![w] = @ + 1]
         /\ local' = [local EXCEPT ![k].worker = w, ![k].entry_count = ENTRIES[w] + 1,
                                   ![k].waitsFor = INFLIGHT[w]]
         /\ INFLIGHT' = INFLIGHT \/ INFLIGHT' = [INFLIGHT EXCEPT ![w] = k]
         /\ \E l \in {"work", "memoized", "waiting"} : Jump(k, l)
  BY DEF Enter
<1>2. local' \in [Attempts -> Locals]
  <2>1. local[k] \in Locals /\ ENTRIES[w] + 1 \in Nat /\ INFLIGHT[w] \in {NoOne} \cup Attempts
    BY <1>1
  <2>2. [[[local[k] EXCEPT !.worker = w] EXCEPT !.entry_count = ENTRIES[w] + 1]
            EXCEPT !.waitsFor = INFLIGHT[w]] \in Locals
    BY <2>1 DEF Locals
  <2>3. local' = [local EXCEPT ![k] = [[[local[k] EXCEPT !.worker = w]
                    EXCEPT !.entry_count = ENTRIES[w] + 1] EXCEPT !.waitsFor = INFLIGHT[w]]]
    BY <1>1
  <2> QED
    BY <2>2, <2>3
<1>3. pc' \in [Attempts -> Labels]
  BY <1>1, Jumps DEF Labels
<1>4. INFLIGHT' \in [Workers -> {NoOne} \cup Attempts] /\ ENTRIES' \in [Workers -> Nat]
  BY <1>1
<1> QED
  BY <1>2, <1>3, <1>4 DEF Enter, client, Labels

LEMMA ThreadTypes ==
    ASSUME TypeOK, NEW k \in Attempts, Thread(k) \/ WaitTimesOut(k) PROVE TypeOK'
<1>1. Worker(k) \in Workers /\ local[k].n \in Nat /\ EXECUTIONS[Worker(k)] \in Nat
      /\ RESULTS[Worker(k)] \in BOOLEAN
  BY DEF TypeOK, Locals, Worker
<1>2. CASE ReturnMemo(k) \/ Unblock(k)
  <2>1. reply' \in [Attempts -> Reply]
    BY <1>1, <1>2, Responses DEF ReturnMemo, Unblock
  <2>2. pc' \in [Attempts -> Labels]
    BY <1>2, Jumps DEF ReturnMemo, Unblock, Labels
  <2> QED
    BY <1>2, <2>1, <2>2 DEF ReturnMemo, Unblock, TypeOK, Labels, client, tables
<1>3. CASE StartWork(k)
  <2>1. local' \in [Attempts -> Locals]
    <3>1. local \in [Attempts -> Locals] /\ (~WARM[Worker(k)]) \in BOOLEAN
      BY DEF TypeOK
    <3>2. CountAtStart(Worker(k)) \in Nat
      BY <1>1 DEF CountAtStart
    <3>3. local' = [local EXCEPT ![k].cold = ~WARM[Worker(k)],
                                 ![k].n = CountAtStart(Worker(k))]
      BY <1>3 DEF StartWork
    <3>4. [local EXCEPT ![k].cold = ~WARM[Worker(k)], ![k].n = CountAtStart(Worker(k))]
            \in [Attempts -> Locals]
      BY <3>1, <3>2, WorkLocals
    <3> QED
      BY <3>3, <3>4
  <2>2. pc' \in [Attempts -> Labels]
    BY <1>3, Jumps DEF StartWork, Labels
  <2>3. WARM' \in [Workers -> BOOLEAN] /\ EXECUTIONS' \in [Workers -> Nat]
    BY <1>1, <1>3 DEF StartWork, TypeOK
  <2> QED
    BY <1>3, <2>1, <2>2, <2>3 DEF StartWork, TypeOK, Labels, client
<1>4. CASE FinishWork(k)
  <2>1. reply' \in [Attempts -> Reply]
    BY <1>1, <1>4, Responses DEF FinishWork
  <2>2. pc' \in [Attempts -> Labels]
    BY <1>4, Jumps DEF FinishWork, Labels
  <2>3. RESULTS' \in [Workers -> BOOLEAN] /\ INFLIGHT' \in [Workers -> {NoOne} \cup Attempts]
    BY <1>1, <1>4 DEF FinishWork, Memoized, TypeOK
  <2> QED
    BY <1>4, <2>1, <2>2, <2>3 DEF FinishWork, TypeOK, Labels, client
<1>5. CASE FailWork(k)
  <2>1. reply' \in [Attempts -> Reply]
    BY <1>1, <1>5, Responses DEF FailWork
  <2>2. pc' \in [Attempts -> Labels]
    BY <1>5, Jumps DEF FailWork, AfterFailure, Labels
  <2>3. failed' \in [Workers -> Nat] /\ INFLIGHT' \in [Workers -> {NoOne} \cup Attempts]
    BY <1>1, <1>5 DEF FailWork, TypeOK
  <2> QED
    BY <1>5, <2>1, <2>2, <2>3 DEF FailWork, TypeOK, Labels, client
<1>6. CASE SignalEvent(k)
  <2>1. pc' \in [Attempts -> Labels]
    BY <1>6, Jumps DEF SignalEvent, Labels
  <2>2. isSet' \in [Attempts -> BOOLEAN]
    BY <1>6 DEF SignalEvent, TypeOK
  <2> QED
    BY <1>6, <2>1, <2>2 DEF SignalEvent, TypeOK, Labels, client
<1> QED
  BY <1>2, <1>3, <1>4, <1>5, <1>6 DEF Thread, WaitEnds, WaitTimesOut

LEMMA TypeStep == TypeOK /\ [Next]_vars => TypeOK'
<1>1. TypeOK /\ UNCHANGED vars => TypeOK'
  BY DEF TypeOK, vars, client, tables
<1> QED
  BY <1>1, ClientTypes, EnterTypes, ThreadTypes DEF Next

-----------------------------------------------------------------------------
(* Single flight *)

\* The tables of a worker and its threads agree: the thread that is registered
\* is the one that works, and the executions are the failed ones, the one that
\* is running, and the one that is memoized.
Busy(w) == INFLIGHT[w] # NoOne /\ pc[INFLIGHT[w]] = "working"

Owned == \A k \in Attempts : pc[k] \in {"work", "working"} => INFLIGHT[Worker(k)] = k
Registered ==
    \A w \in Workers : INFLIGHT[w] # NoOne =>
        pc[INFLIGHT[w]] \in {"work", "working"} /\ Worker(INFLIGHT[w]) = w
MemoIsFinal == \A w \in Workers : RESULTS[w] => INFLIGHT[w] = NoOne
Counted ==
    \A w \in Workers :
        /\ RESULTS[w] \/ Busy(w) => EXECUTIONS[w] = failed[w] + 1
        /\ ~RESULTS[w] /\ ~Busy(w) => EXECUTIONS[w] = failed[w]

FlightInv == ingress => Owned /\ Registered /\ MemoIsFinal /\ Counted

LEMMA InitFlight == Init => FlightInv
BY DEF Init, FlightInv, Owned, Registered, MemoIsFinal, Counted, Busy, Worker

LEMMA EnterFlight ==
    ASSUME TypeOK, FlightInv, NEW k \in Attempts, Enter(k), ingress PROVE FlightInv'
<1>1. PICK w \in Workers :
        /\ local' = [local EXCEPT ![k].worker = w, ![k].entry_count = ENTRIES[w] + 1,
                                  ![k].waitsFor = INFLIGHT[w]]
        /\ \/ /\ BecomesOwner(w) /\ INFLIGHT' = [INFLIGHT EXCEPT ![w] = k] /\ Jump(k, "work")
           \/ /\ UNCHANGED INFLIGHT
              /\ Jump(k, "memoized") \/ Jump(k, "waiting")
  BY DEF Enter
<1>2. /\ UNCHANGED <<ingress, EXECUTIONS, RESULTS, failed>> /\ pc[k] = "absent"
      /\ k # NoOne
  BY DEF Enter, Attempts, NoOne
<1>3. /\ Worker(k)' = w /\ \A j \in Attempts \ {k} : Worker(j)' = Worker(j)
      /\ \A j \in Attempts \ {k} : pc'[j] = pc[j]
  BY <1>1 DEF TypeOK, Locals, Worker, Jump
<1>4. \A v \in Workers : INFLIGHT[v] # k /\ (INFLIGHT[v] # NoOne => INFLIGHT[v] \in Attempts)
  BY <1>2 DEF FlightInv, Registered, TypeOK
<1>5. CASE /\ BecomesOwner(w) /\ INFLIGHT' = [INFLIGHT EXCEPT ![w] = k] /\ Jump(k, "work")
  <2>1. INFLIGHT'[w] = k /\ pc'[k] = "work" /\ ~RESULTS[w] /\ INFLIGHT[w] = NoOne
        /\ \A v \in Workers \ {w} : INFLIGHT'[v] = INFLIGHT[v]
    BY <1>5 DEF TypeOK, Jump, BecomesOwner
  <2>2. Owned'
    <3> SUFFICES ASSUME NEW j \in Attempts, pc'[j] \in {"work", "working"}
                 PROVE  INFLIGHT'[Worker(j)'] = j
      BY DEF Owned
    <3>1. CASE j = k
      BY <1>3, <2>1, <3>1
    <3>2. CASE j # k
      <4>1. INFLIGHT[Worker(j)] = j /\ Worker(j)' = Worker(j) /\ Worker(j) \in Workers
        BY <1>2, <1>3, <3>2 DEF FlightInv, Owned, TypeOK, Locals, Worker
      <4>2. Worker(j) # w
        BY <2>1, <4>1 DEF Attempts, NoOne
      <4> QED
        BY <2>1, <4>1, <4>2
    <3> QED
      BY <3>1, <3>2
  <2>3. Registered' /\ MemoIsFinal'
    BY <1>2, <1>3, <1>4, <2>1 DEF FlightInv, Registered, MemoIsFinal
  <2>4. \A v \in Workers : Busy(v)' = Busy(v)
    BY <1>2, <1>3, <1>4, <2>1 DEF Busy
  <2>5. Counted'
    BY <1>2, <2>4 DEF FlightInv, Counted
  <2> QED
    BY <2>2, <2>3, <2>5 DEF FlightInv
<1>6. CASE UNCHANGED INFLIGHT /\ (Jump(k, "memoized") \/ Jump(k, "waiting"))
  <2>1. pc'[k] \in {"memoized", "waiting"}
    BY <1>6 DEF TypeOK, Jump
  <2>2. Owned' /\ Registered' /\ MemoIsFinal'
    BY <1>2, <1>3, <1>4, <1>6, <2>1 DEF FlightInv, Owned, Registered, MemoIsFinal
  <2>3. \A v \in Workers : Busy(v)' = Busy(v)
    BY <1>3, <1>4, <1>6 DEF Busy
  <2>4. Counted'
    BY <1>2, <2>3 DEF FlightInv, Counted
  <2> QED
    BY <2>2, <2>4 DEF FlightInv
<1> QED
  BY <1>1, <1>5, <1>6

\* A thread that is not working leaves the tables alone.
LEMMA OtherFlight ==
    ASSUME TypeOK, FlightInv, ingress, NEW k \in Attempts,
           pc[k] \notin {"work", "working"}, pc' = [pc EXCEPT ![k] = "returned"],
           UNCHANGED <<ingress, local, EXECUTIONS, RESULTS, INFLIGHT, failed>>
    PROVE  FlightInv'
<1>1. \A j \in Attempts : Worker(j)' = Worker(j) /\ (j # k => pc'[j] = pc[j])
      /\ pc'[k] = "returned"
  BY DEF TypeOK, Worker
<1>2. \A v \in Workers : INFLIGHT[v] # k /\ (INFLIGHT[v] # NoOne => INFLIGHT[v] \in Attempts)
  BY DEF FlightInv, Registered, TypeOK, Attempts, NoOne
<1>3. Owned' /\ Registered' /\ MemoIsFinal'
  BY <1>1, <1>2 DEF FlightInv, Owned, Registered, MemoIsFinal
<1>4. \A v \in Workers : Busy(v)' = Busy(v)
  BY <1>1, <1>2 DEF Busy
<1>5. Counted'
  BY <1>4 DEF FlightInv, Counted
<1> QED
  BY <1>3, <1>5 DEF FlightInv

\* The registered thread starts its work, or ends it.
LEMMA WorkFlight ==
    ASSUME TypeOK, FlightInv, ingress, NEW k \in Attempts,
           StartWork(k) \/ FinishWork(k) \/ FailWork(k)
    PROVE  FlightInv'
<1> DEFINE w == Worker(k)
<1>1. /\ w \in Workers /\ INFLIGHT[w] = k /\ ~RESULTS[w] /\ k # NoOne
      /\ pc[k] \in {"work", "working"} /\ EXECUTIONS[w] \in Nat /\ failed[w] \in Nat
  <2>1. w \in Workers /\ k # NoOne
    BY DEF TypeOK, Locals, Worker, Attempts, NoOne
  <2>2. pc[k] \in {"work", "working"}
    BY DEF StartWork, FinishWork, WorkIsOver, FailWork
  <2>3. INFLIGHT[w] = k
    BY <2>2 DEF FlightInv, Owned
  <2>4. ~RESULTS[w]
    BY <2>1, <2>3 DEF FlightInv, MemoIsFinal
  <2>5. EXECUTIONS[w] \in Nat /\ failed[w] \in Nat
    BY <2>1 DEF TypeOK
  <2> QED
    BY <2>1, <2>2, <2>3, <2>4, <2>5
<1>2. \A j \in Attempts \ {k} : pc[j] \in {"work", "working"} => Worker(j) # w
  BY <1>1 DEF FlightInv, Owned
<1>3. \A v \in Workers \ {w} : INFLIGHT[v] # k /\ (INFLIGHT[v] # NoOne => INFLIGHT[v] \in Attempts)
  BY <1>1 DEF FlightInv, Registered, TypeOK
<1>4. CASE StartWork(k)
  <2>1. /\ pc' = [pc EXCEPT ![k] = "working"] /\ pc[k] = "work"
        /\ EXECUTIONS' = [EXECUTIONS EXCEPT ![w] = @ + 1]
        /\ UNCHANGED <<ingress, RESULTS, INFLIGHT, failed>>
        /\ local' = [local EXCEPT ![k].cold = ~WARM[w], ![k].n = CountAtStart(w)]
    BY <1>4 DEF StartWork, Jump
  <2>2. /\ \A j \in Attempts : Worker(j)' = Worker(j) /\ (j # k => pc'[j] = pc[j])
        /\ pc'[k] = "working"
    BY <2>1 DEF TypeOK, Locals, Worker
  <2>3. Owned' /\ Registered' /\ MemoIsFinal'
    BY <1>1, <1>3, <2>1, <2>2 DEF FlightInv, Owned, Registered, MemoIsFinal
  <2>4. Busy(w)' /\ ~Busy(w) /\ \A v \in Workers \ {w} : Busy(v)' = Busy(v)
    BY <1>1, <1>3, <2>1, <2>2 DEF Busy
  <2>5. EXECUTIONS'[w] = EXECUTIONS[w] + 1
        /\ \A v \in Workers \ {w} : EXECUTIONS'[v] = EXECUTIONS[v]
    BY <1>1, <2>1 DEF TypeOK
  <2>6. Counted'
    <3>1. EXECUTIONS[w] = failed[w]
      BY <1>1, <2>4 DEF FlightInv, Counted
    <3>2. EXECUTIONS'[w] = failed'[w] + 1
      BY <2>1, <2>5, <3>1
    <3>3. ASSUME NEW v \in Workers \ {w}
          PROVE  /\ RESULTS'[v] \/ Busy(v)' => EXECUTIONS'[v] = failed'[v] + 1
                 /\ ~RESULTS'[v] /\ ~Busy(v)' => EXECUTIONS'[v] = failed'[v]
      <4>1. /\ RESULTS[v] \/ Busy(v) => EXECUTIONS[v] = failed[v] + 1
            /\ ~RESULTS[v] /\ ~Busy(v) => EXECUTIONS[v] = failed[v]
        BY DEF FlightInv, Counted
      <4>2. Busy(v)' = Busy(v) /\ EXECUTIONS'[v] = EXECUTIONS[v]
        BY <2>4, <2>5
      <4>3. RESULTS'[v] = RESULTS[v] /\ failed'[v] = failed[v]
        BY <2>1
      <4> QED
        BY <4>1, <4>2, <4>3
    <3> QED
      BY <2>2, <2>4, <3>2, <3>3 DEF Counted
  <2> QED
    BY <2>3, <2>6 DEF FlightInv
<1>5. CASE FinishWork(k)
  <2>1. /\ pc' = [pc EXCEPT ![k] = "signal"] /\ pc[k] = "working"
        /\ RESULTS' = [RESULTS EXCEPT ![w] = TRUE]
        /\ INFLIGHT' = [INFLIGHT EXCEPT ![w] = NoOne]
        /\ UNCHANGED <<ingress, local, EXECUTIONS, failed>>
    BY <1>5 DEF FinishWork, Jump, WorkIsOver, Memoized
  <2>2. /\ \A j \in Attempts : Worker(j)' = Worker(j) /\ (j # k => pc'[j] = pc[j])
        /\ pc'[k] = "signal" /\ INFLIGHT'[w] = NoOne /\ RESULTS'[w] = TRUE
        /\ \A v \in Workers \ {w} : INFLIGHT'[v] = INFLIGHT[v] /\ RESULTS'[v] = RESULTS[v]
    BY <1>1, <2>1 DEF TypeOK, Worker
  <2>3. Owned'
    BY <1>2, <2>1, <2>2 DEF FlightInv, Owned, TypeOK, Locals, Worker
  <2>4. Registered' /\ MemoIsFinal'
    BY <1>3, <2>1, <2>2 DEF FlightInv, Registered, MemoIsFinal
  <2>5. Busy(w) /\ ~Busy(w)' /\ \A v \in Workers \ {w} : Busy(v)' = Busy(v)
    BY <1>1, <1>3, <2>1, <2>2 DEF Busy
  <2>6. Counted'
    BY <1>1, <2>1, <2>2, <2>5 DEF FlightInv, Counted
  <2> QED
    BY <2>3, <2>4, <2>6 DEF FlightInv
<1>6. CASE FailWork(k)
  <2>1. /\ pc' = [pc EXCEPT ![k] = "signal"] /\ pc[k] = "working"
        /\ failed' = [failed EXCEPT ![w] = @ + 1]
        /\ INFLIGHT' = [INFLIGHT EXCEPT ![w] = NoOne]
        /\ UNCHANGED <<ingress, local, EXECUTIONS, RESULTS>>
    BY <1>6 DEF FailWork, Jump, AfterFailure
  <2>2. /\ \A j \in Attempts : Worker(j)' = Worker(j) /\ (j # k => pc'[j] = pc[j])
        /\ pc'[k] = "signal" /\ INFLIGHT'[w] = NoOne /\ failed'[w] = failed[w] + 1
        /\ \A v \in Workers \ {w} : INFLIGHT'[v] = INFLIGHT[v] /\ failed'[v] = failed[v]
    BY <1>1, <2>1 DEF TypeOK, Worker
  <2>3. Owned'
    BY <1>2, <2>1, <2>2 DEF FlightInv, Owned, TypeOK, Locals, Worker
  <2>4. Registered' /\ MemoIsFinal'
    BY <1>3, <2>1, <2>2 DEF FlightInv, Registered, MemoIsFinal
  <2>5. Busy(w) /\ ~Busy(w)' /\ \A v \in Workers \ {w} : Busy(v)' = Busy(v)
    BY <1>1, <1>3, <2>1, <2>2 DEF Busy
  <2>6. Counted'
    BY <1>1, <2>1, <2>2, <2>5 DEF FlightInv, Counted
  <2> QED
    BY <2>3, <2>4, <2>6 DEF FlightInv
<1> QED
  BY <1>4, <1>5, <1>6

LEMMA FlightStep == TypeOK /\ FlightInv /\ [Next]_vars => FlightInv'
<1> SUFFICES ASSUME TypeOK, FlightInv, [Next]_vars PROVE FlightInv'
  OBVIOUS
<1>1. CASE ~ingress
  BY <1>1 DEF Next, Send, ReadTimeout, Receive, Enter, Thread, ReturnMemo, WaitEnds,
              WaitTimesOut, Unblock, StartWork, FinishWork, FailWork, SignalEvent, vars, FlightInv
<1>2. CASE ingress /\ (Send \/ ReadTimeout \/ Receive \/ UNCHANGED vars)
  BY <1>2 DEF Send, ReadTimeout, Receive, vars, tables, FlightInv, Owned, Registered,
              MemoIsFinal, Counted, Busy, Worker
<1>3. ASSUME ingress, NEW k \in Attempts, Enter(k) PROVE FlightInv'
  BY <1>3, EnterFlight
<1>4. ASSUME ingress, NEW k \in Attempts, Thread(k) \/ WaitTimesOut(k) PROVE FlightInv'
  <2>1. CASE ReturnMemo(k) \/ WaitEnds(k) \/ WaitTimesOut(k) \/ SignalEvent(k)
    BY <1>4, <2>1, OtherFlight
       DEF ReturnMemo, WaitEnds, WaitTimesOut, Unblock, SignalEvent, Jump, tables
  <2>2. CASE StartWork(k) \/ FinishWork(k) \/ FailWork(k)
    BY <1>4, <2>2, WorkFlight
  <2> QED
    BY <1>4, <2>1, <2>2 DEF Thread
<1> QED
  BY <1>1, <1>2, <1>3, <1>4 DEF Next

\* With the ingress the work of a worker is single flight, and runs again only
\* after it raised (agent_app.py:105), for every number of attempts and workers.
THEOREM WorkIsSingleFlight == Spec => []SingleFlight
<1>1. Init => TypeOK /\ FlightInv
  BY InitTypes, InitFlight
<1>2. TypeOK /\ FlightInv /\ [Next]_vars => (TypeOK /\ FlightInv)'
  BY TypeStep, FlightStep
<1>3. TypeOK /\ FlightInv => SingleFlight
  <2> SUFFICES ASSUME TypeOK, FlightInv, ingress
               PROVE  /\ \A j, k \in Attempts :
                           /\ pc[j] \in {"work", "working"} /\ pc[k] \in {"work", "working"}
                           /\ Worker(j) = Worker(k)
                           => j = k
                      /\ \A w \in Workers : EXECUTIONS[w] <= 1 + failed[w]
    BY DEF SingleFlight
  <2>1. \A j, k \in Attempts :
          pc[j] \in {"work", "working"} /\ pc[k] \in {"work", "working"}
          /\ Worker(j) = Worker(k) => j = k
    BY DEF FlightInv, Owned
  <2>2. ASSUME NEW w \in Workers PROVE EXECUTIONS[w] <= 1 + failed[w]
    <3>1. EXECUTIONS[w] \in Nat /\ failed[w] \in Nat
      BY DEF TypeOK
    <3> QED
      BY <3>1 DEF FlightInv, Counted
  <2> QED
    BY <2>1, <2>2
<1> QED
  BY <1>1, <1>2, <1>3, PTL DEF Spec
-----------------------------------------------------------------------------
(* What a suppressed duplicate returns *)

\* Whoever waits, waits for a thread of its own worker; an event is set only
\* after the work of its owner was memoized or failed.
WaitsForOwner ==
    \A k \in Attempts : pc[k] = "waiting" =>
        /\ local[k].waitsFor \in Attempts
        /\ pc[local[k].waitsFor] # "absent"
        /\ Worker(local[k].waitsFor) = Worker(k)
SetIsDone ==
    \A k \in Attempts : pc[k] = "signal" \/ isSet[k] =>
        pc[k] # "absent" /\ (RESULTS[Worker(k)] \/ failed[Worker(k)] > 0)

WaitInv == WaitsForOwner /\ SetIsDone

LEMMA EnterWaits ==
    ASSUME TypeOK, FlightInv, WaitInv, NEW k \in Attempts, Enter(k) PROVE WaitInv'
<1>1. PICK w \in Workers :
        /\ local' = [local EXCEPT ![k].worker = w, ![k].entry_count = ENTRIES[w] + 1,
                                  ![k].waitsFor = INFLIGHT[w]]
        /\ \/ \E l \in {"work", "memoized"} : Jump(k, l)
           \/ ingress /\ INFLIGHT[w] # NoOne /\ Jump(k, "waiting")
  BY DEF Enter, BecomesOwner
<1>2. pc[k] = "absent" /\ UNCHANGED <<RESULTS, isSet, failed>>
  BY DEF Enter
<1>3. /\ Worker(k)' = w /\ local'[k].waitsFor = INFLIGHT[w]
      /\ \A j \in Attempts \ {k} : /\ Worker(j)' = Worker(j) /\ local'[j] = local[j]
                                   /\ pc'[j] = pc[j]
  BY <1>1 DEF TypeOK, Locals, Worker, Jump
<1>4. pc'[k] \in {"work", "memoized", "waiting"}
  BY <1>1 DEF TypeOK, Jump
<1>5. ~isSet[k]
  BY <1>2 DEF WaitInv, SetIsDone
<1>6. SetIsDone'
  BY <1>2, <1>3, <1>4, <1>5 DEF WaitInv, SetIsDone
<1>7. ASSUME pc'[k] = "waiting"
      PROVE  INFLIGHT[w] \in Attempts \ {k} /\ pc[INFLIGHT[w]] # "absent"
             /\ Worker(INFLIGHT[w]) = w
  <2>1. ingress /\ INFLIGHT[w] # NoOne
    BY <1>1, <1>7 DEF TypeOK, Jump
  <2> QED
    BY <2>1, <1>2 DEF FlightInv, Registered, TypeOK
<1>8. WaitsForOwner'
  <2> SUFFICES ASSUME NEW j \in Attempts, pc'[j] = "waiting"
               PROVE  /\ local'[j].waitsFor \in Attempts
                      /\ pc'[local'[j].waitsFor] # "absent"
                      /\ Worker(local[j].waitsFor)' = Worker(j)'
    BY DEF WaitsForOwner
  <2>1. CASE j = k
    BY <1>3, <1>7, <2>1 DEF Worker
  <2>2. CASE j # k
    <3>1. /\ local[j].waitsFor \in Attempts \ {k} /\ pc[local[j].waitsFor] # "absent"
          /\ Worker(local[j].waitsFor) = Worker(j)
      BY <1>2, <1>3, <2>2 DEF WaitInv, WaitsForOwner
    <3> QED
      BY <1>3, <2>2, <3>1 DEF Worker
  <2> QED
    BY <2>1, <2>2
<1> QED
  BY <1>6, <1>8 DEF WaitInv

\* A started thread stays with its worker and its owner; what is memoized or
\* counted as failed stays.
LEMMA ThreadWaits ==
    ASSUME TypeOK, WaitInv, NEW k \in Attempts, Thread(k) \/ WaitTimesOut(k) PROVE WaitInv'
<1>1. /\ \A j \in Attempts : /\ Worker(j)' = Worker(j)
                             /\ local'[j].waitsFor = local[j].waitsFor
      /\ \A j \in Attempts \ {k} : pc'[j] = pc[j]
      /\ pc[k] # "absent" /\ pc'[k] \notin {"absent", "waiting"}
  <2>1. \/ UNCHANGED local
        \/ local' = [local EXCEPT ![k].cold = ~WARM[Worker(k)],
                                  ![k].n = CountAtStart(Worker(k))]
    BY DEF Thread, ReturnMemo, WaitEnds, WaitTimesOut, Unblock, StartWork, FinishWork,
           FailWork, SignalEvent
  <2>2. \E l \in {"returned", "working", "signal"} : Jump(k, l)
    BY DEF Thread, ReturnMemo, WaitEnds, WaitTimesOut, Unblock, StartWork, FinishWork,
           FailWork, SignalEvent, AfterFailure
  <2>3. \A j \in Attempts : Worker(j)' = Worker(j) /\ local'[j].waitsFor = local[j].waitsFor
    BY <2>1 DEF TypeOK, Locals, Worker
  <2>4. (\A j \in Attempts \ {k} : pc'[j] = pc[j]) /\ pc'[k] \notin {"absent", "waiting"}
    BY <2>2 DEF TypeOK, Jump
  <2>5. pc[k] # "absent"
    BY DEF Thread, ReturnMemo, WaitEnds, WaitTimesOut, StartWork, FinishWork, WorkIsOver,
           FailWork, SignalEvent
  <2> QED
    BY <2>3, <2>4, <2>5
<1>2. /\ \A w \in Workers : (RESULTS[w] => RESULTS'[w]) /\ (failed[w] > 0 => failed'[w] > 0)
      /\ pc'[k] = "signal" => RESULTS'[Worker(k)] \/ failed'[Worker(k)] > 0
  <2>1. Worker(k) \in Workers
    BY DEF TypeOK, Locals, Worker
  <2>2. CASE FinishWork(k)
    <3>1. UNCHANGED failed
      BY <2>2 DEF FinishWork
    <3>2. /\ ingress => RESULTS' = [RESULTS EXCEPT ![Worker(k)] = TRUE]
          /\ ~ingress => RESULTS' = RESULTS /\ Jump(k, "returned")
      BY <2>2 DEF FinishWork, Memoized
    <3> QED
      BY <2>1, <3>1, <3>2 DEF TypeOK, Jump
  <2>3. CASE FailWork(k)
    <3>1. UNCHANGED RESULTS /\ failed' = [failed EXCEPT ![Worker(k)] = @ + 1]
      BY <2>3 DEF FailWork
    <3>2. \A w \in Workers : failed[w] \in Nat
      BY DEF TypeOK
    <3>3. /\ failed'[Worker(k)] = failed[Worker(k)] + 1
          /\ \A w \in Workers \ {Worker(k)} : failed'[w] = failed[w]
      BY <2>1, <3>1 DEF TypeOK
    <3> QED
      BY <2>1, <3>1, <3>2, <3>3
  <2>4. CASE ~FinishWork(k) /\ ~FailWork(k)
    <3>1. \/ Jump(k, "returned") \/ Jump(k, "working")
      BY <2>4 DEF Thread, ReturnMemo, WaitEnds, WaitTimesOut, Unblock, StartWork, SignalEvent
    <3>2. UNCHANGED <<RESULTS, failed>>
      BY <2>4 DEF Thread, ReturnMemo, WaitEnds, WaitTimesOut, Unblock, StartWork, SignalEvent,
                  tables
    <3> QED
      BY <3>1, <3>2 DEF TypeOK, Jump
  <2> QED
    BY <2>2, <2>3, <2>4
<1>3. \A j \in Attempts : isSet'[j] => isSet[j] \/ (j = k /\ pc[k] = "signal")
  BY DEF TypeOK, Thread, ReturnMemo, WaitEnds, WaitTimesOut, Unblock,
         StartWork, FinishWork, FailWork, SignalEvent, tables
<1>4. WaitsForOwner'
  BY <1>1 DEF WaitInv, WaitsForOwner
<1>5. SetIsDone'
  BY <1>1, <1>2, <1>3 DEF WaitInv, SetIsDone, TypeOK, Locals, Worker
<1> QED
  BY <1>4, <1>5 DEF WaitInv

LEMMA WaitStep == TypeOK /\ FlightInv /\ WaitInv /\ [Next]_vars => WaitInv'
<1> SUFFICES ASSUME TypeOK, FlightInv, WaitInv, [Next]_vars PROVE WaitInv'
  OBVIOUS
<1>1. CASE Send \/ ReadTimeout \/ Receive \/ UNCHANGED vars
  BY <1>1 DEF Send, ReadTimeout, Receive, vars, tables, WaitInv, WaitsForOwner, SetIsDone, Worker
<1> QED
  BY <1>1, EnterWaits, ThreadWaits DEF Next

\* A duplicate that waited returns the first entry's result, unless the work it
\* waited for raised (agent_app.py:123), for every number of attempts and workers.
THEOREM DuplicateCarriesResult == Spec => SuppressedCarriesResult
<1> DEFINE Inv == TypeOK /\ FlightInv /\ WaitInv
<1> DEFINE Carries == \A k \in Attempts : WaitEnds(k) => reply'[k].digest \/ failed[Worker(k)] > 0
<1>1. Init => Inv
  <2>1. Init => WaitInv
    BY DEF Init, WaitInv, WaitsForOwner, SetIsDone
  <2> QED
    BY <2>1, InitTypes, InitFlight
<1>2. Inv /\ [Next]_vars => Inv'
  BY TypeStep, FlightStep, WaitStep
<1>3. Inv => Carries
  <2> SUFFICES ASSUME Inv, NEW k \in Attempts, WaitEnds(k)
               PROVE  reply'[k].digest \/ failed[Worker(k)] > 0
    OBVIOUS
  <2>1. RESULTS[Worker(k)] \/ failed[Worker(k)] > 0
    BY DEF WaitEnds, WaitInv, WaitsForOwner, SetIsDone
  <2>2. reply'[k].digest = RESULTS[Worker(k)]
    BY DEF WaitEnds, Unblock, Respond, TypeOK
  <2> QED
    BY <2>1, <2>2
<1>4. Spec => []Inv
  <2> HIDE DEF Inv
  <2> QED
    BY <1>1, <1>2, PTL DEF Spec
<1>5. Inv => [Carries]_vars
  BY <1>3
<1> QED
  <2> HIDE DEF Inv, Carries
  <2>1. Spec => [][Carries]_vars
    BY <1>4, <1>5, PTL
  <2> QED
    BY <2>1 DEF Carries, SuppressedCarriesResult
-----------------------------------------------------------------------------
(* Duplicates show *)

\* What a run without the ingress has shown so far: a worker is warm only after
\* an execution; work that finds it warm counts at least the second one; and a
\* thread that answers "one execution" ran cold, past the client's read timeout.
NoSuppression == \A k \in Attempts : pc[k] \notin {"memoized", "waiting", "signal"}

WarmHasRun == \A w \in Workers : WARM[w] => EXECUTIONS[w] > 0

ColdOrSecond == \A k \in Attempts : pc[k] = "working" => local[k].cold \/ local[k].n > 1

AnswersShow ==
    \A k \in Attempts : pc[k] = "returned" =>
        reply[k].executions > 1 \/ k \in expired \/ failed[Worker(k)] > 0

ColdInv == ~ingress => NoSuppression /\ WarmHasRun /\ ColdOrSecond /\ AnswersShow

LEMMA ClientCold == TypeOK /\ ColdInv /\ (Send \/ ReadTimeout \/ Receive) => ColdInv'
BY DEF ColdInv, NoSuppression, WarmHasRun, ColdOrSecond, AnswersShow, Send, ReadTimeout,
       Receive, tables, Worker

\* A thread that enters starts working.
LEMMA EnterCold == ASSUME TypeOK, ColdInv, NEW k \in Attempts, Enter(k) PROVE ColdInv'
<1> SUFFICES ASSUME ~ingress PROVE (NoSuppression /\ WarmHasRun /\ ColdOrSecond /\ AnswersShow)'
  BY DEF Enter, ColdInv
<1>1. pc' = [pc EXCEPT ![k] = "work"]
  BY DEF Enter, Jump
<1>2. \A j \in Attempts \ {k} : local'[j] = local[j]
  BY DEF Enter, TypeOK
<1>3. pc'[k] = "work" /\ \A j \in Attempts \ {k} : pc'[j] = pc[j]
  BY <1>1 DEF TypeOK
<1>4. UNCHANGED <<expired, reply, EXECUTIONS, WARM, failed>>
  BY DEF Enter, client
<1> QED
  BY <1>2, <1>3, <1>4 DEF ColdInv, NoSuppression, WarmHasRun, ColdOrSecond, AnswersShow, Worker

LEMMA StartCold == ASSUME TypeOK, ColdInv, NEW k \in Attempts, StartWork(k) PROVE ColdInv'
<1> SUFFICES ASSUME ~ingress PROVE (NoSuppression /\ WarmHasRun /\ ColdOrSecond /\ AnswersShow)'
  BY DEF StartWork, ColdInv
<1> DEFINE w == Worker(k)
<1>1. w \in Workers /\ local[k] \in Locals
  BY DEF TypeOK, Locals, Worker
<1>2. pc'[k] = "working" /\ \A j \in Attempts \ {k} : pc'[j] = pc[j]
  BY DEF StartWork, Jump, TypeOK
<1>3. local'[k].cold = ~WARM[w] /\ local'[k].n = EXECUTIONS[w] + 1
  BY <1>1 DEF StartWork, TypeOK, CountAtStart, Locals
<1>4. \A j \in Attempts \ {k} : local'[j] = local[j]
  BY DEF StartWork, TypeOK
<1>5. /\ WARM' = [WARM EXCEPT ![w] = TRUE]
      /\ EXECUTIONS' = [EXECUTIONS EXCEPT ![w] = @ + 1]
      /\ UNCHANGED <<expired, reply, failed>>
  BY DEF StartWork, client
<1>6. \A v \in Workers : EXECUTIONS[v] \in Nat
  BY DEF TypeOK
<1>7. WarmHasRun'
  BY <1>1, <1>5, <1>6 DEF ColdInv, WarmHasRun, TypeOK
<1>8. ColdOrSecond'
  <2>1. WARM[w] => EXECUTIONS[w] > 0
    BY <1>1 DEF ColdInv, WarmHasRun
  <2>2. WARM[w] => local'[k].n > 1
    BY <1>1, <1>3, <1>6, <2>1
  <2>3. ~WARM[w] => local'[k].cold
    BY <1>3
  <2> QED
    BY <2>2, <2>3, <1>2, <1>4 DEF ColdInv, ColdOrSecond
<1>9. NoSuppression' /\ AnswersShow'
  BY <1>2, <1>4, <1>5 DEF ColdInv, NoSuppression, AnswersShow, Worker
<1> QED
  BY <1>7, <1>8, <1>9

\* Without the ingress a thread ends with its work, done or raised.
LEMMA EndCold ==
    ASSUME TypeOK, ColdInv, NEW k \in Attempts, FinishWork(k) \/ FailWork(k) PROVE ColdInv'
<1>0. UNCHANGED ingress
  BY DEF FinishWork, FailWork
<1> SUFFICES ASSUME ~ingress PROVE (NoSuppression /\ WarmHasRun /\ ColdOrSecond /\ AnswersShow)'
  BY <1>0 DEF ColdInv
<1>1. pc[k] = "working" /\ Worker(k) \in Workers
  BY DEF FinishWork, FailWork, WorkIsOver, TypeOK, Locals, Worker
<1>2. pc'[k] = "returned" /\ \A j \in Attempts \ {k} : pc'[j] = pc[j]
  BY DEF FinishWork, FailWork, AfterFailure, Jump, TypeOK
<1>3. UNCHANGED <<expired, local, EXECUTIONS, WARM>>
  BY DEF FinishWork, FailWork, client
<1>4. \A j \in Attempts \ {k} : reply'[j] = reply[j]
  BY DEF FinishWork, FailWork, Respond, TypeOK
<1>5. \A w \in Workers : failed[w] > 0 => failed'[w] > 0
  <2>1. failed \in [Workers -> Nat]
    BY DEF TypeOK
  <2>2. failed' = failed \/ failed' = [failed EXCEPT ![Worker(k)] = @ + 1]
    BY DEF FinishWork, FailWork
  <2> QED
    BY <1>1, <2>1, <2>2
<1>6. reply'[k].executions > 1 \/ k \in expired \/ failed'[Worker(k)] > 0
  <2>1. CASE FinishWork(k)
    <3>1. reply'[k].executions = local[k].n
      BY <2>1 DEF FinishWork, Respond, TypeOK
    <3> QED
      BY <1>1, <2>1, <3>1 DEF FinishWork, WorkIsOver, ColdInv, ColdOrSecond
  <2>2. CASE FailWork(k)
    BY <1>1, <2>2 DEF FailWork, TypeOK
  <2> QED
    BY <2>1, <2>2
<1>7. \A j \in Attempts : Worker(j) \in Workers /\ Worker(j)' = Worker(j)
  BY <1>3 DEF TypeOK, Locals, Worker
<1>8. AnswersShow'
  BY <1>2, <1>3, <1>4, <1>5, <1>6, <1>7 DEF ColdInv, AnswersShow
<1> QED
  BY <1>2, <1>3, <1>8 DEF ColdInv, NoSuppression, WarmHasRun, ColdOrSecond

LEMMA ColdStep == TypeOK /\ ColdInv /\ [Next]_vars => ColdInv'
<1> SUFFICES ASSUME TypeOK, ColdInv, [Next]_vars PROVE ColdInv'
  OBVIOUS
<1>1. CASE UNCHANGED vars
  BY <1>1 DEF vars, client, tables, ColdInv, NoSuppression, WarmHasRun, ColdOrSecond,
              AnswersShow, Worker
<1>2. ASSUME NEW k \in Attempts,
             ReturnMemo(k) \/ WaitEnds(k) \/ WaitTimesOut(k) \/ SignalEvent(k)
      PROVE  ColdInv'
  <2>1. pc[k] \in {"memoized", "waiting", "signal"} /\ UNCHANGED ingress
    BY <1>2 DEF ReturnMemo, WaitEnds, WaitTimesOut, Unblock, SignalEvent
  <2> QED
    BY <2>1 DEF ColdInv, NoSuppression
<1> QED
  BY <1>1, <1>2, ClientCold, EnterCold, StartCold, EndCold DEF Next, Thread

\* With the ingress and one worker, the work that never raised ran once at most.
LEMMA OneExecution ==
    ASSUME TypeOK, FlightInv, ingress, NEW w, Workers = {w}, failed[w] = 0
    PROVE  ~(TotalExecutions > 1)
<1> DEFINE Runs == UNION {{<<v, i>> : i \in 1..EXECUTIONS[v]} : v \in Workers}
<1>1. EXECUTIONS[w] \in Nat /\ EXECUTIONS[w] <= 1
  BY DEF TypeOK, FlightInv, Counted
<1>2. Runs = {<<w, i>> : i \in 1..EXECUTIONS[w]}
  OBVIOUS
<1>3. CASE EXECUTIONS[w] = 0
  <2>1. Runs = {}
    BY <1>2, <1>3
  <2> QED
    BY <2>1, FS_EmptySet DEF TotalExecutions
<1>4. CASE EXECUTIONS[w] = 1
  <2>1. Runs = {<<w, 1>>}
    BY <1>2, <1>4
  <2>2. Cardinality({<<w, 1>>}) = 1
    BY FS_Singleton
  <2> QED
    BY <2>1, <2>2 DEF TotalExecutions
<1> QED
  BY <1>1, <1>3, <1>4

\* The probe's "one direction of error" does not occur at an agent of one worker
\* process (agent_app.py:75): a call that came back after several executions, none
\* of which raised, reports more than one, for every number of attempts.
THEOREM DuplicatesShow ==
    ASSUME \E w : Workers = {w}
    PROVE  Spec => NoSilentDuplicate
<1> DEFINE Inv == TypeOK /\ FlightInv /\ ColdInv
<1> DEFINE Shows == Receive /\ TotalExecutions > 1 /\ (\A w \in Workers : failed[w] = 0)
                      => record'.reply.executions > 1
<1>1. Init => Inv
  <2>1. Init => ColdInv
    BY DEF Init, ColdInv, NoSuppression, WarmHasRun, ColdOrSecond, AnswersShow
  <2> QED
    BY <2>1, InitTypes, InitFlight
<1>2. Inv /\ [Next]_vars => Inv'
  BY TypeStep, FlightStep, ColdStep
<1>3. Inv => Shows
  <2> SUFFICES ASSUME Inv, Receive, TotalExecutions > 1, \A w \in Workers : failed[w] = 0
               PROVE  record'.reply.executions > 1
    OBVIOUS
  <2>1. ~ingress
    BY OneExecution
  <2>2. sent \in Attempts /\ Worker(sent) \in Workers
    BY DEF TypeOK, Locals, Receive, Attempts, Worker
  <2>3. reply[sent].executions > 1
    BY <2>1, <2>2 DEF ColdInv, AnswersShow, Receive
  <2> QED
    BY <2>3 DEF Receive
<1>4. Spec => []Inv
  <2> HIDE DEF Inv
  <2> QED
    BY <1>1, <1>2, PTL DEF Spec
<1>5. Inv => [Shows]_vars
  BY <1>3
<1> QED
  <2> HIDE DEF Inv, Shows
  <2>1. Spec => [][Shows]_vars
    BY <1>4, <1>5, PTL
  <2> QED
    BY <2>1 DEF Shows, NoSilentDuplicate
=============================================================================

----------------------------- MODULE RetryAgent -----------------------------
(***************************************************************************)
(* The retry probe of anchor/p7 (agent_retry/agent_app.py, the agent, and  *)
(* retry_probe.py, invoke_with_retry): one logical call whose read timeout *)
(* is shorter than the agent's cold work, so that the SDK reissues it and  *)
(* several handler threads of the agent run for one idempotency key.       *)
(*                                                                         *)
(* A thread is named by the wire attempt that caused it.  The platform may *)
(* deliver attempts late, in any order, and to any worker process; the     *)
(* agent's tables are per worker.  Each section under _LOCK is one step,   *)
(* and so is each read or event outside it.  The tables' entries for other *)
(* keys are independent and left out.                                      *)
(***************************************************************************)
EXTENDS Naturals, FiniteSets

CONSTANTS
    max_attempts,   \* sdk_max_attempts
    Workers         \* agent processes

ASSUME AttemptsAssumption == max_attempts \in Nat \ {0}
ASSUME WorkersAssumption == Workers # {}

Attempts == 1..max_attempts

NoOne == 0     \* no attempt: nothing in flight, nobody waited for

VARIABLES
    ingress,      \* the agent-side ingress of the run; fixed
    sent,         \* attempts put on the wire
    expired,      \* attempts whose read timeout has passed
    record,       \* what the logical call recorded
    pc,           \* per thread: "absent" until the attempt reaches the agent
    local,        \* per thread: its worker, entry_count, event, and work
    reply,        \* per thread: its response
    ENTRIES, EXECUTIONS, RESULTS, WARM,   \* per worker
    INFLIGHT,     \* per worker: the attempt whose event is registered
    isSet,        \* per attempt: the event it registered has been set
    failed        \* per worker: runs of the work that raised

client == <<sent, expired, record>>
tables == <<ENTRIES, EXECUTIONS, RESULTS, WARM, INFLIGHT, isSet, failed>>
vars   == <<ingress, client, pc, local, reply, tables>>

Reply == [entry_count : Nat, executions : Nat, executed : BOOLEAN, digest : BOOLEAN]

NoReply == [entry_count |-> 0, executions |-> 0, executed |-> FALSE, digest |-> FALSE]

Record == [status : {"none", "ok", "error"}, reply : Reply]

Locals == [worker : Workers, entry_count : Nat, waitsFor : {NoOne} \cup Attempts,
           cold : BOOLEAN, n : Nat]

Init ==
    /\ ingress \in BOOLEAN
    /\ sent = 0 /\ expired = {}
    /\ record = [status |-> "none", reply |-> NoReply]
    /\ pc = [k \in Attempts |-> "absent"]
    /\ local = [k \in Attempts |-> [worker |-> CHOOSE w \in Workers : TRUE, entry_count |-> 0,
                                    waitsFor |-> NoOne, cold |-> FALSE, n |-> 0]]
    /\ reply = [k \in Attempts |-> NoReply]
    /\ ENTRIES = [w \in Workers |-> 0] /\ EXECUTIONS = [w \in Workers |-> 0]
    /\ RESULTS = [w \in Workers |-> FALSE] /\ WARM = [w \in Workers |-> FALSE]
    /\ INFLIGHT = [w \in Workers |-> NoOne]
    /\ isSet = [k \in Attempts |-> FALSE]
    /\ failed = [w \in Workers |-> 0]

-----------------------------------------------------------------------------
(* The SDK client: attempts are made one after the other *)

Open == record.status = "none"

OpenAttempt == sent

\* Mutant: the client never gives the call up.
givesUpTooLate == sent > max_attempts

GivesUp == sent = max_attempts

\* The next wire attempt: the first one, or a reissue after a read timeout.
Send ==
    /\ Open
    /\ sent < max_attempts
    /\ sent = 0 \/ sent \in expired
    /\ sent' = sent + 1
    /\ UNCHANGED <<ingress, expired, record, pc, local, reply, tables>>

\* ReadTimeoutError; after the last attempt it reaches invoke_with_retry.
ReadTimeout ==
    /\ Open
    /\ sent > 0 /\ sent \notin expired
    /\ expired' = expired \cup {OpenAttempt}
    /\ record' = IF GivesUp THEN [record EXCEPT !.status = "error"] ELSE record
    /\ UNCHANGED <<ingress, sent, pc, local, reply, tables>>

\* The response of the attempt the client is waiting for.
Receive ==
    /\ Open
    /\ sent > 0 /\ sent \notin expired
    /\ pc[sent] = "returned"
    /\ record' = [status |-> "ok", reply |-> reply[sent]]
    /\ UNCHANGED <<ingress, sent, expired, pc, local, reply, tables>>

-----------------------------------------------------------------------------
(* The agent: one thread per attempt *)

Worker(k) == local[k].worker

Jump(k, label) == pc' = [pc EXCEPT ![k] = label]

Respond(k, executions, executed, digest) ==
    reply' = [reply EXCEPT ![k] = [entry_count |-> local[k].entry_count, executions |-> executions,
                                   executed |-> executed, digest |-> digest]]

\* Mutant: an entry that finds the work in flight runs it as well.
ownsAlways(w) == ~RESULTS[w]

\* The first entry without a memoized result and without work in flight.
BecomesOwner(w) == ~RESULTS[w] /\ INFLIGHT[w] = NoOne

\* First section under _LOCK: count the entry, and decide what it does.
Enter(k) ==
    /\ k <= sent
    /\ pc[k] = "absent"
    /\ \E w \in Workers :
         /\ ENTRIES' = [ENTRIES EXCEPT ![w] = @ + 1]
         /\ local' = [local EXCEPT ![k].worker = w, ![k].entry_count = ENTRIES[w] + 1,
                                   ![k].waitsFor = INFLIGHT[w]]
         /\ \/ /\ ingress /\ BecomesOwner(w)
               /\ INFLIGHT' = [INFLIGHT EXCEPT ![w] = k]
               /\ Jump(k, "work")
            \/ /\ ingress /\ ~BecomesOwner(w)
               /\ Jump(k, IF RESULTS[w] THEN "memoized" ELSE "waiting")
               /\ UNCHANGED INFLIGHT
            \/ ~ingress /\ Jump(k, "work") /\ UNCHANGED INFLIGHT
    /\ UNCHANGED <<ingress, client, reply, EXECUTIONS, RESULTS, WARM, isSet, failed>>

\* Suppressed by the memo; the execution count is read outside the lock.
ReturnMemo(k) ==
    /\ pc[k] = "memoized"
    /\ Respond(k, EXECUTIONS[Worker(k)], FALSE, TRUE)
    /\ Jump(k, "returned")
    /\ UNCHANGED <<ingress, client, local, tables>>

\* Single flight: the event was set, or the wait timed out.  The result and the
\* count are read outside the lock.
Unblock(k) ==
    /\ Respond(k, EXECUTIONS[Worker(k)], FALSE, RESULTS[Worker(k)])
    /\ Jump(k, "returned")
    /\ UNCHANGED <<ingress, client, local, tables>>

WaitEnds(k)     == pc[k] = "waiting" /\ isSet[local[k].waitsFor] /\ Unblock(k)
WaitTimesOut(k) == pc[k] = "waiting" /\ ~isSet[local[k].waitsFor] /\ Unblock(k)

\* Mutant: the count is read before it is raised.
countBefore(w) == EXECUTIONS[w]

CountAtStart(w) == EXECUTIONS[w] + 1

\* _work: the execution is counted where it starts.
StartWork(k) ==
    /\ pc[k] = "work"
    /\ LET w == Worker(k) IN
         /\ local' = [local EXCEPT ![k].cold = ~WARM[w], ![k].n = CountAtStart(w)]
         /\ WARM' = [WARM EXCEPT ![w] = TRUE]
         /\ EXECUTIONS' = [EXECUTIONS EXCEPT ![w] = @ + 1]
    /\ Jump(k, "working")
    /\ UNCHANGED <<ingress, client, reply, ENTRIES, RESULTS, INFLIGHT, isSet, failed>>

\* The cold work is longer than the client's read timeout (main refuses else).
WorkIsOver(k) == pc[k] = "working" /\ (local[k].cold => k \in expired)

\* Mutant: the result is not memoized.
notMemoized(w) == RESULTS

Memoized(w) == [RESULTS EXCEPT ![w] = TRUE]

\* The result is memoized and the work is no longer in flight.
FinishWork(k) ==
    /\ WorkIsOver(k)
    /\ Respond(k, local[k].n, TRUE, TRUE)
    /\ LET w == Worker(k) IN
         IF ingress
         THEN /\ RESULTS' = Memoized(w)
              /\ INFLIGHT' = [INFLIGHT EXCEPT ![w] = NoOne]
              /\ Jump(k, "signal")
         ELSE Jump(k, "returned") /\ UNCHANGED <<RESULTS, INFLIGHT>>
    /\ UNCHANGED <<ingress, client, local, ENTRIES, EXECUTIONS, WARM, isSet, failed>>

\* Mutant: a failing owner returns without waking those who wait for it.
failQuietly == "returned"

\* After a failure of the owner, too, the event is set.
AfterFailure == IF ingress THEN "signal" ELSE "returned"

\* The work raises: the response has no execution count and no digest.
FailWork(k) ==
    /\ pc[k] = "working"
    /\ Respond(k, 0, FALSE, FALSE)
    /\ LET w == Worker(k) IN
         /\ failed' = [failed EXCEPT ![w] = @ + 1]
         /\ INFLIGHT' = IF ingress THEN [INFLIGHT EXCEPT ![w] = NoOne] ELSE INFLIGHT
    /\ Jump(k, AfterFailure)
    /\ UNCHANGED <<ingress, client, local, ENTRIES, EXECUTIONS, RESULTS, WARM, isSet>>

\* ev.set(), outside the lock.
SignalEvent(k) ==
    /\ pc[k] = "signal"
    /\ isSet' = [isSet EXCEPT ![k] = TRUE]
    /\ Jump(k, "returned")
    /\ UNCHANGED <<ingress, client, local, reply, ENTRIES, EXECUTIONS, RESULTS, WARM, INFLIGHT, failed>>

Thread(k) ==
    \/ ReturnMemo(k) \/ WaitEnds(k) \/ StartWork(k)
    \/ FinishWork(k) \/ FailWork(k) \/ SignalEvent(k)

Next ==
    \/ Send \/ ReadTimeout \/ Receive
    \/ \E k \in Attempts : Enter(k) \/ Thread(k) \/ WaitTimesOut(k)

\* Started threads run on, and the client does not wait for ever.  Nothing is
\* assumed of the delivery of an attempt or of the timeout of a wait.
Spec ==
    /\ Init /\ [][Next]_vars
    /\ WF_vars(Send) /\ WF_vars(ReadTimeout)
    /\ \A k \in Attempts : WF_vars(Thread(k))

-----------------------------------------------------------------------------
(* Properties *)

TypeOK ==
    /\ ingress \in BOOLEAN
    /\ sent \in 0..max_attempts /\ expired \subseteq 1..sent
    /\ record \in Record
    /\ pc \in [Attempts -> {"absent", "memoized", "waiting", "work", "working",
                            "signal", "returned"}]
    /\ local \in [Attempts -> Locals]
    /\ reply \in [Attempts -> Reply]
    /\ ENTRIES \in [Workers -> Nat] /\ EXECUTIONS \in [Workers -> Nat]
    /\ RESULTS \in [Workers -> BOOLEAN] /\ WARM \in [Workers -> BOOLEAN]
    /\ INFLIGHT \in [Workers -> {NoOne} \cup Attempts]
    /\ isSet \in [Attempts -> BOOLEAN]
    /\ failed \in [Workers -> Nat]

\* "Single flight": with the ingress on, two threads of one worker never run the
\* work at the same time, and it is run again only after it raised.
SingleFlight ==
    ingress =>
        /\ \A j, k \in Attempts :
             /\ pc[j] \in {"work", "working"} /\ pc[k] \in {"work", "working"}
             /\ Worker(j) = Worker(k)
             => j = k
        /\ \A w \in Workers : EXECUTIONS[w] <= 1 + failed[w]

\* A suppressed duplicate returns the first entry's result: it may lack one only
\* when the work it waited for failed or the wait timed out.
SuppressedCarriesResult ==
    [][\A k \in Attempts : WaitEnds(k) =>
          reply'[k].digest \/ failed[Worker(k)] > 0]_vars

\* "The one direction of error this probe must not have": a call that came back
\* never reports a single execution where there had been several.
TotalExecutions ==
    Cardinality(UNION {{<<w, i>> : i \in 1..EXECUTIONS[w]} : w \in Workers})

NoSilentDuplicate ==
    [][Receive /\ TotalExecutions > 1 /\ (\A w \in Workers : failed[w] = 0)
          => record'.reply.executions > 1]_vars

\* No thread waits for ever for an owner that has gone, even if no wait times out.
WaitersWake ==
    \A k \in Attempts : pc[k] = "waiting" ~> pc[k] = "returned"

\* Every logical call is recorded in the end.
CallEnds == <>(record.status # "none")
=============================================================================

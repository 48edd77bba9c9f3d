----------------------------- MODULE BridgeProbe -----------------------------
(***************************************************************************)
(* The live bridge probe (anchor/p7/bridge_probe.py, run_probe): a         *)
(* subscriber of a replayable event channel forwards tasks to an agent.    *)
(* The subscriber keeps a durable replay cursor, which it advances after   *)
(* each event; an injected crash between the invocation and the advance    *)
(* makes the channel redeliver the event.                                  *)
(*                                                                         *)
(* The channel is the sequence Stream of retained events; the cursor       *)
(* durable_replay is the number of events behind it (the code's -2 is 0).  *)
(* Sessions end by a refused poll, by starvation, or by a crash.           *)
(***************************************************************************)
EXTENDS Integers, Sequences

CONSTANTS
    N,            \* n_tasks
    Stream,       \* the channel's events: task numbers, 0 for one of another run
    max_crashes

ASSUME TasksAssumption == N \in Nat /\ max_crashes \in Nat
ASSUME StreamAssumption == Stream \in Seq(0..N)
\* publish_tasks has put every task into the channel, in order.
ASSUME PublishedAssumption ==
    /\ \A t \in 1..N : \E k \in 1..Len(Stream) : Stream[k] = t
    /\ \A j, k \in 1..Len(Stream) : j < k /\ Stream[k] # 0 => Stream[j] < Stream[k]

VARIABLES
    ingress_on,       \* the idempotent ingress of the bridge; fixed
    session,          \* "none", "connected", or "batch": events in hand
    batchEnd,         \* the last event of the batch in hand
    durable_replay,   \* the replay cursor
    processed,        \* the ingress's set of task ids
    invocations,      \* tasks the agent was invoked with, in order
    deliveries,       \* deliveries of this run's tasks
    crashes,
    late,             \* max_run_seconds have passed
    outcome           \* "running", "done", "timed_out" or "aborted"

vars == <<ingress_on, session, batchEnd, durable_replay, processed, invocations,
          deliveries, crashes, late, outcome>>

Init ==
    /\ ingress_on \in BOOLEAN
    /\ session = "none"
    /\ batchEnd = 0
    /\ durable_replay = 0
    /\ processed = {}
    /\ invocations = <<>>
    /\ deliveries = 0
    /\ crashes = 0
    /\ late = FALSE
    /\ outcome = "running"

progress == <<processed, invocations, deliveries, crashes>>

Running(state) == outcome = "running" /\ session = state

-----------------------------------------------------------------------------
(* The session *)

\* Mutant: every session subscribes from the start of the retention window.
resumeFromStart == 0

\* Where a session's subscription starts.
ResumeAt == durable_replay

\* handshake, then subscribe from the durable cursor.
Establish ==
    /\ Running("none")
    /\ session' = "connected"
    /\ durable_replay' = ResumeAt
    /\ UNCHANGED <<ingress_on, batchEnd, progress, late, outcome>>

\* connect() is answered successful=false: handshake again.
SessionLost ==
    /\ Running("connected")
    /\ session' = "none"
    /\ UNCHANGED <<ingress_on, batchEnd, durable_replay, progress, late, outcome>>

\* The server pushes the next events after those it has sent in this session,
\* all of which are behind the cursor.
ReceiveBatch ==
    /\ Running("connected")
    /\ batchEnd' \in durable_replay + 1 .. Len(Stream)
    /\ session' = "batch"
    /\ UNCHANGED <<ingress_on, durable_replay, progress, late, outcome>>

\* Mutant: the invocations are counted, not the distinct tasks.
countInvocations == Len(invocations) >= N

AllInvoked == \A t \in 1..N : \E k \in 1..Len(invocations) : invocations[k] = t

\* Mutant: the clock is looked at only when no task is outstanding.
timeUpWhenDrained == late /\ 1..N \subseteq processed

TimeIsUp == late

\* A poll without events: the run is over when all is invoked and the channel
\* has been quiet, or when its time is up; a starved session is given up.
EmptyPoll ==
    /\ Running("connected")
    /\ \E quiet, starved \in BOOLEAN :
         \/ /\ AllInvoked /\ quiet
            /\ outcome' = "done"
            /\ session' = "none"
         \/ /\ ~(AllInvoked /\ quiet)
            /\ TimeIsUp
            /\ outcome' = "timed_out"
            /\ session' = "none"
         \/ /\ ~(AllInvoked /\ quiet) /\ ~TimeIsUp
            /\ session' = IF starved /\ ~(1..N \subseteq processed)
                          THEN "none" ELSE "connected"
            /\ UNCHANGED outcome
    /\ UNCHANGED <<ingress_on, batchEnd, durable_replay, progress, late>>

-----------------------------------------------------------------------------
(* One event of the batch *)

InHand == Stream[durable_replay + 1]

\* Mutant: the cursor jumps to the end of the batch.
advanceToBatchEnd ==
    /\ durable_replay' = batchEnd
    /\ session' = "connected"

\* The cursor moves behind the event; after the last one the next poll follows.
Advance ==
    /\ durable_replay' = durable_replay + 1
    /\ session' = IF durable_replay + 1 = batchEnd THEN "connected" ELSE "batch"

\* An event of another run, or of an earlier attempt.
SkipForeign ==
    /\ Running("batch")
    /\ InHand = 0
    /\ Advance
    /\ UNCHANGED <<ingress_on, batchEnd, progress, late, outcome>>

\* ingress_on and dup
Swallows == ingress_on /\ InHand \in processed

SwallowDuplicate ==
    /\ Running("batch")
    /\ InHand # 0
    /\ Swallows
    /\ deliveries' = deliveries + 1
    /\ Advance
    /\ UNCHANGED <<ingress_on, batchEnd, processed, invocations, crashes, late, outcome>>

\* Mutant: the bound on the crashes is off by one.
crashOnceMore == crashes <= max_crashes

MayCrash == crashes < max_crashes

\* Mutant: the id is recorded only when the cursor has moved.
recordLate(crashed) == IF crashed THEN processed ELSE processed \cup {InHand}

\* processed is updated before the crash point.
Recorded(crashed) == processed \cup {InHand}

\* The agent is invoked; then the cursor moves, or a crash abandons the session
\* with the cursor where it was.
InvokeAgent ==
    /\ Running("batch")
    /\ InHand # 0
    /\ ~Swallows
    /\ deliveries' = deliveries + 1
    /\ invocations' = Append(invocations, InHand)
    /\ \/ /\ processed' = Recorded(FALSE)
          /\ Advance
          /\ UNCHANGED crashes
       \/ /\ MayCrash
          /\ processed' = Recorded(TRUE)
          /\ crashes' = crashes + 1
          /\ session' = "none"
          /\ UNCHANGED durable_replay
    /\ UNCHANGED <<ingress_on, batchEnd, late, outcome>>

-----------------------------------------------------------------------------
(* The surroundings *)

\* An HTTP or agent call raises: nothing in run_probe catches it.
Abort ==
    /\ outcome = "running"
    /\ session = "batch" => InHand # 0 /\ ~Swallows
    /\ outcome' = "aborted"
    /\ session' = "none"
    /\ deliveries' = IF session = "batch" THEN deliveries + 1 ELSE deliveries
    /\ UNCHANGED <<ingress_on, batchEnd, durable_replay, processed, invocations, crashes, late>>

ClockPasses ==
    /\ outcome = "running"
    /\ ~late
    /\ late' = TRUE
    /\ UNCHANGED <<ingress_on, session, batchEnd, durable_replay, progress, outcome>>

HandleEvent == SkipForeign \/ SwallowDuplicate \/ InvokeAgent

Next ==
    \/ Establish \/ SessionLost \/ ReceiveBatch \/ EmptyPoll
    \/ HandleEvent \/ Abort \/ ClockPasses

Spec == Init /\ [][Next]_vars

\* The probe is one loop, every poll gets some answer, and time passes.
FairSpec ==
    /\ Spec
    /\ WF_vars(Establish) /\ WF_vars(HandleEvent) /\ WF_vars(ClockPasses)
    /\ WF_vars(SessionLost \/ ReceiveBatch \/ EmptyPoll)

\* Moreover, the server does not refuse every poll from some time on.
ServedSpec == FairSpec /\ SF_vars(EmptyPoll)

-----------------------------------------------------------------------------
(* Properties *)

\* The highest task invoked so far.
HighWater == IF invocations = <<>> THEN 0 ELSE invocations[Len(invocations)]

TypeOK ==
    /\ ingress_on \in BOOLEAN
    /\ session \in {"none", "connected", "batch"}
    /\ batchEnd \in 0..Len(Stream)
    /\ durable_replay \in 0..Len(Stream)
    /\ processed \subseteq 1..N
    /\ invocations \in Seq(1..N)
    /\ deliveries \in Nat
    /\ crashes \in 0..max_crashes
    /\ late \in BOOLEAN
    /\ outcome \in {"running", "done", "timed_out", "aborted"}

\* With the ingress no task reaches the agent twice, whatever crashes, lost
\* sessions and redeliveries happen.
NoDuplicateInvocation ==
    ingress_on => \A j, k \in 1..Len(invocations) : invocations[j] = invocations[k] => j = k

\* Every duplicate is accounted for by a crash of its own, and so is every
\* redelivery of the channel, but for the invocation an abort cut off.
DuplicatesBoundedByCrashes ==
    /\ Len(invocations) - HighWater <= crashes
    /\ outcome # "aborted" => deliveries - HighWater <= crashes

\* The cursor never passes an event whose task the agent has not received.
CursorNeverSkips ==
    \A k \in 1..durable_replay :
        Stream[k] # 0 => \E j \in 1..Len(invocations) : invocations[j] = Stream[k]

\* What the summary of a finished run reports accounts for its crashes exactly:
\* each made the channel deliver one task again, but for a crash on the last task
\* when the run ended with its event unread; a redelivery reached the agent as a
\* duplicate invocation without the ingress, and never with it.
SummaryAccounts ==
    outcome = "done" =>
        LET redeliveries == deliveries - N
            duplicates   == Len(invocations) - N
            unread       == \E k \in durable_replay + 1 .. Len(Stream) : Stream[k] # 0
        IN  /\ redeliveries = IF unread THEN crashes - 1 ELSE crashes
            /\ duplicates = IF ingress_on THEN 0 ELSE redeliveries

\* The agent sees a task ledger: order kept, repeats only of the latest task,
\* none with the ingress, never more than the crashes allowed.
Ledger == INSTANCE TaskLedger WITH
    MaxRepeats   <- max_crashes,
    log          <- invocations,
    repeats      <- Len(invocations) - HighWater,
    allowRepeats <- ~ingress_on

LedgerRefined == Ledger!LedgerSpec

\* "bounded by max_run_seconds": a run ends.
RunEnds == <>(outcome # "running")
-----------------------------------------------------------------------------
(* The inductive invariant behind the safety properties: the invoked tasks *)
(* are a prefix of the tasks, and all of them lie before the cursor or are *)
(* the one event right behind it.                                          *)

BatchAhead == session = "batch" => durable_replay < batchEnd

InvokedPrefix ==
    /\ HighWater \in 0..N
    /\ processed = 1..HighWater
    /\ \A j \in 1..Len(invocations) : invocations[j] <= HighWater
    /\ \A t \in 1..HighWater : \E j \in 1..Len(invocations) : invocations[j] = t

CursorBehind == \A k \in 1..durable_replay : Stream[k] <= HighWater

InvokedUpToCursor ==
    \A t \in 1..HighWater :
        \E k \in 1..Len(Stream) : k <= durable_replay + 1 /\ Stream[k] = t

\* The event behind the cursor was invoked already: a crash left it there.
Pending ==
    IF durable_replay < Len(Stream) /\ InHand \in 1..HighWater THEN 1 ELSE 0

\* Each crash led to a redelivery, or its event is pending.
CrashesPaid ==
    /\ Len(invocations) - HighWater + Pending <= crashes
    /\ ~ingress_on => Len(invocations) - HighWater + Pending = crashes
    /\ outcome # "aborted" => deliveries - HighWater + Pending = crashes

DoneInvokedAll == outcome = "done" => HighWater = N

OnceWithIngress == ingress_on => \A j \in 1..Len(invocations) : invocations[j] = j

Inv ==
    /\ TypeOK /\ BatchAhead /\ InvokedPrefix /\ CursorBehind
    /\ InvokedUpToCursor /\ CrashesPaid /\ OnceWithIngress /\ DoneInvokedAll
=============================================================================

---------------------------- MODULE Adjudication ----------------------------
(***************************************************************************)
(* The pause and resume operations of P6 (patterns/p6_hitl.py) as public   *)
(* operations of one pattern object: requests of the pattern pause and     *)
(* resume their own item, and a caller may pause an item, pause it again,  *)
(* and resume in any order in between.                                     *)
(*                                                                         *)
(* A pause is named by its number; the number stands for the draft and the *)
(* confidence that it saves.                                               *)
(***************************************************************************)
EXTENDS Integers, Sequences

CONSTANTS
    Drafted,        \* ids of the items drafted
    MaxPauses       \* bound: pauses attempted

ASSUME AdjudicationAssumption == MaxPauses \in Nat

VARIABLES
    on_bedrock,     \* the platform of the pattern
    store,          \* AgentCore memory: per item the pause it keeps, or 0
    paused_state,   \* _paused: per item the pause it holds, or 0
    queue,          \* the Omni-Channel "adjudication" queue
    decisions,      \* decision_log: the pauses decided, in order
    pauses,         \* pauses attempted
    in_request      \* the item whose request waits for its human, or 0

adjVars == <<on_bedrock, store, paused_state, queue, decisions, pauses, in_request>>

AdjInit ==
    /\ on_bedrock \in BOOLEAN
    /\ store = [i \in Drafted |-> 0] /\ paused_state = [i \in Drafted |-> 0]
    /\ queue = <<>> /\ decisions = <<>> /\ pauses = 0 /\ in_request = 0

\* Mutant: the token is registered whether or not the state was stored.
pausedUnstored(i, ok) == [paused_state EXCEPT ![i] = pauses + 1]
\* A failed memory_put raises before the token is registered.
Paused(i, ok) == IF ok THEN [paused_state EXCEPT ![i] = pauses + 1] ELSE paused_state

\* ok: the call to the memory store or to the human queue succeeded.
pause(i, ok) ==
    /\ pauses < MaxPauses /\ pauses' = pauses + 1
    /\ IF on_bedrock
       THEN /\ store' = IF ok THEN [store EXCEPT ![i] = pauses + 1] ELSE store
            /\ paused_state' = Paused(i, ok)
            /\ UNCHANGED queue
       ELSE /\ queue' = IF ok THEN <<i>> ELSE <<>>
            /\ paused_state' = [paused_state EXCEPT ![i] = pauses + 1]
            /\ UNCHANGED store
    /\ UNCHANGED <<on_bedrock, decisions>>

\* Mutant: the token stays registered.
kept(i) == paused_state
\* pop: the token is spent.
Popped(i) == [paused_state EXCEPT ![i] = 0]

\* Unknown tokens raise KeyError.
resume(i) ==
    /\ paused_state[i] # 0
    /\ decisions' = Append(decisions, [item |-> i, pause |-> paused_state[i]])
    /\ paused_state' = Popped(i)
    /\ UNCHANGED <<on_bedrock, store, queue, pauses>>

\* A request below the threshold pauses its item and, once its human has
\* decided, resumes it; a failed memory_put ends it.
RequestPauses(i, ok) ==
    /\ in_request = 0
    /\ pause(i, ok)
    /\ in_request' = IF on_bedrock /\ ~ok THEN 0 ELSE i

RequestResumes ==
    /\ in_request # 0
    /\ resume(in_request)
    /\ in_request' = 0

\* Between requests a caller uses the operations directly.
CallerPauses(i, ok) == in_request = 0 /\ pause(i, ok) /\ UNCHANGED in_request
CallerResumes(i)    == in_request = 0 /\ resume(i) /\ UNCHANGED in_request

AdjNext ==
    \/ \E i \in Drafted :
        \/ \E ok \in BOOLEAN : RequestPauses(i, ok) \/ CallerPauses(i, ok)
        \/ CallerResumes(i)
    \/ RequestResumes

AdjSpec == AdjInit /\ [][AdjNext]_adjVars

-----------------------------------------------------------------------------
(***************************************************************************)
(* A pause is decided once at most, and an item's decisions follow its     *)
(* pauses: a state overwritten by a later pause of the same item is never  *)
(* decided after it (p6_hitl.py:90, "apply the human decision to a paused  *)
(* run").                                                                  *)
(***************************************************************************)
DecidedOncePerPause ==
    \A k, n \in DOMAIN decisions :
        k < n /\ decisions[k].item = decisions[n].item =>
            decisions[k].pause < decisions[n].pause

(***************************************************************************)
(* On Bedrock what a token holds is what the store holds: a pause that     *)
(* could not be persisted leaves neither a token nor a change of the last  *)
(* one (p6_hitl.py:65, "paused state must be durable").                    *)
(***************************************************************************)
PausedIsDurable ==
    on_bedrock => \A i \in Drafted : paused_state[i] \in {0, store[i]}
=============================================================================

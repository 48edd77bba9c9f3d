------------------------------ MODULE Governor ------------------------------
(***************************************************************************)
(* The governance demonstration (governance/hitl_example.py): a confidence *)
(* gate routes drafts to a human stub and writes every event to a hash-    *)
(* chained, append-only audit log, which halt() closes for good.           *)
(*                                                                         *)
(* The human stub is a callback that holds the governor: before it decides *)
(* it may press the emergency stop, have another draft reviewed, or fail.  *)
(* An entry's hash commits to its content and to the entry before it: it   *)
(* is the pair of those, so hashes are equal exactly when all they commit  *)
(* to is.                                                                  *)
(***************************************************************************)
EXTENDS Integers, FiniteSets, Sequences, SequencesExt

CONSTANTS
    Items,          \* items under review
    MaxDrafts,      \* bound: reviews asked for
    MaxNesting      \* bound: reviews waiting for their human at once

ASSUME GovernorAssumption == MaxDrafts \in Nat /\ MaxNesting \in Nat

VARIABLES
    log,            \* AuditLog._entries
    halted,         \* AuditLog._halted
    waiting,        \* reviews inside the human stub, the innermost last
    returned        \* history: the dispositions handed to callers, in order

govVars == <<log, halted, waiting, returned>>

Genesis == <<>>
_hash_entry(index, event, item, prev) == <<index, event, item, prev>>
LastHash(l) == IF l = <<>> THEN Genesis ELSE Last(l).entry_hash

Entry(index, event, item, prev) ==
    [index |-> index, event |-> event, item |-> item, prev |-> prev,
     entry_hash |-> _hash_entry(index, event, item, prev)]
Appended(l, event, item) == Append(l, Entry(Len(l), event, item, LastHash(l)))

verify_chain(l) ==
    \A i \in DOMAIN l :
        /\ l[i].index = i - 1
        /\ l[i].prev = IF i = 1 THEN Genesis ELSE l[i - 1].entry_hash
        /\ l[i].entry_hash = _hash_entry(i - 1, l[i].event, l[i].item, l[i].prev)

GovInit == log = <<>> /\ halted = FALSE /\ waiting = <<>> /\ returned = <<>>

(***************************************************************************)
(* Steps: what runs between two calls of the stub                          *)
(***************************************************************************)
Drafts == Cardinality({k \in DOMAIN log : log[k].event = "draft_produced"})

\* A draft and where the gate sends it.
Routed(i, event) == Appended(Appended(log, "draft_produced", i), event, i)

\* Mutant: the stop refuses work while nobody waits for a human.
openWhileWaiting == ~halted \/ waiting # <<>>
\* append raises on a halted log, and the raise leaves review.
Open == ~halted

\* A confident draft is approved without a human.
AutoApprove(i) ==
    /\ Open
    /\ log' = Routed(i, "auto_approved")
    /\ returned' = Append(returned, [item |-> i, disposition |-> "auto_approved"])
    /\ UNCHANGED <<halted, waiting>>

RouteToStub(i) ==
    /\ Open /\ Len(waiting) < MaxNesting
    /\ log' = Routed(i, "routed_to_human")
    /\ waiting' = Append(waiting, i)
    /\ UNCHANGED <<halted, returned>>

\* Mutant: a nested review leaves its item to be logged for the outer one.
outermost == Head(waiting)
\* The item of the review the stub answers.
Reviewed == Last(waiting)

\* The stub answered: the decision is logged, then handed out.
Decide(d) ==
    /\ waiting # <<>> /\ Open
    /\ log' = Appended(log, "human_decision", Reviewed)
    /\ returned' = Append(returned, [item |-> Last(waiting), disposition |-> d])
    /\ waiting' = Front(waiting)
    /\ UNCHANGED halted

\* The stub raised, answered neither approve nor reject, or the log refused.
ReviewFails ==
    /\ waiting # <<>>
    /\ waiting' = Front(waiting)
    /\ UNCHANGED <<log, halted, returned>>

Halt ==
    /\ Open
    /\ log' = Appended(log, "halt", "none")
    /\ halted' = TRUE
    /\ UNCHANGED <<waiting, returned>>

GovNext ==
    \/ \E i \in Items : Drafts < MaxDrafts /\ (AutoApprove(i) \/ RouteToStub(i))
    \/ \E d \in {"approve", "reject"} : Decide(d)
    \/ ReviewFails
    \/ Halt

GovSpec == GovInit /\ [][GovNext]_govVars

-----------------------------------------------------------------------------
Logged(l, event, i) ==
    Cardinality({k \in DOMAIN l : l[k].event = event /\ l[k].item = i})
HandedOut(r, i, how) ==
    Cardinality({k \in DOMAIN r : r[k].item = i /\ r[k].disposition \in how})
InStub(w, i) == Cardinality({k \in DOMAIN w : w[k] = i})

(***************************************************************************)
(* Whatever was handed out for an item is in the log, as often and after   *)
(* its draft and its routing, although reviews nest in one another's human *)
(* stub, fail or meet the stop; and the chain verifies (verify_chain).     *)
(***************************************************************************)
TrailComplete ==
    /\ verify_chain(log)
    /\ \A i \in Items :
        /\ HandedOut(returned, i, {"auto_approved"}) = Logged(log, "auto_approved", i)
        /\ HandedOut(returned, i, {"approve", "reject"}) = Logged(log, "human_decision", i)
        /\ Logged(log, "draft_produced", i) =
             Logged(log, "auto_approved", i) + Logged(log, "routed_to_human", i)
        /\ Logged(log, "human_decision", i) + InStub(waiting, i)
             <= Logged(log, "routed_to_human", i)

(***************************************************************************)
(* After the emergency stop nothing is logged and no disposition reaches a *)
(* caller, not even of a review whose human is deciding as it is pressed   *)
(* (hitl_example.py:10, "halt() stops the chain mid-stream").              *)
(***************************************************************************)
EmergencyStop == [][halted => halted' /\ UNCHANGED <<log, returned>>]_govVars
=============================================================================

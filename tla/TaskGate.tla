------------------------------ MODULE TaskGate ------------------------------
(***************************************************************************)
(* The task gate of the seven-pattern effort (orchestration/all7): prd.json*)
(* is generated from the backlog (gen_prd.py) and tasks are marked passing *)
(* in it (mark.py), which refuses a task whose dependencies do not pass    *)
(* and a human-gated task without a named approver.                        *)
(*                                                                         *)
(* Nothing locks prd.json: marks and a generation may overlap, and a mark  *)
(* may die between its two writes.                                         *)
(***************************************************************************)
EXTENDS Integers, FiniteSets, Sequences

CONSTANTS
    Backlogs,       \* sequences of tasks [id, depends_on, gate, complete]
    Marks,          \* the runs of mark.py
    Regenerations   \* bound: runs of gen_prd.py

Gates == {"AUTO", "HUMAN-REVIEW-REQUIRED"}

\* complete: every field is there, the done-check is verifiable, or flagged for
\* a human where the gate is human.
Task == [id : Nat, depends_on : SUBSET Nat, gate : Gates, complete : BOOLEAN]

ASSUME BacklogAssumption ==
    /\ Regenerations \in Nat
    /\ Backlogs \subseteq Seq(Task)

VARIABLES
    backlog,        \* BACKLOG.md
    prd,            \* prd.json: whether it is there, and the ids that pass
    progress,       \* progress.txt: the ids marked, and if an approver is named
    marking,        \* per run of mark.py: where it is, and what it holds
    unrecorded,     \* history: marks that died before they were recorded
    generated       \* runs of gen_prd.py

gateVars == <<backlog, prd, progress, marking, unrecorded, generated>>

Ids        == {backlog[i].id : i \in DOMAIN backlog}
task(t)    == backlog[CHOOSE i \in DOMAIN backlog : backlog[i].id = t]
depends(t) == task(t).depends_on
human      == {t \in Ids : task(t).gate = "HUMAN-REVIEW-REQUIRED"}

AtRest == [at |-> "start", ids |-> {}, approved |-> FALSE, passing |-> {}]

GateInit ==
    /\ backlog \in Backlogs
    /\ prd = [there |-> FALSE, passing |-> {}]
    /\ progress = {} /\ unrecorded = {}
    /\ marking = [m \in Marks |-> AtRest]
    /\ generated = 0

(***************************************************************************)
(* gen_prd                                                                 *)
(***************************************************************************)
\* Mutant: dependencies are only looked up among all tasks.
checkUnordered(b) ==
    \A i \in DOMAIN b :
        /\ \A j \in 1..(i - 1) : b[j].id # b[i].id
        /\ b[i].complete
        /\ \A d \in b[i].depends_on : \E j \in DOMAIN b : b[j].id = d

\* No id twice, every field in order, and only earlier tasks with a smaller id
\* to depend on.
check(b) ==
    \A i \in DOMAIN b :
        /\ \A j \in 1..(i - 1) : b[j].id # b[i].id
        /\ b[i].complete
        /\ \A d \in b[i].depends_on :
            d < b[i].id /\ \E j \in 1..(i - 1) : b[j].id = d

Generate ==
    /\ generated < Regenerations /\ generated' = generated + 1
    /\ check(backlog)
    /\ prd' = [there |-> TRUE, passing |-> {}]
    /\ UNCHANGED <<backlog, progress, marking, unrecorded>>

(***************************************************************************)
(* mark                                                                    *)
(***************************************************************************)
\* Mutant: approval is asked only when every id is human-gated.
approvedForAllHuman(ids, approved) == (\E t \in ids : t \notin human) \/ approved
Approved(ids, approved) == ids \cap human # {} => approved

\* Mutant: an approver's word stands for the dependencies.
approverOverrides(ids, m) ==
    marking[m].approved \/ \A t \in ids : depends(t) \subseteq marking[m].passing \cup ids
\* Dependencies pass, or are marked together with what depends on them.
DependenciesMet(ids, m) ==
    \A t \in ids : depends(t) \subseteq marking[m].passing \cup ids

Read(m, ids, approved) ==
    /\ marking[m].at = "start" /\ prd.there
    /\ ids # {}
    /\ marking' = [marking EXCEPT ![m] = [at |-> "check", ids |-> ids, approved |-> approved,
                                          passing |-> prd.passing]]
    /\ UNCHANGED <<backlog, prd, progress, unrecorded, generated>>

\* The file as it was read, with the ids passing, replaces the file.
Write(m) ==
    /\ marking[m].at = "check"
    /\ marking[m].ids \subseteq Ids
    /\ Approved(marking[m].ids, marking[m].approved)
    /\ DependenciesMet(marking[m].ids, m)
    /\ prd' = [there |-> TRUE, passing |-> marking[m].passing \cup marking[m].ids]
    /\ marking' = [marking EXCEPT ![m].at = "record"]
    /\ UNCHANGED <<backlog, progress, unrecorded, generated>>

Record(m) ==
    /\ marking[m].at = "record"
    /\ progress' = progress \cup {[ids |-> marking[m].ids, approved |-> marking[m].approved]}
    /\ marking' = [marking EXCEPT ![m] = [AtRest EXCEPT !.at = "done"]]
    /\ UNCHANGED <<backlog, prd, unrecorded, generated>>

\* A refusal, or the death of the run.
GivesUpMark(m) ==
    /\ marking[m].at \in {"check", "record"}
    /\ unrecorded' = unrecorded \cup
                        IF marking[m].at = "record" THEN {marking[m].ids} ELSE {}
    /\ marking' = [marking EXCEPT ![m] = [AtRest EXCEPT !.at = "done"]]
    /\ UNCHANGED <<backlog, prd, progress, generated>>

\* Any ids of the backlog, or an unknown one.
Requests == SUBSET (Ids \cup {0})

GateNext ==
    \/ Generate
    \/ \E m \in Marks :
        \/ \E ids \in Requests, approved \in BOOLEAN : Read(m, ids, approved)
        \/ Write(m) \/ Record(m) \/ GivesUpMark(m)

GateSpec == GateInit /\ [][GateNext]_gateVars

-----------------------------------------------------------------------------
GateTypeOK ==
    /\ backlog \in Backlogs
    /\ prd \in [there : BOOLEAN, passing : SUBSET Ids]
    /\ marking \in [Marks -> [at : {"start", "check", "record", "done"},
                              ids : SUBSET (Ids \cup {0}), approved : BOOLEAN,
                              passing : SUBSET Ids]]
    /\ generated \in 0..Regenerations

(***************************************************************************)
(* No task passes before what it depends on (mark.py:3), although several  *)
(* ids are marked at once, two marks overwrite each other's file, and the  *)
(* file may be generated again under them.                                 *)
(***************************************************************************)
DependenciesPass == \A t \in prd.passing : depends(t) \subseteq prd.passing

(***************************************************************************)
(* A human-gated task passes only with an approver named in the record     *)
(* (mark.py:23, "approved is never something the agent quietly assumed"),  *)
(* or the mark that cleared it has not come to its record, or died there.  *)
(***************************************************************************)
GateClearedByHuman ==
    \A t \in prd.passing \cap human :
        \/ \E e \in progress : t \in e.ids /\ e.approved
        \/ \E m \in Marks : marking[m].at = "record" /\ t \in marking[m].ids
        \/ \E ids \in unrecorded : t \in ids

(***************************************************************************)
(* The gate never locks everyone out: while a task does not pass, one of   *)
(* those has all its dependencies passing (mark.py:58 names it as next).   *)
(***************************************************************************)
AlwaysEligible ==
    prd.there /\ prd.passing # Ids =>
        \E t \in Ids \ prd.passing : depends(t) \subseteq prd.passing
=============================================================================

-------------------------- MODULE OversightProofs ---------------------------
(***************************************************************************)
(* Proofs about the three gates, for every backlog, every number of runs   *)
(* of mark.py, every sequence of reviews and every sequence of pauses.     *)
(***************************************************************************)
EXTENDS Oversight, FiniteSetTheorems, SequenceTheorems, WellFoundedInduction, TLAPS

-----------------------------------------------------------------------------
(* The task gate *)

Closed(passing) == \A t \in passing : depends(t) \subseteq passing

Cleared(t) ==
    \/ \E e \in progress : t \in e.ids /\ e.approved
    \/ \E m \in Marks : marking[m].at = "record" /\ t \in marking[m].ids
    \/ \E ids \in unrecorded : t \in ids

\* What a run of mark.py holds is a file as it was once, which may be written
\* back over a newer one: it has to be as good as the file.
GateInv ==
    /\ GateTypeOK
    /\ Closed(prd.passing)
    /\ \A m \in Marks : Closed(marking[m].passing)
    /\ \A t \in prd.passing \cap human : Cleared(t)
    /\ \A m \in Marks : \A t \in marking[m].passing \cap human : Cleared(t)
    /\ \A m \in Marks :
          marking[m].at = "record" => Approved(marking[m].ids, marking[m].approved)

LEMMA GateInitial == GateInit /\ backlog \in Backlogs => GateInv
BY BacklogAssumption DEF GateInit, GateInv, GateTypeOK, AtRest, Closed

\* A new generation starts from nothing.
LEMMA GenerateKeeps == GateInv /\ Generate => GateInv'
<1> SUFFICES ASSUME GateInv, Generate PROVE GateInv'
  OBVIOUS
<1> USE DEF Generate, GateInv
<1>1. GateTypeOK'
  BY BacklogAssumption DEF GateTypeOK, Ids
<1>2. Closed(prd.passing)' /\ \A m \in Marks : Closed(marking[m].passing)'
  BY DEF Closed, depends, task
<1>3. /\ \A t \in (prd.passing \cap human)' : Cleared(t)'
      /\ \A m \in Marks : \A t \in (marking[m].passing \cap human)' : Cleared(t)'
  BY DEF Cleared, human, Ids, task
<1>4. \A m \in Marks :
        marking'[m].at = "record" => Approved(marking[m].ids, marking[m].approved)'
  BY DEF Approved, human, Ids, task
<1> QED
  BY <1>1, <1>2, <1>3, <1>4

\* A run takes a copy of the file.
LEMMA ReadKeeps ==
    ASSUME GateInv, NEW m \in Marks, NEW ids \in Requests, NEW approved \in BOOLEAN,
           Read(m, ids, approved)
    PROVE  GateInv'
<1>1. marking' = [marking EXCEPT ![m] = [at |-> "check", ids |-> ids, approved |-> approved,
                                         passing |-> prd.passing]]
      /\ UNCHANGED <<backlog, prd, progress, unrecorded, generated>>
      /\ marking[m].at = "start"
  BY DEF Read
<1>2. GateTypeOK'
  BY <1>1 DEF GateInv, GateTypeOK, Ids, Requests
<1>3. \A n \in Marks : marking'[n].passing \in {marking[n].passing, prd.passing}
                       /\ (n # m => marking'[n] = marking[n]) /\ marking'[m].at = "check"
  BY <1>1 DEF GateInv, GateTypeOK
<1>4. human' = human /\ \A t : depends(t)' = depends(t)
  BY <1>1 DEF human, Ids, depends, task
<1>5. Closed(prd.passing)' /\ \A n \in Marks : Closed(marking[n].passing)'
  BY <1>1, <1>3, <1>4 DEF GateInv, Closed
<1>6. \A t : Cleared(t) => Cleared(t)'
  BY <1>1, <1>3 DEF Cleared
<1>7. /\ \A t \in (prd.passing \cap human)' : Cleared(t)'
      /\ \A n \in Marks : \A t \in (marking[n].passing \cap human)' : Cleared(t)'
  BY <1>1, <1>3, <1>4, <1>6 DEF GateInv
<1>8. \A n \in Marks :
        marking'[n].at = "record" => Approved(marking[n].ids, marking[n].approved)'
  BY <1>3, <1>4 DEF GateInv, Approved
<1> QED
  BY <1>2, <1>5, <1>7, <1>8 DEF GateInv

\* The file is replaced by the copy and the ids marked.
LEMMA WriteKeeps ==
    ASSUME GateInv, NEW m \in Marks, Write(m)
    PROVE  GateInv'
<1>1. /\ marking' = [marking EXCEPT ![m].at = "record"]
      /\ prd' = [there |-> TRUE, passing |-> marking[m].passing \cup marking[m].ids]
      /\ UNCHANGED <<backlog, progress, unrecorded, generated>>
      /\ marking[m].at = "check" /\ marking[m].ids \subseteq Ids
      /\ Approved(marking[m].ids, marking[m].approved) /\ DependenciesMet(marking[m].ids, m)
  BY DEF Write
<1>2. marking'[m] = [marking[m] EXCEPT !.at = "record"]
      /\ marking'[m].at = "record" /\ marking'[m].ids = marking[m].ids
      /\ marking'[m].passing = marking[m].passing /\ marking'[m].approved = marking[m].approved
      /\ \A n \in Marks \ {m} : marking'[n] = marking[n]
  BY <1>1 DEF GateInv, GateTypeOK
<1>3. GateTypeOK'
  <2>1. prd' \in [there : BOOLEAN, passing : SUBSET Ids]
    BY <1>1 DEF GateInv, GateTypeOK
  <2>2. marking' \in [Marks -> [at : {"start", "check", "record", "done"},
                                ids : SUBSET (Ids \cup {0}), approved : BOOLEAN,
                                passing : SUBSET Ids]]
    BY <1>1 DEF GateInv, GateTypeOK
  <2> QED
    BY <1>1, <2>1, <2>2 DEF GateInv, GateTypeOK, Ids
<1>4. human' = human /\ \A t : depends(t)' = depends(t)
  BY <1>1 DEF human, Ids, depends, task
<1>5. Closed(prd.passing)'
  <2>1. \A t \in marking[m].passing \cup marking[m].ids :
            depends(t) \subseteq marking[m].passing \cup marking[m].ids
    BY <1>1 DEF GateInv, Closed, DependenciesMet
  <2> QED
    BY <1>1, <1>4, <2>1 DEF Closed
<1>6. \A n \in Marks : Closed(marking[n].passing)'
  BY <1>2, <1>4 DEF GateInv, Closed
<1>7. \A t : Cleared(t) => Cleared(t)'
  BY <1>1, <1>2 DEF Cleared
<1>8. \A t \in (prd.passing \cap human)' : Cleared(t)'
  <2>1. \A t \in marking[m].ids : Cleared(t)'
    BY <1>2 DEF Cleared
  <2> QED
    BY <1>1, <1>4, <1>7, <2>1 DEF GateInv
<1>9. \A n \in Marks : \A t \in (marking[n].passing \cap human)' : Cleared(t)'
  BY <1>2, <1>4, <1>7 DEF GateInv
<1>10. \A n \in Marks :
         marking'[n].at = "record" => Approved(marking[n].ids, marking[n].approved)'
  BY <1>1, <1>2, <1>4 DEF GateInv, Approved
<1> QED
  BY <1>3, <1>5, <1>6, <1>8, <1>9, <1>10 DEF GateInv

\* A run that ends, recorded or not, leaves the clearance of its ids behind.
LEMMA EndKeeps ==
    ASSUME GateInv, NEW m \in Marks, Record(m) \/ GivesUpMark(m)
    PROVE  GateInv'
<1>1. /\ marking' = [marking EXCEPT ![m] = [AtRest EXCEPT !.at = "done"]]
      /\ UNCHANGED <<backlog, prd, generated>>
  BY DEF Record, GivesUpMark
<1>2. /\ marking'[m] = [at |-> "done", ids |-> {}, approved |-> FALSE, passing |-> {}]
      /\ \A n \in Marks \ {m} : marking'[n] = marking[n]
  BY <1>1 DEF GateInv, GateTypeOK, AtRest
<1>3. GateTypeOK'
  <2>1. marking' \in [Marks -> [at : {"start", "check", "record", "done"},
                                ids : SUBSET (Ids \cup {0}), approved : BOOLEAN,
                                passing : SUBSET Ids]]
    BY <1>1 DEF GateInv, GateTypeOK, AtRest
  <2> QED
    BY <1>1, <2>1 DEF GateInv, GateTypeOK, Ids
<1>4. human' = human /\ \A t : depends(t)' = depends(t)
  BY <1>1 DEF human, Ids, depends, task
<1>5. Closed(prd.passing)' /\ \A n \in Marks : Closed(marking[n].passing)'
  BY <1>1, <1>2, <1>4 DEF GateInv, Closed
<1>6. \A t \in human : Cleared(t) => Cleared(t)'
  <2> SUFFICES ASSUME NEW t \in human, Cleared(t) PROVE Cleared(t)'
    OBVIOUS
  <2>1. progress \subseteq progress' /\ unrecorded \subseteq unrecorded'
    BY DEF Record, GivesUpMark
  <2>2. CASE marking[m].at = "record" /\ t \in marking[m].ids
    <3>1. marking[m].approved
      BY <2>2 DEF GateInv, Approved
    <3>2. CASE Record(m)
      <4>1. [ids |-> marking[m].ids, approved |-> marking[m].approved] \in progress'
        BY <3>2 DEF Record
      <4>2. \E e \in progress' : t \in e.ids /\ e.approved
        BY <2>2, <3>1, <4>1
      <4> QED
        BY <4>2 DEF Cleared
    <3>3. CASE GivesUpMark(m)
      BY <2>2, <3>3 DEF Cleared, GivesUpMark
    <3> QED
      BY <3>2, <3>3
  <2>3. CASE ~(marking[m].at = "record" /\ t \in marking[m].ids)
    BY <1>2, <2>1, <2>3 DEF Cleared
  <2> QED
    BY <2>2, <2>3
<1>7. /\ \A t \in (prd.passing \cap human)' : Cleared(t)'
      /\ \A n \in Marks : \A t \in (marking[n].passing \cap human)' : Cleared(t)'
  BY <1>1, <1>2, <1>4, <1>6 DEF GateInv
<1>8. \A n \in Marks :
        marking'[n].at = "record" => Approved(marking[n].ids, marking[n].approved)'
  BY <1>2, <1>4 DEF GateInv, Approved
<1> QED
  BY <1>3, <1>5, <1>7, <1>8 DEF GateInv

LEMMA GateStutters == GateInv /\ UNCHANGED gateVars => GateInv'
BY DEF GateInv, gateVars, GateTypeOK, Closed, Cleared, Approved, human, depends, task, Ids

LEMMA GateStep == GateInv /\ GateNext => GateInv'
BY GenerateKeeps, ReadKeeps, WriteKeeps, EndKeeps DEF GateNext

LEMMA GateInvariance == Spec => []GateInv
<1>1. Init => GateInv
  BY GateInitial DEF Init, GateInit
<1>2. GateInv /\ [Next]_vars => GateInv'
  BY GateStep, GateStutters DEF Next, vars
<1> QED
  BY <1>1, <1>2, PTL DEF Spec

\* No task passes before its dependencies, for every backlog, every number of
\* overlapping runs of mark.py and generations in between (mark.py:3).
THEOREM DependenciesHold == Spec => []DependenciesPass
<1>1. GateInv => DependenciesPass
  BY DEF GateInv, Closed, DependenciesPass
<1> QED
  BY <1>1, GateInvariance, PTL

\* A human-gated task passes by a named approver's word only (mark.py:23).
THEOREM ApprovalIsNamed == Spec => []GateClearedByHuman
<1>1. GateInv => GateClearedByHuman
  BY DEF GateInv, Cleared, GateClearedByHuman
<1> QED
  BY <1>1, GateInvariance, PTL

\* Every task that does not pass is behind one that is eligible: the least id
\* that does not pass has all its dependencies below it.
LEMMA LeastNumber ==
    ASSUME NEW S \in SUBSET Nat, S # {}
    PROVE  \E x \in S : \A y \in S : x <= y
<1> DEFINE R == OpToRel(<, Nat)
<1>1. IsWellFoundedOn(R, Nat)
  BY NatLessThanWellFounded
<1>2. \A x, y \in Nat : <<y, x>> \in R <=> y < x
  BY DEF OpToRel
<1> HIDE DEF R
<1>3. PICK x \in S : \A y \in S : ~(<<y, x>> \in R)
  BY <1>1, WFMin
<1>4. ASSUME NEW y \in S PROVE x <= y
  <2>1. x \in Nat /\ y \in Nat
    OBVIOUS
  <2>2. ~(y < x)
    BY <1>2, <1>3, <2>1
  <2> QED
    BY <2>1, <2>2
<1> QED
  BY <1>4

\* Whoever has seen a file has seen one generated from a backlog in order.
CheckedInv ==
    prd.there \/ (\E m \in Marks : marking[m].at # "start") => check(backlog)

LEMMA CheckedStep == GateInv /\ CheckedInv /\ [GateNext]_gateVars => CheckedInv'
<1> SUFFICES ASSUME GateInv, CheckedInv, [GateNext]_gateVars PROVE CheckedInv'
  OBVIOUS
<1>1. check(backlog)' <=> check(backlog)
  BY DEF GateNext, Generate, Read, Write, Record, GivesUpMark, gateVars, check
<1>2. CASE Generate
  BY <1>1, <1>2 DEF Generate, CheckedInv
<1>3. ASSUME NEW m \in Marks, \/ \E ids \in Requests, approved \in BOOLEAN : Read(m, ids, approved)
                              \/ Write(m) \/ Record(m) \/ GivesUpMark(m)
      PROVE  CheckedInv'
  BY <1>1, <1>3 DEF Read, Write, Record, GivesUpMark, CheckedInv
<1>4. CASE UNCHANGED gateVars
  BY <1>1, <1>4 DEF gateVars, CheckedInv
<1> QED
  BY <1>2, <1>3, <1>4 DEF GateNext

LEMMA TaskFields ==
    ASSUME backlog \in Backlogs, NEW i \in DOMAIN backlog
    PROVE  backlog[i].id \in Nat /\ backlog[i].depends_on \subseteq Nat
<1>1. backlog \in Seq(Task)
  BY BacklogAssumption
<1>2. backlog[i] \in Task
  BY <1>1
<1> QED
  BY <1>2 DEF Task

LEMMA CheckedIsEligible == GateInv /\ CheckedInv => AlwaysEligible
<1> SUFFICES ASSUME GateInv, CheckedInv, prd.there, prd.passing # Ids
             PROVE  \E t \in Ids \ prd.passing : depends(t) \subseteq prd.passing
  BY DEF AlwaysEligible
<1>1. check(backlog)
  BY DEF CheckedInv
<1>2. backlog \in Backlogs /\ prd.passing \subseteq Ids
  BY DEF GateInv, GateTypeOK
<1>3. Ids \ prd.passing \in SUBSET Nat /\ Ids \ prd.passing # {}
  <2>1. \A i \in DOMAIN backlog : backlog[i].id \in Nat
    BY <1>2, TaskFields
  <2> QED
    BY <1>2, <2>1 DEF Ids
<1>4. PICK t \in Ids \ prd.passing : \A u \in Ids \ prd.passing : t <= u
  BY <1>3, LeastNumber
<1>5. PICK i \in DOMAIN backlog : backlog[i].id = t /\ task(t) = backlog[i]
  BY <1>4 DEF Ids, task
<1>6. ASSUME NEW d \in depends(t) PROVE d \in prd.passing
  <2>1. d \in Nat /\ t \in Nat
    <3>1. backlog[i].depends_on \subseteq Nat
      BY <1>2, <1>5, TaskFields
    <3>2. depends(t) = backlog[i].depends_on
      BY <1>5 DEF depends
    <3> QED
      BY <1>3, <1>4, <1>6, <3>1, <3>2
  <2>2. d \in backlog[i].depends_on
    BY <1>5, <1>6 DEF depends
  <2>3. d < t /\ \E j \in 1..(i - 1) : backlog[j].id = d
    BY <1>1, <1>5, <2>2 DEF check
  <2>4. 1..(i - 1) \subseteq DOMAIN backlog
    BY <1>2, BacklogAssumption
  <2>5. d \in Ids
    BY <2>3, <2>4 DEF Ids
  <2> QED
    BY <1>4, <2>1, <2>3, <2>5
<1> QED
  BY <1>4, <1>6

\* The gate never locks everyone out: a generated backlog has no cycle, for
\* every backlog gen_prd.py accepts (mark.py:58 names the next task).
THEOREM GateNeverLocks == Spec => []AlwaysEligible
<1>1. Init => CheckedInv
  BY DEF Init, GateInit, CheckedInv, AtRest
<1>2. GateInv /\ CheckedInv /\ [Next]_vars => CheckedInv'
  <2>1. [Next]_vars => [GateNext]_gateVars
    BY DEF Next, vars
  <2> QED
    BY <2>1, CheckedStep
<1> QED
  BY <1>1, <1>2, GateInvariance, CheckedIsEligible, PTL DEF Spec

-----------------------------------------------------------------------------
(* Pause and resume *)

\* The decided pauses of an item are older than the one it holds, and none is
\* newer than the last pause attempted.
AdjInv ==
    /\ on_bedrock \in BOOLEAN
    /\ pauses \in Nat
    /\ paused_state \in [Drafted -> Nat]
    /\ store \in [Drafted -> Nat]
    /\ decisions \in Seq([item : Drafted, pause : Nat])
    /\ \A i \in Drafted : paused_state[i] <= pauses
    /\ \A k \in DOMAIN decisions : decisions[k].pause <= pauses
    /\ in_request \in Drafted \cup {0}
    /\ \A k \in DOMAIN decisions :
          paused_state[decisions[k].item] # 0 =>
              decisions[k].pause < paused_state[decisions[k].item]
    /\ DecidedOncePerPause
    /\ PausedIsDurable

LEMMA AdjInitial == AdjInit => AdjInv
BY DEF AdjInit, AdjInv, DecidedOncePerPause, PausedIsDurable

\* A pause takes a number nobody has yet.
LEMMA PauseKeeps ==
    ASSUME AdjInv, NEW i \in Drafted, NEW ok \in BOOLEAN, pause(i, ok),
           in_request' \in Drafted \cup {0}
    PROVE  AdjInv'
<1>1. /\ pauses \in Nat /\ pauses' = pauses + 1 /\ on_bedrock' = on_bedrock
      /\ decisions' = decisions
      /\ \/ paused_state' = paused_state
         \/ paused_state' = [paused_state EXCEPT ![i] = pauses + 1]
      /\ \/ store' = store
         \/ store' = [store EXCEPT ![i] = pauses + 1]
  BY DEF AdjInv, pause, Paused
<1>2. /\ paused_state' \in [Drafted -> Nat] /\ store' \in [Drafted -> Nat]
      /\ pauses' \in Nat /\ decisions' \in Seq([item : Drafted, pause : Nat])
  BY <1>1 DEF AdjInv
<1>3. /\ \A j \in Drafted : paused_state'[j] <= pauses'
      /\ \A k \in DOMAIN decisions : decisions[k] \in [item : Drafted, pause : Nat]
      /\ \A k \in DOMAIN decisions' : decisions'[k].pause <= pauses'
  <2>1. ASSUME NEW j \in Drafted PROVE paused_state'[j] <= pauses'
    <3>1. paused_state'[j] \in {paused_state[j], pauses + 1}
      BY <1>1 DEF AdjInv
    <3>2. paused_state[j] \in Nat /\ paused_state[j] <= pauses
      BY DEF AdjInv
    <3> QED
      BY <1>1, <3>1, <3>2
  <2>2. \A k \in DOMAIN decisions : decisions[k] \in [item : Drafted, pause : Nat]
    <3> DEFINE R == [item : Drafted, pause : Nat]
    <3>1. decisions \in Seq(R)
      BY DEF AdjInv
    <3> HIDE DEF R
    <3>2. \A k \in DOMAIN decisions : decisions[k] \in R
      BY <3>1
    <3> QED
      BY <3>2 DEF R
  <2>3. \A k \in DOMAIN decisions' : decisions'[k].pause <= pauses'
    BY <1>1, <2>2 DEF AdjInv
  <2> QED
    BY <2>1, <2>2, <2>3
<1>4. \A k \in DOMAIN decisions' :
        paused_state'[decisions'[k].item] # 0 =>
            decisions'[k].pause < paused_state'[decisions'[k].item]
  <2> SUFFICES ASSUME NEW k \in DOMAIN decisions, paused_state'[decisions[k].item] # 0
               PROVE  decisions[k].pause < paused_state'[decisions[k].item]
    BY <1>1
  <2>1. /\ decisions[k].item \in Drafted
        /\ decisions[k].pause \in Nat /\ decisions[k].pause <= pauses
    BY <1>3 DEF AdjInv
  <2>2. CASE paused_state'[decisions[k].item] = paused_state[decisions[k].item]
    BY <2>1, <2>2 DEF AdjInv
  <2>3. CASE paused_state'[decisions[k].item] = pauses + 1
    BY <1>1, <2>1, <2>3
  <2> QED
    BY <1>1, <2>1, <2>2, <2>3 DEF AdjInv
<1>5. DecidedOncePerPause'
  BY <1>1 DEF AdjInv, DecidedOncePerPause
<1>6. PausedIsDurable'
  BY <1>1 DEF AdjInv, PausedIsDurable, pause, Paused
<1> QED
  BY <1>1, <1>2, <1>3, <1>4, <1>5, <1>6 DEF AdjInv

\* A decision takes the pause the item holds, and the item holds none after it.
LEMMA ResumeKeeps ==
    ASSUME AdjInv, NEW i \in Drafted, resume(i), in_request' \in Drafted \cup {0}
    PROVE  AdjInv'
<1> DEFINE d == [item |-> i, pause |-> paused_state[i]]
<1>1. /\ paused_state[i] \in Nat /\ paused_state[i] <= pauses /\ pauses \in Nat
      /\ decisions' = Append(decisions, d)
      /\ paused_state' = [paused_state EXCEPT ![i] = 0]
      /\ UNCHANGED <<on_bedrock, store, queue, pauses>>
  BY DEF AdjInv, resume, Popped
<1>2. d \in [item : Drafted, pause : Nat] /\ decisions \in Seq([item : Drafted, pause : Nat])
  BY <1>1 DEF AdjInv
<1>3. decisions' \in Seq([item : Drafted, pause : Nat])
  BY <1>1, <1>2
<1>4. /\ Len(decisions) \in Nat /\ DOMAIN decisions = 1..Len(decisions)
      /\ DOMAIN decisions' = 1..(Len(decisions) + 1)
      /\ decisions'[Len(decisions) + 1] = d
      /\ \A k \in DOMAIN decisions : decisions'[k] = decisions[k]
                                    /\ decisions[k] \in [item : Drafted, pause : Nat]
  <2> DEFINE R == [item : Drafted, pause : Nat]
  <2> HIDE DEF R, d
  <2> SUFFICES ASSUME d \in R, decisions \in Seq(R), decisions' = Append(decisions, d)
               PROVE  /\ Len(decisions) \in Nat /\ DOMAIN decisions = 1..Len(decisions)
                      /\ DOMAIN decisions' = 1..(Len(decisions) + 1)
                      /\ decisions'[Len(decisions) + 1] = d
                      /\ \A k \in DOMAIN decisions :
                            decisions'[k] = decisions[k] /\ decisions[k] \in R
    BY <1>1, <1>2 DEF R, d
  <2> QED
    OBVIOUS
<1>5. /\ paused_state' \in [Drafted -> Nat] /\ store' \in [Drafted -> Nat]
      /\ \A j \in Drafted : paused_state'[j] <= pauses'
      /\ \A k \in DOMAIN decisions' : decisions'[k].pause <= pauses'
  <2>1. /\ paused_state' \in [Drafted -> Nat] /\ store' \in [Drafted -> Nat]
        /\ \A j \in Drafted : paused_state'[j] <= pauses'
    BY <1>1 DEF AdjInv
  <2>2. ASSUME NEW k \in DOMAIN decisions' PROVE decisions'[k].pause <= pauses'
    <3>1. CASE k \in DOMAIN decisions
      BY <1>1, <1>4, <3>1 DEF AdjInv
    <3>2. CASE k = Len(decisions) + 1
      BY <1>1, <1>4, <3>2
    <3> QED
      BY <1>4, <3>1, <3>2
  <2> QED
    BY <2>1, <2>2
<1>6. \A k \in DOMAIN decisions' :
        paused_state'[decisions'[k].item] # 0 =>
            decisions'[k].pause < paused_state'[decisions'[k].item]
  <2> SUFFICES ASSUME NEW k \in DOMAIN decisions', paused_state'[decisions'[k].item] # 0
               PROVE  decisions'[k].pause < paused_state'[decisions'[k].item]
    OBVIOUS
  <2>1. CASE k \in DOMAIN decisions
    <3>1. decisions[k].item \in Drafted /\ decisions[k].item # i
      BY <1>1, <1>4, <2>1 DEF AdjInv
    <3> QED
      BY <1>1, <1>4, <2>1, <3>1 DEF AdjInv
  <2>2. CASE k = Len(decisions) + 1
    BY <1>1, <1>4, <2>2 DEF AdjInv
  <2> QED
    BY <1>4, <2>1, <2>2
<1>7. DecidedOncePerPause'
  <2> SUFFICES ASSUME NEW k \in DOMAIN decisions', NEW n \in DOMAIN decisions', k < n,
                      decisions'[k].item = decisions'[n].item
               PROVE  decisions'[k].pause < decisions'[n].pause
    BY DEF DecidedOncePerPause
  <2>1. k \in DOMAIN decisions /\ decisions'[k] = decisions[k]
    BY <1>4
  <2>2. CASE n \in DOMAIN decisions
    BY <1>4, <2>1, <2>2 DEF AdjInv, DecidedOncePerPause
  <2>3. CASE n = Len(decisions) + 1
    <3>1. decisions[k].item = i /\ decisions'[n].pause = paused_state[i]
      BY <1>4, <2>1, <2>3
    <3>2. paused_state[i] # 0
      BY DEF resume
    <3> QED
      BY <2>1, <3>1, <3>2 DEF AdjInv
  <2> QED
    BY <1>4, <2>2, <2>3
<1>8. PausedIsDurable'
  BY <1>1 DEF AdjInv, PausedIsDurable
<1> QED
  BY <1>1, <1>3, <1>5, <1>6, <1>7, <1>8 DEF AdjInv

LEMMA AdjStutters == AdjInv /\ UNCHANGED adjVars => AdjInv'
BY DEF AdjInv, adjVars, DecidedOncePerPause, PausedIsDurable

LEMMA AdjStep == AdjInv /\ AdjNext => AdjInv'
<1> SUFFICES ASSUME AdjInv, AdjNext PROVE AdjInv'
  OBVIOUS
<1>1. CASE \E i \in Drafted : \E ok \in BOOLEAN : RequestPauses(i, ok) \/ CallerPauses(i, ok)
  <2>1. PICK i \in Drafted, ok \in BOOLEAN : RequestPauses(i, ok) \/ CallerPauses(i, ok)
    BY <1>1
  <2>2. pause(i, ok) /\ in_request' \in Drafted \cup {0}
    BY <2>1 DEF RequestPauses, CallerPauses, AdjInv
  <2> QED
    BY <2>2, PauseKeeps
<1>2. CASE \E i \in Drafted : CallerResumes(i)
  <2>1. PICK i \in Drafted : CallerResumes(i)
    BY <1>2
  <2>2. resume(i) /\ in_request' \in Drafted \cup {0}
    BY <2>1 DEF CallerResumes, AdjInv
  <2> QED
    BY <2>2, ResumeKeeps
<1>3. CASE RequestResumes
  <2>1. in_request \in Drafted /\ resume(in_request) /\ in_request' \in Drafted \cup {0}
    BY <1>3 DEF RequestResumes, AdjInv
  <2> QED
    BY <2>1, ResumeKeeps
<1> QED
  BY <1>1, <1>2, <1>3 DEF AdjNext

LEMMA AdjInvariance == Spec => []AdjInv
<1>1. Init => AdjInv
  BY AdjInitial DEF Init
<1>2. AdjInv /\ [Next]_vars => AdjInv'
  BY AdjStep, AdjStutters DEF Next, vars
<1> QED
  BY <1>1, <1>2, PTL DEF Spec

\* No pause is decided twice, and none after a later pause of its item, for
\* every set of items and every order of pauses and resumes (p6_hitl.py:90).
THEOREM NoDecisionTwice == Spec => []DecidedOncePerPause
<1>1. AdjInv => DecidedOncePerPause
  BY DEF AdjInv
<1> QED
  BY <1>1, AdjInvariance, PTL

\* On Bedrock every token stands for a stored state (p6_hitl.py:65).
THEOREM TokensAreStored == Spec => []PausedIsDurable
<1>1. AdjInv => PausedIsDurable
  BY DEF AdjInv
<1> QED
  BY <1>1, AdjInvariance, PTL

-----------------------------------------------------------------------------
(* The governor *)

\* The emergency stop is final, however many reviews wait for their human when
\* it is pressed (hitl_example.py:10).
THEOREM StopIsFinal == Spec => EmergencyStop
<1>1. ASSUME halted, [Next]_vars, govVars' # govVars
      PROVE  halted' /\ UNCHANGED <<log, returned>>
  <2>1. GovNext
    BY <1>1 DEF Next, vars
  <2>2. ReviewFails
    BY <1>1, <2>1 DEF GovNext, AutoApprove, RouteToStub, Decide, Halt, Open
  <2> QED
    BY <1>1, <2>2 DEF ReviewFails
<1>2. [Next]_vars => [halted => halted' /\ UNCHANGED <<log, returned>>]_govVars
  BY <1>1
<1> QED
  BY <1>2, PTL DEF Spec, EmergencyStop
\* A selection of positions that gains at most the last one.
LEMMA CountAppended ==
    ASSUME NEW n \in Nat, NEW A \in SUBSET (1..n), NEW B \in SUBSET (1..(n + 1)),
           B \cap (1..n) = A
    PROVE  /\ Cardinality(A) \in Nat
           /\ Cardinality(B) = Cardinality(A) + IF n + 1 \in B THEN 1 ELSE 0
<1>1. IsFiniteSet(A) /\ Cardinality(A) \in Nat
  <2>1. IsFiniteSet(1..n)
    <3>1. 1 \in Int /\ n \in Int
      OBVIOUS
    <3> QED
      BY <3>1, FS_Interval
  <2>2. IsFiniteSet(A)
    BY <2>1, FS_Subset
  <2> QED
    BY <2>2, FS_CardinalityType
<1>0. \A k \in B : k \in 1..n \/ k = n + 1
  OBVIOUS
<1>2. CASE n + 1 \in B
  <2> DEFINE last == n + 1
  <2>1. B = A \cup {last} /\ last \notin A
    <3>1. last \notin 1..n
      OBVIOUS
    <3>2. \A k : k \in B <=> k \in A \/ k = last
      BY <1>0, <1>2, <3>1
    <3> QED
      BY <3>1, <3>2
  <2> HIDE DEF last
  <2>2. Cardinality(A \cup {last}) =
            IF last \in A THEN Cardinality(A) ELSE Cardinality(A) + 1
    BY <1>1, FS_AddElement
  <2>3. Cardinality(B) = Cardinality(A) + 1
    BY <2>1, <2>2
  <2> QED
    BY <1>1, <1>2, <2>3
<1>3. CASE n + 1 \notin B
  <2>1. B = A
    BY <1>0, <1>3
  <2> QED
    BY <1>1, <1>3, <2>1
<1> QED
  BY <1>1, <1>2, <1>3

\* An entry is counted once, under its own event and item.
LEMMA LoggedAfter ==
    ASSUME NEW E, NEW l \in Seq(E), NEW event, NEW item, NEW e, NEW i
    PROVE  /\ Logged(l, e, i) \in Nat
           /\ Logged(Appended(l, event, item), e, i) =
                Logged(l, e, i) + IF e = event /\ i = item THEN 1 ELSE 0
<1> DEFINE x == Entry(Len(l), event, item, LastHash(l))
           n == Len(l)
           longer == Append(l, x)
           A == {k \in DOMAIN l : l[k].event = e /\ l[k].item = i}
           B == {k \in DOMAIN longer : longer[k].event = e /\ longer[k].item = i}
<1>1. x.event = event /\ x.item = item
  BY DEF Entry
<1> HIDE DEF x
<1>2. n \in Nat /\ DOMAIN l = 1..n
  BY LenProperties
<1>3. l \in Seq(E \cup {x})
  BY SeqMonotonic
<1>4. /\ DOMAIN longer = 1..(n + 1)
      /\ \A k \in 1..n : longer[k] = l[k]
      /\ longer[n + 1] = x
  BY <1>2, <1>3, AppendProperties, LenProperties
<1> HIDE DEF longer, n
<1>5. A \in SUBSET (1..n) /\ B \in SUBSET (1..(n + 1)) /\ B \cap (1..n) = A
  BY <1>2, <1>4
<1>6. n + 1 \in B <=> e = event /\ i = item
  BY <1>1, <1>2, <1>4
<1> HIDE DEF A, B
<1>7. Cardinality(A) \in Nat /\ Cardinality(B) = Cardinality(A) + IF n + 1 \in B THEN 1 ELSE 0
  BY <1>2, <1>5, CountAppended
<1> QED
  BY <1>6, <1>7 DEF Logged, Appended, A, B, x, longer

\* What was handed out is counted once, under its own item and disposition.
LEMMA HandedOutAfter ==
    ASSUME NEW E, NEW r \in Seq(E), NEW x \in E, NEW i, NEW how
    PROVE  /\ HandedOut(r, i, how) \in Nat
           /\ HandedOut(Append(r, x), i, how) =
                HandedOut(r, i, how) + IF x.item = i /\ x.disposition \in how THEN 1 ELSE 0
<1> DEFINE n == Len(r)
           longer == Append(r, x)
           A == {k \in DOMAIN r : r[k].item = i /\ r[k].disposition \in how}
           B == {k \in DOMAIN longer : longer[k].item = i /\ longer[k].disposition \in how}
<1>1. n \in Nat /\ DOMAIN r = 1..n
  BY LenProperties
<1>2. /\ DOMAIN longer = 1..(n + 1)
      /\ \A k \in 1..n : longer[k] = r[k]
      /\ longer[n + 1] = x
  BY <1>1, AppendProperties, LenProperties
<1> HIDE DEF longer, n
<1>3. A \in SUBSET (1..n) /\ B \in SUBSET (1..(n + 1)) /\ B \cap (1..n) = A
  BY <1>1, <1>2
<1>4. n + 1 \in B <=> x.item = i /\ x.disposition \in how
  BY <1>1, <1>2
<1> HIDE DEF A, B
<1>5. Cardinality(A) \in Nat /\ Cardinality(B) = Cardinality(A) + IF n + 1 \in B THEN 1 ELSE 0
  BY <1>1, <1>3, CountAppended
<1> QED
  BY <1>4, <1>5 DEF HandedOut, A, B, longer

LEMMA InStubAfter ==
    ASSUME NEW E, NEW w \in Seq(E), NEW x \in E, NEW i
    PROVE  /\ InStub(w, i) \in Nat
           /\ InStub(Append(w, x), i) = InStub(w, i) + IF x = i THEN 1 ELSE 0
<1> DEFINE n == Len(w)
           longer == Append(w, x)
           A == {k \in DOMAIN w : w[k] = i}
           B == {k \in DOMAIN longer : longer[k] = i}
<1>1. n \in Nat /\ DOMAIN w = 1..n
  BY LenProperties
<1>2. /\ DOMAIN longer = 1..(n + 1)
      /\ \A k \in 1..n : longer[k] = w[k]
      /\ longer[n + 1] = x
  BY <1>1, AppendProperties, LenProperties
<1> HIDE DEF longer, n
<1>3. A \in SUBSET (1..n) /\ B \in SUBSET (1..(n + 1)) /\ B \cap (1..n) = A
  BY <1>1, <1>2
<1>4. n + 1 \in B <=> x = i
  BY <1>1, <1>2
<1> HIDE DEF A, B
<1>5. Cardinality(A) \in Nat /\ Cardinality(B) = Cardinality(A) + IF n + 1 \in B THEN 1 ELSE 0
  BY <1>1, <1>3, CountAppended
<1> QED
  BY <1>4, <1>5 DEF InStub, A, B, longer

\* The innermost review leaves the stub and no other.
LEMMA InStubLeft ==
    ASSUME NEW E, NEW w \in Seq(E), w # <<>>, NEW i
    PROVE  /\ Front(w) \in Seq(E) /\ Last(w) \in E
           /\ InStub(Front(w), i) \in Nat
           /\ InStub(w, i) = InStub(Front(w), i) + IF Last(w) = i THEN 1 ELSE 0
<1>1. PICK s \in Seq(E), x \in E : w = Append(s, x)
  BY SequenceEmptyOrAppend
<1>2. Front(w) = s
  <2>1. Len(w) - 1 = Len(s) /\ Len(s) \in Nat
    BY <1>1, AppendProperties, LenProperties
  <2>2. \A k \in 1..Len(s) : w[k] = s[k]
    BY <1>1, AppendProperties
  <2>3. /\ SubSeq(w, 1, Len(s)) \in Seq(E)
        /\ Len(SubSeq(w, 1, Len(s))) = Len(s)
        /\ \A k \in 1..Len(s) : SubSeq(w, 1, Len(s))[k] = s[k]
    <3>1. \A k \in 1..Len(s) : w[k] \in E
      BY <2>2, ElementOfSeq
    <3> QED
      BY <2>1, <2>2, <3>1, SubSeqProperties
  <2>4. SubSeq(w, 1, Len(s)) = s
    BY <2>3, SeqEqual
  <2> QED
    BY <2>1, <2>4 DEF Front
<1>3. Last(w) = x
  BY <1>1, AppendProperties DEF Last
<1> QED
  BY <1>1, <1>2, <1>3, InStubAfter

\* An appended entry commits to the whole trail before it.
LEMMA ChainGrows ==
    ASSUME NEW E, NEW l \in Seq(E), verify_chain(l), NEW event, NEW item
    PROVE  /\ verify_chain(Appended(l, event, item))
           /\ \E F : Appended(l, event, item) \in Seq(F)
<1> DEFINE n == Len(l)
           x == Entry(n, event, item, LastHash(l))
           longer == Append(l, x)
<1>1. /\ x.index = n /\ x.prev = LastHash(l)
      /\ x.entry_hash = _hash_entry(n, x.event, x.item, x.prev)
  BY DEF Entry
<1> HIDE DEF x
<1>2. n \in Nat /\ DOMAIN l = 1..n
  BY LenProperties
<1>3. l \in Seq(E \cup {x})
  BY SeqMonotonic
<1>4. /\ longer \in Seq(E \cup {x})
      /\ DOMAIN longer = 1..(n + 1)
      /\ \A k \in 1..n : longer[k] = l[k]
      /\ longer[n + 1] = x
  BY <1>2, <1>3, AppendProperties, LenProperties
<1>5. LastHash(l) = IF n = 0 THEN Genesis ELSE l[n].entry_hash
  BY <1>2, EmptySeq DEF LastHash, Last
<1> HIDE DEF longer, n
<1>6. ASSUME NEW k \in 1..(n + 1)
      PROVE  /\ longer[k].index = k - 1
             /\ longer[k].prev = IF k = 1 THEN Genesis ELSE longer[k - 1].entry_hash
             /\ longer[k].entry_hash =
                  _hash_entry(k - 1, longer[k].event, longer[k].item, longer[k].prev)
  <2>1. CASE k = n + 1
    <3>1. k - 1 = n /\ longer[k] = x
      BY <1>2, <1>4, <2>1
    <3>2. x.prev = IF k = 1 THEN Genesis ELSE longer[k - 1].entry_hash
      <4>1. CASE n = 0
        BY <1>1, <1>5, <2>1, <4>1
      <4>2. CASE n # 0
        <5>1. n \in 1..n /\ k # 1
          BY <1>2, <2>1, <4>2
        <5> QED
          BY <1>1, <1>4, <1>5, <3>1, <4>2, <5>1
      <4> QED
        BY <4>1, <4>2
    <3> QED
      BY <1>1, <3>1, <3>2
  <2>2. CASE k # n + 1
    <3>1. k \in 1..n
      BY <1>2, <2>2
    <3>2. /\ l[k].index = k - 1
          /\ l[k].prev = IF k = 1 THEN Genesis ELSE l[k - 1].entry_hash
          /\ l[k].entry_hash = _hash_entry(k - 1, l[k].event, l[k].item, l[k].prev)
      BY <1>2, <3>1 DEF verify_chain
    <3>3. k # 1 => k - 1 \in 1..n
      BY <1>2, <3>1
    <3> QED
      BY <1>4, <3>1, <3>2, <3>3
  <2> QED
    BY <2>1, <2>2
<1>7. verify_chain(longer)
  BY <1>4, <1>6 DEF verify_chain
<1> QED
  BY <1>4, <1>7 DEF Appended, longer, n, x

Handed == [item : Items, disposition : {"auto_approved", "approve", "reject"}]

\* What a step of the governor needs to know: the three lists are lists, and
\* the trail is complete so far.
GovInv ==
    /\ \E E : log \in Seq(E)
    /\ returned \in Seq(Handed)
    /\ waiting \in Seq(Items)
    /\ TrailComplete

LEMMA GovInitial == GovInit => GovInv
<1> SUFFICES ASSUME GovInit PROVE GovInv
  OBVIOUS
<1>1. DOMAIN log = {} /\ DOMAIN returned = {} /\ DOMAIN waiting = {}
  BY DEF GovInit
<1>2. verify_chain(log)
  BY <1>1 DEF verify_chain
<1>3. \A e, i, how : /\ Logged(log, e, i) = 0
                     /\ HandedOut(returned, i, how) = 0
                     /\ InStub(waiting, i) = 0
  <2> SUFFICES ASSUME NEW e, NEW i, NEW how
               PROVE  /\ Logged(log, e, i) = 0
                      /\ HandedOut(returned, i, how) = 0
                      /\ InStub(waiting, i) = 0
    OBVIOUS
  <2>1. /\ {k \in DOMAIN log : log[k].event = e /\ log[k].item = i} = {}
        /\ {k \in DOMAIN returned :
              returned[k].item = i /\ returned[k].disposition \in how} = {}
        /\ {k \in DOMAIN waiting : waiting[k] = i} = {}
    BY <1>1
  <2> QED
    BY <2>1, FS_EmptySet DEF Logged, HandedOut, InStub
<1>4. log \in Seq({})
  BY DEF GovInit
<1> QED
  BY <1>2, <1>3, <1>4 DEF GovInit, GovInv, TrailComplete

\* A draft and where the gate sends it: two entries.
LEMMA RoutedAfter ==
    ASSUME NEW E, NEW l \in Seq(E), verify_chain(l), NEW item, NEW event,
           NEW longer, longer = Appended(Appended(l, "draft_produced", item), event, item)
    PROVE  /\ verify_chain(longer)
           /\ \E F : longer \in Seq(F)
           /\ \A e, i : /\ Logged(l, e, i) \in Nat
                        /\ Logged(longer, e, i) = Logged(l, e, i)
                             + (IF e = "draft_produced" /\ i = item THEN 1 ELSE 0)
                             + (IF e = event /\ i = item THEN 1 ELSE 0)
<1> DEFINE middle == Appended(l, "draft_produced", item)
<1>1. verify_chain(middle) /\ \E F : middle \in Seq(F)
  BY ChainGrows
<1>2. PICK F : middle \in Seq(F)
  BY <1>1
<1>3. \A e, i : /\ Logged(l, e, i) \in Nat
                /\ Logged(middle, e, i) = Logged(l, e, i)
                     + (IF e = "draft_produced" /\ i = item THEN 1 ELSE 0)
  BY LoggedAfter
<1> HIDE DEF middle
<1>4. /\ verify_chain(Appended(middle, event, item))
      /\ \E G : Appended(middle, event, item) \in Seq(G)
  BY <1>1, <1>2, ChainGrows
<1>5. \A e, i : Logged(Appended(middle, event, item), e, i) =
                  Logged(middle, e, i) + (IF e = event /\ i = item THEN 1 ELSE 0)
  BY <1>2, LoggedAfter
<1>6. longer = Appended(middle, event, item)
  BY DEF middle
<1> QED
  BY <1>3, <1>4, <1>5, <1>6

LEMMA AutoApproveKeeps == ASSUME GovInv, NEW i \in Items, AutoApprove(i) PROVE GovInv'
<1>1. PICK E : log \in Seq(E)
  BY DEF GovInv
<1>2. verify_chain(log)
  BY DEF GovInv, TrailComplete
<1>3. /\ verify_chain(log') /\ \E F : log' \in Seq(F)
      /\ \A e, j : /\ Logged(log, e, j) \in Nat
                   /\ Logged(log', e, j) = Logged(log, e, j)
                        + (IF e = "draft_produced" /\ j = i THEN 1 ELSE 0)
                        + (IF e = "auto_approved" /\ j = i THEN 1 ELSE 0)
  <2>1. log' = Appended(Appended(log, "draft_produced", i), "auto_approved", i)
    BY DEF AutoApprove, Routed
  <2> QED
    BY <1>1, <1>2, <2>1, RoutedAfter
<1> DEFINE x == [item |-> i, disposition |-> "auto_approved"]
<1>4. x \in Handed /\ returned' = Append(returned, x)
  BY DEF AutoApprove, Handed
<1>5. /\ returned' \in Seq(Handed)
      /\ \A j, how : /\ HandedOut(returned, j, how) \in Nat
                     /\ HandedOut(returned', j, how) = HandedOut(returned, j, how)
                          + IF i = j /\ "auto_approved" \in how THEN 1 ELSE 0
  <2>1. x.item = i /\ x.disposition = "auto_approved"
    OBVIOUS
  <2>2. returned \in Seq(Handed)
    BY DEF GovInv
  <2> HIDE DEF x
  <2>3. \A j, how :
           /\ HandedOut(returned, j, how) \in Nat
           /\ HandedOut(Append(returned, x), j, how) = HandedOut(returned, j, how)
                + IF x.item = j /\ x.disposition \in how THEN 1 ELSE 0
    BY <1>4, <2>2, HandedOutAfter
  <2>4. Append(returned, x) \in Seq(Handed)
    BY <1>4, <2>2, AppendProperties
  <2>5. returned' = Append(returned, x)
    BY <1>4
  <2>6. returned' \in Seq(Handed)
    BY <2>4, <2>5
  <2>7. ASSUME NEW j, NEW how
        PROVE  /\ HandedOut(returned, j, how) \in Nat
               /\ HandedOut(returned', j, how) = HandedOut(returned, j, how)
                    + IF i = j /\ "auto_approved" \in how THEN 1 ELSE 0
    BY <2>1, <2>3, <2>5
  <2> QED
    BY <2>6, <2>7
<1>6. waiting' = waiting
  BY DEF AutoApprove
<1>7. ASSUME NEW j \in Items
      PROVE  /\ HandedOut(returned', j, {"auto_approved"}) = Logged(log', "auto_approved", j)
             /\ HandedOut(returned', j, {"approve", "reject"}) = Logged(log', "human_decision", j)
             /\ Logged(log', "draft_produced", j) =
                  Logged(log', "auto_approved", j) + Logged(log', "routed_to_human", j)
             /\ Logged(log', "human_decision", j) + InStub(waiting', j)
                  <= Logged(log', "routed_to_human", j)
  <2>1. /\ Logged(log', "human_decision", j) = Logged(log, "human_decision", j)
        /\ Logged(log', "routed_to_human", j) = Logged(log, "routed_to_human", j)
        /\ HandedOut(returned', j, {"approve", "reject"}) = HandedOut(returned, j, {"approve", "reject"})
    BY <1>3, <1>5
  <2>2. /\ Logged(log', "auto_approved", j) = Logged(log, "auto_approved", j) + (IF j = i THEN 1 ELSE 0)
        /\ Logged(log', "draft_produced", j) = Logged(log, "draft_produced", j) + (IF j = i THEN 1 ELSE 0)
        /\ HandedOut(returned', j, {"auto_approved"}) =
             HandedOut(returned, j, {"auto_approved"}) + (IF j = i THEN 1 ELSE 0)
    BY <1>3, <1>5
  <2>3. /\ HandedOut(returned, j, {"auto_approved"}) = Logged(log, "auto_approved", j)
        /\ HandedOut(returned, j, {"approve", "reject"}) = Logged(log, "human_decision", j)
        /\ Logged(log, "draft_produced", j) =
             Logged(log, "auto_approved", j) + Logged(log, "routed_to_human", j)
        /\ Logged(log, "human_decision", j) + InStub(waiting, j)
             <= Logged(log, "routed_to_human", j)
    BY DEF GovInv, TrailComplete
  <2>4. Logged(log, "auto_approved", j) \in Nat /\ Logged(log, "routed_to_human", j) \in Nat
    BY <1>3
  <2> QED
    BY <1>6, <2>1, <2>2, <2>3, <2>4
<1> QED
  BY <1>3, <1>5, <1>6, <1>7 DEF GovInv, TrailComplete

LEMMA RouteToStubKeeps == ASSUME GovInv, NEW i \in Items, RouteToStub(i) PROVE GovInv'
<1>1. PICK E : log \in Seq(E)
  BY DEF GovInv
<1>2. verify_chain(log)
  BY DEF GovInv, TrailComplete
<1>3. /\ verify_chain(log') /\ \E F : log' \in Seq(F)
      /\ \A e, j : /\ Logged(log, e, j) \in Nat
                   /\ Logged(log', e, j) = Logged(log, e, j)
                        + (IF e = "draft_produced" /\ j = i THEN 1 ELSE 0)
                        + (IF e = "routed_to_human" /\ j = i THEN 1 ELSE 0)
  <2>1. log' = Appended(Appended(log, "draft_produced", i), "routed_to_human", i)
    BY DEF RouteToStub, Routed
  <2> QED
    BY <1>1, <1>2, <2>1, RoutedAfter
<1>4. /\ waiting' \in Seq(Items)
      /\ \A j : /\ InStub(waiting, j) \in Nat
                /\ InStub(waiting', j) = InStub(waiting, j) + IF i = j THEN 1 ELSE 0
  <2>1. waiting \in Seq(Items) /\ waiting' = Append(waiting, i)
    BY DEF GovInv, RouteToStub
  <2>2. \A j : /\ InStub(waiting, j) \in Nat
               /\ InStub(Append(waiting, i), j) = InStub(waiting, j) + IF i = j THEN 1 ELSE 0
    BY <2>1, InStubAfter
  <2> QED
    BY <2>1, <2>2, AppendProperties
<1>5. returned' = returned
  BY DEF RouteToStub
<1>6. ASSUME NEW j \in Items
      PROVE  /\ HandedOut(returned', j, {"auto_approved"}) = Logged(log', "auto_approved", j)
             /\ HandedOut(returned', j, {"approve", "reject"}) = Logged(log', "human_decision", j)
             /\ Logged(log', "draft_produced", j) =
                  Logged(log', "auto_approved", j) + Logged(log', "routed_to_human", j)
             /\ Logged(log', "human_decision", j) + InStub(waiting', j)
                  <= Logged(log', "routed_to_human", j)
  <2>1. /\ Logged(log', "human_decision", j) = Logged(log, "human_decision", j)
        /\ Logged(log', "auto_approved", j) = Logged(log, "auto_approved", j)
    BY <1>3
  <2>2. /\ Logged(log', "routed_to_human", j) = Logged(log, "routed_to_human", j) + (IF j = i THEN 1 ELSE 0)
        /\ Logged(log', "draft_produced", j) = Logged(log, "draft_produced", j) + (IF j = i THEN 1 ELSE 0)
        /\ InStub(waiting', j) = InStub(waiting, j) + (IF j = i THEN 1 ELSE 0)
    BY <1>3, <1>4
  <2>3. /\ HandedOut(returned, j, {"auto_approved"}) = Logged(log, "auto_approved", j)
        /\ HandedOut(returned, j, {"approve", "reject"}) = Logged(log, "human_decision", j)
        /\ Logged(log, "draft_produced", j) =
             Logged(log, "auto_approved", j) + Logged(log, "routed_to_human", j)
        /\ Logged(log, "human_decision", j) + InStub(waiting, j)
             <= Logged(log, "routed_to_human", j)
    BY DEF GovInv, TrailComplete
  <2>4. /\ Logged(log, "auto_approved", j) \in Nat /\ Logged(log, "routed_to_human", j) \in Nat
        /\ Logged(log, "human_decision", j) \in Nat /\ InStub(waiting, j) \in Nat
    BY <1>3, <1>4
  <2> QED
    BY <1>5, <2>1, <2>2, <2>3, <2>4
<1> QED
  BY <1>3, <1>4, <1>5, <1>6 DEF GovInv, TrailComplete

\* The decision is logged for the innermost review, which leaves the stub as
\* its disposition is handed out: the three move together.
LEMMA DecideKeeps ==
    ASSUME GovInv, NEW d \in {"approve", "reject"}, Decide(d) PROVE GovInv'
<1>1. PICK E : log \in Seq(E)
  BY DEF GovInv
<1>2. verify_chain(log) /\ waiting \in Seq(Items) /\ returned \in Seq(Handed)
  BY DEF GovInv, TrailComplete
<1> DEFINE i == Last(waiting)
<1>3. /\ i \in Items
      /\ waiting' \in Seq(Items)
      /\ \A j : /\ InStub(waiting', j) \in Nat
                /\ InStub(waiting, j) = InStub(waiting', j) + IF i = j THEN 1 ELSE 0
  <2>1. waiting # <<>> /\ waiting' = Front(waiting)
    BY DEF Decide
  <2> QED
    BY <1>2, <2>1, InStubLeft
<1>4. /\ log' = Appended(log, "human_decision", i)
      /\ returned' = Append(returned, [item |-> i, disposition |-> d])
  BY DEF Decide, Reviewed
<1> HIDE DEF i
<1>5. /\ verify_chain(log') /\ \E F : log' \in Seq(F)
      /\ \A e, j : /\ Logged(log, e, j) \in Nat
                   /\ Logged(log', e, j) = Logged(log, e, j)
                        + IF e = "human_decision" /\ j = i THEN 1 ELSE 0
  BY <1>1, <1>2, <1>4, ChainGrows, LoggedAfter
<1> DEFINE x == [item |-> i, disposition |-> d]
<1>6. x \in Handed /\ x.item = i /\ x.disposition = d /\ returned' = Append(returned, x)
  BY <1>3, <1>4 DEF Handed
<1> HIDE DEF x
<1>7. /\ returned' \in Seq(Handed)
      /\ \A j, how : /\ HandedOut(returned, j, how) \in Nat
                     /\ HandedOut(returned', j, how) = HandedOut(returned, j, how)
                          + IF x.item = j /\ x.disposition \in how THEN 1 ELSE 0
  BY <1>2, <1>6, HandedOutAfter, AppendProperties
<1>8. ASSUME NEW j \in Items
      PROVE  /\ HandedOut(returned', j, {"auto_approved"}) = Logged(log', "auto_approved", j)
             /\ HandedOut(returned', j, {"approve", "reject"}) = Logged(log', "human_decision", j)
             /\ Logged(log', "draft_produced", j) =
                  Logged(log', "auto_approved", j) + Logged(log', "routed_to_human", j)
             /\ Logged(log', "human_decision", j) + InStub(waiting', j)
                  <= Logged(log', "routed_to_human", j)
  <2>1. /\ Logged(log', "auto_approved", j) = Logged(log, "auto_approved", j)
        /\ Logged(log', "draft_produced", j) = Logged(log, "draft_produced", j)
        /\ Logged(log', "routed_to_human", j) = Logged(log, "routed_to_human", j)
    BY <1>5
  <2>2. HandedOut(returned', j, {"auto_approved"}) = HandedOut(returned, j, {"auto_approved"})
    BY <1>6, <1>7
  <2>3. HandedOut(returned', j, {"approve", "reject"}) =
          HandedOut(returned, j, {"approve", "reject"}) + (IF j = i THEN 1 ELSE 0)
    BY <1>6, <1>7
  <2>4. /\ Logged(log', "human_decision", j) =
             Logged(log, "human_decision", j) + (IF j = i THEN 1 ELSE 0)
        /\ InStub(waiting, j) = InStub(waiting', j) + (IF j = i THEN 1 ELSE 0)
    BY <1>3, <1>5
  <2>5. /\ HandedOut(returned, j, {"auto_approved"}) = Logged(log, "auto_approved", j)
        /\ HandedOut(returned, j, {"approve", "reject"}) = Logged(log, "human_decision", j)
        /\ Logged(log, "draft_produced", j) =
             Logged(log, "auto_approved", j) + Logged(log, "routed_to_human", j)
        /\ Logged(log, "human_decision", j) + InStub(waiting, j)
             <= Logged(log, "routed_to_human", j)
    BY DEF GovInv, TrailComplete
  <2>6. /\ Logged(log, "routed_to_human", j) \in Nat
        /\ Logged(log, "human_decision", j) \in Nat /\ InStub(waiting', j) \in Nat
    BY <1>3, <1>5
  <2> QED
    BY <2>1, <2>2, <2>3, <2>4, <2>5, <2>6
<1> QED
  BY <1>3, <1>5, <1>7, <1>8 DEF GovInv, TrailComplete

LEMMA ReviewFailsKeeps == GovInv /\ ReviewFails => GovInv'
<1> SUFFICES ASSUME GovInv, ReviewFails PROVE GovInv'
  OBVIOUS
<1>1. /\ waiting # <<>> /\ waiting' = Front(waiting) /\ waiting \in Seq(Items)
      /\ log' = log /\ returned' = returned
  BY DEF GovInv, ReviewFails
<1>2. /\ waiting' \in Seq(Items)
      /\ \A j : /\ InStub(waiting', j) \in Nat
                /\ InStub(waiting, j) =
                     InStub(waiting', j) + IF Last(waiting) = j THEN 1 ELSE 0
  BY <1>1, InStubLeft
<1>3. PICK E : log \in Seq(E)
  BY DEF GovInv
<1>4. \A e, j : Logged(log, e, j) \in Nat
  BY <1>3, LoggedAfter
<1>5. ASSUME NEW j \in Items
      PROVE  Logged(log, "human_decision", j) + InStub(waiting', j)
                <= Logged(log, "routed_to_human", j)
  <2>1. Logged(log, "human_decision", j) + InStub(waiting, j)
           <= Logged(log, "routed_to_human", j)
    BY DEF GovInv, TrailComplete
  <2>2. InStub(waiting, j) = InStub(waiting', j) \/ InStub(waiting, j) = InStub(waiting', j) + 1
    BY <1>2
  <2>3. /\ Logged(log, "human_decision", j) \in Nat /\ Logged(log, "routed_to_human", j) \in Nat
        /\ InStub(waiting', j) \in Nat
    BY <1>2, <1>4
  <2> QED
    BY <2>1, <2>2, <2>3
<1> QED
  BY <1>1, <1>2, <1>3, <1>5 DEF GovInv, TrailComplete

LEMMA HaltKeeps == GovInv /\ Halt => GovInv'
<1> SUFFICES ASSUME GovInv, Halt PROVE GovInv'
  OBVIOUS
<1>1. PICK E : log \in Seq(E)
  BY DEF GovInv
<1>2. verify_chain(log)
  BY DEF GovInv, TrailComplete
<1>3. log' = Appended(log, "halt", "none") /\ UNCHANGED <<waiting, returned>>
  BY DEF Halt
<1>4. /\ verify_chain(log') /\ \E F : log' \in Seq(F)
      /\ \A e, j : /\ Logged(log, e, j) \in Nat
                   /\ Logged(log', e, j) = Logged(log, e, j)
                        + IF e = "halt" /\ j = "none" THEN 1 ELSE 0
  BY <1>1, <1>2, <1>3, ChainGrows, LoggedAfter
<1>5. \A j : /\ Logged(log', "auto_approved", j) = Logged(log, "auto_approved", j)
             /\ Logged(log', "human_decision", j) = Logged(log, "human_decision", j)
             /\ Logged(log', "draft_produced", j) = Logged(log, "draft_produced", j)
             /\ Logged(log', "routed_to_human", j) = Logged(log, "routed_to_human", j)
  BY <1>4
<1> QED
  BY <1>3, <1>4, <1>5 DEF GovInv, TrailComplete

\* Whatever reached a caller is in the log, as often as it did and after its
\* draft and its routing, and the chain verifies: for any set of items, any
\* number of reviews and any nesting of reviews in the human stub
\* (hitl_example.py:112, 132).
THEOREM TrailIsComplete == Spec => []TrailComplete
<1>1. Init => GovInv
  BY GovInitial DEF Init
<1>2. GovInv /\ [Next]_vars => GovInv'
  <2> SUFFICES ASSUME GovInv, [Next]_vars PROVE GovInv'
    OBVIOUS
  <2>1. CASE GovNext
    BY <2>1, AutoApproveKeeps, RouteToStubKeeps, DecideKeeps, ReviewFailsKeeps, HaltKeeps
       DEF GovNext
  <2>2. CASE UNCHANGED govVars
    BY <2>2 DEF govVars, GovInv, TrailComplete
  <2> QED
    BY <2>1, <2>2 DEF Next, vars, govVars
<1>3. GovInv => TrailComplete
  BY DEF GovInv
<1> QED
  BY <1>1, <1>2, <1>3, PTL DEF Spec
=============================================================================

----------------------------- MODULE Supervisor -----------------------------
(***************************************************************************)
(* P1 Supervisor-Collaborator (patterns/p1_supervisor.py): plan, a         *)
(* parallel fan-out to n_collaborators, synthesis.  _parallel runs the     *)
(* branches one after the other, each from the same base time, and charges *)
(* the request the longest of them; the first error is raised after all of *)
(* them have run.                                                          *)
(***************************************************************************)
EXTENDS Pattern

CONSTANT n_collaborators

ASSUME CollaboratorsAssumption == n_collaborators \in Nat \ {0}

VARIABLE fanout   \* _parallel: [base, durations, error]

NoFanout == [base |-> 0, durations |-> <<>>, error |-> NoFault]

FanoutType == [base : Nat, durations : Seq(Nat), error : FaultType \cup {NoFault}]

P1Init == fanout = NoFanout

P1Begin(i, start, inFlight) ==
    run(i, start, inFlight, "P1.plan") /\ fanout' = NoFanout

\* Each collaborator handles its share of the steps, rounded up.
steps_per_branch == CeilDiv(work_steps, n_collaborators)

\* One model-backed call of a collaborator.
CollaboratorCall(c, agent) ==
    IF OnBedrock THEN invoke_agent(armed, c) ELSE send(armed, c, <<agent>>)

\* A branch makes its calls in order and stops at the first failure.
Branch(c, agent) ==
    LET after[j \in 0..steps_per_branch] ==
            IF j = 0 THEN {Ok(c)}
            ELSE Then(after[j - 1], LAMBDA d : CollaboratorCall(d, agent))
    IN  after[steps_per_branch]

Plan ==
    /\ pc = "P1.plan"
    /\ \E r \in invoke_agent(armed, ctx) :
         \/ /\ r.ok
            /\ Goto(r.ctx, "P1.branch")
            /\ fanout' = [NoFanout EXCEPT !.base = r.ctx.elapsed_s]
         \/ Raise(r) /\ UNCHANGED fanout

\* branches start together
StartOfBranch(c) == [c EXCEPT !.elapsed_s = fanout.base]

\* Mutant: a later branch that succeeds clears the error.
lastError(r) == r.fault

\* the error of the fan-out is that of the first branch that failed
BranchError(r) ==
    IF fanout.error = NoFault /\ ~r.ok THEN r.fault ELSE fanout.error

\* Mutant: a branch that failed does not count.
onlySuccesses(r) == IF r.ok THEN r.ctx.elapsed_s - fanout.base ELSE 0

\* a failed branch is accounted too
Duration(r) == r.ctx.elapsed_s - fanout.base

RunBranch ==
    /\ pc = "P1.branch"
    /\ Len(fanout.durations) < n_collaborators
    /\ \E r \in Branch(StartOfBranch(ctx), "collab") :
         /\ fanout' = [fanout EXCEPT
                          !.durations = Append(@, Duration(r)),
                          !.error = BranchError(r)]
         /\ Goto(r.ctx, "P1.branch")

\* The request pays the longest branch; then the error, if any, is raised.
JoinBranches ==
    /\ pc = "P1.branch"
    /\ Len(fanout.durations) = n_collaborators
    /\ LET c == [ctx EXCEPT !.elapsed_s = fanout.base + Max(ToSet(fanout.durations))]
       IN  IF fanout.error = NoFault
           THEN Goto(c, "P1.synthesize")
           ELSE Return(c, ErrorStatus(fanout.error))
    /\ UNCHANGED fanout

\* On an error the content scale stays as set: only reset_request clears it.
Synthesize ==
    /\ pc = "P1.synthesize"
    /\ \E r \in invoke_agent(armed, Scaled(ctx, work_steps)) :
         \/ r.ok /\ Return(Unscaled(r.ctx), "ok")
         \/ Raise(r)
    /\ UNCHANGED fanout

P1Next == Plan \/ RunBranch \/ JoinBranches \/ Synthesize
=============================================================================

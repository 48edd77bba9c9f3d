----------------------------- MODULE Blackboard -----------------------------
(***************************************************************************)
(* P4 Shared-Memory Blackboard (patterns/p4_blackboard.py).  On Bedrock    *)
(* the board lives in the memory store: each of n_specialists reads it,    *)
(* contributes, and writes its copy back.  On Agentforce the board is a    *)
(* list the contribute action appends to, behind one memory call per       *)
(* specialist.                                                             *)
(***************************************************************************)
EXTENDS Pattern

CONSTANTS
    n_specialists,
    contention_per_writer_s

ASSUME BlackboardAssumption ==
    /\ n_specialists \in Nat \ {0}
    /\ contention_per_writer_s \in Nat

VARIABLES
    board,      \* the stored contributions, by specialist
    boardRead,  \* the copy the current specialist read
    turn        \* specialists that have had their turn

blackboard == <<board, boardRead, turn>>

P4Init == board = <<>> /\ boardRead = <<>> /\ turn = 0

\* Every item has a memory key, or a list, of its own.
P4Begin(i, start, inFlight) ==
    /\ run(i, start, inFlight, IF OnBedrock THEN "P4.create" ELSE "P4.store")
    /\ board' = <<>>
    /\ boardRead' = <<>>
    /\ turn' = 0

\* The steps each specialist covers.
share == CeilDiv(work_steps, n_specialists)

\* Mutant: the request itself is taken off the writers twice.
contentionTwice(c) ==
    add_delay(c, contention_per_writer_s * (Max({1, c.concurrent_in_flight}) - 2), TRUE)

contention_delay(c) ==
    add_delay(c, contention_per_writer_s * (Max({1, c.concurrent_in_flight}) - 1), TRUE)

\* Bedrock: memory_put(key, []).
CreateBoard ==
    /\ pc = "P4.create"
    /\ \E r \in memory_op(armed, ctx) :
         \/ r.ok /\ Goto(r.ctx, "P4.read") /\ board' = <<>>
         \/ Raise(r) /\ UNCHANGED board
    /\ UNCHANGED <<boardRead, turn>>

\* memory_get: by the next specialist, or after the last one for the final count.
ReadBoard ==
    /\ pc = "P4.read"
    /\ UNCHANGED <<board, turn>>
    /\ \E r \in memory_op(armed, ctx) :
         \/ /\ r.ok
            /\ turn < n_specialists
            /\ boardRead' = board
            /\ Goto(r.ctx, "P4.contribute")
         \/ /\ r.ok
            /\ turn = n_specialists
            /\ boardRead' = board
            /\ Return(r.ctx, IF Len(board) = n_specialists THEN "ok" ELSE "error")
         \/ Raise(r) /\ UNCHANGED boardRead

\* The specialist's model call, then the contention delay.
Contribute ==
    /\ pc = "P4.contribute"
    /\ \E r \in invoke_agent(armed, Scaled(ctx, share)) :
         \/ /\ r.ok
            /\ boardRead' = Append(boardRead, turn + 1)
            /\ Goto(contention_delay(Unscaled(r.ctx)), "P4.write")
         \/ Raise(r) /\ UNCHANGED boardRead
    /\ UNCHANGED <<board, turn>>

\* Mutant: the specialist writes back only its own contribution.
writeOwnOnly == <<Last(boardRead)>>

\* memory_put(key, board): what is written is the whole copy.
Written == boardRead

WriteBoard ==
    /\ pc = "P4.write"
    /\ \E r \in memory_op(armed, ctx) :
         \/ /\ r.ok
            /\ board' = Written
            /\ turn' = turn + 1
            /\ Goto(r.ctx, "P4.read")
         \/ Raise(r) /\ UNCHANGED <<board, turn>>
    /\ UNCHANGED boardRead

\* Agentforce: contention, memory call; any store failure returns "error".
StoreTurn ==
    /\ pc = "P4.store"
    /\ \E r \in memory_op(armed, contention_delay(ctx)) :
         \/ r.ok  /\ Goto(r.ctx, "P4.send")
         \/ ~r.ok /\ Return(r.ctx, "error")
    /\ UNCHANGED blackboard

Contributions == [j \in 1..Max({1, share}) |-> "contribute"]

\* The topic runs the contribute action once per step of the share.
SendTurn ==
    /\ pc = "P4.send"
    /\ \E r \in send(armed, Scaled(ctx, share), Contributions) :
         \/ /\ r.ok
            /\ board' = board \o [j \in 1..Len(Contributions) |-> turn + 1]
            /\ turn' = turn + 1
            /\ IF turn + 1 < n_specialists
               THEN Goto(Unscaled(r.ctx), "P4.store")
               ELSE Return(Unscaled(r.ctx),
                           IF Len(board') = n_specialists * Max({1, share})
                           THEN "ok" ELSE "error")
         \/ Raise(r) /\ UNCHANGED <<board, turn>>
    /\ UNCHANGED boardRead

P4Next == CreateBoard \/ ReadBoard \/ Contribute \/ WriteBoard \/ StoreTurn \/ SendTurn
=============================================================================

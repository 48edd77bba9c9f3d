----------------------------- MODULE TaskLedger -----------------------------
(***************************************************************************)
(* What the CRM-to-agent bridge of anchor/p7 promises its target: the      *)
(* tasks reach the agent in the order they were published.  With the       *)
(* idempotent ingress each reaches it once; without, a task may come again *)
(* directly after itself, at most once per crash of the bridge.            *)
(***************************************************************************)
EXTENDS Naturals, Sequences

CONSTANTS
    N,              \* tasks 1..N, numbered in publishing order
    MaxRepeats      \* repeats that may occur in all

VARIABLES
    log,            \* the invocations the agent has received
    repeats,        \* how many of them were repeats
    allowRepeats    \* no ingress: repeats are possible

ledger == <<log, repeats, allowRepeats>>

Latest == IF log = <<>> THEN 0 ELSE log[Len(log)]

LedgerInit ==
    /\ log = <<>>
    /\ repeats = 0
    /\ allowRepeats \in BOOLEAN

\* The next task, for the first time.
Invoke ==
    /\ Latest < N
    /\ log' = Append(log, Latest + 1)
    /\ UNCHANGED <<repeats, allowRepeats>>

\* The latest task, once more.
InvokeAgain ==
    /\ allowRepeats
    /\ log # <<>>
    /\ repeats < MaxRepeats
    /\ log' = Append(log, Latest)
    /\ repeats' = repeats + 1
    /\ UNCHANGED allowRepeats

LedgerNext == Invoke \/ InvokeAgain

LedgerSpec == LedgerInit /\ [][LedgerNext]_ledger
=============================================================================

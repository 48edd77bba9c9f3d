# TLA+ models of the multi-agent orchestration patterns

This directory holds TLA+ specifications of the repository: the seven
orchestration patterns with the call boundary and the fault injector they share,
the fault campaign and the load generator that drive them, the two live probes
of `anchor/p7` (the replay-cursor bridge and the retry agent), the study with its
grading rules and the sensitivity sweep, the seven-pattern live run with its
provisioning, and the three gates that put a human between a result and its use.
TLC checks them on small instances; TLAPS proves theorems about every one of these
parts, for all values of their constants.

Paths below are relative to the repository root.

## 1. The system

| Part | State it keeps | Operations | What makes it correct |
|---|---|---|---|
| Fault injector (`src/agentorch/faults.py`) | one armed entry per component: fault, probability, unit, window | `arm`, `arm_window`, `disarm`, `window_end`, `check` | a fault hits the armed unit only, an outage only inside its half-open window |
| Call context (`clients/context.py`) | per-request accumulators; the request's place on the simulated timeline | `reset_request`, `add_delay`, `boundary_call` | nothing of one request leaks into the next; the human wait is part of the elapsed time |
| Mock clients (`clients/bedrock.py`, `clients/agentforce.py`) | memory store, event subscribers, human queues | `invoke_agent`, `gateway_call`, `memory_get/put`, `apply`, `send`, `run_agent_script`, `publish_event`, `handoff` | calls are billed and counted once, failures raise, a bus outage is waited out |
| Patterns P1 to P7 (`patterns/`) | P1 fan-out, P2 stage, P3 subscriptions and request log, P4 board, P5 results and failures, P6 pause tokens, queue and decision log, P7 remote context | `run` / `_execute` per request | "ok" means the pattern's whole work; faults are contained as the pattern's consequences say |
| Fault campaign (`rig/faultcampaign.py`) | per-request outcomes of a cell | `relevant_components`, `run_cell`, `classify_cell` | a cell's class follows from requests the fault really hit |
| Load generator (`rig/loadgen.py`) | free time per server, completions | `run_open_loop` | a first-come-first-served pool; time never goes back |
| Bridge probe (`anchor/p7/bridge_probe.py`) | replay cursor, ingress ids, invocations, deliveries, crash count | subscribe, poll, handle event, crash, resume | no task skipped; duplicates only through crashes, none with the ingress |
| Retry agent and probe (`anchor/p7/agent_retry/agent_app.py`, `anchor/p7/retry_probe.py`) | per worker: entries, executions, results, in-flight events | handler threads; the SDK's reissues | single flight; duplicates never under-reported; nobody waits for ever |
| Comparison and grades (`stats/`, `study/make_table4.py`, `study/make_fit_matrix.py`) | none | `compare`, `holm`, `_dominated_grades`, `build_table4`, `build_fit_matrix` | a grade depends on the measurements, not on names, order or level |
| Study and sweep (`study/run_study.py`, `scripts/sensitivity_sweep.py`) | per variant: tables, manifest, fit matrix; the summary files | `run_study`, `run_sweep` with `--only`, `--quick`, `--force` | what is reported is of the configuration it is reported for |
| Provisioning (`anchor/agentcore/provision_all7.py`, `provision_gateway_target.py`, `deploy_*.py`) | the account's resources, images, runtimes; `resources_all7.json`, `runtimes_released.json` | ensure, save, attach a target, build, upsert | running again makes no second resource |
| Live run (`run_all7.py`, `analyze_all7.py` over `agent_released/`) | record files, summary, printed table | invoke, write records, summarise, analyse | a table is backed by the records that are committed |
| Task gate (`orchestration/all7/`) | `prd.json`, `progress.txt` | `gen_prd.py`, `mark.py` | dependencies first; a human gate only with an approver |
| Governor (`governance/hitl_example.py`) | hash-chained log, halted flag | `review`, `halt`, `verify_chain` | nothing is released unlogged or after the stop |

How they interact. The load generator sets a request's start time and in-flight
count on the pattern's context and calls `run`; the pattern makes client calls;
every client call goes through `boundary_call`, which asks the injector and
advances the time. The campaign wraps `run` to record what a request saw. On
Agentforce, P3's `publish_event` calls the subscribed handlers, which publish
again: a callback chain on one stack. P7 has a second context on the other
platform that shares the injector. The bridge probe talks to a retaining event
channel and an agent; the retry probe and its agent share only the wire. The
sweep calls the study and both graders and leaves files that its next run reuses.
The provisioning scripts leave JSON files and cloud resources that the deployment
and the live run use, the run leaves records and a summary for the analysis, and
each of these scripts is started by hand. The governor calls a human stub, which
may call the governor. Overlapping runs of `mark.py` share a file.

What is hard. Faults in the middle of a request and what they leave for the
next one (one pattern object serves all requests); partial failure of a fan-out
or of a tool loop; outage windows on a timeline of float sums; crashes between
an effect and its record; lost and starved sessions; reissues that overtake the
call they duplicate; several worker processes; the end of a run; files of an
earlier, interrupted or differently configured run that a later one trusts;
scripts refused halfway; unlocked read-modify-write of a shared file; callbacks
that re-enter their caller or stop it. The list with lines is under `hazards` in
`PROJECT.json`.

## 2. Modules

| Module | Models | Uses |
|---|---|---|
| `CallContext` | injector, call context, client entry points, as operators on a context record | |
| `Pattern` | the frame of a request: platform, armed entry, context, item, next call, result | `CallContext` |
| `Supervisor`, `Pipeline`, `Choreography`, `Blackboard`, `Gateway`, `Hitl`, `Bridge` | P1 to P7, each with its own state, entry action and client-call actions | `Pattern` |
| `FaultCampaign` | one campaign cell over any pattern, and the properties | the seven patterns |
| `CallProofs` | lemmas about the client calls and their chains | `CallContext` |
| `FaultCampaignProofs` | theorems about the campaign and the seven patterns | `FaultCampaign`, `CallProofs` |
| `BridgeProbe` | `run_probe` of the bridge | `TaskLedger` (refinement) |
| `TaskLedger` | abstract: what a bridge promises its target | |
| `BridgeProbeProofs` | theorems about `BridgeProbe` | `BridgeProbe` |
| `RetryAgent` | one logical call, its wire attempts and the agent's threads | |
| `LoadGen` | `run_open_loop` | |
| `LoadGenProofs` | theorems about `LoadGen` | `LoadGen` |
| `RetryAgentProofs` | theorems about `RetryAgent` | `RetryAgent` |
| `StudyRules` | comparison, correction, grades, fit matrix, and what the sweep compares, as operators on samples | |
| `Sweep` | `run_sweep` over `run_study` and the files both leave behind | `StudyRules` |
| `SweepProofs` | theorems about the sweep and the grading rules | `Sweep` |
| `Provisioning` | the account, the inventories, and the scripts that change them | |
| `LiveRun` | the driver, the deployed agent, the records and the analysis | `Provisioning` |
| `LiveRunProofs` | theorems about provisioning, summaries and tables | `LiveRun` |
| `TaskGate` | `gen_prd.py` and overlapping runs of `mark.py` | |
| `Governor` | `HitlGovernor` and `AuditLog` | |
| `Adjudication` | P6's `pause` and `resume` in any order | |
| `Oversight` | one behaviour exercises one of the three gates | `TaskGate`, `Governor`, `Adjudication` |
| `OversightProofs` | theorems about the gates | `Oversight` |
| `MC*` | values of the constants for TLC | the module named |

Definitions marked "Mutant" are faulty variants of the definition below them.
Nothing in the specifications uses them; each stands for a plausible mistake
that one of the properties has to notice.

### 2.1 Calls and requests

A client call is an operator that returns the *set* of its possible responses
`[ctx, ok, fault]`: the latency sample is any member of `LatencySamples`, and a
probabilistic fault fires or not. `ok = FALSE` is the raised client error;
`Then` runs the rest of a call chain on the successes. Time is counted in whole
ticks of the simulated timeline. Tokens are counted in default-sized
invocations, since both token counts scale with `content_scale` alone;
`faults_seen` is a set and `services_called` a count, because only membership
and number are ever used.

Floats matter at one place. After a wait for the end of an outage window, the
code's `request_start_ts + (elapsed_s + wait)` may round below the end.
`WaitUntil` therefore falls short by a member of `RoundDown`; `{0, 1}` stands
for "exact" and "one unit too early". A tick is far more than a rounding error,
but only the order of the resumed time and the window end matters, since the
call that follows either meets the window or does not.

A request is a straight line of calls, so an action is one client call with the
Python between it and the next one; `pc` names the next call. The few chains in
which nothing can be observed between the calls (a model step followed by its
actions, a P1 branch) are one action built with `Then`. `Raise` is the handler
`except (BedrockClientError, AgentforceClientError)`.

- **P1** runs the branches one after the other from the same base time, as
  `_parallel` does; `fanout` holds the base, durations and first error.
- **P2** has the stage counter. An item with `staged` carries its own stage list.
- **P3** keeps the nested deliveries of Agentforce as a stack, innermost first.
  `subscriptions` counts how often handlers were registered for an event.
- **P4** keeps the stored board and the copy a specialist read (Bedrock), or
  the list behind the contribute action (Agentforce).
- **P5** calls the tools round-robin; results and failures are sets of tools.
- **P6** keeps pause tokens, the adjudication queue, the decision log.
- **P7** keeps the remote context, which no request resets.

`FaultCampaign` chooses pattern, platform and cell in the initial state (the
cells of a campaign are independent: each builds its own context and pattern),
runs `MaxRequests` requests through the one pattern object, records them as
`run_cell` does and classifies the cell. Cells are taken on the structural path
only, as in `run_campaign`. `NoFault` cells are baseline
runs. Service starts never go back in time, which is `StartsInOrder` of
`LoadGen`, proved there.

### 2.2 The bridge probe

The channel is the sequence `Stream` of retained events; a task is its
publishing number, 0 stands for foreign and stale events. The cursor is the
number of events behind it. One action per outcome of a poll (refused, events,
none) and per branch of the event loop; the injected crash is part of
`InvokeAgent`. An empty poll chooses whether the channel has been quiet for
`idle_seconds_to_finish` and the session starved for
`resubscribe_after_seconds`; `late` is set once `max_run_seconds` have passed.
`Abort` is any exception of the HTTP or agent calls, which `run_probe` does not
catch. The server sends the events behind the session's subscription in order;
batch boundaries are arbitrary. The pause and the token refresh before a new
session have no state of the probe. `ingress_on` is chosen in the initial state,
so each run covers both conditions.

### 2.3 The retry agent

A handler thread is named by the wire attempt that started it. Every section
under `_LOCK` is one action, every unlocked read and `ev.set()` another. The
tables are per worker process; an attempt may be delivered late, after later
ones, never, or to any worker. The cold work takes longer than the client's read
timeout, because `main` refuses a configuration in which it does not. The SDK
(`Send`, `OpenAttempt`) is external: standard retry mode, one attempt open at a
time, reissued after a read timeout up to `max_attempts`. One idempotency key is
modelled; the tables' entries for different keys never meet.

### 2.4 The load generator

One action is one iteration of the loop. The demand of a request (its service
time and its nonblocking share) is a choice from `Demands`;
`nonblocking <= service` is the one assumption; `TimesAccounted` of the campaign
says it of every pattern, checked by TLC and proved (`CriticalPathCharged`).

### 2.5 The study and the sweep

What a study measures depends on its configuration alone, master seed included,
so a file is described by its state (absent, whole, torn) and the configuration
it was computed from. `Measured` maps a configuration to samples, in one of
several `Worlds`; the grades and comparisons of `StudyRules` are computed from
them by the code's rules, so two files of different configurations really differ
in what they add up to. A sweep is three steps per variant and one for the
summary (`Obtain`, `Grade`, `Publish`); `Die` may happen in any of them, between
two files or inside one. Reading a torn table either raises or yields what is
left of it; what such tables add up to is left open. `git_rev` in the manifest
is compared by nothing and is left out.

Samples are sequences of whole numbers. Ranks, medians and percentiles are
operators over order statistics; `scipy.stats.mannwhitneyu` is external: its
p-value is any function that does not grow with the effect (`RulesAssumption`),
which is all that the rules use. Of the measurements it is assumed
(`MeasuredAssumption`) that every pattern runs a condition twice at least, that
times and costs are positive, and that a run under faults fails or does not. The
samples of two patterns may differ in length: a pattern meets the faults of the
components on its own path, and a component on a rare path is run longer
(`rig/faultcampaign.py:239-257`). Medians are kept twofold and percentiles a
hundredfold, so that no fraction is rounded.

### 2.6 Provisioning and the live run

`cloud` holds, per kind, the ids of the resources with the run's name; `Ensure`
is one `ensure_*` function: found, planned (`--dry-run`) or created. An existing
gateway is entered again without its url and target, as the code does. `Stops` is
any refusal, exception or death of a script: what it made stays, what it held is
lost. The scripts run one at a time, in any order, from an empty account or from
the state the repository's JSON files describe. An image is known by what it was
built from: the released modules, a tree whose patterns make other calls, or an
agent that does not import them. `handler` is the set of answers of a deployed
agent; a configured gateway without target or permission fails the request.
`CutShort` leaves a record file with a part of its records.

The JSON files of `Provisioning` are written in one step: they are a few hundred
bytes, and a torn one raises in every reader.

### 2.7 The three gates

`TaskGate`: a run of `mark.py` reads the file, checks what it read, replaces the
file and appends to `progress.txt` in separate steps, so runs and generations
interleave; `GivesUpMark` is a refusal or a death between the writes, and
`unrecorded` remembers the latter. `Governor`: what runs between two calls of the
human stub is one action; `waiting` is the stack of reviews inside the stub, so
the stub may start a review, halt, fail or answer. An entry's hash is the tuple
it commits to, which makes hashes equal exactly when contents are.
`Adjudication`: a pause is named by its number, which stands for the draft it
saves. The three share nothing; `Oversight` lets a behaviour exercise one of
them, instead of multiplying their states.

## 3. Runs

| Run | Checks | Instance | Result |
|---|---|---|---|
| `campaign` | 8 invariants, `CellCompletes` | 7 patterns, 2 platforms, 4 faults and none, 2 requests, 4 item shapes, window [1, 4), starts 0, 2, 4, samples 1, 2 | holds, 744,822 states |
| `bus_outage` | `BusOutageAbsorbed` | same | violated (finding) |
| `traversed` | `TraversedMeansFired` | same | violated (finding) |
| `bridge_probe` | 5 invariants, `LedgerRefined`, `RunEnds` | 4 tasks, 3 foreign events, 3 crashes | holds, 3,387 states |
| `run_bounded` | `RunEnds` without the assumption on the server | same | violated (finding) |
| `retry_agent` | `SingleFlight`, 2 action properties, `WaitersWake`, `CallEnds` | 4 attempts, 1 worker | holds, 269,256 states |
| `load_generator` | 3 invariants | 5 requests, 2 servers (P3: 1 scaled by 2), 3 gaps, 3 demands | holds, 66,430 states |
| `study` | 5 invariants, `ForcedSweepHonest` | baseline and a variant, quick or not, 4 worlds, 3 sweeps, 1 death | holds, 62,108 states |
| `stale_fit` | `SummaryHonest` | same, 2 sweeps | violated (finding) |
| `all7` | 3 invariants | P5 and P6, 3 scripts, 1 death, 2 images, 2 prefixes, 0 or 2 requests | holds, 2,059,566 states |
| `mixed_images` | `OneArtifact` | same | violated (finding) |
| `oversight` | 6 invariants, `EmergencyStop` | 1,152 backlogs of 3 tasks, 2 marks, 2 generations; 4 drafts nested 3 deep; 5 pauses of 2 items | holds, 246,830 states |

What each passing run shows, property by property, is said in the comment above
the property in its module.

Why the bounds are enough.

- *campaign.* Two requests are the least with which one request can leave
  something behind for another; a third sees nothing that the second does not,
  since all that survives a request is in the pattern's state. The item shapes
  are S1 (one step, confident or not), S3 (two steps) and a miniature of S2
  (three steps with their own stage list). Two collaborators, specialists
  and tools make a first and a later one; three steps over two of them make the
  shares round. The starts lie before, inside and after the window, and calls
  of length 1 and 2 reach each of its edges. A probability of 50 stands for
  every value strictly between 0 and 1. The theorems remove these bounds for
  all eight invariants.
- *bridge_probe.* Foreign events lie at the front, in the middle and at the end,
  and four tasks with three crashes allow a crash on the first, a middle and the
  last task, and several on one task. The theorems remove these bounds.
- *retry_agent.* Four attempts give an owner, a waiter, one that comes after the
  memo, and one that comes after a failure. Two workers are separate tables, so
  one worker is the case for which the agent makes its promise. The theorems
  remove the bound on attempts for all three safety properties, and the bound on
  workers for single flight and for the suppressed result.
- *load_generator.* With two servers and five requests the queue backs up, and
  human waits release a server early. The theorems remove these bounds for all
  three invariants.
- *study.* Three sweeps are the least with which the tables of a study that died
  can be met: one leaves a manifest, the second dies beside it, the third trusts
  it. A variant of another load and the quick mode, which changes the size, are the
  ways configurations differ. The worlds differ in who is slow, who is costly,
  how samples tie and which pattern fails. The theorems remove these bounds for
  all six properties, the tables of measurements included.
- *all7.* P5 needs a service that can be configured and still unreachable, P6
  is the pattern whose counts are not compared: the guards distinguish no
  others. Three scripts are the least that break the promises when a guard is
  missing (deploy, run, run again, from the committed state), and one of them
  may die. The theorems remove these bounds for all three invariants.
- *oversight.* Three tasks are in order, out of order or doubled, with every
  choice of dependencies, themselves and later ones included. Two marks are the
  least that overwrite each other, two generations the least in which one comes
  between a read and a write. The theorems remove these bounds for all seven
  properties. Symmetry is taken over the marks, which are alike, and over
  the prefixes in `all7`; neither run checks liveness.

`CHECK_DEADLOCK FALSE` stands where the system stops: a cell ends, a probe ends,
a call is recorded, the items run out, the bounds on scripts, sweeps, marks,
drafts and pauses are used up.

### Fairness

- `FaultCampaign!Spec`: `WF(Next)`. The rig is one sequential loop.
- `BridgeProbe!FairSpec`: weak fairness of the probe's own steps, of time, and
  of *some* answer to each poll (the HTTP calls have timeouts). Under it the run
  need not end (`run_bounded`). `ServedSpec` adds strong fairness of the empty
  poll: the server does not refuse, or fill, every poll from some time on. That
  is an assumption on the environment, which the code cannot enforce; `RunEnds`
  holds under it.
- `RetryAgent!Spec`: weak fairness of each started thread, of the SDK's next
  attempt and of its read timeout. Nothing is assumed of the delivery of an
  attempt nor of `waiter.wait`'s own timeout, so `WaitersWake` says that the
  event alone is enough.

### What the findings say

Five statements of the repository about itself are not met; each has a violation
run and is quoted under `findings` in `PROJECT.json`. A bus outage is not always
absorbed; later P7 requests count as traversing a remote fault that fired
earlier; the run bound of the bridge probe is not enforced while polls are
refused; a sweep reuses a fit matrix of another configuration; the analysis never
compares image digests. The passing properties state the strongest thing that
does hold next to each (`BusOutageAbsorbedUpToRounding`, `ContainmentTable`,
`RunEnds` under `ServedSpec`, `ForcedSweepHonest` and `DataMatchesHash`,
`TableIsBacked`).

Smaller divergences between text and code, met while modelling and kept in the
models as the code has them:

- `p5_gateway.py:34` says that a failed tool does not crash the request;
  `all_failed` (`p5_gateway.py:101`) counts a tool as failed if any of its calls
  failed, so in a multi-step item every tool may have failed once and succeeded
  once, and the request is an error. Under one faulted tool this cannot happen
  (`BulkheadHolds`).
- `p6_hitl.py:142` says that a deferred item stays queued; `pause` replaces the
  queue by an empty one before the handoff that fails. Nothing reads the queue,
  and the decision follows (`HumanDecides`).
- A study that dies between its tables and its manifest leaves the manifest of an
  earlier study in the directory; a later sweep of the earlier configuration finds
  its hash and reads the dead study's tables, although the reuse is called
  hash-guarded (`tests/test_sensitivity_sweep.py:6`). `DataMatchesHash` says how far
  this goes: what is read is of the sweep's configuration or of a study that died
  in that directory since its last whole one, never of an older one.
- `p6_hitl.py:83` calls the paused state durable where a handoff failed. That is so
  on Bedrock (`PausedIsDurable`); on Agentforce the emptied queue does not even
  name the item, and draft and confidence are in the pattern object alone.
- A pause token names the item, so a human's answer to a draft that a second pause
  has replaced meanwhile is logged for the newer draft. Nothing in the repository
  says otherwise; `DecidedOncePerPause` says that the replaced pause is never
  decided and the newer one once.
- With more than one worker process a duplicate is silent in the retry probe's
  record (`agent_app.py:75` calls such an undercount the one error the probe must
  not have); `NoSilentDuplicate` is checked, and proved, for one worker.
- `mark.py:3` says that a human-gated task is refused at all; the flag
  `--human-approved-by` lets it pass, as a comment further down says.
  `gen_prd.py:6` says that it alone writes `prd.json`; `mark.py:49` does too.
- The write of one `mark.py` undoes the marks of another that ran since its read.

## 4. Proofs

### `BridgeProbeProofs`

Assumed: the numbers are naturals, the channel is a finite sequence, and
`publish_tasks` has put every task into it once, in order
(`PublishedAssumption`). The number of tasks and of crashes, the placing of
foreign events and the batches are arbitrary.

None of the safety properties is inductive. `Inv` strengthens them to: the
invoked tasks are exactly `1..HighWater` (`InvokedPrefix`); every event behind
the cursor has a task up to `HighWater` (`CursorBehind`); every invoked task
lies behind the cursor or is the one event right after it
(`InvokedUpToCursor`). The last part is the heart of it: a crash leaves at most
one executed event in front of the cursor, and since each task is published
once, this is the only event that can ever be delivered twice. `Pending` is 1
while there is such an event, and `CrashesPaid` says that redeliveries plus
`Pending`, and without the ingress duplicates plus `Pending`, *are* the crashes:
the crash that makes an event pending pays for the repeat, which uses the pending
event up or is itself followed by another crash. With the
ingress `OnceWithIngress` says that the invocations are `1, 2, 3, ...`.

From `Inv` follow `TypeCorrectness`, `IngressStopsDuplicates`,
`DuplicatesArePaidFor`, `NothingIsSkipped`, `CrashesAreAccounted` and
`BridgeImplementsLedger`: `InvokeAgent` is `Invoke` of the ledger for the next
task and `InvokeAgain` for the pending one, everything else a stutter.

### `LoadGenProofs`

For every pool size, number of requests, arrival schedule and demand with
`nonblocking <= service`. A request starts at its submission or when the first
server is free. `StartsBehindPool` keeps exactly that: a start lies before the
last arrival or before *every* server's free time, and free times only grow, so
the next start is not earlier. `BookedUntilFree` says that a booking ends when
its server is next free. `TimeNeverGoesBack` and `NoDoubleBooking` follow.

`ContentionNotUnderstated` counts. A request is told of those that are open when it
is submitted; it starts no earlier, so they include everyone open at its start,
and nobody but its predecessors (`ServeCountsOpen`). Later iterations change no
finished entry.

### `RetryAgentProofs`

For every number of wire attempts and of worker processes, and with or without
the ingress.

*Single flight.* `SingleFlight` is not inductive: it says nothing of the table
of events in flight. `FlightInv` adds, with the ingress on: whoever works or is
about to work is registered at its worker (`Owned`), whoever is registered works
(`Registered`), nobody is registered once the result is memoized
(`MemoIsFinal`), and the executions of a worker are the failed ones, plus one if
the work is running or memoized (`Counted`). Two working threads of one worker
are then the same registered thread, and `EXECUTIONS <= 1 + failed`.

*Suppressed duplicates.* `DuplicateCarriesResult` needs two more facts
(`WaitInv`): whoever waits, waits for a started thread of its own worker, and an
event is set only after the work of its owner was memoized or failed. Memoized
results and failures stay, so a wait that ended finds one or the other. That the
awaited thread exists at all rests on `Registered`. A wait that times out is not
covered, as in the property.

*Duplicates show.* `DuplicatesShow` is proved for one worker process, the case in
which it is true, and any number of attempts. With the ingress, `FlightInv` leaves
one execution unless the work raised. Without it, `ColdInv` follows each thread: a
worker is warm only after an execution, so work that finds it warm counts two at
least; and a thread that answers "one execution" ran cold, which outlasts the
client's read timeout, so its attempt has expired and its answer reaches nobody.
That last fact is why `main` refuses a read timeout longer than the cold work.
`WaitersWake` and `CallEnds` are liveness and stay with TLC.

### `OversightProofs`

*Task gate.* A run of `mark.py` writes back a file as it was once, possibly from
before a generation or another run, so the file alone is no invariant. `GateInv`
asks of every copy a run holds what it asks of the file: it is closed under
dependencies, and its human-gated tasks have a clearance in `progress`, in a run
about to record it, or in one that died there; and a run about to record has
passed the approval check for exactly the ids it holds. Clearances are never
lost, so an old copy stays good. `DependenciesHold` and `ApprovalIsNamed` follow,
for every backlog, with no assumption on its order: closure needs only what
`mark.py` itself checks.

*Adjudication.* `AdjInv` adds to `DecidedOncePerPause` that the pause an item
holds is newer than its decided ones and no number is above the counter, which
makes the next decision newer than all before it. `NoDecisionTwice` and
`TokensAreStored` follow.

*No deadlock of the gate.* `GateNeverLocks` is an argument by the least
counterexample, not by induction over the backlog: `gen_prd.py` accepts only
backlogs in which every dependency has a smaller id (`check`), whoever has seen a
file has seen one made from such a backlog (`CheckedInv`), and of the open tasks
the one with the least id has no open dependency.

*Governor.* `StopIsFinal` needs no invariant: once halted, every step but a
failing review raises. `TrailIsComplete` rests on `GovInv`: appending to a chain
that verifies gives a chain that verifies, whatever the entry says, and each
step adds to the log exactly the entries whose kinds the counts of
`TrailComplete` compare (drafts, automatic approvals, routings, decisions,
dispositions handed out, reviews waiting), one lemma per kind of step. A review
that fails inside the stub leaves its routing undecided, which is why the last
count is a bound and not an equality.

### `LiveRunProofs`

`ProvInv` says of the account that no kind has two resources, of the inventory
*and of the copy a script holds* that they name existing ones, and that the
target has been cleared where a new one is about to be made.
`ProvisioningIdempotent` follows for every set of patterns and every number of
scripts, deaths and images.

`SummaryIsTrue` and `TableStaysBacked` rest on two more invariants. `DeployInv`: a
released pattern has a runtime on an image that was pushed, and only released
patterns are invoked. `RunInv`: the records of a file come from one runtime; each
saved summary, and the one under construction, describes the files of its prefix;
and the last printed table is backed by files that exist. A record file is written
only where none exists (`Committed`), so what was said of a file stays said
(`Kept`), and images are only added.

### `SweepProofs`

For every list of variants, any number of sweeps into one root, in any mode, and
any number of deaths. `SweepInv` says of the disk: the manifest is there only
beside all other files (`ManifestIsLast`), and the tables beside it are of its
configuration or of a study that died in that directory since the last whole one
(`TablesOfManifest`); of the sweep under way: what is graded was obtained for its
configuration (`Obtained`), no name is studied a second time except by force
(`LoadedTrusted`), a forced sweep has loaded fresh data only (`LoadedFresh`), and
the baseline comes first (`BaselineFirst`).
`HashProtectsData`, `OnlyTornFilesFail` and `ForceRepairs` follow. The rules of
`StudyRules` stay closed in these three: what a summary says is a function of
what was loaded for it.

The second part opens the rules, for every set of measurements within
`MeasuredAssumption`, every `alpha`, p-value function and threshold within
`RulesAssumption`. It starts from the order statistics: every value of a sample
has a place (`Place`), places are a bijection (`EveryPlace`), so the k-th smallest
value exists and is the only one with fewer than k values below it and at least k
up to it (`Kth`). The differences of two samples are counted as pairs
(`CountPairs`), and both numbers a comparison is read from, the rank-biserial
correlation and the Hodges-Lehmann shift, are told by these counts (`LeanCounts`,
`ShiftIsMedian`).

- `NamesDoNotMatter`: turning a comparison round negates both numbers and keeps
  the p-value (`CompareTurned`). Exchanging two patterns maps the tests one to one
  onto each other, with equal p-values and exchanged losers (`TestSwapped`); the
  correction looks at p-values only (`SameRejected`), so every pattern loses as
  many comparisons as before (`LostSwapped`).
- `BestGradedBest`: a sample at least as good in shares, copied to the other's
  length, is as good value by value (`OrderedCopies`). Matching the places of a
  pair then shows that a difference is at most v at least as often as its opposite
  (`FewerOver`), and at v = 0 and at the median neither number is positive
  (`NeverOver`): the pattern loses no comparison, whichever are rejected.
- `LevelDoesNotMatter`: order statistics, medians, percentiles and sums of a
  doubled sample are doubled (`OrderTwice`, `MedianTwice`, `P99Twice`,
  `TotalTwice`), and the quotient of two doubled numbers is the same to the last
  decimal kept (`RatiosTwice`).

### `CallProofs` and `FaultCampaignProofs`

For every latency model, fault, probability, window, rounding, number of requests,
items, collaborators, stages, events, specialists and tools. Beyond the named
assumptions of the modules, `OkIsComplete` assumes that an item brings its own
stages or has no more steps than the default list has stages (`Staged`: the
scenarios generate no other), `BulkheadContains` and `FaultsAreContained` that
there is more than one tool, without which nothing contains a faulted tool, and
`CriticalPathCharged` that latencies are bounded, without which the property's
`Max` has no meaning.

`CallProofs` describes a response once. `Responds` says what the caller of any
client entry point may rely on: the context it gets back is the one it passed,
later in the same request; only faults armed for the called unit were met; a
failed call has met one that fails calls; a call that met none succeeded.
`Answers` says the same of chains of calls, with the number of model invocations
and tokens they add. The chains are recursive functions over the number of
steps; what holds along them is proved by the least length that breaks it
(well-founded order of the naturals), since the induction theorems of the library
cannot be used.

`CampaignInv` is the inductive invariant:

- `FrameInv`: the pattern under way has its own next calls, the cell stays armed
  until it ends, the contexts have met nothing but the armed fault, and a request
  that returns degraded or not ok has met a fault that fails calls.
- `RecordsInv`: what each finished request recorded, by pattern (`RecordOK`);
  the classes of `ContainmentTable` are counts over it.
- `P1Inv` to `P7Inv`: for each pattern what is done at each of its calls. P1: the
  branches so far, or the first error. P2: one invocation per stage. P3: the log
  is `1, 2, ..., n`, the subscription is there once, and at most one event is under
  delivery. P4: the board holds the turns in order, and the copy a specialist read
  equals the board. P5: each tool called is among the results or the failures,
  and only the faulted one among the latter. P6: a pause token exists exactly
  between pause and decision, and older decisions have smaller ids, so a decision
  is the item's own and the only one. P7: a request that returns has covered its
  steps; a fault of the model backend may degrade it and never fails it.

There is one lemma per action (`StartStep`, one per client call, `RecordStep`,
`EndStep`), and the theorems read their property off the invariant. What earlier
requests leave in the pattern object is part of the state, so
`NoHarmWithoutFault` really says that nothing of one request harms the next.

`OkIsComplete` needs the remote context besides, which is never reset: `WorksInv`
says that what it has counted is what the records report as worked, the request
about to be recorded included. A remote call counts once when it succeeds and
leaves the counter alone when it fails (`OneActionCounts`, `ModelCallCounts`).

`CriticalPathCharged` needs the times: a call takes at most `LongestCall` of the
faults met so far, and at least what a fault it meets costs (`Timely`); `PathInv`
says how much a request of P1 has been charged at each point: the base, then the
longest of the branches, not their sum, a branch that failed included, so that no
fault of a branch is left out of the time.

### Model-checked only

Liveness (`CellCompletes`, `RunEnds`, `WaitersWake`, `CallEnds`) is out of the
prover's reach, as is everything that needs fairness or ENABLED. Every invariant
and action property of a passing run is proved.

## 5. Not modelled

- Payload texts, logging, redaction, formatting of results and tables.
- Latency distributions, prices, bootstrap intervals, the saturation search, the
  decision tree, figures: numeric post-processing without state.
- Scenario generation: the models take every item shape instead of drawing one.
- `invoke_agent_runtime`, `identity_check` and guardrails in blocking mode: no
  pattern calls them.
- `anchor/run_anchor.py`, `live_bedrock.py`, `live_agentforce.py`,
  `analyze_p7.py`, `run_released_check.py`: sequential measurements and their
  analysis, input and output around the patterns modelled here. The subscription
  loop of the retry probe is that of the bridge probe without crashes.
- A `prd.json` read while it is being written, and torn inventory files: the
  reader raises.
- Live services inside the deployed agent: an answer names the image and the live
  seams it came from; a retried request that meets its own earlier writes in the
  persistent memory is not followed.

## 6. Plan

1. Done: call boundary, patterns, campaign; bridge with its ledger; retry agent;
   load generator; grading rules and sweep;
   provisioning, deployment, live run and analysis; the three gates.
2. Done: proofs of every invariant and action property of the passing runs.
3. Models next: the subscription loop of the retry probe, the saturation search
   (`rig/saturation.py`) with the load points it feeds to the study, and the
   guards of `anchor/p7/analyze_p7.py`.

# A verification project for agenthandler

agenthandler supervises AI agents: an agent's tool calls pass through a
`Supervisor` that applies a policy, a `SessionManager` starts, pauses, resumes
and stops the agents' sessions over a store shared by several processes, and a
number of services (approvals, durable tasks, triggers, pipelines, an HTTP
server) are built on the two. This directory holds TLA+ models of the parts
whose correctness depends on interleavings, crashes and retries, the TLC
configurations that check them, and TLAPS proofs about them.

All source paths below are relative to the repository; `PROJECT.json` maps each
definition to the lines it models.

## 1. Inventory

| Component | State | Operations | What is hard about it |
|---|---|---|---|
| `session.py` SessionManager | registry of current Supervisors, audit buffers and original policies per process; locks | start, pause, resume, stop, stop_if_generation, restart, status, delete_expired, update_payload, running_guard | several processes over one store; in-memory effects that a failing commit does not undo; a superseded Supervisor that is still referenced |
| `store.py` stores | one checkpoint row per session: status, resume_count, counters, breakers, audit, payload | save/load, generation-checked `update_supervisor_checkpoint`, transactions, expiry | the only thing that survives a crash; two writers of one row |
| `supervisor.py` Supervisor | paused flag, store reference, counters, breakers, consumed approvals, current policy | call, call_approved, execute_approved, begin_request, record_tokens, record_iteration, checkpoint/restore | state read before an await and used after it; fencing by stored status and generation; charge and checkpoint are separate steps |
| `budget.py`, `policy.py` | token and iteration counters; rate windows | charge, check | limits at the boundary; late charges |
| `approval.py` ApprovalQueue | requests with a status, session, arguments and an expiry; a maximum size | submit, approve, deny, revoke, list | a human and an agent race over one request; expiry; eviction; single use |
| `circuit_breaker.py` | state, consecutive failures, time of opening | check, record_success, record_failure | concurrent calls around the half-open state; late outcomes |
| `task.py` DurableTaskRunner | a task record per task (milestones, reservations, status), a worker lock | create, run | crash at any point around an external effect; operator controls in another process; commit order of two databases |
| `verification.py`, `completion.py` | the stages of one gate run | run | fail closed on a timeout, an exception, a missing validator |
| `triggers.py` Scheduler | interval, cron and database-watch entries; history; a thread | add, remove, enable, disable, start, stop, tick | stop and start racing the thread; a slow trigger; de-duplication of a cron minute |
| `streams.py` connectors | the consume task; the broker keeps offsets, iterators, pending entries | start, stop, fetch, hand on, commit | handlers, acknowledgements and fetches that fail; a stop in the middle of a record |
| `pipeline.py`, `pipeline_poml.py` | a run's node and results; history and progress in the session's payload; parsed nodes | parse, run, branch | runs and operators share a session; read, merge and write back of the payload; documents written by a model |
| `reflection.py` | the cycle, its thought, the verdict | run | who may say that the goal is reached; an operator taking the session away |
| `context.py`, `compression.py` | turns, a summary and its count | add_turn, compress | compressions that overlap or are cancelled at their await |
| `a2a.py` | one task object per id, in memory | send, get, cancel, on the client and the endpoint | lost requests and answers; retries under one id; restarts; cancel against completion |
| `observe.py`, `replay.py`, `audit.py` | call records, prices; the audit trail in memory and in the session's row | record, summarise, replay | eviction; trails of several managers of one session |
| `guardrails/*` | sliding windows, the idempotency cache | check, record, evaluate | calls that overlap at awaited guards; guards that fail |
| `openclaw.py` | tools, event loops, a thread per request | register, serve, shutdown, call | timeouts and shutdowns against calls under way |
| `auth.py` | open challenges, session tokens | login, callback, check | callbacks that are repeated, late or overlap |
| `server.py` trigger endpoints | scheduler jobs and webhooks by name, their histories | create, switch, fire, remove, history | one name in several registries; a tick under way |
| `model_router.py`, `edge_reduce.py`, `redact.py` | none | evaluate | pure decisions |
| the rest of `server.py`, `mcp_server.py`, `sdk_adapters.py`, `connectors.py`, `skill.py`, `builder.py` | connections | forward requests | I/O |

How they interact. Adapters, the HTTP server, pipelines and the durable task
runner all call `Supervisor.call` with a tool. The Supervisor reads its session's
row in the store before every call (is it running, in my generation?), asks the
ApprovalQueue shared by all sessions of the manager for gated tools, awaits
guardrails and the tool, charges the usage and checkpoints it. Operators act on
`SessionManager` from any process. The durable task runner keeps its own
database, and takes the session store's transaction as a guard when it commits
progress.

What makes each component correct:

* sessions and supervisors: one owner per generation; nothing works under a
  generation that is not the stored one; usage survives crashes and is seen by
  the next owner; a supervisor without a store never works again;
* approvals: a gated tool runs only with an approval of that session, tool and
  arguments; an approval is used once; dead approvals stay dead; a full queue
  loses no pending request; the gate is the operator's list between calls, and the
  approved calls that overlap cost it nothing but the tools they run;
* circuit breaker: an open breaker admits nothing before its time; repeated failures
  open it whatever the interleaving; a tool that works again is used again;
* durable tasks: no action runs twice whatever crashes; every callback was
  reserved durably first; completion is certified only by the session's current
  generation; cleanup never stops a newer generation;
* verification gate: verified only if every stage ran and passed in this run, in
  time;
* scheduler: no double minute; a due trigger is not starved; stop stops;
* the call path: no window lets too many through; an answered call is answered
  again without running; each call is charged its own tokens;
* the store: no read, change and write of a row loses another;
* streams: nothing is acknowledged that was not handled; nothing that is appended
  is skipped by a failing batch;
* A2A tasks and the OpenClaw bridge: an outcome belongs to the request that caused
  it, and every request ends;
* sign-in: one login, one session;
* trigger endpoints: what is removed stays quiet; the merged history is the newest;
* context windows: every turn is in the window or in the summary;
* pipelines: a shared session's history is that of its runs; a branch is taken as
  the document says;
* reflection: completed means that a verifier passed;
* audit and telemetry: a trail only grows; summaries are those of the newest calls.

The hazards, each at its line with the properties that would catch it, are in
`PROJECT.json`.

## 2. Plan

| | Module | Models | State |
|---|---|---|---|
| 1 | `SessionLease` | abstract: what the session layer promises | done |
| 1 | `SessionControl` | managers, store, supervisors, calls, crashes, failing store operations; refines `SessionLease` | done |
| 1 | `SessionControlProofs` | its safety and the refinement, proved | done |
| 2 | `ApprovalGate` | approval queue and confirmation gate | done |
| 2 | `ApprovalGateProofs` | its types, single use, the gate under overlapping `execute_approved`, dead approvals, the queue's bound, proved | done |
| 3 | `TaskContract` | abstract: what a durable task promises | done |
| 3 | `DurableTask` | task runner over a session, crashes, external effects; keeps `TaskContract` | done |
| 3 | `DurableTaskProofs` | its safety and the refinement, proved | done |
| 4 | `CircuitBreaker` | breaker with concurrent calls, restores and a cache | done |
| 4 | `CircuitBreakerProofs` | its threshold and its reset period, proved | done |
| 5 | `Scheduler` | the thread, stop and start, cron, intervals, watches; liveness of a due trigger | done |
| 5 | `SchedulerProofs` | it is quiet when stopped, alive when running, fires once for a minute, proved | done |
| 6 | `VerificationGate` | stages, deadline, late results | done |
| 6 | `VerificationGateProofs` | it fails closed, in order and on one context, proved | done |
| 7 | `CallPath` over `Guardrails` | overlapping calls of one supervisor: windows, idempotency cache, budget, token attribution, verdicts | done |
| 7 | `CallPathProofs` | windows, answers and tokens, proved | done |
| 8 | `MCGuards` | the modules of rows 4 and 6, which share no state, in one run | done |
| 8 | `CheckpointStore` | the transactions that `SessionControl` takes as steps | done |
| 9 | `StreamConnectors`, `A2ATasks`, `OpenClawBridge`, `OAuthLogin`, `TriggerDesk` | what comes in over the network: failing handlers, lost answers, timeouts, restarts, repeated requests | done |
| 10 | `ContextWindow`, `PipelineRuns`, `PipelineLanguage`, `ReflectionLoop` | the agents' own loops and what they keep | done |
| 11 | `AuditTrail`, `Telemetry` | the records that are left of a session and of its calls | done |
| 12 | `MCParts` | the modules of rows 8 to 11, which share no state, in one run | done |
| 13 | `PartsProofs` | the safety of the modules of rows 8 to 11 (the bridge's property is liveness), proved | done |

What composes with what. `SessionControl` takes a store transaction as one step;
`CheckpointStore` shows that it may. `DurableTask`, `PipelineRuns` and
`ReflectionLoop` each contain a session as they see it (status, generation, the
supervisor held here), whose operators act at any time; `SessionControl` has the
inside of it. `CallPath` extends `Guardrails`. `ApprovalGate`, `CircuitBreaker` and
`CallPath` are three views of `Supervisor.call`: each keeps what its question
needs, and lets the others refuse a call where the code asks them.

Every safety property that a run checks and the code keeps is proved; liveness is
model-checked only (section 18).

## 3. Sessions and supervisors

### `SessionLease`

The promise: a session is a lease that is granted again and again. Every grant
opens the next generation; work is admitted only under the generation that is
open at that moment; neither the generation nor the usage goes back; a lost
lease stays lost.

### `SessionControl`

| Model | Code |
|---|---|
| `cp[s]` | the stored `Checkpoint`: status, `resume_count` (`gen`), tokens or iterations (`used`) |
| `sv[o]` | a `Supervisor` object alive in a process: owner, generation, counter, `_paused`, whether `_store` is set, the call it is in |
| `current[m][s]` | `SessionManager._supervisors` of process `m` |
| `faults` | number of store operations that raised |
| `Start`, `Pause`, `Resume`, `RejectResume`, `Stop`, `Restart`, `Delete` | the lifecycle operations, one step each, as the store's transaction serialises them |
| `PauseCommitFails`, `ResumeSaveFails`, `ResumeCommitFails`, `StopFails` | the same when the store raises: the row is rolled back, the in-memory half is not |
| `RefuseCall`, `BeginCall`, `RefuseAfterPause`, `ExecuteTool`, `ToolFails`, `ToolReturns`, `ToolReturnsOverBudget` | `Supervisor.call`, cut at its awaits |
| `RecordUsage`, `AutoCheckpoint`, `AutoCheckpointFails` | `record_tokens`, `record_iteration`, `_auto_checkpoint` |
| `Crash`, `Discard` | a process dies; the last reference to an old supervisor goes |

Abstractions. Tokens and iterations are charged, merged and stored the same way
and are one counter. One call at a time per Supervisor object. Session ids are
used once. Stateless sessions, payloads and the audit kept in the row are left
out.

Bounds. `Manager`, `Session` and `Slot` (object identities) are small sets;
`MaxUsed` caps the counter, one above the budget, so that the budget can be
passed; `MaxFaults` caps failing store operations; `MaxResumes` is the policy's
own limit. Three object identities are enough for an owner, the owner it
replaced and a third that replaces both (`session_faults` has two sessions,
and does with an owner and the one that replaces it); two processes are enough for "here and
elsewhere".

Runs.

| Run | Shows |
|---|---|
| `session_core` | one owner per generation, usage that is durable and seen by the next owner, with two processes, one session, two resumes and crashes; no store operation fails |
| `session_faults` | two sessions with `restart`, one store operation fails anywhere: only a registered supervisor is unpaused, and the lease is still implemented. Its `MaxUsed` is 0, so of the lease it checks generations and pauses, and nothing of usage, which is `session_core`'s and `SessionsImplementLease`'s |

Deadlock is not checked in these runs: once the sessions have ended and their
ids are used up there is nothing left to do.

Properties. `OneOwnerPerGeneration`, `UnpausedIsCurrent`,
`ChargedWithinBudgetIsDurable`, `OwnerSeesAllUsage`, `ImplementsLease` (this is
`SessionLease` under the mapping `StoredLease`, `InFlight`). `StorelessIsPaused` is
part of the proved invariant.

### Proofs

`SessionControlProofs` proves, for any processes, sessions, object identities and
limits:

* `Safety`: `SafeInv` (types, bookkeeping, `StorelessIsPaused`,
  `UnpausedIsCurrent`) is inductive, with any number of failing store
  operations. Bookkeeping (an identity in use belongs to a born session; a
  registry entry names a supervisor of that session and process) is what makes
  it so: without it a retired entry could name another session's supervisor.
* `Fencing`: `FencingInv`, which adds that every generation in memory was granted
  by the store, that no two supervisors share one, that usage of a writer is
  stored and that the owner counts at least the stored usage. It assumes
  `MaxFaults = 0`, and needs to: adding `INVARIANT OneOwnerAtWork` to
  `session_faults.cfg` has TLC find two supervisors at work in one generation
  (section 17).
* `SessionsImplementLease`: `Spec => ImplementsLease`, again with failing store
  operations, from `SafeInv`: the only way to begin a call is past
  `_check_paused`, and that reads the row.

The lemmas follow the shape of `Next`: what retiring, installing and charging do
to any supervisor, stated once, then one case per action.

## 4. Approvals

### `ApprovalGate`

| Model | Code |
|---|---|
| `requests[i]` | `ApprovalQueue._requests`; `unused` and `evicted` ids are not in the queue |
| `confirm[v]` | `policy.require_confirm` of a supervisor, which `execute_approved` edits |
| `consumed[v]` | `_consumed_approvals` |
| `calls[c]` | a coroutine between the gate and its end; `pre` is the approval carried in its context, `exec` that `execute_approved` runs it, `saved` the list that one will put back |
| `executed`, `crossed`, `under`, `beside` | history: the tools `execute_approved` has run; that one ended while another, begun during it, went on; those in flight when a call began |
| `uses` | history variable: how often a supervisor let each approval through |
| `Approve`, `Deny`, `Revoke`, `ListPending`, `Submit` | the queue's operations, each under its lock, each marking expiry first |
| `Begin` (`PassUngated`, `PassApproved`, `RefuseApproval`, `Queue`) | `_check_confirm` and `_consume_approval` |
| `CallTool`, `CallApproved`, `CallFromTool`, `ExecuteApproved`, `Return` | the ways into a call and its end |
| `Tick` | the clock against which requests expire |

Ids are drawn at random in the code, so the model never reuses one. `MaxTime`
caps the clock and `Id` the number of requests ever made; both bound the runs
only (the proofs hold for any). Deadlock is not checked: with ids used up and the
clock at its bound nothing need happen.

Runs.

| Run | Shows |
|---|---|
| `approval_gate` | two sessions share a queue of one place with a clock; any two calls overlap, `execute_approved` among them, and a tool hands its context on: approvals are used once, dead ones stay dead, and the gate holds and is restored as said below |
| `gate_overlap` | expected violation: two `execute_approved` that overlap leave their tool ungated when both are done |

Nothing in the code keeps two `execute_approved` of one supervisor apart, and the model
does not either. What the code owes then is no longer that every gated call has an
approval, so the properties say what is left of it. `GatedCallsAreApproved`: a call of a
gated tool has an approval of its own, or it began beside an `execute_approved` of that
very tool, or two of them have *crossed* on that supervisor (one ended while another,
begun during it, was still in flight) and one of them ran that tool. `GateIsRestored`:
the list lacks only tools that some `execute_approved` ran; as long as none have crossed,
however deep they nest, it lacks exactly those of the calls in flight, and is whole when
they are done. `RemovalIsTemporary` is the comment's own claim, and `gate_overlap` its
counterexample (section 17).

Two ids are enough for a request and the one that evicts it, and for two approved calls
that cross; two coroutines are enough for that; two arguments and two tools, one of them
gated, for an approval shown to the wrong call or carried through an ungated one. In
`gate_overlap` the gated tool alone will do.

### Proofs

`ApprovalGateProofs` rests on one fact about every step, `RequestsMove`: a request
stays as it is, is filled when unused, or moves along pending, resolved,
evicted, keeping its session, tool, arguments and expiry, and is approved or
denied only while not overdue. From it and the types follow `SingleUse` (the
history variable counts the consumed set) and `DeadIsForEver`. `GateHolds` and
`GateRestored` assume nothing of how the agents overlap. Their invariant `GateInv` says
of the lists, in use and saved, that they lack no tool that was not run (`ListOk`), and,
until two have crossed, that the `execute_approved` in flight are nested (`Nested`): of
any two one began during the other, and each saved the operator's list without the tools
of those that were in flight before it. That is what makes putting back the saved list
right: without it the one that ends may not be the one that began last.
`QueueKeepsPending` says of the queue, for any `max_requests`, that it never holds
more and evicts answered requests only; only a submission changes which requests
are held (`HeldMoves`), and its two cases keep `QueueInv`.

## 5. Durable tasks

### `TaskContract`

The promise: every action's effect happens at most once; a task is completed
only after all its milestones, in order, were verified; what is completed stays
so.

### `DurableTask`

| Model | Code |
|---|---|
| `session`, `registry[p]` | the stored row of the task's session; the generation of the supervisor that process `p` holds |
| `task` | the stored `TaskRecord`: status, the state of each milestone, reserved calls, the generation that completed it |
| `runner` | the worker inside `claim()`: its process, its place in `run`, its generation and phase |
| `flying[m]`, `effects[m]` | attempts at a milestone's action that may still take effect; how often it did |
| `invoked`, `authorized` | history: callbacks begun; the operator's last word was to let the session run |
| `Claim`, `CheckSession`, `TakeSupervisor`, `ResumeSession` | the head of `run` |
| `Propose`, `Reserve`, `CannotCall`, `Refuse`, `Invoke`, `CallFails` | `_call`: reservation first, then the supervisor, then the callback |
| `ActionReturns`, `Recover`, `VerifierPasses`, `Accept`, `Complete`, `Block` | the loop over the milestones, with reconciliation of an interrupted action |
| `CloseSession` | `_close_session` of a completed task (`stop_if_generation`) |
| `Cancel`, `Crash`, `Land`, `Vanish` | cancellation, death of a process, effects that land late or never |
| `OperatorPauses`, `OperatorStops`, `OperatorResumes`, `OperatorRestarts` | `SessionManager` in any process |

Abstractions. One task over one session; its specification does not change.
Calls are counted, tokens and cost are not. A verifier's or a reconciler's answer
is the truth or "not known": both are the application's own trusted callbacks, and
no code could do without that assumption. Store failures are in `SessionControl`.

Bounds. `Last` = 2 milestones (a first and a later one are the two cases of
the order); `MaxCalls` = 5, the task's own limit, is one
call more than two actions and two verifications, so that a retry fits and the
limit is met; `MaxResumes` = 2 allows a generation, the one that replaces it and
a third after an operator's stop; two processes contend for the claim. One
milestone has a reconcile callback, the other has none. The expected violation
needs one milestone and one resume.

| Run | Shows |
|---|---|
| `durable_core` | at most once, reservation before the callback, completion and clean-up respect the session's generation, `TaskContract` is kept; liveness: a completed task's session is closed |
| `durable_operator` | expected violation: an operator's stop between the worker's look at the session and its resume is undone |

`LiveSpec` assumes that the application runs an unfinished task again
(weak fairness of `Claim`: there is no daemon in the code that would, the
documentation tells the application to) and that some run lives long enough to
close the session (strong fairness of `CloseSession`: not every run crashes
there). Deadlock is checked: a process can always crash.

### Proofs

`DurableTaskProofs` proves, for any processes and limits and any number of
milestones, `RunsOnce`, `Reserved`, `CleanupIsFenced`, `Authorized`, `TypeCorrect`
and `KeepsContract` (the refinement). The inductive invariant `TaskInv` says of
every phase what the record and the world agree on: an effect that is done or
under way has its reservation in the record (`WorldMatchesRecord`), milestones
are verified in order (`InOrder`), a runner past its claim is at the record's
milestone (`PlaceMatchesRecord`), what it is about to call it has reserved
(`ReservedAhead`), and a completed record has nothing under way
(`CompletedIsFinal`). Without `ReservedAhead` a crash between the reservation and
the callback would be indistinguishable from one after it.

## 6. Circuit breaker

### `CircuitBreaker`

| Model | Code |
|---|---|
| `breaker` | the `CircuitBreaker` of one tool: state, failures, age of `_opened_at` |
| `saved` | its entry in the stored checkpoint |
| `calls[c]` | `Supervisor.call` between `check` and the outcome |
| `Seen`, `Failed`, `Stored` | the `state` property, `record_failure`, `to_checkpoint_data` as functions of a breaker |
| `Check`, `GiveUp`, `AnswerFromCache`, `Execute`, `Fail`, `Succeed`, `Return` | a call, cut at its awaits |
| `Look`, `RecordUsage`, `ResetBreaker` | other readers and writers |
| `Resume`, `Crash` | the supervisor is replaced, in the same process or from the store |
| `promise`, `kept` | history variables: failures in a row and time still to wait, now and as of the checkpoint |

Abstractions. The time of an opening is kept as its age, which stops growing at
the reset period, and the count of failures stops at the threshold: nothing in
the code distinguishes more. That makes the state space finite without a bound
on time. Monotonic clock and wall clock (used across a restart) run alike. One
tool: breakers do not interact.

| Run | Shows |
|---|---|
| `guards` | three concurrent calls, two restarts and a clock: the breaker trips and blocks for the reset period; liveness: a tool that works again is used again |

`guards` also has the verification gate (section 8): the two share no state, and a behaviour
of `MCGuards` is one of them while the other stays as it began.

`BreakerFairness`: time passes; the agent goes on trying (weak fairness of
some `Check`); the guardrails do not refuse for ever (strong fairness of some
`Execute`); a call that executed ends, since `tool_timeout` ends it (strong
fairness of its outcome, as a cancellation may come first, but not always).

### Proofs

`CircuitBreakerProofs` proves `TypeCorrect`, `StateFits`, `Trips` and `Blocks` for
every instance. An answer from the cache counts as a success of the tool in the
code; the properties are stated of failures with none in between (`promise`), so
they need no assumption. The invariant `BreakerInv` links the breaker to the
promise (`Honours`): the count is the number of failures in a row, and while
there is time to wait the breaker is open and young enough. It must hold of the
stored pair (`saved`, `kept`) as well, or a crash would not preserve it.

## 7. Scheduler

### `Scheduler`

| Model | Code |
|---|---|
| `running`, `loop` | `_running`; `_loop` and `_thread`, made together: a loop is named after its thread |
| `joining` | a `stop()` is in `join(timeout=5)` |
| `workers[w]` | a thread in `_run_loop`: where it is, in which loop, how old the `now` of its tick is, the entries of the tick's snapshot it has yet to look at |
| `entries[t]` | the registered trigger: enabled, age of `last_run` or `last_poll`, `last_run_minute` |
| `minute` | the minute of the day |
| `served`, `orphaned` | history: the ages of the ticks that fired a cron; some `stop()` gave up on its thread |
| `Start`, `Stop`, `StopReturns` | `start`, and `stop` cut at its join |
| `Add`, `Remove`, `Switch` | `add_*`, `remove`, `enable` and `disable`, each under the lock |
| `Begin`, `Pass`, `Fire`, `Poll`, `Raise`, `Return`, `EndTick` | a tick, cut where it reads an entry and where it awaits a trigger |
| `Exit`, `Interrupt` | the ends of a thread: `_running` is false, the loop is busy in another thread, the loop was stopped under an await |
| `Clock` | a minute passes; every thread looks at least once in it, unless a slow trigger holds it |

Abstractions. Time is counted in minutes, and as ages, so that no bound on time is
needed: `Day` is the length of a day, `Due` the minutes that the crons match. A
trigger is slow (may take minutes) or not, and blocks its thread meanwhile or not.
A watch's query is answered at once, either way. A name is given to one trigger.
What a tick awaits, an interrupted query apart, is a trigger.

Bounds. `MaxAge`, the minutes a tick may take: one is enough for a tick whose
minute is over. `MaxEdits`, how often triggers are removed, disabled or enabled.
A day of two minutes makes every tick at midnight or just before it; two threads
are the scheduler's own and one that a `stop()` gave up on.

| Run | Shows |
|---|---|
| `scheduler_core` | a blocking interval, two crons, one with a malformed field, and a watch: a scheduler that stopped is quiet, no cron minute is fired twice; liveness: a registered interval fires again and again |
| `scheduler_daily` | expected violation: a cron that matches one minute of the day fires on the first day only |

Fairness of `LiveSpec`: threads get their turn and triggers return (weak), minutes
pass (strong: `Clock` waits for every thread to look). Deadlock is checked.

### Proofs

`SchedulerProofs` proves, for any threads, triggers, edits and length of the day,
`SchedulerTypeCorrect`, `StoppedSchedulersAreQuiet`, `CronsFireOncePerMinute` and
`RunningIsAlive`. `SchedulerInv` adds to the types:

* `Owned`: there is a loop exactly while the scheduler runs or a `stop()` waits, and
  unless some `stop()` gave up, the only thread alive is that loop's;
* `Unhalted` and `Attended`: nothing told the running loop to stop, and a thread that
  was not told to is alive, the one that `start()` made or one that a `stop()` gave
  up on and that took the loop over: a thread that leaves because the loop is busy
  leaves it to the one that makes it busy;
* `Registered`: a tick looks at registered triggers only, so it can raise only while
  a malformed cron was registered;
* `Latched`: no thread is in an older tick than the last one that fired a cron, and
  if it is in the same one, the latch holds its minute. Without it a tick that began
  before a restart could not be told from one that has yet to fire.

The clock keeps `Latched` because a tick that grows a minute older, in a day that
grew a minute older, still takes its minute for the present one (`MinuteStands`,
over the division lemmas, for a day of any length).

## 8. Verification gate

### `VerificationGate`

| Model | Code |
|---|---|
| `pc`, `asking`, `stages`, `left`, `safe` | where `run` is, its loop variable, its `stages`, the time to its `deadline`, `safe_context` |
| `registered`, `context` | the caller's `validators` and `context`, which it may change while a run awaits |
| `expired` | `wait_for` has cancelled the validator |
| `report` | `VerificationReport.status` of the last run |
| `asked`, `passed` | history: the context each validator was given; the stages that passed in time |
| `BeginStages`, `Ask`, `OutOfTime`, `ValidatorPasses`, `ValidatorFails`, `ExpireStage`, `Finish`, `Cancel` | `run`, cut at its await |
| `EditContext`, `EditValidators`, `TimePasses` | the caller and the clock |

Abstractions. A validator passes or it does not: exceptions, rejections and
malformed results are one outcome. Runs share nothing but the frozen stage names,
so one at a time is enough. A validator may pass late, its cancellation
suppressed or not yet delivered. Bounds: three stages (first, middle, last), a
deadline of three ticks, two edits of the context (`MaxContextEdits`).

| Run | Shows |
|---|---|
| `guards` | a report says "verified" only if every stage passed in that run and in time; liveness: every run ends |

That no validator runs unless all before it passed, and that all judge one context, is
proved (`InOrder`, `SameContext`) and no property of the run.

`GateFairness` lets validators be silent until they are cancelled and has them obey
that (the class asks for it); it assumes that time passes and that the loop goes
on. Deadlock is checked.

### Proofs

`VerificationGateProofs` proves `TypeCorrect`, `FailsClosed`, `InOrder` and
`SameContext` for any number of stages and any deadline. `GateInv` adds to the
properties that all stages behind a run's loop have passed and are recorded as
verified (`LoopIsAtStage`), without which the end of the loop would not know what
it reports.

## 9. The call path and its guardrails

### `Guardrails` and `CallPath`

| Model | Code |
|---|---|
| `place[c]`, `only[c]` | where a `call()` is between its awaits; it is a `preflight()` |
| `scopePlaces`, `categoryPlaces`, `loopPlaces` | `_tool_call_times`, `CategoryRateLimit._call_times`, `RecursionDetector._history`: each entry a `Place`, the call that took it, under which rule, and when |
| `answers`, `hit` | the idempotency cache, and what a call found in it |
| `spent`, `meta`, `records` | the budget's tokens, `_last_call_meta`, the Observer's records |
| `Enter` | the synchronous checks of `call()`, in their order, up to the first awaited guard |
| `Judge`, `Withhold` | the verdict of the guard awaited before the tool, and of the one after it |
| `ToolFails`, `ToolReturns`, `Finish` | the tool, and what follows the review in one step of the event loop |
| `Room`, `Noted`, `Passing`, `ScopesNoted` | the sliding windows: what is recent, the room left, the scope rules that a call passes before one refuses |
| `InjectionBlocks` ... `EnsembleBlocks`, `PreVerdicts`, `PostVerdicts` | the guards that ask a model, over the six kinds of answer it may give |

Abstractions. Checks that keep nothing (pause, deadline, silence, confirmation,
breaker, schema, URLs, resources) are one refusal each, at the place where `call()`
makes them. Redaction is a function of arguments to arguments. A tool's output is
none, plain, or one that reports tokens: "costly" as `input_tokens` and `output_tokens`,
"legacy" as a bare `tokens_used`, which the budget is charged (`Charged`) and
`_last_call_meta` is not told (`Stashed`). An output that gives both, in counts that disagree,
is left out. The guards that ask a model come down to both
verdicts, with and without an ensemble: `InjectionBlocks` ... `EnsembleBlocks` say why
both can be, and no property tells them apart.

Bounds. Three calls, so that two can share a window and a third meet its limit; two
argument dictionaries, of which redaction turns one into the other; scope limits
`<<1>>` and `<<5, 4>>`, the second because two rules for one tool count in one window;
three ticks with windows and time to live of two, so that a place and an answer can
expire; a budget of one token, so that it can be exceeded. Calls and models are
symmetric. Deadlock is not checked: when all calls have been made nothing is left.

| Run | Shows |
|---|---|
| `call_path` | `WindowsHold`: overlapping calls, refusals half-way and preflights never put more calls through a window than its limit. `AnsweredIsNotRerun`: an answered call is not run again within the time to live, over budget or not. `TokensAreAttributed`: while the budget holds, it counts every output that reported tokens; the Observer's records charge each call its own input and output tokens, all of them, and nothing for a legacy output |

A window is a set of places and not a list of times: calls that come in one tick would
be equal in a set of times, and the code counts both; a place says whose it is, which
is what the proofs count by.

### Proofs

`CallPathProofs` proves the three for any calls, arguments, redaction, policies, limits
and spans. None is inductive.

* `WindowsAlwaysHold`: a window only counts what it has kept, so the proof needs
  `PlacesAreHeld`: every call that was let through has its place in each window, under
  each rule, as long as it counts (a refused call may have left places behind; they
  only take room away). Then the calls of a span that ends now map into the places that
  `Passing` or `Room` counted, plus the one that enters. For spans that ended before,
  nothing is added to the calls in them.
* `AnsweredIsNeverRerun`: `AnswersAreKept` (an answer is replaced only by a later one for
  the same arguments) and `MissesAreExcused` (whoever found nothing, though there was an
  answer in time, found a `None` in its place).
* `TokensAreTheirs`: `TokensAreRecorded`: no tokens stay stashed across an await while the
  budget holds, so a record carries what its own call stashed, nothing if its output was a legacy
  one, and each call adds one record at most.

## 10. Store transactions

### `CheckpointStore`

`SessionControl` takes a read, change and write of a row as one step; this module has
what makes it one. `home` is the store instance of each thread, `owner` the instance's
`RLock`, `writer` SQLite's write lock, `committed` the row, `txn[t]` where a thread is
in `session_transaction` and the row it sees; `kept` is a history variable with the
edits and the usage that the row has to have. `Enter`, `Begin`, `Busy`, `Load`, `Save`,
`Commit`, `Abort` are the transaction, `ReportUsage` is `update_supervisor_checkpoint`,
`Expire` is `delete_expired`, `Crash` the death of a process. With a `MemoryStore` there
is no write lock and no rollback.

Bounds: three threads in two instances (two that share a lock, one that does not),
two edits, usage of one or two.

### Proofs

`PartsProofs` proves `UpdatesAreKept` (`NoUpdateIsLost`) and
`TransactionsExclude` for any threads, instances and number of transactions, with either
backend. `StoreInv` adds to the types `Locked` (who is in a transaction holds the lock of
its instance and, with SQLite, the write lock) and `Fresh` (the row a transaction loaded
is the one that is there). With `BEGIN` in place of `BEGIN IMMEDIATE` `Fresh` fails: two
instances load the same row and the second commit takes the first one back.

## 11. Stream connectors

### `StreamConnectors`

| Model | Code |
|---|---|
| `kind` | `KafkaConnector`, `KinesisConnector` or `RedisStreamConnector` |
| `loop`, `next`, `at`, `upto` | the consume task: where it reads next, the record at hand, the end of the batch |
| `tail`, `settled`, `pending` | the broker: records appended, Kafka's committed offset, Redis' pending entries; external, taken from the calls made |
| `StreamStart`, `StreamStop` | `start`, and `stop` or the end of the process, at any point |
| `Fetch`, `FetchFails`, `HandOn`, `Undecodable`, `HandlerEnds`, `BatchEnds` | the loop |

Bounds: three records, batches of two (a batch's last record and one that is not),
the third record not JSON, two starts. Redis' `start` passes over an `xgroup_create` that
fails, taking it for a group that is there: `ReadsFrom` then leaves the group unmade, every
fetch fails, and `RecordsAreServed` excepts it. `StreamFairness`: the consume task goes on, and
`on_message` ends (its tools have timeouts). `AcknowledgedMeansHandled` and
`RecordsAreServed` are in `parts`; `stream_delivery` is the expected violation of
section 17. Deadlock is not checked in either: records and starts run out.

`AcknowledgedRecordsWereHandled` is proved. An acknowledgement is made from the place the
loop is at, so `StreamInv` says what that place means: records are fetched and not through
only while the loop is at them, Kafka's position is one past its only fetched record, and
Redis holds every fetched record as pending. A connector that is stopped in the middle of
a batch has to let its place go, or the next commit would cover the record.

## 12. Agents and bridges

### `A2ATasks`

`request`, `stage`, `reply`, `outcome` follow a supervised client call through network
and endpoint; `table` is the endpoint's `_tasks`, `state` the state in each task object,
which is named by the send that made it. `Issue`, `GivesUp`, `Lose`, `Receive` are the client and the network,
`SendArrives`, `ToolEnds`, `GetArrives`, `CancelArrives` the endpoint's handlers cut at
their await, `EndpointRestarts` forgets the table. `OutcomeIsOwn`: however sends for one id
overlap, a task object carries the outcome of its own tool call. `HeldTasksEnd`: it does
not stay WORKING once a tool runs for it; `A2AFairness` assumes that a supervised tool call
ends. Two calls for one id are the overlap, and a retry after a client gave up.
`OutcomesAreOwn` is proved; `A2AInv` adds that a call that has yet to arrive has no tool
call, without which an arriving send could find an old outcome in its object.

### `OpenClawBridge`

`thread[p]` is a request's thread, `job[p]` its coroutine, `loops`, `turning` and `onLoop`
the event loops that `serve` has made, those that still run and the one each call went
to. `PostsAreAnswered`: every request for a known tool is answered although the bridge is
shut down or served anew in between; `BridgeFairness` gives request threads their turn and
lets `future.result(timeout)` time out, and asks nothing of the loops. Two requests, two
calls of `serve`.

## 13. Sign-in and trigger endpoints

### `OAuthLogin`

`states` are the open challenges, `cookie` what each browser holds, `callback[q]` a callback
before and after its awaits, `sessions` the tokens. `Login`, `Returns`, `RefuseCookie`,
`ProviderAnswers`, `ProviderRefuses`, `ShowExpired`. `OneSessionPerLogin`: repeated,
overlapping or late callbacks open one session, since the challenge is taken out under
the lock before the provider is asked. A callback that ends well deletes the cookie of the
browser that made it, whichever login that cookie was of by then. Two browsers, two challenges, two callbacks; times
to live of one and two in three ticks, so that both can expire. That the provider is
who it says is external.

`LoginsOpenOneSession` is proved. `OAuthInv` has to speak of callbacks that were let in
and still await the provider: their challenge is no longer open, was handed out and will
not be again, and let no other in.

### `TriggerDesk`

`jobs` and `hooks` are what is registered, `tick` the snapshot of the scheduler's tick that
is under way, `polled` the database watch whose query it awaits, `log` and `hookLog` the histories, `firing` what runs; `made` (all records) and
`gone` (names removed) are history variables. `CreateJob`, `CreateWebhook`, `Switch`,
`RemoveTrigger` are the endpoints, `BeginTick`, `Pass`, `FireJob`, `FireWebhook`, `EndFiring` the
firings; a watch takes `PollJob` and then `QueryFires`, `QueryDull` or `QueryFails`, and may be
switched off, replaced or removed in between. `HistoryIsNewest`: the merged history shows the newest firings for every limit.
`RemovedTriggersStayQuiet`: what was removed from whichever registries begins nothing, but
for what the tick had picked up and the watch whose query was out. One name is enough, for jobs and webhooks under one name
are the interesting case; two kinds of jobs, an interval and a database watch; two webhooks, one replacing the other;
histories cut to two at three, and three firings.

Both are proved, for any names, webhooks, caps and firings. `RemovedStaysRemoved` from
`GoneIsGone`: what is gone has no registration and no live entry in the tick under way.
`HistoryShowsNewest` from `LogsAreKept`: each log is in order, and what it has forgotten is
older than the `HistoryKept` or more records it still has. With it the merge takes at most
`HistoryKept` from each log and still finds the newest of all: a record missing from the
cut of its log has as many newer ones in that cut as there are to be shown
(`NewestOfEnough`).

## 14. Context windows

### `ContextWindow`

`window` and `summary` are `_turns` and `_compressed`, `work[c]` a `compress()` between its locks
and its await: `Take`, `Digest`, `Write`, and `CancelCompress`, which leaves past the `except`.
`TurnsAreKept`: every turn is in the window, in the summary, taken by a compression under
way, or lost to a cancelled one, and the count is right unless compressions overlapped.
Bounds: five turns, `max_recent_turns` of 0 (Python's `[-0:]`), 1 and 2, two compressions. What a summary says
of a turn is left out.

`TurnsStayInPrompt` is proved, for any turns, limits and compressions. `ContextInv` says of the
compressions under way that a digest covers what was taken, and, while compressions do
not overlap, that there is one of them and that it counts on from the summary as it is.

## 15. Pipelines and reflection

### `PipelineRuns`

`session[s]` is the stored status and generation and the generation held here, `run[r]` a
`Pipeline.run` at one of its awaits, `past` the history in the shared session's payload,
`base[r]` the history a run read and has yet to write. `StartOwn` and `StartInContext` are the
ways to begin, `BeginCall`, `CallSucceeds`, `CallFails`, `ApprovalPending`, `PredicateFails`, `NoBranch`,
`IterationLimit` the nodes, `ReadPayload`, `WriteProgress`, `WriteHistory` the payload, and
the operators pause, stop and resume the session here or in another process; a stop or
a resume from elsewhere leaves the supervisor held here, out of date. `WriteRaises` is an
`update_payload` that refuses (a payload over its limit), which leaves `run` with the session as
it is. A session deleted under a run is left out: `run` then raises as it does there.
`HistoryFollowsRuns`: unless a payload was read between another run's read and write, the
history is that of the runs that completed, in order. Bounds: two runs over a step and a
condition, one resume, four iterations of which none or three were used before, a history
of one run (so that it rolls).

`HistoryIsOfTheRuns` is proved, for any runs, nodes and history limit of one or more. By
`PipelineInv`, until runs race, one at most is between its read and its write, and what
it read is what is stored. The lemmas `LastOfElements` and `LastOfAppend` say what rolling
does: keeping the last n of what was kept and one more is keeping the last n of all.

### `PipelineLanguage`

A document is parsed element by element into nodes, or refused, or raises
(`BeginParse`, `ParseElement`, `EndParse`, `Review`, `Refine`); `Route` then takes a branch for an
output. A test is the sequence of the nodes of its syntax tree, operands first (`Tree`).
`Literal`, `NodeTruth`, `Truths` and `Valid` follow `_resolve_dot_notation`, `_safe_eval_node` and
`_validate_ast`. `BranchesAreAsWritten` compares them with a reference, `Means` and `AtLeast`: what
Python makes of a comparison, chained, negated or joined with another, and thresholds as the
conditions they stand for, over
the documents and outputs in `MCParts`: comparisons in every form the evaluator tells apart, paths
into maps and lists with indices from either end, chains, negations, `and` and `or`, and values
that compare with nothing. That a path written inside a string literal is rewritten too is left out.

`BranchesAreTakenAsWritten` proves it for any documents, tests, outputs and tools. `TruthsExist` and
`TruthsAre`: evaluation is well defined, by induction over the nodes. `ComparisonMeans`: a chain
is true exactly when all its links are. `AboveAsMeant`: the threshold's lookup and the condition's
give one answer. `LanguageInv` ties the nodes to the elements they were parsed from.

### `ReflectionLoop`

`phase` is where `run()` is, one action per outcome of each phase, with the operators and a
cancellation at every await. `CompletedMeansAccepted`: `completed` is the verifier's word and
never the model's. `max_cycles` of 2 and 3 with iteration limits of 2 and 5: either may come
first. `CompletionIsAccepted` is proved; `ReflectionInv` adds that the verifier is asked only
about what the model had claimed was done.

## 16. Records, and the run of the parts

### `AuditTrail`

`baseline`, `sink` and `row.log` are the trail a manager found, what its supervisor recorded
since, and what is stored; `PauseTrail`, `ResumeTrail`, `StopTrail`, `StopSaveFails`, `LeaveTrail`,
`ExpireTrail` write or forget them, and `CopySink`, `ReadBaseline` are the two looks of
`get_audit_entries`. `TrailIsKept`: the stored trail is only added to and holds nothing twice, though a
superseded manager goes on recording. Two managers, two resumes, three entries.

`TrailOnlyGrows` is proved, for any managers, resumes and entries. By `TrailInv` one manager
at most works in the stored generation and its trail goes on from the stored one, no
manager's trail holds an entry twice, and what a reader took of a sink is still the
beginning of it as long as it speaks of that generation. The superseded manager's trail may be anything: its generation
is below the row's, and the write is refused.

### `Telemetry`

`records`, `pricing` and `maxRecords` of the Observer. `SummariesAddUp`: calls, tokens and costs by
agent, by tool and by model add up to those of the newest calls, each at the price of its moment,
for limits of 0 (all are kept), 1 and 2 and three calls. The rows by session and the rounding of
costs are left out.

Both are proved for any records, limit and prices. `ObserverHoldsNewest` says which calls are held:
cutting the newest and one more is cutting all there were. `SummariesAreSums` says that the rows add
up. It rests on what a sum is: `SumsExist` and `SumSteps` (by induction over the size of a finite
set), `SumTakesOut` (in whichever order), and `SumOfParts` (what a key sorts into rows sums, row by
row, to the whole).

### `MCParts`

The modules of sections 10 to 16 share no state. `MCParts` declares all of them, a variable
`part` picks one for each behaviour, and the variables of the others stay at one initial state: the
states of `parts` are the sum of the parts' states, not their product. A part's fairness is
vacuous in the behaviours of another. Each part's bounds are those given with its module.

| Run | Shows |
|---|---|
| `parts` | the fifteen properties named above, of the twelve parts |
| `stream_delivery` | expected violation: a record whose handler raised is not delivered again |

Deadlock is not checked in `parts`: records, calls, runs and entries are bounded and end.

## 17. Where code and documents disagree

The expected violations, each with its `findings` entry: `gate_overlap`, `durable_operator`,
`scheduler_daily`, `stream_delivery`. The trace of the last is of a Redis connector that is
stopped in the middle of `on_message`; that a handler which raises loses its record too, with
each of the three, is what the code says and not what that one trace shows. The models have the following behaviours too, without
a run of their own; the properties above are stated so as to except them.

Sessions and supervisors

* `session.py:349`: `resume` installs its supervisor before COMMIT. If the commit fails the
  manager owns a generation that the store never granted, and when another process is
  granted it both are at work in it (`INVARIANT OneOwnerAtWork` in `session_faults.cfg`
  has TLC show it).
* `supervisor.py:731`: a call that takes the session over its token budget returns
  before the checkpoint, so a crash forgets the charge ("Preserve that usage
  too", `supervisor.py:186`, is kept by `record_tokens` only). It returns before the Observer
  is told, too: the next record takes the stashed tokens.
* `supervisor.py:610`: a failing call is not checkpointed, so neither is the trip
  of its breaker (`README.md:566`: "after every operation").
* `supervisor.py:694-719`: a legacy output `{"tokens_used": N}` is charged to the budget and not
  stashed: the Observer records no tokens for it, and its totals fall short of the budget's.
* `supervisor.py:538`: `call()` sets `_last_activity` before it checks for silence, so the dead man's switch
  (`README.md:114`) never stops a call.
* `session.py:468-480`: a reader of the audit trail that a resume overtakes is shown the
  entries of the sink twice. The trail is written when a session is paused, resumed or
  stopped only: a crash loses the rest ("survives crashes", `store.py:101`).

Approvals

* `supervisor.py:816-823`: while `execute_approved` awaits its tool the gate is open for
  every other call of that tool, and of overlapping ones the last to end puts back the list
  that the first had edited, so that the tool stays ungated (`gate_overlap`).
  `execute_approved` also neither compares the request's session
  with its own nor uses the approval up.
* `approval.py:143`: on a queue full of pending requests `submit` raises
  `RuntimeError`, which leaves `call()` (`supervisor.py:535`: "never raises").

Breaker and guardrails

* `circuit_breaker.py:55`: the half-open state does not remember that its test call is out, and
  guards are awaited between the check and the call: many calls pass
  (`INVARIANT OneTestCall` in `guards.cfg` has TLC show it).
* `supervisor.py:572`: an answer from a cache counts as a success of the tool
  (`README.md:1113`: "open after 3 consecutive failures").
* Refused calls and preflights take places in the windows; two scope rules for one tool
  count each call twice.
* `deterministic.py:253-277`: the idempotency guard looks an answer up under the arguments as
  given and keeps it under the redacted ones; an output of `None` is never a hit. A cached answer is not reviewed,
  not redacted and not charged.
* A guard that raises lets the call through, a score given as a string among them; the ensemble alone
  closes. `ResourceQuota.record_cpu` (`deterministic.py:334`) has no caller.

Triggers and streams

* `triggers.py:212`: `add_cron` is to validate, but reads a field only if those
  before it match at present; the malformed rest raises in a later tick
  (`triggers.py:369`), the thread dies, `_running` stays true and `start()` does
  nothing.
* `triggers.py:381`: a watch fires at every poll while its condition holds, not
  "when the result changes or crosses a threshold" (`triggers.py:6`).
* `triggers.py:334`: `stop()` gives up on a blocked thread after five seconds; after
  a `start()` two threads tick, and the old one's stale tick may fire a minute
  that the new one fired.
* `triggers.py:351-371`: a trigger removed or disabled while a tick has it in its snapshot
  still fires.
* `server.py:647-650`: disabling a webhook answers `{"enabled": false}`, and it still fires. The
  history of a removed or replaced webhook is gone.
* `streams.py:294-297`: whatever `xgroup_create` raises is passed over, so a connector may poll a
  group that does not exist for ever.
* `streams.py:112, 219`: a record that is not JSON raises outside the inner `try`: the Kafka loop ends,
  and a Kinesis batch is read again for ever.

Agents, pipelines, reflection, context

* `a2a.py:525`: a cancel that arrives while the handler runs is overwritten when it ends.
* `openclaw.py:244`: after `request_timeout` the answer is 500 while the coroutine goes on; a
  Supervisor is made for every request (236), so breakers and rate limits carry nothing
  over.
* `context.py:347`: overlapping compressions both start from one `turn_count`: it falls
  behind. A cancelled compression loses the turns it took.
* `pipeline.py:485`: two runs that share a session read, merge and write its payload without
  excluding each other: a completed run is missing from the history.
* `pipeline.py:443`: a run that fails stops the session, the shared one too (`README.md:472`: "don't auto-stop").
* `pipeline_poml.py:130-144`: `chain="false"` (405) reaches the tool as a keyword `chain` too. Attributes
  named `fn`, `tool_name` or `chain_input` raise `TypeError`, not `ValueError`.
* `pipeline_poml.py:259-294`: `is`, attributes and subscripts are accepted and never hold; paths that end in a map
  never compare. `create_poml` and `refine` look at the XML only.
* `reflection.py:475-476`: a reflection that is no string makes `_format_history` raise out of
  `run()` (397), which leaves the session running.
* `observe.py:428`, `server.py:349`: `[-0:]` keeps everything: a limit of 0 is none. Session totals fall
  when records are evicted.

## 18. What is only model-checked, what is not modelled

Only model-checked: all liveness (`CompletionIsCleanedUp`, `RecoveredToolIsUsed`,
`IntervalsAreServed`, `RunsEnd`, `RecordsAreServed`, `HeldTasksEnd`, `PostsAreAnswered`), which the
proof system does not reach, no more than ENABLED.

Where a proof needs induction over data (the sums of `Telemetry`, the evaluation of a test in
`PipelineLanguage`) it goes through sets and not through operators: a set of naturals has a
least element (`LeastNatural`, from the well-foundedness of `<`), so one that holds 0 and is closed
under successors holds all (`NaturalInduction`), and a family of finite sets likewise (`SubsetInduction`).
No module declares a recursive operator.

The inductive invariants are no properties of the runs, which would ask the same
question twice. Each was an `INVARIANT` of `parts.cfg` or `call_path.cfg` before it was
proved: adding `StreamInv`, `A2AInv`, `OAuthInv`, `GoneIsGone`, `LogsAreKept`, `ContextInv`,
`PipelineInv`, `LanguageInv`, `ReflectionInv`, `TrailInv` and `TelemetryInv` to the one, `CallTypeOK`, `PlacesAreHeld`,
`AnswersAreKept`, `MissesAreExcused` and `TokensAreRecorded` to the other, has TLC check them again. The
proofs assume of the constants what the modules' ASSUMEs say, and nothing is assumed
finite that the code does not bound: that only finitely many turns, places and records
were there so far is part of the invariants.

Deadlock is not checked where a system may rightly stop: sessions that have all
ended, approvals with ids and time used up, calls, records and runs that are bounded. In
the runs of tasks, breakers, the scheduler and the gate it is checked.

Not modelled: the model router, redaction and errors (pure functions of one request or
text; `CallPath` takes redaction as a map); `edge_reduce.py` and the compression of
single outputs (likewise); builders, skills and SDK adapters (glue that forwards to the
operations modelled); the HTTP endpoints that forward or only read; prompts and the text of
summaries; latencies and the OpenTelemetry export; what a cron expression matches;
stateless sessions, which live in one process's memory store.

# A TLA+ model of AgentEngine

AgentEngine is a C++23 engine for agents: an in-process coroutine runtime (L0), trust and sandbox
(L1), the agent core (L2), orchestration (L3) and protocol surfaces (L4). This directory keeps TLA+
modules of its concurrent parts beside the code, the TLC configurations that check them on small
instances, and proofs that TLAPS checks for every instance.

The runtime layer is the base: every other layer states its guarantees in terms of it ("one
session, one executor", emitted order, structured cancellation), and its hard cases are
interleavings that tests reach by luck. On it stand the three parts with the most behaviour of their
own: the session that runs an agent, the supervisor that runs a workflow, and the log that has to
survive a crash.

Paths below are relative to the repository; `rt/x.hpp` is `include/agentengine/rt/x.hpp`.

## The system, part by part

| part | state | operations | what is hard | properties |
|---|---|---|---|---|
| `rt/async_mutex.hpp`, `rt/await_chain.hpp` | `held_`, `owner_`, FIFO, loan stack, `draining_`, `pending_release_`; the fork links of tasks | `lock`, `try_lock`, `unlock`, loans to awaited children, destroyed waiters | release inside another thread's hand-off loop; loans of loans; a grant that meets a destructor | one executor, no lost hand-off, no barging, waiters served |
| `rt/lanes.hpp` | strands, their queues, groups' ready lists, the priority list, sleeping workers | `post`, `post_priority`, pick, slice, stop | one strand on two workers; a missed `notify_one`; starvation | serial strands, priority, no lost wake-up, every post runs |
| `rt/channel.hpp` | ring, terminal state, parked consumer, blocked producer | `push`, `try_push`, `try_pop`, `next`, `close`, `fail`, `cancel`, destructors | parking against a push; destruction of either side | no data loss, both sides get out |
| `rt/scope.hpp` | children, cap, first fault, parked owner | `spawn`, join, stop, `child_done` | last child against the parking join; throwing body | no child outlives its scope, the join ends |
| `rt/offload.hpp` | one atomic state per job, queue, workers | `offload`, cancel, abandon, `shutdown` | four actors race on one word | delivered once, callers answered, `shutdown` returns |
| `rt/background_job_runner.hpp` | job table, owners' ceilings, queue, sink | `submit`, `cancel`, run cascade, progress, eviction, `shutdown` | events delivered outside the lock; cancel against completion | ceiling, ordered events, silent sink, cascade not lost |
| `rt/runtime.hpp`, `rt/resume_home.hpp` | `roots_`, live roots, `EnterState::phase`, tickets, `outstanding_` | `run`, `spawn`, `enter`, `~CompletionThread`, `~Runtime` | host destroys a parked coroutine while its root ends | no root outlives the Runtime, no resume after destruction |
| `src/rt/agent_session_core.cpp` | the run counter, history, open interactions, budgets, stop source, charge account | `start_run`, rounds, tool dispatch, questions and their answers, `cancel`, `on_run_end` | answers, cancels and charges that arrive for another run or round; a resume that fails half-way | run ends reported once, cancels and charges stay in their run, gated calls, never wedged, calls end |
| `src/rt/workflow_supervisor*.cpp` | pending deliveries, fan-in holds, ports, batch items, owed cancels, cancel epoch, checkpoint | run, resume, continue, poll, `cancel`, checkpoint, restore | sources of a join that answer in different rounds; a cancel of a suspended run; jobs a vendor still runs after a crash | joined once, completed means joined, jobs accounted, a cancelled run closed |
| `src/rt/append_log_file.cpp`, `rt/append_log_store.hpp`, `rt/effect_journal.hpp` | the cells of a file and what of them is on the disk; intents and outcomes | append, scan, cut of the tail, sync; journal and recovery | a crash or a power loss between any two cells; a failed append | the file implements the abstract log, crash is not damage, no record cut, effects accounted |
| everything else | data, formats, platform calls | | | not modelled (last section) |

`PROJECT.json` lists every component with its files, and every hazard at its line.

## Modules

Each action is one critical section of the code, or one step of a task between two of them.

* **AsyncMutex** (`rt/async_mutex.hpp`, `rt/await_chain.hpp`). A task is one holder id. `AwaitReady`
  and `AwaitSuspend` are the two looks a contended `lock()` takes; both go through `classify`
  (`classify_locked`), which asks `relate` (`Registry::relate`) whether the owner awaits the
  requester and then takes, lends, refuses or queues. `Unlock` is `unlock(depth)`: it gives a loan
  back, records a pending release, or starts the hand-off loop, whose turns are `DrainLoop`. A
  waiter is woken by its home: a strand, a host, a `block_on` caller, or, without one, on the loop's
  own stack (`inline`). `Fork*`, `Join`, `Joined` and `Finish` are the structured concurrency whose
  awaited edges loans rest on. A task destroyed while waiting is `DropParked` or `DropGranted`.
* **Lanes** (`rt/lanes.hpp`). Strands with a FIFO and a priority queue, groups with a round robin,
  workers that pick, run a bounded slice and requeue, sleep on a condition variable and leave at
  stop. Wake-ups are tokens, so that one sent to nobody is lost.
* **Channel** (`rt/channel.hpp`). One producer, one consumer. Both `await_ready` and
  `await_suspend` of `next_async`, the blocking `push`, and all terminal transitions.
* **TaskScope** (`rt/scope.hpp`). `with_scope`: the body, children under a cap, the join.
* **OffloadPool** (`rt/offload.hpp`). `JobBase::state_` and its transitions, the thread inside
  `await_suspend` and the coroutine it suspends as two actors, workers and `shutdown`.
* **BackgroundJobs** (`rt/background_job_runner.hpp`). The runner's table and queue, its workers, the
  emission of events outside the lock, and the sink the host may destroy after `shutdown`.
* **RuntimeRoots** (`rt/runtime.hpp`, `rt/resume_home.hpp`). Roots of the four kinds, the phase that
  a root's end and its awaiter's destructor race on, the continuation in a host's hands, and the two
  destructors. A checked violation (the process aborts) sets `aborted`.
* **AgentSession** (`src/rt/agent_session_core.cpp`). A call of `start_run` or `resolve_interaction`
  holds the session's mutex across every await, so `pc` says at which await the one call in progress
  stands: the head of the round loop, the context provider, the model, the tools, a resume. A round
  suspends for an approval, a hook's decision or a script's question; the answers are actions of
  their own. `cancel()` copies the stop source and asks it to stop in two steps beside the lock, and
  child agents report charges at any time. The history is its length and what its last message asks
  for; tokens are units. `fired`, `aimed`, `late_calls`, `round` and `owed` record what the
  properties speak of and the code does not keep.
* **Workflow** (`src/rt/workflow_supervisor.cpp`, `src/rt/workflow_supervisor_batch.cpp`). An entry
  point is a prologue, waves of rounds (gather, submit, run, route, checkpoint) and an epilogue under
  `run_mutex_`; `cancel()` runs beside it and only tries the lock. A payload is the sequence of
  executors whose outputs it joins, which is what fan-in is about. `Crash` ends the process; the next
  one restores the saved checkpoint, while the vendor's jobs live on.
* **AppendLog** (`src/rt/append_log_file.cpp`). The file as cells of four bytes: an append writes its
  frame cell by cell, so that a crash may fall between any two, and scans, cuts a torn tail and syncs
  as the code does. `disk` is what survives a power loss.
* **DurableLog** is the abstract store: a sequence of records, and the promises an append makes
  (`rt/append_log_store.hpp`). **EffectJournal** (`rt/effect_journal.hpp`) is the journal over it:
  intent, effect, outcome, and the unconfirmed intents a restart has to decide. **FileJournal** puts
  the same journal on AppendLog, and maps the file to the log by scanning it: `FileImplementsLog`
  says that every behaviour of the file store is one of the abstract journal.

The `MC*` modules give the constants values for TLC. `*Proofs` modules hold the theorems, one module
to a component, with two exceptions: `ScopeChannelProofs` has those of TaskScope and, instantiated as
`Ch`, of Channel; `RecoveryProofs` those of Workflow and, as `E`, of EffectJournal.

## What the runs check

| run | question | distinct states |
|---|---|---|
| `mutex` | three roots with the three kinds of home and a forked child, destroyed waiters: one executor, no hand-off lost, no barging, waiters served | 74k |
| `mutex_pending` | violation, see findings | |
| `lanes` | strands are serial, wake-ups not lost, priority first, every post runs | 52k |
| `channel` | no item lost or reordered, both sides get out | 2.5k |
| `task_scope` | the scope outlives its children, nobody is forgotten, awaited edges are true, the join ends | 58k |
| `offload` | one delivery, callers answered, `shutdown` returns | 172k |
| `jobs` | the ceiling, ordered events, a silent sink after `shutdown`, the run's stop reaches its jobs | 2.3M |
| `jobs_too_late` | violation, see findings | |
| `roots` | no root outlives the Runtime, resumed only while parked, `enter` answered, `~Runtime` returns | 21k |
| `file_journal` | the file store implements the abstract journal; a crash is never taken for damage, no intact record is cut, every effect that took place is in the journal | 306k |
| `session` | run ends, cancels, charges and approvals stay with their run and round; the session is never wedged; every call ends | 794k |
| `workflow` | each source joins once, completed means joined, every job a vendor runs is known, a cancelled run is closed | 1.2M |

Each property has a mutant of the code's logic that violates it under the same configuration
(`PROJECT.json`, "mutants"); the mutated operators stand before the originals in the modules.

### Bounds, and why they are enough

* AsyncMutex: four tasks. Three roots contend, so that the FIFO has two waiters behind a holder, and
  one forked task borrows. A loan of a loan is in the proofs and in `mutex_pending`.
* Lanes: two strands in different groups (and one group shared), two workers, two posters, slices of
  the smallest size that can leave work behind. A strand on two workers, a stale priority entry and a
  lost wake-up each need only two of a kind.
* Channel: capacity below the number of items, so that the producer blocks.
* TaskScope: a cap below the number of children.
* OffloadPool: three jobs, one per kind of home, and two workers.
* BackgroundJobs: two jobs of one owner under a ceiling of one.
* RuntimeRoots: an owned root, a root entered from a host, and one on a CompletionThread. `run` and
  `spawn` differ only in who waits for the flag.
* AgentSession: two runs, so that everything late can meet a later run; two calls to a response, so
  that one is gated and the other is not; two turns, one stream retry and a budget of two units, so
  that each bound is reached and also passed over. The proofs lift all of them.
* Workflow: a start that fans out to a function (its failure is propagated), a request port, a
  batched node with a recovery executor and one whose failure fails the run, joined by a fan-in:
  every way a source can answer, two of them by batch. Three epochs (runs and restores) are a run, a
  second run and a restore; two jobs, one crash, four rounds, one canceller.
* FileJournal: two executors, two keys whose frames differ (one crosses the granule in which a power
  loss leaves zeros), two faults, so that a fault meets the repair of an earlier one.

### Fairness

Weak fairness says that a thread that can take a step takes it, that a lane or a worker runs what is
posted, and that a destructor or `shutdown` that began goes on. These are the scheduler's and the
host's side of the contract. Beyond it: a body that was asked to stop ends, an offloaded body ends
(`RuntimeRoots`, `OffloadPool`), and a critical section ends (`AsyncMutex`). In
AsyncMutex a task that can join or end again and again eventually does (strong fairness): it may
take the lock any number of times before, so weak fairness would not say it. In AgentSession what a
call awaits (the context provider, the model, a tool, a script) answers or throws; the bounds on
turns, retries and questions then end the call. BackgroundJobs, Workflow and FileJournal are checked
for safety only.
Nothing is assumed of clients that may stay away: no fairness on `lock`, `submit`, `cancel`, `enter`
or destruction.

## What is proved

For every number of tasks, jobs, workers, roots, and every assignment of homes and kinds:

* **AsyncMutexProofs**: `OneExecutor` ("one session, one executor"), `LoansNested`, `NoLostHandoff`,
  `TypeOK` and the action property `NoBarging`, under `~AwaitWhilePending` (without it
  `mutex_pending` refutes them). `OneExecutor` is far from inductive. Whoever owns the mutex must be
  known to it: `owner_`, or the lender of a frame of the loan stack (`OwnersKnown`). A lender must
  be suspended, and stays so because it awaits its borrower (`LoansNested`), which rests on the
  truth of the await chain: an edge that is marked awaited leads to a live parent that is joining,
  and a task's ancestors are the ones its parents say (`Chains`). A release that only set
  `pending_release_` leaves an owner without a guard, which must not lend (`ReleaseRecorded`). The
  hand-off loop takes waiters from queues, so the queues hold parked tasks, each once, and under a
  loan only tasks that its lender awaits (`Queues`). `NoBarging` follows step by step: a free mutex
  has an empty FIFO, a loan is owned above depth 0, and `unlock()` grants to the head.
* **LanesProofs**, for any strands, groups, items and finite set of workers: `StrandSerial`,
  `NoLostWakeup` and the action property `PriorityFirst`. The invariant says that the scheduler's books
  agree: a group's list holds its ready strands, each once, idle and with work (`ReadyExact`); the ready
  groups are listed once (`GroupsExact`); `priority_items_` counts the queued priority items and the one
  being served (`PriorityCounted`); and a ready strand with priority work is in the priority list
  (`PriorityListed`), which may hold stale entries besides. The last two are what `PriorityFirst` needs.
  A wake-up is kept because every strand made ready brings a notification and every worker that falls
  asleep saw no ready strand under the lock. `GroupsExact` and `PriorityListed` are claimed only while a
  worker is left: `mark_stopped` clears the lists when the last one has gone.
* **ScopeChannelProofs**. Channel, for any capacity and number of items: `ZeroDataLoss`;
  `BothSidesWoken`, the safety half of `BothSidesGetOut` (a parked consumer's handle is where the next
  change will look for it, a blocked producer whose reason is gone has a notification coming); and
  `EndTruthful` (the end is reported after everything accepted was received). TaskScope, for any finite
  set of children and any cap: `NoChildOutlivesScope`, `NobodyForgotten`, `AwaitedEdgeTruthful` and
  `CapHeld`. The invariant counts exactly (`Counted`): `live_` the children with a touch to come,
  `running_` those that hold a slot, including a pending child that an ended sibling has taken from the
  queue and not yet posted. The queue and those hand-offs hold each pending child once (`Waiting`,
  `Handing`), and a parked owner's handle is in `waiter_` or with exactly one child (`OwnerParked`).
* **BackgroundJobsProofs**, for any jobs, owners, workers, ceilings and bounds: `CeilingHolds`,
  `SinkSilent`, `CascadeNotLost` and the action property `EventsOrdered`. Again the books are exact:
  `live` counts the unfinished jobs and both bounds hold (`Counts`), the queue holds the queued jobs
  once (`QueueExact`), a busy worker has an unfinished job of its own (`WorkersHold`), and eviction
  forgets ended jobs only (`KnownExact`); otherwise a worker could end a job twice, or one that is
  gone. `CascadeKept` says that a callback that ran on an unfinished job requested its cancel and that a
  linked job's callback stays registered while the job is unfinished. No finiteness is assumed: the
  bound on pending jobs provides it.
* **OffloadPoolProofs**: `TypeOK`, `DeliveredOnce`, `CanceledNeverRuns`. `DeliveredOnce` alone is not
  inductive: a delivery is safe because the state it starts from says that nobody was resumed yet.
  The invariant adds that a job that may still end is undelivered (`OpenUndelivered`), that until
  `try_arm` only `await_suspend` may resume, also when a cancel came first (`ArmingUndelivered`), and
  that the state word says whether the body was started (`BodyCounted`). The queue plays no part: a
  job taken twice would still be started once.
* **RuntimeRootsProofs**: `TypeOK`, `NoRootOutlivesRuntime`, and the action property
  `ResumedOnlyWhileParked`. The invariant says that `roots_` counts the roots between admission and
  release and `outstanding_` the parked coroutines of the CompletionThread (`Counted`), that
  admission is closed before the wait (`ClosedWhenStopping`), and that the phase decides who is
  parked (`PhaseDecides`). Counting rests on the finiteness of the set of roots.
* **RecoveryProofs**. Workflow, for any graph, rounds, jobs, cancellers, crashes and restores:
  `JobsAccounted` and `CancelledClosed`. The invariant adds that a cancelled run is not driven (its lock
  is free or about to be), that a checkpoint is never one of a cancelled run, and that jobs only a
  checkpoint knows of are in it and belong to no run in memory. EffectJournal, for any executors, keys
  and length of the log: `PromisesKept` of DurableLog
  (a record whose append reported success stays under its number, unless the log refuses every call
  or a power loss met a store that was never asked to survive one), and `EffectsAccounted` on top of
  it. The invariant adds that a record under way is where its executor will be told it is, and that
  an executor that acts has an intent that was promised. Together with `FileImplementsLog`, which is
  model-checked, the file store inherits both.
* **AgentSessionProofs**, for any runs, calls, cancellers and bounds: `OneRunEnd`, `CancelStaysInRun`,
  `OneCallAfterStop`, `GatedOnce`, `NeverWedged`, `ChargesStayInRun`. None is inductive; one invariant
  carries all six, with a lemma for each action. The stop source is the current run's, and whoever
  holds a copy of it while the run is in flight called `cancel()` in it (`Aimed`). The charge account
  is tagged with the current run (`Account`). At most one question is open, and it is about the last
  message (`Questions`). `run_in_flight_`, `pending_run_end_` and the number of reports determine
  each other (`Ends`). Until a round is dispatched none of its calls ran (`Gate`).

Assumptions: `SessionAssumption` (the bounds are natural numbers; `NoSource` is no run),
`TasksAssumption` (`NoTask`, the value of an empty `owner_`, is no task),
`OffloadAssumption` (homes are of the three kinds), `RootsAssumption` of RuntimeRoots (kinds, and
finitely many roots), `LanesAssumption` (each item has a strand and each strand a group; finitely many
workers), `ScopeAssumption` (a cap of at least one, finitely many children), `ChannelAssumption` (a
capacity of at least one), `JobsAssumption` (each job has an owner and each owner a ceiling). Finiteness
is assumed where something is counted: threads are counted by the scheduler, children by their scope,
roots by the Runtime. TLC evaluates all on the passing runs.

Only model-checked:

* all liveness: fairness and ENABLED are out of this prover's reach;
* `JoinedOnce` and `CompletedJoined` of Workflow, and `FileImplementsLog`, `CrashIsNotDamage`,
  `CutNeverRemovesARecord` and `EffectsAccounted` of the file store. They speak of what a recursion over
  data computes (routing a wave reply by reply, the scan of a file cell by cell), and an induction over
  data cannot be carried out here.

`LoansNested`, `CanceledNeverRuns`, `BothSidesWoken`, `EndTruthful`, `CapHeld` and the type invariants
are proved and have no run.

## Findings

* `mutex_pending`: a waiter resumed by `unlock()`'s loop that releases before the loop comes round
  only sets `pending_release_`; `owner_` keeps naming it. If it then awaits a child, the child's
  `lock(lend_safe)` is lent the mutex by a task that holds no guard, and the loop grants it to the
  next waiter too. The run `mutex` excludes this by `AwaitWhilePending = FALSE`; with it the properties
  hold.
* `jobs_too_late`: `run_job` reads the stop flag before it takes the lock it finishes under, so a
  cancel accepted in between yields a success without `cancel_too_late`.

### Observations

Met while modelling. They are read off the code and the model, and none has a run of its own.

* `resolve_codeact_ask` leaves the question open when `resume_tool_table` fails
  (`src/rt/agent_session_core.cpp:1286`), after `run_failed` was emitted. A second answer then
  continues a run that has ended. `OneRunEnd` holds all the same: the second end is not reported.
* `WorkflowSupervisor::cancel()` copies the source of one run and may, by its `try_lock`, settle a
  later run that is suspended; `rt/workflow_supervisor.hpp:843` says it cannot reach it.
* A stop requested between an entry point's last look and its unlock leaves the run suspended until
  the next entry point, against `rt/workflow_supervisor.hpp:839`.
* Restoring a checkpoint that waits for a job already owed a cancel leaves it owed, so that the next
  poll cancels a job the restored run waits for ("must stay live",
  `src/rt/workflow_supervisor.cpp:543`).
* A join whose recovery executor is itself one of its declared sources starves when the guarded
  source succeeds: the run completes and the join never ran. `CompletedJoined` is therefore stated
  for graphs in which it is not, as in the run.

## Not modelled

* In the session: restore, clear and fork, interaction ids and client input; with them standing
  effects, whose handles are reused after a clear. The split of the token budget among parallel
  calls. Refusals that depend on the request alone.
* In the workflow: nested workflows, switch edges, quarantine, the stall valve and admission; an
  executor's retries are part of its reply. One checkpoint is kept, the last; one batch group and one
  chunk to a round.
* In the log: the formats v1 and v2, which this version reads and never creates; the session store,
  which replaces a whole file. A checksum is ideal. External and assumed: a successful `fsync` makes
  the writes before it durable, the directory entry included; a power loss leaves zeros from the
  start of a frame or from a granule boundary; rot strikes at rest. Payload cells are not zero. The
  journal's `outcome_ok` flag is data.
* The circuit breaker and the gateways (a small sequential machine and routing of data), AsyncQuota
  (no production caller), the lanes' watchdog (it only reports), `block_on`'s home and
  `StrandStopCallback`.
* Formats and parsers (JSON, YAML, provider wires, base64, HTTP, documents), prompts and context
  assembly, retrieval, evaluation statistics: sequential computations on data.
* Platform I/O: sockets, TLS, DNS, processes, containers, jails, hypervisors, GPU.
* Trust: attenuation of capabilities and signatures are pure functions.
* The ledger and worktrees: content-addressed data; the compare-and-set of refs may get a module.
* A coroutine's symmetric transfer: one step after another is what TLA+ means by a step.
* In other modelled parts: refusals of `BackgroundJobRunner::submit` that depend on its argument alone,
  and a frame destroyed by somebody else between being popped and being resumed inline, which
  `async_mutex.hpp` documents as a residual.

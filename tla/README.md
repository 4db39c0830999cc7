# Verification of LCode

LCode (the repository beside this directory) is a coding workspace: a desktop
application, a web client, a terminal interface and an agent CLI. This project
specifies in TLA+ the parts of it where concurrency, crashes and recovery meet:
the *dynamic workflows*, in which a script the model wrote drives many
subagents; the gate through which all their model requests pass; the service
that starts, revises and closes their runs; the scheduler of *expert
workflows*; the *off-peak tasks* of the desktop app; and the *command inbox*,
through which every input of a user reaches a session.

- [1. Inventory](#1-inventory)
- [2. The modules and the code](#2-the-modules-and-the-code)
- [3. The runs](#3-the-runs)
- [4. Disagreements found](#4-disagreements-found)
- [5. The proofs](#5-the-proofs)
- [6. What is only model-checked, and what is not modelled](#6-what-is-only-model-checked-and-what-is-not-modelled)
- [7. The plan](#7-the-plan)

Paths below are relative to `src/apps/lcode-cli/packages/` unless they start
with `src/`.

## 1. Inventory

### The path of a workflow

```
 run service ── submits, resumes, controls ──> harness ── lines ──> sandbox process
      │                                          │                  (the script)
      │  stop/retry one ask                      v
      └────────────────────────────────────> engine ── ask scheduler ── driver ── subagents
                                               │  │                               │ model requests
                                               │  └── artifacts, reports, world   v
                                               v                        admission ── governor ── provider
                                            journal (SQLite)
```

| component | state it keeps | operations | what makes it correct | module |
|---|---|---|---|---|
| AIMD controller (`dynamic-workflow/src/engine/concurrency.ts`) | cap, epoch, in flight, waiters, streak, cooldown, proven and refuted level | one method per signal | cap within bounds; one verdict per batch; a failed probe costs one step | `ConcurrencyController` |
| Governor (`bootstrap/src/app/workflow-concurrency-governor.ts`) | per provider key: a controller, a queue per run, rotation cursor, cooldown timer | `tryAdmit`, `admit`, abort, observer, ticket `publish` / `release`, drain | counters equal reality; gate holds; FIFO within a run, rotation between runs; nobody forgotten | `AdmissionGate`, `ConcurrencyGovernor` |
| Request admission (`adapters/src/model/request-admission.ts`) | one ticket per attempt | `admitAttempt` | every ticket is released | in part, `AdmissionGate` |
| Ask scheduler (`dynamic-workflow/src/engine/scheduler*.ts`) | per subagent: queue, current ask, stopped ask, hold tables; live asks; slots taken | admit, dispatch, reports of the driver, stop, retry, abort | answers are journalled first and told again on resume; FIFO by `actorSeq`; no slot leaks; no hang; late reports are dropped | `AskScheduler` |
| Artifacts (`dynamic-workflow/src/engine/engine-artifacts.ts`) | ids with kind, versions, spec, primary flag; rows | publish, declare, settle | one primary; the table is what the rows say; caught failures stay failures | `ArtifactPublisher` |
| Engine and settlement (`engine.ts`, `engine-settlement.ts`) | status, ordinals, usage | entry points of the script and of the driver, `complete`, `stop`, `fail` | first settlement wins; `run-settled` is the last event | in the two above, `Harness` |
| Import cache (`imported-cache.ts`, `scheduler-cached.ts`) | predecessor's answers, gate | `take`, `takeIfPure`, close | an imported answer is never given after the workspace was changed | own journal only |
| Reports and world nodes (`engine-report.ts`, `engine-world.ts`) | counts, cursors | report, read, run | as artifacts | – |
| Harness and protocol (`dynamic-workflow-runtime/src/`) | child process, timers, pipes | spawn, messages, abort, finalize | exactly one settlement, whatever ends first; no request lost or answered twice | `Harness` |
| Run service (`bootstrap/src/app/dynamic-workflow-run-*.ts`) | registry of runs, escalations, revisions | submit, amend, revise, resume, cancel, close, release of leases, reconciliation | a run has one engine and one owner; rows tell the truth; a successor starts after its predecessor | `RunService`, `RunRows` |
| Driver (`bootstrap/src/app/workflow-driver*.ts`) | sessions, turns, tool activity | start and cancel asks, publish artifacts | every turn is reported | environment |
| Expert workflow (`core/src/workflow/scheduler*`, `core/src/workflow/expert/`) | one snapshot of the whole run, a file | dispatch, jobs, planner, pause, resume, retry, cancel | dependencies respected; no node twice at once; the run returns | `WorkflowGraph` |
| Off-peak tasks (`src/packages/desktop/src/scheduler/`, `.../host/`, `src/packages/services/src/session/offPeakTask*`) | rows with status, claim, ticket, outbox | claim, dispatch, settle, poll, retake, pause, cancel, recover | a task has one loop; running means running; final stays final; dead tickets are replaced | `OffPeakTask` |
| Command inbox (`bootstrap/src/lcode-protocol-v4/command-inbox.ts`, `v4-gateway-commands.ts`, `v4-gateway-ingest.ts`, `persistent-command-*.ts`) | commands in flight, pinned inputs, settled answers, gates, cached index of the transcript | send, query, admit, settle, pin, release, load, invalidate, unload | an input runs once however often it is sent; what is written is known; every call is answered | `CommandInbox` |
| Automations (`src/packages/desktop/src/scheduler/`) | due times | claim, fire | fired once | – |
| Background tasks (`core/src/runtime-task/`) | registry, undelivered notifications | register, finish, deliver | a result is delivered once | – |
| Input queue of a session (`core/src/runtime/methods/steering-*.ts`, `prompt-admission.ts`) | pending inputs of the turn, reservations | steer, edit, reorder, discard, drain, promote | an input runs once, or was deleted | – |
| Session store (`adapters/src/storage/session-store/`) | SQLite | transactions | atomicity | atomic writes |
| Agent runtime, tools, permission, memory, MCP, plugins | conversation, tool processes | the agent loop | mostly I/O with models and processes | – |
| CLI, TUI, the rest of the protocol servers, desktop, web, services (Git, worktrees, settings sync, RPC) | views, sockets | presentation and transport | out of scope | – |
| Workflow compiler (`dynamic-workflow/src/analysis`, `lowering`, `schema`, ...) | none | pure functions over syntax | tests; not a matter of states | – |

### How they interact

Everything between the script's pipe and the driver runs in one JavaScript
process. A handler runs to completion, so the hard behaviour is not data races
but *what happens between two handlers*: an ask that is stopped while its
session is being created; a ticket settled while the runner reports that it is
queued; two publications at the driver at once; a second resume inside the await
of the first; a snapshot made shared after the write of a file, over what others
have put there since. The other half is *crashes*: the journal (SQLite, written
synchronously) is the only thing that survives, the script runs again from the
start, and every host call must be answered as it was. The command inbox stands
between clients that send again what they got no answer for and a session that
is unloaded, resumed and killed. Off-peak tasks add real
processes: the scheduler, one host per window and the server share one row. The
list of hazards, each at its line with the properties that cover it, is
`hazards` in `PROJECT.json`.

## 2. The modules and the code

| module | models | by |
|---|---|---|
| `ConcurrencyController` | `ConcurrencyController` | operators from a controller record and a signal to the next record |
| `AdmissionGate` | one bucket of the governor, *order left open* | the abstract specification: whom the drain loop serves is any set of waiters of the size the gate allows |
| `ConcurrencyGovernor` | the same bucket with its queues and rotation | implements `AdmissionGate` (`Gate`, with `waiting` the union of the queues) |
| `HostCalls` | the script as the engine sees it | constants: the calls, which answers each waits for |
| `CallLedger` | the promise of the engine to a script | abstract specification: a call is answered once, on the ledger first, and told the same in every life |
| `AskScheduler` | `scheduler*.ts`, the parts of `engine.ts` and of the run service it needs | implements `CallLedger` |
| `ArtifactPublisher` | `engine-artifacts.ts` and its recovery | implements `CallLedger` |
| `Harness` | `harness.ts`, `child-source.ts` | the bridge, the two pipes, the sandbox and the engine's verdict |
| `RunRows` | the life of one row of `dwf_run` | abstract specification: begin, settle once, begin again only where that is allowed |
| `RunService` | `dynamic-workflow-run-*.ts` | implements `RunRows` |
| `WorkflowGraph` | `core/src/workflow/scheduler*`, the commands of `expert/runtime.ts` | one snapshot, a loop, a job per node |
| `OffPeakTask` | one off-peak task in all processes that write it | a row, dispatches, polls, the server's tickets |
| `CommandInbox` | the inbox, its gateway, the persistent index, the rows of `session_input` | one session, requests that come again and again, turns as environment |
| `...Proofs` | – | theorems for all values of the constants |
| `MC...` | – | the small instances |

`map` in `PROJECT.json` gives the lines of every definition.

**Controller.** Time is relative: `age` is the time since the last admission,
saturated at the idle window, and `cooldown` what is left of `cooldownUntil`.
An elapsed cooldown (0) differs from none (`None`) because the code never clears
the field outside an idle reset. The epoch is a number in the code, compared for
equality only; the model keeps instead the set `current` of the tickets whose
epoch is the present one, emptied when a verdict turns the epoch. An idle reset
turns it too, but happens with no ticket out. `lastBad` is never read back: only
whether it is set matters, for the reset's idempotence.

**Gate and governor.** One action per handler: `FastPath` and `FastPathMiss`
(`tryAdmit`; the miss is an action because the runner awaits a report before it
calls `admit`), `Admit` (enqueue and drain), `Abort`, `ObserverGrant`,
`SettleSome` (the four signals a ticket may give and the drain that follows),
`WakeUp` (the timer), `Tick`. The drain loop is one action: a loop of `Turn`s in
`ConcurrencyGovernor`, a choice of `Room` many waiters in `AdmissionGate`. The
slot of a run is a *client*: a subagent has one attempt in flight at a time.
`issuedAt` is a history variable. Change events to subscribers are left out.

**Ask scheduler.** The handlers share synchronous code (`drainAdmission`,
`pumpAll`, `settleOk` ...). It is written as operators from one state of the
engine to the next (`AdmitNext`, `Pump`, `Settled`, `Paused`, ...), which the
actions apply to `Now`. An action includes the microtasks a handler starts:
`Become` sends the current ask to the driver when the actor has a session. One
thing is finer than the code: `FailDispatch`, the rejection of a remembered
session promise, is a step of its own, so that other handlers may run before it.
The instructions of an ask stand for their hash. The settled attempts, usage
statistics, queue observations and supplements are left out. The history fields
`by` and `attempt` of a row say whose execution wrote it.

**Artifacts.** A publication is admitted (`Refuse`, `Dispatch`, or `Retell` for a
recorded one), waits at the driver (`issued`) and settles (`Stored`,
`NotStored`); a declaration is one step (`Skip`, `Declare`, `FailRun`). After a
stop the driver goes on, if its process does, and its late successes are dropped;
`LateFailures` says whether it may also report a failure then, which writes its row
whatever has happened since. Guards on the arguments that leave no trace, and the
two ways to fail without a driver, are left out. `Remembered` is what
`rememberArtifactRow` rebuilds; rows of one id come back in order of insertion,
for which the script's order stands.

**Journal.** Its port is synchronous, so a row and the memory that goes with it
change in one step; `Halt` between any two steps is the crash. A crash *inside*
a handler leaves at most a row more than was told, and the next life tells it:
this is the same as a crash right after the handler, since what is lost is
memory.

**Harness.** The pipes are queues: `out` what the sandbox has written and the
bridge not read, `inp` what the engine has answered and the script not read. The
engine's verdict (`status`) and the bridge's hearing of it (`returned`) are two
steps, as the code returns through a promise. The exit of the process is read
behind the lines (`close`, not `exit`, is what the bridge listens to), and a
killed process dies later, its last lines still in the pipe. `signal` is the
abort; it may come before the bridge listens (`attached`). A request is `asked`
by the script, `pending` until its answer is read. Payloads, the lines that
expect no answer (log, phase) and the generated entry file are left out.

**Run service.** The part of an operation before an await and the part after are
two actions; `op[c]` is what caller `c` knows in between. `row` and `from` are
the journal, `life` the engines (one per launch), `registry` the map `runs` of a
service. A launch may fail before it has an engine (`StartFails`). Its cleanup, the
release of a lineage lease (`Leases` are the launches that have one), is tried again
until it succeeds: `cleanups` are those a service has not done, `retries` those that
wait for the timer. `closing` is what a close waits for: first the launches it
interrupts (`Settled`), then all cleanups there are (`Closed`). In `End` the verdict
"completed" stands for "errored" too: both are final. `Fresh` picks any unused
id. A crash leaves `row` and `from`; `Reconciled` is what the next service makes of them as it opens (`Open`).

**Expert workflow.** The run is one snapshot, and whoever changes it builds the
next from the one it read (`mem`), writes the file and then makes it the shared
one. These are steps of their own, so what others put there during the write is
lost, as in the code. The edges are part of the snapshot: a planner may add nodes,
and edges onto them or onto nodes there are (`PlannerAnswers`, of the edges in
`Plannable`), and these may be lost too, as may the nodes. Named abstractions: a
write lands and returns in one step; one collection holds all nodes; one phase may be explored; later phases and the
report are part of `Finish`; errors of the store are left out; a planned node
may or may not be linked; synchronous blocks are one step; nodes ready at once
are dispatched in any order; a resume of a run that is still under way is left
out (nothing in `resume` guards against it, and it would be a second scheduler).
`finished` and `failures` are history.

**Off-peak task.** A write of the row is one transaction; every await of a
process separates two actions. `seg` are the dispatches, `server` what the
server holds of each ticket, `poll` and `retake` what each window's sync cycle
is at. `Faults` switches what may go wrong: a dispatch slower than the claim's
ten minutes (`slow`), a loop that ends before its dispatch is settled
(`overtake`), a server that forgets a ticket, a restart of the app.

**Command inbox.** A call goes through the key gate of its command, a lookup
(in flight, pinned, settled, then the index, once for the transcript and once for
the discarded inputs), the session gate, the lookup again, and executes. Each
await is a step boundary. A load of the index is three steps (begun, `Read`,
`Load`), and `via` says whose load a call waits for, since a load that was
invalidated still answers those who wait for it. Whether a call is a command or a
query shows when no source knows it. Of the answers only the tables are kept.
`Resume` and `Sweep` are the beginning and the end of a resume, between which the
record is there and the dead process's rows are not yet discarded. A goal
(`Goals`) that is set in an idle session is written inside of the execution
(`GoalWrites`, `GoalIngested`), which may still fail. `handed` and
`written` are history. It is assumed that the event of a promotion is appended once
the row is written. Left out: commands that are no inputs, `record` (which
adds their facts to the index), the retry of a worktree preparation, revisions,
and shared contexts: an input whose reservation of one fails leaves a row "failed".

## 3. The runs

| run | instance | checks | result |
|---|---|---|---|
| `gate_safety` | 3 clients, 1 observer (symmetric), ceiling 4, streak 2, idle window 2, Retry-After 1 or 3 | counters, 2 laws of the controller, who is stranded | holds; 53,771 states |
| `governor` | runs of 2 and 1 slots, 1 observer, ceiling 2, streak 1, idle window 1, Retry-After 2 | refinement of the gate, FIFO, rotation, liveness | holds; 11,893 states |
| `asks_replay` | 4 asks, 3 subagents, 1 slot, 2 of the asks under the user's control, 2 attempts, 3 lives | slots, order, replay, ledger, no hang | holds; 73,474 states |
| `artifacts` | 8 calls on 4 ids: a race for the flag, versions up to and past the cap, an id past the cap, a repeated declaration, a clash of kinds; 3 lives; no late failures | flag, recovery, ledger, end | holds; 95,910 states |
| `harness` | 2 handles (one refused), 3 requests, 2 reasons to abort | completion heard, requests neither lost nor doubled, end | holds |
| `runs` | 2 runs, a revision of one, 3 launches, 2 of them with a lease, 1 service process at a time, 1 caller, endings close and crash, launches that fail | owned engines, true rows, order of successor and predecessor, refinement of `RunRows`, liveness | holds; 348,410 states |
| `runs_twice` | the same with 2 callers, 4 launches, no endings, no leases, no launches that fail | `OneEngine` | violated, see 4 |
| `graph` | nodes a, b, c; b waits for a; c is planned, with edges from a onto c and from c onto b or without; 2 at a time, 1 error allowed, 1 planner run, 1 further life, 1 fault | real completion, one job, dependencies, return | holds; 568,428 states |
| `graph_lost` | 2 independent nodes, no faults | `PausedIsBlocked` | violated, see 4 |
| `offpeak_safe` | 2 tickets (symmetric), 2 dispatches, 1 window, restarts, a server that forgets | one loop, running is real, final stays final | holds |
| `offpeak_ends` | 2 tickets, 1 dispatch, 1 window, restarts | claims end, tasks are reported, tickets heal | holds |
| `inbox` | an input and a goal, 2 calls at a time, a table of 1 answer, all faults | run once, written is known, answers | holds; 138,166 states |

**Bounds and why they are enough.**
*Gate*: a ceiling of 4 is the smallest from which `Cut` takes two different
steps (4 to 3, 3 to 2) and which leaves room to probe above a cut; a streak of 2
tells a counted success from a proof; an idle window of 2 lies between the two
Retry-After delays, so a cooldown may end before, at and after an idle reset;
three clients and an observer let the observer fill the last place. Nothing else
is bounded: `age`, `cooldown`, the streak and the tickets are finite by
themselves. *Governor*: two runs, one of them with two waiters, are the least
that shows rotation and FIFO at once. *Asks*: `MaxAttempt` bounds the retries of
an ask and `MaxLives` the resumes of the run; two attempts give one superseded
attempt with a late report and three lives one resumed life between two others.
`RepairAttempts` and `NudgeAttempts` are 1: the code's 3 and 1 differ in how
often a step repeats. `MaxConcurrency` 1 with three subagents makes the slot
contested at all times. *Artifacts*: caps of 3 ids and 2 versions are reached
and exceeded. The script publishes an id again only after the answer; what
happens otherwise is in section 4. *Harness*: two requests of a good handle and
one of a refused one put a request in the pipe, at the engine and in the answer
at once. *Runs*: three launches are a predecessor, its successor and a resume of
one of them, which crosses every pair of operations; two leases give a close a
cleanup of an earlier launch beside that of the one it interrupts. *Graph*: one
node before another and a third that is planned, between them or free, is the least
graph with an order, a growth and an edge onto a node that is there already;
`MaxFaults` is one budget for failed agents, failed planners, crashes and
cancellations, and `Lives` bounds resumes and retries; one of each gives a fault and
the run that repairs it. *Off-peak*: two dispatches
give a late writer of an earlier one, two tickets a replaced one; the liveness
run has one dispatch because the behaviours it forbids get stuck in the first.
*Inbox*: a table of one answer forgets with every second input, as the code's
512 do at last; two inputs contend for the session gate and evict each other, two
calls are a sender and whoever sends or asks again; calls come again for ever.

**Deadlock** is checked in every run but the two of `WorkflowGraph`, whose run
really stops. Elsewhere something can always happen: a settled workflow run takes
the explicit step `Over`, enabled only then; a service opens again; a task is
created again.

**Fairness.** `ConcurrencyGovernor` assumes that the clock runs, a due timer
fires and every request ends: the runner has timeouts and releases its ticket in
a `finally`. Nobody is obliged to ask, to abort or to use the main agent.
`AskScheduler` and `ArtifactPublisher` assume weak fairness of `Progress` as a
whole: as long as the pipe holds a request, a session or a turn is open, a
publication is at the driver or the script may return, one of these happens; the
event loop sees to the first, the driver's timeouts and its `finally` to the
others. It is one fairness condition and not one for each step, so nothing is
said about which goes first. `Harness` assumes the same of the reading of lines,
the events of the process, the bridge's return and the death of a killed
process; neither the script nor the timer nor an abort is obliged to end the
run, so `Ends` speaks of runs something has ended.
`RunService` assumes that an operation goes on after its await, that a launch
starts or fails, that a settled engine is noticed, that a close with nothing left to
wait for goes on, and that the release of each lease is attempted and, after the
timer, attempted again. Whether an attempt succeeds is open, so a release may fail
for ever and a close then waits for ever: `CloseEnds` is about behaviours in which
failures of releases end. Engines need not end by themselves.
`WorkflowGraph` assumes that the loop goes on (files get written) and that
agents and the planner answer or fail. `OffPeakTask` assumes that the
scheduler's ticks, dispatches and windows go on, and, strongly, that a poll or a
take that is tried again and again succeeds at last (the server is not
unreachable for ever). `CommandInbox` assumes that a call goes on behind its gate
and that loads and the handlers of commands end; turns, clients and sessions are
obliged to nothing. Stops, retries, resumes, cancellations and crashes are
never obliged to happen.

**What the properties say** is in the comment above each. The ones that carry
most: `BurstCutsOnce` (the reason the epoch exists), `ImplementsGate`,
`WaiterLeavesQueue`, `InOrder` (the hold rule, across lives),
`LateReportsDropped` (attempts, across lives), `KeepsLedger` (two components
implement the ledger), `NoHang`, `SameAfterCrash` (a crash at any moment loses
nothing), `CompleteIsHeard` (an exit never overtakes the last line), `Owned` and
`AfterSettlement` (across awaits, revisions and crashes), `OneJob` and
`CompletionIsReal` (although snapshots are lost), `OneLoop`, `RunningIsReal`,
`TicketHeals`, and `OnceEach` and `WrittenIsKnown` (across retries, evictions,
stale loads, unloading and crashes).

Each property of a passing run has a mutant: a plausible bug (an epoch check
dropped, a queue pumped for its own actor only, a row not written, a guard not
looked at again after an await) that makes it fail. The mutated operators stand
before the originals under the comment "Mutant". Type invariants that no run
checks are proved (section 5).

## 4. Disagreements found

Each of two runs checks one statement that a comment or a message of the code
makes, and fails. The lines are quoted under `findings`.

1. **`OneEngine`** (`runs_twice`) – `resume` of a run with a predecessor awaits the
   rebuilding of the import and does not look again; two resumes inside that
   await start two engines on one row.
2. **`PausedIsBlocked`** (`graph_lost`) – the loop takes the snapshot a job *began*
   with for the shared one, over the completion another node has entered since.
   The node stays active with no job and the run pauses as blocked, with nothing
   pending.

More were met while modelling. They are stated in the modules, with the instance
that shows them where it differs from the checked one, or described here:

- `NoStrandedWaiter` (`workflow-concurrency-governor.ts:302`, on the instance of
  `gate_safety`): an abort feeds the controller, whose idle reset may forget the
  cooldown; the timer is then cancelled and not set again, and no drain follows.
  The remaining waiters hang until another request comes. `StrandedOnlyByAbort`
  says that nothing else strands anybody.
- `NoRunStarves` (`workflow-concurrency-governor.ts:244`): a grant to the main
  agent sets the rotation cursor to a run that is never in the queues; with such
  traffic a large fan-out starves a later run. (`Ceiling` 1, no aborts.)
- `ReplayMatches`, `NoSilentDrift` (`engine.ts:664`, `scheduler.ts:143`): ordinals
  are given in order of arrival; two pipelines that share their sites reach them
  in order of completion at first and in order of issue on resume. The script
  fails its resume, or, with equal texts, answers change places silently.
- `HeldPlace` (`scheduler.ts:356`): one `paused` slot per actor; stopping a second
  ask forgets the first. (Three asks of one subagent.)
- `SameAfterCrash` and `KeepsLedger` with `LateFailures` (`engine-artifacts.ts:444`):
  a publication under way when the user stops the run, and failing in a process that
  lives on, writes its row "failed" even over what the next life has published.
- `OnePrimary` with two publications of one id at once
  (`engine-artifacts.ts:390`); `RunSettledIsLast` (`:454`): a publication that
  fails late appends behind `run-settled`.
- `ClosedIsQuiet` (`dynamic-workflow-run-submit.ts:159`): an amendment or resume
  inside an await when `close` begins launches behind it. (Two callers.) Nobody
  aborts that launch, and if it comes early enough its cleanup is among those the
  close waits for, which then lasts as long as the engine.
- `AfterSettlement` (`dynamic-workflow-run-submit.ts:159`): a stopped run that is
  resumed while its amendment awaits the import runs beside its successor. (Two
  callers.)
- `CloseEnds` without its condition (`dynamic-workflow-run-lifecycle.ts:281`): the
  release of a lineage lease is retried without bound, and a close waits for it.
- `OrphansOnly` (`dynamic-workflow-run-reconcile.ts:60`): a service that opens while
  another process runs an engine of the session settles its row.
- `CancelStops` (`dynamic-workflow-run-lifecycle.ts:138`): an abort during the wait
  for the checkout lease is settled as errored, which cannot be resumed.
- `ErrorIsHeard` (`harness.ts:375`): with a signal aborted before the bridge is
  built nobody listens for the spawn error.
- `RunningIsReal` with `overtake` (`offPeakTaskService.ts:454`): a loop that ends
  before its dispatch is settled leaves the row running. `OneLoop` with `slow`
  (`offPeakTaskRepo.ts:561`): a slow dispatch is made twice. `CancelledIsStopped`
  (`offPeakDispatchSettlement.ts:41`): the loop of a task cancelled while its
  dispatch was under way goes on. `RetakeHarmless` with two windows
  (`offPeakTaskService.ts:633`), `SchedulableIsReady` (`:605`), `TicketHeals` with
  `forgets` (`:642`).
- `PlannedEdgesStay` (`scheduler/node-runner.ts:73`): an edge a planner has put onto a
  pending node is lost when a job makes an older snapshot the shared one, and the
  node starts before the one it should wait for. (Three nodes without edges,
  `Plannable` one edge between two of them, no faults.) `DependenciesFirst` therefore
  speaks of the edges the graph had from the start and of those the loop sees when
  it lists the node.
- Expert workflow: a failed node that others wait for pauses the run as a deadlock
  without a pending node; a cancel whose snapshot is overwritten before the abort
  leaves a resumable run; the branch from `draining` to `exhausted` in
  `applyPlannerExpansion` cannot be reached.
- `AdmittedIsKnown` (`v4-gateway-commands.ts:186`): a command that fails after its
  row was written cancels the row, but only the removal of an item from the queue
  (`v4-gateway-ingest.ts:225`) and a promotion drop the cached index. After an
  eviction or an unloading the same command is not known to have failed and runs
  (`Faults` with `execute` alone). It also fails with `resume` alone: `session/resume`
  registers the record before it discards the rows of the dead process
  (`server-operations.ts:1570`), without the READY promise of the gateway; an input
  accepted before a crash is then unknown to a query and runs when sent again, and
  the index keeps the answer. It holds in the same instance with neither. With
  `execute` an admission that throws after it has written the row
  (`v4-bridge-admission-host.ts:83`) leaves that row too.
- A goal set in an idle session is in the transcript before its execution is over;
  when no model is ready to go on with it (`goal-continuation.ts:25`) the command is
  answered and remembered as failed, and as accepted once the table has forgotten
  that. `WrittenIsKnown` allows this answer for goals only; they do not run twice.
- A pin
  is released only by a promotion, a removal or a failure of the command itself:
  a started turn that ends before `persistUserPrompt` leaves it, and the session
  cannot be unloaded.

The passing runs separate what holds from these: `asks_replay` uses a script in
which every site is evaluated once, `artifacts` one in which publications of an id
follow each other and no failure is late, `runs` one caller, `offpeak_safe` no
`slow` and no `overtake`. Those are preconditions of the properties and not
details.

## 5. The proofs

For all values of the constants that satisfy the assumptions of the module; the
theorems about artifacts also name that `None` is not a record (`NoneAssumption`).
TLC checked every formula first, on the instances of section 3.

| module | theorem | states |
|---|---|---|
| `AdmissionGateProofs` | `TypeCorrect` | `Spec => []TypeOK` |
| | `Accounting` | `Spec => []TicketAccounting` |
| | `ProbeCostsOneStep` | `Spec => []ProbeIsOneStep` |
| | `AlarmIsExact` | `Spec => []AlarmAtCooldownEnd` |
| | `CurrentTicketsUnderCap` | `Spec => []IssuedUnderCap` |
| | `OneCutPerBurst` | `Spec => BurstCutsOnce` |
| | `GateIsNeverOverrun` | `Spec => GateHolds` |
| | `OnlyAbortStrands` | `Spec => StrandedOnlyByAbort` |
| | `NobodyStrandedWithoutAborts` | if `Abortable = {}` then `Spec => []NoStrandedWaiter` |
| | `GovernorImplementsGate` | `Gov!Spec => Gov!ImplementsGate`: the refinement, `Gov` being `ConcurrencyGovernor` |
| | `GovernorFifoWithinRun` | `Gov!Spec => Gov!FifoWithinRun` |
| | `GovernorRunsAlternate` | `Gov!Spec => Gov!RunsAlternate` |
| | `GovernorTypeCorrect` | `Gov!Spec => []Gov!TypeOK` |
| `HarnessProofs` | `TypeCorrect` | `Spec => []TypeOK` |
| | `AbortIsNeverMissed` | `Spec => []AbortedNeverRuns` |
| | `FirstVerdictStands` | `Spec => OneVerdict` |
| | `CompletionIsHeard` | `Spec => []CompleteIsHeard` |
| | `HandlesAreKnown` | `Spec => []HandleKnown` |
| | `NoAnswerLostOrTwice` | `Spec => []PendingIsSomewhere` |
| `OffPeakTaskProofs` | `TypeCorrect` | `Spec => []TypeOK` |
| | `FinalStatesStay` | `Spec => TerminalStays` |
| | `RunningTasksRun` | without `overtake`: `Spec => []RunningIsReal` |
| | `OnlyOneLoop` | without `slow`: `Spec => []OneLoop` |
| `WorkflowGraphProofs` | `TypeCorrect` | `Spec => []TypeOK` |
| | `NoAnswerInvented` | `Spec => []CompletionIsReal` |
| | `NeverTwoJobs` | `Spec => []OneJob` |
| | `OrderKept` | `Spec => DependenciesFirst` |
| `RunServiceProofs` | `TypeCorrect` | `Spec => []TypeOK` |
| | `EnginesAreOwned` | `OneProcess` ⊢ `Spec /\ []Apart => []Owned` |
| | `OneEngineEach` | `OneProcess` ⊢ `Spec /\ []Apart => []OneEngine` |
| | `RunningRunsRun` | `OneProcess` ⊢ `Spec /\ []Apart => []RunningIsTrue` |
| | `RowsImplemented` | `OneProcess` ⊢ `Spec /\ []Apart => Rows!RowsSpec`: the refinement |
| | `SuccessorsWait` | `Lone` ⊢ `Spec => AfterSettlement` |
| `ArtifactPublisherProofs` | `OnePrimaryInTurn` | `Spec /\ []InTurn => []OnePrimary` |
| | `PublicationsInTurn` | `OneAtATime` ⊢ `Spec => []InTurn` |
| | `OnePrimaryEver` | `OneAtATime` ⊢ `Spec => []OnePrimary` |
| | `RowsSayWhatIsKnown` | `OneAtATime`, not `LateFailures` ⊢ `Spec => []SameAfterCrash` |
| | `PublisherKeepsLedger` | not `LateFailures` ⊢ `Spec => KeepsLedger`: the refinement |
| `AskSchedulerProofs` | `TypeCorrect` | `Spec => []TypeOK` |
| | `OnePlace` | `Spec => []Placement` |
| | `NoIdleSlot` | `Spec => []WorkConserving` |
| | `LateReportsAreDropped` | `Spec => []LateReportsDropped` |
| `CommandInboxProofs` | `RunsOnce` | `Spec => []OnceEach` |
| | `WrittenStaysKnown` | `Spec => []WrittenIsKnown` |

*Gate.* The five invariants together are inductive (`GateInv`); alone they are
not. `IssuedUnderCap` needs `TicketAccounting`: an idle reset raises or lowers
the cap whatever the tickets say, but it happens only with `inFlight = 0`, hence
with no tickets. `BurstCutsOnce` needs `IssuedUnderCap` (the throttled ticket was
issued under no more than the present cap) and `ProbeIsOneStep` (a fallback to
`lastGood` lowers the cap by one, which is no more than a cut). First come lemmas
about the arithmetic of `Cut`, about what each controller operator does to each
field, and about `Drain` and `Grant`, once for all their callers; then one step
per action.

*Governor.* The gate chooses whom it serves in one step; the governor finds out in
as many rounds of its loop as it has waiters, each looking at the cap and at the
clock again. `DrainServes` says what all rounds come to: the set served has the
size the gate prescribes, it is a prefix of each queue (`Behind`), and the first
waiter served is the head of the run after the last one. It is shown by induction
on the rounds (`RoundKeeps`, `DrainRounds`): after i of them the controller is that
of the start with i more in flight, or the loop has stopped; the idle reset that
each round tries again finds a ticket out or nothing left to reset. The loop must
also be over when the rounds are: with n waiters, n rounds either fill the gate or
empty the queues. The invariant `GovInv` keeps what that needs of the queues
between the steps (`QueuesOK`: each waiter once, in the queue of its run, and the
order names the runs that have any). The rest is one lemma per handler.

*Harness.* Three invariants, each inductive relative to those before: what a
process that has ended implies for the pipe (`Ended`), that a script that said
"complete" has its line in the pipe or was heard (`Heard`), and that a handle the
script uses is in the map or its creation is ahead in the pipe (`Known`). The
order of the pipe carries the last two. `PendingIsSomewhere` needs positions in
both queues to be unique, which an append and a tail preserve.

*Off-peak task.* Every dispatch that is not settled is the last one, or belongs
to a row that will not take its result; a loop belongs to a claimed or running
row. The two properties that fail under a fault are proved without that fault
only, and the run of the fault is described in section 4.

*Expert workflow.* Snapshots are lost, so no fact about "the" snapshot is
inductive. The invariant speaks of *every* snapshot there is (the shared one, the
file, those being written by the loop and by each job): it is `Sound`, that is,
it only calls a node completed that has answered, failed that has failed as often
as it may, and it counts no more tries than there were. Snapshots of one life
agree on the cancelled nodes. Overwriting one sound snapshot by another keeps
this, and it is enough. A node that is listed carries the dependencies it was
listed with, which have all been met (`DepsMet`), and what is met stays so.

*Run service.* `OneProcess`: another service opens only when the first is closed or
dead. `Apart` is about any number of callers and says what may not overlap: two
resumes of one run are never under way at once, and no operation is when its service
is not open. Each half is needed: without the first two engines write one row
(`runs_twice`), without the second a launch slips behind a close (`ClosedIsQuiet`).
Everything else may overlap: amendments, revisions and submissions with each other
and with a resume, cancellations and crashes with all of them. The invariant: a
launch that has not ended is what the registry of its open service holds for its
run; rows and launches agree; an operation between two awaits may still go on
(`MayGoOn`): nobody has begun the run it is about to launch, or it resumes a run that
is still over. This is kept by the others because new ids are fresh, because a
revision has one predecessor and one request under way (`revisionAdmissions`), and
because only another resume could launch a run that exists. Of a predecessor nothing
is known by then: it may have been resumed while its successor was imported, so
`SuccessorsWait` holds for callers one after another only (`Lone`). `RowsImplemented`
maps each action to a step of `RunRows` or to a stutter.

*Artifacts.* The primary flag and the version are read at admission and written at
settlement. What the code relies on without checking is that a publication at the
driver still has the next version of its id (`InTurn`). It follows from a
condition on the script alone, `OneAtATime`: of two calls with the same id, one a
publication, one is made after the answer to the other. `MCArtifactPublisher` has
TLC decide it for its scripts: it holds of `Report`, which the run uses, and not of
`Twins` (section 4). The way there: a life sends each call once and only after the
answers it waits for (`Orderly`, the script's side of the resume), so while a
publication is at the driver no other call of its id is done (`Undisturbed`). That
also gives `Recalled`, that what is known of an id is what `rememberArtifactRow`
would make of its rows, which is `SameAfterCrash`; here no failure may be reported
once the run has settled (`LateFailures`), since it overwrites a row the next life
may have written. Late successes may come in any life: they find the run settled, or
resumed by another engine, and are dropped. The refinement of `CallLedger` needs that
too (`UnderWay`: while the run goes on, what its present life has at the driver has a
row that is running), and nothing of the script.

*Ask scheduler.* The actions apply synchronous code to the engine's state, so the
invariant is about that state (`Good`) and each piece of code is shown to keep it
once, whoever calls it. Its parts: where a live ask may be (`Placed`); that a call
without an answer is either live, or waits for its admission once, or still lies
in the pipe (`Pending`, `Served`); that recorded and fresh calls of an actor have
their ordinals, so that the drain takes each once (`Numbered`); what the user's
control and the turns at the driver say of an ask (`Obeyed`, `Steered`, `Turning`).
`Placement` needs `Pending`: a call that could be admitted twice would have two
places. `WorkConserving` is not kept by the pieces, only by whole handlers: after
`pumpAll` nobody is idle while there is room (`Pumped`), and what the handlers do
between frees one slot or wakes one actor. The loops `pumpAll` and `drainAdmission`
are recursive functions of the round; what they keep is shown by induction on it.

*Command inbox.* What makes an input run once is spread over three memories with
different lives: the commands in flight (exclusive behind the gate of their
command), the settled answers (which are forgotten), and the index of what the
store knows (which may be loaded before a write). The invariant follows an input
through them: a call past its gate is alone; an input that was handed over is in
flight or pinned until it is ingested, and the index is dropped before the pin is
released, a load under way included; so whatever a table, an index, a load or a
call holds of an input that is over says that it is over. `WrittenIsKnown` adds
that no table remembers a failure of an input that was used, but of a goal.

## 6. What is only model-checked, and what is not modelled

Out of the prover's reach: liveness under fairness (`WaiterLeavesQueue`, `NoHang`,
`Ends`, `CloseEnds`, `OperationsEnd`, `ClaimEnds`, `Settles`, `TicketHeals`,
`Returns`, `Answered`). Two properties of `AskScheduler` do not hold for all
values of its constants: `InOrder` needs an actor with no more than one ask under
the user's control, `KeepsLedger` a script that evaluates each site once and does
not drift (section 4).

Not modelled: see the table of section 1 and `components`. Most of the repository
is presentation, transport, translation tables and calls to models, processes and
files, where the state of interest is somebody else's; a model of it would restate
the calls. Inside the workflow runtime the imports from a predecessor run, reports
and world nodes are left out, and the driver is an environment that answers,
fails, is late, or dies with its process.

**The input queue of a session** is the part left out that is exposed most. Items
wait in `activeTurn.pendingInputs`; the turn drains them while the user edits,
reorders and discards them, and three of those operations keep an index or a copy
over an await: `steering-discard.ts:24-39` computes the index of an item, awaits
its settlement and splices that index, although `drainPendingInput`
(`steering-guides.ts:143`) may have removed another item meanwhile;
`steering-edit.ts:136-161` puts back a reordered copy taken before a write, so
that an item drained meanwhile comes back; clearing settles item by item and then
empties the queue of whatever has come in since.

## 7. The plan

Done: the gate and its governor, the ask scheduler, artifacts, the harness, the
run service, expert workflows, off-peak tasks and the command inbox, with the
proofs of section 5.
What is left, by what a wrong step costs:

1. `PendingInputs`: the input queue of a session, above; abstract specification:
   an input runs once, or was deleted, and in the order shown; it is the turn of
   `CommandInbox`.
2. `ImportCache`: amend-resume, the gate closed by the first write, recovery of
   the gate; composes with `AskScheduler` through `settleImportedAsk`.
3. `RequestAttempts`: the runner's attempts, retries and failover around a
   ticket, which discharges the governor's fairness.
4. `TaskNotifications`: results of background tasks, delivered once across
   compaction and restart.
5. `WorkflowDriver`: sessions and turns, which discharges the fairness of
   `AskScheduler`.
6. Reports and world nodes, as further implementations of `CallLedger`;
   automations.

Theorems to come: `KeepsLedger` of `AskScheduler` for scripts that evaluate each
site once and do not drift, as `PublisherKeepsLedger` does for artifacts; `InOrder`
for actors with at most one ask under the user's control; and those of the modules
above.

# A verification of the Dittos loop engine

TLA+ modules of the engine under `src/`, TLC runs that check them on small
instances, and theorems about them with proofs TLAPS checks for every value of
the constants. Paths below are relative to the repository's `src/` directory
(`loop/loopRunner.ts` is `src/src/loop/loopRunner.ts` in `PROJECT.json`).
`PROJECT.json` holds the index: components, runs, the mutant that breaks each
property, the source lines each definition stands for, findings, hazards and
theorems.

    tlc -workers 2 -config LoopRunner_overlap.cfg MCLoopRunner.tla   # a run
    tlapm LoopRunnerProofs.tla                                       # a proof

## 1. The system

One Node process (`serve.ts`) carries an HTTP and WebSocket server, a store of
loops, a runner that turns a loop into runs of its flow, and a chat. Agents are
executed by a `claude` child process on the server or, through a WebSocket, by
a daemon on the user's own machine. JavaScript runs one callback at a time: two
activities interleave only where one of them awaits. That is the grain of every
module here: **what runs between two awaits is one step**, and every await
behind which another activity may get in is a state of its own.

| Part | State it keeps | Operations | What makes it correct |
|---|---|---|---|
| Loop runner (`loop/loopRunner.ts`) | none between ticks; a tick holds a copy of spec and state | `tick` | pauses at the threshold or on budget, tells the owner, moves the cursor on success only and past no commit unseen, leaves a paused loop alone |
| Loop store (`loop/jsonLoopStore.ts`) | one JSON file per loop: spec and state | `upsert`, `get`, `list`, `setState` | a repost keeps the state; patches touch only their fields |
| Scheduler (`loop/scheduler.ts`) | a timer | `start`, `stop`, the sweep | every matching minute is hit while the period and its lateness fit in one |
| Cron (`loop/cron.ts`), trigger helpers (`loop/trigger.ts`) | none | parse, match, next match; next fire time | the parsed sets mean what the syntax says; the next match is the first; the preview agrees with the sweep |
| Flow runtime (`engine/*`) | per run: ids, spent, phase, staged cursor | the `FlowApi` primitives, `runFlow` | the event log is complete, the budget is accounted, a failed run commits nothing |
| Run surface (`server.ts` 90-160, 180-260, 760-790) | buffers, subscribers, parked approvals | `POST /runs`, approvals, `/runs/:id/events` | gates can be reached, late watchers miss nothing |
| Loop surface (`server.ts` 440-640) | a FIFO of run id captures | create, trigger, run-once, resume | a client gets the run it asked for |
| Chat (`server.ts` 330-380, `chat/*`, `session/*`) | turns, traces, messages with a seq per channel | post, respond, store calls | one reply per completed turn, none for a failed one; every turn ends |
| Daemon hub and link (`daemon/daemonHub.ts`, `daemonExecutor.ts`, `server.ts` 690-750) | a connection per user, pending turns | register, unregister, dispatch, handleMessage | turns stay with their user, settle once, and do settle |
| Daemon (`daemon/main.ts`) | its socket, its running turns | connect, run, reconnect, stop | replies reach the turn they belong to |
| Child of a turn (`chat/streamExecutor.ts`, `daemon/main.ts`, `executor/claudeCli.ts`) | a line buffer, the text and verdict so far | data, error, close | the verdict does not depend on how output is cut; the three readers agree |
| Executors of a loop (`claudeCli.ts`, `daemonExecutor.ts`, `serve.ts` flows) | none | one agent call | a failed or expensive turn is one for the loop's record |
| Contract loops (`serve.ts` 150-230, `loop/contract.ts`, `loop/executionBody.ts`) | the body of a spec | from-session, adopt-run, plan and walk | a run does what it reports; a loop made from a conversation has a stop rule, a list of steps and a trigger |
| Channel feed (`server.ts` 330-400, 735-790) | sinks per channel | post, subscribe, pages, traces | a client that follows a channel has no gap |
| Accounts and workspace (`auth/*`, `project/*`, `session/*`) | four JSON files | sign-in, tokens, project and session CRUD | an account finds its own workspace again; a sign-in is answered |
| Event store, memory, kickoff texts | files | append | see *Not modelled* |

How they interact. A client's `trigger` or the scheduler's sweep calls
`runner.tick` and does not wait for it; the tick reads the store, opens a
session, runs the flow over the runtime, and patches the store; the flow calls
an executor, which may be the daemon's; the runtime's events go to the run's
buffer, to its watchers and, by way of the first event of *any* run, to the
oldest waiting trigger. A posted chat message starts a turn that nobody waits
for. Two facts of the wiring matter: `serve.ts` builds a runner but never a
scheduler, and its `notify` does nothing (`serve.ts:322`).

What is hard in it: ticks of one loop overlap, and each decides from the copy it
read at its start; a tick's effects are several writes with awaits between them;
workers of `parallel()` share one budget and one join; run ids are matched to
requests by arrival order; sockets are replaced before their close is seen;
replies are late, doubled or lost;
output arrives in chunks that end anywhere; sign-ins overlap across two waits for
GitHub; a spec is replaced under its own run; a file is truncated before it is
written; events are handled on a promise chain beside the run that produces them; stores
throw; and the process may die anywhere, with buffers, gates, captures and pending turns in memory only. The full list,
line by line, is `hazards` in `PROJECT.json`.

## 2. The modules

    LoopContract      abstract: what a loop promises
        ^ refines
    SerialLoop ─────> LoopRunner <───── LoopScheduler
        ^                 ^
    AgentLoop             └──────────── LoopTrigger
    RunServer ──────> FlowRuntime       DaemonHub            ChatRespond
    MCFirings ──────> LoopScheduler, LoopTrigger
    MCSurfaces ─────> ContractLoop, ChannelFeed, Workspace, Cron, ClaudeTurn

`A ──> B`: A extends B and takes its actions as they are. The last two put
modules beside each other of which one moves, for one run (see *Bounds*).
Proofs are in modules of their own:

| Proof module | About |
|---|---|
| `LoopRunnerProofs` | LoopRunner |
| `SerialLoopProofs` | SerialLoop, AgentLoop, their refinement of LoopContract |
| `FiringsProofs` | LoopTrigger and LoopScheduler |
| `RunServerProofs` | FlowRuntime and RunServer |
| `DaemonHubProofs`, `ChatRespondProofs`, `CronProofs` | the module of that name |
| `SurfacesProofs` | ChannelFeed, ContractLoop, Workspace, ClaudeTurn |

**LoopRunner** (`loop/loopRunner.ts`, `loop/jsonLoopStore.ts`, the loop
endpoints). `known`, `spec` and `state` are the store. A call of `tick` takes a
slot; `pc[s]` is the await it is parked on: *fired* (before `store.get`),
*session* (opening the run's chat session), *running* (`runFlow`), *stamp* (the
`lastRunAt` patch), *settle* (the patch of the outcome), *notify*. `snap[s]` is
the copy of spec and state that line 48 reads and everything later decides from;
`res[s]` is what the run gave back. `Fire` is anybody's call, `Upsert`,
`CreateFromSession` and `Resume` are the clients', `Crash` loses every slot and
keeps the store. `posted` and `told` are history variables.

**LoopContract** is the abstract specification: the text above `createLoopRunner`
(`loopRunner.ts:35-42`) as a machine with no ticks. A run of a loop that is not
paused takes effect in one step: it succeeds, fails or overspends.
**SerialLoop** is LoopRunner used as that text assumes: ticks of one loop do not
overlap, and clients touch a loop only between them. It is shown to implement
LoopContract (`cursor`, `failures` and `pause` are read off the record, `limit`
is the threshold of the current spec), and its ticks hand the cursor on from run to
run (`NoCommitIsLost`).

**LoopScheduler** (`loop/scheduler.ts`, `nextFireMs` of `loop/trigger.ts`) adds
the timer to LoopRunner. `setInterval` is never early, fires up to `MaxLate` units
late and counts its next period from there, so the sweeps drift through the minute.
One firing lists the loops, decides `IsDue` for each and fires the due ones without
waiting, up to the first malformed expression, which throws out of the sweep. Nobody
catches that (`void sweep()`), so the sweep leaves the process `dying`: what it had
fired goes as far as microtasks take it, then `DieOfSweep` ends it. A cron expression
is the set of minutes it matches; what set that is, is the subject of Cron.
`NextFire` looks `ScanMinutes` ahead, a year in the code, and has no value where
`cronNextAfter` throws. `settled` is a history variable: the loops that were runnable
and unchanged, in a living process with its timer, since the current minute began.

**AgentLoop** (`executor/claudeCli.ts`, `daemon/daemonExecutor.ts`,
`engine/runtime.ts:45-65`, the flows of `serve.ts`) composes SerialLoop with
what answers it: `turn[s]` is how claude's turn went in the run of a slot,
`AgentSettles` is the executor's answer followed through `runAgent` and
`runFlow` to the result the tick settles. `wiring` is the executor of the
process: the server's own, which rejects whatever is no success and reports a
cost, or the daemon's, which does neither. `streak` is a history variable, the
truth the record should count. Its steps are steps of SerialLoop, so its run
checks the properties of that module too. Loops of any other flow run beside
those of `AgentFlows`; their runs end as LoopRunner lets them.

**Cron** (`loop/cron.ts`): parsing of the five fields, the rule for the two day
fields, and the scan of `cronNextAfter` one minute per step. A field is the sequence of its
parts, for the rule of the day fields reads the text: `*,*` is restricted and `*` is not.
Calendar, lengths of hours and days, and field ranges are constants; `Date` is the external part.
`Means` is the reference definition of an expression, value by value, after the
header of the file.

**FlowRuntime** (`engine/runtime.ts`, `parallel.ts`, `pipeline.ts`, `ids.ts`):
a flow is *any* program over the api. `at[r][t]` is where each thread of a run
is; Main forks workers and joins them; a rejection that the flow's code does not
catch makes a worker null and ends the run in Main (`Raise`). **RunServer** puts
those runs on the server, in batches of their own kinds (`Shape[r]` is what a
flow may do, `Batches` which runs there are): `buffer` and `FanOut` are `emitFor`, `pending` is the
map of parked approvals, `watch` and `got` are the WebSocket watchers.

**LoopTrigger** (`server.ts` 95-150, 540-600) adds the captures to LoopRunner:
`Trigger` queues one and fires, `Begin` is the first event of a run, which
answers the oldest capture whoever it belongs to.

**DaemonHub** (`daemon/daemonHub.ts`, `daemonExecutor.ts`, `daemon/main.ts`, the
`/daemon/ws` handlers): the hub's maps, sockets that deliver in order and may
lose a suffix when they end, the daemon with its concurrent turns. A socket is
*opening*, *open*, *ending* (the daemon has moved on, the server has not seen
the close), *closed*; the gap between the last two is where reconnects overtake.

**ChatRespond** (`chat/respond.ts`, `POST /channels/:id/messages`, the chat
stores): `pc[t]` is the await a turn is parked on, `pushed` and `trace` the two
ends of the chain of event handlers, `wire` the envelopes subscribers saw. A
store call may throw: inside the `try` it fails the turn, outside it the promise
rejects into the server's empty `catch`, and on a chain nobody awaits yet it
ends the process.

**ClaudeTurn** (`chat/streamExecutor.ts`, `daemon/main.ts:29-121`,
`executor/claudeCli.ts`) is a child process and its reader. The child's output is
a sequence of pieces, two halves and a newline for each line, and `Data(k)` gives the
reader any number of them: `buf` and `CompleteLines` are the line buffer, `MapLine`
is `mapStreamJsonLine`, `acc` the text, usage and verdict so far, `handed` what went
to `onEvent`; `Newlines`, `Parts` and `Select` are written without recursion, for the
proofs. A child may complain
on stderr, fail to spawn, close with a code or by a signal, and a
reader may die of an exception or a pipe error that nothing catches.

**ContractLoop** (`serve.ts` flow `contract` and `from-session`, `loop/contract.ts`,
`loop/executionBody.ts`, `adopt-run`): `loop` is the stored spec, a run carries the
`contract` its tick has read and the `plan` it walks. A body is the JSON somebody
wrote: its steps may be missing, a text, or null. `Walk` goes to the next await.

**ChannelFeed** (`server.ts` channel endpoints, `session/jsonSessionStore.ts`
`getMessages`, `chat/traceStore.ts` `list`): `log` and `trace` are the channel, a
socket gets what is emitted while it is open, `Gets` is the filter for traces, `Page`
and the trace read are synchronous and their answers arrive whenever.

**Workspace** (`auth/*`, `project/jsonProjectStore.ts`, `POST /sessions`, the
callback of `server.ts`): users, tokens, projects and sessions are the four files; a
sign-in is *exchanging*, *fetching* and *fetched* while it waits for GitHub, whose
accounts may change and exchange logins meanwhile. `Tears` is a crash between the
truncation of a file and its writing; whoever must parse it then dies or errs.

`MC*` modules and `.cfg` files instantiate these. Operators marked *Mutant* are
not part of a model: each is a plausible slip of the definition below it, and
names the change that the property listed for it in `PROJECT.json` detects.

## 3. The runs

| Run | Instance | What it shows |
|---|---|---|
| `LoopRunner_overlap` | one loop, two ticks at once that commit one of two cursors, a spec of threshold 2 and one with an unregistered flow and the default of 3, one crash, with fairness | Whatever two overlapping ticks, reposts, resumes and a crash do: a running loop is below a threshold it was given; a reason is there exactly with a pause; the owner of a paused loop is told unless the process died; only resume wakes; only the settling of a completed run moves the cursor, to what it committed; a loop that stays paused falls quiet |
| `AgentLoop_local` | two loops, two slots, three specs: one agent call with a threshold of 2, a flow that commits one of two cursors and an unregistered one with the default of 3; one crash; the server's executor | Under serial use a run replaces the very cursor it was given, so that no commit is lost, and the runner implements LoopContract; the Nth failure pauses the loop, by the contract; between ticks a record counts exactly the runs in a row whose agents failed or overspent; an expensive run pauses its loop at once |
| `AgentLoop_daemon`, `AgentLoop_unbilled` | one loop, one slot, over a daemon | *Violations.* See findings 4 and 5 |
| `Firings_apart` | two loops, two slots, one crash. By the timer: the first loop malformed or an interval, the second cron or interval; a minute of three units, sweeps two apart and up to one late, started at any phase; two whole minutes. By requests: three of them | No matching minute of a runnable loop is jumped over by a process that lives through it; `nextFireMs` names a time at which the sweep agrees, and none before it is due. No run answers two requests, answers come in order and with runs that began later, and as many wait as have not seen their tick begin |
| `LoopTrigger_wrong_run` | requests, one tick at a time | *Violation.* See finding 3 |
| `DaemonHub_two_users` | two users with a daemon each, two sockets, two turns, an event each, with fairness | Turns run at their owner, wait only while there is a connection, settle once and as their own run ended, get no late event; a stale close harms nobody; where reconnects are orderly every turn settles |
| `DaemonHub_hang` | one user, two sockets, one turn | *Violation.* See finding 1 |
| `RunServer_served` | one run with two workers and a cap that one paid call reaches and two exceed; or one whose workers open gates; or two runs whose flows may catch; one watcher, with fairness | When a run ends every node and gate it announced was closed once before one last `run_done`; an overrun is told, at its sum, and only then; every parked gate is under its key, and gates of two runs that number alike never displace each other; a watcher has exactly the run's log whenever it joined; runs end once executors answer and gates are decided |
| `RunServer_over_budget` | one run, two workers | *Violation.* See finding 2 |
| `ChatRespond_turns` | two turns in one channel or two, two and one events, one store failure, one crash, with fairness | A completed turn has one reply, from a run that succeeded, and its whole trace; a failed one none; envelopes are in order; seqs are dense; turns end unless a store threw or the process died |
| `Surfaces_apart` | ContractLoop: two runs, three bodies of clients and four of agents, nine proposals. ChannelFeed: one client, three messages, two events. Workspace: two accounts, three handles, two browsers, two sign-ins, two renames, two projects, a session, one torn file, with fairness. Cron: 360 expressions, seven starts, a six-year calendar with leap days. ClaudeTurn: three readers, up to three lines of seven kinds, cut into chunks in every way, with and without a complaint on stderr | Completed contract runs made exactly the calls of the body they report, failed ones had a reason; session loops keep a stop rule, a list of steps and the trigger of their mode. A client of a channel has no gap but for posts of the session surface; its traces are the first of the channel's. Accounts find their workspace and only theirs; sign-ins are answered. Parsed sets mean what the syntax says; the scan finds the first match after the minute asked from, or there is none in the longest year. Events are those of the lines received whole; a verdict is the one the child gave; the daemon's is the server's but for a killed child |

### Findings

1. `daemonHub.ts:87` A daemon that reconnects before the server has seen its old
   socket close replaces the connection without failing the turns dispatched
   over it; the old close is then ignored as stale. A turn whose reply went down
   with the old socket waits for ever, against the comment at line 96. The
   passing run shows the other half: with orderly reconnects every turn settles.
2. `engine/parallel.ts:3` A worker that exceeds the cap becomes null like any
   other failure, so the run may complete over budget (and `loopRunner.ts:101`
   counts a success), against README line 15.
3. `server.ts:146` A trigger of a paused loop gets no run and leaves its capture
   at the head of the queue: the next run, of whatever loop, answers it, and all
   later answers are off by one, against the comment at line 559.
4. `daemonExecutor.ts:70` A turn that failed on the daemon resolves with `isError`,
   which `runAgent` does not read: the run completes and the count goes to zero, so
   a broken loop never pauses, against README line 14.
5. `daemonExecutor.ts:31` `costOf` looks in the `usage` block, but `total_cost_usd`
   stands beside it in claude's result line: over a daemon no run costs anything
   and no budget is reached, against README line 15.

Other divergences met while modelling. The modules contain the behaviour; no
run is spent on them:

- Two failing ticks that overlap write the same count: one failure is lost
  (`loopRunner.ts:111` against `:38`). This is why LoopContract is only
  implemented under serial use.
- `lastRunAt` is stamped at the *end* of a run: a cron loop can be fired twice in
  a minute if a sweep is shorter than a run (`scheduler.ts:54` against `:39`),
  and an interval loop is fired again at every sweep during its run (`:56`
  against `:42`).
- A `phase` step emits its marker and drops the steps under it, and those under the
  children of a parallel are dropped as well (`executionBody.ts:26` against
  `loop/types.ts:12`).
- Of two ticks that overlap, the one that settles last has its cursor stand: an
  older run that completes late takes the cursor back over a newer commit
  (`loopRunner.ts:102-107` against README line 222, "the cursor only ratchets forward
  on a completed run"). `CursorMovesByCompletion` allows it; under serial use
  `NoCommitIsLost` excludes it.
- One malformed cron expression throws out of the sweep; `void sweep()` leaves the
  rejection unhandled, and the process ends, with every run in it, at the first sweep
  of every restart (`scheduler.ts:75, 86` against `:24-25`, "one bad loop can't kill
  the scheduler").
- `tickMs = 60000` is allowed, but `setInterval` fires late and goes on from there:
  any lateness then lets a sweep jump over a matching minute (`scheduler.ts:86`
  against the NOTE at `:40-41`). With `TickMs = MinuteMs` and `MaxLate = 1`, TLC finds
  `CronFiresInItsMinute` violated.
- A loop from a conversation keeps a cron text unparsed (`server.ts:516`), and steps
  that are null (`server.ts:526` asks only for a list): the first ends the process at
  the next sweep of a scheduler, the second fails the loop's first run.
- Of what is written to stderr only the text of an error is taken, and only if the
  exit code is not 0: a child that complains and exits with 0 has done well
  (`streamExecutor.ts:178-183` against `:131`, "surfaces isError on nonzero exit /
  `result.is_error` / stderr"). `VerdictIsSound` says what the code does.
- A chat store that throws outside the `try` of `respond.ts` surfaces nowhere
  (`server.ts:374` against `:364`).
- In the hour that clocks repeat, `cronNextAfter` may return a minute before the
  one it was asked from (`cron.ts:136-138` against `:135`); `Fallback` in Cron
  is that change of clocks.
- The last phase of a run never gets its `phase_done` (`runtime.ts:84`).
- A child ended by a signal fails a turn on the server and completes one on a daemon
  (`streamExecutor.ts:179` against `daemon/main.ts:104`): `DaemonAgrees` says so.
- Readers decode chunk by chunk: a character of several bytes that a chunk cuts is
  lost from the reply (`streamExecutor.ts:168`; `mangled` in ClaudeTurn). A line that is
  the JSON text `null` throws out of the reader's data handler.
- Posts through the session surface and loop narration reach no socket of the
  channel, until somebody reads a page (`silent` in ChannelFeed).
- Removing a project leaves its sessions with an id that nothing has
  (`jsonProjectStore.ts:62-68` against `server.ts:238-239`).
- A plan that repeats the body with its keys in another order counts as adapted
  (`serve.ts:192`); a body of a client is stored unlooked at and fails at its first
  run if it has no steps.

### Bounds, and why they are enough

Every bound is a constant marked *bound* in its module, used only in guards. Two
slots are enough for any two ticks to overlap, and the properties speak of one
tick's effect on one record; a third tick adds no new pair. One crash is enough
because a crash forgets everything but the store, so the state after a second
one is again a state reachable after one. The clock of `LoopRunner_overlap`
ticks once because only the stamp reads it. Two cursors are needed there for an
older one to be written over a newer; `View` drops the stamps, and of a tick's copy all
but spec and count: no guard and no property of that run, the liveness property
included, reads them. In `Firings_apart` a minute is
three units, a sweep two units apart and one late at most: together just a minute, the
most that jumps over none (with one unit more, of either, TLC finds a minute that is
missed), and every drift within the minute happens. The clock runs over two whole
minutes and the start of a third; the expression matches those two and the fifth, which is
at first beyond the two minutes that `NextFire` looks ahead. `SpecsOf` gives each loop its own
specs to keep the product small: the first may be malformed, so the sweep that
throws is there. Slots are symmetric there; `View` drops what no guard and no
property of that run reads (it lists what). `CronFiresInItsMinute` is an action
property whose terms are all in the view. The batches of `RunServer_served` are
three instances in one state space: in the first a call reaches the cap while
another worker's is still out, and that one exceeds it; in the second both
workers have a gate and one of them another; in the third a single gate each is
what makes the ids of two runs collide. Three requests are needed for an answer
that is off by one and then off again. Two events of one turn and one of another
let the chain lag, drain and break while another turn appends to the same
channel.

`MCFirings` and `MCSurfaces` choose in the initial state, by `firing` and
`surface`, which of their modules moves; the others stay in an initial state.
The states are the sum of those of the modules, not their product. Nothing is
lost by it: the surfaces share nothing, and no process of `serve.ts` has both a
scheduler and requests. In `ClaudeTurn` three lines let a chunk end in a first,
a middle and a last line, and put a result before, after or between other lines;
two error lines or two results are among them. In `ContractLoop` the second run
is the one that reads a spec the first has not seen; a body with a phase, an
agent and a parallel has every kind of step before and after an await, and its
copy with another key order is an adaptation that changes nothing. `ChannelFeed`
has the messages that pages of limit 1 and 2 take in turn; a second client would
only repeat the first, for a socket changes nothing but its own inbox. In
`Workspace` two renames pass a login from one account to the other, the third
handle is what the first is moved to meanwhile, and two callbacks overlap in
every order. The streak of `AgentLoop` saturates at 4, over the larger limit 3.

Deadlock is checked for the loop modules, which never stop. `Cron`,
`ClaudeTurn`, `RunServer`, `DaemonHub`, `ChatRespond` and the modules of
`MCSurfaces` come to rest by nature of the instance: the scan ends, runs, turns
and sockets are used up.

### Fairness

Weak fairness stands for the runtime alone. An await that can go on goes on
(`TickStep`, `Step`); an executor's run ends (the engine has no timeout, but a
child process that never exits is outside it); parked gates are eventually
decided, which `RunsEnd` needs and says; data that arrived on a socket is read,
a socket that ended is noticed, a daemon reconnects after its backoff.
`Completes` in RunServer is strongly fair: a flow's code that reaches its return
again and again returns, which excludes a flow that loops for ever and nothing
else. Callers, clients, dispatches, disconnects, crashes, faults and the clock
promise nothing. `SignInFairness` is the same for the callback: GitHub answers
or fails each of the two requests (fetch rejects when a connection is lost), and
an answer that is there is dealt with. `SettlesWhenOrderly` is checked under the
same fairness; its premise `[]Orderly` keeps the behaviours where no reconnect
overtakes a close.

## 4. The proofs

Every safety property and every action property that a passing run checks is a
theorem as well. A row names the property the theorem states for every value
of the constants; "bounds" such as a number of crashes are constants too, so the
theorems hold for each of their values.

| Theorem | States |
|---|---|
| `LoopRunnerProofs!TypeCorrect` | `TypeOK` |
| `LoopRunnerProofs!ThresholdHolds` | `RunningBelowThreshold`, for any number of overlapping ticks |
| `LoopRunnerProofs!ReasonHolds`, `ToldHolds` | `ReasonExplainsPause`, `PausedIsTold` |
| `LoopRunnerProofs!StoreHolds` | unposted loops have the default state; stored and loaded specs were posted |
| `LoopRunnerProofs!ResumeIsTheOnlyWayOut`, `CursorMoves` | the action properties `OnlyResumeUnpauses`, `CursorMovesByCompletion` |
| `SerialLoopProofs!SerialInvHolds`, `SerialRefinesContract` | `SerialSpec => []SerialInv` (a supporting invariant that no run checks) and `SerialSpec => Contract!Spec` |
| `SerialLoopProofs!NoCommitLostHolds` | the action property `NoCommitIsLost` under serial use |
| `SerialLoopProofs!AgentLoopIsSerial` | `AgentSpec => SerialSpec` |
| `SerialLoopProofs!CountHolds`, `DearTurnHolds` | `CountIsStreak` and the action property `DearTurnPauses`, where `wiring = "local"` |
| `SerialLoopProofs!BrokenLoopHolds` | the action property `BrokenLoopPauses`, where `wiring = "local"` |
| `FiringsProofs!TriggerImplementsRunner` | `TriggerSpec => Spec` of LoopRunner |
| `FiringsProofs!AnswersHold`, `WaitingHolds` | `AnswersInOrder`, `WaitingMatchesTicks` |
| `FiringsProofs!SchedulerKeepsContract` | the runner's invariants under sweeps and the clock |
| `FiringsProofs!NextFireHolds` | `NextFireIsDue` |
| `FiringsProofs!CronIsNotMissed` | the action property `CronFiresInItsMinute`, where a period of the timer and its lateness fit in a minute |
| `CronProofs!FirstMatch`, `AfterFrom` | `NextIsFirst`, `StrictlyAfter`, where clocks never change |
| `CronProofs!ParsingHolds` | `ParsingIsFaithful`, for any change of the clocks |
| `RunServerProofs!TypeCorrect` | `TypeOK` of runtime and server |
| `RunServerProofs!WatchersHold`, `GatesHold` | `WatchersSeeTheLog`, `GatesAreReachable` |
| `RunServerProofs!OverrunHolds`, `LogHolds` | `OverrunIsTold`, `LogIsComplete` |
| `RunServerProofs!CapHolds` | a run of a flow without `parallel` and `catch` does not complete at or over the cap |
| `DaemonHubProofs!TypeCorrect`, `PendingHolds` | `TypeOK`, `PendingHasDaemon` |
| `DaemonHubProofs!OutcomesHold` | `OutcomeIsTheRuns` |
| `DaemonHubProofs!StaleCloseHolds`, `NoLateEvent` | the action properties `StaleCloseIsHarmless`, `NoEventAfterSettling` |
| `ChatRespondProofs!TypesAndCounts` | `TypeOK`; the highest seq of a channel is its count less one |
| `ChatRespondProofs!DenseHolds`, `RepliesHold`, `StreamHolds` | `SeqsAreDense`, `RepliesMatchTurns`, `StreamIsOrdered` |
| `SurfacesProofs!FeedHolds` | `FeedHasNoGap` |
| `SurfacesProofs!SessionHolds`, `ReportsHold` | `SessionLoopsAreSound`, `RunsWhatItReports` |
| `SurfacesProofs!FoundAgainHolds` | `WorkspaceIsFoundAgain` |
| `SurfacesProofs!ChunkingHolds`, `VerdictHolds`, `AgreesHolds` | `ChunkingIsInvisible`, `VerdictIsSound`, `DaemonAgrees`, for outputs of any length cut in any way |

### Assumptions

The theorems assume the named `ASSUME`s of the modules, which TLC evaluates on
every run. They say that constants are of their kind and markers are no values:
thresholds are integers or absent, `Unset`, `None`, `Nothing`, `Nobody`,
`Missing` and `Unlimited` stand for nothing else; each daemon holds one user's
token. The rest is justified by code:

- `ListAssumption`: every loop is in the list the sweep reads
  (`jsonLoopStore.ts`, `list`); `TickAssumption`: periods and minutes are not empty;
  `TriggersAssumption`: an expression matches
  minutes, an interval is a number.
- `StreakAssumption`: the bound at which the history variable `streak` saturates
  is no smaller than a threshold.
- `FieldAssumption`: dates are in the ranges of the fields, the first minute and
  hour are 0, and the second name of Sunday is no day's number (`cron.ts`).
- `ContractAssumption`: bodies have the shapes `executionBody.ts` tells apart.
- `WorkspaceAssumption`: at first no two accounts have one login.
- `TurnAssumption`: lines have the shapes `mapStreamJsonLine` tells apart, and being
  killed is no exit code.

Hypotheses are stated in the theorems themselves. `CronIsNotMissed` assumes
`TickMs + MaxLate <= MinuteMs`, a lateness no code bounds: beyond it the property is
false, as the divergences say; `Firings_apart` satisfies it. `FirstMatch` and
`AfterFrom` assume `Fallback = Absent`: where clocks go back `cronNextAfter` may
return an earlier minute (see the divergences). `CountHolds`, `DearTurnHolds` and
`BrokenLoopHolds` assume `wiring = "local"`: over a daemon the first is false for
the reason of finding 4, the second is refuted by the run of finding 5, the third
by that of finding 4. `CapHolds` speaks of runs whose flow makes its agent calls
itself and catches nothing (`LetsOverrunsEnd`): with workers it is refuted by the
run of finding 2. The last three have behaviours: runs check `NextIsFirst`, `CountIsStreak`
and `DearTurnPauses` on instances that satisfy the first two, and on an instance of
the third TLC has found runs that complete below the cap and runs that fail at it.

### The arguments

*Threshold.* `RunningBelowThreshold` is not inductive. A failing tick writes its
copy's count plus one, compared with its copy's threshold, and the store may
hold another spec by then. What carries it is that the copy's spec was once
posted (`SpecsArePosted`): either the new count is below that spec's threshold,
which is in `posted`, or the tick pauses. The invariant is `TypeOK`,
`SpecsArePosted` and `RunningBelowThreshold`; `posted` only grows, so reposts
keep it, and a resume or a success resets the count to zero. Nothing is needed
about the other ticks, which is why the theorem holds for any number of them.

*Store.* `posted` starts the count at the loop's default state, so a loop that
is posted for the first time needs to be in it: `UnknownIsDefault`.

*Told.* A pause and its notice are two steps. The slot that paused stays on
*notify* until it has told, and nothing else moves it but a crash.

*Serial use.* `SerialInv` says that a tick past its load has its loop to itself
(`OneTickPerLoop`), and so its copy agrees with the store on spec, count and
cursor, and the loop is not paused (`SnapshotIsCurrent`). With it each settle is
the contract's step: `SettleCompleted` is `RunSucceeds`, `SettlePaused` is
`RunFails` at the limit or `RunOverspends`, `SettleCounted` is `RunFails` below
it, `Upsert` is `Post`, `Resume` is `Resume`; every other step stutters. A step that
moves a cursor is the settling of a completed run (`CursorStep`), and as that run's copy
is current, what it replaces is what it was given: `NoCommitIsLost`.

*Count.* AgentLoop is a serial use over either executor: it implements the contract
whatever findings 4 and 5 say of what is counted. `TurnIsResult` ties the result a
slot is to settle with to the turn of its agent, which is where the wiring
matters; `RecordIsStreak` compares record and streak for loops
in flight as well. A tick that settles a failure finds its loop running, so below
a threshold (`ThresholdHolds`) and below the bound of `streak`: what the record
counts the saturating history counts too. For `BrokenLoopHolds` the same reading of the
record shows that the streak after a bad run is the count its tick writes, so that
the tick pauses as soon as the streak is at the threshold.

*Triggers.* `QueueInOrder` says that the captures ascend; `AnsweredLeft` that
whoever waits has no answer and is younger than all that have one;
`AnswersAreRuns` that an answer is the number of a run that began since. For
`WaitingMatchesTicks` a tick that has not begun keeps a request without a run to
itself (`UnbegunTicks`): as it begins, one request fewer waits for its own tick
and one capture fewer is queued, and there is one because the two numbers agree.

*Scheduler.* `SweepFires` reduces the sweep to steps of the runner for each loop,
so `ContractInv` is kept. For `CronFiresInItsMinute` the timer fires within
`TickMs + MaxLate` of the last sweep (`TimerIsKept`), which is no more than a minute,
so a sweep falls into each; once it has, a settled loop that is due in this minute was fired in
it or has its stamp there (`SettledIsFired`). The lemmas on minutes
(`MinuteBounds` to `Later`) are the division with remainder that all this uses.

*Runtime.* The log of a run is compared with where its threads are: `Agree` says
of a kind of event that opens and one that closes that each number up to the last
given out was opened once, and was closed once unless a thread awaits it
(`AgentsAgree`, `GatesAgree`), and no two threads await the same. `EndsLast` puts
`run_done` at the end of an ended run, whose threads are all off
(`ThreadsInOrder`). `GatesAreReachable` needs that parked numbers were given out
(`GateIdsAreMade`), so that a new gate's is fresh. `OverrunInv` adds that none was
told below the cap, so that an old one cannot answer for a sum within it. For
`CapHolds`, while such a run goes on it is below the cap (`CapOf`): the call that takes
it there throws into a flow that catches nothing, and no other thread of it exists.

*Hub.* `PendingHasDaemon` is inductive beside `TypeOK`: a turn enters `pending`
only under a registered connection, `DropUser` removes the user's turns with the
connection, and `Accept` only replaces one. `OutcomeIsTheRuns` follows a turn
from dispatch to reply over sockets: it is sent once (`SentOnce`) and on a socket
of its owner (`LinksMatch`), so it runs at one daemon at most and once (`RunOnce`),
and every reply on a socket tells how it ended (`EndsAreTrue`).

*Chat.* Seqs are counts (`SeqsAreCounted`), which `DenseHolds` unfolds for each
message. `Replied` says at which awaits a turn has replied, and that it had its
verdict and its whole trace by then. For `StreamIsOrdered`, `EventsInv` says at
which awaits the chain may still tell something, and `ToldInv` that what was told
of a turn is behind where the turn stands.

*Cron.* `ScanInv` adds the loop invariant: the cursor is `from + 1 + i` and
nothing before it matches. `ParsingHolds` goes part by part: `PartIsFaithful` for
the values of one part of a field, `FieldIsFaithful` for a field with its two
Sundays, then the rule for the day fields.

*Feed.* `FeedOf` is the property in a form a step keeps: whatever follows a
message a client knows is known or was told to no socket (`GoesOn`), a client
without a socket knows nothing, and a trace answer on its way goes on where the
client's reading ends.

*Contract runs.* `CallsOf` flattens a sequence of sequences. `Flat(b)[k]` is what
the first `k` steps of a body call; a run that walks has called `Flat` up to its
step (`Walking`), a completed one all (`Walked`), a failed one up to some step
(`Broken`). `FlatIs` equates the last of `Flat` with `CallsOf`, `FlatPrefix` says
that it grows, `WalkIs` that a walk goes over steps that call nothing.

*Workspace.* A user is found by account, never by login (`AccountsInv`); ids of
projects are not used twice (`ProjectsInv`); a session's owner is the user of the
account that made it, and owns the project it was put into by default
(`OwnedInv`). Late answers of GitHub change logins only.

*Child of a turn.* That chunks do not show is not inductive: what a chunk completes
depends on what was held back. `TurnInv` says what a reader is at piece `p` of the
output: `buf` is the output after the last whole line, `handed` the events of the
lines before it between the marks of a daemon, `acc` what those lines add up to. A
chunk keeps it because completing the lines of `buf` and a chunk is the same as
completing those of the output and taking off what was handed on before
(`CompleteIs`, `ChunkIs`; `FlushIs` at the close), and because accumulating twice is
accumulating the concatenation (`AccumulateTwice`). `LinesCount` reads the verdict
off the lines. `FlattenConcat` and its neighbours are the facts about sequences of
sequences that this shares with the contract runs.

TLC has found these invariants to hold on the instances of the runs (their
quantifiers over `Nat` cut to a small interval).

### Only model-checked

- Every liveness property (`PausedLoopFallsQuiet`, `SettlesWhenOrderly`,
  `RunsEnd`, `TurnsSettle`, `SignInsAreAnswered`): fairness and `ENABLED` are out
  of the prover's reach.
- The findings: each is a counterexample on one instance, which is all it needs.

The library's induction theorems take an operator, which no installed prover can
instantiate. Where a proof needs an induction over data it takes the least
counterexample instead (`LeastIs`, from `WFMin` of the library), as `FlatExists`,
`FlattenIs`, `FlatSame`, `FlatPrefix` and `StopIs` do, or `Induction`, which follows
from it: a set of numbers with 0 and the successors of its members has them all. No
module declares a RECURSIVE operator.

## 5. Not modelled, and why

- The memory file, kickoff texts, reasons, labels, prompts and the event store:
  nothing in the engine reads them back to decide. Of the narration of a run only
  that it is posted where no socket is told (`PostToSession`).
- Titles of sessions, and issuing daemon tokens: one synchronous read-modify-write
  each, that no other operation decides by.
- Torn writes of the loop, turn and trace stores: taken as old or new there. The
  pattern is the one `Workspace` models for the other four files.
- HTTP parsing, cookies and the signature of the OAuth state (a callback has one that
  verifies; any other is answered with an error): I/O and cryptography.
- Nested `parallel()`, and flows that drop a promise of the api.
- What the changes of the clocks do to the first match: `Fallback` is in Cron, its
  properties are checked and proved where it is absent.
- The fake executor and the canned flows: test doubles.

## 6. Plan

Order: the loop's contract first, since it is what the product promises; then
what drives it (scheduler, triggers), what it runs (runtime, gates), what runs
that (daemon, the child, the executors), and the chat, the channels and the accounts
beside it. All of these exist, and their safety properties are proved. What is left is to
model more, if anything: how long an interval loop may go unserved when its runs end;
the product of FlowRuntime and DaemonHub instead of the one call of AgentLoop.

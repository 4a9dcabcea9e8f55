------------------------------ MODULE LoopRunner ------------------------------
(***************************************************************************)
(* The platform contract of a loop: `loopRunner.tick` over the JSON loop    *)
(* store, driven by whoever calls it (scheduler, trigger and run-once       *)
(* endpoints) while clients post loop specs, resume paused loops and the    *)
(* process may crash and restart.                                           *)
(*                                                                          *)
(* One in-flight call of `tick` occupies a slot.  Each `await` of `tick` is *)
(* a point where other calls may run, so the tick is cut there: the slot's  *)
(* pc is the await it is parked on.                                         *)
(***************************************************************************)
EXTENDS Integers, FiniteSets

CONSTANTS
  Loops,       \* loop ids
  LoopSpecs,   \* the specs clients post, records with at least the fields
               \*   flow                    a key of deps.flows, or not
               \*   maxConsecutiveFailures  an integer, or Unset
  KnownFlows,  \* the keys of deps.flows
  Cursors,     \* what a flow may commit as its cursor
  Slots,       \* bound: how many ticks are in flight at once
  MaxNow,      \* bound: the last instant of the clock
  MaxCrashes,  \* bound: how often the process dies and restarts
  Unset,       \* an optional field that is absent
  None         \* the content of an idle slot

ASSUME SpecsAssumption ==
  \A sp \in LoopSpecs : sp.maxConsecutiveFailures \in Int \cup {Unset}

ASSUME BoundsAssumption == MaxNow \in Nat /\ MaxCrashes \in Nat

ASSUME MarkersAssumption ==
  /\ Unset \notin Int \cup {"failures", "budget"}
  /\ None \notin Loops

VARIABLES
  known,    \* the loops that have a file in the store
  spec,     \* the stored spec of every known loop
  state,    \* the stored state of every known loop
  pc,       \* where every slot's tick is parked
  loop,     \* the tick's loopId
  snap,     \* the tick's `spec` and `state`, read once when it starts
  res,      \* what runFlow returned to the tick, and its budgetHit flag
  now,      \* the clock
  crashes,  \* how often the process died
  posted,   \* history: every spec a loop was ever given
  told      \* history: the owner was notified since the last resume

store == <<known, spec, state>>
ticks == <<pc, loop, snap, res>>
history == <<posted, told>>
vars == <<known, spec, state, pc, loop, snap, res, now, crashes,
          posted, told>>

-----------------------------------------------------------------------------
(* The data the store keeps. *)

Never == -1                \* lastRunAt of a loop that has not run
Reasons == {"failures", "budget"}

LoopState ==
  [cursor : Cursors \cup {Unset}, consecutiveFailures : Nat, paused : BOOLEAN,
   pausedReason : Reasons \cup {Unset}, lastRunAt : Nat \cup {Never}]

DefaultState ==
  [cursor |-> Unset, consecutiveFailures |-> 0, paused |-> FALSE,
   pausedReason |-> Unset, lastRunAt |-> Never]

Snapshot == [spec : LoopSpecs, state : LoopState]

\* `cursor` is Unset when the flow committed none.  A run may complete with
\* budgetHit set: a flow that catches BudgetExceeded goes on.
Result == [status : {"completed", "failed"}, budgetHit : BOOLEAN,
           cursor : Cursors \cup {Unset}]

Stages == {"idle", "fired", "session", "running", "stamp", "settle", "notify"}

Threshold(sp) ==
  IF sp.maxConsecutiveFailures = Unset THEN 3 ELSE sp.maxConsecutiveFailures

\* The count a failed tick writes: its own snapshot plus one.
FailureCount(sn) == sn.state.consecutiveFailures + 1

PauseReason(r) == IF r.budgetHit THEN "budget" ELSE "failures"

\* Mutant: the threshold is compared with a strict inequality.
ShouldPauseLate(sn, r) ==
  \/ PauseReason(r) = "budget"
  \/ FailureCount(sn) > Threshold(sn.spec)

ShouldPause(sn, r) ==
  \/ PauseReason(r) = "budget"
  \/ FailureCount(sn) >= Threshold(sn.spec)

\* Mutants: the stamp is patched in as undefined; success also clears the pause, keeps
\* the streak, or writes the cursor also when the run committed none; a pause writes back the tick's snapshot; resume keeps the reason.
StampedUndefined(st, t) == [st EXCEPT !.lastRunAt = Unset]

SucceededWaking(st, r) ==
  [st EXCEPT !.consecutiveFailures = 0, !.paused = FALSE, !.pausedReason = Unset,
             !.cursor = IF r.cursor = Unset THEN @ ELSE r.cursor]

SucceededKeepingStreak(st, r) ==
  [st EXCEPT !.cursor = IF r.cursor = Unset THEN @ ELSE r.cursor]

SucceededForgetting(st, r) ==
  [st EXCEPT !.consecutiveFailures = 0, !.cursor = r.cursor]

PausedFromSnapshot(st, sn, r) ==
  [sn.state EXCEPT !.consecutiveFailures = FailureCount(sn),
                   !.paused = TRUE, !.pausedReason = PauseReason(r)]

ResumedKeepingReason(st) == [st EXCEPT !.paused = FALSE, !.consecutiveFailures = 0]

\* What each write of the store does to the state it finds there.
Stamped(st, t) == [st EXCEPT !.lastRunAt = t]

Succeeded(st, r) ==
  [st EXCEPT !.consecutiveFailures = 0,
             !.cursor = IF r.cursor = Unset THEN @ ELSE r.cursor]

Paused(st, sn, r) ==
  [st EXCEPT !.consecutiveFailures = FailureCount(sn),
             !.paused = TRUE, !.pausedReason = PauseReason(r)]

Counted(st, sn) == [st EXCEPT !.consecutiveFailures = FailureCount(sn)]

Resumed(st) ==
  [st EXCEPT !.paused = FALSE, !.consecutiveFailures = 0, !.pausedReason = Unset]

-----------------------------------------------------------------------------
Init ==
  /\ known = {}
  /\ spec = [l \in Loops |-> Unset]
  /\ state = [l \in Loops |-> DefaultState]
  /\ pc = [s \in Slots |-> "idle"]
  /\ loop = [s \in Slots |-> None]
  /\ snap = [s \in Slots |-> None]
  /\ res = [s \in Slots |-> None]
  /\ now = 0
  /\ crashes = 0
  /\ posted = [l \in Loops |-> {}]
  /\ told = [l \in Loops |-> FALSE]

\* The tick of slot s returns or rejects: its locals are gone.
Leave(s) ==
  /\ pc' = [pc EXCEPT ![s] = "idle"]
  /\ loop' = [loop EXCEPT ![s] = None]
  /\ snap' = [snap EXCEPT ![s] = None]
  /\ res' = [res EXCEPT ![s] = None]

\* POST /loops and seedDemoLoop: the spec is replaced, the state of an existing loop
\* survives.
Upsert(l, sp) ==
  /\ known' = known \cup {l}
  /\ spec' = [spec EXCEPT ![l] = sp]
  /\ state' = IF l \in known THEN state
              ELSE [state EXCEPT ![l] = DefaultState]
  /\ posted' = [posted EXCEPT ![l] = @ \cup {sp}]
  /\ UNCHANGED <<ticks, now, crashes, told>>

\* POST /loops/from-session, once the agent's answer could be parsed and compiled: a
\* loop under a fresh id, with no threshold of its own.
CreateFromSession(l, sp) ==
  /\ l \notin known
  /\ sp.maxConsecutiveFailures = Unset
  /\ Upsert(l, sp)

\* POST /loops/:id/resume.
Resume(l) ==
  /\ l \in known
  /\ state' = [state EXCEPT ![l] = Resumed(@)]
  /\ told' = [told EXCEPT ![l] = FALSE]
  /\ UNCHANGED <<known, spec, ticks, now, crashes, posted>>

\* Somebody calls runner.tick(l).
Fire(s, l) ==
  /\ pc[s] = "idle"
  /\ pc' = [pc EXCEPT ![s] = "fired"]
  /\ loop' = [loop EXCEPT ![s] = l]
  /\ UNCHANGED <<store, snap, res, now, crashes, history>>

\* Mutant: the paused check is gone.
MayRunPaused(l) ==
  /\ l \in known
  /\ spec[l].flow \in KnownFlows

\* The tick gives up before it runs anything: no such loop, paused, or its flow
\* is not in deps.flows.
MayRun(l) ==
  /\ l \in known
  /\ ~state[l].paused
  /\ spec[l].flow \in KnownFlows

Refuse(s) ==
  /\ pc[s] = "fired"
  /\ ~MayRun(loop[s])
  /\ Leave(s)
  /\ UNCHANGED <<store, now, crashes, history>>

\* The tick reads the loop once; everything it decides later uses this copy.
Load(s) ==
  /\ pc[s] = "fired"
  /\ MayRun(loop[s])
  /\ snap' = [snap EXCEPT ![s] = [spec |-> spec[loop[s]], state |-> state[loop[s]]]]
  /\ pc' = [pc EXCEPT ![s] = "session"]
  /\ UNCHANGED <<store, loop, res, now, crashes, history>>

\* The run's chat session and kickoff message, when a bus is wired: the run
\* begins, or the session store throws and the tick rejects unaccounted.
OpenSession(s) ==
  /\ pc[s] = "session"
  /\ pc' = [pc EXCEPT ![s] = "running"]
  /\ UNCHANGED <<store, loop, snap, res, now, crashes, history>>

SessionFails(s) ==
  /\ pc[s] = "session"
  /\ Leave(s)
  /\ UNCHANGED <<store, now, crashes, history>>

\* runFlow resolves.  It never rejects, and a failed run returns no cursor.
RunEnds(s, r) ==
  /\ pc[s] = "running"
  /\ r.status = "failed" => r.cursor = Unset
  /\ res' = [res EXCEPT ![s] = r]
  /\ pc' = [pc EXCEPT ![s] = "stamp"]
  /\ UNCHANGED <<store, loop, snap, now, crashes, history>>

StampLastRun(s) ==
  /\ pc[s] = "stamp"
  /\ state' = [state EXCEPT ![loop[s]] = Stamped(@, now)]
  /\ pc' = [pc EXCEPT ![s] = "settle"]
  /\ UNCHANGED <<known, spec, loop, snap, res, now, crashes, history>>

SettleCompleted(s) ==
  /\ pc[s] = "settle"
  /\ res[s].status = "completed"
  /\ state' = [state EXCEPT ![loop[s]] = Succeeded(@, res[s])]
  /\ Leave(s)
  /\ UNCHANGED <<known, spec, now, crashes, history>>

\* Mutant: the tick pauses the loop and tells nobody.
SettlePausedSilently(s) ==
  /\ pc[s] = "settle"
  /\ res[s].status = "failed"
  /\ ShouldPause(snap[s], res[s])
  /\ state' = [state EXCEPT ![loop[s]] = Paused(@, snap[s], res[s])]
  /\ Leave(s)
  /\ UNCHANGED <<known, spec, now, crashes, history>>

SettlePaused(s) ==
  /\ pc[s] = "settle"
  /\ res[s].status = "failed"
  /\ ShouldPause(snap[s], res[s])
  /\ state' = [state EXCEPT ![loop[s]] = Paused(@, snap[s], res[s])]
  /\ pc' = [pc EXCEPT ![s] = "notify"]
  /\ UNCHANGED <<known, spec, loop, snap, res, now, crashes, history>>

SettleCounted(s) ==
  /\ pc[s] = "settle"
  /\ res[s].status = "failed"
  /\ ~ShouldPause(snap[s], res[s])
  /\ state' = [state EXCEPT ![loop[s]] = Counted(@, snap[s])]
  /\ Leave(s)
  /\ UNCHANGED <<known, spec, now, crashes, history>>

NotifyPaused(s) ==
  /\ pc[s] = "notify"
  /\ told' = [told EXCEPT ![loop[s]] = TRUE]
  /\ Leave(s)
  /\ UNCHANGED <<store, now, crashes, posted>>

\* The process dies and restarts: the files survive, every tick is gone.
Crash ==
  /\ crashes < MaxCrashes
  /\ crashes' = crashes + 1
  /\ pc' = [s \in Slots |-> "idle"]
  /\ loop' = [s \in Slots |-> None]
  /\ snap' = [s \in Slots |-> None]
  /\ res' = [s \in Slots |-> None]
  /\ UNCHANGED <<store, now, history>>

Advance ==
  /\ now < MaxNow
  /\ now' = now + 1
  /\ UNCHANGED <<store, ticks, crashes, history>>

\* What a tick does on its own once it has been fired.
TickStep(s) ==
  \/ Refuse(s)
  \/ Load(s)
  \/ OpenSession(s)
  \/ SessionFails(s)
  \/ \E r \in Result : RunEnds(s, r)
  \/ StampLastRun(s)
  \/ SettleCompleted(s)
  \/ SettlePaused(s)
  \/ SettleCounted(s)
  \/ NotifyPaused(s)

Next ==
  \/ \E l \in Loops, sp \in LoopSpecs : Upsert(l, sp) \/ CreateFromSession(l, sp)
  \/ \E l \in Loops : Resume(l)
  \/ \E s \in Slots, l \in Loops : Fire(s, l)
  \/ \E s \in Slots : TickStep(s)
  \/ Crash
  \/ Advance

Spec == Init /\ [][Next]_vars

\* Scheduling of the JavaScript runtime: a tick whose await is ready goes on, and
\* an executor's answer arrives (the engine itself has no timeout).  Callers,
\* clients, crashes and the clock promise nothing.
Fairness == \A s \in Slots : WF_vars(TickStep(s))

FairSpec == Spec /\ Fairness

-----------------------------------------------------------------------------
(* Properties. *)

InFlight(l) == \E s \in Slots : loop[s] = l

\* Type correctness; a slot holds exactly the locals its stage has.
TypeOK ==
  /\ known \subseteq Loops
  /\ spec \in [Loops -> LoopSpecs \cup {Unset}]
  /\ \A l \in known : spec[l] \in LoopSpecs
  /\ state \in [Loops -> LoopState]
  /\ pc \in [Slots -> Stages]
  /\ \A s \in Slots : pc[s] # "idle" => loop[s] \in Loops
  /\ \A s \in Slots : pc[s] \notin {"idle", "fired"} => snap[s] \in Snapshot
  /\ \A s \in Slots : pc[s] \in {"stamp", "settle", "notify"} => res[s] \in Result
  /\ DOMAIN loop = Slots /\ DOMAIN snap = Slots /\ DOMAIN res = Slots
  /\ now \in 0 .. MaxNow
  /\ crashes \in 0 .. MaxCrashes
  /\ posted \in [Loops -> SUBSET LoopSpecs]
  /\ told \in [Loops -> BOOLEAN]

\* A loop that is not paused has fewer consecutive failures on record than the
\* threshold of some spec it was given: however ticks overlap, are resumed over
\* or die, no loop keeps running with its threshold reached
\* (loopRunner.ts:110-123, server.ts:594).
RunningBelowThreshold ==
  \A l \in known : ~state[l].paused =>
    \/ state[l].consecutiveFailures = 0
    \/ \E sp \in posted[l] : state[l].consecutiveFailures < Threshold(sp)

\* A loop shows a pause reason exactly when it is paused, whatever order pauses,
\* resumes and stale settles write it in (loopRunner.ts:116, server.ts:594).
ReasonExplainsPause ==
  \A l \in Loops : state[l].paused <=> state[l].pausedReason # Unset

\* The owner of a paused loop has been notified, or the notification is about to
\* be sent, unless the process died in between (loopRunner.ts:116-120).
PausedIsTold ==
  \A l \in Loops : state[l].paused =>
    \/ told[l]
    \/ \E s \in Slots : loop[s] = l /\ pc[s] = "notify"
    \/ crashes > 0

\* Only the resume endpoint takes a loop out of its pause: a tick that was in
\* flight when the loop was paused settles without waking it
\* (jsonLoopStore.ts:33, loopRunner.ts:102-122).
OnlyResumeUnpauses ==
  [][\A l \in Loops : state[l].paused /\ ~state'[l].paused => Resume(l)]_vars

\* The completed run of slot s settles, and its loop l has the cursor it committed.
Commits(s, l) ==
  /\ loop[s] = l /\ pc[s] = "settle"
  /\ res[s].status = "completed" /\ res[s].cursor # Unset
  /\ state'[l].cursor = res[s].cursor

\* The cursor of a loop moves only when a completed run of that loop settles, to the
\* cursor that run committed: no failed or refused tick moves it, no repost and no
\* resume (loopRunner.ts:92, 101-107).  Which run is the last to settle is another
\* matter: of two that overlap, the one that settles later has its cursor stand, be it
\* the older.  SerialLoop!NoCommitIsLost says when that cannot be.
CursorMovesByCompletion ==
  [][\A l \in Loops : state'[l].cursor # state[l].cursor =>
       \E s \in Slots : Commits(s, l)]_vars

\* A paused loop falls quiet: if it stays paused, in the end none of its ticks is
\* past its first check, whoever goes on firing it (loopRunner.ts:41, 51).
PausedLoopFallsQuiet ==
  \A l \in Loops :
    <>[](state[l].paused)
      => <>[](\A s \in Slots : loop[s] = l => pc[s] \in {"idle", "fired"})
=============================================================================

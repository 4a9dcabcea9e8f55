---------------------------- MODULE LoopScheduler -----------------------------
(***************************************************************************)
(* The interval sweep over LoopRunner: every tickMs the timer lists all     *)
(* loops and fires `runner.tick` for each one that is due, without waiting  *)
(* for it.  Ticks run and settle as in LoopRunner, so a sweep sees the      *)
(* lastRunAt of runs that have ended and nothing of those still running.    *)
(* The timer fires late, counts its next period from there, and a sweep     *)
(* that throws ends the process.                                            *)
(***************************************************************************)
EXTENDS LoopRunner, FiniteSetsExt, Functions

CONSTANTS
  ListOrder,  \* the sequence in which the store lists the loops
  SpecsOf,    \* bound: the specs each loop is posted with
  MinuteMs,   \* clock units in a minute
  TickMs,     \* clock units between two sweeps
  MaxLate,    \* how many clock units late the timer may fire
  ScanMinutes,\* how many minutes ahead cronNextAfter looks for a match
  BadExpr     \* a cron expression that does not parse

ASSUME SpecsOfAssumption == SpecsOf \in [Loops -> SUBSET LoopSpecs]

\* Every loop is listed.
ASSUME ListAssumption ==
  /\ DOMAIN ListOrder \subseteq Nat
  /\ \A l \in Loops : \E i \in DOMAIN ListOrder : ListOrder[i] = l

\* An expression matches minutes and an interval is a number; a loop with neither has
\* a trigger of another kind (scheduler.ts:49-58).
ASSUME TriggersAssumption ==
  \A sp \in LoopSpecs : sp.mode # "one-shot" =>
    /\ sp.trigger.kind = "cron" /\ sp.trigger.expr # BadExpr
         => sp.trigger.expr \subseteq Nat
    /\ sp.trigger.kind = "interval" => sp.trigger.everyMs \in Int

ASSUME TickAssumption ==
  /\ TickMs \in Nat \ {0} /\ MinuteMs \in Nat \ {0}
  /\ MaxLate \in Nat /\ ScanMinutes \in Nat

VARIABLES
  lastSweep,  \* when the timer last fired or was started, Unset when stopped
  dying,      \* a sweep has thrown, and the process ends once its microtasks have run
  firedAt,    \* history: when the last sweep fired each loop, or Never
  settled     \* history: loops due to be swept unchanged since their minute began

schedVars == <<vars, lastSweep, dying, firedAt, settled>>

-----------------------------------------------------------------------------
(* Due loops.  A cron expression is the set of minutes it matches.          *)

Minute(t) == IF t = Never THEN -1 ELSE t \div MinuteMs

CronMatches(expr, t) == Minute(t) \in expr

\* Mutant: the cron de-dup wants a whole minute to have passed since the run.
IsDueElapsed(sp, st, t) ==
  /\ sp.mode # "one-shot"
  /\ \/ /\ sp.trigger.kind = "cron"
        /\ CronMatches(sp.trigger.expr, t)
        /\ st.lastRunAt = Never \/ t - st.lastRunAt >= MinuteMs
     \/ /\ sp.trigger.kind = "interval"
        /\ t - (IF st.lastRunAt = Never THEN 0 ELSE st.lastRunAt) >= sp.trigger.everyMs

IsDue(sp, st, t) ==
  /\ sp.mode # "one-shot"
  /\ \/ /\ sp.trigger.kind = "cron"
        /\ CronMatches(sp.trigger.expr, t)
        /\ Minute(st.lastRunAt) < Minute(t)
     \/ /\ sp.trigger.kind = "interval"
        /\ t - (IF st.lastRunAt = Never THEN 0 ELSE st.lastRunAt) >= sp.trigger.everyMs

\* Mutant: the minute it is now may be the next one.
NextFireAgain(tr, last, t) ==
  CASE tr.kind = "interval" -> IF last = Never THEN t ELSE last + tr.everyMs
    [] tr.kind = "cron" -> MinuteMs * Min({m \in tr.expr : m >= Minute(t)})
    [] OTHER -> Unset

\* The matching minutes that cronNextAfter gets to.
Upcoming(expr, t) == {m \in expr : Minute(t) < m /\ m <= Minute(t) + ScanMinutes}

\* nextFireMs: when a trigger is said to fire next.  It throws for an expression with
\* no match in the minutes scanned, as for one that does not parse.
NextFire(tr, last, t) ==
  CASE tr.kind = "interval" -> IF last = Never THEN t ELSE last + tr.everyMs
    [] tr.kind = "cron" -> MinuteMs * Min(Upcoming(tr.expr, t))
    [] OTHER -> Unset

\* isDue throws out of the sweep, which nobody catches: cronMatches rejects the
\* expression.
Throws(l) ==
  /\ l \in known /\ ~state[l].paused
  /\ spec[l].mode # "one-shot"
  /\ spec[l].trigger.kind = "cron" /\ spec[l].trigger.expr = BadExpr

Position(l) == CHOOSE i \in DOMAIN ListOrder : ListOrder[i] = l

\* The loops a sweep should fire, and those it gets to.
DueLoops ==
  {l \in known : ~state[l].paused /\ ~Throws(l) /\ IsDue(spec[l], state[l], now)}

Reached(l) == \A k \in Loops : Throws(k) => Position(l) < Position(k)

SweptLoops == {l \in DueLoops : Reached(l)}

-----------------------------------------------------------------------------
SchedInit ==
  /\ Init
  /\ lastSweep = Unset
  /\ dying = FALSE
  /\ firedAt = [l \in Loops |-> Never]
  /\ settled = {}

SweepDue == lastSweep # Unset /\ now - lastSweep >= TickMs

\* Timers fire, and time passes, only once every ready await has gone on: a tick
\* is then either not there or waiting for its run.
MicrotasksDrained == \A s \in Slots : pc[s] \in {"idle", "running"}

\* One firing of the timer: list, read the clock, fire all due loops, or those before
\* the first loop that makes isDue throw.
Sweep ==
  /\ SweepDue
  /\ ~dying
  /\ MicrotasksDrained
  /\ \E f \in Injection(SweptLoops, {s \in Slots : pc[s] = "idle"}) :
       LET firedIn(s) == CHOOSE l \in SweptLoops : f[l] = s IN
       /\ pc' = [s \in Slots |-> IF s \in Range(f) THEN "fired" ELSE pc[s]]
       /\ loop' = [s \in Slots |-> IF s \in Range(f) THEN firedIn(s) ELSE loop[s]]
  /\ lastSweep' = now
  /\ dying' = \E l \in Loops : Throws(l)
  /\ firedAt' = [l \in Loops |-> IF l \in SweptLoops THEN now ELSE firedAt[l]]
  /\ UNCHANGED <<store, snap, res, now, crashes, history>>

\* The sweep's rejection goes unhandled (`void sweep()`): the ticks it had fired get as
\* far as microtasks take them, then the process ends and is started anew.
DieOfSweep ==
  /\ dying
  /\ MicrotasksDrained
  /\ pc' = [s \in Slots |-> "idle"]
  /\ loop' = [s \in Slots |-> None]
  /\ snap' = [s \in Slots |-> None]
  /\ res' = [s \in Slots |-> None]
  /\ lastSweep' = Unset
  /\ dying' = FALSE
  /\ UNCHANGED <<store, now, crashes, history, firedAt>>

\* start() sets the timer once; stop() clears it; ticks in flight go on.
Start ==
  /\ lastSweep = Unset
  /\ lastSweep' = now
  /\ UNCHANGED <<vars, dying, firedAt>>

Stop ==
  /\ lastSweep # Unset
  /\ ~dying
  /\ lastSweep' = Unset
  /\ UNCHANGED <<vars, dying, firedAt>>

\* The timer goes with the process.
CrashStopsTimer ==
  /\ Crash
  /\ lastSweep' = Unset
  /\ dying' = FALSE
  /\ UNCHANGED firedAt

\* The timer fires at its time or later: setInterval is never early, and counts its
\* next period from when it last fired.
AdvanceToSweep ==
  /\ lastSweep # Unset => now - lastSweep < TickMs + MaxLate
  /\ ~dying
  /\ MicrotasksDrained
  /\ Advance
  /\ UNCHANGED <<lastSweep, dying, firedAt>>

RunnerStep ==
  /\ \/ ~dying /\ \E l \in Loops : \E sp \in SpecsOf[l] : Upsert(l, sp)
     \/ ~dying /\ \E l \in Loops : Resume(l)
     \/ \E s \in Slots : TickStep(s)
  /\ UNCHANGED <<lastSweep, dying, firedAt>>

\* The history variable: a loop is settled from the start of a minute in which it
\* is known, not paused, and the timer of a process that lives on is running, until
\* any of that changes.
Eligible(l) == l \in known /\ ~state[l].paused /\ lastSweep # Unset /\ ~dying

Observe ==
  settled' = {l \in Loops : /\ Eligible(l)'
                            /\ \/ Minute(now') # Minute(now)
                               \/ l \in settled /\ spec'[l] = spec[l]}

SchedNext ==
  \/ Sweep /\ Observe
  \/ DieOfSweep /\ Observe
  \/ Start /\ Observe
  \/ Stop /\ Observe
  \/ CrashStopsTimer /\ Observe
  \/ AdvanceToSweep /\ Observe
  \/ RunnerStep /\ Observe

SchedSpec == SchedInit /\ [][SchedNext]_schedVars

-----------------------------------------------------------------------------
(* Properties. *)

\* As long as a period of the timer and its lateness fit in a minute, no sweep jumps
\* over a matching minute, wherever in the minute the timer was started and however it
\* drifts: a cron loop that stays runnable through a minute its expression matches, in
\* a process that lives through it, was fired in that minute or had just run in it.
\* The NOTE at scheduler.ts:40-41 asks less, tickMs of a minute: then every late
\* firing can skip one (scheduler.ts:75-86).
CronFiresInItsMinute ==
  [][Minute(now') # Minute(now) =>
       \A l \in settled :
         (/\ spec[l].mode # "one-shot"
          /\ spec[l].trigger.kind = "cron"
          /\ CronMatches(spec[l].trigger.expr, now))
         => Minute(now) \in {Minute(firedAt[l]), Minute(state[l].lastRunAt)}
    ]_schedVars

\* When the loop's trigger has a next time to fire: nothing is said of an interval
\* that has not run yet (it is due as soon as it is swept).
HasNextFire(l) ==
  LET tr == spec[l].trigger
  IN  /\ spec[l].mode # "one-shot"
      /\ \/ tr.kind = "interval" /\ state[l].lastRunAt # Never
         \/ tr.kind = "cron" /\ tr.expr # BadExpr /\ Upcoming(tr.expr, now) # {}

\* The time nextFireMs gives and the sweep's own decision agree, whatever runs and
\* stamps happened before: at that time (or now, if it has passed) the loop is due,
\* and it is due at no earlier time but in the current minute (trigger.ts:112-120,
\* scheduler.ts:44-60).
NextFireIsDue ==
  \A l \in known : HasNextFire(l) =>
    LET next == NextFire(spec[l].trigger, state[l].lastRunAt, now)
    IN  /\ IsDue(spec[l], state[l], Max({next, now}))
        /\ \A t \in now .. next - 1 :
             IsDue(spec[l], state[l], t) => Minute(t) = Minute(now)
=============================================================================

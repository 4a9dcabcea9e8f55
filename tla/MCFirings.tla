------------------------------ MODULE MCFirings ------------------------------
(***************************************************************************)
(* Who fires the loops of a process: the timer of a scheduler, or requests  *)
(* of clients (serve.ts has no scheduler).  No flow commits a cursor.       *)
(***************************************************************************)
EXTENDS LoopScheduler, LoopTrigger, TLC

CONSTANTS l1, l2, s1, s2, digest

VARIABLE firing

Loop(mode, trigger) ==
  [flow |-> digest, maxConsecutiveFailures |-> 1, mode |-> mode, trigger |-> trigger]

SomeMinutes == Loop("live", [kind |-> "cron", expr |-> {0, 1, 4}])
Malformed == Loop("live", [kind |-> "cron", expr |-> BadExpr])
Interval == Loop("live", [kind |-> "interval", everyMs |-> 3])
MixedSpecs == {SomeMinutes, Malformed, Interval}
BadFirst == l1 :> {Malformed, Interval} @@ l2 :> {SomeMinutes, Interval}
OnlyInterval == {Interval}
EachInterval == [l \in {l1, l2} |-> {Interval}]

TwoLoops == <<l1, l2>>
NoCursors == {}
Symmetric == Permutations(Slots)

RestOfSched == <<lastSweep, dying, firedAt, settled>>

FiringsInit == firing \in {"timer", "requests"} /\ SchedInit /\ TriggerInit

FiringsNext ==
  /\ UNCHANGED firing
  /\ \/ firing = "timer" /\ SchedNext /\ UNCHANGED captureVars
     \/ firing = "requests" /\ TriggerNext /\ UNCHANGED RestOfSched

FiringsSpec == FiringsInit /\ [][FiringsNext]_<<firing, schedVars, captureVars>>

\* What the guards and the properties of these runs read: not posted, told and the
\* pause reasons, of a tick's snapshot the failure count (all specs have one
\* threshold), of its result the status, of a firing its minute.
View ==
  LET countOf(s) == IF snap[s] = None THEN 0 ELSE FailureCount(snap[s])
      statusOf(s) == IF res[s] = None THEN None ELSE res[s].status
  IN  <<known, spec, [l \in Loops |-> [state[l] EXCEPT !.pausedReason = Unset]],
        pc, loop, [s \in Slots |-> countOf(s)], [s \in Slots |-> statusOf(s)], now,
        crashes, lastSweep, dying, [l \in Loops |-> Minute(firedAt[l])], settled,
        firing, captureVars>>
=============================================================================

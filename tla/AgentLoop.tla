------------------------------ MODULE AgentLoop ------------------------------
(***************************************************************************)
(* A loop and the agent it runs: the flows `demo` and `agentLoop`, which    *)
(* make one agent call, over the executor the process is wired with.  What  *)
(* claude made of the turn reaches the loop's record by way of the          *)
(* executor's answer, runAgent, runFlow and the settle of the tick.  Loops  *)
(* of other flows run beside them, and their runs end in any way a run can. *)
(***************************************************************************)
EXTENDS SerialLoop

CONSTANTS
  AgentFlows,  \* the flows that make one agent call
  Wirings,   \* subset of {"local", "daemon"}: RUN_REAL=1 or DAEMON_MODE=1
  MaxStreak  \* bound: at which the count of failures in a row saturates

ASSUME WiringAssumption ==
  /\ AgentFlows \subseteq KnownFlows
  /\ Wirings \subseteq {"local", "daemon"}
  /\ MaxStreak \in Nat

\* The bound is above every threshold: no count on record reaches further.
ASSUME StreakAssumption ==
  MaxStreak >= 1 /\ \A sp \in LoopSpecs : Threshold(sp) <= MaxStreak

VARIABLES
  wiring,  \* which executor the loops were given
  turn,    \* how the agent's turn went in the run of every slot
  streak   \* history: runs of a loop in a row whose turn did not go well

agentVars == <<vars, wiring, turn, streak>>

-----------------------------------------------------------------------------
\* claude did what it was asked; it exited with an error or reported one; or there was
\* nobody to ask, or no answer: no daemon, a daemon that left, output that is no JSON.
\* `dear` says that the cost it reported reaches the budget of the loop.
Turns ==
  [end : {"completed", "errored", "unanswered"}, dear : BOOLEAN]
    \ [end : {"unanswered"}, dear : {TRUE}]

\* Mutants: the local executor does not look at is_error and the exit code, or drops
\* the cost.
LocalResolvesAlways(t) == t.end # "unanswered"

LocalDropsCost(t) == FALSE

\* claudeCliExecutor rejects whatever is no success.
LocalResolves(t) == t.end = "completed"

\* Its answer carries total_cost_usd.
LocalCharges(t) == t.dear

\* daemonExecutor rejects if the turn could not be had; how it ended is in the answer,
\* as isError, which runAgent does not read.
DaemonResolves(t) == t.end # "unanswered"

\* It looks for the cost in the usage block, where mapStreamJsonLine has put none:
\* total_cost_usd stands beside `usage` in the result line.
DaemonCharges(t) == FALSE

\* The one call of the flow settles: its rejection ends the run, and so does a cost that
\* reaches the budget.
AgentSettles(s, t) ==
  LET resolves == IF wiring = "local" THEN LocalResolves(t) ELSE DaemonResolves(t)
      over == resolves /\ (IF wiring = "local" THEN LocalCharges(t) ELSE DaemonCharges(t))
  IN  /\ pc[s] = "running" /\ snap[s].spec.flow \in AgentFlows
      /\ RunEnds(s, [status |-> IF resolves /\ ~over THEN "completed" ELSE "failed",
                     budgetHit |-> over, cursor |-> Unset])
      /\ turn' = [turn EXCEPT ![s] = t]
      /\ UNCHANGED <<wiring, streak>>

\* A run of any other flow; how it went is what its result says.
OtherFlowEnds(s, r) ==
  /\ pc[s] = "running" /\ snap[s].spec.flow \notin AgentFlows
  /\ RunEnds(s, r)
  /\ LET over == r.status = "failed" /\ r.budgetHit
     IN  turn' = [turn EXCEPT ![s] =
                    [end |-> IF r.status = "completed" \/ over THEN "completed" ELSE "errored",
                     dear |-> over]]
  /\ UNCHANGED <<wiring, streak>>

GoesWell(t) == t.end = "completed" /\ ~t.dear

\* The outcome is written; the streak follows what claude did.
Settle(s) ==
  /\ SettleCompleted(s) \/ SettlePaused(s) \/ SettleCounted(s)
  /\ streak' = [streak EXCEPT ![loop[s]] =
                  IF GoesWell(turn[s]) THEN 0
                  ELSE IF @ = MaxStreak THEN @ ELSE @ + 1]
  /\ turn' = [turn EXCEPT ![s] = None]
  /\ UNCHANGED wiring

\* Everything else a tick does.
TickGoesOn(s) ==
  /\ Refuse(s) \/ Load(s) \/ OpenSession(s) \/ SessionFails(s) \/ StampLastRun(s) \/ NotifyPaused(s)
  /\ UNCHANGED <<wiring, turn, streak>>

\* Clients and callers, between the ticks of the loop; a resume starts a new streak.
UseLoop(l) ==
  /\ SerialUse(l)
  /\ streak' = IF Resume(l) THEN [streak EXCEPT ![l] = 0] ELSE streak
  /\ UNCHANGED <<wiring, turn>>

CrashLosesTurns ==
  /\ Crash
  /\ turn' = [s \in Slots |-> None]
  /\ UNCHANGED <<wiring, streak>>

AgentInit ==
  /\ Init
  /\ wiring \in Wirings
  /\ turn = [s \in Slots |-> None]
  /\ streak = [l \in Loops |-> 0]

AgentNext ==
  \/ \E l \in Loops : UseLoop(l)
  \/ \E s \in Slots : \/ TickGoesOn(s)
                      \/ \E t \in Turns : AgentSettles(s, t)
                      \/ \E r \in Result : OtherFlowEnds(s, r)
                      \/ Settle(s)
  \/ CrashLosesTurns

AgentSpec == AgentInit /\ [][AgentNext]_agentVars

-----------------------------------------------------------------------------
\* Between the ticks of a loop its record counts exactly the runs in a row that went
\* badly for the agent or over the budget, whatever crashed, was reposted or resumed in
\* between (loopRunner.ts:101-123 over claudeCli.ts:17-24 and runtime.ts:50-64).
CountIsStreak ==
  \A l \in known : ~InFlight(l) => state[l].consecutiveFailures = streak[l]

\* README.md:14: a loop is paused after N failures in a row, "so a broken loop stops
\* burning attempts instead of spinning": by the run that is the Nth whose agent did
\* not do its turn.
BrokenLoopPauses ==
  [][\A s \in Slots :
       /\ pc[s] = "settle" /\ pc'[s] # "settle" /\ crashes' = crashes
       /\ turn[s].end # "completed"
       /\ streak'[loop[s]] >= Threshold(snap[s].spec)
       => state'[loop[s]].paused]_agentVars

\* README.md:15: "exceeding the cap fails the run and pauses the loop with reason
\* `budget`", at once and whatever the count.
DearTurnPauses ==
  [][\A s \in Slots :
       /\ pc[s] = "settle" /\ pc'[s] # "settle" /\ crashes' = crashes
       /\ turn[s].end = "completed" /\ turn[s].dear
       => state'[loop[s]].pausedReason = "budget"]_agentVars
=============================================================================

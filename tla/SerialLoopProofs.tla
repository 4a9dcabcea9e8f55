--------------------------- MODULE SerialLoopProofs ---------------------------
(***************************************************************************)
(* SerialLoop implements LoopContract, for any loops, specs, flows and      *)
(* slots, with ticks of different loops interleaving and crashes anywhere;  *)
(* and a loop that runs an agent on the server accounts for its turns.      *)
(***************************************************************************)
EXTENDS AgentLoop, LoopRunnerProofs

USE DEF store, ticks, history

\* Serial use is a use: what is proved of LoopRunner holds of it.
LEMMA SerialStepIsStep == SerialNext => Next
BY DEF SerialNext, SerialUse, CreateFromSession, Next

LEMMA SerialIsSpec == SerialSpec => Spec
BY SerialStepIsStep, PTL DEF SerialSpec, Spec

-----------------------------------------------------------------------------
(* A tick works on a current snapshot. *)

\* Serial use never puts two ticks on one loop.
LEMMA OneTickStep ==
  ASSUME TypeOK, OneTickPerLoop, [SerialNext]_vars PROVE OneTickPerLoop'
<1>1. CASE UNCHANGED ticks
  BY <1>1 DEF OneTickPerLoop
<1>2. ASSUME NEW s \in Slots, NEW l \in Loops, ~InFlight(l), Fire(s, l)
      PROVE  OneTickPerLoop'
  BY <1>2, MarkersAssumption DEF Fire, InFlight, OneTickPerLoop, TypeOK
<1>3. ASSUME NEW s \in Slots, TickStep(s) PROVE OneTickPerLoop'
  <2>1. CASE Leave(s)
    BY <2>1 DEF Leave, OneTickPerLoop, TypeOK
  <2>2. CASE UNCHANGED loop /\ pc[s] # "idle" /\ pc'[s] # "idle"
                /\ pc' = [pc EXCEPT ![s] = pc'[s]]
    BY <2>2 DEF OneTickPerLoop, TypeOK
  <2> QED
    BY <1>3, <2>1, <2>2
    DEF TickStep, Refuse, Load, OpenSession, SessionFails, RunEnds, StampLastRun,
        SettleCompleted, SettlePaused, SettleCounted, NotifyPaused, TypeOK
<1>4. CASE Crash
  BY <1>4 DEF Crash, OneTickPerLoop
<1> QED
  BY <1>1, <1>2, <1>3, <1>4
  DEF SerialNext, SerialUse, CreateFromSession, Upsert, Resume, Advance, vars

\* Nothing but a tick's own writes changes its loop while it is under way.
LEMMA SnapshotStep ==
  ASSUME SerialInv, [SerialNext]_vars PROVE SnapshotIsCurrent'
<1> USE DEF SerialInv
<1>1. CASE UNCHANGED <<store, ticks>>
  BY <1>1 DEF SnapshotIsCurrent
<1>2. ASSUME NEW l \in Loops, NEW sp \in LoopSpecs, ~InFlight(l), Upsert(l, sp)
      PROVE  SnapshotIsCurrent'
  BY <1>2 DEF Upsert, InFlight, SnapshotIsCurrent, TypeOK
<1>3. ASSUME NEW l \in Loops, ~InFlight(l), Resume(l) PROVE SnapshotIsCurrent'
  BY <1>3 DEF Resume, InFlight, SnapshotIsCurrent, TypeOK
<1>4. ASSUME NEW s \in Slots, NEW l \in Loops, Fire(s, l) PROVE SnapshotIsCurrent'
  BY <1>4 DEF Fire, SnapshotIsCurrent, TypeOK
<1>5. ASSUME NEW s \in Slots, TickStep(s) PROVE SnapshotIsCurrent'
  <2>1. CASE UNCHANGED store /\ Leave(s)
    BY <2>1 DEF Leave, SnapshotIsCurrent, TypeOK
  <2>2. CASE Load(s)
    BY <2>2 DEF Load, MayRun, SnapshotIsCurrent, TypeOK
  <2>3. CASE OpenSession(s)
    BY <2>3 DEF OpenSession, SnapshotIsCurrent, TypeOK
  <2>4. ASSUME NEW r \in Result, RunEnds(s, r) PROVE SnapshotIsCurrent'
    BY <2>4 DEF RunEnds, SnapshotIsCurrent, TypeOK
  <2>5. \A t \in Slots \ {s} : pc[t] # "idle" => loop[t] # loop[s]
    BY DEF OneTickPerLoop
  <2>6. CASE StampLastRun(s)
    <3>1. state'[loop[s]] = Stamped(state[loop[s]], now) /\ state[loop[s]] \in LoopState
      BY <2>6 DEF StampLastRun, TypeOK
    <3>2. /\ state'[loop[s]].consecutiveFailures = state[loop[s]].consecutiveFailures
          /\ state'[loop[s]].cursor = state[loop[s]].cursor
          /\ state'[loop[s]].paused = state[loop[s]].paused
      BY <3>1 DEF Stamped, LoopState
    <3>3. \A l \in Loops \ {loop[s]} : state'[l] = state[l]
      BY <2>6 DEF StampLastRun, TypeOK
    <3> QED
      BY <2>5, <2>6, <3>2, <3>3 DEF StampLastRun, SnapshotIsCurrent, TypeOK
  <2>7. ASSUME \/ SettleCompleted(s)
               \/ SettlePaused(s)
               \/ SettleCounted(s)
        PROVE  SnapshotIsCurrent'
    <3>1. /\ pc'[s] \in {"idle", "notify"} /\ UNCHANGED <<known, spec>>
          /\ \A t \in Slots \ {s} : pc'[t] = pc[t] /\ loop'[t] = loop[t] /\ snap'[t] = snap[t]
          /\ \A l \in Loops \ {loop[s]} : state'[l] = state[l]
      BY <2>7 DEF SettleCompleted, SettlePaused, SettleCounted, Leave, TypeOK
    <3> QED
      BY <2>5, <3>1 DEF SnapshotIsCurrent, TypeOK, Stages
  <2> QED
    BY <1>5, <2>1, <2>2, <2>3, <2>4, <2>6, <2>7
    DEF TickStep, Refuse, SessionFails, NotifyPaused
<1>6. CASE Crash
  BY <1>6 DEF Crash, SnapshotIsCurrent
<1> QED
  BY <1>1, <1>2, <1>3, <1>4, <1>5, <1>6
  DEF SerialNext, SerialUse, CreateFromSession, Advance, vars

\* Past its load a tick decides from what the store still says, whatever the ticks
\* of other loops do (loopRunner.ts:48-50, 110-123).
THEOREM SerialInvHolds == SerialSpec => []SerialInv
<1>1. Init => OneTickPerLoop /\ SnapshotIsCurrent
  BY MarkersAssumption DEF Init, OneTickPerLoop, SnapshotIsCurrent
<1>2. TypeOK /\ OneTickPerLoop /\ [SerialNext]_vars => OneTickPerLoop'
  BY OneTickStep
<1>3. TypeOK /\ ReasonExplainsPause /\ OneTickPerLoop /\ SnapshotIsCurrent
        /\ [SerialNext]_vars => SnapshotIsCurrent'
  BY SnapshotStep DEF SerialInv
<1> QED
  BY <1>1, <1>2, <1>3, SerialIsSpec, TypeCorrect, ReasonHolds, PTL
  DEF SerialSpec, SerialInv

\* Ticks of one loop that do not overlap hand its cursor on from run to run: what a run
\* replaces is what it was given, so no commit is written over unseen, whatever is
\* reposted, resumed or crashes in between (loopRunner.ts:48-50, 92, 101-107).
THEOREM NoCommitLostHolds == SerialSpec => NoCommitIsLost
<1> DEFINE Replaces(l) ==
      \E s \in Slots : Commits(s, l) /\ snap[s].state.cursor = state[l].cursor
<1>1. SerialInv /\ StoreInv /\ [SerialNext]_vars =>
        [\A l \in Loops : state'[l].cursor # state[l].cursor => Replaces(l)]_vars
  <2> SUFFICES ASSUME SerialInv, StoreInv, SerialNext, NEW l \in Loops,
                      state'[l].cursor # state[l].cursor
               PROVE  Replaces(l)
    OBVIOUS
  <2>1. PICK s \in Slots : Commits(s, l)
    BY CursorStep, SerialStepIsStep
  <2>2. snap[s].state.cursor = state[l].cursor
    BY <2>1 DEF Commits, SerialInv, SnapshotIsCurrent
  <2> QED
    BY <2>1, <2>2
<1> QED
  BY <1>1, SerialInvHolds, StoreHolds, SerialIsSpec, PTL DEF SerialSpec, Spec, NoCommitIsLost

-----------------------------------------------------------------------------
(* The refinement.  Only four kinds of step change what the contract sees:  *)
(* a post, a resume and the settling of a run, failed or completed.         *)

\* A threshold is an integer, so a posted loop has a limit in the contract.
LEMMA ThresholdIsLimit ==
  ASSUME NEW sp \in LoopSpecs PROVE Threshold(sp) \in Int /\ Threshold(sp) # Unset
BY SpecsAssumption, MarkersAssumption DEF Threshold

\* The settling of a run is one outcome of the contract on the current record.
LEMMA SettleRefines ==
  ASSUME SerialInv, NEW s \in Slots, NEW l \in Loops, l = loop[s],
         SettleCompleted(s) \/ SettlePaused(s) \/ SettleCounted(s)
  PROVE  Contract!Next
<1> DEFINE st == state[l]
<1> USE DEF SerialInv
<1>1. /\ l \in Loops /\ l \in known /\ st \in LoopState
      /\ snap[s] \in Snapshot /\ res[s] \in Result
      /\ pc[s] = "settle"
  BY DEF SettleCompleted, SettlePaused, SettleCounted, TypeOK, SnapshotIsCurrent
<1>2. /\ snap[s].spec = spec[l] /\ spec[l] \in LoopSpecs
      /\ FailureCount(snap[s]) = st.consecutiveFailures + 1
      /\ st.consecutiveFailures \in Nat
  BY <1>1 DEF SnapshotIsCurrent, FailureCount, TypeOK, LoopState
<1>3. Contract!Active(l)
  <2>1. st.pausedReason = Unset
    BY <1>1 DEF SnapshotIsCurrent, ReasonExplainsPause
  <2> QED
    BY <1>1, <1>2, <2>1, ThresholdIsLimit DEF Contract!Active
<1>4. /\ known' = known /\ spec' = spec
      /\ state' = [state EXCEPT ![l] = state'[l]]
  BY <1>1 DEF SettleCompleted, SettlePaused, SettleCounted, TypeOK
<1>5. CASE SettleCompleted(s)
  <2>1. state'[l] = Succeeded(st, res[s])
    BY <1>1, <1>5 DEF SettleCompleted, TypeOK
  <2>2. /\ state'[l].consecutiveFailures = 0
        /\ state'[l].pausedReason = st.pausedReason
        /\ state'[l].cursor \in Cursors \cup {st.cursor}
    BY <1>1, <2>1 DEF Succeeded, LoopState, Result
  <2>3. Contract!RunSucceeds(l)
    <3> DEFINE seen(f) == [k \in Loops |-> f[k].cursor]
    <3>1. seen(state') = [seen(state) EXCEPT ![l] = state'[l].cursor]
      BY <1>1, <1>4 DEF TypeOK
    <3>2. /\ [k \in Loops |-> state'[k].consecutiveFailures]
               = [[k \in Loops |-> state[k].consecutiveFailures] EXCEPT ![l] = 0]
          /\ [k \in Loops |-> state'[k].pausedReason]
               = [k \in Loops |-> state[k].pausedReason]
      BY <1>1, <1>4, <2>2 DEF TypeOK
    <3>3. seen(state)[l] = st.cursor
      OBVIOUS
    <3> QED
      BY <1>3, <1>4, <2>2, <3>1, <3>2, <3>3, Zenon DEF Contract!RunSucceeds
  <2> QED
    BY <1>1, <2>3 DEF Contract!Next
<1>6. CASE SettlePaused(s)
  <2>1. state'[l] = Paused(st, snap[s], res[s])
    BY <1>1, <1>6 DEF SettlePaused, TypeOK
  <2>2. /\ state'[l].consecutiveFailures = st.consecutiveFailures + 1
        /\ state'[l].pausedReason = PauseReason(res[s])
        /\ state'[l].cursor = st.cursor
    BY <1>1, <1>2, <2>1 DEF Paused, LoopState
  <2>3. CASE res[s].budgetHit
    <3>1. PauseReason(res[s]) = "budget"
      BY <2>3 DEF PauseReason
    <3>2. Contract!RunOverspends(l)
      BY <1>1, <1>3, <1>4, <2>2, <3>1 DEF Contract!RunOverspends, TypeOK
    <3> QED
      BY <1>1, <3>2 DEF Contract!Next
  <2>4. CASE ~res[s].budgetHit
    <3>1. PauseReason(res[s]) = "failures"
      BY <2>4 DEF PauseReason
    <3>2. st.consecutiveFailures + 1 >= Threshold(spec[l])
      BY <1>2, <1>6, <3>1 DEF SettlePaused, ShouldPause
    <3>3. Contract!RunFails(l)
      BY <1>1, <1>3, <1>4, <2>2, <3>1, <3>2 DEF Contract!RunFails, TypeOK
    <3> QED
      BY <1>1, <3>3 DEF Contract!Next
  <2> QED
    BY <2>3, <2>4
<1>7. CASE SettleCounted(s)
  <2>1. state'[l] = Counted(st, snap[s])
    BY <1>1, <1>7 DEF SettleCounted, TypeOK
  <2>2. /\ state'[l].consecutiveFailures = st.consecutiveFailures + 1
        /\ state'[l].pausedReason = st.pausedReason
        /\ state'[l].cursor = st.cursor
    BY <1>1, <1>2, <2>1 DEF Counted, LoopState
  <2>3. ~(st.consecutiveFailures + 1 >= Threshold(spec[l]))
    BY <1>2, <1>7 DEF SettleCounted, ShouldPause
  <2>4. Contract!RunFails(l)
    BY <1>1, <1>3, <1>4, <2>2, <2>3, ZenonT(30) DEF Contract!RunFails, TypeOK
  <2> QED
    BY <1>1, <2>4 DEF Contract!Next
<1> QED
  BY <1>5, <1>6, <1>7

\* A post is a post of the contract.
LEMMA PostRefines ==
  ASSUME SerialInv, StoreInv, NEW l \in Loops, NEW sp \in LoopSpecs, Upsert(l, sp)
  PROVE  Contract!Post(l)
<1>1. state' = state
  BY DEF Upsert, StoreInv, TypeOK, UnknownIsDefault
<1>2. /\ known' = known \cup {l} /\ spec' = [spec EXCEPT ![l] = sp]
      /\ known \subseteq Loops /\ DOMAIN spec = Loops
  BY DEF Upsert, StoreInv, TypeOK
<1> QED
  BY <1>1, <1>2 DEF Contract!Post

\* A resume is a resume of the contract.
LEMMA ResumeRefines ==
  ASSUME SerialInv, NEW l \in Loops, Resume(l) PROVE Contract!Resume(l)
<1>1. /\ l \in known /\ state[l] \in LoopState /\ spec[l] \in LoopSpecs
      /\ known' = known /\ spec' = spec
      /\ state' = [state EXCEPT ![l] = state'[l]]
      /\ state'[l] = Resumed(state[l])
  BY DEF Resume, SerialInv, TypeOK
<1>2. /\ state'[l].consecutiveFailures = 0
      /\ state'[l].pausedReason = Unset
      /\ state'[l].cursor = state[l].cursor
  BY <1>1 DEF Resumed, LoopState
<1> QED
  BY <1>1, <1>2, ThresholdIsLimit DEF Contract!Resume, SerialInv, TypeOK

\* The stamp of the last run does not show in the contract.
LEMMA StampRefines ==
  ASSUME SerialInv, NEW s \in Slots, StampLastRun(s) PROVE UNCHANGED Contract!vars
<1>1. /\ loop[s] \in Loops /\ state[loop[s]] \in LoopState
      /\ known' = known /\ spec' = spec
      /\ state' = [state EXCEPT ![loop[s]] = state'[loop[s]]]
      /\ state'[loop[s]] = Stamped(state[loop[s]], now)
  BY DEF StampLastRun, SerialInv, TypeOK
<1>2. /\ state'[loop[s]].consecutiveFailures = state[loop[s]].consecutiveFailures
      /\ state'[loop[s]].pausedReason = state[loop[s]].pausedReason
      /\ state'[loop[s]].cursor = state[loop[s]].cursor
  BY <1>1 DEF Stamped, LoopState
<1> QED
  BY <1>1, <1>2 DEF Contract!vars, SerialInv, TypeOK

\* Under serial use the runner does what the comment above it says, for any number
\* of loops and ticks: every run is one outcome on the loop's current record
\* (loopRunner.ts:35-42).
THEOREM SerialRefinesContract == SerialSpec => ImplementsContract
<1>1. Init => Contract!Init
  BY DEF Init, Contract!Init, DefaultState
<1>2. SerialInv /\ StoreInv /\ [SerialNext]_vars => [Contract!Next]_(Contract!vars)
  <2> SUFFICES ASSUME SerialInv, StoreInv, [SerialNext]_vars
               PROVE  Contract!Next \/ UNCHANGED Contract!vars
    OBVIOUS
  <2>1. CASE UNCHANGED store
    BY <2>1 DEF Contract!vars
  <2>2. ASSUME NEW l \in Loops, NEW sp \in LoopSpecs, Upsert(l, sp)
        PROVE  Contract!Next
    BY <2>2, PostRefines DEF Contract!Next
  <2>3. ASSUME NEW l \in Loops, Resume(l) PROVE Contract!Next
    BY <2>3, ResumeRefines DEF Contract!Next
  <2>4. ASSUME NEW s \in Slots, StampLastRun(s) PROVE UNCHANGED Contract!vars
    BY <2>4, StampRefines
  <2>5. ASSUME NEW s \in Slots, SettleCompleted(s) \/ SettlePaused(s) \/ SettleCounted(s)
        PROVE  Contract!Next
    <3>1. loop[s] \in Loops
      BY <2>5 DEF SettleCompleted, SettlePaused, SettleCounted, SerialInv, TypeOK
    <3> QED
      BY <2>5, <3>1, SettleRefines
  <2> QED
    BY <2>1, <2>2, <2>3, <2>4, <2>5
    DEF SerialNext, SerialUse, CreateFromSession, TickStep, Fire, Refuse, Load, OpenSession,
        SessionFails, RunEnds, NotifyPaused, Crash, Advance, vars
<1> QED
  BY <1>1, <1>2, SerialInvHolds, StoreHolds, SerialIsSpec, PTL
  DEF SerialSpec, Spec, ImplementsContract, Contract!Spec

-----------------------------------------------------------------------------
(* Loops that run an agent.                                                 *)

\* The agent loop uses its runner serially.
LEMMA AgentStepIsSerial == ASSUME AgentNext PROVE SerialNext
<1>1. ASSUME NEW s \in Slots, NEW t \in Turns, AgentSettles(s, t)
      PROVE  TickStep(s)
  <2> DEFINE resolves == IF wiring = "local" THEN LocalResolves(t) ELSE DaemonResolves(t)
             over == resolves /\ (IF wiring = "local" THEN LocalCharges(t) ELSE DaemonCharges(t))
             r == [status |-> IF resolves /\ ~over THEN "completed" ELSE "failed",
                   budgetHit |-> over, cursor |-> Unset]
  <2>1. over \in BOOLEAN
    BY DEF LocalResolves, DaemonResolves, LocalCharges, DaemonCharges, Turns
  <2>2. r \in Result
    BY <2>1 DEF Result
  <2>3. RunEnds(s, r)
    BY <1>1 DEF AgentSettles
  <2> QED
    BY <2>2, <2>3 DEF TickStep
<1>2. ASSUME NEW s \in Slots, NEW r \in Result, OtherFlowEnds(s, r) PROVE TickStep(s)
  BY <1>2 DEF OtherFlowEnds, TickStep
<1>3. ASSUME NEW s \in Slots, TickGoesOn(s) \/ Settle(s) PROVE TickStep(s)
  BY <1>3 DEF TickGoesOn, Settle, TickStep
<1> QED
  BY <1>1, <1>2, <1>3 DEF AgentNext, UseLoop, CrashLosesTurns, SerialNext

\* So what is proved of serial use holds of it, the contract included
\* (loopRunner.ts:35-42).
THEOREM AgentLoopIsSerial == AgentSpec => SerialSpec
<1>1. AgentInit => Init
  BY DEF AgentInit
<1>2. [AgentNext]_agentVars => [SerialNext]_vars
  BY AgentStepIsSerial DEF agentVars
<1> QED
  BY <1>1, <1>2, PTL DEF AgentSpec, SerialSpec

\* Over the executor that runs claude on the server, the run of a slot completed
\* exactly if its turn went well, and went over the budget if the turn was dear.
TurnIsResult ==
  /\ wiring = "local" /\ DOMAIN turn = Slots
  /\ \A s \in Slots : pc[s] \in {"stamp", "settle"} =>
       /\ res[s].status = "completed" <=> GoesWell(turn[s])
       /\ turn[s].end = "completed" /\ turn[s].dear
            => res[s].status = "failed" /\ res[s].budgetHit

\* The record of a loop and its streak are written together.
RecordIsStreak ==
  /\ streak \in [Loops -> Nat]
  /\ \A l \in Loops : state[l].consecutiveFailures = streak[l]

LEMMA TurnStep ==
  ASSUME TypeOK, TurnIsResult, [AgentNext]_agentVars PROVE TurnIsResult'
<1>0. pc \in [Slots -> Stages] /\ DOMAIN res = Slots
  BY DEF TypeOK
<1>1. ASSUME NEW s \in Slots, NEW t \in Turns, AgentSettles(s, t) PROVE TurnIsResult'
  <2>1. t.end \in {"completed", "errored", "unanswered"} /\ t.dear \in BOOLEAN
    BY DEF Turns
  <2>2. /\ wiring' = "local" /\ wiring = "local" /\ turn' = [turn EXCEPT ![s] = t]
        /\ pc' = [pc EXCEPT ![s] = "stamp"]
    BY <1>1 DEF AgentSettles, RunEnds, TurnIsResult
  <2>3. res' = [res EXCEPT ![s] =
                  [status |-> IF t.end = "completed" /\ ~(t.end = "completed" /\ t.dear)
                                THEN "completed" ELSE "failed",
                   budgetHit |-> t.end = "completed" /\ t.dear, cursor |-> Unset]]
    BY <1>1, <2>2 DEF AgentSettles, RunEnds, LocalResolves, LocalCharges
  <2>4. /\ turn'[s] = t
        /\ res'[s].status = "completed" <=> t.end = "completed" /\ ~t.dear
        /\ t.end = "completed" /\ t.dear => res'[s].status = "failed" /\ res'[s].budgetHit
    BY <1>0, <2>1, <2>2, <2>3 DEF TurnIsResult
  <2>5. \A x \in Slots \ {s} : pc'[x] = pc[x] /\ turn'[x] = turn[x] /\ res'[x] = res[x]
    BY <1>0, <2>2, <2>3 DEF TurnIsResult
  <2> QED
    BY <2>2, <2>4, <2>5 DEF TurnIsResult, GoesWell
<1>2. ASSUME NEW s \in Slots, NEW r \in Result, OtherFlowEnds(s, r) PROVE TurnIsResult'
  <2> DEFINE over == r.status = "failed" /\ r.budgetHit
             t == [end |-> IF r.status = "completed" \/ over THEN "completed" ELSE "errored",
                   dear |-> over]
  <2>1. /\ wiring' = wiring /\ turn' = [turn EXCEPT ![s] = t]
        /\ pc' = [pc EXCEPT ![s] = "stamp"] /\ res' = [res EXCEPT ![s] = r]
    BY <1>2 DEF OtherFlowEnds, RunEnds
  <2>2. r.status \in {"completed", "failed"}
    BY DEF Result
  <2>3. turn'[s] = t /\ res'[s] = r /\ pc'[s] = "stamp"
    BY <1>0, <2>1 DEF TurnIsResult
  <2>4. \A x \in Slots \ {s} : pc'[x] = pc[x] /\ turn'[x] = turn[x] /\ res'[x] = res[x]
    BY <1>0, <2>1 DEF TurnIsResult
  <2>5. /\ r.status = "completed" <=> GoesWell(t)
        /\ t.end = "completed" /\ t.dear => r.status = "failed" /\ r.budgetHit
    BY <2>2 DEF GoesWell
  <2> HIDE DEF t
  <2> QED
    BY <2>1, <2>3, <2>4, <2>5 DEF TurnIsResult
<1>3. ASSUME NEW s \in Slots,
             \/ Refuse(s) \/ Load(s) \/ OpenSession(s) \/ SessionFails(s) \/ NotifyPaused(s),
             UNCHANGED <<wiring, turn>>
      PROVE  TurnIsResult'
  <2>1. /\ pc'[s] \notin {"stamp", "settle"}
        /\ \A x \in Slots \ {s} : pc'[x] = pc[x] /\ res'[x] = res[x]
    BY <1>0, <1>3 DEF Refuse, Load, OpenSession, SessionFails, NotifyPaused, Leave
  <2> QED
    BY <1>3, <2>1 DEF TurnIsResult
<1>4. ASSUME NEW s \in Slots, StampLastRun(s), UNCHANGED <<wiring, turn>> PROVE TurnIsResult'
  BY <1>0, <1>4 DEF StampLastRun, TurnIsResult
<1>5. ASSUME NEW s \in Slots, Settle(s) PROVE TurnIsResult'
  <2>1. /\ pc'[s] \notin {"stamp", "settle"} /\ wiring' = wiring
        /\ turn' = [turn EXCEPT ![s] = None]
        /\ \A x \in Slots \ {s} : pc'[x] = pc[x] /\ res'[x] = res[x]
    BY <1>0, <1>5 DEF Settle, SettleCompleted, SettlePaused, SettleCounted, Leave
  <2> QED
    BY <2>1 DEF TurnIsResult
<1>6. ASSUME NEW l \in Loops, UseLoop(l) PROVE TurnIsResult'
  <2>1. UNCHANGED <<wiring, turn, res>>
    BY <1>6 DEF UseLoop, SerialUse, CreateFromSession, Upsert, Resume, Fire
  <2>2. \A x \in Slots : pc'[x] \in {"stamp", "settle"} => pc[x] = pc'[x]
    BY <1>0, <1>6 DEF UseLoop, SerialUse, CreateFromSession, Upsert, Resume, Fire
  <2> QED
    BY <2>1, <2>2 DEF TurnIsResult
<1>7. CASE CrashLosesTurns
  BY <1>7 DEF CrashLosesTurns, Crash, TurnIsResult
<1>8. CASE UNCHANGED agentVars
  BY <1>8 DEF agentVars, vars, TurnIsResult
<1> QED
  BY <1>1, <1>2, <1>3, <1>4, <1>5, <1>6, <1>7, <1>8 DEF AgentNext, TickGoesOn

\* A tick that settles a failure finds its loop running, so below the bound.
LEMMA BelowBound ==
  ASSUME SerialInv, RunningBelowThreshold, NEW l \in known, ~state[l].paused
  PROVE  state[l].consecutiveFailures < MaxStreak
<1>1. state[l].consecutiveFailures \in Nat /\ posted[l] \subseteq LoopSpecs
  BY DEF SerialInv, TypeOK, LoopState
<1>2. CASE state[l].consecutiveFailures = 0
  BY <1>2, StreakAssumption, WiringAssumption
<1>3. ASSUME NEW sp \in posted[l], state[l].consecutiveFailures < Threshold(sp)
      PROVE  state[l].consecutiveFailures < MaxStreak
  <2>1. Threshold(sp) \in Int /\ Threshold(sp) <= MaxStreak /\ MaxStreak \in Nat
    BY <1>1, ThresholdIsLimit, StreakAssumption, WiringAssumption
  <2> QED
    BY <1>1, <1>3, <2>1
<1> QED
  BY <1>2, <1>3 DEF RunningBelowThreshold

\* Whatever writes the count of a loop moves its streak along.
LEMMA StreakStep ==
  ASSUME SerialInv, StoreInv, RunningBelowThreshold, TurnIsResult, RecordIsStreak,
         [AgentNext]_agentVars
  PROVE  RecordIsStreak'
<1> USE DEF SerialInv
<1>0. /\ state \in [Loops -> LoopState] /\ streak \in [Loops -> Nat]
      /\ \A l \in Loops : state[l].consecutiveFailures \in Nat
  BY DEF TypeOK, RecordIsStreak, LoopState
<1>1. ASSUME UNCHANGED streak,
             \A l \in Loops : state'[l].consecutiveFailures = state[l].consecutiveFailures
      PROVE  RecordIsStreak'
  BY <1>1 DEF RecordIsStreak
<1>2. ASSUME NEW s \in Slots, Settle(s) PROVE RecordIsStreak'
  <2> DEFINE l == loop[s]
             c == state[l].consecutiveFailures
  <2>1. /\ pc[s] = "settle" /\ l \in Loops /\ l \in known /\ ~state[l].paused
        /\ snap[s].state.consecutiveFailures = c
        /\ res[s].status = "completed" <=> GoesWell(turn[s])
    BY <1>2 DEF Settle, SettleCompleted, SettlePaused, SettleCounted, TypeOK,
       SnapshotIsCurrent, TurnIsResult
  <2>2. /\ c = streak[l] /\ c \in Nat /\ c < MaxStreak
    BY <1>0, <2>1, BelowBound DEF RecordIsStreak
  <2>3. /\ \A k \in Loops \ {l} : state'[k] = state[k] /\ streak'[k] = streak[k]
        /\ streak' = [streak EXCEPT ![l] = IF GoesWell(turn[s]) THEN 0 ELSE streak[l] + 1]
    <3>1. \A k \in Loops \ {l} : state'[k] = state[k]
      BY <1>0, <1>2, <2>1 DEF Settle, SettleCompleted, SettlePaused, SettleCounted
    <3>2. streak' = [streak EXCEPT ![l] = IF GoesWell(turn[s]) THEN 0
                                          ELSE IF @ = MaxStreak THEN @ ELSE @ + 1]
      BY <1>2 DEF Settle
    <3>3. streak[l] # MaxStreak
      BY <2>2, WiringAssumption
    <3>4. \A k \in Loops \ {l} : streak'[k] = streak[k]
      BY <1>0, <3>2
    <3>5. streak' = [streak EXCEPT ![l] = IF GoesWell(turn[s]) THEN 0 ELSE streak[l] + 1]
      BY <1>0, <3>2, <3>3
    <3> QED
      BY <3>1, <3>4, <3>5
  <2>4. state'[l].consecutiveFailures = IF GoesWell(turn[s]) THEN 0 ELSE c + 1
    <3>1. CASE SettleCompleted(s)
      BY <1>0, <2>1, <3>1 DEF SettleCompleted, Succeeded, LoopState
    <3>2. CASE SettlePaused(s)
      BY <1>0, <2>1, <3>2 DEF SettlePaused, Paused, LoopState, FailureCount
    <3>3. CASE SettleCounted(s)
      BY <1>0, <2>1, <3>3 DEF SettleCounted, Counted, LoopState, FailureCount
    <3> QED
      BY <1>2, <3>1, <3>2, <3>3 DEF Settle
  <2>5. streak' \in [Loops -> Nat]
    BY <1>0, <2>1, <2>2, <2>3
  <2>6. streak'[l] = IF GoesWell(turn[s]) THEN 0 ELSE c + 1
    BY <1>0, <2>1, <2>2, <2>3
  <2> HIDE DEF l, c
  <2> QED
    BY <2>3, <2>4, <2>5, <2>6 DEF RecordIsStreak
<1>3. ASSUME NEW l \in Loops, UseLoop(l) PROVE RecordIsStreak'
  <2>1. CASE Resume(l)
    <3>1. streak' = [streak EXCEPT ![l] = 0]
      BY <1>3, <2>1 DEF UseLoop
    <3>2. state'[l].consecutiveFailures = 0 /\ \A k \in Loops \ {l} : state'[k] = state[k]
      BY <1>0, <2>1 DEF Resume, Resumed, LoopState
    <3> QED
      BY <1>0, <3>1, <3>2 DEF RecordIsStreak
  <2>2. CASE ~Resume(l)
    <3>1. streak' = streak
      BY <1>3, <2>2 DEF UseLoop
    <3>2. state' = state
      BY <1>0, <1>3, <2>2 DEF UseLoop, SerialUse, CreateFromSession, Upsert, Fire,
         StoreInv, UnknownIsDefault
    <3> QED
      BY <1>1, <3>1, <3>2
  <2> QED
    BY <2>1, <2>2
<1>4. ASSUME NEW s \in Slots, StampLastRun(s), UNCHANGED streak PROVE RecordIsStreak'
  <2>1. \A l \in Loops : state'[l].consecutiveFailures = state[l].consecutiveFailures
    BY <1>0, <1>4 DEF StampLastRun, Stamped, LoopState
  <2> QED
    BY <1>1, <1>4, <2>1
<1>5. CASE UNCHANGED <<state, streak>>
  BY <1>1, <1>5
<1> QED
  BY <1>2, <1>3, <1>4, <1>5
  DEF AgentNext, TickGoesOn, AgentSettles, OtherFlowEnds, CrashLosesTurns, Crash, Refuse,
      Load, OpenSession, SessionFails, NotifyPaused, RunEnds, agentVars, vars

\* In a process that runs claude itself, the record of a loop counts exactly the runs in
\* a row that went badly for the agent or over the budget, whatever crashed, was reposted
\* or resumed in between (loopRunner.ts:101-123, claudeCli.ts:17-24, runtime.ts:50-64).
THEOREM CountHolds == AgentSpec /\ wiring = "local" => []CountIsStreak
<1> DEFINE Inv == TurnIsResult /\ RecordIsStreak
<1>1. AgentInit /\ wiring = "local" => Inv
  BY DEF AgentInit, Init, TurnIsResult, RecordIsStreak, DefaultState
<1>2. SerialInv /\ StoreInv /\ RunningBelowThreshold /\ Inv /\ [AgentNext]_agentVars => Inv'
  BY TurnStep, StreakStep DEF SerialInv
<1>3. SerialInv /\ Inv => CountIsStreak
  BY DEF SerialInv, TypeOK, RecordIsStreak, CountIsStreak
<1> QED
  BY <1>1, <1>2, <1>3, SerialInvHolds, StoreHolds, ThresholdHolds, SerialIsSpec,
     AgentLoopIsSerial, PTL
  DEF AgentSpec

\* Nothing but its own settle moves a slot on from there, in a process that goes on.
LEMMA SettlesItself ==
  ASSUME TypeOK, AgentNext, NEW s \in Slots,
         pc[s] = "settle", pc'[s] # "settle", crashes' = crashes
  PROVE  Settle(s)
<1>0. pc \in [Slots -> Stages] /\ crashes \in Nat
  BY BoundsAssumption DEF TypeOK
<1>1. ~CrashLosesTurns
  BY <1>0 DEF CrashLosesTurns, Crash
<1>2. ASSUME NEW l \in Loops, UseLoop(l) PROVE FALSE
  BY <1>0, <1>2 DEF UseLoop, SerialUse, CreateFromSession, Upsert, Resume, Fire
<1>3. PICK x \in Slots : \/ TickGoesOn(x)
                         \/ \E t \in Turns : AgentSettles(x, t)
                         \/ \E r \in Result : OtherFlowEnds(x, r)
                         \/ Settle(x)
  BY <1>1, <1>2 DEF AgentNext
<1>4. x = s
  BY <1>0, <1>3 DEF TickGoesOn, Refuse, Load, OpenSession, SessionFails, StampLastRun,
     NotifyPaused, AgentSettles, OtherFlowEnds, RunEnds, Settle, SettleCompleted,
     SettlePaused, SettleCounted, Leave
<1> QED
  BY <1>3, <1>4 DEF TickGoesOn, Refuse, Load, OpenSession, SessionFails, StampLastRun,
     NotifyPaused, AgentSettles, OtherFlowEnds

\* There a turn whose cost reaches the budget pauses its loop at once, with the budget
\* as the reason (README.md:15, loopRunner.ts:110-117).
THEOREM DearTurnHolds == AgentSpec /\ wiring = "local" => DearTurnPauses
<1>1. AgentInit /\ wiring = "local" => TurnIsResult
  BY DEF AgentInit, Init, TurnIsResult
<1>2. TypeOK /\ TurnIsResult /\ [AgentNext]_agentVars => TurnIsResult'
  BY TurnStep
<1>3. TypeOK /\ TurnIsResult /\ [AgentNext]_agentVars =>
        [\A s \in Slots :
           /\ pc[s] = "settle" /\ pc'[s] # "settle" /\ crashes' = crashes
           /\ turn[s].end = "completed" /\ turn[s].dear
           => state'[loop[s]].pausedReason = "budget"]_agentVars
  <2> SUFFICES ASSUME TypeOK, TurnIsResult, AgentNext, NEW s \in Slots,
                      pc[s] = "settle", pc'[s] # "settle", crashes' = crashes,
                      turn[s].end = "completed", turn[s].dear
               PROVE  state'[loop[s]].pausedReason = "budget"
    OBVIOUS
  <2>1. res[s].status = "failed" /\ PauseReason(res[s]) = "budget"
    BY DEF TurnIsResult, PauseReason
  <2>2. Settle(s)
    BY SettlesItself
  <2>3. SettlePaused(s)
    BY <2>1, <2>2 DEF Settle, SettleCompleted, SettleCounted, ShouldPause
  <2> QED
    BY <2>1, <2>3 DEF SettlePaused, Paused, TypeOK, LoopState
<1> QED
  BY <1>1, <1>2, <1>3, TypeCorrect, SerialIsSpec, AgentLoopIsSerial, PTL
  DEF AgentSpec, DearTurnPauses

\* There a run whose agent did not do its turn pauses its loop if it is the Nth bad run in
\* a row, as README.md:14 says (loopRunner.ts:104-117 over claudeCli.ts:17-22); over the
\* executor of the daemon it does not.
THEOREM BrokenLoopHolds == AgentSpec /\ wiring = "local" => BrokenLoopPauses
<1> DEFINE Inv == TurnIsResult /\ RecordIsStreak
<1>1. AgentInit /\ wiring = "local" => Inv
  BY DEF AgentInit, Init, TurnIsResult, RecordIsStreak, DefaultState
<1>2. SerialInv /\ StoreInv /\ RunningBelowThreshold /\ Inv /\ [AgentNext]_agentVars => Inv'
  BY TurnStep, StreakStep DEF SerialInv
<1>3. SerialInv /\ RunningBelowThreshold /\ Inv /\ [AgentNext]_agentVars =>
        [\A s \in Slots :
           /\ pc[s] = "settle" /\ pc'[s] # "settle" /\ crashes' = crashes
           /\ turn[s].end # "completed"
           /\ streak'[loop[s]] >= Threshold(snap[s].spec)
           => state'[loop[s]].paused]_agentVars
  <2> SUFFICES ASSUME SerialInv, RunningBelowThreshold, Inv, AgentNext, NEW s \in Slots,
                      pc[s] = "settle", pc'[s] # "settle", crashes' = crashes,
                      turn[s].end # "completed",
                      streak'[loop[s]] >= Threshold(snap[s].spec)
               PROVE  state'[loop[s]].paused
    OBVIOUS
  <2>1. Settle(s)
    BY SettlesItself DEF SerialInv
  <2>2. PICK l \in Loops : l = loop[s]
    BY <2>1 DEF SerialInv, TypeOK, Settle, SettleCompleted, SettlePaused, SettleCounted
  <2>3. /\ l \in known /\ ~state[l].paused
        /\ snap[s].state.consecutiveFailures = state[l].consecutiveFailures
    BY <2>2 DEF SerialInv, SnapshotIsCurrent
  <2>4. state[l].consecutiveFailures < MaxStreak
    BY <2>3, BelowBound
  <2>5. res[s].status # "completed" /\ ~GoesWell(turn[s])
    BY DEF TurnIsResult, GoesWell
  <2>6. streak'[l] = FailureCount(snap[s])
    <3>1. streak[l] = state[l].consecutiveFailures /\ streak \in [Loops -> Nat]
      BY DEF RecordIsStreak
    <3>2. streak' = [streak EXCEPT ![l] = IF @ = MaxStreak THEN @ ELSE @ + 1]
      BY <2>1, <2>2, <2>5 DEF Settle
    <3>3. streak[l] # MaxStreak
      BY <2>4, <3>1, WiringAssumption
    <3> QED
      BY <2>3, <3>1, <3>2, <3>3 DEF FailureCount
  <2>7. ShouldPause(snap[s], res[s])
    BY <2>2, <2>6 DEF ShouldPause
  <2>8. SettlePaused(s)
    BY <2>1, <2>5, <2>7 DEF Settle, SettleCompleted, SettleCounted
  <2> QED
    BY <2>2, <2>8 DEF SettlePaused, Paused, SerialInv, TypeOK, LoopState
<1> QED
  BY <1>1, <1>2, <1>3, SerialInvHolds, StoreHolds, ThresholdHolds, SerialIsSpec,
     AgentLoopIsSerial, PTL
  DEF AgentSpec, BrokenLoopPauses
=============================================================================

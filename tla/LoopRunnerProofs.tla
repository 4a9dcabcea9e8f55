--------------------------- MODULE LoopRunnerProofs ---------------------------
(***************************************************************************)
(* Theorems about LoopRunner for any set of loops, specs, flows and slots,  *)
(* with ticks of one loop overlapping freely.                               *)
(***************************************************************************)
EXTENDS LoopRunner, TLAPS

USE DEF store, ticks, history

-----------------------------------------------------------------------------
(* Type correctness. *)

\* The state of a first post is a loop state.
LEMMA DefaultStateType == DefaultState \in LoopState
BY DEF DefaultState, LoopState, Never, Reasons

\* A resume yields a loop state.
LEMMA ResumedType == ASSUME NEW st \in LoopState PROVE Resumed(st) \in LoopState
BY DEF Resumed, LoopState

\* So does the stamp of the last run.
LEMMA StampedType ==
  ASSUME NEW st \in LoopState, NEW t \in Nat PROVE Stamped(st, t) \in LoopState
BY DEF Stamped, LoopState

\* So does a success.
LEMMA SucceededType ==
  ASSUME NEW st \in LoopState, NEW r \in Result
  PROVE  Succeeded(st, r) \in LoopState
BY DEF Succeeded, LoopState, Result

\* So does a pause.
LEMMA PausedType ==
  ASSUME NEW st \in LoopState, NEW sn \in Snapshot, NEW r \in Result
  PROVE  Paused(st, sn, r) \in LoopState
<1>1. FailureCount(sn) \in Nat
  BY DEF FailureCount, Snapshot, LoopState
<1>2. PauseReason(r) \in Reasons
  BY Zenon DEF PauseReason, Reasons
<1> QED
  BY <1>1, <1>2 DEF Paused, LoopState

\* So does a counted failure.
LEMMA CountedType ==
  ASSUME NEW st \in LoopState, NEW sn \in Snapshot
  PROVE  Counted(st, sn) \in LoopState
BY DEF Counted, LoopState, Snapshot, FailureCount

\* Every step keeps every variable in its type, and a slot's locals present for as
\* long as its stage reads them.
LEMMA TypeStep == ASSUME TypeOK, [Next]_vars PROVE TypeOK'
<1>1. ASSUME NEW l \in Loops, NEW sp \in LoopSpecs, Upsert(l, sp) PROVE TypeOK'
  BY <1>1, DefaultStateType DEF Upsert, TypeOK
<1>2. ASSUME NEW l \in Loops, Resume(l) PROVE TypeOK'
  BY <1>2, ResumedType DEF Resume, TypeOK
<1>3. ASSUME NEW s \in Slots, NEW l \in Loops, Fire(s, l) PROVE TypeOK'
  BY <1>3 DEF Fire, TypeOK, Stages
<1>4. ASSUME NEW s \in Slots, TickStep(s) PROVE TypeOK'
  <2>1. CASE Refuse(s)
    BY <2>1 DEF Refuse, Leave, TypeOK, Stages
  <2>2. CASE Load(s)
    BY <2>2 DEF Load, MayRun, TypeOK, Stages, Snapshot
  <2>3. CASE OpenSession(s)
    BY <2>3 DEF OpenSession, TypeOK, Stages
  <2>4. CASE SessionFails(s)
    BY <2>4 DEF SessionFails, Leave, TypeOK, Stages
  <2>5. ASSUME NEW r \in Result, RunEnds(s, r) PROVE TypeOK'
    BY <2>5 DEF RunEnds, TypeOK, Stages
  <2>6. CASE StampLastRun(s)
    BY <2>6, StampedType, BoundsAssumption DEF StampLastRun, TypeOK, Stages
  <2>7. CASE SettleCompleted(s)
    BY <2>7, SucceededType DEF SettleCompleted, Leave, TypeOK, Stages
  <2>8. CASE SettlePaused(s)
    BY <2>8, PausedType DEF SettlePaused, TypeOK, Stages
  <2>9. CASE SettleCounted(s)
    BY <2>9, CountedType DEF SettleCounted, Leave, TypeOK, Stages
  <2>10. CASE NotifyPaused(s)
    BY <2>10 DEF NotifyPaused, Leave, TypeOK, Stages
  <2> QED
    BY <1>4, <2>1, <2>2, <2>3, <2>4, <2>5, <2>6, <2>7, <2>8, <2>9, <2>10 DEF TickStep
<1>5. CASE Crash
  BY <1>5, BoundsAssumption DEF Crash, TypeOK, Stages
<1>6. CASE Advance
  BY <1>6, BoundsAssumption DEF Advance, TypeOK
<1>7. CASE UNCHANGED vars
  BY <1>7 DEF vars, TypeOK
<1> QED
  BY <1>1, <1>2, <1>3, <1>4, <1>5, <1>6, <1>7
  DEF Next, CreateFromSession

\* The types hold for any constants, slots' locals included.
THEOREM TypeCorrect == Spec => []TypeOK
<1>1. Init => TypeOK
  BY DefaultStateType, BoundsAssumption DEF Init, TypeOK, Stages
<1>2. TypeOK /\ [Next]_vars => TypeOK'
  BY TypeStep
<1> QED
  BY <1>1, <1>2, PTL DEF Spec

-----------------------------------------------------------------------------
(* The failure threshold.  The count on record is written from a snapshot   *)
(* that may be stale, so the argument is not about the count's history but  *)
(* about every write: one that leaves the loop running writes zero, or a    *)
(* count below the threshold of the snapshot's spec, which was posted.      *)

\* Every spec a loop has, or that a tick of it still carries, was posted.
SpecsArePosted ==
  /\ \A l \in known : spec[l] \in posted[l]
  /\ \A s \in Slots : pc[s] \notin {"idle", "fired"} =>
       /\ loop[s] \in known
       /\ snap[s].spec \in posted[loop[s]]

ThresholdInv == TypeOK /\ SpecsArePosted /\ RunningBelowThreshold

\* No step, in any overlap, takes a tick to a spec that was never posted.
LEMMA SpecsStayPosted ==
  ASSUME TypeOK, SpecsArePosted, [Next]_vars PROVE SpecsArePosted'
<1>1. ASSUME NEW l \in Loops, NEW sp \in LoopSpecs, Upsert(l, sp)
      PROVE  SpecsArePosted'
  BY <1>1 DEF Upsert, TypeOK, SpecsArePosted
<1>2. ASSUME NEW l \in Loops, Resume(l) PROVE SpecsArePosted'
  BY <1>2 DEF Resume, SpecsArePosted
<1>3. ASSUME NEW s \in Slots, NEW l \in Loops, Fire(s, l) PROVE SpecsArePosted'
  BY <1>3 DEF Fire, TypeOK, SpecsArePosted
<1>4. ASSUME NEW s \in Slots, TickStep(s) PROVE SpecsArePosted'
  <2>1. CASE Load(s)
    BY <2>1 DEF Load, MayRun, TypeOK, SpecsArePosted, Snapshot
  <2>2. CASE Refuse(s) \/ SessionFails(s) \/ SettleCompleted(s)
             \/ SettleCounted(s) \/ NotifyPaused(s)
    BY <2>2 DEF Refuse, SessionFails, SettleCompleted, SettleCounted,
                NotifyPaused, Leave, TypeOK, SpecsArePosted
  <2>3. CASE OpenSession(s) \/ StampLastRun(s) \/ SettlePaused(s)
    BY <2>3 DEF OpenSession, StampLastRun, SettlePaused, TypeOK, SpecsArePosted
  <2>4. ASSUME NEW r \in Result, RunEnds(s, r) PROVE SpecsArePosted'
    BY <2>4 DEF RunEnds, TypeOK, SpecsArePosted
  <2> QED
    BY <1>4, <2>1, <2>2, <2>3, <2>4 DEF TickStep
<1>5. CASE Crash
  BY <1>5 DEF Crash, SpecsArePosted
<1>6. CASE Advance
  BY <1>6 DEF Advance, SpecsArePosted
<1>7. CASE UNCHANGED vars
  BY <1>7 DEF vars, SpecsArePosted
<1> QED
  BY <1>1, <1>2, <1>3, <1>4, <1>5, <1>6, <1>7
  DEF Next, CreateFromSession

\* No step, in any overlap, leaves a loop running with its threshold reached.
LEMMA ThresholdStep ==
  ASSUME ThresholdInv, [Next]_vars PROVE RunningBelowThreshold'
<1> USE DEF ThresholdInv
<1>1. ASSUME NEW l \in Loops, NEW sp \in LoopSpecs, Upsert(l, sp)
      PROVE  RunningBelowThreshold'
  BY <1>1 DEF Upsert, TypeOK, RunningBelowThreshold, DefaultState
<1>2. ASSUME NEW l \in Loops, Resume(l) PROVE RunningBelowThreshold'
  BY <1>2 DEF Resume, Resumed, TypeOK, RunningBelowThreshold, LoopState
<1>3. ASSUME NEW s \in Slots, NEW l \in Loops, Fire(s, l)
      PROVE  RunningBelowThreshold'
  BY <1>3 DEF Fire, RunningBelowThreshold
<1>4. ASSUME NEW s \in Slots, TickStep(s) PROVE RunningBelowThreshold'
  <2>1. CASE UNCHANGED <<known, state, posted>>
    BY <2>1 DEF RunningBelowThreshold
  <2>2. CASE StampLastRun(s)
    BY <2>2 DEF StampLastRun, Stamped, TypeOK, RunningBelowThreshold, LoopState
  <2>3. CASE SettleCompleted(s)
    BY <2>3 DEF SettleCompleted, Succeeded, TypeOK, RunningBelowThreshold, LoopState
  <2>4. CASE SettlePaused(s)
    BY <2>4 DEF SettlePaused, Paused, TypeOK, RunningBelowThreshold, LoopState
  <2>5. CASE SettleCounted(s)
    <3>1. FailureCount(snap[s]) \in Int /\ Threshold(snap[s].spec) \in Int
      BY <2>5, SpecsAssumption
      DEF SettleCounted, FailureCount, Threshold, TypeOK, Snapshot, LoopState
    <3>2. FailureCount(snap[s]) < Threshold(snap[s].spec)
      BY <2>5, <3>1 DEF SettleCounted, ShouldPause
    <3>3. snap[s].spec \in posted[loop[s]]
      BY <2>5 DEF SettleCounted, SpecsArePosted
    <3>4. state'[loop[s]].consecutiveFailures = FailureCount(snap[s])
      BY <2>5 DEF SettleCounted, Counted, TypeOK, LoopState
    <3>5. \A l \in known : l # loop[s] => state'[l] = state[l]
      BY <2>5 DEF SettleCounted, TypeOK
    <3> QED
      BY <2>5, <3>2, <3>3, <3>4, <3>5 DEF SettleCounted, RunningBelowThreshold
  <2> QED
    BY <1>4, <2>1, <2>2, <2>3, <2>4, <2>5
    DEF TickStep, Refuse, Load, OpenSession, SessionFails, RunEnds, NotifyPaused
<1>5. CASE Crash
  BY <1>5 DEF Crash, RunningBelowThreshold
<1>6. CASE Advance
  BY <1>6 DEF Advance, RunningBelowThreshold
<1>7. CASE UNCHANGED vars
  BY <1>7 DEF vars, RunningBelowThreshold
<1> QED
  BY <1>1, <1>2, <1>3, <1>4, <1>5, <1>6, <1>7
  DEF Next, CreateFromSession

\* A loop that is not paused is below a threshold it was given, whatever ticks
\* overlap, resume over or die (loopRunner.ts:110-123, server.ts:594).
THEOREM ThresholdHolds == Spec => []RunningBelowThreshold
<1>1. Init => SpecsArePosted /\ RunningBelowThreshold
  BY DEF Init, SpecsArePosted, RunningBelowThreshold
<1>2. TypeOK /\ SpecsArePosted /\ [Next]_vars => SpecsArePosted'
  BY SpecsStayPosted
<1>3. TypeOK /\ SpecsArePosted /\ RunningBelowThreshold /\ [Next]_vars
        => RunningBelowThreshold'
  BY ThresholdStep DEF ThresholdInv
<1> QED
  BY <1>1, <1>2, <1>3, TypeCorrect, PTL DEF Spec

-----------------------------------------------------------------------------
(* Pauses. *)

\* Every write that sets one of paused and pausedReason sets both.
LEMMA ReasonStep ==
  ASSUME TypeOK, ReasonExplainsPause, [Next]_vars PROVE ReasonExplainsPause'
<1>1. CASE UNCHANGED state
  BY <1>1 DEF ReasonExplainsPause
<1>2. ASSUME NEW l \in Loops, NEW sp \in LoopSpecs, Upsert(l, sp)
      PROVE  ReasonExplainsPause'
  BY <1>2 DEF Upsert, TypeOK, ReasonExplainsPause, DefaultState
<1>3. ASSUME NEW l \in Loops, Resume(l) PROVE ReasonExplainsPause'
  BY <1>3 DEF Resume, Resumed, TypeOK, ReasonExplainsPause, LoopState
<1>4. ASSUME NEW s \in Slots, TickStep(s), ~(UNCHANGED state)
      PROVE  ReasonExplainsPause'
  <2>1. CASE StampLastRun(s)
    BY <2>1 DEF StampLastRun, Stamped, TypeOK, ReasonExplainsPause, LoopState
  <2>2. CASE SettleCompleted(s)
    BY <2>2 DEF SettleCompleted, Succeeded, TypeOK, ReasonExplainsPause, LoopState
  <2>3. CASE SettlePaused(s)
    <3>1. PauseReason(res[s]) # Unset
      BY MarkersAssumption DEF PauseReason
    <3> QED
      BY <2>3, <3>1 DEF SettlePaused, Paused, TypeOK, ReasonExplainsPause, LoopState
  <2>4. CASE SettleCounted(s)
    BY <2>4 DEF SettleCounted, Counted, TypeOK, ReasonExplainsPause, LoopState
  <2> QED
    BY <1>4, <2>1, <2>2, <2>3, <2>4
    DEF TickStep, Refuse, Load, OpenSession, SessionFails, RunEnds, NotifyPaused
<1> QED
  BY <1>1, <1>2, <1>3, <1>4
  DEF Next, CreateFromSession, Fire, Crash, Advance, vars

\* A loop shows a pause reason exactly when it is paused (loopRunner.ts:116,
\* server.ts:594).
THEOREM ReasonHolds == Spec => []ReasonExplainsPause
<1>1. Init => ReasonExplainsPause
  BY DEF Init, ReasonExplainsPause, DefaultState
<1>2. TypeOK /\ ReasonExplainsPause /\ [Next]_vars => ReasonExplainsPause'
  BY ReasonStep
<1> QED
  BY <1>1, <1>2, TypeCorrect, PTL DEF Spec

\* The pause of a loop and its notification are two steps: in between, the tick that
\* paused it keeps its slot, and no other step lets go of a notification it owes.
LEMMA ToldStep == ASSUME TypeOK, PausedIsTold, [Next]_vars PROVE PausedIsTold'
<1>1. ASSUME NEW l \in Loops, NEW sp \in LoopSpecs, Upsert(l, sp) PROVE PausedIsTold'
  BY <1>1 DEF Upsert, TypeOK, PausedIsTold, DefaultState
<1>2. ASSUME NEW l \in Loops, Resume(l) PROVE PausedIsTold'
  BY <1>2 DEF Resume, Resumed, TypeOK, LoopState, PausedIsTold
<1>3. ASSUME NEW s \in Slots, NEW l \in Loops, Fire(s, l) PROVE PausedIsTold'
  BY <1>3 DEF Fire, TypeOK, PausedIsTold
<1>4. ASSUME NEW s \in Slots, TickStep(s) PROVE PausedIsTold'
  <2>1. CASE NotifyPaused(s)
    BY <2>1 DEF NotifyPaused, Leave, TypeOK, PausedIsTold
  <2>2. CASE SettlePaused(s)
    BY <2>2 DEF SettlePaused, Paused, TypeOK, LoopState, PausedIsTold
  <2>3. ASSUME /\ pc[s] # "notify"
               /\ UNCHANGED <<told, crashes>>
               /\ \A l \in Loops : state'[l].paused = state[l].paused
               /\ \A x \in Slots \ {s} : pc'[x] = pc[x] /\ loop'[x] = loop[x]
        PROVE  PausedIsTold'
    BY <2>3 DEF PausedIsTold
  <2>4. CASE Refuse(s) \/ Load(s) \/ OpenSession(s) \/ SessionFails(s)
    BY <2>3, <2>4 DEF Refuse, Load, OpenSession, SessionFails, Leave, TypeOK
  <2>5. ASSUME NEW r \in Result, RunEnds(s, r) PROVE PausedIsTold'
    BY <2>3, <2>5 DEF RunEnds, TypeOK
  <2>6. CASE StampLastRun(s) \/ SettleCompleted(s) \/ SettleCounted(s)
    <3>1. \A l \in Loops : state'[l].paused = state[l].paused
      <4>1. CASE StampLastRun(s)
        BY <4>1 DEF StampLastRun, Stamped, TypeOK, LoopState
      <4>2. CASE SettleCompleted(s)
        BY <4>2 DEF SettleCompleted, Succeeded, TypeOK, LoopState
      <4>3. CASE SettleCounted(s)
        BY <4>3 DEF SettleCounted, Counted, TypeOK, LoopState
      <4> QED
        BY <2>6, <4>1, <4>2, <4>3
    <3> QED
      BY <2>3, <2>6, <3>1 DEF StampLastRun, SettleCompleted, SettleCounted, Leave, TypeOK
  <2> QED
    BY <1>4, <2>1, <2>2, <2>4, <2>5, <2>6 DEF TickStep
<1>5. CASE Crash
  BY <1>5, BoundsAssumption DEF Crash, TypeOK, PausedIsTold
<1>6. CASE Advance \/ UNCHANGED vars
  BY <1>6 DEF Advance, vars, PausedIsTold
<1> QED
  BY <1>1, <1>2, <1>3, <1>4, <1>5, <1>6 DEF Next, CreateFromSession

\* The owner of a paused loop has been notified, or a tick is about to, unless the
\* process died (loopRunner.ts:116-120).
THEOREM ToldHolds == Spec => []PausedIsTold
<1>1. Init => PausedIsTold
  BY DEF Init, PausedIsTold, DefaultState
<1>2. TypeOK /\ PausedIsTold /\ [Next]_vars => PausedIsTold'
  BY ToldStep
<1> QED
  BY <1>1, <1>2, TypeCorrect, PTL DEF Spec

-----------------------------------------------------------------------------
(* What a step may do to the record of a loop. *)

\* A loop nobody posted has the state a first post would give it.
UnknownIsDefault == \A l \in Loops : l \notin known => state[l] = DefaultState

StoreInv == TypeOK /\ SpecsArePosted /\ UnknownIsDefault

\* No step writes to the record of a loop that was never posted.
LEMMA UnknownStaysDefault ==
  ASSUME TypeOK, SpecsArePosted, UnknownIsDefault, [Next]_vars
  PROVE  UnknownIsDefault'
<1>1. CASE UNCHANGED <<known, state>>
  BY <1>1 DEF UnknownIsDefault
<1>2. ASSUME NEW l \in Loops, NEW sp \in LoopSpecs, Upsert(l, sp)
      PROVE  UnknownIsDefault'
  BY <1>2 DEF Upsert, TypeOK, UnknownIsDefault
<1>3. ASSUME NEW l \in Loops, Resume(l) PROVE UnknownIsDefault'
  BY <1>3 DEF Resume, TypeOK, UnknownIsDefault
<1>4. ASSUME NEW s \in Slots,
             \/ StampLastRun(s) \/ SettleCompleted(s)
             \/ SettlePaused(s) \/ SettleCounted(s)
      PROVE  UnknownIsDefault'
  <2>1. loop[s] \in known
    BY <1>4 DEF StampLastRun, SettleCompleted, SettlePaused, SettleCounted,
                SpecsArePosted
  <2>2. known' = known /\ \A l \in Loops \ {loop[s]} : state'[l] = state[l]
    BY <1>4 DEF StampLastRun, SettleCompleted, SettlePaused, SettleCounted, TypeOK
  <2> QED
    BY <2>1, <2>2 DEF UnknownIsDefault
<1> QED
  BY <1>1, <1>2, <1>3, <1>4
  DEF Next, CreateFromSession, TickStep, Refuse, Load, OpenSession,
      SessionFails, RunEnds,
      NotifyPaused, Fire, Crash, Advance, vars

\* The store keeps a loop's record only once the loop was posted, and what it and the
\* ticks hold as a spec was posted (jsonLoopStore.ts:21-31, loopRunner.ts:48-50).
THEOREM StoreHolds == Spec => []StoreInv
<1>1. Init => SpecsArePosted /\ UnknownIsDefault
  BY DEF Init, SpecsArePosted, UnknownIsDefault
<1>2. TypeOK /\ SpecsArePosted /\ [Next]_vars => SpecsArePosted'
  BY SpecsStayPosted
<1>3. TypeOK /\ SpecsArePosted /\ UnknownIsDefault /\ [Next]_vars => UnknownIsDefault'
  BY UnknownStaysDefault
<1> QED
  BY <1>1, <1>2, <1>3, TypeCorrect, PTL DEF Spec, StoreInv

\* Each write touches the fields of its patch and no other.
LEMMA WrittenFields ==
  ASSUME NEW st \in LoopState
  PROVE  /\ \A t : Stamped(st, t).cursor = st.cursor /\ Stamped(st, t).paused = st.paused
         /\ \A r : /\ r.cursor # Unset => Succeeded(st, r).cursor = r.cursor
                   /\ r.cursor = Unset => Succeeded(st, r).cursor = st.cursor
                   /\ Succeeded(st, r).paused = st.paused
         /\ \A sn, r : /\ Paused(st, sn, r).cursor = st.cursor
                       /\ Paused(st, sn, r).paused
         /\ \A sn : /\ Counted(st, sn).cursor = st.cursor
                    /\ Counted(st, sn).paused = st.paused
         /\ Resumed(st).cursor = st.cursor
BY DEF Stamped, Succeeded, Paused, Counted, Resumed, LoopState

\* The record of a loop changes only in a resume or in a write of one of its ticks.
LEMMA StateChanges ==
  ASSUME StoreInv, Next, NEW l \in Loops, state'[l] # state[l]
  PROVE  \/ Resume(l) /\ state'[l] = Resumed(state[l])
         \/ \E s \in Slots :
              /\ loop[s] = l
              /\ \/ state'[l] = Stamped(state[l], now)
                 \/ state'[l] = Succeeded(state[l], res[s]) /\ SettleCompleted(s)
                 \/ state'[l] = Paused(state[l], snap[s], res[s])
                 \/ state'[l] = Counted(state[l], snap[s])
<1>1. ASSUME NEW k \in Loops, NEW sp \in LoopSpecs, Upsert(k, sp) PROVE FALSE
  BY <1>1 DEF Upsert, StoreInv, TypeOK, UnknownIsDefault
<1>2. ASSUME NEW k \in Loops, Resume(k)
      PROVE  Resume(l) /\ state'[l] = Resumed(state[l])
  BY <1>2 DEF Resume, StoreInv, TypeOK
<1>3. ASSUME NEW s \in Slots, StampLastRun(s)
      PROVE  loop[s] = l /\ state'[l] = Stamped(state[l], now)
  BY <1>3 DEF StampLastRun, StoreInv, TypeOK
<1>4. ASSUME NEW s \in Slots, SettleCompleted(s)
      PROVE  loop[s] = l /\ state'[l] = Succeeded(state[l], res[s])
  BY <1>4 DEF SettleCompleted, StoreInv, TypeOK
<1>5. ASSUME NEW s \in Slots, SettlePaused(s)
      PROVE  loop[s] = l /\ state'[l] = Paused(state[l], snap[s], res[s])
  BY <1>5 DEF SettlePaused, StoreInv, TypeOK
<1>6. ASSUME NEW s \in Slots, SettleCounted(s)
      PROVE  loop[s] = l /\ state'[l] = Counted(state[l], snap[s])
  BY <1>6 DEF SettleCounted, StoreInv, TypeOK
<1> QED
  BY <1>1, <1>2, <1>3, <1>4, <1>5, <1>6
  DEF Next, CreateFromSession, TickStep, Refuse, Load, OpenSession,
      SessionFails, RunEnds,
      NotifyPaused, Fire, Crash, Advance

\* Only the resume endpoint takes a loop out of its pause: stale ticks settle
\* without waking it (jsonLoopStore.ts:33, loopRunner.ts:102-122).
THEOREM ResumeIsTheOnlyWayOut == Spec => OnlyResumeUnpauses
<1>1. StoreInv /\ [Next]_vars =>
        [\A l \in Loops : state[l].paused /\ ~state'[l].paused => Resume(l)]_vars
  <2> SUFFICES ASSUME StoreInv, Next, NEW l \in Loops,
                      state[l].paused, ~state'[l].paused
               PROVE  Resume(l)
    OBVIOUS
  <2>1. state[l] \in LoopState
    BY DEF StoreInv, TypeOK
  <2> QED
    BY <2>1, StateChanges, WrittenFields
<1> QED
  BY <1>1, StoreHolds, PTL DEF Spec, OnlyResumeUnpauses

\* A step that moves a cursor is the settling of a completed run that committed one.
LEMMA CursorStep ==
  ASSUME StoreInv, Next, NEW l \in Loops, state'[l].cursor # state[l].cursor
  PROVE  \E s \in Slots : Commits(s, l)
<1>1. state[l] \in LoopState
  BY DEF StoreInv, TypeOK
<1>2. PICK s \in Slots : /\ loop[s] = l /\ SettleCompleted(s)
                         /\ state'[l] = Succeeded(state[l], res[s])
  BY <1>1, StateChanges, WrittenFields
<1>3. res[s].cursor # Unset /\ state'[l].cursor = res[s].cursor
  BY <1>1, <1>2, WrittenFields
<1> QED
  BY <1>2, <1>3 DEF SettleCompleted, Commits

\* The cursor of a loop moves only when a completed run of it settles, to what that run
\* committed (loopRunner.ts:92, 101-107); of two runs that overlap either may be the
\* last to settle.
THEOREM CursorMoves == Spec => CursorMovesByCompletion
<1>1. StoreInv /\ [Next]_vars =>
        [\A l \in Loops : state'[l].cursor # state[l].cursor =>
           \E s \in Slots : Commits(s, l)]_vars
  BY CursorStep
<1> QED
  BY <1>1, StoreHolds, PTL DEF Spec, CursorMovesByCompletion
=============================================================================

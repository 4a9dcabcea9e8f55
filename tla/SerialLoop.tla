------------------------------ MODULE SerialLoop ------------------------------
(***************************************************************************)
(* LoopRunner used the way its tests and its contract assume: the ticks of  *)
(* one loop do not overlap, and a loop is reposted or resumed between its   *)
(* ticks, not under one.  Ticks of different loops still interleave, and    *)
(* the process may crash anywhere.  Nothing in the code enforces this use   *)
(* (LoopRunner explores the overlaps); under it, LoopRunner implements      *)
(* LoopContract.                                                            *)
(***************************************************************************)
EXTENDS LoopRunner

\* What callers and clients do to loop l, one at a time.
SerialUse(l) ==
  /\ ~InFlight(l)
  /\ \/ \E sp \in LoopSpecs : Upsert(l, sp) \/ CreateFromSession(l, sp)
     \/ Resume(l)
     \/ \E s \in Slots : Fire(s, l)

SerialNext ==
  \/ \E l \in Loops : SerialUse(l)
  \/ \E s \in Slots : TickStep(s)
  \/ Crash
  \/ Advance

SerialSpec == Init /\ [][SerialNext]_vars

-----------------------------------------------------------------------------
\* The contract sees the record of each loop, not the ticks at work on it.
Contract == INSTANCE LoopContract WITH
  Limits <- {Threshold(sp) : sp \in LoopSpecs},
  cursor <- [l \in Loops |-> state[l].cursor],
  failures <- [l \in Loops |-> state[l].consecutiveFailures],
  pause <- [l \in Loops |-> state[l].pausedReason],
  limit <- [l \in Loops |-> IF l \in known THEN Threshold(spec[l]) ELSE Unset]

\* Under serial use every step of the runner is a step of the contract or a
\* stutter: each run takes effect as one outcome on the current record, a crashed
\* or refused tick has none (loopRunner.ts:35-42, 47-124).
ImplementsContract == Contract!Spec

\* A cursor is replaced only by one that a run committed which was given the cursor it
\* replaces: ticks that do not overlap hand the cursor on from run to run, across
\* reposts, resumes, failures and crashes, and no commit is written over unseen
\* (loopRunner.ts:48-50, 92, 101-107).
NoCommitIsLost ==
  [][\A l \in Loops : state'[l].cursor # state[l].cursor =>
       \E s \in Slots : Commits(s, l) /\ snap[s].state.cursor = state[l].cursor]_vars

\* Past its load, a tick's snapshot agrees with the store on all it decides from,
\* and its loop is paused exactly when the tick itself has just paused it
\* (loopRunner.ts:48-50, 110-123).
SnapshotIsCurrent ==
  \A s \in Slots : pc[s] \in {"session", "running", "stamp", "settle"} =>
    /\ loop[s] \in known
    /\ snap[s].spec = spec[loop[s]]
    /\ snap[s].state.consecutiveFailures = state[loop[s]].consecutiveFailures
    /\ snap[s].state.cursor = state[loop[s]].cursor
    /\ ~state[loop[s]].paused

\* No two ticks share a loop, and only a live slot holds one.
OneTickPerLoop ==
  /\ \A s, t \in Slots : loop[s] = loop[t] /\ loop[s] # None => s = t
  /\ \A s \in Slots : pc[s] = "idle" <=> loop[s] = None

\* What makes the refinement go through: an invariant of serial use.
SerialInv == TypeOK /\ ReasonExplainsPause /\ OneTickPerLoop /\ SnapshotIsCurrent
=============================================================================

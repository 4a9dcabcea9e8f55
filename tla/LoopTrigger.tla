----------------------------- MODULE LoopTrigger -----------------------------
(***************************************************************************)
(* Manual firing of loops: POST /loops/:id/trigger and /run-once answer with *)
(* a run id they learn by sniffing.  A request queues a capture and calls    *)
(* `runner.tick`; the first event of any run resolves the oldest capture.    *)
(*                                                                          *)
(* Every tick of a server's runner is fired by one of these requests.  The  *)
(* module follows the ticks of LoopRunner and adds the captures.            *)
(***************************************************************************)
EXTENDS LoopRunner, Sequences

CONSTANT MaxRequests  \* bound: accepted trigger and run-once requests

ASSUME RequestsAssumption == MaxRequests \in Nat

VARIABLES
  asked,     \* how many requests were accepted; they are numbered from 1
  request,   \* the request that fired the tick in a slot, 0 if none
  captures,  \* pendingRunIds: the requests waiting for a run id, oldest first
  runs,      \* how many runs have begun; they are numbered from 1
  answer,    \* the run id a request was answered with, 0 if none yet
  ownRun,    \* the run a request's own tick began, 0 if none
  begunAt,   \* how many runs had begun when a request was accepted
  lost       \* the last request accepted before the process last died

captureVars == <<asked, request, captures, runs, answer, ownRun, begunAt, lost>>
triggerVars == <<vars, captureVars>>

Requests == 1 .. MaxRequests

-----------------------------------------------------------------------------
\* Mutants: the newest capture is resolved; the resolved one stays.
Pop(queue) ==
  [to |-> {queue[Len(queue)]}, rest |-> SubSeq(queue, 1, Len(queue) - 1)]

Peek(queue) == [to |-> {queue[1]}, rest |-> queue]

\* pendingRunIds.shift(): whom a run's first event answers, and who goes on waiting.
Shift(queue) == [to |-> {Head(queue)}, rest |-> Tail(queue)]

TriggerInit ==
  /\ Init
  /\ asked = 0
  /\ request = [s \in Slots |-> 0]
  /\ captures = <<>>
  /\ runs = 0
  /\ answer = [q \in Requests |-> 0]
  /\ ownRun = [q \in Requests |-> 0]
  /\ begunAt = [q \in Requests |-> 0]
  /\ lost = 0

\* An unknown loop is answered 404.  Nothing looks at whether the loop is paused.
Trigger(s, l) ==
  /\ l \in known
  /\ asked < MaxRequests
  /\ Fire(s, l)
  /\ asked' = asked + 1
  /\ request' = [request EXCEPT ![s] = asked']
  /\ captures' = Append(captures, asked')
  /\ begunAt' = [begunAt EXCEPT ![asked'] = runs]
  /\ UNCHANGED <<runs, answer, ownRun, lost>>

\* run_started: the run of the slot's tick begins, and the oldest capture gets its id.
Begin(s) ==
  /\ OpenSession(s)
  /\ runs' = runs + 1
  /\ ownRun' = [ownRun EXCEPT ![request[s]] = runs']
  /\ IF captures = <<>>
       THEN UNCHANGED <<answer, captures>>
       ELSE /\ answer' = [q \in Requests |->
                             IF q \in Shift(captures).to /\ answer[q] = 0
                               THEN runs' ELSE answer[q]]
            /\ captures' = Shift(captures).rest
  /\ UNCHANGED <<asked, request, begunAt, lost>>

\* A paused loop's tick returns without an event: its capture stays in the queue.
RefusePaused(s) ==
  /\ pc[s] = "fired"
  /\ state[loop[s]].paused
  /\ Refuse(s)
  /\ request' = [request EXCEPT ![s] = 0]
  /\ UNCHANGED <<asked, captures, runs, answer, ownRun, begunAt, lost>>

\* The tick rejects (its flow is unknown, or the session store throws) and nobody
\* handles the rejection, or something else kills the process: captures are gone.
DiesWithCaptures ==
  /\ Crash
  /\ request' = [s \in Slots |-> 0]
  /\ captures' = <<>>
  /\ lost' = asked
  /\ UNCHANGED <<asked, runs, answer, ownRun, begunAt>>

\* The rest of a tick, and everything else the loops go through.
TickOn(s) ==
  /\ \/ Load(s)
     \/ \E r \in Result : RunEnds(s, r)
     \/ StampLastRun(s)
     \/ SettleCompleted(s)
     \/ SettlePaused(s)
     \/ SettleCounted(s)
     \/ NotifyPaused(s)
  /\ request' = [request EXCEPT ![s] = IF pc'[s] = "idle" THEN 0 ELSE @]
  /\ UNCHANGED <<asked, captures, runs, answer, ownRun, begunAt, lost>>

\* Creating a loop from a session is one way of posting it.
ClientStep ==
  /\ \/ \E l \in Loops, sp \in LoopSpecs : Upsert(l, sp)
     \/ \E l \in Loops : Resume(l)
  /\ UNCHANGED captureVars

TriggerNext ==
  \/ \E s \in Slots, l \in Loops : Trigger(s, l)
  \/ \E s \in Slots : Begin(s) \/ RefusePaused(s) \/ TickOn(s)
  \/ ClientStep
  \/ DiesWithCaptures

TriggerSpec == TriggerInit /\ [][TriggerNext]_triggerVars

-----------------------------------------------------------------------------
Answered(q) == answer[q] # 0

\* Requests are answered in the order they came, each with a run that began after it
\* was accepted: a client never gets a run that was over before it asked, nor one
\* that another was answered with, however ticks overlap, are refused or die.
AnswersInOrder ==
  \A p, q \in Requests :
    /\ Answered(p) => answer[p] > begunAt[p]
    /\ p < q /\ Answered(p) /\ Answered(q) => answer[p] < answer[q]

\* As many requests wait for a run id as have not seen their own tick begin a run:
\* one run answers one request, never none and never two.
WaitingMatchesTicks ==
  Len(captures) = Cardinality({q \in Requests : lost < q /\ q <= asked /\ ownRun[q] = 0})

\* "Resolves with the run id that tick produced": the answer is the request's own run.
\* A tick refused for a paused loop, or two ticks that begin in the other order, leave
\* a capture to somebody else's run.
AnsweredWithOwnRun == \A q \in Requests : Answered(q) => answer[q] = ownRun[q]
=============================================================================

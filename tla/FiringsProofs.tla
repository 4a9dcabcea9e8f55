---------------------------- MODULE FiringsProofs -----------------------------
(***************************************************************************)
(* Theorems about the two ways a loop is fired, by a client's request and   *)
(* by the scheduler's sweep, for any loops, specs, slots and requests.      *)
(***************************************************************************)
EXTENDS LoopScheduler, LoopTrigger, LoopRunnerProofs, SequenceTheorems,
        FiniteSetTheorems, WellFoundedInduction

-----------------------------------------------------------------------------
(* Requests only do what callers of the runner may do. *)

\* A step of the trigger endpoints is a step of the runner's contract, or leaves the
\* runner alone.
LEMMA TriggerStepIsRunners == ASSUME TriggerNext PROVE Next
<1>1. ASSUME NEW s \in Slots, NEW l \in Loops, Trigger(s, l) PROVE Next
  BY <1>1 DEF Trigger, Next
<1>2. ASSUME NEW s \in Slots, Begin(s) \/ RefusePaused(s) \/ TickOn(s) PROVE Next
  BY <1>2 DEF Begin, RefusePaused, TickOn, TickStep, Next
<1>3. CASE ClientStep
  BY <1>3 DEF ClientStep, Next
<1>4. CASE DiesWithCaptures
  BY <1>4 DEF DiesWithCaptures, Next
<1> QED
  BY <1>1, <1>2, <1>3, <1>4 DEF TriggerNext

\* Loops that clients fire keep the runner's contract, so all that is proved of any
\* caller of the runner holds of them (server.ts:541-583, loopRunner.ts:38-124).
THEOREM TriggerImplementsRunner == TriggerSpec => Spec
<1>1. TriggerInit => Init
  BY DEF TriggerInit
<1>2. [TriggerNext]_triggerVars => [Next]_vars
  BY TriggerStepIsRunners DEF triggerVars, vars
<1> QED
  BY <1>1, <1>2, PTL DEF TriggerSpec, Spec

-----------------------------------------------------------------------------
(* The queue of captures. *)

TriggerTypeOK ==
  /\ asked \in 0 .. MaxRequests
  /\ request \in [Slots -> 0 .. MaxRequests]
  /\ captures \in Seq(Requests)
  /\ runs \in Nat
  /\ answer \in [Requests -> Nat]
  /\ ownRun \in [Requests -> Nat]
  /\ begunAt \in [Requests -> Nat]
  /\ lost \in 0 .. asked

\* Requests wait in the order they came, all of them accepted by this process.
QueueInOrder ==
  /\ \A i, j \in 1 .. Len(captures) : i < j => captures[i] < captures[j]
  /\ \A i \in 1 .. Len(captures) : lost < captures[i] /\ captures[i] <= asked

\* Who waits has no answer, and everyone answered came earlier.
AnsweredLeft ==
  \A i \in 1 .. Len(captures) :
    /\ ~Answered(captures[i])
    /\ \A q \in Requests : Answered(q) => q < captures[i]

\* An answer is a run that has begun, after the request was accepted.
AnswersAreRuns ==
  \A q \in Requests :
    /\ Answered(q) => q <= asked /\ begunAt[q] < answer[q] /\ answer[q] <= runs
    /\ q <= asked => begunAt[q] <= runs

\* A tick that has not begun its run belongs to a request of this process that has
\* no run yet, and to no other tick.
UnbegunTicks ==
  /\ \A s \in Slots : pc[s] \in {"fired", "session"} =>
       /\ request[s] \in Requests
       /\ lost < request[s] /\ request[s] <= asked
       /\ ownRun[request[s]] = 0
  /\ \A s, t \in Slots :
       /\ s # t
       /\ pc[s] \in {"fired", "session"} /\ pc[t] \in {"fired", "session"}
       => request[s] # request[t]

UnaskedHaveNoRun == \A q \in Requests : q > asked => ownRun[q] = 0

TriggerInv ==
  /\ TriggerTypeOK
  /\ QueueInOrder
  /\ AnsweredLeft
  /\ AnswersAreRuns
  /\ UnbegunTicks
  /\ UnaskedHaveNoRun

\* Who waits has a number.
LEMMA QueueType ==
  ASSUME TriggerTypeOK
  PROVE  /\ Len(captures) \in Nat
         /\ \A i \in 1 .. Len(captures) : captures[i] \in Requests /\ captures[i] \in Nat
<1>1. captures \in Seq(Requests)
  BY DEF TriggerTypeOK
<1>2. Len(captures) \in Nat /\ \A i \in 1 .. Len(captures) : captures[i] \in Requests
  BY <1>1, LenProperties, ElementOfSeq
<1> QED
  BY <1>2 DEF Requests

\* A request that is accepted goes last in the queue and gets the next number.
LEMMA Queued ==
  ASSUME TriggerTypeOK, NEW s \in Slots, NEW l \in Loops, Trigger(s, l)
  PROVE  /\ asked' \in Requests /\ asked' = asked + 1
         /\ request' \in [Slots -> 0 .. MaxRequests]
         /\ request'[s] = asked + 1
         /\ \A t \in Slots \ {s} : request'[t] = request[t]
         /\ captures' \in Seq(Requests)
         /\ Len(captures) \in Nat /\ Len(captures') = Len(captures) + 1
         /\ \A i \in 1 .. Len(captures) : captures'[i] = captures[i]
         /\ captures'[Len(captures) + 1] = asked + 1
         /\ begunAt' \in [Requests -> Nat]
         /\ begunAt'[asked + 1] = runs
         /\ \A q \in Requests \ {asked + 1} : begunAt'[q] = begunAt[q]
<1>1. asked' \in Requests /\ asked' = asked + 1
  BY RequestsAssumption DEF Trigger, TriggerTypeOK, Requests
<1>2. captures' = Append(captures, asked') /\ captures \in Seq(Requests)
  BY DEF Trigger, TriggerTypeOK
<1>3. /\ captures' \in Seq(Requests)
      /\ Len(captures) \in Nat /\ Len(captures') = Len(captures) + 1
      /\ \A i \in 1 .. Len(captures) : captures'[i] = captures[i]
      /\ captures'[Len(captures) + 1] = asked'
  BY <1>1, <1>2, AppendProperties, LenProperties
<1>4. /\ request' \in [Slots -> 0 .. MaxRequests]
      /\ request'[s] = asked'
      /\ \A t \in Slots \ {s} : request'[t] = request[t]
  BY <1>1 DEF Trigger, TriggerTypeOK, Requests
<1>5. /\ begunAt' \in [Requests -> Nat]
      /\ begunAt'[asked'] = runs
      /\ \A q \in Requests \ {asked'} : begunAt'[q] = begunAt[q]
  BY <1>1 DEF Trigger, TriggerTypeOK
<1> QED
  BY <1>1, <1>3, <1>4, <1>5

\* A run's first event answers the head of the queue, if somebody waits.
LEMMA Served ==
  ASSUME TriggerTypeOK, AnsweredLeft, NEW s \in Slots, Begin(s), captures # <<>>
  PROVE  /\ Len(captures) \in Nat \ {0} /\ captures[1] \in Requests
         /\ answer' \in [Requests -> Nat]
         /\ answer'[captures[1]] = runs + 1
         /\ \A q \in Requests \ {captures[1]} : answer'[q] = answer[q]
         /\ captures' \in Seq(Requests)
         /\ Len(captures') = Len(captures) - 1
         /\ \A i \in 1 .. Len(captures') : captures'[i] = captures[i + 1]
<1>1. captures \in Seq(Requests) /\ runs' = runs + 1 /\ runs \in Nat
  BY DEF TriggerTypeOK, Begin
<1>2. Len(captures) \in Nat \ {0}
  BY <1>1, EmptySeq, LenProperties
<1>3. Head(captures) = captures[1] /\ captures[1] \in Requests
  BY <1>1, <1>2, ElementOfSeq
<1>4. captures' = Tail(captures)
  BY DEF Begin, Shift
<1>5. /\ captures' \in Seq(Requests) /\ Len(captures') = Len(captures) - 1
      /\ \A i \in 1 .. Len(captures') : captures'[i] = captures[i + 1]
  BY <1>1, <1>4, HeadTailProperties
<1>6. answer' = [q \in Requests |-> IF q = captures[1] /\ answer[q] = 0
                                      THEN runs' ELSE answer[q]]
  BY <1>3 DEF Begin, Shift
<1>7. answer[captures[1]] = 0
  BY <1>2 DEF AnsweredLeft, Answered
<1> QED
  BY <1>1, <1>2, <1>3, <1>5, <1>6, <1>7, SMTT(30) DEF TriggerTypeOK

\* What the other steps leave alone.
LEMMA QuietSteps ==
  ASSUME TriggerTypeOK,
         \/ \E s \in Slots : RefusePaused(s) \/ TickOn(s)
         \/ ClientStep
         \/ UNCHANGED triggerVars
  PROVE  /\ UNCHANGED <<asked, captures, runs, answer, ownRun, begunAt, lost>>
         /\ request' \in [Slots -> 0 .. MaxRequests]
<1>1. ASSUME NEW s \in Slots, RefusePaused(s)
      PROVE  /\ UNCHANGED <<asked, captures, runs, answer, ownRun, begunAt, lost>>
             /\ request' \in [Slots -> 0 .. MaxRequests]
  BY <1>1, RequestsAssumption DEF RefusePaused, TriggerTypeOK
<1>2. ASSUME NEW s \in Slots, TickOn(s)
      PROVE  /\ UNCHANGED <<asked, captures, runs, answer, ownRun, begunAt, lost>>
             /\ request' \in [Slots -> 0 .. MaxRequests]
  <2>1. request' = [request EXCEPT ![s] = IF pc'[s] = "idle" THEN 0 ELSE @]
    BY <1>2 DEF TickOn
  <2>2. request' \in [Slots -> 0 .. MaxRequests]
    BY <2>1, RequestsAssumption DEF TriggerTypeOK
  <2> QED
    BY <1>2, <2>2 DEF TickOn
<1>3. CASE ClientStep \/ UNCHANGED triggerVars
  BY <1>3 DEF ClientStep, captureVars, triggerVars, TriggerTypeOK
<1> QED
  BY <1>1, <1>2, <1>3

\* The variables of the trigger endpoints keep their types.
LEMMA TriggerTypeStep ==
  ASSUME TriggerTypeOK, AnsweredLeft, [TriggerNext]_triggerVars
  PROVE  TriggerTypeOK'
<1>1. ASSUME NEW s \in Slots, NEW l \in Loops, Trigger(s, l) PROVE TriggerTypeOK'
  <2>1. UNCHANGED <<runs, answer, ownRun, lost>>
    BY <1>1 DEF Trigger
  <2>2. asked' \in 0 .. MaxRequests /\ lost' \in 0 .. asked'
    BY <1>1, <2>1, Queued DEF TriggerTypeOK, Requests
  <2>3. runs' \in Nat /\ answer' \in [Requests -> Nat] /\ ownRun' \in [Requests -> Nat]
    BY <2>1 DEF TriggerTypeOK
  <2> QED
    BY <1>1, <2>2, <2>3, Queued DEF TriggerTypeOK
<1>2. ASSUME NEW s \in Slots, Begin(s) PROVE TriggerTypeOK'
  <2>1. UNCHANGED <<asked, request, begunAt, lost>> /\ runs' = runs + 1
    BY <1>2 DEF Begin
  <2>2. ownRun' \in [Requests -> Nat] /\ runs' \in Nat
    <3>1. runs' \in Nat /\ ownRun \in [Requests -> Nat]
      BY <2>1 DEF TriggerTypeOK
    <3>2. ownRun' = [ownRun EXCEPT ![request[s]] = runs']
      BY <1>2 DEF Begin
    <3> QED
      BY <3>1, <3>2
  <2>3. captures' \in Seq(Requests) /\ answer' \in [Requests -> Nat]
    <3>1. CASE captures = <<>>
      BY <1>2, <3>1 DEF Begin, TriggerTypeOK
    <3>2. CASE captures # <<>>
      BY <1>2, <3>2, Served
    <3> QED
      BY <3>1, <3>2
  <2> QED
    BY <2>1, <2>2, <2>3 DEF TriggerTypeOK
<1>3. CASE DiesWithCaptures
  BY <1>3, RequestsAssumption DEF DiesWithCaptures, TriggerTypeOK
<1>4. CASE \/ \E s \in Slots : RefusePaused(s) \/ TickOn(s)
           \/ ClientStep \/ UNCHANGED triggerVars
  BY <1>4, QuietSteps DEF TriggerTypeOK
<1> QED
  BY <1>1, <1>2, <1>3, <1>4 DEF TriggerNext

\* The queue stays in order: requests join at its end and leave at its head.
LEMMA QueueStep ==
  ASSUME TriggerTypeOK, AnsweredLeft, QueueInOrder, [TriggerNext]_triggerVars
  PROVE  QueueInOrder'
<1>1. ASSUME NEW s \in Slots, NEW l \in Loops, Trigger(s, l) PROVE QueueInOrder'
  <2>1. lost' = lost /\ lost \in 0 .. asked /\ asked \in Nat
    BY <1>1 DEF Trigger, TriggerTypeOK
  <2>2. \A i \in 1 .. Len(captures) :
          captures[i] \in Nat /\ lost < captures[i] /\ captures[i] <= asked
    BY QueueType DEF QueueInOrder
  <2>5. /\ asked' = asked + 1
        /\ Len(captures) \in Nat /\ Len(captures') = Len(captures) + 1
        /\ \A i \in 1 .. Len(captures) : captures'[i] = captures[i]
        /\ captures'[Len(captures) + 1] = asked + 1
    BY <1>1, Queued
  <2>3. \A i \in 1 .. Len(captures') : lost' < captures'[i] /\ captures'[i] <= asked'
    BY <2>1, <2>2, <2>5
  <2>4. \A i, j \in 1 .. Len(captures') : i < j => captures'[i] < captures'[j]
    BY <2>1, <2>2, <2>5, SMTT(30) DEF QueueInOrder
  <2> QED
    BY <2>3, <2>4 DEF QueueInOrder
<1>2. ASSUME NEW s \in Slots, Begin(s) PROVE QueueInOrder'
  <2>1. UNCHANGED <<lost, asked>>
    BY <1>2 DEF Begin
  <2>2. CASE captures = <<>>
    BY <1>2, <2>1, <2>2 DEF Begin, QueueInOrder
  <2>3. CASE captures # <<>>
    <3>1. /\ Len(captures) \in Nat \ {0} /\ Len(captures') = Len(captures) - 1
          /\ \A i \in 1 .. Len(captures') : captures'[i] = captures[i + 1]
      BY <1>2, <2>3, Served
    <3>2. \A i \in 1 .. Len(captures') : i + 1 \in 1 .. Len(captures)
      BY <3>1
    <3>3. \A i, j \in 1 .. Len(captures') : i < j => i + 1 < j + 1
      BY <3>1
    <3> QED
      BY <2>1, <3>1, <3>2, <3>3 DEF QueueInOrder
  <2> QED
    BY <2>2, <2>3
<1>3. CASE DiesWithCaptures
  BY <1>3 DEF DiesWithCaptures, QueueInOrder
<1>4. CASE \/ \E s \in Slots : RefusePaused(s) \/ TickOn(s)
           \/ ClientStep \/ UNCHANGED triggerVars
  BY <1>4, QuietSteps DEF QueueInOrder
<1> QED
  BY <1>1, <1>2, <1>3, <1>4 DEF TriggerNext

\* Who leaves the queue answered came before everyone left in it.
LEMMA LeftStep ==
  ASSUME TriggerTypeOK, AnsweredLeft, QueueInOrder, AnswersAreRuns,
         [TriggerNext]_triggerVars
  PROVE  AnsweredLeft'
<1>1. ASSUME NEW s \in Slots, NEW l \in Loops, Trigger(s, l) PROVE AnsweredLeft'
  <2>1. answer' = answer /\ asked \in Nat
    BY <1>1 DEF Trigger, TriggerTypeOK
  <2>2. \A q \in Requests : Answered(q) => q < asked + 1
    BY <2>1 DEF AnswersAreRuns, Requests
  <2>3. ~Answered(asked + 1)
    BY <1>1, <2>1, <2>2, Queued
  <2>4. /\ Len(captures) \in Nat /\ Len(captures') = Len(captures) + 1
        /\ \A i \in 1 .. Len(captures) : captures'[i] = captures[i]
        /\ captures'[Len(captures) + 1] = asked + 1
    BY <1>1, Queued
  <2> QED
    BY <2>1, <2>2, <2>3, <2>4 DEF AnsweredLeft, Answered
<1>2. ASSUME NEW s \in Slots, Begin(s) PROVE AnsweredLeft'
  <2>2. CASE captures = <<>>
    BY <1>2, <2>2 DEF Begin, AnsweredLeft, Answered
  <2>3. CASE captures # <<>>
    <3>1. \A i \in 2 .. Len(captures) : captures[1] < captures[i]
      BY <1>2, <2>3, Served DEF QueueInOrder
    <3>2. \A i \in 2 .. Len(captures) : captures[i] # captures[1]
      BY <3>1, <1>2, <2>3, Served, ElementOfSeq DEF TriggerTypeOK, Requests
    <3>3. \A i \in 2 .. Len(captures) : captures[i] \in Requests
      BY ElementOfSeq DEF TriggerTypeOK
    <3>6. /\ Len(captures) \in Nat \ {0}
          /\ \A q \in Requests \ {captures[1]} : answer'[q] = answer[q]
      BY <1>2, <2>3, Served
    <3>4. ASSUME NEW i \in 2 .. Len(captures)
          PROVE  /\ answer'[captures[i]] = 0
                 /\ \A q \in Requests : answer'[q] # 0 => q < captures[i]
      <4>1. i \in 1 .. Len(captures)
        BY <3>6
      <4>2. answer'[captures[i]] = 0
        BY <4>1, <3>2, <3>3, <3>6 DEF AnsweredLeft, Answered
      <4>3. ASSUME NEW q \in Requests, answer'[q] # 0 PROVE q < captures[i]
        BY <4>1, <4>3, <3>1, <3>6 DEF AnsweredLeft, Answered
      <4> QED
        BY <4>2, <4>3
    <3>5. \A i \in 1 .. Len(captures') :
            i + 1 \in 2 .. Len(captures) /\ captures'[i] = captures[i + 1]
      BY <1>2, <2>3, Served
    <3> QED
      BY <3>4, <3>5 DEF AnsweredLeft, Answered
  <2> QED
    BY <2>2, <2>3
<1>3. CASE DiesWithCaptures
  BY <1>3 DEF DiesWithCaptures, AnsweredLeft
<1>4. CASE \/ \E s \in Slots : RefusePaused(s) \/ TickOn(s)
           \/ ClientStep \/ UNCHANGED triggerVars
  BY <1>4, QuietSteps DEF AnsweredLeft, Answered
<1> QED
  BY <1>1, <1>2, <1>3, <1>4 DEF TriggerNext

\* An answer given now is the run that begins now.
LEMMA RunsStep ==
  ASSUME TriggerTypeOK, AnsweredLeft, QueueInOrder, AnswersAreRuns,
         [TriggerNext]_triggerVars
  PROVE  AnswersAreRuns'
<1>0. asked \in Nat /\ runs \in Nat
  BY DEF TriggerTypeOK
<1>1. ASSUME NEW s \in Slots, NEW l \in Loops, Trigger(s, l) PROVE AnswersAreRuns'
  <2>1. UNCHANGED <<runs, answer>>
    BY <1>1 DEF Trigger
  <2> QED
    BY <1>0, <1>1, <2>1, Queued DEF AnswersAreRuns, Answered, Requests
<1>2. ASSUME NEW s \in Slots, Begin(s) PROVE AnswersAreRuns'
  <2>1. UNCHANGED <<asked, begunAt>> /\ runs' = runs + 1
    BY <1>2 DEF Begin
  <2>2. \A q \in Requests : answer[q] \in Nat /\ begunAt[q] \in Nat
    BY DEF TriggerTypeOK
  <2>3. CASE captures = <<>>
    BY <1>0, <1>2, <2>1, <2>2, <2>3 DEF Begin, AnswersAreRuns, Answered
  <2>4. CASE captures # <<>>
    <3>1. captures[1] \in Requests /\ captures[1] <= asked
      BY <1>2, <2>4, Served DEF QueueInOrder
    <3>2. begunAt[captures[1]] <= runs
      BY <3>1 DEF AnswersAreRuns
    <3> QED
      BY <1>0, <1>2, <2>1, <2>2, <2>4, <3>1, <3>2, Served, SMTT(30) DEF AnswersAreRuns, Answered
  <2> QED
    BY <2>3, <2>4
<1>3. CASE DiesWithCaptures
  BY <1>3 DEF DiesWithCaptures, AnswersAreRuns, Answered
<1>4. CASE \/ \E s \in Slots : RefusePaused(s) \/ TickOn(s)
           \/ ClientStep \/ UNCHANGED triggerVars
  BY <1>4, QuietSteps DEF AnswersAreRuns, Answered
<1> QED
  BY <1>1, <1>2, <1>3, <1>4 DEF TriggerNext

\* The request answered now came after all that were answered, and gets the last run.
LEMMA OrderStep ==
  ASSUME TriggerTypeOK, AnsweredLeft, QueueInOrder, AnswersAreRuns, AnswersInOrder,
         [TriggerNext]_triggerVars
  PROVE  AnswersInOrder'
<1>0. AnswersAreRuns'
  BY RunsStep
<1>1. SUFFICES ASSUME NEW p \in Requests, NEW q \in Requests, p < q,
                      answer'[p] # 0, answer'[q] # 0
               PROVE  answer'[p] < answer'[q]
  BY <1>0 DEF AnswersInOrder, AnswersAreRuns, Answered
<1>2. ASSUME NEW s \in Slots, Begin(s), captures # <<>> PROVE answer'[p] < answer'[q]
  <2>1. ~(p = captures[1])
    BY <1>1, <1>2, Served, SMTT(30) DEF AnsweredLeft, Answered, Requests
  <2>2. answer'[p] = answer[p]
    BY <1>2, <2>1, Served
  <2>3. CASE q = captures[1]
    <3>1. answer'[q] = runs + 1
      BY <1>2, <2>3, Served
    <3>2. answer[p] <= runs /\ answer[p] \in Nat /\ runs \in Nat
      BY <1>1, <2>2 DEF AnswersAreRuns, Answered, TriggerTypeOK
    <3> QED
      BY <2>2, <3>1, <3>2
  <2>4. CASE q # captures[1]
    BY <1>1, <1>2, <2>2, <2>4, Served DEF AnswersInOrder, Answered
  <2> QED
    BY <2>3, <2>4
<1>3. CASE UNCHANGED answer
  BY <1>1, <1>3 DEF AnswersInOrder, Answered
<1> QED
  BY <1>2, <1>3, QuietSteps DEF TriggerNext, Begin, Trigger, DiesWithCaptures

\* Requests are answered in the order they came, each with a run that began after it
\* was accepted (server.ts:140-151, 551-590).
THEOREM AnswersHold == TriggerSpec => []AnswersInOrder
<1> DEFINE QInv == /\ TriggerTypeOK /\ QueueInOrder /\ AnsweredLeft
                   /\ AnswersAreRuns /\ AnswersInOrder
<1>1. TriggerInit => QInv
  <2> SUFFICES ASSUME TriggerInit PROVE QInv
    OBVIOUS
  <2>1. captures = <<>> /\ asked = 0 /\ runs = 0 /\ lost = 0
    BY DEF TriggerInit
  <2>2. \A q \in Requests : answer[q] = 0 /\ begunAt[q] = 0
    BY DEF TriggerInit
  <2>3. TriggerTypeOK
    BY RequestsAssumption, EmptySeq DEF TriggerInit, TriggerTypeOK
  <2> QED
    BY <2>1, <2>2, <2>3
    DEF QueueInOrder, AnsweredLeft, AnswersAreRuns, AnswersInOrder, Answered, Requests
<1>2. QInv /\ [TriggerNext]_triggerVars => QInv'
  BY TriggerTypeStep, QueueStep, LeftStep, RunsStep, OrderStep
<1> QED
  BY <1>1, <1>2, PTL DEF TriggerSpec

-----------------------------------------------------------------------------
(* Who waits, and whose tick has not begun.  Answers go to the wrong request *)
(* when ticks are refused or overtake each other, but their number is right. *)

Waiting(l, a, own) == {q \in Requests : l < q /\ q <= a /\ own[q] = 0}

\* A tick that begins its run does so for a request that has none yet.
LEMMA Begins ==
  ASSUME TypeOK, TriggerTypeOK, UnbegunTicks, NEW s \in Slots, Begin(s)
  PROVE  /\ request[s] \in Requests /\ lost < request[s] /\ request[s] <= asked
         /\ ownRun[request[s]] = 0
         /\ ownRun'[request[s]] # 0
         /\ \A q \in Requests \ {request[s]} : ownRun'[q] = ownRun[q]
         /\ pc[s] = "session" /\ pc' = [pc EXCEPT ![s] = "running"]
         /\ UNCHANGED <<asked, request, lost>>
<1>1. /\ pc[s] = "session" /\ pc' = [pc EXCEPT ![s] = "running"]
      /\ ownRun' = [ownRun EXCEPT ![request[s]] = runs + 1]
      /\ UNCHANGED <<asked, request, lost>>
  BY DEF Begin, OpenSession
<1>2. /\ request[s] \in Requests /\ lost < request[s] /\ request[s] <= asked
      /\ ownRun[request[s]] = 0
  BY <1>1 DEF UnbegunTicks
<1>3. runs \in Nat /\ ownRun \in [Requests -> Nat]
  BY DEF TriggerTypeOK
<1> QED
  BY <1>1, <1>2, <1>3

\* Every tick not yet begun keeps a request to itself.
LEMMA UnbegunStep ==
  ASSUME TypeOK, TriggerTypeOK, UnbegunTicks, UnaskedHaveNoRun,
         [TriggerNext]_triggerVars
  PROVE  UnbegunTicks' /\ UnaskedHaveNoRun'
<1> DEFINE Early(stage) == stage \in {"fired", "session"}
<1>0. pc \in [Slots -> Stages] /\ asked \in Nat /\ lost \in Nat
  BY DEF TypeOK, TriggerTypeOK
<1>1. ASSUME NEW s \in Slots, NEW l \in Loops, Trigger(s, l)
      PROVE  UnbegunTicks' /\ UnaskedHaveNoRun'
  <2>1. /\ pc' = [pc EXCEPT ![s] = "fired"] /\ UNCHANGED <<ownRun, lost>>
    BY <1>1 DEF Trigger, Fire
  <2>2. /\ asked' \in Requests /\ asked' = asked + 1 /\ request'[s] = asked + 1
        /\ \A t \in Slots \ {s} : request'[t] = request[t]
    BY <1>1, Queued
  <2>3. lost \in 0 .. asked
    BY DEF TriggerTypeOK
  <2>4. \A t \in Slots \ {s} : pc'[t] = pc[t]
    BY <1>0, <2>1
  <2>5. ownRun[asked + 1] = 0
    BY <1>0, <2>2 DEF UnaskedHaveNoRun
  <2>6. \A t \in Slots : Early(pc'[t]) =>
          /\ request'[t] \in Requests
          /\ lost < request'[t] /\ request'[t] <= asked + 1
          /\ ownRun[request'[t]] = 0
          /\ t # s => request'[t] <= asked
    BY <1>0, <2>2, <2>3, <2>4, <2>5 DEF UnbegunTicks, Requests
  <2>7. \A t, u \in Slots : t # u /\ Early(pc'[t]) /\ Early(pc'[u])
                               => request'[t] # request'[u]
    BY <1>0, <2>2, <2>4, <2>6 DEF UnbegunTicks
  <2>8. UnaskedHaveNoRun'
    BY <1>0, <2>1, <2>2 DEF UnaskedHaveNoRun, Requests
  <2> QED
    BY <2>1, <2>2, <2>6, <2>7, <2>8 DEF UnbegunTicks
<1>2. ASSUME NEW s \in Slots, Begin(s) PROVE UnbegunTicks' /\ UnaskedHaveNoRun'
  <2>1. \A t \in Slots : Early(pc'[t]) => t # s /\ Early(pc[t])
    BY <1>0, <1>2, Begins
  <2>2. \A t \in Slots : Early(pc'[t]) =>
          request[t] \in Requests \ {request[s]} /\ ownRun'[request[t]] = 0
    BY <1>2, <2>1, Begins DEF UnbegunTicks
  <2>3. UnaskedHaveNoRun'
    BY <1>0, <1>2, Begins DEF UnaskedHaveNoRun, Requests
  <2> QED
    BY <1>2, <2>1, <2>2, <2>3, Begins DEF UnbegunTicks
<1>3. CASE DiesWithCaptures
  BY <1>3 DEF DiesWithCaptures, Crash, UnbegunTicks, UnaskedHaveNoRun
<1>4. ASSUME /\ UNCHANGED <<asked, ownRun, lost>>
             /\ \A t \in Slots : Early(pc'[t]) => Early(pc[t]) /\ request'[t] = request[t]
      PROVE  UnbegunTicks' /\ UnaskedHaveNoRun'
  BY <1>4 DEF UnbegunTicks, UnaskedHaveNoRun
<1>5. ASSUME NEW s \in Slots, RefusePaused(s) \/ TickOn(s)
      PROVE  UnbegunTicks' /\ UnaskedHaveNoRun'
  <2>1. UNCHANGED <<asked, ownRun, lost>>
    BY <1>5, QuietSteps
  <2>2. request \in [Slots -> 0 .. MaxRequests]
    BY DEF TriggerTypeOK
  <2>3. CASE RefusePaused(s)
    BY <1>0, <1>4, <2>1, <2>2, <2>3 DEF RefusePaused, Refuse, Leave
  <2>4. CASE TickOn(s)
    <3>1. request' = [request EXCEPT ![s] = IF pc'[s] = "idle" THEN 0 ELSE @]
      BY <2>4 DEF TickOn
    <3>2. CASE Load(s)
      BY <1>0, <1>4, <2>1, <2>2, <3>1, <3>2 DEF Load
    <3>3. CASE \/ \E r \in Result : RunEnds(s, r)
               \/ StampLastRun(s) \/ SettleCompleted(s) \/ SettlePaused(s)
               \/ SettleCounted(s) \/ NotifyPaused(s)
      <4>1. \E st \in Stages \ {"fired", "session"} : pc' = [pc EXCEPT ![s] = st]
        BY <3>3 DEF RunEnds, StampLastRun, SettleCompleted, SettlePaused,
                    SettleCounted, NotifyPaused, Leave, Stages
      <4> QED
        BY <1>0, <1>4, <2>1, <2>2, <3>1, <4>1
    <3> QED
      BY <2>4, <3>2, <3>3 DEF TickOn
  <2> QED
    BY <1>5, <2>3, <2>4
<1>6. CASE ClientStep \/ UNCHANGED triggerVars
  BY <1>4, <1>6
  DEF ClientStep, Upsert, Resume, captureVars, triggerVars, vars, ticks
<1> QED
  BY <1>1, <1>2, <1>3, <1>5, <1>6 DEF TriggerNext

\* The set of requests whose tick has not begun is finite.
LEMMA WaitingFinite ==
  ASSUME NEW l, NEW a, NEW own
  PROVE  IsFiniteSet(Waiting(l, a, own)) /\ Cardinality(Waiting(l, a, own)) \in Nat
<1>1. IsFiniteSet(Requests)
  BY RequestsAssumption, FS_Interval DEF Requests
<1>2. Waiting(l, a, own) \in SUBSET Requests
  BY DEF Waiting
<1>3. IsFiniteSet(Waiting(l, a, own))
  BY <1>1, <1>2, FS_Subset
<1> QED
  BY <1>3, FS_CardinalityType

\* A step adds or removes as many captures as requests without a run.
LEMMA WaitingStep ==
  ASSUME TypeOK, TriggerInv, WaitingMatchesTicks, [TriggerNext]_triggerVars
  PROVE  WaitingMatchesTicks'
<1> USE DEF TriggerInv
<1> DEFINE W == Waiting(lost, asked, ownRun)
<1>0. Len(captures) = Cardinality(W)
  BY DEF WaitingMatchesTicks, Waiting
<1>1. SUFFICES Len(captures') = Cardinality(Waiting(lost', asked', ownRun'))
  BY DEF WaitingMatchesTicks, Waiting
<1>2. IsFiniteSet(W) /\ Cardinality(W) \in Nat
  BY WaitingFinite
<1>3. ASSUME NEW s \in Slots, NEW l \in Loops, Trigger(s, l)
      PROVE  Len(captures') = Cardinality(Waiting(lost', asked', ownRun'))
  <2>1. /\ asked + 1 \in Requests /\ asked' = asked + 1
        /\ Len(captures') = Len(captures) + 1
    BY <1>3, Queued
  <2>2. UNCHANGED <<lost, ownRun>> /\ lost \in 0 .. asked /\ asked \in Nat
    BY <1>3 DEF Trigger, TriggerTypeOK
  <2>3. ownRun[asked + 1] = 0
    BY <2>1, <2>2 DEF UnaskedHaveNoRun
  <2>4. Waiting(lost', asked', ownRun') = W \cup {asked + 1}
    BY <2>1, <2>2, <2>3 DEF Waiting, Requests
  <2>5. asked + 1 \notin W
    BY <2>2 DEF Waiting
  <2> QED
    BY <1>0, <1>2, <2>1, <2>4, <2>5, FS_AddElement
<1>4. ASSUME NEW s \in Slots, Begin(s)
      PROVE  Len(captures') = Cardinality(Waiting(lost', asked', ownRun'))
  <2>1. /\ request[s] \in Requests /\ lost < request[s] /\ request[s] <= asked
        /\ ownRun[request[s]] = 0 /\ ownRun'[request[s]] # 0
        /\ \A q \in Requests \ {request[s]} : ownRun'[q] = ownRun[q]
        /\ UNCHANGED <<asked, lost>>
    BY <1>4, Begins
  <2>2. request[s] \in W
    BY <2>1 DEF Waiting
  <2>3. Waiting(lost', asked', ownRun') = W \ {request[s]}
    BY <2>1 DEF Waiting
  <2>4. Cardinality(W \ {request[s]}) = Cardinality(W) - 1
    BY <1>2, <2>2, FS_RemoveElement
  <2>5. captures # <<>>
    <3>1. Cardinality(W) # 0
      BY <1>2, <2>2, FS_EmptySet
    <3> QED
      BY <1>0, <3>1, EmptySeq
  <2>6. Len(captures') = Len(captures) - 1
    BY <1>4, <2>5, Served
  <2> QED
    BY <1>0, <2>3, <2>4, <2>6
<1>5. CASE DiesWithCaptures
  <2>1. lost' = asked /\ asked' = asked /\ captures' = <<>> /\ asked \in Nat
    BY <1>5 DEF DiesWithCaptures, TriggerTypeOK
  <2>2. Waiting(lost', asked', ownRun') = {}
    BY <2>1 DEF Waiting, Requests
  <2> QED
    BY <2>1, <2>2, FS_EmptySet, EmptySeq
<1>6. CASE \/ \E s \in Slots : RefusePaused(s) \/ TickOn(s)
           \/ ClientStep \/ UNCHANGED triggerVars
  BY <1>0, <1>6, QuietSteps
<1> QED
  BY <1>3, <1>4, <1>5, <1>6 DEF TriggerNext

\* The counts agree at every moment: one run answers one request, never none and
\* never two, though not always the request that fired it (server.ts:140-151).
THEOREM WaitingHolds == TriggerSpec => []WaitingMatchesTicks
<1>1. TriggerInit => TriggerInv /\ WaitingMatchesTicks
  <2> SUFFICES ASSUME TriggerInit PROVE TriggerInv /\ WaitingMatchesTicks
    OBVIOUS
  <2>1. captures = <<>> /\ asked = 0 /\ runs = 0 /\ lost = 0
    BY DEF TriggerInit
  <2>2. \A q \in Requests : answer[q] = 0 /\ begunAt[q] = 0 /\ ownRun[q] = 0
    BY DEF TriggerInit
  <2>3. \A s \in Slots : pc[s] = "idle"
    BY DEF TriggerInit, Init
  <2>4. TriggerTypeOK
    BY RequestsAssumption, EmptySeq DEF TriggerInit, TriggerTypeOK
  <2>5. TriggerInv
    BY <2>1, <2>2, <2>3, <2>4
    DEF TriggerInv, QueueInOrder, AnsweredLeft, AnswersAreRuns, UnbegunTicks,
        UnaskedHaveNoRun, Answered, Requests
  <2>6. {q \in Requests : lost < q /\ q <= asked /\ ownRun[q] = 0} = {}
    BY <2>1 DEF Requests
  <2> QED
    BY <2>1, <2>5, <2>6, FS_EmptySet, EmptySeq DEF WaitingMatchesTicks
<1>2. TypeOK /\ TriggerInv /\ WaitingMatchesTicks /\ [TriggerNext]_triggerVars
        => TriggerInv' /\ WaitingMatchesTicks'
  BY TriggerTypeStep, QueueStep, LeftStep, RunsStep, UnbegunStep, WaitingStep
  DEF TriggerInv
<1> QED
  BY <1>1, <1>2, TypeCorrect, TriggerImplementsRunner, PTL DEF TriggerSpec

-----------------------------------------------------------------------------
(* The scheduler fires several ticks in one step and then leaves them alone. *)

\* A sweep puts some idle slots to work and touches nothing else of the runner.
LEMMA SweepFires ==
  ASSUME TypeOK, Sweep
  PROVE  /\ pc' \in [Slots -> Stages] /\ DOMAIN loop' = Slots
         /\ \A s \in Slots : \/ pc'[s] = pc[s] /\ loop'[s] = loop[s]
                             \/ /\ pc[s] = "idle" /\ pc'[s] = "fired"
                                /\ loop'[s] \in known
         /\ UNCHANGED <<known, spec, state, snap, res, now, crashes, posted, told>>
<1> DEFINE firedIn(f, s) == CHOOSE l \in SweptLoops : f[l] = s
<1>1. PICK f \in Injection(SweptLoops, {s \in Slots : pc[s] = "idle"}) :
        /\ pc' = [s \in Slots |-> IF s \in Range(f) THEN "fired" ELSE pc[s]]
        /\ loop' = [s \in Slots |-> IF s \in Range(f) THEN firedIn(f, s) ELSE loop[s]]
  BY DEF Sweep
<1>2. f \in [SweptLoops -> {s \in Slots : pc[s] = "idle"}]
  BY DEF Injection, IsInjective
<1>3. ASSUME NEW s \in Range(f)
      PROVE  pc[s] = "idle" /\ firedIn(f, s) \in known
  <2>1. PICK l \in SweptLoops : f[l] = s
    BY <1>2 DEF Range
  <2>2. firedIn(f, s) \in SweptLoops
    BY <2>1
  <2> QED
    BY <1>2, <2>1, <2>2 DEF SweptLoops, DueLoops
<1>4. pc' \in [Slots -> Stages] /\ DOMAIN loop' = Slots
  BY <1>1 DEF TypeOK, Stages
<1> QED
  BY <1>1, <1>3, <1>4 DEF Sweep, store, history

\* Every step of the scheduler is a sweep, the death of a sweep that threw, or a step of
\* the runner's contract.
LEMMA SchedSteps ==
  ASSUME [SchedNext]_schedVars PROVE Sweep \/ DieOfSweep \/ [Next]_vars
BY SpecsOfAssumption
DEF SchedNext, Start, Stop, CrashStopsTimer, AdvanceToSweep, RunnerStep, schedVars, vars,
    Next

ContractInv ==
  /\ TypeOK
  /\ SpecsArePosted
  /\ RunningBelowThreshold
  /\ ReasonExplainsPause
  /\ PausedIsTold

\* Nor does a sweep break what the runner keeps.
LEMMA SweepKeepsContract == ASSUME ContractInv, Sweep PROVE ContractInv'
<1> USE DEF ContractInv
<1>1. TypeOK'
  BY SweepFires DEF TypeOK
<1>2. SpecsArePosted'
  BY SweepFires DEF SpecsArePosted
<1>3. RunningBelowThreshold' /\ ReasonExplainsPause'
  BY SweepFires DEF RunningBelowThreshold, ReasonExplainsPause
<1>4. PausedIsTold'
  BY SweepFires DEF PausedIsTold
<1> QED
  BY <1>1, <1>2, <1>3, <1>4

\* A process that a sweep ends loses its ticks and nothing of what is stored; none of
\* them was about to notify.
LEMMA DieKeepsContract == ASSUME ContractInv, DieOfSweep PROVE ContractInv'
<1> USE DEF ContractInv
<1>1. /\ pc' = [s \in Slots |-> "idle"] /\ loop' = [s \in Slots |-> None]
      /\ snap' = [s \in Slots |-> None] /\ res' = [s \in Slots |-> None]
      /\ UNCHANGED <<known, spec, state, now, crashes, posted, told>>
      /\ \A s \in Slots : pc[s] # "notify"
  BY DEF DieOfSweep, MicrotasksDrained, store, history
<1>2. TypeOK'
  BY <1>1 DEF TypeOK, Stages
<1>3. SpecsArePosted'
  BY <1>1 DEF SpecsArePosted
<1>4. RunningBelowThreshold' /\ ReasonExplainsPause'
  BY <1>1 DEF RunningBelowThreshold, ReasonExplainsPause
<1>5. PausedIsTold'
  BY <1>1 DEF PausedIsTold
<1> QED
  BY <1>2, <1>3, <1>4, <1>5

\* Loops that the scheduler fires keep the runner's contract: its thresholds, its pause
\* reasons and its notifications (scheduler.ts:62-83, loopRunner.ts:38-124).
THEOREM SchedulerKeepsContract == SchedSpec => []ContractInv
<1>1. SchedInit => ContractInv
  <2>1. Init => TypeOK
    BY DefaultStateType, BoundsAssumption DEF Init, TypeOK, Stages
  <2>2. Init => /\ SpecsArePosted /\ RunningBelowThreshold
                /\ ReasonExplainsPause /\ PausedIsTold
    BY DEF Init, SpecsArePosted, RunningBelowThreshold, ReasonExplainsPause,
           PausedIsTold, DefaultState
  <2> QED
    BY <2>1, <2>2 DEF SchedInit, ContractInv
<1>2. ContractInv /\ [SchedNext]_schedVars => ContractInv'
  <2> SUFFICES ASSUME ContractInv, [SchedNext]_schedVars PROVE ContractInv'
    OBVIOUS
  <2>1. CASE Sweep
    BY <2>1, SweepKeepsContract
  <2>2. CASE [Next]_vars
    BY <2>2, TypeStep, SpecsStayPosted, ThresholdStep, ReasonStep, ToldStep
    DEF ContractInv, ThresholdInv
  <2>3. CASE DieOfSweep
    BY <2>3, DieKeepsContract
  <2> QED
    BY <2>1, <2>2, <2>3, SchedSteps
<1> QED
  BY <1>1, <1>2, PTL DEF SchedSpec

-----------------------------------------------------------------------------
(* Minutes and due times. *)

\* No loop's last run lies in the future.
LastRunIsPast == \A l \in Loops : state[l].lastRunAt <= now

\* The timer has fired within tickMs and its greatest lateness.
TimerIsKept ==
  lastSweep # Unset => /\ lastSweep \in Nat
                       /\ lastSweep <= now /\ now <= lastSweep + TickMs + MaxLate

\* The loop's cron expression matches the minute it is now.
Scheduled(l) ==
  /\ spec[l].mode # "one-shot"
  /\ spec[l].trigger.kind = "cron"
  /\ CronMatches(spec[l].trigger.expr, now)

FiredInMinute(l) == Minute(now) \in {Minute(firedAt[l]), Minute(state[l].lastRunAt)}

\* A loop that is settled is runnable, and once this minute's sweep is over it has been
\* fired in this minute if its expression matches it.
SettledIsFired ==
  \A l \in settled :
    /\ l \in Loops /\ Eligible(l)
    /\ Minute(lastSweep) = Minute(now) /\ Scheduled(l) => FiredInMinute(l)

SchedInv == LastRunIsPast /\ TimerIsKept /\ SettledIsFired

\* The minute of an instant: the instants of a minute lie between its first and the
\* first of the next.
LEMMA MinuteBounds ==
  ASSUME NEW t \in Nat
  PROVE  /\ Minute(t) \in Nat
         /\ MinuteMs * Minute(t) <= t
         /\ t < MinuteMs * Minute(t) + MinuteMs
<1>1. MinuteMs \in Nat \ {0} /\ t # Never
  BY TickAssumption DEF Never
<1> QED
  BY <1>1 DEF Minute

\* A later minute starts at least a minute later.
LEMMA MinutesApart ==
  ASSUME NEW a \in Int, NEW b \in Int, a < b
  PROVE  MinuteMs * a + MinuteMs <= MinuteMs * b
<1>1. MinuteMs \in Nat
  BY TickAssumption
<1> QED
  BY <1>1

\* Minutes go with instants.
LEMMA MinuteMonotone ==
  ASSUME NEW t \in Nat, NEW u \in Nat, t <= u PROVE Minute(t) <= Minute(u)
<1>1. MinuteMs \in Nat \ {0}
  BY TickAssumption
<1>2. ASSUME Minute(u) < Minute(t) PROVE FALSE
  <2>1. MinuteMs * Minute(u) + MinuteMs <= MinuteMs * Minute(t)
    BY <1>2, MinuteBounds, MinutesApart
  <2>2. MinuteMs * Minute(u) \in Int /\ MinuteMs * Minute(t) \in Int
    BY <1>1, MinuteBounds
  <2> QED
    BY <1>1, <2>1, <2>2, MinuteBounds
<1> QED
  BY <1>2, MinuteBounds

\* A minute starts in itself.
LEMMA MinuteStart ==
  ASSUME NEW m \in Nat
  PROVE  MinuteMs * m \in Nat /\ Minute(MinuteMs * m) = m
<1>1. MinuteMs \in Nat \ {0}
  BY TickAssumption
<1>2. MinuteMs * m \in Nat
  BY <1>1
<1> DEFINE k == Minute(MinuteMs * m)
<1>3. k \in Nat /\ MinuteMs * k <= MinuteMs * m /\ MinuteMs * m < MinuteMs * k + MinuteMs
  BY <1>2, MinuteBounds
<1> HIDE DEF k
<1>4. MinuteMs * k \in Nat
  BY <1>1, <1>3
<1>5. ~(k < m)
  BY <1>1, <1>2, <1>3, <1>4, MinutesApart
<1>6. ~(m < k)
  BY <1>1, <1>2, <1>3, <1>4, MinutesApart
<1> QED
  BY <1>2, <1>3, <1>5, <1>6 DEF k

\* A set of minutes that is not empty has a first.
LEMMA FirstMinute ==
  ASSUME NEW S \in SUBSET Nat, S # {}
  PROVE  Min(S) \in S /\ \A m \in S : Min(S) <= m
<1> DEFINE R == OpToRel(<, Nat)
<1>1. \A x, y \in Nat : <<y, x>> \in R <=> y < x
  BY DEF OpToRel
<1>2. IsWellFoundedOn(R, Nat)
  BY NatLessThanWellFounded
<1> HIDE DEF R
<1>3. PICK x \in S : \A y \in S : ~(<<y, x>> \in R)
  BY <1>2, WFMin, Zenon
<1>4. ASSUME NEW y \in S PROVE x <= y
  <2>1. x \in Nat /\ y \in Nat
    OBVIOUS
  <2>2. ~(y < x)
    BY <1>1, <1>3, <2>1
  <2> QED
    BY <2>1, <2>2
<1> QED
  BY <1>4 DEF Min

\* The later of two instants.
LEMMA Later ==
  ASSUME NEW a \in Int, NEW b \in Int
  PROVE  Max({a, b}) = IF a >= b THEN a ELSE b
<1>1. \E x \in {a, b} : \A y \in {a, b} : x >= y
  OBVIOUS
<1>2. Max({a, b}) \in {a, b} /\ \A y \in {a, b} : Max({a, b}) >= y
  BY <1>1 DEF Max
<1> QED
  BY <1>2

-----------------------------------------------------------------------------
(* What nextFireMs promises. *)

\* A tick stamps the time it is; no other write moves a known loop's last run.
LEMMA LastRunChanges ==
  ASSUME TypeOK, SpecsArePosted, [Next]_vars, NEW l \in Loops
  PROVE  \/ state'[l].lastRunAt = state[l].lastRunAt
         \/ state'[l].lastRunAt = now /\ now' = now
         \/ state'[l].lastRunAt = Never /\ l \notin known
<1> DEFINE G == \/ state'[l].lastRunAt = state[l].lastRunAt
                \/ state'[l].lastRunAt = now /\ now' = now
                \/ state'[l].lastRunAt = Never /\ l \notin known
<1> SUFFICES G
  OBVIOUS
<1>0. state \in [Loops -> LoopState]
  BY DEF TypeOK
<1>1. ASSUME NEW k \in Loops, NEW sp \in LoopSpecs, Upsert(k, sp) PROVE G
  BY <1>0, <1>1 DEF Upsert, DefaultState
<1>2. ASSUME NEW k \in Loops, Resume(k) PROVE G
  BY <1>0, <1>2 DEF Resume, Resumed, LoopState
<1>3. ASSUME NEW s \in Slots, StampLastRun(s) PROVE G
  BY <1>0, <1>3 DEF StampLastRun, Stamped, LoopState
<1>4. ASSUME NEW s \in Slots, SettleCompleted(s) PROVE G
  BY <1>0, <1>4 DEF SettleCompleted, Succeeded, LoopState
<1>5. ASSUME NEW s \in Slots, SettlePaused(s) PROVE G
  BY <1>0, <1>5 DEF SettlePaused, Paused, LoopState
<1>6. ASSUME NEW s \in Slots, SettleCounted(s) PROVE G
  BY <1>0, <1>6 DEF SettleCounted, Counted, LoopState
<1>7. CASE UNCHANGED state
  BY <1>7
<1> QED
  BY <1>1, <1>2, <1>3, <1>4, <1>5, <1>6, <1>7
  DEF Next, CreateFromSession, TickStep, Refuse, Load, OpenSession, SessionFails, RunEnds,
      NotifyPaused, Fire, Crash, Advance, vars, store

\* The clock only advances.
LEMMA ClockAdvances == ASSUME TypeOK, [Next]_vars PROVE now \in Nat /\ now' \in {now, now + 1}
<1>1. now \in Nat
  BY BoundsAssumption DEF TypeOK
<1>2. now' \in {now, now + 1}
  BY <1>1 DEF Next, Upsert, CreateFromSession, Resume, Fire, TickStep, Refuse, Load,
     OpenSession, SessionFails, RunEnds, StampLastRun, SettleCompleted, SettlePaused,
     SettleCounted, NotifyPaused, Crash, Advance, vars
<1> QED
  BY <1>1, <1>2

\* So no last run is ever in the future.
LEMMA LastRunStep ==
  ASSUME ContractInv, LastRunIsPast, [SchedNext]_schedVars PROVE LastRunIsPast'
<1>1. TypeOK /\ SpecsArePosted /\ now \in Nat
  BY BoundsAssumption DEF ContractInv, TypeOK
<1>2. CASE Sweep
  BY <1>1, <1>2, SweepFires DEF LastRunIsPast
<1>4. CASE DieOfSweep
  BY <1>4 DEF DieOfSweep, store, LastRunIsPast
<1>3. CASE [Next]_vars
  <2> SUFFICES ASSUME NEW l \in Loops PROVE state'[l].lastRunAt <= now'
    BY DEF LastRunIsPast
  <2>1. state[l].lastRunAt \in Nat \cup {Never} /\ state[l].lastRunAt <= now
    BY <1>1 DEF TypeOK, LoopState, LastRunIsPast
  <2>2. now' \in {now, now + 1}
    BY <1>1, <1>3, ClockAdvances
  <2> QED
    BY <1>1, <1>3, <2>1, <2>2, LastRunChanges DEF Never
<1> QED
  BY <1>2, <1>3, <1>4, SchedSteps

\* What is said of an interval's next time.
LEMMA IntervalIsDue ==
  ASSUME TypeOK, NEW l \in known, HasNextFire(l), spec[l].trigger.kind = "interval",
         NEW t \in Int
  PROVE  /\ NextFire(spec[l].trigger, state[l].lastRunAt, now) \in Int
         /\ IsDue(spec[l], state[l], t)
              <=> t >= NextFire(spec[l].trigger, state[l].lastRunAt, now)
<1>1. /\ spec[l] \in LoopSpecs /\ spec[l].mode # "one-shot"
      /\ state[l].lastRunAt # Never /\ state[l].lastRunAt \in Int
  BY DEF TypeOK, HasNextFire, LoopState
<1>2. spec[l].trigger.everyMs \in Int
  BY <1>1, TriggersAssumption
<1> DEFINE next == state[l].lastRunAt + spec[l].trigger.everyMs
<1>3. NextFire(spec[l].trigger, state[l].lastRunAt, now) = next
  BY <1>1 DEF NextFire
<1>4. IsDue(spec[l], state[l], t) <=> t - state[l].lastRunAt >= spec[l].trigger.everyMs
  BY <1>1 DEF IsDue
<1> QED
  BY <1>1, <1>2, <1>3, <1>4

\* What is said of a cron expression's next time: the start of its next minute.
LEMMA CronIsDue ==
  ASSUME TypeOK, LastRunIsPast, NEW l \in known, HasNextFire(l),
         spec[l].trigger.kind = "cron"
  PROVE  LET next == NextFire(spec[l].trigger, state[l].lastRunAt, now)
         IN  /\ next \in Nat /\ next > now
             /\ IsDue(spec[l], state[l], next)
             /\ \A t \in now .. next - 1 :
                  IsDue(spec[l], state[l], t) => Minute(t) = Minute(now)
<1> DEFINE tr == spec[l].trigger
           S == Upcoming(tr.expr, now)
           m0 == Min(S)
           next == NextFire(tr, state[l].lastRunAt, now)
<1>1. /\ spec[l] \in LoopSpecs /\ spec[l].mode # "one-shot" /\ l \in Loops
      /\ tr.expr # BadExpr /\ S # {} /\ now \in Nat
  BY BoundsAssumption DEF TypeOK, HasNextFire
<1>2. S \in SUBSET Nat
  BY <1>1, TriggersAssumption DEF Upcoming
<1>3. m0 \in S /\ \A m \in S : m0 <= m
  BY <1>1, <1>2, FirstMinute
<1>4. next = MinuteMs * m0
  BY DEF NextFire
<1>5. /\ m0 \in Nat /\ m0 \in tr.expr /\ Minute(now) < m0 /\ Minute(now) \in Nat
      /\ m0 <= Minute(now) + ScanMinutes /\ ScanMinutes \in Nat
  BY <1>1, <1>2, <1>3, MinuteBounds, TickAssumption DEF Upcoming
<1> HIDE DEF S, m0, next
<1>6. next \in Nat /\ Minute(next) = m0
  BY <1>4, <1>5, MinuteStart
<1>7. next > now
  <2>1. MinuteMs * Minute(now) + MinuteMs <= next
    BY <1>4, <1>5, MinutesApart
  <2>2. now < MinuteMs * Minute(now) + MinuteMs
    BY <1>1, MinuteBounds
  <2>3. MinuteMs * Minute(now) + MinuteMs \in Int
    BY <1>5, TickAssumption
  <2> QED
    BY <1>1, <1>6, <2>1, <2>2, <2>3
<1>8. Minute(state[l].lastRunAt) < m0
  <2>1. state[l].lastRunAt \in Nat \cup {Never} /\ state[l].lastRunAt <= now
    BY <1>1 DEF TypeOK, LoopState, LastRunIsPast
  <2>2. CASE state[l].lastRunAt = Never
    BY <1>5, <2>2 DEF Minute
  <2>3. CASE state[l].lastRunAt \in Nat
    <3>1. Minute(state[l].lastRunAt) <= Minute(now) /\ Minute(state[l].lastRunAt) \in Nat
      BY <1>1, <2>1, <2>3, MinuteMonotone, MinuteBounds
    <3> QED
      BY <1>5, <3>1
  <2> QED
    BY <2>1, <2>2, <2>3
<1>9. IsDue(spec[l], state[l], next)
  BY <1>1, <1>5, <1>6, <1>8 DEF IsDue, CronMatches
<1>10. ASSUME NEW t \in now .. next - 1, IsDue(spec[l], state[l], t)
       PROVE  Minute(t) = Minute(now)
  <2>1. t \in Nat /\ now <= t /\ t < next
    BY <1>1, <1>6
  <2>2. Minute(t) \in tr.expr
    BY <1>10, <1>1 DEF IsDue, CronMatches
  <2>3. Minute(now) <= Minute(t) /\ Minute(t) \in Nat
    BY <1>1, <2>1, MinuteMonotone, MinuteBounds
  <2>4. Minute(t) < m0
    <3>1. ASSUME m0 <= Minute(t) PROVE FALSE
      <4>1. MinuteMs * Minute(t) <= t
        BY <2>1, MinuteBounds
      <4>2. MinuteMs * m0 <= MinuteMs * Minute(t)
        BY <1>5, <2>3, <3>1, TickAssumption
      <4>3. MinuteMs * Minute(t) \in Int
        BY <2>3, TickAssumption
      <4> QED
        BY <1>4, <1>6, <2>1, <4>1, <4>2, <4>3
    <3> QED
      BY <1>5, <2>3, <3>1
  <2>5. ~(Minute(t) > Minute(now))
    BY <1>3, <1>5, <2>2, <2>3, <2>4 DEF S, Upcoming
  <2> QED
    BY <1>5, <2>3, <2>5
<1> QED
  BY <1>6, <1>7, <1>9, <1>10 DEF next

\* The sweep and nextFireMs agree whenever no last run lies in the future.
LEMMA NextFireAgrees == ASSUME TypeOK, LastRunIsPast PROVE NextFireIsDue
<1> SUFFICES ASSUME NEW l \in known, HasNextFire(l)
             PROVE  LET next == NextFire(spec[l].trigger, state[l].lastRunAt, now)
                    IN  /\ IsDue(spec[l], state[l], Max({next, now}))
                        /\ \A t \in now .. next - 1 :
                             IsDue(spec[l], state[l], t) => Minute(t) = Minute(now)
  BY DEF NextFireIsDue
<1> DEFINE next == NextFire(spec[l].trigger, state[l].lastRunAt, now)
<1>1. now \in Nat
  BY BoundsAssumption DEF TypeOK
<1>2. CASE spec[l].trigger.kind = "interval"
  <2>1. next \in Int /\ \A t \in Int : IsDue(spec[l], state[l], t) <=> t >= next
    BY <1>2, IntervalIsDue
  <2> HIDE DEF next
  <2>2. Max({next, now}) \in Int /\ Max({next, now}) >= next
    BY <1>1, <2>1, Later
  <2>3. IsDue(spec[l], state[l], Max({next, now}))
    BY <2>1, <2>2
  <2>4. \A t \in now .. next - 1 : ~IsDue(spec[l], state[l], t)
    BY <1>1, <2>1
  <2> QED
    BY <2>3, <2>4 DEF next
<1>3. CASE spec[l].trigger.kind = "cron"
  <2>1. /\ next \in Nat /\ next > now /\ IsDue(spec[l], state[l], next)
        /\ \A t \in now .. next - 1 :
             IsDue(spec[l], state[l], t) => Minute(t) = Minute(now)
    BY <1>3, CronIsDue
  <2> HIDE DEF next
  <2>2. Max({next, now}) = next
    BY <1>1, <2>1, Later
  <2> QED
    BY <2>1, <2>2 DEF next
<1> QED
  BY <1>2, <1>3 DEF HasNextFire

\* The time nextFireMs gives and the sweep's own decision agree for every trigger,
\* whatever was run and stamped before (trigger.ts:112-120, scheduler.ts:44-60).
THEOREM NextFireHolds == SchedSpec => []NextFireIsDue
<1>1. SchedInit => LastRunIsPast
  BY DEF SchedInit, Init, LastRunIsPast, DefaultState, Never
<1>2. ContractInv /\ LastRunIsPast /\ [SchedNext]_schedVars => LastRunIsPast'
  BY LastRunStep
<1>3. ContractInv /\ LastRunIsPast => NextFireIsDue
  BY NextFireAgrees DEF ContractInv
<1> QED
  BY <1>1, <1>2, <1>3, SchedulerKeepsContract, PTL DEF SchedSpec

-----------------------------------------------------------------------------
(* No matching minute is missed. *)

\* The timer is never later than that: time does not pass its last instant.
LEMMA TimerStep ==
  ASSUME TypeOK, TimerIsKept, [SchedNext]_schedVars PROVE TimerIsKept'
<1>0. now \in Nat /\ TickMs \in Nat /\ MaxLate \in Nat
  BY BoundsAssumption, TickAssumption DEF TypeOK
<1>1. CASE Sweep
  BY <1>0, <1>1 DEF Sweep, TimerIsKept
<1>2. CASE Start
  BY <1>0, <1>2 DEF Start, TimerIsKept, vars
<1>3. CASE Stop
  BY <1>3 DEF Stop, TimerIsKept
<1>4. CASE CrashStopsTimer \/ DieOfSweep
  BY <1>4 DEF CrashStopsTimer, DieOfSweep, TimerIsKept
<1>5. CASE AdvanceToSweep
  BY <1>0, <1>5 DEF AdvanceToSweep, Advance, TimerIsKept
<1>6. CASE RunnerStep
  <2>1. now' = now
    BY <1>6 DEF RunnerStep, Upsert, Resume, TickStep, Refuse, Load, OpenSession,
       SessionFails, RunEnds, StampLastRun, SettleCompleted, SettlePaused,
       SettleCounted, NotifyPaused
  <2> QED
    BY <1>6, <2>1 DEF RunnerStep, TimerIsKept
<1>7. CASE UNCHANGED schedVars
  BY <1>7 DEF schedVars, vars, TimerIsKept
<1> QED
  BY <1>1, <1>2, <1>3, <1>4, <1>5, <1>6, <1>7 DEF SchedNext

\* A sweep that does not end the process fires every scheduled loop that has not run in
\* this minute: there is no malformed expression it could have stopped at.
LEMMA SweepFiresScheduled ==
  ASSUME TypeOK, LastRunIsPast, Sweep, ~dying',
         NEW l \in Loops, Eligible(l), Scheduled(l)
  PROVE  FiredInMinute(l)'
<1>0. now' = now /\ state' = state /\ now \in Nat
  BY SweepFires, BoundsAssumption DEF TypeOK
<1>1. l \in known /\ ~state[l].paused /\ Reached(l) /\ ~Throws(l)
  BY DEF Eligible, Sweep, Reached
<1>2. state[l].lastRunAt \in Nat \cup {Never} /\ state[l].lastRunAt <= now
  BY DEF TypeOK, LoopState, LastRunIsPast
<1>3. CASE IsDue(spec[l], state[l], now)
  <2>1. l \in SweptLoops
    BY <1>1, <1>3 DEF SweptLoops, DueLoops
  <2>2. firedAt'[l] = now
    BY <2>1 DEF Sweep
  <2> QED
    BY <1>0, <2>2 DEF FiredInMinute
<1>4. CASE ~IsDue(spec[l], state[l], now)
  <2>1. ~(Minute(state[l].lastRunAt) < Minute(now))
    BY <1>4 DEF IsDue, Scheduled
  <2>2. state[l].lastRunAt # Never
    BY <1>0, <2>1, MinuteBounds DEF Minute
  <2>3. Minute(state[l].lastRunAt) = Minute(now)
    BY <1>0, <1>2, <2>1, <2>2, MinuteMonotone, MinuteBounds
  <2> QED
    BY <1>0, <2>3 DEF FiredInMinute
<1> QED
  BY <1>3, <1>4

\* If a period and its lateness fit in a minute, the last sweep was in that minute at
\* its last instant.
LEMMA SweptBeforeTheMinuteEnds ==
  ASSUME TickMs + MaxLate <= MinuteMs,
         TypeOK, TimerIsKept, AdvanceToSweep, lastSweep # Unset,
         Minute(now') # Minute(now)
  PROVE  Minute(lastSweep) = Minute(now)
<1>1. /\ now \in Nat /\ TickMs \in Nat /\ MaxLate \in Nat /\ MinuteMs \in Nat
      /\ lastSweep \in Nat /\ lastSweep <= now
      /\ now' = now + 1 /\ now - lastSweep < MinuteMs
  BY BoundsAssumption, TickAssumption
  DEF TypeOK, TimerIsKept, AdvanceToSweep, Advance
<1>2. Minute(now) <= Minute(now + 1)
  BY <1>1, MinuteMonotone
<1>3. Minute(now) < Minute(now + 1)
  BY <1>1, <1>2, MinuteBounds
<1>4. MinuteMs * Minute(now) + MinuteMs <= now + 1
  <2>1. /\ MinuteMs * Minute(now) + MinuteMs <= MinuteMs * Minute(now + 1)
        /\ MinuteMs * Minute(now + 1) <= now + 1
    BY <1>1, <1>3, MinuteBounds, MinutesApart
  <2>2. MinuteMs * Minute(now) \in Int /\ MinuteMs * Minute(now + 1) \in Int
    BY <1>1, MinuteBounds
  <2> QED
    BY <1>1, <2>1, <2>2
<1>5. Minute(lastSweep) <= Minute(now)
  BY <1>1, MinuteMonotone
<1>6. ASSUME Minute(lastSweep) < Minute(now) PROVE FALSE
  <2>1. /\ MinuteMs * Minute(lastSweep) + MinuteMs <= MinuteMs * Minute(now)
        /\ lastSweep < MinuteMs * Minute(lastSweep) + MinuteMs
    BY <1>1, <1>6, MinuteBounds, MinutesApart
  <2>2. MinuteMs * Minute(lastSweep) \in Int /\ MinuteMs * Minute(now) \in Int
    BY <1>1, MinuteBounds
  <2> QED
    BY <1>1, <1>4, <2>1, <2>2
<1> QED
  BY <1>1, <1>5, <1>6, MinuteBounds

\* Time crosses into the next minute only past a settled loop that was fired.
LEMMA FiredBeforeTheMinuteEnds ==
  ASSUME TickMs + MaxLate <= MinuteMs,
         TypeOK, SchedInv, SchedNext, Minute(now') # Minute(now),
         NEW l \in settled, Scheduled(l)
  PROVE  FiredInMinute(l)
<1>1. AdvanceToSweep
  BY SweepFires DEF SchedNext, DieOfSweep, Start, Stop, CrashStopsTimer, Crash, RunnerStep,
     Upsert, Resume, TickStep, Refuse, Load, OpenSession, SessionFails, RunEnds,
     StampLastRun, SettleCompleted, SettlePaused, SettleCounted, NotifyPaused, vars
<1>2. lastSweep # Unset
  BY DEF SchedInv, SettledIsFired, Eligible
<1> QED
  BY <1>1, <1>2, SweptBeforeTheMinuteEnds DEF SchedInv, SettledIsFired

\* What stays settled stays fired.
LEMMA SettledStep ==
  ASSUME ContractInv, SchedInv, [SchedNext]_schedVars PROVE SettledIsFired'
<1> USE DEF ContractInv, SchedInv
<1>0. now \in Nat
  BY BoundsAssumption DEF TypeOK
<1>1. CASE UNCHANGED schedVars
  BY <1>1 DEF schedVars, vars, SettledIsFired, Eligible, Scheduled, FiredInMinute
<1>2. CASE SchedNext
  <2>1. Observe
    BY <1>2 DEF SchedNext
  <2> SUFFICES ASSUME NEW l \in settled'
               PROVE  /\ l \in Loops /\ Eligible(l)'
                      /\ Minute(lastSweep') = Minute(now') /\ Scheduled(l)'
                           => FiredInMinute(l)'
    BY DEF SettledIsFired
  <2>2. /\ l \in Loops /\ Eligible(l)'
        /\ \/ Minute(now') # Minute(now)
           \/ l \in settled /\ spec'[l] = spec[l]
    BY <2>1 DEF Observe
  <2>3. SUFFICES ASSUME Minute(lastSweep') = Minute(now'), Scheduled(l)'
                 PROVE  FiredInMinute(l)'
    BY <2>2
  <2>4. lastSweep' # Unset /\ ~dying'
    BY <2>2 DEF Eligible
  <2>5. CASE AdvanceToSweep
    <3>1. /\ lastSweep' = lastSweep /\ lastSweep \in Nat /\ lastSweep <= now
          /\ now' = now + 1 /\ state' = state /\ spec' = spec /\ firedAt' = firedAt
      BY <2>4, <2>5 DEF AdvanceToSweep, Advance, TimerIsKept, store
    <3>2. Minute(lastSweep) <= Minute(now) /\ Minute(now) <= Minute(now + 1)
      BY <1>0, <3>1, MinuteMonotone
    <3>3. Minute(now') = Minute(now)
      BY <1>0, <2>3, <3>1, <3>2, MinuteBounds
    <3>4. l \in settled /\ Scheduled(l)
      BY <2>2, <2>3, <3>1, <3>3 DEF Scheduled, CronMatches
    <3>5. FiredInMinute(l)
      BY <2>3, <3>1, <3>3, <3>4 DEF SettledIsFired
    <3> QED
      BY <3>1, <3>3, <3>5 DEF FiredInMinute
  <2>6. CASE Sweep
    <3>1. now' = now /\ spec' = spec
      BY <2>6, SweepFires
    <3>2. Eligible(l) /\ Scheduled(l)
      BY <2>2, <2>3, <3>1 DEF SettledIsFired, Scheduled, CronMatches
    <3> QED
      BY <2>2, <2>4, <2>6, <3>2, SweepFiresScheduled
  <2>7. CASE Start
    BY <2>2, <2>7 DEF Start, vars, SettledIsFired, Eligible
  <2>8. CASE Stop \/ CrashStopsTimer \/ DieOfSweep
    BY <2>4, <2>8 DEF Stop, CrashStopsTimer, DieOfSweep
  <2>9. CASE RunnerStep
    <3>1. now' = now /\ UNCHANGED <<lastSweep, firedAt>>
      BY <2>9 DEF RunnerStep, Upsert, Resume, TickStep, Refuse, Load, OpenSession,
         SessionFails, RunEnds, StampLastRun, SettleCompleted, SettlePaused,
         SettleCounted, NotifyPaused
    <3>2. l \in settled /\ spec'[l] = spec[l] /\ l \in known
      BY <2>2, <3>1 DEF SettledIsFired, Eligible
    <3>3. Scheduled(l)
      BY <2>3, <3>1, <3>2 DEF Scheduled, CronMatches
    <3>4. FiredInMinute(l)
      BY <2>3, <3>1, <3>2, <3>3 DEF SettledIsFired
    <3>5. state'[l].lastRunAt = state[l].lastRunAt \/ state'[l].lastRunAt = now
      <4>1. [Next]_vars
        BY <2>9, SpecsOfAssumption DEF RunnerStep, Next
      <4> QED
        BY <2>2, <3>2, <4>1, LastRunChanges
    <3> QED
      BY <3>1, <3>4, <3>5 DEF FiredInMinute
  <2> QED
    BY <1>2, <2>5, <2>6, <2>7, <2>8, <2>9 DEF SchedNext
<1> QED
  BY <1>1, <1>2

\* A cron loop that stays runnable through a minute its expression matches is fired in
\* it, or has just run in it, for every phase and drift of a timer whose period and
\* lateness fit in a minute; no loop's expression, malformed or not, keeps it from that
\* while the process lives (scheduler.ts:39-41, 62-86).
THEOREM CronIsNotMissed ==
  ASSUME TickMs + MaxLate <= MinuteMs PROVE SchedSpec => CronFiresInItsMinute
<1>1. SchedInit => SchedInv
  BY DEF SchedInit, Init, SchedInv, LastRunIsPast, DefaultState, Never, TimerIsKept,
     SettledIsFired
<1>2. ContractInv /\ SchedInv /\ [SchedNext]_schedVars => SchedInv'
  BY LastRunStep, TimerStep, SettledStep DEF SchedInv, ContractInv
<1>3. ContractInv /\ SchedInv /\ [SchedNext]_schedVars =>
        [Minute(now') # Minute(now) =>
           \A l \in settled :
             (/\ spec[l].mode # "one-shot"
              /\ spec[l].trigger.kind = "cron"
              /\ CronMatches(spec[l].trigger.expr, now))
             => Minute(now) \in {Minute(firedAt[l]), Minute(state[l].lastRunAt)}]_schedVars
  <2> SUFFICES ASSUME ContractInv, SchedInv, SchedNext, Minute(now') # Minute(now),
                      NEW l \in settled, Scheduled(l)
               PROVE  FiredInMinute(l)
    BY DEF Scheduled, FiredInMinute
  <2> QED
    BY FiredBeforeTheMinuteEnds DEF ContractInv
<1> QED
  BY <1>1, <1>2, <1>3, SchedulerKeepsContract, PTL DEF SchedSpec, CronFiresInItsMinute
=============================================================================

--------------------------- MODULE RunServerProofs ----------------------------
(***************************************************************************)
(* Theorems about the runs of a server, for any flows, workers, gates and   *)
(* watchers, runs interleaving freely.                                      *)
(***************************************************************************)
EXTENDS RunServer, SequenceTheorems, TLAPS

-----------------------------------------------------------------------------
(* Type correctness. *)

\* The ids, sums and phases an event carries are naturals.
LEMMA EventType ==
  ASSUME NEW id \in Nat, NEW of \in Nat,
         NEW how \in {"", "ok", "failed", "completed"} \cup Decisions,
         NEW type \in {"run_started", "phase_started", "phase_done", "agent_started",
                       "agent_done", "budget_exceeded", "approval_requested",
                       "approval_resolved", "run_done"}
  PROVE  Event(type, id, of, how) \in Events
BY DEF Event, Events

\* A log that grows by events is a log, and no other log changes.
LEMMA EmitType ==
  ASSUME RuntimeTypeOK, NEW r \in Runs, NEW ev \in Seq(Events), Emit(r, ev)
  PROVE  /\ buffer' \in [Runs -> Seq(Events)]
         /\ buffer'[r] = buffer[r] \o ev
         /\ \A x \in Runs \ {r} : buffer'[x] = buffer[x]
BY ConcatProperties DEF RuntimeTypeOK, Emit

\* One thread moves, all others stay where they are.
LEMMA GoType ==
  ASSUME RuntimeTypeOK, NEW r \in Runs, NEW t \in Threads, NEW place \in Places,
         Go(r, t, place)
  PROVE  /\ at' \in [Runs -> [Threads -> Places]]
         /\ at'[r][t] = place
         /\ \A x \in Runs, y \in Threads : <<x, y>> # <<r, t>> => at'[x][y] = at[x][y]
BY DEF RuntimeTypeOK, Go

\* A cost that was reported or not is a number of cents.
LEMMA ChargeType == ASSUME NEW cost \in Costs PROVE Charge(cost) \in Nat
BY RuntimeAssumption DEF Charge

-----------------------------------------------------------------------------
(* What a log of events says, and how it grows. *)

\* Where a log has an event of this type under this id.
At(log, type, id) == {i \in DOMAIN log : log[i].type = type /\ log[i].id = id}

Over(how) == Event("run_done", 0, 0, how)

\* A log that is one event has it at its one position.
LEMMA OneEvent ==
  ASSUME NEW e \in Events
  PROVE  /\ <<e>> \in Seq(Events) /\ <<e>> # <<>> /\ Len(<<e>>) = 1 /\ DOMAIN <<e>> = {1}
         /\ <<e>>[1] = e
OBVIOUS

LEMMA AtOne ==
  ASSUME NEW e \in Events, NEW type, NEW id
  PROVE  At(<<e>>, type, id) = IF e.type = type /\ e.id = id THEN {1} ELSE {}
BY OneEvent DEF At

\* What is appended keeps its order after what was there.
LEMMA Appended ==
  ASSUME NEW a \in Seq(Events), NEW b \in Seq(Events)
  PROVE  /\ a \o b \in Seq(Events)
         /\ Len(a) \in Nat /\ Len(b) \in Nat /\ Len(a \o b) = Len(a) + Len(b)
         /\ DOMAIN a = 1 .. Len(a) /\ DOMAIN b = 1 .. Len(b)
         /\ DOMAIN (a \o b) = 1 .. Len(a) + Len(b)
         /\ \A i \in 1 .. Len(a) : (a \o b)[i] = a[i]
         /\ \A j \in 1 .. Len(b) : (a \o b)[Len(a) + j] = b[j]
<1>1. /\ a \o b \in Seq(Events) /\ Len(a \o b) = Len(a) + Len(b)
      /\ Len(a) \in Nat /\ Len(b) \in Nat
      /\ DOMAIN a = 1 .. Len(a) /\ DOMAIN b = 1 .. Len(b)
      /\ DOMAIN (a \o b) = 1 .. Len(a) + Len(b)
  BY LenProperties, ConcatProperties
<1>2. \A i \in 1 .. Len(a) : (a \o b)[i] = a[i]
  BY <1>1, ConcatProperties
<1>3. \A j \in 1 .. Len(b) : (a \o b)[Len(a) + j] = b[j]
  BY <1>1
<1> QED
  BY <1>1, <1>2, <1>3

\* A position of the longer log is one of the old ones or one of the appended ones.
LEMMA AppendedSplit ==
  ASSUME NEW a \in Seq(Events), NEW b \in Seq(Events), NEW i \in DOMAIN (a \o b)
  PROVE  \/ i \in DOMAIN a /\ (a \o b)[i] = a[i]
         \/ /\ i - Len(a) \in DOMAIN b /\ i = Len(a) + (i - Len(a))
            /\ (a \o b)[i] = b[i - Len(a)]
<1>1. /\ Len(a) \in Nat /\ Len(b) \in Nat /\ i \in 1 .. Len(a) + Len(b)
      /\ DOMAIN a = 1 .. Len(a) /\ DOMAIN b = 1 .. Len(b)
  BY Appended
<1>2. CASE i \in 1 .. Len(a)
  BY <1>1, <1>2, Appended
<1>3. CASE i \notin 1 .. Len(a)
  <2>1. i - Len(a) \in 1 .. Len(b) /\ i = Len(a) + (i - Len(a))
    BY <1>1, <1>3
  <2>2. (a \o b)[Len(a) + (i - Len(a))] = b[i - Len(a)]
    BY <2>1, Appended
  <2> QED
    BY <1>1, <2>1, <2>2
<1> QED
  BY <1>2, <1>3

LEMMA AtAppended ==
  ASSUME NEW a \in Seq(Events), NEW b \in Seq(Events), NEW type, NEW id
  PROVE  \A i : i \in At(a \o b, type, id) <=>
                 i \in At(a, type, id) \/ \E j \in At(b, type, id) : i = Len(a) + j
<1>1. ASSUME NEW i \in At(a \o b, type, id)
      PROVE  i \in At(a, type, id) \/ \E j \in At(b, type, id) : i = Len(a) + j
  <2>1. i \in DOMAIN (a \o b) /\ (a \o b)[i].type = type /\ (a \o b)[i].id = id
    BY DEF At
  <2>2. CASE i \in DOMAIN a /\ (a \o b)[i] = a[i]
    BY <2>1, <2>2 DEF At
  <2>3. CASE /\ i - Len(a) \in DOMAIN b /\ i = Len(a) + (i - Len(a))
             /\ (a \o b)[i] = b[i - Len(a)]
    BY <2>1, <2>3 DEF At
  <2> QED
    BY <2>1, <2>2, <2>3, AppendedSplit
<1>2. At(a, type, id) \subseteq At(a \o b, type, id)
  BY Appended DEF At
<1>3. ASSUME NEW j \in At(b, type, id)
      PROVE  Len(a) + j \in At(a \o b, type, id)
  BY Appended DEF At
<1> QED
  BY <1>1, <1>2, <1>3

\* What a log has not said is said where it is appended, and the last word stays last.
LEMMA AtAppendedLast ==
  ASSUME NEW a \in Seq(Events), NEW b \in Seq(Events), NEW type, NEW id,
         At(a, type, id) = {}
  PROVE  /\ At(b, type, id) = {} => At(a \o b, type, id) = {}
         /\ At(b, type, id) = {Len(b)} => At(a \o b, type, id) = {Len(a \o b)}
<1>1. \A i : i \in At(a \o b, type, id) <=> \E j \in At(b, type, id) : i = Len(a) + j
  BY AtAppended
<1>2. Len(a \o b) = Len(a) + Len(b)
  BY Appended
<1> QED
  BY <1>1, <1>2

LEMMA OverEvent ==
  ASSUME NEW how \in {"", "ok", "failed", "completed"}
  PROVE  /\ Over(how) \in Events /\ Over(how).type = "run_done" /\ Over(how).id = 0
         /\ <<Over(how)>> \in Seq(Events) /\ <<Over(how)>> # <<>> /\ Len(<<Over(how)>>) = 1
         /\ \A i \in DOMAIN <<Over(how)>> : <<Over(how)>>[i] = Over(how)
         /\ At(<<Over(how)>>, "run_done", 0) = {1}
<1>1. Over(how) \in Events /\ Over(how).type = "run_done" /\ Over(how).id = 0
  BY EventType DEF Over, Event
<1> QED
  BY <1>1, OneEvent, AtOne

\* A rejection reaches the code of the thread, ends a worker, or ends the run, which
\* is the last thing it says.
Rejected(r, t, ev, place, end) ==
  /\ Go(r, t, place)
  /\ place = "null" => t # Main
  /\ Emit(r, ev \o end)
  /\ \/ place # "off" /\ end = <<>> /\ UNCHANGED status
     \/ /\ place = "off" /\ t = Main
        /\ end = <<Over("failed")>>
        /\ status' = [status EXCEPT ![r] = "failed"]

LEMMA RaiseOutcome ==
  ASSUME NEW r \in Runs, NEW t \in Threads, NEW ev \in Seq(Events), Raise(r, t, ev)
  PROVE  \E place \in {"code", "null", "off"}, end \in Seq(Events) :
           Rejected(r, t, ev, place, end)
<1>1. ev \o <<>> = ev /\ <<>> \in Seq(Events)
  BY ConcatEmptySeq
<1>2. <<Over("failed")>> \in Seq(Events)
  BY OverEvent
<1>3. CASE Go(r, t, "code") /\ Emit(r, ev) /\ UNCHANGED status
  <2>1. Rejected(r, t, ev, "code", <<>>)
    BY <1>1, <1>3 DEF Rejected
  <2> QED
    BY <1>1, <2>1
<1>4. CASE t # Main /\ Go(r, t, "null") /\ Emit(r, ev) /\ UNCHANGED status
  <2>1. Rejected(r, t, ev, "null", <<>>)
    BY <1>1, <1>4 DEF Rejected
  <2> QED
    BY <1>1, <2>1
<1>5. CASE /\ t = Main
           /\ Go(r, t, "off")
           /\ Emit(r, ev \o <<Over("failed")>>)
           /\ status' = [status EXCEPT ![r] = "failed"]
  <2>1. Rejected(r, t, ev, "off", <<Over("failed")>>)
    BY <1>5 DEF Rejected
  <2> QED
    BY <1>2, <2>1
<1> QED
  BY <1>3, <1>4, <1>5 DEF Raise, Over

\* What an executor's answer does, whichever it is: the node is closed in the log, the
\* sum may grow and the overrun be told, and the thread goes on, ends as null, or ends
\* the run.
Answered(r, t, how, place, tail) ==
  /\ Go(r, t, place)
  /\ place = "null" => t # Main
  /\ Emit(r, <<Event("agent_done", call[r][t], 0, how)>> \o tail)
  /\ IF place = "off"
       THEN /\ t = Main
            /\ status' = [status EXCEPT ![r] = "failed"]
            /\ tail # <<>> /\ At(tail, "run_done", 0) = {Len(tail)}
       ELSE UNCHANGED status /\ At(tail, "run_done", 0) = {}
  /\ \A i \in DOMAIN tail :
       \/ tail[i].type = "run_done"
       \/ /\ tail[i].type = "budget_exceeded" /\ tail[i].of = spent'[r]
          /\ how = "ok" /\ OverCap(spent'[r])
  /\ how = "ok" /\ OverCap(spent'[r]) =>
       \E i \in DOMAIN tail :
          tail[i].type = "budget_exceeded" /\ tail[i].of = spent'[r]
  /\ how = "failed" => spent' = spent

LEMMA AgentSettles ==
  ASSUME RuntimeTypeOK, NEW r \in Runs, NEW t \in Threads,
         (\E cost \in Costs : AgentReturns(r, t, cost)) \/ AgentFails(r, t)
  PROVE  /\ at[r][t] = "agent"
         /\ call' = [call EXCEPT ![r][t] = 0]
         /\ UNCHANGED <<committed, made>>
         /\ spent' \in [Runs -> Nat] /\ \A x \in Runs \ {r} : spent'[x] = spent[x]
         /\ \E how \in {"ok", "failed"}, place \in {"code", "null", "off"},
               tail \in Seq(Events) : Answered(r, t, how, place, tail)
<1> DEFINE done(how) == Event("agent_done", call[r][t], 0, how)
           budget == Event("budget_exceeded", 0, spent'[r], "")
<1>1. done("ok") \in Events /\ done("failed") \in Events
  BY EventType DEF RuntimeTypeOK
<1>2. <<done("ok")>> \in Seq(Events) /\ <<done("failed")>> \in Seq(Events)
  <2>1. \A e \in Events : <<e>> \in Seq(Events)
    BY OneEvent
  <2> QED
    BY <1>1, <2>1
<1>3. <<>> \in Seq(Events) /\ DOMAIN <<>> = {} /\ At(<<>>, "run_done", 0) = {}
  BY DEF At
<1>4. CASE AgentFails(r, t)
  <2>1. Raise(r, t, <<done("failed")>>)
    BY <1>4 DEF AgentFails
  <2>2. PICK place \in {"code", "null", "off"}, end \in Seq(Events) :
           Rejected(r, t, <<done("failed")>>, place, end)
    BY <2>1, <1>2, RaiseOutcome
  <2>3. /\ at[r][t] = "agent"
        /\ call' = [call EXCEPT ![r][t] = 0]
        /\ UNCHANGED <<spent, committed, made>>
        /\ spent' \in [Runs -> Nat]
    BY <1>4 DEF AgentFails, RuntimeTypeOK
  <2>4. \A i \in DOMAIN end : end[i].type = "run_done"
    <3>1. CASE end = <<>>
      BY <3>1, <1>3
    <3>2. CASE end = <<Over("failed")>>
      BY <3>2, OverEvent
    <3> QED
      BY <2>2, <3>1, <3>2 DEF Rejected
  <2>5. IF place = "off" THEN end # <<>> /\ At(end, "run_done", 0) = {Len(end)}
                         ELSE At(end, "run_done", 0) = {}
    <3>1. CASE place # "off"
      BY <2>2, <3>1, <1>3 DEF Rejected
    <3>2. CASE place = "off"
      <4>1. end = <<Over("failed")>>
        BY <2>2, <3>2 DEF Rejected
      <4>2. end # <<>> /\ At(end, "run_done", 0) = {Len(end)}
        BY <4>1, OverEvent
      <4> QED
        BY <3>2, <4>2
    <3> QED
      BY <3>1, <3>2
  <2>6. Answered(r, t, "failed", place, end)
    BY <2>2, <2>3, <2>4, <2>5 DEF Answered, Rejected
  <2> QED
    BY <2>3, <2>6
<1>5. ASSUME NEW cost \in Costs, AgentReturns(r, t, cost)
      PROVE  /\ at[r][t] = "agent"
             /\ call' = [call EXCEPT ![r][t] = 0]
             /\ UNCHANGED <<committed, made>>
             /\ spent' \in [Runs -> Nat] /\ \A x \in Runs \ {r} : spent'[x] = spent[x]
             /\ \E how \in {"ok", "failed"}, place \in {"code", "null", "off"},
                   tail \in Seq(Events) : Answered(r, t, how, place, tail)
  <2>1. Charge(cost) \in Nat
    BY ChargeType
  <2>2. /\ at[r][t] = "agent"
        /\ call' = [call EXCEPT ![r][t] = 0]
        /\ UNCHANGED <<committed, made>>
        /\ spent' \in [Runs -> Nat] /\ \A x \in Runs \ {r} : spent'[x] = spent[x]
    <3>1. /\ at[r][t] = "agent"
          /\ call' = [call EXCEPT ![r][t] = 0]
          /\ UNCHANGED <<committed, made>>
          /\ spent' = [spent EXCEPT ![r] = @ + Charge(cost)]
      BY <1>5 DEF AgentReturns
    <3>2. spent \in [Runs -> Nat] /\ spent[r] + Charge(cost) \in Nat
      BY <2>1 DEF RuntimeTypeOK
    <3> QED
      BY <3>1, <3>2
  <2>3. CASE ~OverCap(spent'[r])
    <3>1. Go(r, t, "code") /\ Emit(r, <<done("ok")>>) /\ UNCHANGED status
      BY <1>5, <2>3 DEF AgentReturns
    <3>2. <<done("ok")>> \o <<>> = <<done("ok")>>
      BY <1>2, ConcatEmptySeq
    <3>3. Answered(r, t, "ok", "code", <<>>)
      BY <3>1, <3>2, <2>3, <1>3 DEF Answered
    <3> QED
      BY <2>2, <3>3, <1>3
  <2>4. CASE OverCap(spent'[r])
    <3>1. budget \in Events /\ budget.type = "budget_exceeded" /\ budget.of = spent'[r]
      <4>1. spent'[r] \in Nat
        BY <2>2
      <4> QED
        BY <4>1, EventType DEF Event
    <3> HIDE DEF budget
    <3>2. /\ <<budget>> \in Seq(Events) /\ Len(<<budget>>) = 1 /\ DOMAIN <<budget>> = {1}
          /\ <<budget>>[1] = budget /\ At(<<budget>>, "run_done", 0) = {}
      BY <3>1, OneEvent, AtOne
    <3>3. Raise(r, t, <<done("ok"), budget>>)
      BY <1>5, <2>4 DEF AgentReturns, budget
    <3>4. <<done("ok"), budget>> \in Seq(Events)
      BY <1>1, <3>1
    <3>5. PICK place \in {"code", "null", "off"}, end \in Seq(Events) :
             Rejected(r, t, <<done("ok"), budget>>, place, end)
      BY <3>3, <3>4, RaiseOutcome
    <3> HIDE DEF done
    <3> DEFINE tail == <<budget>> \o end
    <3>6. tail \in Seq(Events) /\ 1 \in DOMAIN tail /\ tail[1] = budget
      BY <3>2, Appended
    <3>7. <<done("ok"), budget>> \o end = <<done("ok")>> \o tail
      BY <1>2, <3>2
    <3>8. \A i \in DOMAIN tail :
            \/ tail[i].type = "run_done"
            \/ tail[i].type = "budget_exceeded" /\ tail[i].of = spent'[r]
      <4>1. end = <<>> \/ end = <<Over("failed")>>
        BY <3>5 DEF Rejected
      <4>2. \A j \in DOMAIN end : end[j].type = "run_done"
        BY <4>1, <1>3, OverEvent
      <4> QED
        BY <4>2, <3>1, <3>2, AppendedSplit
    <3>9. IF place = "off" THEN tail # <<>> /\ At(tail, "run_done", 0) = {Len(tail)}
                           ELSE At(tail, "run_done", 0) = {}
      <4>1. CASE place # "off"
        <5>1. At(end, "run_done", 0) = {}
          BY <3>5, <4>1, <1>3 DEF Rejected
        <5>2. At(tail, "run_done", 0) = {}
          BY <5>1, <3>2, AtAppendedLast
        <5> QED
          BY <4>1, <5>2
      <4>2. CASE place = "off"
        <5>1. At(end, "run_done", 0) = {Len(end)}
          BY <3>5, <4>2, OverEvent DEF Rejected
        <5>2. At(tail, "run_done", 0) = {Len(tail)}
          BY <5>1, <3>2, AtAppendedLast
        <5>3. tail # <<>>
          BY <3>6, <1>3
        <5> QED
          BY <4>2, <5>2, <5>3
      <4> QED
        BY <4>1, <4>2
    <3> HIDE DEF tail
    <3>10. Answered(r, t, "ok", place, tail)
      BY <3>1, <3>5, <3>6, <3>7, <3>8, <3>9, <2>4 DEF Answered, Rejected, done
    <3> QED
      BY <2>2, <3>6, <3>10
  <2> QED
    BY <2>3, <2>4
<1> QED
  BY <1>4, <1>5

\* Every sender's events are well formed: the first of a run, of a call, of a gate, of
\* a phase and the last of a run.
LEMMA CallEvents ==
  ASSUME RuntimeTypeOK, NEW r \in Runs, NEW t \in Threads
  PROVE  /\ <<Event("run_started", 0, 0, "")>> \in Seq(Events)
         /\ <<Event("agent_started", made[r].agents + 1, made[r].phases, "")>> \in Seq(Events)
         /\ \A how \in {"ok", "failed"} :
              <<Event("agent_done", call[r][t], 0, how)>> \in Seq(Events)
         /\ <<Event("approval_requested", made[r].gates + 1, 0, "")>> \in Seq(Events)
         /\ \A d \in Decisions :
              <<Event("approval_resolved", call[r][t], 0, d)>> \in Seq(Events)
<1>1. /\ made[r].agents \in Nat /\ made[r].gates \in Nat /\ made[r].phases \in Nat
      /\ made[r].agents + 1 \in Nat /\ made[r].gates + 1 \in Nat /\ made[r].phases + 1 \in Nat
      /\ call[r][t] \in Nat
  BY DEF RuntimeTypeOK
<1>2. /\ Event("run_started", 0, 0, "") \in Events
      /\ Event("agent_started", made[r].agents + 1, made[r].phases, "") \in Events
      /\ Event("agent_done", call[r][t], 0, "ok") \in Events
      /\ Event("agent_done", call[r][t], 0, "failed") \in Events
      /\ Event("approval_requested", made[r].gates + 1, 0, "") \in Events
  BY <1>1, EventType
<1>3. \A d \in Decisions : Event("approval_resolved", call[r][t], 0, d) \in Events
  BY <1>1, EventType
<1>4. \A e \in Events : <<e>> \in Seq(Events)
  BY OneEvent
<1> QED
  BY <1>2, <1>3, <1>4

\* What phase() emits: the end of the active phase, if there is one, and the next.
LEMMA PhaseEvents ==
  ASSUME RuntimeTypeOK, NEW r \in Runs, NEW t \in Threads, Phase(r, t)
  PROVE  \E ev \in Seq(Events) :
           /\ Emit(r, ev)
           /\ \A i \in DOMAIN ev : ev[i].type \in {"phase_done", "phase_started"}
<1> DEFINE p == made[r].phases
           opening == Event("phase_started", p + 1, 0, "")
           closing == IF p = 0 THEN <<>> ELSE <<Event("phase_done", p, 0, "ok")>>
<1>1. p \in Nat /\ p + 1 \in Nat
  BY DEF RuntimeTypeOK
<1>2. /\ opening \in Events /\ opening.type = "phase_started"
      /\ Event("phase_done", p, 0, "ok") \in Events
      /\ Event("phase_done", p, 0, "ok").type = "phase_done"
  BY <1>1, EventType DEF Event
<1>3. Emit(r, closing \o <<opening>>)
  BY DEF Phase
<1> HIDE DEF opening
<1>4. closing \in Seq(Events) /\ \A i \in DOMAIN closing : closing[i].type = "phase_done"
  <2>1. CASE p = 0
    BY <2>1
  <2>2. CASE p # 0
    BY <2>2, <1>2, OneEvent
  <2> QED
    BY <2>1, <2>2
<1>5. /\ <<opening>> \in Seq(Events)
      /\ \A i \in DOMAIN <<opening>> : <<opening>>[i].type = "phase_started"
  BY <1>2, OneEvent
<1> HIDE DEF closing
<1>6. closing \o <<opening>> \in Seq(Events)
  BY <1>4, <1>5, Appended
<1>7. \A i \in DOMAIN (closing \o <<opening>>) :
        (closing \o <<opening>>)[i].type \in {"phase_done", "phase_started"}
  BY <1>4, <1>5, AppendedSplit
<1> QED
  BY <1>3, <1>6, <1>7

\* A step that emits nothing leaves every log as it was.
LEMMA EmitsNothing ==
  ASSUME RuntimeTypeOK, NEW r \in Runs, UNCHANGED buffer
  PROVE  <<>> \in Seq(Events) /\ Emit(r, <<>>)
<1>1. buffer[r] \in Seq(Events) /\ buffer[r] \o <<>> = buffer[r]
  BY ConcatEmptySeq DEF RuntimeTypeOK
<1>2. [buffer EXCEPT ![r] = buffer[r]] = buffer
  BY DEF RuntimeTypeOK
<1> QED
  BY <1>1, <1>2 DEF Emit

\* Whatever a run does, it does to its own log, at its end.
LEMMA RunsLog ==
  ASSUME RuntimeTypeOK, NEW r \in Runs, NEW t \in Threads,
         \/ UngatedStep(r)
         \/ OpenGate(r, t)
         \/ \E d \in Decisions : PassGate(r, t, d)
  PROVE  \E ev \in Seq(Events) : Emit(r, ev)
<1>1. CASE StartRun(r)
  BY <1>1, CallEvents DEF StartRun
<1>2. ASSUME NEW u \in Threads, CallAgent(r, u)
      PROVE  \E ev \in Seq(Events) : Emit(r, ev)
  <2>1. made'[r].agents = made[r].agents + 1
    BY <1>2 DEF CallAgent, RuntimeTypeOK
  <2> QED
    BY <1>2, <2>1, CallEvents DEF CallAgent
<1>3. ASSUME NEW u \in Threads, (\E cost \in Costs : AgentReturns(r, u, cost)) \/ AgentFails(r, u)
      PROVE  \E ev \in Seq(Events) : Emit(r, ev)
  <2>1. PICK how \in {"ok", "failed"}, place \in {"code", "null", "off"}, tail \in Seq(Events) :
           Answered(r, u, how, place, tail)
    BY <1>3, AgentSettles
  <2>2. <<Event("agent_done", call[r][u], 0, how)>> \in Seq(Events)
    BY CallEvents
  <2>3. <<Event("agent_done", call[r][u], 0, how)>> \o tail \in Seq(Events)
    BY <2>2, Appended
  <2> QED
    BY <2>1, <2>3 DEF Answered
<1>4. ASSUME NEW u \in Threads, Phase(r, u)
      PROVE  \E ev \in Seq(Events) : Emit(r, ev)
  BY <1>4, PhaseEvents
<1>5. CASE UNCHANGED buffer
  BY <1>5, EmitsNothing
<1>6. ASSUME NEW outcome \in {"completed", "failed"}, Finish(r, outcome)
      PROVE  \E ev \in Seq(Events) : Emit(r, ev)
  BY <1>6, OverEvent DEF Finish, Over
<1>7. CASE OpenGate(r, t)
  <2>1. made'[r].gates = made[r].gates + 1
    BY <1>7 DEF OpenGate, RuntimeTypeOK
  <2> QED
    BY <1>7, <2>1, CallEvents DEF OpenGate
<1>8. ASSUME NEW d \in Decisions, PassGate(r, t, d)
      PROVE  \E ev \in Seq(Events) : Emit(r, ev)
  BY <1>8, CallEvents DEF PassGate
<1>9. CASE UngatedStep(r)
  <2>1. CASE UNCHANGED buffer
    BY <2>1, <1>5
  <2>2. CASE buffer' # buffer
    BY <1>9, <2>2, <1>1, <1>2, <1>3, <1>4, <1>6
       DEF UngatedStep, Commit, Fork, WorkerSettles, Join
  <2> QED
    BY <2>1, <2>2
<1> QED
  BY <1>7, <1>8, <1>9

-----------------------------------------------------------------------------
(* Type correctness. *)

\* The counters of ids stay counters.
LEMMA CountersType ==
  ASSUME RuntimeTypeOK, NEW r \in Runs,
         \/ made' = [made EXCEPT ![r].agents = @ + 1]
         \/ made' = [made EXCEPT ![r].gates = @ + 1]
         \/ made' = [made EXCEPT ![r].phases = made[r].phases + 1]
  PROVE  /\ made' \in [Runs -> [agents : Nat, gates : Nat, phases : Nat]]
         /\ \A x \in Runs \ {r} : made'[x] = made[x]
<1>1. made \in [Runs -> [agents : Nat, gates : Nat, phases : Nat]]
  BY DEF RuntimeTypeOK
<1>2. CASE made' = [made EXCEPT ![r].agents = @ + 1]
  BY <1>1, <1>2
<1>3. CASE made' = [made EXCEPT ![r].gates = @ + 1]
  BY <1>1, <1>3
<1>4. CASE made' = [made EXCEPT ![r].phases = made[r].phases + 1]
  BY <1>1, <1>4
<1> QED
  BY <1>2, <1>3, <1>4

\* What a run does keeps the types of the runs.
LEMMA RunsType ==
  ASSUME RuntimeTypeOK, NEW r \in Runs, NEW t \in Threads,
         \/ UngatedStep(r)
         \/ OpenGate(r, t)
         \/ \E d \in Decisions : PassGate(r, t, d)
  PROVE  RuntimeTypeOK'
<1> DEFINE RestOK ==
      /\ status' \in [Runs -> {"never", "new", "running", "completed", "failed", "lost"}]
      /\ at' \in [Runs -> [Threads -> Places]]
      /\ call' \in [Runs -> [Threads -> Nat]]
      /\ spent' \in [Runs -> Nat]
      /\ committed' \in [Runs -> Cursors \cup {Unset}]
      /\ made' \in [Runs -> [agents : Nat, gates : Nat, phases : Nat]]
<1>1. buffer' \in [Runs -> Seq(Events)]
  BY RunsLog, EmitType
<1>2. Main \in Threads /\ Workers \subseteq Threads
  BY DEF Threads
<1>3. ASSUME StartRun(r)
      PROVE  RestOK
  BY <1>2, <1>3, GoType DEF StartRun, RuntimeTypeOK, Places
<1>4. ASSUME NEW u \in Threads, CallAgent(r, u)
      PROVE  RestOK
  <2>1. made' \in [Runs -> [agents : Nat, gates : Nat, phases : Nat]]
    <3>1. made' = [made EXCEPT ![r].agents = @ + 1]
      BY <1>4 DEF CallAgent
    <3> QED
      BY <3>1, CountersType
  <2>2. at' \in [Runs -> [Threads -> Places]]
    BY <1>4, GoType DEF CallAgent, Places
  <2>3. call' \in [Runs -> [Threads -> Nat]]
    BY <1>4, <2>1 DEF CallAgent, RuntimeTypeOK
  <2> QED
    BY <1>4, <2>1, <2>2, <2>3 DEF CallAgent, RuntimeTypeOK
<1>5. ASSUME NEW u \in Threads, (\E cost \in Costs : AgentReturns(r, u, cost)) \/ AgentFails(r, u)
      PROVE  RestOK
  <2>1. PICK how \in {"ok", "failed"}, place \in {"code", "null", "off"}, tail \in Seq(Events) :
           Answered(r, u, how, place, tail)
    BY <1>5, AgentSettles
  <2>2. /\ call' = [call EXCEPT ![r][u] = 0]
        /\ UNCHANGED <<committed, made>>
        /\ spent' \in [Runs -> Nat]
    BY <1>5, AgentSettles
  <2>3. at' \in [Runs -> [Threads -> Places]]
    BY <2>1, GoType DEF Answered, Places
  <2>4. status' = status \/ status' = [status EXCEPT ![r] = "failed"]
    BY <2>1 DEF Answered
  <2> QED
    BY <2>2, <2>3, <2>4 DEF RuntimeTypeOK
<1>6. ASSUME NEW u \in Threads, Phase(r, u)
      PROVE  RestOK
  <2>1. made' = [made EXCEPT ![r].phases = made[r].phases + 1]
    BY <1>6 DEF Phase
  <2>2. made' \in [Runs -> [agents : Nat, gates : Nat, phases : Nat]]
    BY <2>1, CountersType
  <2> QED
    BY <1>6, <2>2 DEF Phase, RuntimeTypeOK
<1>7. ASSUME NEW u \in Threads, NEW c \in Shape[r].cursors, Commit(r, u, c)
      PROVE  RestOK
  <2>1. c \in Cursors
    BY <1>7, RuntimeAssumption DEF Shapes
  <2> QED
    BY <1>7, <2>1 DEF Commit, RuntimeTypeOK
<1>8. ASSUME NEW team \in SUBSET Shape[r].team, Fork(r, team)
      PROVE  RestOK
  BY <1>8 DEF Fork, RuntimeTypeOK, Places
<1>9. ASSUME NEW w \in Workers, NEW place \in {"value", "null"}, WorkerSettles(r, w, place)
      PROVE  RestOK
  BY <1>2, <1>9, GoType, SMTT(30) DEF WorkerSettles, RuntimeTypeOK, Places
<1>10. ASSUME Join(r)
       PROVE  RestOK
  BY <1>10 DEF Join, RuntimeTypeOK, Places
<1>11. ASSUME NEW outcome \in {"completed", "failed"}, Finish(r, outcome)
       PROVE  RestOK
  BY <1>2, <1>11, GoType DEF Finish, RuntimeTypeOK, Places
<1>12. ASSUME OpenGate(r, t)
       PROVE  RestOK
  <2>1. made' \in [Runs -> [agents : Nat, gates : Nat, phases : Nat]]
    <3>1. made' = [made EXCEPT ![r].gates = @ + 1]
      BY <1>12 DEF OpenGate
    <3> QED
      BY <3>1, CountersType
  <2>2. at' \in [Runs -> [Threads -> Places]]
    BY <1>12, GoType DEF OpenGate, Places
  <2>3. call' \in [Runs -> [Threads -> Nat]]
    BY <1>12, <2>1 DEF OpenGate, RuntimeTypeOK
  <2> QED
    BY <1>12, <2>1, <2>2, <2>3 DEF OpenGate, RuntimeTypeOK
<1>13. ASSUME NEW d \in Decisions, PassGate(r, t, d)
       PROVE  RestOK
  BY <1>13, GoType DEF PassGate, RuntimeTypeOK, Places
<1>14. RestOK
  BY <1>3, <1>4, <1>5, <1>6, <1>7, <1>8, <1>9, <1>10, <1>11, <1>12, <1>13 DEF UngatedStep
<1> QED
  BY <1>1, <1>14 DEF RuntimeTypeOK

\* A step of some thread of a run, and the server sends on what it emitted.
Moves(r, t) ==
  /\ \/ UngatedStep(r)
     \/ OpenGate(r, t)
     \/ \E d \in Decisions : PassGate(r, t, d)
  /\ FanOut
  /\ UNCHANGED <<watch, down>>

\* A step of the server is a step of a thread, or of a client, or the process dies.
LEMMA ServerSteps ==
  ASSUME TypeOK, Next
  PROVE  \/ \E r \in Runs, t \in Threads : Moves(r, t)
         \/ \E c \in Clients, r \in Runs : Subscribe(c, r)
         \/ \E c \in Clients : Unsubscribe(c)
         \/ Crash
<1>1. ASSUME NEW r \in Runs, FlowStep(r)
      PROVE  \E t \in Threads : Moves(r, t)
  BY <1>1 DEF FlowStep, Moves, Threads
<1>2. ASSUME NEW r \in Runs, NEW t \in Threads, ParkGate(r, t)
      PROVE  Moves(r, t)
  BY <1>2 DEF ParkGate, Moves
<1>3. ASSUME NEW r \in Runs, NEW id \in Gates(r), NEW d \in Decisions, PostDecision(r, id, d)
      PROVE  \E x \in Runs, t \in Threads : Moves(x, t)
  <2> DEFINE key == GateKey(r, id)
  <2>1. key \in DOMAIN pending /\ PassGate(pending[key][1], pending[key][2], d)
        /\ FanOut /\ UNCHANGED <<watch, down>>
    BY <1>3 DEF PostDecision
  <2>2. pending[key] \in Runs \X Threads
    BY <2>1 DEF TypeOK
  <2>3. pending[key][1] \in Runs /\ pending[key][2] \in Threads
    BY <2>2
  <2>4. Moves(pending[key][1], pending[key][2])
    BY <2>1 DEF Moves
  <2> QED
    BY <2>3, <2>4
<1> QED
  BY <1>1, <1>2, <1>3 DEF Next

\* What was appended is what is sent on.
LEMMA AppendedIsSent ==
  ASSUME NEW a \in Seq(Events), NEW b \in Seq(Events)
  PROVE  SubSeq(a \o b, Len(a) + 1, Len(a \o b)) = b
<1>1. Len(a) \in Nat /\ Len(b) \in Nat /\ Len(a \o b) = Len(a) + Len(b)
  BY Appended
<1>2. CASE Len(b) = 0
  <2>1. b = <<>>
    BY <1>2, EmptySeq
  <2>2. Len(a) + 0 < Len(a) + 1
    BY <1>1
  <2>3. SubSeq(a \o b, Len(a) + 1, Len(a \o b)) = <<>>
    BY <1>1, <1>2, <2>2, SubSeqEmpty
  <2> QED
    BY <2>1, <2>3
<1>3. CASE Len(b) # 0
  <2>1. /\ Len(a) + 1 \in Len(a) + 1 .. Len(a) + Len(b)
        /\ Len(a) + Len(b) \in Len(a) + 1 .. Len(a) + Len(b)
        /\ Len(a) + 1 - Len(a) = 1 /\ Len(a) + Len(b) - Len(a) = Len(b)
    BY <1>1, <1>3
  <2>2. SubSeq(a \o b, Len(a) + 1, Len(a) + Len(b))
          = SubSeq(b, Len(a) + 1 - Len(a), Len(a) + Len(b) - Len(a))
    BY <2>1, SubSeqOfConcat2
  <2>3. SubSeq(b, 1, Len(b)) = b
    BY SubSeqFull
  <2> QED
    BY <1>1, <2>1, <2>2, <2>3
<1> QED
  BY <1>2, <1>3

\* A step of a run sends every client what that client's run has just emitted.
LEMMA ClientsAreSent ==
  ASSUME TypeOK, NEW r \in Runs, NEW t \in Threads, Moves(r, t)
  PROVE  /\ RuntimeTypeOK' /\ watch' = watch
         /\ \E ev \in Seq(Events) :
              /\ Emit(r, ev)
              /\ got' = [c \in Clients |->
                           IF watch[c] = r THEN got[c] \o ev ELSE got[c]]
<1>1. RuntimeTypeOK /\ watch' = watch
      /\ got \in [Clients -> Seq(Events)] /\ watch \in [Clients -> Runs \cup {Nothing}]
  BY DEF TypeOK, Moves
<1>2. RuntimeTypeOK'
  BY <1>1, RunsType DEF Moves
<1>3. PICK ev \in Seq(Events) : Emit(r, ev)
  BY <1>1, RunsLog DEF Moves
<1>4. /\ buffer'[r] = buffer[r] \o ev
      /\ \A x \in Runs \ {r} : buffer'[x] = buffer[x]
  BY <1>1, <1>3, EmitType
<1>5. SubSeq(buffer'[r], Len(buffer[r]) + 1, Len(buffer'[r])) = ev
  BY <1>1, <1>4, AppendedIsSent DEF RuntimeTypeOK
<1>6. ASSUME NEW c \in Clients, watch[c] \in Runs \ {r}
      PROVE  got[c] \o SubSeq(buffer'[watch[c]], Len(buffer[watch[c]]) + 1, Len(buffer'[watch[c]]))
               = got[c]
  <2> DEFINE x == watch[c]
  <2>1. buffer'[x] = buffer[x] /\ buffer[x] \in Seq(Events) /\ Len(buffer[x]) \in Nat
    BY <1>1, <1>4, <1>6, LenProperties DEF RuntimeTypeOK
  <2>2. SubSeq(buffer[x], Len(buffer[x]) + 1, Len(buffer[x])) = <<>>
    BY <2>1, SubSeqEmpty
  <2>3. got[c] \o <<>> = got[c]
    BY <1>1, ConcatEmptySeq
  <2> QED
    BY <2>1, <2>2, <2>3
<1>7. ASSUME NEW c \in Clients
      PROVE  got'[c] = IF watch[c] = r THEN got[c] \o ev ELSE got[c]
  <2>1. got'[c] = IF watch[c] = Nothing THEN got[c]
                  ELSE got[c] \o SubSeq(buffer'[watch[c]], Len(buffer[watch[c]]) + 1,
                                        Len(buffer'[watch[c]]))
    BY DEF Moves, FanOut
  <2>2. watch[c] \in Runs \cup {Nothing} /\ Nothing \notin Runs
    BY <1>1, ServerAssumption
  <2>3. CASE watch[c] = Nothing
    BY <2>1, <2>2, <2>3
  <2>4. CASE watch[c] = r
    BY <2>1, <2>2, <2>4, <1>5
  <2>5. CASE watch[c] \in Runs \ {r}
    BY <2>1, <2>2, <2>5, <1>6
  <2> QED
    BY <2>2, <2>3, <2>4, <2>5
<1>8. got' = [c \in Clients |-> got'[c]]
  BY DEF Moves, FanOut
<1> QED
  BY <1>1, <1>2, <1>3, <1>7, <1>8

PendingOK ==
  DOMAIN pending \subseteq Keys /\ pending \in [DOMAIN pending -> Runs \X Threads]

\* What a gate parks: a resolver under a key that has none yet or had one.
LEMMA ParkedGate ==
  ASSUME TypeOK, NEW r \in Runs, NEW t \in Threads, ParkGate(r, t)
  PROVE  LET g == made[r].gates + 1
         IN  /\ at[r][t] = "code" /\ g \in Gates(r) /\ <<r, g>> \in Keys
             /\ made' = [made EXCEPT ![r].gates = @ + 1] /\ made'[r].gates = g
             /\ call' = [call EXCEPT ![r][t] = g]
             /\ Go(r, t, "gate")
             /\ Emit(r, <<Event("approval_requested", g, 0, "")>>)
             /\ UNCHANGED <<status, spent, committed>>
             /\ pending' = [k \in DOMAIN pending \cup {<<r, g>>} |->
                              IF k = <<r, g>> THEN <<r, t>> ELSE pending[k]]
<1>1. /\ at[r][t] = "code"
      /\ made[r].gates < Shape[r].gates
      /\ made' = [made EXCEPT ![r].gates = @ + 1]
      /\ call' = [call EXCEPT ![r][t] = made'[r].gates]
      /\ Go(r, t, "gate")
      /\ Emit(r, <<Event("approval_requested", made'[r].gates, 0, "")>>)
      /\ UNCHANGED <<status, spent, committed>>
  BY DEF ParkGate, OpenGate
<1>2. made \in [Runs -> [agents : Nat, gates : Nat, phases : Nat]] /\ Shape[r].gates \in Nat
  BY RuntimeAssumption DEF TypeOK, RuntimeTypeOK, Shapes
<1>3. made'[r].gates = made[r].gates + 1 /\ made[r].gates + 1 \in Gates(r)
  <2>1. /\ made[r].gates \in Nat
        /\ made'[r] = [made[r] EXCEPT !.gates = made[r].gates + 1]
    BY <1>1, <1>2
  <2>2. made'[r].gates = made[r].gates + 1
    BY <1>2, <2>1
  <2>3. made[r].gates < Shape[r].gates /\ Shape[r].gates \in Nat
    BY <1>1, <1>2
  <2>4. made[r].gates + 1 \in 1 .. Shape[r].gates
    BY <2>1, <2>3
  <2> QED
    BY <2>2, <2>4 DEF Gates
<1>4. <<r, made[r].gates + 1>> \in Keys
  BY <1>3 DEF Keys
<1>5. LET key == GateKey(r, made'[r].gates)
      IN  pending' = [k \in DOMAIN pending \cup {key} |->
                        IF k = key THEN <<r, t>> ELSE pending[k]]
  BY DEF ParkGate
<1> QED
  BY <1>1, <1>3, <1>4, <1>5 DEF GateKey

\* What a decision finds under its key is a thread, which goes on.
LEMMA DecidedGate ==
  ASSUME TypeOK, NEW r \in Runs, NEW id \in Gates(r), NEW d \in Decisions,
         PostDecision(r, id, d)
  PROVE  LET key == <<r, id>>
             x == pending[key][1]
             t == pending[key][2]
         IN  /\ key \in DOMAIN pending /\ x \in Runs /\ t \in Threads
             /\ pending[key] = <<x, t>>
             /\ pending' = [k \in DOMAIN pending \ {key} |-> pending[k]]
             /\ PassGate(x, t, d)
<1> DEFINE key == <<r, id>>
<1>1. /\ key \in DOMAIN pending
      /\ pending' = [k \in DOMAIN pending \ {key} |-> pending[k]]
      /\ PassGate(pending[key][1], pending[key][2], d)
  BY DEF PostDecision, GateKey
<1>2. pending[key] \in Runs \X Threads
  BY <1>1 DEF TypeOK
<1> QED
  BY <1>1, <1>2

LEMMA PendingType == ASSUME TypeOK, Next PROVE PendingOK'
<1>1. DOMAIN pending \subseteq Keys /\ pending \in [DOMAIN pending -> Runs \X Threads]
  BY DEF TypeOK
<1>2. ASSUME NEW r \in Runs, NEW t \in Threads, ParkGate(r, t)
      PROVE  PendingOK'
  <2> DEFINE key == <<r, made[r].gates + 1>>
  <2>1. key \in Keys /\ pending' = [k \in DOMAIN pending \cup {key} |->
                                      IF k = key THEN <<r, t>> ELSE pending[k]]
    BY <1>2, ParkedGate
  <2> HIDE DEF key
  <2> QED
    BY <1>1, <2>1 DEF PendingOK
<1>3. ASSUME NEW r \in Runs, NEW id \in Gates(r), NEW d \in Decisions, PostDecision(r, id, d)
      PROVE  PendingOK'
  <2>1. pending' = [k \in DOMAIN pending \ {<<r, id>>} |-> pending[k]]
    BY <1>3, DecidedGate
  <2> QED
    BY <1>1, <2>1 DEF PendingOK
<1>4. CASE UNCHANGED pending
  BY <1>1, <1>4 DEF PendingOK
<1>5. CASE Crash
  BY <1>5 DEF Crash, PendingOK
<1> QED
  BY <1>2, <1>3, <1>4, <1>5 DEF Next, FlowStep, Subscribe, Unsubscribe

\* The start: nothing has been asked of any thread, and no socket is open.
LEMMA TypeInit == Init => TypeOK
<1> SUFFICES ASSUME Init PROVE TypeOK
  OBVIOUS
<1>1. PICK batch \in Batches :
        status = [r \in Runs |-> IF r \in batch THEN "new" ELSE "never"]
  BY DEF Init, RuntimeInit
<1>2. status \in [Runs -> {"never", "new", "running", "completed", "failed", "lost"}]
  BY <1>1
<1>3. <<>> \in Seq(Events)
  BY EmptySeq
<1>4. RuntimeTypeOK
  BY <1>2, <1>3 DEF Init, RuntimeInit, RuntimeTypeOK, Places, NoneMade
<1>5. PendingOK
  BY DEF Init, PendingOK
<1>6. /\ watch \in [Clients -> Runs \cup {Nothing}]
      /\ got \in [Clients -> Seq(Events)]
      /\ down \in BOOLEAN
  BY <1>3 DEF Init
<1> QED
  BY <1>4, <1>5, <1>6 DEF TypeOK, PendingOK

\* Every step keeps the types of the runs, of the gates and of the clients.
LEMMA TypeNext == ASSUME TypeOK, [Next]_vars PROVE TypeOK'
<1>1. CASE Next
  <2>1. PendingOK'
    BY <1>1, PendingType
  <2>2. down' \in BOOLEAN
    BY <1>1 DEF Next, TypeOK, FlowStep, ParkGate, PostDecision, Subscribe, Unsubscribe, Crash
  <2>3. ASSUME NEW r \in Runs, NEW t \in Threads, Moves(r, t)
        PROVE  TypeOK'
    <3>1. RuntimeTypeOK' /\ watch' = watch
      BY <2>3, ClientsAreSent
    <3>2. PICK ev \in Seq(Events) :
            got' = [c \in Clients |-> IF watch[c] = r THEN got[c] \o ev ELSE got[c]]
      BY <2>3, ClientsAreSent
    <3>3. \A c \in Clients : got[c] \in Seq(Events) /\ got[c] \o ev \in Seq(Events)
      BY Appended DEF TypeOK
    <3> QED
      BY <2>1, <2>2, <3>1, <3>2, <3>3 DEF TypeOK, PendingOK
  <2>4. ASSUME NEW c \in Clients, NEW r \in Runs, Subscribe(c, r)
        PROVE  TypeOK'
    <3>1. buffer[r] \in Seq(Events) /\ got' = [got EXCEPT ![c] = buffer[r]]
      BY <2>4 DEF Subscribe, Replay, TypeOK, RuntimeTypeOK
    <3>2. RuntimeTypeOK'
      BY <2>4 DEF Subscribe, TypeOK, RuntimeTypeOK
    <3>3. watch' \in [Clients -> Runs \cup {Nothing}]
      BY <2>4 DEF Subscribe, TypeOK
    <3> QED
      BY <2>1, <2>2, <3>1, <3>2, <3>3 DEF TypeOK, PendingOK
  <2>5. ASSUME NEW c \in Clients, Unsubscribe(c)
        PROVE  TypeOK'
    <3>1. <<>> \in Seq(Events)
      BY EmptySeq
    <3>2. RuntimeTypeOK'
      BY <2>5 DEF Unsubscribe, TypeOK, RuntimeTypeOK
    <3>3. watch' \in [Clients -> Runs \cup {Nothing}] /\ got' \in [Clients -> Seq(Events)]
      BY <2>5, <3>1 DEF Unsubscribe, TypeOK
    <3> QED
      BY <2>1, <2>2, <3>2, <3>3 DEF TypeOK, PendingOK
  <2>6. CASE Crash
    <3>1. <<>> \in Seq(Events)
      BY EmptySeq
    <3>2. RuntimeTypeOK'
      BY <2>6, <3>1 DEF Crash, TypeOK, RuntimeTypeOK, Places, NoneMade
    <3> QED
      BY <2>1, <2>2, <2>6, <3>1, <3>2 DEF Crash, TypeOK, PendingOK
  <2> QED
    BY <1>1, <2>3, <2>4, <2>5, <2>6, ServerSteps
<1>2. CASE UNCHANGED vars
  BY <1>2 DEF vars, TypeOK, RuntimeTypeOK
<1> QED
  BY <1>1, <1>2

\* In every run of the server the runs, the parked gates and the clients keep their
\* types: a parked resolver is a thread of a run, an event sent is an event emitted.
THEOREM TypeCorrect == Spec => []TypeOK
  BY TypeInit, TypeNext, PTL DEF Spec

-----------------------------------------------------------------------------
(* The watchers. *)

LEMMA WatchersNext ==
  ASSUME TypeOK, WatchersSeeTheLog, [Next]_vars
  PROVE  WatchersSeeTheLog'
<1>1. ASSUME NEW r \in Runs, NEW t \in Threads, Moves(r, t)
      PROVE  WatchersSeeTheLog'
  <2>1. PICK ev \in Seq(Events) :
          /\ Emit(r, ev)
          /\ got' = [c \in Clients |-> IF watch[c] = r THEN got[c] \o ev ELSE got[c]]
    BY <1>1, ClientsAreSent
  <2>2. watch' = watch
    BY <1>1 DEF Moves
  <2>3. buffer'[r] = buffer[r] \o ev /\ \A x \in Runs \ {r} : buffer'[x] = buffer[x]
    BY <2>1, EmitType DEF TypeOK
  <2>4. watch \in [Clients -> Runs \cup {Nothing}]
    BY DEF TypeOK
  <2> QED
    BY <2>1, <2>2, <2>3, <2>4 DEF WatchersSeeTheLog
<1>2. ASSUME NEW c \in Clients, NEW r \in Runs, Subscribe(c, r)
      PROVE  WatchersSeeTheLog'
  BY <1>2 DEF Subscribe, Replay, WatchersSeeTheLog, TypeOK
<1>3. ASSUME NEW c \in Clients, Unsubscribe(c)
      PROVE  WatchersSeeTheLog'
  BY <1>3 DEF Unsubscribe, WatchersSeeTheLog, TypeOK
<1>4. CASE Crash
  BY <1>4 DEF Crash, WatchersSeeTheLog
<1>5. CASE UNCHANGED vars
  BY <1>5 DEF vars, WatchersSeeTheLog
<1> QED
  BY <1>1, <1>2, <1>3, <1>4, <1>5, ServerSteps

\* A client that watches a run, however late it joined and whatever the other runs and
\* clients do, has been sent exactly the events of that run, in order, none missing
\* and none twice.
THEOREM WatchersHold == Spec => []WatchersSeeTheLog
<1>1. Init => WatchersSeeTheLog
  BY DEF Init, WatchersSeeTheLog
<1> QED
  BY <1>1, TypeCorrect, WatchersNext, PTL DEF Spec

-----------------------------------------------------------------------------
(* The threads of a run, and the gates they wait at. *)

\* Only a running run has threads, and workers only while the flow awaits them.
IdleUnlessRunning ==
  \A r \in Runs, t \in Threads : status[r] # "running" => at[r][t] = "off"

WorkersOnlyInJoin ==
  \A r \in Runs, w \in Workers : at[r][Main] # "join" => at[r][w] = "off"

ThreadsInOrder == IdleUnlessRunning /\ WorkersOnlyInJoin

\* A gate a thread waits at is one the run has numbered.
GateIdsAreMade ==
  \A r \in Runs, t \in Threads : at[r][t] = "gate" => call[r][t] \in 1 .. made[r].gates

\* One thread that is neither off nor joining moves on.
LEMMA MoveInOrder ==
  ASSUME RuntimeTypeOK, ThreadsInOrder, NEW r \in Runs, NEW t \in Threads,
         NEW place \in Places \ {"join"}, Go(r, t, place), UNCHANGED status,
         at[r][t] \notin {"off", "join"}
  PROVE  ThreadsInOrder'
<1>1. /\ at'[r][t] = place
      /\ \A x \in Runs, y \in Threads : <<x, y>> # <<r, t>> => at'[x][y] = at[x][y]
  BY GoType
<1>2. Main \in Threads /\ Workers \subseteq Threads /\ Main \notin Workers
  BY RuntimeAssumption DEF Threads
<1>3. IdleUnlessRunning'
  BY <1>1 DEF ThreadsInOrder, IdleUnlessRunning
<1>4. WorkersOnlyInJoin'
  BY <1>1, <1>2 DEF ThreadsInOrder, WorkersOnlyInJoin, Threads
<1> QED
  BY <1>3, <1>4 DEF ThreadsInOrder

\* The flow's own thread ends the run.
LEMMA EndInOrder ==
  ASSUME RuntimeTypeOK, ThreadsInOrder, NEW r \in Runs, NEW how \in {"completed", "failed"},
         Go(r, Main, "off"), status' = [status EXCEPT ![r] = how],
         at[r][Main] \notin {"off", "join"}
  PROVE  ThreadsInOrder' /\ \A t \in Threads \ {Main} : at[r][t] = "off"
<1>1. Main \in Threads /\ Workers \subseteq Threads /\ Main \notin Workers
  BY RuntimeAssumption DEF Threads
<1>2. /\ at'[r][Main] = "off"
      /\ \A x \in Runs, y \in Threads : <<x, y>> # <<r, Main>> => at'[x][y] = at[x][y]
  BY <1>1, GoType DEF Places
<1>3. \A w \in Threads \ {Main} : at[r][w] = "off"
  BY <1>1 DEF ThreadsInOrder, WorkersOnlyInJoin, Threads
<1>4. /\ status'[r] = how /\ \A x \in Runs \ {r} : status'[x] = status[x]
  BY DEF RuntimeTypeOK
<1>5. IdleUnlessRunning'
  BY <1>2, <1>3, <1>4 DEF ThreadsInOrder, IdleUnlessRunning
<1>6. WorkersOnlyInJoin'
  BY <1>1, <1>2, <1>3 DEF ThreadsInOrder, WorkersOnlyInJoin
<1> QED
  BY <1>3, <1>5, <1>6 DEF ThreadsInOrder

\* A step that opens and passes no gate leaves the threads at gates where they are.
GatesStay ==
  \A x \in Runs, t \in Threads :
    /\ at'[x][t] = "gate" <=> at[x][t] = "gate"
    /\ at[x][t] = "gate" => call'[x][t] = call[x][t]
    /\ made'[x].gates = made[x].gates

LEMMA UngatedThreads ==
  ASSUME RuntimeTypeOK, ThreadsInOrder, NEW r \in Runs, UngatedStep(r)
  PROVE  ThreadsInOrder' /\ GatesStay
<1>1. Main \in Threads /\ Workers \subseteq Threads /\ Main \notin Workers
  BY RuntimeAssumption DEF Threads
<1>2. /\ status \in [Runs -> {"never", "new", "running", "completed", "failed", "lost"}]
      /\ at \in [Runs -> [Threads -> Places]]
      /\ call \in [Runs -> [Threads -> Nat]]
      /\ made \in [Runs -> [agents : Nat, gates : Nat, phases : Nat]]
  BY DEF RuntimeTypeOK
<1>3. ASSUME StartRun(r)
      PROVE  ThreadsInOrder' /\ GatesStay
  <2>1. /\ at'[r][Main] = "code"
        /\ \A x \in Runs, y \in Threads : <<x, y>> # <<r, Main>> => at'[x][y] = at[x][y]
    BY <1>1, <1>3, GoType DEF StartRun, Places
  <2>2. /\ status[r] = "new" /\ status' = [status EXCEPT ![r] = "running"]
        /\ UNCHANGED <<call, made>>
    BY <1>3 DEF StartRun
  <2>3. \A t \in Threads : at[r][t] = "off"
    BY <2>2 DEF ThreadsInOrder, IdleUnlessRunning
  <2>4. IdleUnlessRunning'
    BY <1>2, <2>1, <2>2, <2>3 DEF ThreadsInOrder, IdleUnlessRunning
  <2>5. WorkersOnlyInJoin'
    BY <1>1, <2>1, <2>3 DEF ThreadsInOrder, WorkersOnlyInJoin
  <2>6. GatesStay
    BY <1>1, <2>1, <2>2, <2>3 DEF GatesStay
  <2> QED
    BY <2>4, <2>5, <2>6 DEF ThreadsInOrder
<1>4. ASSUME NEW u \in Threads, CallAgent(r, u)
      PROVE  ThreadsInOrder' /\ GatesStay
  <2>1. /\ at[r][u] = "code" /\ Go(r, u, "agent") /\ UNCHANGED status
        /\ call' = [call EXCEPT ![r][u] = made'[r].agents]
        /\ made' = [made EXCEPT ![r].agents = @ + 1]
    BY <1>4 DEF CallAgent
  <2>2. ThreadsInOrder'
    BY <2>1, MoveInOrder DEF Places
  <2>3. \A x \in Runs : made'[x].gates = made[x].gates
    BY <1>2, <2>1
  <2>4. /\ at'[r][u] = "agent"
        /\ \A x \in Runs, y \in Threads : <<x, y>> # <<r, u>> => at'[x][y] = at[x][y]
    BY <2>1, GoType DEF Places
  <2>5. \A x \in Runs, y \in Threads : <<x, y>> # <<r, u>> => call'[x][y] = call[x][y]
    BY <1>2, <2>1
  <2> QED
    BY <2>1, <2>2, <2>3, <2>4, <2>5 DEF GatesStay
<1>5. ASSUME NEW u \in Threads, (\E cost \in Costs : AgentReturns(r, u, cost)) \/ AgentFails(r, u)
      PROVE  ThreadsInOrder' /\ GatesStay
  <2>1. PICK how \in {"ok", "failed"}, place \in {"code", "null", "off"}, tail \in Seq(Events) :
           Answered(r, u, how, place, tail)
    BY <1>5, AgentSettles
  <2>2. at[r][u] = "agent" /\ call' = [call EXCEPT ![r][u] = 0] /\ UNCHANGED made
    BY <1>5, AgentSettles
  <2>3. /\ at'[r][u] = place
        /\ \A x \in Runs, y \in Threads : <<x, y>> # <<r, u>> => at'[x][y] = at[x][y]
    BY <2>1, GoType DEF Places, Answered
  <2>4. \A x \in Runs, y \in Threads : <<x, y>> # <<r, u>> => call'[x][y] = call[x][y]
    BY <1>2, <2>2
  <2>5. GatesStay
    BY <2>2, <2>3, <2>4 DEF GatesStay
  <2>6. CASE place = "off"
    BY <2>1, <2>2, <2>5, <2>6, EndInOrder DEF Answered
  <2>7. CASE place # "off"
    BY <2>1, <2>2, <2>5, <2>7, MoveInOrder DEF Answered, Places
  <2> QED
    BY <2>6, <2>7
<1>6. ASSUME NEW u \in Threads, Phase(r, u)
      PROVE  ThreadsInOrder' /\ GatesStay
  <2>1. UNCHANGED <<status, at, call>> /\ made' = [made EXCEPT ![r].phases = made[r].phases + 1]
    BY <1>6 DEF Phase
  <2>2. \A x \in Runs : made'[x].gates = made[x].gates
    BY <1>2, <2>1
  <2> QED
    BY <2>1, <2>2 DEF ThreadsInOrder, IdleUnlessRunning, WorkersOnlyInJoin, GatesStay
<1>7. ASSUME NEW u \in Threads, NEW c \in Shape[r].cursors, Commit(r, u, c)
      PROVE  ThreadsInOrder' /\ GatesStay
  BY <1>7 DEF Commit, ThreadsInOrder, IdleUnlessRunning, WorkersOnlyInJoin, GatesStay
<1>8. ASSUME NEW team \in SUBSET Shape[r].team, Fork(r, team)
      PROVE  ThreadsInOrder' /\ GatesStay
  <2>1. /\ at[r][Main] = "code" /\ UNCHANGED <<status, call, made>>
        /\ at' = [at EXCEPT ![r] = [t \in Threads |-> IF t = Main THEN "join"
                                                      ELSE IF t \in team THEN "code"
                                                      ELSE "off"]]
    BY <1>8 DEF Fork
  <2>2. /\ at'[r] = [t \in Threads |-> IF t = Main THEN "join"
                                       ELSE IF t \in team THEN "code" ELSE "off"]
        /\ \A x \in Runs \ {r} : at'[x] = at[x]
    BY <1>2, <2>1
  <2>3. \A w \in Workers : at[r][w] = "off"
    BY <2>1 DEF ThreadsInOrder, WorkersOnlyInJoin
  <2>4. status[r] = "running"
    BY <1>1, <2>1 DEF ThreadsInOrder, IdleUnlessRunning
  <2>5. IdleUnlessRunning'
    BY <2>1, <2>2, <2>4 DEF ThreadsInOrder, IdleUnlessRunning
  <2>6. WorkersOnlyInJoin'
    BY <1>1, <2>2 DEF ThreadsInOrder, WorkersOnlyInJoin
  <2>7. GatesStay
    BY <2>1, <2>2, <2>3 DEF GatesStay, Threads
  <2> QED
    BY <2>5, <2>6, <2>7 DEF ThreadsInOrder
<1>9. ASSUME NEW w \in Workers, NEW place \in {"value", "null"}, WorkerSettles(r, w, place)
      PROVE  ThreadsInOrder' /\ GatesStay
  <2>1. /\ at[r][w] = "code" /\ Go(r, w, place) /\ UNCHANGED <<status, call, made>>
    BY <1>9 DEF WorkerSettles
  <2>2. ThreadsInOrder'
    BY <1>1, <2>1, MoveInOrder DEF Places
  <2>3. /\ at'[r][w] = place
        /\ \A x \in Runs, y \in Threads : <<x, y>> # <<r, w>> => at'[x][y] = at[x][y]
    BY <1>1, <2>1, GoType DEF Places
  <2> QED
    BY <2>1, <2>2, <2>3 DEF GatesStay
<1>10. ASSUME Join(r)
       PROVE  ThreadsInOrder' /\ GatesStay
  <2>1. /\ at[r][Main] = "join" /\ AllSettled(r) /\ UNCHANGED <<status, call, made>>
        /\ at' = [at EXCEPT ![r] = [t \in Threads |-> IF t = Main THEN "code" ELSE "off"]]
    BY <1>10 DEF Join
  <2>2. /\ at'[r] = [t \in Threads |-> IF t = Main THEN "code" ELSE "off"]
        /\ \A x \in Runs \ {r} : at'[x] = at[x]
    BY <1>2, <2>1
  <2>3. \A t \in Threads : at[r][t] # "gate"
    BY <2>1 DEF AllSettled, Busy, Threads
  <2>4. status[r] = "running"
    BY <1>1, <2>1 DEF ThreadsInOrder, IdleUnlessRunning
  <2>5. IdleUnlessRunning'
    BY <2>1, <2>2, <2>4 DEF ThreadsInOrder, IdleUnlessRunning
  <2>6. WorkersOnlyInJoin'
    BY <1>1, <2>2 DEF ThreadsInOrder, WorkersOnlyInJoin
  <2>7. GatesStay
    BY <2>1, <2>2, <2>3 DEF GatesStay
  <2> QED
    BY <2>5, <2>6, <2>7 DEF ThreadsInOrder
<1>11. ASSUME NEW outcome \in {"completed", "failed"}, Finish(r, outcome)
       PROVE  ThreadsInOrder' /\ GatesStay
  <2>1. /\ at[r][Main] = "code" /\ Go(r, Main, "off") /\ UNCHANGED <<call, made>>
        /\ status' = [status EXCEPT ![r] = outcome]
    BY <1>11 DEF Finish
  <2>2. ThreadsInOrder'
    BY <2>1, EndInOrder
  <2>3. /\ at'[r][Main] = "off"
        /\ \A x \in Runs, y \in Threads : <<x, y>> # <<r, Main>> => at'[x][y] = at[x][y]
    BY <1>1, <2>1, GoType DEF Places
  <2> QED
    BY <1>1, <2>1, <2>2, <2>3 DEF GatesStay
<1> QED
  BY <1>3, <1>4, <1>5, <1>6, <1>7, <1>8, <1>9, <1>10, <1>11 DEF UngatedStep

\* The inductive invariant: a new gate's key is free because every parked key is a
\* number already given, and a gate never vanishes with its thread because only the
\* flow's own thread ends a run, with no worker left.
GatesInv == ThreadsInOrder /\ GateIdsAreMade /\ GatesAreReachable

LEMMA GatesParked ==
  ASSUME TypeOK, GatesInv, NEW r \in Runs, NEW t \in Threads, ParkGate(r, t)
  PROVE  GatesInv'
<1> DEFINE g == made[r].gates + 1
           key == <<r, g>>
<1>1. /\ at[r][t] = "code" /\ made'[r].gates = g
      /\ made' = [made EXCEPT ![r].gates = @ + 1]
      /\ call' = [call EXCEPT ![r][t] = g]
      /\ Go(r, t, "gate") /\ UNCHANGED status
      /\ pending' = [k \in DOMAIN pending \cup {key} |-> IF k = key THEN <<r, t>> ELSE pending[k]]
  BY ParkedGate
<1>2. /\ RuntimeTypeOK /\ made[r].gates \in Nat /\ g \in Nat
      /\ call \in [Runs -> [Threads -> Nat]]
  BY <1>1 DEF TypeOK, RuntimeTypeOK
<1>3. /\ at'[r][t] = "gate"
      /\ \A x \in Runs, y \in Threads : <<x, y>> # <<r, t>> => at'[x][y] = at[x][y]
  BY <1>1, <1>2, GoType DEF Places
<1>4. /\ call'[r][t] = g
      /\ \A x \in Runs, y \in Threads : <<x, y>> # <<r, t>> => call'[x][y] = call[x][y]
  BY <1>1, <1>2
<1>5. \A x \in Runs : made'[x].gates = IF x = r THEN g ELSE made[x].gates
  BY <1>1, <1>2, CountersType
<1>6. ThreadsInOrder'
  BY <1>1, <1>2, MoveInOrder DEF Places, GatesInv
<1>7. GateIdsAreMade'
  <2> SUFFICES ASSUME NEW x \in Runs, NEW y \in Threads, at'[x][y] = "gate"
               PROVE  call'[x][y] \in 1 .. made'[x].gates
    BY DEF GateIdsAreMade
  <2>1. CASE <<x, y>> = <<r, t>>
    BY <2>1, <1>2, <1>4, <1>5
  <2>2. CASE <<x, y>> # <<r, t>>
    <3>1. call[x][y] \in 1 .. made[x].gates /\ call'[x][y] = call[x][y]
      BY <2>2, <1>3, <1>4 DEF GatesInv, GateIdsAreMade
    <3>2. made'[x].gates = made[x].gates \/ (x = r /\ made'[x].gates = made[r].gates + 1)
      BY <1>5
    <3> QED
      BY <3>1, <3>2, <1>2
  <2> QED
    BY <2>1, <2>2
<1>8. key \notin DOMAIN pending
  <2> SUFFICES ASSUME key \in DOMAIN pending PROVE FALSE
    OBVIOUS
  <2>1. pending[key] \in Runs \X Threads
    BY DEF TypeOK
  <2>2. PICK x \in Runs, y \in Threads : pending[key] = <<x, y>>
    BY <2>1
  <2>3. at[x][y] = "gate" /\ key = <<x, call[x][y]>>
    BY <2>2 DEF GatesInv, GatesAreReachable
  <2>4. g \in 1 .. made[r].gates
    BY <2>3 DEF GatesInv, GateIdsAreMade
  <2> QED
    BY <2>4, <1>2
<1> HIDE DEF key
<1>9. /\ key \in DOMAIN pending' /\ pending'[key] = <<r, t>>
      /\ \A k \in DOMAIN pending : k \in DOMAIN pending' /\ k # key /\ pending'[k] = pending[k]
      /\ \A k \in DOMAIN pending' : k = key \/ k \in DOMAIN pending
  BY <1>1, <1>8
<1>10. ASSUME NEW x \in Runs, NEW y \in Threads, at'[x][y] = "gate"
       PROVE  <<x, call'[x][y]>> \in DOMAIN pending' /\ pending'[<<x, call'[x][y]>>] = <<x, y>>
  <2>1. CASE <<x, y>> = <<r, t>>
    BY <2>1, <1>4, <1>9 DEF key
  <2>2. CASE <<x, y>> # <<r, t>>
    <3>1. at[x][y] = "gate" /\ call'[x][y] = call[x][y]
      BY <1>10, <2>2, <1>3, <1>4
    <3>2. <<x, call[x][y]>> \in DOMAIN pending /\ pending[<<x, call[x][y]>>] = <<x, y>>
      BY <3>1 DEF GatesInv, GatesAreReachable
    <3> QED
      BY <3>1, <3>2, <1>9
  <2> QED
    BY <2>1, <2>2
<1>11. ASSUME NEW k \in DOMAIN pending'
       PROVE  at'[pending'[k][1]][pending'[k][2]] = "gate"
              /\ k = <<pending'[k][1], call'[pending'[k][1]][pending'[k][2]]>>
  <2>1. CASE k = key
    BY <2>1, <1>3, <1>4, <1>9 DEF key
  <2>2. CASE k \in DOMAIN pending
    <3>1. pending[k] \in Runs \X Threads
      BY <2>2 DEF TypeOK
    <3>2. PICK x \in Runs, y \in Threads : pending[k] = <<x, y>>
      BY <3>1
    <3>3. at[x][y] = "gate" /\ k = <<x, call[x][y]>>
      BY <2>2, <3>2 DEF GatesInv, GatesAreReachable
    <3>4. <<x, y>> # <<r, t>>
      BY <3>3, <1>1
    <3>5. at'[x][y] = "gate" /\ call'[x][y] = call[x][y] /\ pending'[k] = <<x, y>>
      BY <2>2, <3>2, <3>3, <3>4, <1>3, <1>4, <1>9
    <3> QED
      BY <3>3, <3>5
  <2> QED
    BY <2>1, <2>2, <1>9
<1>12. GatesAreReachable'
  BY <1>10, <1>11 DEF GatesAreReachable
<1> QED
  BY <1>6, <1>7, <1>12 DEF GatesInv

LEMMA GatesPassed ==
  ASSUME TypeOK, GatesInv, NEW r \in Runs, NEW id \in Gates(r), NEW d \in Decisions,
         PostDecision(r, id, d)
  PROVE  GatesInv'
<1> DEFINE key == <<r, id>>
           x == pending[key][1]
           t == pending[key][2]
<1>1. /\ key \in DOMAIN pending /\ x \in Runs /\ t \in Threads
      /\ pending[key] = <<x, t>>
      /\ pending' = [k \in DOMAIN pending \ {key} |-> pending[k]]
      /\ PassGate(x, t, d)
  BY DecidedGate
<1>2. at[x][t] = "gate" /\ key = <<x, call[x][t]>>
  BY <1>1 DEF GatesInv, GatesAreReachable
<1> HIDE DEF key, x, t
<1>3. /\ Go(x, t, "code") /\ UNCHANGED <<status, made>>
      /\ call' = [call EXCEPT ![x][t] = 0]
  BY <1>1 DEF PassGate
<1>4. RuntimeTypeOK /\ call \in [Runs -> [Threads -> Nat]]
  BY DEF TypeOK, RuntimeTypeOK
<1>5. /\ at'[x][t] = "code"
      /\ \A u \in Runs, y \in Threads : <<u, y>> # <<x, t>> => at'[u][y] = at[u][y]
  BY <1>1, <1>3, <1>4, GoType DEF Places
<1>6. \A u \in Runs, y \in Threads : <<u, y>> # <<x, t>> => call'[u][y] = call[u][y]
  BY <1>3, <1>4
<1>7. ThreadsInOrder'
  BY <1>1, <1>2, <1>3, <1>4, MoveInOrder DEF Places, GatesInv
<1>8. GateIdsAreMade'
  BY <1>1, <1>3, <1>5, <1>6 DEF GatesInv, GateIdsAreMade
<1>9. ASSUME NEW u \in Runs, NEW y \in Threads, at'[u][y] = "gate"
      PROVE  <<u, call'[u][y]>> \in DOMAIN pending' /\ pending'[<<u, call'[u][y]>>] = <<u, y>>
  <2>1. <<u, y>> # <<x, t>>
    BY <1>1, <1>5, <1>9
  <2>2. at[u][y] = "gate" /\ call'[u][y] = call[u][y]
    BY <1>5, <1>6, <1>9, <2>1
  <2>3. <<u, call[u][y]>> \in DOMAIN pending /\ pending[<<u, call[u][y]>>] = <<u, y>>
    BY <2>2 DEF GatesInv, GatesAreReachable
  <2>4. <<u, call[u][y]>> # key
    BY <1>1, <2>1, <2>3
  <2> QED
    BY <1>1, <2>2, <2>3, <2>4
<1>10. ASSUME NEW k \in DOMAIN pending'
       PROVE  at'[pending'[k][1]][pending'[k][2]] = "gate"
              /\ k = <<pending'[k][1], call'[pending'[k][1]][pending'[k][2]]>>
  <2>1. k \in DOMAIN pending /\ k # key /\ pending'[k] = pending[k]
    BY <1>1, <1>10
  <2>2. pending[k] \in Runs \X Threads
    BY <2>1 DEF TypeOK
  <2>3. PICK u \in Runs, y \in Threads : pending[k] = <<u, y>>
    BY <2>2
  <2>4. at[u][y] = "gate" /\ k = <<u, call[u][y]>>
    BY <2>1, <2>3 DEF GatesInv, GatesAreReachable
  <2>5. <<u, y>> # <<x, t>>
    BY <2>1, <2>4, <1>2
  <2>6. at'[u][y] = "gate" /\ call'[u][y] = call[u][y]
    BY <2>4, <2>5, <1>5, <1>6
  <2> QED
    BY <2>1, <2>3, <2>4, <2>6
<1>11. GatesAreReachable'
  BY <1>9, <1>10 DEF GatesAreReachable
<1> QED
  BY <1>7, <1>8, <1>11 DEF GatesInv

LEMMA GatesNext == ASSUME TypeOK, GatesInv, [Next]_vars PROVE GatesInv'
<1>1. ASSUME NEW r \in Runs, FlowStep(r)
      PROVE  GatesInv'
  <2>1. RuntimeTypeOK /\ UngatedStep(r) /\ UNCHANGED pending
    BY <1>1 DEF TypeOK, FlowStep
  <2>2. ThreadsInOrder' /\ GatesStay
    BY <2>1, UngatedThreads DEF GatesInv
  <2>3. GateIdsAreMade'
    BY <2>2 DEF GatesInv, GateIdsAreMade, GatesStay
  <2>4. pending \in [DOMAIN pending -> Runs \X Threads]
    BY DEF TypeOK
  <2>5. ASSUME NEW x \in Runs, NEW t \in Threads, at'[x][t] = "gate"
        PROVE  <<x, call'[x][t]>> \in DOMAIN pending' /\ pending'[<<x, call'[x][t]>>] = <<x, t>>
    <3>1. at[x][t] = "gate" /\ call'[x][t] = call[x][t]
      BY <2>2, <2>5 DEF GatesStay
    <3> QED
      BY <2>1, <3>1 DEF GatesInv, GatesAreReachable
  <2>6. ASSUME NEW k \in DOMAIN pending'
        PROVE  at'[pending'[k][1]][pending'[k][2]] = "gate"
               /\ k = <<pending'[k][1], call'[pending'[k][1]][pending'[k][2]]>>
    <3>1. k \in DOMAIN pending /\ pending'[k] = pending[k]
      BY <2>1, <2>6
    <3>2. PICK x \in Runs, t \in Threads : pending[k] = <<x, t>>
      BY <2>4, <3>1
    <3>3. at[x][t] = "gate" /\ k = <<x, call[x][t]>>
      BY <3>1, <3>2 DEF GatesInv, GatesAreReachable
    <3>4. at'[x][t] = "gate" /\ call'[x][t] = call[x][t]
      BY <2>2, <3>3 DEF GatesStay
    <3> QED
      BY <3>1, <3>2, <3>3, <3>4
  <2>7. GatesAreReachable'
    BY <2>5, <2>6 DEF GatesAreReachable
  <2> QED
    BY <2>2, <2>3, <2>7 DEF GatesInv
<1>2. CASE UNCHANGED <<status, at, call, made, pending>>
  BY <1>2 DEF GatesInv, ThreadsInOrder, IdleUnlessRunning, WorkersOnlyInJoin,
              GateIdsAreMade, GatesAreReachable
<1>3. CASE Crash
  <2>1. /\ \A x \in Runs, t \in Threads : at'[x][t] = "off"
        /\ DOMAIN pending' = {}
    BY <1>3 DEF Crash
  <2>2. Main \in Threads /\ Workers \subseteq Threads
    BY DEF Threads
  <2> QED
    BY <2>1, <2>2 DEF GatesInv, ThreadsInOrder, IdleUnlessRunning, WorkersOnlyInJoin,
                      GateIdsAreMade, GatesAreReachable
<1> QED
  BY <1>1, <1>2, <1>3, GatesParked, GatesPassed
     DEF Next, vars, Subscribe, Unsubscribe

\* Whatever flows, workers and clients do: a thread that waits at a gate can be reached
\* under its own run and approval id, and no parked resolver has lost its thread.
THEOREM GatesHold == Spec => []GatesAreReachable
<1>1. Init => GatesInv
  <2> SUFFICES ASSUME Init PROVE GatesInv
    OBVIOUS
  <2>1. /\ \A x \in Runs, t \in Threads : at[x][t] = "off"
        /\ DOMAIN pending = {}
    BY DEF Init, RuntimeInit
  <2>2. Main \in Threads /\ Workers \subseteq Threads
    BY DEF Threads
  <2> QED
    BY <2>1, <2>2 DEF GatesInv, ThreadsInOrder, IdleUnlessRunning, WorkersOnlyInJoin,
                      GateIdsAreMade, GatesAreReachable
<1>2. GatesInv => GatesAreReachable
  BY DEF GatesInv
<1> QED
  BY <1>1, <1>2, TypeCorrect, GatesNext, PTL DEF Spec

-----------------------------------------------------------------------------
(* The budget. *)

\* An event by which money is counted: a node that answered, or an overrun.
IsCharge(e) == e.type = "agent_done" /\ e.how = "ok"

IsMoney(e) == e.type = "budget_exceeded" \/ IsCharge(e)

\* A step either takes the answer of an executor or spends nothing and says nothing of
\* money.
LEMMA MoneyEvents ==
  ASSUME RuntimeTypeOK, NEW r \in Runs, NEW t \in Threads,
         \/ UngatedStep(r)
         \/ OpenGate(r, t)
         \/ \E d \in Decisions : PassGate(r, t, d)
  PROVE  \/ /\ \E u \in Threads, place \in {"code", "null", "off"}, tail \in Seq(Events) :
                  Answered(r, u, "ok", place, tail)
            /\ spent' \in [Runs -> Nat] /\ \A x \in Runs \ {r} : spent'[x] = spent[x]
         \/ /\ UNCHANGED spent
            /\ \E ev \in Seq(Events) :
                 Emit(r, ev) /\ \A i \in DOMAIN ev : ~IsMoney(ev[i])
<1> DEFINE Silent == /\ UNCHANGED spent
                     /\ \E ev \in Seq(Events) :
                          Emit(r, ev) /\ \A i \in DOMAIN ev : ~IsMoney(ev[i])
<1>1. ASSUME NEW e \in Events, ~IsMoney(e), Emit(r, <<e>>)
      PROVE  \E ev \in Seq(Events) : Emit(r, ev) /\ \A i \in DOMAIN ev : ~IsMoney(ev[i])
  <2>1. <<e>> \in Seq(Events) /\ DOMAIN <<e>> = {1} /\ <<e>>[1] = e
    BY OneEvent
  <2> QED
    BY <1>1, <2>1
<1>2. /\ \A x \in Runs : made[x].agents + 1 \in Nat /\ made[x].gates + 1 \in Nat
                         /\ made[x].phases \in Nat
      /\ \A x \in Runs, u \in Threads : call[x][u] \in Nat
      /\ made \in [Runs -> [agents : Nat, gates : Nat, phases : Nat]]
  BY SMTT(30) DEF RuntimeTypeOK
<1>3. ASSUME StartRun(r)
      PROVE  Silent
  <2>1. Event("run_started", 0, 0, "") \in Events
    BY EventType
  <2>2. ~IsMoney(Event("run_started", 0, 0, ""))
    BY DEF IsMoney, IsCharge, Event
  <2> QED
    BY <1>1, <1>3, <2>1, <2>2 DEF StartRun
<1>4. ASSUME NEW u \in Threads, CallAgent(r, u)
      PROVE  Silent
  <2> DEFINE e == Event("agent_started", made[r].agents + 1, made[r].phases, "")
  <2>1. made'[r].agents = made[r].agents + 1
    BY <1>2, <1>4 DEF CallAgent
  <2>2. e \in Events
    BY <1>2, EventType
  <2>3. ~IsMoney(e)
    BY DEF IsMoney, IsCharge, Event
  <2>4. Emit(r, <<e>>) /\ UNCHANGED spent
    BY <1>4, <2>1 DEF CallAgent
  <2> QED
    BY <1>1, <2>2, <2>3, <2>4
<1>5. ASSUME NEW u \in Threads, NEW place \in {"code", "null", "off"},
             NEW tail \in Seq(Events), Answered(r, u, "failed", place, tail)
      PROVE  Silent
  <2> DEFINE e == Event("agent_done", call[r][u], 0, "failed")
  <2>1. e \in Events
    BY <1>2, EventType
  <2>2. ~IsMoney(e)
    BY DEF IsMoney, IsCharge, Event
  <2>3. /\ Emit(r, <<e>> \o tail) /\ UNCHANGED spent
        /\ \A i \in DOMAIN tail : tail[i].type = "run_done"
    BY <1>5 DEF Answered
  <2> HIDE DEF e
  <2>4. <<e>> \in Seq(Events) /\ DOMAIN <<e>> = {1} /\ <<e>>[1] = e
    BY <2>1, OneEvent
  <2>5. \A i \in DOMAIN tail : ~IsMoney(tail[i])
    BY <2>3 DEF IsMoney, IsCharge
  <2>6. <<e>> \o tail \in Seq(Events)
    BY <2>4, Appended
  <2>7. \A i \in DOMAIN (<<e>> \o tail) : ~IsMoney((<<e>> \o tail)[i])
    BY <2>2, <2>4, <2>5, AppendedSplit
  <2> QED
    BY <2>3, <2>6, <2>7
<1>6. ASSUME NEW u \in Threads, (\E cost \in Costs : AgentReturns(r, u, cost)) \/ AgentFails(r, u)
      PROVE  \/ Silent
             \/ /\ \E x \in Threads, place \in {"code", "null", "off"}, tail \in Seq(Events) :
                      Answered(r, x, "ok", place, tail)
                /\ spent' \in [Runs -> Nat] /\ \A x \in Runs \ {r} : spent'[x] = spent[x]
  <2>1. PICK how \in {"ok", "failed"}, place \in {"code", "null", "off"}, tail \in Seq(Events) :
           Answered(r, u, how, place, tail)
    BY <1>6, AgentSettles
  <2>2. spent' \in [Runs -> Nat] /\ \A x \in Runs \ {r} : spent'[x] = spent[x]
    BY <1>6, AgentSettles
  <2> QED
    BY <2>1, <2>2, <1>5
<1>7. ASSUME NEW u \in Threads, Phase(r, u)
      PROVE  Silent
  <2>1. PICK ev \in Seq(Events) :
          /\ Emit(r, ev)
          /\ \A i \in DOMAIN ev : ev[i].type \in {"phase_done", "phase_started"}
    BY <1>7, PhaseEvents
  <2>2. \A i \in DOMAIN ev : ~IsMoney(ev[i])
    BY <2>1 DEF IsMoney, IsCharge
  <2> QED
    BY <1>7, <2>1, <2>2 DEF Phase
<1>8. ASSUME UNCHANGED <<buffer, spent>>
      PROVE  Silent
  <2>1. <<>> \in Seq(Events) /\ Emit(r, <<>>) /\ DOMAIN <<>> = {}
    BY <1>8, EmitsNothing
  <2> QED
    BY <1>8, <2>1
<1>9. ASSUME NEW outcome \in {"completed", "failed"}, Finish(r, outcome)
      PROVE  Silent
  <2>1. Over(outcome) \in Events /\ Over(outcome).type = "run_done"
    BY OverEvent
  <2>2. ~IsMoney(Over(outcome))
    BY <2>1 DEF IsMoney, IsCharge
  <2> QED
    BY <1>1, <1>9, <2>1, <2>2 DEF Finish, Over
<1>10. ASSUME OpenGate(r, t)
       PROVE  Silent
  <2> DEFINE e == Event("approval_requested", made[r].gates + 1, 0, "")
  <2>1. made'[r].gates = made[r].gates + 1
    BY <1>2, <1>10 DEF OpenGate
  <2>2. e \in Events
    BY <1>2, EventType
  <2>3. ~IsMoney(e)
    BY DEF IsMoney, IsCharge, Event
  <2>4. Emit(r, <<e>>) /\ UNCHANGED spent
    BY <1>10, <2>1 DEF OpenGate
  <2> QED
    BY <1>1, <2>2, <2>3, <2>4
<1>11. ASSUME NEW d \in Decisions, PassGate(r, t, d)
       PROVE  Silent
  <2> DEFINE e == Event("approval_resolved", call[r][t], 0, d)
  <2>1. e \in Events
    BY <1>2, EventType
  <2>2. ~IsMoney(e)
    BY DEF IsMoney, IsCharge, Event
  <2>3. Emit(r, <<e>>) /\ UNCHANGED spent
    BY <1>11 DEF PassGate
  <2> QED
    BY <1>1, <2>1, <2>2, <2>3
<1>12. CASE UngatedStep(r)
  BY <1>12, <1>3, <1>4, <1>6, <1>7, <1>8, <1>9 DEF UngatedStep, Commit, Fork, WorkerSettles, Join
<1> QED
  BY <1>10, <1>11, <1>12

\* The inductive invariant: besides, no overrun was ever told below the cap, so that an
\* old one cannot answer for a sum that is within it.
OverrunsAreReal ==
  \A r \in Runs : \A i \in DOMAIN buffer[r] :
    buffer[r][i].type = "budget_exceeded" => OverCap(buffer[r][i].of)

OverrunInv == OverrunIsTold /\ OverrunsAreReal

Charged(log) == \E i \in DOMAIN log : IsCharge(log[i])

Told(log, sum) == \E i \in DOMAIN log : log[i].type = "budget_exceeded" /\ log[i].of = sum

LEMMA OverrunOfLogs ==
  OverrunIsTold <=>
    \A r \in Runs : Charged(buffer[r]) /\ OverCap(spent[r]) <=> Told(buffer[r], spent[r])
BY DEF OverrunIsTold, Charged, Told, IsCharge, OverCap

\* Logs that say nothing of money change nothing of what was said.
LEMMA SilentLog ==
  ASSUME NEW a \in Seq(Events), NEW b \in Seq(Events),
         \A i \in DOMAIN b : ~IsMoney(b[i])
  PROVE  /\ Charged(a \o b) <=> Charged(a)
         /\ \A sum : Told(a \o b, sum) <=> Told(a, sum)
         /\ \A i \in DOMAIN (a \o b) : (a \o b)[i].type = "budget_exceeded" =>
              i \in DOMAIN a /\ (a \o b)[i] = a[i]
<1>1. \A i \in DOMAIN a : i \in DOMAIN (a \o b) /\ (a \o b)[i] = a[i]
  BY Appended
<1>2. \A i \in DOMAIN (a \o b) : IsMoney((a \o b)[i]) => i \in DOMAIN a /\ (a \o b)[i] = a[i]
  BY AppendedSplit
<1>3. Charged(a \o b) <=> Charged(a)
  BY <1>1, <1>2 DEF Charged, IsMoney
<1>4. \A sum : Told(a \o b, sum) <=> Told(a, sum)
  BY <1>1, <1>2 DEF Told, IsMoney
<1> QED
  BY <1>2, <1>3, <1>4 DEF IsMoney

\* What an appended log says is said.
LEMMA SaidAtTheEnd ==
  ASSUME NEW a \in Seq(Events), NEW b \in Seq(Events)
  PROVE  /\ Charged(b) => Charged(a \o b)
         /\ \A sum : Told(b, sum) => Told(a \o b, sum)
<1>1. \A j \in DOMAIN b : Len(a) + j \in DOMAIN (a \o b) /\ (a \o b)[Len(a) + j] = b[j]
  BY Appended
<1> QED
  BY <1>1 DEF Charged, Told

LEMMA OverrunNext ==
  ASSUME TypeOK, OverrunInv, [Next]_vars
  PROVE  OverrunInv'
<1> DEFINE Tells(r) == Charged(buffer[r]) /\ OverCap(spent[r]) <=> Told(buffer[r], spent[r])
           Real(r) == \A i \in DOMAIN buffer[r] :
                        buffer[r][i].type = "budget_exceeded" => OverCap(buffer[r][i].of)
<1>1. \A r \in Runs : Tells(r) /\ Real(r)
  BY OverrunOfLogs DEF OverrunInv, OverrunsAreReal
<1>2. ASSUME \A r \in Runs : Tells(r)' /\ Real(r)'
      PROVE  OverrunInv'
  <2>1. \A r \in Runs : Charged(buffer'[r]) /\ OverCap(spent'[r]) <=> Told(buffer'[r], spent'[r])
    BY <1>2
  <2>2. OverrunIsTold'
    BY <2>1 DEF OverrunIsTold, Charged, Told, IsCharge, OverCap
  <2> QED
    BY <1>2, <2>2 DEF OverrunInv, OverrunsAreReal
<1>3. ASSUME NEW r \in Runs, NEW t \in Threads, Moves(r, t)
      PROVE  \A x \in Runs : Tells(x)' /\ Real(x)'
  <2>1. RuntimeTypeOK /\ buffer[r] \in Seq(Events)
    BY DEF TypeOK, RuntimeTypeOK
  <2>2. ASSUME UNCHANGED spent, NEW ev \in Seq(Events), Emit(r, ev),
               \A i \in DOMAIN ev : ~IsMoney(ev[i])
        PROVE  \A x \in Runs : Tells(x)' /\ Real(x)'
    <3>1. buffer'[r] = buffer[r] \o ev /\ \A x \in Runs \ {r} : buffer'[x] = buffer[x]
      BY <2>1, <2>2, EmitType
    <3>2. Tells(r)'
      BY <1>1, <2>1, <2>2, <3>1, SilentLog
    <3>3. Real(r)'
      <4>1. \A i \in DOMAIN (buffer[r] \o ev) :
              (buffer[r] \o ev)[i].type = "budget_exceeded" =>
                i \in DOMAIN buffer[r] /\ (buffer[r] \o ev)[i] = buffer[r][i]
        BY <2>1, <2>2, SilentLog
      <4> QED
        BY <1>1, <3>1, <4>1
    <3> QED
      BY <1>1, <2>2, <3>1, <3>2, <3>3
  <2>3. ASSUME NEW u \in Threads, NEW place \in {"code", "null", "off"},
               NEW tail \in Seq(Events), Answered(r, u, "ok", place, tail),
               \A x \in Runs \ {r} : spent'[x] = spent[x]
        PROVE  \A x \in Runs : Tells(x)' /\ Real(x)'
    <3> DEFINE e == Event("agent_done", call[r][u], 0, "ok")
               ev == <<e>> \o tail
    <3>1. e \in Events
      <4>1. call[r][u] \in Nat
        BY <2>1 DEF RuntimeTypeOK
      <4> QED
        BY <4>1, EventType
    <3>2. IsCharge(e) /\ e.type = "agent_done"
      BY DEF IsCharge, Event
    <3>3. /\ Emit(r, ev)
          /\ \A i \in DOMAIN tail :
               \/ tail[i].type = "run_done"
               \/ /\ tail[i].type = "budget_exceeded" /\ tail[i].of = spent'[r]
                  /\ OverCap(spent'[r])
          /\ OverCap(spent'[r]) => Told(tail, spent'[r])
      BY <2>3 DEF Answered, Told
    <3> HIDE DEF e
    <3>4. <<e>> \in Seq(Events) /\ DOMAIN <<e>> = {1} /\ <<e>>[1] = e /\ Len(<<e>>) = 1
      BY <3>1, OneEvent
    <3>5. ev \in Seq(Events) /\ 1 \in DOMAIN ev /\ ev[1] = e
      BY <3>4, Appended
    <3>6. \A i \in DOMAIN ev : ev[i].type = "budget_exceeded" =>
            ev[i].of = spent'[r] /\ OverCap(spent'[r])
      BY <3>2, <3>3, <3>4, AppendedSplit
    <3>7. OverCap(spent'[r]) => Told(ev, spent'[r])
      BY <3>3, <3>4, SaidAtTheEnd
    <3> HIDE DEF ev
    <3>8. buffer'[r] = buffer[r] \o ev /\ \A x \in Runs \ {r} : buffer'[x] = buffer[x]
      BY <2>1, <3>3, <3>5, EmitType
    <3>9. Charged(buffer'[r])
      <4>1. Charged(ev)
        BY <3>2, <3>5 DEF Charged
      <4> QED
        BY <2>1, <3>5, <3>8, <4>1, SaidAtTheEnd
    <3>10. OverCap(spent'[r]) => Told(buffer'[r], spent'[r])
      BY <2>1, <3>5, <3>7, <3>8, SaidAtTheEnd
    <3>11. \A i \in DOMAIN buffer'[r] : buffer'[r][i].type = "budget_exceeded" =>
             OverCap(buffer'[r][i].of)
      BY <1>1, <2>1, <3>5, <3>6, <3>8, AppendedSplit
    <3>12. Told(buffer'[r], spent'[r]) => OverCap(spent'[r])
      BY <3>11 DEF Told
    <3>13. \A x \in Runs \ {r} : Tells(x)' /\ Real(x)'
      BY <1>1, <2>3, <3>8
    <3>14. Tells(r)' /\ Real(r)'
      BY <3>9, <3>10, <3>11, <3>12
    <3> QED
      BY <3>13, <3>14
  <2> HIDE DEF Tells, Real
  <2>4. \/ UngatedStep(r)
        \/ OpenGate(r, t)
        \/ \E d \in Decisions : PassGate(r, t, d)
    BY <1>3 DEF Moves
  <2>5. CASE /\ UNCHANGED spent
             /\ \E ev \in Seq(Events) : Emit(r, ev) /\ \A i \in DOMAIN ev : ~IsMoney(ev[i])
    BY <2>2, <2>5
  <2>6. CASE /\ \E u \in Threads, place \in {"code", "null", "off"}, tail \in Seq(Events) :
                  Answered(r, u, "ok", place, tail)
             /\ \A x \in Runs \ {r} : spent'[x] = spent[x]
    BY <2>3, <2>6
  <2> QED
    BY <2>1, <2>4, <2>5, <2>6, MoneyEvents
<1>4. CASE UNCHANGED <<buffer, spent>>
  BY <1>1, <1>2, <1>4
<1>5. CASE Crash
  <2>1. \A r \in Runs : buffer'[r] = <<>> /\ DOMAIN buffer'[r] = {}
    BY <1>5 DEF Crash
  <2> QED
    BY <1>2, <2>1 DEF Charged, Told
<1> QED
  BY <1>2, <1>3, <1>4, <1>5, ServerSteps DEF vars, Subscribe, Unsubscribe

\* In every run of the server, for every cap, cost and number of workers: a flow whose
\* agents have spent the cap has said so at that very sum, and no flow says so that has
\* not.
THEOREM OverrunHolds == Spec => []OverrunIsTold
<1>1. Init => OverrunInv
  <2> SUFFICES ASSUME Init PROVE OverrunInv
    OBVIOUS
  <2>1. \A r \in Runs : buffer[r] = <<>> /\ DOMAIN buffer[r] = {}
    BY DEF Init, RuntimeInit
  <2> QED
    BY <2>1 DEF OverrunInv, OverrunIsTold, OverrunsAreReal
<1>2. OverrunInv => OverrunIsTold
  BY DEF OverrunInv
<1> QED
  BY <1>1, <1>2, TypeCorrect, OverrunNext, PTL DEF Spec

-----------------------------------------------------------------------------
(* The log. *)

\* An event of none of these types, appended, leaves the positions of the type.
LEMMA AtOther ==
  ASSUME NEW a \in Seq(Events), NEW b \in Seq(Events), NEW type, NEW id,
         \A i \in DOMAIN b : b[i].type # type
  PROVE  At(a \o b, type, id) = At(a, type, id)
<1>1. At(b, type, id) = {}
  BY DEF At
<1>2. \A i : i \in At(a \o b, type, id) <=>
               i \in At(a, type, id) \/ \E j \in At(b, type, id) : i = Len(a) + j
  BY AtAppended
<1> QED
  BY <1>1, <1>2

\* The first appended event takes the next position, whatever else follows it.
LEMMA AtFirst ==
  ASSUME NEW a \in Seq(Events), NEW e \in Events, NEW b \in Seq(Events), NEW type, NEW id,
         \A i \in DOMAIN b : b[i].type # type
  PROVE  /\ <<e>> \o b \in Seq(Events)
         /\ e.type = type /\ e.id = id =>
              At(a \o (<<e>> \o b), type, id) = At(a, type, id) \cup {Len(a) + 1}
         /\ e.type # type \/ e.id # id =>
              At(a \o (<<e>> \o b), type, id) = At(a, type, id)
<1> DEFINE one == <<e>>
<1>1. one \in Seq(Events) /\ At(one, type, id) = IF e.type = type /\ e.id = id THEN {1} ELSE {}
  BY OneEvent, AtOne
<1> HIDE DEF one
<1>2. one \o b \in Seq(Events)
  BY <1>1, Appended
<1>3. At(one \o b, type, id) = At(one, type, id)
  BY <1>1, AtOther
<1>4. \A i : i \in At(a \o (one \o b), type, id) <=>
               i \in At(a, type, id) \/ \E j \in At(one \o b, type, id) : i = Len(a) + j
  <2> DEFINE both == one \o b
  <2>1. both \in Seq(Events)
    BY <1>2
  <2> HIDE DEF both
  <2>2. \A i : i \in At(a \o both, type, id) <=>
                 i \in At(a, type, id) \/ \E j \in At(both, type, id) : i = Len(a) + j
    BY <2>1, AtAppended
  <2> QED
    BY <2>2 DEF both
<1>5. CASE e.type = type /\ e.id = id
  <2>1. \A i : i \in At(a \o (one \o b), type, id) <=>
                 i \in At(a, type, id) \/ i = Len(a) + 1
    BY <1>1, <1>3, <1>4, <1>5
  <2>2. At(a \o (one \o b), type, id) = At(a, type, id) \cup {Len(a) + 1}
    BY <2>1
  <2> QED
    BY <1>2, <1>5, <2>2 DEF one
<1>6. CASE e.type # type \/ e.id # id
  <2>1. At(a \o (one \o b), type, id) = At(a, type, id)
    BY <1>1, <1>3, <1>4, <1>6
  <2> QED
    BY <1>2, <1>6, <2>1 DEF one
<1> QED
  BY <1>5, <1>6

\* What was announced once under id was closed once, later.
Once(log, opens, closes, id) ==
  \E i \in At(log, opens, id), j \in At(log, closes, id) :
     i < j /\ At(log, opens, id) = {i} /\ At(log, closes, id) = {j}

\* The log and the threads agree on the calls of one kind (agents or gates): of the n
\* ids made, each was closed once or is awaited by a thread; what a thread awaits was
\* announced once and is not closed; no two threads await the same.
Agree(log, where, holds, n, place, opens, closes) ==
  /\ \A id \in Nat \ (1 .. n) : At(log, opens, id) = {} /\ At(log, closes, id) = {}
  /\ \A id \in 1 .. n :
       \/ Once(log, opens, closes, id)
       \/ \E t \in Threads : where[t] = place /\ holds[t] = id
  /\ \A t \in Threads : where[t] = place =>
       /\ holds[t] \in 1 .. n
       /\ At(log, closes, holds[t]) = {}
       /\ \E i : At(log, opens, holds[t]) = {i}
  /\ \A t \in Threads, u \in Threads :
       where[t] = place /\ where[u] = place /\ holds[t] = holds[u] => t = u

\* Steps that announce and close nothing of the kind.
LEMMA AgreeSame ==
  ASSUME NEW a, NEW b, NEW where, NEW where2, NEW holds, NEW holds2, NEW n \in Nat,
         NEW place, NEW opens, NEW closes,
         Agree(a, where, holds, n, place, opens, closes),
         \A id \in Nat : At(b, opens, id) = At(a, opens, id)
                         /\ At(b, closes, id) = At(a, closes, id),
         \A t \in Threads : /\ where2[t] = place <=> where[t] = place
                            /\ where[t] = place => holds2[t] = holds[t]
  PROVE  Agree(b, where2, holds2, n, place, opens, closes)
<1>1. \A id \in 1 .. n : id \in Nat
  OBVIOUS
<1>2. \A id \in Nat : Once(b, opens, closes, id) <=> Once(a, opens, closes, id)
  BY DEF Once
<1>3. \A id \in Nat \ (1 .. n) : At(b, opens, id) = {} /\ At(b, closes, id) = {}
  BY DEF Agree
<1>4. \A id \in 1 .. n :
        \/ Once(b, opens, closes, id)
        \/ \E t \in Threads : where2[t] = place /\ holds2[t] = id
  BY <1>1, <1>2 DEF Agree
<1>5. ASSUME NEW t \in Threads, where2[t] = place
      PROVE  /\ holds2[t] \in 1 .. n
             /\ At(b, closes, holds2[t]) = {}
             /\ \E i : At(b, opens, holds2[t]) = {i}
  <2>1. where[t] = place /\ holds2[t] = holds[t]
    BY <1>5
  <2>2. /\ holds[t] \in 1 .. n
        /\ At(a, closes, holds[t]) = {}
        /\ \E i : At(a, opens, holds[t]) = {i}
    BY <2>1 DEF Agree
  <2>3. holds[t] \in Nat
    BY <1>1, <2>2
  <2>4. At(b, closes, holds[t]) = {} /\ \E i : At(b, opens, holds[t]) = {i}
    BY <2>2, <2>3
  <2> QED
    BY <2>1, <2>2, <2>4
<1>6. \A t \in Threads, u \in Threads :
        where2[t] = place /\ where2[u] = place /\ holds2[t] = holds2[u] => t = u
  BY DEF Agree
<1> QED
  BY <1>3, <1>4, <1>5, <1>6 DEF Agree

\* A thread announces the next id and awaits it.
Opened(a, b, where, where2, holds, holds2, n, place, opens, closes, t, k) ==
  /\ At(b, opens, n + 1) = At(a, opens, n + 1) \cup {k}
  /\ \A id \in Nat : id # n + 1 => At(b, opens, id) = At(a, opens, id)
  /\ \A id \in Nat : At(b, closes, id) = At(a, closes, id)
  /\ where[t] # place /\ where2[t] = place /\ holds2[t] = n + 1
  /\ \A u \in Threads : u # t => where2[u] = where[u] /\ holds2[u] = holds[u]

LEMMA AgreeOpen ==
  ASSUME NEW a, NEW b, NEW where, NEW where2, NEW holds, NEW holds2, NEW n \in Nat,
         NEW place, NEW opens, NEW closes, NEW t \in Threads, NEW k,
         Agree(a, where, holds, n, place, opens, closes),
         Opened(a, b, where, where2, holds, holds2, n, place, opens, closes, t, k)
  PROVE  Agree(b, where2, holds2, n + 1, place, opens, closes)
<1> USE DEF Opened
<1>1. /\ n + 1 \in Nat \ (1 .. n)
      /\ \A id \in 1 .. n : id \in Nat /\ id # n + 1 /\ id \in 1 .. n + 1
      /\ \A id \in Nat \ (1 .. n + 1) : id \in Nat \ (1 .. n) /\ id # n + 1
      /\ \A id \in 1 .. n + 1 : id \in 1 .. n \/ id = n + 1
      /\ n + 1 \in 1 .. n + 1
  OBVIOUS
<1>2. At(a, opens, n + 1) = {} /\ At(a, closes, n + 1) = {}
  BY <1>1 DEF Agree
<1>3. At(b, opens, n + 1) = {k} /\ At(b, closes, n + 1) = {}
  BY <1>1, <1>2
<1>4. \A id \in 1 .. n : Once(a, opens, closes, id) => Once(b, opens, closes, id)
  BY <1>1 DEF Once
<1>5. \A id \in Nat \ (1 .. n + 1) : At(b, opens, id) = {} /\ At(b, closes, id) = {}
  BY <1>1 DEF Agree
<1>6. \A id \in 1 .. n + 1 :
        \/ Once(b, opens, closes, id)
        \/ \E u \in Threads : where2[u] = place /\ holds2[u] = id
  <2> SUFFICES ASSUME NEW id \in 1 .. n + 1, ~Once(b, opens, closes, id)
               PROVE  \E u \in Threads : where2[u] = place /\ holds2[u] = id
    OBVIOUS
  <2>1. CASE id = n + 1
    BY <2>1
  <2>2. CASE id \in 1 .. n
    <3>1. PICK u \in Threads : where[u] = place /\ holds[u] = id
      BY <2>2, <1>4 DEF Agree
    <3> QED
      BY <3>1
  <2> QED
    BY <1>1, <2>1, <2>2
<1>7. ASSUME NEW u \in Threads, where2[u] = place
      PROVE  /\ holds2[u] \in 1 .. n + 1
             /\ At(b, closes, holds2[u]) = {}
             /\ \E i : At(b, opens, holds2[u]) = {i}
  <2>1. CASE u = t
    BY <2>1, <1>1, <1>3
  <2>2. CASE u # t
    <3>1. where[u] = place /\ holds2[u] = holds[u]
      BY <1>7, <2>2
    <3>2. /\ holds[u] \in 1 .. n
          /\ At(a, closes, holds[u]) = {}
          /\ \E i : At(a, opens, holds[u]) = {i}
      BY <3>1 DEF Agree
    <3> QED
      BY <3>1, <3>2, <1>1
  <2> QED
    BY <2>1, <2>2
<1>8. ASSUME NEW u \in Threads, NEW v \in Threads,
             where2[u] = place, where2[v] = place, holds2[u] = holds2[v]
      PROVE  u = v
  <2>1. \A w \in Threads : w # t /\ where2[w] = place => holds2[w] = holds[w] /\ holds[w] # n + 1
    BY <1>1 DEF Agree
  <2>2. CASE u # t /\ v # t
    BY <1>8, <2>2 DEF Agree
  <2>3. CASE u = t \/ v = t
    BY <1>8, <2>1, <2>3
  <2> QED
    BY <2>2, <2>3
<1> QED
  BY <1>5, <1>6, <1>7, <1>8 DEF Agree

\* A thread's awaited id is closed, at a position no event had.
Closed(a, b, where, where2, holds, holds2, place, opens, closes, t) ==
  /\ At(b, closes, holds[t]) = At(a, closes, holds[t]) \cup {Len(a) + 1}
  /\ \A id \in Nat : id # holds[t] => At(b, closes, id) = At(a, closes, id)
  /\ \A id \in Nat : At(b, opens, id) = At(a, opens, id)
  /\ where[t] = place /\ where2[t] # place
  /\ \A u \in Threads : u # t => where2[u] = where[u] /\ holds2[u] = holds[u]

LEMMA AgreeClose ==
  ASSUME NEW a \in Seq(Events), NEW b, NEW where, NEW where2, NEW holds, NEW holds2,
         NEW n \in Nat, NEW place, NEW opens, NEW closes, NEW t \in Threads,
         Agree(a, where, holds, n, place, opens, closes),
         Closed(a, b, where, where2, holds, holds2, place, opens, closes, t)
  PROVE  Agree(b, where2, holds2, n, place, opens, closes)
<1> USE DEF Closed
<1>1. /\ holds[t] \in 1 .. n /\ holds[t] \in Nat
      /\ At(b, closes, holds[t]) = {Len(a) + 1}
  <2>1. holds[t] \in 1 .. n /\ At(a, closes, holds[t]) = {}
    BY DEF Agree
  <2>2. holds[t] \in Nat
    BY <2>1
  <2> QED
    BY <2>1, <2>2
<1>2. PICK k : At(a, opens, holds[t]) = {k}
  BY DEF Agree
<1>3. k \in 1 .. Len(a) /\ Len(a) \in Nat
  <2>1. k \in At(a, opens, holds[t])
    BY <1>2
  <2> QED
    BY <2>1, LenProperties DEF At
<1>4. k < Len(a) + 1
  BY <1>3
<1>5. Once(b, opens, closes, holds[t])
  <2>1. k \in At(b, opens, holds[t]) /\ Len(a) + 1 \in At(b, closes, holds[t])
    BY <1>1, <1>2
  <2>2. At(b, opens, holds[t]) = {k}
    BY <1>1, <1>2
  <2> QED
    BY <1>1, <1>4, <2>1, <2>2 DEF Once
<1>6. \A id \in 1 .. n : id # holds[t] =>
        id \in Nat /\ (Once(a, opens, closes, id) => Once(b, opens, closes, id))
  BY DEF Once
<1>7. \A id \in Nat \ (1 .. n) : At(b, opens, id) = {} /\ At(b, closes, id) = {}
  BY <1>1 DEF Agree
<1>8. \A id \in 1 .. n :
        \/ Once(b, opens, closes, id)
        \/ \E u \in Threads : where2[u] = place /\ holds2[u] = id
  <2> SUFFICES ASSUME NEW id \in 1 .. n, ~Once(b, opens, closes, id)
               PROVE  \E u \in Threads : where2[u] = place /\ holds2[u] = id
    OBVIOUS
  <2>1. id # holds[t]
    BY <1>5
  <2>2. PICK u \in Threads : where[u] = place /\ holds[u] = id
    BY <2>1, <1>6 DEF Agree
  <2> QED
    BY <2>1, <2>2
<1>9. ASSUME NEW u \in Threads, where2[u] = place
      PROVE  /\ holds2[u] \in 1 .. n
             /\ At(b, closes, holds2[u]) = {}
             /\ \E i : At(b, opens, holds2[u]) = {i}
  <2>1. u # t /\ where[u] = place /\ holds2[u] = holds[u]
    BY <1>9
  <2>2. holds[u] # holds[t]
    BY <2>1 DEF Agree
  <2>3. /\ holds[u] \in 1 .. n
        /\ At(a, closes, holds[u]) = {}
        /\ \E i : At(a, opens, holds[u]) = {i}
    BY <2>1 DEF Agree
  <2>4. holds[u] \in Nat
    BY <2>3
  <2>5. At(b, closes, holds[u]) = {} /\ \E i : At(b, opens, holds[u]) = {i}
    BY <2>2, <2>3, <2>4
  <2> QED
    BY <2>1, <2>3, <2>5
<1>10. \A u \in Threads, v \in Threads :
         where2[u] = place /\ where2[v] = place /\ holds2[u] = holds2[v] => u = v
  BY DEF Agree
<1> QED
  BY <1>7, <1>8, <1>9, <1>10 DEF Agree

AgentsAgree(r) ==
  Agree(buffer[r], at[r], call[r], made[r].agents, "agent", "agent_started", "agent_done")

GatesAgree(r) ==
  Agree(buffer[r], at[r], call[r], made[r].gates, "gate",
        "approval_requested", "approval_resolved")

EndsLast(r) ==
  IF Ended(r) THEN At(buffer[r], "run_done", 0) = {Len(buffer[r])}
              ELSE At(buffer[r], "run_done", 0) = {}

LogAgrees(r) == AgentsAgree(r) /\ GatesAgree(r) /\ EndsLast(r)

Kinds == {"agent_started", "agent_done", "approval_requested", "approval_resolved"}

\* What a run's log says of calls, after one event about a call, whatever is told of
\* the budget and the end of the run behind it.
LEMMA FirstEvent ==
  ASSUME RuntimeTypeOK, NEW r \in Runs, NEW e \in Events, NEW tail \in Seq(Events),
         Emit(r, <<e>> \o tail), \A i \in DOMAIN tail : tail[i].type \notin Kinds,
         NEW type \in Kinds, NEW id
  PROVE  /\ e.type = type /\ e.id = id =>
              At(buffer'[r], type, id) = At(buffer[r], type, id) \cup {Len(buffer[r]) + 1}
         /\ e.type # type \/ e.id # id =>
              At(buffer'[r], type, id) = At(buffer[r], type, id)
<1> DEFINE ev == <<e>> \o tail
<1>1. buffer[r] \in Seq(Events)
  BY DEF RuntimeTypeOK
<1>2. \A i \in DOMAIN tail : tail[i].type # type
  OBVIOUS
<1>3. /\ ev \in Seq(Events)
      /\ e.type = type /\ e.id = id =>
           At(buffer[r] \o ev, type, id) = At(buffer[r], type, id) \cup {Len(buffer[r]) + 1}
      /\ e.type # type \/ e.id # id =>
           At(buffer[r] \o ev, type, id) = At(buffer[r], type, id)
  BY <1>1, <1>2, AtFirst
<1>4. Emit(r, ev)
  OBVIOUS
<1> HIDE DEF ev
<1>5. buffer'[r] = buffer[r] \o ev
  BY <1>3, <1>4, EmitType
<1> QED
  BY <1>3, <1>5

LEMMA OneEventLogged ==
  ASSUME RuntimeTypeOK, NEW r \in Runs, NEW e \in Events, Emit(r, <<e>>),
         NEW type \in Kinds, NEW id
  PROVE  /\ e.type = type /\ e.id = id =>
              At(buffer'[r], type, id) = At(buffer[r], type, id) \cup {Len(buffer[r]) + 1}
         /\ e.type # type \/ e.id # id =>
              At(buffer'[r], type, id) = At(buffer[r], type, id)
<1> DEFINE one == <<e>>
<1>1. one \in Seq(Events) /\ At(one, type, id) = IF e.type = type /\ e.id = id THEN {1} ELSE {}
  BY OneEvent, AtOne
<1>2. Emit(r, one)
  OBVIOUS
<1> HIDE DEF one
<1>3. buffer[r] \in Seq(Events) /\ buffer'[r] = buffer[r] \o one
  BY <1>1, <1>2, EmitType DEF RuntimeTypeOK
<1>4. \A i : i \in At(buffer[r] \o one, type, id) <=>
               i \in At(buffer[r], type, id) \/ \E j \in At(one, type, id) : i = Len(buffer[r]) + j
  BY <1>1, <1>3, AtAppended
<1>5. CASE e.type = type /\ e.id = id
  <2>1. \A i : i \in At(buffer'[r], type, id) <=>
                 i \in At(buffer[r], type, id) \/ i = Len(buffer[r]) + 1
    BY <1>1, <1>3, <1>4, <1>5
  <2> QED
    BY <1>5, <2>1
<1>6. CASE e.type # type \/ e.id # id
  <2>1. At(buffer'[r], type, id) = At(buffer[r], type, id)
    BY <1>1, <1>3, <1>4, <1>6
  <2> QED
    BY <1>6, <2>1
<1> QED
  BY <1>5, <1>6

LEMMA QuietEvents ==
  ASSUME RuntimeTypeOK, NEW r \in Runs, NEW ev \in Seq(Events), Emit(r, ev),
         \A i \in DOMAIN ev : ev[i].type \notin Kinds
  PROVE  \A type \in Kinds : \A id : At(buffer'[r], type, id) = At(buffer[r], type, id)
<1>1. buffer[r] \in Seq(Events)
  BY DEF RuntimeTypeOK
<1>2. buffer'[r] = buffer[r] \o ev
  BY EmitType
<1>3. ASSUME NEW type \in Kinds, NEW id
      PROVE  At(buffer[r] \o ev, type, id) = At(buffer[r], type, id)
  BY <1>1, AtOther
<1> QED
  BY <1>2, <1>3

\* A step about no call leaves the log and the threads in agreement.
LEMMA QuietAgrees ==
  ASSUME RuntimeTypeOK, NEW r \in Runs, NEW ev \in Seq(Events), Emit(r, ev),
         \A i \in DOMAIN ev : ev[i].type \notin Kinds,
         AgentsAgree(r), GatesAgree(r),
         made'[r].agents = made[r].agents, made'[r].gates = made[r].gates,
         \A t \in Threads : /\ at'[r][t] = "agent" <=> at[r][t] = "agent"
                            /\ at'[r][t] = "gate" <=> at[r][t] = "gate"
                            /\ at[r][t] \in {"agent", "gate"} => call'[r][t] = call[r][t]
  PROVE  AgentsAgree(r)' /\ GatesAgree(r)'
<1>1. \A type \in Kinds : \A id : At(buffer'[r], type, id) = At(buffer[r], type, id)
  BY QuietEvents
<1>2. made[r].agents \in Nat /\ made[r].gates \in Nat
  BY DEF RuntimeTypeOK
<1>3. \A id \in Nat :
        /\ At(buffer'[r], "agent_started", id) = At(buffer[r], "agent_started", id)
        /\ At(buffer'[r], "agent_done", id) = At(buffer[r], "agent_done", id)
        /\ At(buffer'[r], "approval_requested", id) = At(buffer[r], "approval_requested", id)
        /\ At(buffer'[r], "approval_resolved", id) = At(buffer[r], "approval_resolved", id)
  BY <1>1 DEF Kinds
<1>4. Agree(buffer'[r], at'[r], call'[r], made[r].agents, "agent", "agent_started", "agent_done")
  BY <1>2, <1>3, AgreeSame DEF AgentsAgree
<1>5. Agree(buffer'[r], at'[r], call'[r], made[r].gates, "gate",
            "approval_requested", "approval_resolved")
  BY <1>2, <1>3, AgreeSame DEF GatesAgree
<1> QED
  BY <1>4, <1>5 DEF AgentsAgree, GatesAgree

\* run_done is said when the run ends, and is its last word.
LEMMA EndIsLast ==
  ASSUME RuntimeTypeOK, NEW r \in Runs, NEW ev \in Seq(Events), Emit(r, ev),
         EndsLast(r), ~Ended(r),
         IF Ended(r)' THEN At(ev, "run_done", 0) = {Len(ev)} ELSE At(ev, "run_done", 0) = {}
  PROVE  EndsLast(r)'
<1>1. buffer[r] \in Seq(Events) /\ At(buffer[r], "run_done", 0) = {}
  BY DEF RuntimeTypeOK, EndsLast
<1>2. /\ At(ev, "run_done", 0) = {} => At(buffer[r] \o ev, "run_done", 0) = {}
      /\ At(ev, "run_done", 0) = {Len(ev)} =>
           At(buffer[r] \o ev, "run_done", 0) = {Len(buffer[r] \o ev)}
  BY <1>1, AtAppendedLast
<1>3. buffer'[r] = buffer[r] \o ev
  BY EmitType
<1> QED
  BY <1>2, <1>3 DEF EndsLast

\* What another run does is no business of a run.
LEMMA OthersStay ==
  ASSUME RuntimeTypeOK, NEW r \in Runs, NEW t \in Threads, NEW x \in Runs \ {r},
         \/ UngatedStep(r)
         \/ OpenGate(r, t)
         \/ \E d \in Decisions : PassGate(r, t, d)
  PROVE  /\ status'[x] = status[x] /\ at'[x] = at[x] /\ call'[x] = call[x]
         /\ made'[x] = made[x] /\ buffer'[x] = buffer[x]
<1> DEFINE Stays == status'[x] = status[x] /\ at'[x] = at[x] /\ call'[x] = call[x]
                    /\ made'[x] = made[x]
<1>1. /\ status \in [Runs -> {"never", "new", "running", "completed", "failed", "lost"}]
      /\ at \in [Runs -> [Threads -> Places]]
      /\ call \in [Runs -> [Threads -> Nat]]
      /\ made \in [Runs -> [agents : Nat, gates : Nat, phases : Nat]]
  BY DEF RuntimeTypeOK
<1>2. PICK ev \in Seq(Events) : Emit(r, ev)
  BY RunsLog
<1>3. buffer'[x] = buffer[x]
  BY <1>2, EmitType
<1>4. ASSUME NEW u \in Threads, NEW place, Go(r, u, place)
      PROVE  at'[x] = at[x]
  BY <1>1, <1>4 DEF Go
<1>5. Main \in Threads /\ Workers \subseteq Threads
  BY DEF Threads
<1>6. ASSUME StartRun(r)
      PROVE  Stays
  BY <1>1, <1>4, <1>5, <1>6 DEF StartRun
<1>7. ASSUME NEW u \in Threads, CallAgent(r, u)
      PROVE  Stays
  BY <1>1, <1>4, <1>7 DEF CallAgent
<1>8. ASSUME NEW u \in Threads, (\E cost \in Costs : AgentReturns(r, u, cost)) \/ AgentFails(r, u)
      PROVE  Stays
  <2>1. PICK how \in {"ok", "failed"}, place \in {"code", "null", "off"}, tail \in Seq(Events) :
           Answered(r, u, how, place, tail)
    BY <1>8, AgentSettles
  <2>2. call' = [call EXCEPT ![r][u] = 0] /\ UNCHANGED made
    BY <1>8, AgentSettles
  <2>3. at'[x] = at[x]
    BY <1>4, <2>1 DEF Answered
  <2>4. status'[x] = status[x]
    BY <1>1, <2>1 DEF Answered
  <2> QED
    BY <1>1, <2>2, <2>3, <2>4
<1>9. ASSUME NEW u \in Threads, Phase(r, u)
      PROVE  Stays
  BY <1>1, <1>9 DEF Phase
<1>10. ASSUME NEW u \in Threads, NEW c \in Shape[r].cursors, Commit(r, u, c)
       PROVE  Stays
  BY <1>10 DEF Commit
<1>11. ASSUME NEW team \in SUBSET Shape[r].team, Fork(r, team)
       PROVE  Stays
  BY <1>1, <1>11 DEF Fork
<1>12. ASSUME NEW w \in Workers, NEW place \in {"value", "null"}, WorkerSettles(r, w, place)
       PROVE  Stays
  BY <1>4, <1>5, <1>12 DEF WorkerSettles
<1>13. ASSUME Join(r)
       PROVE  Stays
  BY <1>1, <1>13 DEF Join
<1>14. ASSUME NEW outcome \in {"completed", "failed"}, Finish(r, outcome)
       PROVE  Stays
  BY <1>1, <1>4, <1>5, <1>14 DEF Finish
<1>15. ASSUME OpenGate(r, t)
       PROVE  Stays
  BY <1>1, <1>4, <1>15 DEF OpenGate
<1>16. ASSUME NEW d \in Decisions, PassGate(r, t, d)
       PROVE  Stays
  BY <1>1, <1>4, <1>16 DEF PassGate
<1>17. Stays
  BY <1>6, <1>7, <1>8, <1>9, <1>10, <1>11, <1>12, <1>13, <1>14, <1>15, <1>16 DEF UngatedStep
<1> QED
  BY <1>3, <1>17

\* One thread goes from one place to another, and the others stay.
LEMMA OneMoves ==
  ASSUME RuntimeTypeOK, NEW r \in Runs, NEW t \in Threads, NEW place \in Places, NEW id,
         Go(r, t, place), call' = [call EXCEPT ![r][t] = id]
  PROVE  /\ at'[r][t] = place /\ call'[r][t] = id
         /\ \A u \in Threads : u # t => at'[r][u] = at[r][u] /\ call'[r][u] = call[r][u]
<1>1. call \in [Runs -> [Threads -> Nat]]
  BY DEF RuntimeTypeOK
<1>2. /\ at'[r][t] = place
      /\ \A x \in Runs, y \in Threads : <<x, y>> # <<r, t>> => at'[x][y] = at[x][y]
  BY GoType
<1>3. \A u \in Threads : u # t => at'[r][u] = at[r][u]
  BY <1>2
<1> QED
  BY <1>1, <1>2, <1>3

\* An agent call or a gate is announced and awaited under the next id.
LEMMA CallAgrees ==
  ASSUME RuntimeTypeOK, ThreadsInOrder, NEW r \in Runs, NEW t \in Threads, LogAgrees(r),
         CallAgent(r, t) \/ OpenGate(r, t)
  PROVE  LogAgrees(r)'
<1>1. /\ made[r].agents \in Nat /\ made[r].gates \in Nat /\ made[r].phases \in Nat
      /\ made \in [Runs -> [agents : Nat, gates : Nat, phases : Nat]]
      /\ buffer[r] \in Seq(Events)
  BY DEF RuntimeTypeOK
<1>2. at[r][t] = "code" /\ UNCHANGED status
  BY DEF CallAgent, OpenGate
<1>3. ~Ended(r) /\ ~Ended(r)'
  BY <1>2 DEF ThreadsInOrder, IdleUnlessRunning, Ended
<1>4. ASSUME NEW e \in Events, Emit(r, <<e>>), e.type # "run_done"
      PROVE  EndsLast(r)'
  <2> DEFINE one == <<e>>
  <2>1. one \in Seq(Events) /\ At(one, "run_done", 0) = {}
    BY <1>4, OneEvent, AtOne
  <2>2. Emit(r, one)
    BY <1>4
  <2> HIDE DEF one
  <2> QED
    BY <1>3, <2>1, <2>2, EndIsLast DEF LogAgrees
<1>5. CASE CallAgent(r, t)
  <2> DEFINE n == made[r].agents
             e == Event("agent_started", n + 1, made[r].phases, "")
  <2>1. /\ made' = [made EXCEPT ![r].agents = @ + 1]
        /\ call' = [call EXCEPT ![r][t] = made'[r].agents]
        /\ Go(r, t, "agent")
        /\ Emit(r, <<Event("agent_started", made'[r].agents, made[r].phases, "")>>)
    BY <1>5 DEF CallAgent
  <2>2. made'[r].agents = n + 1 /\ made'[r].gates = made[r].gates
    BY <1>1, <2>1
  <2>3. e \in Events /\ e.type = "agent_started" /\ e.id = n + 1
    <3>1. n + 1 \in Nat
      BY <1>1
    <3>2. e \in Events
      BY <1>1, <3>1, EventType
    <3> QED
      BY <3>2 DEF Event
  <2>4. Emit(r, <<e>>) /\ call' = [call EXCEPT ![r][t] = n + 1]
    BY <2>1, <2>2
  <2> HIDE DEF e
  <2>5. /\ at'[r][t] = "agent" /\ call'[r][t] = n + 1
        /\ \A u \in Threads : u # t => at'[r][u] = at[r][u] /\ call'[r][u] = call[r][u]
    BY <2>1, <2>4, OneMoves, ZenonT(30) DEF Places
  <2>6. /\ At(buffer'[r], "agent_started", n + 1) =
             At(buffer[r], "agent_started", n + 1) \cup {Len(buffer[r]) + 1}
        /\ \A id \in Nat : id # n + 1 =>
             At(buffer'[r], "agent_started", id) = At(buffer[r], "agent_started", id)
    <3>1. "agent_started" \in Kinds
      BY DEF Kinds
    <3>2. \A id : /\ e.id = id => At(buffer'[r], "agent_started", id) =
                                   At(buffer[r], "agent_started", id) \cup {Len(buffer[r]) + 1}
                  /\ e.id # id => At(buffer'[r], "agent_started", id) =
                                   At(buffer[r], "agent_started", id)
      BY <2>3, <2>4, <3>1, OneEventLogged
    <3> QED
      BY <2>3, <3>2
  <2>7. \A type \in Kinds \ {"agent_started"} : \A id :
          At(buffer'[r], type, id) = At(buffer[r], type, id)
    BY <2>3, <2>4, OneEventLogged
  <2>8. \A id \in Nat :
          /\ At(buffer'[r], "agent_done", id) = At(buffer[r], "agent_done", id)
          /\ At(buffer'[r], "approval_requested", id) = At(buffer[r], "approval_requested", id)
          /\ At(buffer'[r], "approval_resolved", id) = At(buffer[r], "approval_resolved", id)
    BY <2>7 DEF Kinds
  <2>9. Agree(buffer'[r], at'[r], call'[r], n + 1, "agent", "agent_started", "agent_done")
    <3>1. Opened(buffer[r], buffer'[r], at[r], at'[r], call[r], call'[r], n, "agent",
                 "agent_started", "agent_done", t, Len(buffer[r]) + 1)
      BY <1>2, <2>5, <2>6, <2>8 DEF Opened
    <3>2. Agree(buffer[r], at[r], call[r], n, "agent", "agent_started", "agent_done")
      BY DEF LogAgrees, AgentsAgree
    <3> QED
      BY <1>1, <3>1, <3>2, AgreeOpen
  <2>10. \A u \in Threads : /\ at'[r][u] = "gate" <=> at[r][u] = "gate"
                            /\ at[r][u] = "gate" => call'[r][u] = call[r][u]
    BY <1>2, <2>5
  <2>11. Agree(buffer'[r], at'[r], call'[r], made[r].gates, "gate",
               "approval_requested", "approval_resolved")
    BY <1>1, <2>8, <2>10, AgreeSame, SMTT(30) DEF LogAgrees, GatesAgree
  <2> QED
    BY <1>4, <2>2, <2>3, <2>4, <2>9, <2>11 DEF LogAgrees, AgentsAgree, GatesAgree
<1>6. CASE OpenGate(r, t)
  <2> DEFINE n == made[r].gates
             e == Event("approval_requested", n + 1, 0, "")
  <2>1. /\ made' = [made EXCEPT ![r].gates = @ + 1]
        /\ call' = [call EXCEPT ![r][t] = made'[r].gates]
        /\ Go(r, t, "gate")
        /\ Emit(r, <<Event("approval_requested", made'[r].gates, 0, "")>>)
    BY <1>6 DEF OpenGate
  <2>2. made'[r].gates = n + 1 /\ made'[r].agents = made[r].agents
    BY <1>1, <2>1
  <2>3. e \in Events /\ e.type = "approval_requested" /\ e.id = n + 1
    <3>1. n + 1 \in Nat
      BY <1>1
    <3>2. e \in Events
      BY <1>1, <3>1, EventType
    <3> QED
      BY <3>2 DEF Event
  <2>4. Emit(r, <<e>>) /\ call' = [call EXCEPT ![r][t] = n + 1]
    BY <2>1, <2>2
  <2> HIDE DEF e
  <2>5. /\ at'[r][t] = "gate" /\ call'[r][t] = n + 1
        /\ \A u \in Threads : u # t => at'[r][u] = at[r][u] /\ call'[r][u] = call[r][u]
    BY <2>1, <2>4, OneMoves, ZenonT(30) DEF Places
  <2>6. /\ At(buffer'[r], "approval_requested", n + 1) =
             At(buffer[r], "approval_requested", n + 1) \cup {Len(buffer[r]) + 1}
        /\ \A id \in Nat : id # n + 1 =>
             At(buffer'[r], "approval_requested", id) = At(buffer[r], "approval_requested", id)
    <3>1. "approval_requested" \in Kinds
      BY DEF Kinds
    <3>2. \A id : /\ e.id = id => At(buffer'[r], "approval_requested", id) =
                                   At(buffer[r], "approval_requested", id) \cup {Len(buffer[r]) + 1}
                  /\ e.id # id => At(buffer'[r], "approval_requested", id) =
                                   At(buffer[r], "approval_requested", id)
      BY <2>3, <2>4, <3>1, OneEventLogged
    <3> QED
      BY <2>3, <3>2
  <2>7. \A type \in Kinds \ {"approval_requested"} : \A id :
          At(buffer'[r], type, id) = At(buffer[r], type, id)
    BY <2>3, <2>4, OneEventLogged
  <2>8. \A id \in Nat :
          /\ At(buffer'[r], "approval_resolved", id) = At(buffer[r], "approval_resolved", id)
          /\ At(buffer'[r], "agent_started", id) = At(buffer[r], "agent_started", id)
          /\ At(buffer'[r], "agent_done", id) = At(buffer[r], "agent_done", id)
    BY <2>7 DEF Kinds
  <2>9. Agree(buffer'[r], at'[r], call'[r], n + 1, "gate",
              "approval_requested", "approval_resolved")
    <3>1. Opened(buffer[r], buffer'[r], at[r], at'[r], call[r], call'[r], n, "gate",
                 "approval_requested", "approval_resolved", t, Len(buffer[r]) + 1)
      BY <1>2, <2>5, <2>6, <2>8 DEF Opened
    <3>2. Agree(buffer[r], at[r], call[r], n, "gate", "approval_requested", "approval_resolved")
      BY DEF LogAgrees, GatesAgree
    <3> QED
      BY <1>1, <3>1, <3>2, AgreeOpen
  <2>10. \A u \in Threads : /\ at'[r][u] = "agent" <=> at[r][u] = "agent"
                            /\ at[r][u] = "agent" => call'[r][u] = call[r][u]
    BY <1>2, <2>5
  <2>11. Agree(buffer'[r], at'[r], call'[r], made[r].agents, "agent",
               "agent_started", "agent_done")
    BY <1>1, <2>8, <2>10, AgreeSame DEF LogAgrees, AgentsAgree
  <2> QED
    BY <1>4, <2>2, <2>3, <2>4, <2>9, <2>11 DEF LogAgrees, AgentsAgree, GatesAgree
<1> QED
  BY <1>5, <1>6

\* An executor's answer closes the node its thread awaits.
LEMMA AnswerAgrees ==
  ASSUME RuntimeTypeOK, ThreadsInOrder, NEW r \in Runs, NEW t \in Threads, LogAgrees(r),
         (\E cost \in Costs : AgentReturns(r, t, cost)) \/ AgentFails(r, t)
  PROVE  LogAgrees(r)'
<1>1. PICK how \in {"ok", "failed"}, place \in {"code", "null", "off"}, tail \in Seq(Events) :
         Answered(r, t, how, place, tail)
  BY AgentSettles
<1>2. at[r][t] = "agent" /\ call' = [call EXCEPT ![r][t] = 0] /\ UNCHANGED made
  BY AgentSettles
<1> DEFINE n == made[r].agents
           id == call[r][t]
           e == Event("agent_done", id, 0, how)
<1>3. /\ n \in Nat /\ made[r].gates \in Nat /\ id \in Nat
      /\ buffer[r] \in Seq(Events)
  BY DEF RuntimeTypeOK
<1>4. e \in Events /\ e.type = "agent_done" /\ e.id = id
  BY <1>3, EventType DEF Event
<1>5. /\ Go(r, t, place) /\ Emit(r, <<e>> \o tail)
      /\ \A i \in DOMAIN tail : tail[i].type \in {"run_done", "budget_exceeded"}
      /\ IF place = "off"
           THEN /\ t = Main /\ status' = [status EXCEPT ![r] = "failed"]
                /\ tail # <<>> /\ At(tail, "run_done", 0) = {Len(tail)}
           ELSE UNCHANGED status /\ At(tail, "run_done", 0) = {}
  BY <1>1 DEF Answered
<1> HIDE DEF e, id
<1>6. \A i \in DOMAIN tail : tail[i].type \notin Kinds
  BY <1>5 DEF Kinds
<1>7. /\ at'[r][t] = place /\ place \notin {"agent", "gate"}
      /\ \A u \in Threads : u # t => at'[r][u] = at[r][u] /\ call'[r][u] = call[r][u]
  <2>1. place \in Places /\ place \notin {"agent", "gate"}
    BY DEF Places
  <2> QED
    BY <1>2, <1>5, <2>1, OneMoves, ZenonT(30)
<1>8. /\ At(buffer'[r], "agent_done", id) =
           At(buffer[r], "agent_done", id) \cup {Len(buffer[r]) + 1}
      /\ \A x \in Nat : x # id =>
           At(buffer'[r], "agent_done", x) = At(buffer[r], "agent_done", x)
  BY <1>4, <1>5, <1>6, FirstEvent, ZenonT(30) DEF Kinds
<1>9. \A type \in Kinds \ {"agent_done"} : \A x :
        At(buffer'[r], type, x) = At(buffer[r], type, x)
  BY <1>4, <1>5, <1>6, FirstEvent
<1>10. \A x \in Nat :
         /\ At(buffer'[r], "agent_started", x) = At(buffer[r], "agent_started", x)
         /\ At(buffer'[r], "approval_requested", x) = At(buffer[r], "approval_requested", x)
         /\ At(buffer'[r], "approval_resolved", x) = At(buffer[r], "approval_resolved", x)
  BY <1>9 DEF Kinds
<1>11. Agree(buffer'[r], at'[r], call'[r], n, "agent", "agent_started", "agent_done")
  <2>1. Agree(buffer[r], at[r], call[r], n, "agent", "agent_started", "agent_done")
    BY DEF LogAgrees, AgentsAgree
  <2>2. Closed(buffer[r], buffer'[r], at[r], at'[r], call[r], call'[r], "agent",
               "agent_started", "agent_done", t)
    BY <1>2, <1>7, <1>8, <1>10 DEF Closed, id
  <2> QED
    BY <1>3, <2>1, <2>2, AgreeClose
<1>12. \A u \in Threads : /\ at'[r][u] = "gate" <=> at[r][u] = "gate"
                          /\ at[r][u] = "gate" => call'[r][u] = call[r][u]
  BY <1>2, <1>7
<1>13. Agree(buffer'[r], at'[r], call'[r], made[r].gates, "gate",
             "approval_requested", "approval_resolved")
  BY <1>3, <1>10, <1>12, AgreeSame DEF LogAgrees, GatesAgree
<1>14. EndsLast(r)'
  <2> DEFINE one == <<e>>
             ev == one \o tail
  <2>1. one \in Seq(Events) /\ At(one, "run_done", 0) = {}
    BY <1>4, OneEvent, AtOne
  <2>2. Emit(r, ev)
    BY <1>5
  <2> HIDE DEF one
  <2>3. /\ ev \in Seq(Events)
        /\ At(tail, "run_done", 0) = {} => At(ev, "run_done", 0) = {}
        /\ At(tail, "run_done", 0) = {Len(tail)} => At(ev, "run_done", 0) = {Len(ev)}
    BY <2>1, Appended, AtAppendedLast
  <2> HIDE DEF ev
  <2>4. status[r] = "running" /\ ~Ended(r)
    BY <1>2 DEF ThreadsInOrder, IdleUnlessRunning, Ended
  <2>5. Ended(r)' <=> place = "off"
    BY <1>5, <2>4 DEF Ended, RuntimeTypeOK
  <2>6. IF Ended(r)' THEN At(ev, "run_done", 0) = {Len(ev)} ELSE At(ev, "run_done", 0) = {}
    BY <1>5, <2>3, <2>5
  <2> QED
    BY <2>2, <2>3, <2>4, <2>6, EndIsLast DEF LogAgrees
<1> QED
  BY <1>2, <1>11, <1>13, <1>14 DEF LogAgrees, AgentsAgree, GatesAgree

\* A decision closes the gate its thread waits at.
LEMMA PassAgrees ==
  ASSUME RuntimeTypeOK, ThreadsInOrder, NEW r \in Runs, NEW t \in Threads, LogAgrees(r),
         NEW d \in Decisions, PassGate(r, t, d)
  PROVE  LogAgrees(r)'
<1> DEFINE n == made[r].gates
           id == call[r][t]
           e == Event("approval_resolved", id, 0, d)
<1>1. /\ at[r][t] = "gate" /\ call' = [call EXCEPT ![r][t] = 0] /\ Go(r, t, "code")
      /\ Emit(r, <<e>>) /\ UNCHANGED <<status, made>>
  BY DEF PassGate
<1>2. /\ n \in Nat /\ made[r].agents \in Nat /\ id \in Nat
      /\ buffer[r] \in Seq(Events)
  BY DEF RuntimeTypeOK
<1>3. e \in Events /\ e.type = "approval_resolved" /\ e.id = id
  BY <1>2, EventType DEF Event
<1> HIDE DEF e, id
<1>4. /\ at'[r][t] = "code"
      /\ \A u \in Threads : u # t => at'[r][u] = at[r][u] /\ call'[r][u] = call[r][u]
  BY <1>1, OneMoves DEF Places
<1>5. /\ At(buffer'[r], "approval_resolved", id) =
           At(buffer[r], "approval_resolved", id) \cup {Len(buffer[r]) + 1}
      /\ \A x \in Nat : x # id =>
           At(buffer'[r], "approval_resolved", x) = At(buffer[r], "approval_resolved", x)
  <2>1. "approval_resolved" \in Kinds
    BY DEF Kinds
  <2>2. \A x : /\ e.id = x => At(buffer'[r], "approval_resolved", x) =
                               At(buffer[r], "approval_resolved", x) \cup {Len(buffer[r]) + 1}
               /\ e.id # x => At(buffer'[r], "approval_resolved", x) =
                               At(buffer[r], "approval_resolved", x)
    BY <1>1, <1>3, <2>1, OneEventLogged
  <2> QED
    BY <1>3, <2>2
<1>6. \A type \in Kinds \ {"approval_resolved"} : \A x :
        At(buffer'[r], type, x) = At(buffer[r], type, x)
  BY <1>1, <1>3, OneEventLogged
<1>7. \A x \in Nat :
        /\ At(buffer'[r], "approval_requested", x) = At(buffer[r], "approval_requested", x)
        /\ At(buffer'[r], "agent_started", x) = At(buffer[r], "agent_started", x)
        /\ At(buffer'[r], "agent_done", x) = At(buffer[r], "agent_done", x)
  BY <1>6 DEF Kinds
<1>8. Agree(buffer'[r], at'[r], call'[r], n, "gate", "approval_requested", "approval_resolved")
  <2>1. Agree(buffer[r], at[r], call[r], n, "gate", "approval_requested", "approval_resolved")
    BY DEF LogAgrees, GatesAgree
  <2>2. Closed(buffer[r], buffer'[r], at[r], at'[r], call[r], call'[r], "gate",
               "approval_requested", "approval_resolved", t)
    BY <1>1, <1>4, <1>5, <1>7 DEF Closed, id
  <2> QED
    BY <1>2, <2>1, <2>2, AgreeClose
<1>9. \A u \in Threads : /\ at'[r][u] = "agent" <=> at[r][u] = "agent"
                         /\ at[r][u] = "agent" => call'[r][u] = call[r][u]
  BY <1>1, <1>4
<1>10. Agree(buffer'[r], at'[r], call'[r], made[r].agents, "agent",
             "agent_started", "agent_done")
  BY <1>2, <1>7, <1>9, AgreeSame DEF LogAgrees, AgentsAgree
<1>11. EndsLast(r)'
  <2> DEFINE one == <<e>>
  <2>1. one \in Seq(Events) /\ At(one, "run_done", 0) = {}
    BY <1>3, OneEvent, AtOne
  <2>2. Emit(r, one)
    BY <1>1
  <2> HIDE DEF one
  <2>3. ~Ended(r) /\ ~Ended(r)'
    BY <1>1 DEF ThreadsInOrder, IdleUnlessRunning, Ended
  <2> QED
    BY <2>1, <2>2, <2>3, EndIsLast DEF LogAgrees
<1> QED
  BY <1>1, <1>8, <1>10, <1>11 DEF LogAgrees, AgentsAgree, GatesAgree

\* Steps about no call: the start and the end of a run, a phase, a commit, a fork, a
\* worker that settles, a join.
LEMMA QuietStepAgrees ==
  ASSUME RuntimeTypeOK, ThreadsInOrder, NEW r \in Runs, LogAgrees(r), UngatedStep(r),
         \A t \in Threads : /\ ~CallAgent(r, t) /\ ~AgentFails(r, t)
                            /\ \A cost \in Costs : ~AgentReturns(r, t, cost)
  PROVE  LogAgrees(r)'
<1>1. /\ status \in [Runs -> {"never", "new", "running", "completed", "failed", "lost"}]
      /\ at \in [Runs -> [Threads -> Places]]
      /\ made \in [Runs -> [agents : Nat, gates : Nat, phases : Nat]]
  BY DEF RuntimeTypeOK
<1>2. Main \in Threads /\ Workers \subseteq Threads /\ Main \notin Workers
  BY RuntimeAssumption DEF Threads
<1> DEFINE Quiet(ev) ==
      /\ Emit(r, ev)
      /\ \A i \in DOMAIN ev : ev[i].type \notin Kinds
      /\ made'[r].agents = made[r].agents /\ made'[r].gates = made[r].gates
      /\ \A t \in Threads : /\ at'[r][t] = "agent" <=> at[r][t] = "agent"
                            /\ at'[r][t] = "gate" <=> at[r][t] = "gate"
                            /\ at[r][t] \in {"agent", "gate"} => call'[r][t] = call[r][t]
      /\ ~Ended(r)
      /\ IF Ended(r)' THEN At(ev, "run_done", 0) = {Len(ev)} ELSE At(ev, "run_done", 0) = {}
<1>3. ASSUME NEW ev \in Seq(Events), Quiet(ev)
      PROVE  LogAgrees(r)'
  <2>1. AgentsAgree(r)' /\ GatesAgree(r)'
    BY <1>3, QuietAgrees DEF LogAgrees
  <2>2. EndsLast(r)'
    BY <1>3, EndIsLast DEF LogAgrees
  <2> QED
    BY <2>1, <2>2 DEF LogAgrees
<1>4. \A t \in Threads : at[r][t] # "off" => status[r] = "running" /\ ~Ended(r)
  BY DEF ThreadsInOrder, IdleUnlessRunning, Ended
<1>5. CASE StartRun(r)
  <2> DEFINE e == Event("run_started", 0, 0, "")
             ev == <<e>>
  <2>1. e \in Events /\ e.type = "run_started"
    BY EventType DEF Event
  <2>2. /\ Emit(r, ev) /\ Go(r, Main, "code") /\ status[r] = "new"
        /\ status' = [status EXCEPT ![r] = "running"] /\ UNCHANGED <<call, made>>
    BY <1>5 DEF StartRun
  <2>3. \A t \in Threads : at[r][t] = "off"
    BY <2>2 DEF ThreadsInOrder, IdleUnlessRunning
  <2>4. \A t \in Threads : at'[r][t] \in {"off", "code"}
    <3>1. /\ at'[r][Main] = "code"
          /\ \A x \in Runs, y \in Threads : <<x, y>> # <<r, Main>> => at'[x][y] = at[x][y]
      BY <1>2, <2>2, GoType DEF Places
    <3> QED
      BY <2>3, <3>1
  <2> HIDE DEF e
  <2>5. ev \in Seq(Events) /\ At(ev, "run_done", 0) = {} /\ \A i \in DOMAIN ev : ev[i] = e
    BY <2>1, OneEvent, AtOne
  <2>6. \A i \in DOMAIN ev : ev[i].type \notin Kinds
    BY <2>1, <2>5 DEF Kinds
  <2>7. ~Ended(r) /\ ~Ended(r)'
    BY <1>1, <2>2 DEF Ended
  <2> HIDE DEF ev
  <2>8. Quiet(ev)
    BY <2>2, <2>3, <2>4, <2>5, <2>6, <2>7
  <2> QED
    BY <1>3, <2>5, <2>8
<1>6. ASSUME NEW u \in Threads, Phase(r, u)
      PROVE  LogAgrees(r)'
  <2>1. PICK ev \in Seq(Events) :
          /\ Emit(r, ev)
          /\ \A i \in DOMAIN ev : ev[i].type \in {"phase_done", "phase_started"}
    BY <1>6, PhaseEvents
  <2>2. /\ at[r][u] = "code" /\ UNCHANGED <<status, at, call>>
        /\ made' = [made EXCEPT ![r].phases = made[r].phases + 1]
    BY <1>6 DEF Phase
  <2>3. made'[r].agents = made[r].agents /\ made'[r].gates = made[r].gates
    BY <1>1, <2>2
  <2>4. ~Ended(r) /\ ~Ended(r)'
    BY <1>4, <2>2 DEF Ended
  <2>5. At(ev, "run_done", 0) = {} /\ \A i \in DOMAIN ev : ev[i].type \notin Kinds
    BY <2>1 DEF At, Kinds
  <2>6. Quiet(ev)
    BY <2>1, <2>2, <2>3, <2>4, <2>5
  <2> QED
    BY <1>3, <2>6
<1>7. ASSUME NEW outcome \in {"completed", "failed"}, Finish(r, outcome)
      PROVE  LogAgrees(r)'
  <2> DEFINE ev == <<Over(outcome)>>
  <2>1. /\ at[r][Main] = "code" /\ Emit(r, ev) /\ Go(r, Main, "off")
        /\ status' = [status EXCEPT ![r] = outcome] /\ UNCHANGED <<call, made>>
    BY <1>7 DEF Finish, Over
  <2>2. /\ ev \in Seq(Events) /\ At(ev, "run_done", 0) = {Len(ev)}
        /\ Over(outcome).type = "run_done" /\ \A i \in DOMAIN ev : ev[i] = Over(outcome)
    BY OverEvent
  <2>3. \A i \in DOMAIN ev : ev[i].type \notin Kinds
    BY <2>2 DEF Kinds
  <2> HIDE DEF ev
  <2>4. /\ at'[r][Main] = "off"
        /\ \A x \in Runs, y \in Threads : <<x, y>> # <<r, Main>> => at'[x][y] = at[x][y]
    BY <1>2, <2>1, GoType DEF Places
  <2>5. \A t \in Threads : /\ at'[r][t] = "agent" <=> at[r][t] = "agent"
                           /\ at'[r][t] = "gate" <=> at[r][t] = "gate"
    BY <2>1, <2>4
  <2>6. ~Ended(r) /\ Ended(r)'
    BY <1>1, <1>2, <1>4, <2>1 DEF Ended
  <2>7. Quiet(ev)
    BY <2>1, <2>2, <2>3, <2>5, <2>6
  <2> QED
    BY <1>3, <2>2, <2>7
<1>8. ASSUME UNCHANGED <<status, made, call, buffer>>, \E t \in Threads : at[r][t] # "off",
             \A t \in Threads : /\ at'[r][t] = "agent" <=> at[r][t] = "agent"
                                /\ at'[r][t] = "gate" <=> at[r][t] = "gate"
      PROVE  LogAgrees(r)'
  <2> DEFINE ev == <<>>
  <2>1. ev \in Seq(Events) /\ Emit(r, ev)
    BY <1>8, EmitsNothing
  <2>2. DOMAIN ev = {} /\ At(ev, "run_done", 0) = {}
    BY DEF At
  <2> HIDE DEF ev
  <2>3. ~Ended(r) /\ ~Ended(r)'
    BY <1>4, <1>8 DEF Ended
  <2>4. Quiet(ev)
    BY <1>8, <2>1, <2>2, <2>3
  <2> QED
    BY <1>3, <2>1, <2>4
<1>9. ASSUME NEW u \in Threads, NEW c \in Shape[r].cursors, Commit(r, u, c)
      PROVE  LogAgrees(r)'
  BY <1>8, <1>9 DEF Commit
<1>10. ASSUME NEW team \in SUBSET Shape[r].team, Fork(r, team)
       PROVE  LogAgrees(r)'
  <2>1. /\ at[r][Main] = "code" /\ UNCHANGED <<status, call, made, buffer>>
        /\ at' = [at EXCEPT ![r] = [t \in Threads |-> IF t = Main THEN "join"
                                                      ELSE IF t \in team THEN "code"
                                                      ELSE "off"]]
    BY <1>10 DEF Fork
  <2>2. \A t \in Threads : at'[r][t] \in {"join", "code", "off"}
    BY <1>1, <2>1
  <2>3. \A t \in Threads : at[r][t] \in {"code", "off"}
    BY <1>2, <2>1 DEF ThreadsInOrder, WorkersOnlyInJoin, Threads
  <2> QED
    BY <1>2, <1>8, <2>1, <2>2, <2>3
<1>11. ASSUME NEW w \in Workers, NEW place \in {"value", "null"}, WorkerSettles(r, w, place)
       PROVE  LogAgrees(r)'
  <2>1. at[r][w] = "code" /\ Go(r, w, place) /\ UNCHANGED <<status, call, made, buffer>>
    BY <1>11 DEF WorkerSettles
  <2>2. /\ at'[r][w] = place
        /\ \A x \in Runs, y \in Threads : <<x, y>> # <<r, w>> => at'[x][y] = at[x][y]
    BY <1>2, <2>1, GoType DEF Places
  <2>3. \A t \in Threads : /\ at'[r][t] = "agent" <=> at[r][t] = "agent"
                           /\ at'[r][t] = "gate" <=> at[r][t] = "gate"
    BY <2>1, <2>2
  <2> QED
    BY <1>2, <1>8, <2>1, <2>3
<1>12. ASSUME Join(r)
       PROVE  LogAgrees(r)'
  <2>1. /\ at[r][Main] = "join" /\ AllSettled(r) /\ UNCHANGED <<status, call, made, buffer>>
        /\ at' = [at EXCEPT ![r] = [t \in Threads |-> IF t = Main THEN "code" ELSE "off"]]
    BY <1>12 DEF Join
  <2>2. \A t \in Threads : at'[r][t] \in {"code", "off"}
    BY <1>1, <2>1
  <2>3. \A t \in Threads : at[r][t] \notin {"agent", "gate"}
    BY <1>2, <2>1 DEF AllSettled, Busy, Threads
  <2> QED
    BY <1>2, <1>8, <2>1, <2>2, <2>3
<1> HIDE DEF Quiet
<1> QED
  BY <1>5, <1>6, <1>7, <1>9, <1>10, <1>11, <1>12 DEF UngatedStep

\* The inductive invariant: at any moment, not only at the end, the log of a run and its
\* threads agree on every call, and the run's end has not been said before its end.
LogInv == ThreadsInOrder /\ \A r \in Runs : LogAgrees(r)

\* Of a run without threads that has made and said nothing, the log is in order.
LEMMA NothingSaid ==
  ASSUME NEW where, NEW holds, NEW place, NEW opens, NEW closes,
         \A t \in Threads : where[t] # place
  PROVE  /\ Agree(<<>>, where, holds, 0, place, opens, closes)
         /\ At(<<>>, "run_done", 0) = {}
<1> DEFINE log == <<>>
<1>1. DOMAIN log = {}
  OBVIOUS
<1> HIDE DEF log
<1>2. \A type, id : At(log, type, id) = {}
  BY <1>1 DEF At
<1>3. 1 .. 0 = {}
  OBVIOUS
<1>4. Agree(log, where, holds, 0, place, opens, closes)
  BY <1>2, <1>3 DEF Agree
<1> QED
  BY <1>2, <1>4 DEF log

LEMMA NothingLogged ==
  ASSUME \A r \in Runs : /\ buffer[r] = <<>> /\ made[r] = NoneMade
                         /\ status[r] \notin {"completed", "failed"}
                         /\ \A t \in Threads : at[r][t] = "off"
  PROVE  LogInv
<1>1. Main \in Threads /\ Workers \subseteq Threads
  BY DEF Threads
<1>2. ThreadsInOrder
  BY <1>1 DEF ThreadsInOrder, IdleUnlessRunning, WorkersOnlyInJoin
<1>3. ASSUME NEW r \in Runs
      PROVE  LogAgrees(r)
  <2>1. made[r].agents = 0 /\ made[r].gates = 0
    BY DEF NoneMade
  <2>2. /\ Agree(<<>>, at[r], call[r], 0, "agent", "agent_started", "agent_done")
        /\ Agree(<<>>, at[r], call[r], 0, "gate", "approval_requested", "approval_resolved")
        /\ At(<<>>, "run_done", 0) = {}
    BY NothingSaid
  <2>3. buffer[r] = <<>> /\ ~Ended(r)
    BY DEF Ended
  <2> QED
    BY <2>1, <2>2, <2>3 DEF LogAgrees, AgentsAgree, GatesAgree, EndsLast
<1> QED
  BY <1>2, <1>3 DEF LogInv

LEMMA LogNext == ASSUME TypeOK, LogInv, [Next]_vars PROVE LogInv'
<1>1. RuntimeTypeOK
  BY DEF TypeOK
<1>2. ASSUME NEW r \in Runs, NEW t \in Threads, Moves(r, t)
      PROVE  LogInv'
  <2>1. \/ UngatedStep(r)
        \/ OpenGate(r, t)
        \/ \E d \in Decisions : PassGate(r, t, d)
    BY <1>2 DEF Moves
  <2>2. ThreadsInOrder'
    <3>1. CASE UngatedStep(r)
      BY <1>1, <3>1, UngatedThreads DEF LogInv
    <3>2. CASE OpenGate(r, t)
      <4>1. at[r][t] = "code" /\ Go(r, t, "gate") /\ UNCHANGED status
        BY <3>2 DEF OpenGate
      <4> QED
        BY <1>1, <4>1, MoveInOrder DEF LogInv, Places
    <3>3. ASSUME NEW d \in Decisions, PassGate(r, t, d)
          PROVE  ThreadsInOrder'
      <4>1. at[r][t] = "gate" /\ Go(r, t, "code") /\ UNCHANGED status
        BY <3>3 DEF PassGate
      <4> QED
        BY <1>1, <4>1, MoveInOrder DEF LogInv, Places
    <3> QED
      BY <2>1, <3>1, <3>2, <3>3
  <2>3. LogAgrees(r)'
    <3>1. ThreadsInOrder /\ LogAgrees(r)
      BY DEF LogInv
    <3>2. ASSUME NEW u \in Threads, CallAgent(r, u) \/ OpenGate(r, u)
          PROVE  LogAgrees(r)'
      BY <1>1, <3>1, <3>2, CallAgrees
    <3>3. ASSUME NEW u \in Threads,
                 (\E cost \in Costs : AgentReturns(r, u, cost)) \/ AgentFails(r, u)
          PROVE  LogAgrees(r)'
      BY <1>1, <3>1, <3>3, AnswerAgrees
    <3>4. ASSUME NEW d \in Decisions, PassGate(r, t, d)
          PROVE  LogAgrees(r)'
      BY <1>1, <3>1, <3>4, PassAgrees
    <3>5. CASE UngatedStep(r)
      BY <1>1, <3>1, <3>2, <3>3, <3>5, QuietStepAgrees
    <3> QED
      BY <2>1, <3>2, <3>4, <3>5
  <2>4. ASSUME NEW x \in Runs \ {r}
        PROVE  LogAgrees(x)'
    <3>1. /\ status'[x] = status[x] /\ at'[x] = at[x] /\ call'[x] = call[x]
          /\ made'[x] = made[x] /\ buffer'[x] = buffer[x]
      BY <1>1, <2>1, OthersStay
    <3>2. LogAgrees(x)
      BY DEF LogInv
    <3> QED
      BY <3>1, <3>2 DEF LogAgrees, AgentsAgree, GatesAgree, EndsLast, Ended
  <2> QED
    BY <2>2, <2>3, <2>4 DEF LogInv
<1>3. CASE UNCHANGED <<status, at, call, made, buffer>>
  BY <1>3 DEF LogInv, ThreadsInOrder, IdleUnlessRunning, WorkersOnlyInJoin,
              LogAgrees, AgentsAgree, GatesAgree, EndsLast, Ended
<1>4. CASE Crash
  <2>1. \A r \in Runs : /\ buffer'[r] = <<>> /\ made'[r] = NoneMade
                        /\ status'[r] \notin {"completed", "failed"}
                        /\ \A t \in Threads : at'[r][t] = "off"
    BY <1>1, <1>4 DEF Crash, RuntimeTypeOK
  <2>2. Main \in Threads /\ Workers \subseteq Threads
    BY DEF Threads
  <2>3. ThreadsInOrder'
    BY <2>1, <2>2 DEF ThreadsInOrder, IdleUnlessRunning, WorkersOnlyInJoin
  <2>4. ASSUME NEW r \in Runs
        PROVE  LogAgrees(r)'
    <3>1. made'[r].agents = 0 /\ made'[r].gates = 0
      BY <2>1 DEF NoneMade
    <3>2. /\ Agree(<<>>, at'[r], call'[r], 0, "agent", "agent_started", "agent_done")
          /\ Agree(<<>>, at'[r], call'[r], 0, "gate", "approval_requested", "approval_resolved")
          /\ At(<<>>, "run_done", 0) = {}
      BY <2>1, NothingSaid
    <3>3. buffer'[r] = <<>> /\ ~Ended(r)'
      BY <2>1 DEF Ended
    <3> QED
      BY <3>1, <3>2, <3>3 DEF LogAgrees, AgentsAgree, GatesAgree, EndsLast
  <2> QED
    BY <2>3, <2>4 DEF LogInv
<1> QED
  BY <1>2, <1>3, <1>4, ServerSteps DEF vars, Subscribe, Unsubscribe

LEMMA LogInit == ASSUME Init PROVE LogInv
<1>1. \A r \in Runs : /\ buffer[r] = <<>> /\ made[r] = NoneMade
                      /\ status[r] \notin {"completed", "failed"}
                      /\ \A t \in Threads : at[r][t] = "off"
  BY DEF Init, RuntimeInit
<1> QED
  BY <1>1, NothingLogged

\* Whatever the workers of parallel() and pipeline() went through and however the runs
\* interleave: when a run has ended, run_done is the one last event of its log, and
\* every node and gate it announced was closed exactly once before.
THEOREM LogHolds == Spec => []LogIsComplete
<1>1. Init => LogInv
  BY LogInit
<1>2. LogInv => LogIsComplete
  <2> SUFFICES ASSUME LogInv, NEW r \in Runs, Ended(r)
               PROVE  /\ Positions(r, "run_done", 0) = {Len(buffer[r])}
                      /\ \A n \in 1 .. made[r].agents :
                           ClosedOnce(r, "agent_started", "agent_done", n)
                      /\ \A g \in 1 .. made[r].gates :
                           ClosedOnce(r, "approval_requested", "approval_resolved", g)
    BY DEF LogIsComplete
  <2>1. \A t \in Threads : at[r][t] = "off"
    BY DEF LogInv, ThreadsInOrder, IdleUnlessRunning, Ended
  <2>2. At(buffer[r], "run_done", 0) = {Len(buffer[r])}
    BY DEF LogInv, LogAgrees, EndsLast
  <2>3. /\ \A n \in 1 .. made[r].agents : Once(buffer[r], "agent_started", "agent_done", n)
        /\ \A g \in 1 .. made[r].gates :
             Once(buffer[r], "approval_requested", "approval_resolved", g)
    BY <2>1 DEF LogInv, LogAgrees, AgentsAgree, GatesAgree, Agree
  <2> QED
    BY <2>2, <2>3 DEF Once, At, ClosedOnce, Positions
<1> QED
  BY <1>1, <1>2, TypeCorrect, LogNext, PTL DEF Spec

-----------------------------------------------------------------------------
(* The cap, where nobody takes the overrun for an answer. *)

\* The flow of r makes its agent calls itself, and lets the rejection of one end it.
LetsOverrunsEnd(r) == Shape[r].team = {} /\ ~Shape[r].catches

BelowCap(r) == spent[r] = 0 \/ ~OverCap(spent[r])

\* It never has a worker, and goes on below the cap only.
CapOf(r) ==
  LetsOverrunsEnd(r) =>
    /\ \A w \in Workers : at[r][w] = "off"
    /\ BelowCap(r) \/ status[r] = "failed"

LEMMA CapStep ==
  ASSUME RuntimeTypeOK, ThreadsInOrder, NEW r \in Runs, NEW t \in Threads, CapOf(r),
         \/ UngatedStep(r)
         \/ OpenGate(r, t)
         \/ \E d \in Decisions : PassGate(r, t, d)
  PROVE  CapOf(r)'
<1> SUFFICES ASSUME LetsOverrunsEnd(r)
             PROVE  /\ \A w \in Workers : at'[r][w] = "off"
                    /\ BelowCap(r)' \/ status'[r] = "failed"
  BY DEF CapOf, LetsOverrunsEnd
<1>1. /\ \A w \in Workers : at[r][w] = "off"
      /\ BelowCap(r) \/ status[r] = "failed"
  BY DEF CapOf
<1>2. Main \in Threads /\ Threads = Workers \cup {Main} /\ Main \notin Workers
  BY RuntimeAssumption DEF Threads
<1>3. /\ at \in [Runs -> [Threads -> Places]] /\ spent \in [Runs -> Nat]
      /\ DOMAIN status = Runs
  BY DEF RuntimeTypeOK
<1>4. ASSUME NEW u \in Threads, at[r][u] # "off" PROVE u = Main /\ BelowCap(r)
  <2>1. u = Main
    BY <1>1, <1>2, <1>4
  <2>2. status[r] = "running"
    BY <1>4 DEF ThreadsInOrder, IdleUnlessRunning
  <2> QED
    BY <1>1, <2>1, <2>2
<1>5. ASSUME NEW place, Go(r, Main, place)
      PROVE  \A w \in Workers : at'[r][w] = "off"
  BY <1>1, <1>2, <1>3, <1>5 DEF Go
<1>6. ASSUME UNCHANGED spent, BelowCap(r) PROVE BelowCap(r)'
  BY <1>6 DEF BelowCap
<1> DEFINE Kept == /\ \A w \in Workers : at'[r][w] = "off"
                   /\ BelowCap(r)' \/ status'[r] = "failed"
<1>7. ASSUME StartRun(r) PROVE Kept
  <2>1. BelowCap(r)
    BY <1>1, <1>7 DEF StartRun
  <2> QED
    BY <1>5, <1>6, <1>7, <2>1 DEF StartRun
<1>8. ASSUME NEW u \in Threads, CallAgent(r, u) \/ OpenGate(r, u) PROVE Kept
  <2>1. u = Main /\ BelowCap(r)
    BY <1>4, <1>8 DEF CallAgent, OpenGate
  <2> QED
    BY <1>5, <1>6, <1>8, <2>1 DEF CallAgent, OpenGate
<1>9. ASSUME NEW u \in Threads, NEW d \in Decisions, PassGate(r, u, d) PROVE Kept
  <2>1. u = Main /\ BelowCap(r)
    BY <1>4, <1>9 DEF PassGate
  <2> QED
    BY <1>5, <1>6, <1>9, <2>1 DEF PassGate
<1>10. ASSUME NEW ev, Raise(r, Main, ev)
       PROVE  (\A w \in Workers : at'[r][w] = "off") /\ status'[r] = "failed"
  <2>1. Go(r, Main, "off") /\ status' = [status EXCEPT ![r] = "failed"]
    BY <1>10 DEF Raise, LetsOverrunsEnd
  <2> QED
    BY <1>3, <1>5, <2>1
<1>11. ASSUME NEW u \in Threads, NEW cost \in Costs, AgentReturns(r, u, cost) PROVE Kept
  <2>1. u = Main
    BY <1>4, <1>11 DEF AgentReturns
  <2>2. CASE OverCap(spent'[r])
    <3>1. \E ev : Raise(r, Main, ev)
      BY <1>11, <2>1, <2>2 DEF AgentReturns
    <3> QED
      BY <1>10, <3>1
  <2>3. CASE ~OverCap(spent'[r])
    <3>1. Go(r, Main, "code")
      BY <1>11, <2>1, <2>3 DEF AgentReturns
    <3>2. BelowCap(r)'
      BY <2>3 DEF BelowCap, OverCap
    <3> QED
      BY <1>5, <3>1, <3>2
  <2> QED
    BY <2>2, <2>3
<1>12. ASSUME NEW u \in Threads, AgentFails(r, u) PROVE Kept
  <2>1. u = Main
    BY <1>4, <1>12 DEF AgentFails
  <2>2. \E ev : Raise(r, Main, ev)
    BY <1>12, <2>1 DEF AgentFails
  <2> QED
    BY <1>10, <2>2
<1>13. ASSUME NEW u \in Threads, Phase(r, u) \/ \E c \in Shape[r].cursors : Commit(r, u, c)
       PROVE  Kept
  BY <1>1, <1>6, <1>13 DEF Phase, Commit
<1>14. ASSUME NEW team \in SUBSET Shape[r].team, Fork(r, team) PROVE Kept
  BY <1>14 DEF Fork, LetsOverrunsEnd
<1>15. ASSUME NEW w \in Workers, NEW place, WorkerSettles(r, w, place) PROVE Kept
  BY <1>1, <1>15 DEF WorkerSettles
<1>16. ASSUME Join(r) PROVE Kept
  <2>1. \A w \in Workers : at'[r][w] = "off"
    BY <1>2, <1>3, <1>16 DEF Join
  <2>2. BelowCap(r)
    BY <1>2, <1>4, <1>16 DEF Join
  <2> QED
    BY <1>6, <1>16, <2>1, <2>2 DEF Join
<1>17. ASSUME NEW outcome, Finish(r, outcome) PROVE Kept
  <2>1. BelowCap(r)
    BY <1>2, <1>4, <1>17 DEF Finish
  <2> QED
    BY <1>5, <1>6, <1>17, <2>1 DEF Finish
<1> HIDE DEF Kept
<1>18. Kept
  BY <1>7, <1>8, <1>9, <1>11, <1>12, <1>13, <1>14, <1>15, <1>16, <1>17 DEF UngatedStep
<1> QED
  BY <1>18 DEF Kept

LEMMA CapNext ==
  ASSUME TypeOK, ThreadsInOrder, \A r \in Runs : CapOf(r), [Next]_vars
  PROVE  \A r \in Runs : CapOf(r)'
<1>1. ASSUME NEW r \in Runs, NEW t \in Threads, Moves(r, t), NEW x \in Runs PROVE CapOf(x)'
  <2>1. /\ RuntimeTypeOK
        /\ \/ UngatedStep(r)
           \/ OpenGate(r, t)
           \/ \E d \in Decisions : PassGate(r, t, d)
    BY <1>1 DEF Moves, TypeOK
  <2>2. CASE x = r
    BY <2>1, <2>2, CapStep
  <2>3. CASE x # r
    <3>1. status'[x] = status[x] /\ at'[x] = at[x]
      BY <2>1, <2>3, OthersStay
    <3>2. spent'[x] = spent[x]
      BY <2>1, <2>3, MoneyEvents
    <3> QED
      BY <3>1, <3>2 DEF CapOf, LetsOverrunsEnd, BelowCap
  <2> QED
    BY <2>2, <2>3
<1>2. ASSUME UNCHANGED <<status, at, spent>>, NEW x \in Runs PROVE CapOf(x)'
  BY <1>2 DEF CapOf, LetsOverrunsEnd, BelowCap
<1>3. ASSUME Crash, NEW x \in Runs PROVE CapOf(x)'
  BY <1>3 DEF Crash, CapOf, BelowCap, Threads
<1> QED
  BY <1>1, <1>2, <1>3, ServerSteps DEF vars, Subscribe, Unsubscribe

\* A flow that makes its agent calls itself and catches nothing fails when it exceeds the
\* cap, as README.md:15 says, for any cap and costs: parallel() and pipeline(), and a flow
\* that goes on, are all that keeps a run from it (runtime.ts:50-64, parallel.ts:3).
THEOREM CapHolds ==
  Spec => [](\A r \in Runs :
               LetsOverrunsEnd(r) /\ status[r] = "completed" => spent[r] = 0 \/ spent[r] < Cap)
<1> DEFINE Capped == \A r \in Runs : CapOf(r)
           Ends == \A r \in Runs :
                     LetsOverrunsEnd(r) /\ status[r] = "completed" => spent[r] = 0 \/ spent[r] < Cap
<1>1. Init => LogInv /\ Capped
  <2> SUFFICES ASSUME Init PROVE LogInv /\ Capped
    OBVIOUS
  <2>1. Capped
    BY DEF Init, RuntimeInit, CapOf, BelowCap, Threads
  <2> QED
    BY <2>1, LogInit
<1>2. TypeOK /\ LogInv /\ Capped /\ [Next]_vars => LogInv' /\ Capped'
  BY LogNext, CapNext DEF LogInv
<1>3. TypeOK /\ Capped => Ends
  <2> SUFFICES ASSUME TypeOK, Capped, NEW r \in Runs, LetsOverrunsEnd(r),
                      status[r] = "completed"
               PROVE  spent[r] = 0 \/ spent[r] < Cap
    OBVIOUS
  <2>1. spent[r] = 0 \/ ~(spent[r] >= Cap)
    BY DEF CapOf, BelowCap, OverCap
  <2>2. spent[r] \in Nat /\ Cap \in Nat
    BY RuntimeAssumption DEF TypeOK, RuntimeTypeOK
  <2> QED
    BY <2>1, <2>2
<1> QED
  BY <1>1, <1>2, <1>3, TypeCorrect, PTL DEF Spec

=============================================================================

----------------------------- MODULE FlowRuntime -----------------------------
(***************************************************************************)
(* `runFlow`: the instrumentation a flow's code runs under.  The flow is    *)
(* any program over the api (agent, approval, phase, commit, parallel,      *)
(* pipeline); the module says what the engine does at each call and emits.  *)
(*                                                                          *)
(* A run has one thread Main and, inside parallel() or pipeline(), one      *)
(* worker per thunk or item.  A worker that throws becomes null and the     *)
(* others go on; Main resumes when all of them have settled.  Flows await   *)
(* every promise the api gives them, as all the flows of the repository do. *)
(***************************************************************************)
EXTENDS Integers, Sequences, FiniteSets, SequencesExt

CONSTANTS
  Runs,      \* run ids
  Workers,   \* bound: the thunks or items of one parallel() or pipeline()
  Main,      \* the flow's own thread
  Cap,       \* deps.budgetUsd, in cents
  Costs,     \* what an executor may report as a call's cost, Unset included
  Cursors,   \* what a flow may commit
  Decisions, \* what approval() may resolve with
  Unset,     \* no cursor committed, no cost reported
  Shape,     \* bound: the most the flow of a run does (see Shapes)
  Batches    \* the sets of runs that may be asked for in one behaviour

\* A flow makes so many agent calls, opens so many gates and phases, commits some of
\* these cursors, gives parallel() or pipeline() some of these workers, and its code
\* does or does not catch what the api throws.
Shapes == [nodes : Nat, gates : Nat, phases : Nat, cursors : SUBSET Cursors,
           team : SUBSET Workers, catches : BOOLEAN]

ASSUME RuntimeAssumption ==
  /\ Cap \in Nat /\ Costs \subseteq Nat \cup {Unset}
  /\ Shape \in [Runs -> Shapes]
  /\ Batches \subseteq SUBSET Runs
  /\ Main \notin Workers
  /\ Unset \notin Cursors \cup Nat

VARIABLES
  status,     \* of every run: never asked for, new, running, how it ended
  at,         \* where every thread of a run is
  call,       \* the node or approval id a thread awaits, 0 if none
  spent,      \* what the run's agents have cost
  committed,  \* the staged cursor
  made,       \* nextId's counters: agent nodes, approvals, phases
  buffer      \* the events the run has emitted, in order

runtimeVars == <<status, at, call, spent, committed, made, buffer>>

-----------------------------------------------------------------------------
Threads == Workers \cup {Main}

\* "off": no such thread now.  "code": executing the flow's code.  "join": awaiting
\* the workers.  "value" and "null": a worker that returned or threw.
Places == {"off", "code", "agent", "gate", "join", "value", "null"}

\* `of` is the phase of a node or the sum of an overrun, `how` a status or decision.
Event(type, id, of, how) == [type |-> type, id |-> id, of |-> of, how |-> how]

Events ==
  [type : {"run_started", "phase_started", "phase_done", "agent_started",
           "agent_done", "budget_exceeded", "approval_requested",
           "approval_resolved", "run_done"},
   id : Nat, of : Nat, how : {"", "ok", "failed", "completed"} \cup Decisions]

NoneMade == [agents |-> 0, gates |-> 0, phases |-> 0]

Busy(r, t) == at[r][t] \in {"code", "agent", "gate", "join"}

\* Mutants: the cap itself is still allowed; a join that stops waiting at the first
\* settled worker.
OverCapStrict(cents) == cents > Cap

SomeSettled(r) == \E w \in Workers : at[r][w] \in {"value", "null"}

Charge(cost) == IF cost = Unset THEN 0 ELSE cost

OverCap(cents) == cents >= Cap

AllSettled(r) == \A w \in Workers : ~Busy(r, w)

-----------------------------------------------------------------------------
RuntimeInit ==
  /\ \E batch \in Batches : status = [r \in Runs |-> IF r \in batch THEN "new" ELSE "never"]
  /\ at = [r \in Runs |-> [t \in Threads |-> "off"]]
  /\ call = [r \in Runs |-> [t \in Threads |-> 0]]
  /\ spent = [r \in Runs |-> 0]
  /\ committed = [r \in Runs |-> Unset]
  /\ made = [r \in Runs |-> NoneMade]
  /\ buffer = [r \in Runs |-> <<>>]

Emit(r, events) == buffer' = [buffer EXCEPT ![r] = @ \o events]

Go(r, t, place) == at' = [at EXCEPT ![r][t] = place]

\* The rejection of an api call reaches the code of thread t after `events` were
\* emitted.  Uncaught, it settles a worker as null and makes runFlow's catch end
\* the run.
Raise(r, t, events) ==
  \/ /\ Shape[r].catches
     /\ Go(r, t, "code")
     /\ Emit(r, events)
     /\ UNCHANGED status
  \/ /\ t # Main
     /\ Go(r, t, "null")
     /\ Emit(r, events)
     /\ UNCHANGED status
  \/ /\ t = Main
     /\ Go(r, t, "off")
     /\ Emit(r, events \o <<Event("run_done", 0, 0, "failed")>>)
     /\ status' = [status EXCEPT ![r] = "failed"]

StartRun(r) ==
  /\ status[r] = "new"
  /\ status' = [status EXCEPT ![r] = "running"]
  /\ Go(r, Main, "code")
  /\ Emit(r, <<Event("run_started", 0, 0, "")>>)
  /\ UNCHANGED <<call, spent, committed, made>>

\* runAgent up to its await of executor.run; the node belongs to the active phase.
CallAgent(r, t) ==
  /\ at[r][t] = "code"
  /\ made[r].agents < Shape[r].nodes
  /\ made' = [made EXCEPT ![r].agents = @ + 1]
  /\ call' = [call EXCEPT ![r][t] = made'[r].agents]
  /\ Go(r, t, "agent")
  /\ Emit(r, <<Event("agent_started", made'[r].agents, made[r].phases, "")>>)
  /\ UNCHANGED <<status, spent, committed>>

\* The executor answers: the node is done, then its cost counts against the cap.
AgentReturns(r, t, cost) ==
  LET done == Event("agent_done", call[r][t], 0, "ok")
  IN  /\ at[r][t] = "agent"
      /\ spent' = [spent EXCEPT ![r] = @ + Charge(cost)]
      /\ call' = [call EXCEPT ![r][t] = 0]
      /\ IF OverCap(spent'[r])
           THEN Raise(r, t, <<done, Event("budget_exceeded", 0, spent'[r], "")>>)
           ELSE /\ Go(r, t, "code")
                /\ Emit(r, <<done>>)
                /\ UNCHANGED status
      /\ UNCHANGED <<committed, made>>

AgentFails(r, t) ==
  /\ at[r][t] = "agent"
  /\ call' = [call EXCEPT ![r][t] = 0]
  /\ Raise(r, t, <<Event("agent_done", call[r][t], 0, "failed")>>)
  /\ UNCHANGED <<spent, committed, made>>

\* approval(): the gate is announced, then the thread awaits the resolver.
OpenGate(r, t) ==
  /\ at[r][t] = "code"
  /\ made[r].gates < Shape[r].gates
  /\ made' = [made EXCEPT ![r].gates = @ + 1]
  /\ call' = [call EXCEPT ![r][t] = made'[r].gates]
  /\ Go(r, t, "gate")
  /\ Emit(r, <<Event("approval_requested", made'[r].gates, 0, "")>>)
  /\ UNCHANGED <<status, spent, committed>>

PassGate(r, t, decision) ==
  /\ at[r][t] = "gate"
  /\ call' = [call EXCEPT ![r][t] = 0]
  /\ Go(r, t, "code")
  /\ Emit(r, <<Event("approval_resolved", call[r][t], 0, decision)>>)
  /\ UNCHANGED <<status, spent, committed, made>>

\* phase(): closes the active phase and opens the next.  Phase 0 is no phase.
Phase(r, t) ==
  LET p == made[r].phases
      closing == IF p = 0 THEN <<>> ELSE <<Event("phase_done", p, 0, "ok")>>
  IN  /\ at[r][t] = "code"
      /\ p < Shape[r].phases
      /\ made' = [made EXCEPT ![r].phases = p + 1]
      /\ Emit(r, closing \o <<Event("phase_started", p + 1, 0, "")>>)
      /\ UNCHANGED <<status, at, call, spent, committed>>

Commit(r, t, c) ==
  /\ at[r][t] = "code"
  /\ committed' = [committed EXCEPT ![r] = c]
  /\ UNCHANGED <<status, at, call, spent, made, buffer>>

\* parallel() and pipeline(): one worker per thunk or item, all started at once.
Fork(r, team) ==
  /\ at[r][Main] = "code"
  /\ team # {}
  /\ at' = [at EXCEPT ![r] = [t \in Threads |-> IF t = Main THEN "join"
                                                ELSE IF t \in team THEN "code"
                                                ELSE "off"]]
  /\ UNCHANGED <<status, call, spent, committed, made, buffer>>

\* A thunk (or an item's last stage) returns, or the worker's own code throws.
WorkerSettles(r, w, place) ==
  /\ at[r][w] = "code"
  /\ place \in {"value", "null"}
  /\ Go(r, w, place)
  /\ UNCHANGED <<status, call, spent, committed, made, buffer>>

Join(r) ==
  /\ at[r][Main] = "join"
  /\ AllSettled(r)
  /\ at' = [at EXCEPT ![r] = [t \in Threads |-> IF t = Main THEN "code" ELSE "off"]]
  /\ UNCHANGED <<status, call, spent, committed, made, buffer>>

\* The flow returns, or its own code throws.
Finish(r, outcome) ==
  /\ at[r][Main] = "code"
  /\ outcome \in {"completed", "failed"}
  /\ status' = [status EXCEPT ![r] = outcome]
  /\ Go(r, Main, "off")
  /\ Emit(r, <<Event("run_done", 0, 0, outcome)>>)
  /\ UNCHANGED <<call, spent, committed, made>>

\* What runFlow returns: a staged cursor is surfaced only by a completed run.
ReturnedCursor(r) == IF status[r] = "completed" THEN committed[r] ELSE Unset

\* The steps of a run in which no approval gate is opened or passed.
UngatedStep(r) ==
  \/ StartRun(r)
  \/ \E t \in Threads :
       \/ CallAgent(r, t)
       \/ \E cost \in Costs : AgentReturns(r, t, cost)
       \/ AgentFails(r, t)
       \/ Phase(r, t)
       \/ \E c \in Shape[r].cursors : Commit(r, t, c)
  \/ \E team \in SUBSET Shape[r].team : Fork(r, team)
  \/ \E w \in Workers, place \in {"value", "null"} : WorkerSettles(r, w, place)
  \/ Join(r)
  \/ \E outcome \in {"completed", "failed"} : Finish(r, outcome)

-----------------------------------------------------------------------------
RuntimeTypeOK ==
  /\ status \in [Runs -> {"never", "new", "running", "completed", "failed", "lost"}]
  /\ at \in [Runs -> [Threads -> Places]]
  /\ call \in [Runs -> [Threads -> Nat]]
  /\ spent \in [Runs -> Nat]
  /\ committed \in [Runs -> Cursors \cup {Unset}]
  /\ made \in [Runs -> [agents : Nat, gates : Nat, phases : Nat]]
  /\ buffer \in [Runs -> Seq(Events)]

Ended(r) == status[r] \in {"completed", "failed"}

Positions(r, type, id) ==
  {i \in DOMAIN buffer[r] : buffer[r][i].type = type /\ buffer[r][i].id = id}

\* What `opens` announced under id is closed by exactly one later `closes`.
ClosedOnce(r, opens, closes, id) ==
  \E i \in Positions(r, opens, id), j \in Positions(r, closes, id) :
     /\ i < j
     /\ Positions(r, opens, id) = {i}
     /\ Positions(r, closes, id) = {j}

\* When a run ends its log is complete: run_done is the one last event, and every
\* agent node and every approval gate that was announced was closed exactly once
\* before it, whatever the workers of parallel() and pipeline() went through.
LogIsComplete ==
  \A r \in Runs : Ended(r) =>
    /\ Positions(r, "run_done", 0) = {Len(buffer[r])}
    /\ \A n \in 1 .. made[r].agents : ClosedOnce(r, "agent_started", "agent_done", n)
    /\ \A g \in 1 .. made[r].gates :
         ClosedOnce(r, "approval_requested", "approval_resolved", g)

\* A run whose agents have spent the cap says so at the sum it has reached, and only
\* then: the loop runner knows of a budget blowout from this event alone.
OverrunIsTold ==
  \A r \in Runs :
    LET charged == \E i \in DOMAIN buffer[r] :
                     buffer[r][i].type = "agent_done" /\ buffer[r][i].how = "ok"
        told == \E i \in DOMAIN buffer[r] :
                  buffer[r][i].type = "budget_exceeded" /\ buffer[r][i].of = spent[r]
    IN  charged /\ spent[r] >= Cap <=> told

\* "Exceeding the cap fails the run": a run that completes has not spent its cap.
\* parallel() and pipeline() turn the BudgetExceeded of a worker into null.
OverBudgetFails == \A r \in Runs : status[r] = "completed" => spent[r] < Cap
=============================================================================

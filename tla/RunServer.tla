------------------------------ MODULE RunServer ------------------------------
(***************************************************************************)
(* The runs a server carries: flows under `runFlow`, the buffer of events   *)
(* every run leaves, the clients that watch a run over its WebSocket, and   *)
(* the approval gates parked until a client posts a decision.               *)
(***************************************************************************)
EXTENDS FlowRuntime

CONSTANTS
  Clients,    \* each has one socket on /runs/<id>/events at a time
  Nothing     \* no run watched

ASSUME ServerAssumption == Nothing \notin Runs

VARIABLES
  pending,  \* pendingApprovals: key -> the thread whose promise it resolves
  watch,    \* the run a client's socket is subscribed to
  got,      \* the events a client has been sent over its socket
  down      \* the process has died (its buffers and gates with it)

vars == <<status, at, call, spent, committed, made, buffer,
          pending, watch, got, down>>

-----------------------------------------------------------------------------
Gates(r) == 1 .. Shape[r].gates

Keys == {<<r, g>> : r \in Runs, g \in UNION {Gates(x) : x \in Runs}}

\* Mutants: gates keyed by the approval id alone, or by the run alone.
ApprovalOnlyKey(r, id) == <<CHOOSE x \in Runs : TRUE, id>>

RunOnlyKey(r, id) == <<r, 1>>

GateKey(r, id) == <<r, id>>

\* Mutant: a socket that subscribes without a replay.
NoReplay(r) == <<>>

Replay(r) == buffer[r]

Init ==
  /\ RuntimeInit
  /\ pending = <<>>
  /\ watch = [c \in Clients |-> Nothing]
  /\ got = [c \in Clients |-> <<>>]
  /\ down = FALSE

\* emitFor: what was just pushed on a run's buffer is sent to its subscribers.
FanOut ==
  got' = [c \in Clients |->
            LET r == watch[c]
            IN  IF r = Nothing THEN got[c]
                ELSE got[c] \o SubSeq(buffer'[r], Len(buffer[r]) + 1, Len(buffer'[r]))]

\* A step of a flow that touches no gate.
FlowStep(r) ==
  /\ ~down
  /\ UngatedStep(r)
  /\ FanOut
  /\ UNCHANGED <<pending, watch, down>>

\* awaitApproval: the thread's resolver is parked under the gate's key.
ParkGate(r, t) ==
  /\ ~down
  /\ OpenGate(r, t)
  /\ LET key == GateKey(r, made'[r].gates)
     IN  pending' = [k \in DOMAIN pending \cup {key} |->
                       IF k = key THEN <<r, t>> ELSE pending[k]]
  /\ FanOut
  /\ UNCHANGED <<watch, down>>

\* POST /runs/:id/approvals/:id.  An unknown key is answered 404 and changes
\* nothing; a parked one is taken out of the map and its thread goes on.
PostDecision(r, id, decision) ==
  LET key == GateKey(r, id)
  IN  /\ ~down
      /\ key \in DOMAIN pending
      /\ pending' = [k \in DOMAIN pending \ {key} |-> pending[k]]
      /\ PassGate(pending[key][1], pending[key][2], decision)
      /\ FanOut
      /\ UNCHANGED <<watch, down>>

\* A client opens /runs/<id>/events: the buffer is replayed, then it is subscribed.
Subscribe(c, r) ==
  /\ ~down
  /\ watch[c] = Nothing /\ status[r] # "never"
  /\ watch' = [watch EXCEPT ![c] = r]
  /\ got' = [got EXCEPT ![c] = Replay(r)]
  /\ UNCHANGED <<status, at, call, spent, committed, made, buffer, pending, down>>

Unsubscribe(c) ==
  /\ ~down
  /\ watch[c] # Nothing
  /\ watch' = [watch EXCEPT ![c] = Nothing]
  /\ got' = [got EXCEPT ![c] = <<>>]
  /\ UNCHANGED <<status, at, call, spent, committed, made, buffer, pending, down>>

\* The process dies.  Nothing of a run, of its buffer or of a gate survives it.
Crash ==
  /\ ~down
  /\ down' = TRUE
  /\ status' = [r \in Runs |-> IF status[r] \in {"never", "new"} THEN status[r] ELSE "lost"]
  /\ at' = [r \in Runs |-> [t \in Threads |-> "off"]]
  /\ call' = [r \in Runs |-> [t \in Threads |-> 0]]
  /\ spent' = [r \in Runs |-> 0]
  /\ committed' = [r \in Runs |-> Unset]
  /\ made' = [r \in Runs |-> NoneMade]
  /\ buffer' = [r \in Runs |-> <<>>]
  /\ pending' = <<>>
  /\ watch' = [c \in Clients |-> Nothing]
  /\ got' = [c \in Clients |-> <<>>]

Next ==
  \/ \E r \in Runs : FlowStep(r)
  \/ \E r \in Runs, t \in Threads : ParkGate(r, t)
  \/ \E r \in Runs : \E id \in Gates(r), d \in Decisions : PostDecision(r, id, d)
  \/ \E c \in Clients, r \in Runs : Subscribe(c, r)
  \/ \E c \in Clients : Unsubscribe(c)
  \/ Crash

Spec == Init /\ [][Next]_vars

\* Executors answer, workers settle and parked gates are decided; a flow that gets
\* to run its own code again and again ends in the end.  Nothing makes a process die.
Answers(r) ==
  /\ ~down
  /\ \/ \E t \in Threads :
          \/ \E cost \in Costs : AgentReturns(r, t, cost)
          \/ AgentFails(r, t)
     \/ \E w \in Workers : WorkerSettles(r, w, "value")
     \/ Join(r)
  /\ FanOut
  /\ UNCHANGED <<pending, watch, down>>

Decided(r) ==
  \E id \in Gates(r), d \in Decisions : PostDecision(r, id, d)

Completes(r) ==
  /\ ~down
  /\ Finish(r, "completed")
  /\ FanOut
  /\ UNCHANGED <<pending, watch, down>>

FairSpec ==
  /\ Spec
  /\ \A r \in Runs : WF_vars(Answers(r)) /\ WF_vars(Decided(r)) /\ SF_vars(Completes(r))

-----------------------------------------------------------------------------
\* The types of the runs, the gates and the clients.
TypeOK ==
  /\ RuntimeTypeOK
  /\ DOMAIN pending \subseteq Keys
  /\ pending \in [DOMAIN pending -> Runs \X Threads]
  /\ watch \in [Clients -> Runs \cup {Nothing}]
  /\ got \in [Clients -> Seq(Events)]
  /\ down \in BOOLEAN

\* Every thread parked at a gate can be reached under its own run and approval id,
\* and every parked resolver still has a thread behind it.  Two gates of one run's
\* workers, or of two runs that number their gates alike, never displace each other.
GatesAreReachable ==
  /\ \A r \in Runs, t \in Threads :
       at[r][t] = "gate" =>
         <<r, call[r][t]>> \in DOMAIN pending /\ pending[<<r, call[r][t]>>] = <<r, t>>
  /\ \A k \in DOMAIN pending :
       LET r == pending[k][1]
           t == pending[k][2]
       IN  at[r][t] = "gate" /\ k = <<r, call[r][t]>>

\* A subscribed client, however late it joined, has been sent exactly the events of
\* its run so far, in order, none missing and none twice.
WatchersSeeTheLog ==
  \A c \in Clients : watch[c] # Nothing => got[c] = buffer[watch[c]]

\* A run that started comes to an end (or dies with the process) once executors
\* answer and gates are decided: no gate is left that nobody can decide.
RunsEnd == \A r \in Runs : status[r] = "running" ~> status[r] # "running"
=============================================================================

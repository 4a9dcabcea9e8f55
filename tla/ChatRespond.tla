----------------------------- MODULE ChatRespond -----------------------------
(***************************************************************************)
(* Chat turns: a message posted to a channel is persisted and starts        *)
(* `respondToMessage`, fire and forget, which drives one agent turn over    *)
(* the executor and tells the channel's subscribers what happens.           *)
(*                                                                          *)
(* Every await of the two functions is a point where other turns run; a     *)
(* store call and the code up to the next await are one step.  A store call *)
(* may throw (the disk is full), and the process may die.                   *)
(***************************************************************************)
EXTENDS Integers, Sequences, FiniteSets, FiniteSetsExt

CONSTANTS
  Turns,      \* the messages users post, each with the turn it triggers
  Channels,   \* the channels
  Placings,   \* which messages may go to which channels: functions from Turns
  MaxEvents,  \* bound: trace events of each turn
  MaxFaults,  \* bound: store calls that throw
  MaxCrashes  \* bound: how often the process dies

ASSUME ChatAssumption ==
  /\ Placings \subseteq [Turns -> Channels]
  /\ MaxEvents \in [Turns -> Nat] /\ MaxFaults \in Nat /\ MaxCrashes \in Nat

VARIABLES
  channel,   \* the channel every message is posted to
  pc,        \* the await each turn's handler is parked on
  turn,      \* turnStore: the status of every turn
  messages,  \* sessionStore: the messages, in the order they were appended
  trace,     \* traceStore: the events persisted for every turn
  pushed,    \* how many events the executor has handed to onEvent
  broken,    \* the chain of event handlers has rejected
  result,    \* how the executor's run ended
  wire,      \* the envelopes sent to every channel's subscribers
  faults,    \* store calls that threw
  crashes    \* how often the process died

vars == <<channel, pc, turn, messages, trace, pushed, broken, result, wire,
          faults, crashes>>

-----------------------------------------------------------------------------
\* "swallowed": respondToMessage rejected and the server's catch dropped it.
\* "dropped": the message itself was not accepted.  "lost": died with the process.
Parked == {"create", "start", "history", "running", "draining", "reply", "complete",
           "fail"}
Stages == Parked \cup {"new", "done", "swallowed", "dropped", "lost"}
Statuses == {"none", "queued", "in_progress", "completed", "failed"}

Envelope(type, t, what) == [type |-> type, turn |-> t, what |-> what]

\* What an envelope tells: a status, whose message it is, or the seq of an event.
Envelopes ==
  [type : {"turn"}, turn : Turns, what : Statuses \ {"none"}]
    \cup [type : {"message"}, turn : Turns, what : {"user", "agent"}]
    \cup [type : {"event"}, turn : Turns, what : Nat]

\* Mutant: the sequence numbers of all channels run together.
NextSeqOfAll(c) == Len(messages)

\* appendMessage: one past the largest seq of the channel, 0 in an empty one.
NextSeq(c) ==
  LET seqs == {messages[i].seq : i \in {j \in DOMAIN messages : messages[j].channel = c}}
  IN  IF seqs = {} THEN 0 ELSE Max(seqs) + 1

\* traceStore.append: one past the largest seq of the turn, whose seqs are dense.
NextEvent(t) == Len(trace[t])

Message(t, sender) ==
  [channel |-> channel[t], seq |-> NextSeq(channel[t]), sender |-> sender, turn |-> t]

\* Mutants: an isError result answered like a success; the try block around the run
\* left out; the drain left out.
VerdictIgnoringError(t) == IF broken[t] \/ result[t] = "rejected" THEN "fail" ELSE "reply"

VerdictUncaught(t) ==
  IF result[t] = "rejected" THEN "swallowed"
  ELSE IF broken[t] \/ result[t] = "error" THEN "fail" ELSE "reply"

Undrained(t) == TRUE

\* The handlers of all the pushed events have run, or one has rejected.
Drained(t) == Len(trace[t]) = pushed[t] \/ broken[t]

\* Where a drained turn goes: a rejected run or chain and an isError result fail it.
Verdict(t) ==
  IF broken[t] \/ result[t] \in {"rejected", "error"} THEN "fail" ELSE "reply"

-----------------------------------------------------------------------------
Init ==
  /\ channel \in Placings
  /\ pc = [t \in Turns |-> "new"]
  /\ turn = [t \in Turns |-> "none"]
  /\ messages = <<>>
  /\ trace = [t \in Turns |-> <<>>]
  /\ pushed = [t \in Turns |-> 0]
  /\ broken = [t \in Turns |-> FALSE]
  /\ result = [t \in Turns |-> "none"]
  /\ wire = [c \in Channels |-> <<>>]
  /\ faults = 0
  /\ crashes = 0

Goto(t, stage) == pc' = [pc EXCEPT ![t] = stage]

Tell(t, envelopes) == wire' = [wire EXCEPT ![channel[t]] = @ \o envelopes]

SetTurn(t, status) ==
  /\ turn' = [turn EXCEPT ![t] = status]
  /\ Tell(t, <<Envelope("turn", t, status)>>)

\* POST /channels/:id/messages up to the 200: the user's message is in the store and
\* mirrored to the subscribers.  (Naming the conversation after its first message is
\* left out: titles are not modelled.)
PostMessage(t) ==
  /\ pc[t] = "new"
  /\ messages' = Append(messages, Message(t, "user"))
  /\ Tell(t, <<Envelope("message", t, "user")>>)
  /\ Goto(t, "create")
  /\ UNCHANGED <<channel, turn, trace, pushed, broken, result, faults, crashes>>

CreateTurn(t) ==
  /\ pc[t] = "create"
  /\ SetTurn(t, "queued")
  /\ Goto(t, "start")
  /\ UNCHANGED <<channel, messages, trace, pushed, broken, result, faults, crashes>>

StartTurn(t) ==
  /\ pc[t] = "start"
  /\ SetTurn(t, "in_progress")
  /\ Goto(t, "history")
  /\ UNCHANGED <<channel, messages, trace, pushed, broken, result, faults, crashes>>

\* The channel's history becomes the prompt and the executor starts.
ReadHistory(t) ==
  /\ pc[t] = "history"
  /\ Goto(t, "running")
  /\ UNCHANGED <<channel, turn, messages, trace, pushed, broken, result, wire, faults,
                 crashes>>

\* The executor calls onEvent: one more handler on the chain.
PushEvent(t) ==
  /\ pc[t] = "running"
  /\ pushed[t] < MaxEvents[t]
  /\ pushed' = [pushed EXCEPT ![t] = @ + 1]
  /\ UNCHANGED <<channel, pc, turn, messages, trace, broken, result, wire, faults, crashes>>

\* handleEvent of the oldest unhandled event: persisted with the next seq, then told.
\* The chain runs until it is drained, even when the turn has moved on.
HandleEvent(t) ==
  /\ pc[t] \in Stages \ {"lost"}
  /\ ~broken[t]
  /\ Len(trace[t]) < pushed[t]
  /\ trace' = [trace EXCEPT ![t] = Append(@, NextEvent(t))]
  /\ Tell(t, <<Envelope("event", t, NextEvent(t))>>)
  /\ UNCHANGED <<channel, pc, turn, messages, pushed, broken, result, faults, crashes>>

\* streamExecutor.run resolves (isError or not) or rejects.
ExecutorEnds(t, how) ==
  /\ pc[t] = "running"
  /\ result' = [result EXCEPT ![t] = how]
  /\ Goto(t, "draining")
  /\ UNCHANGED <<channel, turn, messages, trace, pushed, broken, wire, faults, crashes>>

\* `await chain`, before either outcome.
Drain(t) ==
  /\ pc[t] = "draining"
  /\ Drained(t)
  /\ Goto(t, Verdict(t))
  /\ UNCHANGED <<channel, turn, messages, trace, pushed, broken, result, wire, faults,
                 crashes>>

\* The agent's message is persisted, then told together with the final chunk.
Reply(t) ==
  /\ pc[t] = "reply"
  /\ messages' = Append(messages, Message(t, "agent"))
  /\ Tell(t, <<Envelope("message", t, "agent")>>)
  /\ Goto(t, "complete")
  /\ UNCHANGED <<channel, turn, trace, pushed, broken, result, faults, crashes>>

CompleteTurn(t) ==
  /\ pc[t] = "complete"
  /\ SetTurn(t, "completed")
  /\ Goto(t, "done")
  /\ UNCHANGED <<channel, messages, trace, pushed, broken, result, faults, crashes>>

FailTurn(t) ==
  /\ pc[t] = "fail"
  /\ SetTurn(t, "failed")
  /\ Goto(t, "done")
  /\ UNCHANGED <<channel, messages, trace, pushed, broken, result, faults, crashes>>

\* The process dies.  The stores keep what they had; no handler is ever resumed.
Die ==
  /\ pc' = [t \in Turns |-> IF pc[t] \in Parked THEN "lost" ELSE pc[t]]
  /\ UNCHANGED <<channel, turn, messages, trace, pushed, broken, result, wire>>

Crash ==
  /\ crashes < MaxCrashes
  /\ crashes' = crashes + 1
  /\ Die
  /\ UNCHANGED faults

\* A store call of respondToMessage outside its try block throws: the promise
\* rejects, and the server's `.catch(() => {})` drops the error.
StoreThrows(t) ==
  /\ faults < MaxFaults
  /\ pc[t] \in {"create", "start", "history", "reply", "complete", "fail"}
  /\ faults' = faults + 1
  /\ Goto(t, "swallowed")
  /\ UNCHANGED <<channel, turn, messages, trace, pushed, broken, result, wire, crashes>>

\* appendMessage throws for the user's message, or traceStore.append while nobody
\* awaits the chain: the rejection is unhandled, and Node ends the process.
UnhandledThrow(t) ==
  /\ faults < MaxFaults
  /\ \/ pc[t] = "new"
     \/ pc[t] = "running" /\ Len(trace[t]) < pushed[t]
  /\ faults' = faults + 1
  /\ pc' = [u \in Turns |-> IF pc[u] \in Parked THEN "lost"
                            ELSE IF u = t THEN "dropped" ELSE pc[u]]
  /\ UNCHANGED <<channel, turn, messages, trace, pushed, broken, result, wire, crashes>>

\* traceStore.append throws while the chain is awaited: the remaining handlers are
\* skipped and the await throws inside the try block.
ChainThrows(t) ==
  /\ faults < MaxFaults
  /\ pc[t] = "draining"
  /\ ~Drained(t)
  /\ faults' = faults + 1
  /\ broken' = [broken EXCEPT ![t] = TRUE]
  /\ UNCHANGED <<channel, pc, turn, messages, trace, pushed, result, wire, crashes>>

Outcomes == {"ok", "error", "rejected"}

Step(t) ==
  \/ PostMessage(t)
  \/ CreateTurn(t)
  \/ StartTurn(t)
  \/ ReadHistory(t)
  \/ HandleEvent(t)
  \/ \E how \in Outcomes : ExecutorEnds(t, how)
  \/ Drain(t)
  \/ Reply(t)
  \/ CompleteTurn(t)
  \/ FailTurn(t)

Next ==
  \/ \E t \in Turns : \/ Step(t)
                      \/ PushEvent(t)
                      \/ StoreThrows(t)
                      \/ UnhandledThrow(t)
                      \/ ChainThrows(t)
  \/ Crash

Spec == Init /\ [][Next]_vars

\* Awaits of a live process resolve and an executor's run ends.
FairSpec == Spec /\ \A t \in Turns : WF_vars(Step(t))

-----------------------------------------------------------------------------
\* The types of the stores and the handlers; an event is handled after it was pushed.
TypeOK ==
  /\ channel \in Placings
  /\ pc \in [Turns -> Stages]
  /\ turn \in [Turns -> Statuses]
  /\ messages \in Seq([channel : Channels, seq : Nat, sender : {"user", "agent"},
                       turn : Turns])
  /\ trace \in [Turns -> Seq(Nat)] /\ \A t \in Turns : Len(trace[t]) <= pushed[t]
  /\ pushed \in [Turns -> Nat] /\ \A t \in Turns : pushed[t] <= MaxEvents[t]
  /\ broken \in [Turns -> BOOLEAN]
  /\ result \in [Turns -> Outcomes \cup {"none"}]
  /\ wire \in [Channels -> Seq(Envelopes)]
  /\ faults \in 0 .. MaxFaults /\ crashes \in 0 .. MaxCrashes

\* Whether a message is the n-th of its channel can be told from its seq: the seqs of
\* a channel are 0, 1, 2, ... in append order, whatever other channels do.  The page
\* query before_seq and the naming of a conversation by its seq 0 rely on it.
SeqsAreDense ==
  \A i \in DOMAIN messages :
    messages[i].seq =
      Cardinality({j \in 1 .. i - 1 : messages[j].channel = messages[i].channel})

\* A completed turn has exactly one agent message, and its executor reported success;
\* a failed turn has none, so a failure never leaves a reply beside its error; and
\* all the events a completed turn's executor pushed are in the trace store.
RepliesMatchTurns ==
  \A t \in Turns :
    LET replies == Cardinality({i \in DOMAIN messages :
                      messages[i].turn = t /\ messages[i].sender = "agent"})
    IN  /\ turn[t] = "completed" =>
             replies = 1 /\ result[t] = "ok" /\ Len(trace[t]) = pushed[t]
        /\ turn[t] = "failed" => replies = 0
        /\ replies <= 1

\* Subscribers see a turn in order: nothing streams before it started, and no trace
\* event is told after the agent's message or the turn's final update.
StreamIsOrdered ==
  \A c \in Channels : \A i, j \in DOMAIN wire[c] :
    LET a == wire[c][i]
        b == wire[c][j]
    IN  i < j /\ a.turn = b.turn =>
          /\ b.type = "event" =>
               \/ a.type = "event" /\ a.what < b.what
               \/ a.type = "message" /\ a.what = "user"
               \/ a.type = "turn" /\ a.what \in {"queued", "in_progress"}
          /\ a.type = "event" => b.type # "message" \/ b.what = "agent"

\* Every posted message gets a turn that ends completed or failed, unless a store has
\* thrown or the process has died.
TurnsSettle ==
  \A t \in Turns :
    pc[t] = "create" ~> turn[t] \in {"completed", "failed"} \/ faults + crashes > 0
=============================================================================

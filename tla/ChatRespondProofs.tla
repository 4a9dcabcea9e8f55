-------------------------- MODULE ChatRespondProofs ---------------------------
(***************************************************************************)
(* Theorems about the chat turns, for any turns, channels and placings,     *)
(* with any numbers of events, of stores that throw and of crashes.         *)
(***************************************************************************)
EXTENDS ChatRespond, SequenceTheorems, FiniteSetTheorems, TLAPS

-----------------------------------------------------------------------------
(* Messages of a channel and what numbers them. *)

In(c) == {j \in DOMAIN messages : messages[j].channel = c}

\* The seqs of a channel are those below the number of its messages, the last of
\* which has the largest.
SeqsAreCounted ==
  \A c \in Channels :
    /\ \A j \in In(c) : messages[j].seq < Cardinality(In(c))
    /\ In(c) # {} => \E j \in In(c) : messages[j].seq = Cardinality(In(c)) - 1

\* Which messages are an agent's reply in turn t.
Replies(t) ==
  {i \in DOMAIN messages : messages[i].turn = t /\ messages[i].sender = "agent"}

\* Where a turn has not replied, and where it has.
Unreplied == {"new", "create", "start", "history", "running", "draining", "reply", "fail",
              "dropped"}

\* A turn replies once, after its executor reported success and its events were all
\* persisted, and what the turn store says of it at the end agrees.
Replied(t) ==
  /\ pc[t] \in Unreplied => Replies(t) = {}
  /\ \A i, j \in Replies(t) : i = j
  /\ pc[t] = "complete" => Replies(t) # {}
  /\ pc[t] = "draining" => result[t] \in Outcomes
  /\ pc[t] \in {"reply", "complete"} => result[t] = "ok" /\ Len(trace[t]) = pushed[t]
  /\ turn[t] = "completed" => /\ pc[t] = "done" /\ Replies(t) # {}
                              /\ result[t] = "ok" /\ Len(trace[t]) = pushed[t]
  /\ turn[t] = "failed" => pc[t] = "done" /\ Replies(t) = {}

RepliesInv == \A t \in Turns : Replied(t)

\* The end of a turn as its subscribers are told it.
Final(e) ==
  \/ e.type = "message" /\ e.what = "agent"
  \/ e.type = "turn" /\ e.what \in {"completed", "failed"}

\* Where a turn may stand when its end has been told.
Ended == {"complete", "done", "swallowed", "lost"}

\* What has been told of a turn is on the channel of its message and behind where the
\* turn stands: events are in its trace, and nothing is left to tell after its end.
Proper(e, c) ==
  /\ channel[e.turn] = c
  /\ e.type = "event" => e.what < Len(trace[e.turn])
  /\ Final(e) => Drained(e.turn) /\ pc[e.turn] \in Ended

\* A turn has events once its executor runs, and none is left when it gives a verdict.
EventsInv ==
  \A t \in Turns :
    /\ pc[t] \in {"new", "create", "start", "history"} => pushed[t] = 0
    /\ pc[t] \in {"reply", "complete", "fail"} => Drained(t)

ToldInv == \A c \in Channels : \A i \in DOMAIN wire[c] : Proper(wire[c][i], c)

\* Whether envelope b may come after envelope a of its turn (StreamIsOrdered).
MayFollow(b, a) ==
  /\ b.type = "event" =>
       \/ a.type = "event" /\ a.what < b.what
       \/ a.type = "message" /\ a.what = "user"
       \/ a.type = "turn" /\ a.what \in {"queued", "in_progress"}
  /\ a.type = "event" => b.type # "message" \/ b.what = "agent"

-----------------------------------------------------------------------------
(* What the helpers do. *)

Msg == [channel : Channels, seq : Nat, sender : {"user", "agent"}, turn : Turns]

LEMMA BelowTheNext == \A x \in Int, n \in Nat : x < n => x < n + 1
OBVIOUS

\* What is in the store is a message.
LEMMA MessagesType ==
  ASSUME TypeOK
  PROVE  /\ messages \in Seq(Msg)
         /\ Len(messages) \in Nat /\ DOMAIN messages = 1 .. Len(messages)
         /\ \A i \in DOMAIN messages : messages[i] \in Msg /\ messages[i].seq \in Nat
<1>1. messages \in Seq(Msg)
  BY DEF TypeOK, Msg
<1>2. Len(messages) \in Nat /\ DOMAIN messages = 1 .. Len(messages)
  BY <1>1, LenProperties
<1>3. \A i \in DOMAIN messages : messages[i] \in Msg
  BY <1>1, <1>2, ElementOfSeq
<1> QED
  BY <1>1, <1>2, <1>3 DEF Msg

\* An appended message is the last, and the others stay where they are.
LEMMA MessageAppended ==
  ASSUME TypeOK, NEW m \in Msg, messages' = Append(messages, m)
  PROVE  /\ messages' \in Seq(Msg)
         /\ Len(messages) \in Nat /\ DOMAIN messages = 1 .. Len(messages)
         /\ DOMAIN messages' = DOMAIN messages \cup {Len(messages) + 1}
         /\ Len(messages) + 1 \notin DOMAIN messages
         /\ messages'[Len(messages) + 1] = m
         /\ \A i \in DOMAIN messages : messages'[i] = messages[i]
<1>1. messages \in Seq(Msg)
  BY DEF TypeOK, Msg
<1>2. /\ messages' \in Seq(Msg) /\ Len(messages') = Len(messages) + 1
      /\ \A i \in 1 .. Len(messages) : messages'[i] = messages[i]
      /\ messages'[Len(messages) + 1] = m
  BY <1>1, AppendProperties
<1>3. /\ Len(messages) \in Nat /\ DOMAIN messages = 1 .. Len(messages)
      /\ DOMAIN messages' = 1 .. Len(messages')
  BY <1>1, <1>2, LenProperties
<1>4. DOMAIN messages' = 1 .. Len(messages) + 1
  BY <1>2, <1>3
<1> QED
  BY <1>2, <1>3, <1>4

\* The messages of a channel can be counted.
LEMMA InFinite ==
  ASSUME TypeOK, NEW c
  PROVE  IsFiniteSet(In(c)) /\ Cardinality(In(c)) \in Nat
<1>1. Len(messages) \in Nat /\ DOMAIN messages = 1 .. Len(messages)
  BY LenProperties DEF TypeOK
<1>2. IsFiniteSet(1 .. Len(messages)) /\ In(c) \in SUBSET (1 .. Len(messages))
  BY <1>1, FS_Interval DEF In
<1>3. IsFiniteSet(In(c))
  BY <1>2, FS_Subset
<1> QED
  BY <1>3, FS_CardinalityType

\* appendMessage gives a message the number of messages before it in its channel.
LEMMA NextSeqCounts ==
  ASSUME TypeOK, SeqsAreCounted, NEW c \in Channels
  PROVE  NextSeq(c) = Cardinality(In(c)) /\ NextSeq(c) \in Nat
<1> DEFINE seqs == {messages[i].seq : i \in In(c)}
           n == Cardinality(In(c))
<1>1. NextSeq(c) = IF seqs = {} THEN 0 ELSE Max(seqs) + 1
  BY DEF NextSeq, In
<1>2. n \in Nat /\ IsFiniteSet(In(c))
  BY InFinite
<1>3. CASE In(c) = {}
  <2>1. n = 0 /\ seqs = {}
    BY <1>3, FS_EmptySet
  <2> QED
    BY <1>1, <2>1
<1>4. CASE In(c) # {}
  <2>1. PICK j \in In(c) : messages[j].seq = n - 1
    BY <1>4 DEF SeqsAreCounted
  <2>2. \A x \in seqs : x \in Nat /\ x < n
    <3>1. \A i \in In(c) : messages[i].seq < n
      BY DEF SeqsAreCounted
    <3>2. \A i \in In(c) : messages[i].seq \in Nat
      BY MessagesType DEF In
    <3> QED
      BY <3>1, <3>2
  <2>3. n - 1 \in seqs /\ seqs # {}
    BY <2>1
  <2> HIDE DEF seqs, n
  <2>4. \A y \in seqs : n - 1 >= y
    BY <1>2, <2>2
  <2>5. Max(seqs) \in seqs /\ \A y \in seqs : Max(seqs) >= y
    BY <2>3, <2>4 DEF Max
  <2>6. Max(seqs) = n - 1
    BY <1>2, <2>2, <2>3, <2>4, <2>5
  <2> QED
    BY <1>1, <1>2, <2>3, <2>6 DEF n
<1> QED
  BY <1>3, <1>4

\* A message of a turn is one of its channel.
LEMMA MessageType ==
  ASSUME TypeOK, SeqsAreCounted, NEW t \in Turns, NEW sender \in {"user", "agent"}
  PROVE  /\ channel[t] \in Channels /\ Message(t, sender) \in Msg
         /\ Message(t, sender).channel = channel[t]
         /\ Message(t, sender).seq = Cardinality(In(channel[t]))
         /\ Message(t, sender).turn = t /\ Message(t, sender).sender = sender
<1>1. channel[t] \in Channels
  BY ChatAssumption DEF TypeOK
<1> QED
  BY <1>1, NextSeqCounts DEF Message, Msg

\* What is told goes last to the subscribers of the turn's channel, and to no other.
LEMMA Told ==
  ASSUME TypeOK, NEW t \in Turns, NEW e \in Envelopes, Tell(t, <<e>>)
  PROVE  /\ wire' \in [Channels -> Seq(Envelopes)] /\ channel[t] \in Channels
         /\ \A c \in Channels :
              /\ Len(wire[c]) \in Nat /\ DOMAIN wire[c] = 1 .. Len(wire[c])
              /\ \A j \in DOMAIN wire'[c] :
                   \/ j \in DOMAIN wire[c] /\ wire'[c][j] = wire[c][j]
                   \/ c = channel[t] /\ j = Len(wire[c]) + 1 /\ wire'[c][j] = e
<1>1. channel[t] \in Channels /\ wire \in [Channels -> Seq(Envelopes)]
  BY ChatAssumption DEF TypeOK
<1> DEFINE one == <<e>>
<1>2. one \in Seq(Envelopes) /\ Len(one) = 1 /\ one[1] = e
  OBVIOUS
<1>3. wire' = [wire EXCEPT ![channel[t]] = @ \o one]
  BY DEF Tell
<1> HIDE DEF one
<1>4. \A c \in Channels : /\ wire[c] \in Seq(Envelopes) /\ Len(wire[c]) \in Nat
                          /\ DOMAIN wire[c] = 1 .. Len(wire[c])
  BY <1>1, LenProperties
<1> DEFINE w == wire[channel[t]]
<1>5. /\ w \o one \in Seq(Envelopes) /\ Len(w \o one) = Len(w) + 1
      /\ \A i \in 1 .. Len(w) + 1 : (w \o one)[i] = IF i <= Len(w) THEN w[i] ELSE one[i - Len(w)]
  <2>1. w \in Seq(Envelopes) /\ Len(w) \in Nat
    BY <1>1, <1>4
  <2> HIDE DEF w
  <2>2. /\ w \o one \in Seq(Envelopes) /\ Len(w \o one) = Len(w) + Len(one)
        /\ \A i \in 1 .. Len(w) + Len(one) :
             (w \o one)[i] = IF i <= Len(w) THEN w[i] ELSE one[i - Len(w)]
    BY <1>2, <2>1, ConcatProperties
  <2> QED
    BY <1>2, <2>2
<1>6. \A c \in Channels : wire'[c] = IF c = channel[t] THEN w \o one ELSE wire[c]
  BY <1>1, <1>3
<1>7. wire' \in [Channels -> Seq(Envelopes)]
  BY <1>1, <1>3, <1>5
<1>8. DOMAIN (w \o one) = 1 .. Len(w) + 1
  BY <1>5, LenProperties
<1>9. ASSUME NEW j \in 1 .. Len(w) + 1
      PROVE  \/ j \in 1 .. Len(w) /\ (w \o one)[j] = w[j]
             \/ j = Len(w) + 1 /\ (w \o one)[j] = e
  <2>1. Len(w) \in Nat
    BY <1>1, <1>4
  <2> HIDE DEF w
  <2>2. CASE j <= Len(w)
    BY <1>5, <2>1, <2>2
  <2>3. CASE j = Len(w) + 1
    <3>1. j - Len(w) = 1 /\ ~(j <= Len(w))
      BY <2>1, <2>3
    <3>2. (w \o one)[j] = one[1]
      BY <1>5, <3>1
    <3> QED
      BY <1>2, <2>3, <3>2
  <2>4. j <= Len(w) \/ j = Len(w) + 1
    BY <2>1
  <2> QED
    BY <2>2, <2>3, <2>4
<1>10. ASSUME NEW c \in Channels, NEW j \in DOMAIN wire'[c]
       PROVE  \/ j \in DOMAIN wire[c] /\ wire'[c][j] = wire[c][j]
              \/ c = channel[t] /\ j = Len(wire[c]) + 1 /\ wire'[c][j] = e
  <2>1. CASE c = channel[t]
    BY <1>4, <1>6, <1>8, <1>9, <2>1
  <2>2. CASE c # channel[t]
    BY <1>6, <2>2
  <2> QED
    BY <2>1, <2>2
<1> QED
  BY <1>1, <1>4, <1>7, <1>10

\* The envelopes the turns send.
LEMMA EnvelopeType ==
  ASSUME NEW t \in Turns
  PROVE  /\ \A st \in Statuses \ {"none"} : Envelope("turn", t, st) \in Envelopes
         /\ \A w \in {"user", "agent"} : Envelope("message", t, w) \in Envelopes
         /\ \A n \in Nat : Envelope("event", t, n) \in Envelopes
BY DEF Envelope, Envelopes

\* An event that is handled is the next of its turn.
LEMMA EventAppended ==
  ASSUME TypeOK, NEW t \in Turns, HandleEvent(t)
  PROVE  /\ trace' \in [Turns -> Seq(Nat)]
         /\ Len(trace[t]) \in Nat /\ NextEvent(t) = Len(trace[t])
         /\ Len(trace'[t]) = Len(trace[t]) + 1
         /\ \A u \in Turns \ {t} : trace'[u] = trace[u]
<1>1. trace \in [Turns -> Seq(Nat)] /\ trace[t] \in Seq(Nat)
  BY DEF TypeOK
<1>2. NextEvent(t) = Len(trace[t]) /\ Len(trace[t]) \in Nat
  BY <1>1, LenProperties DEF NextEvent
<1>3. /\ Append(trace[t], NextEvent(t)) \in Seq(Nat)
      /\ Len(Append(trace[t], NextEvent(t))) = Len(trace[t]) + 1
  BY <1>1, <1>2, AppendProperties
<1>4. trace' = [trace EXCEPT ![t] = Append(trace[t], NextEvent(t))]
  BY DEF HandleEvent
<1> QED
  BY <1>1, <1>2, <1>3, <1>4

-----------------------------------------------------------------------------
(* Type correctness and the numbering of the messages. *)

\* A message that is posted or replied keeps its channel counted.
LEMMA CountedStep ==
  ASSUME TypeOK, SeqsAreCounted, NEW t \in Turns, NEW sender \in {"user", "agent"},
         messages' = Append(messages, Message(t, sender))
  PROVE  SeqsAreCounted'
<1> DEFINE m == Message(t, sender)
           k == Len(messages) + 1
<1>1. /\ m \in Msg /\ channel[t] \in Channels
      /\ m.channel = channel[t] /\ m.seq = Cardinality(In(channel[t]))
  BY MessageType
<1> HIDE DEF m
<1>2. /\ DOMAIN messages' = DOMAIN messages \cup {k} /\ k \notin DOMAIN messages
      /\ messages'[k] = m
      /\ \A i \in DOMAIN messages : messages'[i] = messages[i]
  BY <1>1, MessageAppended DEF m
<1> HIDE DEF k
<1>3. /\ In(channel[t])' = {j \in DOMAIN messages' : messages'[j].channel = channel'[t]}
      /\ \A c : In(c)' = {j \in DOMAIN messages' : messages'[j].channel = c}
  BY DEF In
<1> SUFFICES ASSUME NEW c \in Channels
             PROVE  LET S == {j \in DOMAIN messages' : messages'[j].channel = c}
                    IN  /\ \A j \in S : messages'[j].seq < Cardinality(S)
                        /\ S # {} => \E j \in S : messages'[j].seq = Cardinality(S) - 1
  BY <1>3 DEF SeqsAreCounted
<1> DEFINE S == {j \in DOMAIN messages' : messages'[j].channel = c}
<1>4. PICK n \in Nat : n = Cardinality(In(c)) /\ IsFiniteSet(In(c))
  BY InFinite
<1>5. \A j \in DOMAIN messages : messages[j].seq \in Int
  BY MessagesType
<1>6. CASE c = channel[t]
  <2>1. S = In(c) \cup {k} /\ k \notin In(c)
    BY <1>1, <1>2, <1>6 DEF In
  <2>2. Cardinality(S) = n + 1
    BY <1>4, <2>1, FS_AddElement
  <2>3. \A j \in In(c) : messages'[j].seq < n /\ messages'[j].seq \in Int
    BY <1>2, <1>4, <1>5 DEF SeqsAreCounted, In
  <2>4. messages'[k].seq = n
    BY <1>1, <1>2, <1>4, <1>6
  <2>5. ASSUME NEW j \in In(c) PROVE messages'[j].seq < n + 1
    <3>1. messages'[j].seq < n /\ messages'[j].seq \in Int
      BY <2>3
    <3> QED
      BY <1>4, <3>1, BelowTheNext
  <2>6. messages'[k].seq < n + 1 /\ messages'[k].seq = (n + 1) - 1
    BY <1>4, <2>4
  <2>7. \A j \in S : messages'[j].seq < n + 1
    BY <2>1, <2>5, <2>6
  <2>8. \E j \in S : messages'[j].seq = (n + 1) - 1
    BY <2>1, <2>6
  <2> QED
    BY <1>4, <2>2, <2>7, <2>8
<1>7. CASE c # channel[t]
  <2>1. S = In(c)
    BY <1>1, <1>2, <1>7 DEF In
  <2>2. \A j \in In(c) : messages'[j] = messages[j]
    BY <1>2 DEF In
  <2> QED
    BY <2>1, <2>2 DEF SeqsAreCounted
<1> QED
  BY <1>6, <1>7

\* The steps that append no message leave the messages alone.
LEMMA NumberingStep ==
  ASSUME TypeOK, SeqsAreCounted, [Next]_vars PROVE SeqsAreCounted'
<1>1. ASSUME NEW t \in Turns, PostMessage(t) \/ Reply(t) PROVE SeqsAreCounted'
  BY <1>1, CountedStep DEF PostMessage, Reply
<1>2. CASE UNCHANGED messages
  BY <1>2 DEF SeqsAreCounted, In
<1> QED
  BY <1>1, <1>2
  DEF Next, Step, CreateTurn, StartTurn, ReadHistory, HandleEvent, ExecutorEnds, Drain,
      CompleteTurn, FailTurn, PushEvent, StoreThrows, UnhandledThrow, ChainThrows, Crash,
      Die, vars

\* Every step keeps the stores and the handlers in their types.
LEMMA TypeStep == ASSUME TypeOK, SeqsAreCounted, [Next]_vars PROVE TypeOK'
<1>0. /\ pc \in [Turns -> Stages] /\ turn \in [Turns -> Statuses]
      /\ wire \in [Channels -> Seq(Envelopes)]
      /\ trace \in [Turns -> Seq(Nat)] /\ \A t \in Turns : Len(trace[t]) \in Nat
      /\ pushed \in [Turns -> Nat] /\ \A t \in Turns : pushed[t] \in Nat
  BY LenProperties DEF TypeOK
<1>1. ASSUME NEW t \in Turns, PostMessage(t) PROVE TypeOK'
  <2>1. messages' \in Seq(Msg)
    BY <1>1, MessageType, MessageAppended DEF PostMessage
  <2>2. wire' \in [Channels -> Seq(Envelopes)]
    BY <1>1, EnvelopeType, Told DEF PostMessage
  <2> QED
    BY <1>1, <2>1, <2>2 DEF PostMessage, Goto, TypeOK, Msg, Stages, Parked
<1>2. ASSUME NEW t \in Turns, Reply(t) PROVE TypeOK'
  <2>1. messages' \in Seq(Msg)
    BY <1>2, MessageType, MessageAppended DEF Reply
  <2>2. wire' \in [Channels -> Seq(Envelopes)]
    BY <1>2, EnvelopeType, Told DEF Reply
  <2> QED
    BY <1>2, <2>1, <2>2 DEF Reply, Goto, TypeOK, Msg, Stages, Parked
<1>3. ASSUME NEW t \in Turns, CreateTurn(t) \/ StartTurn(t) \/ CompleteTurn(t) \/ FailTurn(t)
      PROVE  TypeOK'
  <2>1. PICK st \in Statuses \ {"none"}, p \in Stages : SetTurn(t, st) /\ Goto(t, p)
    BY <1>3 DEF CreateTurn, StartTurn, CompleteTurn, FailTurn, Statuses, Stages, Parked
  <2>2. wire' \in [Channels -> Seq(Envelopes)]
    BY <2>1, EnvelopeType, Told DEF SetTurn
  <2>3. turn' \in [Turns -> Statuses] /\ pc' \in [Turns -> Stages]
    BY <1>0, <2>1 DEF SetTurn, Goto
  <2> QED
    BY <1>3, <2>2, <2>3 DEF CreateTurn, StartTurn, CompleteTurn, FailTurn, TypeOK
<1>4. ASSUME NEW t \in Turns, HandleEvent(t) PROVE TypeOK'
  <2>1. wire' \in [Channels -> Seq(Envelopes)]
    BY <1>4, EventAppended, EnvelopeType, Told DEF HandleEvent
  <2>2. /\ trace' \in [Turns -> Seq(Nat)]
        /\ \A u \in Turns : Len(trace'[u]) <= pushed'[u]
    <3>1. Len(trace[t]) < pushed[t] /\ pushed' = pushed
      BY <1>4 DEF HandleEvent
    <3>2. Len(trace'[t]) <= pushed[t]
      BY <1>0, <1>4, <3>1, EventAppended
    <3> QED
      BY <1>4, <3>1, <3>2, EventAppended DEF TypeOK
  <2> QED
    BY <1>4, <2>1, <2>2 DEF HandleEvent, TypeOK
<1>5. ASSUME NEW t \in Turns, PushEvent(t) PROVE TypeOK'
  <2>1. /\ pushed' = [pushed EXCEPT ![t] = @ + 1] /\ pushed[t] < MaxEvents[t]
        /\ UNCHANGED <<channel, pc, turn, messages, trace, broken, result, wire, faults,
                       crashes>>
    BY <1>5 DEF PushEvent
  <2>2. /\ pushed' \in [Turns -> Nat] /\ pushed'[t] = pushed[t] + 1
        /\ \A u \in Turns \ {t} : pushed'[u] = pushed[u]
    BY <1>0, <2>1
  <2>3. MaxEvents[t] \in Nat
    BY ChatAssumption
  <2>4. \A u \in Turns : pushed'[u] <= MaxEvents[u] /\ Len(trace[u]) <= pushed'[u]
    BY <1>0, <2>1, <2>2, <2>3 DEF TypeOK
  <2> QED
    BY <2>1, <2>2, <2>4 DEF TypeOK
<1>6. ASSUME NEW t \in Turns, NEW how \in Outcomes, ExecutorEnds(t, how) PROVE TypeOK'
  BY <1>6 DEF ExecutorEnds, Goto, TypeOK, Stages, Parked
<1>7. ASSUME NEW t \in Turns, ReadHistory(t) \/ Drain(t) PROVE TypeOK'
  BY <1>7 DEF ReadHistory, Drain, Verdict, Goto, TypeOK, Stages, Parked
<1>8. ASSUME NEW t \in Turns, StoreThrows(t) PROVE TypeOK'
  BY <1>8, ChatAssumption DEF StoreThrows, Goto, TypeOK, Stages, Parked
<1>9. ASSUME NEW t \in Turns, UnhandledThrow(t) PROVE TypeOK'
  <2>1. pc' \in [Turns -> Stages]
    BY <1>0, <1>9 DEF UnhandledThrow, Stages
  <2> QED
    BY <1>9, <2>1, ChatAssumption DEF UnhandledThrow, TypeOK
<1>10. ASSUME NEW t \in Turns, ChainThrows(t) PROVE TypeOK'
  BY <1>10, ChatAssumption DEF ChainThrows, TypeOK
<1>11. CASE Crash
  <2>1. pc' \in [Turns -> Stages]
    BY <1>0, <1>11 DEF Crash, Die, Stages
  <2> QED
    BY <1>11, <2>1, ChatAssumption DEF Crash, Die, TypeOK
<1>12. CASE UNCHANGED vars
  BY <1>12 DEF vars, TypeOK
<1> QED
  BY <1>1, <1>2, <1>3, <1>4, <1>5, <1>6, <1>7, <1>8, <1>9, <1>10, <1>11, <1>12
  DEF Next, Step

\* The types hold for any constants, and so does the count behind the seqs: they can
\* only be proved together (jsonSessionStore.ts: nextSeq).
THEOREM TypesAndCounts == Spec => [](TypeOK /\ SeqsAreCounted)
<1>1. Init => TypeOK /\ SeqsAreCounted
  <2> SUFFICES ASSUME Init PROVE TypeOK /\ SeqsAreCounted
    OBVIOUS
  <2>1. messages = <<>> /\ DOMAIN messages = {}
    BY DEF Init
  <2>2. TypeOK
    BY ChatAssumption, EmptySeq DEF Init, TypeOK, Stages, Parked, Statuses
  <2>3. SeqsAreCounted
    BY <2>1 DEF SeqsAreCounted, In
  <2> QED
    BY <2>2, <2>3
<1>2. TypeOK /\ SeqsAreCounted /\ [Next]_vars => TypeOK' /\ SeqsAreCounted'
  BY TypeStep, NumberingStep
<1> QED
  BY <1>1, <1>2, PTL DEF Spec

\* The seqs of a channel are 0, 1, 2, ... in the order in which its messages were
\* appended.
LEMMA DenseStep ==
  ASSUME TypeOK, SeqsAreCounted, SeqsAreDense, [Next]_vars PROVE SeqsAreDense'
<1>1. ASSUME NEW t \in Turns, NEW sender \in {"user", "agent"},
             messages' = Append(messages, Message(t, sender))
      PROVE  SeqsAreDense'
  <2> DEFINE m == Message(t, sender)
             k == Len(messages) + 1
  <2>1. m \in Msg /\ m.channel = channel[t] /\ m.seq = Cardinality(In(channel[t]))
    BY MessageType
  <2> HIDE DEF m
  <2>2. /\ Len(messages) \in Nat /\ DOMAIN messages = 1 .. Len(messages)
        /\ DOMAIN messages' = DOMAIN messages \cup {k}
        /\ messages'[k] = m /\ \A i \in DOMAIN messages : messages'[i] = messages[i]
    BY <1>1, <2>1, MessageAppended DEF m
  <2> DEFINE Before(ms, i) == {j \in 1 .. i - 1 : ms[j].channel = ms[i].channel}
  <2>3. ASSUME NEW i \in DOMAIN messages
        PROVE  messages'[i].seq = Cardinality(Before(messages', i))
    <3>1. \A j \in 1 .. i - 1 : j \in DOMAIN messages
      BY <2>2
    <3>2. Before(messages', i) = Before(messages, i)
      BY <2>2, <3>1
    <3> QED
      BY <2>2, <3>2 DEF SeqsAreDense
  <2>4. messages'[k].seq = Cardinality(Before(messages', k))
    <3>1. 1 .. k - 1 = DOMAIN messages
      BY <2>2
    <3>2. Before(messages', k) = In(channel[t])
      BY <2>1, <2>2, <3>1 DEF In
    <3> QED
      BY <2>1, <2>2, <3>2
  <2> QED
    BY <2>2, <2>3, <2>4 DEF SeqsAreDense
<1>2. ASSUME NEW t \in Turns, PostMessage(t) \/ Reply(t) PROVE SeqsAreDense'
  BY <1>1, <1>2 DEF PostMessage, Reply
<1>3. CASE UNCHANGED messages
  BY <1>3 DEF SeqsAreDense
<1> QED
  BY <1>2, <1>3
  DEF Next, Step, CreateTurn, StartTurn, ReadHistory, HandleEvent, ExecutorEnds, Drain,
      CompleteTurn, FailTurn, PushEvent, StoreThrows, UnhandledThrow, ChainThrows, Crash,
      Die, vars

\* Whatever other channels do, a message's seq says how many came before it in its own
\* (the before_seq page and the naming of a conversation rely on it).
THEOREM DenseHolds == Spec => []SeqsAreDense
<1>1. Init => SeqsAreDense
  BY DEF Init, SeqsAreDense
<1>2. TypeOK /\ SeqsAreCounted /\ SeqsAreDense /\ [Next]_vars => SeqsAreDense'
  BY DenseStep
<1> QED
  BY <1>1, <1>2, TypesAndCounts, PTL DEF Spec
-----------------------------------------------------------------------------
(* A turn and its reply. *)

\* Only a reply makes an agent message, and only in its own turn.
LEMMA RepliesAppended ==
  ASSUME TypeOK, SeqsAreCounted, NEW t \in Turns, NEW sender \in {"user", "agent"},
         messages' = Append(messages, Message(t, sender)), NEW u \in Turns
  PROVE  IF u = t /\ sender = "agent" THEN Replies(u)' = Replies(u) \cup {Len(messages) + 1}
         ELSE Replies(u)' = Replies(u)
<1> DEFINE m == Message(t, sender)
           k == Len(messages) + 1
<1>1. m \in Msg /\ m.turn = t /\ m.sender = sender
  BY MessageType
<1> HIDE DEF m
<1>2. /\ DOMAIN messages' = DOMAIN messages \cup {k} /\ k \notin DOMAIN messages
      /\ messages'[k] = m
      /\ \A i \in DOMAIN messages : messages'[i] = messages[i]
  BY <1>1, MessageAppended DEF m
<1> HIDE DEF k
<1>3. Replies(u)' =
       {i \in DOMAIN messages' : messages'[i].turn = u /\ messages'[i].sender = "agent"}
  BY DEF Replies
<1>4. CASE u = t /\ sender = "agent"
  BY <1>1, <1>2, <1>3, <1>4 DEF Replies, k
<1>5. CASE ~(u = t /\ sender = "agent")
  BY <1>1, <1>2, <1>3, <1>5 DEF Replies
<1> QED
  BY <1>4, <1>5 DEF k

\* Every step keeps every turn and its reply together.
LEMMA RepliesStep ==
  ASSUME TypeOK, SeqsAreCounted, RepliesInv, [Next]_vars PROVE RepliesInv'
<1>0. /\ pc \in [Turns -> Stages] /\ turn \in [Turns -> Statuses]
      /\ result \in [Turns -> Outcomes \cup {"none"}] /\ trace \in [Turns -> Seq(Nat)]
      /\ pushed \in [Turns -> Nat]
  BY DEF TypeOK
<1> SUFFICES ASSUME NEW u \in Turns PROVE Replied(u)'
  BY DEF RepliesInv
<1>1. Replied(u)
  BY DEF RepliesInv
<1>2. ASSUME messages' = messages PROVE Replies(u)' = Replies(u)
  BY <1>2 DEF Replies
<1>3. ASSUME pc'[u] = pc[u], turn'[u] = turn[u], trace'[u] = trace[u], pushed'[u] = pushed[u],
             result'[u] = result[u], Replies(u)' = Replies(u)
      PROVE  Replied(u)'
  BY <1>1, <1>3 DEF Replied
<1>4. ASSUME NEW t \in Turns, PostMessage(t) PROVE Replied(u)'
  <2>1. Replies(u)' = Replies(u)
    BY <1>4, RepliesAppended DEF PostMessage
  <2> QED
    BY <1>0, <1>1, <1>3, <1>4, <2>1 DEF PostMessage, Goto, Replied, Unreplied
<1>5. ASSUME NEW t \in Turns, CreateTurn(t) \/ StartTurn(t) PROVE Replied(u)'
  BY <1>0, <1>1, <1>2, <1>5 DEF CreateTurn, StartTurn, SetTurn, Goto, Replied, Unreplied
<1>6. ASSUME NEW t \in Turns, ReadHistory(t) PROVE Replied(u)'
  BY <1>0, <1>1, <1>2, <1>6 DEF ReadHistory, Goto, Replied, Unreplied
<1>7. ASSUME NEW t \in Turns, PushEvent(t) PROVE Replied(u)'
  BY <1>0, <1>1, <1>2, <1>7 DEF PushEvent, Replied
<1>8. ASSUME NEW t \in Turns, HandleEvent(t) PROVE Replied(u)'
  <2>1. /\ UNCHANGED <<pc, turn, messages, pushed, result>>
        /\ Len(trace[t]) < pushed[t] /\ Len(trace[t]) \in Nat /\ pushed[t] \in Nat
        /\ \A v \in Turns \ {t} : trace'[v] = trace[v]
    BY <1>0, <1>8, EventAppended DEF HandleEvent
  <2>2. u = t => Len(trace[u]) # pushed[u]
    BY <2>1
  <2> QED
    BY <1>1, <1>2, <2>1, <2>2 DEF Replied
<1>9. ASSUME NEW t \in Turns, NEW how \in Outcomes, ExecutorEnds(t, how) PROVE Replied(u)'
  BY <1>0, <1>1, <1>2, <1>9 DEF ExecutorEnds, Goto, Replied, Unreplied
<1>10. ASSUME NEW t \in Turns, Drain(t) PROVE Replied(u)'
  BY <1>0, <1>1, <1>2, <1>10
  DEF Drain, Drained, Verdict, Goto, Replied, Unreplied, Outcomes
<1>11. ASSUME NEW t \in Turns, Reply(t) PROVE Replied(u)'
  <2>1. IF u = t THEN Replies(u)' = Replies(u) \cup {Len(messages) + 1}
        ELSE Replies(u)' = Replies(u)
    BY <1>11, RepliesAppended DEF Reply
  <2> QED
    BY <1>0, <1>1, <1>3, <1>11, <2>1 DEF Reply, Goto, Replied, Unreplied
<1>12. ASSUME NEW t \in Turns, CompleteTurn(t) PROVE Replied(u)'
  BY <1>0, <1>1, <1>2, <1>12 DEF CompleteTurn, SetTurn, Goto, Replied, Unreplied
<1>13. ASSUME NEW t \in Turns, FailTurn(t) PROVE Replied(u)'
  BY <1>0, <1>1, <1>2, <1>13 DEF FailTurn, SetTurn, Goto, Replied, Unreplied
<1>14. ASSUME NEW t \in Turns, StoreThrows(t) PROVE Replied(u)'
  BY <1>0, <1>1, <1>2, <1>14 DEF StoreThrows, Goto, Replied, Unreplied
<1>15. ASSUME NEW t \in Turns, UnhandledThrow(t) PROVE Replied(u)'
  BY <1>0, <1>1, <1>2, <1>15 DEF UnhandledThrow, Replied, Unreplied, Parked, Stages
<1>16. ASSUME NEW t \in Turns, ChainThrows(t) PROVE Replied(u)'
  BY <1>1, <1>2, <1>16 DEF ChainThrows, Replied
<1>17. CASE Crash
  BY <1>0, <1>1, <1>2, <1>17 DEF Crash, Die, Replied, Unreplied, Parked, Stages
<1>18. CASE UNCHANGED vars
  BY <1>2, <1>3, <1>18 DEF vars
<1> QED
  BY <1>4, <1>5, <1>6, <1>7, <1>8, <1>9, <1>10, <1>11, <1>12, <1>13, <1>14, <1>15, <1>16,
     <1>17, <1>18 DEF Next, Step

\* A completed turn has exactly one agent message, of a run that succeeded and whose
\* events are all persisted, and a failed turn has none (respondToMessage).
THEOREM RepliesHold == Spec => []RepliesMatchTurns
<1>1. Init => RepliesInv
  BY DEF Init, RepliesInv, Replied, Replies
<1>2. TypeOK /\ SeqsAreCounted /\ RepliesInv /\ [Next]_vars => RepliesInv'
  BY RepliesStep
<1>3. RepliesInv => RepliesMatchTurns
  <2> SUFFICES ASSUME RepliesInv, NEW t \in Turns
               PROVE  LET replies == Cardinality(Replies(t))
                      IN  /\ turn[t] = "completed" =>
                               replies = 1 /\ result[t] = "ok" /\ Len(trace[t]) = pushed[t]
                          /\ turn[t] = "failed" => replies = 0
                          /\ replies <= 1
    BY DEF RepliesMatchTurns, Replies
  <2>1. Replied(t)
    BY DEF RepliesInv
  <2>2. CASE Replies(t) = {}
    <3>1. Cardinality(Replies(t)) = 0
      BY <2>2, FS_EmptySet
    <3> QED
      BY <2>1, <2>2, <3>1 DEF Replied
  <2>3. CASE Replies(t) # {}
    <3>1. PICK i : Replies(t) = {i}
      BY <2>1, <2>3 DEF Replied
    <3>2. Cardinality(Replies(t)) = 1
      BY <3>1, FS_Singleton
    <3> QED
      BY <2>1, <2>3, <3>2 DEF Replied
  <2> QED
    BY <2>2, <2>3
<1> QED
  BY <1>1, <1>2, <1>3, TypesAndCounts, PTL DEF Spec
-----------------------------------------------------------------------------
(* A turn as its subscribers see it. *)

\* Channels never change, traces only grow, and a turn whose end was told stays ended
\* with nothing left to handle.
LEMMA EndedStays ==
  ASSUME TypeOK, [Next]_vars, NEW u \in Turns
  PROVE  /\ channel' = channel
         /\ Len(trace[u]) \in Nat /\ Len(trace'[u]) \in Nat /\ Len(trace[u]) <= Len(trace'[u])
         /\ Drained(u) /\ pc[u] \in Ended => Drained(u)' /\ pc'[u] \in Ended
<1>0. /\ pc \in [Turns -> Stages] /\ broken \in [Turns -> BOOLEAN]
      /\ trace \in [Turns -> Seq(Nat)] /\ Len(trace[u]) \in Nat
      /\ pushed \in [Turns -> Nat]
  BY LenProperties DEF TypeOK
<1>1. ASSUME NEW t \in Turns, HandleEvent(t)
      PROVE  /\ channel' = channel /\ pc' = pc /\ broken' = broken /\ pushed' = pushed
             /\ Len(trace'[u]) \in Nat /\ Len(trace[u]) <= Len(trace'[u])
             /\ Drained(u) => trace'[u] = trace[u]
  <2>1. /\ UNCHANGED <<channel, pc, pushed, broken>>
        /\ ~broken[t] /\ Len(trace[t]) < pushed[t] /\ Len(trace[t]) \in Nat
        /\ pushed[t] \in Nat /\ Len(trace'[t]) = Len(trace[t]) + 1
        /\ \A v \in Turns \ {t} : trace'[v] = trace[v]
    BY <1>0, <1>1, EventAppended DEF HandleEvent
  <2>2. ~Drained(t)
    BY <2>1 DEF Drained
  <2> QED
    BY <1>0, <2>1, <2>2
<1>2. ASSUME NEW t \in Turns,
             \/ (Step(t) /\ ~HandleEvent(t)) \/ PushEvent(t) \/ StoreThrows(t)
             \/ UnhandledThrow(t) \/ ChainThrows(t)
      PROVE  channel' = channel /\ trace' = trace
  BY <1>2
  DEF Step, PostMessage, CreateTurn, StartTurn, ReadHistory, ExecutorEnds, Drain, Reply,
      CompleteTurn, FailTurn, PushEvent, StoreThrows, UnhandledThrow, ChainThrows
<1>3. ASSUME NEW t \in Turns,
             \/ (Step(t) /\ ~HandleEvent(t)) \/ StoreThrows(t) \/ UnhandledThrow(t)
      PROVE  /\ pushed' = pushed /\ broken' = broken
             /\ pc[u] \in Ended => pc'[u] \in Ended
  BY <1>0, <1>3
  DEF Step, PostMessage, CreateTurn, StartTurn, ReadHistory, ExecutorEnds, Drain, Reply,
      CompleteTurn, FailTurn, StoreThrows, UnhandledThrow, Goto, Ended, Parked
<1>4. ASSUME NEW t \in Turns, PushEvent(t)
      PROVE  broken' = broken /\ pc' = pc /\ (pc[u] \in Ended => pushed'[u] = pushed[u])
  BY <1>0, <1>4 DEF PushEvent, Ended
<1>5. ASSUME NEW t \in Turns, ChainThrows(t)
      PROVE  /\ pushed' = pushed /\ pc' = pc /\ (broken[u] => broken'[u])
  BY <1>0, <1>5 DEF ChainThrows
<1>6. CASE Crash \/ UNCHANGED vars
  BY <1>0, <1>6 DEF Crash, Die, Drained, Ended, Parked, vars
<1>7. ASSUME NEW t \in Turns, HandleEvent(t)
      PROVE  Drained(u) /\ pc[u] \in Ended => Drained(u)' /\ pc'[u] \in Ended
  BY <1>1, <1>7 DEF Drained
<1>8. ASSUME NEW t \in Turns,
             \/ (Step(t) /\ ~HandleEvent(t)) \/ PushEvent(t) \/ StoreThrows(t)
             \/ UnhandledThrow(t) \/ ChainThrows(t)
      PROVE  Drained(u) /\ pc[u] \in Ended => Drained(u)' /\ pc'[u] \in Ended
  BY <1>2, <1>3, <1>4, <1>5, <1>8 DEF Drained
<1>9. CASE \E t \in Turns : \/ (Step(t) /\ ~HandleEvent(t)) \/ PushEvent(t) \/ StoreThrows(t)
                           \/ UnhandledThrow(t) \/ ChainThrows(t)
  BY <1>0, <1>2, <1>8, <1>9
<1>10. CASE \E t \in Turns : HandleEvent(t)
  BY <1>0, <1>1, <1>7, <1>10
<1> QED
  BY <1>6, <1>9, <1>10 DEF Next

\* Every step keeps a turn's events with where the turn stands.
LEMMA EventsStep == ASSUME TypeOK, EventsInv, [Next]_vars PROVE EventsInv'
<1>0. /\ pc \in [Turns -> Stages] /\ broken \in [Turns -> BOOLEAN]
      /\ pushed \in [Turns -> Nat]
  BY DEF TypeOK
<1> SUFFICES ASSUME NEW u \in Turns
             PROVE  /\ pc'[u] \in {"new", "create", "start", "history"} => pushed'[u] = 0
                    /\ pc'[u] \in {"reply", "complete", "fail"} => Drained(u)'
  BY DEF EventsInv
<1>1. /\ pc[u] \in {"new", "create", "start", "history"} => pushed[u] = 0
      /\ pc[u] \in {"reply", "complete", "fail"} => Drained(u)
  BY DEF EventsInv
<1>2. ASSUME NEW t \in Turns, HandleEvent(t)
      PROVE  pc' = pc /\ pushed' = pushed /\ (Drained(u) => Drained(u)')
  <2>1. /\ UNCHANGED <<pc, pushed, broken>>
        /\ ~broken[t] /\ Len(trace[t]) < pushed[t] /\ Len(trace[t]) \in Nat
        /\ pushed[t] \in Nat
        /\ \A v \in Turns \ {t} : trace'[v] = trace[v]
    BY <1>0, <1>2, EventAppended DEF HandleEvent
  <2>2. ~Drained(t)
    BY <2>1 DEF Drained
  <2> QED
    BY <2>1, <2>2 DEF Drained
<1>3. ASSUME NEW t \in Turns, PostMessage(t) \/ CreateTurn(t) \/ StartTurn(t) \/ ReadHistory(t)
      PROVE  /\ UNCHANGED <<pushed, trace, broken>>
             /\ pc'[u] \in {"new", "create", "start", "history"} =>
                  pc[u] \in {"new", "create", "start", "history"}
             /\ pc'[u] \in {"reply", "complete", "fail"} => pc'[u] = pc[u]
  BY <1>0, <1>3 DEF PostMessage, CreateTurn, StartTurn, ReadHistory, Goto
<1>4. ASSUME NEW t \in Turns,
             \/ \E how \in Outcomes : ExecutorEnds(t, how)
             \/ Reply(t) \/ CompleteTurn(t) \/ FailTurn(t) \/ StoreThrows(t)
             \/ UnhandledThrow(t)
      PROVE  /\ UNCHANGED <<pushed, trace, broken>>
             /\ pc'[u] \in {"new", "create", "start", "history"} => pc'[u] = pc[u]
             /\ pc'[u] \in {"reply", "complete", "fail"} =>
                  pc[u] \in {"reply", "complete", "fail"}
  BY <1>0, <1>4 DEF ExecutorEnds, Reply, CompleteTurn, FailTurn, StoreThrows, UnhandledThrow,
                    Goto, Parked
<1>5. ASSUME NEW t \in Turns, Drain(t)
      PROVE  /\ UNCHANGED <<pushed, trace, broken>>
             /\ pc'[u] \in {"new", "create", "start", "history"} => pc'[u] = pc[u]
             /\ pc'[u] \in {"reply", "complete", "fail"} => Drained(u) \/ pc'[u] = pc[u]
  BY <1>0, <1>5 DEF Drain, Verdict, Goto
<1>6. ASSUME NEW t \in Turns, PushEvent(t)
      PROVE  /\ pc' = pc /\ UNCHANGED <<trace, broken>>
             /\ pc[u] # "running" => pushed'[u] = pushed[u]
  BY <1>0, <1>6 DEF PushEvent
<1>7. ASSUME NEW t \in Turns, ChainThrows(t)
      PROVE  pc' = pc /\ UNCHANGED <<trace, pushed>> /\ (broken[u] => broken'[u])
  BY <1>0, <1>7 DEF ChainThrows
<1>8. CASE Crash \/ UNCHANGED vars
  BY <1>0, <1>1, <1>8 DEF Crash, Die, Drained, Parked, vars
<1>9. ASSUME NEW t \in Turns, Step(t) \/ PushEvent(t) \/ StoreThrows(t) \/ UnhandledThrow(t)
                               \/ ChainThrows(t)
      PROVE  /\ pc'[u] \in {"new", "create", "start", "history"} => pushed'[u] = 0
             /\ pc'[u] \in {"reply", "complete", "fail"} => Drained(u)'
  BY <1>1, <1>2, <1>3, <1>4, <1>5, <1>6, <1>7, <1>9 DEF Step, Drained
<1> QED
  BY <1>8, <1>9 DEF Next

\* What was proper to tell stays so.
LEMMA ProperStays ==
  ASSUME TypeOK, [Next]_vars, NEW a \in Envelopes, NEW c, Proper(a, c)
  PROVE  Proper(a, c)'
<1>1. a.turn \in Turns
  BY DEF Envelopes
<1>2. a.type = "event" => a.what \in Nat
  BY DEF Envelopes
<1>3. a.type = "event" => a.what < Len(trace'[a.turn])
  BY <1>1, <1>2, EndedStays DEF Proper
<1> QED
  BY <1>1, <1>3, EndedStays DEF Proper

\* An envelope that is proper for where its turn stands, and may follow all those of
\* its turn, can be told.
LEMMA ToldStep ==
  ASSUME TypeOK, ToldInv, StreamIsOrdered, [Next]_vars,
         NEW t \in Turns, NEW e \in Envelopes, e.turn = t, Tell(t, <<e>>),
         \A c : c = channel[t] => Proper(e, c)',
         \A a \in Envelopes : a.turn = t /\ Proper(a, channel[t]) => MayFollow(e, a)
  PROVE  ToldInv' /\ StreamIsOrdered'
<1>1. /\ wire \in [Channels -> Seq(Envelopes)] /\ channel[t] \in Channels
      /\ \A c \in Channels :
           /\ Len(wire[c]) \in Nat /\ DOMAIN wire[c] = 1 .. Len(wire[c])
           /\ \A j \in DOMAIN wire'[c] :
                \/ j \in DOMAIN wire[c] /\ wire'[c][j] = wire[c][j]
                \/ c = channel[t] /\ j = Len(wire[c]) + 1 /\ wire'[c][j] = e
  BY Told DEF TypeOK
<1>2. ASSUME NEW c \in Channels, NEW j \in DOMAIN wire[c]
      PROVE  wire[c][j] \in Envelopes /\ wire[c][j].turn \in Turns /\ Proper(wire[c][j], c)
  <2>1. wire[c][j] \in Envelopes
    BY <1>1, ElementOfSeq
  <2> QED
    BY <2>1 DEF ToldInv, Envelopes
<1>4. ToldInv'
  <2> SUFFICES ASSUME NEW c \in Channels, NEW j \in DOMAIN wire'[c]
               PROVE  Proper(wire[c][j], c)'
    BY DEF ToldInv
  <2>1. PICK a \in Envelopes : a = wire'[c][j] /\ Proper(a, c)'
    BY <1>1, <1>2, ProperStays
  <2> QED
    BY <2>1 DEF Proper
<1>5. StreamIsOrdered'
  <2> SUFFICES ASSUME NEW c \in Channels, NEW i \in DOMAIN wire'[c], NEW j \in DOMAIN wire'[c],
                      i < j, wire'[c][i].turn = wire'[c][j].turn
               PROVE  MayFollow(wire'[c][j], wire'[c][i])
    BY DEF StreamIsOrdered, MayFollow
  <2>1. i \in DOMAIN wire[c] /\ wire'[c][i] = wire[c][i]
    BY <1>1
  <2>2. CASE j \in DOMAIN wire[c] /\ wire'[c][j] = wire[c][j]
    BY <2>1, <2>2 DEF StreamIsOrdered, MayFollow
  <2>3. CASE c = channel[t] /\ wire'[c][j] = e
    BY <1>2, <2>1, <2>3
  <2> QED
    BY <1>1, <2>2, <2>3
<1> QED
  BY <1>4, <1>5

\* The steps that tell nothing leave what was told as it is.
LEMMA QuietStep ==
  ASSUME TypeOK, ToldInv, StreamIsOrdered, [Next]_vars, wire' = wire
  PROVE  ToldInv' /\ StreamIsOrdered'
<1>1. ASSUME NEW c \in Channels, NEW j \in DOMAIN wire[c]
      PROVE  wire[c][j] \in Envelopes /\ wire[c][j].turn \in Turns /\ Proper(wire[c][j], c)
  <2>1. wire[c] \in Seq(Envelopes) /\ DOMAIN wire[c] = 1 .. Len(wire[c])
    BY LenProperties DEF TypeOK
  <2>2. wire[c][j] \in Envelopes
    BY <2>1, ElementOfSeq
  <2> QED
    BY <2>2 DEF ToldInv, Envelopes
<1>3. ASSUME NEW c \in Channels, NEW j \in DOMAIN wire'[c]
      PROVE  Proper(wire[c][j], c)'
  <2>1. PICK a \in Envelopes : a = wire'[c][j] /\ Proper(a, c)'
    BY <1>1, ProperStays
  <2> QED
    BY <2>1 DEF Proper
<1>4. ToldInv'
  BY <1>3 DEF ToldInv
<1> QED
  BY <1>4 DEF StreamIsOrdered

\* Every step tells a turn in order.
LEMMA StreamStep ==
  ASSUME TypeOK, SeqsAreCounted, EventsInv, ToldInv, StreamIsOrdered, [Next]_vars
  PROVE  ToldInv' /\ StreamIsOrdered'
<1>0. /\ pc \in [Turns -> Stages] /\ pushed \in [Turns -> Nat]
      /\ trace \in [Turns -> Seq(Nat)] /\ \A t \in Turns : Len(trace[t]) \in Nat
      /\ \A t \in Turns : Len(trace[t]) <= pushed[t]
  BY LenProperties DEF TypeOK
<1>1. ASSUME NEW t \in Turns, PostMessage(t) PROVE ToldInv' /\ StreamIsOrdered'
  <2> DEFINE e == Envelope("message", t, "user")
  <2>1. e \in Envelopes /\ e.turn = t /\ e.type = "message" /\ e.what = "user"
    BY EnvelopeType DEF Envelope
  <2>2. Tell(t, <<e>>) /\ channel' = channel
    BY <1>1 DEF PostMessage
  <2> HIDE DEF e
  <2>3. \A c : c = channel[t] => Proper(e, c)'
    BY <2>1, <2>2 DEF Proper, Final
  <2>4. Len(trace[t]) = 0
    BY <1>0, <1>1 DEF PostMessage, EventsInv
  <2>5. \A a \in Envelopes : a.turn = t /\ Proper(a, channel[t]) => MayFollow(e, a)
    <3> SUFFICES ASSUME NEW a \in Envelopes, a.turn = t, Proper(a, channel[t])
                 PROVE  a.type # "event"
      BY <2>1 DEF MayFollow
    <3>1. a.type = "event" => a.what \in Nat
      BY DEF Envelopes
    <3> QED
      BY <2>4, <3>1 DEF Proper
  <2> QED
    BY <2>1, <2>2, <2>3, <2>5, ToldStep
<1>2. ASSUME NEW t \in Turns, HandleEvent(t) PROVE ToldInv' /\ StreamIsOrdered'
  <2>0. PICK n \in Nat : n = Len(trace[t])
    BY <1>0
  <2> DEFINE e == Envelope("event", t, n)
  <2>1. /\ NextEvent(t) = n /\ Len(trace'[t]) = n + 1 /\ n < n + 1
        /\ ~broken[t] /\ UNCHANGED <<channel, pc, turn>> /\ Len(trace[t]) # pushed[t]
    <3>1. NextEvent(t) = n /\ Len(trace'[t]) = n + 1
      BY <1>2, <2>0, EventAppended
    <3>2. n < n + 1
      BY <2>0
    <3>3. Len(trace[t]) # pushed[t]
      BY <1>0, <1>2 DEF HandleEvent
    <3> QED
      BY <1>2, <3>1, <3>2, <3>3 DEF HandleEvent
  <2>2. e \in Envelopes /\ e.turn = t /\ e.type = "event" /\ e.what = n
    BY <2>0, EnvelopeType DEF Envelope
  <2>3. Tell(t, <<e>>)
    BY <1>2, <2>1 DEF HandleEvent
  <2>4. ~Drained(t)
    BY <2>1 DEF Drained
  <2> HIDE DEF e
  <2>5. \A c : c = channel[t] => Proper(e, c)'
    BY <2>1, <2>2 DEF Proper, Final
  <2>6. \A a \in Envelopes : a.turn = t /\ Proper(a, channel[t]) => MayFollow(e, a)
    <3> SUFFICES ASSUME NEW a \in Envelopes, a.turn = t, Proper(a, channel[t])
                 PROVE  MayFollow(e, a)
      OBVIOUS
    <3>1. ~Final(a)
      BY <2>4 DEF Proper
    <3>2. a.type = "event" => a.what < n
      BY <2>0 DEF Proper
    <3>3. CASE a.type = "event"
      BY <2>2, <3>2, <3>3 DEF MayFollow
    <3>4. CASE a.type = "message"
      BY <2>2, <3>1, <3>4 DEF MayFollow, Final, Envelopes
    <3>5. CASE a.type = "turn"
      BY <2>2, <3>1, <3>5 DEF MayFollow, Final, Envelopes, Statuses
    <3> QED
      BY <3>3, <3>4, <3>5 DEF Envelopes
  <2> QED
    BY <2>2, <2>3, <2>5, <2>6, ToldStep
<1>3. ASSUME NEW t \in Turns, Reply(t) PROVE ToldInv' /\ StreamIsOrdered'
  <2> DEFINE e == Envelope("message", t, "agent")
  <2>1. e \in Envelopes /\ e.turn = t /\ e.type = "message" /\ e.what = "agent"
    BY EnvelopeType DEF Envelope
  <2>2. Tell(t, <<e>>) /\ UNCHANGED <<channel, trace, pushed, broken>> /\ pc'[t] = "complete"
    BY <1>0, <1>3 DEF Reply, Goto
  <2>3. Drained(t)
    BY <1>3 DEF Reply, EventsInv
  <2> HIDE DEF e
  <2>4. \A c : c = channel[t] => Proper(e, c)'
    BY <2>1, <2>2, <2>3 DEF Proper, Drained, Ended
  <2>5. \A a \in Envelopes : a.turn = t /\ Proper(a, channel[t]) => MayFollow(e, a)
    BY <2>1 DEF MayFollow
  <2> QED
    BY <2>1, <2>2, <2>4, <2>5, ToldStep
<1>4. ASSUME NEW t \in Turns, CreateTurn(t) \/ StartTurn(t) \/ CompleteTurn(t) \/ FailTurn(t)
      PROVE  ToldInv' /\ StreamIsOrdered'
  <2>1. PICK st \in Statuses \ {"none"} :
          /\ SetTurn(t, st) /\ UNCHANGED <<channel, trace, pushed, broken>>
          /\ st \in {"completed", "failed"} => Drained(t) /\ pc'[t] \in Ended
    BY <1>0, <1>4
    DEF CreateTurn, StartTurn, CompleteTurn, FailTurn, Statuses, Goto, EventsInv, Ended
  <2> DEFINE e == Envelope("turn", t, st)
  <2>2. e \in Envelopes /\ e.turn = t /\ e.type = "turn" /\ e.what = st
    BY <2>1, EnvelopeType DEF Envelope
  <2>3. Tell(t, <<e>>)
    BY <2>1 DEF SetTurn
  <2> HIDE DEF e
  <2>4. \A c : c = channel[t] => Proper(e, c)'
    BY <2>1, <2>2 DEF Proper, Final, Drained
  <2>5. \A a \in Envelopes : a.turn = t /\ Proper(a, channel[t]) => MayFollow(e, a)
    BY <2>2 DEF MayFollow
  <2> QED
    BY <2>2, <2>3, <2>4, <2>5, ToldStep
<1>5. CASE wire' = wire
  BY <1>5, QuietStep
<1> QED
  BY <1>1, <1>2, <1>3, <1>4, <1>5
  DEF Next, Step, ReadHistory, ExecutorEnds, Drain, PushEvent, StoreThrows, UnhandledThrow,
      ChainThrows, Crash, Die, vars

\* Subscribers see a turn in order: its events after it started, by their seqs, and
\* nothing of the trace after the agent's message or the turn's last update.
THEOREM StreamHolds == Spec => []StreamIsOrdered
<1>1. Init => EventsInv /\ ToldInv /\ StreamIsOrdered
  BY DEF Init, EventsInv, ToldInv, StreamIsOrdered
<1>2. /\ TypeOK /\ SeqsAreCounted /\ EventsInv /\ ToldInv /\ StreamIsOrdered /\ [Next]_vars
      => EventsInv' /\ ToldInv' /\ StreamIsOrdered'
  BY EventsStep, StreamStep
<1> QED
  BY <1>1, <1>2, TypesAndCounts, PTL DEF Spec
=============================================================================

---------------------------- MODULE ChannelFeed ----------------------------
(***************************************************************************)
(* How a client follows a channel: it opens the channel's WebSocket, which  *)
(* sends what happens from then on and nothing of before, and reads the     *)
(* past page by page.  Answers to its requests and frames of its socket     *)
(* arrive in any order.  One channel, with one turn whose trace grows.      *)
(*                                                                          *)
(* Clients are external: here each has one request under way at most, opens *)
(* its socket before it reads and starts anew when it loses it.             *)
(***************************************************************************)
EXTENDS Integers, Sequences, FiniteSets, SequencesExt

CONSTANTS
  Readers,  \* the clients
  Limits,   \* the limits they ask with, Unlimited included
  Unlimited,
  MaxLog,   \* bound: messages of the channel
  MaxTrace  \* bound: events of the turn

ASSUME FeedAssumption == Limits \subseteq Nat \cup {Unlimited} /\ Unlimited \notin Nat

VARIABLES
  log,     \* how many messages the channel has: their seqs are 0 .. log - 1
  trace,   \* how many events the turn has
  sink,    \* a client's subscription: "none", "plain", or "trace" if it opted in
  inbox,   \* frames sent to a client and not yet received
  answer,  \* the answer on its way to a client, or NoAnswer
  seen,    \* the seqs of the messages a client has
  tail,    \* the seqs of the events a client has read, as they came
  silent   \* the messages no socket was told of since a client opened its own

feedVars == <<log, trace, sink, inbox, answer, seen, tail, silent>>

-----------------------------------------------------------------------------
Frame(type, seq) == [type |-> type, seq |-> seq]

NoAnswer == [type |-> "none", rows |-> {}]

Seqs(n) == 0 .. n - 1

Least(S) == CHOOSE n \in S : \A m \in S : n <= m

\* The i-th is the one that i of them do not exceed.
InOrder(S) ==
  [i \in 1 .. Cardinality(S) |-> CHOOSE n \in S : Cardinality({m \in S : m <= n}) = i]

FeedInit ==
  /\ log = 0 /\ trace = 0
  /\ sink = [c \in Readers |-> "none"]
  /\ inbox = [c \in Readers |-> <<>>]
  /\ answer = [c \in Readers |-> NoAnswer]
  /\ seen = [c \in Readers |-> {}]
  /\ tail = [c \in Readers |-> <<>>]
  /\ silent = [c \in Readers |-> {}]

\* Mutant: whoever opted into the trace gets nothing else.
GetsOneKind(c, type) == sink[c] = IF type = "trace" THEN "trace" ELSE "plain"

Gets(c, type) == sink[c] = "trace" \/ (sink[c] = "plain" /\ type # "trace")

\* emitForChannel: an envelope goes to the channel's sinks, the trace to those that
\* subscribed to it.
EmitForChannel(frame) ==
  inbox' = [c \in Readers |-> IF Gets(c, frame.type) THEN Append(inbox[c], frame) ELSE inbox[c]]

\* POST /channels/:id/messages and the agent's reply: stored, then mirrored.
PostToChannel ==
  /\ log < MaxLog
  /\ log' = log + 1
  /\ EmitForChannel(Frame("message", log))
  /\ UNCHANGED <<trace, sink, answer, seen, tail, silent>>

\* POST /sessions/:id/messages and a loop run's narration: stored, and no socket is told.
PostToSession ==
  /\ log < MaxLog
  /\ log' = log + 1
  /\ silent' = [c \in Readers |-> IF sink[c] = "none" THEN silent[c] ELSE silent[c] \cup {log}]
  /\ UNCHANGED <<trace, sink, inbox, answer, seen, tail>>

\* An event of the turn: stored, then sent.
TraceAppends ==
  /\ trace < MaxTrace
  /\ trace' = trace + 1
  /\ EmitForChannel(Frame("trace", trace))
  /\ UNCHANGED <<log, sink, answer, seen, tail, silent>>

\* A socket on /channels/:id/events, with ?trace=1 or without.
OpenFeed(c, kind) ==
  /\ sink[c] = "none"
  /\ sink' = [sink EXCEPT ![c] = kind]
  /\ UNCHANGED <<log, trace, inbox, answer, seen, tail, silent>>

\* The sink is deleted; the client forgets what it has.
CloseFeed(c) ==
  /\ sink[c] # "none"
  /\ sink' = [sink EXCEPT ![c] = "none"]
  /\ inbox' = [inbox EXCEPT ![c] = <<>>]
  /\ answer' = [answer EXCEPT ![c] = NoAnswer]
  /\ seen' = [seen EXCEPT ![c] = {}]
  /\ tail' = [tail EXCEPT ![c] = <<>>]
  /\ silent' = [silent EXCEPT ![c] = {}]
  /\ UNCHANGED <<log, trace>>

\* The last `limit` messages of those before before_seq.
Page(before, limit) ==
  LET window == {n \in Seqs(log) : before = Unlimited \/ n < before}
  IN  {n \in window : limit = Unlimited \/ Cardinality({m \in window : m >= n}) <= limit}

Ask(c, type, rows) ==
  /\ sink[c] # "none" /\ answer[c] = NoAnswer
  /\ answer' = [answer EXCEPT ![c] = [type |-> type, rows |-> rows]]
  /\ UNCHANGED <<log, trace, sink, inbox, seen, tail, silent>>

\* GET /channels/:id/messages: the latest page, or the one before the oldest it has.
AskPage(c, limit) ==
  Ask(c, "message", Page(IF seen[c] = {} THEN Unlimited ELSE Least(seen[c]), limit))

\* traceStore.list: the events after after_seq.
TraceAfter(after) == {n \in Seqs(trace) : after = Unlimited \/ n > after}

\* GET /turns/:id/events, from the last event the client has read.
AskTrace(c) ==
  Ask(c, "trace", TraceAfter(IF tail[c] = <<>> THEN Unlimited ELSE Last(tail[c])))

ReceiveAnswer(c) ==
  /\ answer[c] # NoAnswer
  /\ IF answer[c].type = "message"
       THEN /\ seen' = [seen EXCEPT ![c] = @ \cup answer[c].rows]
            /\ UNCHANGED tail
       ELSE /\ tail' = [tail EXCEPT ![c] = @ \o InOrder(answer[c].rows)]
            /\ UNCHANGED seen
  /\ answer' = [answer EXCEPT ![c] = NoAnswer]
  /\ UNCHANGED <<log, trace, sink, inbox, silent>>

\* Only messages matter to what the properties say of a client; it shows live events.
ReceiveFrame(c) ==
  /\ inbox[c] # <<>>
  /\ inbox' = [inbox EXCEPT ![c] = Tail(@)]
  /\ LET frame == Head(inbox[c])
     IN  seen' = [seen EXCEPT ![c] = IF frame.type = "message" THEN @ \cup {frame.seq} ELSE @]
  /\ UNCHANGED <<log, trace, sink, answer, tail, silent>>

FeedNext ==
  \/ PostToChannel \/ PostToSession \/ TraceAppends
  \/ \E c \in Readers :
       \/ \E kind \in {"plain", "trace"} : OpenFeed(c, kind)
       \/ CloseFeed(c)
       \/ \E limit \in Limits : AskPage(c, limit)
       \/ AskTrace(c)
       \/ ReceiveAnswer(c)
       \/ ReceiveFrame(c)

FeedSpec == FeedInit /\ [][FeedNext]_feedVars

-----------------------------------------------------------------------------
\* What is on its way to a client.
Coming(c, type) ==
  {inbox[c][i].seq : i \in {j \in DOMAIN inbox[c] : inbox[c][j].type = type}}
    \cup (IF answer[c].type = type THEN answer[c].rows ELSE {})

\* A client that opened its socket before it read has, or has coming, every message from
\* the oldest it has to the newest there is, in whatever order pages and frames arrive,
\* except those posted through the session surface, of which no socket is told.  What it
\* has read of the turn's trace is its beginning, every event once and in order.
FeedHasNoGap ==
  \A c \in Readers :
    LET known == seen[c] \cup Coming(c, "message")
    IN  /\ known # {} => Least(known) .. log - 1 \subseteq known \cup silent[c]
        /\ \A i \in DOMAIN tail[c] : tail[c][i] = i - 1
=============================================================================

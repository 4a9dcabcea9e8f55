------------------------------ MODULE DaemonHub -------------------------------
(***************************************************************************)
(* The link between the engine and the users' local daemons: the hub that   *)
(* correlates dispatched turns with replies, the /daemon/ws handlers that   *)
(* register and unregister sockets, and the daemon process that runs turns  *)
(* and reconnects.  A socket delivers in order each way; when it ends, what *)
(* was still in flight may be lost, the daemon reconnects on a new socket,  *)
(* and the server learns of the end through a close event of its own.       *)
(***************************************************************************)
EXTENDS Integers, Sequences

CONSTANTS
  Users,     \* user ids
  Daemons,   \* daemon processes
  UserOf,    \* the user whose token each daemon holds
  Socks,     \* bound: the sockets daemons may open, one connection each
  Turns,     \* bound: the turns that may be dispatched
  MaxEvents, \* bound: trace events per turn
  None       \* no connection

ASSUME UserOfAssumption == UserOf \in [Daemons -> Users]
ASSUME EventsAssumption == MaxEvents \in Nat
ASSUME NoneAssumption == None \notin Socks

VARIABLES
  conns,      \* hub: the registered connection of each user, or None
  pending,    \* hub: the turns that wait for a reply
  owner,      \* the user each dispatched turn belongs to
  outcome,    \* how the dispatch promise of each turn stands
  delivered,  \* the trace events each turn's onEvent has been called with
  sock,       \* life of each socket
  daemonOf,   \* the daemon at the far end of each socket
  up, down,   \* what is in flight on each socket, to and from the engine
  ws,         \* the current socket of each daemon, or None
  running,    \* the turns each daemon is running
  traced,     \* how many trace events each turn's run has produced
  ended       \* history: how each turn's run ended, "no" before that

hub == <<conns, pending, owner, outcome, delivered>>
link == <<sock, daemonOf, up, down>>
daemon == <<ws, running, traced, ended>>
vars == <<conns, pending, owner, outcome, delivered, sock, daemonOf, up, down,
          ws, running, traced, ended>>

Statuses == {"completed", "failed"}
Outcomes == {"none", "waiting", "rejected"} \cup Statuses
Lives == {"unused", "opening", "open", "ending", "closed"}

TraceBatch(t, n) == [type |-> "trace:batch", turn |-> t, event |-> n]

\* Mutant: a failed turn ends with the kind of the event that told of it, which the hub
\* does not take for a failure.
TurnEndAsError(t, st) ==
  [type |-> "turn:end", turn |-> t, status |-> IF st = "failed" THEN "error" ELSE st]

TurnEnd(t, st) == [type |-> "turn:end", turn |-> t, status |-> st]

-----------------------------------------------------------------------------
Init ==
  /\ conns = [u \in Users |-> None]
  /\ pending = {}
  /\ owner \in [Turns -> Users]
  /\ outcome = [t \in Turns |-> "none"]
  /\ delivered = [t \in Turns |-> <<>>]
  /\ sock = [c \in Socks |-> "unused"]
  /\ daemonOf \in [Socks -> Daemons]
  /\ up = [c \in Socks |-> <<>>]
  /\ down = [c \in Socks |-> <<>>]
  /\ ws = [d \in Daemons |-> None]
  /\ running = [d \in Daemons |-> {}]
  /\ traced = [t \in Turns |-> 0]
  /\ ended = [t \in Turns |-> "no"]

-----------------------------------------------------------------------------
(* The hub. *)

\* daemonExecutor.run and hub.dispatch: hasDaemon, pending.set and conn.send run
\* without an await between them.  A socket that is no longer open drops what is
\* sent on it; a send that throws takes the turn out again.
DispatchRefused(t) ==
  /\ outcome[t] = "none"
  /\ conns[owner[t]] = None
  /\ outcome' = [outcome EXCEPT ![t] = "rejected"]
  /\ UNCHANGED <<conns, pending, owner, delivered, link, daemon>>

Dispatch(t) ==
  LET c == conns[owner[t]] IN
  /\ outcome[t] = "none"
  /\ c # None
  /\ outcome' = [outcome EXCEPT ![t] = "waiting"]
  /\ pending' = pending \cup {t}
  /\ down' = IF sock[c] = "open" THEN [down EXCEPT ![c] = Append(@, t)] ELSE down
  /\ UNCHANGED <<conns, owner, delivered, sock, daemonOf, up, daemon>>

SendThrows(t) ==
  /\ outcome[t] = "none"
  /\ conns[owner[t]] # None
  /\ outcome' = [outcome EXCEPT ![t] = "rejected"]
  /\ UNCHANGED <<conns, pending, owner, delivered, link, daemon>>

\* Mutant: in-flight turns are left to a reconnect.
UnregisterOnly(u) ==
  /\ conns' = [conns EXCEPT ![u] = None]
  /\ UNCHANGED <<pending, outcome>>

\* The user's connection goes, and with it every turn of the user still pending.
DropUser(u) ==
  /\ conns' = [conns EXCEPT ![u] = None]
  /\ pending' = {t \in pending : owner[t] # u}
  /\ outcome' = [t \in Turns |-> IF t \in pending /\ owner[t] = u
                                 THEN "rejected" ELSE outcome[t]]

\* Mutant: any close of one of the user's sockets counts.
IsCurrentOfUser(u, c) == conns[u] # None

\* Does this close concern the user's current connection?
IsCurrent(u, c) == conns[u] = c

\* Mutant: the reply settles every turn its user is waiting for.
RepliedToByUser(m) == {t \in pending : owner[t] = owner[m.turn]}

\* The turns a reply settles: the one it names, if it still waits.
RepliedTo(m) == {t \in pending : t = m.turn}

\* Mutant: the turn stays in the map when it settles.
PendingAfterKept(m) == pending

PendingAfter(m) == pending \ RepliedTo(m)

HandleTrace(m) ==
  /\ delivered' = IF m.turn \in pending
                  THEN [delivered EXCEPT ![m.turn] = Append(@, m.event)]
                  ELSE delivered
  /\ UNCHANGED <<pending, outcome>>

HandleEnd(m) ==
  /\ outcome' = [t \in Turns |-> IF t \in RepliedTo(m) THEN m.status ELSE outcome[t]]
  /\ pending' = PendingAfter(m)
  /\ UNCHANGED delivered

\* The engine reads one message of socket c.
Receive(c) ==
  /\ sock[c] \in {"open", "ending"}
  /\ up[c] # <<>>
  /\ LET m == Head(up[c]) IN
       \/ m.type = "trace:batch" /\ HandleTrace(m)
       \/ m.type = "turn:end" /\ HandleEnd(m)
  /\ up' = [up EXCEPT ![c] = Tail(@)]
  /\ UNCHANGED <<conns, owner, sock, daemonOf, down, daemon>>

\* daemonTokenStore.resolve of the token the daemon connected with.
TokenUser(c) == UserOf[daemonOf[c]]

\* The server accepts the socket: the token resolves and the conn is registered,
\* in the place of any earlier one.
Accept(c) ==
  /\ sock[c] = "opening"
  /\ sock' = [sock EXCEPT ![c] = "open"]
  /\ conns' = [conns EXCEPT ![TokenUser(c)] = c]
  /\ UNCHANGED <<pending, owner, outcome, delivered, daemonOf, up, down, daemon>>

\* The server's close event, after the messages that did arrive.
ServerClose(c) ==
  /\ sock[c] = "ending"
  /\ up[c] = <<>>
  /\ sock' = [sock EXCEPT ![c] = "closed"]
  /\ LET u == TokenUser(c) IN
       IF IsCurrent(u, c) THEN DropUser(u) ELSE UNCHANGED <<conns, pending, outcome>>
  /\ UNCHANGED <<owner, delivered, daemonOf, up, down, daemon>>

-----------------------------------------------------------------------------
(* The daemon process. *)

\* connect(): a first connection, or a reconnect after the backoff.
Connect(d) ==
  /\ ws[d] = None
  /\ \E c \in Socks :
       /\ sock[c] = "unused" /\ daemonOf[c] = d
       /\ sock' = [sock EXCEPT ![c] = "opening"]
       /\ ws' = [ws EXCEPT ![d] = c]
  /\ UNCHANGED <<hub, daemonOf, up, down, running, traced, ended>>

\* agent:run arrives: the turn is run at once, whatever else is running.
StartRun(d) ==
  LET c == ws[d] IN
  /\ c # None /\ sock[c] = "open"
  /\ down[c] # <<>>
  /\ running' = [running EXCEPT ![d] = @ \cup {Head(down[c])}]
  /\ down' = [down EXCEPT ![c] = Tail(@)]
  /\ UNCHANGED <<hub, sock, daemonOf, up, ws, traced, ended>>

\* send(): on the current socket, dropped when there is none open.
Send(d, msgs) ==
  IF ws[d] # None /\ sock[ws[d]] = "open"
  THEN up' = [up EXCEPT ![ws[d]] = @ \o msgs]
  ELSE UNCHANGED up

TraceRun(d, t) ==
  /\ t \in running[d]
  /\ traced[t] < MaxEvents
  /\ traced' = [traced EXCEPT ![t] = @ + 1]
  /\ Send(d, <<TraceBatch(t, traced[t] + 1)>>)
  /\ UNCHANGED <<hub, sock, daemonOf, down, ws, running, ended>>

\* The child is gone.  A child that could not be spawned raises 'error' and then
\* 'close', and finish() reports the end of the turn for each.
EndRun(d, t, st, twice) ==
  /\ t \in running[d]
  /\ twice => st = "failed"
  /\ running' = [running EXCEPT ![d] = @ \ {t}]
  /\ ended' = [ended EXCEPT ![t] = st]
  /\ Send(d, IF twice THEN <<TurnEnd(t, st), TurnEnd(t, st)>> ELSE <<TurnEnd(t, st)>>)
  /\ UNCHANGED <<hub, sock, daemonOf, down, ws, traced>>

\* The socket ends, cleanly or not: the daemon sees its close event at once, the
\* server later; a suffix of what was in flight is lost.
Disconnect(d) ==
  LET c == ws[d] IN
  /\ c # None /\ sock[c] = "open"
  /\ sock' = [sock EXCEPT ![c] = "ending"]
  /\ ws' = [ws EXCEPT ![d] = None]
  /\ \E n \in 0 .. Len(up[c]) : up' = [up EXCEPT ![c] = SubSeq(@, 1, n)]
  /\ down' = [down EXCEPT ![c] = <<>>]
  /\ UNCHANGED <<hub, daemonOf, running, traced, ended>>

\* The daemon is killed and started again: its children are gone with it.
Restart(d) ==
  LET c == ws[d] IN
  /\ c # None /\ sock[c] = "open"
  /\ sock' = [sock EXCEPT ![c] = "ending"]
  /\ ws' = [ws EXCEPT ![d] = None]
  /\ down' = [down EXCEPT ![c] = <<>>]
  /\ running' = [running EXCEPT ![d] = {}]
  /\ UNCHANGED <<hub, daemonOf, up, traced, ended>>

-----------------------------------------------------------------------------
HubStep ==
  \/ \E t \in Turns : DispatchRefused(t) \/ Dispatch(t) \/ SendThrows(t)
  \/ \E c \in Socks : Receive(c) \/ ServerClose(c)

EndSome(d) ==
  \E t \in Turns, st \in Statuses, twice \in BOOLEAN : EndRun(d, t, st, twice)

DaemonStep(d) ==
  \/ Connect(d)
  \/ StartRun(d)
  \/ \E t \in Turns : TraceRun(d, t)
  \/ EndSome(d)
  \/ Disconnect(d)
  \/ Restart(d)

Next ==
  \/ HubStep
  \/ \E c \in Socks : Accept(c)
  \/ \E d \in Daemons : DaemonStep(d)

Spec == Init /\ [][Next]_vars

\* What the runtimes do by themselves: messages that arrive are handled, sockets
\* that end are noticed, runs end, a daemon reconnects while it has sockets left.
\* Nobody promises dispatches, trace events or disconnects.
Fairness ==
  /\ \A c \in Socks : WF_vars(Receive(c)) /\ WF_vars(ServerClose(c))
  /\ \A d \in Daemons : /\ WF_vars(Connect(d))
                        /\ WF_vars(StartRun(d))
                        /\ WF_vars(EndSome(d))

FairSpec == Spec /\ Fairness /\ \A c \in Socks : WF_vars(Accept(c))

-----------------------------------------------------------------------------
(* Properties. *)

Messages ==
  [type : {"trace:batch"}, turn : Turns, event : 1 .. MaxEvents]
    \cup [type : {"turn:end"}, turn : Turns, status : Statuses]

TypeOK ==
  /\ conns \in [Users -> Socks \cup {None}]
  /\ pending \subseteq Turns
  /\ owner \in [Turns -> Users]
  /\ outcome \in [Turns -> Outcomes]
  /\ delivered \in [Turns -> Seq(1 .. MaxEvents)]
  /\ sock \in [Socks -> Lives]
  /\ daemonOf \in [Socks -> Daemons]
  /\ up \in [Socks -> Seq(Messages)]
  /\ down \in [Socks -> Seq(Turns)]
  /\ ws \in [Daemons -> Socks \cup {None}]
  /\ running \in [Daemons -> SUBSET Turns]
  /\ traced \in [Turns -> 0 .. MaxEvents]
  /\ ended \in [Turns -> Statuses \cup {"no"}]

\* A turn waits in the hub exactly while its dispatch is unsettled, and only while
\* its user has a connection registered: once the connection a user had is dropped,
\* none of the user's turns is left waiting (daemonHub.ts:89-98).
PendingHasDaemon ==
  /\ \A t \in Turns : t \in pending <=> outcome[t] = "waiting"
  /\ \A t \in pending : conns[owner[t]] # None

\* A dispatch settles as the run of its own turn ended, whatever else the daemon
\* runs at the same time (daemonHub.ts:138-150), and runs nowhere but on a daemon of
\* the user it was dispatched for (daemonHub.ts:102-123).
OutcomeIsTheRuns ==
  /\ \A t \in Turns : outcome[t] \in Statuses => outcome[t] = ended[t]
  /\ \A d \in Daemons : \A t \in running[d] : owner[t] = UserOf[d]

\* The caller gets no event once its dispatch has settled: late and duplicated
\* replies of a turn are dropped (daemonHub.ts:132-141).
NoEventAfterSettling ==
  [][\A t \in Turns : delivered'[t] # delivered[t] => outcome[t] = "waiting"]_vars

\* Closing a socket that has been replaced costs the user nothing: a registered
\* connection is dropped only by its own close (daemonHub.ts:92-94, server.ts:738).
StaleCloseIsHarmless ==
  [][\A u \in Users : conns[u] # None /\ conns'[u] = None
       => sock[conns[u]] = "ending" /\ sock'[conns[u]] = "closed"]_vars

\* "In-flight turns for this user can never complete without their daemon - fail
\* them" (daemonHub.ts:96): every dispatched turn settles.
DispatchSettles ==
  \A t \in Turns : (outcome[t] = "waiting") ~> (outcome[t] # "waiting")

\* The server has noticed the end of every earlier socket of a user when it accepts
\* the next one, and a user has one live daemon.
Orderly ==
  \A c, k \in Socks : /\ TokenUser(c) = TokenUser(k)
                      /\ {sock[c], sock[k]} \subseteq {"open", "ending"}
                      => c = k

\* Where reconnects are always orderly, every dispatched turn does settle: its reply
\* arrives, or the close of its connection fails it (daemonHub.ts:94-99, 138-150).
SettlesWhenOrderly == []Orderly => DispatchSettles
=============================================================================

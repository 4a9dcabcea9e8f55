--------------------------- MODULE DaemonHubProofs ----------------------------
(***************************************************************************)
(* Theorems about DaemonHub for any users, daemons, sockets and turns, and  *)
(* for reconnects in any order.                                             *)
(***************************************************************************)
EXTENDS DaemonHub, SequenceTheorems, TLAPS

USE DEF hub, link, daemon

-----------------------------------------------------------------------------
(* Type correctness. *)

\* What a daemon sends for a trace event is a message.
LEMMA TraceType ==
  ASSUME NEW t \in Turns, NEW n \in 1 .. MaxEvents
  PROVE  TraceBatch(t, n) \in Messages
BY DEF TraceBatch, Messages

\* What a daemon sends for the end of a turn is a message.
LEMMA EndType ==
  ASSUME NEW t \in Turns, NEW st \in Statuses PROVE TurnEnd(t, st) \in Messages
BY DEF TurnEnd, Messages

\* What a message carries, by its type.
LEMMA MessageFields ==
  ASSUME NEW m \in Messages
  PROVE  /\ m.turn \in Turns
         /\ m.type = "trace:batch" => m.event \in 1 .. MaxEvents
         /\ m.type = "turn:end" => m.status \in Statuses
BY DEF Messages

\* Sending keeps what is in flight well typed, on an open socket or on none.
LEMMA SendType ==
  ASSUME TypeOK, NEW d \in Daemons, NEW msgs \in Seq(Messages), Send(d, msgs)
  PROVE  up' \in [Socks -> Seq(Messages)]
<1>1. CASE ws[d] # None /\ sock[ws[d]] = "open"
  <2>1. ws[d] \in Socks /\ up[ws[d]] \in Seq(Messages)
    BY <1>1 DEF TypeOK
  <2>2. up[ws[d]] \o msgs \in Seq(Messages)
    BY <2>1, ConcatProperties
  <2> QED
    BY <1>1, <2>1, <2>2 DEF TypeOK, Send
<1>2. CASE ~(ws[d] # None /\ sock[ws[d]] = "open")
  BY <1>2 DEF TypeOK, Send
<1> QED
  BY <1>1, <1>2

\* The maps of the hub, the sockets and the daemons keep their types for any users,
\* daemons, sockets and turns (daemonHub.ts:75-155, daemon/main.ts:90-215).
THEOREM TypeCorrect == Spec => []TypeOK
<1>1. Init => TypeOK
  BY EventsAssumption DEF Init, TypeOK, Outcomes, Statuses, Lives
<1>2. TypeOK /\ [Next]_vars => TypeOK'
  <2> SUFFICES ASSUME TypeOK, [Next]_vars PROVE TypeOK'
    OBVIOUS
  <2>1. ASSUME NEW t \in Turns, DispatchRefused(t) \/ Dispatch(t) \/ SendThrows(t)
        PROVE  TypeOK'
    <3>1. CASE DispatchRefused(t) \/ SendThrows(t)
      BY <3>1 DEF DispatchRefused, SendThrows, TypeOK, Outcomes
    <3>2. CASE Dispatch(t)
      <4> DEFINE c == conns[owner[t]]
      <4>1. c \in Socks /\ down[c] \in Seq(Turns)
        BY <3>2 DEF Dispatch, TypeOK
      <4>2. Append(down[c], t) \in Seq(Turns)
        BY <4>1
      <4>3. down' \in [Socks -> Seq(Turns)]
        BY <3>2, <4>1, <4>2 DEF Dispatch, TypeOK
      <4> QED
        BY <3>2, <4>3 DEF Dispatch, TypeOK, Outcomes
    <3> QED
      BY <2>1, <3>1, <3>2
  <2>2. ASSUME NEW c \in Socks, Receive(c) PROVE TypeOK'
    <3> DEFINE m == Head(up[c])
    <3>1. m \in Messages /\ Tail(up[c]) \in Seq(Messages)
      BY <2>2 DEF Receive, TypeOK
    <3>2. up' \in [Socks -> Seq(Messages)]
      BY <2>2, <3>1 DEF Receive, TypeOK
    <3>3. /\ delivered' \in [Turns -> Seq(1 .. MaxEvents)]
          /\ outcome' \in [Turns -> Outcomes]
          /\ pending' \subseteq Turns
      <4>1. CASE m.type = "trace:batch" /\ HandleTrace(m)
        BY <3>1, <4>1, MessageFields DEF HandleTrace, TypeOK
      <4>2. CASE m.type = "turn:end" /\ HandleEnd(m)
        BY <3>1, <4>2, MessageFields DEF HandleEnd, PendingAfter, TypeOK, Outcomes
      <4> QED
        BY <2>2, <4>1, <4>2 DEF Receive
    <3> QED
      BY <2>2, <3>2, <3>3 DEF Receive, TypeOK
  <2>3. ASSUME NEW c \in Socks, ServerClose(c) PROVE TypeOK'
    BY <2>3 DEF ServerClose, DropUser, TypeOK, Outcomes, Lives
  <2>4. ASSUME NEW c \in Socks, Accept(c) PROVE TypeOK'
    BY <2>4, UserOfAssumption DEF Accept, TokenUser, TypeOK, Lives
  <2>5. ASSUME NEW d \in Daemons, Connect(d) PROVE TypeOK'
    BY <2>5 DEF Connect, TypeOK, Lives
  <2>6. ASSUME NEW d \in Daemons, StartRun(d) PROVE TypeOK'
    <3>1. ws[d] \in Socks /\ down[ws[d]] \in Seq(Turns) /\ down[ws[d]] # <<>>
      BY <2>6 DEF StartRun, TypeOK
    <3>2. Head(down[ws[d]]) \in Turns /\ Tail(down[ws[d]]) \in Seq(Turns)
      BY <3>1
    <3> QED
      BY <2>6, <3>1, <3>2 DEF StartRun, TypeOK
  <2>7. ASSUME NEW d \in Daemons, NEW t \in Turns, TraceRun(d, t) PROVE TypeOK'
    <3>1. traced[t] + 1 \in 1 .. MaxEvents
      BY <2>7, EventsAssumption DEF TraceRun, TypeOK
    <3>2. <<TraceBatch(t, traced[t] + 1)>> \in Seq(Messages)
      BY <3>1, TraceType
    <3>3. up' \in [Socks -> Seq(Messages)]
      BY <2>7, <3>2, SendType DEF TraceRun
    <3> QED
      BY <2>7, <3>1, <3>3 DEF TraceRun, TypeOK
  <2>8. ASSUME NEW d \in Daemons, NEW t \in Turns, NEW st \in Statuses,
               NEW twice \in BOOLEAN, EndRun(d, t, st, twice)
        PROVE  TypeOK'
    <3>1. (IF twice THEN <<TurnEnd(t, st), TurnEnd(t, st)>> ELSE <<TurnEnd(t, st)>>)
             \in Seq(Messages)
      BY EndType
    <3>2. up' \in [Socks -> Seq(Messages)]
      BY <2>8, <3>1, SendType DEF EndRun
    <3> QED
      BY <2>8, <3>2 DEF EndRun, TypeOK
  <2>9. ASSUME NEW d \in Daemons, Disconnect(d) PROVE TypeOK'
    <3>1. PICK n \in 0 .. Len(up[ws[d]]) :
             up' = [up EXCEPT ![ws[d]] = SubSeq(@, 1, n)]
      BY <2>9 DEF Disconnect
    <3>2. ws[d] \in Socks /\ up[ws[d]] \in Seq(Messages)
      BY <2>9 DEF Disconnect, TypeOK
    <3>3. SubSeq(up[ws[d]], 1, n) \in Seq(Messages)
      BY <3>2
    <3>4. up' \in [Socks -> Seq(Messages)]
      BY <3>1, <3>2, <3>3 DEF TypeOK
    <3> QED
      BY <2>9, <3>2, <3>4 DEF Disconnect, TypeOK, Lives
  <2>10. ASSUME NEW d \in Daemons, Restart(d) PROVE TypeOK'
    BY <2>10 DEF Restart, TypeOK, Lives
  <2>11. CASE UNCHANGED vars
    BY <2>11 DEF vars, TypeOK
  <2> QED
    BY <2>1, <2>2, <2>3, <2>4, <2>5, <2>6, <2>7, <2>8, <2>9, <2>10, <2>11
    DEF Next, HubStep, DaemonStep, EndSome
<1> QED
  BY <1>1, <1>2, PTL DEF Spec

-----------------------------------------------------------------------------
(* Waiting turns and registered connections. *)

\* Turns start to wait under a registered connection and stop when it is dropped.
LEMMA PendingStep ==
  ASSUME TypeOK, PendingHasDaemon, [Next]_vars PROVE PendingHasDaemon'
<1>1. CASE UNCHANGED hub
  BY <1>1 DEF PendingHasDaemon
<1>2. ASSUME NEW t \in Turns, DispatchRefused(t) \/ Dispatch(t) \/ SendThrows(t)
      PROVE  PendingHasDaemon'
  BY <1>2 DEF DispatchRefused, Dispatch, SendThrows, TypeOK, PendingHasDaemon
<1>3. ASSUME NEW c \in Socks, Receive(c) PROVE PendingHasDaemon'
  <2> DEFINE m == Head(up[c])
  <2>1. m \in Messages
    BY <1>3 DEF Receive, TypeOK
  <2>2. CASE m.type = "trace:batch" /\ HandleTrace(m)
    BY <1>3, <2>2 DEF Receive, HandleTrace, PendingHasDaemon
  <2>3. CASE m.type = "turn:end" /\ HandleEnd(m)
    BY <1>3, <2>1, <2>3, MessageFields
    DEF Receive, HandleEnd, PendingAfter, RepliedTo, PendingHasDaemon, TypeOK, Statuses
  <2> QED
    BY <1>3, <2>2, <2>3 DEF Receive
<1>4. ASSUME NEW c \in Socks, ServerClose(c) PROVE PendingHasDaemon'
  <2>1. CASE UNCHANGED <<conns, pending, outcome>>
    BY <1>4, <2>1 DEF ServerClose, PendingHasDaemon
  <2>2. CASE DropUser(TokenUser(c))
    BY <1>4, <2>2 DEF ServerClose, DropUser, PendingHasDaemon, TypeOK
  <2> QED
    BY <1>4, <2>1, <2>2 DEF ServerClose
<1>5. ASSUME NEW c \in Socks, Accept(c) PROVE PendingHasDaemon'
  BY <1>5, NoneAssumption, UserOfAssumption
  DEF Accept, TokenUser, TypeOK, PendingHasDaemon
<1> QED
  BY <1>1, <1>2, <1>3, <1>4, <1>5
  DEF Next, HubStep, DaemonStep, EndSome, Connect, StartRun, TraceRun, EndRun,
      Disconnect, Restart, vars

\* A turn waits only while its dispatch is unsettled and its user has a connection
\* registered: dropping a user's connection leaves none of the user's turns behind
\* (daemonHub.ts:89-98).
THEOREM PendingHolds == Spec => []PendingHasDaemon
<1>1. Init => PendingHasDaemon
  BY DEF Init, PendingHasDaemon
<1>2. TypeOK /\ PendingHasDaemon /\ [Next]_vars => PendingHasDaemon'
  BY PendingStep
<1> QED
  BY <1>1, <1>2, TypeCorrect, PTL DEF Spec

\* A registered connection is dropped only by its own close: the close of a socket
\* that has been replaced does not concern its user (daemonHub.ts:92-94).
THEOREM StaleCloseHolds == Spec => StaleCloseIsHarmless
<1>1. TypeOK /\ [Next]_vars =>
        [\A u \in Users : conns[u] # None /\ conns'[u] = None
           => sock[conns[u]] = "ending" /\ sock'[conns[u]] = "closed"]_vars
  <2> SUFFICES ASSUME TypeOK, Next, NEW u \in Users,
                      conns[u] # None, conns'[u] = None
               PROVE  sock[conns[u]] = "ending" /\ sock'[conns[u]] = "closed"
    OBVIOUS
  <2>1. ASSUME NEW c \in Socks, ServerClose(c)
        PROVE  sock[conns[u]] = "ending" /\ sock'[conns[u]] = "closed"
    BY <2>1 DEF ServerClose, DropUser, IsCurrent, TypeOK
  <2>2. ASSUME NEW c \in Socks, Accept(c) PROVE FALSE
    BY <2>2, NoneAssumption DEF Accept, TypeOK
  <2>3. \A c \in Socks : ~Receive(c)
    BY DEF Receive
  <2> QED
    BY <2>1, <2>2, <2>3
    DEF Next, HubStep, DispatchRefused, Dispatch, SendThrows, DaemonStep, EndSome,
        Connect, StartRun, TraceRun, EndRun, Disconnect, Restart
<1> QED
  BY <1>1, TypeCorrect, PTL DEF Spec, StaleCloseIsHarmless

\* Only the reading of a trace of a turn that waits hands its caller an event: what
\* comes late or twice is dropped (daemonHub.ts:132-141).
THEOREM NoLateEvent == Spec => NoEventAfterSettling
<1>1. PendingHasDaemon /\ [Next]_vars =>
        [\A t \in Turns : delivered'[t] # delivered[t] => outcome[t] = "waiting"]_vars
  <2> SUFFICES ASSUME PendingHasDaemon, Next, NEW t \in Turns,
                      delivered'[t] # delivered[t]
               PROVE  outcome[t] = "waiting"
    OBVIOUS
  <2>1. PICK c \in Socks : HandleTrace(Head(up[c]))
    BY DEF Next, HubStep, DispatchRefused, Dispatch, SendThrows, Receive, HandleEnd,
           ServerClose, Accept, DaemonStep, EndSome, Connect, StartRun, TraceRun, EndRun,
           Disconnect, Restart
  <2>2. t \in pending
    BY <2>1 DEF HandleTrace
  <2> QED
    BY <2>2 DEF PendingHasDaemon
<1> QED
  BY <1>1, PendingHolds, PTL DEF Spec, NoEventAfterSettling

-----------------------------------------------------------------------------
(* Outcomes.  A reply settles a turn by its id alone, so what has to be known is  *)
(* that a turn is in one place at a time: not yet sent, on its way down one        *)
(* socket, run by one daemon, or over; and over for good, for what was sent about  *)
(* its end stays on its way when other turns come and go.                          *)

\* The hub's connection of a user, and a daemon's own socket, lead to each other.
LinksMatch ==
  /\ \A u \in Users : conns[u] # None => TokenUser(conns[u]) = u
  /\ \A d \in Daemons : ws[d] # None => daemonOf[ws[d]] = d

\* Turns that were never dispatched are nowhere.
FreshIsNowhere ==
  \A t \in Turns : outcome[t] = "none" =>
    /\ ended[t] = "no"
    /\ \A c \in Socks : \A i \in DOMAIN down[c] : down[c][i] # t
    /\ \A d \in Daemons : t \notin running[d]

\* A turn on its way to a daemon is its user's, not begun, and on its way only once.
SentOnce ==
  \A c \in Socks : \A i \in DOMAIN down[c] :
    /\ ended[down[c][i]] = "no"
    /\ owner[down[c][i]] = TokenUser(c)
    /\ \A d \in Daemons : down[c][i] \notin running[d]
    /\ \A k \in Socks : \A j \in DOMAIN down[k] : down[k][j] = down[c][i] => k = c /\ j = i

\* A turn that runs is its user's, not over, and run by one daemon.
RunOnce ==
  \A d \in Daemons : \A t \in running[d] :
    /\ ended[t] = "no"
    /\ owner[t] = UserOf[d]
    /\ \A e \in Daemons : t \in running[e] => e = d

\* Whatever is on its way to the hub about the end of a turn is how it ended.
EndsAreTrue ==
  \A c \in Socks : \A i \in DOMAIN up[c] :
    up[c][i].type = "turn:end" => up[c][i].status = ended[up[c][i].turn]

OutcomeInv ==
  LinksMatch /\ FreshIsNowhere /\ SentOnce /\ RunOnce /\ EndsAreTrue /\ OutcomeIsTheRuns

\* What is on its way up after a send was there before, or has just been sent.
LEMMA SendAdds ==
  ASSUME TypeOK, NEW d \in Daemons, NEW msgs \in Seq(Messages), Send(d, msgs),
         NEW c \in Socks, NEW i \in DOMAIN up'[c]
  PROVE  \/ i \in DOMAIN up[c] /\ up'[c][i] = up[c][i]
         \/ \E j \in DOMAIN msgs : up'[c][i] = msgs[j]
<1>1. up[c] \in Seq(Messages)
  BY DEF TypeOK
<1>2. CASE up'[c] = up[c]
  BY <1>2
<1>3. CASE up'[c] = up[c] \o msgs
  BY <1>1, <1>3
<1> QED
  BY <1>2, <1>3 DEF Send, TypeOK

\* The first to be read leaves, the others move up.
LEMMA TailShifts ==
  ASSUME NEW S, NEW q \in Seq(S), q # <<>>, NEW i \in DOMAIN Tail(q)
  PROVE  i + 1 \in DOMAIN q /\ i \in Nat /\ i >= 1 /\ Tail(q)[i] = q[i + 1]
OBVIOUS

\* A refusal and a send that throws tell nobody but the caller.
LEMMA RefusalKeepsOutcomes ==
  ASSUME TypeOK, OutcomeInv, NEW t \in Turns, DispatchRefused(t) \/ SendThrows(t)
  PROVE  OutcomeInv'
<1>1. /\ outcome' = [outcome EXCEPT ![t] = "rejected"]
      /\ UNCHANGED <<conns, pending, owner, delivered, link, daemon>>
  BY DEF DispatchRefused, SendThrows
<1>2. LinksMatch' /\ SentOnce' /\ RunOnce' /\ EndsAreTrue'
  BY <1>1 DEF OutcomeInv, LinksMatch, SentOnce, RunOnce, EndsAreTrue, TokenUser
<1>3. FreshIsNowhere' /\ OutcomeIsTheRuns'
  BY <1>1 DEF OutcomeInv, FreshIsNowhere, OutcomeIsTheRuns, TypeOK, Statuses
<1> QED
  BY <1>2, <1>3 DEF OutcomeInv

\* A dispatched turn was nowhere before.
LEMMA DispatchKeepsOutcomes ==
  ASSUME TypeOK, OutcomeInv, NEW t \in Turns, Dispatch(t) PROVE OutcomeInv'
<1> DEFINE s == conns[owner[t]]
<1>1. /\ s \in Socks /\ TokenUser(s) = owner[t] /\ down[s] \in Seq(Turns)
  BY DEF Dispatch, TypeOK, OutcomeInv, LinksMatch
<1>2. /\ outcome' = [outcome EXCEPT ![t] = "waiting"]
      /\ outcome[t] = "none"
      /\ UNCHANGED <<conns, owner, sock, daemonOf, up, daemon>>
  BY DEF Dispatch
<1>3. ASSUME NEW c \in Socks, NEW i \in DOMAIN down'[c]
      PROVE  \/ i \in DOMAIN down[c] /\ down'[c][i] = down[c][i]
             \/ c = s /\ i = Len(down[s]) + 1 /\ down'[c][i] = t
  <2>1. CASE down'[c] = down[c]
    BY <1>3, <2>1
  <2>2. CASE c = s /\ down'[s] = Append(down[s], t)
    BY <1>1, <1>3, <2>2
  <2> QED
    BY <2>1, <2>2 DEF Dispatch, TypeOK
<1>4. LinksMatch' /\ EndsAreTrue' /\ RunOnce'
  BY <1>2 DEF OutcomeInv, LinksMatch, RunOnce, EndsAreTrue, TokenUser
<1>5. FreshIsNowhere'
  BY <1>2, <1>3 DEF OutcomeInv, FreshIsNowhere, TypeOK
<1>6. SentOnce'
  <2> SUFFICES ASSUME NEW c \in Socks, NEW i \in DOMAIN down'[c]
               PROVE  /\ ended[down'[c][i]] = "no"
                      /\ owner[down'[c][i]] = TokenUser(c)
                      /\ \A d \in Daemons : down'[c][i] \notin running[d]
                      /\ \A k \in Socks : \A j \in DOMAIN down'[k] :
                           down'[k][j] = down'[c][i] => k = c /\ j = i
    BY <1>2 DEF SentOnce, TokenUser
  <2>1. CASE i \in DOMAIN down[c] /\ down'[c][i] = down[c][i]
    <3>1. \A k \in Socks : \A j \in DOMAIN down'[k] :
             down'[k][j] = down'[c][i] => j \in DOMAIN down[k] /\ down'[k][j] = down[k][j]
      BY <1>2, <1>3, <2>1 DEF OutcomeInv, FreshIsNowhere
    <3> QED
      BY <2>1, <3>1 DEF OutcomeInv, SentOnce
  <2>2. CASE c = s /\ i = Len(down[s]) + 1 /\ down'[c][i] = t
    <3>1. \A k \in Socks : \A j \in DOMAIN down'[k] : down'[k][j] = t => k = c /\ j = i
      BY <1>2, <1>3, <2>2 DEF OutcomeInv, FreshIsNowhere
    <3> QED
      BY <1>1, <1>2, <2>2, <3>1 DEF OutcomeInv, FreshIsNowhere
  <2> QED
    BY <1>3, <2>1, <2>2
<1>7. OutcomeIsTheRuns'
  BY <1>2 DEF OutcomeInv, OutcomeIsTheRuns, TypeOK, Statuses
<1> QED
  BY <1>4, <1>5, <1>6, <1>7 DEF OutcomeInv

\* A reply that settles a turn carries how its run ended.
LEMMA ReceiveKeepsOutcomes ==
  ASSUME TypeOK, OutcomeInv, NEW s \in Socks, Receive(s) PROVE OutcomeInv'
<1> DEFINE m == Head(up[s])
<1>1. /\ up[s] \in Seq(Messages) /\ up[s] # <<>> /\ m \in Messages
      /\ m = up[s][1] /\ 1 \in DOMAIN up[s]
      /\ up' = [up EXCEPT ![s] = Tail(@)]
      /\ UNCHANGED <<conns, owner, sock, daemonOf, down, daemon>>
  BY DEF Receive, TypeOK
<1>2. EndsAreTrue'
  <2> SUFFICES ASSUME NEW c \in Socks, NEW i \in DOMAIN up'[c], up'[c][i].type = "turn:end"
               PROVE  up'[c][i].status = ended[up'[c][i].turn]
    BY <1>1 DEF EndsAreTrue
  <2>1. \E j \in DOMAIN up[c] : up'[c][i] = up[c][j]
    <3>1. CASE c = s
      BY <1>1, <3>1, TailShifts DEF TypeOK
    <3> QED
      BY <1>1, <3>1 DEF TypeOK
  <2> QED
    BY <2>1 DEF OutcomeInv, EndsAreTrue
<1>3. \A t \in Turns : \/ outcome'[t] = outcome[t]
                       \/ /\ outcome'[t] \in Statuses
                          /\ outcome'[t] = ended[t]
  <2>1. CASE m.type = "trace:batch" /\ HandleTrace(m)
    BY <2>1 DEF HandleTrace
  <2>2. CASE m.type = "turn:end" /\ HandleEnd(m)
    <3>1. m.status = ended[m.turn] /\ m.status \in Statuses
      BY <1>1, <2>2, MessageFields DEF OutcomeInv, EndsAreTrue
    <3> QED
      BY <2>2, <3>1 DEF HandleEnd, RepliedTo
  <2> QED
    BY <2>1, <2>2 DEF Receive
<1>4. LinksMatch' /\ SentOnce' /\ RunOnce'
  BY <1>1 DEF OutcomeInv, LinksMatch, SentOnce, RunOnce, TokenUser
<1>5. FreshIsNowhere'
  BY <1>1, <1>3 DEF OutcomeInv, FreshIsNowhere, Statuses
<1>6. OutcomeIsTheRuns'
  BY <1>1, <1>3 DEF OutcomeInv, OutcomeIsTheRuns
<1> QED
  BY <1>2, <1>4, <1>5, <1>6 DEF OutcomeInv

\* Opening and closing sockets moves no turn: it may drop what was on its way.
LEMMA SocketsKeepOutcomes ==
  ASSUME TypeOK, OutcomeInv, NEW s \in Socks, ServerClose(s) \/ Accept(s)
  PROVE  OutcomeInv'
<1>1. UNCHANGED <<owner, daemonOf, up, down, daemon>>
  BY DEF ServerClose, Accept
<1>2. \A t \in Turns : outcome'[t] = outcome[t] \/ outcome'[t] = "rejected"
  BY DEF ServerClose, Accept, DropUser, TypeOK
<1>3. LinksMatch'
  <2>1. TokenUser(s) \in Users
    BY UserOfAssumption DEF TypeOK, TokenUser
  <2>2. \A u \in Users : conns'[u] \in {conns[u], None} \/ (u = TokenUser(s) /\ conns'[u] = s)
    BY <2>1 DEF ServerClose, Accept, DropUser, TypeOK
  <2> QED
    BY <1>1, <2>1, <2>2 DEF OutcomeInv, LinksMatch, TokenUser
<1>4. SentOnce' /\ RunOnce' /\ EndsAreTrue'
  BY <1>1 DEF OutcomeInv, SentOnce, RunOnce, EndsAreTrue, TokenUser
<1>5. FreshIsNowhere' /\ OutcomeIsTheRuns'
  BY <1>1, <1>2 DEF OutcomeInv, FreshIsNowhere, OutcomeIsTheRuns, Statuses
<1> QED
  BY <1>3, <1>4, <1>5 DEF OutcomeInv

\* A turn that begins to run leaves the socket it came down.
LEMMA StartKeepsOutcomes ==
  ASSUME TypeOK, OutcomeInv, NEW d \in Daemons, StartRun(d) PROVE OutcomeInv'
<1> DEFINE s == ws[d]
           t == Head(down[s])
<1>1. /\ s \in Socks /\ daemonOf[s] = d
      /\ down[s] \in Seq(Turns) /\ down[s] # <<>> /\ t = down[s][1] /\ 1 \in DOMAIN down[s]
      /\ running' = [running EXCEPT ![d] = @ \cup {t}]
      /\ down' = [down EXCEPT ![s] = Tail(@)]
      /\ UNCHANGED <<hub, sock, daemonOf, up, ws, traced, ended>>
  BY DEF StartRun, TypeOK, OutcomeInv, LinksMatch
<1>2. /\ ended[t] = "no" /\ owner[t] = UserOf[d]
      /\ \A e \in Daemons : t \notin running[e]
      /\ \A k \in Socks : \A j \in DOMAIN down[k] : down[k][j] = t => k = s /\ j = 1
  BY <1>1 DEF OutcomeInv, SentOnce, TokenUser
<1>3. ASSUME NEW c \in Socks, NEW i \in DOMAIN down'[c]
      PROVE  \E j \in DOMAIN down[c] : /\ down'[c][i] = down[c][j]
                                       /\ j = IF c = s THEN i + 1 ELSE i
                                       /\ i \in Nat /\ i >= 1
  <2>1. CASE c = s
    BY <1>1, <1>3, <2>1, TailShifts DEF TypeOK
  <2>2. CASE c # s
    BY <1>1, <1>3, <2>2, SMTT(30) DEF TypeOK
  <2> QED
    BY <2>1, <2>2
<1>4. LinksMatch' /\ EndsAreTrue'
  BY <1>1 DEF OutcomeInv, LinksMatch, EndsAreTrue, TokenUser
<1>5. FreshIsNowhere'
  <2>1. t \in Turns /\ outcome[t] # "none"
    BY <1>1 DEF OutcomeInv, FreshIsNowhere
  <2> QED
    BY <1>1, <1>3, <2>1 DEF OutcomeInv, FreshIsNowhere, TypeOK
<1>6. SentOnce'
  <2> SUFFICES ASSUME NEW c \in Socks, NEW i \in DOMAIN down'[c]
               PROVE  /\ ended[down'[c][i]] = "no"
                      /\ owner[down'[c][i]] = TokenUser(c)
                      /\ \A e \in Daemons : down'[c][i] \notin running'[e]
                      /\ \A k \in Socks : \A j \in DOMAIN down'[k] :
                           down'[k][j] = down'[c][i] => k = c /\ j = i
    BY <1>1 DEF SentOnce, TokenUser
  <2>1. PICK j \in DOMAIN down[c] : /\ down'[c][i] = down[c][j]
                                    /\ j = IF c = s THEN i + 1 ELSE i
                                    /\ i \in Nat /\ i >= 1
    BY <1>3
  <2>2. down[c][j] # t
    BY <1>2, <2>1
  <2>3. \A k \in Socks : \A b \in DOMAIN down'[k] :
           down'[k][b] = down'[c][i] => k = c /\ b = i
    BY <1>3, <2>1 DEF OutcomeInv, SentOnce
  <2>4. \A e \in Daemons : running'[e] \subseteq running[e] \cup {t}
    BY <1>1 DEF TypeOK
  <2>5. /\ ended[down[c][j]] = "no"
        /\ owner[down[c][j]] = TokenUser(c)
        /\ \A e \in Daemons : down[c][j] \notin running[e]
    BY DEF OutcomeInv, SentOnce
  <2> QED
    BY <2>1, <2>2, <2>3, <2>4, <2>5
<1>7. RunOnce' /\ OutcomeIsTheRuns'
  BY <1>1, <1>2 DEF OutcomeInv, RunOnce, OutcomeIsTheRuns, TypeOK
<1> QED
  BY <1>4, <1>5, <1>6, <1>7 DEF OutcomeInv

\* A trace says nothing of an end.
LEMMA TraceKeepsOutcomes ==
  ASSUME TypeOK, OutcomeInv, NEW d \in Daemons, NEW t \in Turns, TraceRun(d, t)
  PROVE  OutcomeInv'
<1>1. /\ UNCHANGED <<hub, sock, daemonOf, down, ws, running, ended>>
      /\ Send(d, <<TraceBatch(t, traced[t] + 1)>>)
      /\ traced[t] + 1 \in 1 .. MaxEvents
  BY EventsAssumption DEF TraceRun, TypeOK
<1>2. <<TraceBatch(t, traced[t] + 1)>> \in Seq(Messages)
  BY <1>1, TraceType
<1>3. EndsAreTrue'
  <2> SUFFICES ASSUME NEW c \in Socks, NEW i \in DOMAIN up'[c], up'[c][i].type = "turn:end"
               PROVE  up'[c][i].status = ended'[up'[c][i].turn]
    BY DEF EndsAreTrue
  <2>1. \/ i \in DOMAIN up[c] /\ up'[c][i] = up[c][i]
        \/ up'[c][i] = TraceBatch(t, traced[t] + 1)
    <3> DEFINE msgs == <<TraceBatch(t, traced[t] + 1)>>
    <3>1. \A j \in DOMAIN msgs : msgs[j] = TraceBatch(t, traced[t] + 1)
      OBVIOUS
    <3>2. msgs \in Seq(Messages) /\ Send(d, msgs)
      BY <1>1, <1>2
    <3> HIDE DEF msgs
    <3> QED
      BY <3>1, <3>2, SendAdds
  <2>2. i \in DOMAIN up[c] /\ up'[c][i] = up[c][i]
    BY <2>1 DEF TraceBatch
  <2> QED
    BY <1>1, <2>2 DEF OutcomeInv, EndsAreTrue
<1> QED
  BY <1>1, <1>3
  DEF OutcomeInv, LinksMatch, FreshIsNowhere, SentOnce, RunOnce, OutcomeIsTheRuns, TokenUser

\* The end of a run is told as it was, once or twice, and never changes afterwards.
LEMMA EndKeepsOutcomes ==
  ASSUME TypeOK, OutcomeInv, NEW d \in Daemons, NEW t \in Turns, NEW st \in Statuses,
         NEW twice \in BOOLEAN, EndRun(d, t, st, twice)
  PROVE  OutcomeInv'
<1> DEFINE msgs == IF twice THEN <<TurnEnd(t, st), TurnEnd(t, st)>> ELSE <<TurnEnd(t, st)>>
<1>1. /\ t \in running[d] /\ ended[t] = "no"
      /\ running' = [running EXCEPT ![d] = @ \ {t}]
      /\ ended' = [ended EXCEPT ![t] = st]
      /\ Send(d, msgs)
      /\ UNCHANGED <<hub, sock, daemonOf, down, ws, traced>>
  BY DEF EndRun, OutcomeInv, RunOnce
<1>2. msgs \in Seq(Messages) /\ \A j \in DOMAIN msgs : msgs[j] = TurnEnd(t, st)
  BY EndType
<1>3. EndsAreTrue'
  <2> SUFFICES ASSUME NEW c \in Socks, NEW i \in DOMAIN up'[c], up'[c][i].type = "turn:end"
               PROVE  up'[c][i].status = ended'[up'[c][i].turn]
    BY DEF EndsAreTrue
  <2>1. CASE i \in DOMAIN up[c] /\ up'[c][i] = up[c][i]
    <3>1. up[c][i] \in Messages
      BY <2>1 DEF TypeOK
    <3>2. up[c][i].status \in Statuses /\ up[c][i].status = ended[up[c][i].turn]
      BY <2>1, <3>1, MessageFields DEF OutcomeInv, EndsAreTrue
    <3>3. up[c][i].turn # t
      BY <1>1, <3>2 DEF Statuses
    <3> QED
      BY <1>1, <2>1, <3>2, <3>3 DEF TypeOK
  <2>2. CASE up'[c][i] = TurnEnd(t, st)
    BY <1>1, <2>2 DEF TurnEnd, TypeOK
  <2>3. \/ i \in DOMAIN up[c] /\ up'[c][i] = up[c][i]
        \/ \E j \in DOMAIN msgs : up'[c][i] = msgs[j]
    <3> HIDE DEF msgs
    <3> QED
      BY <1>1, <1>2, SendAdds
  <2> QED
    BY <1>2, <2>1, <2>2, <2>3
<1>4. LinksMatch'
  BY <1>1 DEF OutcomeInv, LinksMatch, TokenUser
<1>5. FreshIsNowhere' /\ OutcomeIsTheRuns'
  BY <1>1 DEF OutcomeInv, FreshIsNowhere, OutcomeIsTheRuns, TypeOK, Statuses
<1>6. SentOnce' /\ RunOnce'
  BY <1>1 DEF OutcomeInv, SentOnce, RunOnce, TokenUser, TypeOK
<1> QED
  BY <1>3, <1>4, <1>5, <1>6 DEF OutcomeInv

\* What a socket or a killed daemon loses is lost: nothing else moves.
LEMMA LossKeepsOutcomes ==
  ASSUME TypeOK, OutcomeInv, NEW d \in Daemons, Connect(d) \/ Disconnect(d) \/ Restart(d)
  PROVE  OutcomeInv'
<1>1. /\ UNCHANGED <<hub, daemonOf, traced, ended>>
      /\ \A e \in Daemons : running'[e] \subseteq running[e]
      /\ \A c \in Socks : down'[c] = down[c] \/ down'[c] = <<>>
  BY DEF Connect, Disconnect, Restart, TypeOK
<1>2. \A c \in Socks : \A i \in DOMAIN up'[c] : i \in DOMAIN up[c] /\ up'[c][i] = up[c][i]
  <2>1. CASE UNCHANGED up
    BY <2>1
  <2>2. CASE Disconnect(d)
    <3>1. PICK n \in 0 .. Len(up[ws[d]]) :
             up' = [up EXCEPT ![ws[d]] = SubSeq(@, 1, n)]
      BY <2>2 DEF Disconnect
    <3>2. ws[d] \in Socks /\ up[ws[d]] \in Seq(Messages)
      BY <2>2 DEF Disconnect, TypeOK
    <3>3. \A i \in DOMAIN SubSeq(up[ws[d]], 1, n) :
             i \in DOMAIN up[ws[d]] /\ SubSeq(up[ws[d]], 1, n)[i] = up[ws[d]][i]
      BY <3>2
    <3> QED
      BY <3>1, <3>2, <3>3 DEF TypeOK
  <2> QED
    BY <2>1, <2>2 DEF Connect, Restart
<1>3. LinksMatch'
  BY <1>1, ZenonT(30) DEF Connect, Disconnect, Restart, OutcomeInv, LinksMatch, TokenUser, TypeOK
<1>4. EndsAreTrue'
  BY <1>1, <1>2 DEF OutcomeInv, EndsAreTrue
<1>5. FreshIsNowhere' /\ SentOnce' /\ RunOnce' /\ OutcomeIsTheRuns'
  BY <1>1 DEF OutcomeInv, FreshIsNowhere, SentOnce, RunOnce, OutcomeIsTheRuns, TokenUser
<1> QED
  BY <1>3, <1>4, <1>5 DEF OutcomeInv

\* A dispatch settles as the run of its own turn ended, and a turn runs nowhere but on a
\* daemon of its user, for any number of sockets, reconnects in any order and replies
\* that come late or twice (daemonHub.ts:102-150).
THEOREM OutcomesHold == Spec => []OutcomeIsTheRuns
<1>1. Init => OutcomeInv
  BY DEF Init, OutcomeInv, LinksMatch, FreshIsNowhere, SentOnce, RunOnce, EndsAreTrue,
         OutcomeIsTheRuns, Statuses
<1>2. TypeOK /\ OutcomeInv /\ [Next]_vars => OutcomeInv'
  <2>1. CASE UNCHANGED vars
    BY <2>1 DEF vars, OutcomeInv, LinksMatch, FreshIsNowhere, SentOnce, RunOnce,
                EndsAreTrue, OutcomeIsTheRuns, TokenUser
  <2> QED
    BY <2>1, RefusalKeepsOutcomes, DispatchKeepsOutcomes, ReceiveKeepsOutcomes,
       SocketsKeepOutcomes, StartKeepsOutcomes, TraceKeepsOutcomes, EndKeepsOutcomes,
       LossKeepsOutcomes
    DEF Next, HubStep, DaemonStep, EndSome
<1>3. OutcomeInv => OutcomeIsTheRuns
  BY DEF OutcomeInv
<1> QED
  BY <1>1, <1>2, <1>3, TypeCorrect, PTL DEF Spec
=============================================================================

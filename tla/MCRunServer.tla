---- MODULE MCRunServer ----
(* Small instances of the served runs: one run whose workers call agents, one whose *)
(* workers open gates, or two runs that number their gates alike and whose flows    *)
(* may catch what the api throws.                                                   *)
EXTENDS RunServer

CONSTANTS r1, r2, r3, r4, w1, w2, c1

FourRuns == {r1, r2, r3, r4}
TwoWorkers == {w1, w2}
OneClient == {c1}
NoClients == {}
OneCursor == {"c"}
Cents == {2, Unset}
OneDecision == {"approve"}

Forking(nodes, gates, phases) ==
  [nodes |-> nodes, gates |-> gates, phases |-> phases, cursors |-> {},
   team |-> TwoWorkers, catches |-> FALSE]

Catching ==
  [nodes |-> 1, gates |-> 1, phases |-> 0, cursors |-> OneCursor,
   team |-> {}, catches |-> TRUE]

Small == (r1 :> Forking(2, 0, 1)) @@ (r2 :> Forking(1, 2, 0)) @@ [r \in {r3, r4} |-> Catching]
ThreeNodes == (r1 :> Forking(3, 0, 0)) @@ [r \in {r2, r3, r4} |-> Catching]

OneOrTwo == {{r1}, {r2}, {r3, r4}}
OnlyOne == {{r1}}
====

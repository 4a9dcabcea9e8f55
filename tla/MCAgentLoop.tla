----------------------------- MODULE MCAgentLoop -----------------------------
(***************************************************************************)
(* Loops that pause at the second failure or, by default, at the third: of  *)
(* a flow of one agent call, of a flow that commits cursors, and of one     *)
(* that nobody registered.                                                  *)
(***************************************************************************)
EXTENDS AgentLoop

CONSTANTS l1, l2, s1, s2, c1, c2, agentLoop, digest

LoopOf(flow, limit) == [flow |-> flow, maxConsecutiveFailures |-> limit]

Mixed == {LoopOf(agentLoop, 2), LoopOf(digest, Unset), LoopOf(Unset, Unset)}

TwoOrDefault == {LoopOf(agentLoop, 2), LoopOf(agentLoop, Unset)}

\* All but the specs posted so far, which no guard reads, and the clock, which stands.
View == <<known, spec, state, pc, loop, snap, res, crashes, told, wiring, turn, streak>>
=============================================================================

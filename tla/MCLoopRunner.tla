----------------------------- MODULE MCLoopRunner -----------------------------
(***************************************************************************)
(* A small instance of LoopRunner for TLC.                                  *)
(***************************************************************************)
EXTENDS LoopRunner

CONSTANTS l1, s1, s2, c1, c2, digest

\* A spec that pauses at the second failure, and one that keeps the default of
\* three and names a flow nobody registered.
Spec2 == [flow |-> digest, maxConsecutiveFailures |-> 2]
SpecUnknown == [flow |-> Unset, maxConsecutiveFailures |-> Unset]
KnownOrNot == {Spec2, SpecUnknown}

\* All but what no guard and no property reads: when a loop last ran, and of a tick's
\* copy of the record everything but the count.
View ==
  <<known, spec, pc, loop, res, now, crashes, posted, told,
    [l \in Loops |-> [state[l] EXCEPT !.lastRunAt = Never]],
    [s \in Slots |-> IF snap[s] = None THEN None
                     ELSE <<snap[s].spec, snap[s].state.consecutiveFailures>>]>>
=============================================================================

----------------------------- MODULE LoopContract -----------------------------
(***************************************************************************)
(* What a loop promises its owner, with no ticks, snapshots or awaits: the  *)
(* contract stated above loopRunner (loopRunner.ts:35-42).  Every run of a  *)
(* loop that is not paused has one of three outcomes, each of which takes   *)
(* effect in one step on the loop's current record.                         *)
(***************************************************************************)
EXTENDS Integers

CONSTANTS Loops, Cursors, Limits, Unset

VARIABLES
  cursor,    \* the committed cursor, Unset before the first commit
  failures,  \* consecutive failed runs
  pause,     \* why the loop is paused, Unset while it runs
  limit      \* the threshold of its current spec, Unset before it is posted

vars == <<cursor, failures, pause, limit>>

Init ==
  /\ cursor = [l \in Loops |-> Unset]
  /\ failures = [l \in Loops |-> 0]
  /\ pause = [l \in Loops |-> Unset]
  /\ limit = [l \in Loops |-> Unset]

Active(l) == limit[l] # Unset /\ pause[l] = Unset

\* A new spec changes the threshold and nothing the loop has achieved.
Post(l) ==
  \E n \in Limits :
    /\ limit' = [limit EXCEPT ![l] = n]
    /\ UNCHANGED <<cursor, failures, pause>>

RunSucceeds(l) ==
  /\ Active(l)
  /\ failures' = [failures EXCEPT ![l] = 0]
  /\ \E c \in Cursors \cup {cursor[l]} : cursor' = [cursor EXCEPT ![l] = c]
  /\ UNCHANGED <<pause, limit>>

RunFails(l) ==
  /\ Active(l)
  /\ failures' = [failures EXCEPT ![l] = @ + 1]
  /\ pause' = IF failures[l] + 1 >= limit[l]
              THEN [pause EXCEPT ![l] = "failures"] ELSE pause
  /\ UNCHANGED <<cursor, limit>>

RunOverspends(l) ==
  /\ Active(l)
  /\ failures' = [failures EXCEPT ![l] = @ + 1]
  /\ pause' = [pause EXCEPT ![l] = "budget"]
  /\ UNCHANGED <<cursor, limit>>

Resume(l) ==
  /\ limit[l] # Unset
  /\ failures' = [failures EXCEPT ![l] = 0]
  /\ pause' = [pause EXCEPT ![l] = Unset]
  /\ UNCHANGED <<cursor, limit>>

Next ==
  \E l \in Loops :
    Post(l) \/ RunSucceeds(l) \/ RunFails(l) \/ RunOverspends(l) \/ Resume(l)

Spec == Init /\ [][Next]_vars
=============================================================================

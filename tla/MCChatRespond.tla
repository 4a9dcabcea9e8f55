---- MODULE MCChatRespond ----
(* Small instances of the chat: two turns in one channel, or in two. *)
EXTENDS ChatRespond, TLC

CONSTANTS t1, t2, ch1, ch2

TwoTurns == {t1, t2}
TwoChannels == {ch1, ch2}
SameOrNot == {[t \in TwoTurns |-> ch1], (t1 :> ch1) @@ (t2 :> ch2)}
TwoAndOne == (t1 :> 2) @@ (t2 :> 1)
====

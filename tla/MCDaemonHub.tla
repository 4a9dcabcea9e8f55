------------------------------ MODULE MCDaemonHub -----------------------------
(***************************************************************************)
(* Small instances of DaemonHub for TLC.                                    *)
(***************************************************************************)
EXTENDS DaemonHub, TLC

CONSTANTS u1, u2, d1, d2, c1, c2, t1, t2

\* One daemon of one user; a daemon each for two users.
OneDaemon == d1 :> u1
DaemonEach == d1 :> u1 @@ d2 :> u2
=============================================================================

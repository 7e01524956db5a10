---------------------------- MODULE MCTorService ----------------------------
(* Instances of TorService for TLC. *)
EXTENDS TorService, TLC

CONSTANTS t1, t2

\* The thread of the last start and the one before it.
TwoThreads == {t1, t2}
OnOrOff == {TRUE, FALSE}
=============================================================================

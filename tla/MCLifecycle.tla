---------------------------- MODULE MCLifecycle ----------------------------
(* Instances of Lifecycle for TLC. *)
EXTENDS Lifecycle, TLC

CONSTANTS t1, t2

\* Two loop threads: the one of the last start, and one it may have overtaken.
TwoThreads == {t1, t2}
ThreadSymmetry == Permutations(TwoThreads)

Always == {TRUE}
OnOrOff == {TRUE, FALSE}
NoException == {}
MissingTool == {"FileNotFoundError"}
AnyException == {"FileNotFoundError", "Exception"}

\* Strays are bounded: an exception per session would leave one each time.
StraysBound == strays <= 2
=============================================================================

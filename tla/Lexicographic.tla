--------------------------- MODULE Lexicographic ---------------------------
(***************************************************************************)
(* Tuples of numbers compared place by place, the first place first: the   *)
(* order in which the budgets of the components go down.  It has no        *)
(* endless descent among tuples of naturals of one length.                 *)
(***************************************************************************)
EXTENDS Naturals

Below(a, b) ==
    \E i \in DOMAIN a : a[i] < b[i] /\ \A j \in 1 .. i - 1 : a[j] = b[j]

AllNat(a) == \A i \in DOMAIN a : a[i] \in Nat
=============================================================================

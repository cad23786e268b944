------------------------- MODULE MCThreadLifecycle -------------------------
(* Small programs for ThreadLifecycle. *)
EXTENDS ThreadLifecycle, TLC

CONSTANTS t1, t2, t3

MCOneType == [t \in Thread |-> 1]
\* t1 has the type that stop() comes to first.
MCTwoTypes == [t \in Thread |-> IF t = t1 THEN 2 ELSE 1]

\* Threads of one type are interchangeable.
MCSymmetry == Permutations(Thread)
=============================================================================

------------------------------ MODULE MCLpLock ------------------------------
(* Model checking of LpLock: three processes over two lock files, enough    *)
(* for a circle of three, for two readers that both convert, and for locks  *)
(* taken in opposite orders.                                                *)
EXTENDS LpLock, TLC

Symmetry == Permutations(Procs) \cup Permutations(Locks)
=============================================================================

------------------------------- MODULE Totals -------------------------------
(* The sum of a sequence of numbers, as a recursive function: what serverd's *)
(* thread counters count is stated with it.                                 *)
EXTENDS Integers

PartialSums(n, a) ==
  LET sum[i \in 0..n] == IF i = 0 THEN 0 ELSE sum[i - 1] + a[i]
  IN  sum

Total(n, a) == PartialSums(n, a)[n]
=============================================================================

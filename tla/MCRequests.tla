----------------------------- MODULE MCRequests -----------------------------
(* Requests for TLC: with up to two threads, two listproc processes meet at a *)
(* file, and a stale slot lies behind the one being filled.                   *)
EXTENDS Requests

CONSTANTS m1, m2

=============================================================================

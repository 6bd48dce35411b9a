----------------------------- MODULE MCDispatch -----------------------------
(* Model checking of Dispatch: two lists, so that one can be busy while the *)
(* other is looked at.  Scanned one after the other, list 1 may use two of  *)
(* up to two threads and one disturbance happens; by the file of new mail,  *)
(* two messages arrive and list 1 has digests.                              *)
EXTENDS Dispatch

CONSTANTS s1, s2

MCInstallations ==
  { [fifo |-> FALSE, choices |-> {1, 2}, listThreads |-> <<2, 1>>,
     digests |-> {}, senders |-> {s1},
     kinds |-> {"mail", "errors"}, mail |-> [Lists -> BOOLEAN], faults |-> 1],
    [fifo |-> TRUE, choices |-> {2}, listThreads |-> <<1, 1>>,
     digests |-> {1}, senders |-> {s1, s2},
     kinds |-> {"mail"}, mail |-> {<<FALSE, FALSE>>}, faults |-> 0] }
=============================================================================

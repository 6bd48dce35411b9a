----------------------------- MODULE Broadcast ------------------------------
(* What distributing a message to a list promises: every reader of the list  *)
(* gets each posted message, and a message is forgotten only after that.     *)
(* Delivery implements it (Delivery!Promise).                                *)
CONSTANTS Files, Recipients

VARIABLES posted,   \* the messages taken for distribution
          got,      \* <<message, recipient>>: it was delivered, maybe twice
          closed    \* the messages whose file was removed

Post(f) ==
  /\ f \notin posted
  /\ posted' = posted \cup {f}
  /\ UNCHANGED <<got, closed>>

Deliver(f, to) ==
  /\ f \in posted \ closed
  /\ got' = got \cup ({f} \X to)
  /\ UNCHANGED <<posted, closed>>

Close(f) ==
  /\ f \in posted /\ {f} \X Recipients \subseteq got
  /\ closed' = closed \cup {f}
  /\ UNCHANGED <<posted, got>>

Init == posted = {} /\ got = {} /\ closed = {}

Next == \E f \in Files :
  \/ Post(f) \/ Close(f)
  \/ \E to \in SUBSET Recipients : Deliver(f, to)

Spec == Init /\ [][Next]_<<posted, got, closed>>

=============================================================================

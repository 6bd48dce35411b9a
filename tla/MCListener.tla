----------------------------- MODULE MCListener -----------------------------
(* Listener for TLC: one session with every kind of request, under both ways   *)
(* of masking signals; and three people, or two and a full table, of whom some  *)
(* stay for more than a day.                                                   *)
EXTENDS Listener

CONSTANTS u1, u2, u3

MCUsers == {u1, u2, u3}

Logins == Addresses \cup {"blank"}

Breaks == {"alarm", "key", "timeout"}

Alone ==
  {[maxConnections |-> 1, users |-> {u1}, bsd |-> b, requests |-> Requests, logins |-> Logins,
    maxLines |-> 4, breaks |-> Breaks, maxFaults |-> 1, hosts |-> {"wanted", "unwanted"},
    ends |-> {"system", "stop"}] : b \in BOOLEAN}

FullTable ==
  {[maxConnections |-> 1, users |-> {u1, u2}, bsd |-> b, requests |-> {"put"}, logins |-> {"blank"},
    maxLines |-> 1, breaks |-> {"key", "alarm"}, maxFaults |-> 1, hosts |-> {"wanted"},
    ends |-> {"stop"}] : b \in BOOLEAN}

Crowd ==
  {[maxConnections |-> 2, users |-> MCUsers, bsd |-> FALSE, requests |-> {}, logins |-> {},
    maxLines |-> 0, breaks |-> {"key"}, maxFaults |-> 0, hosts |-> {"wanted"}, ends |-> {}]}

MCSettings == Alone \cup FullTable \cup Crowd

=============================================================================

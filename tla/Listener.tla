------------------------------ MODULE Listener ------------------------------
(* serverd's listener, the process that accepts interactive connections, forks *)
(* a process for each and keeps them in a table of limited size.  When the     *)
(* table is full, the process of a session that is a day old is told to end.   *)
(*                                                                           *)
(* Sources: be_listener, sighandle, check_timeout, child_alive and gexit in     *)
(* src/bins/serverd/serverd.c.                                                 *)
(*                                                                           *)
(* Abstracted: the master process is up or has told the listener to end; after *)
(* that start kills what is left (module Requests).  A connection waits in the  *)
(* backlog until it is accepted.                                               *)
EXTENDS IlpSession, FiniteSets

CONSTANT NoPid

ASSUME NoPidAssumption == NoPid \notin Users

VARIABLES
  lpc,      \* the listener: accepting, waiting for a victim, forked, or gone
  guest,    \* whom it is about to serve, or NoPid
  victim,   \* whose end it waits for, or NoPid
  clients,  \* [0..maxConnections - 1 -> [pid, old]]
  nforks,
  chld,     \* SIGCHLD is pending
  stopped,  \* the master process has sent SIGINT
  faults

table    == <<clients, nforks>>
listener == <<lpc, guest, victim, table, chld, stopped, faults>>
vars     == <<conf, session, listener>>

Slots == 0..(conf.maxConnections - 1)
Slot0 == [pid |-> NoPid, old |-> FALSE]

-----------------------------------------------------------------------------
(* The listener *)

ListenerOnly == UNCHANGED <<conf, client, toSrv, stopped>>

\* CANNOT_CONNECT
CannotConnect(u, code) ==
  /\ Say(u, <<"CONNECT", code>>) /\ Serve(u, Process("refused"))

Waiting(u) == client[u].pc # "none" /\ server[u].pc = "none"

\* check_timeout: the first that is more than a day old
TimedOut == {i \in 0..(nforks - 1) : clients[i].old}
Oldest   == clients[CHOOSE i \in TimedOut : \A j \in TimedOut : i <= j].pid

Unwanted(u) ==
  /\ lpc = "accept" /\ Waiting(u) /\ "unwanted" \in conf.hosts
  /\ CannotConnect(u, "CONN_ABORTED")
  /\ ListenerOnly /\ UNCHANGED <<lpc, guest, victim, table, chld, faults>>

Refuse(u) ==
  /\ lpc = "accept" /\ Waiting(u) /\ nforks + 1 > conf.maxConnections /\ TimedOut = {}
  /\ CannotConnect(u, "SERVER_BUSY")
  /\ ListenerOnly /\ UNCHANGED <<lpc, guest, victim, table, chld, faults>>

\* kill (pid, TIMEOUT_SIG) and wait until the SIGCHLD handler removes it
Expel_noSignal(u) ==
  /\ lpc = "accept" /\ Waiting(u) /\ nforks + 1 > conf.maxConnections /\ TimedOut # {}
  /\ lpc' = "wait" /\ guest' = u /\ victim' = Oldest
  /\ ListenerOnly /\ UNCHANGED <<server, toCli, table, chld, faults>>
Expel(u) ==
  /\ lpc = "accept" /\ Waiting(u) /\ nforks + 1 > conf.maxConnections /\ TimedOut # {}
  /\ lpc' = "wait" /\ guest' = u /\ victim' = Oldest
  /\ server' = IF Serves(Oldest)
               THEN [server EXCEPT ![Oldest].pend = @ \cup {"TIMEOUT_SIG"}] ELSE server
  /\ ListenerOnly /\ UNCHANGED <<toCli, table, chld, faults>>

ChildAlive(v) == \E i \in 0..(nforks - 1) : clients[i].pid = v

\* SIGCHLD is blocked, the slot is dated, and the process forked.
MayFork(u) ==
  \/ lpc = "accept" /\ Waiting(u) /\ nforks \in Slots
  \/ lpc = "wait" /\ guest = u /\ ~ChildAlive(victim)
DateSlot == clients' = [clients EXCEPT ![nforks].old = FALSE]

Fork(u) ==
  /\ MayFork(u) /\ DateSlot
  /\ Serve(u, Process("starting"))
  /\ lpc' = "forked" /\ guest' = u /\ victim' = NoPid
  /\ ListenerOnly /\ UNCHANGED <<toCli, nforks, chld, faults>>

CannotFork(u) ==
  /\ MayFork(u) /\ DateSlot /\ faults < conf.maxFaults /\ faults' = faults + 1
  /\ CannotConnect(u, "SYS_ERROR")
  /\ lpc' = "accept" /\ guest' = NoPid /\ victim' = NoPid
  /\ ListenerOnly /\ UNCHANGED <<nforks, chld>>

\* clients [nforks++]->pid = pid, and SIGCHLD is released.
Store ==
  /\ lpc = "forked"
  /\ clients' = [clients EXCEPT ![nforks].pid = guest] /\ nforks' = nforks + 1
  /\ lpc' = "accept" /\ guest' = NoPid
  /\ ListenerOnly /\ UNCHANGED <<server, toCli, victim, chld, faults>>

\* kill every client of the table with ABORT_SIG, tell the master, exit
Exits ==
  /\ server' = [u \in Users |->
                  IF ChildAlive(u) /\ Serves(u)
                  THEN [server[u] EXCEPT !.pend = @ \cup {"ABORT_SIG"}] ELSE server[u]]
  /\ lpc' = "gone" /\ guest' = NoPid /\ victim' = NoPid
  /\ UNCHANGED <<conf, client, toCli, toSrv, faults>>

\* nforks is decremented even if the process is not found.
Removed(v) ==
  IF ChildAlive(v)
  THEN LET i == CHOOSE i \in 0..(nforks - 1) : clients[i].pid = v
       IN [j \in Slots |-> IF j >= i /\ j < nforks - 1 THEN clients[j + 1] ELSE clients[j]]
  ELSE clients

\* sighandle(SIGCHLD) collects one process, although several may have died.
MayCollect_anyTime == chld /\ lpc # "gone"
MayCollect == chld /\ lpc \notin {"forked", "gone"}
Collect(v) ==
  /\ MayCollect /\ server[v].pc = "done" /\ server[v].status = "plain"
  /\ clients' = Removed(v) /\ nforks' = nforks - 1
  /\ Serve(v, Process("reaped")) /\ chld' = FALSE
  /\ ListenerOnly /\ UNCHANGED <<toCli, lpc, guest, victim, faults>>

\* A request for shutdown or restart, or an error of listproc
CollectFatal(v) ==
  /\ MayCollect /\ server[v].pc = "done" /\ server[v].status = "system"
  /\ clients' = Removed(v) /\ nforks' = nforks - 1 /\ chld' = FALSE
  /\ Exits /\ UNCHANGED stopped

\* gexit or sighandle of the master process; sighandle(SIGINT) of the listener,
\* which may interrupt it between fork and the table
Stop ==
  /\ "stop" \in conf.ends /\ ~stopped /\ stopped' = TRUE
  /\ UNCHANGED <<conf, session, lpc, guest, victim, table, chld, faults>>
Interrupted ==
  /\ stopped /\ lpc # "gone" /\ Exits /\ UNCHANGED <<table, chld, stopped>>

ListenerStep ==
  \/ Store \/ Interrupted
  \/ \E u \in Users :
       Unwanted(u) \/ Refuse(u) \/ Expel(u) \/ Fork(u) \/ CannotFork(u) \/ Collect(u) \/ CollectFatal(u)

-----------------------------------------------------------------------------
(* Sessions, and the rest of the world *)

\* The end of a process raises SIGCHLD.
Session(u) ==
  /\ Reads(u)
  /\ chld' = (chld \/ server'[u].pc = "done")
  /\ UNCHANGED <<conf, lpc, guest, victim, table, stopped, faults>>
Clock(u)   == Alarm(u) /\ UNCHANGED <<conf, listener>>
Human(u)   == ClientStep(u) /\ UNCHANGED <<conf, listener>>
Ilp(u)     == ClientGoesOn(u) /\ UNCHANGED <<conf, listener>>

Connect(u) ==
  /\ u \in conf.users /\ client[u].pc = "none" /\ lpc # "gone" /\ ToClient(u, "connect")
  /\ UNCHANGED <<conf, server, toCli, toSrv, listener>>

\* With the listener its socket goes, and the backlog with it.
Reset(u) ==
  /\ lpc = "gone" /\ Waiting(u) /\ client[u].pc = "connect" /\ Away(u)
  /\ UNCHANGED <<conf, toSrv, listener>>

\* Twenty-four hours later
Age ==
  /\ \E i \in 0..(nforks - 1) : ~clients[i].old /\ clients' = [clients EXCEPT ![i].old = TRUE]
  /\ UNCHANGED <<conf, session, lpc, guest, victim, nforks, chld, stopped, faults>>

Next ==
  \/ ListenerStep \/ Stop \/ Age
  \/ \E u \in Users : Session(u) \/ Clock(u) \/ Human(u) \/ Ilp(u) \/ Connect(u) \/ Reset(u)

Init ==
  /\ conf \in Settings /\ SessionInit
  /\ lpc = "accept" /\ guest = NoPid /\ victim = NoPid
  /\ clients = [i \in Slots |-> Slot0] /\ nforks = 0
  /\ chld = FALSE /\ stopped = FALSE /\ faults = 0

\* Processes go on; people need not, and nobody waits for an alarm.
Fairness ==
  /\ WF_vars(Store) /\ WF_vars(Interrupted)
  /\ \A u \in Users :
       /\ WF_vars(Session(u)) /\ WF_vars(Ilp(u)) /\ WF_vars(Reset(u))
       /\ SF_vars(Unwanted(u) \/ Refuse(u) \/ Expel(u) \/ Fork(u) \/ CannotFork(u))
       /\ WF_vars(\E v \in Users : Collect(v) \/ CollectFatal(v))

Spec == Init /\ [][Next]_vars /\ Fairness

-----------------------------------------------------------------------------
(* Properties *)

\* Type invariant.
TypeOK ==
  /\ lpc \in {"accept", "wait", "forked", "gone"} /\ nforks \in 0..conf.maxConnections
  /\ clients \in [Slots -> [pid : Users \cup {NoPid}, old : BOOLEAN]]
  /\ lpc = "wait" <=> victim # NoPid
  /\ guest # NoPid <=> lpc \in {"wait", "forked"}
  /\ \A u \in Users : Len(toCli[u]) <= 3 /\ Len(toSrv[u]) <= 2
  /\ faults \in 0..conf.maxFaults

\* The table holds each process that was forked and not yet collected, once, but
\* for the one being entered: whoever dies, in whatever order, while the listener
\* forks, waits or shifts the table.
Known == {clients[i].pid : i \in 0..(nforks - 1)}
Kept ==
  lpc # "gone" =>
    /\ Known = {u \in Users : server[u].pc \notin {"none", "refused", "reaped"}}
               \ (IF lpc = "forked" THEN {guest} ELSE {})
    /\ nforks = Cardinality(Known)

\* The two ends agree on whose turn it is: never do both wait for the other with
\* nothing under way, and while a user types nothing but a farewell comes (ilp
\* would end at once), through logins, continued lines, texts and file tests.
Listening(u) ==
  server[u].pc \in {"login", "password", "ready", "more", "permPut", "permRun"}
InStep ==
  \A u \in Users :
    /\ ~(Listening(u) /\ Awaiting(u) /\ toCli[u] = <<>> /\ toSrv[u] = <<>>)
    /\ Typing(u) /\ toCli[u] # <<>> => Head(toCli[u]) \in Farewells

\* Who waits for the server is answered or told that it has gone, unless the
\* listener itself waits for a process that does not hear its signal: one in the
\* middle of a request, or dead and not collected.
Deaf(v) == server[v].pc = "done" \/ "TIMEOUT_SIG" \in server[v].blocked
Answered ==
  \A u \in Users : Awaiting(u) ~> (~Awaiting(u) \/ (victim # NoPid /\ Deaf(victim)))

=============================================================================

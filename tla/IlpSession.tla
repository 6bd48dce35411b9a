----------------------------- MODULE IlpSession -----------------------------
(* One interactive session: the process that serves a connection (serverd's   *)
(* child) and the client at the other end.  Every line of the client is        *)
(* answered by a reply; a PUT or an ARCHIVE ADD is followed by lines of text   *)
(* up to a dot; before a file is transferred the server asks the client        *)
(* whether it may write it; an alarm closes sessions that are idle.            *)
(*                                                                           *)
(* Sources: process_live_request, check_for_redirection, writeable_file,       *)
(* close_connection and run_program in src/bins/serverd/serverd.c, BLOCK_SIGNAL *)
(* and RELEASE_SIGNAL in src/lplib/defs.h, src/bins/ilp/ilp.c.                 *)
(*                                                                           *)
(* Abstracted: a line is only of a kind, and a reply its code: the bytes that   *)
(* follow it are read with it.  Sending fails when the peer has gone, which a   *)
(* server finds out when it next reads.  Left out: the ^C operation (urgent     *)
(* data), remote servers as clients (__eilp__) and re-reading of the            *)
(* configuration; input from a file or a pipe is typed.                        *)
EXTENDS Naturals, Sequences

CONSTANTS
  Users,     \* people who run ilp, each once
  Settings   \* what varies: see SettingsAssumption

Addresses == {"address", "loop"}  \* an e-mail address, one that came from here
Requests  == {"simple", "continued", "put", "put>", "run", "run>", "null>"}

ASSUME SettingsAssumption ==
  \A s \in Settings :
    /\ s.maxConnections \in Nat \ {0} /\ s.users \subseteq Users
    /\ s.bsd \in BOOLEAN           \* how serverd was compiled: see Released
    /\ s.requests \subseteq Requests
    /\ s.logins \subseteq Addresses \cup {"blank"}
    /\ s.maxLines \in Nat          \* lines typed by a user after the login
    /\ s.breaks \subseteq {"alarm", "key", "timeout"}  \* how a session may be cut short
    /\ s.maxFaults \in Nat         \* forks that fail
    /\ s.hosts \subseteq {"wanted", "unwanted"}
    /\ s.ends \subseteq {"system", "stop"}  \* a request or serverd ends it all

VARIABLES
  conf,    \* the setting
  server,  \* [Users -> what serves them: [pc, part, file, blocked, pend, status]]
  client,  \* [Users -> their ilp: [pc, eval, lines]]
  toCli,   \* [Users -> replies under way]
  toSrv    \* [Users -> lines under way]

session == <<server, client, toCli, toSrv>>

Timers    == {"TIMEOUT_SIG", "SIGALRM"}
\* Replies after which there is nothing more to say
Farewells == {"CONN_CLOSED", "CONN_TIMEOUT", "CONN_ABORTED"}
Refusals  == {"CONN_ABORTED", "SERVER_BUSY", "SYS_ERROR"}

-----------------------------------------------------------------------------
(* The server *)

\* "done" until the listener has collected it; a refused client has no process
Closed      == {"done", "reaped", "refused"}
Serves(u)   == server[u].pc \notin Closed \cup {"none"}
Deliverable(u) == server[u].pend \ server[u].blocked
\* A server that is about to read is interrupted by signals first.
At(u, where) == server[u].pc = where /\ Deliverable(u) = {}

Say(u, replies)  == toCli' = [toCli EXCEPT ![u] = IF client[u].pc = "gone" THEN <<>> ELSE @ \o replies]
Serve(u, s)      == server' = [server EXCEPT ![u] = s]
Process(where)   == [pc |-> where, part |-> FALSE, file |-> FALSE, blocked |-> {}, pend |-> {},
                     status |-> "plain"]
\* close, exit
Quit(u, status)  == Serve(u, [Process("done") EXCEPT !.status = status])
Hears(u, lines)  == toSrv[u] # <<>> /\ Head(toSrv[u]) \in lines
Read(u)          == toSrv' = [toSrv EXCEPT ![u] = Tail(@)]

\* BLOCK_SIGNAL three times before a request, RELEASE_SIGNAL after it.  With
\* sigblock and sigsetmask only the last one is released.
Busy(s, where) == [s EXCEPT !.pc = where, !.blocked = Timers, !.part = FALSE]
Released == IF conf.bsd THEN {"TIMEOUT_SIG"} ELSE {}
Free(s) == [s EXCEPT !.pc = "ready", !.blocked = Released, !.file = FALSE, !.part = FALSE]

\* The child of the listener greets its client.
Greet(u) ==
  /\ At(u, "starting")
  /\ Say(u, <<"CONNECT", "OK">>) /\ Serve(u, [server[u] EXCEPT !.pc = "login"])
  /\ UNCHANGED <<client, toSrv>>

\* Without an address there is no password; both replies are sent.
ReadLogin(u) ==
  /\ At(u, "login") /\ Hears(u, Addresses \cup {"blank", "__abort__"}) /\ Read(u)
  /\ CASE Hears(u, {"blank"})   -> Say(u, <<"OK", "OK">>)
                                   /\ Serve(u, [server[u] EXCEPT !.pc = "ready"])
       [] Hears(u, {"address"}) -> Say(u, <<"PASSWORD_REQUIRED">>)
                                   /\ Serve(u, [server[u] EXCEPT !.pc = "password"])
       [] Hears(u, {"loop"})    -> Say(u, <<"PEER_UNAVAIL">>) /\ Quit(u, "plain")
       [] OTHER                 -> UNCHANGED toCli /\ Quit(u, "plain")
  /\ UNCHANGED client

\* The wrong password only leaves fewer privileges.
ReadPassword(u) ==
  /\ At(u, "password") /\ Hears(u, {"password", "__abort__"}) /\ Read(u)
  /\ IF Hears(u, {"password"})
     THEN Say(u, <<"OK">>) /\ Serve(u, [server[u] EXCEPT !.pc = "ready"])
     ELSE UNCHANGED toCli /\ Quit(u, "plain")
  /\ UNCHANGED client

Continue(u) ==
  /\ At(u, "ready") /\ Hears(u, {"continued"}) /\ Read(u)
  /\ Say(u, <<"CONTINUED">>) /\ Serve(u, [server[u] EXCEPT !.part = TRUE])
  /\ UNCHANGED client

Leave(u) ==
  /\ At(u, "ready") /\ ~server[u].part /\ Hears(u, {"quit", "__abort__"}) /\ Read(u)
  /\ IF Hears(u, {"quit"}) THEN Say(u, <<"CONN_CLOSED">>) ELSE UNCHANGED toCli
  /\ Quit(u, "plain") /\ UNCHANGED client

\* binary, ascii, privileges, timeleft, an empty line; a redirection to nowhere
Simple(u) ==
  /\ At(u, "ready") /\ Hears(u, {"null>"} \cup IF server[u].part THEN {} ELSE {"simple"})
  /\ Read(u)
  /\ Say(u, <<IF Hears(u, {"simple"}) THEN "OK" ELSE "SYNTAX_ERROR">>)
  /\ Serve(u, Free(server[u])) /\ UNCHANGED client

\* writeable_file asks the client.
Redirected(u) ==
  /\ At(u, "ready") /\ Hears(u, {"put>", "run>"}) /\ Read(u)
  /\ Say(u, <<"TEST_FILE_PERMISSIONS">>)
  /\ Serve(u, Busy(server[u], IF Hears(u, {"put>"}) THEN "permPut" ELSE "permRun"))
  /\ UNCHANGED client

Put(u) ==
  /\ At(u, "ready") /\ Hears(u, {"put"}) /\ Read(u)
  /\ Say(u, <<"MORE_INPUT_REQUIRED">>) /\ Serve(u, Busy(server[u], "more"))
  /\ UNCHANGED client

\* What was begun with & goes to listproc, whatever the rest looks like.
Run(u) ==
  /\ At(u, "ready")
  /\ Hears(u, {"run", "rest"} \cup IF server[u].part THEN {"simple", "quit", "__abort__"} ELSE {})
  /\ Read(u) /\ Serve(u, Busy(server[u], "running"))
  /\ UNCHANGED <<client, toCli>>

Allowed(u) ==
  IF At(u, "permPut")
  THEN Say(u, <<"MORE_INPUT_REQUIRED">>) /\ Serve(u, [server[u] EXCEPT !.pc = "more"])
  ELSE UNCHANGED toCli /\ Serve(u, [server[u] EXCEPT !.pc = "running", !.file = TRUE])
Denied(u) == Say(u, <<"OK">>) /\ Serve(u, Free(server[u]))

\* Three characters are read: of __abort__ a rest is left.
Permission(u) ==
  /\ At(u, "permPut") \/ At(u, "permRun")
  /\ Hears(u, {"granted", "denied", "__abort__"})
  /\ IF Hears(u, {"__abort__"}) THEN toSrv' = [toSrv EXCEPT ![u][1] = "rest"] ELSE Read(u)
  /\ IF Hears(u, {"denied"}) THEN Denied(u) ELSE Allowed(u)
  /\ UNCHANGED client

\* The text is not a request, not even __abort__.
MoreText_noReply(u) ==
  /\ At(u, "more") /\ Hears(u, {"text", "__abort__", "rest"}) /\ Read(u)
  /\ UNCHANGED <<toCli, server, client>>
MoreText(u) ==
  /\ At(u, "more") /\ Hears(u, {"text", "__abort__", "rest"}) /\ Read(u)
  /\ Say(u, <<"OK">>) /\ UNCHANGED <<server, client>>

\* The dot: where PUT's own answer was to go has been forgotten.
EndOfText(u) ==
  /\ At(u, "more") /\ Hears(u, {"."}) /\ Read(u)
  /\ Serve(u, Busy(server[u], "running"))
  /\ UNCHANGED <<client, toCli>>

\* listproc exits with 0 or 17: its answer goes to the client.
Answer(u) ==
  /\ At(u, "running")
  /\ Say(u, <<IF server[u].file THEN "WRITE_TO_FILE" ELSE "OK">>)
  /\ Serve(u, Free(server[u]))
  /\ UNCHANGED <<client, toSrv>>

\* Any other exit status is the server's own; some end the whole system.
ListprocFails(u) ==
  /\ At(u, "running") /\ Say(u, <<"CONN_CLOSED">>)
  /\ Quit(u, "plain") \/ ("system" \in conf.ends /\ Quit(u, "system"))
  /\ UNCHANGED <<client, toSrv>>

\* Nothing to read, and the client has closed.  writeable_file does not notice
\* and judges by what happens to be in its buffer.
Eof(u) ==
  /\ Serves(u) /\ toSrv[u] = <<>> /\ client[u].pc = "gone"
  /\ \/ /\ \E w \in {"login", "password", "ready", "more"} : At(u, w)
        /\ Quit(u, "plain") /\ UNCHANGED toCli
     \/ /\ At(u, "permPut") \/ At(u, "permRun")
        /\ Allowed(u) \/ Denied(u)
  /\ UNCHANGED <<client, toSrv>>

\* The alarm of a session: 60 seconds for the login, then idle_timeout.
Alarm(u) ==
  /\ "alarm" \in conf.breaks /\ Serves(u) /\ server[u].pc # "starting" /\ "SIGALRM" \notin server[u].pend
  /\ Serve(u, [server[u] EXCEPT !.pend = @ \cup {"SIGALRM"}])
  /\ UNCHANGED <<client, toCli, toSrv>>

\* close_connection
CloseConnection(u) ==
  /\ Serves(u) /\ Deliverable(u) # {}
  /\ Say(u, IF server[u].pc = "starting" THEN <<>>
            ELSE IF "ABORT_SIG" \in Deliverable(u) THEN <<"CONN_ABORTED">> ELSE <<"CONN_TIMEOUT">>)
  /\ Quit(u, "plain") /\ toSrv' = [toSrv EXCEPT ![u] = <<>>] /\ UNCHANGED client

Reads(u) ==
  \/ Greet(u) \/ ReadLogin(u) \/ ReadPassword(u) \/ Continue(u) \/ Leave(u) \/ Simple(u)
  \/ Redirected(u) \/ Put(u) \/ Run(u) \/ Permission(u) \/ MoreText(u) \/ EndOfText(u)
  \/ Answer(u) \/ ListprocFails(u) \/ Eof(u) \/ CloseConnection(u)

-----------------------------------------------------------------------------
(* The client *)

Awaiting(u) == client[u].pc \in {"connect", "greeting", "login?", "await"}
Typing(u)   == client[u].pc \in {"login", "password", "type"}
Person(where) == [pc |-> where, eval |-> TRUE, lines |-> 0]
ToClient(u, where) == client' = [client EXCEPT ![u].pc = where]
\* close, exit: what comes after that is lost.
Away(u) ==
  /\ client' = [client EXCEPT ![u] = Person("gone")]
  /\ toCli' = [toCli EXCEPT ![u] = <<>>] /\ UNCHANGED server
Sends(u, line) ==
  toSrv' = [toSrv EXCEPT ![u] = IF server[u].pc \in Closed THEN <<>> ELSE Append(@, line)]
Types(u, line, where) == Sends(u, line) /\ ToClient(u, where) /\ UNCHANGED <<server, toCli>>

\* server_response and check_server_response
Enough(u, reply) ==
  \/ reply \in Farewells
  \/ client[u].pc = "connect" /\ reply # "CONNECT"
  \/ client[u].pc = "greeting" /\ reply \in Refusals
  \/ client[u].pc = "login?" /\ reply = "PEER_UNAVAIL"

After(u, reply) ==
  CASE client[u].pc = "connect"  -> "greeting"
    [] client[u].pc = "greeting" -> "login"
    [] client[u].pc = "login?"   -> IF reply = "PASSWORD_REQUIRED" THEN "password" ELSE "await"
    [] OTHER                     -> "type"

Receive(u) ==
  /\ Awaiting(u) /\ toCli[u] # <<>> /\ ~Enough(u, Head(toCli[u]))
  /\ Head(toCli[u]) # "TEST_FILE_PERMISSIONS"
  /\ client' = [client EXCEPT ![u].pc = After(u, Head(toCli[u])),
                              ![u].eval = @ /\ Head(toCli[u]) # "MORE_INPUT_REQUIRED"]
  /\ toCli' = [toCli EXCEPT ![u] = Tail(@)] /\ UNCHANGED <<server, toSrv>>

\* open_file tells the server what it found.
OpenFile(u) ==
  /\ client[u].pc = "await" /\ toCli[u] # <<>> /\ Head(toCli[u]) = "TEST_FILE_PERMISSIONS"
  /\ Sends(u, "granted") \/ Sends(u, "denied")
  /\ toCli' = [toCli EXCEPT ![u] = Tail(@)] /\ UNCHANGED <<server, client>>

Farewell(u) ==
  /\ Awaiting(u) /\ toCli[u] # <<>> /\ Enough(u, Head(toCli[u]))
  /\ Away(u) /\ UNCHANGED toSrv

Login(u) ==
  /\ client[u].pc = "login"
  /\ \E l \in conf.logins : Types(u, l, "login?")
Password(u) ==
  /\ client[u].pc = "password" /\ Types(u, "password", "await")

\* A request, or a line of the text, and after maxLines of them the end.
Type(u) ==
  /\ client[u].pc = "type"
  /\ LET more == client[u].lines < conf.maxLines
         kinds == IF client[u].eval THEN (IF more THEN conf.requests ELSE {}) \cup {"quit"}
                  ELSE (IF more THEN {"text"} ELSE {}) \cup {"."}
     IN \E l \in kinds :
          /\ Sends(u, l)
          /\ client' = [client EXCEPT ![u].pc = "await", ![u].eval = @ \/ l = ".",
                          ![u].lines = IF more THEN @ + 1 ELSE @]
  /\ UNCHANGED <<server, toCli>>

\* urg_data: whatever comes while the user types ends the client.
Urgent(u) ==
  /\ Typing(u) /\ (toCli[u] # <<>> \/ server[u].pc \in Closed)
  /\ Away(u) /\ UNCHANGED toSrv

\* ^\ , and a reply that did not come in time
AbortKey(u) ==
  /\ "key" \in conf.breaks
  /\ Typing(u) \/ client[u].pc \in {"login?", "await"}
  /\ Sends(u, "__abort__") /\ Away(u)
GiveUp(u) ==
  /\ "timeout" \in conf.breaks /\ Awaiting(u) /\ toCli[u] = <<>> /\ Away(u) /\ UNCHANGED toSrv

\* The other end has closed.
Hangup(u) ==
  /\ Awaiting(u) /\ toCli[u] = <<>> /\ server[u].pc \in Closed
  /\ Away(u) /\ UNCHANGED toSrv

ClientStep(u) == Login(u) \/ Password(u) \/ Type(u) \/ AbortKey(u) \/ GiveUp(u)
ClientGoesOn(u) == Receive(u) \/ OpenFile(u) \/ Farewell(u) \/ Urgent(u) \/ Hangup(u)

-----------------------------------------------------------------------------

SessionInit ==
  /\ server = [u \in Users |-> Process("none")]
  /\ client = [u \in Users |-> Person("none")]
  /\ toCli = [u \in Users |-> <<>>] /\ toSrv = [u \in Users |-> <<>>]

=============================================================================

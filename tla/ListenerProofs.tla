--------------------------- MODULE ListenerProofs ---------------------------
(***************************************************************************)
(* Theorems about Listener and the sessions it starts, for any users and   *)
(* settings: the two ends of a session stay in step, and the table holds   *)
(* the processes that run.                                                 *)
(***************************************************************************)
EXTENDS Listener, TotalsProofs, SequenceTheorems, FiniteSetTheorems, FunctionTheorems, TLAPS

\* A reply that answers a line.
Replies == {"OK", "SYNTAX_ERROR", "WRITE_TO_FILE", "CONTINUED"}

\* Whose turn it is while both ends are there: what is under way between them
\* for each state of the client and of the server.
Turns(c, eval, s, cli, srv) ==
  \/ c = "connect" /\ s \in {"none", "starting"} /\ cli = <<>> /\ srv = <<>>
  \/ c = "connect" /\ s = "login" /\ cli = <<"CONNECT", "OK">> /\ srv = <<>>
  \/ c = "greeting" /\ s = "login" /\ cli = <<"OK">> /\ srv = <<>>
  \/ c = "login" /\ s = "login" /\ cli = <<>> /\ srv = <<>>
  \/ c = "login?" /\ s = "login" /\ cli = <<>> /\ \E l \in Addresses \cup {"blank"} : srv = <<l>>
  \/ c = "login?" /\ s = "ready" /\ cli = <<"OK", "OK">> /\ srv = <<>>
  \/ c = "login?" /\ s = "password" /\ cli = <<"PASSWORD_REQUIRED">> /\ srv = <<>>
  \/ c = "password" /\ s = "password" /\ cli = <<>> /\ srv = <<>>
  \/ c = "await" /\ s = "password" /\ cli = <<>> /\ srv = <<"password">>
  \/ c = "await" /\ s = "ready" /\ cli = <<>> /\ \E r \in Requests \cup {"quit"} : srv = <<r>>
  \/ c = "await" /\ s = "ready" /\ srv = <<>> /\ \E r \in Replies : cli = <<r>>
  \/ c = "await" /\ s = "running" /\ cli = <<>> /\ srv = <<>>
  \/ c = "await" /\ s \in {"permPut", "permRun"} /\ cli = <<"TEST_FILE_PERMISSIONS">> /\ srv = <<>>
  \/ c = "await" /\ s \in {"permPut", "permRun"} /\ cli = <<>>
     /\ \E a \in {"granted", "denied"} : srv = <<a>>
  \/ c = "await" /\ s = "more" /\ cli = <<"MORE_INPUT_REQUIRED">> /\ srv = <<>>
  \/ c = "await" /\ s = "more" /\ ~eval /\ cli = <<"OK">> /\ srv = <<>>
  \/ c = "await" /\ s = "more" /\ ~eval /\ cli = <<>> /\ srv = <<"text">>
  \/ c = "await" /\ s = "more" /\ eval /\ cli = <<>> /\ srv = <<".">>
  \/ c = "type" /\ s = "ready" /\ cli = <<>> /\ srv = <<>>
  \/ c = "type" /\ s = "more" /\ ~eval /\ cli = <<>> /\ srv = <<>>

Ending(cli)    == cli = <<>> \/ \E f \in Farewells : cli = <<f>>
Behind(r, cli) == cli = <<r>> \/ \E f \in Farewells : cli = <<r, f>>

\* What a server that has gone may have left to be read.
Last(c, s, cli, srv) ==
  /\ s \in Closed /\ srv = <<>>
  /\ \/ c = "connect" /\ (cli = <<>> \/ (\E r \in Refusals : cli = <<"CONNECT", r>>)
                          \/ \E f \in Farewells : cli = <<"CONNECT", "OK", f>>)
     \/ c = "greeting" /\ (cli = <<>> \/ Behind("OK", cli) \/ \E r \in Refusals : cli = <<r>>)
     \/ c \in {"login", "password", "type"} /\ Ending(cli)
     \/ c = "login?" /\ (cli = <<"PEER_UNAVAIL">> \/ (\E f \in Farewells : cli = <<"OK", "OK", f>>)
                         \/ Behind("PASSWORD_REQUIRED", cli) \/ Ending(cli))
     \/ c = "await" /\ (Ending(cli)
                        \/ \E r \in Replies \cup {"TEST_FILE_PERMISSIONS", "MORE_INPUT_REQUIRED"} :
                             Behind(r, cli))

Joint(c, eval, s, cli, srv) ==
  \/ c = "gone"
  \/ c = "none" /\ s = "none" /\ cli = <<>> /\ srv = <<>> /\ eval
  \/ Turns(c, eval, s, cli, srv) /\ (s # "more" => eval)
  \/ Last(c, s, cli, srv)

Agree(u) == Joint(client[u].pc, client[u].eval, server[u].pc, toCli[u], toSrv[u])

\* Where a client and what serves it can be.
ClientPcs == {"none", "connect", "greeting", "login", "login?", "password", "await", "type", "gone"}
ServerPcs == {"none", "starting", "login", "password", "ready", "more", "permPut", "permRun",
              "running"} \cup Closed
Signals   == Timers \cup {"ABORT_SIG"}
Served    == [pc : ServerPcs, part : BOOLEAN, file : BOOLEAN, blocked : SUBSET Timers,
              pend : SUBSET Signals, status : {"plain", "system"}]
Guest     == [pc : ClientPcs, eval : BOOLEAN, lines : Nat]

SessionType ==
  /\ server \in [Users -> Served] /\ client \in [Users -> Guest]
  /\ DOMAIN toCli = Users /\ DOMAIN toSrv = Users
  /\ toCli = [u \in Users |-> toCli[u]] /\ toSrv = [u \in Users |-> toSrv[u]]

-----------------------------------------------------------------------------
(* Short sequences *)

LEMMA TwoIs == \A a, b : <<a>> \o <<b>> = <<a, b>>
<1> TAKE a, b
<1>1. <<a>> \in Seq({a, b}) /\ <<b>> \in Seq({a, b}) /\ <<a, b>> \in Seq({a, b})
  OBVIOUS
<1>2. Len(<<a>> \o <<b>>) = 2 /\ (<<a>> \o <<b>>) \in Seq({a, b})
  BY <1>1, ConcatProperties
<1>3. \A i \in 1..2 : (<<a>> \o <<b>>)[i] = <<a, b>>[i]
  BY <1>1, ConcatProperties
<1> QED
  BY <1>1, <1>2, <1>3, SeqEqual

LEMMA ThreeIs == \A a, b, c : <<a, b>> \o <<c>> = <<a, b, c>>
<1> TAKE a, b, c
<1> DEFINE S == {a, b, c}
<1>1. <<a, b>> \in Seq(S) /\ <<c>> \in Seq(S) /\ <<a, b, c>> \in Seq(S)
  OBVIOUS
<1>2. Len(<<a, b>> \o <<c>>) = 3 /\ (<<a, b>> \o <<c>>) \in Seq(S)
  BY <1>1, ConcatProperties
<1>3. \A i \in 1..3 : (<<a, b>> \o <<c>>)[i] = <<a, b, c>>[i]
  BY <1>1, ConcatProperties
<1> QED
  BY <1>1, <1>2, <1>3, SeqEqual

LEMMA HeadsAndTails ==
  /\ \A a : Head(<<a>>) = a /\ Tail(<<a>>) = <<>> /\ <<a>> # <<>>
  /\ \A a, b : Head(<<a, b>>) = a /\ Tail(<<a, b>>) = <<b>> /\ <<a, b>> # <<>>
  /\ \A a, b, c : Head(<<a, b, c>>) = a /\ Tail(<<a, b, c>>) = <<b, c>> /\ <<a, b, c>> # <<>>
<1>1. \A a : Head(<<a>>) = a /\ Tail(<<a>>) = <<>> /\ <<a>> # <<>>
  OBVIOUS
<1>2. \A a, b : Head(<<a, b>>) = a /\ <<a, b>> # <<>>
  OBVIOUS
<1>3. \A a, b : Tail(<<a, b>>) = <<b>>
  OBVIOUS
<1>4. \A a, b, c : Head(<<a, b, c>>) = a /\ <<a, b, c>> # <<>>
  OBVIOUS
<1>5. \A a, b, c : Tail(<<a, b, c>>) = <<b, c>>
  OBVIOUS
<1> QED
  BY <1>1, <1>2, <1>3, <1>4, <1>5

LEMMA Said ==
  /\ \A a : <<>> \o <<a>> = <<a>> /\ Append(<<>>, a) = <<a>> /\ <<a>> \o <<>> = <<a>>
  /\ \A a, b : <<>> \o <<a, b>> = <<a, b>>
  /\ <<>> \o <<>> = <<>>
<1>1. \A a : <<>> \o <<a>> = <<a>> /\ Append(<<>>, a) = <<a>> /\ <<a>> \o <<>> = <<a>>
  OBVIOUS
<1>2. \A a, b : <<>> \o <<a, b>> = <<a, b>>
  OBVIOUS
<1>3. <<>> \o <<>> = <<>>
  OBVIOUS
<1> QED
  BY <1>1, <1>2, <1>3

-----------------------------------------------------------------------------
(* The two ends of one session *)

\* A session nothing happens to stays as it is.
LEMMA Apart ==
    ASSUME NEW u \in Users, Agree(u), client'[u] = client[u], server'[u].pc = server[u].pc,
           toCli'[u] = toCli[u], toSrv'[u] = toSrv[u]
    PROVE  Agree(u)'
  BY DEF Agree

\* With both ends there and the server still serving, somebody has the turn.
LEMMA InTurn ==
    ASSUME SessionType, NEW u \in Users, Agree(u), client[u].pc # "gone", server[u].pc \notin Closed,
           client[u].pc # "none"
    PROVE  /\ Turns(client[u].pc, client[u].eval, server[u].pc, toCli[u], toSrv[u])
           /\ server[u].pc # "more" => client[u].eval
  BY DEF Agree, Joint, Last

\* A server's client is there, or was.
LEMMA Visited ==
    ASSUME SessionType, NEW u \in Users, Agree(u), server[u].pc # "none"
    PROVE  client[u].pc # "none"
  BY DEF Agree, Joint, Last, Turns, Closed

\* A line under way is the only thing that is, and of a kind the server expects.
Expected(c, eval, s, l) ==
  \/ c = "login?" /\ s = "login" /\ l \in Addresses \cup {"blank"} /\ eval
  \/ c = "await" /\ s = "password" /\ l = "password" /\ eval
  \/ c = "await" /\ s = "ready" /\ l \in Requests \cup {"quit"} /\ eval
  \/ c = "await" /\ s \in {"permPut", "permRun"} /\ l \in {"granted", "denied"} /\ eval
  \/ c = "await" /\ s = "more" /\ l = "text" /\ ~eval
  \/ c = "await" /\ s = "more" /\ l = "." /\ eval

LEMMA Heard ==
    ASSUME SessionType, NEW u \in Users, Agree(u), client[u].pc # "gone", toSrv[u] # <<>>
    PROVE  /\ toCli[u] = <<>>
           /\ \E l : toSrv[u] = <<l>> /\ Expected(client[u].pc, client[u].eval, server[u].pc, l)
<1>1. client[u].eval \in BOOLEAN
  BY DEF SessionType, Guest
<1>2. /\ Turns(client[u].pc, client[u].eval, server[u].pc, toCli[u], toSrv[u])
      /\ server[u].pc # "more" => client[u].eval
  BY DEF Agree, Joint, Last
<1> QED
  BY <1>1, <1>2 DEF Turns, Expected

LEMMA TakesLine ==
    ASSUME SessionType, NEW u \in Users, NEW l, toSrv[u] = <<l>>
    PROVE  /\ \A L : Hears(u, L) <=> l \in L
           /\ Read(u) => toSrv'[u] = <<>>
<1>1. toSrv[u] # <<>> /\ Head(toSrv[u]) = l /\ Tail(toSrv[u]) = <<>>
  BY HeadsAndTails
<1>2. \A L : Hears(u, L) <=> l \in L
  BY <1>1 DEF Hears
<1>3. Read(u) => toSrv'[u] = <<>>
  BY <1>1 DEF Read, SessionType
<1> QED
  BY <1>2, <1>3

\* What the server says.
LEMMA Replied ==
    ASSUME SessionType, NEW u \in Users, client[u].pc # "gone", toCli[u] = <<>>
    PROVE  /\ \A a : Say(u, <<a>>) => toCli'[u] = <<a>>
           /\ \A a, b : Say(u, <<a, b>>) => toCli'[u] = <<a, b>>
<1>1. \A r : Say(u, r) => toCli'[u] = <<>> \o r
  BY DEF Say, SessionType
<1> QED
  BY <1>1, Said

LEMMA ServedNow ==
    ASSUME SessionType, NEW u \in Users
    PROVE  /\ \A s : Serve(u, s) => server'[u] = s
           /\ \A w : Serve(u, [server[u] EXCEPT !.pc = w]) => server'[u].pc = w
           /\ \A w : Busy(server[u], w).pc = w
           /\ Free(server[u]).pc = "ready"
           /\ \A t : Quit(u, t) => server'[u].pc = "done"
           /\ \A w : Process(w).pc = w
           /\ \A w : Serve(u, [server[u] EXCEPT !.part = w]) => server'[u].pc = server[u].pc
<1>1. server[u] \in Served /\ DOMAIN server = Users
  BY DEF SessionType
<1>2. \A s : Serve(u, s) => server'[u] = s
  BY <1>1 DEF Serve
<1>3. \A w : Busy(server[u], w).pc = w
  BY <1>1 DEF Served, Busy
<1>7. \A w : Serve(u, [server[u] EXCEPT !.pc = w]) => server'[u].pc = w
  BY <1>1 DEF Served, Serve
<1>4. Free(server[u]).pc = "ready" /\ \A w : Process(w).pc = w
  BY <1>1 DEF Served, Free, Process
<1>5. \A t : Quit(u, t) => server'[u].pc = "done"
  BY <1>2 DEF Quit, Process
<1>6. \A w : Serve(u, [server[u] EXCEPT !.part = w]) => server'[u].pc = server[u].pc
  BY <1>1 DEF Served, Serve
<1> QED
  BY <1>2, <1>3, <1>4, <1>5, <1>6, <1>7

LEMMA GreetAgrees ==
    ASSUME SessionType, NEW u \in Users, Agree(u), client[u].pc # "gone", Greet(u)
    PROVE  Agree(u)'
<1>1. server[u].pc = "starting" /\ client' = client /\ toSrv' = toSrv
  BY DEF Greet, At
<1>2. client[u].pc = "connect" /\ client[u].eval /\ toCli[u] = <<>> /\ toSrv[u] = <<>>
  BY <1>1 DEF Agree, Joint, Turns, Last, Closed
<1>3. toCli'[u] = <<"CONNECT", "OK">>
  BY <1>2, Replied DEF Greet
<1>4. server'[u].pc = "login"
  BY ServedNow DEF Greet
<1> QED
  BY <1>1, <1>2, <1>3, <1>4 DEF Agree, Joint, Turns
LEMMA ReadLoginAgrees ==
    ASSUME SessionType, NEW u \in Users, Agree(u), client[u].pc # "gone", ReadLogin(u)
    PROVE  Agree(u)'
<1>1. server[u].pc = "login" /\ client' = client /\ toSrv[u] # <<>> /\ Read(u)
  BY DEF ReadLogin, At, Hears
<1>2. PICK l : toSrv[u] = <<l>> /\ Expected(client[u].pc, client[u].eval, server[u].pc, l)
  BY <1>1, Heard
<1>3. toCli[u] = <<>> /\ toSrv'[u] = <<>> /\ \A L : Hears(u, L) <=> l \in L
  BY <1>1, <1>2, Heard, TakesLine
<1>4. client[u].pc = "login?" /\ client[u].eval /\ l \in {"address", "loop", "blank"}
  BY <1>1, <1>2 DEF Expected, Addresses
<1>5. CASE l = "blank"
  <2>1. Say(u, <<"OK", "OK">>) /\ Serve(u, [server[u] EXCEPT !.pc = "ready"])
    BY <1>3, <1>5 DEF ReadLogin
  <2>2. toCli'[u] = <<"OK", "OK">>
    BY <1>3, <2>1, Replied
  <2>3. server'[u].pc = "ready"
    BY <2>1, ServedNow
  <2> QED
    BY <1>1, <1>3, <1>4, <2>2, <2>3 DEF Agree, Joint, Turns
<1>6. CASE l = "address"
  <2>1. Say(u, <<"PASSWORD_REQUIRED">>) /\ Serve(u, [server[u] EXCEPT !.pc = "password"])
    BY <1>3, <1>6 DEF ReadLogin
  <2>2. toCli'[u] = <<"PASSWORD_REQUIRED">> /\ server'[u].pc = "password"
    BY <1>3, <2>1, Replied, ServedNow
  <2> QED
    BY <1>1, <1>3, <1>4, <2>2 DEF Agree, Joint, Turns
<1>7. CASE l = "loop"
  <2>1. Say(u, <<"PEER_UNAVAIL">>) /\ Quit(u, "plain")
    BY <1>3, <1>7 DEF ReadLogin
  <2>2. toCli'[u] = <<"PEER_UNAVAIL">> /\ server'[u].pc = "done"
    BY <1>3, <2>1, Replied, ServedNow
  <2> QED
    BY <1>1, <1>3, <1>4, <2>2 DEF Agree, Joint, Last, Closed
<1> QED
  BY <1>4, <1>5, <1>6, <1>7
LEMMA ReadPasswordAgrees ==
    ASSUME SessionType, NEW u \in Users, Agree(u), client[u].pc # "gone", ReadPassword(u)
    PROVE  Agree(u)'
<1>1. server[u].pc = "password" /\ client' = client /\ toSrv[u] # <<>> /\ Read(u)
  BY DEF ReadPassword, At, Hears
<1>2. PICK l : toSrv[u] = <<l>> /\ Expected(client[u].pc, client[u].eval, server[u].pc, l)
  BY <1>1, Heard
<1>3. toCli[u] = <<>> /\ toSrv'[u] = <<>> /\ \A L : Hears(u, L) <=> l \in L
  BY <1>1, <1>2, Heard, TakesLine
<1>4. client[u].pc = "await" /\ client[u].eval /\ l = "password"
  BY <1>1, <1>2 DEF Expected
<1>5. Say(u, <<"OK">>) /\ Serve(u, [server[u] EXCEPT !.pc = "ready"])
  BY <1>3, <1>4 DEF ReadPassword
<1>6. toCli'[u] = <<"OK">> /\ server'[u].pc = "ready"
  BY <1>3, <1>5, Replied, ServedNow
<1> QED
  BY <1>1, <1>3, <1>4, <1>6 DEF Agree, Joint, Turns, Replies
LEMMA ContinueAgrees ==
    ASSUME SessionType, NEW u \in Users, Agree(u), client[u].pc # "gone", Continue(u)
    PROVE  Agree(u)'
<1>1. server[u].pc = "ready" /\ client' = client /\ toSrv[u] # <<>> /\ Read(u)
  BY DEF Continue, At, Hears
<1>2. PICK l : toSrv[u] = <<l>> /\ Expected(client[u].pc, client[u].eval, server[u].pc, l)
  BY <1>1, Heard
<1>3. toCli[u] = <<>> /\ toSrv'[u] = <<>> /\ \A L : Hears(u, L) <=> l \in L
  BY <1>1, <1>2, Heard, TakesLine
<1>4. client[u].pc = "await" /\ client[u].eval /\ l \in Requests \cup {"quit"}
  BY <1>1, <1>2 DEF Expected
<1>5. toCli'[u] = <<"CONTINUED">> /\ server'[u].pc = "ready"
  BY <1>1, <1>3, Replied, ServedNow DEF Continue
<1> QED
  BY <1>1, <1>3, <1>4, <1>5 DEF Agree, Joint, Turns, Replies
LEMMA LeaveAgrees ==
    ASSUME SessionType, NEW u \in Users, Agree(u), client[u].pc # "gone", Leave(u)
    PROVE  Agree(u)'
<1>1. server[u].pc = "ready" /\ client' = client /\ toSrv[u] # <<>> /\ Read(u)
  BY DEF Leave, At, Hears
<1>2. PICK l : toSrv[u] = <<l>> /\ Expected(client[u].pc, client[u].eval, server[u].pc, l)
  BY <1>1, Heard
<1>3. toCli[u] = <<>> /\ toSrv'[u] = <<>> /\ \A L : Hears(u, L) <=> l \in L
  BY <1>1, <1>2, Heard, TakesLine
<1>4. client[u].pc = "await" /\ client[u].eval /\ l \in Requests \cup {"quit"}
  BY <1>1, <1>2 DEF Expected
<1>5. Hears(u, {"quit"})
  BY <1>3, <1>4 DEF Leave, Requests
<1>6. toCli'[u] = <<"CONN_CLOSED">> /\ server'[u].pc = "done"
  BY <1>3, <1>5, Replied, ServedNow DEF Leave
<1> QED
  BY <1>1, <1>3, <1>4, <1>6 DEF Agree, Joint, Last, Ending, Farewells, Closed
LEMMA SimpleAgrees ==
    ASSUME SessionType, NEW u \in Users, Agree(u), client[u].pc # "gone", Simple(u)
    PROVE  Agree(u)'
<1>1. server[u].pc = "ready" /\ client' = client /\ toSrv[u] # <<>> /\ Read(u)
  BY DEF Simple, At, Hears
<1>2. PICK l : toSrv[u] = <<l>> /\ Expected(client[u].pc, client[u].eval, server[u].pc, l)
  BY <1>1, Heard
<1>3. toCli[u] = <<>> /\ toSrv'[u] = <<>> /\ \A L : Hears(u, L) <=> l \in L
  BY <1>1, <1>2, Heard, TakesLine
<1>4. client[u].pc = "await" /\ client[u].eval /\ l \in Requests \cup {"quit"}
  BY <1>1, <1>2 DEF Expected
<1>5. \E r \in Replies : toCli'[u] = <<r>>
  BY <1>3, Replied DEF Simple, Replies
<1>6. server'[u].pc = "ready"
  BY ServedNow DEF Simple
<1> QED
  BY <1>1, <1>3, <1>4, <1>5, <1>6 DEF Agree, Joint, Turns
LEMMA RedirectedAgrees ==
    ASSUME SessionType, NEW u \in Users, Agree(u), client[u].pc # "gone", Redirected(u)
    PROVE  Agree(u)'
<1>1. server[u].pc = "ready" /\ client' = client /\ toSrv[u] # <<>> /\ Read(u)
  BY DEF Redirected, At, Hears
<1>2. PICK l : toSrv[u] = <<l>> /\ Expected(client[u].pc, client[u].eval, server[u].pc, l)
  BY <1>1, Heard
<1>3. toCli[u] = <<>> /\ toSrv'[u] = <<>> /\ \A L : Hears(u, L) <=> l \in L
  BY <1>1, <1>2, Heard, TakesLine
<1>4. client[u].pc = "await" /\ client[u].eval /\ l \in Requests \cup {"quit"}
  BY <1>1, <1>2 DEF Expected
<1>5. toCli'[u] = <<"TEST_FILE_PERMISSIONS">>
  BY <1>3, Replied DEF Redirected
<1>6. server'[u].pc \in {"permPut", "permRun"}
  BY ServedNow DEF Redirected
<1> QED
  BY <1>1, <1>3, <1>4, <1>5, <1>6 DEF Agree, Joint, Turns
LEMMA PutAgrees ==
    ASSUME SessionType, NEW u \in Users, Agree(u), client[u].pc # "gone", Put(u)
    PROVE  Agree(u)'
<1>1. server[u].pc = "ready" /\ client' = client /\ toSrv[u] # <<>> /\ Read(u)
  BY DEF Put, At, Hears
<1>2. PICK l : toSrv[u] = <<l>> /\ Expected(client[u].pc, client[u].eval, server[u].pc, l)
  BY <1>1, Heard
<1>3. toCli[u] = <<>> /\ toSrv'[u] = <<>> /\ \A L : Hears(u, L) <=> l \in L
  BY <1>1, <1>2, Heard, TakesLine
<1>4. client[u].pc = "await" /\ client[u].eval /\ l \in Requests \cup {"quit"}
  BY <1>1, <1>2 DEF Expected
<1>5. toCli'[u] = <<"MORE_INPUT_REQUIRED">> /\ server'[u].pc = "more"
  BY <1>3, Replied, ServedNow DEF Put
<1> QED
  BY <1>1, <1>3, <1>4, <1>5 DEF Agree, Joint, Turns
LEMMA RunAgrees ==
    ASSUME SessionType, NEW u \in Users, Agree(u), client[u].pc # "gone", Run(u)
    PROVE  Agree(u)'
<1>1. server[u].pc = "ready" /\ client' = client /\ toSrv[u] # <<>> /\ Read(u)
  BY DEF Run, At, Hears
<1>2. PICK l : toSrv[u] = <<l>> /\ Expected(client[u].pc, client[u].eval, server[u].pc, l)
  BY <1>1, Heard
<1>3. toCli[u] = <<>> /\ toSrv'[u] = <<>> /\ \A L : Hears(u, L) <=> l \in L
  BY <1>1, <1>2, Heard, TakesLine
<1>4. client[u].pc = "await" /\ client[u].eval /\ l \in Requests \cup {"quit"}
  BY <1>1, <1>2 DEF Expected
<1>5. toCli'[u] = <<>> /\ server'[u].pc = "running"
  BY <1>3, ServedNow DEF Run
<1> QED
  BY <1>1, <1>3, <1>4, <1>5 DEF Agree, Joint, Turns
LEMMA PermissionAgrees ==
    ASSUME SessionType, NEW u \in Users, Agree(u), client[u].pc # "gone", Permission(u)
    PROVE  Agree(u)'
<1>1. server[u].pc \in {"permPut", "permRun"} /\ client' = client /\ toSrv[u] # <<>>
  BY DEF Permission, At, Hears
<1>2. PICK l : toSrv[u] = <<l>> /\ Expected(client[u].pc, client[u].eval, server[u].pc, l)
  BY <1>1, Heard
<1>3. toCli[u] = <<>> /\ \A L : Hears(u, L) <=> l \in L
  BY <1>1, <1>2, Heard, TakesLine
<1>4. client[u].pc = "await" /\ client[u].eval /\ l \in {"granted", "denied"}
  BY <1>1, <1>2 DEF Expected
<1>5. toSrv'[u] = <<>>
  BY <1>2, <1>3, <1>4, TakesLine DEF Permission
<1>6. CASE Denied(u)
  <2>1. toCli'[u] = <<"OK">> /\ server'[u].pc = "ready"
    BY <1>3, <1>6, Replied, ServedNow DEF Denied
  <2> QED
    BY <1>1, <1>4, <1>5, <2>1 DEF Agree, Joint, Turns, Replies
<1>7. CASE At(u, "permPut") /\ Allowed(u)
  <2>1. toCli'[u] = <<"MORE_INPUT_REQUIRED">> /\ server'[u].pc = "more"
    BY <1>3, <1>7, Replied, ServedNow DEF Allowed
  <2> QED
    BY <1>1, <1>4, <1>5, <2>1 DEF Agree, Joint, Turns
<1>8. CASE ~At(u, "permPut") /\ Allowed(u)
  <2>1. toCli'[u] = <<>> /\ Serve(u, [server[u] EXCEPT !.pc = "running", !.file = TRUE])
    BY <1>3, <1>8 DEF Allowed
  <2>2. server'[u].pc = "running"
    BY <2>1 DEF Serve, SessionType, Served
  <2> QED
    BY <1>1, <1>4, <1>5, <2>1, <2>2 DEF Agree, Joint, Turns
<1> QED
  BY <1>6, <1>7, <1>8 DEF Permission
LEMMA MoreTextAgrees ==
    ASSUME SessionType, NEW u \in Users, Agree(u), client[u].pc # "gone", MoreText(u)
    PROVE  Agree(u)'
<1>1. server[u].pc = "more" /\ client' = client /\ toSrv[u] # <<>> /\ Read(u)
  BY DEF MoreText, At, Hears
<1>2. PICK l : toSrv[u] = <<l>> /\ Expected(client[u].pc, client[u].eval, server[u].pc, l)
  BY <1>1, Heard
<1>3. toCli[u] = <<>> /\ toSrv'[u] = <<>> /\ \A L : Hears(u, L) <=> l \in L
  BY <1>1, <1>2, Heard, TakesLine
<1>4. client[u].pc = "await" /\ ~client[u].eval
  BY <1>1, <1>2, <1>3 DEF Expected, MoreText
<1>5. toCli'[u] = <<"OK">> /\ server' = server
  BY <1>3, Replied DEF MoreText
<1> QED
  BY <1>1, <1>3, <1>4, <1>5 DEF Agree, Joint, Turns
LEMMA EndOfTextAgrees ==
    ASSUME SessionType, NEW u \in Users, Agree(u), client[u].pc # "gone", EndOfText(u)
    PROVE  Agree(u)'
<1>1. server[u].pc = "more" /\ client' = client /\ toSrv[u] # <<>> /\ Read(u)
  BY DEF EndOfText, At, Hears
<1>2. PICK l : toSrv[u] = <<l>> /\ Expected(client[u].pc, client[u].eval, server[u].pc, l)
  BY <1>1, Heard
<1>3. toCli[u] = <<>> /\ toSrv'[u] = <<>> /\ \A L : Hears(u, L) <=> l \in L
  BY <1>1, <1>2, Heard, TakesLine
<1>4. client[u].pc = "await" /\ client[u].eval
  BY <1>1, <1>2, <1>3 DEF Expected, EndOfText
<1>5. toCli'[u] = <<>> /\ server'[u].pc = "running"
  BY <1>3, ServedNow DEF EndOfText
<1> QED
  BY <1>1, <1>3, <1>4, <1>5 DEF Agree, Joint, Turns
LEMMA AnswerAgrees ==
    ASSUME SessionType, NEW u \in Users, Agree(u), client[u].pc # "gone", Answer(u)
    PROVE  Agree(u)'
<1>1. server[u].pc = "running" /\ client' = client /\ toSrv' = toSrv
  BY DEF Answer, At
<1>2. client[u].pc = "await" /\ client[u].eval /\ toCli[u] = <<>> /\ toSrv[u] = <<>>
  BY <1>1 DEF Agree, Joint, Turns, Last, Closed
<1>3. \E r \in Replies : toCli'[u] = <<r>>
  BY <1>2, Replied DEF Answer, Replies
<1>4. server'[u].pc = "ready"
  BY ServedNow DEF Answer
<1> QED
  BY <1>1, <1>2, <1>3, <1>4 DEF Agree, Joint, Turns
LEMMA ListprocFailsAgrees ==
    ASSUME SessionType, NEW u \in Users, Agree(u), client[u].pc # "gone", ListprocFails(u)
    PROVE  Agree(u)'
<1>1. server[u].pc = "running" /\ client' = client /\ toSrv' = toSrv
  BY DEF ListprocFails, At
<1>2. client[u].pc = "await" /\ client[u].eval /\ toCli[u] = <<>> /\ toSrv[u] = <<>>
  BY <1>1 DEF Agree, Joint, Turns, Last, Closed
<1>3. toCli'[u] = <<"CONN_CLOSED">> /\ server'[u].pc = "done"
  BY <1>2, Replied, ServedNow DEF ListprocFails
<1> QED
  BY <1>1, <1>2, <1>3 DEF Agree, Joint, Last, Ending, Farewells, Closed
LEMMA CloseConnectionAgrees ==
    ASSUME SessionType, NEW u \in Users, Agree(u), client[u].pc # "gone", CloseConnection(u)
    PROVE  Agree(u)'
<1>1. client' = client /\ toSrv'[u] = <<>> /\ server'[u].pc = "done" /\ server[u].pc \notin Closed \cup {"none"}
  BY ServedNow DEF CloseConnection, SessionType, Serves
<1>2. Turns(client[u].pc, client[u].eval, server[u].pc, toCli[u], toSrv[u])
  BY <1>1, InTurn, Visited
<1>3. CASE server[u].pc = "starting"
  <2>1. client[u].pc = "connect" /\ toCli[u] = <<>>
    BY <1>2, <1>3 DEF Turns
  <2>2. toCli'[u] = <<>>
    BY <1>3, <2>1, Said DEF CloseConnection, Say, SessionType
  <2> QED
    BY <1>1, <2>1, <2>2 DEF Agree, Joint, Last, Closed
<1>4. CASE server[u].pc # "starting"
  <2>1. PICK f \in Farewells : Say(u, <<f>>)
    BY <1>4 DEF CloseConnection, Farewells
  <2>2. toCli'[u] = toCli[u] \o <<f>>
    BY <2>1 DEF Say, SessionType
  <2>3. ASSUME toCli[u] = <<>> PROVE Last(client[u].pc, "done", toCli'[u], <<>>)
    <3>1. toCli'[u] = <<f>> /\ client[u].pc \notin {"none", "gone"}
      BY <1>1, <1>2, <2>2, <2>3, Said DEF Turns
    <3>2. CASE client[u].pc \in {"login", "password", "type", "login?", "await"}
      BY <1>1, <3>1, <3>2 DEF Last, Ending, Closed
    <3> QED
      BY <1>1, <1>2, <1>4, <2>3, <3>2 DEF Turns
  <2>4. ASSUME \E a : toCli[u] = <<a>> PROVE Last(client[u].pc, "done", toCli'[u], <<>>)
    <3>1. PICK a : toCli[u] = <<a>>
      BY <2>4
    <3>2. toCli'[u] = <<a, f>>
      BY <2>2, <3>1, TwoIs
    <3>3. \/ client[u].pc = "greeting" /\ a = "OK"
          \/ client[u].pc = "login?" /\ a = "PASSWORD_REQUIRED"
          \/ client[u].pc = "await" /\ a \in Replies \cup {"TEST_FILE_PERMISSIONS", "MORE_INPUT_REQUIRED"}
      BY <1>2, <3>1 DEF Turns, Replies
    <3> QED
      BY <1>1, <3>2, <3>3 DEF Last, Behind, Closed
  <2>5. ASSUME \E a, b : toCli[u] = <<a, b>> PROVE Last(client[u].pc, "done", toCli'[u], <<>>)
    <3>1. PICK a, b : toCli[u] = <<a, b>>
      BY <2>5
    <3>2. toCli'[u] = <<a, b, f>>
      BY <2>2, <3>1, ThreeIs
    <3>3. \/ client[u].pc = "connect" /\ a = "CONNECT" /\ b = "OK"
          \/ client[u].pc = "login?" /\ a = "OK" /\ b = "OK"
      BY <1>2, <3>1 DEF Turns
    <3> QED
      BY <1>1, <3>2, <3>3 DEF Last, Closed
  <2>6. toCli[u] = <<>> \/ (\E a : toCli[u] = <<a>>) \/ \E a, b : toCli[u] = <<a, b>>
    BY <1>2 DEF Turns
  <2>7. Last(client[u].pc, "done", toCli'[u], <<>>)
    BY <2>3, <2>4, <2>5, <2>6
  <2> QED
    BY <1>1, <2>7 DEF Agree, Joint
<1> QED
  BY <1>3, <1>4
\* Who hangs up has nothing to agree about any more.
LEMMA AwayAgrees ==
    ASSUME SessionType, NEW u \in Users, Away(u)
    PROVE  Agree(u)'
<1>1. client'[u].pc = "gone"
  BY DEF Away, Person, SessionType
<1> QED
  BY <1>1 DEF Agree, Joint

\* A line that is sent while nothing is under way.
LEMMA Sent ==
    ASSUME SessionType, NEW u \in Users, NEW l, Sends(u, l), toSrv[u] = <<>>
    PROVE  toSrv'[u] = IF server[u].pc \in Closed THEN <<>> ELSE <<l>>
  BY Said DEF Sends, SessionType

\* Where a client goes.
LEMMA Goes ==
    ASSUME SessionType, NEW u \in Users, NEW w, ToClient(u, w)
    PROVE  client'[u].pc = w /\ client'[u].eval = client[u].eval
  BY DEF ToClient, SessionType, Guest

LEMMA Reading ==
    ASSUME NEW r, NEW q, Behind(r, q)
    PROVE  Head(q) = r /\ Ending(Tail(q))
<1>1. CASE q = <<r>>
  BY <1>1, HeadsAndTails DEF Ending
<1>2. CASE \E f \in Farewells : q = <<r, f>>
  <2>1. PICK f \in Farewells : q = <<r, f>>
    BY <1>2
  <2>2. Head(q) = r /\ Tail(q) = <<f>>
    BY <2>1, HeadsAndTails
  <2> QED
    BY <2>2 DEF Ending
<1> QED
  BY <1>1, <1>2 DEF Behind

LEMMA LoginAgrees ==
    ASSUME SessionType, conf \in Settings, NEW u \in Users, Agree(u), Login(u)
    PROVE  Agree(u)'
<1>1. PICK l \in conf.logins : Types(u, l, "login?")
  BY DEF Login
<1>2. l \in Addresses \cup {"blank"}
  BY <1>1, SettingsAssumption
<1>3. client[u].pc = "login" /\ server' = server /\ toCli' = toCli
  BY <1>1 DEF Login, Types
<1>4. client'[u].pc = "login?" /\ client'[u].eval = client[u].eval
  BY <1>1, Goes DEF Types
<1>5. toSrv[u] = <<>>
  BY <1>3 DEF Agree, Joint, Turns, Last
<1>6. toSrv'[u] = IF server[u].pc \in Closed THEN <<>> ELSE <<l>>
  BY <1>1, <1>5, Sent DEF Types
<1>7. CASE server[u].pc \in Closed
  <2>1. Ending(toCli[u])
    BY <1>3, <1>7 DEF Agree, Joint, Turns, Last, Closed
  <2> QED
    BY <1>3, <1>4, <1>6, <1>7, <2>1 DEF Agree, Joint, Last
<1>8. CASE server[u].pc \notin Closed
  <2>1. server[u].pc = "login" /\ client[u].eval /\ toCli[u] = <<>>
    BY <1>3, <1>8 DEF Agree, Joint, Turns, Last
  <2> QED
    BY <1>2, <1>3, <1>4, <1>6, <1>8, <2>1 DEF Agree, Joint, Turns
<1> QED
  BY <1>7, <1>8
LEMMA PasswordAgrees ==
    ASSUME SessionType, conf \in Settings, NEW u \in Users, Agree(u), Password(u)
    PROVE  Agree(u)'
<1>1. client[u].pc = "password" /\ server' = server /\ toCli' = toCli
  BY DEF Password, Types
<1>2. client'[u].pc = "await" /\ client'[u].eval = client[u].eval
  BY Goes DEF Password, Types
<1>3. toSrv[u] = <<>>
  BY <1>1 DEF Agree, Joint, Turns, Last
<1>4. toSrv'[u] = IF server[u].pc \in Closed THEN <<>> ELSE <<"password">>
  BY <1>3, Sent DEF Password, Types
<1>5. CASE server[u].pc \in Closed
  <2>1. Ending(toCli[u])
    BY <1>1, <1>5 DEF Agree, Joint, Turns, Last, Closed
  <2> QED
    BY <1>1, <1>2, <1>4, <1>5, <2>1 DEF Agree, Joint, Last
<1>6. CASE server[u].pc \notin Closed
  <2>1. server[u].pc = "password" /\ client[u].eval /\ toCli[u] = <<>>
    BY <1>1, <1>6 DEF Agree, Joint, Turns, Last
  <2> QED
    BY <1>1, <1>2, <1>4, <1>6, <2>1 DEF Agree, Joint, Turns
<1> QED
  BY <1>5, <1>6
LEMMA TypeAgrees ==
    ASSUME SessionType, conf \in Settings, NEW u \in Users, Agree(u), Type(u)
    PROVE  Agree(u)'
<1>1. client[u].pc = "type" /\ server' = server /\ toCli' = toCli
  BY DEF Type
<1>2. PICK l : /\ Sends(u, l) /\ client'[u].pc = "await" /\ client'[u].eval = (client[u].eval \/ l = ".")
               /\ client[u].eval => l \in Requests \cup {"quit"}
               /\ ~client[u].eval => l \in {"text", "."}
  BY SettingsAssumption DEF Type, SessionType, Guest
<1>3. toSrv[u] = <<>>
  BY <1>1 DEF Agree, Joint, Turns, Last
<1>4. toSrv'[u] = IF server[u].pc \in Closed THEN <<>> ELSE <<l>>
  BY <1>2, <1>3, Sent
<1>5. CASE server[u].pc \in Closed
  <2>1. Ending(toCli[u])
    BY <1>1, <1>5 DEF Agree, Joint, Turns, Last, Closed
  <2> QED
    BY <1>1, <1>2, <1>4, <1>5, <2>1 DEF Agree, Joint, Last
<1>6. CASE server[u].pc \notin Closed
  <2>0. Turns("type", client[u].eval, server[u].pc, toCli[u], toSrv[u])
        /\ (server[u].pc # "more" => client[u].eval)
    BY <1>1, <1>6, InTurn
  <2>1. toCli[u] = <<>> /\ server[u].pc \in {"ready", "more"}
    BY <2>0 DEF Turns
  <2>2. CASE server[u].pc = "ready"
    <3>1. client[u].eval
      BY <2>0, <2>2
    <3> QED
      BY <1>1, <1>2, <1>4, <1>6, <2>1, <2>2, <3>1 DEF Agree, Joint, Turns
  <2>3. CASE server[u].pc = "more"
    <3>1. ~client[u].eval
      BY <2>0, <2>3 DEF Turns
    <3>2. l \in {"text", "."}
      BY <1>2, <3>1
    <3> QED
      BY <1>1, <1>2, <1>4, <1>6, <2>1, <2>3, <3>1, <3>2 DEF Agree, Joint, Turns
  <2> QED
    BY <2>1, <2>2, <2>3
<1> QED
  BY <1>5, <1>6
LEMMA OpenFileAgrees ==
    ASSUME SessionType, conf \in Settings, NEW u \in Users, Agree(u), OpenFile(u)
    PROVE  Agree(u)'
<1>1. client[u].pc = "await" /\ server' = server /\ client' = client
  BY DEF OpenFile
<1>2. toSrv[u] = <<>>
  BY <1>1, Heard DEF OpenFile
<1>3. PICK a \in {"granted", "denied"} : Sends(u, a)
  BY DEF OpenFile
<1>4. toSrv'[u] = IF server[u].pc \in Closed THEN <<>> ELSE <<a>>
  BY <1>2, <1>3, Sent
<1>5. toCli'[u] = Tail(toCli[u]) /\ toCli[u] # <<>> /\ Head(toCli[u]) = "TEST_FILE_PERMISSIONS"
  BY DEF OpenFile, SessionType
<1>6. CASE server[u].pc \in Closed
  <2>1. Last("await", server[u].pc, toCli[u], toSrv[u])
    BY <1>1, <1>6 DEF Agree, Joint, Turns, Closed
  <2>3. Head(toCli[u]) \notin Farewells
    BY <1>5 DEF Farewells
  <2>4. ~ \E f \in Farewells : toCli[u] = <<f>>
    BY <2>3, HeadsAndTails
  <2>5. \E r : Behind(r, toCli[u])
    BY <1>5, <2>1, <2>4 DEF Last, Ending
  <2>2. Ending(toCli'[u])
    BY <1>5, <2>5, Reading
  <2> QED
    BY <1>1, <1>4, <1>6, <2>2 DEF Agree, Joint, Last
<1>7. CASE server[u].pc \notin Closed
  <2>1. server[u].pc \in {"permPut", "permRun"} /\ client[u].eval /\ toCli[u] = <<"TEST_FILE_PERMISSIONS">>
    BY <1>1, <1>5, <1>7, HeadsAndTails DEF Agree, Joint, Turns, Last, Replies
  <2>2. toCli'[u] = <<>>
    BY <1>5, <2>1, HeadsAndTails
  <2> QED
    BY <1>1, <1>3, <1>4, <1>7, <2>1, <2>2 DEF Agree, Joint, Turns
<1> QED
  BY <1>6, <1>7
LEMMA ReceiveAgrees ==
    ASSUME SessionType, conf \in Settings, NEW u \in Users, Agree(u), Receive(u)
    PROVE  Agree(u)'
<1> DEFINE h == Head(toCli[u])
<1>1. /\ server' = server /\ toSrv' = toSrv /\ toCli[u] # <<>> /\ toCli'[u] = Tail(toCli[u])
      /\ client'[u].pc = After(u, h)
      /\ ~Enough(u, h) /\ h # "TEST_FILE_PERMISSIONS"
      /\ client[u].pc \in {"connect", "greeting", "login?", "await"}
  BY DEF Receive, SessionType, Guest, Awaiting
<1>4. client[u].eval \in BOOLEAN /\ client'[u].eval = (client[u].eval /\ h # "MORE_INPUT_REQUIRED")
  BY DEF Receive, SessionType, Guest
<1>5. h # "MORE_INPUT_REQUIRED" => client'[u].eval = client[u].eval
  BY <1>4
<1>6. h = "MORE_INPUT_REQUIRED" \/ ~client[u].eval => ~client'[u].eval
  BY <1>4
<1>2. CASE server[u].pc \notin Closed
  <2>1. toSrv[u] = <<>> /\ Turns(client[u].pc, client[u].eval, server[u].pc, toCli[u], toSrv[u])
        /\ (server[u].pc # "more" => client[u].eval)
    BY <1>1, <1>2, InTurn, Heard
  <2>2. CASE client[u].pc = "connect"
    <3>1. toCli[u] = <<"CONNECT", "OK">> /\ server[u].pc = "login"
      BY <1>1, <2>1, <2>2 DEF Turns
    <3>2. client'[u].pc = "greeting" /\ toCli'[u] = <<"OK">> /\ client'[u].eval
      BY <1>1, <1>5, <2>1, <2>2, <3>1, HeadsAndTails DEF After
    <3> QED
      BY <1>1, <2>1, <3>1, <3>2 DEF Agree, Joint, Turns
  <2>3. CASE client[u].pc = "greeting"
    <3>1. toCli[u] = <<"OK">> /\ server[u].pc = "login"
      BY <1>1, <2>1, <2>3 DEF Turns
    <3>2. client'[u].pc = "login" /\ toCli'[u] = <<>> /\ client'[u].eval
      BY <1>1, <1>5, <2>1, <2>3, <3>1, HeadsAndTails DEF After
    <3> QED
      BY <1>1, <2>1, <3>1, <3>2 DEF Agree, Joint, Turns
  <2>4. CASE client[u].pc = "login?" /\ server[u].pc = "ready"
    <3>1. toCli[u] = <<"OK", "OK">>
      BY <1>1, <2>1, <2>4 DEF Turns
    <3>2. client'[u].pc = "await" /\ toCli'[u] = <<"OK">> /\ client'[u].eval
      BY <1>1, <1>5, <2>1, <2>4, <3>1, HeadsAndTails DEF After
    <3> QED
      BY <1>1, <2>1, <2>4, <3>2 DEF Agree, Joint, Turns, Replies
  <2>5. CASE client[u].pc = "login?" /\ server[u].pc # "ready"
    <3>1. toCli[u] = <<"PASSWORD_REQUIRED">> /\ server[u].pc = "password"
      BY <1>1, <2>1, <2>5 DEF Turns
    <3>2. client'[u].pc = "password" /\ toCli'[u] = <<>> /\ client'[u].eval
      BY <1>1, <1>5, <2>1, <2>5, <3>1, HeadsAndTails DEF After
    <3> QED
      BY <1>1, <2>1, <3>1, <3>2 DEF Agree, Joint, Turns
  <2>6. CASE client[u].pc = "await"
    <3>1. client'[u].pc = "type"
      BY <1>1, <2>6 DEF After
    <3>2. CASE server[u].pc = "more"
      <4>1. \/ toCli[u] = <<"MORE_INPUT_REQUIRED">>
            \/ ~client[u].eval /\ toCli[u] = <<"OK">>
        BY <1>1, <2>1, <2>6, <3>2 DEF Turns
      <4>2. toCli'[u] = <<>> /\ ~client'[u].eval
        BY <1>1, <1>6, <4>1, HeadsAndTails
      <4> QED
        BY <1>1, <2>1, <3>1, <3>2, <4>2 DEF Agree, Joint, Turns
    <3>3. CASE server[u].pc # "more"
      <4>1. server[u].pc = "ready" /\ \E r \in Replies : toCli[u] = <<r>>
        BY <1>1, <2>1, <2>6, <3>3, HeadsAndTails DEF Turns
      <4>2. toCli'[u] = <<>> /\ client'[u].eval
        BY <1>1, <1>5, <2>1, <3>3, <4>1, HeadsAndTails DEF Replies
      <4> QED
        BY <1>1, <2>1, <3>1, <4>1, <4>2 DEF Agree, Joint, Turns
    <3> QED
      BY <3>2, <3>3
  <2> QED
    BY <1>1, <2>2, <2>3, <2>4, <2>5, <2>6
<1>3. CASE server[u].pc \in Closed
  <2>1. Last(client[u].pc, server[u].pc, toCli[u], toSrv[u])
    BY <1>1, <1>3 DEF Agree, Joint, Turns, Closed
  <2>2. h \notin Farewells
    BY <1>1 DEF Enough
  <2>3. ~ \E f \in Farewells : toCli[u] = <<f>>
    BY <2>2, HeadsAndTails
  <2>4. CASE client[u].pc = "connect"
    <3>1. client'[u].pc = "greeting"
      BY <1>1, <2>4 DEF After
    <3>2. CASE \E r \in Refusals : toCli[u] = <<"CONNECT", r>>
      BY <1>1, <1>3, <2>1, <3>1, <3>2, HeadsAndTails DEF Agree, Joint, Last
    <3>3. CASE \E f \in Farewells : toCli[u] = <<"CONNECT", "OK", f>>
      BY <1>1, <1>3, <2>1, <3>1, <3>3, HeadsAndTails DEF Agree, Joint, Last, Behind
    <3> QED
      BY <1>1, <2>1, <2>4, <3>2, <3>3 DEF Last
  <2>5. CASE client[u].pc = "greeting"
    <3>1. client'[u].pc = "login"
      BY <1>1, <2>5 DEF After
    <3>2. h \notin Refusals
      BY <1>1, <2>5 DEF Enough
    <3>3. Behind("OK", toCli[u])
      BY <1>1, <2>1, <2>5, <3>2, HeadsAndTails DEF Last
    <3>4. Ending(toCli'[u])
      BY <1>1, <3>3, Reading
    <3> QED
      BY <1>1, <2>1, <3>1, <3>4 DEF Agree, Joint, Last
  <2>6. CASE client[u].pc = "login?"
    <3>1. h # "PEER_UNAVAIL"
      BY <1>1, <2>6 DEF Enough
    <3>2. CASE \E f \in Farewells : toCli[u] = <<"OK", "OK", f>>
      <4>1. client'[u].pc = "await"
        BY <1>1, <2>6, <3>2, HeadsAndTails DEF After
      <4>2. Behind("OK", toCli'[u])
        BY <1>1, <3>2, HeadsAndTails DEF Behind
      <4> QED
        BY <1>1, <2>1, <4>1, <4>2 DEF Agree, Joint, Last, Replies
    <3>3. CASE Behind("PASSWORD_REQUIRED", toCli[u])
      <4>1. client'[u].pc = "password"
        BY <1>1, <2>6, <3>3, HeadsAndTails DEF After, Behind
      <4>2. Ending(toCli'[u])
        BY <1>1, <3>3, Reading
      <4> QED
        BY <1>1, <2>1, <4>1, <4>2 DEF Agree, Joint, Last
    <3> QED
      BY <1>1, <2>1, <2>3, <2>6, <3>1, <3>2, <3>3, HeadsAndTails DEF Last, Ending
  <2>7. CASE client[u].pc = "await"
    <3>1. client'[u].pc = "type"
      BY <1>1, <2>7 DEF After
    <3>2. \E r : Behind(r, toCli[u])
      BY <1>1, <2>1, <2>3, <2>7 DEF Last, Ending
    <3>3. Ending(toCli'[u])
      BY <1>1, <3>2, Reading
    <3> QED
      BY <1>1, <2>1, <3>1, <3>3 DEF Agree, Joint, Last
  <2> QED
    BY <1>1, <2>4, <2>5, <2>6, <2>7
<1> QED
  BY <1>2, <1>3
-----------------------------------------------------------------------------
(* What one session does is typed, and leaves the others alone *)

Others(u)      == Users \ {u}
CliFrame(u)    == /\ DOMAIN toCli' = Users /\ toCli' = [v \in Users |-> toCli'[v]]
                  /\ \A v \in Others(u) : toCli'[v] = toCli[v]
SrvFrame(u)    == /\ DOMAIN toSrv' = Users /\ toSrv' = [v \in Users |-> toSrv'[v]]
                  /\ \A v \in Others(u) : toSrv'[v] = toSrv[v]
ServerFrame(u) == server' \in [Users -> Served] /\ \A v \in Others(u) : server'[v] = server[v]
ClientFrame(u) == client' \in [Users -> Guest] /\ \A v \in Others(u) : client'[v] = client[v]
Frame(u)       == CliFrame(u) /\ SrvFrame(u) /\ ServerFrame(u) /\ ClientFrame(u)

LEMMA CliFrames ==
    ASSUME SessionType, NEW u \in Users
    PROVE  /\ toCli' = toCli => CliFrame(u)
           /\ \A r : Say(u, r) => CliFrame(u)
           /\ \A q : toCli' = [toCli EXCEPT ![u] = q] => CliFrame(u)
<1>1. toCli' = toCli => CliFrame(u)
  BY DEF CliFrame, SessionType, Others
<1>2. ASSUME NEW q, toCli' = [toCli EXCEPT ![u] = q] PROVE CliFrame(u)
  BY <1>2 DEF CliFrame, SessionType, Others
<1>3. ASSUME NEW r, Say(u, r) PROVE CliFrame(u)
  BY <1>3 DEF CliFrame, SessionType, Others, Say
<1> QED
  BY <1>1, <1>2, <1>3

LEMMA SrvFrames ==
    ASSUME SessionType, NEW u \in Users
    PROVE  /\ toSrv' = toSrv => SrvFrame(u)
           /\ Read(u) => SrvFrame(u)
           /\ \A l : Sends(u, l) => SrvFrame(u)
           /\ \A q : toSrv' = [toSrv EXCEPT ![u] = q] => SrvFrame(u)
<1>1. toSrv' = toSrv => SrvFrame(u)
  BY DEF SrvFrame, SessionType, Others
<1>2. ASSUME NEW q, toSrv' = [toSrv EXCEPT ![u] = q] PROVE SrvFrame(u)
  BY <1>2 DEF SrvFrame, SessionType, Others
<1>3. ASSUME NEW l, Sends(u, l) PROVE SrvFrame(u)
  BY <1>3 DEF SrvFrame, SessionType, Others, Sends
<1>4. Read(u) => SrvFrame(u)
  BY DEF SrvFrame, SessionType, Others, Read
<1> QED
  BY <1>1, <1>2, <1>3, <1>4

LEMMA ServerFrames ==
    ASSUME SessionType, NEW u \in Users
    PROVE  /\ server' = server => ServerFrame(u)
           /\ \A s \in Served : Serve(u, s) => ServerFrame(u)
           /\ \A w \in ServerPcs : Process(w) \in Served
           /\ \A w \in ServerPcs : Serve(u, [server[u] EXCEPT !.pc = w]) => ServerFrame(u)
           /\ \A w \in ServerPcs : Serve(u, Busy(server[u], w)) => ServerFrame(u)
           /\ Serve(u, Free(server[u])) => ServerFrame(u)
           /\ \A t \in {"plain", "system"} : Quit(u, t) => ServerFrame(u)
<1>1. server[u] \in Served
  BY DEF SessionType
<1>2. server' = server => ServerFrame(u)
  BY DEF ServerFrame, SessionType, Others
<1>3. ASSUME NEW s \in Served, Serve(u, s) PROVE ServerFrame(u)
  BY <1>3 DEF ServerFrame, SessionType, Others, Serve
<1>4. \A w \in ServerPcs : Process(w) \in Served
  BY DEF Process, Served
<1>5. \A w \in ServerPcs : [server[u] EXCEPT !.pc = w] \in Served
  BY <1>1 DEF Served
<1>6. \A w \in ServerPcs : Busy(server[u], w) \in Served
  BY <1>1 DEF Served, Busy
<1>7. Free(server[u]) \in Served
  BY <1>1 DEF Served, Free, Released, Timers, ServerPcs
<1>8. \A t \in {"plain", "system"} : [Process("done") EXCEPT !.status = t] \in Served
  BY DEF Process, Served, ServerPcs, Closed
<1>9. \A t \in {"plain", "system"} : Quit(u, t) => ServerFrame(u)
  BY <1>3, <1>8 DEF Quit
<1>10. \A w \in ServerPcs : Serve(u, [server[u] EXCEPT !.pc = w]) => ServerFrame(u)
  <2> TAKE w \in ServerPcs
  <2> QED
    BY <1>3, <1>5
<1>11. \A w \in ServerPcs : Serve(u, Busy(server[u], w)) => ServerFrame(u)
  BY <1>3, <1>6
<1>12. Serve(u, Free(server[u])) => ServerFrame(u)
  BY <1>3, <1>7
<1> QED
  BY <1>2, <1>3, <1>4, <1>9, <1>10, <1>11, <1>12

LEMMA ClientFrames ==
    ASSUME SessionType, NEW u \in Users
    PROVE  /\ client' = client => ClientFrame(u)
           /\ Away(u) => ClientFrame(u)
           /\ \A w \in ClientPcs : ToClient(u, w) => ClientFrame(u)
<1>1. client[u] \in Guest
  BY DEF SessionType
<1>2. client' = client => ClientFrame(u)
  BY DEF ClientFrame, SessionType, Others
<1>3. Person("gone") \in Guest
  BY DEF Person, Guest, ClientPcs
<1>4. Away(u) => ClientFrame(u)
  BY <1>3 DEF ClientFrame, SessionType, Others, Away
<1>5. \A w \in ClientPcs : [client[u] EXCEPT !.pc = w] \in Guest
  BY <1>1 DEF Guest
<1>6. ASSUME NEW w \in ClientPcs, ToClient(u, w) PROVE ClientFrame(u)
  <2>1. client' = [client EXCEPT ![u] = [client[u] EXCEPT !.pc = w]]
    BY <1>6 DEF ToClient, SessionType
  <2> QED
    BY <2>1, <1>5, <1>6 DEF ClientFrame, SessionType, Others
<1> QED
  BY <1>2, <1>4, <1>6

\* The processes of the listener.
LEMMA ReadsFrame ==
    ASSUME SessionType, NEW u \in Users, Reads(u)
    PROVE  Frame(u) /\ client' = client
<1> USE CliFrames, SrvFrames, ServerFrames, ClientFrames
<1> DEFINE Here == Frame(u) /\ client' = client
<1>1. ASSUME Greet(u) PROVE Here
  BY <1>1 DEF Frame, Greet, ServerPcs
<1>2. ASSUME ReadLogin(u) PROVE Here
  BY <1>2 DEF Frame, ReadLogin, ServerPcs
<1>3. ASSUME ReadPassword(u) PROVE Here
  BY <1>3 DEF Frame, ReadPassword, ServerPcs
<1>4. ASSUME Leave(u) PROVE Here
  BY <1>4 DEF Frame, Leave
<1>5. ASSUME Simple(u) PROVE Here
  BY <1>5 DEF Frame, Simple
<1>6. ASSUME Redirected(u) PROVE Here
  BY <1>6 DEF Frame, Redirected, ServerPcs
<1>7. ASSUME Put(u) PROVE Here
  BY <1>7 DEF Frame, Put, ServerPcs
<1>8. ASSUME Run(u) PROVE Here
  BY <1>8 DEF Frame, Run, ServerPcs
<1>9. ASSUME MoreText(u) PROVE Here
  BY <1>9 DEF Frame, MoreText
<1>10. ASSUME EndOfText(u) PROVE Here
  BY <1>10 DEF Frame, EndOfText, ServerPcs
<1>11. ASSUME Answer(u) PROVE Here
  BY <1>11 DEF Frame, Answer
<1>12. ASSUME ListprocFails(u) PROVE Here
  BY <1>12 DEF Frame, ListprocFails
<1>13. ASSUME CloseConnection(u) PROVE Here
  BY <1>13 DEF Frame, CloseConnection
<1>14. ASSUME Continue(u) PROVE Here
  <2>0. server[u] \in Served
    BY DEF SessionType
  <2>1. [server[u] EXCEPT !.part = TRUE] \in Served
    BY <2>0 DEF Served
  <2> QED
    BY <1>14, <2>1 DEF Frame, Continue
<1>15. ASSUME Allowed(u) \/ Denied(u) PROVE CliFrame(u) /\ ServerFrame(u)
  <2>0. server[u] \in Served
    BY DEF SessionType
  <2>1. [server[u] EXCEPT !.pc = "running", !.file = TRUE] \in Served
    BY <2>0 DEF Served, ServerPcs
  <2> QED
    BY <1>15, <2>1 DEF Allowed, Denied, ServerPcs
<1>16. ASSUME Permission(u) PROVE Here
  <2>1. SrvFrame(u)
    BY <1>16 DEF Permission, SessionType, SrvFrame, Others
  <2> QED
    BY <1>16, <1>15, <2>1 DEF Frame, Permission
<1>17. ASSUME Eof(u) PROVE Here
  BY <1>17, <1>15 DEF Frame, Eof
<1> QED
  BY <1>1, <1>2, <1>3, <1>4, <1>5, <1>6, <1>7, <1>8, <1>9, <1>10, <1>11, <1>12, <1>13, <1>14, <1>16, <1>17 DEF Reads

\* Only a client that has gone is not answered.
LEMMA ReadsAgree ==
    ASSUME SessionType, NEW u \in Users, Agree(u), Reads(u)
    PROVE  Agree(u)'
<1>1. CASE client[u].pc = "gone"
  BY <1>1, ReadsFrame DEF Agree, Joint
<1>2. CASE client[u].pc # "gone"
  BY <1>2, GreetAgrees, ReadLoginAgrees, ReadPasswordAgrees, ContinueAgrees, LeaveAgrees, SimpleAgrees,
     RedirectedAgrees, PutAgrees, RunAgrees, PermissionAgrees, MoreTextAgrees, EndOfTextAgrees,
     AnswerAgrees, ListprocFailsAgrees, CloseConnectionAgrees
  DEF Reads, Eof
<1> QED
  BY <1>1, <1>2

LEMMA ClientStepAgrees ==
    ASSUME SessionType, conf \in Settings, NEW u \in Users, Agree(u), ClientStep(u) \/ ClientGoesOn(u)
    PROVE  Agree(u)' /\ Frame(u) /\ server' = server
<1> USE CliFrames, SrvFrames, ServerFrames, ClientFrames
<1>1. ASSUME Login(u) PROVE Frame(u) /\ server' = server
  BY <1>1 DEF Frame, Login, Types, ClientPcs
<1>2. ASSUME Password(u) PROVE Frame(u) /\ server' = server
  BY <1>2 DEF Frame, Password, Types, ClientPcs
<1>3. ASSUME Type(u) PROVE Frame(u) /\ server' = server
  <2>1. client' \in [Users -> Guest] /\ \A v \in Others(u) : client'[v] = client[v]
    <3>1. client[u] \in Guest /\ client[u].lines \in Nat /\ client[u].eval \in BOOLEAN /\ conf.maxLines \in Nat
      BY SettingsAssumption DEF SessionType, Guest
    <3>2. PICK l : client' = [client EXCEPT ![u].pc = "await", ![u].eval = @ \/ l = ".",
                                ![u].lines = IF client[u].lines < conf.maxLines THEN @ + 1 ELSE @]
      BY <1>3 DEF Type
    <3> DEFINE e == client[u].eval \/ l = "."
               n == IF client[u].lines < conf.maxLines THEN client[u].lines + 1 ELSE client[u].lines
    <3>3. client' = [client EXCEPT ![u] = [client[u] EXCEPT !.pc = "await", !.eval = e, !.lines = n]]
      BY <3>2 DEF SessionType
    <3>4. e \in BOOLEAN /\ n \in Nat /\ "await" \in ClientPcs
      BY <3>1 DEF ClientPcs
    <3> HIDE DEF e, n
    <3>5. [client[u] EXCEPT !.pc = "await", !.eval = e, !.lines = n] \in Guest
      BY <3>1, <3>4 DEF Guest
    <3> QED
      BY <3>3, <3>5 DEF SessionType, Others
  <2> QED
    BY <1>3, <2>1 DEF Frame, Type, ClientFrame
<1>4. ASSUME Receive(u) PROVE Frame(u) /\ server' = server
  <2>1. client' \in [Users -> Guest] /\ \A v \in Others(u) : client'[v] = client[v]
    <3> DEFINE e == client[u].eval /\ Head(toCli[u]) # "MORE_INPUT_REQUIRED"
               w == After(u, Head(toCli[u]))
    <3>1. client[u] \in Guest /\ client[u].eval \in BOOLEAN
      BY DEF SessionType, Guest
    <3>2. client' = [client EXCEPT ![u].pc = w, ![u].eval = e]
      BY <1>4 DEF Receive
    <3>3. client' = [client EXCEPT ![u] = [client[u] EXCEPT !.pc = w, !.eval = e]]
      BY <3>2 DEF SessionType
    <3>4. e \in BOOLEAN /\ w \in ClientPcs
      BY <3>1 DEF After, ClientPcs
    <3> HIDE DEF e, w
    <3>5. [client[u] EXCEPT !.pc = w, !.eval = e] \in Guest
      BY <3>1, <3>4 DEF Guest
    <3> QED
      BY <3>3, <3>5 DEF SessionType, Others
  <2> QED
    BY <1>4, <2>1 DEF Frame, Receive, ClientFrame
<1>5. ASSUME OpenFile(u) PROVE Frame(u) /\ server' = server
  BY <1>5 DEF Frame, OpenFile
<1>6. ASSUME Away(u), (toSrv' = toSrv) \/ Sends(u, "__abort__")
      PROVE  Frame(u) /\ server' = server /\ Agree(u)'
  BY <1>6, AwayAgrees DEF Frame, Away
<1>7. ASSUME Farewell(u) \/ Urgent(u) \/ AbortKey(u) \/ GiveUp(u) \/ Hangup(u)
      PROVE  Frame(u) /\ server' = server /\ Agree(u)'
  BY <1>6, <1>7 DEF Farewell, Urgent, AbortKey, GiveUp, Hangup
<1> QED
  BY <1>1, <1>2, <1>3, <1>4, <1>5, <1>7, LoginAgrees, PasswordAgrees, TypeAgrees, ReceiveAgrees, OpenFileAgrees
  DEF ClientStep, ClientGoesOn

-----------------------------------------------------------------------------
(* The listener's steps keep the ends of every session in step *)

SessionInv == conf \in Settings /\ SessionType /\ \A u \in Users : Agree(u)

\* A step of one session.
LEMMA OneSession ==
    ASSUME SessionInv, NEW u \in Users, Frame(u), Agree(u)', conf' = conf
    PROVE  SessionInv'
<1>1. SessionType'
  BY DEF Frame, CliFrame, SrvFrame, ServerFrame, ClientFrame, SessionType
<1>2. ASSUME NEW v \in Others(u) PROVE Agree(v)'
  BY <1>2, Apart DEF SessionInv, Frame, CliFrame, SrvFrame, ServerFrame, ClientFrame, Others
<1> QED
  BY <1>1, <1>2 DEF SessionInv, Others

\* A step that leaves nothing but a signal.
LEMMA OnlySignals ==
    ASSUME SessionInv, UNCHANGED <<conf, client, toCli, toSrv>>, server' \in [Users -> Served],
           \A v \in Users : server'[v].pc = server[v].pc
    PROVE  SessionInv'
<1>1. SessionType'
  BY DEF SessionInv, SessionType
<1>2. ASSUME NEW v \in Users PROVE Agree(v)'
  BY <1>2, Apart DEF SessionInv
<1> QED
  BY <1>1, <1>2 DEF SessionInv

\* A client that is turned away.
LEMMA TurnedAway ==
    ASSUME SessionInv, NEW u \in Users, server[u].pc = "none", client[u].pc # "none",
           NEW code \in Refusals, CannotConnect(u, code), ListenerOnly
    PROVE  SessionInv'
<1> USE CliFrames, SrvFrames, ServerFrames, ClientFrames
<1>1. SessionType /\ Agree(u) /\ client' = client /\ toSrv' = toSrv /\ conf' = conf
  BY DEF SessionInv, ListenerOnly
<1>2. Frame(u)
  BY <1>1 DEF Frame, CannotConnect, ServerPcs, Closed
<1>3. server'[u].pc = "refused"
  BY <1>1, ServedNow DEF CannotConnect
<1>4. CASE client[u].pc = "gone"
  BY <1>1, <1>2, <1>4, OneSession DEF Agree, Joint
<1>5. CASE client[u].pc # "gone"
  <2>1. client[u].pc = "connect" /\ toCli[u] = <<>> /\ toSrv[u] = <<>>
    BY <1>1, <1>5 DEF Agree, Joint, Turns, Last, Closed
  <2>2. toCli'[u] = <<"CONNECT", code>>
    BY <1>1, <1>5, <2>1, Replied DEF CannotConnect
  <2>3. Agree(u)'
    BY <1>1, <1>3, <2>1, <2>2 DEF Agree, Joint, Last, Closed
  <2> QED
    BY <1>1, <1>2, <2>3, OneSession
<1> QED
  BY <1>4, <1>5

\* A client that is served.
LEMMA Started ==
    ASSUME SessionInv, NEW u \in Users, server[u].pc = "none", client[u].pc # "none",
           Serve(u, Process("starting")), ListenerOnly, toCli' = toCli
    PROVE  SessionInv'
<1> USE CliFrames, SrvFrames, ServerFrames, ClientFrames
<1>1. SessionType /\ Agree(u) /\ client' = client /\ toSrv' = toSrv /\ conf' = conf
  BY DEF SessionInv, ListenerOnly
<1>2. Frame(u)
  BY <1>1 DEF Frame, ServerPcs
<1>3. server'[u].pc = "starting"
  BY <1>1, ServedNow
<1>4. CASE client[u].pc = "gone"
  BY <1>1, <1>2, <1>4, OneSession DEF Agree, Joint
<1>5. CASE client[u].pc # "gone"
  <2>1. Turns(client[u].pc, client[u].eval, "none", toCli[u], toSrv[u]) /\ client[u].eval
    BY <1>1, <1>5, InTurn DEF Closed
  <2>2. client[u].pc = "connect" /\ toCli[u] = <<>> /\ toSrv[u] = <<>>
    BY <2>1 DEF Turns
  <2>3. Agree(u)'
    BY <1>1, <1>3, <2>1, <2>2 DEF Agree, Joint, Turns
  <2> QED
    BY <1>1, <1>2, <2>3, OneSession
<1> QED
  BY <1>4, <1>5

\* A process that is collected.
LEMMA Collected ==
    ASSUME SessionInv, NEW u \in Users, server[u].pc = "done",
           Serve(u, Process("reaped")), ListenerOnly, toCli' = toCli
    PROVE  SessionInv'
<1> USE CliFrames, SrvFrames, ServerFrames, ClientFrames
<1>1. SessionType /\ Agree(u) /\ client' = client /\ toSrv' = toSrv /\ conf' = conf
  BY DEF SessionInv, ListenerOnly
<1>2. Frame(u)
  BY <1>1 DEF Frame, ServerPcs, Closed
<1>3. server'[u].pc = "reaped"
  BY <1>1, ServedNow
<1>4. client[u].pc = "gone" \/ Last(client[u].pc, "done", toCli[u], toSrv[u])
  BY <1>1 DEF Agree, Joint, Turns
<1>5. Agree(u)'
  BY <1>1, <1>3, <1>4 DEF Agree, Joint, Last, Closed
<1> QED
  BY <1>1, <1>2, <1>5, OneSession

\* A signal is sent to a process of the table.
LEMMA Signalled ==
    ASSUME SessionType, NEW u \in Users, NEW g \in Signals
    PROVE  [server[u] EXCEPT !.pend = @ \cup {g}] \in Served
           /\ [server[u] EXCEPT !.pend = @ \cup {g}].pc = server[u].pc
<1>1. server[u] \in Served
  BY DEF SessionType
<1>2. (server[u].pend \cup {g}) \in SUBSET Signals
  BY <1>1 DEF Served
<1> QED
  BY <1>1, <1>2 DEF Served

LEMMA ExitsKeeps ==
    ASSUME SessionInv, Exits
    PROVE  SessionInv' /\ \A v \in Users : server'[v].pc = server[v].pc
<1> DEFINE s(v) == [server[v] EXCEPT !.pend = @ \cup {"ABORT_SIG"}]
<1>1. SessionType /\ UNCHANGED <<conf, client, toCli, toSrv>>
  BY DEF SessionInv, Exits
<1>2. \A v \in Users : s(v) \in Served /\ s(v).pc = server[v].pc
  BY <1>1, Signalled DEF Signals
<1>3. server' = [v \in Users |-> IF ChildAlive(v) /\ Serves(v) THEN s(v) ELSE server[v]]
  BY DEF Exits
<1>4. \A v \in Users : server[v] \in Served
  BY <1>1 DEF SessionType
<1> HIDE DEF s
<1>5. \A v \in Users : server'[v] \in Served /\ server'[v].pc = server[v].pc
  BY <1>2, <1>3, <1>4
<1>6. server' \in [Users -> Served]
  BY <1>3, <1>5
<1> QED
  BY <1>1, <1>5, <1>6, OnlySignals

LEMMA SessionSteps ==
    ASSUME SessionInv, NEW u \in Users,
           Session(u) \/ Clock(u) \/ Human(u) \/ Ilp(u) \/ Connect(u) \/ Reset(u)
    PROVE  SessionInv'
<1>1. SessionType /\ conf \in Settings /\ Agree(u)
  BY DEF SessionInv
<1>2. CASE Session(u)
  BY <1>1, <1>2, ReadsAgree, ReadsFrame, OneSession DEF Session
<1>3. CASE Clock(u)
  <2> DEFINE s == [server[u] EXCEPT !.pend = @ \cup {"SIGALRM"}]
  <2>1. s \in Served /\ s.pc = server[u].pc
    BY <1>1, Signalled DEF Signals, Timers
  <2>2. UNCHANGED <<conf, client, toCli, toSrv>> /\ Serve(u, s)
    BY <1>3 DEF Clock, Alarm
  <2> HIDE DEF s
  <2>3. server' \in [Users -> Served] /\ \A v \in Users : server'[v].pc = server[v].pc
    BY <1>1, <2>1, <2>2 DEF Serve, SessionType
  <2> QED
    BY <2>2, <2>3, OnlySignals
<1>4. CASE Human(u) \/ Ilp(u)
  BY <1>1, <1>4, ClientStepAgrees, OneSession DEF Human, Ilp
<1>5. CASE Connect(u)
  <2>1. client[u].pc = "none" /\ UNCHANGED <<conf, server, toCli, toSrv>> /\ ToClient(u, "connect")
    BY <1>5 DEF Connect
  <2>2. Frame(u)
    BY <1>1, <2>1, CliFrames, SrvFrames, ServerFrames, ClientFrames DEF Frame, ClientPcs
  <2>3. server[u].pc = "none" /\ toCli[u] = <<>> /\ toSrv[u] = <<>> /\ client[u].eval
    BY <1>1, <2>1 DEF Agree, Joint, Turns, Last
  <2>4. client'[u].pc = "connect" /\ client'[u].eval = client[u].eval
    BY <1>1, <2>1, Goes
  <2>5. Agree(u)'
    BY <2>1, <2>3, <2>4 DEF Agree, Joint, Turns
  <2> QED
    BY <2>1, <2>2, <2>5, OneSession
<1>6. CASE Reset(u)
  <2>1. Away(u) /\ UNCHANGED <<conf, toSrv>>
    BY <1>6 DEF Reset
  <2>2. Frame(u)
    BY <1>1, <2>1, CliFrames, SrvFrames, ServerFrames, ClientFrames DEF Frame, Away
  <2> QED
    BY <1>1, <2>1, <2>2, AwayAgrees, OneSession
<1> QED
  BY <1>2, <1>3, <1>4, <1>5, <1>6

-----------------------------------------------------------------------------
(* The table of processes *)

Entered(u) == server[u].pc \notin {"none", "refused", "reaped"}
Listed     == 0..(nforks - 1)
Shape ==
  /\ lpc \in {"accept", "wait", "forked", "gone"} /\ nforks \in 0..conf.maxConnections
  /\ clients \in [Slots -> [pid : Users \cup {NoPid}, old : BOOLEAN]]
  /\ lpc = "wait" <=> victim # NoPid
  /\ guest # NoPid <=> lpc \in {"wait", "forked"}
  /\ faults \in 0..conf.maxFaults

\* The table holds the processes, each once; there is room for the one being
\* entered; and when the victim has gone there is room for the guest.
Rows ==
  /\ \A i \in Listed : clients[i].pid \in Users
  /\ \A i, j \in Listed : clients[i].pid = clients[j].pid => i = j
  /\ \A u \in Users : ChildAlive(u) <=> Entered(u) /\ ~(lpc = "forked" /\ u = guest)
  /\ lpc = "forked" => nforks < conf.maxConnections /\ guest \in Users /\ Entered(guest)
  /\ lpc = "wait" => /\ guest \in Users /\ server[guest].pc = "none" /\ client[guest].pc # "none"
                     /\ nforks = conf.maxConnections => ChildAlive(victim)
Table == lpc # "gone" => Rows

IInv == SessionInv /\ Shape /\ Table

\* Steps that neither start nor collect a process.
Quiet ==
  /\ UNCHANGED <<conf, lpc, guest, victim, nforks, faults>>
  /\ clients' \in [Slots -> [pid : Users \cup {NoPid}, old : BOOLEAN]]
  /\ \A i \in Slots : clients'[i].pid = clients[i].pid
  /\ \A u \in Users : /\ Entered(u)' = Entered(u)
                      /\ server[u].pc = "none" => server'[u].pc = "none"
                      /\ client[u].pc # "none" => client'[u].pc # "none"

LEMMA MaxType == conf \in Settings => conf.maxConnections \in Nat \ {0} /\ conf.maxFaults \in Nat
  BY SettingsAssumption

LEMMA ListedSlots ==
    ASSUME IInv
    PROVE  Listed \subseteq Slots /\ nforks \in Nat
  BY MaxType DEF IInv, SessionInv, Shape, Listed, Slots

LEMMA SamePids ==
    ASSUME IInv, nforks' = nforks, \A i \in Listed : clients'[i].pid = clients[i].pid
    PROVE  Listed' = Listed /\ \A v : ChildAlive(v)' <=> ChildAlive(v)
  BY DEF Listed, ChildAlive

LEMMA QuietKeeps ==
    ASSUME IInv, Quiet
    PROVE  Shape' /\ Table'
<1>1. Shape'
  BY DEF IInv, Quiet, Shape, Slots
<1>2. Listed \subseteq Slots /\ Listed' = Listed /\ \A v : ChildAlive(v)' <=> ChildAlive(v)
  BY ListedSlots, SamePids DEF Quiet
<1>3. \A i \in Listed : clients'[i].pid = clients[i].pid
  BY <1>2 DEF Quiet
<1>4. ASSUME Rows PROVE Rows'
  <2>1. (\A i \in Listed : clients[i].pid \in Users)'
    BY <1>2, <1>3, <1>4 DEF Rows
  <2>2. (\A i, j \in Listed : clients[i].pid = clients[j].pid => i = j)'
    BY <1>2, <1>3, <1>4 DEF Rows
  <2>3. (\A u \in Users : ChildAlive(u) <=> Entered(u) /\ ~(lpc = "forked" /\ u = guest))'
    BY <1>2, <1>4 DEF Rows, Quiet
  <2>4. (lpc = "forked" => nforks < conf.maxConnections /\ guest \in Users /\ Entered(guest))'
    BY <1>4 DEF Rows, Quiet
  <2>5. (lpc = "wait" => /\ guest \in Users /\ server[guest].pc = "none" /\ client[guest].pc # "none"
                         /\ nforks = conf.maxConnections => ChildAlive(victim))'
    BY <1>2, <1>4 DEF Rows, Quiet
  <2> QED
    BY <2>1, <2>2, <2>3, <2>4, <2>5 DEF Rows
<1> QED
  BY <1>1, <1>4 DEF IInv, Table, Quiet

\* A serving process neither appears nor is collected by what it reads.
LEMMA ReadsEntered ==
    ASSUME SessionType, NEW u \in Users, Reads(u)
    PROVE  Entered(u) /\ Entered(u)'
<1> USE ServedNow
<1> DEFINE In == server[u].pc \in ServerPcs \ {"none", "refused", "reaped"}
                 /\ server'[u].pc \in ServerPcs \ {"none", "refused", "reaped"}
<1>1. ASSUME Greet(u) PROVE In
  BY <1>1 DEF Greet, At, ServerPcs, Closed
<1>2. ASSUME ReadLogin(u) PROVE In
  BY <1>2 DEF ReadLogin, At, ServerPcs, Closed
<1>3. ASSUME ReadPassword(u) PROVE In
  BY <1>3 DEF ReadPassword, At, ServerPcs, Closed
<1>4. ASSUME Continue(u) PROVE In
  BY <1>4 DEF Continue, At, ServerPcs, Closed
<1>5. ASSUME Leave(u) PROVE In
  BY <1>5 DEF Leave, At, ServerPcs, Closed
<1>6. ASSUME Simple(u) PROVE In
  BY <1>6 DEF Simple, At, ServerPcs, Closed
<1>7. ASSUME Redirected(u) PROVE In
  BY <1>7 DEF Redirected, At, ServerPcs, Closed
<1>8. ASSUME Put(u) PROVE In
  BY <1>8 DEF Put, At, ServerPcs, Closed
<1>9. ASSUME Run(u) PROVE In
  BY <1>9 DEF Run, At, ServerPcs, Closed
<1>10. ASSUME EndOfText(u) PROVE In
  BY <1>10 DEF EndOfText, At, ServerPcs, Closed
<1>11. ASSUME Answer(u) PROVE In
  BY <1>11 DEF Answer, At, ServerPcs, Closed
<1>12. ASSUME ListprocFails(u) PROVE In
  BY <1>12 DEF ListprocFails, At, ServerPcs, Closed
<1>20. ASSUME Allowed(u) \/ Denied(u) PROVE server'[u].pc \in ServerPcs \ {"none", "refused", "reaped"}
  <2>1. server[u] \in Served
    BY DEF SessionType
  <2>2. [server[u] EXCEPT !.pc = "running", !.file = TRUE].pc = "running"
    BY <2>1 DEF Served
  <2> QED
    BY <1>20, <2>2 DEF Allowed, Denied, ServerPcs
<1>21. ASSUME Permission(u) PROVE In
  BY <1>20, <1>21 DEF Permission, At, ServerPcs
<1>22. ASSUME Eof(u) PROVE In
  BY <1>20, <1>22 DEF Eof, At, ServerPcs, Closed
<1>23. ASSUME MoreText(u) PROVE In
  BY <1>23 DEF MoreText, At, ServerPcs
<1>24. ASSUME CloseConnection(u) PROVE In
  <2>1. server[u] \in Served
    BY DEF SessionType
  <2> QED
    BY <1>24, <2>1 DEF CloseConnection, Serves, Served, ServerPcs, Closed
<1> QED
  BY <1>1, <1>2, <1>3, <1>4, <1>5, <1>6, <1>7, <1>8, <1>9, <1>10, <1>11, <1>12, <1>21, <1>22, <1>23, <1>24 DEF Reads, Entered

LEMMA SessionStepsQuiet ==
    ASSUME IInv, NEW u \in Users,
           Session(u) \/ Clock(u) \/ Human(u) \/ Ilp(u) \/ Connect(u) \/ Reset(u)
    PROVE  Quiet
<1>1. SessionType /\ conf \in Settings /\ Agree(u)
  BY DEF IInv, SessionInv
<1>2. clients \in [Slots -> [pid : Users \cup {NoPid}, old : BOOLEAN]]
  BY DEF IInv, Shape
<1>3. CASE Session(u)
  <2>1. Reads(u) /\ UNCHANGED <<conf, lpc, guest, victim, table, faults>>
    BY <1>3 DEF Session
  <2>2. Frame(u) /\ client' = client /\ Entered(u) /\ Entered(u)'
    BY <1>1, <2>1, ReadsFrame, ReadsEntered
  <2> QED
    BY <1>2, <2>1, <2>2 DEF Quiet, table, Frame, ServerFrame, Others, Entered
<1>4. CASE Clock(u)
  <2>1. server[u] \in Served
    BY <1>1 DEF SessionType
  <2>2. UNCHANGED <<conf, client, listener>> /\ Serve(u, [server[u] EXCEPT !.pend = @ \cup {"SIGALRM"}])
    BY <1>4 DEF Clock, Alarm
  <2>3. \A v \in Users : server'[v].pc = server[v].pc
    BY <1>1, <2>1, <2>2 DEF Serve, SessionType, Served
  <2> QED
    BY <1>2, <2>2, <2>3 DEF Quiet, listener, table, Entered
<1>5. CASE Human(u) \/ Ilp(u)
  <2>1. (ClientStep(u) \/ ClientGoesOn(u)) /\ UNCHANGED <<conf, listener>>
    BY <1>5 DEF Human, Ilp
  <2>2. Frame(u) /\ server' = server
    BY <1>1, <2>1, ClientStepAgrees
  <2>3. client'[u].pc # "none"
    <3>2. CASE Away(u)
      BY <1>1, <3>2 DEF Away, Person, SessionType
    <3>3. CASE Login(u) \/ Password(u) \/ Type(u) \/ Receive(u)
      <4>1. CASE Login(u) \/ Password(u)
        BY <1>1, <4>1, Goes DEF Login, Password, Types
      <4>2. CASE Type(u)
        BY <1>1, <4>2 DEF Type, SessionType, Guest
      <4>3. CASE Receive(u)
        BY <1>1, <4>3 DEF Receive, After, SessionType, Guest
      <4> QED
        BY <3>3, <4>1, <4>2, <4>3
    <3>4. CASE OpenFile(u)
      BY <3>4 DEF OpenFile
    <3> QED
      BY <2>1, <3>2, <3>3, <3>4 DEF ClientStep, ClientGoesOn, Farewell, Urgent, AbortKey, GiveUp, Hangup
  <2> QED
    BY <1>2, <2>1, <2>2, <2>3 DEF Quiet, listener, table, Frame, ClientFrame, Others, Entered
<1>6. CASE Connect(u)
  <2>1. UNCHANGED <<conf, server, listener>> /\ ToClient(u, "connect")
    BY <1>6 DEF Connect
  <2>2. client'[u].pc = "connect" /\ ClientFrame(u)
    BY <1>1, <2>1, Goes, ClientFrames DEF ClientPcs
  <2> QED
    BY <1>2, <2>1, <2>2 DEF Quiet, listener, table, ClientFrame, Others, Entered
<1>7. CASE Reset(u)
  <2>1. UNCHANGED <<conf, server, listener>> /\ Away(u)
    BY <1>7 DEF Reset, Away
  <2>2. client'[u].pc = "gone" /\ ClientFrame(u)
    BY <1>1, <2>1, ClientFrames DEF Away, Person, SessionType
  <2> QED
    BY <1>2, <2>1, <2>2 DEF Quiet, listener, table, ClientFrame, Others, Entered
<1> QED
  BY <1>3, <1>4, <1>5, <1>6, <1>7

\* A slot that is dated is not in use.
LEMMA Dated ==
    ASSUME IInv, DateSlot, nforks' = nforks
    PROVE  /\ clients' \in [Slots -> [pid : Users \cup {NoPid}, old : BOOLEAN]]
           /\ \A i \in Slots : clients'[i].pid = clients[i].pid
           /\ Listed' = Listed /\ \A v : ChildAlive(v)' <=> ChildAlive(v)
<1>1. clients \in [Slots -> [pid : Users \cup {NoPid}, old : BOOLEAN]]
  BY DEF IInv, Shape
<1>2. clients' \in [Slots -> [pid : Users \cup {NoPid}, old : BOOLEAN]]
      /\ \A i \in Slots : clients'[i].pid = clients[i].pid
  <2>1. CASE nforks \in Slots
    <3>1. clients[nforks] \in [pid : Users \cup {NoPid}, old : BOOLEAN]
      BY <1>1, <2>1
    <3>2. /\ [clients[nforks] EXCEPT !.old = FALSE] \in [pid : Users \cup {NoPid}, old : BOOLEAN]
          /\ [clients[nforks] EXCEPT !.old = FALSE].pid = clients[nforks].pid
      BY <3>1
    <3>3. clients' = [clients EXCEPT ![nforks] = [clients[nforks] EXCEPT !.old = FALSE]]
      BY <1>1, <2>1 DEF DateSlot
    <3> QED
      BY <1>1, <3>2, <3>3
  <2>2. CASE nforks \notin Slots
    BY <1>1, <2>2 DEF DateSlot
  <2> QED
    BY <2>1, <2>2
<1>3. Listed \subseteq Slots
  BY ListedSlots
<1> QED
  BY <1>2, <1>3, SamePids

\* Whom the listener may fork for is waiting, and there is room.
LEMMA Forkable ==
    ASSUME IInv, NEW u \in Users, MayFork(u)
    PROVE  /\ server[u].pc = "none" /\ client[u].pc # "none" /\ nforks < conf.maxConnections
           /\ lpc \in {"accept", "wait"}
<1>1. Rows
  BY DEF IInv, Table, MayFork
<1>2. nforks \in Nat /\ conf.maxConnections \in Nat /\ nforks <= conf.maxConnections
  BY MaxType DEF IInv, Shape, SessionInv
<1>3. CASE lpc = "accept" /\ Waiting(u) /\ nforks \in Slots
  BY <1>2, <1>3 DEF Waiting, Slots
<1>4. CASE lpc = "wait" /\ guest = u /\ ~ChildAlive(victim)
  BY <1>1, <1>2, <1>4 DEF Rows
<1> QED
  BY <1>3, <1>4 DEF MayFork

LEMMA ForkKeeps ==
    ASSUME IInv, NEW u \in Users, Fork(u)
    PROVE  IInv'
<1>1. /\ server[u].pc = "none" /\ client[u].pc # "none" /\ nforks < conf.maxConnections
      /\ lpc \in {"accept", "wait"}
  BY Forkable DEF Fork
<1>2. /\ DateSlot /\ Serve(u, Process("starting")) /\ lpc' = "forked" /\ guest' = u /\ victim' = NoPid
      /\ ListenerOnly /\ UNCHANGED <<toCli, nforks, chld, faults>> /\ conf' = conf
  BY DEF Fork, ListenerOnly
<1>3. SessionInv'
  BY <1>1, <1>2, Started DEF IInv
<1>4. /\ clients' \in [Slots -> [pid : Users \cup {NoPid}, old : BOOLEAN]]
      /\ \A i \in Slots : clients'[i].pid = clients[i].pid
      /\ Listed' = Listed /\ Listed \subseteq Slots /\ \A v : ChildAlive(v)' <=> ChildAlive(v)
  BY <1>2, Dated, ListedSlots
<1>5. Shape'
  BY <1>2, <1>4, NoPidAssumption DEF IInv, Shape, Slots
<1>6. Rows /\ lpc # "forked"
  BY <1>1 DEF IInv, Table
<1>7. server'[u].pc = "starting" /\ \A v \in Users \ {u} : server'[v] = server[v]
  BY <1>2, ServedNow, ServerFrames DEF IInv, SessionInv, ServerFrame, Others, Serve, SessionType
<1>8. Rows'
  <2>1. (\A i \in Listed : clients[i].pid \in Users)'
    BY <1>4, <1>6 DEF Rows
  <2>2. (\A i, j \in Listed : clients[i].pid = clients[j].pid => i = j)'
    BY <1>4, <1>6 DEF Rows
  <2>3. (\A v \in Users : ChildAlive(v) <=> Entered(v) /\ ~(lpc = "forked" /\ v = guest))'
    BY <1>1, <1>2, <1>4, <1>6, <1>7 DEF Rows, Entered
  <2>4. (nforks < conf.maxConnections /\ guest \in Users /\ Entered(guest))'
    BY <1>1, <1>2, <1>7 DEF Entered
  <2> QED
    BY <1>2, <2>1, <2>2, <2>3, <2>4 DEF Rows
<1> QED
  BY <1>3, <1>5, <1>8 DEF IInv, Table

\* Whoever is turned away has no process: refused or not forked.
LEMMA TurnedAwayKeeps ==
    ASSUME IInv, NEW u \in Users, NEW code \in Refusals, CannotConnect(u, code), ListenerOnly,
           server[u].pc = "none", client[u].pc # "none", lpc # "forked", lpc # "gone", nforks' = nforks,
           clients' \in [Slots -> [pid : Users \cup {NoPid}, old : BOOLEAN]],
           \A i \in Slots : clients'[i].pid = clients[i].pid,
           lpc' = "accept", guest' = NoPid, victim' = NoPid, faults' \in 0..conf.maxFaults
    PROVE  IInv'
<1>1. SessionInv' /\ conf' = conf
  BY TurnedAway DEF IInv, ListenerOnly
<1>2. Listed \subseteq Slots /\ Listed' = Listed /\ \A v : ChildAlive(v)' <=> ChildAlive(v)
  BY ListedSlots, SamePids
<1>3. Shape'
  BY <1>1 DEF IInv, Shape, Slots
<1>4. server'[u].pc = "refused" /\ \A v \in Users \ {u} : server'[v] = server[v]
  BY ServedNow DEF CannotConnect, Serve, IInv, SessionInv, SessionType
<1>5. Rows
  BY DEF IInv, Table
<1>6. Rows'
  <2>1. (\A i \in Listed : clients[i].pid \in Users)'
    BY <1>2, <1>5 DEF Rows
  <2>2. (\A i, j \in Listed : clients[i].pid = clients[j].pid => i = j)'
    BY <1>2, <1>5 DEF Rows
  <2>3. (\A v \in Users : ChildAlive(v) <=> Entered(v) /\ ~(lpc = "forked" /\ v = guest))'
    BY <1>2, <1>4, <1>5 DEF Rows, Entered
  <2> QED
    BY <2>1, <2>2, <2>3 DEF Rows
<1> QED
  BY <1>1, <1>3, <1>6 DEF IInv, Table

LEMMA TurnsAwayKeeps ==
    ASSUME IInv, NEW u \in Users, Unwanted(u) \/ Refuse(u) \/ CannotFork(u)
    PROVE  IInv'
<1>1. /\ clients \in [Slots -> [pid : Users \cup {NoPid}, old : BOOLEAN]]
      /\ lpc = "accept" => guest = NoPid /\ victim = NoPid
      /\ faults \in 0..conf.maxFaults /\ conf.maxFaults \in Nat
  BY MaxType DEF IInv, SessionInv, Shape
<1>2. CASE Unwanted(u)
  BY <1>1, <1>2, TurnedAwayKeeps DEF Unwanted, Waiting, Refusals, table
<1>3. CASE Refuse(u)
  BY <1>1, <1>3, TurnedAwayKeeps DEF Refuse, Waiting, Refusals, table
<1>4. CASE CannotFork(u)
  <2>1. /\ server[u].pc = "none" /\ client[u].pc # "none" /\ lpc \in {"accept", "wait"}
    BY <1>4, Forkable DEF CannotFork
  <2>2. /\ clients' \in [Slots -> [pid : Users \cup {NoPid}, old : BOOLEAN]]
        /\ \A i \in Slots : clients'[i].pid = clients[i].pid
    BY <1>4, Dated DEF CannotFork
  <2>3. faults' \in 0..conf.maxFaults
    BY <1>1, <1>4 DEF CannotFork
  <2>4. "SYS_ERROR" \in Refusals
    BY DEF Refusals
  <2> QED
    BY <1>4, <2>1, <2>2, <2>3, <2>4, TurnedAwayKeeps DEF CannotFork
<1> QED
  BY <1>2, <1>3, <1>4

LEMMA StoreKeeps ==
    ASSUME IInv, Store
    PROVE  IInv'
<1>1. /\ lpc = "forked" /\ clients' = [clients EXCEPT ![nforks].pid = guest] /\ nforks' = nforks + 1
      /\ lpc' = "accept" /\ guest' = NoPid /\ UNCHANGED <<conf, session, victim, faults>>
  BY DEF Store, ListenerOnly, session
<1>2. Rows /\ nforks < conf.maxConnections /\ guest \in Users /\ Entered(guest) /\ victim = NoPid
  BY <1>1 DEF IInv, Table, Rows, Shape
<1>3. /\ clients \in [Slots -> [pid : Users \cup {NoPid}, old : BOOLEAN]]
      /\ nforks \in Nat /\ nforks \in Slots /\ conf.maxConnections \in Nat
  BY <1>2, MaxType DEF IInv, Shape, SessionInv, Slots
<1>4. /\ clients' \in [Slots -> [pid : Users \cup {NoPid}, old : BOOLEAN]]
      /\ clients'[nforks].pid = guest /\ \A i \in Listed : clients'[i].pid = clients[i].pid
  <2>1. clients[nforks] \in [pid : Users \cup {NoPid}, old : BOOLEAN]
    BY <1>3
  <2>2. /\ [clients[nforks] EXCEPT !.pid = guest] \in [pid : Users \cup {NoPid}, old : BOOLEAN]
        /\ [clients[nforks] EXCEPT !.pid = guest].pid = guest
    BY <1>2, <2>1
  <2>3. clients' = [clients EXCEPT ![nforks] = [clients[nforks] EXCEPT !.pid = guest]]
    BY <1>1, <1>3
  <2>4. nforks \notin Listed
    BY <1>3 DEF Listed
  <2> QED
    BY <1>3, <2>2, <2>3, <2>4, ListedSlots
<1>5. Listed' = Listed \cup {nforks} /\ nforks \notin Listed
  BY <1>1, <1>3 DEF Listed
<1>6. \A v \in Users : ChildAlive(v)' <=> ChildAlive(v) \/ v = guest
  <2>1. \A v \in Users : ChildAlive(v)' <=> \E i \in Listed' : clients'[i].pid = v
    BY DEF ChildAlive, Listed
  <2>2. \A v \in Users : ChildAlive(v) <=> \E i \in Listed : clients[i].pid = v
    BY DEF ChildAlive, Listed
  <2> QED
    BY <1>4, <1>5, <2>1, <2>2
<1>7. SessionInv'
  <2>1. SessionType'
    BY <1>1 DEF IInv, SessionInv, SessionType, session
  <2> QED
    BY <1>1, <2>1 DEF IInv, SessionInv, session, Agree
<1>8. Shape'
  BY <1>1, <1>2, <1>3, <1>4 DEF IInv, Shape, Slots
<1>9. Rows'
  <2>1. (\A i \in Listed : clients[i].pid \in Users)'
    BY <1>2, <1>4, <1>5 DEF Rows
  <2>2. ~ChildAlive(guest)
    BY <1>1, <1>2 DEF Rows
  <2>3. (\A i, j \in Listed : clients[i].pid = clients[j].pid => i = j)'
    <3>1. \A i \in Listed : clients[i].pid # guest
      BY <2>2 DEF ChildAlive, Listed
    <3> QED
      BY <1>2, <1>4, <1>5, <3>1 DEF Rows
  <2>4. (\A v \in Users : ChildAlive(v) <=> Entered(v) /\ ~(lpc = "forked" /\ v = guest))'
    BY <1>1, <1>2, <1>6 DEF Rows, Entered, session
  <2> QED
    BY <1>1, <2>1, <2>3, <2>4 DEF Rows
<1> QED
  BY <1>7, <1>8, <1>9 DEF IInv, Table

\* The first that has timed out is in the table.
LEMMA OldestListed ==
    ASSUME IInv, TimedOut # {}, Rows
    PROVE  Oldest \in Users /\ ChildAlive(Oldest)
<1>1. TimedOut \in SUBSET Nat
  BY ListedSlots DEF TimedOut, Listed
<1>2. \E i \in TimedOut : \A j \in TimedOut : i <= j
  BY <1>1, LeastNatural
<1>3. PICK i \in TimedOut : Oldest = clients[i].pid
  BY <1>2 DEF Oldest
<1> QED
  BY <1>3 DEF TimedOut, ChildAlive, Rows, Listed

LEMMA ExpelKeeps ==
    ASSUME IInv, NEW u \in Users, Expel(u)
    PROVE  IInv'
<1>1. /\ lpc = "accept" /\ Waiting(u) /\ nforks + 1 > conf.maxConnections /\ TimedOut # {}
      /\ lpc' = "wait" /\ guest' = u /\ victim' = Oldest
      /\ UNCHANGED <<conf, client, toCli, toSrv, clients, nforks, faults>>
  BY DEF Expel, ListenerOnly, table
<1>2. Rows /\ Oldest \in Users /\ ChildAlive(Oldest) /\ SessionType
  BY <1>1, OldestListed DEF IInv, Table, SessionInv
<1>3. server' \in [Users -> Served] /\ \A v \in Users : server'[v].pc = server[v].pc
  <2>1. /\ [server[Oldest] EXCEPT !.pend = @ \cup {"TIMEOUT_SIG"}] \in Served
        /\ [server[Oldest] EXCEPT !.pend = @ \cup {"TIMEOUT_SIG"}].pc = server[Oldest].pc
    BY <1>2, Signalled DEF Signals, Timers
  <2>2. CASE Serves(Oldest)
    <3>1. server' = [server EXCEPT ![Oldest] = [server[Oldest] EXCEPT !.pend = @ \cup {"TIMEOUT_SIG"}]]
      BY <1>2, <2>2 DEF Expel, SessionType
    <3> QED
      BY <1>2, <2>1, <3>1 DEF SessionType
  <2>3. CASE ~Serves(Oldest)
    BY <1>2, <2>3 DEF Expel, SessionType
  <2> QED
    BY <2>2, <2>3
<1>4. SessionInv'
  BY <1>1, <1>3, OnlySignals DEF IInv
<1>5. Shape'
  BY <1>1, <1>2, NoPidAssumption DEF IInv, Shape, Slots
<1>6. Listed' = Listed /\ \A v : ChildAlive(v)' <=> ChildAlive(v)
  BY <1>1, SamePids
<1>7. Rows'
  <2>1. (\A i \in Listed : clients[i].pid \in Users)'
    BY <1>1, <1>2, <1>6 DEF Rows
  <2>2. (\A i, j \in Listed : clients[i].pid = clients[j].pid => i = j)'
    BY <1>1, <1>2, <1>6 DEF Rows
  <2>3. (\A v \in Users : ChildAlive(v) <=> Entered(v) /\ ~(lpc = "forked" /\ v = guest))'
    BY <1>1, <1>2, <1>3, <1>6 DEF Rows, Entered
  <2>4. (guest \in Users /\ server[guest].pc = "none" /\ client[guest].pc # "none" /\ ChildAlive(victim))'
    BY <1>1, <1>2, <1>3, <1>6 DEF Waiting
  <2> QED
    BY <1>1, <2>1, <2>2, <2>3, <2>4 DEF Rows
<1> QED
  BY <1>4, <1>5, <1>7 DEF IInv, Table

\* What is left of the table when a process is removed from it.
LEMMA RemovedRows ==
    ASSUME IInv, Rows, NEW v \in Users, ChildAlive(v), clients' = Removed(v), nforks' = nforks - 1, conf' = conf
    PROVE  /\ clients' \in [Slots -> [pid : Users \cup {NoPid}, old : BOOLEAN]]
           /\ nforks' \in 0..conf.maxConnections /\ nforks' < conf.maxConnections
           /\ (\A i \in Listed : clients[i].pid \in Users)'
           /\ (\A i, j \in Listed : clients[i].pid = clients[j].pid => i = j)'
           /\ \A w \in Users : ChildAlive(w)' <=> ChildAlive(w) /\ w # v
<1> DEFINE i == CHOOSE i \in 0..(nforks - 1) : clients[i].pid = v
           from(j) == IF j >= i THEN j + 1 ELSE j
<1>1. i \in Listed /\ clients[i].pid = v
  BY DEF ChildAlive, Listed
<1>2. clients' = [j \in Slots |-> IF j >= i /\ j < nforks - 1 THEN clients[j + 1] ELSE clients[j]]
  BY DEF Removed
<1> HIDE DEF i
<1>3. /\ nforks \in Nat /\ conf.maxConnections \in Nat /\ nforks <= conf.maxConnections /\ nforks # 0
      /\ clients \in [Slots -> [pid : Users \cup {NoPid}, old : BOOLEAN]] /\ i \in Nat
      /\ Listed \subseteq Slots
  BY <1>1, MaxType, ListedSlots DEF IInv, Shape, SessionInv, Listed
<1>4. clients' \in [Slots -> [pid : Users \cup {NoPid}, old : BOOLEAN]]
  <2>1. ASSUME NEW j \in Slots, j < nforks - 1 PROVE j + 1 \in Slots
    BY <1>3, <2>1 DEF Slots
  <2> QED
    BY <1>2, <1>3, <2>1
<1>5. nforks' \in 0..conf.maxConnections /\ nforks' < conf.maxConnections
  BY <1>3
<1>6. \A j \in Listed' : j \in Slots /\ from(j) \in Listed /\ from(j) # i /\ clients'[j] = clients[from(j)]
  BY <1>1, <1>2, <1>3 DEF Listed, Slots
<1>7. \A j, k \in Listed' : from(j) = from(k) => j = k
  BY <1>1, <1>3 DEF Listed
<1>8. \A k \in Listed : k # i => \E j \in Listed' : from(j) = k
  <2> TAKE k \in Listed
  <2> HAVE k # i
  <2>1. CASE k < i
    BY <1>1, <1>3, <2>1 DEF Listed
  <2>2. CASE k > i
    <3>1. k - 1 \in Listed' /\ from(k - 1) = k
      BY <1>1, <1>3, <2>2 DEF Listed
    <3> QED
      BY <3>1
  <2> QED
    BY <1>3, <2>1, <2>2 DEF Listed
<1> HIDE DEF from
<1>9. (\A j \in Listed : clients[j].pid \in Users)'
  BY <1>6 DEF Rows
<1>10. (\A j, k \in Listed : clients[j].pid = clients[k].pid => j = k)'
  BY <1>6, <1>7 DEF Rows
<1>11. ASSUME NEW w \in Users PROVE ChildAlive(w)' <=> ChildAlive(w) /\ w # v
  <2>1. ChildAlive(w)' <=> \E j \in Listed' : clients'[j].pid = w
    BY DEF ChildAlive, Listed
  <2>2. ChildAlive(w) <=> \E j \in Listed : clients[j].pid = w
    BY DEF ChildAlive, Listed
  <2> QED
    BY <1>1, <1>6, <1>8, <2>1, <2>2 DEF Rows
<1> QED
  BY <1>4, <1>5, <1>9, <1>10, <1>11

LEMMA CollectKeeps ==
    ASSUME IInv, NEW v \in Users, Collect(v)
    PROVE  IInv'
<1>1. /\ lpc \notin {"forked", "gone"} /\ server[v].pc = "done" /\ clients' = Removed(v)
      /\ nforks' = nforks - 1 /\ Serve(v, Process("reaped")) /\ ListenerOnly
      /\ UNCHANGED <<toCli, lpc, guest, victim, faults>> /\ UNCHANGED <<conf, client>>
  BY DEF Collect, MayCollect, ListenerOnly
<1>2. Rows /\ ChildAlive(v)
  BY <1>1 DEF IInv, Table, Rows, Entered
<1>3. /\ clients' \in [Slots -> [pid : Users \cup {NoPid}, old : BOOLEAN]]
      /\ nforks' \in 0..conf.maxConnections /\ nforks' < conf.maxConnections
      /\ (\A i \in Listed : clients[i].pid \in Users)'
      /\ (\A i, j \in Listed : clients[i].pid = clients[j].pid => i = j)'
      /\ \A w \in Users : ChildAlive(w)' <=> ChildAlive(w) /\ w # v
  BY <1>1, <1>2, RemovedRows
<1>4. SessionInv'
  BY <1>1, Collected DEF IInv
<1>5. Shape'
  BY <1>1, <1>3 DEF IInv, Shape, Slots
<1>6. server'[v].pc = "reaped" /\ \A w \in Users \ {v} : server'[w] = server[w]
  BY <1>1, ServedNow DEF Serve, IInv, SessionInv, SessionType
<1>7. Rows'
  <2>1. (\A u \in Users : ChildAlive(u) <=> Entered(u) /\ ~(lpc = "forked" /\ u = guest))'
    BY <1>1, <1>2, <1>3, <1>6 DEF Rows, Entered
  <2>2. (lpc = "wait" => guest \in Users /\ server[guest].pc = "none" /\ client[guest].pc # "none")'
    BY <1>1, <1>2, <1>6 DEF Rows
  <2>3. nforks' # conf'.maxConnections
    BY <1>1, <1>3
  <2>4. lpc' # "forked"
    BY <1>1
  <2> QED
    BY <1>3, <2>1, <2>2, <2>3, <2>4 DEF Rows
<1> QED
  BY <1>4, <1>5, <1>7 DEF IInv, Table

LEMMA EndsKeep ==
    ASSUME IInv, Interrupted \/ \E v \in Users : CollectFatal(v)
    PROVE  IInv'
<1>1. Exits /\ lpc' = "gone" /\ guest' = NoPid /\ victim' = NoPid /\ UNCHANGED <<conf, faults>>
  BY DEF Interrupted, CollectFatal, Exits
<1>2. SessionInv'
  BY <1>1, ExitsKeeps DEF IInv
<1>3. /\ clients' \in [Slots -> [pid : Users \cup {NoPid}, old : BOOLEAN]]
      /\ nforks' \in 0..conf.maxConnections
  <2>1. CASE Interrupted
    BY <2>1 DEF Interrupted, table, IInv, Shape
  <2>2. ASSUME NEW v \in Users, CollectFatal(v)
        PROVE  /\ clients' \in [Slots -> [pid : Users \cup {NoPid}, old : BOOLEAN]]
               /\ nforks' \in 0..conf.maxConnections
    <3>1. lpc \notin {"forked", "gone"} /\ server[v].pc = "done" /\ clients' = Removed(v) /\ nforks' = nforks - 1
      BY <2>2 DEF CollectFatal, MayCollect
    <3>2. Rows /\ ChildAlive(v)
      BY <3>1 DEF IInv, Table, Rows, Entered
    <3> QED
      BY <1>1, <3>1, <3>2, RemovedRows
  <2> QED
    BY <2>1, <2>2
<1>4. Shape'
  BY <1>1, <1>3 DEF IInv, Shape, Slots
<1> QED
  BY <1>1, <1>2, <1>4 DEF IInv, Table

LEMMA StillKeeps ==
    ASSUME IInv, Stop \/ Age \/ UNCHANGED vars
    PROVE  IInv'
<1>1. UNCHANGED <<conf, session, lpc, guest, victim, nforks, faults>>
  BY DEF Stop, Age, vars, listener, table
<1>2. SessionInv'
  <2>1. SessionType'
    BY <1>1 DEF IInv, SessionInv, SessionType, session
  <2> QED
    BY <1>1, <2>1 DEF IInv, SessionInv, session, Agree
<1>3. clients \in [Slots -> [pid : Users \cup {NoPid}, old : BOOLEAN]]
  BY DEF IInv, Shape
<1>4. /\ clients' \in [Slots -> [pid : Users \cup {NoPid}, old : BOOLEAN]]
      /\ \A i \in Slots : clients'[i].pid = clients[i].pid
  <2>1. CASE clients' = clients
    BY <1>3, <2>1
  <2>2. CASE Age
    <3>1. PICK i \in Listed : clients' = [clients EXCEPT ![i].old = TRUE]
      BY <2>2 DEF Age, Listed
    <3>2. i \in Slots
      BY ListedSlots
    <3>3. clients[i] \in [pid : Users \cup {NoPid}, old : BOOLEAN]
      BY <1>3, <3>2
    <3>4. /\ [clients[i] EXCEPT !.old = TRUE] \in [pid : Users \cup {NoPid}, old : BOOLEAN]
          /\ [clients[i] EXCEPT !.old = TRUE].pid = clients[i].pid
      BY <3>3
    <3>5. clients' = [clients EXCEPT ![i] = [clients[i] EXCEPT !.old = TRUE]]
      BY <1>3, <3>1, <3>2
    <3> QED
      BY <1>3, <3>2, <3>4, <3>5
  <2> QED
    BY <2>1, <2>2 DEF Stop, vars, listener, table
<1>5. Quiet
  BY <1>1, <1>4 DEF Quiet, session, Entered
<1> QED
  BY <1>2, <1>5, QuietKeeps DEF IInv

LEMMA Initially ==
    ASSUME Init
    PROVE  IInv
<1>1. conf \in Settings /\ conf.maxConnections \in Nat \ {0} /\ conf.maxFaults \in Nat
  BY MaxType DEF Init
<1>2. Process("none") \in Served /\ Process("none").pc = "none"
  BY DEF Process, Served, ServerPcs
<1>3. Person("none") \in Guest /\ Person("none").pc = "none" /\ Person("none").eval
  BY DEF Person, Guest, ClientPcs
<1>4. SessionType
  BY <1>2, <1>3 DEF Init, SessionInit, SessionType
<1>5. \A u \in Users : Agree(u)
  BY <1>2, <1>3 DEF Init, SessionInit, Agree, Joint
<1>6. Shape
  BY <1>1 DEF Init, Shape, Slot0, Slots
<1>7. Listed = {} /\ \A u : ~ChildAlive(u)
  BY DEF Init, Listed, ChildAlive
<1>8. \A u \in Users : ~Entered(u)
  BY <1>2 DEF Init, SessionInit, Entered
<1>9. Rows
  BY <1>7, <1>8 DEF Rows, Init
<1> QED
  BY <1>1, <1>4, <1>5, <1>6, <1>9 DEF IInv, SessionInv, Table

LEMMA Inductive ==
    ASSUME IInv, [Next]_vars
    PROVE  IInv'
<1>1. ASSUME NEW u \in Users,
             Session(u) \/ Clock(u) \/ Human(u) \/ Ilp(u) \/ Connect(u) \/ Reset(u)
      PROVE  IInv'
  BY <1>1, SessionSteps, SessionStepsQuiet, QuietKeeps DEF IInv
<1>2. ASSUME ListenerStep PROVE IInv'
  BY <1>2, StoreKeeps, EndsKeep, TurnsAwayKeeps, ExpelKeeps, ForkKeeps, CollectKeeps DEF ListenerStep
<1> QED
  BY <1>1, <1>2, StillKeeps DEF Next

-----------------------------------------------------------------------------
(* Little is ever under way *)

Lines == Addresses \cup Requests
         \cup {"blank", "password", "quit", "text", ".", "granted", "denied", "rest", "__abort__"}
Brief(u) ==
  /\ toSrv[u] \in Seq(Lines) /\ Len(toSrv[u]) <= 2
  /\ client[u].pc = "gone" => toCli[u] = <<>>
Briefly == \A u \in Users : Brief(u)

\* Between two that are there, at most one line or three replies.
LEMMA PresentBrief ==
    ASSUME NEW c, NEW e, NEW s, NEW cli, NEW srv, Joint(c, e, s, cli, srv), c # "gone"
    PROVE  (srv = <<>> \/ \E l \in Lines : srv = <<l>>) /\ Len(cli) <= 3
<1>1. srv = <<>> \/ \E l \in Lines : srv = <<l>>
  BY DEF Joint, Turns, Last, Lines
<1>2. \/ cli = <<>> \/ (\E x : cli = <<x>>) \/ (\E x, y : cli = <<x, y>>)
      \/ \E x, y, z : cli = <<x, y, z>>
  <2>1. CASE Turns(c, e, s, cli, srv)
    BY <2>1 DEF Turns
  <2>2. CASE Last(c, s, cli, srv)
    BY <2>2 DEF Last, Ending, Behind
  <2> QED
    BY <2>1, <2>2 DEF Joint
<1>3. Len(<<>>) = 0 /\ (\A x : Len(<<x>>) = 1) /\ (\A x, y : Len(<<x, y>>) = 2)
      /\ \A x, y, z : Len(<<x, y, z>>) = 3
  OBVIOUS
<1>4. Len(cli) <= 3
  <2> DEFINE k == Len(cli)
  <2>1. k \in {0, 1, 2, 3}
    BY <1>2, <1>3
  <2> HIDE DEF k
  <2>2. k <= 3
    BY <2>1
  <2> QED
    BY <2>2 DEF k
<1> QED
  BY <1>1, <1>4

\* What a server reads or gives up.
Shorter(q) == {q, <<>>} \cup (IF q = <<>> THEN {} ELSE {Tail(q), [q EXCEPT ![1] = "rest"]})

LEMMA NoneBrief == <<>> \in Seq(Lines) /\ Len(<<>>) <= 2
<1>1. <<>> \in Seq(Lines)
  OBVIOUS
<1>2. Len(<<>>) = 0
  OBVIOUS
<1> QED
  BY <1>1, <1>2

LEMMA ShorterBrief ==
    ASSUME NEW q \in Seq(Lines), Len(q) <= 2, NEW p \in Shorter(q)
    PROVE  p \in Seq(Lines) /\ Len(p) <= 2
<1>1. CASE p = q
  BY <1>1
<1>2. CASE p = <<>>
  BY <1>2, NoneBrief
<1>3. CASE q # <<>> /\ p = Tail(q)
  BY <1>3, HeadTailProperties
<1>4. CASE q # <<>> /\ p = [q EXCEPT ![1] = "rest"]
  <2>1. "rest" \in Lines
    BY DEF Lines
  <2>2. q # <<>> => Len(q) > 0
    BY EmptySeq
  <2> QED
    BY <1>4, <2>1, <2>2, ExceptSeq
<1> QED
  BY <1>1, <1>2, <1>3, <1>4 DEF Shorter

\* To a client that has gone nothing comes, and what it sent is only read.
LEMMA GoneReads ==
    ASSUME SessionType, NEW u \in Users, Reads(u), client[u].pc = "gone", toCli[u] = <<>>
    PROVE  toCli'[u] = <<>> /\ toSrv'[u] \in Shorter(toSrv[u])
<1>1. \A r : Say(u, r) => toCli'[u] = <<>>
  BY DEF Say, SessionType
<1>2. toCli' = toCli => toCli'[u] = <<>>
  OBVIOUS
<1>3. Read(u) /\ toSrv[u] # <<>> => toSrv'[u] \in Shorter(toSrv[u])
  BY DEF Read, Shorter, SessionType
<1>4. toSrv' = toSrv => toSrv'[u] \in Shorter(toSrv[u])
  BY DEF Shorter
<1>5. ASSUME toSrv[u] # <<>>, toSrv' = [toSrv EXCEPT ![u][1] = "rest"]
      PROVE  toSrv'[u] \in Shorter(toSrv[u])
  BY <1>5 DEF Shorter, SessionType
<1>6. toSrv' = [toSrv EXCEPT ![u] = <<>>] => toSrv'[u] \in Shorter(toSrv[u])
  BY DEF Shorter, SessionType
<1> USE <1>1, <1>2
<1>7. CASE Greet(u) \/ Answer(u) \/ ListprocFails(u)
  BY <1>4, <1>7 DEF Greet, Answer, ListprocFails
<1>8. CASE ReadLogin(u) \/ ReadPassword(u)
  BY <1>3, <1>8 DEF ReadLogin, ReadPassword, Hears
<1>9. CASE Continue(u) \/ Leave(u) \/ Simple(u) \/ Redirected(u) \/ Put(u) \/ Run(u)
  BY <1>3, <1>9 DEF Continue, Leave, Simple, Redirected, Put, Run, Hears
<1>10. CASE MoreText(u) \/ EndOfText(u)
  BY <1>3, <1>10 DEF MoreText, EndOfText, Hears
<1>11. CASE Permission(u)
  BY <1>3, <1>5, <1>11 DEF Permission, Allowed, Denied, Hears
<1>12. CASE Eof(u)
  BY <1>4, <1>12 DEF Eof, Allowed, Denied
<1>13. CASE CloseConnection(u)
  BY <1>6, <1>13 DEF CloseConnection
<1> QED
  BY <1>7, <1>8, <1>9, <1>10, <1>11, <1>12, <1>13 DEF Reads

\* Who goes takes what was to come along, and may leave a line behind.
LEMMA GoingBrief ==
    ASSUME SessionType, NEW u \in Users, Agree(u), client[u].pc # "gone", Away(u),
           toSrv' = toSrv \/ Sends(u, "__abort__")
    PROVE  Brief(u)'
<1>1. toCli'[u] = <<>>
  BY DEF Away, SessionType
<1>2. toSrv[u] = <<>> \/ \E l \in Lines : toSrv[u] = <<l>>
  BY PresentBrief DEF Agree
<1>3. toSrv[u] \in Seq(Lines) /\ Len(toSrv[u]) <= 1
  <2>1. CASE toSrv[u] = <<>>
    BY <2>1
  <2>2. ASSUME NEW l \in Lines, toSrv[u] = <<l>> PROVE toSrv[u] \in Seq(Lines) /\ Len(toSrv[u]) <= 1
    BY <2>2
  <2> QED
    BY <1>2, <2>1, <2>2
<1>4. CASE toSrv' = toSrv
  BY <1>1, <1>3, <1>4 DEF Brief
<1>5. CASE Sends(u, "__abort__")
  <2>1. "__abort__" \in Lines
    BY DEF Lines
  <2>2. toSrv'[u] = <<>> \/ toSrv'[u] = Append(toSrv[u], "__abort__")
    BY <1>5 DEF Sends, SessionType
  <2>3. Append(toSrv[u], "__abort__") \in Seq(Lines) /\ Len(Append(toSrv[u], "__abort__")) = Len(toSrv[u]) + 1
    BY <1>3, <2>1, AppendProperties
  <2>4. toSrv'[u] \in Seq(Lines) /\ Len(toSrv'[u]) <= 2
    <3>1. CASE toSrv'[u] = <<>>
      BY <3>1, NoneBrief
    <3>2. CASE toSrv'[u] = Append(toSrv[u], "__abort__")
      <4>1. Len(toSrv[u]) \in Nat
        BY <1>3, LenProperties
      <4>2. Len(toSrv'[u]) <= 2
        BY <1>3, <2>3, <3>2, <4>1
      <4> QED
        BY <2>3, <3>2, <4>2
    <3> QED
      BY <2>2, <3>1, <3>2
  <2> QED
    BY <1>1, <2>4 DEF Brief
<1> QED
  BY <1>4, <1>5

\* What may happen to a client that has gone.
Still(u) == /\ toSrv'[u] = toSrv[u] /\ client'[u].pc = client[u].pc
            /\ toCli'[u] = toCli[u] \/ toCli'[u] = <<>>

LEMMA ListenerStill ==
    ASSUME SessionType, NEW u \in Users, ListenerStep \/ Stop \/ Age \/ UNCHANGED vars
    PROVE  client' = client /\ (client[u].pc = "gone" => Still(u))
<1>1. CASE Store \/ Interrupted \/ Stop \/ Age \/ UNCHANGED vars
  BY <1>1 DEF Store, Interrupted, Exits, Stop, Age, vars, session, ListenerOnly, Still
<1>2. ASSUME NEW w \in Users, Expel(w) \/ Fork(w) \/ Collect(w) \/ CollectFatal(w)
      PROVE  client' = client /\ (client[u].pc = "gone" => Still(u))
  BY <1>2 DEF Expel, Fork, Collect, CollectFatal, Exits, ListenerOnly, Still
<1>3. ASSUME NEW w \in Users, Unwanted(w) \/ Refuse(w) \/ CannotFork(w)
      PROVE  client' = client /\ (client[u].pc = "gone" => Still(u))
  <2>1. ListenerOnly /\ \E r : Say(w, r)
    BY <1>3 DEF Unwanted, Refuse, CannotFork, CannotConnect
  <2>2. client' = client /\ toSrv' = toSrv
    BY <2>1 DEF ListenerOnly
  <2>3. client[u].pc = "gone" => toCli'[u] = toCli[u] \/ toCli'[u] = <<>>
    BY <2>1 DEF Say, SessionType
  <2> QED
    BY <2>2, <2>3 DEF Still
<1> QED
  BY <1>1, <1>2, <1>3 DEF ListenerStep

\* Who goes does it itself.
LEMMA Goers ==
    ASSUME SessionType, conf \in Settings, NEW u \in Users, client'[u].pc = "gone",
           Clock(u) \/ Human(u) \/ Ilp(u) \/ Connect(u) \/ Reset(u)
    PROVE  IF client[u].pc = "gone" THEN Still(u)
           ELSE Away(u) /\ (toSrv' = toSrv \/ Sends(u, "__abort__"))
<1>1. CASE Clock(u)
  BY <1>1 DEF Clock, Alarm, Still
<1>2. CASE Connect(u)
  BY <1>2, Goes DEF Connect
<1>3. CASE Reset(u)
  BY <1>3 DEF Reset
<1>4. CASE Login(u) \/ Password(u)
  BY <1>4, Goes DEF Login, Password, Types
<1>5. CASE Type(u)
  BY <1>5 DEF Type, SessionType, Guest
<1>6. CASE Receive(u)
  BY <1>6 DEF Receive, After, SessionType, Guest
<1>7. CASE OpenFile(u)
  BY <1>7 DEF OpenFile
<1>8. CASE Farewell(u) \/ Urgent(u) \/ AbortKey(u) \/ GiveUp(u) \/ Hangup(u)
  BY <1>8 DEF Farewell, Urgent, AbortKey, GiveUp, Hangup, Awaiting, Typing
<1> QED
  BY <1>1, <1>2, <1>3, <1>4, <1>5, <1>6, <1>7, <1>8 DEF Human, Ilp, ClientStep, ClientGoesOn

LEMMA BriefStep ==
    ASSUME IInv, Briefly, [Next]_vars, IInv'
    PROVE  Briefly'
<1> SUFFICES ASSUME NEW u \in Users PROVE Brief(u)'
  BY DEF Briefly
<1>1. SessionType /\ Agree(u) /\ Agree(u)' /\ conf \in Settings /\ Brief(u)
  BY DEF IInv, SessionInv, Briefly
<1>2. CASE client'[u].pc # "gone"
  <2>1. toSrv'[u] = <<>> \/ \E l \in Lines : toSrv'[u] = <<l>>
    BY <1>1, <1>2, PresentBrief DEF Agree
  <2>2. toSrv'[u] \in Seq(Lines) /\ Len(toSrv'[u]) <= 2
    <3>1. CASE toSrv'[u] = <<>>
      BY <3>1
    <3>2. ASSUME NEW l \in Lines, toSrv'[u] = <<l>> PROVE toSrv'[u] \in Seq(Lines) /\ Len(toSrv'[u]) <= 2
      BY <3>2
    <3> QED
      BY <2>1, <3>1, <3>2
  <2> QED
    BY <1>2, <2>2 DEF Brief
<1>3. CASE client'[u].pc = "gone"
  <2>1. ASSUME Still(u) PROVE Brief(u)'
    BY <1>1, <1>3, <2>1 DEF Brief, Still
  <2>2. CASE ListenerStep \/ Stop \/ Age \/ UNCHANGED vars
    BY <1>1, <1>3, <2>1, <2>2, ListenerStill
  <2>3. CASE Session(u)
    <3>1. Reads(u) /\ client' = client
      BY <1>1, <2>3, ReadsFrame DEF Session
    <3>2. toCli'[u] = <<>> /\ toSrv'[u] \in Shorter(toSrv[u])
      BY <1>1, <1>3, <3>1, GoneReads DEF Brief
    <3> QED
      BY <1>1, <3>2, ShorterBrief DEF Brief
  <2>4. CASE Clock(u) \/ Human(u) \/ Ilp(u) \/ Connect(u) \/ Reset(u)
    BY <1>1, <1>3, <2>1, <2>4, Goers, GoingBrief
  <2>5. ASSUME NEW w \in Users, w # u,
               Session(w) \/ Clock(w) \/ Human(w) \/ Ilp(w) \/ Connect(w) \/ Reset(w)
        PROVE  Brief(u)'
    <3>1. CASE Session(w)
      <4>1. Frame(w)
        BY <1>1, <3>1, ReadsFrame DEF Session
      <4> QED
        BY <2>1, <2>5, <4>1 DEF Frame, CliFrame, SrvFrame, ClientFrame, Others, Still
    <3>2. CASE Clock(w)
      BY <2>1, <3>2 DEF Clock, Alarm, Still
    <3>3. CASE Human(w) \/ Ilp(w)
      <4>1. Frame(w)
        BY <3>3, ClientStepAgrees DEF Human, Ilp, IInv, SessionInv
      <4> QED
        BY <2>1, <2>5, <4>1 DEF Frame, CliFrame, SrvFrame, ClientFrame, Others, Still
    <3>4. CASE Connect(w)
      BY <1>1, <2>1, <2>5, <3>4 DEF Connect, ToClient, SessionType, Still
    <3>5. CASE Reset(w)
      BY <1>1, <2>1, <2>5, <3>5 DEF Reset, Away, SessionType, Still
    <3> QED
      BY <2>5, <3>1, <3>2, <3>3, <3>4, <3>5
  <2> QED
    BY <2>2, <2>3, <2>4, <2>5 DEF Next
<1> QED
  BY <1>2, <1>3

LEMMA IInvTypeOK == IInv /\ Briefly => TypeOK
<1> SUFFICES ASSUME IInv, Briefly, NEW u \in Users
             PROVE  Len(toCli[u]) <= 3 /\ Len(toSrv[u]) <= 2
  BY DEF IInv, Shape, TypeOK
<1>1. Agree(u) /\ Brief(u)
  BY DEF IInv, SessionInv, Briefly
<1>2. CASE client[u].pc = "gone"
  BY <1>1, <1>2 DEF Brief
<1>3. CASE client[u].pc # "gone"
  BY <1>1, <1>3, PresentBrief DEF Agree, Brief
<1> QED
  BY <1>2, <1>3

\* The type invariant: the table is never longer than it may be, and never more
\* than three replies and two lines are under way in a session.
THEOREM ListenerTyping == Spec => []TypeOK
<1>1. Init => IInv /\ Briefly
  <2> SUFFICES ASSUME Init PROVE IInv /\ Briefly
    OBVIOUS
  <2>1. \A u \in Users : toSrv[u] = <<>> /\ toCli[u] = <<>>
    BY DEF Init, SessionInit
  <2> QED
    BY <2>1, Initially, NoneBrief DEF Briefly, Brief
<1>2. IInv /\ Briefly /\ [Next]_vars => IInv' /\ Briefly'
  BY Inductive, BriefStep
<1>3. IInv /\ Briefly => TypeOK
  BY IInvTypeOK
<1> QED
  BY <1>1, <1>2, <1>3, PTL DEF Spec

-----------------------------------------------------------------------------
(* What follows from it *)

LEMMA DistinctCount ==
    ASSUME NEW n \in Nat, NEW f, \A i, j \in 0..(n - 1) : f[i].pid = f[j].pid => i = j
    PROVE  Cardinality({f[i].pid : i \in 0..(n - 1)}) = n
<1> DEFINE S == 0..(n - 1)
           T == {f[i].pid : i \in S}
           g == [i \in S |-> f[i].pid]
<1>1. g \in [S -> T] /\ (\A a, b \in S : g[a] = g[b] => a = b) /\ \A t \in T : \E s \in S : g[s] = t
  OBVIOUS
<1>2. g \in Bijection(S, T)
  BY <1>1, Fun_IsBij
<1>3. ExistsBijection(S, T)
  BY <1>2 DEF ExistsBijection
<1>4. IsFiniteSet(S) /\ Cardinality(S) = n
  BY FS_Interval
<1> QED
  BY <1>3, <1>4, FS_Bijection

LEMMA IInvKept == IInv => Kept
<1> SUFFICES ASSUME IInv, lpc # "gone"
             PROVE  /\ Known = {u \in Users : server[u].pc \notin {"none", "refused", "reaped"}}
                                \ (IF lpc = "forked" THEN {guest} ELSE {})
                    /\ nforks = Cardinality(Known)
  BY DEF Kept
<1>1. Rows /\ nforks \in Nat
  BY ListedSlots DEF IInv, Table
<1>2. \A u : u \in Known <=> ChildAlive(u)
  BY DEF Known, ChildAlive
<1>3. Known \subseteq Users
  BY <1>1 DEF Known, Rows, Listed
<1>4. Known = {u \in Users : server[u].pc \notin {"none", "refused", "reaped"}}
              \ (IF lpc = "forked" THEN {guest} ELSE {})
  BY <1>1, <1>2, <1>3 DEF Rows, Entered
<1>5. nforks = Cardinality(Known)
  BY <1>1, DistinctCount DEF Known, Rows, Listed
<1> QED
  BY <1>4, <1>5

LEMMA IInvInStep == IInv => InStep
<1> SUFFICES ASSUME IInv, NEW u \in Users
             PROVE  /\ ~(Listening(u) /\ Awaiting(u) /\ toCli[u] = <<>> /\ toSrv[u] = <<>>)
                    /\ Typing(u) /\ toCli[u] # <<>> => Head(toCli[u]) \in Farewells
  BY DEF InStep
<1>1. Agree(u)
  BY DEF IInv, SessionInv
<1>2. ASSUME Listening(u), Awaiting(u), toCli[u] = <<>>, toSrv[u] = <<>> PROVE FALSE
  <2>1. Turns(client[u].pc, client[u].eval, server[u].pc, toCli[u], toSrv[u])
    BY <1>1, <1>2 DEF Agree, Joint, Last, Listening, Awaiting, Closed
  <2> QED
    BY <1>2, <2>1 DEF Turns, Listening, Awaiting
<1>3. ASSUME Typing(u), toCli[u] # <<>> PROVE Head(toCli[u]) \in Farewells
  <2>1. \E f \in Farewells : toCli[u] = <<f>>
    BY <1>1, <1>3 DEF Agree, Joint, Turns, Last, Typing, Ending
  <2> QED
    BY <2>1, HeadsAndTails
<1> QED
  BY <1>2, <1>3

\* The table of the listener holds each process that was forked and not yet
\* collected, once, but for the one being entered, however many connections it
\* allows: be_listener and sighandle of serverd.c.
THEOREM TableKept == Spec => []Kept
<1>1. Init => IInv
  BY Initially
<1>2. IInv /\ [Next]_vars => IInv'
  BY Inductive
<1>3. IInv => Kept
  BY IInvKept
<1> QED
  BY <1>1, <1>2, <1>3, PTL DEF Spec

\* process_live_request and ilp never both wait for each other with nothing under
\* way, and while a user types nothing but a farewell comes.
THEOREM EndsInStep == Spec => []InStep
<1>1. Init => IInv
  BY Initially
<1>2. IInv /\ [Next]_vars => IInv'
  BY Inductive
<1>3. IInv => InStep
  BY IInvInStep
<1> QED
  BY <1>1, <1>2, <1>3, PTL DEF Spec

=============================================================================

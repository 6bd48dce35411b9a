------------------------------ MODULE MCLetters -----------------------------
(* Mail for TLC: Outbound, mail on its way to its recipients, Confirmation,    *)
(* the letters that ask for a confirmation, MailText, their text, and          *)
(* RequestMail, the requests that come in.  A behaviour is of one of them, and *)
(* what belongs to the others stays as it was: they share no file.             *)
(*                                                                             *)
(* Outbound: two recipients, two processes so that pqueue runs while another   *)
(* one sends, a second run after the first, and a death; or three recipients,  *)
(* so that the replies to two of them come together while a third is served.   *)
(* Confirmation: two processes and two cookies, so that a purge meets a        *)
(* look-up and another purge, and days enough for a cookie to expire.          *)
(* MailText: a message with a header and any text, strings, files and words of *)
(* a program, a notice around a message and a moderator's letter around a list *)
(* of parts; and a buffer of two characters.                                   *)
(* RequestMail: two processes, one or two messages, and the checks in force    *)
(* that meet in the code: two put-off requests of different senders, a message *)
(* delivered twice, PUTs that are refused, locked out, put off or no request,  *)
(* two messages without a request, and lp2.                                    *)
EXTENDS Confirmation, TLC

CONSTANTS p1, p2, c1, c2,
          Owner, Ann, Bob, Mail1, Mail2, Mail3, Mail4, Mail5, Mail6, Id1, Id2, Sum1, Sum2

VARIABLES
  part,   \* which module the behaviour is of
  plan, client, queue, lastId, removed, received, refused, doubted, cut, orphaned, mixed, count,
  letter, stack, buf, wire,
  setting, mail, batch, ids, sums, editor, locker, busy, worker, gate, left,
  done, late, told, past

Plan(n, queueRuns, lateReplies, killed) ==
  [rcpts |-> n, runs |-> queueRuns, timeouts |-> lateReplies, deaths |-> killed]
MCPlans == {Plan(2, 2, 1, 1), Plan(3, 1, 1, 0)}

O == INSTANCE Outbound WITH proc <- client, Procs <- Workers, Plans <- MCPlans

Texts(n)  == UNION {[1..k -> {".", "n", "x"}] : k \in 0..n}
Header    == << <<"x">>, <<".">> >>
Str(t)    == [op |-> "s", text |-> t]
File(t)   == [op |-> "f", text |-> t]
Cmd       == [op |-> "p", words |-> << <<"x">>, <<".">> >>]
Inner(h, t) == [op |-> IF h = <<>> THEN "l" ELSE "m", header |-> h, body |-> <<Str(t)>>]
OneLine   == Str(<<"x", "n">>)
Dots      == Str(<<".", "n">>)
MCLetters == {[header |-> Header, body |-> b] :
                b \in {<<Str(t)>> : t \in Texts(4)}
                \cup {<<Str(t), Str(u)>> : t, u \in Texts(2)}
                \cup {<<File(t), Dots>> : t \in Texts(3)}
                \cup {<<OneLine, Inner(h, t), Dots>> : h \in {<<>>, Header}, t \in Texts(3)}
                \cup {<<OneLine, Cmd, Str(t), OneLine>> : t \in Texts(2)}}

T == INSTANCE MailText WITH Letters <- MCLetters, Size <- 2

outbound == <<plan, client, queue, lastId, removed, received, refused, doubted, cut, orphaned, mixed, count>>
requests == <<setting, mail, batch, ids, sums, editor, locker, busy, worker, gate, left,
              done, late, told, past>>
texts    == <<letter, stack, buf, wire>>
all      == <<part, cvars, outbound, texts, requests>>

M(from, id, sum, lines) == [from |-> from, id |-> id, sum |-> sum, lines |-> lines]
MCAttr == (Mail1 :> M(Ann, Id1, Sum1, <<"sub", "review", "bye", "sub">>))
       @@ (Mail2 :> M(Bob, Id2, Sum2, <<"help", "sub">>))
       @@ (Mail3 :> M(Owner, Id2, None, <<"put", "review", "sub">>))
       @@ (Mail4 :> M(Ann, Id1, Sum1, <<"word", "word">>))
       @@ (Mail5 :> M(Ann, Id2, Sum1, <<"word", "word">>))
       @@ (Mail6 :> M(Ann, Id1, None, <<"put", "sub", "review">>))

(* A message is delivered, at most one of them again, while so many changes    *)
(* and deaths happen; c is what the server's configuration says.               *)
S(arrivals, again, c, pipe, edits, deaths) ==
  [arrivals |-> arrivals, again |-> again, batched |-> c.batched, disabled |-> c.disabled,
   off |-> c.off, restricted |-> c.restricted, ignoring |-> c.ignoring, pipe |-> pipe,
   edits |-> edits, deaths |-> deaths]
Plain    == [batched |-> {}, disabled |-> {}, off |-> {}, restricted |-> {}, ignoring |-> FALSE]
Ignoring == [Plain EXCEPT !.ignoring = TRUE]
P(kind, from) == [kind |-> kind, from |-> from]
MCPipe == <<P("from", Ann), P("review", None), P("sub", None), P("from", Owner),
            P("sub", None), P("put", None), P("word", None)>>

MCSettings ==
  {S({Mail1, Mail2}, {}, [Ignoring EXCEPT !.batched = {"review"}], <<>>, 2, 0),
   S({Mail1}, {Mail1}, [Ignoring EXCEPT !.batched = {"review"}, !.restricted = {"put"}], <<>>, 1, 1),
   S({Mail3}, {}, [Ignoring EXCEPT !.off = {"put"}], <<>>, 1, 0),
   S({Mail3, Mail6}, {}, Plain, <<>>, 2, 0),
   S({Mail3, Mail1}, {}, [Plain EXCEPT !.batched = {"put"}, !.disabled = {"review"},
                                       !.restricted = {"sub"}], <<>>, 1, 0),
   S({Mail4, Mail5}, {Mail4}, Ignoring, <<>>, 0, 1),
   S({Mail4, Mail5}, {}, Plain, <<>>, 0, 1),
   S({}, {}, [Plain EXCEPT !.batched = {"review"}, !.disabled = {"sub"}, !.restricted = {"put"}],
     MCPipe, 2, 0)}

R == INSTANCE RequestMail WITH
       proc <- worker, Procs <- Workers, Attr <- MCAttr, Settings <- MCSettings,
       Messages <- {Mail1, Mail2, Mail3, Mail4, Mail5, Mail6}

MCInit ==
  /\ part \in {"outbound", "confirmation", "text", "requests"}
  /\ O!Init /\ (part = "outbound" \/ plan = Plan(2, 2, 1, 1))
  /\ CInit /\ (part = "confirmation" \/ content[name].stamp = 0)
  /\ T!TextInit /\ (part = "text" \/ letter = CHOOSE l \in MCLetters : TRUE)
  /\ R!Init /\ (part = "requests" \/ setting = CHOOSE s \in MCSettings : TRUE)

MCNext ==
  \/ part = "outbound" /\ O!Next /\ UNCHANGED <<part, cvars, texts, requests>>
  \/ part = "confirmation" /\ CNext /\ UNCHANGED <<part, outbound, texts, requests>>
  \/ part = "text" /\ T!TextNext /\ UNCHANGED <<part, cvars, outbound, requests>>
  \/ part = "requests" /\ R!Next /\ UNCHANGED <<part, cvars, outbound, texts>>

MCSpec == MCInit /\ [][MCNext]_all

\* See module Outbound.
SentOnce == O!SentOnce

\* See module RequestMail.
ActedOnce == R!ActedOnce

\* Requests are taken and texts are delivered as they were sent: see modules
\* RequestMail and MailText.
AsSent == R!AsSent /\ T!AsSent

MCSymmetry == Permutations({p1, p2}) \cup Permutations({c1, c2})
=============================================================================

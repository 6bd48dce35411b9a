------------------------------ MODULE Outbound ------------------------------
(* A message on its way out: the SMTP dialogue with the mail transfer agent   *)
(* (MTA), what becomes of each recipient after it, and the queue of messages  *)
(* to be sent again, which pqueue works off.                                  *)
(*                                                                            *)
(* Sources: src/send/lpsmtp.c, smtpmail.c, mail_queue.c and utils.c, and      *)
(* src/bins/pqueue/pqueue.c.                                                  *)
(*                                                                            *)
(* Abstracted: one message; the recipients are numbers, in the order in which *)
(* they are told to the MTA; the greeting, HELO and MAIL are one step; a      *)
(* reply is its class of codes; the text is in module MailText.  The MTA is   *)
(* external: it answers each command in order, sooner or later than the       *)
(* client waits.  Notices to the owners and the other ways to send            *)
(* (src/send/mtasend.c, pipemail.c) are left out.                             *)
EXTENDS Naturals, FiniteSets, SequencesExt

CONSTANTS
  Procs,        \* the process that sends the message first, and pqueue runs
  Plans         \* the choices of recipients and bounds: a set of records
                \* [rcpts, runs (of pqueue), timeouts, deaths], all numbers

VARIABLES
  plan,      \* the choice made
  proc,      \* [Procs -> what the process does, its connection included]
  queue,     \* the queue files: a set of [id, rcpts, whole]
  lastId,    \* the number in .queue.id, 0 if it is empty or there is none
  removed,   \* recipients taken off the list
  received,  \* [Recips -> the copies the MTA has accepted]
  refused,   \* recipients the MTA has refused for good
  doubted,   \* [Recips -> the dialogues that took another answer, or none, for his]
  cut,       \* recipients accepted in a dialogue that did not reach its end
  orphaned,  \* recipients known only to a process that died
  mixed,     \* recipients in a queue file that got the name of another
  count      \* [posts, runs, timeouts, deaths, twice] so far

ghost == <<received, refused, doubted, cut, orphaned, mixed>>
vars  == <<plan, proc, queue, lastId, removed, ghost, count>>

Recips == 1..plan.rcpts   \* mu_merge_recips: those of To and Cc, each once

-----------------------------------------------------------------------------
Idle        == [st |-> "idle"]
Busy(p)     == proc[p] # Idle
End(p)      == proc' = [proc EXCEPT ![p] = Idle]
Step(p, st) == proc' = [proc EXCEPT ![p].st = st]

(* mr->stat of each recipient after new_mail_recipient; on the connection:   *)
(* replies that are on their way, that have arrived, and whom the MTA takes. *)
Session(rcpts, file, files) ==
  [st |-> "open", rcpts |-> SetToSortSeq(rcpts, <), i |-> 1,
   stat |-> [r \in Recips |-> IF r \in rcpts THEN "not_tried" ELSE "none"],
   late |-> <<>>, sock |-> <<>>, acc |-> {},
   file |-> file, files |-> files, id |-> 0]

Recip(p)   == proc[p].rcpts[proc[p].i]
With(p, s) == {r \in Recips : proc[p].stat[r] = s}

(* send_message_file *)
Post(p) ==
  /\ ~Busy(p) /\ count.posts = 0
  /\ proc' = [proc EXCEPT ![p] = Session(Recips, 0, <<>>)]
  /\ count' = [count EXCEPT !.posts = 1]
  /\ UNCHANGED <<queue, lastId, removed, ghost>>

(* pqueue is started with the names of the files that are in the queue. *)
RunQueue(p) ==
  /\ ~Busy(p) /\ count.runs < plan.runs /\ queue # {}
  /\ proc' = [proc EXCEPT ![p] =
                [Session({}, 0, SetToSortSeq({f.id : f \in queue}, <)) EXCEPT !.st = "file"]]
  /\ count' = [count EXCEPT !.runs = @ + 1]
  /\ UNCHANGED <<queue, lastId, removed, ghost>>

EndRun(p) ==
  /\ proc[p].st = "file" /\ proc[p].files = <<>>
  /\ End(p)
  /\ UNCHANGED <<queue, lastId, removed, ghost, count>>

(* mq_read_queue_file: a file that is still being written has no DATA line or *)
(* no text after the header, and is left alone.                               *)
Readable(f) == f.whole

NextFile(p) ==
  LET files == proc[p].files
      here  == {f \in queue : f.id = Head(files)}
  IN  /\ proc[p].st = "file" /\ files # <<>>
      /\ \/ /\ \A f \in here : ~Readable(f)
            /\ proc' = [proc EXCEPT ![p].files = Tail(files)]
            /\ UNCHANGED count
         \/ \E f \in here :
              /\ Readable(f)
              /\ proc' = [proc EXCEPT ![p] = Session(f.rcpts, f.id, Tail(files))]
              /\ count' = IF \E q \in Procs \ {p} : Busy(q) /\ proc[q].file = f.id
                          THEN [count EXCEPT !.twice = @ + 1] ELSE count
      /\ UNCHANGED <<queue, lastId, removed, ghost>>

-----------------------------------------------------------------------------
(* smtp_send_v *)

(* smtp_open; a failure ends the dialogue. *)
Open(p) ==
  /\ proc[p].st = "open"
  /\ \E st \in {"connect", "sort"} : Step(p, st)
  /\ UNCHANGED <<queue, lastId, removed, ghost, count>>

(* The greeting, HELO and MAIL, as well. *)
Connect(p) ==
  /\ proc[p].st = "connect"
  /\ \E st \in {"rcpt", "sort"} : Step(p, st)
  /\ UNCHANGED <<queue, lastId, removed, ghost, count>>

(* The client writes a command; the MTA acts on it and answers. *)
Tell(p, reply, st, acc) ==
  proc' = [proc EXCEPT ![p].late = Append(@, reply), ![p].st = st, ![p].acc = acc]

SendRcpt(p) ==
  LET r == Recip(p) IN
  /\ proc[p].st = "rcpt" /\ proc[p].i <= Len(proc[p].rcpts)
  /\ \E reply \in {"ok", "temp", "perm", "other"} :
       /\ Tell(p, reply, "rcpt reply", IF reply = "ok" THEN proc[p].acc \cup {r} ELSE proc[p].acc)
       /\ refused' = IF reply = "perm" THEN refused \cup {r} ELSE refused
  /\ UNCHANGED <<queue, lastId, removed, received, doubted, cut, orphaned, mixed, count>>

(* With no recipient accepted there is nothing to send. *)
EndRcpts(p) ==
  /\ proc[p].st = "rcpt" /\ proc[p].i > Len(proc[p].rcpts)
  /\ Step(p, IF With(p, "sent") = {} THEN "sort" ELSE "data")
  /\ UNCHANGED <<queue, lastId, removed, ghost, count>>

SendData(p) ==
  /\ proc[p].st = "data"
  /\ \E reply \in IF proc[p].acc # {} THEN {"go", "other"} ELSE {"other"} :
       Tell(p, reply, "data reply", proc[p].acc)
  /\ UNCHANGED <<queue, lastId, removed, ghost, count>>

(* Header and body, and the final dot: here the MTA takes the message. *)
SendBody(p) ==
  /\ proc[p].st = "body"
  /\ \E reply \in {"ok", "temp"} :
       /\ Tell(p, reply, "end reply", proc[p].acc)
       /\ received' = IF reply = "ok"
                      THEN [r \in Recips |-> received[r] + (IF r \in proc[p].acc THEN 1 ELSE 0)]
                      ELSE received
  /\ UNCHANGED <<queue, lastId, removed, refused, doubted, cut, orphaned, mixed, count>>

Waiting(p) == proc[p].st \in {"rcpt reply", "data reply", "end reply"}

Arrive(p) ==
  /\ Waiting(p) /\ proc[p].late # <<>>
  /\ proc' = [proc EXCEPT ![p].late = Tail(@), ![p].sock = Append(@, Head(proc[p].late))]
  /\ UNCHANGED <<queue, lastId, removed, ghost, count>>

(* The status of a recipient, from the code. *)
Status(code) ==
  CASE code = "ok" -> "sent" [] code = "temp" -> "temp" [] code = "perm" -> "perm"
    [] OTHER -> "unknown"

(* What is read is the answer to the command only if it came alone and no other *)
(* is outstanding. *)
Answered(p, code, own) ==
  LET s == [proc[p] EXCEPT !.sock = <<>>] IN
  CASE s.st = "rcpt reply" ->
         /\ proc' = [proc EXCEPT ![p] = [s EXCEPT !.stat[Recip(p)] = Status(code),
                                                  !.i = @ + 1, !.st = "rcpt"]]
         /\ doubted' = IF own THEN doubted ELSE [doubted EXCEPT ![Recip(p)] = @ + 1]
         /\ UNCHANGED cut
    [] s.st = "data reply" /\ code = "go" ->
         /\ proc' = [proc EXCEPT ![p] = [s EXCEPT !.st = "body"]]
         /\ UNCHANGED <<doubted, cut>>
    [] s.st = "end reply" /\ code = "ok" ->
         /\ proc' = [proc EXCEPT ![p] = [s EXCEPT !.st = "sort"]]
         /\ UNCHANGED <<doubted, cut>>
    [] OTHER ->
         /\ proc' = [proc EXCEPT ![p] = [s EXCEPT !.st = "sort"]]
         /\ cut' = cut \cup With(p, "sent")
         /\ UNCHANGED doubted

(* smtp_get_response reads all there is; two replies at once have no code. *)
Read(p) ==
  LET sock == proc[p].sock IN
  /\ Waiting(p) /\ sock # <<>>
  /\ Answered(p, IF Len(sock) = 1 THEN sock[1] ELSE "666", Len(sock) = 1 /\ proc[p].late = <<>>)
  /\ UNCHANGED <<queue, lastId, removed, received, refused, orphaned, mixed, count>>

(* It waits for SMTP_TIMEOUT seconds; the dialogue goes on after a RCPT. *)
Timeout(p) ==
  /\ Waiting(p) /\ proc[p].sock = <<>> /\ count.timeouts < plan.timeouts
  /\ Answered(p, "-1", FALSE)
  /\ count' = [count EXCEPT !.timeouts = @ + 1]
  /\ UNCHANGED <<queue, lastId, removed, received, refused, orphaned, mixed>>

-----------------------------------------------------------------------------
(* smtpmail_v *)

Rest_temp(p) == With(p, "temp")
(* Whom mu_remove_successful_recips and mu_remove_bad_recips leave. *)
Rest(p) == With(p, "not_tried") \cup With(p, "temp") \cup With(p, "unknown")

(* Those who have an accepted message are done, those refused for good are   *)
(* removed from the list, the others are queued.                             *)
Sort(p) ==
  /\ proc[p].st = "sort"
  /\ removed' = removed \cup With(p, "perm")
  /\ proc' = [proc EXCEPT ![p] =
                [Session(Rest(p), @.file, @.files) EXCEPT
                   !.st = IF Rest(p) # {} THEN "queue" ELSE IF proc[p].file = 0 THEN "end" ELSE "unlink"]]
  /\ UNCHANGED <<queue, lastId, ghost, count>>

(* mq_new_queue_file: under the lock LPL_GLOBAL_REQ_ID the number is read and   *)
(* the file emptied, ... *)
TakeId(p) ==
  /\ proc[p].st = "queue" /\ \A q \in Procs : proc[q].st # "id"
  /\ proc' = [proc EXCEPT ![p].st = "id", ![p].id = lastId + 1]
  /\ lastId' = 0
  /\ UNCHANGED <<queue, removed, ghost, count>>

(* ... and the next number written when it is closed. *)
WriteId(p) ==
  /\ proc[p].st = "id"
  /\ lastId' = proc[p].id
  /\ Step(p, "create")
  /\ UNCHANGED <<queue, removed, ghost, count>>

(* The queue file is opened, and one of that name is not truncated. *)
Create(p) ==
  LET id    == proc[p].id
      there == {f \in queue : f.id = id}
  IN  /\ proc[p].st = "create"
      /\ queue' = IF there # {} THEN queue
                  ELSE queue \cup {[id |-> id, rcpts |-> {}, whole |-> FALSE]}
      /\ mixed' = IF there = {} /\ \A q \in Procs : Busy(q) => proc[q].file # id THEN mixed
                  ELSE mixed \cup ToSet(proc[p].rcpts) \cup UNION {f.rcpts : f \in there}
      /\ Step(p, "header")
      /\ UNCHANGED <<lastId, removed, received, refused, doubted, cut, orphaned, count>>

(* mq_queue_message_v: the recipients and the header.  Of what they do not cover *)
(* of a longer file some recipients may still be read. *)
WriteHeader(p) ==
  /\ proc[p].st = "header"
  /\ \E rest \in SUBSET UNION {f.rcpts : f \in {g \in queue : g.id = proc[p].id}} :
       queue' = {IF f.id = proc[p].id
                 THEN [f EXCEPT !.rcpts = ToSet(proc[p].rcpts) \cup rest] ELSE f : f \in queue}
  /\ Step(p, "write")
  /\ UNCHANGED <<lastId, removed, ghost, count>>

(* The body, written at once. *)
WriteBody(p) ==
  /\ proc[p].st = "write"
  /\ queue' = {IF f.id = proc[p].id THEN [f EXCEPT !.whole = TRUE] ELSE f : f \in queue}
  /\ Step(p, IF proc[p].file = 0 THEN "end" ELSE "unlink")
  /\ UNCHANGED <<lastId, removed, ghost, count>>

(* mq_resend *)
UnlinkSent(p) ==
  /\ proc[p].st = "unlink"
  /\ queue' = {f \in queue : f.id # proc[p].file}
  /\ proc' = [proc EXCEPT ![p] = [Session({}, 0, @.files) EXCEPT !.st = "file"]]
  /\ UNCHANGED <<lastId, removed, ghost, count>>

Finish(p) ==
  /\ proc[p].st = "end"
  /\ End(p)
  /\ UNCHANGED <<queue, lastId, removed, ghost, count>>

(* The recipients of a session that nobody else knows of. *)
InHand(p) ==
  CASE ~Busy(p) \/ proc[p].st \in {"file", "end", "unlink"} -> {}
    [] OTHER -> ToSet(proc[p].rcpts)

Die(p) ==
  /\ Busy(p) /\ count.deaths < plan.deaths
  /\ count' = [count EXCEPT !.deaths = @ + 1]
  /\ orphaned' = IF proc[p].file = 0 THEN orphaned \cup InHand(p) ELSE orphaned
  /\ End(p)
  /\ UNCHANGED <<queue, lastId, removed, received, refused, doubted, cut, mixed>>

-----------------------------------------------------------------------------
Init ==
  /\ plan \in Plans /\ proc = [p \in Procs |-> Idle]
  /\ queue = {} /\ lastId = 0 /\ removed = {}
  /\ received = [r \in Recips |-> 0]
  /\ refused = {} /\ doubted = [r \in Recips |-> 0] /\ cut = {} /\ orphaned = {} /\ mixed = {}
  /\ count = [posts |-> 0, runs |-> 0, timeouts |-> 0, deaths |-> 0, twice |-> 0]

Next ==
  /\ UNCHANGED plan
  /\ \E p \in Procs :
       \/ Post(p) \/ RunQueue(p) \/ EndRun(p) \/ NextFile(p)
       \/ Open(p) \/ Connect(p) \/ SendRcpt(p) \/ EndRcpts(p) \/ SendData(p) \/ SendBody(p)
       \/ Arrive(p) \/ Read(p) \/ Timeout(p)
       \/ Sort(p) \/ TakeId(p) \/ WriteId(p) \/ Create(p) \/ WriteHeader(p) \/ WriteBody(p)
       \/ UnlinkSent(p) \/ Finish(p)
       \/ Die(p)

Spec == Init /\ [][Next]_vars

-----------------------------------------------------------------------------
(* Properties *)

(* Whatever the MTA answers and whoever dies, every recipient has the message, *)
(* is in a whole queue file, is being worked on or was removed from the list.  *)
(* Four ways to lose the message are known: the only process that knows the    *)
(* recipient dies; a dialogue fails after the MTA accepted the recipient       *)
(* (smtpmail_v takes such a recipient for served); the answer of another was   *)
(* taken for his, after a reply had come too late; and a process died between  *)
(* emptying and writing .queue.id: then the ids begin again, and a queue file  *)
(* gets the name of one that is there.  Nobody gets the message again for any  *)
(* other reason than a death, two pqueue runs on one queue file, or a dialogue *)
(* in which his answer was not recognised and the MTA had accepted him.  And a *)
(* subscriber is removed only if the MTA refused him for good, or another's    *)
(* answer was taken for his.                                                   *)
Held    == UNION ({f.rcpts : f \in {g \in queue : g.whole}} \cup {InHand(p) : p \in Procs})
Doubted == {r \in Recips : doubted[r] > 0}
SentOnce ==
  /\ count.posts = 1 =>
       \A r \in Recips :
         /\ received[r] > 0 \/ r \in Held \cup removed \cup cut \cup orphaned \cup Doubted \cup mixed
         /\ received[r] <= 1 + count.deaths + count.twice + doubted[r]
  /\ removed \subseteq refused \cup Doubted

=============================================================================

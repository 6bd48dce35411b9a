---------------------------- MODULE RequestMail -----------------------------
(* Requests by mail: listproc processes take the requests file or the batch   *)
(* file, see to it that a message is not answered twice, and go through its   *)
(* lines: each is carried out, refused, or put off into the batch file.  The  *)
(* filter lp2 takes requests from a pipe and goes through the same checks.    *)
(*                                                                            *)
(* Sources: src/bins/listproc/listproc.c, src/bins/listproc/lp2.c,            *)
(* src/commands/put.c, src/lputil/lpconfig.c.                                 *)
(*                                                                            *)
(* Abstracted: a line is its kind: "sub" (a request that waits while the      *)
(* subscribers are edited), "review" (one that does not), "put" (its text are *)
(* the lines that follow), "help" (one without a list), "word" (no request),  *)
(* "bye" (a signature).  A message has a Message-Id and a checksum of sender  *)
(* and body; one of the batch file has none.  A file is taken in one step,    *)
(* under its lock; the histories of ids and checksums are not shortened.      *)
EXTENDS Naturals, FiniteSets, Sequences, SequencesExt

CONSTANTS
  Procs,      \* listproc processes
  Messages,   \* names of messages
  Attr,       \* [Messages -> [from, id, sum, lines]]
  Owner,      \* the sender who owns the list
  None,       \* no id, no checksum, no owner
  Settings    \* instances: [arrivals, again, batched, disabled, off, restricted,
              \* ignoring, pipe, edits, deaths]

VARIABLES
  setting,    \* the instance of this behaviour
  mail,       \* the requests file: a sequence of messages
  batch,      \* the batch file: [from, line, text]
  ids, sums,  \* what was processed: Message-Ids, checksums
  editor,     \* the owner in the edit lock, or None
  locker,     \* the owner in the list lock, or None
  busy,       \* batch hours
  proc,       \* [Procs -> what the process does]
  gate,       \* lp2: [st, n, from]
  left,       \* [arrivals and repetitions still to come, edits, deaths]
  done,       \* what was carried out: a sequence of [m, i, for]
  late,       \* the lines that were put off
  told,       \* the messages answered that hold no request
  past        \* what happened, and to which message

env  == <<editor, locker, busy>>
hist == <<done, late, told, past>>
vars == <<setting, mail, batch, ids, sums, env, proc, gate, left, hist>>

Idle == [st |-> "idle"]
To(p, st) == proc' = [proc EXCEPT ![p].st = st]

(* A process goes through messages; old: they come from the batch file. *)
Through(old, work) == [st |-> "next", old |-> old, todo |-> work]
Leave(p) == proc' = [proc EXCEPT ![p] = Through(@.old, Tail(@.todo))]

(* A line: which it is of what message. *)
LinesOf(m) ==
  [i \in DOMAIN Attr[m].lines |->
     [m |-> m, i |-> i, kind |-> Attr[m].lines[i], whole |-> TRUE]]

IsText(l) == l.m # None /\ \E j \in 1..l.i - 1 : Attr[l.m].lines[j] = "put"

-----------------------------------------------------------------------------
(* The files *)

AsWork(m) == [m |-> m, from |-> Attr[m].from, id |-> Attr[m].id, sum |-> Attr[m].sum,
              lines |-> LinesOf(m)]

(* The line of a request in the batch file ends without a newline, so that    *)
(* what follows is part of it: the first line of a PUT's text, or the "From " *)
(* line of the next message, whose "From:" line is then no request.           *)
Starts == {i \in DOMAIN batch : i = 1 \/ batch[i - 1].text # <<>>}
Ends(i) == CHOOSE j \in i..Len(batch) :
             /\ j = Len(batch) \/ j + 1 \in Starts
             /\ \A k \in i..j - 1 : k + 1 \notin Starts
Entry(i) ==
  LET e == batch[i] IN
  <<[e.line EXCEPT !.whole = @ /\ e.text = <<>> /\ i = Len(batch)]>>
    \o (IF e.text = <<>> THEN <<>> ELSE Tail(e.text))
Stray == [m |-> None, i |-> 0, kind |-> "word", whole |-> TRUE]

AsMail(from, lines) == [m |-> None, from |-> from, id |-> None, sum |-> None, lines |-> lines]
Work ==
  [n \in 1..Cardinality(Starts) |->
     LET i == CHOOSE x \in Starts : Cardinality({y \in Starts : y < x}) = n - 1
         more == [k \in 1..Ends(i) - i |-> <<Stray>> \o Entry(i + k)]
     IN  AsMail(batch[i].from, Entry(i) \o FlattenSeq(more))]

(* Under the lock the file is copied and emptied. *)
Take(p) ==
  /\ proc[p] = Idle /\ mail # <<>>
  /\ proc' = [proc EXCEPT ![p] = Through(FALSE, [k \in DOMAIN mail |-> AsWork(mail[k])])]
  /\ mail' = <<>>
  /\ UNCHANGED <<setting, batch, ids, sums, env, gate, left, hist>>

TakeBatch(p) ==
  /\ proc[p] = Idle /\ batch # <<>>
  /\ proc' = [proc EXCEPT ![p] = Through(TRUE, Work)]
  /\ batch' = <<>>
  /\ past' = past \union
       {<<"glued", batch[i].line.m>> : i \in {k \in DOMAIN batch : k \notin Starts}}
  /\ UNCHANGED <<setting, mail, ids, sums, env, gate, left, done, late, told>>

-----------------------------------------------------------------------------
(* A message *)

Cur(p)  == Head(proc[p].todo)
Line(p) == Cur(p).lines[proc[p].at]
Open(q)  == proc[q].st \notin {"idle", "next"}
Same(v, w) == v # None /\ v = w

(* The Message-Id is looked up here, and recorded under another lock. *)
Header(p) ==
  /\ proc[p].st = "next" /\ proc[p].todo # <<>>
  /\ LET loop   == Cur(p).id \in ids
         others == {q \in Procs \ {p} :
                      \/ proc[q].st = "record" /\ Same(Cur(p).id, Cur(q).id)
                      \/ Open(q) /\ Same(Cur(p).sum, Cur(q).sum)}
     IN
     /\ proc' = [proc EXCEPT ![p] =
          [st |-> IF loop \/ Cur(p).id = None THEN "body" ELSE "record", old |-> @.old,
           todo |-> @.todo, at |-> 1, loop |-> loop, bye |-> FALSE, rejected |-> FALSE,
           acted |-> FALSE, bad |-> TRUE, verdict |-> ""]]
     /\ past' = past \union
          {<<"overlap", Cur(q).m>> : q \in {x \in others \union {p} : others # {}}}
  /\ UNCHANGED <<setting, mail, batch, ids, sums, env, gate, left, done, late, told>>

Record_lost(p) ==
  /\ proc[p].st = "record"
  /\ To(p, "body")
  /\ UNCHANGED <<setting, mail, batch, ids, sums, env, gate, left, hist>>
Record(p) ==
  /\ proc[p].st = "record"
  /\ ids' = ids \union {Cur(p).id}
  /\ To(p, "body")
  /\ UNCHANGED <<setting, mail, batch, sums, env, gate, left, hist>>

(* The text of a PUT is not looked at. *)
Checked(w) == w.lines # <<>> /\ w.lines[1].kind # "put"

(* A message that is a loop goes to the manager, and nobody is answered. *)
Body(p) ==
  /\ proc[p].st = "body"
  /\ IF proc[p].loop \/ (Checked(Cur(p)) /\ Cur(p).sum \in sums)
     THEN Leave(p)
     ELSE To(p, "line")
  /\ UNCHANGED <<setting, mail, batch, ids, sums, env, gate, left, hist>>

(* The checksum is saved if no line was a request; "no requests found" is     *)
(* answered if none was looked at and none was rejected.                      *)
Saved(p) == Checked(Cur(p)) /\ proc[p].bad

Answer(p, if) == told' = told \union {m \in {Cur(p).m} \ {None} : if}

Finish(p) ==
  /\ proc[p].st = "line" /\ proc[p].at > Len(Cur(p).lines)
  /\ sums' = sums \union {x \in {Cur(p).sum} \ {None} : Saved(p)}
  /\ Answer(p, ~proc[p].acted /\ ~proc[p].rejected)
  /\ Leave(p)
  /\ UNCHANGED <<setting, mail, batch, ids, env, gate, left, done, late, past>>

Quit(p) ==
  /\ proc[p].st = "next" /\ proc[p].todo = <<>>
  /\ proc' = [proc EXCEPT ![p] = Idle]
  /\ UNCHANGED <<setting, mail, batch, ids, sums, env, gate, left, hist>>

-----------------------------------------------------------------------------
(* A line *)

OnList(kind)  == kind \in {"sub", "review", "put"}
Editing(kind) == kind \in {"sub", "put"}
Known(kind)   == kind \notin {"word", "bye"} \union setting.off

(* The list lock lets its owner through, other owners if they change nothing. *)
Locked(who, kind) ==
  /\ OnList(kind) /\ locker # None
  /\ who # Owner \/ (who # locker /\ Editing(kind))

BeingEdited(who, kind) == Editing(kind) /\ editor # None /\ editor # who

PutOff(who, kind, old) ==
  BeingEdited(who, kind) \/ (~old /\ busy /\ kind \in setting.batched)

(* The checks, in their order; each looks at files that others change.  Of a  *)
(* line that is not whole the last word is not what it was: the name of a     *)
(* list is unknown, a request that is one word too, and a PUT that comes so   *)
(* far is refused for its keyword.                                            *)
Verdict(who, l, old) ==
  CASE ~Known(l.kind) \/ (l.kind = "help" /\ ~l.whole)                -> "unknown"
    [] l.kind = "review" /\ ~l.whole                                  -> "refuse"
    [] OnList(l.kind) /\ who # Owner /\ l.kind \in setting.disabled   -> "refuse"
    [] Locked(who, l.kind)                                            -> "drop"
    [] l.kind \in setting.restricted                                  -> "restrict"
    [] PutOff(who, l.kind, old)                                       -> "putoff"
    [] l.kind = "put" /\ (who # Owner \/ ~l.whole)                    -> "refuse"
    [] OTHER                                                          -> "run"

(* After a signature or a rejection the lines are only looked at. *)
Over_signed(p) == proc[p].bye \/ Line(p).kind = "bye"
Over(p) == proc[p].bye \/ Line(p).kind = "bye" \/ proc[p].rejected

Check(p) ==
  /\ proc[p].st = "line" /\ proc[p].at <= Len(Cur(p).lines)
  /\ IF Over(p)
     THEN proc' = [proc EXCEPT ![p].at = @ + 1, ![p].bye = @ \/ Line(p).kind = "bye",
                               ![p].bad = @ /\ ~Known(Line(p).kind)]
     ELSE proc' = [proc EXCEPT ![p].st = "act",
                               ![p].verdict = Verdict(Cur(p).from, Line(p), proc[p].old)]
  /\ UNCHANGED <<setting, mail, batch, ids, sums, env, gate, left, hist>>

Rest(p) == SubSeq(Cur(p).lines, proc[p].at + 1, Len(Cur(p).lines))

(* To the next line, or past all of them if the rest was read on the way. *)
Skip(p, all, rejected) ==
  LET unknown == proc[p].verdict = "unknown" IN
  proc' = [proc EXCEPT ![p].st = "line", ![p].at = IF all THEN Len(Cur(p).lines) + 1 ELSE @ + 1,
                       ![p].rejected = rejected, ![p].bad = @ /\ unknown,
                       ![p].acted = @ \/ ~unknown \/ rejected]

(* A rejection is the last for its message; what is no request may be ignored. *)
Refuse(p) ==
  /\ proc[p].st = "act" /\ proc[p].verdict \in {"unknown", "refuse"}
  /\ LET rejected == proc[p].verdict = "refuse" \/ ~setting.ignoring IN
     /\ Skip(p, FALSE, rejected)
     /\ Answer(p, rejected /\ proc[p].verdict = "unknown")
  /\ UNCHANGED <<setting, mail, batch, ids, sums, env, gate, left, done, late, past>>

(* Of a message for a locked list the rest is dropped. *)
Drop(p) ==
  /\ proc[p].st = "act" /\ proc[p].verdict = "drop"
  /\ Skip(p, TRUE, FALSE)
  /\ UNCHANGED <<setting, mail, batch, ids, sums, env, gate, left, hist>>

(* Too many users: the text of a PUT is sent back with the answer. *)
Restricted(p) ==
  /\ proc[p].st = "act" /\ proc[p].verdict = "restrict"
  /\ Skip(p, Line(p).kind = "put", FALSE)
  /\ UNCHANGED <<setting, mail, batch, ids, sums, env, gate, left, hist>>

Batch(p) ==
  /\ proc[p].st = "act" /\ proc[p].verdict = "putoff"
  /\ LET text == IF Line(p).kind = "put" THEN Rest(p) ELSE <<>> IN
     /\ batch' = Append(batch, [from |-> Cur(p).from, line |-> Line(p), text |-> text])
     /\ late' = late \union {<<l.m, l.i>> : l \in {Line(p)} \union {text[k] : k \in DOMAIN text}}
  /\ Skip(p, Line(p).kind = "put", FALSE)
  /\ UNCHANGED <<setting, mail, ids, sums, env, gate, left, done, told, past>>

Carried(l, who) == done' = Append(done, [m |-> l.m, i |-> l.i, for |-> who])

Run(p) ==
  /\ proc[p].st = "act" /\ proc[p].verdict = "run"
  /\ Carried(Line(p), Cur(p).from)
  /\ Skip(p, Line(p).kind = "put", FALSE)
  /\ UNCHANGED <<setting, mail, batch, ids, sums, env, gate, left, late, told, past>>

-----------------------------------------------------------------------------
(* lp2: its input are senders and requests, and each request is answered with *)
(* a line that is a dot.  It has no message body: where one is read, it dies. *)

PipeLine(n) == [m |-> "pipe", i |-> n, kind |-> setting.pipe[n].kind, whole |-> TRUE]

Hear(g) ==
  LET x == setting.pipe[g.n + 1] IN
  CASE x.kind = "from"  -> [g EXCEPT !.n = @ + 1, !.from = x.from]
    [] g.from = None    -> [g EXCEPT !.st = "gone"]
    [] OTHER            -> [g EXCEPT !.n = @ + 1, !.st = Verdict(g.from, PipeLine(g.n + 1), FALSE)]

GateHears ==
  /\ gate.st = "up" /\ gate.n < Len(setting.pipe)
  /\ gate' = Hear(gate)
  /\ UNCHANGED <<setting, mail, batch, ids, sums, env, proc, left, hist>>

GateAnswers ==
  /\ gate.st \in {"unknown", "refuse", "drop", "restrict", "putoff", "run"}
  /\ LET l == PipeLine(gate.n)
         dies == gate.st = "putoff" \/ (l.kind = "put" /\ gate.st \in {"restrict", "run"})
     IN
     /\ gate' = [gate EXCEPT !.st = IF dies THEN "gone" ELSE "up"]
     /\ IF gate.st = "run" /\ ~dies THEN Carried(l, gate.from) ELSE UNCHANGED done
  /\ UNCHANGED <<setting, mail, batch, ids, sums, env, proc, left, late, told, past>>

-----------------------------------------------------------------------------
(* Others *)

Arrive(m) ==
  /\ m \in left.mail
  /\ mail' = Append(mail, m)
  /\ left' = [left EXCEPT !.mail = @ \ {m}]
  /\ UNCHANGED <<setting, batch, ids, sums, env, proc, gate, hist>>

(* The mail system delivers a message a second time. *)
Again(m) ==
  /\ m \in left.again \ left.mail
  /\ mail' = Append(mail, m)
  /\ left' = [left EXCEPT !.again = @ \ {m}]
  /\ UNCHANGED <<setting, batch, ids, sums, env, proc, gate, hist>>

(* EDIT and its end, LOCK and UNLOCK, the batch hours. *)
Change ==
  /\ left.edits > 0
  /\ left' = [left EXCEPT !.edits = @ - 1]
  /\ \/ editor' = (IF editor = None THEN Owner ELSE None) /\ UNCHANGED <<locker, busy>>
     \/ locker' = (IF locker = None THEN Owner ELSE None) /\ UNCHANGED <<editor, busy>>
     \/ busy' = ~busy /\ UNCHANGED <<editor, locker>>
  /\ UNCHANGED <<setting, mail, batch, ids, sums, proc, gate, hist>>

Die(p) ==
  /\ proc[p] # Idle /\ left.deaths > 0
  /\ left' = [left EXCEPT !.deaths = @ - 1]
  /\ proc' = [proc EXCEPT ![p] = Idle]
  /\ past' = past \union {<<"died", Cur(p).m>> : q \in {x \in {p} : Open(x)}}
  /\ UNCHANGED <<setting, mail, batch, ids, sums, env, gate, done, late, told>>

Init ==
  /\ setting \in Settings
  /\ mail = <<>> /\ batch = <<>> /\ ids = {} /\ sums = {}
  /\ editor = None /\ locker = None /\ busy = FALSE
  /\ proc = [p \in Procs |-> Idle]
  /\ gate = [st |-> "up", n |-> 0, from |-> None]
  /\ left = [mail |-> setting.arrivals, again |-> setting.again, edits |-> setting.edits,
             deaths |-> setting.deaths]
  /\ done = <<>> /\ late = {} /\ told = {} /\ past = {}

Next ==
  \/ \E p \in Procs :
       \/ Take(p) \/ TakeBatch(p) \/ Header(p) \/ Record(p) \/ Body(p) \/ Finish(p) \/ Quit(p)
       \/ Check(p) \/ Refuse(p) \/ Drop(p) \/ Restricted(p) \/ Batch(p) \/ Run(p) \/ Die(p)
  \/ GateHears \/ GateAnswers
  \/ \E m \in Messages : Arrive(m) \/ Again(m)
  \/ Change

Spec == Init /\ [][Next]_vars

-----------------------------------------------------------------------------
(* Properties *)

Happened(what, m) == <<what, m>> \in past

(* A request is carried out once, although its message is delivered twice or  *)
(* is put off, and the requests of a message in their order, unless two       *)
(* processes looked the Message-Id up before one recorded it: the two are     *)
(* apart (listproc.c:1019-1030).  What is put off comes after what was not    *)
(* (listproc.c:1827).  Nor does an answer to a message without a request come *)
(* back for ever: of two messages of one sender with one body one is answered *)
(* (listproc.c:1392), unless two processes had them at once or the one that   *)
(* answered died.                                                             *)
ActedOnce ==
  /\ \A j, k \in DOMAIN done : j < k =>
       LET a == done[j]
           b == done[k]
       IN  a.m = b.m /\ ~Happened("overlap", a.m) =>
             a.i < b.i \/ (b.i < a.i /\ <<b.m, b.i>> \in late)
  /\ \A m, n \in told :
       m # n /\ Same(Attr[m].sum, Attr[n].sum) /\ (\A i \in DOMAIN Attr[m].lines : ~Known(Attr[m].lines[i])) =>
         \/ Happened("overlap", m) \/ Happened("overlap", n)
         \/ Happened("died", m) \/ Happened("died", n)

(* What is carried out is a request of somebody, and for him: no line of the  *)
(* text of a PUT, which is read with the PUT (put.c:376) or left alone after  *)
(* its rejection (listproc.c:1363), unless PUT is no request here and what is *)
(* none is ignored; and nothing that another sent, unless it lay behind a     *)
(* request of his in the batch file (listproc.c:1928).                        *)
AsSent ==
  \A j \in DOMAIN done :
    LET l == done[j] IN
    IF l.m = "pipe"
    THEN \E n \in 1..l.i : /\ setting.pipe[n].kind = "from" /\ setting.pipe[n].from = done[j].for
                           /\ \A k \in n + 1..l.i : setting.pipe[k].kind # "from"
    ELSE /\ IsText(l) => setting.ignoring /\ ~Known("put")
         /\ done[j].for = Attr[l.m].from \/ Happened("glued", l.m)
=============================================================================

----------------------------- MODULE DailyLimit -----------------------------
(* The ceiling on the messages a list takes in a day.  The count and its day  *)
(* are in the list's .limits file, which three programs change: serverd       *)
(* starts it anew on a new day and looks at it before it spawns a list        *)
(* process, the list processes (one for the mail and one for error mail may   *)
(* run at once) increment it without a lock, and listproc resets it for FREE. *)
(*                                                                           *)
(* Sources: READ_LIMITSF, CHECK_LIST_CEILING, CHECK_FOR_HOLD and the main     *)
(* loop in src/bins/serverd/serverd.c, check_message_limit and                *)
(* inc_message_limit in src/bins/list/list_utils.c, main and                  *)
(* process_mbox_file in src/bins/list/list.c, src/commands/hold_free.c.       *)
(*                                                                           *)
(* Abstracted: one list with a ceiling; a mailbox is the number of its        *)
(* messages; serverd works asynchronously (nthreads > 1) and has threads to   *)
(* spare (module Dispatch has them).  Times of modification are in seconds:   *)
(* all that serverd asks of them is whether that of the file is the one it    *)
(* remembers, so the model keeps that, and which of the two is of the present *)
(* second.  Writing the file is two steps, as it is for echo() and stdio: it  *)
(* is truncated, and then written.                                            *)
EXTENDS Integers, FiniteSets

CONSTANTS
  MaxMessages,  \* list's max_messages
  MaxArrivals,  \* bound on the messages that arrive
  MaxDays,      \* bound on the days
  MaxRequests,  \* bound on HOLD and FREE requests
  None,         \* nobody; no list process
  NoFile,       \* there is no such file
  Torn          \* a file truncated and not yet written

ASSUME DailyLimitAssumption ==
  /\ MaxMessages \in Nat \ {0} /\ MaxArrivals \in Nat /\ MaxDays \in Nat \ {0}
  /\ MaxRequests \in Nat
  /\ None \notin {"check", "take", "next", "inc", "truncate", "write", "exit", "serverd", "listproc"}
  /\ NoFile # Torn /\ NoFile \notin [n : Nat, day : Nat] /\ Torn \notin [n : Nat, day : Nat]

Boxes  == {"mail", "errors"}    \* the mailboxes of the list, and who reads them
Askers == {"manager", "owner"}
MaxCount == 2 * MaxArrivals + MaxMessages + 1  \* bound on counts, see Counts
Counts  == 0..MaxCount
Garbage == {0, MaxCount}         \* what an uninitialized count may be
Entry(n, d) == [n |-> n, day |-> d]

VARIABLES
  day,       \* today
  box,       \* [Boxes -> messages in the mailbox]
  arrived,   \* messages that have arrived so far
  limits,    \* .limits: an Entry, Torn or NoFile
  changed,   \* .limits has another modification time than limits_st_mtime
  fresh,     \* which of the two times, of the "file" and in "serverd", is the present second
  holdf,     \* who holds the list, or None
  misc,      \* the holder of LPL_LIST_MISC: "serverd", "listproc" or None
  sv,        \* serverd: [pc, kind, nmess, day], nmess and day from .limits
  busy,      \* [Boxes -> serverd knows a process that reads that mailbox]
  proc,      \* [Boxes -> [pc, left, n, day, last]], a list process
  lp,        \* the listproc process: [pc, op, sender]
  asked,     \* requests so far
  since,     \* messages processed since the count was last reset (history)
  raced,     \* two processes were changing .limits at once (history)
  checked    \* [Boxes -> [blind, unseen]], what a check could not see (history)

limitsFile == <<limits, changed, fresh>>
mails   == <<box, arrived>>
listproc == <<lp, asked>>
lvars == <<day, mails, limitsFile, holdf, misc, sv, busy, proc, listproc, since, raced, checked>>

-----------------------------------------------------------------------------
(* serverd: the tests for list mail and for error mail *)

Serverd == UNCHANGED <<day, mails, holdf, proc, listproc>>
SGoto(where) == sv' = [sv EXCEPT !.pc = where]

\* .limits is written: its time is the present second, which may be the one that
\* serverd remembers.
Touched ==
  /\ changed' = ("serverd" \notin fresh)
  /\ fresh' = fresh \cup {"file"}

\* The mailbox is not empty, nobody is at it, and there is no hold file.
Look_newDay(k) ==
  /\ sv.pc = "idle" /\ box[k] > 0 /\ ~busy[k] /\ holdf = None
  /\ sv' = [sv EXCEPT !.pc = IF limits # NoFile /\ changed /\ sv.day # day THEN "read" ELSE "ceiling",
                      !.kind = k]
  /\ Serverd /\ UNCHANGED <<limitsFile, misc, busy, since>>
Look(k) ==
  /\ sv.pc = "idle" /\ box[k] > 0 /\ ~busy[k] /\ holdf = None
  /\ sv' = [sv EXCEPT !.pc = IF limits # NoFile /\ changed THEN "read" ELSE "ceiling",
                      !.kind = k]
  /\ Serverd /\ UNCHANGED <<limitsFile, misc, busy, since>>

\* READ_LIMITSF.  The date of a file that cannot be read is zero.
Read ==
  /\ sv.pc = "read" /\ misc = None
  /\ sv' = [sv EXCEPT !.pc = "stat",
                      !.nmess = IF limits = Torn THEN @ ELSE limits.n,
                      !.day = IF limits = Torn THEN 0 ELSE limits.day]
  /\ Serverd /\ UNCHANGED <<limitsFile, misc, busy, since>>

\* The modification time is taken after the lock was given back.
Stat ==
  /\ sv.pc = "stat" /\ SGoto("ceiling")
  /\ changed' = FALSE /\ fresh' = IF "file" \in fresh THEN {"file", "serverd"} ELSE {}
  /\ Serverd /\ UNCHANGED <<limits, misc, busy, since>>

\* CHECK_LIST_CEILING: on a new day the count starts at 0.
NewCount ==
  /\ sv.pc = "ceiling" /\ sv.day # day /\ misc = None
  /\ sv' = [sv EXCEPT !.pc = "write", !.nmess = 0, !.day = day]
  /\ misc' = "serverd" /\ limits' = Torn /\ Touched
  /\ Serverd /\ UNCHANGED <<busy, since>>

WriteNewCount ==
  /\ sv.pc = "write" /\ SGoto("decide")
  /\ limits' = Entry(0, sv.day) /\ Touched /\ misc' = None /\ since' = 0
  /\ Serverd /\ UNCHANGED busy

SameDay ==
  /\ sv.pc = "ceiling" /\ sv.day = day /\ SGoto("decide")
  /\ Serverd /\ UNCHANGED <<limitsFile, misc, busy, since>>

OverCeiling == sv.nmess >= 1 + MaxMessages

\* No list process is started.
Skip ==
  /\ sv.pc = "decide" /\ OverCeiling /\ SGoto("idle")
  /\ Serverd /\ UNCHANGED <<limitsFile, misc, busy, since>>

\* run_program; busy, or error_processing, is set.
Spawn ==
  /\ sv.pc = "decide" /\ ~OverCeiling /\ SGoto("idle")
  /\ busy' = [busy EXCEPT ![sv.kind] = TRUE]
  /\ proc' = [proc EXCEPT ![sv.kind].pc = "check"]
  /\ UNCHANGED <<day, mails, limitsFile, holdf, misc, listproc, since>>

ServerdStep == (\E k \in Boxes : Look(k)) \/ Read \/ Stat \/ NewCount \/ WriteNewCount
               \/ SameDay \/ Skip \/ Spawn

-----------------------------------------------------------------------------
(* A list process, "list -1" or "list -1 -E" *)

At(k, where)   == proc[k].pc = where
PGoto(k, where) == proc' = [proc EXCEPT ![k].pc = where]
ListOnly == UNCHANGED <<day, arrived, holdf, misc, sv, listproc>>

\* check_message_limit, which reads 0 from an empty file
LimitReached_after ==
  limits \notin {NoFile, Torn} /\ limits.n > MaxMessages
LimitReached ==
  limits \notin {NoFile, Torn} /\ limits.n >= MaxMessages

\* main: at the limit one is added, "so that serverd will stop the following
\* ones", and the process ends; else the mailbox is moved away, some time later
\* and under another lock.
Refuse(k) ==
  /\ At(k, "check") /\ LimitReached
  /\ proc' = [proc EXCEPT ![k].pc = "inc", ![k].last = TRUE]
  /\ ListOnly /\ UNCHANGED <<box, limitsFile, busy, since>>

PassCheck(k) ==
  /\ At(k, "check") /\ ~LimitReached /\ PGoto(k, "take")
  /\ ListOnly /\ UNCHANGED <<box, limitsFile, busy, since>>

TakeMail(k) ==
  /\ At(k, "take")
  /\ proc' = [proc EXCEPT ![k].pc = "next", ![k].left = box[k]]
  /\ box' = [box EXCEPT ![k] = 0]
  /\ ListOnly /\ UNCHANGED <<limitsFile, busy, since>>

\* process_mbox_file: the limit does not end the batch.
ProcessOne(k) ==
  /\ At(k, "next") /\ proc[k].left > 0
  /\ proc' = [proc EXCEPT ![k].pc = "inc", ![k].left = @ - 1]
  /\ since' = since + 1
  /\ ListOnly /\ UNCHANGED <<box, limitsFile, busy>>

\* inc_message_limit takes no lock.  A file emptied by another process leaves
\* the count uninitialized.  Without a file nothing is counted.
IncRead(k) ==
  /\ At(k, "inc") /\ limits # NoFile
  /\ \E n \in IF limits = Torn THEN Garbage ELSE {limits.n} :
       proc' = [proc EXCEPT ![k].pc = "truncate", ![k].n = n, ![k].day = day]
  /\ ListOnly /\ UNCHANGED <<box, limitsFile, busy, since>>

IncNothing(k) ==
  /\ At(k, "inc") /\ limits = NoFile /\ PGoto(k, IF proc[k].last THEN "exit" ELSE "next")
  /\ ListOnly /\ UNCHANGED <<box, limitsFile, busy, since>>

IncTruncate(k) ==
  /\ At(k, "truncate") /\ PGoto(k, "write")
  /\ limits' = Torn /\ Touched
  /\ ListOnly /\ UNCHANGED <<box, busy, since>>

\* The old count with the new date.
Incremented(p) == IF p.n = MaxCount THEN MaxCount ELSE p.n + 1
IncWrite(k) ==
  /\ At(k, "write") /\ PGoto(k, IF proc[k].last THEN "exit" ELSE "next")
  /\ limits' = Entry(Incremented(proc[k]), proc[k].day) /\ Touched
  /\ ListOnly /\ UNCHANGED <<box, busy, since>>

NoProcess == [pc |-> None, left |-> 0, n |-> 0, day |-> 0, last |-> FALSE]

\* The process ends and serverd's SIGCHLD handler frees the list.
EndList(k) ==
  /\ At(k, "exit") \/ (At(k, "next") /\ proc[k].left = 0)
  /\ proc' = [proc EXCEPT ![k] = NoProcess]
  /\ busy' = [busy EXCEPT ![k] = FALSE]
  /\ ListOnly /\ UNCHANGED <<box, limitsFile, since>>

ListStep(k) == Refuse(k) \/ PassCheck(k) \/ TakeMail(k) \/ ProcessOne(k) \/ IncRead(k)
               \/ IncNothing(k) \/ IncTruncate(k) \/ IncWrite(k) \/ EndList(k)

-----------------------------------------------------------------------------
(* HOLD and FREE in a listproc process *)

Listproc == UNCHANGED <<day, mails, sv, busy, proc, asked>>
LGoto(where) == lp' = [lp EXCEPT !.pc = where]

Ask(op, sender) ==
  /\ lp.pc = "idle" /\ asked < MaxRequests /\ asked' = asked + 1
  /\ lp' = [pc |-> "lock", op |-> op, sender |-> sender]
  /\ UNCHANGED <<day, mails, limitsFile, holdf, misc, sv, busy, proc, since>>
HoldList(sender) == Ask("HOLD", sender)
FreeList(sender) == Ask("FREE", sender)

\* lpl_lock(LPL_WRITE, LPL_LIST_MISC)
Lock ==
  /\ lp.pc = "lock" /\ misc = None /\ misc' = "listproc" /\ LGoto("act")
  /\ Listproc /\ UNCHANGED <<limitsFile, holdf, since>>

\* The manager may always hold a list, an owner if nobody else does.
PutHold ==
  /\ lp.pc = "act" /\ lp.op = "HOLD"
  /\ holdf' = IF lp.sender = "manager" \/ holdf = None THEN lp.sender ELSE holdf
  /\ misc' = None /\ LGoto("idle")
  /\ Listproc /\ UNCHANGED <<limitsFile, since>>

\* An owner cannot free a list that the manager holds.
Refused == lp.sender = "owner" /\ holdf = "manager"
RefuseFree ==
  /\ lp.pc = "act" /\ lp.op = "FREE" /\ Refused
  /\ misc' = None /\ LGoto("idle")
  /\ Listproc /\ UNCHANGED <<limitsFile, holdf, since>>

Free ==
  /\ lp.pc = "act" /\ lp.op = "FREE" /\ ~Refused
  /\ holdf' = None
  /\ limits' = Torn /\ Touched /\ LGoto("write")
  /\ Listproc /\ UNCHANGED <<misc, since>>

WriteFree ==
  /\ lp.pc = "write" /\ LGoto("idle")
  /\ limits' = Entry(0, day) /\ Touched /\ since' = 0 /\ misc' = None
  /\ Listproc /\ UNCHANGED holdf

ListprocStep == Lock \/ PutHold \/ RefuseFree \/ Free \/ WriteFree

-----------------------------------------------------------------------------
(* The rest of the world *)

\* catmail appends a message to one of the mailboxes.
Arrive(k) ==
  /\ arrived < MaxArrivals /\ arrived' = arrived + 1
  /\ box' = [box EXCEPT ![k] = @ + 1]
  /\ UNCHANGED <<day, limitsFile, holdf, misc, sv, busy, proc, listproc, since>>

Midnight ==
  /\ day < MaxDays /\ day' = day + 1 /\ fresh' = {}
  /\ UNCHANGED <<mails, limits, changed, holdf, misc, sv, busy, proc, listproc, since>>

\* A second goes by.
Second ==
  /\ fresh # {} /\ fresh' = {}
  /\ UNCHANGED <<day, mails, limits, changed, holdf, misc, sv, busy, proc, listproc, since>>

Step ==
  \/ ServerdStep \/ ListprocStep \/ Midnight \/ Second
  \/ \E k \in Boxes : ListStep(k) \/ Arrive(k)
  \/ \E s \in Askers : HoldList(s) \/ FreeList(s)

\* Who has read the count to change it, or truncated the file.
Changing ==
  {k \in Boxes : proc[k].pc \in {"truncate", "write"}}
  \cup {w \in {"serverd"} : sv.pc = "write"} \cup {w \in {"listproc"} : lp.pc = "write"}

\* The messages that are counted in since and not yet in the file.
Counting == {k \in Boxes : proc[k].pc \in {"inc", "truncate", "write"}}

\* What the check of a list process does not see: all, when the file is just
\* emptied; messages that are just being counted; and the messages the other
\* process begins before the mailbox is moved.
Unchecked == [blind |-> FALSE, unseen |-> 0]
CheckedBy(k) ==
  CASE proc[k].pc = "check" /\ proc'[k].pc = "take" ->
         [blind |-> limits = Torn, unseen |-> Cardinality(Counting)]
    [] proc[k].pc = "take" /\ proc'[k].pc = "take" ->
         [checked[k] EXCEPT !.unseen = IF since' > since THEN @ + 1 ELSE @]
    [] OTHER -> Unchecked
Watch ==
  /\ raced'   = (raced \/ Cardinality(Changing') > 1)
  /\ checked' = [k \in Boxes |-> CheckedBy(k)]
LNext == Step /\ Watch

LInit ==
  /\ day = 1 /\ box = [k \in Boxes |-> 0] /\ arrived = 0
  /\ limits \in {NoFile, Entry(0, 0)} /\ changed = FALSE /\ fresh = {} /\ holdf = None /\ misc = None
  /\ sv = [pc |-> "idle", kind |-> "mail", nmess |-> 0, day |-> 0]
  /\ busy = [k \in Boxes |-> FALSE] /\ proc = [k \in Boxes |-> NoProcess]
  /\ lp = [pc |-> "idle", op |-> "HOLD", sender |-> "owner"] /\ asked = 0
  /\ since = 0 /\ raced = FALSE /\ checked = [k \in Boxes |-> Unchecked]

\* The processes go on.
LimitFairness ==
  /\ WF_lvars(ServerdStep /\ Watch) /\ WF_lvars(ListprocStep /\ Watch)
  /\ \A k \in Boxes : WF_lvars(ListStep(k) /\ Watch) /\ SF_lvars(Look(k) /\ Watch)

LSpec == LInit /\ [][LNext]_lvars /\ LimitFairness

-----------------------------------------------------------------------------
(* Properties *)

\* Type invariant: the values of the variables, and who is in the middle of
\* something: who has the lock, and who has emptied the file.
Places == {"idle", "read", "stat", "ceiling", "write", "decide"}
Stages == {"check", "take", "next", "inc", "truncate", "write", "exit"}
LimitKinds ==
  /\ day \in 1..MaxDays /\ arrived \in 0..MaxArrivals /\ box \in [Boxes -> Nat]
  /\ limits \in {NoFile, Torn} \cup [n : Counts, day : 0..day] /\ changed \in BOOLEAN
  /\ fresh \in SUBSET {"file", "serverd"}
  /\ holdf \in Askers \cup {None} /\ misc \in {"serverd", "listproc", None}
  /\ sv \in [pc : Places, kind : Boxes, nmess : Counts, day : 0..day]
  /\ busy \in [Boxes -> BOOLEAN]
  /\ proc \in [Boxes -> [pc : Stages \cup {None}, left : Nat, n : Counts, day : 0..day, last : BOOLEAN]]
  /\ lp \in [pc : {"idle", "lock", "act", "write"}, op : {"HOLD", "FREE"}, sender : Askers]
  /\ asked \in 0..MaxRequests /\ since \in Nat /\ raced \in BOOLEAN
  /\ checked \in [Boxes -> [blind : BOOLEAN, unseen : Nat]]

InTheMiddle ==
  /\ \A k \in Boxes : busy[k] <=> ~At(k, None)
  /\ sv.pc = "write" <=> misc = "serverd"
  /\ lp.pc \in {"act", "write"} <=> misc = "listproc"
  /\ limits = Torn => Changing # {}

LTypeOK == LimitKinds /\ InTheMiddle

\* When a batch is begun, fewer messages than the ceiling were processed since
\* the count was last reset, but for those its check could not see: one that the
\* other list process was just counting, and those which the other one began
\* between the check and the move of the mailbox.  Excused are a check that
\* found the file just emptied, and two processes that changed the file at once
\* (inc_message_limit and check_message_limit take no lock).
CeilingKept ==
  [][\A k \in Boxes :
       TakeMail(k) /\ ~raced /\ ~checked[k].blind => since < MaxMessages + checked[k].unseen]_lvars

\* Mail is taken unless the list is held or at its limit.  The only other reason
\* is a FREE that serverd cannot notice: one between its reading of the file and
\* its stat, or in the second of the time that it remembers.  Then it goes on
\* believing that the ceiling is reached until the file is written again, or the
\* next day.
Unnoticed ==
  OverCeiling /\ ~changed /\ limits \notin {NoFile, Torn} /\ limits.n < MaxMessages
MailTaken ==
  \A k \in Boxes :
    box[k] > 0 ~> \/ box[k] = 0 \/ holdf # None \/ raced \/ Unnoticed
                  \/ (limits \notin {NoFile, Torn} /\ limits.n >= MaxMessages)

=============================================================================

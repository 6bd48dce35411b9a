------------------------------ MODULE Posting ------------------------------
(* What a "list" process does with a message from the list's mailbox: ignore *)
(* it, reject it, hold it for the moderators or distribute it; and how the   *)
(* listproc processes let held messages go (APPROVE) or remove them          *)
(* (DISCARD).                                                                *)
(*                                                                           *)
(* Sources: src/bins/list/process_message.c, src/bins/list/moderate.c,       *)
(* src/commands/approve.c, src/commands/discard.c, remove_msg in             *)
(* src/lplib/misc.c, src/lplib/file_list.c and src/objects/email_list.c.     *)
(*                                                                           *)
(* Abstracted: a message is a name, and Attr gives what the checks find in   *)
(* it.  Notices, counters of messages for the reports and the copy in the    *)
(* outbound mbox are left out.  What is read through mmap is taken as a copy *)
(* at the time of the call, and an append is one write.  The moderated file  *)
(* is the set of the tags in it, none if there is no file.  The mailbox is a *)
(* queue (module MboxIntake has its files), and handing a message over to    *)
(* distribute_list_message counts as distributing it (module Delivery).      *)
EXTENDS Integers, Sequences, FiniteSets, Functions

CONSTANTS
  Messages,     \* the messages people send
  Attr,         \* [Messages -> what the checks find in the message]
  Settings,     \* the choices of list options: a set of subsets of OptionNames
  Listprocs,    \* listproc processes that may run at once
  MaxLines,     \* the 2000 lines of .message.ids and .sums
  LineLength,   \* characters in one of those lines
  MaxMail,      \* [Settings -> bound on the messages that arrive, the same one again included]
  MaxRequests,  \* bound on APPROVE and DISCARD requests
  MaxCrashes,   \* bound on killed processes
  List,         \* the list process
  Mod,          \* the path of the list's moderated file
  Lost,         \* a file that has no path any more
  None          \* no process, message, Message-ID

OptionNames == {"moderated", "edit", "all", "owners", "confirm"}
EarlyFaults == {"control", "self", "daemon", "subject", "ignored"}
Faults      == EarlyFaults \cup {"empty", "looped", "request", "unconfirmed", "cut"}
Roles       == {"owner", "moderator", "subscriber", "manager"}

ASSUME PostingAssumption ==
  /\ \A m \in Messages :
       /\ Attr[m].faults \subseteq Faults /\ Attr[m].roles \subseteq Roles
       /\ Attr[m].inner \in Messages \cup {None}  \* the message it encloses
  /\ \A o \in Settings : o \subseteq OptionNames /\ MaxMail[o] \in Nat
  /\ MaxLines \in Nat \ {0} /\ LineLength \in Nat \ {0}
  /\ MaxRequests \in Nat /\ MaxCrashes \in Nat
  /\ IsFiniteSet(Listprocs) /\ List # Mod /\ List # None /\ Mod # Lost /\ Mod # None /\ Lost # None
  /\ {List, Mod, Lost, None} \cap Listprocs = {} /\ None \notin Messages

Places == {Mod} \cup Listprocs  \* a listproc has a temporary file in remove_msg

VARIABLES
  options,   \* the options of the list
  arrived,   \* messages that have arrived
  mail,      \* the mailbox: a sequence of [msg, approved]
  pc, cur,   \* the list process: where it is, the entry it handles
  ids, sums, \* .message.ids and .sums: sequences of [line, left]
  temp,      \* the shortened copy of one of them, before it is renamed
  recorded,  \* all the Message-IDs ever written to .message.ids (history)
  lostAt,    \* how many were recorded when a death lost .message.ids (history)
  tagged,    \* the message of each tag given so far; its length is .tag.id
  notified,  \* the tags the moderators were told of
  forwarded, \* messages sent to the moderators for editing
  dist,      \* [Messages -> how often it was distributed]
  held,      \* the tags whose message was appended (history)
  file,      \* [Places -> the tags in it]
  fd,        \* [{List} \cup Listprocs -> the place of the file it writes, None]
  lock,      \* the holder of LPL_LIST_MODERATED
  lp,        \* [Listprocs -> [pc, op, tags, snap]]
  asked,     \* APPROVE and DISCARD requests so far
  let,       \* the tags an authorised APPROVE named (history)
  gone,      \* for each tag, how often the message was approved or discarded
  overlap,   \* two processes have rewritten the moderated file at once (history)
  crashes

world   == <<arrived, mail>>
history == <<ids, sums, temp, recorded, lostAt>>
tagids  == <<tagged, notified>>
posted  == <<forwarded, dist>>
modfile == <<file, fd>>
listp   == <<pc, cur>>
requests == <<lp, asked, let>>
vars    == <<options, world, listp, history, tagids, posted, held, modfile, lock,
             requests, gone, overlap, crashes>>

-----------------------------------------------------------------------------
(* The files .message.ids and .sums *)

\* add_line_to_file appends the line, ...
Line(s) == [line |-> s, left |-> LineLength]
Full(f) == Len(f) >= MaxLines

\* ... but a file of MaxLines lines is replaced by one without its first character:
\* it is unlinked, and then the shortened copy is renamed.
Shortened_notWritten(f, s) == Tail(f)
Shortened(f, s) ==
  Append(IF f[1].left = 1 THEN Tail(f) ELSE [f EXCEPT ![1].left = @ - 1], Line(s))

\* line_in_file: a mutilated line does not match.
InFile(f, s) == \E i \in DOMAIN f : f[i].line = s /\ f[i].left = LineLength

-----------------------------------------------------------------------------
(* The checks of process_list_message *)

Has(m, fault) == fault \in Attr[m].faults
Privileged(m) == Attr[m].roles \cap {"owner", "moderator"} # {}

IgnoredEarly(m) == Attr[m].faults \cap EarlyFaults # {}
KnownId(m)      == Attr[m].id # None /\ InFile(ids, Attr[m].id)
IgnoredLate(m)  == Has(m, "empty") \/ InFile(sums, Attr[m].sum) \/ Has(m, "looped")

\* reject_list_message: no command words; the right role; and, if the list asks
\* for it, a Confirm: line with a password.
Unconfirmed(m) == "confirm" \in options /\ Has(m, "unconfirmed")
NotAllowed(m) ==
  /\ "all" \notin options /\ "manager" \notin Attr[m].roles
  /\ \/ ~Privileged(m) /\ ("owners" \in options \/ "subscriber" \notin Attr[m].roles)
     \/ Unconfirmed(m)
Rejected(m) == Has(m, "request") \/ NotAllowed(m)

-----------------------------------------------------------------------------
(* The list process *)

Go(where)  == pc' = where /\ cur' = IF where = "idle" THEN None ELSE cur
ListOnly   == UNCHANGED <<options, arrived, lock, requests, crashes>>

\* A message leaves the mailbox.
Fetch ==
  /\ pc = "idle" /\ mail # <<>>
  /\ cur' = Head(mail) /\ mail' = Tail(mail) /\ pc' = "screen"
  /\ ListOnly /\ UNCHANGED <<arrived, history, tagids, posted, held, modfile, gone>>

\* A message the moderators have let go is sent as it is.
SkipChecks ==
  /\ pc = "screen" /\ cur.approved
  /\ Go("out")
  /\ ListOnly /\ UNCHANGED <<world, history, tagids, posted, held, modfile, gone>>

\* check_message_id: an unknown ID is recorded, whatever becomes of the message.
CheckId ==
  /\ pc = "screen" /\ ~cur.approved /\ ~IgnoredEarly(cur.msg) /\ ~KnownId(cur.msg)
  /\ LET id == Attr[cur.msg].id
     IN  \/ id = None /\ Go("judge") /\ UNCHANGED <<ids, temp, recorded>>
         \/ /\ id # None /\ ~Full(ids) /\ Go("judge")
            /\ ids' = Append(ids, Line(id)) /\ recorded' = Append(recorded, id) /\ UNCHANGED temp
         \/ /\ id # None /\ Full(ids) /\ Go("ids")
            /\ ids' = <<>> /\ temp' = Shortened(ids, id) /\ UNCHANGED recorded
  /\ ListOnly /\ UNCHANGED <<world, sums, lostAt, tagids, posted, held, modfile, gone>>

ReplaceIds ==
  /\ pc = "ids" /\ Go("judge")
  /\ ids' = temp /\ temp' = <<>> /\ recorded' = Append(recorded, Attr[cur.msg].id)
  /\ ListOnly /\ UNCHANGED <<world, sums, lostAt, tagids, posted, held, modfile, gone>>

\* The message is unlinked, the owners are told.
Ignore ==
  /\ \/ pc = "screen" /\ ~cur.approved /\ (IgnoredEarly(cur.msg) \/ KnownId(cur.msg))
     \/ pc = "judge" /\ IgnoredLate(cur.msg)
  /\ Go("idle")
  /\ ListOnly /\ UNCHANGED <<world, history, tagids, posted, held, modfile, gone>>

\* The message is unlinked, the sender is told.
Reject ==
  /\ pc = "judge" /\ ~IgnoredLate(cur.msg) /\ Rejected(cur.msg)
  /\ Go("idle")
  /\ ListOnly /\ UNCHANGED <<world, history, tagids, posted, held, modfile, gone>>

\* Where an accepted message goes: process_moderated_edit_message drops one
\* that ends at the separator and sends others' messages to the moderators.
Route_anyRole(m) ==
  IF "moderated" \notin options \/ Attr[m].roles # {} THEN "send"
  ELSE IF "edit" \in options THEN "forward" ELSE "tag"
Route(m) ==
  IF "moderated" \notin options THEN "send"
  ELSE IF ~Privileged(m) THEN (IF "edit" \in options THEN "forward" ELSE "tag")
  ELSE IF "edit" \in options /\ Has(m, "cut") THEN "idle"
  ELSE "send"

Accept ==
  /\ pc = "judge" /\ ~IgnoredLate(cur.msg) /\ ~Rejected(cur.msg)
  /\ Go(Route(cur.msg))
  /\ ListOnly /\ UNCHANGED <<world, history, tagids, posted, held, modfile, gone>>

\* moderated_edit_notify
Forward ==
  /\ pc = "forward"
  /\ forwarded' = forwarded \cup {cur.msg}
  /\ Go("idle")
  /\ ListOnly /\ UNCHANGED <<world, history, tagids, dist, held, modfile, gone>>

\* get_next_tag_id
GiveTag ==
  /\ pc = "tag"
  /\ tagged' = Append(tagged, cur.msg) /\ gone' = Append(gone, 0)
  /\ Go("notify")
  /\ ListOnly /\ UNCHANGED <<world, history, notified, posted, held, modfile>>

\* moderated_no_edit_notify: the moderators learn the tag before the message is
\* where APPROVE looks for it.
Notify ==
  /\ pc = "notify"
  /\ notified' = notified \cup {Len(tagged)}
  /\ Go("open")
  /\ ListOnly /\ UNCHANGED <<world, history, tagged, posted, held, modfile, gone>>

\* add_to_moderated_file opens the moderated file for appending, without
\* taking its lock, ...
OpenModerated ==
  /\ pc = "open"
  /\ fd' = [fd EXCEPT ![List] = Mod]
  /\ Go("append")
  /\ ListOnly /\ UNCHANGED <<world, history, tagids, posted, held, file, gone>>

\* ... and writes the message with its tag.
AppendModerated ==
  /\ pc = "append"
  /\ file' = IF fd[List] = Lost THEN file
             ELSE [file EXCEPT ![fd[List]] = @ \cup {Len(tagged)}]
  /\ fd' = [fd EXCEPT ![List] = None]
  /\ held' = held \cup {Len(tagged)}
  /\ Go("idle")
  /\ ListOnly /\ UNCHANGED <<world, history, tagids, posted, gone>>

\* extract_moderated_edit_message takes the message enclosed in a moderator's.
Outgoing(m) ==
  IF {"moderated", "edit"} \subseteq options /\ Attr[m].inner # None
  THEN Attr[m].inner ELSE m

\* save_message_checksum (not for one that was approved)
SaveSum ==
  /\ pc = "send"
  /\ LET sum == Attr[cur.msg].sum
     IN  \/ ~Full(sums) /\ Go("out") /\ sums' = Append(sums, Line(sum)) /\ UNCHANGED temp
         \/ Full(sums) /\ Go("sums") /\ sums' = <<>> /\ temp' = Shortened(sums, sum)
  /\ ListOnly /\ UNCHANGED <<world, ids, recorded, lostAt, tagids, posted, held, modfile, gone>>

ReplaceSums ==
  /\ pc = "sums" /\ Go("out")
  /\ sums' = temp /\ temp' = <<>>
  /\ ListOnly /\ UNCHANGED <<world, ids, recorded, lostAt, tagids, posted, held, modfile, gone>>

\* distribute_list_message
Send ==
  /\ pc = "out"
  /\ dist' = [dist EXCEPT ![IF cur.approved THEN cur.msg ELSE Outgoing(cur.msg)] = @ + 1]
  /\ Go("idle")
  /\ ListOnly /\ UNCHANGED <<world, history, tagids, forwarded, held, modfile, gone>>

ListStep == Fetch \/ SkipChecks \/ CheckId \/ ReplaceIds \/ Ignore \/ Reject \/ Accept \/ Forward
            \/ GiveTag \/ Notify \/ OpenModerated \/ AppendModerated \/ SaveSum \/ ReplaceSums \/ Send

-----------------------------------------------------------------------------
(* APPROVE and DISCARD in a listproc process *)

Done == [pc |-> "idle", op |-> "approve", tags |-> <<>>, snap |-> {}]
Tag(p) == Head(lp[p].tags)
At(p, where)     == lp[p].pc = where
Goto(p, where)   == lp' = [lp EXCEPT ![p].pc = where]
Without_keeps(f, t) == f
Without(f, t)    == f \ {t}
Moves(from, to)  == [w \in DOMAIN fd |-> IF fd[w] = from THEN to ELSE fd[w]]
ProcOnly == UNCHANGED <<options, arrived, listp, history, tagids, posted, held>>

\* The next tag of the request, or its end.
NextTag(p) ==
  lp' = [lp EXCEPT ![p].tags = Tail(@),
                   ![p].snap = {},
                   ![p].pc = IF Len(lp[p].tags) = 1 THEN "exit" ELSE "lock"]

\* A request arrives; one from somebody who is neither the manager nor an owner
\* or moderator, or with a wrong password, is refused.
Ask(p, op, tags, authorised) ==
  /\ At(p, "idle") /\ asked < MaxRequests /\ asked' = asked + 1
  /\ IF authorised
     THEN /\ lp' = [lp EXCEPT ![p] = [pc |-> "lock", op |-> op, tags |-> tags, snap |-> {}]]
          /\ let' = IF op = "approve" THEN let \cup Range(tags) ELSE let
     ELSE UNCHANGED <<lp, let>>
  /\ ProcOnly /\ UNCHANGED <<mail, modfile, lock, gone, crashes>>
Approve(p, tags, authorised) == Ask(p, "approve", tags, authorised)
Discard(p, tags, authorised) == Ask(p, "discard", tags, authorised)

\* lpl_lock(LPL_WRITE, LPL_LIST_MODERATED): free, or held by this process.
Lock(p) ==
  /\ At(p, "lock") /\ lock \in {None, p} /\ lock' = p
  /\ Goto(p, "look")
  /\ ProcOnly /\ UNCHANGED <<mail, modfile, asked, let, gone, crashes>>

\* "Can't open moderated file" or "Message Tag not found": the function returns
\* without unlocking.
Miss(p) ==
  /\ At(p, "look") /\ Tag(p) \notin file[Mod]
  /\ NextTag(p)
  /\ ProcOnly /\ UNCHANGED <<mail, modfile, lock, asked, let, gone, crashes>>

\* The tag is found.
Look(p) ==
  /\ At(p, "look") /\ Tag(p) \in file[Mod]
  /\ lp' = [lp EXCEPT ![p].pc = IF lp[p].op = "approve" THEN "mail" ELSE "unlink",
                      ![p].snap = file[Mod]]
  /\ ProcOnly /\ UNCHANGED <<mail, modfile, lock, asked, let, gone, crashes>>

\* approve_moderated_message appends the message to the mailbox under the
\* mailbox's lock; its first line says it was approved.
MailedTag(p) == Tag(p)
ToMail(p) ==
  /\ At(p, "mail")
  /\ mail' = Append(mail, [msg |-> tagged[MailedTag(p)], approved |-> TRUE])
  /\ gone' = [gone EXCEPT ![MailedTag(p)] = @ + 1]
  /\ Goto(p, "unlink")
  /\ ProcOnly /\ UNCHANGED <<modfile, lock, asked, let, crashes>>

\* unlink(modfile)
Unlink(p) ==
  /\ At(p, "unlink")
  /\ file' = [file EXCEPT ![Mod] = {}] /\ fd' = Moves(Mod, Lost)
  /\ Goto(p, "rename")
  /\ ProcOnly /\ UNCHANGED <<mail, lock, asked, let, gone, crashes>>

\* rename(tempfile, modfile) and lpl_unlock; approve goes on with remove_msg.
Rename(p) ==
  /\ At(p, "rename")
  /\ file' = [file EXCEPT ![Mod] = Without(lp[p].snap, Tag(p))] /\ fd' = Moves(Mod, Lost)
  /\ lock' = None
  /\ IF lp[p].op = "approve"
     THEN lp' = [lp EXCEPT ![p].pc = "mv", ![p].snap = {}] /\ UNCHANGED gone
     ELSE NextTag(p) /\ gone' = [gone EXCEPT ![Tag(p)] = @ + 1]
  /\ ProcOnly /\ UNCHANGED <<mail, asked, let, crashes>>

\* remove_msg takes no lock.  It moves the file to a temporary one, which stays
\* empty if there is none to move, ...
MoveAway(p) ==
  /\ At(p, "mv")
  /\ file' = [file EXCEPT ![Mod] = {}, ![p] = file[Mod]]
  /\ fd' = Moves(Mod, p)
  /\ Goto(p, "create")
  /\ ProcOnly /\ UNCHANGED <<mail, lock, asked, let, gone, crashes>>

\* ... opens the file anew, emptying one that has appeared, ...
Create(p) ==
  /\ At(p, "create")
  /\ file' = [file EXCEPT ![Mod] = {}] /\ fd' = [fd EXCEPT ![p] = Mod]
  /\ Goto(p, "copy")
  /\ ProcOnly /\ UNCHANGED <<mail, lock, asked, let, gone, crashes>>

\* ... and writes what is left from the start of it, over what is there.
CopyBack(p) ==
  /\ At(p, "copy")
  /\ LET rest == Without(file[p], Tag(p))
         put  == IF fd[p] = Lost \/ rest = {} THEN file ELSE [file EXCEPT ![fd[p]] = rest]
     IN  file' = [put EXCEPT ![p] = {}]
  /\ fd' = [Moves(p, Lost) EXCEPT ![p] = None]
  /\ NextTag(p)
  /\ ProcOnly /\ UNCHANGED <<mail, lock, asked, let, gone, crashes>>

\* The process ends, and its locks with it.
Exit(p) ==
  /\ At(p, "exit")
  /\ lp' = [lp EXCEPT ![p] = Done]
  /\ lock' = IF lock = p THEN None ELSE lock
  /\ ProcOnly /\ UNCHANGED <<mail, modfile, asked, let, gone, crashes>>

ProcStep(p) == Lock(p) \/ Miss(p) \/ Look(p) \/ ToMail(p) \/ Unlink(p) \/ Rename(p)
               \/ MoveAway(p) \/ Create(p) \/ CopyBack(p) \/ Exit(p)

-----------------------------------------------------------------------------
(* The rest of the world *)

\* Somebody sends a message; an answer to an edit request follows the request.
Arrive(m) ==
  /\ arrived < MaxMail[options] /\ (Attr[m].inner # None => Attr[m].inner \in forwarded)
  /\ arrived' = arrived + 1
  /\ mail' = Append(mail, [msg |-> m, approved |-> FALSE])
  /\ UNCHANGED <<options, listp, history, tagids, posted, held, modfile, lock,
                 requests, gone, crashes>>

Crash == crashes < MaxCrashes /\ crashes' = crashes + 1

\* The list process is killed.  The message it was at is not taken up again:
\* the mbox counter is past it (module MboxIntake).  A shortened copy stays where
\* nobody looks for it.
KillList ==
  /\ pc # "idle" /\ Crash
  /\ Go("idle") /\ fd' = [fd EXCEPT ![List] = None]
  /\ temp' = <<>> /\ lostAt' = IF pc = "ids" THEN lostAt \cup {Len(recorded)} ELSE lostAt
  /\ UNCHANGED <<options, world, ids, sums, recorded, tagids, posted, held, file, lock, requests, gone>>

\* A listproc process is killed (SIGINT and SIGTERM are blocked in the loop).
KillProc(p) ==
  /\ ~At(p, "idle") /\ Crash
  /\ lp' = [lp EXCEPT ![p] = Done]
  /\ lock' = IF lock = p THEN None ELSE lock
  /\ file' = [file EXCEPT ![p] = {}] /\ fd' = [Moves(p, Lost) EXCEPT ![p] = None]
  /\ ProcOnly /\ UNCHANGED <<mail, asked, let, gone>>

Requests == {tags \in UNION {[1..n -> notified] : n \in 1..2} : IsInjective(tags)}

Step ==
  \/ ListStep \/ KillList
  \/ \E m \in Messages : Arrive(m)
  \/ \E p \in Listprocs : ProcStep(p) \/ KillProc(p)
  \/ \E p \in Listprocs, tags \in Requests, authorised \in BOOLEAN :
       Approve(p, tags, authorised) \/ Discard(p, tags, authorised)

\* A process that has read the moderated file and not yet replaced it, that has
\* it open to write, or that has moved it away.
Rewriting == {p \in Listprocs : lp[p].pc \in {"mail", "unlink", "rename", "create", "copy"}}
             \cup (IF pc = "append" THEN {List} ELSE {})

Watch == overlap' = (overlap \/ Cardinality(Rewriting') > 1)
Next  == Step /\ Watch

\* The history files of a list that has been in use for some time.  A new list has
\* none yet.
FullFile == [i \in 1..MaxLines |-> [line |-> None, left |-> LineLength]]

Init ==
  /\ options \in Settings /\ arrived = 0 /\ mail = <<>>
  /\ pc = "idle" /\ cur = None
  /\ ids \in {<<>>, FullFile} /\ sums = ids /\ temp = <<>> /\ recorded = <<>> /\ lostAt = {}
  /\ tagged = <<>> /\ notified = {} /\ forwarded = {} /\ dist = [m \in Messages |-> 0] /\ held = {}
  /\ file = [w \in Places |-> {}] /\ fd = [w \in {List} \cup Listprocs |-> None]
  /\ lock = None /\ lp = [p \in Listprocs |-> Done]
  /\ asked = 0 /\ let = {} /\ gone = <<>>
  /\ overlap = FALSE /\ crashes = 0

Spec == Init /\ [][Next]_vars

-----------------------------------------------------------------------------
(* Properties *)

\* Types, and where the list process is: between giving a tag and writing the
\* message, the tag is the last one given.
Entries == [msg : Messages, approved : BOOLEAN]
Written == {Attr[m].id : m \in Messages} \cup {Attr[m].sum : m \in Messages} \cup {None}
Lines   == [line : Written, left : 1..LineLength]
Work    == [pc : {"idle", "lock", "look", "mail", "unlink", "rename", "mv", "create", "copy", "exit"},
            op : {"approve", "discard"}, tags : Seq(notified), snap : SUBSET held]
TypeOK ==
  /\ options \in Settings /\ arrived \in 0..MaxMail[options] /\ mail \in Seq(Entries)
  /\ pc \in {"idle", "screen", "ids", "judge", "forward", "tag", "notify", "open", "append",
             "send", "sums", "out"}
  /\ (pc = "idle" => cur = None) /\ (pc # "idle" => cur \in Entries)
  /\ ids \in Seq(Lines) /\ sums \in Seq(Lines) /\ temp \in Seq(Lines)
  /\ recorded \in Seq(Written) /\ lostAt \subseteq 0..Len(recorded)
  /\ tagged \in Seq(Messages) /\ notified \subseteq DOMAIN tagged /\ held \subseteq notified
  /\ (pc = "notify" => tagged # <<>>) /\ (pc \in {"open", "append"} => Len(tagged) \in notified)
  /\ forwarded \subseteq Messages /\ dist \in [Messages -> Nat]
  /\ file \in [Places -> SUBSET held] /\ gone \in Seq(Nat) /\ Len(gone) = Len(tagged)
  /\ fd \in [{List} \cup Listprocs -> Places \cup {Lost, None}]
  /\ lock \in Listprocs \cup {None} /\ lp \in [Listprocs -> Work]
  /\ \A p \in Listprocs : ~At(p, "idle") /\ ~At(p, "exit") => lp[p].tags # <<>>
  /\ asked \in 0..MaxRequests /\ let \subseteq notified
  /\ overlap \in BOOLEAN /\ crashes \in 0..MaxCrashes

\* A held message is in the moderated file or in what a process is about to put in
\* its place, and no APPROVE has mailed it.
Holds(p) == CASE lp[p].pc \in {"create", "copy"} -> file[p]
              [] At(p, "rename") -> (IF lp[p].op = "discard" THEN lp[p].snap
                                     ELSE Without(lp[p].snap, Tag(p)))
              [] OTHER -> {}
Seen == file[Mod] \cup UNION {Holds(p) : p \in Listprocs}
Leaving(t) == \E p \in Listprocs : At(p, "unlink") /\ lp[p].op = "approve" /\ Tag(p) = t
Waiting(t) == t \in Seen /\ ~Leaving(t)

\* Unless two processes were rewriting the moderated file at once, a held message
\* is either waiting or was let go or discarded once; a death lets one message at
\* most be decided again.
DecidedOnce ==
  ~overlap => \A t \in held : /\ gone[t] <= 1 + crashes
                              /\ crashes = 0 => gone[t] = IF Waiting(t) THEN 0 ELSE 1

\* On a list moderated without editing, what is distributed comes from an owner
\* or moderator, or was let go by an APPROVE that named its tag.
OnlyApproved ==
  {"moderated", "edit"} \cap options = {"moderated"} =>
    \A m \in Messages : dist[m] > 0 =>
      Privileged(m) \/ \E t \in let : tagged[t] = m

\* A Message-ID passes the check again only after MaxLines others have been
\* recorded (the limit of .message.ids), whatever became of the first message;
\* unless a list process that was replacing the full file died between the unlink
\* and the rename, after the first and before the second: then all are forgotten.
RepeatsFarApart ==
  \A i, j \in DOMAIN recorded :
    i < j /\ recorded[i] = recorded[j] => j - i > MaxLines \/ \E l \in lostAt : i <= l /\ l < j

=============================================================================

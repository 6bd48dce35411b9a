----------------------------- MODULE MboxIntake -----------------------------
(* How a "list" process takes mail out of the list's mailbox: the mailbox is *)
(* renamed to <mail>.work, its messages are extracted one after the other,   *)
(* and a counter file (<mail>.work.num) remembers how far it got, so that    *)
(* the next process can go on after a crash.                                 *)
(*                                                                           *)
(* Sources: src/bins/list/list.c (main, process_mbox_file), src/objects/     *)
(* mbox.c, src/lputil/lpcounter_file.c, the outline of process_list_message  *)
(* (src/bins/list/process_message.c), catmail's append and serverd's test of *)
(* the mailbox.  The error mailbox (list -E) is read by the same code.       *)
(*                                                                           *)
(* Abstracted: an append by catmail and the rename both hold the mailbox     *)
(* lock (LpLock, theorem Exclusion), so each is one step; a missing and an   *)
(* empty mailbox are alike to both sides; messages are whole; the list has   *)
(* no daily limit (max_messages = 0, check_message_limit returns at once);   *)
(* the process runs once (-1), as serverd starts it.  Whether a message is       *)
(* ignored, rejected, moderated or distributed is left to module Delivery.   *)
(* Every crash and failed open uses up one of MaxFaults.                     *)
EXTENDS Integers, Sequences, FiniteSets, Functions

CONSTANTS Messages,    \* what catmail delivers, each once
          MaxFaults,   \* bound on crashes and failed opens
          NoFile,      \* the content of a file that does not exist
          Torn,        \* the content of a counter file just truncated
          None         \* no message

ASSUME IntakeAssumption ==
  /\ MaxFaults \in Nat /\ IsFiniteSet(Messages) /\ None \notin Messages
  /\ NoFile \notin Seq(Messages) \cup Nat
  /\ Torn \notin Nat \cup {NoFile}

VARIABLES
  mail,       \* the mailbox
  work,       \* <mail>.work, or NoFile
  num,        \* <mail>.work.num: a number, NoFile or Torn
  extracted,  \* the <mail>.work.msg.<n> files
  arrived,    \* the messages in the order catmail appended them
  archive,    \* the list's "mbox": everything handed to process_list_message
  handled,    \* the messages whose processing was completed
  pc,         \* where the list process is
  pass,       \* process_mbox_file is called for a "leftover" or a "new" file
  pos, mnum,  \* mb->pos, as the messages before it, and mb->message_num
  cur,        \* the message being processed
  count,      \* the number increment_counter_fp is about to write
  faults,     \* disturbances so far
  hit         \* how often each crash window was hit

files   == <<mail, work, num, extracted>>
effects == <<archive, handled>>
local   == <<pass, pos, mnum, cur, count>>
history == <<arrived, faults, hit>>
vars    == <<files, effects, pc, local, history>>

\* The windows in which a disturbance does more than repeat a step.
Windows == {"inflight", "torn", "stale", "unopened"}

Running == pc # "down"

-----------------------------------------------------------------------------
(* Reading the counter file *)

\* mb_open: what read_counter_file may return.  Of a truncated file fscanf
\* reads nothing and num keeps whatever the stack held.
CounterReadings ==
  CASE num = NoFile -> {0}
    [] num = Torn   -> -1 .. Cardinality(Messages) + 1
    [] OTHER        -> {num}

Skipped_oneMore(n, file) == IF n < 0 THEN 0 ELSE IF n >= Len(file) THEN Len(file) ELSE n + 1

\* The messages mb_skip_message passes over: it stops at the end of the file.
Skipped(n, file) == IF n < 0 THEN 0 ELSE IF n > Len(file) THEN Len(file) ELSE n

\* increment_counter_fp: an unreadable counter counts as 0.
Incremented(old) == IF old \in {NoFile, Torn} THEN 1 ELSE old + 1

Fault(window) ==
  /\ faults < MaxFaults
  /\ faults' = faults + 1
  /\ hit' = IF window \in Windows THEN [hit EXCEPT ![window] = @ + 1] ELSE hit

Calm == UNCHANGED <<faults, hit>>

-----------------------------------------------------------------------------
(* catmail, and serverd starting the process *)

AppendMessage(m) ==
  /\ m \notin Range(arrived)
  /\ arrived' = Append(arrived, m)
  /\ mail' = Append(mail, m)
  /\ UNCHANGED <<work, num, extracted, effects, pc, local>> /\ Calm

\* serverd starts a list process only when the mailbox is not empty.
Start ==
  /\ ~Running /\ mail # <<>>
  /\ pc' = "leftover"
  /\ UNCHANGED <<files, effects, local, arrived>> /\ Calm

-----------------------------------------------------------------------------
(* list: main *)

\* "Check for unfinished messages"
CheckLeftover ==
  /\ pc = "leftover"
  /\ IF work # NoFile
       THEN pc' = "open" /\ pass' = "leftover"
       ELSE pc' = "stat" /\ UNCHANGED pass
  /\ UNCHANGED <<files, effects, pos, mnum, cur, count, arrived>> /\ Calm

\* "rename and process the new mbox": unlink the old one first.
CheckMail ==
  /\ pc = "stat"
  /\ IF mail # <<>>
       THEN pc' = "rename" /\ work' = NoFile
       ELSE pc' = "down" /\ UNCHANGED work
  /\ UNCHANGED <<mail, num, extracted, effects, local, arrived>> /\ Calm

RenameMail ==
  /\ pc = "rename"
  /\ work' = mail /\ mail' = <<>>
  /\ pass' = "new" /\ pc' = "open"
  /\ UNCHANGED <<num, extracted, effects, pos, mnum, cur, count, arrived>> /\ Calm

-----------------------------------------------------------------------------
(* list: process_mbox_file, with mb_open, mb_get_next_message and mb_close *)

AfterMbox == IF pass = "leftover" THEN "stat" ELSE "down"

MbOpen ==
  /\ pc = "open"
  /\ \E n \in CounterReadings : mnum' = n /\ pos' = Skipped(n, work)
  /\ pc' = "next"
  /\ UNCHANGED <<files, effects, pass, cur, count, arrived>> /\ Calm

\* mb_open returns NULL; process_mbox_file's ERROR is ignored by main.
MbOpenFails ==
  /\ pc = "open"
  /\ Fault("unopened")
  /\ pc' = AfterMbox
  /\ UNCHANGED <<files, effects, local, arrived>>

\* mb_get_next_message, up to the message file being written.
Extract ==
  /\ pc = "next" /\ pos < Len(work)
  /\ cur' = work[pos + 1]
  /\ extracted' = [n \in DOMAIN extracted \cup {mnum} |->
                     IF n = mnum THEN cur' ELSE extracted[n]]
  /\ pos' = pos + 1 /\ mnum' = mnum + 1
  /\ pc' = "truncate"
  /\ UNCHANGED <<mail, work, num, effects, pass, count, arrived>> /\ Calm

\* increment_counter_file empties the file and writes the number at fclose.
TruncateCounter ==
  /\ pc = "truncate"
  /\ count' = Incremented(num) /\ num' = Torn /\ pc' = "write"
  /\ UNCHANGED <<mail, work, extracted, effects, pass, pos, mnum, cur, arrived>>
  /\ Calm

WriteCounter ==
  /\ pc = "write"
  /\ num' = count /\ pc' = "process"
  /\ UNCHANGED <<mail, work, extracted, effects, local, arrived>> /\ Calm

\* process_list_message first appends to the outbound mbox.
Process ==
  /\ pc = "process"
  /\ archive' = Append(archive, cur) /\ pc' = "dispose"
  /\ UNCHANGED <<files, handled, local, arrived>> /\ Calm

\* The rest of process_list_message: ignored, rejected, sent to the
\* moderators or distributed.
Dispose ==
  /\ pc = "dispose"
  /\ handled' = Append(handled, cur) /\ pc' = "unlink"
  /\ UNCHANGED <<files, archive, local, arrived>> /\ Calm

UnlinkMessage ==
  /\ pc = "unlink"
  /\ extracted' = [n \in DOMAIN extracted \ {mnum - 1} |-> extracted[n]]
  /\ cur' = None /\ pc' = "next"
  /\ UNCHANGED <<mail, work, num, effects, pass, pos, mnum, count, arrived>> /\ Calm

MbClose_early ==
  /\ pc = "next" /\ pos >= Len(work) - 1
  /\ work' = NoFile /\ pc' = "uncount"
  /\ UNCHANGED <<mail, num, extracted, effects, local, arrived>> /\ Calm

\* mb_close removes the mbox file first ...
MbClose ==
  /\ pc = "next" /\ pos >= Len(work)
  /\ work' = NoFile /\ pc' = "uncount"
  /\ UNCHANGED <<mail, num, extracted, effects, local, arrived>> /\ Calm

\* ... and then the counter file.
RemoveCounter ==
  /\ pc = "uncount"
  /\ num' = NoFile /\ pc' = AfterMbox
  /\ UNCHANGED <<mail, work, extracted, effects, local, arrived>> /\ Calm

-----------------------------------------------------------------------------
\* What a crash at this point loses or leaves behind.
WindowAt ==
  CASE pc \in {"process", "dispose"} -> "inflight"
    [] pc = "write"                  -> "torn"
    [] pc = "uncount"                -> "stale"
    [] OTHER                         -> "harmless"

Crash ==
  /\ Running
  /\ Fault(WindowAt)
  /\ pc' = "down" /\ cur' = None
  /\ UNCHANGED <<files, effects, pass, pos, mnum, count, arrived>>

Init ==
  /\ mail = <<>> /\ work = NoFile /\ num = NoFile /\ extracted = <<>>
  /\ archive = <<>> /\ handled = <<>> 
  /\ pc = "down" /\ pass = "new" /\ pos = 0 /\ mnum = 0 /\ cur = None /\ count = 0
  /\ arrived = <<>> /\ faults = 0 /\ hit = [w \in Windows |-> 0]

ListStep ==
  \/ CheckLeftover \/ CheckMail \/ RenameMail
  \/ MbOpen \/ Extract \/ TruncateCounter \/ WriteCounter
  \/ Process \/ Dispose \/ UnlinkMessage \/ MbClose \/ RemoveCounter

Next ==
  \/ \E m \in Messages : AppendMessage(m)
  \/ Start \/ ListStep \/ MbOpenFails \/ Crash

\* serverd keeps starting the list while it has mail (Dispatch, MailServed),
\* and a list process that is not killed goes on.
Fairness == WF_vars(Start) /\ WF_vars(ListStep)

Spec == Init /\ [][Next]_vars /\ Fairness

-----------------------------------------------------------------------------
(* Properties *)

FileOf(S) == Seq(S) \cup {NoFile}
PCs == {"down", "leftover", "stat", "rename", "open", "next", "truncate",
        "write", "process", "dispose", "unlink", "uncount"}

Handling == {"truncate", "write", "process", "dispose", "unlink"}

\* Type invariant; while a file is read the position never leaves it, and the
\* message being processed is the one before the position.
TypeOK ==
  /\ mail \in Seq(Messages) /\ work \in FileOf(Messages)
  /\ num \in Nat \cup {NoFile, Torn}
  /\ DOMAIN extracted \subseteq Int /\ Range(extracted) \subseteq Messages
  /\ archive \in Seq(Messages) /\ handled \in Seq(Messages) /\ arrived \in Seq(Messages)
  /\ pc \in PCs /\ pass \in {"leftover", "new"}
  /\ pos \in Nat /\ mnum \in Int /\ count \in Nat
  /\ pc \in Handling \cup {"open", "next"} => work # NoFile
  /\ pc \in {"rename", "uncount"} => work = NoFile
  /\ pc = "next" => pos <= Len(work)
  /\ pc \in Handling => pos \in DOMAIN work /\ cur = work[pos]
  /\ pc \notin Handling => cur = None
  /\ faults \in 0 .. MaxFaults /\ hit \in [Windows -> Nat]
  /\ \A w \in Windows : hit[w] <= faults

From(n) == {work[i] : i \in (n + 1) .. Len(work)}

\* The messages of the work file still to be extracted, by this process or,
\* when none reads it, by the next one.
Unread ==
  IF work = NoFile \/ pc \in {"stat", "rename"} THEN {}
  ELSE IF pc \in {"down", "leftover", "open"}
         THEN UNION {From(Skipped(n, work)) : n \in CounterReadings}
         ELSE From(pos)

Lost ==
  Range(arrived) \ (Range(mail) \cup Unread \cup {cur} \cup Range(handled))

Before(x, y) == \E a, b \in DOMAIN arrived : a < b /\ arrived[a] = x /\ arrived[b] = y

\* Messages are processed in the order in which they arrived and none twice,
\* also across mailboxes and crashes, unless the process died between
\* truncating and rewriting the counter file.  A process that dies loses at most
\* the one message it had extracted and not finished: nothing else disappears
\* unless the counter file was torn or outlived its mbox, or the mbox could not
\* be opened.
ProcessedOnce ==
  /\ hit["torn"] = 0 =>
       \A i, j \in DOMAIN archive : i < j => Before(archive[i], archive[j])
  /\ hit["torn"] + hit["stale"] + hit["unopened"] = 0
       => Cardinality(Lost) <= hit["inflight"]

\* Every message delivered into the mailbox is processed if nothing fails.
MailProcessed ==
  \A m \in Messages :
    m \in Range(mail) ~> (m \in Range(handled) \/ faults > 0)

=============================================================================

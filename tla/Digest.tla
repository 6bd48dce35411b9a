------------------------------- MODULE Digest -------------------------------
(* Digests of a list: a list process adds every message it distributes to the *)
(* accumulating files, makes the two digest messages (MIME and plain) when    *)
(* the files are large or when serverd has started it at the digest time, and *)
(* sends them.  serverd keeps a flag and a time stamp file so that the digest *)
(* time comes once a day.                                                     *)
(*                                                                           *)
(* Sources: check_digest and the main loop in src/bins/serverd/serverd.c,     *)
(* src/bins/list/digest.c, distribute_digest, distribute_list_message and     *)
(* complete_previous_delivery in src/bins/list/distribute.c, main in          *)
(* src/bins/list/list.c.                                                      *)
(*                                                                           *)
(* Abstracted: message i is the i-th that arrives; a file is the sequence of  *)
(* the messages in it and no file the empty one; a day is only today or past; *)
(* whether the day's digest time (hour, week day, first of the month) has     *)
(* come is a choice.  The two digests' deliveries are steps (module Delivery).*)
(* LPL_LIST_DIGEST_FILES is taken by list processes only, and serverd runs    *)
(* one at a time (OneWorker of module Dispatch).  .digest.msgno is left out:  *)
(* it is only reported.                                                       *)
EXTENDS Integers, SequencesExt, FiniteSetsExt

CONSTANTS
  MaxMessages,  \* bound on the messages that arrive
  DigestSize,   \* list's digest_lines and digest_bytes: contents of both files
  MaxCrashes,   \* bound on deaths of list processes and of serverd
  MaxForkFaults, \* bound on failed forks
  NoStamp       \* there is no time stamp

ASSUME DigestAssumption ==
  /\ MaxMessages \in Nat /\ DigestSize \in Nat \ {0}
  /\ MaxCrashes \in Nat /\ MaxForkFaults \in Nat

Formats == {"mime", "plain"}
AppendOrder == <<<<"toc", "mime">>, <<"toc", "plain">>, <<"msg", "mime">>, <<"msg", "plain">>>>
ClearOrder_twoFiles == <<<<"toc", "mime">>, <<"msg", "mime">>>>
ClearOrder  == <<<<"toc", "mime">>, <<"msg", "mime">>, <<"toc", "plain">>, <<"msg", "plain">>>>
Files == Range(AppendOrder)

VARIABLES
  posted,   \* messages that have arrived in the mailbox
  taken,    \* messages a list process has taken from it
  file,     \* [Files -> sequence of messages]
  digestno, \* .digestno
  digests,  \* the digest messages made: [format, no, toc, msg, state]
  stamp,    \* .digest.sent: the midnights since it was touched (2: or more), or NoStamp
  at, step, \* the list process, and where it is in a series of files
  run,      \* what it was started for: "mail" or "digest"
  up,       \* serverd runs
  seen,     \* serverd's current_date: "today", a "past" day, or none yet
  done,     \* done_digest
  started,  \* serverd has found that it is time and will spawn the process
  due,      \* today's digest time has come
  crashes, forkFaults

mails  == <<posted, taken>>
disk   == <<file, digestno, digests, stamp>>
listp  == <<at, step, run>>
srv    == <<up, seen, done, started>>
dvars  == <<mails, disk, listp, srv, due, crashes, forkFaults>>

-----------------------------------------------------------------------------
(* The list process *)

Go(where)  == at' = where /\ step' = 1 /\ run' = run
Along(n, where) == IF step = n THEN Go(where) ELSE at' = at /\ step' = step + 1 /\ run' = run
ListOnly   == UNCHANGED <<posted, srv, due, crashes, forkFaults>>

\* complete_previous_delivery sends what has a .proc file.
Resume ==
  /\ at = "resume" /\ Go(IF run = "digest" THEN "make" ELSE "next")
  /\ digests' = [i \in DOMAIN digests |->
                   IF digests[i].state = "ready" THEN [digests[i] EXCEPT !.state = "sent"]
                   ELSE digests[i]]
  /\ ListOnly /\ UNCHANGED <<taken, file, digestno, stamp>>

\* distribute_list_message: the message file and its .proc file are written.
Prepare ==
  /\ at = "next" /\ taken < posted /\ taken' = taken + 1 /\ Go("append")
  /\ ListOnly /\ UNCHANGED disk

\* add_to_digest, a file at a time
AddToDigest ==
  /\ at = "append"
  /\ file' = [file EXCEPT ![AppendOrder[step]] = Append(@, taken)]
  /\ Along(4, "size")
  /\ ListOnly /\ UNCHANGED <<taken, digestno, digests, stamp>>

Size == Len(file[<<"toc", "mime">>]) + Len(file[<<"msg", "mime">>])
CheckSize ==
  /\ at = "size" /\ Go(IF Size >= DigestSize THEN "make" ELSE "next")
  /\ ListOnly /\ UNCHANGED <<taken, disk>>

After == IF run = "digest" THEN "exit" ELSE "next"

\* make_mime_digest, make_nomime_digest: without a contents file or a body there
\* is no digest of that format, and distribute_digest then drops the other.
Complete == \A w \in Files : file[w] # <<>>
New(f) == [format |-> f, no |-> digestno + 1, toc |-> file[<<"toc", f>>],
           msg |-> file[<<"msg", f>>], state |-> "made"]
Make ==
  /\ at = "make"
  /\ IF Complete THEN digests' = digests \o <<New("mime"), New("plain")>> /\ Go("init")
     ELSE UNCHANGED digests /\ Go(After)
  /\ ListOnly /\ UNCHANGED <<taken, file, digestno, stamp>>

Nth(n) == Len(digests) - 2 + n   \* the n-th of the two digests at hand
SetState(i, s) == digests' = [digests EXCEPT ![i].state = s]

\* init_processed_items for one, then the other
InitItems ==
  /\ at = "init" /\ SetState(Nth(step), "ready") /\ Along(2, "clear")
  /\ ListOnly /\ UNCHANGED <<taken, file, digestno, stamp>>

\* clear_digest_files
Clear ==
  /\ at = "clear"
  /\ file' = [file EXCEPT ![ClearOrder[step]] = <<>>]
  /\ Along(Len(ClearOrder), "record")
  /\ ListOnly /\ UNCHANGED <<taken, digestno, digests, stamp>>

\* record_digest_time
Record ==
  /\ at = "record" /\ stamp' = 0 /\ Go("number")
  /\ ListOnly /\ UNCHANGED <<taken, file, digestno, digests>>

\* increment_digest_number
CountDigest ==
  /\ at = "number" /\ digestno' = digestno + 1 /\ Go("send")
  /\ ListOnly /\ UNCHANGED <<taken, file, digests, stamp>>

\* distribute_via_methods
SendDigest ==
  /\ at = "send" /\ SetState(Nth(step), "sent") /\ Along(2, After)
  /\ ListOnly /\ UNCHANGED <<taken, file, digestno, stamp>>

Exit ==
  /\ at = "exit" \/ (at = "next" /\ taken = posted)
  /\ Go("idle")
  /\ ListOnly /\ UNCHANGED <<taken, disk>>

DListStep == Resume \/ Prepare \/ AddToDigest \/ CheckSize \/ Make \/ InitItems \/ Clear
            \/ Record \/ CountDigest \/ SendDigest \/ Exit

-----------------------------------------------------------------------------
(* serverd *)

Busy == at # "idle"
ServerdOnly == UNCHANGED <<mails, file, digestno, digests, due, crashes>>

\* check_digest is not done with a busy list, nor twice.
MayCheck == up /\ ~Busy /\ ~done /\ ~started

\* A stamp means that today's digest was sent: the test for one older than a day
\* compares seconds since midnight with seconds since 1970 and never holds.
FoundStamp ==
  /\ MayCheck /\ stamp # NoStamp
  /\ done' = TRUE
  /\ ServerdOnly /\ UNCHANGED <<stamp, listp, up, seen, started, forkFaults>>

\* "digest time reached": the process is only started if there is a digest.
DigestTime ==
  /\ MayCheck /\ stamp = NoStamp /\ due
  /\ done' = TRUE /\ stamp' = 0
  /\ started' = (file[<<"msg", "mime">>] # <<>>)
  /\ ServerdOnly /\ UNCHANGED <<listp, up, seen, forkFaults>>

SpawnDigest ==
  /\ up /\ started /\ ~Busy /\ started' = FALSE
  /\ at' = "resume" /\ step' = 1 /\ run' = "digest"
  /\ ServerdOnly /\ UNCHANGED <<stamp, up, seen, done, forkFaults>>

\* run_program fails: "digest not sent"
ForkFails ==
  /\ up /\ started /\ forkFaults < MaxForkFaults /\ forkFaults' = forkFaults + 1 /\ started' = FALSE
  /\ ServerdOnly /\ UNCHANGED <<stamp, listp, up, seen, done>>

SpawnForMail ==
  /\ up /\ ~started /\ ~Busy /\ taken < posted
  /\ at' = "resume" /\ step' = 1 /\ run' = "mail"
  /\ ServerdOnly /\ UNCHANGED <<stamp, srv, forkFaults>>

\* New day: unless serverd has only just started, the flag and the stamp go.
NewDay_keepsFlag ==
  /\ up /\ ~started /\ seen # "today" /\ seen' = "today"
  /\ IF seen = "past" THEN stamp' = NoStamp ELSE UNCHANGED stamp
  /\ ServerdOnly /\ UNCHANGED <<listp, up, done, started, forkFaults>>
NewDay ==
  /\ up /\ ~started /\ seen # "today" /\ seen' = "today"
  /\ IF seen = "past" THEN done' = FALSE /\ stamp' = NoStamp ELSE UNCHANGED <<done, stamp>>
  /\ ServerdOnly /\ UNCHANGED <<listp, up, started, forkFaults>>

-----------------------------------------------------------------------------
(* The rest of the world *)

Arrive ==
  /\ posted < MaxMessages /\ posted' = posted + 1
  /\ UNCHANGED <<taken, disk, listp, srv, due, crashes, forkFaults>>

\* A digest time given as a time of day is long after midnight; a week day or
\* the first of the month begins with it, and may be seen before the new day is.
DigestHour ==
  /\ ~due /\ due' = TRUE
  /\ UNCHANGED <<mails, disk, listp, srv, crashes, forkFaults>>

Midnight ==
  /\ due' = FALSE
  /\ stamp' = IF stamp \in {NoStamp, 2} THEN stamp ELSE stamp + 1
  /\ seen' = IF seen = NoStamp THEN NoStamp ELSE "past"
  /\ UNCHANGED <<mails, file, digestno, digests, listp, up, done, started, crashes, forkFaults>>

DCrash == crashes < MaxCrashes /\ crashes' = crashes + 1

\* The message at hand is not taken again (module MboxIntake).
KillList ==
  /\ Busy /\ DCrash /\ Go("idle")
  /\ UNCHANGED <<mails, disk, srv, due, forkFaults>>

KillServerd ==
  /\ up /\ DCrash /\ up' = FALSE /\ started' = FALSE
  /\ UNCHANGED <<mails, disk, listp, seen, done, due, forkFaults>>

\* start kills what is left and runs serverd.
Restart ==
  /\ ~up /\ up' = TRUE /\ seen' = NoStamp /\ done' = FALSE
  /\ Go("idle")
  /\ UNCHANGED <<mails, disk, started, due, crashes, forkFaults>>

DNext ==
  \/ DListStep \/ FoundStamp \/ DigestTime \/ SpawnDigest \/ ForkFails \/ SpawnForMail \/ NewDay
  \/ Arrive \/ DigestHour \/ Midnight \/ KillList \/ KillServerd \/ Restart

DInit ==
  /\ posted = 0 /\ taken = 0
  /\ file = [w \in Files |-> <<>>] /\ digestno = 0 /\ digests = <<>> /\ stamp = NoStamp
  /\ at = "idle" /\ step = 1 /\ run = "mail"
  /\ up = TRUE /\ seen = NoStamp /\ done = FALSE /\ started = FALSE
  /\ due = FALSE /\ crashes = 0 /\ forkFaults = 0

\* The processes go on; serverd looks at the list many times a day.
DFairness ==
  /\ WF_dvars(DListStep) /\ WF_dvars(SpawnDigest) /\ WF_dvars(Restart)
  /\ SF_dvars(DigestTime) /\ SF_dvars(SpawnForMail) /\ SF_dvars(NewDay)
  /\ SF_dvars(DigestHour) /\ WF_dvars(Midnight)

DSpec == DInit /\ [][DNext]_dvars /\ DFairness

-----------------------------------------------------------------------------
(* Properties *)

\* Type invariant.
DTypeOK ==
  /\ taken \in 0..posted /\ posted \in 0..MaxMessages
  /\ \A w \in Files : Range(file[w]) \subseteq 1..taken /\ IsInjective(file[w])
  /\ digestno \in 0..MaxMessages
  /\ \A i \in DOMAIN digests : digests[i].state \in {"made", "ready", "sent"}
  /\ stamp \in {0, 1, 2, NoStamp} /\ seen \in {"today", "past", NoStamp}
  /\ at \in {"make", "init", "clear", "record", "number", "send"} /\ run = "mail" => taken > 0
  /\ {up, done, started, due} \subseteq BOOLEAN /\ started => up
  /\ crashes \in 0..MaxCrashes /\ forkFaults \in 0..MaxForkFaults

\* Digests that are or will be sent: those that have a .proc file.
Valid(f) == {i \in DOMAIN digests : digests[i].format = f /\ digests[i].state # "made"}
Held(f)  == Range(file[<<"msg", f>>]) \cup UNION {Range(digests[i].msg) : i \in Valid(f)}

\* Every message taken waits for a digest or is in one, in both formats, and in
\* no two; each death costs one message or repeats it once.
DigestedOnce ==
  LET accepted == 1..(IF at = "append" THEN taken - 1 ELSE taken)
  IN  \A f \in Formats :
        /\ Cardinality(accepted \ Held(f)) <= crashes
        /\ \A m \in 1..taken :
             Cardinality({i \in Valid(f) : m \in Range(digests[i].msg)}) <= 1 + crashes

\* What has accumulated is put into a digest some day.
DigestSent == Complete ~> ~Complete

=============================================================================

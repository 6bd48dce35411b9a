---------------------------- MODULE Confirmation ----------------------------
(* Requests that wait for a confirmation: the request is kept in a file under *)
(* a cookie, the cookie is mailed to the user, and when it comes back the     *)
(* request is executed.  Cookies that are too old are removed once a day.     *)
(*                                                                            *)
(* Sources: src/commands/confirmation.c, lock_file() of src/lplib/misc.c.     *)
(*                                                                            *)
(* Abstracted: a line of the file is a cookie, the day it was made and        *)
(* whether it has been overwritten with zeros (no two have the same cookie,   *)
(* and nothing depends on their order); what is asked for is left out,        *)
(* and so is the alias that is added when another address confirms.  A write  *)
(* reaches the file when it is closed, which the lock ends with.              *)
EXTENDS Naturals, FiniteSets, Sequences

CONSTANTS
  Workers,        \* listproc processes
  Cookies,      \* the cookies they will make
  Expiration,   \* sys.conf_cookie_expiration, in days
  Nobody, None,
  max_conf_scan, \* how many lines of an answer are looked at
  MaxDay,       \* bound on the days
  MaxReplies,   \* bound on the answers of the users
  MaxDeaths     \* bound on the deaths of processes

ASSUME ConfirmationAssumption ==
  /\ IsFiniteSet(Workers) /\ IsFiniteSet(Cookies) /\ Expiration \in Nat \ {0}
  /\ None \notin Nat
  /\ max_conf_scan \in Nat \ {0} /\ {MaxDay, MaxReplies, MaxDeaths} \subseteq Nat

(* The files that exist or that a process has open. *)
Inodes == 1..(Cardinality(Workers) + 1)

VARIABLES
  name,     \* the inode of the cookie file, or None
  content,  \* [Inodes -> [stamp: day or None, lines: set of lines]]
  lock,     \* [Inodes -> the process that has locked it, or Nobody]
  proc,     \* [Workers -> what the process does]
  day,      \* the clock
  mailed,   \* [Cookies -> the day it was sent to the user, or None]
  runs,     \* [Cookies -> how often the request was executed]
  torn,     \* cookies read or saved while the file was being replaced
  ended,    \* cookies whose request was denied, or whose process died with it
  bound     \* replies and deaths so far

disk  == <<name, content, lock>>
ghost == <<mailed, runs, torn, ended>>
cvars == <<disk, proc, day, ghost, bound>>

-----------------------------------------------------------------------------
Line(c)  == [id |-> c, born |-> day, used |-> FALSE]
Empty    == [stamp |-> None, lines |-> {}]
CIdle    == [st |-> "idle"]
Task(op, c, next) ==
  [st |-> "open", op |-> op, c |-> c, next |-> next, fd |-> None, new |-> Empty]
Busy(p)     == proc[p] # CIdle
Step(p, st) == proc' = [proc EXCEPT ![p].st = st]
End(p)      == proc' = [proc EXCEPT ![p] = CIdle]

Sent     == {c \in Cookies : mailed[c] # None}
InUse(i) == name = i \/ \E p \in Workers : Busy(p) /\ proc[p].fd = i
Free     == CHOOSE i \in Inodes : ~InUse(i)

(* A file that has no name and that nobody has open any more is gone. *)
Keep(files) ==
  content' = [i \in Inodes |->
                IF name' = i \/ \E p \in Workers : proc'[p] # CIdle /\ proc'[p].fd = i
                THEN files[i] ELSE Empty]

(* The cookies in the file, or in the one that takes its place. *)
Replacing(p) == proc[p].st \in {"unlink", "rename"}
Live(f) == {l.id : l \in {x \in f.lines : ~x.used}}
Has(f, c) == c \in Live(f)

Current ==
  IF \E p \in Workers : proc[p].st = "rename"
  THEN UNION {Live(proc[p].new) : p \in {q \in Workers : proc[q].st = "rename"}}
  ELSE IF name = None THEN {} ELSE Live(content[name])

(* Nobody else is about to replace the file, and it has not been replaced    *)
(* since it was opened.                                                      *)
Sure(p) == proc[p].fd = name /\ \A q \in Workers \ {p} : ~Replacing(q)

(* A cookie touched while another process replaces the file, or in a file    *)
(* that was replaced between its opening and its locking.                    *)
Tear(p, cs) ==
  torn' = IF Sure(p) THEN torn ELSE torn \cup cs

(* send_conf_message: a request that has to be confirmed. *)
AskUser(p) ==
  /\ ~Busy(p)
  /\ \E c \in Cookies :
       /\ c \notin Sent /\ \A q \in Workers : Busy(q) => proc[q].c # c
       /\ proc' = [proc EXCEPT ![p] = Task("save", c, <<>>)]
  /\ UNCHANGED <<disk, day, ghost, bound>>

(* find_conf_cookie: the first cookie in the first lines of a text. *)
FindCookie(text) ==
  LET at == {i \in DOMAIN text : i <= max_conf_scan /\ text[i] # None} IN
  IF at = {} THEN None ELSE text[CHOOSE i \in at : \A j \in at : i <= j]

Answers == UNION {[1..n -> Sent \cup {None}] : n \in 0..max_conf_scan + 1}

(* do_confirmed_request: an answer, with a cookie in its body, its subject or *)
(* both; users answer more than once.  The body's is tried first.  The buffer *)
(* for the one that is missing was never set, and may hold that of an earlier *)
(* message; if it holds no cookie it is looked for in vain, as one that is    *)
(* looked for twice is.                                                       *)
Answer(p) ==
  /\ ~Busy(p) /\ bound.replies < MaxReplies
  /\ \E body \in Answers, subject \in Sent \cup {None}, c, d \in Sent :
       /\ FindCookie(body) # None \/ subject # None
       /\ FindCookie(body) \in {None, c} /\ subject \in {None, d}
       /\ proc' = [proc EXCEPT ![p] = Task("get", c, <<d>>)]
  /\ bound' = [bound EXCEPT !.replies = @ + 1]
  /\ UNCHANGED <<disk, day, ghost>>

(* lock_file: the file is created if it does not exist ... *)
Open(p) ==
  LET next == IF proc[p].st = "open" THEN "lock" ELSE "relock"
      i    == IF name = None THEN Free ELSE name
  IN  /\ proc[p].st \in {"open", "reopen"}
      /\ name' = i
      /\ content' = IF name = None THEN [content EXCEPT ![i] = Empty] ELSE content
      /\ proc' = [proc EXCEPT ![p].fd = i, ![p].st = next]
      /\ UNCHANGED <<lock, day, ghost, bound>>

(* ... and a process that cannot lock it at once exits. *)
TakeLock(p) ==
  LET next == IF proc[p].st = "lock" THEN "check" ELSE proc[p].op
  IN  /\ proc[p].st \in {"lock", "relock"} /\ lock[proc[p].fd] = Nobody
      /\ lock' = [lock EXCEPT ![proc[p].fd] = p]
      /\ Step(p, next)
      /\ UNCHANGED <<name, content, day, ghost, bound>>

LockRefused(p) ==
  /\ proc[p].st \in {"lock", "relock"} /\ lock[proc[p].fd] # Nobody
  /\ End(p)
  /\ UNCHANGED <<name, lock, day, ghost, bound>>
  /\ Keep(content)

Unlocked(p) == [lock EXCEPT ![proc[p].fd] = Nobody]

-----------------------------------------------------------------------------
(* remove_expired_cookies *)

(* More than a day since the last time, or the stamp lies ahead. *)
Due(last) == day > last + 1 \/ day < last

(* A first line that is a cookie, used or not, stands for the year 1970; of   *)
(* an empty file an uninitialised line is looked at.                          *)
MayPurge(f) ==
  IF f.stamp # None THEN {Due(f.stamp)}
  ELSE IF f.lines # {} THEN {TRUE}
  ELSE BOOLEAN

Expired(l) == l.used \/ day >= l.born + Expiration

NoPurge(p) ==
  /\ proc[p].st = "check" /\ FALSE \in MayPurge(content[proc[p].fd])
  /\ lock' = Unlocked(p)
  /\ proc' = [proc EXCEPT ![p].st = "reopen", ![p].fd = None]
  /\ UNCHANGED <<name, day, ghost, bound>>
  /\ Keep(content)

(* What is young is copied to a temporary file; the lock ends with the closing. *)
CopyYoung(p) ==
  LET f == content[proc[p].fd] IN
  /\ proc[p].st = "check" /\ TRUE \in MayPurge(f)
  /\ lock' = Unlocked(p)
  /\ proc' = [proc EXCEPT ![p].st = "unlink", ![p].fd = None,
                          ![p].new = [stamp |-> day,
                                      lines |-> {l \in f.lines : ~Expired(l)}]]
  /\ Tear(p, Live(f) \cup Current)
  /\ UNCHANGED <<name, day, mailed, runs, ended, bound>>
  /\ Keep(content)

(* unlink; when another process has just done it this one exits. *)
Unlink(p) ==
  /\ proc[p].st = "unlink"
  /\ name' = None
  /\ IF name = None THEN End(p) ELSE Step(p, "rename")
  /\ UNCHANGED <<lock, day, ghost, bound>>
  /\ Keep(content)

(* rename; a file that was created in the meantime is replaced. *)
Rename(p) ==
  LET i == CHOOSE j \in Inodes : \A q \in Workers : Busy(q) => proc[q].fd # j
  IN  /\ proc[p].st = "rename"
      /\ name' = i
      /\ proc' = [proc EXCEPT ![p].st = "reopen", ![p].new = Empty]
      /\ Keep([content EXCEPT ![i] = proc[p].new])
      /\ UNCHANGED <<lock, day, ghost, bound>>

-----------------------------------------------------------------------------
(* save_conf_request, and the mail with the cookie. *)
Save(p) ==
  LET r == proc[p] IN
  /\ r.st = "save"
  /\ lock' = Unlocked(p)
  /\ mailed' = [mailed EXCEPT ![r.c] = day]
  /\ Tear(p, {r.c})
  /\ End(p)
  /\ UNCHANGED <<name, day, runs, ended, bound>>
  /\ Keep([content EXCEPT ![r.fd].lines = @ \cup {Line(r.c)}])

Erase_not(f, c) == f
(* The cookie is overwritten, its line stays until the next purge. *)
Erase(f, c) ==
  [f EXCEPT !.lines = {IF l.id = c THEN [l EXCEPT !.used = TRUE] ELSE l : l \in @}]

(* get_conf_request *)
Found(p) ==
  LET r == proc[p] IN
  /\ r.st = "get" /\ Has(content[r.fd], r.c)
  /\ lock' = Unlocked(p)
  /\ proc' = [proc EXCEPT ![p].st = "action", ![p].fd = None, ![p].next = <<>>]
  /\ Tear(p, {r.c})
  /\ UNCHANGED <<name, day, mailed, runs, ended, bound>>
  /\ Keep([content EXCEPT ![r.fd] = Erase(@, r.c)])

(* The other cookie of the answer is tried, then the user is told. *)
NotFound(p) ==
  LET r == proc[p] IN
  /\ r.st = "get" /\ ~Has(content[r.fd], r.c)
  /\ lock' = Unlocked(p)
  /\ IF r.next # <<>>
     THEN proc' = [proc EXCEPT ![p].st = "reopen", ![p].c = Head(r.next), ![p].next = <<>>,
                               ![p].fd = None]
     ELSE End(p)
  /\ UNCHANGED <<name, day, ghost, bound>>
  /\ Keep(content)

Execute(p) ==
  /\ proc[p].st = "action"
  /\ runs' = [runs EXCEPT ![proc[p].c] = @ + 1]
  /\ End(p)
  /\ UNCHANGED <<disk, day, mailed, torn, ended, bound>>

(* The user has been added to the ignored addresses. *)
Deny(p) ==
  /\ proc[p].st = "action"
  /\ ended' = ended \cup {proc[p].c}
  /\ End(p)
  /\ UNCHANGED <<disk, day, mailed, runs, torn, bound>>

-----------------------------------------------------------------------------
NextDay ==
  /\ day < MaxDay /\ day' = day + 1
  /\ UNCHANGED <<disk, proc, ghost, bound>>

(* A death frees the lock; what the process had taken is gone: the request   *)
(* it was about to execute, or the whole file.                               *)
Die(p) ==
  /\ Busy(p) /\ bound.deaths < MaxDeaths
  /\ bound' = [bound EXCEPT !.deaths = @ + 1]
  /\ lock' = [i \in Inodes |-> IF lock[i] = p THEN Nobody ELSE lock[i]]
  /\ ended' = CASE proc[p].st = "action" -> ended \cup {proc[p].c}
                [] proc[p].st = "rename" -> ended \cup Sent
                [] OTHER                 -> ended
  /\ End(p)
  /\ UNCHANGED <<name, day, mailed, runs, torn>>
  /\ Keep(content)

(* The clock may have been set back since the last purge. *)
CInit ==
  /\ name = 1 /\ \E s \in {0, MaxDay} :
       content = [i \in Inodes |-> IF i = 1 THEN [Empty EXCEPT !.stamp = s] ELSE Empty]
  /\ lock = [i \in Inodes |-> Nobody]
  /\ proc = [p \in Workers |-> CIdle]
  /\ day = 0 /\ mailed = [c \in Cookies |-> None] /\ torn = {} /\ ended = {}
  /\ runs = [c \in Cookies |-> 0]
  /\ bound = [replies |-> 0, deaths |-> 0]

CNext ==
  \/ NextDay
  \/ \E p \in Workers :
       \/ AskUser(p) \/ Answer(p) \/ Open(p) \/ TakeLock(p) \/ LockRefused(p)
       \/ NoPurge(p) \/ CopyYoung(p) \/ Unlink(p) \/ Rename(p)
       \/ Save(p) \/ Found(p) \/ NotFound(p) \/ Execute(p) \/ Deny(p) \/ Die(p)

CSpec == CInit /\ [][CNext]_cvars

-----------------------------------------------------------------------------
(* Properties *)

(* Type invariant: a process with a file open has locked it or waits to.      *)
Stages == {"open", "lock", "check", "unlink", "rename", "reopen", "relock", "save", "get", "action"}
CookieFiles == [stamp : Nat \cup {None}, lines : SUBSET [id : Cookies, born : Nat, used : BOOLEAN]]
Tasks == [st : Stages, op : {"save", "get"}, c : Cookies, next : Seq(Cookies),
          fd : Inodes \cup {None}, new : CookieFiles]
CTypeOK ==
  /\ name \in Inodes \cup {None} /\ content \in [Inodes -> CookieFiles]
  /\ proc \in [Workers -> {CIdle} \cup Tasks]
  /\ \A p \in Workers : proc[p].st \in {"lock", "check", "relock", "save", "get"} => proc[p].fd \in Inodes
  /\ day \in Nat /\ mailed \in [Cookies -> Nat \cup {None}] /\ runs \in [Cookies -> Nat]

(* A request is executed once, however often the user answers and whoever     *)
(* handles the answers, and a cookie the user holds and has not used can be    *)
(* used until it expires: purges, lock failures and deaths of others do not    *)
(* lose it.  The exception is a cookie looked up or saved while a purge        *)
(* replaced the file.                                                          *)
Carried == {proc[p].c : p \in {q \in Workers : proc[q].st = "action"}}
CookieGoodOnce ==
  \A c \in Cookies \ torn :
    /\ runs[c] <= 1
    /\ c \in Sent \ (ended \cup Carried) /\ runs[c] = 0 /\ day < mailed[c] + Expiration =>
         c \in Current

=============================================================================

----------------------------- MODULE ListConfig -----------------------------
(* The config file of a list: CONFIGURATION requests that change it, and the  *)
(* memory that each listproc process keeps of it.  A process looks at the     *)
(* time stamp of the file when a request names the list, and reads the file   *)
(* again when the stamp is not the one it remembers.  Only the writer, and    *)
(* the reader of a GLOBAL request, hold the lock of the file.                 *)
(*                                                                            *)
(* Sources: src/commands/configuration.c, sys_config_aux of                   *)
(* src/lplib/misc.c, action of src/bins/listproc/listproc.c.                  *)
(*                                                                            *)
(* Abstracted: the options are a record of settings, one option to a request; *)
(* the lines of the file are four groups, in their order (the mask, the       *)
(* people, the marks, the rest); a line that is cut in two is left out or,    *)
(* inside "default { }", ends the reader.  The owners have a file of their    *)
(* own and are left out, as are the reverse database and the passwords in the *)
(* INDEX files of the archives, which a request changes on its way.           *)
EXTENDS Naturals, FiniteSets

CONSTANTS
  Listprocs,  \* listproc processes
  Plans,      \* the instances: [start, requests, budget, long, deaths]
  MaxTime     \* bound: the last second of the clock

VARIABLES
  plan,       \* the instance of this behaviour
  file,       \* the config file: [n, cut, set, time], or NoFile
  job,        \* [Listprocs -> what the process does]
  mem,        \* [Listprocs -> what it remembers: [set, seen, all]]
  now,        \* the clock, in seconds
  requested,  \* the number of requests so far
  deaths,     \* the number of deaths so far
  version,    \* how often the file was written
  ordered,    \* the settings that the requests ask for, one after the other
  log         \* what happened: "overlap", "sticky", "blurred", "died"

lvars == <<plan, file, job, mem, now, requested, deaths, version, ordered, log>>

-----------------------------------------------------------------------------
(* Settings.  Everything up to "flags" is in the mask. *)

People == {"moderators", "managers", "errors"}

Default ==
  [subs |-> "open", post |-> "subscribers", stats |-> "owners", review |-> "owners",
   files |-> "owners", hidden |-> FALSE, published |-> FALSE, archive |-> "no",
   moderated |-> FALSE, control |-> FALSE, digest |-> "no", reply |-> "sender", flags |-> {},
   moderators |-> {}, managers |-> {}, errors |-> {},
   marks |-> {}, limits |-> {},
   passwd |-> "old", threads |-> "1", filter |-> "default", web |-> "default"]

(* The settings of the list at first. *)
Start ==
  [x \in DOMAIN Default |-> IF x \in DOMAIN plan.start THEN plan.start[x] ELSE Default[x]]

(* What was open to all is open to the subscribers. *)
Lower(v) ==
  [x \in DOMAIN v |->
     IF x \in {"post", "stats", "review", "files"} /\ v[x] = "all" THEN "subscribers" ELSE v[x]]

Subscription(v, how) ==
  IF how = "owners" THEN Lower([v EXCEPT !.subs = how]) ELSE [v EXCEPT !.subs = how]

WideOpen(v) ==
  [v EXCEPT !.stats = "all", !.review = "all", !.files = "all", !.post = "all",
            !.hidden = FALSE, !.subs = "open"]

SendBy(v, whom) == [v EXCEPT !.post = whom]

Visibility(v, mgr, how) ==
  CASE how = "hidden"  -> Lower([v EXCEPT !.hidden = TRUE, !.published = FALSE])
    [] how = "visible" -> [v EXCEPT !.hidden = FALSE]
    [] how = "published" /\ (mgr \/ v.published \/ ~v.control) -> [v EXCEPT !.published = TRUE]
    [] how = "unpublished" /\ (mgr \/ ~v.published \/ ~v.control) -> [v EXCEPT !.published = FALSE]
    [] OTHER -> v

(* An owner may not turn on the archive of a list under the manager's control. *)
Archive(v, mgr, what) ==
  IF ~mgr /\ v.archive = "no" /\ v.control THEN v ELSE [v EXCEPT !.archive = what]

DropArchive(v) == [v EXCEPT !.archive = "no"]

Right(v, what, whom) == [v EXCEPT ![what] = whom]

AddModerator(v, who)  == [v EXCEPT !.moderated = TRUE, !.moderators = @ \union {who}]
DropModerator(v, who) == IF v.moderated THEN [v EXCEPT !.moderators = @ \ {who}] ELSE v
Unmoderated(v)        == [v EXCEPT !.moderated = FALSE, !.moderators = {}]

AddPerson(v, list, who)  == [v EXCEPT ![list] = @ \union {who}]
DropPerson(v, list, who) == [v EXCEPT ![list] = @ \ {who}]

Control(v, mgr, whose) == IF mgr THEN [v EXCEPT !.control = (whose = "manager")] ELSE v

Digest(v, when) == [v EXCEPT !.digest = when]

(* The message limit and what else an owner may not change under the manager's control. *)
Switch(v, mgr, flag, on) ==
  IF ~mgr /\ v.control THEN v
  ELSE [v EXCEPT !.flags = IF on THEN @ \union {flag} ELSE @ \ {flag}]

(* Options that are anybody's who may configure the list. *)
Reply(v, how)        == [v EXCEPT !.reply = how]
Confirm(v, flag, on) == [v EXCEPT !.flags = IF on THEN @ \union {flag} ELSE @ \ {flag}]

(* What is written only if it is set: a default, a mode that may not be set,  *)
(* a keyword, the comment, a command that is disabled.                        *)
Mark(v, mark, on) == [v EXCEPT !.marks = IF on THEN @ \union {mark} ELSE @ \ {mark}]

Describe(v, text) == Mark(v, "comment", text # "")

Host(v, mgr, name) == IF mgr THEN Mark(v, "host", name # "") ELSE v

RestrictCommand(v, command) == [v EXCEPT !.limits = @ \union {command}]

Filter(v, mgr, prog) == IF mgr THEN [v EXCEPT !.filter = prog] ELSE v
Web(v, mgr, prog)    == IF mgr /\ v.archive # "no" THEN [v EXCEPT !.web = prog] ELSE v
Threads(v, mgr, n)   == IF mgr THEN [v EXCEPT !.threads = n] ELSE v

Password(v, mgr, new) == IF ~mgr /\ v.control THEN v ELSE [v EXCEPT !.passwd = new]

(* An option that is refused, or not known, is reported: the file is written all the same. *)
Option(v, mgr, o) ==
  CASE o.op = "subs"        -> Subscription(v, o.arg)
    [] o.op = "wide-open"   -> WideOpen(v)
    [] o.op = "send"        -> SendBy(v, o.arg)
    [] o.op = "visibility"  -> Visibility(v, mgr, o.arg)
    [] o.op = "archive"     -> Archive(v, mgr, o.arg)
    [] o.op = "no-archive"  -> DropArchive(v)
    [] o.op \in {"stats", "review", "files"} -> Right(v, o.op, o.arg)
    [] o.op = "moderated"   -> AddModerator(v, o.arg)
    [] o.op = "remove-moderator" -> DropModerator(v, o.arg)
    [] o.op = "unmoderated" -> Unmoderated(v)
    [] o.op \in {"managers", "errors"} -> AddPerson(v, o.op, o.arg)
    [] o.op = "remove-manager" -> DropPerson(v, "managers", o.arg)
    [] o.op = "remove-errors"  -> DropPerson(v, "errors", o.arg)
    [] o.op = "control"     -> Control(v, mgr, o.arg)
    [] o.op = "digest"      -> Digest(v, o.arg)
    [] o.op = "set"         -> Switch(v, mgr, o.arg, TRUE)
    [] o.op = "unset"       -> Switch(v, mgr, o.arg, FALSE)
    [] o.op = "reply"       -> Reply(v, o.arg)
    [] o.op = "confirm"     -> Confirm(v, o.arg, TRUE)
    [] o.op = "dont-confirm" -> Confirm(v, o.arg, FALSE)
    [] o.op = "comment"     -> Describe(v, o.arg)
    [] o.op = "mark"        -> Mark(v, o.arg, TRUE)
    [] o.op = "unmark"      -> Mark(v, o.arg, FALSE)
    [] o.op = "host"        -> Host(v, mgr, o.arg)
    [] o.op = "restrict"    -> RestrictCommand(v, o.arg)
    [] o.op = "filter"      -> Filter(v, mgr, o.arg)
    [] o.op = "web"         -> Web(v, mgr, o.arg)
    [] o.op = "threads"     -> Threads(v, mgr, o.arg)
    [] o.op = "password"    -> Password(v, mgr, o.arg)
    [] OTHER -> v

(* The moderators of a list that is not moderated are not written. *)
Written(v) == [v EXCEPT !.moderators = IF v.moderated THEN @ ELSE {}]

-----------------------------------------------------------------------------
(* Reading *)

Group(x) ==
  CASE x \in People -> 2 [] x \in {"marks", "limits"} -> 3
    [] x \in {"passwd", "threads", "filter", "web"} -> 4 [] OTHER -> 1

NoFile == [there |-> FALSE]
Whole  == file # NoFile /\ file.n = 4

(* Before a file is read again, the people are forgotten. *)
Reset_nobody(v) == v
Reset(v) == [x \in DOMAIN v |-> IF x \in People THEN {} ELSE v[x]]

(* A line adds a person, sets a mark or replaces a value; a "restrict" line is skipped. *)
ReadLine(x, old, new) ==
  CASE x \in People \union {"marks"} -> old \union new [] x = "limits" -> old [] OTHER -> new

LoadFile(v, f) ==
  [x \in DOMAIN v |-> IF Group(x) <= f.n THEN ReadLine(x, Reset(v)[x], f.set[x])
                      ELSE Reset(v)[x]]

Fresh == [set |-> Default, seen |-> 0, all |-> FALSE]
NoJob == [st |-> "idle"]

(* The process ends: what it remembered is gone, and so is the request. *)
Ends(p) ==
  /\ job' = [job EXCEPT ![p] = NoJob]
  /\ mem' = [mem EXCEPT ![p] = Fresh]

Leave(p) ==
  /\ job[p] = NoJob /\ mem[p] # Fresh /\ Ends(p)
  /\ UNCHANGED <<plan, file, now, requested, deaths, version, ordered, log>>

(* A GLOBAL request has all the lists loaded, once in the life of the process. *)
Base(p, r) == IF r.global /\ ~mem[p].all THEN [Fresh EXCEPT !.all = TRUE] ELSE mem[p]

Changed(m) == file # NoFile /\ file.time # m.seen

(* A request names the list: the time stamp of the file. *)
Look(p) ==
  /\ job[p] = NoJob /\ requested < plan.budget
  /\ \E r \in plan.requests :
       /\ mem' = [mem EXCEPT ![p] = Base(p, r)]
       /\ job' = [job EXCEPT ![p] =
            [st |-> IF Changed(Base(p, r)) THEN "read" ELSE "judge", r |-> r, from |-> version,
             time |-> IF file = NoFile THEN 0 ELSE file.time]]
  /\ requested' = requested + 1
  /\ UNCHANGED <<plan, file, now, deaths, version, ordered, log>>

Writing == \E p \in Listprocs : job[p].st \in {"create", "fill"}

(* No file, or one that ends inside "default { }": the reader gives up. *)
Unreadable == IF file = NoFile THEN TRUE ELSE file.cut

Reread(p) ==
  /\ job[p].st = "read"
  /\ job[p].r.global => ~Writing
  /\ \/ /\ file # NoFile
        /\ mem' = [mem EXCEPT ![p].set = LoadFile(@, file), ![p].seen = job[p].time]
        /\ job' = [job EXCEPT ![p].st = "judge"]
        /\ log' = log \union
             {e \in {"sticky"} : Whole /\ LoadFile(mem[p].set, file).marks # file.set.marks}
     \/ /\ Unreadable
        /\ Ends(p)
        /\ UNCHANGED log
  /\ UNCHANGED <<plan, file, now, requested, deaths, version, ordered>>

-----------------------------------------------------------------------------
(* A request *)

Manager(p) == job[p].r.by = "manager"

(* The password of the list, of which the process knows what it remembers. *)
Admitted(p) ==
  LET r == job[p].r IN
  /\ r.global => Manager(p)
  /\ \/ r.passwd = mem[p].set.passwd
     \/ Manager(p)

(* A CONFIGURATION without options sends the settings the process remembers. *)
Show(p) ==
  /\ job[p].st = "judge" /\ job[p].r.op = "show"
  /\ job' = [job EXCEPT ![p] = NoJob]
  /\ UNCHANGED <<plan, file, mem, now, requested, deaths, version, ordered, log>>

(* Somebody else's request, refused if the command is disabled; or a change. *)
Judge(p) ==
  /\ job[p].st = "judge" /\ job[p].r.op # "show"
  /\ LET r == job[p].r IN
     IF r.op = "use" \/ ~Admitted(p)
     THEN /\ job' = [job EXCEPT ![p] = NoJob]
          /\ UNCHANGED mem
     ELSE /\ job' = [job EXCEPT ![p].st = "write"]
          /\ mem' = [mem EXCEPT ![p].set = Option(@, Manager(p), r)]
  /\ UNCHANGED <<plan, file, now, requested, deaths, version, ordered, log>>

(* The lock is taken, and the old file is moved away. *)
Move(p) ==
  /\ job[p].st = "write" /\ ~Writing
  /\ file' = NoFile
  /\ job' = [job EXCEPT ![p].st = "create"]
  /\ UNCHANGED <<plan, mem, now, requested, deaths, version, ordered, log>>

Create(p) ==
  /\ job[p].st = "create"
  /\ file' = [n |-> 0, cut |-> FALSE, set |-> Written(mem[p].set), time |-> now]
  /\ job' = [job EXCEPT ![p].st = "fill"]
  /\ UNCHANGED <<plan, mem, now, requested, deaths, version, ordered, log>>

(* A long file reaches the disk in parts. *)
Part(p) ==
  /\ job[p].st = "fill" /\ plan.long /\ file.n = 0
  /\ \E n \in 1..3, cut \in BOOLEAN :
       file' = [file EXCEPT !.n = n, !.cut = cut /\ n = 2, !.time = now]
  /\ UNCHANGED <<plan, job, mem, now, requested, deaths, version, ordered, log>>

(* The file is closed, and the lock is free. *)
Close(p) ==
  /\ job[p].st = "fill"
  /\ file' = [file EXCEPT !.n = 4, !.cut = FALSE, !.time = now]
  /\ job' = [job EXCEPT ![p] = NoJob]
  /\ version' = version + 1
  /\ ordered' = Written(Option(ordered, Manager(p), job[p].r))
  /\ log' = log \union {e \in {"overlap"} : job[p].from # version}
       \union {e \in {"blurred"} : \E q \in Listprocs :
                 now = mem[q].seen \/ (job[q].st = "read" /\ now = job[q].time)}
  /\ UNCHANGED <<plan, mem, now, requested, deaths>>

-----------------------------------------------------------------------------
Tick ==
  /\ now < MaxTime
  /\ now' = now + 1
  /\ UNCHANGED <<plan, file, job, mem, requested, deaths, version, ordered, log>>

Killed(p) ==
  /\ job[p] # NoJob /\ deaths < plan.deaths
  /\ deaths' = deaths + 1
  /\ log' = log \union {e \in {"died"} : job[p].st \in {"create", "fill"}}
  /\ Ends(p)
  /\ UNCHANGED <<plan, file, now, requested, version, ordered>>

LInit ==
  /\ plan \in Plans
  /\ file = [n |-> 4, cut |-> FALSE, set |-> Start, time |-> 1]
  /\ job = [p \in Listprocs |-> NoJob]
  /\ mem = [p \in Listprocs |-> Fresh]
  /\ now = 2 /\ requested = 0 /\ deaths = 0 /\ version = 0
  /\ ordered = Start
  /\ log = {}

LNext ==
  \/ \E p \in Listprocs :
       Look(p) \/ Reread(p) \/ Show(p) \/ Judge(p) \/ Move(p) \/ Create(p) \/ Part(p)
         \/ Close(p) \/ Leave(p) \/ Killed(p)
  \/ Tick

LSpec == LInit /\ [][LNext]_lvars

-----------------------------------------------------------------------------
(* Properties *)

Same(a, b) == \A x \in DOMAIN a \ {"marks", "limits"} : a[x] = b[x]

(* When nobody is at work the file is whole and holds what the requests asked *)
(* for, one after the other (configuration.c:2124-2245), unless two of them   *)
(* overlapped, a writer died, or a file was written within a second that      *)
(* somebody takes for the time of the file it has read.  A mark that a        *)
(* request took away may be back when a process that still knew it writes     *)
(* (misc.c:1129).  The restricted commands are not read, and do not count.    *)
FileAsAsked ==
  \/ \E p \in Listprocs : job[p] # NoJob
  \/ log \intersect {"overlap", "blurred", "died"} # {}
  \/ /\ Whole /\ Same(file.set, ordered)
     /\ ordered.marks \subseteq file.set.marks
     /\ "sticky" \in log \/ file.set.marks = ordered.marks

(* A request is judged, and answered, by the settings that are in the file    *)
(* (listproc.c:1672-1692, configuration.c:197-206), unless the file was       *)
(* written since its time was taken, or within a second that somebody takes   *)
(* for the time of the file it has read.  A command that was enabled again    *)
(* may still be refused.                                                      *)
JudgedByFile ==
  \A p \in Listprocs :
    job[p].st = "judge" /\ job[p].from = version /\ Whole /\ "blurred" \notin log =>
      /\ Same(mem[p].set, file.set)
      /\ file.set.marks \subseteq mem[p].set.marks

(* The settings of a list are those asked for, in the file and for whoever    *)
(* judges a request by them.                                                  *)
SettingsKept == FileAsAsked /\ JudgedByFile
=============================================================================

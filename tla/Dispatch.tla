------------------------------ MODULE Dispatch ------------------------------
(* The half of serverd's main loop that hands list mail, error mail and     *)
(* digests to "list" processes, with the SIGCHLD handler that takes the     *)
(* finished ones back, catmail delivering into the list mailboxes, and the  *)
(* configuration being changed underneath.                                  *)
(*                                                                          *)
(* Sources: src/bins/serverd/serverd.c (main, run_program, sighandle,       *)
(* reinit, read_configf, check_digest, kill_live_list_processes), NewMail's *)
(* sources, and src/bins/list/list.c for what a list process does to the    *)
(* mailbox.  The listproc processes of the same loop are module Requests.   *)
(*                                                                          *)
(* Abstracted: a mailbox is empty or not; whether a digest is due and what  *)
(* a child exits with are choices; the list has no daily message limit.     *)
(* Every disturbance (fork failure, abnormal exit, hold, configuration      *)
(* change, initialize, midnight) uses up one of MaxFaults.                  *)
EXTENDS NewMail, Totals

CONSTANTS MaxThreads,     \* bound on "threads for_list_mail"
          Senders,        \* catmail processes, one message each
          MaxFaults,      \* bound on the disturbances
          Installations   \* the configurations to start from, with the number
                          \* of catmail processes and of disturbances of each

ASSUME DispatchAssumption ==
  /\ MaxThreads \in Nat \ {0} /\ MaxFaults \in Nat
  /\ Installations \subseteq
       [fifo : BOOLEAN, choices : (SUBSET (1..MaxThreads)) \ {{}},
        listThreads : [Lists -> Nat \ {0}], digests : SUBSET Lists,
        senders : SUBSET Senders, kinds : SUBSET {"mail", "errors"},
        mail : SUBSET [Lists -> BOOLEAN], faults : 0..MaxFaults]

VARIABLES
  mail, err,     \* [Lists -> BOOLEAN]: the list's mail, errors file is not empty
  held,          \* [Lists -> BOOLEAN]: the list's hold file exists
  queue,         \* the names in .newmail
  conf,          \* the config files: fifo ("mail_scan"), threads (now) and
                 \* choices (the values they get), listThreads and digests (of
                 \* the lists), newer (the lists whose config is newer than
                 \* the copy serverd has read); kinds: the mail that comes in
  sender,        \* [Senders -> Idle, <<l, kind>> reported, or Sent]
  child,         \* [Pids -> NoChild or [list, kind, st]]: list processes
  sigchld,       \* a SIGCHLD is pending for serverd
  faults,        \* disturbances so far
  up,            \* serverd runs
  pc, job,       \* where its main loop is, and the job it is starting
  cur, dcur,     \* current_list, digest_list
  scanned,       \* lpms_fifo_first_scan_done
  nthreads,      \* sys.nthreads
  nforks,        \* threads in use
  slot,          \* [Lists -> [busy, pid, alloc, epid, done]]: the _llist
  errorBusy,     \* error_processing
  initialize     \* reinitialization requested

files   == <<mail, err, held, queue, conf, sender>>
procs   == <<child, sigchld>>
loop    == <<job, cur, dcur, scanned, nthreads, initialize>>
table   == <<nforks, slot, errorBusy>>
master  == <<pc, loop, table>>
vars    == <<files, procs, faults, up, master>>

-----------------------------------------------------------------------------
(* Processes and jobs *)

Pids     == 1..(NLists + 1)    \* bound: a process for each list and one for error mail
NoPid    == 0
NoChild  == [st |-> "none"]
Kinds    == {"digest", "mail", "errors"}
Mailbox  == {"mail", "errors"}
Idle     == <<NoList, "idle">>
Sent     == <<NoList, "sent">>
NoJob    == [list |-> NoList, kind |-> "mail", pid |-> NoPid]

Exists(p) == child[p] # NoChild
Zombie(p) == child[p].st = "zombie"
Alive(p)  == Exists(p) /\ ~Zombie(p)
FreePid   == CHOOSE p \in Pids : ~Exists(p)

(* The pids serverd has on record, and the job of a list it runs. *)
Known(p)  == \E l \in Lists : p \in {slot[l].pid, slot[l].epid}

(* SIGCHLD is blocked from BLOCK_SIGNAL until the pid is stored, and inside *)
(* sysexec while it waits for the child.                                    *)
Blocked == pc \in {"store", "wait"}

Fault == faults < MaxFaults /\ faults' = faults + 1

(* The next phase of the main loop when the job of this kind is dealt with; *)
(* the digest pointer goes round the lists.                                 *)
After(kind) == CASE kind = "digest" -> "mail"
                 [] kind = "mail"   -> "errors"
                 [] kind = "errors" -> "reap"
Leave(kind) ==
  /\ pc' = After(kind)
  /\ job' = NoJob
  /\ dcur' = IF kind # "digest" THEN dcur
             ELSE IF Successor(dcur) = NoList THEN 1 ELSE Successor(dcur)

-----------------------------------------------------------------------------
(* serverd ends: gexit and the tail of sighandle.  The list processes on    *)
(* record get SIGINT, on which list exits at once.                          *)

Die(forks, ch) ==
  /\ up' = FALSE
  /\ child' = [p \in Pids |-> IF forks # 0 /\ Known(p) THEN NoChild ELSE ch[p]]
  /\ sigchld' = FALSE
  /\ UNCHANGED master

NewSlots == [l \in Lists |-> [busy |-> FALSE, pid |-> NoPid, alloc |-> 0,
                              epid |-> NoPid, done |-> FALSE]]

(* start: kills what is left of the old system and runs serverd again. *)
FreshMaster ==
  /\ pc' = "init" /\ job' = NoJob
  /\ cur' = 1 /\ dcur' = 1 /\ scanned' = FALSE
  /\ nthreads' = conf.threads /\ nforks' = 0
  /\ slot' = NewSlots /\ errorBusy' = FALSE /\ initialize' = FALSE
  /\ conf' = [conf EXCEPT !.newer = {}]

Restart ==
  /\ ~up
  /\ up' = TRUE
  /\ child' = [p \in Pids |-> NoChild]
  /\ FreshMaster
  /\ UNCHANGED <<mail, err, held, queue, sender, sigchld, faults>>

-----------------------------------------------------------------------------
(* sighandle(SIGCHLD): one call collects one child.  A child on record      *)
(* frees its slot and its threads; a count outside 0..nthreads-1 and an     *)
(* abnormal exit end serverd.                                               *)

Owner(p) == CHOOSE l \in Lists :
              /\ p \in {slot[l].pid, slot[l].epid}
              /\ \A k \in Lists : k < l => p \notin {slot[k].pid, slot[k].epid}

Threads_ofWork(p) ==
  IF \E l \in Lists : slot[l].pid = p THEN slot[Owner(p)].alloc ELSE 0
Threads(p) == IF ~Known(p) THEN 0
              ELSE IF slot[Owner(p)].pid = p THEN slot[Owner(p)].alloc ELSE 1

OutOfRange(p) == Known(p) /\ nforks - Threads(p) \notin 0..(nthreads - 1)

Collect_staysBusy(p) ==
  /\ child' = [child EXCEPT ![p] = NoChild]
  /\ nforks' = nforks - Threads(p)
  /\ UNCHANGED <<slot, errorBusy>>
Collect(p) ==
  /\ child' = [child EXCEPT ![p] = NoChild]
  /\ nforks' = nforks - Threads(p)
  /\ IF ~Known(p) THEN UNCHANGED <<slot, errorBusy>>
     ELSE IF slot[Owner(p)].pid = p
     THEN /\ slot' = [slot EXCEPT ![Owner(p)].pid = NoPid, ![Owner(p)].busy = FALSE]
          /\ UNCHANGED errorBusy
     ELSE /\ slot' = [slot EXCEPT ![Owner(p)].epid = NoPid]
          /\ errorBusy' = FALSE

HandleChild ==
  \/ /\ \A p \in Pids : ~Zombie(p)
     /\ UNCHANGED <<child, up, loop, table>>
  \/ \E p \in Pids : /\ Zombie(p) /\ child[p].ok /\ ~OutOfRange(p)
                     /\ Collect(p)
                     /\ UNCHANGED <<up, loop>>

(* The same call when it ends serverd. *)
FatalChild ==
  \E p \in Pids : /\ Zombie(p) /\ (OutOfRange(p) \/ ~child[p].ok)
                 /\ Die(nforks - Threads(p), [child EXCEPT ![p] = NoChild])

SigChld ==
  /\ up /\ sigchld /\ ~Blocked
  /\ \/ HandleChild /\ sigchld' = FALSE /\ UNCHANGED pc
     \/ FatalChild
  /\ UNCHANGED <<files, faults>>

(* "Signals get lost -- check for zombies": the same call in every loop. *)
CheckZombies ==
  /\ up /\ pc = "reap"
  /\ \/ nforks > 0 /\ HandleChild /\ pc' = "next" /\ UNCHANGED sigchld
     \/ nforks > 0 /\ FatalChild
     \/ nforks <= 0 /\ pc' = "next" /\ UNCHANGED <<procs, up, loop, table>>
  /\ UNCHANGED <<files, faults>>

-----------------------------------------------------------------------------
(* The main loop, phase by phase *)

(* "initialize" waits until no thread is in use; then the lists are freed   *)
(* and the whole configuration is read again.                               *)
MayReinit == initialize /\ nforks <= 0

StartLoop ==
  /\ up /\ pc = "init"
  /\ pc' = "digest"
  /\ IF MayReinit
     THEN /\ cur' = 1 /\ dcur' = 1
          /\ scanned' = FALSE
          /\ nthreads' = conf.threads /\ conf' = [conf EXCEPT !.newer = {}]
          /\ nforks' = 0 /\ slot' = NewSlots /\ initialize' = FALSE
          /\ UNCHANGED <<errorBusy, job>>
     ELSE UNCHANGED <<conf, loop, table>>
  /\ UNCHANGED <<mail, err, held, queue, sender, procs, faults, up>>

MayFork == ~initialize /\ nforks < nthreads

(* The list, if any, for which the phase would start a job. *)
Eligible(kind) ==
  CASE kind = "digest" -> {l \in {dcur} : ~slot[l].busy /\ ~slot[l].done}
    [] kind = "mail"   -> {l \in {cur} \ {NoList} : ~slot[l].busy /\ mail[l] /\ ~held[l]}
    [] kind = "errors" -> {l \in {cur} \ {NoList} : ~errorBusy /\ err[l] /\ ~held[l]}

(* Entering the phase "digest", "mail" or "errors". *)
CheckList ==
  /\ up /\ pc \in Kinds
  /\ \/ /\ ~MayFork
        /\ pc' = After(pc) /\ UNCHANGED <<job, dcur>>
     \/ /\ MayFork /\ Eligible(pc) = {}
        /\ Leave(pc)
     \/ /\ MayFork
        /\ \E l \in Eligible(pc) : job' = [list |-> l, kind |-> pc, pid |-> NoPid]
        /\ pc' = "config" /\ UNCHANGED dcur
  /\ UNCHANGED <<files, procs, faults, up, cur, scanned, nthreads, initialize, table>>

(* read_configf: when the list's config is newer, the system settings go to *)
(* their defaults and the global config file is read again, whatever runs.  *)
ReadConfig ==
  /\ up /\ pc = "config"
  /\ IF job.list \in conf.newer
     THEN /\ pc' = "defaults" /\ nthreads' = 1
          /\ conf' = [conf EXCEPT !.newer = @ \ {job.list}]
     ELSE pc' = "spawn" /\ UNCHANGED <<nthreads, conf>>
  /\ UNCHANGED <<mail, err, held, queue, sender, procs, faults, up, job, cur,
                 dcur, scanned, initialize, table>>

ReadGlobalConfig ==
  /\ up /\ pc = "defaults"
  /\ pc' = "spawn"
  /\ nthreads' = conf.threads
  /\ scanned' = (scanned /\ ~conf.fifo)
  /\ UNCHANGED <<files, procs, faults, up, job, cur, dcur, initialize, table>>

(* A digest that is not configured or due, or is due and empty, starts      *)
(* nothing.                                                                 *)
NoDigest ==
  /\ up /\ pc = "spawn" /\ job.kind = "digest"
  /\ \E due \in {FALSE, job.list \in conf.digests} :
        slot' = [slot EXCEPT ![job.list].done = due]
  /\ Leave("digest")
  /\ UNCHANGED <<files, procs, faults, up, cur, scanned, nthreads, nforks,
                 errorBusy, initialize>>

Allocation(l) == IF conf.listThreads[l] + nforks <= nthreads THEN conf.listThreads[l]
                 ELSE nthreads - nforks

(* Up to the fork in run_program: the slot is marked before the child runs. *)
Marked(l) ==
  IF job.kind = "errors" THEN slot
  ELSE [slot EXCEPT ![l].busy = TRUE, ![l].alloc = Allocation(l),
                    ![l].done = (@ \/ job.kind = "digest")]

Starts == pc = "spawn" /\ (job.kind = "digest" => job.list \in conf.digests)

Fork ==
  /\ up /\ Starts
  /\ \E p \in Pids : ~Exists(p)
  /\ slot' = Marked(job.list)
  /\ errorBusy' = (errorBusy \/ job.kind = "errors")
  /\ nforks' = nforks + IF job.kind = "errors" THEN 1 ELSE Allocation(job.list)
  /\ child' = [child EXCEPT ![FreePid] =
                 [list |-> job.list, kind |-> job.kind, st |-> "started", ok |-> TRUE]]
  /\ job' = [job EXCEPT !.pid = FreePid]
  /\ pc' = IF nthreads = 1 THEN "wait" ELSE "store"
  /\ UNCHANGED <<files, sigchld, faults, up, cur, dcur, scanned, nthreads, initialize>>

(* fork() fails for good: everything marked is taken back. *)
ForkFails ==
  /\ up /\ Starts /\ Fault
  /\ slot' = [Marked(job.list) EXCEPT ![job.list].busy =
                IF job.kind = "errors" THEN @ ELSE FALSE]
  /\ Leave(job.kind)
  /\ UNCHANGED <<files, procs, up, cur, scanned, nthreads, nforks, errorBusy, initialize>>

(* The pid is stored and SIGCHLD released. *)
StorePid ==
  /\ up /\ pc = "store"
  /\ slot' = IF job.kind = "errors"
             THEN [slot EXCEPT ![job.list].epid = job.pid]
             ELSE [slot EXCEPT ![job.list].pid = job.pid]
  /\ Leave(job.kind)
  /\ UNCHANGED <<files, procs, faults, up, cur, scanned, nthreads, nforks,
                 errorBusy, initialize>>

(* With a single thread serverd waits for the child itself. *)
WaitForChild ==
  /\ up /\ pc = "wait" /\ Zombie(job.pid)
  /\ \/ /\ child[job.pid].ok
        /\ child' = [child EXCEPT ![job.pid] = NoChild]
        /\ IF job.kind = "errors"
           THEN errorBusy' = FALSE /\ nforks' = nforks - 1 /\ UNCHANGED slot
           ELSE /\ slot' = [slot EXCEPT ![job.list].busy = FALSE]
                /\ nforks' = nforks - slot[job.list].alloc
                /\ UNCHANGED errorBusy
        /\ Leave(job.kind)
        /\ UNCHANGED <<sigchld, up, cur, scanned, nthreads, initialize>>
     \/ /\ ~child[job.pid].ok
        /\ Die(nforks, [child EXCEPT ![job.pid] = NoChild])
  /\ UNCHANGED <<files, faults>>

(* current_list = lpms_get_next(current_list); at the end of the lists, or  *)
(* when no name is queued, serverd sleeps and asks again from the start.    *)
Busy == [l \in Lists |-> slot[l].busy]

NextList ==
  /\ up /\ pc \in {"next", "sleep"}
  /\ LET r == GetNext(conf.fifo, IF pc = "next" THEN cur ELSE NoList, queue, scanned, Busy)
     IN  /\ cur' = r.list /\ queue' = r.queue /\ scanned' = r.scanned
         /\ pc' = IF pc = "next" /\ r.list = NoList THEN "sleep" ELSE "init"
  /\ UNCHANGED <<mail, err, held, conf, sender, procs, faults, up, job, dcur,
                 nthreads, initialize, table>>

(* A new day, noticed at the end of the loop: digests may go out again. *)
NewDay ==
  /\ up /\ pc = "init" /\ Fault
  /\ slot' = [l \in Lists |-> [slot[l] EXCEPT !.done = FALSE]]
  /\ UNCHANGED <<files, procs, up, pc, loop, nforks, errorBusy>>

Master == StartLoop \/ CheckList \/ ReadConfig \/ ReadGlobalConfig \/ NoDigest
          \/ Fork \/ ForkFails \/ StorePid \/ WaitForChild \/ CheckZombies
          \/ NextList \/ NewDay

-----------------------------------------------------------------------------
(* The rest of the system *)

(* A list process takes what is in its mailbox, if anything; a digest       *)
(* process does not touch it.                                               *)
Take(p) ==
  /\ child[p].st = "started"
  /\ child' = [child EXCEPT ![p].st = "working"]
  /\ mail' = [l \in Lists |-> mail[l] /\ ~(l = child[p].list /\ child[p].kind = "mail")]
  /\ err' = [l \in Lists |-> err[l] /\ ~(l = child[p].list /\ child[p].kind = "errors")]
  /\ UNCHANGED <<held, queue, conf, sender, sigchld, faults, up, master>>

(* It exits; without serverd nobody is left to be told. *)
Exit(p) ==
  /\ \/ child[p].st = "working" /\ child' = [child EXCEPT ![p].st = "zombie"]
        /\ UNCHANGED faults
     \/ /\ Alive(p) /\ Fault
        /\ child' = [child EXCEPT ![p].st = "zombie", ![p].ok = FALSE]
  /\ sigchld' = up
  /\ UNCHANGED <<files, up, master>>

(* catmail reports the list and then appends the message. *)
ReportNewMail(s) ==
  /\ sender[s] = Idle
  /\ \E l \in Lists, k \in conf.kinds : sender' = [sender EXCEPT ![s] = <<l, k>>]
                                     /\ queue' = Report(conf.fifo, queue, l)
  /\ UNCHANGED <<mail, err, held, conf, procs, faults, up, master>>

AppendMessage(s) ==
  /\ sender[s] \notin {Idle, Sent}
  /\ mail' = [mail EXCEPT ![sender[s][1]] = @ \/ sender[s][2] = "mail"]
  /\ err' = [err EXCEPT ![sender[s][1]] = @ \/ sender[s][2] = "errors"]
  /\ sender' = [sender EXCEPT ![s] = Sent]
  /\ UNCHANGED <<held, queue, conf, procs, faults, up, master>>

(* The owner holds or frees a list, somebody edits the configuration, the   *)
(* manager asks for "initialize" (signal INIT_SIG, not during run_program). *)
Hold(l) == /\ Fault /\ held' = [held EXCEPT ![l] = ~@]
           /\ UNCHANGED <<mail, err, queue, conf, sender, procs, up, master>>

EditConfig ==
  /\ Fault
  /\ \E n \in conf.choices, l \in Lists :
        conf' = [conf EXCEPT !.threads = n, !.newer = @ \cup {l}]
  /\ UNCHANGED <<mail, err, held, queue, sender, procs, up, master>>

InitSignal ==
  /\ up /\ ~initialize /\ pc \notin {"store", "wait"} /\ Fault
  /\ initialize' = TRUE
  /\ UNCHANGED <<files, procs, up, pc, job, cur, dcur, scanned, nthreads, table>>

World == \/ \E p \in Pids : Take(p) \/ Exit(p)
         \/ \E s \in Senders : ReportNewMail(s) \/ AppendMessage(s)
         \/ \E l \in Lists : Hold(l)
         \/ EditConfig \/ InitSignal

Init ==
  /\ err = [l \in Lists |-> FALSE] /\ held = [l \in Lists |-> FALSE]
  /\ queue = <<>>
  /\ \E i \in Installations : \E n \in i.choices :
       /\ mail \in i.mail
       /\ conf = [fifo |-> i.fifo, threads |-> n, choices |-> i.choices,
                  listThreads |-> i.listThreads, digests |-> i.digests, newer |-> {},
                  kinds |-> i.kinds]
       /\ nthreads = n
       /\ sender = [s \in Senders |-> IF s \in i.senders THEN Idle ELSE Sent]
       /\ faults = MaxFaults - i.faults
  /\ child = [p \in Pids |-> NoChild] /\ sigchld = FALSE
  /\ up = TRUE
  /\ pc = "init" /\ job = NoJob /\ cur = 1 /\ dcur = 1 /\ scanned = FALSE
  /\ nforks = 0 /\ slot = NewSlots /\ errorBusy = FALSE /\ initialize = FALSE

Next == Master \/ SigChld \/ Restart \/ World

(* The loop is one process; children finish; catmail appends what it has    *)
(* reported; the system is started again.                                   *)
Fairness ==
  /\ WF_vars(Master) /\ WF_vars(SigChld) /\ WF_vars(Restart)
  /\ \A p \in Pids : WF_vars(Take(p) \/ Exit(p))
  /\ \A s \in Senders : WF_vars(AppendMessage(s))

Spec == Init /\ [][Next]_vars /\ Fairness

-----------------------------------------------------------------------------
(* Properties *)

(* Every variable has the type its C counterpart has. *)
FilesType ==
  /\ mail \in [Lists -> BOOLEAN] /\ err \in [Lists -> BOOLEAN]
  /\ held \in [Lists -> BOOLEAN] /\ queue \in Seq(Lists)
  /\ sender \in [Senders -> {Idle, Sent} \cup (Lists \X Mailbox)]
  /\ faults \in 0..MaxFaults

ConfType ==
  /\ conf \in [fifo : BOOLEAN, threads : 1..MaxThreads, choices : SUBSET (1..MaxThreads),
               listThreads : [Lists -> Nat \ {0}], digests : SUBSET Lists,
               newer : SUBSET Lists, kinds : SUBSET Mailbox]
  /\ conf.threads \in conf.choices

Process  == [list : Lists, kind : Kinds, st : {"started", "working", "zombie"}, ok : BOOLEAN]
Phases   == Kinds \cup {"init", "config", "defaults", "spawn", "store", "wait",
                       "reap", "next", "sleep"}
ProcsType == child \in [Pids -> {NoChild} \cup Process] /\ sigchld \in BOOLEAN /\ up \in BOOLEAN

LoopType ==
  /\ pc \in Phases
  /\ job \in [list : Lists \cup {NoList}, kind : Kinds, pid : Pids \cup {NoPid}]
  /\ pc \in {"config", "defaults", "spawn", "store", "wait"} => job.list \in Lists
  /\ pc \in {"store", "wait"} => job.pid \in Pids
  /\ cur \in Lists \cup {NoList} /\ dcur \in Lists
  /\ scanned \in BOOLEAN /\ nthreads \in Nat /\ initialize \in BOOLEAN

Slot == [busy : BOOLEAN, pid : Pids \cup {NoPid}, alloc : Int, epid : Pids \cup {NoPid},
         done : BOOLEAN]
TableType == nforks \in Int /\ slot \in [Lists -> Slot] /\ errorBusy \in BOOLEAN

TypeOK == FilesType /\ ConfType /\ ProcsType /\ LoopType /\ TableType

(* The threads given to the jobs that run. *)
ListThreads(l) == IF slot[l].busy THEN slot[l].alloc ELSE 0

ThreadsCounted ==
  nforks = Total(NLists, [l \in Lists |-> ListThreads(l)]) + (IF errorBusy THEN 1 ELSE 0)

BusyHasChild ==
  /\ \A l \in Lists :
       IF slot[l].busy
       THEN slot[l].pid # NoPid /\ Exists(slot[l].pid) /\ child[slot[l].pid].list = l
       ELSE slot[l].pid = NoPid
  /\ errorBusy <=> \E l \in Lists : slot[l].epid # NoPid

(* A list's .mail.work and its digest have one process at a time, and there *)
(* is one error process in the whole system, also across the death and the  *)
(* restart of serverd: list takes no lock on its work files.                *)
OneWorker ==
  \A p, q \in Pids : p # q /\ Alive(p) /\ Alive(q) =>
    /\ {child[p].kind, child[q].kind} # {"errors"}
    /\ child[p].list = child[q].list => "errors" \in {child[p].kind, child[q].kind}

(* The setting "threads" is never lowered to another value than 1.  When it *)
(* is, between the test that a thread is free and the allocation, a job     *)
(* gets "-t 0" or less; nforks then reaches 0 before the job ends, and an   *)
(* "initialize" frees the lists under it.                                   *)
NeverLowered == \A m, n \in conf.choices \ {1} : m = n

(* While "threads" is not lowered nforks is the sum of the threads given to *)
(* the jobs that run: none is lost by a failed fork, a death, a re-read     *)
(* configuration or a reinitialization (main and sighandle both update it). *)
(* Outside the section where SIGCHLD is blocked a busy list has a process   *)
(* of its own that has not been collected, an idle list has none on record, *)
(* and error_processing is set exactly while an error process is on record. *)
(* And no two processes are at one list's files.                            *)
Accounted ==
  NeverLowered =>
    /\ up => ThreadsCounted /\ (pc \in {"store", "wait"} \/ BusyHasChild)
    /\ OneWorker

Queued(l) == \E i \in DOMAIN queue : queue[i] = l

(* Once the file is read in earnest, the name of a list that is not busy    *)
(* leaves it only by becoming the current list: no idle list is passed over *)
(* in favour of a later one.                                                *)
IdleEntryServed ==
  [][\A l \in Lists : scanned /\ Queued(l) /\ ~slot[l].busy =>
       Queued(l)' \/ cur' = l]_vars

(* Scanned one after the other, mail and error mail of a list that nobody   *)
(* holds is taken by a list process, through fork failures, abnormal exits, *)
(* configuration changes and restarts of serverd.                           *)
MailServed ==
  \A l \in Lists : /\ ~conf.fifo /\ mail[l] ~> (~mail[l] \/ held[l])
                   /\ ~conf.fifo /\ err[l] ~> (~err[l] \/ held[l])
=============================================================================

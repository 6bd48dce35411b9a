------------------------------ MODULE Requests ------------------------------
(* The half of serverd's main loop that starts "listproc" processes (for the *)
(* requests file, the batch file, the published lists and AFD/FUI), its      *)
(* table reqthreads of them, and how they take the requests.                 *)
(*                                                                           *)
(* Sources: src/bins/serverd/serverd.c (main, sighandle, gexit),             *)
(* src/bins/listproc/listproc.c (main, gexit), src/bins/catmail/catmail.c.   *)
(*                                                                           *)
(* Abstracted: the list half of the loop is module Dispatch, here its list   *)
(* processes are always done; what a request asks for is left out, except    *)
(* that a request for a locked list goes to the batch file; whether it is    *)
(* time to publish is a choice.  SIGCHLD is blocked from the fork until the  *)
(* pid is stored, so that a spawn is one step.  Every disturbance (failed    *)
(* fork, edited configuration, locked list, unusual exit status, kill,       *)
(* midnight) uses up one of MaxFaults.                                       *)
EXTENDS Sequences, FiniteSets, Totals

CONSTANTS
  Messages,       \* the requests that are mailed to the server
  MaxThreads,     \* bound on "threads for_requests"
  ThreadChoices,  \* the values it may be given
  NoFile,         \* a batch file that does not exist
  MaxFaults       \* bound on the disturbances

ASSUME RequestsAssumption ==
  /\ MaxThreads \in Nat \ {0} /\ MaxFaults \in Nat
  /\ ThreadChoices \in (SUBSET (1..MaxThreads)) \ {{}}
  /\ NoFile \notin Seq(Messages)

VARIABLES
  requests,     \* SERVER_MAIL_FILE
  batch,        \* BATCH_FILE, or NoFile
  sent,         \* the requests catmail has delivered
  lock,         \* who holds LPL_GLOBAL_REQUESTS, or Nobody
  conf,         \* the number of threads in the config file
  child,        \* [Pids -> NoChild or [kind, st, code]]: listproc processes
  work,         \* [Pids -> its MAIL_COPY]
  handled,      \* [Messages -> how often it was carried out]
  killed,       \* some listproc was killed
  sigchld,      \* a SIGCHLD is pending for serverd
  up, pc,       \* serverd runs, and where its main loop is
  thread,       \* [Slots -> reqthreads[].pid]
  nreqforks,    \* how many of the slots are in use
  nreqthreads,  \* sys.nreqthreads
  flags,        \* of "batch", "publish", "afd": those done today
  initialize,   \* reinitialization requested
  forkFails, faults

files  == <<requests, batch, sent, lock>>
procs  == <<child, work, handled, killed>>
table  == <<thread, nreqforks>>
loop   == <<pc, table, nreqthreads, flags, initialize>>
bounds == <<forkFails, faults>>
vars   == <<files, conf, procs, sigchld, up, loop, bounds>>

-----------------------------------------------------------------------------
Slots   == 0 .. MaxThreads
Pids    == 1 .. (MaxThreads + 1)  \* bounds those the table has lost
Nobody  == 0
NoPid   == 0
Failed  == -1
NoChild == [st |-> "none"]
Kinds   == {"batch", "requests", "publish", "afd"}

Exists(p) == child[p] # NoChild
Zombie(p) == child[p].st = "zombie"
InUse     == 0 .. (nreqforks - 1)
Known(p)  == \E i \in InUse : thread[i] = p

Fault    == forkFails + faults < MaxFaults /\ faults' = faults + 1 /\ UNCHANGED forkFails
ForkFail == forkFails + faults < MaxFaults /\ forkFails' = forkFails + 1 /\ UNCHANGED faults
Calm     == UNCHANGED bounds

\* catmail: append the message to the requests file, under the lock.
AppendRequest(m) ==
  /\ m \notin sent /\ lock = Nobody
  /\ sent' = sent \cup {m} /\ requests' = Append(requests, m)
  /\ UNCHANGED <<batch, lock, conf, procs, sigchld, up, loop>> /\ Calm

EditConfig(n) ==
  /\ Fault
  /\ n # conf /\ conf' = n
  /\ UNCHANGED <<files, procs, sigchld, up, loop>>

-----------------------------------------------------------------------------
(* The end of serverd.  The listproc processes in use get SIGINT, on which    *)
(* their gexit removes the mail copy; a slot that holds -1 stands for every   *)
(* process of the user.  start later kills what is left.                      *)

Hit(p) == Known(p) \/ \E i \in InUse : thread[i] = Failed

Die ==
  /\ up' = FALSE /\ sigchld' = FALSE
  /\ child' = [p \in Pids |-> IF Hit(p) \/ Zombie(p) THEN NoChild ELSE child[p]]
  /\ work'  = [p \in Pids |-> IF Hit(p) THEN <<>> ELSE work[p]]
  /\ lock'  = IF lock # Nobody /\ Hit(lock) THEN Nobody ELSE lock
  /\ killed' = (killed \/ \E p \in Pids : Hit(p) /\ Exists(p) /\ ~Zombie(p))
  /\ UNCHANGED <<requests, batch, sent, handled, loop>>

Restart ==
  /\ ~up
  /\ up' = TRUE
  /\ child' = [p \in Pids |-> NoChild] /\ work' = [p \in Pids |-> <<>>] /\ lock' = Nobody
  /\ killed' = (killed \/ \E p \in Pids : Exists(p))
  /\ pc' = "init" /\ thread' = [i \in Slots |-> NoPid] /\ nreqforks' = 0
  /\ nreqthreads' = conf /\ flags' = {} /\ initialize' = FALSE
  /\ UNCHANGED <<requests, batch, sent, conf, handled, sigchld>> /\ Calm

-----------------------------------------------------------------------------
(* sighandle(SIGCHLD) *)

Removed_hole(i) == [j \in Slots |-> IF j = i THEN thread[nreqforks] ELSE thread[j]]

\* The slots behind i move down.
Removed(i) == [j \in Slots |-> IF i <= j /\ j < nreqforks THEN thread[j + 1] ELSE thread[j]]

\* One call collects one child.  A count that has grown beyond the threads is
\* fatal, as are most exit codes; 17 asks for a reinitialization.
HandleChild(p) ==
  LET i     == CHOOSE j \in InUse : thread[j] = p /\ \A k \in InUse : k < j => thread[k] # p
      forks == IF Known(p) THEN nreqforks - 1 ELSE nreqforks
  IN IF child[p].code = "fatal" \/ (Known(p) /\ forks >= nreqthreads)
       THEN Die
       ELSE /\ child' = [child EXCEPT ![p] = NoChild]
            /\ nreqforks' = forks
            /\ thread' = IF Known(p) THEN Removed(i) ELSE thread
            /\ initialize' = (initialize \/ (Known(p) /\ child[p].code = "reinit"))
            /\ UNCHANGED <<files, work, handled, killed, up, nreqthreads, flags>>

SigChld ==
  /\ up /\ sigchld
  /\ sigchld' = FALSE /\ UNCHANGED pc
  /\ \/ \E p \in Pids : Zombie(p) /\ HandleChild(p)
     \/ /\ \A p \in Pids : ~Zombie(p)
        /\ UNCHANGED <<files, procs, up, table, nreqthreads, flags, initialize>>
  /\ UNCHANGED conf /\ Calm

CheckZombies_oneLeft ==
  /\ up /\ pc = "reap"
  /\ \/ /\ nreqforks > 1
        /\ \E p \in Pids :
             Zombie(p) /\ HandleChild(p) /\ (up' => pc' = "init" /\ UNCHANGED sigchld)
     \/ /\ nreqforks <= 1 \/ \A p \in Pids : ~Zombie(p)
        /\ pc' = "init"
        /\ UNCHANGED <<files, procs, sigchld, up, table, nreqthreads, flags, initialize>>
  /\ UNCHANGED conf /\ Calm

\* Signals get lost: look for one zombie in every loop.
CheckZombies ==
  /\ up /\ pc = "reap"
  /\ \/ /\ nreqforks > 0
        /\ \E p \in Pids :
             Zombie(p) /\ HandleChild(p) /\ (up' => pc' = "init" /\ UNCHANGED sigchld)
     \/ /\ nreqforks = 0 \/ \A p \in Pids : ~Zombie(p)
        /\ pc' = "init"
        /\ UNCHANGED <<files, procs, sigchld, up, table, nreqthreads, flags, initialize>>
  /\ UNCHANGED conf /\ Calm

-----------------------------------------------------------------------------
(* The main loop *)

At(phase) == up /\ pc = phase

\* Reinitialize, postponed until the processes are done; then the list half,
\* which may read the configuration.
StartLoop ==
  /\ At("init") /\ pc' = "batch"
  /\ IF initialize /\ nreqforks = 0
       THEN initialize' = FALSE /\ nreqthreads' = conf /\ nreqforks' = 0
       ELSE nreqthreads' \in {nreqthreads, conf} /\ UNCHANGED <<initialize, nreqforks>>
  /\ UNCHANGED <<files, conf, procs, sigchld, up, thread, flags>> /\ Calm

MaySpawn == ~initialize /\ nreqforks < nreqthreads

\* Has the last spawn of a process for requests been a minute ago?  It makes no
\* difference when no process runs.
Minutes == {TRUE, nreqforks = 0}

FreePid == CHOOSE p \in Pids : ~Exists(p)

\* A process for published lists or AFD/FUI has no requests to look for.
First(kind) == IF kind \in {"publish", "afd"} THEN "run" ELSE "start"

\* run_program: the pid of a new listproc process, or -1.
RunProgram(kind, pid) ==
  \/ /\ (\E p \in Pids : ~Exists(p)) /\ pid = FreePid /\ Calm
     /\ child' = [child EXCEPT ![pid] = [kind |-> kind, st |-> First(kind), code |-> "ok"]]
  \/ /\ pid = Failed /\ ForkFail
     /\ UNCHANGED child

\* Batch and requests: a failed fork is not counted, the -1 stays in its slot.
Spawn(kind) ==
  \E pid \in Pids \cup {Failed} :
    /\ RunProgram(kind, pid)
    /\ thread' = [thread EXCEPT ![nreqforks] = pid]
    /\ nreqforks' = IF pid = Failed THEN nreqforks ELSE nreqforks + 1

\* Publishing and AFD/FUI: the slot after the new one decides on the count.
SpawnTimed(kind) ==
  \E pid \in Pids \cup {Failed} :
    /\ RunProgram(kind, pid)
    /\ thread' = [thread EXCEPT ![nreqforks] = pid]
    /\ nreqforks' = IF thread[nreqforks + 1] = Failed THEN nreqforks ELSE nreqforks + 1

Still == UNCHANGED <<child, table, bounds>>

\* The batch file is looked at once a day.
BatchDue == "batch" \notin flags /\ MaySpawn /\ batch # NoFile

CheckBatch ==
  /\ At("batch") /\ pc' = "requests"
  /\ \E minute \in Minutes :
       /\ flags' = IF BatchDue /\ minute THEN flags \cup {"batch"} ELSE flags
       /\ IF BatchDue /\ minute /\ batch # <<>> THEN Spawn("batch") ELSE Still
  /\ UNCHANGED <<files, conf, work, handled, killed, sigchld, up, nreqthreads, initialize>>

RequestsDue == MaySpawn /\ requests # <<>>

CheckRequests ==
  /\ At("requests") /\ pc' = "publish"
  /\ \E minute \in Minutes : IF RequestsDue /\ minute THEN Spawn("requests") ELSE Still
  /\ UNCHANGED <<files, conf, work, handled, killed, sigchld, up, nreqthreads, flags, initialize>>

Timed(kind, next) ==
  /\ At(kind) /\ pc' = next
  /\ \/ /\ kind \notin flags /\ MaySpawn
        /\ flags' = flags \cup {kind} /\ SpawnTimed(kind)
     \/ UNCHANGED flags /\ Still      \* not the time, or not possible
  /\ UNCHANGED <<files, conf, work, handled, killed, sigchld, up, nreqthreads, initialize>>

CheckPublish == Timed("publish", "afd")
CheckAfd     == Timed("afd", "reap")

\* At the end of a loop.
NewDay ==
  /\ At("init") /\ Fault
  /\ flags' = {}
  /\ UNCHANGED <<files, conf, procs, sigchld, up, pc, table, nreqthreads, initialize>>

-----------------------------------------------------------------------------
(* listproc *)

Alive(p, st) == Exists(p) /\ child[p].st = st

File(kind) == CASE kind = "requests" -> requests [] kind = "batch" -> batch

Goto(p, st) == child' = [child EXCEPT ![p].st = st]

\* Is there mail?
Look(p) ==
  /\ Alive(p, "start")
  /\ Goto(p, IF File(child[p].kind) = <<>> THEN "run" ELSE "take")
  /\ UNCHANGED <<files, conf, work, handled, killed, sigchld, up, loop>> /\ Calm

Copy_unlocked(p) ==
  /\ Alive(p, "take")
  /\ work' = [work EXCEPT ![p] = File(child[p].kind)] /\ Goto(p, "copied")
  /\ UNCHANGED <<files, conf, handled, killed, sigchld, up, loop>> /\ Calm

\* Lock the file and copy it to a temporary location ...
Copy(p) ==
  /\ Alive(p, "take") /\ lock = Nobody
  /\ lock' = p
  /\ work' = [work EXCEPT ![p] = File(child[p].kind)] /\ Goto(p, "copied")
  /\ UNCHANGED <<requests, batch, sent, conf, handled, killed, sigchld, up, loop>> /\ Calm

\* ... then empty it and unlock.
Empty(p) ==
  /\ Alive(p, "copied")
  /\ IF child[p].kind = "requests" THEN requests' = <<>> /\ UNCHANGED batch
                                   ELSE batch' = <<>> /\ UNCHANGED requests
  /\ lock' = Nobody /\ Goto(p, "run")
  /\ UNCHANGED <<sent, conf, work, handled, killed, sigchld, up, loop>> /\ Calm

Advance(p) == work' = [work EXCEPT ![p] = Tail(@)]

Handle(p) ==
  /\ Alive(p, "run") /\ work[p] # <<>>
  /\ handled' = [handled EXCEPT ![Head(work[p])] = @ + 1] /\ Advance(p)
  /\ UNCHANGED <<files, conf, child, killed, sigchld, up, loop>> /\ Calm

\* A request for a locked list goes to the end of the batch file.
Defer(p) ==
  /\ Alive(p, "run") /\ work[p] # <<>> /\ lock = Nobody
  /\ Fault
  /\ batch' = Append(IF batch = NoFile THEN <<>> ELSE batch, Head(work[p])) /\ Advance(p)
  /\ UNCHANGED <<requests, sent, lock, conf, child, handled, killed, sigchld, up, loop>>

\* SIGCHLD is ignored while serverd is down.
Ends(p, code) ==
  /\ child' = [child EXCEPT ![p] =
       IF up THEN [@ EXCEPT !.st = "zombie", !.code = code] ELSE NoChild]
  /\ sigchld' = up

Finish(p) ==
  /\ Alive(p, "run") /\ work[p] = <<>> /\ Ends(p, "ok")
  /\ UNCHANGED <<files, conf, work, handled, killed, up, loop>> /\ Calm

\* A manager asked for a reinitialization, or for a shutdown or restart.
FinishUnusual(p) ==
  /\ Alive(p, "run") /\ work[p] = <<>>
  /\ Fault
  /\ \E code \in {"reinit", "fatal"} : Ends(p, code)
  /\ UNCHANGED <<files, conf, work, handled, killed, up, loop>>

Kill(p) ==
  /\ Exists(p) /\ ~Zombie(p) /\ Fault
  /\ Ends(p, "fatal") /\ killed' = TRUE
  /\ work' = [work EXCEPT ![p] = <<>>]
  /\ lock' = IF lock = p THEN Nobody ELSE lock
  /\ UNCHANGED <<requests, batch, sent, conf, handled, up, loop>>

ListprocStep(p) == Look(p) \/ Copy(p) \/ Empty(p) \/ Handle(p) \/ Finish(p)

-----------------------------------------------------------------------------
Init ==
  /\ requests = <<>> /\ batch = NoFile /\ sent = {} /\ lock = Nobody
  /\ conf \in ThreadChoices /\ nreqthreads = conf
  /\ child = [p \in Pids |-> NoChild] /\ work = [p \in Pids |-> <<>>]
  /\ handled = [m \in Messages |-> 0] /\ killed = FALSE
  /\ sigchld = FALSE /\ up = TRUE /\ pc = "init"
  /\ thread = [i \in Slots |-> NoPid] /\ nreqforks = 0
  /\ flags = {} /\ initialize = FALSE
  /\ forkFails = 0 /\ faults = 0

Loop ==
  \/ StartLoop \/ CheckBatch \/ CheckRequests \/ CheckPublish \/ CheckAfd
  \/ CheckZombies

Next ==
  \/ Loop \/ NewDay \/ SigChld \/ Restart
  \/ \E m \in Messages : AppendRequest(m)
  \/ \E n \in ThreadChoices : EditConfig(n)
  \/ \E p \in Pids : ListprocStep(p) \/ Defer(p) \/ FinishUnusual(p) \/ Kill(p)

\* serverd loops and is started again, its children run.
Fairness ==
  /\ WF_vars(Loop) /\ WF_vars(SigChld) /\ WF_vars(Restart)
  /\ \A p \in Pids : WF_vars(ListprocStep(p))

Spec == Init /\ [][Next]_vars /\ Fairness

-----------------------------------------------------------------------------
(* Properties *)

Process ==
  [kind : Kinds, st : {"start", "take", "copied", "run", "zombie"},
   code : {"ok", "reinit", "fatal"}]

FilesType ==
  /\ requests \in Seq(Messages) /\ batch \in Seq(Messages) \cup {NoFile}
  /\ sent \in SUBSET Messages /\ lock \in Pids \cup {Nobody}

ProcsType ==
  /\ child \in [Pids -> {NoChild} \cup Process] /\ work \in [Pids -> Seq(Messages)]
  /\ handled \in [Messages -> Nat]
  /\ killed \in BOOLEAN /\ sigchld \in BOOLEAN /\ up \in BOOLEAN

LoopType ==
  /\ conf \in ThreadChoices /\ nreqthreads \in ThreadChoices
  /\ pc \in {"init", "reap"} \cup Kinds
  /\ thread \in [Slots -> Pids \cup {NoPid, Failed}] /\ nreqforks \in Slots
  /\ flags \in SUBSET (Kinds \ {"requests"}) /\ initialize \in BOOLEAN
  /\ forkFails \in Nat /\ faults \in Nat /\ forkFails + faults <= MaxFaults

\* Type invariant.
TypeOK == FilesType /\ ProcsType /\ LoopType

Count(file, m) == Cardinality({i \in 1..Len(file) : file[i] = m})

\* Where a request is: in a file, in a mail copy whose file has been emptied, or
\* done.
Carried(m) == [p \in Pids |-> IF Alive(p, "run") THEN Count(work[p], m) ELSE 0]

Copies(m) ==
  Count(requests, m) + (IF batch = NoFile THEN 0 ELSE Count(batch, m))
    + Total(MaxThreads + 1, Carried(m)) + handled[m]

\* src/bins/serverd/serverd.c:1316 a second listproc process for the same file
\* does "no harm": every request is in one place, and carried out once, unless
\* a process was killed with its mail copy.
Conserved == \A m \in sent : Copies(m) <= 1 /\ (Copies(m) = 1 \/ killed)

\* The table of serverd: as long as no fork fails, every listproc process is in
\* it and each of its slots in use holds one.
Tracked ==
  up /\ forkFails = 0 =>
    /\ \A p \in Pids : Exists(p) => Known(p)
    /\ \A i \in InUse : thread[i] # NoPid /\ Exists(thread[i])
    /\ \A i, j \in InUse : thread[i] = thread[j] => i = j

\* Requests are taken from their file, whatever ends and restarts meanwhile,
\* and so are those put off, once the day's look at the batch file is to come;
\* an initialize command is only "postponed" (src/bins/serverd/serverd.c:1092).
Served ==
  /\ requests # <<>> ~> (requests = <<>> \/ forkFails > 0)
  /\ (batch \notin {NoFile, <<>>} /\ "batch" \notin flags) ~> (batch = <<>> \/ forkFails > 0)
  /\ initialize ~> (~initialize \/ forkFails > 0)

=============================================================================

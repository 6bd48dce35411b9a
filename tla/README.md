# ListProc 8.2: models, model checking and proofs

ListProc is a mailing list manager made of cooperating Unix programs. The
programs share no memory. They meet in files (mailboxes, a queue of list names,
counters, progress records), in `fcntl` record locks, and in the parent/child
relation with its `SIGCHLD`s. Nearly everything that is hard about the system is
there: who owns a file between two steps, what a process that dies leaves behind,
and which child a signal speaks of. The modules of this directory model these
meeting points; text processing (headers, addresses, arguments) is left out.

Paths such as `bins/list/list.c:287` are relative to `src/`.

## 1. How to run

    tlc -workers 2 -config MCLpLock.cfg MCLpLock     # model checking
    tlapm LockProofs.tla                             # proofs; likewise the other *Proofs.tla

`PROJECT.json` lists the runs with their configurations, for each property a
mutant (a faulty variant of one definition, which the property must reject), the
source lines each definition models, the hazards and the theorems.

## 2. The system

```
  ilp <--TCP--> serverd's listener --fork--> session --runs--> listproc

  MTA --> catmail --(mail, errors mailbox; .newmail)--> serverd --fork--> list
             \                                             |                | fork
              \--(requests file)---------------------------+--fork--> listproc
                                                                            v
                              pqueue -b  <----------- children of list (nthreads > 1)
                                  v
                      sendmail / SMTP / mail queue
```

### 2.1 Components

| Component | State it keeps | Operations | Interacts through | Hard | Correct means | Model |
|---|---|---|---|---|---|---|
| **Locks** `lputil/lplock.c`, `port/locks.c` | per process a list of open lock files; the kernel's record locks | `lpl_lock`, `lpl_try_lock`, `lpl_unlock`, process death | one file per (resource, list) | blocking, conversion, refused circles, death while holding | one writer or many readers; no hang | `LpLock` |
| **serverd, lists** `bins/serverd/serverd.c` | `_llist` table (busy, pids, threads), `nforks`, configuration | main loop, `run_program`, `sighandle`, `reinit`, `read_configf` | forks `list`, SIGCHLD, config files, `.newmail` | handler against loop, merged signals, configuration changed underneath, restart | one process per list, threads accounted for, mail served | `Dispatch` |
| **New-mail queue** `lplib/newmail.c`, `get_next.c` | `.newmail`, `first_scan_done` | report, get next, init | lock NEWMAIL | report against dequeue, busy lists | no duplicates, no idle list passed over | `NewMail` |
| **serverd, requests** same file | `reqthreads[]`, `nreqforks`, once-a-day flags | batch, requests, publish, AFD/FUI | forks `listproc`, SIGCHLD | a table shifted in a handler, four spawning places | each child in the table, requests taken | `Requests` |
| **serverd, listener** same file | table of sessions, client sockets | accept, refuse, expel, serve a session | TCP, fork, SIGCHLD, TIMEOUT_SIG | full table, aborted sessions, signals blocked at the wrong time | table right, both ends in step, everyone answered | `Listener`, `IlpSession` |
| **catmail** `bins/catmail` | none | deliver to mailbox or requests, report the list | locks, `.newmail` | reports before it appends | nothing lost | other actor of four modules |
| **list, intake** `bins/list/list.c`, `objects/mbox.c`, `lputil/lpcounter_file.c` | `<mail>.work`, `.num` counter, `.msg.<n>` | rename mailbox, extract, count, process, remove | mailbox lock, started by serverd | death between any two steps | in order, at most one message lost per death | `MboxIntake` |
| **list, processing** `process_message.c`, `list_utils.c` | history of Message-IDs and digests, count of the day | ignore, reject, hold, distribute | limits, moderated file | duplicates, daily limit shared with serverd | only what may pass passes | `Posting`, `DailyLimit` |
| **list, distribution** `distribute.c`, `processed_items.c` | `.out.<x>`, `.out.<x>.proc` | filter, per method (subscribers, news, peers, archives): send, record, finish; resume leftovers | subscribers, peers and news files, pqueue children, filter, inews | death between sending and recording, asynchronous children | nobody forgotten, few duplicates | `Delivery` |
| **Digests** `list/digest.c`, `serverd.c` | accumulating files, number, `.digest.sent` | add, send on size or time, clear | serverd's timer | death between sending and clearing | each message in one digest of each format | `Digest` |
| **Moderation** `list/moderate.c`, `approve.c`, `discard.c` | moderated file, tags | hold, approve, discard | lock MODERATED, mailbox | two rewritings of one file, an append during one | each message decided once | `Posting` |
| **pqueue** `bins/pqueue` | - | `-b`: send a batch; else: work off the mail queue | message file, mail queue | message file removed under it, two runs | finds its file | `Delivery`, `Outbound` |
| **Mail queue and back ends** `send/` | queue files, id file | SMTP dialogue, text of a message, queue, read, resend | MTA, files | partial acceptance, late replies, death between sending and removing, dots and a full buffer | nobody forgotten, nobody removed for another's fault, the text arrives whole | `Outbound`, `MailText` |
| **Subscribers file** `objects/subfile.c` | `.subscribers`, `.sorted`, copies | iterate, find, add, delete, update, sort | lock SUBSCRIBERS | several operations make a request | members stay, one line each | `Subscriptions`; iterator in `Delivery` |
| **Subscription commands** `subscribe.c`, `unsubscribe.c`, `set.c`, `lpalias.c` | aliases | SUBSCRIBE, UNSUBSCRIBE, SET | subscribers, aliases | stale entry written back | file as the answer says | `Subscriptions` |
| **Confirmation** `confirmation.c` | cookie file | ask, confirm, deny, expire | lock on the file itself | purge replaces the locked file, repeated answers | each cookie used once, none lost | `Confirmation` |
| **listproc, intake** `bins/listproc/listproc.c` | mail copy, batch file | copy and empty requests, defer, exit status | lock REQUESTS, exit status to serverd | two processes at one file, kill | each request once | `Requests` |
| **listproc, requests by mail** `listproc.c`, `lp2.c` | Message-Ids and checksums, batch file | recognise repetitions, check each line, carry out, reject, put off | edit lock, list lock, batch hours | looked up under one lock and recorded under another; a file format that glues messages | each request once, for its sender | `RequestMail` |
| **Errors** `process_errors.c` | subscriber modes | analyse a bounce | subscribers | text | - | its removals in `Subscriptions` |
| **HOLD, FREE** `hold_free.c` | hold file, limits file | hold, free | lock MISC | limits file written by three programs | - | `DailyLimit` |
| **Owners' files** `edit.c`, `put.c`, `hold_free.c` | edit lock, list lock, a time stamp per file | EDIT, PUT, LOCK, UNLOCK | lock MISC, subscribers, admission of requests in `listproc.c` | days pass between EDIT and PUT, locks of others taken away | a PUT replaces what its owner was sent | `Editing` |
| **Configuration** `configuration.c`, `misc.c`, `listproc.c` | a list's config file; what each listproc remembers of it, with its time stamp | CONFIGURATION, reading on demand | lock GLOBAL_SYSFILES for the writing | all settings read, one changed, all written back; stamps in seconds | the file holds what was asked for, requests are judged by it | `ListConfig` |
| **Other commands** `commands/` | - | report | exit status | - | - | effects only |
| **Archives** `farch.c`, `archive.c`, `list_file_archive.c`, `get.c` | INDEX, CONFIG, DIR, the files and their parts | ADD, UPDATE, DELETE, CREATE, MODIFY, REMOVE, the list's monthly file | lock GLOBAL_ARCHIVES, the program farch | the lock is given back between the steps of a request, tables are moved away and rewritten | DIR and the disk agree, the configuration is what was asked for | `Archive` |
| **AFD, FUI** `afd_fui.c` | tables SFT, FST, FMT of an archive | ADD, DELETE, the delivery serverd starts | lock GLOBAL_ARCHIVES, GET | mail first, times later and without the lock | the tables agree, nobody is missed or told twice | `FileUpdates` |
| **Reverse database** `lprevdbm.c`, `revdb`, `rev` | `users.db`: a user's roles on each list; the pages each process has read | set, clear, rebuild a list or all | lock GLOBAL_REVDBM, the files it repeats | two files changed one after the other, pages never read again, two orders of locks | says what the files say | `RevDb` |
| **Interactive clients** `bins/ilp`, `silp.c` | socket | protocol | TCP | server and client must agree on whose turn it is | in step | ilp in `IlpSession` |
| **start** `bins/start` | - | kill what is left, start serverd | signals | children of the old system | - | `Restart` of two modules |
| **Parsing, utilities, vendored, installation** | - | - | - | - | - | no |

### 2.2 What is hard in this code

The list is under `hazards` in `PROJECT.json`, each at its line, with the
properties that watch it or a note why none does. In short:

* **handler against loop** - `sighandle` changes `nforks`, the slots,
  `reqthreads` and the listener's table at any moment at which SIGCHLD is open;
* **merged signals** - one SIGCHLD for several children, one child collected per
  call, a poll guarded by the counts;
* **death between two steps** - of list, pqueue, listproc, serverd; every
  persistent record (counter, `.proc`, digests, subscribers, moderated file,
  cookies, queue files) is written in more than one step;
* **operations locked, requests not** - SUBSCRIBE looks and then appends, SET
  reads and then writes back, APPROVE goes on without the lock, list increments
  the daily count without any; the cookie file is locked by a lock that goes away
  with the file it replaces;
* **configuration underneath** - number of threads changed while they are in use;
* **stale positions and pages** - a count that indexes a file which others edit, a page of
  the database that is written back whole;
* **limits** - threads in blocks, slots, the table of sessions, a history of a
  fixed number of lines;
* **two ends of a connection** - SMTP replies later than the client waits, a
  session that must not wait for a client that waits for it;
* **something must happen** - mail, errors, requests, initialize, digests,
  sessions.

## 3. Modules

| Module | Is | Extends / instantiates |
|---|---|---|
| `RWLock` | abstract: readers/writer lock | - |
| `LpLock` | `lplock.c` over the kernel | `RWLock` as `Abstract` |
| `NewMail` | operators on the queue `.newmail` | - |
| `Totals` | the sum of a table of numbers, as a recursive function | - |
| `Dispatch` | serverd, list half; catmail; list as a child | `NewMail`, `Totals` |
| `Requests` | serverd, listproc half; listproc's intake | `Totals` |
| `IlpSession` | one interactive session, server and client | - |
| `Listener` | serverd's listener with its table | `IlpSession` |
| `MboxIntake` | list reading its mailbox | - |
| `Posting` | list deciding on a message; APPROVE and DISCARD | - |
| `DailyLimit` | the count of the day between serverd, list and listproc | - |
| `Broadcast` | abstract: what distributing promises | - |
| `Delivery` | list distributing; pqueue children | `Broadcast` as `Promise` |
| `Digest` | list and serverd making digests | - |
| `Subscriptions` | the subscribers file and the requests that change it | - |
| `Editing` | the owners' EDIT, PUT, LOCK and UNLOCK beside those requests | `Subscriptions` |
| `RevDb` | the database of users and the requests that change it | `LpLock` as `K` |
| `Confirmation` | cookies | - |
| `RequestMail` | requests by mail, their checks, the batch file, lp2 | - |
| `Outbound` | SMTP, mail queue, pqueue | - |
| `MailText` | the text of a message as SMTP and as a queue file get it | - |
| `Archive` | ARCHIVE, farch, the list's monthly file | - |
| `FileUpdates` | AFD and FUI: tables and delivery | - |
| `ListConfig` | CONFIGURATION and the readers of a list's config file | - |
| `LockProofs` | theorems about files that processes lock | `LpLock`, `Confirmation`, `ListConfig`, `Archive`, `TLAPS` |
| `ListProofs` | theorems about what list does with its mailbox and its digests | `MboxIntake`, `Digest`, `TLAPS` |
| `RequestsProofs` | theorems about what listproc takes in and about the files people subscribe to | `Requests`, `FileUpdates`, `TotalsProofs`, `TLAPS` |
| `DispatchProofs` | theorems about serverd's list half and about the count of the day | `Dispatch`, `DailyLimit`, `TotalsProofs`, `TLAPS` |
| `*Proofs`, the others | theorems about the module they are named after | that module, `TLAPS`; `EditingProofs` also `Delivery`, `ListenerProofs` also `TotalsProofs` |
| `MC*` | values for the model checker | one module each; `MCLetters`, `MCArchives` and `MCEditing` take two to four that share no file both write, `part` says which of them a behaviour is of |

Definitions with an underscore and a lower-case word (`Report_always`,
`RecordBatch_ahead`) are faulty variants for the mutants. No module's `Next`
refers to them. Every module states a type invariant `TypeOK` where the shape of
its state is not evident; those of `LpLock`, `Dispatch`, `DailyLimit`, `Requests`, `IlpSession` with `Listener`, `Posting`,
`MboxIntake`, `Editing` and `Confirmation` are theorems. Where a proof module extends two or three of them,
one keeps the usual names and the others have their own: `CInit`, `CNext`, `CSpec` in `Confirmation`, `D...`
in `Digest`, `L...` in `ListConfig` and `DailyLimit`, `A...` in `Archive`, `U...` in `FileUpdates`.

The modules meet at these points. `Dispatch!MailServed` is what `MboxIntake`
assumes as fairness of `Start`; `MboxIntake` hands a message to `Posting` (whose
mailbox is a queue), `Posting` hands it to `Delivery` and `Digest`; what `Delivery`
calls accepted by the mail system is a whole dialogue of `Outbound`. `LpLock`'s
exclusion makes an operation under a lock one step in the others.

### 3.1 LpLock

State: `fds[p]` is the linked list `lpl_lock_list_head` of process p; `kern[l][p]`
is the record lock the kernel keeps; `waits[p]` the `F_SETLKW` p sleeps in.
Actions: `LockNow`, `LockWait` + `Granted`, `LockFail` are the outcomes of
`lpl_lock` (granted, slept and granted, EDEADLK); `TryLock`, `Unlock`, and
`Exit`, by which the kernel closes all files. The conflict rule (`Blockers`) and
the detection of circles (`WouldDeadlock`) model the kernel and are marked
external. A conversion keeps the old lock while it waits, and one unlock undoes any
number of locks: both come from `lpl_get_fd` and `lpl_remove_fd`.

### 3.2 NewMail and Dispatch

State: what is on disk (`mail`, `err`, `held`, `queue`, `conf`), what runs
(`child`, `sigchld`), and serverd's variables under their own names (`nforks`,
`nthreads`, `slot[l]` for the fields of `_llist` that matter, `initialize`).
`pc` is the place in the loop: `init`, then the phases `digest`, `mail`,
`errors` (each: test, re-read of the configuration, fork, storing of the pid or waiting
for the child), `reap`, `next`.

Granularity: the loop is cut wherever the handler may come in. SIGCHLD is
blocked from before the fork to after the pid is stored (`Blocked`), so
`SigChld` is not enabled there, and several zombies are covered by the one
pending bit, as in the kernel. `ReadConfig` and `ReadGlobalConfig` are two steps
since `read_configf` first resets the whole of `sys` to defaults and then reads
the global file, with SIGCHLD open in between.

A pid is one of `Pids`; there is one for each list and one for error mail, which is
as many as serverd ever has, and `FreePid` is any that is not in use. `Accounted` has as
its hypothesis `NeverLowered`, see 4.3.

Actions of others: `Take` and `Exit` of list processes, `ReportNewMail` before
`AppendMessage` of catmail (in that order, as in catmail.c), `Hold`, `EditConfig`,
`InitSignal`, `Restart` by start after serverd has ended. Disturbances draw on
`MaxFaults`. An *installation* is what TLC starts from: the scan method, the
threads, which lists have digests, how much mail comes and how many disturbances.

### 3.3 Requests

The same loop with the list half left out. `thread` and `nreqforks` are
`reqthreads[]` and its count, including the slot that is one behind the last
(publishing and AFD/FUI test that one), `-1` for a failed fork, and the shift
down in the handler (`Removed`). A listproc process goes through `Look`, `Copy`
(takes the lock, copies), `Empty` (unlinks or truncates, unlocks), `Handle`
or `Defer` for each request, and `Finish`; `FinishUnusual` carries the exit
status by which serverd learns of an initialize, a shutdown or a restart.
`NewDay` clears the once-a-day flags. `Copies(m)` counts the places in which the request m
is, over the files, the mail copies of all processes and the requests carried out.

### 3.4 IlpSession and Listener

A line of the client is only its kind, a reply its code; `toSrv` and `toCli` are
the two directions of the connection. `server[u]` is the session's process
(`process_live_request`): greeting, login, password, then `Simple`, `Continue`
(a line ending in &), `Put` with its text up to a dot, `Run` (a request listproc
carries out), each with a possible redirection of the answer into a file, for which
the server asks the client (`Permission`). `blocked` and `pend` are the signals
`BLOCK_SIGNAL` and `RELEASE_SIGNAL` keep, with the two ways to compile them
(`bsd`). `client[u]` is ilp: it types when it has been answered, may press the
abort key, give up after its timeout, or vanish.

`Listener` adds `be_listener`: `Fork` with SIGCHLD blocked until `Store` has
entered the child in `clients`, refusal of hosts, and, when the table is full,
`Expel`: the first session older than a day gets TIMEOUT_SIG and the listener
loops until the handler (`Collect`, one child per signal) has removed it.

### 3.5 MboxIntake

State: the mailbox `mail`, the renamed one `work`, the counter file `num` (with
the values `NoFile` and `Torn` for a file truncated and not yet written),
the extracted message files, and the histories `arrived`, `archive`, `handled`.
Each system call that changes a file is a step: `RenameMail`, `MbOpen`, `Extract`,
`TruncateCounter`, `WriteCounter`, `Process`, `Dispose`, `UnlinkMessage`,
`MbClose`, `RemoveCounter`. A torn counter reads as any number
(`CounterReadings`): `fscanf` reads nothing and the variable is uninitialized.
`Crash` is possible at every step, and `hit[w]` counts in which window
it came; the properties name the windows in which they make no promise, so that
nothing else is excused. The order of messages (`Before`) is that in which catmail
appended them; it holds across mailboxes, so a message is never handed on twice.
`Lost` are those that arrived and are neither in the mailbox nor still to be read (`Unread`),
in hand or handled.

### 3.6 Posting

`Attr[m]` says what each check of `process_list_message` finds in message m; the
actions `Ignore`, `Reject`, `Accept`, `Route`, `Forward`, `GiveTag` apply the
checks in the order of the code, under the options of `Settings`. `ids` and `sums` are
the history files with their `MaxLines` lines (2000 in the code). A line is appended (`Line`) until a file is
`Full`; then it is unlinked (`CheckId`, `SaveSum`), and the copy `Shortened` by a character, which is in `temp`
meanwhile, is renamed to its name (`ReplaceIds`, `ReplaceSums`). A death in between costs the file
(`file_list.c:231`, `232`); `lostAt` remembers how many Message-IDs had been `recorded` by then. Files are inodes:
the list process
may still have the moderated file open while a listproc process renames another over
it or moves it away (`fd`, `Moves`). The file is the set of its tags, `gone[t]` how often
the message with tag t was approved or discarded. APPROVE is `Lock`, `Look`, `ToMail`,
`Unlink`, `Rename` and then `remove_msg` without the lock (`MoveAway`,
`Create`, `CopyBack`); DISCARD ends with `Rename`. `overlap` remembers that two
processes were rewriting the file at once. `DecidedOnce` says of a message that was held, and
of no overlap, that its tag is in the moderated file or with the one process that is
replacing it (`Holds`, `Seen`), or has been approved or discarded, once and at most once more for each death.

### 3.7 DailyLimit

`limits` is the list's `.limits` file with count and date, `Torn` while it is
written. serverd (`Look`, `Read`, `Stat`, `NewCount`, `Skip`, `Spawn`), one list
process for the mail and one for the errors (`PassCheck` or `Refuse`, and some time later `TakeMail`, since the
check at `list.c:277` and the move of the mailbox at 288 are under no common lock; then `ProcessOne`,
`IncRead`, `IncTruncate`, `IncWrite`), listproc (`PutHold`, `Free`). Times are in seconds: serverd asks only whether
the file's is the one it remembers (`changed`), so the model keeps that and which of the two times is of the
present second (`fresh`, cleared by `Second`); a write in the second that serverd remembers does not set `changed`
(`Touched`). `raced` says that two changed the file at once, `checked` what a list
process' check could not see: everything, when the file had just been emptied (`blind`), or so many messages
(`unseen`), those that were just being counted, and those the other process begins before the mailbox is moved.

### 3.8 Broadcast and Delivery

State: `out` are the message files, `items[f]` the `.proc` file of f (per method a count or
`MethodDone`), `child[k]` the running pqueue processes, also those of list
processes that have died, `inbox`, `peerbox`, `newsbox` and `archived` count what was received. A
list process first resumes leftovers (`CompletePrevious`), then takes a new
message (`Prepare`, `WriteMessage`, with a filter `Filter` and `Filtered`, between which
the file is away, and `InitItems`: the file comes before its record) and goes through the
pending methods. `news` reads the lines of the .news file (`StartNews`, `SkipLine` for one that
names no group, `PostToGroup` or `PostingFails`, `RecordGroup`), `peer` those of the .peers file,
`file` and `web` put the message away. The regular method copies the subscribers file, collects
batches of `MaxRecipients` and for each sends (`SendBatch`) or spawns
(`SpawnBatch`, or `QueueBatch` when the fork fails) and then records
(`RecordBatch`): sending and recording are two steps, and `Crash` fits between.
`Reboot` kills the children too. `Subscribe`, `Unsubscribe`, `AddPeer` happen at any time. A member of
`Courses` says how many threads there are, which faults happen, which of the files exist, and
whether a failed posting is noticed (`POST_MAIL`) or not.

`Broadcast` knows only `posted`, `got` and `closed`: a message is closed only
when all recipients have got it. `Delivery!PromiseKept` is the refinement for
the readers who are subscribed throughout (`Steady`), of the steps from states in which no count may skip
a reader and no child's batch be lost (`Sound`, section 5).

### 3.9 Digest

`file` are the four accumulating files (contents and text of the MIME and the
plain digest), appended to and emptied one by one in the code's two orders;
`digests` the digest messages with the state made, ready (it has a `.proc` file)
or sent; `stamp` is the time of `.digest.sent`. serverd's part is `done_digest`,
`FoundStamp`, `DigestTime`, `SpawnDigest`, `NewDay`. Deaths of list (`KillList`) and
serverd (`KillServerd`) come at any step; `at` is where list is.

### 3.10 Subscriptions

A request is the sequence of file operations its command makes, each under the
lock of its own: alias look-up, search, `subfile_add`, `subfile_delete`,
`subfile_update` (a deletion and an addition), SET's reading of the entry and its
writing back, and the sorting of the file (`subfile_quicksort`, which keeps the
lock over several steps and renames). `leaving`, `mixed` and `moved` are
histories the properties need.

### 3.11 Editing

`stamp[f]` is the time stamp file of f, reduced to what `file_modified` compares:
the file's own time, another one, or none; `draft[o]` is what the owner o has on
his desk, with the contents he was sent. EDIT is `Copy`, `PutTimestamp`,
`LockEdit`, each alone, since only the copying of the subscribers is under a lock;
PUT is `LockMisc`, `LockSubscribers`, the test, and either `Return`, which is an
EDIT again, or `Truncate`, `Unstamp`, `UnlockEdit`, `Body`. `UserRequest` is the
admission of others' requests by `action()` (list lock, edit lock); the actions of
`Subscriptions` then run between any two steps of an owner's.

### 3.12 Confirmation

Files are inodes again, since the lock belongs to the file the name pointed to when it was opened.
The lines of a file are a set: only their order is left out, which nothing depends on, since no two have the
same cookie. `AskUser`, or `Answer` with what `FindCookie` sees of the text; then `Open`, `TakeLock` or `LockRefused` (the
process exits), at the first opening of a day the purge (`CopyYoung`, `Unlink`, `Rename`), then `Save` or
`Found`/`NotFound` (the cookie of the subject after that of the body), and `Execute` or `Deny`. `torn` are
the cookies looked up or saved while the file was being replaced.

### 3.13 Outbound

One message; a `plan` says to how many recipients, how many runs of pqueue there may be, how many replies
may come too late, and how many processes may die. `Open` and `Connect` begin a session. The connection is part of
the process: `late`
are replies the MTA has not yet sent, `sock` what has arrived. `SendRcpt`,
`SendData`, `SendBody` write, `Read` takes whatever is there (two replies at once
have no code), `Timeout` goes on without. `Sort` is what `smtpmail_v` does with the
statuses: remove, queue or forget. A queue file is made by `TakeId`, which reads the number and empties
`.queue.id` (`mail_queue.c:278`), `WriteId`, `Create` (which opens a file of that name as it is, without
truncating it, if there is one), `WriteHeader` and `WriteBody`. `RunQueue`, `NextFile` and `UnlinkSent` are
`mq_resend` run by pqueue. Histories: `doubted` counts for each recipient the
dialogues in which what was taken for his answer need not have been his (a late one, two together, none), `mixed` are
those in a queue file whose name was used twice, `cut` and `orphaned` are in 4.2.

`MailText` is the body that `SendBody` writes in one step: a sequence of parts (strings, files, the words of
a program, messages and lists of parts, the last two nested) goes line by line into a buffer (`WriteString`,
`WriteFile`, `WriteWords`, `WriteInner`; `Write` flushes a full buffer and lets a long line pass it by), a
dot that begins a line is doubled, `Finish` ends the text. `Written` is what `mu_write_body` makes of the
same parts for a file, `Taken` what an MTA that follows RFC 821 reads from `wire`.

### 3.14 Archive

One archive: `index` is its line of the INDEX, `config` its CONFIG (and the
directory), `dir` the DIR with the number of parts of each file, `shelf` what is on the disk
under each name, `temp` the temporary copies, `holder` whose the lock is. `AskArchive` is a request coming in;
it goes through `Locate`
(`get_archive_path`), `Load` (`load_archive_config`), `Text` (the copy made by fwin), then the
run of farch, which holds the lock throughout (`NewArchive` or `OldArchive`, `OpenText`, `Store`,
`Enter`, `MoveDir`, `UnlinkParts`, `WriteDir`, `AddEntry`; `Unfile`, `Delist`, `RmDir`), and `SaveConfig` or
`CleanUp` after it. `Post`, `PostMove`, `PostWrite` are list filing a message. `past` remembers
deaths and overlaps.

### 3.15 FileUpdates

`sft`, `fst` and `fmt` are the tables. A file has the `mtime` the code compares, in seconds, and an `edition`, the
number of the change, by which the properties tell versions apart. `Change` is an `Update`, in the second of the
last one or a later one, or `Vanish`. A file is `blurred` if it changed in the second that the FST had for it. A
request is `Add` or `Delete`, then `Check`, then under one lock `CopySft`,
`WriteSft`, `CopyFst`, `WriteFst`: each table is copied, emptied and written. The delivery
`Collect`s under the lock what has changed, `Notify`s, `Deliver`s through a GET, and then
records the times without the lock (`CopyTable`, `WriteTable`). `told` is the mail that
went out, `had` what there was when somebody subscribed.

### 3.16 ListConfig

`file` is the config file: its settings in the four groups in which
`configuration.c` writes them, how much of it is there, and its time in seconds.
`mem[p]` is the `list` structure of a listproc process with `config_st_mtime`.
A request is `Look` (the stamp, then the file is read if the stamp differs),
`Judge` (may he, is it disabled), then one of the operators named for the options
(`Subscription`, `Visibility`, `AddModerator`, `Control`, ...) on what was read,
and `Move`, `Create`, `Part` if the file is long, `Close`: the lock is there for these alone.
`ordered` is what the requests ask for one after the other. `log` remembers
overlapping requests, changes of one second (`blurred`), a file read again by a process that
still knows a mark which the file has no more (`sticky`), and deaths of writers.

### 3.17 RequestMail

`mail` and `batch` are the two files a listproc process may `Take`; `todo` are the
messages of its copy, `at` the line it has come to. `Header` looks the Message-Id up,
`Record` writes it down, `Body` compares the checksum; `Check` gives the
`Verdict` on a line in the order of `action()` (unknown, disabled, list locked,
restricted, put off, carried out), and the action that follows it uses a verdict
that may be stale. A rejection makes the rest of the message be looked at only
(`one_rejection`). `Work` is what `distribute()` makes of the batch file, in which a
request has no newline at its end. `gate` is lp2: the same checks on lines from a pipe, without a
message body, so that it ends where the code reads one.

### 3.18 RevDb

`member` and `boss` are what the subscribers files, the configs and the owners file say;
`db` the databases there have been (`revdb create` unlinks the file, and who has the old one
open keeps it); `proc[p]` what a process still has to do, which database it has open and the page it has
read. A request is a sequence of steps (`Program`), built from the code's functions:
`UpdateList` (`revdb_update_list`), `AddList`, `DeleteList`, `DeleteFast`, `File` (the subscribers file). The
locks are those of `LpLock`, with the refusal the kernel gives to one of a circle
(`LockRefused`), which the callers ignore. The page cache is taken at its worst: all
users are on one page, and it never leaves the cache. `astray` are the pairs of a user
and a list about which the database may be wrong; `Start`, `Store`, `ClearDbm` and `Die` say why.

## 4. Runs

| Run | Asks | Bounds |
|---|---|---|
| `lplock` | do the locks exclude, never hang, and implement `RWLock`? | 3 processes, 2 locks, symmetric: circles of two and three, two converting readers |
| `dispatch` | is every thread and child accounted for, one process per list, all mail and every name in `.newmail` served? | 2 lists; sequential scan with 1 or 2 threads, mail and errors, one disturbance; `mail_scan fifo` with a digest list and 2 catmails |
| `requests` | is every request carried out once, every listproc known, every request and initialize served? | 2 requests, 1 or 2 threads, one disturbance |
| `listener` | is the table right, are both ends in step, is everyone answered? | one user with every kind of request, both signal masks, one failed fork; a full table; 3 users at 2 slots |
| `intake` | what do deaths and failed opens cost? | 3 messages, 2 disturbances |
| `posting` | is a message held once and decided once, does only what is approved pass, how far apart are repeats? | 4 messages (one an owner's answer that encloses another, one a loop), 2 arrivals where messages are held and 4 where only owners may write, 3 requests, 2 listprocs, history of 1 line of 2 characters, 1 death, three sets of options; symmetric |
| `limit` | is the ceiling kept, is mail taken again? | ceiling 1, 2 arrivals, 2 days, 1 HOLD or FREE |
| `delivery` | nobody forgotten, no newsgroup either, bounded duplicates, promise kept, deliveries end? | 4 subscribers, batches of 2: 1 message, 2 deaths, 1 fault, a peer, 2 newsgroups and a bad line; 1 message, 1 death, 2 faults, a filter, newsgroups without peers; 2 messages and 1 death; people coming and going, 1 death; 2 threads, people coming and going, 2 faults |
| `digest` | is each message in a digest, once, some day? | 3 messages, digest of 4 entries (2 messages), 1 death, 1 failed fork |
| `subs` | who is on the list after all, does a PUT overwrite others' changes, and does the database say of the users what the files say? | users: 3 addresses, 2 processes, 3 requests, 1 death; owners, one of them the manager: three requests of theirs around one of a user, and two with a death; database: 2 users, 2 lists, all kinds of requests in pairs with 1 death, those that rebuild in pairs and threes |
| `letters` | is a confirmed request executed once, is no cookie lost? is no recipient lost, served twice, or removed for another's fault? is a request by mail carried out once, and for its sender? does the text of a message arrive as it was? | cookies: 2 processes, 2 cookies, 3 days with an expiration of 1, 2 replies that hold cookies in up to 2 lines (1 of them looked at) and the subject, 1 death; texts: all of up to 4 characters as one string, files, programs, nested messages and lists around texts of up to 3, a buffer of 2 characters; dialogue: 2 processes; 2 recipients, 2 pqueue runs, 1 late reply, 1 death, and 3 recipients, 1 pqueue run, 1 late reply, no death; requests: 8 settings of 2 processes, up to 2 messages, one of them delivered twice, 2 changes of locks and hours, 1 death, and a pipe of 7 lines for lp2; symmetric |
| `archives` | do DIR, disk, INDEX and CONFIG agree after requests that overlap or die? are AFD/FUI's tables in agreement, is nobody missed or told twice? does a list's config file hold what was asked for? | archive: 2 processes, 3 files of up to 2 parts, one part with the name of another file, and the monthly file, 2 to 4 requests, 1 death in two of the settings; updates: 2 processes, 2 subscribers with up to 2 spellings, 2 files one a prefix of the other, and all, 3 requests; or 2 requests, 2 changes in one second or in two, and 1 or 2 deliveries with 1 failed GET or 1 death; configuration: 2 processes, 2 or 3 requests with every option in one of the settings, 4 seconds, 1 death |

Why the bounds suffice. The hazards need two actors that differ: two lists
(one busy, one idle), two listproc processes at one file, three processes in a
circle of locks, a full batch and an incomplete one with a passed-over
subscriber between, two recipients with different answers and a third one for whom two replies come together, a third
request after two that
overlapped. Disturbances are counted since unbounded ones excuse
everything; one shows each kind everywhere, two show a second death during the
recovery from the first (`intake`, `delivery`). Numbers of threads: 1
selects the code that waits for the child itself, more than 1 the asynchronous one.
A history of 1 line is full after the first message, which is where the 2000 of the code matter; lines of 2
characters keep a mutilated line in the file for one message more, so that with 4 arrivals a Message-ID is
repeated at the least distance at which it may be, and nearer after a death. The theorem of section 5 is for any
number of lines. Symmetry is used where no liveness property is checked.

`CHECK_DEADLOCK FALSE` is set in all runs but `lplock` and `dispatch`: in the others
the finite supply of messages, requests, deaths and faults may be used up and
the system rests.

### 4.1 Fairness

* `Dispatch`: serverd's loop and handler, `Restart` (an assumption about the site, not the code: after
  serverd has ended somebody runs `start`, as the `restart` request and `installation/sample_init.d` do;
  without it nothing is served after a fatal error), children that have started, catmail between report and
  append. None for new mail, holds, edits, digests' time.
* `Requests`: loop, handler, restart, listproc processes that run. None for a new
  day, requests and edits.
* `Listener`: the processes go on (weak); accepting is strong, since the listener
  comes back to `accept` again and again while the handler takes turns with it. None for what people
  type, for alarms and for the passing of a day.
* `MboxIntake`: the process goes on, and serverd starts it when there is mail,
  which is `MailServed` of `Dispatch`. Nobody starts it for a leftover alone,
  which is why `MailProcessed` excuses deaths.
* `DailyLimit`: each process goes on; `Look` is strong because serverd's loop passes the
  list many times while it may be busy in between.
* `Delivery`: the process goes on and its children run. `StartList` is not fair:
  leftovers wait for the next message.
* `Digest`: the processes go on, serverd is restarted, days pass; serverd's looks at
  the list are strong for the same reason.
* `Posting`, `Subscriptions`, `Editing`, `Confirmation`, `Outbound`, `Archive`, `FileUpdates`,
  `ListConfig`, `RequestMail`, `RevDb`, `LpLock`: none; only safety is claimed.

### 4.2 Exceptions the properties name

A property that excuses a case says so by a history variable, and the case is a
behaviour of the code:

* `IdleEntryServed` speaks of idle lists, `MailServed` (`Dispatch`) of the sequential scan:
  with `mail_scan fifo` a busy list's name is dropped when others
  are taken (`get_next.c:138`) and its mail waits for the list's next message;
* `Accounted` (`Dispatch`): speaks of configurations in which the number of threads is not lowered
  to another number than 1 (`NeverLowered`): see 4.3;
* `Tracked`, `Served` (`Requests`): stated for runs without a failed fork. Publishing and AFD/FUI test the
  slot *behind* the new one (`serverd.c:1417`, `1479`): after one failed fork for
  requests has left `-1` there, later processes of this kind run without being in
  the table, and a failed fork of their own is counted, blocks initialize and is
  signalled at the end as pid -1;
* `Answered` (`Listener`): a victim in the middle of a request has TIMEOUT_SIG blocked (`serverd.c:3158`;
  compiled for BSD the mask is never freed again, whatever the comment there says),
  and one that died behind a merged SIGCHLD is not collected; the listener loops and
  accepts nobody meanwhile;
* `DecidedOnce` (`Posting`): excuses `overlap`. APPROVE rewrites the
  moderated file a second time without the lock (`remove_msg`), and list appends without
  it (`moderate.c:729`): what is appended between the reading and the renaming is gone;
* `CeilingKept`: excuses two processes that change `.limits` at once (`raced`: `inc_message_limit` takes no
  lock), and a check that found the file just emptied (`checked[k].blind`). It does not excuse, but counts, what a check
  cannot see: the message that the other list process is just counting, and those it begins between the check
  and the move of the mailbox (`list.c:277`, `288`); by so many a batch may begin above the ceiling;
* `MailTaken` of `DailyLimit`: excuses a FREE that serverd does not notice (`Unnoticed`): one between its reading of
  the file and its stat (`serverd.c:680`), or in the second that it remembers; it goes on skipping the
  list until the file is written again or the day ends;
* `RepeatsFarApart`: excuses, for the pairs of Message-IDs around it, a death of a list process between the unlink
  of the full `.message.ids` and the rename of the shortened one (`lostAt`, `file_list.c:231`, `232`);
* `ReachedOnce`, `PromiseKept`: speak of readers who are subscribed throughout; each
  unsubscription may shift the position by one, which `ReachedOnce` counts and `PromiseKept` excuses after a death.
  In the setting with children nobody
  dies: their batches are recorded when they are spawned, and a reboot that takes them with
  it lets those subscribers be skipped (`distribute.c:507`, `538`). A line of the
  .news file that names no group is skipped but not counted, so that each resumption repeats a group
  (`distribute.c:845`); and the newsgroups are complete where there is a .peers file (4.3);
* `DigestedOnce`: one message, or one repetition, per death; a death
  in the clearing of the four files repeats what has not been emptied yet;
* `MembersKept`: a death inside `subfile_update` costs one member, one between the unlink and
  the rename of the sorting may cost all; it and `AsAnswered` excuse addresses named by two
  requests at the same time and an address moved onto one that is subscribed;
* `NothingOverwritten`: excuses `blurred`, a change that the stamp does not show (times are in
  seconds, `put.c:295`; EDIT reads info without a lock before it stamps it, `edit.c:199`), and an owner
  whose stamp an UNLOCK or another's EDIT or PUT took away; `MembersKept`: `replaced`, a PUT that
  overwrote lines its owner had not seen or died; `LockWithStamp`: `tangled`, a PUT or UNLOCK between the
  stamp and the lock of an EDIT (`hold_free.c:226`, `put.c:361`);
* `CookieGoodOnce`: excuses cookies looked up or saved while a purge
  replaces the file (`confirmation.c:752`: closing the file frees the lock before the
  unlink and the rename);
* `SentOnce`: excuses recipients the MTA accepted before it refused DATA or the text: they have the status
  MR_SENT and are neither queued nor removed (`lpsmtp.c:62` against `smtpmail.c:155`); recipients only a process that
  died knew of; recipients for whom another's answer was taken, or none, after a reply that came too late
  (`doubted`: two replies read at once have no code, so whoever has them is "unknown", is sent the message with the others
  if DATA is accepted, and is queued to be sent it again, `smtpmail.c:154`); and those in a queue file that got the name of
  another (`mixed`: a death between the emptying and the writing of `.queue.id`, `mail_queue.c:278`, makes the
  numbers begin again, and the file is opened without being truncated, `mail_queue.c:307`). Copies are counted: one, and one more
  for each death, each queue file worked off by two at a time, and each dialogue in doubt. Removed without being
  refused are only those in doubt;
* `DirTrue`: excuses a death (`died`), two requests that bring a text for the same file at once
  (`crossed`, they share the temporary file), and for its other part an UPDATE that needs fewer parts than
  before (`shrunk`: the parts beyond stay) and an ADD refused at a later part (`partly`);
* `RolesTrue`: excuses pairs of a user and a list (`astray`) that two requests named at the same time, that
  a death left half done, or whose change was undone by a process that had read the page before: one without the write
  lock (PASSWORD takes the other one, `configuration.c:1876`), or one that had the database open
  from an earlier request. What is rebuilt is no longer astray; `OrdinaryLocked` excuses the requests that rebuild
  a list, which take the two locks in both orders (`lprevdbm.c:1096`);
* `AsConfigured`: excuses a death and a request that went on from what it had read while
  another changed, created or removed the archive, and a post that makes the archive while it is being
  created as a private one (both `overlap`; see 4.3);
* `TablesAgree`: excuses a death, a delivery writing the FST while a request does (`raced`, pass 5 has no
  lock), a DELETE that takes files of longer names out of the SFT only (`prefix`) and one from an address
  spelled differently (`respelled`); for its second part a file that changed between the mail and the
  writing of its time, deliveries of more than one file (`left`: see 4.3), and a version that came in the second
  which the FST had for the file (`blurred`: times are compared in seconds, `afd_fui.c:1789`, `1836`); `NotToldTwice`: a death, a
  race, a GET that failed after the notifications had gone out, those who have wanted all files at some time
  (the FMT has their times, and is written twice), and what is said of a file that is gone before the word goes
  out, which is said again of the next one (both found when the property was being proved: the bounds of the run are
  too small for them);
* `SettingsKept`: excuses two requests at the same time (`overlap`), changes
  the stamp does not show (`blurred`: seconds, and the stamp is taken before the file is read
  without a lock), deaths of writers, and, for the marks, a process that still knew one the file had
  lost (`sticky`);
* `ActedOnce`: excuses a message whose Message-Id or checksum two processes had in hand at the same time
  (`listproc.c:1019`, `1392`), and a death between an answer and the saving of the checksum; `AsSent`: texts
  with an empty string among their parts, and those with a program's output where the queue file's text is
  compared; requests that lay behind another in the batch file (`glued`, `listproc.c:1928`), and the text of
  a PUT where the server is configured to know no PUT and to ignore what it does not know.

### 4.3 Seen while modelling

* `read_configf` sets the number of threads back to the default and reads it again
  while children run and SIGCHLD is open (`serverd.c:3530`): a child that ends in
  the window, or after the manager has lowered the number, makes the handler's check
  (`serverd.c:2011`) end serverd with an internal error. `Dispatch` has this exit, followed by `Restart`;
* with the number lowered to another value than 1, a job that is about to start is given "-t 0" or less
  (`serverd.c:1226`). `nforks` reaches 0 while it runs, an "initialize", which is to be postponed
  "till all lists have finished delivering mail" (`serverd.c:1092`), frees the table, and a second process is
  started for the same list; `error_processing` can stay set for ever. Two values of at least 2 in `choices` show it;
  it was met as the case in which the invariant of `DispatchProofs` is not inductive;
* catmail reports before it appends (`catmail.c:284`): a quick serverd finds nothing;
* each re-read of `mail_scan fifo` restarts the first walk, at whose end the
  queue is emptied (`get_next.c:68`);
* the batch file is looked at once a day and marked as done before its process is
  started (`serverd.c:1326`), so a request deferred later waits a day; a killed
  listproc takes its mail copy with it (`listproc.c:825`); the request number is
  incremented under a read lock (`listproc.c:956`);
* the header of mbox.c promises the next *unprocessed* message (`mbox.c:6`). The
  counter is written before the message is processed, so a death in between skips one;
* a list process that dies between writing `.out.<x>` and `.out.<x>.proc`
  (`distribute.c:188`) leaves a message that nobody sends or removes;
* the return without a peers file ends the method *news* instead of *peer*
  (`distribute.c:1290`), unlocking news (1285): a posting that failed, and was left to be tried again, is
  lost, and *peer* stays pending, so that the message is never finished until there is a peers file;
* the file list with a limit of lines skips one character where it means a line
  (`file_list.c:210`), so lines are cut from the left and the file is not shortened;
* a list process that dies between `file_list.c:231` and 232 forgets all Message-IDs, or all checksums, it knew;
* moderators are told of a message before it is in the moderated file
  (`moderate.c:656`); APPROVE returns without unlocking when it does not find the tag (`approve.c:170`);
* `inc_message_limit` writes today's date over yesterday's count (`list_utils.c:552`);
* the age of the digest time stamp is computed from seconds since midnight
  (`serverd.c:3601`; the AFD/FUI code at `serverd.c:1443` does it correctly); a weekly
  or monthly digest at midnight may go out twice;
* a request sent from an alias is answered as done, but the subscribers file is searched
  for the sender (`unsubscribe.c`); the lines `^addr$` of `alias_add` are never
  matched by the removal; sorting a file of blank lines only dereferences NULL (`subfile.c:1082`);
* a confirmed request runs with the override flag and so ignores batch and edit locks; a
  clock set back purges cookies or never does (`confirmation.c:715`); the process exits when the
  lock of the cookie file is refused;
* for each word of a program `mu_write_body` writes the word whose index is that of the part in the body
  (`utils.c:231`), which the list of the words need not have, though `lpsmtp.c:815` says the two routines should be
  identical; the last character of an empty string is looked for before its beginning, so that a dot after it
  may not be doubled;
* the cookie buffers of a message are never initialised (`listproc.c:898`): when a message has a cookie only in its
  subject, or only in its body, the other one may be that of an earlier message, and its request is executed;
* in a queued message a body line `RCPT To:` makes the file unreadable and a line `.`
  ends it at the next reading; `mq_new_queue_file` returns with its lock held when
  the id file cannot be opened;
* a message filed by list between the manager's CREATE of a private archive and its farch makes the archive,
  with the password the list has for it or none (`list_file_archive.c:271`, here none); farch then finds the entry
  and changes its AFD mark only
  (`farch.c:1163`), so the CONFIG says private and GET asks for nothing. It was met as the state that the
  invariant behind `AsConfigured` did not cover;
* an EDIT without options is put off while somebody edits (`listproc.c:1766`), but its
  lock is written much later (`LOCK_EDIT`), so two owners may edit one file; PUT empties
  the file before it writes it (`put.c:359`); SET asks for an alias with an
  uninitialized address (`set.c:510`);
* when several files are to be mailed, the delivery of AFD sends only the first entry of its list (`afd_fui.c:1363`)
  and then records the new times of all (`afd_fui.c:1390`): the others' subscribers, promised "whenever updated"
  (`afd_fui.c:607`), are left out. The flags that say which table gets the time are or-ed into
  memory malloc has not cleared (`afd_fui.c:1517`, `1670`); `update_fmt` writes 0 for a time that has not changed;
* an UPDATE with fewer parts leaves the old parts on the disk, and the next ADD of such a name is
  refused; an ADD under way while the archive is removed makes it again, public and not split (`farch.c:1143`);
* CONFIGURATION reads the config file without a lock (as does `catmail.c:270`); a death between its `mv` and the
  writing leaves a list without one, and the `.old` file is not used again; "restrict" lines are written
  but never read (`misc.c:1148`); one time stamp of the owners file serves all lists (`listproc.c:1602`);
* a request put off is written to the batch file without a newline (`listproc.c:1928`). The next message's
  "From " line becomes part of it: its last argument is spoiled, and the requests of the next message are
  those of the first sender, or are dropped when one of his is rejected. A PUT that was put off is
  refused for its keyword (`put.c:235`) whenever it has a text;
* a message whose requests all come after the signature is answered "No requests found" each
  time: the checksum is saved only if no line is a request (`listproc.c:1392`);
* lp2 has no message body and ends with a null pointer where one is read: a PUT, and any request that
  must wait (`lp2.c:1234`);
* a session being forked misses a re-reading of the configuration (`serverd.c:2226`), one forked
  when SIGINT arrives is an orphan; PUT forgets its redirection at the dot; the permission test
  reads an uninitialized buffer at end of file.

## 5. Proofs

Checked by `tlapm`, for all values of the constants; the runs check the same
definitions on small instances.

| Theorem | States | Property of run |
|---|---|---|
| `LockProofs!Typing` | `Spec => []TypeOK` | |
| `LockProofs!Exclusion` | `Spec => []MutualExclusion` | `lplock` |
| `LockProofs!Entries` | `Spec => []HeldHasEntry` | |
| `LockProofs!DeadlockFreedom` | `Spec => []NoDeadlock` | `lplock` |
| `LockProofs!Refinement` | `Spec => ImplementsRWLock` | `lplock` |
| `DispatchProofs!Typing` | `Spec => []TypeOK` | |
| `DispatchProofs!Accounts` | `Spec => []Accounted` | `dispatch` |
| `DispatchProofs!LimitTyping` | `LSpec => []LTypeOK` | |
| `DispatchProofs!LimitCeiling` | `LSpec => CeilingKept` | `limit` |
| `RequestsProofs!Typing` | `Spec => [](TypeOK /\ FileOK)` | |
| `RequestsProofs!Conservation` | `Spec => []Conserved` | `requests` |
| `RequestsProofs!Tracking` | `Spec => []Tracked` | `requests` |
| `ListenerProofs!ListenerTyping` | `Spec => []TypeOK` | |
| `ListenerProofs!TableKept` | `Spec => []Kept` | `listener` |
| `ListenerProofs!EndsInStep` | `Spec => []InStep` | `listener` |
| `PostingProofs!PostingTyping` | `Spec => []TypeOK` | |
| `PostingProofs!PostingRepeats` | `Spec => []RepeatsFarApart` | `posting` |
| `PostingProofs!PostingApproved` | `Spec => []OnlyApproved` | `posting` |
| `PostingProofs!PostingDecided` | `Spec => []DecidedOnce` | `posting` |
| `PostingProofs!PostingLocked` | the lock keeps two processes from being between reading and renaming | |
| `ListProofs!IntakeTyping` | `Spec => []TypeOK` | |
| `ListProofs!IntakeProcessed` | `Spec => []ProcessedOnce` | `intake` |
| `ListProofs!DigestsOnce` | `DSpec => []DigestedOnce` | `digest` |
| `LockProofs!CookieTypes` | `CSpec => []CTypeOK` | |
| `LockProofs!CookiesGoodOnce` | `CSpec => []CookieGoodOnce` | `letters` |
| `LockProofs!SettingsAreKept` | `LSpec => []SettingsKept` | `archives` |
| `LockProofs!ArchivesAsConfigured` | `ASpec => []AsConfigured` | `archives` |
| `EditingProofs!EditingTyping` | `ESpec => []TypeOK` | |
| `EditingProofs!EditingLockWithStamp` | `ESpec => []LockWithStamp` | `subs` |
| `EditingProofs!EditingNothingOverwritten` | `ESpec => NothingOverwritten` | `subs` |
| `EditingProofs!DeliveryTyping` | `Spec => []DTypeOK` | |
| `EditingProofs!DeliveryChildren` | `Spec => [](crashes = 0 \/ course.nthreads = 1 => ChildFindsFile)` | `delivery` |
| `EditingProofs!DeliveryPromise` | `Spec => PromiseKept` | `delivery` |
| `RequestsProofs!UpdatesTyping` | `USpec => []UTypeOK` | |
| `RequestsProofs!UpdatesAgree` | `USpec => []TablesAgree` | `archives` |
| `RequestsProofs!UpdatesOnce` | `USpec => NotToldTwice` | `archives` |
| `TotalsProofs!LeastNatural`, `TotalChange`, `TotalBounds`, `TotalMonotone` | sums over tables of any length | used by `Dispatch`, `Requests` |

Assumptions. The named ASSUMEs in the modules are all there is: bounds are natural numbers, sentinels
(`NoFile`, `Absent`, `NoBatch`, `Torn`, `None`, `NoPid`, `Nobody`, `NoOne`) are not among the values they stand
beside, the sets that are
counted (`Messages` of `MboxIntake`, `Listprocs` of `Posting`, `AfdFiles` of `FileUpdates`) are finite, attributes
and settings are of the
values the code knows, a list of `Delivery` starts with each subscriber once; `Confirmation` has one inode more than
processes, so that a new file can always be made.
`Digest` and `ListConfig` need none, nor does `LpLock`; its sets may be infinite, since the
circle test is defined through closed sets and not through a transitive closure.

Each theorem rests on an inductive invariant; its steps are proved action by action and, for
the states with many variables, in groups of variables that actions change together.

* `LpLock`. *Typing* is inductive by itself. *Exclusion*: `StepShape` first reduces every step to one of
  three shapes: the kernel's table is unchanged, one process is granted a lock it is not blocked
  from (`Grant`), or one process loses locks (`Drop`). Mutual exclusion is
  preserved by each; the same lemma serves the refinement. *Entries* (no record lock without the entry by
  which it can be closed) is not inductive: `Granted` gives a sleeper a lock long after it stored its
  entry, so `EntryInv` adds that a sleeper has the entry of the lock it waits
  for. *DeadlockFreedom*: suppose a set S is stuck after the step. If the process
  that moved is awake it cannot be in S, and the others of S were stuck before
  (`AwakeStep`). If it went to sleep, its blockers reach it through S, which `WouldDeadlock` has just
  excluded (`SleepStep`). *Refinement*: each shape of step is `Write`,
  `Read` or `Release` of `RWLock`, or a stutter; mutual exclusion gives the guards.
* `Dispatch`. `Accounted` says of the moments at which SIGCHLD is open what holds of the table. To be inductive it
  needs what is true in between: who has marked a slot without a pid in it (`RecordOK`, `JobOK`), that no process
  is without a record but the one being started (`NoOrphan`), that every job has at least one thread, save one that
  serverd waits for (`AllocOK`), and that a thread is free at each step between the test and the allocation,
  also while the settings are back at their defaults (`ThreadsOK`). The last is
  false when the manager lowers the number of threads, which is how 4.3's case was found: hence the hypothesis
  `NeverLowered`. The count `nforks` is a sum over the lists; the lemmas of `TotalsProofs` say what changing
  one term does to it.
* `DailyLimit`. `LimitInv`: without a file nothing has happened (`StartedOK`), a process is started where there is none
  (`FreeOK`), an emptied file is being written (`TornOK`), and `CountOK`. As long as no two were changing the file
  at once, whoever is between reading and writing has the count of the file, and that count, with those who have
  processed a message and not yet counted it, covers what was processed since the reset. It must speak of the
  process that holds the count while the file is empty, and needs that two in `Changing` are a race in
  the very step that makes them two. From the check to the move of the mailbox `CheckedOK` carries what the check has found:
  what was processed since then the process has `unseen`, so that fewer than the ceiling and `unseen` are processed when it moves.
* `Requests`. `Conserved` needs that the lock is held by the process that has copied and not yet emptied the
  file, and that its copy is the file (`LockOK`): else emptying could drop what catmail has added. `WorkOK`
  says that no one else has a copy, so a process that ends has no request left in its hands. `Tracked` needs
  that without a failed fork no slot, not even those behind the ones in use, holds its result (`TableOK`).
* `Listener`. `InStep` is about two queues and two processes: `Agree(u)` lists the states in which a client
  and its session can be together, with what is under way, as a relation `Joint` of the two program counters
  and the queues; every action of either maps one of its cases to another. `Kept` needs that the listener,
  while it waits, has a victim that still lives if the table is full, and that a guest being entered is not
  in the table yet (`Rows`).
* `Posting`. *Repeats*: `HistoryOK` relates the file, or the copy that is about to replace it, to the whole history of
  Message-IDs: the lines from the end agree (`Ends`), all of the last `MaxLines` are there but those from before a
  loss (`Reaches`), and only the first line can be mutilated (`Sound`), which is what dropping characters one
  by one does (`LineAdded`, `Recorded`). Hence an ID that was unknown is far from its like (`StayApart`). *Approved*:
  an entry of the mailbox that skips the checks was let go by an
  APPROVE (`Approval`), through the steps of the listproc process. *Decided*: `Alone` says what the one
  process that is rewriting the file sees of it (`FileOK`), and how often each tag has been decided
  (`Decided`); it needs neither the lock nor that the file's tags are all still waiting, only the absence of
  overlaps. That is the point of *Locked*: between reading and renaming there are no two, so every overlap
  is of `remove_msg` or of the list's appending.
* `MboxIntake`. Two invariants. `OrderInv` (as long as no counter file was torn): the counter file says
  where the process is (`CounterOK`), and archive, the part of the work file not yet handed on (from `Past`
  on), and the mailbox are in order, one after the other. `Past` never goes down while the work file is
  there (`PastGrows`), whoever dies. `LossInv` (as long as no window was hit in which more is lost): no
  counter without its work file (`PlaceOK`), and then every step but one keeps every message it can find
  (`KeptStep`); the one is a crash with a message in hand (`KeptCrash`).
* `Digest`. `DigestInv`. The digests are numbered in the order in which they are made, and whichever list is making
  or sending has its number at hand (`NumbersOK`, `HandOK`); where list is in the middle of adding a message, the
  files before the step have it and the others not (`AddOK`). *DigestsOnce* counts: the messages that neither
  a file nor a digest holds are no more than the deaths (`LostOK`), and the times a message is in a digest, and
  once more if it still waits for one, no more than one and the deaths (`TwiceOK`). A serverd that is down counts
  as a death still to come, since it will take list with it; and while the files are cleared, in an order that
  leaves the text last for one format, a message is in the digest and in the file at once (`Window`).
* `Confirmation`. `CookieInv`: the type invariant, what lines a file can have (`LinesOK`), and three parts. A
  cookie is saved by one process and once (`SaveOK`). A request that was carried out, or that a process is
  about to carry out, has left no cookie in the file of that name, nor in a copy under way that will replace it
  (`OnceInv`). A cookie that is good is in every such copy, and in the file unless it has just been unlinked
  (`GoodInv`). The steps to look at are those of the purge, which copies a file whose lock it holds and unlinks
  it while others wait for that very file: what they do to it afterwards is lost, and this is what `torn` records.
* `ListConfig`. `ConfigInv`: whose task and memory are of which kind (`KindsOK`), the writer is alone and the
  file is not whole until he closes it (`WriterOK`), and three parts that each go from one copy of the settings
  to the next. Who remembers the time of the file remembers its settings, unless some file was written within a
  second somebody takes for its time (`KnownOK`); the file holds what was asked for when nobody writes it
  (`HeldOK`); what a process is about to write is what will then have been asked for, if the file was not
  written since he took its time (`NextOK`). They need that an option does the same to two copies which differ by
  marks and restricted commands only: `OptionTwins`, by cases over the thirty kinds of option.
* `Archive`. `ArchiveInv`, of the states without a death or an overlap. A farch in the middle of its work has the
  lock (`HolderOK`), and whoever creates, modifies or removes the archive is the only one between looking and the
  end (`AloneOK`), which the lock does not say, as it is given back three times: it is what the absence of an
  overlap means. Hence what a request has read, or made of it, can be compared with the archive as it is
  (`WorkOK`): up to its farch it holds the mark and the password of the INDEX, so that putting the mark there
  again changes nothing, and what will be written to the CONFIG is what will have been asked for. INDEX, CONFIG and what was
  asked for agree whenever nobody is between farch and the CONFIG or removing (`SteadyOK`).
* `FileUpdates`. *UpdatesAgree*: `Held` is the FST as it is, or will be when whoever has emptied it has written it.
  While no request and delivery rewrite it at once, only the two writings change it, and the SFT, or the copy of
  it that a request holds, says what `Held` says before or after the request (`SftOK`: `Asked` is what the request
  comes to). Its second part holds for every FST that anybody has in his hands (`IsSome`), so it needs no excuse for
  deaths and races: in each of them everybody in a line has heard of the time in it, and, once a
  delivery has collected, of the file as it is, or is on one of its lists (`HeardOK`). It leaves out the versions
  that are `blurred`, and needs only the
  FST on the disk to say which they are, since no file changes while a request is writing, and a change while a delivery
  writes is excused. *UpdatesOnce*: for everything told,
  its line in `Held` is empty or has that time, or the delivery is still to write it there (`ToldOK`); who is on a list and
  has not wanted all files is there because the FST did not have it (`ListsFresh`). It needs that a
  change brings an edition nobody has heard of (`EditionsOK`), which the code's times, in seconds, would not give.
* `Editing`. `EditInv`, of four parts. An owner has one request at a time (`OneDesk`), so that no one else
  changes the copy a process is about to stamp (`OwnCopy`). `TrueCopy`: whose stamp is his own, and current,
  has a copy of what the file holds, through the changes of users, which make the stamp old, and the PUTs,
  EDITs and UNLOCKs of other owners, which take the mark from him; *NothingOverwritten* is then what the test
  of PUT lets through. `LockInv` says where the edit lock and the stamps may differ while requests are under
  way: an EDIT that has written its stamp and not yet its lock, a PUT that has removed the last stamp and
  not yet the lock. *LockWithStamp* is the case without requests. The theorems need nothing of the subscribers
  file but that it is left alone where the code leaves it alone, so they hold whatever users' requests do.
* `Delivery`. `DeliveryInv`. What a process may be doing with a message (`PlaceInv`): from the step that takes a
  record to the one that removes it there is one, and the regular method is not done while the subscribers are
  read. `ChildInv`: without a death every child works on the message at hand, and a process that sends by
  itself has none; that is *DeliveryChildren*. *DeliveryPromise* needs that who is behind `pos` in the copy of the
  subscribers is cared for (`ScanInv`: has the message, is in a child's batch, or in the one being
  collected), so that the regular method, which is done when no child is left, has reached all (`DoneInv`).
  Both fail after a death, in two ways that the code allows: a child may be lost, or go on after its message's file was
  closed, and a count of lines, read after somebody has left, skips a reader. Hence `Sound`: no death so far
  (`CountInv`: then a count
  greater than 0 belongs to the message being sent), or no children and a list that nobody leaves
  (`StayInv`: then the first lines of the file are those the count was of). So `PromiseKept` asks of the steps out of
  sound states that they are steps of `Broadcast`.
* `Totals`. Induction over data is not available as a rule, but a sum can still be reasoned about: the set
  of the lengths at which a claim fails has a least member (`LeastNatural`, since inclusion of finite sets
  is well founded), and the claim carries over from the length before.

Only model-checked: liveness (all of it, under fairness), ENABLED and the absence of deadlocked states of
TLC's kind, which are out of the prover's reach; `ReachedOnce` of `Delivery`, the safety properties of
`Subscriptions` (`MembersKept` and `AsAnswered` also with `Editing`), `RevDb`,
`RequestMail`, `Outbound` and `MailText`, and `DirTrue` of `Archive`. `MembersKept` counts the lines of a file
that is sorted, and sorting is a recursive function of the sequence. Of these `Outbound`, `RequestMail`, `RevDb` and
the sums of `ReachedOnce` are
built from folds and programs computed from sequences, whose value for every input would need induction over
data.

## 6. Not modelled, and why

* Parsing, headers, commands' texts, analysis of bounces: decisions of one process
  on one text, better tested than model-checked. Where their outcome matters it is a
  choice or an attribute of the message.
* REVIEW, STATISTICS, LISTS, HELP, REPORT and the like: each
  reads or writes one file and mails an answer. Requests for lists of other servers are forwarded.
* INDEX and SEARCH, archives within archives, compression, uuencode and tar; two deliveries of AFD at once.
* The ^C operation of ilp (urgent data), the transfer of a file's bytes, remote servers as clients.
* `mtasend.c`, `pipemail.c`: they hand the message to another program and know no more.
* Failures of `malloc`, full disks, damaged file systems. A crash leaves what
  the completed system calls have written; the exceptions are the counter file and
  the limits file, whose torn states are modelled, and `pi_write`, whose torn state is
  listed as a hazard.
* Lock failures: `LpLock` shows that `lpl_lock` may return FAILURE; its callers
  ignore that. The other modules take the lock as held, except where it is not an
  `lpl` lock (`Confirmation`).

* Of the handlers that are modelled: the moment in which `sys.nreqthreads` has its default while the configuration is read
  again (`serverd.c:3549`; `Dispatch` has it for `sys.nthreads`) and the hourly clearing of the AFD/FUI flags
  (`serverd.c:1538`) in `Requests`, where only `NewDay` clears them; the aliases a DELETE removes
  (`unsubscribe.c:299`) in `Subscriptions`; and deaths between the several unlinks of an UNLOCK in `Editing`.

## 7. Plan

Done: everything of section 3.

Next models: a composition of `Dispatch` and `MboxIntake`, so that the fairness
of `Start` is derived rather than assumed; the callers' lock discipline (EDEADLK ignored,
wrong lock released at `file_list.c:50` and `distribute.c:1285`) on top of `LpLock`.

Next proofs: `Archive` (`DirTrue`), `Delivery` (`ReachedOnce`).

------------------------------ MODULE Delivery ------------------------------
(* How a "list" process distributes a message: the message file .out.<x> and *)
(* beside it .out.<x>.proc, which counts for each method of distribution how *)
(* far it got, so that the next process can complete the delivery.           *)
(*                                                                           *)
(* Sources: src/bins/list/distribute.c, src/bins/list/processed_items.c,     *)
(* complete_previous_delivery's call in src/bins/list/list.c, the iterator   *)
(* of src/objects/subfile.c, and src/bins/pqueue/pqueue.c (-b) for what a    *)
(* spawned child does.                                                       *)
(*                                                                           *)
(* Abstracted: the two digest methods are the regular one with other readers *)
(* (and in module Digest).  A batch is handed to the mail system as a whole, *)
(* and a message that the mail system, inews or the mail queue has accepted  *)
(* counts as received.  What the filter makes of the text is left out, and   *)
(* the accounting program, which is only told.  pi_write is one step: its    *)
(* truncated file is seen by nobody but a crash.                             *)
EXTENDS Integers, SequencesExt, FiniteSetsExt

CONSTANTS
  Files,           \* the messages posted to the list
  InitSubscribers, \* the subscribers file at the start
  Joining,         \* addresses that may subscribe later
  Leaving,         \* addresses that may unsubscribe
  Readers,         \* the addresses in mail mode ACK: they want each message
  Peers,           \* peers that may be added later
  MaxRecipients,   \* listp->maxrecipients
  Verp,            \* listp->verp != VERP_NONE
  Groups,          \* newsgroups
  NotAGroup,       \* a line of the .news file without an address and a group
  Absent,          \* the content of a file that does not exist
  NoBatch,         \* no child
  Courses          \* what is explored: listp->nthreads, the messages posted, the
                   \* bounds on deaths and on failing forks, postings and
                   \* archiving, whether people join and leave, whether there is a
                   \* filter, the .peers file at the start, the .news file, and
                   \* whether the server posts (POST_MAIL) or gates (GATE_MAIL)

Everyone == Range(InitSubscribers) \cup Joining
Archives == {"file", "web"}

\* In the order of dmeth[]
Methods  == <<"regular", "news", "peer", "file", "web">>
MethodDone == -1                                   \* (unsigned long) -1

ASSUME DeliveryAssumption ==
  /\ InitSubscribers \in Seq(Range(InitSubscribers)) /\ IsInjective(InitSubscribers)
  /\ MaxRecipients \in Nat \ {0} /\ Verp \in BOOLEAN
  /\ Files # {} /\ NotAGroup \notin Groups
  /\ NoBatch \notin [file : Files, to : SUBSET Readers]
  /\ Absent \notin [Range(Methods) -> Nat \cup {MethodDone}]
  /\ Courses # {}
  /\ Courses \subseteq [nthreads : Nat \ {0}, posts : SUBSET Files,
                         maxCrashes : Nat, maxFaults : Nat, churn : BOOLEAN,
                         filter : BOOLEAN, peers : Seq(Peers) \cup {Absent},
                         news : Seq(Groups \cup {NotAGroup}) \cup {Absent},
                         post : BOOLEAN]

\* Process slots for the children of a list process, one more than it may use,
\* and for those of the list processes that died before it.
Children == 1 .. Max({(c.nthreads + 1) * (c.maxCrashes + 1) : c \in Courses})

VARIABLES
  subs,        \* the subscribers file
  peers,       \* the peers file, or Absent
  posted,      \* the messages that have been posted
  begun,       \* those of them that have got a .proc file
  out,         \* the message files .out.<x> that exist
  items,       \* [Files -> .proc content: [method -> processed items], or Absent]
  inbox,       \* [Files -> [Everyone -> how often it was received]]
  peerbox,     \* [Files -> [Peers -> how often it was received]]
  newsbox,     \* [Files -> [Groups -> how often it was posted there]]
  archived,    \* [Files -> [Archives -> how often it was put there]]
  child,       \* [Children -> NoBatch or [file, to]]: running pqueue processes
  pc,          \* where the list process is
  procs,       \* dist_delivery_procs: its own children
  todo,        \* the leftover files complete_previous_delivery still has
  cur, method, \* the message and the index of the method being handled
  copy,        \* the copy of the subscribers file being read
  pos,         \* total_subs, or num_done for news and peers
  line,        \* the lines of the .news file that were read
  recips,      \* the batch being collected
  crashes, faults,
  course       \* the member of Courses that holds

spool   == <<out, items>>
admin   == <<subs, peers>>
outcome == <<inbox, peerbox, newsbox, archived>>
loop    == <<todo, cur, method>>
batch   == <<copy, pos, line, recips>>
bounds  == <<crashes, faults, course>>
dvars   == <<admin, posted, begun, spool, outcome, child, pc, procs, loop, batch, bounds>>

Fault == faults < course.maxFaults /\ faults' = faults + 1 /\ UNCHANGED <<crashes, course>>
Calm  == UNCHANGED bounds

-----------------------------------------------------------------------------
(* processed_items.c *)

InitialItems(mask) ==
  [m \in Range(Methods) |-> IF m \in mask THEN 0 ELSE MethodDone]

\* get_next_method: the first method after prev that is not done, or 0.
NextPending(f, prev) ==
  IF items[f] = Absent THEN 0
  ELSE LET pending == {i \in DOMAIN Methods :
                         i > prev /\ items[f][Methods[i]] # MethodDone}
       IN  IF pending = {} THEN 0 ELSE Min(pending)

\* check_processed_items, with the callers' correction of a negative number.
Processed(f, m) ==
  IF items[f] = Absent \/ items[f][m] = MethodDone THEN 0 ELSE items[f][m]

\* update_processed_items: a method marked as done stays so.
UpdateItems(f, m, n) ==
  items' = IF items[f] = Absent \/ items[f][m] = MethodDone THEN items
           ELSE [items EXCEPT ![f][m] = n]

AllDone(map) == \A m \in DOMAIN map : map[m] = MethodDone

\* end_processed_items: after the last method the .proc file is unlinked, and
\* the message file in the next step.
EndItems(f, m) ==
  LET map == [items[f] EXCEPT ![m] = MethodDone]
  IN IF items[f] = Absent THEN UNCHANGED items /\ pc' = "method"
     ELSE IF AllDone(map) THEN items' = [items EXCEPT ![f] = Absent] /\ pc' = "unlink"
     ELSE items' = [items EXCEPT ![f] = map] /\ pc' = "method"

UnlinkMessage ==
  /\ pc = "unlink"
  /\ out' = out \ {cur} /\ pc' = "method"
  /\ UNCHANGED <<admin, posted, begun, items, outcome, child, procs, loop, batch>> /\ Calm

-----------------------------------------------------------------------------
(* The list process: leftover messages first, then new ones *)

StartList ==
  /\ pc = "down"
  /\ todo' = out /\ pc' = "complete"
  /\ UNCHANGED <<admin, posted, begun, spool, outcome, child, procs, cur, method, batch>>
  /\ Calm

\* complete_previous_delivery: distribute_via_methods for each leftover file.
CompletePrevious ==
  /\ pc = "complete"
  /\ IF todo = {}
       THEN pc' = "ready" /\ UNCHANGED loop
       ELSE \E f \in todo :
              /\ cur' = f /\ todo' = todo \ {f} /\ method' = 0
              /\ pc' = "method"
  /\ UNCHANGED <<admin, posted, begun, spool, outcome, child, procs, batch>> /\ Calm

\* create_outbound_message_name: a name that nobody has.
Unused == course.posts \ posted

\* distribute_list_message: prepare_list_message creates the message file ...
Prepare(f) ==
  /\ pc = "ready" /\ f \in Unused
  /\ posted' = posted \cup {f} /\ out' = out \cup {f}
  /\ cur' = f /\ method' = 0 /\ pc' = "writing"
  /\ UNCHANGED <<admin, begun, items, outcome, child, procs, todo, batch>> /\ Calm

\* ... and writes it ...
WriteMessage ==
  /\ pc = "writing"
  /\ pc' = "prepared"
  /\ UNCHANGED <<admin, posted, begun, spool, outcome, child, procs, loop, batch>> /\ Calm

\* ... pass_through_filter moves it away for the filter to write another one,
\* and moves it back if that fails ...
Filter ==
  /\ pc = "prepared" /\ course.filter
  /\ out' = out \ {cur} /\ pc' = "filtering"
  /\ UNCHANGED <<admin, posted, begun, items, outcome, child, procs, loop, batch>> /\ Calm

Filtered ==
  /\ pc = "filtering"
  /\ out' = out \cup {cur} /\ pc' = "filtered"
  /\ UNCHANGED <<admin, posted, begun, items, outcome, child, procs, loop, batch>> /\ Calm

\* ... and init_processed_items the methods: not to peers or news what came
\* from there, and to the archives if the list has them.
InitItems ==
  /\ pc = IF course.filter THEN "filtered" ELSE "prepared"
  /\ \E others \in SUBSET {"news", "peer"}, kept \in {{}, Archives} :
       items' = [items EXCEPT ![cur] = InitialItems({"regular"} \cup others \cup kept)]
  /\ begun' = begun \cup {cur} /\ pc' = "method"
  /\ UNCHANGED <<admin, posted, out, outcome, child, procs, loop, batch>> /\ Calm

\* distribute_via_methods
NextMethod ==
  /\ pc = "method"
  /\ LET i == NextPending(cur, method)
     IN IF i = 0 THEN pc' = "complete" /\ UNCHANGED method
                 ELSE pc' = Methods[i] /\ method' = i
  /\ UNCHANGED <<admin, posted, begun, spool, outcome, child, procs, todo, cur, batch>>
  /\ Calm

-----------------------------------------------------------------------------
(* distribute_list_message_aux *)

\* Copy the subscribers and skip those who were processed before.
StartSubscribers ==
  /\ pc = "regular"
  /\ copy' = subs /\ pos' = Processed(cur, "regular") /\ recips' = {}
  /\ pc' = "scan"
  /\ UNCHANGED <<admin, posted, begun, spool, outcome, child, procs, loop, line>> /\ Calm

Full(to) == Cardinality(to) >= MaxRecipients \/ Verp

NextSubscriber_inPlace ==
  /\ pc = "scan" /\ pos < Len(subs)
  /\ pos' = pos + 1
  /\ recips' = recips \cup ({subs[pos + 1]} \cap Readers)
  /\ pc' = IF Full(recips') THEN "batch" ELSE "scan"
  /\ UNCHANGED <<admin, posted, begun, spool, outcome, child, procs, loop, copy, line>> /\ Calm

NextSubscriber ==
  /\ pc = "scan" /\ pos < Len(copy)
  /\ pos' = pos + 1
  /\ recips' = recips \cup ({copy[pos + 1]} \cap Readers)
  /\ pc' = IF Full(recips') THEN "batch" ELSE "scan"
  /\ UNCHANGED <<admin, posted, begun, spool, outcome, child, procs, loop, copy, line>> /\ Calm

EndSubscribers ==
  /\ pc = "scan" /\ pos >= Len(copy)
  /\ pc' = IF recips = {} THEN "wait" ELSE "last"
  /\ UNCHANGED <<admin, posted, begun, spool, outcome, child, procs, loop, batch>> /\ Calm

Receive(f, to) ==
  inbox' = [inbox EXCEPT ![f] = [s \in DOMAIN @ |-> IF s \in to THEN @[s] + 1 ELSE @[s]]]

\* After the final partial batch nothing is recorded.
Sent == pc' = IF pc = "batch" THEN "record" ELSE "wait"

\* send_list_message: in this process ...
SendBatch ==
  /\ pc \in {"batch", "last"} /\ course.nthreads = 1
  /\ Receive(cur, recips) /\ Sent
  /\ UNCHANGED <<admin, posted, begun, spool, peerbox, newsbox, archived, child, procs, loop, batch>>
  /\ Calm

\* ... by a child, when fewer than nthreads of them run ...
MaySpawn == Cardinality(procs) < course.nthreads

SpawnBatch ==
  /\ pc \in {"batch", "last"} /\ course.nthreads > 1 /\ MaySpawn
  /\ \E k \in Children :
       /\ child[k] = NoBatch /\ \A n \in Children : n < k => child[n] # NoBatch
       /\ child' = [child EXCEPT ![k] = [file |-> cur, to |-> recips]]
       /\ procs' = procs \cup {k}
  /\ Sent
  /\ UNCHANGED <<admin, posted, begun, spool, outcome, loop, batch>> /\ Calm

\* ... or by the mail queue, if the fork fails.
QueueBatch ==
  /\ pc \in {"batch", "last"} /\ course.nthreads > 1 /\ MaySpawn
  /\ Fault
  /\ Receive(cur, recips) /\ Sent
  /\ UNCHANGED <<admin, posted, begun, spool, peerbox, newsbox, archived, child, procs, loop, batch>>

RecordBatch_ahead ==
  /\ pc = "record"
  /\ UpdateItems(cur, "regular", pos + 1)
  /\ recips' = {} /\ pc' = "scan"
  /\ UNCHANGED <<admin, posted, begun, out, outcome, child, procs, loop, copy, pos, line>> /\ Calm

RecordBatch ==
  /\ pc = "record"
  /\ UpdateItems(cur, "regular", pos)
  /\ recips' = {} /\ pc' = "scan"
  /\ UNCHANGED <<admin, posted, begun, out, outcome, child, procs, loop, copy, pos, line>> /\ Calm

Await_not ==
  /\ pc = "wait"
  /\ EndItems(cur, "regular")
  /\ UNCHANGED <<admin, posted, begun, out, outcome, child, procs, loop, batch>> /\ Calm

\* "wait for any remaining mail threads to exit before removing the mail file"
Await ==
  /\ pc = "wait" /\ procs = {}
  /\ EndItems(cur, "regular")
  /\ UNCHANGED <<admin, posted, begun, out, outcome, child, procs, loop, batch>> /\ Calm

-----------------------------------------------------------------------------
(* The other methods *)

\* distribute_news_message.  The .proc file counts the groups, and as many lines
\* are skipped.
NoNewsgroups == course.news \in {Absent, <<>>}

StartNews ==
  /\ pc = "news"
  /\ IF NoNewsgroups
       THEN EndItems(cur, "news") /\ UNCHANGED <<pos, line>>
       ELSE /\ pos' = Processed(cur, "news") /\ line' = Min({pos', Len(course.news)})
            /\ pc' = "groups" /\ UNCHANGED items
  /\ UNCHANGED <<admin, posted, begun, out, outcome, child, procs, loop, copy, recips>> /\ Calm

MoreLines == pc = "groups" /\ line < Len(course.news)

SkipLine ==
  /\ MoreLines /\ course.news[line + 1] = NotAGroup
  /\ line' = line + 1
  /\ UNCHANGED <<admin, posted, begun, spool, outcome, child, pc, procs, loop, copy, pos, recips>>
  /\ Calm

PostToGroup ==
  /\ MoreLines /\ course.news[line + 1] # NotAGroup
  /\ newsbox' = [newsbox EXCEPT ![cur][course.news[line + 1]] = @ + 1]
  /\ line' = line + 1 /\ pos' = pos + 1 /\ pc' = "grouped"
  /\ UNCHANGED <<admin, posted, begun, spool, inbox, peerbox, archived, child, procs, loop,
                 copy, recips>>
  /\ Calm

\* post_to_newsgroup: if inews fails the method is left pending.
PostingFails ==
  /\ MoreLines /\ course.news[line + 1] # NotAGroup /\ course.post
  /\ Fault
  /\ pc' = "method"
  /\ UNCHANGED <<admin, posted, begun, spool, outcome, child, procs, loop, batch>>

RecordGroup ==
  /\ pc = "grouped"
  /\ UpdateItems(cur, "news", pos) /\ pc' = "groups"
  /\ UNCHANGED <<admin, posted, begun, out, outcome, child, procs, loop, batch>> /\ Calm

EndNews ==
  /\ pc = "groups" /\ ~ MoreLines
  /\ EndItems(cur, "news")
  /\ UNCHANGED <<admin, posted, begun, out, outcome, child, procs, loop, batch>> /\ Calm

\* distribute_peer_message without a peers file marks the news as done.
StartPeers ==
  /\ pc = "peer"
  /\ IF peers = Absent
       THEN EndItems(cur, "news") /\ UNCHANGED pos
       ELSE pc' = "peers" /\ pos' = Processed(cur, "peer") /\ UNCHANGED items
  /\ UNCHANGED <<admin, posted, begun, out, outcome, child, procs, loop, copy, line, recips>>
  /\ Calm

SendToPeer ==
  /\ pc = "peers" /\ pos < Len(peers)
  /\ peerbox' = [peerbox EXCEPT ![cur][peers[pos + 1]] = @ + 1]
  /\ pos' = pos + 1 /\ pc' = "peersent"
  /\ UNCHANGED <<admin, posted, begun, spool, inbox, newsbox, archived, child, procs, loop,
                 copy, line, recips>>
  /\ Calm

RecordPeer ==
  /\ pc = "peersent"
  /\ UpdateItems(cur, "peer", pos) /\ pc' = "peers"
  /\ UNCHANGED <<admin, posted, begun, out, outcome, child, procs, loop, batch>> /\ Calm

EndPeers ==
  /\ pc = "peers" /\ pos >= Len(peers)
  /\ EndItems(cur, "peer")
  /\ UNCHANGED <<admin, posted, begun, out, outcome, child, procs, loop, batch>> /\ Calm

\* distribute_file_archive and distribute_web_archive.  The latter runs a program;
\* if that fails the method is left pending for the next list process.
RunArchive ==
  /\ pc \in Archives
  /\ archived' = [archived EXCEPT ![cur][pc] = @ + 1] /\ pc' = "archived"
  /\ UNCHANGED <<admin, posted, begun, spool, inbox, peerbox, newsbox, child, procs, loop, batch>>
  /\ Calm

ArchiveFails ==
  /\ pc = "web"
  /\ Fault
  /\ pc' = "method"
  /\ UNCHANGED <<admin, posted, begun, spool, outcome, child, procs, loop, batch>>

EndArchive ==
  /\ pc = "archived"
  /\ EndItems(cur, Methods[method])
  /\ UNCHANGED <<admin, posted, begun, out, outcome, child, procs, loop, batch>> /\ Calm

Exit ==
  /\ pc = "ready"
  /\ pc' = "down"
  /\ UNCHANGED <<admin, posted, begun, spool, outcome, child, procs, loop, batch>> /\ Calm

ListStep ==
  \/ CompletePrevious \/ WriteMessage \/ Filter \/ Filtered \/ InitItems \/ NextMethod
  \/ StartSubscribers \/ NextSubscriber \/ EndSubscribers
  \/ SendBatch \/ SpawnBatch \/ RecordBatch \/ Await
  \/ StartNews \/ SkipLine \/ PostToGroup \/ RecordGroup \/ EndNews
  \/ StartPeers \/ SendToPeer \/ RecordPeer \/ EndPeers
  \/ RunArchive \/ EndArchive \/ UnlinkMessage

-----------------------------------------------------------------------------
(* pqueue -b: send the message file to the addresses of the command line.     *)
(* Its exit status is only logged (handle_sigchld).                           *)

Reap_missed(k) == child' = [child EXCEPT ![k] = NoBatch] /\ UNCHANGED procs

Reap(k) == child' = [child EXCEPT ![k] = NoBatch] /\ procs' = procs \ {k}

ChildSends(k) ==
  /\ child[k] # NoBatch
  /\ IF child[k].file \in out THEN Receive(child[k].file, child[k].to)
                              ELSE UNCHANGED inbox
  /\ Reap(k)
  /\ UNCHANGED <<admin, posted, begun, spool, peerbox, newsbox, archived, pc, loop, batch>> /\ Calm

-----------------------------------------------------------------------------
(* Deaths and the administrator *)

Death == crashes < course.maxCrashes /\ crashes' = crashes + 1 /\ UNCHANGED <<faults, course>>

\* The list process is killed; its children go on.
Crash ==
  /\ pc # "down" /\ Death
  /\ pc' = "down" /\ procs' = {}
  /\ UNCHANGED <<admin, posted, begun, spool, outcome, child, loop, batch>>

\* The machine goes down.
Reboot ==
  /\ Death
  /\ pc' = "down" /\ procs' = {} /\ child' = [k \in Children |-> NoBatch]
  /\ UNCHANGED <<admin, posted, begun, spool, outcome, loop, batch>>

Subscribe(s) ==
  /\ course.churn /\ s \in Joining \ Range(subs)
  /\ subs' = Append(subs, s)
  /\ UNCHANGED <<peers, posted, begun, spool, outcome, child, pc, procs, loop, batch>> /\ Calm

Unsubscribe(s) ==
  /\ course.churn /\ s \in Leaving
  /\ \E i \in DOMAIN subs : subs[i] = s /\ subs' = RemoveAt(subs, i)
  /\ UNCHANGED <<peers, posted, begun, spool, outcome, child, pc, procs, loop, batch>> /\ Calm

\* The peers file is locked while a list process reads it.
AddPeer(p) ==
  /\ pc \notin {"peers", "peersent"}
  /\ IF peers = Absent THEN peers' = <<p>>
                       ELSE p \notin Range(peers) /\ peers' = Append(peers, p)
  /\ UNCHANGED <<subs, posted, begun, spool, outcome, child, pc, procs, loop, batch>> /\ Calm

-----------------------------------------------------------------------------
DInit ==
  /\ course \in Courses
  /\ subs = InitSubscribers /\ peers = course.peers
  /\ posted = {} /\ begun = {} /\ out = {} /\ items = [f \in Files |-> Absent]
  /\ inbox = [f \in Files |-> [s \in Everyone |-> 0]]
  /\ peerbox = [f \in Files |-> [p \in Peers |-> 0]]
  /\ newsbox = [f \in Files |-> [g \in Groups |-> 0]]
  /\ archived = [f \in Files |-> [a \in Archives |-> 0]]
  /\ child = [k \in Children |-> NoBatch] /\ pc = "down" /\ procs = {}
  /\ todo = {} /\ cur = (CHOOSE f \in Files : TRUE) /\ method = 0
  /\ copy = <<>> /\ pos = 0 /\ line = 0 /\ recips = {}
  /\ crashes = 0 /\ faults = 0

Next ==
  \/ StartList \/ \E f \in Files : Prepare(f)
  \/ ListStep \/ QueueBatch \/ PostingFails \/ ArchiveFails \/ Exit
  \/ \E k \in Children : ChildSends(k)
  \/ Crash \/ Reboot
  \/ \E s \in Everyone : Subscribe(s) \/ Unsubscribe(s)
  \/ \E p \in Peers : AddPeer(p)

\* A process that is not killed goes on.  Nothing is assumed of StartList: serverd
\* starts a list process for new mail or a digest, not for leftover files.
Fairness == WF_dvars(ListStep) /\ \A k \in Children : WF_dvars(ChildSends(k))

Spec == DInit /\ [][Next]_dvars /\ Fairness

-----------------------------------------------------------------------------
(* Properties *)

\* Type invariant, in four parts: the spool, what was received, the list process
\* with what it reads, and its children.
SpoolOK ==
  /\ out \cup begun \subseteq posted /\ posted \subseteq Files
  /\ DOMAIN items = Files
  /\ \A f \in Files : items[f] # Absent =>
       f \in out /\ items[f] \in [Range(Methods) -> Nat \cup {MethodDone}]

BoxesOK ==
  /\ inbox \in [Files -> [Everyone -> Nat]] /\ peerbox \in [Files -> [Peers -> Nat]]
  /\ newsbox \in [Files -> [Groups -> Nat]] /\ archived \in [Files -> [Archives -> Nat]]

Places ==
  Range(Methods) \cup
    {"down", "complete", "ready", "writing", "prepared", "filtering", "filtered", "method",
     "scan", "batch", "last", "record", "wait", "groups", "grouped", "peers", "peersent",
     "archived", "unlink"}

ProcessOK ==
  /\ course \in Courses
  /\ subs \in Seq(Everyone) /\ (peers = Absent \/ peers \in Seq(Peers))
  /\ pc \in Places /\ todo \subseteq out /\ cur \in Files /\ method \in 0 .. Len(Methods)
  /\ copy \in Seq(Everyone) /\ pos \in Nat /\ line \in Nat /\ recips \subseteq Readers
  /\ crashes \in 0 .. course.maxCrashes /\ faults \in 0 .. course.maxFaults

ChildrenOK ==
  /\ DOMAIN child = Children
  /\ \A k \in Children : child[k] # NoBatch =>
       child[k] \in [file : posted, to : SUBSET Readers]
  /\ procs \subseteq {k \in Children : child[k] # NoBatch}

DTypeOK == SpoolOK /\ BoxesOK /\ ProcessOK /\ ChildrenOK

\* The subscribers a resumed delivery of f would skip.
SkippedSubscribers(f) ==
  IF items[f] = Absent THEN {}
  ELSE {subs[i] : i \in {j \in DOMAIN subs : items[f]["regular"] = MethodDone
                                             \/ j <= items[f]["regular"]}}

\* The readers who are subscribed throughout.
Steady == (Range(InitSubscribers) \cap Readers) \ Leaving

Forgotten(f) ==
  {s \in SkippedSubscribers(f) \cap Steady :
     /\ inbox[f][s] = 0
     /\ \A k \in Children : child[k] = NoBatch \/ child[k].file # f \/ s \notin child[k].to}

Surplus(box) ==
  MapThenSumSet(LAMBDA a : IF box[a] > 1 THEN box[a] - 1 ELSE 0, DOMAIN box)

BadLines   == IF NoNewsgroups THEN 0
              ELSE Cardinality({i \in DOMAIN course.news : course.news[i] = NotAGroup})
Newsgroups == IF NoNewsgroups THEN {} ELSE Range(course.news) \ {NotAGroup}

\* Nobody is forgotten and nobody gets a message twice.  Whom the .proc file tells
\* the next process to skip has received the message, or a running child has it
\* to send; the file counts lines of the subscribers file, so that each
\* unsubscription in between may cost one reader the message, and not more.  A
\* death repeats at most one batch, one newsgroup, one peer and one archiving,
\* and a line of the .news file that names no group makes each resumption repeat
\* one more group (distribute.c:845-866).  A posting that fails is tried again
\* (distribute.c:976): no newsgroup is left out of a message that is finished,
\* unless the list has no .peers file (distribute.c:1286).
ReachedOnce ==
  \A f \in Files :
    /\ Cardinality(Forgotten(f)) <= Cardinality(Leaving \ Range(subs))
    /\ Surplus(inbox[f]) <= MaxRecipients * crashes
    /\ Surplus(peerbox[f]) <= crashes
    /\ Surplus(newsbox[f]) <= crashes + BadLines * (crashes + faults)
    /\ (f \in posted \ out /\ course.peers # Absent) =>
         \A g, h \in Newsgroups : newsbox[f][g] = 0 => newsbox[f][h] = 0
    /\ \A a \in Archives : archived[f][a] <= 1 + crashes

\* src/bins/list/distribute.c:562 "wait for any remaining mail threads to exit
\* before removing the mail file": a child finds the message it is to send.
ChildFindsFile == \A k \in Children : child[k] # NoBatch => child[k].file \in out

\* Every message taken up while there is a peers file is finished, unless the
\* process dies, or a fork, a posting or the archiving fails: the process is never stuck
\* on a full set of children.
Finished ==
  \A f \in Files :
    cur = f /\ pc = "method" /\ method = 0 /\ peers # Absent
      ~> f \notin out \/ crashes + faults > 0

\* The promise of Broadcast, for the steady readers.
Got    == {fs \in Files \X Steady : inbox[fs[1]][fs[2]] > 0}
Closed == begun \ out
Promise == INSTANCE Broadcast WITH Recipients <- Steady, got <- Got, closed <- Closed

\* No process has died; or the process sends by itself, and nobody leaves.
StaysOnly == course.nthreads = 1 /\ (Leaving = {} \/ ~course.churn)
Sound     == crashes = 0 \/ StaysOnly

\* A message's file disappears only after every such reader has received it,
\* whoever else subscribes or unsubscribes while it is being sent: as long as
\* the state is sound, every step is one of Broadcast.  Otherwise a batch may be
\* lost with a child, and a count of lines (distribute.c:507) skip a reader.
PromiseKept == Promise!Init /\ [][Promise!Next \/ ~Sound]_<<posted, Got, Closed>>

=============================================================================

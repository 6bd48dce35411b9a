--------------------------- MODULE DispatchProofs ---------------------------
(***************************************************************************)
(* Theorems about Dispatch for every number of lists and threads, every    *)
(* set of installations and any number of disturbances; and, in the second *)
(* part, about DailyLimit, for every ceiling and any number of messages,   *)
(* days and requests.                                                      *)
(***************************************************************************)
EXTENDS Dispatch, DailyLimit, TotalsProofs, SequenceTheorems

Starting == pc \in {"config", "defaults", "spawn"}
Started  == pc \in {"store", "wait"}
ErrorJob == job.kind = "errors"

\* The list whose slot the started job has marked, but where its pid is not
\* on record (yet); with a single thread it never is.
Marking(l)  == Started /\ ~ErrorJob /\ job.list = l
ErrorMarking == Started /\ ErrorJob

\* The table agrees with the processes.
RecordOK ==
  /\ \A l \in Lists : slot[l].pid # NoPid =>
       /\ slot[l].busy /\ Exists(slot[l].pid)
       /\ child[slot[l].pid].list = l /\ child[slot[l].pid].kind # "errors"
  /\ \A l \in Lists : slot[l].epid # NoPid =>
       errorBusy /\ Exists(slot[l].epid) /\ child[slot[l].epid].kind = "errors"
  /\ \A l \in Lists : slot[l].busy /\ slot[l].pid = NoPid => Marking(l)
  /\ errorBusy /\ (\A l \in Lists : slot[l].epid = NoPid) => ErrorMarking
  /\ \A l, k \in Lists : slot[l].epid # NoPid /\ slot[k].epid # NoPid => l = k

\* Every process is on record, or is the one being started.
NoOrphan ==
  \A p \in Pids : Exists(p) => Known(p) \/ (Started /\ p = job.pid)

\* The job at hand does not run yet, or runs unrecorded.
JobOK ==
  /\ Starting => IF ErrorJob THEN ~errorBusy ELSE ~slot[job.list].busy
  /\ Started =>
       /\ Exists(job.pid)
       /\ child[job.pid].list = job.list /\ child[job.pid].kind = job.kind
       /\ IF ErrorJob THEN errorBusy /\ \A l \in Lists : slot[l].epid = NoPid
          ELSE slot[job.list].busy /\ slot[job.list].pid = NoPid

\* Every job has at least one thread, save one that serverd waits for.
AllocOK ==
  \A l \in Lists : slot[l].busy /\ ~(pc = "wait" /\ Marking(l)) => slot[l].alloc >= 1

\* A thread is free when a job is about to start.  nthreads is 1 while the
\* global configuration is read again.
ThreadsOK ==
  /\ nthreads \in conf.choices \cup {1}
  /\ pc = "config" => nforks < nthreads
  /\ pc = "defaults" => nthreads = 1 /\ \A n \in conf.choices \ {1} : nforks < n
  /\ pc = "spawn" => nthreads = 1 \/ nforks < nthreads
  /\ pc = "wait" => nforks >= 1

Running == ThreadsCounted /\ RecordOK /\ NoOrphan /\ JobOK /\ AllocOK /\ ThreadsOK

\* The inductive invariant.
IInv == NeverLowered => IF up THEN Running ELSE \A p \in Pids : ~Exists(p)

-----------------------------------------------------------------------------
(* Types *)

\* A process that exists has the fields of one.
LEMMA ProcessFields ==
    ASSUME TypeOK, NEW p \in Pids
    PROVE  /\ Exists(p) <=> child[p].st # "none"
           /\ Exists(p) => child[p] \in Process
  BY DEF TypeOK, ProcsType, Process, Exists, NoChild

\* The next list and what is left of .newmail are well formed.
LEMMA GetNextType ==
    ASSUME NEW fifo \in BOOLEAN, NEW c \in Lists \cup {NoList}, NEW q \in Seq(Lists),
           NEW scan \in BOOLEAN, NEW taken \in [Lists -> BOOLEAN]
    PROVE  /\ GetNext(fifo, c, q, scan, taken).list \in Lists \cup {NoList}
           /\ GetNext(fifo, c, q, scan, taken).queue \in Seq(Lists)
           /\ GetNext(fifo, c, q, scan, taken).scanned \in BOOLEAN
<1>1. Successor(c) \in Lists \cup {NoList}
  BY NewMailAssumption DEF Successor, Lists, NoList
<1>2. Dequeue(q, taken).list \in Lists \cup {NoList} /\ Dequeue(q, taken).queue \in Seq(Lists)
  <2> DEFINE idle  == {i \in DOMAIN q : ~taken[q[i]]}
             first == CHOOSE i \in idle : \A j \in idle : i <= j
  <2>1. CASE idle = {}
    BY <2>1, EmptySeq DEF Dequeue
  <2>2. CASE idle # {}
    <3>1. idle \in SUBSET Nat /\ idle \subseteq 1..Len(q)
      BY LenProperties
    <3>2. \E i \in idle : \A j \in idle : i <= j
      BY <2>2, <3>1, LeastNatural
    <3>3. first \in 1..Len(q)
      BY <3>1, <3>2
    <3>4. q[first] \in Lists
      BY <3>3, ElementOfSeq
    <3>5. \A i \in (first + 1)..Len(q) : q[i] \in Lists
      BY <3>3, ElementOfSeq, LenProperties
    <3>6. SubSeq(q, first + 1, Len(q)) \in Seq(Lists)
      <4> HIDE DEF first
      <4> QED
        BY <3>3, <3>5, LenProperties, SubSeqProperties
    <3> QED
      BY <2>2, <3>4, <3>6 DEF Dequeue
  <2> QED
    BY <2>1, <2>2
<1>3. <<>> \in Seq(Lists)
  BY EmptySeq
<1>4. CASE ~fifo
  BY <1>1, <1>4 DEF GetNext
<1>5. CASE fifo /\ ~scan
  BY <1>1, <1>3, <1>5 DEF GetNext
<1>6. CASE fifo /\ scan
  BY <1>2, <1>6 DEF GetNext
<1> QED
  BY <1>4, <1>5, <1>6

\* A pid is free where Fork is enabled.
LEMMA FreePidIsFree ==
    ASSUME \E p \in Pids : ~Exists(p)
    PROVE  FreePid \in Pids /\ ~Exists(FreePid)
  BY DEF FreePid

\* What leaving a phase sets.
LEMMA LeaveType ==
    ASSUME TypeOK, NEW kind \in Kinds, Leave(kind)
    PROVE  pc' \in {"mail", "errors", "reap"} /\ job' = NoJob /\ dcur' \in Lists
<1>1. pc' \in {"mail", "errors", "reap"} /\ job' = NoJob
  BY DEF Leave, After, Kinds
<1>2. dcur \in 1..NLists /\ NLists \in Nat \ {0}
  BY NewMailAssumption DEF TypeOK, LoopType, Lists
<1>3. dcur' \in Lists
  BY <1>2 DEF Leave, Successor, Lists, NoList
<1> QED
  BY <1>1, <1>3

\* A process has a number of threads, and its owner is a list.
LEMMA ThreadsType ==
    ASSUME TypeOK, NEW p \in Pids
    PROVE  Threads(p) \in Int
<1>1. ASSUME Known(p) PROVE \E l \in Lists : /\ p \in {slot[l].pid, slot[l].epid}
              /\ \A k \in Lists : k < l => p \notin {slot[k].pid, slot[k].epid}
  <2> DEFINE S == {l \in Lists : p \in {slot[l].pid, slot[l].epid}}
  <2>1. S \in SUBSET Nat /\ S # {}
    BY <1>1 DEF Known, Lists
  <2>2. PICK m \in S : \A k \in S : m <= k
    <3> HIDE DEF S
    <3> QED
      BY <2>1, LeastNatural
  <2> QED
    BY <2>1, <2>2
<1>2. Known(p) => Owner(p) \in Lists
  BY <1>1 DEF Owner
<1> QED
  BY <1>2 DEF Threads, TypeOK, TableType, Slot

\* Each group of variables keeps its types.
LEMMA FilesStep == TypeOK /\ [Next]_vars => FilesType'
<1> SUFFICES ASSUME TypeOK, [Next]_vars PROVE FilesType'
  OBVIOUS
<1> USE DEF FilesType, files
<1>0. FilesType
  BY DEF TypeOK
<1>10. Fault => faults' \in 0..MaxFaults
  BY <1>0, DispatchAssumption DEF Fault
<1>1. CASE UNCHANGED <<mail, err, held, queue, sender, faults>>
  BY <1>0, <1>1
<1>2. CASE UNCHANGED vars
  BY <1>1, <1>2 DEF vars
<1>3. ASSUME StartLoop \/ CheckList \/ ReadConfig \/ ReadGlobalConfig \/ NoDigest \/ Fork
             \/ StorePid \/ WaitForChild \/ CheckZombies \/ SigChld \/ Restart
      PROVE  UNCHANGED <<mail, err, held, queue, sender, faults>>
  BY <1>3 DEF StartLoop, CheckList, ReadConfig, ReadGlobalConfig, NoDigest, Fork, StorePid,
     WaitForChild, CheckZombies, SigChld, Restart
<1>4. CASE ForkFails \/ NewDay \/ EditConfig \/ InitSignal
  BY <1>0, <1>4, <1>10 DEF ForkFails, NewDay, EditConfig, InitSignal
<1>5. CASE NextList
  <2>1. Busy \in [Lists -> BOOLEAN]
    BY DEF Busy, TypeOK, TableType, Slot
  <2>2. queue' \in Seq(Lists)
    BY <1>0, <1>5, <2>1, GetNextType DEF NextList, TypeOK, LoopType, ConfType
  <2> QED
    BY <1>0, <1>5, <2>2 DEF NextList
<1>6. ASSUME NEW p \in Pids, Take(p) \/ Exit(p) PROVE FilesType'
  BY <1>0, <1>6, <1>10 DEF Take, Exit
<1>7. ASSUME NEW q \in Senders, ReportNewMail(q) PROVE FilesType'
  <2>1. PICK l \in Lists, k \in conf.kinds :
           sender' = [sender EXCEPT ![q] = <<l, k>>] /\ queue' = Report(conf.fifo, queue, l)
    BY <1>7 DEF ReportNewMail
  <2>2. k \in Mailbox
    BY <2>1 DEF TypeOK, ConfType
  <2>3. queue' \in Seq(Lists)
    BY <1>0, <2>1 DEF Report
  <2> QED
    BY <1>0, <1>7, <2>1, <2>2, <2>3 DEF ReportNewMail
<1>8. ASSUME NEW q \in Senders, AppendMessage(q) PROVE FilesType'
  BY <1>0, <1>8 DEF AppendMessage
<1>9. ASSUME NEW l \in Lists, Hold(l) PROVE FilesType'
  BY <1>0, <1>9, <1>10 DEF Hold
<1> QED
  BY <1>1, <1>2, <1>3, <1>4, <1>5, <1>6, <1>7, <1>8, <1>9 DEF Next, Master, World

LEMMA ConfStep == TypeOK /\ [Next]_vars => ConfType'
<1> SUFFICES ASSUME TypeOK, [Next]_vars PROVE ConfType'
  OBVIOUS
<1> USE DEF ConfType
<1>0. ConfType
  BY DEF TypeOK
<1>1. CASE UNCHANGED conf
  BY <1>0, <1>1
<1>2. CASE \E S \in SUBSET Lists : conf' = [conf EXCEPT !.newer = S]
  BY <1>0, <1>2
<1>3. CASE \E n \in conf.choices, S \in SUBSET Lists :
             conf' = [conf EXCEPT !.threads = n, !.newer = S]
  BY <1>0, <1>3
<1>4. CASE UNCHANGED vars
  BY <1>1, <1>4 DEF vars, files
<1>5. CASE StartLoop \/ ReadConfig \/ Restart
  <2>1. conf.newer \ {job.list} \in SUBSET Lists /\ {} \in SUBSET Lists
    BY <1>0
  <2> QED
    BY <1>1, <1>2, <1>5, <2>1 DEF StartLoop, ReadConfig, Restart, FreshMaster
<1>6. CASE EditConfig
  <2>1. \A l \in Lists : conf.newer \cup {l} \in SUBSET Lists
    BY <1>0
  <2> QED
    BY <1>3, <1>6, <2>1 DEF EditConfig
<1>7. ASSUME CheckList \/ ReadGlobalConfig \/ NoDigest \/ Fork \/ ForkFails \/ StorePid
             \/ WaitForChild \/ CheckZombies \/ NextList \/ NewDay \/ SigChld \/ InitSignal
      PROVE  UNCHANGED conf
  BY <1>7 DEF CheckList, ReadGlobalConfig, NoDigest, Fork, ForkFails, StorePid, WaitForChild,
     CheckZombies, NextList, NewDay, SigChld, InitSignal, files
<1>8. ASSUME \/ \E p \in Pids : Take(p) \/ Exit(p)
             \/ \E q \in Senders : ReportNewMail(q) \/ AppendMessage(q)
             \/ \E l \in Lists : Hold(l)
      PROVE  UNCHANGED conf
  BY <1>8 DEF Take, Exit, ReportNewMail, AppendMessage, Hold, files
<1> QED
  BY <1>1, <1>4, <1>5, <1>6, <1>7, <1>8 DEF Next, Master, World

LEMMA ProcsStep == TypeOK /\ [Next]_vars => ProcsType'
<1> SUFFICES ASSUME TypeOK, [Next]_vars PROVE ProcsType'
  OBVIOUS
<1> USE DEF ProcsType, procs
<1>0. ProcsType
  BY DEF TypeOK
<1>1. CASE UNCHANGED <<child, sigchld, up>>
  BY <1>0, <1>1
<1>2. CASE UNCHANGED vars
  BY <1>1, <1>2 DEF vars
<1>3. ASSUME StartLoop \/ CheckList \/ ReadConfig \/ ReadGlobalConfig \/ NoDigest \/ ForkFails
             \/ StorePid \/ NextList \/ NewDay \/ EditConfig \/ InitSignal
             \/ (\E q \in Senders : ReportNewMail(q) \/ AppendMessage(q))
             \/ (\E l \in Lists : Hold(l))
      PROVE  UNCHANGED <<child, sigchld, up>>
  BY <1>3 DEF StartLoop, CheckList, ReadConfig, ReadGlobalConfig, NoDigest, ForkFails, StorePid,
     NextList, NewDay, EditConfig, InitSignal, ReportNewMail, AppendMessage, Hold
<1>4. \A p \in Pids : [child EXCEPT ![p] = NoChild] \in [Pids -> {NoChild} \cup Process]
  BY <1>0
<1>5. ASSUME NEW n, NEW ch \in [Pids -> {NoChild} \cup Process], Die(n, ch) PROVE ProcsType'
  BY <1>0, <1>5 DEF Die
<1>6. CASE Fork
  <2>1. FreePid \in Pids
    BY <1>6, FreePidIsFree DEF Fork
  <2>2. job.list \in Lists
    BY <1>6 DEF Fork, Starts, TypeOK, LoopType
  <2>3. [list |-> job.list, kind |-> job.kind, st |-> "started", ok |-> TRUE] \in Process
    BY <2>2 DEF TypeOK, LoopType, Process
  <2> QED
    BY <1>0, <1>6, <2>3 DEF Fork
<1>7. CASE Restart
  BY <1>0, <1>7 DEF Restart
<1>8. CASE WaitForChild
  <2>1. job.pid \in Pids
    BY <1>8 DEF WaitForChild, TypeOK, LoopType
  <2> QED
    BY <1>0, <1>4, <1>5, <1>8, <2>1 DEF WaitForChild
<1>9. ASSUME FatalChild PROVE ProcsType'
  BY <1>4, <1>5, <1>9 DEF FatalChild
<1>10. ASSUME HandleChild PROVE child' \in [Pids -> {NoChild} \cup Process]
  BY <1>0, <1>4, <1>10 DEF HandleChild, Collect
<1>11. CASE SigChld \/ CheckZombies
  BY <1>0, <1>9, <1>10, <1>11 DEF SigChld, CheckZombies, HandleChild
<1>12. ASSUME NEW p \in Pids, Take(p) \/ Exit(p) PROVE ProcsType'
  <2>1. child[p] \in Process
    BY <1>12, ProcessFields DEF Take, Exit, Alive
  <2>2. /\ [child[p] EXCEPT !.st = "working"] \in Process
        /\ [child[p] EXCEPT !.st = "zombie"] \in Process
        /\ [child[p] EXCEPT !.st = "zombie", !.ok = FALSE] \in Process
    BY <2>1 DEF Process
  <2> QED
    BY <1>0, <1>12, <2>2 DEF Take, Exit
<1> QED
  BY <1>1, <1>2, <1>3, <1>6, <1>7, <1>8, <1>11, <1>12 DEF Next, Master, World

LEMMA LoopStep == TypeOK /\ [Next]_vars => LoopType'
<1> SUFFICES ASSUME TypeOK, [Next]_vars PROVE LoopType'
  OBVIOUS
<1> USE DEF master, loop
<1>0. LoopType /\ ConfType /\ NLists \in Nat \ {0} /\ 1 \in Lists
  BY NewMailAssumption DEF TypeOK, Lists
<1>1. CASE UNCHANGED <<pc, loop>>
  BY <1>0, <1>1 DEF LoopType
<1>2. CASE UNCHANGED vars
  BY <1>1, <1>2 DEF vars
<1>3. ASSUME \/ EditConfig
             \/ \E p \in Pids : Take(p) \/ Exit(p)
             \/ \E q \in Senders : ReportNewMail(q) \/ AppendMessage(q)
             \/ \E l \in Lists : Hold(l)
      PROVE  UNCHANGED <<pc, loop>>
  BY <1>3 DEF EditConfig, Take, Exit, ReportNewMail, AppendMessage, Hold
<1>4. NoJob \in [list : Lists \cup {NoList}, kind : Kinds, pid : Pids \cup {NoPid}]
  BY DEF NoJob, Kinds
<1>5. ASSUME NEW kind \in Kinds, Leave(kind), UNCHANGED <<cur, scanned, nthreads, initialize>>
      PROVE  LoopType'
  BY <1>0, <1>4, <1>5, LeaveType DEF LoopType, Phases, Kinds
<1>6. ASSUME NEW n, NEW ch, Die(n, ch) PROVE UNCHANGED <<pc, loop>>
  BY <1>6 DEF Die
<1>7. job.kind \in Kinds
  BY <1>0 DEF LoopType
<1>8. conf.threads \in Nat
  BY <1>0, DispatchAssumption DEF ConfType
<1>10. CASE StartLoop
  BY <1>0, <1>8, <1>10 DEF StartLoop, LoopType, Phases, Kinds
<1>11. CASE CheckList
  <2>1. CASE ~MayFork
    BY <1>0, <1>11, <2>1 DEF CheckList, LoopType, After, Phases, Kinds
  <2>2. CASE Leave(pc)
    BY <1>5, <1>11, <2>2 DEF CheckList
  <2>3. CASE pc' = "config" /\ dcur' = dcur /\ \E l \in Eligible(pc) : job' = [list |-> l, kind |-> pc, pid |-> NoPid]
    <3>1. PICK l \in Eligible(pc) : job' = [list |-> l, kind |-> pc, pid |-> NoPid]
      BY <2>3
    <3>2. l \in Lists /\ pc \in Kinds
      BY <1>0, <1>11, <3>1 DEF CheckList, Eligible, LoopType, Kinds
    <3>3. job' \in [list : Lists \cup {NoList}, kind : Kinds, pid : Pids \cup {NoPid}]
      BY <3>1, <3>2
    <3>4. job'.list \in Lists /\ pc' = "config"
      BY <1>11, <2>3, <3>1, <3>2 DEF CheckList
    <3> QED
      BY <1>0, <1>11, <3>3, <3>4 DEF CheckList, LoopType, Phases
  <2> QED
    BY <1>11, <2>1, <2>2, <2>3 DEF CheckList
<1>12. CASE ReadConfig
  BY <1>0, <1>12 DEF ReadConfig, LoopType, Phases, Kinds
<1>13. CASE ReadGlobalConfig
  BY <1>0, <1>8, <1>13 DEF ReadGlobalConfig, LoopType, Phases, Kinds
<1>14. CASE NoDigest
  BY <1>5, <1>14 DEF NoDigest, Kinds
<1>15. CASE Fork
  BY <1>0, <1>15, FreePidIsFree DEF Fork, Starts, LoopType, Phases, Kinds
<1>16. CASE ForkFails \/ StorePid
  BY <1>5, <1>7, <1>16 DEF ForkFails, StorePid
<1>17. CASE WaitForChild
  BY <1>1, <1>5, <1>6, <1>7, <1>17 DEF WaitForChild
<1>18. ASSUME FatalChild PROVE UNCHANGED <<pc, loop>>
  BY <1>6, <1>18 DEF FatalChild
<1>19. CASE SigChld
  BY <1>1, <1>18, <1>19 DEF SigChld, HandleChild
<1>20. CASE CheckZombies
  <2>1. CASE pc' = "next" /\ UNCHANGED loop
    BY <1>0, <2>1 DEF LoopType, Phases, Kinds
  <2> QED
    BY <1>1, <1>18, <1>20, <2>1 DEF CheckZombies, HandleChild
<1>21. CASE NextList
  <2>1. Busy \in [Lists -> BOOLEAN]
    BY DEF Busy, TypeOK, TableType, Slot
  <2>2. cur' \in Lists \cup {NoList} /\ scanned' \in BOOLEAN /\ pc' \in {"sleep", "init"}
    BY <1>0, <1>21, <2>1, GetNextType DEF NextList, TypeOK, FilesType, LoopType, ConfType
  <2> QED
    BY <1>0, <1>21, <2>2 DEF NextList, LoopType, Phases, Kinds
<1>22. CASE NewDay
  BY <1>1, <1>22 DEF NewDay
<1>23. CASE Restart
  BY <1>0, <1>4, <1>8, <1>23 DEF Restart, FreshMaster, LoopType, Phases, Kinds
<1>24. CASE InitSignal
  BY <1>0, <1>24 DEF InitSignal, LoopType
<1> QED
  BY <1>1, <1>2, <1>3, <1>10, <1>11, <1>12, <1>13, <1>14, <1>15, <1>16, <1>17, <1>19, <1>20,
     <1>21, <1>22, <1>23, <1>24 DEF Next, Master, World

LEMMA TableStep == TypeOK /\ [Next]_vars => TableType'
<1> SUFFICES ASSUME TypeOK, [Next]_vars PROVE TableType'
  OBVIOUS
<1> USE DEF master, table
<1>0. TableType
  BY DEF TypeOK
<1>1. CASE UNCHANGED table
  BY <1>0, <1>1 DEF TableType
<1>2. CASE UNCHANGED vars
  BY <1>1, <1>2 DEF vars
<1>3. ASSUME \/ CheckList \/ ReadConfig \/ ReadGlobalConfig \/ NextList \/ EditConfig \/ InitSignal
             \/ \E p \in Pids : Take(p) \/ Exit(p)
             \/ \E q \in Senders : ReportNewMail(q) \/ AppendMessage(q)
             \/ \E l \in Lists : Hold(l)
      PROVE  UNCHANGED table
  BY <1>3 DEF CheckList, ReadConfig, ReadGlobalConfig, NextList, EditConfig, InitSignal, Take,
     Exit, ReportNewMail, AppendMessage, Hold
<1>4. NewSlots \in [Lists -> Slot]
  BY DEF NewSlots, Slot
<1>5. ASSUME NEW n, NEW ch, Die(n, ch) PROVE UNCHANGED table
  BY <1>5 DEF Die
<1>6. Allocation(job.list) \in Int \/ job.list \notin Lists
  BY <1>0 DEF Allocation, TypeOK, TableType, ConfType, LoopType
<1>7. job.list \in Lists => Marked(job.list) \in [Lists -> Slot]
  <2>1. ASSUME job.list \in Lists, NEW done \in BOOLEAN, NEW alloc \in Int
        PROVE  [slot EXCEPT ![job.list].busy = TRUE, ![job.list].alloc = alloc,
                            ![job.list].done = done] \in [Lists -> Slot]
    <3>1. [slot[job.list] EXCEPT !.busy = TRUE, !.alloc = alloc, !.done = done] \in Slot
      BY <1>0, <2>1 DEF TableType, Slot
    <3>2. [slot EXCEPT ![job.list].busy = TRUE, ![job.list].alloc = alloc, ![job.list].done = done]
            = [slot EXCEPT ![job.list] =
                 [slot[job.list] EXCEPT !.busy = TRUE, !.alloc = alloc, !.done = done]]
      BY <1>0, <2>1 DEF TableType
    <3> QED
      BY <1>0, <2>1, <3>1, <3>2 DEF TableType
  <2>2. job.list \in Lists => slot[job.list].done \in BOOLEAN
    BY <1>0 DEF TableType, Slot
  <2>3. job.list \in Lists => (slot[job.list].done \/ job.kind = "digest") \in BOOLEAN
    BY <2>2
  <2> QED
    BY <1>0, <1>6, <2>1, <2>3 DEF Marked, TableType
<1>8. ASSUME NEW p \in Pids, Collect(p) PROVE TableType'
  <2>1. nforks' \in Int
    BY <1>0, <1>8, ThreadsType DEF Collect, TableType
  <2>5. errorBusy' \in BOOLEAN
    BY <1>0, <1>8 DEF Collect, TableType
  <2>2. \A l : [slot EXCEPT ![l].pid = NoPid, ![l].busy = FALSE] \in [Lists -> Slot]
    BY <1>0 DEF TableType, Slot
  <2>3. \A l : [slot EXCEPT ![l].epid = NoPid] \in [Lists -> Slot]
    BY <1>0 DEF TableType, Slot
  <2>4. slot' \in [Lists -> Slot]
    BY <1>0, <1>8, <2>2, <2>3 DEF Collect, TableType
  <2> QED
    BY <2>1, <2>4, <2>5 DEF TableType
<1>10. CASE StartLoop \/ Restart
  <2>1. nforks' \in {0, nforks} /\ slot' \in {NewSlots, slot} /\ errorBusy' \in {FALSE, errorBusy}
    BY <1>10 DEF StartLoop, Restart, FreshMaster
  <2>2. nforks' \in Int /\ slot' \in [Lists -> Slot]
    BY <1>0, <1>4, <2>1 DEF TableType
  <2>3. errorBusy' \in BOOLEAN
    BY <1>0, <2>1 DEF TableType
  <2> QED
    BY <2>2, <2>3 DEF TableType
<1>11. CASE NoDigest
  <2>1. PICK due \in {FALSE, job.list \in conf.digests} :
           slot' = [slot EXCEPT ![job.list].done = due]
    BY <1>11 DEF NoDigest
  <2>2. \A b \in BOOLEAN : \A l : [slot EXCEPT ![l].done = b] \in [Lists -> Slot]
    BY <1>0 DEF TableType, Slot
  <2>4. due \in BOOLEAN
    <3>1. (job.list \in conf.digests) \in BOOLEAN
      OBVIOUS
    <3>2. due = FALSE \/ due = (job.list \in conf.digests)
      OBVIOUS
    <3> QED
      BY <3>1, <3>2, Zenon
  <2>3. slot' \in [Lists -> Slot]
    BY <2>1, <2>2, <2>4
  <2> QED
    BY <1>0, <1>11, <2>3 DEF NoDigest, TableType
<1>12. CASE Fork
  <2>1. job.list \in Lists /\ slot' = Marked(job.list)
    BY <1>12 DEF Fork, Starts, TypeOK, LoopType
  <2>2. nforks' \in Int /\ errorBusy' \in BOOLEAN
    BY <1>0, <1>6, <1>12, <2>1 DEF Fork, TableType
  <2> QED
    BY <1>7, <2>1, <2>2 DEF TableType
<1>13. CASE ForkFails
  <2>1. job.list \in Lists
    BY <1>13 DEF ForkFails, Starts, TypeOK, LoopType
  <2> QED
    <3> DEFINE M == Marked(job.list)
    <3>1. M \in [Lists -> Slot] /\ UNCHANGED <<nforks, errorBusy>>
      BY <1>7, <1>13, <2>1 DEF ForkFails
    <3>2. slot' = [M EXCEPT ![job.list].busy = IF job.kind = "errors" THEN @ ELSE FALSE]
      BY <1>13 DEF ForkFails
    <3> HIDE DEF M
    <3>3. M[job.list] \in Slot /\ (IF job.kind = "errors" THEN M[job.list].busy ELSE FALSE) \in BOOLEAN
      BY <2>1, <3>1 DEF Slot
    <3>4. slot' \in [Lists -> Slot]
      BY <2>1, <3>1, <3>2, <3>3 DEF Slot
    <3> QED
      BY <1>0, <3>1, <3>4 DEF TableType
<1>14. CASE StorePid
  <2>1. job.pid \in Pids
    BY <1>14 DEF StorePid, TypeOK, LoopType
  <2> QED
    BY <1>0, <1>14, <2>1 DEF StorePid, TableType, Slot
<1>15. CASE WaitForChild
  <2>1. job.list \in Lists
    BY <1>15 DEF WaitForChild, TypeOK, LoopType
  <2>2. [slot EXCEPT ![job.list].busy = FALSE] \in [Lists -> Slot]
    BY <1>0 DEF TableType, Slot
  <2>3. slot[job.list].alloc \in Int
    BY <1>0, <2>1, SMTT(20) DEF TableType, Slot
  <2>4. CASE UNCHANGED table
    BY <1>1, <2>4
  <2>5. CASE /\ nforks' \in {nforks - 1, nforks - slot[job.list].alloc}
             /\ slot' \in {slot, [slot EXCEPT ![job.list].busy = FALSE]}
             /\ errorBusy' \in {FALSE, errorBusy}
    <3>1. nforks' \in Int /\ slot' \in [Lists -> Slot]
      BY <1>0, <2>2, <2>3, <2>5 DEF TableType
    <3>2. errorBusy' \in BOOLEAN
      BY <1>0, <2>5 DEF TableType
    <3> QED
      BY <3>1, <3>2 DEF TableType
  <2> QED
    BY <1>5, <1>15, <2>4, <2>5 DEF WaitForChild
<1>16. CASE SigChld \/ CheckZombies
  BY <1>1, <1>5, <1>8, <1>16 DEF SigChld, CheckZombies, HandleChild, FatalChild
<1>17. CASE NewDay
  BY <1>0, <1>17 DEF NewDay, TableType, Slot
<1> QED
  BY <1>1, <1>2, <1>3, <1>10, <1>11, <1>12, <1>13, <1>14, <1>15, <1>16, <1>17
     DEF Next, Master, World

\* Dispatch's type invariant.
THEOREM Typing == Spec => []TypeOK
<1>1. Init => TypeOK
  <2> SUFFICES ASSUME Init PROVE TypeOK
    OBVIOUS
  <2>0. NLists \in Nat \ {0} /\ 1 \in Lists
    BY NewMailAssumption DEF Lists
  <2>10. PICK i \in Installations : \E n \in i.choices :
           /\ mail \in i.mail
           /\ conf = [fifo |-> i.fifo, threads |-> n, choices |-> i.choices,
                      listThreads |-> i.listThreads, digests |-> i.digests, newer |-> {},
                      kinds |-> i.kinds]
           /\ nthreads = n
           /\ sender = [s \in Senders |-> IF s \in i.senders THEN Idle ELSE Sent]
           /\ faults = MaxFaults - i.faults
    BY DEF Init
  <2>1. PICK n \in i.choices :
           /\ mail \in i.mail
           /\ conf = [fifo |-> i.fifo, threads |-> n, choices |-> i.choices,
                      listThreads |-> i.listThreads, digests |-> i.digests, newer |-> {},
                      kinds |-> i.kinds]
           /\ nthreads = n
           /\ sender = [s \in Senders |-> IF s \in i.senders THEN Idle ELSE Sent]
           /\ faults = MaxFaults - i.faults
    BY <2>10
  <2>2. /\ i.fifo \in BOOLEAN /\ i.choices \subseteq 1..MaxThreads
        /\ i.listThreads \in [Lists -> Nat \ {0}] /\ i.digests \subseteq Lists
        /\ i.kinds \subseteq Mailbox /\ i.mail \subseteq [Lists -> BOOLEAN]
        /\ i.faults \in 0..MaxFaults /\ MaxThreads \in Nat /\ MaxFaults \in Nat
    BY <2>1, DispatchAssumption DEF Mailbox
  <2>3. FilesType
    BY <2>1, <2>2, EmptySeq DEF Init, FilesType
  <2>4. ConfType
    BY <2>1, <2>2 DEF ConfType
  <2>5. ProcsType
    BY DEF Init, ProcsType
  <2>6. LoopType
    <3>1. n \in Nat
      BY <2>1, <2>2
    <3>2. NoJob \in [list : Lists \cup {NoList}, kind : Kinds, pid : Pids \cup {NoPid}]
      BY DEF NoJob, Kinds
    <3> QED
      BY <2>0, <2>1, <3>1, <3>2 DEF Init, LoopType, Phases, Kinds
  <2>7. TableType
    <3>1. NewSlots \in [Lists -> Slot]
      BY DEF NewSlots, Slot
    <3>2. nforks \in Int /\ slot \in [Lists -> Slot]
      BY <3>1 DEF Init
    <3>3. errorBusy \in BOOLEAN
      BY DEF Init
    <3> QED
      BY <3>2, <3>3 DEF TableType
  <2> QED
    BY <2>3, <2>4, <2>5, <2>6, <2>7 DEF TypeOK
<1>2. TypeOK /\ [Next]_vars => TypeOK'
  BY FilesStep, ConfStep, ProcsStep, LoopStep, TableStep DEF TypeOK
<1> QED
  BY <1>1, <1>2, PTL DEF Spec

-----------------------------------------------------------------------------
(* The sum of the threads *)

Given == Total(NLists, [l \in Lists |-> ListThreads(l)])

\* The sum is a number, and follows a change of one list's threads.
LEMMA GivenType == ASSUME TypeOK PROVE Given \in Int
<1>1. NLists \in Nat /\ [l \in Lists |-> ListThreads(l)] \in [1..NLists -> Int]
  BY NewMailAssumption DEF TypeOK, TableType, Slot, ListThreads, Lists
<1> QED
  BY <1>1, TotalType DEF Given

LEMMA GivenChange ==
    ASSUME TypeOK, TypeOK', NEW l \in Lists,
           \A k \in Lists \ {l} : ListThreads(k)' = ListThreads(k)
    PROVE  Given' = Given - ListThreads(l) + ListThreads(l)'
<1> DEFINE a == [k \in Lists |-> ListThreads(k)]
           b == [k \in Lists |-> ListThreads(k)']
<1>1. a \in [1..NLists -> Int] /\ b \in [1..NLists -> Int] /\ NLists \in Nat /\ l \in 1..NLists
  BY NewMailAssumption DEF TypeOK, TableType, Slot, ListThreads, Lists
<1>2. /\ \A k \in 1..NLists \ {l} : b[k] = a[k]
      /\ a[l] = ListThreads(l) /\ b[l] = ListThreads(l)'
  BY DEF Lists
<1> HIDE DEF a, b
<1>3. Total(NLists, b) = Total(NLists, a) - a[l] + b[l]
  BY <1>1, <1>2, TotalChange
<1> QED
  BY <1>2, <1>3 DEF Given, a, b

\* While serverd does not wait for a job, every job counts.
LEMMA GivenBounds ==
    ASSUME TypeOK, AllocOK, pc # "wait"
    PROVE  Given >= 0 /\ \A l \in Lists : slot[l].busy => slot[l].alloc \in 1..Given
<1> DEFINE a == [k \in Lists |-> ListThreads(k)]
<1>1. \A k \in Lists : ListThreads(k) \in Nat /\ (slot[k].busy => ListThreads(k) = slot[k].alloc
                                                       /\ slot[k].alloc >= 1)
  BY DEF AllocOK, TypeOK, TableType, Slot, ListThreads
<1>2. a \in [1..NLists -> Nat] /\ NLists \in Nat \ {0} /\ 1 \in 1..NLists
  BY <1>1, NewMailAssumption DEF Lists
<1>3. \A k \in 1..NLists : a[k] <= Total(NLists, a)
  <2> HIDE DEF a
  <2> QED
    BY <1>2, TotalBounds
<1>4. \A k \in Lists : ListThreads(k) <= Given
  BY <1>3 DEF Given, Lists
<1> QED
  BY <1>1, <1>2, <1>4, GivenType DEF Lists

\* No threads in use, no jobs.
LEMMA NoThreadsNoJobs ==
    ASSUME TypeOK, Running, ~Started, nforks <= 0
    PROVE  ~errorBusy /\ (\A l \in Lists : ~slot[l].busy) /\ (\A p \in Pids : ~Exists(p))
<1>1. Given >= 0 /\ \A l \in Lists : slot[l].busy => slot[l].alloc \in 1..Given
  BY GivenBounds DEF Running, Started
<1>2. nforks = Given + (IF errorBusy THEN 1 ELSE 0)
  BY DEF Running, ThreadsCounted, Given
<1>3. ~errorBusy /\ Given = 0
  BY <1>1, <1>2, GivenType
<1>4. \A l \in Lists : ~slot[l].busy
  BY <1>1, <1>3
<1>5. \A l \in Lists : slot[l].pid = NoPid /\ slot[l].epid = NoPid
  BY <1>3, <1>4 DEF Running, RecordOK
<1>6. \A p \in Pids : ~Known(p)
  BY <1>5 DEF Known, Pids, NoPid
<1> QED
  BY <1>3, <1>4, <1>6 DEF Running, NoOrphan

-----------------------------------------------------------------------------
(* Steps that leave the jobs alone *)

SameJobs ==
  /\ nforks' = nforks /\ errorBusy' = errorBusy
  /\ \A l \in Lists : /\ slot'[l].busy = slot[l].busy /\ slot'[l].pid = slot[l].pid
                      /\ slot'[l].epid = slot[l].epid
                      /\ slot[l].busy => slot'[l].alloc = slot[l].alloc
  /\ \A p \in Pids : /\ Exists(p)' = Exists(p)
                     /\ Exists(p) => /\ child'[p].list = child[p].list
                                     /\ child'[p].kind = child[p].kind

\* A job, its process and its threads are the same.
LEMMA SameJobsKeeps ==
    ASSUME TypeOK, TypeOK', Running, SameJobs,
           UNCHANGED <<pc, job>> \/ (~Started /\ ~Started')
    PROVE  ThreadsCounted' /\ RecordOK' /\ NoOrphan' /\ AllocOK'
<1>1. ThreadsCounted'
  <2>1. \A l \in Lists : ListThreads(l)' = ListThreads(l)
    BY DEF SameJobs, ListThreads
  <2> QED
    BY <2>1 DEF SameJobs, ThreadsCounted, Running
<1>2. RecordOK'
  <2>1. \A l \in Lists : slot[l].pid \in Pids \cup {NoPid} /\ slot[l].epid \in Pids \cup {NoPid}
    BY DEF TypeOK, TableType, Slot
  <2> QED
    BY <2>1 DEF SameJobs, Running, RecordOK, Started, Marking, ErrorMarking, ErrorJob
<1>3. NoOrphan'
  BY DEF SameJobs, Running, NoOrphan, Started, Known
<1>4. AllocOK'
  BY DEF SameJobs, Running, AllocOK, Started, Marking, ErrorJob
<1> QED
  BY <1>1, <1>2, <1>3, <1>4

\* Outside a start nothing is said of the job at hand.
LEMMA IdleKeeps ==
    ASSUME TypeOK, TypeOK', Running, SameJobs, ~Started, ~Starting', ~Started',
           nthreads' \in conf'.choices \cup {1}
    PROVE  Running'
<1>1. JobOK' /\ ThreadsOK'
  BY DEF JobOK, ThreadsOK, Starting, Started
<1> QED
  BY <1>1, SameJobsKeeps DEF Running

\* The rest of the system moves.
LEMMA WorldKeeps ==
    ASSUME TypeOK, TypeOK', Running, SameJobs,
           UNCHANGED <<pc, job, nthreads>>, conf'.choices = conf.choices
    PROVE  Running'
<1>1. JobOK' /\ ThreadsOK'
  <2>1. Starting \/ Started => job.list \in Lists
    BY DEF TypeOK, LoopType, Starting, Started
  <2>2. Started => job.pid \in Pids
    BY DEF TypeOK, LoopType, Started
  <2>3. JobOK'
    BY <2>1, <2>2 DEF Running, JobOK, SameJobs, Starting, Started, ErrorJob
  <2>4. ThreadsOK'
    BY DEF Running, ThreadsOK, SameJobs
  <2> QED
    BY <2>3, <2>4
<1> QED
  BY <1>1, SameJobsKeeps DEF Running

-----------------------------------------------------------------------------
(* Jobs start *)

\* The table of a system that has just been started.
LEMMA NothingGiven == Total(NLists, [l \in Lists |-> 0]) = 0
<1> DEFINE a == [l \in Lists |-> 0]
<1>1. NLists \in Nat /\ a \in [1..NLists -> Int] /\ \A l \in 1..NLists : a[l] = 0
  BY NewMailAssumption DEF Lists
<1> HIDE DEF a
<1>2. Total(NLists, a) = 0
  BY <1>1, TotalOfZeros
<1> QED
  BY <1>2 DEF a

LEMMA FreshTable ==
    ASSUME slot' = NewSlots, nforks' = 0, ~errorBusy', \A p \in Pids : ~Exists(p)',
           ~Starting', ~Started', nthreads' \in conf'.choices
    PROVE  Running'
<1>1. [l \in Lists |-> ListThreads(l)'] = [l \in Lists |-> 0]
  BY DEF ListThreads, NewSlots
<1>2. ThreadsCounted'
  BY <1>1, NothingGiven DEF ThreadsCounted
<1>3. RecordOK' /\ NoOrphan' /\ JobOK' /\ AllocOK'
  BY DEF RecordOK, NoOrphan, JobOK, AllocOK, NewSlots
<1>4. ThreadsOK'
  BY DEF ThreadsOK, Starting, Started
<1> QED
  BY <1>2, <1>3, <1>4 DEF Running

LEMMA StartLoopStep ==
    ASSUME TypeOK, TypeOK', Running, StartLoop PROVE Running'
<1>1. ~Started /\ ~Starting' /\ ~Started'
  BY DEF StartLoop, Starting, Started
<1>2. CASE MayReinit
  <2>1. ~errorBusy /\ (\A p \in Pids : ~Exists(p))
    BY <1>1, <1>2, NoThreadsNoJobs DEF MayReinit
  <2>2. conf'.choices = conf.choices /\ nthreads' = conf.threads
    BY <1>2 DEF StartLoop, TypeOK, ConfType
  <2>3. slot' = NewSlots /\ nforks' = 0 /\ errorBusy' = errorBusy /\ child' = child
    BY <1>2 DEF StartLoop, procs
  <2>4. nthreads' \in conf'.choices
    BY <2>2 DEF TypeOK, ConfType
  <2> QED
    BY <1>1, <2>1, <2>3, <2>4, FreshTable DEF Exists
<1>3. CASE ~MayReinit
  <2>1. SameJobs
    BY <1>3 DEF StartLoop, SameJobs, table, procs, Exists
  <2>2. nthreads' \in conf'.choices \cup {1}
    BY <1>3 DEF StartLoop, loop, Running, ThreadsOK
  <2> QED
    BY <1>1, <2>1, <2>2, IdleKeeps
<1> QED
  BY <1>2, <1>3

LEMMA CheckListStep ==
    ASSUME TypeOK, TypeOK', Running, CheckList PROVE Running'
<1>1. ~Started /\ ~Started' /\ SameJobs /\ nthreads' = nthreads /\ conf' = conf
  <2>1. pc' = After(pc) \/ pc' = "config"
    BY DEF CheckList, Leave
  <2>2. ~Started /\ ~Started'
    BY <2>1 DEF CheckList, Kinds, Started, After
  <2> QED
    BY <2>2 DEF CheckList, SameJobs, table, procs, files, Exists
<1>2. CASE pc' # "config"
  <2>1. ~Starting'
    BY <1>2 DEF CheckList, Leave, After, Kinds, Starting
  <2> QED
    BY <1>1, <2>1, IdleKeeps DEF Running, ThreadsOK
<1>3. CASE pc' = "config"
  <2>1. MayFork /\ \E l \in Eligible(pc) : job' = [list |-> l, kind |-> pc, pid |-> NoPid]
    BY <1>3 DEF CheckList, Leave, After, Kinds
  <2>2. PICK l \in Eligible(pc) : job' = [list |-> l, kind |-> pc, pid |-> NoPid]
    BY <2>1
  <2>3. pc \in Kinds /\ l \in Lists /\ IF pc = "errors" THEN ~errorBusy ELSE ~slot[l].busy
    BY <2>2 DEF CheckList, Eligible, Kinds, TypeOK, LoopType
  <2>4. JobOK'
    BY <1>1, <2>2, <2>3 DEF JobOK, ErrorJob, SameJobs
  <2>5. ThreadsOK'
    BY <1>1, <1>3, <2>1 DEF ThreadsOK, Running, MayFork, SameJobs
  <2> QED
    BY <1>1, <2>4, <2>5, SameJobsKeeps DEF Running
<1> QED
  BY <1>2, <1>3

\* Whatever the global configuration says, a thread is free for the job, or
\* serverd will wait for it.
LEMMA ReadConfigStep ==
    ASSUME TypeOK, TypeOK', NeverLowered, Running, ReadConfig \/ ReadGlobalConfig
    PROVE  Running'
<1>1. ~Started /\ ~Started' /\ SameJobs /\ job' = job /\ Starting
  BY DEF ReadConfig, ReadGlobalConfig, Started, Starting, SameJobs, table, procs, Exists
<1>2. JobOK'
  BY <1>1 DEF Running, JobOK, SameJobs, ErrorJob, TypeOK, LoopType, Starting
<1>3. /\ conf'.choices = conf.choices /\ conf.threads \in conf.choices
      /\ conf.choices \subseteq 1..MaxThreads /\ MaxThreads \in Nat
      /\ nforks \in Int /\ nthreads \in Nat /\ nforks' = nforks
  BY <1>1, DispatchAssumption DEF ReadConfig, ReadGlobalConfig, files, SameJobs, TypeOK, ConfType,
     LoopType, TableType
<1>4. CASE ReadConfig
  <2>1. pc = "config" /\ nforks < nthreads /\ nthreads \in conf.choices \cup {1}
    BY <1>4 DEF ReadConfig, Running, ThreadsOK
  <2>2. \A n \in conf.choices \ {1} : nforks < n
    BY <1>3, <2>1 DEF NeverLowered
  <2>3. \/ pc' = "defaults" /\ nthreads' = 1
        \/ pc' = "spawn" /\ nthreads' = nthreads
    BY <1>4 DEF ReadConfig
  <2> QED
    BY <1>1, <1>2, <1>3, <2>1, <2>2, <2>3, SameJobsKeeps DEF Running, ThreadsOK
<1>5. CASE ReadGlobalConfig
  <2>1. pc' = "spawn" /\ nthreads' = conf.threads /\ \A n \in conf.choices \ {1} : nforks < n
    BY <1>5 DEF ReadGlobalConfig, Running, ThreadsOK
  <2>2. ThreadsOK'
    BY <1>3, <2>1 DEF ThreadsOK
  <2> QED
    BY <1>1, <1>2, <2>2, SameJobsKeeps DEF Running
<1> QED
  BY <1>4, <1>5

LEMMA NoJobStep ==
    ASSUME TypeOK, TypeOK', Running, NoDigest \/ ForkFails
    PROVE  Running'
<1>1. ~Started /\ ~Started' /\ ~Starting'
  BY DEF NoDigest, ForkFails, Starts, Started, Starting, Leave, After, TypeOK, LoopType, Kinds
<1>2. job.list \in Lists /\ (~ErrorJob => ~slot[job.list].busy)
  BY DEF NoDigest, ForkFails, Starts, Running, JobOK, Starting, TypeOK, LoopType
<1>3. SameJobs
  <2>1. CASE NoDigest
    BY <2>1 DEF NoDigest, SameJobs, procs, Exists, TypeOK, TableType, Slot
  <2>2. CASE ForkFails
    <3>1. UNCHANGED <<nforks, errorBusy, child>>
      BY <2>2 DEF ForkFails, procs
    <3>2. CASE ErrorJob
      <4>1. slot' = [slot EXCEPT ![job.list].busy = @]
        BY <2>2, <3>2 DEF ForkFails, Marked, ErrorJob
      <4>2. slot' = slot
        BY <1>2, <4>1 DEF TypeOK, TableType, Slot
      <4> QED
        BY <3>1, <4>2 DEF SameJobs, Exists
    <3>3. CASE ~ErrorJob
      <4> DEFINE M == Marked(job.list)
                 alloc == Allocation(job.list)
                 done == slot[job.list].done \/ job.kind = "digest"
                 marked == [slot[job.list] EXCEPT !.busy = TRUE, !.alloc = alloc, !.done = done]
      <4>1. /\ slot' = [M EXCEPT ![job.list].busy = FALSE]
            /\ M = [slot EXCEPT ![job.list].busy = TRUE, ![job.list].alloc = alloc,
                                ![job.list].done = done]
        BY <1>2, <2>2, <3>3 DEF ForkFails, Marked, ErrorJob
      <4> HIDE DEF M, alloc, done
      <4>2. M = [slot EXCEPT ![job.list] = marked]
        BY <1>2, <4>1 DEF TypeOK, TableType
      <4>5. /\ marked.pid = slot[job.list].pid /\ marked.epid = slot[job.list].epid
            /\ "busy" \in DOMAIN marked /\ "pid" \in DOMAIN marked /\ "epid" \in DOMAIN marked
        BY <1>2 DEF TypeOK, TableType, Slot
      <4> HIDE DEF marked
      <4>6. slot' = [slot EXCEPT ![job.list] = [marked EXCEPT !.busy = FALSE]]
        BY <1>2, <4>1, <4>2 DEF TypeOK, TableType
      <4>3. /\ slot'[job.list].pid = slot[job.list].pid /\ slot'[job.list].epid = slot[job.list].epid
            /\ slot'[job.list].busy = FALSE /\ \A l \in Lists \ {job.list} : slot'[l] = slot[l]
        BY <1>2, <4>5, <4>6 DEF TypeOK, TableType
      <4>4. slot'[job.list].busy = slot[job.list].busy
        <5>1. slot[job.list].busy = FALSE
          BY <1>2, <3>3 DEF TypeOK, TableType, Slot
        <5> QED
          BY <4>3, <5>1
      <4> QED
        BY <1>2, <3>1, <3>3, <4>3, <4>4 DEF SameJobs, Exists
    <3> QED
      BY <3>2, <3>3
  <2> QED
    BY <2>1, <2>2
<1>4. nthreads' \in conf'.choices \cup {1}
  BY DEF NoDigest, ForkFails, files, Running, ThreadsOK
<1> QED
  BY <1>1, <1>3, <1>4, IdleKeeps

\* The slot is marked, the threads are counted and the process exists in one
\* step: SIGCHLD is blocked.
LEMMA ForkStep ==
    ASSUME TypeOK, TypeOK', Running, Fork
    PROVE  Running'
<1>0. PICK n \in Pids, j \in Lists : n = FreePid /\ j = job.list
  BY FreePidIsFree DEF Fork, Starts, TypeOK, LoopType
<1>1. n \in Pids /\ ~Exists(n)
  BY <1>0, FreePidIsFree DEF Fork
<1>2. j \in Lists /\ pc = "spawn" /\ Starting /\ ~Started
  BY DEF Fork, Starts, Starting, Started
<1>3. /\ child' = [child EXCEPT ![n] =
                [list |-> j, kind |-> job.kind, st |-> "started", ok |-> TRUE]]
      /\ job' = [job EXCEPT !.pid = n]
      /\ pc' = IF nthreads = 1 THEN "wait" ELSE "store"
      /\ nthreads' = nthreads /\ conf' = conf
  BY <1>0 DEF Fork, files
<1>4. Started' /\ ~Starting' /\ job'.pid = n /\ job'.list = j /\ job'.kind = job.kind
  BY <1>0, <1>3 DEF Started, Starting, TypeOK, LoopType
<1>5. ErrorJob' = ErrorJob
  BY <1>4 DEF ErrorJob
<1>6. Exists(n)' /\ child'[n].list = j /\ child'[n].kind = job.kind
  BY <1>1, <1>3 DEF Exists, NoChild, TypeOK, ProcsType
<1>7. \A p \in Pids \ {n} : child'[p] = child[p]
  BY <1>3 DEF TypeOK, ProcsType
<1>8. \A l \in Lists : /\ slot[l].pid \in Pids \cup {NoPid} /\ slot[l].pid # n
                       /\ slot[l].epid \in Pids \cup {NoPid} /\ slot[l].epid # n
  BY <1>1 DEF Running, RecordOK, TypeOK, TableType, Slot, Pids, NoPid
<1>9. Given >= 0 /\ Given \in Int /\ nforks = Given + (IF errorBusy THEN 1 ELSE 0)
  BY <1>2, GivenBounds, GivenType DEF Running, ThreadsCounted, Given
<1>20. job.kind \in Kinds
  BY DEF TypeOK, LoopType
<1>10. conf.listThreads[j] >= 1 /\ conf.listThreads[j] \in Nat /\ nforks \in Int /\ nthreads \in Nat
  BY <1>2 DEF TypeOK, ConfType, TableType, LoopType
<1>11. nthreads >= 1
  BY DispatchAssumption DEF Running, ThreadsOK, TypeOK, ConfType
<1>12. nthreads = 1 \/ nforks < nthreads
  BY <1>2 DEF Running, ThreadsOK
<1>13. CASE ErrorJob
  <2>1. slot' = slot /\ errorBusy' = TRUE /\ nforks' = nforks + 1
    BY <1>13 DEF Fork, Marked, ErrorJob
  <2>2. ~errorBusy /\ \A l \in Lists : slot[l].epid = NoPid
    BY <1>2, <1>13 DEF Running, JobOK, RecordOK
  <2>3. ThreadsCounted'
    BY <1>9, <2>1, <2>2 DEF ThreadsCounted, Given, ListThreads
  <2>4. RecordOK'
    <3>1. \A l \in Lists : ~(slot[l].busy /\ slot[l].pid = NoPid)
      BY <1>2 DEF Running, RecordOK, Marking
    <3>2. ErrorMarking'
      BY <1>4, <1>5, <1>13 DEF ErrorMarking
    <3> QED
      BY <1>7, <1>8, <2>1, <2>2, <3>1, <3>2 DEF Running, RecordOK, Exists
  <2>5. NoOrphan'
    BY <1>2, <1>4, <1>7, <2>1 DEF Running, NoOrphan, Known, Exists
  <2>6. JobOK'
    BY <1>4, <1>5, <1>6, <1>13, <2>1, <2>2 DEF JobOK
  <2>7. AllocOK'
    BY <1>2, <2>1 DEF Running, AllocOK
  <2>8. ThreadsOK'
    BY <1>3, <1>9, <2>1 DEF Running, ThreadsOK
  <2> QED
    BY <2>3, <2>4, <2>5, <2>6, <2>7, <2>8 DEF Running
<1>14. CASE ~ErrorJob
  <2>1. /\ slot' = [slot EXCEPT ![j].busy = TRUE, ![j].alloc = Allocation(j),
                                ![j].done = (@ \/ job.kind = "digest")]
        /\ errorBusy' = (errorBusy \/ FALSE)
        /\ nforks' = nforks + Allocation(j)
    BY <1>0, <1>14 DEF Fork, Marked, ErrorJob
  <2>2. ~slot[j].busy /\ slot[j].pid = NoPid
    BY <1>0, <1>2, <1>14 DEF Running, JobOK, RecordOK
  <2>3. /\ slot'[j].busy /\ slot'[j].alloc = Allocation(j)
        /\ slot'[j].pid = NoPid /\ slot'[j].epid = slot[j].epid
        /\ \A l \in Lists \ {j} : slot'[l] = slot[l]
    BY <1>2, <2>1, <2>2 DEF TypeOK, TableType, Slot
  <2>4. errorBusy' <=> errorBusy
    BY <2>1
  <2>5. Allocation(j) \in Int
    BY <1>10 DEF Allocation
  <2>6. ThreadsCounted'
    <3>1. ListThreads(j) = 0 /\ ListThreads(j)' = Allocation(j)
      BY <2>2, <2>3 DEF ListThreads
    <3>2. \A l \in Lists \ {j} : ListThreads(l)' = ListThreads(l)
      BY <2>3 DEF ListThreads
    <3>3. Given' = Given + Allocation(j)
      BY <1>2, <1>9, <2>5, <3>1, <3>2, GivenChange
    <3> QED
      BY <1>9, <2>1, <2>4, <2>5, <3>3 DEF ThreadsCounted, Given
  <2>7. RecordOK'
    <3>1. \A l \in Lists : ~(slot[l].busy /\ slot[l].pid = NoPid)
      BY <1>2 DEF Running, RecordOK, Marking
    <3>2. Marking(j)'
      BY <1>4, <1>5, <1>14 DEF Marking
    <3>3. ~(errorBusy /\ \A l \in Lists : slot[l].epid = NoPid)
      BY <1>2 DEF Running, RecordOK, ErrorMarking
    <3>4. \A l \in Lists : slot'[l].pid = slot[l].pid /\ slot'[l].epid = slot[l].epid
      BY <2>2, <2>3
    <3>5. ASSUME NEW l \in Lists, slot[l].pid # NoPid
          PROVE  /\ slot'[l].busy /\ child'[slot[l].pid] # NoChild
                 /\ child'[slot[l].pid].list = l /\ child'[slot[l].pid].kind # "errors"
      <4>1. child'[slot[l].pid] = child[slot[l].pid]
        BY <1>7, <1>8, <3>5
      <4> QED
        BY <2>3, <3>5, <4>1 DEF Running, RecordOK, Exists
    <3>6. ASSUME NEW l \in Lists, slot[l].epid # NoPid
          PROVE  /\ errorBusy' /\ child'[slot[l].epid] # NoChild
                 /\ child'[slot[l].epid].kind = "errors"
      <4>1. child'[slot[l].epid] = child[slot[l].epid]
        BY <1>7, <1>8, <3>6
      <4> QED
        BY <2>4, <3>6, <4>1 DEF Running, RecordOK, Exists
    <3>7. \A l \in Lists : slot'[l].busy /\ slot'[l].pid = NoPid => Marking(l)'
      BY <2>3, <3>1, <3>2
    <3>8. \A l, k \in Lists : slot[l].epid # NoPid /\ slot[k].epid # NoPid => l = k
      BY DEF Running, RecordOK
    <3> QED
      BY <2>4, <3>3, <3>4, <3>5, <3>6, <3>7, <3>8 DEF RecordOK, Exists
  <2>8. NoOrphan'
    <3>1. \A l \in Lists : slot'[l].pid = slot[l].pid /\ slot'[l].epid = slot[l].epid
      BY <2>2, <2>3
    <3> QED
      BY <1>2, <1>4, <1>7, <3>1 DEF Running, NoOrphan, Known, Exists
  <2>9. JobOK'
    BY <1>4, <1>5, <1>6, <1>14, <2>3 DEF JobOK
  <2>10. nthreads # 1 => Allocation(j) >= 1
    BY <1>10, <1>12 DEF Allocation
  <2>11. AllocOK'
    BY <1>2, <1>3, <1>4, <1>5, <1>14, <2>3, <2>10 DEF Running, AllocOK, Marking
  <2>12. nforks + Allocation(j) >= 1
    BY <1>9, <1>10, <1>11 DEF Allocation
  <2>13. ThreadsOK'
    BY <1>3, <2>1, <2>12 DEF Running, ThreadsOK
  <2> QED
    BY <2>6, <2>7, <2>8, <2>9, <2>11, <2>13 DEF Running
<1> QED
  BY <1>13, <1>14

LEMMA StorePidStep ==
    ASSUME TypeOK, TypeOK', Running, StorePid
    PROVE  Running'
<1>0. PICK n \in Pids, j \in Lists : n = job.pid /\ j = job.list
  BY DEF StorePid, TypeOK, LoopType
<1>1. Started /\ ~Started' /\ ~Starting' /\ pc # "wait"
  BY DEF StorePid, Started, Starting, Leave, After, TypeOK, LoopType, Kinds
<1>2. Exists(n) /\ child[n].list = j /\ child[n].kind = job.kind
  BY <1>0, <1>1 DEF Running, JobOK
<1>3. /\ nforks' = nforks /\ errorBusy' = errorBusy /\ child' = child
      /\ nthreads' = nthreads /\ conf' = conf
  BY DEF StorePid, procs, files
<1>4. ThreadsOK'
  BY <1>1, <1>3 DEF Running, ThreadsOK, Starting, Started
<1>5. JobOK'
  BY <1>1 DEF JobOK
<1>6. n # NoPid /\ \A l \in Lists : slot[l].pid \in Pids \cup {NoPid} /\ slot[l].epid \in Pids \cup {NoPid}
  BY DEF Pids, NoPid, TypeOK, TableType, Slot
<1>7. CASE ErrorJob
  <2>1. /\ slot'[j].epid = n /\ slot'[j].pid = slot[j].pid /\ slot'[j].busy = slot[j].busy
        /\ slot'[j].alloc = slot[j].alloc
        /\ \A l \in Lists \ {j} : slot'[l] = slot[l]
    BY <1>0, <1>7 DEF StorePid, ErrorJob, TypeOK, TableType, Slot
  <2>2. errorBusy /\ \A l \in Lists : slot[l].epid = NoPid
    BY <1>1, <1>7 DEF Running, JobOK
  <2>3. ThreadsCounted'
    <3>1. \A l \in Lists : ListThreads(l)' = ListThreads(l)
      BY <2>1 DEF ListThreads
    <3> QED
      BY <1>3, <3>1 DEF Running, ThreadsCounted
  <2>4. RecordOK'
    BY <1>2, <1>3, <1>6, <1>7, <2>1, <2>2 DEF Running, RecordOK, Exists, Marking, ErrorJob
  <2>5. NoOrphan'
    <3> SUFFICES ASSUME NEW q \in Pids, Exists(q) PROVE Known(q)'
      BY <1>3 DEF NoOrphan, Exists
    <3>1. CASE q = n
      BY <2>1, <3>1 DEF Known
    <3>2. CASE q # n
      <4>1. PICK l \in Lists : q \in {slot[l].pid, slot[l].epid}
        BY <1>0, <3>2 DEF Running, NoOrphan, Known
      <4>2. q # NoPid
        BY DEF Pids, NoPid
      <4>3. q \in {slot'[l].pid, slot'[l].epid}
        BY <2>1, <2>2, <4>1, <4>2
      <4> QED
        BY <4>3 DEF Known
    <3> QED
      BY <3>1, <3>2
  <2>6. AllocOK'
    BY <1>1, <2>1 DEF Running, AllocOK
  <2> QED
    BY <1>4, <1>5, <2>3, <2>4, <2>5, <2>6 DEF Running
<1>8. CASE ~ErrorJob
  <2>1. /\ slot'[j].pid = n /\ slot'[j].epid = slot[j].epid /\ slot'[j].busy = slot[j].busy
        /\ slot'[j].alloc = slot[j].alloc
        /\ \A l \in Lists \ {j} : slot'[l] = slot[l]
    BY <1>0, <1>8 DEF StorePid, ErrorJob, TypeOK, TableType, Slot
  <2>2. slot[j].busy /\ slot[j].pid = NoPid
    BY <1>0, <1>1, <1>8 DEF Running, JobOK
  <2>3. ThreadsCounted'
    <3>1. \A l \in Lists : ListThreads(l)' = ListThreads(l)
      BY <2>1 DEF ListThreads
    <3> QED
      BY <1>3, <3>1 DEF Running, ThreadsCounted
  <2>4. RecordOK'
    <3>1. ASSUME NEW k \in Lists, slot'[k].pid # NoPid
          PROVE  /\ slot'[k].busy /\ child[slot'[k].pid] # NoChild
                 /\ child[slot'[k].pid].list = k /\ child[slot'[k].pid].kind # "errors"
      <4>1. CASE k = j
        BY <1>2, <1>8, <2>1, <2>2, <4>1 DEF Exists, ErrorJob
      <4>2. CASE k # j
        BY <2>1, <3>1, <4>2 DEF Running, RecordOK, Exists
      <4> QED
        BY <4>1, <4>2
    <3>2. \A k \in Lists : slot'[k].epid = slot[k].epid
      BY <2>1
    <3>3. \A k \in Lists : ~(slot'[k].busy /\ slot'[k].pid = NoPid)
      BY <1>0, <1>6, <2>1 DEF Running, RecordOK, Marking
    <3>4. ~(errorBusy' /\ \A k \in Lists : slot'[k].epid = NoPid)
      BY <1>3, <1>8, <3>2 DEF Running, RecordOK, ErrorMarking
    <3> QED
      BY <1>3, <3>1, <3>2, <3>3, <3>4 DEF Running, RecordOK, Exists
  <2>5. NoOrphan'
    <3> SUFFICES ASSUME NEW q \in Pids, Exists(q) PROVE Known(q)'
      BY <1>3 DEF NoOrphan, Exists
    <3>1. CASE q = n
      BY <2>1, <3>1 DEF Known
    <3>2. CASE q # n
      <4>1. PICK l \in Lists : q \in {slot[l].pid, slot[l].epid}
        BY <1>0, <3>2 DEF Running, NoOrphan, Known
      <4>2. q # NoPid
        BY DEF Pids, NoPid
      <4>3. q \in {slot'[l].pid, slot'[l].epid}
        BY <2>1, <2>2, <4>1, <4>2
      <4> QED
        BY <4>3 DEF Known
    <3> QED
      BY <3>1, <3>2
  <2>6. AllocOK'
    BY <1>1, <2>1 DEF Running, AllocOK
  <2> QED
    BY <1>4, <1>5, <2>3, <2>4, <2>5, <2>6 DEF Running
<1> QED
  BY <1>7, <1>8

-----------------------------------------------------------------------------
(* Jobs end *)

\* A process on record stands in one place of the table.
LEMMA OneRecord ==
    ASSUME TypeOK, Running, NEW p \in Pids, NEW l \in Lists
    PROVE  /\ slot[l].pid = p =>
                /\ Known(p) /\ Owner(p) = l /\ Threads(p) = slot[l].alloc
                /\ \A k \in Lists : k # l => slot[k].pid # p
                /\ \A k \in Lists : slot[k].epid # p
           /\ slot[l].epid = p =>
                /\ Known(p) /\ Owner(p) = l /\ Threads(p) = 1
                /\ \A k \in Lists : k # l => slot[k].epid # p
                /\ \A k \in Lists : slot[k].pid # p
<1>1. p # NoPid
  BY DEF Pids, NoPid
<1>2. ASSUME slot[l].pid = p
      PROVE  /\ \A k \in Lists : k # l => slot[k].pid # p
             /\ \A k \in Lists : slot[k].epid # p
  BY <1>1, <1>2 DEF Running, RecordOK
<1>3. ASSUME slot[l].epid = p
      PROVE  /\ \A k \in Lists : k # l => slot[k].epid # p
             /\ \A k \in Lists : slot[k].pid # p
  BY <1>1, <1>3 DEF Running, RecordOK
<1>4. ASSUME slot[l].pid = p \/ slot[l].epid = p PROVE Known(p) /\ Owner(p) = l
  <2>1. \A k \in Lists : p \in {slot[k].pid, slot[k].epid} <=> k = l
    BY <1>2, <1>3, <1>4
  <2>2. Known(p)
    BY <2>1 DEF Known
  <2>3. ~(l < l)
    BY DEF Lists
  <2> QED
    BY <2>1, <2>2, <2>3 DEF Owner
<1> QED
  BY <1>2, <1>3, <1>4 DEF Threads

\* A process that ends while SIGCHLD is not blocked is on record with at
\* least one thread.
LEMMA ZombieIsKnown ==
    ASSUME TypeOK, Running, ~Started, NEW p \in Pids, Zombie(p)
    PROVE  /\ Threads(p) \in Nat /\ Threads(p) >= 1
           /\ \E l \in Lists : slot[l].pid = p \/ slot[l].epid = p
<1>1. Exists(p)
  BY DEF Zombie, Exists, NoChild
<1>2. PICK l \in Lists : slot[l].pid = p \/ slot[l].epid = p
  BY <1>1 DEF Running, NoOrphan, Known
<1>3. CASE slot[l].pid = p
  <2>1. slot[l].busy /\ p # NoPid
    BY <1>3 DEF Running, RecordOK, Pids, NoPid
  <2>2. slot[l].alloc \in Int /\ slot[l].alloc >= 1
    BY <2>1 DEF Running, AllocOK, Started, TypeOK, TableType, Slot
  <2> QED
    BY <1>2, <1>3, <2>2, OneRecord
<1>4. CASE slot[l].epid = p
  BY <1>2, <1>4, OneRecord
<1> QED
  BY <1>2, <1>3, <1>4

\* Its slot and its threads are given back together.
LEMMA CollectStep ==
    ASSUME TypeOK, TypeOK', Running, ~Started, NEW p \in Pids, Zombie(p), Collect(p),
           UNCHANGED <<job, nthreads, conf>>, pc' = pc \/ (~Starting' /\ ~Started')
    PROVE  Running'
<1>0. Exists(p) /\ p # NoPid
  BY DEF Zombie, Exists, NoChild, Pids, NoPid
<1>1. PICK l \in Lists : slot[l].pid = p \/ slot[l].epid = p
  BY ZombieIsKnown
<1>2. Known(p) /\ Owner(p) = l
  BY <1>1, OneRecord
<1>3. /\ child'[p] = NoChild /\ \A q \in Pids \ {p} : child'[q] = child[q]
      /\ nforks' = nforks - Threads(p)
  BY DEF Collect, TypeOK, ProcsType
<1>4. Threads(p) \in Nat /\ Threads(p) >= 1 /\ nforks \in Int
  BY ZombieIsKnown DEF TypeOK, TableType
<1>5. ~Started' /\ (Starting' => Starting)
  BY DEF Started, Starting
<1>6. \A k \in Lists : slot[k].pid \in Pids \cup {NoPid} /\ slot[k].epid \in Pids \cup {NoPid}
  BY DEF TypeOK, TableType, Slot
<1>7. nforks = Given + (IF errorBusy THEN 1 ELSE 0) /\ Given \in Int
  BY GivenType DEF Running, ThreadsCounted, Given
<1>8. ThreadsOK'
  BY <1>3, <1>4, <1>5 DEF Running, ThreadsOK, Starting, Started, TypeOK, LoopType, ConfType
<1>9. CASE slot[l].pid = p
  <2>1. /\ slot'[l].pid = NoPid /\ ~slot'[l].busy /\ slot'[l].epid = slot[l].epid
        /\ \A k \in Lists \ {l} : slot'[k] = slot[k]
        /\ errorBusy' = errorBusy
    BY <1>2, <1>9 DEF Collect, TypeOK, TableType, Slot
  <2>2. /\ Threads(p) = slot[l].alloc /\ slot[l].busy
        /\ \A k \in Lists : k # l => slot[k].pid # p
        /\ \A k \in Lists : slot[k].epid # p
    BY <1>0, <1>9, OneRecord DEF Running, RecordOK
  <2>3. ThreadsCounted'
    <3>1. ListThreads(l) = slot[l].alloc /\ ListThreads(l)' = 0
          /\ \A k \in Lists \ {l} : ListThreads(k)' = ListThreads(k)
      BY <2>1, <2>2 DEF ListThreads
    <3>2. Given' = Given - Threads(p)
      BY <1>4, <1>7, <2>2, <3>1, GivenChange
    <3> QED
      BY <1>3, <1>4, <1>7, <2>1, <3>2 DEF ThreadsCounted, Given
  <2>4. RecordOK'
    <3>1. ASSUME NEW k \in Lists, slot'[k].pid # NoPid
          PROVE  /\ slot'[k].busy /\ child'[slot'[k].pid] # NoChild
                 /\ child'[slot'[k].pid].list = k /\ child'[slot'[k].pid].kind # "errors"
      <4>1. k # l /\ slot'[k] = slot[k] /\ child'[slot[k].pid] = child[slot[k].pid]
        BY <1>3, <1>6, <2>1, <2>2, <3>1
      <4> QED
        BY <3>1, <4>1 DEF Running, RecordOK, Exists
    <3>2. ASSUME NEW k \in Lists, slot'[k].epid # NoPid
          PROVE  /\ errorBusy' /\ child'[slot'[k].epid] # NoChild
                 /\ child'[slot'[k].epid].kind = "errors"
      <4>1. slot'[k].epid = slot[k].epid /\ child'[slot[k].epid] = child[slot[k].epid]
        BY <1>3, <1>6, <2>1, <2>2, <3>2
      <4> QED
        BY <2>1, <3>2, <4>1 DEF Running, RecordOK, Exists
    <3>3. \A k \in Lists : ~(slot'[k].busy /\ slot'[k].pid = NoPid)
      BY <2>1 DEF Running, RecordOK, Marking
    <3>4. ~(errorBusy' /\ \A k \in Lists : slot'[k].epid = NoPid)
      BY <2>1 DEF Running, RecordOK, ErrorMarking
    <3>5. \A k \in Lists : slot'[k].epid = slot[k].epid
      BY <2>1
    <3> QED
      BY <3>1, <3>2, <3>3, <3>4, <3>5 DEF Running, RecordOK, Exists
  <2>5. NoOrphan'
    BY <1>3, <2>1, <1>9 DEF Running, NoOrphan, Known, Exists
  <2>6. JobOK'
    BY <1>5, <2>1 DEF Running, JobOK, ErrorJob, Starting, TypeOK, LoopType
  <2>7. AllocOK'
    BY <1>5, <2>1 DEF Running, AllocOK, Started
  <2> QED
    BY <1>8, <2>3, <2>4, <2>5, <2>6, <2>7 DEF Running
<1>10. CASE slot[l].epid = p
  <2>2. /\ Threads(p) = 1 /\ errorBusy
        /\ \A k \in Lists : k # l => slot[k].epid = NoPid
        /\ \A k \in Lists : slot[k].pid # p
    BY <1>0, <1>10, OneRecord DEF Running, RecordOK
  <2>1. /\ slot'[l].pid = slot[l].pid /\ slot'[l].busy = slot[l].busy /\ slot'[l].epid = NoPid
        /\ slot'[l].alloc = slot[l].alloc
        /\ \A k \in Lists \ {l} : slot'[k] = slot[k]
        /\ ~errorBusy'
    <3>1. slot[l].pid # p
      BY <2>2
    <3>2. slot' = [slot EXCEPT ![l].epid = NoPid]
      BY <1>2, <3>1 DEF Collect
    <3>3. ~errorBusy'
      BY <1>2, <3>1 DEF Collect
    <3> QED
      BY <3>2, <3>3 DEF TypeOK, TableType, Slot
  <2>3. ThreadsCounted'
    <3>1. \A k \in Lists : ListThreads(k)' = ListThreads(k)
      BY <2>1 DEF ListThreads
    <3>2. Given' = Given
      BY <3>1 DEF Given
    <3> QED
      BY <1>3, <1>7, <2>1, <2>2, <3>2 DEF ThreadsCounted, Given
  <2>4. RecordOK'
    <3>1. ASSUME NEW k \in Lists, slot'[k].pid # NoPid
          PROVE  /\ slot'[k].busy /\ child'[slot'[k].pid] # NoChild
                 /\ child'[slot'[k].pid].list = k /\ child'[slot'[k].pid].kind # "errors"
      <4>1. slot'[k].pid = slot[k].pid /\ slot'[k].busy = slot[k].busy
            /\ child'[slot[k].pid] = child[slot[k].pid]
        BY <1>3, <1>6, <2>1, <2>2, <3>1
      <4> QED
        BY <3>1, <4>1 DEF Running, RecordOK, Exists
    <3>2. \A k \in Lists : slot'[k].epid = NoPid
      BY <2>1, <2>2
    <3>3. \A k \in Lists : ~(slot'[k].busy /\ slot'[k].pid = NoPid)
      BY <2>1 DEF Running, RecordOK, Marking
    <3> QED
      BY <2>1, <3>1, <3>2, <3>3 DEF RecordOK, Exists
  <2>5. NoOrphan'
    BY <1>3, <2>1, <1>10 DEF Running, NoOrphan, Known, Exists
  <2>6. JobOK'
    BY <1>5, <2>1 DEF Running, JobOK, ErrorJob, Starting, TypeOK, LoopType
  <2>7. AllocOK'
    BY <1>5, <2>1 DEF Running, AllocOK, Started
  <2> QED
    BY <1>8, <2>3, <2>4, <2>5, <2>6, <2>7 DEF Running
<1> QED
  BY <1>1, <1>9, <1>10

\* serverd's end leaves no process behind: those on record are killed, and
\* when the count is zero there are none.
LEMMA FatalStep ==
    ASSUME TypeOK, Running, ~Started, FatalChild
    PROVE  ~up' /\ \A q \in Pids : ~Exists(q)'
<1>1. PICK p \in Pids : Zombie(p) /\ Die(nforks - Threads(p), [child EXCEPT ![p] = NoChild])
  BY DEF FatalChild
<1>2. ~up'
  BY <1>1 DEF Die
<1>3. PICK l \in Lists : slot[l].pid = p \/ slot[l].epid = p
  BY <1>1, ZombieIsKnown
<1>4. p # NoPid /\ Threads(p) \in Nat /\ Threads(p) >= 1
  BY <1>1, ZombieIsKnown DEF Pids, NoPid
<1>5. nforks = Given + (IF errorBusy THEN 1 ELSE 0) /\ Given \in Int
  BY GivenType DEF Running, ThreadsCounted, Given
<1>6. ASSUME NEW q \in Pids, Exists(q)' PROVE FALSE
  <2>1. q # p /\ Exists(q) /\ (nforks - Threads(p) # 0 => ~Known(q))
    BY <1>1, <1>6 DEF Die, Exists, TypeOK, ProcsType
  <2>2. Known(q) /\ nforks - Threads(p) = 0 /\ q # NoPid
    BY <2>1 DEF Running, NoOrphan, Pids, NoPid
  <2>3. PICK k \in Lists : slot[k].pid = q \/ slot[k].epid = q
    BY <2>2 DEF Known
  <2> DEFINE a == [m \in Lists |-> ListThreads(m)]
             b == [a EXCEPT ![l] = 0]
  <2>4. \A m \in Lists : a[m] \in Nat /\ (slot[m].busy => a[m] = slot[m].alloc /\ a[m] >= 1)
    BY DEF Running, AllocOK, Started, ListThreads, TypeOK, TableType, Slot
  <2>5. /\ a \in [1..NLists -> Int] /\ NLists \in Nat /\ l \in 1..NLists
        /\ a \in [1..NLists -> Nat]
    BY <2>4, NewMailAssumption DEF Lists
  <2>6. /\ b \in [1..NLists -> Nat] /\ b \in [1..NLists -> Int] /\ b[l] = 0
        /\ \A m \in 1..NLists \ {l} : b[m] = a[m]
    <3> HIDE DEF a
    <3> QED
      BY <2>5
  <2>7. Given = Total(NLists, a)
    BY DEF Given
  <2>10. k \in 1..NLists
    BY DEF Lists
  <2>8. CASE slot[l].pid = p
    <3>1. slot[l].busy /\ Threads(p) = a[l]
      BY <1>4, <2>4, <2>8, OneRecord DEF Running, RecordOK
    <3>2. Total(NLists, b) = Given - a[l] + 0
      <4> HIDE DEF a, b
      <4> QED
        BY <2>5, <2>6, <2>7, TotalChange
    <3>3. \A m \in 1..NLists : b[m] <= Total(NLists, b)
      <4> HIDE DEF b
      <4> QED
        BY <2>5, <2>6, TotalBounds
    <3>4. a[l] \in Int /\ Total(NLists, b) \in Int /\ b[k] \in Nat /\ b[k] <= Total(NLists, b)
      <4> HIDE DEF a, b
      <4> QED
        BY <1>5, <2>5, <2>6, <2>10, <3>2, <3>3
    <3>5. ~errorBusy /\ b[k] = 0
      BY <1>5, <2>2, <3>1, <3>2, <3>4
    <3>6. slot[k].pid = q /\ slot[k].busy
      BY <2>2, <2>3, <3>5 DEF Running, RecordOK
    <3>7. k # l
      BY <2>1, <2>8, <3>6
    <3> QED
      <4>1. b[k] = a[k] /\ a[k] >= 1
        <5> HIDE DEF a, b
        <5> QED
          BY <2>4, <2>6, <2>10, <3>6, <3>7
      <4> QED
        BY <3>5, <4>1
  <2>9. CASE slot[l].epid = p
    <3>1. errorBusy /\ Threads(p) = 1
      BY <1>4, <2>9, OneRecord DEF Running, RecordOK
    <3>2. Given = 0
      BY <1>5, <2>2, <3>1
    <3>3. \A m \in 1..NLists : a[m] <= Total(NLists, a)
      <4> HIDE DEF a
      <4> QED
        BY <2>5, TotalBounds
    <3>4. ~slot[k].busy
      <4> HIDE DEF a
      <4> QED
        BY <2>4, <2>5, <2>7, <2>10, <3>2, <3>3
    <3>5. slot[k].epid = q
      BY <2>2, <2>3, <3>4 DEF Running, RecordOK
    <3>6. k = l
      BY <1>4, <2>2, <2>9, <3>5 DEF Running, RecordOK
    <3> QED
      BY <2>1, <2>9, <3>5, <3>6
  <2> QED
    BY <1>3, <2>8, <2>9
<1> QED
  BY <1>2, <1>6

\* With a single thread the job serverd waits for gives back what it took.
LEMMA WaitForChildStep ==
    ASSUME TypeOK, TypeOK', Running, WaitForChild
    PROVE  IF up' THEN Running' ELSE \A q \in Pids : ~Exists(q)'
<1>0. PICK n \in Pids, j \in Lists : n = job.pid /\ j = job.list
  BY DEF WaitForChild, TypeOK, LoopType
<1>1. Started /\ pc = "wait" /\ up /\ n # NoPid
  BY DEF WaitForChild, Started, Pids, NoPid
<1>2. Exists(n) /\ child[n].list = j /\ child[n].kind = job.kind
  BY <1>0, <1>1 DEF Running, JobOK
<1>3. \A k \in Lists : /\ slot[k].pid \in Pids \cup {NoPid} /\ slot[k].epid \in Pids \cup {NoPid}
                       /\ slot[k].pid # n /\ slot[k].epid # n
  BY <1>0, <1>1, <1>2 DEF Running, RecordOK, JobOK, TypeOK, TableType, Slot, ErrorJob
<1>4. CASE Die(nforks, [child EXCEPT ![job.pid] = NoChild])
  <2>1. ~up' /\ nforks # 0
    BY <1>1, <1>4 DEF Die, Running, ThreadsOK
  <2>2. ASSUME NEW q \in Pids PROVE ~Exists(q)'
    <3>1. Exists(q) => Known(q) \/ q = n
      BY <1>0 DEF Running, NoOrphan
    <3> QED
      BY <1>0, <1>4, <2>1, <3>1 DEF Die, Exists, TypeOK, ProcsType
  <2> QED
    BY <2>1, <2>2
<1>5. CASE /\ child' = [child EXCEPT ![job.pid] = NoChild]
           /\ IF job.kind = "errors"
              THEN errorBusy' = FALSE /\ nforks' = nforks - 1 /\ UNCHANGED slot
              ELSE /\ slot' = [slot EXCEPT ![job.list].busy = FALSE]
                   /\ nforks' = nforks - slot[job.list].alloc
                   /\ UNCHANGED errorBusy
           /\ Leave(job.kind)
           /\ UNCHANGED <<sigchld, up, cur, scanned, nthreads, initialize>>
  <2>1. ~Started' /\ ~Starting'
    BY <1>5 DEF Started, Starting, Leave, After, TypeOK, LoopType, Kinds
  <2>2. child'[n] = NoChild /\ \A q \in Pids \ {n} : child'[q] = child[q]
    BY <1>0, <1>5 DEF TypeOK, ProcsType
  <2>3. nforks = Given + (IF errorBusy THEN 1 ELSE 0) /\ Given \in Int
    BY GivenType DEF Running, ThreadsCounted, Given
  <2>4. conf' = conf /\ nthreads' = nthreads
    BY <1>5 DEF WaitForChild, files
  <2>5. JobOK' /\ ThreadsOK'
    BY <2>1, <2>4 DEF JobOK, ThreadsOK, Running, Starting, Started
  <2>6. \A k \in Lists : ~Marking(k) /\ slot[k].busy => slot[k].alloc >= 1 /\ slot[k].pid # NoPid
    BY DEF Running, AllocOK, RecordOK
  <2>7. CASE ErrorJob
    <3>1. slot' = slot /\ ~errorBusy' /\ nforks' = nforks - 1
      BY <1>5, <2>7 DEF ErrorJob
    <3>2. errorBusy /\ \A k \in Lists : slot[k].epid = NoPid
      BY <1>1, <2>7 DEF Running, JobOK
    <3>3. ThreadsCounted'
      BY <2>3, <3>1, <3>2 DEF ThreadsCounted, Given, ListThreads
    <3>4. RecordOK'
      <4>1. ASSUME NEW k \in Lists, slot[k].pid # NoPid
            PROVE  /\ slot[k].busy /\ child'[slot[k].pid] # NoChild
                   /\ child'[slot[k].pid].list = k /\ child'[slot[k].pid].kind # "errors"
        BY <1>3, <2>2, <4>1 DEF Running, RecordOK, Exists
      <4>2. \A k \in Lists : ~(slot[k].busy /\ slot[k].pid = NoPid)
        BY <2>7 DEF Running, RecordOK, Marking
      <4> QED
        BY <3>1, <3>2, <4>1, <4>2 DEF RecordOK, Exists
    <3>5. NoOrphan'
      BY <1>0, <2>2, <3>1 DEF Running, NoOrphan, Known, Exists
    <3>6. AllocOK'
      BY <2>6, <2>7, <3>1 DEF AllocOK, Marking
    <3> QED
      BY <2>5, <3>3, <3>4, <3>5, <3>6, <1>1, <1>5 DEF Running
  <2>8. CASE ~ErrorJob
    <3>1. /\ slot' = [slot EXCEPT ![j].busy = FALSE]
          /\ nforks' = nforks - slot[j].alloc /\ errorBusy' = errorBusy
      BY <1>0, <1>5, <2>8 DEF ErrorJob
    <3>2. slot[j].busy /\ slot[j].pid = NoPid /\ slot[j].alloc \in Int
      BY <1>0, <1>1, <2>8 DEF Running, JobOK, TypeOK, TableType, Slot
    <3>3. /\ slot'[j].pid = NoPid /\ ~slot'[j].busy /\ slot'[j].epid = slot[j].epid
          /\ \A k \in Lists \ {j} : slot'[k] = slot[k]
      BY <3>1, <3>2 DEF TypeOK, TableType, Slot
    <3>4. ThreadsCounted'
      <4>1. ListThreads(j) = slot[j].alloc /\ ListThreads(j)' = 0
            /\ \A k \in Lists \ {j} : ListThreads(k)' = ListThreads(k)
        BY <3>2, <3>3 DEF ListThreads
      <4>2. Given' = Given - slot[j].alloc
        BY <2>3, <3>2, <4>1, GivenChange
      <4> QED
        BY <2>3, <3>1, <3>2, <4>2 DEF ThreadsCounted, Given
    <3>5. RecordOK'
      <4>1. ASSUME NEW k \in Lists, slot'[k].pid # NoPid
            PROVE  /\ slot'[k].busy /\ child'[slot'[k].pid] # NoChild
                   /\ child'[slot'[k].pid].list = k /\ child'[slot'[k].pid].kind # "errors"
        <5>1. k # j /\ slot'[k] = slot[k]
          BY <3>3, <4>1
        <5> QED
          BY <1>3, <2>2, <4>1, <5>1 DEF Running, RecordOK, Exists
      <4>2. ASSUME NEW k \in Lists, slot'[k].epid # NoPid
            PROVE  /\ errorBusy' /\ child'[slot'[k].epid] # NoChild
                   /\ child'[slot'[k].epid].kind = "errors"
        <5>1. slot'[k].epid = slot[k].epid
          BY <3>3
        <5> QED
          BY <1>3, <2>2, <3>1, <4>2, <5>1 DEF Running, RecordOK, Exists
      <4>3. \A k \in Lists : ~(slot'[k].busy /\ slot'[k].pid = NoPid)
        BY <1>0, <3>3 DEF Running, RecordOK, Marking
      <4>4. \A k \in Lists : slot'[k].epid = slot[k].epid
        BY <3>3
      <4>5. ~(errorBusy' /\ \A k \in Lists : slot'[k].epid = NoPid)
        BY <2>8, <3>1, <4>4 DEF Running, RecordOK, ErrorMarking
      <4> QED
        BY <4>1, <4>2, <4>3, <4>4, <4>5 DEF Running, RecordOK, Exists
    <3>6. NoOrphan'
      <4>1. \A k \in Lists : slot'[k].pid = slot[k].pid /\ slot'[k].epid = slot[k].epid
        BY <3>2, <3>3
      <4> QED
        BY <1>0, <2>2, <4>1 DEF Running, NoOrphan, Known, Exists
    <3>7. AllocOK'
      BY <1>0, <2>6, <3>3 DEF AllocOK, Marking
    <3> QED
      BY <2>5, <3>4, <3>5, <3>6, <3>7, <1>1, <1>5 DEF Running
  <2> QED
    BY <2>7, <2>8
<1> QED
  BY <1>4, <1>5 DEF WaitForChild

-----------------------------------------------------------------------------
(* The invariant *)

LEMMA ChoicesKept == TypeOK /\ [Next]_vars => conf'.choices = conf.choices
<1> SUFFICES ASSUME TypeOK, [Next]_vars PROVE conf'.choices = conf.choices
  OBVIOUS
<1>1. conf' = conf \/ \E n, S : conf' = [conf EXCEPT !.threads = n, !.newer = S]
                   \/ \E T : conf' = [conf EXCEPT !.newer = T]
  BY DEF Next, vars, Master, World, StartLoop, CheckList, ReadConfig, ReadGlobalConfig, NoDigest,
     Fork, ForkFails, StorePid, WaitForChild, CheckZombies, NextList, NewDay, SigChld, Restart,
     FreshMaster, Take, Exit, ReportNewMail, AppendMessage, Hold, EditConfig, InitSignal, files
<1> QED
  BY <1>1 DEF TypeOK, ConfType

LEMMA HandleChildStep ==
    ASSUME TypeOK, TypeOK', Running, ~Started, HandleChild, UNCHANGED conf,
           pc' = pc \/ (~Starting' /\ ~Started')
    PROVE  Running' /\ up' = up
<1>1. CASE UNCHANGED <<child, up, loop, table>>
  <2>1. SameJobs /\ UNCHANGED <<job, nthreads>>
    BY <1>1 DEF SameJobs, table, loop, Exists
  <2>2. CASE pc' = pc
    BY <1>1, <2>1, <2>2, WorldKeeps
  <2>3. CASE ~Starting' /\ ~Started'
    BY <1>1, <2>1, <2>3, IdleKeeps DEF Running, ThreadsOK
  <2> QED
    BY <1>1, <2>2, <2>3
<1>2. ASSUME NEW p \in Pids, Zombie(p), Collect(p), UNCHANGED <<up, loop>>
      PROVE  Running' /\ up' = up
  BY <1>2, CollectStep DEF loop
<1> QED
  BY <1>1, <1>2 DEF HandleChild

\* Every step keeps the inductive invariant.
LEMMA InvStep == TypeOK /\ IInv /\ [Next]_vars => IInv'
<1> SUFFICES ASSUME TypeOK, IInv, [Next]_vars, NeverLowered'
             PROVE  IF up' THEN Running' ELSE \A p \in Pids : ~Exists(p)'
  BY DEF IInv
<1>0. TypeOK' /\ conf'.choices = conf.choices
  BY FilesStep, ConfStep, ProcsStep, LoopStep, TableStep, ChoicesKept DEF TypeOK
<1>1. NeverLowered
  BY <1>0 DEF NeverLowered
<1>2. IF up THEN Running ELSE \A p \in Pids : ~Exists(p)
  BY <1>1 DEF IInv
<1> HIDE DEF IInv
<1>3. ASSUME UNCHANGED <<pc, job, nthreads, table, up>>,
             \A p \in Pids : /\ Exists(p)' = Exists(p)
                             /\ Exists(p) => /\ child'[p].list = child[p].list
                                             /\ child'[p].kind = child[p].kind
      PROVE  IF up' THEN Running' ELSE \A p \in Pids : ~Exists(p)'
  <2>1. SameJobs
    BY <1>3 DEF SameJobs, table
  <2> QED
    BY <1>0, <1>2, <1>3, <2>1, WorldKeeps
<1>4. CASE UNCHANGED vars
  BY <1>3, <1>4 DEF vars, master, loop, procs, Exists
<1>5. ASSUME \/ EditConfig \/ InitSignal
             \/ \E q \in Senders : ReportNewMail(q) \/ AppendMessage(q)
             \/ \E l \in Lists : Hold(l)
      PROVE  UNCHANGED <<pc, job, nthreads, table, up, child>>
  BY <1>5 DEF EditConfig, InitSignal, ReportNewMail, AppendMessage, Hold, master, loop, procs
<1>6. ASSUME NEW p \in Pids, Take(p) \/ Exit(p)
      PROVE  IF up' THEN Running' ELSE \A q \in Pids : ~Exists(q)'
  <2>1. Exists(p) /\ child[p] \in Process
    BY <1>6, ProcessFields DEF Take, Exit, Alive
  <2>2. /\ child'[p].list = child[p].list /\ child'[p].kind = child[p].kind
        /\ child'[p].st # "none"
        /\ \A q \in Pids \ {p} : child'[q] = child[q]
    BY <1>6, <2>1 DEF Take, Exit, TypeOK, ProcsType, Process
  <2>3. Exists(p)'
    BY <2>2 DEF Exists, NoChild
  <2>4. UNCHANGED <<pc, job, nthreads, table, up>>
    BY <1>6 DEF Take, Exit, master, loop
  <2> QED
    BY <1>3, <2>1, <2>2, <2>3, <2>4 DEF Exists
<1>7. CASE StartLoop
  BY <1>0, <1>2, <1>7, StartLoopStep DEF StartLoop
<1>8. CASE CheckList
  BY <1>0, <1>2, <1>8, CheckListStep DEF CheckList
<1>9. CASE ReadConfig \/ ReadGlobalConfig
  BY <1>0, <1>1, <1>2, <1>9, ReadConfigStep DEF ReadConfig, ReadGlobalConfig
<1>10. CASE NoDigest \/ ForkFails
  BY <1>0, <1>2, <1>10, NoJobStep DEF NoDigest, ForkFails
<1>11. CASE Fork
  BY <1>0, <1>2, <1>11, ForkStep DEF Fork
<1>12. CASE StorePid
  BY <1>0, <1>2, <1>12, StorePidStep DEF StorePid
<1>13. CASE WaitForChild
  BY <1>0, <1>2, <1>13, WaitForChildStep DEF WaitForChild
<1>14. CASE CheckZombies
  <2>1. up /\ ~Started /\ UNCHANGED conf
    BY <1>14 DEF CheckZombies, Started, files
  <2>2. CASE HandleChild /\ pc' = "next"
    BY <1>0, <1>2, <2>1, <2>2, HandleChildStep DEF Starting, Started
  <2>3. CASE FatalChild
    BY <1>0, <1>2, <2>1, <2>3, FatalStep
  <2>4. CASE pc' = "next" /\ UNCHANGED <<procs, up, loop, table>>
    <3>1. SameJobs /\ ~Starting' /\ ~Started' /\ up' /\ nthreads' = nthreads
      BY <2>1, <2>4 DEF SameJobs, Starting, Started, procs, loop, table, Exists
    <3> QED
      BY <1>0, <1>2, <2>1, <3>1, IdleKeeps DEF Running, ThreadsOK
  <2> QED
    BY <1>14, <2>2, <2>3, <2>4 DEF CheckZombies
<1>15. CASE SigChld
  <2>1. up /\ ~Started /\ UNCHANGED conf
    BY <1>15 DEF SigChld, Blocked, Started, files
  <2>2. CASE HandleChild /\ pc' = pc
    BY <1>0, <1>2, <2>1, <2>2, HandleChildStep
  <2>3. CASE FatalChild
    BY <1>0, <1>2, <2>1, <2>3, FatalStep
  <2> QED
    BY <1>15, <2>2, <2>3 DEF SigChld
<1>16. CASE NextList
  <2>1. up /\ up' /\ ~Started /\ ~Starting' /\ ~Started' /\ SameJobs /\ nthreads' = nthreads
    BY <1>16 DEF NextList, Starting, Started, SameJobs, procs, table, Exists
  <2> QED
    BY <1>0, <1>2, <2>1, IdleKeeps DEF Running, ThreadsOK
<1>17. CASE NewDay
  <2>1. up /\ up' /\ UNCHANGED <<pc, job, nthreads>>
    BY <1>17 DEF NewDay, loop
  <2>2. SameJobs
    BY <1>17 DEF NewDay, SameJobs, procs, Exists, TypeOK, TableType, Slot
  <2> QED
    BY <1>0, <1>2, <2>1, <2>2, WorldKeeps
<1>18. CASE Restart
  <2>1. /\ up' /\ slot' = NewSlots /\ nforks' = 0 /\ ~errorBusy' /\ ~Starting' /\ ~Started'
        /\ nthreads' = conf.threads
    BY <1>18 DEF Restart, FreshMaster, Starting, Started
  <2>2. \A p \in Pids : ~Exists(p)'
    BY <1>18 DEF Restart, Exists
  <2>3. nthreads' \in conf'.choices
    BY <1>0, <2>1 DEF TypeOK, ConfType
  <2> QED
    BY <2>1, <2>2, <2>3, FreshTable
<1> QED
  BY <1>3, <1>4, <1>5, <1>6, <1>7, <1>8, <1>9, <1>10, <1>11, <1>12, <1>13, <1>14, <1>15, <1>16,
     <1>17, <1>18 DEF Next, Master, World, Exists

\* What the run checks follows from the invariant.
LEMMA InvAccounts == TypeOK /\ IInv => Accounted
<1> SUFFICES ASSUME TypeOK, IF up THEN Running ELSE \A p \in Pids : ~Exists(p)
             PROVE  /\ up => ThreadsCounted /\ (Started \/ BusyHasChild)
                    /\ OneWorker
  BY DEF IInv, Accounted, Started
<1>1. CASE ~up
  BY <1>1 DEF OneWorker, Alive
<1>2. CASE up
  <2>1. ASSUME ~Started PROVE BusyHasChild
    BY <1>2, <2>1 DEF BusyHasChild, Running, RecordOK, Marking, ErrorMarking
  <2>2. ASSUME NEW p \in Pids, NEW q \in Pids, p # q, Exists(p), Exists(q)
        PROVE  /\ {child[p].kind, child[q].kind} # {"errors"}
               /\ child[p].list = child[q].list => "errors" \in {child[p].kind, child[q].kind}
    <3>1. \A r \in Pids : Exists(r) =>
            \/ \E l \in Lists : slot[l].pid = r /\ child[r].list = l /\ child[r].kind # "errors"
            \/ \E l \in Lists : slot[l].epid = r /\ child[r].kind = "errors"
            \/ Started /\ r = job.pid
      BY <1>2 DEF Running, NoOrphan, Known, RecordOK, Pids, NoPid
    <3>2. Started =>
            /\ child[job.pid].list = job.list /\ child[job.pid].kind = job.kind
            /\ IF ErrorJob THEN \A l \in Lists : slot[l].epid = NoPid
               ELSE slot[job.list].pid = NoPid
      BY <1>2 DEF Running, JobOK
    <3>3. \A l, k \in Lists : slot[l].epid # NoPid /\ slot[k].epid # NoPid => l = k
      BY <1>2 DEF Running, RecordOK
    <3>4. p # NoPid /\ q # NoPid
      BY DEF Pids, NoPid
    <3> QED
      BY <2>2, <3>1, <3>2, <3>3, <3>4, SMTT(20) DEF ErrorJob
  <2>3. OneWorker
    BY <2>2 DEF OneWorker, Alive
  <2> QED
    BY <1>2, <2>1, <2>3 DEF Running
<1> QED
  BY <1>1, <1>2

\* serverd's table, its count of threads and its processes agree, and no two
\* processes are at one list's files: for any lists, threads, installations,
\* and through any disturbances.
THEOREM Accounts == Spec => []Accounted
<1>1. Init => IInv
  <2> SUFFICES ASSUME Init PROVE up /\ Running
    BY DEF IInv
  <2>1. [l \in Lists |-> ListThreads(l)] = [l \in Lists |-> 0]
    BY DEF Init, ListThreads, NewSlots
  <2>2. ThreadsCounted
    BY <2>1, NothingGiven DEF Init, ThreadsCounted
  <2>3. RecordOK /\ NoOrphan /\ JobOK /\ AllocOK
    BY DEF Init, RecordOK, NoOrphan, JobOK, AllocOK, NewSlots, Starting, Started, Exists
  <2>4. ThreadsOK
    BY DEF Init, ThreadsOK, Starting, Started
  <2> QED
    BY <2>2, <2>3, <2>4 DEF Running, Init
<1> QED
  BY <1>1, InvStep, InvAccounts, Typing, PTL DEF Spec

-----------------------------------------------------------------------------
(* DailyLimit: the kinds of its variables, in parts *)

SvKinds     == [pc : Places, kind : Boxes, nmess : Counts, day : 0..day]
ProcKinds   == [pc : Stages \cup {None}, left : Nat, n : Counts, day : 0..day, last : BOOLEAN]
LimitsKinds == {NoFile, Torn} \cup [n : Counts, day : 0..day]
StampKinds  == changed \in BOOLEAN /\ fresh \in SUBSET {"file", "serverd"}
CheckKinds  == [blind : BOOLEAN, unseen : Nat]
LpKinds     == [pc : {"idle", "lock", "act", "write"}, op : {"HOLD", "FREE"}, sender : Askers]

\* Without a .limits file nothing has happened yet.
StartedOK ==
  limits = NoFile =>
    since = 0 /\ sv.day = 0 /\ sv.pc \in {"idle", "ceiling"} /\ \A k \in Boxes : At(k, None)

\* The times of the file and in serverd stay what they are: equal or not, of the
\* present second or not.
LEMMA StampStep ==
  ASSUME LimitKinds, Step
  PROVE  StampKinds'
PROOF
  <1>1. StampKinds BY DEF LimitKinds, StampKinds
  <1>2. ASSUME Touched PROVE StampKinds'
    <2>1. changed' \in BOOLEAN BY <1>2 DEF Touched
    <2>2. fresh' \in SUBSET {"file", "serverd"} BY <1>1, <1>2 DEF Touched, StampKinds
    <2> QED BY <2>1, <2>2 DEF StampKinds
  <1>3. ASSUME UNCHANGED <<changed, fresh>> PROVE StampKinds'
    BY <1>1, <1>3 DEF StampKinds
  <1>4. CASE Stat \/ Second \/ Midnight
    BY <1>1, <1>4 DEF Stat, Second, Midnight, StampKinds
  <1>5. CASE ServerdStep /\ ~Stat
    BY <1>2, <1>3, <1>5 DEF ServerdStep, Look, Read, NewCount, WriteNewCount, SameDay, Skip, Spawn, limitsFile
  <1>6. CASE ListprocStep
    BY <1>2, <1>3, <1>6 DEF ListprocStep, Lock, PutHold, RefuseFree, Free, WriteFree, limitsFile
  <1>7. ASSUME NEW k \in Boxes, ListStep(k) PROVE StampKinds'
    BY <1>2, <1>3, <1>7 DEF ListStep, Refuse, PassCheck, TakeMail, ProcessOne, IncRead, IncNothing, IncTruncate,
      IncWrite, EndList, limitsFile
  <1>8. ASSUME NEW op, NEW s, Ask(op, s) PROVE StampKinds'
    BY <1>3, <1>8 DEF Ask, limitsFile
  <1>9. ASSUME NEW k \in Boxes, Arrive(k) PROVE StampKinds'
    BY <1>3, <1>9 DEF Arrive, limitsFile
  <1> QED BY <1>4, <1>5, <1>6, <1>7, <1>8, <1>9 DEF Step, HoldList, FreeList

LEMMA ChangingFinite ==
  /\ IsFiniteSet(Changing) /\ Cardinality(Changing) \in Nat
  /\ IsFiniteSet(Counting) /\ Cardinality(Counting) \in Nat
PROOF
  <1> DEFINE All == {"mail", "errors", "serverd", "listproc"}
  <1>1. IsFiniteSet(All)
    <2>2. IsFiniteSet({"mail"}) BY FS_Singleton
    <2>3. IsFiniteSet({"mail"} \cup {"errors"}) BY <2>2, FS_AddElement
    <2>4. IsFiniteSet(({"mail"} \cup {"errors"}) \cup {"serverd"}) BY <2>3, FS_AddElement
    <2>5. IsFiniteSet((({"mail"} \cup {"errors"}) \cup {"serverd"}) \cup {"listproc"}) BY <2>4, FS_AddElement
    <2>6. All = (({"mail"} \cup {"errors"}) \cup {"serverd"}) \cup {"listproc"} OBVIOUS
    <2> QED BY <2>5, <2>6
  <1>2. Changing \subseteq All /\ Counting \subseteq All BY DEF Changing, Counting, Boxes
  <1>3. IsFiniteSet(Changing) /\ IsFiniteSet(Counting) BY <1>1, <1>2, FS_Subset
  <1> QED BY <1>3, FS_CardinalityType

\* What the steps of a list process, of serverd and of listproc leave alone, and
\* what they make of the rest.
LEMMA ListMoves ==
  ASSUME LimitKinds, StartedOK, NEW k \in Boxes, ListStep(k)
  PROVE  /\ proc' \in [Boxes -> ProcKinds] /\ limits # NoFile /\ limits' \in LimitsKinds \ {NoFile}
         /\ \A j \in Boxes \ {k} : proc'[j] = proc[j]
         /\ proc[k].pc # None /\ box' \in [Boxes -> Nat] /\ since' \in Nat
         /\ UNCHANGED <<day, arrived, holdf, misc, sv, lp, asked>>
         /\ \/ EndList(k) /\ proc'[k].pc = None /\ busy' = [busy EXCEPT ![k] = FALSE]
            \/ proc'[k].pc # None /\ busy' = busy
PROOF
  <1> DEFINE p == proc[k]
  <1>1. /\ p \in ProcKinds /\ box \in [Boxes -> Nat] /\ since \in Nat /\ limits \in LimitsKinds
        /\ proc \in [Boxes -> ProcKinds] /\ changed \in BOOLEAN
        /\ 0 \in Counts /\ MaxCount \in Counts /\ day \in 0..day /\ 0 \in 0..day
    BY DailyLimitAssumption DEF LimitKinds, ProcKinds, LimitsKinds, Counts, MaxCount
  <1>2. p.pc # None
    BY DailyLimitAssumption DEF ListStep, Refuse, PassCheck, TakeMail, ProcessOne, IncRead, IncNothing, IncTruncate,
      IncWrite, EndList, At
  <1>3. limits # NoFile BY <1>2 DEF StartedOK, At
  <1>4. UNCHANGED <<day, arrived, holdf, misc, sv, lp, asked>>
    BY DEF ListStep, Refuse, PassCheck, TakeMail, ProcessOne, IncRead, IncNothing, IncTruncate,
      IncWrite, EndList, ListOnly, listproc
  <1> DEFINE Good(q) == proc' = [proc EXCEPT ![k] = q] /\ q \in ProcKinds /\ q.pc # None /\ busy' = busy
  <1>5. CASE Refuse(k)
    <2>1. Good([p EXCEPT !.pc = "inc", !.last = TRUE])
      <3> DEFINE q == [p EXCEPT !.pc = "inc", !.last = TRUE]
      <3>1. proc' = [proc EXCEPT ![k] = q] BY <1>1, <1>5 DEF Refuse
      <3>2. q \in ProcKinds /\ q.pc = "inc" BY <1>1 DEF ProcKinds, Stages
      <3> QED BY <3>1, <3>2, <1>5, DailyLimitAssumption DEF Refuse
    <2>2. UNCHANGED <<box, limits, changed, since>> BY <1>5 DEF Refuse, limitsFile
    <2> QED BY <1>1, <1>2, <1>3, <1>4, <2>1, <2>2
  <1>13. CASE PassCheck(k)
    <2>1. Good([p EXCEPT !.pc = "take"])
      <3> DEFINE q == [p EXCEPT !.pc = "take"]
      <3>1. proc' = [proc EXCEPT ![k] = q] BY <1>1, <1>13 DEF PassCheck, PGoto
      <3>2. q \in ProcKinds /\ q.pc = "take" BY <1>1 DEF ProcKinds, Stages
      <3> QED BY <3>1, <3>2, <1>13, DailyLimitAssumption DEF PassCheck
    <2>2. UNCHANGED <<box, limits, changed, since>> BY <1>13 DEF PassCheck, limitsFile
    <2> QED BY <1>1, <1>2, <1>3, <1>4, <2>1, <2>2
  <1>6. CASE TakeMail(k)
    <2>1. Good([p EXCEPT !.pc = "next", !.left = box[k]])
      <3> DEFINE q == [p EXCEPT !.pc = "next", !.left = box[k]]
      <3>1. proc' = [proc EXCEPT ![k] = q] BY <1>1, <1>6 DEF TakeMail
      <3>2. q \in ProcKinds /\ q.pc = "next" BY <1>1 DEF ProcKinds, Stages
      <3> QED BY <3>1, <3>2, <1>6, DailyLimitAssumption DEF TakeMail
    <2>2. UNCHANGED <<limits, changed, since>> /\ box' = [box EXCEPT ![k] = 0] BY <1>6 DEF TakeMail, limitsFile
    <2> QED BY <1>1, <1>2, <1>3, <1>4, <2>1, <2>2
  <1>7. CASE ProcessOne(k)
    <2>1. Good([p EXCEPT !.pc = "inc", !.left = @ - 1])
      <3> DEFINE q == [p EXCEPT !.pc = "inc", !.left = @ - 1]
      <3>1. proc' = [proc EXCEPT ![k] = q] BY <1>1, <1>7 DEF ProcessOne
      <3>2. p.left > 0 BY <1>7 DEF ProcessOne
      <3>4. p.left - 1 \in Nat BY <1>1, <3>2 DEF ProcKinds
      <3>3. q \in ProcKinds /\ q.pc = "inc" BY <1>1, <3>4 DEF ProcKinds, Stages
      <3> QED BY <3>1, <3>3, <1>7, DailyLimitAssumption DEF ProcessOne
    <2>2. UNCHANGED <<limits, changed, box>> /\ since' = since + 1 BY <1>7 DEF ProcessOne, limitsFile
    <2> QED BY <1>1, <1>2, <1>3, <1>4, <2>1, <2>2
  <1>8. CASE IncRead(k)
    <2>1. PICK n \in IF limits = Torn THEN Garbage ELSE {limits.n} :
            proc' = [proc EXCEPT ![k].pc = "truncate", ![k].n = n, ![k].day = day]
      BY <1>8 DEF IncRead
    <2>2. n \in Counts BY <1>1, <1>3, <2>1 DEF LimitsKinds, Garbage
    <2>3. Good([p EXCEPT !.pc = "truncate", !.n = n, !.day = day])
      <3> DEFINE q == [p EXCEPT !.pc = "truncate", !.n = n, !.day = day]
      <3>1. proc' = [proc EXCEPT ![k] = q] BY <1>1, <2>1
      <3>2. q \in ProcKinds /\ q.pc = "truncate" BY <1>1, <2>2 DEF ProcKinds, Stages
      <3> QED BY <3>1, <3>2, <1>8, DailyLimitAssumption DEF IncRead
    <2>4. UNCHANGED <<box, limits, changed, since>> BY <1>8 DEF IncRead, limitsFile
    <2> QED BY <1>1, <1>2, <1>3, <1>4, <2>3, <2>4
  <1>9. CASE IncNothing(k) BY <1>3, <1>9 DEF IncNothing
  <1>10. CASE IncTruncate(k)
    <2>1. Good([p EXCEPT !.pc = "write"])
      <3> DEFINE q == [p EXCEPT !.pc = "write"]
      <3>1. proc' = [proc EXCEPT ![k] = q] BY <1>1, <1>10 DEF IncTruncate, PGoto
      <3>2. q \in ProcKinds /\ q.pc = "write" BY <1>1 DEF ProcKinds, Stages
      <3> QED BY <3>1, <3>2, <1>10, DailyLimitAssumption DEF IncTruncate
    <2>2. UNCHANGED <<box, since>> /\ limits' = Torn BY <1>10 DEF IncTruncate
    <2> QED BY <1>1, <1>2, <1>3, <1>4, <2>1, <2>2, DailyLimitAssumption DEF LimitsKinds
  <1>11. CASE IncWrite(k)
    <2>1. Good([p EXCEPT !.pc = IF p.last THEN "exit" ELSE "next"])
      <3> DEFINE q == [p EXCEPT !.pc = IF p.last THEN "exit" ELSE "next"]
      <3>1. proc' = [proc EXCEPT ![k] = q] BY <1>1, <1>11 DEF IncWrite, PGoto
      <3>2. q \in ProcKinds /\ q.pc \in {"exit", "next"} BY <1>1 DEF ProcKinds, Stages
      <3> QED BY <3>1, <3>2, <1>11, DailyLimitAssumption DEF IncWrite
    <2>2. UNCHANGED <<box, since>> /\ limits' = Entry(Incremented(p), p.day)
      BY <1>11 DEF IncWrite
    <2>3. Incremented(p) \in Counts /\ p.day \in 0..day
      BY <1>1, DailyLimitAssumption DEF Incremented, ProcKinds, Counts, MaxCount
    <2>4. limits' \in [n : Counts, day : 0..day] /\ limits' # NoFile
      BY <2>2, <2>3, DailyLimitAssumption DEF Entry, Counts
    <2> QED BY <1>1, <1>2, <1>3, <1>4, <2>1, <2>2, <2>4 DEF LimitsKinds
  <1>12. CASE EndList(k)
    <2>1. proc' = [proc EXCEPT ![k] = NoProcess] /\ busy' = [busy EXCEPT ![k] = FALSE]
          /\ UNCHANGED <<box, limits, changed, since>>
      BY <1>12 DEF EndList, limitsFile
    <2>2. NoProcess \in ProcKinds BY <1>1 DEF NoProcess, ProcKinds
    <2>3. NoProcess.pc = None BY DEF NoProcess
    <2> QED BY <1>1, <1>2, <1>3, <1>4, <1>12, <2>1, <2>2, <2>3
  <1> QED BY <1>5, <1>6, <1>7, <1>8, <1>9, <1>10, <1>11, <1>12, <1>13 DEF ListStep

LEMMA ServerdMoves ==
  ASSUME LimitKinds, StartedOK, ServerdStep
  PROVE  /\ UNCHANGED <<day, arrived, box, holdf, lp, asked>>
         /\ sv' \in SvKinds /\ limits' \in LimitsKinds /\ (limits # NoFile => limits' # NoFile)
         /\ misc' \in {"serverd", "listproc", None} /\ since' \in {since, 0}
         /\ \/ UNCHANGED <<busy, proc>>
            \/ /\ limits # NoFile /\ UNCHANGED <<limits, since>>
               /\ busy' = [busy EXCEPT ![sv.kind] = TRUE]
               /\ proc' = [proc EXCEPT ![sv.kind].pc = "check"]
         /\ limits' = NoFile => sv'.day = 0 /\ sv'.pc \in {"idle", "ceiling"}
PROOF
  <1>1. /\ sv \in SvKinds /\ limits \in LimitsKinds /\ day \in 1..MaxDays
        /\ misc \in {"serverd", "listproc", None} /\ changed \in BOOLEAN /\ 0 \in Counts
    BY DailyLimitAssumption DEF LimitKinds, SvKinds, LimitsKinds, Counts, MaxCount
  <1>2. UNCHANGED <<day, arrived, box, holdf, lp, asked>>
    BY DEF ServerdStep, Look, Read, Stat, NewCount, WriteNewCount, SameDay, Skip, Spawn, Serverd, mails, listproc
  <1>3. limits = NoFile => sv.day = 0 /\ sv.pc \in {"idle", "ceiling"} BY DEF StartedOK
  <1>4. ASSUME NEW k \in Boxes, Look(k)
        PROVE  /\ sv' = [sv EXCEPT !.pc = sv'.pc, !.kind = k] /\ sv'.pc \in {"read", "ceiling"}
               /\ sv'.pc = "read" => limits # NoFile
               /\ UNCHANGED <<limits, changed, misc, busy, since, proc>>
    <2>1. CASE limits # NoFile /\ changed
      BY <1>1, <1>4, <2>1 DEF Look, Serverd, limitsFile, SvKinds
    <2>2. CASE ~(limits # NoFile /\ changed)
      BY <1>1, <1>4, <2>2 DEF Look, Serverd, limitsFile, SvKinds
    <2> QED BY <2>1, <2>2
  <1>5. ASSUME NEW k \in Boxes, Look(k) PROVE sv' \in SvKinds
    BY <1>1, <1>2, <1>4, <1>5 DEF SvKinds, Places
  <1>6. CASE \E k \in Boxes : Look(k)
    <2>1. PICK k \in Boxes : Look(k) BY <1>6
    <2>2. sv'.day = sv.day BY <1>1, <1>4, <2>1 DEF SvKinds
    <2> QED BY <1>1, <1>2, <1>3, <1>4, <1>5, <2>1, <2>2
  <1>7. CASE Read
    <2>1. limits # NoFile BY <1>3, <1>7 DEF Read
    <2> DEFINE n == IF limits = Torn THEN sv.nmess ELSE limits.n
               e == IF limits = Torn THEN 0 ELSE limits.day
    <2>2. n \in Counts /\ e \in 0..day BY <1>1, <2>1 DEF LimitsKinds, SvKinds
    <2>3. sv' = [sv EXCEPT !.pc = "stat", !.nmess = n, !.day = e] BY <1>7 DEF Read
    <2>4. UNCHANGED <<limits, changed, misc, busy, since, proc>> BY <1>7 DEF Read, Serverd, limitsFile
    <2>5. sv' \in SvKinds BY <1>1, <1>2, <2>2, <2>3 DEF SvKinds, Places
    <2> QED BY <1>1, <1>2, <2>1, <2>4, <2>5
  <1>8. CASE Stat
    <2>1. sv' = [sv EXCEPT !.pc = "ceiling"] 
          /\ UNCHANGED <<limits, misc, busy, since, proc>>
      BY <1>8 DEF Stat, SGoto, Serverd
    <2>2. sv' \in SvKinds /\ sv'.day = sv.day /\ sv'.pc = "ceiling" BY <1>1, <1>2, <2>1 DEF SvKinds, Places
    <2> QED BY <1>1, <1>2, <1>3, <2>1, <2>2
  <1>9. CASE NewCount
    <2>1. /\ sv' = [sv EXCEPT !.pc = "write", !.nmess = 0, !.day = day]
          /\ misc' = "serverd" /\ limits' = Torn /\ UNCHANGED <<busy, since, proc>>
      BY <1>9 DEF NewCount, Serverd
    <2>3. day \in 0..day BY <1>1, DailyLimitAssumption
    <2>2. sv' \in SvKinds BY <1>1, <1>2, <2>1, <2>3 DEF SvKinds, Places
    <2> QED BY <1>1, <1>2, <2>1, <2>2, DailyLimitAssumption DEF LimitsKinds
  <1>10. CASE WriteNewCount
    <2>1. /\ sv' = [sv EXCEPT !.pc = "decide"]
          /\ misc' = None /\ limits' = Entry(0, sv.day) /\ since' = 0 /\ UNCHANGED <<busy, proc>>
      BY <1>10 DEF WriteNewCount, SGoto, Serverd
    <2>2. sv' \in SvKinds BY <1>1, <1>2, <2>1 DEF SvKinds, Places
    <2>3. sv.day \in 0..day BY <1>1 DEF SvKinds
    <2>4. limits' \in LimitsKinds /\ limits' # NoFile
      BY <1>1, <2>1, <2>3, DailyLimitAssumption DEF LimitsKinds, Entry, Counts
    <2> QED BY <1>1, <1>2, <2>1, <2>2, <2>4
  <1>11. CASE SameDay
    <2>1. sv' = [sv EXCEPT !.pc = "decide"] /\ sv.day = day
          /\ UNCHANGED <<limits, changed, misc, busy, since, proc>>
      BY <1>11 DEF SameDay, SGoto, Serverd, limitsFile
    <2>2. sv' \in SvKinds BY <1>1, <1>2, <2>1 DEF SvKinds, Places
    <2>3. limits # NoFile BY <1>1, <1>3, <2>1
    <2> QED BY <1>1, <1>2, <2>1, <2>2, <2>3
  <1>12. CASE Skip
    <2>1. sv' = [sv EXCEPT !.pc = "idle"] /\ UNCHANGED <<limits, changed, misc, busy, since, proc>>
      BY <1>12 DEF Skip, SGoto, Serverd, limitsFile
    <2>2. sv' \in SvKinds /\ sv'.day = sv.day /\ sv'.pc = "idle" BY <1>1, <1>2, <2>1 DEF SvKinds, Places
    <2> QED BY <1>1, <1>2, <1>3, <2>1, <2>2
  <1>13. CASE Spawn
    <2>1. sv' = [sv EXCEPT !.pc = "idle"] /\ busy' = [busy EXCEPT ![sv.kind] = TRUE]
          /\ proc' = [proc EXCEPT ![sv.kind].pc = "check"] /\ UNCHANGED <<limits, changed, misc, since>>
          /\ sv.pc = "decide"
      BY <1>13 DEF Spawn, SGoto, limitsFile
    <2>2. sv' \in SvKinds /\ sv'.day = sv.day /\ sv'.pc = "idle" BY <1>1, <1>2, <2>1 DEF SvKinds, Places
    <2>3. limits # NoFile BY <1>3, <2>1
    <2> QED BY <1>1, <1>2, <2>1, <2>2, <2>3
  <1> QED BY <1>6, <1>7, <1>8, <1>9, <1>10, <1>11, <1>12, <1>13 DEF ServerdStep

LEMMA ListprocMoves ==
  ASSUME LimitKinds, ListprocStep
  PROVE  /\ UNCHANGED <<day, arrived, box, sv, busy, proc, asked>>
         /\ lp' \in LpKinds /\ limits' \in LimitsKinds /\ (limits' = NoFile => limits = NoFile)
         /\ holdf' \in Askers \cup {None} /\ misc' \in {"serverd", "listproc", None}
         /\ since' \in {since, 0}
PROOF
  <1>1. /\ lp \in LpKinds /\ limits \in LimitsKinds /\ day \in 1..MaxDays /\ holdf \in Askers \cup {None}
        /\ misc \in {"serverd", "listproc", None} /\ changed \in BOOLEAN /\ 0 \in Counts
    BY DailyLimitAssumption DEF LimitKinds, LpKinds, LimitsKinds, Counts, MaxCount
  <1>2. UNCHANGED <<day, arrived, box, sv, busy, proc, asked>>
    BY DEF ListprocStep, Lock, PutHold, RefuseFree, Free, WriteFree, Listproc, mails
  <1>3. PICK where \in {"idle", "act", "write"} : lp' = [lp EXCEPT !.pc = where]
    BY DEF ListprocStep, Lock, PutHold, RefuseFree, Free, WriteFree, LGoto
  <1>4. lp' \in LpKinds BY <1>1, <1>3 DEF LpKinds
  <1>5. lp.sender \in Askers BY <1>1 DEF LpKinds
  <1>6. CASE Lock
    BY <1>1, <1>2, <1>4, <1>6 DEF Lock, limitsFile
  <1>7. CASE PutHold
    BY <1>1, <1>2, <1>4, <1>5, <1>7 DEF PutHold, limitsFile
  <1>8. CASE RefuseFree
    BY <1>1, <1>2, <1>4, <1>8 DEF RefuseFree, limitsFile
  <1>9. CASE Free
    BY <1>1, <1>2, <1>4, <1>9, DailyLimitAssumption DEF Free, LimitsKinds
  <1>10. CASE WriteFree
    <2>1. limits' \in LimitsKinds /\ limits' # NoFile
      BY <1>1, <1>2, <1>10, DailyLimitAssumption DEF WriteFree, LimitsKinds, Entry, Counts
    <2> QED BY <1>1, <1>2, <1>4, <1>10, <2>1 DEF WriteFree
  <1> QED BY <1>6, <1>7, <1>8, <1>9, <1>10 DEF ListprocStep

LEMMA LimitWatch ==
  ASSUME LimitKinds, Watch
  PROVE  raced' \in BOOLEAN /\ checked' \in [Boxes -> CheckKinds]
PROOF
  <1>1. raced' \in BOOLEAN BY DEF LimitKinds, Watch
  <1>2. ASSUME NEW k \in Boxes PROVE CheckedBy(k) \in CheckKinds
    <2>1. checked[k] \in CheckKinds BY DEF LimitKinds, CheckKinds
    <2>2. Cardinality(Counting) \in Nat BY ChangingFinite
    <2>3. [blind |-> limits = Torn, unseen |-> Cardinality(Counting)] \in CheckKinds
      <3>1. (limits = Torn) \in BOOLEAN OBVIOUS
      <3> QED BY <2>2, <3>1 DEF CheckKinds
    <2>4. checked[k].unseen \in Nat /\ checked[k].unseen + 1 \in Nat BY <2>1 DEF CheckKinds
    <2>5. [checked[k] EXCEPT !.unseen = IF since' > since THEN @ + 1 ELSE @] \in CheckKinds
      BY <2>1, <2>4 DEF CheckKinds
    <2>6. Unchecked \in CheckKinds BY DEF Unchecked, CheckKinds
    <2> QED BY <2>3, <2>5, <2>6 DEF CheckedBy
  <1>3. checked' = [k \in Boxes |-> CheckedBy(k)] BY DEF Watch
  <1> QED BY <1>1, <1>2, <1>3

\* The files and processes keep their kinds, and start with the first file.
LEMMA LimitKindsStep ==
  ASSUME LimitKinds, StartedOK, Step, Watch
  PROVE  LimitKinds' /\ StartedOK'
PROOF
  <1>1. raced' \in BOOLEAN /\ checked' \in [Boxes -> CheckKinds] /\ StampKinds' BY LimitWatch, StampStep
  <1>2. /\ day \in 1..MaxDays /\ arrived \in 0..MaxArrivals /\ box \in [Boxes -> Nat]
        /\ limits \in LimitsKinds /\ changed \in BOOLEAN
        /\ holdf \in Askers \cup {None} /\ misc \in {"serverd", "listproc", None}
        /\ sv \in SvKinds /\ busy \in [Boxes -> BOOLEAN] /\ proc \in [Boxes -> ProcKinds]
        /\ lp \in LpKinds /\ asked \in 0..MaxRequests /\ since \in Nat
    BY DEF LimitKinds, LimitsKinds, SvKinds, ProcKinds, LpKinds
  <1> DEFINE Kinds1 == /\ day' \in 1..MaxDays /\ arrived' \in 0..MaxArrivals /\ box' \in [Boxes -> Nat]
                       /\ limits' \in LimitsKinds'
                       /\ holdf' \in Askers \cup {None} /\ misc' \in {"serverd", "listproc", None}
                       /\ sv' \in SvKinds' /\ busy' \in [Boxes -> BOOLEAN] /\ proc' \in [Boxes -> ProcKinds']
                       /\ lp' \in LpKinds /\ asked' \in 0..MaxRequests /\ since' \in Nat
  <1>3. ASSUME day' = day PROVE LimitsKinds' = LimitsKinds /\ SvKinds' = SvKinds /\ ProcKinds' = ProcKinds
    BY <1>3 DEF LimitsKinds, SvKinds, ProcKinds
  <1>4. Kinds1 => LimitKinds'
    BY <1>1 DEF LimitKinds, LimitsKinds, SvKinds, ProcKinds, LpKinds, StampKinds, CheckKinds
  <1>5. CASE ServerdStep
    <2>1. \/ UNCHANGED <<busy, proc>>
          \/ /\ limits # NoFile /\ UNCHANGED limits
             /\ busy' = [busy EXCEPT ![sv.kind] = TRUE]
             /\ proc' = [proc EXCEPT ![sv.kind].pc = "check"]
      BY <1>5, ServerdMoves
    <2>2. sv.kind \in Boxes BY <1>2 DEF SvKinds
    <2>3. busy' \in [Boxes -> BOOLEAN] BY <1>2, <2>1, <2>2
    <2>4. proc' \in [Boxes -> ProcKinds]
      <3>1. [proc[sv.kind] EXCEPT !.pc = "check"] \in ProcKinds BY <1>2, <2>2 DEF ProcKinds, Stages
      <3> QED BY <1>2, <2>1, <2>2, <3>1
    <2>5. UNCHANGED <<day, arrived, box, holdf, lp, asked>> /\ sv' \in SvKinds /\ limits' \in LimitsKinds
          /\ misc' \in {"serverd", "listproc", None} /\ since' \in {since, 0}
      BY <1>5, ServerdMoves
    <2>6. Kinds1 BY <1>2, <1>3, <2>3, <2>4, <2>5
    <2>7. StartedOK'
      <3> SUFFICES ASSUME limits' = NoFile
                   PROVE  since' = 0 /\ sv'.day = 0 /\ sv'.pc \in {"idle", "ceiling"}
                          /\ \A k \in Boxes : proc'[k].pc = None
        BY DEF StartedOK, At
      <3>1. limits = NoFile /\ sv'.day = 0 /\ sv'.pc \in {"idle", "ceiling"} BY <1>5, ServerdMoves
      <3> QED BY <3>1, <2>1, <2>5 DEF StartedOK, At
    <2> QED BY <1>4, <2>6, <2>7
  <1>6. CASE ListprocStep
    <2>1. /\ UNCHANGED <<day, arrived, box, sv, busy, proc, asked>>
          /\ lp' \in LpKinds /\ limits' \in LimitsKinds /\ (limits' = NoFile => limits = NoFile)
          /\ holdf' \in Askers \cup {None} /\ misc' \in {"serverd", "listproc", None}
          /\ since' \in {since, 0}
      BY <1>6, ListprocMoves
    <2>2. Kinds1 BY <1>2, <1>3, <2>1
    <2>3. StartedOK' BY <2>1 DEF StartedOK, At
    <2> QED BY <1>4, <2>2, <2>3
  <1>7. ASSUME NEW k \in Boxes, ListStep(k) PROVE LimitKinds' /\ StartedOK'
    <2>1. /\ proc' \in [Boxes -> ProcKinds] /\ limits' \in LimitsKinds \ {NoFile}
          /\ box' \in [Boxes -> Nat] /\ since' \in Nat
          /\ UNCHANGED <<day, arrived, holdf, misc, sv, lp, asked>>
          /\ busy' = [busy EXCEPT ![k] = FALSE] \/ busy' = busy
      BY <1>7, ListMoves
    <2>2. busy' \in [Boxes -> BOOLEAN] BY <1>2, <2>1
    <2>3. Kinds1 BY <1>2, <1>3, <2>1, <2>2
    <2> QED BY <1>4, <2>1, <2>3 DEF StartedOK
  <1>8. ASSUME NEW op \in {"HOLD", "FREE"}, NEW s \in Askers, Ask(op, s) PROVE LimitKinds' /\ StartedOK'
    <2>1. /\ UNCHANGED <<day, arrived, box, limits, changed, holdf, misc, sv, busy, proc, since>>
          /\ lp' = [pc |-> "lock", op |-> op, sender |-> s] /\ asked < MaxRequests /\ asked' = asked + 1
      BY <1>8 DEF Ask, mails, limitsFile
    <2>2. lp' \in LpKinds BY <2>1 DEF LpKinds
    <2>3. Kinds1 BY <1>2, <1>3, <2>1, <2>2, DailyLimitAssumption
    <2> QED BY <1>4, <2>1, <2>3 DEF StartedOK, At
  <1>9. ASSUME NEW k \in Boxes, Arrive(k) PROVE LimitKinds' /\ StartedOK'
    <2>1. /\ UNCHANGED <<day, limits, changed, holdf, misc, sv, busy, proc, lp, asked, since>>
          /\ box' = [box EXCEPT ![k] = @ + 1] /\ arrived < MaxArrivals /\ arrived' = arrived + 1
      BY <1>9 DEF Arrive, limitsFile, listproc
    <2>2. Kinds1 BY <1>2, <1>3, <2>1, DailyLimitAssumption
    <2> QED BY <1>4, <2>1, <2>2 DEF StartedOK, At
  <1>10. CASE Midnight
    <2>1. /\ UNCHANGED <<box, arrived, limits, changed, holdf, misc, sv, busy, proc, lp, asked, since>>
          /\ day < MaxDays /\ day' = day + 1
      BY <1>10 DEF Midnight, limitsFile, listproc, mails
    <2>2. day' \in 1..MaxDays /\ 0..day \subseteq 0..day' BY <1>2, <2>1, DailyLimitAssumption
    <2>3. LimitsKinds \subseteq LimitsKinds' /\ SvKinds \subseteq SvKinds' /\ ProcKinds \subseteq ProcKinds'
      BY <2>2 DEF LimitsKinds, SvKinds, ProcKinds
    <2>4. proc \in [Boxes -> ProcKinds'] BY <1>2, <2>3
    <2>5. Kinds1 BY <1>2, <2>1, <2>2, <2>3, <2>4
    <2> QED BY <1>4, <2>1, <2>5 DEF StartedOK, At
  <1>11. CASE Second
    <2>1. UNCHANGED <<day, box, arrived, limits, holdf, misc, sv, busy, proc, lp, asked, since>>
      BY <1>11 DEF Second, listproc, mails
    <2>2. Kinds1 BY <1>2, <1>3, <2>1
    <2> QED BY <1>4, <2>1, <2>2 DEF StartedOK, At
  <1> QED BY <1>5, <1>6, <1>7, <1>8, <1>9, <1>10, <1>11 DEF Step, HoldList, FreeList


\* The stages of a list process: it comes to a count, reads it, empties the file,
\* writes it, or does something else.
Comes(k) ==
  /\ proc[k].pc \in {"check", "next"} /\ proc'[k].pc = "inc"
  /\ UNCHANGED limits /\ since' \in {since, since + 1}
Reads(k) ==
  /\ proc[k].pc = "inc" /\ proc'[k].pc = "truncate"
  /\ UNCHANGED <<limits, since>> /\ (limits # Torn => proc'[k].n = limits.n)
Empties(k) ==
  /\ proc[k].pc = "truncate" /\ proc'[k].pc = "write" /\ proc'[k].n = proc[k].n
  /\ limits' = Torn /\ UNCHANGED since
Writes(k) ==
  /\ proc[k].pc = "write" /\ proc'[k].pc \in {"exit", "next"}
  /\ limits' = Entry(Incremented(proc[k]), proc[k].day) /\ UNCHANGED since
Elsewhere(k) ==
  /\ proc[k].pc \notin {"inc", "truncate", "write"} /\ proc'[k].pc \notin {"inc", "truncate", "write"}
  /\ UNCHANGED <<limits, since>> /\ (proc'[k].pc = "take" => PassCheck(k))

LEMMA ListStages ==
  ASSUME LimitKinds, StartedOK, NEW k \in Boxes, ListStep(k)
  PROVE  Comes(k) \/ Reads(k) \/ Empties(k) \/ Writes(k) \/ Elsewhere(k)
PROOF
  <1>1. proc \in [Boxes -> ProcKinds] BY DEF LimitKinds, ProcKinds
  <1>2. limits # NoFile BY ListMoves
  <1>3. ASSUME NEW c, NEW l, proc' = [proc EXCEPT ![k].pc = c, ![k].last = l] PROVE proc'[k].pc = c
    BY <1>1, <1>3 DEF ProcKinds
  <1>4. CASE Refuse(k)
    <2>1. proc' = [proc EXCEPT ![k].pc = "inc", ![k].last = TRUE] /\ proc[k].pc = "check"
          /\ UNCHANGED <<limits, since>>
      BY <1>4 DEF Refuse, At, limitsFile
    <2>2. proc'[k].pc = "inc" BY <1>3, <2>1
    <2> QED BY <2>1, <2>2 DEF Comes
  <1>12. CASE PassCheck(k)
    <2>1. proc' = [proc EXCEPT ![k].pc = "take"] /\ proc[k].pc = "check" /\ UNCHANGED <<limits, since>>
      BY <1>12 DEF PassCheck, PGoto, At, limitsFile
    <2>2. proc'[k].pc = "take" BY <1>1, <2>1 DEF ProcKinds
    <2> QED BY <1>12, <2>1, <2>2 DEF Elsewhere
  <1>5. CASE TakeMail(k)
    <2>1. proc' = [proc EXCEPT ![k].pc = "next", ![k].left = box[k]] /\ proc[k].pc = "take"
          /\ UNCHANGED <<limits, since>>
      BY <1>5 DEF TakeMail, At, limitsFile
    <2>2. proc'[k].pc = "next" BY <1>1, <2>1 DEF ProcKinds
    <2> QED BY <2>1, <2>2 DEF Elsewhere
  <1>6. CASE ProcessOne(k)
    <2>1. proc' = [proc EXCEPT ![k].pc = "inc", ![k].left = @ - 1] /\ proc[k].pc = "next"
          /\ UNCHANGED limits /\ since' = since + 1
      BY <1>6 DEF ProcessOne, At, limitsFile
    <2>2. proc'[k].pc = "inc" BY <1>1, <2>1 DEF ProcKinds
    <2> QED BY <2>1, <2>2 DEF Comes
  <1>7. CASE IncRead(k)
    <2>1. PICK n \in IF limits = Torn THEN Garbage ELSE {limits.n} :
            proc' = [proc EXCEPT ![k].pc = "truncate", ![k].n = n, ![k].day = day]
      BY <1>7 DEF IncRead
    <2>2. proc[k].pc = "inc" /\ UNCHANGED <<limits, since>> BY <1>7 DEF IncRead, At, limitsFile
    <2>3. proc'[k].pc = "truncate" /\ proc'[k].n = n BY <1>1, <2>1 DEF ProcKinds
    <2> QED BY <2>1, <2>2, <2>3 DEF Reads
  <1>8. CASE IncNothing(k) BY <1>2, <1>8 DEF IncNothing
  <1>9. CASE IncTruncate(k)
    <2>1. proc' = [proc EXCEPT ![k].pc = "write"] /\ proc[k].pc = "truncate" /\ limits' = Torn /\ UNCHANGED since
      BY <1>9 DEF IncTruncate, PGoto, At
    <2>2. proc'[k].pc = "write" /\ proc'[k].n = proc[k].n BY <1>1, <2>1 DEF ProcKinds
    <2> QED BY <2>1, <2>2 DEF Empties
  <1>10. CASE IncWrite(k)
    <2>1. /\ proc' = [proc EXCEPT ![k].pc = IF proc[k].last THEN "exit" ELSE "next"]
          /\ proc[k].pc = "write" /\ limits' = Entry(Incremented(proc[k]), proc[k].day) /\ UNCHANGED since
      BY <1>10 DEF IncWrite, PGoto, At
    <2>2. proc'[k].pc \in {"exit", "next"} BY <1>1, <2>1 DEF ProcKinds
    <2> QED BY <2>1, <2>2 DEF Writes
  <1>11. CASE EndList(k)
    <2>1. proc[k].pc \in {"exit", "next"} /\ proc'[k] = NoProcess /\ UNCHANGED <<limits, since>>
      BY <1>1, <1>11 DEF EndList, At, limitsFile
    <2>2. proc'[k].pc = None BY <2>1 DEF NoProcess
    <2> QED BY <2>1, <2>2, DailyLimitAssumption DEF Elsewhere
  <1> QED BY <1>4, <1>5, <1>6, <1>7, <1>8, <1>9, <1>10, <1>11, <1>12 DEF ListStep

\* What the steps of serverd and of listproc do to the count: nothing, or they
\* empty the file, or write a count that starts anew.
Untouched == UNCHANGED <<limits, since>>
OtherEmpties(w) == limits' = Torn /\ UNCHANGED since /\ w \in Changing'
OtherWrites(w)  == (\E d \in Nat : limits' = Entry(0, d)) /\ since' = 0 /\ w \in Changing

LEMMA ServerdChanges ==
  ASSUME LimitKinds, StartedOK, ServerdStep
  PROVE  /\ UNCHANGED lp
         /\ \/ Untouched /\ sv.pc # "write" /\ sv'.pc # "write"
            \/ OtherEmpties("serverd") /\ UNCHANGED proc
            \/ OtherWrites("serverd") /\ UNCHANGED proc
PROOF
  <1>1. sv \in SvKinds BY DEF LimitKinds, SvKinds
  <1>2. UNCHANGED lp BY ServerdMoves
  <1>3. ASSUME NEW k \in Boxes, Look(k) PROVE Untouched /\ sv.pc # "write" /\ sv'.pc # "write"
    BY <1>1, <1>3 DEF Look, Serverd, Untouched, limitsFile, SvKinds
  <1>4. CASE Read
    <2>1. PICK n, d : sv' = [sv EXCEPT !.pc = "stat", !.nmess = n, !.day = d] BY <1>4 DEF Read
    <2>2. sv'.pc = "stat" BY <1>1, <2>1 DEF SvKinds
    <2> QED BY <1>2, <1>4, <2>2 DEF Read, Serverd, Untouched, limitsFile
  <1>5. CASE Stat
    BY <1>1, <1>2, <1>5 DEF Stat, SGoto, Serverd, Untouched, SvKinds
  <1>6. CASE NewCount
    <2>1. sv'.pc = "write" BY <1>1, <1>6 DEF NewCount, SvKinds
    <2> QED BY <1>2, <1>6, <2>1 DEF NewCount, Serverd, OtherEmpties, Changing
  <1>7. CASE WriteNewCount
    <2>1. sv.day \in Nat BY <1>1 DEF SvKinds
    <2> QED BY <1>2, <1>7, <2>1 DEF WriteNewCount, Serverd, OtherWrites, Changing
  <1>8. CASE SameDay
    BY <1>1, <1>2, <1>8 DEF SameDay, SGoto, Serverd, Untouched, limitsFile, SvKinds
  <1>9. CASE Skip
    BY <1>1, <1>2, <1>9 DEF Skip, SGoto, Serverd, Untouched, limitsFile, SvKinds
  <1>10. CASE Spawn
    BY <1>1, <1>2, <1>10 DEF Spawn, SGoto, Untouched, limitsFile, SvKinds
  <1> QED BY <1>2, <1>3, <1>4, <1>5, <1>6, <1>7, <1>8, <1>9, <1>10 DEF ServerdStep

LEMMA ListprocChanges ==
  ASSUME LimitKinds, ListprocStep
  PROVE  /\ UNCHANGED <<sv, proc>>
         /\ \/ Untouched /\ lp.pc # "write" /\ lp'.pc # "write"
            \/ OtherEmpties("listproc")
            \/ OtherWrites("listproc")
PROOF
  <1>1. lp \in LpKinds /\ day \in Nat BY DailyLimitAssumption DEF LimitKinds, LpKinds
  <1>2. UNCHANGED <<sv, proc>> BY ListprocMoves
  <1>3. CASE Lock BY <1>1, <1>2, <1>3 DEF Lock, LGoto, Untouched, limitsFile, LpKinds
  <1>4. CASE PutHold BY <1>1, <1>2, <1>4 DEF PutHold, LGoto, Untouched, limitsFile, LpKinds
  <1>5. CASE RefuseFree BY <1>1, <1>2, <1>5 DEF RefuseFree, LGoto, Untouched, limitsFile, LpKinds
  <1>6. CASE Free
    <2>1. lp'.pc = "write" BY <1>1, <1>6 DEF Free, LGoto, LpKinds
    <2> QED BY <1>2, <1>6, <2>1 DEF Free, Listproc, OtherEmpties, Changing
  <1>7. CASE WriteFree
    BY <1>1, <1>2, <1>7 DEF WriteFree, Listproc, OtherWrites, Changing
  <1> QED BY <1>3, <1>4, <1>5, <1>6, <1>7 DEF ListprocStep

\* serverd starts a process for a mailbox at which there is none.
BusyOK == \A k \in Boxes : busy[k] <=> ~At(k, None)
FreeOK == sv.pc # "idle" => At(sv.kind, None)
TornOK == limits = Torn => Changing # {}

LEMMA FreeStep ==
  ASSUME LimitKinds, StartedOK, BusyOK, FreeOK, Step
  PROVE  BusyOK' /\ FreeOK'
PROOF
  <1>1. sv \in SvKinds /\ busy \in [Boxes -> BOOLEAN] /\ proc \in [Boxes -> ProcKinds]
    BY DEF LimitKinds, SvKinds, ProcKinds
  <1>2. ASSUME NEW k \in Boxes, Look(k) PROVE BusyOK' /\ FreeOK'
    <2>1. ~busy[k] /\ UNCHANGED <<busy, proc>> BY <1>2 DEF Look, Serverd
    <2>2. sv'.kind = k
      <3>1. PICK c : sv' = [sv EXCEPT !.pc = c, !.kind = k] BY <1>2 DEF Look
      <3> QED BY <1>1, <3>1 DEF SvKinds
    <2>3. BusyOK' BY <2>1 DEF BusyOK, At
    <2>4. At(k, None)' BY <2>1 DEF BusyOK, At
    <2> QED BY <2>2, <2>3, <2>4 DEF FreeOK, At
  <1>3. CASE Spawn
    <2>1. /\ busy' = [busy EXCEPT ![sv.kind] = TRUE] /\ proc' = [proc EXCEPT ![sv.kind].pc = "check"]
          /\ sv' = [sv EXCEPT !.pc = "idle"]
      BY <1>3 DEF Spawn, SGoto
    <2>2. sv'.pc = "idle" /\ sv.kind \in Boxes BY <1>1, <2>1 DEF SvKinds
    <2>3. proc'[sv.kind].pc = "check" /\ busy'[sv.kind] BY <1>1, <2>1, <2>2 DEF ProcKinds
    <2>4. \A j \in Boxes \ {sv.kind} : proc'[j] = proc[j] /\ busy'[j] = busy[j] BY <1>1, <2>1, <2>2
    <2>5. BusyOK' BY <2>3, <2>4, DailyLimitAssumption DEF BusyOK, At
    <2> QED BY <2>2, <2>5 DEF FreeOK
  <1>4. ASSUME UNCHANGED <<busy, proc>>, sv'.kind = sv.kind, sv'.pc # "idle" => sv.pc # "idle"
        PROVE  BusyOK' /\ FreeOK'
    BY <1>4 DEF BusyOK, FreeOK, At
  <1>5. CASE Read
    <2>1. PICK n, d : sv' = [sv EXCEPT !.pc = "stat", !.nmess = n, !.day = d] BY <1>5 DEF Read
    <2>2. sv'.kind = sv.kind /\ sv.pc # "idle" BY <1>1, <1>5, <2>1 DEF SvKinds, Read
    <2> QED BY <1>4, <1>5, <2>2 DEF Read, Serverd
  <1>6. CASE NewCount
    <2>1. sv'.kind = sv.kind /\ sv.pc # "idle" BY <1>1, <1>6 DEF SvKinds, NewCount
    <2> QED BY <1>4, <1>6, <2>1 DEF NewCount, Serverd
  <1>7. CASE Stat \/ WriteNewCount \/ SameDay \/ Skip
    <2>1. sv'.kind = sv.kind /\ sv.pc # "idle"
      BY <1>1, <1>7 DEF SvKinds, Stat, WriteNewCount, SameDay, Skip, SGoto
    <2>2. UNCHANGED <<busy, proc>> BY <1>7 DEF Stat, WriteNewCount, SameDay, Skip, Serverd
    <2> QED BY <1>4, <2>1, <2>2
  <1>8. CASE ListprocStep
    BY <1>4, <1>8, ListprocMoves
  <1>9. ASSUME NEW k \in Boxes, ListStep(k) PROVE BusyOK' /\ FreeOK'
    <2>1. /\ \A j \in Boxes \ {k} : proc'[j] = proc[j]
          /\ proc[k].pc # None /\ UNCHANGED sv
          /\ \/ proc'[k].pc = None /\ busy' = [busy EXCEPT ![k] = FALSE]
             \/ proc'[k].pc # None /\ busy' = busy
      BY <1>9, ListMoves
    <2>2. \A j \in Boxes \ {k} : busy'[j] = busy[j] BY <1>1, <2>1
    <2>3. busy'[k] <=> proc'[k].pc # None BY <1>1, <2>1 DEF BusyOK, At
    <2>4. BusyOK' BY <2>1, <2>2, <2>3 DEF BusyOK, At
    <2>5. sv.kind \in Boxes BY <1>1 DEF SvKinds
    <2>6. FreeOK' BY <2>1, <2>5 DEF FreeOK, At
    <2> QED BY <2>4, <2>6
  <1>10. ASSUME NEW op \in {"HOLD", "FREE"}, NEW s \in Askers, Ask(op, s) PROVE BusyOK' /\ FreeOK'
    BY <1>4, <1>10 DEF Ask
  <1>11. ASSUME NEW k \in Boxes, Arrive(k) PROVE BusyOK' /\ FreeOK'
    BY <1>4, <1>11 DEF Arrive
  <1>12. CASE Midnight \/ Second
    BY <1>4, <1>12 DEF Midnight, Second
  <1> QED BY <1>2, <1>3, <1>5, <1>6, <1>7, <1>8, <1>9, <1>10, <1>11, <1>12
    DEF Step, ServerdStep, HoldList, FreeList

\* What a step does to the count: somebody empties the file, or writes a count that
\* starts anew, or it is left alone, and perhaps a process is started.
Elsewise ==
  /\ \A j \in Boxes : proc'[j] = proc[j] \/ (proc[j].pc = None /\ proc'[j].pc = "check")
  /\ \/ Untouched /\ (sv.pc = "write" <=> sv'.pc = "write") /\ (lp.pc = "write" <=> lp'.pc = "write")
     \/ \E w \in {"serverd", "listproc"} : OtherEmpties(w) \/ OtherWrites(w)

LEMMA Changes ==
  ASSUME LimitKinds, StartedOK, FreeOK, Step
  PROVE  (\E k \in Boxes : ListStep(k)) \/ Elsewise
PROOF
  <1>1. sv \in SvKinds /\ lp \in LpKinds /\ proc \in [Boxes -> ProcKinds]
    BY DEF LimitKinds, SvKinds, LpKinds, ProcKinds
  <1>2. CASE ServerdStep
    <2>1. \A j \in Boxes : proc'[j] = proc[j] \/ (proc[j].pc = None /\ proc'[j].pc = "check")
      <3>1. CASE Spawn
        <4>1. proc' = [proc EXCEPT ![sv.kind].pc = "check"] /\ sv.pc = "decide" BY <1>2, <3>1 DEF Spawn
        <4>2. proc[sv.kind].pc = None /\ sv.kind \in Boxes BY <1>1, <4>1 DEF FreeOK, At, SvKinds
        <4>3. proc'[sv.kind].pc = "check" BY <1>1, <4>1, <4>2 DEF ProcKinds
        <4> QED BY <1>1, <4>1, <4>2, <4>3
      <3>2. CASE ~Spawn
        BY <1>2, <3>2 DEF ServerdStep, Look, Read, Stat, NewCount, WriteNewCount, SameDay, Skip, Serverd
      <3> QED BY <3>1, <3>2
    <2> QED BY <1>2, <2>1, ServerdChanges DEF Elsewise
  <1>3. CASE ListprocStep
    BY <1>3, ListprocChanges DEF Elsewise
  <1>4. ASSUME NEW op \in {"HOLD", "FREE"}, NEW s \in Askers, Ask(op, s) PROVE Elsewise
    BY <1>4 DEF Ask, Elsewise, Untouched, limitsFile
  <1>5. CASE Midnight \/ Second \/ \E k \in Boxes : Arrive(k)
    BY <1>5 DEF Midnight, Second, Arrive, Elsewise, Untouched, limitsFile, listproc
  <1> QED BY <1>2, <1>3, <1>4, <1>5 DEF Step, HoldList, FreeList

\* Two in the middle of a change of the file are a race.
LEMMA OneChanges ==
  ASSUME NEW S, IsFiniteSet(S), Cardinality(S) <= 1, NEW x \in S, NEW y \in S
  PROVE  x = y
PROOF
  <1> SUFFICES ASSUME x # y PROVE FALSE
    OBVIOUS
  <1>1. Cardinality(S \ {x}) = Cardinality(S) - 1 /\ IsFiniteSet(S \ {x}) BY FS_RemoveElement
  <1>2. y \in S \ {x} OBVIOUS
  <1>3. Cardinality(S \ {x}) = 0 \/ Cardinality(S \ {x}) < 0
    <2>1. Cardinality(S) \in Nat BY FS_CardinalityType
    <2> QED BY <1>1, <2>1
  <1>4. Cardinality(S \ {x}) \in Nat BY <1>1, FS_CardinalityType
  <1>5. S \ {x} = {} BY <1>1, <1>3, <1>4, FS_EmptySet
  <1> QED BY <1>2, <1>5

\* As long as there was no race, at most one process is in the middle of changing the
\* file, and it has the count that is in the file, or was: with those that are still
\* counting it covers the messages since the reset.
Covers(n) == n = MaxCount \/ since <= n + Cardinality(Counting)
CountOK ==
  ~raced =>
    /\ Cardinality(Changing) <= 1
    /\ limits \notin {NoFile, Torn} => Covers(limits.n)
    /\ \A k \in Boxes : At(k, "truncate") => limits \notin {NoFile, Torn} /\ limits.n = proc[k].n
    /\ \A k \in Boxes : At(k, "write") => Covers(proc[k].n)

\* Who is past the check goes on with fewer messages than the ceiling, but for
\* those it could not see.
CheckedOK ==
  ~raced => \A k \in Boxes : At(k, "take") /\ ~checked[k].blind => since < MaxMessages + checked[k].unseen

LimitInv == LimitKinds /\ StartedOK /\ BusyOK /\ FreeOK /\ TornOK /\ CountOK /\ CheckedOK

\* Who is changing the file, before and after a step of a list process.
LEMMA InChanging ==
  ASSUME NEW k \in Boxes
  PROVE  /\ k \in Changing <=> proc[k].pc \in {"truncate", "write"}
         /\ (k \in Changing)' <=> proc'[k].pc \in {"truncate", "write"}
         /\ k \in Counting <=> proc[k].pc \in {"inc", "truncate", "write"}
         /\ (k \in Counting)' <=> proc'[k].pc \in {"inc", "truncate", "write"}
  BY DEF Changing, Counting, Boxes

LEMMA TornStep ==
  ASSUME LimitKinds, StartedOK, FreeOK, TornOK, Step
  PROVE  TornOK'
PROOF
  <1> SUFFICES ASSUME limits' = Torn PROVE Changing' # {}
    BY DEF TornOK
  <1>1. ASSUME NEW n, NEW d, n \in Nat, d \in Nat PROVE Entry(n, d) # Torn
    BY <1>1, DailyLimitAssumption DEF Entry
  <1>2. ASSUME NEW k \in Boxes, ListStep(k) PROVE Changing' # {}
    <2>1. /\ \A j \in Boxes \ {k} : proc'[j] = proc[j]
          /\ UNCHANGED <<sv, lp>>
      BY <1>2, ListMoves
    <2>2. CASE Empties(k) BY <2>2, InChanging DEF Empties
    <2>3. CASE Writes(k)
      <3>1. Incremented(proc[k]) \in Nat /\ proc[k].day \in Nat
        BY DailyLimitAssumption DEF Incremented, LimitKinds, Counts, MaxCount
      <3> QED BY <1>1, <2>3, <3>1 DEF Writes
    <2>4. CASE Comes(k) \/ Reads(k) \/ Elsewhere(k)
      <3>1. limits = Torn /\ proc[k].pc \notin {"truncate", "write"} BY <2>4 DEF Comes, Reads, Elsewhere
      <3>2. PICK w : w \in Changing BY <3>1 DEF TornOK
      <3>3. w # k BY <3>1, <3>2, InChanging
      <3>4. w \in Changing' BY <2>1, <3>2, <3>3 DEF Changing
      <3> QED BY <3>4
    <2> QED BY <1>2, <2>2, <2>3, <2>4, ListStages
  <1>3. CASE Elsewise
    <2>1. CASE Untouched /\ (sv.pc = "write" <=> sv'.pc = "write") /\ (lp.pc = "write" <=> lp'.pc = "write")
      <3>1. PICK w : w \in Changing BY <2>1 DEF TornOK, Untouched
      <3>2. w \in Changing'
        BY <1>3, <2>1, <3>1, DailyLimitAssumption DEF Elsewise, Changing
      <3> QED BY <3>2
    <2>2. ASSUME NEW w, OtherEmpties(w) PROVE Changing' # {} BY <2>2 DEF OtherEmpties
    <2>3. ASSUME NEW w, OtherWrites(w) PROVE FALSE BY <1>1, <2>3 DEF OtherWrites
    <2> QED BY <1>3, <2>1, <2>2, <2>3 DEF Elsewise
  <1> QED BY <1>2, <1>3, Changes

LEMMA CountListStep ==
  ASSUME LimitInv, LimitKinds', NEW k \in Boxes, ListStep(k), Watch
  PROVE  CountOK'
PROOF
  <1> SUFFICES ASSUME ~raced' PROVE CountOK'
    BY DEF CountOK
  <1>1. /\ ~raced /\ Cardinality(Changing') <= 1 /\ Cardinality(Changing) <= 1
        /\ limits \notin {NoFile, Torn} => Covers(limits.n)
        /\ \A j \in Boxes : At(j, "truncate") => limits \notin {NoFile, Torn} /\ limits.n = proc[j].n
        /\ \A j \in Boxes : At(j, "write") => Covers(proc[j].n)
    <2>1. ~raced /\ ~(Cardinality(Changing') > 1) BY DEF Watch, LimitInv, LimitKinds
    <2>2. (Cardinality(Changing) \in Nat)' BY ChangingFinite, PTL
    <2>3. Cardinality(Changing') <= 1 BY <2>1, <2>2
    <2> QED BY <2>1, <2>3 DEF LimitInv, CountOK
  <1>2. /\ IsFiniteSet(Counting) /\ Cardinality(Counting) \in Nat /\ IsFiniteSet(Changing)
        /\ (IsFiniteSet(Counting) /\ Cardinality(Counting) \in Nat /\ IsFiniteSet(Changing))'
    BY ChangingFinite, PTL
  <1>3. /\ \A j \in Boxes \ {k} : proc'[j] = proc[j]
        /\ UNCHANGED <<sv, lp>> /\ limits # NoFile
    BY ListMoves DEF LimitInv
  <1>4. ASSUME NEW j \in Boxes, j # k, j \in Changing, k \in Changing PROVE FALSE
    BY <1>1, <1>2, <1>4, OneChanges
  <1>5. ASSUME NEW j \in Boxes, j # k, (j \in Changing)', (k \in Changing)' PROVE FALSE
    BY <1>1, <1>2, <1>5, OneChanges
  <1>6. since \in Nat /\ MaxCount \in Nat BY DailyLimitAssumption DEF LimitInv, LimitKinds, MaxCount
  <1>7. \A j \in Boxes \ {k} : (j \in Counting)' <=> j \in Counting BY <1>3, InChanging
  <1>8. Counting \subseteq Boxes /\ Counting' \subseteq Boxes BY DEF Counting
  <1>9. \A j \in Boxes : proc[j].n \in Nat
    BY DEF LimitInv, LimitKinds, Counts, MaxCount
  <1>10. limits \notin {NoFile, Torn} => limits.n \in Nat
    BY DEF LimitInv, LimitKinds, Counts, MaxCount
  <1> DEFINE Later(n) == n = MaxCount \/ since' <= n + Cardinality(Counting')
  <1>11. SUFFICES /\ limits' \notin {NoFile, Torn} => Later(limits'.n)
                  /\ \A j \in Boxes : proc'[j].pc = "truncate" =>
                                        limits' \notin {NoFile, Torn} /\ limits'.n = proc'[j].n
                  /\ \A j \in Boxes : proc'[j].pc = "write" => Later(proc'[j].n)
    BY <1>1 DEF CountOK, Covers, At, MaxCount
  <1>12. CASE Comes(k)
    <2>1. k \notin Counting /\ k \in Counting' BY <1>12, InChanging DEF Comes
    <2>2. Counting' = Counting \cup {k} BY <1>7, <1>8, <2>1
    <2>3. Cardinality(Counting') = Cardinality(Counting) + 1 BY <1>2, <2>1, <2>2, FS_AddElement
    <2>4. since' \in {since, since + 1} /\ UNCHANGED limits /\ proc'[k].pc = "inc" BY <1>12 DEF Comes
    <2>5. ASSUME NEW n \in Nat, Covers(n) PROVE Later(n) BY <1>2, <1>6, <2>3, <2>4, <2>5 DEF Covers
    <2>6. \A j \in Boxes : proc'[j].pc \in {"truncate", "write"} => proc'[j] = proc[j]
      BY <1>3, <2>4
    <2> QED BY <1>1, <1>9, <1>10, <2>4, <2>5, <2>6 DEF At
  <1>13. CASE Reads(k)
    <2>1. k \in Counting /\ k \in Counting' BY <1>13, InChanging DEF Reads
    <2>2. Counting' = Counting BY <1>7, <1>8, <2>1
    <2>3. /\ UNCHANGED <<limits, since>> /\ (limits # Torn => proc'[k].n = limits.n)
          /\ proc[k].pc = "inc" /\ proc'[k].pc = "truncate"
      BY <1>13 DEF Reads
    <2>4. k \in Changing' BY <2>3, InChanging
    <2>5. limits # Torn
      <3> SUFFICES ASSUME limits = Torn PROVE FALSE
        OBVIOUS
      <3>1. PICK w : w \in Changing BY DEF LimitInv, TornOK
      <3>2. k \notin Changing BY <2>3, InChanging
      <3>3. w # k /\ w \in Changing' BY <1>3, <3>1, <3>2 DEF Changing
      <3> QED BY <1>1, <1>2, <2>4, <3>3, OneChanges
    <2>6. \A j \in Boxes \ {k} : proc'[j] = proc[j] BY <1>3
    <2> QED BY <1>1, <1>3, <2>2, <2>3, <2>5, <2>6 DEF At, Covers
  <1>14. CASE Empties(k)
    <2>1. k \in Counting /\ k \in Counting' /\ k \in Changing' BY <1>14, InChanging DEF Empties
    <2>2. Counting' = Counting BY <1>7, <1>8, <2>1
    <2>3. /\ limits' = Torn /\ since' = since /\ proc'[k].n = proc[k].n
          /\ proc[k].pc = "truncate" /\ proc'[k].pc = "write"
      BY <1>14 DEF Empties
    <2>4. Covers(proc[k].n) BY <1>1, <2>3 DEF At
    <2>5. \A j \in Boxes : proc'[j].pc \in {"truncate", "write"} => j = k BY <1>5, <2>1, InChanging
    <2> QED BY <2>2, <2>3, <2>4, <2>5 DEF Covers
  <1>15. CASE Writes(k)
    <2>1. k \in Counting /\ k \notin Counting' /\ k \in Changing BY <1>15, InChanging DEF Writes
    <2>2. Counting' = Counting \ {k} BY <1>7, <1>8, <2>1
    <2>3. Cardinality(Counting') = Cardinality(Counting) - 1 BY <1>2, <2>1, <2>2, FS_RemoveElement
    <2>4. /\ limits' = Entry(Incremented(proc[k]), proc[k].day) /\ since' = since
          /\ proc[k].pc = "write" /\ proc'[k].pc \in {"exit", "next"}
      BY <1>15 DEF Writes
    <2>5. Covers(proc[k].n) BY <1>1, <2>4 DEF At
    <2>6. Later(Incremented(proc[k])) BY <1>2, <1>6, <1>9, <2>3, <2>4, <2>5 DEF Covers, Incremented
    <2>7. limits'.n = Incremented(proc[k]) BY <2>4 DEF Entry
    <2>8. \A j \in Boxes : proc'[j].pc \notin {"truncate", "write"}
      BY <1>3, <1>4, <2>1, <2>4, InChanging
    <2> QED BY <2>6, <2>7, <2>8
  <1>16. CASE Elsewhere(k)
    <2>1. k \notin Counting /\ k \notin Counting' BY <1>16, InChanging DEF Elsewhere
    <2>2. Counting' = Counting BY <1>7, <1>8, <2>1
    <2>3. /\ UNCHANGED <<limits, since>> /\ proc'[k].pc \notin {"inc", "truncate", "write"}
      BY <1>16 DEF Elsewhere
    <2> QED BY <1>1, <1>3, <2>2, <2>3 DEF At, Covers
  <1> QED BY <1>12, <1>13, <1>14, <1>15, <1>16, ListStages DEF LimitInv

LEMMA CountOtherStep ==
  ASSUME LimitInv, Elsewise, Watch
  PROVE  CountOK'
PROOF
  <1> SUFFICES ASSUME ~raced' PROVE CountOK'
    BY DEF CountOK
  <1>1. /\ ~raced /\ Cardinality(Changing') <= 1 /\ Cardinality(Changing) <= 1
        /\ limits \notin {NoFile, Torn} => Covers(limits.n)
        /\ \A j \in Boxes : At(j, "truncate") => limits \notin {NoFile, Torn} /\ limits.n = proc[j].n
        /\ \A j \in Boxes : At(j, "write") => Covers(proc[j].n)
    <2>1. ~raced /\ ~(Cardinality(Changing') > 1) BY DEF Watch, LimitInv, LimitKinds
    <2>2. (Cardinality(Changing) \in Nat)' BY ChangingFinite, PTL
    <2>3. Cardinality(Changing') <= 1 BY <2>1, <2>2
    <2> QED BY <2>1, <2>3 DEF LimitInv, CountOK
  <1>2. /\ Cardinality(Counting) \in Nat /\ IsFiniteSet(Changing)
        /\ (Cardinality(Counting) \in Nat /\ IsFiniteSet(Changing))'
    BY ChangingFinite, PTL
  <1>3. \A j \in Boxes : proc'[j].pc \in {"inc", "truncate", "write"}
                           \/ proc[j].pc \in {"inc", "truncate", "write"} => proc'[j] = proc[j]
    BY DailyLimitAssumption DEF Elsewise
  <1>4. Counting' = Counting BY <1>3 DEF Counting
  <1>5. since \in Nat /\ MaxCount \in Nat BY DailyLimitAssumption DEF LimitInv, LimitKinds, MaxCount
  <1> DEFINE Later(n) == n = MaxCount \/ since' <= n + Cardinality(Counting')
  <1>6. SUFFICES /\ limits' \notin {NoFile, Torn} => Later(limits'.n)
                 /\ \A j \in Boxes : proc'[j].pc = "truncate" =>
                                       limits' \notin {NoFile, Torn} /\ limits'.n = proc'[j].n
                 /\ \A j \in Boxes : proc'[j].pc = "write" => Later(proc'[j].n)
    BY <1>1 DEF CountOK, Covers, At, MaxCount
  <1>7. CASE Untouched
    BY <1>1, <1>3, <1>4, <1>7 DEF Untouched, At, Covers
  <1>8. ASSUME NEW w \in {"serverd", "listproc"}, OtherEmpties(w)
        PROVE  \A j \in Boxes : proc'[j].pc \notin {"truncate", "write"}
    <2> SUFFICES ASSUME NEW j \in Boxes, proc'[j].pc \in {"truncate", "write"} PROVE FALSE
      OBVIOUS
    <2>1. j \in Changing' BY InChanging
    <2>2. w \in Changing' /\ w # j BY <1>8 DEF OtherEmpties, Boxes
    <2> QED BY <1>1, <1>2, <2>1, <2>2, OneChanges
  <1>9. ASSUME NEW w \in {"serverd", "listproc"}, OtherWrites(w)
        PROVE  /\ \A j \in Boxes : proc'[j].pc \notin {"truncate", "write"}
               /\ limits'.n = 0 /\ Later(0)
    <2>1. limits'.n = 0 /\ since' = 0 BY <1>9 DEF OtherWrites, Entry
    <2>2. Later(0) BY <1>2, <1>4, <2>1
    <2>3. ASSUME NEW j \in Boxes, proc'[j].pc \in {"truncate", "write"} PROVE FALSE
      <3>1. proc[j].pc \in {"truncate", "write"} BY <1>3, <2>3
      <3>2. j \in Changing BY <3>1, InChanging
      <3>3. w \in Changing /\ w # j BY <1>9 DEF OtherWrites, Boxes
      <3> QED BY <1>1, <1>2, <3>2, <3>3, OneChanges
    <2> QED BY <2>1, <2>2, <2>3
  <1>10. CASE \E w \in {"serverd", "listproc"} : OtherEmpties(w)
    BY <1>8, <1>10 DEF OtherEmpties
  <1>11. CASE \E w \in {"serverd", "listproc"} : OtherWrites(w)
    BY <1>9, <1>11
  <1> QED BY <1>7, <1>10, <1>11 DEF Elsewise

LEMMA LockMiddle ==
  ASSUME LimitKinds, StartedOK, Step,
         sv.pc = "write" <=> misc = "serverd", lp.pc \in {"act", "write"} <=> misc = "listproc"
  PROVE  /\ sv'.pc = "write" <=> misc' = "serverd"
         /\ lp'.pc \in {"act", "write"} <=> misc' = "listproc"
PROOF
  <1>1. sv \in SvKinds /\ lp \in LpKinds /\ misc \in {"serverd", "listproc", None}
        /\ None # "serverd" /\ None # "listproc"
    BY DailyLimitAssumption DEF LimitKinds, SvKinds, LpKinds
  <1>2. ASSUME NEW k \in Boxes, Look(k) PROVE sv.pc = "idle" /\ sv'.pc # "write" /\ UNCHANGED <<lp, misc>>
    BY <1>1, <1>2 DEF Look, Serverd, listproc, SvKinds
  <1>3. CASE Read
    <2>1. PICK n, d : sv' = [sv EXCEPT !.pc = "stat", !.nmess = n, !.day = d] BY <1>3 DEF Read
    <2>2. sv'.pc # "write" BY <1>1, <2>1 DEF SvKinds
    <2> QED BY <1>3, <2>2 DEF Read, Serverd, listproc
  <1>4. CASE Stat \/ SameDay \/ Skip
    <2>1. sv.pc # "write" /\ sv'.pc # "write"
      BY <1>1, <1>4 DEF Stat, SameDay, Skip, SGoto, SvKinds
    <2> QED BY <1>4, <2>1 DEF Stat, SameDay, Skip, Serverd, listproc
  <1>5. CASE NewCount
    <2>1. sv'.pc = "write" /\ misc = None /\ misc' = "serverd" /\ UNCHANGED lp
      BY <1>1, <1>5 DEF NewCount, Serverd, listproc, SvKinds
    <2> QED BY <1>1, <2>1
  <1>6. CASE WriteNewCount
    <2>1. sv.pc = "write" /\ sv'.pc = "decide" /\ misc' = None /\ UNCHANGED lp
      BY <1>1, <1>6 DEF WriteNewCount, SGoto, Serverd, listproc, SvKinds
    <2> QED BY <1>1, <2>1
  <1>7. CASE Spawn
    <2>1. sv.pc = "decide" /\ sv'.pc = "idle" /\ UNCHANGED <<misc, lp>>
      BY <1>1, <1>7 DEF Spawn, SGoto, listproc, SvKinds
    <2> QED BY <2>1
  <1>8. CASE Lock
    <2>1. lp'.pc = "act" /\ misc = None /\ misc' = "listproc" /\ UNCHANGED sv
      BY <1>1, <1>8 DEF Lock, LGoto, Listproc, LpKinds
    <2> QED BY <1>1, <2>1
  <1>9. CASE PutHold \/ RefuseFree \/ WriteFree
    <2>1. lp.pc \in {"act", "write"} /\ lp'.pc = "idle" /\ misc' = None /\ UNCHANGED sv
      BY <1>1, <1>9 DEF PutHold, RefuseFree, WriteFree, LGoto, Listproc, LpKinds
    <2> QED BY <1>1, <2>1
  <1>10. CASE Free
    <2>1. lp.pc = "act" /\ lp'.pc = "write" /\ UNCHANGED <<misc, sv>>
      BY <1>1, <1>10 DEF Free, LGoto, Listproc, LpKinds
    <2> QED BY <2>1
  <1>11. ASSUME NEW op \in {"HOLD", "FREE"}, NEW s \in Askers, Ask(op, s)
         PROVE  lp.pc = "idle" /\ lp'.pc = "lock" /\ UNCHANGED <<misc, sv>>
    BY <1>11 DEF Ask
  <1>12. ASSUME NEW k \in Boxes, ListStep(k) PROVE UNCHANGED <<misc, sv, lp>>
    BY <1>12, ListMoves
  <1>13. CASE Midnight \/ Second \/ \E k \in Boxes : Arrive(k)
    BY <1>13 DEF Midnight, Second, Arrive, listproc
  <1> QED BY <1>2, <1>3, <1>4, <1>5, <1>6, <1>7, <1>8, <1>9, <1>10, <1>11, <1>12, <1>13
    DEF Step, ServerdStep, ListprocStep, HoldList, FreeList

\* When the check is passed the count in the file covers what was processed.
LEMMA LimitSafe ==
  ASSUME LimitInv, NEW k \in Boxes, PassCheck(k), ~raced, limits # Torn
  PROVE  since < MaxMessages + Cardinality(Counting)
PROOF
  <1>1. limits # NoFile
    BY DailyLimitAssumption DEF LimitInv, StartedOK, PassCheck, At
  <1>2. limits.n \in Nat /\ since \in Nat BY <1>1 DEF LimitInv, LimitKinds, Counts, MaxCount
  <1>3. limits.n < MaxMessages BY <1>1, <1>2, DailyLimitAssumption DEF PassCheck, LimitReached
  <1>4. limits.n # MaxCount BY <1>3, DailyLimitAssumption DEF MaxCount
  <1>5. since <= limits.n + Cardinality(Counting) BY <1>1, <1>4 DEF LimitInv, CountOK, Covers
  <1>6. Cardinality(Counting) \in Nat BY ChangingFinite
  <1> QED BY <1>2, <1>3, <1>5, <1>6, DailyLimitAssumption

\* Between the check and the move the other process may begin messages, or the
\* count may start anew.
LEMMA Past ==
  ASSUME LimitKinds, StartedOK, FreeOK, Step, NEW k \in Boxes, proc'[k].pc = "take"
  PROVE  \/ PassCheck(k) /\ proc[k].pc = "check" /\ UNCHANGED since
         \/ proc[k].pc = "take" /\ since' \in {since, since + 1, 0}
PROOF
  <1>1. CASE Elsewise
    BY <1>1 DEF Elsewise, Untouched, OtherEmpties, OtherWrites
  <1>2. ASSUME NEW j \in Boxes, ListStep(j), j # k PROVE proc[k].pc = "take" /\ since' \in {since, since + 1}
    <2>1. proc'[k] = proc[k] BY <1>2, ListMoves
    <2> QED BY <1>2, <2>1, ListStages DEF Comes, Reads, Empties, Writes, Elsewhere
  <1>3. ASSUME ListStep(k) PROVE PassCheck(k) /\ proc[k].pc = "check" /\ UNCHANGED since
    <2>1. PassCheck(k) /\ UNCHANGED since
      BY <1>3, ListStages DEF Comes, Reads, Empties, Writes, Elsewhere
    <2> QED BY <2>1 DEF PassCheck, At
  <1> QED BY <1>1, <1>2, <1>3, Changes

LEMMA CheckedStep ==
  ASSUME LimitInv, Step, Watch
  PROVE  CheckedOK'
PROOF
  <1> SUFFICES ASSUME ~raced', NEW k \in Boxes, proc'[k].pc = "take", ~checked'[k].blind
               PROVE  since' < MaxMessages + checked'[k].unseen
    BY DEF CheckedOK, At
  <1>1. ~raced BY DEF Watch
  <1>2. checked'[k] = CheckedBy(k) BY DEF Watch
  <1>3. since \in Nat /\ checked[k] \in CheckKinds BY DEF LimitInv, LimitKinds, CheckKinds
  <1>4. CASE PassCheck(k) /\ proc[k].pc = "check" /\ UNCHANGED since
    <2>1. checked'[k] = [blind |-> limits = Torn, unseen |-> Cardinality(Counting)]
      BY <1>2, <1>4 DEF CheckedBy
    <2>2. limits # Torn /\ checked'[k].unseen = Cardinality(Counting)
      <3>1. checked'[k].blind = (limits = Torn) BY <2>1
      <3>2. checked'[k].unseen = Cardinality(Counting) BY <2>1
      <3> QED BY <3>1, <3>2
    <2>3. since < MaxMessages + Cardinality(Counting) BY <1>1, <1>4, <2>2, LimitSafe
    <2> QED BY <1>4, <2>2, <2>3
  <1>5. CASE proc[k].pc = "take" /\ since' \in {since, since + 1, 0}
    <2>1. checked'[k] = [checked[k] EXCEPT !.unseen = IF since' > since THEN @ + 1 ELSE @]
      BY <1>2, <1>5 DEF CheckedBy
    <2>2. checked'[k].blind = checked[k].blind /\ checked[k].unseen \in Nat BY <1>3, <2>1 DEF CheckKinds
    <2>3. checked'[k].unseen = IF since' > since THEN checked[k].unseen + 1 ELSE checked[k].unseen
      BY <1>3, <2>1 DEF CheckKinds
    <2>4. since < MaxMessages + checked[k].unseen BY <1>1, <1>5, <2>2 DEF LimitInv, CheckedOK, At
    <2> QED BY <1>3, <1>5, <2>2, <2>3, <2>4, DailyLimitAssumption
  <1> QED BY <1>4, <1>5, Past DEF LimitInv

LEMMA LimitStart == LInit => LimitInv /\ LTypeOK
PROOF
  <1> SUFFICES ASSUME LInit PROVE LimitInv /\ LTypeOK
    OBVIOUS
  <1>1. NoProcess \in ProcKinds /\ 0 \in 0..day /\ 0 \in Counts
    BY DailyLimitAssumption DEF LInit, NoProcess, ProcKinds, Counts, MaxCount
  <1>2. sv \in SvKinds /\ lp \in LpKinds /\ limits \in LimitsKinds \ {Torn}
    BY <1>1, DailyLimitAssumption DEF LInit, SvKinds, LpKinds, LimitsKinds, Places, Boxes, Askers, Entry, Counts
  <1>3. proc \in [Boxes -> ProcKinds] /\ \A k \in Boxes : proc[k].pc = None /\ ~busy[k]
    BY <1>1 DEF LInit, NoProcess
  <1>4. LimitKinds
    <2>1. /\ day \in 1..MaxDays /\ arrived \in 0..MaxArrivals /\ asked \in 0..MaxRequests /\ since \in Nat
      BY DailyLimitAssumption DEF LInit
    <2>2. /\ box \in [Boxes -> Nat] /\ busy \in [Boxes -> BOOLEAN] /\ changed \in BOOLEAN
          /\ raced \in BOOLEAN /\ fresh \in SUBSET {"file", "serverd"}
          /\ checked \in [Boxes -> [blind : BOOLEAN, unseen : Nat]]
      BY DEF LInit, Unchecked
    <2>3. holdf \in Askers \cup {None} /\ misc \in {"serverd", "listproc", None} BY DEF LInit
    <2> QED BY <1>2, <1>3, <2>1, <2>2, <2>3 DEF LimitKinds, SvKinds, LpKinds, LimitsKinds, ProcKinds
  <1>5. StartedOK BY <1>3 DEF LInit, StartedOK, At
  <1>6. BusyOK /\ FreeOK /\ TornOK BY <1>2, <1>3 DEF LInit, BusyOK, FreeOK, TornOK, At
  <1>7. Changing = {} BY <1>3, DailyLimitAssumption DEF Changing, LInit
  <1>8. CountOK
    <2>1. Cardinality(Changing) = 0 BY <1>7, FS_EmptySet
    <2>2. limits # NoFile => limits = Entry(0, 0) BY DEF LInit
    <2>3. limits # NoFile => Covers(limits.n)
      <3>1. Cardinality(Counting) \in Nat BY ChangingFinite
      <3> QED BY <2>2, <3>1 DEF Covers, Entry, LInit
    <2> QED BY <1>3, <2>1, <2>3, DailyLimitAssumption DEF CountOK, At
  <1>9. (sv.pc = "write" <=> misc = "serverd") /\ (lp.pc \in {"act", "write"} <=> misc = "listproc")
    BY DailyLimitAssumption DEF LInit
  <1>10. CheckedOK BY <1>3, DailyLimitAssumption DEF CheckedOK, At
  <1> QED BY <1>4, <1>5, <1>6, <1>8, <1>9, <1>10 DEF LimitInv, LTypeOK, InTheMiddle, BusyOK, TornOK

LEMMA LimitStep ==
  LimitInv /\ LTypeOK /\ [LNext]_lvars => LimitInv' /\ LTypeOK'
PROOF
  <1> SUFFICES ASSUME LimitInv, LTypeOK, [LNext]_lvars PROVE LimitInv' /\ LTypeOK'
    OBVIOUS
  <1>1. CASE LNext
    <2>1. Step /\ Watch BY <1>1 DEF LNext
    <2>2. LimitKinds' /\ StartedOK' BY <2>1, LimitKindsStep DEF LimitInv
    <2>3. BusyOK' /\ FreeOK' BY <2>1, FreeStep DEF LimitInv
    <2>4. TornOK' BY <2>1, TornStep DEF LimitInv
    <2>5. CountOK' BY <2>1, <2>2, CountListStep, CountOtherStep, Changes DEF LimitInv
    <2>6. (sv'.pc = "write" <=> misc' = "serverd") /\ (lp'.pc \in {"act", "write"} <=> misc' = "listproc")
      BY <2>1, LockMiddle DEF LimitInv, LTypeOK, InTheMiddle
    <2>7. CheckedOK' BY <2>1, CheckedStep
    <2> QED BY <2>2, <2>3, <2>4, <2>5, <2>6, <2>7 DEF LimitInv, LTypeOK, InTheMiddle, BusyOK, TornOK
  <1>2. CASE UNCHANGED lvars
    BY <1>2 DEF lvars, mails, limitsFile, listproc, LimitInv, LimitKinds, StartedOK, BusyOK, FreeOK, TornOK,
      CountOK, CheckedOK, Covers, Changing, Counting, At, LTypeOK, InTheMiddle
  <1> QED BY <1>1, <1>2

\* The values of the variables of DailyLimit, and who has the lock or has emptied
\* the file (READ_LIMITSF, inc_message_limit, hold_free).
THEOREM LimitTyping == LSpec => []LTypeOK
PROOF
  <1>1. LInit => LimitInv /\ LTypeOK BY LimitStart
  <1>2. LimitInv /\ LTypeOK /\ [LNext]_lvars => LimitInv' /\ LTypeOK' BY LimitStep
  <1> QED BY <1>1, <1>2, PTL DEF LSpec

\* The ceiling, for every number of messages, days and requests: a batch is begun
\* only below it (check_message_limit), but for the messages its check could not
\* see, and unless it found the file just emptied or two processes have changed it
\* at once.
THEOREM LimitCeiling == LSpec => CeilingKept
PROOF
  <1>1. LInit => LimitInv /\ LTypeOK BY LimitStart
  <1>2. LimitInv /\ LTypeOK /\ [LNext]_lvars => LimitInv' /\ LTypeOK' BY LimitStep
  <1>3. LimitInv => [\A k \in Boxes : TakeMail(k) /\ ~raced /\ ~checked[k].blind
                                        => since < MaxMessages + checked[k].unseen]_lvars
    BY DEF LimitInv, CheckedOK, TakeMail
  <1> QED BY <1>1, <1>2, <1>3, PTL DEF LSpec, CeilingKept
=============================================================================

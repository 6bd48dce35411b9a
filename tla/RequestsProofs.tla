--------------------------- MODULE RequestsProofs ---------------------------
(***************************************************************************)
(* Theorems about what listproc serves: about Requests, for any set of     *)
(* messages, any number of threads and any number of disturbances; and, in *)
(* the second part, about FileUpdates, for any files, subscribers,         *)
(* requests and deliveries.                                                *)
(***************************************************************************)
EXTENDS Requests, FileUpdates, TotalsProofs, SequenceTheorems, FunctionTheorems

\* The lock is held by the process that has copied its file and not emptied it
\* yet; nobody has added to the file since.
LockOK ==
  /\ \A p \in Pids : Alive(p, "copied") <=> lock = p
  /\ lock # Nobody => work[lock] = File(child[lock].kind)

\* Only a process for requests takes a file, and one for the batch file has one.
FileOK ==
  \A p \in Pids : Exists(p) =>
    /\ child[p].st \in {"start", "take", "copied"} => child[p].kind \in {"requests", "batch"}
    /\ child[p].kind = "batch" => batch # NoFile

\* Only a process that copies or runs has a mail copy.
WorkOK == \A p \in Pids : work[p] # <<>> => Alive(p, "copied") \/ Alive(p, "run")

\* A request is in one place once it is sent, and nowhere before.
Placed(m) ==
  IF m \in sent THEN Copies(m) = 1 \/ (killed /\ Copies(m) = 0) ELSE Copies(m) = 0

InPlace == \A m \in Messages : Placed(m)

\* No slot, in use or behind those in use, holds the result of a failed fork.
TableOK == up /\ forkFails = 0 => \A i \in Slots : thread[i] # Failed

\* The inductive invariant.
IInv == LockOK /\ FileOK /\ WorkOK /\ InPlace /\ TableOK /\ Tracked

-----------------------------------------------------------------------------
(* Types *)

LEMMA ProcessFields ==
    ASSUME TypeOK, NEW p \in Pids
    PROVE  /\ Exists(p) <=> child[p].st # "none"
           /\ Exists(p) => child[p] \in Process
           /\ Zombie(p) => Exists(p)
  BY DEF TypeOK, ProcsType, Process, Exists, NoChild, Zombie

\* A pid is free where RunProgram finds one.
LEMMA FreePidIsFree ==
    ASSUME \E p \in Pids : ~Exists(p)
    PROVE  FreePid \in Pids /\ ~Exists(FreePid)
  BY DEF FreePid

LEMMA FilesStep == TypeOK /\ [Next]_vars => FilesType'
<1> SUFFICES ASSUME TypeOK, [Next]_vars PROVE FilesType'
  OBVIOUS
<1> USE DEF FilesType, files
<1>0. FilesType
  BY DEF TypeOK
<1>1. CASE UNCHANGED files
  BY <1>0, <1>1
<1>2. CASE UNCHANGED vars
  BY <1>1, <1>2 DEF vars
<1>3. ASSUME Die PROVE FilesType'
  BY <1>0, <1>3 DEF Die
<1>4. ASSUME NEW p \in Pids, HandleChild(p) PROVE FilesType'
  BY <1>1, <1>3, <1>4 DEF HandleChild
<1>5. CASE SigChld \/ CheckZombies
  BY <1>1, <1>4, <1>5 DEF SigChld, CheckZombies
<1>6. CASE Restart
  BY <1>0, <1>6 DEF Restart
<1>7. ASSUME StartLoop \/ CheckBatch \/ CheckRequests \/ CheckPublish \/ CheckAfd \/ NewDay
             \/ \E n \in ThreadChoices : EditConfig(n)
      PROVE  UNCHANGED files
  BY <1>7 DEF StartLoop, CheckBatch, CheckRequests, CheckPublish, CheckAfd, Timed, NewDay, EditConfig
<1>8. ASSUME NEW m \in Messages, AppendRequest(m) PROVE FilesType'
  BY <1>0, <1>8 DEF AppendRequest
<1>9. ASSUME NEW p \in Pids, ListprocStep(p) \/ FinishUnusual(p) \/ Kill(p) PROVE FilesType'
  <2>1. <<>> \in Seq(Messages)
    BY EmptySeq
  <2> QED
    BY <1>0, <1>9, <2>1 DEF ListprocStep, Look, Copy, Empty, Handle, Finish, FinishUnusual, Kill, Ends
<1>10. ASSUME NEW p \in Pids, Defer(p) PROVE FilesType'
  <2>1. Head(work[p]) \in Messages
    BY <1>10, HeadTailProperties DEF Defer, TypeOK, ProcsType
  <2>2. Append(IF batch = NoFile THEN <<>> ELSE batch, Head(work[p])) \in Seq(Messages)
    BY <1>0, <2>1, EmptySeq, AppendProperties
  <2> QED
    BY <1>0, <1>10, <2>2 DEF Defer
<1> QED
  BY <1>1, <1>2, <1>5, <1>6, <1>7, <1>8, <1>9, <1>10 DEF Next, Loop

\* What a started process looks like.
LEMMA RunProgramType ==
    ASSUME TypeOK, NEW kind \in Kinds, NEW pid, RunProgram(kind, pid)
    PROVE  child' \in [Pids -> {NoChild} \cup Process]
<1> DEFINE new == [kind |-> kind, st |-> First(kind), code |-> "ok"]
<1>1. new \in Process
  BY DEF First, Process
<1>2. CASE UNCHANGED child
  BY <1>2 DEF TypeOK, ProcsType
<1>3. CASE pid \in Pids /\ child' = [child EXCEPT ![pid] = new]
  BY <1>1, <1>3 DEF TypeOK, ProcsType
<1> QED
  BY <1>2, <1>3, FreePidIsFree DEF RunProgram

LEMMA ProcsStep == TypeOK /\ FileOK /\ [Next]_vars => ProcsType'
<1> SUFFICES ASSUME TypeOK, FileOK, [Next]_vars PROVE ProcsType'
  OBVIOUS
<1> USE DEF ProcsType, procs
<1>0. ProcsType
  BY DEF TypeOK
<1>e. <<>> \in Seq(Messages)
  BY EmptySeq
<1>1. CASE UNCHANGED <<procs, sigchld, up>>
  BY <1>0, <1>1
<1>2. CASE UNCHANGED vars
  BY <1>1, <1>2 DEF vars
<1>3. ASSUME Die PROVE ProcsType'
  <2>1. killed' \in BOOLEAN
    <3> QED BY <1>0, <1>3 DEF Die
  <2> QED
    BY <1>0, <1>e, <1>3, <2>1 DEF Die
<1>4. ASSUME NEW p \in Pids, HandleChild(p), ~Die => sigchld' \in BOOLEAN
      PROVE ProcsType'
  <2>1. CASE Die
    BY <1>3, <2>1
  <2>2. CASE ~Die
    BY <1>0, <1>4, <2>2 DEF HandleChild
  <2> QED
    BY <2>1, <2>2
<1>5. CASE SigChld \/ CheckZombies
  <2>1. ASSUME NEW p \in Pids, HandleChild(p) PROVE ~Die => up' = up
    BY <2>1 DEF HandleChild
  <2>2. CASE SigChld
    BY <1>0, <1>1, <1>4, <2>2 DEF SigChld
  <2>3. CASE CheckZombies
    BY <1>0, <1>1, <1>4, <2>1, <2>3 DEF CheckZombies
  <2> QED
    BY <1>5, <2>2, <2>3
<1>6. CASE Restart
  <2>1. killed' \in BOOLEAN
    BY <1>0, <1>6 DEF Restart
  <2> QED
    BY <1>0, <1>e, <1>6, <2>1 DEF Restart
<1>7. CASE StartLoop \/ NewDay
  BY <1>1, <1>7 DEF StartLoop, NewDay
<1>20. ASSUME NEW n \in ThreadChoices, EditConfig(n) PROVE ProcsType'
  BY <1>1, <1>20 DEF EditConfig
<1>21. ASSUME NEW m \in Messages, AppendRequest(m) PROVE ProcsType'
  BY <1>1, <1>21 DEF AppendRequest
<1>8. CASE CheckBatch \/ CheckRequests \/ CheckPublish \/ CheckAfd
  <2>1. UNCHANGED <<work, handled, killed, sigchld, up>>
    BY <1>8 DEF CheckBatch, CheckRequests, CheckPublish, CheckAfd, Timed
  <2>2. UNCHANGED child \/ \E kind \in Kinds, pid \in Pids \cup {Failed} : RunProgram(kind, pid)
    BY <1>8 DEF CheckBatch, CheckRequests, CheckPublish, CheckAfd, Timed, Spawn, SpawnTimed, Still, Kinds
  <2>3. child' \in [Pids -> {NoChild} \cup Process]
    BY <1>0, <2>2, RunProgramType
  <2> QED
    BY <1>0, <2>1, <2>3
<1>9. ASSUME NEW p \in Pids, Exists(p) PROVE child[p] \in Process
  BY <1>9, ProcessFields
<1>10. ASSUME NEW p \in Pids, Exists(p), NEW st \in {"run", "take", "copied"}, Goto(p, st)
       PROVE  child' \in [Pids -> {NoChild} \cup Process]
  BY <1>0, <1>9, <1>10 DEF Goto, Process
<1>11. ASSUME NEW p \in Pids, Exists(p), NEW code \in {"ok", "reinit", "fatal"}, Ends(p, code)
       PROVE  child' \in [Pids -> {NoChild} \cup Process] /\ sigchld' \in BOOLEAN
  BY <1>0, <1>9, <1>11 DEF Ends, Process
<1>12. ASSUME NEW p \in Pids, work[p] # <<>>
       PROVE  Head(work[p]) \in Messages /\ Tail(work[p]) \in Seq(Messages)
  BY <1>0, <1>12, HeadTailProperties
<1>13. ASSUME NEW p \in Pids, Look(p) \/ Empty(p) PROVE ProcsType'
  BY <1>0, <1>10, <1>13 DEF Look, Empty, Alive
<1>14. ASSUME NEW p \in Pids, Copy(p) PROVE ProcsType'
  <2>1. Exists(p) /\ child[p].kind \in {"requests", "batch"} /\ (child[p].kind = "batch" => batch # NoFile)
    BY <1>14 DEF Copy, Alive, FileOK
  <2>2. File(child[p].kind) \in Seq(Messages)
    BY <2>1 DEF File, TypeOK, FilesType
  <2> QED
    BY <1>0, <1>10, <1>14, <2>1, <2>2 DEF Copy
<1>15. ASSUME NEW p \in Pids, Handle(p) PROVE ProcsType'
  BY <1>0, <1>12, <1>15 DEF Handle, Advance
<1>16. ASSUME NEW p \in Pids, Defer(p) PROVE ProcsType'
  BY <1>0, <1>12, <1>16 DEF Defer, Advance
<1>17. ASSUME NEW p \in Pids, Finish(p) \/ FinishUnusual(p) PROVE ProcsType'
  BY <1>0, <1>11, <1>17 DEF Finish, FinishUnusual, Alive
<1>18. ASSUME NEW p \in Pids, Kill(p) PROVE ProcsType'
  BY <1>0, <1>e, <1>11, <1>18 DEF Kill
<1>19. ASSUME NEW p \in Pids, ListprocStep(p) \/ Defer(p) \/ FinishUnusual(p) \/ Kill(p) PROVE ProcsType'
  BY <1>13, <1>14, <1>15, <1>16, <1>17, <1>18, <1>19 DEF ListprocStep
<1> HIDE DEF ProcsType, procs
<1> QED
  BY <1>1, <1>2, <1>5, <1>6, <1>7, <1>8, <1>19, <1>20, <1>21 DEF Next, Loop

LEMMA LoopStep == TypeOK /\ [Next]_vars => LoopType'
<1> SUFFICES ASSUME TypeOK, [Next]_vars PROVE LoopType'
  OBVIOUS
<1> USE DEF LoopType
<1>0. LoopType
  BY DEF TypeOK
<1>d. ThreadChoices \subseteq 1..MaxThreads /\ MaxThreads \in Nat /\ MaxFaults \in Nat
  BY RequestsAssumption
<1>b. Fault \/ ForkFail \/ Calm => forkFails' \in Nat /\ faults' \in Nat /\ forkFails' + faults' <= MaxFaults
  BY <1>0, <1>d DEF Fault, ForkFail, Calm, bounds
<1>1. CASE UNCHANGED <<conf, loop, bounds>>
  BY <1>0, <1>1 DEF loop, table, bounds
<1>2. CASE UNCHANGED vars
  BY <1>1, <1>2 DEF vars
<1>3. ASSUME UNCHANGED <<conf, loop>>, Fault \/ Calm PROVE LoopType'
  BY <1>0, <1>b, <1>3 DEF loop, table
<1>4. ASSUME NEW p \in Pids, HandleChild(p), ~Die
      PROVE  /\ thread' \in [Slots -> Pids \cup {NoPid, Failed}] /\ nreqforks' \in Slots
             /\ UNCHANGED <<nreqthreads, flags>>
  <2>1. Known(p) => nreqforks # 0
    BY <1>0, <1>d DEF Known, InUse
  <2>2. ASSUME NEW i PROVE Removed(i) \in [Slots -> Pids \cup {NoPid, Failed}]
    BY <1>0, <1>d DEF Removed, Slots
  <2> QED
    BY <1>0, <1>d, <1>4, <2>1, <2>2 DEF HandleChild, Slots
<1>5. ASSUME NEW p \in Pids, HandleChild(p), ~Die
      PROVE  initialize' \in BOOLEAN
  BY <1>0, <1>5 DEF HandleChild
<1>6. ASSUME NEW p \in Pids, HandleChild(p), Calm, UNCHANGED conf, ~Die => pc' \in {"init", "reap"} \cup Kinds
      PROVE  LoopType'
  <2>1. CASE Die
    BY <1>3, <1>6, <2>1 DEF Die
  <2>2. CASE ~Die
    BY <1>0, <1>b, <1>4, <1>5, <1>6, <2>2
  <2> QED
    BY <2>1, <2>2
<1>7. CASE SigChld
  BY <1>0, <1>3, <1>6, <1>7 DEF SigChld, loop
<1>8. CASE CheckZombies
  <2>1. ASSUME NEW p \in Pids, HandleChild(p) PROVE ~Die => up' = up
    BY <2>1 DEF HandleChild
  <2> QED
    BY <1>0, <1>b, <1>6, <1>8, <2>1 DEF CheckZombies, table
<1>9. CASE Restart
  <2>1. 0 \in Slots /\ thread' \in [Slots -> Pids \cup {NoPid, Failed}]
    BY <1>d, <1>9 DEF Restart, Slots
  <2> QED
    BY <1>0, <1>b, <1>9, <2>1 DEF Restart
<1>10. CASE StartLoop
  BY <1>0, <1>b, <1>d, <1>10 DEF StartLoop, Slots, Kinds
<1>11. CASE NewDay
  BY <1>0, <1>b, <1>11 DEF NewDay, table
<1>12. ASSUME NEW n \in ThreadChoices, EditConfig(n) PROVE LoopType'
  BY <1>0, <1>b, <1>12 DEF EditConfig, loop, table
<1>13. ASSUME NEW m \in Messages, AppendRequest(m) PROVE LoopType'
  BY <1>3, <1>13 DEF AppendRequest
<1>14. ASSUME NEW p \in Pids, ListprocStep(p) \/ Defer(p) \/ FinishUnusual(p) \/ Kill(p)
       PROVE  LoopType'
  BY <1>3, <1>14 DEF ListprocStep, Look, Copy, Empty, Handle, Finish, Defer, FinishUnusual, Kill
<1>15. ASSUME NEW kind \in Kinds, MaySpawn, Spawn(kind) \/ SpawnTimed(kind)
       PROVE  /\ thread' \in [Slots -> Pids \cup {NoPid, Failed}] /\ nreqforks' \in Slots
              /\ ForkFail \/ Calm
  <2>1. nreqforks + 1 \in Slots
    BY <1>0, <1>d, <1>15 DEF MaySpawn, Slots
  <2> QED
    BY <1>0, <1>15, <2>1 DEF Spawn, SpawnTimed, RunProgram
<1>16. CASE CheckBatch
  <2>1. "batch" \in Kinds \ {"requests"} /\ "requests" \in Kinds /\ "batch" \in Kinds
    BY DEF Kinds
  <2>2. UNCHANGED <<conf, nreqthreads, initialize>> /\ pc' = "requests" /\ flags' \in SUBSET (Kinds \ {"requests"})
    BY <1>0, <1>16, <2>1 DEF CheckBatch
  <2>3. Still \/ (MaySpawn /\ Spawn("batch"))
    BY <1>16 DEF CheckBatch, BatchDue
  <2> QED
    BY <1>0, <1>b, <1>15, <2>1, <2>2, <2>3 DEF Still, table, Calm
<1>17. CASE CheckRequests
  <2>1. "publish" \in Kinds /\ "requests" \in Kinds
    BY DEF Kinds
  <2>2. UNCHANGED <<conf, nreqthreads, initialize, flags>> /\ pc' = "publish"
    BY <1>17 DEF CheckRequests
  <2>3. Still \/ (MaySpawn /\ Spawn("requests"))
    BY <1>17 DEF CheckRequests, RequestsDue
  <2> QED
    BY <1>0, <1>b, <1>15, <2>1, <2>2, <2>3 DEF Still, table, Calm
<1>18. ASSUME NEW kind \in Kinds \ {"requests"}, NEW next \in {"init", "reap"} \cup Kinds, Timed(kind, next)
       PROVE  LoopType'
  <2>2. UNCHANGED <<conf, nreqthreads, initialize>> /\ pc' = next /\ flags' \in SUBSET (Kinds \ {"requests"})
    BY <1>0, <1>18 DEF Timed
  <2>3. Still \/ (MaySpawn /\ SpawnTimed(kind))
    BY <1>18 DEF Timed
  <2> QED
    BY <1>0, <1>b, <1>15, <2>2, <2>3 DEF Still, table, Calm
<1>19. CASE CheckPublish \/ CheckAfd
  BY <1>18, <1>19 DEF CheckPublish, CheckAfd, Kinds
<1> QED
  BY <1>1, <1>2, <1>7, <1>8, <1>9, <1>10, <1>11, <1>12, <1>13, <1>14, <1>16, <1>17, <1>19
  DEF Next, Loop

LEMMA FileStep == TypeOK /\ FileOK /\ [Next]_vars => FileOK'
<1> SUFFICES ASSUME TypeOK, FileOK, [Next]_vars, NEW q \in Pids, Exists(q)'
             PROVE  /\ child'[q].st \in {"start", "take", "copied"} =>
                         child'[q].kind \in {"requests", "batch"}
                    /\ child'[q].kind = "batch" => batch' # NoFile
  BY DEF FileOK, Exists
<1>q. Exists(q) => child[q] \in Process
  BY ProcessFields
<1>t. child \in [Pids -> {NoChild} \cup Process]
  BY DEF TypeOK, ProcsType
<1>1. ASSUME child'[q] = child[q], batch' # NoFile \/ batch' = batch
      PROVE  /\ child'[q].st \in {"start", "take", "copied"} =>
                  child'[q].kind \in {"requests", "batch"}
             /\ child'[q].kind = "batch" => batch' # NoFile
  BY <1>1 DEF FileOK, Exists
<1>2. CASE UNCHANGED vars
  BY <1>1, <1>2 DEF vars, procs, files
<1>3. ASSUME NEW p \in Pids, HandleChild(p) PROVE child'[q] = child[q] /\ UNCHANGED batch
  BY <1>t, <1>3 DEF HandleChild, Die, files, Exists
<1>4. CASE SigChld \/ CheckZombies
  BY <1>1, <1>3, <1>4 DEF SigChld, CheckZombies, files, procs
<1>5. CASE Restart
  BY <1>5 DEF Restart, Exists
<1>6. CASE StartLoop \/ NewDay \/ \E n \in ThreadChoices : EditConfig(n)
  BY <1>1, <1>6 DEF StartLoop, NewDay, EditConfig, files, procs
<1>7. ASSUME NEW m \in Messages, AppendRequest(m) PROVE UNCHANGED <<child, batch>>
  BY <1>7 DEF AppendRequest, procs
<1>8. ASSUME NEW kind \in Kinds, NEW pid, RunProgram(kind, pid), kind = "batch" => batch # NoFile,
             UNCHANGED batch
      PROVE  /\ child'[q].st \in {"start", "take", "copied"} =>
                  child'[q].kind \in {"requests", "batch"}
             /\ child'[q].kind = "batch" => batch' # NoFile
  <2>1. CASE child'[q] = [kind |-> kind, st |-> First(kind), code |-> "ok"]
    BY <1>8, <2>1 DEF First, Kinds
  <2>2. CASE child'[q] = child[q]
    BY <1>1, <1>8, <2>2
  <2> QED
    BY <1>t, <1>8, <2>1, <2>2, FreePidIsFree DEF RunProgram
<1>9. CASE CheckBatch \/ CheckRequests \/ CheckPublish \/ CheckAfd
  <2>1. UNCHANGED batch
    BY <1>9 DEF CheckBatch, CheckRequests, CheckPublish, CheckAfd, Timed, files
  <2>2. UNCHANGED child \/ \E kind \in Kinds, pid \in Pids \cup {Failed} :
                              RunProgram(kind, pid) /\ (kind = "batch" => batch # NoFile)
    BY <1>9 DEF CheckBatch, BatchDue, CheckRequests, CheckPublish, CheckAfd, Timed, Spawn, SpawnTimed,
       Still, Kinds
  <2> QED
    BY <1>1, <1>8, <2>1, <2>2
<1>10. ASSUME NEW p \in Pids, Exists(p), child'[p].kind = child[p].kind,
              \A r \in Pids \ {p} : child'[r] = child[r],
              batch' # NoFile \/ batch' = batch,
              child'[p].st \in {"start", "take", "copied"} => child[p].st \in {"start", "take", "copied"}
       PROVE  /\ child'[q].st \in {"start", "take", "copied"} =>
                   child'[q].kind \in {"requests", "batch"}
              /\ child'[q].kind = "batch" => batch' # NoFile
  <2>1. CASE q = p
    BY <1>10, <2>1 DEF FileOK
  <2>2. CASE q # p
    BY <1>1, <1>10, <2>2
  <2> QED
    BY <2>1, <2>2
<1>11. ASSUME NEW p \in Pids, Exists(p), NEW st, Goto(p, st)
       PROVE  child'[p].kind = child[p].kind /\ child'[p].st = st /\ \A r \in Pids \ {p} : child'[r] = child[r]
  <2>1. child[p] \in Process
    BY <1>11, ProcessFields
  <2> QED
    BY <1>t, <1>11, <2>1 DEF Goto, Process
<1>12. ASSUME NEW p \in Pids, Look(p) PROVE UNCHANGED batch /\ Exists(p) /\ child[p].st = "start"
                                            /\ Goto(p, IF File(child[p].kind) = <<>> THEN "run" ELSE "take")
  BY <1>12 DEF Look, Alive, files
<1>13. ASSUME NEW p \in Pids, Look(p)
       PROVE  /\ child'[q].st \in {"start", "take", "copied"} =>
                   child'[q].kind \in {"requests", "batch"}
              /\ child'[q].kind = "batch" => batch' # NoFile
  BY <1>10, <1>11, <1>12, <1>13
<1>14. ASSUME NEW p \in Pids, Copy(p)
       PROVE  /\ child'[q].st \in {"start", "take", "copied"} =>
                   child'[q].kind \in {"requests", "batch"}
              /\ child'[q].kind = "batch" => batch' # NoFile
  <2>1. UNCHANGED batch /\ Exists(p) /\ child[p].st = "take" /\ Goto(p, "copied")
    BY <1>14 DEF Copy, Alive
  <2> QED
    BY <1>10, <1>11, <2>1
<1>15. ASSUME NEW p \in Pids, Empty(p)
       PROVE  /\ child'[q].st \in {"start", "take", "copied"} =>
                   child'[q].kind \in {"requests", "batch"}
              /\ child'[q].kind = "batch" => batch' # NoFile
  <2>1. (batch' = batch \/ batch' = <<>>) /\ Exists(p) /\ Goto(p, "run")
    BY <1>15 DEF Empty, Alive
  <2>2. <<>> # NoFile
    BY RequestsAssumption, EmptySeq
  <2> QED
    BY <1>10, <1>11, <2>1, <2>2
<1>16. ASSUME NEW p \in Pids, Handle(p) PROVE UNCHANGED <<child, batch>>
  BY <1>16 DEF Handle, files
<1>17. ASSUME NEW p \in Pids, Defer(p) PROVE UNCHANGED child /\ batch' # NoFile
  <2>1. Head(work[p]) \in Messages
    BY <1>17, HeadTailProperties DEF Defer, TypeOK, ProcsType
  <2>2. Append(IF batch = NoFile THEN <<>> ELSE batch, Head(work[p])) \in Seq(Messages)
    BY <2>1, EmptySeq, AppendProperties DEF TypeOK, FilesType
  <2> QED
    BY <1>17, <2>2, RequestsAssumption DEF Defer
<1>18. ASSUME NEW p \in Pids, Finish(p) \/ FinishUnusual(p) \/ Kill(p)
       PROVE  /\ child'[q].st \in {"start", "take", "copied"} =>
                   child'[q].kind \in {"requests", "batch"}
              /\ child'[q].kind = "batch" => batch' # NoFile
  <2>1. PICK code \in {"ok", "reinit", "fatal"} : Ends(p, code)
    BY <1>18 DEF Finish, FinishUnusual, Kill
  <2>2. Exists(p) /\ UNCHANGED batch
    BY <1>18 DEF Finish, FinishUnusual, Kill, Alive, files
  <2>3. child[p] \in Process
    BY <2>2, ProcessFields
  <2>4. CASE up
    BY <1>t, <1>10, <2>1, <2>2, <2>3, <2>4 DEF Ends, Process
  <2>5. CASE ~up
    <3>1. child'[p] = NoChild /\ \A r \in Pids \ {p} : child'[r] = child[r]
      BY <1>t, <2>1, <2>5 DEF Ends
    <3> QED
      BY <1>1, <2>2, <3>1 DEF Exists
  <2> QED
    BY <2>4, <2>5
<1> QED
  BY <1>1, <1>2, <1>4, <1>5, <1>6, <1>7, <1>9, <1>13, <1>14, <1>15, <1>16, <1>17, <1>18
  DEF Next, Loop, ListprocStep

LEMMA InitTypes == Init => TypeOK /\ FileOK
<1> SUFFICES ASSUME Init PROVE TypeOK /\ FileOK
  OBVIOUS
<1>1. FilesType /\ ProcsType
  BY EmptySeq DEF Init, FilesType, ProcsType
<1>2. LoopType
  <2>1. 0 \in Slots /\ thread \in [Slots -> Pids \cup {NoPid, Failed}]
    BY RequestsAssumption DEF Init, Slots
  <2> QED
    BY RequestsAssumption, <2>1 DEF Init, LoopType
<1>3. FileOK
  BY DEF Init, FileOK, Exists
<1> QED
  BY <1>1, <1>2, <1>3 DEF TypeOK

\* The files, the processes and serverd's variables stay well formed.
THEOREM Typing == Spec => [](TypeOK /\ FileOK)
<1>1. TypeOK /\ FileOK /\ [Next]_vars => TypeOK' /\ FileOK'
  BY FilesStep, ProcsStep, LoopStep, FileStep DEF TypeOK
<1> QED
  BY <1>1, InitTypes, PTL DEF Spec

-----------------------------------------------------------------------------
(* The places of a request *)

\* Counting in a file.
LEMMA CountType ==
    ASSUME NEW s \in Seq(Messages), NEW m
    PROVE  Count(s, m) \in Nat
<1>1. IsFiniteSet(1..Len(s))
  BY FS_Interval, LenProperties
<1> QED
  BY <1>1, FS_Subset, FS_CardinalityType DEF Count

LEMMA CountEmpty == \A m : Count(<<>>, m) = 0
<1> TAKE m
<1>1. {i \in 1..Len(<<>>) : <<>>[i] = m} = {}
  BY EmptySeq
<1> QED
  BY <1>1, FS_EmptySet DEF Count

LEMMA CountAppend ==
    ASSUME NEW s \in Seq(Messages), NEW x \in Messages, NEW m
    PROVE  Count(Append(s, x), m) = Count(s, m) + (IF x = m THEN 1 ELSE 0)
<1> DEFINE S == {i \in 1..Len(s) : s[i] = m}
           T == {i \in 1..Len(Append(s, x)) : Append(s, x)[i] = m}
<1>1. /\ Len(Append(s, x)) = Len(s) + 1 /\ Len(s) \in Nat
      /\ \A i \in 1..Len(s) : Append(s, x)[i] = s[i]
      /\ Append(s, x)[Len(s) + 1] = x
  BY AppendProperties, LenProperties
<1>2. T = IF x = m THEN S \cup {Len(s) + 1} ELSE S
  <2>1. \A i : i \in 1..(Len(s) + 1) <=> i \in 1..Len(s) \/ i = Len(s) + 1
    BY <1>1
  <2>2. CASE x = m
    BY <1>1, <2>1, <2>2
  <2>3. CASE x # m
    BY <1>1, <2>1, <2>3
  <2> QED
    BY <2>2, <2>3
<1>3. IsFiniteSet(S) /\ Len(s) + 1 \notin S
  <2>1. IsFiniteSet(1..Len(s))
    BY <1>1, FS_Interval
  <2> QED
    BY <1>1, <2>1, FS_Subset
<1> HIDE DEF S, T
<1>4. Cardinality(S) \in Nat
  BY <1>3, FS_CardinalityType
<1>5. Cardinality(T) = Cardinality(S) + (IF x = m THEN 1 ELSE 0)
  <2>1. Cardinality(S \cup {Len(s) + 1}) = Cardinality(S) + 1
    BY <1>3, FS_AddElement
  <2> QED
    BY <1>2, <1>4, <2>1
<1> QED
  BY <1>5 DEF Count, S, T

LEMMA CountTail ==
    ASSUME NEW s \in Seq(Messages), s # <<>>, NEW m
    PROVE  Count(s, m) = Count(Tail(s), m) + (IF Head(s) = m THEN 1 ELSE 0)
<1> DEFINE S == {i \in 1..Len(s) : s[i] = m}
           T == {i \in 1..Len(Tail(s)) : Tail(s)[i] = m}
           f == [i \in T |-> i + 1]
<1>1. /\ Tail(s) \in Seq(Messages) /\ Len(Tail(s)) = Len(s) - 1 /\ Len(s) \in Nat \ {0}
      /\ \A i \in 1..Len(Tail(s)) : Tail(s)[i] = s[i + 1]
      /\ Head(s) = s[1]
  BY HeadTailProperties, LenProperties, EmptySeq
<1>2. IsFiniteSet(S)
  <2>1. IsFiniteSet(1..Len(s))
    BY <1>1, FS_Interval
  <2> QED
    BY <1>1, <2>1, FS_Subset
<1>3. IsFiniteSet(T)
  <2>1. IsFiniteSet(1..Len(Tail(s)))
    BY <1>1, FS_Interval
  <2> QED
    BY <1>1, <2>1, FS_Subset
<1>4. f \in Bijection(T, S \ {1})
  <2>1. f \in [T -> S \ {1}]
    BY <1>1
  <2>2. \A i, j \in T : f[i] = f[j] => i = j
    BY <1>1
  <2>3. \A j \in S \ {1} : \E i \in T : f[i] = j
    <3>1. SUFFICES ASSUME NEW j \in S \ {1} PROVE j - 1 \in T /\ f[j - 1] = j
      OBVIOUS
    <3>2. j - 1 \in 1..Len(Tail(s)) /\ (j - 1) + 1 = j
      BY <1>1
    <3> QED
      BY <1>1, <3>2
  <2> QED
    BY <2>1, <2>2, <2>3, Fun_IsBij
<1> HIDE DEF f
<1>5. Cardinality(S \ {1}) = Cardinality(T)
  BY <1>3, <1>4, FS_Bijection DEF ExistsBijection
<1>6. 1 \in S <=> Head(s) = m
  BY <1>1
<1> HIDE DEF S, T
<1>7. Cardinality(S) \in Nat
  BY <1>2, FS_CardinalityType
<1>8. Cardinality(S) = Cardinality(T) + (IF Head(s) = m THEN 1 ELSE 0)
  <2>1. Cardinality(S \ {1}) = IF 1 \in S THEN Cardinality(S) - 1 ELSE Cardinality(S)
    BY <1>2, FS_RemoveElement
  <2> QED
    BY <1>5, <1>6, <1>7, <2>1
<1> QED
  BY <1>8 DEF Count, S, T

\* What the running processes carry, in any state of them.
Load(c, w, m) ==
  [p \in Pids |-> IF c[p] # NoChild /\ c[p].st = "run" THEN Count(w[p], m) ELSE 0]

LEMMA LoadType ==
    ASSUME NEW c, NEW w \in [Pids -> Seq(Messages)], NEW m
    PROVE  Load(c, w, m) \in [1..(MaxThreads + 1) -> Nat] /\ MaxThreads + 1 \in Nat
  BY CountType, RequestsAssumption DEF Load, Pids

\* The numbers of copies in the files.
InFiles(r, b, m) == Count(r, m) + (IF b = NoFile THEN 0 ELSE Count(b, m))

LEMMA CopiesIs ==
  /\ \A m : Copies(m) = InFiles(requests, batch, m) + Total(MaxThreads + 1, Load(child, work, m)) + handled[m]
  /\ \A m : Copies(m)' = InFiles(requests', batch', m) + Total(MaxThreads + 1, Load(child', work', m)) + handled'[m]
<1>1. \A m : Carried(m) = Load(child, work, m) /\ Carried(m)' = Load(child', work', m)
  BY DEF Carried, Load, Alive, Exists
<1> QED
  BY <1>1 DEF Copies, InFiles

LEMMA InFilesType ==
    ASSUME NEW r \in Seq(Messages), NEW b \in Seq(Messages) \cup {NoFile}, NEW m
    PROVE  InFiles(r, b, m) \in Nat
  BY CountType DEF InFiles

\* A step that only ends processes, kills them, or starts idle ones.
LEMMA QuietKeeps ==
    ASSUME TypeOK, TypeOK', LockOK, WorkOK, InPlace,
           UNCHANGED <<requests, batch, sent, handled>>, killed => killed',
           lock' = lock \/ lock' = Nobody,
           \A p \in Pids :
             \/ child'[p] = child[p] /\ work'[p] = work[p] /\ (p = lock => lock' = lock)
             \/ /\ work'[p] = <<>> /\ (work[p] = <<>> \/ killed')
                /\ ~Alive(p, "copied")' /\ (p = lock => lock' = Nobody)
    PROVE  LockOK' /\ WorkOK' /\ InPlace'
<1>1. LockOK'
  <2>1. ASSUME NEW p \in Pids PROVE Alive(p, "copied")' <=> lock' = p
    BY <2>1 DEF LockOK, Alive, Exists, Nobody, Pids
  <2>2. lock' # Nobody => lock' = lock /\ lock \in Pids
    BY DEF TypeOK, FilesType
  <2>3. lock' # Nobody => child'[lock] = child[lock] /\ work'[lock] = work[lock]
    BY <2>2
  <2> QED
    BY <2>1, <2>2, <2>3 DEF LockOK, File
<1>2. WorkOK'
  BY DEF WorkOK, Alive, Exists
<1>3. ASSUME NEW m \in Messages PROVE Placed(m)'
  <2> DEFINE a == Load(child, work, m)
             b == Load(child', work', m)
             N == MaxThreads + 1
  <2>1. \A p \in Pids : b[p] = a[p] \/ (killed' /\ b[p] = 0)
    BY CountEmpty DEF Load, Alive, Exists
  <2>2. a \in [1..N -> Nat] /\ b \in [1..N -> Nat] /\ N \in Nat /\ Pids = 1..N
    BY LoadType DEF TypeOK, ProcsType, Pids
  <2>3. Copies(m) = InFiles(requests, batch, m) + Total(N, a) + handled[m]
    BY CopiesIs
  <2>4. Copies(m)' = InFiles(requests, batch, m) + Total(N, b) + handled[m]
    BY CopiesIs
  <2>5. InFiles(requests, batch, m) \in Nat /\ handled[m] \in Nat
    BY InFilesType DEF TypeOK, FilesType, ProcsType
  <2>6. Placed(m)
    BY DEF InPlace
  <2> HIDE DEF a, b, N
  <2>7. Total(N, a) \in Int /\ Total(N, b) \in Int
    BY <2>2, TotalType
  <2>8. CASE killed'
    <3>1. ASSUME NEW p \in 1..N PROVE b[p] <= a[p]
      <4>1. b[p] = a[p] \/ b[p] = 0
        BY <2>1, <2>2
      <4>2. a[p] \in Nat
        BY <2>2
      <4> QED
        BY <4>1, <4>2
    <3>2. 0 <= Total(N, b) /\ Total(N, b) <= Total(N, a)
      BY <2>2, <3>1, TotalMonotone
    <3>3. 0 <= Copies(m)' /\ Copies(m)' <= Copies(m) /\ Copies(m)' \in Int /\ Copies(m) \in Int
      BY <2>3, <2>4, <2>5, <2>7, <3>2
    <3>4. sent' = sent
      OBVIOUS
    <3> QED
      BY <2>6, <2>8, <3>3, <3>4 DEF Placed
  <2>9. CASE ~killed'
    <3>1. a = b
      <4>1. \A p \in 1..N : a[p] = b[p]
        BY <2>1, <2>2, <2>9
      <4>2. a = [p \in 1..N |-> a[p]] /\ b = [p \in 1..N |-> b[p]]
        BY <2>2
      <4> QED
        BY <4>1, <4>2
    <3>2. Copies(m)' = Copies(m)
      BY <2>3, <2>4, <3>1
    <3> QED
      BY <2>6, <2>9, <3>2 DEF Placed
  <2> QED
    BY <2>8, <2>9
<1> QED
  BY <1>1, <1>2, <1>3 DEF InPlace

\* A step after which a request is in as many places.
LEMMA PlacedKeeps ==
    ASSUME NEW m \in Messages, Placed(m), Copies(m)' = Copies(m), UNCHANGED <<sent, killed>>
    PROVE  Placed(m)'
  BY DEF Placed

\* A step of one process changes the total by what that process carries.
LEMMA LoadChange ==
    ASSUME TypeOK, TypeOK', NEW p \in Pids, NEW m,
           \A q \in Pids \ {p} : child'[q] = child[q] /\ work'[q] = work[q]
    PROVE  /\ Total(MaxThreads + 1, Load(child', work', m)) =
                Total(MaxThreads + 1, Load(child, work, m))
                  - Load(child, work, m)[p] + Load(child', work', m)[p]
           /\ Total(MaxThreads + 1, Load(child, work, m)) \in Int
           /\ Load(child, work, m)[p] \in Nat /\ Load(child', work', m)[p] \in Nat
<1> DEFINE a == Load(child, work, m)
           b == Load(child', work', m)
           N == MaxThreads + 1
<1>1. a \in [1..N -> Nat] /\ b \in [1..N -> Nat] /\ N \in Nat /\ Pids = 1..N
  BY LoadType DEF TypeOK, ProcsType, Pids
<1>2. \A q \in Pids \ {p} : b[q] = a[q]
  BY DEF Load
<1> HIDE DEF a, b, N
<1>3. a \in [1..N -> Int] /\ b \in [1..N -> Int]
  BY <1>1
<1>4. Total(N, b) = Total(N, a) - a[p] + b[p]
  BY <1>1, <1>2, <1>3, TotalChange
<1>5. Total(N, a) \in Int
  BY <1>1, <1>3, TotalType
<1> QED
  BY <1>1, <1>4, <1>5 DEF a, b, N

LEMMA AppendRequestStep ==
    ASSUME TypeOK, TypeOK', LockOK, WorkOK, InPlace, NEW x \in Messages, AppendRequest(x)
    PROVE  LockOK' /\ WorkOK' /\ InPlace'
<1>1. /\ UNCHANGED <<batch, child, work, handled, killed, lock>> /\ lock = Nobody
      /\ requests' = Append(requests, x) /\ sent' = sent \cup {x} /\ x \notin sent
  BY DEF AppendRequest, procs
<1>2. LockOK' /\ WorkOK'
  BY <1>1 DEF LockOK, WorkOK, Alive, Exists
<1>3. ASSUME NEW m \in Messages PROVE Placed(m)'
  <2> DEFINE t == Total(MaxThreads + 1, Load(child, work, m))
  <2>1. Load(child, work, m) \in [1..(MaxThreads + 1) -> Nat] /\ MaxThreads + 1 \in Nat
    BY LoadType DEF TypeOK, ProcsType
  <2>2. t \in Int
    <3>1. Load(child, work, m) \in [1..(MaxThreads + 1) -> Int]
      BY <2>1
    <3> QED
      BY <2>1, <3>1, TotalType
  <2>3. InFiles(requests', batch', m) = InFiles(requests, batch, m) + (IF x = m THEN 1 ELSE 0)
    <3>1. requests \in Seq(Messages) /\ (batch # NoFile => batch \in Seq(Messages))
      BY DEF TypeOK, FilesType
    <3>2. Count(requests, m) \in Nat /\ (batch # NoFile => Count(batch, m) \in Nat)
      BY <3>1, CountType
    <3>3. Count(requests', m) = Count(requests, m) + (IF x = m THEN 1 ELSE 0)
      BY <1>1, <3>1, CountAppend
    <3> QED
      BY <1>1, <3>2, <3>3 DEF InFiles
  <2>4. InFiles(requests, batch, m) \in Nat /\ handled[m] \in Nat
    BY InFilesType DEF TypeOK, FilesType, ProcsType
  <2>5. Copies(m) = InFiles(requests, batch, m) + t + handled[m]
    BY CopiesIs
  <2>6. Copies(m)' = InFiles(requests', batch', m) + t + handled[m]
    BY <1>1, CopiesIs
  <2> HIDE DEF t
  <2>7. Copies(m)' = Copies(m) + (IF x = m THEN 1 ELSE 0)
    BY <2>2, <2>3, <2>4, <2>5, <2>6
  <2>8. Placed(m)
    BY DEF InPlace
  <2>9. CASE x = m
    BY <1>1, <2>7, <2>8, <2>9 DEF Placed
  <2>10. CASE x # m
    <3>1. Copies(m)' = Copies(m)
      BY <2>2, <2>4, <2>5, <2>7, <2>10
    <3> QED
      BY <1>1, <2>8, <2>10, <3>1 DEF Placed
  <2> QED
    BY <2>9, <2>10
<1> QED
  BY <1>2, <1>3 DEF InPlace

LEMMA CopyStep ==
    ASSUME TypeOK, TypeOK', LockOK, WorkOK, InPlace, NEW p \in Pids, Copy(p)
    PROVE  LockOK' /\ WorkOK' /\ InPlace'
<1>1. child[p] \in Process /\ child[p].st = "take" /\ lock = Nobody
  BY ProcessFields DEF Copy, Alive
<1>2. /\ UNCHANGED <<requests, batch, sent, handled, killed>> /\ lock' = p
      /\ child'[p] = [child[p] EXCEPT !.st = "copied"]
      /\ work'[p] = File(child[p].kind)
      /\ \A q \in Pids \ {p} : child'[q] = child[q] /\ work'[q] = work[q]
  BY DEF Copy, Goto, TypeOK, ProcsType
<1>3. child'[p].st = "copied" /\ child'[p].kind = child[p].kind /\ child'[p] # NoChild
  BY <1>1, <1>2 DEF Process, NoChild
<1>4. LockOK'
  <2>1. \A q \in Pids : q # Nobody
    BY DEF Pids, Nobody
  <2>2. ASSUME NEW q \in Pids \ {p} PROVE ~Alive(q, "copied")'
    BY <1>1, <1>2, <2>1 DEF LockOK, Alive, Exists
  <2>3. Alive(p, "copied")'
    BY <1>3 DEF Alive, Exists
  <2>4. work'[p] = File(child[p].kind)'
    BY <1>2, <1>3 DEF File
  <2> QED
    BY <1>2, <2>2, <2>3, <2>4 DEF LockOK
<1>5. WorkOK'
  <2>1. ASSUME NEW q \in Pids \ {p}, work'[q] # <<>> PROVE Alive(q, "copied")' \/ Alive(q, "run")'
    BY <1>2, <2>1 DEF WorkOK, Alive, Exists
  <2>2. Alive(p, "copied")'
    BY <1>3 DEF Alive, Exists
  <2> QED
    BY <2>1, <2>2 DEF WorkOK
<1>6. ASSUME NEW m \in Messages PROVE Placed(m)'
  <2>1. Load(child', work', m) = Load(child, work, m)
    BY <1>1, <1>2, <1>3 DEF Load
  <2>2. Copies(m)' = Copies(m)
    BY <1>2, <2>1, CopiesIs
  <2> QED
    BY <1>2, <2>2, PlacedKeeps DEF InPlace
<1> QED
  BY <1>4, <1>5, <1>6 DEF InPlace

LEMMA EmptyStep ==
    ASSUME TypeOK, TypeOK', FileOK, LockOK, WorkOK, InPlace, NEW p \in Pids, Empty(p)
    PROVE  LockOK' /\ WorkOK' /\ InPlace'
<1>1. child[p] \in Process /\ child[p].st = "copied" /\ Exists(p)
  BY ProcessFields DEF Empty, Alive
<1>2. lock = p /\ work[p] = File(child[p].kind) /\ p # Nobody
  BY <1>1 DEF LockOK, Alive, Pids, Nobody
<1>3. /\ UNCHANGED <<sent, handled, killed, work>> /\ lock' = Nobody
      /\ child'[p] = [child[p] EXCEPT !.st = "run"]
      /\ \A q \in Pids \ {p} : child'[q] = child[q] /\ work'[q] = work[q]
  BY DEF Empty, Goto, TypeOK, ProcsType
<1>4. child'[p].st = "run" /\ child'[p] # NoChild
  BY <1>1, <1>3 DEF Process, NoChild
<1>5. LockOK'
  <2>1. \A q \in Pids : q # Nobody
    BY DEF Pids, Nobody
  <2> QED
    BY <1>2, <1>3, <1>4, <2>1 DEF LockOK, Alive, Exists
<1>6. WorkOK'
  BY <1>3, <1>4 DEF WorkOK, Alive, Exists
<1>7. ASSUME NEW m \in Messages PROVE Placed(m)'
  <2>1. Load(child, work, m)[p] = 0 /\ Load(child', work', m)[p] = Count(work[p], m)
    BY <1>1, <1>3, <1>4 DEF Load
  <2>2. /\ requests \in Seq(Messages) /\ (batch # NoFile => batch \in Seq(Messages))
        /\ handled[m] \in Nat /\ <<>> # NoFile
    BY EmptySeq, RequestsAssumption DEF TypeOK, FilesType, ProcsType
  <2>3. Count(requests, m) \in Nat /\ (batch # NoFile => Count(batch, m) \in Nat)
    BY <2>2, CountType
  <2>4. InFiles(requests, batch, m) = InFiles(requests', batch', m) + Count(work[p], m)
    <3>1. CASE child[p].kind = "requests"
      BY <1>2, <2>2, <2>3, <3>1, CountEmpty DEF Empty, File, InFiles
    <3>2. CASE child[p].kind = "batch"
      BY <1>1, <1>2, <2>2, <2>3, <3>2, CountEmpty DEF Empty, File, InFiles, FileOK
    <3> QED
      BY <1>1, <3>1, <3>2 DEF FileOK
  <2>5. InFiles(requests', batch', m) \in Nat /\ Count(work[p], m) \in Nat
    BY InFilesType, CountType DEF TypeOK, FilesType, ProcsType
  <2>6. Copies(m)' = Copies(m)
    BY <1>3, <2>1, <2>2, <2>4, <2>5, CopiesIs, LoadChange
  <2> QED
    BY <1>3, <2>6, PlacedKeeps DEF InPlace
<1> QED
  BY <1>5, <1>6, <1>7 DEF InPlace

\* What the two steps that take a request off a mail copy have in common.
LEMMA AdvanceSteps ==
    ASSUME TypeOK, TypeOK', LockOK, WorkOK, NEW p \in Pids, Alive(p, "run"), work[p] # <<>>,
           Advance(p), UNCHANGED <<child, lock, requests>>, UNCHANGED batch \/ lock = Nobody
    PROVE  /\ LockOK' /\ WorkOK'
           /\ \A m : Total(MaxThreads + 1, Load(child', work', m)) =
                     Total(MaxThreads + 1, Load(child, work, m))
                       - (IF Head(work[p]) = m THEN 1 ELSE 0)
<1>1. /\ \A q \in Pids \ {p} : child'[q] = child[q] /\ work'[q] = work[q]
      /\ work'[p] = Tail(work[p]) /\ work[p] \in Seq(Messages)
  BY DEF Advance, TypeOK, ProcsType
<1>2. p # lock
  BY DEF LockOK, Alive
<1>3. LockOK'
  <2>1. lock # Nobody => lock \in Pids \ {p}
    BY <1>2 DEF TypeOK, FilesType
  <2> QED
    BY <1>1, <2>1 DEF LockOK, Alive, Exists, File
<1>4. WorkOK'
  <2>1. ASSUME NEW q \in Pids \ {p}, work'[q] # <<>> PROVE Alive(q, "copied")' \/ Alive(q, "run")'
    BY <1>1, <2>1 DEF WorkOK, Alive, Exists
  <2>2. Alive(p, "run")'
    BY DEF Alive, Exists
  <2> QED
    BY <2>1, <2>2 DEF WorkOK
<1>5. ASSUME NEW m
      PROVE  Total(MaxThreads + 1, Load(child', work', m)) =
               Total(MaxThreads + 1, Load(child, work, m)) - (IF Head(work[p]) = m THEN 1 ELSE 0)
  <2>1. /\ Load(child, work, m)[p] = Count(work[p], m)
        /\ Load(child', work', m)[p] = Count(Tail(work[p]), m)
    BY <1>1 DEF Load, Alive, Exists
  <2>2. Count(work[p], m) = Count(Tail(work[p]), m) + (IF Head(work[p]) = m THEN 1 ELSE 0)
    BY <1>1, CountTail
  <2>3. Count(Tail(work[p]), m) \in Nat
    BY <1>1, HeadTailProperties, CountType
  <2> QED
    BY <1>1, <2>1, <2>2, <2>3, LoadChange
<1> QED
  BY <1>3, <1>4, <1>5

LEMMA HandleStep ==
    ASSUME TypeOK, TypeOK', LockOK, WorkOK, InPlace, NEW p \in Pids, Handle(p)
    PROVE  LockOK' /\ WorkOK' /\ InPlace'
<1>1. /\ UNCHANGED <<requests, batch, sent, lock, child, killed>> /\ Alive(p, "run") /\ work[p] # <<>>
      /\ Advance(p)
      /\ handled' = [handled EXCEPT ![Head(work[p])] = @ + 1]
  BY DEF Handle, files
<1>2. LockOK' /\ WorkOK'
  BY <1>1, AdvanceSteps
<1>3. ASSUME NEW m \in Messages PROVE Placed(m)'
  <2>1. Total(MaxThreads + 1, Load(child', work', m)) =
          Total(MaxThreads + 1, Load(child, work, m)) - (IF Head(work[p]) = m THEN 1 ELSE 0)
    BY <1>1, AdvanceSteps
  <2>2. handled'[m] = handled[m] + (IF Head(work[p]) = m THEN 1 ELSE 0) /\ handled[m] \in Nat
    BY <1>1 DEF TypeOK, ProcsType
  <2>3. Total(MaxThreads + 1, Load(child, work, m)) \in Int
    <3>1. /\ Load(child, work, m) \in [1..(MaxThreads + 1) -> Nat] /\ MaxThreads + 1 \in Nat
      BY LoadType DEF TypeOK, ProcsType
    <3>2. Load(child, work, m) \in [1..(MaxThreads + 1) -> Int]
      BY <3>1
    <3> QED
      BY <3>1, <3>2, TotalType
  <2>4. InFiles(requests, batch, m) \in Nat
    BY InFilesType DEF TypeOK, FilesType
  <2>5. /\ Copies(m) = InFiles(requests, batch, m) + Total(MaxThreads + 1, Load(child, work, m)) + handled[m]
        /\ Copies(m)' = InFiles(requests, batch, m) + Total(MaxThreads + 1, Load(child', work', m)) + handled'[m]
    BY <1>1, CopiesIs
  <2>6. Copies(m)' = Copies(m)
    BY <2>1, <2>2, <2>3, <2>4, <2>5
  <2> QED
    BY <1>1, <2>6, PlacedKeeps DEF InPlace
<1> QED
  BY <1>2, <1>3 DEF InPlace

LEMMA DeferStep ==
    ASSUME TypeOK, TypeOK', LockOK, WorkOK, InPlace, NEW p \in Pids, Defer(p)
    PROVE  LockOK' /\ WorkOK' /\ InPlace'
<1>1. /\ UNCHANGED <<requests, sent, lock, child, killed, handled>> /\ Alive(p, "run") /\ work[p] # <<>>
      /\ Advance(p) /\ lock = Nobody
      /\ batch' = Append(IF batch = NoFile THEN <<>> ELSE batch, Head(work[p]))
  BY DEF Defer
<1>2. LockOK' /\ WorkOK'
  BY <1>1, AdvanceSteps
<1>3. ASSUME NEW m \in Messages PROVE Placed(m)'
  <2>1. Total(MaxThreads + 1, Load(child', work', m)) =
          Total(MaxThreads + 1, Load(child, work, m)) - (IF Head(work[p]) = m THEN 1 ELSE 0)
    BY <1>1, AdvanceSteps
  <2>2. InFiles(requests', batch', m) = InFiles(requests, batch, m) + (IF Head(work[p]) = m THEN 1 ELSE 0)
    <3>1. requests \in Seq(Messages) /\ (batch # NoFile => batch \in Seq(Messages)) /\ <<>> \in Seq(Messages)
      BY EmptySeq DEF TypeOK, FilesType
    <3>2. Head(work[p]) \in Messages
      BY <1>1, HeadTailProperties DEF TypeOK, ProcsType
    <3>3. Count(requests, m) \in Nat /\ (batch # NoFile => Count(batch, m) \in Nat) /\ Count(<<>>, m) = 0
      BY <3>1, CountType, CountEmpty
    <3>4. batch' # NoFile
      <4>1. batch' \in Seq(Messages)
        BY <1>1, <3>1, <3>2, AppendProperties
      <4> QED
        BY <4>1, RequestsAssumption
    <3>5. CASE batch = NoFile
      <4>1. Count(batch', m) = Count(<<>>, m) + (IF Head(work[p]) = m THEN 1 ELSE 0)
        <5>1. batch' = Append(<<>>, Head(work[p]))
          BY <1>1, <3>5
        <5> QED
          BY <3>1, <3>2, <5>1, CountAppend
      <4> QED
        BY <1>1, <3>3, <3>4, <3>5, <4>1 DEF InFiles
    <3>6. CASE batch # NoFile
      <4>1. Count(batch', m) = Count(batch, m) + (IF Head(work[p]) = m THEN 1 ELSE 0)
        BY <1>1, <3>1, <3>2, <3>6, CountAppend
      <4> QED
        BY <1>1, <3>3, <3>4, <3>6, <4>1 DEF InFiles
    <3> QED
      BY <3>5, <3>6
  <2>3. Total(MaxThreads + 1, Load(child, work, m)) \in Int
    <3>1. /\ Load(child, work, m) \in [1..(MaxThreads + 1) -> Nat] /\ MaxThreads + 1 \in Nat
      BY LoadType DEF TypeOK, ProcsType
    <3>2. Load(child, work, m) \in [1..(MaxThreads + 1) -> Int]
      BY <3>1
    <3> QED
      BY <3>1, <3>2, TotalType
  <2>4. InFiles(requests, batch, m) \in Nat /\ handled[m] \in Nat
    BY InFilesType DEF TypeOK, FilesType, ProcsType
  <2>5. /\ Copies(m) = InFiles(requests, batch, m) + Total(MaxThreads + 1, Load(child, work, m)) + handled[m]
        /\ Copies(m)' = InFiles(requests', batch', m) + Total(MaxThreads + 1, Load(child', work', m)) + handled[m]
    BY <1>1, CopiesIs
  <2>6. Copies(m)' = Copies(m)
    BY <2>1, <2>2, <2>3, <2>4, <2>5
  <2> QED
    BY <1>1, <2>6, PlacedKeeps DEF InPlace
<1> QED
  BY <1>2, <1>3 DEF InPlace

-----------------------------------------------------------------------------
(* serverd's table *)

\* A step that leaves the table and the pids in use alone.
LEMMA TrackKept ==
    ASSUME TableOK, Tracked, forkFails \in Nat, forkFails' \in Nat, forkFails <= forkFails',
           up' => up /\ UNCHANGED table /\ \A p \in Pids : Exists(p)' <=> Exists(p),
           thread \in [Slots -> Pids \cup {NoPid, Failed}], nreqforks \in Slots,
           MaxThreads \in Nat
    PROVE  TableOK' /\ Tracked'
<1>1. up' /\ forkFails' = 0 => up /\ forkFails = 0
  OBVIOUS
<1>2. TableOK'
  BY <1>1 DEF TableOK, table
<1>3. Tracked'
  <2> SUFFICES ASSUME up', forkFails' = 0
               PROVE  /\ \A p \in Pids : child'[p] # NoChild => Known(p)'
                      /\ \A i \in InUse' : thread'[i] # NoPid /\ child'[thread'[i]] # NoChild
                      /\ \A i, j \in InUse' : thread'[i] = thread'[j] => i = j
    BY DEF Tracked, Exists
  <2>1. thread' = thread /\ nreqforks' = nreqforks /\ InUse' = InUse
    BY DEF table, InUse
  <2>2. \A p : Known(p)' <=> Known(p)
    BY <2>1 DEF Known
  <2>3. \A i \in InUse : i \in Slots
    BY DEF InUse, Slots
  <2>4. \A i \in InUse : thread[i] # NoPid /\ thread[i] # Failed /\ thread[i] \in Pids
    BY <1>1, <2>3 DEF Tracked, TableOK
  <2> QED
    BY <1>1, <2>1, <2>2, <2>4 DEF Tracked, Exists
<1> QED
  BY <1>2, <1>3

\* The slots behind the collected process move down.
LEMMA HandleChildTracks ==
    ASSUME TypeOK, TableOK, Tracked, up, NEW p \in Pids, Zombie(p), HandleChild(p), Calm
    PROVE  TableOK' /\ Tracked'
<1>1. CASE ~up'
  BY <1>1 DEF TableOK, Tracked
<1>2. CASE forkFails # 0
  BY <1>2 DEF TableOK, Tracked, Calm, bounds
<1>3. CASE up' /\ forkFails = 0
  <2> DEFINE n == nreqforks
             i == CHOOSE j \in InUse : thread[j] = p /\ \A k \in InUse : k < j => thread[k] # p
  <2>1. Known(p) /\ Exists(p)
    BY <1>3, ProcessFields DEF Tracked
  <2>2. PICK h \in InUse : thread[h] = p
    BY <2>1 DEF Known
  <2>3. n \in Nat /\ n <= MaxThreads /\ MaxThreads \in Nat /\ InUse = 0..(n - 1)
        /\ thread \in [Slots -> Pids \cup {NoPid, Failed}]
    BY RequestsAssumption DEF TypeOK, LoopType, Slots, InUse
  <2>4. \A k \in InUse : thread[k] = p => k = h
    BY <1>3, <2>2 DEF Tracked
  <2>5. i \in InUse /\ thread[i] = p
    <3>1. thread[h] = p /\ \A k \in InUse : k < h => thread[k] # p
      BY <2>2, <2>3, <2>4
    <3> QED
      BY <2>2, <3>1
  <2>6. \A k \in InUse : thread[k] = p => k = i
    BY <2>4, <2>5
  <2>7. /\ child' = [child EXCEPT ![p] = NoChild] /\ nreqforks' = n - 1 /\ thread' = Removed(i)
        /\ forkFails' = 0
    BY <1>3, <2>1 DEF HandleChild, Die, Calm, bounds
  <2> HIDE DEF i
  <2>8. /\ \A j \in Slots : thread'[j] = IF i <= j /\ j < n THEN thread[j + 1] ELSE thread[j]
        /\ i \in 0..(n - 1) /\ InUse' = 0..(n - 2)
    BY <2>3, <2>5, <2>7 DEF Removed, InUse
  <2>9. \A j \in Slots : thread'[j] # Failed
    <3>1. \A j \in Slots : j < n => j + 1 \in Slots
      BY <2>3 DEF Slots
    <3> QED
      BY <1>3, <2>8, <3>1 DEF TableOK
  <2>10. /\ \A q \in Pids \ {p} : child'[q] = child[q]
         /\ child'[p] = NoChild /\ \A q \in Pids : q \in DOMAIN child
    BY <2>7 DEF TypeOK, ProcsType
  <2>11. ASSUME NEW q \in Pids, child'[q] # NoChild PROVE \E k \in InUse' : thread'[k] = q
    <3>1. q # p /\ Known(q)
      BY <1>3, <2>10, <2>11 DEF Tracked, Exists
    <3>2. PICK k \in InUse : thread[k] = q
      BY <3>1 DEF Known
    <3>3. k # i
      BY <2>5, <3>1, <3>2
    <3>4. CASE k < i
      <4>1. k \in InUse' /\ k \in Slots
        BY <2>3, <2>8, <3>2, <3>4 DEF Slots
      <4> QED
        BY <2>3, <2>8, <3>2, <3>4, <4>1
    <3>5. CASE k > i
      <4>1. k - 1 \in InUse' /\ k - 1 \in Slots /\ i <= k - 1 /\ k - 1 < n /\ (k - 1) + 1 = k
        BY <2>3, <2>8, <3>2, <3>5 DEF Slots
      <4>2. thread'[k - 1] = thread[k]
        BY <2>8, <4>1
      <4> QED
        BY <3>2, <4>1, <4>2
    <3> QED
      BY <2>3, <2>8, <3>2, <3>3, <3>4, <3>5
  \* Each slot in use holds what another slot held.
  <2>12. ASSUME NEW j \in InUse'
         PROVE  LET k == IF j < i THEN j ELSE j + 1
                IN  k \in InUse \ {i} /\ thread'[j] = thread[k]
    <3>1. j \in Slots /\ j \in Int /\ j < n - 1 /\ 0 <= j
      BY <2>3, <2>8, <2>12 DEF Slots
    <3> QED
      BY <2>3, <2>8, <3>1
  <2>13. \A k \in InUse \ {i} : /\ thread[k] # NoPid /\ thread[k] \in Pids \ {p}
                                /\ child[thread[k]] # NoChild
    <3>1. \A k \in InUse : k \in Slots
      BY <2>3 DEF Slots
    <3> QED
      BY <1>3, <2>3, <2>6, <3>1 DEF Tracked, TableOK, Exists
  <2>14. ASSUME NEW j \in InUse' PROVE thread'[j] # NoPid /\ child'[thread'[j]] # NoChild
    BY <2>10, <2>12, <2>13
  <2>15. ASSUME NEW j \in InUse', NEW k \in InUse', thread'[j] = thread'[k] PROVE j = k
    <3> DEFINE a == IF j < i THEN j ELSE j + 1
               b == IF k < i THEN k ELSE k + 1
    <3>1. a \in InUse /\ b \in InUse /\ thread[a] = thread[b]
      BY <2>12, <2>15
    <3>2. a = b
      BY <1>3, <3>1 DEF Tracked
    <3> QED
      BY <2>8, <3>2
  <2> QED
    BY <2>9, <2>11, <2>14, <2>15 DEF TableOK, Tracked, Known, Exists
<1> QED
  BY <1>1, <1>2, <1>3

\* A new process is entered behind the last one.
LEMMA SpawnTracks ==
    ASSUME TypeOK, TypeOK', TableOK, Tracked, UNCHANGED up, NEW kind \in Kinds, MaySpawn,
           Spawn(kind) \/ SpawnTimed(kind)
    PROVE  TableOK' /\ Tracked'
<1> DEFINE n == nreqforks
<1>1. PICK pid \in Pids \cup {Failed} :
        /\ RunProgram(kind, pid) /\ thread' = [thread EXCEPT ![n] = pid]
        /\ nreqforks' = (IF pid = Failed THEN n ELSE n + 1)
             \/ nreqforks' = IF thread[n + 1] = Failed THEN n ELSE n + 1
  BY DEF Spawn, SpawnTimed
<1>2. CASE ~(up /\ forkFails = 0) \/ pid = Failed
  <2>1. ~(up' /\ forkFails' = 0)
    <3>1. forkFails \in Nat
      BY DEF TypeOK, LoopType
    <3>2. pid = Failed => forkFails' = forkFails + 1
      BY <1>1, FreePidIsFree DEF RunProgram, ForkFail, Pids, Failed
    <3>3. forkFails' = forkFails \/ forkFails' = forkFails + 1
      BY <1>1 DEF RunProgram, Calm, ForkFail, bounds
    <3> QED
      BY <1>2, <3>1, <3>2, <3>3
  <2> QED
    BY <2>1 DEF TableOK, Tracked
<1>3. CASE up /\ forkFails = 0 /\ pid # Failed
  <2>1. /\ n \in Nat /\ n + 1 <= MaxThreads /\ MaxThreads \in Nat /\ InUse = 0..(n - 1)
        /\ thread \in [Slots -> Pids \cup {NoPid, Failed}]
    BY RequestsAssumption DEF TypeOK, LoopType, Slots, InUse, MaySpawn
  <2>2. n \in Slots /\ n + 1 \in Slots
    BY <2>1 DEF Slots
  <2>3. nreqforks' = n + 1 /\ InUse' = 0..n
    <3>1. thread[n + 1] # Failed
      BY <1>3, <2>2 DEF TableOK
    <3>2. nreqforks' = n + 1
      BY <1>1, <1>3, <3>1
    <3> QED
      BY <2>1, <3>2 DEF InUse
  <2>4. ~Exists(pid) /\ pid \in Pids /\ forkFails' = 0
        /\ child' = [child EXCEPT ![pid] = [kind |-> kind, st |-> First(kind), code |-> "ok"]]
    BY <1>1, <1>3, FreePidIsFree DEF RunProgram, Calm, bounds
  <2>5. \A q \in Pids : child'[q] # NoChild <=> child[q] # NoChild \/ q = pid
    <3>1. [kind |-> kind, st |-> First(kind), code |-> "ok"] # NoChild
      BY DEF First, NoChild
    <3> QED
      BY <2>4, <3>1 DEF TypeOK, ProcsType
  <2>6. /\ \A j \in Slots \ {n} : thread'[j] = thread[j]
        /\ thread'[n] = pid
    BY <1>1, <2>1, <2>2
  <2>7. \A j \in InUse' : j \in InUse \/ j = n
    BY <2>1, <2>3
  <2>8. \A j \in InUse : j \in InUse' /\ j \in Slots \ {n} /\ thread'[j] = thread[j]
    <3>1. \A j \in InUse : j \in InUse' /\ j \in Slots \ {n}
      BY <2>1, <2>3 DEF Slots
    <3> QED
      BY <2>6, <3>1
  <2>9. \A j \in InUse : thread[j] \in Pids /\ thread[j] # pid /\ child[thread[j]] # NoChild
    BY <1>3, <2>1, <2>4, <2>8 DEF Tracked, TableOK, Exists
  <2>10. \A j \in Slots : thread'[j] # Failed
    BY <1>3, <2>6 DEF TableOK
  <2>11. ASSUME NEW q \in Pids, child'[q] # NoChild PROVE \E k \in InUse' : thread'[k] = q
    <3>1. CASE q = pid
      BY <2>1, <2>3, <2>6, <3>1
    <3>2. CASE q # pid
      BY <1>3, <2>5, <2>8, <2>11, <3>2 DEF Tracked, Known, Exists
    <3> QED
      BY <3>1, <3>2
  <2>12. ASSUME NEW j \in InUse' PROVE thread'[j] # NoPid /\ child'[thread'[j]] # NoChild
    <3>1. pid # NoPid /\ \A q \in Pids : q # NoPid
      BY <2>4 DEF Pids, NoPid
    <3> QED
      BY <2>4, <2>5, <2>6, <2>7, <2>8, <2>9, <2>12, <3>1
  <2>13. ASSUME NEW j \in InUse', NEW k \in InUse', thread'[j] = thread'[k] PROVE j = k
    BY <1>3, <2>6, <2>7, <2>8, <2>9, <2>13 DEF Tracked
  <2> QED
    BY <2>10, <2>11, <2>12, <2>13 DEF TableOK, Tracked, Known, Exists
<1> QED
  BY <1>2, <1>3

-----------------------------------------------------------------------------
(* The invariant *)

\* A pass of serverd's loop, or a signal, in which a child is collected.
LEMMA CollectStep ==
    ASSUME TypeOK, TypeOK', IInv, up, NEW p \in Pids, Zombie(p), HandleChild(p), Calm
    PROVE  LockOK' /\ WorkOK' /\ InPlace' /\ TableOK' /\ Tracked'
<1> USE DEF IInv
<1>1. TableOK' /\ Tracked'
  BY HandleChildTracks
<1>2. work[p] = <<>>
  BY DEF WorkOK, Alive, Zombie
<1>3. LockOK' /\ WorkOK' /\ InPlace'
  <2>1. CASE Die
    <3>1. /\ UNCHANGED <<requests, batch, sent, handled>>
          /\ killed => killed'
          /\ lock' = lock \/ lock' = Nobody
      BY <2>1 DEF Die
    <3>2. ASSUME NEW q \in Pids
          PROVE  \/ child'[q] = child[q] /\ work'[q] = work[q] /\ (q = lock => lock' = lock)
                 \/ /\ work'[q] = <<>> /\ (work[q] = <<>> \/ killed')
                    /\ ~Alive(q, "copied")' /\ (q = lock => lock' = Nobody)
      <4>1. CASE Hit(q)
        <5>1. work[q] = <<>> \/ killed'
          BY <2>1, <4>1 DEF Die, WorkOK, Alive, Zombie
        <5> QED
          BY <2>1, <4>1, <5>1 DEF Die, Alive, Exists
      <4>2. CASE ~Hit(q) /\ Zombie(q)
        <5>1. work[q] = <<>> /\ q # lock
          BY <4>2 DEF WorkOK, LockOK, Alive, Zombie
        <5> QED
          BY <2>1, <4>2, <5>1 DEF Die, Alive, Exists
      <4>3. CASE ~Hit(q) /\ ~Zombie(q)
        BY <2>1, <4>3 DEF Die
      <4> QED
        BY <4>1, <4>2, <4>3
    <3>3. LockOK /\ WorkOK /\ InPlace
      OBVIOUS
    <3> HIDE DEF IInv
    <3> QED
      BY <3>1, <3>2, <3>3, QuietKeeps
  <2>2. CASE ~Die
    <3>1. UNCHANGED <<requests, batch, sent, handled, killed, lock, work>>
          /\ child' = [child EXCEPT ![p] = NoChild]
      BY <2>2 DEF HandleChild, files
    <3>2. p # lock
      BY DEF LockOK, Alive, Zombie
    <3>3. ~Alive(p, "copied")' /\ \A q \in Pids \ {p} : child'[q] = child[q]
      BY <3>1 DEF Alive, Exists, TypeOK, ProcsType
    <3> QED
      BY <1>2, <3>1, <3>2, <3>3, QuietKeeps
  <2> QED
    BY <2>1, <2>2
<1> QED
  BY <1>1, <1>3

LEMMA SpawnStep ==
    ASSUME TypeOK, TypeOK', IInv, UNCHANGED <<files, work, handled, killed, up>>,
           Still \/ \E kind \in Kinds : MaySpawn /\ (Spawn(kind) \/ SpawnTimed(kind))
    PROVE  LockOK' /\ WorkOK' /\ InPlace' /\ TableOK' /\ Tracked'
<1> USE DEF IInv
<1>1. CASE Still
  <2>1. LockOK' /\ WorkOK' /\ InPlace'
    BY <1>1, QuietKeeps DEF Still, files
  <2>2. TableOK' /\ Tracked'
    BY <1>1, TrackKept, RequestsAssumption DEF Still, bounds, Exists, TypeOK, LoopType
  <2> QED
    BY <2>1, <2>2
<1>2. ASSUME NEW kind \in Kinds, MaySpawn, Spawn(kind) \/ SpawnTimed(kind)
      PROVE  LockOK' /\ WorkOK' /\ InPlace' /\ TableOK' /\ Tracked'
  <2>1. TableOK' /\ Tracked'
    BY <1>2, SpawnTracks
  <2>2. PICK pid \in Pids \cup {Failed} : RunProgram(kind, pid)
    BY <1>2 DEF Spawn, SpawnTimed
  <2>3. CASE UNCHANGED child
    BY <2>1, <2>3, QuietKeeps DEF files
  <2>4. CASE child' = [child EXCEPT ![pid] = [kind |-> kind, st |-> First(kind), code |-> "ok"]]
             /\ pid \in Pids /\ ~Exists(pid)
    <3>1. pid # lock /\ work[pid] = <<>>
      BY <2>4 DEF LockOK, WorkOK, Alive
    <3>2. ~Alive(pid, "copied")' /\ \A q \in Pids \ {pid} : child'[q] = child[q]
      BY <2>4 DEF Alive, First, TypeOK, ProcsType
    <3> QED
      BY <2>1, <2>4, <3>1, <3>2, QuietKeeps DEF files
  <2> QED
    BY <2>2, <2>3, <2>4, FreePidIsFree DEF RunProgram
<1> QED
  BY <1>1, <1>2

\* A step of listproc in which it changes its state only, or dies.
LEMMA ListprocQuiet ==
    ASSUME TypeOK, TypeOK', IInv, NEW p \in Pids,
           Look(p) \/ Finish(p) \/ FinishUnusual(p) \/ Kill(p)
    PROVE  LockOK' /\ WorkOK' /\ InPlace' /\ TableOK' /\ Tracked'
<1> USE DEF IInv
<1>1. /\ Exists(p) /\ UNCHANGED <<up, table, requests, batch, sent, handled>>
      /\ killed => killed'
      /\ \A q \in Pids \ {p} : child'[q] = child[q] /\ work'[q] = work[q]
  BY DEF Look, Finish, FinishUnusual, Kill, Ends, Goto, Alive, files, loop, procs, TypeOK, ProcsType
<1>2. ~Alive(p, "copied")' /\ (up => Exists(p)')
  <2>1. child[p] \in Process
    BY <1>1, ProcessFields
  <2>2. ASSUME NEW st \in {"run", "take"}, Goto(p, st) PROVE ~Alive(p, "copied")' /\ Exists(p)'
    <3>1. child'[p] = [child[p] EXCEPT !.st = st]
      BY <2>2 DEF Goto, TypeOK, ProcsType
    <3>2. child'[p].st = st /\ child'[p].st # "none" /\ child'[p] # NoChild
      BY <2>1, <3>1 DEF Process, NoChild
    <3> QED
      BY <3>2 DEF Alive, Exists
  <2>3. ASSUME NEW code, Ends(p, code) PROVE ~Alive(p, "copied")' /\ (up => Exists(p)')
    <3>1. child'[p] = IF up THEN [child[p] EXCEPT !.st = "zombie", !.code = code] ELSE NoChild
      BY <2>3 DEF Ends, TypeOK, ProcsType
    <3>2. CASE up
      <4>1. child'[p].st = "zombie" /\ child'[p] # NoChild
        BY <2>1, <3>1, <3>2 DEF Process, NoChild
      <4> QED
        BY <4>1 DEF Alive, Exists
    <3>3. CASE ~up
      BY <3>1, <3>3 DEF Alive, Exists
    <3> QED
      BY <3>2, <3>3
  <2> QED
    BY <2>2, <2>3 DEF Look, Finish, FinishUnusual, Kill
<1>3. LockOK' /\ WorkOK' /\ InPlace'
  <2>1. CASE Look(p) \/ Finish(p) \/ FinishUnusual(p)
    <3>1. UNCHANGED <<lock, work>> /\ work[p] = <<>> /\ p # lock
      BY <2>1 DEF Look, Finish, FinishUnusual, Alive, files, WorkOK, LockOK
    <3> QED
      BY <1>1, <1>2, <3>1, QuietKeeps
  <2>2. CASE Kill(p)
    <3>1. killed' /\ work'[p] = <<>> /\ lock' = IF lock = p THEN Nobody ELSE lock
      BY <2>2 DEF Kill, TypeOK, ProcsType
    <3> QED
      BY <1>1, <1>2, <3>1, QuietKeeps
  <2> QED
    BY <2>1, <2>2
<1>4. TableOK' /\ Tracked'
  <2>1. forkFails \in Nat /\ forkFails' = forkFails
    BY DEF Look, Finish, FinishUnusual, Kill, Calm, Fault, bounds, TypeOK, LoopType
  <2>2. up => \A q \in Pids : Exists(q)' <=> Exists(q)
    BY <1>1, <1>2 DEF Exists
  <2>3. /\ thread \in [Slots -> Pids \cup {NoPid, Failed}] /\ nreqforks \in Slots
        /\ MaxThreads \in Nat
    BY RequestsAssumption DEF TypeOK, LoopType
  <2> QED
    BY <1>1, <2>1, <2>2, <2>3, TrackKept
<1> QED
  BY <1>3, <1>4

\* A step that leaves processes and table as they are tracks them.
LEMMA StillTracked ==
    ASSUME TypeOK, TableOK, Tracked, UNCHANGED <<child, up, table, forkFails>>
    PROVE  TableOK' /\ Tracked'
<1>1. \A p \in Pids : Exists(p)' <=> Exists(p)
  BY DEF Exists
<1> QED
  BY <1>1, TrackKept, RequestsAssumption DEF TypeOK, LoopType

LEMMA RestartStep ==
    ASSUME TypeOK, TypeOK', IInv, Restart
    PROVE  LockOK' /\ WorkOK' /\ InPlace' /\ TableOK' /\ Tracked'
<1> USE DEF IInv
<1>1. /\ UNCHANGED <<requests, batch, sent, handled>> /\ lock' = Nobody
      /\ killed' = (killed \/ \E p \in Pids : Exists(p))
      /\ \A p \in Pids : child'[p] = NoChild /\ work'[p] = <<>>
      /\ \A i \in Slots : thread'[i] = NoPid
      /\ nreqforks' = 0
  BY DEF Restart
<1>2. \A p \in Pids : work[p] = <<>> \/ killed'
  BY <1>1 DEF WorkOK, Alive
<1>3. \A p \in Pids : ~Alive(p, "copied")'
  BY <1>1 DEF Alive, Exists
<1>4. LockOK' /\ WorkOK' /\ InPlace'
  BY <1>1, <1>2, <1>3, QuietKeeps
<1>5. TableOK' /\ Tracked'
  BY <1>1 DEF TableOK, Tracked, InUse, Exists, NoPid, Failed
<1> QED
  BY <1>4, <1>5

LEMMA InvStep == TypeOK /\ TypeOK' /\ FileOK' /\ IInv /\ [Next]_vars => IInv'
<1> SUFFICES ASSUME TypeOK, TypeOK', FileOK', IInv, [Next]_vars
             PROVE  LockOK' /\ WorkOK' /\ InPlace' /\ TableOK' /\ Tracked'
  BY DEF IInv
<1>0. LockOK /\ FileOK /\ WorkOK /\ InPlace /\ TableOK /\ Tracked
  BY DEF IInv
<1>1. ASSUME UNCHANGED <<files, procs, up, table, forkFails>>
      PROVE  LockOK' /\ WorkOK' /\ InPlace' /\ TableOK' /\ Tracked'
  BY <1>0, <1>1, QuietKeeps, StillTracked DEF files, procs
<1>2. CASE UNCHANGED vars
  BY <1>1, <1>2 DEF vars, loop, bounds
<1>3. CASE StartLoop \/ NewDay
  BY <1>1, <1>3 DEF StartLoop, NewDay, Calm, Fault, bounds, table
<1>4. ASSUME NEW n \in ThreadChoices, EditConfig(n)
      PROVE  LockOK' /\ WorkOK' /\ InPlace' /\ TableOK' /\ Tracked'
  BY <1>1, <1>4 DEF EditConfig, Fault, loop
<1>5. CASE SigChld \/ CheckZombies
  <2>1. up /\ Calm
    BY <1>5 DEF SigChld, CheckZombies
  <2>2. \/ UNCHANGED <<files, procs, up, table>>
        \/ \E p \in Pids : Zombie(p) /\ HandleChild(p)
    BY <1>5 DEF SigChld, CheckZombies
  <2> QED
    BY <1>1, <2>1, <2>2, CollectStep DEF Calm, bounds
<1>6. CASE CheckBatch \/ CheckRequests \/ CheckPublish \/ CheckAfd
  <2>1. UNCHANGED <<files, work, handled, killed, up>>
    BY <1>6 DEF CheckBatch, CheckRequests, CheckPublish, CheckAfd, Timed
  <2>2. Still \/ \E kind \in Kinds : MaySpawn /\ (Spawn(kind) \/ SpawnTimed(kind))
    BY <1>6 DEF CheckBatch, BatchDue, CheckRequests, RequestsDue, CheckPublish, CheckAfd, Timed, Kinds
  <2> QED
    BY <2>1, <2>2, SpawnStep
<1>7. ASSUME NEW m \in Messages, AppendRequest(m)
      PROVE  LockOK' /\ WorkOK' /\ InPlace' /\ TableOK' /\ Tracked'
  <2>1. UNCHANGED <<child, up, table, forkFails>>
    BY <1>7 DEF AppendRequest, procs, loop, Calm, bounds
  <2> QED
    BY <1>0, <1>7, <2>1, AppendRequestStep, StillTracked
<1>8. ASSUME NEW p \in Pids, Copy(p) \/ Empty(p) \/ Handle(p) \/ Defer(p)
      PROVE  LockOK' /\ WorkOK' /\ InPlace' /\ TableOK' /\ Tracked'
  <2>1. LockOK' /\ WorkOK' /\ InPlace'
    BY <1>0, <1>8, CopyStep, EmptyStep, HandleStep, DeferStep
  <2>2. UNCHANGED <<up, table, forkFails>>
    BY <1>8 DEF Copy, Empty, Handle, Defer, loop, Calm, Fault, bounds
  <2>3. \A q \in Pids : Exists(q)' <=> Exists(q)
    <3>1. CASE Handle(p) \/ Defer(p)
      BY <3>1 DEF Handle, Defer, Exists
    <3>2. ASSUME NEW st \in {"copied", "run"}, Exists(p), Goto(p, st) PROVE \A q \in Pids : Exists(q)' <=> Exists(q)
      <4>1. child[p] \in Process
        BY <3>2, ProcessFields
      <4>2. /\ child'[p] = [child[p] EXCEPT !.st = st]
            /\ \A q \in Pids \ {p} : child'[q] = child[q]
        BY <3>2 DEF Goto, TypeOK, ProcsType
      <4>3. child'[p] # NoChild
        BY <4>1, <4>2 DEF Process, NoChild
      <4> QED
        BY <3>2, <4>2, <4>3 DEF Exists
    <3> QED
      BY <1>8, <3>1, <3>2 DEF Copy, Empty, Alive
  <2>4. /\ thread \in [Slots -> Pids \cup {NoPid, Failed}] /\ nreqforks \in Slots
        /\ MaxThreads \in Nat /\ forkFails \in Nat
    BY RequestsAssumption DEF TypeOK, LoopType
  <2> QED
    BY <1>0, <2>1, <2>2, <2>3, <2>4, TrackKept
<1>9. ASSUME NEW p \in Pids, Look(p) \/ Finish(p) \/ FinishUnusual(p) \/ Kill(p)
      PROVE  LockOK' /\ WorkOK' /\ InPlace' /\ TableOK' /\ Tracked'
  BY <1>9, ListprocQuiet
<1> QED
  BY <1>2, <1>3, <1>4, <1>5, <1>6, <1>7, <1>8, <1>9, RestartStep DEF Next, Loop, ListprocStep

LEMMA InitInv == Init => IInv
<1> SUFFICES ASSUME Init PROVE IInv
  OBVIOUS
<1>1. FileOK /\ TypeOK
  BY InitTypes
<1>2. LockOK /\ WorkOK
  BY DEF Init, LockOK, WorkOK, Alive, Exists, Nobody, Pids
<1>3. TableOK /\ Tracked
  BY DEF Init, TableOK, Tracked, Exists, InUse, NoPid, Failed
<1>4. ASSUME NEW m \in Messages PROVE Copies(m) = 0
  <2>1. Load(child, work, m) \in [1..(MaxThreads + 1) -> Nat] /\ MaxThreads + 1 \in Nat
    BY <1>1, LoadType DEF TypeOK, ProcsType
  <2>2. /\ Load(child, work, m) \in [1..(MaxThreads + 1) -> Int]
        /\ \A l \in 1..(MaxThreads + 1) : Load(child, work, m)[l] = 0
    BY <2>1 DEF Init, Load, Pids
  <2>3. Total(MaxThreads + 1, Load(child, work, m)) = 0
    BY <2>1, <2>2, TotalOfZeros
  <2>4. InFiles(requests, batch, m) = 0 /\ handled[m] = 0
    BY CountEmpty DEF Init, InFiles
  <2> QED
    BY <2>3, <2>4, CopiesIs
<1> QED
  BY <1>1, <1>2, <1>3, <1>4 DEF IInv, InPlace, Placed, Init

LEMMA Invariant == Spec => [](TypeOK /\ IInv)
<1>1. Init => TypeOK /\ IInv
  BY InitTypes, InitInv
<1>2. TypeOK /\ IInv /\ [Next]_vars => TypeOK' /\ IInv'
  <2>1. TypeOK /\ IInv /\ [Next]_vars => TypeOK' /\ FileOK'
    BY FilesStep, ProcsStep, LoopStep, FileStep DEF TypeOK, IInv
  <2> QED
    BY <2>1, InvStep
<1> QED
  BY <1>1, <1>2, PTL DEF Spec

\* src/bins/serverd/serverd.c:1316: a request is in one place and carried out
\* once, unless a listproc process was killed with its mail copy.
THEOREM Conservation == Spec => []Conserved
<1>1. TypeOK /\ IInv => Conserved
  <2> SUFFICES ASSUME TypeOK, IInv, NEW m \in sent PROVE Copies(m) <= 1 /\ (Copies(m) = 1 \/ killed)
    BY DEF Conserved
  <2>1. Placed(m)
    BY DEF IInv, InPlace, TypeOK, FilesType
  <2> QED
    BY <2>1 DEF Placed
<1> QED
  BY <1>1, Invariant, PTL

\* serverd.c:1964-1977, 1376-1427: as long as no fork fails, reqthreads holds
\* every listproc process once and nothing else.
THEOREM Tracking == Spec => []Tracked
<1>1. IInv => Tracked
  BY DEF IInv
<1> QED
  BY <1>1, Invariant, PTL

-----------------------------------------------------------------------------
(* FileUpdates: lemmas about its operators *)

LEMMA OrdersAre ==
  ASSUME NEW S, IsFiniteSet(S), NEW d \in Orders(S)
  PROVE  /\ d \in Seq(S) /\ Len(d) = Cardinality(S)
         /\ \A e \in S : \E i \in DOMAIN d : d[i] = e
<1>1. Cardinality(S) \in Nat
  BY FS_CardinalityType
<1>2. d \in [1 .. Cardinality(S) -> S] /\ IsInjective(d)
  BY DEF Orders
<1>3. d \in Seq(S) /\ Len(d) = Cardinality(S)
  BY <1>1, <1>2
<1>4. d \in Injection(1 .. Cardinality(S), S)
  BY <1>2 DEF Injection
<1>5. Cardinality(1 .. Cardinality(S)) = Cardinality(S)
  BY <1>1, FS_Interval
<1>6. d \in Surjection(1 .. Cardinality(S), S)
  BY <1>4, <1>5, FS_Injection
<1>7. QED
  BY <1>2, <1>3, <1>6 DEF Surjection

LEMMA SetToSeqOrders ==
  ASSUME NEW S, IsFiniteSet(S)
  PROVE  SetToSeq(S) \in Orders(S)
<1>1. ExistsBijection(1 .. Cardinality(S), S)
  BY FS_CardinalityType
<1>2. \E f \in [1 .. Cardinality(S) -> S] : IsInjective(f)
  BY <1>1 DEF ExistsBijection, Bijection, Injection
<1>3. QED
  BY <1>2 DEF SetToSeq, Orders

LEMMA EntriesAre ==
  ASSUME UTypeOK, NEW m \in Modes
  PROVE  /\ EntriesOf(m) \subseteq EntryRec /\ IsFiniteSet(EntriesOf(m))
         /\ \A e \in EntriesOf(m) : e = Entry(e.file, m) /\ e.file \in AfdFiles
         /\ \A f \in AfdFiles : Entry(f, m).who # {} => Entry(f, m) \in EntriesOf(m)
<1>1. ASSUME NEW f \in Lines PROVE Of(f, m) \subseteq Addresses
  BY <1>1 DEF UTypeOK, FstTables, Of
<1>2. ASSUME NEW f \in AfdFiles PROVE Entry(f, m) \in EntryRec /\ Entry(f, m).file = f
  BY <1>1 DEF Entry, EntryRec, Lines
<1>3. IsFiniteSet(EntriesOf(m))
  <2> DEFINE G == {g \in AfdFiles : Entry(g, m).who # {}}
             F == [f \in G |-> Entry(f, m)]
  <2>1. IsFiniteSet(G)
    BY UpdatesAssumption, FS_Subset
  <2>2. F \in Surjection(G, EntriesOf(m))
    BY DEF EntriesOf, Surjection
  <2>3. QED
    BY <2>1, <2>2, FS_Surjection
<1>4. QED
  BY <1>2, <1>3 DEF EntriesOf

LEMMA TasksAre ==
  ASSUME NEW list \in Seq(EntryRec)
  PROVE  /\ TasksOf(list) \in Seq(TaskRec)
         /\ \A i \in DOMAIN list : list[i].FST =>
              \E k \in DOMAIN TasksOf(list) :
                TasksOf(list)[k] = [table |-> "FST", file |-> list[i].file, sure |-> TRUE]
<1>1. /\ Len(list) \in Nat /\ 2 * Len(list) \in Nat /\ DOMAIN list = 1 .. Len(list)
      /\ \A i \in 1 .. Len(list) : list[i] \in EntryRec
  BY LenProperties, ElementOfSeq
<1>2. DOMAIN TasksOf(list) = 1 .. 2 * Len(list)
  BY DEF TasksOf
<1>3. ASSUME NEW k \in 1 .. 2 * Len(list) PROVE TasksOf(list)[k] \in TaskRec
  <2>1. (k + 1) \div 2 \in 1 .. Len(list)
    BY <1>1
  <2>2. list[(k + 1) \div 2] \in EntryRec
    BY <1>1, <2>1
  <2>3. QED
    BY <2>2 DEF TasksOf, TaskRec, EntryRec
<1>4. ASSUME NEW i \in DOMAIN list, list[i].FST
      PROVE  \E k \in DOMAIN TasksOf(list) :
               TasksOf(list)[k] = [table |-> "FST", file |-> list[i].file, sure |-> TRUE]
  <2>1. 2 * i - 1 \in 1 .. 2 * Len(list) /\ (2 * i - 1 + 1) \div 2 = i /\ (2 * i - 1) % 2 = 1
    BY <1>1
  <2>2. list[i].FST = TRUE
    BY <1>1, <1>4 DEF EntryRec
  <2>3. TasksOf(list)[2 * i - 1] = [table |-> "FST", file |-> list[i].file, sure |-> list[i].FST]
    BY <2>1 DEF TasksOf
  <2>4. QED
    BY <1>2, <2>1, <2>2, <2>3
<1>5. TasksOf(list) \in [1 .. 2 * Len(list) -> TaskRec]
  BY <1>3 DEF TasksOf
<1>6. TasksOf(list) \in Seq(TaskRec)
  BY <1>1, <1>5
<1>7. QED
  BY <1>4, <1>6

\* What Collect makes.
LEMMA CollectDoes ==
  ASSUME UTypeOK, Collect
  PROVE  /\ run'.st = "notify" /\ run' \in RunRec
         /\ \A e \in EntriesOf("D") : \E i \in DOMAIN run'.D : run'.D[i] = e
         /\ \A e \in EntriesOf("N") : \E i \in DOMAIN run'.N : run'.N[i] = e
         /\ \A i \in DOMAIN run'.D : run'.D[i] \in EntriesOf("D")
         /\ \A i \in DOMAIN run'.N : run'.N[i] \in EntriesOf("N")
         /\ "left" \notin happened' => Len(run'.D) <= 1
         /\ \A i \in DOMAIN run'.D : run'.D[i].FST =>
              [table |-> "FST", file |-> run'.D[i].file, sure |-> TRUE] \in Range(run'.tasks)
         /\ \A i \in DOMAIN run'.N : run'.N[i].FST =>
              [table |-> "FST", file |-> run'.N[i].file, sure |-> TRUE] \in Range(run'.tasks)
<1> DEFINE n == SetToSeq(EntriesOf("N"))
<1>1. PICK d \in Orders(EntriesOf("D")) :
        /\ run' = [run EXCEPT !.st = "notify", !.D = d, !.N = n, !.tasks = TasksOf(d) \o TasksOf(n)]
        /\ IF Len(d) > 1 THEN Occurs("left") ELSE UNCHANGED happened
  BY DEF Collect
<1>2. /\ d \in Seq(EntriesOf("D")) /\ \A e \in EntriesOf("D") : \E i \in DOMAIN d : d[i] = e
  BY EntriesAre, OrdersAre DEF Modes
<1>3. /\ n \in Seq(EntriesOf("N")) /\ \A e \in EntriesOf("N") : \E i \in DOMAIN n : n[i] = e
  <2>1. IsFiniteSet(EntriesOf("N"))
    BY EntriesAre DEF Modes
  <2>2. n \in Orders(EntriesOf("N"))
    BY <2>1, SetToSeqOrders
  <2> HIDE DEF n
  <2>3. QED
    BY <2>1, <2>2, OrdersAre
<1> HIDE DEF n
<1>4. d \in Seq(EntryRec) /\ n \in Seq(EntryRec)
  <2>1. EntriesOf("D") \subseteq EntryRec /\ EntriesOf("N") \subseteq EntryRec
    BY EntriesAre DEF Modes
  <2>2. QED
    BY <1>2, <1>3, <2>1, SeqMonotonic
<1>5. run \in RunRec
  BY DEF Collect, Running, UTypeOK
<1> DEFINE t == TasksOf(d) u == TasksOf(n)
<1>6. t \in Seq(TaskRec) /\ u \in Seq(TaskRec)
  BY <1>4, TasksAre
<1>7. ASSUME NEW i \in DOMAIN d, d[i].FST
      PROVE  \E k \in DOMAIN t : t[k] = [table |-> "FST", file |-> d[i].file, sure |-> TRUE]
  BY <1>4, <1>7, TasksAre
<1>8. ASSUME NEW i \in DOMAIN n, n[i].FST
      PROVE  \E k \in DOMAIN u : u[k] = [table |-> "FST", file |-> n[i].file, sure |-> TRUE]
  BY <1>4, <1>8, TasksAre
<1>9. run' = [run EXCEPT !.st = "notify", !.D = d, !.N = n, !.tasks = t \o u]
  BY <1>1
<1> HIDE DEF t, u
<1>10. /\ t \o u \in Seq(TaskRec)
       /\ \A k \in DOMAIN t : t[k] \in Range(t \o u)
       /\ \A k \in DOMAIN u : u[k] \in Range(t \o u)
  <2>1. t \o u \in Seq(TaskRec) /\ Len(t \o u) = Len(t) + Len(u) /\ DOMAIN (t \o u) = 1 .. Len(t) + Len(u)
        /\ Len(t) \in Nat /\ Len(u) \in Nat /\ DOMAIN t = 1 .. Len(t) /\ DOMAIN u = 1 .. Len(u)
        /\ \A k \in 1 .. Len(t) + Len(u) : (t \o u)[k] = IF k <= Len(t) THEN t[k] ELSE u[k - Len(t)]
    BY <1>6, ConcatProperties, LenProperties
  <2>2. ASSUME NEW k \in DOMAIN t PROVE t[k] \in Range(t \o u)
    BY <2>1, <2>2 DEF Range
  <2>3. ASSUME NEW k \in DOMAIN u PROVE u[k] \in Range(t \o u)
    <3>1. Len(t) + k \in DOMAIN (t \o u) /\ (t \o u)[Len(t) + k] = u[k]
      BY <2>1
    <3>2. QED
      BY <3>1 DEF Range
  <2>4. QED
    BY <2>1, <2>2, <2>3
<1>11. run'.st = "notify" /\ run'.D = d /\ run'.N = n /\ run'.tasks = t \o u /\ run' \in RunRec
  BY <1>4, <1>5, <1>9, <1>10 DEF RunRec
<1>12. "left" \notin happened' => Len(d) <= 1
  <2>1. Len(d) \in Nat
    BY <1>4, LenProperties
  <2>2. QED
    BY <1>1, <2>1 DEF Occurs
<1>13. /\ \A i \in DOMAIN d : d[i] \in EntriesOf("D")
       /\ \A i \in DOMAIN n : n[i] \in EntriesOf("N")
  BY <1>2, <1>3, ElementOfSeq, LenProperties
<1> HIDE DEF n
<1>14. /\ \A i \in DOMAIN d : d[i].FST =>
             [table |-> "FST", file |-> d[i].file, sure |-> TRUE] \in Range(t \o u)
       /\ \A i \in DOMAIN n : n[i].FST =>
             [table |-> "FST", file |-> n[i].file, sure |-> TRUE] \in Range(t \o u)
  <2>1. ASSUME NEW i \in DOMAIN d, d[i].FST
        PROVE  [table |-> "FST", file |-> d[i].file, sure |-> TRUE] \in Range(t \o u)
    <3>1. PICK k \in DOMAIN t : t[k] = [table |-> "FST", file |-> d[i].file, sure |-> TRUE]
      BY <1>7, <2>1
    <3>2. QED
      BY <1>10, <3>1
  <2>2. ASSUME NEW i \in DOMAIN n, n[i].FST
        PROVE  [table |-> "FST", file |-> n[i].file, sure |-> TRUE] \in Range(t \o u)
    <3>1. PICK k \in DOMAIN u : u[k] = [table |-> "FST", file |-> n[i].file, sure |-> TRUE]
      BY <1>8, <2>2
    <3>2. QED
      BY <1>10, <3>1
  <2>3. QED
    BY <2>1, <2>2
<1>15. run'.D = d /\ run'.N = n /\ run'.tasks = t \o u
  BY <1>11
<1>16. QED
  BY <1>2, <1>3, <1>11, <1>12, <1>13, <1>14, <1>15

-----------------------------------------------------------------------------
(* FileUpdates: types and the lock *)

\* A delivery at these stages has something to deliver, or to write.
StageOK ==
  Running => /\ run.st = "deliver" => run.D # <<>>
             /\ run.st = "write" => run.tasks # <<>>

\* A request has the lock from the copy of the SFT to the new FST.
Rewrites(p) == uproc[p].st \in {"sft", "fst", "write"}
KeepsLock      == ulock # NoAsker => ulock \in Askers /\ Rewrites(ulock)
OwnOK       == \A p \in Askers : Rewrites(p) => ulock = p

UpdBase == UTypeOK /\ StageOK /\ KeepsLock /\ OwnOK

\* What AddLine, DelLine and NewTime make are lines.
LineRec == [time : Nat, who : SUBSET (Addresses \X Modes)]

LEMMA LinesStay ==
  ASSUME UTypeOK, NEW line \in LineRec
  PROVE  /\ \A a \in Addresses, f \in Lines, m \in Modes : AddLine(line, f, a, m) \in LineRec
         /\ \A a : DelLine(line, a) \in LineRec
         /\ \A t \in Nat : NewTime(line, t) \in LineRec
         /\ Unwanted \in LineRec
<1>1. \A f \in Lines : Time(f) \in Nat
  BY DEF UTypeOK, Time, Lines
<1>2. ASSUME NEW a \in Addresses, NEW f \in Lines, NEW m \in Modes
      PROVE  AddLine(line, f, a, m) \in LineRec
  BY <1>1, <1>2 DEF AddLine, LineRec
<1>3. Unwanted \in LineRec
  BY DEF Unwanted, LineRec
<1>4. ASSUME NEW a PROVE DelLine(line, a) \in LineRec
  BY <1>3 DEF DelLine, LineRec
<1>5. ASSUME NEW t \in Nat PROVE NewTime(line, t) \in LineRec
  BY DEF NewTime, LineRec
<1>6. QED
  BY <1>2, <1>3, <1>4, <1>5

LEMMA EmptyTables == EmptyFst \in FstTables /\ EmptyFmt \in FmtTables
<1>1. Unwanted \in [time : Nat, who : SUBSET (Addresses \X Modes)]
  BY DEF Unwanted
<1>2. QED
  BY <1>1 DEF EmptyFst, EmptyFmt, FstTables, FmtTables

\* Who has no request, and what a request is.
LEMMA AskersAre ==
  ASSUME UTypeOK, NEW p \in Askers
  PROVE  /\ Asking(p) => uproc[p] \in AskRec
         /\ ~Asking(p) => uproc[p].st = "idle" /\ ~Rewrites(p)
         /\ \A r \in AskRec : r # AtRest
         /\ AtRest.st = "idle"
BY DEF UTypeOK, Asking, AtRest, AskRec, Rewrites

LEMMA RunsAre ==
  ASSUME UTypeOK
  PROVE  /\ Running => run \in RunRec
         /\ \A r \in RunRec : r # AtRest
BY DEF UTypeOK, Running, AtRest, RunRec

LEMMA UBaseInit == ASSUME UInit PROVE UpdBase
<1>1. UTypeOK
  BY EmptyTables DEF UInit, UTypeOK
<1>2. StageOK /\ KeepsLock /\ OwnOK
  BY DEF UInit, StageOK, KeepsLock, OwnOK, Running, Rewrites, AtRest
<1>3. QED
  BY <1>1, <1>2 DEF UpdBase

LEMMA UBaseAsk ==
  ASSUME UpdBase, NEW p \in Askers, NEW op \in {"add", "del"}, NEW a \in Addresses,
         NEW f \in Lines, NEW m \in Modes, Ask(p, op, a, f, m)
  PROVE  UpdBase'
<1> DEFINE r == [st |-> "check", op |-> op, a |-> a, f |-> f, m |-> m, sft |-> {}, fst |-> EmptyFst]
<1>1. r \in AskRec
  BY EmptyTables DEF AskRec
<1>2. uproc' = [uproc EXCEPT ![p] = r]
  BY DEF Ask
<1>3. r.st = "check"
  OBVIOUS
<1> HIDE DEF r
<1>4. UTypeOK'
  <2>1. counts' \in [changes : Nat, seconds : Nat, requests : Nat, runs : Nat, faults : Nat]
    BY DEF UpdBase, UTypeOK, Ask
  <2>2. uproc' \in [Askers -> {AtRest} \cup AskRec]
    BY <1>1, <1>2 DEF UpdBase, UTypeOK
  <2>3. QED
    BY <2>1, <2>2 DEF UpdBase, UTypeOK, Ask, tables, ghosts, texts
<1>5. StageOK'
  BY DEF UpdBase, StageOK, Running, Ask
<1>6. \A q \in Askers : Rewrites(q)' <=> Rewrites(q) /\ q # p
  BY <1>2, <1>3 DEF UpdBase, UTypeOK, Rewrites
<1>7. ~Rewrites(p)
  BY AskersAre DEF UpdBase, Ask
<1>8. KeepsLock' /\ OwnOK'
  BY <1>6, <1>7 DEF UpdBase, KeepsLock, OwnOK, Ask
<1>9. QED
  BY <1>4, <1>5, <1>8 DEF UpdBase

LEMMA UBaseCheck ==
  ASSUME UpdBase, NEW p \in Askers, Check(p)
  PROVE  UpdBase'
<1>1. uproc[p] \in AskRec
  BY AskersAre DEF UpdBase, Check
<1>2. PICK r \in {AtRest} \cup AskRec : uproc' = [uproc EXCEPT ![p] = r] /\ r.st \in {"idle", "lock"}
  <2>1. CASE uproc' = [uproc EXCEPT ![p] = AtRest]
    <3>1. AtRest.st = "idle"
      BY DEF AtRest
    <3>2. QED
      BY <2>1, <3>1
  <2>2. CASE Goes(p, "lock")
    <3>1. [uproc[p] EXCEPT !.st = "lock"] \in AskRec
      BY <1>1 DEF AskRec
    <3>2. uproc' = [uproc EXCEPT ![p] = [uproc[p] EXCEPT !.st = "lock"]]
      BY <2>2 DEF Goes
    <3>3. [uproc[p] EXCEPT !.st = "lock"].st = "lock"
      BY <1>1 DEF AskRec
    <3>4. QED
      BY <3>1, <3>2, <3>3
  <2>3. QED
    BY <2>1, <2>2 DEF Check
<1>3. UTypeOK'
  BY <1>2 DEF UpdBase, UTypeOK, Check, tables, ghosts, texts
<1>4. StageOK'
  BY DEF UpdBase, StageOK, Running, Check
<1>5. ~Rewrites(p)
  BY DEF Check, Rewrites
<1>6. \A q \in Askers : Rewrites(q)' <=> Rewrites(q)
  BY <1>2, <1>5 DEF UpdBase, UTypeOK, Rewrites
<1>7. KeepsLock' /\ OwnOK'
  BY <1>6 DEF UpdBase, KeepsLock, OwnOK, Check
<1>8. QED
  BY <1>3, <1>4, <1>7 DEF UpdBase

LEMMA UBaseCopySft ==
  ASSUME UpdBase, NEW p \in Askers, CopySft(p)
  PROVE  UpdBase'
<1> DEFINE r == [uproc[p] EXCEPT !.st = "sft", !.sft = sft]
<1>1. uproc[p] \in AskRec
  BY AskersAre DEF UpdBase, CopySft
<1>2. r \in AskRec /\ r.st = "sft"
  BY <1>1 DEF AskRec, UpdBase, UTypeOK
<1>3. uproc' = [uproc EXCEPT ![p] = r]
  BY DEF CopySft
<1> HIDE DEF r
<1>4. UTypeOK'
  BY <1>2, <1>3 DEF UpdBase, UTypeOK, CopySft, tables, ghosts, texts
<1>5. StageOK'
  BY DEF UpdBase, StageOK, Running, CopySft
<1>6. \A q \in Askers : Rewrites(q)' <=> q = p
  BY <1>2, <1>3, UpdatesAssumption DEF UpdBase, UTypeOK, Rewrites, OwnOK, CopySft
<1>7. KeepsLock' /\ OwnOK'
  BY <1>6 DEF UpdBase, KeepsLock, OwnOK, CopySft
<1>8. QED
  BY <1>4, <1>5, <1>7 DEF UpdBase

LEMMA UBaseWriteSft ==
  ASSUME UpdBase, NEW p \in Askers, WriteSft(p)
  PROVE  UpdBase'
<1> DEFINE r == [uproc[p] EXCEPT !.st = "fst"]
<1>1. uproc[p] \in AskRec
  BY AskersAre DEF UpdBase, WriteSft
<1>2. r \in AskRec /\ r.st = "fst"
  BY <1>1 DEF AskRec
<1>3. uproc' = [uproc EXCEPT ![p] = r]
  BY DEF WriteSft, Goes
<1> HIDE DEF r
<1>4. sft' \subseteq Subs
  <2>1. uproc[p].sft \subseteq Subs /\ <<User(uproc[p].a), uproc[p].f, uproc[p].m>> \in Subs
    BY <1>1 DEF AskRec, Subs
  <2>2. QED
    BY <2>1 DEF WriteSft
<1>5. happened' \subseteq happened \cup {"prefix"}
  BY DEF WriteSft, Occurs
<1>6. UTypeOK'
  BY <1>2, <1>3, <1>4, <1>5 DEF UpdBase, UTypeOK, WriteSft, ghosts, texts
<1>7. StageOK'
  BY DEF UpdBase, StageOK, Running, WriteSft
<1>8. Rewrites(p) /\ \A q \in Askers : Rewrites(q)' <=> Rewrites(q)
  BY <1>2, <1>3 DEF UpdBase, UTypeOK, Rewrites, WriteSft
<1>9. KeepsLock' /\ OwnOK'
  BY <1>8 DEF UpdBase, KeepsLock, OwnOK, WriteSft
<1>10. QED
  BY <1>6, <1>7, <1>9 DEF UpdBase

LEMMA UBaseCopyFst ==
  ASSUME UpdBase, NEW p \in Askers, CopyFst(p)
  PROVE  UpdBase'
<1> DEFINE r == [uproc[p] EXCEPT !.st = "write", !.fst = fst]
<1>1. uproc[p] \in AskRec
  BY AskersAre DEF UpdBase, CopyFst
<1>2. r \in AskRec /\ r.st = "write"
  BY <1>1 DEF AskRec, UpdBase, UTypeOK
<1>3. uproc' = [uproc EXCEPT ![p] = r]
  BY DEF CopyFst
<1> HIDE DEF r
<1>4. happened' \subseteq happened \cup {"raced"}
  BY DEF CopyFst, Occurs
<1>5. UTypeOK'
  BY <1>2, <1>3, <1>4, EmptyTables DEF UpdBase, UTypeOK, CopyFst, ghosts, texts
<1>6. StageOK'
  BY DEF UpdBase, StageOK, Running, CopyFst
<1>7. Rewrites(p) /\ \A q \in Askers : Rewrites(q)' <=> Rewrites(q)
  BY <1>2, <1>3 DEF UpdBase, UTypeOK, Rewrites, CopyFst
<1>8. KeepsLock' /\ OwnOK'
  BY <1>7 DEF UpdBase, KeepsLock, OwnOK, CopyFst
<1>9. QED
  BY <1>5, <1>6, <1>8 DEF UpdBase

LEMMA UBaseWriteFst ==
  ASSUME UpdBase, NEW p \in Askers, WriteFst(p)
  PROVE  UpdBase'
<1> DEFINE r == uproc[p]
<1>1. r \in AskRec
  BY AskersAre DEF UpdBase, WriteFst
<1>2. fst' \in FstTables
  <2>1. \A f \in Lines : r.fst[f] \in LineRec
    BY <1>1 DEF AskRec, FstTables, LineRec
  <2>2. \A f \in Lines : AddLine(r.fst[f], f, r.a, r.m) \in LineRec /\ DelLine(r.fst[f], r.a) \in LineRec
    BY <1>1, <2>1, LinesStay DEF UpdBase, AskRec
  <2>3. CASE r.op = "add"
    <3>1. fst' = [r.fst EXCEPT ![r.f] = AddLine(r.fst[r.f], r.f, r.a, r.m)]
      BY <2>3 DEF WriteFst
    <3>2. QED
      BY <1>1, <2>2, <3>1 DEF AskRec, FstTables, LineRec
  <2>4. CASE r.op # "add"
    <3>1. fst' = [f \in Lines |-> IF f \in Concerned(r.f) THEN DelLine(r.fst[f], r.a) ELSE r.fst[f]]
      BY <2>4 DEF WriteFst
    <3>2. QED
      BY <2>1, <2>2, <3>1 DEF FstTables, LineRec
  <2>5. QED
    BY <2>3, <2>4
<1>3. had' \subseteq Addresses \X Lines \X Nat \X Nat
  <2>1. \A f \in Lines : Time(f) \in Nat /\ Edition(f) \in Nat
    BY DEF UpdBase, UTypeOK, Time, Edition, Lines
  <2>2. r.a \in Addresses /\ r.f \in Lines
    BY <1>1 DEF AskRec
  <2>3. QED
    BY <2>1, <2>2 DEF WriteFst, UpdBase, UTypeOK
<1>4. uproc' = [uproc EXCEPT ![p] = AtRest] /\ ulock' = NoAsker
  BY DEF WriteFst
<1>5. happened' \subseteq happened \cup {"respelled", "raced"}
  BY DEF WriteFst
<1>6. UTypeOK'
  BY <1>2, <1>3, <1>4, <1>5 DEF UpdBase, UTypeOK, WriteFst, texts
<1>7. StageOK'
  BY DEF UpdBase, StageOK, Running, WriteFst
<1>8. Rewrites(p) /\ \A q \in Askers : Rewrites(q)' <=> Rewrites(q) /\ q # p
  BY <1>4 DEF UpdBase, UTypeOK, Rewrites, AtRest, WriteFst
<1>9. KeepsLock' /\ OwnOK'
  BY <1>4, <1>8, UpdatesAssumption DEF UpdBase, KeepsLock, OwnOK
<1>10. QED
  BY <1>6, <1>7, <1>9 DEF UpdBase

\* The change of a file: it has a new edition, or is gone, and no other file
\* changes.
LEMMA ChangeDoes ==
  ASSUME UTypeOK, NEW f \in AfdFiles, Change(f)
  PROVE  /\ counts.changes \in Nat /\ counts'.changes = counts.changes + 1
         /\ \A g \in AfdFiles : g # f => /\ mtime'[g] = mtime[g] /\ edition'[g] = edition[g]
                                         /\ g \in blurred' <=> g \in blurred
         /\ \/ mtime'[f] = 0 /\ edition'[f] = 0
            \/ edition'[f] = counts'.changes /\ (mtime'[f] = fst[f].time => f \in blurred')
<1>1. counts.changes \in Nat /\ counts'.changes = counts.changes + 1
  BY DEF UTypeOK, Change, Update, Vanish
<1>2. CASE Vanish(f)
  BY <1>1, <1>2 DEF UTypeOK, Vanish
<1>3. CASE Update(f)
  BY <1>1, <1>3 DEF UTypeOK, Update
<1>4. QED
  BY <1>2, <1>3 DEF Change

LEMMA UBaseChange ==
  ASSUME UpdBase, NEW f \in AfdFiles, Change(f)
  PROVE  UpdBase'
<1> DEFINE Counts == [changes : Nat, seconds : Nat, requests : Nat, runs : Nat, faults : Nat]
<1>0. counts \in Counts /\ counts.seconds \in Nat
  BY DEF UpdBase, UTypeOK
<1>1. counts' \in Counts
  <2>1. ASSUME NEW t \in Nat, counts' = [counts EXCEPT !.changes = @ + 1, !.seconds = t]
        PROVE  counts' \in Counts
    <3>1. PICK n \in Nat : n = counts.changes + 1
      BY <1>0
    <3>2. counts' = [changes |-> n, seconds |-> t, requests |-> counts.requests,
                     runs |-> counts.runs, faults |-> counts.faults]
      BY <1>0, <2>1, <3>1
    <3>3. counts.requests \in Nat /\ counts.runs \in Nat /\ counts.faults \in Nat
      BY <1>0
    <3>4. QED
      BY <2>1, <3>1, <3>2, <3>3
  <2>2. counts' = [counts EXCEPT !.changes = @ + 1] => counts' \in Counts
    BY <1>0
  <2>3. {counts.seconds, counts.seconds + 1} \ {0} \subseteq Nat
    BY <1>0
  <2> HIDE DEF Counts
  <2>4. QED
    BY <2>1, <2>2, <2>3 DEF Change, Update, Vanish
<1>2. mtime' \in [AfdFiles -> Nat] /\ edition' \in [AfdFiles -> Nat] /\ blurred' \subseteq AfdFiles
  <2>1. CASE Update(f)
    <3>1. PICK t \in {counts.seconds, counts.seconds + 1} \ {0} : mtime' = [mtime EXCEPT ![f] = t]
      BY <2>1 DEF Update
    <3>2. edition' = [edition EXCEPT ![f] = counts'.changes] /\ counts'.changes \in Nat
      BY <1>1, <2>1 DEF Update
    <3>3. blurred' \subseteq blurred \cup {f} /\ t \in Nat
      BY <1>0, <2>1, <3>1 DEF Update
    <3>4. QED
      BY <3>1, <3>2, <3>3 DEF UpdBase, UTypeOK
  <2>2. CASE Vanish(f)
    BY <2>2 DEF Vanish, UpdBase, UTypeOK
  <2>3. QED
    BY <2>1, <2>2 DEF Change
<1>3. happened' \subseteq happened \cup {"changed"}
  BY DEF Change, Occurs
<1>4. UTypeOK'
  BY <1>1, <1>2, <1>3 DEF UpdBase, UTypeOK, Change, tables, ghosts
<1>5. StageOK' /\ KeepsLock' /\ OwnOK'
  BY DEF UpdBase, StageOK, KeepsLock, OwnOK, Rewrites, Running, Change
<1>6. QED
  BY <1>4, <1>5 DEF UpdBase

\* What a delivery leaves alone.
LEMMA UBaseRun ==
  ASSUME UpdBase, run' \in {AtRest} \cup RunRec, UNCHANGED <<scene, texts, sft, ulock, uproc>>,
         fst' \in FstTables, fmt' \in FmtTables,
         counts' \in [changes : Nat, seconds : Nat, requests : Nat, runs : Nat, faults : Nat],
         told' \subseteq Addresses \X AfdFiles \X Modes \X Nat \X Nat, had' = had,
         happened' \subseteq happened \cup {"raced", "left", "failed", "died"}, StageOK'
  PROVE  UpdBase'
<1>1. UTypeOK'
  BY DEF UpdBase, UTypeOK, texts
<1>2. KeepsLock' /\ OwnOK'
  BY DEF UpdBase, KeepsLock, OwnOK, Rewrites
<1>3. QED
  BY <1>1, <1>2 DEF UpdBase

LEMMA UBaseStart == ASSUME UpdBase, StartRun PROVE UpdBase'
<1>1. run' \in RunRec /\ run'.st = "collect"
  BY EmptyTables DEF StartRun, RunRec
<1>2. counts' \in [changes : Nat, seconds : Nat, requests : Nat, runs : Nat, faults : Nat]
  <2>1. counts \in [changes : Nat, seconds : Nat, requests : Nat, runs : Nat, faults : Nat]
    BY DEF UpdBase, UTypeOK
  <2>2. counts' = [counts EXCEPT !.runs = @ + 1]
    BY DEF StartRun
  <2>3. QED
    BY <2>1, <2>2
<1>3. StageOK'
  BY <1>1 DEF StageOK
<1>4. fst' \in FstTables /\ fmt' \in FmtTables /\ told' \subseteq Addresses \X AfdFiles \X Modes \X Nat \X Nat
  BY DEF UpdBase, UTypeOK, StartRun, tables, ghosts
<1>5. QED
  BY <1>1, <1>2, <1>3, <1>4, UBaseRun DEF StartRun, tables, ghosts

LEMMA UBaseCollect == ASSUME UpdBase, Collect PROVE UpdBase'
<1>1. run' \in RunRec /\ run'.st = "notify"
  BY CollectDoes DEF UpdBase
<1>2. StageOK'
  BY <1>1 DEF StageOK
<1>3. happened' \subseteq happened \cup {"left"}
  BY DEF Collect, Occurs
<1>4. /\ fst' \in FstTables /\ fmt' \in FmtTables /\ told' \subseteq Addresses \X AfdFiles \X Modes \X Nat \X Nat
      /\ counts' \in [changes : Nat, seconds : Nat, requests : Nat, runs : Nat, faults : Nat]
      /\ UNCHANGED <<scene, texts, sft, ulock, uproc>> /\ had' = had
  BY DEF UpdBase, UTypeOK, Collect, tables, ghosts
<1>5. QED
  BY <1>1, <1>2, <1>3, <1>4, UBaseRun

\* Entries are for addresses and files.
LEMMA MailIs ==
  ASSUME UTypeOK, NEW e \in EntryRec, NEW m \in Modes
  PROVE  Mail(e, m) \subseteq Addresses \X AfdFiles \X Modes \X Nat \X Nat
BY DEF UTypeOK, EntryRec, Mail

LEMMA UBaseNotify == ASSUME UpdBase, Notify PROVE UpdBase'
<1>1. run \in RunRec
  BY RunsAre DEF UpdBase, Notify
<1>2. run' = [run EXCEPT !.st = IF run.D = <<>> THEN "record" ELSE "deliver"]
  BY DEF Notify
<1>3. run' \in RunRec /\ run'.D = run.D /\ (run'.st = "deliver" => run.D # <<>>) /\ run'.st # "write"
  BY <1>1, <1>2 DEF RunRec
<1>4. StageOK'
  BY <1>3 DEF StageOK
<1>5. told' \subseteq Addresses \X AfdFiles \X Modes \X Nat \X Nat
  <2>1. \A i \in DOMAIN run.N : run.N[i] \in EntryRec
    <3>1. run.N \in Seq(EntryRec)
      BY <1>1 DEF RunRec
    <3>2. QED
      BY <3>1
  <2>2. \A i \in DOMAIN run.N : Mail(run.N[i], "N") \subseteq Addresses \X AfdFiles \X Modes \X Nat \X Nat
    BY <2>1, MailIs DEF UpdBase, Modes
  <2>3. QED
    BY <2>2 DEF Notify, UpdBase, UTypeOK
<1>6. /\ fst' \in FstTables /\ fmt' \in FmtTables
      /\ counts' \in [changes : Nat, seconds : Nat, requests : Nat, runs : Nat, faults : Nat]
      /\ UNCHANGED <<scene, texts, sft, ulock, uproc>> /\ had' = had /\ happened' = happened
  BY DEF UpdBase, UTypeOK, Notify, tables
<1>7. QED
  BY <1>3, <1>4, <1>5, <1>6, UBaseRun

\* The first entry is one.
LEMMA FirstIs ==
  ASSUME UpdBase, Running, run.st = "deliver"
  PROVE  run.D[1] \in EntryRec /\ 1 \in DOMAIN run.D
<1>1. run \in RunRec
  BY RunsAre DEF UpdBase
<1>2. run.D \in Seq(EntryRec) /\ run.D # <<>>
  BY <1>1 DEF RunRec, UpdBase, StageOK
<1>3. QED
  BY <1>2

LEMMA UBaseDeliver == ASSUME UpdBase, Deliver PROVE UpdBase'
<1>1. run \in RunRec
  BY RunsAre DEF UpdBase, Deliver
<1>2. run' \in RunRec /\ run'.st = "record"
  BY <1>1 DEF Deliver, RunRec
<1>3. StageOK'
  BY <1>2 DEF StageOK
<1>4. told' \subseteq Addresses \X AfdFiles \X Modes \X Nat \X Nat
  BY FirstIs, MailIs DEF Deliver, UpdBase, UTypeOK, Modes
<1>5. /\ fst' \in FstTables /\ fmt' \in FmtTables
      /\ counts' \in [changes : Nat, seconds : Nat, requests : Nat, runs : Nat, faults : Nat]
      /\ UNCHANGED <<scene, texts, sft, ulock, uproc>> /\ had' = had /\ happened' = happened
  BY DEF UpdBase, UTypeOK, Deliver, tables
<1>6. QED
  BY <1>2, <1>3, <1>4, <1>5, UBaseRun

LEMMA UBaseDeliverFails == ASSUME UpdBase, DeliverFails PROVE UpdBase'
<1>1. counts' \in [changes : Nat, seconds : Nat, requests : Nat, runs : Nat, faults : Nat]
  BY DEF UpdBase, UTypeOK, DeliverFails
<1>2. run' = AtRest /\ StageOK'
  BY DEF DeliverFails, StageOK, Running
<1>3. happened' \subseteq happened \cup {"failed"}
  BY DEF DeliverFails, Occurs
<1>4. /\ fst' \in FstTables /\ fmt' \in FmtTables /\ told' \subseteq Addresses \X AfdFiles \X Modes \X Nat \X Nat
      /\ UNCHANGED <<scene, texts, sft, ulock, uproc>> /\ had' = had
  BY DEF UpdBase, UTypeOK, DeliverFails, tables, ghosts
<1>5. QED
  BY <1>1, <1>2, <1>3, <1>4, UBaseRun

\* The task at hand, and those behind it.
LEMMA TaskIs ==
  ASSUME UpdBase, Running, run.tasks # <<>>
  PROVE  /\ ThisTask \in TaskRec /\ Tail(run.tasks) \in Seq(TaskRec)
         /\ \A x \in Range(run.tasks) : x = ThisTask \/ x \in Range(Tail(run.tasks))
         /\ Range(Tail(run.tasks)) \subseteq Range(run.tasks)
<1>1. run \in RunRec
  BY RunsAre DEF UpdBase
<1>2. run.tasks \in Seq(TaskRec)
  BY <1>1 DEF RunRec
<1> DEFINE t == run.tasks
<1>3. t \in Seq(TaskRec) /\ t # <<>> /\ ThisTask = t[1]
  BY <1>2 DEF ThisTask
<1> HIDE DEF t
<1>4. /\ Tail(t) \in Seq(TaskRec) /\ t[1] \in TaskRec /\ Len(t) \in Nat /\ Len(Tail(t)) = Len(t) - 1
      /\ DOMAIN t = 1 .. Len(t) /\ DOMAIN Tail(t) = 1 .. Len(t) - 1
      /\ \A i \in 1 .. Len(t) - 1 : Tail(t)[i] = t[i + 1]
  BY <1>3
<1>5. ASSUME NEW x \in Range(t) PROVE x = t[1] \/ x \in Range(Tail(t))
  <2>1. PICK i \in 1 .. Len(t) : x = t[i]
    BY <1>4, <1>5 DEF Range
  <2>2. CASE i = 1
    BY <2>1, <2>2
  <2>3. CASE i # 1
    <3>1. i - 1 \in 1 .. Len(t) - 1 /\ Tail(t)[i - 1] = x
      BY <1>4, <2>1, <2>3
    <3>2. QED
      BY <1>4, <3>1 DEF Range
  <2>4. QED
    BY <2>2, <2>3
<1>6. ASSUME NEW x \in Range(Tail(t)) PROVE x \in Range(t)
  <2>1. PICK i \in 1 .. Len(t) - 1 : x = Tail(t)[i]
    BY <1>4, <1>6 DEF Range
  <2>2. i + 1 \in DOMAIN t /\ x = t[i + 1]
    BY <1>4, <2>1
  <2>3. QED
    BY <2>2 DEF Range
<1>7. QED
  BY <1>3, <1>4, <1>5, <1>6 DEF t

LEMMA UBaseSkip == ASSUME UpdBase, Skip PROVE UpdBase'
<1>1. run \in RunRec
  BY RunsAre DEF UpdBase, Skip
<1>2. run' \in RunRec /\ run'.st = "record"
  BY <1>1, TaskIs DEF Skip, RunRec
<1>3. StageOK'
  BY <1>2 DEF StageOK
<1>4. /\ fst' \in FstTables /\ fmt' \in FmtTables /\ told' \subseteq Addresses \X AfdFiles \X Modes \X Nat \X Nat
      /\ counts' \in [changes : Nat, seconds : Nat, requests : Nat, runs : Nat, faults : Nat]
      /\ UNCHANGED <<scene, texts, sft, ulock, uproc>> /\ had' = had /\ happened' = happened
  BY DEF UpdBase, UTypeOK, Skip, tables, ghosts
<1>5. QED
  BY <1>2, <1>3, <1>4, UBaseRun

LEMMA UBaseCopy == ASSUME UpdBase, CopyTable PROVE UpdBase'
<1>1. run \in RunRec /\ run.tasks # <<>>
  BY RunsAre DEF UpdBase, CopyTable
<1>2. fst \in FstTables /\ fmt \in FmtTables
  BY DEF UpdBase, UTypeOK
<1>3. run' \in RunRec /\ run'.st = "write" /\ run'.tasks = run.tasks
  BY <1>1, <1>2 DEF CopyTable, RunRec
<1>4. StageOK'
  BY <1>1, <1>3 DEF StageOK
<1>5. happened' \subseteq happened \cup {"raced"}
  BY DEF CopyTable, Occurs
<1>6. fst' \in FstTables /\ fmt' \in FmtTables
  BY <1>2, EmptyTables DEF CopyTable
<1>7. /\ told' \subseteq Addresses \X AfdFiles \X Modes \X Nat \X Nat
      /\ counts' \in [changes : Nat, seconds : Nat, requests : Nat, runs : Nat, faults : Nat]
      /\ UNCHANGED <<scene, texts, sft, ulock, uproc>> /\ had' = had
  BY DEF UpdBase, UTypeOK, CopyTable, ghosts
<1>8. QED
  BY <1>3, <1>4, <1>5, <1>6, <1>7, UBaseRun

LEMMA UBaseWriteTable == ASSUME UpdBase, WriteTable PROVE UpdBase'
<1>1. run \in RunRec /\ run.tasks # <<>>
  BY RunsAre DEF UpdBase, WriteTable, StageOK
<1>2. ThisTask \in TaskRec /\ Tail(run.tasks) \in Seq(TaskRec)
  BY <1>1, TaskIs DEF WriteTable
<1>3. run' \in RunRec /\ run'.st = "record"
  BY <1>1, <1>2 DEF WriteTable, RunRec
<1>4. StageOK'
  BY <1>3 DEF StageOK
<1> DEFINE f == ThisTask.file
<1>5. f \in AfdFiles /\ f \in Lines /\ mtime[f] \in Nat
  BY <1>2 DEF TaskRec, Lines, UpdBase, UTypeOK
<1>6. run.fst \in FstTables /\ run.fmt \in FmtTables
  BY <1>1 DEF RunRec
<1>7. fst' \in FstTables /\ fmt' \in FmtTables
  <2>1. CASE ThisTask.table = "FST"
    <3>1. run.fst[f] \in LineRec
      BY <1>5, <1>6 DEF FstTables, LineRec
    <3>2. NewTime(run.fst[f], mtime[f]) \in LineRec
      BY <1>5, <3>1, LinesStay DEF UpdBase
    <3>3. fst' = [run.fst EXCEPT ![f] = NewTime(run.fst[f], mtime[f])] /\ fmt' = fmt
      BY <2>1 DEF WriteTable
    <3>4. QED
      BY <1>5, <1>6, <3>2, <3>3 DEF FstTables, LineRec, UpdBase, UTypeOK
  <2>2. CASE ThisTask.table # "FST"
    <3>1. fmt' = [run.fmt EXCEPT ![f] = IF run.fmt[f] = mtime[f] THEN 0 ELSE mtime[f]] /\ fst' = fst
      BY <2>2 DEF WriteTable
    <3>2. QED
      BY <1>5, <1>6, <3>1 DEF FmtTables, UpdBase, UTypeOK
  <2>3. QED
    BY <2>1, <2>2
<1>8. happened' \subseteq happened \cup {"raced"}
  BY DEF WriteTable, Occurs
<1>9. /\ told' \subseteq Addresses \X AfdFiles \X Modes \X Nat \X Nat
      /\ counts' \in [changes : Nat, seconds : Nat, requests : Nat, runs : Nat, faults : Nat]
      /\ UNCHANGED <<scene, texts, sft, ulock, uproc>> /\ had' = had
  BY DEF UpdBase, UTypeOK, WriteTable, ghosts
<1>10. QED
  BY <1>3, <1>4, <1>7, <1>8, <1>9, UBaseRun

LEMMA UBaseEnd == ASSUME UpdBase, EndRun PROVE UpdBase'
<1>1. run' = AtRest /\ StageOK'
  BY DEF EndRun, StageOK, Running
<1>2. /\ fst' \in FstTables /\ fmt' \in FmtTables /\ told' \subseteq Addresses \X AfdFiles \X Modes \X Nat \X Nat
      /\ counts' \in [changes : Nat, seconds : Nat, requests : Nat, runs : Nat, faults : Nat]
      /\ UNCHANGED <<scene, texts, sft, ulock, uproc>> /\ had' = had /\ happened' = happened
  BY DEF UpdBase, UTypeOK, EndRun, tables, ghosts
<1>3. QED
  BY <1>1, <1>2, UBaseRun

LEMMA UBaseDie == ASSUME UpdBase, UDie PROVE UpdBase'
<1>1. happened' \subseteq happened \cup {"died"}
  BY DEF UDie, Occurs
<1>2. /\ fst' \in FstTables /\ fmt' \in FmtTables /\ told' \subseteq Addresses \X AfdFiles \X Modes \X Nat \X Nat
      /\ counts' \in [changes : Nat, seconds : Nat, requests : Nat, runs : Nat, faults : Nat]
      /\ UNCHANGED <<scene, texts, sft>> /\ had' = had
  BY DEF UpdBase, UTypeOK, UDie, tables, ghosts
<1>3. CASE Running /\ run' = AtRest /\ UNCHANGED <<uproc, ulock>>
  <2>1. StageOK'
    BY <1>3 DEF StageOK, Running
  <2>2. QED
    BY <1>1, <1>2, <1>3, <2>1, UBaseRun
<1>4. ASSUME NEW p \in Askers, Asking(p), uproc' = [uproc EXCEPT ![p] = AtRest],
             ulock' = (IF ulock = p THEN NoAsker ELSE ulock), UNCHANGED run
      PROVE  UpdBase'
  <2>1. UTypeOK'
    BY <1>1, <1>2, <1>4 DEF UpdBase, UTypeOK, texts
  <2>2. StageOK'
    BY <1>4 DEF UpdBase, StageOK, Running
  <2>3. \A q \in Askers : Rewrites(q)' <=> Rewrites(q) /\ q # p
    BY <1>4 DEF UpdBase, UTypeOK, Rewrites, AtRest
  <2>4. KeepsLock' /\ OwnOK'
    BY <1>4, <2>3, UpdatesAssumption DEF UpdBase, KeepsLock, OwnOK
  <2>5. QED
    BY <2>1, <2>2, <2>4 DEF UpdBase
<1>5. QED
  BY <1>3, <1>4 DEF UDie

\* The steps, one by one: what is left of Next once the request is known.
LEMMA UBaseStep == ASSUME UpdBase, [UNext]_uvars PROVE UpdBase'
<1>1. ASSUME NEW p \in Askers, Add(p) PROVE UpdBase'
  <2>1. scene.who \subseteq Addresses /\ scene.files \subseteq Lines
    BY UpdatesAssumption DEF UpdBase, UTypeOK
  <2>2. PICK a \in scene.who, f \in scene.files, m \in Modes : Ask(p, "add", a, f, m)
    BY <1>1 DEF Add
  <2>3. QED
    BY <2>1, <2>2, UBaseAsk
<1>2. ASSUME NEW p \in Askers, Delete(p) PROVE UpdBase'
  <2>1. scene.who \subseteq Addresses /\ scene.files \subseteq Lines
    BY UpdatesAssumption DEF UpdBase, UTypeOK
  <2>2. PICK a \in scene.who, f \in scene.files : Ask(p, "del", a, f, "N")
    BY <1>2 DEF Delete
  <2>3. "N" \in Modes
    BY DEF Modes
  <2>4. QED
    BY <2>1, <2>2, <2>3, UBaseAsk
<1>3. CASE UNCHANGED uvars
  BY <1>3 DEF uvars, texts, tables, ghosts, UpdBase, UTypeOK, StageOK, KeepsLock, OwnOK, Rewrites, Running
<1>4. CASE Deliveries
  BY <1>4, UBaseStart, UBaseCollect, UBaseNotify, UBaseDeliver, UBaseDeliverFails, UBaseSkip,
     UBaseCopy, UBaseWriteTable, UBaseEnd DEF Deliveries
<1>5. QED
  BY <1>1, <1>2, <1>3, <1>4, UBaseChange, UBaseCheck, UBaseCopySft, UBaseWriteSft, UBaseCopyFst,
     UBaseWriteFst, UBaseDie DEF UNext

\* The tables, requests and deliveries of AFD and FUI are of the kinds the code
\* of afd_fui.c knows.
THEOREM UpdatesTyping == USpec => []UTypeOK
<1>1. UInit => UpdBase
  BY UBaseInit
<1>2. UpdBase /\ [UNext]_uvars => UpdBase'
  BY UBaseStep
<1>3. UpdBase => UTypeOK
  BY DEF UpdBase
<1>4. QED
  BY <1>1, <1>2, <1>3, PTL DEF USpec

-----------------------------------------------------------------------------
(* FileUpdates: the FST, and that the two tables agree *)

Recording == Running /\ run.st = "write" /\ ThisTask.table = "FST"

\* The FST as it is or will be when who has emptied it has written it.
Held == IF Rewriting THEN uproc[ulock].fst ELSE IF Recording THEN run.fst ELSE fst

RewritingFacts ==
  /\ Rewriting <=> ulock \in Askers /\ uproc[ulock].st = "write"
  /\ ulock # NoAsker => ulock \in Askers /\ uproc[ulock] \in AskRec /\ Rewrites(ulock)
  /\ \A p \in Askers : uproc[p].st = "write" => Rewriting /\ ulock = p

LEMMA RewritingIs == UpdBase => RewritingFacts
<1> SUFFICES ASSUME UpdBase PROVE RewritingFacts
  OBVIOUS
<1>1. ASSUME NEW p \in Askers, uproc[p].st = "write" PROVE Asking(p) /\ ulock = p
  BY <1>1, AskersAre DEF UpdBase, OwnOK, Rewrites
<1>2. ulock # NoAsker => ulock \in Askers /\ uproc[ulock] \in AskRec /\ Rewrites(ulock)
  BY AskersAre DEF UpdBase, KeepsLock
<1>3. QED
  BY <1>1, <1>2 DEF Rewriting, RewritingFacts

\* The same of the state before a step and of that after it.
LEMMA RewritingBoth == ASSUME UpdBase, UpdBase' PROVE RewritingFacts /\ RewritingFacts'
<1>1. RewritingFacts'
  BY RewritingIs, PTL
<1>2. QED
  BY <1>1, RewritingIs

LEMMA HeldType == ASSUME UpdBase PROVE Held \in FstTables
<1>1. Rewriting => uproc[ulock].fst \in FstTables
  BY RewritingIs, UpdatesAssumption DEF AskRec, RewritingFacts
<1>2. Running => run.fst \in FstTables
  BY RunsAre DEF UpdBase, RunRec
<1>3. QED
  BY <1>1, <1>2 DEF Held, Recording, UpdBase, UTypeOK

\* A step that leaves the FST, its writers and their copies alone.
LEMMA HeldFrame ==
  ASSUME UpdBase, UpdBase', fst' = fst,
         \A p \in Askers : uproc[p].st = "write" => uproc'[p] = uproc[p],
         \A p \in Askers : uproc'[p].st = "write" => uproc'[p] = uproc[p],
         run' = run \/ (~(Running /\ run.st = "write") /\ ~(Running /\ run.st = "write")')
  PROVE  Held' = Held
<1>1. Rewriting' <=> Rewriting
  BY RewritingBoth DEF RewritingFacts
<1>2. Rewriting => uproc'[ulock'] = uproc[ulock]
  BY RewritingBoth DEF RewritingFacts
<1>3. Recording' <=> Recording
  BY DEF Recording, Running, ThisTask
<1>4. Recording => run' = run
  BY DEF Recording
<1>5. QED
  BY <1>1, <1>2, <1>3, <1>4 DEF Held

\* Steps that do not touch the FST.
Aside ==
  \/ \E f \in AfdFiles : Change(f)
  \/ \E p \in Askers : Add(p) \/ Delete(p) \/ Check(p)
  \/ StartRun \/ Collect \/ Notify \/ Deliver \/ DeliverFails \/ Skip \/ EndRun
  \/ UNCHANGED uvars

LEMMA HeldAside ==
  ASSUME UpdBase, UpdBase', Aside
  PROVE  /\ Held' = Held /\ fst' = fst /\ ulock' = ulock /\ sft' = sft
         /\ \A p \in Askers : Rewrites(p) => uproc'[p] = uproc[p]
<1> DEFINE Same == /\ fst' = fst /\ ulock' = ulock /\ sft' = sft
                   /\ \A p \in Askers : Rewrites(p) => uproc'[p] = uproc[p]
                   /\ \A p \in Askers : uproc'[p].st = "write" => uproc'[p] = uproc[p]
                   /\ run' = run \/ (~(Running /\ run.st = "write") /\ ~(Running /\ run.st = "write")')
<1>1. ASSUME NEW f \in AfdFiles, Change(f) PROVE Same
  BY <1>1 DEF Change, Occurs, tables
<1>2. ASSUME NEW p \in Askers, Add(p) \/ Delete(p) PROVE Same
  <2>1. PICK op, a, f, m : Ask(p, op, a, f, m)
    BY <1>2 DEF Add, Delete
  <2>2. uproc'[p].st = "check" /\ \A q \in Askers : q # p => uproc'[q] = uproc[q]
    BY <2>1 DEF Ask, UpdBase, UTypeOK
  <2>3. ~Rewrites(p)
    BY <2>1, AskersAre DEF UpdBase, Ask
  <2>4. QED
    BY <2>1, <2>2, <2>3 DEF Ask, tables
<1>3. ASSUME NEW p \in Askers, Check(p) PROVE Same
  <2>1. ~Rewrites(p) /\ uproc[p] \in AskRec
    BY <1>3, AskersAre DEF UpdBase, Check, Rewrites
  <2>2. uproc'[p].st # "write" /\ \A q \in Askers : q # p => uproc'[q] = uproc[q]
    <3>1. CASE uproc' = [uproc EXCEPT ![p] = AtRest]
      BY <3>1 DEF AtRest, UpdBase, UTypeOK
    <3>2. CASE Goes(p, "lock")
      BY <2>1, <3>2 DEF Goes, AskRec, UpdBase, UTypeOK
    <3>3. QED
      BY <1>3, <3>1, <3>2 DEF Check
  <2>3. QED
    BY <1>3, <2>1, <2>2 DEF Check, tables
<1>4. ASSUME StartRun \/ Collect \/ Notify \/ Deliver \/ DeliverFails \/ Skip \/ EndRun PROVE Same
  <2>1. ~(Running /\ run.st = "write")
    BY <1>4 DEF StartRun, Collect, Notify, Deliver, DeliverFails, Skip, EndRun
  <2>2. ~(Running /\ run.st = "write")'
    <3>1. Running => run \in RunRec
      BY RunsAre DEF UpdBase
    <3>2. CASE StartRun
      BY <3>2 DEF StartRun
    <3>3. CASE Collect
      BY <3>1, <3>3 DEF Collect, RunRec
    <3>4. CASE Notify
      BY <3>1, <3>4 DEF Notify, RunRec
    <3>5. CASE Deliver \/ Skip
      BY <3>1, <3>5 DEF Deliver, Skip, RunRec
    <3>6. CASE DeliverFails \/ EndRun
      BY <3>6 DEF DeliverFails, EndRun, Running
    <3>7. QED
      BY <1>4, <3>2, <3>3, <3>4, <3>5, <3>6
  <2>3. fst' = fst /\ ulock' = ulock /\ sft' = sft /\ uproc' = uproc
    BY <1>4 DEF StartRun, Collect, Notify, Deliver, DeliverFails, Skip, EndRun, tables
  <2>4. QED
    BY <2>1, <2>2, <2>3
<1>5. ASSUME UNCHANGED uvars PROVE Same
  BY <1>5 DEF uvars, tables
<1>6. Same
  BY <1>1, <1>2, <1>3, <1>4, <1>5 DEF Aside
<1>7. \A p \in Askers : uproc[p].st = "write" => uproc'[p] = uproc[p]
  BY <1>6 DEF Rewrites
<1>8. Held' = Held
  BY <1>6, <1>7, HeldFrame
<1>9. QED
  BY <1>6, <1>8

\* The steps that rewrite the tables.
LEMMA HeldSft ==
  ASSUME UpdBase, UpdBase', NEW p \in Askers, CopySft(p) \/ WriteSft(p)
  PROVE  Held' = Held
<1>1. uproc[p] \in AskRec /\ uproc[p].st # "write"
  BY AskersAre DEF UpdBase, CopySft, WriteSft
<1>2. uproc'[p].st # "write" /\ \A q \in Askers : q # p => uproc'[q] = uproc[q]
  BY <1>1 DEF CopySft, WriteSft, Goes, AskRec, UpdBase, UTypeOK
<1>3. fst' = fst /\ run' = run
  BY DEF CopySft, WriteSft
<1>4. QED
  BY <1>1, <1>2, <1>3, HeldFrame

LEMMA HeldCopyFst ==
  ASSUME UpdBase, UpdBase', NEW p \in Askers, CopyFst(p), "raced" \notin happened'
  PROVE  Held' = Held
<1>1. uproc[p] \in AskRec /\ ulock = p /\ ulock' = p /\ run' = run
  BY AskersAre DEF UpdBase, OwnOK, Rewrites, CopyFst
<1>2. uproc'[p].st = "write" /\ uproc'[p].fst = fst
  BY <1>1 DEF CopyFst, AskRec, UpdBase, UTypeOK
<1>3. ~(Running /\ run.st = "write")
  BY DEF CopyFst, Occurs
<1>4. ~Rewriting /\ Rewriting'
  BY <1>1, <1>2, RewritingBoth DEF CopyFst, RewritingFacts
<1>5. QED
  BY <1>1, <1>2, <1>3, <1>4 DEF Held, Recording

LEMMA HeldWriteFst ==
  ASSUME UpdBase, UpdBase', NEW p \in Askers, WriteFst(p), "raced" \notin happened'
  PROVE  Held = uproc[p].fst /\ Held' = fst'
<1>1. ulock = p /\ ulock' = NoAsker /\ run' = run
  BY DEF UpdBase, OwnOK, Rewrites, WriteFst
<1>2. ~(Running /\ run.st = "write")
  BY DEF WriteFst
<1>3. Rewriting /\ ~Rewriting'
  BY <1>1, RewritingBoth, UpdatesAssumption DEF WriteFst, RewritingFacts
<1>4. Held = uproc[p].fst
  BY <1>1, <1>3 DEF Held
<1>5. Held' = fst'
  BY <1>1, <1>2, <1>3 DEF Held, Recording, Running
<1>6. QED
  BY <1>4, <1>5

LEMMA HeldCopy ==
  ASSUME UpdBase, UpdBase', CopyTable, "raced" \notin happened'
  PROVE  Held' = Held
<1>1. run \in RunRec /\ ulock' = ulock /\ uproc' = uproc
  BY RunsAre DEF UpdBase, CopyTable
<1>2. ~Rewriting /\ ~Rewriting'
  BY <1>1, RewritingBoth DEF CopyTable, Occurs, RewritingFacts
<1>3. /\ run'.st = "write" /\ run'.fst = fst /\ run'.tasks = run.tasks
      /\ run' \in RunRec /\ run.st = "record"
  BY <1>1 DEF CopyTable, RunRec, UpdBase, UTypeOK
<1>4. Running'
  BY <1>3, RunsAre DEF Running, UpdBase
<1>5. Held = fst
  BY <1>2, <1>3 DEF Held, Recording
<1>6. ThisTask' = ThisTask
  BY <1>3 DEF ThisTask
<1>7. Held' = fst
  <2>1. CASE ThisTask.table = "FST"
    BY <1>2, <1>3, <1>4, <1>6, <2>1 DEF Held, Recording
  <2>2. CASE ThisTask.table # "FST"
    <3>1. fst' = fst /\ ~Recording'
      BY <1>6, <2>2 DEF CopyTable, Recording
    <3>2. QED
      BY <1>2, <3>1 DEF Held
  <2>3. QED
    BY <2>1, <2>2
<1>8. QED
  BY <1>5, <1>7

LEMMA HeldWriteTable ==
  ASSUME UpdBase, UpdBase', WriteTable, "raced" \notin happened'
  PROVE  IF ThisTask.table = "FST" THEN Held = run.fst /\ Held' = fst' ELSE Held' = Held
<1>1. run \in RunRec /\ ulock' = ulock /\ uproc' = uproc
  BY RunsAre DEF UpdBase, WriteTable
<1>2. ~Rewriting /\ ~Rewriting'
  BY <1>1, RewritingBoth DEF WriteTable, Occurs, RewritingFacts
<1>3. run'.st = "record"
  BY <1>1 DEF WriteTable, RunRec
<1>4. ~Recording' /\ Held' = fst'
  BY <1>2, <1>3 DEF Recording, Held
<1>5. CASE ThisTask.table = "FST"
  BY <1>2, <1>4, <1>5 DEF Held, Recording, WriteTable
<1>6. CASE ThisTask.table # "FST"
  BY <1>2, <1>4, <1>6 DEF Held, Recording, WriteTable
<1>7. QED
  BY <1>5, <1>6

\* UNext by the steps above.
LEMMA StepKinds ==
  ASSUME UpdBase, [UNext]_uvars, "died" \notin happened'
  PROVE  \/ Aside
         \/ \E p \in Askers : CopySft(p) \/ WriteSft(p) \/ CopyFst(p) \/ WriteFst(p)
         \/ CopyTable \/ WriteTable
<1>1. ~UDie
  BY DEF UDie, Occurs
<1>2. QED
  BY <1>1 DEF UNext, Aside, Deliveries

\* What a table says, as the SFT would.
Says(T) == UNION {{<<User(w[1]), f, w[2]>> : w \in T[f].who} : f \in Lines}

\* What is left of it, or comes to it, by a request.
Asked(r, S) ==
  IF r.op = "add" THEN S \cup {<<User(r.a), r.f, r.m>>}
  ELSE {e \in S : ~(e[1] = User(r.a) /\ (r.f = All \/ e[2] = r.f))}

LEMMA SaysWho ==
  ASSUME NEW T, NEW V, \A f \in Lines : T[f].who = V[f].who
  PROVE  Says(T) = Says(V)
BY DEF Says

LEMMA SaysTime ==
  ASSUME NEW T \in FstTables, NEW f \in Lines, NEW t
  PROVE  Says([T EXCEPT ![f] = NewTime(T[f], t)]) = Says(T)
<1> DEFINE V == [T EXCEPT ![f] = NewTime(T[f], t)]
<1>1. NewTime(T[f], t).who = T[f].who
  BY DEF NewTime, FstTables
<1>2. \A g \in Lines : V[g].who = T[g].who
  BY <1>1 DEF FstTables
<1> HIDE DEF V
<1>3. Says(V) = Says(T)
  BY <1>2, SaysWho
<1>4. QED
  BY <1>3 DEF V

LEMMA SaysAdd ==
  ASSUME NEW T \in FstTables, NEW r \in AskRec, r.op = "add"
  PROVE  Says([T EXCEPT ![r.f] = AddLine(T[r.f], r.f, r.a, r.m)]) = Asked(r, Says(T))
<1> DEFINE V == [T EXCEPT ![r.f] = AddLine(T[r.f], r.f, r.a, r.m)]
<1>1. r.f \in Lines
  BY DEF AskRec
<1>2. AddLine(T[r.f], r.f, r.a, r.m).who = T[r.f].who \cup {<<r.a, r.m>>}
  BY DEF AddLine
<1>3. \A g \in Lines : V[g].who = IF g = r.f THEN T[g].who \cup {<<r.a, r.m>>} ELSE T[g].who
  BY <1>1, <1>2 DEF FstTables
<1> HIDE DEF V
<1>4. ASSUME NEW x \in Says(V) PROVE x \in Says(T) \cup {<<User(r.a), r.f, r.m>>}
  <2>1. PICK f \in Lines : \E w \in V[f].who : x = <<User(w[1]), f, w[2]>>
    BY <1>4 DEF Says
  <2>2. PICK w \in V[f].who : x = <<User(w[1]), f, w[2]>>
    BY <2>1
  <2>3. CASE w \in T[f].who
    BY <2>2, <2>3 DEF Says
  <2>4. CASE w \notin T[f].who
    <3>1. f = r.f /\ w = <<r.a, r.m>>
      BY <1>3, <2>2, <2>4
    <3>2. QED
      BY <2>2, <3>1
  <2>5. QED
    BY <2>3, <2>4
<1>5. ASSUME NEW x \in Says(T) PROVE x \in Says(V)
  <2>1. PICK f \in Lines : \E w \in T[f].who : x = <<User(w[1]), f, w[2]>>
    BY <1>5 DEF Says
  <2>2. PICK w \in T[f].who : x = <<User(w[1]), f, w[2]>>
    BY <2>1
  <2>3. w \in V[f].who
    BY <1>3, <2>2
  <2>4. QED
    BY <2>2, <2>3 DEF Says
<1>6. <<User(r.a), r.f, r.m>> \in Says(V)
  <2>1. <<r.a, r.m>> \in V[r.f].who /\ <<r.a, r.m>>[1] = r.a /\ <<r.a, r.m>>[2] = r.m
    BY <1>1, <1>3
  <2>2. QED
    BY <1>1, <2>1 DEF Says
<1>7. Says(V) = Says(T) \cup {<<User(r.a), r.f, r.m>>}
  BY <1>4, <1>5, <1>6
<1>8. QED
  BY <1>7 DEF Asked, V

LEMMA SaysDel ==
  ASSUME NEW T \in FstTables, NEW r \in AskRec, r.op # "add",
         \A f \in Concerned(r.f) : \A w \in T[f].who : User(w[1]) = User(r.a) => w[1] = r.a
  PROVE  Says([f \in Lines |-> IF f \in Concerned(r.f) THEN DelLine(T[f], r.a) ELSE T[f]])
           = Asked(r, Says(T))
<1> DEFINE V == [f \in Lines |-> IF f \in Concerned(r.f) THEN DelLine(T[f], r.a) ELSE T[f]]
<1>1. \A f \in Lines : DelLine(T[f], r.a).who = {w \in T[f].who : w[1] # r.a}
  BY DEF DelLine, Unwanted, FstTables
<1>2. \A f \in Lines : V[f].who = IF f \in Concerned(r.f) THEN {w \in T[f].who : w[1] # r.a} ELSE T[f].who
  BY <1>1
<1>3. \A f \in Lines : f \in Concerned(r.f) <=> r.f = All \/ f = r.f
  BY DEF Concerned
<1> HIDE DEF V
<1>4. ASSUME NEW x \in Says(V)
      PROVE  x \in Says(T) /\ ~(x[1] = User(r.a) /\ (r.f = All \/ x[2] = r.f))
  <2>1. PICK f \in Lines : \E w \in V[f].who : x = <<User(w[1]), f, w[2]>>
    BY <1>4 DEF Says
  <2>2. PICK w \in V[f].who : x = <<User(w[1]), f, w[2]>>
    BY <2>1
  <2>3. w \in T[f].who /\ (f \in Concerned(r.f) => User(w[1]) # User(r.a))
    BY <1>2, <2>2
  <2>4. x[1] = User(w[1]) /\ x[2] = f
    BY <2>2
  <2>5. x \in Says(T)
    BY <2>2, <2>3 DEF Says
  <2>6. QED
    BY <1>3, <2>3, <2>4, <2>5
<1>5. ASSUME NEW x \in Says(T), ~(x[1] = User(r.a) /\ (r.f = All \/ x[2] = r.f))
      PROVE  x \in Says(V)
  <2>1. PICK f \in Lines : \E w \in T[f].who : x = <<User(w[1]), f, w[2]>>
    BY <1>5 DEF Says
  <2>2. PICK w \in T[f].who : x = <<User(w[1]), f, w[2]>>
    BY <2>1
  <2>3. x[1] = User(w[1]) /\ x[2] = f
    BY <2>2
  <2>4. f \in Concerned(r.f) => w[1] # r.a
    BY <1>3, <1>5, <2>3
  <2>5. w \in V[f].who
    BY <1>2, <2>2, <2>4
  <2>6. QED
    BY <2>2, <2>5 DEF Says
<1>6. Says(V) = {e \in Says(T) : ~(e[1] = User(r.a) /\ (r.f = All \/ e[2] = r.f))}
  BY <1>4, <1>5
<1>7. QED
  BY <1>6 DEF Asked, V

LEMMA HappenedStays == ASSUME [UNext]_uvars PROVE happened \subseteq happened'
<1>1. ASSUME NEW f \in AfdFiles, Change(f) PROVE happened \subseteq happened'
  BY <1>1 DEF Change, Occurs
<1>2. ASSUME NEW p \in Askers, Add(p) \/ Delete(p) PROVE happened \subseteq happened'
  BY <1>2 DEF Add, Delete, Ask
<1>3. ASSUME NEW p \in Askers,
             Check(p) \/ CopySft(p) \/ WriteSft(p) \/ CopyFst(p) \/ WriteFst(p)
      PROVE  happened \subseteq happened'
  BY <1>3 DEF Check, CopySft, WriteSft, CopyFst, WriteFst, Occurs
<1>4. ASSUME Deliveries PROVE happened \subseteq happened'
  BY <1>4 DEF Deliveries, StartRun, Collect, Notify, Deliver, DeliverFails, Skip, CopyTable, WriteTable,
     EndRun, Occurs
<1>5. CASE UDie
  BY <1>5 DEF UDie, Occurs
<1>6. CASE UNCHANGED uvars
  BY <1>6 DEF uvars
<1>7. QED
  BY <1>1, <1>2, <1>3, <1>4, <1>5, <1>6 DEF UNext

\* What the SFT has to be, by how far the request is that has the lock.
SftAgrees ==
  IF ulock = NoAsker THEN sft = Says(Held)
  ELSE IF uproc[ulock].st = "sft" THEN uproc[ulock].sft = Says(Held)
  ELSE sft = Asked(uproc[ulock], Says(Held))
SftOK == NoneOf({"died", "raced", "prefix", "respelled"}) => SftAgrees

LEMMA SftAside ==
  ASSUME UpdBase, UpdBase', SftAgrees, Aside
  PROVE  SftAgrees'
<1>1. Held' = Held /\ ulock' = ulock /\ sft' = sft /\ \A p \in Askers : Rewrites(p) => uproc'[p] = uproc[p]
  BY HeldAside
<1>2. ulock # NoAsker => uproc'[ulock] = uproc[ulock]
  BY <1>1, RewritingIs DEF RewritingFacts
<1>3. QED
  BY <1>1, <1>2 DEF SftAgrees

LEMMA SftCopySft ==
  ASSUME UpdBase, UpdBase', SftAgrees, NEW p \in Askers, CopySft(p)
  PROVE  SftAgrees'
<1>1. uproc[p] \in AskRec /\ ulock = NoAsker /\ ulock' = p
  BY AskersAre DEF UpdBase, CopySft
<1>2. uproc'[p].st = "sft" /\ uproc'[p].sft = sft
  BY <1>1 DEF CopySft, AskRec, UpdBase, UTypeOK
<1>3. Held' = Held
  BY HeldSft
<1>4. p # NoAsker
  BY UpdatesAssumption
<1>5. QED
  BY <1>1, <1>2, <1>3, <1>4 DEF SftAgrees

LEMMA SftWriteSft ==
  ASSUME UpdBase, UpdBase', SftAgrees, NEW p \in Askers, WriteSft(p), "prefix" \notin happened'
  PROVE  SftAgrees'
<1> DEFINE r == uproc[p]
<1>1. r \in AskRec /\ ulock = p /\ ulock' = p /\ p # NoAsker
  BY AskersAre, UpdatesAssumption DEF UpdBase, WriteSft, OwnOK, Rewrites
<1>2. r.sft = Says(Held)
  BY <1>1 DEF SftAgrees, WriteSft
<1>3. Held' = Held
  BY HeldSft
<1>4. uproc' = [uproc EXCEPT ![p] = [r EXCEPT !.st = "fst"]]
  BY DEF WriteSft, Goes
<1>5. uproc'[p].st = "fst" /\ uproc'[p].op = r.op /\ uproc'[p].a = r.a /\ uproc'[p].f = r.f /\ uproc'[p].m = r.m
  BY <1>1, <1>4 DEF AskRec, UpdBase, UTypeOK
<1> DEFINE S == Says(Held)
           gone == {e \in r.sft : e[1] = User(r.a) /\ (r.f = All \/ (e[2] # All /\ Covers(r.f, e[2])))}
<1>6. sft' = IF r.op = "add" THEN r.sft \cup {<<User(r.a), r.f, r.m>>} ELSE r.sft \ gone
  BY DEF WriteSft
<1>7. r.op # "add" /\ r.f # All => \A e \in gone : e[2] = r.f
  <2>1. r.op # "add" => r.op = "del"
    BY <1>1 DEF AskRec
  <2>2. ~(r.op = "del" /\ r.f # All /\ \E e \in gone : e[2] # r.f)
    BY DEF WriteSft, Occurs
  <2>3. QED
    BY <2>1, <2>2
<1>8. ASSUME r.op # "add" PROVE r.sft \ gone = {e \in r.sft : ~(e[1] = User(r.a) /\ (r.f = All \/ e[2] = r.f))}
  <2>1. ASSUME NEW e \in r.sft PROVE e \in gone <=> e[1] = User(r.a) /\ (r.f = All \/ e[2] = r.f)
    BY <1>7, <1>8 DEF Covers
  <2>2. QED
    BY <2>1
<1>9. sft' = Asked(r, r.sft)
  BY <1>6, <1>8 DEF Asked
<1>10. Asked(uproc'[p], r.sft) = Asked(r, r.sft)
  BY <1>5 DEF Asked
<1>11. sft' = Asked(uproc'[ulock'], Says(Held'))
  BY <1>1, <1>2, <1>3, <1>9, <1>10
<1>12. ulock' # NoAsker /\ uproc'[ulock'].st # "sft"
  BY <1>1, <1>5
<1>13. QED
  BY <1>11, <1>12 DEF SftAgrees

LEMMA SftCopyFst ==
  ASSUME UpdBase, UpdBase', SftAgrees, NEW p \in Askers, CopyFst(p), "raced" \notin happened'
  PROVE  SftAgrees'
<1> DEFINE r == uproc[p]
<1>1. r \in AskRec /\ ulock = p /\ ulock' = p /\ p # NoAsker
  BY AskersAre, UpdatesAssumption DEF UpdBase, CopyFst, OwnOK, Rewrites
<1>2. sft = Asked(r, Says(Held)) /\ sft' = sft
  BY <1>1 DEF SftAgrees, CopyFst
<1>3. Held' = Held
  BY HeldCopyFst
<1>4. uproc' = [uproc EXCEPT ![p] = [r EXCEPT !.st = "write", !.fst = fst]]
  BY DEF CopyFst
<1>5. uproc'[p].st = "write" /\ uproc'[p].op = r.op /\ uproc'[p].a = r.a /\ uproc'[p].f = r.f /\ uproc'[p].m = r.m
  BY <1>1, <1>4 DEF AskRec, UpdBase, UTypeOK
<1>6. Asked(uproc'[p], Says(Held)) = Asked(r, Says(Held))
  BY <1>5 DEF Asked
<1>7. sft' = Asked(uproc'[ulock'], Says(Held'))
  BY <1>1, <1>2, <1>3, <1>6
<1>8. ulock' # NoAsker /\ uproc'[ulock'].st # "sft"
  BY <1>1, <1>5
<1>9. QED
  BY <1>7, <1>8 DEF SftAgrees

\* The new FST, of the copy that the request holds.
NewFst(r) ==
  IF r.op = "add" THEN [r.fst EXCEPT ![r.f] = AddLine(r.fst[r.f], r.f, r.a, r.m)]
  ELSE [f \in Lines |-> IF f \in Concerned(r.f) THEN DelLine(r.fst[f], r.a) ELSE r.fst[f]]

LEMMA SftWriteFst ==
  ASSUME UpdBase, UpdBase', SftAgrees, NEW p \in Askers, WriteFst(p),
         "raced" \notin happened', "respelled" \notin happened'
  PROVE  SftAgrees'
<1> DEFINE r == uproc[p]
<1>1. r \in AskRec /\ ulock = p /\ ulock' = NoAsker /\ p # NoAsker /\ r.st = "write" /\ sft' = sft
  BY AskersAre, UpdatesAssumption DEF UpdBase, WriteFst, OwnOK, Rewrites
<1>2. Held = r.fst /\ Held' = fst'
  BY HeldWriteFst
<1>3. sft = Asked(r, Says(r.fst))
  BY <1>1, <1>2 DEF SftAgrees
<1>4. fst' = NewFst(r)
  BY DEF WriteFst, NewFst
<1>5. r.fst \in FstTables
  BY <1>1 DEF AskRec
<1>6. Says(fst') = Asked(r, Says(r.fst))
  <2>1. CASE r.op = "add"
    <3>1. Says([r.fst EXCEPT ![r.f] = AddLine(r.fst[r.f], r.f, r.a, r.m)]) = Asked(r, Says(r.fst))
      BY <1>1, <1>5, <2>1, SaysAdd
    <3>2. QED
      BY <1>4, <2>1, <3>1 DEF NewFst
  <2>2. CASE r.op # "add"
    <3>1. \A f \in Concerned(r.f) : \A w \in r.fst[f].who : User(w[1]) = User(r.a) => w[1] = r.a
      <4>1. r.op = "del"
        BY <1>1, <2>2 DEF AskRec
      <4>2. QED
        BY <4>1 DEF WriteFst
    <3>2. Says([f \in Lines |-> IF f \in Concerned(r.f) THEN DelLine(r.fst[f], r.a) ELSE r.fst[f]])
            = Asked(r, Says(r.fst))
      BY <1>1, <1>5, <2>2, <3>1, SaysDel
    <3>3. QED
      BY <1>4, <2>2, <3>2 DEF NewFst
  <2>3. QED
    BY <2>1, <2>2
<1>7. QED
  BY <1>1, <1>2, <1>3, <1>6 DEF SftAgrees

LEMMA SftRecord ==
  ASSUME UpdBase, UpdBase', SftAgrees, CopyTable \/ WriteTable, "raced" \notin happened'
  PROVE  SftAgrees'
<1>1. sft' = sft /\ ulock' = ulock /\ uproc' = uproc
  BY DEF CopyTable, WriteTable
<1>2. Says(Held') = Says(Held)
  <2>1. CASE CopyTable
    BY <2>1, HeldCopy
  <2>2. CASE WriteTable /\ ThisTask.table # "FST"
    BY <2>2, HeldWriteTable
  <2>3. CASE WriteTable /\ ThisTask.table = "FST"
    <3>1. Held = run.fst /\ Held' = fst'
      BY <2>3, HeldWriteTable
    <3>2. run \in RunRec /\ run.tasks # <<>>
      BY <2>3, RunsAre DEF UpdBase, WriteTable, StageOK
    <3>3. run.fst \in FstTables /\ ThisTask.file \in Lines
      BY <2>3, <3>2, TaskIs DEF RunRec, TaskRec, Lines, WriteTable
    <3>4. fst' = [run.fst EXCEPT ![ThisTask.file] = NewTime(run.fst[ThisTask.file], mtime[ThisTask.file])]
      BY <2>3 DEF WriteTable
    <3>5. QED
      BY <3>1, <3>3, <3>4, SaysTime
  <2>4. QED
    BY <2>1, <2>2, <2>3
<1>3. QED
  BY <1>1, <1>2 DEF SftAgrees

LEMMA SftStep ==
  ASSUME UpdBase, UpdBase', SftOK, [UNext]_uvars
  PROVE  SftOK'
<1> SUFFICES ASSUME NoneOf({"died", "raced", "prefix", "respelled"})' PROVE SftAgrees'
  BY DEF SftOK
<1>1. NoneOf({"died", "raced", "prefix", "respelled"})
  BY HappenedStays DEF NoneOf
<1>2. SftAgrees
  BY <1>1 DEF SftOK
<1>3. /\ "died" \notin happened' /\ "raced" \notin happened'
      /\ "prefix" \notin happened' /\ "respelled" \notin happened'
  BY DEF NoneOf
<1>4. \/ Aside
      \/ \E p \in Askers : CopySft(p) \/ WriteSft(p) \/ CopyFst(p) \/ WriteFst(p)
      \/ CopyTable \/ WriteTable
  BY <1>3, StepKinds
<1>5. QED
  BY <1>2, <1>3, <1>4, SftAside, SftCopySft, SftWriteSft, SftCopyFst, SftWriteFst, SftRecord

LEMMA SftInit == ASSUME UInit PROVE SftOK
<1>1. UpdBase
  BY UBaseInit
<1>2. ulock = NoAsker /\ sft = {} /\ fst = EmptyFst /\ run = AtRest /\ uproc = [p \in Askers |-> AtRest]
  BY DEF UInit
<1>3. Held = EmptyFst
  BY <1>2, UpdatesAssumption DEF Held, Rewriting, Asking, Recording, Running
<1>4. Says(EmptyFst) = {}
  BY DEF Says, EmptyFst, Unwanted
<1>5. QED
  BY <1>2, <1>3, <1>4 DEF SftOK, SftAgrees

-----------------------------------------------------------------------------
(* FileUpdates: the times, and who knows of what *)

\* The tables there are, on disk or in the hands of who is writing one.
IsSome(T) ==
  \/ T = fst
  \/ \E p \in Askers : uproc[p].st = "write" /\ T = uproc[p].fst
  \/ Running /\ run.st = "write" /\ T = run.fst

\* The FST that WriteTable makes.
Recorded ==
  LET f == ThisTask.file
  IN  [run.fst EXCEPT ![f] = NewTime(run.fst[f], mtime[f])]

\* Where the tables come from.
LEMMA SomeRequest ==
  ASSUME UpdBase, NEW p \in Askers, NEW T, IsSome(T)',
         Check(p) \/ CopySft(p) \/ WriteSft(p) \/ CopyFst(p) \/ WriteFst(p)
  PROVE  IsSome(T) \/ T = EmptyFst \/ (WriteFst(p) /\ T = NewFst(uproc[p]))
<1>1. run' = run /\ \A q \in Askers : q # p => uproc'[q] = uproc[q]
  BY DEF Check, CopySft, WriteSft, CopyFst, WriteFst, Goes, UpdBase, UTypeOK
<1>2. uproc[p] \in AskRec
  BY AskersAre DEF UpdBase, Check, CopySft, WriteSft, CopyFst, WriteFst
<1>3. CASE Check(p) \/ CopySft(p) \/ WriteSft(p)
  <2>1. uproc'[p].st # "write"
    <3>1. CASE uproc' = [uproc EXCEPT ![p] = AtRest]
      BY <3>1 DEF AtRest, UpdBase, UTypeOK
    <3>2. CASE Goes(p, "lock") \/ Goes(p, "fst")
      BY <1>2, <3>2 DEF Goes, AskRec, UpdBase, UTypeOK
    <3>3. CASE CopySft(p)
      BY <1>2, <3>3 DEF CopySft, AskRec, UpdBase, UTypeOK
    <3>4. QED
      BY <1>3, <3>1, <3>2, <3>3 DEF Check, WriteSft
  <2>2. fst' = fst
    BY <1>3 DEF Check, CopySft, WriteSft, tables
  <2>3. QED
    BY <1>1, <2>1, <2>2 DEF IsSome, Running
<1>4. CASE CopyFst(p)
  <2>1. uproc'[p].fst = fst /\ fst' = EmptyFst
    BY <1>2, <1>4 DEF CopyFst, AskRec, UpdBase, UTypeOK
  <2>2. QED
    BY <1>1, <2>1 DEF IsSome, Running
<1>5. CASE WriteFst(p)
  <2>1. uproc'[p].st = "idle" /\ fst' = NewFst(uproc[p])
    BY <1>5 DEF WriteFst, NewFst, AtRest, UpdBase, UTypeOK
  <2>2. QED
    BY <1>1, <1>5, <2>1 DEF IsSome, Running
<1>6. QED
  BY <1>3, <1>4, <1>5

LEMMA SomeRun ==
  ASSUME UpdBase, NEW T, IsSome(T)', Deliveries
  PROVE  \/ IsSome(T) \/ T = EmptyFst
         \/ WriteTable /\ ThisTask.table = "FST" /\ T = Recorded
<1>1. uproc' = uproc
  BY DEF Deliveries, StartRun, Collect, Notify, Deliver, DeliverFails, Skip, CopyTable, WriteTable, EndRun
<1>2. Running => run \in RunRec
  BY RunsAre DEF UpdBase
<1>3. CASE CopyTable
  <2>1. run'.fst = fst /\ (fst' = fst \/ fst' = EmptyFst)
    BY <1>2, <1>3 DEF CopyTable, RunRec
  <2>2. QED
    BY <1>1, <2>1 DEF IsSome
<1>4. CASE WriteTable
  <2>1. run'.st = "record"
    BY <1>2, <1>4 DEF WriteTable, RunRec
  <2>2. fst' = fst \/ (ThisTask.table = "FST" /\ fst' = Recorded)
    BY <1>4 DEF WriteTable, Recorded
  <2>3. QED
    BY <1>1, <1>4, <2>1, <2>2 DEF IsSome
<1>5. CASE StartRun \/ Collect \/ Notify \/ Deliver \/ DeliverFails \/ Skip \/ EndRun
  <2>1. fst' = fst
    BY <1>5 DEF StartRun, Collect, Notify, Deliver, DeliverFails, Skip, EndRun, tables
  <2>2. ~(Running /\ run.st = "write")'
    <3>1. CASE StartRun
      BY <3>1 DEF StartRun
    <3>2. CASE Collect
      BY <1>2, <3>2 DEF Collect, RunRec
    <3>3. CASE Notify
      BY <1>2, <3>3 DEF Notify, RunRec
    <3>4. CASE Deliver \/ Skip
      BY <1>2, <3>4 DEF Deliver, Skip, RunRec
    <3>5. CASE DeliverFails \/ EndRun
      BY <3>5 DEF DeliverFails, EndRun, Running
    <3>6. QED
      BY <1>5, <3>1, <3>2, <3>3, <3>4, <3>5
  <2>3. QED
    BY <1>1, <2>1, <2>2 DEF IsSome
<1>6. QED
  BY <1>3, <1>4, <1>5 DEF Deliveries

LEMMA SomeSteps ==
  ASSUME UpdBase, [UNext]_uvars, NEW T, IsSome(T)'
  PROVE  \/ IsSome(T) \/ T = EmptyFst
         \/ \E p \in Askers : WriteFst(p) /\ T = NewFst(uproc[p])
         \/ WriteTable /\ ThisTask.table = "FST" /\ T = Recorded
<1>1. ASSUME NEW f, Change(f) PROVE IsSome(T)
  BY <1>1 DEF Change, tables, IsSome, Running
<1>2. ASSUME NEW p \in Askers, Add(p) \/ Delete(p) PROVE IsSome(T)
  <2>1. PICK op, a, f, m : Ask(p, op, a, f, m)
    BY <1>2 DEF Add, Delete
  <2>2. uproc'[p].st = "check" /\ \A q \in Askers : q # p => uproc'[q] = uproc[q]
    BY <2>1 DEF Ask, UpdBase, UTypeOK
  <2>3. fst' = fst /\ run' = run
    BY <2>1 DEF Ask, tables
  <2>4. QED
    BY <2>2, <2>3 DEF IsSome, Running
<1>3. CASE UDie
  <2>1. fst' = fst
    BY <1>3 DEF UDie, tables
  <2>2. CASE Running /\ run' = AtRest /\ UNCHANGED <<uproc, ulock>>
    BY <2>1, <2>2 DEF IsSome, Running
  <2>3. ASSUME NEW p \in Askers, uproc' = [uproc EXCEPT ![p] = AtRest], UNCHANGED run
        PROVE  IsSome(T)
    <3>1. uproc'[p].st = "idle" /\ \A q \in Askers : q # p => uproc'[q] = uproc[q]
      BY <2>3 DEF UpdBase, UTypeOK, AtRest
    <3>2. QED
      BY <2>1, <2>3, <3>1 DEF IsSome, Running
  <2>4. QED
    BY <1>3, <2>2, <2>3 DEF UDie
<1>4. CASE UNCHANGED uvars
  BY <1>4 DEF uvars, tables, IsSome, Running
<1>5. QED
  BY <1>1, <1>2, <1>3, <1>4, SomeRequest, SomeRun DEF UNext

\* The files, and the mail.
LEMMA TimeSteps ==
  ASSUME UpdBase, [UNext]_uvars
  PROVE  \/ texts' = texts /\ counts'.changes = counts.changes
         \/ \E f \in AfdFiles : Change(f)
<1>1. ASSUME NEW p \in Askers, Add(p) \/ Delete(p)
      PROVE  texts' = texts /\ counts'.changes = counts.changes
  BY <1>1 DEF Add, Delete, Ask, UpdBase, UTypeOK
<1>2. ASSUME NEW p \in Askers, Check(p) \/ CopySft(p) \/ WriteSft(p) \/ CopyFst(p) \/ WriteFst(p)
      PROVE  texts' = texts /\ counts'.changes = counts.changes
  BY <1>2 DEF Check, CopySft, WriteSft, CopyFst, WriteFst
<1>3. ASSUME Deliveries PROVE texts' = texts /\ counts'.changes = counts.changes
  <2>1. CASE StartRun \/ DeliverFails
    BY <2>1 DEF StartRun, DeliverFails, UpdBase, UTypeOK
  <2>2. CASE Collect \/ Notify \/ Deliver \/ Skip \/ CopyTable \/ WriteTable \/ EndRun
    BY <2>2 DEF Collect, Notify, Deliver, Skip, CopyTable, WriteTable, EndRun
  <2>3. QED
    BY <1>3, <2>1, <2>2 DEF Deliveries
<1>4. CASE UDie \/ UNCHANGED uvars
  BY <1>4 DEF UDie, uvars, texts
<1>5. QED
  BY <1>1, <1>2, <1>3, <1>4 DEF UNext

LEMMA TellSteps ==
  ASSUME UpdBase, [UNext]_uvars
  PROVE  /\ told \subseteq told' /\ had \subseteq had'
         /\ told' # told => Notify \/ Deliver
         /\ had' # had => \E p \in Askers : WriteFst(p)
<1>1. ASSUME NEW f, Change(f) PROVE told' = told /\ had' = had
  BY <1>1 DEF Change, ghosts
<1>2. ASSUME NEW p \in Askers, Add(p) \/ Delete(p) PROVE told' = told /\ had' = had
  BY <1>2 DEF Add, Delete, Ask, ghosts
<1>3. ASSUME NEW p \in Askers, Check(p) \/ CopySft(p) \/ WriteSft(p) \/ CopyFst(p)
      PROVE  told' = told /\ had' = had
  BY <1>3 DEF Check, CopySft, WriteSft, CopyFst, ghosts
<1>4. ASSUME NEW p \in Askers, WriteFst(p) PROVE told' = told /\ had \subseteq had'
  BY <1>4 DEF WriteFst
<1>5. CASE Notify \/ Deliver
  BY <1>5 DEF Notify, Deliver
<1>6. CASE StartRun \/ Collect \/ DeliverFails \/ Skip \/ CopyTable \/ WriteTable \/ EndRun
  BY <1>6 DEF StartRun, Collect, DeliverFails, Skip, CopyTable, WriteTable, EndRun, ghosts
<1>7. CASE UDie \/ UNCHANGED uvars
  BY <1>7 DEF UDie, uvars, ghosts
<1>8. QED
  BY <1>1, <1>2, <1>3, <1>4, <1>5, <1>6, <1>7 DEF UNext, Deliveries

\* What is told of a file is its present time and edition.
LEMMA ToldNow ==
  ASSUME UpdBase, Notify \/ Deliver, NEW e \in told', e \notin told
  PROVE  e[2] \in AfdFiles /\ e[4] = mtime[e[2]] /\ e[5] = edition[e[2]]
<1>1. run \in RunRec
  BY RunsAre DEF UpdBase, Notify, Deliver
<1>2. PICK x \in EntryRec, m \in Modes : e \in Mail(x, m)
  <2>1. CASE Notify
    <3>1. PICK i \in DOMAIN run.N : e \in Mail(run.N[i], "N")
      BY <2>1 DEF Notify
    <3>2. run.N[i] \in EntryRec
      <4>1. run.N \in Seq(EntryRec)
        BY <1>1 DEF RunRec
      <4>2. QED
        BY <4>1
    <3>3. QED
      BY <3>1, <3>2 DEF Modes
  <2>2. CASE Deliver
    BY <2>2, FirstIs DEF Deliver, Modes
  <2>3. QED
    BY <2>1, <2>2
<1>3. QED
  BY <1>2 DEF Mail, EntryRec

\* No edition is later than the last change.
EditionsOK ==
  /\ \A f \in AfdFiles : edition[f] <= counts.changes
  /\ \A e \in told : e[5] <= counts.changes

LEMMA EditionsInit == ASSUME UInit PROVE EditionsOK
BY DEF UInit, EditionsOK

LEMMA EditionsStep ==
  ASSUME UpdBase, UpdBase', EditionsOK, [UNext]_uvars
  PROVE  EditionsOK'
<1>1. /\ counts.changes \in Nat /\ counts'.changes \in Nat
      /\ \A f \in AfdFiles : edition[f] \in Nat /\ edition'[f] \in Nat
  BY DEF UpdBase, UTypeOK
<1>2. /\ counts.changes <= counts'.changes
      /\ \A f \in AfdFiles : edition'[f] <= counts'.changes
  <2>1. CASE texts' = texts /\ counts'.changes = counts.changes
    BY <1>1, <2>1 DEF EditionsOK, texts
  <2>2. ASSUME NEW f \in AfdFiles, Change(f)
        PROVE  /\ counts.changes <= counts'.changes
               /\ \A g \in AfdFiles : edition'[g] <= counts'.changes
    <3>1. counts'.changes = counts.changes + 1
      BY <2>2, ChangeDoes DEF UpdBase
    <3>2. ASSUME NEW g \in AfdFiles PROVE edition'[g] \in {edition[g], 0, counts'.changes}
      BY <2>2, ChangeDoes DEF UpdBase
    <3>3. QED
      BY <1>1, <3>1, <3>2 DEF EditionsOK
  <2>3. QED
    BY <2>1, <2>2, TimeSteps
<1>3. ASSUME NEW e \in told' PROVE e[5] <= counts'.changes
  <2>1. CASE e \in told
    <3>1. e[5] \in Nat /\ e[5] <= counts.changes
      BY <2>1 DEF EditionsOK, UpdBase, UTypeOK
    <3>2. QED
      BY <1>1, <1>2, <3>1
  <2>2. CASE e \notin told
    <3>1. e[2] \in AfdFiles /\ e[5] = edition[e[2]]
      BY <1>3, <2>2, TellSteps, ToldNow
    <3>2. QED
      BY <1>1, <1>2, <3>1 DEF EditionsOK
  <2>3. QED
    BY <2>1, <2>2
<1>4. QED
  BY <1>2, <1>3 DEF EditionsOK

\* Who is still to hear of a file by the delivery under way.
Owed(a, f) ==
  \/ run.st = "notify" /\ \E i \in DOMAIN run.N : run.N[i].file = f /\ a \in run.N[i].who
  \/ run.st \in {"notify", "deliver"} /\ \E i \in DOMAIN run.D : run.D[i].file = f /\ a \in run.D[i].who

Collected == Running /\ run.st # "collect"

\* Everybody in a line has heard of the time in it; once a delivery has
\* collected, everybody in any line has heard of the file, or is to.  A version
\* of the second that the FST had is left out.
KnownLine(T, f) ==
  f \notin blurred /\ mtime[f] # 0 =>
    \A w \in T[f].who :
      /\ T[f].time = mtime[f] => Got(w[1], f, mtime[f])
      /\ Collected => Got(w[1], f, mtime[f]) \/ Owed(w[1], f)
HeardOK ==
  NoneOf({"changed", "left"}) =>
    /\ Collected => Len(run.D) <= 1
    /\ \A T \in FstTables : IsSome(T) => \A f \in AfdFiles : KnownLine(T, f)

\* What is known stays known, and what is due is done or stays due.
LEMMA KnownMove ==
  ASSUME UpdBase, [UNext]_uvars, texts' = texts, ~Collect, Collected => Len(run.D) <= 1,
         NEW a, NEW f
  PROVE  /\ Got(a, f, mtime[f]) => Got(a, f, mtime[f])'
         /\ Collected' => Collected /\ (Owed(a, f) => Owed(a, f)' \/ Got(a, f, mtime[f])')
         /\ Collected' => run'.D = run.D
<1>1. Got(a, f, mtime[f]) => Got(a, f, mtime[f])'
  BY TellSteps DEF Got, texts
<1>2. Running => run \in RunRec
  BY RunsAre DEF UpdBase
<1> DEFINE Moves == Collected' => /\ Collected /\ run'.D = run.D
                                  /\ Owed(a, f) => Owed(a, f)' \/ Got(a, f, mtime[f])'
<1>3. ASSUME run' = run PROVE Moves
  BY <1>3 DEF Collected, Running, Owed
<1>4. ASSUME UNext PROVE run' = run \/ Deliveries \/ run' = AtRest
  BY <1>4 DEF UNext, Change, Add, Delete, Ask, Check, CopySft, WriteSft, CopyFst, WriteFst, UDie
<1>5. ASSUME run' = AtRest PROVE Moves
  BY <1>5 DEF Collected, Running
<1>6. ASSUME StartRun PROVE Moves
  BY <1>6 DEF StartRun, Collected
<1>7. ASSUME Notify PROVE Moves
  <2>1. run \in RunRec /\ run.st = "notify" /\ Collected
    BY <1>2, <1>7 DEF Notify, Collected
  <2>2. run'.D = run.D /\ (run.D # <<>> => run'.st = "deliver")
    BY <1>7, <2>1 DEF Notify, RunRec
  <2>3. ASSUME NEW i \in DOMAIN run.N, run.N[i].file = f, a \in run.N[i].who
        PROVE  Got(a, f, mtime[f])'
    <3>1. <<a, f, "N", mtime[f], edition[f]>> \in Mail(run.N[i], "N")
      BY <2>3 DEF Mail
    <3>2. <<a, f, "N", mtime'[f], edition'[f]>> \in told'
      BY <1>7, <3>1 DEF Notify, texts
    <3>3. QED
      BY <3>2 DEF Got, Modes
  <2>4. ASSUME NEW i \in DOMAIN run.D, run.D[i].file = f, a \in run.D[i].who
        PROVE  Owed(a, f)'
    <3>1. run.D # <<>>
      <4>1. run.D \in Seq(EntryRec)
        BY <2>1 DEF RunRec
      <4>2. QED
        BY <2>4, <4>1
    <3>2. QED
      BY <2>2, <2>4, <3>1 DEF Owed
  <2>5. QED
    BY <2>1, <2>2, <2>3, <2>4 DEF Owed
<1>8. ASSUME Deliver PROVE Moves
  <2>1. run \in RunRec /\ run.st = "deliver" /\ Collected
    BY <1>2, <1>8 DEF Deliver, Collected
  <2>2. run'.D = run.D
    BY <1>8, <2>1 DEF Deliver, RunRec
  <2>3. ASSUME NEW i \in DOMAIN run.D, run.D[i].file = f, a \in run.D[i].who
        PROVE  Got(a, f, mtime[f])'
    <3>1. i = 1
      <4>1. run.D \in Seq(EntryRec) /\ Len(run.D) <= 1
        BY <2>1 DEF RunRec
      <4>2. QED
        BY <2>3, <4>1
    <3>2. <<a, f, "D", mtime[f], edition[f]>> \in Mail(run.D[1], "D")
      BY <2>3, <3>1 DEF Mail
    <3>3. <<a, f, "D", mtime'[f], edition'[f]>> \in told'
      BY <1>8, <3>2 DEF Deliver, texts
    <3>4. QED
      BY <3>3 DEF Got, Modes
  <2>4. QED
    BY <2>1, <2>2, <2>3 DEF Owed
<1>9. ASSUME Skip \/ CopyTable \/ WriteTable PROVE Moves
  <2>1. run \in RunRec /\ run.st \in {"record", "write"} /\ Collected
    BY <1>2, <1>9 DEF Skip, CopyTable, WriteTable, Collected
  <2>2. run'.D = run.D
    BY <1>9, <2>1 DEF Skip, CopyTable, WriteTable, RunRec
  <2>3. QED
    BY <2>1, <2>2 DEF Owed
<1>10. ASSUME DeliverFails \/ EndRun PROVE run' = AtRest
  BY <1>10 DEF DeliverFails, EndRun
<1>11. Moves
  BY <1>3, <1>4, <1>5, <1>6, <1>7, <1>8, <1>9, <1>10 DEF Deliveries, uvars
<1>12. QED
  BY <1>1, <1>11

\* A change, when no delivery has collected.
LEMMA KnownChange ==
  ASSUME UpdBase, UpdBase', HeardOK, NEW f \in AfdFiles, Change(f),
         NoneOf({"changed", "left"}), NoneOf({"changed", "left"})'
  PROVE  HeardOK'
<1>1. ~Collected /\ ~Collected'
  BY DEF Change, Collected, Running, Occurs, NoneOf
<1>2. \A T : IsSome(T)' => IsSome(T) /\ T = fst
  <2>1. ulock = NoAsker /\ fst' = fst /\ uproc' = uproc /\ run' = run
    BY DEF Change, tables
  <2>2. \A p \in Askers : uproc[p].st # "write"
    BY <2>1, RewritingIs, UpdatesAssumption DEF RewritingFacts
  <2>3. ~(Running /\ run.st = "write")
    BY <1>1 DEF Collected
  <2>4. QED
    BY <2>1, <2>2, <2>3 DEF IsSome, Running
<1>3. told' = told /\ had' = had
  BY DEF Change, ghosts
<1>4. ASSUME NEW g \in AfdFiles, KnownLine(fst, g) PROVE KnownLine(fst, g)'
  <2>1. fst' = fst
    BY DEF Change, tables
  <2>2. CASE g = f
    <3>1. mtime'[g] = 0 \/ (mtime'[g] = fst[g].time => g \in blurred')
      BY <2>2, ChangeDoes DEF UpdBase
    <3>2. QED
      BY <1>1, <2>1, <3>1 DEF KnownLine
  <2>3. CASE g # f
    <3>1. mtime'[g] = mtime[g] /\ edition'[g] = edition[g] /\ (g \in blurred' <=> g \in blurred)
      BY <2>3, ChangeDoes DEF UpdBase
    <3>2. QED
      BY <1>1, <1>3, <1>4, <2>1, <3>1 DEF KnownLine, Got
  <2>4. QED
    BY <2>2, <2>3
<1>5. ASSUME NEW T \in FstTables, IsSome(T)', NEW g \in AfdFiles PROVE KnownLine(T, g)'
  <2>1. IsSome(T) /\ T = fst
    BY <1>2, <1>5
  <2>2. fst' = fst
    BY DEF Change, tables
  <2>3. KnownLine(fst, g)
    BY <2>1 DEF HeardOK
  <2>4. KnownLine(fst, g)'
    BY <1>4, <2>3
  <2>5. QED
    BY <2>1, <2>2, <2>4 DEF KnownLine
<1>6. QED
  BY <1>1, <1>5 DEF HeardOK

\* The collection.
LEMMA KnownCollect ==
  ASSUME UpdBase, UpdBase', HeardOK, Collect,
         NoneOf({"changed", "left"}), NoneOf({"changed", "left"})'
  PROVE  HeardOK'
<1>1. /\ run'.st = "notify"
      /\ \A e \in EntriesOf("D") : \E i \in DOMAIN run'.D : run'.D[i] = e
      /\ \A e \in EntriesOf("N") : \E i \in DOMAIN run'.N : run'.N[i] = e
      /\ Len(run'.D) <= 1
  BY CollectDoes DEF UpdBase, NoneOf
<1>2. texts' = texts /\ told' = told /\ had' = had /\ fst' = fst /\ uproc' = uproc
  BY DEF Collect, tables, ghosts
<1>3. ASSUME NEW T, IsSome(T)' PROVE T = fst
  BY <1>1, <1>2, <1>3, RewritingIs, UpdatesAssumption DEF Collect, IsSome, RewritingFacts
<1>4. ASSUME NEW f \in AfdFiles, f \notin blurred, mtime[f] # 0, NEW w \in fst[f].who
      PROVE  /\ fst[f].time = mtime[f] => Got(w[1], f, mtime[f])
             /\ Got(w[1], f, mtime[f]) \/ Owed(w[1], f)'
  <2>1. fst \in FstTables /\ IsSome(fst)
    BY DEF UpdBase, UTypeOK, IsSome
  <2>2. fst[f].time = mtime[f] => Got(w[1], f, mtime[f])
    BY <1>4, <2>1 DEF HeardOK, KnownLine
  <2>3. ASSUME fst[f].time # mtime[f] PROVE Owed(w[1], f)'
    <3>1. w \in Addresses \X Modes
      BY <2>1 DEF FstTables, Lines
    <3>2. file_updated(f)
      BY <1>4, <2>3 DEF file_updated
    <3>3. \E m \in Modes : w[1] \in Of(f, m) /\ m = w[2]
      BY <3>1 DEF Of
    <3>4. PICK m \in Modes : w[1] \in Of(f, m)
      BY <3>3
    <3>5. w[1] \in Entry(f, m).who /\ Entry(f, m).file = f
      BY <3>2, <3>4 DEF Entry
    <3>6. Entry(f, m) \in EntriesOf(m)
      BY <3>5, EntriesAre DEF UpdBase
    <3>7. QED
      BY <1>1, <3>5, <3>6 DEF Owed, Modes
  <2>4. QED
    BY <2>2, <2>3
<1>5. ASSUME NEW f \in AfdFiles PROVE KnownLine(fst, f)'
  BY <1>2, <1>4 DEF KnownLine, Got, texts
<1>6. \A T \in FstTables : IsSome(T)' => \A f \in AfdFiles : KnownLine(T, f)'
  BY <1>2, <1>3, <1>5
<1>7. QED
  BY <1>1, <1>6 DEF HeardOK

\* A line that a request, or a delivery, has written.
LEMMA KnownWriteFst ==
  ASSUME UpdBase, NEW p \in Askers, WriteFst(p), NEW r, r = uproc[p], NEW T, T = NewFst(r),
         NEW f \in AfdFiles, KnownLine(r.fst, f)
  PROVE  KnownLine(T, f)'
<1>1. r \in AskRec /\ r.fst \in FstTables
  BY AskersAre DEF UpdBase, WriteFst, AskRec
<1>2. texts' = texts /\ run' = run /\ told' = told /\ had \subseteq had'
  BY DEF WriteFst
<1>3. f \in Lines /\ f # All
  BY UpdatesAssumption DEF Lines
<1>4. \A a : /\ Got(a, f, mtime[f]) => Got(a, f, mtime[f])'
             /\ Owed(a, f)' <=> Owed(a, f)
  BY <1>2 DEF Got, Owed, texts
<1>5. Collected' <=> Collected
  BY <1>2 DEF Collected, Running
<1>6. ASSUME NEW w \in T[f].who
      PROVE  (w \in r.fst[f].who /\ T[f].time = r.fst[f].time) \/ (r.op = "add" /\ r.f = f /\ w[1] = r.a)
             \/ (w \in r.fst[f].who /\ r.op = "add" /\ r.f = f)
  <2>1. CASE r.op = "add"
    BY <1>1, <1>3, <1>6, <2>1 DEF NewFst, AddLine, FstTables
  <2>2. CASE r.op # "add"
    BY <1>1, <1>3, <1>6, <2>2 DEF NewFst, DelLine, Unwanted, FstTables
  <2>3. QED
    BY <2>1, <2>2
<1>7. ASSUME NEW w \in r.fst[f].who, r.op = "add", r.f = f PROVE T[f].time = r.fst[f].time
  BY <1>1, <1>3, <1>7 DEF NewFst, AddLine, FstTables
<1>8. ASSUME r.op = "add", r.f = f PROVE Got(r.a, f, mtime[f])'
  <2>1. <<r.a, f, mtime[f], edition[f]>> \in had'
    BY <1>3, <1>8 DEF WriteFst, Time, Edition
  <2>2. QED
    BY <1>2, <2>1 DEF Got, texts
<1>9. ASSUME f \notin blurred, mtime[f] # 0, NEW w \in T[f].who
      PROVE  /\ T[f].time = mtime[f] => Got(w[1], f, mtime[f])'
             /\ Collected' => Got(w[1], f, mtime[f])' \/ Owed(w[1], f)'
  <2>1. CASE w \in r.fst[f].who /\ T[f].time = r.fst[f].time
    BY <1>4, <1>5, <1>9, <2>1 DEF KnownLine
  <2>2. CASE r.op = "add" /\ r.f = f /\ w[1] = r.a
    BY <1>8, <2>2
  <2>3. QED
    BY <1>6, <1>7, <1>9, <2>1, <2>2
<1>10. QED
  BY <1>2, <1>9 DEF KnownLine, texts

LEMMA KnownWriteTable ==
  ASSUME UpdBase, WriteTable, NEW T, T = Recorded, NEW f \in AfdFiles, KnownLine(run.fst, f)
  PROVE  KnownLine(T, f)'
<1>1. run \in RunRec /\ run.st = "write"
  BY RunsAre DEF UpdBase, WriteTable
<1>2. run.fst \in FstTables
  BY <1>1 DEF RunRec
<1>3. texts' = texts /\ told' = told /\ had' = had
  BY DEF WriteTable, ghosts
<1>4. Collected
  BY <1>1 DEF Collected, WriteTable
<1>5. T[f].who = run.fst[f].who
  BY <1>2 DEF Recorded, NewTime, FstTables, Lines
<1>6. ASSUME f \notin blurred, mtime[f] # 0, NEW w \in T[f].who PROVE Got(w[1], f, mtime[f])
  <2>1. ~Owed(w[1], f)
    BY <1>1 DEF Owed
  <2>2. QED
    BY <1>4, <1>5, <1>6, <2>1 DEF KnownLine
<1>7. QED
  BY <1>3, <1>6 DEF KnownLine, Got, texts

LEMMA KnownStep ==
  ASSUME UpdBase, UpdBase', HeardOK, [UNext]_uvars
  PROVE  HeardOK'
<1> SUFFICES ASSUME NoneOf({"changed", "left"})' PROVE HeardOK'
  BY DEF HeardOK
<1>1. NoneOf({"changed", "left"})
  BY HappenedStays DEF NoneOf
<1>2. ASSUME NEW f \in AfdFiles, Change(f) PROVE HeardOK'
  BY <1>1, <1>2, KnownChange
<1>3. CASE Collect
  BY <1>1, <1>3, KnownCollect
<1>4. CASE texts' = texts /\ ~Collect
  <2>1. Collected => Len(run.D) <= 1
    BY <1>1 DEF HeardOK
  <2>2. Collected' => Len(run'.D) <= 1
    BY <1>4, <2>1, KnownMove
  <2>3. ASSUME NEW T, NEW f \in AfdFiles, KnownLine(T, f) PROVE KnownLine(T, f)'
    <3>1. ASSUME f \notin blurred, mtime[f] # 0, NEW w \in T[f].who
          PROVE  /\ T[f].time = mtime[f] => Got(w[1], f, mtime[f])'
                 /\ Collected' => Got(w[1], f, mtime[f])' \/ Owed(w[1], f)'
      <4>1. /\ T[f].time = mtime[f] => Got(w[1], f, mtime[f])
            /\ Collected => Got(w[1], f, mtime[f]) \/ Owed(w[1], f)
        BY <2>3, <3>1 DEF KnownLine
      <4>2. /\ Got(w[1], f, mtime[f]) => Got(w[1], f, mtime[f])'
            /\ Collected' => Collected /\ (Owed(w[1], f) => Owed(w[1], f)' \/ Got(w[1], f, mtime[f])')
        BY <1>4, <2>1, KnownMove
      <4>3. QED
        BY <4>1, <4>2
    <3>2. QED
      BY <1>4, <3>1 DEF KnownLine, texts
  <2>4. ASSUME NEW T \in FstTables, IsSome(T)', NEW f \in AfdFiles PROVE KnownLine(T, f)'
    <3>1. CASE IsSome(T)
      BY <1>1, <2>3, <2>4, <3>1 DEF HeardOK
    <3>2. CASE T = EmptyFst
      BY <3>2 DEF KnownLine, EmptyFst, Unwanted, Lines
    <3>3. ASSUME NEW p \in Askers, WriteFst(p), T = NewFst(uproc[p]) PROVE KnownLine(T, f)'
      <4>1. uproc[p].fst \in FstTables /\ IsSome(uproc[p].fst)
        BY <3>3, AskersAre DEF UpdBase, WriteFst, AskRec, IsSome
      <4>2. KnownLine(uproc[p].fst, f)
        BY <1>1, <4>1 DEF HeardOK
      <4>3. PICK r : r = uproc[p]
        OBVIOUS
      <4>4. T = NewFst(r) /\ KnownLine(r.fst, f)
        BY <3>3, <4>2, <4>3
      <4>5. QED
        BY <3>3, <4>3, <4>4, KnownWriteFst
    <3>4. ASSUME WriteTable, T = Recorded PROVE KnownLine(T, f)'
      <4>1. run.fst \in FstTables /\ IsSome(run.fst)
        BY <3>4, RunsAre DEF UpdBase, WriteTable, RunRec, IsSome
      <4>2. KnownLine(run.fst, f)
        BY <1>1, <4>1 DEF HeardOK
      <4>3. QED
        BY <3>4, <4>2, KnownWriteTable
    <3>5. QED
      BY <2>4, <3>1, <3>2, <3>3, <3>4, SomeSteps
  <2>5. QED
    BY <2>2, <2>4 DEF HeardOK
<1>5. QED
  BY <1>2, <1>3, <1>4, TimeSteps

LEMMA KnownInit == ASSUME UInit PROVE HeardOK
BY DEF UInit, HeardOK, KnownLine, Collected, Running

UpdatesInv == UpdBase /\ SftOK /\ HeardOK

LEMMA UpdatesInvariant == USpec => []UpdatesInv
<1>1. UInit => UpdatesInv
  BY UBaseInit, SftInit, KnownInit DEF UpdatesInv
<1>2. UpdatesInv /\ [UNext]_uvars => UpdatesInv'
  BY UBaseStep, SftStep, KnownStep DEF UpdatesInv
<1>3. QED
  BY <1>1, <1>2, PTL DEF USpec

\* SFT and FST say the same of who is subscribed to what, and nobody in a line
\* of the FST has missed the version whose time it has, however many requests
\* are answered while however many deliveries are made, unless something has
\* happened of what TablesAgree lists (afd_fui.c:731-830, 938-1052, 1303-1428).
THEOREM UpdatesAgree == USpec => []TablesAgree
<1>1. UpdatesInv => TablesAgree
  <2> SUFFICES ASSUME UpdatesInv PROVE TablesAgree
    OBVIOUS
  <2>1. ASSUME Quiet PROVE ulock = NoAsker /\ Held = fst
    <3>1. \A p \in Askers : ~Rewrites(p) /\ uproc[p].st # "write"
      BY <2>1, AskersAre DEF UpdatesInv, UpdBase, Quiet, Rewrites
    <3>2. ulock = NoAsker
      BY <3>1 DEF UpdatesInv, UpdBase, KeepsLock
    <3>3. ~Rewriting
      BY <3>1 DEF Rewriting
    <3>4. QED
      BY <2>1, <3>2, <3>3 DEF Held, Recording, Quiet
  <2>2. ASSUME Quiet, NoneOf({"died", "raced", "prefix", "respelled"})
        PROVE  sft = UNION {{<<User(w[1]), f, w[2]>> : w \in fst[f].who} : f \in Lines}
    BY <2>1, <2>2 DEF UpdatesInv, SftOK, SftAgrees, Says
  <2>3. ASSUME Quiet, NoneOf({"changed", "left"})
        PROVE  \A f \in AfdFiles \ blurred : fst[f].who # {} /\ mtime[f] # 0 /\ fst[f].time = mtime[f] =>
                 \A w \in fst[f].who : Got(w[1], f, mtime[f])
    <3>1. fst \in FstTables /\ IsSome(fst)
      BY DEF UpdatesInv, UpdBase, UTypeOK, IsSome
    <3>2. \A f \in AfdFiles : KnownLine(fst, f)
      BY <2>3, <3>1 DEF UpdatesInv, HeardOK
    <3>3. QED
      BY <3>2 DEF KnownLine
  <2>4. QED
    BY <2>2, <2>3 DEF TablesAgree
<1>2. QED
  BY <1>1, UpdatesInvariant, PTL

-----------------------------------------------------------------------------
(* FileUpdates: nobody is told twice *)

Wants(a) == <<a, All, Time(All), Edition(All)>> \in had

\* The FST is still to have the time of f.
ToWrite(f) == Collected /\ [table |-> "FST", file |-> f, sure |-> TRUE] \in Range(run.tasks)

\* Nobody hears of f again before it changes.
Settled(f) == Held[f].who = {} \/ Held[f].time = mtime[f] \/ ToWrite(f)

\* What is about to be sent has not been; that it has is about to be recorded.
Unsent(list, m) ==
  \A i \in DOMAIN list : \A a \in list[i].who : ~Wants(a) =>
    /\ ToWrite(list[i].file)
    /\ mtime[list[i].file] # 0 => <<a, list[i].file, m, mtime[list[i].file], edition[list[i].file]>> \notin told

AllWanted   == \A w \in Held[All].who : Wants(w[1])
ToldSettled ==
  \A e \in told :
    e[4] # 0 /\ e[4] = mtime[e[2]] /\ e[5] = edition[e[2]] /\ ~Wants(e[1]) => Settled(e[2])
ListsFresh  ==
  Running => /\ run.st \in {"notify", "deliver"} => Unsent(run.D, "D")
             /\ run.st = "notify" => Unsent(run.N, "N")
ToldOK == NoneOf({"died", "raced", "failed"}) => AllWanted /\ ToldSettled /\ ListsFresh

\* The line of a file after a request has written the FST.
LEMMA NewLine ==
  ASSUME UpdBase, NEW p \in Askers, WriteFst(p), NEW r, r = uproc[p], NEW f \in AfdFiles
  PROVE  /\ r.fst[f].who = {} => NewFst(r)[f].who = {} \/ NewFst(r)[f].time = mtime[f]
         /\ r.fst[f].time = mtime[f] => NewFst(r)[f].who = {} \/ NewFst(r)[f].time = mtime[f]
<1>1. r \in AskRec /\ r.fst \in FstTables
  BY AskersAre DEF UpdBase, WriteFst, AskRec
<1>2. f \in Lines /\ f # All
  BY UpdatesAssumption DEF Lines
<1>3. CASE r.op = "add"
  BY <1>1, <1>2, <1>3 DEF NewFst, AddLine, Time, FstTables
<1>4. CASE r.op # "add"
  BY <1>1, <1>2, <1>4 DEF NewFst, DelLine, Unwanted, FstTables
<1>5. QED
  BY <1>3, <1>4

LEMMA WantedStep ==
  ASSUME UpdBase, UpdBase', [UNext]_uvars, "died" \notin happened', "raced" \notin happened', AllWanted
  PROVE  AllWanted'
<1>1. \A a : Wants(a) => Wants(a)'
  BY TellSteps DEF Wants, Time, Edition
<1>2. ASSUME NEW p \in Askers, WriteFst(p) PROVE AllWanted'
  <2>1. PICK r : r = uproc[p]
    OBVIOUS
  <2>2. r \in AskRec /\ r.fst \in FstTables /\ Held = r.fst /\ Held' = NewFst(r)
    <3>1. r \in AskRec /\ r.fst \in FstTables
      BY <1>2, <2>1, AskersAre DEF UpdBase, WriteFst, AskRec
    <3>2. Held = r.fst /\ Held' = NewFst(r)
      BY <1>2, <2>1, HeldWriteFst DEF WriteFst, NewFst
    <3>3. QED
      BY <3>1, <3>2
  <2>3. ASSUME NEW w \in NewFst(r)[All].who
        PROVE  w \in r.fst[All].who \/ (r.op = "add" /\ r.f = All /\ w[1] = r.a)
    <3>1. CASE r.op = "add"
      BY <2>2, <2>3, <3>1 DEF NewFst, AddLine, FstTables, Lines
    <3>2. CASE r.op # "add"
      BY <2>2, <2>3, <3>2 DEF NewFst, DelLine, Unwanted, FstTables, Lines
    <3>3. QED
      BY <3>1, <3>2
  <2>4. ASSUME r.op = "add", r.f = All PROVE Wants(r.a)'
    BY <1>2, <2>1, <2>4 DEF WriteFst, Wants, Lines, Time, Edition
  <2>5. QED
    BY <1>1, <2>2, <2>3, <2>4 DEF AllWanted
<1>3. CASE WriteTable
  <2>1. CASE ThisTask.table # "FST"
    BY <1>1, <1>3, <2>1, HeldWriteTable DEF AllWanted
  <2>2. CASE ThisTask.table = "FST"
    <3>1. Held = run.fst /\ Held' = fst' /\ fst' = Recorded
      BY <1>3, <2>2, HeldWriteTable DEF WriteTable, Recorded
    <3>2. run \in RunRec /\ run.tasks # <<>>
      BY <1>3, RunsAre DEF UpdBase, WriteTable, StageOK
    <3>3. run.fst \in FstTables /\ ThisTask.file # All /\ All \in Lines
      BY <1>3, <3>2, TaskIs, UpdatesAssumption DEF RunRec, TaskRec, Lines, WriteTable
    <3>4. Recorded[All] = run.fst[All]
      BY <3>3 DEF Recorded, FstTables
    <3>5. QED
      BY <1>1, <3>1, <3>4 DEF AllWanted
  <2>3. QED
    BY <2>1, <2>2
<1>4. ASSUME Held' = Held PROVE AllWanted'
  BY <1>1, <1>4 DEF AllWanted
<1>5. QED
  BY <1>2, <1>3, <1>4, StepKinds, HeldAside, HeldSft, HeldCopyFst, HeldCopy

LEMMA ToWriteStep ==
  ASSUME UpdBase, UpdBase', [UNext]_uvars, "died" \notin happened', "failed" \notin happened',
         NEW f, ToWrite(f)
  PROVE  ToWrite(f)' \/ (WriteTable /\ ThisTask.table = "FST" /\ ThisTask.file = f)
<1> DEFINE x == [table |-> "FST", file |-> f, sure |-> TRUE]
<1>1. Running /\ run \in RunRec /\ run.st # "collect" /\ x \in Range(run.tasks)
  BY RunsAre DEF ToWrite, Collected, UpdBase
<1> HIDE DEF x
<1>2. ASSUME run' \in RunRec, run'.st # "collect", x \in Range(run'.tasks) PROVE ToWrite(f)'
  BY <1>2, RunsAre DEF UpdBase, ToWrite, Collected, Running, x
<1>3. CASE run' = run
  BY <1>1, <1>2, <1>3
<1>4. CASE Notify \/ Deliver
  <2>1. run'.tasks = run.tasks /\ run'.st \in {"record", "deliver"} /\ run' \in RunRec
    BY <1>1, <1>4 DEF Notify, Deliver, RunRec
  <2>2. QED
    BY <1>1, <1>2, <2>1
<1>5. CASE CopyTable
  <2>1. run'.tasks = run.tasks /\ run'.st = "write" /\ run' \in RunRec
    BY <1>1, <1>5 DEF CopyTable, RunRec, UpdBase, UTypeOK
  <2>2. QED
    BY <1>1, <1>2, <2>1
<1>6. CASE Skip \/ WriteTable
  <2>1. run.tasks # <<>>
    BY <1>1, <1>6 DEF Skip, WriteTable, UpdBase, StageOK
  <2>2. x = ThisTask \/ x \in Range(Tail(run.tasks))
    BY <1>1, <2>1, TaskIs
  <2>3. run'.tasks = Tail(run.tasks) /\ run'.st = "record" /\ run' \in RunRec
    BY <1>1, <1>6, <2>1, TaskIs DEF Skip, WriteTable, RunRec
  <2>4. CASE x = ThisTask
    BY <1>6, <2>4 DEF Skip, x
  <2>5. CASE x \in Range(Tail(run.tasks))
    BY <1>2, <2>3, <2>5
  <2>6. QED
    BY <2>2, <2>4, <2>5
<1>7. ~EndRun /\ ~StartRun /\ ~Collect /\ ~DeliverFails /\ ~UDie
  <2>1. run.tasks # <<>>
    BY <1>1 DEF Range
  <2>2. QED
    BY <1>1, <2>1 DEF EndRun, StartRun, Collect, DeliverFails, UDie, Occurs
<1>8. ASSUME UNext PROVE run' = run \/ Deliveries
  BY <1>7, <1>8 DEF UNext, Change, Add, Delete, Ask, Check, CopySft, WriteSft, CopyFst, WriteFst
<1>9. QED
  BY <1>3, <1>4, <1>5, <1>6, <1>7, <1>8 DEF Deliveries, uvars

LEMMA SettledStep ==
  ASSUME UpdBase, UpdBase', [UNext]_uvars, mtime' = mtime,
         "died" \notin happened', "raced" \notin happened', "failed" \notin happened',
         NEW f \in AfdFiles, mtime[f] # 0, Settled(f)
  PROVE  Settled(f)'
<1>1. ASSUME NEW p \in Askers, WriteFst(p) PROVE Settled(f)'
  <2>1. PICK r : r = uproc[p]
    OBVIOUS
  <2>2. Held = r.fst /\ Held' = NewFst(r)
    BY <1>1, <2>1, HeldWriteFst DEF WriteFst, NewFst
  <2>3. ToWrite(f) => ToWrite(f)'
    BY <1>1, ToWriteStep DEF WriteFst, ToWrite, Collected, Running
  <2>4. QED
    BY <1>1, <2>1, <2>2, <2>3, NewLine DEF Settled
<1>2. CASE WriteTable /\ ThisTask.table = "FST"
  <2>1. Held = run.fst /\ Held' = Recorded
    BY <1>2, HeldWriteTable DEF WriteTable, Recorded
  <2>2. run \in RunRec /\ run.fst \in FstTables
    BY <1>2, RunsAre DEF UpdBase, WriteTable, RunRec
  <2>3. CASE ThisTask.file = f
    BY <2>1, <2>2, <2>3 DEF Settled, Recorded, NewTime, FstTables, Lines
  <2>4. CASE ThisTask.file # f
    <3>1. Recorded[f] = run.fst[f]
      BY <2>2, <2>4 DEF Recorded, FstTables, Lines
    <3>2. ToWrite(f) => ToWrite(f)'
      BY <2>4, ToWriteStep
    <3>3. QED
      BY <2>1, <3>1, <3>2 DEF Settled
  <2>5. QED
    BY <2>3, <2>4
<1>3. CASE Held' = Held /\ ~(WriteTable /\ ThisTask.table = "FST")
  <2>1. ToWrite(f) => ToWrite(f)'
    BY <1>3, ToWriteStep
  <2>2. QED
    BY <1>3, <2>1 DEF Settled
<1>4. QED
  BY <1>1, <1>2, <1>3, StepKinds, HeldAside, HeldSft, HeldCopyFst, HeldCopy, HeldWriteTable

LEMMA ListsMove ==
  ASSUME UpdBase, [UNext]_uvars, ~Collect, Running', run'.st \in {"notify", "deliver"}
  PROVE  /\ Running /\ run.st \in {"notify", "deliver"} /\ run'.D = run.D /\ run'.N = run.N
         /\ run'.st = "notify" => run.st = "notify" /\ ~Notify
         /\ ~Deliver /\ ~WriteTable
<1>1. Running => run \in RunRec
  BY RunsAre DEF UpdBase
<1>2. ~StartRun
  BY DEF StartRun
<1>3. ~Deliver /\ ~Skip /\ ~CopyTable /\ ~WriteTable
  BY <1>1 DEF Deliver, Skip, CopyTable, WriteTable, RunRec
<1>4. ~DeliverFails /\ ~EndRun /\ run' # AtRest
  BY DEF DeliverFails, EndRun, Running
<1>5. CASE run' = run
  <2>1. Running /\ run.st \in {"notify", "deliver"}
    BY <1>5 DEF Running
  <2>2. ASSUME Notify, run'.st = "notify" PROVE FALSE
    <3>1. run'.st \in {"record", "deliver"}
      BY <1>1, <2>2 DEF Notify, RunRec
    <3>2. QED
      BY <2>2, <3>1
  <2>3. QED
    BY <1>3, <1>5, <2>1, <2>2
<1>6. CASE Notify
  BY <1>1, <1>3, <1>6 DEF Notify, RunRec
<1>7. ASSUME UNext PROVE run' = run \/ Deliveries
  BY <1>4, <1>7 DEF UNext, Change, Add, Delete, Ask, Check, CopySft, WriteSft, CopyFst, WriteFst, UDie
<1>8. QED
  BY <1>2, <1>3, <1>4, <1>5, <1>6, <1>7 DEF Deliveries, uvars

\* The steps of the mail: what was settled for all that was told is for all
\* that is.
LEMMA SettledTold ==
  ASSUME UpdBase, UpdBase', [UNext]_uvars, EditionsOK, ToldSettled, ListsFresh,
         "died" \notin happened', "raced" \notin happened', "failed" \notin happened'
  PROVE  ToldSettled'
<1> SUFFICES ASSUME NEW e \in told', e[4] # 0, e[4] = mtime'[e[2]], e[5] = edition'[e[2]], ~Wants(e[1])'
             PROVE  Settled(e[2])'
  BY DEF ToldSettled
<1>1. ~Wants(e[1])
  BY TellSteps DEF Wants, Time, Edition
<1>2. ASSUME NEW g \in AfdFiles, Change(g) PROVE Settled(e[2])'
  <2>1. e \in told /\ e[2] \in AfdFiles /\ e[5] \in Nat
    BY <1>2 DEF Change, ghosts, UpdBase, UTypeOK
  <2>2. e[5] <= counts.changes /\ counts.changes \in Nat /\ counts'.changes = counts.changes + 1
    BY <1>2, <2>1, ChangeDoes DEF EditionsOK, UpdBase
  <2>3. e[2] # g
    <3>1. e[5] # counts'.changes
      BY <2>1, <2>2
    <3>2. QED
      BY <1>2, <3>1, ChangeDoes DEF UpdBase
  <2>5. mtime'[e[2]] = mtime[e[2]] /\ edition'[e[2]] = edition[e[2]]
    BY <1>2, <2>1, <2>3, ChangeDoes DEF UpdBase
  <2>6. Settled(e[2])
    BY <1>1, <2>1, <2>5 DEF ToldSettled
  <2>7. Held' = Held
    BY <1>2, HeldAside DEF Aside
  <2>8. run' = run
    BY <1>2 DEF Change
  <2>9. QED
    BY <2>5, <2>6, <2>7, <2>8 DEF Settled, ToWrite, Collected, Running
<1>3. CASE texts' = texts /\ e \in told
  <2>1. e[2] \in AfdFiles /\ mtime[e[2]] # 0 /\ Settled(e[2])
    BY <1>1, <1>3 DEF ToldSettled, UpdBase, UTypeOK, texts
  <2>2. QED
    BY <1>3, <2>1, SettledStep DEF texts
<1>4. CASE texts' = texts /\ e \notin told
  <2>1. Notify \/ Deliver
    BY <1>4, TellSteps
  <2>2. run \in RunRec /\ Running
    BY <2>1, RunsAre DEF UpdBase, Notify, Deliver
  <2>3. ToWrite(e[2])
    <3>1. CASE Notify
      <4>1. PICK i \in DOMAIN run.N : e \in Mail(run.N[i], "N")
        BY <1>4, <3>1 DEF Notify
      <4>2. e[1] \in run.N[i].who /\ e[2] = run.N[i].file
        BY <4>1 DEF Mail
      <4>3. QED
        BY <1>1, <2>2, <3>1, <4>2 DEF Notify, ListsFresh, Unsent
    <3>2. CASE Deliver
      <4>1. e \in Mail(run.D[1], "D") /\ 1 \in DOMAIN run.D
        BY <1>4, <3>2, FirstIs DEF Deliver
      <4>2. e[1] \in run.D[1].who /\ e[2] = run.D[1].file
        BY <4>1 DEF Mail
      <4>3. QED
        BY <1>1, <2>2, <3>2, <4>1, <4>2 DEF Deliver, ListsFresh, Unsent
    <3>3. QED
      BY <2>1, <3>1, <3>2
  <2>4. ~WriteTable
    BY <2>1, <2>2 DEF Notify, Deliver, WriteTable
  <2>5. ToWrite(e[2])'
    BY <2>3, <2>4, ToWriteStep
  <2>6. QED
    BY <2>5 DEF Settled
<1>5. QED
  BY <1>2, <1>3, <1>4, TimeSteps

LEMMA FreshCollect ==
  ASSUME UpdBase, UpdBase', Collect, AllWanted, ToldSettled
  PROVE  ListsFresh'
<1>1. /\ run'.st = "notify" /\ run' \in RunRec
      /\ \A i \in DOMAIN run'.D : run'.D[i] \in EntriesOf("D")
      /\ \A i \in DOMAIN run'.N : run'.N[i] \in EntriesOf("N")
      /\ \A i \in DOMAIN run'.D : run'.D[i].FST =>
           [table |-> "FST", file |-> run'.D[i].file, sure |-> TRUE] \in Range(run'.tasks)
      /\ \A i \in DOMAIN run'.N : run'.N[i].FST =>
           [table |-> "FST", file |-> run'.N[i].file, sure |-> TRUE] \in Range(run'.tasks)
  BY CollectDoes DEF UpdBase
<1>2. Collected'
  BY <1>1, RunsAre DEF UpdBase, Collected, Running
<1>3. mtime' = mtime /\ edition' = edition /\ told' = told /\ had' = had
  BY DEF Collect, ghosts, texts
<1>4. Held = fst
  BY RewritingIs, UpdatesAssumption DEF Collect, Held, Recording, RewritingFacts
<1>5. ASSUME NEW m \in Modes, NEW e \in EntriesOf(m), NEW a \in e.who, ~Wants(a)
      PROVE  /\ e.FST
             /\ mtime[e.file] # 0 => <<a, e.file, m, mtime[e.file], edition[e.file]>> \notin told
  <2>1. e = Entry(e.file, m) /\ e.file \in AfdFiles
    BY <1>5, EntriesAre DEF UpdBase
  <2> DEFINE f == e.file
  <2>2. a \notin Of(All, m)
    BY <1>4, <1>5 DEF AllWanted, Of
  <2>3. file_updated(f) /\ a \in Of(f, m) /\ e.FST
    <3>1. /\ e.who = (IF file_updated(f) THEN Of(f, m) ELSE {}) \cup (IF file_updated_raw(f) THEN Of(All, m) ELSE {})
          /\ e.FST = ((IF file_updated(f) THEN Of(f, m) ELSE {}) # {})
      BY <2>1 DEF Entry
    <3>2. a \in (IF file_updated(f) THEN Of(f, m) ELSE {})
      BY <1>5, <2>2, <3>1
    <3>3. QED
      BY <3>1, <3>2
  <2>4. fst[f].who # {} /\ fst[f].time # mtime[f]
    BY <2>3 DEF Of, file_updated
  <2>5. ~Settled(f)
    BY <1>4, <2>4 DEF Settled, ToWrite, Collected, Collect
  <2>6. ASSUME mtime[f] # 0, <<a, f, m, mtime[f], edition[f]>> \in told PROVE FALSE
    <3>1. PICK x \in told : x = <<a, f, m, mtime[f], edition[f]>>
      BY <2>6
    <3>2. x[4] # 0 /\ x[4] = mtime[x[2]] /\ x[5] = edition[x[2]] /\ ~Wants(x[1]) /\ x[2] = f
      BY <1>5, <2>6, <3>1
    <3>3. QED
      BY <2>5, <3>2 DEF ToldSettled
  <2>7. QED
    BY <2>3, <2>6
<1>6. ASSUME NEW m \in Modes, NEW list, \A i \in DOMAIN list : list[i] \in EntriesOf(m),
             \A i \in DOMAIN list : list[i].FST =>
               [table |-> "FST", file |-> list[i].file, sure |-> TRUE] \in Range(run'.tasks)
      PROVE  Unsent(list, m)'
  <2>1. \A a : Wants(a)' <=> Wants(a)
    BY <1>3 DEF Wants, Time, Edition
  <2>2. ASSUME NEW i \in DOMAIN list, NEW a \in list[i].who, ~Wants(a)
        PROVE  /\ ToWrite(list[i].file)'
               /\ mtime'[list[i].file] # 0 => <<a, list[i].file, m, mtime'[list[i].file], edition'[list[i].file]>> \notin told'
    <3>1. list[i].FST /\ (mtime[list[i].file] # 0 => <<a, list[i].file, m, mtime[list[i].file], edition[list[i].file]>> \notin told)
      BY <1>5, <1>6, <2>2
    <3>2. QED
      BY <1>2, <1>3, <1>6, <3>1 DEF ToWrite
  <2>3. QED
    BY <2>1, <2>2 DEF Unsent
<1>7. PICK d : d = run'.D
  OBVIOUS
<1>8. PICK n : n = run'.N
  OBVIOUS
<1>9. Unsent(d, "D")' /\ Unsent(n, "N")'
  BY <1>1, <1>6, <1>7, <1>8 DEF Modes
<1>10. QED
  BY <1>7, <1>8, <1>9 DEF ListsFresh

LEMMA FreshStep ==
  ASSUME UpdBase, UpdBase', [UNext]_uvars, EditionsOK, AllWanted, ToldSettled, ListsFresh,
         "died" \notin happened', "failed" \notin happened'
  PROVE  ListsFresh'
<1>1. CASE Collect
  BY <1>1, FreshCollect
<1>2. CASE ~Collect
  <2> SUFFICES ASSUME Running', run'.st \in {"notify", "deliver"} PROVE ListsFresh'
    BY DEF ListsFresh
  <2>1. /\ Running /\ run.st \in {"notify", "deliver"} /\ run'.D = run.D /\ run'.N = run.N
        /\ run'.st = "notify" => run.st = "notify" /\ ~Notify
        /\ ~Deliver /\ ~WriteTable
    BY <1>2, ListsMove
  <2>2. \A f : ToWrite(f) => ToWrite(f)'
    BY <2>1, ToWriteStep
  <2>3. ASSUME NEW m \in Modes, NEW list \in Seq(EntryRec), Unsent(list, m),
               \A x \in told' : x \notin told => x[3] # m
        PROVE  Unsent(list, m)'
    <3>1. ASSUME NEW i \in DOMAIN list, NEW a \in list[i].who, ~Wants(a)'
          PROVE  /\ ToWrite(list[i].file)'
                 /\ mtime'[list[i].file] # 0 => <<a, list[i].file, m, mtime'[list[i].file], edition'[list[i].file]>> \notin told'
      <4>1. ~Wants(a)
        BY <3>1, TellSteps DEF Wants, Time, Edition
      <4>2. PICK f : f = list[i].file
        OBVIOUS
      <4>3. /\ ToWrite(f) /\ f \in AfdFiles
            /\ mtime[f] # 0 => <<a, f, m, mtime[f], edition[f]>> \notin told
        <5>1. list[i] \in EntryRec
          BY <3>1
        <5>2. QED
          BY <2>3, <3>1, <4>1, <4>2, <5>1 DEF Unsent, EntryRec
      <4>4. ASSUME mtime'[f] # 0, <<a, f, m, mtime'[f], edition'[f]>> \in told' PROVE FALSE
        <5>1. PICK x \in told' : x = <<a, f, m, mtime'[f], edition'[f]>>
          BY <4>4
        <5>2. x \in told /\ x[5] = edition'[f] /\ x[3] = m
          BY <2>3, <5>1
        <5>3. ~(mtime'[f] = mtime[f] /\ edition'[f] = edition[f])
          BY <4>3, <4>4, <5>1, <5>2
        <5>4. PICK g \in AfdFiles : Change(g)
          BY <5>3, TimeSteps DEF texts
        <5>5. counts.changes \in Nat /\ counts'.changes = counts.changes + 1
          BY <5>4, ChangeDoes DEF UpdBase
        <5>6. edition'[f] = counts'.changes
          BY <4>3, <4>4, <5>3, <5>4, ChangeDoes DEF UpdBase
        <5>7. x[5] <= counts.changes
          BY <5>2 DEF EditionsOK
        <5>8. QED
          BY <5>2, <5>5, <5>6, <5>7
      <4>5. QED
        BY <2>2, <4>2, <4>3, <4>4
    <3>2. QED
      BY <3>1 DEF Unsent
  <2>4. run \in RunRec
    BY <2>1, RunsAre DEF UpdBase
  <2>5. PICK d \in Seq(EntryRec), n \in Seq(EntryRec) : d = run.D /\ n = run.N
    BY <2>4 DEF RunRec
  <2>6. ASSUME NEW x \in told', x \notin told PROVE Notify /\ x[3] = "N"
    <3>1. Notify
      BY <2>1, <2>6, TellSteps
    <3>2. PICK i \in DOMAIN run.N : x \in Mail(run.N[i], "N")
      BY <2>6, <3>1 DEF Notify
    <3>3. QED
      BY <3>1, <3>2 DEF Mail
  <2>7. Unsent(d, "D")'
    <3>1. Unsent(d, "D")
      BY <2>1, <2>5 DEF ListsFresh
    <3>2. \A x \in told' : x \notin told => x[3] # "D"
      BY <2>6
    <3>3. QED
      BY <2>3, <3>1, <3>2 DEF Modes
  <2>8. run'.st = "notify" => Unsent(n, "N")'
    <3>1. ASSUME run'.st = "notify" PROVE Unsent(n, "N")
      BY <2>1, <2>5, <3>1 DEF ListsFresh
    <3>2. run'.st = "notify" => \A x \in told' : x \notin told => x[3] # "N"
      BY <2>1, <2>6
    <3>3. QED
      BY <2>3, <3>1, <3>2 DEF Modes
  <2>9. QED
    BY <2>1, <2>5, <2>7, <2>8 DEF ListsFresh
<1>3. QED
  BY <1>1, <1>2

LEMMA ToldStep ==
  ASSUME UpdBase, UpdBase', [UNext]_uvars, EditionsOK, ToldOK
  PROVE  ToldOK'
<1> SUFFICES ASSUME NoneOf({"died", "raced", "failed"})' PROVE (AllWanted /\ ToldSettled /\ ListsFresh)'
  BY DEF ToldOK
<1>1. NoneOf({"died", "raced", "failed"})
  BY HappenedStays DEF NoneOf
<1>2. "died" \notin happened' /\ "raced" \notin happened' /\ "failed" \notin happened'
  BY DEF NoneOf
<1>3. AllWanted /\ ToldSettled /\ ListsFresh
  BY <1>1 DEF ToldOK
<1>4. AllWanted'
  BY <1>2, <1>3, WantedStep
<1>5. ToldSettled'
  BY <1>2, <1>3, SettledTold
<1>6. ListsFresh'
  BY <1>2, <1>3, FreshStep
<1>7. QED
  BY <1>4, <1>5, <1>6

LEMMA ToldInit == ASSUME UInit PROVE ToldOK
<1>1. told = {} /\ run = AtRest /\ fst = EmptyFst /\ uproc = [p \in Askers |-> AtRest]
  BY DEF UInit
<1>2. Held = EmptyFst
  BY <1>1 DEF Held, Rewriting, Asking, Recording, Running
<1>3. AllWanted
  BY <1>2 DEF AllWanted, EmptyFst, Unwanted, Lines
<1>4. QED
  BY <1>1, <1>3 DEF ToldOK, ToldSettled, ListsFresh, Running

\* Nobody is mailed the same version of a file, or told of it, twice, unless a
\* process died, a request and a delivery wrote the FST at once, a GET failed, or
\* the version was deleted or they have wanted all files.
THEOREM UpdatesOnce == USpec => NotToldTwice
<1> DEFINE Inv == UpdBase /\ EditionsOK /\ ToldOK
           Once == (Notify \/ Deliver) /\ NoneOf({"died", "raced", "failed"}) =>
                     \A e \in Outgoing \cap told : e[4] = 0 \/ <<e[1], All, Time(All), Edition(All)>> \in had
<1>1. UInit => Inv
  BY UBaseInit, EditionsInit, ToldInit
<1>2. Inv /\ [UNext]_uvars => Inv'
  BY UBaseStep, EditionsStep, ToldStep
<1>3. Inv => Once
  <2> SUFFICES ASSUME Inv, Notify \/ Deliver, NoneOf({"died", "raced", "failed"}),
                      NEW e \in Outgoing, e \in told, e[4] # 0
               PROVE  Wants(e[1])
    BY DEF Wants
  <2>1. ListsFresh /\ Running
    BY DEF ToldOK, Notify, Deliver
  <2>2. CASE Notify
    <3>1. PICK i \in DOMAIN run.N : e \in Mail(run.N[i], "N")
      BY <2>2 DEF Outgoing, Notify
    <3>2. e[1] \in run.N[i].who /\ e = <<e[1], run.N[i].file, "N", mtime[run.N[i].file], edition[run.N[i].file]>>
          /\ e[4] = mtime[run.N[i].file]
      BY <3>1 DEF Mail
    <3>3. QED
      BY <2>1, <2>2, <3>2 DEF ListsFresh, Unsent, Notify
  <2>3. CASE Deliver
    <3>1. e \in Mail(run.D[1], "D") /\ 1 \in DOMAIN run.D
      BY <2>3, FirstIs DEF Outgoing, Deliver
    <3>2. e[1] \in run.D[1].who /\ e = <<e[1], run.D[1].file, "D", mtime[run.D[1].file], edition[run.D[1].file]>>
          /\ e[4] = mtime[run.D[1].file]
      BY <3>1 DEF Mail
    <3>3. QED
      BY <2>1, <2>3, <3>1, <3>2 DEF ListsFresh, Unsent, Deliver
  <2>4. QED
    BY <2>2, <2>3
<1>4. QED
  BY <1>1, <1>2, <1>3, PTL DEF USpec, NotToldTwice
=============================================================================

----------------------------- MODULE LockProofs -----------------------------
(***************************************************************************)
(* Theorems about files that processes lock: about LpLock, for any set of  *)
(* processes and of lock files; about Confirmation, whose cookie file is   *)
(* locked itself, for any processes, cookies, days, answers and deaths;    *)
(* about ListConfig, whose writers alone lock the file of a list, for any  *)
(* processes, settings and requests; and about Archive, whose lock is free *)
(* between the steps of a request, for any processes, files and requests.  *)
(***************************************************************************)
EXTENDS LpLock, Confirmation, ListConfig, Archive, FiniteSetTheorems, TLAPS

\* No Request built from a call of lpl_lock is the idle one.
LEMMA CallIsNotIdle ==
    ASSUME NEW t \in LockType, NEW l \in Locks
    PROVE  [type |-> t, lock |-> l] # Idle
  BY DEF LockType, Idle

\* Every step keeps the lists, the kernel's table and the sleepers well formed.
LEMMA TypeStep == TypeOK /\ [Next]_vars => TypeOK'
<1> SUFFICES ASSUME TypeOK, [Next]_vars PROVE TypeOK'
  OBVIOUS
<1> USE DEF TypeOK
<1>1. CASE UNCHANGED vars
  BY <1>1 DEF vars
<1>2. ASSUME NEW p \in Procs, Granted(p) PROVE TypeOK'
  <2>1. waits[p] \in [type : LockType, lock : Locks]
    BY <1>2 DEF Granted, Request
  <2>2. waits[p].type \in Mode /\ waits[p].lock \in Locks
    BY <2>1 DEF Mode
  <2> QED
    BY <1>2, <2>2 DEF Granted, SetKern, Request
<1>3. ASSUME NEW p \in Procs, Exit(p) PROVE TypeOK'
  BY <1>3 DEF Exit, Mode, Request
<1>4. ASSUME NEW p \in Procs, NEW l \in Locks, Unlock(p, l) PROVE TypeOK'
  BY <1>4 DEF Unlock, SetKern, Mode
<1>5. ASSUME NEW p \in Procs, NEW t \in LockType, NEW l \in Locks,
             LockNow(p, t, l) \/ LockFail(p, t, l) \/ TryLock(p, t, l)
      PROVE  TypeOK'
  BY <1>5, SMTT(20) DEF LockNow, LockFail, TryLock, GetFd, SetKern, Mode
<1>6. ASSUME NEW p \in Procs, NEW t \in LockType, NEW l \in Locks, LockWait(p, t, l)
      PROVE  TypeOK'
  BY <1>6 DEF LockWait, GetFd, Request
<1> QED
  BY <1>1, <1>2, <1>3, <1>4, <1>5, <1>6 DEF Next

\* LpLock's type invariant.
THEOREM Typing == Spec => []TypeOK
<1>1. Init => TypeOK
  BY DEF Init, TypeOK, Mode, Request
<1> QED
  BY <1>1, TypeStep, PTL DEF Spec

-----------------------------------------------------------------------------
\* A step gives one process one lock that nobody else's lock forbids, or takes
\* locks away from one process, or leaves the kernel's table alone.  All the
\* safety properties of the table follow from this shape.
Grant(p, t, l) == Blockers(p, t, l) = {} /\ SetKern(p, l, t)
Drop(p) ==
    \A l \in Locks, q \in Procs :
        \/ kern'[l][q] = kern[l][q]
        \/ q = p /\ kern'[l][q] = "none"

LEMMA StepShape ==
    ASSUME TypeOK, [Next]_vars
    PROVE  \/ UNCHANGED kern
           \/ \E p \in Procs, t \in LockType, l \in Locks : Grant(p, t, l)
           \/ \E p \in Procs : Drop(p)
<1>1. CASE UNCHANGED vars
  BY <1>1 DEF vars
<1>2. ASSUME NEW p \in Procs, Granted(p)
      PROVE  \E t \in LockType, l \in Locks : Grant(p, t, l)
  <2>1. waits[p].type \in LockType /\ waits[p].lock \in Locks
    BY <1>2 DEF Granted, TypeOK, Request
  <2>2. Blockers(p, waits[p].type, waits[p].lock) = {}
    BY <1>2 DEF Granted, WaitsFor, Blockers
  <2> QED
    BY <1>2, <2>1, <2>2 DEF Granted, Grant
<1>3. ASSUME NEW p \in Procs, Exit(p) PROVE Drop(p)
  BY <1>3 DEF Exit, Drop, TypeOK
<1>4. ASSUME NEW p \in Procs, NEW l \in Locks, Unlock(p, l) PROVE Drop(p)
  BY <1>4 DEF Unlock, SetKern, Drop, TypeOK
<1>5. ASSUME NEW p \in Procs, NEW t \in LockType, NEW l \in Locks,
             LockNow(p, t, l) \/ LockWait(p, t, l) \/ LockFail(p, t, l) \/ TryLock(p, t, l)
      PROVE  UNCHANGED kern \/ Grant(p, t, l)
  BY <1>5 DEF LockNow, LockWait, LockFail, TryLock, Grant
<1> QED
  BY <1>1, <1>2, <1>3, <1>4, <1>5 DEF Next

\* A writer is alone on its lock.
LEMMA MutualExclusionStep == TypeOK /\ MutualExclusion /\ [Next]_vars => MutualExclusion'
<1> SUFFICES ASSUME TypeOK, MutualExclusion, [Next]_vars PROVE MutualExclusion'
  OBVIOUS
<1>1. CASE UNCHANGED kern
  BY <1>1 DEF MutualExclusion
<1>2. ASSUME NEW p \in Procs, NEW t \in LockType, NEW l \in Locks, Grant(p, t, l)
      PROVE  MutualExclusion'
  <2> SUFFICES ASSUME NEW m \in Locks, NEW q \in Procs, NEW r \in Procs,
                      q # r, kern'[m][q] = "LPL_WRITE"
               PROVE  kern'[m][r] = "none"
    BY DEF MutualExclusion
  <2>1. /\ \A x \in Procs : x # p => kern'[m][x] = kern[m][x]
        /\ m # l => kern'[m][p] = kern[m][p]
        /\ m = l => kern'[m][p] = t
    BY <1>2 DEF Grant, SetKern, TypeOK
  <2>2. \A x \in Procs : x # p => kern[l][x] # "LPL_WRITE" /\ (t = "LPL_WRITE" => kern[l][x] = "none")
    BY <1>2 DEF Grant, Blockers
  <2>3. CASE m # l
    BY <2>1, <2>3 DEF MutualExclusion
  <2>4. CASE m = l /\ q = p
    BY <2>1, <2>2, <2>4
  <2>5. CASE m = l /\ q # p
    BY <2>1, <2>2, <2>5
  <2> QED
    BY <2>3, <2>4, <2>5
<1>3. ASSUME NEW p \in Procs, Drop(p) PROVE MutualExclusion'
  BY <1>3, SMTT(30) DEF Drop, MutualExclusion
<1> QED
  BY <1>1, <1>2, <1>3, StepShape

\* Mutual exclusion of lpl_lock and lpl_try_lock, for any number of processes
\* and locks.
THEOREM Exclusion == Spec => []MutualExclusion
<1>1. Init => MutualExclusion
  BY DEF Init, MutualExclusion
<1> QED
  BY <1>1, MutualExclusionStep, Typing, PTL DEF Spec
-----------------------------------------------------------------------------
\* An entry of lpl_lock_list_head stands behind every record lock; the request
\* of a sleeper has one too, so that the lock it is granted later is covered.
EntryInv ==
    /\ HeldHasEntry
    /\ \A p \in Procs : waits[p] # Idle => waits[p].lock \in fds[p]

LEMMA EntryStep == TypeOK /\ EntryInv /\ [Next]_vars => EntryInv'
<1> SUFFICES ASSUME TypeOK, EntryInv, [Next]_vars PROVE EntryInv'
  OBVIOUS
<1> USE DEF TypeOK, EntryInv, HeldHasEntry
<1>1. CASE UNCHANGED vars
  BY <1>1 DEF vars
<1>2. ASSUME NEW p \in Procs, Granted(p) PROVE EntryInv'
  <2>1. waits[p].lock \in Locks
    BY <1>2 DEF Granted, Request
  <2> QED
    BY <1>2, <2>1 DEF Granted, SetKern
<1>3. ASSUME NEW p \in Procs, Exit(p) PROVE EntryInv'
  BY <1>3 DEF Exit
<1>4. ASSUME NEW p \in Procs, NEW l \in Locks, Unlock(p, l) PROVE EntryInv'
  BY <1>4 DEF Unlock, SetKern
<1>5. ASSUME NEW p \in Procs, NEW t \in LockType, NEW l \in Locks,
             LockNow(p, t, l) \/ LockFail(p, t, l) \/ TryLock(p, t, l)
      PROVE  EntryInv'
  BY <1>5 DEF LockNow, LockFail, TryLock, GetFd, SetKern
<1>6. ASSUME NEW p \in Procs, NEW t \in LockType, NEW l \in Locks, LockWait(p, t, l)
      PROVE  EntryInv'
  BY <1>6 DEF LockWait, GetFd
<1> QED
  BY <1>1, <1>2, <1>3, <1>4, <1>5, <1>6 DEF Next

\* lpl_unlock always finds the descriptor of a lock its process holds.
THEOREM Entries == Spec => []HeldHasEntry
<1>1. Init => EntryInv
  BY DEF Init, EntryInv, HeldHasEntry
<1>2. EntryInv => HeldHasEntry
  BY DEF EntryInv
<1> QED
  BY <1>1, <1>2, EntryStep, Typing, PTL DEF Spec

-----------------------------------------------------------------------------
\* A set of processes that wait only for each other.
Stuck(S) == S # {} /\ \A p \in S : WaitsFor(p) \cap S # {}

LEMMA NoDeadlockIsNoStuckSet == NoDeadlock <=> \A S \in SUBSET Procs : ~Stuck(S)
  BY DEF NoDeadlock, Stuck

\* If only p changes, and it is awake afterwards, nobody is newly stuck: a
\* circle cannot run through p, and the others wait for p or as before.
LEMMA AwakeStep ==
    ASSUME NoDeadlock, NEW p \in Procs, WaitsFor(p)' = {},
           \A q \in Procs \ {p} : WaitsFor(q)' \subseteq WaitsFor(q) \cup {p}
    PROVE  NoDeadlock'
<1> SUFFICES ASSUME NEW S \in SUBSET Procs, Stuck(S)' PROVE FALSE
  BY DEF NoDeadlock, Stuck
<1>1. p \notin S
  BY DEF Stuck
<1>2. Stuck(S)
  BY <1>1 DEF Stuck
<1> QED
  BY <1>2 DEF NoDeadlock, Stuck

\* The kernel's check before it lets p sleep is exactly what is needed: were p
\* in a stuck set S, the part of S outside p that p's blockers lead to would
\* have been stuck before.
LEMMA SleepStep ==
    ASSUME NoDeadlock, NEW p \in Procs, NEW t, NEW l,
           ~WouldDeadlock(p, t, l),
           WaitsFor(p)' \subseteq Blockers(p, t, l),
           \A q \in Procs \ {p} : WaitsFor(q)' = WaitsFor(q)
    PROVE  NoDeadlock'
<1> SUFFICES ASSUME NEW S \in SUBSET Procs, Stuck(S)' PROVE FALSE
  BY DEF NoDeadlock, Stuck
<1>1. PICK T \in SUBSET Procs :
          /\ Blockers(p, t, l) \subseteq T
          /\ \A q \in T : WaitsFor(q) \subseteq T
          /\ p \notin T
  BY DEF WouldDeadlock
<1>2. CASE p \in S
  <2>1. S \cap T # {}
    BY <1>1, <1>2 DEF Stuck
  <2>2. \A q \in S \cap T : WaitsFor(q) \cap (S \cap T) # {}
    <3> SUFFICES ASSUME NEW q \in S \cap T PROVE WaitsFor(q) \cap (S \cap T) # {}
      OBVIOUS
    <3>1. q # p /\ WaitsFor(q) \cap S # {}
      BY <1>1 DEF Stuck
    <3> QED
      BY <1>1, <3>1
  <2>3. Stuck(S \cap T) /\ S \cap T \in SUBSET Procs
    BY <2>1, <2>2 DEF Stuck
  <2> QED
    BY <2>3, NoDeadlockIsNoStuckSet
<1>3. CASE p \notin S
  <2>1. Stuck(S)
    BY <1>3 DEF Stuck
  <2> QED
    BY <2>1, NoDeadlockIsNoStuckSet
<1> QED
  BY <1>2, <1>3

\* What a step does to the waiting relation of everyone but the caller.
LEMMA NoDeadlockStep == TypeOK /\ NoDeadlock /\ [Next]_vars => NoDeadlock'
<1> SUFFICES ASSUME TypeOK, NoDeadlock, [Next]_vars PROVE NoDeadlock'
  OBVIOUS
<1>1. CASE UNCHANGED vars
  BY <1>1 DEF vars, NoDeadlock, WaitsFor, Blockers
<1>2. ASSUME NEW p \in Procs, waits'[p] = Idle,
             \A q \in Procs \ {p} : waits'[q] = waits[q],
             \A l \in Locks, x \in Procs \ {p} : kern'[l][x] = kern[l][x]
      PROVE  NoDeadlock'
  <2>1. WaitsFor(p)' = {}
    BY <1>2 DEF WaitsFor
  <2>2. ASSUME NEW q \in Procs \ {p}, NEW x \in WaitsFor(q)', x # p PROVE x \in WaitsFor(q)
    <3>1. x \in Procs /\ waits[q] # Idle /\ waits[q].lock \in Locks
      BY <1>2, <2>2 DEF WaitsFor, TypeOK, Request
    <3>2. kern'[waits[q].lock][x] = kern[waits[q].lock][x]
      BY <1>2, <2>2, <3>1
    <3> QED
      BY <1>2, <2>2, <3>1, <3>2 DEF WaitsFor, Blockers
  <2>3. \A q \in Procs \ {p} : WaitsFor(q)' \subseteq WaitsFor(q) \cup {p}
    BY <2>2
  <2> QED
    BY <2>1, <2>3, AwakeStep
<1>3. ASSUME NEW p \in Procs, Granted(p) \/ Exit(p) PROVE NoDeadlock'
  <2>1. Granted(p) => waits[p].lock \in Locks
    BY DEF Granted, TypeOK, Request
  <2> QED
    BY <1>2, <1>3, <2>1 DEF Granted, Exit, SetKern, TypeOK
<1>4. ASSUME NEW p \in Procs, NEW l \in Locks, Unlock(p, l) PROVE NoDeadlock'
  BY <1>2, <1>4 DEF Unlock, SetKern, TypeOK
<1>5. ASSUME NEW p \in Procs, NEW t \in LockType, NEW l \in Locks,
             LockNow(p, t, l) \/ LockFail(p, t, l) \/ TryLock(p, t, l)
      PROVE  NoDeadlock'
  BY <1>2, <1>5 DEF LockNow, LockFail, TryLock, SetKern, TypeOK
<1>6. ASSUME NEW p \in Procs, NEW t \in LockType, NEW l \in Locks, LockWait(p, t, l)
      PROVE  NoDeadlock'
  <2>1. waits'[p] = [type |-> t, lock |-> l] /\ kern' = kern
    BY <1>6 DEF LockWait, TypeOK
  <2>2. WaitsFor(p)' \subseteq Blockers(p, t, l)
    BY <2>1 DEF WaitsFor, Blockers
  <2>3. \A q \in Procs \ {p} : WaitsFor(q)' = WaitsFor(q)
    BY <1>6 DEF LockWait, WaitsFor, Blockers, TypeOK
  <2> QED
    BY <1>6, <2>2, <2>3, SleepStep DEF LockWait
<1> QED
  BY <1>1, <1>3, <1>4, <1>5, <1>6 DEF Next

\* ListProc's processes never hang on each other's locks, however many there
\* are and in whatever order they lock: somebody's lpl_lock fails instead.
THEOREM DeadlockFreedom == Spec => []NoDeadlock
<1>1. Init => NoDeadlock
  BY DEF Init, NoDeadlock, WaitsFor
<1> QED
  BY <1>1, NoDeadlockStep, Typing, PTL DEF Spec

-----------------------------------------------------------------------------
\* Each step of lplock.c is one of RWLock's, or does not show there.
LEMMA RefinementStep ==
    TypeOK /\ MutualExclusion /\ [Next]_vars => [Abstract!AbsNext]_(Abstract!absVars)
<1> SUFFICES ASSUME TypeOK, MutualExclusion, [Next]_vars
             PROVE  [Abstract!AbsNext]_(Abstract!absVars)
  OBVIOUS
<1> USE DEF Abstract!AbsNext, Abstract!absVars
<1>1. CASE UNCHANGED kern
  BY <1>1
<1>2. ASSUME NEW p \in Procs, NEW t \in LockType, NEW l \in Locks, Grant(p, t, l)
      PROVE  Abstract!Write(p, l) \/ Abstract!Read(p, l)
  <2>1. \A x \in Procs \ {p} : kern[l][x] # "LPL_WRITE" /\ (t = "LPL_WRITE" => kern[l][x] = "none")
    BY <1>2 DEF Grant, Blockers
  <2>2. /\ \A m \in Locks, x \in Procs : m # l \/ x # p => kern'[m][x] = kern[m][x]
        /\ kern'[l][p] = t
        /\ kern \in [Locks -> [Procs -> Mode]]
    BY <1>2 DEF Grant, SetKern, TypeOK
  <2> DEFINE Wr(m) == {x \in Procs : kern[m][x] = "LPL_WRITE"}
             Rd(m) == {x \in Procs : kern[m][x] = "LPL_READ"}
  <2>0. \A m \in Locks \ {l} : Wr(m)' = Wr(m) /\ Rd(m)' = Rd(m)
    BY <2>2
  <2>3. CASE t = "LPL_WRITE"
    <3>1. Wr(l) \cup Rd(l) \subseteq {p}
      BY <2>1, <2>3
    <3>2. Wr(l)' = {p} /\ Rd(l)' = {}
      BY <2>1, <2>2, <2>3
    <3>3. /\ [m \in Locks |-> Wr(m)]' = [[m \in Locks |-> Wr(m)] EXCEPT ![l] = {p}]
          /\ [m \in Locks |-> Rd(m)]' = [[m \in Locks |-> Rd(m)] EXCEPT ![l] = {}]
      <4> HIDE DEF Wr, Rd
      <4> QED
        BY <2>0, <3>2
    <3> QED
      BY <3>1, <3>3 DEF Abstract!Write
  <2>4. CASE t = "LPL_READ"
    <3>1. Wr(l) \subseteq {p}
      BY <2>1
    <3>2. Wr(l)' = {} /\ Rd(l)' = Rd(l) \cup {p}
      BY <2>1, <2>2, <2>4
    <3>3. /\ [m \in Locks |-> Wr(m)]' = [[m \in Locks |-> Wr(m)] EXCEPT ![l] = {}]
          /\ [m \in Locks |-> Rd(m)]' = [[m \in Locks |-> Rd(m)] EXCEPT ![l] = @ \cup {p}]
      <4> HIDE DEF Wr, Rd
      <4> QED
        BY <2>0, <3>2
    <3> QED
      BY <3>1, <3>3 DEF Abstract!Read
  <2> QED
    BY <2>3, <2>4 DEF LockType
<1>3. ASSUME NEW p \in Procs, Exit(p) PROVE Abstract!Release(p, Locks)
  BY <1>3, SMTT(30) DEF Exit, TypeOK, Abstract!Release
<1>4. ASSUME NEW p \in Procs, NEW l \in Locks, Unlock(p, l) PROVE Abstract!Release(p, {l})
  BY <1>4, SMTT(30) DEF Unlock, SetKern, TypeOK, Abstract!Release
<1>5. ASSUME NEW p \in Procs, Granted(p)
      PROVE  \E t \in LockType, l \in Locks : Grant(p, t, l)
  <2>1. waits[p].type \in LockType /\ waits[p].lock \in Locks
    BY <1>5 DEF Granted, TypeOK, Request
  <2>2. Blockers(p, waits[p].type, waits[p].lock) = {}
    BY <1>5 DEF Granted, WaitsFor, Blockers
  <2> QED
    BY <1>5, <2>1, <2>2 DEF Granted, Grant
<1>6. ASSUME NEW p \in Procs, NEW t \in LockType, NEW l \in Locks,
             LockNow(p, t, l) \/ LockWait(p, t, l) \/ LockFail(p, t, l) \/ TryLock(p, t, l)
      PROVE  UNCHANGED kern \/ Grant(p, t, l)
  BY <1>6 DEF LockNow, LockWait, LockFail, TryLock, Grant
<1>7. UNCHANGED vars => UNCHANGED kern
  BY DEF vars
<1> QED
  BY <1>1, <1>2, <1>3, <1>4, <1>5, <1>6, <1>7 DEF Next

\* lplock.c implements the readers/writer lock its header offers.
THEOREM Refinement == Spec => ImplementsRWLock
<1>1. Init => Abstract!AbsInit
  BY DEF Init, Abstract!AbsInit
<1> QED
  BY <1>1, RefinementStep, Typing, Exclusion, PTL DEF Spec, ImplementsRWLock, Abstract!AbsSpec

-----------------------------------------------------------------------------
(* Confirmation: the inductive invariant *)

\* The lines of the file and of those that will take its place, and who
\* carries a request out, are of cookies that were mailed.
LinesOK ==
  /\ \A i \in Inodes : \A l \in content[i].lines : mailed[l.id] # None /\ l.born = mailed[l.id]
  /\ \A p \in Workers : Busy(p) => \A l \in proc[p].new.lines : mailed[l.id] # None /\ l.born = mailed[l.id]
  /\ \A p \in Workers : proc[p].st = "action" => mailed[proc[p].c] # None
  /\ \A c \in Cookies : runs[c] # 0 => mailed[c] # None

\* A cookie is saved by one process, once.
Saves(p) == Busy(p) /\ proc[p].op = "save"
SaveOK ==
  /\ \A p \in Workers : proc[p].st = "save" => proc[p].op = "save"
  /\ \A p \in Workers : proc[p].st \in {"get", "action"} => proc[p].op = "get"
  /\ \A p \in Workers : Saves(p) => mailed[proc[p].c] = None
  /\ \A p, q \in Workers :
       Saves(p) /\ Saves(q) /\ proc[p].c = proc[q].c => p = q

\* A request that was carried out, or is about to be, has left no cookie.
Carries(p, c) == proc[p].st = "action" /\ proc[p].c = c
Here(c)       == name # None /\ c \in Live(content[name])
Usable(c)     == Here(c) \/ \E p \in Workers : Replacing(p) /\ c \in Live(proc[p].new)
OnceInv ==
  \A c \in Cookies \ torn :
    /\ runs[c] <= 1
    /\ \A p, q \in Workers : Carries(p, c) /\ Carries(q, c) => p = q
    /\ (\E p \in Workers : Carries(p, c)) => runs[c] = 0
    /\ runs[c] # 0 \/ (\E p \in Workers : Carries(p, c)) => ~Usable(c)

\* A cookie that is good is in all the files that will take the place of the
\* one there is, and in that one unless it has just been unlinked.
Good(c) ==
  /\ mailed[c] # None /\ c \notin torn \cup ended
  /\ runs[c] = 0 /\ (\A p \in Workers : ~Carries(p, c)) /\ day < mailed[c] + Expiration
GoodInv ==
  \A c \in Cookies : Good(c) =>
    /\ \A p \in Workers : Replacing(p) => c \in Live(proc[p].new)
    /\ (\A p \in Workers : proc[p].st # "rename") => Here(c)

CookieInv == CTypeOK /\ LinesOK /\ SaveOK /\ OnceInv /\ GoodInv
-----------------------------------------------------------------------------
(* Lemmas *)

LEMMA LiveLines ==
  ASSUME NEW f \in CookieFiles, NEW c
  PROVE  c \in Live(f) <=> \E l \in f.lines : ~l.used /\ l.id = c
BY DEF Live

LEMMA BusyTask ==
  ASSUME CTypeOK, NEW p \in Workers
  PROVE  /\ Busy(p) => proc[p] \in Tasks
         /\ proc[p].st \in Stages => Busy(p)
         /\ Busy(p) => proc[p].st \in Stages
         /\ ~Busy(p) => proc[p].st = "idle"
BY DEF CTypeOK, Busy, CIdle, Tasks, Stages

\* A process goes on with, begins or ends a task.
LEMMA ProcStep ==
  ASSUME CTypeOK, NEW p \in Workers, NEW r \in {CIdle} \cup Tasks, proc' = [proc EXCEPT ![p] = r]
  PROVE  /\ proc' \in [Workers -> {CIdle} \cup Tasks] /\ proc'[p] = r
         /\ \A q \in Workers \ {p} : proc'[q] = proc[q]
BY DEF CTypeOK

LEMMA KeptFiles ==
  ASSUME NEW files \in [Inodes -> CookieFiles], Keep(files)
  PROVE  /\ content' \in [Inodes -> CookieFiles]
         /\ \A i \in Inodes : content'[i] = files[i] \/ content'[i] = Empty
         /\ \A i \in Inodes : name' = i => content'[i] = files[i]
<1>1. Empty \in CookieFiles
  BY DEF Empty, CookieFiles
<1>2. \A i \in Inodes : content'[i] = IF name' = i \/ \E p \in Workers : proc'[p] # CIdle /\ proc'[p].fd = i
                                     THEN files[i] ELSE Empty
  BY DEF Keep
<1>3. DOMAIN content' = Inodes /\ content' = [i \in Inodes |-> content'[i]]
  BY DEF Keep
<1>4. \A i \in Inodes : content'[i] \in CookieFiles
  BY <1>1, <1>2
<1>5. content' \in [Inodes -> CookieFiles]
  BY <1>3, <1>4
<1>6. QED
  BY <1>2, <1>5

\* One inode more than processes: there is always one that nobody has open.
LEMMA FreeInode ==
  \E i \in Inodes : \A p \in Workers : Busy(p) => proc[p].fd # i
<1> DEFINE n == Cardinality(Workers)
           O == {proc[p].fd : p \in Workers}
<1>1. IsFiniteSet(Workers) /\ n \in Nat
  BY ConfirmationAssumption, FS_CardinalityType
<1>2. IsFiniteSet(O) /\ Cardinality(O) <= n
  <2> DEFINE f == [p \in Workers |-> proc[p].fd]
  <2>1. f \in Surjection(Workers, O)
    BY DEF Surjection
  <2> QED
    BY <1>1, <2>1, FS_Surjection
<1>3. IsFiniteSet(1..(n + 1)) /\ Cardinality(1..(n + 1)) = n + 1
  BY <1>1, FS_Interval
<1>4. ~(1..(n + 1) \subseteq O)
  <2> SUFFICES ASSUME 1..(n + 1) \subseteq O PROVE FALSE
    OBVIOUS
  <2>1. Cardinality(1..(n + 1)) <= Cardinality(O)
    BY <1>2, FS_Subset
  <2> QED
    BY <1>1, <1>2, <1>3, <2>1, FS_CardinalityType
<1>5. QED
  BY <1>4 DEF Inodes

-----------------------------------------------------------------------------
(* Steps that move no cookie *)

\* The state of a process that holds no cookie and no new file.
Plain(r) == r = CIdle \/ (r \in Tasks /\ r.st \notin {"action", "unlink", "rename"})

LEMMA QuietStep ==
  ASSUME CookieInv, NEW p \in Workers, NEW r, Plain(proc[p]), Plain(r), proc' = [proc EXCEPT ![p] = r],
         r.st \in {"lock", "check", "relock", "save", "get"} => r.fd \in Inodes,
         r # CIdle => r.new = Empty \/ (Busy(p) /\ r.new = proc[p].new),
         r.st = "save" => r.op = "save", r.st = "get" => r.op = "get",
         r # CIdle /\ r.op = "save" =>
           \/ Saves(p) /\ r.c = proc[p].c
           \/ mailed[r.c] = None /\ \A q \in Workers : Saves(q) => proc[q].c # r.c,
         name' \in Inodes \cup {None}, content' \in [Inodes -> CookieFiles],
         \A i \in Inodes : content'[i].lines \subseteq content[i].lines,
         name # None => name' = name /\ content'[name] = content[name],
         name = None /\ name' # None => content'[name'].lines = {},
         UNCHANGED <<day, mailed, runs, torn, ended>>
  PROVE  CookieInv'
<1>1. /\ proc' \in [Workers -> {CIdle} \cup Tasks] /\ proc'[p] = r
      /\ \A q \in Workers \ {p} : proc'[q] = proc[q]
  BY ProcStep DEF Plain, CookieInv
<1>2. /\ r.st \notin {"action", "unlink", "rename"}
      /\ proc[p].st \notin {"action", "unlink", "rename"}
  BY DEF Plain, CIdle
<1>3. CTypeOK'
  BY <1>1 DEF CookieInv, CTypeOK
<1>4. LinesOK'
  <2>1. \A q \in Workers : Busy(q)' => \A l \in proc'[q].new.lines : mailed[l.id] # None /\ l.born = mailed[l.id]
    <3> SUFFICES ASSUME NEW q \in Workers, Busy(q)', NEW l \in proc'[q].new.lines
                 PROVE  mailed[l.id] # None /\ l.born = mailed[l.id]
      OBVIOUS
    <3>1. CASE q = p
      <4>1. r # CIdle /\ l \in r.new.lines
        BY <1>1, <3>1 DEF Busy
      <4>2. r.new # Empty
        BY <4>1 DEF Empty
      <4> QED
        BY <4>1, <4>2 DEF CookieInv, LinesOK
    <3>2. CASE q # p
      BY <1>1, <3>2 DEF CookieInv, LinesOK, Busy
    <3> QED
      BY <3>1, <3>2
  <2>2. \A q \in Workers : proc'[q].st = "action" => mailed[proc'[q].c] # None
    BY <1>1, <1>2 DEF CookieInv, LinesOK
  <2> QED
    BY <2>1, <2>2 DEF CookieInv, LinesOK
<1>5. SaveOK'
  <2>1. \A q \in Workers \ {p} : Saves(q)' <=> Saves(q)
    BY <1>1 DEF Saves, Busy
  <2>2. Saves(p)' => r # CIdle /\ r.op = "save"
    BY <1>1 DEF Saves, Busy
  <2> QED
    BY <1>1, <1>2, <2>1, <2>2 DEF CookieInv, SaveOK
<1>6. \A q \in Workers : (proc'[q].st \in {"action", "unlink", "rename"} \/ proc[q].st \in {"action", "unlink", "rename"}) =>
                         q # p /\ proc'[q] = proc[q]
  BY <1>1, <1>2
<1>7. \A q \in Workers : /\ \A c : Carries(q, c)' <=> Carries(q, c)
                         /\ Replacing(q)' <=> Replacing(q)
                         /\ Replacing(q) => proc'[q] = proc[q]
                         /\ (proc'[q].st = "rename") <=> (proc[q].st = "rename")
  BY <1>6 DEF Carries, Replacing
<1>8. \A c : Here(c)' <=> Here(c)
  <2>1. CASE name # None
    BY <2>1 DEF Here, CookieInv, CTypeOK
  <2>2. CASE name = None
    BY <2>2 DEF Here, Live
  <2> QED
    BY <2>1, <2>2
<1>9. OnceInv'
  BY <1>7, <1>8 DEF CookieInv, OnceInv, Usable
<1>10. GoodInv'
  BY <1>7, <1>8 DEF CookieInv, GoodInv, Good
<1>11. QED
  BY <1>3, <1>4, <1>5, <1>9, <1>10 DEF CookieInv

LEMMA AskUserKeeps ==
  ASSUME CookieInv, NEW p \in Workers, AskUser(p)
  PROVE  CookieInv'
<1>1. PICK c \in Cookies : /\ c \notin Sent /\ \A q \in Workers : Busy(q) => proc[q].c # c
                          /\ proc' = [proc EXCEPT ![p] = Task("save", c, <<>>)]
  BY DEF AskUser
<1> DEFINE r == Task("save", c, <<>>)
<1>2. r \in Tasks /\ r.st = "open" /\ r.new = Empty /\ r.c = c /\ r.op = "save"
  BY DEF Task, Tasks, Stages, Empty, CookieFiles
<1>3. mailed[c] = None /\ \A q \in Workers : Saves(q) => proc[q].c # c
  BY <1>1 DEF Sent, Saves
<1>4. Plain(proc[p]) /\ Plain(r)
  BY <1>2 DEF Plain, AskUser, Busy
<1>5. UNCHANGED <<name, content, day, mailed, runs, torn, ended>>
  BY DEF AskUser, disk, ghost
<1> HIDE DEF r
<1>6. proc' = [proc EXCEPT ![p] = r]
  BY <1>1 DEF r
<1>7. /\ name \in Inodes \cup {None} /\ content \in [Inodes -> CookieFiles]
  BY DEF CookieInv, CTypeOK
<1>8. QED
  BY <1>2, <1>3, <1>4, <1>5, <1>6, <1>7, QuietStep

LEMMA AnswerKeeps ==
  ASSUME CookieInv, NEW p \in Workers, Answer(p)
  PROVE  CookieInv'
<1>1. PICK c \in Sent, d \in Sent : proc' = [proc EXCEPT ![p] = Task("get", c, <<d>>)]
  BY DEF Answer
<1> DEFINE r == Task("get", c, <<d>>)
<1>2. r \in Tasks /\ r.st = "open" /\ r.new = Empty /\ r.op = "get"
  <2>1. c \in Cookies /\ <<d>> \in Seq(Cookies)
    BY DEF Sent
  <2> QED
    BY <2>1 DEF Task, Tasks, Stages, Empty, CookieFiles
<1>4. Plain(proc[p]) /\ Plain(r)
  BY <1>2 DEF Plain, Answer, Busy
<1>5. UNCHANGED <<name, content, day, mailed, runs, torn, ended>>
  BY DEF Answer, disk, ghost
<1> HIDE DEF r
<1>6. proc' = [proc EXCEPT ![p] = r]
  BY <1>1 DEF r
<1>7. name \in Inodes \cup {None} /\ content \in [Inodes -> CookieFiles]
  BY DEF CookieInv, CTypeOK
<1>8. QED
  BY <1>2, <1>4, <1>5, <1>6, <1>7, QuietStep

LEMMA OpenKeeps ==
  ASSUME CookieInv, NEW p \in Workers, Open(p)
  PROVE  CookieInv'
<1> DEFINE next == IF proc[p].st = "open" THEN "lock" ELSE "relock"
           i    == IF name = None THEN Free ELSE name
           r    == [proc[p] EXCEPT !.fd = i, !.st = next]
<1>1. Busy(p) /\ proc[p] \in Tasks /\ proc[p].st \in {"open", "reopen"}
  BY BusyTask DEF Open, CookieInv, Stages
<1>2. i \in Inodes
  <2>1. name = None => \E j \in Inodes : ~InUse(j)
    <3> SUFFICES ASSUME name = None PROVE \E j \in Inodes : ~InUse(j)
      OBVIOUS
    <3>1. PICK j \in Inodes : \A q \in Workers : Busy(q) => proc[q].fd # j
      BY FreeInode
    <3>2. j \in Nat /\ name # j
      BY ConfirmationAssumption DEF Inodes
    <3> QED
      BY <3>1, <3>2 DEF InUse
  <2> QED
    BY <2>1 DEF Free, CookieInv, CTypeOK
<1>3. /\ r \in Tasks /\ r.st = next /\ r.fd = i /\ r.new = proc[p].new /\ r.op = proc[p].op
      /\ r.c = proc[p].c
  BY <1>1, <1>2 DEF Tasks, Stages
<1>4. /\ name' = i /\ proc' = [proc EXCEPT ![p] = r]
      /\ content' = IF name = None THEN [content EXCEPT ![i] = Empty] ELSE content
  <2>1. proc' = [proc EXCEPT ![p].fd = i, ![p].st = next]
    BY DEF Open
  <2> QED
    BY <2>1 DEF Open
<1>5. UNCHANGED <<day, mailed, runs, torn, ended>>
  BY DEF Open, ghost
<1>6. /\ content' \in [Inodes -> CookieFiles]
      /\ \A j \in Inodes : content'[j].lines \subseteq content[j].lines
      /\ name = None => content'[i].lines = {}
  <2>1. Empty \in CookieFiles /\ Empty.lines = {}
    BY DEF Empty, CookieFiles
  <2>2. CASE name = None
    BY <1>2, <1>4, <2>1, <2>2 DEF CookieInv, CTypeOK
  <2>3. CASE name # None
    BY <1>4, <2>3 DEF CookieInv, CTypeOK
  <2> QED
    BY <2>2, <2>3
<1>7. Plain(proc[p]) /\ Plain(r) /\ next \in {"lock", "relock"}
  BY <1>1, <1>3 DEF Plain
<1>8. name # None => name' = name /\ content'[name] = content[name]
  BY <1>4
<1>9. name' \in Inodes \cup {None} /\ (name = None /\ name' # None => content'[name'].lines = {})
  BY <1>2, <1>4, <1>6
<1> HIDE DEF r, i, next
<1>10. r.st \notin {"save", "get"} /\ (r.op = "save" => Saves(p) /\ r.c = proc[p].c)
  BY <1>1, <1>3, <1>7 DEF Saves
<1>11. r.fd \in Inodes /\ (Busy(p) /\ r.new = proc[p].new)
  BY <1>1, <1>2, <1>3
<1> QED
  BY <1>4, <1>5, <1>6, <1>7, <1>8, <1>9, <1>10, <1>11, QuietStep

LEMMA LockNowKeeps ==
  ASSUME CookieInv, NEW p \in Workers, TakeLock(p)
  PROVE  CookieInv'
<1> DEFINE next == IF proc[p].st = "lock" THEN "check" ELSE proc[p].op
           r    == [proc[p] EXCEPT !.st = next]
<1>1. Busy(p) /\ proc[p] \in Tasks /\ proc[p].st \in {"lock", "relock"} /\ proc[p].fd \in Inodes
  BY BusyTask DEF TakeLock, CookieInv, Stages, CTypeOK
<1>2. next \in {"check", "save", "get"} /\ (next = proc[p].op \/ next = "check")
  BY <1>1 DEF Tasks
<1>3. /\ r \in Tasks /\ r.st = next /\ r.fd = proc[p].fd /\ r.new = proc[p].new /\ r.op = proc[p].op
      /\ r.c = proc[p].c
  BY <1>1, <1>2 DEF Tasks, Stages
<1>4. proc' = [proc EXCEPT ![p] = r] /\ UNCHANGED <<name, content, day, mailed, runs, torn, ended>>
  BY DEF TakeLock, Step, ghost
<1>5. Plain(proc[p]) /\ Plain(r)
  BY <1>1, <1>2, <1>3 DEF Plain
<1>6. /\ r.op = "save" => Saves(p) /\ r.c = proc[p].c
      /\ (r.st = "save" => r.op = "save") /\ (r.st = "get" => r.op = "get")
      /\ r.fd \in Inodes /\ Busy(p) /\ r.new = proc[p].new
  BY <1>1, <1>2, <1>3 DEF Saves
<1>7. name \in Inodes \cup {None} /\ content \in [Inodes -> CookieFiles]
  BY DEF CookieInv, CTypeOK
<1> HIDE DEF r, next
<1> QED
  BY <1>4, <1>5, <1>6, <1>7, QuietStep

\* The lock is given back, or refused; files that nobody has open any more go.
LEMMA CloseKeeps ==
  ASSUME CookieInv, NEW p \in Workers, NEW r, Busy(p), Plain(proc[p]), proc' = [proc EXCEPT ![p] = r],
         r = CIdle \/ (/\ r \in Tasks /\ r.st = "reopen" /\ r.new = proc[p].new
                      /\ r.op = proc[p].op /\ (r.op = "save" => r.c = proc[p].c)),
         Keep(content), UNCHANGED <<name, day, mailed, runs, torn, ended>>
  PROVE  CookieInv'
<1>1. name \in Inodes \cup {None} /\ content \in [Inodes -> CookieFiles]
  BY DEF CookieInv, CTypeOK
<1>2. /\ content' \in [Inodes -> CookieFiles]
      /\ \A i \in Inodes : content'[i] = content[i] \/ content'[i] = Empty
      /\ name # None => content'[name] = content[name]
  BY <1>1, KeptFiles
<1>3. \A i \in Inodes : content'[i].lines \subseteq content[i].lines
  BY <1>2 DEF Empty
<1>4. Plain(r) /\ r.st \notin {"lock", "check", "relock", "save", "get"}
  BY DEF Plain, CIdle
<1>5. /\ r # CIdle => r.new = Empty \/ (Busy(p) /\ r.new = proc[p].new)
      /\ r # CIdle /\ r.op = "save" => Saves(p) /\ r.c = proc[p].c
  BY DEF Saves
<1> QED
  BY <1>1, <1>2, <1>3, <1>4, <1>5, QuietStep

LEMMA LockRefusedKeeps ==
  ASSUME CookieInv, NEW p \in Workers, LockRefused(p)
  PROVE  CookieInv'
<1>1. Busy(p) /\ Plain(proc[p])
  BY BusyTask DEF LockRefused, CookieInv, Stages, Plain
<1>2. proc' = [proc EXCEPT ![p] = CIdle] /\ Keep(content) /\ UNCHANGED <<name, day, mailed, runs, torn, ended>>
  BY DEF LockRefused, End, ghost
<1> QED
  BY <1>1, <1>2, CloseKeeps

LEMMA NoPurgeKeeps ==
  ASSUME CookieInv, NEW p \in Workers, NoPurge(p)
  PROVE  CookieInv'
<1> DEFINE r == [proc[p] EXCEPT !.st = "reopen", !.fd = None]
<1>1. Busy(p) /\ Plain(proc[p]) /\ proc[p] \in Tasks
  BY BusyTask DEF NoPurge, CookieInv, Stages, Plain
<1>2. /\ proc' = [proc EXCEPT ![p] = r] /\ Keep(content)
      /\ UNCHANGED <<name, day, mailed, runs, torn, ended>>
  BY DEF NoPurge, ghost
<1>3. /\ r \in Tasks /\ r.st = "reopen" /\ r.new = proc[p].new /\ r.op = proc[p].op
      /\ r.c = proc[p].c
  BY <1>1 DEF Tasks, Stages
<1> HIDE DEF r
<1> QED
  BY <1>1, <1>2, <1>3, CloseKeeps

LEMMA NotFoundKeeps ==
  ASSUME CookieInv, NEW p \in Workers, NotFound(p)
  PROVE  CookieInv'
<1> DEFINE r == [proc[p] EXCEPT !.st = "reopen", !.c = Head(proc[p].next), !.next = <<>>, !.fd = None]
<1>1. Busy(p) /\ Plain(proc[p]) /\ proc[p] \in Tasks /\ proc[p].st = "get"
  BY BusyTask DEF NotFound, CookieInv, Stages, Plain
<1>2. /\ Keep(content) /\ UNCHANGED <<name, day, mailed, runs, torn, ended>>
      /\ IF proc[p].next # <<>> THEN proc' = [proc EXCEPT ![p] = r] ELSE proc' = [proc EXCEPT ![p] = CIdle]
  BY DEF NotFound, End, ghost
<1>3. proc[p].next # <<>> => /\ r \in Tasks /\ r.st = "reopen" /\ r.new = proc[p].new
                             /\ r.op = proc[p].op
  <2>1. <<>> \in Seq(Cookies) /\ proc[p].next \in Seq(Cookies)
    BY <1>1 DEF Tasks
  <2>2. proc[p].next # <<>> => Head(proc[p].next) \in Cookies
    BY <2>1
  <2>3. None \in Inodes \cup {None}
    OBVIOUS
  <2> QED
    BY <1>1, <2>1, <2>2, <2>3 DEF Tasks, Stages
<1>4. proc[p].op # "save"
  BY <1>1 DEF CookieInv, SaveOK
<1> HIDE DEF r
<1> QED
  BY <1>1, <1>2, <1>3, <1>4, CloseKeeps

-----------------------------------------------------------------------------
(* Steps that replace the file *)

LEMMA Others ==
  ASSUME CTypeOK, NEW p \in Workers, NEW r \in {CIdle} \cup Tasks, proc' = [proc EXCEPT ![p] = r]
  PROVE  /\ proc' \in [Workers -> {CIdle} \cup Tasks] /\ proc'[p] = r
         /\ \A q \in Workers \ {p} :
              /\ proc'[q] = proc[q]
              /\ \A c : Carries(q, c)' <=> Carries(q, c)
              /\ Replacing(q)' <=> Replacing(q)
              /\ Saves(q)' <=> Saves(q)
              /\ Busy(q)' <=> Busy(q)
BY ProcStep DEF Carries, Replacing, Saves, Busy

\* No request is carried out by a step after which only cookies can be used
\* that could be used before, or that are new.
LEMMA OnceStep ==
  ASSUME OnceInv, LinesOK, torn \subseteq torn', runs' = runs,
         \A p \in Workers : \A c : Carries(p, c)' => Carries(p, c),
         \A c \in Cookies \ torn' : Usable(c)' => Usable(c) \/ mailed[c] = None
  PROVE  OnceInv'
<1> SUFFICES ASSUME NEW c \in Cookies \ torn'
             PROVE  /\ runs'[c] <= 1
                    /\ \A p, q \in Workers : Carries(p, c)' /\ Carries(q, c)' => p = q
                    /\ (\E p \in Workers : Carries(p, c)') => runs'[c] = 0
                    /\ runs'[c] # 0 \/ (\E p \in Workers : Carries(p, c)') => ~Usable(c)'
  BY DEF OnceInv
<1>1. /\ runs[c] <= 1
      /\ \A p, q \in Workers : Carries(p, c) /\ Carries(q, c) => p = q
      /\ (\E p \in Workers : Carries(p, c)) => runs[c] = 0
      /\ runs[c] # 0 \/ (\E p \in Workers : Carries(p, c)) => ~Usable(c)
  BY DEF OnceInv
<1>2. runs[c] # 0 \/ (\E p \in Workers : Carries(p, c)) => mailed[c] # None
  BY DEF LinesOK, Carries
<1> QED
  BY <1>1, <1>2

LEMMA CopyYoungKeeps ==
  ASSUME CookieInv, NEW p \in Workers, CopyYoung(p)
  PROVE  CookieInv'
<1> DEFINE f == content[proc[p].fd]
           n == [stamp |-> day, lines |-> {l \in f.lines : ~Expired(l)}]
           r == [proc[p] EXCEPT !.st = "unlink", !.fd = None, !.new = n]
<1>1. /\ Busy(p) /\ proc[p] \in Tasks /\ proc[p].st = "check" /\ proc[p].fd \in Inodes
      /\ f \in CookieFiles
  BY BusyTask DEF CopyYoung, CookieInv, Stages, CTypeOK
<1>2. /\ proc' = [proc EXCEPT ![p] = r] /\ Keep(content) /\ Tear(p, Live(f) \cup Current)
      /\ UNCHANGED <<name, day, mailed, runs, ended>>
  BY DEF CopyYoung
<1>3. n \in CookieFiles /\ n.lines \subseteq f.lines
  <2>1. f.lines \subseteq [id : Cookies, born : Nat, used : BOOLEAN] /\ day \in Nat
    BY <1>1 DEF CookieFiles, CookieInv, CTypeOK
  <2> QED
    BY <2>1 DEF CookieFiles
<1>4. /\ r \in Tasks /\ r.st = "unlink" /\ r.new = n /\ r.op = proc[p].op /\ r.c = proc[p].c
  BY <1>1, <1>3 DEF Tasks, Stages
<1>5. n.lines = {l \in f.lines : ~Expired(l)}
  OBVIOUS
<1> HIDE DEF r, n
<1>6. /\ proc' \in [Workers -> {CIdle} \cup Tasks] /\ proc'[p] = r
      /\ \A q \in Workers \ {p} :
           /\ proc'[q] = proc[q]
           /\ \A c : Carries(q, c)' <=> Carries(q, c)
           /\ Replacing(q)' <=> Replacing(q)
           /\ Saves(q)' <=> Saves(q)
           /\ Busy(q)' <=> Busy(q)
  BY <1>2, <1>4, Others DEF CookieInv
<1>7. /\ content' \in [Inodes -> CookieFiles]
      /\ \A i \in Inodes : content'[i].lines \subseteq content[i].lines
      /\ name # None => content'[name] = content[name]
  BY <1>2, KeptFiles DEF CookieInv, CTypeOK, Empty
<1>8. CTypeOK'
  BY <1>2, <1>4, <1>6, <1>7 DEF CookieInv, CTypeOK
<1>9. LinesOK'
  <2>1. \A l \in r.new.lines : mailed[l.id] # None /\ l.born = mailed[l.id]
    BY <1>1, <1>3, <1>4 DEF CookieInv, LinesOK
  <2>2. \A q \in Workers : Busy(q)' => \A l \in proc'[q].new.lines : mailed[l.id] # None /\ l.born = mailed[l.id]
    BY <1>6, <2>1 DEF CookieInv, LinesOK
  <2>3. \A q \in Workers : proc'[q].st = "action" => mailed[proc'[q].c] # None
    BY <1>4, <1>6 DEF CookieInv, LinesOK
  <2>4. \A i \in Inodes : \A l \in content'[i].lines : mailed[l.id] # None /\ l.born = mailed[l.id]
    BY <1>7 DEF CookieInv, LinesOK
  <2> QED
    BY <1>2, <2>2, <2>3, <2>4 DEF CookieInv, LinesOK
<1>10. SaveOK'
  <2>1. Saves(p)' <=> Saves(p)
    BY <1>1, <1>4, <1>6 DEF Saves, Busy, CIdle, Tasks
  <2> QED
    BY <1>2, <1>4, <1>6, <2>1 DEF CookieInv, SaveOK
<1>11. \A q \in Workers : \A c : Carries(q, c)' <=> Carries(q, c)
  BY <1>1, <1>4, <1>6 DEF Carries
<1>12. \A c : Here(c)' <=> Here(c)
  BY <1>2, <1>7 DEF Here
<1>13. ~Replacing(p) /\ \A q \in Workers : Replacing(q)' => q = p \/ (Replacing(q) /\ proc'[q] = proc[q])
  BY <1>1, <1>6 DEF Replacing
<1>14. Sure(p) => proc[p].fd = name /\ name # None /\ \A q \in Workers : ~Replacing(q)
  <2>1. \A i \in Inodes : i # None
    BY ConfirmationAssumption DEF Inodes
  <2> QED
    BY <1>1, <1>13, <2>1 DEF Sure
<1>15. \A c : c \in Live(n) => c \in Live(f)
  BY <1>3 DEF Live
<1>16. torn \subseteq torn' /\ (~Sure(p) => Live(f) \cup Current \subseteq torn')
  BY <1>2 DEF Tear
<1>17. OnceInv'
  <2>1. ASSUME NEW c \in Cookies \ torn', Usable(c)'
        PROVE  Usable(c)
    <3>1. c \in Live(f) => Here(c)
      BY <1>14, <1>16, <2>1 DEF Here
    <3> QED
      BY <1>4, <1>6, <1>12, <1>13, <1>15, <2>1, <3>1 DEF Usable
  <2> QED
    BY <1>2, <1>11, <1>16, <2>1, OnceStep DEF CookieInv
<1>18. GoodInv'
  <2> SUFFICES ASSUME NEW c \in Cookies, Good(c)'
               PROVE  /\ \A q \in Workers : Replacing(q)' => c \in Live(proc'[q].new)
                      /\ (\A q \in Workers : proc'[q].st # "rename") => Here(c)'
    BY DEF GoodInv
  <2>1. Good(c) /\ c \notin torn'
    BY <1>2, <1>11, <1>16 DEF Good
  <2>2. /\ \A q \in Workers : Replacing(q) => c \in Live(proc[q].new)
        /\ (\A q \in Workers : proc[q].st # "rename") => Here(c)
    BY <2>1 DEF CookieInv, GoodInv
  <2>3. c \in Current
    BY <2>2 DEF Current, Here, Replacing
  <2>4. Sure(p)
    BY <1>16, <2>1, <2>3
  <2>5. Here(c) /\ content[name] = f
    BY <1>14, <2>2, <2>4 DEF Replacing
  <2>6. PICK l \in f.lines : ~l.used /\ l.id = c
    BY <2>5 DEF Here, Live
  <2>7. ~Expired(l)
    <3>1. l.born = mailed[c]
      BY <1>1, <2>6 DEF CookieInv, LinesOK
    <3>2. day \in Nat /\ mailed[c] \in Nat /\ day < mailed[c] + Expiration /\ Expiration \in Nat
      BY ConfirmationAssumption, <2>1 DEF Good, CookieInv, CTypeOK
    <3> QED
      BY <2>6, <3>1, <3>2 DEF Expired
  <2>8. c \in Live(n)
    BY <1>5, <2>6, <2>7 DEF Live
  <2> QED
    BY <1>4, <1>6, <1>12, <1>13, <2>2, <2>5, <2>8
<1> QED
  BY <1>8, <1>9, <1>10, <1>17, <1>18 DEF CookieInv

LEMMA UnlinkKeeps ==
  ASSUME CookieInv, NEW p \in Workers, Unlink(p)
  PROVE  CookieInv'
<1> DEFINE r == IF name = None THEN CIdle ELSE [proc[p] EXCEPT !.st = "rename"]
<1>1. Busy(p) /\ proc[p] \in Tasks /\ proc[p].st = "unlink"
  BY BusyTask DEF Unlink, CookieInv, Stages
<1>2. /\ proc' = [proc EXCEPT ![p] = r] /\ Keep(content) /\ name' = None
      /\ UNCHANGED <<day, mailed, runs, torn, ended>>
  BY DEF Unlink, End, Step, ghost
<1>3. /\ r \in {CIdle} \cup Tasks /\ r.st \in {"idle", "rename"} /\ (r.st = "idle" <=> name = None)
      /\ r # CIdle => r.st = "rename" /\ r.new = proc[p].new /\ r.op = proc[p].op /\ r.c = proc[p].c
  BY <1>1 DEF Tasks, Stages, CIdle
<1> HIDE DEF r
<1>4. /\ proc' \in [Workers -> {CIdle} \cup Tasks] /\ proc'[p] = r
      /\ \A q \in Workers \ {p} :
           /\ proc'[q] = proc[q]
           /\ \A c : Carries(q, c)' <=> Carries(q, c)
           /\ Replacing(q)' <=> Replacing(q)
           /\ Saves(q)' <=> Saves(q)
           /\ Busy(q)' <=> Busy(q)
  BY <1>2, <1>3, Others DEF CookieInv
<1>5. /\ content' \in [Inodes -> CookieFiles]
      /\ \A i \in Inodes : content'[i].lines \subseteq content[i].lines
  BY <1>2, KeptFiles DEF CookieInv, CTypeOK, Empty
<1>6. CTypeOK'
  BY <1>2, <1>3, <1>4, <1>5 DEF CookieInv, CTypeOK
<1>7. LinesOK'
  <2>1. \A q \in Workers : Busy(q)' => \A l \in proc'[q].new.lines : mailed[l.id] # None /\ l.born = mailed[l.id]
    BY <1>1, <1>3, <1>4 DEF CookieInv, LinesOK, Busy
  <2>2. \A q \in Workers : proc'[q].st = "action" => mailed[proc'[q].c] # None
    BY <1>3, <1>4 DEF CookieInv, LinesOK
  <2>3. \A i \in Inodes : \A l \in content'[i].lines : mailed[l.id] # None /\ l.born = mailed[l.id]
    BY <1>5 DEF CookieInv, LinesOK
  <2> QED
    BY <1>2, <2>1, <2>2, <2>3 DEF CookieInv, LinesOK
<1>8. SaveOK'
  <2>1. Saves(p)' => Saves(p) /\ proc'[p].c = proc[p].c
    BY <1>1, <1>3, <1>4 DEF Saves, Busy
  <2> QED
    BY <1>2, <1>3, <1>4, <2>1 DEF CookieInv, SaveOK
<1>9. \A q \in Workers : /\ \A c : Carries(q, c)' <=> Carries(q, c)
                         /\ Replacing(q)' => Replacing(q) /\ proc'[q].new = proc[q].new
  <2>1. \A c : ~Carries(p, c) /\ ~Carries(p, c)'
    BY <1>1, <1>3, <1>4 DEF Carries
  <2>2. Replacing(p) /\ (Replacing(p)' => proc'[p].new = proc[p].new)
    <3>1. Replacing(p)' => proc'[p] # CIdle
      BY DEF Replacing, CIdle
    <3> QED
      BY <1>1, <1>3, <1>4, <3>1 DEF Replacing
  <2> QED
    BY <1>4, <2>1, <2>2
<1>10. OnceInv'
  <2>1. ASSUME NEW c \in Cookies \ torn', Usable(c)'
        PROVE  Usable(c)
    BY <1>2, <1>9, <2>1 DEF Usable, Here
  <2> QED
    BY <1>2, <1>9, <2>1, OnceStep DEF CookieInv
<1>11. GoodInv'
  <2> SUFFICES ASSUME NEW c \in Cookies, Good(c)'
               PROVE  /\ \A q \in Workers : Replacing(q)' => c \in Live(proc'[q].new)
                      /\ (\A q \in Workers : proc'[q].st # "rename") => Here(c)'
    BY DEF GoodInv
  <2>1. Good(c)
    BY <1>2, <1>9 DEF Good
  <2>2. /\ \A q \in Workers : Replacing(q) => c \in Live(proc[q].new)
        /\ (\A q \in Workers : proc[q].st # "rename") => Here(c)
    BY <2>1 DEF CookieInv, GoodInv
  <2>3. \E q \in Workers : proc'[q].st = "rename"
    BY <1>1, <1>3, <1>4, <2>2 DEF Here
  <2> QED
    BY <1>9, <2>2, <2>3
<1> QED
  BY <1>6, <1>7, <1>8, <1>10, <1>11 DEF CookieInv

LEMMA RenameKeeps ==
  ASSUME CookieInv, NEW p \in Workers, Rename(p)
  PROVE  CookieInv'
<1> DEFINE i == CHOOSE j \in Inodes : \A q \in Workers : Busy(q) => proc[q].fd # j
           files == [content EXCEPT ![i] = proc[p].new]
           r == [proc[p] EXCEPT !.st = "reopen", !.new = Empty]
<1>1. Busy(p) /\ proc[p] \in Tasks /\ proc[p].st = "rename"
  BY BusyTask DEF Rename, CookieInv, Stages
<1>2. /\ proc' = [proc EXCEPT ![p] = r] /\ Keep(files) /\ name' = i
      /\ UNCHANGED <<day, mailed, runs, torn, ended>>
  BY DEF Rename, ghost
<1>3. i \in Inodes
  BY FreeInode
<1>4. proc[p].new \in CookieFiles /\ Empty \in CookieFiles
  BY <1>1 DEF Tasks, Empty, CookieFiles
<1>5. /\ r \in Tasks /\ r.st = "reopen" /\ r.new = Empty /\ r.op = proc[p].op /\ r.c = proc[p].c
  BY <1>1, <1>4 DEF Tasks, Stages
<1>6. /\ files \in [Inodes -> CookieFiles] /\ files[i] = proc[p].new
      /\ \A j \in Inodes : files[j] = content[j] \/ files[j] = proc[p].new
  BY <1>3, <1>4 DEF CookieInv, CTypeOK
<1> HIDE DEF r, i, files
<1>7. /\ proc' \in [Workers -> {CIdle} \cup Tasks] /\ proc'[p] = r
      /\ \A q \in Workers \ {p} :
           /\ proc'[q] = proc[q]
           /\ \A c : Carries(q, c)' <=> Carries(q, c)
           /\ Replacing(q)' <=> Replacing(q)
           /\ Saves(q)' <=> Saves(q)
           /\ Busy(q)' <=> Busy(q)
  BY <1>2, <1>5, Others DEF CookieInv
<1>8. /\ content' \in [Inodes -> CookieFiles] /\ content'[i] = proc[p].new
      /\ \A j \in Inodes : content'[j] = files[j] \/ content'[j] = Empty
  BY <1>2, <1>3, <1>6, KeptFiles
<1>9. CTypeOK'
  BY <1>2, <1>3, <1>5, <1>7, <1>8 DEF CookieInv, CTypeOK
<1>10. LinesOK'
  <2>1. \A l \in proc[p].new.lines : mailed[l.id] # None /\ l.born = mailed[l.id]
    BY <1>1 DEF CookieInv, LinesOK
  <2>2. \A q \in Workers : Busy(q)' => \A l \in proc'[q].new.lines : mailed[l.id] # None /\ l.born = mailed[l.id]
    BY <1>5, <1>7 DEF CookieInv, LinesOK, Empty
  <2>3. \A q \in Workers : proc'[q].st = "action" => mailed[proc'[q].c] # None
    BY <1>5, <1>7 DEF CookieInv, LinesOK
  <2>4. \A j \in Inodes : \A l \in content'[j].lines : mailed[l.id] # None /\ l.born = mailed[l.id]
    <3> SUFFICES ASSUME NEW j \in Inodes, NEW l \in content'[j].lines
                 PROVE  mailed[l.id] # None /\ l.born = mailed[l.id]
      OBVIOUS
    <3>1. l \in content[j].lines \/ l \in proc[p].new.lines
      BY <1>6, <1>8 DEF Empty
    <3> QED
      BY <2>1, <3>1 DEF CookieInv, LinesOK
  <2> QED
    BY <1>2, <2>2, <2>3, <2>4 DEF CookieInv, LinesOK
<1>11. SaveOK'
  <2>1. Saves(p)' => Saves(p) /\ proc'[p].c = proc[p].c
    BY <1>1, <1>5, <1>7 DEF Saves, Busy
  <2> QED
    BY <1>2, <1>5, <1>7, <2>1 DEF CookieInv, SaveOK
<1>12. \A q \in Workers : /\ \A c : Carries(q, c)' <=> Carries(q, c)
                          /\ Replacing(q)' => Replacing(q) /\ proc'[q].new = proc[q].new
  BY <1>1, <1>5, <1>7 DEF Carries, Replacing
<1>13. \A c : Here(c)' <=> c \in Live(proc[p].new)
  <2>1. i # None
    BY ConfirmationAssumption, <1>3 DEF Inodes
  <2> QED
    BY <1>2, <1>8, <2>1 DEF Here
<1>14. OnceInv'
  <2>1. ASSUME NEW c \in Cookies \ torn', Usable(c)'
        PROVE  Usable(c)
    BY <1>1, <1>12, <1>13, <2>1 DEF Usable, Replacing
  <2> QED
    BY <1>2, <1>12, <2>1, OnceStep DEF CookieInv
<1>15. GoodInv'
  <2> SUFFICES ASSUME NEW c \in Cookies, Good(c)'
               PROVE  (\A q \in Workers : Replacing(q)' => c \in Live(proc'[q].new)) /\ Here(c)'
    BY DEF GoodInv
  <2>1. Good(c)
    BY <1>2, <1>12 DEF Good
  <2>2. \A q \in Workers : Replacing(q) => c \in Live(proc[q].new)
    BY <2>1 DEF CookieInv, GoodInv
  <2> QED
    BY <1>1, <1>12, <1>13, <2>2 DEF Replacing
<1> QED
  BY <1>9, <1>10, <1>11, <1>14, <1>15 DEF CookieInv

-----------------------------------------------------------------------------
(* Steps that add a cookie, or take one *)

LEMMA SaveKeeps ==
  ASSUME CookieInv, NEW p \in Workers, Save(p)
  PROVE  CookieInv'
<1> DEFINE k == proc[p].c
           i == proc[p].fd
           files == [content EXCEPT ![i].lines = @ \cup {Line(k)}]
<1>1. Busy(p) /\ proc[p] \in Tasks /\ proc[p].st = "save" /\ i \in Inodes /\ k \in Cookies
  BY BusyTask DEF Save, CookieInv, Stages, CTypeOK, Tasks
<1>2. /\ proc' = [proc EXCEPT ![p] = CIdle] /\ Keep(files) /\ mailed' = [mailed EXCEPT ![k] = day]
      /\ Tear(p, {k}) /\ UNCHANGED <<name, day, runs, ended>>
  BY DEF Save, End
<1>3. day \in Nat /\ day # None
  BY ConfirmationAssumption DEF CookieInv, CTypeOK
<1>4. Line(k) \in [id : Cookies, born : Nat, used : BOOLEAN]
  BY <1>1, <1>3 DEF Line
<1>5. /\ files \in [Inodes -> CookieFiles] /\ files[i].lines = content[i].lines \cup {Line(k)}
      /\ \A j \in Inodes \ {i} : files[j] = content[j]
  <2>1. content[i] \in CookieFiles /\ content \in [Inodes -> CookieFiles]
    BY <1>1 DEF CookieInv, CTypeOK
  <2>2. [content[i] EXCEPT !.lines = @ \cup {Line(k)}] \in CookieFiles
    BY <1>4, <2>1 DEF CookieFiles
  <2>3. files = [content EXCEPT ![i] = [content[i] EXCEPT !.lines = @ \cup {Line(k)}]]
    BY <2>1
  <2>4. [content[i] EXCEPT !.lines = @ \cup {Line(k)}].lines = content[i].lines \cup {Line(k)}
    BY <2>1 DEF CookieFiles
  <2> HIDE DEF files
  <2> QED
    BY <1>1, <2>1, <2>2, <2>3, <2>4
<1>6. mailed' \in [Cookies -> Nat \cup {None}] /\ mailed'[k] = day /\ \A c \in Cookies \ {k} : mailed'[c] = mailed[c]
  BY <1>1, <1>2, <1>3 DEF CookieInv, CTypeOK
<1>7. mailed[k] = None /\ \A q \in Workers \ {p} : Saves(q) => proc[q].c # k
  BY <1>1 DEF CookieInv, SaveOK, Saves
<1> HIDE DEF k, i, files
<1> DEFINE r == CIdle
<1>8. r \in {CIdle} \cup Tasks /\ r.st = "idle"
  BY DEF CIdle
<1>9. /\ proc' \in [Workers -> {CIdle} \cup Tasks] /\ proc'[p] = r
      /\ \A q \in Workers \ {p} :
           /\ proc'[q] = proc[q]
           /\ \A c : Carries(q, c)' <=> Carries(q, c)
           /\ Replacing(q)' <=> Replacing(q)
           /\ Saves(q)' <=> Saves(q)
           /\ Busy(q)' <=> Busy(q)
  BY <1>2, Others DEF CookieInv
<1>10. /\ content' \in [Inodes -> CookieFiles]
       /\ \A j \in Inodes : content'[j] = files[j] \/ content'[j] = Empty
       /\ \A j \in Inodes : name = j => content'[j] = files[j]
  BY <1>2, <1>5, KeptFiles
<1>11. CTypeOK'
  BY <1>2, <1>6, <1>8, <1>9, <1>10 DEF CookieInv, CTypeOK
<1>12. \A c \in Cookies : mailed[c] # None => c # k /\ mailed'[c] = mailed[c]
  BY <1>6, <1>7
<1>13. \A j \in Inodes : content[j].lines \subseteq [id : Cookies, born : Nat, used : BOOLEAN]
  BY DEF CookieInv, CTypeOK, CookieFiles
<1>14. \A q \in Workers : Busy(q) => /\ proc[q].new.lines \subseteq [id : Cookies, born : Nat, used : BOOLEAN]
                                     /\ proc[q].c \in Cookies
  BY BusyTask DEF CookieInv, Tasks, CookieFiles
<1>15. LinesOK'
  <2>1. ASSUME NEW j \in Inodes, NEW l \in content'[j].lines
        PROVE  mailed'[l.id] # None /\ l.born = mailed'[l.id]
    <3>1. l \in content[j].lines \/ l = Line(k)
      BY <1>5, <1>10, <2>1 DEF Empty
    <3>2. CASE l \in content[j].lines
      <4>1. l.id \in Cookies /\ mailed[l.id] # None /\ l.born = mailed[l.id]
        BY <1>13, <3>2 DEF CookieInv, LinesOK
      <4> QED
        BY <1>12, <4>1
    <3>3. CASE l = Line(k)
      BY <1>3, <1>6, <3>3 DEF Line
    <3> QED
      BY <3>1, <3>2, <3>3
  <2>2. ASSUME NEW q \in Workers, Busy(q)', NEW l \in proc'[q].new.lines
        PROVE  mailed'[l.id] # None /\ l.born = mailed'[l.id]
    <3>1. q # p /\ Busy(q) /\ l \in proc[q].new.lines
      BY <1>9, <2>2 DEF Busy
    <3>2. l.id \in Cookies /\ mailed[l.id] # None /\ l.born = mailed[l.id]
      BY <1>14, <3>1 DEF CookieInv, LinesOK
    <3> QED
      BY <1>12, <3>2
  <2>3. ASSUME NEW q \in Workers, proc'[q].st = "action"
        PROVE  mailed'[proc'[q].c] # None
    <3>1. q # p /\ proc[q].st = "action" /\ proc'[q] = proc[q]
      BY <1>8, <1>9, <2>3
    <3>2. proc[q].c \in Cookies /\ mailed[proc[q].c] # None
      BY <1>14, <3>1, BusyTask DEF CookieInv, LinesOK, Stages
    <3> QED
      BY <1>12, <3>1, <3>2
  <2>4. \A c \in Cookies : runs'[c] # 0 => mailed'[c] # None
    BY <1>2, <1>12 DEF CookieInv, LinesOK
  <2> QED
    BY <2>1, <2>2, <2>3, <2>4 DEF LinesOK
<1>16. SaveOK'
  <2>1. ~Saves(p)'
    BY <1>9 DEF Saves, Busy
  <2>2. \A q \in Workers : Saves(q) /\ q # p => proc[q].c \in Cookies \ {k}
    BY <1>7, <1>14 DEF Saves
  <2>3. \A q \in Workers : Saves(q)' => q # p /\ Saves(q) /\ proc'[q] = proc[q] /\ mailed'[proc[q].c] = mailed[proc[q].c]
    BY <1>6, <1>9, <2>1, <2>2
  <2> QED
    BY <1>8, <1>9, <2>3 DEF CookieInv, SaveOK
<1>17. \A q \in Workers : /\ \A c : Carries(q, c)' <=> Carries(q, c)
                          /\ Replacing(q)' <=> Replacing(q)
                          /\ Replacing(q) => q # p /\ proc'[q] = proc[q]
                          /\ (proc'[q].st = "rename") <=> (proc[q].st = "rename")
  BY <1>1, <1>8, <1>9 DEF Carries, Replacing
<1>18. \A c : c # k => (Here(c)' <=> Here(c))
  <2> SUFFICES ASSUME NEW c, c # k, name # None PROVE c \in Live(content'[name]) <=> c \in Live(content[name])
    BY <1>2 DEF Here
  <2>1. name \in Inodes /\ content'[name] = files[name]
    BY <1>10 DEF CookieInv, CTypeOK
  <2>2. CASE name = i
    BY <1>5, <2>1, <2>2 DEF Live, Line
  <2>3. CASE name # i
    BY <1>5, <2>1, <2>3
  <2> QED
    BY <2>2, <2>3
<1>19. torn \subseteq torn' /\ (~Sure(p) => k \in torn')
  BY <1>2 DEF Tear
<1>20. OnceInv'
  <2>1. ASSUME NEW c \in Cookies \ torn', Usable(c)'
        PROVE  Usable(c) \/ mailed[c] = None
    <3>1. CASE c = k
      BY <1>7, <3>1
    <3>2. CASE c # k
      BY <1>17, <1>18, <2>1, <3>2 DEF Usable
    <3> QED
      BY <3>1, <3>2
  <2> QED
    BY <1>2, <1>17, <1>19, <2>1, OnceStep DEF CookieInv
<1>21. GoodInv'
  <2> SUFFICES ASSUME NEW c \in Cookies, Good(c)'
               PROVE  /\ \A q \in Workers : Replacing(q)' => c \in Live(proc'[q].new)
                      /\ (\A q \in Workers : proc'[q].st # "rename") => Here(c)'
    BY DEF GoodInv
  <2>1. CASE c # k
    <3>1. Good(c)
      BY <1>2, <1>6, <1>17, <1>19, <2>1 DEF Good
    <3> QED
      BY <1>17, <1>18, <2>1, <3>1 DEF CookieInv, GoodInv
  <2>2. CASE c = k
    <3>1. Sure(p)
      BY <1>19, <2>2 DEF Good
    <3>2. i = name /\ \A q \in Workers : ~Replacing(q)'
      BY <1>17, <3>1 DEF Sure, i
    <3>3. name # None
      BY ConfirmationAssumption, <1>1, <3>2 DEF Inodes
    <3>4. Line(k) \in content'[name].lines /\ ~Line(k).used /\ Line(k).id = k
      BY <1>1, <1>5, <1>10, <3>2 DEF Line
    <3>5. Here(c)'
      BY <1>2, <2>2, <3>3, <3>4 DEF Here, Live
    <3> QED
      BY <3>2, <3>5
  <2> QED
    BY <2>1, <2>2
<1> QED
  BY <1>11, <1>15, <1>16, <1>20, <1>21 DEF CookieInv

LEMMA FoundKeeps ==
  ASSUME CookieInv, NEW p \in Workers, Found(p)
  PROVE  CookieInv'
<1> DEFINE k == proc[p].c
           i == proc[p].fd
           g == Erase(content[i], k)
           files == [content EXCEPT ![i] = g]
           r == [proc[p] EXCEPT !.st = "action", !.fd = None, !.next = <<>>]
<1>1. /\ Busy(p) /\ proc[p] \in Tasks /\ proc[p].st = "get" /\ i \in Inodes /\ k \in Cookies
      /\ content[i] \in CookieFiles /\ k \in Live(content[i])
  BY BusyTask DEF Found, Has, CookieInv, Stages, CTypeOK, Tasks
<1>2. /\ proc' = [proc EXCEPT ![p] = r] /\ Keep(files) /\ Tear(p, {k})
      /\ UNCHANGED <<name, day, mailed, runs, ended>>
  BY DEF Found
<1>3. /\ r \in Tasks /\ r.st = "action" /\ r.new = proc[p].new /\ r.op = proc[p].op /\ r.c = k
  <2>1. <<>> \in Seq(Cookies)
    OBVIOUS
  <2>2. None \in Inodes \cup {None}
    OBVIOUS
  <2> QED
    BY <1>1, <2>1, <2>2 DEF Tasks, Stages
<1>4. /\ g \in CookieFiles
      /\ \A l \in g.lines : \E x \in content[i].lines :
           x.id = l.id /\ x.born = l.born /\ (x.id = k => l.used) /\ (x.id # k => l = x)
      /\ \A x \in content[i].lines : x.id # k => x \in g.lines
  <2> DEFINE E(l) == IF l.id = k THEN [l EXCEPT !.used = TRUE] ELSE l
             L == {E(l) : l \in content[i].lines}
  <2>1. g = [content[i] EXCEPT !.lines = L]
    BY <1>1 DEF Erase, CookieFiles
  <2>2. content[i].lines \subseteq [id : Cookies, born : Nat, used : BOOLEAN]
    BY <1>1 DEF CookieFiles
  <2>3. \A l \in content[i].lines :
          /\ E(l) \in [id : Cookies, born : Nat, used : BOOLEAN]
          /\ E(l).id = l.id /\ E(l).born = l.born
          /\ l.id = k => E(l).used
          /\ l.id # k => E(l) = l
    BY <2>2
  <2> HIDE DEF E
  <2>4. L \subseteq [id : Cookies, born : Nat, used : BOOLEAN]
    BY <2>3
  <2> HIDE DEF L, g
  <2>5. g \in CookieFiles /\ g.lines = L
    BY <1>1, <2>1, <2>4 DEF CookieFiles
  <2>6. \A l \in L : \E x \in content[i].lines : l = E(x)
    BY DEF L
  <2>7. \A x \in content[i].lines : E(x) \in L
    BY DEF L
  <2> QED
    BY <2>3, <2>5, <2>6, <2>7
<1>5. k \notin Live(g) /\ \A c : c # k => (c \in Live(g) <=> c \in Live(content[i]))
  BY <1>4 DEF Live
<1> HIDE DEF g, r
<1>6. /\ files \in [Inodes -> CookieFiles] /\ files[i] = g
      /\ \A j \in Inodes \ {i} : files[j] = content[j]
  BY <1>1, <1>4 DEF CookieInv, CTypeOK
<1>7. mailed[k] # None
  <2>1. PICK l \in content[i].lines : ~l.used /\ l.id = k
    BY <1>1 DEF Live
  <2> QED
    BY <1>1, <2>1 DEF CookieInv, LinesOK
<1> HIDE DEF k, i, files
<1>8. /\ proc' \in [Workers -> {CIdle} \cup Tasks] /\ proc'[p] = r
      /\ \A q \in Workers \ {p} :
           /\ proc'[q] = proc[q]
           /\ \A c : Carries(q, c)' <=> Carries(q, c)
           /\ Replacing(q)' <=> Replacing(q)
           /\ Saves(q)' <=> Saves(q)
           /\ Busy(q)' <=> Busy(q)
  BY <1>2, <1>3, Others DEF CookieInv
<1>9. /\ content' \in [Inodes -> CookieFiles]
      /\ \A j \in Inodes : content'[j] = files[j] \/ content'[j] = Empty
      /\ \A j \in Inodes : name = j => content'[j] = files[j]
  BY <1>2, <1>6, KeptFiles
<1>10. CTypeOK'
  BY <1>2, <1>3, <1>8, <1>9 DEF CookieInv, CTypeOK
<1>11. LinesOK'
  <2>1. ASSUME NEW j \in Inodes, NEW l \in content'[j].lines
        PROVE  mailed[l.id] # None /\ l.born = mailed[l.id]
    <3>1. content'[j] = files[j]
      BY <1>9, <2>1 DEF Empty
    <3>2. \E x \in content[j].lines : x.id = l.id /\ x.born = l.born
      BY <1>4, <1>6, <2>1, <3>1
    <3> QED
      BY <3>2 DEF CookieInv, LinesOK
  <2>2. \A q \in Workers : Busy(q)' => \A l \in proc'[q].new.lines : mailed[l.id] # None /\ l.born = mailed[l.id]
    BY <1>1, <1>3, <1>8 DEF CookieInv, LinesOK
  <2>3. \A q \in Workers : proc'[q].st = "action" => mailed[proc'[q].c] # None
    BY <1>3, <1>7, <1>8 DEF CookieInv, LinesOK
  <2> QED
    BY <1>2, <2>1, <2>2, <2>3 DEF CookieInv, LinesOK
<1>12. SaveOK'
  <2>1. proc[p].op = "get"
    BY <1>1 DEF CookieInv, SaveOK
  <2>2. ~Saves(p)' /\ proc'[p].st = "action" /\ proc'[p].op = "get"
    BY <1>3, <1>8, <2>1 DEF Saves
  <2> QED
    BY <1>2, <1>8, <2>2 DEF CookieInv, SaveOK
<1>13. \A q \in Workers : /\ \A c : Carries(q, c)' <=> Carries(q, c) \/ (q = p /\ c = k)
                          /\ Replacing(q)' <=> Replacing(q)
                          /\ Replacing(q) => q # p /\ proc'[q] = proc[q]
                          /\ (proc'[q].st = "rename") <=> (proc[q].st = "rename")
  BY <1>1, <1>3, <1>8 DEF Carries, Replacing
<1>14. \A c : c # k => (Here(c)' <=> Here(c))
  <2> SUFFICES ASSUME NEW c, c # k, name # None PROVE c \in Live(content'[name]) <=> c \in Live(content[name])
    BY <1>2 DEF Here
  <2>1. name \in Inodes /\ content'[name] = files[name]
    BY <1>9 DEF CookieInv, CTypeOK
  <2> QED
    BY <1>5, <1>6, <2>1
<1>15. torn \subseteq torn' /\ (~Sure(p) => k \in torn')
  BY <1>2 DEF Tear
<1>16. Sure(p) => i = name /\ name # None /\ \A q \in Workers : ~Replacing(q)
  <2>1. \A j \in Inodes : j # None
    BY ConfirmationAssumption DEF Inodes
  <2>2. ~Replacing(p)
    BY <1>1 DEF Replacing
  <2> QED
    BY <1>1, <2>1, <2>2 DEF Sure, i
<1>17. OnceInv'
  <2> SUFFICES ASSUME NEW c \in Cookies \ torn'
               PROVE  /\ runs[c] <= 1
                      /\ \A q, s \in Workers : Carries(q, c)' /\ Carries(s, c)' => q = s
                      /\ (\E q \in Workers : Carries(q, c)') => runs[c] = 0
                      /\ runs[c] # 0 \/ (\E q \in Workers : Carries(q, c)') => ~Usable(c)'
    BY <1>2 DEF OnceInv
  <2>1. /\ runs[c] <= 1
        /\ \A q, s \in Workers : Carries(q, c) /\ Carries(s, c) => q = s
        /\ (\E q \in Workers : Carries(q, c)) => runs[c] = 0
        /\ runs[c] # 0 \/ (\E q \in Workers : Carries(q, c)) => ~Usable(c)
    BY <1>15 DEF CookieInv, OnceInv
  <2>2. CASE c # k
    <3>1. Usable(c)' <=> Usable(c)
      BY <1>13, <1>14, <2>2 DEF Usable
    <3>2. \A q \in Workers : Carries(q, c)' <=> Carries(q, c)
      BY <1>13, <2>2
    <3> QED
      BY <2>1, <3>1, <3>2
  <2>3. CASE c = k
    <3>1. i = name /\ name # None /\ \A q \in Workers : ~Replacing(q)
      BY <1>15, <1>16, <2>3
    <3>2. Usable(c)
      BY <1>1, <2>3, <3>1 DEF Usable, Here, k, i
    <3>3. runs[c] = 0 /\ \A q \in Workers : ~Carries(q, c)
      BY <2>1, <3>2
    <3>4. name' = name /\ content'[name] = g
      BY <1>1, <1>2, <1>6, <1>9, <3>1
    <3>5. ~Usable(c)'
      BY <1>5, <1>13, <2>3, <3>1, <3>4 DEF Usable, Here
    <3> QED
      BY <1>13, <3>3, <3>5
  <2> QED
    BY <2>2, <2>3
<1>18. GoodInv'
  <2> SUFFICES ASSUME NEW c \in Cookies, Good(c)'
               PROVE  /\ \A q \in Workers : Replacing(q)' => c \in Live(proc'[q].new)
                      /\ (\A q \in Workers : proc'[q].st # "rename") => Here(c)'
    BY DEF GoodInv
  <2>1. c # k
    BY <1>13 DEF Good
  <2>2. Good(c)
    BY <1>2, <1>13, <1>15 DEF Good
  <2> QED
    BY <1>13, <1>14, <2>1, <2>2 DEF CookieInv, GoodInv
<1> QED
  BY <1>10, <1>11, <1>12, <1>17, <1>18 DEF CookieInv

\* A process ends: it has carried the request out, given it up, or died.
LEMMA EndKeeps ==
  ASSUME CookieInv, NEW p \in Workers, End(p), Busy(p),
         name' = name, content' \in [Inodes -> CookieFiles],
         \A i \in Inodes : content'[i].lines \subseteq content[i].lines,
         name # None => content'[name] = content[name],
         UNCHANGED <<day, mailed, torn>>, ended \subseteq ended',
         runs' = runs \/ (proc[p].st = "action" /\ runs' = [runs EXCEPT ![proc[p].c] = @ + 1]),
         proc[p].st = "action" => runs' # runs \/ proc[p].c \in ended',
         proc[p].st = "rename" => Sent \subseteq ended'
  PROVE  CookieInv'
<1> DEFINE r == CIdle
<1>1. r \in {CIdle} \cup Tasks /\ r.st = "idle" /\ proc' = [proc EXCEPT ![p] = r] /\ proc[p] \in Tasks
  BY BusyTask DEF CIdle, End, CookieInv
<1> HIDE DEF r
<1>2. /\ proc' \in [Workers -> {CIdle} \cup Tasks] /\ proc'[p] = r
      /\ \A q \in Workers \ {p} :
           /\ proc'[q] = proc[q]
           /\ \A c : Carries(q, c)' <=> Carries(q, c)
           /\ Replacing(q)' <=> Replacing(q)
           /\ Saves(q)' <=> Saves(q)
           /\ Busy(q)' <=> Busy(q)
  BY <1>1, Others DEF CookieInv
<1>3. ~Carries(p, proc[p].c)' /\ ~Replacing(p)' /\ ~Saves(p)' /\ ~Busy(p)'
  BY <1>1, <1>2 DEF Carries, Replacing, Saves, Busy, r
<1>4. /\ runs' \in [Cookies -> Nat]
      /\ proc[p].st # "action" => runs' = runs
      /\ \A c \in Cookies : ~Carries(p, c) => runs'[c] = runs[c]
      /\ \A c \in Cookies : Carries(p, c) => runs'[c] \in {runs[c], runs[c] + 1}
  BY <1>1 DEF CookieInv, CTypeOK, Tasks, Carries
<1>5. CTypeOK'
  BY <1>1, <1>2, <1>4 DEF CookieInv, CTypeOK
<1>6. LinesOK'
  <2>1. \A q \in Workers : Busy(q)' => \A l \in proc'[q].new.lines : mailed[l.id] # None /\ l.born = mailed[l.id]
    BY <1>2, <1>3 DEF CookieInv, LinesOK
  <2>2. \A q \in Workers : proc'[q].st = "action" => mailed[proc'[q].c] # None
    BY <1>1, <1>2 DEF CookieInv, LinesOK
  <2>3. \A i \in Inodes : \A l \in content'[i].lines : mailed[l.id] # None /\ l.born = mailed[l.id]
    BY DEF CookieInv, LinesOK
  <2>4. \A c \in Cookies : runs'[c] # 0 => mailed[c] # None
    <3>1. \A c \in Cookies : Carries(p, c) => mailed[c] # None
      BY DEF CookieInv, LinesOK, Carries
    <3> QED
      BY <1>4, <3>1 DEF CookieInv, LinesOK
  <2> QED
    BY <2>1, <2>2, <2>3, <2>4 DEF LinesOK
<1>7. SaveOK'
  BY <1>1, <1>2, <1>3 DEF CookieInv, SaveOK
<1>8. \A q \in Workers : /\ \A c : Carries(q, c)' <=> q # p /\ Carries(q, c)
                         /\ Replacing(q)' => Replacing(q) /\ proc'[q] = proc[q]
  BY <1>1, <1>2, <1>3 DEF Carries
<1>9. \A c : Here(c)' <=> Here(c)
  BY DEF Here
<1>10. \A c : Usable(c)' => Usable(c)
  BY <1>8, <1>9 DEF Usable
<1>11. OnceInv'
  <2> SUFFICES ASSUME NEW c \in Cookies \ torn
               PROVE  /\ runs'[c] <= 1
                      /\ \A q, s \in Workers : Carries(q, c)' /\ Carries(s, c)' => q = s
                      /\ (\E q \in Workers : Carries(q, c)') => runs'[c] = 0
                      /\ runs'[c] # 0 \/ (\E q \in Workers : Carries(q, c)') => ~Usable(c)'
    BY DEF OnceInv
  <2>1. /\ runs[c] <= 1
        /\ \A q, s \in Workers : Carries(q, c) /\ Carries(s, c) => q = s
        /\ (\E q \in Workers : Carries(q, c)) => runs[c] = 0
        /\ runs[c] # 0 \/ (\E q \in Workers : Carries(q, c)) => ~Usable(c)
    BY DEF CookieInv, OnceInv
  <2>2. CASE ~Carries(p, c)
    <3>1. runs'[c] = runs[c]
      BY <1>4, <2>2
    <3> QED
      BY <1>8, <1>10, <2>1, <3>1
  <2>3. CASE Carries(p, c)
    <3>1. runs[c] = 0 /\ ~Usable(c) /\ \A q \in Workers : Carries(q, c) => q = p
      BY <2>1, <2>3
    <3>2. runs'[c] \in {0, 1}
      BY <1>4, <2>3, <3>1
    <3> QED
      BY <1>8, <1>10, <3>1, <3>2
  <2> QED
    BY <2>2, <2>3
<1>12. GoodInv'
  <2> SUFFICES ASSUME NEW c \in Cookies, Good(c)'
               PROVE  /\ \A q \in Workers : Replacing(q)' => c \in Live(proc'[q].new)
                      /\ (\A q \in Workers : proc'[q].st # "rename") => Here(c)'
    BY DEF GoodInv
  <2>1. mailed[c] # None /\ c \notin torn \cup ended' /\ runs'[c] = 0 /\ day < mailed[c] + Expiration
    BY DEF Good
  <2>2. ~Carries(p, c)
    <3> SUFFICES ASSUME Carries(p, c) PROVE FALSE
      OBVIOUS
    <3>1. runs' # runs /\ proc[p].st = "action" /\ proc[p].c = c
      BY <2>1 DEF Carries
    <3>2. runs'[c] = runs[c] + 1 /\ runs[c] \in Nat
      BY <3>1 DEF CookieInv, CTypeOK
    <3> QED
      BY <2>1, <3>2
  <2>3. Good(c)
    BY <1>4, <1>8, <2>1, <2>2 DEF Good
  <2>4. proc[p].st # "rename"
    BY <2>1 DEF Sent
  <2>5. (\A q \in Workers : proc'[q].st # "rename") => \A q \in Workers : proc[q].st # "rename"
    BY <1>2, <2>4
  <2> QED
    BY <1>8, <1>9, <2>3, <2>5 DEF CookieInv, GoodInv
<1> QED
  BY <1>5, <1>6, <1>7, <1>11, <1>12 DEF CookieInv

LEMMA ActionKeeps ==
  ASSUME CookieInv, NEW p \in Workers, Execute(p) \/ Deny(p)
  PROVE  CookieInv'
<1>1. /\ Busy(p) /\ proc[p] \in Tasks /\ proc[p].st = "action"
      /\ content \in [Inodes -> CookieFiles] /\ runs \in [Cookies -> Nat]
  BY BusyTask DEF Execute, Deny, CookieInv, Stages, CTypeOK
<1>2. End(p) /\ UNCHANGED <<name, content, day, mailed, torn>> /\ ended \subseteq ended'
  BY DEF Execute, Deny, disk
<1>3. CASE Execute(p)
  <2>1. runs' = [runs EXCEPT ![proc[p].c] = @ + 1]
    BY <1>3 DEF Execute
  <2>2. runs'[proc[p].c] = runs[proc[p].c] + 1 /\ runs[proc[p].c] \in Nat
    BY <1>1, <2>1 DEF Tasks
  <2>3. runs' # runs
    BY <2>2
  <2> QED
    BY <1>1, <1>2, <2>1, <2>3, EndKeeps
<1>4. CASE Deny(p)
  BY <1>1, <1>2, <1>4, EndKeeps DEF Deny
<1> QED
  BY <1>3, <1>4

LEMMA DieKeeps ==
  ASSUME CookieInv, NEW p \in Workers, Die(p)
  PROVE  CookieInv'
<1>1. /\ Busy(p) /\ End(p) /\ Keep(content) /\ UNCHANGED <<name, day, mailed, runs, torn>>
      /\ ended \subseteq ended' /\ (proc[p].st = "action" => proc[p].c \in ended')
      /\ (proc[p].st = "rename" => Sent \subseteq ended')
  BY DEF Die
<1>2. /\ content' \in [Inodes -> CookieFiles]
      /\ \A i \in Inodes : content'[i].lines \subseteq content[i].lines
      /\ name # None => content'[name] = content[name]
  BY <1>1, KeptFiles DEF CookieInv, CTypeOK, Empty
<1> QED
  BY <1>1, <1>2, EndKeeps

LEMMA NextDayKeeps ==
  ASSUME CookieInv, NextDay
  PROVE  CookieInv'
<1>1. /\ day \in Nat /\ day' = day + 1
      /\ UNCHANGED <<name, content, proc, mailed, runs, torn, ended>>
  BY DEF NextDay, disk, ghost, CookieInv, CTypeOK
<1>2. CTypeOK' /\ LinesOK' /\ SaveOK'
  BY <1>1 DEF CookieInv, CTypeOK, LinesOK, SaveOK, Busy, Saves
<1>3. \A p \in Workers : (\A c : Carries(p, c)' <=> Carries(p, c)) /\ (Replacing(p)' <=> Replacing(p))
  BY <1>1 DEF Carries, Replacing
<1>4. \A c : (Here(c)' <=> Here(c)) /\ (Usable(c)' <=> Usable(c))
  BY <1>1 DEF Here, Usable, Replacing
<1>5. OnceInv'
  BY <1>1, <1>3, <1>4, OnceStep DEF CookieInv
<1>6. \A c \in Cookies : Good(c)' => Good(c)
  <2> SUFFICES ASSUME NEW c \in Cookies, Good(c)' PROVE Good(c)
    OBVIOUS
  <2>1. mailed[c] \in Nat /\ Expiration \in Nat /\ day + 1 < mailed[c] + Expiration
    BY ConfirmationAssumption, <1>1 DEF Good, CookieInv, CTypeOK
  <2>2. day < mailed[c] + Expiration
    BY <1>1, <2>1
  <2> QED
    BY <1>1, <1>3, <2>2 DEF Good
<1>7. GoodInv'
  BY <1>1, <1>3, <1>4, <1>6 DEF CookieInv, GoodInv
<1> QED
  BY <1>2, <1>5, <1>7 DEF CookieInv

-----------------------------------------------------------------------------
LEMMA CookieInit ==
  ASSUME CInit
  PROVE  CookieInv
<1>1. MaxDay \in Nat /\ {0, MaxDay} \subseteq Nat /\ 1 \in Inodes
  BY ConfirmationAssumption, FS_CardinalityType DEF Inodes
<1>2. PICK s \in {0, MaxDay} : content = [i \in Inodes |-> IF i = 1 THEN [Empty EXCEPT !.stamp = s] ELSE Empty]
  BY DEF CInit
<1>3. \A i \in Inodes : content[i] \in CookieFiles /\ content[i].lines = {}
  BY <1>1, <1>2 DEF Empty, CookieFiles
<1>4. content \in [Inodes -> CookieFiles]
  BY <1>2, <1>3
<1>5. /\ name = 1 /\ day = 0 /\ torn = {} /\ ended = {} /\ mailed = [c \in Cookies |-> None]
      /\ runs = [c \in Cookies |-> 0] /\ proc = [p \in Workers |-> CIdle]
  BY DEF CInit
<1>6. \A p \in Workers : proc[p] = CIdle /\ proc[p].st = "idle" /\ ~Busy(p) /\ ~Saves(p)
  BY <1>5 DEF CIdle, Busy, Saves
<1>7. CTypeOK
  <2>1. proc \in [Workers -> {CIdle} \cup Tasks] /\ \A p \in Workers : proc[p].st \notin {"lock", "check", "relock", "save", "get"}
    BY <1>5, <1>6
  <2> QED
    BY <1>1, <1>4, <1>5, <2>1 DEF CTypeOK
<1>8. LinesOK /\ SaveOK
  BY <1>3, <1>5, <1>6 DEF LinesOK, SaveOK
<1>9. OnceInv
  BY <1>5, <1>6 DEF OnceInv, Carries
<1>10. GoodInv
  BY <1>5 DEF GoodInv, Good
<1> QED
  BY <1>7, <1>8, <1>9, <1>10 DEF CookieInv

LEMMA CookieStep ==
  ASSUME CookieInv, [CNext]_cvars
  PROVE  CookieInv'
<1>1. CASE UNCHANGED cvars
  <2>1. UNCHANGED <<name, content, proc, day, mailed, runs, torn, ended>>
    BY <1>1 DEF cvars, disk, ghost
  <2>2. CTypeOK' /\ LinesOK' /\ SaveOK'
    BY <2>1 DEF CookieInv, CTypeOK, LinesOK, SaveOK, Busy, Saves
  <2>3. OnceInv' /\ GoodInv'
    BY <2>1 DEF CookieInv, OnceInv, GoodInv, Good, Carries, Replacing, Here, Usable
  <2> QED
    BY <2>2, <2>3 DEF CookieInv
<1>2. CASE NextDay
  BY <1>2, NextDayKeeps
<1>3. ASSUME NEW p \in Workers, AskUser(p) \/ Answer(p) \/ Open(p) \/ TakeLock(p) \/ LockRefused(p)
      PROVE  CookieInv'
  BY <1>3, AskUserKeeps, AnswerKeeps, OpenKeeps, LockNowKeeps, LockRefusedKeeps
<1>4. ASSUME NEW p \in Workers, NoPurge(p) \/ CopyYoung(p) \/ Unlink(p) \/ Rename(p)
      PROVE  CookieInv'
  BY <1>4, NoPurgeKeeps, CopyYoungKeeps, UnlinkKeeps, RenameKeeps
<1>5. ASSUME NEW p \in Workers, Save(p) \/ Found(p) \/ NotFound(p) \/ Execute(p) \/ Deny(p) \/ Die(p)
      PROVE  CookieInv'
  BY <1>5, SaveKeeps, FoundKeeps, NotFoundKeeps, ActionKeeps, DieKeeps
<1> QED
  BY <1>1, <1>2, <1>3, <1>4, <1>5 DEF CNext

LEMMA GoodIsCurrent ==
  ASSUME CookieInv PROVE CookieGoodOnce
<1> SUFFICES ASSUME NEW c \in Cookies \ torn
             PROVE  /\ runs[c] <= 1
                    /\ c \in Sent \ (ended \cup Carried) /\ runs[c] = 0 /\ day < mailed[c] + Expiration =>
                         c \in Current
  BY DEF CookieGoodOnce
<1>1. runs[c] <= 1
  BY DEF CookieInv, OnceInv
<1>2. ASSUME c \in Sent \ (ended \cup Carried), runs[c] = 0, day < mailed[c] + Expiration
      PROVE  c \in Current
  <2>1. Good(c)
    BY <1>2 DEF Good, Sent, Carried, Carries
  <2>2. /\ \A p \in Workers : Replacing(p) => c \in Live(proc[p].new)
        /\ (\A p \in Workers : proc[p].st # "rename") => Here(c)
    BY <2>1 DEF CookieInv, GoodInv
  <2> QED
    BY <2>2 DEF Current, Here, Replacing
<1> QED
  BY <1>1, <1>2

\* A process that works on the cookie file has one open, and what it knows and
\* the files hold are of the kinds confirmation.c uses.
THEOREM CookieTypes ==
  CSpec => []CTypeOK
<1>1. CInit => CookieInv
  BY CookieInit
<1>2. CookieInv /\ [CNext]_cvars => CookieInv'
  BY CookieStep
<1>3. CookieInv => CTypeOK
  BY DEF CookieInv
<1> QED
  BY <1>1, <1>2, <1>3, PTL DEF CSpec

\* A request that was kept under a cookie is executed at most once, and until
\* it is, or has expired, the cookie is good: however many processes add, look
\* up, delete and purge cookies at once, and whenever one of them dies, unless
\* the cookie was read or saved while the file was being replaced.
THEOREM CookiesGoodOnce ==
  CSpec => []CookieGoodOnce
<1>1. CInit => CookieInv
  BY CookieInit
<1>2. CookieInv /\ [CNext]_cvars => CookieInv'
  BY CookieStep
<1>3. CookieInv => CookieGoodOnce
  BY GoodIsCurrent
<1> QED
  BY <1>1, <1>2, <1>3, PTL DEF CSpec

-----------------------------------------------------------------------------
(* ListConfig: the inductive invariant *)

\* Settings, files, tasks and memories
IsSettings(v) == v = [x \in DOMAIN Default |-> v[x]]
IsFile(f)     == f = [n |-> f.n, cut |-> f.cut, set |-> f.set, time |-> f.time]
IsMemory(m)   == m = [set |-> m.set, seen |-> m.seen, all |-> m.all]
Jobs ==
  [st : {"read", "judge", "write", "create", "fill"}, r : plan.requests, from : Nat, time : Nat]
KindsOK ==
  /\ job \in [Listprocs -> {NoJob} \union Jobs]
  /\ mem = [p \in Listprocs |-> mem[p]]
  /\ \A p \in Listprocs : IsMemory(mem[p]) /\ IsSettings(mem[p].set) /\ mem[p].seen \in Nat
  /\ file # NoFile => IsFile(file) /\ IsSettings(file.set) /\ file.time \in Nat \ {0}
  /\ IsSettings(ordered) /\ now \in Nat \ {0} /\ version \in Nat
  /\ \A p \in Listprocs : job[p] # NoJob => job[p].from <= version

\* The writer of the file is alone, and what it writes is what it remembers.
Writes(p) == job[p].st \in {"create", "fill"}
WriterOK ==
  /\ \A p, q \in Listprocs : Writes(p) /\ Writes(q) => p = q
  /\ \A p \in Listprocs : Writes(p) => ~Whole
  /\ \A p \in Listprocs : job[p].st = "fill" => file # NoFile /\ file.set = Written(mem[p].set)

\* Settings that differ from those they are copied from by the marks that stick
\* and by the restricted commands
Copies(v, w, events) ==
  /\ Same(v, w) /\ w.marks \subseteq v.marks
  /\ "sticky" \in events \/ v.marks = w.marks

\* Who remembers the time of the file remembers its settings; so does who is
\* about to judge a request by them.
KnownOK ==
  \A p \in Listprocs : "blurred" \notin log /\ Whole =>
    /\ mem[p].seen = file.time /\ job[p].st \in {"idle", "read", "judge"} =>
         Copies(mem[p].set, file.set, log)
    /\ job[p].st = "judge" /\ job[p].from = version => Copies(mem[p].set, file.set, log)

\* The file holds what was asked for when nobody writes it, and whoever is to
\* write it will make it so.
Clean   == log \intersect {"overlap", "blurred", "died"} = {}
HeldOK  == Clean /\ ~Writing => Whole /\ Copies(file.set, ordered, log)
NextOK  ==
  \A p \in Listprocs :
    Clean /\ job[p].st \in {"write", "create", "fill"} /\ job[p].from = version
          /\ (\A q \in Listprocs : Writes(q) => q = p) =>
      Copies(Written(mem[p].set), Written(Option(ordered, Manager(p), job[p].r)), log)

ConfigInv == KindsOK /\ WriterOK /\ KnownOK /\ HeldOK /\ NextOK

-----------------------------------------------------------------------------
(* Settings *)

LEMMA Fields ==
  DOMAIN Default =
    {"subs", "post", "stats", "review", "files", "hidden", "published", "archive", "moderated",
     "control", "digest", "reply", "flags", "moderators", "managers", "errors", "marks",
     "limits", "passwd", "threads", "filter", "web"}
  BY DEF Default

\* Two settings that are the same but for marks and limits, and how their
\* marks compare
Twins(v, w, a, b) ==
  /\ IsSettings(a) /\ IsSettings(b) /\ Same(a, b)
  /\ w.marks \subseteq v.marks => b.marks \subseteq a.marks
  /\ v.marks = w.marks => a.marks = b.marks

\* One value is replaced by the same one in both.
LEMMA SetValue ==
  ASSUME NEW v, NEW w, IsSettings(v), IsSettings(w), Same(v, w),
         NEW k \in DOMAIN Default \ {"marks", "limits"}, NEW e
  PROVE  Twins(v, w, [v EXCEPT ![k] = e], [w EXCEPT ![k] = e])
  BY Fields DEF IsSettings, Same, Twins

\* So are marks and limits.
LEMMA SetMarks ==
  ASSUME NEW v, NEW w, IsSettings(v), IsSettings(w), Same(v, w), NEW m
  PROVE  /\ Twins(v, w, [v EXCEPT !.marks = @ \union {m}], [w EXCEPT !.marks = @ \union {m}])
         /\ Twins(v, w, [v EXCEPT !.marks = @ \ {m}], [w EXCEPT !.marks = @ \ {m}])
         /\ Twins(v, w, [v EXCEPT !.limits = @ \union {m}], [w EXCEPT !.limits = @ \union {m}])
  BY Fields DEF IsSettings, Same, Twins

LEMMA SameValues ==
  ASSUME NEW v, NEW w, IsSettings(v), IsSettings(w), Same(v, w)
  PROVE  /\ Twins(v, w, v, w)
         /\ \A k \in DOMAIN Default \ {"marks", "limits"} : v[k] = w[k]
  BY DEF IsSettings, Same, Twins

LEMMA LowerTwins ==
  ASSUME NEW v, NEW w, IsSettings(v), IsSettings(w), Same(v, w)
  PROVE  Twins(v, w, Lower(v), Lower(w))
  BY Fields DEF IsSettings, Same, Twins, Lower

LEMMA TwinsFollow ==
  ASSUME NEW v, NEW w, NEW a, NEW b, NEW c, NEW d, Twins(v, w, a, b), Twins(a, b, c, d)
  PROVE  Twins(v, w, c, d)
  BY DEF Twins

LEMMA SubscriptionTwins ==
  ASSUME NEW v, NEW w, IsSettings(v), IsSettings(w), Same(v, w), NEW how
  PROVE  Twins(v, w, Subscription(v, how), Subscription(w, how))
<1> DEFINE a == [v EXCEPT !.subs = how]
           b == [w EXCEPT !.subs = how]
<1>1. Twins(v, w, a, b)
  <2>1. "subs" \in DOMAIN Default \ {"marks", "limits"}
    BY Fields
  <2> QED
    BY <2>1, SetValue
<1>2. Twins(a, b, Lower(a), Lower(b))
  BY <1>1, LowerTwins DEF Twins
<1> QED
  BY <1>1, <1>2, TwinsFollow DEF Subscription

LEMMA VisibilityTwins ==
  ASSUME NEW v, NEW w, IsSettings(v), IsSettings(w), Same(v, w), NEW mgr, NEW how
  PROVE  Twins(v, w, Visibility(v, mgr, how), Visibility(w, mgr, how))
<1> DEFINE a == [v EXCEPT !.hidden = TRUE, !.published = FALSE]
           b == [w EXCEPT !.hidden = TRUE, !.published = FALSE]
<1>1. Twins(v, w, a, b)
  BY Fields DEF IsSettings, Same, Twins
<1>2. Twins(a, b, Lower(a), Lower(b))
  BY <1>1, LowerTwins DEF Twins
<1>3. Twins(v, w, Lower(a), Lower(b))
  BY <1>1, <1>2, TwinsFollow
<1> HIDE DEF a, b
<1>4. {"hidden", "published"} \subseteq DOMAIN Default \ {"marks", "limits"}
  BY Fields
<1>5. /\ Twins(v, w, [v EXCEPT !.hidden = FALSE], [w EXCEPT !.hidden = FALSE])
      /\ \A e : Twins(v, w, [v EXCEPT !.published = e], [w EXCEPT !.published = e])
      /\ Twins(v, w, v, w)
  BY <1>4, SetValue, SameValues
<1>6. v.published = w.published /\ v.control = w.control
  BY Fields, SameValues
<1>7. CASE how = "hidden"
  <2>1. Visibility(v, mgr, how) = Lower(a) /\ Visibility(w, mgr, how) = Lower(b)
    BY <1>7 DEF Visibility, a, b
  <2> QED
    BY <2>1, <1>3
<1>8. CASE how # "hidden"
  BY <1>5, <1>6, <1>8 DEF Visibility
<1> QED
  BY <1>7, <1>8

\* Whatever an option does depends on no mark and no restricted command.
LEMMA OptionTwins ==
  ASSUME NEW v, NEW w, IsSettings(v), IsSettings(w), Same(v, w), NEW mgr, NEW o
  PROVE  Twins(v, w, Option(v, mgr, o), Option(w, mgr, o))
<1>1. Twins(v, w, v, w)
  BY SameValues
<1>2. \A k \in DOMAIN Default \ {"marks", "limits"} : v[k] = w[k]
  BY SameValues
<1>3. \A e : \A k \in DOMAIN Default \ {"marks", "limits"} :
        Twins(v, w, [v EXCEPT ![k] = e], [w EXCEPT ![k] = e])
  BY SetValue
<1>4. CASE o.op \in {"subs", "visibility"}
  <2>1. CASE o.op = "subs"
    BY <2>1, SubscriptionTwins DEF Option
  <2>2. CASE o.op = "visibility"
    BY <2>2, VisibilityTwins DEF Option
  <2> QED
    BY <1>4, <2>1, <2>2
<1>5. CASE o.op \in {"wide-open", "moderated", "unmoderated", "remove-moderator"}
  <2>1. CASE o.op = "wide-open"
    <3>1. Option(v, mgr, o) = WideOpen(v) /\ Option(w, mgr, o) = WideOpen(w)
      BY <2>1 DEF Option
    <3> DEFINE Wide(u) ==
                 [x \in DOMAIN Default |->
                    IF x \in {"stats", "review", "files", "post"} THEN "all"
                    ELSE IF x = "hidden" THEN FALSE ELSE IF x = "subs" THEN "open" ELSE u[x]]
    <3>2. WideOpen(v) = Wide(v) /\ WideOpen(w) = Wide(w)
      BY Fields DEF WideOpen, IsSettings
    <3>3. Twins(v, w, Wide(v), Wide(w))
      BY Fields DEF IsSettings, Same, Twins
    <3> QED
      BY <3>1, <3>2, <3>3
  <2>2. CASE o.op = "moderated"
    <3>1. Option(v, mgr, o) = AddModerator(v, o.arg) /\ Option(w, mgr, o) = AddModerator(w, o.arg)
      BY <2>2 DEF Option
    <3> DEFINE a == [v EXCEPT !.moderated = TRUE]
               b == [w EXCEPT !.moderated = TRUE]
               e == v.moderators \union {o.arg}
    <3>2. /\ v.moderators = w.moderators
          /\ {"moderated", "moderators"} \subseteq DOMAIN Default \ {"marks", "limits"}
      BY <1>2, Fields
    <3>3. Twins(v, w, a, b)
      BY <1>3, <3>2
    <3> HIDE DEF a, b, e
    <3>4. Twins(a, b, [a EXCEPT !.moderators = e], [b EXCEPT !.moderators = e])
      <4>1. IsSettings(a) /\ IsSettings(b) /\ Same(a, b)
        BY <3>3 DEF Twins
      <4> QED
        BY <3>2, <4>1, SetValue
    <3>5. AddModerator(v, o.arg) = [a EXCEPT !.moderators = e]
          /\ AddModerator(w, o.arg) = [b EXCEPT !.moderators = e]
      BY <3>2, Fields DEF AddModerator, IsSettings, a, b, e
    <3> QED
      BY <3>1, <3>3, <3>4, <3>5, TwinsFollow
  <2>3. CASE o.op = "unmoderated"
    <3>1. Option(v, mgr, o) = Unmoderated(v) /\ Option(w, mgr, o) = Unmoderated(w)
      BY <2>3 DEF Option
    <3> QED
      BY <3>1, Fields DEF Unmoderated, IsSettings, Same, Twins
  <2>4. CASE o.op = "remove-moderator"
    <3>1. Option(v, mgr, o) = DropModerator(v, o.arg) /\ Option(w, mgr, o) = DropModerator(w, o.arg)
      BY <2>4 DEF Option
    <3>2. /\ v.moderated = w.moderated /\ v.moderators = w.moderators
          /\ "moderators" \in DOMAIN Default \ {"marks", "limits"}
      BY <1>2, Fields
    <3> QED
      BY <1>1, <1>3, <3>1, <3>2 DEF DropModerator
  <2> QED
    BY <1>5, <2>1, <2>2, <2>3, <2>4
<1>6. CASE o.op \in {"comment", "mark", "unmark", "host", "restrict"}
  <2>1. \A m : /\ Twins(v, w, [v EXCEPT !.marks = @ \union {m}], [w EXCEPT !.marks = @ \union {m}])
               /\ Twins(v, w, [v EXCEPT !.marks = @ \ {m}], [w EXCEPT !.marks = @ \ {m}])
               /\ Twins(v, w, [v EXCEPT !.limits = @ \union {m}], [w EXCEPT !.limits = @ \union {m}])
    BY SetMarks
  <2>2. \A m, on : Twins(v, w, Mark(v, m, on), Mark(w, m, on))
    <3> SUFFICES ASSUME NEW m, NEW on PROVE Twins(v, w, Mark(v, m, on), Mark(w, m, on))
      OBVIOUS
    <3>1. CASE on
      BY <2>1, <3>1 DEF Mark
    <3>2. CASE ~on
      BY <2>1, <3>2 DEF Mark
    <3> QED
      BY <3>1, <3>2
  <2>3. CASE o.op = "comment"
    BY <2>2, <2>3 DEF Option, Describe
  <2>4. CASE o.op = "mark"
    BY <2>2, <2>4 DEF Option
  <2>5. CASE o.op = "unmark"
    BY <2>2, <2>5 DEF Option
  <2>6. CASE o.op = "host"
    <3>1. Option(v, mgr, o) = Host(v, mgr, o.arg) /\ Option(w, mgr, o) = Host(w, mgr, o.arg)
      BY <2>6 DEF Option
    <3> QED
      BY <1>1, <2>2, <3>1 DEF Host
  <2>7. CASE o.op = "restrict"
    BY <2>1, <2>7 DEF Option, RestrictCommand
  <2> QED
    BY <1>6, <2>3, <2>4, <2>5, <2>6, <2>7
<1>7. CASE o.op \in {"send", "no-archive", "stats", "review", "files", "digest", "reply"}
  <2>1. {"post", "archive", "stats", "review", "files", "digest", "reply"}
          \subseteq DOMAIN Default \ {"marks", "limits"}
    BY Fields
  <2> QED
    BY <1>3, <1>7, <2>1 DEF Option, SendBy, DropArchive, Right, Digest, Reply
<1>8. CASE o.op \in {"managers", "errors", "remove-manager", "remove-errors", "confirm",
                     "dont-confirm"}
  <2>1. {"managers", "errors", "flags"} \subseteq DOMAIN Default \ {"marks", "limits"}
    BY Fields
  <2>2. v.managers = w.managers /\ v.errors = w.errors /\ v.flags = w.flags
    BY <1>2, <2>1
  <2> QED
    BY <1>3, <1>8, <2>1, <2>2 DEF Option, AddPerson, DropPerson, Confirm
<1>9. CASE o.op \in {"archive", "control", "set", "unset"}
  <2>1. {"archive", "control", "flags"} \subseteq DOMAIN Default \ {"marks", "limits"}
    BY Fields
  <2>2. v.archive = w.archive /\ v.control = w.control /\ v.flags = w.flags
    BY <1>2, <2>1
  <2> QED
    BY <1>1, <1>3, <1>9, <2>1, <2>2 DEF Option, Archive, Control, Switch
<1>10. CASE o.op \in {"filter", "web", "threads", "password"}
  <2>1. {"filter", "web", "archive", "threads", "passwd", "control"}
          \subseteq DOMAIN Default \ {"marks", "limits"}
    BY Fields
  <2>2. v.archive = w.archive /\ v.control = w.control
    BY <1>2, <2>1
  <2> QED
    BY <1>1, <1>3, <1>10, <2>1, <2>2 DEF Option, Filter, Web, Threads, Password
<1>11. CASE o.op \notin {"subs", "visibility", "wide-open", "moderated", "unmoderated",
                        "remove-moderator", "comment", "mark", "unmark", "host", "restrict",
                        "send", "no-archive", "stats", "review", "files", "digest", "reply",
                        "managers", "errors", "remove-manager", "remove-errors", "confirm",
                        "dont-confirm", "archive", "control", "set", "unset", "filter", "web",
                        "threads", "password"}
  <2>1. Option(v, mgr, o) = v /\ Option(w, mgr, o) = w
    BY <1>11 DEF Option
  <2> QED
    BY <1>1, <2>1
<1> QED
  BY <1>4, <1>5, <1>6, <1>7, <1>8, <1>9, <1>10, <1>11

LEMMA WrittenTwins ==
  ASSUME NEW v, NEW w, IsSettings(v), IsSettings(w), Same(v, w)
  PROVE  Twins(v, w, Written(v), Written(w))
<1>1. /\ v.moderated = w.moderated /\ v.moderators = w.moderators
      /\ "moderators" \in DOMAIN Default \ {"marks", "limits"}
  BY Fields, SameValues
<1> DEFINE e == IF v.moderated THEN v.moderators ELSE {}
<1>2. Written(v) = [v EXCEPT !.moderators = e] /\ Written(w) = [w EXCEPT !.moderators = e]
  BY <1>1 DEF Written
<1> HIDE DEF e
<1> QED
  BY <1>1, <1>2, SetValue

LEMMA LoadWhole ==
  ASSUME NEW v, NEW f, IsSettings(v), IsSettings(f.set), f.n = 4
  PROVE  /\ IsSettings(LoadFile(v, f)) /\ Same(LoadFile(v, f), f.set)
         /\ f.set.marks \subseteq LoadFile(v, f).marks
<1>1. \A x \in DOMAIN Default : Group(x) \in {1, 2, 3, 4} /\ Group(x) <= f.n
  BY DEF Group
<1>2. \A x \in DOMAIN v : LoadFile(v, f)[x] = ReadLine(x, Reset(v)[x], f.set[x])
  BY <1>1 DEF LoadFile, IsSettings
<1>3. DOMAIN v = DOMAIN Default /\ DOMAIN f.set = DOMAIN Default
  BY DEF IsSettings
<1>4. \A x \in People : x \in DOMAIN Default => Reset(v)[x] = {}
  BY <1>3 DEF Reset
<1>5. IsSettings(LoadFile(v, f))
  BY <1>3 DEF LoadFile, IsSettings
<1>6. Same(LoadFile(v, f), f.set)
  <2> SUFFICES ASSUME NEW x \in DOMAIN Default, x \notin {"marks", "limits"}
               PROVE  LoadFile(v, f)[x] = f.set[x]
    BY <1>3 DEF Same, LoadFile
  <2>1. CASE x \in People
    <3>1. LoadFile(v, f)[x] = {} \union f.set[x]
      BY <1>2, <1>3, <1>4, <2>1 DEF ReadLine
    <3> QED
      BY <3>1
  <2>2. CASE x \notin People
    BY <1>2, <1>3, <2>2 DEF ReadLine
  <2> QED
    BY <2>1, <2>2
<1>7. f.set.marks \subseteq LoadFile(v, f).marks
  BY <1>2, <1>3, Fields DEF ReadLine
<1> QED
  BY <1>5, <1>6, <1>7

\* Anything read is settings.
LEMMA LoadType ==
  ASSUME NEW v, NEW f, IsSettings(v)
  PROVE  IsSettings(LoadFile(v, f))
  BY DEF LoadFile, IsSettings

LEMMA OptionType ==
  ASSUME NEW v, IsSettings(v), NEW mgr, NEW o
  PROVE  IsSettings(Option(v, mgr, o)) /\ IsSettings(Written(v))
<1>1. Same(v, v)
  BY DEF Same
<1> QED
  BY <1>1, OptionTwins, WrittenTwins DEF Twins

LEMMA CopiesFollow ==
  ASSUME NEW u, NEW v, NEW w, NEW s, NEW t, IsSettings(u), IsSettings(v), IsSettings(w),
         Copies(u, v, s), Copies(v, w, s), s \subseteq t
  PROVE  Copies(u, w, t)
  BY DEF Copies, Same, IsSettings

LEMMA CopiesOption ==
  ASSUME NEW v, NEW w, NEW s, NEW t, IsSettings(v), IsSettings(w),
         Copies(v, w, s), s \subseteq t, NEW mgr, NEW o
  PROVE  Copies(Written(Option(v, mgr, o)), Written(Option(w, mgr, o)), t)
<1> DEFINE a == Option(v, mgr, o)
           b == Option(w, mgr, o)
<1>1. Twins(v, w, a, b)
  BY OptionTwins DEF Copies
<1> HIDE DEF a, b
<1>2. Twins(a, b, Written(a), Written(b))
  BY <1>1, WrittenTwins DEF Twins
<1>3. Twins(v, w, Written(a), Written(b))
  BY <1>1, <1>2, TwinsFollow
<1> QED
  BY <1>3 DEF Twins, Copies, a, b

-----------------------------------------------------------------------------
(* Kinds *)

\* A file is there, or it is not.
LEMMA FilesAreRecords ==
  ASSUME NEW n, NEW cut, NEW set, NEW time
  PROVE  NoFile # [n |-> n, cut |-> cut, set |-> set, time |-> time]
  BY DEF NoFile

LEMMA JobKinds ==
  ASSUME KindsOK, NEW p \in Listprocs, job[p].st # "idle"
  PROVE  job[p] \in Jobs /\ job[p] # NoJob /\ job[p].from <= version
  BY DEF KindsOK, Jobs, NoJob

LEMMA NoJobIdle == NoJob \notin Jobs /\ NoJob.st = "idle"
  BY DEF NoJob, Jobs

LEMMA FreshKinds == IsMemory(Fresh) /\ IsSettings(Fresh.set) /\ Fresh.seen = 0
<1>1. IsSettings(Default)
  BY DEF IsSettings, Default
<1> QED
  BY <1>1 DEF Fresh, IsMemory

\* The part of a process goes on, or ends.
LEMMA PartKinds ==
  ASSUME KindsOK, NEW p \in Listprocs, NEW r, r = NoJob \/ (r \in Jobs /\ r.from <= version),
         job' = [job EXCEPT ![p] = r], plan' = plan, version' \in Nat, version <= version'
  PROVE  /\ job' \in [Listprocs -> {NoJob} \union Jobs']
         /\ \A q \in Listprocs : job'[q] # NoJob => job'[q].from <= version'
<1>1. Jobs' = Jobs
  BY DEF Jobs
<1>2. job' \in [Listprocs -> {NoJob} \union Jobs]
  BY DEF KindsOK
<1>3. ASSUME NEW q \in Listprocs, job'[q] # NoJob PROVE job'[q].from <= version'
  <2>1. job'[q] \in Jobs /\ job'[q].from <= version
    BY <1>2, <1>3 DEF KindsOK
  <2>2. job'[q].from \in Nat /\ version \in Nat
    BY <2>1 DEF Jobs, KindsOK
  <2> QED
    BY <2>1, <2>2
<1> QED
  BY <1>1, <1>2, <1>3

LEMMA MemKinds ==
  ASSUME KindsOK, NEW p \in Listprocs, NEW m, IsMemory(m), IsSettings(m.set), m.seen \in Nat,
         mem' = [mem EXCEPT ![p] = m]
  PROVE  /\ mem' = [q \in Listprocs |-> mem'[q]]
         /\ \A q \in Listprocs : IsMemory(mem'[q]) /\ IsSettings(mem'[q].set) /\ mem'[q].seen \in Nat
<1>1. mem = [q \in Listprocs |-> mem[q]]
  BY DEF KindsOK
<1>2. /\ mem' = [q \in Listprocs |-> mem'[q]]
      /\ \A q \in Listprocs : mem'[q] = IF q = p THEN m ELSE mem[q]
  BY <1>1
<1> QED
  BY <1>2 DEF KindsOK

LEMMA EndsKinds ==
  ASSUME KindsOK, NEW p \in Listprocs, Ends(p),
         UNCHANGED <<plan, file, now, ordered, version>>
  PROVE  KindsOK'
<1>1. version' \in Nat /\ version <= version'
  BY DEF KindsOK
<1>2. /\ job' \in [Listprocs -> {NoJob} \union Jobs']
      /\ \A q \in Listprocs : job'[q] # NoJob => job'[q].from <= version'
  BY <1>1, PartKinds DEF Ends
<1>3. /\ mem' = [q \in Listprocs |-> mem'[q]]
      /\ \A q \in Listprocs : IsMemory(mem'[q]) /\ IsSettings(mem'[q].set) /\ mem'[q].seen \in Nat
  <2>1. IsMemory(Fresh) /\ IsSettings(Fresh.set) /\ Fresh.seen \in Nat
    BY FreshKinds
  <2> QED
    BY <2>1, MemKinds DEF Ends
<1> QED
  BY <1>2, <1>3 DEF KindsOK, IsFile, IsSettings

\* A process takes its task a step further.
LEMMA NextStage ==
  ASSUME KindsOK, NEW p \in Listprocs, job[p].st # "idle",
         NEW st \in {"judge", "write", "create", "fill"}
  PROVE  LET r == [job[p] EXCEPT !.st = st]
         IN  /\ r \in Jobs /\ r.from <= version /\ r.st = st
             /\ r.r = job[p].r /\ r.from = job[p].from /\ r.time = job[p].time
<1>1. job[p] \in Jobs /\ job[p].from <= version
  BY JobKinds
<1> QED
  BY <1>1 DEF Jobs

LEMMA LookKinds ==
  ASSUME KindsOK, NEW p \in Listprocs, Look(p)
  PROVE  KindsOK'
<1>1. PICK r \in plan.requests :
        /\ mem' = [mem EXCEPT ![p] = Base(p, r)]
        /\ job' = [job EXCEPT ![p] =
             [st |-> IF Changed(Base(p, r)) THEN "read" ELSE "judge", r |-> r, from |-> version,
              time |-> IF file = NoFile THEN 0 ELSE file.time]]
  BY DEF Look
<1> DEFINE t == [st |-> IF Changed(Base(p, r)) THEN "read" ELSE "judge", r |-> r, from |-> version,
                 time |-> IF file = NoFile THEN 0 ELSE file.time]
<1>2. t \in Jobs /\ t.from <= version
  <2>1. version \in Nat /\ (file # NoFile => file.time \in Nat)
    BY DEF KindsOK
  <2> QED
    BY <2>1 DEF Jobs
<1>3. version' \in Nat /\ version <= version' /\ plan' = plan
  BY DEF KindsOK, Look
<1> HIDE DEF t
<1>4. /\ job' \in [Listprocs -> {NoJob} \union Jobs']
      /\ \A q \in Listprocs : job'[q] # NoJob => job'[q].from <= version'
  <2>1. job' = [job EXCEPT ![p] = t]
    BY <1>1 DEF t
  <2> QED
    BY <1>2, <1>3, <2>1, PartKinds
<1> DEFINE m == Base(p, r)
<1>5. IsMemory(m) /\ IsSettings(m.set) /\ m.seen \in Nat
  <2>1. CASE m = mem[p]
    BY <2>1 DEF KindsOK
  <2>2. CASE m = [Fresh EXCEPT !.all = TRUE]
    <3>1. m.set = Fresh.set /\ m.seen = 0 /\ IsMemory(m)
      BY <2>2 DEF Fresh, IsMemory
    <3> QED
      BY <3>1, FreshKinds
  <2> QED
    BY <2>1, <2>2 DEF Base
<1> HIDE DEF m
<1>6. mem' = [mem EXCEPT ![p] = m]
  BY <1>1 DEF m
<1>7. /\ mem' = [q \in Listprocs |-> mem'[q]]
      /\ \A q \in Listprocs : IsMemory(mem'[q]) /\ IsSettings(mem'[q].set) /\ mem'[q].seen \in Nat
  BY <1>5, <1>6, MemKinds
<1>8. UNCHANGED <<file, now, ordered, version>>
  BY DEF Look
<1> QED
  BY <1>4, <1>7, <1>8 DEF KindsOK, IsFile, IsSettings

LEMMA LoadMemory ==
  ASSUME KindsOK, NEW p \in Listprocs,
         mem' = [mem EXCEPT ![p].set = LoadFile(@, file), ![p].seen = job[p].time]
  PROVE  LET m == [set |-> LoadFile(mem[p].set, file), seen |-> job[p].time, all |-> mem[p].all]
         IN  mem' = [mem EXCEPT ![p] = m]
<1>1. mem[p] = [set |-> mem[p].set, seen |-> mem[p].seen, all |-> mem[p].all]
  BY DEF KindsOK, IsMemory
<1> DEFINE l == LoadFile(mem[p].set, file)
           t == job[p].time
           a == [mem EXCEPT ![p] = [mem[p] EXCEPT !.set = l]]
           m == [set |-> l, seen |-> t, all |-> mem[p].all]
<1>2. mem' = [a EXCEPT ![p] = [a[p] EXCEPT !.seen = t]]
  OBVIOUS
<1> HIDE DEF l, t
<1>3. mem = [q \in Listprocs |-> mem[q]]
  BY DEF KindsOK
<1>4. a[p] = [set |-> l, seen |-> mem[p].seen, all |-> mem[p].all]
  BY <1>1, <1>3
<1>5. [a[p] EXCEPT !.seen = t] = m
  BY <1>4
<1>6. [a EXCEPT ![p] = m] = [mem EXCEPT ![p] = m]
  <2> HIDE DEF m
  <2> QED
    BY <1>3
<1>7. mem' = [mem EXCEPT ![p] = m]
  BY <1>2, <1>5, <1>6
<1> QED
  BY <1>7 DEF l, t

LEMMA ReadKinds ==
  ASSUME KindsOK, NEW p \in Listprocs, Reread(p)
  PROVE  KindsOK'
<1>1. job[p].st = "read" /\ UNCHANGED <<plan, file, now, ordered, version>>
  BY DEF Reread
<1>2. CASE Ends(p)
  BY <1>1, <1>2, EndsKinds
<1>3. CASE /\ mem' = [mem EXCEPT ![p].set = LoadFile(@, file), ![p].seen = job[p].time]
           /\ job' = [job EXCEPT ![p].st = "judge"]
  <2> DEFINE m == [set |-> LoadFile(mem[p].set, file), seen |-> job[p].time, all |-> mem[p].all]
             t == [job[p] EXCEPT !.st = "judge"]
  <2>1. mem' = [mem EXCEPT ![p] = m]
    BY <1>3, LoadMemory
  <2>2. IsMemory(m) /\ IsSettings(m.set) /\ m.seen \in Nat
    <3>1. IsSettings(LoadFile(mem[p].set, file))
      BY LoadType DEF KindsOK
    <3>2. job[p].time \in Nat
      BY <1>1, JobKinds DEF Jobs
    <3> QED
      BY <3>1, <3>2 DEF IsMemory
  <2>3. t \in Jobs /\ t.from <= version
    BY <1>1, NextStage
  <2>4. job' = [job EXCEPT ![p] = t] /\ version' \in Nat /\ version <= version'
    BY <1>1, <1>3 DEF KindsOK
  <2> HIDE DEF m, t
  <2>5. /\ job' \in [Listprocs -> {NoJob} \union Jobs']
        /\ \A q \in Listprocs : job'[q] # NoJob => job'[q].from <= version'
    BY <1>1, <2>3, <2>4, PartKinds
  <2>6. /\ mem' = [q \in Listprocs |-> mem'[q]]
        /\ \A q \in Listprocs : IsMemory(mem'[q]) /\ IsSettings(mem'[q].set) /\ mem'[q].seen \in Nat
    BY <2>1, <2>2, MemKinds
  <2> QED
    BY <1>1, <2>5, <2>6 DEF KindsOK, IsFile, IsSettings
<1> QED
  BY <1>2, <1>3 DEF Reread

LEMMA JudgeKinds ==
  ASSUME KindsOK, NEW p \in Listprocs, Judge(p)
  PROVE  KindsOK'
<1>1. job[p].st = "judge" /\ UNCHANGED <<plan, file, now, ordered, version>>
  BY DEF Judge
<1>2. version' \in Nat /\ version <= version'
  BY <1>1 DEF KindsOK
<1> DEFINE t == [job[p] EXCEPT !.st = "write"]
<1>3. t \in Jobs /\ t.from <= version
  BY <1>1, NextStage
<1>4. job' = [job EXCEPT ![p] = t] \/ job' = [job EXCEPT ![p] = NoJob]
  BY DEF Judge
<1> HIDE DEF t
<1>5. /\ job' \in [Listprocs -> {NoJob} \union Jobs']
      /\ \A q \in Listprocs : job'[q] # NoJob => job'[q].from <= version'
  BY <1>1, <1>2, <1>3, <1>4, PartKinds
<1>6. /\ mem' = [q \in Listprocs |-> mem'[q]]
      /\ \A q \in Listprocs : IsMemory(mem'[q]) /\ IsSettings(mem'[q].set) /\ mem'[q].seen \in Nat
  <2>1. CASE UNCHANGED mem
    BY <2>1 DEF KindsOK, IsMemory, IsSettings
  <2>2. CASE mem' = [mem EXCEPT ![p].set = Option(@, Manager(p), job[p].r)]
    <3> DEFINE m == [mem[p] EXCEPT !.set = Option(mem[p].set, Manager(p), job[p].r)]
    <3>1. IsSettings(Option(mem[p].set, Manager(p), job[p].r))
      BY OptionType DEF KindsOK
    <3>2. IsMemory(m) /\ IsSettings(m.set) /\ m.seen \in Nat
      BY <3>1 DEF KindsOK, IsMemory
    <3>3. mem' = [mem EXCEPT ![p] = m]
      BY <2>2
    <3> HIDE DEF m
    <3> QED
      BY <3>2, <3>3, MemKinds
  <2> QED
    BY <2>1, <2>2 DEF Judge
<1> QED
  BY <1>1, <1>5, <1>6 DEF KindsOK, IsFile, IsSettings

\* The writer's steps
LEMMA WriterKinds ==
  ASSUME KindsOK, WriterOK, NEW p \in Listprocs,
         Move(p) \/ Create(p) \/ Part(p) \/ Close(p)
  PROVE  KindsOK'
<1>1. UNCHANGED <<plan, mem, now>> /\ job[p].st \in {"write", "create", "fill"}
  BY DEF Move, Create, Part, Close
<1>2. version' \in Nat /\ version <= version'
  <2>1. version \in Nat /\ (version' = version \/ version' = version + 1)
    BY DEF KindsOK, Move, Create, Part, Close
  <2> QED
    BY <2>1
<1>3. PICK r : (r = NoJob \/ (r \in Jobs /\ r.from <= version)) /\ job' = [job EXCEPT ![p] = r]
  <2>1. CASE Move(p)
    BY <1>1, <2>1, NextStage DEF Move
  <2>2. CASE Create(p)
    BY <1>1, <2>2, NextStage DEF Create
  <2>3. CASE Part(p)
    <3>1. job' = [job EXCEPT ![p] = job[p]]
      BY <2>3 DEF Part, KindsOK
    <3> QED
      BY <1>1, <3>1, JobKinds
  <2>4. CASE Close(p)
    BY <2>4 DEF Close
  <2> QED
    BY <2>1, <2>2, <2>3, <2>4
<1>4. /\ job' \in [Listprocs -> {NoJob} \union Jobs']
      /\ \A q \in Listprocs : job'[q] # NoJob => job'[q].from <= version'
  BY <1>1, <1>2, <1>3, PartKinds
<1>5. IsSettings(ordered)'
  <2>1. CASE Close(p)
    <3>1. IsSettings(Option(ordered, Manager(p), job[p].r))
      BY OptionType DEF KindsOK
    <3>2. ordered' = Written(Option(ordered, Manager(p), job[p].r))
      BY <2>1 DEF Close
    <3> QED
      BY <3>1, <3>2, OptionType
  <2>2. CASE UNCHANGED ordered
    BY <2>2 DEF KindsOK, IsSettings
  <2> QED
    BY <2>1, <2>2 DEF Move, Create, Part
<1>6. file' # NoFile => IsFile(file)' /\ IsSettings(file.set)' /\ file'.time \in Nat \ {0}
  <2>1. CASE Move(p)
    BY <2>1 DEF Move
  <2>2. CASE Create(p)
    <3>1. IsSettings(Written(mem[p].set))
      BY OptionType DEF KindsOK
    <3>2. file' = [n |-> 0, cut |-> FALSE, set |-> Written(mem[p].set), time |-> now]
      BY <2>2 DEF Create
    <3> QED
      BY <3>1, <3>2 DEF IsFile, KindsOK
  <2>3. CASE Part(p) \/ Close(p)
    <3>1. job[p].st = "fill" /\ file # NoFile
      BY <2>3 DEF Part, Close, WriterOK
    <3>2. IsFile(file) /\ IsSettings(file.set) /\ now \in Nat \ {0}
      BY <3>1 DEF KindsOK
    <3>3. PICK n, cut : file' = [file EXCEPT !.n = n, !.cut = cut, !.time = now]
      BY <2>3 DEF Part, Close
    <3>4. file' = [n |-> n, cut |-> cut, set |-> file.set, time |-> now]
      BY <3>2, <3>3 DEF IsFile
    <3> QED
      BY <3>2, <3>4 DEF IsFile
  <2> QED
    BY <2>1, <2>2, <2>3
<1>7. /\ mem' = [q \in Listprocs |-> mem'[q]] /\ now' \in Nat \ {0}
      /\ \A q \in Listprocs : IsMemory(mem'[q]) /\ IsSettings(mem'[q].set) /\ mem'[q].seen \in Nat
  BY <1>1 DEF KindsOK, IsMemory, IsSettings
<1> QED
  BY <1>2, <1>4, <1>5, <1>6, <1>7 DEF KindsOK

LEMMA TickKinds ==
  ASSUME KindsOK, Tick PROVE KindsOK'
<1>1. Jobs' = Jobs /\ now' \in Nat \ {0}
  BY DEF Tick, Jobs, KindsOK
<1> QED
  BY <1>1 DEF Tick, KindsOK, IsMemory, IsSettings, IsFile

LEMMA IdleKinds ==
  ASSUME KindsOK, NEW p \in Listprocs, Show(p) \/ Leave(p) \/ Killed(p)
  PROVE  KindsOK'
<1>1. UNCHANGED <<plan, file, now, ordered, version>>
  BY DEF Show, Leave, Killed
<1>2. CASE Ends(p)
  BY <1>1, <1>2, EndsKinds
<1>3. CASE Show(p)
  <2>1. version' \in Nat /\ version <= version'
    BY <1>1 DEF KindsOK
  <2>2. /\ job' \in [Listprocs -> {NoJob} \union Jobs']
        /\ \A q \in Listprocs : job'[q] # NoJob => job'[q].from <= version'
    BY <1>1, <1>3, <2>1, PartKinds DEF Show
  <2> QED
    BY <1>1, <1>3, <2>2 DEF Show, KindsOK, IsMemory, IsSettings, IsFile
<1> QED
  BY <1>2, <1>3 DEF Leave, Killed

-----------------------------------------------------------------------------
(* Steps that leave the file alone *)

Agree == WriterOK /\ KnownOK /\ HeldOK /\ NextOK

LEMMA CopiesLater ==
  ASSUME NEW v, NEW w, NEW s, NEW t, Copies(v, w, s), s \subseteq t
  PROVE  Copies(v, w, t)
  BY DEF Copies

LEMMA QuietKeeps ==
  ASSUME ConfigInv, NEW p \in Listprocs, UNCHANGED <<file, version, ordered>>, log \subseteq log',
         \A q \in Listprocs : q # p => mem'[q] = mem[q] /\ job'[q] = job[q],
         ~Writes(p)', Writes(p) => "died" \in log',
         "blurred" \notin log /\ Whole =>
           /\ mem'[p].seen = file.time /\ job'[p].st \in {"idle", "read", "judge"} =>
                Copies(mem'[p].set, file.set, log')
           /\ job'[p].st = "judge" /\ job'[p].from = version =>
                Copies(mem'[p].set, file.set, log'),
         (Clean' /\ job'[p].st = "write" /\ job'[p].from = version
           /\ (\A q \in Listprocs : Writes(q)' => q = p)) =>
           Copies(Written(mem'[p].set), Written(Option(ordered, Manager(p)', job'[p].r)), log')
  PROVE  Agree'
<1>1. /\ Clean' => Clean
      /\ "blurred" \notin log' => "blurred" \notin log
      /\ Whole' <=> Whole
  BY DEF Clean, Whole
<1>2. \A q \in Listprocs : Writes(q)' => q # p /\ Writes(q)
  BY DEF Writes
<1>3. Clean' => \A q \in Listprocs : Writes(q) => Writes(q)'
  BY DEF Writes, Clean
<1>4. WriterOK'
  <2>1. /\ \A q \in Listprocs : Writes(q) => ~Whole
        /\ \A q, r \in Listprocs : Writes(q) /\ Writes(r) => q = r
        /\ \A q \in Listprocs : job[q].st = "fill" => file # NoFile /\ file.set = Written(mem[q].set)
    BY DEF ConfigInv, WriterOK
  <2>2. \A q \in Listprocs : job'[q].st = "fill" => q # p
    BY DEF Writes
  <2> QED
    BY <1>1, <1>2, <2>1, <2>2 DEF WriterOK
<1>5. KnownOK'
  <2> SUFFICES ASSUME NEW q \in Listprocs, "blurred" \notin log', Whole
               PROVE  /\ mem'[q].seen = file.time /\ job'[q].st \in {"idle", "read", "judge"} =>
                           Copies(mem'[q].set, file.set, log')
                      /\ job'[q].st = "judge" /\ job'[q].from = version =>
                           Copies(mem'[q].set, file.set, log')
    BY <1>1 DEF KnownOK
  <2>1. CASE q = p
    BY <1>1, <2>1
  <2>2. CASE q # p
    <3>1. mem'[q] = mem[q] /\ job'[q] = job[q]
      BY <2>2
    <3>2. /\ mem[q].seen = file.time /\ job[q].st \in {"idle", "read", "judge"} =>
                Copies(mem[q].set, file.set, log)
          /\ job[q].st = "judge" /\ job[q].from = version => Copies(mem[q].set, file.set, log)
      BY <1>1 DEF ConfigInv, KnownOK
    <3> QED
      BY <3>1, <3>2, CopiesLater
  <2> QED
    BY <2>1, <2>2
<1>6. HeldOK'
  <2> SUFFICES ASSUME Clean', ~Writing' PROVE Whole /\ Copies(file.set, ordered, log')
    BY <1>1 DEF HeldOK
  <2>1. ~Writing
    BY <1>3 DEF Writing, Writes
  <2> QED
    BY <1>1, <2>1, CopiesLater DEF ConfigInv, HeldOK
<1>7. NextOK'
  <2> SUFFICES ASSUME NEW q \in Listprocs, Clean', job'[q].st \in {"write", "create", "fill"},
                      job'[q].from = version, \A r \in Listprocs : Writes(r)' => r = q
               PROVE  Copies(Written(mem'[q].set),
                             Written(Option(ordered, Manager(q)', job'[q].r)), log')
    BY DEF NextOK
  <2>1. CASE q = p
    <3>1. job'[p].st = "write"
      BY <2>1 DEF Writes
    <3> QED
      BY <2>1, <3>1
  <2>2. CASE q # p
    <3>1. mem'[q] = mem[q] /\ job'[q] = job[q]
      BY <2>2
    <3>2. Copies(Written(mem[q].set), Written(Option(ordered, Manager(q), job[q].r)), log)
      BY <1>1, <1>3, <3>1 DEF ConfigInv, NextOK
    <3>3. Manager(q)' = Manager(q)
      BY <3>1 DEF Manager
    <3> QED
      BY <3>1, <3>2, <3>3, CopiesLater
  <2> QED
    BY <2>1, <2>2
<1> QED
  BY <1>4, <1>5, <1>6, <1>7 DEF Agree

\* Who forgets everything knows nothing wrong.
LEMMA EndsKeeps ==
  ASSUME ConfigInv, NEW p \in Listprocs, Ends(p), UNCHANGED <<file, version, ordered>>,
         log \subseteq log', Writes(p) => "died" \in log'
  PROVE  Agree'
<1>1. /\ \A q \in Listprocs : q # p => mem'[q] = mem[q] /\ job'[q] = job[q]
      /\ mem'[p] = Fresh /\ job'[p] = NoJob
  BY DEF Ends, ConfigInv, KindsOK
<1>2. Whole => mem'[p].seen # file.time
  BY <1>1, FreshKinds DEF ConfigInv, KindsOK, Whole
<1>3. job'[p].st = "idle" /\ ~Writes(p)'
  BY <1>1, NoJobIdle DEF Writes
<1>4. "blurred" \notin log /\ Whole =>
        /\ mem'[p].seen = file.time /\ job'[p].st \in {"idle", "read", "judge"} =>
             Copies(mem'[p].set, file.set, log')
        /\ job'[p].st = "judge" /\ job'[p].from = version =>
             Copies(mem'[p].set, file.set, log')
  BY <1>2, <1>3
<1>5. (Clean' /\ job'[p].st = "write" /\ job'[p].from = version
        /\ (\A q \in Listprocs : Writes(q)' => q = p)) =>
        Copies(Written(mem'[p].set), Written(Option(ordered, Manager(p)', job'[p].r)), log')
  <2>1. job'[p].st # "write"
    BY <1>3
  <2> QED
    BY <2>1
<1> QED
  BY <1>1, <1>3, <1>4, <1>5, QuietKeeps

LEMMA LookKeeps ==
  ASSUME ConfigInv, NEW p \in Listprocs, Look(p)
  PROVE  Agree'
<1>1. PICK r \in plan.requests :
        /\ mem' = [mem EXCEPT ![p] = Base(p, r)]
        /\ job' = [job EXCEPT ![p] =
             [st |-> IF Changed(Base(p, r)) THEN "read" ELSE "judge", r |-> r, from |-> version,
              time |-> IF file = NoFile THEN 0 ELSE file.time]]
  BY DEF Look
<1>2. /\ job[p] = NoJob /\ UNCHANGED <<file, version, ordered, log>>
      /\ \A q \in Listprocs : q # p => mem'[q] = mem[q] /\ job'[q] = job[q]
      /\ mem'[p] = Base(p, r) /\ job'[p].st = IF Changed(Base(p, r)) THEN "read" ELSE "judge"
  BY <1>1 DEF Look, ConfigInv, KindsOK
<1>3. ~Writes(p)' /\ ~Writes(p) /\ job'[p].st # "write" /\ job[p].st = "idle"
  BY <1>2, NoJobIdle DEF Writes
<1>4. "blurred" \notin log /\ Whole /\ mem'[p].seen = file.time => Copies(mem'[p].set, file.set, log')
  <2> SUFFICES ASSUME "blurred" \notin log, Whole, mem'[p].seen = file.time
               PROVE  Copies(mem'[p].set, file.set, log')
    OBVIOUS
  <2>1. CASE mem'[p] = mem[p]
    BY <1>2, <1>3, <2>1 DEF ConfigInv, KnownOK
  <2>2. CASE mem'[p] = [Fresh EXCEPT !.all = TRUE]
    <3>1. mem'[p].seen = 0
      BY <2>2 DEF Fresh
    <3> QED
      BY <3>1 DEF ConfigInv, KindsOK, Whole
  <2> QED
    BY <1>2, <2>1, <2>2 DEF Base
<1>5. Whole /\ job'[p].st = "judge" => mem'[p].seen = file.time
  BY <1>2 DEF Changed, Whole
<1>6. "blurred" \notin log /\ Whole =>
        /\ mem'[p].seen = file.time /\ job'[p].st \in {"idle", "read", "judge"} =>
             Copies(mem'[p].set, file.set, log')
        /\ job'[p].st = "judge" /\ job'[p].from = version =>
             Copies(mem'[p].set, file.set, log')
  BY <1>3, <1>4, <1>5
<1>7. (Clean' /\ job'[p].st = "write" /\ job'[p].from = version
        /\ (\A q \in Listprocs : Writes(q)' => q = p)) =>
        Copies(Written(mem'[p].set), Written(Option(ordered, Manager(p)', job'[p].r)), log')
  BY <1>3
<1>8. log \subseteq log'
  BY <1>2
<1> QED
  BY <1>2, <1>3, <1>6, <1>7, <1>8, QuietKeeps

LEMMA ReadKeeps ==
  ASSUME ConfigInv, NEW p \in Listprocs, Reread(p)
  PROVE  Agree'
<1>1. job[p].st = "read" /\ ~Writes(p) /\ UNCHANGED <<file, version, ordered>> /\ log \subseteq log'
  BY DEF Reread, Writes
<1>2. CASE Ends(p)
  BY <1>1, <1>2, EndsKeeps
<1>3. CASE /\ mem' = [mem EXCEPT ![p].set = LoadFile(@, file), ![p].seen = job[p].time]
           /\ job' = [job EXCEPT ![p].st = "judge"]
           /\ log' = log \union
                {e \in {"sticky"} : Whole /\ LoadFile(mem[p].set, file).marks # file.set.marks}
  <2> DEFINE m == [set |-> LoadFile(mem[p].set, file), seen |-> job[p].time, all |-> mem[p].all]
  <2>1. mem' = [mem EXCEPT ![p] = m]
    BY <1>3, LoadMemory DEF ConfigInv
  <2>2. \A q \in Listprocs : q # p => mem'[q] = mem[q] /\ job'[q] = job[q]
    BY <1>3, <2>1 DEF ConfigInv, KindsOK
  <2>3. mem'[p].set = LoadFile(mem[p].set, file)
    BY <2>1 DEF ConfigInv, KindsOK
  <2>4. job'[p].st = "judge" /\ ~Writes(p)'
    BY <1>1, <1>3, NextStage DEF ConfigInv, KindsOK, Writes
  <2>5. Whole => Copies(mem'[p].set, file.set, log')
    <3> SUFFICES ASSUME Whole PROVE Copies(mem'[p].set, file.set, log')
      OBVIOUS
    <3>1. IsSettings(mem[p].set) /\ IsSettings(file.set) /\ file.n = 4
      BY DEF ConfigInv, KindsOK, Whole
    <3> DEFINE l == LoadFile(mem[p].set, file)
    <3>2. Same(l, file.set) /\ file.set.marks \subseteq l.marks
      BY <3>1, LoadWhole
    <3>3. l.marks # file.set.marks => "sticky" \in log'
      BY <1>3
    <3> HIDE DEF l
    <3>4. Copies(l, file.set, log')
      BY <3>2, <3>3 DEF Copies
    <3> QED
      BY <2>3, <3>4 DEF l
  <2>6. "blurred" \notin log /\ Whole =>
          /\ mem'[p].seen = file.time /\ job'[p].st \in {"idle", "read", "judge"} =>
               Copies(mem'[p].set, file.set, log')
          /\ job'[p].st = "judge" /\ job'[p].from = version =>
               Copies(mem'[p].set, file.set, log')
    BY <2>5
  <2>7. (Clean' /\ job'[p].st = "write" /\ job'[p].from = version
          /\ (\A q \in Listprocs : Writes(q)' => q = p)) =>
          Copies(Written(mem'[p].set), Written(Option(ordered, Manager(p)', job'[p].r)), log')
    <3>1. job'[p].st # "write"
      BY <2>4
    <3> QED
      BY <3>1
  <2> HIDE DEF m
  <2> QED
    BY <1>1, <2>2, <2>4, <2>6, <2>7, QuietKeeps
<1> QED
  BY <1>2, <1>3 DEF Reread

\* An answer, or a refusal
LEMMA ReplyKeeps ==
  ASSUME ConfigInv, NEW p \in Listprocs, job[p].st = "judge", job' = [job EXCEPT ![p] = NoJob],
         UNCHANGED <<file, mem, version, ordered, log>>
  PROVE  Agree'
<1>1. /\ \A q \in Listprocs : q # p => mem'[q] = mem[q] /\ job'[q] = job[q]
      /\ mem'[p] = mem[p] /\ job'[p] = NoJob
  BY DEF ConfigInv, KindsOK
<1>2. job'[p].st = "idle" /\ ~Writes(p)' /\ ~Writes(p)
  BY <1>1, NoJobIdle DEF Writes
<1>3. "blurred" \notin log /\ Whole =>
        /\ mem'[p].seen = file.time /\ job'[p].st \in {"idle", "read", "judge"} =>
             Copies(mem'[p].set, file.set, log')
        /\ job'[p].st = "judge" /\ job'[p].from = version =>
             Copies(mem'[p].set, file.set, log')
  BY <1>1, <1>2 DEF ConfigInv, KnownOK
<1>4. (Clean' /\ job'[p].st = "write" /\ job'[p].from = version
        /\ (\A q \in Listprocs : Writes(q)' => q = p)) =>
        Copies(Written(mem'[p].set), Written(Option(ordered, Manager(p)', job'[p].r)), log')
  <2>1. job'[p].st # "write"
    BY <1>2
  <2> QED
    BY <2>1
<1>5. log \subseteq log'
  OBVIOUS
<1> QED
  BY <1>1, <1>2, <1>3, <1>4, <1>5, QuietKeeps

\* What is about to be written copies what will then be wanted.
LEMMA ChangeKeeps ==
  ASSUME ConfigInv, NEW p \in Listprocs, Judge(p), job' = [job EXCEPT ![p].st = "write"],
         mem' = [mem EXCEPT ![p].set = Option(@, Manager(p), job[p].r)]
  PROVE  Agree'
<1>1. job[p].st = "judge" /\ UNCHANGED <<file, version, ordered, log>>
  BY DEF Judge
<1> DEFINE o == Option(mem[p].set, Manager(p), job[p].r)
<1>2. mem' = [mem EXCEPT ![p] = [mem[p] EXCEPT !.set = o]]
  OBVIOUS
<1> HIDE DEF o
<1>3. /\ \A q \in Listprocs : q # p => mem'[q] = mem[q] /\ job'[q] = job[q]
      /\ job'[p] = [job[p] EXCEPT !.st = "write"]
  BY <1>2 DEF ConfigInv, KindsOK
<1>4. mem'[p].set = o
  <2>1. mem'[p] = [mem[p] EXCEPT !.set = o]
    BY <1>2 DEF ConfigInv, KindsOK
  <2>2. IsMemory(mem[p])
    BY DEF ConfigInv, KindsOK
  <2> QED
    BY <2>1, <2>2 DEF IsMemory
<1>5. job'[p].st = "write" /\ job'[p].r = job[p].r /\ job'[p].from = job[p].from
  <2>1. KindsOK /\ job[p].st # "idle"
    BY <1>1 DEF ConfigInv
  <2> QED
    BY <1>3, <2>1, NextStage
<1>6. ~Writes(p)' /\ ~Writes(p)
  BY <1>1, <1>5 DEF Writes
<1>7. "blurred" \notin log /\ Whole =>
        /\ mem'[p].seen = file.time /\ job'[p].st \in {"idle", "read", "judge"} =>
             Copies(mem'[p].set, file.set, log')
        /\ job'[p].st = "judge" /\ job'[p].from = version =>
             Copies(mem'[p].set, file.set, log')
  BY <1>5
<1>8. (Clean' /\ job'[p].st = "write" /\ job'[p].from = version
        /\ (\A q \in Listprocs : Writes(q)' => q = p)) =>
        Copies(Written(mem'[p].set), Written(Option(ordered, Manager(p)', job'[p].r)), log')
  <2> SUFFICES ASSUME Clean', job'[p].from = version, \A q \in Listprocs : Writes(q)' => q = p
               PROVE  Copies(Written(mem'[p].set),
                             Written(Option(ordered, Manager(p)', job'[p].r)), log')
    OBVIOUS
  <2>1. Clean /\ "blurred" \notin log
    BY <1>1 DEF Clean
  <2>2. ~Writing
    BY <1>3, <1>6 DEF Writing, Writes
  <2>3. Whole /\ Copies(file.set, ordered, log)
    BY <2>1, <2>2 DEF ConfigInv, HeldOK
  <2>4. Copies(mem[p].set, file.set, log)
    BY <1>1, <1>5, <2>1, <2>3 DEF ConfigInv, KnownOK
  <2>5. IsSettings(mem[p].set) /\ IsSettings(file.set) /\ IsSettings(ordered)
    BY <2>3 DEF ConfigInv, KindsOK, Whole
  <2>6. Copies(mem[p].set, ordered, log)
    BY <2>3, <2>4, <2>5, CopiesFollow
  <2>7. Copies(Written(o), Written(Option(ordered, Manager(p), job[p].r)), log)
    BY <2>5, <2>6, CopiesOption DEF o
  <2>8. Manager(p)' = Manager(p)
    BY <1>5 DEF Manager
  <2> QED
    BY <1>1, <1>4, <1>5, <2>7, <2>8
<1>9. log \subseteq log'
  BY <1>1
<1> QED
  BY <1>1, <1>3, <1>6, <1>7, <1>8, <1>9, QuietKeeps

\* The steps of a reader and of a judge
LEMMA ReaderKeeps ==
  ASSUME ConfigInv, NEW p \in Listprocs,
         Look(p) \/ Reread(p) \/ Show(p) \/ Judge(p) \/ Leave(p) \/ Killed(p)
  PROVE  Agree'
<1>1. CASE Look(p)
  BY <1>1, LookKeeps
<1>2. CASE Reread(p)
  BY <1>2, ReadKeeps
<1>3. CASE Show(p)
  BY <1>3, ReplyKeeps DEF Show
<1>4. CASE Judge(p)
  <2>1. CASE job' = [job EXCEPT ![p] = NoJob] /\ UNCHANGED mem
    BY <1>4, <2>1, ReplyKeeps DEF Judge
  <2>2. CASE /\ job' = [job EXCEPT ![p].st = "write"]
             /\ mem' = [mem EXCEPT ![p].set = Option(@, Manager(p), job[p].r)]
    BY <1>4, <2>2, ChangeKeeps
  <2> QED
    BY <1>4, <2>1, <2>2 DEF Judge
<1>5. CASE Leave(p)
  <2>1. Ends(p) /\ job[p] = NoJob /\ UNCHANGED <<file, version, ordered, log>>
    BY <1>5 DEF Leave
  <2>2. ~Writes(p)
    BY <2>1, NoJobIdle DEF Writes
  <2>3. log \subseteq log'
    BY <2>1
  <2> QED
    BY <2>1, <2>2, <2>3, EndsKeeps
<1>6. CASE Killed(p)
  <2>1. Ends(p) /\ UNCHANGED <<file, version, ordered>> /\ log \subseteq log'
    BY <1>6 DEF Killed
  <2>2. Writes(p) => "died" \in log'
    BY <1>6 DEF Killed, Writes
  <2> QED
    BY <2>1, <2>2, EndsKeeps
<1> QED
  BY <1>1, <1>2, <1>3, <1>4, <1>5, <1>6

-----------------------------------------------------------------------------
(* The writer's steps *)

\* The file is moved away, or a part of it is written.
LEMMA PartKeeps ==
  ASSUME ConfigInv, NEW p \in Listprocs, UNCHANGED <<mem, version, ordered, log>>,
         \A q \in Listprocs : q # p => job'[q] = job[q],
         \A q \in Listprocs \ {p} : ~Writes(q),
         job[p].st \in {"write", "create", "fill"}, Writes(p)', ~Whole',
         job'[p].r = job[p].r, job'[p].from = job[p].from,
         job'[p].st = "fill" => file' # NoFile /\ file'.set = Written(mem[p].set)
  PROVE  Agree'
<1>1. \A q \in Listprocs : Writes(q)' => q = p
  BY DEF Writes
<1>2. WriterOK'
  <2>1. \A q \in Listprocs : job'[q].st = "fill" => q = p
    BY <1>1 DEF Writes
  <2> QED
    BY <1>1, <2>1 DEF WriterOK
<1>3. KnownOK'
  BY DEF KnownOK
<1>4. HeldOK'
  BY DEF HeldOK, Writing, Writes
<1>5. NextOK'
  <2> SUFFICES ASSUME NEW q \in Listprocs, Clean', job'[q].st \in {"write", "create", "fill"},
                      job'[q].from = version, \A r \in Listprocs : Writes(r)' => r = q
               PROVE  Copies(Written(mem[q].set),
                             Written(Option(ordered, Manager(q)', job'[q].r)), log)
    BY DEF NextOK
  <2>1. q = p
    OBVIOUS
  <2>2. Clean /\ Manager(p)' = Manager(p)
    BY DEF Clean, Manager
  <2>3. Copies(Written(mem[p].set), Written(Option(ordered, Manager(p), job[p].r)), log)
    BY <2>1, <2>2 DEF ConfigInv, NextOK
  <2> QED
    BY <2>1, <2>2, <2>3
<1> QED
  BY <1>2, <1>3, <1>4, <1>5 DEF Agree

\* The writer is alone.
LEMMA Alone ==
  ASSUME ConfigInv, NEW p \in Listprocs, Move(p) \/ Writes(p)
  PROVE  \A q \in Listprocs \ {p} : ~Writes(q)
<1>1. CASE Move(p)
  BY <1>1 DEF Move, Writing, Writes
<1>2. CASE Writes(p)
  BY <1>2 DEF ConfigInv, WriterOK
<1> QED
  BY <1>1, <1>2

LEMMA MoveKeeps ==
  ASSUME ConfigInv, NEW p \in Listprocs, Move(p)
  PROVE  Agree'
<1>1. /\ job[p].st = "write" /\ file' = NoFile /\ UNCHANGED <<mem, version, ordered, log>>
      /\ job' = [job EXCEPT ![p].st = "create"]
  BY DEF Move
<1>2. /\ \A q \in Listprocs : q # p => job'[q] = job[q]
      /\ job'[p] = [job[p] EXCEPT !.st = "create"]
  BY <1>1 DEF ConfigInv, KindsOK
<1>3. job'[p].st = "create" /\ job'[p].r = job[p].r /\ job'[p].from = job[p].from
  BY <1>1, <1>2, NextStage DEF ConfigInv
<1>4. Writes(p)' /\ ~Whole'
  BY <1>1, <1>3 DEF Writes, Whole
<1> QED
  BY <1>1, <1>2, <1>3, <1>4, Alone, PartKeeps

LEMMA CreateKeeps ==
  ASSUME ConfigInv, NEW p \in Listprocs, Create(p)
  PROVE  Agree'
<1>1. /\ job[p].st = "create" /\ UNCHANGED <<mem, version, ordered, log>>
      /\ file' = [n |-> 0, cut |-> FALSE, set |-> Written(mem[p].set), time |-> now]
      /\ job' = [job EXCEPT ![p].st = "fill"]
  BY DEF Create
<1>2. /\ \A q \in Listprocs : q # p => job'[q] = job[q]
      /\ job'[p] = [job[p] EXCEPT !.st = "fill"]
  BY <1>1 DEF ConfigInv, KindsOK
<1>3. job'[p].st = "fill" /\ job'[p].r = job[p].r /\ job'[p].from = job[p].from
  BY <1>1, <1>2, NextStage DEF ConfigInv
<1>4. Writes(p) /\ Writes(p)' /\ ~Whole' /\ file' # NoFile /\ file'.set = Written(mem[p].set)
  BY <1>1, <1>3, FilesAreRecords DEF Writes, Whole
<1> QED
  BY <1>1, <1>2, <1>3, <1>4, Alone, PartKeeps

\* What is written to a file in the filling
LEMMA Filled ==
  ASSUME ConfigInv, NEW p \in Listprocs, job[p].st = "fill", NEW n, NEW cut, NEW t,
         file' = [file EXCEPT !.n = n, !.cut = cut, !.time = t]
  PROVE  file' # NoFile /\ file'.n = n /\ file'.set = Written(mem[p].set) /\ file'.time = t
<1>1. file # NoFile /\ file.set = Written(mem[p].set)
  BY DEF ConfigInv, WriterOK
<1>2. IsFile(file)
  BY <1>1 DEF ConfigInv, KindsOK
<1>3. file' = [n |-> n, cut |-> cut, set |-> file.set, time |-> t]
  BY <1>2 DEF IsFile
<1> QED
  BY <1>1, <1>3, FilesAreRecords

LEMMA FillKeeps ==
  ASSUME ConfigInv, NEW p \in Listprocs, Part(p)
  PROVE  Agree'
<1>1. job[p].st = "fill" /\ UNCHANGED <<job, mem, version, ordered, log>>
  BY DEF Part
<1>2. PICK n \in 1..3, cut \in BOOLEAN :
        file' = [file EXCEPT !.n = n, !.cut = cut /\ n = 2, !.time = now]
  BY DEF Part
<1> DEFINE c == cut /\ n = 2
<1>3. file' = [file EXCEPT !.n = n, !.cut = c, !.time = now]
  BY <1>2
<1> HIDE DEF c
<1>4. file' # NoFile /\ file'.n = n /\ file'.set = Written(mem[p].set)
  BY <1>1, <1>3, Filled
<1>5. Writes(p) /\ Writes(p)' /\ ~Whole'
  BY <1>1, <1>4 DEF Writes, Whole
<1>6. \A q \in Listprocs : q # p => job'[q] = job[q]
  BY <1>1
<1>7. job'[p].r = job[p].r /\ job'[p].from = job[p].from
  BY <1>1
<1> QED
  BY <1>1, <1>4, <1>5, <1>6, <1>7, Alone, PartKeeps

\* The file is whole again.  Nobody remembers its time yet, and whoever judges
\* took the time of an earlier one.
LEMMA ReleaseKeeps ==
  ASSUME ConfigInv, NEW p \in Listprocs, Close(p)
  PROVE  Agree'
<1>1. /\ job[p].st = "fill" /\ UNCHANGED mem /\ job' = [job EXCEPT ![p] = NoJob]
      /\ version' = version + 1
      /\ ordered' = Written(Option(ordered, Manager(p), job[p].r))
      /\ log \subseteq log'
      /\ file' = [file EXCEPT !.n = 4, !.cut = FALSE, !.time = now]
  BY DEF Close
<1>2. /\ job[p].from # version => "overlap" \in log'
      /\ \A q \in Listprocs : now = mem[q].seen => "blurred" \in log'
  BY DEF Close
<1>3. /\ \A q \in Listprocs : q # p => job'[q] = job[q]
      /\ job'[p] = NoJob
  BY <1>1 DEF ConfigInv, KindsOK
<1>4. job'[p].st = "idle" /\ Writes(p) /\ ~Writes(p)'
  BY <1>1, <1>3, NoJobIdle DEF Writes
<1>5. \A q \in Listprocs : ~Writes(q)'
  BY <1>3, <1>4, Alone DEF Writes
<1>6. Whole' /\ file'.set = Written(mem[p].set) /\ file'.time = now
  <2>1. file' # NoFile /\ file'.n = 4 /\ file'.set = Written(mem[p].set) /\ file'.time = now
    BY <1>1, Filled
  <2> QED
    BY <2>1 DEF Whole
<1>7. WriterOK'
  <2>1. \A q \in Listprocs : job'[q].st # "fill"
    BY <1>5 DEF Writes
  <2> QED
    BY <1>5, <2>1 DEF WriterOK
<1>8. \A q \in Listprocs : job'[q] # NoJob => job'[q].from # version'
  <2> SUFFICES ASSUME NEW q \in Listprocs, job'[q] # NoJob PROVE job'[q].from # version'
    OBVIOUS
  <2>1. job'[q] = job[q]
    BY <1>3
  <2>2. job[q] \in Jobs /\ job[q].from <= version /\ version \in Nat
    BY <2>1 DEF ConfigInv, KindsOK
  <2>3. job[q].from \in Nat
    BY <2>2 DEF Jobs
  <2> QED
    BY <1>1, <2>1, <2>2, <2>3
<1>9. KnownOK'
  <2> SUFFICES ASSUME NEW q \in Listprocs, "blurred" \notin log', Whole'
               PROVE  mem[q].seen # file'.time /\ ~(job'[q].st = "judge" /\ job'[q].from = version')
    BY <1>1 DEF KnownOK
  <2>1. mem[q].seen # file'.time
    BY <1>2, <1>6
  <2>2. job'[q].st = "judge" => job'[q] # NoJob
    BY NoJobIdle
  <2> QED
    BY <1>8, <2>1, <2>2
<1>10. HeldOK'
  <2> SUFFICES ASSUME Clean' PROVE Copies(file'.set, ordered', log')
    BY <1>6 DEF HeldOK
  <2>1. Clean /\ job[p].from = version
    BY <1>1, <1>2 DEF Clean
  <2>2. \A q \in Listprocs : Writes(q) => q = p
    BY <1>4, Alone
  <2>3. Copies(Written(mem[p].set), Written(Option(ordered, Manager(p), job[p].r)), log)
    BY <1>1, <2>1, <2>2 DEF ConfigInv, NextOK
  <2> QED
    BY <1>1, <1>6, <2>3, CopiesLater
<1>11. NextOK'
  <2> SUFFICES ASSUME NEW q \in Listprocs, job'[q].st \in {"write", "create", "fill"}
               PROVE  job'[q].from # version'
    BY DEF NextOK
  <2>1. job'[q] # NoJob
    BY NoJobIdle
  <2> QED
    BY <1>8, <2>1
<1> QED
  BY <1>7, <1>9, <1>10, <1>11 DEF Agree

-----------------------------------------------------------------------------
(* The invariant *)

LEMMA ConfigInit ==
  ASSUME LInit PROVE ConfigInv
<1>1. /\ file = [n |-> 4, cut |-> FALSE, set |-> Start, time |-> 1]
      /\ \A p \in Listprocs : job[p] = NoJob /\ mem[p] = Fresh
      /\ mem = [p \in Listprocs |-> mem[p]] /\ now = 2 /\ version = 0 /\ ordered = Start
  BY DEF LInit
<1>2. IsSettings(Start)
  BY DEF Start, IsSettings
<1>3. Whole /\ file.set = Start /\ file.time = 1 /\ IsFile(file)
  BY <1>1, FilesAreRecords DEF Whole, IsFile
<1>4. \A p \in Listprocs : ~Writes(p) /\ job[p].st = "idle" /\ mem[p].seen = 0
  BY <1>1, NoJobIdle, FreshKinds DEF Writes
<1>5. KindsOK
  <2>1. job \in [Listprocs -> {NoJob} \union Jobs]
    BY DEF LInit
  <2>2. \A p \in Listprocs : IsMemory(mem[p]) /\ IsSettings(mem[p].set) /\ mem[p].seen \in Nat
    BY <1>1, FreshKinds
  <2> QED
    BY <1>1, <1>2, <1>3, <2>1, <2>2 DEF KindsOK
<1>6. WriterOK
  BY <1>4 DEF WriterOK
<1>7. KnownOK
  BY <1>3, <1>4 DEF KnownOK
<1>8. HeldOK
  <2>1. Copies(Start, Start, log)
    BY DEF Copies, Same
  <2> QED
    BY <1>1, <1>3, <2>1 DEF HeldOK
<1>9. NextOK
  BY <1>4 DEF NextOK
<1> QED
  BY <1>5, <1>6, <1>7, <1>8, <1>9 DEF ConfigInv

LEMMA ConfigStep ==
  ASSUME ConfigInv, [LNext]_lvars PROVE ConfigInv'
<1>1. ASSUME NEW p \in Listprocs, Look(p) \/ Reread(p) \/ Show(p) \/ Judge(p) \/ Leave(p) \/ Killed(p)
      PROVE  ConfigInv'
  <2>1. KindsOK'
    BY <1>1, LookKinds, ReadKinds, JudgeKinds, IdleKinds DEF ConfigInv
  <2> QED
    BY <1>1, <2>1, ReaderKeeps DEF ConfigInv, Agree
<1>2. ASSUME NEW p \in Listprocs, Move(p) \/ Create(p) \/ Part(p) \/ Close(p)
      PROVE  ConfigInv'
  <2>1. KindsOK'
    BY <1>2, WriterKinds DEF ConfigInv
  <2> QED
    BY <1>2, <2>1, MoveKeeps, CreateKeeps, FillKeeps, ReleaseKeeps DEF ConfigInv, Agree
<1>3. CASE UNCHANGED <<plan, file, job, mem, version, ordered, log>> /\ KindsOK'
  BY <1>3 DEF ConfigInv, WriterOK, Writes, Whole, KnownOK, HeldOK, Clean, Writing, NextOK, Manager
<1>4. CASE Tick
  BY <1>3, <1>4, TickKinds DEF Tick, ConfigInv
<1>5. CASE UNCHANGED lvars
  <2>1. KindsOK'
    BY <1>5 DEF lvars, ConfigInv, KindsOK, Jobs, IsMemory, IsSettings, IsFile
  <2> QED
    BY <1>3, <1>5, <2>1 DEF lvars
<1> QED
  BY <1>1, <1>2, <1>4, <1>5 DEF LNext

LEMMA ConfigSafe ==
  ASSUME ConfigInv PROVE SettingsKept
<1>1. FileAsAsked
  <2> SUFFICES ASSUME \A p \in Listprocs : job[p] = NoJob, Clean
               PROVE  /\ Whole /\ Same(file.set, ordered) /\ ordered.marks \subseteq file.set.marks
                      /\ "sticky" \in log \/ file.set.marks = ordered.marks
    BY DEF FileAsAsked, Clean
  <2>1. ~Writing
    BY NoJobIdle DEF Writing
  <2> QED
    BY <2>1 DEF ConfigInv, HeldOK, Copies
<1>2. JudgedByFile
  BY DEF JudgedByFile, ConfigInv, KnownOK, Copies
<1> QED
  BY <1>1, <1>2 DEF SettingsKept

\* The settings of a list are those asked for, in the file and for whoever
\* judges a request by them (configuration.c:2124-2245, listproc.c:1672-1692).
THEOREM SettingsAreKept ==
  LSpec => []SettingsKept
<1>1. LInit => ConfigInv
  BY ConfigInit
<1>2. ConfigInv /\ [LNext]_lvars => ConfigInv'
  BY ConfigStep
<1>3. ConfigInv => SettingsKept
  BY ConfigSafe
<1> QED
  BY <1>1, <1>2, <1>3, PTL DEF LSpec

-----------------------------------------------------------------------------
(* Archive: the inductive invariant *)

\* Nothing happened that AsConfigured excuses.
Calm == past \cap {"died", "overlap"} = {}

IndexEntries == [afd : BOOLEAN, private : BOOLEAN]
Configs == [afd : BOOLEAN, split : BOOLEAN, private : BOOLEAN]

\* A request, and the stages it goes through.
IsRequest(r) ==
  /\ r = [st |-> r.st, op |-> r.op, f |-> r.f, opt |-> r.opt, id |-> r.id, text |-> r.text,
          i |-> r.i, conf |-> r.conf, found |-> r.found, held |-> r.held]
  /\ r.op \in Ops /\ r.conf \in Configs

Stage(op) ==
  CASE op = "post" -> {"post", "old", "new"}
    [] op \in Filing -> {"locate", "load", "text", "farch", "read", "store", "enter", "drop",
                         "moved", "write", "append", "clean"}
    [] op = "delete" -> {"locate", "load", "farch", "drop", "moved", "write"}
    [] op = "remove" -> {"locate", "load", "farch", "unfile", "delist", "rmdir"}
    [] OTHER -> {"locate", "load", "farch", "save"}

\* What the entry, the configuration and the requests may be.
ArchiveKinds ==
  /\ work = [p \in Filers |-> work[p]]
  /\ \A p \in Filers : AtWork(p) => IsRequest(work[p]) /\ work[p].st \in Stage(work[p].op)
  /\ index \in IndexEntries \cup {Missing} /\ config \in Configs \cup {Missing} /\ wanted \in Configs

\* Whose farch, or list, is in the middle of its work has the lock.
OutsideLock == {"locate", "load", "text", "farch", "clean", "save", "post"}
HolderOK == \A p \in Filers : AtWork(p) /\ work[p].st \notin OutsideLock => holder = p

\* Who creates, modifies or removes the archive is the only one at it.
Active(p) == AtWork(p) /\ work[p].op # "post" /\ work[p].st \notin {"locate", "clean"}
AloneOK ==
  \A p, q \in Filers : Active(p) /\ Active(q) /\ p # q => work[p].op \notin Changing

\* The entry goes first, the directory after it; else both are there or neither.
At(p, stages) == AtWork(p) /\ work[p].st \in stages
ThereOK ==
  /\ index # Missing => config # Missing
  /\ \A p \in Filers : At(p, {"rmdir"}) => index = Missing
  /\ (\A p \in Filers : ~At(p, {"rmdir"})) => (config # Missing => index # Missing)

\* When nobody is in the middle of a change, what is wanted is in both.
Agreed == config = wanted /\ index.afd = config.afd /\ index.private = config.private
Unsettled == {"save", "unfile", "delist", "rmdir"}
SteadyOK == (\A p \in Filers : ~At(p, Unsettled)) /\ index # Missing => Agreed

\* What a request has read, or made of it, by the time it does the next step.
HasRead(r)   == index # Missing /\ r.conf.afd = index.afd
HasLooked(r) == index # Missing /\ r.conf.afd = index.afd /\ r.conf.private = index.private
HasApplied(r) ==
  IF index = Missing THEN r.conf = Apply(r.opt, NewConfig)
  ELSE r.conf = Apply(r.opt, config) /\ r.conf.private = config.private
HasMarked(r) ==
  /\ index # Missing /\ config = wanted /\ r.conf = Apply(r.opt, wanted)
  /\ index.afd = r.conf.afd /\ index.private = r.conf.private

WorkOf(r) ==
  /\ r.st = "load" => HasLooked(r)
  /\ r.st \in {"text", "farch"} /\ r.op \notin Settling => HasRead(r)
  /\ r.st = "farch" /\ r.op \in Settling => HasApplied(r)
  /\ r.st = "save" => HasMarked(r)
  /\ r.st \in {"unfile", "delist"} => index # Missing
WorkOK == \A p \in Filers : Active(p) => WorkOf(work[p])

\* Only the request of p changes.
Only(p) ==
  /\ work' = [q \in Filers |-> work'[q]]
  /\ \A q \in Filers : q # p => work'[q] = work[q]

\* The request of p goes on to stage st with the configuration conf.
GoesOn(p, st, conf) ==
  /\ Only(p) /\ IsRequest(work'[p])
  /\ work'[p].st = st /\ work'[p].conf = conf
  /\ work'[p].op = work[p].op /\ work'[p].opt = work[p].opt

IsOver(p) == Only(p) /\ work'[p] = NoWork

\* The invariant of calm states.
ArchiveOK == ArchiveKinds /\ HolderOK /\ AloneOK /\ ThereOK /\ SteadyOK /\ WorkOK
ArchiveInv == Calm => ArchiveOK

\* What To and Done do to a request.
LEMMA ToGoesOn ==
  ASSUME NEW p \in Filers, ArchiveKinds, AtWork(p), NEW st, To(p, st)
  PROVE  GoesOn(p, st, work[p].conf)
PROOF
  <1>1. IsRequest(work[p]) BY DEF ArchiveKinds
  <1>2. Only(p) BY DEF Only, To, ArchiveKinds
  <1>3. work'[p] = [work[p] EXCEPT !.st = st] BY DEF To, ArchiveKinds
  <1>4. /\ work'[p].st = st /\ work'[p].conf = work[p].conf
        /\ work'[p].op = work[p].op /\ work'[p].opt = work[p].opt
    BY <1>1, <1>3 DEF IsRequest
  <1>5. IsRequest(work'[p]) BY <1>1, <1>3 DEF IsRequest
  <1> QED BY <1>2, <1>4, <1>5 DEF GoesOn

LEMMA DoneIsOver ==
  ASSUME NEW p \in Filers, ArchiveKinds, Done(p)
  PROVE  IsOver(p)
  BY DEF IsOver, Only, Done, ArchiveKinds

\* What is kept of each part of the invariant.
LEMMA KindsKept ==
  ASSUME NEW p \in Filers, ArchiveKinds, Only(p),
         AtWork(p)' => IsRequest(work'[p]) /\ work'[p].st \in Stage(work'[p].op),
         index' \in IndexEntries \cup {Missing}, config' \in Configs \cup {Missing}, wanted' \in Configs
  PROVE  ArchiveKinds'
PROOF
  <1>1. \A q \in Filers : AtWork(q)' => IsRequest(work'[q]) /\ work'[q].st \in Stage(work'[q].op)
    BY DEF ArchiveKinds, Only, AtWork
  <1>2. work' = [q \in Filers |-> work'[q]] BY DEF Only
  <1> QED BY <1>1, <1>2 DEF ArchiveKinds, Missing, IndexEntries, Configs, IsRequest, Stage, AtWork, NoWork, Ops

LEMMA HolderKept ==
  ASSUME NEW p \in Filers, HolderOK, Only(p), holder' = holder \/ holder = p \/ holder = NoOne,
         AtWork(p)' /\ work'[p].st \notin OutsideLock => holder' = p
  PROVE  HolderOK'
PROOF
  <1> SUFFICES ASSUME NEW q \in Filers, q # p, AtWork(q), work[q].st \notin OutsideLock PROVE holder' = q
    BY DEF HolderOK, Only, AtWork, OutsideLock
  <1>1. holder = q BY DEF HolderOK
  <1> QED BY <1>1, ArchiveAssumption

LEMMA AloneKept ==
  ASSUME NEW p \in Filers, AloneOK, Only(p),
         Active(p)' => Active(p) /\ work'[p].op = work[p].op
  PROVE  AloneOK'
PROOF
  <1> SUFFICES ASSUME NEW q \in Filers, NEW x \in Filers, Active(q)', Active(x)', q # x
               PROVE  work'[q].op \notin Changing
    BY DEF AloneOK, Changing, Settling
  <1>1. Active(q) /\ Active(x) /\ work'[q].op = work[q].op BY DEF Active, Only, AtWork
  <1> QED BY <1>1 DEF AloneOK

LEMMA ThereKept ==
  ASSUME NEW p \in Filers, ThereOK, Only(p), UNCHANGED <<index, config>>,
         At(p, {"rmdir"})' <=> At(p, {"rmdir"})
  PROVE  ThereOK'
PROOF
  <1>1. \A q \in Filers : At(q, {"rmdir"})' <=> At(q, {"rmdir"}) BY DEF At, Only, AtWork
  <1> QED BY <1>1 DEF ThereOK, Missing

LEMMA SteadyKept ==
  ASSUME NEW p \in Filers, SteadyOK, Only(p), UNCHANGED <<index, config, wanted>>,
         At(p, Unsettled) => At(p, Unsettled)'
  PROVE  SteadyOK'
PROOF
  <1>1. \A q \in Filers : At(q, Unsettled) => At(q, Unsettled)' BY DEF At, Only, AtWork, Unsettled
  <1> QED BY <1>1 DEF SteadyOK, Missing, Agreed

LEMMA WorkKept ==
  ASSUME NEW p \in Filers, WorkOK, Only(p), UNCHANGED <<index, config, wanted>>,
         Active(p)' => WorkOf(work[p])'
  PROVE  WorkOK'
PROOF
  <1> SUFFICES ASSUME NEW q \in Filers, q # p, Active(q)' PROVE WorkOf(work[q])'
    BY DEF WorkOK
  <1>1. work'[q] = work[q] /\ Active(q) BY DEF Only, Active, AtWork
  <1>2. WorkOf(work[q]) BY <1>1 DEF WorkOK
  <1> QED BY <1>1, <1>2 DEF WorkOf, HasRead, HasLooked, HasApplied, HasMarked, Apply, NewConfig, Missing, Settling

\* A step of p that leaves INDEX, CONFIG and what is wanted alone.
LEMMA AllKept ==
  ASSUME NEW p \in Filers, ArchiveOK, Only(p), UNCHANGED <<index, config, wanted>>,
         holder' = holder \/ holder = p \/ holder = NoOne,
         AtWork(p)' => IsRequest(work'[p]) /\ work'[p].st \in Stage(work'[p].op),
         AtWork(p)' /\ work'[p].st \notin OutsideLock => holder' = p,
         Active(p)' => Active(p) /\ work'[p].op = work[p].op,
         At(p, {"rmdir"})' <=> At(p, {"rmdir"}),
         At(p, Unsettled) => At(p, Unsettled)',
         Active(p)' => WorkOf(work[p])'
  PROVE  ArchiveOK'
PROOF
  <1>1. ArchiveKinds /\ HolderOK /\ AloneOK /\ ThereOK /\ SteadyOK /\ WorkOK BY DEF ArchiveOK
  <1>2. index' \in IndexEntries \cup {Missing} /\ config' \in Configs \cup {Missing} /\ wanted' \in Configs
    BY <1>1 DEF ArchiveKinds
  <1>3. ArchiveKinds' BY <1>1, <1>2, KindsKept
  <1>4. HolderOK' BY <1>1, HolderKept
  <1>5. AloneOK' BY <1>1, AloneKept
  <1>6. ThereOK' BY <1>1, ThereKept
  <1>7. SteadyOK' BY <1>1, SteadyKept
  <1>8. WorkOK' BY <1>1, WorkKept
  <1> QED BY <1>3, <1>4, <1>5, <1>6, <1>7, <1>8 DEF ArchiveOK

LEMMA StagesOfWork ==
  ASSUME NEW p \in Filers, ArchiveKinds, AtWork(p)
  PROVE  /\ IsRequest(work[p]) /\ work[p].st \in Stage(work[p].op)
         /\ work[p].op \in Ops /\ work[p].conf \in Configs
  BY DEF ArchiveKinds, IsRequest

\* Stages between which nothing of the configuration is at stake.
Working == {"text", "read", "store", "enter", "drop", "moved", "write", "append", "clean",
            "post", "old", "new"}

LEMMA WorkingStep ==
  ASSUME NEW p \in Filers, ArchiveOK, UNCHANGED <<index, config, wanted>>, AtWork(p),
         NEW s \in Working \ {"text"}, GoesOn(p, s, work[p].conf), s \in Stage(work[p].op),
         work[p].st \in (Working \cup {"farch"}) \ {"clean"},
         holder' = holder \/ holder = p \/ holder = NoOne, s \in OutsideLock \/ holder' = p
  PROVE  ArchiveOK'
PROOF
  <1>1. work'[p].st = s /\ work'[p].op = work[p].op /\ Only(p) /\ IsRequest(work'[p])
    BY DEF GoesOn
  <1>2. AtWork(p)' BY <1>1 DEF AtWork, NoWork, Working
  <1>3. work'[p].st \in Stage(work'[p].op) BY <1>1
  <1>4. Active(p)' => Active(p) /\ work'[p].op = work[p].op BY <1>1 DEF Active, Working
  <1>5. At(p, {"rmdir"})' <=> At(p, {"rmdir"}) BY <1>1 DEF At, Working
  <1>6. At(p, Unsettled) => At(p, Unsettled)' BY DEF At, Working, Unsettled
  <1>7. WorkOf(work[p])' BY <1>1 DEF WorkOf, Working
  <1> QED BY <1>1, <1>2, <1>3, <1>4, <1>5, <1>6, <1>7, AllKept

LEMMA WorkingEnd ==
  ASSUME NEW p \in Filers, ArchiveOK, UNCHANGED <<index, config, wanted>>, AtWork(p),
         IsOver(p), work[p].st \in Working \cup {"locate", "load", "farch"},
         holder' = holder \/ holder = p \/ holder = NoOne
  PROVE  ArchiveOK'
PROOF
  <1>1. ~AtWork(p)' /\ Only(p) BY DEF IsOver, AtWork
  <1>2. ~Active(p)' /\ ~At(p, {"rmdir"})' BY <1>1 DEF Active, At
  <1>3. ~At(p, {"rmdir"}) /\ ~At(p, Unsettled) BY DEF At, Working, Unsettled
  <1> QED BY <1>1, <1>2, <1>3, AllKept

-----------------------------------------------------------------------------
(* Archive: one lemma for each action *)

LEMMA AskArchiveKeeps ==
  ASSUME NEW p \in Filers, ArchiveAssumption, setting \in Settings, ArchiveOK, AskArchive(p)
  PROVE  ArchiveOK'
PROOF
  <1>1. ArchiveKinds /\ ~AtWork(p) /\ UNCHANGED <<index, config, wanted, holder>>
    BY DEF AskArchive, archive, ArchiveOK
  <1>2. PICK op \in setting.ops :
          \E f \in IF op = "delete" THEN setting.files \cup {Monthly} ELSE setting.files,
             size \in IF op \in Filing THEN 1..MaxParts ELSE {1},
             opt \in IF op \in Settling THEN setting.options ELSE {"none"} :
            work' = [work EXCEPT ![p] =
                [st |-> IF op = "post" THEN "post" ELSE "locate", op |-> op, f |-> f, opt |-> opt,
                 id |-> asked', text |-> [of |-> asked', size |-> size, whole |-> TRUE], i |-> 1,
                 conf |-> NewConfig, found |-> TRUE, held |-> NoFiles]]
    BY ZenonT(150) DEF AskArchive
  <1>a. PICK f \in IF op = "delete" THEN setting.files \cup {Monthly} ELSE setting.files,
             size \in IF op \in Filing THEN 1..MaxParts ELSE {1},
             opt \in IF op \in Settling THEN setting.options ELSE {"none"} :
            work' = [work EXCEPT ![p] =
                [st |-> IF op = "post" THEN "post" ELSE "locate", op |-> op, f |-> f, opt |-> opt,
                 id |-> asked', text |-> [of |-> asked', size |-> size, whole |-> TRUE], i |-> 1,
                 conf |-> NewConfig, found |-> TRUE, held |-> NoFiles]]
    BY <1>2
  <1>3. op \in Ops BY ArchiveAssumption
  <1>4. Only(p) BY <1>1, <1>a DEF Only, ArchiveKinds
  <1>5. work'[p] = [st |-> IF op = "post" THEN "post" ELSE "locate", op |-> op, f |-> f, opt |-> opt,
                 id |-> asked', text |-> [of |-> asked', size |-> size, whole |-> TRUE], i |-> 1,
                 conf |-> NewConfig, found |-> TRUE, held |-> NoFiles]
    BY <1>1, <1>a DEF ArchiveKinds
  <1>6. /\ work'[p].st = (IF op = "post" THEN "post" ELSE "locate") /\ work'[p].op = op
        /\ work'[p].conf = NewConfig
    BY <1>5
  <1>7. IsRequest(work'[p]) BY <1>3, <1>5 DEF IsRequest, NewConfig, Configs
  <1>8. work'[p].st \in Stage(work'[p].op) BY <1>3, <1>6 DEF Stage, Ops, Filing
  <1>9. ~Active(p)' /\ ~At(p, {"rmdir"})' /\ work'[p].st \in OutsideLock BY <1>6 DEF Active, At, OutsideLock
  <1>10. ~At(p, {"rmdir"}) /\ ~At(p, Unsettled) BY <1>1 DEF At
  <1> QED BY <1>1, <1>4, <1>7, <1>8, <1>9, <1>10, AllKept

LEMMA CleanUpKeeps ==
  ASSUME NEW p \in Filers, ArchiveOK, CleanUp(p)
  PROVE  ArchiveOK'
PROOF
  <1>1. ArchiveKinds /\ AtWork(p) /\ work[p].st = "clean" /\ Done(p) /\ UNCHANGED <<index, config, wanted, holder>>
    BY DEF CleanUp, archive, ArchiveOK
  <1> QED BY <1>1, DoneIsOver, WorkingEnd DEF Working

LEMMA NoArchiveKeeps ==
  ASSUME NEW p \in Filers, ArchiveOK, NoArchive(p)
  PROVE  ArchiveOK'
PROOF
  <1>1. ArchiveKinds /\ AtWork(p) /\ work[p].st = "farch" /\ Done(p) /\ UNCHANGED <<index, config, wanted, holder>>
    BY DEF NoArchive, archive, ArchiveOK
  <1> QED BY <1>1, DoneIsOver, WorkingEnd DEF Working

\* farch gives up.
LEMMA QuitKeeps ==
  ASSUME NEW p \in Filers, ArchiveOK, AtWork(p), work[p].st \in Working \ {"clean", "post"},
         work[p].st \notin OutsideLock, UNCHANGED <<index, config, wanted>>, Quit(p)
  PROVE  ArchiveOK'
PROOF
  <1>1. ArchiveKinds /\ holder = p BY DEF ArchiveOK, HolderOK
  <1>2. CASE work[p].op \in Filing
    <2>1. GoesOn(p, "clean", work[p].conf) BY <1>1, <1>2, ToGoesOn DEF Quit
    <2>2. "clean" \in Stage(work[p].op) BY <1>2 DEF Stage, Filing
    <2>3. "clean" \in Working \ {"text"} /\ "clean" \in OutsideLock BY DEF Working, OutsideLock
    <2> QED BY <1>1, <2>1, <2>2, <2>3, WorkingStep
  <1>3. CASE work[p].op \notin Filing
    BY <1>1, <1>3, DoneIsOver, WorkingEnd DEF Quit, Working
  <1> QED BY <1>2, <1>3

\* A request remains one when a field is set.
LEMMA SetStage == ASSUME NEW r, IsRequest(r), NEW v PROVE IsRequest([r EXCEPT !.st = v])
  BY DEF IsRequest
LEMMA SetText == ASSUME NEW r, IsRequest(r), NEW v, NEW x, x = [r EXCEPT !.text = v]
  PROVE  IsRequest(x) /\ x.st = r.st /\ x.op = r.op /\ x.opt = r.opt /\ x.conf = r.conf
  BY DEF IsRequest
LEMMA SetPart == ASSUME NEW r, IsRequest(r), NEW v, NEW x, x = [r EXCEPT !.i = v]
  PROVE  IsRequest(x) /\ x.st = r.st /\ x.op = r.op /\ x.opt = r.opt /\ x.conf = r.conf
  BY DEF IsRequest
LEMMA SetHeld == ASSUME NEW r, IsRequest(r), NEW v, NEW x, x = [r EXCEPT !.held = v]
  PROVE  IsRequest(x) /\ x.st = r.st /\ x.op = r.op /\ x.opt = r.opt /\ x.conf = r.conf
  BY DEF IsRequest
LEMMA SetFound == ASSUME NEW r, IsRequest(r), NEW v, NEW x, x = [r EXCEPT !.found = v]
  PROVE  IsRequest(x) /\ x.st = r.st /\ x.op = r.op /\ x.opt = r.opt /\ x.conf = r.conf
  BY DEF IsRequest
LEMMA SetConf == ASSUME NEW r, IsRequest(r), NEW c \in Configs, NEW x, x = [r EXCEPT !.conf = c]
  PROVE  IsRequest(x) /\ x.st = r.st /\ x.op = r.op /\ x.opt = r.opt /\ x.conf = c
PROOF
  <1>1. x = [st |-> r.st, op |-> r.op, f |-> r.f, opt |-> r.opt, id |-> r.id, text |-> r.text,
             i |-> r.i, conf |-> c, found |-> r.found, held |-> r.held]
    BY DEF IsRequest
  <1> QED BY <1>1 DEF IsRequest

\* What the assignments to two or three fields do to a request.
LEMMA ConfGoesOn ==
  ASSUME NEW p \in Filers, ArchiveKinds, AtWork(p), NEW s, NEW c \in Configs,
         work' = [work EXCEPT ![p].st = s, ![p].conf = c]
  PROVE  GoesOn(p, s, c)
PROOF
  <1> DEFINE f == [work EXCEPT ![p].st = s]
  <1>1. IsRequest(work[p]) BY DEF ArchiveKinds
  <1>2. f = [q \in Filers |-> f[q]] /\ f[p] = [work[p] EXCEPT !.st = s]
        /\ \A q \in Filers : q # p => f[q] = work[q]
    BY DEF ArchiveKinds
  <1>3. work' = [f EXCEPT ![p].conf = c] OBVIOUS
  <1> HIDE DEF f
  <1>4. IsRequest(f[p]) /\ f[p].op = work[p].op /\ f[p].opt = work[p].opt
        /\ f[p].st = s /\ f[p].conf = work[p].conf
    BY <1>1, <1>2 DEF IsRequest
  <1>5. Only(p) /\ work'[p] = [f[p] EXCEPT !.conf = c] BY <1>2, <1>3 DEF Only
  <1>6. /\ IsRequest(work'[p]) /\ work'[p].st = s /\ work'[p].conf = c
        /\ work'[p].op = work[p].op /\ work'[p].opt = work[p].opt
    BY <1>4, <1>5, SetConf
  <1> QED BY <1>5, <1>6 DEF GoesOn

LEMMA TextGoesOn ==
  ASSUME NEW p \in Filers, ArchiveKinds, AtWork(p), NEW s, NEW v,
         work' = [work EXCEPT ![p].text = v, ![p].st = s]
  PROVE  GoesOn(p, s, work[p].conf)
PROOF
  <1> DEFINE f == [work EXCEPT ![p].text = v]
  <1>1. IsRequest(work[p]) BY DEF ArchiveKinds
  <1>2. f = [q \in Filers |-> f[q]] /\ f[p] = [work[p] EXCEPT !.text = v]
        /\ \A q \in Filers : q # p => f[q] = work[q]
    BY DEF ArchiveKinds
  <1>3. work' = [f EXCEPT ![p].st = s] OBVIOUS
  <1> HIDE DEF f
  <1>4. IsRequest(f[p]) /\ f[p].op = work[p].op /\ f[p].opt = work[p].opt
        /\ f[p].st = work[p].st /\ f[p].conf = work[p].conf
    BY <1>1, <1>2, SetText
  <1>5. Only(p) /\ work'[p] = [f[p] EXCEPT !.st = s] BY <1>2, <1>3 DEF Only
  <1>6. IsRequest(work'[p]) BY <1>4, <1>5, SetStage
  <1>7. /\ work'[p].st = s /\ work'[p].conf = work[p].conf
        /\ work'[p].op = work[p].op /\ work'[p].opt = work[p].opt
    BY <1>4, <1>5 DEF IsRequest
  <1> QED BY <1>5, <1>6, <1>7 DEF GoesOn

LEMMA PartGoesOn ==
  ASSUME NEW p \in Filers, ArchiveKinds, AtWork(p), NEW s,
         work' = [work EXCEPT ![p].i = @ + 1, ![p].st = s]
  PROVE  GoesOn(p, s, work[p].conf)
PROOF
  <1> DEFINE f == [work EXCEPT ![p].i = @ + 1]
  <1>1. IsRequest(work[p]) BY DEF ArchiveKinds
  <1>2. f = [q \in Filers |-> f[q]] /\ f[p] = [work[p] EXCEPT !.i = @ + 1]
        /\ \A q \in Filers : q # p => f[q] = work[q]
    BY DEF ArchiveKinds
  <1>3. work' = [f EXCEPT ![p].st = s] OBVIOUS
  <1> HIDE DEF f
  <1>4. IsRequest(f[p]) /\ f[p].op = work[p].op /\ f[p].opt = work[p].opt
        /\ f[p].st = work[p].st /\ f[p].conf = work[p].conf
    BY <1>1, <1>2, SetPart
  <1>5. Only(p) /\ work'[p] = [f[p] EXCEPT !.st = s] BY <1>2, <1>3 DEF Only
  <1>6. IsRequest(work'[p]) BY <1>4, <1>5, SetStage
  <1>7. /\ work'[p].st = s /\ work'[p].conf = work[p].conf
        /\ work'[p].op = work[p].op /\ work'[p].opt = work[p].opt
    BY <1>4, <1>5 DEF IsRequest
  <1> QED BY <1>5, <1>6, <1>7 DEF GoesOn

LEMMA HeldGoesOn ==
  ASSUME NEW p \in Filers, ArchiveKinds, AtWork(p), NEW s, NEW v,
         work' = [work EXCEPT ![p].st = s, ![p].held = v]
  PROVE  GoesOn(p, s, work[p].conf)
PROOF
  <1> DEFINE f == [work EXCEPT ![p].st = s]
  <1>1. IsRequest(work[p]) BY DEF ArchiveKinds
  <1>2. f = [q \in Filers |-> f[q]] /\ f[p] = [work[p] EXCEPT !.st = s]
        /\ \A q \in Filers : q # p => f[q] = work[q]
    BY DEF ArchiveKinds
  <1>3. work' = [f EXCEPT ![p].held = v] OBVIOUS
  <1> HIDE DEF f
  <1>4. IsRequest(f[p]) /\ f[p].op = work[p].op /\ f[p].opt = work[p].opt
        /\ f[p].st = s /\ f[p].conf = work[p].conf
    BY <1>1, <1>2 DEF IsRequest
  <1>5. Only(p) /\ work'[p] = [f[p] EXCEPT !.held = v] BY <1>2, <1>3 DEF Only
  <1>6. /\ IsRequest(work'[p]) /\ work'[p].st = s /\ work'[p].conf = work[p].conf
        /\ work'[p].op = work[p].op /\ work'[p].opt = work[p].opt
    BY <1>4, <1>5, SetHeld
  <1> QED BY <1>5, <1>6 DEF GoesOn

LEMMA FoundGoesOn ==
  ASSUME NEW p \in Filers, ArchiveKinds, AtWork(p), NEW s, NEW v, NEW c \in Configs,
         work' = [work EXCEPT ![p].st = s, ![p].found = v, ![p].conf = c]
  PROVE  GoesOn(p, s, c)
PROOF
  <1> DEFINE f == [work EXCEPT ![p].st = s]
  <1> DEFINE g == [f EXCEPT ![p].found = v]
  <1>1. IsRequest(work[p]) BY DEF ArchiveKinds
  <1>2. f = [q \in Filers |-> f[q]] /\ f[p] = [work[p] EXCEPT !.st = s]
        /\ \A q \in Filers : q # p => f[q] = work[q]
    BY DEF ArchiveKinds
  <1>3. work' = [g EXCEPT ![p].conf = c] OBVIOUS
  <1> HIDE DEF f
  <1>4. f[p].st = s /\ f[p].op = work[p].op /\ f[p].opt = work[p].opt /\ IsRequest(f[p])
    BY <1>1, <1>2 DEF IsRequest
  <1>5. g = [q \in Filers |-> g[q]] /\ g[p] = [f[p] EXCEPT !.found = v]
        /\ \A q \in Filers : q # p => g[q] = work[q]
    BY <1>2
  <1> HIDE DEF g
  <1>6. g[p].st = s /\ g[p].op = work[p].op /\ g[p].opt = work[p].opt /\ IsRequest(g[p])
    BY <1>4, <1>5, SetFound
  <1>7. Only(p) /\ work'[p] = [g[p] EXCEPT !.conf = c] BY <1>3, <1>5 DEF Only
  <1>8. /\ IsRequest(work'[p]) /\ work'[p].st = s /\ work'[p].conf = c
        /\ work'[p].op = work[p].op /\ work'[p].opt = work[p].opt
    BY <1>6, <1>7, SetConf
  <1> QED BY <1>7, <1>8 DEF GoesOn

LEMMA OpenTextKeeps ==
  ASSUME NEW p \in Filers, ArchiveOK, OpenText(p)
  PROVE  ArchiveOK'
PROOF
  <1>1. ArchiveKinds /\ AtWork(p) /\ work[p].st = "read" /\ UNCHANGED <<index, config, wanted>>
    BY DEF OpenText, archive, ArchiveOK
  <1>2. CASE temp[work[p].f] = NoText
    BY <1>1, <1>2, QuitKeeps DEF OpenText, Working, OutsideLock
  <1>3. CASE temp[work[p].f] # NoText
    <2>1. work' = [work EXCEPT ![p].text = temp[work[p].f], ![p].st = "store"] /\ holder' = holder
      BY <1>3 DEF OpenText
    <2>2. GoesOn(p, "store", work[p].conf) BY <1>1, <2>1, TextGoesOn
    <2>3. holder = p /\ work[p].st \in Stage(work[p].op)
      BY <1>1, StagesOfWork DEF ArchiveOK, HolderOK, OutsideLock
    <2>4. "store" \in Stage(work[p].op) BY <1>1, <2>3 DEF Stage
    <2> QED BY <1>1, <2>1, <2>2, <2>3, <2>4, WorkingStep DEF Working
  <1> QED BY <1>2, <1>3

LEMMA StoreKeeps ==
  ASSUME NEW p \in Filers, ArchiveOK, Store(p)
  PROVE  ArchiveOK'
PROOF
  <1>1. ArchiveKinds /\ AtWork(p) /\ work[p].st = "store" /\ UNCHANGED <<index, config, wanted>>
    BY DEF Store, ArchiveOK
  <1>2. CASE Quit(p)
    BY <1>1, <1>2, QuitKeeps DEF Working, OutsideLock
  <1>3. CASE ~Quit(p)
    <2> DEFINE s == IF work[p].i = Parts(work[p]) THEN "enter" ELSE "store"
    <2>1. work' = [work EXCEPT ![p].i = @ + 1, ![p].st = s] /\ holder' = holder
      BY <1>3 DEF Store
    <2> HIDE DEF s
    <2>2. GoesOn(p, s, work[p].conf) BY <1>1, <2>1, PartGoesOn
    <2>3. holder = p /\ work[p].st \in Stage(work[p].op)
      BY <1>1, StagesOfWork DEF ArchiveOK, HolderOK, OutsideLock
    <2>4. s \in Stage(work[p].op) /\ s \in Working \ {"text"}
      BY <1>1, <2>3 DEF Stage, Working, s
    <2> QED BY <1>1, <2>1, <2>2, <2>3, <2>4, WorkingStep DEF Working
  <1> QED BY <1>2, <1>3

LEMMA EnterKeeps ==
  ASSUME NEW p \in Filers, ArchiveOK, Enter(p)
  PROVE  ArchiveOK'
PROOF
  <1>1. ArchiveKinds /\ AtWork(p) /\ work[p].st = "enter" /\ UNCHANGED <<index, config, wanted>>
    BY DEF Enter, ArchiveOK
  <1>2. CASE Quit(p)
    BY <1>1, <1>2, QuitKeeps DEF Working, OutsideLock
  <1>3. CASE ~Quit(p)
    <2> DEFINE s == IF Listed(work[p].f) THEN "drop" ELSE "append"
    <2>1. To(p, s) /\ holder' = holder
      BY <1>3 DEF Enter
    <2> HIDE DEF s
    <2>2. GoesOn(p, s, work[p].conf) BY <1>1, <2>1, ToGoesOn
    <2>3. holder = p /\ work[p].st \in Stage(work[p].op)
      BY <1>1, StagesOfWork DEF ArchiveOK, HolderOK, OutsideLock
    <2>4. s \in Stage(work[p].op) /\ s \in Working \ {"text"}
      BY <1>1, <2>3 DEF Stage, Working, s
    <2> QED BY <1>1, <2>1, <2>2, <2>3, <2>4, WorkingStep DEF Working
  <1> QED BY <1>2, <1>3

LEMMA AddEntryKeeps ==
  ASSUME NEW p \in Filers, ArchiveOK, AddEntry(p)
  PROVE  ArchiveOK'
PROOF
  <1>1. /\ ArchiveKinds /\ AtWork(p) /\ work[p].st = "append" /\ UNCHANGED <<index, config, wanted>>
        /\ To(p, "clean") /\ holder' = NoOne
    BY DEF AddEntry, Finish, ArchiveOK
  <1>2. GoesOn(p, "clean", work[p].conf) BY <1>1, ToGoesOn
  <1>3. holder = p /\ work[p].st \in Stage(work[p].op)
    BY <1>1, StagesOfWork DEF ArchiveOK, HolderOK, OutsideLock
  <1>4. "clean" \in Stage(work[p].op) BY <1>1, <1>3 DEF Stage
  <1> QED BY <1>1, <1>2, <1>3, <1>4, WorkingStep DEF Working, OutsideLock

LEMMA MoveDirKeeps ==
  ASSUME NEW p \in Filers, ArchiveOK, MoveDir(p)
  PROVE  ArchiveOK'
PROOF
  <1>1. ArchiveKinds /\ AtWork(p) /\ work[p].st = "drop" /\ UNCHANGED <<index, config, wanted>>
    BY DEF MoveDir, ArchiveOK
  <1>2. CASE dir = Missing
    BY <1>1, <1>2, QuitKeeps DEF MoveDir, Working, OutsideLock
  <1>3. CASE dir # Missing
    <2>1. work' = [work EXCEPT ![p].st = "moved", ![p].held = dir] /\ holder' = holder
      BY <1>3 DEF MoveDir
    <2>2. GoesOn(p, "moved", work[p].conf) BY <1>1, <2>1, HeldGoesOn
    <2>3. holder = p /\ work[p].st \in Stage(work[p].op)
      BY <1>1, StagesOfWork DEF ArchiveOK, HolderOK, OutsideLock
    <2>4. "moved" \in Stage(work[p].op) BY <1>1, <2>3 DEF Stage
    <2> QED BY <1>1, <2>1, <2>2, <2>3, <2>4, WorkingStep DEF Working
  <1> QED BY <1>2, <1>3

LEMMA UnlinkPartsKeeps ==
  ASSUME NEW p \in Filers, ArchiveOK, UnlinkParts(p)
  PROVE  ArchiveOK'
PROOF
  <1>1. /\ ArchiveKinds /\ AtWork(p) /\ work[p].st = "moved" /\ UNCHANGED <<index, config, wanted>>
        /\ To(p, "write") /\ holder' = holder
    BY DEF UnlinkParts, ArchiveOK
  <1>2. GoesOn(p, "write", work[p].conf) BY <1>1, ToGoesOn
  <1>3. holder = p /\ work[p].st \in Stage(work[p].op)
    BY <1>1, StagesOfWork DEF ArchiveOK, HolderOK, OutsideLock
  <1>4. "write" \in Stage(work[p].op) BY <1>1, <1>3 DEF Stage
  <1> QED BY <1>1, <1>2, <1>3, <1>4, WorkingStep DEF Working

LEMMA WriteDirKeeps ==
  ASSUME NEW p \in Filers, ArchiveOK, WriteDir(p)
  PROVE  ArchiveOK'
PROOF
  <1>1. ArchiveKinds /\ AtWork(p) /\ work[p].st = "write" /\ UNCHANGED <<index, config, wanted>>
    BY DEF WriteDir, ArchiveOK
  <1>2. holder = p /\ work[p].st \in Stage(work[p].op)
    BY <1>1, StagesOfWork DEF ArchiveOK, HolderOK, OutsideLock
  <1>3. CASE work[p].op = "delete"
    BY <1>1, <1>2, <1>3, DoneIsOver, WorkingEnd DEF WriteDir, Working
  <1>4. CASE work[p].op # "delete"
    <2>1. To(p, "append") /\ holder' = holder BY <1>4 DEF WriteDir
    <2>2. GoesOn(p, "append", work[p].conf) BY <1>1, <2>1, ToGoesOn
    <2>3. "append" \in Stage(work[p].op) BY <1>1, <1>2, <1>4 DEF Stage
    <2> QED BY <1>1, <1>2, <2>1, <2>2, <2>3, WorkingStep DEF Working
  <1> QED BY <1>3, <1>4

LEMMA PostMoveKeeps ==
  ASSUME NEW p \in Filers, ArchiveOK, PostMove(p)
  PROVE  ArchiveOK'
PROOF
  <1>1. /\ ArchiveKinds /\ AtWork(p) /\ work[p].st = "old" /\ UNCHANGED <<index, config, wanted>>
        /\ work' = [work EXCEPT ![p].st = "new", ![p].held = dir] /\ holder' = holder
    BY DEF PostMove, ArchiveOK
  <1>2. GoesOn(p, "new", work[p].conf) BY <1>1, HeldGoesOn
  <1>3. holder = p /\ work[p].st \in Stage(work[p].op)
    BY <1>1, StagesOfWork DEF ArchiveOK, HolderOK, OutsideLock
  <1>4. "new" \in Stage(work[p].op) BY <1>1, <1>3 DEF Stage
  <1> QED BY <1>1, <1>2, <1>3, <1>4, WorkingStep DEF Working

LEMMA PostWriteKeeps ==
  ASSUME NEW p \in Filers, ArchiveOK, PostWrite(p)
  PROVE  ArchiveOK'
PROOF
  <1>1. /\ ArchiveKinds /\ AtWork(p) /\ work[p].st = "new" /\ UNCHANGED <<index, config, wanted>>
        /\ Done(p) /\ holder' = NoOne
    BY DEF PostWrite, ArchiveOK
  <1>2. holder = p BY <1>1 DEF ArchiveOK, HolderOK, OutsideLock
  <1> QED BY <1>1, <1>2, DoneIsOver, WorkingEnd DEF Working

\* What Apply makes of a configuration.
LEMMA Applied ==
  ASSUME NEW opt, NEW c \in Configs
  PROVE  /\ Apply(opt, c) \in Configs
         /\ ~Refused(opt, c, TRUE) => Apply(opt, c).private = c.private
PROOF
  <1>1. Apply(opt, c) \in Configs BY DEF Apply, Configs
  <1>2. ASSUME ~Refused(opt, c, TRUE) PROVE Apply(opt, c).private = c.private
    <2>1. CASE opt = "private" BY <1>2, <2>1 DEF Apply, Configs, Refused
    <2>2. CASE opt = "public" BY <1>2, <2>2 DEF Apply, Configs, Refused
    <2>3. CASE opt \notin {"private", "public"} BY <2>3 DEF Apply, Configs
    <2> QED BY <2>1, <2>2, <2>3
  <1> QED BY <1>1, <1>2

LEMMA NewConfigIsOne == NewConfig \in Configs
  BY DEF NewConfig, Configs

\* While the lock is free, whoever is active is under way.
LEMMA FreeUnderWay ==
  ASSUME ArchiveKinds, HolderOK, ArchiveAssumption, holder = NoOne, NEW x \in Filers, Active(x)
  PROVE  UnderWay(x)
PROOF
  <1>1. work[x].st \in OutsideLock BY DEF Active, HolderOK
  <1>2. work[x].st \in Stage(work[x].op) /\ work[x].op \in Ops BY StagesOfWork DEF Active
  <1>3. work[x].st # "post" BY <1>2 DEF Active, Stage, Ops, Filing
  <1> QED BY <1>1, <1>3 DEF Active, OutsideLock, UnderWay

LEMMA LocateKeeps ==
  ASSUME NEW p \in Filers, ArchiveAssumption, ArchiveOK, Locate(p), "overlap" \notin past'
  PROVE  ArchiveOK'
PROOF
  <1>1. /\ ArchiveKinds /\ HolderOK /\ AloneOK /\ ThereOK /\ SteadyOK /\ WorkOK
        /\ AtWork(p) /\ work[p].st = "locate" /\ holder = NoOne
        /\ UNCHANGED <<index, config, wanted, holder>>
    BY DEF Locate, archive, ArchiveOK
  <1>2. work[p].op \in Ops /\ IsRequest(work[p]) /\ work[p].st \in Stage(work[p].op) BY <1>1, StagesOfWork
  <1>3. CASE index = Missing /\ work[p].op # "create"
    BY <1>1, <1>3, DoneIsOver, WorkingEnd DEF Locate
  <1>4. ASSUME ~(index = Missing /\ work[p].op # "create")
        PROVE  ArchiveOK'
    <2> DEFINE s == IF index = Missing THEN "farch" ELSE "load"
               c == IF index = Missing THEN Apply(work[p].opt, NewConfig)
                    ELSE [NewConfig EXCEPT !.afd = index.afd, !.private = index.private]
    <2>1. c \in Configs
      <3>1. CASE index = Missing BY <3>1, Applied, NewConfigIsOne
      <3>2. CASE index # Missing
        BY <1>1, <3>2 DEF ArchiveKinds, IndexEntries, NewConfig, Configs
      <3> QED BY <3>1, <3>2
    <2>2. GoesOn(p, s, c)
      <3>1. CASE index = Missing
        <4>1. work' = [work EXCEPT ![p].st = "farch", ![p].found = FALSE, ![p].conf = c]
          BY <1>4, <3>1 DEF Locate
        <4>2. GoesOn(p, "farch", c) BY <1>1, <2>1, <4>1, FoundGoesOn
        <4> QED BY <3>1, <4>2
      <3>2. CASE index # Missing
        <4>1. work' = [work EXCEPT ![p].st = "load", ![p].conf = c]
          BY <1>4, <3>2 DEF Locate
        <4> QED BY <1>1, <2>1, <3>2, <4>1, ConfGoesOn
      <3> QED BY <3>1, <3>2
    <2>a. index # Missing => c.afd = index.afd /\ c.private = index.private
      BY <1>1 DEF ArchiveKinds, IndexEntries, NewConfig
    <2>b. index = Missing => c = Apply(work[p].opt, NewConfig) OBVIOUS
    <2> HIDE DEF c
    <2>3. /\ Only(p) /\ IsRequest(work'[p]) /\ work'[p].st = s /\ work'[p].conf = c
          /\ work'[p].op = work[p].op /\ work'[p].opt = work[p].opt
      BY <2>2 DEF GoesOn
    <2>4. s \in Stage(work[p].op)
      <3>1. work[p].op # "post" BY <1>1, <1>2 DEF Stage, Filing
      <3>2. CASE index = Missing BY <1>4, <3>2 DEF Stage, Filing
      <3>3. CASE index # Missing BY <1>2, <3>1, <3>3 DEF Stage, Filing, Ops
      <3> QED BY <3>2, <3>3
    <2>5. ArchiveKinds'
      <3>1. index' \in IndexEntries \cup {Missing} /\ config' \in Configs \cup {Missing} /\ wanted' \in Configs
        BY <1>1 DEF ArchiveKinds
      <3> QED BY <1>1, <2>3, <2>4, <3>1, KindsKept
    <2>6. HolderOK' BY <1>1, <2>3, HolderKept DEF OutsideLock
    <2>7. AloneOK'
      <3>1. \A x \in Filers \ {p} : UnderWay(x) => {work[p].op, work[x].op} \cap Changing = {}
        BY DEF Locate, Overlaps
      <3>2. \A x \in Filers \ {p} : Active(x) => work[p].op \notin Changing /\ work[x].op \notin Changing
        BY <1>1, <3>1, FreeUnderWay
      <3>3. \A x \in Filers \ {p} : work'[x] = work[x] /\ (Active(x)' <=> Active(x))
        BY <2>3 DEF Only, Active, AtWork
      <3> QED BY <1>1, <2>3, <3>2, <3>3 DEF AloneOK
    <2>8. ThereOK' BY <1>1, <2>3, ThereKept DEF At
    <2>9. SteadyOK' BY <1>1, <2>3, SteadyKept DEF At, Unsettled
    <2>10. WorkOK'
      <3>1. CASE index = Missing
        <4>1. work[p].op \in Settling BY <1>4, <3>1 DEF Settling
        <4>2. HasApplied(work[p])' BY <1>1, <2>b, <2>3, <3>1 DEF HasApplied, Missing, Apply, NewConfig
        <4>3. WorkOf(work[p])' BY <2>3, <3>1, <4>1, <4>2 DEF WorkOf
        <4> QED BY <1>1, <2>3, <4>3, WorkKept
      <3>2. CASE index # Missing
        <4>1. HasLooked(work[p])' BY <1>1, <2>a, <2>3, <3>2 DEF HasLooked, Missing
        <4>2. WorkOf(work[p])' BY <2>3, <3>2, <4>1 DEF WorkOf
        <4> QED BY <1>1, <2>3, <4>2, WorkKept
      <3> QED BY <3>1, <3>2
    <2> QED BY <2>5, <2>6, <2>7, <2>8, <2>9, <2>10 DEF ArchiveOK
  <1> QED BY <1>3, <1>4

\* INDEX and CONFIG agree while somebody is between looking and asking farch.
LEMMA AloneSteady ==
  ASSUME NEW p \in Filers, ArchiveKinds, AloneOK, SteadyOK, Active(p), index # Missing,
         work[p].st \notin Unsettled
  PROVE  Agreed
PROOF
  <1>1. \A q \in Filers : At(q, Unsettled) => Active(q) /\ work[q].op \in Changing
    <2> SUFFICES ASSUME NEW q \in Filers, At(q, Unsettled) PROVE Active(q) /\ work[q].op \in Changing
      OBVIOUS
    <2>1. work[q].st \in Stage(work[q].op) /\ work[q].op \in Ops BY StagesOfWork DEF At
    <2>2. work[q].op \in Changing
      BY <2>1 DEF At, Unsettled, Stage, Filing, Ops, Changing, Settling
    <2> QED BY <2>2 DEF At, Unsettled, Active, Changing, Settling
  <1> QED BY <1>1 DEF AloneOK, SteadyOK, At

LEMMA LoadKeeps ==
  ASSUME NEW p \in Filers, ArchiveOK, Load(p)
  PROVE  ArchiveOK'
PROOF
  <1> DEFINE r == work[p]
             c == [config EXCEPT !.afd = @ \/ r.conf.afd, !.private = @ \/ r.conf.private]
             s == IF r.op \in Filing THEN "text" ELSE "farch"
             d == IF r.op \in Settling THEN Apply(r.opt, c) ELSE c
  <1>1. /\ ArchiveKinds /\ HolderOK /\ AloneOK /\ ThereOK /\ SteadyOK /\ WorkOK
        /\ AtWork(p) /\ r.st = "load" /\ UNCHANGED <<index, config, wanted, holder>>
    BY DEF Load, archive, ArchiveOK
  <1>2. r.op \in Ops /\ IsRequest(r) /\ r.st \in Stage(r.op) /\ r.conf \in Configs BY <1>1, StagesOfWork
  <1>3. r.op # "post" /\ Active(p) BY <1>1, <1>2 DEF Stage, Filing, Active
  <1>4. HasLooked(r) BY <1>1, <1>3 DEF WorkOK, WorkOf
  <1>5. Agreed BY <1>1, <1>3, <1>4, AloneSteady DEF Unsettled, HasLooked
  <1>6. config \in Configs BY <1>1, <1>5 DEF Agreed, ArchiveKinds
  <1>7. c = config
    <2>1. r.conf.afd = config.afd /\ r.conf.private = config.private
      BY <1>4, <1>5 DEF HasLooked, Agreed
    <2>2. config.afd \in BOOLEAN /\ config.private \in BOOLEAN BY <1>6 DEF Configs
    <2>3. (config.afd \/ r.conf.afd) = config.afd /\ (config.private \/ r.conf.private) = config.private
      BY <2>1, <2>2
    <2> QED BY <1>6, <2>3 DEF Configs
  <1> HIDE DEF c
  <1>8. CASE config = Missing \/ (r.op \in Settling /\ Refused(r.opt, c, TRUE))
    BY <1>1, <1>8, DoneIsOver, WorkingEnd DEF Load, c
  <1>9. ASSUME ~(config = Missing \/ (r.op \in Settling /\ Refused(r.opt, c, TRUE)))
        PROVE  ArchiveOK'
    <2>1. work' = [work EXCEPT ![p].st = s, ![p].conf = d] BY <1>9 DEF Load, c
    <2>2. d \in Configs BY <1>6, <1>7, Applied
    <2>3. r.op \in Settling => d = Apply(r.opt, config) /\ d.private = config.private
      BY <1>6, <1>7, <1>9, Applied
    <2>4. r.op \notin Settling => d = config BY <1>7
    <2>5. s \in Stage(r.op) BY <1>2, <1>3 DEF Stage, Filing, Ops
    <2>6. s \in {"text", "farch"} OBVIOUS
    <2>7. r.op \in Settling => s = "farch" BY DEF Settling, Filing
    <2> HIDE DEF d, s
    <2>8. GoesOn(p, s, d) BY <1>1, <2>1, <2>2, ConfGoesOn
    <2>9. /\ Only(p) /\ IsRequest(work'[p]) /\ work'[p].st = s /\ work'[p].conf = d
          /\ work'[p].op = r.op /\ work'[p].opt = r.opt
      BY <2>8 DEF GoesOn
    <2>10. HasRead(work[p])' \/ r.op \in Settling
      BY <1>1, <1>4, <1>5, <2>4, <2>9 DEF HasRead, HasLooked, Agreed, Missing
    <2>11. HasApplied(work[p])' \/ r.op \notin Settling
      BY <1>1, <1>4, <2>3, <2>9 DEF HasApplied, HasLooked, Missing, Apply, NewConfig
    <2>12. WorkOf(work[p])' BY <2>6, <2>9, <2>10, <2>11 DEF WorkOf, Settling
    <2>13. Active(p)' => Active(p) BY <1>3
    <2>14. ~At(p, {"rmdir"})' /\ ~At(p, {"rmdir"}) /\ ~At(p, Unsettled)
      BY <1>1, <2>6, <2>9 DEF At, Unsettled
    <2>15. work'[p].st \in OutsideLock BY <2>6, <2>9 DEF OutsideLock
    <2> QED BY <1>1, <2>5, <2>9, <2>12, <2>13, <2>14, <2>15, AllKept
  <1> QED BY <1>8, <1>9

LEMMA TextKeeps ==
  ASSUME NEW p \in Filers, ArchiveOK, Text(p)
  PROVE  ArchiveOK'
PROOF
  <1>1. /\ ArchiveKinds /\ WorkOK /\ AtWork(p) /\ work[p].st = "text" /\ To(p, "farch")
        /\ UNCHANGED <<index, config, wanted, holder>>
    BY DEF Text, archive, ArchiveOK
  <1>2. work[p].op \in Ops /\ work[p].st \in Stage(work[p].op) BY <1>1, StagesOfWork
  <1>3. work[p].op \in Filing BY <1>1, <1>2 DEF Stage
  <1>4. GoesOn(p, "farch", work[p].conf) BY <1>1, ToGoesOn
  <1>5. /\ Only(p) /\ IsRequest(work'[p]) /\ work'[p].st = "farch" /\ work'[p].conf = work[p].conf
        /\ work'[p].op = work[p].op
    BY <1>4 DEF GoesOn
  <1>6. "farch" \in Stage(work[p].op) BY <1>3 DEF Stage, Filing
  <1>7. Active(p) BY <1>1, <1>3 DEF Active, Filing
  <1>8. HasRead(work[p]) BY <1>1, <1>3, <1>7 DEF WorkOK, WorkOf, Filing, Settling
  <1>9. HasRead(work[p])' BY <1>1, <1>5, <1>8 DEF HasRead, Missing
  <1>10. WorkOf(work[p])' BY <1>3, <1>5, <1>9 DEF WorkOf, Filing, Settling
  <1>11. ~At(p, {"rmdir"})' /\ ~At(p, {"rmdir"}) /\ ~At(p, Unsettled)
    BY <1>1, <1>5 DEF At, Unsettled
  <1> QED BY <1>1, <1>5, <1>6, <1>7, <1>10, <1>11, AllKept DEF OutsideLock

\* Whoever creates, modifies or removes the archive is the only one at work.
LEMMA ChangingAlone ==
  ASSUME NEW p \in Filers, ArchiveKinds, AloneOK, Active(p), work[p].op \in Changing
  PROVE  \A q \in Filers \ {p} : ~Active(q) /\ ~At(q, Unsettled)
PROOF
  <1> SUFFICES ASSUME NEW q \in Filers \ {p} PROVE ~Active(q) /\ ~At(q, Unsettled)
    OBVIOUS
  <1>1. ~Active(q) BY DEF AloneOK
  <1>2. At(q, Unsettled) => work[q].st \in Stage(work[q].op) BY StagesOfWork DEF At
  <1>3. At(q, Unsettled) => Active(q) BY <1>2 DEF At, Unsettled, Active, Stage, Filing
  <1> QED BY <1>1, <1>3

LEMMA ChangeKept ==
  ASSUME NEW p \in Filers, ArchiveOK, Active(p), work[p].op \in Changing, Only(p),
         holder' = holder \/ holder = p \/ holder = NoOne,
         AtWork(p)' => /\ IsRequest(work'[p]) /\ work'[p].st \in Stage(work'[p].op)
                       /\ work'[p].op = work[p].op /\ (work'[p].st \notin OutsideLock => holder' = p),
         index' \in IndexEntries \cup {Missing}, config' \in Configs \cup {Missing}, wanted' \in Configs,
         index' # Missing => config' # Missing,
         At(p, {"rmdir"})' => index' = Missing,
         ~At(p, {"rmdir"})' => (config' # Missing => index' # Missing),
         ~At(p, Unsettled)' /\ index' # Missing => Agreed',
         Active(p)' => WorkOf(work[p])'
  PROVE  ArchiveOK'
PROOF
  <1>1. ArchiveKinds /\ HolderOK /\ AloneOK /\ ThereOK /\ SteadyOK /\ WorkOK BY DEF ArchiveOK
  <1>2. \A q \in Filers \ {p} : ~Active(q) /\ ~At(q, Unsettled) BY <1>1, ChangingAlone
  <1>3. \A q \in Filers \ {p} : ~Active(q)' /\ ~At(q, Unsettled)' /\ ~At(q, {"rmdir"})'
    BY <1>2 DEF Only, Active, At, AtWork, Unsettled
  <1>4. ArchiveKinds' BY <1>1, KindsKept
  <1>5. HolderOK' BY <1>1, HolderKept
  <1>6. Active(p)' => Active(p) /\ work'[p].op = work[p].op BY DEF Active
  <1>7. AloneOK' BY <1>1, <1>6, AloneKept
  <1>8. ThereOK' BY <1>3 DEF ThereOK, Missing
  <1>9. SteadyOK' BY <1>3 DEF SteadyOK, Missing
  <1>10. WorkOK' BY <1>3 DEF WorkOK
  <1> QED BY <1>4, <1>5, <1>7, <1>8, <1>9, <1>10 DEF ArchiveOK

LEMMA SaveConfigKeeps ==
  ASSUME NEW p \in Filers, ArchiveOK, SaveConfig(p)
  PROVE  ArchiveOK'
PROOF
  <1>1. /\ ArchiveKinds /\ HolderOK /\ AloneOK /\ ThereOK /\ SteadyOK /\ WorkOK
        /\ AtWork(p) /\ work[p].st = "save" /\ UNCHANGED <<index, holder>> /\ Done(p)
    BY DEF SaveConfig, ArchiveOK
  <1>2. work[p].op \in Ops /\ work[p].st \in Stage(work[p].op) /\ work[p].conf \in Configs
    BY <1>1, StagesOfWork
  <1>3. work[p].op \in Changing /\ Active(p)
    BY <1>1, <1>2 DEF Stage, Filing, Ops, Changing, Settling, Active
  <1>4. HasMarked(work[p]) BY <1>1, <1>3 DEF WorkOK, WorkOf
  <1>5. config # Missing BY <1>1, <1>4 DEF ThereOK, HasMarked
  <1>6. config' = work[p].conf /\ wanted' = Apply(work[p].opt, wanted)
    BY <1>4, <1>5 DEF SaveConfig, HasMarked
  <1>7. config' = wanted' /\ config' \in Configs BY <1>2, <1>4, <1>6 DEF HasMarked
  <1>8. config' # Missing /\ index' # Missing /\ index' \in IndexEntries \cup {Missing}
    BY <1>1, <1>2, <1>4, <1>6 DEF HasMarked, ArchiveKinds, Missing, Configs
  <1>9. Agreed' BY <1>1, <1>4, <1>6, <1>7 DEF Agreed, HasMarked
  <1>10. Only(p) /\ ~AtWork(p)' BY <1>1, DoneIsOver DEF IsOver, AtWork
  <1> QED BY <1>1, <1>3, <1>7, <1>8, <1>9, <1>10, ChangeKept DEF At, Active

LEMMA DelistKeeps ==
  ASSUME NEW p \in Filers, ArchiveOK, Delist(p)
  PROVE  ArchiveOK'
PROOF
  <1>1. /\ ArchiveKinds /\ HolderOK /\ AloneOK /\ ThereOK /\ SteadyOK /\ WorkOK
        /\ AtWork(p) /\ work[p].st = "delist" /\ UNCHANGED <<config, wanted, holder>> /\ To(p, "rmdir")
        /\ index' = Missing
    BY DEF Delist, ArchiveOK
  <1>2. work[p].op \in Ops /\ work[p].st \in Stage(work[p].op) BY <1>1, StagesOfWork
  <1>3. work[p].op = "remove" BY <1>1, <1>2 DEF Stage, Filing, Ops
  <1>4. work[p].op \in Changing /\ Active(p) /\ holder = p
    BY <1>1, <1>3 DEF Changing, Active, HolderOK, OutsideLock
  <1>5. GoesOn(p, "rmdir", work[p].conf) BY <1>1, ToGoesOn
  <1>6. /\ Only(p) /\ IsRequest(work'[p]) /\ work'[p].st = "rmdir" /\ work'[p].op = work[p].op
    BY <1>5 DEF GoesOn
  <1>7. "rmdir" \in Stage(work[p].op) BY <1>3 DEF Stage, Filing
  <1>8. At(p, {"rmdir"})' BY <1>6 DEF At, AtWork, NoWork
  <1>9. WorkOf(work[p])' BY <1>6 DEF WorkOf
  <1>10. config' \in Configs \cup {Missing} /\ wanted' \in Configs BY <1>1 DEF ArchiveKinds
  <1> QED BY <1>1, <1>4, <1>6, <1>7, <1>8, <1>9, <1>10, ChangeKept

LEMMA RmDirKeeps ==
  ASSUME NEW p \in Filers, ArchiveOK, RmDir(p)
  PROVE  ArchiveOK'
PROOF
  <1>1. /\ ArchiveKinds /\ HolderOK /\ AloneOK /\ ThereOK /\ SteadyOK /\ WorkOK
        /\ AtWork(p) /\ work[p].st = "rmdir" /\ UNCHANGED <<index, wanted>> /\ Done(p)
        /\ config' = Missing /\ holder' = NoOne
    BY DEF RmDir, ArchiveOK
  <1>2. work[p].op \in Ops /\ work[p].st \in Stage(work[p].op) BY <1>1, StagesOfWork
  <1>3. work[p].op = "remove" BY <1>1, <1>2 DEF Stage, Filing, Ops
  <1>4. work[p].op \in Changing /\ Active(p) /\ holder = p
    BY <1>1, <1>3 DEF Changing, Active, HolderOK, OutsideLock
  <1>5. index = Missing BY <1>1 DEF ThereOK, At
  <1>6. Only(p) /\ ~AtWork(p)' BY <1>1, DoneIsOver DEF IsOver, AtWork
  <1>7. wanted' \in Configs BY <1>1 DEF ArchiveKinds
  <1> QED BY <1>1, <1>4, <1>5, <1>6, <1>7, ChangeKept DEF At, Active, Missing

LEMMA UnfileKeeps ==
  ASSUME NEW p \in Filers, ArchiveOK, Unfile(p)
  PROVE  ArchiveOK'
PROOF
  <1>1. /\ ArchiveKinds /\ HolderOK /\ AloneOK /\ ThereOK /\ SteadyOK /\ WorkOK
        /\ AtWork(p) /\ work[p].st = "unfile" /\ UNCHANGED <<config, wanted, holder>>
    BY DEF Unfile, ArchiveOK
  <1>2. work[p].op \in Ops /\ work[p].st \in Stage(work[p].op) /\ IsRequest(work[p]) BY <1>1, StagesOfWork
  <1>3. work[p].op = "remove" BY <1>1, <1>2 DEF Stage, Filing, Ops
  <1>4. work[p].op \in Changing /\ Active(p) /\ holder = p
    BY <1>1, <1>3 DEF Changing, Active, HolderOK, OutsideLock
  <1>5. index # Missing /\ config # Missing BY <1>1, <1>4 DEF WorkOK, WorkOf, ThereOK
  <1>6. config' \in Configs \cup {Missing} /\ wanted' \in Configs /\ config' # Missing
    BY <1>1, <1>5 DEF ArchiveKinds, Missing
  <1>7. index \in IndexEntries BY <1>1, <1>5 DEF ArchiveKinds
  <1>8. CASE index' = [index EXCEPT !.afd = FALSE] /\ UNCHANGED work
    <2>1. index' \in IndexEntries /\ index' # Missing BY <1>7, <1>8 DEF IndexEntries, Missing
    <2>2. Only(p) BY <1>1, <1>8 DEF Only, ArchiveKinds
    <2>3. At(p, Unsettled)' /\ ~At(p, {"rmdir"})' BY <1>1, <1>8 DEF At, Unsettled, AtWork
    <2>4. WorkOf(work[p])' BY <1>1, <1>8, <2>1 DEF WorkOf, Missing
    <2> QED BY <1>1, <1>2, <1>4, <1>6, <1>8, <2>1, <2>2, <2>3, <2>4, ChangeKept
  <1>9. CASE To(p, "delist") /\ UNCHANGED index
    <2>1. GoesOn(p, "delist", work[p].conf) BY <1>1, <1>9, ToGoesOn
    <2>2. /\ Only(p) /\ IsRequest(work'[p]) /\ work'[p].st = "delist" /\ work'[p].op = work[p].op
      BY <2>1 DEF GoesOn
    <2>3. "delist" \in Stage(work[p].op) BY <1>3 DEF Stage, Filing
    <2>4. At(p, Unsettled)' /\ ~At(p, {"rmdir"})' BY <2>2 DEF At, AtWork, NoWork, Unsettled
    <2>5. index' # Missing /\ index' \in IndexEntries BY <1>5, <1>7, <1>9 DEF Missing
    <2>6. WorkOf(work[p])' BY <2>2, <2>5 DEF WorkOf, Missing
    <2> QED BY <1>1, <1>4, <1>6, <2>2, <2>3, <2>4, <2>5, <2>6, ChangeKept
  <1> QED BY <1>1, <1>8, <1>9 DEF Unfile

\* While the lock is free and the archive not in the INDEX, there is no directory.
LEMMA NoDirectory ==
  ASSUME ArchiveAssumption, ArchiveOK, holder = NoOne, index = Missing
  PROVE  config = Missing
PROOF
  <1>1. \A q \in Filers : ~At(q, {"rmdir"}) BY DEF ArchiveOK, HolderOK, At, OutsideLock
  <1> QED BY <1>1 DEF ArchiveOK, ThereOK

LEMMA NewArchiveKeeps ==
  ASSUME NEW p \in Filers, ArchiveAssumption, ArchiveOK, NewArchive(p)
  PROVE  ArchiveOK'
PROOF
  <1>1. /\ ArchiveKinds /\ HolderOK /\ AloneOK /\ ThereOK /\ SteadyOK /\ WorkOK
        /\ AtWork(p) /\ work[p].st = "farch" /\ holder = NoOne /\ index = Missing
        /\ work[p].op \in Filing \cup Settling
        /\ MakeIndexes(work[p].conf.afd, work[p].op \in Settling /\ work[p].conf.private)
    BY DEF NewArchive, ArchiveOK
  <1>2. work[p].conf \in Configs BY <1>1, StagesOfWork
  <1>3. Active(p) BY <1>1 DEF Active, Filing, Settling
  <1>4. work[p].op \in Settling BY <1>1, <1>3 DEF WorkOK, WorkOf, HasRead
  <1>5. To(p, "save") /\ holder' = holder BY <1>4 DEF NewArchive
  <1>6. work[p].conf = Apply(work[p].opt, NewConfig) BY <1>1, <1>3, <1>4 DEF WorkOK, WorkOf, HasApplied
  <1>7. config = Missing BY <1>1, NoDirectory
  <1>8. index' = [afd |-> work[p].conf.afd, private |-> work[p].conf.private]
    <2>1. (work[p].op \in Settling /\ work[p].conf.private) = work[p].conf.private
      BY <1>2, <1>4 DEF Configs
    <2> QED BY <1>1, <2>1 DEF MakeIndexes
  <1>9. config' = NewConfig /\ wanted' = NewConfig BY <1>1, <1>7 DEF MakeIndexes
  <1>10. index' \in IndexEntries /\ index' # Missing BY <1>2, <1>8 DEF IndexEntries, Configs, Missing
  <1>11. config' \in Configs /\ wanted' \in Configs /\ config' # Missing
    BY <1>9, NewConfigIsOne DEF Missing, Configs
  <1>12. GoesOn(p, "save", work[p].conf) BY <1>1, <1>5, ToGoesOn
  <1>13. /\ Only(p) /\ IsRequest(work'[p]) /\ work'[p].st = "save" /\ work'[p].op = work[p].op
         /\ work'[p].conf = work[p].conf /\ work'[p].opt = work[p].opt
    BY <1>12 DEF GoesOn
  <1>14. "save" \in Stage(work[p].op) BY <1>4 DEF Settling, Stage, Filing
  <1>15. At(p, Unsettled)' /\ ~At(p, {"rmdir"})' BY <1>13 DEF At, AtWork, NoWork, Unsettled
  <1>16. HasMarked(work[p])'
    BY <1>6, <1>8, <1>9, <1>10, <1>13 DEF HasMarked, Missing, Apply, NewConfig
  <1>17. WorkOf(work[p])' BY <1>13, <1>16 DEF WorkOf
  <1>18. work[p].op \in Changing BY <1>4 DEF Changing
  <1> QED BY <1>1, <1>3, <1>5, <1>10, <1>11, <1>13, <1>14, <1>15, <1>17, <1>18, ChangeKept DEF OutsideLock

LEMMA OldArchiveKeeps ==
  ASSUME NEW p \in Filers, ArchiveAssumption, ArchiveOK, OldArchive(p)
  PROVE  ArchiveOK'
PROOF
  <1>1. /\ ArchiveKinds /\ HolderOK /\ AloneOK /\ ThereOK /\ SteadyOK /\ WorkOK
        /\ AtWork(p) /\ work[p].st = "farch" /\ holder = NoOne /\ index # Missing
        /\ UNCHANGED <<config, wanted>>
    BY DEF OldArchive, ArchiveOK
  <1>2. work[p].op \in Ops /\ work[p].st \in Stage(work[p].op) /\ work[p].conf \in Configs
    BY <1>1, StagesOfWork
  <1>3. work[p].op # "post" BY <1>1, <1>2 DEF Stage, Filing
  <1>4. Active(p) BY <1>1, <1>3 DEF Active
  <1>5. Agreed BY <1>1, <1>4, AloneSteady DEF Unsettled
  <1>6. index \in IndexEntries BY <1>1 DEF ArchiveKinds
  <1>7. config' \in Configs /\ wanted' \in Configs /\ config' # Missing
    <2>1. config \in Configs /\ wanted \in Configs BY <1>1, <1>5 DEF ArchiveKinds, Agreed
    <2>2. config # Missing BY <1>1 DEF ThereOK
    <2> QED BY <1>1, <2>1, <2>2 DEF Missing
  <1>8. CASE work[p].op \in Settling
    <2>1. index' = [index EXCEPT !.afd = work[p].conf.afd] /\ To(p, "save") /\ holder' = holder
      BY <1>8 DEF OldArchive, Settling
    <2>2. work[p].conf = Apply(work[p].opt, config) /\ work[p].conf.private = config.private
      BY <1>1, <1>4, <1>8 DEF WorkOK, WorkOf, HasApplied
    <2>3. /\ index' \in IndexEntries /\ index' # Missing
          /\ index'.afd = work[p].conf.afd /\ index'.private = index.private
      BY <1>2, <1>6, <2>1 DEF IndexEntries, Configs, Missing
    <2>4. GoesOn(p, "save", work[p].conf) BY <1>1, <2>1, ToGoesOn
    <2>5. /\ Only(p) /\ IsRequest(work'[p]) /\ work'[p].st = "save" /\ work'[p].op = work[p].op
          /\ work'[p].conf = work[p].conf /\ work'[p].opt = work[p].opt
      BY <2>4 DEF GoesOn
    <2>6. "save" \in Stage(work[p].op) BY <1>8 DEF Settling, Stage, Filing
    <2>7. At(p, Unsettled)' /\ ~At(p, {"rmdir"})' BY <2>5 DEF At, AtWork, NoWork, Unsettled
    <2>8. HasMarked(work[p])'
      BY <1>1, <1>5, <2>2, <2>3, <2>5 DEF HasMarked, Agreed, Missing, Apply
    <2>9. WorkOf(work[p])' BY <2>5, <2>8 DEF WorkOf
    <2>10. work[p].op \in Changing BY <1>8 DEF Changing
    <2> QED BY <1>1, <1>4, <1>7, <2>1, <2>3, <2>5, <2>6, <2>7, <2>9, <2>10, ChangeKept DEF OutsideLock
  <1>9. CASE work[p].op = "remove"
    <2>1. index' = index /\ To(p, "unfile") /\ holder' = p
      BY <1>9 DEF OldArchive, Settling, Filing
    <2>2. GoesOn(p, "unfile", work[p].conf) BY <1>1, <2>1, ToGoesOn
    <2>3. /\ Only(p) /\ IsRequest(work'[p]) /\ work'[p].st = "unfile" /\ work'[p].op = work[p].op
      BY <2>2 DEF GoesOn
    <2>4. "unfile" \in Stage(work[p].op) BY <1>9 DEF Stage, Filing
    <2>5. At(p, Unsettled)' /\ ~At(p, {"rmdir"})' BY <2>3 DEF At, AtWork, NoWork, Unsettled
    <2>6. index' \in IndexEntries /\ index' # Missing BY <1>1, <1>6, <2>1 DEF Missing
    <2>7. WorkOf(work[p])' BY <2>3, <2>6 DEF WorkOf, Missing
    <2>8. work[p].op \in Changing BY <1>9 DEF Changing
    <2> QED BY <1>1, <1>4, <1>7, <2>1, <2>3, <2>4, <2>5, <2>6, <2>7, <2>8, ChangeKept DEF OutsideLock
  <1>10. CASE work[p].op \in Filing \cup {"delete"}
    <2> DEFINE s == IF work[p].op \in Filing THEN "read" ELSE "drop"
    <2>1. index' = [index EXCEPT !.afd = work[p].conf.afd] /\ To(p, s) /\ holder' = p
      BY <1>10 DEF OldArchive, Settling, Filing
    <2>2. s \in Stage(work[p].op) /\ s \in {"read", "drop"} BY <1>10 DEF Stage, Filing
    <2> HIDE DEF s
    <2>3. work[p].conf.afd = index.afd
      BY <1>1, <1>4, <1>10 DEF WorkOK, WorkOf, HasRead, Filing, Settling
    <2>4. index' = index BY <1>6, <2>1, <2>3 DEF IndexEntries
    <2>5. GoesOn(p, s, work[p].conf) BY <1>1, <2>1, ToGoesOn
    <2> QED BY <1>1, <2>1, <2>2, <2>4, <2>5, WorkingStep DEF Working
  <1> QED BY <1>2, <1>3, <1>8, <1>9, <1>10 DEF Ops, Filing, Settling

LEMMA PostKeeps ==
  ASSUME NEW p \in Filers, ArchiveAssumption, ArchiveOK, Post(p), "overlap" \notin past'
  PROVE  ArchiveOK'
PROOF
  <1>1. /\ ArchiveKinds /\ HolderOK /\ AloneOK /\ ThereOK /\ SteadyOK /\ WorkOK
        /\ AtWork(p) /\ work[p].st = "post" /\ holder = NoOne /\ holder' = p /\ To(p, "old")
    BY DEF Post, ArchiveOK
  <1>2. work[p].op \in Ops /\ work[p].st \in Stage(work[p].op) BY <1>1, StagesOfWork
  <1>3. work[p].op = "post" BY <1>1, <1>2 DEF Stage, Filing, Ops
  <1>4. GoesOn(p, "old", work[p].conf) BY <1>1, ToGoesOn
  <1>5. "old" \in Stage(work[p].op) BY <1>3 DEF Stage, Filing
  <1>6. CASE index # Missing
    <2>1. UNCHANGED <<index, config, wanted>> BY <1>6 DEF Post
    <2> QED BY <1>1, <1>4, <1>5, <2>1, WorkingStep DEF Working
  <1>7. CASE index = Missing
    <2>1. config = Missing BY <1>1, <1>7, NoDirectory
    <2>2. /\ index' = [afd |-> FALSE, private |-> FALSE] /\ config' = NewConfig /\ wanted' = NewConfig
      BY <1>7, <2>1 DEF Post, MakeIndexes
    <2>3. /\ index' \in IndexEntries /\ index' # Missing
          /\ config' \in Configs /\ config' # Missing /\ wanted' \in Configs
      BY <2>2 DEF IndexEntries, Configs, NewConfig, Missing
    <2>4. Agreed' BY <2>2 DEF Agreed, NewConfig
    <2>5. /\ Only(p) /\ IsRequest(work'[p]) /\ work'[p].st = "old" /\ work'[p].op = "post"
      BY <1>3, <1>4 DEF GoesOn
    <2>6. ArchiveKinds' BY <1>1, <1>3, <1>5, <2>3, <2>5, KindsKept
    <2>7. HolderOK' BY <1>1, <2>5, HolderKept
    <2>8. ~Active(p)' /\ ~At(p, {"rmdir"})' BY <2>5 DEF Active, At
    <2>9. AloneOK' BY <1>1, <2>5, <2>8, AloneKept
    <2>10. \A q \in Filers : At(q, {"rmdir"})' => At(q, {"rmdir"}) BY <2>5, <2>8 DEF At, Only, AtWork
    <2>11. \A q \in Filers : ~At(q, {"rmdir"}) BY <1>1, ArchiveAssumption DEF HolderOK, At, OutsideLock
    <2>12. ThereOK' BY <2>3, <2>10, <2>11 DEF ThereOK, Missing
    <2>13. SteadyOK' BY <2>4 DEF SteadyOK
    <2>14. WorkOK'
      <3> SUFFICES ASSUME NEW q \in Filers, Active(q)' PROVE WorkOf(work[q])'
        BY DEF WorkOK
      <3>1. q # p BY <2>8
      <3>2. work'[q] = work[q] /\ Active(q) BY <2>5, <3>1 DEF Only, Active, AtWork
      <3>3. WorkOf(work[q]) BY <1>1, <3>2 DEF WorkOK
      <3>4. UnderWay(q) BY <1>1, <3>2, FreeUnderWay
      <3>5. work[q].st = "farch" /\ work[q].op \in Settling
        <4>1. work[q].st \in Stage(work[q].op) /\ work[q].op \in Ops BY <1>1, <3>2, StagesOfWork DEF Active
        <4>2. work[q].st = "text" => work[q].op \in Filing BY <4>1 DEF Stage
        <4>3. work[q].st # "text" BY <1>7, <3>3, <4>2 DEF WorkOf, HasRead, Filing, Settling
        <4>4. work[q].st # "load" BY <1>7, <3>3 DEF WorkOf, HasLooked
        <4>5. work[q].st # "save" BY <1>7, <3>3 DEF WorkOf, HasMarked
        <4> QED BY <1>7, <3>3, <3>4, <4>3, <4>4, <4>5 DEF WorkOf, HasRead, UnderWay
      <3>6. work[q].conf = Apply(work[q].opt, NewConfig) BY <1>7, <3>3, <3>5 DEF WorkOf, HasApplied
      <3>7. ~work[q].conf.private BY <1>7, <3>4 DEF Post
      <3>8. work[q].conf \in Configs BY <1>1, <3>2, StagesOfWork DEF Active
      <3>9. work[q].conf.private = FALSE BY <3>7, <3>8 DEF Configs
      <3>10. HasApplied(work[q])'
        BY <2>2, <2>3, <3>2, <3>6, <3>9 DEF HasApplied, Missing, Apply, NewConfig
      <3> QED BY <3>2, <3>5, <3>10 DEF WorkOf, Settling
    <2> QED BY <2>6, <2>7, <2>9, <2>12, <2>13, <2>14 DEF ArchiveOK
  <1> QED BY <1>6, <1>7

-----------------------------------------------------------------------------
(* Archive: the theorem *)

LEMMA ArchiveStart ==
  ASSUME AInit
  PROVE  ArchiveOK
PROOF
  <1>1. \A q \in Filers : work[q] = NoWork /\ ~AtWork(q) BY DEF AInit, AtWork
  <1>2. /\ index \in IndexEntries \cup {Missing} /\ config \in Configs \cup {Missing} /\ wanted \in Configs
    BY DEF AInit, IndexEntries, Configs, NewConfig
  <1>3. ArchiveKinds BY <1>1, <1>2 DEF ArchiveKinds, AInit
  <1>4. HolderOK /\ AloneOK /\ WorkOK BY <1>1 DEF HolderOK, AloneOK, WorkOK, Active
  <1>5. ThereOK BY <1>1 DEF ThereOK, At, AInit, Missing, NewConfig
  <1>6. SteadyOK BY <1>1 DEF SteadyOK, Agreed, AInit, Missing, NewConfig
  <1> QED BY <1>3, <1>4, <1>5, <1>6 DEF ArchiveOK

\* What has happened stays so.
LEMMA PastKept ==
  ASSUME NEW p \in Filers,
         \/ AskArchive(p) \/ Locate(p) \/ Load(p) \/ Text(p) \/ CleanUp(p) \/ SaveConfig(p)
         \/ NewArchive(p) \/ NoArchive(p) \/ OldArchive(p)
         \/ OpenText(p) \/ Store(p) \/ Enter(p) \/ AddEntry(p)
         \/ MoveDir(p) \/ UnlinkParts(p) \/ WriteDir(p)
         \/ Unfile(p) \/ Delist(p) \/ RmDir(p)
         \/ Post(p) \/ PostMove(p) \/ PostWrite(p)
  PROVE  past \subseteq past'
PROOF
  <1>1. CASE AskArchive(p) BY <1>1 DEF AskArchive, Happens
  <1>2. CASE Locate(p) BY <1>2 DEF Locate, Happens
  <1>3. CASE Load(p) BY <1>3 DEF Load, Happens
  <1>4. CASE Text(p) BY <1>4 DEF Text, Happens
  <1>5. CASE CleanUp(p) BY <1>5 DEF CleanUp, Happens
  <1>6. CASE SaveConfig(p) BY <1>6 DEF SaveConfig, Happens
  <1>7. CASE NewArchive(p) BY <1>7 DEF NewArchive, Happens
  <1>8. CASE NoArchive(p) BY <1>8 DEF NoArchive, Happens
  <1>9. CASE OldArchive(p) BY <1>9 DEF OldArchive, Happens
  <1>10. CASE OpenText(p) BY <1>10 DEF OpenText, Happens
  <1>11. CASE Store(p) BY <1>11 DEF Store, Happens
  <1>12. CASE Enter(p) BY <1>12 DEF Enter, Happens
  <1>13. CASE AddEntry(p) BY <1>13 DEF AddEntry, Happens
  <1>14. CASE MoveDir(p) BY <1>14 DEF MoveDir, Happens
  <1>15. CASE UnlinkParts(p) BY <1>15 DEF UnlinkParts, Happens
  <1>16. CASE WriteDir(p) BY <1>16 DEF WriteDir, Happens
  <1>17. CASE Unfile(p) BY <1>17 DEF Unfile, Happens
  <1>18. CASE Delist(p) BY <1>18 DEF Delist, Happens
  <1>19. CASE RmDir(p) BY <1>19 DEF RmDir, Happens
  <1>20. CASE Post(p) BY <1>20 DEF Post, Happens
  <1>21. CASE PostMove(p) BY <1>21 DEF PostMove, Happens
  <1>22. CASE PostWrite(p) BY <1>22 DEF PostWrite, Happens
  <1> QED BY <1>1, <1>2, <1>3, <1>4, <1>5, <1>6, <1>7, <1>8, <1>9, <1>10, <1>11, <1>12, <1>13, <1>14, <1>15, <1>16, <1>17, <1>18, <1>19, <1>20, <1>21, <1>22

\* No step changes the setting.
LEMMA SettingStays ==
  ASSUME NEW p \in Filers,
         \/ AskArchive(p) \/ Locate(p) \/ Load(p) \/ Text(p) \/ CleanUp(p) \/ SaveConfig(p)
         \/ NewArchive(p) \/ NoArchive(p) \/ OldArchive(p)
         \/ OpenText(p) \/ Store(p) \/ Enter(p) \/ AddEntry(p)
         \/ MoveDir(p) \/ UnlinkParts(p) \/ WriteDir(p)
         \/ Unfile(p) \/ Delist(p) \/ RmDir(p)
         \/ Post(p) \/ PostMove(p) \/ PostWrite(p) \/ FilerDies(p)
  PROVE  setting' = setting
PROOF
  <1>1. CASE AskArchive(p) BY <1>1 DEF AskArchive
  <1>2. CASE Locate(p) BY <1>2 DEF Locate
  <1>3. CASE Load(p) BY <1>3 DEF Load
  <1>4. CASE Text(p) BY <1>4 DEF Text
  <1>5. CASE CleanUp(p) BY <1>5 DEF CleanUp
  <1>6. CASE SaveConfig(p) BY <1>6 DEF SaveConfig
  <1>7. CASE NewArchive(p) BY <1>7 DEF NewArchive
  <1>8. CASE NoArchive(p) BY <1>8 DEF NoArchive
  <1>9. CASE OldArchive(p) BY <1>9 DEF OldArchive
  <1>10. CASE OpenText(p) BY <1>10 DEF OpenText
  <1>11. CASE Store(p) BY <1>11 DEF Store
  <1>12. CASE Enter(p) BY <1>12 DEF Enter
  <1>13. CASE AddEntry(p) BY <1>13 DEF AddEntry
  <1>14. CASE MoveDir(p) BY <1>14 DEF MoveDir
  <1>15. CASE UnlinkParts(p) BY <1>15 DEF UnlinkParts
  <1>16. CASE WriteDir(p) BY <1>16 DEF WriteDir
  <1>17. CASE Unfile(p) BY <1>17 DEF Unfile
  <1>18. CASE Delist(p) BY <1>18 DEF Delist
  <1>19. CASE RmDir(p) BY <1>19 DEF RmDir
  <1>20. CASE Post(p) BY <1>20 DEF Post
  <1>21. CASE PostMove(p) BY <1>21 DEF PostMove
  <1>22. CASE PostWrite(p) BY <1>22 DEF PostWrite
  <1>23. CASE FilerDies(p) BY <1>23 DEF FilerDies
  <1> QED BY <1>1, <1>2, <1>3, <1>4, <1>5, <1>6, <1>7, <1>8, <1>9, <1>10, <1>11, <1>12, <1>13, <1>14, <1>15, <1>16, <1>17, <1>18, <1>19, <1>20, <1>21, <1>22, <1>23

LEMMA ArchiveNext ==
  ASSUME ArchiveAssumption, setting \in Settings, ArchiveInv, [ANext]_avars
  PROVE  ArchiveInv'
PROOF
  <1> SUFFICES ASSUME Calm' PROVE ArchiveOK'
    BY DEF ArchiveInv, ArchiveOK
  <1>1. CASE UNCHANGED avars
    <2>1. UNCHANGED <<index, config, holder, work, wanted, past>> BY <1>1 DEF avars, archive
    <2>2. ArchiveKinds /\ HolderOK /\ AloneOK /\ ThereOK /\ SteadyOK /\ WorkOK
      BY <2>1 DEF ArchiveInv, ArchiveOK, Calm
    <2>3. ArchiveKinds' BY <2>1, <2>2 DEF ArchiveKinds, AtWork, NoWork, Missing
    <2>4. HolderOK' /\ AloneOK' BY <2>1, <2>2 DEF HolderOK, AloneOK, Active, AtWork, NoWork
    <2>5. ThereOK' /\ SteadyOK'
      BY <2>1, <2>2 DEF ThereOK, SteadyOK, Agreed, At, AtWork, NoWork, Missing
    <2>6. WorkOK'
      <3> SUFFICES ASSUME NEW p \in Filers, Active(p)' PROVE WorkOf(work[p])'
        BY DEF WorkOK
      <3>1. WorkOf(work[p]) BY <2>1, <2>2 DEF WorkOK, Active, AtWork
      <3> QED BY <2>1, <3>1 DEF WorkOf, HasRead, HasLooked, HasApplied, HasMarked, Missing, Apply, NewConfig
    <2> QED BY <2>3, <2>4, <2>5, <2>6 DEF ArchiveOK
  <1>2. ASSUME NEW p \in Filers,
               \/ AskArchive(p) \/ Locate(p) \/ Load(p) \/ Text(p) \/ CleanUp(p) \/ SaveConfig(p)
               \/ NewArchive(p) \/ NoArchive(p) \/ OldArchive(p)
               \/ OpenText(p) \/ Store(p) \/ Enter(p) \/ AddEntry(p)
               \/ MoveDir(p) \/ UnlinkParts(p) \/ WriteDir(p)
               \/ Unfile(p) \/ Delist(p) \/ RmDir(p)
               \/ Post(p) \/ PostMove(p) \/ PostWrite(p) \/ FilerDies(p)
        PROVE  ArchiveOK'
    <2>1. ~FilerDies(p) BY DEF FilerDies, Happens, Calm
    <2>3. past \subseteq past' BY <1>2, <2>1, PastKept
    <2>2. ArchiveOK /\ "overlap" \notin past' BY <2>3 DEF ArchiveInv, ArchiveOK, Calm
    <2> QED BY <1>2, <2>1, <2>2, AskArchiveKeeps, LocateKeeps, LoadKeeps, TextKeeps, CleanUpKeeps, SaveConfigKeeps,
         NewArchiveKeeps, NoArchiveKeeps, OldArchiveKeeps, OpenTextKeeps, StoreKeeps, EnterKeeps,
         AddEntryKeeps, MoveDirKeeps, UnlinkPartsKeeps, WriteDirKeeps, UnfileKeeps, DelistKeeps,
         RmDirKeeps, PostKeeps, PostMoveKeeps, PostWriteKeeps
  <1> QED BY <1>1, <1>2 DEF ANext

LEMMA ArchiveSays ==
  ASSUME ArchiveInv
  PROVE  AsConfigured
PROOF
  <1> SUFFICES ASSUME \A p \in Filers : ~AtWork(p), index # Missing, Never({"died", "overlap"})
               PROVE  config = wanted /\ index.afd = config.afd /\ (config.private => index.private)
    BY DEF AsConfigured
  <1>1. SteadyOK BY DEF ArchiveInv, ArchiveOK, Calm, Never
  <1>2. Agreed BY <1>1 DEF SteadyOK, At
  <1> QED BY <1>2 DEF Agreed

(* The configuration is what the answered requests add up to, the INDEX is     *)
(* marked for AFD just as it says, and an archive configured to be private has *)
(* its password in the INDEX, although archive.c looks, farch marks and        *)
(* archive.c writes under three locks, unless requests overlapped with a       *)
(* change of the archive, a post came before a private archive was made, or    *)
(* somebody died.                                                              *)
THEOREM ArchivesAsConfigured == ASpec => []AsConfigured
PROOF
  <1>1. AInit => setting \in Settings /\ ArchiveInv
    BY ArchiveStart DEF AInit, ArchiveInv, ArchiveOK
  <1>2. setting \in Settings /\ ArchiveInv /\ [ANext]_avars => (setting \in Settings /\ ArchiveInv)'
    <2>1. [ANext]_avars => setting' = setting BY SettingStays DEF ANext, avars
    <2> QED BY <2>1, ArchiveAssumption, ArchiveNext
  <1>3. ArchiveInv => AsConfigured BY ArchiveSays
  <1> QED BY <1>1, <1>2, <1>3, PTL DEF ASpec
=============================================================================

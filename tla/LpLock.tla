------------------------------- MODULE LpLock -------------------------------
(***************************************************************************)
(* The interprocess locks of ListProc: lputil/lplock.c over the fcntl      *)
(* record locks wrapped by port/locks.c.                                   *)
(*                                                                         *)
(* Every process keeps a private linked list of the lock files it has      *)
(* open (fds); the kernel keeps who holds a record lock on which file      *)
(* (kern) and who is asleep in F_SETLKW (waits).  A lock is an (resource,  *)
(* individual) pair, which lpl_create_lock_name turns into one file.       *)
(* There is no nesting count: a second lpl_lock by the holder converts the *)
(* lock, and one lpl_unlock gives it up whatever came before.              *)
(***************************************************************************)
EXTENDS FiniteSets

CONSTANTS
    Procs,      \* the processes of the installation (serverd, list, catmail...)
    Locks       \* the lock files: (lpl_resource, individual) pairs

VARIABLES
    fds,        \* [Procs -> SUBSET Locks]: entries of lpl_lock_list_head
    kern,       \* [Locks -> [Procs -> Mode]]: the kernel's record locks
    waits       \* [Procs -> Request]: the F_SETLKW a process sleeps in

vars == <<fds, kern, waits>>

LockType == {"LPL_READ", "LPL_WRITE"}                            \* lpl_type
Mode     == LockType \cup {"none"}
Idle     == [type |-> "none", lock |-> "none"]
Request  == {Idle} \cup [type : LockType, lock : Locks]

TypeOK ==
    /\ fds \in [Procs -> SUBSET Locks]
    /\ kern \in [Locks -> [Procs -> Mode]]
    /\ waits \in [Procs -> Request]

-----------------------------------------------------------------------------
(* What the kernel does with a request. *)

\* The processes whose record lock stops p from having lock l in mode t.
Blockers(p, t, l) ==
    {q \in Procs \ {p} : \/ kern[l][q] = "LPL_WRITE"
                         \/ t = "LPL_WRITE" /\ kern[l][q] # "none"}

\* Those p is waiting for: none when it does not sleep in F_SETLKW.
WaitsFor(p) ==
    {q \in Procs : waits[p] # Idle /\ q \in Blockers(p, waits[p].type, waits[p].lock)}

\* fcntl gives up with EDEADLK when sleeping would close a circle: p is among
\* the processes that its blockers wait for, directly or not.
WouldDeadlock(p, t, l) ==
    \A S \in SUBSET Procs :
        (/\ Blockers(p, t, l) \subseteq S
         /\ \A q \in S : WaitsFor(q) \subseteq S) => p \in S

SetKern(p, l, m) == kern' = [kern EXCEPT ![l] = [@ EXCEPT ![p] = m]]
-----------------------------------------------------------------------------
Init ==
    /\ fds = [p \in Procs |-> {}]
    /\ kern = [l \in Locks |-> [p \in Procs |-> "none"]]
    /\ waits = [p \in Procs |-> Idle]

\* lpl_get_fd: find the entry or open the lock file and store one.
GetFd(p, l) == fds' = [fds EXCEPT ![p] = @ \cup {l}]

\* Faulty variant: the lock file's name differs from process to process.
LockNow_ownFile(p, t, l) ==
    /\ waits[p] = Idle
    /\ GetFd(p, l)
    /\ SetKern(p, l, t)
    /\ UNCHANGED waits

\* lpl_lock when nobody stands in the way: returns SUCCESS.
LockNow(p, t, l) ==
    /\ waits[p] = Idle
    /\ Blockers(p, t, l) = {}
    /\ GetFd(p, l)
    /\ SetKern(p, l, t)
    /\ UNCHANGED waits

\* Faulty variant: the retry loop takes EDEADLK for EINTR and sleeps on.
LockWait_noCheck(p, t, l) ==
    /\ waits[p] = Idle
    /\ Blockers(p, t, l) # {}
    /\ GetFd(p, l)
    /\ waits' = [waits EXCEPT ![p] = [type |-> t, lock |-> l]]
    /\ UNCHANGED kern

\* lpl_lock goes to sleep in F_SETLKW; a lock already held stays as it is.
LockWait(p, t, l) ==
    /\ waits[p] = Idle
    /\ Blockers(p, t, l) # {}
    /\ ~WouldDeadlock(p, t, l)
    /\ GetFd(p, l)
    /\ waits' = [waits EXCEPT ![p] = [type |-> t, lock |-> l]]
    /\ UNCHANGED kern

\* lpl_lock returns FAILURE: the kernel refused to close a circle.
LockFail(p, t, l) ==
    /\ waits[p] = Idle
    /\ Blockers(p, t, l) # {}
    /\ WouldDeadlock(p, t, l)
    /\ GetFd(p, l)
    /\ UNCHANGED <<kern, waits>>

\* Faulty variant: the lock is taken for granted on the first wake-up.
Granted_early(p) ==
    /\ waits[p] # Idle
    /\ SetKern(p, waits[p].lock, waits[p].type)
    /\ waits' = [waits EXCEPT ![p] = Idle]
    /\ UNCHANGED fds

\* The sleeping F_SETLKW is granted and lpl_lock returns SUCCESS.  (EINTR
\* leaves everything as it is: the do-while calls fcntl again.)
Granted(p) ==
    /\ waits[p] # Idle
    /\ WaitsFor(p) = {}
    /\ SetKern(p, waits[p].lock, waits[p].type)
    /\ waits' = [waits EXCEPT ![p] = Idle]
    /\ UNCHANGED fds

\* lpl_try_lock: F_SETLK takes the lock or fails; the entry stays either way.
TryLock(p, t, l) ==
    /\ waits[p] = Idle
    /\ GetFd(p, l)
    /\ \/ Blockers(p, t, l) = {} /\ SetKern(p, l, t)
       \/ Blockers(p, t, l) # {} /\ UNCHANGED kern
    /\ UNCHANGED waits

\* lpl_unlock: port_unlock, then lpl_remove_fd closes the file and drops the
\* entry (it opens and closes a fresh one when the lock was not held).
Unlock(p, l) ==
    /\ waits[p] = Idle
    /\ SetKern(p, l, "none")
    /\ fds' = [fds EXCEPT ![p] = @ \ {l}]
    /\ UNCHANGED waits

\* The process exits or is killed, asleep or not; the kernel closes its files.
\* The same element of Procs then stands for a process started later.
Exit(p) ==
    /\ kern' = [l \in Locks |-> [kern[l] EXCEPT ![p] = "none"]]
    /\ fds' = [fds EXCEPT ![p] = {}]
    /\ waits' = [waits EXCEPT ![p] = Idle]

Next ==
    \E p \in Procs :
        \/ Granted(p)
        \/ Exit(p)
        \/ \E l \in Locks : Unlock(p, l)
        \/ \E t \in LockType, l \in Locks :
               LockNow(p, t, l) \/ LockWait(p, t, l) \/ LockFail(p, t, l) \/ TryLock(p, t, l)

Spec == Init /\ [][Next]_vars
-----------------------------------------------------------------------------
\* A process that writes a resource excludes every other holder of its lock,
\* whatever mixture of lpl_lock, lpl_try_lock, conversions and exits went before.
MutualExclusion ==
    \A l \in Locks : \A p, q \in Procs :
        p # q /\ kern[l][p] = "LPL_WRITE" => kern[l][q] = "none"

\* Every record lock a process holds has its entry in lpl_lock_list_head, so
\* that lpl_unlock finds the descriptor and close() cannot be forgotten.
HeldHasEntry ==
    \A l \in Locks, p \in Procs : kern[l][p] # "none" => l \in fds[p]

\* No set of processes sleeps in lpl_lock each waiting for another of the set:
\* two conversions from LPL_READ to LPL_WRITE, or two locks taken in opposite
\* orders, end in FAILURE for one of them and not in a hang.
NoDeadlock ==
    ~ \E S \in SUBSET Procs :
        S # {} /\ \A p \in S : WaitsFor(p) \cap S # {}

\* The readers/writer lock that callers of lplock.h see.
Abstract == INSTANCE RWLock WITH
    writer  <- [l \in Locks |-> {p \in Procs : kern[l][p] = "LPL_WRITE"}],
    readers <- [l \in Locks |-> {p \in Procs : kern[l][p] = "LPL_READ"}]

\* lplock.c over fcntl keeps the promise of RWLock: each call grants at most
\* the lock asked for, and only when nobody else's lock forbids it.
ImplementsRWLock == Abstract!AbsSpec
=============================================================================

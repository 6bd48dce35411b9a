------------------------------- MODULE RWLock -------------------------------
(***************************************************************************)
(* What lplock.h promises its callers: for each lock one writer or any     *)
(* number of readers, where a holder loses its lock only by its own call   *)
(* or its own death and asking (again) may take time.                      *)
(***************************************************************************)
CONSTANTS Procs, Locks

VARIABLES
    writer,     \* [Locks -> SUBSET Procs]: at most one
    readers     \* [Locks -> SUBSET Procs]

absVars == <<writer, readers>>

AbsInit ==
    /\ writer = [l \in Locks |-> {}]
    /\ readers = [l \in Locks |-> {}]

\* p becomes the writer: it is alone, or it is the only reader.
Write(p, l) ==
    /\ writer[l] \cup readers[l] \subseteq {p}
    /\ writer' = [writer EXCEPT ![l] = {p}]
    /\ readers' = [readers EXCEPT ![l] = {}]

\* p becomes a reader beside the others, or steps down from writer.
Read(p, l) ==
    /\ writer[l] \subseteq {p}
    /\ writer' = [writer EXCEPT ![l] = {}]
    /\ readers' = [readers EXCEPT ![l] = @ \cup {p}]

\* p gives up the locks of L: one of them by lpl_unlock, all when it dies.
Release(p, L) ==
    /\ writer' = [l \in Locks |-> IF l \in L THEN writer[l] \ {p} ELSE writer[l]]
    /\ readers' = [l \in Locks |-> IF l \in L THEN readers[l] \ {p} ELSE readers[l]]

AbsNext ==
    \E p \in Procs :
        \/ \E l \in Locks : Write(p, l) \/ Read(p, l) \/ Release(p, {l})
        \/ Release(p, Locks)

AbsSpec == AbsInit /\ [][AbsNext]_absVars
=============================================================================

----------------------------- MODULE MCEditing ------------------------------
(* The subscribers for TLC: Editing, the file, and RevDb, the database that   *)
(* repeats it.  A behaviour is of one of them; what belongs to the other  *)
(* stays as it was, and is not looked at.                                     *)
(*                                                                            *)
(* Editing.  Users only: two processes, so that a request falls between the   *)
(* steps of another, a third request after them, one death, and an address    *)
(* that is not on the list.  Then owners: three requests of theirs around one *)
(* of a user, and two with a death.                                           *)
(* RevDb: two processes, so that each can have read the database before the   *)
(* other writes; all kinds of requests in pairs, on two lists that share the  *)
(* database, with a death, and then those that build it anew, or that leave a *)
(* process with what it knew, in threes.                                      *)
EXTENDS Editing, TLC

CONSTANTS p1, p2, d1, d2, o1, o2, u1, u2, l1, l2, Old, New, None

VARIABLES
  part,   \* which module the behaviour is of
  member, boss, db, worker, fds, kern, waits, astray, taken, fallen, mode

editing  == <<vars, setting, owners>>
database == <<member, boss, db, worker, fds, kern, waits, astray, taken, fallen, mode>>

MCSettings ==
  {[requests |-> 3, ops |-> {"subscribe", "unsubscribe", "set", "address", "remove"},
    confirmed |-> FALSE, orders |-> 0, deaths |-> 1],
   [requests |-> 1, ops |-> {"subscribe", "set"}, confirmed |-> FALSE, orders |-> 3, deaths |-> 0],
   [requests |-> 1, ops |-> {"subscribe", "set"}, confirmed |-> FALSE, orders |-> 2, deaths |-> 1]}

MCLockOf ==
  [x \in {"LIST_SUBSCRIBERS", "LIST_MISC", "LIST_CONFIG"} \X {l1, l2} |->
     CASE x[1] = "LIST_SUBSCRIBERS" -> IF x[2] = l1 THEN "subscribers of 1" ELSE "subscribers of 2"
       [] x[1] = "LIST_MISC"        -> IF x[2] = l1 THEN "misc of 1" ELSE "misc of 2"
       [] x[1] = "LIST_CONFIG"      -> IF x[2] = l1 THEN "config of 1" ELSE "config of 2"]

MCMember == (l1 :> (u1 :> Old @@ u2 :> None)) @@ (l2 :> (u1 :> None @@ u2 :> New))
MCBoss   == (l1 :> [owner |-> {u2}, mod |-> {}]) @@ (l2 :> [owner |-> {}, mod |-> {u1}])

Tasks(n, deaths, kinds, lists) ==
  [requests |-> n, deaths |-> deaths, kinds |-> kinds, lists |-> lists]
MCTasks ==
  {Tasks(2, 1, {"subscribe", "unsubscribe", "password", "address", "own", "disown", "appoint",
                "dismiss", "word", "put", "update", "fast", "look"}, {l1, l2}),
   Tasks(2, 0, {"create", "subscribe", "update", "put"}, {l1}),
   Tasks(3, 0, {"unsubscribe", "password", "look", "word", "put"}, {l1})}

D == INSTANCE RevDb WITH
       proc <- worker, asked <- taken, killed <- fallen, setting <- mode, Settings <- MCTasks,
       Users <- {u1, u2}, Lists <- {l1, l2}, LockOf <- MCLockOf,
       InitMember <- MCMember, InitBoss <- MCBoss

MCInit ==
  /\ part \in {"editing", "database"}
  /\ EInit /\ (part = "editing" \/ (fresh /\ setting = CHOOSE s \in MCSettings : TRUE))
  /\ \/ part = "database" /\ D!Init
     \/ /\ part = "editing" /\ member = 0 /\ boss = 0 /\ db = 0 /\ worker = 0 /\ fds = 0 /\ kern = 0
        /\ waits = 0 /\ astray = 0 /\ taken = 0 /\ fallen = 0 /\ mode = 0

MCNext ==
  \/ part = "editing" /\ ENext /\ UNCHANGED <<part, database>>
  \/ part = "database" /\ D!Next /\ UNCHANGED <<part, editing>>

MCSpec == MCInit /\ [][MCNext]_<<part, editing, database>>

\* See module RevDb.
RolesTrue      == part = "database" => D!RolesTrue
OrdinaryLocked == part = "database" => D!OrdinaryLocked

MCSymmetry == Permutations({p1, p2}) \cup Permutations({d1, d2})
=============================================================================

-------------------------------- MODULE RevDb --------------------------------
(* The reverse database users.db: for each user the roles he has on each list, *)
(* and his password.  It repeats what the subscribers files, the configs and   *)
(* the owners file say, and every program that changes one of them changes it  *)
(* too, in two steps; PUT and revdb(1) build it anew.                          *)
(*                                                                             *)
(* Sources: src/lplib/lprevdbm.c, src/bins/revdb/revdb.c, src/objects/         *)
(* subscriber.c and email_list.c, src/commands/set.c, put.c, configuration.c   *)
(* and initialize.c, proc_owner() of src/lplib/sender.c.                       *)
(*                                                                             *)
(* The database library keeps the pages a process has read in that process: a  *)
(* page is never read again while the database is open, and is written as a    *)
(* whole.  Here all users are on one page and no page leaves the cache, which  *)
(* is the worst case.  Abstracted: the password of the list, which is written  *)
(* and never read; of the administrators' roles only the owners' (of the       *)
(* owners file) and the moderators' (of the config); a request that is refused *)
(* changes nothing and is left out.                                            *)
EXTENDS Naturals, FiniteSets, SequencesExt

CONSTANTS
  Procs, Users, Lists,
  Old, New,        \* passwords
  None,            \* no password, no user, no list, no page
  LockOf,          \* the locks of a list: [{"LIST_SUBSCRIBERS", ...} \X Lists -> names]
  InitMember,      \* [Lists -> [Users -> password or None]]
  InitBoss,        \* [Lists -> [owner, mod : SUBSET Users]]
  Settings         \* how many requests of which kinds, on which lists, how many deaths

VARIABLES
  member,          \* .subscribers: [Lists -> [Users -> password or None]]
  boss,            \* configs and owners file: [Lists -> [owner, mod : SUBSET Users]]
  db,              \* the databases there have been: a sequence of pages
  proc,            \* [Procs -> what the process does and has open]
  fds, kern, waits,\* the locks: see LpLock
  astray,          \* pairs <<user, list>> the database may be wrong about
  asked, killed,   \* how many requests and deaths
  setting

locks  == <<fds, kern, waits>>
bounds == <<asked, killed, setting>>
vars   == <<member, boss, db, proc, locks, astray, bounds>>

Rev       == "GLOBAL_REVDBM"
SysFiles  == "GLOBAL_SYSFILES"
Subs(l)   == LockOf["LIST_SUBSCRIBERS", l]
Misc(l)   == LockOf["LIST_MISC", l]
Config(l) == LockOf["LIST_CONFIG", l]
Resources == {Rev, SysFiles} \cup Range(LockOf)
K == INSTANCE LpLock WITH Locks <- Resources

-----------------------------------------------------------------------------
(* The records *)

Pairs  == Users \X Lists
NoRole == [roles |-> {}, pw |-> None]
AllOf(l) == Users \X {l}

(* What the files say. *)
Truth(x) ==
  [roles |-> (IF member[x[2]][x[1]] = None THEN {} ELSE {"sub"})
             \cup {r \in {"owner", "mod"} : x[1] \in boss[x[2]][r]},
   pw    |-> member[x[2]][x[1]]]

(* revdb_update_value: roles are set or cleared, a password is stored, and it  *)
(* goes with the role.  Without roles on any list there is no record.          *)
Value(e, s) ==
  LET roles == IF s.do = "set" THEN e.roles \cup {s.role} ELSE e.roles \ {s.role} IN
  [roles |-> roles,
   pw    |-> IF "sub" \notin roles THEN None ELSE IF s.pw # None THEN s.pw ELSE e.pw]

-----------------------------------------------------------------------------
(* What the programs do, as sequences of steps *)

Blank == [do |-> "get", lock |-> Rev, mode |-> "LPL_WRITE", user |-> None, list |-> None,
          role |-> "sub", pw |-> None, who |-> {}]
Get             == <<Blank>>
Take(k, m)      == <<[Blank EXCEPT !.do = "lock", !.lock = k, !.mode = m]>>
Free(k)         == <<[Blank EXCEPT !.do = "unlock", !.lock = k]>>
Of(do, l)       == <<[Blank EXCEPT !.do = do, !.list = l]>>
Put(do, u, l, r, w) ==
  Get \o <<[Blank EXCEPT !.do = do, !.user = u, !.list = l, !.role = r, !.pw = w]>>

(* The function f of a user, for each user of a set. *)
Each(f(_), who) == FoldSet(LAMBDA u, s : f(u) \o s, <<>>, who)

UpdateList_shared(do, u, l, r, w) ==
  Take(Rev, "LPL_READ") \o Put(do, u, l, r, w) \o Free(Rev)
(* revdb_update_list *)
UpdateList(do, u, l, r, w) ==
  Take(Rev, "LPL_WRITE") \o Put(do, u, l, r, w) \o Free(Rev)

(* revdb_add_list_admins, as the process knows them *)
AddAdmins(l, b) ==
  Each(LAMBDA u : Put("set", u, l, "owner", None), b.owner)
    \o Each(LAMBDA u : Put("set", u, l, "mod", None), b.mod)
RemoveAdmins(l, b) ==
  Each(LAMBDA u : Put("clear", u, l, "owner", None), b.owner)
    \o Each(LAMBDA u : Put("clear", u, l, "mod", None), b.mod)

(* The subscribers are read in place, under their lock: "members" stands for a *)
(* record for each of them.                                                    *)
InPlace(do, l) == Take(Subs(l), "LPL_WRITE") \o Of(do, l) \o Free(Subs(l))

(* revdb_add_email_list *)
AddList(l, b) ==
  Take(Rev, "LPL_WRITE") \o AddAdmins(l, b) \o InPlace("members", l) \o Free(Rev)

(* revdb_delete_list: all records, or those of the people the files name. *)
DeleteList(l)  == Take(Rev, "LPL_WRITE") \o Get \o Of("scan", l) \o Free(Rev)
DeleteFast(l, b) ==
  Take(Rev, "LPL_WRITE") \o InPlace("unmembers", l) \o RemoveAdmins(l, b) \o Free(Rev)

(* subfile_add, subfile_delete; both for an update *)
File(do, u, l, w) ==
  Take(Subs(l), "LPL_WRITE")
    \o <<[Blank EXCEPT !.do = do, !.user = u, !.list = l, !.pw = w]>> \o Free(Subs(l))

SubAdd_nested(u, l, w) ==
  Take(Subs(l), "LPL_WRITE") \o UpdateList("set", u, l, "sub", w) \o File("join", u, l, w)
    \o Free(Subs(l))
SubAdd(u, l, w) == UpdateList("set", u, l, "sub", w) \o File("join", u, l, w)
SubDelete(u, l) == UpdateList("clear", u, l, "sub", None) \o File("leave", u, l, None)

Appointed(r, l, u) == <<[Blank EXCEPT !.do = "appoint", !.role = r, !.list = l, !.user = u]>>
Dismissed(r, l, u) == <<[Blank EXCEPT !.do = "dismiss", !.role = r, !.list = l, !.user = u]>>
Written(l, who)    == <<[Blank EXCEPT !.do = "config", !.list = l, !.who = who]>>

(* A request: its kind, its list, the user and what he becomes; whom it names. *)
Request(kind, l, u, v, w) == [kind |-> kind, list |-> l, user |-> u, to |-> v, pw |-> w]

Named(r) ==
  CASE r.kind \in {"subscribe", "unsubscribe", "password", "own", "disown"} -> {<<r.user, r.list>>}
    [] r.kind = "address" -> {<<r.user, r.list>>, <<r.to, r.list>>}
    [] r.kind \in {"appoint", "dismiss", "word", "put", "update", "fast"} -> AllOf(r.list)
    [] r.kind = "create" -> Pairs
    [] r.kind = "look" -> {}

Rebuilding == {"put", "update", "create"}

(* The lists a PUT may bring: one user joined or left the file in the editor.  *)
PutFile(l, u, w) == <<[Blank EXCEPT !.do = IF member[l][u] = None THEN "join" ELSE "leave",
                                    !.user = u, !.list = l, !.pw = w]>>

Program(r) ==
  LET l == r.list
      u == r.user
      b == boss[l]
  IN CASE r.kind = "subscribe"   -> SubAdd(u, l, r.pw)
       [] r.kind = "unsubscribe" -> SubDelete(u, l)
       [] r.kind = "password"    -> File("leave", u, l, None) \o File("join", u, l, r.pw)
                                      \o UpdateList("set", u, l, "sub", r.pw)
       [] r.kind = "address"     -> SubDelete(u, l) \o SubAdd(r.to, l, member[l][u])
                                      \o UpdateList("clear", u, l, "sub", None)
                                      \o UpdateList("set", r.to, l, "sub", member[l][u])
       [] r.kind = "own"         -> UpdateList("set", u, l, "owner", None)
                                      \o Take(SysFiles, "LPL_WRITE") \o Appointed("owner", l, u)
                                      \o Free(SysFiles)
       [] r.kind = "disown"      -> UpdateList("clear", u, l, "owner", None)
                                      \o Take(SysFiles, "LPL_WRITE") \o Dismissed("owner", l, u)
                                      \o Free(SysFiles)
       [] r.kind = "appoint"     -> UpdateList("set", u, l, "mod", None)
                                      \o Take(Config(l), "LPL_WRITE") \o Written(l, b.mod \cup {u})
                                      \o Free(Config(l))
       [] r.kind = "dismiss"     -> UpdateList("clear", u, l, "mod", None)
                                      \o Take(Config(l), "LPL_WRITE") \o Written(l, b.mod \ {u})
                                      \o Free(Config(l))
       [] r.kind = "word"        -> Take(Rev, "LPL_READ") \o AddAdmins(l, b) \o Free(Rev)
       [] r.kind = "put"         -> Take(Misc(l), "LPL_WRITE") \o Take(Subs(l), "LPL_WRITE")
                                      \o PutFile(l, u, r.pw) \o DeleteList(l) \o AddList(l, b)
                                      \o Free(Subs(l)) \o Free(Misc(l))
       [] r.kind = "update"      -> DeleteList(l) \o AddList(l, b)
       [] r.kind = "fast"        -> DeleteFast(l, b) \o AddList(l, b)
       [] r.kind = "create"      -> Take(Rev, "LPL_READ") \o Of("clear_dbm", l) \o Free(Rev)
                                      \o FoldSet(LAMBDA k, s : AddList(k, boss[k]) \o s, <<>>, Lists)
       [] r.kind = "look"        -> Take(Rev, "LPL_READ") \o Get \o Free(Rev)

(* Which of them make sense: who subscribes is no subscriber yet, ... *)
Sensible(r) ==
  LET on == member[r.list][r.user] # None IN
  CASE r.kind = "subscribe" -> ~on /\ r.pw = Old
    [] r.kind = "unsubscribe" -> on
    [] r.kind = "password" -> on /\ r.pw = New
    [] r.kind = "address" -> on /\ r.to # r.user
    [] r.kind = "own" -> r.user \notin boss[r.list].owner
    [] r.kind = "disown" -> r.user \in boss[r.list].owner
    [] r.kind = "appoint" -> r.user \notin boss[r.list].mod
    [] r.kind = "dismiss" -> r.user \in boss[r.list].mod
    [] OTHER -> TRUE

-----------------------------------------------------------------------------
(* The processes *)

Off == [open |-> 0, page |-> None, old |-> {}, kind |-> "none", names |-> {}, todo |-> <<>>,
        refused |-> FALSE]
Working(p) == proc[p].todo # <<>>
Now(p)     == Head(proc[p].todo)
Rest(p)    == Tail(proc[p].todo)
Does(p, d) == Working(p) /\ waits[p] = K!Idle /\ Now(p).do \in d
Done(p)    == proc' = [proc EXCEPT ![p].todo = Rest(p)]
Current    == Len(db)

(* A request, in a process that has just been started (revdb_init opens the    *)
(* database) or that has carried out others before.  What is built anew is     *)
(* right again, whatever it was; two requests of one pair get in each other's  *)
(* way, and who has an unlinked database open writes to that one.              *)
Start(p, r) ==
  /\ r.kind \in setting.kinds /\ r.list \in setting.lists /\ Sensible(r)
  /\ LET open == IF proc[p].open = 0 THEN Current ELSE proc[p].open
         away == open # Current /\ r.kind # "create"
         good == IF r.kind \in Rebuilding /\ ~away THEN Named(r) ELSE {}
     IN  /\ proc' = [proc EXCEPT ![p].open = open, ![p].kind = r.kind, ![p].names = Named(r),
                                 ![p].todo = Program(r), ![p].refused = FALSE]
         /\ astray' = (astray \ good)
                       \cup {x \in Named(r) : \E q \in Procs \ {p} : Working(q) /\ x \in proc[q].names}
                       \cup (IF away THEN Named(r) ELSE {})
  /\ asked' = asked + 1
  /\ UNCHANGED <<member, boss, db, locks, killed, setting>>

Exit(p) ==
  /\ ~Working(p) /\ proc[p].open # 0
  /\ proc' = [proc EXCEPT ![p] = Off]
  /\ UNCHANGED <<member, boss, db, locks, astray, bounds>>

(* The locks.  That the kernel refuses one is ignored. *)
Lock(p) ==
  /\ Does(p, {"lock"})
  /\ \/ K!LockNow(p, Now(p).mode, Now(p).lock) /\ Done(p)
     \/ K!LockWait(p, Now(p).mode, Now(p).lock) /\ UNCHANGED proc
  /\ UNCHANGED <<member, boss, db, astray, bounds>>

LockRefused(p) ==
  /\ Does(p, {"lock"})
  /\ K!LockFail(p, Now(p).mode, Now(p).lock)
  /\ proc' = [proc EXCEPT ![p].todo = Rest(p), ![p].refused = TRUE]
  /\ UNCHANGED <<member, boss, db, astray, bounds>>

LockGranted(p) ==
  /\ K!Granted(p) /\ Done(p)
  /\ UNCHANGED <<member, boss, db, astray, bounds>>

Unlock(p) ==
  /\ Does(p, {"unlock"})
  /\ K!Unlock(p, Now(p).lock) /\ Done(p)
  /\ UNCHANGED <<member, boss, db, astray, bounds>>

(* revdb_get, and c_get: from the cache, if the page is there.  What others    *)
(* have changed on it since it was read will be undone.                        *)
Read(p) ==
  /\ Does(p, {"get"})
  /\ LET page == IF proc[p].page = None THEN db[proc[p].open] ELSE proc[p].page IN
     proc' = [proc EXCEPT ![p].page = page, ![p].todo = Rest(p),
                          ![p].old = {x \in Pairs : page[x] # db[proc[p].open][x]}]
  /\ UNCHANGED <<member, boss, db, locks, astray, bounds>>

(* The page is changed, and written to the disk.  Who writes without the write *)
(* lock (PASSWORD has the other one, and whose lock was refused has none) may  *)
(* undo, and have undone, what others do at that moment.                       *)
Unlocked(p) == proc[p].refused \/ proc[p].kind = "word"
Store(p, page, gone) ==
  LET file == db[proc[p].open] IN
  /\ db' = [db EXCEPT ![proc[p].open] = page]
  /\ astray' = astray \cup gone
                \cup (IF Unlocked(p) THEN {x \in Pairs : proc[p].page[x] # file[x]} ELSE {})
  /\ proc' = [q \in Procs |->
               IF q = p THEN [proc[p] EXCEPT !.page = page, !.todo = Rest(p), !.old = {}]
               ELSE IF Unlocked(p) /\ Working(q)
                 THEN [proc[q] EXCEPT !.old = @ \cup proc[p].names]
               ELSE proc[q]]
  /\ UNCHANGED <<member, boss, locks, bounds>>

(* revdb_put, revdb_delete *)
Write(p) ==
  /\ Does(p, {"set", "clear"})
  /\ LET s == Now(p) IN
     Store(p, [proc[p].page EXCEPT ![<<s.user, s.list>>] = Value(@, s)], proc[p].old)

(* revdb_delete_list: the cursor goes through all the records, ... *)
Scan(p) ==
  /\ Does(p, {"scan"})
  /\ Store(p, [x \in Pairs |-> IF x[2] = Now(p).list THEN NoRole ELSE proc[p].page[x]],
              proc[p].old \ AllOf(Now(p).list))

(* ... and slist_start and slist_next go through the subscribers. *)
Iterate(p) ==
  /\ Does(p, {"members", "unmembers"})
  /\ LET l  == Now(p).list
         do == IF Now(p).do = "members" THEN "set" ELSE "clear"
         w(u) == IF do = "set" THEN member[l][u] ELSE None
     IN proc' = [proc EXCEPT ![p].todo =
          Each(LAMBDA u : Put(do, u, l, "sub", w(u)), {u \in Users : member[l][u] # None}) \o Rest(p)]
  /\ UNCHANGED <<member, boss, db, locks, astray, bounds>>

(* revdb_clear_dbm: the file is unlinked and another one is opened; who has    *)
(* the old one open keeps it.                                                  *)
ClearDbm(p) ==
  /\ Does(p, {"clear_dbm"})
  /\ db' = Append(db, [x \in Pairs |-> NoRole])
  /\ proc' = [proc EXCEPT ![p].open = Current + 1, ![p].page = None, ![p].todo = Rest(p)]
  /\ astray' = astray \cup UNION {proc[q].names : q \in {q \in Procs \ {p} : Working(q)}}
  /\ UNCHANGED <<member, boss, locks, bounds>>

(* The subscribers file, *)
WriteMember(p) ==
  /\ Does(p, {"join", "leave"})
  /\ LET s == Now(p) IN
     member' = [member EXCEPT ![s.list][s.user] = IF s.do = "join" THEN s.pw ELSE None]
  /\ Done(p)
  /\ UNCHANGED <<boss, db, locks, astray, bounds>>

(* the owners file, an entry of it, *)
WriteOwner(p) ==
  /\ Does(p, {"appoint", "dismiss"})
  /\ LET s == Now(p) IN
     boss' = [boss EXCEPT ![s.list][s.role] = IF s.do = "appoint" THEN @ \cup {s.user} ELSE @ \ {s.user}]
  /\ Done(p)
  /\ UNCHANGED <<member, db, locks, astray, bounds>>

(* and the config, which is written as a whole. *)
WriteConfig(p) ==
  /\ Does(p, {"config"})
  /\ boss' = [boss EXCEPT ![Now(p).list].mod = Now(p).who]
  /\ Done(p)
  /\ UNCHANGED <<member, db, locks, astray, bounds>>

Die(p) ==
  /\ Working(p) /\ killed < setting.deaths
  /\ K!Exit(p)
  /\ proc' = [proc EXCEPT ![p] = Off]
  /\ astray' = astray \cup proc[p].names
  /\ killed' = killed + 1
  /\ UNCHANGED <<member, boss, db, asked, setting>>

-----------------------------------------------------------------------------
Init ==
  /\ member = InitMember /\ boss = InitBoss
  /\ db = <<[x \in Pairs |-> Truth(x)]>>
  /\ proc = [p \in Procs |-> Off]
  /\ K!Init
  /\ astray = {} /\ asked = 0 /\ killed = 0 /\ setting \in Settings

Next ==
  \E p \in Procs :
    \/ /\ ~Working(p) /\ asked < setting.requests
       /\ \E k \in setting.kinds, l \in setting.lists, u, v \in Users, w \in {Old, New} :
            /\ k # "address" => v = u
            /\ k \notin {"password", "put"} => w = Old
            /\ k \in {"look", "word", "update", "fast", "create"} => u = CHOOSE x \in Users : TRUE
            /\ Start(p, Request(k, l, u, v, w))
    \/ Exit(p) \/ Lock(p) \/ LockRefused(p) \/ LockGranted(p) \/ Unlock(p)
    \/ Read(p) \/ Write(p) \/ Scan(p) \/ Iterate(p) \/ ClearDbm(p)
    \/ WriteMember(p) \/ WriteOwner(p) \/ WriteConfig(p) \/ Die(p)

-----------------------------------------------------------------------------
(* Properties *)

(* When no request of a user and a list is being carried out, the database     *)
(* says of them what the files say, whatever other requests, of other users    *)
(* and lists or before, have done to his record, and once the list was built   *)
(* anew whatever was wrong with it; but for requests that were of the same     *)
(* user and list at the same time or were cut short by a death, and changes    *)
(* that a process undid which had read the database before.                    *)
RolesTrue ==
  \A x \in Pairs \ astray :
    (\A p \in Procs : Working(p) => x \notin proc[p].names) => db[Current][x] = Truth(x)

(* Only those who build a list anew, who take the locks of the database and of *)
(* the subscribers in both orders, go on without a lock: nobody else is drawn  *)
(* into their circle.                                                          *)
OrdinaryLocked ==
  \A p \in Procs : proc[p].refused => proc[p].kind \in Rebuilding \cup {"fast"}

=============================================================================

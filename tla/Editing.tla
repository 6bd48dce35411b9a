------------------------------ MODULE Editing -------------------------------
(* The owners' way to the files of a list: EDIT mails a file and locks it, PUT *)
(* replaces it, LOCK and UNLOCK; all this beside the requests that change the *)
(* subscribers file line by line (Subscriptions).  Nothing is locked while an *)
(* owner edits: the list's edit lock keeps the requests of others waiting, and *)
(* the time stamp of the copy tells a PUT that the file has changed.          *)
(*                                                                            *)
(* Sources: src/commands/edit.c, put.c, hold_free.c, and action() of          *)
(* src/bins/listproc/listproc.c, which admits a request.                      *)
(*                                                                            *)
(* Abstracted: of the seven files one besides the subscribers is left, info,  *)
(* with its version for its text; an owner waits for the answer before his    *)
(* next request, and a request that goes to the batch file comes again later; *)
(* passwords are right; the subscribers are not read-only.  REPORTS, PUT ALIAS *)
(* and PUT IGNORE are left out.                                               *)
EXTENDS Subscriptions, Integers

CONSTANTS
  Owners,    \* the list's owners, the manager among them
  Manager,   \* the manager of the system, or Nobody
  Desks,     \* listproc processes that work for owners
  Settings   \* what is explored: how many requests of users and of which
             \* kinds, whether they were confirmed before, the owners' requests

ASSUME EditingAssumption ==
  /\ Nobody \notin Owners \cup Desks
  /\ Settings \subseteq [requests : Nat, ops : SUBSET {"subscribe", "unsubscribe", "set", "address", "remove"},
                         confirmed : BOOLEAN, orders : Nat, deaths : Nat]

VARIABLES
  setting,   \* the setting
  editf,     \* .edit: the owner who edits, or Nobody
  llock,     \* .lock: the owner who has locked the list, or Nobody
  stamp,     \* [Docs -> is the time in the stamp file that of the file?]
  text,      \* the version of .info
  misc,      \* the desk with the lock MISC, or Nobody
  desk,      \* [Desks -> what the process does]
  draft,     \* [Owners -> the copy the owner works on]
  orders,    \* the number of the owners' requests so far
  blurred,   \* a stamp does not tell the copy from the file
  replaced,  \* a PUT replaced lines its owner had not seen, or died
  tangled    \* a stamp or lock was set while another process took it away

owners == <<editf, llock, stamp, text, misc, desk, draft, orders, blurred, replaced, tangled>>

Docs  == {"subscribers", "info"}
Empty == -1
Quiet == [op |-> "none", st |-> "none"]
Blank == [doc |-> "none", was |-> Empty, checked |-> FALSE]

Working(d) == desk[d] # Quiet
Reading(d) == Working(d) /\ desk[d].doc = "subscribers" /\ desk[d].st \in {"stamp", "lockedit"}
Putting(d) == Working(d) /\ desk[d].st \in {"unstamp", "unlockedit", "body"}

Text(doc)     == IF doc = "subscribers" THEN Lines(file) ELSE text
DStep(d, st)  == desk' = [desk EXCEPT ![d].st = st]
DEnd(d)       == desk' = [desk EXCEPT ![d] = Quiet]

-----------------------------------------------------------------------------
(* Admission *)

(* action(): a list that is locked is closed to all but the owner who locked  *)
(* it, and if that is the manager to everybody else.                          *)
ListOpen(who) == llock = Nobody \/ who = Manager \/ (llock # Manager /\ llock = who)

(* While somebody edits, requests that touch the files are put off, but for   *)
(* confirmed ones, which run with the override flag.                          *)
EditOpen(who) == editf = Nobody \/ editf = who

(* Users are nobody of the owners.  A removal is not a request.              *)
UserRequest(p) ==
  /\ asked < setting.requests
  /\ \E r \in Requests :
       /\ r.op \in setting.ops
       /\ r.op # "remove" => /\ ListOpen(Nobody)
                             /\ EditOpen(Nobody) \/ setting.confirmed
       /\ Start(p, r)
  /\ UNCHANGED owners

-----------------------------------------------------------------------------
(* What becomes of a stamp when its file changes: the time of the last change *)
(* is counted in seconds.                                                     *)
Stale(doc) ==
  IF stamp[doc] # "current" THEN UNCHANGED <<stamp, blurred>>
  ELSE \/ stamp' = [stamp EXCEPT ![doc] = "old"] /\ UNCHANGED blurred
       \/ blurred' = TRUE /\ UNCHANGED stamp

(* A user's request goes on.  No line is written while an owner's copy is made. *)
UserStep(p) ==
  /\ Work(p)
  /\ (file' # file \/ lock' # lock) => \A d \in Desks : ~Reading(d)
  /\ IF file' = file THEN UNCHANGED <<stamp, blurred>> ELSE Stale("subscribers")
  /\ UNCHANGED <<editf, llock, text, misc, desk, draft, orders, replaced, tangled>>

-----------------------------------------------------------------------------
(* EDIT *)

Order(o) ==
  /\ orders < setting.orders /\ \A d \in Desks : Working(d) => desk[d].who # o
  /\ orders' = orders + 1

Task(op, o, doc, nolock) ==
  [op |-> op, who |-> o, doc |-> doc, nolock |-> nolock, st |-> "begin"]

(* EDIT with an option is not put off.  *)
OrderEdit(d, o) ==
  /\ ~Working(d) /\ Order(o) /\ ListOpen(o)
  /\ \E doc \in Docs, nolock \in BOOLEAN :
       /\ nolock \/ EditOpen(o)
       /\ desk' = [desk EXCEPT ![d] = Task("edit", o, doc, nolock)]
  /\ UNCHANGED <<editf, llock, stamp, text, misc, draft, blurred, replaced, tangled>>

Checked(o, doc) == draft[o].doc = doc /\ draft[o].checked
Unchecked(doc) ==
  [o \in Owners |-> IF Checked(o, doc) THEN [draft[o] EXCEPT !.checked = FALSE] ELSE draft[o]]

(* The file is mailed; the subscribers under a read lock, info without any.   *)
Copy(d) ==
  LET t == desk[d] IN
  /\ t.op = "edit" /\ t.st = "begin"
  /\ t.doc = "subscribers" => lock = Nobody
  /\ draft' = [draft EXCEPT ![t.who] = [doc |-> t.doc, was |-> Text(t.doc), checked |-> FALSE]]
  /\ IF t.nolock THEN DEnd(d) ELSE DStep(d, "stamp")
  /\ UNCHANGED <<editf, llock, stamp, text, misc, orders, blurred, replaced, tangled>>

PutTimestamp(d) ==
  LET t == desk[d] IN
  /\ Working(d) /\ t.st = "stamp"
  /\ stamp' = [stamp EXCEPT ![t.doc] = "current"]
  /\ draft' = [Unchecked(t.doc) EXCEPT ![t.who].checked = TRUE]
  /\ blurred' = (blurred \/ Text(t.doc) # draft[t.who].was)
  /\ DStep(d, "lockedit")
  /\ UNCHANGED <<editf, llock, text, misc, orders, replaced, tangled>>

LockEdit(d) ==
  /\ Working(d) /\ desk[d].st = "lockedit"
  /\ editf' = desk[d].who
  /\ misc' = IF misc = d THEN Nobody ELSE misc
  /\ DEnd(d)
  /\ UNCHANGED <<llock, stamp, text, draft, orders, blurred, replaced, tangled>>

-----------------------------------------------------------------------------
(* PUT *)

OrderPut(d, o) ==
  /\ ~Working(d) /\ Order(o) /\ ListOpen(o) /\ EditOpen(o)
  /\ draft[o].doc \in Docs
  /\ desk' = [desk EXCEPT ![d] = Task("put", o, draft[o].doc, FALSE)]
  /\ UNCHANGED <<editf, llock, stamp, text, misc, draft, blurred, replaced, tangled>>

(* The locks: MISC, and for the subscribers theirs.                           *)
LockMisc(d) ==
  /\ desk[d].op = "put" /\ desk[d].st = "begin" /\ misc = Nobody
  /\ misc' = d
  /\ DStep(d, IF desk[d].doc = "subscribers" THEN "lock" ELSE "test")
  /\ UNCHANGED <<editf, llock, stamp, text, draft, orders, blurred, replaced, tangled>>

LockSubscribers(d) ==
  /\ Working(d) /\ desk[d].st = "lock"
  /\ lock = Nobody /\ \A e \in Desks : ~Reading(e)
  /\ lock' = d
  /\ DStep(d, "test")
  /\ UNCHANGED <<editf, llock, stamp, text, misc, draft, orders, blurred, replaced, tangled>>

Free(d) == lock' = IF lock = d THEN Nobody ELSE lock

(* put_file: no stamp, no check.                                              *)
file_modified_never(doc) == FALSE
file_modified(doc) == stamp[doc] = "old"

(* The PUT comes back to its owner, and if he did not send it interactively   *)
(* he gets the file again; the write lock becomes a read lock.                *)
Return(d) ==
  LET t == desk[d] IN
  /\ Working(d) /\ t.st = "test" /\ file_modified(t.doc)
  /\ Free(d)
  /\ \/ /\ draft' = [draft EXCEPT ![t.who] = [doc |-> t.doc, was |-> Text(t.doc), checked |-> FALSE]]
        /\ DStep(d, "stamp") /\ UNCHANGED misc
     \/ DEnd(d) /\ misc' = Nobody /\ UNCHANGED draft
  /\ UNCHANGED <<editf, llock, stamp, text, orders, blurred, replaced, tangled>>

Truncate(d) ==
  LET t == desk[d] IN
  /\ Working(d) /\ t.st = "test" /\ ~file_modified(t.doc)
  /\ IF t.doc = "subscribers" THEN file' = <<>> /\ UNCHANGED text
                              ELSE text' = Empty /\ UNCHANGED file
  /\ Stale(t.doc)
  /\ replaced' = (replaced \/ (t.doc = "subscribers" /\ file # draft[t.who].was))
  /\ mixed' = IF t.doc = "subscribers"
              THEN mixed \cup UNION {Names(proc[q]) : q \in {x \in Procs : Busy(x)}} ELSE mixed
  /\ DStep(d, "unstamp")
  /\ UNCHANGED <<editf, llock, misc, draft, orders, tangled>>

(* Another EDIT has written its stamp and not yet its lock, or is about to.   *)
Between(d) == \E e \in Desks \ {d} : Working(e) /\ desk[e].st \in {"stamp", "lockedit"}

Unstamp(d) ==
  LET t == desk[d] IN
  /\ Working(d) /\ t.st = "unstamp"
  /\ stamp' = [stamp EXCEPT ![t.doc] = "none"]
  /\ draft' = Unchecked(t.doc)
  /\ tangled' = (tangled \/ Between(d))
  /\ DStep(d, "unlockedit")
  /\ UNCHANGED <<editf, llock, text, misc, orders, blurred, replaced>>

UnlockEdit_always(d) ==
  /\ Working(d) /\ desk[d].st = "unlockedit"
  /\ editf' = Nobody
  /\ tangled' = (tangled \/ Between(d))
  /\ DStep(d, "body")
  /\ UNCHANGED <<llock, stamp, text, misc, draft, orders, blurred, replaced>>

(* UNLOCK_EDIT: the last file that was checked out is back.                   *)
UnlockEdit(d) ==
  /\ Working(d) /\ desk[d].st = "unlockedit"
  /\ editf' = IF \A doc \in Docs : stamp[doc] = "none" THEN Nobody ELSE editf
  /\ tangled' = (tangled \/ Between(d))
  /\ DStep(d, "body")
  /\ UNCHANGED <<llock, stamp, text, misc, draft, orders, blurred, replaced>>

(* copy_message_body: the owner has taken out a line, or none.                *)
Body(d) ==
  LET t   == desk[d]
      was == draft[t.who].was
  IN  /\ Working(d) /\ t.st = "body"
      /\ IF t.doc = "subscribers"
         THEN /\ \E new \in {was} \cup {RemoveAt(was, i) : i \in DOMAIN was} :
                   /\ file' = new
                   /\ leaving' = leaving \cup {l.addr : l \in ToSet(was) \ ToSet(new)}
              /\ UNCHANGED text
         ELSE text' = orders /\ UNCHANGED <<file, leaving>>
      /\ Stale(t.doc)
      /\ Free(d) /\ misc' = Nobody
      /\ draft' = [draft EXCEPT ![t.who] = Blank]
      /\ DEnd(d)
      /\ UNCHANGED <<editf, llock, orders, replaced, tangled>>

-----------------------------------------------------------------------------
(* LOCK and UNLOCK *)

LockList(o) ==
  /\ Order(o) /\ misc = Nobody
  /\ llock' = IF llock = Nobody \/ o = Manager THEN o ELSE llock
  /\ UNCHANGED <<editf, stamp, text, misc, desk, draft, blurred, replaced, tangled>>

(* An owner may not open the list another one has locked.  An edit lock goes, *)
(* whoever holds it, and with it all the stamps.                              *)
UnlockList(o) ==
  /\ Order(o) /\ misc = Nobody
  /\ o = Manager \/ llock \in {Nobody, o}
  /\ llock' = Nobody
  /\ IF editf = Nobody THEN UNCHANGED <<editf, stamp, draft>>
     ELSE /\ editf' = Nobody
          /\ stamp' = [doc \in Docs |-> "none"]
          /\ draft' = [x \in Owners |-> [draft[x] EXCEPT !.checked = FALSE]]
  /\ tangled' = (tangled \/ Between(Nobody))
  /\ UNCHANGED <<text, misc, desk, blurred, replaced>>

-----------------------------------------------------------------------------
(* A process that works for an owner dies.                                    *)
DieDesk(d) ==
  /\ Working(d) /\ killed.update + killed.sort + killed.other < setting.deaths
  /\ killed' = [killed EXCEPT !.other = @ + 1]
  /\ replaced' = (replaced \/ (Putting(d) /\ desk[d].doc = "subscribers"))
  /\ tangled' = (tangled \/ desk[d].st \in {"lockedit", "unlockedit"})
  /\ Free(d) /\ misc' = IF misc = d THEN Nobody ELSE misc
  /\ DEnd(d)
  /\ UNCHANGED <<editf, llock, stamp, text, draft, orders, blurred>>

DieUser(p) ==
  /\ killed.update + killed.sort + killed.other < setting.deaths
  /\ Die(p)
  /\ UNCHANGED owners

EInit ==
  /\ Init /\ setting \in Settings
  /\ editf = Nobody /\ llock = Nobody /\ misc = Nobody
  /\ stamp = [doc \in Docs |-> "none"] /\ text = 0
  /\ desk = [d \in Desks |-> Quiet] /\ draft = [o \in Owners |-> Blank]
  /\ orders = 0 /\ blurred = FALSE /\ replaced = FALSE /\ tangled = FALSE

EditStep(d) ==
  \/ \E o \in Owners : OrderEdit(d, o) \/ OrderPut(d, o)
  \/ Copy(d) \/ PutTimestamp(d) \/ LockEdit(d)
  \/ LockMisc(d) \/ Unstamp(d) \/ UnlockEdit(d)

ENext ==
  /\ setting' = setting
  /\ \/ \E p \in Procs : UserRequest(p) \/ UserStep(p) \/ DieUser(p)
     \/ \E d \in Desks : EditStep(d) /\ UNCHANGED vars
     \/ \E d \in Desks : (LockSubscribers(d) \/ Return(d)) /\ UNCHANGED <<disk, proc, ghost, killed>>
     \/ \E d \in Desks : Truncate(d) /\ UNCHANGED <<sorting, fresh, alias, lock, proc, asked, leaving, moved, killed>>
     \/ \E d \in Desks : Body(d) /\ UNCHANGED <<sorting, fresh, alias, proc, asked, mixed, moved, killed>>
     \/ \E o \in Owners : (LockList(o) \/ UnlockList(o)) /\ UNCHANGED vars
     \/ \E d \in Desks : DieDesk(d) /\ UNCHANGED <<disk, proc, ghost>>

ESpec == EInit /\ [][ENext]_<<vars, setting, owners>>

-----------------------------------------------------------------------------
(* Properties *)

(* Type invariant of the owners' part: EDIT, PUT and LOCK leave stamps, locks *)
(* and copies of the kinds the code knows.                                    *)
DeskStages == {"begin", "stamp", "lockedit", "lock", "test", "unstamp", "unlockedit", "body"}
DeskTasks ==
  [op : {"edit", "put"}, who : Owners, doc : Docs, nolock : BOOLEAN, st : DeskStages]
IsDraft(x) ==
  DOMAIN x = DOMAIN Blank /\ x.doc \in Docs \cup {"none"} /\ x.checked \in BOOLEAN
TypeOK ==
  /\ editf \in Owners \cup {Nobody} /\ llock \in Owners \cup {Nobody}
  /\ stamp \in [Docs -> {"none", "current", "old"}] /\ text \in Int /\ orders \in Nat
  /\ misc \in Desks \cup {Nobody} /\ desk \in [Desks -> {Quiet} \cup DeskTasks]
  /\ DOMAIN draft = Owners /\ \A o \in Owners : IsDraft(draft[o])
  /\ blurred \in BOOLEAN /\ replaced \in BOOLEAN /\ tangled \in BOOLEAN

(* Where the lines are: while the sorted file takes the place of the old one *)
(* they are in the former.                                                   *)
Content ==
  IF \E p \in Procs : proc[p].st = "rename" THEN sorting
  ELSE IF \E d \in Desks : Putting(d) /\ desk[d].doc = "subscribers"
       THEN draft[desk[CHOOSE d \in Desks : Putting(d) /\ desk[d].doc = "subscribers"].who].was
       ELSE Lines(file)

(* The members taken off the file by a process that will write them again. *)
Carried ==
  {proc[p].a : p \in {q \in Procs : proc[q].st = "add" /\ proc[q].op = "set"}}

(* Nobody who did not ask to leave is dropped from the list, whatever others  *)
(* subscribe, unsubscribe, change and sort at the same time (sub_update and   *)
(* sub_sort take the line or the whole file away before they put it back): a  *)
(* death in the middle of an update costs that one member, only a death       *)
(* between the unlink and the rename of subfile_sort costs more.  And an      *)
(* address has one line, so that one UNSUBSCRIBE ends its mail, unless two    *)
(* requests for it ran at one time or somebody moved to it.                   *)
MembersKept ==
  ~replaced =>
    /\ killed.sort = 0 =>
         Cardinality({a \in Members \ leaving : ~On(Content, a)} \ Carried) <= killed.update
    /\ \A a \in Addresses \ (mixed \cup moved) :
         Cardinality({i \in DOMAIN Lines(file) : file[i].addr = a}) <= 1

(* When a process ends a request that ran alone, was not refused and was not  *)
(* made under an address known as an alias of another, the file is as the     *)
(* answer says: who was removed is gone, who joined is on it, who moved is on *)
(* it under the new address only, a mode is set.                              *)
Done(p) == proc[p].st \in {"delete", "add", "sort", "touch"} /\ proc'[p] = Idle
AsAnswered ==
  [][\A p \in Procs :
       LET r == proc[p] IN
       Done(p) /\ Names(r) \cap mixed = {} /\ r.a \notin moved
         /\ r.other = r.a /\ killed' = killed /\ killed.sort = 0 /\ ~replaced =>
         CASE r.op \in {"unsubscribe", "remove"} -> ~On(Content', r.a)
           [] r.op = "subscribe" -> On(Content', r.a)
           [] r.op = "address" -> ~On(Content', r.a) /\ On(Content', r.to)
           [] r.op = "set" -> /\ On(Content', r.a)
                              /\ (r.mode \in Content'[Where(Content', r.a)].modes) = r.on]_<<vars, owners>>

(* What an owner checked out and sends back replaces just what he was sent:   *)
(* nobody's change in between is lost, whatever he and others did meanwhile,  *)
(* as long as his own stamp is there (an UNLOCK or another EDIT takes it away) *)
(* and tells the truth (changes of the same second, and of info while EDIT    *)
(* reads it without a lock, are not seen).                                    *)
NothingOverwritten ==
  [][\A d \in Desks :
       Truncate(d) /\ Checked(desk[d].who, desk[d].doc) /\ ~blurred =>
         Text(desk[d].doc) = draft[desk[d].who].was]_<<vars, owners>>

(* When no owner's request is being carried out the edit lock is there just   *)
(* when a file is checked out: nobody is kept from the list for no file's     *)
(* sake, and nobody changes a file that is out, unless a death or a PUT or    *)
(* UNLOCK in the middle of an EDIT separated the two.                         *)
LockWithStamp ==
  (\A d \in Desks : ~Working(d)) /\ ~tangled =>
    ((editf # Nobody) <=> \E doc \in Docs : stamp[doc] # "none")

=============================================================================

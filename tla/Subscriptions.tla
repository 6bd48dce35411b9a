--------------------------- MODULE Subscriptions ---------------------------
(* The subscribers file of a list and the requests that change it: SUBSCRIBE, *)
(* UNSUBSCRIBE, SET (a mode, and the address), and the removal of an address  *)
(* whose mail comes back.  Several listproc and list processes do this at     *)
(* once.  Each operation on the file is locked, a request is several of them. *)
(* Which requests come, and the owners' ways to the same file: Editing.       *)
(*                                                                            *)
(* Sources: src/objects/subfile.c, src/objects/subscriber.c, src/commands/    *)
(* subscribe.c, unsubscribe.c and set.c, subscribed() of src/lplib/sender.c,  *)
(* src/lplib/lpalias.c, src/bins/list/process_errors.c and src/send/utils.c.  *)
(*                                                                            *)
(* Abstracted: a line is an address and the set of modes that differ from the *)
(* default ("mail" stands for POSTPONE); a blank line is no line; whether a   *)
(* request is refused (closed or private list, wrong password, confirmation   *)
(* asked for) is a choice; owners, news and peers, and the reverse database   *)
(* are left out.  Addresses are numbers, so that they can be sorted.          *)
EXTENDS Naturals, FiniteSets, SequencesExt

CONSTANTS
  Addresses,    \* a set of numbers
  Members,      \* those on the list at the start
  Procs,        \* listproc and list processes
  NoFile,       \* the content of a file that does not exist
  Nobody        \* no process

ASSUME SubscriptionsAssumption ==
  /\ Addresses \subseteq Nat /\ Members \subseteq Addresses
  /\ IsFiniteSet(Addresses)

VARIABLES
  file,      \* .subscribers: a sequence of lines, or NoFile
  sorting,   \* .subscribers.sorting, likewise
  fresh,     \* .sorted is younger than a day
  alias,     \* .aliases: [Addresses -> the address it stands for]
  lock,      \* the process with the write lock on the subscribers, or Nobody
  proc,      \* [Procs -> what the process does]
  asked,     \* the number of requests so far
  leaving,   \* the addresses that were asked, by any request, to leave
  mixed,     \* the addresses that two requests named at one time
  moved,     \* the addresses somebody moved to
  killed     \* deaths: [update, sort, other -> how many]

disk  == <<file, sorting, fresh, alias>>
ghost == <<asked, leaving, mixed, moved>>
vars  == <<disk, lock, proc, ghost, killed>>

-----------------------------------------------------------------------------
(* The file *)

Modes == {"mail", "conceal"}
Line(a, modes) == [addr |-> a, modes |-> modes]
Lines(f) == IF f = NoFile THEN <<>> ELSE f

(* subfile_find_subscriber: the first line of the address. *)
On(f, a)  == \E i \in DOMAIN Lines(f) : f[i].addr = a
Where(f, a) == CHOOSE i \in DOMAIN f : f[i].addr = a /\ \A j \in 1..(i-1) : f[j].addr # a

(* The lock is taken for each operation and is free again after it, but for  *)
(* the sorting process.                                                      *)
Unlocked_never == TRUE
Unlocked == lock = Nobody

(* subfile_quicksort: the lines in order, the blank ones left out. *)
Sorted(f) == SortSeq(f, LAMBDA x, y : x.addr < y.addr)

-----------------------------------------------------------------------------
(* Requests *)

Idle == [st |-> "idle"]
Busy(p) == proc[p] # Idle

Request(op, a, to, mode, on) ==
  [op |-> op, a |-> a, to |-> to, mode |-> mode, on |-> on,
   st |-> IF op = "remove" THEN "delete" ELSE "alias", other |-> a, modes |-> {}]

(* SUBSCRIBE, and each of the addresses of an owner's ADD. *)
Joins == {Request("subscribe", a, a, "mail", TRUE) : a \in Addresses}

(* UNSUBSCRIBE, and each of the addresses of an owner's DELETE. *)
Leaves == {Request("unsubscribe", a, a, "mail", TRUE) : a \in Addresses}

(* SET of a mode, by the subscriber or by an owner for him. *)
ModeChanges == {Request("set", a, a, m, TRUE) : a \in Addresses, m \in Modes}

(* SET ADDRESS *)
Moves == {Request("address", a, b, "mail", TRUE) : a, b \in Addresses}

(* The removal of an address whose mail cannot be delivered. *)
Removals == {Request("remove", a, a, "mail", TRUE) : a \in Addresses}

Requests == Joins \cup Leaves \cup ModeChanges \cup Moves \cup Removals

Names(r) == {r.a, r.to}
Step(p, st) == proc' = [proc EXCEPT ![p].st = st]
End(p)      == proc' = [proc EXCEPT ![p] = Idle]

(* A request reaches a process. *)
Start(p, r) ==
  /\ ~Busy(p)
  /\ r.op = "address" => r.a # r.to
  /\ proc' = [proc EXCEPT ![p] = r]
  /\ leaving' = IF r.op \in {"unsubscribe", "remove", "address"}
                THEN leaving \cup {r.a} ELSE leaving
  /\ mixed' = mixed \cup {a \in Names(r) : \E q \in Procs \ {p} : Busy(q) /\ a \in Names(proc[q])}
  /\ moved' = IF r.op = "address" THEN moved \cup {r.to} ELSE moved
  /\ asked' = asked + 1
  /\ UNCHANGED <<disk, lock, killed>>

(* What is refused before the file is looked at.  SUBSCRIBE: the address is  *)
(* not well formed, ...                                                      *)
BadAddress(p) ==
  /\ proc[p].st = "alias" /\ proc[p].op = "subscribe"
  /\ End(p)
  /\ UNCHANGED <<disk, lock, ghost, killed>>

(* ... UNSUBSCRIBE: unknown options; FOR asks the other address to confirm, *)
BadOption(p) ==
  /\ proc[p].st = "alias" /\ proc[p].op = "unsubscribe"
  /\ End(p)
  /\ UNCHANGED <<disk, lock, ghost, killed>>

(* ... SET: an unknown mode, one that is disabled, a value too many or few. *)
BadMode(p) ==
  /\ proc[p].st = "alias" /\ proc[p].op \in {"set", "address"}
  /\ End(p)
  /\ UNCHANGED <<disk, lock, ghost, killed>>

(* alias_check: SUBSCRIBE and UNSUBSCRIBE ask for the sender, ... *)
ReadAlias(p) ==
  /\ proc[p].st = "alias" /\ proc[p].op \in {"subscribe", "unsubscribe"}
  /\ proc' = [proc EXCEPT ![p].other = alias[proc[p].a], ![p].st = "get"]
  /\ UNCHANGED <<disk, lock, ghost, killed>>

(* ... set() for an address it has not initialized: whatever was there last. *)
AliasOfSomebody(p) ==
  /\ proc[p].st = "alias" /\ proc[p].op \in {"set", "address"}
  /\ \E a \in {proc[p].a} \cup {alias[x] : x \in {y \in Addresses : alias[y] # y}} :
       proc' = [proc EXCEPT ![p].other = a, ![p].st = "get"]
  /\ UNCHANGED <<disk, lock, ghost, killed>>

(* Who is looked up: subscribed() asks for the sender and then for his alias, *)
(* set() only for the alias if there is one.                                  *)
Lookup(r) ==
  IF r.st = "get" /\ r.op \in {"subscribe", "unsubscribe"} THEN r.a ELSE r.other

(* subfile_get: what is found is kept until the entry is written again. *)
Found(p, a) ==
  LET modes == file[Where(file, a)].modes
      r     == proc[p]
  IN  CASE r.op = "subscribe" /\ "mail" \in modes ->
             proc' = [proc EXCEPT ![p] = [Request("set", r.a, r.a, "mail", FALSE)
                                            EXCEPT !.st = "alias"]]
        [] r.op = "subscribe" /\ "mail" \notin modes -> End(p)
        [] r.op # "subscribe" ->
             proc' = [proc EXCEPT ![p].modes = modes, ![p].st = "decide"]

Get(p) ==
  LET r == proc[p]
      a == Lookup(r)
  IN  /\ r.st \in {"get", "other"} /\ Unlocked
      /\ IF On(file, a) THEN Found(p, a)
         ELSE IF r.st = "get" /\ r.other # a THEN Step(p, "other")
         ELSE IF r.op = "subscribe" THEN Step(p, "decide")
         ELSE End(p)
      /\ UNCHANGED <<disk, lock, ghost, killed>>

(* Closed, private or to be confirmed, ... *)
Refuse(p) ==
  /\ proc[p].st = "decide" /\ proc[p].op = "subscribe" /\ End(p)
  /\ UNCHANGED <<disk, lock, ghost, killed>>

(* ... to be confirmed, or the address of news or of a peer, ... *)
RefuseToLeave(p) ==
  /\ proc[p].st = "decide" /\ proc[p].op = "unsubscribe" /\ End(p)
  /\ UNCHANGED <<disk, lock, ghost, killed>>

(* ... the wrong password, a bad new address, or only a query. *)
RefuseToSet(p) ==
  /\ proc[p].st = "decide" /\ proc[p].op \in {"set", "address"} /\ End(p)
  /\ UNCHANGED <<disk, lock, ghost, killed>>

Accept(p) ==
  /\ proc[p].st = "decide"
  /\ Step(p, CASE proc[p].op = "subscribe" -> "add"
               [] proc[p].op = "address"   -> "newalias"
               [] OTHER                    -> "delete")
  /\ UNCHANGED <<disk, lock, ghost, killed>>

(* SET ADDRESS: alias_delete, which looks for a line that begins with the    *)
(* address while alias_add writes one that begins with "^", and alias_add;   *)
(* the last alias of an address is the one that counts.                      *)
AddAlias(p) ==
  /\ proc[p].st = "newalias"
  /\ alias' = [alias EXCEPT ![proc[p].a] = proc[p].to]
  /\ Step(p, "delete")
  /\ UNCHANGED <<file, sorting, fresh, lock, ghost, killed>>

(* subfile_delete: the first line of the address is blanked.  subfile_update *)
(* gives up when there is none, SET ADDRESS does not look at the result.     *)
Delete(p) ==
  LET r == proc[p] IN
  /\ r.st = "delete" /\ Unlocked
  /\ IF On(file, r.a) THEN file' = RemoveAt(file, Where(file, r.a)) ELSE UNCHANGED file
  /\ IF r.op = "address" \/ (r.op = "set" /\ On(file, r.a)) THEN Step(p, "add") ELSE End(p)
  /\ UNCHANGED <<sorting, fresh, alias, lock, ghost, killed>>

NewModes_default(r) == {}
(* The modes of the line that is written. *)
NewModes(r) ==
  CASE r.op = "subscribe" -> {}
    [] r.op = "set"       -> IF r.on THEN r.modes \cup {r.mode} ELSE r.modes \ {r.mode}
    [] r.op = "address"   -> r.modes

(* subfile_add: the line is appended, to a new file if need be. *)
Add(p) ==
  LET r == proc[p] IN
  /\ r.st = "add" /\ Unlocked
  /\ file' = Append(Lines(file), Line(r.to, NewModes(r)))
  /\ IF r.op = "subscribe" THEN Step(p, "sort") ELSE End(p)
  /\ UNCHANGED <<sorting, fresh, alias, lock, ghost, killed>>

(* subscribe(): once a day the file is sorted. *)
SkipSort(p) ==
  /\ proc[p].st = "sort" /\ fresh
  /\ End(p)
  /\ UNCHANGED <<disk, lock, ghost, killed>>

(* subfile_sort writes the sorted lines to another file under the lock ... *)
WriteSorted(p) ==
  /\ proc[p].st = "sort" /\ ~fresh /\ Unlocked /\ Lines(file) # <<>>
  /\ sorting' = Sorted(file) /\ lock' = p
  /\ Step(p, "unlink")
  /\ UNCHANGED <<file, fresh, alias, ghost, killed>>

(* ... and uses a null pointer when all the lines are blank. *)
SortNothing(p) ==
  /\ proc[p].st = "sort" /\ ~fresh /\ Unlocked /\ file = <<>>
  /\ sorting' = <<>>
  /\ End(p)
  /\ UNCHANGED <<file, fresh, alias, lock, ghost, killed>>

(* Without a subscribers file it is an error, and the stamp is set all the same. *)
SortError(p) ==
  /\ proc[p].st = "sort" /\ ~fresh /\ Unlocked /\ file = NoFile
  /\ Step(p, "touch")
  /\ UNCHANGED <<disk, lock, ghost, killed>>

UnlinkOld(p) ==
  /\ proc[p].st = "unlink"
  /\ file' = NoFile /\ Step(p, "rename")
  /\ UNCHANGED <<sorting, fresh, alias, lock, ghost, killed>>

RenameSorted(p) ==
  /\ proc[p].st = "rename"
  /\ file' = sorting /\ sorting' = NoFile /\ lock' = Nobody
  /\ Step(p, "touch")
  /\ UNCHANGED <<fresh, alias, ghost, killed>>

Touch(p) ==
  /\ proc[p].st = "touch"
  /\ fresh' = TRUE /\ End(p)
  /\ UNCHANGED <<file, sorting, alias, lock, ghost, killed>>

(* A process dies: the kernel opens its lock, the rest stays as it is. *)
Die(p) ==
  /\ Busy(p)
  /\ LET why == CASE proc[p].st = "rename"                              -> "sort"
                  [] proc[p].st = "add" /\ proc[p].op \in {"set", "address"} -> "update"
                  [] OTHER                                               -> "other"
     IN  killed' = [killed EXCEPT ![why] = @ + 1]
  /\ lock' = IF lock = p THEN Nobody ELSE lock
  /\ End(p)
  /\ UNCHANGED <<disk, ghost>>

-----------------------------------------------------------------------------
Init ==
  /\ file = SetToSortSeq({Line(a, {}) : a \in Members}, LAMBDA x, y : x.addr > y.addr)
  /\ sorting = NoFile /\ fresh \in BOOLEAN
  /\ alias = [a \in Addresses |-> a]
  /\ lock = Nobody /\ proc = [p \in Procs |-> Idle]
  /\ asked = 0 /\ leaving = {} /\ mixed = {} /\ moved = {}
  /\ killed = [update |-> 0, sort |-> 0, other |-> 0]

Work(p) ==
  \/ BadAddress(p) \/ BadOption(p) \/ BadMode(p)
  \/ ReadAlias(p) \/ AliasOfSomebody(p) \/ Get(p)
  \/ Refuse(p) \/ RefuseToLeave(p) \/ RefuseToSet(p) \/ Accept(p) \/ AddAlias(p)
  \/ Delete(p) \/ Add(p) \/ SkipSort(p) \/ WriteSorted(p) \/ SortNothing(p)
  \/ SortError(p) \/ UnlinkOld(p) \/ RenameSorted(p) \/ Touch(p)

=============================================================================

----------------------------- MODULE FileUpdates ----------------------------
(* Subscriptions to the files of an archive: AFD mails a file to its           *)
(* subscribers whenever it has been updated, FUI tells them that it has.       *)
(* Two tables of the archive say who wants what, SFT by subscriber and FST by  *)
(* file; the FST also has the time of the file that its subscribers know of,   *)
(* and FMT that for those who want all files.  A delivery compares these times *)
(* with the files', sends, and writes the new times.                           *)
(*                                                                             *)
(* Source: src/commands/afd_fui.c; of src/commands/get.c that a GET may fail.  *)
(*                                                                             *)
(* Abstracted: one archive, marked for AFD and FUI, whose files just change    *)
(* (module Archive), in any seconds; the edition of a file is the number of    *)
(* the change, for the properties; QUERY, REVIEW and the delivery with         *)
(* debugging only read; who may subscribe whom.                                *)
EXTENDS Naturals, Sequences, FiniteSets, SequencesExt

CONSTANTS
  Addresses,   \* pairs <<user, spelling>>
  AfdFiles,    \* the files of the archive
  All,         \* "*", all of them
  Prefix,      \* pairs of files, the name of one the beginning of the other's
  Askers,      \* listproc processes with requests
  NoAsker,
  NoLine,
  Scenes       \* what is explored

VARIABLES
  scene,
  mtime,   \* [AfdFiles -> the time of the file in seconds, 0: not in the archive]
  edition, \* [AfdFiles -> which text it has, 0: not in the archive]
  sft,     \* {<<user, file, mode>>}
  fst,     \* [file -> [time, who]]
  fmt,     \* [AfdFiles -> time, or NoLine]
  ulock,   \* who has GLOBAL_ARCHIVES
  uproc,   \* [Askers -> the request and how far it is]
  run,     \* the delivery
  counts,  \* numbers of changes, requests, deliveries and failed GETs so far, and
           \* the second that the latest change was in
  told,    \* {<<address, file, mode, time, edition>>}: the mail sent
  had,     \* {<<address, file, time, edition>>}: what there was when somebody subscribed
  blurred, \* files that have changed in the second that the FST had for them
  happened \* what has happened: see the properties

tables == <<sft, fst, fmt>>
texts  == <<mtime, edition, blurred>>   \* the files
ghosts == <<told, had>>
uvars  == <<scene, texts, tables, ulock, uproc, run, counts, ghosts, happened>>

Lines    == AfdFiles \cup {All}

ASSUME UpdatesAssumption ==
  /\ IsFiniteSet(AfdFiles) /\ All \notin AfdFiles /\ NoAsker \notin Askers
  /\ \A s \in Scenes : s.who \subseteq Addresses /\ s.files \subseteq Lines

Modes    == {"D", "N"}          \* AFD, FUI
User(a)  == a[1]
AtRest   == [st |-> "idle"]
Unwanted == [time |-> 0, who |-> {}]
EmptyFst == [f \in Lines |-> Unwanted]
EmptyFmt == [f \in AfdFiles |-> NoLine]
Asking(p) == uproc[p] # AtRest
Running  == run # AtRest
Occurs(what) == happened' = happened \cup {what}
Rewriting == \E p \in Askers : Asking(p) /\ uproc[p].st = "write"   \* a request, the FST
Goes(p, st) == uproc' = [uproc EXCEPT ![p].st = st]

-----------------------------------------------------------------------------
(* The archive, under the lock: a file is added or updated, in the same second  *)
(* as the last one or a later one, ...                                         *)
Update(f) ==
  \E t \in {counts.seconds, counts.seconds + 1} \ {0} :
    /\ counts' = [counts EXCEPT !.changes = @ + 1, !.seconds = t]
    /\ mtime' = [mtime EXCEPT ![f] = t] /\ edition' = [edition EXCEPT ![f] = counts'.changes]
    /\ blurred' = IF fst[f].time = t THEN blurred \cup {f} ELSE blurred \ {f}

(* ... or deleted.                                                             *)
Vanish(f) ==
  /\ mtime[f] # 0 /\ counts' = [counts EXCEPT !.changes = @ + 1]
  /\ mtime' = [mtime EXCEPT ![f] = 0] /\ edition' = [edition EXCEPT ![f] = 0]
  /\ blurred' = blurred \ {f}

Change(f) ==
  /\ counts.changes < scene.changes /\ ulock = NoAsker
  /\ Update(f) \/ Vanish(f)
  /\ IF Running /\ run.st # "collect" THEN Occurs("changed") ELSE UNCHANGED happened
  /\ UNCHANGED <<scene, tables, ulock, uproc, run, ghosts>>

-----------------------------------------------------------------------------
(* AFD and FUI, ADD and DELETE *)

Ask(p, op, a, f, m) ==
  /\ ~Asking(p) /\ counts.requests < scene.requests
  /\ counts' = [counts EXCEPT !.requests = @ + 1]
  /\ uproc' = [uproc EXCEPT ![p] = [st |-> "check", op |-> op, a |-> a, f |-> f, m |-> m,
                                  sft |-> {}, fst |-> EmptyFst]]
  /\ UNCHANGED <<scene, texts, tables, ulock, run, ghosts, happened>>

(* Of the users and files that a request names, one after the other.           *)
Add(p)    == \E a \in scene.who, f \in scene.files, m \in Modes : Ask(p, "add", a, f, m)
Delete(p) == \E a \in scene.who, f \in scene.files : Ask(p, "del", a, f, "N")

(* subscribed_to_archive, under a lock of its own.                             *)
Subscribed(a, f) == \E e \in sft : e[1] = User(a) /\ e[2] \in {f, All}
Subscriber(a)         == \E e \in sft : e[1] = User(a)

Check(p) ==
  LET r == uproc[p] IN
  /\ Asking(p) /\ r.st = "check" /\ ulock = NoAsker
  /\ IF IF r.op = "add" THEN Subscribed(r.a, r.f)
        ELSE ~Subscriber(r.a) \/ (~Subscribed(r.a, r.f) /\ r.f # All)
     THEN uproc' = [uproc EXCEPT ![p] = AtRest]
     ELSE Goes(p, "lock")
  /\ UNCHANGED <<scene, texts, tables, ulock, run, counts, ghosts, happened>>

(* update_sft: a copy is made and the table emptied ...                        *)
CopySft(p) ==
  /\ Asking(p) /\ uproc[p].st = "lock" /\ ulock = NoAsker
  /\ ulock' = p
  /\ uproc' = [uproc EXCEPT ![p].st = "sft", ![p].sft = sft]
  /\ sft' = {}
  /\ UNCHANGED <<scene, texts, fst, fmt, run, counts, ghosts, happened>>

Covers(f, g) == f = g \/ <<f, g>> \in Prefix

(* ... and written.  Addresses are compared without regard to case; a file     *)
(* takes with it those whose names begin with its name.                        *)
WriteSft(p) ==
  LET r    == uproc[p]
      gone == {e \in r.sft : e[1] = User(r.a) /\ (r.f = All \/ (e[2] # All /\ Covers(r.f, e[2])))}
  IN
  /\ Asking(p) /\ r.st = "sft"
  /\ sft' = IF r.op = "add" THEN r.sft \cup {<<User(r.a), r.f, r.m>>} ELSE r.sft \ gone
  /\ Goes(p, "fst")
  /\ IF r.op = "del" /\ r.f # All /\ \E e \in gone : e[2] # r.f
     THEN Occurs("prefix") ELSE UNCHANGED happened
  /\ UNCHANGED <<scene, texts, fst, fmt, ulock, run, counts, ghosts>>

CopyFst(p) ==
  /\ Asking(p) /\ uproc[p].st = "fst"
  /\ uproc' = [uproc EXCEPT ![p].st = "write", ![p].fst = fst]
  /\ fst' = EmptyFst
  /\ IF Running /\ run.st = "write" THEN Occurs("raced") ELSE UNCHANGED happened
  /\ UNCHANGED <<scene, texts, sft, fmt, ulock, run, counts, ghosts>>

Time(f)    == IF f = All THEN 1 ELSE mtime[f]
Edition(f) == IF f = All THEN 0 ELSE edition[f]

(* A new line begins with the file's present time.                             *)
AddLine(line, f, a, m) ==
  [time |-> IF line.who = {} THEN Time(f) ELSE line.time, who |-> line.who \cup {<<a, m>>}]

(* Addresses are compared as they are spelled; a line without any is dropped.  *)
DelLine(line, a) ==
  LET left == {w \in line.who : w[1] # a}
  IN  IF left = {} THEN Unwanted ELSE [line EXCEPT !.who = left]

(* Faulty variant: "*" is a file like the others.                              *)
Concerned_named(f) == {f}

(* DELETE of "*" goes through all the lines.                                   *)
Concerned(f) == IF f = All THEN Lines ELSE {f}

(* update_fst *)
WriteFst(p) ==
  LET r       == uproc[p]
      files   == Concerned(r.f)
      another == \E f \in files : \E w \in r.fst[f].who : w[1] # r.a /\ User(w[1]) = User(r.a)
  IN
  /\ Asking(p) /\ r.st = "write"
  /\ fst' = IF r.op = "add" THEN [r.fst EXCEPT ![r.f] = AddLine(@, r.f, r.a, r.m)]
            ELSE [f \in Lines |-> IF f \in files THEN DelLine(r.fst[f], r.a) ELSE r.fst[f]]
  /\ had' = IF r.op = "add"
            THEN had \cup {<<r.a, f, Time(f), Edition(f)>> : f \in IF r.f = All THEN Lines ELSE {r.f}} ELSE had
  /\ happened' = happened \cup (IF r.op = "del" /\ another THEN {"respelled"} ELSE {})
                  \cup (IF Running /\ run.st = "write" THEN {"raced"} ELSE {})
  /\ uproc' = [uproc EXCEPT ![p] = AtRest]
  /\ ulock' = NoAsker
  /\ UNCHANGED <<scene, texts, sft, fmt, run, counts, told>>

-----------------------------------------------------------------------------
(* The delivery *)

StartRun ==
  /\ ~Running /\ counts.runs < scene.runs
  /\ counts' = [counts EXCEPT !.runs = @ + 1]
  /\ run' = [st |-> "collect", D |-> <<>>, N |-> <<>>, tasks |-> <<>>, fst |-> EmptyFst, fmt |-> EmptyFmt]
  /\ UNCHANGED <<scene, texts, tables, ulock, uproc, ghosts, happened>>

(* Faulty variant: any file that is there.                                     *)
file_updated_any(f) == mtime[f] # 0

file_updated(f)     == mtime[f] # 0 /\ mtime[f] # fst[f].time
file_updated_raw(f) == mtime[f] # 0 /\ mtime[f] # fmt[f]

Of(line, m) == {w[1] : w \in {x \in fst[line].who : x[2] = m}}

(* The entry of a file in one of the lists: who gets it, and which tables are  *)
(* to have its time.                                                           *)
Entry(f, m) ==
  LET byFile == IF file_updated(f) THEN Of(f, m) ELSE {}
      byAll  == IF file_updated_raw(f) THEN Of(All, m) ELSE {}
  IN  [file |-> f, who |-> byFile \cup byAll, FST |-> byFile # {}, FMT |-> byAll # {}]

EntriesOf(m) == {Entry(f, m) : f \in {g \in AfdFiles : Entry(g, m).who # {}}}

\* For each entry the FST, then the FMT.
TasksOf(list) ==
  [i \in 1 .. 2 * Len(list) |->
    LET e == list[(i + 1) \div 2] IN
    IF i % 2 = 1 THEN [table |-> "FST", file |-> e.file, sure |-> e.FST]
                 ELSE [table |-> "FMT", file |-> e.file, sure |-> e.FMT]]

Orders(S) == {s \in [1..Cardinality(S) -> S] : IsInjective(s)}

(* Passes 1 to 3, under the lock.                                              *)
Collect ==
  /\ Running /\ run.st = "collect" /\ ulock = NoAsker
  /\ \E d \in Orders(EntriesOf("D")) :
       LET n == SetToSeq(EntriesOf("N")) IN
       /\ run' = [run EXCEPT !.st = "notify", !.D = d, !.N = n, !.tasks = TasksOf(d) \o TasksOf(n)]
       /\ IF Len(d) > 1 THEN Occurs("left") ELSE UNCHANGED happened
  /\ UNCHANGED <<scene, texts, tables, ulock, uproc, counts, ghosts>>

Mail(e, m) == {<<a, e.file, m, mtime[e.file], edition[e.file]>> : a \in e.who}

Notify ==
  /\ Running /\ run.st = "notify"
  /\ told' = told \cup UNION {Mail(run.N[i], "N") : i \in DOMAIN run.N}
  /\ run' = [run EXCEPT !.st = IF run.D = <<>> THEN "record" ELSE "deliver"]
  /\ UNCHANGED <<scene, texts, tables, ulock, uproc, counts, had, happened>>

(* GET, under the lock: the first entry of the list is sent.                   *)
Deliver ==
  LET e == run.D[1] IN
  /\ Running /\ run.st = "deliver" /\ ulock = NoAsker
  /\ mtime[e.file] # 0
  /\ told' = told \cup Mail(e, "D")
  /\ run' = [run EXCEPT !.st = "record"]
  /\ UNCHANGED <<scene, texts, tables, ulock, uproc, counts, had, happened>>

(* The archive does not give the file, or no longer has it: nothing is         *)
(* recorded, of the notifications neither.                                     *)
DeliverFails ==
  /\ Running /\ run.st = "deliver" /\ ulock = NoAsker
  /\ IF mtime[run.D[1].file] = 0 THEN UNCHANGED counts
     ELSE /\ counts.faults < scene.faults
          /\ counts' = [counts EXCEPT !.faults = @ + 1]
  /\ run' = AtRest
  /\ Occurs("failed")
  /\ UNCHANGED <<scene, texts, tables, ulock, uproc, ghosts>>

ThisTask == run.tasks[1]

(* Pass 5, without the lock.  The flags of an entry are not cleared before     *)
(* they are set: that of the other table may be set as well.                   *)
Skip ==
  /\ Running /\ run.st = "record" /\ run.tasks # <<>> /\ ~ThisTask.sure
  /\ run' = [run EXCEPT !.tasks = Tail(@)]
  /\ UNCHANGED <<scene, texts, tables, ulock, uproc, counts, ghosts, happened>>

CopyTable ==
  /\ Running /\ run.st = "record" /\ run.tasks # <<>>
  /\ run' = [run EXCEPT !.st = "write", !.fst = fst, !.fmt = fmt]
  /\ IF ThisTask.table = "FST" THEN fst' = EmptyFst /\ UNCHANGED fmt ELSE fmt' = EmptyFmt /\ UNCHANGED fst
  /\ IF Rewriting THEN Occurs("raced") ELSE UNCHANGED happened
  /\ UNCHANGED <<scene, texts, sft, ulock, uproc, counts, ghosts>>

(* update_fst keeps the time of a file that is not there.                      *)
NewTime(line, t) == IF line.who = {} \/ t = 0 THEN line ELSE [line EXCEPT !.time = t]

(* update_fmt writes 0 for a file whose time has not changed.                  *)
WriteTable ==
  LET f == ThisTask.file
      t == mtime[f]
  IN
  /\ Running /\ run.st = "write"
  /\ IF ThisTask.table = "FST"
     THEN /\ fst' = [run.fst EXCEPT ![f] = NewTime(@, t)]
          /\ UNCHANGED fmt
     ELSE /\ fmt' = [run.fmt EXCEPT ![f] = IF @ = t THEN 0 ELSE t]
          /\ UNCHANGED fst
  /\ run' = [run EXCEPT !.st = "record", !.tasks = Tail(@)]
  /\ IF Rewriting THEN Occurs("raced") ELSE UNCHANGED happened
  /\ UNCHANGED <<scene, texts, sft, ulock, uproc, counts, ghosts>>

EndRun ==
  /\ Running /\ run.st = "record" /\ run.tasks = <<>>
  /\ run' = AtRest
  /\ UNCHANGED <<scene, texts, tables, ulock, uproc, counts, ghosts, happened>>

-----------------------------------------------------------------------------
(* A process dies.                                                             *)
UDie ==
  /\ scene.deaths > 0 /\ "died" \notin happened
  /\ \/ \E p \in Askers : /\ Asking(p)
                          /\ uproc' = [uproc EXCEPT ![p] = AtRest]
                          /\ ulock' = IF ulock = p THEN NoAsker ELSE ulock
                          /\ UNCHANGED run
     \/ Running /\ run' = AtRest /\ UNCHANGED <<uproc, ulock>>
  /\ Occurs("died")
  /\ UNCHANGED <<scene, texts, tables, counts, ghosts>>

UInit ==
  /\ scene \in Scenes
  /\ mtime = [f \in AfdFiles |-> 0] /\ edition = mtime /\ blurred = {}
  /\ sft = {} /\ fst = EmptyFst /\ fmt = EmptyFmt
  /\ ulock = NoAsker /\ uproc = [p \in Askers |-> AtRest] /\ run = AtRest
  /\ counts = [changes |-> 0, seconds |-> 0, requests |-> 0, runs |-> 0, faults |-> 0]
  /\ told = {} /\ had = {} /\ happened = {}

Deliveries ==
  \/ StartRun \/ Collect \/ Notify \/ Deliver \/ DeliverFails
  \/ Skip \/ CopyTable \/ WriteTable \/ EndRun

UNext ==
  \/ \E f \in scene.files \cap AfdFiles : Change(f)
  \/ \E p \in Askers : \/ Add(p) \/ Delete(p) \/ Check(p) \/ CopySft(p) \/ WriteSft(p)
                       \/ CopyFst(p) \/ WriteFst(p)
  \/ Deliveries \/ UDie

USpec == UInit /\ [][UNext]_uvars

-----------------------------------------------------------------------------
(* Properties *)

(* Type invariant: tables, requests and deliveries are of the kinds the code   *)
(* knows.                                                                      *)
Subs      == {User(a) : a \in Addresses} \X Lines \X Modes
FstTables == [Lines -> [time : Nat, who : SUBSET (Addresses \X Modes)]]
FmtTables == [AfdFiles -> Nat \cup {NoLine}]
AskRec    ==
  [st : {"check", "lock", "sft", "fst", "write"}, op : {"add", "del"}, a : Addresses,
   f : Lines, m : Modes, sft : SUBSET Subs, fst : FstTables]
EntryRec  == [file : AfdFiles, who : SUBSET Addresses, FST : BOOLEAN, FMT : BOOLEAN]
TaskRec   == [table : {"FST", "FMT"}, file : AfdFiles, sure : BOOLEAN]
RunRec    ==
  [st : {"collect", "notify", "deliver", "record", "write"}, D : Seq(EntryRec), N : Seq(EntryRec),
   tasks : Seq(TaskRec), fst : FstTables, fmt : FmtTables]
UTypeOK ==
  /\ scene \in Scenes /\ mtime \in [AfdFiles -> Nat]
  /\ edition \in [AfdFiles -> Nat] /\ blurred \subseteq AfdFiles
  /\ sft \subseteq Subs /\ fst \in FstTables /\ fmt \in FmtTables
  /\ ulock \in Askers \cup {NoAsker} /\ uproc \in [Askers -> {AtRest} \cup AskRec]
  /\ run \in {AtRest} \cup RunRec
  /\ counts \in [changes : Nat, seconds : Nat, requests : Nat, runs : Nat, faults : Nat]
  /\ told \subseteq Addresses \X AfdFiles \X Modes \X Nat \X Nat
  /\ had \subseteq Addresses \X Lines \X Nat \X Nat
  /\ happened \subseteq {"changed", "raced", "prefix", "respelled", "left", "failed", "died"}

Quiet == ~Running /\ \A p \in Askers : ~Asking(p)
NoneOf(what) == happened \cap what = {}
Got(a, f, t) ==
  (\E m \in Modes : <<a, f, m, t, edition[f]>> \in told) \/ <<a, f, t, edition[f]>> \in had

(* The two tables say the same: whoever asks what they are subscribed to is    *)
(* told what they get, and a DELETE that is answered ends the mail.  They part *)
(* after a death, when a delivery rewrites the FST while a request does, when  *)
(* DELETE takes files of longer names out of the SFT only, and when it comes   *)
(* from an address spelled differently, which the SFT ignores.                 *)
(* Once the FST has the time of the file, nobody will hear of that version any *)
(* more: everybody in its line has been sent it, or a word of it, or subscribed*)
(* when it was there.  It fails when a file changes between the mail and the   *)
(* writing of its time, when several files are to be mailed: only one is, and  *)
(* for a version that came in the second which the FST had for the file: times *)
(* are compared in seconds.                                                    *)
TablesAgree ==
  /\ Quiet /\ NoneOf({"died", "raced", "prefix", "respelled"}) =>
       sft = UNION {{<<User(w[1]), f, w[2]>> : w \in fst[f].who} : f \in Lines}
  /\ Quiet /\ NoneOf({"changed", "left"}) =>
       \A f \in AfdFiles \ blurred : fst[f].who # {} /\ mtime[f] # 0 /\ fst[f].time = mtime[f] =>
         \A w \in fst[f].who : Got(w[1], f, mtime[f])

(* Nobody is mailed the same version of a file, or told of it, twice.  It      *)
(* happens after a death, when request and delivery write the FST at the same  *)
(* time, after a GET that failed, and to those who have wanted all files:      *)
(* their time is another one, and is written twice when some want mail and     *)
(* some a word.  That a file was updated is said of a deleted one too.         *)
Outgoing == IF run.st = "notify" THEN UNION {Mail(run.N[i], "N") : i \in DOMAIN run.N}
            ELSE Mail(run.D[1], "D")
NotToldTwice ==
  [][(Notify \/ Deliver) /\ NoneOf({"died", "raced", "failed"}) =>
       \A e \in Outgoing \cap told : e[4] = 0 \/ <<e[1], All, Time(All), Edition(All)>> \in had]_uvars

=============================================================================

------------------------------ MODULE Archive -------------------------------
(* An archive of files.  An owner has a file ADDed, UPDATEd or DELETEd by      *)
(* mail, the manager CREATEs, MODIFYs and REMOVEs the archive, list files the  *)
(* messages of its list.  A request is carried out by a listproc process and   *)
(* by the program farch it starts; the lock of the archives is taken and given *)
(* back several times in between.                                              *)
(*                                                                             *)
(* Sources: src/commands/archive.c, src/bins/farch/farch.c,                    *)
(* src/bins/list/list_file_archive.c, make_indexes in src/lplib/misc.c, and    *)
(* what src/commands/get.c sends.                                              *)
(*                                                                             *)
(* Abstracted: one archive with its own directory, no archives inside it; a    *)
(* text is the request it came with and its length in parts; who may ask for   *)
(* what, and the passwords (the list has none for its archive); no compression *)
(* (which ARCHIVE itself says not to turn on or off when there are files),     *)
(* uuencode or tar; descriptions.                                              *)
EXTENDS Naturals, FiniteSets

CONSTANTS
  Filers,     \* listproc processes, and list's
  Files,      \* the names of files that owners use
  Monthly,    \* the file of the list's messages
  Names,      \* the names files and parts of files have on the disk
  PartName,   \* [Files -> [1..MaxParts -> Names]]: part i of a file that is split
  MaxParts,
  NoOne,      \* whose the lock is when it is free
  NoText,
  Settings    \* what is explored: see ArchiveAssumption

(* ARCHIVE's, and the posting of a message by list. *)
Ops == {"add", "update", "delete", "create", "modify", "remove", "post"}

ASSUME ArchiveAssumption ==
  /\ NoOne \notin Filers
  /\ Files \subseteq Names /\ Monthly \in Names \ Files
  /\ PartName \in [Files -> [1..MaxParts -> Names]]
  /\ Settings \subseteq [requests : Nat, ops : SUBSET Ops, options : SUBSET STRING,
                         files : SUBSET Files, there : BOOLEAN, deaths : Nat]

VARIABLES
  setting,
  index,   \* INDEX: the entry of the archive, or Missing
  config,  \* CONFIG, there as long as the directory, or Missing
  dir,     \* DIR: [file -> the number of its parts, 0: not archived], or Missing
  shelf,   \* [Names -> which part of which text]
  temp,    \* [Files -> the text in the temporary file of that name]
  holder,  \* the process, with its farch, that has GLOBAL_ARCHIVES
  work,    \* [Filers -> the request and how far it is]
  asked,   \* the number of requests so far
  wanted,  \* the configuration that the answered requests add up to
  past     \* what has happened: see the properties

archive == <<index, config, dir, shelf>>
avars   == <<setting, archive, temp, holder, work, asked, wanted, past>>

Missing   == [there |-> FALSE]
NewConfig == [afd |-> FALSE, split |-> FALSE, private |-> FALSE]
Texts     == [of : 0..setting.requests, size : 1..MaxParts, whole : {TRUE}]
NoFiles   == [f \in Files \cup {Monthly} |-> 0]
NoWork    == [st |-> "idle"]
AtWork(p) == work[p] # NoWork
To(p, st) == work' = [work EXCEPT ![p].st = st]
Done(p)   == work' = [work EXCEPT ![p] = NoWork]
Happens(what) == past' = past \cup {what}

Listed(f) == dir # Missing /\ dir[f] > 0
Name(f, n, i) == IF n = 1 THEN f ELSE PartName[f][i]
PartsOf(f, n) == {Name(f, n, i) : i \in 1..n}
Without(names) == [x \in Names |-> IF x \in names THEN NoText ELSE shelf[x]]

Filing   == {"add", "update"}
Settling == {"create", "modify"}
Changing == Settling \cup {"remove"}

-----------------------------------------------------------------------------
(* ARCHIVE in listproc *)

AskArchive(p) ==
  /\ ~AtWork(p) /\ asked < setting.requests
  /\ asked' = asked + 1
  /\ \E op \in setting.ops :
       \E f \in IF op = "delete" THEN setting.files \cup {Monthly} ELSE setting.files,
          size \in IF op \in Filing THEN 1..MaxParts ELSE {1},
          opt \in IF op \in Settling THEN setting.options ELSE {"none"} :
         /\ op \in Filing \cup {"delete"} \/ f = CHOOSE x \in setting.files : TRUE
         /\ work' = [work EXCEPT ![p] =
                [st |-> IF op = "post" THEN "post" ELSE "locate", op |-> op, f |-> f, opt |-> opt,
                 id |-> asked', text |-> [of |-> asked', size |-> size, whole |-> TRUE], i |-> 1,
                 conf |-> NewConfig, found |-> TRUE, held |-> NoFiles]]
  /\ UNCHANGED <<setting, archive, temp, holder, wanted, past>>

(* archive_config: the options; the privacy of an archive that is there        *)
(* already cannot be changed.                                                  *)
Refused(opt, c, found) ==
  found /\ ((opt = "private" /\ ~c.private) \/ (opt = "public" /\ c.private))

Apply(opt, c) ==
  CASE opt = "afd"     -> [c EXCEPT !.afd = TRUE]
    [] opt = "no-afd"  -> [c EXCEPT !.afd = FALSE]
    [] opt = "split"   -> [c EXCEPT !.split = TRUE]
    [] opt = "unsplit" -> [c EXCEPT !.split = FALSE]
    [] opt = "private" -> [c EXCEPT !.private = TRUE]
    [] opt = "public"  -> [c EXCEPT !.private = FALSE]
    [] OTHER -> c

(* Requests that go on from what they have read, one of which changes it.      *)
UnderWay(q) == AtWork(q) /\ work[q].st \in {"load", "text", "farch", "save"}
Overlaps(p) ==
  {"overlap" : q \in {x \in Filers \ {p} :
                         UnderWay(x) /\ {work[p].op, work[x].op} \cap Changing # {}}}

(* get_archive_path: what the INDEX says, under the lock.                      *)
Locate(p) ==
  LET r == work[p] IN
  /\ AtWork(p) /\ r.st = "locate" /\ holder = NoOne
  /\ IF index = Missing
     THEN IF r.op = "create"
          THEN work' = [work EXCEPT ![p].st = "farch", ![p].found = FALSE,
                                    ![p].conf = Apply(r.opt, NewConfig)]
          ELSE Done(p)
     ELSE work' = [work EXCEPT ![p].st = "load",
                               ![p].conf = [NewConfig EXCEPT !.afd = index.afd, !.private = index.private]]
  /\ past' = past \cup Overlaps(p)
  /\ UNCHANGED <<setting, archive, temp, holder, asked, wanted>>

(* load_archive_config, under the lock once more; what the INDEX said before   *)
(* is added.                                                                   *)
Load(p) ==
  LET r == work[p]
      c == [config EXCEPT !.afd = @ \/ r.conf.afd, !.private = @ \/ r.conf.private]
  IN
  /\ AtWork(p) /\ r.st = "load" /\ holder = NoOne
  /\ IF config = Missing \/ (r.op \in Settling /\ Refused(r.opt, c, TRUE))
     THEN Done(p)
     ELSE work' = [work EXCEPT ![p].st = IF r.op \in Filing THEN "text" ELSE "farch",
                               ![p].conf = IF r.op \in Settling THEN Apply(r.opt, c) ELSE c]
  /\ UNCHANGED <<setting, archive, temp, holder, asked, wanted, past>>

UsesTemp(q, f) ==
  AtWork(q) /\ work[q].op \in Filing /\ work[q].f = f /\ work[q].st \notin {"locate", "load", "text"}

(* archive_file: fwin copies the text to a temporary file with the name of the *)
(* file; that it was killed is not noticed.                                    *)
Text(p) ==
  LET r == work[p] IN
  /\ AtWork(p) /\ r.st = "text" /\ holder = NoOne
  /\ \E whole \in BOOLEAN :
       /\ whole \/ setting.deaths > 0
       /\ temp' = [temp EXCEPT ![r.f] = [r.text EXCEPT !.whole = whole]]
       /\ past' = past \cup {"crossed" : q \in {x \in Filers \ {p} : UsesTemp(x, r.f)}}
                       \cup (IF whole THEN {} ELSE {"died"})
  /\ To(p, "farch")
  /\ UNCHANGED <<setting, archive, holder, asked, wanted>>

(* The end of archive_file, without the lock.                                  *)
CleanUp(p) ==
  /\ AtWork(p) /\ work[p].st = "clean"
  /\ temp' = [temp EXCEPT ![work[p].f] = NoText]
  /\ Done(p)
  /\ UNCHANGED <<setting, archive, holder, asked, wanted, past>>

(* save_archive_config, whatever became of farch.                              *)
SaveConfig(p) ==
  LET r == work[p] IN
  /\ AtWork(p) /\ r.st = "save" /\ holder = NoOne
  /\ IF config = Missing \/ (~r.found /\ index = Missing) THEN UNCHANGED <<config, wanted>>
     ELSE config' = r.conf /\ wanted' = Apply(r.opt, wanted)
  /\ Done(p)
  /\ UNCHANGED <<setting, index, dir, shelf, temp, holder, asked, past>>

-----------------------------------------------------------------------------
(* farch: one run, the lock held from its beginning to its end *)

Finish(p, st) == To(p, st) /\ holder' = NoOne
After(op) == IF op \in Filing THEN "clean" ELSE "save"
Quit(p) ==
  /\ holder' = NoOne
  /\ IF work[p].op \in Filing THEN To(p, "clean") ELSE Done(p)

(* make_indexes: what is not there is made, empty.                             *)
MakeIndexes(afd, private) ==
  /\ index' = [afd |-> afd, private |-> private]
  /\ config' = IF config = Missing THEN NewConfig ELSE config
  /\ dir' = IF dir = Missing THEN NoFiles ELSE dir
  /\ wanted' = IF config = Missing THEN NewConfig ELSE wanted

(* get_archive, when the archive is not in the INDEX: it is a new one.         *)
NewArchive(p) ==
  LET r == work[p] IN
  /\ AtWork(p) /\ r.st = "farch" /\ holder = NoOne /\ index = Missing
  /\ r.op \in Filing \cup Settling
  /\ MakeIndexes(r.conf.afd, r.op \in Settling /\ r.conf.private)
  /\ IF r.op \in Settling THEN To(p, "save") /\ UNCHANGED holder
     ELSE To(p, "read") /\ holder' = p
  /\ UNCHANGED <<setting, shelf, temp, asked, past>>

NoArchive(p) ==
  /\ AtWork(p) /\ work[p].st = "farch" /\ holder = NoOne /\ index = Missing
  /\ work[p].op \in {"delete", "remove"}
  /\ Done(p)
  /\ UNCHANGED <<setting, archive, temp, holder, asked, wanted, past>>

(* Faulty variant: farch -a does not take the mark away.                       *)
OldArchive_on(p) ==
  LET r == work[p] IN
  /\ AtWork(p) /\ r.st = "farch" /\ holder = NoOne /\ index # Missing
  /\ index' = IF r.op = "remove" THEN index ELSE [index EXCEPT !.afd = @ \/ r.conf.afd]
  /\ IF r.op \in Settling THEN To(p, "save") /\ UNCHANGED holder
     ELSE /\ holder' = p
          /\ To(p, CASE r.op \in Filing -> "read" [] r.op = "delete" -> "drop" [] OTHER -> "unfile")
  /\ UNCHANGED <<setting, config, dir, shelf, temp, asked, wanted, past>>

(* get_archive, when it is: the mark of the INDEX becomes that of the request. *)
OldArchive(p) ==
  LET r == work[p] IN
  /\ AtWork(p) /\ r.st = "farch" /\ holder = NoOne /\ index # Missing
  /\ index' = IF r.op = "remove" THEN index ELSE [index EXCEPT !.afd = r.conf.afd]
  /\ IF r.op \in Settling THEN To(p, "save") /\ UNCHANGED holder
     ELSE /\ holder' = p
          /\ To(p, CASE r.op \in Filing -> "read" [] r.op = "delete" -> "drop" [] OTHER -> "unfile")
  /\ UNCHANGED <<setting, config, dir, shelf, temp, asked, wanted, past>>

Parts(r) == IF r.conf.split THEN r.text.size ELSE 1

(* do_archive: the temporary file is opened.                                   *)
OpenText(p) ==
  LET t == temp[work[p].f] IN
  /\ AtWork(p) /\ work[p].st = "read"
  /\ IF t = NoText THEN Quit(p)
     ELSE work' = [work EXCEPT ![p].text = t, ![p].st = "store"] /\ UNCHANGED holder
  /\ UNCHANGED <<setting, archive, temp, asked, wanted, past>>

(* Faulty variant: ADD does not look whether there is such a file.             *)
Store_over(p) ==
  LET r == work[p]
      n == Parts(r)
      t == IF n = 1 THEN temp[r.f] ELSE r.text
  IN
  /\ AtWork(p) /\ r.st = "store" /\ t # NoText
  /\ shelf' = [shelf EXCEPT ![Name(r.f, n, r.i)] = [text |-> t, part |-> r.i]]
  /\ work' = [work EXCEPT ![p].i = @ + 1, ![p].st = IF r.i = n THEN "enter" ELSE "store"]
  /\ UNCHANGED <<setting, index, config, dir, temp, holder, asked, wanted, past>>

(* A part is written; ADD refuses to overwrite a file, UPDATE does not mind.   *)
(* A file that is not split is copied from the temporary file as it now is.    *)
Store(p) ==
  LET r == work[p]
      n == Parts(r)
      x == Name(r.f, n, r.i)
      t == IF n = 1 THEN temp[r.f] ELSE r.text
  IN
  /\ AtWork(p) /\ r.st = "store"
  /\ IF r.op = "add" /\ shelf[x] # NoText THEN Quit(p) /\ UNCHANGED shelf
     ELSE IF t = NoText
     THEN Quit(p) /\ shelf' = [shelf EXCEPT ![x] = [text |-> [r.text EXCEPT !.whole = FALSE], part |-> 1]]
     ELSE /\ shelf' = [shelf EXCEPT ![x] = [text |-> t, part |-> r.i]]
          /\ work' = [work EXCEPT ![p].i = @ + 1, ![p].st = IF r.i = n THEN "enter" ELSE "store"]
          /\ UNCHANGED holder
  /\ IF r.op = "add" /\ shelf[x] # NoText /\ r.i > 1 THEN Happens("partly") ELSE UNCHANGED past
  /\ UNCHANGED <<setting, index, config, dir, temp, asked, wanted>>

(* update: is the file in DIR already?                                         *)
Enter(p) ==
  LET r == work[p] IN
  /\ AtWork(p) /\ r.st = "enter"
  /\ IF dir = Missing THEN Quit(p) /\ UNCHANGED shelf
     ELSE IF Listed(r.f) /\ r.op = "add"
     THEN Quit(p) /\ shelf' = Without(PartsOf(r.f, Parts(r)))
     ELSE To(p, IF Listed(r.f) THEN "drop" ELSE "append") /\ UNCHANGED <<shelf, holder>>
  /\ UNCHANGED <<setting, index, config, dir, temp, asked, wanted, past>>

AddEntry(p) ==
  LET r == work[p] IN
  /\ AtWork(p) /\ r.st = "append"
  /\ dir' = [dir EXCEPT ![r.f] = Parts(r)]
  /\ Finish(p, "clean")
  /\ UNCHANGED <<setting, index, config, shelf, temp, asked, wanted, past>>

(* rmfiles: DIR is moved away ...                                              *)
MoveDir(p) ==
  /\ AtWork(p) /\ work[p].st = "drop"
  /\ IF dir = Missing THEN Quit(p) /\ UNCHANGED dir
     ELSE /\ work' = [work EXCEPT ![p].st = "moved", ![p].held = dir]
          /\ dir' = Missing /\ UNCHANGED holder
  /\ UNCHANGED <<setting, index, config, shelf, temp, asked, wanted, past>>

(* ... a new one opened, and when the file is to go its parts are unlinked ... *)
UnlinkParts(p) ==
  LET r == work[p] IN
  /\ AtWork(p) /\ r.st = "moved"
  /\ dir' = NoFiles
  /\ shelf' = IF r.op = "delete" THEN Without(PartsOf(r.f, r.held[r.f])) ELSE shelf
  /\ To(p, "write")
  /\ UNCHANGED <<setting, index, config, temp, holder, asked, wanted, past>>

(* ... and it is written as it was without the line of the file.               *)
WriteDir(p) ==
  LET r == work[p] IN
  /\ AtWork(p) /\ r.st = "write"
  /\ dir' = [r.held EXCEPT ![r.f] = 0]
  /\ IF r.op = "delete" THEN Done(p) /\ holder' = NoOne ELSE To(p, "append") /\ UNCHANGED holder
  /\ IF r.op = "update" /\ ~(PartsOf(r.f, r.held[r.f]) \subseteq PartsOf(r.f, Parts(r)))
     THEN Happens("shrunk") ELSE UNCHANGED past
  /\ UNCHANGED <<setting, index, config, shelf, temp, asked, wanted>>

(* rmarch: every file is removed, by a farch -a of its own that does not lock, *)
Unfile(p) ==
  /\ AtWork(p) /\ work[p].st = "unfile"
  /\ \/ \E f \in DOMAIN NoFiles :
          /\ Listed(f)
          /\ dir' = [dir EXCEPT ![f] = 0]
          /\ shelf' = Without(PartsOf(f, dir[f]))
          /\ index' = [index EXCEPT !.afd = FALSE]
          /\ UNCHANGED work
     \/ /\ \A f \in DOMAIN NoFiles : ~Listed(f)
        /\ To(p, "delist")
        /\ UNCHANGED <<dir, shelf, index>>
  /\ UNCHANGED <<setting, config, temp, holder, asked, wanted, past>>

(* then the line of the INDEX,                                                 *)
Delist(p) ==
  /\ AtWork(p) /\ work[p].st = "delist"
  /\ index' = Missing
  /\ To(p, "rmdir")
  /\ UNCHANGED <<setting, config, dir, shelf, temp, holder, asked, wanted, past>>

(* and the directory.                                                          *)
RmDir(p) ==
  /\ AtWork(p) /\ work[p].st = "rmdir"
  /\ config' = Missing /\ dir' = Missing /\ shelf' = [x \in Names |-> NoText]
  /\ Done(p) /\ holder' = NoOne
  /\ UNCHANGED <<setting, index, temp, asked, wanted, past>>

-----------------------------------------------------------------------------
(* list: a message goes to the end of the month's file, which gets its line.   *)
(* If the archive is not there yet it is made, without a password, even while  *)
(* the manager is having it made with one.                                     *)

Posted == [text |-> [of |-> 0, size |-> 1, whole |-> TRUE], part |-> 1]

Post(p) ==
  /\ AtWork(p) /\ work[p].st = "post" /\ holder = NoOne
  /\ holder' = p
  /\ shelf' = [shelf EXCEPT ![Monthly] = Posted]
  /\ IF index = Missing THEN MakeIndexes(FALSE, FALSE)
     ELSE /\ dir' = IF dir = Missing THEN NoFiles ELSE dir
          /\ UNCHANGED <<index, config, wanted>>
  /\ To(p, "old")
  /\ past' = past \cup {"overlap" : q \in {x \in Filers :
                           index = Missing /\ UnderWay(x) /\ work[x].conf.private}}
  /\ UNCHANGED <<setting, temp, asked>>

PostMove(p) ==
  /\ AtWork(p) /\ work[p].st = "old"
  /\ work' = [work EXCEPT ![p].st = "new", ![p].held = dir]
  /\ dir' = Missing
  /\ UNCHANGED <<setting, index, config, shelf, temp, holder, asked, wanted, past>>

PostWrite(p) ==
  /\ AtWork(p) /\ work[p].st = "new"
  /\ dir' = [work[p].held EXCEPT ![Monthly] = 1]
  /\ Done(p) /\ holder' = NoOne
  /\ UNCHANGED <<setting, index, config, shelf, temp, asked, wanted, past>>

-----------------------------------------------------------------------------
(* farch dies, and the process that started it goes on or dies with it.        *)
FilerDies(p) ==
  LET r == work[p] IN
  /\ AtWork(p) /\ "died" \notin past /\ setting.deaths > 0
  /\ Happens("died")
  /\ holder' = IF holder = p THEN NoOne ELSE holder
  /\ \/ Done(p)
     \/ /\ r.st # "save" /\ r.op \in Filing \cup Settling /\ (holder = p \/ r.st = "farch")
        /\ To(p, After(r.op))
  /\ UNCHANGED <<setting, archive, temp, asked, wanted>>

AInit ==
  /\ setting \in Settings
  /\ index = IF setting.there THEN [afd |-> FALSE, private |-> FALSE] ELSE Missing
  /\ config = IF setting.there THEN [NewConfig EXCEPT !.split = TRUE] ELSE Missing
  /\ wanted = IF setting.there THEN [NewConfig EXCEPT !.split = TRUE] ELSE NewConfig
  /\ dir = IF setting.there THEN NoFiles ELSE Missing
  /\ shelf = [x \in Names |-> NoText] /\ temp = [f \in Files |-> NoText]
  /\ holder = NoOne /\ work = [p \in Filers |-> NoWork] /\ asked = 0 /\ past = {}

ANext ==
  \E p \in Filers :
    \/ AskArchive(p) \/ Locate(p) \/ Load(p) \/ Text(p) \/ CleanUp(p) \/ SaveConfig(p)
    \/ NewArchive(p) \/ NoArchive(p) \/ OldArchive(p)
    \/ OpenText(p) \/ Store(p) \/ Enter(p) \/ AddEntry(p)
    \/ MoveDir(p) \/ UnlinkParts(p) \/ WriteDir(p)
    \/ Unfile(p) \/ Delist(p) \/ RmDir(p)
    \/ Post(p) \/ PostMove(p) \/ PostWrite(p) \/ FilerDies(p)

ASpec == AInit /\ [][ANext]_avars

-----------------------------------------------------------------------------
(* Properties *)

Never(what) == past \cap what = {}

(* What GET sends of a file: the parts DIR counts, as long as they are there.  *)
Sends(f) == [i \in 1..dir[f] |-> shelf[Name(f, dir[f], i)]]

(* A file none of whose names is a name of another file as well.               *)
AllNames(f) == IF f = Monthly THEN {f} ELSE {f} \cup {PartName[f][i] : i \in 1..MaxParts}
Clear(f) == \A g \in (Files \cup {Monthly}) \ {f} : AllNames(f) \cap AllNames(g) = {}

(* The text that is filed is the one that came with the request, although it   *)
(* lies in a file of a common name between two locks, unless another request   *)
(* brought a text for the same file meanwhile.                                 *)
FiledAsSent ==
  \A p \in Filers :
    AtWork(p) /\ work[p].st = "append" /\ "crossed" \notin past =>
      \A x \in PartsOf(work[p].f, Parts(work[p])) : shelf[x].text.of = work[p].id

(* DIR and the disk agree, whatever was added, updated, deleted and posted at  *)
(* the same time.  Whenever nobody has the archives locked, GET sends a file   *)
(* that DIR lists from its first part to its last, and the parts are of one    *)
(* text; only a death spoils it, two requests that bring a text for the same   *)
(* file, or a file whose part has the name of another file.  And nothing is    *)
(* left on the disk that no DIR entry covers, for which the next ADD of the    *)
(* name would be refused, unless an UPDATE needed fewer files than before or   *)
(* an ADD was refused in the middle.  And what is filed is what was sent.      *)
DirTrue ==
  /\ FiledAsSent
  /\ holder = NoOne /\ Never({"died", "crossed"}) =>
    /\ \A f \in DOMAIN NoFiles : Listed(f) /\ Clear(f) =>
         \E t \in Texts : t.whole /\ \A i \in 1..dir[f] : Sends(f)[i] = [text |-> t, part |-> i]
    /\ Never({"shrunk", "partly"}) =>
         \A x \in Names : shelf[x] # NoText =>
           \E f \in DOMAIN NoFiles : Listed(f) /\ x \in PartsOf(f, dir[f])

(* Once all requests are answered, the configuration is what they asked for,   *)
(* the INDEX is marked for AFD and FUI just as it says, and an archive that is *)
(* configured to be private has a password in the INDEX, which is the one GET  *)
(* asks for: unless a request overlapped with one that changed, created or     *)
(* removed the archive, a message was posted to a private archive before it    *)
(* was made, or somebody died.                                                 *)
AsConfigured ==
  (\A p \in Filers : ~AtWork(p)) /\ index # Missing
  /\ Never({"died", "overlap"}) =>
    /\ config = wanted
    /\ index.afd = config.afd
    /\ config.private => index.private
=============================================================================

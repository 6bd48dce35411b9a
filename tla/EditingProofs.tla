--------------------------- MODULE EditingProofs ----------------------------
(***************************************************************************)
(* Theorems about Editing for any owners, addresses, processes and         *)
(* settings, and any number of requests, orders and deaths: a PUT that is  *)
(* not sent back overwrites nobody's change, and the edit lock is there    *)
(* just when a file is out.                                                *)
(*                                                                         *)
(* And about Delivery, for any messages, subscribers, newsgroups, peers,   *)
(* archives and courses: a child finds the file it sends, and a message    *)
(* is not closed before every steady reader has received it.               *)
(***************************************************************************)
EXTENDS Editing, Delivery, SequenceTheorems, FiniteSetTheorems, TLAPS

-----------------------------------------------------------------------------
(* The inductive invariant *)

\* An owner waits for the answer to his last request.
OneDesk ==
  \A d, e \in Desks :
    Working(d) /\ Working(e) /\ desk[d].who = desk[e].who => d = e

\* Who is about to stamp a copy works on that copy.
OwnCopy == \A d \in Desks : desk[d].st = "stamp" => draft[desk[d].who].doc = desk[d].doc

\* Who has a stamp of his own works on what the file holds, until the stamp is
\* old.
TrueCopy ==
  \A o \in Owners, doc \in Docs : Checked(o, doc) =>
    /\ stamp[doc] # "none"
    /\ ~blurred /\ stamp[doc] = "current" => Text(doc) = draft[o].was

\* The edit lock and the stamps, with the requests between the two.
LockInv ==
  ~tangled =>
    /\ \A d \in Desks : desk[d].st = "lockedit" => stamp[desk[d].doc] # "none"
    /\ editf # Nobody =>
         (\E doc \in Docs : stamp[doc] # "none") \/ (\E d \in Desks : desk[d].st = "unlockedit")
    /\ (\E doc \in Docs : stamp[doc] # "none") =>
         editf # Nobody \/ (\E d \in Desks : desk[d].st = "lockedit")

EditInv == TypeOK /\ OneDesk /\ OwnCopy /\ TrueCopy /\ LockInv

-----------------------------------------------------------------------------
(* Lemmas *)

LEMMA WorkingStage ==
  ASSUME TypeOK, NEW d \in Desks
  PROVE  /\ Working(d) <=> desk[d].st # "none"
         /\ Working(d) <=> desk[d].st \in DeskStages
         /\ Working(d) => desk[d] \in DeskTasks
BY DEF TypeOK, Working, Quiet, DeskTasks, DeskStages

\* A process goes on with its request.
LEMMA DeskGoesOn ==
  ASSUME TypeOK, NEW d \in Desks, Working(d), NEW st \in DeskStages, DStep(d, st)
  PROVE  /\ desk' \in [Desks -> {Quiet} \cup DeskTasks]
         /\ \A e \in Desks : Working(e)' <=> Working(e)
         /\ \A e \in Desks : desk'[e].who = desk[e].who /\ desk'[e].doc = desk[e].doc
         /\ desk'[d].st = st
         /\ \A e \in Desks \ {d} : desk'[e] = desk[e]
<1>1. desk[d] \in DeskTasks
  BY WorkingStage
<1>2. desk'[d] = [desk[d] EXCEPT !.st = st] /\ desk'[d] \in DeskTasks /\ desk'[d].st = st
  BY <1>1 DEF DStep, TypeOK, DeskTasks
<1>3. desk'[d].who = desk[d].who /\ desk'[d].doc = desk[d].doc
  BY <1>1, <1>2 DEF DeskTasks
<1>4. \A e \in Desks \ {d} : desk'[e] = desk[e]
  BY DEF DStep, TypeOK
<1>5. Working(d)'
  BY <1>2 DEF Working, Quiet, DeskStages
<1>6. desk' \in [Desks -> {Quiet} \cup DeskTasks]
  BY <1>2 DEF DStep, TypeOK
<1>7. QED
  BY <1>2, <1>3, <1>4, <1>5, <1>6 DEF Working

\* A process has done its request.
LEMMA DeskEnds ==
  ASSUME TypeOK, NEW d \in Desks, DEnd(d)
  PROVE  /\ desk' \in [Desks -> {Quiet} \cup DeskTasks]
         /\ ~Working(d)' /\ desk'[d].st = "none"
         /\ \A e \in Desks \ {d} : desk'[e] = desk[e]
BY DEF TypeOK, DEnd, Working, Quiet

\* A process begins a request of an owner.
LEMMA DeskBegins ==
  ASSUME TypeOK, NEW d \in Desks, NEW op \in {"edit", "put"}, NEW o \in Owners,
         NEW doc \in Docs, NEW nolock \in BOOLEAN,
         desk' = [desk EXCEPT ![d] = Task(op, o, doc, nolock)]
  PROVE  /\ desk' \in [Desks -> {Quiet} \cup DeskTasks]
         /\ desk'[d].who = o /\ desk'[d].st = "begin"
         /\ \A e \in Desks \ {d} : desk'[e] = desk[e]
<1>1. Task(op, o, doc, nolock) \in DeskTasks
  BY DEF Task, DeskTasks, DeskStages
<1>2. QED
  BY <1>1 DEF TypeOK, Task

\* When a file changes its stamp does not tell the truth any more, or is blurred.
LEMMA StaleStamp ==
  ASSUME TypeOK, NEW doc \in Docs, Stale(doc)
  PROVE  /\ stamp' \in [Docs -> {"none", "current", "old"}]
         /\ \A x \in Docs : stamp'[x] = "none" <=> stamp[x] = "none"
         /\ \A x \in Docs \ {doc} : stamp'[x] = stamp[x]
         /\ ~blurred' => ~blurred /\ stamp'[doc] # "current"
         /\ blurred' \in BOOLEAN
<1>1. CASE stamp[doc] # "current"
  BY <1>1 DEF Stale, TypeOK
<1>2. CASE stamp[doc] = "current" /\ stamp' = [stamp EXCEPT ![doc] = "old"] /\ UNCHANGED blurred
  BY <1>2 DEF TypeOK
<1>3. CASE stamp[doc] = "current" /\ blurred' = TRUE /\ UNCHANGED stamp
  BY <1>3 DEF TypeOK
<1>4. QED
  BY <1>1, <1>2, <1>3 DEF Stale

\* The marks of a file's stamp go from all the copies of it.
LEMMA UncheckedCopies ==
  ASSUME TypeOK, NEW doc \in Docs
  PROVE  LET new == Unchecked(doc) IN
         /\ DOMAIN new = Owners
         /\ \A o \in Owners :
              /\ IsDraft(new[o])
              /\ new[o].doc = draft[o].doc /\ new[o].was = draft[o].was
              /\ new[o].checked => draft[o].checked /\ draft[o].doc # doc
<1> DEFINE new == Unchecked(doc)
<1>1. DOMAIN new = Owners
  BY DEF Unchecked
<1>2. ASSUME NEW o \in Owners
      PROVE  /\ IsDraft(new[o])
             /\ new[o].doc = draft[o].doc /\ new[o].was = draft[o].was
             /\ new[o].checked => draft[o].checked /\ draft[o].doc # doc
  <2>1. CASE Checked(o, doc)
    <3>1. new[o] = [draft[o] EXCEPT !.checked = FALSE]
      BY <2>1 DEF Unchecked
    <3>2. QED
      BY <3>1 DEF TypeOK, IsDraft, Blank
  <2>2. CASE ~Checked(o, doc)
    <3>1. new[o] = draft[o]
      BY <2>2 DEF Unchecked
    <3>2. QED
      BY <2>2, <3>1 DEF TypeOK, IsDraft, Checked
  <2>3. QED
    BY <2>1, <2>2
<1>3. QED
  BY <1>1, <1>2

-----------------------------------------------------------------------------
(* The requests of users *)

LEMMA NothingOfOwners ==
  ASSUME EditInv, UNCHANGED owners, file' = file
  PROVE  EditInv'
<1>1. TypeOK'
  BY DEF EditInv, owners, TypeOK, IsDraft
<1>2. OneDesk' /\ OwnCopy' /\ LockInv'
  BY DEF EditInv, owners, OneDesk, OwnCopy, LockInv, Working
<1>3. TrueCopy'
  BY DEF EditInv, owners, TrueCopy, Checked, Text
<1>4. QED
  BY <1>1, <1>2, <1>3 DEF EditInv

LEMMA UserStepKeeps ==
  ASSUME EditInv, NEW p \in Procs, UserStep(p)
  PROVE  EditInv'
<1>1. CASE file' = file
  BY <1>1, NothingOfOwners DEF UserStep, owners
<1>2. CASE file' # file
  <2>1. Stale("subscribers") /\ "subscribers" \in Docs
    BY <1>2 DEF UserStep, Docs
  <2>2. /\ stamp' \in [Docs -> {"none", "current", "old"}]
        /\ \A x \in Docs : stamp'[x] = "none" <=> stamp[x] = "none"
        /\ \A x \in Docs \ {"subscribers"} : stamp'[x] = stamp[x]
        /\ ~blurred' => ~blurred /\ stamp'["subscribers"] # "current"
        /\ blurred' \in BOOLEAN
    BY <2>1, StaleStamp DEF EditInv
  <2>3. UNCHANGED <<editf, llock, text, misc, desk, draft, orders, replaced, tangled>>
    BY DEF UserStep
  <2>4. TypeOK'
    BY <2>2, <2>3 DEF EditInv, TypeOK, IsDraft
  <2>5. OneDesk' /\ OwnCopy'
    BY <2>3 DEF EditInv, OneDesk, OwnCopy, Working
  <2>6. LockInv'
    <3>1. \A d \in Desks : desk[d].st = "lockedit" => desk[d].doc \in Docs
      BY DEF EditInv, TypeOK, Quiet, DeskTasks
    <3>2. QED
      BY <2>2, <2>3, <3>1 DEF EditInv, LockInv
  <2>7. TrueCopy'
    BY <2>2, <2>3 DEF EditInv, TrueCopy, Checked, Text
  <2>8. QED
    BY <2>4, <2>5, <2>6, <2>7 DEF EditInv
<1>3. QED
  BY <1>1, <1>2

-----------------------------------------------------------------------------
(* EDIT *)

LEMMA BeginKeeps ==
  ASSUME EditInv, NEW d \in Desks, ~Working(d), NEW o \in Owners, Order(o),
         NEW op \in {"edit", "put"}, NEW doc \in Docs, NEW nolock \in BOOLEAN,
         desk' = [desk EXCEPT ![d] = Task(op, o, doc, nolock)],
         UNCHANGED <<editf, llock, stamp, text, misc, draft, blurred, replaced, tangled, file>>
  PROVE  EditInv'
<1>1. /\ desk' \in [Desks -> {Quiet} \cup DeskTasks]
      /\ desk'[d].who = o /\ desk'[d].st = "begin"
      /\ \A e \in Desks \ {d} : desk'[e] = desk[e]
  BY DeskBegins DEF EditInv
<1>2. orders' \in Nat
  BY DEF EditInv, TypeOK, Order
<1>3. TypeOK'
  BY <1>1, <1>2 DEF EditInv, TypeOK, IsDraft
<1>4. OneDesk'
  <2>1. \A e \in Desks : Working(e) => desk[e].who # o
    BY DEF Order
  <2>2. QED
    BY <1>1, <2>1 DEF EditInv, OneDesk, Working
<1>5. OwnCopy' /\ TrueCopy'
  BY <1>1 DEF EditInv, OwnCopy, TrueCopy, Checked, Text
<1>6. LockInv'
  <2>1. desk[d].st = "none"
    BY WorkingStage DEF EditInv
  <2>2. QED
    BY <1>1, <2>1 DEF EditInv, LockInv
<1>7. QED
  BY <1>3, <1>4, <1>5, <1>6 DEF EditInv

LEMMA CopyKeeps ==
  ASSUME EditInv, NEW d \in Desks, Copy(d), file' = file
  PROVE  EditInv'
<1> DEFINE t   == desk[d]
           new == [doc |-> t.doc, was |-> Text(t.doc), checked |-> FALSE]
<1>0. Working(d) /\ desk[d] \in DeskTasks
  BY WorkingStage DEF Copy, EditInv
<1>1. /\ draft' = [draft EXCEPT ![t.who] = new] /\ t.who \in Owners
      /\ UNCHANGED <<editf, llock, stamp, text, misc, orders, blurred, replaced, tangled>>
      /\ DEnd(d) \/ DStep(d, "stamp")
  BY <1>0 DEF Copy, DeskTasks
<1>2. /\ DOMAIN draft' = Owners /\ draft'[t.who] = new
      /\ \A o \in Owners \ {t.who} : draft'[o] = draft[o]
  BY <1>1 DEF EditInv, TypeOK
<1>3. IsDraft(new)
  BY <1>0 DEF IsDraft, Blank, DeskTasks
<1>4. /\ desk' \in [Desks -> {Quiet} \cup DeskTasks]
      /\ \A e \in Desks : Working(e)' => Working(e) /\ desk'[e].who = desk[e].who /\ desk'[e].doc = desk[e].doc
      /\ desk'[d].st \in {"none", "stamp"} /\ \A e \in Desks \ {d} : desk'[e] = desk[e]
  <2>1. CASE DEnd(d)
    BY <2>1, DeskEnds DEF EditInv, Working
  <2>2. CASE DStep(d, "stamp")
    BY <2>2, <1>0, DeskGoesOn DEF EditInv, DeskStages
  <2>3. QED
    BY <1>1, <2>1, <2>2
<1>5. TypeOK'
  BY <1>1, <1>2, <1>3, <1>4 DEF EditInv, TypeOK, IsDraft
<1>6. OneDesk'
  BY <1>4 DEF EditInv, OneDesk
<1>7. OwnCopy'
  <2> SUFFICES ASSUME NEW e \in Desks, desk'[e].st = "stamp"
               PROVE  draft'[desk'[e].who].doc = desk'[e].doc
    BY DEF OwnCopy
  <2>1. Working(e)'
    BY DEF Working, Quiet
  <2>2. CASE e = d
    BY <1>2, <1>4, <2>1, <2>2
  <2>3. CASE e # d
    <3>1. desk[e].who # t.who
      BY <1>0, <1>4, <2>1, <2>3 DEF EditInv, OneDesk
    <3>2. desk[e] \in DeskTasks
      BY <1>4, <2>1, WorkingStage DEF EditInv
    <3>3. QED
      BY <1>2, <1>4, <2>3, <3>1, <3>2 DEF EditInv, OwnCopy, DeskTasks
  <2>4. QED
    BY <2>2, <2>3
<1>8. TrueCopy'
  <2>1. \A o \in Owners, doc \in Docs : Checked(o, doc)' => o # t.who /\ Checked(o, doc)
    BY <1>2 DEF Checked
  <2>2. QED
    BY <1>1, <1>2, <2>1 DEF EditInv, TrueCopy, Text
<1>9. LockInv'
  BY <1>0, <1>1, <1>4 DEF EditInv, LockInv, Copy
<1>10. QED
  BY <1>5, <1>6, <1>7, <1>8, <1>9 DEF EditInv

LEMMA PutTimestampKeeps ==
  ASSUME EditInv, NEW d \in Desks, PutTimestamp(d), file' = file
  PROVE  EditInv'
<1> DEFINE t   == desk[d]
           new == Unchecked(t.doc)
<1>0. Working(d) /\ t \in DeskTasks /\ t.st = "stamp" /\ t.who \in Owners /\ t.doc \in Docs
  BY WorkingStage DEF PutTimestamp, EditInv, DeskTasks
<1>1. /\ stamp' = [stamp EXCEPT ![t.doc] = "current"]
      /\ draft' = [new EXCEPT ![t.who].checked = TRUE]
      /\ blurred' = (blurred \/ Text(t.doc) # draft[t.who].was)
      /\ DStep(d, "lockedit")
      /\ UNCHANGED <<editf, llock, text, misc, orders, replaced, tangled>>
  BY DEF PutTimestamp
<1>2. /\ desk' \in [Desks -> {Quiet} \cup DeskTasks]
      /\ \A e \in Desks : Working(e)' <=> Working(e)
      /\ \A e \in Desks : desk'[e].who = desk[e].who /\ desk'[e].doc = desk[e].doc
      /\ desk'[d].st = "lockedit" /\ \A e \in Desks \ {d} : desk'[e] = desk[e]
  BY <1>0, <1>1, DeskGoesOn DEF EditInv, DeskStages
<1>3. /\ DOMAIN new = Owners
      /\ \A o \in Owners :
           /\ IsDraft(new[o])
           /\ new[o].doc = draft[o].doc /\ new[o].was = draft[o].was
           /\ new[o].checked => draft[o].checked /\ draft[o].doc # t.doc
  BY <1>0, UncheckedCopies DEF EditInv
<1>4. /\ DOMAIN draft' = Owners /\ \A o \in Owners \ {t.who} : draft'[o] = new[o]
      /\ draft'[t.who] = [new[t.who] EXCEPT !.checked = TRUE]
  BY <1>0, <1>1, <1>3
<1>5. /\ IsDraft(draft'[t.who]) /\ draft'[t.who].doc = draft[t.who].doc
      /\ draft'[t.who].was = draft[t.who].was
  BY <1>0, <1>3, <1>4 DEF IsDraft, Blank
<1>6. draft[t.who].doc = t.doc
  BY <1>0 DEF EditInv, OwnCopy
<1>7. /\ stamp' \in [Docs -> {"none", "current", "old"}] /\ stamp'[t.doc] = "current"
      /\ \A doc \in Docs \ {t.doc} : stamp'[doc] = stamp[doc]
  BY <1>0, <1>1 DEF EditInv, TypeOK
<1>8. blurred' \in BOOLEAN /\ (~blurred' => ~blurred /\ Text(t.doc) = draft[t.who].was)
  BY <1>1 DEF EditInv, TypeOK
<1>9. TypeOK'
  <2>1. \A o \in Owners : IsDraft(draft'[o])
    BY <1>3, <1>4, <1>5
  <2>2. QED
    BY <1>1, <1>2, <1>4, <1>7, <1>8, <2>1 DEF EditInv, TypeOK, IsDraft
<1>10. OneDesk'
  BY <1>2 DEF EditInv, OneDesk
<1>11. OwnCopy'
  <2> SUFFICES ASSUME NEW e \in Desks, desk'[e].st = "stamp"
               PROVE  draft'[desk'[e].who].doc = desk'[e].doc
    BY DEF OwnCopy
  <2>1. e # d /\ desk'[e] = desk[e] /\ desk[e].who \in Owners
    BY <1>2, WorkingStage DEF EditInv, DeskTasks, DeskStages
  <2>2. draft'[desk[e].who].doc = draft[desk[e].who].doc
    <3>1. CASE desk[e].who = t.who
      BY <1>5, <3>1
    <3>2. CASE desk[e].who # t.who
      BY <1>3, <1>4, <2>1, <3>2
    <3>3. QED
      BY <3>1, <3>2
  <2>3. draft[desk[e].who].doc = desk[e].doc
    BY <2>1 DEF EditInv, OwnCopy
  <2>4. QED
    BY <2>1, <2>2, <2>3
<1>12. TrueCopy'
  <2> SUFFICES ASSUME NEW o \in Owners, NEW doc \in Docs, Checked(o, doc)'
               PROVE  /\ stamp'[doc] # "none"
                      /\ ~blurred' /\ stamp'[doc] = "current" => Text(doc)' = draft'[o].was
    BY DEF TrueCopy
  <2>1. Text(doc)' = Text(doc)
    BY <1>1 DEF Text
  <2>2. CASE o = t.who
    <3>1. doc = t.doc
      BY <1>5, <1>6, <2>2 DEF Checked
    <3>2. QED
      BY <1>5, <1>7, <1>8, <2>1, <2>2, <3>1
  <2>3. CASE o # t.who
    <3>1. Checked(o, doc) /\ doc # t.doc /\ draft'[o].was = draft[o].was
      BY <1>3, <1>4, <2>3 DEF Checked
    <3>2. stamp'[doc] = stamp[doc]
      BY <1>7, <3>1
    <3>3. QED
      BY <1>8, <2>1, <3>1, <3>2 DEF EditInv, TrueCopy
  <2>4. QED
    BY <2>2, <2>3
<1>13. LockInv'
  <2>1. \E doc \in Docs : stamp'[doc] # "none"
    BY <1>0, <1>7
  <2>2. \A e \in Desks : desk[e].st = "lockedit" => desk[e].doc \in Docs
    BY WorkingStage DEF EditInv, DeskTasks, DeskStages
  <2>3. QED
    BY <1>0, <1>1, <1>2, <1>7, <2>1, <2>2 DEF EditInv, LockInv
<1>14. QED
  BY <1>9, <1>10, <1>11, <1>12, <1>13 DEF EditInv

LEMMA LockEditKeeps ==
  ASSUME EditInv, NEW d \in Desks, LockEdit(d), file' = file
  PROVE  EditInv'
<1>0. Working(d) /\ desk[d] \in DeskTasks /\ desk[d].st = "lockedit" /\ desk[d].who \in Owners
  BY WorkingStage DEF LockEdit, EditInv, DeskTasks
<1>1. /\ editf' = desk[d].who
      /\ misc' = IF misc = d THEN Nobody ELSE misc
      /\ DEnd(d)
      /\ UNCHANGED <<llock, stamp, text, draft, orders, blurred, replaced, tangled>>
  BY DEF LockEdit
<1>2. /\ desk' \in [Desks -> {Quiet} \cup DeskTasks] /\ ~Working(d)' /\ desk'[d].st = "none"
      /\ \A e \in Desks \ {d} : desk'[e] = desk[e]
  BY <1>1, DeskEnds DEF EditInv
<1>3. TypeOK'
  BY <1>0, <1>1, <1>2 DEF EditInv, TypeOK, IsDraft
<1>4. OneDesk'
  BY <1>2 DEF EditInv, OneDesk, Working
<1>5. OwnCopy' /\ TrueCopy'
  BY <1>1, <1>2 DEF EditInv, OwnCopy, TrueCopy, Checked, Text
<1>6. LockInv'
  <2>1. editf' # Nobody
    BY <1>0, <1>1, EditingAssumption
  <2>2. ~tangled => stamp[desk[d].doc] # "none" /\ desk[d].doc \in Docs
    BY <1>0 DEF EditInv, LockInv, DeskTasks
  <2>3. QED
    BY <1>1, <1>2, <2>1, <2>2 DEF EditInv, LockInv
<1>7. QED
  BY <1>3, <1>4, <1>5, <1>6 DEF EditInv

-----------------------------------------------------------------------------
(* PUT *)

LEMMA LockMiscKeeps ==
  ASSUME EditInv, NEW d \in Desks, LockMisc(d), file' = file
  PROVE  EditInv'
<1>0. Working(d) /\ desk[d].st = "begin"
  BY WorkingStage DEF LockMisc, EditInv
<1>1. \E st \in {"lock", "test"} : DStep(d, st)
  BY DEF LockMisc
<1>2. /\ misc' = d
      /\ UNCHANGED <<editf, llock, stamp, text, draft, orders, blurred, replaced, tangled>>
  BY DEF LockMisc
<1>3. /\ desk' \in [Desks -> {Quiet} \cup DeskTasks]
      /\ \A e \in Desks : Working(e)' <=> Working(e)
      /\ \A e \in Desks : desk'[e].who = desk[e].who /\ desk'[e].doc = desk[e].doc
      /\ desk'[d].st \in {"lock", "test"} /\ \A e \in Desks \ {d} : desk'[e] = desk[e]
  BY <1>0, <1>1, DeskGoesOn DEF EditInv, DeskStages
<1>4. TypeOK'
  BY <1>2, <1>3 DEF EditInv, TypeOK, IsDraft
<1>5. OneDesk' /\ OwnCopy'
  BY <1>2, <1>3 DEF EditInv, OneDesk, OwnCopy
<1>6. TrueCopy'
  BY <1>2 DEF EditInv, TrueCopy, Checked, Text
<1>7. LockInv'
  BY <1>0, <1>2, <1>3 DEF EditInv, LockInv
<1>8. QED
  BY <1>4, <1>5, <1>6, <1>7 DEF EditInv

LEMMA LockSubscribersKeeps ==
  ASSUME EditInv, NEW d \in Desks, LockSubscribers(d), file' = file
  PROVE  EditInv'
<1>0. Working(d) /\ desk[d].st = "lock" /\ DStep(d, "test")
  BY DEF LockSubscribers
<1>2. UNCHANGED <<editf, llock, stamp, text, misc, draft, orders, blurred, replaced, tangled>>
  BY DEF LockSubscribers
<1>3. /\ desk' \in [Desks -> {Quiet} \cup DeskTasks]
      /\ \A e \in Desks : Working(e)' <=> Working(e)
      /\ \A e \in Desks : desk'[e].who = desk[e].who /\ desk'[e].doc = desk[e].doc
      /\ desk'[d].st = "test" /\ \A e \in Desks \ {d} : desk'[e] = desk[e]
  BY <1>0, DeskGoesOn DEF EditInv, DeskStages
<1>4. TypeOK'
  BY <1>2, <1>3 DEF EditInv, TypeOK, IsDraft
<1>5. OneDesk' /\ OwnCopy'
  BY <1>2, <1>3 DEF EditInv, OneDesk, OwnCopy
<1>6. TrueCopy'
  BY <1>2 DEF EditInv, TrueCopy, Checked, Text
<1>7. LockInv'
  BY <1>0, <1>2, <1>3 DEF EditInv, LockInv
<1>8. QED
  BY <1>4, <1>5, <1>6, <1>7 DEF EditInv

LEMMA ReturnKeeps ==
  ASSUME EditInv, NEW d \in Desks, Return(d), file' = file
  PROVE  EditInv'
<1> DEFINE t   == desk[d]
           new == [doc |-> t.doc, was |-> Text(t.doc), checked |-> FALSE]
<1>0. Working(d) /\ t \in DeskTasks /\ t.st = "test" /\ t.who \in Owners
  BY WorkingStage DEF Return, EditInv, DeskTasks
<1>1. UNCHANGED <<editf, llock, stamp, text, orders, blurred, replaced, tangled>>
  BY DEF Return
<1>2. CASE draft' = [draft EXCEPT ![t.who] = new] /\ DStep(d, "stamp") /\ UNCHANGED misc
  <2>1. /\ DOMAIN draft' = Owners /\ draft'[t.who] = new
        /\ \A o \in Owners \ {t.who} : draft'[o] = draft[o]
    BY <1>0, <1>2 DEF EditInv, TypeOK
  <2>2. IsDraft(new)
    BY <1>0 DEF IsDraft, Blank, DeskTasks
  <2>3. /\ desk' \in [Desks -> {Quiet} \cup DeskTasks]
        /\ \A e \in Desks : Working(e)' <=> Working(e)
        /\ \A e \in Desks : desk'[e].who = desk[e].who /\ desk'[e].doc = desk[e].doc
        /\ desk'[d].st = "stamp" /\ \A e \in Desks \ {d} : desk'[e] = desk[e]
    BY <1>0, <1>2, DeskGoesOn DEF EditInv, DeskStages
  <2>4. TypeOK'
    BY <1>1, <1>2, <2>1, <2>2, <2>3 DEF EditInv, TypeOK, IsDraft
  <2>5. OneDesk'
    BY <2>3 DEF EditInv, OneDesk
  <2>6. OwnCopy'
    <3> SUFFICES ASSUME NEW e \in Desks, desk'[e].st = "stamp"
                 PROVE  draft'[desk'[e].who].doc = desk'[e].doc
      BY DEF OwnCopy
    <3>1. CASE e = d
      BY <2>1, <2>3, <3>1
    <3>2. CASE e # d
      <4>1. Working(e) /\ desk[e].who \in Owners /\ desk'[e] = desk[e]
        BY <2>3, <3>2, WorkingStage DEF EditInv, DeskTasks, DeskStages
      <4>2. desk[e].who # t.who
        BY <1>0, <3>2, <4>1 DEF EditInv, OneDesk
      <4>3. QED
        BY <2>1, <4>1, <4>2 DEF EditInv, OwnCopy
    <3>3. QED
      BY <3>1, <3>2
  <2>7. TrueCopy'
    <3>1. \A o \in Owners, doc \in Docs : Checked(o, doc)' => o # t.who /\ Checked(o, doc)
      BY <2>1 DEF Checked
    <3>2. QED
      BY <1>1, <2>1, <3>1 DEF EditInv, TrueCopy, Text
  <2>8. LockInv'
    BY <1>0, <1>1, <2>3 DEF EditInv, LockInv
  <2>9. QED
    BY <2>4, <2>5, <2>6, <2>7, <2>8 DEF EditInv
<1>3. CASE DEnd(d) /\ misc' = Nobody /\ UNCHANGED draft
  <2>1. /\ desk' \in [Desks -> {Quiet} \cup DeskTasks] /\ ~Working(d)' /\ desk'[d].st = "none"
        /\ \A e \in Desks \ {d} : desk'[e] = desk[e]
    BY <1>3, DeskEnds DEF EditInv
  <2>2. TypeOK'
    BY <1>1, <1>3, <2>1 DEF EditInv, TypeOK, IsDraft
  <2>3. OneDesk' /\ OwnCopy'
    BY <1>3, <2>1 DEF EditInv, OneDesk, OwnCopy, Working
  <2>4. TrueCopy'
    BY <1>1, <1>3 DEF EditInv, TrueCopy, Checked, Text
  <2>5. LockInv'
    BY <1>0, <1>1, <2>1 DEF EditInv, LockInv
  <2>6. QED
    BY <2>2, <2>3, <2>4, <2>5 DEF EditInv
<1>4. QED
  BY <1>2, <1>3 DEF Return

LEMMA TruncateKeeps ==
  ASSUME EditInv, NEW d \in Desks, Truncate(d)
  PROVE  EditInv'
<1> DEFINE t == desk[d]
<1>0. Working(d) /\ t \in DeskTasks /\ t.st = "test" /\ t.doc \in Docs
  BY WorkingStage DEF Truncate, EditInv, DeskTasks
<1>1. /\ Stale(t.doc) /\ DStep(d, "unstamp")
      /\ UNCHANGED <<editf, llock, misc, draft, orders, tangled>>
  BY DEF Truncate
<1>2. /\ stamp' \in [Docs -> {"none", "current", "old"}]
      /\ \A x \in Docs : stamp'[x] = "none" <=> stamp[x] = "none"
      /\ \A x \in Docs \ {t.doc} : stamp'[x] = stamp[x]
      /\ ~blurred' => ~blurred /\ stamp'[t.doc] # "current"
      /\ blurred' \in BOOLEAN
  BY <1>0, <1>1, StaleStamp DEF EditInv
<1>3. /\ desk' \in [Desks -> {Quiet} \cup DeskTasks]
      /\ \A e \in Desks : Working(e)' <=> Working(e)
      /\ \A e \in Desks : desk'[e].who = desk[e].who /\ desk'[e].doc = desk[e].doc
      /\ desk'[d].st = "unstamp" /\ \A e \in Desks \ {d} : desk'[e] = desk[e]
  BY <1>0, <1>1, DeskGoesOn DEF EditInv, DeskStages
<1>4. text' \in Int /\ (\A x \in Docs \ {t.doc} : Text(x)' = Text(x))
  BY <1>0 DEF EditInv, TypeOK, Truncate, Text, Docs, Empty
<1>5. replaced' \in BOOLEAN
  BY DEF EditInv, TypeOK, Truncate
<1>6. TypeOK'
  BY <1>1, <1>2, <1>3, <1>4, <1>5 DEF EditInv, TypeOK, IsDraft
<1>7. OneDesk' /\ OwnCopy'
  BY <1>1, <1>3 DEF EditInv, OneDesk, OwnCopy
<1>8. TrueCopy'
  BY <1>1, <1>2, <1>4 DEF EditInv, TrueCopy, Checked
<1>9. LockInv'
  <2>1. \A e \in Desks : desk[e].st = "lockedit" => desk[e].doc \in Docs
    BY WorkingStage DEF EditInv, DeskTasks, DeskStages
  <2>2. QED
    BY <1>0, <1>1, <1>2, <1>3, <2>1 DEF EditInv, LockInv
<1>10. QED
  BY <1>6, <1>7, <1>8, <1>9 DEF EditInv

LEMMA UnstampKeeps ==
  ASSUME EditInv, NEW d \in Desks, Unstamp(d), file' = file
  PROVE  EditInv'
<1> DEFINE t == desk[d]
<1>0. Working(d) /\ t \in DeskTasks /\ t.st = "unstamp" /\ t.doc \in Docs
  BY WorkingStage DEF Unstamp, EditInv, DeskTasks
<1>1. /\ stamp' = [stamp EXCEPT ![t.doc] = "none"] /\ draft' = Unchecked(t.doc)
      /\ tangled' = (tangled \/ Between(d)) /\ DStep(d, "unlockedit")
      /\ UNCHANGED <<editf, llock, text, misc, orders, blurred, replaced>>
  BY DEF Unstamp
<1>2. /\ desk' \in [Desks -> {Quiet} \cup DeskTasks]
      /\ \A e \in Desks : Working(e)' <=> Working(e)
      /\ \A e \in Desks : desk'[e].who = desk[e].who /\ desk'[e].doc = desk[e].doc
      /\ desk'[d].st = "unlockedit" /\ \A e \in Desks \ {d} : desk'[e] = desk[e]
  BY <1>0, <1>1, DeskGoesOn DEF EditInv, DeskStages
<1>3. /\ DOMAIN draft' = Owners
      /\ \A o \in Owners :
           /\ IsDraft(draft'[o])
           /\ draft'[o].doc = draft[o].doc /\ draft'[o].was = draft[o].was
           /\ draft'[o].checked => draft[o].checked /\ draft[o].doc # t.doc
  BY <1>0, <1>1, UncheckedCopies DEF EditInv
<1>4. /\ stamp' \in [Docs -> {"none", "current", "old"}]
      /\ \A doc \in Docs \ {t.doc} : stamp'[doc] = stamp[doc]
      /\ stamp'[t.doc] = "none"
  BY <1>0, <1>1 DEF EditInv, TypeOK
<1>5. tangled' \in BOOLEAN
  BY <1>1 DEF EditInv, TypeOK, Between
<1>6. TypeOK'
  BY <1>1, <1>2, <1>3, <1>4, <1>5 DEF EditInv, TypeOK, IsDraft
<1>7. OneDesk'
  BY <1>2 DEF EditInv, OneDesk
<1>8. OwnCopy'
  <2>1. \A e \in Desks : desk[e].st = "stamp" => desk[e].who \in Owners
    BY WorkingStage DEF EditInv, DeskTasks, DeskStages
  <2>2. QED
    BY <1>2, <1>3, <2>1 DEF EditInv, OwnCopy
<1>9. TrueCopy'
  BY <1>1, <1>3, <1>4 DEF EditInv, TrueCopy, Checked, Text
<1>10. LockInv'
  <2> SUFFICES ASSUME ~tangled'
               PROVE  /\ \A e \in Desks : desk'[e].st # "lockedit"
                      /\ (\E doc \in Docs : stamp'[doc] # "none") => editf' # Nobody
    BY <1>2 DEF LockInv
  <2>1. ~tangled /\ \A e \in Desks : desk[e].st # "lockedit"
    BY <1>0, <1>1, WorkingStage DEF Between, EditInv, DeskStages
  <2>2. QED
    BY <1>1, <1>2, <1>4, <2>1 DEF EditInv, LockInv
<1>11. QED
  BY <1>6, <1>7, <1>8, <1>9, <1>10 DEF EditInv

LEMMA UnlockEditKeeps ==
  ASSUME EditInv, NEW d \in Desks, UnlockEdit(d), file' = file
  PROVE  EditInv'
<1>0. Working(d) /\ desk[d].st = "unlockedit"
  BY DEF UnlockEdit
<1>1. /\ editf' = IF \A doc \in Docs : stamp[doc] = "none" THEN Nobody ELSE editf
      /\ tangled' = (tangled \/ Between(d))
      /\ DStep(d, "body")
      /\ UNCHANGED <<llock, stamp, text, misc, draft, orders, blurred, replaced>>
  BY DEF UnlockEdit
<1>2. /\ desk' \in [Desks -> {Quiet} \cup DeskTasks]
      /\ \A e \in Desks : Working(e)' <=> Working(e)
      /\ \A e \in Desks : desk'[e].who = desk[e].who /\ desk'[e].doc = desk[e].doc
      /\ desk'[d].st = "body" /\ \A e \in Desks \ {d} : desk'[e] = desk[e]
  BY <1>0, <1>1, DeskGoesOn DEF EditInv, DeskStages
<1>3. tangled' \in BOOLEAN
  BY <1>1 DEF EditInv, TypeOK, Between
<1>4. TypeOK'
  BY <1>1, <1>2, <1>3 DEF EditInv, TypeOK, IsDraft
<1>5. OneDesk' /\ OwnCopy'
  BY <1>1, <1>2 DEF EditInv, OneDesk, OwnCopy
<1>6. TrueCopy'
  BY <1>1 DEF EditInv, TrueCopy, Checked, Text
<1>7. LockInv'
  <2> SUFFICES ASSUME ~tangled'
               PROVE  /\ \A e \in Desks : desk'[e].st # "lockedit"
                      /\ editf' # Nobody <=> \E doc \in Docs : stamp[doc] # "none"
    BY <1>1, <1>2 DEF LockInv
  <2>1. ~tangled /\ \A e \in Desks : desk[e].st # "lockedit"
    BY <1>0, <1>1, WorkingStage DEF Between, EditInv, DeskStages
  <2>2. QED
    BY <1>1, <1>2, <2>1 DEF EditInv, LockInv
<1>8. QED
  BY <1>4, <1>5, <1>6, <1>7 DEF EditInv

LEMMA BodyKeeps ==
  ASSUME EditInv, NEW d \in Desks, Body(d)
  PROVE  EditInv'
<1> DEFINE t == desk[d]
<1>0. /\ Working(d) /\ t \in DeskTasks /\ t.st = "body"
      /\ t.who \in Owners /\ t.doc \in Docs
  BY WorkingStage DEF Body, EditInv, DeskTasks
<1>1. /\ Stale(t.doc) /\ DEnd(d) /\ misc' = Nobody
      /\ draft' = [draft EXCEPT ![t.who] = Blank]
      /\ UNCHANGED <<editf, llock, orders, replaced, tangled>>
  BY DEF Body
<1>2. /\ stamp' \in [Docs -> {"none", "current", "old"}]
      /\ \A x \in Docs : stamp'[x] = "none" <=> stamp[x] = "none"
      /\ \A x \in Docs \ {t.doc} : stamp'[x] = stamp[x]
      /\ ~blurred' => ~blurred /\ stamp'[t.doc] # "current"
      /\ blurred' \in BOOLEAN
  BY <1>0, <1>1, StaleStamp DEF EditInv
<1>3. /\ desk' \in [Desks -> {Quiet} \cup DeskTasks] /\ ~Working(d)' /\ desk'[d].st = "none"
      /\ \A e \in Desks \ {d} : desk'[e] = desk[e]
  BY <1>1, DeskEnds DEF EditInv
<1>4. text' \in Int /\ (\A x \in Docs \ {t.doc} : Text(x)' = Text(x))
  BY <1>0 DEF EditInv, TypeOK, Body, Text, Docs
<1>5. /\ DOMAIN draft' = Owners /\ draft'[t.who] = Blank /\ IsDraft(Blank)
      /\ \A o \in Owners \ {t.who} : draft'[o] = draft[o]
  BY <1>0, <1>1 DEF EditInv, TypeOK, IsDraft, Blank
<1>6. TypeOK'
  BY <1>1, <1>2, <1>3, <1>4, <1>5 DEF EditInv, TypeOK, IsDraft
<1>7. OneDesk'
  BY <1>3 DEF EditInv, OneDesk, Working
<1>8. OwnCopy'
  <2> SUFFICES ASSUME NEW e \in Desks, desk'[e].st = "stamp"
               PROVE  draft'[desk'[e].who].doc = desk'[e].doc
    BY DEF OwnCopy
  <2>1. e # d /\ Working(e) /\ desk[e].who \in Owners /\ desk'[e] = desk[e]
    BY <1>3, WorkingStage DEF EditInv, DeskTasks, DeskStages
  <2>2. desk[e].who # t.who
    BY <1>0, <2>1 DEF EditInv, OneDesk
  <2>3. QED
    BY <1>5, <2>1, <2>2 DEF EditInv, OwnCopy
<1>9. TrueCopy'
  <2>1. \A o \in Owners, doc \in Docs : Checked(o, doc)' => o # t.who /\ Checked(o, doc)
    BY <1>5 DEF Checked, Blank
  <2>2. QED
    BY <1>1, <1>2, <1>4, <1>5, <2>1 DEF EditInv, TrueCopy
<1>10. LockInv'
  <2>1. \A e \in Desks : desk[e].st = "lockedit" => desk[e].doc \in Docs
    BY WorkingStage DEF EditInv, DeskTasks, DeskStages
  <2>2. QED
    BY <1>0, <1>1, <1>2, <1>3, <2>1 DEF EditInv, LockInv
<1>11. QED
  BY <1>6, <1>7, <1>8, <1>9, <1>10 DEF EditInv

-----------------------------------------------------------------------------
(* LOCK, UNLOCK and deaths *)

LEMMA LockListKeeps ==
  ASSUME EditInv, NEW o \in Owners, LockList(o), file' = file
  PROVE  EditInv'
<1>1. UNCHANGED <<editf, stamp, text, misc, desk, draft, blurred, replaced, tangled>>
  BY DEF LockList
<1>2. TypeOK'
  <2>1. orders' \in Nat /\ llock' \in Owners \cup {Nobody}
    BY DEF LockList, Order, EditInv, TypeOK
  <2>2. QED
    BY <1>1, <2>1 DEF EditInv, TypeOK, IsDraft
<1>3. OneDesk' /\ OwnCopy' /\ LockInv'
  BY <1>1 DEF EditInv, OneDesk, OwnCopy, LockInv, Working
<1>4. TrueCopy'
  BY <1>1 DEF EditInv, TrueCopy, Checked, Text
<1>5. QED
  BY <1>2, <1>3, <1>4 DEF EditInv

LEMMA UnlockListKeeps ==
  ASSUME EditInv, NEW o \in Owners, UnlockList(o), file' = file
  PROVE  EditInv'
<1>1. /\ UNCHANGED <<text, misc, desk, blurred, replaced>>
      /\ llock' = Nobody /\ tangled' = (tangled \/ Between(Nobody))
  BY DEF UnlockList
<1>2. orders' \in Nat
  BY DEF UnlockList, Order, EditInv, TypeOK
<1>3. tangled' \in BOOLEAN
  BY <1>1 DEF EditInv, TypeOK, Between
<1>4. OneDesk'
  BY <1>1 DEF EditInv, OneDesk, Working
<1>5. CASE editf = Nobody
  <2>1. UNCHANGED <<editf, stamp, draft>>
    BY <1>5 DEF UnlockList
  <2>2. TypeOK'
    BY <1>1, <1>2, <1>3, <2>1 DEF EditInv, TypeOK, IsDraft
  <2>3. OwnCopy' /\ TrueCopy'
    BY <1>1, <2>1 DEF EditInv, OwnCopy, TrueCopy, Checked, Text
  <2>4. LockInv'
    BY <1>1, <2>1 DEF EditInv, LockInv
  <2>5. QED
    BY <1>4, <2>2, <2>3, <2>4 DEF EditInv
<1>6. CASE editf # Nobody
  <2>1. /\ editf' = Nobody /\ stamp' = [doc \in Docs |-> "none"]
        /\ draft' = [x \in Owners |-> [draft[x] EXCEPT !.checked = FALSE]]
    BY <1>6 DEF UnlockList
  <2>2. /\ DOMAIN draft' = Owners
        /\ \A x \in Owners :
             IsDraft(draft'[x]) /\ draft'[x].doc = draft[x].doc /\ draft'[x].checked = FALSE
    BY <2>1 DEF EditInv, TypeOK, IsDraft, Blank
  <2>3. TypeOK'
    BY <1>1, <1>2, <1>3, <2>1, <2>2 DEF EditInv, TypeOK, IsDraft
  <2>4. OwnCopy'
    <3>1. \A e \in Desks : desk[e].st = "stamp" => desk[e].who \in Owners
      BY WorkingStage DEF EditInv, DeskTasks, DeskStages
    <3>2. QED
      BY <1>1, <2>2, <3>1 DEF EditInv, OwnCopy
  <2>5. TrueCopy'
    BY <2>2 DEF TrueCopy, Checked
  <2>6. LockInv'
    <3>1. ~tangled' => \A e \in Desks : desk[e].st # "lockedit"
      BY <1>1, EditingAssumption, WorkingStage DEF Between, EditInv, DeskStages
    <3>2. QED
      BY <1>1, <2>1, <3>1 DEF LockInv
  <2>7. QED
    BY <1>4, <2>3, <2>4, <2>5, <2>6 DEF EditInv
<1>7. QED
  BY <1>5, <1>6

LEMMA DieDeskKeeps ==
  ASSUME EditInv, NEW d \in Desks, DieDesk(d), file' = file
  PROVE  EditInv'
<1>1. /\ tangled' = (tangled \/ desk[d].st \in {"lockedit", "unlockedit"})
      /\ DEnd(d)
      /\ UNCHANGED <<editf, llock, stamp, text, draft, orders, blurred>>
  BY DEF DieDesk
<1>2. /\ desk' \in [Desks -> {Quiet} \cup DeskTasks] /\ ~Working(d)' /\ desk'[d].st = "none"
      /\ \A e \in Desks \ {d} : desk'[e] = desk[e]
  BY <1>1, DeskEnds DEF EditInv
<1>3. misc' \in Desks \cup {Nobody}
  BY DEF DieDesk, EditInv, TypeOK
<1>4. replaced' \in BOOLEAN /\ tangled' \in BOOLEAN
  BY DEF DieDesk, EditInv, TypeOK, Putting
<1>5. TypeOK'
  BY <1>1, <1>2, <1>3, <1>4 DEF EditInv, TypeOK, IsDraft
<1>6. OneDesk' /\ OwnCopy'
  BY <1>1, <1>2 DEF EditInv, OneDesk, OwnCopy, Working
<1>7. TrueCopy'
  BY <1>1 DEF EditInv, TrueCopy, Checked, Text
<1>8. LockInv'
  BY <1>1, <1>2 DEF EditInv, LockInv
<1>9. QED
  BY <1>5, <1>6, <1>7, <1>8 DEF EditInv

-----------------------------------------------------------------------------
(* The inductive invariant holds *)

LEMMA EditInit ==
  ASSUME EInit
  PROVE  EditInv
<1>1. /\ editf = Nobody /\ llock = Nobody /\ misc = Nobody
      /\ stamp = [doc \in Docs |-> "none"] /\ text = 0 /\ orders = 0
      /\ desk = [d \in Desks |-> Quiet] /\ draft = [o \in Owners |-> Blank]
      /\ blurred = FALSE /\ replaced = FALSE /\ tangled = FALSE
  BY DEF EInit
<1>2. TypeOK
  <2>1. DOMAIN draft = Owners /\ \A o \in Owners : draft[o] = Blank
    BY <1>1
  <2>2. IsDraft(Blank)
    BY DEF IsDraft, Blank
  <2>3. stamp \in [Docs -> {"none", "current", "old"}] /\ desk \in [Desks -> {Quiet} \cup DeskTasks]
    BY <1>1
  <2>4. blurred \in BOOLEAN /\ replaced \in BOOLEAN /\ tangled \in BOOLEAN
    BY <1>1
  <2>5. text \in Int /\ orders \in Nat
    BY <1>1
  <2>6. QED
    BY <1>1, <2>1, <2>2, <2>3, <2>4, <2>5 DEF TypeOK
<1>3. OneDesk /\ OwnCopy
  BY <1>1 DEF OneDesk, OwnCopy, Working, Quiet
<1>4. TrueCopy
  BY <1>1 DEF TrueCopy, Checked, Blank
<1>5. LockInv
  BY <1>1 DEF LockInv, Quiet
<1>6. QED
  BY <1>2, <1>3, <1>4, <1>5 DEF EditInv

LEMMA EditStepKeeps ==
  ASSUME EditInv, NEW d \in Desks, EditStep(d), file' = file
  PROVE  EditInv'
<1>1. ASSUME NEW o \in Owners, OrderEdit(d, o) PROVE EditInv'
  <2>1. PICK doc \in Docs, nolock \in BOOLEAN :
          desk' = [desk EXCEPT ![d] = Task("edit", o, doc, nolock)]
    BY <1>1 DEF OrderEdit
  <2>2. /\ ~Working(d) /\ Order(o)
        /\ UNCHANGED <<editf, llock, stamp, text, misc, draft, blurred, replaced, tangled>>
    BY <1>1 DEF OrderEdit
  <2>3. QED
    BY <2>1, <2>2, BeginKeeps
<1>2. ASSUME NEW o \in Owners, OrderPut(d, o) PROVE EditInv'
  <2>1. /\ desk' = [desk EXCEPT ![d] = Task("put", o, draft[o].doc, FALSE)]
        /\ draft[o].doc \in Docs /\ ~Working(d) /\ Order(o)
        /\ UNCHANGED <<editf, llock, stamp, text, misc, draft, blurred, replaced, tangled>>
    BY <1>2 DEF OrderPut
  <2>2. QED
    BY <2>1, BeginKeeps
<1>3. CASE Copy(d)
  BY <1>3, CopyKeeps
<1>4. CASE PutTimestamp(d)
  BY <1>4, PutTimestampKeeps
<1>5. CASE LockEdit(d)
  BY <1>5, LockEditKeeps
<1>6. CASE LockMisc(d)
  BY <1>6, LockMiscKeeps
<1>7. CASE Unstamp(d)
  BY <1>7, UnstampKeeps
<1>8. CASE UnlockEdit(d)
  BY <1>8, UnlockEditKeeps
<1>9. QED
  BY <1>1, <1>2, <1>3, <1>4, <1>5, <1>6, <1>7, <1>8 DEF EditStep

LEMMA EditNext ==
  ASSUME EditInv, [ENext]_<<vars, setting, owners>>
  PROVE  EditInv'
<1>1. CASE UNCHANGED <<vars, setting, owners>>
  BY <1>1, NothingOfOwners DEF vars, disk
<1>2. CASE ENext
  <2>1. ASSUME NEW p \in Procs, UserRequest(p) PROVE EditInv'
    BY <2>1, NothingOfOwners DEF UserRequest, Start, disk
  <2>2. ASSUME NEW p \in Procs, UserStep(p) PROVE EditInv'
    BY <2>2, UserStepKeeps
  <2>3. ASSUME NEW p \in Procs, DieUser(p) PROVE EditInv'
    BY <2>3, NothingOfOwners DEF DieUser, Die, disk
  <2>4. ASSUME NEW d \in Desks, EditStep(d), UNCHANGED vars PROVE EditInv'
    BY <2>4, EditStepKeeps DEF vars, disk
  <2>5. ASSUME NEW d \in Desks, LockSubscribers(d) \/ Return(d), UNCHANGED disk PROVE EditInv'
    BY <2>5, LockSubscribersKeeps, ReturnKeeps DEF disk
  <2>6. ASSUME NEW d \in Desks, Truncate(d) PROVE EditInv'
    BY <2>6, TruncateKeeps
  <2>7. ASSUME NEW d \in Desks, Body(d) PROVE EditInv'
    BY <2>7, BodyKeeps
  <2>8. ASSUME NEW o \in Owners, LockList(o) \/ UnlockList(o), UNCHANGED vars PROVE EditInv'
    BY <2>8, LockListKeeps, UnlockListKeeps DEF vars, disk
  <2>9. ASSUME NEW d \in Desks, DieDesk(d), UNCHANGED disk PROVE EditInv'
    BY <2>9, DieDeskKeeps DEF disk
  <2>10. QED
    BY <1>2, <2>1, <2>2, <2>3, <2>4, <2>5, <2>6, <2>7, <2>8, <2>9 DEF ENext
<1>3. QED
  BY <1>1, <1>2

\* Stamps, locks and copies are always of the kinds the code knows, an owner
\* has one request at a time, and the files, copies, stamps and locks agree.
THEOREM EditingInvariant == ESpec => []EditInv
BY EditInit, EditNext, PTL DEF ESpec

\* The type invariant.
THEOREM EditingTyping == ESpec => []TypeOK
<1>1. EditInv => TypeOK
  BY DEF EditInv
<1>2. QED
  BY <1>1, EditingInvariant, PTL

\* LOCK_EDIT and UNLOCK_EDIT of edit.c and put.c keep .edit in step with the
\* stamp files: between the owners' requests the list is locked for editing
\* just when a file is checked out.
THEOREM EditingLockWithStamp == ESpec => []LockWithStamp
<1>1. EditInv => LockWithStamp
  BY WorkingStage DEF EditInv, LockInv, LockWithStamp
<1>2. QED
  BY <1>1, EditingInvariant, PTL

\* file_modified() of put.c is enough: a PUT that is not sent back replaces
\* what its owner has seen, if he has a stamp of his own that tells the truth.
THEOREM EditingNothingOverwritten == ESpec => NothingOverwritten
<1> DEFINE Seen(d) ==
             Truncate(d) /\ Checked(desk[d].who, desk[d].doc) /\ ~blurred =>
               Text(desk[d].doc) = draft[desk[d].who].was
<1>1. EditInv => \A d \in Desks : Seen(d)
  <2> SUFFICES ASSUME EditInv, NEW d \in Desks, Truncate(d),
                      Checked(desk[d].who, desk[d].doc), ~blurred
               PROVE  Text(desk[d].doc) = draft[desk[d].who].was
    OBVIOUS
  <2>1. desk[d].who \in Owners /\ desk[d].doc \in Docs
    BY WorkingStage DEF Truncate, EditInv, DeskTasks
  <2>2. stamp[desk[d].doc] # "none" /\ stamp[desk[d].doc] # "old"
    BY <2>1 DEF EditInv, TrueCopy, Truncate, file_modified
  <2>3. stamp[desk[d].doc] = "current"
    BY <2>1, <2>2 DEF EditInv, TypeOK
  <2>4. QED
    BY <2>1, <2>3 DEF EditInv, TrueCopy
<1>2. QED
  BY <1>1, EditingInvariant, PTL DEF NothingOverwritten


-----------------------------------------------------------------------------
(* The inductive invariant of Delivery *)

Preparing == {"writing", "prepared", "filtering", "filtered"}
Scanning  == {"scan", "batch", "last", "record", "wait"}
Handling  == Range(Methods) \cup Scanning \cup {"groups", "grouped", "peers", "peersent", "archived"}

Loaded(k)     == child[k] # NoBatch
NotBegun(f) == items[f] = Absent

\* Where the process is, and what there is of the message it has to do with.
PlaceInv ==
  /\ pc = "ready" => todo = {}
  /\ pc \notin {"down", "complete", "ready"} => cur \notin todo
  /\ pc \in Preparing => cur \in posted \ begun /\ (pc # "filtering" => cur \in out)
  /\ pc \in Handling => ~NotBegun(cur)
  /\ pc = "unlink" => cur \in begun \cap out /\ NotBegun(cur)
  /\ \A f \in Files : ~NotBegun(f) => f \in begun
  /\ pc \in Scanning \cup {"regular"} => items[cur]["regular"] # MethodDone
  /\ pc \in {"file", "web", "archived"} => method \in {4, 5}
  /\ pc \in {"groups", "grouped"} => course.news # Absent
  /\ pc \in {"peers", "peersent"} => peers # Absent

\* A child of the process works on the message at hand.
ChildInv ==
  /\ course.nthreads = 1 => \A k \in Children : ~Loaded(k)
  /\ crashes = 0 =>
       \A k \in Children : Loaded(k) => k \in procs /\ pc \in Scanning /\ child[k].file = cur

Reached(f) == \A s \in Steady : inbox[f][s] > 0

\* Of a message at hand: s has got it, a child has s to send to, or the process.
Cared(s) ==
  \/ inbox[cur][s] > 0
  \/ \E k \in Children : Loaded(k) /\ child[k].file = cur /\ s \in child[k].to
  \/ pc \in {"scan", "batch", "last"} /\ s \in recips

\* The copy of the subscribers, up to where the process is.
ScanInv ==
  pc \in Scanning =>
    /\ \A s \in Steady : \E i \in DOMAIN copy : copy[i] = s
    /\ \A i \in DOMAIN copy : i <= pos /\ copy[i] \in Steady => Cared(copy[i])
    /\ pc \in {"last", "wait"} => pos >= Len(copy)

DoneInv ==
  /\ \A f \in Files : ~NotBegun(f) /\ items[f]["regular"] = MethodDone => Reached(f)
  /\ pc = "unlink" => Reached(cur)

\* Without a death no count of lines is read by another process.
CountInv ==
  crashes = 0 =>
    \A f \in Files : ~NotBegun(f) /\ items[f]["regular"] \notin {0, MethodDone} =>
      f = cur /\ pc \in Scanning

\* Where nobody leaves a count stays true.
StayInv ==
  StaysOnly =>
    /\ \A f \in Files : ~NotBegun(f) /\ items[f]["regular"] # MethodDone =>
         /\ items[f]["regular"] <= Len(subs)
         /\ \A i \in DOMAIN subs :
              i <= items[f]["regular"] /\ subs[i] \in Steady => inbox[f][subs[i]] > 0
    /\ pc \in Scanning =>
         /\ Len(copy) <= Len(subs) /\ pos <= Len(copy)
         /\ \A i \in DOMAIN copy : copy[i] = subs[i]

SubsInv == \A s \in Steady : \E i \in DOMAIN subs : subs[i] = s

ReachInv == Sound => ScanInv /\ DoneInv /\ CountInv /\ StayInv

DeliveryInv == DTypeOK /\ PlaceInv /\ SubsInv /\ ChildInv /\ ReachInv

-----------------------------------------------------------------------------
(* Lemmas about the operators of Delivery *)

LEMMA MethodsAre ==
  /\ DOMAIN Methods = 1 .. 5 /\ Len(Methods) = 5
  /\ Range(Methods) = {"regular", "news", "peer", "file", "web"}
  /\ Methods[1] = "regular" /\ Methods[2] = "news" /\ Methods[3] = "peer"
  /\ Methods[4] = "file" /\ Methods[5] = "web"
  /\ MethodDone = -1
<1>1. /\ DOMAIN Methods = 1 .. 5 /\ Len(Methods) = 5
      /\ Methods[1] = "regular" /\ Methods[2] = "news" /\ Methods[3] = "peer"
      /\ Methods[4] = "file" /\ Methods[5] = "web" /\ MethodDone = -1
  BY DEF Methods, MethodDone
<1>2. Range(Methods) = {Methods[1], Methods[2], Methods[3], Methods[4], Methods[5]}
  BY <1>1 DEF Range
<1>3. QED
  BY <1>1, <1>2

\* A set of some of the methods' numbers has a least one.
LEMMA LeastMethod ==
  ASSUME NEW S \in SUBSET (1 .. 5), S # {}
  PROVE  Min(S) \in S
<1>1. \E x \in S : \A y \in S : x <= y
  <2>1. CASE 1 \in S
    BY <2>1
  <2>2. CASE 1 \notin S /\ 2 \in S
    BY <2>2
  <2>3. CASE S \subseteq 3 .. 5 /\ 3 \in S
    BY <2>3
  <2>4. CASE S \subseteq {4, 5}
    <3>1. CASE 4 \in S
      BY <2>4, <3>1
    <3>2. CASE 4 \notin S
      <4>1. S = {5}
        BY <2>4, <3>2
      <4>2. QED
        BY <4>1
    <3>3. QED
      BY <3>1, <3>2
  <2>5. QED
    BY <2>1, <2>2, <2>3, <2>4
<1>2. QED
  BY <1>1 DEF Min

Counts == [Range(Methods) -> Nat \cup {MethodDone}]

\* get_next_method: what it returns, if anything, is a later method of the
\* message that is not done.
LEMMA NextPendingIs ==
  ASSUME NEW f \in Files, NEW prev \in Nat
  PROVE  /\ NextPending(f, prev) \in 0 .. 5
         /\ NextPending(f, prev) # 0 =>
              /\ ~NotBegun(f) /\ NextPending(f, prev) > prev
              /\ items[f][Methods[NextPending(f, prev)]] # MethodDone
<1> DEFINE pending == {i \in DOMAIN Methods : i > prev /\ items[f][Methods[i]] # MethodDone}
<1>1. pending \in SUBSET (1 .. 5)
  BY MethodsAre
<1>2. CASE NotBegun(f) \/ pending = {}
  BY <1>2 DEF NextPending, NotBegun
<1>3. CASE ~NotBegun(f) /\ pending # {}
  <2>1. NextPending(f, prev) = Min(pending)
    BY <1>3 DEF NextPending, NotBegun
  <2>2. Min(pending) \in pending
    BY <1>1, <1>3, LeastMethod
  <2>3. QED
    BY <1>1, <1>3, <2>1, <2>2
<1>4. QED
  BY <1>2, <1>3

\* init_processed_items
LEMMA InitialItemsAre ==
  ASSUME NEW mask
  PROVE  InitialItems(mask) \in Counts /\ InitialItems(mask) # Absent
BY MethodsAre, DeliveryAssumption DEF InitialItems, Counts

LEMMA ProcessedIs ==
  ASSUME SpoolOK, NEW f \in Files, NEW m \in Range(Methods)
  PROVE  Processed(f, m) \in Nat
BY MethodsAre DEF Processed, SpoolOK

\* update_processed_items
LEMMA UpdateItemsDoes ==
  ASSUME SpoolOK, NEW f \in Files, NEW m \in Range(Methods), NEW n \in Nat,
         UpdateItems(f, m, n)
  PROVE  /\ DOMAIN items' = Files
         /\ \A g \in Files : NotBegun(g)' <=> NotBegun(g)
         /\ \A g \in Files : ~NotBegun(g) =>
              /\ items'[g] \in Counts
              /\ \A o \in Range(Methods) :
                   /\ g # f \/ o # m => items'[g][o] = items[g][o]
                   /\ items[g][o] = MethodDone => items'[g][o] = MethodDone
                   /\ g = f /\ o = m /\ items[g][o] # MethodDone => items'[g][o] = n
<1>1. DOMAIN items = Files /\ \A g \in Files : ~NotBegun(g) => items[g] \in Counts
  BY DEF SpoolOK, NotBegun, Counts
<1>2. CASE NotBegun(f) \/ items[f][m] = MethodDone
  <2>1. items' = items
    BY <1>2 DEF UpdateItems, NotBegun
  <2>2. QED
    BY <1>1, <1>2, <2>1 DEF NotBegun
<1>3. CASE ~NotBegun(f) /\ items[f][m] # MethodDone
  <2> DEFINE map == [items[f] EXCEPT ![m] = n]
  <2>1. items' = [items EXCEPT ![f] = map]
    BY <1>3 DEF UpdateItems, NotBegun
  <2>2. /\ map \in Counts /\ map[m] = n
        /\ \A o \in Range(Methods) \ {m} : map[o] = items[f][o]
    BY <1>1, <1>3 DEF Counts
  <2>3. map # Absent
    BY <2>2, DeliveryAssumption DEF Counts
  <2> HIDE DEF map
  <2>4. QED
    BY <1>1, <1>3, <2>1, <2>2, <2>3 DEF NotBegun
<1>4. QED
  BY <1>2, <1>3

\* end_processed_items
LEMMA EndItemsDoes ==
  ASSUME SpoolOK, NEW f \in Files, NEW m \in Range(Methods), EndItems(f, m)
  PROVE  /\ DOMAIN items' = Files
         /\ pc' \in {"method", "unlink"}
         /\ \A g \in Files \ {f} : items'[g] = items[g]
         /\ pc' = "method" => /\ NotBegun(f)' <=> NotBegun(f)
                              /\ ~NotBegun(f) => /\ items'[f] \in Counts
                                                 /\ items'[f][m] = MethodDone
                                                 /\ \A o \in Range(Methods) \ {m} : items'[f][o] = items[f][o]
         /\ pc' = "unlink" => /\ ~NotBegun(f) /\ NotBegun(f)'
                              /\ \A o \in Range(Methods) \ {m} : items[f][o] = MethodDone
<1> DEFINE map == [items[f] EXCEPT ![m] = MethodDone]
<1>1. DOMAIN items = Files /\ (~NotBegun(f) => items[f] \in Counts)
  BY DEF SpoolOK, NotBegun, Counts
<1>2. CASE NotBegun(f)
  BY <1>1, <1>2 DEF EndItems, NotBegun
<1>3. CASE ~NotBegun(f)
  <2>1. map \in Counts /\ DOMAIN map = Range(Methods)
    BY <1>1, <1>3 DEF Counts
  <2>2. map # Absent
    BY <2>1, DeliveryAssumption DEF Counts
  <2>3. CASE AllDone(map)
    <3>1. items' = [items EXCEPT ![f] = Absent] /\ pc' = "unlink"
      BY <1>3, <2>3 DEF EndItems, NotBegun
    <3>2. \A o \in Range(Methods) \ {m} : items[f][o] = MethodDone
      BY <1>1, <1>3, <2>1, <2>3 DEF AllDone, Counts
    <3>3. QED
      BY <1>1, <1>3, <3>1, <3>2 DEF NotBegun
  <2>4. CASE ~AllDone(map)
    <3>1. items' = [items EXCEPT ![f] = map] /\ pc' = "method"
      BY <1>3, <2>4 DEF EndItems, NotBegun
    <3>2. map[m] = MethodDone /\ \A o \in Range(Methods) \ {m} : map[o] = items[f][o]
      BY <1>1, <1>3 DEF Counts
    <3> HIDE DEF map
    <3>3. QED
      BY <1>1, <1>3, <2>1, <2>2, <3>1, <3>2 DEF NotBegun
  <2>5. QED
    BY <2>3, <2>4
<1>4. QED
  BY <1>2, <1>3

\* subfile_delete: one line goes, the others stay.
LEMMA LineRemoved ==
  ASSUME NEW S, NEW seq \in Seq(S), NEW i \in DOMAIN seq
  PROVE  /\ RemoveAt(seq, i) \in Seq(S)
         /\ \A j \in DOMAIN seq \ {i} : \E k \in DOMAIN RemoveAt(seq, i) : RemoveAt(seq, i)[k] = seq[j]
<1>0. Len(seq) \in Nat /\ DOMAIN seq = 1 .. Len(seq) /\ i \in 1 .. Len(seq)
  BY LenProperties
<1> DEFINE before == SubSeq(seq, 1, i - 1)
           after  == SubSeq(seq, i + 1, Len(seq))
<1>1. /\ before \in Seq(S) /\ Len(before) = i - 1 /\ \A j \in 1 .. i - 1 : before[j] = seq[j]
  <2>1. \A j \in 1 .. i - 1 : seq[j] \in S
    BY <1>0, ElementOfSeq
  <2>2. QED
    BY <1>0, <2>1, SubSeqProperties
<1>2. /\ after \in Seq(S) /\ Len(after) = Len(seq) - i
      /\ \A j \in 1 .. Len(seq) - i : after[j] = seq[i + j]
  BY <1>0, SubSeqProperties
<1>3. RemoveAt(seq, i) = before \o after
  BY DEF RemoveAt
<1> HIDE DEF before, after
<1>4. /\ before \o after \in Seq(S) /\ Len(before \o after) = Len(before) + Len(after)
      /\ \A j \in 1 .. Len(before) + Len(after) :
           (before \o after)[j] = IF j <= Len(before) THEN before[j] ELSE after[j - Len(before)]
  BY <1>1, <1>2, ConcatProperties
<1> DEFINE n == Len(seq)
           joined == before \o after
<1>5. /\ DOMAIN joined = 1 .. n - 1 /\ n \in Nat /\ i \in 1 .. n
      /\ \A j \in 1 .. n - 1 : joined[j] = IF j <= i - 1 THEN before[j] ELSE after[j - (i - 1)]
  <2>1. n \in Nat /\ i \in 1 .. n
    BY <1>0
  <2>2. Len(before) = i - 1 /\ Len(before) + Len(after) = n - 1
    BY <1>1, <1>2, <2>1
  <2>3. Len(joined) = n - 1 /\ joined \in Seq(S)
    BY <1>4, <2>2
  <2>4. DOMAIN joined = 1 .. n - 1
    BY <2>3, LenProperties
  <2> HIDE DEF n, joined
  <2>5. \A j \in 1 .. n - 1 : joined[j] = IF j <= i - 1 THEN before[j] ELSE after[j - (i - 1)]
    BY <1>4, <2>2 DEF joined
  <2>6. QED
    BY <2>1, <2>4, <2>5
<1>6. /\ \A j \in 1 .. i - 1 : before[j] = seq[j]
      /\ \A j \in 1 .. n - i : after[j] = seq[i + j]
  BY <1>1, <1>2
<1>7. DOMAIN seq = 1 .. n
  BY <1>0
<1> HIDE DEF n, joined
<1>8. ASSUME NEW j \in DOMAIN seq \ {i}
      PROVE  \E k \in DOMAIN joined : joined[k] = seq[j]
  <2>1. CASE j < i
    <3>1. j \in 1 .. n - 1 /\ j \in 1 .. i - 1 /\ j <= i - 1
      BY <1>5, <1>7, <2>1
    <3>2. joined[j] = seq[j]
      BY <1>5, <1>6, <3>1
    <3>3. QED
      BY <1>5, <3>1, <3>2
  <2>2. CASE j > i
    <3>1. j - 1 \in 1 .. n - 1 /\ ~(j - 1 <= i - 1) /\ (j - 1) - (i - 1) = j - i
          /\ j - i \in 1 .. n - i /\ i + (j - i) = j
      BY <1>5, <1>7, <2>2
    <3>2. joined[j - 1] = after[j - i]
      BY <1>5, <3>1
    <3>3. after[j - i] = seq[j]
      BY <1>6, <3>1
    <3>4. QED
      BY <1>5, <3>1, <3>2, <3>3
  <2>3. QED
    BY <1>5, <1>7, <2>1, <2>2
<1>9. QED
  BY <1>3, <1>4, <1>8 DEF joined

-----------------------------------------------------------------------------
(* What the actions have in common *)

Ending    == Await \/ StartNews \/ EndNews \/ StartPeers \/ EndPeers \/ EndArchive
Recording == RecordBatch \/ RecordGroup \/ RecordPeer
Sending   == SendBatch \/ QueueBatch

LEMMA EndingDoes ==
  ASSUME DTypeOK, PlaceInv, Ending
  PROVE  /\ pc \in Handling \ {"regular", "scan", "batch", "last", "record"}
         /\ pos' \in Nat /\ line' \in Nat
         /\ UNCHANGED <<subs, peers, posted, begun, out, inbox, peerbox, newsbox, archived,
                        child, procs, todo, cur, method, copy, recips, crashes, faults, course>>
         /\ \/ /\ pc' \in {"groups", "peers"} /\ pc \notin Scanning /\ UNCHANGED items
               /\ pc' = "groups" => course.news # Absent
               /\ pc' = "peers" => peers # Absent
               /\ pc \notin Scanning
            \/ \E m \in Range(Methods) :
                 /\ EndItems(cur, m) /\ UNCHANGED pos
                 /\ IF m = "regular" THEN pc = "wait" /\ procs = {} ELSE pc \notin Scanning
<1> USE MethodsAre DEF admin, outcome, loop, batch, bounds, Calm, Handling, Scanning
<1>0. cur \in Files /\ pos \in Nat /\ line \in Nat
  BY DEF DTypeOK, ProcessOK, ChildrenOK
<1>1. CASE Await
  BY <1>0, <1>1 DEF Await
<1>2. CASE StartNews
  <2>1. Processed(cur, "news") \in Nat
    BY <1>0, ProcessedIs DEF DTypeOK
  <2>2. CASE NoNewsgroups
    BY <1>0, <1>2, <2>2 DEF StartNews
  <2>3. CASE ~NoNewsgroups
    <3>1. course.news \in Seq(Groups \cup {NotAGroup}) /\ course.news # Absent
      BY <2>3, DeliveryAssumption DEF NoNewsgroups, DTypeOK, ProcessOK, ChildrenOK
    <3>2. Len(course.news) \in Nat
      BY <3>1, LenProperties
    <3>3. \A a, b \in Nat : Min({a, b}) \in Nat
      <4>1. SUFFICES ASSUME NEW a \in Nat, NEW b \in Nat PROVE Min({a, b}) \in Nat
        OBVIOUS
      <4>2. \E x \in {a, b} : \A y \in {a, b} : x <= y
        OBVIOUS
      <4>3. Min({a, b}) \in {a, b}
        BY <4>2 DEF Min
      <4>4. QED
        BY <4>3
    <3>4. pos' \in Nat /\ line' \in Nat /\ pc' = "groups" /\ UNCHANGED items /\ pc = "news"
      BY <1>2, <2>1, <2>3, <3>2, <3>3 DEF StartNews
    <3>5. UNCHANGED <<subs, peers, posted, begun, out, inbox, peerbox, newsbox, archived,
                      child, procs, todo, cur, method, copy, recips, crashes, faults, course>>
      BY <1>2 DEF StartNews
    <3>6. QED
      BY <3>1, <3>4, <3>5
  <2>4. QED
    BY <2>2, <2>3
<1>3. CASE EndNews
  BY <1>0, <1>3 DEF EndNews
<1>4. CASE StartPeers
  <2>1. Processed(cur, "peer") \in Nat
    BY <1>0, ProcessedIs DEF DTypeOK
  <2>2. QED
    BY <1>0, <1>4, <2>1 DEF StartPeers
<1>5. CASE EndPeers
  BY <1>0, <1>5 DEF EndPeers
<1>6. CASE EndArchive
  <2>1. Methods[method] \in {"file", "web"}
    BY <1>6 DEF EndArchive, PlaceInv
  <2>2. QED
    BY <1>0, <1>6, <2>1 DEF EndArchive
<1>7. QED
  BY <1>1, <1>2, <1>3, <1>4, <1>5, <1>6 DEF Ending

LEMMA RecordingDoes ==
  ASSUME DTypeOK, Recording
  PROVE  /\ UNCHANGED <<subs, peers, posted, begun, out, inbox, peerbox, newsbox, archived, child,
                        procs, todo, cur, method, copy, pos, line, crashes, faults, course>>
         /\ recips' \in {recips, {}}
         /\ \E m \in {"regular", "news", "peer"} :
              /\ UpdateItems(cur, m, pos)
              /\ IF m = "regular" THEN pc = "record" /\ pc' = "scan"
                 ELSE \/ pc = "grouped" /\ pc' = "groups"
                      \/ pc = "peersent" /\ pc' = "peers"
BY DEF Recording, RecordBatch, RecordGroup, RecordPeer, admin, outcome, loop, batch, bounds, Calm

LEMMA SendingDoes ==
  ASSUME DTypeOK, Sending
  PROVE  /\ UNCHANGED <<subs, peers, posted, begun, out, items, peerbox, newsbox, archived, child,
                        procs, todo, cur, method, copy, pos, line, recips, crashes, course>>
         /\ pc \in {"batch", "last"} /\ Receive(cur, recips) /\ Sent
         /\ faults' \in Nat /\ faults' <= course.maxFaults
<1>1. faults \in 0 .. course.maxFaults /\ course.maxFaults \in Nat
  BY DeliveryAssumption DEF DTypeOK, ProcessOK, ChildrenOK
<1>2. CASE SendBatch
  BY <1>1, <1>2 DEF SendBatch, admin, spool, loop, batch, bounds, Calm
<1>3. CASE QueueBatch
  BY <1>1, <1>3 DEF QueueBatch, admin, spool, loop, batch, bounds, Fault
<1>4. QED
  BY <1>2, <1>3 DEF Sending

\* send_message_file: the addresses of the batch have the message once more.
LEMMA ReceiveDoes ==
  ASSUME BoxesOK, NEW f \in Files, NEW to, Receive(f, to)
  PROVE  /\ inbox' \in [Files -> [Everyone -> Nat]]
         /\ \A g \in Files, s \in Everyone :
              inbox'[g][s] = IF g = f /\ s \in to THEN inbox[g][s] + 1 ELSE inbox[g][s]
<1> DEFINE box == [s \in Everyone |-> IF s \in to THEN inbox[f][s] + 1 ELSE inbox[f][s]]
<1>1. inbox \in [Files -> [Everyone -> Nat]] /\ DOMAIN inbox[f] = Everyone
  BY DEF BoxesOK
<1>2. inbox' = [inbox EXCEPT ![f] = box]
  BY <1>1 DEF Receive
<1>3. box \in [Everyone -> Nat] /\ \A s \in Everyone : box[s] = IF s \in to THEN inbox[f][s] + 1 ELSE inbox[f][s]
  BY <1>1
<1> HIDE DEF box
<1>4. inbox' \in [Files -> [Everyone -> Nat]] /\ \A g \in Files : inbox'[g] = IF g = f THEN box ELSE inbox[g]
  BY <1>1, <1>2, <1>3
<1>5. QED
  BY <1>3, <1>4

-----------------------------------------------------------------------------
(* The type invariant is kept *)

\* A message file goes only when its record has gone, or before it has one.
LEMMA SpoolStep ==
  ASSUME DTypeOK, PlaceInv, [Next]_dvars
  PROVE  SpoolOK'
<1> USE DEF Preparing, NotBegun
<1>0. SpoolOK /\ cur \in Files
  BY DEF DTypeOK, ProcessOK, ChildrenOK
<1>1. CASE UNCHANGED <<posted, begun, out, items>>
  BY <1>0, <1>1 DEF SpoolOK
<1>2. ASSUME NEW f \in Files, Prepare(f) PROVE SpoolOK'
  BY <1>0, <1>2 DEF Prepare, SpoolOK
<1>3. CASE Filter
  BY <1>0, <1>3 DEF Filter, SpoolOK, PlaceInv
<1>4. CASE Filtered
  BY <1>0, <1>4 DEF Filtered, SpoolOK, PlaceInv
<1>5. CASE InitItems
  <2>1. PICK mask : items' = [items EXCEPT ![cur] = InitialItems(mask)]
    BY <1>5 DEF InitItems
  <2>2. InitialItems(mask) \in Counts
    BY InitialItemsAre
  <2>3. cur \in out /\ cur \in posted /\ begun' = begun \cup {cur} /\ out' = out /\ posted' = posted
    BY <1>5 DEF InitItems, PlaceInv
  <2>4. QED
    BY <1>0, <2>1, <2>2, <2>3 DEF SpoolOK, Counts
<1>6. CASE UnlinkMessage
  BY <1>0, <1>6 DEF UnlinkMessage, SpoolOK, PlaceInv
<1>7. CASE Recording
  <2>1. /\ posted' = posted /\ begun' = begun /\ out' = out
        /\ \E m \in Range(Methods) : UpdateItems(cur, m, pos)
    BY <1>7, RecordingDoes, MethodsAre
  <2>2. pos \in Nat
    BY DEF DTypeOK, ProcessOK, ChildrenOK
  <2>3. /\ DOMAIN items' = Files
        /\ \A g \in Files : NotBegun(g)' <=> NotBegun(g)
        /\ \A g \in Files : ~NotBegun(g) => items'[g] \in Counts
    BY <1>0, <2>1, <2>2, UpdateItemsDoes
  <2>4. QED
    BY <1>0, <2>1, <2>3 DEF SpoolOK, Counts
<1>8. CASE Ending
  <2>1. posted' = posted /\ begun' = begun /\ out' = out
    BY <1>8, EndingDoes
  <2>2. CASE UNCHANGED items
    BY <1>1, <2>1, <2>2
  <2>3. ASSUME NEW m \in Range(Methods), EndItems(cur, m) PROVE SpoolOK'
    <3>1. /\ DOMAIN items' = Files
          /\ \A g \in Files \ {cur} : items'[g] = items[g]
          /\ items'[cur] = Absent \/ (~NotBegun(cur) /\ items'[cur] \in Counts)
      BY <1>0, <2>3, EndItemsDoes
    <3>2. QED
      BY <1>0, <2>1, <3>1 DEF SpoolOK, Counts
  <2>4. QED
    BY <1>8, <2>2, <2>3, EndingDoes
<1>9. CASE Sending
  BY <1>1, <1>9, SendingDoes
<1>10. QED
  <2> USE DEF spool, dvars
  <2>1. CASE StartList \/ CompletePrevious \/ WriteMessage \/ NextMethod \/ StartSubscribers
    BY <1>1, <2>1 DEF StartList, CompletePrevious, WriteMessage, NextMethod, StartSubscribers
  <2>2. CASE NextSubscriber \/ EndSubscribers \/ SpawnBatch \/ SkipLine \/ PostToGroup \/ SendToPeer
    BY <1>1, <2>2 DEF NextSubscriber, EndSubscribers, SpawnBatch, SkipLine, PostToGroup, SendToPeer
  <2>3. CASE RunArchive \/ PostingFails \/ ArchiveFails \/ Exit \/ Crash \/ Reboot
    BY <1>1, <2>3 DEF RunArchive, PostingFails, ArchiveFails, Exit, Crash, Reboot
  <2>4. CASE \E k \in Children : ChildSends(k)
    BY <1>1, <2>4 DEF ChildSends
  <2>5. CASE \E s \in Everyone : Subscribe(s) \/ Unsubscribe(s)
    BY <1>1, <2>5 DEF Subscribe, Unsubscribe
  <2>6. CASE \E p \in Peers : AddPeer(p)
    BY <1>1, <2>6 DEF AddPeer
  <2>7. CASE UNCHANGED dvars
    BY <1>1, <2>7
  <2>8. QED
    BY <1>2, <1>3, <1>4, <1>5, <1>6, <1>7, <1>8, <1>9, <2>1, <2>2, <2>3, <2>4, <2>5, <2>6, <2>7
    DEF Next, ListStep, Ending, Recording, Sending

LEMMA BoxesStep ==
  ASSUME DTypeOK, PlaceInv, [Next]_dvars
  PROVE  BoxesOK'
<1>0. BoxesOK /\ cur \in Files
  BY DEF DTypeOK, ProcessOK, ChildrenOK
<1>1. CASE UNCHANGED outcome
  BY <1>0, <1>1 DEF BoxesOK, outcome
<1>2. CASE Sending
  <2>1. Receive(cur, recips) /\ UNCHANGED <<peerbox, newsbox, archived>>
    BY <1>2, SendingDoes
  <2>2. inbox' \in [Files -> [Everyone -> Nat]]
    BY <1>0, <2>1, ReceiveDoes
  <2>3. QED
    BY <1>0, <2>1, <2>2 DEF BoxesOK
<1>3. ASSUME NEW k \in Children, ChildSends(k) PROVE BoxesOK'
  <2>1. UNCHANGED <<peerbox, newsbox, archived>>
    BY <1>3 DEF ChildSends
  <2>2. child[k].file \in Files
    BY <1>3 DEF ChildSends, DTypeOK, ProcessOK, ChildrenOK, SpoolOK
  <2>3. CASE Receive(child[k].file, child[k].to)
    <3>1. inbox' \in [Files -> [Everyone -> Nat]]
      BY <1>0, <2>2, <2>3, ReceiveDoes
    <3>2. QED
      BY <1>0, <2>1, <3>1 DEF BoxesOK
  <2>4. CASE UNCHANGED inbox
    BY <1>0, <2>1, <2>4 DEF BoxesOK
  <2>5. QED
    BY <1>3, <2>3, <2>4 DEF ChildSends
<1>4. CASE PostToGroup
  <2>1. /\ newsbox' = [newsbox EXCEPT ![cur][course.news[line + 1]] = @ + 1]
        /\ UNCHANGED <<inbox, peerbox, archived>> /\ pc = "groups"
        /\ line < Len(course.news) /\ course.news[line + 1] # NotAGroup
    BY <1>4 DEF PostToGroup, MoreLines
  <2>2. course.news \in Seq(Groups \cup {NotAGroup}) /\ line \in Nat
    BY <2>1, DeliveryAssumption DEF PlaceInv, DTypeOK, ProcessOK, ChildrenOK
  <2>3. line + 1 \in 1 .. Len(course.news)
    BY <2>1, <2>2, LenProperties
  <2>4. course.news[line + 1] \in Groups
    BY <2>1, <2>2, <2>3, ElementOfSeq
  <2>5. QED
    BY <1>0, <2>1, <2>4 DEF BoxesOK
<1>5. CASE SendToPeer
  <2>1. /\ peerbox' = [peerbox EXCEPT ![cur][peers[pos + 1]] = @ + 1]
        /\ UNCHANGED <<inbox, newsbox, archived>> /\ pc = "peers" /\ pos < Len(peers)
    BY <1>5 DEF SendToPeer
  <2>2. peers \in Seq(Peers) /\ pos \in Nat
    BY <2>1 DEF PlaceInv, DTypeOK, ProcessOK, ChildrenOK
  <2>3. pos + 1 \in 1 .. Len(peers)
    BY <2>1, <2>2, LenProperties
  <2>4. peers[pos + 1] \in Peers
    BY <2>2, <2>3, ElementOfSeq
  <2>5. QED
    BY <1>0, <2>1, <2>4 DEF BoxesOK
<1>6. CASE RunArchive
  BY <1>0, <1>6 DEF RunArchive, BoxesOK
<1>7. CASE Recording
  BY <1>1, <1>7, RecordingDoes DEF outcome
<1>8. CASE Ending
  BY <1>1, <1>8, EndingDoes DEF outcome
<1>9. QED
  <2> USE DEF dvars
  <2>1. CASE StartList \/ CompletePrevious \/ WriteMessage \/ NextMethod \/ StartSubscribers
    BY <1>1, <2>1 DEF StartList, CompletePrevious, WriteMessage, NextMethod, StartSubscribers
  <2>2. CASE NextSubscriber \/ EndSubscribers \/ SpawnBatch \/ SkipLine \/ Filter \/ Filtered
    BY <1>1, <2>2 DEF NextSubscriber, EndSubscribers, SpawnBatch, SkipLine, Filter, Filtered
  <2>3. CASE InitItems \/ PostingFails \/ ArchiveFails \/ Exit \/ Crash \/ Reboot \/ UnlinkMessage
    BY <1>1, <2>3 DEF InitItems, PostingFails, ArchiveFails, Exit, Crash, Reboot, UnlinkMessage
  <2>4. CASE \E f \in Files : Prepare(f)
    BY <1>1, <2>4 DEF Prepare
  <2>5. CASE \E s \in Everyone : Subscribe(s) \/ Unsubscribe(s)
    BY <1>1, <2>5 DEF Subscribe, Unsubscribe
  <2>6. CASE \E p \in Peers : AddPeer(p)
    BY <1>1, <2>6 DEF AddPeer
  <2>7. CASE UNCHANGED dvars
    BY <1>1, <2>7
  <2>8. QED
    BY <1>2, <1>3, <1>4, <1>5, <1>6, <1>7, <1>8, <2>1, <2>2, <2>3, <2>4, <2>5, <2>6, <2>7
    DEF Next, ListStep, Ending, Recording, Sending

LEMMA ChildrenStep ==
  ASSUME DTypeOK, PlaceInv, [Next]_dvars
  PROVE  ChildrenOK'
<1>0. ChildrenOK /\ posted \subseteq posted'
  <2>1. posted \subseteq posted'
    BY EndingDoes, RecordingDoes, SendingDoes
    DEF Next, ListStep, Ending, Recording, Sending, dvars, StartList, Prepare, CompletePrevious, WriteMessage,
        Filter, Filtered, InitItems, NextMethod, StartSubscribers, NextSubscriber, EndSubscribers,
        SpawnBatch, SkipLine, PostToGroup, SendToPeer, RunArchive, UnlinkMessage, PostingFails,
        ArchiveFails, Exit, ChildSends, Crash, Reboot, Subscribe, Unsubscribe, AddPeer
  <2>2. QED
    BY <2>1 DEF DTypeOK
<1>1. CASE UNCHANGED <<child, procs>>
  BY <1>0, <1>1 DEF ChildrenOK
<1>2. CASE SpawnBatch
  <2>1. PICK k \in Children :
          /\ child[k] = NoBatch
          /\ child' = [child EXCEPT ![k] = [file |-> cur, to |-> recips]]
          /\ procs' = procs \cup {k}
    BY <1>2 DEF SpawnBatch
  <2>2. cur \in posted /\ cur \in Files /\ recips \subseteq Readers /\ posted' = posted
    <3>1. pc \in Handling /\ posted' = posted
      BY <1>2 DEF SpawnBatch, Handling, Scanning
    <3>2. QED
      BY <3>1 DEF PlaceInv, DTypeOK, ProcessOK, SpoolOK, NotBegun
  <2>3. [file |-> cur, to |-> recips] # NoBatch
    BY <2>2, DeliveryAssumption
  <2>4. QED
    BY <1>0, <2>1, <2>2, <2>3 DEF ChildrenOK
<1>3. ASSUME NEW k \in Children, ChildSends(k) PROVE ChildrenOK'
  BY <1>0, <1>3 DEF ChildSends, Reap, ChildrenOK
<1>4. CASE Crash
  BY <1>0, <1>4 DEF Crash, ChildrenOK
<1>5. CASE Reboot
  BY <1>0, <1>5 DEF Reboot, ChildrenOK
<1>6. CASE Ending \/ Recording \/ Sending
  BY <1>1, <1>6, EndingDoes, RecordingDoes, SendingDoes
<1>7. QED
  <2> USE DEF dvars
  <2>1. CASE StartList \/ CompletePrevious \/ WriteMessage \/ NextMethod \/ StartSubscribers
    BY <1>1, <2>1 DEF StartList, CompletePrevious, WriteMessage, NextMethod, StartSubscribers
  <2>2. CASE NextSubscriber \/ EndSubscribers \/ SkipLine \/ PostToGroup \/ SendToPeer \/ Filter \/ Filtered
    BY <1>1, <2>2 DEF NextSubscriber, EndSubscribers, SkipLine, PostToGroup, SendToPeer, Filter, Filtered
  <2>3. CASE InitItems \/ RunArchive \/ PostingFails \/ ArchiveFails \/ Exit \/ UnlinkMessage
    BY <1>1, <2>3 DEF InitItems, RunArchive, PostingFails, ArchiveFails, Exit, UnlinkMessage
  <2>4. CASE \E f \in Files : Prepare(f)
    BY <1>1, <2>4 DEF Prepare
  <2>5. CASE \E s \in Everyone : Subscribe(s) \/ Unsubscribe(s)
    BY <1>1, <2>5 DEF Subscribe, Unsubscribe
  <2>6. CASE \E p \in Peers : AddPeer(p)
    BY <1>1, <2>6 DEF AddPeer
  <2>7. CASE UNCHANGED dvars
    BY <1>1, <2>7
  <2>8. QED
    BY <1>2, <1>3, <1>4, <1>5, <1>6, <2>1, <2>2, <2>3, <2>4, <2>5, <2>6, <2>7
    DEF Next, ListStep, Ending, Recording, Sending

LEMMA ProcessStep ==
  ASSUME DTypeOK, PlaceInv, [Next]_dvars
  PROVE  ProcessOK'
<1> USE MethodsAre DEF ProcessOK, Places
<1>0. ProcessOK
  BY DEF DTypeOK
<1>1. CASE Ending
  BY <1>0, <1>1, EndingDoes DEF EndItems
<1>2. CASE Recording
  BY <1>0, <1>2, RecordingDoes
<1>3. CASE Sending
  BY <1>0, <1>3, SendingDoes DEF Sent
<1>4. CASE NextMethod
  <2>1. NextPending(cur, method) \in 0 .. 5
    BY <1>0, NextPendingIs
  <2>2. QED
    BY <1>0, <1>4, <2>1 DEF NextMethod, Calm, bounds, admin, spool, batch
<1>5. CASE StartSubscribers
  <2>1. Processed(cur, "regular") \in Nat
    BY <1>0, ProcessedIs DEF DTypeOK
  <2>2. QED
    BY <1>0, <1>5, <2>1 DEF StartSubscribers, Calm, bounds, admin, spool, loop
<1> USE DEF Calm, bounds, admin, spool, batch, loop
<1>n. pos + 1 \in Nat /\ line + 1 \in Nat
  BY <1>0
<1>6. CASE StartList \/ CompletePrevious \/ WriteMessage
  <2>1. CASE StartList
    BY <1>0, <2>1 DEF StartList
  <2>2. CASE CompletePrevious
    <3>1. CASE todo = {}
      BY <1>0, <2>2, <3>1 DEF CompletePrevious
    <3>2. CASE todo # {}
      <4>1. PICK f \in todo : cur' = f /\ todo' = todo \ {f} /\ method' = 0 /\ pc' = "method"
        BY <2>2, <3>2 DEF CompletePrevious
      <4>2. f \in Files
        BY <1>0 DEF DTypeOK, SpoolOK
      <4>3. QED
        BY <1>0, <2>2, <4>1, <4>2 DEF CompletePrevious
    <3>3. QED
      BY <3>1, <3>2
  <2>3. CASE WriteMessage
    BY <1>0, <2>3 DEF WriteMessage
  <2>4. QED
    BY <1>6, <2>1, <2>2, <2>3
<1>7. CASE NextSubscriber \/ EndSubscribers
  <2>1. CASE NextSubscriber
    <3>1. pc' \in {"scan", "batch"} /\ recips' \subseteq Readers
      BY <1>0, <2>1 DEF NextSubscriber
    <3>2. QED
      BY <1>0, <1>n, <2>1, <3>1 DEF NextSubscriber
  <2>2. CASE EndSubscribers
    BY <1>0, <2>2 DEF EndSubscribers
  <2>3. QED
    BY <1>7, <2>1, <2>2
<1>8. CASE SpawnBatch
  BY <1>0, <1>8 DEF SpawnBatch, Sent
<1>9. CASE SkipLine \/ PostToGroup \/ SendToPeer \/ RunArchive \/ Exit
  <2>1. CASE SkipLine
    BY <1>0, <1>n, <2>1 DEF SkipLine, MoreLines
  <2>2. CASE PostToGroup
    BY <1>0, <1>n, <2>2 DEF PostToGroup, MoreLines
  <2>3. CASE SendToPeer
    BY <1>0, <1>n, <2>3 DEF SendToPeer
  <2>4. CASE RunArchive \/ Exit
    BY <1>0, <2>4 DEF RunArchive, Exit
  <2>5. QED
    BY <1>9, <2>1, <2>2, <2>3, <2>4
<1>10. CASE PostingFails \/ ArchiveFails
  <2>1. faults + 1 \in 0 .. course.maxFaults /\ faults' = faults + 1 /\ UNCHANGED <<crashes, course>>
    <3>1. course.maxFaults \in Nat /\ faults \in 0 .. course.maxFaults
      BY <1>0, DeliveryAssumption
    <3>2. faults < course.maxFaults /\ faults' = faults + 1 /\ UNCHANGED <<crashes, course>>
      BY <1>10 DEF PostingFails, ArchiveFails, Fault
    <3>3. QED
      BY <3>1, <3>2
  <2>2. QED
    BY <1>0, <1>10, <2>1 DEF PostingFails, ArchiveFails
<1>11. CASE Crash \/ Reboot
  <2>0. course.maxCrashes \in Nat /\ crashes \in Nat
    BY <1>0, DeliveryAssumption
  <2>1. crashes + 1 \in 0 .. course.maxCrashes /\ crashes' = crashes + 1 /\ UNCHANGED <<faults, course>>
    BY <1>11, <2>0 DEF Crash, Reboot, Death
  <2>2. QED
    BY <1>0, <1>11, <2>1 DEF Crash, Reboot
<1>12. CASE InitItems \/ Filtered
  BY <1>0, <1>12 DEF InitItems, Filtered
<1>13. CASE Filter \/ UnlinkMessage
  BY <1>0, <1>13 DEF Filter, UnlinkMessage, PlaceInv
<1>14. ASSUME NEW f \in Files, Prepare(f) PROVE ProcessOK'
  BY <1>0, <1>14 DEF Prepare
<1>15. ASSUME NEW k \in Children, ChildSends(k) PROVE ProcessOK'
  BY <1>0, <1>15 DEF ChildSends
<1>16. ASSUME NEW s \in Everyone, Subscribe(s) PROVE ProcessOK'
  <2>1. subs' \in Seq(Everyone)
    BY <1>0, <1>16, AppendProperties DEF Subscribe
  <2>2. QED
    BY <1>0, <1>16, <2>1 DEF Subscribe
<1>17. ASSUME NEW s \in Everyone, Unsubscribe(s) PROVE ProcessOK'
  <2>1. subs' \in Seq(Everyone)
    BY <1>0, <1>17, LineRemoved DEF Unsubscribe
  <2>2. QED
    BY <1>0, <1>17, <2>1 DEF Unsubscribe
<1>18. ASSUME NEW p \in Peers, AddPeer(p) PROVE ProcessOK'
  <2>1. peers' \in Seq(Peers)
    <3>1. CASE peers = Absent
      <4>1. peers' = <<p>>
        BY <1>18, <3>1 DEF AddPeer
      <4>2. QED
        BY <4>1
    <3>2. CASE peers # Absent
      <4>1. peers' = Append(peers, p) /\ peers \in Seq(Peers)
        BY <1>0, <1>18, <3>2 DEF AddPeer
      <4>2. QED
        BY <4>1, AppendProperties
    <3>3. QED
      BY <3>1, <3>2
  <2>2. QED
    BY <1>0, <1>18, <2>1 DEF AddPeer
<1>19. CASE UNCHANGED dvars
  BY <1>0, <1>19 DEF dvars
<1>20. QED
  BY <1>1, <1>2, <1>3, <1>4, <1>5, <1>6, <1>7, <1>8, <1>9, <1>10, <1>11, <1>12, <1>13, <1>14, <1>15,
     <1>16, <1>17, <1>18, <1>19 DEF Next, ListStep, Ending, Recording, Sending

LEMMA DTypeStep ==
  ASSUME DTypeOK, PlaceInv, [Next]_dvars
  PROVE  DTypeOK'
BY SpoolStep, BoxesStep, ProcessStep, ChildrenStep DEF DTypeOK

-----------------------------------------------------------------------------
(* Where the process is *)

LEMMA PlaceStep ==
  ASSUME DTypeOK, PlaceInv, [Next]_dvars
  PROVE  PlaceInv'
<1> USE MethodsAre DEF Preparing, Handling, Scanning, NotBegun
<1>0. /\ cur \in Files /\ todo \subseteq out /\ out \subseteq Files /\ begun \subseteq Files
      /\ pc \in Places /\ method \in 0 .. 5 /\ course \in Courses /\ pos \in Nat
      /\ \A f \in begun \cup out : f \in posted
      /\ posted \subseteq Files /\ DOMAIN items = Files
      /\ \A f \in Files : items[f] # Absent => f \in out /\ items[f] \in Counts
  BY DEF DTypeOK, ProcessOK, SpoolOK, Counts
<1>1. CASE Ending
  <2>1. /\ pc \in Handling \ {"regular", "scan", "batch", "last", "record"}
        /\ UNCHANGED <<peers, posted, begun, out, todo, cur, method, course>>
    BY <1>1, EndingDoes
  <2>2. CASE /\ pc' \in {"groups", "peers"} /\ UNCHANGED items
             /\ pc' = "groups" => course.news # Absent
             /\ pc' = "peers" => peers # Absent
    BY <2>1, <2>2 DEF PlaceInv
  <2>3. ASSUME NEW m \in Range(Methods), EndItems(cur, m)
        PROVE  PlaceInv'
    <3>1. /\ pc' \in {"method", "unlink"}
          /\ \A g \in Files \ {cur} : items'[g] = items[g]
          /\ pc' = "unlink" => items[cur] # Absent /\ items'[cur] = Absent
          /\ items[cur] = Absent => items'[cur] = Absent
      BY <1>0, <2>3, EndItemsDoes DEF DTypeOK
    <3>2. QED
      BY <1>0, <2>1, <3>1 DEF PlaceInv
  <2>4. QED
    BY <1>1, <2>2, <2>3, EndingDoes
<1>2. CASE Recording
  <2>1. UNCHANGED <<peers, posted, begun, out, todo, cur, method, pos, course>>
    BY <1>2, RecordingDoes
  <2>2. PICK m \in {"regular", "news", "peer"} :
              /\ UpdateItems(cur, m, pos)
              /\ IF m = "regular" THEN pc = "record" /\ pc' = "scan"
                 ELSE \/ pc = "grouped" /\ pc' = "groups"
                      \/ pc = "peersent" /\ pc' = "peers"
    BY <1>2, RecordingDoes
  <2>3. /\ \A g \in Files : items'[g] = Absent <=> items[g] = Absent
        /\ ~NotBegun(cur) /\ items[cur]["regular"] # MethodDone =>
             \/ items'[cur]["regular"] = items[cur]["regular"]
             \/ items'[cur]["regular"] = pos
    BY <1>0, <2>2, UpdateItemsDoes DEF DTypeOK
  <2>4. pos # MethodDone
    BY <1>0
  <2>5. QED
    BY <1>0, <2>1, <2>2, <2>3, <2>4 DEF PlaceInv
<1>3. CASE Sending
  BY <1>0, <1>3, SendingDoes DEF Sent, PlaceInv
<1>4. CASE NextMethod
  <2> DEFINE i == NextPending(cur, method)
  <2>1. /\ UNCHANGED <<peers, posted, begun, out, items, todo, cur, course>> /\ pc = "method"
        /\ IF i = 0 THEN pc' = "complete" /\ method' = method ELSE pc' = Methods[i] /\ method' = i
    BY <1>4 DEF NextMethod, admin, spool, Calm, bounds
  <2>2. i \in 0 .. 5 /\ (i # 0 => items[cur] # Absent /\ items[cur][Methods[i]] # MethodDone)
    BY <1>0, NextPendingIs
  <2> HIDE DEF i
  <2>3. CASE i = 0
    BY <1>0, <2>1, <2>3 DEF PlaceInv
  <2>4. CASE i # 0
    BY <1>0, <2>1, <2>2, <2>4 DEF PlaceInv
  <2>5. QED
    BY <2>3, <2>4
<1> USE DEF Calm, bounds, admin, spool, batch, loop, PlaceInv
<1>5. CASE StartList
  BY <1>0, <1>5 DEF StartList
<1>6. CASE CompletePrevious
  BY <1>0, <1>6 DEF CompletePrevious
<1>7. CASE WriteMessage
  BY <1>0, <1>7 DEF WriteMessage
<1>8. ASSUME NEW f \in Files, Prepare(f) PROVE PlaceInv'
  BY <1>0, <1>8 DEF Prepare, Unused
<1>9. CASE Filter
  BY <1>0, <1>9 DEF Filter
<1>10. CASE Filtered
  BY <1>0, <1>10 DEF Filtered
<1>11. CASE InitItems
  BY <1>0, <1>11, InitialItemsAre DEF InitItems
<1>12. CASE StartSubscribers
  BY <1>0, <1>12 DEF StartSubscribers
<1>13. CASE NextSubscriber
  BY <1>0, <1>13 DEF NextSubscriber
<1>14. CASE EndSubscribers
  BY <1>0, <1>14 DEF EndSubscribers
<1>15. CASE SpawnBatch
  BY <1>0, <1>15 DEF SpawnBatch, Sent
<1>16. CASE SkipLine
  BY <1>0, <1>16 DEF SkipLine, MoreLines
<1>17. CASE PostToGroup
  BY <1>0, <1>17 DEF PostToGroup, MoreLines
<1>18. CASE SendToPeer
  BY <1>0, <1>18 DEF SendToPeer
<1>19. CASE RunArchive
  BY <1>0, <1>19 DEF RunArchive, Archives
<1>20. CASE PostingFails
  BY <1>0, <1>20 DEF PostingFails, MoreLines, Fault
<1>21. CASE ArchiveFails
  BY <1>0, <1>21 DEF ArchiveFails, Fault
<1>22. CASE Exit
  BY <1>0, <1>22 DEF Exit
<1>23. CASE UnlinkMessage
  BY <1>0, <1>23 DEF UnlinkMessage
<1>24. CASE Crash
  BY <1>0, <1>24 DEF Crash, Death
<1>25. CASE Reboot
  BY <1>0, <1>25 DEF Reboot, Death
<1>26. ASSUME NEW k \in Children, ChildSends(k) PROVE PlaceInv'
  BY <1>0, <1>26 DEF ChildSends
<1>27. ASSUME NEW s \in Everyone, Subscribe(s) PROVE PlaceInv'
  BY <1>0, <1>27 DEF Subscribe
<1>28. ASSUME NEW s \in Everyone, Unsubscribe(s) PROVE PlaceInv'
  BY <1>0, <1>28 DEF Unsubscribe
<1>29. ASSUME NEW p \in Peers, AddPeer(p) PROVE PlaceInv'
  BY <1>0, <1>29 DEF AddPeer
<1>30. CASE UNCHANGED dvars
  BY <1>0, <1>30 DEF dvars
<1>31. QED
  BY <1>1, <1>2, <1>3, <1>4, <1>5, <1>6, <1>7, <1>8, <1>9, <1>10, <1>11, <1>12, <1>13, <1>14, <1>15,
     <1>16, <1>17, <1>18, <1>19, <1>20, <1>21, <1>22, <1>23, <1>24, <1>25, <1>26, <1>27, <1>28,
     <1>29, <1>30 DEF Next, ListStep, Ending, Recording, Sending

-----------------------------------------------------------------------------
(* Who is reached *)

\* A steady reader has a line in the subscribers file.
LEMMA SteadyAre ==
  /\ Steady \subseteq Everyone /\ Steady \subseteq Readers
  /\ \A s \in Steady : s \notin Leaving
BY DEF Steady, Everyone

LEMMA OnlyTheySubscribe ==
  ASSUME DTypeOK, PlaceInv, [Next]_dvars, ~(\E s \in Everyone : Subscribe(s) \/ Unsubscribe(s))
  PROVE  UNCHANGED subs
<1> USE DEF dvars, admin
<1>1. CASE Ending \/ Recording \/ Sending
  BY <1>1, EndingDoes, RecordingDoes, SendingDoes
<1>2. CASE StartList \/ CompletePrevious \/ WriteMessage \/ NextMethod \/ StartSubscribers
  BY <1>2 DEF StartList, CompletePrevious, WriteMessage, NextMethod, StartSubscribers
<1>3. CASE NextSubscriber \/ EndSubscribers \/ SpawnBatch \/ SkipLine \/ PostToGroup \/ SendToPeer
  BY <1>3 DEF NextSubscriber, EndSubscribers, SpawnBatch, SkipLine, PostToGroup, SendToPeer
<1>4. CASE InitItems \/ RunArchive \/ PostingFails \/ ArchiveFails \/ Exit \/ UnlinkMessage
  BY <1>4 DEF InitItems, RunArchive, PostingFails, ArchiveFails, Exit, UnlinkMessage
<1>5. CASE Filter \/ Filtered \/ Crash \/ Reboot
  BY <1>5 DEF Filter, Filtered, Crash, Reboot
<1>6. CASE \E f \in Files : Prepare(f)
  BY <1>6 DEF Prepare
<1>7. CASE \E k \in Children : ChildSends(k)
  BY <1>7 DEF ChildSends
<1>8. CASE \E p \in Peers : AddPeer(p)
  BY <1>8 DEF AddPeer
<1>9. CASE UNCHANGED dvars
  BY <1>9
<1>10. QED
  BY <1>1, <1>2, <1>3, <1>4, <1>5, <1>6, <1>7, <1>8, <1>9 DEF Next, ListStep, Ending, Recording, Sending

LEMMA SubsStep ==
  ASSUME DTypeOK, PlaceInv, SubsInv, [Next]_dvars
  PROVE  SubsInv'
<1>1. CASE UNCHANGED subs
  BY <1>1 DEF SubsInv
<1>2. ASSUME NEW s \in Everyone, Subscribe(s) PROVE SubsInv'
  <2>1. subs' = Append(subs, s) /\ subs \in Seq(Everyone)
    BY <1>2 DEF Subscribe, DTypeOK, ProcessOK
  <2>2. /\ Len(subs) \in Nat /\ DOMAIN subs = 1 .. Len(subs) /\ DOMAIN subs' = 1 .. Len(subs) + 1
        /\ \A i \in DOMAIN subs : subs'[i] = subs[i]
    BY <2>1, AppendProperties, LenProperties
  <2>3. QED
    BY <2>2 DEF SubsInv
<1>3. ASSUME NEW s \in Everyone, Unsubscribe(s) PROVE SubsInv'
  <2>1. PICK i \in DOMAIN subs : subs[i] = s /\ subs' = RemoveAt(subs, i)
    BY <1>3 DEF Unsubscribe
  <2>2. s \notin Steady /\ subs \in Seq(Everyone)
    BY <1>3, SteadyAre DEF Unsubscribe, DTypeOK, ProcessOK
  <2>3. \A j \in DOMAIN subs \ {i} : \E k \in DOMAIN subs' : subs'[k] = subs[j]
    BY <2>1, <2>2, LineRemoved
  <2>4. QED
    BY <2>1, <2>2, <2>3 DEF SubsInv
<1>4. CASE ~(\E s \in Everyone : Subscribe(s) \/ Unsubscribe(s))
  BY <1>1, <1>4, OnlyTheySubscribe
<1>5. QED
  BY <1>2, <1>3, <1>4

LEMMA ChildStep ==
  ASSUME DTypeOK, PlaceInv, ChildInv, [Next]_dvars
  PROVE  ChildInv'
<1> USE DEF Loaded
<1>0. crashes \in Nat /\ procs \subseteq Children /\ DOMAIN child = Children
  BY DeliveryAssumption DEF DTypeOK, ProcessOK, ChildrenOK
<1>1. ASSUME UNCHANGED <<child, procs, cur, crashes, course>>, pc \in Scanning => pc' \in Scanning
      PROVE  ChildInv'
  BY <1>1 DEF ChildInv
<1>2. CASE Ending
  <2>1. UNCHANGED <<child, procs, cur, crashes, course>>
    BY <1>2, EndingDoes
  <2>2. CASE pc \notin Scanning
    BY <1>1, <2>1, <2>2
  <2>3. CASE pc \in Scanning
    <3>1. procs = {}
      BY <1>2, <2>3, EndingDoes
    <3>2. QED
      BY <2>1, <3>1 DEF ChildInv
  <2>4. QED
    BY <2>2, <2>3
<1>3. CASE Recording
  BY <1>1, <1>3, RecordingDoes DEF Scanning
<1>4. CASE Sending
  BY <1>1, <1>4, SendingDoes DEF Sent, Scanning
<1>5. CASE SpawnBatch
  <2>1. PICK k \in Children :
          /\ child[k] = NoBatch
          /\ child' = [child EXCEPT ![k] = [file |-> cur, to |-> recips]]
          /\ procs' = procs \cup {k}
    BY <1>5 DEF SpawnBatch
  <2>2. /\ UNCHANGED <<cur, crashes, course>> /\ pc \in Scanning /\ pc' \in Scanning
        /\ course.nthreads > 1
    BY <1>5 DEF SpawnBatch, Sent, Scanning, loop, bounds, Calm
  <2>3. course.nthreads # 1
    BY <2>2, DeliveryAssumption DEF DTypeOK, ProcessOK
  <2>4. QED
    BY <1>0, <2>1, <2>2, <2>3 DEF ChildInv
<1>6. ASSUME NEW k \in Children, ChildSends(k) PROVE ChildInv'
  BY <1>0, <1>6 DEF ChildSends, Reap, ChildInv, Calm, bounds, loop
<1>7. CASE Crash \/ Reboot
  <2>1. crashes' # 0
    BY <1>0, <1>7 DEF Crash, Reboot, Death
  <2>2. course' = course /\ \A k \in Children : child'[k] \in {child[k], NoBatch}
    BY <1>0, <1>7 DEF Crash, Reboot, Death
  <2>3. QED
    BY <2>1, <2>2 DEF ChildInv
<1>8. ASSUME UNCHANGED <<child, procs, crashes, course>>, pc \notin Scanning
      PROVE  ChildInv'
  BY <1>8 DEF ChildInv
<1>9. QED
  <2> USE DEF Calm, bounds, loop, Scanning, Fault
  <2>1. CASE StartList \/ CompletePrevious \/ WriteMessage \/ Filter \/ Filtered \/ InitItems
    BY <1>8, <2>1 DEF StartList, CompletePrevious, WriteMessage, Filter, Filtered, InitItems
  <2>2. CASE NextMethod \/ StartSubscribers \/ SkipLine \/ PostToGroup \/ SendToPeer \/ RunArchive
    BY <1>8, MethodsAre, <2>2 DEF NextMethod, StartSubscribers, SkipLine, PostToGroup, SendToPeer, RunArchive, MoreLines, Archives
  <2>3. CASE PostingFails \/ ArchiveFails \/ Exit \/ UnlinkMessage
    BY <1>8, <2>3 DEF PostingFails, ArchiveFails, Exit, UnlinkMessage, MoreLines
  <2>4. CASE NextSubscriber \/ EndSubscribers
    BY <1>1, <2>4 DEF NextSubscriber, EndSubscribers
  <2>5. CASE \E f \in Files : Prepare(f)
    BY <1>8, <2>5 DEF Prepare
  <2>6. CASE \E s \in Everyone : Subscribe(s) \/ Unsubscribe(s)
    BY <1>1, <2>6 DEF Subscribe, Unsubscribe
  <2>7. CASE \E p \in Peers : AddPeer(p)
    BY <1>1, <2>7 DEF AddPeer
  <2>8. CASE UNCHANGED dvars
    BY <1>1, <2>8 DEF dvars
  <2>9. QED
    BY <1>2, <1>3, <1>4, <1>5, <1>6, <1>7, <2>1, <2>2, <2>3, <2>4, <2>5, <2>6, <2>7, <2>8
    DEF Next, ListStep, Ending, Recording, Sending

\* The course is fixed and deaths are counted.
LEMMA BoundsStep ==
  ASSUME DTypeOK, PlaceInv, [Next]_dvars
  PROVE  /\ course' = course
         /\ IF Crash \/ Reboot THEN crashes' = crashes + 1 ELSE crashes' = crashes
<1> USE DEF dvars, bounds, Calm, Fault
<1>1. CASE Ending \/ Recording \/ Sending
  <2>1. UNCHANGED <<course, crashes>>
    BY <1>1, EndingDoes, RecordingDoes, SendingDoes
  <2>2. ~(Crash \/ Reboot)
    <3>1. crashes \in Nat
      BY DeliveryAssumption DEF DTypeOK, ProcessOK
    <3>2. QED
      BY <2>1, <3>1 DEF Crash, Reboot, Death
  <2>3. QED
    BY <2>1, <2>2
<1>2. CASE Crash \/ Reboot
  BY <1>2 DEF Crash, Reboot, Death
<1> USE DEF Crash, Reboot, Death
<1>3. crashes \in Nat
  BY DeliveryAssumption DEF DTypeOK, ProcessOK
<1>4. ASSUME UNCHANGED <<course, crashes>>
      PROVE  /\ course' = course
             /\ IF Crash \/ Reboot THEN crashes' = crashes + 1 ELSE crashes' = crashes
  BY <1>3, <1>4
<1>5. CASE StartList \/ CompletePrevious \/ WriteMessage \/ NextMethod \/ StartSubscribers
  BY <1>4, <1>5 DEF StartList, CompletePrevious, WriteMessage, NextMethod, StartSubscribers
<1>6. CASE NextSubscriber \/ EndSubscribers \/ SpawnBatch \/ SkipLine \/ PostToGroup \/ SendToPeer
  BY <1>4, <1>6 DEF NextSubscriber, EndSubscribers, SpawnBatch, SkipLine, PostToGroup, SendToPeer
<1>7. CASE InitItems \/ RunArchive \/ PostingFails \/ ArchiveFails \/ Exit \/ UnlinkMessage
  BY <1>4, <1>7 DEF InitItems, RunArchive, PostingFails, ArchiveFails, Exit, UnlinkMessage
<1>8. CASE Filter \/ Filtered \/ \E f \in Files : Prepare(f)
  BY <1>4, <1>8 DEF Filter, Filtered, Prepare
<1>9. CASE \E k \in Children : ChildSends(k)
  BY <1>4, <1>9 DEF ChildSends
<1>10. CASE \E s \in Everyone : Subscribe(s) \/ Unsubscribe(s)
  BY <1>4, <1>10 DEF Subscribe, Unsubscribe
<1>11. CASE \E p \in Peers : AddPeer(p)
  BY <1>4, <1>11 DEF AddPeer
<1>12. CASE UNCHANGED dvars
  BY <1>4, <1>12
<1>13. QED
  BY <1>1, <1>2, <1>5, <1>6, <1>7, <1>8, <1>9, <1>10, <1>11, <1>12
  DEF Next, ListStep, Ending, Recording, Sending

LEMMA SoundBefore ==
  ASSUME DTypeOK, PlaceInv, [Next]_dvars, Sound'
  PROVE  Sound
<1>1. crashes \in Nat
  BY DeliveryAssumption DEF DTypeOK, ProcessOK
<1>2. QED
  BY <1>1, BoundsStep DEF Sound, StaysOnly

\* What was received stays so.
LEMMA InboxGrows ==
  ASSUME DTypeOK, PlaceInv, [Next]_dvars, NEW f \in Files, NEW s \in Everyone
  PROVE  inbox'[f][s] \in Nat /\ inbox[f][s] \in Nat /\ inbox'[f][s] >= inbox[f][s]
<1> USE DEF dvars, outcome
<1>0. inbox[f][s] \in Nat /\ BoxesOK /\ cur \in Files
  BY DEF DTypeOK, BoxesOK, ProcessOK
<1>1. CASE UNCHANGED inbox
  BY <1>0, <1>1
<1>2. CASE Sending
  <2>1. Receive(cur, recips)
    BY <1>2, SendingDoes
  <2>2. QED
    BY <1>0, <2>1, ReceiveDoes
<1>3. ASSUME NEW k \in Children, ChildSends(k) PROVE inbox'[f][s] \in Nat /\ inbox'[f][s] >= inbox[f][s]
  <2>1. child[k].file \in Files
    BY <1>3 DEF ChildSends, DTypeOK, ChildrenOK, SpoolOK
  <2>2. CASE Receive(child[k].file, child[k].to)
    BY <1>0, <2>1, <2>2, ReceiveDoes
  <2>3. QED
    BY <1>1, <1>0, <1>3, <2>2 DEF ChildSends
<1>4. CASE Ending \/ Recording
  BY <1>1, <1>4, EndingDoes, RecordingDoes
<1>5. CASE StartList \/ CompletePrevious \/ WriteMessage \/ NextMethod \/ StartSubscribers
  BY <1>1, <1>5 DEF StartList, CompletePrevious, WriteMessage, NextMethod, StartSubscribers
<1>6. CASE NextSubscriber \/ EndSubscribers \/ SpawnBatch \/ SkipLine \/ PostToGroup \/ SendToPeer
  BY <1>1, <1>6 DEF NextSubscriber, EndSubscribers, SpawnBatch, SkipLine, PostToGroup, SendToPeer
<1>7. CASE InitItems \/ RunArchive \/ PostingFails \/ ArchiveFails \/ Exit \/ UnlinkMessage
  BY <1>1, <1>7 DEF InitItems, RunArchive, PostingFails, ArchiveFails, Exit, UnlinkMessage
<1>8. CASE Filter \/ Filtered \/ Crash \/ Reboot \/ \E g \in Files : Prepare(g)
  BY <1>1, <1>8 DEF Filter, Filtered, Crash, Reboot, Prepare
<1>9. CASE \E t \in Everyone : Subscribe(t) \/ Unsubscribe(t)
  BY <1>1, <1>9 DEF Subscribe, Unsubscribe
<1>10. CASE \E p \in Peers : AddPeer(p)
  BY <1>1, <1>10 DEF AddPeer
<1>11. CASE UNCHANGED dvars
  BY <1>1, <1>11
<1>12. QED
  BY <1>0, <1>2, <1>3, <1>4, <1>5, <1>6, <1>7, <1>8, <1>9, <1>10, <1>11
  DEF Next, ListStep, Ending, Recording, Sending

\* Which steps lead to where the subscribers are read.
ScanningOn ==
  /\ pc \in Scanning
  /\ UNCHANGED <<posted, begun, out, items, pc, cur, copy, pos, recips, crashes, course>>
  /\ (\E k \in Children : ChildSends(k)) \/ UNCHANGED <<inbox, child>>

LEMMA ScanningShapes ==
  ASSUME DTypeOK, PlaceInv, [Next]_dvars, pc' \in Scanning
  PROVE  \/ StartSubscribers \/ NextSubscriber \/ EndSubscribers \/ Sending \/ SpawnBatch
         \/ RecordBatch \/ ScanningOn
<1> USE DEF dvars, outcome, spool, batch, loop, bounds, Calm
<1>1. CASE \E k \in Children : ChildSends(k)
  BY <1>1 DEF ChildSends, ScanningOn, Scanning
<1>2. CASE \E s \in Everyone : Subscribe(s) \/ Unsubscribe(s)
  BY <1>2 DEF Subscribe, Unsubscribe, ScanningOn
<1>3. CASE \E p \in Peers : AddPeer(p)
  BY <1>3 DEF AddPeer, ScanningOn
<1>4. CASE UNCHANGED dvars
  BY <1>4 DEF ScanningOn
<1>5. ASSUME Ending PROVE FALSE
  BY <1>5, EndingDoes, EndItemsDoes DEF Scanning, EndItems
<1>6. ASSUME NextMethod PROVE FALSE
  <2>1. NextPending(cur, method) \in 0 .. 5
    BY NextPendingIs, MethodsAre DEF DTypeOK, ProcessOK
  <2>2. QED
    BY <1>6, <2>1, MethodsAre DEF NextMethod, Scanning
<1>7. ASSUME StartList \/ CompletePrevious \/ WriteMessage \/ Filter \/ Filtered \/ InitItems PROVE FALSE
  BY <1>7 DEF StartList, CompletePrevious, WriteMessage, Filter, Filtered, InitItems, Scanning
<1>8. ASSUME SkipLine \/ PostToGroup \/ SendToPeer \/ RunArchive \/ PostingFails \/ ArchiveFails PROVE FALSE
  BY <1>8 DEF SkipLine, PostToGroup, SendToPeer, RunArchive, PostingFails, ArchiveFails, MoreLines, Scanning
<1>9. ASSUME Exit \/ UnlinkMessage \/ Crash \/ Reboot PROVE FALSE
  BY <1>9 DEF Exit, UnlinkMessage, Crash, Reboot, Scanning
<1>10. ASSUME RecordGroup \/ RecordPeer \/ \E f \in Files : Prepare(f) PROVE FALSE
  BY <1>10 DEF RecordGroup, RecordPeer, Prepare, Scanning
<1>11. QED
  BY <1>1, <1>2, <1>3, <1>4, <1>5, <1>6, <1>7, <1>8, <1>9, <1>10
  DEF Next, ListStep, Ending, Recording, Sending

\* What changes a .proc file.
LEMMA ItemsShapes ==
  ASSUME DTypeOK, PlaceInv, [Next]_dvars
  PROVE  \/ Ending \/ Recording \/ InitItems
         \/ /\ UNCHANGED items
            /\ pc \in Scanning => (pc' \in Scanning /\ cur' = cur) \/ Crash \/ Reboot
            /\ pc' = "unlink" => pc = "unlink" /\ cur' = cur
<1> USE DEF dvars, spool, loop, Scanning
<1>1. CASE Sending
  BY <1>1, SendingDoes DEF Sent
<1>2. CASE StartList \/ CompletePrevious \/ WriteMessage \/ Filter \/ Filtered
  BY <1>2 DEF StartList, CompletePrevious, WriteMessage, Filter, Filtered
<1>3. CASE NextMethod
  <2>1. NextPending(cur, method) \in 0 .. 5
    BY NextPendingIs, MethodsAre DEF DTypeOK, ProcessOK
  <2>2. QED
    BY <1>3, <2>1, MethodsAre DEF NextMethod
<1>4. CASE StartSubscribers \/ NextSubscriber \/ EndSubscribers \/ SpawnBatch
  BY <1>4 DEF StartSubscribers, NextSubscriber, EndSubscribers, SpawnBatch, Sent
<1>5. CASE SkipLine \/ PostToGroup \/ SendToPeer \/ RunArchive
  BY <1>5 DEF SkipLine, PostToGroup, SendToPeer, RunArchive, MoreLines, Archives
<1>6. CASE PostingFails \/ ArchiveFails \/ Exit \/ UnlinkMessage
  BY <1>6 DEF PostingFails, ArchiveFails, Exit, UnlinkMessage, MoreLines
<1>7. CASE Crash \/ Reboot
  BY <1>7 DEF Crash, Reboot
<1>8. CASE \E f \in Files : Prepare(f)
  BY <1>8 DEF Prepare
<1>9. CASE \E k \in Children : ChildSends(k)
  BY <1>9 DEF ChildSends
<1>10. CASE \E s \in Everyone : Subscribe(s) \/ Unsubscribe(s)
  BY <1>10 DEF Subscribe, Unsubscribe
<1>11. CASE \E p \in Peers : AddPeer(p)
  BY <1>11 DEF AddPeer
<1>12. CASE UNCHANGED dvars
  BY <1>12
<1>13. QED
  BY <1>1, <1>2, <1>3, <1>4, <1>5, <1>6, <1>7, <1>8, <1>9, <1>10, <1>11, <1>12
  DEF Next, ListStep, Ending, Recording, Sending

\* The messages and counts that a step leaves in the .proc files.
LEMMA RegularAfter ==
  ASSUME DTypeOK, PlaceInv, [Next]_dvars, NEW f \in Files,
         items'[f] # Absent, items'[f]["regular"] # MethodDone
  PROVE  \/ items'[f]["regular"] = 0
         \/ /\ ~NotBegun(f) /\ items'[f]["regular"] = items[f]["regular"]
            /\ f = cur /\ pc \in Scanning => Crash \/ Reboot \/ (pc' \in Scanning /\ cur' = cur)
         \/ /\ f = cur /\ RecordBatch /\ items'[f]["regular"] = pos
            /\ pc' \in Scanning /\ cur' = cur
<1> USE MethodsAre
<1>0. cur \in Files /\ pos \in Nat /\ SpoolOK
  BY DEF DTypeOK, ProcessOK
<1>1. CASE InitItems
  <2>1. PICK others, kept : /\ items' = [items EXCEPT ![cur] = InitialItems({"regular"} \cup others \cup kept)]
                            /\ pc \in {"filtered", "prepared"}
    BY <1>1 DEF InitItems
  <2>2. InitialItems({"regular"} \cup others \cup kept)["regular"] = 0
    BY DEF InitialItems
  <2>3. pc \notin Scanning
    BY <2>1 DEF Scanning
  <2>4. CASE f = cur
    BY <1>0, <2>1, <2>2, <2>4 DEF SpoolOK
  <2>5. CASE f # cur
    BY <1>0, <2>1, <2>3, <2>5 DEF SpoolOK, NotBegun
  <2>6. QED
    BY <2>4, <2>5
<1>2. CASE Recording
  <2>1. cur' = cur
    BY <1>2, RecordingDoes
  <2>2. PICK m \in {"regular", "news", "peer"} :
              /\ UpdateItems(cur, m, pos)
              /\ IF m = "regular" THEN pc = "record" /\ pc' = "scan"
                 ELSE \/ pc = "grouped" /\ pc' = "groups"
                      \/ pc = "peersent" /\ pc' = "peers"
    BY <1>2, RecordingDoes
  <2>3. \A g \in Files : (items'[g] # Absent) <=> ~NotBegun(g)
    BY <1>0, <2>2, UpdateItemsDoes DEF NotBegun
  <2>4. /\ cur # f \/ m # "regular" => items'[f]["regular"] = items[f]["regular"]
        /\ cur = f /\ m = "regular" /\ items[f]["regular"] # MethodDone => items'[f]["regular"] = pos
        /\ items[f]["regular"] = MethodDone => items'[f]["regular"] = MethodDone
    BY <1>0, <2>2, <2>3, UpdateItemsDoes DEF DTypeOK
  <2>5. m = "regular" => RecordBatch
    BY <1>2, <2>2 DEF Recording, RecordGroup, RecordPeer
  <2>6. QED
    BY <2>1, <2>2, <2>3, <2>4, <2>5 DEF Scanning
<1>3. CASE Ending
  <2>1. cur' = cur
    BY <1>3, EndingDoes
  <2>2. CASE UNCHANGED items /\ pc \notin Scanning
    BY <2>2 DEF NotBegun
  <2>3. ASSUME NEW m \in Range(Methods), EndItems(cur, m),
               IF m = "regular" THEN pc = "wait" /\ procs = {} ELSE pc \notin Scanning
        PROVE  ~NotBegun(f) /\ items'[f]["regular"] = items[f]["regular"] /\ (f # cur \/ pc \notin Scanning)
    <3>1. /\ pc' \in {"method", "unlink"}
          /\ \A g \in Files \ {cur} : items'[g] = items[g]
          /\ pc' = "method" => /\ items'[cur] = Absent <=> NotBegun(cur)
                               /\ ~NotBegun(cur) => /\ items'[cur][m] = MethodDone
                                                    /\ \A o \in Range(Methods) \ {m} : items'[cur][o] = items[cur][o]
          /\ pc' = "unlink" => items'[cur] = Absent
      BY <1>0, <2>3, EndItemsDoes DEF NotBegun
    <3>2. CASE f # cur
      BY <3>1, <3>2 DEF NotBegun
    <3>3. CASE f = cur
      <4>1. pc' = "method" /\ ~NotBegun(cur)
        BY <3>1, <3>3
      <4>2. m # "regular"
        BY <3>1, <3>3, <4>1
      <4>3. QED
        BY <2>3, <3>1, <3>3, <4>1, <4>2
    <3>4. QED
      BY <3>2, <3>3
  <2>4. QED
    BY <1>3, <2>2, <2>3, EndingDoes
<1>4. CASE /\ UNCHANGED items
           /\ pc \in Scanning => (pc' \in Scanning /\ cur' = cur) \/ Crash \/ Reboot
  BY <1>4 DEF NotBegun
<1>5. QED
  BY <1>1, <1>2, <1>3, <1>4, ItemsShapes

\* The steps of the subscribers keep the lines of those who stay.
LEMMA SubsGrow ==
  ASSUME DTypeOK, PlaceInv, [Next]_dvars, StaysOnly
  PROVE  /\ Len(subs) \in Nat /\ Len(subs') \in Nat /\ Len(subs) <= Len(subs')
         /\ DOMAIN subs = 1 .. Len(subs) /\ DOMAIN subs' = 1 .. Len(subs')
         /\ \A i \in DOMAIN subs : subs'[i] = subs[i]
<1>0. subs \in Seq(Everyone) /\ Len(subs) \in Nat /\ DOMAIN subs = 1 .. Len(subs)
  BY LenProperties DEF DTypeOK, ProcessOK
<1>1. CASE UNCHANGED subs
  BY <1>0, <1>1
<1>2. ASSUME NEW s \in Everyone, Subscribe(s)
      PROVE  /\ Len(subs') = Len(subs) + 1 /\ DOMAIN subs' = 1 .. Len(subs')
             /\ \A i \in DOMAIN subs : subs'[i] = subs[i]
  BY <1>0, <1>2, AppendProperties, LenProperties DEF Subscribe
<1>3. ASSUME NEW s \in Everyone, Unsubscribe(s) PROVE FALSE
  BY <1>3 DEF Unsubscribe, StaysOnly
<1>4. QED
  BY <1>0, <1>1, <1>2, <1>3, OnlyTheySubscribe

\* Who is cared for remains so as long as the subscribers are being read.
LEMMA CaredKept ==
  ASSUME DTypeOK, PlaceInv, ChildInv, Sound, [Next]_dvars, pc \in Scanning, pc' \in Scanning,
         NEW s \in Steady, Cared(s)
  PROVE  cur' = cur /\ Cared(s)'
<1> USE DEF Scanning, Loaded, loop, batch
<1>0. cur \in Files /\ cur \in out /\ s \in Everyone /\ ChildrenOK /\ BoxesOK
  BY SteadyAre DEF PlaceInv, Handling, NotBegun, DTypeOK, ProcessOK, SpoolOK
<1>1. cur' = cur
  <2>1. ~StartSubscribers
    BY DEF StartSubscribers
  <2>2. QED
    BY <2>1, ScanningShapes, SendingDoes DEF NextSubscriber, EndSubscribers, SpawnBatch, RecordBatch, ScanningOn
<1>2. inbox[cur][s] \in Nat /\ inbox'[cur][s] \in Nat /\ inbox'[cur][s] >= inbox[cur][s]
  BY <1>0, InboxGrows
<1>3. CASE inbox[cur][s] > 0
  <2>1. inbox'[cur][s] > 0
    BY <1>2, <1>3
  <2>2. QED
    BY <1>1, <2>1 DEF Cared
<1>4. ASSUME NEW k \in Children, child[k] # NoBatch, child[k].file = cur, s \in child[k].to PROVE Cared(s)'
  <2>1. CASE child'[k] = child[k]
    BY <1>1, <1>4, <2>1 DEF Cared
  <2>2. CASE child'[k] # child[k]
    <3>1. CASE SpawnBatch
      BY <1>0, <1>4, <2>2, <3>1 DEF SpawnBatch, ChildrenOK
    <3>2. ASSUME NEW j \in Children, ChildSends(j) PROVE Cared(s)'
      <4>1. j = k
        BY <1>0, <2>2, <3>2 DEF ChildSends, Reap, ChildrenOK
      <4>2. Receive(cur, child[k].to)
        BY <1>0, <1>4, <3>2, <4>1 DEF ChildSends
      <4>3. inbox'[cur][s] = inbox[cur][s] + 1
        BY <1>0, <1>4, <4>2, ReceiveDoes
      <4>4. QED
        BY <1>1, <1>2, <4>3 DEF Cared
    <3>3. CASE StartSubscribers \/ NextSubscriber \/ EndSubscribers \/ RecordBatch
      BY <2>2, <3>3 DEF StartSubscribers, NextSubscriber, EndSubscribers, RecordBatch
    <3>4. CASE Sending
      BY <2>2, <3>4, SendingDoes
    <3>5. QED
      BY <2>2, <3>1, <3>2, <3>3, <3>4, ScanningShapes DEF ScanningOn
  <2>3. QED
    BY <2>1, <2>2
<1>5. CASE pc \in {"scan", "batch", "last"} /\ s \in recips
  <2>1. CASE NextSubscriber
    BY <1>1, <1>5, <2>1 DEF NextSubscriber, Cared
  <2>2. CASE EndSubscribers
    BY <1>1, <1>5, <2>2 DEF EndSubscribers, Cared
  <2>3. CASE Sending
    <3>1. Receive(cur, recips)
      BY <2>3, SendingDoes
    <3>2. inbox'[cur][s] = inbox[cur][s] + 1
      BY <1>0, <1>5, <3>1, ReceiveDoes
    <3>3. QED
      BY <1>1, <1>2, <3>2 DEF Cared
  <2>4. CASE SpawnBatch
    <3>1. PICK k \in Children : child' = [child EXCEPT ![k] = [file |-> cur, to |-> recips]]
      BY <2>4 DEF SpawnBatch
    <3>2. child'[k] = [file |-> cur, to |-> recips]
      BY <1>0, <3>1 DEF ChildrenOK
    <3>3. recips \subseteq Readers /\ [file |-> cur, to |-> recips] # NoBatch
      BY <1>0, DeliveryAssumption DEF DTypeOK, ProcessOK
    <3>4. child'[k] # NoBatch /\ child'[k].file = cur /\ s \in child'[k].to
      BY <1>5, <3>2, <3>3
    <3>5. QED
      BY <1>1, <3>4 DEF Cared
  <2>5. CASE ScanningOn
    BY <1>1, <1>5, <2>5 DEF ScanningOn, Cared
  <2>6. CASE StartSubscribers \/ RecordBatch
    BY <1>5, <2>6 DEF StartSubscribers, RecordBatch
  <2>7. QED
    BY <2>1, <2>2, <2>3, <2>4, <2>5, <2>6, ScanningShapes
<1>6. QED
  BY <1>1, <1>3, <1>4, <1>5 DEF Cared

LEMMA ScanStep ==
  ASSUME DTypeOK, PlaceInv, SubsInv, ChildInv, Sound, ScanInv, CountInv, StayInv, [Next]_dvars
  PROVE  ScanInv'
<1> SUFFICES ASSUME pc' \in Scanning PROVE ScanInv'
  BY DEF ScanInv
<1>0. copy \in Seq(Everyone) /\ Len(copy) \in Nat /\ DOMAIN copy = 1 .. Len(copy) /\ pos \in Nat
  BY LenProperties DEF DTypeOK, ProcessOK
<1>1. CASE StartSubscribers
  <2>1. /\ copy' = subs /\ pos' = Processed(cur, "regular") /\ pc' = "scan" /\ pc = "regular"
        /\ UNCHANGED <<inbox, items, cur>>
    BY <1>1 DEF StartSubscribers, spool, outcome, loop
  <2>2. pos' = items[cur]["regular"] /\ ~NotBegun(cur) /\ items[cur]["regular"] # MethodDone /\ cur \in Files
    BY <2>1, MethodsAre DEF Processed, PlaceInv, Handling, NotBegun, DTypeOK, ProcessOK
  <2>3. subs \in Seq(Everyone) /\ DOMAIN subs = 1 .. Len(subs)
    BY LenProperties DEF DTypeOK, ProcessOK
  <2>4. ASSUME NEW i \in DOMAIN subs, i <= pos', subs[i] \in Steady PROVE inbox[cur][subs[i]] > 0
    <3>1. CASE crashes = 0
      <4>1. pos' = 0
        BY <2>1, <2>2, <3>1 DEF CountInv, Scanning
      <4>2. QED
        BY <2>3, <2>4, <4>1
    <3>2. CASE StaysOnly
      BY <2>2, <2>4, <3>2 DEF StayInv
    <3>3. QED
      BY <3>1, <3>2 DEF Sound
  <2>5. QED
    BY <2>1, <2>4 DEF ScanInv, SubsInv, Cared
<1>2. CASE ~StartSubscribers
  <2>1. pc \in Scanning /\ copy' = copy
    BY <1>2, ScanningShapes, SendingDoes
    DEF NextSubscriber, EndSubscribers, SpawnBatch, RecordBatch, ScanningOn, Scanning, batch
  <2>2. \A s \in Steady : Cared(s) => Cared(s)'
    BY <2>1, CaredKept
  <2>3. CASE pos' = pos
    <3>1. \A i \in DOMAIN copy : i <= pos /\ copy[i] \in Steady => Cared(copy[i])
      BY <2>1 DEF ScanInv
    <3>2. pc' \in {"last", "wait"} => pos >= Len(copy)
      <4>1. pc' \in {"last", "wait"} => pc \in {"last", "wait"} \/ EndSubscribers
        BY <1>2, <2>3, ScanningShapes, SendingDoes
        DEF NextSubscriber, SpawnBatch, Sent, RecordBatch, ScanningOn
      <4>2. EndSubscribers => pos >= Len(copy)
        BY DEF EndSubscribers
      <4>3. QED
        BY <2>1, <4>1, <4>2 DEF ScanInv
    <3>3. \A i \in DOMAIN copy' : i <= pos' /\ copy'[i] \in Steady => Cared(copy[i])'
      <4>1. SUFFICES ASSUME NEW i \in DOMAIN copy, i <= pos, copy[i] \in Steady, NEW s, s = copy[i]
                     PROVE  Cared(s)'
        BY <2>1, <2>3
      <4>2. QED
        BY <2>2, <3>1, <4>1
    <3>4. QED
      BY <2>1, <2>3, <3>2, <3>3 DEF ScanInv
  <2>4. CASE NextSubscriber
    <3>1. /\ pc = "scan" /\ pos < Len(copy) /\ pos' = pos + 1 /\ pc' \in {"scan", "batch"}
          /\ recips' = recips \cup ({copy[pos + 1]} \cap Readers)
      BY <2>4 DEF NextSubscriber
    <3>2. ASSUME NEW i \in DOMAIN copy, i <= pos + 1, copy[i] \in Steady, NEW s, s = copy[i] PROVE Cared(s)'
      <4>1. CASE i <= pos
        BY <2>1, <2>2, <3>2, <4>1 DEF ScanInv
      <4>2. CASE i = pos + 1
        <5>1. s \in recips'
          BY <3>1, <3>2, <4>2, SteadyAre
        <5>2. QED
          BY <3>1, <5>1 DEF Cared
      <4>3. QED
        BY <1>0, <3>2, <4>1, <4>2
    <3>3. \A i \in DOMAIN copy' : i <= pos' /\ copy'[i] \in Steady => Cared(copy[i])'
      BY <2>1, <3>1, <3>2
    <3>4. QED
      BY <2>1, <3>1, <3>3 DEF ScanInv
  <2>5. pos' = pos \/ NextSubscriber
    BY <1>2, ScanningShapes, SendingDoes
    DEF EndSubscribers, SpawnBatch, RecordBatch, ScanningOn, batch
  <2>6. QED
    BY <2>3, <2>4, <2>5
<1>3. QED
  BY <1>1, <1>2

\* When nobody is at work for the message any more, who is cared for has it.
LEMMA CaredHas ==
  ASSUME DTypeOK, ChildInv, Sound, pc \in {"record", "wait"}, procs = {} \/ course.nthreads = 1,
         NEW s, Cared(s)
  PROVE  inbox[cur][s] > 0
BY DEF Cared, ChildInv, Sound, StaysOnly, Loaded

LEMMA DoneStep ==
  ASSUME DTypeOK, PlaceInv, ChildInv, Sound, ScanInv, DoneInv, [Next]_dvars
  PROVE  DoneInv'
<1> USE MethodsAre
<1>0. /\ \A f \in Files : Reached(f) => Reached(f)'
      /\ cur \in Files /\ pos \in Nat /\ SpoolOK
  BY InboxGrows, SteadyAre DEF Reached, DTypeOK, ProcessOK
<1>1. CASE Ending
  <2>1. cur' = cur
    BY <1>1, EndingDoes
  <2>2. CASE UNCHANGED items /\ pc' \in {"groups", "peers"}
    BY <1>0, <2>2 DEF DoneInv, NotBegun
  <2>3. ASSUME NEW m \in Range(Methods), EndItems(cur, m),
               IF m = "regular" THEN pc = "wait" /\ procs = {} ELSE pc \notin Scanning
        PROVE  DoneInv'
    <3>1. /\ \A g \in Files \ {cur} : items'[g] = items[g]
          /\ pc' = "unlink" => /\ ~NotBegun(cur) /\ items'[cur] = Absent
                               /\ \A o \in Range(Methods) \ {m} : items[cur][o] = MethodDone
          /\ pc' # "unlink" => /\ items'[cur] = Absent <=> NotBegun(cur)
                               /\ ~NotBegun(cur) =>
                                    \A o \in Range(Methods) \ {m} : items'[cur][o] = items[cur][o]
      BY <1>0, <2>3, EndItemsDoes DEF NotBegun
    <3>2. m = "regular" => Reached(cur)
      <4>1. SUFFICES ASSUME m = "regular", NEW s \in Steady PROVE inbox[cur][s] > 0
        BY DEF Reached
      <4>2. pc = "wait" /\ procs = {}
        BY <2>3, <4>1
      <4>3. PICK i \in DOMAIN copy : copy[i] = s
        BY <4>2 DEF ScanInv, Scanning
      <4>4. i <= pos
        <5>1. pos >= Len(copy) /\ Len(copy) \in Nat /\ DOMAIN copy = 1 .. Len(copy)
          BY <4>2, LenProperties DEF ScanInv, Scanning, DTypeOK, ProcessOK
        <5>2. QED
          BY <1>0, <5>1
      <4>5. Cared(s)
        BY <4>2, <4>3, <4>4 DEF ScanInv, Scanning
      <4>6. QED
        BY <4>2, <4>5, CaredHas
    <3>3. pc' = "unlink" => Reached(cur)
      <4>1. m # "regular" /\ pc' = "unlink" => ~NotBegun(cur) /\ items[cur]["regular"] = MethodDone
        BY <3>1
      <4>2. QED
        BY <1>0, <3>2, <4>1 DEF DoneInv
    <3>4. ASSUME NEW f \in Files, items'[f] # Absent, items'[f]["regular"] = MethodDone PROVE Reached(f)
      <4>1. CASE f # cur
        BY <3>1, <3>4, <4>1 DEF DoneInv, NotBegun
      <4>2. CASE f = cur
        <5>1. ~NotBegun(cur) /\ (m # "regular" => items[cur]["regular"] = MethodDone)
          BY <3>1, <3>4, <4>2
        <5>2. QED
          BY <1>0, <3>2, <4>2, <5>1 DEF DoneInv
      <4>3. QED
        BY <4>1, <4>2
    <3>5. \A f \in Files : items'[f] # Absent /\ items'[f]["regular"] = MethodDone => Reached(f)'
      BY <1>0, <3>4
    <3>6. pc' = "unlink" => Reached(cur)'
      BY <1>0, <2>1, <3>3 DEF Reached
    <3>7. QED
      BY <3>5, <3>6 DEF DoneInv, NotBegun
  <2>4. QED
    BY <1>1, <2>2, <2>3, EndingDoes
<1>2. CASE Recording
  <2>1. PICK m \in {"regular", "news", "peer"} : UpdateItems(cur, m, pos) /\ pc' # "unlink"
    BY <1>2, RecordingDoes
  <2>2. ASSUME NEW f \in Files, items'[f] # Absent, items'[f]["regular"] = MethodDone
        PROVE  ~NotBegun(f) /\ items[f]["regular"] = MethodDone
    <3>1. ~NotBegun(f)
      BY <1>0, <2>1, <2>2, UpdateItemsDoes DEF NotBegun
    <3>2. /\ f # cur \/ m # "regular" => items'[f]["regular"] = items[f]["regular"]
          /\ f = cur /\ m = "regular" /\ items[f]["regular"] # MethodDone => items'[f]["regular"] = pos
      BY <1>0, <2>1, <3>1, UpdateItemsDoes
    <3>3. QED
      BY <1>0, <2>2, <3>1, <3>2
  <2>3. QED
    BY <1>0, <2>1, <2>2 DEF DoneInv, NotBegun
<1>3. CASE InitItems
  <2>1. PICK others, kept : /\ items' = [items EXCEPT ![cur] = InitialItems({"regular"} \cup others \cup kept)]
                            /\ pc' = "method"
    BY <1>3 DEF InitItems
  <2>2. InitialItems({"regular"} \cup others \cup kept)["regular"] = 0
    BY DEF InitialItems
  <2>3. \A f \in Files : items'[f] # Absent /\ items'[f]["regular"] = MethodDone =>
                           ~NotBegun(f) /\ items[f]["regular"] = MethodDone
    BY <1>0, <2>1, <2>2 DEF SpoolOK, NotBegun
  <2>4. QED
    BY <1>0, <2>1, <2>3 DEF DoneInv, NotBegun
<1>4. CASE UNCHANGED items /\ (pc' = "unlink" => pc = "unlink" /\ cur' = cur)
  <2>1. pc' = "unlink" => Reached(cur)'
    BY <1>0, <1>4 DEF DoneInv, Reached
  <2>2. QED
    BY <1>0, <1>4, <2>1 DEF DoneInv, NotBegun
<1>5. QED
  BY <1>1, <1>2, <1>3, <1>4, ItemsShapes

LEMMA CountStep ==
  ASSUME DTypeOK, PlaceInv, CountInv, [Next]_dvars
  PROVE  CountInv'
<1>1. SUFFICES ASSUME crashes' = 0, NEW f \in Files, items'[f] # Absent,
                      items'[f]["regular"] \notin {0, MethodDone}
               PROVE  f = cur' /\ pc' \in Scanning
  BY DEF CountInv, NotBegun
<1>2. ~(Crash \/ Reboot) /\ crashes = 0
  <2>1. crashes \in Nat
    BY DeliveryAssumption DEF DTypeOK, ProcessOK
  <2>2. QED
    BY <1>1, <2>1, BoundsStep
<1>3. CASE f = cur /\ RecordBatch /\ pc' \in Scanning /\ cur' = cur
  BY <1>3
<1>4. CASE /\ ~NotBegun(f) /\ items'[f]["regular"] = items[f]["regular"]
           /\ f = cur /\ pc \in Scanning => Crash \/ Reboot \/ (pc' \in Scanning /\ cur' = cur)
  <2>1. f = cur /\ pc \in Scanning
    BY <1>1, <1>2, <1>4 DEF CountInv
  <2>2. QED
    BY <1>2, <1>4, <2>1
<1>5. QED
  BY <1>1, <1>3, <1>4, RegularAfter

LEMMA StayStep ==
  ASSUME DTypeOK, PlaceInv, ChildInv, ScanInv, StayInv, [Next]_dvars
  PROVE  StayInv'
<1> SUFFICES ASSUME StaysOnly PROVE StayInv'
  BY BoundsStep DEF StayInv, StaysOnly
<1>0. /\ Len(subs) \in Nat /\ Len(subs') \in Nat /\ Len(subs) <= Len(subs')
      /\ DOMAIN subs = 1 .. Len(subs) /\ DOMAIN subs' = 1 .. Len(subs')
      /\ \A i \in DOMAIN subs : subs'[i] = subs[i]
      /\ copy \in Seq(Everyone) /\ Len(copy) \in Nat /\ DOMAIN copy = 1 .. Len(copy)
      /\ pos \in Nat /\ cur \in Files /\ SpoolOK
  BY SubsGrow, LenProperties DEF DTypeOK, ProcessOK
<1>1. ASSUME NEW f \in Files, items'[f] # Absent, items'[f]["regular"] # MethodDone
      PROVE  /\ items'[f]["regular"] <= Len(subs')
             /\ \A i \in DOMAIN subs' :
                  i <= items'[f]["regular"] /\ subs'[i] \in Steady => inbox'[f][subs'[i]] > 0
  <2> DEFINE n == items'[f]["regular"]
  <2>1. SUFFICES /\ n \in Nat /\ n <= Len(subs)
                 /\ \A i \in DOMAIN subs : i <= n /\ subs[i] \in Steady => inbox[f][subs[i]] > 0
    <3>1. ASSUME n \in Nat, n <= Len(subs), NEW i \in DOMAIN subs', i <= n
          PROVE  i \in DOMAIN subs /\ subs'[i] = subs[i]
      BY <1>0, <3>1
    <3>2. \A s \in Steady : inbox[f][s] > 0 => inbox'[f][s] > 0
      BY InboxGrows, SteadyAre
    <3>3. QED
      BY <1>0, <3>1, <3>2
  <2>2. CASE n = 0
    BY <1>0, <2>2
  <2>3. CASE ~NotBegun(f) /\ n = items[f]["regular"]
    <3>1. n \in Nat
      BY <1>0, <1>1, <2>3, MethodsAre DEF SpoolOK, NotBegun
    <3>2. QED
      BY <1>1, <2>3, <3>1 DEF StayInv
  <2>4. CASE f = cur /\ RecordBatch /\ n = pos
    <3>1. pc = "record" /\ pc \in Scanning /\ course.nthreads = 1
      BY <2>4 DEF RecordBatch, Scanning, StaysOnly
    <3>2. Len(copy) <= Len(subs) /\ pos <= Len(copy) /\ \A i \in DOMAIN copy : copy[i] = subs[i]
      BY <3>1 DEF StayInv
    <3>3. ASSUME NEW i \in DOMAIN subs, i <= n, subs[i] \in Steady, NEW s, s = subs[i] PROVE inbox[cur][s] > 0
      <4>1. i \in DOMAIN copy /\ i <= pos /\ copy[i] = s
        BY <1>0, <2>4, <3>2, <3>3
      <4>2. Cared(s)
        BY <3>1, <3>3, <4>1 DEF ScanInv
      <4>3. QED
        BY <3>1, <4>2, CaredHas DEF Sound
    <3>4. QED
      BY <1>0, <2>4, <3>2, <3>3
  <2>5. QED
    BY <1>1, <2>2, <2>3, <2>4, RegularAfter
<1>2. ASSUME pc' \in Scanning
      PROVE  /\ Len(copy') <= Len(subs') /\ pos' <= Len(copy')
             /\ \A i \in DOMAIN copy' : copy'[i] = subs'[i]
  <2>1. CASE StartSubscribers
    <3>1. copy' = subs /\ subs' = subs /\ pos' = Processed(cur, "regular") /\ pc = "regular"
      BY <2>1 DEF StartSubscribers, admin
    <3>2. pos' = items[cur]["regular"] /\ ~NotBegun(cur) /\ items[cur]["regular"] # MethodDone
      BY <3>1, MethodsAre DEF Processed, PlaceInv, Handling, NotBegun
    <3>3. QED
      BY <1>0, <3>1, <3>2 DEF StayInv
  <2>2. CASE ~StartSubscribers
    <3>1. pc \in Scanning /\ copy' = copy
      BY <1>2, <2>2, ScanningShapes, SendingDoes
      DEF NextSubscriber, EndSubscribers, SpawnBatch, RecordBatch, ScanningOn, Scanning, batch
    <3>2. pos' = pos \/ (pos' = pos + 1 /\ pos < Len(copy))
      BY <1>2, <2>2, ScanningShapes, SendingDoes
      DEF NextSubscriber, EndSubscribers, SpawnBatch, RecordBatch, ScanningOn, batch
    <3>3. Len(copy) <= Len(subs) /\ pos <= Len(copy) /\ \A i \in DOMAIN copy : copy[i] = subs[i]
      BY <3>1 DEF StayInv
    <3>4. \A i \in DOMAIN copy : i \in DOMAIN subs
      BY <1>0, <3>3
    <3>5. QED
      BY <1>0, <3>1, <3>2, <3>3, <3>4
  <2>3. QED
    BY <2>1, <2>2
<1>3. QED
  BY <1>1, <1>2 DEF StayInv, NotBegun

-----------------------------------------------------------------------------
(* The invariant *)

LEMMA DeliveryInvInit ==
  ASSUME DInit
  PROVE  DeliveryInv
<1> USE DEF DInit
<1>1. /\ course \in Courses /\ course.maxCrashes \in Nat /\ course.maxFaults \in Nat
      /\ course.peers = Absent \/ course.peers \in Seq(Peers)
  BY DeliveryAssumption
<1>2. (CHOOSE f \in Files : TRUE) \in Files
  BY DeliveryAssumption
<1>3. subs \in Seq(Everyone) /\ \A s \in Steady : \E i \in DOMAIN subs : subs[i] = s
  <2>1. Seq(Range(InitSubscribers)) \subseteq Seq(Everyone)
    BY SeqMonotonic DEF Everyone
  <2>2. QED
    BY <2>1, DeliveryAssumption DEF Steady, Range
<1>4. BoxesOK
  BY DEF BoxesOK
<1>5. ProcessOK /\ SpoolOK /\ ChildrenOK
  BY <1>1, <1>2, <1>3, MethodsAre DEF ProcessOK, SpoolOK, ChildrenOK, Places
<1>6. PlaceInv /\ SubsInv /\ ChildInv
  BY <1>3, MethodsAre DEF PlaceInv, SubsInv, ChildInv, Handling, Scanning, Preparing, Loaded, NotBegun
<1>7. ScanInv /\ DoneInv /\ CountInv /\ StayInv
  BY DEF ScanInv, DoneInv, CountInv, StayInv, Scanning, NotBegun
<1>8. QED
  BY <1>4, <1>5, <1>6, <1>7 DEF DeliveryInv, DTypeOK, ReachInv

LEMMA DeliveryInvStep ==
  ASSUME DeliveryInv, [Next]_dvars
  PROVE  DeliveryInv'
<1>1. DTypeOK' /\ PlaceInv' /\ SubsInv' /\ ChildInv'
  BY DTypeStep, PlaceStep, SubsStep, ChildStep DEF DeliveryInv
<1>2. ASSUME Sound' PROVE ScanInv' /\ DoneInv' /\ CountInv' /\ StayInv'
  <2>1. Sound
    BY <1>2, SoundBefore DEF DeliveryInv
  <2>2. ScanInv /\ DoneInv /\ CountInv /\ StayInv
    BY <2>1 DEF DeliveryInv, ReachInv
  <2>3. QED
    BY <2>1, <2>2, ScanStep, DoneStep, CountStep, StayStep DEF DeliveryInv
<1>3. QED
  BY <1>1, <1>2 DEF DeliveryInv, ReachInv

\* The states of the distribution are what they are meant to be.
THEOREM DeliveryTyping == Spec => []DTypeOK
<1>1. DInit => DeliveryInv
  BY DeliveryInvInit
<1>2. DeliveryInv /\ [Next]_dvars => DeliveryInv'
  BY DeliveryInvStep
<1>3. DeliveryInv => DTypeOK
  BY DEF DeliveryInv
<1>4. QED
  BY <1>1, <1>2, <1>3, PTL DEF Spec

\* distribute.c:562: a pqueue child finds the message file it is to send, as
\* long as no list process has died; and one that sends by itself has no child.
THEOREM DeliveryChildren ==
  Spec => [](crashes = 0 \/ course.nthreads = 1 => ChildFindsFile)
<1>1. DInit => DeliveryInv
  BY DeliveryInvInit
<1>2. DeliveryInv /\ [Next]_dvars => DeliveryInv'
  BY DeliveryInvStep
<1>3. DeliveryInv => (crashes = 0 \/ course.nthreads = 1 => ChildFindsFile)
  <2>1. SUFFICES ASSUME DeliveryInv, crashes = 0 \/ course.nthreads = 1,
                        NEW k \in Children, child[k] # NoBatch
                 PROVE  child[k].file \in out
    BY DEF ChildFindsFile
  <2>2. pc \in Scanning /\ child[k].file = cur
    BY <2>1 DEF DeliveryInv, ChildInv, Loaded
  <2>3. ~NotBegun(cur) /\ cur \in Files
    BY <2>1, <2>2 DEF DeliveryInv, PlaceInv, Handling, DTypeOK, ProcessOK
  <2>4. QED
    BY <2>1, <2>2, <2>3 DEF DeliveryInv, DTypeOK, SpoolOK, NotBegun
<1>4. QED
  BY <1>1, <1>2, <1>3, PTL DEF Spec

-----------------------------------------------------------------------------
(* The refinement of Broadcast *)

LEMMA GotAfter ==
  ASSUME BoxesOK, NEW f \in Files, NEW to, Receive(f, to)
  PROVE  Got' = Got \cup ({f} \X (to \cap Steady))
<1>1. \A g \in Files, s \in Steady :
        inbox'[g][s] > 0 <=> inbox[g][s] > 0 \/ (g = f /\ s \in to)
  <2>1. ASSUME NEW g \in Files, NEW s \in Steady
        PROVE  inbox'[g][s] > 0 <=> inbox[g][s] > 0 \/ (g = f /\ s \in to)
    <3>1. s \in Everyone /\ inbox[g][s] \in Nat
      BY SteadyAre DEF BoxesOK
    <3>2. inbox'[g][s] = IF g = f /\ s \in to THEN inbox[g][s] + 1 ELSE inbox[g][s]
      BY <3>1, ReceiveDoes
    <3>3. QED
      BY <3>1, <3>2
  <2>2. QED
    BY <2>1
<1>2. QED
  BY <1>1 DEF Got

LEMMA PromiseInit ==
  ASSUME DInit
  PROVE  Promise!Init
BY SteadyAre DEF DInit, Promise!Init, Got, Closed

\* Every step is one of Broadcast, or none.
LEMMA PromiseStep ==
  ASSUME DeliveryInv, Sound, [Next]_dvars
  PROVE  [Promise!Next]_<<posted, Got, Closed>>
<1> USE DEF spool, outcome, NotBegun
<1>0. /\ DTypeOK /\ PlaceInv /\ BoxesOK /\ DoneInv /\ cur \in Files
      /\ \A f \in Files : items[f] # Absent => f \in out
      /\ out \subseteq posted /\ begun \subseteq posted /\ posted \subseteq Files
  BY DEF DeliveryInv, ReachInv, DTypeOK, SpoolOK, ProcessOK
<1>1. CASE UNCHANGED <<posted, begun, out, inbox>>
  BY <1>1 DEF Got, Closed
<1>2. ASSUME NEW f \in Files, Prepare(f) PROVE Promise!Next
  BY <1>0, <1>2 DEF Prepare, Unused, Promise!Next, Promise!Post, Got, Closed
<1>3. CASE Filter \/ Filtered \/ InitItems
  <2>1. posted' = posted /\ inbox' = inbox /\ begun' \ out' = begun \ out
    BY <1>0, <1>3 DEF Filter, Filtered, InitItems, PlaceInv, Preparing
  <2>2. QED
    BY <2>1 DEF Got, Closed
<1>4. CASE UnlinkMessage
  <2>1. /\ posted' = posted /\ inbox' = inbox /\ cur \in begun
        /\ begun' \ out' = (begun \ out) \cup {cur}
    BY <1>0, <1>4 DEF UnlinkMessage, PlaceInv
  <2>2. {cur} \X Steady \subseteq Got
    <3>1. Reached(cur)
      BY <1>0, <1>4 DEF UnlinkMessage, DoneInv
    <3>2. QED
      BY <1>0, <3>1 DEF Reached, Got
  <2>3. Promise!Close(cur)
    BY <1>0, <2>1, <2>2 DEF Promise!Close, Got, Closed
  <2>4. QED
    BY <1>0, <2>3 DEF Promise!Next
<1>5. ASSUME NEW f \in out, NEW to, Receive(f, to), UNCHANGED <<posted, begun, out>> PROVE Promise!Next
  <2>1. f \in Files /\ f \in posted \ Closed
    BY <1>0 DEF Closed
  <2>2. Got' = Got \cup ({f} \X (to \cap Steady))
    BY <1>0, <1>5, <2>1, GotAfter
  <2>3. Promise!Deliver(f, to \cap Steady)
    BY <1>5, <2>1, <2>2 DEF Promise!Deliver, Got, Closed
  <2>4. QED
    BY <2>1, <2>3 DEF Promise!Next
<1>6. CASE Sending
  <2>1. Receive(cur, recips) /\ UNCHANGED <<posted, begun, out>> /\ pc \in {"batch", "last"}
    BY <1>0, <1>6, SendingDoes
  <2>2. cur \in out
    BY <1>0, <2>1 DEF PlaceInv, Handling, Scanning
  <2>3. QED
    BY <1>5, <2>1, <2>2
<1>7. ASSUME NEW k \in Children, ChildSends(k) PROVE [Promise!Next]_<<posted, Got, Closed>>
  BY <1>1, <1>5, <1>7 DEF ChildSends
<1>8. CASE Ending \/ Recording
  BY <1>0, <1>1, <1>8, EndingDoes, RecordingDoes
<1>9. QED
  <2>1. CASE StartList \/ CompletePrevious \/ WriteMessage \/ NextMethod \/ StartSubscribers
    BY <1>1, <2>1 DEF StartList, CompletePrevious, WriteMessage, NextMethod, StartSubscribers
  <2>2. CASE NextSubscriber \/ EndSubscribers \/ SpawnBatch \/ SkipLine \/ PostToGroup \/ SendToPeer
    BY <1>1, <2>2 DEF NextSubscriber, EndSubscribers, SpawnBatch, SkipLine, PostToGroup, SendToPeer
  <2>3. CASE RunArchive \/ PostingFails \/ ArchiveFails \/ Exit \/ Crash \/ Reboot
    BY <1>1, <2>3 DEF RunArchive, PostingFails, ArchiveFails, Exit, Crash, Reboot
  <2>4. CASE \E s \in Everyone : Subscribe(s) \/ Unsubscribe(s)
    BY <1>1, <2>4 DEF Subscribe, Unsubscribe
  <2>5. CASE \E p \in Peers : AddPeer(p)
    BY <1>1, <2>5 DEF AddPeer
  <2>6. CASE UNCHANGED dvars
    BY <1>1, <2>6 DEF dvars
  <2>7. QED
    BY <1>2, <1>3, <1>4, <1>6, <1>7, <1>8, <2>1, <2>2, <2>3, <2>4, <2>5, <2>6
    DEF Next, ListStep, Ending, Recording, Sending

\* What distributing promises is kept: a message's file disappears only after
\* every steady reader has received it, whatever the size of the batches and the
\* number of children, as long as no process has died, or the process sends by
\* itself and nobody leaves the list.
THEOREM DeliveryPromise == Spec => PromiseKept
<1>1. DInit => DeliveryInv
  BY DeliveryInvInit
<1>2. DeliveryInv /\ [Next]_dvars => DeliveryInv'
  BY DeliveryInvStep
<1>3. DInit => Promise!Init
  BY PromiseInit
<1>4. DeliveryInv /\ [Next]_dvars => [Promise!Next \/ ~Sound]_<<posted, Got, Closed>>
  BY PromiseStep
<1>5. QED
  BY <1>1, <1>2, <1>3, <1>4, PTL DEF Spec, PromiseKept

=============================================================================

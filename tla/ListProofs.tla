----------------------------- MODULE ListProofs -----------------------------
(***************************************************************************)
(* Theorems about a list process and its files: about MboxIntake, for any  *)
(* set of messages and any number of crashes and failed opens; and, in the *)
(* second part, about Digest, for any number of messages, any size of a    *)
(* digest and any number of deaths.                                        *)
(***************************************************************************)
EXTENDS MboxIntake, Digest, SequenceTheorems, FiniteSetTheorems, FunctionTheorems, TLAPS

-----------------------------------------------------------------------------
(* Types *)

\* TypeOK in the parts that steps change together.
DataType ==
  /\ mail \in Seq(Messages) /\ work \in FileOf(Messages)
  /\ num \in Nat \cup {NoFile, Torn} /\ count \in Nat /\ pos \in Nat /\ mnum \in Int
  /\ archive \in Seq(Messages) /\ handled \in Seq(Messages) /\ arrived \in Seq(Messages)
ExtractedType == DOMAIN extracted \subseteq Int /\ Range(extracted) \subseteq Messages
PlaceType ==
  /\ pc \in PCs /\ pass \in {"leftover", "new"}
  /\ pc \in Handling \cup {"open", "next"} => work # NoFile
  /\ pc \in {"rename", "uncount"} => work = NoFile
  /\ pc = "next" => pos <= Len(work)
  /\ pc \in Handling => pos \in DOMAIN work /\ cur = work[pos]
  /\ pc \notin Handling => cur = None
FaultType ==
  /\ faults \in 0 .. MaxFaults /\ hit \in [Windows -> Nat]
  /\ \A w \in Windows : hit[w] <= faults

LEMMA Parts == TypeOK <=> DataType /\ ExtractedType /\ PlaceType /\ FaultType
  BY DEF TypeOK, DataType, ExtractedType, PlaceType, FaultType

LEMMA PartsNext == TypeOK' <=> DataType' /\ ExtractedType' /\ PlaceType' /\ FaultType'
  BY DEF TypeOK, DataType, ExtractedType, PlaceType, FaultType

\* The work file is a sequence while it is read.
LEMMA WorkIsFile ==
    ASSUME TypeOK, work # NoFile
    PROVE  work \in Seq(Messages) /\ Len(work) \in Nat /\ DOMAIN work = 1 .. Len(work)
  BY DEF TypeOK, FileOf

LEMMA SkippedType ==
    ASSUME NEW n \in Int, NEW f \in Seq(Messages)
    PROVE  Skipped(n, f) \in 0 .. Len(f)
  BY DEF Skipped

LEMMA ReadingType ==
    ASSUME TypeOK, NEW n \in CounterReadings
    PROVE  n \in Int
<1>1. Cardinality(Messages) \in Int
  BY IntakeAssumption, FS_CardinalityType
<1> QED
  BY <1>1 DEF CounterReadings, TypeOK

LEMMA DataStep ==
    ASSUME TypeOK, [Next]_vars
    PROVE  DataType'
<1>0. DataType /\ PlaceType
  BY Parts
<1>1. ASSUME NEW m \in Messages, AppendMessage(m) PROVE DataType'
  BY <1>0, <1>1 DEF AppendMessage, DataType, effects, local
<1>2. CASE Start
  BY <1>0, <1>2 DEF Start, DataType, effects, local, files
<1>3. CASE CheckLeftover
  BY <1>0, <1>3 DEF CheckLeftover, DataType, effects, files
<1>4. CASE CheckMail
  BY <1>0, <1>4 DEF CheckMail, DataType, effects, local, FileOf
<1>5. CASE RenameMail
  BY <1>0, <1>5 DEF RenameMail, DataType, effects, FileOf
<1>6. CASE MbOpen
  <2>1. PICK n \in CounterReadings : mnum' = n /\ pos' = Skipped(n, work)
    BY <1>6 DEF MbOpen
  <2>2. work \in Seq(Messages) /\ n \in Int
    BY <1>6, ReadingType, WorkIsFile DEF MbOpen, TypeOK
  <2>3. pos' \in Nat /\ mnum' \in Int
    BY <2>1, <2>2, SkippedType
  <2>4. UNCHANGED <<mail, work, num, count, archive, handled, arrived>>
    BY <1>6 DEF MbOpen, files, effects
  <2> QED
    BY <1>0, <2>3, <2>4 DEF DataType
<1>7. CASE MbOpenFails
  BY <1>0, <1>7 DEF MbOpenFails, DataType, effects, local, files
<1>8. CASE Extract
  BY <1>0, <1>8 DEF Extract, DataType, effects
<1>9. CASE TruncateCounter
  <2>1. count' \in Nat
    BY <1>0, <1>9 DEF TruncateCounter, Incremented, DataType
  <2> QED
    BY <1>0, <1>9, <2>1 DEF TruncateCounter, DataType, effects
<1>10. CASE WriteCounter
  BY <1>0, <1>10 DEF WriteCounter, DataType, effects, local
<1>11. CASE Process
  <2>1. cur \in Messages
    BY <1>11, WorkIsFile DEF Process, TypeOK, Handling
  <2> QED
    BY <1>0, <1>11, <2>1 DEF Process, DataType, files, local
<1>12. CASE Dispose
  <2>1. cur \in Messages
    BY <1>12, WorkIsFile DEF Dispose, TypeOK, Handling
  <2> QED
    BY <1>0, <1>12, <2>1 DEF Dispose, DataType, files, local
<1>13. CASE UnlinkMessage
  BY <1>0, <1>13 DEF UnlinkMessage, DataType, effects
<1>14. CASE MbClose
  BY <1>0, <1>14 DEF MbClose, DataType, effects, local, FileOf
<1>15. CASE RemoveCounter
  BY <1>0, <1>15 DEF RemoveCounter, DataType, effects, local
<1>16. CASE Crash
  BY <1>0, <1>16 DEF Crash, DataType, effects, files
<1>17. CASE UNCHANGED vars
  BY <1>0, <1>17 DEF vars, DataType, effects, local, files, history
<1> QED
  BY <1>1, <1>2, <1>3, <1>4, <1>5, <1>6, <1>7, <1>8, <1>9, <1>10, <1>11, <1>12, <1>13, <1>14,
     <1>15, <1>16, <1>17 DEF Next, ListStep

LEMMA PlaceStep ==
    ASSUME TypeOK, [Next]_vars
    PROVE  PlaceType'
<1>0. DataType /\ PlaceType
  BY Parts
<1> USE DEF PCs, Handling
<1>1. ASSUME NEW m \in Messages, AppendMessage(m) PROVE PlaceType'
  BY <1>0, <1>1 DEF AppendMessage, PlaceType, local
<1>2. CASE Start
  BY <1>0, <1>2 DEF Start, PlaceType, Running, local, files
<1>3. CASE CheckLeftover
  BY <1>0, <1>3 DEF CheckLeftover, PlaceType, files
<1>4. CASE CheckMail
  BY <1>0, <1>4 DEF CheckMail, PlaceType, local
<1>5. CASE RenameMail
  <2>1. work' # NoFile
    BY <1>0, <1>5, IntakeAssumption DEF RenameMail, DataType
  <2> QED
    BY <1>0, <1>5, <2>1 DEF RenameMail, PlaceType
<1>6. CASE MbOpen
  <2>1. PICK n \in CounterReadings : pos' = Skipped(n, work)
    BY <1>6 DEF MbOpen
  <2>2. work # NoFile /\ work \in Seq(Messages) /\ n \in Int
    BY <1>6, ReadingType, WorkIsFile DEF MbOpen, TypeOK
  <2>3. pos' \in 0 .. Len(work) /\ Len(work) \in Nat
    BY <2>1, <2>2, SkippedType
  <2>4. UNCHANGED <<work, pass, cur>> /\ pc' = "next" /\ cur = None
    BY <1>0, <1>6 DEF MbOpen, files, PlaceType
  <2> QED
    BY <1>0, <2>2, <2>3, <2>4 DEF PlaceType
<1>7. CASE MbOpenFails
  BY <1>0, <1>7 DEF MbOpenFails, AfterMbox, PlaceType, local, files
<1>8. CASE Extract
  <2>1. work # NoFile /\ work \in Seq(Messages) /\ Len(work) \in Nat
    BY <1>8, WorkIsFile DEF Extract, TypeOK
  <2>2. pos' \in DOMAIN work /\ cur' = work[pos']
    BY <1>0, <1>8, <2>1 DEF Extract, DataType
  <2> QED
    BY <1>0, <1>8, <2>1, <2>2 DEF Extract, PlaceType
<1>9. CASE TruncateCounter
  BY <1>0, <1>9 DEF TruncateCounter, PlaceType
<1>10. CASE WriteCounter
  BY <1>0, <1>10 DEF WriteCounter, PlaceType, local
<1>11. CASE Process
  BY <1>0, <1>11 DEF Process, PlaceType, local, files
<1>12. CASE Dispose
  BY <1>0, <1>12 DEF Dispose, PlaceType, local, files
<1>13. CASE UnlinkMessage
  <2>1. pos <= Len(work)
    BY <1>13, WorkIsFile DEF UnlinkMessage, TypeOK
  <2> QED
    BY <1>0, <1>13, <2>1 DEF UnlinkMessage, PlaceType
<1>14. CASE MbClose
  BY <1>0, <1>14 DEF MbClose, PlaceType, local
<1>15. CASE RemoveCounter
  BY <1>0, <1>15 DEF RemoveCounter, AfterMbox, PlaceType, local
<1>16. CASE Crash
  BY <1>0, <1>16 DEF Crash, PlaceType, files
<1>17. CASE UNCHANGED vars
  BY <1>0, <1>17 DEF vars, PlaceType, local, files
<1> QED
  BY <1>1, <1>2, <1>3, <1>4, <1>5, <1>6, <1>7, <1>8, <1>9, <1>10, <1>11, <1>12, <1>13, <1>14,
     <1>15, <1>16, <1>17 DEF Next, ListStep

LEMMA ExtractedStep ==
    ASSUME TypeOK, [Next]_vars
    PROVE  ExtractedType'
<1>0. ExtractedType
  BY Parts
<1>1. CASE UNCHANGED extracted
  BY <1>0, <1>1 DEF ExtractedType
<1>2. CASE Extract
  <2>1. work[pos + 1] \in Messages /\ mnum \in Int
    BY <1>2, WorkIsFile DEF Extract, TypeOK
  <2> QED
    BY <1>0, <1>2, <2>1 DEF Extract, ExtractedType, Range
<1>3. CASE UnlinkMessage
  BY <1>0, <1>3 DEF UnlinkMessage, ExtractedType, Range
<1>4. ASSUME NEW m \in Messages, AppendMessage(m) PROVE UNCHANGED extracted
  BY <1>4 DEF AppendMessage
<1>5. CASE Start \/ CheckLeftover \/ CheckMail \/ RenameMail \/ MbOpen \/ MbOpenFails
            \/ TruncateCounter \/ WriteCounter \/ Process \/ Dispose \/ MbClose \/ RemoveCounter \/ Crash
  BY <1>1, <1>5 DEF Start, CheckLeftover, CheckMail, RenameMail, MbOpen, MbOpenFails,
     TruncateCounter, WriteCounter, Process, Dispose, MbClose, RemoveCounter, Crash, files
<1>6. CASE UNCHANGED vars
  BY <1>1, <1>6 DEF vars, files
<1> QED
  BY <1>1, <1>2, <1>3, <1>4, <1>5, <1>6 DEF Next, ListStep

LEMMA FaultStep ==
    ASSUME TypeOK, [Next]_vars
    PROVE  FaultType'
<1>0. FaultType
  BY Parts
<1>1. CASE Calm
  BY <1>0, <1>1 DEF FaultType, Calm
<1>2. ASSUME NEW w, Fault(w) PROVE FaultType'
  <2>1. faults' = faults + 1 /\ faults' \in 0 .. MaxFaults /\ faults \in Nat
    BY <1>0, <1>2, IntakeAssumption DEF FaultType, Fault
  <2>2. hit' = hit \/ (w \in Windows /\ hit' = [hit EXCEPT ![w] = @ + 1])
    BY <1>2 DEF Fault
  <2>3. hit' \in [Windows -> Nat] /\ \A v \in Windows : hit'[v] <= hit[v] + 1 /\ hit[v] \in Nat
    BY <1>0, <2>2 DEF FaultType
  <2>4. \A v \in Windows : hit'[v] <= faults'
    BY <1>0, <2>1, <2>3 DEF FaultType
  <2> QED
    BY <2>1, <2>3, <2>4 DEF FaultType
<1>3. ASSUME NEW m \in Messages, AppendMessage(m) PROVE Calm
  BY <1>3 DEF AppendMessage
<1>4. CASE Start \/ ListStep
  BY <1>1, <1>4 DEF Start, ListStep, CheckLeftover, CheckMail, RenameMail, MbOpen, Extract,
     TruncateCounter, WriteCounter, Process, Dispose, UnlinkMessage, MbClose, RemoveCounter
<1>5. CASE MbOpenFails \/ Crash
  BY <1>2, <1>5 DEF MbOpenFails, Crash
<1>6. CASE UNCHANGED vars
  BY <1>1, <1>6 DEF vars, history, Calm
<1> QED
  BY <1>1, <1>3, <1>4, <1>5, <1>6 DEF Next

LEMMA TypingInit == Init => TypeOK
<1> SUFFICES ASSUME Init PROVE TypeOK
  OBVIOUS
<1>1. DataType
  BY DEF Init, DataType, FileOf
<1>2. ExtractedType
  BY DEF Init, ExtractedType, Range
<1>3. PlaceType
  BY DEF Init, PlaceType, PCs, Handling
<1>4. FaultType
  BY IntakeAssumption DEF Init, FaultType
<1> QED
  BY <1>1, <1>2, <1>3, <1>4, Parts

LEMMA TypingStep == TypeOK /\ [Next]_vars => TypeOK'
  BY DataStep, ExtractedStep, PlaceStep, FaultStep, PartsNext

\* The types, and where in its file the process is.
THEOREM IntakeTyping == Spec => []TypeOK
  BY TypingInit, TypingStep, PTL DEF Spec

-----------------------------------------------------------------------------
(* Order *)

\* The number the counter file stands for.
Number == IF num = NoFile THEN 0 ELSE num

\* What the counter file says of the position while a file is read.
CounterOK ==
  /\ num = Torn => pc = "write"
  /\ pc = "next" => pos = Skipped(Number, work)
  /\ pc = "truncate" => pos = Number + 1
  /\ pc = "write" => pos = count
  /\ pc \in {"process", "dispose", "unlink"} => num = pos

\* How many messages of the work file cannot be handed on any more.
Past ==
  CASE pc \in {"truncate", "write", "process"} -> pos - 1
    [] pc \in {"dispose", "unlink", "next"} -> pos
    [] OTHER -> Skipped(Number, work)

InOrder(s) == \A i, j \in DOMAIN s : i < j => Before(s[i], s[j])

\* What was handed on, the rest of the work file and the mailbox hold messages
\* in their order of arrival, one after the other.
MailOrder ==
  /\ InOrder(archive) /\ InOrder(mail)
  /\ \A x \in Range(archive), y \in Range(mail) : Before(x, y)
  /\ Range(archive) \subseteq Range(arrived)
  /\ Range(mail) \subseteq Range(arrived)
WorkOrder ==
  work # NoFile =>
    /\ InOrder(work) /\ Range(work) \subseteq Range(arrived)
    /\ \A x \in Range(work), y \in Range(mail) : Before(x, y)
    /\ \A x \in Range(archive), k \in DOMAIN work : k > Past => Before(x, work[k])

OrderInv == hit["torn"] = 0 => CounterOK /\ MailOrder /\ WorkOrder

\* A disturbance is counted in its window, and no count goes down.
LEMMA Hits ==
    ASSUME TypeOK, [Next]_vars
    PROVE  /\ \A w \in Windows : hit[w] \in Nat /\ hit'[w] \in Nat /\ hit'[w] >= hit[w]
           /\ Crash => \A w \in Windows : w = WindowAt => hit'[w] = hit[w] + 1
           /\ MbOpenFails => hit'["unopened"] = hit["unopened"] + 1
<1>0. hit \in [Windows -> Nat]
  BY DEF TypeOK
<1>1. \A w : Fault(w) => /\ \A v \in Windows : hit'[v] = hit[v] + (IF v = w THEN 1 ELSE 0)
  BY <1>0 DEF Fault
<1>2. CASE Calm
  <2>1. ~ Crash /\ ~ MbOpenFails
    BY <1>2 DEF Calm, Crash, MbOpenFails, Fault, TypeOK
  <2> QED
    BY <1>0, <1>2, <2>1 DEF Calm
<1>3. ASSUME NEW m \in Messages, AppendMessage(m) PROVE Calm
  BY <1>3 DEF AppendMessage
<1>4. CASE Start \/ ListStep
  BY <1>2, <1>4 DEF Start, ListStep, CheckLeftover, CheckMail, RenameMail, MbOpen, Extract,
     TruncateCounter, WriteCounter, Process, Dispose, UnlinkMessage, MbClose, RemoveCounter
<1>5. CASE MbOpenFails
  <2>1. \A v \in Windows : hit'[v] = hit[v] + (IF v = "unopened" THEN 1 ELSE 0)
    BY <1>1, <1>5 DEF MbOpenFails
  <2>2. ~ Crash
    <3>1. Crash => hit' = hit
      BY <1>5 DEF MbOpenFails, Crash, Fault, WindowAt, Windows
    <3> QED
      BY <1>0, <2>1, <3>1 DEF Windows
  <2> QED
    BY <1>0, <2>1, <2>2 DEF Windows
<1>6. CASE Crash
  <2>1. \A v \in Windows : hit'[v] = hit[v] + (IF v = WindowAt THEN 1 ELSE 0)
    BY <1>1, <1>6 DEF Crash
  <2>2. ~ MbOpenFails \/ hit'["unopened"] = hit["unopened"] + 1
    <3>1. MbOpenFails => \A v \in Windows : hit'[v] = hit[v] + (IF v = "unopened" THEN 1 ELSE 0)
      BY <1>1 DEF MbOpenFails
    <3> QED
      BY <1>0, <3>1 DEF Windows
  <2> QED
    BY <1>0, <2>1, <2>2
<1>7. CASE UNCHANGED vars
  BY <1>2, <1>7 DEF vars, history, Calm
<1> QED
  BY <1>2, <1>3, <1>4, <1>5, <1>6, <1>7 DEF Next

LEMMA NumberType ==
    ASSUME TypeOK, CounterOK, pc # "write"
    PROVE  Number \in Nat /\ num # Torn /\ CounterReadings = {Number}
  BY IntakeAssumption DEF TypeOK, CounterOK, Number, CounterReadings

LEMMA CounterStep ==
    ASSUME TypeOK, CounterOK, [Next]_vars, Crash => pc # "write"
    PROVE  CounterOK'
<1>0. DataType /\ PlaceType
  BY Parts
<1>1. ASSUME NEW m \in Messages, AppendMessage(m) PROVE CounterOK'
  BY <1>1 DEF AppendMessage, CounterOK, Number, local
<1>2. CASE Start
  BY <1>2 DEF Start, CounterOK, Running, local, files
<1>3. CASE CheckLeftover
  BY <1>3 DEF CheckLeftover, CounterOK, files
<1>4. CASE CheckMail
  BY <1>4 DEF CheckMail, CounterOK, local
<1>5. CASE RenameMail
  BY <1>5 DEF RenameMail, CounterOK
<1>6. CASE MbOpen
  BY <1>6, NumberType DEF MbOpen, CounterOK, files, Number
<1>7. CASE MbOpenFails
  BY <1>7 DEF MbOpenFails, AfterMbox, CounterOK, local, files
<1>8. CASE Extract
  <2>1. Number \in Nat /\ num # Torn
    BY <1>8, NumberType DEF Extract
  <2>2. pos = Number
    BY <1>0, <1>8, <2>1, WorkIsFile DEF Extract, CounterOK, Skipped, PlaceType
  <2> QED
    BY <1>8, <2>1, <2>2 DEF Extract, CounterOK, Number
<1>9. CASE TruncateCounter
  <2>1. Number \in Nat /\ num # Torn
    BY <1>9, NumberType DEF TruncateCounter
  <2>2. count' = Number + 1
    BY <1>9, <2>1 DEF TruncateCounter, Incremented, Number
  <2> QED
    BY <1>9, <2>2 DEF TruncateCounter, CounterOK
<1>10. CASE WriteCounter
  BY <1>0, <1>10, IntakeAssumption DEF WriteCounter, CounterOK, local, DataType
<1>11. CASE Process
  BY <1>11 DEF Process, CounterOK, local, files
<1>12. CASE Dispose
  BY <1>12 DEF Dispose, CounterOK, local, files
<1>13. CASE UnlinkMessage
  <2>1. num = pos /\ num # Torn /\ pos \in 1 .. Len(work)
    BY <1>0, <1>13, WorkIsFile DEF UnlinkMessage, CounterOK, PlaceType, Handling
  <2>2. Number = pos
    BY <2>1, IntakeAssumption DEF Number
  <2>3. Len(work) \in Nat
    BY <1>0, <1>13, WorkIsFile DEF UnlinkMessage, PlaceType, Handling
  <2>4. pos = Skipped(Number, work)
    BY <2>1, <2>2, <2>3 DEF Skipped
  <2> QED
    BY <1>13, <2>1, <2>4 DEF UnlinkMessage, CounterOK, Number
<1>14. CASE MbClose
  BY <1>14 DEF MbClose, CounterOK, local
<1>15. CASE RemoveCounter
  BY <1>15, IntakeAssumption DEF RemoveCounter, AfterMbox, CounterOK, local
<1>16. CASE Crash
  BY <1>16 DEF Crash, CounterOK, files
<1>17. CASE UNCHANGED vars
  BY <1>17 DEF vars, CounterOK, Number, local, files
<1> QED
  BY <1>1, <1>2, <1>3, <1>4, <1>5, <1>6, <1>7, <1>8, <1>9, <1>10, <1>11, <1>12, <1>13, <1>14,
     <1>15, <1>16, <1>17 DEF Next, ListStep

\* Past never goes down while the same work file is there.
LEMMA PastGrows ==
    ASSUME TypeOK, CounterOK, [Next]_vars, Crash => pc # "write",
           work' = work, work # NoFile
    PROVE  Past \in Int /\ Past' \in Int /\ Past' >= Past
<1>0. DataType /\ PlaceType
  BY Parts
<1>1. work \in Seq(Messages) /\ Len(work) \in Nat /\ pos \in Int
  BY <1>0, WorkIsFile DEF DataType
<1>2. pc \in Handling => pos \in 1 .. Len(work)
  BY <1>0, WorkIsFile DEF PlaceType
<1>3. pc # "write" => Number \in Nat /\ Skipped(Number, work) \in Int
  BY <1>1, NumberType, SkippedType
<1>4. Past \in Int
  BY <1>1, <1>3 DEF Past
<1>5. UNCHANGED <<Past>> => Past' \in Int /\ Past' >= Past
  BY <1>4
<1>6. ASSUME NEW m \in Messages, AppendMessage(m) PROVE UNCHANGED <<Past>>
  BY <1>6 DEF AppendMessage, Past, Number, local
<1>7. CASE Start
  BY <1>5, <1>7 DEF Start, Past, Number, Running, local, files
<1>8. CASE CheckLeftover
  BY <1>5, <1>8 DEF CheckLeftover, Past, Number, files
<1>9. CASE CheckMail
  BY <1>5, <1>9 DEF CheckMail, Past, Number, local
<1>10. CASE RenameMail
  BY <1>0, <1>10 DEF RenameMail, PlaceType
<1>11. CASE MbOpen
  <2>1. pos' = Skipped(Number, work) /\ pc' = "next" /\ pc = "open"
    BY <1>11, NumberType DEF MbOpen
  <2> QED
    BY <1>3, <2>1 DEF Past
<1>12. CASE MbOpenFails
  BY <1>5, <1>12 DEF MbOpenFails, AfterMbox, Past, Number, local, files
<1>13. CASE Extract
  BY <1>1, <1>13 DEF Extract, Past
<1>14. CASE TruncateCounter
  BY <1>1, <1>14 DEF TruncateCounter, Past
<1>15. CASE WriteCounter
  BY <1>1, <1>15 DEF WriteCounter, Past, local
<1>16. CASE Process
  BY <1>1, <1>16 DEF Process, Past, local
<1>17. CASE Dispose
  BY <1>1, <1>17 DEF Dispose, Past, local
<1>18. CASE UnlinkMessage
  BY <1>1, <1>18 DEF UnlinkMessage, Past
<1>19. CASE MbClose
  BY <1>0, <1>19 DEF MbClose, PlaceType
<1>20. CASE RemoveCounter
  BY <1>0, <1>20 DEF RemoveCounter, PlaceType
<1>21. CASE Crash
  <2>1. pc' = "down" /\ UNCHANGED <<num, work>>
    BY <1>21 DEF Crash, files
  <2>2. Past' = Skipped(Number, work)
    BY <2>1 DEF Past, Number
  <2>3. pc # "write" /\ Number \in Nat
    BY <1>3, <1>21
  <2>4. pc \in {"process", "dispose", "unlink"} => Number = pos
    BY <1>2, <2>3, IntakeAssumption DEF CounterOK, Number, Handling
  <2>5. pc = "truncate" => Number = pos - 1
    BY <1>1, <2>3 DEF CounterOK
  <2>6. pc \in Handling => Skipped(Number, work) = Number
    <3>1. pc \in Handling => Number \in 0 .. Len(work)
      BY <1>1, <1>2, <2>3, <2>4, <2>5 DEF Handling
    <3> QED
      BY <1>1, <3>1 DEF Skipped
  <2>7. CASE pc \in Handling
    BY <1>1, <2>2, <2>3, <2>4, <2>5, <2>6, <2>7 DEF Handling, Past
  <2>8. CASE pc = "next"
    BY <1>1, <2>2, <2>8 DEF Past, CounterOK
  <2>9. CASE pc \notin Handling \cup {"next"}
    BY <1>3, <2>2, <2>3, <2>9 DEF Past, Handling
  <2> QED
    BY <2>7, <2>8, <2>9
<1>22. CASE UNCHANGED vars
  BY <1>5, <1>22 DEF vars, Past, Number, local, files
<1> QED
  BY <1>5, <1>6, <1>7, <1>8, <1>9, <1>10, <1>11, <1>12, <1>13, <1>14, <1>15, <1>16, <1>17, <1>18,
     <1>19, <1>20, <1>21, <1>22 DEF Next, ListStep

\* A message that arrives is behind all the others and moves none of them.
LEMMA Arrival ==
    ASSUME TypeOK, NEW m \in Messages, arrived' = Append(arrived, m)
    PROVE  /\ \A x, y : Before(x, y) => Before(x, y)'
           /\ \A x \in Range(arrived) : Before(x, m)'
           /\ Range(arrived') = Range(arrived) \cup {m}
<1>1. arrived \in Seq(Messages) /\ Len(arrived) \in Nat
  BY DEF TypeOK
<1>2. DOMAIN arrived = 1 .. Len(arrived) /\ DOMAIN arrived' = 1 .. (Len(arrived) + 1)
  BY <1>1
<1>3. /\ \A k \in DOMAIN arrived : k \in DOMAIN arrived' /\ arrived'[k] = arrived[k] /\ k < Len(arrived) + 1
      /\ Len(arrived) + 1 \in DOMAIN arrived' /\ arrived'[Len(arrived) + 1] = m
  BY <1>1, <1>2
<1>4. \A x, y : Before(x, y) => Before(x, y)'
  BY <1>3 DEF Before
<1>5. \A x \in Range(arrived) : Before(x, m)'
  BY <1>3 DEF Before, Range
<1>6. Range(arrived') = Range(arrived) \cup {m}
  BY <1>2, <1>3 DEF Range
<1> QED
  BY <1>4, <1>5, <1>6

\* A sequence in order that is extended by a message behind all of its own.
LEMMA OrderExtended ==
    ASSUME NEW s \in Seq(Messages), NEW m \in Messages, InOrder(s),
           \A x \in Range(s) : Before(x, m)
    PROVE  InOrder(Append(s, m)) /\ Range(Append(s, m)) = Range(s) \cup {m}
<1>1. Len(s) \in Nat /\ DOMAIN s = 1 .. Len(s) /\ DOMAIN Append(s, m) = 1 .. (Len(s) + 1)
  OBVIOUS
<1>2. /\ \A k \in DOMAIN s : Append(s, m)[k] = s[k] /\ s[k] \in Range(s)
      /\ Append(s, m)[Len(s) + 1] = m
  BY <1>1 DEF Range
<1>3. InOrder(Append(s, m))
  <2> SUFFICES ASSUME NEW i \in DOMAIN Append(s, m), NEW j \in DOMAIN Append(s, m), i < j
               PROVE  Before(Append(s, m)[i], Append(s, m)[j])
    BY DEF InOrder
  <2>1. i \in DOMAIN s
    BY <1>1
  <2>2. CASE j \in DOMAIN s
    BY <1>2, <2>1, <2>2 DEF InOrder
  <2>3. CASE j = Len(s) + 1
    BY <1>2, <2>1, <2>3
  <2> QED
    BY <1>1, <2>2, <2>3
<1>4. Range(Append(s, m)) = Range(s) \cup {m}
  BY <1>1, <1>2 DEF Range
<1> QED
  BY <1>3, <1>4

\* Nothing is out of order while no sequence changes.
LEMMA OrderFrame ==
    ASSUME MailOrder, UNCHANGED <<arrived, mail, archive>>
    PROVE  MailOrder'
  BY DEF MailOrder, InOrder, Before

LEMMA WorkFrame ==
    ASSUME WorkOrder, UNCHANGED <<arrived, mail, archive, work>>, TypeOK,
           work # NoFile => Past \in Int /\ Past' \in Int /\ Past' >= Past
    PROVE  WorkOrder'
<1>1. UNCHANGED <<arrived, mail, archive, work>>
  OBVIOUS
<1>2. work # NoFile => \A k \in DOMAIN work : k \in Int /\ (k > Past' => k > Past)
  BY WorkIsFile
<1>3. \A x, y : Before(x, y) <=> Before(x, y)'
  BY <1>1 DEF Before
<1>4. work # NoFile => (\A x \in Range(archive), k \in DOMAIN work : k > Past' => Before(x, work[k]))
  BY <1>2 DEF WorkOrder
<1>5. InOrder(work) => InOrder(work)'
  BY <1>1, <1>3 DEF InOrder
<1> QED
  BY <1>1, <1>3, <1>4, <1>5 DEF WorkOrder

LEMMA MailArrives ==
    ASSUME TypeOK, MailOrder, NEW m \in Messages,
           arrived' = Append(arrived, m), mail' = Append(mail, m)
    PROVE  InOrder(mail)' /\ Range(mail') = Range(mail) \cup {m}
<1>1. mail \in Seq(Messages) /\ Len(mail) \in Nat
  BY DEF TypeOK
<1>2. DOMAIN mail = 1 .. Len(mail) /\ DOMAIN mail' = 1 .. (Len(mail) + 1)
  BY <1>1
<1>3. /\ \A k \in DOMAIN mail : mail'[k] = mail[k] /\ mail[k] \in Range(mail)
      /\ mail'[Len(mail) + 1] = m
  BY <1>1, <1>2 DEF Range
<1>4. \A k \in DOMAIN mail : mail[k] \in Range(arrived)
  BY <1>3 DEF MailOrder
<1>5. ASSUME NEW i \in DOMAIN mail', NEW j \in DOMAIN mail', i < j
      PROVE  Before(mail[i], mail[j])'
  <2>1. i \in DOMAIN mail
    BY <1>1, <1>2, <1>5
  <2>2. CASE j \in DOMAIN mail
    <3>1. Before(mail[i], mail[j])
      BY <1>5, <2>1, <2>2 DEF MailOrder, InOrder
    <3>2. ASSUME NEW x, NEW y, Before(x, y), mail'[i] = x, mail'[j] = y
          PROVE  Before(mail[i], mail[j])'
      <4>1. Before(x, y)'
        BY <3>2, Arrival
      <4> QED
        BY <3>2, <4>1 DEF Before
    <3> QED
      BY <1>3, <2>1, <2>2, <3>1, <3>2
  <2>3. CASE j = Len(mail) + 1
    <3>1. \A x \in Range(arrived) : Before(x, m)'
      BY Arrival
    <3> QED
      BY <1>3, <1>4, <2>1, <2>3, <3>1 DEF Before
  <2> QED
    BY <1>1, <1>2, <2>2, <2>3
<1>6. Range(mail') = Range(mail) \cup {m}
  BY <1>2, <1>3 DEF Range
<1> QED
  BY <1>5, <1>6 DEF InOrder

LEMMA OrderArrival ==
    ASSUME TypeOK, MailOrder, WorkOrder, NEW m \in Messages, AppendMessage(m)
    PROVE  MailOrder' /\ WorkOrder'
<1>1. arrived' = Append(arrived, m) /\ mail' = Append(mail, m) /\ UNCHANGED <<archive, work, Past>>
  BY DEF AppendMessage, effects, local, Past, Number
<1>2. \A x, y : Before(x, y) => Before(x, y)'
  BY <1>1, Arrival
<1>3. \A x \in Range(arrived) : Before(x, m)'
  BY <1>1, Arrival
<1>4. Range(arrived') = Range(arrived) \cup {m}
  BY <1>1, Arrival
<1>5. InOrder(mail)' /\ Range(mail') = Range(mail) \cup {m}
  BY <1>1, MailArrives
<1>6. InOrder(archive)'
  BY <1>1, <1>2 DEF MailOrder, InOrder, Before
<1>7. ASSUME NEW x \in Range(archive), NEW y \in Range(mail')
      PROVE  Before(x, y)'
  <2>1. x \in Range(arrived)
    BY DEF MailOrder
  <2> QED
    BY <1>2, <1>3, <1>5, <2>1 DEF MailOrder
<1>8. MailOrder'
  BY <1>1, <1>4, <1>5, <1>6, <1>7 DEF MailOrder
<1>9. WorkOrder'
  <2> SUFFICES ASSUME work # NoFile
               PROVE  /\ InOrder(work)' /\ Range(work) \subseteq Range(arrived')
                      /\ \A x \in Range(work), y \in Range(mail') : Before(x, y)'
                      /\ \A x \in Range(archive), k \in DOMAIN work : k > Past => Before(x, work[k])'
    BY <1>1 DEF WorkOrder
  <2>1. InOrder(work)'
    BY <1>1, <1>2 DEF WorkOrder, InOrder, Before
  <2>2. Range(work) \subseteq Range(arrived)
    BY DEF WorkOrder
  <2>3. \A x \in Range(work), y \in Range(mail') : Before(x, y)'
    BY <1>2, <1>3, <1>5, <2>2 DEF WorkOrder
  <2>4. \A x \in Range(archive), k \in DOMAIN work : k > Past => Before(x, work[k])'
    BY <1>1, <1>2 DEF WorkOrder, Before
  <2> QED
    BY <1>4, <2>1, <2>2, <2>3, <2>4
<1> QED
  BY <1>8, <1>9

LEMMA OrderRename ==
    ASSUME TypeOK, TypeOK', MailOrder, RenameMail
    PROVE  MailOrder' /\ WorkOrder'
<1>1. work' = mail /\ mail' = <<>> /\ UNCHANGED <<archive, arrived>> /\ mail \in Seq(Messages)
  BY DEF RenameMail, TypeOK, effects
<1>2. \A x, y : Before(x, y)' <=> Before(x, y)
  BY <1>1 DEF Before
<1>3. Range(mail') = {} /\ DOMAIN mail' = {}
  BY <1>1 DEF Range
<1>4. MailOrder'
  BY <1>1, <1>2, <1>3 DEF MailOrder, InOrder
<1>5. \A x \in Range(archive), k \in DOMAIN mail : Before(x, mail[k])
  BY DEF MailOrder, Range
<1>6. InOrder(work)' /\ Range(work') \subseteq Range(arrived)
  BY <1>1, <1>2 DEF MailOrder, InOrder
<1>7. \A x \in Range(archive'), k \in DOMAIN work' : Before(x, work[k])'
  BY <1>1, <1>5 DEF Before
<1> QED
  BY <1>1, <1>3, <1>4, <1>6, <1>7 DEF WorkOrder

LEMMA OrderProcess ==
    ASSUME TypeOK, MailOrder, WorkOrder, Process
    PROVE  MailOrder' /\ WorkOrder'
<1>1. /\ archive' = Append(archive, cur) /\ UNCHANGED <<mail, work, arrived, pos>>
      /\ pc = "process" /\ pc' = "dispose"
  BY DEF Process, files, local
<1>2. work # NoFile /\ pos \in DOMAIN work /\ cur = work[pos] /\ pos \in Nat
  BY <1>1 DEF TypeOK, Handling
<1>3. work \in Seq(Messages) /\ DOMAIN work = 1 .. Len(work) /\ Len(work) \in Nat
  BY <1>2, WorkIsFile
<1>4. cur \in Messages /\ cur \in Range(work)
  BY <1>2, <1>3 DEF Range
<1>5. \A x \in Range(archive) : Before(x, cur)
  BY <1>1, <1>2 DEF WorkOrder, Past
<1>6. InOrder(Append(archive, cur)) /\ Range(Append(archive, cur)) = Range(archive) \cup {cur}
  BY <1>4, <1>5, OrderExtended DEF TypeOK, MailOrder
<1>7. \A x, y : Before(x, y)' <=> Before(x, y)
  BY <1>1 DEF Before
<1>8. \A y \in Range(mail) : Before(cur, y)
  BY <1>2, <1>4 DEF WorkOrder
<1>9. MailOrder'
  <2>1. InOrder(archive)'
    BY <1>1, <1>6 DEF InOrder, Before
  <2>2. InOrder(mail)'
    BY <1>1 DEF InOrder, Before, MailOrder
  <2>3. \A x \in Range(archive'), y \in Range(mail') : Before(x, y)'
    BY <1>1, <1>6, <1>7, <1>8 DEF MailOrder
  <2>4. Range(archive') \subseteq Range(arrived) /\ Range(mail) \subseteq Range(arrived)
    BY <1>1, <1>2, <1>4, <1>6 DEF MailOrder, WorkOrder
  <2> QED
    BY <1>1, <2>1, <2>2, <2>3, <2>4 DEF MailOrder
<1>10. WorkOrder'
  <2>1. ASSUME NEW x \in Range(archive'), NEW k \in DOMAIN work, k > Past'
        PROVE  Before(x, work[k])
    <3>1. k > pos /\ k \in Nat
      BY <1>1, <1>3, <2>1 DEF Past
    <3>2. k > Past
      BY <1>1, <1>2, <3>1 DEF Past
    <3>3. CASE x = cur
      BY <1>2, <3>1, <3>3 DEF WorkOrder, InOrder
    <3>4. CASE x \in Range(archive)
      BY <1>2, <3>2, <3>4 DEF WorkOrder
    <3> QED
      BY <1>1, <1>6, <3>3, <3>4
  <2>2. \A x \in Range(archive'), k \in DOMAIN work' : k > Past' => Before(x, work[k])'
    BY <1>1, <2>1 DEF Before
  <2>3. InOrder(work)' /\ Range(work') \subseteq Range(arrived')
    BY <1>1, <1>2 DEF WorkOrder, InOrder, Before
  <2>4. \A x \in Range(work'), y \in Range(mail') : Before(x, y)'
    BY <1>1, <1>2 DEF WorkOrder, Before
  <2> QED
    BY <2>2, <2>3, <2>4 DEF WorkOrder
<1> QED
  BY <1>9, <1>10

LEMMA OrderStep ==
    ASSUME TypeOK, TypeOK', CounterOK, MailOrder, WorkOrder, [Next]_vars, Crash => pc # "write"
    PROVE  MailOrder' /\ WorkOrder'
<1>1. ASSUME UNCHANGED <<arrived, mail, archive, work>>
      PROVE  MailOrder' /\ WorkOrder'
  BY <1>1, OrderFrame, WorkFrame, PastGrows
<1>2. ASSUME UNCHANGED <<arrived, mail, archive>>, work' = NoFile
      PROVE  MailOrder' /\ WorkOrder'
  BY <1>2, OrderFrame DEF WorkOrder
<1>3. ASSUME NEW m \in Messages, AppendMessage(m) PROVE MailOrder' /\ WorkOrder'
  BY <1>3, OrderArrival
<1>4. CASE RenameMail
  BY <1>4, OrderRename
<1>5. CASE Process
  BY <1>5, OrderProcess
<1>6. CASE CheckMail \/ MbClose
  BY <1>1, <1>2, <1>6 DEF CheckMail, MbClose, effects
<1>7. CASE Start \/ CheckLeftover \/ MbOpen \/ MbOpenFails \/ Extract \/ TruncateCounter
            \/ WriteCounter \/ Dispose \/ UnlinkMessage \/ RemoveCounter \/ Crash
  BY <1>1, <1>7 DEF Start, CheckLeftover, MbOpen, MbOpenFails, Extract, TruncateCounter,
     WriteCounter, Dispose, UnlinkMessage, RemoveCounter, Crash, files, effects
<1>8. CASE UNCHANGED vars
  BY <1>1, <1>8 DEF vars, files, effects, history
<1> QED
  BY <1>3, <1>4, <1>5, <1>6, <1>7, <1>8 DEF Next, ListStep

LEMMA OrderInvInit == Init => OrderInv
<1> SUFFICES ASSUME Init PROVE CounterOK /\ MailOrder /\ WorkOrder
  BY DEF OrderInv
<1>1. CounterOK
  BY IntakeAssumption DEF Init, CounterOK
<1>2. MailOrder
  BY DEF Init, MailOrder, InOrder, Range
<1>3. WorkOrder
  BY DEF Init, WorkOrder
<1> QED
  BY <1>1, <1>2, <1>3

LEMMA OrderInvStep == TypeOK /\ TypeOK' /\ OrderInv /\ [Next]_vars => OrderInv'
<1> SUFFICES ASSUME TypeOK, TypeOK', OrderInv, [Next]_vars, hit'["torn"] = 0
             PROVE  CounterOK' /\ MailOrder' /\ WorkOrder'
  BY DEF OrderInv
<1>1. hit["torn"] = 0
  BY Hits DEF Windows
<1>2. Crash => pc # "write"
  <2>1. pc = "write" => WindowAt = "torn"
    BY DEF WindowAt
  <2> QED
    BY <1>1, <2>1, Hits DEF Windows
<1> QED
  BY <1>1, <1>2, CounterStep, OrderStep DEF OrderInv

-----------------------------------------------------------------------------
(* Loss *)

Smooth == hit["torn"] + hit["stale"] + hit["unopened"] = 0

\* A counter file exists only beside its work file, whatever the process reads
\* next is new, and a message file is removed once its message was handled.
PlaceOK ==
  /\ work = NoFile /\ pc # "uncount" => num = NoFile
  /\ pc = "stat" => work = NoFile
  /\ pc = "unlink" => cur \in Range(handled)

LossInv == Smooth => CounterOK /\ PlaceOK /\ Cardinality(Lost) <= hit["inflight"]

\* The steps that use up none of the windows a loss is excused by.
SmoothStep == ~ MbOpenFails /\ (Crash => pc \notin {"write", "uncount"})

LEMMA SmoothBefore ==
    ASSUME TypeOK, [Next]_vars, Smooth'
    PROVE  Smooth /\ SmoothStep
<1>1. \A w \in Windows : hit[w] \in Nat /\ hit'[w] \in Nat /\ hit'[w] >= hit[w]
  BY Hits
<1>2. \A w \in {"torn", "stale", "unopened"} : hit'[w] = 0 /\ hit[w] = 0
  <2>1. /\ hit["torn"] \in Nat /\ hit["stale"] \in Nat /\ hit["unopened"] \in Nat
        /\ hit'["torn"] \in Nat /\ hit'["stale"] \in Nat /\ hit'["unopened"] \in Nat
    BY <1>1 DEF Windows
  <2>2. hit'["torn"] + hit'["stale"] + hit'["unopened"] = 0
    BY DEF Smooth
  <2>3. hit'["torn"] = 0 /\ hit'["stale"] = 0 /\ hit'["unopened"] = 0
    BY <2>1, <2>2
  <2>4. hit["torn"] = 0 /\ hit["stale"] = 0 /\ hit["unopened"] = 0
    BY <1>1, <2>1, <2>3 DEF Windows
  <2> QED
    BY <2>3, <2>4
<1>3. MbOpenFails => hit'["unopened"] = hit["unopened"] + 1
  BY Hits
<1>4. Crash => \A w \in Windows : w = WindowAt => hit'[w] = hit[w] + 1
  BY Hits
<1>5. (pc = "write" => WindowAt = "torn") /\ (pc = "uncount" => WindowAt = "stale")
  BY DEF WindowAt
<1>6. ~ MbOpenFails
  BY <1>2, <1>3
<1>7. Crash => pc \notin {"write", "uncount"}
  BY <1>2, <1>4, <1>5 DEF Windows
<1> QED
  BY <1>2, <1>6, <1>7 DEF Smooth, SmoothStep

LEMMA PlaceOKStep ==
    ASSUME TypeOK, TypeOK', PlaceOK, [Next]_vars, SmoothStep
    PROVE  PlaceOK'
<1>0. PlaceType /\ PlaceType'
  BY Parts, PartsNext
<1>1. ASSUME NEW m \in Messages, AppendMessage(m) PROVE PlaceOK'
  BY <1>1 DEF AppendMessage, PlaceOK, local, effects
<1>2. CASE Start
  BY <1>2 DEF Start, PlaceOK, Running, local, files, effects
<1>3. CASE CheckLeftover
  BY <1>3 DEF CheckLeftover, PlaceOK, files
<1>4. CASE CheckMail
  BY <1>4 DEF CheckMail, PlaceOK, local
<1>5. CASE RenameMail
  <2>1. work' # NoFile
    BY <1>0, <1>5 DEF RenameMail, PlaceType
  <2> QED
    BY <1>5, <2>1 DEF RenameMail, PlaceOK
<1>6. CASE MbOpen
  BY <1>0, <1>6 DEF MbOpen, PlaceOK, PlaceType, files
<1>7. CASE Extract
  BY <1>0, <1>7 DEF Extract, PlaceOK, PlaceType
<1>8. CASE TruncateCounter
  BY <1>0, <1>8 DEF TruncateCounter, PlaceOK, PlaceType, Handling
<1>9. CASE WriteCounter
  BY <1>0, <1>9 DEF WriteCounter, PlaceOK, PlaceType, Handling, local
<1>10. CASE Process
  BY <1>10 DEF Process, PlaceOK, local, files
<1>11. CASE Dispose
  <2>1. handled \in Seq(Messages) /\ handled' = Append(handled, cur) /\ cur' = cur /\ cur \in Messages
    BY <1>0, <1>11, WorkIsFile DEF Dispose, TypeOK, local, PlaceType, Handling
  <2>2. cur' \in Range(handled')
    <3>1. Len(handled) + 1 \in DOMAIN handled' /\ handled'[Len(handled) + 1] = cur'
      BY <2>1
    <3> QED
      BY <3>1 DEF Range
  <2> QED
    BY <1>11, <2>2 DEF Dispose, PlaceOK, files
<1>12. CASE UnlinkMessage
  BY <1>0, <1>12 DEF UnlinkMessage, PlaceOK, PlaceType, Handling
<1>13. CASE MbClose
  BY <1>13 DEF MbClose, PlaceOK, local
<1>14. CASE RemoveCounter
  BY <1>0, <1>14 DEF RemoveCounter, AfterMbox, PlaceOK, PlaceType
<1>15. CASE Crash
  BY <1>15 DEF Crash, PlaceOK, files, SmoothStep
<1>16. CASE UNCHANGED vars
  BY <1>16 DEF vars, PlaceOK, local, files, effects
<1> QED
  BY <1>1, <1>2, <1>3, <1>4, <1>5, <1>6, <1>7, <1>8, <1>9, <1>10, <1>11, <1>12, <1>13, <1>14,
     <1>15, <1>16 DEF Next, ListStep, SmoothStep

\* What each message that has arrived can still be found in, if it is not lost.
LEMMA LostSubset ==
    ASSUME TypeOK
    PROVE  Lost \subseteq Messages /\ IsFiniteSet(Lost) /\ Cardinality(Lost) \in Nat
<1>1. Range(arrived) \subseteq Messages
  BY DEF TypeOK, Range
<1>2. Lost \subseteq Messages
  BY <1>1 DEF Lost
<1> QED
  BY <1>2, IntakeAssumption, FS_Subset, FS_CardinalityType

\* Where a message that was not lost is found.
Kept == Range(mail) \cup Unread \cup {cur} \cup Range(handled)

\* While a process handles a file, what it has not extracted is unread.
LEMMA UnreadReading ==
    ASSUME pc \in Handling \cup {"next"}, work # NoFile
    PROVE  Unread = From(pos)
  BY DEF Unread, Handling

LEMMA UnreadReadingNext ==
    ASSUME pc' \in Handling \cup {"next"}, work' # NoFile
    PROVE  Unread' = From(pos)'
  BY DEF Unread, Handling

LEMMA KeptCrash ==
    ASSUME TypeOK, CounterOK, PlaceOK, Crash, SmoothStep
    PROVE  Kept \ {None} \subseteq Kept' \cup (IF WindowAt = "inflight" THEN {cur} ELSE {})
<1>0. DataType /\ PlaceType
  BY Parts
<1>1. UNCHANGED <<mail, work, num, handled>> /\ pc' = "down" /\ cur' = None
  BY DEF Crash, files, effects
<1>2. pc \notin {"write", "uncount", "down"}
  BY DEF SmoothStep, Crash, Running
<1>3. Number \in Nat /\ CounterReadings = {Number} /\ CounterReadings' = CounterReadings
  BY <1>1, <1>2, NumberType DEF CounterReadings
<1>4. CASE work = NoFile
  BY <1>0, <1>1, <1>4 DEF Kept, Unread, PlaceType, Handling
<1>5. CASE work # NoFile
  <2>1. Unread' = From(Skipped(Number, work))
    BY <1>1, <1>3, <1>5 DEF Unread, From
  <2>2. Len(work) \in Nat /\ pos \in Nat
    BY <1>0, <1>5, WorkIsFile DEF DataType
  <2>3. pc \in Handling => pos \in 1 .. Len(work) /\ cur = work[pos]
    BY <1>0, <1>5, WorkIsFile DEF PlaceType
  <2>4. CASE pc \in {"leftover", "open"}
    <3>1. Unread = From(Skipped(Number, work)) /\ cur = None
      BY <1>0, <1>3, <1>5, <2>4 DEF Unread, PlaceType, Handling
    <3> QED
      BY <1>1, <2>1, <3>1 DEF Kept
  <2>5. CASE pc = "next"
    BY <1>0, <1>1, <1>5, <2>1, <2>5, UnreadReading DEF Kept, CounterOK, PlaceType, Handling
  <2>6. CASE pc = "truncate"
    <3>1. Number = pos - 1 /\ Skipped(Number, work) = pos - 1
      BY <1>3, <2>2, <2>3, <2>6 DEF CounterOK, Skipped, Handling
    <3>2. From(pos - 1) = From(pos) \cup {cur}
      BY <2>2, <2>3, <2>6 DEF From, Handling
    <3>3. Unread = From(pos)
      BY <1>5, <2>6, UnreadReading DEF Handling
    <3> QED
      BY <1>1, <2>1, <3>1, <3>2, <3>3 DEF Kept
  <2>7. CASE pc \in {"process", "dispose", "unlink"}
    <3>1. Number = pos
      BY <2>2, <2>7, IntakeAssumption DEF CounterOK, Number
    <3>2. Skipped(Number, work) = pos
      BY <2>2, <2>3, <2>7, <3>1 DEF Skipped, Handling
    <3>3. Unread = From(pos)
      BY <1>5, <2>7, UnreadReading DEF Handling
    <3>4. cur \in Range(handled) \/ WindowAt = "inflight"
      BY <2>7 DEF PlaceOK, WindowAt
    <3> QED
      BY <1>1, <2>1, <3>2, <3>3, <3>4 DEF Kept
  <2>8. CASE pc \in {"stat", "rename"}
    BY <1>0, <1>1, <2>8 DEF Kept, Unread, PlaceType, Handling
  <2> QED
    BY <1>0, <1>2, <1>5, <2>4, <2>5, <2>6, <2>7, <2>8 DEF PlaceType, PCs, Handling
<1> QED
  BY <1>4, <1>5

\* No step of the process that is not a disturbance lets go of a message.
LEMMA KeptStep ==
    ASSUME TypeOK, TypeOK', CounterOK, PlaceOK, ListStep \/ Start
    PROVE  Kept \ {None} \subseteq Kept'
<1>0. DataType /\ PlaceType /\ PlaceType' /\ DataType'
  BY Parts, PartsNext
<1>1. CASE Start
  BY <1>0, <1>1 DEF Start, Running, Kept, Unread, From, CounterReadings, PlaceType, Handling, files, effects, local
<1>2. CASE CheckLeftover
  <2>1. UNCHANGED <<mail, work, num, cur, handled>>
    BY <1>2 DEF CheckLeftover, files, effects
  <2>2. Unread' = Unread
    BY <1>2, <2>1 DEF CheckLeftover, Unread, From, CounterReadings
  <2> QED
    BY <2>1, <2>2 DEF Kept
<1>3. CASE CheckMail
  BY <1>3 DEF CheckMail, Kept, Unread, effects, local
<1>4. CASE RenameMail
  <2>1. work = NoFile /\ num = NoFile /\ work' = mail /\ mail \in Seq(Messages) /\ num' = num
    BY <1>0, <1>4 DEF RenameMail, PlaceType, PlaceOK, DataType
  <2>2. Unread = {}
    BY <2>1 DEF Unread
  <2>3. Unread' = From(0)'
    <3>1. work' # NoFile /\ num' = NoFile /\ pc' = "open" /\ Len(work') \in Nat
      BY <1>0, <1>4, <2>1 DEF RenameMail, PlaceType
    <3>2. CounterReadings' = {0} /\ Skipped(0, work)' = 0
      BY <3>1, IntakeAssumption DEF CounterReadings, Skipped
    <3> QED
      BY <3>1, <3>2 DEF Unread, From, Skipped
  <2>4. Range(mail) \subseteq From(0)'
    BY <2>1 DEF From, Range
  <2> QED
    BY <1>4, <2>2, <2>3, <2>4 DEF Kept, RenameMail, effects
<1>5. CASE MbOpen
  <2>1. CounterReadings = {Number} /\ work # NoFile
    BY <1>0, <1>5, NumberType DEF MbOpen, PlaceType
  <2>2. UNCHANGED <<mail, work, cur, handled>> /\ pos' = Skipped(Number, work) /\ pc' = "next"
    BY <1>5, <2>1 DEF MbOpen, files, effects
  <2>3. Unread = From(Skipped(Number, work))
    BY <1>5, <2>1 DEF MbOpen, Unread
  <2>4. Unread' = From(pos)'
    BY <2>1, <2>2, UnreadReadingNext
  <2> QED
    BY <2>2, <2>3, <2>4 DEF Kept, From
<1>6. CASE Extract
  <2>1. work # NoFile /\ pos \in Nat /\ Len(work) \in Nat /\ pos < Len(work) /\ cur = None
    BY <1>0, <1>6, WorkIsFile DEF Extract, PlaceType, DataType, Handling
  <2>2. /\ UNCHANGED <<mail, work, handled>> /\ pos' = pos + 1 /\ cur' = work[pos + 1]
        /\ pc = "next" /\ pc' = "truncate"
    BY <1>6 DEF Extract, effects
  <2>3. Unread = From(pos) /\ Unread' = From(pos)'
    BY <2>1, <2>2, UnreadReading, UnreadReadingNext DEF Handling
  <2>4. From(pos) = From(pos)' \cup {cur'}
    BY <2>1, <2>2 DEF From
  <2> QED
    BY <2>1, <2>2, <2>3, <2>4 DEF Kept
<1>7. CASE TruncateCounter \/ WriteCounter \/ Process
  <2>1. /\ UNCHANGED <<mail, work, handled, pos, cur>>
        /\ pc \in Handling /\ pc' \in Handling
    BY <1>7 DEF TruncateCounter, WriteCounter, Process, effects, files, local, Handling
  <2>2. Unread = From(pos) /\ Unread' = From(pos)'
    BY <1>0, <2>1, UnreadReading, UnreadReadingNext DEF PlaceType
  <2> QED
    BY <2>1, <2>2 DEF Kept, From
<1>8. CASE Dispose
  <2>1. /\ UNCHANGED <<mail, work, pos, cur>> /\ handled' = Append(handled, cur)
        /\ pc \in Handling /\ pc' \in Handling
    BY <1>8 DEF Dispose, files, local, Handling
  <2>2. Unread = From(pos) /\ Unread' = From(pos)'
    BY <1>0, <2>1, UnreadReading, UnreadReadingNext DEF PlaceType
  <2>3. Range(handled) \subseteq Range(handled')
    <3>1. handled \in Seq(Messages) /\ cur \in Messages
      BY <1>0, <2>1, WorkIsFile DEF DataType, PlaceType
    <3> QED
      BY <2>1, <3>1 DEF Range
  <2> QED
    BY <2>1, <2>2, <2>3 DEF Kept, From
<1>9. CASE UnlinkMessage
  <2>1. /\ UNCHANGED <<mail, work, pos, handled>> /\ cur \in Range(handled)
        /\ pc \in Handling /\ pc' = "next"
    BY <1>9 DEF UnlinkMessage, PlaceOK, effects, Handling
  <2>2. Unread = From(pos) /\ Unread' = From(pos)'
    BY <1>0, <2>1, UnreadReading, UnreadReadingNext DEF PlaceType
  <2> QED
    BY <2>1, <2>2 DEF Kept, From
<1>10. CASE MbClose
  <2>1. work # NoFile /\ pos \in Nat /\ Len(work) \in Nat /\ pos >= Len(work)
    BY <1>0, <1>10, WorkIsFile DEF MbClose, PlaceType, DataType
  <2>2. Unread = From(pos) /\ From(pos) = {}
    BY <1>10, <2>1, UnreadReading DEF MbClose, From
  <2> QED
    BY <1>10, <2>2 DEF MbClose, Kept, effects, local
<1>11. CASE RemoveCounter
  <2>1. Unread = {}
    BY <1>0, <1>11 DEF RemoveCounter, PlaceType, Unread
  <2> QED
    BY <1>11, <2>1 DEF RemoveCounter, Kept, effects, local
<1> QED
  BY <1>1, <1>2, <1>3, <1>4, <1>5, <1>6, <1>7, <1>8, <1>9, <1>10, <1>11 DEF ListStep

LEMMA KeptArrival ==
    ASSUME TypeOK, NEW m \in Messages, AppendMessage(m)
    PROVE  Kept \subseteq Kept' /\ m \in Kept'
<1>1. mail \in Seq(Messages) /\ mail' = Append(mail, m)
  BY DEF TypeOK, AppendMessage
<1>2. Range(mail) \subseteq Range(mail') /\ m \in Range(mail')
  <2>1. Len(mail) + 1 \in DOMAIN mail' /\ mail'[Len(mail) + 1] = m
    BY <1>1
  <2> QED
    BY <1>1, <2>1 DEF Range
<1>3. UNCHANGED <<work, num, pc, pos, cur, handled>>
  BY DEF AppendMessage, effects, local
<1>4. Unread' = Unread
  BY <1>3 DEF Unread, From, CounterReadings
<1> QED
  BY <1>2, <1>3, <1>4 DEF Kept

\* Only a crash with a message in hand loses anything, and then that message.
LEMMA LostStep ==
    ASSUME TypeOK, TypeOK', CounterOK, PlaceOK, [Next]_vars, SmoothStep
    PROVE  \/ Lost' \subseteq Lost
           \/ Crash /\ WindowAt = "inflight" /\ Lost' \subseteq Lost \cup {cur}
<1>1. Lost = Range(arrived) \ Kept /\ Lost' = Range(arrived') \ Kept'
  BY DEF Lost, Kept
<1>2. None \notin Range(arrived) /\ None \notin Range(arrived')
  BY IntakeAssumption DEF TypeOK, Range
<1>3. ASSUME NEW m \in Messages, AppendMessage(m) PROVE Lost' \subseteq Lost
  <2>1. Range(arrived') = Range(arrived) \cup {m}
    BY <1>3, Arrival DEF AppendMessage
  <2>2. Kept \subseteq Kept' /\ m \in Kept'
    BY <1>3, KeptArrival
  <2> QED
    BY <1>1, <2>1, <2>2
<1>4. CASE ListStep \/ Start
  <2>1. arrived' = arrived
    BY <1>4 DEF Start, ListStep, CheckLeftover, CheckMail, RenameMail, MbOpen, Extract,
       TruncateCounter, WriteCounter, Process, Dispose, UnlinkMessage, MbClose, RemoveCounter
  <2>2. Kept \ {None} \subseteq Kept'
    BY <1>4, KeptStep
  <2> QED
    BY <1>1, <1>2, <2>1, <2>2
<1>5. CASE Crash
  <2>1. arrived' = arrived
    BY <1>5 DEF Crash
  <2>2. Kept \ {None} \subseteq Kept' \cup (IF WindowAt = "inflight" THEN {cur} ELSE {})
    BY <1>5, KeptCrash
  <2> QED
    BY <1>1, <1>2, <1>5, <2>1, <2>2
<1>6. CASE UNCHANGED vars
  <2>1. UNCHANGED <<mail, work, num, arrived, handled, pc, pos, cur>>
    BY <1>6 DEF vars, files, effects, history, local
  <2> QED
    BY <2>1 DEF Lost, Unread, From, CounterReadings
<1> QED
  BY <1>3, <1>4, <1>5, <1>6 DEF Next, SmoothStep

LEMMA LossInvInit == Init => LossInv
<1> SUFFICES ASSUME Init PROVE CounterOK /\ PlaceOK /\ Cardinality(Lost) <= hit["inflight"]
  BY DEF LossInv
<1>1. CounterOK /\ PlaceOK
  BY IntakeAssumption DEF Init, CounterOK, PlaceOK
<1>2. Lost = {}
  BY DEF Init, Lost, Range
<1>3. Cardinality(Lost) = 0 /\ hit["inflight"] = 0
  BY <1>2, FS_EmptySet DEF Init, Windows
<1> QED
  BY <1>1, <1>3

LEMMA LossInvStep == TypeOK /\ TypeOK' /\ LossInv /\ [Next]_vars => LossInv'
<1> SUFFICES ASSUME TypeOK, TypeOK', LossInv, [Next]_vars, Smooth'
             PROVE  CounterOK' /\ PlaceOK' /\ Cardinality(Lost') <= hit'["inflight"]
  BY DEF LossInv
<1>1. Smooth /\ SmoothStep
  BY SmoothBefore
<1>2. CounterOK /\ PlaceOK /\ Cardinality(Lost) <= hit["inflight"]
  BY <1>1 DEF LossInv
<1>3. CounterOK' /\ PlaceOK'
  BY <1>1, <1>2, CounterStep, PlaceOKStep DEF SmoothStep
<1>4. /\ hit["inflight"] \in Nat /\ hit'["inflight"] \in Nat /\ hit'["inflight"] >= hit["inflight"]
      /\ Crash /\ WindowAt = "inflight" => hit'["inflight"] = hit["inflight"] + 1
  BY Hits DEF Windows
<1>5. IsFiniteSet(Lost) /\ Cardinality(Lost) \in Nat
  BY LostSubset
<1>6. CASE Lost' \subseteq Lost
  <2>1. Cardinality(Lost') <= Cardinality(Lost) /\ Cardinality(Lost') \in Nat
    BY <1>5, <1>6, FS_Subset, FS_CardinalityType
  <2> QED
    BY <1>2, <1>3, <1>4, <1>5, <2>1
<1>7. CASE Crash /\ WindowAt = "inflight" /\ Lost' \subseteq Lost \cup {cur}
  <2>1. /\ IsFiniteSet(Lost \cup {cur}) /\ Cardinality(Lost \cup {cur}) \in Nat
        /\ Cardinality(Lost \cup {cur}) <= Cardinality(Lost) + 1
    BY <1>5, FS_AddElement, FS_CardinalityType
  <2>2. Cardinality(Lost') <= Cardinality(Lost \cup {cur}) /\ Cardinality(Lost') \in Nat
    BY <1>7, <2>1, FS_Subset, FS_CardinalityType
  <2> QED
    BY <1>2, <1>3, <1>4, <1>5, <1>7, <2>1, <2>2
<1> QED
  BY <1>1, <1>2, <1>6, <1>7, LostStep

\* A message reaches the archive once and in the order of arrival, whatever
\* crashes and failed opens come in between, as long as none tears the counter
\* file; and a smooth run loses at most the messages it had in hand.
THEOREM IntakeProcessed == Spec => []ProcessedOnce
<1>1. Init => OrderInv /\ LossInv
  BY OrderInvInit, LossInvInit
<1>2. TypeOK /\ TypeOK' /\ (OrderInv /\ LossInv) /\ [Next]_vars => (OrderInv /\ LossInv)'
  BY OrderInvStep, LossInvStep
<1>3. OrderInv /\ LossInv => ProcessedOnce
  BY DEF OrderInv, LossInv, MailOrder, InOrder, Smooth, ProcessedOnce
<1> QED
  BY IntakeTyping, <1>1, <1>2, <1>3, PTL DEF Spec

-----------------------------------------------------------------------------
(* Digest: the inductive invariant *)

MsgFile(f) == file[<<"msg", f>>]
Down       == IF up THEN 0 ELSE 1
DigestMails ==
  [format : Formats, no : Nat, toc : Seq(Nat), msg : Seq(Nat), state : {"made", "ready", "sent"}]

\* What is in the files and in the digests has been taken.
NumbersOK ==
  /\ taken \in Nat /\ digestno \in Nat /\ crashes \in Nat /\ up \in BOOLEAN
  /\ file \in [Files -> Seq(Nat)] /\ \A w \in Files : Range(file[w]) \subseteq 1..taken
  /\ digests \in Seq(DigestMails) /\ \A i \in DOMAIN digests : Range(digests[i].msg) \subseteq 1..taken

\* The digests at hand are the last two, of what is in the files until those
\* are cleared.
AtHand(f)  == IF f = "mime" THEN Len(digests) - 1 ELSE Len(digests)
HandOK ==
  /\ at = "append" => step \in 1..4
  /\ at \in {"init", "send"} => step \in 1..2
  /\ at = "clear" => step \in 1..4
  /\ at \in {"init", "clear", "record", "number", "send"} =>
       Len(digests) >= 2 /\ \A f \in Formats : digests[AtHand(f)].format = f
  /\ at = "init" =>
       /\ digests[AtHand("plain")].state = "made" /\ (step = 2 <=> digests[AtHand("mime")].state # "made")
       /\ \A f \in Formats : digests[AtHand(f)].msg = MsgFile(f)
  /\ at \in {"clear", "record", "number", "send"} => \A f \in Formats : digests[AtHand(f)].state # "made"
  /\ at = "clear" => /\ step <= 2 => digests[AtHand("mime")].msg = MsgFile("mime")
                     /\ digests[AtHand("plain")].msg = MsgFile("plain")

\* The message being added is new, and is in the one file when it is added to
\* the other.
AddOK ==
  at = "append" =>
    /\ taken # 0 /\ \A i \in DOMAIN digests : taken \notin Range(digests[i].msg)
    /\ taken \notin Range(MsgFile("plain"))
    /\ taken \in Range(MsgFile("mime")) <=> step = 4

\* What no digest holds, and serverd's death before it takes the list process
\* with it, has been paid for by a death.
Accepted == 1..(IF at = "append" THEN taken - 1 ELSE taken)
LostIn(f)  == Accepted \ Held(f)
LostOK   == \A f \in Formats : Cardinality(LostIn(f)) + Down <= crashes

\* A message is in a digest or waits for one; it may do both while the files
\* are cleared, and after a death then.
Dup(m, f) == {i \in Valid(f) : m \in Range(digests[i].msg)}
Window(f) ==
  \/ at = "clear" /\ (f = "mime" => step <= 2)
  \/ f = "mime" /\ at = "init" /\ step = 2
Waits(m, f) == m \in Range(MsgFile(f)) /\ ~Window(f)
TwiceOK ==
  \A f \in Formats, m \in Nat :
    Cardinality(Dup(m, f)) + (IF Waits(m, f) THEN 1 ELSE 0) + Down <= 1 + crashes

DigestInv == NumbersOK /\ HandOK /\ AddOK /\ LostOK /\ TwiceOK

-----------------------------------------------------------------------------
(* Lemmas *)

LEMMA FileNames ==
  /\ Files = {<<"toc", "mime">>, <<"toc", "plain">>, <<"msg", "mime">>, <<"msg", "plain">>}
  /\ AppendOrder[1] = <<"toc", "mime">> /\ AppendOrder[2] = <<"toc", "plain">>
  /\ AppendOrder[3] = <<"msg", "mime">> /\ AppendOrder[4] = <<"msg", "plain">>
  /\ ClearOrder[1] = <<"toc", "mime">> /\ ClearOrder[2] = <<"msg", "mime">>
  /\ ClearOrder[3] = <<"toc", "plain">> /\ ClearOrder[4] = <<"msg", "plain">>
  /\ Len(ClearOrder) = 4
<1>1. DOMAIN AppendOrder = 1..4 /\ Len(ClearOrder) = 4
  BY DEF AppendOrder, ClearOrder
<1>2. Files = {AppendOrder[n] : n \in 1..4}
  BY <1>1 DEF Files, Range
<1>3. /\ AppendOrder[1] = <<"toc", "mime">> /\ AppendOrder[2] = <<"toc", "plain">>
      /\ AppendOrder[3] = <<"msg", "mime">> /\ AppendOrder[4] = <<"msg", "plain">>
      /\ ClearOrder[1] = <<"toc", "mime">> /\ ClearOrder[2] = <<"msg", "mime">>
      /\ ClearOrder[3] = <<"toc", "plain">> /\ ClearOrder[4] = <<"msg", "plain">>
  BY DEF AppendOrder, ClearOrder
<1>4. 1..4 = {1, 2, 3, 4}
  OBVIOUS
<1> QED
  BY <1>1, <1>2, <1>3, <1>4

LEMMA RangeAppend ==
  ASSUME NEW S, NEW s \in Seq(S), NEW x \in S
  PROVE  Range(Append(s, x)) = Range(s) \cup {x} /\ Append(s, x) \in Seq(S)
<1>1. /\ Append(s, x) \in Seq(S) /\ Len(Append(s, x)) = Len(s) + 1
      /\ \A i \in 1..Len(s) : Append(s, x)[i] = s[i]
      /\ Append(s, x)[Len(s) + 1] = x
  OBVIOUS
<1>2. DOMAIN s = 1..Len(s) /\ DOMAIN Append(s, x) = 1..(Len(s) + 1) /\ Len(s) \in Nat
  OBVIOUS
<1>3. 1..(Len(s) + 1) = 1..Len(s) \cup {Len(s) + 1}
  BY <1>2
<1> HIDE DEF Range
<1>4. \A y : y \in Range(Append(s, x)) <=> \E i \in 1..(Len(s) + 1) : Append(s, x)[i] = y
  BY <1>2 DEF Range
<1>5. \A y : y \in Range(s) <=> \E i \in 1..Len(s) : s[i] = y
  BY <1>2 DEF Range
<1> QED
  BY <1>1, <1>3, <1>4, <1>5

\* Of a part of what was lost before and at most one more message.
LEMMA LostMore ==
  ASSUME LostOK, taken \in Nat, NEW f \in Formats, NEW L,
         NEW x, L \subseteq LostIn(f) \cup {x}
  PROVE  /\ Cardinality(L) \in Nat /\ Cardinality(L) <= Cardinality(LostIn(f)) + 1
         /\ L \subseteq LostIn(f) => Cardinality(L) <= Cardinality(LostIn(f))
         /\ Cardinality(LostIn(f)) \in Nat
<1>1. IsFiniteSet(LostIn(f))
  <2>1. IsFiniteSet(1..taken)
    BY FS_Interval
  <2>2. LostIn(f) \subseteq 1..taken
    BY DEF LostIn, Accepted
  <2> QED
    BY <2>1, <2>2, FS_Subset
<1>2. IsFiniteSet(LostIn(f) \cup {x}) /\ Cardinality(LostIn(f) \cup {x}) <= Cardinality(LostIn(f)) + 1
  <2> DEFINE S == LostIn(f)
  <2>1. IsFiniteSet(S) /\ Cardinality(S) \in Nat
    BY <1>1, FS_CardinalityType
  <2> HIDE DEF S
  <2>2. /\ IsFiniteSet(S \cup {x})
        /\ Cardinality(S \cup {x}) = IF x \in S THEN Cardinality(S) ELSE Cardinality(S) + 1
    BY <2>1, FS_AddElement
  <2>3. Cardinality(S \cup {x}) <= Cardinality(S) + 1
    BY <2>1, <2>2
  <2> QED
    BY <2>2, <2>3 DEF S
<1>3. IsFiniteSet(L) /\ Cardinality(L) <= Cardinality(LostIn(f) \cup {x})
  BY <1>2, FS_Subset
<1>4. L \subseteq LostIn(f) => Cardinality(L) <= Cardinality(LostIn(f))
  BY <1>1, FS_Subset
<1>5. Cardinality(L) \in Nat /\ Cardinality(LostIn(f)) \in Nat /\ Cardinality(LostIn(f) \cup {x}) \in Nat
  BY <1>1, <1>2, <1>3, FS_CardinalityType
<1> QED
  BY <1>2, <1>3, <1>4, <1>5

LEMMA DupFinite ==
  ASSUME NEW f, NEW m, digests \in Seq(DigestMails), digests' \in Seq(DigestMails)
  PROVE  /\ IsFiniteSet(Dup(m, f)) /\ Cardinality(Dup(m, f)) \in Nat
         /\ IsFiniteSet(Dup(m, f)') /\ Cardinality(Dup(m, f)') \in Nat
<1>1. IsFiniteSet(DOMAIN digests) /\ IsFiniteSet(DOMAIN digests')
  <2>1. DOMAIN digests = 1..Len(digests) /\ DOMAIN digests' = 1..Len(digests') /\ Len(digests) \in Nat /\ Len(digests') \in Nat
    OBVIOUS
  <2> QED
    BY <2>1, FS_Interval
<1>2. Dup(m, f) \subseteq DOMAIN digests /\ Dup(m, f)' \subseteq DOMAIN digests'
  BY DEF Dup, Valid
<1> QED
  BY <1>1, <1>2, FS_Subset, FS_CardinalityType

\* A step in which as many deaths occur (counting that of a list process which
\* starts anew with serverd as one) as messages are lost or are left in the files.
LEMMA CountStep ==
  ASSUME DigestInv, crashes' \in Nat, up' \in BOOLEAN, digests' \in Seq(DigestMails),
         NEW n \in {0, 1}, crashes + n + Down' <= crashes' + Down,
         \A f \in Formats : \E x : LostIn(f)' \subseteq LostIn(f) \cup (IF n = 1 THEN {x} ELSE {}),
         \A f \in Formats, m \in Nat :
           \/ /\ Cardinality(Dup(m, f)') <= Cardinality(Dup(m, f))
              /\ Waits(m, f)' => Waits(m, f) \/ n = 1 \/ Dup(m, f)' = {}
           \/ /\ Cardinality(Dup(m, f)') <= Cardinality(Dup(m, f)) + 1
              /\ Waits(m, f) /\ ~Waits(m, f)'
  PROVE  LostOK' /\ TwiceOK'
<1> DEFINE d == Down
           e == Down'
           k == crashes'
<1>1. d \in {0, 1} /\ e \in {0, 1} /\ crashes \in Nat /\ k \in Nat /\ taken \in Nat /\ digests \in Seq(DigestMails)
  BY DEF Down, DigestInv, NumbersOK
<1>2. crashes + n + e <= k + d
  OBVIOUS
<1> HIDE DEF d, e, k
<1>3. ASSUME NEW f \in Formats
      PROVE  Cardinality(LostIn(f)') + e <= k /\ e <= k
  <2>1. Cardinality(LostIn(f)) + d <= crashes
    BY DEF DigestInv, LostOK, d
  <2>2. PICK x : LostIn(f)' \subseteq LostIn(f) \cup (IF n = 1 THEN {x} ELSE {})
    OBVIOUS
  <2> DEFINE L == LostIn(f)'
             c == Cardinality(LostIn(f))
             c2 == Cardinality(L)
  <2>3. L \subseteq LostIn(f) \cup {x} /\ (n # 1 => L \subseteq LostIn(f))
    BY <2>2
  <2> HIDE DEF L
  <2>4. c2 \in Nat /\ c2 <= c + 1 /\ (L \subseteq LostIn(f) => c2 <= c) /\ c \in Nat
    BY <1>1, <2>3, LostMore DEF DigestInv
  <2>5. c2 <= c + n
    BY <2>3, <2>4
  <2>6. c + d <= crashes
    BY <2>1
  <2> HIDE DEF c, c2
  <2>7. c2 + e <= k /\ e <= k
    BY <1>1, <1>2, <2>4, <2>5, <2>6
  <2> QED
    BY <2>7 DEF c2, L
<1>4. LostOK'
  BY <1>3 DEF LostOK, e, k
<1>5. ASSUME NEW f \in Formats, NEW m \in Nat
      PROVE  Cardinality(Dup(m, f)') + (IF Waits(m, f)' THEN 1 ELSE 0) + e <= 1 + k
  <2> DEFINE a == Cardinality(Dup(m, f))
             b == Cardinality(Dup(m, f)')
             v == IF Waits(m, f) THEN 1 ELSE 0
             w == IF Waits(m, f)' THEN 1 ELSE 0
  <2>1. a \in Nat /\ b \in Nat /\ v \in {0, 1} /\ w \in {0, 1}
    BY <1>1, DupFinite
  <2>2. a + v + d <= 1 + crashes
    BY DEF DigestInv, TwiceOK, d
  <2>3. e <= k
    BY <1>3
  <2>4. Dup(m, f)' = {} => b = 0
    BY FS_EmptySet
  <2>5. \/ b <= a /\ (w = 0 \/ v = 1 \/ n = 1 \/ b = 0)
        \/ b <= a + 1 /\ v = 1 /\ w = 0
    BY <2>4
  <2> HIDE DEF a, b, v, w
  <2>6. b + w + e <= 1 + k
    BY <1>1, <1>2, <2>1, <2>2, <2>3, <2>5
  <2> QED
    BY <2>6 DEF b, w
<1>6. TwiceOK'
  BY <1>5 DEF TwiceOK, e, k
<1> QED
  BY <1>4, <1>6

LEMMA DupMore ==
  ASSUME digests \in Seq(DigestMails), digests' \in Seq(DigestMails), NEW f, NEW m, NEW x,
         Dup(m, f)' \subseteq Dup(m, f) \cup {x}
  PROVE  /\ Cardinality(Dup(m, f)') <= Cardinality(Dup(m, f)) + 1
         /\ Dup(m, f)' \subseteq Dup(m, f) => Cardinality(Dup(m, f)') <= Cardinality(Dup(m, f))
<1> DEFINE S == Dup(m, f)
           T == Dup(m, f)'
<1>1. IsFiniteSet(S) /\ Cardinality(S) \in Nat /\ IsFiniteSet(T) /\ Cardinality(T) \in Nat
  BY DupFinite
<1>2. T \subseteq S \cup {x}
  OBVIOUS
<1> HIDE DEF S, T
<1>3. IsFiniteSet(S \cup {x}) /\ Cardinality(S \cup {x}) = IF x \in S THEN Cardinality(S) ELSE Cardinality(S) + 1
  BY <1>1, FS_AddElement
<1>4. Cardinality(T) <= Cardinality(S \cup {x}) /\ (T \subseteq S => Cardinality(T) <= Cardinality(S))
  BY <1>1, <1>2, <1>3, FS_Subset
<1>5. Cardinality(T) <= Cardinality(S) + 1
  BY <1>1, <1>3, <1>4
<1> QED
  BY <1>4, <1>5 DEF S, T

\* Digests that keep their contents, and those with a .proc file.
LEMMA SameDigests ==
  ASSUME digests \in Seq(DigestMails), digests' \in Seq(DigestMails),
         DOMAIN digests' = DOMAIN digests,
         \A i \in DOMAIN digests :
           /\ digests'[i].format = digests[i].format /\ digests'[i].msg = digests[i].msg
           /\ digests'[i].state = "made" <=> digests[i].state = "made"
  PROVE  \A f : /\ Valid(f)' = Valid(f)
                /\ UNION {Range(digests'[i].msg) : i \in Valid(f)'} = UNION {Range(digests[i].msg) : i \in Valid(f)}
                /\ \A m : Dup(m, f)' = Dup(m, f)
<1> SUFFICES ASSUME NEW f
             PROVE  /\ Valid(f)' = Valid(f)
                    /\ UNION {Range(digests'[i].msg) : i \in Valid(f)'} = UNION {Range(digests[i].msg) : i \in Valid(f)}
                    /\ \A m : Dup(m, f)' = Dup(m, f)
  OBVIOUS
<1>1. Valid(f)' = Valid(f) /\ Valid(f) \subseteq DOMAIN digests
  BY DEF Valid
<1>2. \A i \in Valid(f) : Range(digests'[i].msg) = Range(digests[i].msg)
  BY <1>1
<1>3. \A m : Dup(m, f)' = Dup(m, f)
  BY <1>1, <1>2 DEF Dup
<1>4. UNION {Range(digests'[i].msg) : i \in Valid(f)'} = UNION {Range(digests[i].msg) : i \in Valid(f)}
  BY <1>1, <1>2
<1> QED
  BY <1>1, <1>3, <1>4

\* A step that leaves the files and the digests alone, and what the list
\* process does with them.
LEMMA FrameStep ==
  ASSUME DigestInv, UNCHANGED <<taken, file, digests>>, digestno' \in Nat,
         crashes' \in Nat, up' \in BOOLEAN, crashes + Down' <= crashes' + Down,
         \/ UNCHANGED <<at, step>>
         \/ /\ {at, at'} \cap {"append", "init", "clear"} = {}
            /\ at' \in {"record", "number", "send"} => at \in {"record", "number", "send"} /\ step' = 1
  PROVE  DigestInv'
<1>1. NumbersOK'
  BY DEF DigestInv, NumbersOK
<1>2. HandOK'
  <2>1. \A f : AtHand(f)' = AtHand(f) /\ MsgFile(f)' = MsgFile(f)
    BY DEF AtHand, MsgFile
  <2>2. CASE UNCHANGED <<at, step>>
    BY <2>1, <2>2 DEF DigestInv, HandOK
  <2>3. CASE {at, at'} \cap {"append", "init", "clear"} = {}
    <3>1. at' \notin {"append", "init", "clear"}
      BY <2>3
    <3>2. CASE at' \in {"record", "number", "send"}
      BY <2>1, <2>3, <3>1, <3>2 DEF DigestInv, HandOK
    <3>3. CASE at' \notin {"record", "number", "send"}
      BY <3>1, <3>3 DEF HandOK
    <3> QED
      BY <3>2, <3>3
  <2> QED
    BY <2>2, <2>3
<1>3. AddOK'
  BY DEF DigestInv, AddOK, MsgFile
<1>4. \A f : LostIn(f)' = LostIn(f) /\ \A m : Dup(m, f)' = Dup(m, f) /\ (Waits(m, f)' <=> Waits(m, f))
  <2>1. Accepted' = Accepted
    BY DEF Accepted
  <2>2. \A f : Valid(f)' = Valid(f) /\ Held(f)' = Held(f) /\ (Window(f)' <=> Window(f))
    BY DEF Valid, Held, Window
  <2> QED
    BY <2>1, <2>2 DEF LostIn, Dup, Waits, MsgFile
<1>5. crashes + 0 + Down' <= crashes' + Down
  <2>1. crashes + 0 = crashes
    BY DEF DigestInv, NumbersOK
  <2> QED
    BY <2>1
<1>6. \A f \in Formats, m \in Nat : Cardinality(Dup(m, f)') <= Cardinality(Dup(m, f))
  BY <1>1, <1>4, DupFinite DEF DigestInv, NumbersOK
<1>7. LostOK' /\ TwiceOK'
  <2>1. digests' \in Seq(DigestMails)
    BY <1>1 DEF NumbersOK
  <2> QED
    BY <1>4, <1>5, <1>6, <2>1, CountStep
<1> QED
  BY <1>1, <1>2, <1>3, <1>7 DEF DigestInv

\* The list process ends wherever it is.
LEMMA EndStep ==
  ASSUME DigestInv, UNCHANGED <<taken, file, digests, digestno>>, at' = "idle",
         crashes' \in Nat, up' \in BOOLEAN, crashes + 1 + Down' <= crashes' + Down
  PROVE  DigestInv'
<1>1. NumbersOK' /\ HandOK' /\ AddOK'
  BY DEF DigestInv, NumbersOK, HandOK, AddOK
<1>2. \A f : LostIn(f)' \subseteq LostIn(f) \cup {taken} /\ \A m : Dup(m, f)' = Dup(m, f)
  <2>1. Accepted' \subseteq Accepted \cup {taken}
    <3>1. taken \in Nat
      BY DEF DigestInv, NumbersOK
    <3> QED
      BY <3>1 DEF Accepted
  <2>2. \A f : Valid(f)' = Valid(f) /\ Held(f)' = Held(f)
    BY DEF Valid, Held
  <2> QED
    BY <2>1, <2>2 DEF LostIn, Dup
<1>3. \A f \in Formats, m \in Nat : Cardinality(Dup(m, f)') <= Cardinality(Dup(m, f))
  BY <1>1, <1>2, DupFinite DEF DigestInv, NumbersOK
<1>4. LostOK' /\ TwiceOK'
  <2>1. digests' \in Seq(DigestMails)
    BY <1>1 DEF NumbersOK
  <2>2. \A f \in Formats : \E x : LostIn(f)' \subseteq LostIn(f) \cup (IF 1 = 1 THEN {x} ELSE {})
    BY <1>2
  <2> QED
    BY <1>3, <2>1, <2>2, CountStep
<1> QED
  BY <1>1, <1>4 DEF DigestInv

-----------------------------------------------------------------------------
(* The steps of the list process *)

LEMMA ResumeKeeps ==
  ASSUME DigestInv, Resume PROVE DigestInv'
<1>1. /\ digests \in Seq(DigestMails) /\ at = "resume" /\ at' \in {"make", "next"}
      /\ UNCHANGED <<taken, file, digestno, up, crashes>>
      /\ digests' = [i \in DOMAIN digests |->
                       IF digests[i].state = "ready" THEN [digests[i] EXCEPT !.state = "sent"] ELSE digests[i]]
  BY DEF Resume, Go, ListOnly, srv, DigestInv, NumbersOK
<1>2. /\ DOMAIN digests' = DOMAIN digests
      /\ \A i \in DOMAIN digests :
           /\ digests'[i] \in DigestMails
           /\ digests'[i].format = digests[i].format /\ digests'[i].msg = digests[i].msg
           /\ digests'[i].state = "made" <=> digests[i].state = "made"
  <2> SUFFICES ASSUME NEW i \in DOMAIN digests
               PROVE  /\ digests'[i] \in DigestMails
                      /\ digests'[i].format = digests[i].format /\ digests'[i].msg = digests[i].msg
                      /\ digests'[i].state = "made" <=> digests[i].state = "made"
    BY <1>1
  <2>1. digests[i] \in DigestMails
    BY <1>1
  <2>2. digests'[i] = IF digests[i].state = "ready" THEN [digests[i] EXCEPT !.state = "sent"] ELSE digests[i]
    BY <1>1
  <2> QED
    BY <2>1, <2>2 DEF DigestMails
<1>3. digests' \in Seq(DigestMails)
  <2>1. DOMAIN digests' = 1..Len(digests) /\ Len(digests) \in Nat
    BY <1>1, <1>2
  <2>2. digests' = [i \in 1..Len(digests) |-> digests'[i]]
    BY <1>1, <2>1
  <2> QED
    BY <1>2, <2>1, <2>2
<1>4. NumbersOK' /\ HandOK' /\ AddOK'
  BY <1>1, <1>2, <1>3 DEF DigestInv, NumbersOK, HandOK, AddOK
<1>5. \A f : /\ UNION {Range(digests'[i].msg) : i \in Valid(f)'} = UNION {Range(digests[i].msg) : i \in Valid(f)}
             /\ \A m : Dup(m, f)' = Dup(m, f)
  BY <1>1, <1>2, <1>3, SameDigests
<1>6. \A f : LostIn(f)' = LostIn(f) /\ \A m : Waits(m, f)' <=> Waits(m, f)
  BY <1>1, <1>5 DEF LostIn, Accepted, Held, Waits, Window, MsgFile
<1>7. \A f \in Formats, m \in Nat : Cardinality(Dup(m, f)') <= Cardinality(Dup(m, f))
  BY <1>1, <1>3, <1>5, DupFinite
<1>8. crashes' \in Nat /\ up' \in BOOLEAN /\ crashes + 0 + Down' <= crashes' + Down
  BY <1>1 DEF Down, DigestInv, NumbersOK
<1>9. LostOK' /\ TwiceOK'
  BY <1>3, <1>6, <1>7, <1>8, CountStep
<1> QED
  BY <1>4, <1>9 DEF DigestInv

LEMMA PrepareKeeps ==
  ASSUME DigestInv, Prepare PROVE DigestInv'
<1>1. /\ at = "next" /\ taken' = taken + 1 /\ at' = "append" /\ step' = 1
      /\ UNCHANGED <<file, digests, digestno, up, crashes>>
  BY DEF Prepare, Go, ListOnly, disk, srv
<1>2. /\ taken \in Nat /\ digests \in Seq(DigestMails)
      /\ (\A w \in Files : Range(file[w]) \subseteq 1..taken)
      /\ (\A i \in DOMAIN digests : Range(digests[i].msg) \subseteq 1..taken)
  BY DEF DigestInv, NumbersOK
<1>3. 1..taken \subseteq 1..(taken + 1) /\ taken + 1 \notin 1..taken /\ taken + 1 # 0 /\ 1..(taken + 1 - 1) = 1..taken
  BY <1>2
<1>4. NumbersOK'
  <2>1. taken' \in Nat /\ \A S : S \subseteq 1..taken => S \subseteq 1..taken'
    BY <1>1, <1>2, <1>3
  <2>2. \A i \in DOMAIN digests : Range(digests'[i].msg) \subseteq 1..taken'
    BY <1>1, <1>2, <2>1
  <2>3. \A w \in Files : Range(file'[w]) \subseteq 1..taken'
    BY <1>1, <1>2, <2>1
  <2> QED
    BY <1>1, <2>1, <2>2, <2>3 DEF DigestInv, NumbersOK
<1>5. HandOK'
  BY <1>1 DEF HandOK
<1>6. AddOK'
  <2>1. taken + 1 \notin Range(MsgFile("plain")) /\ taken + 1 \notin Range(MsgFile("mime"))
    BY <1>2, <1>3, FileNames DEF MsgFile
  <2>2. \A i \in DOMAIN digests : taken + 1 \notin Range(digests[i].msg)
    BY <1>2, <1>3
  <2> QED
    BY <1>1, <1>3, <2>1, <2>2 DEF AddOK, MsgFile
<1>7. \A f : LostIn(f)' = LostIn(f) /\ \A m : Dup(m, f)' = Dup(m, f) /\ (Waits(m, f)' <=> Waits(m, f))
  <2>1. Accepted' = Accepted
    <3>1. taken' - 1 = taken
      BY <1>1, <1>2
    <3> QED
      BY <1>1, <3>1 DEF Accepted
  <2>2. \A f : Valid(f)' = Valid(f) /\ Held(f)' = Held(f) /\ (Window(f)' <=> Window(f))
    BY <1>1 DEF Valid, Held, Window
  <2> QED
    BY <1>1, <2>1, <2>2 DEF LostIn, Dup, Waits, MsgFile
<1>8. \A f \in Formats, m \in Nat : Cardinality(Dup(m, f)') <= Cardinality(Dup(m, f))
  BY <1>1, <1>2, <1>7, DupFinite
<1>9. crashes' \in Nat /\ up' \in BOOLEAN /\ crashes + 0 + Down' <= crashes' + Down
  BY <1>1 DEF Down, DigestInv, NumbersOK
<1>10. LostOK' /\ TwiceOK'
  BY <1>1, <1>2, <1>7, <1>8, <1>9, CountStep
<1> QED
  BY <1>4, <1>5, <1>6, <1>10 DEF DigestInv

LEMMA AddToDigestKeeps ==
  ASSUME DigestInv, AddToDigest PROVE DigestInv'
<1> DEFINE n == step
           w == AppendOrder[step]
<1>1. /\ at = "append" /\ file' = [file EXCEPT ![w] = Append(@, taken)]
      /\ UNCHANGED <<taken, digests, digestno, up, crashes>>
      /\ IF step = 4 THEN at' = "size" /\ step' = 1 ELSE at' = "append" /\ step' = step + 1
  BY DEF AddToDigest, Along, Go, ListOnly, srv
<1>2. /\ taken \in Nat /\ taken # 0 /\ digests \in Seq(DigestMails) /\ step \in 1..4
      /\ file \in [Files -> Seq(Nat)] /\ (\A v \in Files : Range(file[v]) \subseteq 1..taken)
      /\ \A i \in DOMAIN digests : taken \notin Range(digests[i].msg)
      /\ taken \notin Range(MsgFile("plain"))
      /\ taken \in Range(MsgFile("mime")) <=> step = 4
  BY <1>1 DEF DigestInv, NumbersOK, HandOK, AddOK
<1>3. step \in {1, 2, 3, 4} /\ w \in Files
  <2>1. step \in {1, 2, 3, 4}
    BY <1>2
  <2> QED
    BY <2>1, FileNames
<1>4. /\ file' \in [Files -> Seq(Nat)] /\ Range(file'[w]) = Range(file[w]) \cup {taken}
      /\ \A v \in Files \ {w} : file'[v] = file[v]
  <2>1. file[w] \in Seq(Nat)
    BY <1>2, <1>3
  <2>2. Range(Append(file[w], taken)) = Range(file[w]) \cup {taken} /\ Append(file[w], taken) \in Seq(Nat)
    BY <1>2, <2>1, RangeAppend
  <2> HIDE DEF w
  <2> QED
    BY <1>1, <1>2, <1>3, <2>2
<1>5. /\ Range(MsgFile("mime"))' = Range(MsgFile("mime")) \cup (IF step = 3 THEN {taken} ELSE {})
      /\ Range(MsgFile("plain"))' = Range(MsgFile("plain")) \cup (IF step = 4 THEN {taken} ELSE {})
  <2>1. \A f \in {"mime", "plain"} : <<"msg", f>> \in Files /\ (w = <<"msg", f>> <=> step = (IF f = "mime" THEN 3 ELSE 4))
    BY <1>3, FileNames
  <2> HIDE DEF w
  <2> QED
    BY <1>4, <2>1 DEF MsgFile
<1>6. NumbersOK'
  <2>1. \A v \in Files : Range(file'[v]) \subseteq 1..taken
    <3>1. taken \in 1..taken
      BY <1>2
    <3> QED
      BY <1>2, <1>3, <1>4, <3>1
  <2> QED
    BY <1>1, <1>4, <2>1 DEF DigestInv, NumbersOK
<1>7. HandOK'
  BY <1>1, <1>2 DEF HandOK
<1>8. AddOK'
  <2> SUFFICES ASSUME step # 4
               PROVE  /\ taken \notin Range(MsgFile("plain"))'
                      /\ taken \in Range(MsgFile("mime"))' <=> step + 1 = 4
    BY <1>1, <1>2 DEF AddOK
  <2> QED
    BY <1>2, <1>3, <1>5
<1>9. \A f : Valid(f)' = Valid(f) /\ \A m : Dup(m, f)' = Dup(m, f)
  BY <1>1 DEF Valid, Dup
<1>10. ASSUME NEW f \in Formats
       PROVE  LostIn(f)' \subseteq LostIn(f)
  <2>1. Held(f) \subseteq Held(f)'
    <3>1. Range(MsgFile(f)) \subseteq Range(MsgFile(f))'
      BY <1>5 DEF Formats
    <3> QED
      BY <1>1, <1>9, <3>1 DEF Held, MsgFile
  <2>2. CASE step = 4
    <3>1. taken \in Range(MsgFile(f))'
      BY <1>2, <1>5, <2>2 DEF Formats
    <3>2. taken \in Held(f)'
      BY <3>1 DEF Held, MsgFile
    <3>3. Accepted' \subseteq Accepted \cup {taken}
      BY <1>1, <1>2, <2>2 DEF Accepted
    <3> QED
      BY <2>1, <3>2, <3>3 DEF LostIn
  <2>3. CASE step # 4
    <3>1. Accepted' = Accepted
      BY <1>1, <2>3 DEF Accepted
    <3> QED
      BY <2>1, <3>1 DEF LostIn
  <2> QED
    BY <2>2, <2>3
<1>11. ASSUME NEW f \in Formats, NEW m \in Nat
       PROVE  Waits(m, f)' => Waits(m, f) \/ Dup(m, f)' = {}
  <2>1. m \in Range(MsgFile(f))' => m \in Range(MsgFile(f)) \/ m = taken
    BY <1>5 DEF Formats
  <2>2. ~Window(f)
    BY <1>1 DEF Window
  <2>3. m = taken => Dup(m, f) = {}
    BY <1>2 DEF Dup, Valid
  <2> QED
    BY <1>9, <2>1, <2>2, <2>3 DEF Waits
<1>12. \A f \in Formats, m \in Nat : Cardinality(Dup(m, f)') <= Cardinality(Dup(m, f))
  BY <1>1, <1>2, <1>9, DupFinite
<1>13. crashes' \in Nat /\ up' \in BOOLEAN /\ crashes + 0 + Down' <= crashes' + Down
  BY <1>1 DEF Down, DigestInv, NumbersOK
<1>14. LostOK' /\ TwiceOK'
  <2>1. digests' \in Seq(DigestMails)
    BY <1>1, <1>2
  <2>2. \A f \in Formats : \E x : LostIn(f)' \subseteq LostIn(f) \cup (IF 0 = 1 THEN {x} ELSE {})
    BY <1>10
  <2> QED
    BY <1>11, <1>12, <1>13, <2>1, <2>2, CountStep
<1> QED
  BY <1>6, <1>7, <1>8, <1>14 DEF DigestInv

LEMMA MakeKeeps ==
  ASSUME DigestInv, Make PROVE DigestInv'
<1>1. /\ at = "make" /\ UNCHANGED <<taken, file, digestno, up, crashes>>
      /\ digests \in Seq(DigestMails) /\ digestno \in Nat /\ crashes \in Nat /\ up \in BOOLEAN
  BY DEF Make, ListOnly, srv, DigestInv, NumbersOK
<1>2. crashes + 0 + Down' <= crashes' + Down
  BY <1>1 DEF Down
<1>3. CASE ~Complete
  <2>1. UNCHANGED <<taken, file, digests, digestno, up, crashes>> /\ at' \in {"exit", "next"}
    BY <1>1, <1>3 DEF Make, Go, After
  <2> QED
    BY <1>1, <1>2, <2>1, FrameStep
<1>4. CASE Complete
  <2> DEFINE a == New("mime")
             b == New("plain")
             n == Len(digests)
  <2>1. digests' = digests \o <<a, b>> /\ at' = "init" /\ step' = 1
    BY <1>4 DEF Make, Go
  <2>2. /\ a \in DigestMails /\ a.format = "mime" /\ a.msg = MsgFile("mime") /\ a.state = "made"
        /\ b \in DigestMails /\ b.format = "plain" /\ b.msg = MsgFile("plain") /\ b.state = "made"
    <3>1. \A f \in {"mime", "plain"} : file[<<"toc", f>>] \in Seq(Nat) /\ file[<<"msg", f>>] \in Seq(Nat)
      BY FileNames DEF DigestInv, NumbersOK
    <3>2. digestno + 1 \in Nat
      BY <1>1
    <3> QED
      BY <3>1, <3>2 DEF New, DigestMails, Formats, MsgFile
  <2>3. Range(a.msg) \subseteq 1..taken /\ Range(b.msg) \subseteq 1..taken
    BY <2>2, FileNames DEF DigestInv, NumbersOK, MsgFile
  <2> HIDE DEF a, b
  <2>4. /\ digests' \in Seq(DigestMails) /\ Len(digests') = n + 2 /\ n \in Nat
        /\ \A i \in 1..n : digests'[i] = digests[i]
        /\ digests'[n + 1] = a /\ digests'[n + 2] = b
    <3>1. <<a, b>> \in Seq(DigestMails) /\ Len(<<a, b>>) = 2 /\ <<a, b>>[1] = a /\ <<a, b>>[2] = b
      BY <2>2
    <3> DEFINE s == <<a, b>>
    <3> HIDE DEF s
    <3>2. /\ digests \o s \in Seq(DigestMails) /\ Len(digests \o s) = n + 2 /\ n \in Nat
          /\ \A i \in 1..n : (digests \o s)[i] = digests[i]
          /\ (digests \o s)[n + 1] = s[1] /\ (digests \o s)[n + 2] = s[2]
      BY <1>1, <3>1 DEF s
    <3> QED
      BY <2>1, <3>1, <3>2 DEF s
  <2>5. /\ DOMAIN digests' = 1..(n + 2) /\ DOMAIN digests = 1..n
        /\ 1..(n + 2) = 1..n \cup {n + 1, n + 2}
    BY <1>1, <2>4
  <2>6. NumbersOK'
    <3>1. \A i \in DOMAIN digests' : Range(digests'[i].msg) \subseteq 1..taken
      BY <2>3, <2>4, <2>5 DEF DigestInv, NumbersOK
    <3> QED
      BY <1>1, <2>4, <3>1 DEF DigestInv, NumbersOK
  <2>7. HandOK'
    <3>1. AtHand("mime")' = n + 1 /\ AtHand("plain")' = n + 2
      BY <2>4 DEF AtHand
    <3>2. MsgFile("mime")' = MsgFile("mime") /\ MsgFile("plain")' = MsgFile("plain")
      BY <1>1 DEF MsgFile
    <3>3. Len(digests') >= 2
      BY <2>4
    <3> QED
      BY <2>1, <2>2, <2>4, <3>1, <3>2, <3>3 DEF HandOK, Formats
  <2>8. AddOK'
    BY <2>1 DEF AddOK
  <2>9. \A f : /\ Valid(f)' = Valid(f) /\ \A i \in Valid(f) : digests'[i] = digests[i]
    BY <2>2, <2>4, <2>5 DEF Valid
  <2>10. \A f : Held(f)' = Held(f) /\ \A m : Dup(m, f)' = Dup(m, f)
    BY <1>1, <2>9 DEF Held, Dup
  <2>11. \A f : LostIn(f)' = LostIn(f) /\ \A m : Waits(m, f)' <=> Waits(m, f)
    <3>1. Accepted' = Accepted
      BY <1>1, <2>1 DEF Accepted
    <3>2. \A f : Window(f)' <=> Window(f)
      BY <1>1, <2>1 DEF Window
    <3> QED
      BY <1>1, <2>10, <3>1, <3>2 DEF LostIn, Waits, MsgFile
  <2>12. \A f \in Formats, m \in Nat : Cardinality(Dup(m, f)') <= Cardinality(Dup(m, f))
    BY <1>1, <2>4, <2>10, DupFinite
  <2>13. LostOK' /\ TwiceOK'
    BY <1>1, <1>2, <2>4, <2>10, <2>11, <2>12, CountStep
  <2> QED
    BY <2>6, <2>7, <2>8, <2>13 DEF DigestInv
<1> QED
  BY <1>3, <1>4

\* One of the two digests at hand changes its state.
LEMMA StateSet ==
  ASSUME DigestInv, NEW k \in {1, 2}, Len(digests) >= 2, NEW x \in {"ready", "sent"}, SetState(Nth(k), x)
  PROVE  /\ Nth(k) \in DOMAIN digests /\ digests' \in Seq(DigestMails) /\ DOMAIN digests' = DOMAIN digests
         /\ Nth(k) = (IF k = 1 THEN AtHand("mime") ELSE AtHand("plain"))
         /\ Len(digests') = Len(digests) /\ AtHand("mime") # AtHand("plain")
         /\ \A f \in Formats : AtHand(f) \in DOMAIN digests /\ AtHand(f)' = AtHand(f)
         /\ digests'[Nth(k)].state = x
         /\ \A i \in DOMAIN digests :
              /\ digests'[i].format = digests[i].format /\ digests'[i].msg = digests[i].msg
              /\ i # Nth(k) => digests'[i] = digests[i]
<1> DEFINE n == Len(digests)
           j == Nth(k)
<1>1. digests \in Seq(DigestMails) /\ n \in Nat /\ DOMAIN digests = 1..n /\ n >= 2
  BY DEF DigestInv, NumbersOK
<1>2. j = n - 2 + k
  BY DEF Nth
<1>4. digests' = [digests EXCEPT ![j].state = x]
  BY DEF SetState
<1> HIDE DEF j, n
<1>3. j \in 1..n /\ (k = 1 => j = n - 1) /\ (k = 2 => j = n) /\ n - 1 \in 1..n /\ n \in 1..n /\ n - 1 # n
  <2>1. n \in Nat /\ n >= 2
    BY <1>1
  <2>2. n - 1 \in 1..n /\ n \in 1..n /\ n - 1 # n /\ (k = 1 => j = n - 1) /\ (k = 2 => j = n)
    BY <1>2, <2>1
  <2> QED
    BY <2>2
<1>5. digests[j] \in DigestMails
  BY <1>1, <1>3
<1>6. [digests[j] EXCEPT !.state = x] \in DigestMails
  BY <1>5 DEF DigestMails
<1>7. /\ [digests[j] EXCEPT !.state = x].state = x
      /\ [digests[j] EXCEPT !.state = x].format = digests[j].format
      /\ [digests[j] EXCEPT !.state = x].msg = digests[j].msg
  BY <1>5 DEF DigestMails
<1>8. digests' = [digests EXCEPT ![j] = [digests[j] EXCEPT !.state = x]]
  BY <1>4
<1> DEFINE d == [digests[j] EXCEPT !.state = x]
<1> HIDE DEF d
<1>9. /\ digests' \in Seq(DigestMails) /\ Len(digests') = n /\ DOMAIN digests' = DOMAIN digests
      /\ digests'[j] = d /\ \A i \in 1..n : i # j => digests'[i] = digests[i]
  <2> HIDE DEF DigestMails
  <2>1. d \in DigestMails /\ digests' = [digests EXCEPT ![j] = d]
    BY <1>6, <1>8 DEF d
  <2>2. Len(digests') = n /\ DOMAIN digests' = DOMAIN digests /\ digests' \in Seq(DigestMails)
    <3>1. j \in 1..Len(digests) /\ j \in DOMAIN digests
      BY <1>1, <1>3 DEF n
    <3>2. [digests EXCEPT ![j] = d] \in Seq(DigestMails)
      BY <1>1, <2>1, <3>1
    <3>3. Len([digests EXCEPT ![j] = d]) = Len(digests)
      BY <1>1, <3>1
    <3> QED
      BY <1>1, <2>1, <3>2, <3>3 DEF n
  <2> QED
    BY <1>1, <1>3, <2>1, <2>2
<1>10. \A i \in DOMAIN digests :
              /\ digests'[i].format = digests[i].format /\ digests'[i].msg = digests[i].msg
              /\ i # j => digests'[i] = digests[i]
  BY <1>1, <1>7, <1>9 DEF d
<1>11. \A f \in Formats : AtHand(f) \in DOMAIN digests /\ AtHand(f)' = AtHand(f)
  BY <1>1, <1>3, <1>9 DEF AtHand, n
<1>12. j = (IF k = 1 THEN AtHand("mime") ELSE AtHand("plain")) /\ AtHand("mime") # AtHand("plain")
  BY <1>1, <1>3 DEF AtHand, n
<1>13. digests'[j].state = x
  BY <1>7, <1>9 DEF d
<1> QED
  BY <1>1, <1>3, <1>9, <1>10, <1>11, <1>12, <1>13 DEF j, n

LEMMA InitItemsKeeps ==
  ASSUME DigestInv, InitItems PROVE DigestInv'
<1> DEFINE k == step
           j == Nth(k)
           g == IF k = 1 THEN "mime" ELSE "plain"
<1>1. /\ at = "init" /\ SetState(j, "ready") /\ UNCHANGED <<taken, file, digestno, up, crashes>>
      /\ IF k = 2 THEN at' = "clear" /\ step' = 1 ELSE at' = "init" /\ step' = k + 1
  BY DEF InitItems, Along, Go, ListOnly, srv
<1>2. /\ k \in {1, 2} /\ Len(digests) >= 2 /\ (\A f \in Formats : digests[AtHand(f)].format = f)
      /\ (\A f \in Formats : digests[AtHand(f)].msg = MsgFile(f))
      /\ digests[AtHand("plain")].state = "made" /\ (k = 2 <=> digests[AtHand("mime")].state # "made")
      /\ digests \in Seq(DigestMails) /\ crashes \in Nat /\ up \in BOOLEAN
  <2>1. k \in 1..2
    BY <1>1 DEF DigestInv, HandOK
  <2>2. k \in {1, 2}
    BY <2>1
  <2> QED
    BY <1>1, <2>2 DEF DigestInv, NumbersOK, HandOK
<1>3. /\ j \in DOMAIN digests /\ digests' \in Seq(DigestMails) /\ DOMAIN digests' = DOMAIN digests
      /\ j = (IF k = 1 THEN AtHand("mime") ELSE AtHand("plain"))
      /\ Len(digests') = Len(digests) /\ AtHand("mime") # AtHand("plain")
      /\ \A f \in Formats : AtHand(f) \in DOMAIN digests /\ AtHand(f)' = AtHand(f)
      /\ digests'[j].state = "ready"
      /\ \A i \in DOMAIN digests :
           /\ digests'[i].format = digests[i].format /\ digests'[i].msg = digests[i].msg
           /\ i # j => digests'[i] = digests[i]
  BY <1>1, <1>2, StateSet
<1>4. /\ g \in Formats /\ j = AtHand(g) /\ digests[j].format = g /\ digests[j].msg = MsgFile(g)
      /\ digests[j].state = "made"
  <2>1. digests[AtHand("mime")] \in DigestMails
    BY <1>2, <1>3 DEF Formats
  <2> QED
    BY <1>2, <1>3 DEF Formats
<1> HIDE DEF g, j, k
<1>5. MsgFile("mime")' = MsgFile("mime") /\ MsgFile("plain")' = MsgFile("plain")
  BY <1>1 DEF MsgFile
<1>6. NumbersOK'
  <2>1. \A i \in DOMAIN digests' : Range(digests'[i].msg) \subseteq 1..taken
    BY <1>3 DEF DigestInv, NumbersOK
  <2> QED
    BY <1>1, <1>3, <2>1 DEF DigestInv, NumbersOK
<1>7. HandOK'
  <2>1. \A f \in Formats : digests'[AtHand(f)'].format = f /\ digests'[AtHand(f)'].msg = MsgFile(f)'
    BY <1>2, <1>3, <1>5 DEF Formats
  <2>2. digests'[AtHand("mime")'].state # "made"
    BY <1>2, <1>3 DEF Formats
  <2>3. IF k = 2 THEN digests'[AtHand("plain")'].state = "ready"
        ELSE digests'[AtHand("plain")'].state = "made"
    BY <1>2, <1>3 DEF Formats
  <2>4. Len(digests') >= 2 /\ "mime" \in Formats /\ "plain" \in Formats
    BY <1>2, <1>3 DEF Formats
  <2>5. CASE k = 1
    <3>1. at' = "init" /\ step' = 2
      BY <1>1, <2>5
    <3> QED
      BY <2>1, <2>2, <2>3, <2>4, <2>5, <3>1 DEF HandOK
  <2>6. CASE k = 2
    <3>1. at' = "clear" /\ step' = 1
      BY <1>1, <2>6
    <3>2. \A f \in Formats : digests'[AtHand(f)'].state # "made"
      BY <2>2, <2>3, <2>6 DEF Formats
    <3> QED
      BY <2>1, <2>4, <3>1, <3>2 DEF HandOK
  <2> QED
    BY <1>2, <2>5, <2>6
<1>8. AddOK'
  BY <1>1, <1>2 DEF AddOK
<1>9. \A f : Valid(f)' = Valid(f) \cup (IF f = g THEN {j} ELSE {})
  BY <1>3, <1>4 DEF Valid
<1>10. \A f, m : Dup(m, f)' = Dup(m, f) \cup (IF f = g /\ m \in Range(MsgFile(g)) THEN {j} ELSE {})
  <2>1. \A f : \A i \in Valid(f) \cup {j} : digests'[i].msg = digests[i].msg
    BY <1>3 DEF Valid
  <2> QED
    BY <1>4, <1>9, <2>1 DEF Dup
<1>11. \A f \in Formats : LostIn(f)' \subseteq LostIn(f)
  <2>1. Accepted' = Accepted
    BY <1>1, <1>2 DEF Accepted
  <2>2. \A f : \A i \in Valid(f) : i \in Valid(f)' /\ digests'[i].msg = digests[i].msg
    BY <1>3, <1>9 DEF Valid
  <2>3. \A f : Held(f) \subseteq Held(f)'
    BY <1>1, <2>2 DEF Held
  <2> QED
    BY <2>1, <2>3 DEF LostIn
<1>12. ASSUME NEW f \in Formats, NEW m \in Nat
       PROVE  \/ /\ Cardinality(Dup(m, f)') <= Cardinality(Dup(m, f))
                 /\ Waits(m, f)' => Waits(m, f)
              \/ /\ Cardinality(Dup(m, f)') <= Cardinality(Dup(m, f)) + 1
                 /\ Waits(m, f) /\ ~Waits(m, f)'
  <2>1. m \in Range(MsgFile(f))' <=> m \in Range(MsgFile(f))
    BY <1>5 DEF Formats
  <2>2. CASE f = g /\ m \in Range(MsgFile(g))
    <3>1. Cardinality(Dup(m, f)') <= Cardinality(Dup(m, f)) + 1
      BY <1>2, <1>3, <1>10, DupMore
    <3>2. Waits(m, f)
      BY <1>1, <1>2, <2>2 DEF Waits, Window, g, k
    <3>3. ~Waits(m, f)'
      BY <1>1, <1>2, <2>2 DEF Waits, Window, g
    <3> QED
      BY <3>1, <3>2, <3>3
  <2>3. CASE ~(f = g /\ m \in Range(MsgFile(g)))
    <3>1. Dup(m, f)' \subseteq Dup(m, f)
      BY <1>10, <2>3
    <3>2. Cardinality(Dup(m, f)') <= Cardinality(Dup(m, f))
      BY <1>2, <1>3, <3>1, DupMore
    <3>3. m \in Range(MsgFile(f)) => (Window(f) => Window(f)')
      BY <1>1, <1>2 DEF Window, k
    <3> QED
      BY <2>1, <3>2, <3>3 DEF Waits
  <2> QED
    BY <2>2, <2>3
<1>13. crashes' \in Nat /\ up' \in BOOLEAN /\ crashes + 0 + Down' <= crashes' + Down
  BY <1>1, <1>2 DEF Down
<1>14. LostOK' /\ TwiceOK'
  <2>1. \A f \in Formats : \E x : LostIn(f)' \subseteq LostIn(f) \cup (IF 0 = 1 THEN {x} ELSE {})
    BY <1>11
  <2> QED
    BY <1>3, <1>12, <1>13, <2>1, CountStep
<1> QED
  BY <1>6, <1>7, <1>8, <1>14 DEF DigestInv

LEMMA ClearKeeps ==
  ASSUME DigestInv, Clear PROVE DigestInv'
<1> DEFINE w == ClearOrder[step]
<1>1. /\ at = "clear" /\ file' = [file EXCEPT ![w] = <<>>]
      /\ UNCHANGED <<taken, digests, digestno, up, crashes>>
      /\ IF step = 4 THEN at' = "record" /\ step' = 1 ELSE at' = "clear" /\ step' = step + 1
  BY FileNames DEF Clear, Along, Go, ListOnly, srv
<1>2. /\ step \in {1, 2, 3, 4} /\ Len(digests) >= 2 /\ digests \in Seq(DigestMails)
      /\ (\A f \in Formats : digests[AtHand(f)].format = f /\ digests[AtHand(f)].state # "made")
      /\ (step <= 2 => digests[AtHand("mime")].msg = MsgFile("mime"))
      /\ digests[AtHand("plain")].msg = MsgFile("plain")
      /\ file \in [Files -> Seq(Nat)] /\ crashes \in Nat /\ up \in BOOLEAN
  <2>1. step \in 1..4
    BY <1>1 DEF DigestInv, HandOK
  <2>2. step \in {1, 2, 3, 4}
    BY <2>1
  <2> QED
    BY <1>1, <2>2 DEF DigestInv, NumbersOK, HandOK
<1>3. w \in Files /\ \A f \in {"mime", "plain"} : <<"msg", f>> \in Files /\ (w = <<"msg", f>> <=> step = (IF f = "mime" THEN 2 ELSE 4))
  <2>1. w \in Files
    BY <1>2, FileNames
  <2>2. \A f \in {"mime", "plain"} : <<"msg", f>> \in Files /\ (w = <<"msg", f>> <=> step = (IF f = "mime" THEN 2 ELSE 4))
    BY <1>2, FileNames
  <2> QED
    BY <2>1, <2>2
<1> HIDE DEF w
<1>4. <<>> \in Seq(Nat) /\ Range(<<>>) = {}
  BY DEF Range
<1>5. /\ file' \in [Files -> Seq(Nat)] /\ file'[w] = <<>> /\ \A v \in Files \ {w} : file'[v] = file[v]
  BY <1>1, <1>2, <1>3, <1>4
<1>6. /\ MsgFile("mime")' = IF step = 2 THEN <<>> ELSE MsgFile("mime")
      /\ MsgFile("plain")' = IF step = 4 THEN <<>> ELSE MsgFile("plain")
  BY <1>3, <1>5 DEF MsgFile
<1>7. NumbersOK'
  <2>1. \A v \in Files : Range(file'[v]) \subseteq 1..taken
    BY <1>4, <1>5 DEF DigestInv, NumbersOK
  <2> QED
    BY <1>1, <1>5, <2>1 DEF DigestInv, NumbersOK
<1>8. \A f : AtHand(f)' = AtHand(f)
  BY <1>1 DEF AtHand
<1>9. HandOK'
  <2>1. CASE step = 4
    BY <1>1, <1>2, <1>8, <2>1 DEF HandOK
  <2>2. CASE step # 4
    <3>1. at' = "clear" /\ step' = step + 1 /\ step' \in 1..4 /\ MsgFile("plain")' = MsgFile("plain")
      BY <1>1, <1>2, <1>6, <2>2
    <3>2. step' <= 2 => step = 1 /\ MsgFile("mime")' = MsgFile("mime")
      BY <1>2, <1>6, <3>1
    <3> QED
      BY <1>1, <1>2, <1>8, <3>1, <3>2 DEF HandOK
  <2> QED
    BY <2>1, <2>2
<1>10. AddOK'
  BY <1>1 DEF AddOK
<1>11. \A f : Valid(f)' = Valid(f) /\ \A m : Dup(m, f)' = Dup(m, f)
  BY <1>1 DEF Valid, Dup
<1>12. \A f \in Formats : AtHand(f) \in Valid(f)
  <2>1. Len(digests) \in Nat /\ DOMAIN digests = 1..Len(digests)
    BY <1>2
  <2>2. \A f : AtHand(f) \in DOMAIN digests
    BY <1>2, <2>1 DEF AtHand
  <2> QED
    BY <1>2, <2>2 DEF Valid
<1>13. ASSUME NEW f \in Formats
       PROVE  LostIn(f)' \subseteq LostIn(f)
  <2>1. Accepted' = Accepted
    BY <1>1 DEF Accepted
  <2>2. UNION {Range(digests'[i].msg) : i \in Valid(f)'} = UNION {Range(digests[i].msg) : i \in Valid(f)}
    BY <1>1, <1>11
  <2>3. Range(MsgFile(f)) \subseteq Range(MsgFile(f))' \cup UNION {Range(digests[i].msg) : i \in Valid(f)}
    <3>1. CASE f = "mime" /\ step = 2
      BY <1>2, <1>12, <3>1
    <3>2. CASE f = "plain" /\ step = 4
      BY <1>2, <1>12, <3>2
    <3>3. CASE ~(f = "mime" /\ step = 2) /\ ~(f = "plain" /\ step = 4)
      BY <1>6, <3>3 DEF Formats
    <3> QED
      BY <3>1, <3>2, <3>3
  <2>4. Held(f) \subseteq Held(f)'
    BY <2>2, <2>3 DEF Held, MsgFile
  <2> QED
    BY <2>1, <2>4 DEF LostIn
<1>14. ASSUME NEW f \in Formats, NEW m \in Nat
       PROVE  Waits(m, f)' => Waits(m, f)
  <2>1. CASE f = "mime"
    <3>1. step > 2 => ~Window(f)
      <4>1. step > 2 => ~(step <= 2)
        BY <1>2
      <4> QED
        BY <1>1, <2>1, <4>1 DEF Window
    <3>2. step = 2 => ~(m \in Range(MsgFile(f))')
      BY <1>4, <1>6, <2>1
    <3>3. step = 1 => Window(f)'
      BY <1>1, <1>2, <2>1 DEF Window
    <3>4. step # 2 => MsgFile(f)' = MsgFile(f)
      BY <1>6, <2>1
    <3>5. step = 1 \/ step = 2 \/ step > 2
      BY <1>2
    <3> QED
      BY <3>1, <3>2, <3>3, <3>4, <3>5 DEF Waits
  <2>2. CASE f = "plain"
    <3>1. step = 4 => ~(m \in Range(MsgFile(f))')
      BY <1>4, <1>6, <2>2
    <3>2. step # 4 => Window(f)'
      BY <1>1, <2>2 DEF Window
    <3> QED
      BY <3>1, <3>2 DEF Waits
  <2> QED
    BY <2>1, <2>2 DEF Formats
<1>15. \A f \in Formats, m \in Nat : Cardinality(Dup(m, f)') <= Cardinality(Dup(m, f))
  BY <1>1, <1>2, <1>11, DupFinite
<1>16. crashes' \in Nat /\ up' \in BOOLEAN /\ crashes + 0 + Down' <= crashes' + Down
  BY <1>1, <1>2 DEF Down
<1>17. LostOK' /\ TwiceOK'
  <2>1. \A f \in Formats : \E x : LostIn(f)' \subseteq LostIn(f) \cup (IF 0 = 1 THEN {x} ELSE {})
    BY <1>13
  <2>2. digests' \in Seq(DigestMails)
    BY <1>1, <1>2
  <2> QED
    BY <1>14, <1>15, <1>16, <2>1, <2>2, CountStep
<1> QED
  BY <1>7, <1>9, <1>10, <1>17 DEF DigestInv

LEMMA SendDigestKeeps ==
  ASSUME DigestInv, SendDigest PROVE DigestInv'
<1> DEFINE k == step
           j == Nth(k)
<1>1. /\ at = "send" /\ SetState(j, "sent") /\ UNCHANGED <<taken, file, digestno, up, crashes>>
      /\ IF k = 2 THEN at' \in {"exit", "next"} /\ step' = 1 ELSE at' = "send" /\ step' = k + 1
  BY DEF SendDigest, Along, Go, ListOnly, srv, After
<1>2. /\ k \in {1, 2} /\ Len(digests) >= 2
      /\ (\A f \in Formats : digests[AtHand(f)].format = f /\ digests[AtHand(f)].state # "made")
      /\ digests \in Seq(DigestMails) /\ crashes \in Nat /\ up \in BOOLEAN
  <2>1. k \in 1..2
    BY <1>1 DEF DigestInv, HandOK
  <2>2. k \in {1, 2}
    BY <2>1
  <2> QED
    BY <1>1, <2>2 DEF DigestInv, NumbersOK, HandOK
<1>3. /\ j \in DOMAIN digests /\ digests' \in Seq(DigestMails) /\ DOMAIN digests' = DOMAIN digests
      /\ j = (IF k = 1 THEN AtHand("mime") ELSE AtHand("plain"))
      /\ Len(digests') = Len(digests) /\ AtHand("mime") # AtHand("plain")
      /\ \A f \in Formats : AtHand(f) \in DOMAIN digests /\ AtHand(f)' = AtHand(f)
      /\ digests'[j].state = "sent"
      /\ \A i \in DOMAIN digests :
           /\ digests'[i].format = digests[i].format /\ digests'[i].msg = digests[i].msg
           /\ i # j => digests'[i] = digests[i]
  BY <1>1, <1>2, StateSet
<1>4. digests[j].state # "made"
  BY <1>2, <1>3 DEF Formats
<1> HIDE DEF j, k
<1>5. NumbersOK'
  <2>1. \A i \in DOMAIN digests' : Range(digests'[i].msg) \subseteq 1..taken
    BY <1>3 DEF DigestInv, NumbersOK
  <2> QED
    BY <1>1, <1>3, <2>1 DEF DigestInv, NumbersOK
<1>6. HandOK'
  <2>1. \A f \in Formats : digests'[AtHand(f)'].format = f /\ digests'[AtHand(f)'].state # "made"
    <3> SUFFICES ASSUME NEW f \in Formats
                 PROVE  digests'[AtHand(f)].format = f /\ digests'[AtHand(f)].state # "made"
      BY <1>3
    <3> QED
      BY <1>2, <1>3, <1>4
  <2>2. CASE k = 1
    <3>1. at' = "send" /\ step' = 2
      BY <1>1, <2>2
    <3> QED
      BY <1>2, <1>3, <2>1, <3>1 DEF HandOK
  <2>3. CASE k = 2
    BY <1>1, <2>3 DEF HandOK
  <2> QED
    BY <1>2, <2>2, <2>3
<1>7. AddOK'
  BY <1>1 DEF AddOK
<1>8. \A i \in DOMAIN digests : digests'[i].state = "made" <=> digests[i].state = "made"
  BY <1>3, <1>4
<1>9. \A f : /\ UNION {Range(digests'[i].msg) : i \in Valid(f)'} = UNION {Range(digests[i].msg) : i \in Valid(f)}
             /\ \A m : Dup(m, f)' = Dup(m, f)
  BY <1>2, <1>3, <1>8, SameDigests
<1>10. \A f : LostIn(f)' = LostIn(f) /\ \A m : Waits(m, f)' <=> Waits(m, f)
  BY <1>1, <1>9 DEF LostIn, Accepted, Held, Waits, Window, MsgFile
<1>11. \A f \in Formats, m \in Nat : Cardinality(Dup(m, f)') <= Cardinality(Dup(m, f))
  BY <1>2, <1>3, <1>9, DupFinite
<1>12. crashes' \in Nat /\ up' \in BOOLEAN /\ crashes + 0 + Down' <= crashes' + Down
  BY <1>1, <1>2 DEF Down
<1>13. LostOK' /\ TwiceOK'
  BY <1>3, <1>10, <1>11, <1>12, CountStep
<1> QED
  BY <1>5, <1>6, <1>7, <1>13 DEF DigestInv

-----------------------------------------------------------------------------
LEMMA ListStepKeeps ==
  ASSUME DigestInv, DListStep PROVE DigestInv'
<1>1. digestno \in Nat /\ crashes \in Nat /\ up \in BOOLEAN
  BY DEF DigestInv, NumbersOK
<1>2. UNCHANGED <<up, crashes>> => crashes' \in Nat /\ up' \in BOOLEAN /\ crashes + Down' <= crashes' + Down
  BY <1>1 DEF Down
<1>3. CASE CheckSize
  <2>1. at = "size" /\ at' \in {"make", "next"} /\ UNCHANGED <<taken, file, digests, digestno, up, crashes>>
    BY <1>3 DEF CheckSize, Go, ListOnly, disk, srv
  <2> QED
    BY <1>1, <1>2, <2>1, FrameStep
<1>4. CASE Record
  <2>1. /\ at = "record" /\ at' = "number" /\ step' = 1
        /\ UNCHANGED <<taken, file, digests, digestno, up, crashes>>
    BY <1>4 DEF Record, Go, ListOnly, srv
  <2> QED
    BY <1>1, <1>2, <2>1, FrameStep
<1>5. CASE CountDigest
  <2>1. /\ at = "number" /\ at' = "send" /\ step' = 1 /\ digestno' = digestno + 1
        /\ UNCHANGED <<taken, file, digests, up, crashes>>
    BY <1>5 DEF CountDigest, Go, ListOnly, srv
  <2> QED
    BY <1>1, <1>2, <2>1, FrameStep
<1>6. CASE Exit
  <2>1. at \in {"exit", "next"} /\ at' = "idle" /\ UNCHANGED <<taken, file, digests, digestno, up, crashes>>
    BY <1>6 DEF Exit, Go, ListOnly, disk, srv
  <2> QED
    BY <1>1, <1>2, <2>1, FrameStep
<1> QED
  BY <1>3, <1>4, <1>5, <1>6, ResumeKeeps, PrepareKeeps, AddToDigestKeeps, MakeKeeps, InitItemsKeeps,
     ClearKeeps, SendDigestKeeps DEF DListStep

LEMMA ServerdKeeps ==
  ASSUME DigestInv, FoundStamp \/ DigestTime \/ SpawnDigest \/ ForkFails \/ SpawnForMail \/ NewDay
  PROVE  DigestInv'
<1>1. digestno \in Nat /\ crashes \in Nat /\ up \in BOOLEAN
  BY DEF DigestInv, NumbersOK
<1>2. UNCHANGED <<taken, file, digests, digestno, up, crashes>>
  BY DEF FoundStamp, DigestTime, SpawnDigest, ForkFails, SpawnForMail, NewDay, ServerdOnly, mails, srv
<1>3. crashes' \in Nat /\ up' \in BOOLEAN /\ crashes + Down' <= crashes' + Down
  BY <1>1, <1>2 DEF Down
<1>4. UNCHANGED <<at, step>> \/ (at = "idle" /\ at' = "resume")
  BY DEF FoundStamp, DigestTime, SpawnDigest, ForkFails, SpawnForMail, NewDay, listp, Busy
<1> QED
  BY <1>1, <1>2, <1>3, <1>4, FrameStep

LEMMA WorldKeeps ==
  ASSUME DigestInv, Arrive \/ DigestHour \/ Midnight \/ KillList \/ KillServerd \/ Restart
  PROVE  DigestInv'
<1>1. digestno \in Nat /\ crashes \in Nat /\ up \in BOOLEAN
  BY DEF DigestInv, NumbersOK
<1>2. CASE Arrive \/ DigestHour \/ Midnight
  <2>1. UNCHANGED <<taken, file, digests, digestno, up, crashes, at, step>>
    BY <1>2 DEF Arrive, DigestHour, Midnight, mails, disk, listp, srv
  <2>2. crashes' \in Nat /\ up' \in BOOLEAN /\ crashes + Down' <= crashes' + Down
    BY <1>1, <2>1 DEF Down
  <2> QED
    BY <1>1, <2>1, <2>2, FrameStep
<1>3. CASE KillList
  <2>1. /\ UNCHANGED <<taken, file, digests, digestno, up>> /\ at' = "idle" /\ crashes' = crashes + 1
    BY <1>3 DEF KillList, DCrash, Go, mails, disk, srv
  <2>2. crashes' \in Nat /\ up' \in BOOLEAN /\ crashes + 1 + Down' <= crashes' + Down
    BY <1>1, <2>1 DEF Down
  <2> QED
    BY <2>1, <2>2, EndStep
<1>4. CASE KillServerd
  <2>1. /\ UNCHANGED <<taken, file, digests, digestno, at, step>> /\ up = TRUE /\ up' = FALSE /\ crashes' = crashes + 1
    BY <1>1, <1>4 DEF KillServerd, DCrash, mails, disk, listp
  <2>3. Down = 0 /\ Down' = 1 /\ up' \in BOOLEAN
    BY <2>1 DEF Down
  <2>2. crashes' \in Nat /\ up' \in BOOLEAN /\ crashes + Down' <= crashes' + Down
    BY <1>1, <2>1, <2>3
  <2> QED
    BY <1>1, <2>1, <2>2, FrameStep
<1>5. CASE Restart
  <2>1. /\ UNCHANGED <<taken, file, digests, digestno, crashes>> /\ at' = "idle" /\ up = FALSE /\ up' = TRUE
    BY <1>1, <1>5 DEF Restart, Go, mails, disk
  <2>2. crashes' \in Nat /\ up' \in BOOLEAN /\ crashes + 1 + Down' <= crashes' + Down
    BY <1>1, <2>1 DEF Down
  <2> QED
    BY <2>1, <2>2, EndStep
<1> QED
  BY <1>2, <1>3, <1>4, <1>5

LEMMA DigestInit == DInit => DigestInv
<1> SUFFICES ASSUME DInit PROVE DigestInv
  OBVIOUS
<1>1. /\ taken = 0 /\ file = [w \in Files |-> <<>>] /\ digestno = 0 /\ digests = <<>>
      /\ at = "idle" /\ up = TRUE /\ crashes = 0
  BY DEF DInit
<1>2. <<>> \in Seq(Nat) /\ <<>> \in Seq(DigestMails) /\ DOMAIN digests = {} /\ Range(<<>>) = {}
  BY <1>1 DEF Range
<1>3. NumbersOK /\ HandOK /\ AddOK
  BY <1>1, <1>2 DEF NumbersOK, HandOK, AddOK
<1>4. \A f : LostIn(f) = {} /\ \A m : Dup(m, f) = {}
  BY <1>1, <1>2 DEF LostIn, Accepted, Dup, Valid
<1>5. \A f \in Formats, m \in Nat : ~Waits(m, f)
  BY <1>1, <1>2, FileNames DEF Waits, MsgFile, Formats
<1>6. Cardinality({}) = 0 /\ Down = 0
  BY <1>1, FS_EmptySet DEF Down
<1>7. LostOK
  <2>1. \A f \in Formats : Cardinality(LostIn(f)) = 0
    BY <1>4, <1>6
  <2> QED
    BY <1>1, <1>6, <2>1 DEF LostOK
<1>8. TwiceOK
  <2>1. \A f \in Formats, m \in Nat : Cardinality(Dup(m, f)) = 0
    BY <1>4, <1>6
  <2>2. \A f \in Formats, m \in Nat : (IF Waits(m, f) THEN 1 ELSE 0) = 0
    BY <1>5
  <2> QED
    BY <1>1, <1>6, <2>1, <2>2 DEF TwiceOK
<1> QED
  BY <1>3, <1>7, <1>8 DEF DigestInv

LEMMA DigestStep == DigestInv /\ [DNext]_dvars => DigestInv'
<1> SUFFICES ASSUME DigestInv, [DNext]_dvars PROVE DigestInv'
  OBVIOUS
<1>1. CASE UNCHANGED dvars
  <2>1. UNCHANGED <<taken, file, digests, digestno, up, crashes, at, step>>
    BY <1>1 DEF dvars, mails, disk, listp, srv
  <2>2. digestno' \in Nat /\ crashes' \in Nat /\ up' \in BOOLEAN /\ crashes + Down' <= crashes' + Down
    BY <2>1 DEF Down, DigestInv, NumbersOK
  <2> QED
    BY <2>1, <2>2, FrameStep
<1> QED
  BY <1>1, ListStepKeeps, ServerdKeeps, WorldKeeps DEF DNext

LEMMA DigestCounted == DigestInv => DigestedOnce
<1> SUFFICES ASSUME DigestInv, NEW f \in Formats
             PROVE  /\ Cardinality(Accepted \ Held(f)) <= crashes
                    /\ \A m \in 1..taken : Cardinality(Dup(m, f)) <= 1 + crashes
  BY DEF DigestedOnce, Accepted, Dup
<1>1. Down \in {0, 1} /\ crashes \in Nat /\ taken \in Nat /\ digests \in Seq(DigestMails)
  BY DEF Down, DigestInv, NumbersOK
<1> DEFINE c == Cardinality(LostIn(f))
<1>2. c \in Nat /\ c + Down <= crashes
  <2>1. c + Down <= crashes
    BY DEF DigestInv, LostOK
  <2>2. c \in Nat
    BY <1>1, LostMore DEF DigestInv
  <2> QED
    BY <2>1, <2>2
<1>3. c <= crashes
  <2> HIDE DEF c
  <2> QED
    BY <1>1, <1>2
<1>4. ASSUME NEW m \in 1..taken
      PROVE  Cardinality(Dup(m, f)) <= 1 + crashes
  <2> DEFINE a == Cardinality(Dup(m, f))
             v == IF Waits(m, f) THEN 1 ELSE 0
  <2>1. m \in Nat
    OBVIOUS
  <2>2. a + v + Down <= 1 + crashes /\ v \in {0, 1}
    BY <2>1 DEF DigestInv, TwiceOK
  <2>3. a \in Nat
    <3>1. IsFiniteSet(DOMAIN digests)
      <4>1. DOMAIN digests = 1..Len(digests) /\ Len(digests) \in Nat
        BY <1>1
      <4> QED
        BY <4>1, FS_Interval
    <3>2. Dup(m, f) \subseteq DOMAIN digests
      BY DEF Dup, Valid
    <3> QED
      BY <3>1, <3>2, FS_Subset, FS_CardinalityType
  <2> HIDE DEF a, v
  <2>4. a <= 1 + crashes
    BY <1>1, <2>2, <2>3
  <2> QED
    BY <2>4 DEF a
<1> QED
  BY <1>3, <1>4 DEF LostIn

\* In every state, what no digest holds and how often a message is in one is
\* bounded by the deaths: however many messages arrive, list processes and
\* serverd die and restart, and at whatever step.
THEOREM DigestsOnce == DSpec => []DigestedOnce
<1> QED
  BY DigestInit, DigestStep, DigestCounted, PTL DEF DSpec
=============================================================================

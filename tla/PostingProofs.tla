--------------------------- MODULE PostingProofs ----------------------------
(***************************************************************************)
(* Theorems about Posting for any messages, settings and listproc          *)
(* processes, and any number of messages, requests and deaths.             *)
(***************************************************************************)
EXTENDS Posting, SequenceTheorems, FiniteSetTheorems, FunctionTheorems, TLAPS

-----------------------------------------------------------------------------
(* Types *)

ListPcs == {"idle", "screen", "ids", "judge", "forward", "tag", "notify", "open", "append",
            "send", "sums", "out"}

\* The steps that write the history files, and what else goes on in a message's
\* screening.
Recording == CheckId \/ ReplaceIds \/ SaveSum \/ ReplaceSums

\* TypeOK in the parts that steps change together.
QueueType ==
  /\ options \in Settings /\ arrived \in 0..MaxMail[options] /\ mail \in Seq(Entries)
  /\ pc \in ListPcs /\ (pc = "idle" => cur = None) /\ (pc # "idle" => cur \in Entries)
HistoryType ==
  /\ ids \in Seq(Lines) /\ sums \in Seq(Lines) /\ temp \in Seq(Lines)
  /\ recorded \in Seq(Written) /\ lostAt \subseteq 0..Len(recorded)
TagType ==
  /\ tagged \in Seq(Messages) /\ notified \subseteq DOMAIN tagged /\ held \subseteq notified
  /\ (pc = "notify" => tagged # <<>>) /\ (pc \in {"open", "append"} => Len(tagged) \in notified)
  /\ forwarded \subseteq Messages /\ gone \in Seq(Nat) /\ Len(gone) = Len(tagged)
  /\ let \subseteq notified
DistType == dist \in [Messages -> Nat]
DiskType ==
  /\ file \in [Places -> SUBSET held]
  /\ fd \in [{List} \cup Listprocs -> Places \cup {Lost, None}]
ProcType ==
  /\ lock \in Listprocs \cup {None} /\ lp \in [Listprocs -> Work] /\ asked \in 0..MaxRequests
  /\ \A p \in Listprocs : ~At(p, "idle") /\ ~At(p, "exit") => lp[p].tags # <<>>
CountType == overlap \in BOOLEAN /\ crashes \in 0..MaxCrashes

LEMMA Parts ==
    TypeOK <=> /\ QueueType /\ HistoryType /\ TagType /\ DistType /\ DiskType /\ ProcType
               /\ CountType
  BY DEF TypeOK, QueueType, HistoryType, TagType, DistType, DiskType, ProcType, CountType, ListPcs

LEMMA Places4 ==
  /\ List \notin Places /\ Lost \notin Places /\ None \notin Places
  /\ List \notin Listprocs /\ Lost # None /\ List # None /\ Mod \in Places
  /\ Mod \notin Listprocs /\ Listprocs \subseteq Places
  BY PostingAssumption DEF Places

\* What is written to the history files is a line.
LEMMA LinesOf ==
    ASSUME NEW f \in Seq(Lines), NEW s \in Written
    PROVE  /\ Line(s) \in Lines /\ Append(f, Line(s)) \in Seq(Lines)
           /\ Full(f) => Shortened(f, s) \in Seq(Lines)
<1>1. Line(s) \in Lines
  BY PostingAssumption DEF Lines, Line
<1>2. Append(f, Line(s)) \in Seq(Lines)
  BY <1>1
<1>3. ASSUME Full(f) PROVE Shortened(f, s) \in Seq(Lines)
  <2>1. f # <<>> /\ 1 \in DOMAIN f /\ f[1] \in Lines
    BY <1>3, PostingAssumption DEF Full
  <2>2. CASE f[1].left = 1
    <3>1. Tail(f) \in Seq(Lines)
      BY <2>1
    <3> QED
      BY <1>1, <2>2, <3>1 DEF Shortened
  <2>3. CASE f[1].left # 1
    <3>1. f[1].left - 1 \in 1..LineLength /\ f[1].line \in Written
      BY <2>1, <2>3, PostingAssumption DEF Lines
    <3>2. [f[1] EXCEPT !.left = f[1].left - 1] \in Lines
      BY <2>1, <3>1 DEF Lines
    <3>3. [f EXCEPT ![1].left = @ - 1] \in Seq(Lines)
      BY <2>1, <3>2
    <3> QED
      BY <1>1, <2>3, <3>3 DEF Shortened
  <2> QED
    BY <2>2, <2>3
<1> QED
  BY <1>1, <1>2, <1>3

LEMMA IdsAndSums ==
    ASSUME NEW m \in Messages
    PROVE  Attr[m].id \in Written /\ Attr[m].sum \in Written
  BY DEF Written

LEMMA Gone ==
    ASSUME QueueType, NEW w \in ListPcs, pc # "idle", Go(w)
    PROVE  /\ pc' \in ListPcs /\ (pc' = "idle" => cur' = None) /\ (pc' # "idle" => cur' \in Entries)
           /\ pc' = w
  BY DEF QueueType, Go

LEMMA Routes ==
    ASSUME NEW m
    PROVE  Route(m) \in {"send", "forward", "tag", "idle"}
  BY DEF Route

LEMMA QueueStep ==
    ASSUME TypeOK, [Next]_vars
    PROVE  QueueType'
<1> USE Parts
<1>0. QueueType /\ cur \in Entries \cup {None} /\ (pc # "idle" => cur \in Entries)
  BY DEF QueueType
<1>1. CASE UNCHANGED <<options, world, listp>>
  BY <1>0, <1>1 DEF QueueType, world, listp
<1>2. ASSUME UNCHANGED <<options, world>>, pc # "idle", NEW w \in ListPcs, Go(w)
      PROVE  QueueType'
  <2>1. /\ pc' \in ListPcs /\ (pc' = "idle" => cur' = None) /\ (pc' # "idle" => cur' \in Entries)
    BY <1>0, <1>2, Gone
  <2> QED
    BY <1>0, <1>2, <2>1 DEF QueueType, world
<1>3. CASE Fetch
  <2>1. Head(mail) \in Entries /\ Tail(mail) \in Seq(Entries)
    BY <1>0, <1>3 DEF QueueType, Fetch
  <2> QED
    BY <1>0, <1>3, <2>1 DEF QueueType, Fetch, ListOnly, ListPcs
<1>4. CASE SkipChecks
  <2>1. UNCHANGED <<options, world>> /\ pc # "idle" /\ Go("out") /\ "out" \in ListPcs
    BY <1>4 DEF SkipChecks, ListOnly, ListPcs
  <2> QED
    BY <1>2, <2>1
<1>5. CASE Ignore \/ Reject \/ Forward \/ AppendModerated \/ Send \/ KillList
  <2>1. UNCHANGED <<options, world>> /\ pc # "idle" /\ Go("idle") /\ "idle" \in ListPcs
    BY <1>5 DEF Ignore, Reject, Forward, AppendModerated, Send, KillList, ListOnly, ListPcs
  <2> QED
    BY <1>2, <2>1
<1>6. CASE Accept
  <2>1. UNCHANGED <<options, world>> /\ pc # "idle" /\ Go(Route(cur.msg)) /\ Route(cur.msg) \in ListPcs
    BY <1>6, Routes DEF Accept, ListOnly, ListPcs
  <2> QED
    BY <1>2, <2>1
<1>15. CASE Recording
  <2>1. PICK w \in {"judge", "ids", "out", "sums"} : Go(w)
    BY <1>15 DEF Recording, CheckId, ReplaceIds, SaveSum, ReplaceSums
  <2>2. UNCHANGED <<options, world>> /\ pc # "idle" /\ w \in ListPcs
    BY <1>15 DEF Recording, CheckId, ReplaceIds, SaveSum, ReplaceSums, ListOnly, ListPcs
  <2> QED
    BY <1>2, <2>1, <2>2
<1>7. CASE GiveTag
  <2>1. UNCHANGED <<options, world>> /\ pc # "idle" /\ Go("notify") /\ "notify" \in ListPcs
    BY <1>7 DEF GiveTag, ListOnly, ListPcs
  <2> QED
    BY <1>2, <2>1
<1>8. CASE Notify
  <2>1. UNCHANGED <<options, world>> /\ pc # "idle" /\ Go("open") /\ "open" \in ListPcs
    BY <1>8 DEF Notify, ListOnly, ListPcs
  <2> QED
    BY <1>2, <2>1
<1>9. CASE OpenModerated
  <2>1. UNCHANGED <<options, world>> /\ pc # "idle" /\ Go("append") /\ "append" \in ListPcs
    BY <1>9 DEF OpenModerated, ListOnly, ListPcs
  <2> QED
    BY <1>2, <2>1
<1>10. ASSUME NEW m \in Messages, Arrive(m) PROVE QueueType'
  <2>1. [msg |-> m, approved |-> FALSE] \in Entries
    BY DEF Entries
  <2>2. mail' \in Seq(Entries)
    BY <1>0, <1>10, <2>1 DEF Arrive, QueueType
  <2>3. arrived' \in 0..MaxMail[options]
    BY <1>0, <1>10, PostingAssumption DEF Arrive, QueueType
  <2> QED
    BY <1>0, <1>10, <2>2, <2>3 DEF QueueType, Arrive, listp
<1>11. ASSUME NEW p \in Listprocs, ToMail(p) PROVE QueueType'
  <2>1. lp[p].tags \in Seq(notified) /\ lp[p].tags # <<>>
    BY <1>11 DEF ToMail, At, ProcType, Work
  <2>2. Tag(p) \in notified
    BY <2>1 DEF Tag
  <2>3. [msg |-> tagged[Tag(p)], approved |-> TRUE] \in Entries
    BY <2>2 DEF Entries, TagType
  <2>4. mail' \in Seq(Entries)
    BY <1>0, <1>11, <2>3 DEF ToMail, MailedTag, QueueType
  <2> QED
    BY <1>0, <1>11, <2>4 DEF QueueType, ToMail, ProcOnly, listp
<1>12. ASSUME NEW p \in Listprocs, ProcStep(p) \/ KillProc(p) PROVE QueueType'
  <2>1. CASE ToMail(p)
    BY <1>11, <2>1
  <2>2. CASE ~ToMail(p)
    BY <1>1, <1>12, <2>2 DEF ProcStep, Lock, Miss, Look, Unlink, Rename, MoveAway, Create, CopyBack,
       Exit, KillProc, ProcOnly, world
  <2> QED
    BY <2>1, <2>2
<1>13. ASSUME NEW p \in Listprocs, NEW tags, NEW a,
              Approve(p, tags, a) \/ Discard(p, tags, a)
       PROVE  QueueType'
  BY <1>1, <1>13 DEF Approve, Discard, Ask, ProcOnly, world
<1>14. CASE UNCHANGED vars
  BY <1>1, <1>14 DEF vars
<1> QED
  BY <1>3, <1>4, <1>5, <1>6, <1>7, <1>8, <1>9, <1>10, <1>12, <1>13, <1>14, <1>15
     DEF Next, Step, ListStep, Recording

-----------------------------------------------------------------------------
(* What each part of the state is changed by *)

LEMMA HistoryFrame ==
    ASSUME [Next]_vars, ~(Recording \/ KillList)
    PROVE  UNCHANGED history
<1>1. CASE ListStep
  BY <1>1 DEF ListStep, Recording, Fetch, SkipChecks, Ignore, Reject, Accept, Forward, GiveTag, Notify,
     OpenModerated, AppendModerated, Send
<1>2. ASSUME NEW m \in Messages, Arrive(m) PROVE UNCHANGED history
  BY <1>2 DEF Arrive
<1>3. ASSUME NEW p \in Listprocs, ProcStep(p) \/ KillProc(p) PROVE UNCHANGED history
  BY <1>3 DEF ProcStep, Lock, Miss, Look, ToMail, Unlink, Rename, MoveAway, Create, CopyBack,
     Exit, KillProc, ProcOnly
<1>4. ASSUME NEW p \in Listprocs, NEW tags, NEW a, Approve(p, tags, a) \/ Discard(p, tags, a)
      PROVE  UNCHANGED history
  BY <1>4 DEF Approve, Discard, Ask, ProcOnly
<1>5. CASE UNCHANGED vars
  BY <1>5 DEF vars
<1> QED
  BY <1>1, <1>2, <1>3, <1>4, <1>5 DEF Next, Step

LEMMA TagFrame ==
    ASSUME [Next]_vars, ~(Forward \/ GiveTag \/ Notify \/ AppendModerated)
    PROVE  UNCHANGED <<tagids, forwarded, held>>
<1>1. CASE ListStep \/ KillList
  BY <1>1 DEF ListStep, CheckId, ReplaceIds, SaveSum, ReplaceSums,
      Fetch, SkipChecks, Ignore, Reject, Accept, OpenModerated, Send, KillList,
     tagids, posted
<1>2. ASSUME NEW m \in Messages, Arrive(m) PROVE UNCHANGED <<tagids, forwarded, held>>
  BY <1>2 DEF Arrive, posted
<1>3. ASSUME NEW p \in Listprocs, ProcStep(p) \/ KillProc(p)
      PROVE  UNCHANGED <<tagids, forwarded, held>>
  BY <1>3 DEF ProcStep, Lock, Miss, Look, ToMail, Unlink, Rename, MoveAway, Create, CopyBack,
     Exit, KillProc, ProcOnly, posted
<1>4. ASSUME NEW p \in Listprocs, NEW tags, NEW a, Approve(p, tags, a) \/ Discard(p, tags, a)
      PROVE  UNCHANGED <<tagids, forwarded, held>>
  BY <1>4 DEF Approve, Discard, Ask, ProcOnly, posted
<1>5. CASE UNCHANGED vars
  BY <1>5 DEF vars, posted
<1> QED
  BY <1>1, <1>2, <1>3, <1>4, <1>5 DEF Next, Step

\* A step of a listproc process, its start and its death leave the list process alone.
LEMMA ProcAlone ==
    ASSUME NEW p, \/ ProcStep(p) \/ KillProc(p)
                  \/ \E tags \in Requests, a \in BOOLEAN : Approve(p, tags, a) \/ Discard(p, tags, a)
    PROVE  UNCHANGED <<options, arrived, listp, history, tagids, posted, held>>
<1>1. CASE ProcStep(p) \/ KillProc(p)
  BY <1>1 DEF ProcStep, Lock, Miss, Look, ToMail, Unlink, Rename, MoveAway, Create, CopyBack,
     Exit, KillProc, ProcOnly
<1>2. ASSUME NEW tags, NEW a, Approve(p, tags, a) \/ Discard(p, tags, a)
      PROVE  UNCHANGED <<options, arrived, listp, history, tagids, posted, held>>
  BY <1>2 DEF Approve, Discard, Ask, ProcOnly
<1> QED
  BY <1>1, <1>2

\* A step of the list process leaves the listproc processes alone.
LEMMA ListAlone ==
    ASSUME ListStep \/ KillList \/ \E m \in Messages : Arrive(m)
    PROVE  UNCHANGED <<options, requests, lock>> /\ (ListStep => UNCHANGED crashes)
<1>1. CASE ListStep
  BY <1>1 DEF ListStep, CheckId, ReplaceIds, SaveSum, ReplaceSums,
      Fetch, SkipChecks, Ignore, Reject, Accept, Forward, GiveTag, Notify,
     OpenModerated, AppendModerated, Send, ListOnly
<1>2. CASE ~ListStep
  BY <1>2 DEF KillList, Arrive
<1> QED
  BY <1>1, <1>2

LEMMA HistoryStep ==
    ASSUME TypeOK, [Next]_vars
    PROVE  HistoryType'
<1> USE Parts
<1>0. HistoryType
  OBVIOUS
<1>1. CASE UNCHANGED history
  BY <1>0, <1>1 DEF HistoryType, history
<1>2. ASSUME pc # "idle" PROVE Attr[cur.msg].id \in Written /\ Attr[cur.msg].sum \in Written
  BY <1>2, IdsAndSums DEF QueueType, Entries
<1>7. ASSUME NEW id \in Written, lostAt' = lostAt,
             recorded' = recorded \/ recorded' = Append(recorded, id)
      PROVE  recorded' \in Seq(Written) /\ lostAt' \subseteq 0..Len(recorded')
  <2>1. recorded \in Seq(Written) /\ Len(recorded) \in Nat /\ lostAt \subseteq 0..Len(recorded)
    BY <1>0 DEF HistoryType
  <2>2. recorded' \in Seq(Written) /\ Len(recorded') \in {Len(recorded), Len(recorded) + 1}
    BY <1>7, <2>1
  <2> QED
    BY <1>7, <2>1, <2>2
<1>3. CASE CheckId
  <2> DEFINE id == Attr[cur.msg].id
  <2>1. id \in Written /\ UNCHANGED <<sums, lostAt>>
    BY <1>2, <1>3 DEF CheckId
  <2>2. \/ UNCHANGED <<ids, temp, recorded>>
        \/ ids' = Append(ids, Line(id)) /\ recorded' = Append(recorded, id) /\ UNCHANGED temp
        \/ Full(ids) /\ ids' = <<>> /\ temp' = Shortened(ids, id) /\ UNCHANGED recorded
    BY <1>3 DEF CheckId
  <2> HIDE DEF id
  <2>3. Append(ids, Line(id)) \in Seq(Lines) /\ (Full(ids) => Shortened(ids, id) \in Seq(Lines))
    BY <1>0, <2>1, LinesOf DEF HistoryType
  <2>4. recorded' \in Seq(Written) /\ lostAt' \subseteq 0..Len(recorded')
    BY <1>7, <2>1, <2>2
  <2>5. ids' \in Seq(Lines) /\ temp' \in Seq(Lines)
    <3>1. <<>> \in Seq(Lines) /\ ids \in Seq(Lines) /\ temp \in Seq(Lines)
      BY <1>0 DEF HistoryType
    <3> QED
      BY <2>2, <2>3, <3>1
  <2> QED
    BY <1>0, <2>1, <2>4, <2>5 DEF HistoryType
<1>4. CASE ReplaceIds
  <2> DEFINE id == Attr[cur.msg].id
  <2>1. id \in Written /\ UNCHANGED <<sums, lostAt>> /\ ids' = temp /\ temp' = <<>>
        /\ recorded' = Append(recorded, id)
    BY <1>2, <1>4 DEF ReplaceIds
  <2> HIDE DEF id
  <2>2. recorded' \in Seq(Written) /\ lostAt' \subseteq 0..Len(recorded')
    BY <1>7, <2>1
  <2> QED
    BY <1>0, <2>1, <2>2 DEF HistoryType
<1>5. CASE SaveSum \/ ReplaceSums
  <2> DEFINE sum == Attr[cur.msg].sum
  <2>1. sum \in Written /\ UNCHANGED <<ids, recorded, lostAt>>
    BY <1>2, <1>5 DEF SaveSum, ReplaceSums
  <2>2. \/ sums' = Append(sums, Line(sum)) /\ UNCHANGED temp
        \/ Full(sums) /\ sums' = <<>> /\ temp' = Shortened(sums, sum)
        \/ sums' = temp /\ temp' = <<>>
    BY <1>5 DEF SaveSum, ReplaceSums
  <2> HIDE DEF sum
  <2>3. Append(sums, Line(sum)) \in Seq(Lines) /\ (Full(sums) => Shortened(sums, sum) \in Seq(Lines))
    BY <1>0, <2>1, LinesOf DEF HistoryType
  <2>4. sums' \in Seq(Lines) /\ temp' \in Seq(Lines)
    <3>1. <<>> \in Seq(Lines) /\ sums \in Seq(Lines) /\ temp \in Seq(Lines)
      BY <1>0 DEF HistoryType
    <3> QED
      BY <2>2, <2>3, <3>1
  <2> QED
    BY <1>0, <2>1, <2>4 DEF HistoryType
<1>6. CASE KillList
  <2>1. Len(recorded) \in 0..Len(recorded)
    BY <1>0 DEF HistoryType
  <2>2. lostAt' \subseteq 0..Len(recorded)
    BY <1>0, <1>6, <2>1 DEF HistoryType, KillList
  <2> QED
    BY <1>0, <1>6, <2>2 DEF HistoryType, KillList
<1> QED
  BY <1>1, <1>3, <1>4, <1>5, <1>6, HistoryFrame DEF Recording

\* Every tag has a count of what was decided.
LEMMA Counted ==
    ASSUME TypeOK
    PROVE  /\ gone \in Seq(Nat) /\ DOMAIN gone = DOMAIN tagged /\ crashes \in Nat
           /\ held \subseteq DOMAIN tagged /\ notified \subseteq DOMAIN tagged
           /\ \A t \in DOMAIN tagged : gone[t] \in Nat
<1>1. /\ gone \in Seq(Nat) /\ tagged \in Seq(Messages) /\ Len(gone) = Len(tagged)
      /\ notified \subseteq DOMAIN tagged /\ held \subseteq notified /\ crashes \in 0..MaxCrashes
  BY DEF TypeOK
<1>2. DOMAIN gone = 1..Len(gone) /\ DOMAIN tagged = 1..Len(tagged)
  BY <1>1
<1>3. \A t \in DOMAIN gone : gone[t] \in Nat
  BY <1>1
<1>4. crashes \in Nat
  BY <1>1, PostingAssumption
<1> QED
  BY <1>1, <1>2, <1>3, <1>4

\* A process at work has a tag before it.
LEMMA HasTag ==
    ASSUME TypeOK, NEW p \in Listprocs, ~At(p, "idle"), ~At(p, "exit")
    PROVE  /\ lp[p].tags \in Seq(notified) /\ lp[p].tags # <<>>
           /\ Tag(p) \in notified /\ Tag(p) \in DOMAIN tagged /\ Tag(p) \in DOMAIN gone
<1>1. lp[p].tags \in Seq(notified) /\ lp[p].tags # <<>>
  BY DEF TypeOK, Work
<1>2. Tag(p) \in notified
  BY <1>1 DEF Tag
<1> QED
  BY <1>1, <1>2, Counted

\* The tags of a request are such as the moderators were told of.
LEMMA RequestTags ==
    ASSUME NEW tags \in Requests
    PROVE  tags \in Seq(notified) /\ tags # <<>> /\ Range(tags) \subseteq notified
<1>1. PICK n \in 1..2 : tags \in [1..n -> notified]
  BY DEF Requests
<1>2. n \in Nat /\ n # 0
  BY <1>1
<1>3. tags \in Seq(notified) /\ Len(tags) = n
  BY <1>1, <1>2
<1> QED
  BY <1>1, <1>2, <1>3 DEF Range

LEMMA GoneType ==
    ASSUME TypeOK, NEW t \in DOMAIN tagged
    PROVE  /\ [gone EXCEPT ![t] = @ + 1] \in Seq(Nat)
           /\ Len([gone EXCEPT ![t] = @ + 1]) = Len(gone)
<1>1. t \in DOMAIN gone /\ gone \in Seq(Nat) /\ gone[t] + 1 \in Nat
  BY Counted
<1> QED
  BY <1>1

LEMMA TagStep ==
    ASSUME TypeOK, [Next]_vars
    PROVE  TagType'
<1> USE Parts
<1>0. TagType /\ QueueType
  OBVIOUS
<1>1. ASSUME UNCHANGED <<tagids, forwarded, held, gone, let>>, pc' \in {"notify", "open", "append"} => pc' = pc
      PROVE  TagType'
  BY <1>0, <1>1 DEF TagType, tagids
<1>2. CASE GiveTag
  <2>1. cur.msg \in Messages
    BY <1>0, <1>2 DEF GiveTag, QueueType, Entries
  <2>2. tagged' \in Seq(Messages) /\ gone' \in Seq(Nat) /\ Len(gone') = Len(tagged')
        /\ notified \subseteq DOMAIN tagged' /\ tagged' # <<>>
    BY <1>0, <1>2, <2>1 DEF GiveTag, TagType
  <2>3. pc' = "notify" /\ UNCHANGED <<notified, held, forwarded, let>>
    BY <1>2 DEF GiveTag, Go, ListOnly, posted, requests
  <2> QED
    BY <1>0, <2>2, <2>3 DEF TagType
<1>3. CASE Notify
  <2>1. tagged # <<>> /\ tagged \in Seq(Messages)
    BY <1>0, <1>3 DEF TagType, Notify
  <2>2. Len(tagged) \in DOMAIN tagged
    BY <2>1
  <2>3. notified' = notified \cup {Len(tagged)} /\ pc' = "open"
        /\ UNCHANGED <<tagged, held, forwarded, gone, let>>
    BY <1>3 DEF Notify, Go, ListOnly, posted, requests
  <2> QED
    BY <1>0, <2>2, <2>3 DEF TagType
<1>4. CASE Forward
  <2>1. cur.msg \in Messages
    BY <1>0, <1>4 DEF Forward, QueueType, Entries
  <2>2. forwarded' = forwarded \cup {cur.msg} /\ pc' = "idle"
        /\ UNCHANGED <<tagged, notified, held, gone, let>>
    BY <1>4 DEF Forward, Go, ListOnly, tagids, requests
  <2> QED
    BY <1>0, <2>1, <2>2 DEF TagType
<1>5. CASE OpenModerated
  <2>1. pc = "open" /\ pc' = "append" /\ UNCHANGED <<tagids, forwarded, held, gone, let>>
    BY <1>5 DEF OpenModerated, Go, ListOnly, posted, requests
  <2> QED
    BY <1>0, <2>1 DEF TagType, tagids
<1>6. CASE AppendModerated
  <2>1. /\ pc = "append" /\ pc' = "idle" /\ held' = held \cup {Len(tagged)}
        /\ UNCHANGED <<tagids, forwarded, gone, let>>
    BY <1>6 DEF AppendModerated, Go, ListOnly, posted, requests
  <2> QED
    BY <1>0, <2>1 DEF TagType, tagids
<1>7. CASE Fetch \/ SkipChecks \/ Recording \/ Ignore \/ Reject \/ Accept \/ Send \/ KillList
  <2>1. UNCHANGED <<tagids, forwarded, held, gone, let>>
    BY <1>7 DEF Fetch, SkipChecks, Recording, CheckId, ReplaceIds, SaveSum, ReplaceSums, Ignore, Reject,
         Accept, Send, KillList, ListOnly, posted, requests
  <2>2. pc' \in {"idle", "screen", "ids", "judge", "send", "sums", "out", "forward", "tag"}
    BY <1>7, Routes DEF Fetch, SkipChecks, Recording, CheckId, ReplaceIds, SaveSum, ReplaceSums, Ignore, Reject, Accept, Send, KillList, Go
  <2> QED
    BY <1>1, <2>1, <2>2
<1>8. ASSUME NEW m \in Messages, Arrive(m) PROVE TagType'
  BY <1>1, <1>8 DEF Arrive, posted, requests, listp
<1>9. ASSUME NEW p \in Listprocs, ProcStep(p) \/ KillProc(p) PROVE TagType'
  <2>1. UNCHANGED <<tagids, forwarded, held, pc>>
    BY <1>9, ProcAlone DEF posted, listp
  <2>2. CASE ToMail(p) \/ Rename(p)
    <3>1. ~At(p, "idle") /\ ~At(p, "exit")
      BY <2>2 DEF ToMail, Rename, At
    <3>2. Tag(p) \in DOMAIN tagged
      BY <3>1, HasTag
    <3>3. UNCHANGED let /\ (UNCHANGED gone \/ gone' = [gone EXCEPT ![Tag(p)] = @ + 1])
      BY <2>2 DEF ToMail, Rename, MailedTag
    <3>4. gone' \in Seq(Nat) /\ Len(gone') = Len(gone)
      BY <1>0, <3>2, <3>3, GoneType DEF TagType
    <3> QED
      BY <1>0, <2>1, <3>3, <3>4 DEF TagType, tagids
  <2>3. CASE ~(ToMail(p) \/ Rename(p))
    <3>1. UNCHANGED <<gone, let>>
      BY <1>9, <2>3 DEF ProcStep, Lock, Miss, Look, Unlink, MoveAway, Create, CopyBack, Exit, KillProc
    <3> QED
      BY <1>1, <2>1, <3>1
  <2> QED
    BY <2>2, <2>3
<1>10. ASSUME NEW p \in Listprocs, NEW tags \in Requests, NEW a \in BOOLEAN,
              Approve(p, tags, a) \/ Discard(p, tags, a)
       PROVE  TagType'
  <2>1. UNCHANGED <<tagids, forwarded, held, pc>>
    BY <1>10, ProcAlone DEF posted, listp
  <2>2. UNCHANGED gone /\ let' \subseteq let \cup Range(tags)
    BY <1>10 DEF Approve, Discard, Ask
  <2>3. let' \subseteq notified
    BY <1>0, <2>2, RequestTags DEF TagType
  <2> QED
    BY <1>0, <2>1, <2>2, <2>3 DEF TagType, tagids
<1>11. CASE UNCHANGED vars
  BY <1>1, <1>11 DEF vars, posted, listp, requests
<1> QED
  BY <1>2, <1>3, <1>4, <1>5, <1>6, <1>7, <1>8, <1>9, <1>10, <1>11
     DEF Next, Step, ListStep, Recording

LEMMA DistStep ==
    ASSUME TypeOK, [Next]_vars
    PROVE  DistType'
<1> USE Parts
<1>1. CASE UNCHANGED dist
  BY <1>1 DEF DistType
<1>2. CASE Send
  <2>1. PICK k : dist' = [dist EXCEPT ![k] = @ + 1]
    BY <1>2 DEF Send
  <2>2. dist' \in [Messages -> Nat]
    <3>1. CASE k \in Messages
      BY <2>1, <3>1 DEF DistType
    <3>2. CASE k \notin Messages
      BY <2>1, <3>2 DEF DistType
    <3> QED
      BY <3>1, <3>2
  <2> QED
    BY <2>2 DEF DistType
<1>3. CASE ListStep \/ KillList
  BY <1>1, <1>2, <1>3 DEF ListStep, CheckId, ReplaceIds, SaveSum, ReplaceSums,
      Fetch, SkipChecks, Ignore, Reject, Accept, Forward, GiveTag,
     Notify, OpenModerated, AppendModerated, KillList, posted
<1>4. ASSUME NEW m \in Messages, Arrive(m) PROVE DistType'
  BY <1>1, <1>4 DEF Arrive, posted
<1>5. CASE UNCHANGED vars
  BY <1>1, <1>5 DEF vars, posted
<1> QED
  BY <1>1, <1>3, <1>4, <1>5, ProcAlone DEF Next, Step, posted

\* The tags held are never fewer.
LEMMA HeldGrows ==
    ASSUME TypeOK, [Next]_vars
    PROVE  held \subseteq held' /\ notified \subseteq notified'
<1>1. CASE Forward \/ GiveTag \/ Notify \/ AppendModerated
  BY <1>1 DEF Forward, GiveTag, Notify, AppendModerated, tagids
<1> QED
  BY <1>1, TagFrame DEF tagids

\* A file descriptor follows its file.
LEMMA MovesType ==
    ASSUME DiskType, NEW from, NEW to \in Places \cup {Lost}
    PROVE  Moves(from, to) \in [{List} \cup Listprocs -> Places \cup {Lost, None}]
  BY DEF DiskType, Moves

LEMMA DiskStep ==
    ASSUME TypeOK, [Next]_vars
    PROVE  DiskType'
<1> USE Parts
<1> DEFINE Fds == [{List} \cup Listprocs -> Places \cup {Lost, None}]
<1>0. DiskType /\ file \in [Places -> SUBSET held] /\ fd \in Fds
  BY DEF DiskType
<1>a. held \subseteq held'
  BY HeldGrows
<1>b. SUFFICES file' \in [Places -> SUBSET held'] /\ fd' \in Fds
  BY DEF DiskType
<1>c. file \in [Places -> SUBSET held']
  BY <1>0, <1>a
<1>d. ASSUME NEW w \in Places, NEW f \in SUBSET held'
      PROVE  [file EXCEPT ![w] = f] \in [Places -> SUBSET held']
  BY <1>c
<1>1. CASE UNCHANGED modfile
  BY <1>0, <1>1, <1>c DEF modfile
<1>2. CASE OpenModerated
  BY <1>0, <1>2, <1>c, Places4 DEF OpenModerated
<1>3. CASE AppendModerated
  <2>1. held' = held \cup {Len(tagged)}
    BY <1>3 DEF AppendModerated
  <2>2. fd[List] \in Places \cup {Lost, None} /\ fd' \in Fds
    BY <1>0, <1>3 DEF AppendModerated
  <2>3. CASE fd[List] \in Places
    <3>1. file[fd[List]] \cup {Len(tagged)} \in SUBSET held'
      BY <1>c, <2>1, <2>3
    <3>2. file' = [file EXCEPT ![fd[List]] = file[fd[List]] \cup {Len(tagged)}]
      BY <1>3, <2>3, Places4 DEF AppendModerated
    <3> QED
      BY <1>d, <2>2, <2>3, <3>1, <3>2
  <2>4. CASE fd[List] \notin Places
    <3>1. file' = file \/ fd[List] = None
      BY <1>3, <2>2, <2>4 DEF AppendModerated
    <3>2. ASSUME fd[List] = None PROVE file' = file
      BY <1>0, <1>3, <3>2, Places4 DEF AppendModerated
    <3> QED
      BY <1>c, <2>2, <3>1, <3>2
  <2> QED
    BY <2>3, <2>4
<1>4. CASE ListStep
  BY <1>1, <1>2, <1>3, <1>4 DEF ListStep, CheckId, ReplaceIds, SaveSum, ReplaceSums,
      Fetch, SkipChecks, Ignore, Reject, Accept, Forward, GiveTag,
     Notify, Send
<1>5. CASE KillList
  BY <1>0, <1>5, <1>c DEF KillList
<1>6. ASSUME NEW m \in Messages, Arrive(m) PROVE UNCHANGED modfile
  BY <1>6 DEF Arrive
<1>7. ASSUME NEW p \in Listprocs, NEW tags, NEW a, Approve(p, tags, a) \/ Discard(p, tags, a)
      PROVE  UNCHANGED modfile
  BY <1>7 DEF Approve, Discard, Ask
<1>8. ASSUME NEW p \in Listprocs, Unlink(p)
      PROVE  file' \in [Places -> SUBSET held'] /\ fd' \in Fds
  BY <1>0, <1>8, <1>d, MovesType, Places4 DEF Unlink
<1>9. ASSUME NEW p \in Listprocs, Rename(p)
      PROVE  file' \in [Places -> SUBSET held'] /\ fd' \in Fds
  <2>1. Without(lp[p].snap, Tag(p)) \in SUBSET held'
    BY <1>a DEF Without, ProcType, Work
  <2> QED
    BY <1>0, <1>9, <1>d, <2>1, MovesType, Places4 DEF Rename
<1>10. ASSUME NEW p \in Listprocs, MoveAway(p)
       PROVE  file' \in [Places -> SUBSET held'] /\ fd' \in Fds
  BY <1>0, <1>10, <1>c, MovesType, Places4 DEF MoveAway
<1>11. ASSUME NEW p \in Listprocs, Create(p)
       PROVE  file' \in [Places -> SUBSET held'] /\ fd' \in Fds
  BY <1>0, <1>11, <1>d, Places4 DEF Create
<1>12. ASSUME NEW p \in Listprocs, CopyBack(p)
       PROVE  file' \in [Places -> SUBSET held'] /\ fd' \in Fds
  <2> DEFINE rest == Without(file[p], Tag(p))
             put  == IF fd[p] = Lost \/ rest = {} THEN file ELSE [file EXCEPT ![fd[p]] = rest]
  <2>1. p \in Places /\ rest \in SUBSET held'
    BY <1>c, Places4 DEF Without
  <2>2. put \in [Places -> SUBSET held']
    <3>1. CASE fd[p] \in Places
      BY <1>c, <1>d, <2>1, <3>1
    <3>2. CASE fd[p] \notin Places
      BY <1>c, <3>2
    <3> QED
      BY <3>1, <3>2
  <2>3. file' = [put EXCEPT ![p] = {}]
    BY <1>12 DEF CopyBack
  <2>4. fd' \in Fds
    BY <1>0, <1>12, MovesType DEF CopyBack
  <2> HIDE DEF put
  <2> QED
    BY <2>1, <2>2, <2>3, <2>4
<1>13. ASSUME NEW p \in Listprocs, KillProc(p)
       PROVE  file' \in [Places -> SUBSET held'] /\ fd' \in Fds
  <2>1. file' \in [Places -> SUBSET held']
    BY <1>13, <1>d, Places4 DEF KillProc
  <2>2. fd' \in Fds
    BY <1>0, <1>13, MovesType DEF KillProc
  <2> QED
    BY <2>1, <2>2
<1>14. ASSUME NEW p \in Listprocs, ProcStep(p)
       PROVE  file' \in [Places -> SUBSET held'] /\ fd' \in Fds
  <2>1. CASE Lock(p) \/ Miss(p) \/ Look(p) \/ ToMail(p) \/ Exit(p)
    BY <1>1, <2>1 DEF Lock, Miss, Look, ToMail, Exit
  <2> QED
    BY <1>8, <1>9, <1>10, <1>11, <1>12, <1>14, <2>1 DEF ProcStep
<1>15. CASE UNCHANGED vars
  BY <1>1, <1>15 DEF vars
<1> QED
  BY <1>1, <1>4, <1>5, <1>6, <1>7, <1>13, <1>14, <1>15 DEF Next, Step

\* Where the next tag leads: to the end, or to a request that has one.
LEMMA NextTagType ==
    ASSUME TypeOK, NEW p \in Listprocs, ~At(p, "idle"), ~At(p, "exit"), NextTag(p)
    PROVE  /\ lp' \in [Listprocs -> Work]
           /\ lp' = [lp EXCEPT ![p] = lp'[p]]
           /\ lp'[p].pc \in {"lock", "exit"} /\ lp'[p].op = lp[p].op
           /\ lp'[p].tags = Tail(lp[p].tags) /\ lp'[p].snap = {}
           /\ (lp'[p].pc # "exit" => lp'[p].tags # <<>>)
<1> DEFINE tags == Tail(lp[p].tags)
           where == IF Len(lp[p].tags) = 1 THEN "exit" ELSE "lock"
<1>1. lp \in [Listprocs -> Work] /\ lp[p] \in Work
  BY DEF TypeOK
<1>2. lp' = [lp EXCEPT ![p] = [lp[p] EXCEPT !.tags = tags, !.snap = {}, !.pc = where]]
  BY <1>1 DEF NextTag
<1>3. tags \in Seq(notified) /\ (where # "exit" => tags # <<>>)
  <2>1. lp[p].tags \in Seq(notified) /\ lp[p].tags # <<>>
    BY HasTag
  <2>2. tags \in Seq(notified) /\ Len(tags) = Len(lp[p].tags) - 1
    BY <2>1
  <2>3. ASSUME tags = <<>> PROVE Len(lp[p].tags) = 1
    <3>1. Len(lp[p].tags) \in Nat
      BY <2>1
    <3> HIDE DEF tags
    <3>2. Len(tags) = 0
      BY <2>3
    <3> QED
      BY <2>2, <3>1, <3>2
  <2> QED
    BY <2>2, <2>3
<1>4. where \in {"lock", "exit"}
  OBVIOUS
<1> HIDE DEF tags, where
<1>5. [lp[p] EXCEPT !.tags = tags, !.snap = {}, !.pc = where] \in Work
  BY <1>1, <1>3, <1>4 DEF Work
<1>6. lp'[p] = [lp[p] EXCEPT !.tags = tags, !.snap = {}, !.pc = where]
  BY <1>1, <1>2
<1>7. lp'[p].pc = where /\ lp'[p].op = lp[p].op /\ lp'[p].tags = tags /\ lp'[p].snap = {}
  BY <1>1, <1>6 DEF Work
<1>8. lp' = [lp EXCEPT ![p] = lp'[p]]
  BY <1>2, <1>6
<1> QED
  BY <1>1, <1>2, <1>3, <1>4, <1>5, <1>7, <1>8 DEF tags

LEMMA GotoType ==
    ASSUME TypeOK, NEW p \in Listprocs, ~At(p, "idle"), ~At(p, "exit"),
           NEW w \in {"look", "unlink", "rename", "create", "copy"}, Goto(p, w)
    PROVE  /\ lp' \in [Listprocs -> Work]
           /\ lp' = [lp EXCEPT ![p] = lp'[p]]
           /\ lp'[p].pc = w /\ lp'[p].op = lp[p].op
           /\ lp'[p].tags = lp[p].tags /\ lp'[p].snap = lp[p].snap
           /\ lp'[p].tags # <<>>
<1>1. lp \in [Listprocs -> Work] /\ lp[p] \in Work /\ lp[p].tags # <<>>
  BY HasTag DEF TypeOK
<1>2. lp' = [lp EXCEPT ![p] = [lp[p] EXCEPT !.pc = w]]
  BY <1>1 DEF Goto
<1>3. [lp[p] EXCEPT !.pc = w] \in Work
  BY <1>1 DEF Work
<1>4. lp'[p] = [lp[p] EXCEPT !.pc = w]
  BY <1>1, <1>2
<1>5. lp'[p].pc = w /\ lp'[p].op = lp[p].op /\ lp'[p].tags = lp[p].tags /\ lp'[p].snap = lp[p].snap
  BY <1>1, <1>4 DEF Work
<1>6. lp' = [lp EXCEPT ![p] = lp'[p]]
  BY <1>2, <1>4
<1> QED
  BY <1>1, <1>2, <1>3, <1>5, <1>6

LEMMA ProcTypeStep ==
    ASSUME TypeOK, [Next]_vars
    PROVE  ProcType'
<1> USE Parts
<1>0. ProcType /\ lock \in Listprocs \cup {None} /\ asked \in 0..MaxRequests
      /\ lp \in [Listprocs -> Work]
  BY DEF ProcType
<1>a. \A work : work \in Work => work \in Work'
  <2>1. held \subseteq held' /\ notified \subseteq notified'
    BY HeldGrows
  <2>2. \A tags \in Seq(notified) : tags \in Seq(notified')
    BY <2>1
  <2> QED
    BY <2>1, <2>2 DEF Work
<1>b. lp \in [Listprocs -> Work']
  BY <1>0, <1>a
<1>c. ASSUME UNCHANGED <<lp, asked, lock>> PROVE ProcType'
  BY <1>0, <1>b, <1>c DEF ProcType, At
<1>d. ASSUME NEW p \in Listprocs, lp' = [lp EXCEPT ![p] = lp'[p]], lp'[p] \in Work',
             lp'[p].pc \notin {"idle", "exit"} => lp'[p].tags # <<>>,
             lock' \in {lock, p, None}, asked' \in 0..MaxRequests
      PROVE  ProcType'
  <2>1. lp' \in [Listprocs -> Work']
    BY <1>b, <1>d
  <2>2. \A q \in Listprocs : q # p => lp'[q] = lp[q]
    BY <1>0, <1>d
  <2>3. \A q \in Listprocs : lp'[q].pc \notin {"idle", "exit"} => lp'[q].tags # <<>>
    BY <1>0, <1>d, <2>2 DEF ProcType, At
  <2> QED
    BY <1>0, <1>d, <2>1, <2>3 DEF ProcType, At
<1>1. CASE ListStep \/ KillList \/ \E m \in Messages : Arrive(m)
  BY <1>1, <1>c, ListAlone DEF requests
<1>2. ASSUME NEW p \in Listprocs, NextTag(p), ~At(p, "idle"), ~At(p, "exit"),
             lock' \in {lock, p, None}, UNCHANGED asked
      PROVE  ProcType'
  BY <1>0, <1>2, <1>a, <1>d, NextTagType
<1>3. ASSUME NEW p \in Listprocs, NEW w \in {"look", "unlink", "rename", "create", "copy"},
             Goto(p, w), ~At(p, "idle"), ~At(p, "exit"), lock' \in {lock, p, None}, UNCHANGED asked
      PROVE  ProcType'
  BY <1>0, <1>3, <1>a, <1>d, GotoType
<1>4. ASSUME NEW p \in Listprocs, lp' = [lp EXCEPT ![p] = Done], lock' \in {lock, p, None},
             UNCHANGED asked
      PROVE  ProcType'
  <2>1. lp'[p] = Done
    BY <1>0, <1>4
  <2>2. Done \in Work'
    BY DEF Done, Work
  <2> QED
    BY <1>0, <1>4, <1>d, <2>1, <2>2 DEF Done
<1>5. ASSUME NEW p \in Listprocs, Miss(p) \/ CopyBack(p) PROVE ProcType'
  BY <1>2, <1>5 DEF Miss, CopyBack, At
<1>6. ASSUME NEW p \in Listprocs, Lock(p) \/ ToMail(p) \/ Unlink(p) \/ MoveAway(p) \/ Create(p)
      PROVE  ProcType'
  <2>1. CASE Lock(p)
    BY <1>3, <2>1 DEF Lock, At
  <2>2. CASE ToMail(p)
    BY <1>3, <2>2 DEF ToMail, At
  <2>3. CASE Unlink(p)
    BY <1>3, <2>3 DEF Unlink, At
  <2>4. CASE MoveAway(p)
    BY <1>3, <2>4 DEF MoveAway, At
  <2>5. CASE Create(p)
    BY <1>3, <2>5 DEF Create, At
  <2> QED
    BY <1>6, <2>1, <2>2, <2>3, <2>4, <2>5
<1>7. ASSUME NEW p \in Listprocs, Look(p) PROVE ProcType'
  <2> DEFINE w == IF lp[p].op = "approve" THEN "mail" ELSE "unlink"
  <2>1. lp[p] \in Work /\ file[Mod] \in SUBSET held /\ w \in {"mail", "unlink"}
    BY <1>0, Places4 DEF DiskType
  <2> HIDE DEF w
  <2>2. [lp[p] EXCEPT !.pc = w, !.snap = file[Mod]] \in Work
    BY <2>1 DEF Work
  <2>3. lp' = [lp EXCEPT ![p] = [lp[p] EXCEPT !.pc = w, !.snap = file[Mod]]]
    BY <1>0, <1>7 DEF Look, w
  <2>4. lp'[p] = [lp[p] EXCEPT !.pc = w, !.snap = file[Mod]]
    BY <1>0, <2>3
  <2>5. lp'[p] \in Work' /\ lp' = [lp EXCEPT ![p] = lp'[p]]
    BY <1>a, <2>2, <2>3, <2>4
  <2>6. lp'[p].tags = lp[p].tags
    BY <2>1, <2>4 DEF Work
  <2>7. lp[p].tags # <<>>
    BY <1>7, HasTag DEF Look, At
  <2>8. UNCHANGED <<lock, asked>>
    BY <1>7 DEF Look
  <2> QED
    BY <1>0, <1>d, <2>5, <2>6, <2>7, <2>8
<1>8. ASSUME NEW p \in Listprocs, Rename(p) PROVE ProcType'
  <2>1. ~At(p, "idle") /\ ~At(p, "exit") /\ lock' = None /\ asked' = asked
    BY <1>8 DEF Rename, At
  <2>2. CASE lp[p].op # "approve"
    BY <1>2, <1>8, <2>1, <2>2 DEF Rename
  <2>3. CASE lp[p].op = "approve"
    <3>1. lp[p] \in Work /\ lp[p].tags # <<>>
      BY <1>0, <2>1, HasTag
    <3>2. lp' = [lp EXCEPT ![p] = [lp[p] EXCEPT !.pc = "mv", !.snap = {}]]
      BY <1>0, <1>8, <2>3 DEF Rename
    <3>3. [lp[p] EXCEPT !.pc = "mv", !.snap = {}] \in Work
      BY <3>1 DEF Work
    <3>4. lp'[p] = [lp[p] EXCEPT !.pc = "mv", !.snap = {}]
      BY <1>0, <3>2
    <3>5. lp'[p] \in Work' /\ lp' = [lp EXCEPT ![p] = lp'[p]]
      BY <1>a, <3>2, <3>3, <3>4
    <3>6. lp'[p].tags = lp[p].tags
      BY <3>1, <3>4 DEF Work
    <3> QED
      BY <1>0, <1>d, <2>1, <3>1, <3>5, <3>6
  <2> QED
    BY <2>2, <2>3
<1>9. ASSUME NEW p \in Listprocs, Exit(p) \/ KillProc(p) PROVE ProcType'
  BY <1>4, <1>9 DEF Exit, KillProc
<1>10. ASSUME NEW p \in Listprocs, NEW op \in {"approve", "discard"}, NEW tags \in Requests,
              NEW a \in BOOLEAN, Ask(p, op, tags, a)
       PROVE  ProcType'
  <2>1. asked' \in 0..MaxRequests /\ lock' = lock
    BY <1>0, <1>10, PostingAssumption DEF Ask
  <2>2. CASE ~a
    BY <1>0, <1>10, <1>b, <2>1, <2>2 DEF Ask, ProcType, At
  <2>3. CASE a
    <3> DEFINE r == [pc |-> "lock", op |-> op, tags |-> tags, snap |-> {}]
    <3>1. r \in Work
      BY RequestTags DEF Work
    <3>2. lp' = [lp EXCEPT ![p] = r]
      BY <1>10, <2>3 DEF Ask
    <3>3. lp'[p] = r
      BY <1>0, <3>2
    <3>4. r.tags # <<>>
      BY RequestTags
    <3> QED
      BY <1>0, <1>d, <1>a, <2>1, <3>1, <3>2, <3>3, <3>4
  <2> QED
    BY <2>2, <2>3
<1>11. CASE UNCHANGED vars
  BY <1>11, <1>c DEF vars, requests
<1> QED
  BY <1>1, <1>5, <1>6, <1>7, <1>8, <1>9, <1>10, <1>11 DEF Next, Step, ProcStep, Approve, Discard

LEMMA CountStep ==
    ASSUME TypeOK, [Next]_vars
    PROVE  CountType'
<1> USE Parts
<1>0. crashes \in 0..MaxCrashes /\ overlap \in BOOLEAN
  BY DEF CountType
<1>1. crashes' \in 0..MaxCrashes
  <2>1. CASE UNCHANGED crashes
    BY <1>0, <2>1
  <2>2. CASE Crash
    BY <1>0, <2>2, PostingAssumption DEF Crash
  <2>3. CASE ListStep \/ KillList
    BY <2>1, <2>2, <2>3, ListAlone DEF KillList
  <2>4. ASSUME NEW m \in Messages, Arrive(m) PROVE UNCHANGED crashes
    BY <2>4 DEF Arrive
  <2>5. ASSUME NEW p \in Listprocs, ProcStep(p) PROVE UNCHANGED crashes
    BY <2>5 DEF ProcStep, Lock, Miss, Look, ToMail, Unlink, Rename, MoveAway, Create, CopyBack, Exit
  <2>6. ASSUME NEW p \in Listprocs, NEW tags, NEW a, Approve(p, tags, a) \/ Discard(p, tags, a)
        PROVE  UNCHANGED crashes
    BY <2>6 DEF Approve, Discard, Ask
  <2>7. ASSUME NEW p \in Listprocs, KillProc(p) PROVE Crash
    BY <2>7 DEF KillProc
  <2>8. CASE UNCHANGED vars
    BY <2>1, <2>8 DEF vars
  <2> QED
    BY <2>1, <2>2, <2>3, <2>4, <2>5, <2>6, <2>7, <2>8 DEF Next, Step
<1>2. overlap' \in BOOLEAN
  <2>1. CASE Watch
    BY <1>0, <2>1 DEF Watch
  <2>2. CASE UNCHANGED vars
    BY <1>0, <2>2 DEF vars
  <2> QED
    BY <2>1, <2>2 DEF Next
<1> QED
  BY <1>1, <1>2 DEF CountType

LEMMA TypingInit == Init => TypeOK
<1> SUFFICES ASSUME Init PROVE TypeOK
  OBVIOUS
<1>1. QueueType
  BY PostingAssumption DEF Init, QueueType, ListPcs
<1>a. DistType
  BY DEF Init, DistType
<1>b. CountType
  <2>1. overlap \in BOOLEAN
    BY DEF Init
  <2>2. crashes \in 0..MaxCrashes
    BY PostingAssumption DEF Init
  <2> QED
    BY <2>1, <2>2 DEF CountType
<1>2. HistoryType
  <2>1. [line |-> None, left |-> LineLength] \in Lines
    BY PostingAssumption DEF Lines, Written
  <2>2. FullFile \in Seq(Lines)
    BY <2>1, PostingAssumption DEF FullFile
  <2>3. ids \in Seq(Lines) /\ sums \in Seq(Lines)
    <3>1. <<>> \in Seq(Lines) /\ ids \in {<<>>, FullFile} /\ sums = ids
      BY DEF Init
    <3> QED
      BY <2>2, <3>1
  <2> QED
    BY <2>3 DEF Init, HistoryType
<1>3. TagType
  BY DEF Init, TagType
<1>4. DiskType
  BY DEF Init, DiskType
<1>5. ProcType
  <2>1. Done \in Work
    BY DEF Done, Work
  <2>2. lp \in [Listprocs -> Work] /\ \A p \in Listprocs : lp[p] = Done
    BY <2>1 DEF Init
  <2> QED
    BY <2>2, PostingAssumption DEF Init, ProcType, At, Done
<1> QED
  BY <1>1, <1>a, <1>b, <1>2, <1>3, <1>4, <1>5, Parts

LEMMA TypingStep == TypeOK /\ [Next]_vars => TypeOK'
  <1>1. QueueType' /\ HistoryType' /\ TagType' /\ DistType' /\ DiskType' /\ ProcType' /\ CountType'
        => TypeOK'
    BY DEF TypeOK, QueueType, HistoryType, TagType, DistType, DiskType, ProcType, CountType, ListPcs
  <1> QED
    BY <1>1, QueueStep, HistoryStep, TagStep, DistStep, DiskStep, ProcTypeStep, CountStep

\* The types, and the tag in hand of the list process.
THEOREM PostingTyping == Spec => []TypeOK
  BY TypingInit, TypingStep, PTL DEF Spec

-----------------------------------------------------------------------------
(* The duplicates *)

\* What .message.ids holds: the first line alone may be mutilated, and only one that
\* is beyond the last MaxLines; these are the last Message-IDs recorded; and if
\* fewer than MaxLines are there, the others were lost.
Ends(f, r) == \A k \in Nat : k < Len(f) /\ k < Len(r) => f[Len(f) - k].line = r[Len(r) - k]
Sound(f) ==
  /\ \A i \in 2..Len(f) : f[i].left = LineLength
  /\ Len(f) <= MaxLines => \A i \in 1..Len(f) : f[i].left = LineLength
Reaches(f, r) ==
  \A k \in Nat : k < MaxLines /\ k < Len(r) => k < Len(f) \/ \E l \in lostAt : Len(r) - k <= l
Fine(f, r) == Sound(f) /\ Ends(f, r) /\ Reaches(f, r)

Apart(r) ==
  \A i, j \in DOMAIN r :
    i < j /\ r[i] = r[j] => j - i > MaxLines \/ \E l \in lostAt : i <= l /\ l < j

\* The file holds what was recorded, or its copy what is just about to be.
HistoryOK ==
  IF pc = "ids" THEN LET r == Append(recorded, Attr[cur.msg].id)
                     IN  ids = <<>> /\ Fine(temp, r) /\ Apart(r)
                ELSE Fine(ids, recorded)

\* A file with a line more.
Added(f, s) == IF Full(f) THEN Shortened(f, s) ELSE Append(f, Line(s))

\* A line added to a file moves the others, whether it takes something from the
\* start or not.
LEMMA LineAdded ==
    ASSUME NEW f \in Seq(Lines), NEW s \in Written, Sound(f),
           NEW g, g = Added(f, s)
    PROVE  /\ g \in Seq(Lines) /\ Sound(g) /\ Len(g) >= 1 /\ g[Len(g)].line = s
           /\ Len(g) > Len(f) \/ Len(g) >= MaxLines
           /\ \A k \in 1..(Len(g) - 1) : Len(f) - k + 1 \in DOMAIN f
                                         /\ g[Len(g) - k].line = f[Len(f) - k + 1].line
<1> DEFINE new == Line(s)
           cut == [f EXCEPT ![1].left = @ - 1]
<1>0. MaxLines \in Nat \ {0} /\ LineLength \in Nat \ {0} /\ Len(f) \in Nat
      /\ (Full(f) <=> Len(f) >= MaxLines)
  BY PostingAssumption DEF Full
<1>1. g \in Seq(Lines)
  BY LinesOf DEF Added
<1>2. new.line = s /\ new.left = LineLength
  BY DEF Line
<1>3. CASE Full(f) /\ f[1].left = 1
  <2> DEFINE t == Tail(f)
  <2>0. Len(f) >= 1
    BY <1>0, <1>3
  <2>1. g = Append(t, new)
    BY <1>0, <1>3 DEF Shortened, Added
  <2>2. t \in Seq(Lines) /\ Len(t) = Len(f) - 1 /\ \A i \in 1..(Len(f) - 1) : t[i] = f[i + 1]
    BY <1>0, <2>0
  <2> HIDE DEF t, new
  <2>3. Len(g) = Len(f) /\ g[Len(f)] = new /\ \A i \in 1..(Len(f) - 1) : g[i] = f[i + 1]
    BY <1>0, <2>1, <2>2
  <2>4. \A i \in 1..Len(g) : g[i].left = LineLength
    BY <1>0, <1>2, <2>3 DEF Sound
  <2>5. \A k \in 1..(Len(g) - 1) : Len(f) - k + 1 \in DOMAIN f
                                   /\ g[Len(g) - k].line = f[Len(f) - k + 1].line
    <3> TAKE k \in 1..(Len(g) - 1)
    <3>1. Len(f) - k \in 1..(Len(f) - 1) /\ Len(f) - k + 1 \in 1..Len(f)
      BY <1>0, <2>3
    <3>2. g[Len(f) - k] = f[Len(f) - k + 1]
      BY <2>3, <3>1
    <3> QED
      BY <1>0, <2>3, <3>1, <3>2
  <2> QED
    BY <1>0, <1>1, <1>2, <1>3, <2>0, <2>3, <2>4, <2>5 DEF Sound
<1>4. CASE Full(f) /\ f[1].left # 1
  <2>0. Len(f) >= 1
    BY <1>0, <1>4
  <2>1. g = Append(cut, new)
    BY <1>0, <1>4 DEF Shortened, Added
  <2>2. cut \in Seq(Lines) /\ Len(cut) = Len(f)
    <3>0. f[1] \in Lines
      BY <1>0, <2>0
    <3>1. f[1].left - 1 \in 1..LineLength /\ f[1].line \in Written
      BY <1>0, <1>4, <3>0 DEF Lines
    <3>2. [f[1] EXCEPT !.left = f[1].left - 1] \in Lines
      BY <3>0, <3>1 DEF Lines
    <3>3. f \in [1..Len(f) -> Lines] /\ 1 \in 1..Len(f)
      BY <1>0, <2>0
    <3>4. cut \in [1..Len(f) -> Lines]
      BY <3>2, <3>3
    <3> QED
      BY <1>0, <3>4
  <2>3. /\ \A i \in 2..Len(f) : cut[i] = f[i]
        /\ \A i \in 1..Len(f) : cut[i].line = f[i].line
    <3>1. \A i \in 2..Len(f) : cut[i] = f[i]
      BY <1>0
    <3>2. f[1] \in Lines /\ cut[1] = [f[1] EXCEPT !.left = f[1].left - 1]
      BY <1>0, <2>0
    <3>3. cut[1].line = f[1].line
      BY <3>2 DEF Lines
    <3> QED
      BY <1>0, <3>1, <3>3
  <2> HIDE DEF cut, new
  <2>4. Len(g) = Len(f) + 1 /\ g[Len(f) + 1] = new /\ \A i \in 1..Len(f) : g[i] = cut[i]
    BY <1>0, <2>1, <2>2
  <2>5. \A i \in 2..Len(g) : g[i].left = LineLength
    BY <1>0, <1>2, <2>3, <2>4 DEF Sound
  <2>6. \A k \in 1..(Len(g) - 1) : Len(f) - k + 1 \in DOMAIN f
                                   /\ g[Len(g) - k].line = f[Len(f) - k + 1].line
    BY <1>0, <2>3, <2>4
  <2>7. ~(Len(g) <= MaxLines)
    BY <1>0, <1>4, <2>4
  <2>8. Sound(g)
    BY <2>5, <2>7 DEF Sound
  <2>9. Len(g) >= 1 /\ g[Len(g)].line = s /\ Len(g) > Len(f)
    BY <1>0, <1>2, <2>4
  <2> QED
    BY <1>1, <2>6, <2>8, <2>9
<1>5. CASE ~Full(f)
  <2>1. g = Append(f, new)
    BY <1>5 DEF Added
  <2> HIDE DEF new
  <2>2. Len(g) = Len(f) + 1 /\ g[Len(f) + 1] = new /\ \A i \in 1..Len(f) : g[i] = f[i]
    BY <1>0, <2>1
  <2>3. \A i \in 1..Len(g) : g[i].left = LineLength
    BY <1>0, <1>2, <1>5, <2>2 DEF Sound
  <2>4. \A k \in 1..(Len(g) - 1) : Len(f) - k + 1 \in DOMAIN f
                                   /\ g[Len(g) - k].line = f[Len(f) - k + 1].line
    BY <1>0, <2>2
  <2>5. Sound(g)
    BY <1>0, <2>2, <2>3 DEF Sound
  <2>6. Len(g) >= 1 /\ g[Len(g)].line = s /\ Len(g) > Len(f)
    BY <1>0, <1>2, <2>2
  <2> QED
    BY <1>1, <2>4, <2>5, <2>6
<1> QED
  BY <1>3, <1>4, <1>5

\* A Message-ID that is recorded comes to the end of both.
LEMMA Recorded ==
    ASSUME NEW f \in Seq(Lines), NEW r \in Seq(Written), NEW s \in Written, Fine(f, r),
           NEW g, g = Added(f, s)
    PROVE  Fine(g, Append(r, s))
<1> DEFINE q == Append(r, s)
<1>1. /\ g \in Seq(Lines) /\ Sound(g) /\ Len(g) >= 1 /\ g[Len(g)].line = s
      /\ Len(g) > Len(f) \/ Len(g) >= MaxLines
      /\ \A k \in 1..(Len(g) - 1) : Len(f) - k + 1 \in DOMAIN f
                                    /\ g[Len(g) - k].line = f[Len(f) - k + 1].line
  <2>1. Sound(f)
    BY DEF Fine
  <2> QED
    BY <2>1, LineAdded
<1>0. Len(f) \in Nat /\ Len(g) \in Nat /\ Len(r) \in Nat /\ MaxLines \in Nat \ {0}
  BY <1>1, PostingAssumption
<1>2. Len(q) = Len(r) + 1 /\ q[Len(q)] = s /\ \A i \in 1..Len(r) : q[i] = r[i]
  OBVIOUS
<1> HIDE DEF q
<1>3. ASSUME NEW k \in Nat, k < Len(g), k < Len(q) PROVE g[Len(g) - k].line = q[Len(q) - k]
  <2>1. CASE k = 0
    BY <1>0, <1>1, <1>2, <2>1
  <2>2. CASE k # 0
    <3>1. g[Len(g) - k].line = f[Len(f) - (k - 1)].line /\ k - 1 < Len(f)
      BY <1>0, <1>1, <1>3, <2>2
    <3>2. q[Len(q) - k] = r[Len(r) - (k - 1)]
      BY <1>0, <1>2, <1>3, <2>2
    <3>3. k - 1 \in Nat /\ k - 1 < Len(r)
      BY <1>0, <1>2, <1>3, <2>2
    <3> QED
      BY <3>1, <3>2, <3>3 DEF Fine, Ends
  <2> QED
    BY <2>1, <2>2
<1>4. ASSUME NEW k \in Nat, k < MaxLines, k < Len(q)
      PROVE  k < Len(g) \/ \E l \in lostAt : Len(q) - k <= l
  <2>1. CASE k = 0 \/ Len(g) >= MaxLines
    BY <1>0, <1>1, <1>4, <2>1
  <2>2. CASE k # 0 /\ Len(g) > Len(f)
    <3>1. k - 1 \in Nat /\ k - 1 < MaxLines /\ k - 1 < Len(r) /\ Len(r) - (k - 1) = Len(q) - k
      BY <1>0, <1>2, <1>4, <2>2
    <3>2. k - 1 < Len(f) \/ \E l \in lostAt : Len(q) - k <= l
      BY <3>1 DEF Fine, Reaches
    <3> QED
      BY <1>0, <2>2, <3>1, <3>2
  <2> QED
    BY <1>1, <2>1, <2>2
<1> QED
  BY <1>1, <1>3, <1>4 DEF Fine, Ends, Reaches, q

\* One that was unknown is not among the last MaxLines that are still there.
LEMMA StayApart ==
    ASSUME NEW f \in Seq(Lines), NEW r \in Seq(Written), NEW s \in Written, Fine(f, r), Apart(r),
           ~InFile(f, s), lostAt \subseteq 0..Len(r)
    PROVE  Apart(Append(r, s))
<1> DEFINE q == Append(r, s)
<1>0. Len(f) \in Nat /\ Len(r) \in Nat /\ MaxLines \in Nat \ {0}
  BY PostingAssumption
<1>1. Len(q) = Len(r) + 1 /\ q[Len(q)] = s /\ DOMAIN q = 1..(Len(r) + 1) /\ DOMAIN r = 1..Len(r)
      /\ \A i \in 1..Len(r) : q[i] = r[i]
  OBVIOUS
<1> HIDE DEF q
<1>2. ASSUME NEW i \in 1..Len(r), r[i] = s, ~(Len(r) + 1 - i > MaxLines)
      PROVE  \E l \in lostAt : i <= l /\ l < Len(r) + 1
  <2> DEFINE k == Len(r) - i
  <2>1. k \in Nat /\ k < MaxLines /\ k < Len(r) /\ Len(r) - k = i
    BY <1>0, <1>2
  <2> HIDE DEF k
  <2>2. CASE k < Len(f)
    <3>1. Len(f) - k \in DOMAIN f /\ f[Len(f) - k].line = s
      BY <1>0, <1>2, <2>1, <2>2 DEF Fine, Ends
    <3>2. f[Len(f) - k].left = LineLength
      <4>1. CASE Len(f) <= MaxLines
        BY <1>0, <2>1, <2>2, <4>1 DEF Fine, Sound
      <4>2. CASE Len(f) > MaxLines
        <5>1. Len(f) - k \in 2..Len(f)
          BY <1>0, <2>1, <4>2
        <5> QED
          BY <5>1 DEF Fine, Sound
      <4> QED
        BY <1>0, <4>1, <4>2
    <3> QED
      BY <3>1, <3>2 DEF InFile
  <2>3. CASE ~(k < Len(f))
    <3>1. PICK l \in lostAt : i <= l
      BY <2>1, <2>3 DEF Fine, Reaches
    <3>2. l \in 0..Len(r)
      OBVIOUS
    <3> QED
      BY <1>0, <3>1, <3>2
  <2> QED
    BY <2>2, <2>3
<1>3. ASSUME NEW i \in DOMAIN q, NEW j \in DOMAIN q, i < j, q[i] = q[j]
      PROVE  j - i > MaxLines \/ \E l \in lostAt : i <= l /\ l < j
  <2>1. CASE j = Len(r) + 1
    <3>1. i \in 1..Len(r) /\ r[i] = s
      BY <1>0, <1>1, <1>3, <2>1
    <3> QED
      BY <1>2, <2>1, <3>1
  <2>2. CASE j # Len(r) + 1
    <3>1. i \in DOMAIN r /\ j \in DOMAIN r /\ r[i] = r[j]
      BY <1>0, <1>1, <1>3, <2>2
    <3> QED
      BY <1>3, <3>1 DEF Apart
  <2> QED
    BY <2>1, <2>2
<1> QED
  BY <1>3 DEF Apart, q

LEMMA DuplicatesInit == Init => HistoryOK /\ RepeatsFarApart
<1> SUFFICES ASSUME Init PROVE HistoryOK /\ RepeatsFarApart
  OBVIOUS
<1>1. MaxLines \in Nat \ {0}
  BY PostingAssumption
<1>2. ids \in {<<>>, FullFile} /\ recorded = <<>> /\ pc = "idle"
  BY DEF Init
<1>3. \A i \in 1..Len(ids) : ids[i].left = LineLength
  <2>1. CASE ids = <<>>
    BY <2>1
  <2>2. CASE ids = FullFile
    BY <1>1, <2>2 DEF FullFile
  <2> QED
    BY <1>2, <2>1, <2>2
<1>4. Len(recorded) = 0 /\ DOMAIN recorded = {}
  BY <1>2
<1>5. Len(ids) \in Nat
  <2>1. CASE ids = FullFile
    BY <1>1, <2>1 DEF FullFile
  <2> QED
    BY <1>2, <2>1
<1> QED
  BY <1>1, <1>2, <1>3, <1>4, <1>5 DEF HistoryOK, Fine, Sound, Ends, Reaches, RepeatsFarApart

LEMMA DuplicatesStep ==
    TypeOK /\ HistoryOK /\ RepeatsFarApart /\ [Next]_vars => HistoryOK' /\ RepeatsFarApart'
<1> SUFFICES ASSUME TypeOK, HistoryOK, RepeatsFarApart, [Next]_vars
             PROVE  HistoryOK' /\ RepeatsFarApart'
  OBVIOUS
<1> DEFINE s == Attr[cur.msg].id
           r == Append(recorded, s)
<1>0. /\ ids \in Seq(Lines) /\ temp \in Seq(Lines) /\ recorded \in Seq(Written)
      /\ lostAt \subseteq 0..Len(recorded) /\ Apart(recorded)
      /\ (pc # "idle" => cur \in Entries)
  BY DEF TypeOK, RepeatsFarApart, Apart
<1>1. pc # "idle" => s \in Written
  BY <1>0, IdsAndSums DEF Entries
<1>2. ASSUME UNCHANGED <<ids, recorded, lostAt>>, pc # "ids", pc' # "ids"
      PROVE  HistoryOK' /\ RepeatsFarApart'
  <2>1. Fine(ids, recorded)
    BY <1>2 DEF HistoryOK
  <2>2. Fine(ids, recorded)'
    BY <1>2, <2>1 DEF Fine, Sound, Ends, Reaches
  <2> QED
    BY <1>2, <2>2 DEF HistoryOK, RepeatsFarApart
<1>3. ASSUME UNCHANGED <<history, listp>> PROVE HistoryOK' /\ RepeatsFarApart'
  BY <1>3 DEF history, listp, HistoryOK, Fine, Sound, Ends, Reaches, Apart, RepeatsFarApart
<1>4. CASE CheckId
  <2>0. pc = "screen" /\ cur.msg \in Messages /\ s \in Written /\ Fine(ids, recorded) /\ UNCHANGED lostAt
        /\ (s # None => ~InFile(ids, s))
    BY <1>0, <1>1, <1>4 DEF CheckId, HistoryOK, Entries, KnownId
  <2>1. CASE s = None
    BY <1>2, <1>4, <2>0, <2>1 DEF CheckId, Go
  <2>2. CASE s # None /\ ~Full(ids)
    <3>1. ids' = Append(ids, Line(s)) /\ recorded' = r /\ pc' = "judge"
      BY <1>4, <2>2 DEF CheckId, Go
    <3> HIDE DEF s, r
    <3>2. Fine(Append(ids, Line(s)), Append(recorded, s)) /\ Apart(Append(recorded, s))
      BY <1>0, <2>0, <2>2, Recorded, StayApart DEF Added
    <3> USE DEF r
    <3>3. Fine(ids, recorded)' /\ Apart(recorded)'
      BY <2>0, <3>1, <3>2 DEF Fine, Sound, Ends, Reaches, Apart
    <3> QED
      BY <3>1, <3>3 DEF HistoryOK, Apart, RepeatsFarApart
  <2>3. CASE s # None /\ Full(ids)
    <3>1. /\ temp' = Shortened(ids, s) /\ ids' = <<>> /\ recorded' = recorded
          /\ pc' = "ids" /\ cur' = cur
      BY <1>4, <2>3 DEF CheckId, Go
    <3>4. Attr[cur'.msg].id = s
      BY <3>1
    <3> HIDE DEF s, r
    <3>2. Fine(Shortened(ids, s), Append(recorded, s)) /\ Apart(Append(recorded, s))
      BY <1>0, <2>0, <2>3, Recorded, StayApart DEF Added
    <3> DEFINE q == Append(recorded', Attr[cur'.msg].id)
    <3>3. Fine(temp, Append(recorded, Attr[cur.msg].id))' /\ Apart(Append(recorded, Attr[cur.msg].id))'
      BY <2>0, <3>1, <3>2, <3>4 DEF Fine, Sound, Ends, Reaches, Apart
    <3> QED
      BY <2>0, <3>1, <3>3 DEF HistoryOK, RepeatsFarApart
  <2> QED
    BY <2>1, <2>2, <2>3
<1>5. CASE ReplaceIds
  <2>1. pc = "ids" /\ pc' = "judge" /\ ids' = temp /\ recorded' = r /\ UNCHANGED lostAt
    BY <1>5 DEF ReplaceIds, Go
  <2>2. Fine(temp, r) /\ Apart(r)
    BY <2>1 DEF HistoryOK
  <2> HIDE DEF r
  <2>3. Fine(ids, recorded)' /\ Apart(recorded)'
    BY <2>1, <2>2 DEF Fine, Sound, Ends, Reaches, Apart
  <2> QED
    BY <2>1, <2>3 DEF HistoryOK, Apart, RepeatsFarApart
<1>6. CASE SaveSum \/ ReplaceSums
  BY <1>2, <1>6 DEF SaveSum, ReplaceSums, Go
<1>7. CASE KillList
  <2>1. pc' = "idle" /\ UNCHANGED <<ids, recorded>> /\ lostAt \subseteq lostAt'
    BY <1>7 DEF KillList, Go
  <2>2. RepeatsFarApart'
    BY <2>1 DEF RepeatsFarApart
  <2>3. CASE pc # "ids"
    BY <1>2, <1>7, <2>1, <2>3 DEF KillList
  <2>4. CASE pc = "ids"
    <3>1. Len(recorded) \in lostAt' /\ ids = <<>>
      BY <1>7, <2>4 DEF KillList, HistoryOK
    <3> QED
      BY <1>0, <2>1, <2>2, <3>1 DEF HistoryOK, Fine, Sound, Ends, Reaches
  <2> QED
    BY <2>3, <2>4
<1>8. CASE ListStep /\ ~Recording
  <2>1. pc # "ids" /\ pc' # "ids"
    BY <1>8, Routes DEF ListStep, Recording, Fetch, SkipChecks, Ignore, Reject, Accept, Forward, GiveTag,
       Notify, OpenModerated, AppendModerated, Send, Go
  <2>2. UNCHANGED history
    <3>1. ~KillList
      BY <1>8, ListAlone DEF KillList, Crash, TypeOK
    <3> QED
      BY <1>8, <3>1, HistoryFrame
  <2> QED
    BY <1>2, <2>1, <2>2 DEF history
<1>9. ASSUME NEW m \in Messages, Arrive(m) PROVE UNCHANGED <<history, listp>>
  BY <1>9 DEF Arrive
<1>10. CASE UNCHANGED vars
  BY <1>3, <1>10 DEF vars
<1> QED
  BY <1>3, <1>4, <1>5, <1>6, <1>7, <1>8, <1>9, <1>10, ProcAlone DEF Next, Step, Recording

\* A Message-ID passes again only after MaxLines others were recorded, for any
\* limit of the file, any length of its lines and any number of deaths, unless the
\* file was lost by one in between.
THEOREM PostingRepeats == Spec => []RepeatsFarApart
  BY TypingInit, TypingStep, DuplicatesInit, DuplicatesStep, PTL DEF Spec

-----------------------------------------------------------------------------
(* Who lets a message pass *)

Moderated == {"moderated", "edit"} \cap options = {"moderated"}
Sending == {"send", "sums", "out"}
LetGo(m)  == \E t \in let : tagged[t] = m
Passed(e) == e.approved => LetGo(e.msg)

\* Every process that approves works on tags it was asked to, and every message
\* that skips the checks was let go; the others that are sent come from those
\* who may.
Approval ==
  /\ \A p \in Listprocs : lp[p].op = "approve" => Range(lp[p].tags) \subseteq let
  /\ \A p \in Listprocs : At(p, "mail") => lp[p].op = "approve"
  /\ \A i \in DOMAIN mail : Passed(mail[i])
  /\ pc # "idle" => Passed(cur)
  /\ Moderated /\ pc \in Sending /\ ~cur.approved => Privileged(cur.msg)

LEMMA LetGrows ==
    ASSUME TypeOK, [Next]_vars
    PROVE  let \subseteq let' /\ \A m : LetGo(m) => LetGo(m)'
<1>2. let \subseteq let'
  <2>1. ASSUME NEW p \in Listprocs, ProcStep(p) \/ KillProc(p) PROVE UNCHANGED let
    BY <2>1 DEF ProcStep, Lock, Miss, Look, ToMail, Unlink, Rename, MoveAway, Create, CopyBack,
       Exit, KillProc
  <2>2. ASSUME NEW p \in Listprocs, NEW tags, NEW a, Approve(p, tags, a) \/ Discard(p, tags, a)
        PROVE  let \subseteq let'
    BY <2>2 DEF Approve, Discard, Ask
  <2>3. CASE UNCHANGED vars
    BY <2>3 DEF vars, requests
  <2> QED
    BY <2>1, <2>2, <2>3, ListAlone DEF Next, Step, requests
<1>3. \A t \in DOMAIN tagged : tagged'[t] = tagged[t]
  <2>1. CASE GiveTag
    BY <2>1 DEF GiveTag, TypeOK
  <2>2. CASE ~GiveTag
    <3>1. CASE Forward \/ Notify \/ AppendModerated
      BY <3>1 DEF Forward, Notify, AppendModerated, tagids
    <3> QED
      BY <2>2, <3>1, TagFrame DEF tagids
  <2> QED
    BY <2>1, <2>2
<1>4. \A t \in let : tagged'[t] = tagged[t]
  BY <1>3 DEF TypeOK
<1> QED
  BY <1>2, <1>4 DEF LetGo

LEMMA ApprovalProcs ==
    ASSUME TypeOK, Approval, [Next]_vars, NEW q \in Listprocs, lp'[q].op = "approve"
    PROVE  Range(lp'[q].tags) \subseteq let'
<1>0. lp \in [Listprocs -> Work] /\ let \subseteq let'
  BY LetGrows DEF TypeOK
<1>a. ASSUME NEW p \in Listprocs, NEW w, NEW s,
             lp' = [lp EXCEPT ![p] = [lp[p] EXCEPT !.pc = w, !.snap = s]]
      PROVE  lp'[q].op = lp[q].op /\ lp'[q].tags = lp[q].tags
  <2>1. CASE p = q
    <3>1. lp'[q] = [lp[q] EXCEPT !.pc = w, !.snap = s] /\ lp[q] \in Work
      BY <1>0, <1>a, <2>1
    <3> QED
      BY <3>1 DEF Work
  <2>2. CASE p # q
    BY <1>0, <1>a, <2>2
  <2> QED
    BY <2>1, <2>2
<1>1. ASSUME lp'[q].op = lp[q].op, lp'[q].tags = lp[q].tags
      PROVE  Range(lp'[q].tags) \subseteq let'
  BY <1>0, <1>1 DEF Approval
<1>2. ASSUME lp'[q] = lp[q] PROVE Range(lp'[q].tags) \subseteq let'
  BY <1>1, <1>2
<1>3. ASSUME NEW p \in Listprocs, NextTag(p), ~At(p, "idle"), ~At(p, "exit")
      PROVE  Range(lp'[q].tags) \subseteq let'
  <2>1. CASE p = q
    <3>1. lp'[q].op = lp[q].op /\ lp'[q].tags = Tail(lp[q].tags)
      BY <1>3, <2>1, NextTagType
    <3>2. lp[q].tags \in Seq(notified) /\ lp[q].tags # <<>>
      BY <1>3, <2>1, HasTag
    <3>3. Range(Tail(lp[q].tags)) \subseteq Range(lp[q].tags)
      BY <3>2 DEF Range
    <3> QED
      BY <1>0, <3>1, <3>3 DEF Approval
  <2>2. CASE p # q
    BY <1>0, <1>2, <1>3, <2>2, NextTagType
  <2> QED
    BY <2>1, <2>2
<1>4. ASSUME NEW p \in Listprocs, lp' = [lp EXCEPT ![p] = Done]
      PROVE  Range(lp'[q].tags) \subseteq let'
  <2>1. CASE p = q
    <3>1. lp'[q].tags = <<>>
      BY <1>0, <1>4, <2>1 DEF Done
    <3> QED
      BY <3>1 DEF Range
  <2>2. CASE p # q
    BY <1>0, <1>2, <1>4, <2>2
  <2> QED
    BY <2>1, <2>2
<1>5. ASSUME NEW p \in Listprocs, ProcStep(p) PROVE Range(lp'[q].tags) \subseteq let'
  <2>1. CASE Miss(p) \/ CopyBack(p)
    BY <1>3, <2>1 DEF Miss, CopyBack, At
  <2>2. CASE Lock(p) \/ ToMail(p) \/ Unlink(p) \/ MoveAway(p) \/ Create(p)
    <3>1. PICK w \in {"look", "unlink", "rename", "create", "copy"} : Goto(p, w)
      BY <2>2 DEF Lock, ToMail, Unlink, MoveAway, Create
    <3>2. ~At(p, "idle") /\ ~At(p, "exit")
      BY <2>2 DEF Lock, ToMail, Unlink, MoveAway, Create, At
    <3>3. lp'[q].op = lp[q].op /\ lp'[q].tags = lp[q].tags
      BY <1>0, <3>1, <3>2, GotoType
    <3> QED
      BY <1>1, <3>3
  <2>3. CASE Look(p)
    <3>1. lp'[q].op = lp[q].op /\ lp'[q].tags = lp[q].tags
      BY <1>0, <2>3 DEF Look, Work
    <3> QED
      BY <1>1, <3>1
  <2>4. CASE Rename(p)
    <3>1. CASE lp[p].op = "approve"
      <4>1. lp' = [lp EXCEPT ![p] = [lp[p] EXCEPT !.pc = "mv", !.snap = {}]]
        BY <1>0, <2>4, <3>1 DEF Rename
      <4> QED
        BY <1>1, <1>a, <4>1
    <3>2. CASE lp[p].op # "approve"
      BY <1>3, <2>4, <3>2 DEF Rename, At
    <3> QED
      BY <3>1, <3>2
  <2>5. CASE Exit(p)
    BY <1>4, <2>5 DEF Exit
  <2> QED
    BY <1>5, <2>1, <2>2, <2>3, <2>4, <2>5 DEF ProcStep
<1>6. ASSUME NEW p \in Listprocs, NEW op \in {"approve", "discard"}, NEW tags \in Requests,
             NEW a \in BOOLEAN, Ask(p, op, tags, a)
      PROVE  Range(lp'[q].tags) \subseteq let'
  <2>1. CASE ~a
    BY <1>2, <1>6, <2>1 DEF Ask
  <2>2. CASE a
    <3>1. lp' = [lp EXCEPT ![p] = [pc |-> "lock", op |-> op, tags |-> tags, snap |-> {}]]
          /\ let' = IF op = "approve" THEN let \cup Range(tags) ELSE let
      BY <1>6, <2>2 DEF Ask
    <3>2. CASE p = q
      <4>1. lp'[q].op = op /\ lp'[q].tags = tags
        BY <1>0, <3>1, <3>2
      <4> QED
        BY <3>1, <4>1
    <3>3. CASE p # q
      BY <1>0, <1>2, <3>1, <3>3
    <3> QED
      BY <3>2, <3>3
  <2> QED
    BY <2>1, <2>2
<1>7. ASSUME NEW p \in Listprocs, KillProc(p) PROVE Range(lp'[q].tags) \subseteq let'
  BY <1>4, <1>7 DEF KillProc
<1>8. CASE ListStep \/ KillList \/ \E m \in Messages : Arrive(m)
  BY <1>2, <1>8, ListAlone DEF requests
<1>9. CASE UNCHANGED vars
  BY <1>2, <1>9 DEF vars, requests
<1> QED
  BY <1>5, <1>6, <1>7, <1>8, <1>9 DEF Next, Step, Approve, Discard

LEMMA ApprovalMail ==
    ASSUME TypeOK, Approval, [Next]_vars, NEW i \in DOMAIN mail'
    PROVE  Passed(mail[i])'
<1>0. mail \in Seq(Entries)
  BY DEF TypeOK
<1>a. \A m : (\E t \in let : tagged[t] = m) => (\E t \in let' : tagged'[t] = m)
  BY LetGrows DEF LetGo
<1>b. ASSUME NEW e, Passed(e), mail'[i] = e PROVE Passed(mail[i])'
  BY <1>a, <1>b DEF Passed, LetGo
<1>1. ASSUME UNCHANGED mail PROVE Passed(mail[i])'
  BY <1>b, <1>1 DEF Approval
<1>2. ASSUME NEW e, mail' = Append(mail, e), Passed(e) PROVE Passed(mail[i])'
  <2>1. mail'[i] = e \/ (i \in DOMAIN mail /\ mail'[i] = mail[i])
    BY <1>0, <1>2
  <2> QED
    BY <1>b, <1>2, <2>1 DEF Approval
<1>3. CASE Fetch
  <2>1. mail' = Tail(mail) /\ mail # <<>>
    BY <1>3 DEF Fetch
  <2>2. i + 1 \in DOMAIN mail /\ mail'[i] = mail[i + 1]
    BY <1>0, <2>1
  <2> QED
    BY <1>b, <2>2 DEF Approval
<1>4. ASSUME NEW m \in Messages, Arrive(m) PROVE Passed(mail[i])'
  <2>1. Passed([msg |-> m, approved |-> FALSE])
    BY DEF Passed
  <2> QED
    BY <1>2, <1>4, <2>1 DEF Arrive
<1>5. ASSUME NEW p \in Listprocs, ToMail(p) PROVE Passed(mail[i])'
  <2>1. ~At(p, "idle") /\ ~At(p, "exit") /\ At(p, "mail")
    BY <1>5 DEF ToMail, At
  <2>2. Tag(p) \in Range(lp[p].tags)
    BY <2>1, HasTag DEF Tag, Range
  <2>3. lp[p].op = "approve"
    BY <2>1 DEF Approval
  <2>4. LetGo(tagged[Tag(p)])
    BY <2>2, <2>3 DEF Approval, LetGo
  <2>5. Passed([msg |-> tagged[Tag(p)], approved |-> TRUE])
    BY <2>4 DEF Passed
  <2> QED
    BY <1>2, <1>5, <2>5 DEF ToMail, MailedTag
<1>6. CASE ListStep \/ KillList
  BY <1>1, <1>3, <1>6 DEF ListStep, CheckId, ReplaceIds, SaveSum, ReplaceSums,
      SkipChecks, Ignore, Reject, Accept, Forward, GiveTag, Notify,
     OpenModerated, AppendModerated, Send, KillList, world
<1>7. ASSUME NEW p \in Listprocs, ProcStep(p) \/ KillProc(p), ~ToMail(p) PROVE UNCHANGED mail
  BY <1>7 DEF ProcStep, Lock, Miss, Look, Unlink, Rename, MoveAway, Create, CopyBack, Exit, KillProc
<1>8. ASSUME NEW p \in Listprocs, NEW tags, NEW a, Approve(p, tags, a) \/ Discard(p, tags, a)
      PROVE  UNCHANGED mail
  BY <1>8 DEF Approve, Discard, Ask
<1>9. CASE UNCHANGED vars
  BY <1>1, <1>9 DEF vars, world
<1> QED
  BY <1>1, <1>4, <1>5, <1>6, <1>7, <1>8, <1>9 DEF Next, Step

LEMMA ApprovalAtMail ==
    ASSUME TypeOK, Approval, [Next]_vars, NEW q \in Listprocs, lp'[q].pc = "mail"
    PROVE  lp'[q].op = "approve"
<1>0. lp \in [Listprocs -> Work]
  BY DEF TypeOK
<1>1. ASSUME lp'[q] = lp[q] PROVE lp'[q].op = "approve"
  BY <1>1 DEF Approval, At
<1>2. ASSUME NEW p \in Listprocs, NextTag(p), ~At(p, "idle"), ~At(p, "exit")
      PROVE  lp'[q].op = "approve"
  BY <1>0, <1>1, <1>2, NextTagType
<1>3. ASSUME NEW p \in Listprocs, NEW w \in {"look", "unlink", "rename", "create", "copy"},
             Goto(p, w), ~At(p, "idle"), ~At(p, "exit")
      PROVE  lp'[q].op = "approve"
  BY <1>0, <1>1, <1>3, GotoType
<1>4. ASSUME NEW p \in Listprocs, Look(p) PROVE lp'[q].op = "approve"
  <2>1. CASE p # q
    BY <1>0, <1>1, <1>4, <2>1 DEF Look
  <2>2. CASE p = q
    <3> DEFINE w == IF lp[p].op = "approve" THEN "mail" ELSE "unlink"
    <3>1. lp'[p] = [lp[p] EXCEPT !.pc = w, !.snap = file[Mod]]
      BY <1>0, <1>4 DEF Look
    <3> HIDE DEF w
    <3>2. lp'[p].pc = w /\ lp'[p].op = lp[p].op
      BY <1>0, <3>1 DEF Work
    <3> QED
      BY <2>2, <3>2 DEF w
  <2> QED
    BY <2>1, <2>2
<1>5. ASSUME NEW p \in Listprocs, Rename(p) PROVE lp'[q].op = "approve"
  <2>1. CASE lp[p].op # "approve"
    BY <1>2, <1>5, <2>1 DEF Rename, At
  <2>2. CASE lp[p].op = "approve"
    <3>1. p # q => lp'[q] = lp[q]
      BY <1>0, <1>5, <2>2 DEF Rename
    <3>2. p = q => lp'[q].pc = "mv"
      BY <1>0, <1>5, <2>2 DEF Rename, Work
    <3> QED
      BY <1>1, <3>1, <3>2
  <2> QED
    BY <2>1, <2>2
<1>6. ASSUME NEW p \in Listprocs, Exit(p) \/ KillProc(p) PROVE lp'[q].op = "approve"
  BY <1>0, <1>1, <1>6 DEF Exit, KillProc, Done
<1>7. ASSUME NEW p \in Listprocs, ProcStep(p) PROVE lp'[q].op = "approve"
  <2>1. CASE Miss(p) \/ CopyBack(p)
    BY <1>2, <2>1 DEF Miss, CopyBack, At
  <2>2. CASE Lock(p)
    BY <1>3, <2>2 DEF Lock, At
  <2>3. CASE ToMail(p)
    BY <1>3, <2>3 DEF ToMail, At
  <2>4. CASE Unlink(p)
    BY <1>3, <2>4 DEF Unlink, At
  <2>5. CASE MoveAway(p)
    BY <1>3, <2>5 DEF MoveAway, At
  <2>6. CASE Create(p)
    BY <1>3, <2>6 DEF Create, At
  <2> QED
    BY <1>4, <1>5, <1>6, <1>7, <2>1, <2>2, <2>3, <2>4, <2>5, <2>6 DEF ProcStep
<1>8. ASSUME NEW p \in Listprocs, NEW op, NEW tags, NEW a, Ask(p, op, tags, a)
      PROVE  lp'[q].op = "approve"
  BY <1>0, <1>1, <1>8 DEF Ask
<1>9. CASE ListStep \/ KillList \/ \E m \in Messages : Arrive(m)
  BY <1>1, <1>9, ListAlone DEF requests
<1>10. CASE UNCHANGED vars
  BY <1>1, <1>10 DEF vars, requests
<1> QED
  BY <1>6, <1>7, <1>8, <1>9, <1>10 DEF Next, Step, Approve, Discard

LEMMA ApprovalCur ==
    ASSUME TypeOK, Approval, [Next]_vars
    PROVE  /\ pc' # "idle" => Passed(cur)'
           /\ (Moderated /\ pc \in Sending /\ ~cur.approved => Privileged(cur.msg))'
<1>0. /\ \A e : Passed(e) => Passed(e)'
      /\ \A e : Passed(e)' <=> (e.approved => LetGo(e.msg)')
      /\ (pc # "idle" => Passed(cur))
  BY LetGrows DEF Passed, Approval
<1>a. options' = options
  BY ListAlone, ProcAlone DEF Next, Step, Arrive, vars
<1>1. ASSUME UNCHANGED listp
      PROVE  /\ pc' # "idle" => Passed(cur)'
             /\ (Moderated /\ pc \in Sending /\ ~cur.approved => Privileged(cur.msg))'
  BY <1>0, <1>1, <1>a DEF listp, Approval, Passed, LetGo, Moderated, Privileged
<1>2. ASSUME pc' = "idle"
      PROVE  /\ pc' # "idle" => Passed(cur)'
             /\ (Moderated /\ pc \in Sending /\ ~cur.approved => Privileged(cur.msg))'
  BY <1>2 DEF Sending
<1>3. ASSUME pc # "idle", cur' = cur, pc' # "idle", pc' \notin Sending
      PROVE  /\ pc' # "idle" => Passed(cur)'
             /\ (Moderated /\ pc \in Sending /\ ~cur.approved => Privileged(cur.msg))'
  BY <1>0, <1>3 DEF Passed
<1>4. CASE Fetch
  <2>1. mail # <<>> /\ mail \in Seq(Entries) /\ cur' = Head(mail) /\ pc' = "screen"
    BY <1>4 DEF Fetch, TypeOK
  <2>2. 1 \in DOMAIN mail /\ cur' = mail[1]
    BY <2>1
  <2>3. Passed(mail[1])
    BY <2>2 DEF Approval
  <2> QED
    BY <1>0, <2>1, <2>2, <2>3 DEF Passed, Sending
<1>5. CASE SkipChecks
  <2>1. pc # "idle" /\ pc' = "out" /\ cur' = cur /\ cur.approved
    BY <1>5 DEF SkipChecks, Go
  <2> QED
    BY <1>0, <2>1 DEF Passed
<1>6. CASE Ignore \/ Reject \/ Forward \/ AppendModerated \/ Send \/ KillList
  BY <1>2, <1>6 DEF Ignore, Reject, Forward, AppendModerated, Send, KillList, Go
<1>7. CASE Accept
  <2>1. pc # "idle" /\ pc' = Route(cur.msg) /\ (pc' # "idle" => cur' = cur)
    BY <1>7 DEF Accept, Go
  <2>2. CASE pc' = "send"
    <3>1. Moderated => Privileged(cur.msg)
      <4>1. ASSUME Moderated, ~Privileged(cur.msg) PROVE Route(cur.msg) # "send"
        BY <4>1 DEF Route, Moderated
      <4> QED
        BY <2>1, <2>2, <4>1
    <3>2. cur' = cur
      BY <2>1, <2>2
    <3> QED
      BY <1>0, <1>a, <2>1, <2>2, <3>1, <3>2 DEF Passed, Moderated, Privileged
  <2>3. pc' # "send" => pc' \notin Sending
    BY <2>1, Routes DEF Sending
  <2> QED
    BY <1>2, <1>3, <2>1, <2>2, <2>3
<1>8. CASE GiveTag \/ Notify \/ OpenModerated \/ CheckId \/ ReplaceIds
  <2>1. pc # "idle" /\ pc' \in {"notify", "open", "append", "judge", "ids"} /\ cur' = cur
    BY <1>8 DEF GiveTag, Notify, OpenModerated, CheckId, ReplaceIds, Go
  <2> QED
    BY <1>3, <2>1 DEF Sending
<1>11. CASE SaveSum \/ ReplaceSums
  <2>1. pc \in Sending /\ pc' \in Sending /\ pc # "idle" /\ pc' # "idle" /\ cur' = cur
    BY <1>11 DEF SaveSum, ReplaceSums, Go, Sending
  <2>2. Moderated' = Moderated
    BY <1>a DEF Moderated
  <2>3. Moderated /\ ~cur.approved => Privileged(cur.msg)
    BY <2>1 DEF Approval
  <2> QED
    BY <1>0, <2>1, <2>2, <2>3 DEF Passed, Privileged
<1>9. CASE UNCHANGED vars
  BY <1>1, <1>9 DEF vars
<1>10. ASSUME NEW m \in Messages, Arrive(m) PROVE UNCHANGED listp
  BY <1>10 DEF Arrive
<1> QED
  BY <1>1, <1>4, <1>5, <1>6, <1>7, <1>8, <1>9, <1>10, <1>11, ProcAlone DEF Next, Step, ListStep

LEMMA ApprovalStep ==
    ASSUME TypeOK, Approval, [Next]_vars
    PROVE  Approval'
<1>1. (\A p \in Listprocs : lp[p].op = "approve" => Range(lp[p].tags) \subseteq let)'
  BY ApprovalProcs
<1>2. (\A p \in Listprocs : At(p, "mail") => lp[p].op = "approve")'
  BY ApprovalAtMail DEF At
<1>3. (\A i \in DOMAIN mail : Passed(mail[i]))'
  BY ApprovalMail
<1> QED
  BY <1>1, <1>2, <1>3, ApprovalCur DEF Approval

LEMMA OnlyApprovedStep ==
    ASSUME TypeOK, Approval, OnlyApproved, [Next]_vars
    PROVE  OnlyApproved'
<1>0. /\ \A m : LetGo(m) => LetGo(m)'
      /\ \A m : LetGo(m)' <=> (\E t \in let : tagged[t] = m)'
  BY LetGrows DEF LetGo
<1>a. options' = options
  BY ListAlone, ProcAlone DEF Next, Step, Arrive, vars
<1>1. CASE UNCHANGED dist
  BY <1>0, <1>1, <1>a DEF OnlyApproved, LetGo
<1>2. CASE Send
  <2>1. SUFFICES ASSUME Moderated, NEW m \in Messages, dist'[m] > 0
                 PROVE  Privileged(m) \/ LetGo(m)'
    BY <1>0, <1>a DEF OnlyApproved, Moderated, Privileged
  <2>2. pc \in Sending /\ pc # "idle" /\ cur.msg \in Messages /\ dist \in [Messages -> Nat]
    BY <1>2 DEF Send, TypeOK, Entries, Sending
  <2>3. Outgoing(cur.msg) = cur.msg
    <3>1. "edit" \notin options
      BY <2>1 DEF Moderated
    <3> QED
      BY <3>1 DEF Outgoing
  <2>4. dist' = [dist EXCEPT ![cur.msg] = @ + 1]
    BY <1>2, <2>3 DEF Send
  <2>5. CASE m = cur.msg
    BY <1>0, <2>1, <2>2, <2>5 DEF Approval, Passed
  <2>6. CASE m # cur.msg
    <3>1. dist[m] > 0
      BY <2>1, <2>2, <2>4, <2>6
    <3>2. Privileged(m) \/ LetGo(m)
      BY <2>1, <3>1 DEF OnlyApproved, Moderated, LetGo
    <3> QED
      BY <1>0, <3>2
  <2> QED
    BY <2>5, <2>6
<1>3. CASE ListStep \/ KillList
  BY <1>1, <1>2, <1>3 DEF ListStep, CheckId, ReplaceIds, SaveSum, ReplaceSums,
      Fetch, SkipChecks, Ignore, Reject, Accept, Forward, GiveTag,
     Notify, OpenModerated, AppendModerated, KillList, posted
<1>4. ASSUME NEW m \in Messages, Arrive(m) PROVE UNCHANGED dist
  BY <1>4 DEF Arrive, posted
<1>5. CASE UNCHANGED vars
  BY <1>1, <1>5 DEF vars, posted
<1> QED
  BY <1>1, <1>3, <1>4, <1>5, ProcAlone DEF Next, Step, posted

LEMMA ApprovalInit == Init => Approval /\ OnlyApproved
<1> SUFFICES ASSUME Init PROVE Approval /\ OnlyApproved
  OBVIOUS
<1>1. \A p \in Listprocs : lp[p] = Done
  BY DEF Init
<1>2. Range(<<>>) = {}
  BY DEF Range
<1>3. Approval
  BY <1>1, <1>2 DEF Approval, Init, Done, At, Sending
<1>4. OnlyApproved
  BY DEF OnlyApproved, Init
<1> QED
  BY <1>3, <1>4

\* Nothing passes a moderated list without a moderator, whatever the messages,
\* the processes and the deaths.
THEOREM PostingApproved == Spec => []OnlyApproved
<1>1. TypeOK /\ Approval /\ OnlyApproved /\ [Next]_vars => TypeOK' /\ Approval' /\ OnlyApproved'
  BY TypingStep, ApprovalStep, OnlyApprovedStep
<1> QED
  BY TypingInit, ApprovalInit, <1>1, PTL DEF Spec

-----------------------------------------------------------------------------
(* One decision for each held message *)

Busy == {"mail", "unlink", "rename", "create", "copy"}

\* The lock keeps all others out from the reading of the moderated file to the
\* rename.
Locked == \A p \in Listprocs : lp[p].pc \in {"look", "mail", "unlink", "rename"} => lock = p

\* The list process has not written the tag in its hand; what it has not written,
\* nobody has decided.
FreshTag  == pc \in {"notify", "open", "append"} => Len(tagged) \notin held
Undecided == \A t \in DOMAIN tagged \ held : gone[t] = 0

\* A process goes on only with a tag it found in the file.
Found == \A p \in Listprocs : lp[p].pc \in {"mail", "unlink", "rename"} => Tag(p) \in lp[p].snap

\* Where a process is alone with the moderated file, and with the tag it removes.
OnlyOne == \A w, x \in Rewriting : w = x
FileOK(p) ==
  /\ lp[p].pc \in {"mail", "unlink"} => lp[p].snap = file[Mod]
  /\ lp[p].pc \in {"mail", "unlink", "rename"} => Tag(p) \in lp[p].snap
  /\ lp[p].pc \in {"rename", "create", "copy"} => file[Mod] = {}
  /\ lp[p].pc \in {"mv", "create", "copy"} => Tag(p) \in held \ Seen
  /\ fd[p] = IF At(p, "copy") THEN Mod ELSE None

Decided(t) ==
  /\ gone[t] <= 1 + crashes
  /\ Waiting(t) => gone[t] <= crashes
  /\ crashes = 0 /\ ~Waiting(t) => gone[t] = 1

Tidy ==
  /\ \A p \in Listprocs : FileOK(p)
  /\ pc = "append" => fd[List] = Mod
  /\ \A t \in held : Decided(t)
Alone == ~overlap => OnlyOne /\ Tidy

LEMMA Singles ==
    ASSUME NEW S, IsFiniteSet(S), ~(Cardinality(S) > 1), NEW w \in S, NEW x \in S
    PROVE  w = x
<1> SUFFICES ASSUME w # x PROVE FALSE
  OBVIOUS
<1>1. IsFiniteSet({w, x}) /\ Cardinality({w, x}) = 2
  <2>1. IsFiniteSet({w}) /\ Cardinality({w}) = 1
    BY FS_Singleton
  <2>2. {w, x} = {w} \cup {x}
    OBVIOUS
  <2>3. x \notin {w}
    OBVIOUS
  <2>4. Cardinality({w} \cup {x}) = Cardinality({w}) + 1 /\ IsFiniteSet({w} \cup {x})
    BY <2>1, <2>3, FS_AddElement
  <2> QED
    BY <2>1, <2>2, <2>4
<1>2. Cardinality({w, x}) <= Cardinality(S) /\ Cardinality(S) \in Nat
  BY FS_Subset, FS_CardinalityType
<1> QED
  BY <1>1, <1>2

LEMMA OneNext ==
    ASSUME Watch, ~overlap'
    PROVE  ~overlap /\ OnlyOne'
<1>1. ~overlap /\ ~(Cardinality(Rewriting') > 1)
  BY DEF Watch
<1>2. Rewriting' \subseteq Listprocs \cup {List}
  BY DEF Rewriting
<1>3. IsFiniteSet(Listprocs \cup {List})
  BY PostingAssumption, FS_AddElement
<1>4. IsFiniteSet(Rewriting')
  BY <1>2, <1>3, FS_Subset
<1> QED
  BY <1>1, <1>4, Singles DEF OnlyOne

\* While one process rewrites the file, no other does.
LEMMA Others ==
    ASSUME OnlyOne
    PROVE  /\ \A p, q \in Listprocs : lp[p].pc \in Busy /\ p # q => lp[q].pc \notin Busy
           /\ \A p \in Listprocs : lp[p].pc \in Busy => pc # "append"
  BY Places4 DEF OnlyOne, Rewriting, Busy

LEMMA OthersNext ==
    ASSUME OnlyOne'
    PROVE  /\ \A p, q \in Listprocs : lp'[p].pc \in Busy /\ p # q => lp'[q].pc \notin Busy
           /\ \A p \in Listprocs : lp'[p].pc \in Busy => pc' # "append"
  BY Places4 DEF OnlyOne, Rewriting, Busy

\* What a process that does not rewrite the file adds to what is seen: nothing.
LEMMA HoldsNothing ==
  /\ \A q : lp[q].pc \notin Busy => Holds(q) = {}
  /\ \A q : lp'[q].pc \notin Busy => Holds(q)' = {}
  BY DEF Busy, Holds, At

\* What is seen while one process may rewrite the file.
LEMMA Solo ==
    ASSUME NEW p \in Listprocs, \A q \in Listprocs \ {p} : lp[q].pc \notin Busy,
           \A q \in Listprocs \ {p} : lp'[q] = lp[q]
    PROVE  /\ Seen = file[Mod] \cup Holds(p) /\ Seen' = file'[Mod] \cup Holds(p)'
           /\ \A t : Leaving(t) <=> (At(p, "unlink") /\ lp[p].op = "approve" /\ Tag(p) = t)
           /\ \A t : Leaving(t)' <=> (lp'[p].pc = "unlink" /\ lp'[p].op = "approve"
                                      /\ Head(lp'[p].tags) = t)
<1>1. \A q \in Listprocs \ {p} : Holds(q) = {} /\ Holds(q)' = {}
  BY HoldsNothing
<1>2. Seen = file[Mod] \cup Holds(p)
  BY <1>1 DEF Seen
<1>3. Seen' = file'[Mod] \cup Holds(p)'
  BY <1>1 DEF Seen
<1>4. \A q \in Listprocs \ {p} : lp[q].pc # "unlink" /\ lp'[q].pc # "unlink"
  BY DEF Busy
<1>5. \A t : Leaving(t) <=> (At(p, "unlink") /\ lp[p].op = "approve" /\ Tag(p) = t)
  BY <1>4 DEF Leaving, At
<1>6. \A t : Leaving(t)' <=> (lp'[p].pc = "unlink" /\ lp'[p].op = "approve" /\ Head(lp'[p].tags) = t)
  BY <1>4 DEF Leaving, At, Tag
<1> QED
  BY <1>2, <1>3, <1>5, <1>6

\* A process that is not alone with the file and does not move.
LEMMA Bystander ==
    ASSUME NEW q \in Listprocs, lp'[q] = lp[q], lp[q].pc \notin Busy, fd'[q] = None,
           lp[q].pc = "mv" => Tag(q) \in held' \ Seen'
    PROVE  FileOK(q)'
  BY DEF FileOK, Busy, Tag, At

LEMMA StillDecided ==
    ASSUME NEW t, Decided(t), Waiting(t)' <=> Waiting(t), gone'[t] = gone[t], crashes' = crashes
    PROVE  Decided(t)'
  BY DEF Decided

\* Nothing that matters here changes.
LEMMA Untouched ==
    ASSUME TypeOK, Tidy, UNCHANGED <<lp, file, held, crashes>>,
           \A p \in Listprocs : fd'[p] = fd[p], \A t \in held : gone'[t] = gone[t],
           pc' = "append" => fd'[List] = Mod
    PROVE  Tidy'
<1>1. Seen' = Seen /\ \A t : Leaving(t)' <=> Leaving(t)
  BY DEF Seen, Holds, Without, Leaving, At, Tag
<1>2. \A p \in Listprocs : FileOK(p)'
  BY <1>1 DEF Tidy, FileOK, Tag, At
<1>3. \A t \in held' : Decided(t)'
  BY <1>1 DEF Tidy, Decided, Waiting
<1> QED
  BY <1>2, <1>3 DEF Tidy

LEMMA TidyList ==
    ASSUME TypeOK, FreshTag, Undecided, OnlyOne, OnlyOne', Tidy,
           ListStep \/ KillList \/ \E m \in Messages : Arrive(m)
    PROVE  Tidy'
<1> USE Places4
<1>0. /\ lp' = lp /\ (ListStep => crashes' = crashes)
      /\ fd \in [{List} \cup Listprocs -> Places \cup {Lost, None}]
      /\ file \in [Places -> SUBSET held]
  BY ListAlone DEF requests, TypeOK
<1>1. CASE Fetch \/ SkipChecks \/ Recording \/ Ignore \/ Reject \/ Accept \/ Forward \/ Notify \/ Send
  <2>1. UNCHANGED <<file, fd, held, gone>>
    BY <1>1 DEF Fetch, SkipChecks, Recording, CheckId, ReplaceIds, SaveSum, ReplaceSums,
         Ignore, Reject, Accept, Forward, Notify, Send, modfile
  <2>2. crashes' = crashes
    BY <1>1 DEF Fetch, SkipChecks, Recording, CheckId, ReplaceIds, SaveSum, ReplaceSums,
         Ignore, Reject, Accept, Forward, Notify, Send, ListOnly
  <2>3. pc' # "append"
    BY <1>1, Routes DEF Fetch, SkipChecks, Recording, CheckId, ReplaceIds, SaveSum, ReplaceSums,
         Ignore, Reject, Accept, Forward, Notify, Send, Go
  <2> QED
    BY <1>0, <2>1, <2>2, <2>3, Untouched
<1>2. CASE GiveTag
  <2>1. \A t \in held : gone'[t] = gone[t]
    BY <1>2 DEF GiveTag, TypeOK
  <2>2. UNCHANGED <<file, fd, held, crashes>> /\ pc' # "append"
    BY <1>2 DEF GiveTag, modfile, Go, ListOnly
  <2> QED
    BY <1>0, <2>1, <2>2, Untouched
<1>3. CASE OpenModerated
  <2>1. UNCHANGED <<file, held, gone, crashes>> /\ fd' = [fd EXCEPT ![List] = Mod]
    BY <1>3 DEF OpenModerated, ListOnly
  <2>2. fd'[List] = Mod /\ \A p \in Listprocs : fd'[p] = fd[p]
    BY <1>0, <2>1
  <2> QED
    BY <1>0, <2>1, <2>2, Untouched
<1>4. CASE AppendModerated
  <2> DEFINE n == Len(tagged)
  <2>1. pc = "append" /\ pc' = "idle" /\ fd[List] = Mod /\ n \notin held /\ gone[n] = 0
    <3>1. pc = "append" /\ pc' = "idle" /\ fd[List] = Mod /\ n \notin held
      BY <1>4 DEF AppendModerated, Go, Tidy, FreshTag
    <3>2. n \in DOMAIN tagged
      BY <3>1 DEF TypeOK
    <3> QED
      BY <3>1, <3>2 DEF Undecided
  <2>2. /\ file' = [file EXCEPT ![Mod] = @ \cup {n}] /\ held' = held \cup {n}
        /\ fd' = [fd EXCEPT ![List] = None] /\ gone' = gone /\ crashes' = crashes
    BY <1>4, <2>1 DEF AppendModerated, ListOnly
  <2>3. \A p \in Listprocs : lp[p].pc \notin Busy
    BY <2>1, Others
  <2>4. \A p \in Listprocs : Holds(p) = {} /\ Holds(p)' = {}
    BY <1>0, <2>3, HoldsNothing
  <2>5. Seen = file[Mod]
    BY <2>4 DEF Seen
  <2>6. Seen' = file'[Mod]
    BY <2>4 DEF Seen
  <2>7. Seen' = Seen \cup {n}
    BY <1>0, <2>2, <2>5, <2>6
  <2>8. \A t : ~Leaving(t) /\ ~Leaving(t)'
    BY <1>0, <2>3 DEF Leaving, At, Busy
  <2>9. ASSUME NEW p \in Listprocs PROVE FileOK(p)'
    <3>1. fd'[p] = fd[p] /\ fd[p] = None
      BY <1>0, <2>2, <2>3 DEF Tidy, FileOK, At, Busy
    <3>2. lp[p].pc = "mv" => Tag(p) \in held \ Seen
      BY DEF Tidy, FileOK
    <3> QED
      BY <1>0, <2>1, <2>2, <2>3, <2>7, <3>1, <3>2, Bystander
  <2>10. ASSUME NEW t \in held' PROVE Decided(t)'
    <3>1. CASE t = n
      <4>1. t \in Seen' /\ ~Leaving(t)'
        BY <2>7, <2>8, <3>1
      <4>2. crashes' \in Nat /\ gone'[t] = 0 /\ gone'[t] \in Nat
        BY <2>1, <2>2, <3>1 DEF TypeOK
      <4>3. Waiting(t)'
        BY <4>1 DEF Waiting
      <4>4. gone'[t] <= crashes' /\ gone'[t] <= 1 + crashes'
        <5>1. \A g, c \in Nat : g = 0 => g <= c /\ g <= 1 + c
          OBVIOUS
        <5> QED
          BY <4>2, <5>1
      <4> QED
        BY <4>3, <4>4 DEF Decided
    <3>2. CASE t # n
      <4>1. t \in held /\ (t \in Seen' <=> t \in Seen)
        BY <2>2, <2>7, <3>2
      <4>2. Decided(t)
        BY <4>1 DEF Tidy
      <4>3. Waiting(t) <=> Waiting(t)'
        BY <2>8, <4>1 DEF Waiting
      <4> QED
        BY <2>2, <4>2, <4>3, StillDecided
    <3> QED
      BY <3>1, <3>2
  <2> QED
    BY <2>1, <2>9, <2>10 DEF Tidy
<1>5. CASE KillList
  <2>1. /\ pc' = "idle" /\ fd' = [fd EXCEPT ![List] = None] /\ UNCHANGED <<file, held, gone>>
        /\ crashes' = crashes + 1
    BY <1>5 DEF KillList, Go, Crash
  <2>2. \A p \in Listprocs : fd'[p] = fd[p]
    BY <1>0, <2>1
  <2>3. Seen' = Seen /\ \A t : Leaving(t)' <=> Leaving(t)
    BY <1>0, <2>1 DEF Seen, Holds, Without, Leaving, At, Tag
  <2>4. \A p \in Listprocs : FileOK(p)'
    BY <1>0, <2>1, <2>2, <2>3 DEF Tidy, FileOK, Tag, At
  <2>5. ASSUME NEW t \in held' PROVE Decided(t)'
    <3>1. gone[t] \in Nat /\ crashes \in Nat
      BY <2>1, Counted
    <3>2. Decided(t) /\ (Waiting(t)' <=> Waiting(t))
      BY <2>1, <2>3 DEF Tidy, Waiting
    <3>3. gone'[t] <= 1 + crashes'
      BY <2>1, <3>1, <3>2 DEF Decided
    <3>4. Waiting(t)' => gone'[t] <= crashes'
      BY <2>1, <3>1, <3>2 DEF Decided
    <3>5. crashes' # 0
      BY <2>1, <3>1
    <3> QED
      BY <3>3, <3>4, <3>5 DEF Decided
  <2> QED
    BY <2>1, <2>4, <2>5 DEF Tidy
<1>6. ASSUME NEW m \in Messages, Arrive(m) PROVE Tidy'
  <2>1. UNCHANGED <<file, fd, held, gone, crashes, pc>>
    BY <1>6 DEF Arrive, modfile, listp
  <2>2. pc' = "append" => fd'[List] = Mod
    BY <2>1 DEF Tidy
  <2> QED
    BY <1>0, <2>1, <2>2, Untouched
<1> QED
  BY <1>1, <1>2, <1>3, <1>4, <1>5, <1>6 DEF ListStep, Recording

\* A process that is between two tags, or has not found the file yet.
LEMMA TidyQuiet ==
    ASSUME TypeOK, Tidy, NEW p \in Listprocs, lp[p].pc \notin Busy, lp[p].pc # "mv",
           lp'[p].pc \in {"idle", "lock", "look", "exit"},
           \A q \in Listprocs \ {p} : lp'[q] = lp[q],
           UNCHANGED <<file, fd, held, gone, crashes, pc>>
    PROVE  Tidy'
<1>1. lp'[p].pc \notin Busy
  BY DEF Busy
<1>2. \A q \in Listprocs : Holds(q)' = Holds(q)
  <2>1. Holds(p) = {} /\ Holds(p)' = {}
    BY <1>1, HoldsNothing
  <2>2. \A q \in Listprocs \ {p} : Holds(q)' = Holds(q)
    BY DEF Holds, Without, At, Tag
  <2> QED
    BY <2>1, <2>2
<1>3. Seen' = Seen
  BY <1>2 DEF Seen
<1>4. \A t : Leaving(t)' <=> Leaving(t)
  BY <1>1 DEF Leaving, Busy, At, Tag
<1>5. \A q \in Listprocs \ {p} : FileOK(q)'
  BY <1>3 DEF Tidy, FileOK, Tag, At
<1>6. FileOK(p)'
  BY <1>1 DEF Tidy, FileOK, At, Busy
<1>7. \A t \in held' : Decided(t)'
  BY <1>3, <1>4 DEF Tidy, Decided, Waiting
<1> QED
  BY <1>5, <1>6, <1>7 DEF Tidy

LEMMA TidyLook ==
    ASSUME TypeOK, OnlyOne', Tidy, NEW p \in Listprocs, Look(p)
    PROVE  Tidy'
<1> DEFINE w == IF lp[p].op = "approve" THEN "mail" ELSE "unlink"
<1>0. lp \in [Listprocs -> Work] /\ UNCHANGED <<file, fd, held, gone, crashes, pc>>
      /\ lp[p].pc = "look" /\ Tag(p) \in file[Mod]
  BY DEF TypeOK, Look, ProcOnly, modfile, listp, At
<1>1. lp'[p] = [lp[p] EXCEPT !.pc = w, !.snap = file[Mod]] /\ \A q \in Listprocs \ {p} : lp'[q] = lp[q]
  BY <1>0 DEF Look
<1>2. w \in {"mail", "unlink"} /\ (w = "unlink" => lp[p].op # "approve")
  OBVIOUS
<1> HIDE DEF w
<1>3. lp'[p].pc = w /\ lp'[p].op = lp[p].op /\ lp'[p].tags = lp[p].tags /\ lp'[p].snap = file[Mod]
  BY <1>0, <1>1 DEF Work
<1>4. lp'[p].pc \in Busy /\ lp[p].pc \notin Busy
  BY <1>0, <1>2, <1>3 DEF Busy
<1>5. \A q \in Listprocs \ {p} : lp[q].pc \notin Busy
  BY <1>1, <1>4, OthersNext
<1>6. Holds(p) = {} /\ Holds(p)' = {}
  BY <1>0, <1>2, <1>3 DEF Holds, At
<1>a. Seen = file[Mod] \cup Holds(p) /\ Seen' = file'[Mod] \cup Holds(p)'
  BY <1>1, <1>5, Solo
<1>7. Seen' = Seen
  BY <1>0, <1>6, <1>a
<1>8. \A t : Leaving(t)' <=> Leaving(t)
  BY <1>0, <1>1, <1>2, <1>3, <1>5, Solo DEF At
<1>9. ASSUME NEW q \in Listprocs PROVE FileOK(q)'
  <2>1. CASE q = p
    <3>1. fd'[p] = None /\ lp'[p].pc # "copy"
      BY <1>0, <1>2, <1>3 DEF Tidy, FileOK, At
    <3>2. lp'[p].snap = file'[Mod] /\ Tag(p)' \in lp'[p].snap
      BY <1>0, <1>3 DEF Tag
    <3>3. lp'[p].pc \in {"mail", "unlink"}
      BY <1>2, <1>3
    <3> QED
      BY <2>1, <3>1, <3>2, <3>3 DEF FileOK, At
  <2>2. CASE q # p
    <3>1. fd'[q] = None
      BY <1>0, <1>5, <2>2 DEF Tidy, FileOK, At, Busy
    <3> QED
      BY <1>0, <1>1, <1>5, <1>7, <2>2, <3>1, Bystander DEF Tidy, FileOK
  <2> QED
    BY <2>1, <2>2
<1>10. ASSUME NEW t \in held' PROVE Decided(t)'
  <2>1. t \in held /\ Decided(t)
    BY <1>0 DEF Tidy
  <2>2. Waiting(t)' <=> Waiting(t)
    BY <1>7, <1>8 DEF Waiting
  <2> QED
    BY <1>0, <2>1, <2>2, StillDecided
<1> QED
  BY <1>0, <1>9, <1>10 DEF Tidy

\* Facts about a process p at work on the file that takes a step: it is alone.
LEMMA Worker ==
    ASSUME TypeOK, OnlyOne, OnlyOne', Tidy, NEW p \in Listprocs,
           lp[p].pc \in Busy \/ lp'[p].pc \in Busy, lp[p].pc \notin {"idle", "exit"},
           \A q \in Listprocs \ {p} : lp'[q] = lp[q], pc' = pc
    PROVE  /\ \A q \in Listprocs \ {p} : lp[q].pc \notin Busy /\ fd[q] = None
           /\ pc # "append" /\ pc' # "append"
           /\ Tag(p) \in DOMAIN gone
           /\ FileOK(p) /\ \A t \in held : Decided(t)
           /\ crashes \in Nat /\ \A t \in held : t \in DOMAIN gone /\ gone[t] \in Nat
<1>1. pc # "append" /\ pc' # "append"
  BY Others, OthersNext
<1>2. \A q \in Listprocs \ {p} : lp[q].pc \notin Busy
  BY Others, OthersNext
<1>3. \A q \in Listprocs \ {p} : fd[q] = None
  BY <1>2 DEF Tidy, FileOK, At, Busy
<1>4. Tag(p) \in DOMAIN gone
  BY HasTag DEF At
<1>5. crashes \in Nat /\ \A t \in held : t \in DOMAIN gone /\ gone[t] \in Nat
  BY Counted
<1> QED
  BY <1>1, <1>2, <1>3, <1>4, <1>5 DEF Tidy

\* With the others out of the way, what is left to show is p's own part.
LEMMA TidySolo ==
    ASSUME TypeOK, OnlyOne, OnlyOne', Tidy, NEW p \in Listprocs,
           lp[p].pc \in Busy \/ lp'[p].pc \in Busy, lp[p].pc \notin {"idle", "exit"},
           \A q \in Listprocs \ {p} : lp'[q] = lp[q] /\ fd'[q] = fd[q],
           UNCHANGED <<pc, held>>, Seen' \cap held \subseteq Seen,
           FileOK(p)', \A t \in held : Decided(t)'
    PROVE  Tidy'
<1>1. ASSUME NEW q \in Listprocs \ {p} PROVE FileOK(q)'
  <2>1. lp[q].pc \notin Busy /\ fd'[q] = None
    BY Worker
  <2>2. lp[q].pc = "mv" => Tag(q) \in held' \ Seen'
    BY DEF Tidy, FileOK
  <2> QED
    BY <2>1, <2>2, Bystander
<1> QED
  BY <1>1, Worker DEF Tidy

LEMMA TidyToMail ==
    ASSUME TypeOK, Approval, OnlyOne, OnlyOne', Tidy, NEW p \in Listprocs, ToMail(p)
    PROVE  Tidy'
<1>0. /\ lp \in [Listprocs -> Work] /\ lp[p].pc = "mail" /\ lp[p].op = "approve"
      /\ UNCHANGED <<file, fd, held, crashes, pc>>
      /\ gone' = [gone EXCEPT ![Tag(p)] = @ + 1]
  BY DEF TypeOK, ToMail, ProcOnly, modfile, listp, At, MailedTag, Approval
<1>1. /\ lp'[p].pc = "unlink" /\ lp'[p].op = lp[p].op /\ lp'[p].tags = lp[p].tags
      /\ lp'[p].snap = lp[p].snap /\ \A q \in Listprocs \ {p} : lp'[q] = lp[q]
  <2>1. Goto(p, "unlink") /\ ~At(p, "idle") /\ ~At(p, "exit")
    BY <1>0 DEF ToMail, At
  <2> QED
    BY <2>1, GotoType
<1>2. lp[p].pc \in Busy /\ lp[p].pc \notin {"idle", "exit"}
  BY <1>0 DEF Busy
<1>3. /\ \A q \in Listprocs \ {p} : lp[q].pc \notin Busy
      /\ Tag(p) \in DOMAIN gone /\ FileOK(p) /\ \A t \in held : Decided(t)
      /\ crashes \in Nat /\ \A t \in held : t \in DOMAIN gone /\ gone[t] \in Nat
  BY <1>0, <1>1, <1>2, Worker
<1>4. Holds(p) = {} /\ Holds(p)' = {}
  BY <1>0, <1>1 DEF Holds, At
<1>5. Seen = file[Mod] /\ Seen' = Seen
  BY <1>0, <1>1, <1>3, <1>4, Solo
<1>6. \A t : ~Leaving(t) /\ (Leaving(t)' <=> t = Tag(p))
  BY <1>0, <1>1, <1>3, Solo DEF At, Tag
<1>7. Tag(p) \in Seen
  BY <1>0, <1>3, <1>5 DEF FileOK
<1>8. FileOK(p)'
  BY <1>0, <1>1, <1>3 DEF FileOK, At, Tag
<1>9. ASSUME NEW t \in held PROVE Decided(t)'
  <2>1. CASE t # Tag(p)
    <3>1. gone'[t] = gone[t] /\ (Waiting(t)' <=> Waiting(t))
      BY <1>0, <1>3, <1>5, <1>6, <2>1 DEF Waiting
    <3> QED
      BY <1>0, <1>3, <3>1, StillDecided
  <2>2. CASE t = Tag(p)
    <3>1. Waiting(t) /\ ~Waiting(t)'
      BY <1>6, <1>7, <2>2 DEF Waiting
    <3>2. gone[t] <= crashes /\ gone'[t] = gone[t] + 1 /\ crashes' = crashes
          /\ gone[t] \in Nat /\ crashes \in Nat
      BY <1>0, <1>3, <2>2, <3>1 DEF Decided
    <3>3. gone'[t] <= 1 + crashes' /\ (crashes' = 0 => gone'[t] = 1)
      BY <3>2
    <3> QED
      BY <3>1, <3>3 DEF Decided
  <2> QED
    BY <2>1, <2>2
<1> QED
  BY <1>0, <1>1, <1>2, <1>5, <1>8, <1>9, TidySolo

LEMMA TidyUnlink ==
    ASSUME TypeOK, OnlyOne, OnlyOne', Tidy, NEW p \in Listprocs, Unlink(p)
    PROVE  Tidy'
<1> USE Places4
<1>0. /\ lp \in [Listprocs -> Work] /\ lp[p].pc = "unlink"
      /\ file \in [Places -> SUBSET held]
      /\ fd \in [{List} \cup Listprocs -> Places \cup {Lost, None}]
      /\ UNCHANGED <<held, crashes, pc, gone>>
      /\ file' = [file EXCEPT ![Mod] = {}] /\ fd' = Moves(Mod, Lost)
  BY DEF TypeOK, Unlink, ProcOnly, listp, At
<1>1. /\ lp'[p].pc = "rename" /\ lp'[p].op = lp[p].op /\ lp'[p].tags = lp[p].tags
      /\ lp'[p].snap = lp[p].snap /\ \A q \in Listprocs \ {p} : lp'[q] = lp[q]
  <2>1. Goto(p, "rename") /\ ~At(p, "idle") /\ ~At(p, "exit")
    BY <1>0 DEF Unlink, At
  <2> QED
    BY <2>1, GotoType
<1>2. lp[p].pc \in Busy /\ lp[p].pc \notin {"idle", "exit"}
  BY <1>0 DEF Busy
<1>3. /\ \A q \in Listprocs \ {p} : lp[q].pc \notin Busy /\ fd[q] = None
      /\ FileOK(p) /\ \A t \in held : Decided(t)
  BY <1>0, <1>1, <1>2, Worker
<1>4. fd[p] = None /\ lp[p].snap = file[Mod] /\ Tag(p) \in file[Mod]
  BY <1>0, <1>3 DEF FileOK, At
<1>5. \A q \in Listprocs : fd'[q] = fd[q]
  BY <1>0, <1>3, <1>4 DEF Moves
<1>6. Holds(p) = {} /\ Holds(p)' = IF lp[p].op = "discard" THEN file[Mod] ELSE file[Mod] \ {Tag(p)}
  BY <1>0, <1>1, <1>4 DEF Holds, At, Without, Tag
<1>7. file'[Mod] = {}
  BY <1>0
<1>a. Seen = file[Mod] \cup Holds(p) /\ Seen' = file'[Mod] \cup Holds(p)'
  BY <1>1, <1>3, Solo
<1>8. Seen = file[Mod] /\ Seen' = IF lp[p].op = "discard" THEN file[Mod] ELSE file[Mod] \ {Tag(p)}
  BY <1>6, <1>7, <1>a
<1>9. \A t : ~Leaving(t)' /\ (Leaving(t) <=> (lp[p].op = "approve" /\ t = Tag(p)))
  BY <1>0, <1>1, <1>3, Solo DEF At, Tag
<1>10. lp[p].op \in {"approve", "discard"}
  BY <1>0 DEF Work
<1>11. FileOK(p)'
  BY <1>1, <1>4, <1>5, <1>7 DEF FileOK, At, Tag
<1>12. ASSUME NEW t \in held PROVE Decided(t)'
  <2>1. Waiting(t)' <=> Waiting(t)
    BY <1>8, <1>9, <1>10 DEF Waiting
  <2> QED
    BY <1>0, <1>3, <2>1, StillDecided
<1> QED
  BY <1>0, <1>1, <1>2, <1>5, <1>8, <1>11, <1>12, TidySolo

LEMMA TidyRename ==
    ASSUME TypeOK, OnlyOne, OnlyOne', Tidy, NEW p \in Listprocs, Rename(p)
    PROVE  Tidy'
<1> USE Places4
<1>0. /\ lp \in [Listprocs -> Work] /\ lp[p].pc = "rename" /\ lp[p] \in Work
      /\ file \in [Places -> SUBSET held]
      /\ fd \in [{List} \cup Listprocs -> Places \cup {Lost, None}]
      /\ UNCHANGED <<held, crashes, pc>>
      /\ file' = [file EXCEPT ![Mod] = lp[p].snap \ {Tag(p)}] /\ fd' = Moves(Mod, Lost)
  BY DEF TypeOK, Rename, ProcOnly, listp, At, Without
<1>1. /\ lp'[p].pc \in {"mv", "lock", "exit"} /\ (lp[p].op # "approve" => lp'[p].pc # "mv")
      /\ (lp[p].op = "approve" => lp'[p].tags = lp[p].tags)
      /\ \A q \in Listprocs \ {p} : lp'[q] = lp[q]
  <2>1. CASE lp[p].op = "approve"
    <3>1. lp' = [lp EXCEPT ![p] = [lp[p] EXCEPT !.pc = "mv", !.snap = {}]]
      BY <1>0, <2>1 DEF Rename
    <3>2. lp'[p] = [lp[p] EXCEPT !.pc = "mv", !.snap = {}]
      BY <1>0, <3>1
    <3> QED
      BY <1>0, <2>1, <3>1, <3>2 DEF Work
  <2>2. CASE lp[p].op # "approve"
    <3>1. NextTag(p) /\ ~At(p, "idle") /\ ~At(p, "exit")
      BY <1>0, <2>2 DEF Rename, At
    <3> QED
      BY <1>0, <2>2, <3>1, NextTagType
  <2> QED
    BY <2>1, <2>2
<1>2. lp[p].pc \in Busy /\ lp[p].pc \notin {"idle", "exit"} /\ lp'[p].pc \notin Busy
  BY <1>0, <1>1 DEF Busy
<1>3. /\ \A q \in Listprocs \ {p} : lp[q].pc \notin Busy /\ fd[q] = None
      /\ Tag(p) \in DOMAIN gone /\ FileOK(p) /\ \A t \in held : Decided(t)
      /\ crashes \in Nat /\ \A t \in held : t \in DOMAIN gone /\ gone[t] \in Nat
  BY <1>0, <1>1, <1>2, Worker
<1>4. fd[p] = None /\ Tag(p) \in lp[p].snap /\ file[Mod] = {}
  BY <1>0, <1>3 DEF FileOK, At
<1>5. \A q \in Listprocs : fd'[q] = fd[q]
  BY <1>0, <1>3, <1>4 DEF Moves
<1>6. Holds(p)' = {} /\ Holds(p) = IF lp[p].op = "discard" THEN lp[p].snap ELSE lp[p].snap \ {Tag(p)}
  BY <1>0, <1>2, HoldsNothing DEF Holds, At, Without
<1>7. file'[Mod] = lp[p].snap \ {Tag(p)}
  BY <1>0
<1>a. Seen = file[Mod] \cup Holds(p) /\ Seen' = file'[Mod] \cup Holds(p)'
  BY <1>1, <1>3, Solo
<1>8. /\ Seen = IF lp[p].op = "discard" THEN lp[p].snap ELSE lp[p].snap \ {Tag(p)}
      /\ Seen' = lp[p].snap \ {Tag(p)}
  BY <1>4, <1>6, <1>7, <1>a
<1>9. \A t : ~Leaving(t)' /\ ~Leaving(t)
  BY <1>0, <1>1, <1>3, Solo DEF At
<1>10. lp[p].op \in {"approve", "discard"}
  BY <1>0 DEF Work
<1>11. FileOK(p)'
  <2>1. Tag(p) \in held
    BY <1>0, <1>4 DEF Work
  <2>2. lp'[p].pc = "mv" => Tag(p)' \in held' \ Seen'
    BY <1>0, <1>1, <1>8, <2>1 DEF Tag
  <2>3. fd'[p] = None
    BY <1>4, <1>5
  <2> QED
    BY <1>1, <2>2, <2>3 DEF FileOK, At
<1>12. ASSUME NEW t \in held PROVE Decided(t)'
  <2>1. CASE lp[p].op = "approve" \/ t # Tag(p)
    <3>1. Waiting(t)' <=> Waiting(t)
      BY <1>8, <1>9, <1>10, <2>1 DEF Waiting
    <3>2. gone'[t] = gone[t]
      BY <1>3, <2>1 DEF Rename
    <3> QED
      BY <1>0, <1>3, <3>1, <3>2, StillDecided
  <2>2. CASE lp[p].op # "approve" /\ t = Tag(p)
    <3>1. Waiting(t) /\ ~Waiting(t)'
      BY <1>4, <1>8, <1>9, <1>10, <2>2 DEF Waiting
    <3>2. gone[t] <= crashes /\ gone'[t] = gone[t] + 1 /\ crashes' = crashes
          /\ gone[t] \in Nat /\ crashes \in Nat
      BY <1>0, <1>3, <2>2, <3>1 DEF Decided, Rename
    <3>3. gone'[t] <= 1 + crashes' /\ (crashes' = 0 => gone'[t] = 1)
      BY <3>2
    <3> QED
      BY <3>1, <3>3 DEF Decided
  <2> QED
    BY <2>1, <2>2
<1>13. Seen' \cap held \subseteq Seen
  BY <1>8
<1> QED
  BY <1>0, <1>1, <1>2, <1>5, <1>11, <1>12, <1>13, TidySolo

LEMMA TidyMoveAway ==
    ASSUME TypeOK, OnlyOne, OnlyOne', Tidy, NEW p \in Listprocs, MoveAway(p)
    PROVE  Tidy'
<1> USE Places4
<1>0. /\ lp \in [Listprocs -> Work] /\ lp[p].pc = "mv"
      /\ file \in [Places -> SUBSET held]
      /\ fd \in [{List} \cup Listprocs -> Places \cup {Lost, None}]
      /\ UNCHANGED <<held, crashes, pc, gone>>
      /\ file' = [file EXCEPT ![Mod] = {}, ![p] = file[Mod]] /\ fd' = Moves(Mod, p)
  BY DEF TypeOK, MoveAway, ProcOnly, listp, At
<1>1. /\ lp'[p].pc = "create" /\ lp'[p].tags = lp[p].tags
      /\ \A q \in Listprocs \ {p} : lp'[q] = lp[q]
  <2>1. Goto(p, "create") /\ ~At(p, "idle") /\ ~At(p, "exit")
    BY <1>0 DEF MoveAway, At
  <2> QED
    BY <2>1, GotoType
<1>2. lp'[p].pc \in Busy /\ lp[p].pc \notin {"idle", "exit"}
  BY <1>0, <1>1 DEF Busy
<1>3. /\ \A q \in Listprocs \ {p} : lp[q].pc \notin Busy /\ fd[q] = None
      /\ FileOK(p) /\ \A t \in held : Decided(t)
  BY <1>0, <1>1, <1>2, Worker
<1>4. fd[p] = None /\ Tag(p) \in held \ Seen
  BY <1>0, <1>3 DEF FileOK, At
<1>5. \A q \in Listprocs : fd'[q] = fd[q]
  BY <1>0, <1>3, <1>4 DEF Moves
<1>6. file'[Mod] = {} /\ file'[p] = file[Mod]
  BY <1>0
<1>7. Holds(p) = {} /\ Holds(p)' = file[Mod]
  BY <1>0, <1>1, <1>6 DEF Holds, At
<1>a. Seen = file[Mod] \cup Holds(p) /\ Seen' = file'[Mod] \cup Holds(p)'
  BY <1>1, <1>3, Solo
<1>8. Seen = file[Mod] /\ Seen' = file[Mod]
  BY <1>6, <1>7, <1>a
<1>9. \A t : ~Leaving(t)' /\ ~Leaving(t)
  BY <1>0, <1>1, <1>3, Solo DEF At
<1>10. FileOK(p)'
  BY <1>0, <1>1, <1>4, <1>5, <1>6, <1>8 DEF FileOK, At, Tag
<1>11. ASSUME NEW t \in held PROVE Decided(t)'
  BY <1>0, <1>3, <1>8, <1>9, StillDecided DEF Waiting
<1> QED
  BY <1>0, <1>1, <1>2, <1>5, <1>8, <1>10, <1>11, TidySolo

LEMMA TidyCreate ==
    ASSUME TypeOK, OnlyOne, OnlyOne', Tidy, NEW p \in Listprocs, Create(p)
    PROVE  Tidy'
<1> USE Places4
<1>0. /\ lp \in [Listprocs -> Work] /\ lp[p].pc = "create"
      /\ file \in [Places -> SUBSET held]
      /\ fd \in [{List} \cup Listprocs -> Places \cup {Lost, None}]
      /\ UNCHANGED <<held, crashes, pc, gone>>
      /\ file' = [file EXCEPT ![Mod] = {}] /\ fd' = [fd EXCEPT ![p] = Mod]
  BY DEF TypeOK, Create, ProcOnly, listp, At
<1>1. /\ lp'[p].pc = "copy" /\ lp'[p].tags = lp[p].tags
      /\ \A q \in Listprocs \ {p} : lp'[q] = lp[q]
  <2>1. Goto(p, "copy") /\ ~At(p, "idle") /\ ~At(p, "exit")
    BY <1>0 DEF Create, At
  <2> QED
    BY <2>1, GotoType
<1>2. lp[p].pc \in Busy /\ lp[p].pc \notin {"idle", "exit"}
  BY <1>0 DEF Busy
<1>3. /\ \A q \in Listprocs \ {p} : lp[q].pc \notin Busy /\ fd[q] = None
      /\ FileOK(p) /\ \A t \in held : Decided(t)
  BY <1>0, <1>1, <1>2, Worker
<1>4. file[Mod] = {} /\ Tag(p) \in held \ Seen
  BY <1>0, <1>3 DEF FileOK, At
<1>5. fd'[p] = Mod /\ \A q \in Listprocs \ {p} : fd'[q] = fd[q]
  BY <1>0
<1>6. file'[Mod] = {} /\ file'[p] = file[p]
  BY <1>0
<1>7. Holds(p) = file[p] /\ Holds(p)' = file[p]
  BY <1>0, <1>1, <1>6 DEF Holds, At
<1>a. Seen = file[Mod] \cup Holds(p) /\ Seen' = file'[Mod] \cup Holds(p)'
  BY <1>1, <1>3, Solo
<1>8. Seen = file[p] /\ Seen' = file[p]
  BY <1>4, <1>6, <1>7, <1>a
<1>9. \A t : ~Leaving(t)' /\ ~Leaving(t)
  BY <1>0, <1>1, <1>3, Solo DEF At
<1>10. FileOK(p)'
  BY <1>0, <1>1, <1>4, <1>5, <1>6, <1>8 DEF FileOK, At, Tag
<1>11. ASSUME NEW t \in held PROVE Decided(t)'
  BY <1>0, <1>3, <1>8, <1>9, StillDecided DEF Waiting
<1> QED
  BY <1>0, <1>1, <1>2, <1>5, <1>8, <1>10, <1>11, TidySolo

LEMMA TidyCopyBack ==
    ASSUME TypeOK, OnlyOne, OnlyOne', Tidy, NEW p \in Listprocs, CopyBack(p)
    PROVE  Tidy'
<1> USE Places4
<1> DEFINE rest == file[p] \ {Tag(p)}
           put  == IF fd[p] = Lost \/ rest = {} THEN file ELSE [file EXCEPT ![fd[p]] = rest]
<1>0. /\ lp \in [Listprocs -> Work] /\ lp[p].pc = "copy"
      /\ file \in [Places -> SUBSET held]
      /\ fd \in [{List} \cup Listprocs -> Places \cup {Lost, None}]
      /\ UNCHANGED <<held, crashes, pc, gone>>
      /\ file' = [put EXCEPT ![p] = {}] /\ fd' = [Moves(p, Lost) EXCEPT ![p] = None]
  BY DEF TypeOK, CopyBack, ProcOnly, listp, At, Without
<1>1. lp'[p].pc \in {"lock", "exit"} /\ \A q \in Listprocs \ {p} : lp'[q] = lp[q]
  <2>1. NextTag(p) /\ ~At(p, "idle") /\ ~At(p, "exit")
    BY <1>0 DEF CopyBack, At
  <2> QED
    BY <1>0, <2>1, NextTagType
<1>2. lp[p].pc \in Busy /\ lp[p].pc \notin {"idle", "exit"} /\ lp'[p].pc \notin Busy
  BY <1>0, <1>1 DEF Busy
<1>3. /\ \A q \in Listprocs \ {p} : lp[q].pc \notin Busy /\ fd[q] = None
      /\ FileOK(p) /\ \A t \in held : Decided(t)
  BY <1>0, <1>1, <1>2, Worker
<1>4. file[Mod] = {} /\ fd[p] = Mod /\ Tag(p) \in held \ Seen
  BY <1>0, <1>3 DEF FileOK, At
<1>5. fd'[p] = None /\ \A q \in Listprocs \ {p} : fd'[q] = fd[q]
  BY <1>0, <1>3 DEF Moves
<1>6. Holds(p) = file[p] /\ Holds(p)' = {}
  BY <1>0, <1>2, HoldsNothing DEF Holds, At
<1>a. Seen = file[Mod] \cup Holds(p) /\ Seen' = file'[Mod] \cup Holds(p)'
  BY <1>1, <1>3, Solo
<1>7. Seen = file[p] /\ rest = file[p]
  BY <1>4, <1>6, <1>a
<1>8. file'[Mod] = file[p]
  <2>1. CASE rest = {}
    BY <1>0, <1>4, <1>7, <2>1
  <2>2. CASE rest # {}
    <3>1. put = [file EXCEPT ![Mod] = rest]
      BY <1>4, <2>2
    <3> HIDE DEF put, rest
    <3> QED
      BY <1>0, <1>7, <3>1
  <2> QED
    BY <2>1, <2>2
<1>9. Seen' = Seen
  BY <1>6, <1>7, <1>8, <1>a
<1>10. \A t : ~Leaving(t)' /\ ~Leaving(t)
  BY <1>0, <1>1, <1>3, Solo DEF At
<1>11. FileOK(p)'
  BY <1>1, <1>5 DEF FileOK, At
<1>12. ASSUME NEW t \in held PROVE Decided(t)'
  BY <1>0, <1>3, <1>9, <1>10, StillDecided DEF Waiting
<1> QED
  BY <1>0, <1>1, <1>2, <1>5, <1>9, <1>11, <1>12, TidySolo

\* A process is killed.
LEMMA TidyKill ==
    ASSUME TypeOK, OnlyOne, Tidy, NEW p \in Listprocs, KillProc(p)
    PROVE  Tidy'
<1> USE Places4
<1>0. /\ lp \in [Listprocs -> Work]
      /\ file \in [Places -> SUBSET held]
      /\ fd \in [{List} \cup Listprocs -> Places \cup {Lost, None}]
      /\ UNCHANGED <<held, pc, gone>> /\ crashes' = crashes + 1 /\ crashes \in Nat
      /\ file' = [file EXCEPT ![p] = {}] /\ fd' = [Moves(p, Lost) EXCEPT ![p] = None]
  BY DEF TypeOK, KillProc, ProcOnly, listp, Crash
<1>1. lp'[p].pc = "idle" /\ \A q \in Listprocs \ {p} : lp'[q] = lp[q]
  BY <1>0 DEF KillProc, Done
<1>2. file'[Mod] = file[Mod] /\ \A q \in Listprocs \ {p} : file'[q] = file[q]
  BY <1>0
<1>3. \A q \in Listprocs : fd[q] \in {Mod, None}
  BY DEF Tidy, FileOK
<1>4. fd'[p] = None /\ \A q \in Listprocs \ {p} : fd'[q] = fd[q]
  BY <1>0, <1>3 DEF Moves
<1>5. pc' = "append" => fd'[List] = Mod
  BY <1>0 DEF Tidy, Moves
<1>6. Holds(p)' = {} /\ \A q \in Listprocs \ {p} : Holds(q)' = Holds(q)
  <2>1. Holds(p)' = {}
    BY <1>1 DEF Holds, At
  <2>2. \A q \in Listprocs \ {p} : Holds(q)' = Holds(q)
    BY <1>1, <1>2 DEF Holds, At, Without, Tag
  <2> QED
    BY <2>1, <2>2
<1>7. Seen' \subseteq Seen
  BY <1>2, <1>6 DEF Seen
<1>8. \A q \in Listprocs \ {p} : FileOK(q)'
  BY <1>0, <1>1, <1>2, <1>4, <1>7 DEF Tidy, FileOK, At, Tag
<1>9. FileOK(p)'
  BY <1>1, <1>4 DEF FileOK, At
<1>10. ASSUME NEW t \in held' PROVE Decided(t)'
  <2>1. t \in held /\ Decided(t) /\ gone[t] \in Nat /\ gone'[t] = gone[t]
    BY <1>0, Counted DEF Tidy
  <2>2. gone'[t] <= crashes' /\ gone'[t] <= 1 + crashes' /\ crashes' # 0
    BY <1>0, <2>1 DEF Decided
  <2> QED
    BY <2>2 DEF Decided
<1> QED
  BY <1>5, <1>8, <1>9, <1>10 DEF Tidy

LEMMA TidyStep ==
    ASSUME TypeOK, Approval, FreshTag, Undecided, OnlyOne, OnlyOne', Tidy, Step
    PROVE  Tidy'
<1>0. lp \in [Listprocs -> Work]
  BY DEF TypeOK
<1>1. ASSUME NEW p \in Listprocs, Lock(p) PROVE Tidy'
  <2>1. At(p, "lock") /\ Goto(p, "look") /\ UNCHANGED <<file, fd, held, gone, crashes, pc>>
    BY <1>1 DEF Lock, ProcOnly, modfile, listp
  <2>2. lp'[p].pc = "look" /\ \A q \in Listprocs \ {p} : lp'[q] = lp[q]
    BY <2>1, GotoType DEF At
  <2>3. lp[p].pc \notin Busy /\ lp[p].pc # "mv"
    BY <2>1 DEF At, Busy
  <2> QED
    BY <2>1, <2>2, <2>3, TidyQuiet
<1>2. ASSUME NEW p \in Listprocs, Miss(p) PROVE Tidy'
  <2>1. At(p, "look") /\ NextTag(p) /\ UNCHANGED <<file, fd, held, gone, crashes, pc>>
    BY <1>2 DEF Miss, ProcOnly, modfile, listp
  <2>2. lp'[p].pc \in {"lock", "exit"} /\ \A q \in Listprocs \ {p} : lp'[q] = lp[q]
    BY <1>0, <2>1, NextTagType DEF At
  <2>3. lp[p].pc \notin Busy /\ lp[p].pc # "mv"
    BY <2>1 DEF At, Busy
  <2> QED
    BY <2>1, <2>2, <2>3, TidyQuiet
<1>3. ASSUME NEW p \in Listprocs, Exit(p) PROVE Tidy'
  <2>1. At(p, "exit") /\ lp' = [lp EXCEPT ![p] = Done] /\ UNCHANGED <<file, fd, held, gone, crashes, pc>>
    BY <1>3 DEF Exit, ProcOnly, modfile, listp
  <2>2. lp'[p].pc = "idle" /\ \A q \in Listprocs \ {p} : lp'[q] = lp[q]
    BY <1>0, <2>1 DEF Done
  <2>3. lp[p].pc \notin Busy /\ lp[p].pc # "mv"
    BY <2>1 DEF At, Busy
  <2> QED
    BY <2>1, <2>2, <2>3, TidyQuiet
<1>4. ASSUME NEW p \in Listprocs, NEW op, NEW tags, NEW a \in BOOLEAN, Ask(p, op, tags, a)
      PROVE  Tidy'
  <2>1. At(p, "idle") /\ UNCHANGED <<file, fd, held, gone, crashes, pc>>
    BY <1>4 DEF Ask, ProcOnly, modfile, listp
  <2>2. lp'[p].pc \in {"idle", "lock"} /\ \A q \in Listprocs \ {p} : lp'[q] = lp[q]
    <3>1. CASE a
      BY <1>0, <1>4, <3>1 DEF Ask
    <3>2. CASE ~a
      BY <1>4, <2>1, <3>2 DEF Ask, At
    <3> QED
      BY <3>1, <3>2
  <2>3. lp[p].pc \notin Busy /\ lp[p].pc # "mv"
    BY <2>1 DEF At, Busy
  <2> QED
    BY <2>1, <2>2, <2>3, TidyQuiet
<1>5. ASSUME NEW p \in Listprocs, ProcStep(p) PROVE Tidy'
  BY <1>1, <1>2, <1>3, <1>5, TidyLook, TidyToMail, TidyUnlink, TidyRename, TidyMoveAway,
     TidyCreate, TidyCopyBack DEF ProcStep
<1> QED
  BY <1>4, <1>5, TidyList, TidyKill DEF Step, Approve, Discard

LEMMA FreshStep ==
    ASSUME TypeOK, FreshTag, [Next]_vars
    PROVE  FreshTag'
<1>1. ASSUME UNCHANGED <<tagged, held>>, pc' \in {"notify", "open", "append"} => pc \in {"notify", "open", "append"}
      PROVE  FreshTag'
  BY <1>1 DEF FreshTag
<1>2. CASE GiveTag
  <2>1. tagged' = Append(tagged, cur.msg) /\ held' = held
    BY <1>2 DEF GiveTag
  <2>2. tagged \in Seq(Messages) /\ cur.msg \in Messages /\ held \subseteq DOMAIN tagged
    BY <1>2 DEF GiveTag, TypeOK, Entries
  <2>3. Len(tagged') = Len(tagged) + 1
    BY <2>1, <2>2
  <2>4. Len(tagged) + 1 \notin DOMAIN tagged
    BY <2>2
  <2> QED
    BY <2>1, <2>2, <2>3, <2>4 DEF FreshTag
<1>3. CASE AppendModerated
  BY <1>3 DEF AppendModerated, Go, FreshTag
<1>4. CASE Notify \/ OpenModerated
  BY <1>1, <1>4 DEF Notify, OpenModerated, tagids
<1>5. CASE Fetch \/ SkipChecks \/ Recording \/ Ignore \/ Reject \/ Accept \/ Forward \/ Send \/ KillList
  BY <1>5, Routes DEF Fetch, SkipChecks, Recording, CheckId, ReplaceIds, SaveSum, ReplaceSums,
         Ignore, Reject, Accept, Forward, Send, KillList, Go, FreshTag
<1>6. ASSUME NEW m \in Messages, Arrive(m) PROVE UNCHANGED <<tagged, held, pc>>
  BY <1>6 DEF Arrive, tagids, listp
<1>7. CASE UNCHANGED vars
  BY <1>1, <1>7 DEF vars, tagids, listp
<1> QED
  BY <1>1, <1>2, <1>3, <1>4, <1>5, <1>6, <1>7, ProcAlone
     DEF Next, Step, ListStep, Recording, tagids, listp

\* How a process comes to where it has the lock.
LEMMA HowLocked ==
    ASSUME TypeOK, [Next]_vars, NEW q \in Listprocs, lp'[q].pc \in {"look", "mail", "unlink", "rename"}
    PROVE  lp'[q] = lp[q] \/ Lock(q) \/ Look(q) \/ ToMail(q) \/ Unlink(q)
<1>0. lp \in [Listprocs -> Work]
  BY DEF TypeOK
<1> DEFINE Goal == lp'[q] = lp[q] \/ Lock(q) \/ Look(q) \/ ToMail(q) \/ Unlink(q)
<1>1. ASSUME NEW p \in Listprocs, NextTag(p), ~At(p, "idle"), ~At(p, "exit") PROVE lp'[q] = lp[q]
  BY <1>0, <1>1, NextTagType
<1>2. ASSUME NEW p \in Listprocs, NEW w \in {"look", "unlink", "rename", "create", "copy"},
             Goto(p, w), q # p \/ w \in {"create", "copy"}
      PROVE  lp'[q] = lp[q]
  BY <1>0, <1>2 DEF Goto, Work
<1>3. ASSUME NEW p \in Listprocs, ProcStep(p) PROVE Goal
  <2>1. CASE Miss(p) \/ CopyBack(p)
    BY <1>1, <2>1 DEF Miss, CopyBack, At
  <2>2. CASE Lock(p) \/ ToMail(p) \/ Unlink(p)
    BY <1>2, <2>2 DEF Lock, ToMail, Unlink
  <2>3. CASE Look(p)
    BY <1>0, <2>3 DEF Look
  <2>4. CASE MoveAway(p) \/ Create(p)
    BY <1>2, <2>4 DEF MoveAway, Create
  <2>5. CASE Exit(p)
    BY <1>0, <2>5 DEF Exit, Done
  <2>6. CASE Rename(p)
    <3>1. CASE lp[p].op = "approve"
      <4>1. lp' = [lp EXCEPT ![p] = [lp[p] EXCEPT !.pc = "mv", !.snap = {}]]
        BY <1>0, <2>6, <3>1 DEF Rename
      <4>2. p = q => lp'[q] = [lp[q] EXCEPT !.pc = "mv", !.snap = {}]
        BY <1>0, <4>1
      <4>3. p # q
        BY <1>0, <4>2 DEF Work
      <4> QED
        BY <1>0, <4>1, <4>3
    <3>2. CASE lp[p].op # "approve"
      BY <1>1, <2>6, <3>2 DEF Rename, At
    <3> QED
      BY <3>1, <3>2
  <2> QED
    BY <1>3, <2>1, <2>2, <2>3, <2>4, <2>5, <2>6 DEF ProcStep
<1>4. ASSUME NEW p \in Listprocs, KillProc(p) PROVE lp'[q] = lp[q]
  BY <1>0, <1>4 DEF KillProc, Done
<1>5. ASSUME NEW p \in Listprocs, NEW op, NEW tags, NEW a, Ask(p, op, tags, a) PROVE lp'[q] = lp[q]
  BY <1>0, <1>5 DEF Ask
<1>6. CASE ListStep \/ KillList \/ \E m \in Messages : Arrive(m)
  BY <1>6, ListAlone DEF requests
<1>7. CASE UNCHANGED vars
  BY <1>7 DEF vars, requests
<1> QED
  BY <1>3, <1>4, <1>5, <1>6, <1>7 DEF Next, Step, Approve, Discard

\* What the steps of a process that has the lock do with its work.
LEMMA LockedWork ==
    ASSUME TypeOK, NEW q \in Listprocs
    PROVE  /\ Look(q) => lp'[q].tags = lp[q].tags /\ lp'[q].snap = file[Mod]
           /\ Lock(q) => lp'[q].pc = "look"
           /\ ToMail(q) \/ Unlink(q) => lp'[q].tags = lp[q].tags /\ lp'[q].snap = lp[q].snap
<1>0. lp \in [Listprocs -> Work] /\ lp[q] \in Work
  BY DEF TypeOK
<1>1. ASSUME Look(q) PROVE lp'[q].tags = lp[q].tags /\ lp'[q].snap = file[Mod]
  <2> DEFINE w == IF lp[q].op = "approve" THEN "mail" ELSE "unlink"
  <2>1. lp'[q] = [lp[q] EXCEPT !.pc = w, !.snap = file[Mod]]
    BY <1>0, <1>1 DEF Look
  <2> HIDE DEF w
  <2> QED
    BY <1>0, <2>1 DEF Work
<1>2. ASSUME Lock(q) PROVE lp'[q].pc = "look"
  BY <1>0, <1>2 DEF Lock, Goto, Work
<1>3. ASSUME ToMail(q) PROVE lp'[q].tags = lp[q].tags /\ lp'[q].snap = lp[q].snap
  BY <1>3, GotoType DEF ToMail, At
<1>4. ASSUME Unlink(q) PROVE lp'[q].tags = lp[q].tags /\ lp'[q].snap = lp[q].snap
  BY <1>4, GotoType DEF Unlink, At
<1> QED
  BY <1>1, <1>2, <1>3, <1>4

LEMMA FoundStep ==
    ASSUME TypeOK, Found, [Next]_vars
    PROVE  Found'
<1> SUFFICES ASSUME NEW q \in Listprocs, lp'[q].pc \in {"mail", "unlink", "rename"}
             PROVE  Head(lp'[q].tags) \in lp'[q].snap
  BY DEF Found, Tag
<1>1. CASE lp'[q] = lp[q]
  BY <1>1 DEF Found, Tag
<1>2. CASE Lock(q)
  BY <1>2, LockedWork
<1>3. CASE Look(q)
  BY <1>3, LockedWork DEF Look, Tag
<1>4. CASE ToMail(q) \/ Unlink(q)
  <2>1. Tag(q) \in lp[q].snap
    BY <1>4 DEF ToMail, Unlink, At, Found
  <2> QED
    BY <1>4, <2>1, LockedWork DEF Tag
<1> QED
  BY <1>1, <1>2, <1>3, <1>4, HowLocked

\* Who takes and who gives up the lock.
LEMMA LockFrame ==
    ASSUME [Next]_vars
    PROVE  \/ lock' = lock
           \/ \E p \in Listprocs : lock \in {None, p} /\ lock' = p
           \/ \E p \in Listprocs : Rename(p) /\ lock' = None
           \/ \E p \in Listprocs : lp' = [lp EXCEPT ![p] = Done] /\ lock' = IF lock = p THEN None ELSE lock
<1>1. ASSUME NEW p \in Listprocs, ProcStep(p)
      PROVE  \/ lock' = lock \/ (lock \in {None, p} /\ lock' = p) \/ (Rename(p) /\ lock' = None)
             \/ (lp' = [lp EXCEPT ![p] = Done] /\ lock' = IF lock = p THEN None ELSE lock)
  BY <1>1 DEF ProcStep, Lock, Miss, Look, ToMail, Unlink, Rename, MoveAway, Create, CopyBack, Exit
<1>2. ASSUME NEW p \in Listprocs, KillProc(p)
      PROVE  lp' = [lp EXCEPT ![p] = Done] /\ lock' = IF lock = p THEN None ELSE lock
  BY <1>2 DEF KillProc
<1>3. ASSUME NEW p \in Listprocs, NEW op, NEW tags, NEW a, Ask(p, op, tags, a) PROVE lock' = lock
  BY <1>3 DEF Ask
<1>4. CASE ListStep \/ KillList \/ \E m \in Messages : Arrive(m)
  BY <1>4, ListAlone
<1>5. CASE UNCHANGED vars
  BY <1>5 DEF vars
<1> QED
  BY <1>1, <1>2, <1>3, <1>4, <1>5 DEF Next, Step, Approve, Discard

LEMMA LockedStep ==
    ASSUME TypeOK, Locked, [Next]_vars
    PROVE  Locked'
<1> SUFFICES ASSUME NEW q \in Listprocs, lp'[q].pc \in {"look", "mail", "unlink", "rename"}
             PROVE  lock' = q
  BY DEF Locked
<1>0. lp \in [Listprocs -> Work]
  BY DEF TypeOK
<1>1. CASE Lock(q)
  BY <1>1 DEF Lock
<1>2. CASE Look(q) \/ ToMail(q) \/ Unlink(q)
  <2>1. lp[q].pc \in {"look", "mail", "unlink"} /\ lock' = lock
    BY <1>2 DEF Look, ToMail, Unlink, At
  <2> QED
    BY <2>1 DEF Locked
<1>3. CASE lp'[q] = lp[q]
  <2>1. lock = q
    BY <1>3 DEF Locked
  <2>2. ASSUME NEW p \in Listprocs, Rename(p) PROVE FALSE
    <3>1. lp[p].pc = "rename" /\ lock = p
      BY <2>2 DEF Rename, At, Locked
    <3>2. CASE lp[p].op = "approve"
      <4>1. lp'[p] = [lp[p] EXCEPT !.pc = "mv", !.snap = {}]
        BY <1>0, <2>2, <3>2 DEF Rename
      <4>2. lp'[p].pc = "mv"
        BY <1>0, <4>1 DEF Work
      <4> QED
        BY <2>1, <3>1, <4>2
    <3>3. CASE lp[p].op # "approve"
      <4>1. lp'[p].pc \in {"lock", "exit"}
        BY <2>2, <3>1, <3>3, NextTagType DEF Rename, At
      <4> QED
        BY <2>1, <3>1, <4>1
    <3> QED
      BY <3>2, <3>3
  <2>3. ASSUME NEW p \in Listprocs, lp' = [lp EXCEPT ![p] = Done] PROVE p # q
    BY <1>0, <2>3 DEF Done
  <2> QED
    BY <2>1, <2>2, <2>3, LockFrame, Places4, PostingAssumption
<1> QED
  BY <1>1, <1>2, <1>3, HowLocked

LEMMA UndecidedStep ==
    ASSUME TypeOK, Found, Undecided, [Next]_vars
    PROVE  Undecided'
<1>0. held \subseteq held'
  BY HeldGrows
<1>1. ASSUME DOMAIN tagged' = DOMAIN tagged, \A t \in DOMAIN tagged \ held : gone'[t] = gone[t]
      PROVE  Undecided'
  BY <1>0, <1>1 DEF Undecided
<1>2. CASE GiveTag
  <2>1. tagged' = Append(tagged, cur.msg) /\ gone' = Append(gone, 0)
    BY <1>2 DEF GiveTag
  <2>2. tagged \in Seq(Messages) /\ cur.msg \in Messages /\ gone \in Seq(Nat) /\ Len(gone) = Len(tagged)
    BY <1>2 DEF GiveTag, TypeOK, Entries
  <2>3. \A t \in DOMAIN tagged' : (t \in DOMAIN tagged /\ gone'[t] = gone[t]) \/ gone'[t] = 0
    BY <2>1, <2>2
  <2> QED
    BY <1>0, <2>3 DEF Undecided
<1>3. CASE ListStep \/ KillList
  <2>1. CASE ~GiveTag
    <3>1. UNCHANGED <<tagged, gone>>
      BY <1>3, <2>1 DEF ListStep, CheckId, ReplaceIds, SaveSum, ReplaceSums,
          Fetch, SkipChecks, Ignore, Reject, Accept, Forward, Notify,
         OpenModerated, AppendModerated, Send, KillList, tagids
    <3> QED
      BY <1>1, <3>1
  <2> QED
    BY <1>2, <2>1
<1>4. ASSUME NEW m \in Messages, Arrive(m) PROVE UNCHANGED <<tagged, gone>>
  BY <1>4 DEF Arrive, tagids
<1>5. ASSUME NEW p \in Listprocs, ProcStep(p) \/ KillProc(p) PROVE Undecided'
  <2>1. tagged' = tagged
    BY <1>5, ProcAlone DEF tagids
  <2>2. CASE ToMail(p) \/ Rename(p)
    <3>1. Tag(p) \in held
      <4>1. Tag(p) \in lp[p].snap
        BY <2>2 DEF ToMail, Rename, At, Found
      <4> QED
        BY <4>1 DEF TypeOK, Work
    <3>2. UNCHANGED gone \/ gone' = [gone EXCEPT ![Tag(p)] = @ + 1]
      BY <2>2 DEF ToMail, Rename, MailedTag
    <3>3. ASSUME NEW t \in DOMAIN tagged \ held PROVE gone'[t] = gone[t]
      <4>1. t \in DOMAIN gone /\ t # Tag(p)
        BY <3>1, Counted
      <4> QED
        BY <3>2, <4>1
    <3> QED
      BY <1>1, <2>1, <3>3
  <2>3. CASE ~(ToMail(p) \/ Rename(p))
    <3>1. UNCHANGED gone
      BY <1>5, <2>3 DEF ProcStep, Lock, Miss, Look, Unlink, MoveAway, Create, CopyBack, Exit, KillProc
    <3> QED
      BY <1>1, <2>1, <3>1
  <2> QED
    BY <2>2, <2>3
<1>6. ASSUME NEW p \in Listprocs, NEW op, NEW tags, NEW a, Ask(p, op, tags, a)
      PROVE  UNCHANGED <<tagged, gone>>
  BY <1>6 DEF Ask, ProcOnly, tagids
<1>7. CASE UNCHANGED vars
  BY <1>1, <1>7 DEF vars, tagids
<1> QED
  BY <1>1, <1>3, <1>4, <1>5, <1>6, <1>7 DEF Next, Step, Approve, Discard

\* The inductive invariant.
Inv == TypeOK /\ Approval /\ FreshTag /\ Found /\ Undecided /\ Locked /\ Alone

LEMMA AloneStep ==
    ASSUME Inv, [Next]_vars
    PROVE  Alone'
<1>1. CASE UNCHANGED vars
  <2>1. OnlyOne => OnlyOne'
    BY <1>1 DEF OnlyOne, Rewriting, vars, listp, requests
  <2>2. ASSUME Tidy PROVE Tidy'
    <3>1. UNCHANGED <<lp, file, fd, held, crashes, gone, pc>>
      BY <1>1 DEF vars, requests, modfile, listp
    <3>2. pc' = "append" => fd'[List] = Mod
      BY <2>2, <3>1 DEF Tidy
    <3> QED
      BY <2>2, <3>1, <3>2, Untouched DEF Inv
  <2>3. overlap' = overlap
    BY <1>1 DEF vars
  <2> QED
    BY <2>1, <2>2, <2>3 DEF Inv, Alone
<1>2. CASE Next
  <2> SUFFICES ASSUME ~overlap' PROVE OnlyOne' /\ Tidy'
    BY DEF Alone
  <2>1. ~overlap /\ OnlyOne'
    BY <1>2, OneNext DEF Next
  <2>2. OnlyOne /\ Tidy
    BY <2>1 DEF Inv, Alone
  <2> QED
    BY <1>2, <2>1, <2>2, TidyStep DEF Inv, Next
<1> QED
  BY <1>1, <1>2

LEMMA InvInit == Init => Inv
<1> SUFFICES ASSUME Init PROVE Inv
  OBVIOUS
<1>0. /\ \A p \in Listprocs : lp[p] = Done /\ fd[p] = None
      /\ held = {} /\ pc = "idle" /\ tagged = <<>>
  BY DEF Init
<1>1. FreshTag /\ Found /\ Undecided /\ Locked
  BY <1>0 DEF FreshTag, Found, Undecided, Locked, Done
<1>2. Rewriting = {}
  BY <1>0 DEF Rewriting, Done
<1>3. OnlyOne /\ Tidy
  BY <1>0, <1>2 DEF OnlyOne, Tidy, FileOK, Done, At
<1> QED
  BY <1>1, <1>3, TypingInit, ApprovalInit DEF Inv, Alone

LEMMA InvStep == Inv /\ [Next]_vars => Inv'
<1> SUFFICES ASSUME Inv, [Next]_vars PROVE Inv'
  OBVIOUS
<1>1. TypeOK' /\ Approval' /\ FreshTag' /\ Found' /\ Undecided' /\ Locked'
  BY TypingStep, ApprovalStep, FreshStep, FoundStep, UndecidedStep, LockedStep DEF Inv
<1> QED
  BY <1>1, AloneStep DEF Inv

\* Unless two processes were rewriting the file at once, a held message is decided
\* once, and once more at most for every death.
THEOREM PostingDecided == Spec => []DecidedOnce
<1>1. ASSUME Inv PROVE DecidedOnce
  <2> SUFFICES ASSUME ~overlap, NEW t \in held
               PROVE  /\ gone[t] <= 1 + crashes
                      /\ crashes = 0 => gone[t] = IF Waiting(t) THEN 0 ELSE 1
    BY DEF DecidedOnce
  <2>1. Decided(t) /\ gone[t] \in Nat /\ crashes \in Nat
    BY <1>1, Counted DEF Inv, Alone, Tidy
  <2>2. ASSUME crashes = 0, Waiting(t) PROVE gone[t] = 0
    <3>1. gone[t] <= crashes
      BY <2>1, <2>2 DEF Decided
    <3> QED
      BY <2>1, <2>2, <3>1
  <2> QED
    BY <2>1, <2>2 DEF Decided
<1> QED
  BY <1>1, InvInit, InvStep, PTL DEF Spec

\* The lock of the moderated file keeps two processes from rewriting it at once
\* up to the rename: an overlap needs remove_msg or the list process.
THEOREM PostingLocked ==
  Spec => [](\A p, q \in Listprocs : /\ lp[p].pc \in {"look", "mail", "unlink", "rename"}
                                     /\ lp[q].pc \in {"look", "mail", "unlink", "rename"}
                                     => p = q)
<1>1. Inv => \A p, q \in Listprocs : /\ lp[p].pc \in {"look", "mail", "unlink", "rename"}
                                     /\ lp[q].pc \in {"look", "mail", "unlink", "rename"}
                                     => p = q
  BY DEF Inv, Locked
<1> QED
  BY <1>1, InvInit, InvStep, PTL DEF Spec

=============================================================================

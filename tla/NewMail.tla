------------------------------ MODULE NewMail ------------------------------
(* How serverd chooses the list to look at next: one after the other        *)
(* ("sequential"), or from the file .newmail to which catmail appends the   *)
(* name of every list that gets a message ("fifo").                         *)
(*                                                                          *)
(* Sources: src/lplib/newmail.c, src/bins/serverd/get_next.c and the        *)
(* reporting half of src/bins/catmail/catmail.c.  Every operation runs      *)
(* under the GLOBAL_NEWMAIL write lock, so each is one value.  The lists    *)
(* are numbered in the order of serverd's linked list; NoList is NULL; fifo *)
(* tells whether the configuration says "mail_scan fifo".                   *)
(* Not modelled: I/O errors on .newmail, and names of lists that are no     *)
(* longer configured.                                                       *)
EXTENDS Naturals, Sequences

CONSTANTS NLists    \* number of configured lists

ASSUME NewMailAssumption == NLists \in Nat \ {0}

Lists  == 1..NLists
NoList == 0

(* lpms_fifo_report_new_mail: the name is appended unless it is there. *)
Report(fifo, q, l) ==
  IF fifo /\ \A i \in DOMAIN q : q[i] # l THEN Append(q, l) ELSE q

(* The list after l in the linked list. *)
Successor(l) == IF l = NLists THEN NoList ELSE l + 1

Dequeue_newest(q, busy) ==
  LET idle == {i \in DOMAIN q : ~busy[q[i]]}
      last == CHOOSE i \in idle : \A j \in idle : i >= j
  IN  IF idle = {} THEN [list |-> NoList, queue |-> <<>>]
      ELSE [list |-> q[last], queue |-> SubSeq(q, last + 1, Len(q))]
(* The first entry whose list is not busy is returned; the entries before   *)
(* it have been read and are not copied to the new file.  When every list   *)
(* in the file is busy the file is truncated.                               *)
Dequeue(q, busy) ==
  LET idle  == {i \in DOMAIN q : ~busy[q[i]]}
      first == CHOOSE i \in idle : \A j \in idle : i <= j
  IN  IF idle = {} THEN [list |-> NoList, queue |-> <<>>]
      ELSE [list |-> q[first], queue |-> SubSeq(q, first + 1, Len(q))]

(* lpms_get_next.  The fifo method walks the linked list once, empties the  *)
(* file at the end of that walk, and only then reads the file.              *)
GetNext(fifo, cur, q, scanned, busy) ==
  LET next == Successor(cur)
      deq  == Dequeue(q, busy)
  IN  CASE ~fifo -> [list |-> next, queue |-> q, scanned |-> scanned]
        [] fifo /\ ~scanned /\ next # NoList ->
             [list |-> next, queue |-> q, scanned |-> FALSE]
        [] fifo /\ ~scanned /\ next = NoList ->
             [list |-> NoList, queue |-> <<>>, scanned |-> TRUE]
        [] fifo /\ scanned ->
             [list |-> deq.list, queue |-> deq.queue, scanned |-> TRUE]
=============================================================================

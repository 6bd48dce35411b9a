------------------------------ MODULE MailText ------------------------------
(* The text of a message on its way to the mail transfer agent: the parts a    *)
(* process has composed it of are written line by line into a buffer, a dot    *)
(* that begins a line is doubled, and the last line is a dot.  mu_write_body   *)
(* writes the same parts into a file of the mail queue or of a list.           *)
(*                                                                             *)
(* Sources: src/send/lpsmtp.c from smtp_write_socket on, mu_write_body in      *)
(* src/send/utils.c, mh_write_to_fd in src/objects/message_header.c.           *)
(*                                                                             *)
(* Abstracted: a text is a sequence of ".", "x" for any other character and    *)
(* "n" for the end of a line, be it CR, LF or both; the "From " line of a      *)
(* header is not there; a file that cannot be read is an empty one.  A message *)
(* or a list inside another one begins a line, as the callers see to.          *)
EXTENDS Naturals, SequencesExt, FiniteSetsExt

CONSTANTS
  Letters,   \* the messages, [header, body]: a body is a sequence of parts
  Size       \* SMTP_OUTPUT_BUFFER_SIZE

VARIABLES
  letter,  \* the message
  stack,   \* the calls of smtp_write_header and smtp_write_body that have not ended
  buf,     \* SMTP_BUF
  wire     \* what has been written to the socket

text == <<letter, stack, buf, wire>>

EOL      == <<"n">>
Space    == <<"x">>
Garbage  == <<"?">>
Top      == stack[1]
Callers  == Tail(stack)
Part     == Top.body[1]

-----------------------------------------------------------------------------
(* mu_write_body *)

Ended(t) == IF Last(t) # "n" THEN t \o EOL ELSE t

\* mh_write_to_fd: the lines, and an empty one.
HeaderText(header) ==
  IF header = <<>> THEN <<>> ELSE FlattenSeq([i \in DOMAIN header |-> header[i] \o EOL]) \o EOL

Nothing(part) == part.op = "f" /\ part.text = <<>>

\* The last part that writes something leaves its line unfinished.
Unfinished(body) ==
  \E i \in DOMAIN body :
    /\ body[i].op = "p" \/ (body[i].op = "s" /\ body[i].text # <<>> /\ Last(body[i].text) # "n")
    /\ \A j \in i + 1 .. Len(body) : Nothing(body[j])

\* For a program it takes words that the list of the words does not have.
RECURSIVE Written(_)
Written(body) ==
  LET Of(part) ==
        CASE part.op = "s" -> part.text
          [] part.op = "f" -> IF Nothing(part) THEN <<>> ELSE Ended(part.text)
          [] part.op = "p" -> FlattenSeq([i \in DOMAIN part.words |-> Garbage \o Space])
          [] OTHER -> HeaderText(part.header) \o Written(part.body)
  IN  FlattenSeq([i \in DOMAIN body |-> Of(body[i])]) \o (IF Unfinished(body) THEN EOL ELSE <<>>)

-----------------------------------------------------------------------------
(* smtp_send_data_out: the pieces in which a text is written *)

LineStarts(t) == {i \in DOMAIN t : i = 1 \/ t[i - 1] = "n"}

\* Without its end.
LineAt(t, i) ==
  LET ends == {j \in i..Len(t) : t[j] = "n"}
  IN  SubSeq(t, i, IF ends = {} THEN Len(t) ELSE Min(ends) - 1)

Pieces(t, start) ==
  FlattenSeq([i \in DOMAIN t |->
    (IF t[i] = "." /\ i \in LineStarts(t) /\ (i > 1 \/ start) THEN <<<<".">>>> ELSE <<>>)
    \o (IF i \in LineStarts(t) /\ t[i] # "n" THEN <<LineAt(t, i)>> ELSE <<>>)
    \o (IF t[i] = "n" THEN <<EOL>> ELSE <<>>)])

\* Faulty variant: a long piece overtakes the buffer.
Write_over(out, piece) ==
  IF Len(piece) > Size THEN [out EXCEPT !.wire = @ \o piece]
  ELSE IF Len(out.buf) + Len(piece) > Size THEN [buf |-> piece, wire |-> out.wire \o out.buf]
  ELSE [out EXCEPT !.buf = @ \o piece]

\* smtp_send_data_write
Write(out, piece) ==
  LET flushed == [buf |-> <<>>, wire |-> out.wire \o out.buf]
  IN  IF Len(piece) > Size THEN [flushed EXCEPT !.wire = @ \o piece]
      ELSE IF Len(out.buf) + Len(piece) > Size THEN [flushed EXCEPT !.buf = piece]
      ELSE [out EXCEPT !.buf = @ \o piece]

Send(pieces) ==
  LET out == FoldLeft(Write, [buf |-> buf, wire |-> wire], pieces)
  IN  buf' = out.buf /\ wire' = out.wire

-----------------------------------------------------------------------------
(* smtp_write_header and smtp_write_body *)

Call(message) ==
  [header |-> message.header, body |-> message.body, start |-> TRUE, last |-> "n"]

Begin ==
  /\ stack = <<>> /\ buf = <<>> /\ wire = <<>>
  /\ stack' = <<Call(letter)>>
  /\ UNCHANGED <<letter, buf, wire>>

Working == stack # <<>>

WriteHeader ==
  /\ Working /\ Top.header # <<>>
  /\ Send(Pieces(Top.header[1], TRUE) \o <<EOL>> \o (IF Len(Top.header) = 1 THEN <<EOL>> ELSE <<>>))
  /\ stack' = <<[Top EXCEPT !.header = Tail(@)]>> \o Callers
  /\ UNCHANGED letter

NextPart(op) == Working /\ Top.header = <<>> /\ Top.body # <<>> /\ Part.op = op

Goes(start, last) ==
  stack' = <<[Top EXCEPT !.body = Tail(@), !.start = start, !.last = last]>> \o Callers

\* The end of an empty string is what lies before it.
WriteString ==
  /\ NextPart("s")
  /\ Send(Pieces(Part.text, Top.start))
  /\ IF Part.text # <<>> THEN Goes(Last(Part.text) = "n", Last(Part.text))
     ELSE \E before \in {"n", "x"} : Goes(before = "n", before)
  /\ UNCHANGED letter

WriteFile ==
  /\ NextPart("f")
  /\ IF Nothing(Part) THEN Goes(Top.start, Top.last) /\ UNCHANGED <<buf, wire>>
     ELSE /\ Send(Pieces(Part.text, Top.start) \o (IF Last(Part.text) = "n" THEN <<>> ELSE <<EOL>>))
          /\ Goes(TRUE, "n")
  /\ UNCHANGED letter

WriteWords ==
  /\ NextPart("p")
  /\ Send(FlattenSeq([i \in DOMAIN Part.words |->
            Pieces(Part.words[i], i = 1 /\ Top.start) \o <<Space>>]))
  /\ Goes(FALSE, "x")
  /\ UNCHANGED letter

\* A message or a list in the message: line_start remains what it was.
WriteInner ==
  /\ NextPart("m") \/ NextPart("l")
  /\ stack' = <<Call(Part), [Top EXCEPT !.body = Tail(@), !.last = "n"]>> \o Callers
  /\ UNCHANGED <<letter, buf, wire>>

EndBody ==
  /\ Working /\ Top.header = <<>> /\ Top.body = <<>> /\ Callers # <<>>
  /\ Send(IF Top.last = "n" THEN <<>> ELSE <<EOL>>)
  /\ stack' = Callers
  /\ UNCHANGED letter

\* smtp_send_data_flush, and the end of the data.
Finish ==
  /\ Working /\ Top.header = <<>> /\ Top.body = <<>> /\ Callers = <<>>
  /\ wire' = wire \o buf \o (IF Top.last = "n" THEN <<>> ELSE EOL) \o <<"n", ".", "n">>
  /\ stack' = <<>> /\ buf' = <<>>
  /\ UNCHANGED letter

TextInit == letter \in Letters /\ stack = <<>> /\ buf = <<>> /\ wire = <<>>

TextNext ==
  Begin \/ WriteHeader \/ WriteString \/ WriteFile \/ WriteWords \/ WriteInner \/ EndBody \/ Finish

-----------------------------------------------------------------------------
(* What the MTA makes of it (RFC 821): a line that is a dot is the end, and    *)
(* from others that begin with one it is taken away.                           *)
DataLines == [i \in LineStarts(wire) |-> LineAt(wire, i)]

TheEnd == {i \in DOMAIN DataLines : DataLines[i] = <<".">>}

Taken ==
  FlattenSeq([i \in 1 .. Min(TheEnd) - 1 |->
    IF i \in LineStarts(wire) /\ wire[i] = "." THEN <<>> ELSE <<wire[i]>>])

RECURSIVE PartsOf(_)
PartsOf(body) ==
  Range(body) \cup UNION {PartsOf(part.body) : part \in {x \in Range(body) : x.op \in {"m", "l"}}}

Empty(part)   == part.op = "s" /\ part.text = <<>>
Program(part) == part.op = "p"

\* src/send/lpsmtp.c:815 "This routine should be identical to mu_write_body":
\* whatever the parts, and wherever the buffer is full, the MTA takes the whole
\* of the text and an empty line, and nothing follows the dot that ends it.  But
\* for an empty string, whose last character is looked for before it, so that a
\* dot after it may not be doubled; and of a program mu_write_body writes other
\* words (utils.c:231).
AsSent ==
  LET parts == PartsOf(letter.body) IN
  ~Working /\ wire # <<>> /\ ~(\E part \in parts : Empty(part)) =>
    /\ Min(TheEnd) = Len(wire) - 1
    /\ ~(\E part \in parts : Program(part)) =>
         Taken = HeaderText(letter.header) \o Written(letter.body) \o EOL

=============================================================================

--------------------------- MODULE CommandStream ----------------------------
(***************************************************************************)
(* What recv gives handle_client of hw2.c: the commands of a client are a  *)
(* stream of bytes, recv returns some of those that have arrived, and the  *)
(* thread takes them up to the first end of line for a command and forgets *)
(* the others.  DeliveryServer has one command per recv; this module shows *)
(* for which clients it is so.                                             *)
(*                                                                         *)
(* Command k is sent as the pieces <<k, 1>> to <<k, Pieces>> and its end   *)
(* of line, <<k, Eol>>.  Most commands are answered and the thread goes on *)
(* ("stay", the invalid ones included); cancel ends the session, and so    *)
(* does confirm, unless nothing has been ordered or the client is asked    *)
(* about a long wait: then the next line, whatever it is, ends it.         *)
(***************************************************************************)
EXTENDS Integers, Sequences

CONSTANTS
  Commands,   (* how many commands the client sends                        *)
  Pieces      (* pieces of a command                                       *)

StreamAssumption == Commands \in Nat \ {0} /\ Pieces \in Nat \ {0}

Eol == Pieces + 1

Kinds == {"stay", "confirm", "cancel"}

VARIABLES
  kind,       (* the kind of each command                                  *)
  ahead,      (* the client may send the next before it has the answer     *)
  split,      (* recv may return a part of what has been sent              *)
  sent,       (* commands the client has sent                              *)
  peer,       (* the client is "open" or has "left"                        *)
  stream,     (* pieces on their way                                       *)
  thread,     (* where the thread receives, "recv" or "prompt", or "closed"*)
  over,       (* it has ended the session: canceled or delivered           *)
  executed    (* history: the lines taken for commands or answers          *)

connection == <<kind, ahead, split>>
vars == <<connection, sent, peer, stream, thread, over, executed>>

TypeOK ==
  /\ kind \in [1..Commands -> Kinds] /\ ahead \in BOOLEAN /\ split \in BOOLEAN
  /\ sent \in 0..Commands
  /\ peer \in {"open", "left"} /\ thread \in {"recv", "prompt", "closed"} /\ over \in BOOLEAN
  /\ stream \in Seq((1..Commands) \X (1..Eol))
  /\ executed \in Seq(Seq((1..Commands) \X (1..Pieces)))
  /\ thread = "closed" /\ ~over => stream = <<>>

Command(k) == [i \in 1..Pieces |-> <<k, i>>]

Init ==
  /\ kind \in [1..Commands -> Kinds] /\ ahead \in BOOLEAN /\ split \in BOOLEAN
  /\ sent = 0 /\ peer = "open" /\ stream = <<>>
  /\ thread = "recv" /\ over = FALSE /\ executed = <<>>

Answered == sent <= Len(executed)

Send ==
  /\ peer = "open" /\ sent < Commands
  /\ ahead \/ Answered
  /\ sent' = sent + 1
  /\ stream' = stream \o Append(Command(sent'), <<sent', Eol>>)
  /\ UNCHANGED <<connection, peer, thread, over, executed>>

Leave ==
  /\ peer = "open" /\ peer' = "left"
  /\ UNCHANGED <<connection, sent, stream, thread, over, executed>>

(* A bug: the end of the line is taken out, and nothing else.              *)
FirstLineJoined(bytes) == SelectSeq(bytes, LAMBDA b : b[2] # Eol)

(* inputBuf[strcspn(inputBuf, "\r\n")] = 0.                                *)
FirstLine(bytes) ==
  LET ends == {i \in 1..Len(bytes) : bytes[i][2] = Eol}
  IN  IF ends = {} THEN bytes
      ELSE SubSeq(bytes, 1, (CHOOSE i \in ends : \A j \in ends : i <= j) - 1)

(* What recv returns, and the line that is taken of it.                    *)
Take ==
  /\ stream # <<>>
  /\ \E n \in IF split THEN 1..Len(stream) ELSE {Len(stream)} :
       /\ executed' = Append(executed, FirstLine(SubSeq(stream, 1, n)))
       /\ stream' = SubSeq(stream, n + 1, Len(stream))
  /\ UNCHANGED <<connection, sent, peer>>

(* A line that is not a whole command is an invalid one.                   *)
Says(line, what) == \E k \in 1..Commands : line = Command(k) /\ kind[k] = what

(* Answered; confirm is when nothing has been ordered.                     *)
Stay(line) == ~Says(line, "cancel") /\ thread' = "recv" /\ over' = FALSE

(* The courier would take long.                                            *)
Ask(line) == Says(line, "confirm") /\ thread' = "prompt" /\ over' = FALSE

(* Canceled, or confirmed and, after a while, delivered.                   *)
End(line) ==
  /\ Says(line, "confirm") \/ Says(line, "cancel")
  /\ thread' = "closed" /\ over' = TRUE

Recv ==
  /\ thread = "recv" /\ Take
  /\ LET line == executed'[Len(executed')] IN Stay(line) \/ Ask(line) \/ End(line)

(* No cancels the order, and any other line is a Yes.                      *)
RecvAnswer == thread = "prompt" /\ Take /\ thread' = "closed" /\ over' = TRUE

(* A bug: the thread closes while commands are on their way.               *)
EofEarly == peer = "left"

Eof == peer = "left" /\ stream = <<>>

RecvEof ==
  /\ thread # "closed" /\ Eof
  /\ thread' = "closed"
  /\ UNCHANGED <<connection, sent, peer, stream, over, executed>>

Thread == Recv \/ RecvAnswer \/ RecvEof

Next == Send \/ Leave \/ Thread

Spec == Init /\ [][Next]_vars

FairSpec == Spec /\ WF_vars(Thread)

-----------------------------------------------------------------------------
(* The order of the stream.                                                *)
Before(a, b) == a[1] < b[1] \/ (a[1] = b[1] /\ a[2] < b[2])

(* However a client sends ahead and its bytes are cut or merged, no line   *)
(* mixes two commands, none is executed twice or before an earlier one     *)
(* (hw2.c:251-253): the pieces executed keep the order of the stream.      *)
NothingMixed ==
  \A l, m \in 1..Len(executed) :
    \A i \in 1..Len(executed[l]), j \in 1..Len(executed[m]) :
      /\ l = m => executed[l][i][1] = executed[m][j][1]
      /\ l < m \/ (l = m /\ i < j) => Before(executed[l][i], executed[m][j])

Executed(k) == \E l \in 1..Len(executed) : executed[l] = Command(k)

(* One that has ended the session, by itself or through its answer.        *)
EndedBefore(k) ==
  over /\ \E j \in 1..(k - 1) : kind[j] \in {"confirm", "cancel"} /\ Executed(j)

(* A client that waits for each answer and whose lines arrive whole gets   *)
(* every command executed, also those it leaves behind when it goes, until *)
(* the first that ends the session (hw2.c:251-253, 444, 468, 475): what    *)
(* DeliveryServer assumes.                                                 *)
LockstepAnswered ==
  \A k \in 1..Commands : (sent >= k /\ ~ahead /\ ~split) ~> (Executed(k) \/ EndedBefore(k))

=============================================================================

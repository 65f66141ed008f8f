------------------------- MODULE ConnectionsProofs --------------------------
(***************************************************************************)
(* Theorems about TrainServer, for any number of clients, and about        *)
(* CommandStream, for any number of commands and pieces: the server        *)
(* forgets no child that has ended, and no line mixes two commands.        *)
(***************************************************************************)
EXTENDS MCConnections, SequenceTheorems, WellFoundedInduction, TLAPS

-----------------------------------------------------------------------------
(* The train server *)

(* A server that has exited has no handler and no signal waiting, and its  *)
(* children are reaped by init: no later step makes a zombie that nobody   *)
(* would notice.                                                           *)
Adopted ==
  server = "exited" => ~handler /\ ~chld /\ \A c \in Clients : child[c] # "zombie"

TrainInv == TypeOK /\ ZombieNoticed /\ Adopted

LEMMA TrainInit == Init => TrainInv
BY TrainAssumption DEF Init, TrainInv, TypeOK, ZombieNoticed, Adopted, Holding

(* main and Ctrl-C.                                                        *)
LEMMA MainStep ==
  ASSUME TrainInv, Main \/ Interrupt
  PROVE  TrainInv'
<1> USE TrainAssumption DEF TrainInv, TypeOK, ZombieNoticed, Adopted, Holding, signals
<1>1. CASE Accept
  BY <1>1 DEF Accept
<1>2. CASE Fork
  <2>1. client_fd \in Clients /\ server # "exited" /\ server' = "close"
    BY <1>2 DEF Fork
  <2>2. child' \in [Clients -> Holding \cup {"none", "zombie", "reaped"}]
    BY <1>2 DEF Fork
  <2>3. \A c \in Clients : child'[c] = "zombie" => child[c] = "zombie"
    BY <1>2 DEF Fork
  <2> QED
    BY <1>2, <2>1, <2>2, <2>3 DEF Fork
<1>3. CASE ForkFailed
  <2>1. child' \in [Clients -> Holding \cup {"none", "zombie", "reaped"}]
    BY <1>3 DEF ForkFailed
  <2>2. \A c \in Clients : child'[c] # "zombie"
    BY <1>3 DEF ForkFailed
  <2> QED
    BY <1>3, <2>1, <2>2 DEF ForkFailed
<1>4. CASE Close
  BY <1>4 DEF Close
<1>5. CASE Interrupt
  BY <1>5 DEF Interrupt
<1> QED
  BY <1>1, <1>2, <1>3, <1>4, <1>5 DEF Main

(* handler_sigchld: it goes on until no zombie is left, so that it need    *)
(* not be called once for each.                                            *)
LEMMA HandlerStep ==
  ASSUME TrainInv, Handler
  PROVE  TrainInv'
<1> USE TrainAssumption DEF TrainInv, TypeOK, ZombieNoticed, Adopted, Holding, signals
<1>1. CASE HandlerBegins
  BY <1>1 DEF HandlerBegins
<1>2. CASE Reap
  <2>1. PICK c \in Clients : child[c] = "zombie" /\ child' = [child EXCEPT ![c] = "reaped"]
    BY <1>2 DEF Reap
  <2>2. child' \in [Clients -> Holding \cup {"none", "zombie", "reaped"}]
    BY <2>1
  <2>3. server # "exited" /\ handler'
    BY <1>2 DEF Reap, Again
  <2> QED
    BY <1>2, <2>2, <2>3 DEF Reap, Again
<1>3. CASE HandlerEnds
  BY <1>3 DEF HandlerEnds, NobodyEnded
<1> QED
  BY <1>1, <1>2, <1>3 DEF Handler

(* A child.                                                                *)
LEMMA ChildStep ==
  ASSUME TrainInv, NEW c \in Clients, CloseListening(c) \/ Exec(c) \/ End(c)
  PROVE  TrainInv'
<1> USE TrainAssumption DEF TrainInv, TypeOK, ZombieNoticed, Adopted, Holding, signals
<1>1. CASE CloseListening(c) \/ Exec(c)
  <2>1. child' \in [Clients -> Holding \cup {"none", "zombie", "reaped"}]
    BY <1>1 DEF CloseListening, Exec
  <2>2. \A d \in Clients : child'[d] = "zombie" => child[d] = "zombie"
    BY <1>1 DEF CloseListening, Exec
  <2> QED
    BY <1>1, <2>1, <2>2 DEF CloseListening, Exec
<1>2. CASE End(c)
  <2>1. child' \in [Clients -> Holding \cup {"none", "zombie", "reaped"}]
    BY <1>2 DEF End
  <2>2. server = "exited" => \A d \in Clients : child'[d] # "zombie"
    BY <1>2 DEF End
  <2>3. server # "exited" => chld'
    BY <1>2 DEF End
  <2>4. server = "exited" => ~chld'
    BY <1>2 DEF End
  <2>5. TypeOK'
    <3>1. chld' \in BOOLEAN
      BY <1>2, Zenon DEF End
    <3> QED
      BY <1>2, <2>1, <3>1 DEF End
  <2>6. ZombieNoticed' /\ Adopted'
    BY <1>2, <2>2, <2>3, <2>4 DEF End
  <2> QED
    BY <2>5, <2>6
<1> QED
  BY <1>1, <1>2

(* A client, and the kernel.                                               *)
LEMMA ClientStep ==
  ASSUME TrainInv, NEW c \in Clients, Connect(c) \/ Leave(c) \/ Reset(c) \/ EndOfFile(c)
  PROVE  TrainInv'
<1> USE TrainAssumption DEF TrainInv, TypeOK, ZombieNoticed, Adopted, Holding, signals
<1>1. client' \in [Clients -> {"off", "open", "closed"}] /\ queue' \subseteq Clients
  BY DEF Connect, Leave, Reset, EndOfFile
<1> QED
  BY <1>1 DEF Connect, Leave, Reset, EndOfFile

LEMMA TrainStep ==
  ASSUME TrainInv, [Next]_vars
  PROVE  TrainInv'
<1>1. CASE Main \/ Interrupt
  BY <1>1, MainStep
<1>2. CASE Handler
  BY <1>2, HandlerStep
<1>3. CASE \E c \in Clients : CloseListening(c) \/ Exec(c) \/ End(c)
  BY <1>3, ChildStep
<1>4. CASE \E c \in Clients : Connect(c) \/ Leave(c) \/ Reset(c) \/ EndOfFile(c)
  BY <1>4, ClientStep
<1>5. CASE UNCHANGED vars
  BY <1>5 DEF vars, signals, TrainInv, TypeOK, ZombieNoticed, Adopted, Holding
<1> QED
  BY <1>1, <1>2, <1>3, <1>4, <1>5 DEF Next

(* lab5.c:17: whenever children have ended, handler_sigchld runs or will   *)
(* run, although their signals may have become one.                        *)
THEOREM NoZombieForgotten == Spec => []ZombieNoticed
<1>1. Spec => []TrainInv
  BY TrainInit, TrainStep, PTL DEF Spec
<1>2. TrainInv => ZombieNoticed
  BY DEF TrainInv
<1> QED
  BY <1>1, <1>2, PTL

-----------------------------------------------------------------------------
(* The commands of a delivery client *)

Piece == (1..Commands) \X (1..Stream!Eol)

(* What is on its way is in the order in which it was sent, ...            *)
InOrder ==
  \A i, j \in 1..Len(stream) : i < j => Stream!Before(stream[i], stream[j])

(* ... there is an end of line between two commands, and behind the last.  *)
Parted ==
  /\ \A i, j \in 1..Len(stream) :
       i < j => \/ stream[i][1] = stream[j][1]
                \/ \E m \in i..(j - 1) : stream[m][2] = Stream!Eol
  /\ stream # <<>> => stream[Len(stream)][2] = Stream!Eol

(* What has been executed comes before what is on its way, ...             *)
Behind ==
  \A l \in 1..Len(executed) : \A i \in 1..Len(executed[l]) :
    \A j \in 1..Len(stream) : Stream!Before(executed[l][i], stream[j])

(* ... and all of it has been sent.                                        *)
WasSent ==
  /\ \A j \in 1..Len(stream) : stream[j][1] <= sent
  /\ \A l \in 1..Len(executed) : \A i \in 1..Len(executed[l]) : executed[l][i][1] <= sent

(* The thread closes when the session is over or the client has left.      *)
Over == thread = "closed" /\ ~over => peer = "left"

StreamInv ==
  Stream!TypeOK /\ InOrder /\ Parted /\ Behind /\ WasSent /\ Over /\ NothingMixed


LEMMA StreamConstants ==
  /\ Commands \in Nat /\ Pieces \in Nat /\ Commands >= 1 /\ Pieces >= 1
  /\ Stream!Eol = Pieces + 1
  /\ \A x \in Piece : x[1] \in 1..Commands /\ x[2] \in 1..(Pieces + 1)
BY DeliveryAssumption DEF Stream!StreamAssumption, Stream!Eol, Piece

(* A nonempty set of positive numbers has a least element.                 *)
LEMMA Least ==
  ASSUME NEW n \in Nat, NEW T, T \subseteq 1..n, T # {}
  PROVE  \E x \in T : \A y \in T : x <= y
<1> DEFINE R == OpToRel(<, Nat)
<1>1. IsWellFoundedOn(R, Nat)
  BY NatLessThanWellFounded
<1>2. \A x, y \in Nat : y < x => <<y, x>> \in R
  BY DEF OpToRel
<1> HIDE DEF R
<1>3. T \subseteq Nat
  OBVIOUS
<1>4. PICK x \in T : \A y \in T : ~ (<<y, x>> \in R)
  BY <1>1, <1>3, WFMin
<1>5. ASSUME NEW y \in T PROVE x <= y
  <2>1. ~ (y < x)
    BY <1>2, <1>3, <1>4
  <2> QED
    BY <1>3, <2>1
<1> QED
  BY <1>5

(* What the thread takes for a command of n bytes it has received: some of *)
(* the first of them, none of which is an end of line.                     *)
LEMMA FirstLineTaken ==
  ASSUME NEW s \in Seq(Piece), NEW n \in 1..Len(s)
  PROVE  LET line == Stream!FirstLine(SubSeq(s, 1, n)) IN
         /\ line \in Seq(Piece) /\ Len(line) <= n
         /\ \A i \in 1..Len(line) : line[i] = s[i] /\ s[i][2] # Stream!Eol
<1> DEFINE bytes == SubSeq(s, 1, n)
           ends == {i \in 1..Len(bytes) : bytes[i][2] = Stream!Eol}
           least == CHOOSE i \in ends : \A j \in ends : i <= j
           line == Stream!FirstLine(bytes)
<1>1. Len(s) \in Nat /\ n \in Nat /\ \A i \in 1..n : s[i] \in Piece
  BY ElementOfSeq, LenProperties
<1>2. /\ bytes \in Seq(Piece) /\ Len(bytes) = n
      /\ \A i \in 1..n : bytes[i] = s[i]
  BY <1>1, SubSeqProperties
<1>3. line = IF ends = {} THEN bytes ELSE SubSeq(bytes, 1, least - 1)
  BY Zenon DEF Stream!FirstLine
<1>4. CASE ends = {}
  BY <1>2, <1>3, <1>4
<1>5. CASE ends # {}
  <2>1. ends \subseteq 1..n
    BY <1>2
  <2>2. least \in ends /\ \A j \in ends : least <= j
    <3>1. \E x \in ends : \A y \in ends : x <= y
      BY <1>1, <1>5, <2>1, Least
    <3> HIDE DEF ends
    <3> QED
      BY <3>1
  <2> HIDE DEF least
  <2>3. least \in 1..n
    BY <2>1, <2>2
  <2>4. \A i \in 1..(least - 1) : i \in 1..n /\ bytes[i] \in Piece /\ i \notin ends
    BY <1>1, <1>2, <2>2, <2>3
  <2>5. line = SubSeq(bytes, 1, least - 1)
    BY <1>3, <1>5
  <2>6. /\ line \in Seq(Piece)
        /\ Len(line) = IF 1 <= least - 1 THEN least - 1 ELSE 0
        /\ \A i \in 1..(least - 1) : line[i] = bytes[i]
    <3>1. /\ SubSeq(bytes, 1, least - 1) \in Seq(Piece)
          /\ Len(SubSeq(bytes, 1, least - 1)) = IF 1 <= least - 1 THEN least - 1 - 1 + 1 ELSE 0
          /\ \A i \in 1..(least - 1 - 1 + 1) : SubSeq(bytes, 1, least - 1)[i] = bytes[1 + i - 1]
      BY <2>3, <2>4, SubSeqProperties
    <3> QED
      BY <2>3, <2>5, <3>1
  <2>7. Len(line) <= n /\ \A i \in 1..Len(line) : i \in 1..(least - 1)
    BY <2>3, <2>6
  <2> QED
    BY <1>2, <2>4, <2>6, <2>7
<1> QED
  BY <1>4, <1>5

(* The pieces of a command, and its end of line.                           *)
LEMMA LineSent ==
  ASSUME NEW k \in 1..Commands
  PROVE  LET line == Append(Stream!Command(k), <<k, Stream!Eol>>) IN
         /\ line \in Seq(Piece) /\ Len(line) = Pieces + 1
         /\ \A i \in 1..(Pieces + 1) : line[i][1] = k /\ line[i][2] = i
<1> DEFINE c == Stream!Command(k)
<1>1. c = [i \in 1..Pieces |-> <<k, i>>]
  BY DEF Stream!Command
<1>2. c \in [1..Pieces -> Piece]
  BY <1>1, StreamConstants DEF Piece
<1>3. c \in Seq(Piece) /\ Len(c) = Pieces
  BY <1>2, StreamConstants
<1>4. <<k, Stream!Eol>> \in Piece
  BY StreamConstants DEF Piece
<1>5. \A i \in 1..Pieces : c[i] = <<k, i>>
  BY <1>1
<1> HIDE DEF c
<1>6. /\ Append(c, <<k, Stream!Eol>>) \in Seq(Piece)
      /\ Len(Append(c, <<k, Stream!Eol>>)) = Pieces + 1
      /\ \A i \in 1..Pieces : Append(c, <<k, Stream!Eol>>)[i] = <<k, i>>
      /\ Append(c, <<k, Stream!Eol>>)[Pieces + 1] = <<k, Pieces + 1>>
  BY <1>3, <1>4, <1>5, AppendProperties, StreamConstants
<1> QED
  BY <1>6, StreamConstants DEF c


LEMMA StreamInit == Stream!Init => StreamInv
<1> SUFFICES ASSUME Stream!Init PROVE StreamInv
  OBVIOUS
<1>1. Len(stream) = 0 /\ Len(executed) = 0 /\ stream = <<>> /\ sent = 0
  BY DEF Stream!Init
<1>2. Stream!TypeOK
  <2>1. kind \in [1..Commands -> Stream!Kinds]
    BY DEF Stream!Init
  <2>2. /\ ahead \in BOOLEAN /\ split \in BOOLEAN /\ sent \in 0..Commands
        /\ peer = "open" /\ thread = "recv" /\ over = FALSE
        /\ stream = <<>> /\ executed = <<>>
    BY StreamConstants DEF Stream!Init
  <2>3. stream \in Seq((1..Commands) \X (1..Stream!Eol))
    BY <2>2
  <2>4. executed \in Seq(Seq((1..Commands) \X (1..Pieces)))
    BY <2>2
  <2>5. over \in BOOLEAN /\ thread \in {"recv", "prompt", "closed"} /\ peer \in {"open", "left"}
    BY <2>2
  <2> QED
    BY <2>1, <2>2, <2>3, <2>4, <2>5, Zenon DEF Stream!TypeOK
<1> QED
  BY <1>1, <1>2 DEF Stream!Init, StreamInv, InOrder, Parted, Behind, WasSent, Over, NothingMixed, Stream!NothingMixed

(* What the invariant says of the parts of the state.                      *)
LEMMA StreamTypes ==
  ASSUME StreamInv
  PROVE  /\ sent \in Nat /\ sent <= Commands
         /\ stream \in Seq(Piece) /\ Len(stream) \in Nat
         /\ \A j \in 1..Len(stream) : stream[j] \in Piece
         /\ executed \in Seq(Seq((1..Commands) \X (1..Pieces))) /\ Len(executed) \in Nat
         /\ \A l \in 1..Len(executed) :
              /\ executed[l] \in Seq((1..Commands) \X (1..Pieces)) /\ Len(executed[l]) \in Nat
              /\ \A i \in 1..Len(executed[l]) :
                   executed[l][i] \in Piece /\ executed[l][i][1] \in Int
<1>1. /\ sent \in 0..Commands /\ stream \in Seq(Piece)
      /\ executed \in Seq(Seq((1..Commands) \X (1..Pieces)))
  BY DEF StreamInv, Stream!TypeOK, Piece
<1>2. \A j \in 1..Len(stream) : stream[j] \in Piece
  BY <1>1, ElementOfSeq
<1>3. \A l \in 1..Len(executed) : executed[l] \in Seq((1..Commands) \X (1..Pieces))
  BY <1>1, ElementOfSeq
<1>4. \A l \in 1..Len(executed) : \A i \in 1..Len(executed[l]) :
        executed[l][i] \in (1..Commands) \X (1..Pieces)
  BY <1>3, ElementOfSeq
<1>5. \A x \in (1..Commands) \X (1..Pieces) : x \in Piece /\ x[1] \in Int
  BY StreamConstants DEF Piece
<1>6. Len(stream) \in Nat /\ Len(executed) \in Nat
  BY <1>1, LenProperties
<1>7. \A l \in 1..Len(executed) : Len(executed[l]) \in Nat
  BY <1>3, LenProperties
<1>8. sent \in Nat /\ sent <= Commands
  BY <1>1, StreamConstants
<1>9. \A l \in 1..Len(executed) : \A i \in 1..Len(executed[l]) :
        executed[l][i] \in Piece /\ executed[l][i][1] \in Int
  BY <1>4, <1>5
<1> QED
  BY <1>1, <1>2, <1>3, <1>6, <1>7, <1>8, <1>9

(* A command that is sent comes after all that has been sent before.       *)
LEMMA SendStep ==
  ASSUME StreamInv, Stream!Send
  PROVE  StreamInv'
<1> DEFINE k == sent + 1
           line == Append(Stream!Command(k), <<k, Stream!Eol>>)
           n == Len(stream)
<1>1. /\ sent' = k /\ stream' = stream \o line /\ executed' = executed /\ thread' = thread
      /\ over' = over /\ peer' = peer /\ kind' = kind /\ ahead' = ahead /\ split' = split /\ peer = "open"
  BY Zenon DEF Stream!Send, Stream!connection
<1>2. k \in 1..Commands /\ k \in Int /\ sent \in Int /\ sent < k
  BY StreamTypes, StreamConstants DEF Stream!Send
<1>3. /\ line \in Seq(Piece) /\ Len(line) = Pieces + 1
      /\ \A i \in 1..(Pieces + 1) : line[i][1] = k /\ line[i][2] = i
  BY <1>2, LineSent
<1>4. /\ stream' \in Seq(Piece) /\ Len(stream') = n + Pieces + 1
      /\ \A i \in 1..n : stream'[i] = stream[i]
      /\ \A i \in (n + 1)..(n + Pieces + 1) : stream'[i][1] = k /\ stream'[i][2] = i - n
  <2> HIDE DEF line, k
  <2>1. /\ stream' \in Seq(Piece) /\ Len(stream') = n + Len(line)
        /\ \A i \in 1..(n + Len(line)) :
             stream'[i] = IF i <= n THEN stream[i] ELSE line[i - n]
    BY <1>1, <1>3, StreamTypes, ConcatProperties
  <2>2. n \in Nat /\ Pieces \in Nat
    BY StreamTypes, StreamConstants
  <2>3. \A i \in 1..n : stream'[i] = stream[i]
    BY <1>3, <2>1, <2>2
  <2>4. ASSUME NEW i \in (n + 1)..(n + Pieces + 1)
        PROVE  stream'[i][1] = k /\ stream'[i][2] = i - n
    <3>1. i - n \in 1..(Pieces + 1) /\ ~(i <= n) /\ i \in 1..(n + Len(line))
      BY <1>3, <2>2
    <3> QED
      BY <1>3, <2>1, <3>1
  <2> QED
    BY <1>3, <2>1, <2>2, <2>3, <2>4
<1> HIDE DEF line
<1>5. n \in Nat /\ Pieces \in Nat /\ Pieces >= 1 /\ Stream!Eol = Pieces + 1
  BY StreamTypes, StreamConstants
<1>6. \A j \in 1..n : stream[j][1] \in Int /\ stream[j][1] <= sent
  BY StreamTypes, StreamConstants DEF StreamInv, WasSent
<1> HIDE DEF n, k
<1>7. Stream!TypeOK' /\ Over'
  BY <1>1, <1>2, <1>4 DEF StreamInv, Stream!TypeOK, Piece, Over
<1>8. InOrder'
  <2> SUFFICES ASSUME NEW i \in 1..(n + Pieces + 1), NEW j \in 1..(n + Pieces + 1), i < j
               PROVE  Stream!Before(stream'[i], stream'[j])
    BY <1>4 DEF InOrder
  <2>1. CASE j <= n
    <3>1. i \in 1..n /\ j \in 1..n
      BY <1>5, <2>1
    <3>2. Stream!Before(stream[i], stream[j])
      BY <3>1 DEF StreamInv, InOrder, n
    <3> QED
      BY <1>4, <3>1, <3>2
  <2>2. CASE i <= n /\ ~(j <= n)
    <3>1. i \in 1..n /\ j \in (n + 1)..(n + Pieces + 1)
      BY <1>5, <2>2
    <3>2. stream'[i][1] < stream'[j][1]
      BY <1>2, <1>4, <1>6, <3>1
    <3> QED
      BY <3>2 DEF Stream!Before
  <2>3. CASE ~(i <= n)
    <3>1. i \in (n + 1)..(n + Pieces + 1) /\ j \in (n + 1)..(n + Pieces + 1)
      BY <1>5, <2>3
    <3>2. stream'[i][1] = stream'[j][1] /\ stream'[i][2] < stream'[j][2]
      BY <1>4, <1>5, <3>1
    <3> QED
      BY <3>2 DEF Stream!Before
  <2> QED
    BY <2>1, <2>2, <2>3
<1>9. Parted'
  <2>1. ASSUME NEW i \in 1..(n + Pieces + 1), NEW j \in 1..(n + Pieces + 1), i < j
        PROVE  \/ stream'[i][1] = stream'[j][1]
               \/ \E m \in i..(j - 1) : stream'[m][2] = Stream!Eol
    <3>1. CASE j <= n
      <4>1. i \in 1..n /\ j \in 1..n /\ \A m \in i..(j - 1) : m \in 1..n
        BY <1>5, <2>1, <3>1
      <4>2. \/ stream[i][1] = stream[j][1]
            \/ \E m \in i..(j - 1) : stream[m][2] = Stream!Eol
        BY <2>1, <4>1 DEF StreamInv, Parted, n
      <4> QED
        BY <1>4, <4>1, <4>2
    <3>2. CASE i <= n /\ ~(j <= n)
      <4>1. i \in 1..n /\ n \in 1..n /\ n \in i..(j - 1)
        BY <1>5, <3>2
      <4>2. stream # <<>>
        BY <4>1, <1>5 DEF n
      <4>3. stream[n][2] = Stream!Eol
        BY <4>2 DEF StreamInv, Parted, n
      <4> QED
        BY <1>4, <4>1, <4>3
    <3>3. CASE ~(i <= n)
      <4>1. i \in (n + 1)..(n + Pieces + 1) /\ j \in (n + 1)..(n + Pieces + 1)
        BY <1>5, <2>1, <3>3
      <4>2. stream'[i][1] = k /\ stream'[j][1] = k
        BY <1>4, <4>1
      <4> QED
        BY <4>2
    <3> QED
      BY <3>1, <3>2, <3>3
  <2>2. stream'[Len(stream')][2] = Stream!Eol
    <3>1. PICK last \in (n + 1)..(n + Pieces + 1) : last = n + Pieces + 1
      BY <1>5
    <3>2. stream'[last][2] = last - n /\ Len(stream') = last
      BY <1>4, <3>1
    <3> QED
      BY <1>5, <3>1, <3>2
  <2> QED
    BY <1>4, <2>1, <2>2 DEF Parted
<1>10. Behind'
  <2> SUFFICES ASSUME NEW l \in 1..Len(executed), NEW i \in 1..Len(executed[l]),
                      NEW j \in 1..(n + Pieces + 1)
               PROVE  Stream!Before(executed[l][i], stream'[j])
    BY <1>1, <1>4 DEF Behind
  <2>1. CASE j <= n
    <3>1. j \in 1..n
      BY <1>5, <2>1
    <3>2. Stream!Before(executed[l][i], stream[j])
      BY <3>1 DEF StreamInv, Behind, n
    <3> QED
      BY <1>4, <3>1, <3>2
  <2>2. CASE ~(j <= n)
    <3>1. j \in (n + 1)..(n + Pieces + 1)
      BY <1>5, <2>2
    <3>2. executed[l][i][1] \in Int /\ executed[l][i][1] <= sent
      BY StreamTypes DEF StreamInv, WasSent
    <3>3. executed[l][i][1] < stream'[j][1]
      BY <1>2, <1>4, <3>1, <3>2
    <3> QED
      BY <3>3 DEF Stream!Before
  <2> QED
    BY <2>1, <2>2
<1>11. WasSent'
  <2>1. ASSUME NEW j \in 1..(n + Pieces + 1)
        PROVE  stream'[j][1] <= k
    <3>1. j \in 1..n \/ j \in (n + 1)..(n + Pieces + 1)
      BY <1>5
    <3> QED
      BY <1>2, <1>4, <1>6, <3>1
  <2>2. ASSUME NEW l \in 1..Len(executed), NEW i \in 1..Len(executed[l])
        PROVE  executed[l][i][1] <= k
    <3>1. executed[l][i][1] \in Int /\ executed[l][i][1] <= sent
      BY StreamTypes DEF StreamInv, WasSent
    <3> QED
      BY <1>2, <3>1
  <2> QED
    BY <1>1, <1>4, <2>1, <2>2 DEF WasSent
<1>12. NothingMixed'
  BY <1>1 DEF StreamInv, NothingMixed, Stream!NothingMixed
<1> QED
  BY <1>7, <1>8, <1>9, <1>10, <1>11, <1>12 DEF StreamInv


(* What recv returns is cut off the stream, and its first line becomes a   *)
(* command: one that has no end of line, and so of one command only.       *)
LEMMA RecvStep ==
  ASSUME StreamInv, Stream!Recv \/ Stream!RecvAnswer
  PROVE  StreamInv'
<1> DEFINE len == Len(stream)
           old == Len(executed)
<1>1. PICK n \in 1..len :
        /\ executed' = Append(executed, Stream!FirstLine(SubSeq(stream, 1, n)))
        /\ stream' = SubSeq(stream, n + 1, len)
  <2>1. len \in Nat /\ stream # <<>> /\ (stream # <<>> => len \in 1..len)
    BY StreamTypes, EmptySeq DEF Stream!Recv, Stream!RecvAnswer, Stream!Take
  <2>2. PICK n \in IF split THEN 1..len ELSE {len} :
          /\ executed' = Append(executed, Stream!FirstLine(SubSeq(stream, 1, n)))
          /\ stream' = SubSeq(stream, n + 1, len)
    BY Zenon DEF Stream!Recv, Stream!RecvAnswer, Stream!Take
  <2>3. n \in 1..len
    BY <2>1, <2>2
  <2> QED
    BY <2>2, <2>3
<1> DEFINE line == Stream!FirstLine(SubSeq(stream, 1, n))
<1>2. /\ len \in Nat /\ old \in Nat /\ n \in Nat /\ 1 <= n /\ n <= len
      /\ stream \in Seq(Piece) /\ \A j \in 1..len : stream[j] \in Piece
  BY <1>1, StreamTypes
<1>3. UNCHANGED <<sent, peer, kind, ahead, split>>
  BY Zenon DEF Stream!Recv, Stream!RecvAnswer, Stream!Take, Stream!connection
<1>4. /\ line \in Seq(Piece) /\ Len(line) <= n
      /\ \A i \in 1..Len(line) : line[i] = stream[i] /\ stream[i][2] # Stream!Eol
  BY <1>1, <1>2, FirstLineTaken
<1>5. /\ Len(line) \in Nat /\ line \in Seq((1..Commands) \X (1..Pieces))
      /\ \A i \in 1..Len(line) : i \in 1..len /\ i <= n /\ line[i] = stream[i]
  <2> HIDE DEF line
  <2>1. Len(line) \in Nat /\ line \in [1..Len(line) -> Piece]
    BY <1>4, LenProperties
  <2>2. \A i \in 1..Len(line) : i \in 1..len /\ i <= n
    BY <1>2, <1>4, <2>1
  <2>3. \A x \in Piece : x[2] # Stream!Eol => x \in (1..Commands) \X (1..Pieces)
    BY StreamConstants DEF Piece
  <2>4. \A i \in 1..Len(line) : line[i] \in (1..Commands) \X (1..Pieces)
    BY <1>2, <1>4, <2>2, <2>3
  <2>5. line \in [1..Len(line) -> (1..Commands) \X (1..Pieces)]
    BY <2>1, <2>4
  <2>6. line \in Seq((1..Commands) \X (1..Pieces))
    BY <2>1, <2>5, <1>4
  <2> QED
    BY <1>4, <2>1, <2>2, <2>6
<1>6. /\ stream' \in Seq(Piece) /\ Len(stream') = len - n
      /\ \A j \in 1..(len - n) : stream'[j] = stream[n + j]
  <2>1. \A j \in (n + 1)..len : stream[j] \in Piece
    BY <1>2
  <2>2. /\ SubSeq(stream, n + 1, len) \in Seq(Piece)
        /\ Len(SubSeq(stream, n + 1, len)) = IF n + 1 <= len THEN len - (n + 1) + 1 ELSE 0
        /\ \A j \in 1..(len - (n + 1) + 1) :
             SubSeq(stream, n + 1, len)[j] = stream[n + 1 + j - 1]
    BY <1>2, <2>1, SubSeqProperties
  <2>3. /\ stream' \in Seq(Piece)
        /\ Len(stream') = IF n + 1 <= len THEN len - (n + 1) + 1 ELSE 0
        /\ \A j \in 1..(len - (n + 1) + 1) : stream'[j] = stream[n + 1 + j - 1]
    BY <1>1, <2>2
  <2> QED
    BY <1>2, <2>3
<1>7. /\ executed' \in Seq(Seq((1..Commands) \X (1..Pieces))) /\ Len(executed') = old + 1
      /\ \A l \in 1..old : executed'[l] = executed[l]
      /\ executed'[old + 1] = line
  BY <1>1, <1>5, StreamTypes, AppendProperties
<1> HIDE DEF len, old, line
<1>8. \A l \in 1..(old + 1) : l \in 1..old \/ l = old + 1
  BY <1>2
<1>9. \A j \in 1..(len - n) : n + j \in 1..len /\ n < n + j
  BY <1>2
<1>10. Stream!TypeOK' /\ Over'
  <2>1. /\ thread' \in {"recv", "prompt", "closed"} /\ over' \in BOOLEAN
        /\ thread' = "closed" => over'
    BY Zenon DEF Stream!Recv, Stream!RecvAnswer, Stream!Stay, Stream!Ask, Stream!End
  <2>2. Stream!TypeOK'
    BY <1>3, <1>6, <1>7, <2>1 DEF StreamInv, Stream!TypeOK, Piece
  <2> QED
    BY <2>1, <2>2 DEF Over
<1>11. InOrder'
  <2> SUFFICES ASSUME NEW i \in 1..(len - n), NEW j \in 1..(len - n), i < j
               PROVE  Stream!Before(stream'[i], stream'[j])
    BY <1>6 DEF InOrder
  <2>1. n + i < n + j /\ n + i \in 1..len /\ n + j \in 1..len
    BY <1>2
  <2>2. Stream!Before(stream[n + i], stream[n + j])
    BY <2>1 DEF StreamInv, InOrder, len
  <2> QED
    BY <1>6, <2>2
<1>12. Parted'
  <2>1. ASSUME NEW i \in 1..(len - n), NEW j \in 1..(len - n), i < j
        PROVE  \/ stream'[i][1] = stream'[j][1]
               \/ \E m \in i..(j - 1) : stream'[m][2] = Stream!Eol
    <3>1. n + i < n + j /\ n + i \in 1..len /\ n + j \in 1..len
      BY <1>2, <2>1
    <3>2. CASE stream[n + i][1] = stream[n + j][1]
      BY <1>6, <3>2
    <3>3. CASE stream[n + i][1] # stream[n + j][1]
      <4>1. PICK m \in (n + i)..(n + j - 1) : stream[m][2] = Stream!Eol
        BY <3>1, <3>3 DEF StreamInv, Parted, len
      <4>2. m - n \in i..(j - 1) /\ m - n \in 1..(len - n) /\ n + (m - n) = m
        BY <1>2
      <4>3. stream'[m - n][2] = Stream!Eol
        BY <1>6, <4>1, <4>2
      <4> QED
        BY <4>2, <4>3
    <3> QED
      BY <3>2, <3>3
  <2>2. ASSUME stream' # <<>> PROVE stream'[Len(stream')][2] = Stream!Eol
    <3>1. len - n \in 1..(len - n) /\ n + (len - n) = len
      BY <1>2, <1>6, <2>2, EmptySeq
    <3>2. stream # <<>>
      BY <1>2, EmptySeq DEF len
    <3>3. stream[len][2] = Stream!Eol
      BY <3>2 DEF StreamInv, Parted, len
    <3>4. stream'[len - n] = stream[len]
      BY <1>6, <3>1
    <3> QED
      BY <1>6, <3>3, <3>4
  <2> QED
    BY <1>6, <2>1, <2>2 DEF Parted
<1>13. Behind'
  <2> SUFFICES ASSUME NEW l \in 1..(old + 1), NEW i \in 1..Len(executed'[l]),
                      NEW j \in 1..(len - n)
               PROVE  Stream!Before(executed'[l][i], stream'[j])
    BY <1>6, <1>7 DEF Behind
  <2>0. stream'[j] = stream[n + j]
    BY <1>6
  <2>1. CASE l \in 1..old
    <3>1. executed'[l] = executed[l] /\ n + j \in 1..len
      BY <1>7, <1>9, <2>1
    <3>2. Stream!Before(executed[l][i], stream[n + j])
      BY <2>1, <3>1 DEF StreamInv, Behind, old, len
    <3> QED
      BY <2>0, <3>1, <3>2
  <2>2. CASE l = old + 1
    <3>1. i \in 1..len /\ i < n + j /\ n + j \in 1..len /\ executed'[l][i] = stream[i]
      BY <1>2, <1>5, <1>7, <2>2
    <3>2. Stream!Before(stream[i], stream[n + j])
      BY <3>1 DEF StreamInv, InOrder, len
    <3> QED
      BY <2>0, <3>1, <3>2
  <2> QED
    BY <1>8, <2>1, <2>2
<1>14. WasSent'
  <2>1. \A j \in 1..len : stream[j][1] <= sent
    BY DEF StreamInv, WasSent, len
  <2>2. \A j \in 1..(len - n) : stream'[j][1] <= sent
    BY <1>6, <1>9, <2>1
  <2>3. ASSUME NEW l \in 1..(old + 1), NEW i \in 1..Len(executed'[l])
        PROVE  executed'[l][i][1] <= sent
    <3>1. CASE l \in 1..old
      BY <1>7, <3>1 DEF StreamInv, WasSent, old
    <3>2. CASE l = old + 1
      BY <1>5, <1>7, <2>1, <3>2
    <3> QED
      BY <1>8, <3>1, <3>2
  <2> QED
    BY <1>3, <1>6, <1>7, <2>2, <2>3 DEF WasSent
<1>15. NothingMixed'
  <2> SUFFICES ASSUME NEW l \in 1..(old + 1), NEW m \in 1..(old + 1),
                      NEW i \in 1..Len(executed'[l]), NEW j \in 1..Len(executed'[m])
               PROVE  /\ l = m => executed'[l][i][1] = executed'[m][j][1]
                      /\ l < m \/ (l = m /\ i < j) =>
                           Stream!Before(executed'[l][i], executed'[m][j])
    BY <1>7 DEF NothingMixed, Stream!NothingMixed
  <2>1. CASE l \in 1..old /\ m \in 1..old
    <3>1. executed'[l] = executed[l] /\ executed'[m] = executed[m]
      BY <1>7, <2>1
    <3>2. /\ l = m => executed[l][i][1] = executed[m][j][1]
          /\ l < m \/ (l = m /\ i < j) => Stream!Before(executed[l][i], executed[m][j])
      BY <2>1, <3>1 DEF StreamInv, NothingMixed, Stream!NothingMixed, old
    <3> QED
      BY <3>1, <3>2
  <2>2. CASE l \in 1..old /\ m = old + 1
    <3>1. j \in 1..len /\ executed'[m][j] = stream[j] /\ executed'[l] = executed[l]
      BY <1>5, <1>7, <2>2
    <3>2. Stream!Before(executed[l][i], stream[j])
      BY <2>2, <3>1 DEF StreamInv, Behind, old, len
    <3>3. l # m
      BY <1>2, <2>2
    <3> QED
      BY <3>1, <3>2, <3>3
  <2>3. CASE l = old + 1 /\ m \in 1..old
    BY <1>2, <2>3
  <2>4. CASE l = old + 1 /\ m = old + 1
    <3>1. /\ i \in 1..len /\ i <= n /\ executed'[l][i] = stream[i]
          /\ j \in 1..len /\ j <= n /\ executed'[m][j] = stream[j]
          /\ i \in 1..Len(line) /\ j \in 1..Len(line)
      BY <1>5, <1>7, <2>4
    <3>2. ASSUME NEW x \in 1..Len(line), NEW y \in 1..Len(line), x < y
          PROVE  stream[x][1] = stream[y][1] /\ Stream!Before(stream[x], stream[y])
      <4>1. x \in 1..len /\ y \in 1..len
        BY <1>5
      <4>2. \A z \in x..(y - 1) : z \in 1..Len(line)
        BY <1>5
      <4>3. ~ \E z \in x..(y - 1) : stream[z][2] = Stream!Eol
        BY <1>4, <4>2
      <4> QED
        BY <3>2, <4>1, <4>3 DEF StreamInv, InOrder, Parted, len
    <3>3. i < j \/ i = j \/ j < i
      BY <3>1, <1>5
    <3> QED
      BY <2>4, <3>1, <3>2, <3>3
  <2> QED
    BY <1>8, <2>1, <2>2, <2>3, <2>4
<1> QED
  BY <1>10, <1>11, <1>12, <1>13, <1>14, <1>15 DEF StreamInv

(* A client that leaves takes nothing back, and recv returns 0 when all    *)
(* has been read.                                                          *)
LEMMA StreamStep ==
  ASSUME StreamInv, [Stream!Next]_Stream!vars
  PROVE  StreamInv'
<1>1. CASE Stream!Send
  BY <1>1, SendStep
<1>2. CASE Stream!Recv \/ Stream!RecvAnswer
  BY <1>2, RecvStep
<1>3. CASE Stream!Leave \/ Stream!RecvEof \/ UNCHANGED Stream!vars
  <2>1. UNCHANGED <<sent, stream, executed, over, kind, ahead, split>>
    BY <1>3, Zenon DEF Stream!Leave, Stream!RecvEof, Stream!vars, Stream!connection
  <2>2. /\ peer' \in {"open", "left"} /\ thread' \in {"recv", "prompt", "closed"}
        /\ thread' = "closed" /\ ~over' => stream' = <<>> /\ peer' = "left"
    BY <1>3 DEF Stream!Leave, Stream!RecvEof, Stream!Eof, Stream!vars,
                Stream!connection, StreamInv, Stream!TypeOK, Over
  <2>3. Stream!TypeOK' /\ Over'
    BY <2>1, <2>2 DEF StreamInv, Stream!TypeOK, Over
  <2>4. InOrder' /\ Parted' /\ Behind' /\ WasSent' /\ NothingMixed'
    BY <2>1 DEF StreamInv, InOrder, Parted, Behind, WasSent, NothingMixed, Stream!NothingMixed
  <2> QED
    BY <2>3, <2>4 DEF StreamInv
<1> QED
  BY <1>1, <1>2, <1>3 DEF Stream!Next, Stream!Thread

(* The invariants of the two servers hold of whichever is used.            *)
LEMMA ConnectionsInvariance == ConnectionsSpec => [](TrainInv /\ StreamInv)
<1>1. ConnectionsInit => TrainInv /\ StreamInv
  BY TrainInit, StreamInit DEF ConnectionsInit
<1>2. ASSUME TrainInv, StreamInv, [ConnectionsNext]_<<used, vars, delivery>>
      PROVE  TrainInv' /\ StreamInv'
  <2>1. [Next]_vars /\ [Stream!Next]_Stream!vars
    BY <1>2, Zenon DEF ConnectionsNext, delivery, Stream!vars, Stream!connection
  <2> QED
    BY <1>2, <2>1, TrainStep, StreamStep
<1> QED
  BY <1>1, <1>2, PTL DEF ConnectionsSpec

(* The types of both servers; a train server that serves nobody has no     *)
(* connection open, and a thread of the delivery server that has closed    *)
(* without ending the session has left nothing unread (lab5.c:83-89,       *)
(* hw2.c:251, 429).                                                        *)
THEOREM TypesCorrect == ConnectionsSpec => []TypesOK
<1>1. TrainInv /\ StreamInv => TypesOK
  BY DEF TrainInv, StreamInv, TypesOK
<1> QED
  BY <1>1, ConnectionsInvariance, PTL

(* hw2.c:251-253: however far a client sends ahead and its bytes are cut   *)
(* or merged, no line mixes two commands, and none is executed twice or    *)
(* before an earlier one.                                                  *)
THEOREM CommandsInOrder == ConnectionsSpec => []NothingMixed
<1>1. StreamInv => NothingMixed
  BY DEF StreamInv
<1> QED
  BY <1>1, ConnectionsInvariance, PTL

=============================================================================

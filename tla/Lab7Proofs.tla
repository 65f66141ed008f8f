----------------------------- MODULE Lab7Proofs -----------------------------
(***************************************************************************)
(* Theorems about ShmDemo, for any number of servers, clients and letters: *)
(* no client skips a letter, and servers that end by themselves leave no   *)
(* segment behind.                                                         *)
(***************************************************************************)
EXTENDS MCLab7, GuessGameProofs, SequenceTheorems

(* What a cell holds: its letter, nothing yet, or the mark of a client in  *)
(* place of the first; the last cell is the terminator.                    *)
Contents ==
  \A s \in Servers : \A k \in Shm!Cells :
    \/ mem[s][k] = Shm!Nul
    \/ k <= Letters /\ mem[s][k] = k
    \/ k = 1 /\ mem[s][k] = Shm!Star

(* The processes that use a segment have attached it, ...                  *)
Attached ==
  /\ \A p \in Servers : server[p] # "off" => seg[p] \in Servers
  /\ \A c \in Clients : client[c] \in {"read", "star", "done"} => seg[c] \in Servers

(* ... and the one the key names is still to be removed by its maker.      *)
Maker ==
  named # Shm!NoSegment =>
    seg[named] = named /\ server[named] \in {"write", "poll", "remove", "killed"}

(* A client has printed the cells in front of the one it is at.            *)
Printed ==
  /\ seen \in [Clients -> Seq(Shm!Star..Letters)]
  /\ \A c \in Clients :
       /\ client[c] = "off" => pos[c] = 1 /\ Len(seen[c]) = 0
       /\ client[c] = "read" => Len(seen[c]) = pos[c] - 1

DemoInv == Shm!TypeOK /\ Contents /\ Attached /\ Maker /\ Printed /\ ReadsFromTheStart

-----------------------------------------------------------------------------
(* The steps of the demo *)

LEMMA DemoConstants ==
  /\ Letters \in Int /\ Letters >= 1
  /\ Shm!NoSegment \notin Servers /\ Servers \cap Clients = {}
  /\ Shm!Star = -1 /\ Shm!Nul = 0
BY DemoAssumption DEF Shm!ShmAssumption, Shm!Star, Shm!Nul

LEMMA DemoInit == Shm!Init => DemoInv
<1> SUFFICES ASSUME Shm!Init PROVE DemoInv
  OBVIOUS
<1>1. \A c \in Clients : seen[c] = <<>> /\ Len(seen[c]) = 0 /\ client[c] = "off" /\ pos[c] = 1
  BY DEF Shm!Init, Shm!Processes
<1>2. Printed
  BY <1>1 DEF Shm!Init, Printed
<1>3. Shm!TypeOK
  BY <1>1, DemoConstants DEF Shm!Init, Shm!TypeOK, Shm!Fresh, Shm!Cells, Shm!Processes
<1>4. Contents
  BY DEF Shm!Init, Shm!Fresh, Contents
<1>5. Attached /\ Maker
  BY <1>1 DEF Shm!Init, Attached, Maker
<1>6. ReadsFromTheStart
  BY <1>1 DEF ReadsFromTheStart, Shm!ReadsFromTheStart
<1> QED
  BY <1>2, <1>3, <1>4, <1>5, <1>6 DEF DemoInv

(* Whoever writes into a cell writes what may stand there.                 *)
LEMMA PutStep ==
  ASSUME Shm!TypeOK, Contents,
         NEW s \in Servers, NEW k \in Shm!Cells, NEW char,
         \/ char = Shm!Nul
         \/ k <= Letters /\ char = k
         \/ k = 1 /\ char = Shm!Star,
         mem' = [mem EXCEPT ![s][k] = char]
  PROVE  mem' \in [Servers -> [Shm!Cells -> Shm!Star..Letters]] /\ Contents'
<1>1. mem \in [Servers -> [Shm!Cells -> Shm!Star..Letters]]
  BY DEF Shm!TypeOK
<1>2. char \in Shm!Star..Letters
  BY DemoConstants DEF Shm!Cells
<1>3. mem' \in [Servers -> [Shm!Cells -> Shm!Star..Letters]]
  BY <1>1, <1>2
<1>4. \A t \in Servers : \A j \in Shm!Cells :
        mem'[t][j] = IF t = s /\ j = k THEN char ELSE mem[t][j]
  BY <1>1
<1>5. Contents'
  BY <1>4 DEF Contents
<1> QED
  BY <1>3, <1>5

(* A server starts with the segment that is named, or with one of its own. *)
LEMMA CreateStep ==
  ASSUME DemoInv, NEW p \in Servers, Shm!Create(p)
  PROVE  DemoInv'
<1>1. Shm!TypeOK /\ Contents /\ Attached /\ Maker /\ Printed /\ ReadsFromTheStart /\ p \notin Clients
  BY DemoConstants DEF DemoInv
<1>2. /\ named' = IF named = Shm!NoSegment THEN p ELSE named
      /\ seg' = [seg EXCEPT ![p] = named'] /\ server[p] = "off"
      /\ server' = [server EXCEPT ![p] = "write"]
      /\ UNCHANGED <<mem, client, pos, seen>>
  BY DEF Shm!Create, Shm!Goto
<1>3. named' \in Servers
  BY <1>1, <1>2 DEF Shm!TypeOK
<1>4. Shm!TypeOK'
  BY <1>1, <1>2, <1>3 DEF Shm!TypeOK, Shm!Cells
<1>5. Attached'
  BY <1>1, <1>2, <1>3 DEF Shm!TypeOK, Shm!Processes, Attached
<1>6. Maker'
  BY <1>1, <1>2, <1>3 DEF Shm!TypeOK, Shm!Processes, Maker
<1>7. Contents' /\ Printed' /\ ReadsFromTheStart'
  BY <1>1, <1>2 DEF Contents, Printed, ReadsFromTheStart, Shm!ReadsFromTheStart
<1> QED
  BY <1>4, <1>5, <1>6, <1>7 DEF DemoInv

(* A letter, or the terminator.                                            *)
LEMMA WriteStep ==
  ASSUME DemoInv, NEW p \in Servers, Shm!Write(p)
  PROVE  DemoInv'
<1>1. Shm!TypeOK /\ Contents /\ Attached /\ Maker /\ Printed /\ ReadsFromTheStart /\ p \notin Clients
  BY DemoConstants DEF DemoInv
<1>2. /\ server[p] = "write"
      /\ mem' = [mem EXCEPT ![seg[p]][pos[p]] = IF pos[p] <= Letters THEN pos[p] ELSE Shm!Nul]
      /\ UNCHANGED <<named, client, seg, seen>>
  BY DEF Shm!Write, Shm!Put, Shm!Cell
<1>3. \/ pos[p] <= Letters /\ pos' = [pos EXCEPT ![p] = pos[p] + 1] /\ server' = server
      \/ server' = [server EXCEPT ![p] = "poll"] /\ pos' = pos
  BY DEF Shm!Write, Shm!Goto
<1>4. pos[p] \in Shm!Cells /\ pos[p] \in Int /\ 1 <= pos[p] /\ seg[p] \in Servers
  BY <1>1, <1>2, DemoConstants DEF Shm!TypeOK, Shm!Processes, Shm!Cells, Attached
<1>5. mem' \in [Servers -> [Shm!Cells -> Shm!Star..Letters]] /\ Contents'
  BY <1>1, <1>2, <1>4, PutStep
<1>6. pos' \in [Shm!Processes -> Shm!Cells]
  <2>1. pos[p] <= Letters => pos[p] + 1 \in Shm!Cells
    BY <1>4, DemoConstants DEF Shm!Cells
  <2> QED
    BY <1>1, <1>3, <2>1 DEF Shm!TypeOK
<1>7. \A c \in Clients : pos'[c] = pos[c]
  BY <1>1, <1>3 DEF Shm!TypeOK, Shm!Processes
<1>8. Shm!TypeOK'
  BY <1>1, <1>2, <1>3, <1>5, <1>6 DEF Shm!TypeOK, Shm!Cells
<1>9. Attached' /\ Maker'
  BY <1>1, <1>2, <1>3 DEF Shm!TypeOK, Attached, Maker
<1>10. Printed' /\ ReadsFromTheStart'
  BY <1>1, <1>2, <1>7 DEF Printed, ReadsFromTheStart, Shm!ReadsFromTheStart
<1> QED
  BY <1>5, <1>8, <1>9, <1>10 DEF DemoInv

(* A server goes on, removes the segment it has attached, or is killed.    *)
LEMMA ServerEndStep ==
  ASSUME DemoInv, NEW p \in Servers, Shm!Poll(p) \/ Shm!Remove(p) \/ Shm!Kill(p)
  PROVE  DemoInv'
<1>1. Shm!TypeOK /\ Contents /\ Attached /\ Maker /\ Printed /\ ReadsFromTheStart
  BY DEF DemoInv
<1>2. /\ server[p] \in {"write", "poll", "remove"}
      /\ \E to \in {"remove", "done", "killed"} :
           /\ server' = [server EXCEPT ![p] = to]
           /\ to = "done" => server[p] = "remove" /\ named' # seg[p]
      /\ named' = named \/ named' = Shm!NoSegment
      /\ UNCHANGED <<mem, client, seg, pos, seen>>
  <2>1. CASE Shm!Poll(p)
    BY <2>1 DEF Shm!Poll, Shm!Goto
  <2>2. CASE Shm!Remove(p)
    <3>1. seg[p] # Shm!NoSegment
      BY <1>1, <2>2, DemoConstants DEF Shm!Remove, Attached
    <3> QED
      BY <2>2, <3>1 DEF Shm!Remove, Shm!Goto
  <2>3. CASE Shm!Kill(p)
    BY <2>3 DEF Shm!Kill, Shm!Goto
  <2> QED
    BY <2>1, <2>2, <2>3
<1>3. Shm!TypeOK' /\ Attached'
  BY <1>1, <1>2 DEF Shm!TypeOK, Shm!Cells, Attached
<1>4. Maker'
  BY <1>1, <1>2 DEF Shm!TypeOK, Maker
<1>5. Contents' /\ Printed' /\ ReadsFromTheStart'
  BY <1>1, <1>2 DEF Contents, Printed, ReadsFromTheStart, Shm!ReadsFromTheStart
<1> QED
  BY <1>3, <1>4, <1>5 DEF DemoInv

(* A client attaches, whatever the server is doing.                        *)
LEMMA AttachStep ==
  ASSUME DemoInv, NEW c \in Clients, Shm!Attach(c)
  PROVE  DemoInv'
<1>1. Shm!TypeOK /\ Contents /\ Attached /\ Maker /\ Printed /\ ReadsFromTheStart
  BY DEF DemoInv
<1>2. /\ client[c] = "off" /\ seg' = [seg EXCEPT ![c] = named]
      /\ client' = [client EXCEPT ![c] = IF named = Shm!NoSegment THEN "failed" ELSE "read"]
      /\ UNCHANGED <<named, mem, server, pos, seen>>
  BY DEF Shm!Attach
<1>3. c \notin Servers /\ named \in Servers \cup {Shm!NoSegment}
  BY <1>1, DemoConstants DEF Shm!TypeOK
<1>4. \A p \in Servers : seg'[p] = seg[p]
  BY <1>1, <1>2, <1>3 DEF Shm!TypeOK, Shm!Processes
<1>5. Shm!TypeOK'
  BY <1>1, <1>2, <1>3 DEF Shm!TypeOK, Shm!Cells
<1>6. Attached' /\ Maker'
  BY <1>1, <1>2, <1>3, <1>4 DEF Shm!TypeOK, Shm!Processes, Attached, Maker
<1>7. Printed'
  BY <1>1, <1>2 DEF Shm!TypeOK, Printed
<1>8. Contents' /\ ReadsFromTheStart'
  BY <1>1, <1>2 DEF Contents, ReadsFromTheStart, Shm!ReadsFromTheStart
<1> QED
  BY <1>5, <1>6, <1>7, <1>8 DEF DemoInv

(* A client prints the cell it is at, or has come to the end.              *)
LEMMA ReadStep ==
  ASSUME DemoInv, NEW c \in Clients, Shm!Read(c)
  PROVE  DemoInv'
<1> DEFINE char == mem[seg[c]][pos[c]]
<1>1. Shm!TypeOK /\ Contents /\ Attached /\ Maker /\ Printed /\ ReadsFromTheStart
  BY DEF DemoInv
<1>2. client[c] = "read" /\ UNCHANGED <<named, mem, server, seg>>
  BY DEF Shm!Read
<1>3. /\ seg[c] \in Servers /\ pos[c] \in Shm!Cells /\ pos[c] \in Int /\ 1 <= pos[c]
      /\ seen[c] \in Seq(Shm!Star..Letters) /\ Len(seen[c]) = pos[c] - 1
  BY <1>1, <1>2, DemoConstants DEF Shm!TypeOK, Shm!Processes, Shm!Cells, Attached, Printed
<1>4. Attached' /\ Maker' /\ Contents'
  <2>1. \A d \in Clients : client'[d] \in {"read", "star", "done"} =>
                             client[d] \in {"read", "star", "done"}
    BY <1>1, <1>2 DEF Shm!Read, Shm!TypeOK
  <2> QED
    BY <1>1, <1>2, <2>1 DEF Attached, Maker, Contents
<1>5. CASE char = Shm!Nul
  <2>1. client' = [client EXCEPT ![c] = "star"] /\ UNCHANGED <<pos, seen>>
    BY <1>5 DEF Shm!Read
  <2>2. Shm!TypeOK'
    BY <1>1, <1>2, <2>1 DEF Shm!TypeOK, Shm!Cells
  <2>3. Printed' /\ ReadsFromTheStart'
    BY <1>1, <2>1 DEF Shm!TypeOK, Printed, ReadsFromTheStart, Shm!ReadsFromTheStart
  <2> QED
    BY <1>4, <2>2, <2>3 DEF DemoInv
<1>6. CASE char # Shm!Nul
  <2>1. /\ seen' = [seen EXCEPT ![c] = Append(seen[c], char)]
        /\ pos' = [pos EXCEPT ![c] = pos[c] + 1] /\ client' = client
    BY <1>6 DEF Shm!Read
  <2>2. (pos[c] <= Letters /\ char = pos[c]) \/ (pos[c] = 1 /\ char = Shm!Star)
    BY <1>1, <1>3, <1>6 DEF Contents
  <2>3. pos[c] <= Letters /\ pos[c] + 1 \in Shm!Cells /\ char \in Shm!Star..Letters
    BY <1>3, <2>2, DemoConstants DEF Shm!Cells
  <2> HIDE DEF char
  <2>4. /\ Append(seen[c], char) \in Seq(Shm!Star..Letters)
        /\ Len(Append(seen[c], char)) = pos[c]
        /\ \A k \in 1..(pos[c] - 1) : Append(seen[c], char)[k] = seen[c][k]
        /\ Append(seen[c], char)[pos[c]] = char
    <3>1. /\ Append(seen[c], char) \in Seq(Shm!Star..Letters)
          /\ Len(Append(seen[c], char)) = Len(seen[c]) + 1
          /\ \A k \in 1..Len(seen[c]) : Append(seen[c], char)[k] = seen[c][k]
          /\ Append(seen[c], char)[Len(seen[c]) + 1] = char
      BY <1>3, <2>3, AppendProperties
    <3> QED
      BY <1>3, <3>1
  <2>5. /\ seen' \in [Clients -> Seq(Shm!Star..Letters)]
        /\ seen'[c] = Append(seen[c], char)
        /\ \A d \in Clients \ {c} : seen'[d] = seen[d]
    BY <1>1, <2>1, <2>4 DEF Printed
  <2>6. /\ pos' \in [Shm!Processes -> Shm!Cells] /\ pos'[c] = pos[c] + 1
        /\ \A d \in Clients \ {c} : pos'[d] = pos[d]
    BY <1>1, <2>1, <2>3 DEF Shm!TypeOK, Shm!Processes
  <2>7. Shm!TypeOK'
    <3>1. \A d \in Clients : seen'[d] \in Seq(Shm!Star..Letters) /\ Len(seen'[d]) <= Letters
      BY <1>1, <2>3, <2>4, <2>5 DEF Shm!TypeOK
    <3> QED
      BY <1>1, <1>2, <2>1, <2>6, <3>1 DEF Shm!TypeOK, Shm!Cells
  <2>8. Printed'
    <3>1. Len(seen'[c]) = pos'[c] - 1
      BY <1>3, <2>4, <2>5, <2>6
    <3> QED
      BY <1>1, <1>2, <2>1, <2>5, <2>6, <3>1 DEF Printed
  <2>9. ReadsFromTheStart'
    <3>1. ASSUME NEW k \in 1..pos[c]
          PROVE  Append(seen[c], char)[k] = k \/ (k = 1 /\ Append(seen[c], char)[k] = Shm!Star)
      <4>1. CASE k \in 1..(pos[c] - 1)
        BY <1>1, <1>3, <2>4, <4>1 DEF ReadsFromTheStart, Shm!ReadsFromTheStart
      <4>2. CASE k = pos[c]
        BY <2>2, <2>4, <4>2
      <4> QED
        BY <1>3, <4>1, <4>2
    <3>2. \A d \in Clients \ {c} : \A k \in 1..Len(seen'[d]) :
            seen'[d][k] = k \/ (k = 1 /\ seen'[d][k] = Shm!Star)
      BY <1>1, <2>5 DEF ReadsFromTheStart, Shm!ReadsFromTheStart
    <3> QED
      BY <2>4, <2>5, <3>1, <3>2 DEF ReadsFromTheStart, Shm!ReadsFromTheStart
  <2> QED
    BY <1>4, <2>7, <2>8, <2>9 DEF DemoInv
<1> QED
  BY <1>5, <1>6

(* The mark goes where the first letter was.                               *)
LEMMA WriteStarStep ==
  ASSUME DemoInv, NEW c \in Clients, Shm!WriteStar(c)
  PROVE  DemoInv'
<1>1. Shm!TypeOK /\ Contents /\ Attached /\ Maker /\ Printed /\ ReadsFromTheStart
  BY DEF DemoInv
<1>2. /\ client[c] = "star" /\ mem' = [mem EXCEPT ![seg[c]][1] = Shm!Star]
      /\ client' = [client EXCEPT ![c] = "done"]
      /\ UNCHANGED <<named, server, seg, pos, seen>>
  BY DEF Shm!WriteStar, Shm!Put, Shm!Mark
<1>3. seg[c] \in Servers /\ 1 \in Shm!Cells
  BY <1>1, <1>2, DemoConstants DEF Attached, Shm!Cells
<1>4. mem' \in [Servers -> [Shm!Cells -> Shm!Star..Letters]] /\ Contents'
  BY <1>1, <1>2, <1>3, PutStep
<1>5. Shm!TypeOK'
  BY <1>1, <1>2, <1>4 DEF Shm!TypeOK, Shm!Cells
<1>6. Attached' /\ Maker' /\ Printed'
  BY <1>1, <1>2 DEF Shm!TypeOK, Attached, Maker, Printed
<1>7. ReadsFromTheStart'
  BY <1>1, <1>2 DEF ReadsFromTheStart, Shm!ReadsFromTheStart
<1> QED
  BY <1>4, <1>5, <1>6, <1>7 DEF DemoInv

LEMMA DemoStep ==
  ASSUME DemoInv, [Shm!Next]_Shm!vars
  PROVE  DemoInv'
<1>1. CASE Shm!Next
  <2>1. CASE \E p \in Servers : Shm!Serve(p) \/ Shm!Kill(p)
    BY <2>1, CreateStep, WriteStep, ServerEndStep DEF Shm!Serve
  <2>2. CASE \E c \in Clients : Shm!Attach(c) \/ Shm!Read(c) \/ Shm!WriteStar(c)
    BY <2>2, AttachStep, ReadStep, WriteStarStep
  <2> QED
    BY <1>1, <2>1, <2>2 DEF Shm!Next
<1>2. CASE UNCHANGED Shm!vars
  BY <1>2 DEF Shm!vars, DemoInv, Shm!TypeOK, Shm!Cells, Shm!Processes, Contents, Attached, Maker, Printed,
              ReadsFromTheStart, Shm!ReadsFromTheStart
<1> QED
  BY <1>1, <1>2

-----------------------------------------------------------------------------
(* The two pairs of programs *)

LEMMA Lab7Invariance == Lab7Spec => [](TypeOK /\ Ended /\ DemoInv)
<1>1. Lab7Init => TypeOK /\ Ended /\ DemoInv
  BY InitTypes, DemoInit DEF Lab7Init
<1>2. ASSUME TypeOK, Ended, DemoInv, [Lab7Next]_<<pair, vars, demo>>
      PROVE  TypeOK' /\ Ended' /\ DemoInv'
  <2>1. [Next]_vars /\ [Shm!Next]_Shm!vars
    BY <1>2, Zenon DEF Lab7Next, demo, Shm!vars
  <2> QED
    BY <1>2, <2>1, TypeStep, DemoStep
<1> QED
  BY <1>1, <1>2, PTL DEF Lab7Spec

(* The types of both pairs; no client prints more than there are letters,  *)
(* for the terminator is never overwritten (shm_client.c:40).              *)
THEOREM TypesCorrect == Lab7Spec => []TypesOK
<1>1. TypeOK /\ DemoInv => TypesOK
  BY DEF DemoInv, TypesOK
<1> QED
  BY <1>1, Lab7Invariance, PTL

(* shm_client.c:40: whenever a client comes, and whatever other servers    *)
(* and clients do to the segment meanwhile, it skips no letter.            *)
THEOREM NoLetterSkipped == Lab7Spec => []ReadsFromTheStart
<1>1. DemoInv => ReadsFromTheStart
  BY DEF DemoInv
<1> QED
  BY <1>1, Lab7Invariance, PTL

(* shm_server.c:69: servers that end by themselves leave no segment, as    *)
(* each one that is named is removed by the server that made it, if by     *)
(* nobody else before.                                                     *)
THEOREM NoSegmentLeft == Lab7Spec => []NothingLeft
<1>1. DemoInv => NothingLeft
  <2> SUFFICES ASSUME DemoInv, \A p \in Servers : server[p] \in {"off", "done"}
               PROVE  named = Shm!NoSegment
    BY DEF NothingLeft, Shm!NothingLeft
  <2>1. named \in Servers \cup {Shm!NoSegment}
    BY DEF DemoInv, Shm!TypeOK
  <2> QED
    BY <2>1 DEF DemoInv, Maker
<1> QED
  BY <1>1, Lab7Invariance, PTL

=============================================================================

------------------------------ MODULE ShmDemo -------------------------------
(***************************************************************************)
(* The shared memory demo of lab7: shm_server writes the letters into the  *)
(* segment named 5678, one by one, and waits for a '*' in place of the     *)
(* first; shm_client reads up to the terminator and writes the '*'.        *)
(*                                                                         *)
(* The segment is found or made by key and removed by identifier; a server *)
(* that is killed leaves it.  A segment is called by the server that made  *)
(* it, the k-th letter is k, and the one that follows the last is Nul.     *)
(***************************************************************************)
EXTENDS Integers, Sequences

CONSTANTS
  Servers, Clients,   (* processes; each is started at most once           *)
  Letters,            (* how many letters there are; 26 in the code        *)
  Kills               (* a server may be killed                            *)

Nul == 0
Star == -1
NoSegment == "no segment"

ShmAssumption ==
  /\ Letters \in Nat \ {0} /\ Kills \in BOOLEAN
  /\ NoSegment \notin Servers
  /\ Servers \cap Clients = {}

VARIABLES
  named,      (* the segment the key names, or NoSegment                   *)
  mem,        (* the contents of each                                      *)
  server,     (* where each server is                                      *)
  client,     (* where each client is                                      *)
  seg,        (* the segment each process has attached                     *)
  pos,        (* the cell each process is at                               *)
  seen        (* what each client has printed                              *)

vars == <<named, mem, server, client, seg, pos, seen>>

Cells == 1..(Letters + 1)
Fresh == [k \in Cells |-> Nul]
Processes == Servers \cup Clients

TypeOK ==
  /\ named \in Servers \cup {NoSegment}
  /\ mem \in [Servers -> [Cells -> Star..Letters]]
  /\ server \in [Servers -> {"off", "write", "poll", "remove", "done", "killed"}]
  /\ client \in [Clients -> {"off", "read", "star", "done", "failed"}]
  /\ seg \in [Processes -> Servers \cup {NoSegment}]
  /\ pos \in [Processes -> Cells]
  /\ \A c \in Clients : seen[c] \in Seq(Star..Letters) /\ Len(seen[c]) <= Letters

Init ==
  /\ named = NoSegment /\ mem = [p \in Servers |-> Fresh]
  /\ server = [p \in Servers |-> "off"] /\ client = [c \in Clients |-> "off"]
  /\ seg = [p \in Processes |-> NoSegment] /\ pos = [p \in Processes |-> 1]
  /\ seen = [c \in Clients |-> <<>>]

Goto(p, place) == server' = [server EXCEPT ![p] = place]
Put(p, k, char) == mem' = [mem EXCEPT ![seg[p]][k] = char]

-----------------------------------------------------------------------------
(* The server; what an earlier one left in the segment stays there.        *)
Create(p) ==
  /\ server[p] = "off"
  /\ named' = IF named = NoSegment THEN p ELSE named
  /\ seg' = [seg EXCEPT ![p] = named']
  /\ Goto(p, "write")
  /\ UNCHANGED <<mem, client, pos, seen>>

(* A bug: *++s = c.                                                        *)
CellBehind(p) == IF pos[p] > Letters THEN pos[p] ELSE pos[p] + 1

Cell(p) == pos[p]

Write(p) ==
  /\ server[p] = "write"
  /\ Put(p, Cell(p), IF pos[p] <= Letters THEN pos[p] ELSE Nul)
  /\ IF pos[p] <= Letters THEN pos' = [pos EXCEPT ![p] = @ + 1] /\ UNCHANGED server
                          ELSE Goto(p, "poll") /\ UNCHANGED pos
  /\ UNCHANGED <<named, client, seg, seen>>

(* Once a second.                                                          *)
Poll(p) ==
  /\ server[p] = "poll" /\ mem[seg[p]][1] = Star
  /\ Goto(p, "remove")
  /\ UNCHANGED <<named, mem, client, seg, pos, seen>>

(* A bug: the segment is only detached.                                    *)
RemoveForgotten(p) ==
  server[p] = "remove" /\ Goto(p, "done") /\ UNCHANGED <<named, mem, client, seg, pos, seen>>

(* IPC_RMID; it fails when another server has done it, and this one ends.  *)
Remove(p) ==
  /\ server[p] = "remove"
  /\ named' = IF named = seg[p] THEN NoSegment ELSE named
  /\ Goto(p, "done")
  /\ UNCHANGED <<mem, client, seg, pos, seen>>

Kill(p) ==
  /\ Kills /\ server[p] \in {"write", "poll", "remove"}
  /\ Goto(p, "killed")
  /\ UNCHANGED <<named, mem, client, seg, pos, seen>>

-----------------------------------------------------------------------------
(* The client.                                                             *)
Attach(c) ==
  /\ client[c] = "off"
  /\ client' = [client EXCEPT ![c] = IF named = NoSegment THEN "failed" ELSE "read"]
  /\ seg' = [seg EXCEPT ![c] = named]
  /\ UNCHANGED <<named, mem, server, pos, seen>>

(* The test of the loop and putchar read the character one after the       *)
(* other; only the first can change in between, to '*' or back.            *)
Read(c) ==
  /\ client[c] = "read"
  /\ LET char == mem[seg[c]][pos[c]] IN
       IF char = Nul
       THEN client' = [client EXCEPT ![c] = "star"] /\ UNCHANGED <<pos, seen>>
       ELSE /\ seen' = [seen EXCEPT ![c] = Append(@, char)]
            /\ pos' = [pos EXCEPT ![c] = @ + 1]
            /\ UNCHANGED client
  /\ UNCHANGED <<named, mem, server, seg>>

(* A bug: the '*' goes behind the first character.                         *)
MarkSecond(c) == 2

Mark(c) == 1

WriteStar(c) ==
  /\ client[c] = "star"
  /\ Put(c, Mark(c), Star)
  /\ client' = [client EXCEPT ![c] = "done"]
  /\ UNCHANGED <<named, server, seg, pos, seen>>

-----------------------------------------------------------------------------
Serve(p) == Create(p) \/ Write(p) \/ Poll(p) \/ Remove(p)

Next ==
  \/ \E p \in Servers : Serve(p) \/ Kill(p)
  \/ \E c \in Clients : Attach(c) \/ Read(c) \/ WriteStar(c)

Spec == Init /\ [][Next]_vars

(* What has started runs; nobody has to start anything.                    *)
Works(p) == Write(p) \/ Poll(p) \/ Remove(p)
Looks(c) == Read(c) \/ WriteStar(c)
Fairness ==
  /\ \A p \in Servers : WF_vars(Works(p))
  /\ \A c \in Clients : WF_vars(Looks(c))

FairSpec == Spec /\ Fairness

-----------------------------------------------------------------------------
(* Whenever a client comes, whatever it reads is the letters from the      *)
(* first one on (shm_client.c:40): letters already read by another show a  *)
(* '*' first, a letter not written yet ends the reading, but none is       *)
(* skipped and nothing else is printed.                                    *)
ReadsFromTheStart ==
  \A c \in Clients : \A k \in 1..Len(seen[c]) :
    seen[c][k] = k \/ (k = 1 /\ seen[c][k] = Star)

(* Servers that end by themselves leave no segment behind (shm_server.c:   *)
(* 69), however many of them shared it.                                    *)
NothingLeft == (\A p \in Servers : server[p] \in {"off", "done"}) =>
               named = NoSegment

(* A client that attaches when the letters have been written gets all of   *)
(* them and makes the server end (shm_server.c:58, shm_client.c:51), as    *)
(* long as no other server starts on the same segment.                     *)
Alone(p) == \A q \in Servers \ {p} : server[q] = "off"
Waiting(p, c) == server[p] = "poll" /\ client[c] = "read" /\ seg[c] = seg[p] /\ pos[c] = 1
ServerEnds ==
  \A p \in Servers, c \in Clients :
    Waiting(p, c) ~> \/ ~Alone(p)
                     \/ /\ server[p] \in {"done", "killed"}
                        /\ client[c] = "done" /\ Len(seen[c]) = Letters

=============================================================================

---------------------------- MODULE TrainServer -----------------------------
(***************************************************************************)
(* The train server of lab5: it accepts a connection, forks, and the child *)
(* becomes a train (the program sl) that runs in the client's terminal.    *)
(* Which process holds which descriptor decides when a connection and the  *)
(* port are given back; SIGCHLD makes the server reap its children and     *)
(* SIGINT makes it close the listening socket.                             *)
(*                                                                         *)
(* SIGCHLD is blocked while its handler runs, and two that wait are one.   *)
(* Ctrl-C reaches the children as well: before exec their handler closes   *)
(* what they are about to close, and sl ignores it.                        *)
(*                                                                         *)
(* External: the kernel's queue of connections, nc and sl.                 *)
(***************************************************************************)
EXTENDS FiniteSets

CONSTANTS
  Clients,      (* each connects at most once                              *)
  ForkFails     (* fork may fail                                           *)

NoClient == "no client"

ASSUME TrainAssumption == NoClient \notin Clients /\ ForkFails \in BOOLEAN

VARIABLES
  server,       (* where main is                                           *)
  listening,    (* main holds server_fd                                    *)
  client_fd,    (* whose connection main holds                             *)
  handler,      (* handler_sigchld is running                              *)
  chld,         (* SIGCHLD is pending                                      *)
  queue,        (* connections nobody has accepted yet                     *)
  child,        (* the child of each client                                *)
  client        (* each client: "off", "open", or "closed" by either side  *)

signals == <<handler, chld>>
vars == <<server, listening, client_fd, signals, queue, child, client>>

Holding == {"forked", "ready", "train"}

TypeOK ==
  /\ server \in {"accept", "fork", "close", "exited"}
  /\ client_fd \in Clients \cup {NoClient}
  /\ client_fd = NoClient <=> server \in {"accept", "exited"}
  /\ {listening, handler, chld} \subseteq BOOLEAN
  /\ queue \subseteq Clients
  /\ child \in [Clients -> Holding \cup {"none", "zombie", "reaped"}]
  /\ client \in [Clients -> {"off", "open", "closed"}]

Init ==
  /\ server = "accept" /\ listening = TRUE /\ client_fd = NoClient
  /\ handler = FALSE /\ chld = FALSE
  /\ queue = {}
  /\ child = [c \in Clients |-> "none"]
  /\ client = [c \in Clients |-> "off"]

(* Somebody has the listening socket: the server, or a child that has not  *)
(* closed its copy.                                                        *)
PortHeld == listening \/ \E c \in Clients : child[c] = "forked"

-----------------------------------------------------------------------------
(* main; it stands still while a handler runs.                             *)
Accept ==
  /\ server = "accept" /\ ~handler /\ listening
  /\ \E c \in queue : client_fd' = c /\ queue' = queue \ {c}
  /\ server' = "fork"
  /\ UNCHANGED <<listening, signals, child, client>>

Fork ==
  /\ server = "fork" /\ ~handler
  /\ child' = [child EXCEPT ![client_fd] = IF listening THEN "forked" ELSE "ready"]
  /\ server' = "close"
  /\ UNCHANGED <<listening, client_fd, signals, queue, client>>

(* fork fails and the server exits: init adopts and reaps the children.    *)
ForkFailed ==
  /\ ForkFails /\ server = "fork" /\ ~handler
  /\ server' = "exited" /\ listening' = FALSE /\ client_fd' = NoClient /\ chld' = FALSE
  /\ child' = [c \in Clients |-> IF child[c] = "zombie" THEN "reaped" ELSE child[c]]
  /\ UNCHANGED <<handler, queue, client>>

(* A bug: only the child closes the connection.                            *)
CloseForgotten ==
  /\ server = "close" /\ ~handler
  /\ server' = "accept"
  /\ UNCHANGED <<listening, client_fd, signals, queue, child, client>>

(* parentfunc.                                                             *)
Close ==
  /\ server = "close" /\ ~handler
  /\ server' = "accept" /\ client_fd' = NoClient
  /\ UNCHANGED <<listening, signals, queue, child, client>>

(* Ctrl-C.  accept fails from now on, and main tries again forever.        *)
Interrupt ==
  /\ server # "exited" /\ listening
  /\ listening' = FALSE
  /\ UNCHANGED <<server, client_fd, signals, queue, child, client>>

-----------------------------------------------------------------------------
(* handler_sigchld.                                                        *)
HandlerBegins ==
  /\ server # "exited" /\ chld /\ ~handler
  /\ handler' = TRUE /\ chld' = FALSE
  /\ UNCHANGED <<server, listening, client_fd, queue, child, client>>

(* A bug: waitpid is called once.                                          *)
AgainOnce == FALSE

Again == TRUE

Reap ==
  /\ handler
  /\ \E c \in Clients : child[c] = "zombie" /\ child' = [child EXCEPT ![c] = "reaped"]
  /\ handler' = Again
  /\ UNCHANGED <<server, listening, client_fd, chld, queue, client>>

(* A bug: without WNOHANG waitpid waits for a train that still runs.       *)
NobodyLeft == \A c \in Clients : child[c] \in {"none", "reaped"}

NobodyEnded == \A c \in Clients : child[c] # "zombie"

HandlerEnds ==
  /\ handler /\ NobodyEnded
  /\ handler' = FALSE
  /\ UNCHANGED <<server, listening, client_fd, chld, queue, child, client>>

-----------------------------------------------------------------------------
(* The children.                                                           *)

(* A bug: the child keeps the listening socket.                            *)
CloseListeningForgotten(c) == FALSE

CloseListening(c) ==
  /\ child[c] = "forked" /\ child' = [child EXCEPT ![c] = "ready"]
  /\ UNCHANGED <<server, listening, client_fd, signals, queue, client>>

(* dup2, close and exec: the connection is now the output of the train.    *)
Exec(c) ==
  /\ child[c] = "ready" /\ child' = [child EXCEPT ![c] = "train"]
  /\ UNCHANGED <<server, listening, client_fd, signals, queue, client>>

(* exec has failed, the train has gone through, or it could not write any  *)
(* more to a client that has left.                                         *)
End(c) ==
  /\ child[c] \in {"ready", "train"}
  /\ child' = [child EXCEPT ![c] = IF server = "exited" THEN "reaped" ELSE "zombie"]
  /\ chld' = (server # "exited")
  /\ UNCHANGED <<server, listening, client_fd, handler, queue, client>>

-----------------------------------------------------------------------------
(* Clients, and what the kernel does for them.                             *)
Connect(c) ==
  /\ client[c] = "off" /\ PortHeld
  /\ client' = [client EXCEPT ![c] = "open"] /\ queue' = queue \cup {c}
  /\ UNCHANGED <<server, listening, client_fd, signals, child>>

Leave(c) ==
  /\ client[c] = "open" /\ client' = [client EXCEPT ![c] = "closed"]
  /\ UNCHANGED <<server, listening, client_fd, signals, queue, child>>

(* The last holder of the listening socket is gone: what waits is reset.   *)
Reset(c) ==
  /\ ~PortHeld /\ c \in queue
  /\ queue' = queue \ {c} /\ client' = [client EXCEPT ![c] = "closed"]
  /\ UNCHANGED <<server, listening, client_fd, signals, child>>

(* No process holds the connection any more.                               *)
EndOfFile(c) ==
  /\ client[c] = "open" /\ c \notin queue /\ client_fd # c /\ child[c] \notin Holding
  /\ client' = [client EXCEPT ![c] = "closed"]
  /\ UNCHANGED <<server, listening, client_fd, signals, queue, child>>

-----------------------------------------------------------------------------
Main == Accept \/ Fork \/ ForkFailed \/ Close

Handler == HandlerBegins \/ Reap \/ HandlerEnds

Next ==
  \/ Main \/ Handler \/ Interrupt
  \/ \E c \in Clients : \/ CloseListening(c) \/ Exec(c) \/ End(c)
                        \/ Connect(c) \/ Leave(c) \/ Reset(c) \/ EndOfFile(c)

Spec == Init /\ [][Next]_vars

(* All processes and the kernel run, but a train need not end: sl waits    *)
(* for a client that does not read.                                        *)
Fairness ==
  /\ WF_vars(Main) /\ WF_vars(Handler)
  /\ \A c \in Clients : /\ WF_vars(CloseListening(c)) /\ WF_vars(Exec(c))
                        /\ WF_vars(Reset(c)) /\ WF_vars(EndOfFile(c))

FairSpec == Spec /\ Fairness

-----------------------------------------------------------------------------
(* lab5.c:17, "clear zombie processes": whenever children have ended, the  *)
(* handler runs or will run, although their signals may have become one.   *)
ZombieNoticed == (\E c \in Clients : child[c] = "zombie") => handler \/ chld

(* However long other trains run, a connection is taken from the queue, or *)
(* reset when the server has closed its socket (lab5.c:24, 29, 83): the    *)
(* handler never waits for a child.                                        *)
NobodyKeptWaiting == \A c \in Clients : c \in queue ~> c \notin queue

(* When its train is gone, a client sees the end of the connection, for    *)
(* neither the server nor another train still has it (lab5.c:36, 48).      *)
ConnectionEnds ==
  \A c \in Clients : child[c] \in {"zombie", "reaped"} ~> client[c] = "closed"

(* After Ctrl-C the port is given back although trains still run           *)
(* (lab5.c:24, 29).                                                        *)
PortFreed == ~listening ~> ~PortHeld

=============================================================================

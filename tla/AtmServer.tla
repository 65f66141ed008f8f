----------------------------- MODULE AtmServer -----------------------------
(***************************************************************************)
(* The Web ATM of lab6: server processes with a thread per connection, an  *)
(* account in the memory of each process, and the System V semaphore that  *)
(* guards it.  The semaphore lives in the kernel under a fixed key: it is  *)
(* found by every server, survives the one that created it, and can be     *)
(* removed while others use it.  P and V report failure, but               *)
(* handle_client does not look at what they return.                        *)
(*                                                                         *)
(* A client runs one connection at a time: it sends a request, waits for   *)
(* the answer, and so on (client.c).  When its server ends it may connect  *)
(* to the next one.                                                        *)
(***************************************************************************)
EXTENDS Integers, FiniteSets

CONSTANTS
  Servers,      (* server processes; each is started at most once           *)
  Clients,
  Amounts,      (* amounts of a request; sscanf reads negative ones too     *)
  Faults,       (* "second": another server is started beside a running one *)
                (* "interrupt": Ctrl-C; "kill": an end without cleanup;     *)
                (* "bind": bind or listen fails for another reason          *)
  MaxBalance    (* bound: see Bounded                                       *)

NoServer == "no server"

ASSUME AtmAssumption ==
  /\ IsFiniteSet(Clients)
  /\ NoServer \notin Servers
  /\ Amounts \subseteq Int /\ Amounts # {}
  /\ Faults \subseteq {"second", "interrupt", "kill", "bind"}
  /\ MaxBalance \in Nat

Operations == {"deposit", "withdraw", "other"}

(* Semaphore identifiers are never used again; 0 is none.                  *)
None == 0
First == 1

(* The locals of a request that has gone out of scope.                     *)
NoRequest == [operation |-> "other", amount |-> CHOOSE n \in Amounts : TRUE]

VARIABLES
  semId,      (* the semaphore that SEM_KEY names, or None                  *)
  semVal,     (* its value                                                  *)
  created,    (* identifiers given out so far                               *)
  server,     (* where each server process is                               *)
  sem,        (* the global sem of each: the semaphore it works with        *)
  balance,    (* account_balance of each                                    *)
  conn,       (* the server of each client's thread, or NoServer            *)
  pc,         (* where that thread is; "away": there is none                *)
  request,    (* operation and amount of the request it handles             *)
  loaded,     (* the balance it read to change it                           *)
  token,      (* history: the semaphore it has taken one from, or None      *)
  lost        (* history: units of the semaphore that died with a process   *)

kernel == <<semId, semVal, created>>
process == <<server, sem>>
thread == <<conn, request>>
vars == <<kernel, process, balance, thread, pc, loaded, token, lost>>

ServerStates ==
  {"off", "started", "finding", "setval", "bind", "listening", "leaving", "exited"}

PCs == {"away", "recv", "P", "check", "load", "store", "V", "ack"}

TypeOK ==
  /\ semId \in Nat /\ semVal \in Nat /\ created \in Nat
  /\ server \in [Servers -> ServerStates]
  /\ sem \in [Servers -> Nat]
  /\ balance \in [Servers -> Int]
  /\ conn \in [Clients -> Servers \cup {NoServer}]
  /\ pc \in [Clients -> PCs]
  /\ request \in [Clients -> [operation : Operations, amount : Amounts]]
  /\ loaded \in [Clients -> Int]
  /\ token \in [Clients -> Nat]
  /\ lost \in Nat

Init ==
  /\ semId = None /\ semVal = 0 /\ created = 0
  /\ server = [s \in Servers |-> "off"]
  /\ sem = [s \in Servers |-> None]
  /\ balance = [s \in Servers |-> 0]
  /\ conn = [c \in Clients |-> NoServer]
  /\ pc = [c \in Clients |-> "away"]
  /\ request = [c \in Clients |-> NoRequest]
  /\ loaded = [c \in Clients |-> 0]
  /\ token = [c \in Clients |-> None]
  /\ lost = 0

-----------------------------------------------------------------------------
(* The life of a server process. *)

Alive(s) == server[s] \notin {"off", "exited"}

Become(s, state) == server' = [server EXCEPT ![s] = state]

(* main, up to signal(SIGINT, cleanup).                                    *)
Start(s) ==
  /\ server[s] = "off"
  /\ "second" \in Faults \/ \A t \in Servers : ~Alive(t)
  /\ Become(s, "started")
  /\ UNCHANGED <<kernel, sem, balance, thread, pc, loaded, token, lost>>

(* semget with IPC_EXCL creates the semaphore; Linux sets its value to 0.  *)
Create(s) ==
  /\ server[s] = "started" /\ semId = None
  /\ created' = created + 1
  /\ semId' = created + 1
  /\ semVal' = 0
  /\ sem' = [sem EXCEPT ![s] = created + 1]
  /\ Become(s, "setval")
  /\ lost' = 0
  /\ UNCHANGED <<balance, thread, pc, loaded, token>>

(* EEXIST: the semaphore is there, and is looked for by a second semget.   *)
Exists(s) ==
  /\ server[s] = "started" /\ semId # None
  /\ Become(s, "finding")
  /\ UNCHANGED <<kernel, sem, balance, thread, pc, loaded, token, lost>>

(* A bug: the semaphore that was found is set to 1 as well.                *)
FindInitialises(s) ==
  /\ server[s] = "finding" /\ semId # None
  /\ sem' = [sem EXCEPT ![s] = semId]
  /\ semVal' = 1
  /\ Become(s, "bind")
  /\ UNCHANGED <<semId, created, balance, thread, pc, loaded, token, lost>>

(* It is found -- this one, or one made since -- and its value is left.    *)
Find(s) ==
  /\ server[s] = "finding" /\ semId # None
  /\ sem' = [sem EXCEPT ![s] = semId]
  /\ Become(s, "bind")
  /\ UNCHANGED <<kernel, balance, thread, pc, loaded, token, lost>>

(* It has been removed since.                                              *)
FindFails(s) ==
  /\ server[s] = "finding" /\ semId = None
  /\ Become(s, "exited")
  /\ UNCHANGED <<kernel, sem, balance, thread, pc, loaded, token, lost>>

(* A bug: room for two in the critical section.                            *)
SetValTwo(s) ==
  /\ server[s] = "setval" /\ sem[s] = semId
  /\ semVal' = 2
  /\ Become(s, "bind")
  /\ UNCHANGED <<semId, created, sem, balance, thread, pc, loaded, token, lost>>

SetVal(s) ==
  /\ server[s] = "setval" /\ sem[s] = semId
  /\ semVal' = 1
  /\ Become(s, "bind")
  /\ UNCHANGED <<semId, created, sem, balance, thread, pc, loaded, token, lost>>

(* Another server has removed it already: exit, without cleanup.           *)
SetValFails(s) ==
  /\ server[s] = "setval" /\ sem[s] # semId
  /\ Become(s, "exited")
  /\ UNCHANGED <<kernel, sem, balance, thread, pc, loaded, token, lost>>

PortTaken(s) == \E t \in Servers : t # s /\ server[t] \in {"listening", "leaving"}

Listen(s) ==
  /\ server[s] = "bind" /\ ~PortTaken(s)
  /\ Become(s, "listening")
  /\ UNCHANGED <<kernel, sem, balance, thread, pc, loaded, token, lost>>

(* cleanup: the semaphore goes first, whoever uses it, then the process.   *)
Cleanup(s) ==
  /\ IF sem[s] = semId
     THEN semId' = None /\ semVal' = 0 /\ UNCHANGED created
     ELSE UNCHANGED kernel
  /\ Become(s, "leaving")
  /\ UNCHANGED <<sem, balance, thread, pc, loaded, token, lost>>

ListenFails(s) ==
  /\ server[s] = "bind"
  /\ PortTaken(s) \/ "bind" \in Faults
  /\ Cleanup(s)

Interrupt(s) ==
  /\ "interrupt" \in Faults
  /\ server[s] \in {"setval", "bind", "listening"}
  /\ Cleanup(s)

(* Ctrl-C before the server has a semaphore.  A failed semget leaves -1 in *)
(* sem, which names none; before the first semget sem is 0, and this is    *)
(* what Linux calls the first semaphore made since it was booted.          *)
InterruptEarly(s) ==
  /\ "interrupt" \in Faults
  /\ server[s] \in {"started", "finding"}
  /\ \/ UNCHANGED kernel
     \/ /\ server[s] = "started" /\ semId = First
        /\ semId' = None /\ semVal' = 0 /\ UNCHANGED created
  /\ Become(s, "exited")
  /\ UNCHANGED <<sem, balance, thread, pc, loaded, token, lost>>

(* The threads and the memory end with their process.                      *)
Ends(s) ==
  /\ Become(s, "exited")
  /\ pc' = [c \in Clients |-> IF conn[c] = s THEN "away" ELSE pc[c]]
  /\ conn' = [c \in Clients |-> IF conn[c] = s THEN NoServer ELSE conn[c]]
  /\ request' = [c \in Clients |-> IF conn[c] = s THEN NoRequest ELSE request[c]]
  /\ loaded' = [c \in Clients |-> IF conn[c] = s THEN 0 ELSE loaded[c]]
  /\ token' = [c \in Clients |-> IF conn[c] = s THEN None ELSE token[c]]
  /\ balance' = [balance EXCEPT ![s] = 0]
  /\ UNCHANGED <<kernel, sem>>

Exit(s) ==
  /\ server[s] = "leaving"
  /\ Ends(s)
  /\ UNCHANGED lost

(* A thread of s took one from the semaphore and has not put it back.      *)
Holders(s) == {c \in Clients : conn[c] = s /\ token[c] # None /\ token[c] = semId}

(* SIGKILL, or the SIGPIPE of an answer to a client that was killed: the   *)
(* semaphore keeps the value it had, or is never set.                      *)
Kill(s) ==
  /\ "kill" \in Faults
  /\ Alive(s)
  /\ lost' = IF server[s] = "setval" /\ sem[s] = semId THEN 1
             ELSE lost + Cardinality(Holders(s))
  /\ Ends(s)

-----------------------------------------------------------------------------
(* The thread of a connection. *)

Goto(c, from, to) ==
  /\ pc[c] = from
  /\ pc' = [pc EXCEPT ![c] = to]

Connect(c, s) ==
  /\ pc[c] = "away"
  /\ server[s] = "listening"
  /\ conn' = [conn EXCEPT ![c] = s]
  /\ pc' = [pc EXCEPT ![c] = "recv"]
  /\ UNCHANGED <<kernel, process, balance, request, loaded, token, lost>>

(* A bound: nothing more is requested while the account or a pending       *)
(* change is outside -MaxBalance .. MaxBalance.                            *)
Bounded(s) ==
  {balance[s]} \cup {loaded[c] : c \in Clients} \subseteq -MaxBalance .. MaxBalance

(* What sscanf does not find in the message stays uninitialised: any       *)
(* operation or amount, so that a malformed request is one of these too.   *)
Recv(c, op, n) ==
  /\ Goto(c, "recv", "P")
  /\ Bounded(conn[c])
  /\ request' = [request EXCEPT ![c] = [operation |-> op, amount |-> n]]
  /\ UNCHANGED <<kernel, process, balance, conn, loaded, token, lost>>

RecvEnd(c) ==
  /\ Goto(c, "recv", "away")
  /\ conn' = [conn EXCEPT ![c] = NoServer]
  /\ UNCHANGED <<kernel, process, balance, request, loaded, token, lost>>

(* A bug: the operation does not wait for a unit.                          *)
PTakesAnyway(c) ==
  /\ Goto(c, "P", "check")
  /\ sem[conn[c]] = semId
  /\ semVal' = semVal - 1
  /\ token' = [token EXCEPT ![c] = semId]
  /\ UNCHANGED <<semId, created, process, balance, thread, loaded, lost>>

PTakes(c) ==
  /\ Goto(c, "P", "check")
  /\ sem[conn[c]] = semId /\ semVal > 0
  /\ semVal' = semVal - 1
  /\ token' = [token EXCEPT ![c] = semId]
  /\ UNCHANGED <<semId, created, process, balance, thread, loaded, lost>>

(* The semaphore is gone: semop fails and the thread goes on.              *)
PFails(c) ==
  /\ Goto(c, "P", "check")
  /\ sem[conn[c]] # semId
  /\ UNCHANGED <<kernel, process, balance, thread, loaded, token, lost>>

P(c) == PTakes(c) \/ PFails(c)

(* Only a withdrawal looks at the balance before.                          *)
Covered(c) ==
  request[c].operation = "withdraw" => balance[conn[c]] >= request[c].amount

Check(c) ==
  /\ IF request[c].operation # "other" /\ Covered(c)
     THEN Goto(c, "check", "load")
     ELSE Goto(c, "check", "V")
  /\ UNCHANGED <<kernel, process, balance, thread, loaded, token, lost>>

Load(c) ==
  /\ Goto(c, "load", "store")
  /\ loaded' = [loaded EXCEPT ![c] = balance[conn[c]]]
  /\ UNCHANGED <<kernel, process, balance, thread, token, lost>>

Change(c) ==
  IF request[c].operation = "deposit" THEN request[c].amount
  ELSE -request[c].amount

Store(c) ==
  /\ Goto(c, "store", "V")
  /\ balance' = [balance EXCEPT ![conn[c]] = loaded[c] + Change(c)]
  /\ loaded' = [loaded EXCEPT ![c] = 0]
  /\ UNCHANGED <<kernel, process, thread, token, lost>>

(* A bug: nothing is put back after a withdrawal.                          *)
VForgotten(c) ==
  /\ Goto(c, "V", "ack")
  /\ token' = [token EXCEPT ![c] = None]
  /\ IF sem[conn[c]] = semId /\ request[c].operation # "withdraw"
     THEN semVal' = semVal + 1 /\ UNCHANGED <<semId, created>>
     ELSE UNCHANGED kernel
  /\ UNCHANGED <<process, balance, thread, loaded, lost>>

(* V fails if the semaphore is gone, and is not missed either.             *)
V(c) ==
  /\ Goto(c, "V", "ack")
  /\ token' = [token EXCEPT ![c] = None]
  /\ IF sem[conn[c]] = semId
     THEN semVal' = semVal + 1 /\ UNCHANGED <<semId, created>>
     ELSE UNCHANGED kernel
  /\ UNCHANGED <<process, balance, thread, loaded, lost>>

Ack(c) ==
  /\ Goto(c, "ack", "recv")
  /\ request' = [request EXCEPT ![c] = NoRequest]
  /\ UNCHANGED <<kernel, process, balance, conn, loaded, token, lost>>

-----------------------------------------------------------------------------

Internal(c) == PFails(c) \/ Check(c) \/ Load(c) \/ Store(c) \/ V(c) \/ Ack(c)

Next ==
  \/ \E s \in Servers :
       \/ Start(s) \/ Create(s) \/ Exists(s) \/ Find(s) \/ FindFails(s)
       \/ SetVal(s) \/ SetValFails(s) \/ Listen(s) \/ ListenFails(s)
       \/ InterruptEarly(s) \/ Interrupt(s) \/ Exit(s) \/ Kill(s)
  \/ \E c \in Clients :
       \/ \E s \in Servers : Connect(c, s)
       \/ \E op \in Operations, n \in Amounts : Recv(c, op, n)
       \/ RecvEnd(c)
       \/ PTakes(c)
       \/ Internal(c)

(* Processes and threads that can run do, and the kernel serves those that *)
(* wait for the semaphore in turn.  Nobody has to start a server or send a *)
(* request.                                                                *)
Fairness ==
  /\ \A c \in Clients : WF_vars(Internal(c)) /\ SF_vars(PTakes(c))
  /\ \A s \in Servers : WF_vars(SetVal(s) \/ SetValFails(s)) /\ WF_vars(Exit(s))

Spec == Init /\ [][Next]_vars

FairSpec == Spec /\ Fairness

-----------------------------------------------------------------------------
(* Safety *)

InCritical(s) ==
  {c \in Clients : conn[c] = s /\ pc[c] \in {"check", "load", "store", "V"}}

(* server.c:82 "P(sem) / V(sem) make sure that nobody else changes         *)
(* account_balance": the threads of a server that takes requests are in    *)
(* the critical section one at a time.                                     *)
OnlyOneChanges ==
  \A s \in Servers : server[s] = "listening" => Cardinality(InCritical(s)) <= 1

(* A server is sound while it takes requests and nobody has removed the    *)
(* semaphore it works with.                                                *)
Sound(s) == server[s] = "listening" /\ sem[s] = semId

(* Whatever happens to the other server and whatever an earlier one left   *)
(* behind, a sound server works on its account one thread at a time        *)
(* (server.c:104-121).                                                     *)
OneInSoundServer ==
  \A s \in Servers : Sound(s) => Cardinality(InCritical(s)) <= 1

(* The one unit of an initialised semaphore is in its value, with a thread *)
(* or lost with a killed process: neither a failing P or V nor a server    *)
(* that finds the semaphore of an earlier one makes a second or loses it.  *)
SemaphoreAccounted ==
  semId # None /\ (\A s \in Servers : server[s] = "setval" => sem[s] # semId)
    => semVal + Cardinality({c \in Clients : token[c] = semId}) + lost = 1

-----------------------------------------------------------------------------
(* A sound server implements Account, in which requests are atomic: the    *)
(* balance is read in one step and written in another (server.c:108, 112), *)
(* but no update is lost or made twice, and none on a stale balance.       *)
Pending(c) ==
  pc[c] \in {"P", "check", "load", "store"} /\ Sound(conn[c])

accountBalance == [s \in Servers |-> IF Sound(s) THEN balance[s] ELSE 0]
accountTodo ==
  [c \in Clients |->
     IF Pending(c) THEN [at        |-> conn[c],
                         operation |-> request[c].operation,
                         amount    |-> request[c].amount]
     ELSE [at |-> NoServer, operation |-> "other", amount |-> 0]]

SoundAccount == INSTANCE Account WITH
  balance <- accountBalance, todo <- accountTodo
ImplementsAccount == SoundAccount!Spec

-----------------------------------------------------------------------------
(* Liveness *)

(* Every request is answered, or its server ends -- unless a process was   *)
(* killed with the semaphore's unit: the servers after it wait forever.    *)
RequestServed ==
  \A c \in Clients : pc[c] = "P" ~> (pc[c] \in {"recv", "away"} \/ lost > 0)

=============================================================================

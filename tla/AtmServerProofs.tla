-------------------------- MODULE AtmServerProofs ---------------------------
(***************************************************************************)
(* Theorems about AtmServer, for any number of clients and servers, any    *)
(* amounts and any faults: the types, the units of the semaphore, that a   *)
(* sound server works on its account one thread at a time, and that it     *)
(* implements Account.                                                     *)
(***************************************************************************)
EXTENDS AtmServer, FiniteSetTheorems, TLAPS

-----------------------------------------------------------------------------
(* The inductive invariant *)

Critical == {"check", "load", "store", "V"}

Working == {"setval", "bind", "listening", "leaving"}

(* Identifiers are given out once, every server that runs has one, and a   *)
(* server that has cleaned up has removed its semaphore for good.          *)
Identifiers ==
  /\ semId <= created
  /\ \A s \in Servers :
       /\ sem[s] <= created
       /\ server[s] \in Working => sem[s] # None
       /\ server[s] = "leaving" => sem[s] # semId

(* A thread has a server that still runs, and a unit only between P and V. *)
(* Whoever got past P and finds the semaphore of its server in place has   *)
(* taken its unit: a P that failed saw it gone, and it does not come back. *)
Threads ==
  \A c \in Clients :
    /\ conn[c] = NoServer <=> pc[c] = "away"
    /\ conn[c] # NoServer => server[conn[c]] \in {"listening", "leaving"}
    /\ token[c] # None => pc[c] \in Critical /\ token[c] = sem[conn[c]]
    /\ pc[c] \in Critical /\ sem[conn[c]] = semId => token[c] = semId

Setting(s) == server[s] = "setval" /\ sem[s] = semId

Takers == {c \in Clients : token[c] = semId}

(* Between semget and SETVAL of the server that made the semaphore nobody  *)
(* can have taken a unit, and no other server will set it.                 *)
SetOnce ==
  \A s \in Servers :
    Setting(s) => /\ semVal = 0 /\ lost = 0 /\ Takers = {}
                  /\ \A t \in Servers : Setting(t) => t = s

AInv == TypeOK /\ Identifiers /\ Threads /\ SetOnce /\ SemaphoreAccounted

-----------------------------------------------------------------------------
(* The steps, grouped by what they do to the semaphore *)

(* The end of a process, by itself or killed.                              *)
Ending(s) ==
  /\ Ends(s)
  /\ \/ server[s] = "leaving" /\ UNCHANGED lost
     \/ Alive(s) /\ lost' = IF server[s] = "setval" /\ sem[s] = semId THEN 1
                            ELSE lost + Cardinality(Holders(s))

Removing(s) == server[s] \in {"setval", "bind", "listening"} /\ Cleanup(s)

(* A server that has no semaphore yet comes to another line, or ends.      *)
Early(s) ==
  /\ server[s] \in {"off", "started", "finding"}
  /\ \E state \in {"started", "finding", "exited"} : Become(s, state)
  /\ UNCHANGED <<kernel, sem, balance, thread, pc, loaded, token, lost>>

(* Such a server removes the semaphore of the others.                      *)
RemovingFirst(s) ==
  /\ server[s] = "started" /\ Become(s, "exited")
  /\ semId' = None /\ semVal' = 0
  /\ UNCHANGED <<created, sem, balance, thread, pc, loaded, token, lost>>

Getting(s) == Create(s) \/ Find(s)

(* Steps of a thread that change neither the semaphore nor who holds it.   *)
Passing(c) ==
  \/ \E s \in Servers : Connect(c, s)
  \/ \E op \in Operations, n \in Amounts : Recv(c, op, n)
  \/ RecvEnd(c) \/ PFails(c) \/ Check(c) \/ Load(c) \/ Store(c) \/ Ack(c)

LEMMA PassingLeaves ==
  ASSUME NEW c \in Clients, Passing(c)
  PROVE  UNCHANGED <<kernel, process, token, lost>>
  BY DEF Passing, Connect, Recv, RecvEnd, PFails, Check, Load, Store, Ack,
         kernel, process, thread

LEMMA NextCases ==
  ASSUME [Next]_vars
  PROVE  \/ \E s \in Servers :
              \/ Getting(s) \/ SetVal(s) \/ SetValFails(s) \/ Listen(s)
              \/ Removing(s) \/ Ending(s) \/ Early(s) \/ RemovingFirst(s)
         \/ \E c \in Clients : Passing(c) \/ PTakes(c) \/ V(c)
         \/ UNCHANGED vars
<1>1. ASSUME NEW s \in Servers,
             \/ Start(s) \/ Exists(s) \/ FindFails(s) \/ InterruptEarly(s)
      PROVE  Early(s) \/ RemovingFirst(s)
  BY <1>1 DEF Start, Exists, FindFails, InterruptEarly, Early, RemovingFirst, Become
<1> QED
  BY <1>1 DEF Next, Internal, Passing, Removing, Ending, Getting, ListenFails,
              Interrupt, Exit, Kill

(* The empty request of a thread that has gone is a request.               *)
LEMMA NoRequestType == NoRequest \in [operation : Operations, amount : Amounts]
  BY AtmAssumption DEF NoRequest, Operations

(* What a request adds to the account is an integer.                       *)
LEMMA ChangeType ==
  ASSUME NEW c \in Clients,
         request[c] \in [operation : Operations, amount : Amounts]
  PROVE  request[c].amount \in Int /\ Change(c) \in Int
<1>1. request[c].amount \in Amounts
  OBVIOUS
<1>2. \A n \in Amounts : n \in Int
  BY AtmAssumption
<1>3. request[c].amount \in Int
  BY <1>1, <1>2
<1> QED
  BY <1>3 DEF Change

(* Sets of clients are finite, so that their sizes are numbers.            *)
LEMMA ClientsFinite ==
  ASSUME NEW S \in SUBSET Clients
  PROVE  IsFiniteSet(S) /\ Cardinality(S) \in Nat
  BY AtmAssumption, FS_Subset, FS_CardinalityType

-----------------------------------------------------------------------------
(* Every step keeps the types. *)
LEMMA TypeStep ==
  ASSUME AInv, [Next]_vars
  PROVE  TypeOK'
<1> USE DEF AInv, TypeOK, Threads, kernel, process, thread, Become, Goto, PCs,
            ServerStates
<1>1. ASSUME NEW s \in Servers, Getting(s) PROVE TypeOK'
  <2>1. CASE Create(s)
    <3>1. created + 1 \in Nat
      OBVIOUS
    <3>2. sem' \in [Servers -> Nat] /\ server' \in [Servers -> ServerStates]
      BY <2>1, <3>1 DEF Create
    <3> QED
      BY <2>1, <3>1, <3>2 DEF Create
  <2>2. CASE Find(s)
    BY <2>2 DEF Find
  <2> QED
    BY <1>1, <2>1, <2>2 DEF Getting
<1>2. ASSUME NEW s \in Servers, SetVal(s) PROVE TypeOK'
  BY <1>2 DEF SetVal
<1>3. ASSUME NEW s \in Servers, SetValFails(s) PROVE TypeOK'
  BY <1>3 DEF SetValFails
<1>4. ASSUME NEW s \in Servers, Listen(s) PROVE TypeOK'
  BY <1>4 DEF Listen
<1>5. ASSUME NEW s \in Servers, Removing(s) PROVE TypeOK'
  BY <1>5 DEF Removing, Cleanup, None
<1>6. ASSUME NEW s \in Servers, Ending(s) PROVE TypeOK'
  <2>1. Cardinality(Holders(s)) \in Nat
    BY ClientsFinite DEF Holders
  <2>2. lost' \in Nat
    BY <1>6, <2>1 DEF Ending
  <2> QED
    BY <1>6, <2>2, NoRequestType DEF Ending, Ends, None
<1>7. ASSUME NEW c \in Clients, Passing(c) PROVE TypeOK'
  <2>1. CASE \E s \in Servers : Connect(c, s)
    BY <2>1 DEF Connect
  <2>2. CASE \E op \in Operations, n \in Amounts : Recv(c, op, n)
    BY <2>2 DEF Recv
  <2>3. CASE RecvEnd(c)
    BY <2>3 DEF RecvEnd
  <2>4. CASE PFails(c)
    BY <2>4 DEF PFails
  <2>5. CASE Check(c)
    BY <2>5 DEF Check
  <2>6. CASE Load(c)
    BY <2>6 DEF Load
  <2>7. CASE Store(c)
    BY <2>7, ChangeType DEF Store
  <2>8. CASE Ack(c)
    BY <2>8, NoRequestType DEF Ack
  <2> QED
    BY <1>7, <2>1, <2>2, <2>3, <2>4, <2>5, <2>6, <2>7, <2>8 DEF Passing
<1>8. ASSUME NEW c \in Clients, PTakes(c) PROVE TypeOK'
  BY <1>8 DEF PTakes
<1>9. ASSUME NEW c \in Clients, V(c) PROVE TypeOK'
  BY <1>9 DEF V, None
<1>10. CASE UNCHANGED vars
  BY <1>10 DEF vars
<1>11. ASSUME NEW s \in Servers, Early(s) PROVE TypeOK'
  BY <1>11 DEF Early
<1>12. ASSUME NEW s \in Servers, RemovingFirst(s) PROVE TypeOK'
  BY <1>12 DEF RemovingFirst, None
<1> QED
  BY NextCases, <1>1, <1>2, <1>3, <1>4, <1>5, <1>6, <1>7, <1>8, <1>9, <1>10,
     <1>11, <1>12

(* Identifiers are used once: semget counts up, IPC_RMID forgets.          *)
LEMMA IdentifiersStep ==
  ASSUME AInv, [Next]_vars
  PROVE  Identifiers'
<1> USE DEF AInv, TypeOK, Identifiers, Working, kernel, process, thread,
            Become, None
<1>1. ASSUME NEW s \in Servers, Getting(s) PROVE Identifiers'
  BY <1>1 DEF Getting, Create, Find
<1>2. ASSUME NEW s \in Servers, SetVal(s) PROVE Identifiers'
  BY <1>2 DEF SetVal
<1>3. ASSUME NEW s \in Servers, SetValFails(s) PROVE Identifiers'
  BY <1>3 DEF SetValFails
<1>4. ASSUME NEW s \in Servers, Listen(s) PROVE Identifiers'
  BY <1>4 DEF Listen
<1>5. ASSUME NEW s \in Servers, Removing(s) PROVE Identifiers'
  BY <1>5 DEF Removing, Cleanup
<1>6. ASSUME NEW s \in Servers, Ending(s) PROVE Identifiers'
  BY <1>6 DEF Ending, Ends
<1>7. ASSUME NEW c \in Clients, Passing(c) PROVE Identifiers'
  BY <1>7, PassingLeaves
<1>8. ASSUME NEW c \in Clients, PTakes(c) PROVE Identifiers'
  BY <1>8 DEF PTakes
<1>9. ASSUME NEW c \in Clients, V(c) PROVE Identifiers'
  BY <1>9 DEF V
<1>10. CASE UNCHANGED vars
  BY <1>10 DEF vars
<1>11. ASSUME NEW s \in Servers, Early(s) PROVE Identifiers'
  BY <1>11 DEF Early
<1>12. ASSUME NEW s \in Servers, RemovingFirst(s) PROVE Identifiers'
  BY <1>12 DEF RemovingFirst
<1> QED
  BY NextCases, <1>1, <1>2, <1>3, <1>4, <1>5, <1>6, <1>7, <1>8, <1>9, <1>10,
     <1>11, <1>12

(* A thread keeps its server, and its unit from P to V.                    *)
LEMMA ThreadsStep ==
  ASSUME AInv, [Next]_vars
  PROVE  Threads'
<1> USE DEF AInv, TypeOK, Identifiers, Threads, Working, Critical, kernel,
            process, thread, Become, Goto, None
<1>1. ASSUME NEW s \in Servers, Getting(s) PROVE Threads'
  BY <1>1 DEF Getting, Create, Find
<1>2. ASSUME NEW s \in Servers, SetVal(s) PROVE Threads'
  BY <1>2 DEF SetVal
<1>3. ASSUME NEW s \in Servers, SetValFails(s) PROVE Threads'
  BY <1>3 DEF SetValFails
<1>4. ASSUME NEW s \in Servers, Listen(s) PROVE Threads'
  BY <1>4 DEF Listen
<1>5. ASSUME NEW s \in Servers, Removing(s) PROVE Threads'
  BY <1>5 DEF Removing, Cleanup
<1>6. ASSUME NEW s \in Servers, Ending(s) PROVE Threads'
  BY <1>6, AtmAssumption DEF Ending, Ends
<1>7. ASSUME NEW c \in Clients, Passing(c) PROVE Threads'
  <2> USE <1>7, PassingLeaves
  <2>1. CASE \E s \in Servers : Connect(c, s)
    BY <2>1, AtmAssumption DEF Connect
  <2>2. CASE \E op \in Operations, n \in Amounts : Recv(c, op, n)
    BY <2>2 DEF Recv
  <2>3. CASE RecvEnd(c)
    BY <2>3 DEF RecvEnd
  <2>4. CASE PFails(c)
    BY <2>4 DEF PFails
  <2>5. CASE Check(c)
    BY <2>5 DEF Check
  <2>6. CASE Load(c)
    BY <2>6 DEF Load
  <2>7. CASE Store(c)
    BY <2>7 DEF Store
  <2>8. CASE Ack(c)
    BY <2>8 DEF Ack
  <2> QED
    BY <2>1, <2>2, <2>3, <2>4, <2>5, <2>6, <2>7, <2>8 DEF Passing
<1>8. ASSUME NEW c \in Clients, PTakes(c) PROVE Threads'
  BY <1>8 DEF PTakes
<1>9. ASSUME NEW c \in Clients, V(c) PROVE Threads'
  BY <1>9 DEF V
<1>10. CASE UNCHANGED vars
  BY <1>10 DEF vars
<1>11. ASSUME NEW s \in Servers, Early(s) PROVE Threads'
  BY <1>11 DEF Early
<1>12. ASSUME NEW s \in Servers, RemovingFirst(s) PROVE Threads'
  BY <1>12 DEF RemovingFirst
<1> QED
  BY NextCases, <1>1, <1>2, <1>3, <1>4, <1>5, <1>6, <1>7, <1>8, <1>9, <1>10,
     <1>11, <1>12

(* A semaphore in the making stays as it is until its server sets it.      *)
LEMMA SetOnceStep ==
  ASSUME AInv, [Next]_vars
  PROVE  SetOnce'
<1> USE DEF AInv, TypeOK, Identifiers, SetOnce, Setting, Takers, Working,
            kernel, process, thread, Become, None
<1>1. ASSUME NEW s \in Servers, Getting(s) PROVE SetOnce'
  <2>1. CASE Create(s)
    <3>1. Takers' = {}
      BY <1>1, <2>1 DEF Getting, Create, Threads, Critical
    <3> QED
      BY <1>1, <2>1, <3>1 DEF Getting, Create
  <2>2. CASE Find(s)
    BY <1>1, <2>2 DEF Getting, Find
  <2> QED
    BY <1>1, <2>1, <2>2 DEF Getting
<1>2. ASSUME NEW s \in Servers, SetVal(s) PROVE SetOnce'
  BY <1>2 DEF SetVal
<1>3. ASSUME NEW s \in Servers, SetValFails(s) PROVE SetOnce'
  BY <1>3 DEF SetValFails
<1>4. ASSUME NEW s \in Servers, Listen(s) PROVE SetOnce'
  BY <1>4 DEF Listen
<1>5. ASSUME NEW s \in Servers, Removing(s) PROVE SetOnce'
  BY <1>5 DEF Removing, Cleanup
<1>6. ASSUME NEW s \in Servers, Ending(s) PROVE SetOnce'
  <2> SUFFICES ASSUME NEW t \in Servers, Setting(t)'
               PROVE  /\ semVal' = 0 /\ lost' = 0 /\ Takers' = {}
                      /\ \A u \in Servers : Setting(u)' => u = t
    BY DEF SetOnce
  <2>1. t # s /\ Setting(t)
    BY <1>6 DEF Ending, Ends
  <2>2. ~Setting(s) /\ Takers = {} /\ semVal = 0 /\ lost = 0
    BY <2>1
  <2>3. Holders(s) = {} /\ Takers' = {}
    BY <1>6, <2>1, <2>2 DEF Ending, Ends, Holders
  <2>4. Cardinality(Holders(s)) = 0
    BY <2>3, FS_EmptySet
  <2> QED
    BY <1>6, <2>1, <2>2, <2>3, <2>4 DEF Ending, Ends
<1>7. ASSUME NEW c \in Clients, Passing(c) PROVE SetOnce'
  BY <1>7, PassingLeaves
<1>8. ASSUME NEW c \in Clients, PTakes(c) PROVE SetOnce'
  BY <1>8 DEF PTakes
<1>9. ASSUME NEW c \in Clients, V(c) PROVE SetOnce'
  BY <1>9 DEF V, Goto, Threads, Critical
<1>10. CASE UNCHANGED vars
  BY <1>10 DEF vars
<1>11. ASSUME NEW s \in Servers, Early(s) PROVE SetOnce'
  BY <1>11 DEF Early
<1>12. ASSUME NEW s \in Servers, RemovingFirst(s) PROVE SetOnce'
  BY <1>12 DEF RemovingFirst
<1> QED
  BY NextCases, <1>1, <1>2, <1>3, <1>4, <1>5, <1>6, <1>7, <1>8, <1>9, <1>10,
     <1>11, <1>12

(* No step makes or loses a unit: P moves one from the semaphore to the    *)
(* thread, V back, and the end of a process takes those of its threads.    *)
LEMMA UnitsStep ==
  ASSUME AInv, [Next]_vars
  PROVE  SemaphoreAccounted'
<1> DEFINE Set == semId # None /\ \A s \in Servers : ~Setting(s)
           Units == semVal + Cardinality(Takers) + lost
<1>0. SemaphoreAccounted <=> (Set => Units = 1)
  BY DEF SemaphoreAccounted, Setting, Takers
<1>p. SemaphoreAccounted' <=> (Set' => Units' = 1)
  BY DEF SemaphoreAccounted, Setting, Takers
<1>f. IsFiniteSet(Takers) /\ Cardinality(Takers) \in Nat
  BY ClientsFinite DEF Takers
<1>n. semVal \in Nat /\ lost \in Nat
  BY DEF AInv, TypeOK
<1>u. ASSUME UNCHANGED <<kernel, process, token, lost>> PROVE SemaphoreAccounted'
  BY <1>u DEF AInv, SemaphoreAccounted, kernel, process
<1> USE DEF AInv, TypeOK, Identifiers, Setting, Takers, Working, kernel,
            process, thread, Become, None
<1>1. ASSUME NEW s \in Servers, Getting(s) PROVE SemaphoreAccounted'
  <2>1. CASE Create(s)
    <3>1. Setting(s)'
      BY <1>1, <2>1 DEF Getting, Create
    <3> QED
      BY <1>p, <3>1
  <2>2. CASE Find(s)
    BY <1>1, <2>2 DEF Getting, Find, SemaphoreAccounted
  <2> QED
    BY <1>1, <2>1, <2>2 DEF Getting
<1>2. ASSUME NEW s \in Servers, SetVal(s) PROVE SemaphoreAccounted'
  <2>1. Takers' = {} /\ lost' = 0 /\ semVal' = 1
    BY <1>2 DEF SetVal, SetOnce
  <2>2. Cardinality(Takers') = 0
    BY <2>1, FS_EmptySet
  <2> QED
    BY <1>p, <2>1, <2>2
<1>3. ASSUME NEW s \in Servers, SetValFails(s) PROVE SemaphoreAccounted'
  BY <1>3 DEF SetValFails, SemaphoreAccounted
<1>4. ASSUME NEW s \in Servers, Listen(s) PROVE SemaphoreAccounted'
  BY <1>4 DEF Listen, SemaphoreAccounted
<1>5. ASSUME NEW s \in Servers, Removing(s) PROVE SemaphoreAccounted'
  BY <1>5 DEF Removing, Cleanup, SemaphoreAccounted
<1>6. ASSUME NEW s \in Servers, Ending(s) PROVE SemaphoreAccounted'
  <2> SUFFICES ASSUME Set' PROVE Units' = 1
    BY <1>p
  <2>1. semId # None /\ semVal' = semVal
        /\ \A t \in Servers \ {s} : ~Setting(t)
    BY <1>6 DEF Ending, Ends
  <2>2. CASE Setting(s)
    <3>1. lost' = 1 /\ semVal = 0 /\ Takers = {} /\ Takers' = {}
      BY <1>6, <2>2 DEF Ending, Ends, SetOnce, Alive
    <3>2. Cardinality(Takers') = 0
      BY <3>1, FS_EmptySet
    <3> QED
      BY <2>1, <3>1, <3>2
  <2>3. CASE ~Setting(s)
    <3>1. Units = 1
      BY <1>0, <2>1, <2>3
    <3>2. Takers' = Takers \ Holders(s) /\ Holders(s) \subseteq Takers
      BY <1>6, <2>1 DEF Ending, Ends, Holders
    <3>3. Cardinality(Takers') = Cardinality(Takers) - Cardinality(Holders(s))
      <4>1. Takers \cap Holders(s) = Holders(s)
        BY <3>2
      <4> QED
        BY <1>f, <3>2, <4>1, FS_Difference
    <3>4. lost' = lost + Cardinality(Holders(s))
      <4>1. CASE server[s] = "leaving" /\ UNCHANGED lost
        <5>1. Holders(s) = {}
          BY <2>1, <4>1 DEF Holders, Threads
        <5> QED
          BY <4>1, <5>1, <1>n, FS_EmptySet
      <4> QED
        BY <1>6, <2>3, <4>1 DEF Ending
    <3>5. Cardinality(Holders(s)) \in Nat
      BY ClientsFinite DEF Holders
    <3> HIDE DEF Takers
    <3> QED
      BY <1>f, <1>n, <2>1, <3>1, <3>3, <3>4, <3>5
  <2> QED
    BY <2>2, <2>3
<1>7. ASSUME NEW c \in Clients, Passing(c) PROVE SemaphoreAccounted'
  BY <1>7, <1>u, PassingLeaves
<1>8. ASSUME NEW c \in Clients, PTakes(c) PROVE SemaphoreAccounted'
  <2> SUFFICES ASSUME Set' PROVE Units' = 1
    BY <1>p
  <2>1. Set /\ semVal' = semVal - 1 /\ lost' = lost
    BY <1>8 DEF PTakes
  <2>2. c \notin Takers /\ Takers' = Takers \cup {c}
    BY <1>8, <2>1 DEF PTakes, Goto, Threads, Critical
  <2>3. Cardinality(Takers') = Cardinality(Takers) + 1
    BY <1>f, <2>2, FS_AddElement
  <2> HIDE DEF Takers
  <2> QED
    BY <1>0, <1>f, <1>n, <2>1, <2>3
<1>9. ASSUME NEW c \in Clients, V(c) PROVE SemaphoreAccounted'
  <2> SUFFICES ASSUME Set' PROVE Units' = 1
    BY <1>p
  <2>1. Set /\ lost' = lost /\ Takers' = Takers \ {c}
    BY <1>9 DEF V
  <2>2. CASE sem[conn[c]] = semId
    <3>1. c \in Takers /\ semVal' = semVal + 1
      BY <1>9, <2>2 DEF V, Goto, Threads, Critical
    <3>2. Cardinality(Takers') = Cardinality(Takers) - 1
      <4> HIDE DEF Takers
      <4> QED
        BY <1>f, <2>1, <3>1, FS_RemoveElement
    <3> HIDE DEF Takers
    <3> QED
      BY <1>0, <1>f, <1>n, <2>1, <3>1, <3>2
  <2>3. CASE sem[conn[c]] # semId
    <3>1. c \notin Takers /\ semVal' = semVal
      BY <1>9, <2>1, <2>3 DEF V, Threads
    <3>2. Takers' = Takers
      BY <2>1, <3>1
    <3> HIDE DEF Takers
    <3> QED
      BY <1>0, <2>1, <3>1, <3>2
  <2> QED
    BY <2>2, <2>3
<1>10. CASE UNCHANGED vars
  BY <1>10, <1>u DEF vars
<1>11. ASSUME NEW s \in Servers, Early(s) PROVE SemaphoreAccounted'
  BY <1>11 DEF Early, SemaphoreAccounted
<1>12. ASSUME NEW s \in Servers, RemovingFirst(s) PROVE SemaphoreAccounted'
  BY <1>12 DEF RemovingFirst, SemaphoreAccounted
<1> QED
  BY NextCases, <1>1, <1>2, <1>3, <1>4, <1>5, <1>6, <1>7, <1>8, <1>9, <1>10,
     <1>11, <1>12

-----------------------------------------------------------------------------
(* Theorems *)

LEMMA InitAInv == Init => AInv
  BY AtmAssumption, NoRequestType
     DEF Init, AInv, TypeOK, Identifiers, Threads, SetOnce, Setting, Working,
         Critical, SemaphoreAccounted, ServerStates, PCs, None

LEMMA StepAInv == AInv /\ [Next]_vars => AInv'
  BY TypeStep, IdentifiersStep, ThreadsStep, SetOnceStep, UnitsStep DEF AInv

(* The inductive invariant holds throughout.                               *)
THEOREM Invariance == Spec => []AInv
  BY InitAInv, StepAInv, PTL DEF Spec

(* Every variable keeps its type, whatever the faults (server.c:19-64).    *)
THEOREM TypeCorrect == Spec => []TypeOK
<1>1. AInv => TypeOK
  BY DEF AInv
<1> QED
  BY <1>1, Invariance, PTL

(* However servers start side by side, end or are killed, the semaphore    *)
(* they share has one unit: in its value, with a thread, or lost with a    *)
(* killed process (server.c:138-160).                                      *)
THEOREM OneUnit == Spec => []SemaphoreAccounted
<1>1. AInv => SemaphoreAccounted
  BY DEF AInv
<1> QED
  BY <1>1, Invariance, PTL

(* The threads of a sound server have taken its unit.                      *)
LEMMA CriticalTakes ==
  ASSUME AInv, NEW s \in Servers, Sound(s)
  PROVE  InCritical(s) \subseteq Takers /\ Cardinality(Takers) <= 1
<1> USE DEF AInv, TypeOK, Sound
<1>1. InCritical(s) \subseteq Takers
  BY DEF InCritical, Takers, Threads, Critical
<1>2. semId # None
  BY DEF Identifiers, Working
<1>3. CASE \E t \in Servers : Setting(t)
  <2>1. Takers = {}
    BY <1>3 DEF SetOnce
  <2>2. Cardinality(Takers) = 0
    BY <2>1, FS_EmptySet
  <2> QED
    BY <1>1, <2>2
<1>4. CASE \A t \in Servers : ~Setting(t)
  <2>1. semVal + Cardinality(Takers) + lost = 1
    BY <1>2, <1>4 DEF SemaphoreAccounted, Setting, Takers
  <2>2. Cardinality(Takers) \in Nat
    BY ClientsFinite DEF Takers
  <2> QED
    BY <1>1, <2>1, <2>2
<1> QED
  BY <1>1, <1>3, <1>4

(* Two threads never work on the account of a sound server at a time,      *)
(* although nobody looks at what P and V return (server.c:104-121).        *)
THEOREM OneInSound == Spec => []OneInSoundServer
<1>1. AInv => OneInSoundServer
  <2> SUFFICES ASSUME AInv, NEW s \in Servers, Sound(s)
               PROVE  Cardinality(InCritical(s)) <= 1
    BY DEF OneInSoundServer
  <2>1. Cardinality(InCritical(s)) <= Cardinality(Takers)
    BY CriticalTakes, ClientsFinite, FS_Subset DEF Takers
  <2>2. Cardinality(Takers) \in Nat /\ Cardinality(InCritical(s)) \in Nat
    BY ClientsFinite DEF Takers, InCritical
  <2> QED
    BY <2>1, <2>2, CriticalTakes
<1> QED
  BY <1>1, Invariance, PTL

-----------------------------------------------------------------------------
(* The account of a sound server *)

(* At most one server has the port.                                        *)
OnePort ==
  \A s, t \in Servers : server[s] = "listening" /\ server[t] = "listening" => s = t

(* Nobody changes the account of a server that takes no requests yet.      *)
Fresh == {"off", "started", "finding", "setval", "bind"}

Untouched == \A s \in Servers : server[s] \in Fresh => balance[s] = 0

(* What a thread of a sound server has tested and read still holds.        *)
Steady ==
  \A c \in Clients :
    /\ pc[c] \in {"load", "store"} =>
         request[c].operation # "other" /\ (Sound(conn[c]) => Covered(c))
    /\ pc[c] = "store" /\ Sound(conn[c]) => loaded[c] = balance[conn[c]]

MInv == AInv /\ OnePort /\ Untouched /\ Steady

(* A critical section of a sound server has one thread.                    *)
LEMMA Alone ==
  ASSUME AInv, NEW s \in Servers, Sound(s),
         NEW c \in InCritical(s), NEW d \in InCritical(s)
  PROVE  c = d
<1>1. c \in Takers /\ d \in Takers /\ Cardinality(Takers) <= 1
  BY CriticalTakes
<1>2. IsFiniteSet(Takers) /\ Cardinality(Takers) \in Nat
  BY ClientsFinite DEF Takers
<1>3. Cardinality(Takers) # 0
  BY <1>1, <1>2, FS_EmptySet
<1>4. Cardinality(Takers) = 1
  BY <1>1, <1>2, <1>3
<1>5. PICK x : Takers = {x}
  BY <1>2, <1>4, FS_Singleton
<1> QED
  BY <1>1, <1>5

(* A server becomes sound only when it starts to listen, and a semaphore   *)
(* that is gone does not come back.                                        *)
LEMMA SoundBefore ==
  ASSUME AInv, [Next]_vars, NEW s \in Servers, Sound(s)'
  PROVE  Sound(s) \/ Listen(s)
<1> USE DEF AInv, TypeOK, Identifiers, Working, Sound, kernel, process, thread,
            Become, None
<1>1. ASSUME NEW t \in Servers, Getting(t) PROVE Sound(s)
  BY <1>1 DEF Getting, Create, Find
<1>2. ASSUME NEW t \in Servers, SetVal(t) PROVE Sound(s)
  BY <1>2 DEF SetVal
<1>3. ASSUME NEW t \in Servers, SetValFails(t) PROVE Sound(s)
  BY <1>3 DEF SetValFails
<1>4. ASSUME NEW t \in Servers, Listen(t) PROVE Sound(s) \/ Listen(s)
  BY <1>4 DEF Listen
<1>5. ASSUME NEW t \in Servers, Removing(t) PROVE Sound(s)
  BY <1>5 DEF Removing, Cleanup
<1>6. ASSUME NEW t \in Servers, Ending(t) PROVE Sound(s)
  BY <1>6 DEF Ending, Ends
<1>7. ASSUME NEW c \in Clients, Passing(c) PROVE Sound(s)
  BY <1>7, PassingLeaves
<1>8. ASSUME NEW c \in Clients, PTakes(c) PROVE Sound(s)
  BY <1>8 DEF PTakes
<1>9. ASSUME NEW c \in Clients, V(c) PROVE Sound(s)
  BY <1>9 DEF V
<1>10. CASE UNCHANGED vars
  BY <1>10 DEF vars
<1>11. ASSUME NEW t \in Servers, Early(t) PROVE Sound(s)
  BY <1>11 DEF Early
<1>12. ASSUME NEW t \in Servers, RemovingFirst(t) PROVE Sound(s)
  BY <1>12 DEF RemovingFirst
<1> QED
  BY NextCases, <1>1, <1>2, <1>3, <1>4, <1>5, <1>6, <1>7, <1>8, <1>9, <1>10,
     <1>11, <1>12

(* bind keeps a second server away from the port.                          *)
LEMMA OnePortStep ==
  ASSUME AInv, OnePort, [Next]_vars
  PROVE  OnePort'
<1> USE DEF AInv, TypeOK, OnePort, process, Become
<1>1. ASSUME NEW s \in Servers,
             \/ Getting(s) \/ SetVal(s) \/ SetValFails(s) \/ Listen(s)
             \/ Removing(s) \/ Ending(s) \/ Early(s) \/ RemovingFirst(s)
      PROVE  OnePort'
  BY <1>1 DEF Getting, Create, Find, SetVal, SetValFails, Listen,
              PortTaken, Removing, Cleanup, Ending, Ends, Early, RemovingFirst
<1>2. ASSUME NEW c \in Clients, Passing(c) \/ PTakes(c) \/ V(c) PROVE OnePort'
  BY <1>2, PassingLeaves DEF PTakes, V
<1>3. CASE UNCHANGED vars
  BY <1>3 DEF vars
<1> QED
  BY NextCases, <1>1, <1>2, <1>3

(* Only a thread changes a balance, and a thread has a server that listens.*)
LEMMA UntouchedStep ==
  ASSUME AInv, Untouched, [Next]_vars
  PROVE  Untouched'
<1> USE DEF AInv, TypeOK, Untouched, Fresh, process, Become
<1>1. ASSUME NEW s \in Servers,
             \/ Getting(s) \/ SetVal(s) \/ SetValFails(s) \/ Listen(s)
             \/ Removing(s) \/ Ending(s) \/ Early(s) \/ RemovingFirst(s)
      PROVE  Untouched'
  BY <1>1 DEF Getting, Create, Find, SetVal, SetValFails, Listen,
              Removing, Cleanup, Ending, Ends, Early, RemovingFirst
<1>2. ASSUME NEW c \in Clients, Store(c) PROVE Untouched'
  BY <1>2 DEF Store, Goto, Threads
<1>3. ASSUME NEW c \in Clients, Passing(c) \/ PTakes(c) \/ V(c), ~Store(c)
      PROVE  Untouched'
  BY <1>3, PassingLeaves
     DEF Passing, Connect, Recv, RecvEnd, PFails, Check, Load, Ack, PTakes, V
<1>4. CASE UNCHANGED vars
  BY <1>4 DEF vars
<1> QED
  BY NextCases, <1>1, <1>2, <1>3, <1>4

(* The server of a thread is not made sound under it.                      *)
LEMMA SoundThread ==
  ASSUME AInv, [Next]_vars, NEW c \in Clients, conn[c] # NoServer,
         conn'[c] = conn[c], Sound(conn[c])'
  PROVE  Sound(conn[c])
<1>1. conn[c] \in Servers /\ server[conn[c]] # "bind"
  BY DEF AInv, TypeOK, Threads
<1>2. PICK s \in Servers : s = conn[c]
  BY <1>1
<1>3. Sound(s)'
  BY <1>2 DEF Sound
<1> QED
  BY <1>1, <1>2, <1>3, SoundBefore DEF Listen

(* Between Check and Store of one thread of a sound server no other thread *)
(* stores: both would be in the critical section.                          *)
LEMMA SteadyStep ==
  ASSUME MInv, [Next]_vars
  PROVE  Steady'
<1> SUFFICES ASSUME NEW c \in Clients
             PROVE  (/\ pc[c] \in {"load", "store"} =>
                          request[c].operation # "other" /\ (Sound(conn[c]) => Covered(c))
                     /\ pc[c] = "store" /\ Sound(conn[c]) => loaded[c] = balance[conn[c]])'
  BY DEF Steady
<1> DEFINE Goal == (/\ pc[c] \in {"load", "store"} =>
                          request[c].operation # "other" /\ (Sound(conn[c]) => Covered(c))
                    /\ pc[c] = "store" /\ Sound(conn[c]) => loaded[c] = balance[conn[c]])
<1>a. AInv /\ TypeOK /\ Threads
  BY DEF MInv, AInv
(* A step that leaves the thread and the account of its server alone.      *)
<1>k. ASSUME pc'[c] = pc[c], conn'[c] = conn[c], request'[c] = request[c],
             loaded'[c] = loaded[c],
             Sound(conn[c]) => balance'[conn[c]] = balance[conn[c]]
      PROVE  Goal'
  <2>1. pc[c] \in {"load", "store"} => conn[c] # NoServer
    BY <1>a DEF Threads
  <2>2. pc[c] \in {"load", "store"} /\ Sound(conn[c])' => Sound(conn[c])
    BY <1>a, <1>k, <2>1, SoundThread
  <2> QED
    BY <1>k, <2>2 DEF MInv, Steady, Covered
<1>1. ASSUME NEW s \in Servers,
             \/ Getting(s) \/ SetVal(s) \/ SetValFails(s) \/ Listen(s) \/ Removing(s)
             \/ Early(s) \/ RemovingFirst(s)
      PROVE  Goal'
  <2>1. UNCHANGED <<pc, conn, request, loaded, balance>>
    BY <1>1 DEF Getting, Create, Find, SetVal, SetValFails, Listen, Removing, Cleanup,
              Early, RemovingFirst, thread
  <2> QED
    BY <1>k, <2>1
<1>2. ASSUME NEW s \in Servers, Ending(s) PROVE Goal'
  <2>1. CASE conn[c] = s
    <3>1. pc'[c] = "away"
      BY <1>2, <2>1 DEF Ending, Ends
    <3> QED
      BY <3>1
  <2>2. CASE conn[c] # s
    BY <1>2, <1>a, <1>k, <2>2 DEF Ending, Ends, TypeOK
  <2> QED
    BY <2>1, <2>2
<1>3. ASSUME NEW d \in Clients, d # c, Passing(d) \/ PTakes(d) \/ V(d)
      PROVE  Goal'
  <2>1. pc'[c] = pc[c] /\ conn'[c] = conn[c] /\ request'[c] = request[c]
        /\ loaded'[c] = loaded[c]
    BY <1>3, <1>a
       DEF Passing, Connect, Recv, RecvEnd, PFails, Check, Load, Store, Ack,
           PTakes, V, Goto, thread, TypeOK
  <2>2. CASE Store(d)
    <3>1. CASE Sound(conn[c]) /\ conn[d] = conn[c] /\ pc[c] \in {"load", "store"}
      <4>1. conn[c] \in Servers
        BY <1>a, <3>1 DEF TypeOK, Threads
      <4>2. c \in InCritical(conn[c]) /\ d \in InCritical(conn[c])
        BY <2>2, <3>1 DEF InCritical, Store, Goto
      <4> QED
        BY <1>a, <1>3, <3>1, <4>1, <4>2, Alone
    <3>2. CASE Sound(conn[c]) /\ conn[d] # conn[c]
      <4>1. balance'[conn[c]] = balance[conn[c]]
        BY <1>a, <2>2, <3>2 DEF Store, TypeOK
      <4> QED
        BY <1>k, <2>1, <4>1
    <3>3. CASE ~Sound(conn[c])
      BY <1>k, <2>1, <3>3
    <3>4. CASE pc[c] \notin {"load", "store"}
      BY <2>1, <3>4
    <3> QED
      BY <3>1, <3>2, <3>3, <3>4
  <2>3. CASE ~Store(d)
    <3>1. UNCHANGED balance
      BY <1>3, <2>3
         DEF Passing, Connect, Recv, RecvEnd, PFails, Check, Load, Ack, PTakes, V
    <3> QED
      BY <1>k, <2>1, <3>1
  <2> QED
    BY <2>2, <2>3
<1>4. CASE Check(c)
  <2>1. pc'[c] \in {"load", "V"} /\ conn' = conn /\ request' = request /\ balance' = balance
    BY <1>4, <1>a DEF Check, Goto, TypeOK, thread
  <2>2. pc'[c] = "load" => request[c].operation # "other" /\ Covered(c)
    BY <1>4, <1>a DEF Check, Goto, TypeOK
  <2> QED
    BY <2>1, <2>2 DEF Covered
<1>5. CASE Load(c)
  <2>1. /\ pc[c] = "load" /\ conn' = conn /\ request' = request /\ balance' = balance
        /\ loaded'[c] = balance[conn[c]] /\ conn[c] # NoServer
    BY <1>5, <1>a DEF Load, Goto, TypeOK, thread, Threads
  <2>2. Sound(conn[c])' => Sound(conn[c])
    BY <1>a, <2>1, SoundThread
  <2> QED
    BY <2>1, <2>2 DEF MInv, Steady, Covered
<1>6. ASSUME Passing(c) \/ PTakes(c) \/ V(c), ~Check(c), ~Load(c) PROVE Goal'
  <2>1. pc'[c] \notin {"load", "store"}
    BY <1>6, <1>a
       DEF Passing, Connect, Recv, RecvEnd, PFails, Store, Ack, PTakes, V, Goto,
           TypeOK
  <2> QED
    BY <2>1
<1>7. CASE UNCHANGED vars
  BY <1>k, <1>7 DEF vars, thread
<1> QED
  BY NextCases, <1>1, <1>2, <1>3, <1>4, <1>5, <1>6, <1>7

LEMMA InitMInv == Init => MInv
  BY InitAInv DEF Init, MInv, OnePort, Untouched, Fresh, Steady

(* The invariant of the accounts holds throughout.                         *)
LEMMA AccountsInvariance == Spec => []MInv
<1>1. MInv /\ [Next]_vars => MInv'
  BY StepAInv, OnePortStep, UntouchedStep, SteadyStep DEF MInv
<1> QED
  BY <1>1, InitMInv, PTL DEF Spec

-----------------------------------------------------------------------------
(* The refinement of Account *)

(* A step that neither a balance nor a request of a sound server shows.    *)
LEMMA Unseen ==
  ASSUME \A s \in Servers : (Sound(s)' <=> Sound(s)) /\ (Sound(s) => balance'[s] = balance[s]),
         \A c \in Clients :
           /\ Pending(c)' <=> Pending(c)
           /\ Pending(c) => conn'[c] = conn[c] /\ request'[c] = request[c]
  PROVE  UNCHANGED SoundAccount!vars
<1>1. accountBalance' = accountBalance
  BY DEF accountBalance
<1>2. accountTodo' = accountTodo
  BY DEF accountTodo
<1> QED
  BY <1>1, <1>2 DEF SoundAccount!vars

(* A thread with a request to carry out belongs to a server.               *)
LEMMA PendingServer ==
  ASSUME AInv, NEW c \in Clients, Pending(c)
  PROVE  conn[c] \in Servers /\ Sound(conn[c]) /\ pc[c] # "away"
  BY DEF AInv, TypeOK, Threads, Pending

(* When no server is sound after a step, the account that was is closed.   *)
LEMMA Closes ==
  ASSUME MInv, AInv', NEW s \in Servers, Sound(s), \A t \in Servers : ~Sound(t)'
  PROVE  SoundAccount!Close(s)
<1>1. \A t \in Servers : Sound(t) => t = s
  BY DEF MInv, OnePort, Sound
<1>2. \A c \in Clients : Pending(c) => conn[c] = s
  BY <1>1, PendingServer DEF MInv
<1>3. \A c \in Clients : ~Pending(c)'
  <2> SUFFICES ASSUME NEW c \in Clients, Pending(c)' PROVE FALSE
    OBVIOUS
  <2>1. conn'[c] \in Servers
    BY DEF AInv, TypeOK, Threads, Pending
  <2> QED
    BY <2>1 DEF Pending, Sound
<1>4. accountBalance' = [accountBalance EXCEPT ![s] = 0]
  BY <1>1 DEF accountBalance
<1>5. accountTodo' = [c \in Clients |-> SoundAccount!Nothing]
  BY <1>3 DEF accountTodo, SoundAccount!Nothing, NoServer
<1>6. \A c \in Clients :
        accountTodo[c] = SoundAccount!Nothing \/ accountTodo[c].at = s
  BY <1>2 DEF accountTodo, SoundAccount!Nothing, NoServer
<1> QED
  BY <1>4, <1>5, <1>6 DEF SoundAccount!Close

(* The end of a process, and the loss of its semaphore.                    *)
LEMMA EndingAccount ==
  ASSUME MInv, AInv', [Next]_vars, NEW s \in Servers,
         Ending(s) \/ Removing(s) \/ RemovingFirst(s)
  PROVE  [SoundAccount!Next]_(SoundAccount!vars)
<1>a. AInv /\ TypeOK
  BY DEF MInv, AInv
<1>b. \A t \in Servers : Sound(t)' => Sound(t)
  <2>1. \A t \in Servers : ~Listen(t)
    BY <1>a DEF Ending, Ends, Removing, Cleanup, RemovingFirst, Listen, Become, TypeOK
  <2> QED
    BY <1>a, <2>1, SoundBefore
<1>1. CASE \A t \in Servers : Sound(t)' <=> Sound(t)
  <2>1. CASE Removing(s) \/ RemovingFirst(s)
    <3>1. UNCHANGED <<balance, thread, pc>>
      BY <2>1 DEF Removing, Cleanup, RemovingFirst
    <3>2. ASSUME NEW c \in Clients PROVE Pending(c)' <=> Pending(c)
      <4>1. CASE pc[c] \in {"P", "check", "load", "store"}
        <5>1. conn[c] \in Servers
          BY <1>a, <4>1 DEF AInv, Threads, TypeOK
        <5> QED
          BY <1>1, <3>1, <5>1 DEF Pending, thread, Sound
      <4> QED
        BY <3>1, <4>1 DEF Pending
    <3> QED
      BY <1>1, <3>1, <3>2, Unseen DEF thread
  <2>2. CASE Ending(s)
    <3>1. ~Sound(s)
      BY <1>1, <1>a, <2>2 DEF Ending, Ends, Become, Sound, TypeOK
    <3>2. ASSUME NEW c \in Clients
          PROVE  /\ Pending(c)' <=> Pending(c)
                 /\ Pending(c) => conn'[c] = conn[c] /\ request'[c] = request[c]
      <4>1. CASE conn[c] = s
        BY <2>2, <3>1, <4>1 DEF Pending, Ending, Ends
      <4>2. CASE conn[c] # s
        <5>1. pc'[c] = pc[c] /\ conn'[c] = conn[c] /\ request'[c] = request[c]
          BY <2>2, <4>2 DEF Ending, Ends
        <5>2. CASE pc[c] \in {"P", "check", "load", "store"}
          <6>1. conn[c] \in Servers
            BY <1>a, <5>2 DEF AInv, Threads, TypeOK
          <6> QED
            BY <1>1, <5>1, <6>1 DEF Pending, Sound
        <5> QED
          BY <5>1, <5>2 DEF Pending
      <4> QED
        BY <4>1, <4>2
    <3>3. \A t \in Servers : Sound(t) => balance'[t] = balance[t]
      BY <1>a, <2>2, <3>1 DEF Ending, Ends, TypeOK
    <3> QED
      BY <1>1, <3>2, <3>3, Unseen
  <2> QED
    BY <2>1, <2>2
<1>2. CASE \E t \in Servers : Sound(t) /\ ~Sound(t)'
  <2>1. PICK t \in Servers : Sound(t) /\ ~Sound(t)'
    BY <1>2
  <2>2. \A u \in Servers : ~Sound(u)'
    BY <1>b, <2>1 DEF MInv, OnePort, Sound
  <2>3. SoundAccount!Close(t)
    BY <2>1, <2>2, Closes
  <2> QED
    BY <2>3 DEF SoundAccount!Next
<1> QED
  BY <1>b, <1>1, <1>2

(* Steps that change neither who is sound nor another thread's request.    *)
LEMMA ThreadAccount ==
  ASSUME MInv, AInv', NEW c \in Clients, Passing(c) \/ PTakes(c) \/ V(c)
  PROVE  [SoundAccount!Next]_(SoundAccount!vars)
<1>a. AInv /\ TypeOK /\ Threads /\ AtmAssumption
  BY AtmAssumption DEF MInv, AInv
<1>b. UNCHANGED <<server, sem, semId>>
  BY PassingLeaves DEF PTakes, V, kernel, process
<1>s. \A s : Sound(s)' <=> Sound(s)
  BY <1>b DEF Sound
<1>d. ASSUME NEW d \in Clients \ {c}
      PROVE  /\ pc'[d] = pc[d] /\ conn'[d] = conn[d] /\ request'[d] = request[d]
             /\ Pending(d)' <=> Pending(d)
  <2>1. pc'[d] = pc[d] /\ conn'[d] = conn[d] /\ request'[d] = request[d]
    BY <1>a, <1>d
       DEF Passing, Connect, Recv, RecvEnd, PFails, Check, Load, Store, Ack,
           PTakes, V, Goto, thread, TypeOK
  <2> QED
    BY <1>b, <2>1 DEF Pending, Sound
<1>t. ASSUME NEW x, accountTodo'[c] = x
      PROVE  accountTodo' = [accountTodo EXCEPT ![c] = x]
  <2>1. \A d \in Clients \ {c} : accountTodo'[d] = accountTodo[d]
    BY <1>d DEF accountTodo
  <2>2. /\ accountTodo = [d \in Clients |-> accountTodo[d]]
        /\ accountTodo' = [d \in Clients |-> accountTodo'[d]]
    BY DEF accountTodo
  <2>3. accountTodo' = [d \in Clients |-> IF d = c THEN x ELSE accountTodo[d]]
    BY ONLY <1>t, <2>1, <2>2
  <2> QED
    BY ONLY <2>2, <2>3
(* The thread has no request before and after the step, or the same.       *)
<1>k. ASSUME \A s \in Servers : Sound(s) => balance'[s] = balance[s],
             \/ Pending(c) /\ Pending(c)' /\ conn'[c] = conn[c] /\ request'[c] = request[c]
             \/ ~Pending(c) /\ ~Pending(c)'
      PROVE  UNCHANGED SoundAccount!vars
  BY <1>s, <1>d, <1>k, Unseen
<1>1. CASE \E s \in Servers : Connect(c, s)
  BY <1>a, <1>1, <1>k DEF Connect, Goto, Pending, TypeOK
<1>2. CASE \E op \in Operations, n \in Amounts : Recv(c, op, n)
  <2>1. PICK op \in Operations, n \in Amounts : Recv(c, op, n)
    BY <1>2
  <2> USE <2>1 DEF Recv, Goto
  <2>2. CASE Sound(conn[c])
    <3>1. /\ ~Pending(c) /\ Pending(c)' /\ conn[c] \in Servers
          /\ conn'[c] = conn[c] /\ balance' = balance
          /\ request'[c] = [operation |-> op, amount |-> n]
      BY <1>a, <1>b, <2>2 DEF Pending, Sound, TypeOK, Threads
    <3>2. accountBalance' = accountBalance
      BY <1>s, <3>1 DEF accountBalance
    <3>3. accountTodo[c] = SoundAccount!Nothing
      BY <3>1 DEF accountTodo, SoundAccount!Nothing, NoServer
    <3>4. accountTodo' = [accountTodo EXCEPT ![c] =
                            [at |-> conn[c], operation |-> op, amount |-> n]]
      <4>1. accountTodo'[c] = [at |-> conn[c], operation |-> op, amount |-> n]
        BY <3>1 DEF accountTodo
      <4> QED
        BY <1>t, <4>1
    <3>5. SoundAccount!Ask(c)
      BY <3>1, <3>2, <3>3, <3>4 DEF SoundAccount!Ask, Operations
    <3> QED
      BY <3>5 DEF SoundAccount!Next
  <2>3. CASE ~Sound(conn[c])
    <3>1. ~Pending(c) /\ ~Pending(c)' /\ balance' = balance
      BY <1>b, <2>3 DEF Pending, Sound
    <3> QED
      BY <1>k, <3>1
  <2> QED
    BY <2>2, <2>3
<1>3. CASE RecvEnd(c)
  BY <1>a, <1>3, <1>k DEF RecvEnd, Goto, Pending, TypeOK
<1>4. CASE PFails(c) \/ PTakes(c) \/ Load(c)
  <2>1. /\ pc[c] \in {"P", "load"} /\ pc'[c] \in {"check", "store"}
        /\ conn' = conn /\ request' = request /\ balance' = balance
    BY <1>a, <1>4 DEF PFails, PTakes, Load, Goto, TypeOK, thread
  <2>2. Pending(c)' <=> Pending(c)
    BY <1>b, <2>1 DEF Pending, Sound
  <2> QED
    BY <1>k, <2>1, <2>2
<1>5. CASE V(c) \/ Ack(c)
  BY <1>a, <1>5, <1>k DEF V, Ack, Goto, Pending, TypeOK
<1>6. CASE Check(c)
  <2>0. pc[c] = "check" /\ conn' = conn /\ request' = request /\ balance' = balance
    BY <1>6 DEF Check, Goto, thread
  <2>1. CASE pc'[c] = "load"
    <3>1. Pending(c)' <=> Pending(c)
      BY <1>b, <2>0, <2>1 DEF Pending, Sound
    <3> QED
      BY <1>k, <2>0, <3>1
  <2>2. CASE pc'[c] = "V" /\ Sound(conn[c])
    <3>1. Pending(c) /\ ~Pending(c)' /\ conn[c] \in Servers
      BY <1>a, <2>0, <2>2, PendingServer DEF Pending
    <3>2. request[c].operation = "other" \/ ~Covered(c)
      BY <1>a, <1>6, <2>2 DEF Check, Goto, TypeOK
    <3>3. accountTodo[c] = [at |-> conn[c], operation |-> request[c].operation,
                            amount |-> request[c].amount]
      BY <3>1 DEF accountTodo
    <3>4. accountBalance[conn[c]] = balance[conn[c]] /\ accountBalance' = accountBalance
      BY <1>s, <2>0, <2>2, <3>1 DEF accountBalance
    <3>5. SoundAccount!Effect(request[c].operation, request[c].amount, balance[conn[c]])
            = balance[conn[c]]
      BY <1>a, <3>1, <3>2 DEF SoundAccount!Effect, Covered, TypeOK
    <3>6. accountBalance' = [accountBalance EXCEPT ![conn[c]] =
            SoundAccount!Effect(request[c].operation, request[c].amount, @)]
      BY <3>1, <3>4, <3>5 DEF accountBalance
    <3>7. accountTodo' = [accountTodo EXCEPT ![c] = SoundAccount!Nothing]
      <4>1. accountTodo'[c] = SoundAccount!Nothing
        BY <3>1 DEF accountTodo, SoundAccount!Nothing, NoServer
      <4> QED
        BY <1>t, <4>1
    <3>8. accountTodo[c] # SoundAccount!Nothing
      <4>1. conn[c] # NoServer
        BY <1>a, <3>1
      <4>2. accountTodo[c].at = conn[c] /\ SoundAccount!Nothing.at = NoServer
        BY ONLY <3>3 DEF SoundAccount!Nothing, NoServer
      <4> QED
        BY ONLY <4>1, <4>2
    <3>9. SoundAccount!CarryOut(c)
      BY <3>3, <3>6, <3>7, <3>8 DEF SoundAccount!CarryOut
    <3> QED
      BY <3>9 DEF SoundAccount!Next
  <2>3. CASE pc'[c] = "V" /\ ~Sound(conn[c])
    BY <1>k, <2>0, <2>3 DEF Pending
  <2> QED
    BY <1>a, <1>6, <2>1, <2>2, <2>3 DEF Check, Goto, TypeOK
<1>7. CASE Store(c)
  <2>0. /\ pc[c] = "store" /\ pc'[c] = "V" /\ conn' = conn
        /\ balance' = [balance EXCEPT ![conn[c]] = loaded[c] + Change(c)]
        /\ conn[c] \in Servers
    BY <1>a, <1>7 DEF Store, Goto, thread, TypeOK, Threads
  <2>1. CASE Sound(conn[c])
    <3>1. Pending(c) /\ ~Pending(c)'
      BY <2>0, <2>1 DEF Pending
    <3>2. /\ loaded[c] = balance[conn[c]] /\ Covered(c)
          /\ request[c].operation \in {"deposit", "withdraw"}
      BY <1>a, <2>0, <2>1 DEF MInv, Steady, TypeOK, Operations
    <3>3. accountTodo[c] = [at |-> conn[c], operation |-> request[c].operation,
                            amount |-> request[c].amount]
      BY <3>1 DEF accountTodo
    <3>4. SoundAccount!Effect(request[c].operation, request[c].amount, balance[conn[c]])
            = balance[conn[c]] + Change(c)
      <4>1. /\ request[c].amount \in Int /\ balance[conn[c]] \in Int
        BY <1>a, <2>0, ChangeType DEF TypeOK
      <4> QED
        BY <3>2, <4>1 DEF SoundAccount!Effect, Covered, Change
    <3>5. accountBalance' = [accountBalance EXCEPT ![conn[c]] =
            SoundAccount!Effect(request[c].operation, request[c].amount, @)]
      BY <1>a, <1>s, <2>0, <2>1, <3>2, <3>4 DEF accountBalance, TypeOK
    <3>6. accountTodo' = [accountTodo EXCEPT ![c] = SoundAccount!Nothing]
      <4>1. accountTodo'[c] = SoundAccount!Nothing
        BY <3>1 DEF accountTodo, SoundAccount!Nothing, NoServer
      <4> QED
        BY <1>t, <4>1
    <3>7. accountTodo[c] # SoundAccount!Nothing
      <4>1. conn[c] # NoServer
        BY <1>a, <2>0
      <4>2. accountTodo[c].at = conn[c] /\ SoundAccount!Nothing.at = NoServer
        BY ONLY <3>3 DEF SoundAccount!Nothing, NoServer
      <4> QED
        BY ONLY <4>1, <4>2
    <3>8. SoundAccount!CarryOut(c)
      BY <3>3, <3>5, <3>6, <3>7 DEF SoundAccount!CarryOut
    <3> QED
      BY <3>8 DEF SoundAccount!Next
  <2>2. CASE ~Sound(conn[c])
    <3>1. \A s \in Servers : Sound(s) => balance'[s] = balance[s]
      BY <1>a, <2>0, <2>2 DEF TypeOK
    <3> QED
      BY <1>k, <2>0, <2>2, <3>1 DEF Pending
  <2> QED
    BY <2>1, <2>2
<1> QED
  BY <1>1, <1>2, <1>3, <1>4, <1>5, <1>6, <1>7 DEF Passing


(* The steps that start a server are not seen in its account: it is empty. *)
LEMMA StartingAccount ==
  ASSUME MInv, AInv', [Next]_vars, NEW s \in Servers,
         Early(s) \/ Getting(s) \/ SetVal(s) \/ SetValFails(s) \/ Listen(s)
  PROVE  UNCHANGED SoundAccount!vars
<1>a. AInv /\ TypeOK /\ AInv' /\ TypeOK'
  BY DEF MInv, AInv
<1>b. UNCHANGED <<balance, conn, request, pc>>
  BY DEF Early, Getting, Create, Find, SetVal, SetValFails, Listen, thread
<1>1. \A t \in Servers \ {s} : Sound(t)' <=> Sound(t)
  <2>1. \A t \in Servers \ {s} : server'[t] = server[t] /\ sem'[t] = sem[t]
    BY <1>a DEF Early, Getting, Create, Find, SetVal, SetValFails, Listen, Become,
                TypeOK, process
  <2>2. CASE semId' = semId
    BY <2>1, <2>2 DEF Sound
  <2>3. CASE semId = None /\ semId' = created + 1
    BY <1>a, <2>1, <2>3 DEF Sound, AInv, Identifiers, Working, TypeOK
  <2> QED
    BY <2>2, <2>3
       DEF Early, Getting, Create, Find, SetVal, SetValFails, Listen, kernel
<1>2. server[s] \in Fresh /\ ~Sound(s)
  BY DEF Early, Getting, Create, Find, SetVal, SetValFails, Listen, Sound, Fresh
<1>3. balance[s] = 0
  BY <1>2 DEF MInv, Untouched
<1>4. accountBalance' = accountBalance
  BY <1>b, <1>1, <1>2, <1>3 DEF accountBalance
<1>5. \A c \in Clients : Pending(c)' <=> Pending(c)
  <2> SUFFICES ASSUME NEW c \in Clients, pc[c] # "away"
               PROVE  Pending(c)' <=> Pending(c)
    BY <1>b DEF Pending
  <2>0. conn[c] \in Servers /\ server[conn[c]] \in {"listening", "leaving"}
    BY <1>a DEF AInv, TypeOK, Threads
  <2>1. conn[c] \in Servers \ {s}
    BY <1>2, <2>0 DEF Fresh
  <2>2. Sound(conn[c])' <=> Sound(conn[c])
    BY <1>b, <1>1, <2>1 DEF Sound
  <2> QED
    BY <1>b, <2>2 DEF Pending
<1>6. accountTodo' = accountTodo
  BY <1>b, <1>5 DEF accountTodo
<1> QED
  BY <1>4, <1>6 DEF SoundAccount!vars

(* A sound server implements Account for any number of threads: a request  *)
(* takes effect when its thread stores the balance, or when it finds that  *)
(* there is nothing to change; the account is closed when its server ends  *)
(* or its semaphore is removed (server.c:97-125).                          *)
THEOREM AccountImplemented == Spec => ImplementsAccount
<1>1. Init => SoundAccount!Init
  BY DEF Init, SoundAccount!Init, SoundAccount!Nothing, accountBalance,
         accountTodo, Sound, Pending, NoServer
<1>2. MInv /\ MInv' /\ [Next]_vars => [SoundAccount!Next]_(SoundAccount!vars)
  <2> SUFFICES ASSUME MInv, MInv', [Next]_vars
               PROVE  [SoundAccount!Next]_(SoundAccount!vars)
    OBVIOUS
  <2>a. AInv'
    BY DEF MInv
  <2>1. CASE UNCHANGED vars
    <3>1. UNCHANGED <<semId, server, sem, balance, conn, request, pc>>
      BY <2>1 DEF vars, thread, kernel, process
    <3>2. /\ \A s : Sound(s)' <=> Sound(s)
          /\ \A c : Pending(c)' <=> Pending(c)
      BY <3>1 DEF Sound, Pending
    <3>3. UNCHANGED SoundAccount!vars
      BY <3>1, <3>2, Unseen
    <3> QED
      BY <3>3
  <2> QED
    BY NextCases, <2>a, <2>1, StartingAccount, EndingAccount, ThreadAccount
<1> QED
  BY <1>1, <1>2, AccountsInvariance, PTL
     DEF Spec, ImplementsAccount, SoundAccount!Spec

=============================================================================

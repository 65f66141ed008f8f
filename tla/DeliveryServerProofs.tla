------------------------ MODULE DeliveryServerProofs ------------------------
(***************************************************************************)
(* Theorems about DeliveryServer, for any number of clients, any menu, any *)
(* quantities and any threshold for a long wait: the types, the discipline *)
(* of the mutex, the orders and what they cost, and the bound on how stale *)
(* a quote can be.                                                         *)
(***************************************************************************)
EXTENDS DeliveryServer, FiniteSetTheorems, WellFoundedInduction, TLAPS

-----------------------------------------------------------------------------
(* What one "order" does to an order that is sound *)

(* OneRestaurant is not inductive: while no restaurant is chosen there     *)
(* must be nothing in the cart and nothing to pay.                         *)
Sound(order) ==
  /\ order \in Cart
  /\ OneRestaurant(order)
  /\ \A d \in Dishes : order.cnt[d] # 0 => RestaurantOf[d] # 0
  /\ order.chosenRest = 0 => order.totalCost = 0

(* How many values an int has.                                             *)
Ints == IntMax - IntMin + 1

(* Wrapping around adds or takes away a multiple of it, ...                *)
LEMMA WrapShift ==
  ASSUME NEW n \in Int
  PROVE  Wrap(n) \in CInt /\ \E k \in Int : Wrap(n) = n + k * Ints
<1> DEFINE m == n - IntMin
<1>1. Ints \in Nat /\ Ints > 0 /\ m \in Int /\ IntMin \in Int
  BY IntAssumption DEF Ints
<1>2. \A a \in Int, b \in Nat : b > 0 => /\ a % b \in 0..(b - 1) /\ a \div b \in Int
                                     /\ a = b * (a \div b) + (a % b)
  OBVIOUS
<1>3. /\ m % Ints \in 0..(Ints - 1) /\ m \div Ints \in Int
      /\ m = Ints * (m \div Ints) + (m % Ints)
  BY <1>1, <1>2
<1>4. Wrap(n) = IntMin + (m % Ints)
  BY DEF Wrap, Ints
<1>5. Wrap(n) = n + (-(m \div Ints)) * Ints
  <2> DEFINE q == m \div Ints
             r == m % Ints
  <2>1. q \in Int /\ r \in Int /\ n = IntMin + Ints * q + r /\ Wrap(n) = IntMin + r
    BY <1>1, <1>3, <1>4
  <2> HIDE DEF q, r
  <2>2. Wrap(n) = n + (-q) * Ints
    BY <1>1, <2>1
  <2> QED
    BY <2>2 DEF q
<1>6. Wrap(n) \in CInt
  BY <1>1, <1>3, <1>4, IntAssumption DEF CInt, Ints
<1> QED
  BY <1>3, <1>5, <1>6

(* ... and no other int differs from n by a multiple, ...                  *)
LEMMA WrapUnique ==
  ASSUME NEW n \in Int, NEW w \in CInt, NEW k \in Int, w = n + k * Ints
  PROVE  w = Wrap(n)
<1>1. PICK j \in Int : Wrap(n) = n + j * Ints
  BY WrapShift
<1>2. Wrap(n) \in CInt /\ Ints \in Int /\ Ints > 0 /\ w \in Int /\ Wrap(n) \in Int
  BY WrapShift, IntAssumption DEF CInt, Ints
<1>3. w - Wrap(n) = (k - j) * Ints
  BY <1>1, <1>2
<1>4. w - Wrap(n) < Ints /\ Wrap(n) - w < Ints
  BY <1>2, IntAssumption DEF CInt, Ints
<1>5. \A i \in Int, a \in Int : a > 0 /\ i * a < a /\ -(i * a) < a => i = 0
  <2> SUFFICES ASSUME NEW i \in Int, NEW a \in Int, a > 0, i * a < a, -(i * a) < a
               PROVE  i = 0
    OBVIOUS
  <2>1. i >= 1 => i * a >= a
    OBVIOUS
  <2>2. i <= -1 => i * a <= -a
    OBVIOUS
  <2> QED
    BY <2>1, <2>2
<1>6. k - j = 0
  BY <1>2, <1>3, <1>4, <1>5
<1> QED
  BY <1>1, <1>2, <1>6

(* ... and is exact if it fits.                                            *)
LEMMA WrapExact == ASSUME NEW n \in CInt PROVE Wrap(n) = n
<1>1. n \in Int /\ 0 \in Int /\ n = n + 0 * Ints
  BY IntAssumption DEF CInt, Ints
<1> QED
  BY <1>1, WrapUnique

(* The order a session starts with.                                        *)
LEMMA NewCartSound == Sound(NewCart)
<1>1. 0 \in CInt
  BY IntAssumption DEF CInt
<1>2. DistanceOf[0] = 0 /\ 0 \in 0 .. MaxDistance
  BY MenuAssumption
<1> QED
  BY <1>1, <1>2, MenuAssumption DEF Sound, NewCart, Cart, OneRestaurant

(* The restaurant of a dish that is not refused is the one chosen, or none *)
(* is chosen; either way the cart stays sound.                             *)
LEMMA AddDishSound ==
  ASSUME NEW order, Sound(order), NEW d \in Dishes, NEW q \in CInt,
         ~Refused(order, d)
  PROVE  Sound(AddDish(order, d, q))
<1> DEFINE new == AddDish(order, d, q)
           r == RestaurantOf[d]
<1>1. /\ order.chosenRest \in Restaurants /\ order.totalCost \in CInt
      /\ order.cnt \in [Dishes -> CInt] /\ r \in Restaurants /\ PriceOf[d] \in Nat
  BY MenuAssumption DEF Sound, Cart
<1>2. order.chosenRest = 0 \/ r = order.chosenRest
  BY DEF Refused
<1>3. CInt \subseteq Int
  BY IntAssumption DEF CInt
<1>4. PriceOf[d] * q \in Int
  BY <1>1, <1>3
<1>5. Wrap(PriceOf[d] * q) \in CInt
  BY <1>4, WrapShift
<1>6. new.totalCost \in CInt
  <2>0. order.totalCost \in Int /\ Wrap(PriceOf[d] * q) \in Int
    BY <1>1, <1>3, <1>5
  <2>1. order.totalCost + Wrap(PriceOf[d] * q) \in Int
    BY <2>0
  <2> QED
    BY <2>1, WrapShift DEF AddDish
<1>7. new.cnt \in [Dishes -> CInt]
  <2>0. order.cnt[d] \in Int /\ q \in Int
    BY <1>1, <1>3
  <2>1. order.cnt[d] + q \in Int
    BY <2>0
  <2>2. Wrap(order.cnt[d] + q) \in CInt
    BY <2>1, WrapShift
  <2> QED
    BY <2>2, <1>1 DEF AddDish
<1>8. new \in Cart
  <2>1. DistanceOf[r] \in 0 .. MaxDistance
    BY <1>1, MenuAssumption
  <2> QED
    BY <1>1, <1>6, <1>7, <2>1 DEF AddDish, Cart
<1>9. \A e \in Dishes : new.cnt[e] # 0 => RestaurantOf[e] = r /\ RestaurantOf[e] # 0
  <2> SUFFICES ASSUME NEW e \in Dishes, new.cnt[e] # 0
               PROVE  RestaurantOf[e] = r /\ RestaurantOf[e] # 0
    OBVIOUS
  <2>1. CASE order.cnt[e] # 0
    BY <2>1, <1>2 DEF Sound, OneRestaurant
  <2>2. CASE order.cnt[e] = 0
    <3>1. r # 0 /\ e = d
      BY <2>2, <1>1 DEF AddDish
    <3> QED
      BY <3>1
  <2> QED
    BY <2>1, <2>2
<1>10. r = 0 => new.totalCost = 0
  <2> SUFFICES ASSUME r = 0
               PROVE  new.totalCost = 0
    OBVIOUS
  <2>1. order.totalCost = 0
    BY <1>2 DEF Sound
  <2>2. PriceOf[d] * q = 0
    <3>1. PriceOf[d] = 0 /\ q \in Int
      BY <1>3, MenuAssumption
    <3> QED
      BY <3>1
  <2>3. 0 \in CInt
    BY IntAssumption DEF CInt
  <2>4. Wrap(0) = 0
    BY <2>3, WrapExact
  <2> QED
    BY <2>1, <2>2, <2>4 DEF AddDish
<1> QED
  BY <1>8, <1>9, <1>10 DEF Sound, OneRestaurant, AddDish

-----------------------------------------------------------------------------
(* The inductive invariant *)

InCritical == {"quote_read", "quote_unlock", "order_select", "order_add",
               "order_store", "order_unlock"}

(* A thread is between lock and unlock exactly if it holds the mutex.      *)
LockDiscipline ==
  /\ \A c \in Clients : pc[c] \in InCritical <=> delivery_mutex = c
  /\ upc \in {"dec0", "dec1", "unlock"} <=> delivery_mutex = Updater

Carts == \A c \in Clients : Sound(cart[c])

Confirmed == {"quote_lock", "quote_read", "quote_unlock", "prompt",
              "order_lock", "order_select", "order_add", "order_store"}

Waiting == {"order_unlock", "notify", "sleep"}

(* Who has an order with a courier, and that it is an order of something.  *)
Turns ==
  \A c \in Clients :
    /\ turn[c] > 0 => pc[c] \in Waiting \cup {"closed"}
    /\ pc[c] \in Waiting => turn[c] > 0
    /\ pc[c] \in Confirmed \/ turn[c] > 0 => cart[c].chosenRest # 0
    /\ pc[c] = "closed" /\ turn[c] > 0 => wait[c] = 0

(* What order_point_to has read still holds when it writes.                *)
Choice ==
  \A c \in Clients :
    /\ pc[c] \in {"order_add", "order_store"} => selected[c] = Select(remain)
    /\ pc[c] = "order_store" =>
         wait[c] = remain[selected[c]] + cart[c].distanceWait

SInv == TypeOK /\ LockDiscipline /\ Carts /\ Turns /\ Choice

-----------------------------------------------------------------------------
(* Lemmas *)

(* order_point_to always picks one of the two couriers.                    *)
LEMMA SelectIn == ASSUME NEW r PROVE Select(r) \in Couriers
  BY DEF Select, Couriers

(* update_logic's guarded decrement never goes below zero nor up.          *)
LEMMA DecNat == ASSUME NEW n \in Nat PROVE Dec(n) \in Nat /\ Dec(n) <= n
  BY DEF Dec

(* A sound order is at most MaxDistance away, and one with a restaurant has*)
(* a distance of the shop table.                                           *)
LEMMA SoundDistance ==
  ASSUME NEW order, Sound(order)
  PROVE  /\ order.distanceWait \in Nat /\ order.distanceWait <= MaxDistance
         /\ order.chosenRest # 0 => order.distanceWait \in Distances
  BY MenuAssumption DEF Sound, Cart, OneRestaurant, Distances

(* The commands that order nothing, and the end of a session: c's thread   *)
(* moves between points where it holds neither mutex nor courier.          *)
Talks(c) ==
  /\ pc[c] \in {"accept", "recv", "prompt"}
  /\ \E to \in {"recv", "closed", "quote_lock", "order_lock"} :
       /\ pc' = [pc EXCEPT ![c] = to]
       /\ to \in {"quote_lock", "order_lock"} => cart[c].chosenRest # 0
       /\ to = "order_lock" => pc[c] = "prompt"
  /\ reply' \in [Clients -> Replies]
  /\ UNCHANGED <<up, shared, cart, quote, selected, wait, peer, history>>

(* Clients that leave and the end of the process touch nothing else.       *)
Outside ==
  /\ up' \in BOOLEAN /\ peer' \in [Clients -> {"open", "gone"}]
  /\ UNCHANGED <<shared, pc, session, history>>

(* The commands that neither order nor quote, and the ends of a session,   *)
(* are steps Talks: they touch neither the mutex nor the couriers.         *)
LEMMA TalksLemma ==
  ASSUME SInv, NEW c \in Clients,
         \/ Accept(c) \/ AcceptFails(c) \/ RecvOther(c)
         \/ \E d \in Dishes : RecvOrderRefused(c, d)
         \/ RecvConfirmEmpty(c) \/ RecvConfirm(c) \/ RecvCancel(c) \/ RecvEof(c)
         \/ PromptAccept(c) \/ PromptNo(c)
  PROVE  Talks(c)
<1> USE DEF Talks, Goto, Send, Answer, session, history, shared, Replies,
            SInv, TypeOK
<1>1. CASE Accept(c) \/ AcceptFails(c)
  BY <1>1 DEF Accept, AcceptFails
<1>2. CASE RecvOther(c)
  BY <1>2 DEF RecvOther
<1>3. CASE \E d \in Dishes : RecvOrderRefused(c, d)
  BY <1>3 DEF RecvOrderRefused
<1>4. CASE RecvConfirmEmpty(c) \/ RecvCancel(c)
  BY <1>4 DEF RecvConfirmEmpty, RecvCancel
<1>5. CASE RecvConfirm(c)
  BY <1>5 DEF RecvConfirm, Carts, Sound
<1>6. CASE RecvEof(c)
  BY <1>6 DEF RecvEof
<1>7. CASE PromptAccept(c)
  BY <1>7 DEF PromptAccept, Turns, Confirmed
<1>8. CASE PromptNo(c)
  BY <1>8 DEF PromptNo
<1> QED
  BY <1>1, <1>2, <1>3, <1>4, <1>5, <1>6, <1>7, <1>8

(* A client that leaves, SIGINT, SIGPIPE and stuttering are steps Outside. *)
LEMMA OutsideLemma ==
  ASSUME SInv,
         \/ \E c \in Clients : ClientLeaves(c) \/ WritesToClosed(c)
         \/ Interrupted \/ UNCHANGED vars
  PROVE  Outside
  BY DEF SInv, TypeOK, ClientLeaves, WritesToClosed, Interrupted, Outside, vars,
         session, history

(* Every step is one of these: the case distinction of the proofs below.   *)
LEMMA NextCases ==
  ASSUME SInv, [Next]_vars
  PROVE  \/ \E c \in Clients :
              \/ Talks(c)
              \/ \E d \in Dishes, q \in Quantities : RecvOrder(c, d, q)
              \/ QuoteLock(c) \/ QuoteRead(c) \/ QuoteUnlock(c)
              \/ OrderLock(c) \/ OrderSelect(c) \/ OrderAdd(c) \/ OrderStore(c)
              \/ OrderUnlock(c) \/ Notify(c) \/ Arrive(c)
         \/ UpdateLock \/ UpdateDec0 \/ UpdateDec1 \/ UpdateUnlock
         \/ Elapse
         \/ Outside
  BY TalksLemma, OutsideLemma DEF Next, Request, Internal, UpdateInternal

(* No thread, tick or client takes a variable out of its type: an order's  *)
(* amounts are wrapped to a C int, and counters stop at zero.              *)
LEMMA TypeStep ==
  ASSUME SInv, [Next]_vars
  PROVE  TypeOK'
<1> USE DEF SInv, TypeOK, PCs, shared, session, history, Goto
<1>1. ASSUME NEW c \in Clients, Talks(c) PROVE TypeOK'
  BY <1>1 DEF Talks
<1>2. ASSUME NEW c \in Clients, NEW d \in Dishes, NEW q \in Quantities,
          RecvOrder(c, d, q)
     PROVE  TypeOK'
  BY <1>2, AddDishSound, ServerAssumption
     DEF RecvOrder, Send, Replies, Carts, Sound
<1>3. ASSUME NEW c \in Clients, QuoteLock(c) PROVE TypeOK'
  BY <1>3 DEF QuoteLock, Lock
<1>4. ASSUME NEW c \in Clients, QuoteRead(c) PROVE TypeOK'
  BY <1>4, SelectIn, SoundDistance DEF QuoteRead, Carts
<1>5. ASSUME NEW c \in Clients, QuoteUnlock(c) PROVE TypeOK'
  BY <1>5 DEF QuoteUnlock, Unlock, Send, Replies
<1>6. ASSUME NEW c \in Clients, OrderLock(c) PROVE TypeOK'
  BY <1>6 DEF OrderLock, Lock
<1>7. ASSUME NEW c \in Clients, OrderSelect(c) PROVE TypeOK'
  BY <1>7, SelectIn DEF OrderSelect
<1>8. ASSUME NEW c \in Clients, OrderAdd(c) PROVE TypeOK'
  BY <1>8, SoundDistance DEF OrderAdd, Carts
<1>9. ASSUME NEW c \in Clients, OrderStore(c) PROVE TypeOK'
  BY <1>9 DEF OrderStore
<1>10. ASSUME NEW c \in Clients, OrderUnlock(c) PROVE TypeOK'
  BY <1>10 DEF OrderUnlock, Unlock
<1>11. ASSUME NEW c \in Clients, Notify(c) PROVE TypeOK'
  BY <1>11 DEF Notify, Send, Replies
<1>12. ASSUME NEW c \in Clients, Arrive(c) PROVE TypeOK'
  BY <1>12 DEF Arrive, Send, Replies
<1>13. ASSUME UpdateLock PROVE TypeOK'
  BY <1>13 DEF UpdateLock, Lock
<1>14. ASSUME UpdateDec0 PROVE TypeOK'
  BY <1>14, DecNat DEF UpdateDec0, Decrement, Couriers
<1>15. ASSUME UpdateDec1 PROVE TypeOK'
  BY <1>15, DecNat DEF UpdateDec1, Decrement, Couriers
<1>16. ASSUME UpdateUnlock PROVE TypeOK'
  BY <1>16 DEF UpdateUnlock, Unlock
<1>17. ASSUME Elapse PROVE TypeOK'
  BY <1>17, DecNat DEF Elapse
<1>18. ASSUME Outside PROVE TypeOK'
  BY <1>18 DEF Outside
<1> QED
  BY NextCases, <1>1, <1>2, <1>3, <1>4, <1>5, <1>6, <1>7, <1>8, <1>9,
     <1>10, <1>11, <1>12, <1>13, <1>14, <1>15, <1>16, <1>17, <1>18

(* Only a thread that finds delivery_mutex free enters a critical section, *)
(* and it is the one that unlocks when it leaves.                          *)
LEMMA LockStep ==
  ASSUME SInv, [Next]_vars
  PROVE  LockDiscipline'
<1> USE DEF SInv, TypeOK, LockDiscipline, InCritical, Updater, Free, shared,
            session, history, Goto
<1>1. ASSUME NEW c \in Clients, Talks(c) PROVE LockDiscipline'
  BY <1>1 DEF Talks
<1>2. ASSUME NEW c \in Clients, NEW d \in Dishes, NEW q \in Quantities,
          RecvOrder(c, d, q)
     PROVE  LockDiscipline'
  BY <1>2 DEF RecvOrder
<1>3. ASSUME NEW c \in Clients, QuoteLock(c) PROVE LockDiscipline'
  BY <1>3, ThreadsAssumption DEF QuoteLock, Lock
<1>4. ASSUME NEW c \in Clients, QuoteRead(c) PROVE LockDiscipline'
  BY <1>4 DEF QuoteRead
<1>5. ASSUME NEW c \in Clients, QuoteUnlock(c) PROVE LockDiscipline'
  BY <1>5, ThreadsAssumption DEF QuoteUnlock, Unlock
<1>6. ASSUME NEW c \in Clients, OrderLock(c) PROVE LockDiscipline'
  BY <1>6, ThreadsAssumption DEF OrderLock, Lock
<1>7. ASSUME NEW c \in Clients, OrderSelect(c) PROVE LockDiscipline'
  BY <1>7 DEF OrderSelect
<1>8. ASSUME NEW c \in Clients, OrderAdd(c) PROVE LockDiscipline'
  BY <1>8 DEF OrderAdd
<1>9. ASSUME NEW c \in Clients, OrderStore(c) PROVE LockDiscipline'
  BY <1>9 DEF OrderStore
<1>10. ASSUME NEW c \in Clients, OrderUnlock(c) PROVE LockDiscipline'
  BY <1>10, ThreadsAssumption DEF OrderUnlock, Unlock
<1>11. ASSUME NEW c \in Clients, Notify(c) PROVE LockDiscipline'
  BY <1>11 DEF Notify
<1>12. ASSUME NEW c \in Clients, Arrive(c) PROVE LockDiscipline'
  BY <1>12 DEF Arrive
<1>13. ASSUME UpdateLock PROVE LockDiscipline'
  BY <1>13, ThreadsAssumption DEF UpdateLock, Lock
<1>14. ASSUME UpdateDec0 PROVE LockDiscipline'
  BY <1>14 DEF UpdateDec0, Decrement
<1>15. ASSUME UpdateDec1 PROVE LockDiscipline'
  BY <1>15 DEF UpdateDec1, Decrement
<1>16. ASSUME UpdateUnlock PROVE LockDiscipline'
  BY <1>16, ThreadsAssumption DEF UpdateUnlock, Unlock
<1>17. ASSUME Elapse PROVE LockDiscipline'
  BY <1>17 DEF Elapse
<1>18. ASSUME Outside PROVE LockDiscipline'
  BY <1>18 DEF Outside
<1> QED
  BY NextCases, <1>1, <1>2, <1>3, <1>4, <1>5, <1>6, <1>7, <1>8, <1>9,
     <1>10, <1>11, <1>12, <1>13, <1>14, <1>15, <1>16, <1>17, <1>18

(* An order that is not refused keeps the cart sound; nothing else         *)
(* changes a cart.                                                         *)
LEMMA CartStep ==
  ASSUME SInv, [Next]_vars
  PROVE  Carts'
<1>1. ASSUME NEW c \in Clients, NEW d \in Dishes, NEW q \in Quantities,
             RecvOrder(c, d, q)
      PROVE  Carts'
  BY <1>1, AddDishSound, ServerAssumption DEF RecvOrder, SInv, TypeOK, Carts
<1>2. CASE UNCHANGED cart
  BY <1>2 DEF SInv, Carts
<1>3. \/ \E c \in Clients, d \in Dishes, q \in Quantities : RecvOrder(c, d, q)
      \/ UNCHANGED cart
  BY NextCases
     DEF Talks, QuoteLock, QuoteRead, QuoteUnlock, OrderLock, OrderSelect,
         OrderAdd, OrderStore, OrderUnlock, Notify, Arrive, UpdateLock,
         UpdateDec0, UpdateDec1, Decrement, UpdateUnlock, Elapse, Outside,
         session
<1> QED
  BY <1>1, <1>2, <1>3

(* Only order_store gives an order to a courier, and only a thread whose   *)
(* sleep is over ends with one.                                            *)
LEMMA TurnStep ==
  ASSUME SInv, [Next]_vars
  PROVE  Turns'
<1> USE DEF SInv, TypeOK, Turns, Confirmed, Waiting, shared, session, history,
            Goto
<1>1. ASSUME NEW c \in Clients, Talks(c) PROVE Turns'
  BY <1>1 DEF Talks
<1>2. ASSUME NEW c \in Clients, NEW d \in Dishes, NEW q \in Quantities,
          RecvOrder(c, d, q)
     PROVE  Turns'
  BY <1>2 DEF RecvOrder
<1>3. ASSUME NEW c \in Clients, QuoteLock(c) PROVE Turns'
  BY <1>3 DEF QuoteLock
<1>4. ASSUME NEW c \in Clients, QuoteRead(c) PROVE Turns'
  BY <1>4 DEF QuoteRead
<1>5. ASSUME NEW c \in Clients, QuoteUnlock(c) PROVE Turns'
  BY <1>5 DEF QuoteUnlock
<1>6. ASSUME NEW c \in Clients, OrderLock(c) PROVE Turns'
  BY <1>6 DEF OrderLock
<1>7. ASSUME NEW c \in Clients, OrderSelect(c) PROVE Turns'
  BY <1>7 DEF OrderSelect
<1>8. ASSUME NEW c \in Clients, OrderAdd(c) PROVE Turns'
  BY <1>8 DEF OrderAdd
<1>9. ASSUME NEW c \in Clients, OrderStore(c) PROVE Turns'
  BY <1>9 DEF OrderStore
<1>10. ASSUME NEW c \in Clients, OrderUnlock(c) PROVE Turns'
  BY <1>10 DEF OrderUnlock
<1>11. ASSUME NEW c \in Clients, Notify(c) PROVE Turns'
  BY <1>11 DEF Notify
<1>12. ASSUME NEW c \in Clients, Arrive(c) PROVE Turns'
  BY <1>12 DEF Arrive
<1>13. ASSUME UpdateLock PROVE Turns'
  BY <1>13 DEF UpdateLock
<1>14. ASSUME UpdateDec0 PROVE Turns'
  BY <1>14 DEF UpdateDec0, Decrement
<1>15. ASSUME UpdateDec1 PROVE Turns'
  BY <1>15 DEF UpdateDec1, Decrement
<1>16. ASSUME UpdateUnlock PROVE Turns'
  BY <1>16 DEF UpdateUnlock
<1>17. ASSUME Elapse PROVE Turns'
  BY <1>17 DEF Elapse, Dec
<1>18. ASSUME Outside PROVE Turns'
  BY <1>18 DEF Outside
<1> QED
  BY NextCases, <1>1, <1>2, <1>3, <1>4, <1>5, <1>6, <1>7, <1>8, <1>9,
     <1>10, <1>11, <1>12, <1>13, <1>14, <1>15, <1>16, <1>17, <1>18

(* While a thread is inside order_point_to nobody else writes the array, so*)
(* that its choice and its sum are up to date when they are stored.        *)
LEMMA ChoiceStep ==
  ASSUME SInv, [Next]_vars
  PROVE  Choice'
<1> USE DEF SInv, TypeOK, Choice, LockDiscipline, InCritical, shared, session,
            history, Goto
<1>1. ASSUME NEW c \in Clients, Talks(c) PROVE Choice'
  BY <1>1 DEF Talks
<1>2. ASSUME NEW c \in Clients, NEW d \in Dishes, NEW q \in Quantities,
          RecvOrder(c, d, q)
     PROVE  Choice'
  BY <1>2 DEF RecvOrder
<1>3. ASSUME NEW c \in Clients, QuoteLock(c) PROVE Choice'
  BY <1>3 DEF QuoteLock
<1>4. ASSUME NEW c \in Clients, QuoteRead(c) PROVE Choice'
  BY <1>4 DEF QuoteRead
<1>5. ASSUME NEW c \in Clients, QuoteUnlock(c) PROVE Choice'
  BY <1>5 DEF QuoteUnlock
<1>6. ASSUME NEW c \in Clients, OrderLock(c) PROVE Choice'
  BY <1>6 DEF OrderLock
<1>7. ASSUME NEW c \in Clients, OrderSelect(c) PROVE Choice'
  BY <1>7, SelectIn DEF OrderSelect
<1>8. ASSUME NEW c \in Clients, OrderAdd(c) PROVE Choice'
  BY <1>8 DEF OrderAdd
<1>9. ASSUME NEW c \in Clients, OrderStore(c) PROVE Choice'
  BY <1>9, ThreadsAssumption DEF OrderStore
<1>10. ASSUME NEW c \in Clients, OrderUnlock(c) PROVE Choice'
  BY <1>10 DEF OrderUnlock
<1>11. ASSUME NEW c \in Clients, Notify(c) PROVE Choice'
  BY <1>11 DEF Notify
<1>12. ASSUME NEW c \in Clients, Arrive(c) PROVE Choice'
  BY <1>12 DEF Arrive
<1>13. ASSUME UpdateLock PROVE Choice'
  BY <1>13 DEF UpdateLock
<1>14. ASSUME UpdateDec0 PROVE Choice'
  BY <1>14, ThreadsAssumption DEF UpdateDec0, Decrement
<1>15. ASSUME UpdateDec1 PROVE Choice'
  BY <1>15, ThreadsAssumption DEF UpdateDec1, Decrement
<1>16. ASSUME UpdateUnlock PROVE Choice'
  BY <1>16 DEF UpdateUnlock
<1>17. ASSUME Elapse PROVE Choice'
  BY <1>17 DEF Elapse
<1>18. ASSUME Outside PROVE Choice'
  BY <1>18 DEF Outside
<1> QED
  BY NextCases, <1>1, <1>2, <1>3, <1>4, <1>5, <1>6, <1>7, <1>8, <1>9,
     <1>10, <1>11, <1>12, <1>13, <1>14, <1>15, <1>16, <1>17, <1>18

(* The initial state, that main leaves behind before the first accept.     *)
LEMMA InitInv == Init => SInv
<1> SUFFICES ASSUME Init
             PROVE  SInv
  OBVIOUS
<1> USE DEF Init
<1>1. Carts
  BY NewCartSound DEF Carts
<1>2. TypeOK
  BY <1>1 DEF TypeOK, Carts, Sound, Couriers, PCs, Replies
<1>3. LockDiscipline
  BY ThreadsAssumption DEF LockDiscipline, InCritical, Updater, Free
<1>4. Turns /\ Choice
  BY DEF Turns, Choice, Confirmed, Waiting
<1> QED
  BY <1>1, <1>2, <1>3, <1>4 DEF SInv

(* The inductive invariant of the server, whatever the interleaving of     *)
(* clients, commands, ticks, seconds and faults.                           *)
THEOREM ServerInvariant == Spec => []SInv
<1>1. Init => SInv
  BY InitInv
<1>2. SInv /\ [Next]_vars => SInv'
  BY TypeStep, LockStep, CartStep, TurnStep, ChoiceStep DEF SInv
<1> QED
  BY <1>1, <1>2, PTL DEF Spec

(* The variables of the server keep their types: no courier's time and no  *)
(* sleep becomes negative, for any number of clients.                      *)
THEOREM ServerTypeOK == Spec => []TypeOK
<1>1. SInv => TypeOK
  BY DEF SInv
<1> QED
  BY <1>1, ServerInvariant, PTL

(* Mutual exclusion: order_point_to, the reading of a quote and update_logic*)
(* hold delivery_mutex when they touch delivery_persons, and never together.*)
THEOREM ServerMutex == Spec => []LockDiscipline
<1>1. SInv => LockDiscipline
  BY DEF SInv
<1> QED
  BY <1>1, ServerInvariant, PTL

(* No sequence of order commands mixes dishes of two restaurants in a cart *)
(* or gives it another restaurant's distance.                              *)
THEOREM ServerCarts == Spec => []CartsOneRestaurant
<1>1. SInv => CartsOneRestaurant
  BY DEF SInv, Carts, Sound, CartsOneRestaurant
<1> QED
  BY <1>1, ServerInvariant, PTL

-----------------------------------------------------------------------------
(* How stale a quote can be *)

Quoted == {"quote_unlock", "prompt", "order_lock", "order_select", "order_add",
           "order_store"}

(* What an order would have to wait if it were assigned now.               *)
Ahead(c) == remain[Select(remain)] + cart[c].distanceWait

(* The most that n orders can add to a wait.                               *)
Trips(n) == MaxDistance * n

(* QuoteHolds is about the assigned orders only.  Before its assignment an *)
(* order's quote must already bound what it would have to wait now.        *)
Quotes ==
  \A c \in Clients :
    /\ quotedAt[c] <= tickets
    /\ pc[c] \in Quoted => Ahead(c) <= quote[c] + Trips(tickets - quotedAt[c])
    /\ turn[c] > 0 =>
         /\ quotedAt[c] < turn[c]
         /\ wait[c] <= quote[c] + Trips(turn[c] - 1 - quotedAt[c])

(* Multiplication by one more: what an overtaking order adds to Trips.     *)
LEMMA TripsNat ==
  ASSUME NEW n \in Nat
  PROVE  /\ Trips(n) \in Nat /\ Trips(0) = 0
         /\ Trips(n + 1) = Trips(n) + MaxDistance
  BY MenuAssumption, SMT DEF Trips

(* The courier with less work has at most what it had, and the new trip.   *)
LEMMA LeastAfterOrder ==
  ASSUME NEW r \in [Couriers -> Nat], NEW d \in Nat,
         NEW r1, r1 = [r EXCEPT ![Select(r)] = r[Select(r)] + d]
  PROVE  r1[Select(r1)] <= r[Select(r)] + d
  BY DEF Select, Couriers

(* A second of work less never makes the least loaded courier busier.      *)
LEMMA LeastAfterDecrement ==
  ASSUME NEW r \in [Couriers -> Nat], NEW k \in Couriers,
         NEW r1, r1 = [r EXCEPT ![k] = Dec(r[k])]
  PROVE  r1[Select(r1)] <= r[Select(r)]
  BY DEF Select, Couriers, Dec

(* While counters only count down, the quotes that hold keep holding.      *)
LEMMA LessAhead ==
  ASSUME SInv, Quotes, TypeOK',
         remain'[Select(remain')] <= remain[Select(remain)],
         \A c \in Clients : wait'[c] <= wait[c],
         UNCHANGED <<pc, cart, quote, history>>
  PROVE  Quotes'
<1>1. remain[Select(remain)] \in Nat /\ remain'[Select(remain')] \in Nat
  BY SelectIn DEF SInv, TypeOK
<1>2. ASSUME NEW c \in Clients, pc[c] \in Quoted,
             Ahead(c) <= quote[c] + Trips(tickets - quotedAt[c])
      PROVE  Ahead(c)' <= quote[c] + Trips(tickets - quotedAt[c])
  <2>1. Trips(tickets - quotedAt[c]) \in Nat /\ quote[c] \in Nat
    BY TripsNat DEF Quotes, SInv, TypeOK
  <2>2. cart[c].distanceWait \in Nat /\ cart'[c] = cart[c]
    BY SoundDistance DEF SInv, Carts
  <2> QED
    BY <1>1, <1>2, <2>1, <2>2 DEF Ahead
<1>3. ASSUME NEW c \in Clients, turn[c] > 0,
             wait[c] <= quote[c] + Trips(turn[c] - 1 - quotedAt[c])
      PROVE  wait'[c] <= quote[c] + Trips(turn[c] - 1 - quotedAt[c])
  <2>1. turn[c] - 1 - quotedAt[c] \in Nat
    BY <1>3 DEF Quotes, SInv, TypeOK
  <2>2. Trips(turn[c] - 1 - quotedAt[c]) \in Nat
    BY <2>1, TripsNat
  <2> QED
    BY <1>3, <2>2 DEF SInv, TypeOK
<1> QED
  BY <1>2, <1>3 DEF Quotes, history

(* Every step keeps Quotes: another order adds at most one trip to the less*)
(* loaded courier and counts as an overtaking; ticks only shorten the wait.*)
LEMMA QuoteStep ==
  ASSUME SInv, Quotes, [Next]_vars
  PROVE  Quotes'
<1> USE DEF SInv, TypeOK, Quotes, Quoted, Ahead, Turns, Confirmed, Waiting,
            shared, session, history, Goto
<1>1. ASSUME NEW c \in Clients, Talks(c) PROVE Quotes'
  BY <1>1 DEF Talks
<1>2. ASSUME NEW c \in Clients, NEW d \in Dishes, NEW q \in Quantities,
          RecvOrder(c, d, q)
     PROVE  Quotes'
  BY <1>2 DEF RecvOrder
<1>3. ASSUME NEW c \in Clients, QuoteLock(c) PROVE Quotes'
  BY <1>3 DEF QuoteLock
<1>4. ASSUME NEW c \in Clients, QuoteRead(c) PROVE Quotes'
  <2>1. Ahead(c)' <= quote'[c] + Trips(tickets' - quotedAt'[c])
    <3>1. quotedAt'[c] = tickets' /\ tickets' - quotedAt'[c] = 0
      BY <1>4 DEF QuoteRead
    <3>2. Ahead(c)' = quote'[c] /\ quote'[c] \in Nat
      BY <1>4, SelectIn, SoundDistance DEF QuoteRead, Carts
    <3> HIDE DEF Ahead
    <3> QED
      BY <3>1, <3>2, TripsNat
  <2>2. \A b \in Clients \ {c} :
          quote'[b] = quote[b] /\ quotedAt'[b] = quotedAt[b]
    BY <1>4 DEF QuoteRead
  <2> QED
    BY <1>4, <2>1, <2>2 DEF QuoteRead
<1>5. ASSUME NEW c \in Clients, QuoteUnlock(c) PROVE Quotes'
  BY <1>5 DEF QuoteUnlock
<1>6. ASSUME NEW c \in Clients, OrderLock(c) PROVE Quotes'
  BY <1>6 DEF OrderLock
<1>7. ASSUME NEW c \in Clients, OrderSelect(c) PROVE Quotes'
  BY <1>7 DEF OrderSelect
<1>8. ASSUME NEW c \in Clients, OrderAdd(c) PROVE Quotes'
  BY <1>8 DEF OrderAdd
<1>9. ASSUME NEW c \in Clients, OrderStore(c) PROVE Quotes'
  <2> USE <1>9 DEF OrderStore
  <2>1. /\ wait[c] = Ahead(c)
        /\ remain' = [remain EXCEPT ![Select(remain)]
                               = remain[Select(remain)] + cart[c].distanceWait]
    BY SelectIn DEF Choice
  <2>2. cart[c].distanceWait \in Nat /\ cart[c].distanceWait <= MaxDistance
    BY SoundDistance DEF Carts
  <2>3. remain'[Select(remain')] <= remain[Select(remain)] + MaxDistance
    <3>1. remain'[Select(remain')]
            <= remain[Select(remain)] + cart[c].distanceWait
      BY <2>1, <2>2, LeastAfterOrder
    <3> QED
      BY <3>1, <2>2, SelectIn, MenuAssumption
  <2>4. ASSUME NEW b \in Clients, b # c, pc'[b] \in Quoted
        PROVE  Ahead(b)' <= quote'[b] + Trips(tickets' - quotedAt'[b])
    <3>1. Ahead(b) <= quote[b] + Trips(tickets - quotedAt[b])
      BY <2>4
    <3>2. /\ tickets - quotedAt[b] \in Nat
          /\ tickets' - quotedAt'[b] = tickets - quotedAt[b] + 1
      OBVIOUS
    <3>3. Trips(tickets' - quotedAt'[b])
            = Trips(tickets - quotedAt[b]) + MaxDistance
      BY <3>2, TripsNat
    <3>4. Trips(tickets - quotedAt[b]) \in Nat /\ MaxDistance \in Nat
      BY <3>2, TripsNat, MenuAssumption
    <3>5. remain[Select(remain)] \in Nat /\ remain'[Select(remain')] \in Nat
      BY SelectIn, TypeStep DEF Couriers
    <3>6. /\ quote'[b] = quote[b] /\ cart'[b] = cart[b]
          /\ cart[b].distanceWait \in Nat
      BY SoundDistance DEF Carts
    <3> QED
      BY ONLY <2>3, <2>4, <3>1, <3>3, <3>4, <3>5, <3>6,
              quote \in [Clients -> Nat]
         DEF Ahead
  <2>5. /\ turn'[c] = tickets' /\ quotedAt'[c] < turn'[c]
        /\ turn'[c] - 1 - quotedAt'[c] = tickets - quotedAt[c]
    OBVIOUS
  <2>6. wait'[c] <= quote'[c] + Trips(turn'[c] - 1 - quotedAt'[c])
    BY <2>1, <2>5
  <2>7. \A b \in Clients \ {c} : turn'[b] = turn[b] /\ pc'[b] = pc[b]
    OBVIOUS
  <2> QED
    <3> HIDE DEF Ahead
    <3> QED
      BY <2>4, <2>5, <2>6, <2>7
<1>10. ASSUME NEW c \in Clients, OrderUnlock(c) PROVE Quotes'
  BY <1>10 DEF OrderUnlock
<1>11. ASSUME NEW c \in Clients, Notify(c) PROVE Quotes'
  BY <1>11 DEF Notify
<1>12. ASSUME NEW c \in Clients, Arrive(c) PROVE Quotes'
  BY <1>12 DEF Arrive
<1>13. ASSUME UpdateLock PROVE Quotes'
  BY <1>13 DEF UpdateLock
<1>14. ASSUME UpdateDec0 PROVE Quotes'
  <2>1. remain'[Select(remain')] <= remain[Select(remain)]
    BY <1>14, LeastAfterDecrement DEF UpdateDec0, Decrement, Couriers
  <2> QED
    <3>1. /\ UNCHANGED <<pc, cart, quote, history>>
          /\ \A c \in Clients : wait'[c] <= wait[c]
      BY <1>14 DEF UpdateDec0, Decrement
    <3> HIDE DEF SInv, TypeOK, Quotes
    <3> QED
      BY <2>1, <3>1, LessAhead, TypeStep
<1>15. ASSUME UpdateDec1 PROVE Quotes'
  <2>1. remain'[Select(remain')] <= remain[Select(remain)]
    BY <1>15, LeastAfterDecrement DEF UpdateDec1, Decrement, Couriers
  <2> QED
    <3>1. /\ UNCHANGED <<pc, cart, quote, history>>
          /\ \A c \in Clients : wait'[c] <= wait[c]
      BY <1>15 DEF UpdateDec1, Decrement
    <3> HIDE DEF SInv, TypeOK, Quotes
    <3> QED
      BY <2>1, <3>1, LessAhead, TypeStep
<1>16. ASSUME UpdateUnlock PROVE Quotes'
  BY <1>16 DEF UpdateUnlock
<1>17. ASSUME Elapse PROVE Quotes'
  <2>1. \A c \in Clients : wait'[c] <= wait[c] /\ wait'[c] \in Nat
    BY <1>17, DecNat DEF Elapse
  <2> QED
    <3>1. /\ UNCHANGED <<pc, cart, quote, history>>
          /\ remain'[Select(remain')] <= remain[Select(remain)]
      BY <1>17, SelectIn DEF Elapse
    <3> HIDE DEF SInv, TypeOK, Quotes
    <3> QED
      BY <2>1, <3>1, LessAhead, TypeStep
<1>18. ASSUME Outside PROVE Quotes'
  BY <1>18 DEF Outside
<1> QED
  BY NextCases, <1>1, <1>2, <1>3, <1>4, <1>5, <1>6, <1>7, <1>8, <1>9,
     <1>10, <1>11, <1>12, <1>13, <1>14, <1>15, <1>16, <1>17, <1>18

(* What a client is quoted before the prompt is wrong by no more than a    *)
(* trip of MaxDistance for each order assigned in between, for any number of*)
(* clients and however long the client thinks about it.                    *)
THEOREM ServerQuoteHolds == Spec => []QuoteHolds
<1>1. Init => Quotes
  BY DEF Init, Quotes, Quoted
<1>2. SInv /\ Quotes /\ [Next]_vars => Quotes'
  BY QuoteStep
<1>3. Quotes => QuoteHolds
  BY DEF Quotes, QuoteHolds, Overtaking, Trips
<1> QED
  BY <1>1, <1>2, <1>3, ServerInvariant, PTL DEF Spec

-----------------------------------------------------------------------------
(* Sums *)

(* Nothing of which there is always a smaller one exists.                  *)
LEMMA Descent ==
  ASSUME NEW T, T \subseteq Nat, \A n \in T : \E m \in T : m < n
  PROVE  T = {}
<1> DEFINE R == OpToRel(<, Nat)
<1>1. IsWellFoundedOn(R, Nat)
  BY NatLessThanWellFounded
<1>2. \A x, y \in Nat : y < x => <<y, x>> \in R
  BY DEF OpToRel
<1> HIDE DEF R
<1>3. T # {} => \E x \in T : \A y \in T : ~ (<<y, x>> \in R)
  BY <1>1, WFMin
<1> QED
  BY <1>2, <1>3

(* The same of subsets of a finite set and their sizes.                    *)
LEMMA SizeDescent ==
  ASSUME NEW D, IsFiniteSet(D), NEW T, T \subseteq SUBSET D,
         \A s \in T : \E t \in T : Cardinality(t) < Cardinality(s)
  PROVE  T = {}
<1> DEFINE N == {Cardinality(s) : s \in T}
<1>1. \A s \in T : Cardinality(s) \in Nat
  BY FS_Subset, FS_CardinalityType
<1>2. N \subseteq Nat /\ \A n \in N : \E m \in N : m < n
  BY <1>1
<1> HIDE DEF N
<1>3. N = {}
  BY <1>2, Descent
<1> QED
  BY <1>3 DEF N

(* What a sum takes next of a set.                                         *)
Pick(s) == CHOOSE x \in s : TRUE

(* g is the sum of f over each part of its domain.                         *)
Adds(f, g) ==
  g = [s \in SUBSET (DOMAIN f) |-> IF s = {} THEN 0 ELSE f[Pick(s)] + g[s \ {Pick(s)}]]

(* SumFunction is the value of such a g on the whole domain, ...           *)
LEMMA SumIs == ASSUME NEW f PROVE SumFunction(f) = (CHOOSE g : Adds(f, g))[DOMAIN f]
  BY Zenon DEF SumFunction, SumFunctionOnSet, FoldFunctionOnSet, MapThenFoldSet, Adds, Pick

LEMMA PickIn == ASSUME NEW s, s # {} PROVE Pick(s) \in s
  BY DEF Pick

(* Without the element that is taken next a set is smaller by one.         *)
LEMMA PickSmaller ==
  ASSUME NEW D, IsFiniteSet(D), NEW s \in SUBSET D, s # {}
  PROVE  /\ s \ {Pick(s)} \in SUBSET D
         /\ Cardinality(s) \in Nat /\ Cardinality(s \ {Pick(s)}) \in Nat
         /\ Cardinality(s \ {Pick(s)}) = Cardinality(s) - 1
<1>1. Pick(s) \in s /\ IsFiniteSet(s) /\ Cardinality(s) \in Nat
  BY PickIn, FS_Subset, FS_CardinalityType
<1> QED
  BY <1>1, FS_RemoveElement, FS_CardinalityType

(* ... which exists: it is built up from the sets of at most n elements.   *)
LEMMA AddsExists ==
  ASSUME NEW D, IsFiniteSet(D), NEW f \in [D -> Int]
  PROVE  \E g : Adds(f, g)
<1> DEFINE Subs(n) == {s \in SUBSET D : Cardinality(s) <= n}
           Sums(g, s) == IF s = {} THEN 0 ELSE f[Pick(s)] + g[s \ {Pick(s)}]
           Ok(n) == \E g : g = [s \in Subs(n) |-> Sums(g, s)]
           T == {n \in Nat : ~Ok(n)}
<1>1. Cardinality({}) = 0 /\ \A s \in SUBSET D : Cardinality(s) \in Nat /\ (Cardinality(s) = 0 <=> s = {})
  BY FS_EmptySet, FS_Subset, FS_CardinalityType
<1>2. Ok(0)
  <2> DEFINE g == [s \in Subs(0) |-> 0]
  <2>1. \A s \in Subs(0) : s = {}
    BY <1>1
  <2>2. g = [s \in Subs(0) |-> Sums(g, s)]
    BY <2>1
  <2> QED
    BY <2>2
<1>3. ASSUME NEW n \in Nat, Ok(n) PROVE Ok(n + 1)
  <2>1. PICK g : g = [s \in Subs(n) |-> Sums(g, s)]
    BY <1>3
  <2> DEFINE h == [s \in Subs(n + 1) |-> Sums(g, s)]
  <2>2. \A s \in Subs(n + 1) : s # {} => s \ {Pick(s)} \in Subs(n)
    BY PickSmaller
  <2>3. \A s \in Subs(n) : s \in Subs(n + 1) /\ h[s] = g[s]
    <3>1. \A s \in Subs(n) : s \in Subs(n + 1)
      BY <1>1
    <3>2. \A s \in Subs(n) : g[s] = Sums(g, s)
      <4> HIDE DEF Sums, Subs
      <4> QED
        BY <2>1
    <3> HIDE DEF Sums, Subs
    <3> QED
      BY <3>1, <3>2
  <2>4. \A s \in Subs(n + 1) : Sums(h, s) = Sums(g, s)
    <3> HIDE DEF h, Subs
    <3> QED
      BY <2>2, <2>3
  <2>5. h = [s \in Subs(n + 1) |-> Sums(h, s)]
    <3> HIDE DEF Sums, Subs
    <3> QED
      BY <2>4
  <2> QED
    BY <2>5
<1>4. \A n \in T : n # 0 /\ n - 1 \in T
  <2> SUFFICES ASSUME NEW n \in T PROVE n # 0 /\ n - 1 \in T
    OBVIOUS
  <2>1. n \in Nat /\ ~Ok(n) /\ n # 0
    BY <1>2
  <2>2. n - 1 \in Nat /\ (n - 1) + 1 = n
    BY <2>1
  <2> HIDE DEF Ok
  <2>3. ~Ok(n - 1)
    BY <1>3, <2>1, <2>2
  <2> QED
    BY <2>1, <2>2, <2>3
<1> HIDE DEF Ok
<1>5. T = {}
  <2>1. \A n \in T : n - 1 \in T /\ n - 1 < n
    BY <1>4
  <2>2. T \subseteq Nat
    OBVIOUS
  <2> HIDE DEF T
  <2> QED
    BY <2>1, <2>2, Descent
<1>6. Cardinality(D) \in Nat /\ Ok(Cardinality(D))
  BY <1>5, FS_CardinalityType
<1>7. Subs(Cardinality(D)) = SUBSET D
  BY FS_Subset
<1>8. DOMAIN f = D
  OBVIOUS
<1> QED
  BY <1>6, <1>7, <1>8 DEF Ok, Adds

(* What g is for the empty set, for another set, and of which type.        *)
LEMMA AddsValue ==
  ASSUME NEW D, IsFiniteSet(D), NEW f \in [D -> Int], NEW g, Adds(f, g)
  PROVE  /\ g[{}] = 0
         /\ \A s \in SUBSET D : s # {} => g[s] = f[Pick(s)] + g[s \ {Pick(s)}]
         /\ \A s \in SUBSET D : g[s] \in Int
<1>0. DOMAIN f = D
  OBVIOUS
<1>1. \A s \in SUBSET D : g[s] = IF s = {} THEN 0 ELSE f[Pick(s)] + g[s \ {Pick(s)}]
  BY <1>0 DEF Adds
<1> DEFINE T == {s \in SUBSET D : g[s] \notin Int}
<1>2. ASSUME NEW s \in T PROVE \E t \in T : Cardinality(t) < Cardinality(s)
  <2>1. s \in SUBSET D /\ g[s] \notin Int /\ s # {}
    BY <1>1
  <2>2. Pick(s) \in D /\ f[Pick(s)] \in Int
    BY <2>1, PickIn
  <2>3. g[s \ {Pick(s)}] \notin Int
    <3>1. g[s] = f[Pick(s)] + g[s \ {Pick(s)}]
      BY <1>1, <2>1
    <3>2. \A a, b \in Int : a + b \in Int
      OBVIOUS
    <3> QED
      BY <2>1, <2>2, <3>1, <3>2
  <2>4. s \ {Pick(s)} \in T
    BY <2>1, <2>3
  <2> QED
    BY <2>1, <2>4, PickSmaller
<1>3. T = {}
  <2> HIDE DEF T
  <2>1. T \subseteq SUBSET D
    BY DEF T
  <2> QED
    BY <1>2, <2>1, SizeDescent
<1> QED
  BY <1>1, <1>3

(* Sums of ints over a finite set ...                                      *)
LEMMA SumAdds ==
  ASSUME NEW D, IsFiniteSet(D), NEW f \in [D -> Int]
  PROVE  \E g : Adds(f, g) /\ SumFunction(f) = g[D]
<1>1. Adds(f, CHOOSE g : Adds(f, g))
  BY AddsExists
<1>2. DOMAIN f = D
  OBVIOUS
<1> QED
  BY <1>1, <1>2, SumIs

(* ... are ints, ...                                                       *)
LEMMA SumInt ==
  ASSUME NEW D, IsFiniteSet(D), NEW f \in [D -> Int]
  PROVE  SumFunction(f) \in Int
BY SumAdds, AddsValue

(* ... are 0 if nothing is added up, ...                                   *)
LEMMA SumZero ==
  ASSUME NEW D, IsFiniteSet(D)
  PROVE  SumFunction([d \in D |-> 0]) = 0
<1> DEFINE f == [d \in D |-> 0]
<1>0. f \in [D -> Int] /\ \A d \in D : f[d] = 0
  OBVIOUS
<1> HIDE DEF f
<1>1. PICK g : Adds(f, g) /\ SumFunction(f) = g[D]
  BY <1>0, SumAdds
<1>2. /\ g[{}] = 0 /\ \A s \in SUBSET D : g[s] \in Int
      /\ \A s \in SUBSET D : s # {} => g[s] = f[Pick(s)] + g[s \ {Pick(s)}]
  <2>1. f \in [D -> Int]
    BY <1>0
  <2> QED
    BY <1>1, <2>1, AddsValue
<1> DEFINE T == {s \in SUBSET D : g[s] # 0}
<1>3. ASSUME NEW s \in T PROVE \E t \in T : Cardinality(t) < Cardinality(s)
  <2>1. s \in SUBSET D /\ g[s] # 0 /\ s # {}
    BY <1>2
  <2>2. f[Pick(s)] = 0 /\ s \ {Pick(s)} \in SUBSET D
    BY <1>0, <2>1, PickIn
  <2>3. s \ {Pick(s)} \in T
    <3>1. g[s] = 0 + g[s \ {Pick(s)}] /\ g[s \ {Pick(s)}] \in Int
      BY <1>2, <2>1, <2>2
    <3>2. \A a \in Int : 0 + a = a
      OBVIOUS
    <3> QED
      BY <2>1, <2>2, <3>1, <3>2
  <2> QED
    BY <2>1, <2>3, PickSmaller
<1>4. T = {}
  <2> HIDE DEF T
  <2>1. T \subseteq SUBSET D
    BY DEF T
  <2> QED
    BY <1>3, <2>1, SizeDescent
<1> QED
  BY <1>1, <1>4 DEF f

(* ... and change by as much as the one number that changes.               *)
LEMMA SumChanged ==
  ASSUME NEW D, IsFiniteSet(D), NEW f \in [D -> Int], NEW h \in [D -> Int],
         NEW d \in D, \A e \in D \ {d} : h[e] = f[e]
  PROVE  SumFunction(h) = SumFunction(f) + (h[d] - f[d])
<1>1. PICK g : Adds(f, g) /\ SumFunction(f) = g[D]
  BY SumAdds
<1>2. PICK k : Adds(h, k) /\ SumFunction(h) = k[D]
  BY SumAdds
<1>3. /\ g[{}] = 0 /\ \A s \in SUBSET D : g[s] \in Int
      /\ \A s \in SUBSET D : s # {} => g[s] = f[Pick(s)] + g[s \ {Pick(s)}]
  BY <1>1, AddsValue
<1>4. /\ k[{}] = 0 /\ \A s \in SUBSET D : k[s] \in Int
      /\ \A s \in SUBSET D : s # {} => k[s] = h[Pick(s)] + k[s \ {Pick(s)}]
  BY <1>2, AddsValue
<1> DEFINE More(s) == IF d \in s THEN h[d] - f[d] ELSE 0
           T == {s \in SUBSET D : k[s] # g[s] + More(s)}
<1>5. ASSUME NEW s \in T PROVE \E t \in T : Cardinality(t) < Cardinality(s)
  <2> DEFINE x == Pick(s)
             t == s \ {x}
  <2>1. s \in SUBSET D /\ k[s] # g[s] + More(s) /\ s # {}
    <3>1. k[{}] = g[{}] + More({})
      BY <1>3, <1>4
    <3> HIDE DEF More
    <3> QED
      BY <3>1
  <2>2. x \in s /\ x \in D /\ t \in SUBSET D
    BY <2>1, PickIn
  <2>3. g[s] = f[x] + g[t] /\ k[s] = h[x] + k[t]
    BY <1>3, <1>4, <2>1
  <2>4. /\ f[x] \in Int /\ h[x] \in Int /\ f[d] \in Int /\ h[d] \in Int
        /\ g[t] \in Int /\ k[t] \in Int
    BY <1>3, <1>4, <2>2
  <2>5. More(s) = More(t) + (h[x] - f[x])
    <3>1. CASE x = d
      BY <2>2, <2>4, <3>1
    <3>2. CASE x # d
      BY <2>2, <2>4, <3>2
    <3> QED
      BY <3>1, <3>2
  <2>6. More(t) \in Int
    BY <2>4
  <2>7. k[t] # g[t] + More(t)
    <3> HIDE DEF More, t, x
    <3> QED
      BY <2>1, <2>3, <2>4, <2>5, <2>6
  <2>8. t \in T
    BY <2>2, <2>7
  <2> QED
    BY <2>1, <2>8, PickSmaller
<1>6. T = {}
  <2> HIDE DEF T
  <2>1. T \subseteq SUBSET D
    BY DEF T
  <2> QED
    BY <1>5, <2>1, SizeDescent
<1> QED
  BY <1>1, <1>2, <1>6

-----------------------------------------------------------------------------
(* What an order costs *)

(* An accepted "order d q" adds what it costs, whatever wraps around: the  *)
(* counter, the product, and the amount.                                   *)
LEMMA AddDishCharged ==
  ASSUME NEW order \in Cart, Charged(order), NEW d \in Dishes, NEW q \in CInt
  PROVE  Charged(AddDish(order, d, q))
<1> DEFINE new == AddDish(order, d, q)
           p == PriceOf[d]
           f == [e \in Dishes |-> PriceOf[e] * order.cnt[e]]
           h == [e \in Dishes |-> PriceOf[e] * new.cnt[e]]
<1>1. /\ IsFiniteSet(Dishes) /\ \A e \in Dishes : PriceOf[e] \in Int /\ order.cnt[e] \in Int
      /\ order.cnt \in [Dishes -> CInt] /\ q \in Int /\ p \in Int /\ Ints \in Int
      /\ order.totalCost \in Int
  BY MenuAssumption, IntAssumption DEF Cart, CInt, Ints
<1>2. \A a, b \in Int : a * b \in Int
  OBVIOUS
<1>3. f \in [Dishes -> Int]
  BY <1>1, <1>2
<1>4. \E i \in Int :
        /\ new.cnt \in [Dishes -> Int]
        /\ \A e \in Dishes \ {d} : new.cnt[e] = order.cnt[e]
        /\ p * new.cnt[d] = p * order.cnt[d] + p * q + i * Ints
  <2>1. CASE RestaurantOf[d] = 0
    <3>1. p = 0 /\ new.cnt = order.cnt
      BY <2>1, MenuAssumption DEF AddDish
    <3>2. p * new.cnt[d] = p * order.cnt[d] + p * q + 0 * Ints
      BY <1>1, <3>1
    <3>3. new.cnt \in [Dishes -> Int]
      BY <1>1, <3>1
    <3> QED
      BY <3>1, <3>2, <3>3
  <2>2. CASE RestaurantOf[d] # 0
    <3>1. order.cnt[d] + q \in Int
      BY <1>1
    <3>2. PICK k \in Int : Wrap(order.cnt[d] + q) = order.cnt[d] + q + k * Ints
      BY <3>1, WrapShift
    <3>3. new.cnt = [order.cnt EXCEPT ![d] = Wrap(order.cnt[d] + q)]
      BY <2>2 DEF AddDish
    <3>4. k * Ints \in Int /\ p * k \in Int
      BY <1>1, <1>2
    <3>5. Wrap(order.cnt[d] + q) \in Int
      BY <1>1, <3>1, <3>2, <3>4
    <3>6. /\ new.cnt \in [Dishes -> Int] /\ new.cnt[d] = order.cnt[d] + q + k * Ints
          /\ \A e \in Dishes \ {d} : new.cnt[e] = order.cnt[e]
      BY <1>1, <3>2, <3>3, <3>5
    <3>7. \A a, b, c, e, i \in Int : a * (b + c + i * e) = a * b + a * c + (a * i) * e
      OBVIOUS
    <3>8. p * new.cnt[d] = p * order.cnt[d] + p * q + (p * k) * Ints
      BY <1>1, <3>6, <3>7
    <3> QED
      BY <3>4, <3>6, <3>8
  <2> QED
    BY <2>1, <2>2
<1>5. PICK i \in Int :
        /\ new.cnt \in [Dishes -> Int]
        /\ \A e \in Dishes \ {d} : new.cnt[e] = order.cnt[e]
        /\ p * new.cnt[d] = p * order.cnt[d] + p * q + i * Ints
  BY <1>4
<1>6. h \in [Dishes -> Int] /\ \A e \in Dishes \ {d} : h[e] = f[e]
  BY <1>1, <1>2, <1>5
<1>7. h[d] = f[d] + p * q + i * Ints
  BY <1>5
<1>8. /\ Bill(order.cnt) = SumFunction(f) /\ Bill(new.cnt) = SumFunction(h)
      /\ SumFunction(f) \in Int /\ SumFunction(h) = SumFunction(f) + (h[d] - f[d])
  BY <1>1, <1>3, <1>6, SumInt, SumChanged DEF Bill
<1> HIDE DEF f, h, p
<1>9. p * q \in Int /\ i * Ints \in Int /\ f[d] \in Int
  BY <1>1, <1>2, <1>3
<1>10. /\ Bill(order.cnt) \in Int
       /\ Bill(new.cnt) = Bill(order.cnt) + p * q + i * Ints
  BY <1>7, <1>8, <1>9
<1>11. PICK k1 \in Int : order.totalCost = Bill(order.cnt) + k1 * Ints
  BY <1>10, WrapShift DEF Charged
<1>12. PICK k2 \in Int : Wrap(p * q) = p * q + k2 * Ints
  BY <1>9, WrapShift
<1>13. k1 * Ints \in Int /\ k2 * Ints \in Int
  BY <1>1, <1>2
<1>14. order.totalCost + Wrap(p * q) \in Int
  BY <1>1, <1>9, <1>12, <1>13
<1>15. PICK k3 \in Int : Wrap(order.totalCost + Wrap(p * q)) = order.totalCost + Wrap(p * q) + k3 * Ints
  BY <1>14, WrapShift
<1>16. new.totalCost = Wrap(order.totalCost + Wrap(p * q)) /\ new.totalCost \in CInt
  BY <1>14, WrapShift DEF AddDish, p
<1>17. new.totalCost = Bill(new.cnt) + (k1 + k2 + k3 - i) * Ints
  <2>1. \A b, pq, a1, a2, a3, a4, m \in Int :
          ((b + a1 * m) + (pq + a2 * m)) + a3 * m = (b + pq + a4 * m) + (a1 + a2 + a3 - a4) * m
    OBVIOUS
  <2> HIDE DEF new
  <2> QED
    BY <1>1, <1>9, <1>10, <1>11, <1>12, <1>15, <1>16, <2>1
<1>18. Bill(new.cnt) \in Int
  BY <1>9, <1>10
<1>19. k1 + k2 + k3 - i \in Int
  OBVIOUS
<1> HIDE DEF new
<1>20. new.totalCost = Wrap(Bill(new.cnt))
  BY <1>16, <1>17, <1>18, <1>19, WrapUnique
<1> QED
  BY <1>20 DEF Charged, new

(* A session starts with nothing to pay for nothing.                       *)
LEMMA NewCartCharged == Charged(NewCart)
<1>1. 0 \in CInt /\ 0 \in Int /\ IsFiniteSet(Dishes)
  BY IntAssumption, MenuAssumption DEF CInt
<1>2. \A d \in Dishes : PriceOf[d] * NewCart.cnt[d] = 0
  BY MenuAssumption DEF NewCart
<1>3. [d \in Dishes |-> PriceOf[d] * NewCart.cnt[d]] = [d \in Dishes |-> 0]
  BY <1>2
<1>4. Bill(NewCart.cnt) = 0
  BY <1>1, <1>3, SumZero DEF Bill
<1>5. NewCart.totalCost = 0
  BY DEF NewCart
<1> QED
  BY <1>1, <1>4, <1>5, WrapExact DEF Charged

(* hw2.c:310-384: whatever is ordered, refused or taken back, the amount   *)
(* to pay is the bill of the counters, to the width of an int, although    *)
(* each of them wraps around on its own.                                   *)
THEOREM ServerCharges == Spec => []CartsCharged
<1>1. Init => CartsCharged
  BY NewCartCharged DEF Init, CartsCharged
<1>2. ASSUME SInv, CartsCharged, [Next]_vars
      PROVE  CartsCharged'
  <2>1. CASE cart' = cart
    BY <1>2, <2>1 DEF CartsCharged
  <2>2. ASSUME NEW c \in Clients, NEW d \in Dishes, NEW q \in Quantities, RecvOrder(c, d, q)
        PROVE  CartsCharged'
    <3>1. cart' = [cart EXCEPT ![c] = AddDish(cart[c], d, q)]
      BY <2>2 DEF RecvOrder
    <3>2. Charged(AddDish(cart[c], d, q))
      BY <1>2, AddDishCharged, ServerAssumption DEF SInv, TypeOK, CartsCharged
    <3>3. \A b \in Clients : cart'[b] = IF b = c THEN AddDish(cart[c], d, q) ELSE cart[b]
      BY <1>2, <3>1 DEF SInv, TypeOK
    <3> QED
      BY <1>2, <3>2, <3>3 DEF CartsCharged
  <2>3. \/ cart' = cart
        \/ \E c \in Clients, d \in Dishes, q \in Quantities : RecvOrder(c, d, q)
    BY <1>2, NextCases
       DEF Talks, QuoteLock, QuoteRead, QuoteUnlock, OrderLock, OrderSelect, OrderAdd,
           OrderStore, OrderUnlock, Notify, Arrive, UpdateLock, UpdateDec0, UpdateDec1,
           Decrement, UpdateUnlock, Elapse, Outside, session
  <2> QED
    BY <2>1, <2>2, <2>3
<1> QED
  BY <1>1, <1>2, ServerInvariant, PTL DEF Spec

=============================================================================

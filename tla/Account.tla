------------------------------ MODULE Account -------------------------------
(***************************************************************************)
(* What the Web ATM of lab6 promises as long as a server is sound: every   *)
(* request is carried out in one step, once, and before it is answered; a  *)
(* withdrawal that is not covered at that moment changes nothing.          *)
(***************************************************************************)
EXTENDS Integers

CONSTANTS Servers, Clients, Amounts

VARIABLES
  balance,    (* the account of each server                                *)
  todo        (* requests to be carried out: [at, operation, amount]       *)

vars == <<balance, todo>>

Nothing == [at |-> "no server", operation |-> "other", amount |-> 0]

Init ==
  /\ balance = [s \in Servers |-> 0]
  /\ todo = [c \in Clients |-> Nothing]

Ask(c) ==
  /\ todo[c] = Nothing
  /\ \E s \in Servers, op \in {"deposit", "withdraw", "other"}, n \in Amounts :
       todo' = [todo EXCEPT ![c] = [at |-> s, operation |-> op, amount |-> n]]
  /\ UNCHANGED balance

Effect(operation, n, money) ==
  CASE operation = "deposit"                 -> money + n
    [] operation = "withdraw" /\ money >= n  -> money - n
    [] OTHER                                 -> money

CarryOut(c) ==
  /\ todo[c] # Nothing
  /\ balance' = [balance EXCEPT ![todo[c].at] = Effect(todo[c].operation, todo[c].amount, @)]
  /\ todo' = [todo EXCEPT ![c] = Nothing]

(* The server ends, and its account and its requests with it.              *)
Close(s) ==
  /\ balance' = [balance EXCEPT ![s] = 0]
  /\ todo' = [c \in Clients |-> IF todo[c].at = s THEN Nothing ELSE todo[c]]

Next == (\E c \in Clients : Ask(c) \/ CarryOut(c)) \/ (\E s \in Servers : Close(s))

Spec == Init /\ [][Next]_vars

=============================================================================

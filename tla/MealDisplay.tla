---------------------------- MODULE MealDisplay -----------------------------
(***************************************************************************)
(* hw1: a menu program that takes an order and writes its distance and its *)
(* bill to a driver, which counts the distance down on LEDs, one a second, *)
(* and shows the bill digit by digit.  The driver has no lock: two         *)
(* programs light and clear the same LEDs.                                 *)
(*                                                                         *)
(* scanf leaves what is not a number in the input.  The variable keeps its *)
(* value, or has any if it had none, and every scanf from then on fails;   *)
(* the end of the input does the same.                                     *)
(***************************************************************************)
EXTENDS Integers

CONSTANTS
  Programs,
  Shops, Distance, Price,   (* the menus: of a shop, and of its two dishes *)
  Amounts,                  (* the quantities a client types               *)
  MaxAmount,                (* bound: what a client orders of a dish       *)
  MaxLed                    (* MAX_LED                                     *)

Options == 0..4
Unset == -1

MealAssumption ==
  /\ Shops \subseteq Options /\ Distance \in [Shops -> Nat \ {0}]
  /\ Price \in [Shops -> [{1, 2} -> Nat]]
  /\ Amounts \subseteq Int /\ MaxAmount \in Nat /\ MaxLed \in Nat \ {0}

VARIABLES
  pc,       (* where each program is, in the menu or in the driver         *)
  stuck,    (* its input does not start with a number                      *)
  choice, shop, item,     (* what it has read last                         *)
  qty,      (* qty1 and qty2                                               *)
  i,        (* the index of the loop it is in                              *)
  leds,     (* the LEDs that are lit                                       *)
  digit     (* what the seven segments show; Unset: nothing                *)

locals == <<choice, shop, item, qty>>
vars == <<pc, stuck, locals, i, leds, digit>>

Prompts == {"main", "shop", "item", "amount"}
InDriver == {"light", "clear", "digits"}
Led == 0..(MaxLed - 1)

TypeOK ==
  /\ pc \in [Programs -> Prompts \cup InDriver \cup {"ended"}]
  /\ stuck \in [Programs -> BOOLEAN]
  /\ choice \in [Programs -> Options \cup {Unset}]
  /\ \A p \in Programs : pc[p] \notin {"main", "shop", "ended"} => shop[p] \in Shops
  /\ item \in [Programs -> Options \cup {Unset}]
  /\ qty \in [Programs -> [{1, 2} -> Nat]]
  /\ i \in [Programs -> Nat]
  /\ leds \subseteq Led /\ digit \in 0..9 \cup {Unset}

Init ==
  /\ pc = [p \in Programs |-> "main"] /\ stuck = [p \in Programs |-> FALSE]
  /\ choice = [p \in Programs |-> Unset] /\ shop = choice /\ item = choice
  /\ qty = [p \in Programs |-> [d \in {1, 2} |-> 0]]
  /\ i = [p \in Programs |-> 0]
  /\ leds = {} /\ digit = Unset

Goto(p, from, to) == pc[p] = from /\ pc' = [pc EXCEPT ![p] = to]

(* scanf("%d"): old is what the variable holds.                            *)
Scan(p, old, typed, value) ==
  \/ ~stuck[p] /\ value \in typed /\ UNCHANGED stuck
  \/ /\ value \in IF old = Unset THEN Options ELSE {old}
     /\ stuck' = [stuck EXCEPT ![p] = TRUE]

-----------------------------------------------------------------------------
(* The menu.                                                               *)

(* The locals of process_order, whose contents nobody looks at any more.   *)
Forget(p) ==
  /\ shop' = [shop EXCEPT ![p] = Unset] /\ item' = [item EXCEPT ![p] = Unset]
  /\ qty' = [qty EXCEPT ![p] = [d \in {1, 2} |-> 0]]

Main(p) ==
  \E n \in Options :
    /\ Scan(p, choice[p], Options, n)
    /\ choice' = [choice EXCEPT ![p] = n]
    /\ Goto(p, "main", IF n = 2 THEN "shop" ELSE "main")
    /\ UNCHANGED <<shop, item, qty, i, leds, digit>>

Shop(p) ==
  \E n \in Options :
    /\ Scan(p, Unset, Options, n)
    /\ \/ n \in Shops /\ Goto(p, "shop", "item") /\ shop' = [shop EXCEPT ![p] = n]
       \/ n \notin Shops /\ Goto(p, "shop", "main") /\ UNCHANGED shop
    /\ UNCHANGED <<choice, item, qty, i, leds, digit>>

Item(p) ==
  \E n \in Options :
    /\ Scan(p, item[p], Options, n)
    /\ Goto(p, "item", CASE n \in 1..2 -> "amount" [] n = 3 -> "light"
                         [] n = 4 -> "main" [] OTHER -> "item")
    /\ IF n = 4 THEN Forget(p)
                ELSE item' = [item EXCEPT ![p] = n] /\ UNCHANGED <<shop, qty>>
    /\ UNCHANGED <<choice, i, leds, digit>>

Counted(n) == n > 0

Amount(p) ==
  \E n \in Amounts \cup {0} :
    /\ Scan(p, 0, Amounts, n)
    /\ Goto(p, "amount", "item")
    /\ qty[p][item[p]] + n <= MaxAmount
    /\ qty' = IF Counted(n) THEN [qty EXCEPT ![p][item[p]] = @ + n] ELSE qty
    /\ UNCHANGED <<choice, shop, item, i, leds, digit>>

(* Ctrl-C; a program in the driver ends when write returns.                *)
Stop(p) ==
  /\ \E place \in Prompts : Goto(p, place, "ended")
  /\ Forget(p)
  /\ UNCHANGED <<stuck, choice, i, leds, digit>>

-----------------------------------------------------------------------------
(* The driver.                                                             *)
Total(p) == qty[p][1] * Price[shop[p]][1] + qty[p][2] * Price[shop[p]][2]

Km(p) == IF Distance[shop[p]] > MaxLed THEN MaxLed ELSE Distance[shop[p]]

(* The decimal digits of a number, the first one being digit 0.            *)
NumDigits(n) == CHOOSE d \in 1..10 : n < 10 ^ d /\ (d = 1 \/ 10 ^ (d - 1) <= n)
Digit(n, k) == (n \div 10 ^ (NumDigits(n) - 1 - k)) % 10

(* The body of a loop up to n, after which the program goes on at to.      *)
Loop(p, from, n, to) ==
  /\ pc[p] = from
  /\ IF i[p] + 1 < n THEN Goto(p, from, from) /\ i' = [i EXCEPT ![p] = @ + 1]
                     ELSE Goto(p, from, to) /\ i' = [i EXCEPT ![p] = 0]

Light(p) ==
  /\ Loop(p, "light", Km(p), "clear")
  /\ leds' = leds \cup {i[p]}
  /\ UNCHANGED <<stuck, locals, digit>>

(* A bug: the last LED stays on.                                           *)
ClearOneLess(p) ==
  /\ Loop(p, "clear", Km(p) - 1, "digits")
  /\ leds' = leds \ {i[p]}
  /\ UNCHANGED <<stuck, locals, digit>>

(* One second each.                                                        *)
Clear(p) ==
  /\ Loop(p, "clear", Km(p), "digits")
  /\ leds' = leds \ {i[p]}
  /\ UNCHANGED <<stuck, locals, digit>>

ShowDigit(p) ==
  /\ Loop(p, "digits", NumDigits(Total(p)), "main")
  /\ digit' = Digit(Total(p), i[p])
  /\ IF pc'[p] = "main" THEN Forget(p) ELSE UNCHANGED <<shop, item, qty>>
  /\ UNCHANGED <<stuck, choice, leds>>

-----------------------------------------------------------------------------
Program(p) == Main(p) \/ Shop(p) \/ Item(p) \/ Amount(p) \/ Light(p) \/ Clear(p) \/ ShowDigit(p)

Next == \E p \in Programs : Program(p) \/ Stop(p)

Spec == Init /\ [][Next]_vars

-----------------------------------------------------------------------------
(* Whatever the writes of two programs clear of each other's LEDs, all are *)
(* off when nobody is in the driver (HW1_driver.c:85-91).                  *)
AllOffAtRest == (\A p \in Programs : pc[p] \notin InDriver) => leds = {}

=============================================================================

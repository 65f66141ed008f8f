---------------------------- MODULE BinarySearch ----------------------------
(***************************************************************************)
(* What the number guessing of lab7 promises: while somebody searches, the *)
(* target is among the numbers from lo to hi, every guess is the middle of *)
(* them, a wrong one halves them, and a search that ends by itself has     *)
(* found the target.                                                       *)
(***************************************************************************)
EXTENDS Integers

CONSTANTS Targets, N

VARIABLES target, lo, hi, state

vars == <<target, lo, hi, state>>

Mid == (lo + hi) \div 2

Everything == lo' = 1 /\ hi' = N

Init ==
  /\ target \in Targets
  /\ lo = 1 /\ hi = N
  /\ state = "idle"

Begin == state # "searching" /\ state' = "searching" /\ Everything /\ UNCHANGED target

Narrow ==
  /\ state = "searching" /\ Mid # target
  /\ IF target < Mid THEN hi' = Mid - 1 /\ lo' = lo
                     ELSE lo' = Mid + 1 /\ hi' = hi
  /\ UNCHANGED <<target, state>>

Find == state = "searching" /\ Mid = target /\ state' = "found" /\ Everything /\ UNCHANGED target

(* Somebody presses Ctrl-C.                                                *)
Leave == state' = "idle" /\ Everything /\ UNCHANGED target

NewGame == state # "searching" /\ target' \in Targets /\ UNCHANGED <<lo, hi, state>>

Next == Begin \/ Narrow \/ Find \/ Leave \/ NewGame

Spec == Init /\ [][Next]_vars

=============================================================================

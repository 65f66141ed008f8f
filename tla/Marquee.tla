------------------------------ MODULE Marquee -------------------------------
(***************************************************************************)
(* What the seven segment display of lab3 promises: the characters of the  *)
(* text that was written last, one after the other and over again.         *)
(***************************************************************************)
EXTENDS Integers, Sequences

CONSTANTS Texts

VARIABLES text, pos, shown

vars == <<text, pos, shown>>

Init == text = <<>> /\ pos = 0 /\ shown = 0

(* A new text starts at its first character.                               *)
SetText == text' \in Texts /\ pos' = 0 /\ UNCHANGED shown

Show ==
  /\ text # <<>>
  /\ shown' = text[pos + 1]
  /\ pos' = (pos + 1) % Len(text)
  /\ UNCHANGED text

Next == SetText \/ Show

Spec == Init /\ [][Next]_vars

=============================================================================

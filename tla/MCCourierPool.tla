--------------------------- MODULE MCCourierPool ---------------------------
(* Instances of CourierPool for TLC. *)
EXTENDS CourierPool, TLC

CONSTANTS c1, c2, c3, c4

MCClients == {c1, c2, c3, c4}

(* The nearest and the farthest shop of hw2.c.                             *)
MCDistances == {3, 8}

ClientSymmetry == Permutations(MCClients)

=============================================================================

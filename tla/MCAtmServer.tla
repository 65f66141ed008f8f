---------------------------- MODULE MCAtmServer ----------------------------
(* Instances of AtmServer for TLC. *)
EXTENDS AtmServer, TLC

CONSTANTS s1, s2, c1, c2

MCServers == {s1, s2}

MCClients2 == {c1, c2}

ClientSymmetry == Permutations(MCClients2)

(* The amounts of demo.sh.                                                 *)
MCAmounts == {1, 2}

MCOneAmount == {1}

MCTwoServers == {"second"}

MCAllFaults == {"second", "interrupt", "kill", "bind"}

=============================================================================

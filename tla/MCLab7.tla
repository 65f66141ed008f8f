------------------------------- MODULE MCLab7 -------------------------------
(***************************************************************************)
(* Instances of GuessGame and ShmDemo for TLC.  The two pairs of programs  *)
(* of lab7 share nothing: a behaviour is one of the first or one of the    *)
(* second, and a run checks both.                                          *)
(***************************************************************************)
EXTENDS MCGuessGame

CONSTANTS Servers, Clients, Letters, Kills, p1, p2, c1, c2

VARIABLES
  pair,         (* the programs that are used, "guess" or "demo"           *)
  named, mem, server, client, seg, pos, seen

demo == <<named, mem, server, client, seg, pos, seen>>

Shm == INSTANCE ShmDemo

ASSUME DemoAssumption == Shm!ShmAssumption

MCServers == {p1, p2}

MCClients == {c1, c2}

(* The number does not matter to the demo.                                 *)
Lab7Init ==
  /\ Init /\ Shm!Init /\ pair \in {"guess", "demo"}
  /\ pair = "demo" => target = 1

Lab7Next ==
  \/ pair = "guess" /\ Next /\ UNCHANGED <<pair, demo>>
  \/ pair = "demo" /\ Shm!Next /\ UNCHANGED <<pair, vars>>

(* The fairness of the two modules, for the pair that is used.             *)
Lab7Spec ==
  /\ Lab7Init /\ [][Lab7Next]_<<pair, vars, demo>>
  /\ WF_vars(pair = "guess" /\ Game) /\ WF_vars(pair = "guess" /\ Player)
  /\ WF_vars(pair = "guess" /\ Timer)
  /\ \A p \in Servers : WF_demo(pair = "demo" /\ Shm!Works(p))
  /\ \A c \in Clients : WF_demo(pair = "demo" /\ Shm!Looks(c))

(* The type invariants of both modules.                                    *)
TypesOK == TypeOK /\ Shm!TypeOK

(* The properties of ShmDemo.                                              *)
ReadsFromTheStart == Shm!ReadsFromTheStart

NothingLeft == Shm!NothingLeft

ServerEnds == Shm!ServerEnds

=============================================================================

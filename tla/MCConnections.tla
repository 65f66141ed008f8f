--------------------------- MODULE MCConnections ----------------------------
(***************************************************************************)
(* Instances of TrainServer and CommandStream for TLC: what two servers of *)
(* the repository see of TCP.  They share nothing: a behaviour is one of   *)
(* the first or one of the second, and a run checks both.                  *)
(***************************************************************************)
EXTENDS TrainServer

CONSTANTS Commands, Pieces, c1, c2, c3

VARIABLES
  used,         (* the server that is used, "train" or "delivery"          *)
  kind, ahead, split, sent, peer, stream, thread, over, executed

delivery == <<kind, ahead, split, sent, peer, stream, thread, over, executed>>

Stream == INSTANCE CommandStream

ASSUME DeliveryAssumption == Stream!StreamAssumption

(* As many as demo.sh of lab5 starts.                                      *)
MCClients == {c1, c2, c3}

(* What the delivery client sends, and how, does not matter to the trains. *)
ConnectionsInit ==
  /\ Init /\ Stream!Init /\ used \in {"train", "delivery"}
  /\ used = "train" => ~ahead /\ ~split /\ \A k \in DOMAIN kind : kind[k] = "stay"

ConnectionsNext ==
  \/ used = "train" /\ Next /\ UNCHANGED <<used, delivery>>
  \/ used = "delivery" /\ Stream!Next /\ UNCHANGED <<used, vars>>

(* The fairness of the two modules, for the server that is used.           *)
Trains == used = "train"
ConnectionsSpec ==
  /\ ConnectionsInit /\ [][ConnectionsNext]_<<used, vars, delivery>>
  /\ WF_vars(Trains /\ Main) /\ WF_vars(Trains /\ Handler)
  /\ \A c \in Clients :
       /\ WF_vars(Trains /\ CloseListening(c)) /\ WF_vars(Trains /\ Exec(c))
       /\ WF_vars(Trains /\ Reset(c)) /\ WF_vars(Trains /\ EndOfFile(c))
  /\ WF_delivery(~Trains /\ Stream!Thread)

(* The type invariants of both modules.                                    *)
TypesOK == TypeOK /\ Stream!TypeOK

(* The properties of CommandStream.                                        *)
NothingMixed == Stream!NothingMixed

LockstepAnswered == Stream!LockstepAnswered

=============================================================================

---------------------------- MODULE MCGuessGame -----------------------------
(* Instances of GuessGame for TLC. *)
EXTENDS GuessGame

MCNumbers == 1..N

=============================================================================

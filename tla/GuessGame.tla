----------------------------- MODULE GuessGame ------------------------------
(***************************************************************************)
(* The number guessing of lab7: game keeps a number, guess looks for it.   *)
(* They share a segment with the last guess and the last hint; guess sends *)
(* SIGUSR1 after a guess, the handler in game writes the hint, and a timer *)
(* makes guess read it one second later.  Nothing else orders the two.     *)
(*                                                                         *)
(* A signal that arrives while its handler runs stays pending, and two of  *)
(* a kind are one.  Each access to the segment is a step.  strcpy writes   *)
(* the hint in pieces: in between it is "torn", and as the three words     *)
(* differ from each other's mixtures, strcmp then finds none of them.      *)
(*                                                                         *)
(* Games follow each other on one key and one guess plays at a time; it    *)
(* may have been started with the PID of an earlier game, and no PID is    *)
(* used twice.                                                             *)
(***************************************************************************)
EXTENDS Integers

CONSTANTS
  Targets,    (* the numbers to guess                                      *)
  N,          (* the upper bound given to guess                            *)
  IntMax,     (* the largest int                                           *)
  Late        (* the timer may expire before game has answered             *)

ASSUME GuessAssumption ==
  /\ N \in Nat \ {0} /\ IntMax \in Nat /\ N <= IntMax
  /\ Targets \subseteq 1..N
  /\ Late \in BOOLEAN

Words == {"bingo", "smaller", "bigger"}

VARIABLES
  target,         (* target_number                                         *)
  shm,            (* the segment: guess and result                         *)
  game,           (* where game is; a word: it is copying it               *)
  usr1,           (* SIGUSR1 is pending for game                           *)
  paired,         (* guess was started with the PID of the last game       *)
  guess,          (* where main of guess is, or how guess has ended        *)
  handler,        (* where timer_handler is, or "off"                      *)
  alarm,          (* SIGALRM is pending for guess                          *)
  lower, upper    (* lower_bound, upper_bound                              *)

bounds == <<lower, upper>>
player == <<paired, guess, handler, alarm, bounds>>
vars == <<target, shm, game, usr1, player>>

GameStates == {"starting", "waiting", "equal?", "greater?"} \cup Words \cup {"removed", "killed"}

Playing == guess \in {"first", "kill", "paused"}
Alive == game \notin {"removed", "killed"}
Installed == Alive /\ game # "starting"

(* A new segment is filled with zeros: its hint is empty.                  *)
NewSegment == [guess |-> 0, result |-> "empty"]

(* lower_bound + upper_bound is an int, and the division truncates.        *)
Wrap(x) == ((x + IntMax + 1) % (2 * (IntMax + 1))) - (IntMax + 1)
Half(x) == IF x >= 0 THEN x \div 2 ELSE -((-x) \div 2)
Middle == Half(Wrap(lower + upper))

TypeOK ==
  /\ target \in Targets
  /\ shm \in [guess : Int, result : Words \cup {"empty", "torn"}]
  /\ game \in GameStates /\ usr1 \in BOOLEAN
  /\ paired \in BOOLEAN
  /\ guess \in {"off", "first", "kill", "paused", "won", "stopped"}
  /\ handler \in {"off", "bingo?", "smaller?", "bigger?", "guess", "kill"}
  /\ handler # "off" => Playing
  /\ alarm \in BOOLEAN
  /\ lower \in Int /\ upper \in Int

Init ==
  /\ target \in Targets
  /\ shm = NewSegment
  /\ game = "starting" /\ usr1 = FALSE
  /\ paired = FALSE /\ guess = "off" /\ handler = "off" /\ alarm = FALSE
  /\ lower = 1 /\ upper = N

-----------------------------------------------------------------------------
(* game.                                                                   *)

(* Its PID is on the screen, now it installs its handlers.                 *)
Install == game = "starting" /\ game' = "waiting" /\ UNCHANGED <<target, shm, usr1, player>>

Deliver ==
  /\ game = "waiting" /\ usr1
  /\ game' = "equal?" /\ usr1' = FALSE
  /\ UNCHANGED <<target, shm, player>>

(* A bug: the hint is about the guess, not about the number.               *)
HintReversed == IF shm.guess > target THEN "bigger" ELSE "smaller"

(* The guess is read again for each comparison.                            *)
Hint == IF shm.guess > target THEN "smaller" ELSE "bigger"

Compare ==
  /\ \/ game = "equal?" /\ game' = IF shm.guess = target THEN "bingo" ELSE "greater?"
     \/ game = "greater?" /\ game' = Hint
  /\ UNCHANGED <<target, shm, usr1, player>>

(* strcpy: no reader can tell a copy of the word that is already there.    *)
CopyBegin ==
  /\ game \in Words /\ shm.result \notin {game, "torn"}
  /\ shm' = [shm EXCEPT !.result = "torn"]
  /\ UNCHANGED <<target, game, usr1, player>>

CopyEnd ==
  /\ game \in Words /\ shm.result \in {game, "torn"}
  /\ shm' = [shm EXCEPT !.result = game]
  /\ game' = "waiting"
  /\ UNCHANGED <<target, usr1, player>>

(* Ctrl-C: the handler removes the segment, also while sigusr1_handler     *)
(* runs.                                                                   *)
Interrupt ==
  /\ Installed
  /\ game' = "removed" /\ usr1' = FALSE
  /\ UNCHANGED <<target, shm, player>>

(* A signal without a handler, Ctrl-C before the handlers are installed or *)
(* any other later on, leaves the segment with the hint as far as written. *)
Die ==
  /\ Alive
  /\ game' = "killed" /\ usr1' = FALSE
  /\ UNCHANGED <<target, shm, player>>

(* Another game under the same key finds the segment as it is, or makes a  *)
(* new one; then a guess that still runs has the removed one to itself,    *)
(* and what it does there is left out.                                     *)
StartGame ==
  /\ target' \in Targets
  /\ \/ game = "killed" /\ UNCHANGED <<shm, guess, handler, alarm>>
     \/ /\ game = "removed" /\ shm' = NewSegment
        /\ guess' = "off" /\ handler' = "off" /\ alarm' = FALSE
  /\ game' = "starting" /\ paired' = FALSE
  /\ UNCHANGED <<usr1, bounds>>

-----------------------------------------------------------------------------
(* guess.                                                                  *)

(* kill(game_pid, SIGUSR1), whose result nobody looks at: a game without   *)
(* its handler dies, and one that has ended gets nothing.                  *)
KillGame ==
  /\ game' = IF game = "starting" /\ paired THEN "killed" ELSE game
  /\ usr1' = (usr1 \/ (Installed /\ paired))

(* shmget finds the segment and the timer is set.                          *)
StartGuess ==
  /\ ~Playing /\ game # "removed"
  /\ paired' = TRUE
  /\ guess' = "first" /\ lower' = 1 /\ upper' = N
  /\ UNCHANGED <<target, shm, game, usr1, handler, alarm>>

(* main and timer_handler both write a guess and signal it.                *)
Guess ==
  /\ \/ guess = "first" /\ handler = "off" /\ guess' = "kill" /\ UNCHANGED handler
     \/ handler = "guess" /\ handler' = "kill" /\ UNCHANGED guess
  /\ shm' = [shm EXCEPT !.guess = Middle]
  /\ UNCHANGED <<target, game, usr1, paired, alarm, bounds>>

Kill ==
  /\ \/ guess = "kill" /\ handler = "off" /\ guess' = "paused" /\ UNCHANGED handler
     \/ handler = "kill" /\ handler' = "off" /\ UNCHANGED guess
  /\ KillGame
  /\ UNCHANGED <<target, shm, paired, alarm, bounds>>

(* A second is over.  Without Late it is enough for what was started.      *)
Timer ==
  /\ Playing /\ ~alarm
  /\ \/ Late
     \/ /\ guess = "paused" /\ handler = "off"
        /\ (Alive /\ paired => game = "waiting" /\ ~usr1)
  /\ alarm' = TRUE
  /\ UNCHANGED <<target, shm, game, usr1, paired, guess, handler, bounds>>

HandlerBegins ==
  /\ Playing /\ alarm /\ handler = "off"
  /\ handler' = "bingo?" /\ alarm' = FALSE
  /\ UNCHANGED <<target, shm, game, usr1, paired, guess, bounds>>

(* A bug: only the first letter of the hint is looked at.                  *)
IsBingoOrBigger == shm.result \in {"bingo", "bigger"}

IsBingo == shm.result = "bingo"

(* A bug: exit is forgotten.                                               *)
ExitForgotten == guess' = "won" /\ UNCHANGED <<handler, alarm>>

Exit == guess' = "won" /\ handler' = "off" /\ alarm' = FALSE

HandlerBingo ==
  /\ handler = "bingo?"
  /\ IF IsBingo THEN Exit ELSE handler' = "smaller?" /\ UNCHANGED <<guess, alarm>>
  /\ UNCHANGED <<target, shm, game, usr1, paired, bounds>>

HandlerSmaller ==
  /\ handler = "smaller?"
  /\ IF shm.result = "smaller" THEN upper' = shm.guess - 1 /\ handler' = "guess"
                               ELSE upper' = upper /\ handler' = "bigger?"
  /\ UNCHANGED <<target, shm, game, usr1, paired, guess, alarm, lower>>

(* A bug: the guess itself stays in the interval.                          *)
NewLowerKeepsGuess == shm.guess

NewLower == shm.guess + 1

HandlerBigger ==
  /\ handler = "bigger?" /\ handler' = "guess"
  /\ lower' = IF shm.result = "bigger" THEN NewLower ELSE lower
  /\ UNCHANGED <<target, shm, game, usr1, paired, guess, alarm, upper>>

(* Ctrl-C ends guess, which detaches but removes nothing.                  *)
StopGuess ==
  /\ Playing
  /\ guess' = "stopped" /\ handler' = "off" /\ alarm' = FALSE
  /\ UNCHANGED <<target, shm, game, usr1, paired, bounds>>

-----------------------------------------------------------------------------
Game == Install \/ Deliver \/ Compare \/ CopyBegin \/ CopyEnd

Player == HandlerBegins \/ HandlerBingo \/ HandlerSmaller \/ HandlerBigger \/ Guess \/ Kill

Next == Game \/ Player \/ Timer \/ StartGame \/ Interrupt \/ Die \/ StartGuess \/ StopGuess

Spec == Init /\ [][Next]_vars

(* Both processes run and the timer repeats; nobody has to start a program *)
(* or to press Ctrl-C.                                                     *)
Fairness == WF_vars(Game) /\ WF_vars(Player) /\ WF_vars(Timer)

FairSpec == Spec /\ Fairness

-----------------------------------------------------------------------------
(* guess and the game it was started for both run.                         *)
Searching == Playing /\ Alive /\ paired

(* Then the number is in the interval guess still searches (game.c:20-31,  *)
(* 55, guess.c:25-32): no hint is applied to a guess it was not written    *)
(* for, and none that an earlier game has left in the segment is used.     *)
TargetInInterval == Searching => target \in lower..upper

(* guess is a binary search: every guess is the middle of what is left     *)
(* (guess.c:34), every hint narrows it once, and "bingo" ends it only when *)
(* the guess is right (guess.c:21-24).                                     *)
searchLo == IF Searching THEN lower ELSE 1
searchHi == IF Searching THEN upper ELSE N
searchState ==
  IF Searching THEN "searching" ELSE IF guess = "won" /\ Alive /\ paired THEN "found" ELSE "idle"

Search == INSTANCE BinarySearch WITH
  lo <- searchLo, hi <- searchHi, state <- searchState
ImplementsBinarySearch == Search!Spec

(* src/README.md:35: the hints narrow the range "until it is guessed";     *)
(* only the end of one of the programs may prevent it.                     *)
UntilGuessed == Searching ~> ~Searching

=============================================================================

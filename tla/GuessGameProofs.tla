-------------------------- MODULE GuessGameProofs ---------------------------
(***************************************************************************)
(* Theorems about GuessGame, for any upper bound and any numbers to guess: *)
(* when the timer is not faster than game and the sum of two bounds is an  *)
(* int, the number stays in the interval and guess is a binary search.     *)
(***************************************************************************)
EXTENDS GuessGame, TLAPS

(* What the two properties need: game answers within a second, and         *)
(* lower_bound + upper_bound does not overflow.                            *)
Timely == ~Late /\ 2 * N <= IntMax

-----------------------------------------------------------------------------
(* The inductive invariant *)

(* The hint that belongs to the guess in the segment.                      *)
Answer == IF shm.guess = target THEN "bingo" ELSE Hint

Interval == 1 <= lower /\ lower <= target /\ target <= upper /\ upper <= N

(* A program that does not run has no handler and no alarm.                *)
Ended == ~Playing => handler = "off" /\ ~alarm

Idle == game = "waiting" /\ ~usr1

(* What game writes for the signal it was sent last, or has written.       *)
Answering ==
  /\ game # "starting"
  /\ ~usr1 => /\ game = "greater?" => shm.guess # target
              /\ game \in Words => game = Answer
              /\ game = "waiting" => shm.result = Answer

(* The turns of the two processes: the segment holds the guess from Guess  *)
(* until the handler has applied the hint, and the hint for that guess     *)
(* from its Compare until the next Guess.                                  *)
Turns ==
  /\ handler # "off" \/ alarm => guess = "paused" /\ Idle
  /\ alarm => handler = "off"
  /\ guess = "kill" => shm.guess = Middle
  /\ guess = "paused" /\ handler \in {"off", "bingo?", "smaller?", "bigger?"} =>
       shm.guess = Middle /\ Answering
  /\ handler = "kill" => shm.guess = Middle
  /\ handler = "smaller?" => Answer # "bingo"
  /\ handler = "bigger?" => Answer = "bigger"

GInv ==
  /\ TypeOK
  /\ Ended
  /\ Searching => Interval /\ Turns

-----------------------------------------------------------------------------
(* The middle of the interval *)

(* The constants are ints, and a number to guess lies in the first interval*)
LEMMA Numbers ==
  /\ N \in Int /\ IntMax \in Int /\ 1 <= N /\ N <= IntMax
  /\ \A t \in Targets : t \in Int /\ 1 <= t /\ t <= N
<1>1. N \in Nat \ {0} /\ IntMax \in Nat /\ N <= IntMax
  BY GuessAssumption
<1>2. \A t \in Targets : t \in 1..N
  BY GuessAssumption
<1> QED
  BY <1>1, <1>2

(* An int that is in range is not wrapped.                                 *)
LEMMA WrapInRange ==
  ASSUME NEW x \in Int, 0 <= x, x <= IntMax
  PROVE  Wrap(x) = x
<1>1. IntMax \in Int /\ IntMax >= 0
  BY Numbers
<1>2. \A y, m \in Int : 0 <= y /\ y < m => y % m = y
  OBVIOUS
<1>3. (x + IntMax + 1) % (2 * (IntMax + 1)) = x + IntMax + 1
  BY <1>1, <1>2
<1> QED
  BY <1>1, <1>3 DEF Wrap

(* The middle of an interval that is not empty lies in it.                 *)
LEMMA MiddleInside ==
  ASSUME Timely, TypeOK, Interval
  PROVE  Middle = (lower + upper) \div 2 /\ lower <= Middle /\ Middle <= upper
<1>1. lower \in Int /\ upper \in Int /\ N \in Int /\ target \in Int
  BY Numbers DEF TypeOK
<1>2. 0 <= lower + upper /\ lower + upper <= IntMax
  BY <1>1, Numbers DEF Interval, Timely
<1>3. Middle = (lower + upper) \div 2
  BY <1>1, <1>2, WrapInRange DEF Middle, Half
<1> QED
  BY <1>1, <1>3 DEF Interval

(* Whatever the bounds are, main writes an int.                            *)
LEMMA MiddleType ==
  ASSUME TypeOK
  PROVE  Middle \in Int
<1>1. lower + upper \in Int /\ IntMax \in Int /\ IntMax >= 0
  BY Numbers DEF TypeOK
<1>2. \A x, m \in Int : m > 0 => x % m \in Int
  OBVIOUS
<1>3. Wrap(lower + upper) \in Int
  BY <1>1, <1>2 DEF Wrap
<1>4. \A x \in Int : Half(x) \in Int
  BY DEF Half
<1> QED
  BY <1>3, <1>4 DEF Middle

-----------------------------------------------------------------------------
(* Types *)

LEMMA InitTypes == Init => TypeOK /\ Ended
<1> SUFFICES ASSUME Init PROVE TypeOK /\ Ended
  OBVIOUS
<1>1. TypeOK
  <2>1. shm \in [guess : Int, result : Words \cup {"empty", "torn"}]
    BY DEF Init, NewSegment
  <2>2. lower \in Int /\ upper \in Int
    BY Numbers DEF Init
  <2> QED
    BY <2>1, <2>2 DEF Init, TypeOK, GameStates
<1>2. Ended
  BY DEF Init, Ended
<1> QED
  BY <1>1, <1>2

(* Every step keeps the types, and the end of guess ends its handler.      *)
LEMMA TypeStep ==
  ASSUME TypeOK, Ended, [Next]_vars
  PROVE  TypeOK' /\ Ended'
<1> USE DEF TypeOK, Ended, player, bounds, Playing, Installed, Alive, GameStates, Words
<1>1. CASE Install
  BY <1>1 DEF Install
<1>2. CASE Deliver
  BY <1>2 DEF Deliver
<1>3. CASE Compare
  BY <1>3 DEF Compare, Hint
<1>4. CASE CopyBegin \/ CopyEnd
  BY <1>4 DEF CopyBegin, CopyEnd
<1>5. CASE Interrupt \/ Die
  <2>1. /\ game' \in {"removed", "killed"} /\ usr1' = FALSE
        /\ UNCHANGED <<target, shm, paired, guess, handler, alarm, lower, upper>>
    BY <1>5 DEF Interrupt, Die
  <2> QED
    BY <2>1
<1>6. CASE StartGame
  <2>1. /\ target' \in Targets /\ game' = "starting" /\ paired' = FALSE
        /\ UNCHANGED <<usr1, lower, upper>>
    BY <1>6 DEF StartGame
  <2>2. shm' \in [guess : Int, result : Words \cup {"empty", "torn"}]
    BY <1>6 DEF StartGame, NewSegment
  <2>3. \/ UNCHANGED <<guess, handler, alarm>>
        \/ guess' = "off" /\ handler' = "off" /\ alarm' = FALSE
    BY <1>6 DEF StartGame
  <2>4. CASE UNCHANGED <<guess, handler, alarm>>
    BY <2>1, <2>2, <2>4
  <2>5. CASE guess' = "off" /\ handler' = "off" /\ alarm' = FALSE
    BY <2>1, <2>2, <2>5
  <2> QED
    BY <2>3, <2>4, <2>5
<1>7. CASE StartGuess
  BY <1>7, Numbers DEF StartGuess
<1>8. CASE Guess
  BY <1>8, MiddleType DEF Guess
<1>9. CASE Kill
  BY <1>9 DEF Kill, KillGame
<1>10. CASE Timer
  BY <1>10 DEF Timer
<1>11. CASE HandlerBegins
  BY <1>11 DEF HandlerBegins
<1>12. CASE HandlerBingo
  BY <1>12 DEF HandlerBingo, Exit
<1>13. CASE HandlerSmaller
  BY <1>13 DEF HandlerSmaller
<1>14. CASE HandlerBigger
  BY <1>14 DEF HandlerBigger, NewLower
<1>15. CASE StopGuess
  BY <1>15 DEF StopGuess
<1>16. CASE UNCHANGED vars
  BY <1>16 DEF vars
<1> QED
  BY <1>1, <1>2, <1>3, <1>4, <1>5, <1>6, <1>7, <1>8, <1>9, <1>10, <1>11, <1>12,
     <1>13, <1>14, <1>15, <1>16 DEF Next, Game, Player

(* Every variable keeps its type, overflow included: the middle of two     *)
(* bounds is an int, right or wrong (guess.c:34).                          *)
THEOREM TypeCorrect == Spec => []TypeOK
  BY InitTypes, TypeStep, PTL DEF Spec


-----------------------------------------------------------------------------
(* The turns of game and guess *)

(* The three hints are different words, and game writes the one that fits. *)
LEMMA AnswerMeaning ==
  ASSUME TypeOK
  PROVE  /\ Answer \in Words
         /\ Answer = "bingo" <=> shm.guess = target
         /\ Answer = "smaller" <=> target < shm.guess
         /\ Answer = "bigger" <=> shm.guess < target
  BY Numbers DEF TypeOK, Answer, Hint, Words

(* A step of game or of its environment while somebody searches.           *)
LEMMA GameTurn ==
  ASSUME GInv, Searching, Searching',
         Install \/ Deliver \/ Compare \/ CopyBegin \/ CopyEnd \/ Interrupt \/ Die
  PROVE  Interval' /\ Turns'
<1> USE DEF GInv, TypeOK, Turns, Answering, Idle, Answer, Interval, Middle, Searching,
            Alive, player, bounds, Words
<1>0. UNCHANGED <<target, guess, handler, alarm, lower, upper>> /\ shm'.guess = shm.guess
  BY DEF Install, Deliver, Compare, CopyBegin, CopyEnd, Interrupt, Die
<1>1. CASE Install
  BY <1>1 DEF Install
<1>2. CASE Deliver
  BY <1>2 DEF Deliver
<1>3. CASE Compare
  BY <1>3 DEF Compare, Hint
<1>4. CASE CopyBegin
  BY <1>4 DEF CopyBegin, Hint
<1>5. CASE CopyEnd
  BY <1>5 DEF CopyEnd, Hint
<1>6. CASE Interrupt \/ Die
  BY <1>6 DEF Interrupt, Die
<1> QED
  BY <1>1, <1>2, <1>3, <1>4, <1>5, <1>6

(* A step of guess or of its timer.  The handler applies the hint to the   *)
(* guess that is in the segment, and it is the hint for it.                *)
LEMMA PlayerTurn ==
  ASSUME Timely, GInv, Searching, Searching',
         Player \/ Timer
  PROVE  Interval' /\ Turns'
<1>a. TypeOK /\ Interval /\ Turns /\ shm.guess \in Int /\ target \in Int
      /\ lower \in Int /\ upper \in Int /\ N \in Int
  BY Numbers DEF GInv, TypeOK
<1>b. /\ Answer = "bingo" <=> shm.guess = target
      /\ Answer = "smaller" <=> target < shm.guess
      /\ Answer = "bigger" <=> shm.guess < target
  BY <1>a, AnswerMeaning
<1>c. target' = target
  BY DEF Player, HandlerBegins, HandlerBingo, HandlerSmaller, HandlerBigger,
         Guess, Kill, Timer
<1>d. Middle \in Int
  BY <1>a, MiddleType
<1>e. Searching => guess \in {"first", "kill", "paused"}
  BY DEF Searching, Playing
<1>1. CASE HandlerBegins
  <2>1. Answer' = Answer /\ Middle' = Middle
    BY <1>1 DEF HandlerBegins, Answer, Hint, Middle, bounds
  <2> QED
    BY <1>1, <1>a, <2>1
       DEF HandlerBegins, Turns, Idle, Answering, Interval, bounds, Words
<1>2. CASE HandlerBingo
  <2>1. Answer' = Answer /\ Middle' = Middle
    BY <1>2 DEF HandlerBingo, Answer, Hint, Middle, bounds
  <2>2. ~IsBingo /\ handler' = "smaller?" /\ UNCHANGED <<guess, alarm>>
    BY <1>2 DEF HandlerBingo, Exit, Searching, Playing
  <2> QED
    BY <1>2, <1>a, <2>1, <2>2
       DEF HandlerBingo, IsBingo, Turns, Idle, Answering, Interval, bounds, Words
<1>3. CASE HandlerSmaller
  <2>1. shm.result = Answer /\ Answer # "bingo"
    BY <1>3, <1>a DEF HandlerSmaller, Turns, Idle, Answering
  <2>2. CASE Answer = "smaller"
    <3>1. upper' = shm.guess - 1 /\ handler' = "guess"
          /\ UNCHANGED <<target, shm, game, usr1, guess, alarm, lower>>
      BY <1>3, <2>1, <2>2 DEF HandlerSmaller
    <3>2. shm.guess = Middle /\ lower <= Middle /\ Middle <= upper
      BY <1>3, <1>a, MiddleInside DEF HandlerSmaller, Turns
    <3>3. Interval'
      BY <1>a, <1>b, <2>2, <3>1, <3>2 DEF Interval
    <3>4. Turns'
      BY <1>3, <1>a, <3>1 DEF HandlerSmaller, Turns, Idle
    <3> QED
      BY <3>3, <3>4
  <2>3. CASE Answer # "smaller"
    <3>1. Answer = "bigger"
      BY <1>a, <2>1, <2>3, AnswerMeaning DEF Words
    <3>2. /\ handler' = "bigger?" /\ upper' = upper
          /\ UNCHANGED <<target, shm, game, usr1, guess, alarm, lower>>
      BY <1>3, <2>1, <2>3 DEF HandlerSmaller
    <3>3. Answer' = Answer /\ Middle' = Middle
      BY <3>2 DEF Answer, Hint, Middle
    <3> QED
      BY <1>3, <1>a, <3>1, <3>2, <3>3
         DEF HandlerSmaller, Turns, Idle, Answering, Interval
  <2> QED
    BY <2>2, <2>3
<1>4. CASE HandlerBigger
  <2>1. shm.result = "bigger" /\ Answer = "bigger"
    BY <1>4, <1>a DEF HandlerBigger, Turns, Idle, Answering
  <2>2. shm.guess = Middle /\ lower <= Middle /\ Middle <= upper
    BY <1>4, <1>a, MiddleInside DEF HandlerBigger, Turns
  <2>3. lower' = shm.guess + 1 /\ handler' = "guess"
        /\ UNCHANGED <<target, shm, game, usr1, guess, alarm, upper>>
    BY <1>4, <2>1 DEF HandlerBigger, NewLower
  <2>4. Interval'
    BY <1>a, <1>b, <2>1, <2>2, <2>3 DEF Interval
  <2>5. Turns'
    BY <1>4, <1>a, <2>3 DEF HandlerBigger, Turns, Idle
  <2> QED
    BY <2>4, <2>5
<1>5. CASE Guess
  <2>1. shm'.guess = Middle /\ Middle' = Middle
    BY <1>5, <1>a DEF Guess, bounds, Middle, TypeOK
  <2> QED
    BY <1>5, <1>a, <1>e, <2>1 DEF Guess, Turns, Idle, Interval, bounds
<1>6. CASE Kill
  <2>1. Middle' = Middle /\ Answer' = Answer /\ shm' = shm
    BY <1>6 DEF Kill, bounds, Middle, Answer, Hint
  <2>2. game # "starting" /\ game' = game /\ usr1'
    BY <1>6 DEF Kill, KillGame, Searching, Alive, Installed
  <2> QED
    BY <1>6, <1>a, <1>e, <2>1, <2>2
       DEF Kill, Turns, Idle, Answering, Interval, bounds
<1>7. CASE Timer
  <2>1. guess = "paused" /\ handler = "off" /\ Idle
    BY <1>7 DEF Timer, Timely, Searching, Idle
  <2>2. Answer' = Answer /\ Middle' = Middle
    BY <1>7 DEF Timer, Answer, Hint, Middle, bounds
  <2> QED
    BY <1>7, <1>a, <2>1, <2>2
       DEF Timer, Turns, Idle, Answering, Interval, bounds, Words
<1> QED
  BY <1>1, <1>2, <1>3, <1>4, <1>5, <1>6, <1>7 DEF Player

(* A search begins with everything from 1 to N.                            *)
LEMMA StartTurn ==
  ASSUME GInv, StartGuess
  PROVE  Interval' /\ Turns'
<1>1. handler = "off" /\ ~alarm /\ target \in Targets
  BY DEF GInv, TypeOK, Ended, StartGuess
<1> QED
  BY <1>1, Numbers DEF StartGuess, Interval, Turns

(* The steps by which a program ends do not begin a search.                *)
LEMMA SearchingBefore ==
  ASSUME [Next]_vars, Searching', ~StartGuess
  PROVE  Searching
  BY DEF Next, Game, Player, Searching, Playing, Alive, vars, player, bounds,
         Install, Deliver, Compare, CopyBegin, CopyEnd, Interrupt, Die, StartGame,
         HandlerBegins, HandlerBingo, Exit, HandlerSmaller, HandlerBigger, Guess,
         Kill, KillGame, Timer, StopGuess, Words, Hint

LEMMA GInvStep ==
  ASSUME Timely, GInv, [Next]_vars
  PROVE  GInv'
<1>1. TypeOK' /\ Ended'
  BY TypeStep DEF GInv
<1>2. ASSUME Searching' PROVE Interval' /\ Turns'
  <2>1. CASE StartGuess
    BY <2>1, StartTurn
  <2>2. CASE ~StartGuess
    <3>1. Searching
      BY <1>2, <2>2, SearchingBefore
    <3>2. ~StartGame /\ ~StopGuess
      BY <1>2, <3>1 DEF StartGame, StopGuess, Searching, Playing, Alive
    <3>3. CASE UNCHANGED vars
      BY <3>1, <3>3
         DEF GInv, vars, player, bounds, Interval, Turns, Idle, Answering, Answer,
             Hint, Middle
    <3> QED
      BY <1>2, <2>2, <3>1, <3>2, <3>3, GameTurn, PlayerTurn DEF Next, Game
  <2> QED
    BY <2>1, <2>2
<1> QED
  BY <1>1, <1>2 DEF GInv

-----------------------------------------------------------------------------
(* Theorems *)

LEMMA InitGInv == Init => GInv
  BY InitTypes DEF Init, GInv, Searching, Playing

LEMMA TurnsInvariance == ASSUME Timely PROVE Spec => []GInv
<1>1. GInv /\ [Next]_vars => GInv'
  BY GInvStep
<1> QED
  BY <1>1, InitGInv, PTL DEF Spec

(* However the two programs are interrupted and started again, no hint is  *)
(* applied to a guess it was not written for: the number stays in the      *)
(* interval guess searches (game.c:20-31, guess.c:25-32).                  *)
THEOREM TargetStays == ASSUME Timely PROVE Spec => []TargetInInterval
<1>1. GInv => TargetInInterval
  <2> SUFFICES ASSUME GInv, Searching PROVE target \in lower..upper
    BY DEF TargetInInterval, Searching
  <2> QED
    BY Numbers DEF GInv, TypeOK, Interval
<1> QED
  BY <1>1, TurnsInvariance, PTL

-----------------------------------------------------------------------------
(* The refinement of BinarySearch *)

(* The middle that guess computes is the middle of what is left.           *)
LEMMA SearchMid ==
  ASSUME Timely, GInv, Searching
  PROVE  Search!Mid = Middle
  BY MiddleInside DEF GInv, Search!Mid, searchLo, searchHi

(* Every step is a step of the search or invisible to it: a hint narrows   *)
(* the interval when the handler has read it, bingo ends the search when   *)
(* guess exits, and whoever is interrupted leaves it.                      *)
LEMMA SearchStep ==
  ASSUME Timely, GInv, GInv', [Next]_vars
  PROVE  [Search!Next]_(Search!vars)
<1> USE DEF player, bounds
<1>a. TypeOK /\ Ended /\ (Searching => Interval /\ Turns)
  BY DEF GInv
<1>e. Searching => /\ Answer \in Words
                   /\ Answer = "bingo" <=> shm.guess = target
                   /\ Answer = "smaller" <=> target < shm.guess
                   /\ Answer = "bigger" <=> shm.guess < target
  BY <1>a, AnswerMeaning
(* Nothing a search consists of changes.                                   *)
<1>k. ASSUME target' = target, Searching' <=> Searching,
             Searching => lower' = lower /\ upper' = upper,
             ~Searching => searchState' = searchState
      PROVE  UNCHANGED Search!vars
  BY <1>k DEF Search!vars, searchLo, searchHi, searchState
(* A search is over before its number is found.                            *)
<1>l. ASSUME target' = target, ~Searching', searchState' = "idle"
      PROVE  Search!Leave
  BY <1>l DEF Search!Leave, Search!Everything, searchLo, searchHi
<1>1. CASE Install \/ Deliver \/ Compare \/ CopyBegin \/ CopyEnd
  <2>1. (Alive' <=> Alive) /\ UNCHANGED <<target, paired, guess, lower, upper>>
    BY <1>1 DEF Install, Deliver, Compare, CopyBegin, CopyEnd, Alive, Words, Hint
  <2> QED
    BY <1>k, <2>1 DEF Searching, Playing, searchState
<1>2. CASE HandlerBegins \/ Guess \/ Timer
  <2>1. /\ Alive' <=> Alive
        /\ Playing' <=> Playing
        /\ guess' = "won" <=> guess = "won"
        /\ UNCHANGED <<target, paired, lower, upper>>
    BY <1>2 DEF HandlerBegins, Guess, Timer, Alive, Playing
  <2> QED
    BY <1>k, <2>1 DEF Searching, searchState
<1>3. CASE Kill
  <2>1. CASE game = "starting" /\ paired
    <3>1. ~Alive' /\ target' = target
      BY <1>3, <2>1 DEF Kill, KillGame, Alive
    <3> QED
      BY <1>l, <3>1 DEF Searching, searchState, Search!Next
  <2>2. CASE ~(game = "starting" /\ paired)
    <3>1. /\ Alive' <=> Alive
          /\ Playing' <=> Playing
          /\ guess' = "won" <=> guess = "won"
          /\ UNCHANGED <<target, paired, lower, upper>>
      BY <1>3, <2>2 DEF Kill, KillGame, Alive, Playing
    <3> QED
      BY <1>k, <3>1 DEF Searching, searchState
  <2> QED
    BY <2>1, <2>2
<1>4. CASE HandlerBingo
  <2>0. /\ handler = "bingo?" /\ Playing /\ (Alive' <=> Alive)
        /\ UNCHANGED <<target, paired, lower, upper>>
    BY <1>4, <1>a DEF HandlerBingo, Ended, Alive
  <2>1. CASE Searching /\ IsBingo
    <3>1. ~Searching' /\ searchState' = "found" /\ searchState = "searching"
      BY <1>4, <2>0, <2>1 DEF HandlerBingo, Exit, Searching, Playing, searchState
    <3>2. Middle = target
      BY <1>a, <1>e, <2>0, <2>1 DEF Turns, Idle, Answering, IsBingo
    <3>3. Search!Find
      BY <2>0, <2>1, <3>1, <3>2, SearchMid
         DEF Search!Find, Search!Everything, searchLo, searchHi
    <3> QED
      BY <3>3 DEF Search!Next
  <2>2. CASE ~IsBingo
    <3>1. guess' = guess
      BY <1>4, <2>2 DEF HandlerBingo
    <3> QED
      BY <1>k, <2>0, <3>1 DEF Searching, Playing, searchState
  <2>3. CASE ~Searching
    <3>1. ~(Alive /\ paired) /\ ~(Alive' /\ paired')
      BY <2>0, <2>3 DEF Searching
    <3> QED
      BY <1>k, <2>0, <3>1 DEF Searching, searchState
  <2> QED
    BY <2>1, <2>2, <2>3
<1>5. CASE HandlerSmaller \/ HandlerBigger
  <2>0. /\ handler \in {"smaller?", "bigger?"} /\ (Alive' <=> Alive)
        /\ UNCHANGED <<target, paired, guess>> /\ (Searching' <=> Searching)
    BY <1>5 DEF HandlerSmaller, HandlerBigger, Alive, Playing, Searching
  <2>1. CASE Searching /\ UNCHANGED <<lower, upper>>
    BY <1>k, <2>0, <2>1
  <2>2. CASE ~Searching
    BY <1>k, <2>0, <2>2 DEF searchState, Searching, Playing
  <2>3. CASE Searching /\ ~UNCHANGED <<lower, upper>>
    <3>1. /\ shm.guess = Middle /\ shm.result = Answer /\ Answer # "bingo"
      BY <1>a, <2>0, <2>3 DEF Turns, Idle, Answering
    <3>2. Search!Mid = shm.guess /\ shm.guess # target
      BY <1>e, <2>3, <3>1, SearchMid
    <3>3. \/ target < shm.guess /\ upper' = shm.guess - 1 /\ lower' = lower
          \/ ~(target < shm.guess) /\ lower' = shm.guess + 1 /\ upper' = upper
      <4>1. CASE HandlerSmaller
        BY <1>e, <2>3, <3>1, <4>1 DEF HandlerSmaller
      <4>2. CASE HandlerBigger
        <5>1. Answer = "bigger"
          BY <1>a, <2>3, <4>2 DEF HandlerBigger, Turns
        <5>2. shm.guess < target /\ shm.guess \in Int /\ target \in Int
          BY <1>a, <1>e, <2>3, <5>1, Numbers DEF TypeOK
        <5> QED
          BY <2>3, <3>1, <4>2, <5>1, <5>2 DEF HandlerBigger, NewLower
      <4> QED
        BY <1>5, <4>1, <4>2
    <3>4. Search!Narrow
      BY <2>0, <2>3, <3>2, <3>3
         DEF Search!Narrow, searchLo, searchHi, searchState
    <3> QED
      BY <3>4 DEF Search!Next
  <2> QED
    BY <2>1, <2>2, <2>3
<1>6. CASE StartGame
  <2>1. /\ ~Searching /\ ~Searching' /\ searchState = "idle" /\ searchState' = "idle"
        /\ target' \in Targets
    BY <1>6 DEF StartGame, Searching, Alive, searchState
  <2>2. Search!NewGame
    BY <2>1 DEF Search!NewGame, searchLo, searchHi
  <2> QED
    BY <2>2 DEF Search!Next
<1>7. CASE Interrupt \/ Die
  <2>1. ~Alive' /\ target' = target
    BY <1>7 DEF Interrupt, Die, Alive
  <2> QED
    BY <1>l, <2>1 DEF Searching, searchState, Search!Next
<1>8. CASE StartGuess
  <2>1. /\ ~Searching /\ (Alive' <=> Alive) /\ target' = target
        /\ paired' /\ guess' = "first" /\ lower' = 1 /\ upper' = N
    BY <1>8 DEF StartGuess, Searching, Playing, Alive
  <2>2. CASE Alive
    <3>1. Search!Begin
      BY <2>1, <2>2
         DEF Search!Begin, Search!Everything, Searching, Playing, searchLo, searchHi,
             searchState
    <3> QED
      BY <3>1 DEF Search!Next
  <2>3. CASE ~Alive
    BY <1>k, <2>1, <2>3 DEF Searching, searchState
  <2> QED
    BY <2>2, <2>3
<1>9. CASE StopGuess
  <2>1. guess' = "stopped" /\ target' = target
    BY <1>9 DEF StopGuess
  <2> QED
    BY <1>l, <2>1 DEF Searching, Playing, searchState, Search!Next
<1>10. CASE UNCHANGED vars
  BY <1>k, <1>10 DEF vars, Searching, Playing, Alive, searchState
<1> QED
  BY <1>1, <1>2, <1>3, <1>4, <1>5, <1>6, <1>7, <1>8, <1>9, <1>10
     DEF Next, Game, Player

(* guess is a binary search: every guess is the middle of what is left,    *)
(* every hint narrows it once, and only the number itself ends it with     *)
(* "bingo" (guess.c:21-34).                                                *)
THEOREM BinarySearchImplemented ==
  ASSUME Timely PROVE Spec => ImplementsBinarySearch
<1>1. Init => Search!Init
  BY DEF Init, Search!Init, Searching, Playing, searchLo, searchHi, searchState
<1>2. GInv /\ GInv' /\ [Next]_vars => [Search!Next]_(Search!vars)
  BY SearchStep
<1> QED
  BY <1>1, <1>2, TurnsInvariance, PTL DEF Spec, ImplementsBinarySearch, Search!Spec

=============================================================================

\* The timer may overtake game.
SPECIFICATION FairSpec
CONSTANTS
  Targets <- MCNumbers
  N = 5
  IntMax = 15
  Late = TRUE
PROPERTY UntilGuessed

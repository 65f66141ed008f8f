\* lab3: three programs, one after the other or together.
\* lab4: a name of four letters; frames arrive whole, or cut in two for a time.
\* hw1: two programs and two shops, with shortened distances.
SPECIFICATION DevicesSpec
CONSTANTS
  p1 = p1
  p2 = p2
  p3 = p3
  Programs <- MCPrograms
  Arg <- MCArg
  DefaultId <- MCDefaultId
  Size = 4
  Letters = 4
  MaxFrames = 3
  Menus <- MCMenus
  Shops <- MCShops
  Distance <- MCDistance
  Price <- MCPrice
  Amounts <- MCAmounts
  MaxAmount = 1
  MaxLed = 3
INVARIANTS TypesOK ReadsInside AllOffAtRest
PROPERTIES ImplementsMarquee EveryCharacterShown NeverBackwards LastLetterStays
\* all programs may have ended
CHECK_DEADLOCK FALSE

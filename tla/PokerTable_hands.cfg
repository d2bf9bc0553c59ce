\* Two hands of four players with nine chips, and of three with twelve, for every
\* division of the chips: side pots three deep, ties and odd chips, short and
\* deep stacks, every raise; in the second hand players are broke, or two are left.
CONSTANTS
  N = 4
  SmallBlind = 1
  BigBlind = 2
  Bank = 9
  DeepBank = 12
  Stacks <- MCStacks
  MaxHands = 2
SPECIFICATION Spec
CHECK_DEADLOCK FALSE
INVARIANTS TypeOK BettingIsCoherent BotsAreNeverRefused PotIsSettledFairly
PROPERTIES IsAHand ChipsAreConserved HandsShorten

SPECIFICATION FairSpec
CONSTANTS
  Klippers <- MCKlippers
  Extensions <- MCExtensions
  Good <- MCGood
  Images <- MCImages
  Seed <- MCSeed
  Contains <- MCContains
  Immutable = Immutable
  Nothing = Nothing
  NoRecord = NoRecord
  MidUpdates = TRUE
  Budget <- AnyFault
INVARIANT SeenIsJudged
INVARIANT NeverStuck
INVARIANT PendingKeepsLock
INVARIANT FallbackStands
PROPERTY KeepsTheJudgement
PROPERTY ChangeIsJudged
PROPERTY BadIsReplaced

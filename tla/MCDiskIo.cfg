CONSTANTS
  Cards = {"A", "B", "M"}
  NoCard = "no card"
  Kind <- MCKind
  LAST_SECTOR = 2
  Values = {"old", "new"}
  MAX_COUNT = 2
  MAX_TROUBLES = 2
  MAX_SWAPS = 3
SPECIFICATION FairSpec
INVARIANTS TypeOK
PROPERTIES IsBlockDevice OtherCardsUntouched MountsAtLast TransfersReturn
CHECK_DEADLOCK FALSE

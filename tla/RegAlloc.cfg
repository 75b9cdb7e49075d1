CONSTANTS
  Interval = {1, 2, 3, 4, 5, 6, 7, 8, 9, 10, 11, 12, 13, 14, 15, 16, 17, 18, 19, 20, 21, 22, 23, 24}
  FirstReg = 4
  LastReg = 6
  MaxNo = 24
  Length = 6
  MaxPieces = 5
  MaxUses = 2
  MaxLocals = 1
  NearSlots = 2
SPECIFICATION FairRASpec
INVARIANTS
  ValuesPreserved
  SpilledOnlyOnce
  WrittenRegsAreSaved
PROPERTIES
  AllocationEnds
CHECK_DEADLOCK FALSE

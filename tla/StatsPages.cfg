SPECIFICATION Spec
CONSTANTS
  Users = {1, 2}
  Keys = {1, 2, 3}
  Owner <- MCOwner
  NoKey = 0
  Kinds <- MCKinds
  Other = "other"
  Rate <- MCRate
  Windows = {0, 7}
  Anyone = 0
  TopN = 1
  MaxDays = 1
  Ladder <- MCLadder
  MaxBars = 3
  Early = {1, 2}
  Times = {0, 2, 9}
  Balances = {0, 1}
  MaxEntries = 3
INVARIANTS StatisticsAddUp ChartFits RollupsAddUp

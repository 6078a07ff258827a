CONSTANTS
  Schedules <- MCSchedules
  Truths <- MCTruths
  Hidden <- MCHidden
  MaxTime = 1
  MaxRates = 2
  Rows <- MCRows
  Runtimes <- MCRuntimes
  NoGroup = "none"
  Source = {"s1", "s2"}
  Model <- MCModels
  PageSize = 1
  MaxId = 3
SPECIFICATION MCSpec
INVARIANTS CostsAreTrue RanksAreEarned WalkIsComplete

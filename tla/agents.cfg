CONSTANTS
  Starts <- MCStarts
  Verified <- MCTasks
  StepReports <- MCStepReports
  LongNames = {"long"}
  Besides = {}
  Setups <- MCSetups
  TokenCeiling = 2
  StepCeiling = 2
  MaxAttempts = 3
  StepTokens = {0, 1, 3}
SPECIFICATION MainSpec
INVARIANTS AcceptedByTheServer CompletedNamesTheFinalTree AnswersAreAboutOneTree ZeroIsADeliveredPass CompletedWithinCeilings CleanMeansScanned ReportedIsPaid
PROPERTY RunEnds

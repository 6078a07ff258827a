CONSTANTS
  Caller = {c1, c2}
  Cap = 2
  Estimate = {1}
  Overrun = 1
  MaxHour = 1
  MaxCalls = 1
  MaxLost = 1
  Source = {s1}
  Benchmark = {"b1", "b2"}
  Score = {1, 2}
  Outputs <- MCOutputs
  Posts <- MCPosts
  Retries = 1
  MaxObserved = 2
SPECIFICATION WorkSpec
SYMMETRY Symmetry
INVARIANTS TallyIsExact AdmittedCallsFit FiguresAreBacked BookedIsCharged

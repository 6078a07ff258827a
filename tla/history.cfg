CONSTANTS
  s1 = s1
  s2 = s2
  r1 = r1
  w1 = w1
  k = k
  o = o
  None = None
  Default = Default
  Session <- Sessions
  Runtime <- Runtimes
  Profile <- Profiles
  ProfileOf <- ProfileOfRuntime
  TaskOf <- TaskOfProfile
  NeedsConfig = {"write"}
  Config = {k}
  Fits <- FitsBoth
  Option = {o}
  OptionTask <- OptionTasks
  Finding = {f1, f2}
  Threshold = 60
  MaxRevisions = 4
  MaxServed = 2
  MaxRuns = 1
SPECIFICATION Spec
SYMMETRY Symmetry
CONSTRAINT RatedEarly
INVARIANTS ConfigIsChosen ProjectIsItsPick QualityIsRecomputed
PROPERTY CommitsWhileRunnable

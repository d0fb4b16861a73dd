SPECIFICATION FairSpec
CONSTANTS
  o = o
  g = g
  h = h
  NoOne = NoOne
  JudgeRun = {j1}
  Job = {c1, c2}
  Permits = 1
  Retries = 1
  Environment <- Environments
INVARIANTS
  CallsInOrder
PROPERTIES
  EveryCallEnds
  TimedPhasesEnd

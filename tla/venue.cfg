SPECIFICATION FairSpec
CONSTANTS
  Callers = {c1, c2}
  Kinds = {"read", "order"}
  Windows <- TwoWindows
  Length <- Lengths
  Capacity <- Capacities
  Cost <- Costs
  MaxWait = 2
  Threshold = 2
  Cooldown = 2
  MaxPenalty = 3
  Reports = {0, 3}
INVARIANTS
  WithinBudget
PROPERTIES
  EveryCallEnds
  EventuallySilent

SPECIFICATION FairSpec
CONSTANTS
  Chips <- FiveChips
  Waiting <- TwoTasks
  SpiIdle = 5
INVARIANTS
  NoEdgeLost
PROPERTIES
  Eth0WakesOnEdge
  EdgeWakes
CHECK_DEADLOCK FALSE

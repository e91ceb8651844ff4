CONSTANTS
  Loads = {l1, l2}
  QueueSize = 1
  MaxChanges = 2
  MaxFaults = 1
SPECIFICATION FairSpec
INVARIANTS HeardIsShown
PROPERTIES KeepsPromise CatchesUp WriteShown

CONSTANTS
  Papers = {p1, p2}
  Frail = {p1}
  Workers = {w1, w2}
  Runs = {r1}
  Loads = {l1, l2}
  Limit = 2
  MaxRuns = 1
  MaxCorrections = 1
  MaxFaults = 1
SPECIFICATION FairSpec
INVARIANTS MarksCurrent  NoticeHonest
PROPERTIES  MarksReturn
CHECK_DEADLOCK FALSE

CONSTANTS
  Last = 1
  CodeQs = {}
  MaxOps = 2
  MaxReloads = 1
SPECIFICATION Spec
INVARIANTS AckedKeptAcrossReloads
CHECK_DEADLOCK FALSE

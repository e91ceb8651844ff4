CONSTANTS
  Last = 2
  CodeQs = {2}
  MaxOps = 2
  MaxReloads = 2
SPECIFICATION FairSpec
INVARIANTS AckedKept FlagsAgree ReceiptFinal
PROPERTIES NeverBack ExpirySettles
CHECK_DEADLOCK FALSE

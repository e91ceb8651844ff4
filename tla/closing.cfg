CONSTANTS
  Conns = {c1}
  Exams = {e1, e2}
  Students = {s1}
  Questions = {q1}
  TextQs = {}
  Seats = 1
  Keys = {"none"}
  Duration = 1
  MaxTime = 3
  MaxClientSeq = 1
  MaxEvents = 3
  Ops <- ClosingOps
  draw_paper <- WholePaper
SPECIFICATION LiveFairSpec
PROPERTIES LiveExamCloses
CHECK_DEADLOCK FALSE

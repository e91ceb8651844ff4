CONSTANTS
  Conns = {c1, c2}
  Exams = {e1}
  Students = {s1}
  Questions = {q1}
  TextQs = {}
  Seats = 1
  Keys = {"none"}
  Duration = 1
  MaxTime = 3
  MaxClientSeq = 1
  MaxEvents = 3
  Ops <- SittingOps
  draw_paper <- WholePaper
SPECIFICATION LiveSpec
INVARIANTS GradedWhenClosed
 
SYMMETRY ConnSymmetry
CHECK_DEADLOCK FALSE

CONSTANTS
  Conns = {c1}
  Exams = {e1}
  Students = {s1, s2, s3}
  Questions = {q1}
  TextQs = {}
  Seats = 2
  Keys = {"none", "k1"}
  Duration = 1
  MaxTime = 3
  MaxClientSeq = 1
  MaxEvents = 4
  Ops <- LifecycleOps
  draw_paper <- WholePaper
SPECIFICATION Spec
INVARIANTS TypeOK NobodyLeftOpen RosterSeated
PROPERTIES ExamMovesLegal StampedOnce
CHECK_DEADLOCK FALSE

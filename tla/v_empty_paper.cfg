CONSTANTS
  Conns = {c1}
  Exams = {e1, e2}
  Students = {s1}
  Questions = {q1}
  TextQs = {}
  Seats = 1
  Keys = {"none"}
  Duration = 1
  MaxTime = 2
  MaxClientSeq = 1
  MaxEvents = 3
  Ops <- EmptyPaperOps
  draw_paper <- WholePaper
SPECIFICATION FairSpec
PROPERTIES HealthyExamCloses
CHECK_DEADLOCK FALSE

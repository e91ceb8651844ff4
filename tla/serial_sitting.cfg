CONSTANTS
  Conns = {c1}
  Exams = {e1}
  Students = {s1}
  Questions = {q1, q2}
  TextQs = {q2}
  Seats = 1
  Keys = {"none"}
  Duration = 1
  MaxTime = 3
  MaxClientSeq = 2
  MaxEvents = 3
  Ops <- MarkingOps
  draw_paper <- WholePaper
SPECIFICATION LiveSpec
INVARIANTS ResultCurrent
PROPERTIES AnswersFrozen
CHECK_DEADLOCK FALSE

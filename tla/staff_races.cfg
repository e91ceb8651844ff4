CONSTANTS
  Conns = {c1, c2}
  Exams = {e1}
  Students = {s1, s2}
  Questions = {q1}
  TextQs = {}
  Seats = 2
  Keys = {"none"}
  Duration = 1
  MaxTime = 2
  MaxClientSeq = 0
  MaxEvents = 3
  Ops <- StaffRaceOps
  draw_paper <- WholePaper
SPECIFICATION RaceSpec
INVARIANTS ReceiptComplete WindowCoherent ManualSubmissionGraded AnswersOnlyAfterRelease 
SYMMETRY RaceSymmetry
CHECK_DEADLOCK FALSE

------------------------------ MODULE ExamSerial ------------------------------
(***************************************************************************)
(* The backend as its handlers are written: each request, and each pass of *)
(* the sweep, one operation on the database, with nobody else between what *)
(* it reads and what it writes.  ExamLifecycle implements this             *)
(* specification when one transaction is open at a time (SerialProofs);    *)
(* the races of several are what it leaves out.                            *)
(***************************************************************************)
EXTENDS ExamSafety

\* The moments a handler may have stamped: the clock may have run on since.
Past == 1..now

Creates(e, R, P) ==
  /\ "create_exam" \in Ops
  /\ exam[e].status = "NONE"
  /\ P # {}
  /\ exam' = [exam EXCEPT ![e].status = "DRAFT"]
  /\ roster' = [roster EXCEPT ![e] = R]
  /\ paper' = [paper EXCEPT ![e] = P]
  /\ UNCHANGED <<session, answer, result>>

Publishes(e, published) ==
  /\ "publish_results" \in Ops
  /\ exam' = [exam EXCEPT ![e].published = published]
  /\ exam[e].status # "NONE"
  /\ UNCHANGED <<roster, paper, session, answer, result>>

\* A draft's roster, or paper, or both, replaced as a whole.
Edits(e, Rs, Ps) ==
  /\ "update_exam" \in Ops
  /\ exam[e].status = "DRAFT"
  /\ roster' = [roster EXCEPT ![e] = IF Rs = {} THEN @ ELSE UNION Rs]
  /\ paper' = [paper EXCEPT ![e] = IF Ps = {} THEN @ ELSE UNION Ps]
  /\ UNCHANGED <<exam, session, answer, result>>

\* The state machine lets the examination move on.
Movable(e, status) == exam[e].status # "NONE" /\ can_exam_move(exam[e].status, status)

\* Everyone enrolled who has no session gets one, in a room that holds them all.
Schedules(e, enrolled) ==
  /\ "schedule_exam" \in Ops
  /\ Movable(e, "SCHEDULED")
  /\ enrolled \in Orders(roster[e])
  /\ capacity_shortfall(Cardinality(roster[e]), Seats) = 0
  /\ session' = [session EXCEPT ![e] = WithSeats(@, NewSeats(enrolled, @))]
  /\ exam' = [exam EXCEPT ![e] = Scheduled(@, @)]
  /\ UNCHANGED <<roster, paper, answer, result>>

Starts(e, at, key) ==
  /\ "start_exam" \in Ops
  /\ Movable(e, "LIVE")
  /\ exam' = [exam EXCEPT ![e] = Started(@, @, at, key)]
  /\ session' = [session EXCEPT ![e] = [s \in Students |-> Released(@[s], @[s], at)]]
  /\ UNCHANGED <<roster, paper, answer, result>>

EndsEarly(e, at) ==
  /\ "end_exam" \in Ops
  /\ Movable(e, "ENDING")
  /\ exam' = [exam EXCEPT ![e] = Ended(@, @, at)]
  /\ session' = [session EXCEPT ![e] = [s \in Students |-> ClosedEarly(@[s], @[s], at)]]
  /\ UNCHANGED <<roster, paper, answer, result>>

\* An examination given a new status, and its event the next number.
Numbered(x, status) == [x EXCEPT !.status = status, !.seq = @ + 1]

Cancels(e) ==
  /\ "cancel_exam" \in Ops
  /\ Movable(e, "CANCELLED")
  /\ exam' = [exam EXCEPT ![e] = Numbered(@, "CANCELLED")]
  /\ session' = [session EXCEPT ![e] = [s \in Students |-> Cancelled(@[s], @[s])]]
  /\ UNCHANGED <<roster, paper, answer, result>>

ChecksIn(e, s, machine) ==
  /\ "check_in" \in Ops
  /\ session[e][s].status # "NONE"
  /\ session' = [session EXCEPT ![e][s] = Entered(@, @, draw_paper(s, paper[e]), machine)]
  /\ UNCHANGED <<exam, roster, paper, answer, result>>

\* A write is taken from a candidate who is answering a live examination.
Saves(e, s, q, v, n) ==
  /\ "save_answer" \in Ops
  /\ accepts_candidate_writes(exam[e].status, session[e][s].status)
  /\ ~OutOfOrder(n, answer[e][s][q].seq)
  /\ answer' = [answer EXCEPT ![e][s][q] = Saved(@, @, v, n)]
  /\ UNCHANGED <<exam, roster, paper, session, result>>

Flags(e, s, q) ==
  /\ "toggle_flag" \in Ops
  /\ accepts_candidate_writes(exam[e].status, session[e][s].status)
  /\ answer' = [answer EXCEPT ![e][s][q] = Flagged(@, @)]
  /\ UNCHANGED <<exam, roster, paper, session, result>>

\* What grading makes of the tables as they stand.
Score(e, s) == score_paper(paper[e], session[e][s].order, answer[e][s])

\* A paper is handed in before its deadline and graded with the same stroke.
HandsIn(e, s, at) ==
  /\ "submit" \in Ops
  /\ accepts_candidate_writes(exam[e].status, session[e][s].status)
  /\ exam[e].ends_at = 0 \/ at <= exam[e].ends_at
  /\ session' = [session EXCEPT ![e][s] = HandedIn(@, @, at)]
  /\ result' = [result EXCEPT ![e][s] = Score(e, s)]
  /\ UNCHANGED <<exam, roster, paper, answer>>

Awards(e, s, q, marks) ==
  /\ "award_marks" \in Ops
  /\ answer[e][s][q].value # "absent"
  /\ q \in TextQs \cap paper[e]
  /\ answer' = [answer EXCEPT ![e][s][q].award = marks]
  /\ result' = [result EXCEPT ![e][s] =
       score_paper(paper[e], session[e][s].order, [answer[e][s] EXCEPT ![q].award = marks])]
  /\ UNCHANGED <<exam, roster, paper, session>>

\* The examinations whose deadline had passed at a given moment.
ExpiredAt(at) == {e \in Exams : exam[e].status \in {"LIVE", "ENDING"}
                                /\ exam[e].ends_at # 0 /\ exam[e].ends_at <= at}

\* They are all closed, and who was still answering is graded.
Sweeps(at) ==
  /\ "sweep_once" \in Ops
  /\ ExpiredAt(at) # {}
  /\ exam' = [e \in Exams |->
       IF e \in ExpiredAt(at) THEN Numbered(exam[e], "COMPLETED") ELSE exam[e]]
  /\ session' = [e \in Exams |-> [s \in Students |->
       IF e \in ExpiredAt(at) THEN Swept(session[e][s], session[e][s], at) ELSE session[e][s]]]
  /\ result' = [e \in Exams |-> [s \in Students |->
       IF e \in ExpiredAt(at) /\ session[e][s].status \in SWEEPABLE_TO_AUTO_SUBMIT
         THEN Score(e, s) ELSE result[e][s]]]
  /\ UNCHANGED <<roster, paper, answer>>

StaffAct(e) ==
  \/ \E R \in SUBSET Students, P \in SUBSET Questions : Creates(e, R, P)
  \/ \E published \in BOOLEAN : Publishes(e, published)
  \/ \E Rs \in AtMostOne(SUBSET Students), Ps \in AtMostOne(SUBSET Questions) : Edits(e, Rs, Ps)
  \/ \E enrolled \in Orders(roster[e]) : Schedules(e, enrolled)
  \/ \E at \in Past : (\E key \in Keys : Starts(e, at, key)) \/ EndsEarly(e, at)
  \/ Cancels(e)

CandidateAct(e, s) ==
  \/ \E machine \in {0, 1} : ChecksIn(e, s, machine)
  \/ \E q \in Questions :
       \/ \E v \in Values, n \in 0..MaxClientSeq : Saves(e, s, q, v, n)
       \/ Flags(e, s, q)
       \/ \E marks \in {0, 1} : Awards(e, s, q, marks)
  \/ \E at \in Past : HandsIn(e, s, at)

SerialInit == /\ now = 1
              /\ exam = [e \in Exams |-> NoExam]
              /\ roster = [e \in Exams |-> {}] /\ paper = [e \in Exams |-> {}]
              /\ session = NoSessions /\ answer = NoAnswers /\ result = NoResults

SerialNext ==
  \/ now' = now + 1 /\ UNCHANGED db
  \/ /\ \/ \E e \in Exams : StaffAct(e) \/ \E s \in Students : CandidateAct(e, s)
        \/ \E at \in Past : Sweeps(at)
     /\ UNCHANGED now

\* One operation after another.
SerialSpec == SerialInit /\ [][SerialNext]_<<now, db>>

\* No two transactions are open at once.
OneConnection == \E c : Conns = {c}
==============================================================================

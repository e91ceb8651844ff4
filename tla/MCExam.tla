-------------------------------- MODULE MCExam --------------------------------
(***************************************************************************)
(* Instances of ExamLifecycle for TLC: which requests are made in a run,   *)
(* and the reachable state it starts from.                                 *)
(***************************************************************************)
EXTENDS ExamSafety, TLC

\* Everybody draws the whole paper: questions_per_student = 0, the default.
WholePaper(s, p) == p

-----------------------------------------------------------------------------
(* Which requests are made.                                                 *)

\* An examination from its creation to its close, without single answers.
LifecycleOps == StaffOps \cup {"create_exam", "check_in", "submit", "sweep_once"}

\* Every staff command against a candidate's check-in, save and submission.
StaffRaceOps == LifecycleOps \cup {"save_answer"}

\* Preparing an examination, up to its seating.
SeatingOps == {"create_exam", "update_exam", "schedule_exam"}

\* What a candidate's browser asks for, beside the sweep; then with a marker and
\* the publication of results.
SittingOps == CandidateOps \cup {"sweep_once"}
MarkingOps == SittingOps \cup {"award_marks", "publish_results"}

\* Examinations running to their deadline while staff and candidates act.
ClosingOps == {"submit", "check_in", "end_exam", "cancel_exam", "sweep_once"}

\* An examination whose paper was emptied in the draft editor.
EmptyPaperOps == {"create_exam", "update_exam", "schedule_exam", "start_exam", "sweep_once"}

-----------------------------------------------------------------------------
(* Where it starts.                                                         *)

SeatOf == CHOOSE f \in [Students -> 1..Seats] : \A s, r \in Students : s # r => f[s] # f[r]

\* Every examination was created with the whole roster and the whole bank,
\* scheduled, and started at time 1.
LiveInit ==
  /\ now = 1
  /\ exam = [e \in Exams |-> [NoExam EXCEPT !.status = "LIVE", !.seq = 2,
                                            !.starts_at = 1, !.ends_at = 1 + Duration]]
  /\ roster = [e \in Exams |-> Students]
  /\ paper = [e \in Exams |-> Questions]
  /\ session = [e \in Exams |-> [s \in Students |->
                  [NoSession EXCEPT !.status = "ACTIVE", !.seat = SeatOf[s], !.started_at = 1]]]
  /\ answer = NoAnswers
  /\ result = NoResults
  /\ txn = [c \in Conns |-> Idle]

LiveSpec     == LiveInit /\ [][Next]_vars
LiveFairSpec == LiveSpec /\ Fairness

-----------------------------------------------------------------------------
(* Races over the whole life of an examination.                             *)

\* The requests in flight and the candidates a request or a row names.
InFlight  == {txn[c].op : c \in Conns} \ {"idle"}
Concerned == UNION ({roster[e] : e \in Exams}
                    \cup {{s \in Students : session[e][s].status # "NONE"} : e \in Exams}
                    \cup {UNION txn[c].arg.roster : c \in Conns})

\* A second candidate takes part in the races of preparing an examination; past
\* its seating the races are those of a single candidate and the staff.
Contained == \/ Cardinality(Concerned) <= 1
             \/ /\ InFlight \subseteq SeatingOps
                /\ \A e \in Exams : exam[e].status \in {"NONE", "DRAFT", "READY"}

RaceNext == Next /\ Contained'
RaceSpec == Init /\ [][RaceNext]_vars

ConnSymmetry == Permutations(Conns)
RaceSymmetry == Permutations(Conns) \cup Permutations(Students)
==============================================================================

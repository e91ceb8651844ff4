----------------------------- MODULE SerialProofs -----------------------------
(***************************************************************************)
(* One transaction at a time.  On a single connection every handler is     *)
(* atomic: what it loaded is still what the tables hold when it commits    *)
(* (Current), so ExamLifecycle implements ExamSerial, and the claims the   *)
(* documentation makes of the backend are proved of that.  Each theorem    *)
(* says so: its hypothesis is OneConnection.                               *)
(***************************************************************************)
EXTENDS ExamSerial, ExamProofs

\* Two copies of an examination agree in every column but published, which
\* publish_results may write while a command is open.
SameColumns(x, y) == /\ x.status = y.status /\ x.starts_at = y.starts_at /\ x.ends_at = y.ends_at
                     /\ x.key = y.key /\ x.seq = y.seq

\* The status each command moves the examination towards.
Target == [schedule_exam |-> "SCHEDULED", start_exam |-> "LIVE",
           end_exam |-> "ENDING", cancel_exam |-> "CANCELLED"]

\* An open command on e: the row it loaded is the row, its guard still holds, and
\* so do its sessions, and its rows to delete, once they are loaded.
StaffCurrent(c, e) ==
  LET t == txn[c]
  IN  /\ t.op \in StaffOps /\ t.es = {e}
      /\ exam[e].status # "NONE" /\ SameColumns(t.x[e], exam[e])
      /\ t.op # "update_exam" => can_exam_move(exam[e].status, Target[t.op])
      /\ t.op = "update_exam" => /\ exam[e].status = "DRAFT"
                                 /\ t.arg.roster \in AtMostOne(SUBSET Students)
                                 /\ t.arg.paper \in AtMostOne(SUBSET Questions)
      /\ t.pc = "loaded" =>
           /\ t.op # "update_exam" => t.ss[e] = session[e]
           /\ t.op = "update_exam" =>
                /\ t.arg.old_roster = IF t.arg.roster = {} THEN {} ELSE roster[e]
                /\ t.arg.old_paper = IF t.arg.paper = {} THEN {} ELSE paper[e]
           /\ t.op = "schedule_exam" =>
                /\ t.arg.enrolled \in Orders(roster[e])
                /\ capacity_shortfall(Cardinality(roster[e]), Seats) = 0

\* What grading reads of a session.
GradesFrom(t, e, s) ==
  t.paper[e] = paper[e] /\ t.ans[e][s] = answer[e][s] /\ t.has[e][s] = result[e][s]

\* An open request of the candidate s of e.
CandidateCurrent(c, e, s) ==
  LET t == txn[c]
  IN  /\ t.op \in CandidateOps /\ t.es = {e} /\ t.who = {s}
      /\ t.ss[e][s] = session[e][s]
      /\ t.op = "check_in" => t.arg.n \in {0, 1} /\ session[e][s].status # "NONE"
      /\ t.op # "check_in" => session[e][s].status = "ACTIVE"
      /\ t.op \in {"save_answer", "toggle_flag"} => t.arg.q \in Questions
      /\ t.op = "save_answer" => t.arg.v \in Values
      /\ t.pc = "loaded" =>
           /\ t.op = "check_in" => t.paper[e] = paper[e]
           /\ t.op # "check_in" => exam[e].status = "LIVE"
           /\ t.op \in {"save_answer", "toggle_flag"} =>
                t.ans[e][s][t.arg.q] = answer[e][s][t.arg.q]
           /\ t.op = "save_answer" => ~OutOfOrder(t.arg.n, answer[e][s][t.arg.q].seq)
           /\ t.op = "submit" => /\ GradesFrom(t, e, s)
                                 /\ 0 < t.at /\ (exam[e].ends_at = 0 \/ t.at <= exam[e].ends_at)

\* An open request of a marker.
MarkerCurrent(c, e, s) ==
  LET t == txn[c]
  IN  /\ t.op = "award_marks" /\ t.es = {e} /\ t.who = {s}
      /\ t.arg.q \in TextQs /\ answer[e][s][t.arg.q].value # "absent"
      /\ t.pc = "loaded" =>
           t.ss[e][s] = session[e][s] /\ t.arg.q \in paper[e] /\ GradesFrom(t, e, s)

\* An open sweep: the examinations it found expired are those.
SweepCurrent(c) ==
  LET t == txn[c]
  IN  /\ t.op = "sweep_once" /\ t.es = ExpiredAt(t.at) /\ t.es # {} /\ 0 < t.at
      /\ \A e \in t.es : SameColumns(t.x[e], exam[e])
      /\ t.pc = "loaded" => \A e \in t.es : /\ t.ss[e] = session[e]
                                            /\ \A s \in Students : GradesFrom(t, e, s)

\* What the only transaction holds is what the database holds.
Current(c) ==
  /\ txn[c].op \in Ops \cup {"idle"}
  /\ txn[c].at <= now
  /\ \A e \in Exams, s \in Students, q \in Questions :
        txn[c].ans[e][s][q] \in {NoAnswer, answer[e][s][q]}
  /\ \/ txn[c].op = "idle"
     \/ \E e \in Exams : StaffCurrent(c, e)
     \/ \E e \in Exams, s \in Students : CandidateCurrent(c, e, s) \/ MarkerCurrent(c, e, s)
     \/ SweepCurrent(c)

\* An examination as the operations leave it, one after another: only statuses a
\* command stores, no session before the seating and no window before the start,
\* a receipt on nothing but a submitted session, nobody left sitting when it is
\* over, and from READY on the sessions of its roster, each at a workstation.
Orderly(e) ==
  /\ exam[e].status \in {"NONE", "DRAFT", "READY", "LIVE", "COMPLETED", "CANCELLED"}
  /\ exam[e].status \in {"NONE", "DRAFT"} => \A s \in Students : session[e][s] = NoSession
  /\ exam[e].status \in {"NONE", "DRAFT", "READY"} => exam[e].starts_at = 0
  /\ \A s \in Students : session[e][s].rid # 0 => session[e][s].status \in Submitted
  /\ exam[e].status \in {"COMPLETED", "CANCELLED"} =>
       \A s \in Students : session[e][s].status \in Terminal \cup {"NONE"}
  /\ exam[e].status \in {"READY", "LIVE", "COMPLETED"} =>
       /\ {s \in Students : session[e][s].status # "NONE"} = roster[e]
       /\ \A s \in roster[e] : session[e][s].seat # 0

SerialDb == \A e \in Exams : Orderly(e)

SerialInv == SafeInv /\ SerialDb /\ \A c \in Conns : Current(c)
-----------------------------------------------------------------------------
(* Rows.                                                                    *)

\* A SELECT returns the rows as they are.
LEMMA LoadedRow ==
  ASSUME NEW table, NEW none, NEW es, NEW who, NEW e \in Exams, NEW s \in Students, e \in es, s \in who
  PROVE  Loaded(table, none, es, who)[e][s] = table[e][s]
  BY DEF Loaded

LEMMA LoadedSessions ==
  ASSUME SafeInv, NEW es, NEW e \in Exams, e \in es
  PROVE  Loaded(session, NoSession, es, Students)[e] = session[e]
  <1>1. Loaded(session, NoSession, es, Students)[e] = [s \in Students |-> session[e][s]]
    BY DEF Loaded
  <1>2. session[e] \in [Students -> SessionRow]
    BY DEF SafeInv, TypeInv, TypeOK
  <1> QED BY <1>1, <1>2

\* What grade reads beside the answers it has is what the tables hold.
LEMMA GradeInputsRead ==
  ASSUME TypeOK, NEW t \in Txn, NEW es, NEW who, NEW e \in Exams, NEW s \in Students,
         e \in es, s \in who,
         \A q \in Questions : t.ans[e][s][q] \in {NoAnswer, answer[e][s][q]}
  PROVE  GradesFrom(GradeInputs(t, es, who), e, s)
  <1> DEFINE g == GradeInputs(t, es, who)
  <1>1. g.paper = [f \in Exams |-> IF f \in es THEN paper[f] ELSE {}]
    BY DEF GradeInputs, Txn
  <1>2. g.ans = [f \in Exams |-> [r \in Students |-> [q \in Questions |->
                   IF f \in es /\ r \in who /\ t.ans[f][r][q] = NoAnswer
                     THEN answer[f][r][q] ELSE t.ans[f][r][q]]]]
    BY DEF GradeInputs, Txn
  <1>3. g.has = Loaded(result, NoResult, es, who)
    BY DEF GradeInputs, Txn
  <1> HIDE DEF g
  <1>4. g.paper[e] = paper[e]
    BY <1>1
  <1>5. g.ans[e][s] = [q \in Questions |->
                         IF t.ans[e][s][q] = NoAnswer THEN answer[e][s][q] ELSE t.ans[e][s][q]]
    BY <1>2
  <1>6. g.ans[e][s] = [q \in Questions |-> answer[e][s][q]]
    BY <1>5
  <1>7. answer[e][s] \in [Questions -> AnswerRow]
    BY DEF TypeOK
  <1>8. g.ans[e][s] = answer[e][s]
    BY <1>6, <1>7
  <1>9. g.has[e][s] = result[e][s]
    BY <1>3, LoadedRow
  <1>10. GradesFrom(g, e, s)
    BY <1>4, <1>8, <1>9 DEF GradesFrom
  <1> QED BY <1>10 DEF g

\* No answer a load adds is another than the table's.
LEMMA GradeInputsAnswers ==
  ASSUME NEW t \in Txn, NEW es, NEW who,
         NEW e \in Exams, NEW s \in Students, NEW q \in Questions,
         t.ans[e][s][q] \in {NoAnswer, answer[e][s][q]}
  PROVE  GradeInputs(t, es, who).ans[e][s][q] \in {NoAnswer, answer[e][s][q]}
  <1>1. GradeInputs(t, es, who).ans = [f \in Exams |-> [r \in Students |-> [k \in Questions |->
                   IF f \in es /\ r \in who /\ t.ans[f][r][k] = NoAnswer
                     THEN answer[f][r][k] ELSE t.ans[f][r][k]]]]
    BY DEF GradeInputs, Txn
  <1> QED BY <1>1

\* A result graded over the row it read is the new score.
LEMMA GradedOver ==
  ASSUME NEW cur \in ResultRow, NEW new \in ResultRow, new.graded
  PROVE  GradedRow(cur, cur, new) = new
  BY DEF GradedRow, Write, ResultRow

\* What a command writes to an examination depends on no column it may have
\* missed.
LEMMA ExamWrites ==
  ASSUME NEW cur \in ExamRow, NEW read \in ExamRow, SameColumns(read, cur), NEW at, NEW key
  PROVE  /\ Scheduled(cur, read) = Scheduled(cur, cur)
         /\ Started(cur, read, at, key) = Started(cur, cur, at, key)
         /\ Ended(cur, read, at) = Ended(cur, cur, at)
         /\ read.seq = cur.seq
  BY DEF SameColumns, Scheduled, Started, Ended, Write, ExamRow

\* An examination that a command or a session is about exists.
LEMMA SessionHasExam ==
  ASSUME SafeInv, SerialDb, NEW e \in Exams, NEW s \in Students
  PROVE  /\ session[e][s].status # "NONE" => exam[e].status \notin {"NONE", "DRAFT"}
         /\ \A q \in Questions : answer[e][s][q].value # "absent" => session[e][s].status # "NONE"
  <1>1. exam[e].status \in {"NONE", "DRAFT"} => session[e][s].status = "NONE"
    BY DEF SerialDb, Orderly, NoSession
  <1>2. session[e][s].status = "NONE" => session[e][s].started_at = 0
    BY DEF SafeInv, SafeDb, RowOK, NoSession
  <1> QED BY <1>1, <1>2 DEF SafeInv, SafeDb, AnswersOnlyAfterRelease

-----------------------------------------------------------------------------
(* What stays current while the transaction waits.                          *)

\* The clock, a publication and a new examination change nothing that the open
\* transaction has read.
LEMMA StillCurrent ==
  ASSUME SafeInv, SerialDb, NEW c \in Conns, Current(c), UNCHANGED <<session, answer, result, txn>>,
         now \in Nat, now' \in Nat, now <= now',
         \A f \in Exams : exam[f].status = "NONE" => exam'[f].status \in {"NONE", "DRAFT"},
         \A f \in Exams : exam[f].status # "NONE" =>
            SameColumns(exam'[f], exam[f]) /\ roster'[f] = roster[f] /\ paper'[f] = paper[f]
  PROVE  Current(c)'
  <1>0. txn[c] \in Txn
    BY DEF SafeInv, TypeInv, TypedTxn
  <1>1. (txn[c].at <= now)'
    BY <1>0 DEF Current, Txn
  <1>2. ASSUME NEW e \in Exams, StaffCurrent(c, e) PROVE StaffCurrent(c, e)'
    BY <1>2 DEF StaffCurrent, SameColumns
  <1>3. ASSUME NEW e \in Exams, NEW s \in Students, CandidateCurrent(c, e, s)
        PROVE  CandidateCurrent(c, e, s)'
    <2>1. session[e][s].status # "NONE"
      BY <1>3 DEF CandidateCurrent
    <2>2. SameColumns(exam'[e], exam[e]) /\ paper'[e] = paper[e]
      BY <2>1, SessionHasExam
    <2> QED BY <1>3, <2>2 DEF CandidateCurrent, GradesFrom, SameColumns
  <1>4. ASSUME NEW e \in Exams, NEW s \in Students, MarkerCurrent(c, e, s)
        PROVE  MarkerCurrent(c, e, s)'
    <2>1. session[e][s].status # "NONE"
      BY <1>4, SessionHasExam, ConstantsAssumption DEF MarkerCurrent
    <2>2. paper'[e] = paper[e]
      BY <2>1, SessionHasExam
    <2> QED BY <1>4, <2>2 DEF MarkerCurrent, GradesFrom
  <1>5. ASSUME SweepCurrent(c) PROVE SweepCurrent(c)'
    <2>1. ExpiredAt(txn[c].at)' = ExpiredAt(txn[c].at)
      BY DEF ExpiredAt, SameColumns
    <2>2. \A e \in txn[c].es : SameColumns(exam'[e], exam[e]) /\ paper'[e] = paper[e]
      BY <1>5 DEF SweepCurrent, ExpiredAt
    <2> QED BY <1>5, <2>1, <2>2 DEF SweepCurrent, GradesFrom, SameColumns
  <1> QED BY <1>1, <1>2, <1>3, <1>4, <1>5 DEF Current

-----------------------------------------------------------------------------
(* Beginning.                                                               *)

\* Current, after a step that hands connection c the transaction t.
LEMMA NowCurrent ==
  ASSUME NEW c \in Conns, UNCHANGED <<now, db>>, txn'[c].op \in Ops \cup {"idle"}, txn'[c].at <= now,
         \A e \in Exams, s \in Students, q \in Questions :
            txn'[c].ans[e][s][q] \in {NoAnswer, answer[e][s][q]},
         \/ txn'[c].op = "idle"
         \/ \E e \in Exams : StaffCurrent(c, e)'
         \/ \E e \in Exams, s \in Students : CandidateCurrent(c, e, s)' \/ MarkerCurrent(c, e, s)'
         \/ SweepCurrent(c)'
  PROVE  Current(c)'
  BY DEF Current, db

LEMMA IdleAnswers ==
  /\ \A e \in Exams, s \in Students, q \in Questions : Idle.ans[e][s][q] = NoAnswer
  /\ Idle.op = "idle" /\ Idle.at = 0
  BY DEF Idle, NoAnswers

LEMMA StaffBeginCurrent ==
  ASSUME SafeInv, NEW c \in Conns, NEW e \in Exams, StaffBegin(c, e)
  PROVE  Current(c)'
  <1>0. txn \in [Conns -> Txn] /\ exam \in [Exams -> ExamRow] /\ now \in Nat
    BY DEF SafeInv, TypeInv, TypeOK, Time
  <1>1. ASSUME NEW op \in StaffOps, NEW arg, Begin(c, StaffTxn(op, e, arg)), exam[e].status # "NONE",
               op # "update_exam" => can_exam_move(exam[e].status, Target[op]),
               op = "update_exam" => /\ exam[e].status = "DRAFT"
                                     /\ arg.roster \in AtMostOne(SUBSET Students)
                                     /\ arg.paper \in AtMostOne(SUBSET Questions)
        PROVE  Current(c)'
    <2> DEFINE t == StaffTxn(op, e, arg)
    <2>1. /\ t.op = op /\ t.pc = "begun" /\ t.es = {e} /\ t.arg = arg /\ t.ans = Idle.ans /\ t.at = 0
          /\ t.x = [Idle.x EXCEPT ![e] = exam[e]]
      BY DEF StaffTxn, Idle
    <2>2. t.x[e] = exam[e]
      <3>1. Idle.x = [f \in Exams |-> NoExam]
        BY DEF Idle
      <3> QED BY <2>1, <3>1
    <2>3. txn'[c] = t /\ UNCHANGED <<now, db>> /\ t.op \in Ops
      BY <1>0, <1>1 DEF Begin
    <2> HIDE DEF t
    <2>4. StaffCurrent(c, e)'
      BY <1>1, <2>1, <2>2, <2>3 DEF StaffCurrent, SameColumns, db
    <2>5. /\ txn'[c].op \in Ops \cup {"idle"} /\ txn'[c].at <= now
          /\ \A f \in Exams, s \in Students, q \in Questions : txn'[c].ans[f][s][q] = NoAnswer
      BY <1>0, <2>1, <2>3, IdleAnswers
    <2> QED BY <2>3, <2>4, <2>5, NowCurrent
  <1>2. ASSUME NEW Rs \in AtMostOne(SUBSET Students), NEW Ps \in AtMostOne(SUBSET Questions),
               update_exam_begin(c, e, Rs, Ps)
        PROVE  Current(c)'
    <2> DEFINE arg == [NoArg EXCEPT !.roster = Rs, !.paper = Ps]
    <2>1. arg.roster = Rs /\ arg.paper = Ps
      BY DEF NoArg
    <2>2. Begin(c, StaffTxn("update_exam", e, arg)) /\ exam[e].status = "DRAFT"
      BY <1>2 DEF update_exam_begin
    <2> HIDE DEF arg
    <2> QED BY <1>1, <2>1, <2>2 DEF StaffOps
  <1>3. ASSUME schedule_exam_begin(c, e) PROVE Current(c)'
    BY <1>1, <1>3 DEF schedule_exam_begin, StaffOps, Target
  <1>4. ASSUME NEW key \in Keys, start_exam_begin(c, e, key) PROVE Current(c)'
    <2> DEFINE arg == [NoArg EXCEPT !.key = key]
    <2>1. /\ Begin(c, StaffTxn("start_exam", e, arg)) /\ exam[e].status # "NONE"
          /\ can_exam_move(exam[e].status, Target["start_exam"])
      BY <1>4 DEF start_exam_begin, Target
    <2> HIDE DEF arg
    <2> QED BY <1>1, <2>1 DEF StaffOps
  <1>5. ASSUME end_exam_begin(c, e) PROVE Current(c)'
    BY <1>1, <1>5 DEF end_exam_begin, StaffOps, Target
  <1>6. ASSUME cancel_exam_begin(c, e) PROVE Current(c)'
    BY <1>1, <1>6 DEF cancel_exam_begin, StaffOps, Target
  <1> QED BY <1>2, <1>3, <1>4, <1>5, <1>6 DEF StaffBegin

LEMMA CandidateBeginCurrent ==
  ASSUME SafeInv, NEW c \in Conns, NEW e \in Exams, NEW s \in Students, CandidateBegin(c, e, s)
  PROVE  Current(c)'
  <1>0. /\ txn \in [Conns -> Txn] /\ now \in Nat
        /\ session \in [Exams -> [Students -> SessionRow]]
        /\ answer \in [Exams -> [Students -> [Questions -> AnswerRow]]]
    BY DEF SafeInv, TypeInv, TypeOK, Time
  <1>1. ASSUME NEW op \in CandidateOps, NEW arg, Begin(c, CandidateTxn(op, e, s, arg)),
               op = "check_in" => arg.n \in {0, 1} /\ session[e][s].status # "NONE",
               op # "check_in" => session[e][s].status = "ACTIVE",
               op \in {"save_answer", "toggle_flag"} => arg.q \in Questions,
               op = "save_answer" => arg.v \in Values
        PROVE  Current(c)'
    <2> DEFINE t == CandidateTxn(op, e, s, arg)
    <2>1. /\ t.op = op /\ t.pc = "begun" /\ t.es = {e} /\ t.who = {s} /\ t.arg = arg
          /\ t.ans = Idle.ans /\ t.at = 0 /\ t.ss = Loaded(session, NoSession, {e}, {s})
      BY DEF CandidateTxn, Idle
    <2>2. t.ss[e][s] = session[e][s]
      BY <2>1, LoadedRow
    <2>3. txn'[c] = t /\ UNCHANGED <<now, db>> /\ t.op \in Ops
      BY <1>0, <1>1 DEF Begin
    <2> HIDE DEF t
    <2>4. CandidateCurrent(c, e, s)'
      BY <1>1, <2>1, <2>2, <2>3 DEF CandidateCurrent, db
    <2>5. /\ txn'[c].op \in Ops \cup {"idle"} /\ txn'[c].at <= now
          /\ \A f \in Exams, r \in Students, q \in Questions : txn'[c].ans[f][r][q] = NoAnswer
      BY <1>0, <2>1, <2>3, IdleAnswers
    <2> QED BY <2>3, <2>4, <2>5, NowCurrent
  <1>2. ASSUME NEW machine \in {0, 1}, check_in_begin(c, e, s, machine) PROVE Current(c)'
    <2> DEFINE arg == [NoArg EXCEPT !.n = machine]
    <2>1. arg.n = machine
      BY DEF NoArg
    <2>2. Begin(c, CandidateTxn("check_in", e, s, arg)) /\ session[e][s].status # "NONE"
      BY <1>2 DEF check_in_begin
    <2> HIDE DEF arg
    <2> QED BY <1>1, <2>1, <2>2 DEF CandidateOps
  <1>3. ASSUME NEW q \in Questions, NEW v \in Values, NEW n \in 0..MaxClientSeq,
               save_answer_begin(c, e, s, q, v, n)
        PROVE  Current(c)'
    <2> DEFINE arg == [NoArg EXCEPT !.q = q, !.v = v, !.n = n]
    <2>1. arg.q = q /\ arg.v = v
      BY DEF NoArg
    <2>2. Begin(c, CandidateTxn("save_answer", e, s, arg)) /\ session[e][s].status = "ACTIVE"
      BY <1>3 DEF save_answer_begin, accepts_candidate_writes
    <2> HIDE DEF arg
    <2> QED BY <1>1, <2>1, <2>2 DEF CandidateOps
  <1>4. ASSUME NEW q \in Questions, toggle_flag_begin(c, e, s, q) PROVE Current(c)'
    <2> DEFINE arg == [NoArg EXCEPT !.q = q]
    <2>1. arg.q = q
      BY DEF NoArg
    <2>2. Begin(c, CandidateTxn("toggle_flag", e, s, arg)) /\ session[e][s].status = "ACTIVE"
      BY <1>4 DEF toggle_flag_begin, accepts_candidate_writes
    <2> HIDE DEF arg
    <2> QED BY <1>1, <2>1, <2>2 DEF CandidateOps
  <1>5. ASSUME submit_begin(c, e, s) PROVE Current(c)'
    BY <1>1, <1>5 DEF submit_begin, accepts_candidate_writes, CandidateOps
  <1>6. ASSUME NEW q \in TextQs, NEW marks \in {0, 1}, award_marks_begin(c, e, s, q, marks)
        PROVE  Current(c)'
    <2> DEFINE arg == [NoArg EXCEPT !.q = q, !.n = marks]
               ans == [Idle.ans EXCEPT ![e][s][q] = answer[e][s][q]]
               t   == [Idle EXCEPT !.op = "award_marks", !.pc = "begun", !.es = {e}, !.who = {s},
                                   !.arg = arg, !.ans[e][s][q] = answer[e][s][q]]
    <2>1. arg.q = q
      BY DEF NoArg
    <2>2. /\ t.op = "award_marks" /\ t.pc = "begun" /\ t.es = {e} /\ t.who = {s} /\ t.at = 0
          /\ t.arg = arg /\ t.ans = ans
      BY DEF Idle
    <2>3. txn'[c] = t /\ UNCHANGED <<now, db>> /\ t.op \in Ops /\ answer[e][s][q].value # "absent"
      BY <1>0, <1>6 DEF award_marks_begin, Begin
    <2>4. Idle.ans \in [Exams -> [Students -> [Questions -> AnswerRow]]]
      BY IdleType DEF Txn
    <2>5. \A f \in Exams, r \in Students, k \in Questions : ans[f][r][k] \in {NoAnswer, answer[f][r][k]}
      <3>1. \A f \in Exams, r \in Students, k \in Questions :
              ans[f][r][k] = IF f = e /\ r = s /\ k = q THEN answer[e][s][q] ELSE Idle.ans[f][r][k]
        BY <2>4
      <3> QED BY <3>1, IdleAnswers
    <2> HIDE DEF t, arg, ans
    <2>6. MarkerCurrent(c, e, s)'
      BY <2>1, <2>2, <2>3 DEF MarkerCurrent, db
    <2>7. txn'[c].op \in Ops \cup {"idle"} /\ txn'[c].at <= now
      BY <1>0, <2>2, <2>3
    <2> QED BY <2>2, <2>3, <2>5, <2>6, <2>7, NowCurrent
  <1> QED BY <1>2, <1>3, <1>4, <1>5, <1>6 DEF CandidateBegin

LEMMA SweepBeginCurrent ==
  ASSUME SafeInv, NEW c \in Conns, sweep_once_begin(c)
  PROVE  Current(c)'
  <1> DEFINE x == [e \in Exams |-> IF e \in Expired THEN exam[e] ELSE NoExam]
             t == [Idle EXCEPT !.op = "sweep_once", !.pc = "begun", !.es = Expired, !.at = now, !.x = x]
  <1>0. txn \in [Conns -> Txn] /\ now \in Nat \ {0}
    BY DEF SafeInv, TypeInv, TypeOK, Time
  <1>1. /\ t.op = "sweep_once" /\ t.pc = "begun" /\ t.es = Expired /\ t.at = now /\ t.x = x
        /\ t.ans = Idle.ans
    BY DEF Idle
  <1>2. txn'[c] = t /\ UNCHANGED <<now, db>> /\ t.op \in Ops /\ Expired # {}
    BY <1>0 DEF sweep_once_begin, Begin
  <1>3. \A e \in Expired : SameColumns(x[e], exam[e])
    BY DEF Expired, SameColumns
  <1>4. Expired = ExpiredAt(now)
    BY DEF Expired, ExpiredAt
  <1> HIDE DEF x, t
  <1>5. SweepCurrent(c)'
    <2>1. (ExpiredAt(txn[c].at))' = ExpiredAt(now)
      BY <1>1, <1>2 DEF ExpiredAt, db
    <2> QED BY <1>0, <1>1, <1>2, <1>3, <1>4, <2>1 DEF SweepCurrent, SameColumns, db
  <1>6. /\ txn'[c].op \in Ops \cup {"idle"} /\ txn'[c].at <= now
        /\ \A f \in Exams, r \in Students, q \in Questions : txn'[c].ans[f][r][q] = NoAnswer
    BY <1>0, <1>1, <1>2, IdleAnswers
  <1> QED BY <1>2, <1>5, <1>6, NowCurrent

-----------------------------------------------------------------------------
(* Loading.                                                                 *)

\* What a load keeps of its transaction: all but the answers and the copies a
\* grade reads.
Carries(t, u) == u.op = t.op /\ u.es = t.es /\ u.who = t.who /\ u.x = t.x

LEMMA LoadCurrent ==
  ASSUME SafeInv, NEW c \in Conns, Current(c), NEW u, Load(c, u), u.op = txn[c].op, u.at <= now,
         \A e \in Exams, s \in Students, q \in Questions :
            u.ans[e][s][q] \in {NoAnswer, answer[e][s][q]},
         \/ \E e \in Exams : StaffCurrent(c, e)'
         \/ \E e \in Exams, s \in Students : CandidateCurrent(c, e, s)' \/ MarkerCurrent(c, e, s)'
         \/ SweepCurrent(c)'
  PROVE  Current(c)'
  <1>1. txn'[c] = u /\ UNCHANGED <<now, db>>
    BY DEF Load, SafeInv, TypeInv
  <1>2. u.op \in Ops \cup {"idle"}
    BY DEF Current
  <1> QED BY <1>1, <1>2, NowCurrent

LEMMA StaffLoadCurrent ==
  ASSUME SafeInv, NEW c \in Conns, Current(c),
         \/ schedule_exam_load(c) \/ start_exam_load(c) \/ end_exam_load(c) \/ cancel_exam_load(c)
         \/ update_exam_load(c)
  PROVE  Current(c)'
  <1> DEFINE t == txn[c]
  <1>0. t \in Txn /\ txn \in [Conns -> TypedTxn] /\ now \in Nat /\ now <= now
    BY DEF SafeInv, TypeInv, TypeOK, TypedTxn, Time
  <1>1. PICK e \in Exams : StaffCurrent(c, e)
    BY DEF Current, CandidateCurrent, MarkerCurrent, SweepCurrent, CandidateOps,
           schedule_exam_load, start_exam_load, end_exam_load, cancel_exam_load, update_exam_load
  <1>2. t.es = {e}
    BY <1>1 DEF StaffCurrent
  <1>3. ASSUME NEW u, Load(c, u), Carries(t, u), u.ans = t.ans, u.pc = "loaded", u.at <= now,
               u.op # "update_exam" => u.ss[e] = session[e],
               u.op = "update_exam" =>
                 /\ u.arg.roster = t.arg.roster /\ u.arg.paper = t.arg.paper
                 /\ u.arg.old_roster = IF t.arg.roster = {} THEN {} ELSE roster[e]
                 /\ u.arg.old_paper = IF t.arg.paper = {} THEN {} ELSE paper[e],
               u.op = "schedule_exam" =>
                 /\ u.arg.enrolled \in Orders(roster[e])
                 /\ capacity_shortfall(Cardinality(roster[e]), Seats) = 0
        PROVE  Current(c)'
    <2>1. txn'[c] = u /\ UNCHANGED <<now, db>>
      BY <1>0, <1>3 DEF Load
    <2>2. StaffCurrent(c, e)'
      BY <1>1, <1>3, <2>1 DEF StaffCurrent, Carries, SameColumns, db
    <2>3. \A f \in Exams, s \in Students, q \in Questions :
             u.ans[f][s][q] \in {NoAnswer, answer[f][s][q]}
      BY <1>3 DEF Current
    <2>4. u.op = t.op
      BY <1>3 DEF Carries
    <2> QED BY <1>3, <2>2, <2>3, <2>4, LoadCurrent
  <1>4. ASSUME t.op \in {"start_exam", "end_exam", "cancel_exam"}, LoadSessions(c) PROVE Current(c)'
    <2> DEFINE u == [t EXCEPT !.pc = "loaded", !.at = now,
                              !.ss = Loaded(session, NoSession, t.es, Students)]
    <2>1. /\ Carries(t, u) /\ u.ans = t.ans /\ u.pc = "loaded" /\ u.at = now
          /\ u.ss = Loaded(session, NoSession, t.es, Students)
      BY <1>0 DEF Txn, Carries
    <2>2. u.ss[e] = session[e]
      BY <1>2, <2>1, LoadedSessions
    <2>3. Load(c, u)
      BY <1>4 DEF LoadSessions
    <2> HIDE DEF u
    <2>4. u.op \notin {"update_exam", "schedule_exam"}
      BY <1>4, <2>1 DEF Carries
    <2> QED BY <1>0, <1>3, <2>1, <2>2, <2>3, <2>4
  <1>5. ASSUME schedule_exam_load(c) PROVE Current(c)'
    <2>1. PICK order \in Orders(roster[e]) :
            Load(c, [t EXCEPT !.pc = "loaded", !.arg.enrolled = order,
                              !.ss = Loaded(session, NoSession, {e}, Students)])
      BY <1>2, <1>5 DEF schedule_exam_load
    <2>2. t.op = "schedule_exam" /\ capacity_shortfall(Cardinality(roster[e]), Seats) = 0
      BY <1>2, <1>5 DEF schedule_exam_load
    <2> DEFINE u == [t EXCEPT !.pc = "loaded", !.arg.enrolled = order,
                              !.ss = Loaded(session, NoSession, {e}, Students)]
    <2>3. /\ Carries(t, u) /\ u.ans = t.ans /\ u.pc = "loaded" /\ u.at = t.at
          /\ u.ss = Loaded(session, NoSession, {e}, Students)
          /\ u.arg.enrolled = order
      BY <1>0 DEF Txn, Carries, Arg
    <2>4. u.ss[e] = session[e]
      BY <2>3, LoadedSessions
    <2>5. Load(c, u)
      BY <2>1
    <2> HIDE DEF u
    <2>6. u.op = "schedule_exam" /\ u.at <= now
      BY <2>2, <2>3 DEF Carries, Current
    <2> QED BY <1>3, <2>1, <2>2, <2>3, <2>4, <2>5, <2>6
  <1>6. ASSUME update_exam_load(c) PROVE Current(c)'
    <2> DEFINE old_roster == IF t.arg.roster = {} THEN {} ELSE roster[e]
               old_paper == IF t.arg.paper = {} THEN {} ELSE paper[e]
               u == [t EXCEPT !.pc = "loaded", !.arg.old_roster = old_roster,
                              !.arg.old_paper = old_paper]
    <2>1. t.op = "update_exam" /\ Load(c, u)
      BY <1>2, <1>6 DEF update_exam_load
    <2> HIDE DEF old_roster, old_paper
    <2>2. /\ Carries(t, u) /\ u.ans = t.ans /\ u.pc = "loaded" /\ u.at = t.at
          /\ u.arg.roster = t.arg.roster /\ u.arg.paper = t.arg.paper
          /\ u.arg.old_roster = old_roster /\ u.arg.old_paper = old_paper
      BY <1>0 DEF Txn, Carries, Arg
    <2> HIDE DEF u
    <2>3. u.op = "update_exam" /\ u.at <= now
      BY <2>1, <2>2 DEF Carries, Current
    <2> QED BY <1>3, <2>1, <2>2, <2>3 DEF old_roster, old_paper
  <1> QED BY <1>4, <1>5, <1>6 DEF start_exam_load, end_exam_load, cancel_exam_load

LEMMA CandidateLoadCurrent ==
  ASSUME SafeInv, NEW c \in Conns, Current(c),
         \/ check_in_load(c) \/ save_answer_load(c) \/ toggle_flag_load(c) \/ submit_load(c)
  PROVE  Current(c)'
  <1> DEFINE t == txn[c]
  <1>0. /\ t \in Txn /\ txn \in [Conns -> TypedTxn] /\ now \in Nat \ {0} /\ now <= now
        /\ paper \in [Exams -> SUBSET Questions]
        /\ answer \in [Exams -> [Students -> [Questions -> AnswerRow]]]
    BY DEF SafeInv, TypeInv, TypeOK, TypedTxn, Time
  <1>1. PICK e \in Exams, s \in Students : CandidateCurrent(c, e, s)
    BY DEF Current, StaffCurrent, MarkerCurrent, SweepCurrent, StaffOps,
           check_in_load, save_answer_load, toggle_flag_load, submit_load
  <1>2. t.es = {e} /\ t.who = {s}
    BY <1>1 DEF CandidateCurrent
  <1>3. ASSUME NEW u, Load(c, u), Carries(t, u), u.arg = t.arg, u.ss = t.ss, u.pc = "loaded", u.at <= now,
               \A f \in Exams, r \in Students, q \in Questions :
                  u.ans[f][r][q] \in {NoAnswer, answer[f][r][q]},
               u.op = "check_in" => u.paper[e] = paper[e],
               u.op # "check_in" => exam[e].status = "LIVE",
               u.op \in {"save_answer", "toggle_flag"} =>
                  u.ans[e][s][t.arg.q] = answer[e][s][t.arg.q],
               u.op = "save_answer" => ~OutOfOrder(t.arg.n, answer[e][s][t.arg.q].seq),
               u.op = "submit" => /\ GradesFrom(u, e, s)
                                  /\ 0 < u.at /\ (exam[e].ends_at = 0 \/ u.at <= exam[e].ends_at)
        PROVE  Current(c)'
    <2>1. txn'[c] = u /\ UNCHANGED <<now, db>>
      BY <1>0, <1>3 DEF Load
    <2>2. CandidateCurrent(c, e, s)'
      BY <1>1, <1>3, <2>1 DEF CandidateCurrent, GradesFrom, Carries, db
    <2>3. u.op = t.op
      BY <1>3 DEF Carries
    <2> QED BY <1>3, <2>2, <2>3, LoadCurrent
  <1>4. ASSUME check_in_load(c) PROVE Current(c)'
    <2> DEFINE u == [t EXCEPT !.pc = "loaded", !.paper[e] = paper[e]]
    <2>1. t.op = "check_in" /\ Load(c, u)
      BY <1>2, <1>4 DEF check_in_load
    <2>2. /\ Carries(t, u) /\ u.arg = t.arg /\ u.ss = t.ss /\ u.pc = "loaded" /\ u.at = t.at
          /\ u.ans = t.ans /\ u.paper[e] = paper[e]
      BY <1>0 DEF Txn, Carries
    <2> HIDE DEF u
    <2>3. /\ u.op = "check_in" /\ u.at <= now
          /\ \A f \in Exams, r \in Students, q \in Questions :
                  u.ans[f][r][q] \in {NoAnswer, answer[f][r][q]}
      BY <2>1, <2>2 DEF Carries, Current
    <2> QED BY <1>3, <2>1, <2>2, <2>3
  <1>5. ASSUME t.op \in {"save_answer", "toggle_flag"}, LoadAnswer(c, e, s),
               t.op = "save_answer" => ~OutOfOrder(t.arg.n, answer[e][s][t.arg.q].seq)
        PROVE  Current(c)'
    <2> DEFINE u == [t EXCEPT !.pc = "loaded", !.ans[e][s][t.arg.q] = answer[e][s][t.arg.q]]
    <2>1. Load(c, u) /\ exam[e].status = "LIVE"
      BY <1>5 DEF LoadAnswer, Writable, accepts_candidate_writes
    <2>2. /\ Carries(t, u) /\ u.arg = t.arg /\ u.ss = t.ss /\ u.pc = "loaded" /\ u.at = t.at
          /\ u.ans = [t.ans EXCEPT ![e][s][t.arg.q] = answer[e][s][t.arg.q]]
      BY <1>0 DEF Txn, Carries
    <2>3. t.ans \in [Exams -> [Students -> [Questions -> AnswerRow]]] /\ t.arg.q \in Questions
      BY <1>0, <1>1, <1>5 DEF Txn, CandidateCurrent
    <2> HIDE DEF u
    <2>4. \A f \in Exams, r \in Students, q \in Questions :
             u.ans[f][r][q] = IF f = e /\ r = s /\ q = t.arg.q THEN answer[e][s][t.arg.q]
                                                              ELSE t.ans[f][r][q]
      BY <2>2, <2>3
    <2>5. u.op = t.op /\ u.at <= now BY <2>2 DEF Carries, Current
    <2>6. \A f \in Exams, r \in Students, q \in Questions : t.ans[f][r][q] \in {NoAnswer, answer[f][r][q]}
      BY DEF Current
    <2>7. u.ans[e][s][t.arg.q] = answer[e][s][t.arg.q]
      <3>1. t.arg.q \in Questions BY <2>3
      <3> QED BY <2>4, <3>1
    <2>8. ASSUME NEW f \in Exams, NEW r \in Students, NEW q \in Questions
          PROVE  u.ans[f][r][q] \in {NoAnswer, answer[f][r][q]}
      <3>1. CASE f = e /\ r = s /\ q = t.arg.q BY <2>7, <3>1
      <3>2. CASE ~(f = e /\ r = s /\ q = t.arg.q) BY <2>4, <2>6, <3>2
      <3> QED BY <3>1, <3>2
    <2> QED BY <1>3, <1>5, <2>1, <2>2, <2>5, <2>7, <2>8
  <1>6. ASSUME submit_load(c) PROVE Current(c)'
    <2> DEFINE g == GradeInputs(t, {e}, {s})
               u == [g EXCEPT !.pc = "loaded", !.at = now]
    <2>1. t.op = "submit" /\ Load(c, u) /\ Writable(e, t.ss[e][s])
      BY <1>2, <1>6 DEF submit_load
    <2>2. g \in Txn
      BY <1>0, GradeInputsType DEF SafeInv, TypeInv
    <2>3. Carries(t, g) /\ g.arg = t.arg /\ g.ss = t.ss
      BY <1>0 DEF GradeInputs, Txn, Carries
    <2>4. GradesFrom(g, e, s)
      BY <1>0, GradeInputsRead DEF SafeInv, TypeInv, Current
    <2>5. \A f \in Exams, r \in Students, q \in Questions : g.ans[f][r][q] \in {NoAnswer, answer[f][r][q]}
      BY <1>0, GradeInputsAnswers DEF Current
    <2> HIDE DEF g
    <2>6. /\ Carries(t, u) /\ u.arg = t.arg /\ u.ss = t.ss /\ u.pc = "loaded" /\ u.at = now
          /\ u.ans = g.ans /\ GradesFrom(u, e, s)
      BY <2>2, <2>3, <2>4 DEF Txn, Carries, GradesFrom
    <2> HIDE DEF u
    <2>7. exam[e].status = "LIVE" /\ (exam[e].ends_at = 0 \/ now <= exam[e].ends_at)
      <3>1. exam[e].ends_at \in Nat
        BY DEF SafeInv, TypeInv, TypeOK, ExamRow
      <3> QED BY <1>0, <2>1, <3>1 DEF Writable, accepts_candidate_writes
    <2>8. u.op = "submit"
      BY <2>1, <2>6 DEF Carries
    <2>9. /\ \A f \in Exams, r \in Students, q \in Questions : u.ans[f][r][q] \in {NoAnswer, answer[f][r][q]}
          /\ 0 < u.at /\ u.at <= now /\ (exam[e].ends_at = 0 \/ u.at <= exam[e].ends_at)
      BY <1>0, <2>5, <2>6, <2>7
    <2> HIDE DEF t
    <2> QED BY <1>3, <2>1, <2>6, <2>7, <2>8, <2>9
  <1> QED BY <1>2, <1>4, <1>5, <1>6 DEF save_answer_load, toggle_flag_load

LEMMA GradingLoadCurrent ==
  ASSUME SafeInv, NEW c \in Conns, Current(c), award_marks_load(c) \/ sweep_once_load(c)
  PROVE  Current(c)'
  <1> DEFINE t == txn[c]
  <1>0. t \in Txn /\ txn \in [Conns -> TypedTxn] /\ now \in Nat \ {0}
    BY DEF SafeInv, TypeInv, TypeOK, TypedTxn, Time
  <1>1. ASSUME NEW es, NEW who
        PROVE  LET g == GradeInputs(t, es, who)
               IN  /\ g \in Txn /\ Carries(t, g) /\ g.arg = t.arg /\ g.at = t.at
                   /\ \A f \in Exams, r \in Students, q \in Questions :
                         g.ans[f][r][q] \in {NoAnswer, answer[f][r][q]}
    <2>1. GradeInputs(t, es, who) \in Txn
      BY <1>0, GradeInputsType DEF SafeInv, TypeInv
    <2>2. Carries(t, GradeInputs(t, es, who))
      BY <1>0 DEF GradeInputs, Txn, Carries
    <2>3. GradeInputs(t, es, who).arg = t.arg /\ GradeInputs(t, es, who).at = t.at
      BY <1>0 DEF GradeInputs, Txn
    <2>4. \A f \in Exams, r \in Students, q \in Questions :
             GradeInputs(t, es, who).ans[f][r][q] \in {NoAnswer, answer[f][r][q]}
      BY <1>0, GradeInputsAnswers DEF Current
    <2> QED BY <2>1, <2>2, <2>3, <2>4
  <1>2. ASSUME NEW es, NEW who, NEW e \in Exams, NEW s \in Students, e \in es, s \in who
        PROVE  GradesFrom(GradeInputs(t, es, who), e, s)
    BY <1>0, <1>2, GradeInputsRead DEF SafeInv, TypeInv, Current
  <1>3. ASSUME award_marks_load(c) PROVE Current(c)'
    <2>1. PICK e \in Exams, s \in Students : MarkerCurrent(c, e, s)
      BY <1>3 DEF Current, StaffCurrent, CandidateCurrent, SweepCurrent, StaffOps, CandidateOps,
                  award_marks_load
    <2>2. t.es = {e} /\ t.who = {s} /\ t.op = "award_marks"
      BY <2>1 DEF MarkerCurrent
    <2> DEFINE g == GradeInputs(t, {e}, {s})
               u == [g EXCEPT !.pc = "loaded", !.ss = Loaded(session, NoSession, {e}, {s})]
    <2>3. t.arg.q \in paper[e] /\ Load(c, u)
      BY <2>2, <1>3 DEF award_marks_load
    <2>4. /\ g \in Txn /\ Carries(t, g) /\ g.arg = t.arg /\ g.at = t.at
          /\ \A f \in Exams, r \in Students, q \in Questions : g.ans[f][r][q] \in {NoAnswer, answer[f][r][q]}
      BY <1>1
    <2>5. GradesFrom(g, e, s)
      BY <1>2
    <2> HIDE DEF g
    <2>6. /\ Carries(t, u) /\ u.arg = t.arg /\ u.at = t.at /\ u.pc = "loaded" /\ u.ans = g.ans
          /\ u.ss = Loaded(session, NoSession, {e}, {s})
      BY <2>4 DEF Txn, Carries
    <2>7. GradesFrom(u, e, s)
      BY <2>4, <2>5 DEF Txn, GradesFrom
    <2>8. u.ss[e][s] = session[e][s]
      BY <2>6, LoadedRow
    <2> HIDE DEF u
    <2>9. txn'[c] = u /\ UNCHANGED <<now, db>>
      BY <1>0, <2>3 DEF Load
    <2>10. MarkerCurrent(c, e, s)'
      BY <2>1, <2>3, <2>6, <2>7, <2>8, <2>9 DEF MarkerCurrent, GradesFrom, Carries, db
    <2>11. u.at <= now /\ u.op = t.op
      BY <2>6 DEF Carries, Current
    <2> QED BY <2>3, <2>4, <2>6, <2>10, <2>11, LoadCurrent
  <1>4. ASSUME sweep_once_load(c) PROVE Current(c)'
    <2>1. SweepCurrent(c)
      BY <1>4 DEF Current, StaffCurrent, CandidateCurrent, MarkerCurrent, StaffOps, CandidateOps,
                  sweep_once_load
    <2>2. t.es \subseteq Exams
      BY <1>0 DEF Txn
    <2> DEFINE g == GradeInputs(t, t.es, Students)
               u == [g EXCEPT !.pc = "loaded", !.ss = Loaded(session, NoSession, t.es, Students)]
    <2>3. Load(c, u)
      BY <1>4 DEF sweep_once_load
    <2>4. /\ g \in Txn /\ Carries(t, g) /\ g.arg = t.arg /\ g.at = t.at
          /\ \A f \in Exams, r \in Students, q \in Questions : g.ans[f][r][q] \in {NoAnswer, answer[f][r][q]}
      BY <1>1
    <2>5. \A e \in t.es, s \in Students : GradesFrom(g, e, s)
      BY <1>2, <2>2
    <2> HIDE DEF g
    <2>6. /\ Carries(t, u) /\ u.arg = t.arg /\ u.at = t.at /\ u.pc = "loaded" /\ u.ans = g.ans
          /\ u.ss = Loaded(session, NoSession, t.es, Students)
      BY <2>4 DEF Txn, Carries
    <2>7. \A e \in t.es, s \in Students : GradesFrom(u, e, s)
      BY <2>4, <2>5 DEF Txn, GradesFrom
    <2>8. \A e \in t.es : u.ss[e] = session[e]
      BY <2>2, <2>6, LoadedSessions
    <2> HIDE DEF u
    <2>9. txn'[c] = u /\ UNCHANGED <<now, db>>
      BY <1>0, <2>3 DEF Load
    <2>10. (ExpiredAt(txn[c].at))' = ExpiredAt(t.at)
      BY <2>6, <2>9 DEF ExpiredAt, db
    <2>11. SweepCurrent(c)'
      BY <2>1, <2>6, <2>7, <2>8, <2>9, <2>10 DEF SweepCurrent, GradesFrom, Carries, SameColumns, db
    <2>12. u.at <= now /\ u.op = t.op
      BY <2>6 DEF Carries, Current
    <2> QED BY <2>3, <2>4, <2>6, <2>11, <2>12, LoadCurrent
  <1> QED BY <1>3, <1>4

-----------------------------------------------------------------------------
(* Committing: one operation of ExamSerial.                                 *)

LEMMA StaffCommitAtomic ==
  ASSUME SafeInv, NEW c \in Conns, Current(c),
         \/ update_exam_commit(c) \/ schedule_exam_commit(c) \/ start_exam_commit(c)
         \/ end_exam_commit(c) \/ cancel_exam_commit(c)
  PROVE  UNCHANGED now /\ \E e \in Exams : StaffAct(e)
  <1> DEFINE t == txn[c]
  <1>0. /\ t \in Txn /\ t.arg \in Arg /\ t.at \in Nat /\ t.at <= now /\ now \in Nat
        /\ exam \in [Exams -> ExamRow] /\ t.x \in [Exams -> ExamRow]
        /\ roster \in [Exams -> SUBSET Students] /\ paper \in [Exams -> SUBSET Questions]
        /\ session \in [Exams -> [Students -> SessionRow]]
    BY DEF SafeInv, TypeInv, TypeOK, TypedTxn, Txn, Time, Current
  <1>1. PICK e \in Exams : StaffCurrent(c, e)
    BY DEF Current, CandidateCurrent, MarkerCurrent, SweepCurrent, CandidateOps, Committing,
           schedule_exam_commit, start_exam_commit, end_exam_commit, cancel_exam_commit, update_exam_commit
  <1>2. t.es = {e} /\ SameColumns(t.x[e], exam[e]) /\ t.op \in Ops
    BY <1>1 DEF StaffCurrent, Current, StaffOps
  <1>3. \A at, key : /\ Scheduled(exam[e], t.x[e]) = Scheduled(exam[e], exam[e])
                     /\ Started(exam[e], t.x[e], at, key) = Started(exam[e], exam[e], at, key)
                     /\ Ended(exam[e], t.x[e], at) = Ended(exam[e], exam[e], at)
                     /\ t.x[e].seq = exam[e].seq
    BY <1>0, <1>2, ExamWrites
  <1>4. t.op \in {"start_exam", "end_exam"} /\ t.pc = "loaded" => t.at \in Past
    BY <1>0 DEF Past, SafeInv, TxnOK
  <1>5. ASSUME update_exam_commit(c) PROVE UNCHANGED now /\ StaffAct(e)
    <2> DEFINE Rs == t.arg.roster
               Ps == t.arg.paper
    <2>1. /\ t.op = "update_exam" /\ t.pc = "loaded"
          /\ roster' = [roster EXCEPT ![e] = (@ \ t.arg.old_roster) \cup UNION Rs]
          /\ paper' = [paper EXCEPT ![e] = (@ \ t.arg.old_paper) \cup UNION Ps]
          /\ UNCHANGED <<now, exam, session, answer, result>>
      BY <1>2, <1>5 DEF update_exam_commit
    <2>2. /\ Rs \in AtMostOne(SUBSET Students) /\ Ps \in AtMostOne(SUBSET Questions)
          /\ exam[e].status = "DRAFT"
          /\ t.arg.old_roster = IF Rs = {} THEN {} ELSE roster[e]
          /\ t.arg.old_paper = IF Ps = {} THEN {} ELSE paper[e]
      BY <1>1, <2>1 DEF StaffCurrent
    <2>3. (roster[e] \ t.arg.old_roster) \cup UNION Rs = IF Rs = {} THEN roster[e] ELSE UNION Rs
      BY <2>2
    <2>4. (paper[e] \ t.arg.old_paper) \cup UNION Ps = IF Ps = {} THEN paper[e] ELSE UNION Ps
      BY <2>2
    <2>5. Edits(e, Rs, Ps)
      BY <1>2, <2>1, <2>2, <2>3, <2>4 DEF Edits
    <2> QED BY <2>1, <2>2, <2>5 DEF StaffAct
  <1>6. ASSUME schedule_exam_commit(c) PROVE UNCHANGED now /\ StaffAct(e)
    <2>1. /\ session' = [session EXCEPT ![e] = WithSeats(@, NewSeats(t.arg.enrolled, t.ss[e]))]
          /\ exam' = [exam EXCEPT ![e] = Scheduled(@, t.x[e])]
          /\ Committing(c, "schedule_exam") /\ UNCHANGED <<roster, paper, answer, result>>
      BY <1>2, <1>6 DEF schedule_exam_commit
    <2>2. /\ t.op = "schedule_exam" /\ t.ss[e] = session[e]
          /\ t.arg.enrolled \in Orders(roster[e])
          /\ capacity_shortfall(Cardinality(roster[e]), Seats) = 0
          /\ Movable(e, "SCHEDULED")
      BY <1>1, <2>1 DEF StaffCurrent, Committing, Target, Movable
    <2>3. Schedules(e, t.arg.enrolled)
      BY <1>2, <1>3, <2>1, <2>2 DEF Schedules
    <2> QED BY <2>1, <2>2, <2>3 DEF StaffAct, Committing
  <1>7. ASSUME start_exam_commit(c) PROVE UNCHANGED now /\ StaffAct(e)
    <2>1. /\ exam' = [exam EXCEPT ![e] = Started(@, t.x[e], t.at, t.arg.key)]
          /\ session' = [session EXCEPT ![e] = [s \in Students |-> Released(@[s], t.ss[e][s], t.at)]]
          /\ Committing(c, "start_exam") /\ UNCHANGED <<roster, paper, answer, result>>
      BY <1>2, <1>7 DEF start_exam_commit
    <2>2. /\ t.op = "start_exam" /\ t.ss[e] = session[e] /\ t.at \in Past /\ t.arg.key \in Keys
          /\ Movable(e, "LIVE")
      BY <1>0, <1>1, <1>4, <2>1 DEF StaffCurrent, Committing, Target, Movable, Arg
    <2>3. Starts(e, t.at, t.arg.key)
      BY <1>2, <1>3, <2>1, <2>2 DEF Starts
    <2> QED BY <2>1, <2>2, <2>3 DEF StaffAct, Committing
  <1>8. ASSUME end_exam_commit(c) PROVE UNCHANGED now /\ StaffAct(e)
    <2>1. /\ exam' = [exam EXCEPT ![e] = Ended(@, t.x[e], t.at)]
          /\ session' = [session EXCEPT ![e] = [s \in Students |-> ClosedEarly(@[s], t.ss[e][s], t.at)]]
          /\ Committing(c, "end_exam") /\ UNCHANGED <<roster, paper, answer, result>>
      BY <1>2, <1>8 DEF end_exam_commit
    <2>2. /\ t.op = "end_exam" /\ t.ss[e] = session[e] /\ t.at \in Past
          /\ Movable(e, "ENDING")
      BY <1>1, <1>4, <2>1 DEF StaffCurrent, Committing, Target, Movable
    <2>3. EndsEarly(e, t.at)
      BY <1>2, <1>3, <2>1, <2>2 DEF EndsEarly
    <2> QED BY <2>1, <2>2, <2>3 DEF StaffAct, Committing
  <1>9. ASSUME cancel_exam_commit(c) PROVE UNCHANGED now /\ StaffAct(e)
    <2>1. /\ exam' = [exam EXCEPT ![e] = [@ EXCEPT !.status = "CANCELLED", !.seq = t.x[e].seq + 1]]
          /\ session' = [session EXCEPT ![e] = [s \in Students |-> Cancelled(@[s], t.ss[e][s])]]
          /\ Committing(c, "cancel_exam") /\ UNCHANGED <<roster, paper, answer, result>>
      BY <1>2, <1>9 DEF cancel_exam_commit
    <2>2. /\ t.op = "cancel_exam" /\ t.ss[e] = session[e]
          /\ Movable(e, "CANCELLED")
      BY <1>1, <2>1 DEF StaffCurrent, Committing, Target, Movable
    <2>3. exam' = [exam EXCEPT ![e] = Numbered(@, "CANCELLED")]
      <3> DEFINE old == [exam[e] EXCEPT !.status = "CANCELLED", !.seq = t.x[e].seq + 1]
      <3>1. exam' = [exam EXCEPT ![e] = old]
        BY <2>1
      <3>2. old = Numbered(exam[e], "CANCELLED")
        BY <1>0, <1>3 DEF ExamRow, Numbered
      <3> HIDE DEF old
      <3> QED BY <3>1, <3>2
    <2>4. session' = [session EXCEPT ![e] = [s \in Students |-> Cancelled(@[s], @[s])]]
      BY <2>1, <2>2
    <2>5. Cancels(e)
      BY <1>2, <2>1, <2>2, <2>3, <2>4 DEF Cancels
    <2> QED BY <2>1, <2>5 DEF StaffAct, Committing
  <1> QED BY <1>5, <1>6, <1>7, <1>8, <1>9

LEMMA CandidateCommitAtomic ==
  ASSUME SafeInv, NEW c \in Conns, Current(c),
         \/ check_in_commit(c) \/ save_answer_commit(c) \/ toggle_flag_commit(c) \/ submit_commit(c)
  PROVE  UNCHANGED now /\ \E e \in Exams, s \in Students : CandidateAct(e, s)
  <1> DEFINE t == txn[c]
  <1>0. /\ t \in TypedTxn /\ t \in Txn /\ t.arg \in Arg /\ t.at \in Nat /\ t.at <= now /\ now \in Nat
        /\ session \in [Exams -> [Students -> SessionRow]]
        /\ answer \in [Exams -> [Students -> [Questions -> AnswerRow]]]
        /\ result \in [Exams -> [Students -> ResultRow]]
        /\ paper \in [Exams -> SUBSET Questions]
    BY DEF SafeInv, TypeInv, TypeOK, TypedTxn, Txn, Time, Current
  <1>1. PICK e \in Exams, s \in Students : CandidateCurrent(c, e, s)
    BY DEF Current, StaffCurrent, MarkerCurrent, SweepCurrent, StaffOps, Committing,
           check_in_commit, save_answer_commit, toggle_flag_commit, submit_commit
  <1>2. t.es = {e} /\ t.who = {s} /\ t.ss[e][s] = session[e][s] /\ t.op \in Ops
    BY <1>1 DEF CandidateCurrent, Current, CandidateOps
  <1>3. ASSUME check_in_commit(c) PROVE UNCHANGED now /\ CandidateAct(e, s)
    <2>1. /\ session' = [session EXCEPT ![e][s] =
               Entered(@, t.ss[e][s], draw_paper(s, t.paper[e]), t.arg.n)]
          /\ Committing(c, "check_in") /\ UNCHANGED <<exam, roster, paper, answer, result>>
      BY <1>2, <1>3 DEF check_in_commit
    <2>2. /\ t.op = "check_in" /\ t.arg.n \in {0, 1} /\ session[e][s].status # "NONE"
          /\ t.paper[e] = paper[e]
      BY <1>1, <2>1 DEF CandidateCurrent, Committing
    <2>3. ChecksIn(e, s, t.arg.n)
      BY <1>2, <2>1, <2>2 DEF ChecksIn
    <2> QED BY <2>1, <2>2, <2>3 DEF CandidateAct, Committing
  <1>4. ASSUME save_answer_commit(c) PROVE UNCHANGED now /\ CandidateAct(e, s)
    <2> DEFINE q == t.arg.q
    <2>1. /\ answer' = [answer EXCEPT ![e][s][q] = Saved(@, t.ans[e][s][q], t.arg.v, t.arg.n)]
          /\ Committing(c, "save_answer") /\ UNCHANGED <<exam, roster, paper, session, result>>
      BY <1>2, <1>4 DEF save_answer_commit
    <2>2. /\ t.op = "save_answer" /\ q \in Questions /\ t.arg.v \in Values
          /\ t.ans[e][s][q] = answer[e][s][q]
          /\ exam[e].status = "LIVE" /\ session[e][s].status = "ACTIVE"
          /\ ~OutOfOrder(t.arg.n, answer[e][s][q].seq)
      BY <1>1, <2>1 DEF CandidateCurrent, Committing
    <2>3. t.arg.n \in 0..MaxClientSeq
      BY <1>0, <2>2 DEF TypedTxn
    <2>4. Saves(e, s, q, t.arg.v, t.arg.n)
      BY <1>2, <2>1, <2>2 DEF Saves, accepts_candidate_writes
    <2> QED BY <2>1, <2>2, <2>3, <2>4 DEF CandidateAct, Committing
  <1>5. ASSUME toggle_flag_commit(c) PROVE UNCHANGED now /\ CandidateAct(e, s)
    <2> DEFINE q == t.arg.q
    <2>1. /\ answer' = [answer EXCEPT ![e][s][q] = Flagged(@, t.ans[e][s][q])]
          /\ Committing(c, "toggle_flag") /\ UNCHANGED <<exam, roster, paper, session, result>>
      BY <1>2, <1>5 DEF toggle_flag_commit
    <2>2. /\ t.op = "toggle_flag" /\ q \in Questions
          /\ t.ans[e][s][q] = answer[e][s][q]
          /\ exam[e].status = "LIVE" /\ session[e][s].status = "ACTIVE"
      BY <1>1, <2>1 DEF CandidateCurrent, Committing
    <2>3. Flags(e, s, q)
      BY <1>2, <2>1, <2>2 DEF Flags, accepts_candidate_writes
    <2> QED BY <2>1, <2>2, <2>3 DEF CandidateAct, Committing
  <1>6. ASSUME submit_commit(c) PROVE UNCHANGED now /\ CandidateAct(e, s)
    <2> DEFINE new == score_paper(t.paper[e], t.ss[e][s].order, t.ans[e][s])
    <2>1. /\ result' = [result EXCEPT ![e][s] = GradedRow(@, t.has[e][s], new)]
          /\ session' = [session EXCEPT ![e][s] = HandedIn(@, t.ss[e][s], t.at)]
          /\ Committing(c, "submit") /\ UNCHANGED <<exam, roster, paper, answer>>
      BY <1>2, <1>6 DEF submit_commit
    <2>2. /\ t.op = "submit" /\ GradesFrom(t, e, s)
          /\ exam[e].status = "LIVE" /\ session[e][s].status = "ACTIVE"
          /\ 0 < t.at /\ (exam[e].ends_at = 0 \/ t.at <= exam[e].ends_at)
      BY <1>1, <2>1 DEF CandidateCurrent, Committing
    <2>3. new = Score(e, s)
      BY <1>2, <2>2 DEF Score, GradesFrom
    <2>4. new \in ResultRow /\ new.graded
      <3>1. paper[e] \in SUBSET Questions /\ session[e][s].order \in SUBSET Questions
        BY <1>0 DEF SessionRow
      <3>2. Score(e, s).graded = TRUE
        BY DEF Score, score_paper
      <3> QED BY <2>3, <3>1, <3>2, score_paperType DEF Score
    <2> HIDE DEF new
    <2>5. GradedRow(result[e][s], t.has[e][s], new) = new
      BY <1>0, <2>2, <2>4, GradedOver DEF GradesFrom
    <2>6. HandsIn(e, s, t.at)
      BY <1>2, <2>1, <2>2, <2>3, <2>5 DEF HandsIn, accepts_candidate_writes
    <2>7. t.at \in Past
      BY <1>0, <2>2 DEF Past
    <2> QED BY <2>1, <2>6, <2>7 DEF CandidateAct, Committing
  <1> QED BY <1>3, <1>4, <1>5, <1>6

LEMMA AwardCommitAtomic ==
  ASSUME SafeInv, NEW c \in Conns, Current(c), award_marks_commit(c)
  PROVE  UNCHANGED now /\ \E e \in Exams, s \in Students : CandidateAct(e, s)
  <1> DEFINE t == txn[c]
             q == t.arg.q
  <1>0. /\ t \in TypedTxn /\ t \in Txn
        /\ session \in [Exams -> [Students -> SessionRow]]
        /\ answer \in [Exams -> [Students -> [Questions -> AnswerRow]]]
        /\ result \in [Exams -> [Students -> ResultRow]]
        /\ paper \in [Exams -> SUBSET Questions]
    BY DEF SafeInv, TypeInv, TypeOK, TypedTxn
  <1>1. PICK e \in Exams, s \in Students : MarkerCurrent(c, e, s)
    BY DEF Current, StaffCurrent, CandidateCurrent, SweepCurrent, StaffOps, CandidateOps, Committing,
           award_marks_commit
  <1>2. t.es = {e} /\ t.who = {s} /\ t.op = "award_marks" /\ t.op \in Ops
    BY <1>1 DEF MarkerCurrent, Current
  <1> DEFINE new == score_paper(t.paper[e], t.ss[e][s].order, [t.ans[e][s] EXCEPT ![q].award = t.arg.n])
  <1>3. /\ answer' = [answer EXCEPT ![e][s][q] = Awarded(@, t.ans[e][s][q], t.arg.n)]
        /\ result' = [result EXCEPT ![e][s] = GradedRow(@, t.has[e][s], new)]
        /\ Committing(c, "award_marks") /\ UNCHANGED <<exam, roster, paper, session>>
    BY <1>2 DEF award_marks_commit
  <1>4. /\ q \in TextQs \cap paper[e] /\ answer[e][s][q].value # "absent"
        /\ t.ss[e][s] = session[e][s] /\ GradesFrom(t, e, s)
    BY <1>1, <1>3 DEF MarkerCurrent, Committing
  <1>5. q \in Questions /\ t.arg.n \in {0, 1} /\ answer[e][s][q] \in AnswerRow
    BY <1>0, <1>2, <1>4, ConstantsAssumption DEF TypedTxn
  <1>6. new = score_paper(paper[e], session[e][s].order, [answer[e][s] EXCEPT ![q].award = t.arg.n])
    BY <1>4 DEF GradesFrom
  <1>7. new \in ResultRow /\ new.graded
    <2>1. paper[e] \in SUBSET Questions /\ session[e][s].order \in SUBSET Questions
      BY <1>0 DEF SessionRow
    <2>2. \A qs, order, ans : score_paper(qs, order, ans).graded = TRUE
      BY DEF score_paper
    <2> QED BY <1>6, <2>1, <2>2, score_paperType
  <1>8. Awarded(answer[e][s][q], t.ans[e][s][q], t.arg.n) = [answer[e][s][q] EXCEPT !.award = t.arg.n]
    <2>1. t.ans[e][s][q] = answer[e][s][q]
      BY <1>4 DEF GradesFrom
    <2> QED BY <1>5, <2>1 DEF Awarded, Write, AnswerRow
  <1> HIDE DEF new, q
  <1>9. GradedRow(result[e][s], t.has[e][s], new) = new
    BY <1>0, <1>4, <1>7, GradedOver DEF GradesFrom
  <1>10. answer' = [answer EXCEPT ![e][s][q].award = t.arg.n]
    BY <1>0, <1>3, <1>5, <1>8
  <1>11. Awards(e, s, q, t.arg.n)
    BY <1>2, <1>3, <1>4, <1>6, <1>9, <1>10 DEF Awards
  <1> QED BY <1>3, <1>5, <1>11 DEF CandidateAct, Committing

LEMMA SweepCommitAtomic ==
  ASSUME SafeInv, NEW c \in Conns, Current(c), sweep_once_commit(c)
  PROVE  UNCHANGED now /\ \E at \in Past : Sweeps(at)
  <1> DEFINE t == txn[c]
             Graded(e, s) == e \in t.es /\ t.ss[e][s].status \in SWEEPABLE_TO_AUTO_SUBMIT
             New(e, s)    == score_paper(t.paper[e], t.ss[e][s].order, t.ans[e][s])
  <1>0. /\ t \in Txn /\ t.at \in Nat /\ t.at <= now /\ now \in Nat
        /\ exam \in [Exams -> ExamRow]
        /\ session \in [Exams -> [Students -> SessionRow]]
        /\ result \in [Exams -> [Students -> ResultRow]]
        /\ paper \in [Exams -> SUBSET Questions]
    BY DEF SafeInv, TypeInv, TypeOK, TypedTxn, Txn, Time, Current
  <1>1. SweepCurrent(c)
    BY DEF Current, StaffCurrent, CandidateCurrent, MarkerCurrent, StaffOps, CandidateOps, Committing,
           sweep_once_commit
  <1>2. /\ result' = [e \in Exams |-> [s \in Students |->
             IF Graded(e, s) THEN GradedRow(result[e][s], t.has[e][s], New(e, s))
                             ELSE result[e][s]]]
        /\ session' = [e \in Exams |-> [s \in Students |->
             IF e \in t.es THEN Swept(session[e][s], t.ss[e][s], t.at) ELSE session[e][s]]]
        /\ exam' = [e \in Exams |->
             IF e \in t.es THEN [exam[e] EXCEPT !.status = "COMPLETED", !.seq = t.x[e].seq + 1]
                           ELSE exam[e]]
        /\ Committing(c, "sweep_once") /\ UNCHANGED <<roster, paper, answer>>
    BY DEF sweep_once_commit
  <1>3. /\ t.es = ExpiredAt(t.at) /\ t.es # {} /\ t.at \in Past /\ "sweep_once" \in Ops
        /\ \A e \in t.es : /\ t.x[e].seq = exam[e].seq /\ t.ss[e] = session[e]
                           /\ \A s \in Students : GradesFrom(t, e, s)
    <2>1. t.op = "sweep_once" /\ t.pc = "loaded" /\ t.op \in Ops
      BY <1>2 DEF Committing, Current
    <2>2. t.es = ExpiredAt(t.at) /\ t.es # {} /\ t.at \in Past
      BY <1>0, <1>1 DEF SweepCurrent, Past
    <2>3. \A e \in t.es : /\ t.x[e].seq = exam[e].seq /\ t.ss[e] = session[e]
                          /\ \A s \in Students : GradesFrom(t, e, s)
      BY <1>1, <2>1 DEF SweepCurrent, SameColumns
    <2> QED BY <2>1, <2>2, <2>3
  <1>4. ASSUME NEW e \in Exams, NEW s \in Students, e \in t.es
        PROVE  GradedRow(result[e][s], t.has[e][s], New(e, s)) = Score(e, s)
    <2>1. New(e, s) = Score(e, s) /\ t.has[e][s] = result[e][s]
      BY <1>3, <1>4 DEF GradesFrom, Score
    <2>2. paper[e] \in SUBSET Questions /\ session[e][s].order \in SUBSET Questions
      BY <1>0 DEF SessionRow
    <2>3. Score(e, s) \in ResultRow
      BY <2>2, score_paperType DEF Score
    <2>4. Score(e, s).graded
      BY DEF Score, score_paper
    <2> QED BY <1>0, <2>1, <2>3, <2>4, GradedOver
  <1>5. \A e \in Exams, s \in Students :
          Graded(e, s) <=> e \in t.es /\ session[e][s].status \in SWEEPABLE_TO_AUTO_SUBMIT
    BY <1>3
  <1> HIDE DEF New, Graded
  <1>6. result' = [e \in Exams |-> [s \in Students |->
             IF e \in ExpiredAt(t.at) /\ session[e][s].status \in SWEEPABLE_TO_AUTO_SUBMIT
               THEN Score(e, s) ELSE result[e][s]]]
    <2>1. \A e \in Exams, s \in Students :
            (IF Graded(e, s) THEN GradedRow(result[e][s], t.has[e][s], New(e, s)) ELSE result[e][s])
            = IF e \in ExpiredAt(t.at) /\ session[e][s].status \in SWEEPABLE_TO_AUTO_SUBMIT
                THEN Score(e, s) ELSE result[e][s]
      BY <1>3, <1>4, <1>5
    <2> QED BY <1>2, <2>1
  <1>7. session' = [e \in Exams |-> [s \in Students |->
             IF e \in ExpiredAt(t.at) THEN Swept(session[e][s], session[e][s], t.at) ELSE session[e][s]]]
    BY <1>2, <1>3
  <1>8. exam' = [e \in Exams |->
             IF e \in ExpiredAt(t.at) THEN Numbered(exam[e], "COMPLETED") ELSE exam[e]]
    BY <1>0, <1>2, <1>3 DEF ExamRow, Numbered
  <1>9. Sweeps(t.at)
    BY <1>2, <1>3, <1>6, <1>7, <1>8 DEF Sweeps
  <1> QED BY <1>2, <1>3, <1>9 DEF Committing

\* Beginning, loading and giving up leave the database as it is.
LEMMA QuietSteps ==
  ASSUME NEW c \in Conns,
         \/ \E e \in Exams : StaffBegin(c, e) \/ \E s \in Students : CandidateBegin(c, e, s)
         \/ sweep_once_begin(c) \/ LoadStep(c) \/ rollback(c)
  PROVE  UNCHANGED <<now, db>>
  <1>1. ASSUME NEW e \in Exams, StaffBegin(c, e) PROVE UNCHANGED <<now, db>>
    BY <1>1 DEF StaffBegin, Begin, update_exam_begin, schedule_exam_begin, start_exam_begin,
                end_exam_begin, cancel_exam_begin
  <1>2. ASSUME NEW e \in Exams, NEW s \in Students, CandidateBegin(c, e, s) PROVE UNCHANGED <<now, db>>
    BY <1>2 DEF CandidateBegin, Begin, check_in_begin, save_answer_begin, toggle_flag_begin,
                submit_begin, award_marks_begin
  <1>3. ASSUME sweep_once_begin(c) PROVE UNCHANGED <<now, db>>
    BY <1>3 DEF sweep_once_begin, Begin
  <1>4. ASSUME LoadStep(c) PROVE UNCHANGED <<now, db>>
    BY <1>4 DEF LoadStep, Load, LoadSessions, LoadAnswer, update_exam_load, schedule_exam_load,
                start_exam_load, end_exam_load, cancel_exam_load, check_in_load, save_answer_load,
                toggle_flag_load, submit_load, award_marks_load, sweep_once_load
  <1>5. ASSUME rollback(c) PROVE UNCHANGED <<now, db>>
    BY <1>5 DEF rollback
  <1> QED BY <1>1, <1>2, <1>3, <1>4, <1>5

\* What a step of the only connection does to the database is one operation, or
\* nothing.
LEMMA StepAtomic ==
  ASSUME SerialInv, [Next]_vars
  PROVE  [SerialNext]_<<now, db>>
  <1>1. CASE UNCHANGED vars
    BY <1>1 DEF vars, db
  <1>2. CASE Tick
    BY <1>2 DEF Tick, SerialNext
  <1>3. ASSUME NEW e \in Exams, NEW R \in SUBSET Students, NEW P \in SUBSET Questions, create_exam(e, R, P)
        PROVE  SerialNext
    <2>1. Creates(e, R, P) /\ UNCHANGED now
      BY <1>3 DEF create_exam, Creates
    <2> QED BY <2>1 DEF SerialNext, StaffAct
  <1>4. ASSUME NEW e \in Exams, NEW published \in BOOLEAN, publish_results(e, published)
        PROVE  SerialNext
    <2>1. Publishes(e, published) /\ UNCHANGED now
      BY <1>4 DEF publish_results, Publishes
    <2> QED BY <2>1 DEF SerialNext, StaffAct
  <1>5. ASSUME NEW c \in Conns, CommitStep(c) PROVE SerialNext
    <2>1. SafeInv /\ Current(c)
      BY DEF SerialInv
    <2> QED BY <1>5, <2>1, StaffCommitAtomic, CandidateCommitAtomic, AwardCommitAtomic,
               SweepCommitAtomic DEF CommitStep, SerialNext
  <1> QED BY <1>1, <1>2, <1>3, <1>4, <1>5, QuietSteps DEF Next

-----------------------------------------------------------------------------
(* What one operation may do to a row, and what it leaves of the order.     *)

\* A session's status follows the table, and its receipt stays.
SessionLaw(old, new) ==
  /\ old.status # "NONE" /\ Moved(old.status, new.status) => Follows(old.status, new.status)
  /\ old.rid # 0 => new.rid = old.rid /\ new.submitted_at = old.submitted_at /\ new.mode = old.mode

\* An examination's status follows the table, and its window stays or closes early.
ExamLaw(old, new) ==
  /\ old.status # "NONE" /\ Moved(old.status, new.status) =>
       \/ can_exam_move(old.status, new.status)
       \/ \E mid \in {"SCHEDULED", "ENDING"} :
            can_exam_move(old.status, mid) /\ can_exam_move(mid, new.status)
  /\ old.starts_at # 0 => new.starts_at = old.starts_at /\ new.ends_at <= old.ends_at

\* A session's row written by an operation other than the seating.
RowLaw(old, new) == /\ SessionLaw(old, new) /\ new.seat = old.seat
                    /\ new.status = "NONE" <=> old.status = "NONE"
                    /\ new.rid # 0 => new.status \in Submitted

\* A step keeps the examination e in order and breaks no law of its rows.
Lawful(e) ==
  /\ Orderly(e)'
  /\ ExamLaw(exam[e], exam'[e])
  /\ \A s \in Students : SessionLaw(session[e][s], session'[e][s])
  /\ \A s \in Students, q \in Questions :
       session[e][s].status \in Terminal => answer'[e][s][q].value = answer[e][s][q].value

LEMMA FollowsTable ==
  /\ Follows("NOT_STARTED", "WAITING") /\ Follows("NOT_STARTED", "READY") /\ Follows("NOT_STARTED", "ACTIVE")
  /\ Follows("WAITING", "ACTIVE") /\ Follows("READY", "ACTIVE")
  /\ Follows("ACTIVE", "SUBMITTED") /\ Follows("ACTIVE", "AUTO_SUBMITTED")
  /\ \A old \in {"NOT_STARTED", "WAITING", "READY", "ACTIVE"} : Follows(old, "TERMINATED")
  <1>1. can_session_move("NOT_STARTED", "WAITING") /\ can_session_move("WAITING", "READY")
        /\ can_session_move("READY", "ACTIVE") /\ can_session_move("ACTIVE", "SUBMITTED")
        /\ can_session_move("ACTIVE", "AUTO_SUBMITTED")
        /\ \A old \in {"NOT_STARTED", "WAITING", "READY", "ACTIVE"} : can_session_move(old, "TERMINATED")
    BY DEF can_session_move, SESSION_TRANSITIONS
  <1>2. /\ Follows("NOT_STARTED", "WAITING") /\ Follows("NOT_STARTED", "READY")
        /\ Follows("NOT_STARTED", "ACTIVE") /\ Follows("WAITING", "ACTIVE") /\ Follows("READY", "ACTIVE")
    BY <1>1 DEF Follows, SessionStatus
  <1>3. Follows("ACTIVE", "SUBMITTED") /\ Follows("ACTIVE", "AUTO_SUBMITTED")
    BY <1>1 DEF Follows, SessionStatus
  <1>4. \A old \in {"NOT_STARTED", "WAITING", "READY", "ACTIVE"} : Follows(old, "TERMINATED")
    BY <1>1 DEF Follows, SessionStatus
  <1> QED BY <1>2, <1>3, <1>4

\* Every operation's write of a session row obeys the law.
LEMMA RowLaws ==
  ASSUME NEW cur \in SessionRow, cur.rid # 0 => cur.status \in Submitted, NEW at
  PROVE  /\ RowLaw(cur, cur)
         /\ RowLaw(cur, Released(cur, cur, at))
         /\ RowLaw(cur, ClosedEarly(cur, cur, at))
         /\ RowLaw(cur, Cancelled(cur, cur))
         /\ RowLaw(cur, Swept(cur, cur, at))
         /\ cur.status # "NONE" => \A draw, machine : RowLaw(cur, Entered(cur, cur, draw, machine))
         /\ cur.status = "ACTIVE" => RowLaw(cur, HandedIn(cur, cur, at))
  <1> USE FollowsTable DEF RowLaw, SessionLaw, Moved, Submitted, SessionRow, SessionStatus
  <1>1. RowLaw(cur, cur)
    OBVIOUS
  <1>2. RowLaw(cur, Released(cur, cur, at))
    BY DEF Released
  <1>3. RowLaw(cur, ClosedEarly(cur, cur, at))
    BY DEF ClosedEarly, Write
  <1>4. RowLaw(cur, Cancelled(cur, cur))
    BY DEF Cancelled, Terminal
  <1>5. RowLaw(cur, Swept(cur, cur, at))
    BY DEF Swept, Write, SWEEPABLE_TO_AUTO_SUBMIT, SWEEPABLE_TO_TERMINATED
  <1>6. ASSUME NEW draw, NEW machine, cur.status # "NONE" PROVE RowLaw(cur, Entered(cur, cur, draw, machine))
    BY <1>6 DEF Entered, CheckedIn
  <1>7. cur.status = "ACTIVE" => RowLaw(cur, HandedIn(cur, cur, at))
    BY DEF HandedIn, Write
  <1> QED BY <1>1, <1>2, <1>3, <1>4, <1>5, <1>6, <1>7

\* A close leaves nobody sitting.
LEMMA RowsClosed ==
  ASSUME NEW cur \in SessionRow, NEW at
  PROVE  /\ ClosedEarly(cur, cur, at).status \in Terminal \cup {"NONE"}
         /\ Cancelled(cur, cur).status \in Terminal \cup {"NONE"}
         /\ Swept(cur, cur, at).status \in Terminal \cup {"NONE"}
  <1> USE DEF SessionRow, SessionStatus, Terminal
  <1>1. ClosedEarly(cur, cur, at).status \in Terminal \cup {"NONE"}
    BY DEF ClosedEarly
  <1>2. Cancelled(cur, cur).status \in Terminal \cup {"NONE"}
    BY DEF Cancelled
  <1>3. Swept(cur, cur, at).status \in Terminal \cup {"NONE"}
    BY DEF Swept, SWEEPABLE_TO_AUTO_SUBMIT, SWEEPABLE_TO_TERMINATED
  <1> QED BY <1>1, <1>2, <1>3

\* An examination whose sessions' rows all obey the law, with the same roster.
LEMMA RowsLawful ==
  ASSUME NEW e \in Exams, Orderly(e), roster'[e] = roster[e],
         \A s \in Students : RowLaw(session[e][s], session'[e][s]),
         \A s \in Students, q \in Questions :
           session[e][s].status \in Terminal => answer'[e][s][q].value = answer[e][s][q].value,
         ExamLaw(exam[e], exam'[e]),
         exam'[e].status \in {"NONE", "DRAFT", "READY", "LIVE", "COMPLETED", "CANCELLED"},
         exam'[e].status \in {"NONE", "DRAFT"} => \A s \in Students : session'[e][s] = NoSession,
         exam'[e].status \in {"NONE", "DRAFT", "READY"} => exam'[e].starts_at = 0,
         exam'[e].status \in {"READY", "LIVE", "COMPLETED"} =>
           exam[e].status \in {"READY", "LIVE", "COMPLETED"},
         exam'[e].status \in {"COMPLETED", "CANCELLED"} =>
           \A s \in Students : session'[e][s].status \in Terminal \cup {"NONE"}
  PROVE  Lawful(e)
  <1>1. exam'[e].status \in {"READY", "LIVE", "COMPLETED"} =>
          /\ {s \in Students : session'[e][s].status # "NONE"} = roster'[e]
          /\ \A s \in roster'[e] : session'[e][s].seat # 0
    <2>1. {s \in Students : session'[e][s].status # "NONE"} = {s \in Students : session[e][s].status # "NONE"}
      BY DEF RowLaw
    <2>2. exam'[e].status \in {"READY", "LIVE", "COMPLETED"} => roster[e] \subseteq Students
      BY DEF Orderly
    <2>3. \A s \in Students : session'[e][s].seat = session[e][s].seat
      BY DEF RowLaw
    <2> QED BY <2>1, <2>2, <2>3 DEF Orderly
  <1>2. \A s \in Students : session'[e][s].rid # 0 => session'[e][s].status \in Submitted
    BY DEF RowLaw
  <1>3. Orderly(e)'
    BY <1>1, <1>2 DEF Orderly
  <1> QED BY <1>3 DEF Lawful, RowLaw

\* A row that is not written obeys the law.
LEMMA Untouched ==
  ASSUME SafeInv, SerialDb, NEW e \in Exams, roster'[e] = roster[e], session'[e] = session[e],
         exam'[e].status = exam[e].status, exam'[e].starts_at = exam[e].starts_at,
         exam'[e].ends_at = exam[e].ends_at,
         \A s \in Students, q \in Questions :
           session[e][s].status \in Terminal => answer'[e][s][q].value = answer[e][s][q].value
  PROVE  Lawful(e)
  <1>0. exam[e] \in ExamRow /\ session[e] \in [Students -> SessionRow] /\ Orderly(e)
    BY DEF SafeInv, TypeInv, TypeOK, SerialDb
  <1>1. \A s \in Students : session[e][s] \in SessionRow /\ (session[e][s].rid # 0 => session[e][s].status \in Submitted)
    BY <1>0 DEF Orderly
  <1>2. \A s \in Students : RowLaw(session[e][s], session'[e][s])
    BY <1>1, RowLaws
  <1>3. ExamLaw(exam[e], exam'[e])
    BY <1>0 DEF ExamLaw, Moved, ExamRow
  <1> QED BY <1>0, <1>2, <1>3, RowsLawful DEF Orderly

\* The statuses a command may find.
LEMMA MovableFrom ==
  ASSUME NEW e \in Exams, Orderly(e)
  PROVE  /\ Movable(e, "SCHEDULED") => exam[e].status \in {"DRAFT", "READY"}
         /\ Movable(e, "LIVE") => exam[e].status = "READY"
         /\ Movable(e, "ENDING") => exam[e].status = "LIVE"
         /\ Movable(e, "CANCELLED") => exam[e].status \in {"DRAFT", "READY", "LIVE"}
  BY DEF Movable, can_exam_move, EXAM_TRANSITIONS, Orderly

\* The moves the commands make.
LEMMA MovesLegal ==
  /\ \A old \in {"DRAFT", "READY"}, mid \in {"SCHEDULED"} :
       can_exam_move(old, mid) /\ can_exam_move(mid, "READY")
  /\ can_exam_move("READY", "LIVE")
  /\ can_exam_move("LIVE", "ENDING") /\ can_exam_move("ENDING", "COMPLETED")
  /\ \A old \in {"DRAFT", "READY", "LIVE"} : can_exam_move(old, "CANCELLED")
  BY DEF can_exam_move, EXAM_TRANSITIONS

LEMMA CommandsLawful ==
  ASSUME SafeInv, SerialDb, NEW e \in Exams, NEW at \in Past, NEW key \in Keys,
         Starts(e, at, key) \/ EndsEarly(e, at) \/ Cancels(e)
  PROVE  \A f \in Exams : Lawful(f)
  <1>0. /\ exam \in [Exams -> ExamRow] /\ session \in [Exams -> [Students -> SessionRow]]
        /\ Orderly(e) /\ WindowOK(exam[e])
        /\ at \in Nat
    BY DEF SafeInv, SafeDb, TypeInv, TypeOK, SerialDb, Past, Time
  <1>1. \A s \in Students : session[e][s] \in SessionRow /\ (session[e][s].rid # 0 => session[e][s].status \in Submitted)
    BY <1>0 DEF Orderly
  <1>2. \A f \in Exams : f # e => exam'[f] = exam[f] /\ session'[f] = session[f]
    BY <1>0 DEF Starts, EndsEarly, Cancels
  <1>3. UNCHANGED <<roster, paper, answer, result>>
    BY DEF Starts, EndsEarly, Cancels
  <1>4. ASSUME NEW f \in Exams, f # e PROVE Lawful(f)
    BY <1>2, <1>3, <1>4, Untouched
  <1>5. ASSUME Starts(e, at, key) PROVE Lawful(e)
    <2>1. /\ exam'[e].status = "LIVE" /\ exam[e].status = "READY" /\ exam[e].starts_at = 0
          /\ \A s \in Students : session'[e][s] = Released(session[e][s], session[e][s], at)
      BY <1>0, <1>5, MovableFrom DEF Starts, Started, ExamRow, Orderly
    <2>2. ExamLaw(exam[e], exam'[e])
      BY <2>1, MovesLegal DEF ExamLaw
    <2>3. \A s \in Students : RowLaw(session[e][s], session'[e][s])
      BY <1>1, <2>1, RowLaws
    <2> QED BY <1>0, <1>3, <2>1, <2>2, <2>3, RowsLawful
  <1>6. ASSUME EndsEarly(e, at) PROVE Lawful(e)
    <2>1. /\ exam' = [exam EXCEPT ![e] = Ended(exam[e], exam[e], at)] /\ exam[e].status = "LIVE"
          /\ \A s \in Students : session'[e][s] = ClosedEarly(session[e][s], session[e][s], at)
      BY <1>0, <1>6, MovableFrom DEF EndsEarly
    <2>2. /\ exam'[e].status = "COMPLETED" /\ exam'[e].starts_at = exam[e].starts_at
          /\ exam'[e].ends_at <= exam[e].ends_at
      BY <1>0, <2>1 DEF Ended, Write, ExamRow
    <2>3. ExamLaw(exam[e], exam'[e])
      BY <2>1, <2>2, MovesLegal DEF ExamLaw
    <2>4. \A s \in Students : RowLaw(session[e][s], session'[e][s])
      BY <1>1, <2>1, RowLaws
    <2>5. \A s \in Students : session'[e][s].status \in Terminal \cup {"NONE"}
      BY <1>1, <2>1, RowsClosed
    <2> QED BY <1>0, <1>3, <2>1, <2>2, <2>3, <2>4, <2>5, RowsLawful
  <1>7. ASSUME Cancels(e) PROVE Lawful(e)
    <2>1. /\ exam' = [exam EXCEPT ![e] = Numbered(exam[e], "CANCELLED")]
          /\ exam[e].status \in {"DRAFT", "READY", "LIVE"}
          /\ \A s \in Students : session'[e][s] = Cancelled(session[e][s], session[e][s])
      BY <1>0, <1>7, MovableFrom DEF Cancels
    <2>2. /\ exam'[e].status = "CANCELLED" /\ exam'[e].starts_at = exam[e].starts_at
          /\ exam'[e].ends_at = exam[e].ends_at /\ exam[e].ends_at \in Nat
      BY <1>0, <2>1 DEF Numbered, ExamRow
    <2>3. ExamLaw(exam[e], exam'[e])
      BY <2>1, <2>2, MovesLegal DEF ExamLaw
    <2>4. \A s \in Students : RowLaw(session[e][s], session'[e][s])
      BY <1>1, <2>1, RowLaws
    <2>5. \A s \in Students : session'[e][s].status \in Terminal \cup {"NONE"}
      BY <1>1, <2>1, RowsClosed
    <2> QED BY <1>0, <1>3, <2>1, <2>2, <2>3, <2>4, <2>5, RowsLawful
  <1> QED BY <1>4, <1>5, <1>6, <1>7

LEMMA DraftsLawful ==
  ASSUME SafeInv, SerialDb, NEW e \in Exams,
         \/ \E R, P : Creates(e, R, P)
         \/ \E published \in BOOLEAN : Publishes(e, published)
         \/ \E Rs, Ps : Edits(e, Rs, Ps)
  PROVE  \A f \in Exams : Lawful(f)
  <1>0. /\ exam \in [Exams -> ExamRow] /\ roster \in [Exams -> SUBSET Students]
        /\ session \in [Exams -> [Students -> SessionRow]] /\ Orderly(e)
    BY DEF SafeInv, TypeInv, TypeOK, SerialDb
  <1>1. UNCHANGED <<session, answer>>
    BY DEF Creates, Publishes, Edits
  <1>2. ASSUME NEW f \in Exams, f # e PROVE Lawful(f)
    <2>1. exam'[f] = exam[f] /\ roster'[f] = roster[f]
      BY <1>0, <1>2 DEF Creates, Publishes, Edits
    <2> QED BY <1>1, <2>1, Untouched
  <1>3. ASSUME NEW published \in BOOLEAN, Publishes(e, published) PROVE Lawful(e)
    <2>1. /\ exam'[e].status = exam[e].status /\ exam'[e].starts_at = exam[e].starts_at
          /\ exam'[e].ends_at = exam[e].ends_at /\ roster' = roster
      BY <1>0, <1>3 DEF Publishes, ExamRow
    <2> QED BY <1>1, <2>1, Untouched
  <1>4. ASSUME exam[e].status \in {"NONE", "DRAFT"}, exam'[e].status = "DRAFT",
               exam'[e].starts_at = exam[e].starts_at
        PROVE  Lawful(e)
    <2>1. exam[e].starts_at = 0 /\ \A s \in Students : session'[e][s] = NoSession /\ session[e][s] = NoSession
      BY <1>0, <1>1, <1>4 DEF Orderly
    <2>2. Orderly(e)'
      BY <1>4, <2>1 DEF Orderly, NoSession
    <2>3. ExamLaw(exam[e], exam'[e])
      BY <1>4, <2>1 DEF ExamLaw, Moved
    <2>4. \A s \in Students : SessionLaw(session[e][s], session'[e][s])
      BY <2>1 DEF SessionLaw, NoSession
    <2> QED BY <1>1, <2>2, <2>3, <2>4 DEF Lawful
  <1>5. ASSUME NEW R, NEW P, Creates(e, R, P) PROVE Lawful(e)
    <2>1. exam[e].status = "NONE" /\ exam'[e].status = "DRAFT" /\ exam'[e].starts_at = exam[e].starts_at
      BY <1>0, <1>5 DEF Creates, ExamRow
    <2> QED BY <1>4, <2>1
  <1>6. ASSUME NEW Rs, NEW Ps, Edits(e, Rs, Ps) PROVE Lawful(e)
    BY <1>4, <1>6 DEF Edits
  <1> QED BY <1>2, <1>3, <1>5, <1>6

LEMMA CandidateLawful ==
  ASSUME SafeInv, SerialDb, NEW e \in Exams, NEW s \in Students, CandidateAct(e, s)
  PROVE  \A f \in Exams : Lawful(f)
  <1>0. /\ exam \in [Exams -> ExamRow] /\ session \in [Exams -> [Students -> SessionRow]]
        /\ answer \in [Exams -> [Students -> [Questions -> AnswerRow]]]
        /\ \A f \in Exams : Orderly(f)
    BY DEF SafeInv, TypeInv, TypeOK, SerialDb
  <1>1. UNCHANGED <<exam, roster>>
    BY DEF CandidateAct, ChecksIn, Saves, Flags, HandsIn, Awards
  <1>2. ASSUME UNCHANGED answer, NEW row, session' = [session EXCEPT ![e][s] = row],
               RowLaw(session[e][s], row), session[e][s].status # "NONE"
        PROVE  \A f \in Exams : Lawful(f)
    <2>1. ASSUME NEW f \in Exams, f # e PROVE Lawful(f)
      BY <1>0, <1>1, <1>2, <2>1, Untouched
    <2>2. \A r \in Students : session'[e][r] = IF r = s THEN row ELSE session[e][r]
      BY <1>0, <1>2
    <2>3. \A r \in Students : session[e][r] \in SessionRow /\ (session[e][r].rid # 0 => session[e][r].status \in Submitted)
      BY <1>0 DEF Orderly
    <2>4. \A r \in Students : RowLaw(session[e][r], session'[e][r])
      BY <1>2, <2>2, <2>3, RowLaws
    <2>5. ExamLaw(exam[e], exam'[e])
      BY <1>0, <1>1 DEF ExamLaw, Moved, ExamRow
    <2>6. exam[e].status \notin {"NONE", "DRAFT"}
      BY <1>0, <1>2 DEF Orderly, NoSession
    <2>7. exam[e].status \in {"COMPLETED", "CANCELLED"} =>
            \A r \in Students : session'[e][r].status \in Terminal \cup {"NONE"}
      <3>1. SUFFICES ASSUME exam[e].status \in {"COMPLETED", "CANCELLED"}, NEW r \in Students
                     PROVE  session'[e][r].status \in Terminal \cup {"NONE"}
        OBVIOUS
      <3>2. session[e][r].status \in Terminal \cup {"NONE"}
        BY <1>0, <3>1 DEF Orderly
      <3>3. session[e][r].status = session'[e][r].status \/ Follows(session[e][r].status, session'[e][r].status)
            \/ session[e][r].status = "NONE"
        BY <2>4 DEF RowLaw, SessionLaw, Moved
      <3>4. ASSUME session[e][r].status \in Terminal, Follows(session[e][r].status, session'[e][r].status)
            PROVE  session'[e][r].status = session[e][r].status
        BY <3>4 DEF Follows, can_session_move, SESSION_TRANSITIONS, Terminal
      <3>5. session[e][r].status = "NONE" => session'[e][r].status = "NONE"
        BY <2>4 DEF RowLaw
      <3> QED BY <3>2, <3>3, <3>4, <3>5
    <2>8. Orderly(e) /\ roster'[e] = roster[e] /\ exam'[e] = exam[e]
      BY <1>0, <1>1
    <2>9. Lawful(e)
      BY <1>2, <2>4, <2>5, <2>6, <2>7, <2>8, RowsLawful DEF Orderly
    <2> QED BY <2>1, <2>9
  <1>3. ASSUME UNCHANGED session, NEW q \in Questions, NEW row, answer' = [answer EXCEPT ![e][s][q] = row],
               session[e][s].status \in Terminal => row.value = answer[e][s][q].value
        PROVE  \A f \in Exams : Lawful(f)
    <2>1. \A f \in Exams, r \in Students, k \in Questions :
            answer'[f][r][k] = IF f = e /\ r = s /\ k = q THEN row ELSE answer[f][r][k]
      BY <1>0, <1>3
    <2>2. \A f \in Exams, r \in Students, k \in Questions :
            session[f][r].status \in Terminal => answer'[f][r][k].value = answer[f][r][k].value
      BY <1>3, <2>1
    <2> QED BY <1>1, <1>3, <2>2, Untouched
  <1>4. session[e][s] \in SessionRow /\ (session[e][s].rid # 0 => session[e][s].status \in Submitted)
    BY <1>0 DEF Orderly
  <1>5. ASSUME NEW machine \in {0, 1}, ChecksIn(e, s, machine) PROVE \A f \in Exams : Lawful(f)
    BY <1>2, <1>4, <1>5, RowLaws DEF ChecksIn
  <1>6. ASSUME NEW at \in Past, HandsIn(e, s, at) PROVE \A f \in Exams : Lawful(f)
    BY <1>2, <1>4, <1>6, RowLaws DEF HandsIn, accepts_candidate_writes
  <1>7. ASSUME NEW q \in Questions, NEW v \in Values, NEW n \in 0..MaxClientSeq, Saves(e, s, q, v, n)
        PROVE  \A f \in Exams : Lawful(f)
    <2>1. session[e][s].status \notin Terminal
      BY <1>7 DEF Saves, accepts_candidate_writes, Terminal
    <2> QED BY <1>3, <1>7, <2>1 DEF Saves
  <1>8. ASSUME NEW q \in Questions, Flags(e, s, q) PROVE \A f \in Exams : Lawful(f)
    <2>1. session[e][s].status \notin Terminal
      BY <1>8 DEF Flags, accepts_candidate_writes, Terminal
    <2> QED BY <1>3, <1>8, <2>1 DEF Flags
  <1>9. ASSUME NEW q \in Questions, NEW marks \in {0, 1}, Awards(e, s, q, marks)
        PROVE  \A f \in Exams : Lawful(f)
    <2> DEFINE row == [answer[e][s][q] EXCEPT !.award = marks]
    <2>1. row.value = answer[e][s][q].value
      BY <1>0 DEF AnswerRow
    <2>2. UNCHANGED session /\ answer' = [answer EXCEPT ![e][s][q] = row]
      BY <1>0, <1>9 DEF Awards
    <2> HIDE DEF row
    <2> QED BY <1>3, <2>1, <2>2
  <1> QED BY <1>5, <1>6, <1>7, <1>8, <1>9 DEF CandidateAct

LEMMA SweepLawful ==
  ASSUME SafeInv, SerialDb, NEW at \in Past, Sweeps(at)
  PROVE  \A f \in Exams : Lawful(f)
  <1>0. /\ exam \in [Exams -> ExamRow] /\ session \in [Exams -> [Students -> SessionRow]]
        /\ \A f \in Exams : Orderly(f)
    BY DEF SafeInv, TypeInv, TypeOK, SerialDb
  <1>1. UNCHANGED <<roster, paper, answer>>
    BY DEF Sweeps
  <1>2. ASSUME NEW e \in Exams, e \notin ExpiredAt(at) PROVE Lawful(e)
    <2>1. exam'[e] = exam[e] /\ session'[e] = [s \in Students |-> session[e][s]]
      BY <1>2 DEF Sweeps
    <2>2. session'[e] = session[e]
      BY <1>0, <2>1
    <2> QED BY <1>1, <2>1, <2>2, Untouched
  <1>3. ASSUME NEW e \in Exams, e \in ExpiredAt(at) PROVE Lawful(e)
    <2>1. exam'[e] = Numbered(exam[e], "COMPLETED")
      BY <1>3 DEF Sweeps
    <2>2. \A s \in Students : session'[e][s] = Swept(session[e][s], session[e][s], at)
      BY <1>3 DEF Sweeps
    <2>3. exam[e].status = "LIVE"
      BY <1>0, <1>3 DEF Orderly, ExpiredAt
    <2>4. /\ exam'[e].status = "COMPLETED" /\ exam'[e].starts_at = exam[e].starts_at
          /\ exam'[e].ends_at = exam[e].ends_at /\ exam[e].ends_at \in Nat
      BY <1>0, <2>1 DEF Numbered, ExamRow
    <2>5. ExamLaw(exam[e], exam'[e])
      BY <2>3, <2>4, MovesLegal DEF ExamLaw
    <2>6. \A s \in Students : session[e][s] \in SessionRow /\ (session[e][s].rid # 0 => session[e][s].status \in Submitted)
      BY <1>0 DEF Orderly
    <2>7. \A s \in Students : RowLaw(session[e][s], session'[e][s])
      BY <2>2, <2>6, RowLaws
    <2>8. \A s \in Students : session'[e][s].status \in Terminal \cup {"NONE"}
      BY <2>2, <2>6, RowsClosed
    <2> QED BY <1>0, <1>1, <2>3, <2>4, <2>5, <2>7, <2>8, RowsLawful
  <1> QED BY <1>2, <1>3

-----------------------------------------------------------------------------
(* Seating everyone.                                                        *)

\* Counting an initial segment of the positions.
LEMMA Prefix ==
  ASSUME NEW n \in Nat, NEW i \in 1..n
  PROVE  Cardinality({j \in 1..n : j <= i}) = i
  <1>1. {j \in 1..n : j <= i} = 1..i
    OBVIOUS
  <1>2. Cardinality(1..i) = i
    BY FS_Interval
  <1> QED BY <1>1, <1>2

\* In an empty room the k-th free workstation is the k-th.
LEMMA NextFreeOfAll ==
  ASSUME NEW k \in 1..Seats
  PROVE  NextFree(k, 1..Seats) \in 1..Seats
  <1> DEFINE kth == {w \in 1..Seats : Cardinality({v \in 1..Seats : v <= w}) = k}
  <1>1. k \in kth
    BY Prefix, ConstantsAssumption
  <1>2. NextFree(k, 1..Seats) = CHOOSE w \in kth : TRUE
    BY <1>1 DEF NextFree
  <1>3. (CHOOSE w \in kth : TRUE) \in kth
    BY <1>1
  <1> QED BY <1>2, <1>3

\* An enrolment list names everyone on the roster.
LEMMA OrdersOnto ==
  ASSUME NEW R \in SUBSET Students, NEW enrolled \in Orders(R), NEW s \in R
  PROVE  \E i \in 1..Cardinality(R) : enrolled[i] = s
  <1>1. IsFiniteSet(R) /\ Cardinality(R) \in Nat
    BY ConstantsAssumption, FS_Subset, FS_CardinalityType
  <1> DEFINE S == 1..Cardinality(R)
  <1>2. enrolled \in [S -> R] /\ \A i, j \in S : enrolled[i] = enrolled[j] => i = j
    BY DEF Orders
  <1>3. enrolled \in Injection(S, R)
    BY <1>2 DEF Injection, IsInjective
  <1>4. Cardinality(S) = Cardinality(R)
    BY <1>1, FS_Interval
  <1>5. enrolled \in Surjection(S, R)
    BY <1>1, <1>3, <1>4, FS_Injection
  <1> QED BY <1>5 DEF Surjection

\* A first scheduling gives everyone enrolled a session at a workstation, and
\* nobody else.
LEMMA EveryoneSeated ==
  ASSUME NEW R \in SUBSET Students, NEW enrolled \in Orders(R),
         capacity_shortfall(Cardinality(R), Seats) = 0,
         NEW rows \in [Students -> SessionRow], \A s \in Students : rows[s] = NoSession,
         NEW s \in Students
  PROVE  LET row == WithSeats(rows, NewSeats(enrolled, rows))[s]
         IN  /\ s \notin R => row = NoSession
             /\ s \in R => row.status = "NOT_STARTED" /\ row.seat \in 1..Seats /\ row.rid = 0
  <1>1. Cardinality(R) \in Nat /\ Cardinality(R) <= Seats
    <2>1. Cardinality(R) \in Nat
      BY ConstantsAssumption, FS_Subset, FS_CardinalityType
    <2> QED BY <2>1, ConstantsAssumption DEF capacity_shortfall
  <1>2. DOMAIN enrolled = 1..Cardinality(R) /\ \A i \in 1..Cardinality(R) : enrolled[i] \in R
    BY DEF Orders
  <1> DEFINE new == NewSeats(enrolled, rows)
             at  == {i \in DOMAIN new : new[i].student = s}
  <1>3. new = allocate_seats(enrolled, 1..Seats, {}, {})
    <2>1. {r \in Students : rows[r].status # "NONE"} = {}
      BY DEF NoSession
    <2> QED BY <2>1 DEF NewSeats
  <1>4. Waiting(enrolled, {}) = 1..Cardinality(R) /\ (1..Seats) \ {} = 1..Seats
    BY <1>2 DEF Waiting
  <1>5. new = [i \in 1..Cardinality(R) |->
                 [student |-> enrolled[i], computer |-> NextFree(Turn(i, 1..Cardinality(R)), 1..Seats)]]
    BY <1>3, <1>4 DEF allocate_seats
  <1>6. ASSUME NEW i \in 1..Cardinality(R) PROVE new[i].computer \in 1..Seats
    <2>1. Turn(i, 1..Cardinality(R)) = i
      BY <1>1, Prefix DEF Turn
    <2>2. i \in 1..Seats
      BY <1>1, ConstantsAssumption
    <2> QED BY <1>5, <2>1, <2>2, NextFreeOfAll
  <1>7. DOMAIN new = 1..Cardinality(R) /\ \A i \in 1..Cardinality(R) : new[i].student = enrolled[i]
    BY <1>5
  <1> HIDE DEF new
  <1> DEFINE row == WithSeats(rows, new)[s]
  <1>8. row = IF at = {} THEN rows[s]
              ELSE [NoSession EXCEPT !.status = "NOT_STARTED", !.seat = new[CHOOSE i \in at : TRUE].computer]
    BY DEF WithSeats
  <1>9. ASSUME s \notin R PROVE row = NoSession
    <2>1. at = {}
      BY <1>2, <1>7, <1>9
    <2> HIDE DEF at
    <2> QED BY <1>8, <2>1
  <1>10. ASSUME s \in R PROVE row.status = "NOT_STARTED" /\ row.seat \in 1..Seats /\ row.rid = 0
    <2>1. at # {}
      BY <1>7, <1>10, OrdersOnto
    <2>2. (CHOOSE i \in at : TRUE) \in at
      BY <2>1
    <2>3. new[CHOOSE i \in at : TRUE].computer \in 1..Seats
      BY <1>6, <1>7, <2>2
    <2> HIDE DEF at
    <2> QED BY <1>8, <2>1, <2>3 DEF NoSession
  <1> QED BY <1>9, <1>10 DEF new

\* Scheduling again, when everyone enrolled has a session, changes no session.
LEMMA NobodyWaiting ==
  ASSUME NEW rows \in [Students -> SessionRow], NEW R \in SUBSET Students, NEW enrolled \in Orders(R),
         {s \in Students : rows[s].status # "NONE"} = R
  PROVE  WithSeats(rows, NewSeats(enrolled, rows)) = rows
  <1> DEFINE new == NewSeats(enrolled, rows)
  <1>1. Waiting(enrolled, R) = {}
    BY DEF Waiting, Orders
  <1>2. DOMAIN new = {}
    BY <1>1 DEF NewSeats, allocate_seats
  <1> HIDE DEF new
  <1>3. WithSeats(rows, new) = [s \in Students |-> rows[s]]
    BY <1>2 DEF WithSeats
  <1> QED BY <1>3 DEF new

LEMMA SchedulesLawful ==
  ASSUME SafeInv, SerialDb, NEW e \in Exams, NEW enrolled, Schedules(e, enrolled)
  PROVE  \A f \in Exams : Lawful(f)
  <1>0. /\ exam \in [Exams -> ExamRow] /\ session \in [Exams -> [Students -> SessionRow]]
        /\ roster \in [Exams -> SUBSET Students] /\ Orderly(e)
    BY DEF SafeInv, TypeInv, TypeOK, SerialDb
  <1>1. UNCHANGED <<roster, paper, answer>> /\ enrolled \in Orders(roster[e])
        /\ capacity_shortfall(Cardinality(roster[e]), Seats) = 0
    BY DEF Schedules
  <1>2. ASSUME NEW f \in Exams, f # e PROVE Lawful(f)
    <2>1. exam'[f] = exam[f] /\ session'[f] = session[f]
      BY <1>0, <1>2 DEF Schedules
    <2> QED BY <1>1, <2>1, Untouched
  <1>3. /\ exam[e].status \in {"DRAFT", "READY"} /\ exam[e].starts_at = 0
        /\ exam'[e].status = "READY" /\ exam'[e].starts_at = 0
    <2>1. exam'[e] = Scheduled(exam[e], exam[e]) /\ exam[e].status \in {"DRAFT", "READY"}
      BY <1>0, MovableFrom DEF Schedules
    <2> QED BY <1>0, <2>1 DEF Scheduled, Write, ExamRow, Orderly
  <1>4. session'[e] = WithSeats(session[e], NewSeats(enrolled, session[e]))
    BY <1>0 DEF Schedules
  <1>5. ExamLaw(exam[e], exam'[e])
    BY <1>3, MovesLegal DEF ExamLaw
  <1>6. ASSUME exam[e].status = "DRAFT" PROVE Lawful(e)
    <2>1. \A s \in Students : session[e][s] = NoSession
      BY <1>0, <1>6 DEF Orderly
    <2>2. \A s \in Students :
            /\ s \notin roster[e] => session'[e][s] = NoSession
            /\ s \in roster[e] => /\ session'[e][s].status = "NOT_STARTED"
                                  /\ session'[e][s].seat \in 1..Seats /\ session'[e][s].rid = 0
      BY <1>0, <1>1, <1>4, <2>1, EveryoneSeated
    <2>3. {s \in Students : session'[e][s].status # "NONE"} = roster[e]
      BY <1>0, <2>2 DEF NoSession
    <2>4. \A s \in roster[e] : session'[e][s].seat # 0
      BY <1>0, <2>2
    <2>5. \A s \in Students : session'[e][s].rid = 0
      BY <2>2 DEF NoSession
    <2>6. Orderly(e)'
      BY <1>1, <1>3, <2>3, <2>4, <2>5 DEF Orderly
    <2>7. \A s \in Students : SessionLaw(session[e][s], session'[e][s])
      BY <2>1 DEF SessionLaw, NoSession
    <2> QED BY <1>1, <1>5, <2>6, <2>7 DEF Lawful
  <1>7. ASSUME exam[e].status = "READY" PROVE Lawful(e)
    <2>1. session'[e] = session[e]
      BY <1>0, <1>1, <1>4, <1>7, NobodyWaiting DEF Orderly
    <2>2. \A s \in Students : RowLaw(session[e][s], session'[e][s])
      <3>1. \A s \in Students : session[e][s] \in SessionRow /\ (session[e][s].rid # 0 => session[e][s].status \in Submitted)
        BY <1>0 DEF Orderly
      <3> QED BY <2>1, <3>1, RowLaws
    <2> QED BY <1>0, <1>1, <1>3, <1>5, <1>7, <2>2, RowsLawful
  <1> QED BY <1>2, <1>3, <1>6, <1>7

-----------------------------------------------------------------------------
(* The invariant.                                                           *)

\* Whichever the operation, every examination stays in order.
LEMMA OperationLawful ==
  ASSUME SafeInv, SerialDb, [SerialNext]_<<now, db>>
  PROVE  \A f \in Exams : Lawful(f)
  <1>1. ASSUME NEW e \in Exams, StaffAct(e) PROVE \A f \in Exams : Lawful(f)
    <2>1. 1 \in Past /\ "none" \in Keys
      BY ConstantsAssumption DEF Past, SafeInv, TypeInv, TypeOK, Time
    <2>2. ASSUME Cancels(e) PROVE \A f \in Exams : Lawful(f)
      BY <2>1, <2>2, CommandsLawful
    <2>3. ASSUME NEW at \in Past, NEW key \in Keys, Starts(e, at, key) PROVE \A f \in Exams : Lawful(f)
      BY <2>3, CommandsLawful
    <2>4. ASSUME NEW at \in Past, EndsEarly(e, at) PROVE \A f \in Exams : Lawful(f)
      BY <2>1, <2>4, CommandsLawful
    <2>5. ASSUME NEW enrolled, Schedules(e, enrolled) PROVE \A f \in Exams : Lawful(f)
      BY <2>5, SchedulesLawful
    <2> QED BY <1>1, <2>2, <2>3, <2>4, <2>5, DraftsLawful DEF StaffAct
  <1>2. CASE UNCHANGED db
    BY <1>2, Untouched DEF db
  <1> QED BY <1>1, <1>2, CandidateLawful, SweepLawful DEF SerialNext

\* After a step of the only connection, what it holds is current.
LEMMA CurrentStep ==
  ASSUME SerialInv, NEW c \in Conns, Conns = {c}, Next, TypeOK'
  PROVE  Current(c)'
  <1>0. /\ SafeInv /\ SerialDb /\ Current(c) /\ now \in Nat /\ now' \in Nat
        /\ txn \in [Conns -> TypedTxn] /\ exam \in [Exams -> ExamRow]
        /\ roster \in [Exams -> SUBSET Students] /\ paper \in [Exams -> SUBSET Questions]
    BY DEF SerialInv, SafeInv, TypeInv, TypeOK, Time
  <1>1. CASE Tick
    BY <1>0, <1>1, StillCurrent DEF Tick, db, SameColumns
  <1>2. ASSUME NEW e \in Exams, NEW R, NEW P, create_exam(e, R, P) PROVE Current(c)'
    <2>1. /\ exam[e].status = "NONE" /\ exam'[e].status = "DRAFT"
          /\ \A f \in Exams : f # e => exam'[f] = exam[f] /\ roster'[f] = roster[f] /\ paper'[f] = paper[f]
          /\ UNCHANGED <<now, session, answer, result, txn>>
      BY <1>0, <1>2 DEF create_exam, ExamRow
    <2>2. \A f \in Exams : exam[f].status = "NONE" => exam'[f].status \in {"NONE", "DRAFT"}
      BY <2>1
    <2>3. \A f \in Exams : exam[f].status # "NONE" =>
            SameColumns(exam'[f], exam[f]) /\ roster'[f] = roster[f] /\ paper'[f] = paper[f]
      BY <2>1 DEF SameColumns
    <2> QED BY <1>0, <2>1, <2>2, <2>3, StillCurrent
  <1>3. ASSUME NEW e \in Exams, NEW published, publish_results(e, published) PROVE Current(c)'
    <2>1. /\ \A f \in Exams : SameColumns(exam'[f], exam[f])
          /\ UNCHANGED <<now, roster, paper, session, answer, result, txn>>
      BY <1>0, <1>3 DEF publish_results, ExamRow, SameColumns
    <2>2. \A f \in Exams : exam[f].status = "NONE" => exam'[f].status \in {"NONE", "DRAFT"}
      BY <2>1 DEF SameColumns
    <2> QED BY <1>0, <2>1, <2>2, StillCurrent
  <1>4. ASSUME txn'[c] = Idle PROVE Current(c)'
    BY <1>0, <1>4, IdleAnswers DEF Current
  <1>5. ASSUME rollback(c) PROVE Current(c)'
    BY <1>0, <1>4, <1>5 DEF rollback
  <1>6. ASSUME CommitStep(c) PROVE Current(c)'
    <2>1. CASE update_exam_commit(c)
      BY <1>4, <2>1 DEF update_exam_commit
    <2>2. ASSUME NEW op, Committing(c, op) PROVE Current(c)'
      BY <1>0, <1>4, <2>2 DEF Committing
    <2>3. CASE schedule_exam_commit(c) \/ start_exam_commit(c) \/ end_exam_commit(c) \/ cancel_exam_commit(c)
      BY <2>2, <2>3 DEF schedule_exam_commit, start_exam_commit, end_exam_commit, cancel_exam_commit
    <2>4. CASE check_in_commit(c) \/ save_answer_commit(c) \/ toggle_flag_commit(c) \/ submit_commit(c)
      BY <2>2, <2>4 DEF check_in_commit, save_answer_commit, toggle_flag_commit, submit_commit
    <2>5. CASE award_marks_commit(c) \/ sweep_once_commit(c)
      BY <2>2, <2>5 DEF award_marks_commit, sweep_once_commit
    <2> QED BY <1>6, <2>1, <2>3, <2>4, <2>5 DEF CommitStep
  <1>7. ASSUME LoadStep(c) PROVE Current(c)'
    BY <1>0, <1>7, StaffLoadCurrent, CandidateLoadCurrent, GradingLoadCurrent DEF LoadStep
  <1> QED BY <1>0, <1>1, <1>2, <1>3, <1>5, <1>6, <1>7, StaffBeginCurrent, CandidateBeginCurrent,
             SweepBeginCurrent DEF Next

LEMMA SerialStart ==
  ASSUME Init
  PROVE  SerialInv /\ SerialInit
  <1>1. /\ \A e \in Exams : exam[e] = NoExam
        /\ \A e \in Exams, s \in Students : session[e][s] = NoSession
        /\ \A c \in Conns : txn[c] = Idle
        /\ now = 1
    BY DEF Init, NoSessions
  <1>2. SerialDb
    BY <1>1 DEF SerialDb, Orderly, NoExam, NoSession
  <1>3. \A c \in Conns : Current(c)
    BY <1>1, IdleAnswers DEF Current
  <1>4. SerialInit
    BY DEF Init, SerialInit
  <1> QED BY <1>2, <1>3, <1>4, SafeInit DEF SerialInv

LEMMA SerialStep ==
  ASSUME SerialInv, OneConnection, [Next]_vars
  PROVE  SerialInv' /\ [SerialNext]_<<now, db>> /\ \A f \in Exams : Lawful(f)
  <1>1. SafeInv /\ SerialDb
    BY DEF SerialInv
  <1>2. SafeInv'
    BY <1>1, SafeStep
  <1>3. [SerialNext]_<<now, db>>
    BY StepAtomic
  <1>4. \A f \in Exams : Lawful(f)
    BY <1>1, <1>3, OperationLawful
  <1>5. SerialDb'
    BY <1>4 DEF Lawful, SerialDb
  <1>6. ASSUME NEW c \in Conns PROVE Current(c)'
    <2>1. Conns = {c}
      BY DEF OneConnection
    <2>2. CASE UNCHANGED vars
      <3>1. now \in Nat /\ now' = now /\ now <= now /\ Current(c)
        BY <2>2 DEF vars, SerialInv, SafeInv, TypeInv, TypeOK, Time
      <3> QED BY <1>1, <2>2, <3>1, StillCurrent DEF vars, SameColumns
    <2>3. CASE Next
      BY <1>2, <2>1, <2>3, CurrentStep DEF SafeInv, TypeInv
    <2> QED BY <2>2, <2>3
  <1> QED BY <1>2, <1>3, <1>4, <1>5, <1>6 DEF SerialInv

-----------------------------------------------------------------------------
(* The theorems.                                                            *)

LEMMA SerialAlways == OneConnection => (Spec => []SerialInv)
  <1> SUFFICES ASSUME OneConnection PROVE Spec => []SerialInv
    OBVIOUS
  <1>1. Init => SerialInv
    BY SerialStart
  <1>2. SerialInv /\ [Next]_vars => SerialInv'
    BY SerialStep
  <1> QED BY <1>1, <1>2, PTL DEF Spec

\* One transaction at a time, the backend's three-step handlers do what the
\* handlers say as single operations: nothing a handler has loaded is out of date
\* when it commits, so ExamLifecycle implements ExamSerial.
THEOREM HandlersAtomic == OneConnection => (Spec => SerialSpec)
  <1> SUFFICES ASSUME OneConnection PROVE Spec => SerialSpec
    OBVIOUS
  <1>1. Init => SerialInit
    BY SerialStart
  <1>2. SerialInv /\ [Next]_vars => [SerialNext]_<<now, db>>
    BY SerialStep
  <1> QED BY <1>1, <1>2, SerialAlways, PTL DEF Spec, SerialSpec

\* One transaction at a time, no examination is over while somebody sits in it:
\* end_exam, cancel_exam and the sweep close every session they leave behind.
THEOREM NobodyLeft == OneConnection => (Spec => []NobodyLeftOpen)
  <1> SUFFICES ASSUME OneConnection PROVE Spec => []NobodyLeftOpen
    OBVIOUS
  <1>1. SerialInv => NobodyLeftOpen
    BY DEF SerialInv, SerialDb, Orderly, NobodyLeftOpen
  <1> QED BY <1>1, SerialAlways, PTL

\* One transaction at a time, the sessions of a scheduled examination are its
\* roster, each at a workstation: schedule_exam seats everybody, and nobody else.
THEOREM RosterAlwaysSeated == OneConnection => (Spec => []RosterSeated)
  <1> SUFFICES ASSUME OneConnection PROVE Spec => []RosterSeated
    OBVIOUS
  <1>1. SerialInv => RosterSeated
    BY DEF SerialInv, SerialDb, Orderly, RosterSeated
  <1> QED BY <1>1, SerialAlways, PTL

\* One transaction at a time, an examination's status only takes the moves of
\* EXAM_TRANSITIONS, whatever order the commands and the sweep come in.
THEOREM ExamMovesAlwaysLegal == OneConnection => (Spec => ExamMovesLegal)
  <1> SUFFICES ASSUME OneConnection PROVE Spec => ExamMovesLegal
    OBVIOUS
  <1>1. ASSUME SerialInv, [Next]_vars
        PROVE  [\A e \in Exams :
                  LET old == exam[e].status
                      new == exam'[e].status
                  IN  old # "NONE" /\ Moved(old, new) =>
                        \/ can_exam_move(old, new)
                        \/ \E mid \in {"SCHEDULED", "ENDING"} :
                             can_exam_move(old, mid) /\ can_exam_move(mid, new)]_vars
    BY <1>1, SerialStep DEF Lawful, ExamLaw
  <1> QED BY <1>1, SerialAlways, PTL DEF Spec, ExamMovesLegal

\* One transaction at a time, a window once set never opens again and a receipt
\* once issued is the receipt.
THEOREM StampsStay == OneConnection => (Spec => StampedOnce)
  <1> SUFFICES ASSUME OneConnection PROVE Spec => StampedOnce
    OBVIOUS
  <1>1. ASSUME SerialInv, [Next]_vars
        PROVE  [\A e \in Exams :
                  /\ exam[e].starts_at # 0 =>
                       /\ exam'[e].starts_at = exam[e].starts_at
                       /\ exam'[e].ends_at <= exam[e].ends_at
                  /\ \A s \in Students : session[e][s].rid # 0 =>
                       /\ session'[e][s].rid = session[e][s].rid
                       /\ session'[e][s].submitted_at = session[e][s].submitted_at
                       /\ session'[e][s].mode = session[e][s].mode]_vars
    BY <1>1, SerialStep DEF Lawful, ExamLaw, SessionLaw
  <1> QED BY <1>1, SerialAlways, PTL DEF Spec, StampedOnce

\* One transaction at a time, a session only moves the way SESSION_TRANSITIONS
\* points: no check-in reopens it and no close relabels a paper handed in.
THEOREM SessionsGoForward == OneConnection => (Spec => SessionNeverBackwards)
  <1> SUFFICES ASSUME OneConnection PROVE Spec => SessionNeverBackwards
    OBVIOUS
  <1>1. ASSUME SerialInv, [Next]_vars
        PROVE  [\A e \in Exams, s \in Students :
                  LET old == session[e][s].status
                      new == session'[e][s].status
                  IN  old # "NONE" /\ Moved(old, new) => Follows(old, new)]_vars
    BY <1>1, SerialStep DEF Lawful, SessionLaw
  <1> QED BY <1>1, SerialAlways, PTL DEF Spec, SessionNeverBackwards

\* One transaction at a time, nothing is written into a paper that was handed in:
\* save_answer and toggle_flag are refused, and a marker changes no response.
THEOREM ResponsesFrozen == OneConnection => (Spec => AnswersFrozen)
  <1> SUFFICES ASSUME OneConnection PROVE Spec => AnswersFrozen
    OBVIOUS
  <1>1. ASSUME SerialInv, [Next]_vars
        PROVE  [\A e \in Exams, s \in Students, q \in Questions :
                  session[e][s].status \in Terminal =>
                    answer'[e][s][q].value = answer[e][s][q].value]_vars
    BY <1>1, SerialStep DEF Lawful
  <1> QED BY <1>1, SerialAlways, PTL DEF Spec, AnswersFrozen

-----------------------------------------------------------------------------
(* Results.  Two things leave the score of a submitted paper behind, and    *)
(* the theorem excludes both: end_exam closes sessions without grading, and *)
(* a candidate who never checked in before the close draws the paper when   *)
(* they check in after it, which changes the score only if the draw is not  *)
(* the whole paper.                                                         *)

\* questions_per_student is 0, the default.
DrawsAll == \A s \in Students, p \in SUBSET Questions : draw_paper(s, p) = p

\* A session has drawn nothing or the whole paper, and a submitted one's result
\* is its score.
Scored(e) ==
  \A s \in Students :
    /\ session[e][s].order \in {{}, paper[e]}
    /\ session[e][s].status \in Submitted => result[e][s] = Score(e, s)

ScoredDb == \A e \in Exams : Scored(e)

\* Drawing nothing and drawing everything score the same.
LEMMA WholeScore ==
  ASSUME NEW qs, NEW order \in {{}, qs}, NEW ans
  PROVE  score_paper(qs, order, ans) = score_paper(qs, {}, ans)
  <1> DEFINE ids(o) == IF o = {} THEN qs ELSE o \cap qs
  <1>1. ids(order) = ids({})
    OBVIOUS
  <1> QED BY <1>1 DEF score_paper

\* A row that keeps its answers, its paper and its result, and does not become
\* submitted.
LEMMA KeptScored ==
  ASSUME NEW e \in Exams, Scored(e), paper'[e] = paper[e],
         \A s \in Students :
            /\ session'[e][s].order \in {session[e][s].order, {}, paper[e]}
            /\ session'[e][s].status \in Submitted =>
                 /\ session[e][s].status \in Submitted
                 /\ answer'[e][s] = answer[e][s] /\ result'[e][s] = result[e][s]
  PROVE  Scored(e)'
  <1>1. SUFFICES ASSUME NEW s \in Students
                 PROVE  /\ session'[e][s].order \in {{}, paper'[e]}
                        /\ session'[e][s].status \in Submitted =>
                             result'[e][s] = score_paper(paper'[e], session'[e][s].order, answer'[e][s])
    BY DEF Scored, Score
  <1>2. session'[e][s].order \in {{}, paper[e]} /\ session[e][s].order \in {{}, paper[e]}
    BY DEF Scored
  <1>3. score_paper(paper[e], session'[e][s].order, answer[e][s])
          = score_paper(paper[e], session[e][s].order, answer[e][s])
    BY <1>2, WholeScore
  <1> QED BY <1>2, <1>3 DEF Scored, Score

\* An examination nobody has a session of yet.
LEMMA NobodyScored ==
  ASSUME NEW e \in Exams, \A s \in Students : session'[e][s] = NoSession
  PROVE  Scored(e)'
  BY DEF Scored, NoSession, Submitted

\* What the commands write to a session's row, for its score.
LEMMA RowScores ==
  ASSUME NEW cur \in SessionRow, NEW at
  PROVE  LET Same(new) == new.order = cur.order /\ (new.status \in Submitted => cur.status \in Submitted)
         IN  Same(Released(cur, cur, at)) /\ Same(Cancelled(cur, cur))
  BY DEF Released, Cancelled, Submitted, SessionRow

LEMMA StaffScored ==
  ASSUME SafeInv, SerialDb, ScoredDb, "end_exam" \notin Ops, NEW e \in Exams, StaffAct(e)
  PROVE  ScoredDb'
  <1>0. /\ exam \in [Exams -> ExamRow] /\ session \in [Exams -> [Students -> SessionRow]]
        /\ paper \in [Exams -> SUBSET Questions] /\ Orderly(e) /\ \A f \in Exams : Scored(f)
    BY DEF SafeInv, TypeInv, TypeOK, SerialDb, ScoredDb
  <1>1. UNCHANGED <<answer, result>>
    BY DEF StaffAct, Creates, Publishes, Edits, Schedules, Starts, EndsEarly, Cancels
  <1>2. ASSUME \A f \in Exams : f # e => session'[f] = session[f] /\ paper'[f] = paper[f], Scored(e)'
        PROVE  ScoredDb'
    <2>1. ASSUME NEW f \in Exams, f # e PROVE Scored(f)'
      BY <1>0, <1>1, <1>2, <2>1, KeptScored
    <2> QED BY <1>2, <2>1 DEF ScoredDb
  <1>3. ASSUME UNCHANGED session, exam[e].status \in {"NONE", "DRAFT"},
               \A f \in Exams : f # e => paper'[f] = paper[f]
        PROVE  ScoredDb'
    <2>1. \A s \in Students : session'[e][s] = NoSession
      BY <1>0, <1>3 DEF Orderly
    <2> QED BY <1>2, <1>3, <2>1, NobodyScored
  <1>4. ASSUME NEW R, NEW P, Creates(e, R, P) PROVE ScoredDb'
    BY <1>0, <1>3, <1>4 DEF Creates
  <1>5. ASSUME NEW Rs, NEW Ps, Edits(e, Rs, Ps) PROVE ScoredDb'
    BY <1>0, <1>3, <1>5 DEF Edits
  <1>6. ASSUME UNCHANGED paper, NEW rows, session' = [session EXCEPT ![e] = rows],
               \A s \in Students :
                  /\ rows[s].order \in {session[e][s].order, {}}
                  /\ rows[s].status \in Submitted => session[e][s].status \in Submitted
        PROVE  ScoredDb'
    <2>1. session'[e] = rows /\ \A f \in Exams : f # e => session'[f] = session[f]
      BY <1>0, <1>6
    <2>2. Scored(e)'
      BY <1>0, <1>1, <1>6, <2>1, KeptScored
    <2> QED BY <1>2, <1>6, <2>1, <2>2
  <1>7. ASSUME NEW published, Publishes(e, published) PROVE ScoredDb'
    <2>1. UNCHANGED <<session, paper>>
      BY <1>7 DEF Publishes
    <2>2. Scored(e)'
      BY <1>0, <1>1, <2>1, KeptScored
    <2> QED BY <1>2, <2>1, <2>2
  <1>8. ASSUME NEW enrolled, Schedules(e, enrolled) PROVE ScoredDb'
    <2> DEFINE new == NewSeats(enrolled, session[e])
    <2>1. UNCHANGED paper /\ session' = [session EXCEPT ![e] = WithSeats(session[e], new)]
      BY <1>8 DEF Schedules
    <2> HIDE DEF new
    <2>2. \A s \in Students :
             /\ WithSeats(session[e], new)[s].order \in {session[e][s].order, {}}
             /\ WithSeats(session[e], new)[s].status \in Submitted => session[e][s].status \in Submitted
      BY DEF WithSeats, NoSession, Submitted
    <2> QED BY <1>6, <2>1, <2>2
  <1>9. ASSUME NEW at, NEW key, Starts(e, at, key) PROVE ScoredDb'
    <2> DEFINE rows == [s \in Students |-> Released(session[e][s], session[e][s], at)]
    <2>1. UNCHANGED paper /\ session' = [session EXCEPT ![e] = rows]
      BY <1>9 DEF Starts
    <2>2. \A s \in Students : rows[s].order = session[e][s].order
                              /\ (rows[s].status \in Submitted => session[e][s].status \in Submitted)
      BY <1>0, RowScores
    <2> HIDE DEF rows
    <2> QED BY <1>6, <2>1, <2>2
  <1>10. ASSUME Cancels(e) PROVE ScoredDb'
    <2> DEFINE rows == [s \in Students |-> Cancelled(session[e][s], session[e][s])]
    <2>1. UNCHANGED paper /\ session' = [session EXCEPT ![e] = rows]
      BY <1>10 DEF Cancels
    <2>2. \A s \in Students : rows[s].order = session[e][s].order
                              /\ (rows[s].status \in Submitted => session[e][s].status \in Submitted)
      BY <1>0, RowScores
    <2> HIDE DEF rows
    <2> QED BY <1>6, <2>1, <2>2
  <1> QED BY <1>4, <1>5, <1>7, <1>8, <1>9, <1>10 DEF StaffAct, EndsEarly

LEMMA CandidateScored ==
  ASSUME SafeInv, SerialDb, ScoredDb, DrawsAll, NEW e \in Exams, NEW s \in Students, CandidateAct(e, s)
  PROVE  ScoredDb'
  <1>0. /\ session \in [Exams -> [Students -> SessionRow]] /\ paper \in [Exams -> SUBSET Questions]
        /\ answer \in [Exams -> [Students -> [Questions -> AnswerRow]]]
        /\ result \in [Exams -> [Students -> ResultRow]]
        /\ \A f \in Exams : Scored(f)
    BY DEF SafeInv, TypeInv, TypeOK, ScoredDb
  <1>1. UNCHANGED paper
    BY DEF CandidateAct, ChecksIn, Saves, Flags, HandsIn, Awards
  <1>2. ASSUME \A f \in Exams, r \in Students : f # e \/ r # s =>
                 /\ session'[f][r] = session[f][r] /\ answer'[f][r] = answer[f][r]
                 /\ result'[f][r] = result[f][r],
               session'[e][s].order \in {{}, paper[e]},
               session'[e][s].status \in Submitted =>
                 result'[e][s] = score_paper(paper[e], session'[e][s].order, answer'[e][s])
        PROVE  ScoredDb'
    <2>1. ASSUME NEW f \in Exams, f # e PROVE Scored(f)'
      BY <1>0, <1>1, <1>2, <2>1, KeptScored
    <2>2. ASSUME NEW r \in Students, r # s
          PROVE  /\ session'[e][r].order \in {{}, paper'[e]}
                 /\ session'[e][r].status \in Submitted =>
                      result'[e][r] = score_paper(paper'[e], session'[e][r].order, answer'[e][r])
      BY <1>0, <1>1, <1>2, <2>2 DEF Scored, Score
    <2>3. Scored(e)'
      BY <1>1, <1>2, <2>2 DEF Scored, Score
    <2> QED BY <2>1, <2>3 DEF ScoredDb
  <1>3. session[e][s].order \in {{}, paper[e]} /\ session[e][s] \in SessionRow
    BY <1>0 DEF Scored
  <1>4. ASSUME NEW machine \in {0, 1}, ChecksIn(e, s, machine) PROVE ScoredDb'
    <2> DEFINE row == Entered(session[e][s], session[e][s], paper[e], machine)
    <2>1. session' = [session EXCEPT ![e][s] = row] /\ UNCHANGED <<answer, result>>
      BY <1>0, <1>4 DEF ChecksIn, DrawsAll
    <2>2. row.order \in {{}, paper[e]} /\ (row.status \in Submitted => session[e][s].status \in Submitted)
      BY <1>3 DEF Entered, CheckedIn, SessionRow, Submitted
    <2> HIDE DEF row
    <2>3. session'[e][s] = row /\ \A f \in Exams, r \in Students : f # e \/ r # s => session'[f][r] = session[f][r]
      BY <1>0, <2>1
    <2>4. score_paper(paper[e], row.order, answer[e][s])
            = score_paper(paper[e], session[e][s].order, answer[e][s])
      BY <1>3, <2>2, WholeScore
    <2> QED BY <1>0, <1>2, <2>1, <2>2, <2>3, <2>4 DEF Scored, Score
  <1>5. ASSUME UNCHANGED <<session, result>>, NEW q \in Questions, NEW row,
               answer' = [answer EXCEPT ![e][s][q] = row], session[e][s].status \notin Submitted
        PROVE  ScoredDb'
    <2>1. \A f \in Exams, r \in Students : f # e \/ r # s => answer'[f][r] = answer[f][r]
      BY <1>0, <1>5
    <2> QED BY <1>2, <1>3, <1>5, <2>1
  <1>6. ASSUME NEW q \in Questions, NEW v, NEW n, Saves(e, s, q, v, n) PROVE ScoredDb'
    BY <1>5, <1>6 DEF Saves, accepts_candidate_writes, Submitted
  <1>7. ASSUME NEW q \in Questions, Flags(e, s, q) PROVE ScoredDb'
    BY <1>5, <1>7 DEF Flags, accepts_candidate_writes, Submitted
  <1>8. ASSUME NEW at, HandsIn(e, s, at) PROVE ScoredDb'
    <2> DEFINE row == HandedIn(session[e][s], session[e][s], at)
    <2>1. /\ session' = [session EXCEPT ![e][s] = row] /\ result' = [result EXCEPT ![e][s] = Score(e, s)]
          /\ UNCHANGED answer
      BY <1>8 DEF HandsIn
    <2>2. row.order = session[e][s].order
      BY <1>3 DEF HandedIn, SessionRow
    <2> HIDE DEF row
    <2>3. /\ session'[e][s] = row /\ result'[e][s] = Score(e, s)
          /\ \A f \in Exams, r \in Students : f # e \/ r # s =>
               session'[f][r] = session[f][r] /\ result'[f][r] = result[f][r]
      BY <1>0, <2>1
    <2> QED BY <1>2, <1>3, <2>1, <2>2, <2>3 DEF Score
  <1>9. ASSUME NEW q \in Questions, NEW marks, Awards(e, s, q, marks) PROVE ScoredDb'
    <2> DEFINE row == [answer[e][s][q] EXCEPT !.award = marks]
               ans == [answer[e][s] EXCEPT ![q].award = marks]
    <2>1. /\ answer' = [answer EXCEPT ![e][s] = ans]
          /\ result' = [result EXCEPT ![e][s] = score_paper(paper[e], session[e][s].order, ans)]
          /\ UNCHANGED session
      BY <1>0, <1>9 DEF Awards
    <2> HIDE DEF ans
    <2>2. /\ answer'[e][s] = ans /\ result'[e][s] = score_paper(paper[e], session[e][s].order, ans)
          /\ \A f \in Exams, r \in Students : f # e \/ r # s =>
               answer'[f][r] = answer[f][r] /\ result'[f][r] = result[f][r]
      BY <1>0, <2>1
    <2> QED BY <1>2, <1>3, <2>1, <2>2
  <1> QED BY <1>4, <1>6, <1>7, <1>8, <1>9 DEF CandidateAct

LEMMA SweepScored ==
  ASSUME SafeInv, SerialDb, ScoredDb, NEW at, Sweeps(at)
  PROVE  ScoredDb'
  <1>0. /\ session \in [Exams -> [Students -> SessionRow]] /\ result \in [Exams -> [Students -> ResultRow]]
        /\ \A f \in Exams : Scored(f)
    BY DEF SafeInv, TypeInv, TypeOK, ScoredDb
  <1>1. UNCHANGED <<paper, answer>>
    BY DEF Sweeps
  <1>2. SUFFICES ASSUME NEW e \in Exams, NEW s \in Students
                 PROVE  /\ session'[e][s].order = session[e][s].order
                        /\ session'[e][s].status \in Submitted => result'[e][s] = Score(e, s)
    BY <1>0, <1>1 DEF Scored, ScoredDb, Score
  <1>3. session'[e][s] = IF e \in ExpiredAt(at) THEN Swept(session[e][s], session[e][s], at) ELSE session[e][s]
    BY DEF Sweeps
  <1>4. result'[e][s] = IF e \in ExpiredAt(at) /\ session[e][s].status \in SWEEPABLE_TO_AUTO_SUBMIT
                          THEN Score(e, s) ELSE result[e][s]
    BY DEF Sweeps
  <1>5. session[e][s].status \in Submitted => result[e][s] = Score(e, s)
    BY <1>0 DEF Scored
  <1>6. session[e][s] \in SessionRow
    BY <1>0
  <1>7. session'[e][s].order = session[e][s].order
    BY <1>3, <1>6 DEF Swept, SessionRow
  <1>8. session'[e][s].status \in Submitted =>
          \/ session[e][s].status \in Submitted /\ session[e][s].status \notin SWEEPABLE_TO_AUTO_SUBMIT
          \/ e \in ExpiredAt(at) /\ session[e][s].status \in SWEEPABLE_TO_AUTO_SUBMIT
    BY <1>3, <1>6 DEF Swept, SessionRow, SWEEPABLE_TO_AUTO_SUBMIT, SWEEPABLE_TO_TERMINATED, Submitted
  <1> QED BY <1>4, <1>5, <1>7, <1>8

LEMMA ScoredStep ==
  ASSUME SafeInv, SerialDb, ScoredDb, DrawsAll, "end_exam" \notin Ops, [SerialNext]_<<now, db>>
  PROVE  ScoredDb'
  <1>1. CASE UNCHANGED db
    BY <1>1 DEF db, ScoredDb, Scored, Score
  <1> QED BY <1>1, StaffScored, CandidateScored, SweepScored DEF SerialNext

\* One transaction at a time, with the whole paper drawn and no early close, the
\* result of a submitted paper is the score of its answers and awards as they
\* stand, however the marker goes on marking.
THEOREM ResultsCurrent ==
  OneConnection /\ DrawsAll /\ "end_exam" \notin Ops => (Spec => []ResultCurrent)
  <1> SUFFICES ASSUME OneConnection, DrawsAll, "end_exam" \notin Ops PROVE Spec => []ResultCurrent
    OBVIOUS
  <1>1. Init => ScoredDb
    BY DEF Init, NoSessions, NoSession, ScoredDb, Scored, Submitted
  <1>2. SerialInv /\ ScoredDb /\ [Next]_vars => ScoredDb'
    BY SerialStep, ScoredStep DEF SerialInv
  <1>3. ScoredDb => ResultCurrent
    BY DEF ScoredDb, Scored, Score, ResultCurrent
  <1> QED BY <1>1, <1>2, <1>3, SerialAlways, PTL DEF Spec
==============================================================================

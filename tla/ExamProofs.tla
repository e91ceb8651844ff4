------------------------------ MODULE ExamProofs ------------------------------
(***************************************************************************)
(* Type correctness of ExamLifecycle and what every interleaving of        *)
(* transactions keeps, proved for any number of connections, examinations, *)
(* students and questions.                                                 *)
(*                                                                         *)
(* The properties are not inductive by themselves: a commit decides on the *)
(* rows its transaction loaded, and the table may hold other rows by then. *)
(* What saves them is that some columns only ever go from NULL to a value  *)
(* (Kept), so what was set in a loaded copy is still set in the table.     *)
(***************************************************************************)
EXTENDS ExamSafety, FiniteSetTheorems, TLAPS

-----------------------------------------------------------------------------
(* The empty rows and the idle transaction have their types.                *)

LEMMA NoExamType == NoExam \in ExamRow
  BY ConstantsAssumption DEF NoExam, ExamRow

LEMMA NoSessionType == NoSession \in SessionRow
  BY ConstantsAssumption DEF NoSession, SessionRow

LEMMA NoAnswerType == NoAnswer \in AnswerRow
  BY ConstantsAssumption DEF NoAnswer, AnswerRow

LEMMA NoResultType == NoResult \in ResultRow
  BY DEF NoResult, ResultRow

LEMMA NoArgType == NoArg \in Arg
  BY ConstantsAssumption DEF NoArg, Arg

\* A request's arguments, filled in over the empty ones.
LEMMA FilledArg ==
  ASSUME NEW q \in Questions \cup {"none"}, NEW v \in Values \cup {"empty"}, NEW n \in Nat
  PROVE  /\ [NoArg EXCEPT !.q = q, !.v = v, !.n = n] \in Arg
         /\ [NoArg EXCEPT !.q = q, !.n = n] \in Arg
         /\ [NoArg EXCEPT !.q = q] \in Arg
         /\ [NoArg EXCEPT !.n = n] \in Arg
         /\ [NoArg EXCEPT !.q = q, !.v = v, !.n = n].n = n
         /\ [NoArg EXCEPT !.q = q, !.n = n].n = n
  <1>1. PICK a \in Arg : a = NoArg
    BY NoArgType
  <1>2. /\ [a EXCEPT !.q = q, !.v = v, !.n = n] \in Arg
        /\ [a EXCEPT !.q = q, !.n = n] \in Arg
        /\ [a EXCEPT !.q = q] \in Arg
        /\ [a EXCEPT !.n = n] \in Arg
        /\ [a EXCEPT !.q = q, !.v = v, !.n = n].n = n
        /\ [a EXCEPT !.q = q, !.n = n].n = n
    BY DEF Arg
  <1> QED BY <1>1, <1>2

LEMMA IdleType == Idle \in Txn
  BY NoExamType, NoSessionType, NoAnswerType, NoResultType, NoArgType
     DEF Idle, Txn, NoSessions, NoAnswers, NoResults

\* The rows a SELECT returns are rows of the table.
LEMMA LoadedType ==
  ASSUME NEW Row, NEW table \in [Exams -> [Students -> Row]], NEW none \in Row,
         NEW es, NEW who
  PROVE  Loaded(table, none, es, who) \in [Exams -> [Students -> Row]]
  BY DEF Loaded

\* Grading produces a result row.
LEMMA score_paperType ==
  ASSUME NEW qs \in SUBSET Questions, NEW order \in SUBSET Questions, NEW ans
  PROVE  score_paper(qs, order, ans) \in ResultRow
  BY DEF score_paper, ResultRow

LEMMA GradedRowType ==
  ASSUME NEW cur \in ResultRow, NEW read \in ResultRow, NEW new \in ResultRow
  PROVE  GradedRow(cur, read, new) \in ResultRow
  BY DEF GradedRow, Write, ResultRow

\* What grading reads keeps the transaction's type.
LEMMA GradeInputsType ==
  ASSUME TypeOK, NEW t \in Txn, NEW es, NEW who
  PROVE  GradeInputs(t, es, who) \in Txn
  <1> DEFINE p == [e \in Exams |-> IF e \in es THEN paper[e] ELSE {}]
             a == [e \in Exams |-> [s \in Students |-> [q \in Questions |->
                       IF e \in es /\ s \in who /\ t.ans[e][s][q] = NoAnswer
                         THEN answer[e][s][q] ELSE t.ans[e][s][q]]]]
             h == Loaded(result, NoResult, es, who)
  <1>1. p \in [Exams -> SUBSET Questions]
    BY DEF TypeOK
  <1>2. a \in [Exams -> [Students -> [Questions -> AnswerRow]]]
    BY DEF TypeOK, Txn
  <1>3. h \in [Exams -> [Students -> ResultRow]]
    BY LoadedType, NoResultType DEF TypeOK
  <1>4. GradeInputs(t, es, who) = [t EXCEPT !.paper = p, !.ans = a, !.has = h]
    BY DEF GradeInputs
  <1> HIDE DEF p, a, h
  <1> QED BY <1>1, <1>2, <1>3, <1>4 DEF Txn

-----------------------------------------------------------------------------
(* Type correctness.  A request's number is bounded by what the request is: *)
(* a save's client_seq, a marker's marks.                                   *)

TypedTxn == {t \in Txn : /\ t.op = "save_answer" => t.arg.n \in 0..MaxClientSeq
                         /\ t.op = "award_marks" => t.arg.n \in {0, 1}}

TypeInv == TypeOK /\ txn \in [Conns -> TypedTxn]

LEMMA BeginTyped ==
  ASSUME TypeInv, NEW c \in Conns, NEW t \in TypedTxn, Begin(c, t)
  PROVE  TypeInv'
  BY DEF TypeInv, TypeOK, TypedTxn, Begin, db

LEMMA LoadTyped ==
  ASSUME TypeInv, NEW c \in Conns, NEW t \in TypedTxn, Load(c, t)
  PROVE  TypeInv'
  BY DEF TypeInv, TypeOK, TypedTxn, Load, db

\* A commit leaves its connection idle: only the tables are in question.
LEMMA CommitTyped ==
  ASSUME TypeInv, NEW c \in Conns, NEW op, Committing(c, op),
         (exam \in [Exams -> ExamRow])', (roster \in [Exams -> SUBSET Students])',
         (paper \in [Exams -> SUBSET Questions])',
         (session \in [Exams -> [Students -> SessionRow]])',
         (answer \in [Exams -> [Students -> [Questions -> AnswerRow]]])',
         (result \in [Exams -> [Students -> ResultRow]])'
  PROVE  TypeInv'
  <1>1. Idle \in TypedTxn
    BY IdleType DEF TypedTxn, Idle
  <1> QED BY <1>1 DEF TypeInv, TypeOK, TypedTxn, Committing

LEMMA StaffBeginTyped ==
  ASSUME TypeInv, NEW c \in Conns, NEW e \in Exams, StaffBegin(c, e)
  PROVE  TypeInv'
  <1>1. ASSUME NEW op \in StaffOps, NEW arg \in Arg
        PROVE  StaffTxn(op, e, arg) \in TypedTxn
    <2>1. StaffTxn(op, e, arg) \in Txn
      BY IdleType DEF StaffTxn, Txn, Idle, TypeInv, TypeOK, TxnOps
    <2>2. StaffTxn(op, e, arg).op = op
      BY DEF StaffTxn, Idle
    <2> QED BY <2>1, <2>2 DEF TypedTxn, StaffOps
  <1>2. ASSUME NEW Rs \in AtMostOne(SUBSET Students), NEW Ps \in AtMostOne(SUBSET Questions)
        PROVE  [NoArg EXCEPT !.roster = Rs, !.paper = Ps] \in Arg
    <2>1. Rs \in SUBSET SUBSET Students /\ Ps \in SUBSET SUBSET Questions
      BY DEF AtMostOne
    <2> QED BY <2>1, NoArgType DEF Arg, NoArg
  <1>3. ASSUME NEW key \in Keys PROVE [NoArg EXCEPT !.key = key] \in Arg
    BY NoArgType DEF Arg, NoArg
  <1>4. ASSUME NEW Rs \in AtMostOne(SUBSET Students), NEW Ps \in AtMostOne(SUBSET Questions),
               update_exam_begin(c, e, Rs, Ps)
        PROVE  TypeInv'
    BY <1>1, <1>2, <1>4, BeginTyped DEF update_exam_begin, StaffOps
  <1>5. ASSUME schedule_exam_begin(c, e) PROVE TypeInv'
    BY <1>1, <1>5, NoArgType, BeginTyped DEF schedule_exam_begin, StaffOps
  <1>6. ASSUME NEW key \in Keys, start_exam_begin(c, e, key) PROVE TypeInv'
    BY <1>1, <1>3, <1>6, BeginTyped DEF start_exam_begin, StaffOps
  <1>7. ASSUME end_exam_begin(c, e) PROVE TypeInv'
    BY <1>1, <1>7, NoArgType, BeginTyped DEF end_exam_begin, StaffOps
  <1>8. ASSUME cancel_exam_begin(c, e) PROVE TypeInv'
    BY <1>1, <1>8, NoArgType, BeginTyped DEF cancel_exam_begin, StaffOps
  <1> QED BY <1>4, <1>5, <1>6, <1>7, <1>8 DEF StaffBegin

LEMMA CandidateBeginTyped ==
  ASSUME TypeInv, NEW c \in Conns, NEW e \in Exams, NEW s \in Students, CandidateBegin(c, e, s)
  PROVE  TypeInv'
  <1>1. ASSUME NEW op \in CandidateOps, NEW arg \in Arg,
               op = "save_answer" => arg.n \in 0..MaxClientSeq
        PROVE  CandidateTxn(op, e, s, arg) \in TypedTxn
    <2>1. Loaded(session, NoSession, {e}, {s}) \in [Exams -> [Students -> SessionRow]]
      BY LoadedType, NoSessionType DEF TypeInv, TypeOK
    <2>2. CandidateTxn(op, e, s, arg) \in Txn
      BY <2>1, IdleType DEF CandidateTxn, Txn, Idle, TxnOps
    <2>3. CandidateTxn(op, e, s, arg).op = op /\ CandidateTxn(op, e, s, arg).arg.n = arg.n
      BY DEF CandidateTxn, Idle
    <2>4. op # "award_marks"
      BY DEF CandidateOps
    <2> DEFINE t == CandidateTxn(op, e, s, arg)
    <2> HIDE DEF t
    <2>5. t \in Txn /\ t.op = op /\ t.arg.n = arg.n
      BY <2>2, <2>3 DEF t
    <2>6. t \in TypedTxn
      BY <1>1, <2>4, <2>5 DEF TypedTxn
    <2> QED BY <2>6 DEF t
  <1>2. ASSUME NEW machine \in {0, 1}, check_in_begin(c, e, s, machine) PROVE TypeInv'
    <2>1. [NoArg EXCEPT !.n = machine] \in Arg
      BY FilledArg
    <2> QED BY <1>1, <1>2, <2>1, BeginTyped DEF check_in_begin, CandidateOps
  <1>3. ASSUME NEW q \in Questions, NEW v \in Values, NEW n \in 0..MaxClientSeq,
               save_answer_begin(c, e, s, q, v, n)
        PROVE  TypeInv'
    <2>a. q \in Questions \cup {"none"}
      BY DEF TypeInv, TypeOK
    <2>b. n \in Nat /\ v \in Values \cup {"empty"}
      BY ConstantsAssumption
    <2> DEFINE arg == [NoArg EXCEPT !.q = q, !.v = v, !.n = n]
    <2>c. arg \in Arg
      BY <2>a, <2>b, FilledArg
    <2>1. arg.n = n
      BY DEF NoArg
    <2>2. Begin(c, CandidateTxn("save_answer", e, s, arg))
      BY <1>3 DEF save_answer_begin
    <2> HIDE DEF arg
    <2>3. CandidateTxn("save_answer", e, s, arg) \in TypedTxn
      BY <1>1, <2>c, <2>1 DEF CandidateOps
    <2> QED BY <2>2, <2>3, BeginTyped
  <1>4. ASSUME NEW q \in Questions, toggle_flag_begin(c, e, s, q) PROVE TypeInv'
    <2>1. [NoArg EXCEPT !.q = q] \in Arg
      BY FilledArg DEF TypeInv, TypeOK
    <2> QED BY <1>1, <1>4, <2>1, BeginTyped DEF toggle_flag_begin, CandidateOps
  <1>5. ASSUME submit_begin(c, e, s) PROVE TypeInv'
    BY <1>1, <1>5, NoArgType, BeginTyped DEF submit_begin, CandidateOps
  <1>6. ASSUME NEW q \in TextQs, NEW marks \in {0, 1}, award_marks_begin(c, e, s, q, marks)
        PROVE  TypeInv'
    <2> DEFINE arg == [NoArg EXCEPT !.q = q, !.n = marks]
               ans == [Idle.ans EXCEPT ![e][s][q] = answer[e][s][q]]
               t   == [Idle EXCEPT !.op = "award_marks", !.pc = "begun", !.es = {e}, !.who = {s},
                                   !.arg = arg, !.ans[e][s][q] = answer[e][s][q]]
    <2>0. /\ q \in Questions \cup {"none"}
          /\ "empty" \in Values \cup {"empty"}
          /\ marks \in Nat
      BY ConstantsAssumption
    <2>1. arg \in Arg /\ arg.n = marks
      BY <2>0, FilledArg, Zenon
    <2>2. ans \in [Exams -> [Students -> [Questions -> AnswerRow]]]
      BY IdleType, ConstantsAssumption DEF Txn, TypeInv, TypeOK
    <2>3. t = [Idle EXCEPT !.op = "award_marks", !.pc = "begun", !.es = {e}, !.who = {s},
                           !.arg = arg, !.ans = ans]
      BY DEF Idle
    <2>4. Begin(c, t)
      BY <1>6 DEF award_marks_begin
    <2> HIDE DEF arg, ans, t
    <2>5. t \in Txn /\ t.arg = arg /\ t.op = "award_marks"
      BY <2>1, <2>2, <2>3, IdleType DEF Txn, Idle, TxnOps
    <2>6. t \in TypedTxn
      BY <2>1, <2>5 DEF TypedTxn
    <2> QED BY <2>4, <2>6, BeginTyped
  <1> QED BY <1>2, <1>3, <1>4, <1>5, <1>6 DEF CandidateBegin

LEMMA SweepBeginTyped ==
  ASSUME TypeInv, NEW c \in Conns, sweep_once_begin(c)
  PROVE  TypeInv'
  <1> DEFINE x == [e \in Exams |-> IF e \in Expired THEN exam[e] ELSE NoExam]
             t == [Idle EXCEPT !.op = "sweep_once", !.pc = "begun", !.es = Expired, !.at = now, !.x = x]
  <1>1. x \in [Exams -> ExamRow]
    BY NoExamType DEF TypeInv, TypeOK
  <1>2. Begin(c, t)
    BY DEF sweep_once_begin
  <1>3. Expired \in SUBSET Exams /\ now \in Nat
    BY DEF Expired, TypeInv, TypeOK, Time
  <1> HIDE DEF x
  <1>4. t \in Txn /\ t.op = "sweep_once"
    BY <1>1, <1>3, IdleType DEF Txn, Idle, TxnOps
  <1> QED BY <1>2, <1>4, BeginTyped DEF TypedTxn

\* An enrolment order is a sequence of students.
LEMMA OrdersType ==
  ASSUME NEW S \in SUBSET Students, NEW order \in Orders(S)
  PROVE  order \in Seq(Students)
  <1>1. Cardinality(S) \in Nat
    BY ConstantsAssumption, FS_Subset, FS_CardinalityType
  <1>2. order \in [1..Cardinality(S) -> Students]
    BY DEF Orders
  <1> QED BY <1>1, <1>2

\* Loading more rows leaves a typed transaction typed.
LEMMA RetypedTxn ==
  ASSUME NEW t \in TypedTxn, NEW u \in Txn, u.op = t.op, u.arg = t.arg
  PROVE  u \in TypedTxn
  BY DEF TypedTxn

LEMMA LoadedTxn ==
  ASSUME NEW t \in TypedTxn
  PROVE  /\ \A at \in Nat : [t EXCEPT !.pc = "loaded", !.at = at] \in TypedTxn
         /\ \A ss \in [Exams -> [Students -> SessionRow]] :
              [t EXCEPT !.pc = "loaded", !.ss = ss] \in TypedTxn
         /\ \A at \in Nat, ss \in [Exams -> [Students -> SessionRow]] :
              [t EXCEPT !.pc = "loaded", !.at = at, !.ss = ss] \in TypedTxn
         /\ \A p \in [Exams -> SUBSET Questions] :
              [t EXCEPT !.pc = "loaded", !.paper = p] \in TypedTxn
         /\ \A ans \in [Exams -> [Students -> [Questions -> AnswerRow]]] :
              [t EXCEPT !.pc = "loaded", !.ans = ans] \in TypedTxn
  <1>1. t \in Txn
    BY DEF TypedTxn
  <1>2. ASSUME NEW at \in Nat PROVE [t EXCEPT !.pc = "loaded", !.at = at] \in TypedTxn
    <2>1. [t EXCEPT !.pc = "loaded", !.at = at] \in Txn
      BY <1>1 DEF Txn
    <2> QED BY <1>1, <2>1, RetypedTxn DEF Txn
  <1>3. ASSUME NEW ss \in [Exams -> [Students -> SessionRow]]
        PROVE  [t EXCEPT !.pc = "loaded", !.ss = ss] \in TypedTxn
    <2>1. [t EXCEPT !.pc = "loaded", !.ss = ss] \in Txn
      BY <1>1 DEF Txn
    <2> QED BY <1>1, <2>1, RetypedTxn DEF Txn
  <1>4. ASSUME NEW at \in Nat, NEW ss \in [Exams -> [Students -> SessionRow]]
        PROVE  [t EXCEPT !.pc = "loaded", !.at = at, !.ss = ss] \in TypedTxn
    <2>1. [t EXCEPT !.pc = "loaded", !.at = at, !.ss = ss] \in Txn
      BY <1>1 DEF Txn
    <2> QED BY <1>1, <2>1, RetypedTxn DEF Txn
  <1>5. ASSUME NEW p \in [Exams -> SUBSET Questions]
        PROVE  [t EXCEPT !.pc = "loaded", !.paper = p] \in TypedTxn
    <2>1. [t EXCEPT !.pc = "loaded", !.paper = p] \in Txn
      BY <1>1 DEF Txn
    <2> QED BY <1>1, <2>1, RetypedTxn DEF Txn
  <1>6. ASSUME NEW ans \in [Exams -> [Students -> [Questions -> AnswerRow]]]
        PROVE  [t EXCEPT !.pc = "loaded", !.ans = ans] \in TypedTxn
    <2>1. [t EXCEPT !.pc = "loaded", !.ans = ans] \in Txn
      BY <1>1 DEF Txn
    <2> QED BY <1>1, <2>1, RetypedTxn DEF Txn
  <1> QED BY <1>2, <1>3, <1>4, <1>5, <1>6

LEMMA LoadStepTyped ==
  ASSUME TypeInv, NEW c \in Conns, LoadStep(c)
  PROVE  TypeInv'
  <1> DEFINE t == txn[c]
  <1>1. t \in TypedTxn /\ t \in Txn
    BY DEF TypeInv, TypedTxn
  <1>2. now \in Nat
    BY DEF TypeInv, TypeOK, Time
  <1>3. \A es, who : Loaded(session, NoSession, es, who) \in [Exams -> [Students -> SessionRow]]
    BY LoadedType, NoSessionType DEF TypeInv, TypeOK
  <1>4. \A es, who : GradeInputs(t, es, who) \in TypedTxn
    <2> TAKE es, who
    <2>1. GradeInputs(t, es, who) \in Txn
      BY <1>1, GradeInputsType DEF TypeInv
    <2>2. GradeInputs(t, es, who).op = t.op /\ GradeInputs(t, es, who).arg = t.arg
      BY <1>1 DEF GradeInputs, Txn
    <2> QED BY <1>1, <2>1, <2>2 DEF TypedTxn
  <1>5. LoadSessions(c) => TypeInv'
    <2>1. [t EXCEPT !.pc = "loaded", !.at = now,
                    !.ss = Loaded(session, NoSession, t.es, Students)] \in TypedTxn
      BY <1>1, <1>2, <1>3, LoadedTxn
    <2> QED BY <2>1, LoadTyped DEF LoadSessions
  <1>6. ASSUME schedule_exam_load(c) PROVE TypeInv'
    <2>1. PICK e \in t.es : \E order \in Orders(roster[e]) :
            Load(c, [t EXCEPT !.pc = "loaded", !.arg.enrolled = order,
                              !.ss = Loaded(session, NoSession, {e}, Students)])
      BY <1>6 DEF schedule_exam_load
    <2>2. PICK order \in Orders(roster[e]) :
            Load(c, [t EXCEPT !.pc = "loaded", !.arg.enrolled = order,
                              !.ss = Loaded(session, NoSession, {e}, Students)])
      BY <2>1
    <2>3. order \in Seq(Students)
      BY <1>1, <2>1, OrdersType DEF Txn, TypeInv, TypeOK
    <2> DEFINE arg == [t.arg EXCEPT !.enrolled = order]
               u == [t EXCEPT !.pc = "loaded", !.arg = arg,
                              !.ss = Loaded(session, NoSession, {e}, Students)]
    <2>4. arg \in Arg /\ arg.n = t.arg.n
      BY <1>1, <2>3 DEF Txn, Arg
    <2>5. Load(c, u)
      BY <1>1, <2>2 DEF Txn
    <2> HIDE DEF arg
    <2>6. u \in Txn /\ u.op = t.op /\ u.arg = arg
      BY <1>1, <1>3, <2>4 DEF Txn
    <2> HIDE DEF u
    <2>7. u \in TypedTxn
      BY <1>1, <2>4, <2>6 DEF TypedTxn
    <2> QED BY <2>5, <2>7, LoadTyped
  <1>7. ASSUME check_in_load(c) PROVE TypeInv'
    <2>1. PICK e \in t.es : Load(c, [t EXCEPT !.pc = "loaded", !.paper[e] = paper[e]])
      BY <1>7 DEF check_in_load
    <2> DEFINE p == [t.paper EXCEPT ![e] = paper[e]]
    <2>2. p \in [Exams -> SUBSET Questions]
      BY <1>1, <2>1 DEF Txn, TypeInv, TypeOK
    <2>3. Load(c, [t EXCEPT !.pc = "loaded", !.paper = p])
      BY <1>1, <2>1 DEF Txn
    <2> HIDE DEF p
    <2>4. [t EXCEPT !.pc = "loaded", !.paper = p] \in TypedTxn
      BY <1>1, <1>2, <1>3, <2>2, LoadedTxn
    <2> QED BY <2>3, <2>4, LoadTyped
  <1>8. ASSUME NEW e \in t.es, NEW s \in t.who, LoadAnswer(c, e, s) PROVE TypeInv'
    <2> DEFINE q == t.arg.q
               ans == [t.ans EXCEPT ![e][s][q] = answer[e][s][q]]
    <2>1. e \in Exams /\ s \in Students
      BY <1>1 DEF Txn
    <2>2. ans \in [Exams -> [Students -> [Questions -> AnswerRow]]]
      <3>1. /\ t.ans \in [Exams -> [Students -> [Questions -> AnswerRow]]]
            /\ answer \in [Exams -> [Students -> [Questions -> AnswerRow]]]
        BY <1>1 DEF Txn, TypeInv, TypeOK
      <3> DEFINE row == [t.ans[e][s] EXCEPT ![q] = answer[e][s][q]]
      <3>2. ASSUME NEW f \in [Questions -> AnswerRow], NEW g \in [Questions -> AnswerRow], NEW k
            PROVE  [f EXCEPT ![k] = g[k]] \in [Questions -> AnswerRow]
        OBVIOUS
      <3>3. row \in [Questions -> AnswerRow]
        <4>1. t.ans[e][s] \in [Questions -> AnswerRow] /\ answer[e][s] \in [Questions -> AnswerRow]
          BY <2>1, <3>1
        <4> QED BY <3>2, <4>1, Zenon
      <3>4. ans = [t.ans EXCEPT ![e] = [t.ans[e] EXCEPT ![s] = row]]
        OBVIOUS
      <3> HIDE DEF ans, row
      <3> QED BY <2>1, <3>1, <3>3, <3>4
    <2>3. Load(c, [t EXCEPT !.pc = "loaded", !.ans = ans])
      BY <1>1, <1>8 DEF Txn, LoadAnswer
    <2> HIDE DEF ans
    <2>4. [t EXCEPT !.pc = "loaded", !.ans = ans] \in TypedTxn
      BY <1>1, <1>2, <1>3, <2>2, LoadedTxn
    <2> QED BY <2>3, <2>4, LoadTyped
  <1>9. ASSUME submit_load(c) PROVE TypeInv'
    <2>1. PICK e \in t.es, s \in t.who :
            Load(c, [GradeInputs(t, {e}, {s}) EXCEPT !.pc = "loaded", !.at = now])
      BY <1>9 DEF submit_load
    <2>2. [GradeInputs(t, {e}, {s}) EXCEPT !.pc = "loaded", !.at = now] \in TypedTxn
      BY <1>2, <1>4, LoadedTxn
    <2> QED BY <2>1, <2>2, LoadTyped
  <1>10. ASSUME award_marks_load(c) PROVE TypeInv'
    <2>1. PICK e \in t.es, s \in t.who :
            Load(c, [GradeInputs(t, {e}, {s}) EXCEPT
                       !.pc = "loaded", !.ss = Loaded(session, NoSession, {e}, {s})])
      BY <1>10 DEF award_marks_load
    <2>2. [GradeInputs(t, {e}, {s}) EXCEPT
             !.pc = "loaded", !.ss = Loaded(session, NoSession, {e}, {s})] \in TypedTxn
      BY <1>3, <1>4, LoadedTxn
    <2> QED BY <2>1, <2>2, LoadTyped
  <1>11. ASSUME sweep_once_load(c) PROVE TypeInv'
    <2>1. [GradeInputs(t, t.es, Students) EXCEPT
             !.pc = "loaded", !.ss = Loaded(session, NoSession, t.es, Students)] \in TypedTxn
      BY <1>3, <1>4, LoadedTxn
    <2> QED BY <1>11, <2>1, LoadTyped DEF sweep_once_load
  <1>12. ASSUME update_exam_load(c) PROVE TypeInv'
    <2> DEFINE Old(e) == IF t.arg.roster = {} THEN {} ELSE roster[e]
               OldPaper(e) == IF t.arg.paper = {} THEN {} ELSE paper[e]
    <2>1. PICK e \in t.es : Load(c, [t EXCEPT !.pc = "loaded", !.arg.old_roster = Old(e),
                                             !.arg.old_paper = OldPaper(e)])
      BY <1>12 DEF update_exam_load
    <2>2. Old(e) \in SUBSET Students /\ OldPaper(e) \in SUBSET Questions
      BY <1>1, <2>1 DEF Txn, TypeInv, TypeOK
    <2> HIDE DEF Old, OldPaper
    <2> DEFINE arg == [t.arg EXCEPT !.old_roster = Old(e), !.old_paper = OldPaper(e)]
               u == [t EXCEPT !.pc = "loaded", !.arg = arg]
    <2>3. arg \in Arg /\ arg.n = t.arg.n
      BY <1>1, <2>2 DEF Txn, Arg
    <2>4. Load(c, u)
      BY <1>1, <2>1 DEF Txn, Arg
    <2> HIDE DEF arg
    <2>5. u \in Txn /\ u.op = t.op /\ u.arg = arg
      BY <1>1, <2>3 DEF Txn
    <2> HIDE DEF u
    <2>6. u \in TypedTxn
      BY <1>1, <2>3, <2>5 DEF TypedTxn
    <2> QED BY <2>4, <2>6, LoadTyped
  <1> QED BY <1>5, <1>6, <1>7, <1>8, <1>9, <1>10, <1>11, <1>12
          DEF LoadStep, start_exam_load, end_exam_load, cancel_exam_load,
              save_answer_load, toggle_flag_load

-----------------------------------------------------------------------------
(* Commits write typed rows.                                                *)

\* A workstation the seating hands out is one of the room's, or none.
LEMMA allocate_seatsType ==
  ASSUME NEW enrolled, NEW occupied, NEW already, NEW i,
         i \in DOMAIN allocate_seats(enrolled, 1..Seats, occupied, already)
  PROVE  allocate_seats(enrolled, 1..Seats, occupied, already)[i].computer \in 0..Seats
  <1>1. ASSUME NEW free \in SUBSET (1..Seats), NEW k PROVE NextFree(k, free) \in 0..Seats
    <2> DEFINE kth == {w \in free : Cardinality({v \in free : v <= w}) = k}
    <2>1. CASE kth = {}
      BY <2>1, ConstantsAssumption DEF NextFree
    <2>2. CASE kth # {}
      <3>1. (CHOOSE w \in kth : TRUE) \in kth
        BY <2>2
      <3>2. NextFree(k, free) \in kth
        BY <2>2, <3>1 DEF NextFree
      <3>3. NextFree(k, free) \in free
        BY <3>2, Zenon
      <3>4. NextFree(k, free) \in 1..Seats
        BY <3>3, Zenon
      <3>5. 1..Seats \subseteq 0..Seats
        BY ConstantsAssumption
      <3> QED BY <3>4, <3>5, Zenon
    <2> QED BY <2>1, <2>2
  <1> DEFINE waiting == Waiting(enrolled, already)
  <1>2. allocate_seats(enrolled, 1..Seats, occupied, already)[i].computer
          = NextFree(Turn(i, waiting), (1..Seats) \ occupied)
    BY DEF allocate_seats
  <1> QED BY <1>1, <1>2

\* Inserting the sessions of new seats leaves typed sessions.
LEMMA WithSeatsType ==
  ASSUME NEW rows \in [Students -> SessionRow], NEW enrolled, NEW read
  PROVE  WithSeats(rows, NewSeats(enrolled, read)) \in [Students -> SessionRow]
  <1> DEFINE new == NewSeats(enrolled, read)
             at(s) == {i \in DOMAIN new : new[i].student = s}
             row(s) == [NoSession EXCEPT !.status = "NOT_STARTED",
                                         !.seat = new[CHOOSE i \in at(s) : TRUE].computer]
  <1>1. ASSUME NEW s \in Students, at(s) # {} PROVE row(s) \in SessionRow
    <2>1. (CHOOSE i \in at(s) : TRUE) \in at(s)
      BY <1>1
    <2>2. (CHOOSE i \in at(s) : TRUE) \in DOMAIN new
      BY <2>1
    <2>3. new[CHOOSE i \in at(s) : TRUE].computer \in 0..Seats
      BY <2>2, allocate_seatsType DEF NewSeats
    <2> HIDE DEF new, at
    <2> QED BY <2>3, NoSessionType DEF SessionRow, SessionStatus
  <1>2. WithSeats(rows, new) = [s \in Students |-> IF at(s) = {} THEN rows[s] ELSE row(s)]
    BY DEF WithSeats
  <1> HIDE DEF row, at, new
  <1>3. WithSeats(rows, new) \in [Students -> SessionRow]
    BY <1>1, <1>2
  <1> QED BY <1>3 DEF new

LEMMA ClosedEarlyType ==
  ASSUME NEW cur \in SessionRow, NEW read \in SessionRow, NEW at \in Nat
  PROVE  ClosedEarly(cur, read, at) \in SessionRow
  <1>1. CASE read.status = "ACTIVE"
    <2> DEFINE mode == Write(cur.mode, read.mode, "AUTO")
    <2>1. mode \in {"none", "MANUAL", "AUTO"} /\ cur.rid + 1 \in Nat
      BY DEF Write, SessionRow
    <2>2. ClosedEarly(cur, read, at)
            = [cur EXCEPT !.status = "AUTO_SUBMITTED", !.submitted_at = at, !.mode = mode, !.rid = cur.rid + 1]
      BY <1>1 DEF ClosedEarly, SessionRow
    <2> HIDE DEF mode
    <2> QED BY <2>1, <2>2 DEF SessionRow, SessionStatus
  <1>2. CASE read.status # "ACTIVE"
    BY <1>2 DEF ClosedEarly, SessionRow, SessionStatus
  <1> QED BY <1>1, <1>2

LEMMA SweptType ==
  ASSUME NEW cur \in SessionRow, NEW read \in SessionRow, NEW at \in Nat
  PROVE  Swept(cur, read, at) \in SessionRow
  <1>1. CASE read.status \in SWEEPABLE_TO_AUTO_SUBMIT
    <2> DEFINE mode == Write(cur.mode, read.mode, "AUTO")
               when == IF read.submitted_at = 0 THEN at ELSE cur.submitted_at
               rid  == IF read.rid = 0 THEN cur.rid + 1 ELSE cur.rid
    <2>1. mode \in {"none", "MANUAL", "AUTO"} /\ when \in Nat /\ rid \in Nat
      BY DEF Write, SessionRow
    <2>2. Swept(cur, read, at)
            = [cur EXCEPT !.status = "AUTO_SUBMITTED", !.submitted_at = when, !.mode = mode, !.rid = rid]
      BY <1>1 DEF Swept, SessionRow
    <2> HIDE DEF mode, when, rid
    <2> QED BY <2>1, <2>2 DEF SessionRow, SessionStatus
  <1>2. CASE read.status \notin SWEEPABLE_TO_AUTO_SUBMIT
    BY <1>2 DEF Swept, SessionRow, SessionStatus
  <1> QED BY <1>1, <1>2

LEMMA ReleasedType ==
  ASSUME NEW cur \in SessionRow, NEW read \in SessionRow, NEW at \in Nat
  PROVE  Released(cur, read, at) \in SessionRow
  BY DEF Released, SessionRow, SessionStatus

LEMMA CancelledType ==
  ASSUME NEW cur \in SessionRow, NEW read
  PROVE  Cancelled(cur, read) \in SessionRow
  BY DEF Cancelled, SessionRow, SessionStatus

LEMMA EnteredType ==
  ASSUME NEW cur \in SessionRow, NEW read \in SessionRow, NEW draw \in SUBSET Questions, NEW machine
  PROVE  Entered(cur, read, draw, machine) \in SessionRow
  <1>1. CheckedIn(cur.status, read.status, machine) \in SessionStatus \cup {"NONE"}
    BY DEF CheckedIn, SessionRow, SessionStatus
  <1> QED BY <1>1 DEF Entered, SessionRow

LEMMA HandedInType ==
  ASSUME NEW cur \in SessionRow, NEW read \in SessionRow, NEW at \in Nat
  PROVE  HandedIn(cur, read, at) \in SessionRow
  <1>1. Write(cur.mode, read.mode, "MANUAL") \in {"none", "MANUAL", "AUTO"} /\ cur.rid + 1 \in Nat
    BY DEF Write, SessionRow
  <1> QED BY <1>1 DEF HandedIn, SessionRow, SessionStatus

LEMMA ExamRowsType ==
  ASSUME NEW cur \in ExamRow, NEW read \in ExamRow, NEW at \in Nat, NEW key \in Keys
  PROVE  /\ Scheduled(cur, read) \in ExamRow
         /\ Started(cur, read, at, key) \in ExamRow
         /\ Ended(cur, read, at) \in ExamRow
         /\ [cur EXCEPT !.status = "CANCELLED", !.seq = read.seq + 1] \in ExamRow
         /\ [cur EXCEPT !.status = "COMPLETED", !.seq = read.seq + 1] \in ExamRow
  <1>1. read.seq + 1 \in Nat
    BY DEF ExamRow
  <1>2. Write(cur.status, read.status, "READY") \in ExamStatus \cup {"NONE"}
    BY DEF Write, ExamRow, ExamStatus
  <1>3. Scheduled(cur, read) \in ExamRow
    BY <1>1, <1>2 DEF Scheduled, ExamRow
  <1>4. /\ exam_window(at).starts_at \in Nat /\ exam_window(at).ends_at \in Nat
        /\ Write(cur.key, read.key, key) \in Keys
    BY ConstantsAssumption DEF exam_window, Write, ExamRow
  <1>5. Started(cur, read, at, key) \in ExamRow
    BY <1>1, <1>4 DEF Started, ExamRow, ExamStatus
  <1>6. Write(cur.ends_at, read.ends_at, IF at < read.ends_at THEN at ELSE read.ends_at) \in Nat
    BY DEF Write, ExamRow
  <1>7. Ended(cur, read, at) \in ExamRow
    BY <1>1, <1>6 DEF Ended, ExamRow, ExamStatus
  <1> QED BY <1>1, <1>3, <1>5, <1>7 DEF ExamRow, ExamStatus

\* A committed update leaves the other transactions all they had but rows to
\* delete.
LEMMA OvertakenType ==
  ASSUME NEW u \in TypedTxn, NEW t
  PROVE  /\ Overtaken(u, t) \in TypedTxn
         /\ LET o == Overtaken(u, t)
            IN  /\ o.op = u.op /\ o.pc = u.pc /\ o.es = u.es /\ o.who = u.who /\ o.at = u.at
                /\ o.x = u.x /\ o.ss = u.ss
  <1>1. u \in Txn /\ u.arg \in Arg
    BY DEF TypedTxn, Txn
  <1> DEFINE arg == [u.arg EXCEPT !.old_roster = @ \ t.arg.old_roster,
                                  !.old_paper = @ \ t.arg.old_paper]
             o == [u EXCEPT !.arg = arg]
  <1>2. arg \in Arg /\ arg.n = u.arg.n
    BY <1>1 DEF Arg
  <1>3. Overtaken(u, t) = IF u.es # t.es THEN u ELSE o
    BY <1>1 DEF Overtaken, Txn, Arg
  <1> HIDE DEF arg
  <1>4. o \in Txn /\ o.arg = arg
    BY <1>1, <1>2 DEF Txn
  <1>6. /\ o.op = u.op /\ o.pc = u.pc /\ o.es = u.es /\ o.who = u.who /\ o.at = u.at
        /\ o.x = u.x /\ o.ss = u.ss
    BY <1>1 DEF Txn
  <1> HIDE DEF o
  <1>5. o \in TypedTxn
    BY <1>2, <1>4, <1>6 DEF TypedTxn
  <1> QED BY <1>3, <1>5, <1>6

LEMMA StaffCommitTyped ==
  ASSUME TypeInv, NEW c \in Conns,
         \/ update_exam_commit(c) \/ schedule_exam_commit(c) \/ start_exam_commit(c)
         \/ end_exam_commit(c) \/ cancel_exam_commit(c)
  PROVE  TypeInv'
  <1> DEFINE t == txn[c]
  <1>1. t \in TypedTxn /\ t \in Txn
    BY DEF TypeInv, TypedTxn
  <1>2. /\ t.es \subseteq Exams /\ t.who \subseteq Students /\ t.at \in Nat /\ t.arg \in Arg
        /\ t.x \in [Exams -> ExamRow]
        /\ t.ss \in [Exams -> [Students -> SessionRow]]
    BY <1>1 DEF Txn
  <1>3. ASSUME update_exam_commit(c) PROVE TypeInv'
    <2>1. PICK e \in t.es :
            /\ roster' = [roster EXCEPT ![e] = (@ \ t.arg.old_roster) \cup UNION t.arg.roster]
            /\ paper' = [paper EXCEPT ![e] = (@ \ t.arg.old_paper) \cup UNION t.arg.paper]
      BY <1>3 DEF update_exam_commit
    <2>2. UNION t.arg.roster \in SUBSET Students /\ UNION t.arg.paper \in SUBSET Questions
      BY <1>2 DEF Arg
    <2>3. (roster \in [Exams -> SUBSET Students])' /\ (paper \in [Exams -> SUBSET Questions])'
      BY <2>1, <2>2 DEF TypeInv, TypeOK
    <2>4. /\ txn' = [d \in Conns |-> IF d = c THEN Idle ELSE Overtaken(txn[d], t)]
          /\ UNCHANGED <<now, exam, session, answer, result>>
      BY <1>3 DEF update_exam_commit
    <2>5. Idle \in TypedTxn
      BY IdleType DEF TypedTxn, Idle
    <2>6. \A d \in Conns : Overtaken(txn[d], t) \in TypedTxn
      BY OvertakenType DEF TypeInv
    <2>7. (txn \in [Conns -> TypedTxn])'
      BY <2>4, <2>5, <2>6, Zenon
    <2>8. (txn \in [Conns -> Txn])'
      BY <2>7 DEF TypedTxn
    <2> QED BY <2>3, <2>4, <2>7, <2>8 DEF TypeInv, TypeOK
  <1>4. ASSUME schedule_exam_commit(c) PROVE TypeInv'
    <2> DEFINE new(e) == NewSeats(t.arg.enrolled, t.ss[e])
    <2>1. PICK e \in t.es :
            /\ session' = [session EXCEPT ![e] = WithSeats(@, new(e))]
            /\ exam' = [exam EXCEPT ![e] = Scheduled(@, t.x[e])]
      BY <1>4 DEF schedule_exam_commit
    <2>2. e \in Exams
      BY <1>2
    <2>3. WithSeats(session[e], new(e)) \in [Students -> SessionRow]
      BY <2>2, WithSeatsType DEF TypeInv, TypeOK
    <2> HIDE DEF new
    <2>4. (session \in [Exams -> [Students -> SessionRow]])'
      BY <2>1, <2>2, <2>3 DEF TypeInv, TypeOK
    <2>5. (exam \in [Exams -> ExamRow])'
      BY <1>2, <2>1, <2>2, ExamRowsType DEF TypeInv, TypeOK, Arg
    <2>6. Committing(c, "schedule_exam") /\ UNCHANGED <<roster, paper, answer, result>>
      BY <1>4 DEF schedule_exam_commit
    <2> QED BY <2>4, <2>5, <2>6, CommitTyped DEF TypeInv, TypeOK
  <1>5. ASSUME start_exam_commit(c) PROVE TypeInv'
    <2>1. PICK e \in t.es :
            /\ exam' = [exam EXCEPT ![e] = Started(@, t.x[e], t.at, t.arg.key)]
            /\ session' = [session EXCEPT ![e] =
                 [s \in Students |-> Released(@[s], t.ss[e][s], t.at)]]
      BY <1>5 DEF start_exam_commit
    <2>2. e \in Exams
      BY <1>2
    <2>4. (exam \in [Exams -> ExamRow])'
      BY <1>2, <2>1, <2>2, ExamRowsType DEF TypeInv, TypeOK, Arg
    <2>5. (session \in [Exams -> [Students -> SessionRow]])'
      BY <1>2, <2>1, <2>2, ReleasedType DEF TypeInv, TypeOK
    <2>6. Committing(c, "start_exam") /\ UNCHANGED <<roster, paper, answer, result>>
      BY <1>5 DEF start_exam_commit
    <2> QED BY <2>4, <2>5, <2>6, CommitTyped DEF TypeInv, TypeOK
  <1>6. ASSUME end_exam_commit(c) PROVE TypeInv'
    <2>1. PICK e \in t.es :
            /\ exam' = [exam EXCEPT ![e] = Ended(@, t.x[e], t.at)]
            /\ session' = [session EXCEPT ![e] =
                 [s \in Students |-> ClosedEarly(@[s], t.ss[e][s], t.at)]]
      BY <1>6 DEF end_exam_commit
    <2>2. e \in Exams
      BY <1>2
    <2>3. (exam \in [Exams -> ExamRow])'
      BY <1>2, <2>1, <2>2, ExamRowsType DEF TypeInv, TypeOK, Arg
    <2>4. (session \in [Exams -> [Students -> SessionRow]])'
      BY <1>2, <2>1, <2>2, ClosedEarlyType DEF TypeInv, TypeOK
    <2>5. Committing(c, "end_exam") /\ UNCHANGED <<roster, paper, answer, result>>
      BY <1>6 DEF end_exam_commit
    <2> QED BY <2>3, <2>4, <2>5, CommitTyped DEF TypeInv, TypeOK
  <1>7. ASSUME cancel_exam_commit(c) PROVE TypeInv'
    <2>1. PICK e \in t.es :
            /\ exam' = [exam EXCEPT ![e] = [@ EXCEPT !.status = "CANCELLED", !.seq = t.x[e].seq + 1]]
            /\ session' = [session EXCEPT ![e] = [s \in Students |-> Cancelled(@[s], t.ss[e][s])]]
      BY <1>7 DEF cancel_exam_commit
    <2>2. e \in Exams
      BY <1>2
    <2>3. (exam \in [Exams -> ExamRow])'
      BY <1>2, <2>1, <2>2, ExamRowsType DEF TypeInv, TypeOK, Arg
    <2>4. (session \in [Exams -> [Students -> SessionRow]])'
      BY <1>2, <2>1, <2>2, CancelledType DEF TypeInv, TypeOK
    <2>5. Committing(c, "cancel_exam") /\ UNCHANGED <<roster, paper, answer, result>>
      BY <1>7 DEF cancel_exam_commit
    <2> QED BY <2>3, <2>4, <2>5, CommitTyped DEF TypeInv, TypeOK
  <1> QED BY <1>3, <1>4, <1>5, <1>6, <1>7

LEMMA AnswerRowsType ==
  ASSUME NEW cur \in AnswerRow, NEW read \in AnswerRow
  PROVE  /\ \A v \in Values \cup {"empty"}, n \in 0..MaxClientSeq : Saved(cur, read, v, n) \in AnswerRow
         /\ Flagged(cur, read) \in AnswerRow
         /\ \A marks \in {0, 1} : Awarded(cur, read, marks) \in AnswerRow
  <1>1. ASSUME NEW v \in Values \cup {"empty"}, NEW n \in 0..MaxClientSeq
        PROVE  Saved(cur, read, v, n) \in AnswerRow
    <2>1. /\ Write(cur.value, read.value, v) \in Values \cup {"absent", "empty"}
          /\ Write(cur.seq, read.seq, n) \in -1..MaxClientSeq
      BY ConstantsAssumption DEF Write, AnswerRow
    <2> QED BY <2>1 DEF Saved, AnswerRow
  <1>2. Flagged(cur, read) \in AnswerRow
    <2>1. CASE read.value = "absent"
      <3>1. Flagged(cur, read) = [value |-> "empty", seq |-> 0, flagged |-> TRUE, award |-> -1]
        BY <2>1 DEF Flagged, NoAnswer
      <3>2. 0 \in -1..MaxClientSeq
        BY ConstantsAssumption
      <3> QED BY <3>1, <3>2 DEF AnswerRow
    <2>2. CASE read.value # "absent"
      <3>1. Flagged(cur, read) = [cur EXCEPT !.flagged = ~read.flagged]
        BY <2>2 DEF Flagged
      <3>2. (~read.flagged) \in BOOLEAN
        BY Zenon
      <3> QED BY <3>1, <3>2 DEF AnswerRow
    <2> QED BY <2>1, <2>2
  <1>3. ASSUME NEW marks \in {0, 1} PROVE Awarded(cur, read, marks) \in AnswerRow
    <2>1. Write(cur.award, read.award, marks) \in {-1, 0, 1}
      BY DEF Write, AnswerRow
    <2> QED BY <2>1 DEF Awarded, AnswerRow
  <1> QED BY <1>1, <1>2, <1>3

\* Replacing one answer of one session.
LEMMA AnswerEdit ==
  ASSUME NEW table \in [Exams -> [Students -> [Questions -> AnswerRow]]],
         NEW e \in Exams, NEW s \in Students, NEW q,
         NEW row, q \in Questions => row \in AnswerRow
  PROVE  [table EXCEPT ![e][s][q] = row] \in [Exams -> [Students -> [Questions -> AnswerRow]]]
  <1>1. table[e] \in [Students -> [Questions -> AnswerRow]] /\ table[e][s] \in [Questions -> AnswerRow]
    OBVIOUS
  <1>2. [table[e][s] EXCEPT ![q] = row] \in [Questions -> AnswerRow]
    <2>1. CASE q \in Questions BY <1>1, <2>1
    <2>2. CASE q \notin Questions
      <3>1. [table[e][s] EXCEPT ![q] = row] = table[e][s]
        BY <1>1, <2>2
      <3> QED BY <1>1, <3>1
    <2> QED BY <2>1, <2>2
  <1> DEFINE inner == [table[e][s] EXCEPT ![q] = row]
  <1>3. [table EXCEPT ![e][s][q] = row] = [table EXCEPT ![e] = [table[e] EXCEPT ![s] = inner]]
    OBVIOUS
  <1> HIDE DEF inner
  <1>4. inner \in [Questions -> AnswerRow]
    BY <1>2 DEF inner
  <1> QED BY <1>1, <1>3, <1>4

LEMMA CandidateCommitTyped ==
  ASSUME TypeInv, NEW c \in Conns,
         \/ check_in_commit(c) \/ save_answer_commit(c) \/ toggle_flag_commit(c)
         \/ submit_commit(c) \/ award_marks_commit(c)
  PROVE  TypeInv'
  <1> DEFINE t == txn[c]
  <1>1. t \in TypedTxn /\ t \in Txn
    BY DEF TypeInv, TypedTxn
  <1>2. /\ t.es \subseteq Exams /\ t.who \subseteq Students /\ t.at \in Nat /\ t.arg \in Arg
        /\ t.paper \in [Exams -> SUBSET Questions]
        /\ t.ss \in [Exams -> [Students -> SessionRow]]
        /\ t.ans \in [Exams -> [Students -> [Questions -> AnswerRow]]]
        /\ t.has \in [Exams -> [Students -> ResultRow]]
    BY <1>1 DEF Txn
  <1>3. ASSUME check_in_commit(c) PROVE TypeInv'
    <2>1. PICK e \in t.es, s \in t.who :
            session' = [session EXCEPT ![e][s] =
                          Entered(@, t.ss[e][s], draw_paper(s, t.paper[e]), t.arg.n)]
      BY <1>3 DEF check_in_commit
    <2>2. e \in Exams /\ s \in Students
      BY <1>2
    <2>3. draw_paper(s, t.paper[e]) \in SUBSET Questions
      BY <1>2, <2>2, DrawAssumption
    <2>4. Entered(session[e][s], t.ss[e][s], draw_paper(s, t.paper[e]), t.arg.n) \in SessionRow
      BY <1>2, <2>2, <2>3, EnteredType DEF TypeInv, TypeOK
    <2>5. (session \in [Exams -> [Students -> SessionRow]])'
      BY <2>1, <2>2, <2>4 DEF TypeInv, TypeOK
    <2>6. Committing(c, "check_in") /\ UNCHANGED <<exam, roster, paper, answer, result>>
      BY <1>3 DEF check_in_commit
    <2> QED BY <2>5, <2>6, CommitTyped DEF TypeInv, TypeOK
  <1>4. ASSUME save_answer_commit(c) PROVE TypeInv'
    <2> DEFINE q == t.arg.q
    <2>1. PICK e \in t.es, s \in t.who :
            answer' = [answer EXCEPT ![e][s][q] = Saved(@, t.ans[e][s][q], t.arg.v, t.arg.n)]
      BY <1>4 DEF save_answer_commit
    <2>2. e \in Exams /\ s \in Students /\ answer \in [Exams -> [Students -> [Questions -> AnswerRow]]]
      BY <1>2 DEF TypeInv, TypeOK
    <2>3. Committing(c, "save_answer") /\ UNCHANGED <<exam, roster, paper, session, result>>
      BY <1>4 DEF save_answer_commit
    <2>4. t.arg.n \in 0..MaxClientSeq /\ t.arg.v \in Values \cup {"empty"}
      BY <1>1, <1>2, <2>3 DEF TypedTxn, Committing, Arg
    <2>5. q \in Questions => Saved(answer[e][s][q], t.ans[e][s][q], t.arg.v, t.arg.n) \in AnswerRow
      <3>1. q \in Questions => answer[e][s][q] \in AnswerRow /\ t.ans[e][s][q] \in AnswerRow
        BY <1>2, <2>2
      <3> QED BY <2>4, <3>1, AnswerRowsType, Zenon
    <2>6. (answer \in [Exams -> [Students -> [Questions -> AnswerRow]]])'
      BY <2>1, <2>2, <2>5, AnswerEdit
    <2> QED BY <2>3, <2>6, CommitTyped DEF TypeInv, TypeOK
  <1>5. ASSUME toggle_flag_commit(c) PROVE TypeInv'
    <2> DEFINE q == t.arg.q
    <2>1. PICK e \in t.es, s \in t.who :
            answer' = [answer EXCEPT ![e][s][q] = Flagged(@, t.ans[e][s][q])]
      BY <1>5 DEF toggle_flag_commit
    <2>2. e \in Exams /\ s \in Students /\ answer \in [Exams -> [Students -> [Questions -> AnswerRow]]]
      BY <1>2 DEF TypeInv, TypeOK
    <2>3. Committing(c, "toggle_flag") /\ UNCHANGED <<exam, roster, paper, session, result>>
      BY <1>5 DEF toggle_flag_commit
    <2>4. q \in Questions => Flagged(answer[e][s][q], t.ans[e][s][q]) \in AnswerRow
      BY <1>2, <2>2, AnswerRowsType
    <2>5. (answer \in [Exams -> [Students -> [Questions -> AnswerRow]]])'
      BY <2>1, <2>2, <2>4, AnswerEdit
    <2> QED BY <2>3, <2>5, CommitTyped DEF TypeInv, TypeOK
  <1>6. ASSUME NEW e \in t.es, NEW s \in t.who, NEW ans,
               result' = [result EXCEPT ![e][s] =
                 GradedRow(@, t.has[e][s], score_paper(t.paper[e], t.ss[e][s].order, ans))]
        PROVE  (result \in [Exams -> [Students -> ResultRow]])'
    <2>1. e \in Exams /\ s \in Students
      BY <1>2
    <2>2. t.ss[e][s].order \in SUBSET Questions /\ t.paper[e] \in SUBSET Questions
      BY <1>2, <2>1 DEF SessionRow
    <2>3. score_paper(t.paper[e], t.ss[e][s].order, ans) \in ResultRow
      BY <2>2, score_paperType
    <2>4. GradedRow(result[e][s], t.has[e][s], score_paper(t.paper[e], t.ss[e][s].order, ans)) \in ResultRow
      BY <1>2, <2>1, <2>3, GradedRowType DEF TypeInv, TypeOK
    <2> QED BY <1>6, <2>1, <2>4 DEF TypeInv, TypeOK
  <1>7. ASSUME submit_commit(c) PROVE TypeInv'
    <2>1. PICK e \in t.es, s \in t.who :
            /\ result' = [result EXCEPT ![e][s] =
                 GradedRow(@, t.has[e][s], score_paper(t.paper[e], t.ss[e][s].order, t.ans[e][s]))]
            /\ session' = [session EXCEPT ![e][s] = HandedIn(@, t.ss[e][s], t.at)]
      BY <1>7 DEF submit_commit
    <2>2. e \in Exams /\ s \in Students
      BY <1>2
    <2>3. (session \in [Exams -> [Students -> SessionRow]])'
      BY <1>2, <2>1, <2>2, HandedInType DEF TypeInv, TypeOK
    <2>4. (result \in [Exams -> [Students -> ResultRow]])'
      BY <1>6, <2>1
    <2>5. Committing(c, "submit") /\ UNCHANGED <<exam, roster, paper, answer>>
      BY <1>7 DEF submit_commit
    <2> QED BY <2>3, <2>4, <2>5, CommitTyped DEF TypeInv, TypeOK
  <1>8. ASSUME award_marks_commit(c) PROVE TypeInv'
    <2> DEFINE q == t.arg.q
    <2>1. PICK e \in t.es, s \in t.who :
            /\ answer' = [answer EXCEPT ![e][s][q] = Awarded(@, t.ans[e][s][q], t.arg.n)]
            /\ result' = [result EXCEPT ![e][s] =
                 GradedRow(@, t.has[e][s], score_paper(t.paper[e], t.ss[e][s].order,
                              [t.ans[e][s] EXCEPT ![q].award = t.arg.n]))]
      BY <1>8 DEF award_marks_commit
    <2>2. e \in Exams /\ s \in Students /\ answer \in [Exams -> [Students -> [Questions -> AnswerRow]]]
      BY <1>2 DEF TypeInv, TypeOK
    <2>3. Committing(c, "award_marks") /\ UNCHANGED <<exam, roster, paper, session>>
      BY <1>8 DEF award_marks_commit
    <2>4. t.arg.n \in {0, 1}
      BY <1>1, <2>3 DEF TypedTxn, Committing
    <2>5. q \in Questions => Awarded(answer[e][s][q], t.ans[e][s][q], t.arg.n) \in AnswerRow
      BY <1>2, <2>2, <2>4, AnswerRowsType
    <2>6. (answer \in [Exams -> [Students -> [Questions -> AnswerRow]]])'
      BY <2>1, <2>2, <2>5, AnswerEdit
    <2>7. (result \in [Exams -> [Students -> ResultRow]])'
      BY <1>6, <2>1
    <2> QED BY <2>3, <2>6, <2>7, CommitTyped DEF TypeInv, TypeOK
  <1> QED BY <1>3, <1>4, <1>5, <1>7, <1>8

LEMMA SweepCommitTyped ==
  ASSUME TypeInv, NEW c \in Conns, sweep_once_commit(c)
  PROVE  TypeInv'
  <1> DEFINE t == txn[c]
             Graded(e, s) == e \in t.es /\ t.ss[e][s].status \in SWEEPABLE_TO_AUTO_SUBMIT
             New(e, s)    == score_paper(t.paper[e], t.ss[e][s].order, t.ans[e][s])
  <1>1. t \in Txn
    BY DEF TypeInv, TypedTxn
  <1>2. /\ t.es \subseteq Exams /\ t.at \in Nat
        /\ t.x \in [Exams -> ExamRow]
        /\ t.paper \in [Exams -> SUBSET Questions]
        /\ t.ss \in [Exams -> [Students -> SessionRow]]
        /\ t.has \in [Exams -> [Students -> ResultRow]]
    BY <1>1 DEF Txn
  <1>3. /\ result' = [e \in Exams |-> [s \in Students |->
             IF Graded(e, s) THEN GradedRow(result[e][s], t.has[e][s], New(e, s))
                             ELSE result[e][s]]]
        /\ session' = [e \in Exams |-> [s \in Students |->
             IF e \in t.es THEN Swept(session[e][s], t.ss[e][s], t.at) ELSE session[e][s]]]
        /\ exam' = [e \in Exams |->
             IF e \in t.es THEN [exam[e] EXCEPT !.status = "COMPLETED", !.seq = t.x[e].seq + 1]
                           ELSE exam[e]]
        /\ Committing(c, "sweep_once")
        /\ UNCHANGED <<roster, paper, answer>>
    BY DEF sweep_once_commit
  <1>4. ASSUME NEW e \in Exams, NEW s \in Students PROVE New(e, s) \in ResultRow
    <2>1. t.ss[e][s].order \in SUBSET Questions /\ t.paper[e] \in SUBSET Questions
      BY <1>2 DEF SessionRow
    <2> QED BY <2>1, score_paperType
  <1> HIDE DEF New, Graded
  <1>5. (result \in [Exams -> [Students -> ResultRow]])'
    BY <1>2, <1>3, <1>4, GradedRowType DEF TypeInv, TypeOK
  <1>6. (session \in [Exams -> [Students -> SessionRow]])'
    BY <1>2, <1>3, SweptType DEF TypeInv, TypeOK
  <1>7. (exam \in [Exams -> ExamRow])'
    <2>1. ASSUME NEW e \in Exams
          PROVE  [exam[e] EXCEPT !.status = "COMPLETED", !.seq = t.x[e].seq + 1] \in ExamRow
      BY <1>2, ExamRowsType, ConstantsAssumption DEF TypeInv, TypeOK
    <2> QED BY <1>3, <2>1 DEF TypeInv, TypeOK
  <1> QED BY <1>3, <1>5, <1>6, <1>7, CommitTyped DEF TypeInv, TypeOK

LEMMA TypeStep ==
  ASSUME TypeInv, [Next]_vars
  PROVE  TypeInv'
  <1>1. CASE UNCHANGED vars
    BY <1>1 DEF vars, TypeInv, TypeOK, Txn, TypedTxn
  <1>2. ASSUME Tick PROVE TypeInv'
    <2>1. (now \in Time \ {0})'
      BY <1>2, ConstantsAssumption DEF Tick, TypeInv, TypeOK, Time
    <2> QED BY <1>2, <2>1 DEF Tick, db, TypeInv, TypeOK
  <1>3. ASSUME NEW e \in Exams, NEW R \in SUBSET Students, NEW P \in SUBSET Questions, create_exam(e, R, P)
        PROVE  TypeInv'
    <2>1. exam' = [exam EXCEPT ![e] = [exam[e] EXCEPT !.status = "DRAFT"]]
      BY <1>3 DEF create_exam
    <2>2. [exam[e] EXCEPT !.status = "DRAFT"] \in ExamRow
      <3>1. PICK row \in ExamRow : row = exam[e]
        BY DEF TypeInv, TypeOK
      <3>2. [row EXCEPT !.status = "DRAFT"] \in ExamRow
        BY DEF ExamRow, ExamStatus
      <3> QED BY <3>1, <3>2
    <2>3. (exam \in [Exams -> ExamRow])'
      BY <2>1, <2>2 DEF TypeInv, TypeOK
    <2> QED BY <1>3, <2>3 DEF create_exam, TypeInv, TypeOK
  <1>4. ASSUME NEW e \in Exams, NEW published \in BOOLEAN, publish_results(e, published)
        PROVE  TypeInv'
    <2>1. exam' = [exam EXCEPT ![e] = [exam[e] EXCEPT !.published = published]]
      BY <1>4 DEF publish_results
    <2>2. [exam[e] EXCEPT !.published = published] \in ExamRow
      <3>1. PICK row \in ExamRow : row = exam[e]
        BY DEF TypeInv, TypeOK
      <3>2. [row EXCEPT !.published = published] \in ExamRow
        BY DEF ExamRow
      <3> QED BY <3>1, <3>2
    <2>3. (exam \in [Exams -> ExamRow])'
      BY <2>1, <2>2 DEF TypeInv, TypeOK
    <2> QED BY <1>4, <2>3 DEF publish_results, TypeInv, TypeOK
  <1>5. ASSUME NEW c \in Conns, rollback(c) PROVE TypeInv'
    <2>1. Idle \in TypedTxn
      BY IdleType DEF TypedTxn, Idle
    <2> QED BY <1>5, <2>1 DEF rollback, db, TypeInv, TypeOK, TypedTxn
  <1>6. ASSUME NEW c \in Conns, CommitStep(c) PROVE TypeInv'
    BY <1>6, StaffCommitTyped, CandidateCommitTyped, SweepCommitTyped DEF CommitStep
  <1> QED BY <1>1, <1>2, <1>3, <1>4, <1>5, <1>6, StaffBeginTyped, CandidateBeginTyped,
             SweepBeginTyped, LoadStepTyped DEF Next

LEMMA TypeInit == Init => TypeInv
  <1> SUFFICES ASSUME Init PROVE TypeInv
    OBVIOUS
  <1>1. Idle \in TypedTxn
    BY IdleType DEF TypedTxn, Idle
  <1>2. /\ session \in [Exams -> [Students -> SessionRow]]
        /\ answer \in [Exams -> [Students -> [Questions -> AnswerRow]]]
        /\ result \in [Exams -> [Students -> ResultRow]]
        /\ exam \in [Exams -> ExamRow]
    BY NoExamType, NoSessionType, NoAnswerType, NoResultType
       DEF Init, NoSessions, NoAnswers, NoResults
  <1> QED BY <1>1, <1>2, IdleType, ConstantsAssumption DEF Init, TypeInv, TypeOK, Time

\* Every row of the database, and every copy of a row a transaction holds, keeps
\* its type, whatever transactions are open: the commands, the candidates'
\* requests and the sweep write no value a column does not have.
THEOREM TypeCorrect == Spec => []TypeOK
  <1>1. Spec => []TypeInv
    BY TypeInit, TypeStep, PTL DEF Spec
  <1>2. TypeInv => TypeOK
    BY DEF TypeInv
  <1> QED BY <1>1, <1>2, PTL

-----------------------------------------------------------------------------
(* What the rows keep.                                                      *)


\* What a session row holds whatever its transaction saw.
RowOK(r) == /\ r.status = "NONE" => r = NoSession
            /\ r.status = "ACTIVE" => r.started_at # 0
            /\ r.status \in Submitted => r.submitted_at # 0 /\ r.mode # "none" /\ r.rid # 0

\* What was set in the row old is set in the row new.
Kept(old, new) == /\ old.status # "NONE" => new.status # "NONE"
                  /\ old.started_at # 0 => new.started_at # 0
                  /\ old.submitted_at # 0 => new.submitted_at # 0
                  /\ old.mode # "none" => new.mode # "none"
                  /\ old.rid # 0 => new.rid # 0

\* The window of an examination row.
WindowOK(x) == /\ x.starts_at # 0 => x.starts_at <= x.ends_at
               /\ x.status \in {"LIVE", "ENDING", "COMPLETED"} => x.starts_at # 0

\* What an open transaction t may rely on, in a database whose sessions and
\* examinations are now ses and exs.
TxnOK(t, ses, exs) ==
  /\ \A e \in Exams, s \in Students : RowOK(t.ss[e][s]) /\ Kept(t.ss[e][s], ses[e][s])
  /\ \A e \in Exams : t.x[e].starts_at # 0 => exs[e].starts_at # 0
  /\ t.op \in {"end_exam", "sweep_once"} => \A e \in t.es : t.x[e].starts_at # 0
  /\ t.op = "check_in" => \A e \in t.es, s \in t.who : t.ss[e][s].status # "NONE"
  /\ t.op \in {"save_answer", "toggle_flag", "submit"} =>
       \A e \in t.es, s \in t.who : t.ss[e][s].status = "ACTIVE"
  /\ t.pc = "loaded" /\ t.op \in {"start_exam", "end_exam", "submit"} => t.at # 0
  /\ t.op = "sweep_once" => t.at # 0

SafeDb == /\ \A e \in Exams, s \in Students : RowOK(session[e][s])
          /\ \A e \in Exams : WindowOK(exam[e])
          /\ AnswersOnlyAfterRelease
          /\ ManualSubmissionGraded
          /\ NoSharedWorkstation

SafeInv == TypeInv /\ SafeDb /\ \A c \in Conns : TxnOK(txn[c], session, exam)

\* A step never clears what Kept watches over.
Grows == /\ \A e \in Exams, s \in Students : Kept(session[e][s], session'[e][s])
         /\ \A e \in Exams : exam[e].starts_at # 0 => exam'[e].starts_at # 0

-----------------------------------------------------------------------------
(* Rows.                                                                    *)

\* What a commit other than a candidate's submission makes of a session row.
RowStep(cur, new) == /\ RowOK(new) /\ Kept(cur, new) /\ new.seat = cur.seat
                     /\ new.status = "SUBMITTED" => cur.status = "SUBMITTED"

LEMMA RowSteps ==
  ASSUME NEW cur \in SessionRow, NEW read \in SessionRow, RowOK(cur), RowOK(read), Kept(read, cur),
         NEW at \in Nat, at # 0
  PROVE  /\ RowStep(cur, cur)
         /\ RowStep(cur, Released(cur, read, at))
         /\ RowStep(cur, ClosedEarly(cur, read, at))
         /\ RowStep(cur, Swept(cur, read, at))
  <1> USE DEF RowStep, RowOK, Kept, Submitted
  <1>1. RowStep(cur, cur)
    OBVIOUS
  <1>2. RowStep(cur, Released(cur, read, at))
    BY DEF Released, SessionRow
  <1>3. RowStep(cur, ClosedEarly(cur, read, at))
    BY DEF ClosedEarly, Write, SessionRow
  <1>4. RowStep(cur, Swept(cur, read, at))
    BY DEF Swept, Write, SessionRow, SWEEPABLE_TO_AUTO_SUBMIT, SWEEPABLE_TO_TERMINATED
  <1> QED BY <1>1, <1>2, <1>3, <1>4

LEMMA CancelledStep ==
  ASSUME NEW cur \in SessionRow, NEW read \in SessionRow, RowOK(cur)
  PROVE  RowStep(cur, Cancelled(cur, read))
  BY DEF RowStep, RowOK, Kept, Submitted, Cancelled, SessionRow

LEMMA EnteredStep ==
  ASSUME NEW cur \in SessionRow, NEW read \in SessionRow, RowOK(cur), Kept(read, cur),
         read.status # "NONE", NEW draw, NEW machine
  PROVE  RowStep(cur, Entered(cur, read, draw, machine))
  BY DEF RowStep, RowOK, Kept, Submitted, Entered, CheckedIn, SessionRow

LEMMA HandedInStep ==
  ASSUME NEW cur \in SessionRow, NEW read \in SessionRow, RowOK(cur), Kept(read, cur),
         NEW at \in Nat, at # 0
  PROVE  LET new == HandedIn(cur, read, at)
         IN  RowOK(new) /\ Kept(cur, new) /\ new.seat = cur.seat
  BY DEF RowOK, Kept, Submitted, HandedIn, Write, SessionRow

LEMMA KeptTransitive ==
  ASSUME NEW r1, NEW r2, NEW r3, Kept(r1, r2), Kept(r2, r3)
  PROVE  Kept(r1, r3)
  BY DEF Kept

-----------------------------------------------------------------------------
(* Transactions.                                                            *)

\* The invariant of the database and what a transaction relies on, at a commit.
LEMMA AtCommit ==
  ASSUME SafeInv, NEW c \in Conns
  PROVE  /\ txn[c].es \subseteq Exams /\ txn[c].who \subseteq Students /\ txn[c].at \in Nat
         /\ txn[c].x \in [Exams -> ExamRow]
         /\ txn[c].ss \in [Exams -> [Students -> SessionRow]]
         /\ session \in [Exams -> [Students -> SessionRow]]
         /\ exam \in [Exams -> ExamRow]
         /\ TxnOK(txn[c], session, exam)
         /\ \A e \in Exams, s \in Students :
              /\ session[e][s] \in SessionRow /\ txn[c].ss[e][s] \in SessionRow
              /\ RowOK(session[e][s]) /\ RowOK(txn[c].ss[e][s])
              /\ Kept(txn[c].ss[e][s], session[e][s])
  <1>1. txn[c] \in Txn
    BY DEF SafeInv, TypeInv, TypedTxn
  <1>2. /\ txn[c].es \subseteq Exams /\ txn[c].who \subseteq Students /\ txn[c].at \in Nat
        /\ txn[c].x \in [Exams -> ExamRow]
        /\ txn[c].ss \in [Exams -> [Students -> SessionRow]]
    BY <1>1 DEF Txn
  <1>3. session \in [Exams -> [Students -> SessionRow]] /\ exam \in [Exams -> ExamRow]
    BY DEF SafeInv, TypeInv, TypeOK
  <1>4. TxnOK(txn[c], session, exam) /\ \A e \in Exams, s \in Students : RowOK(session[e][s])
    BY DEF SafeInv, SafeDb
  <1>5. \A e \in Exams, s \in Students :
          RowOK(txn[c].ss[e][s]) /\ Kept(txn[c].ss[e][s], session[e][s])
    BY <1>4 DEF TxnOK
  <1> QED BY <1>2, <1>3, <1>4, <1>5

LEMMA IdleOK ==
  ASSUME NEW ses, NEW exs
  PROVE  TxnOK(Idle, ses, exs)
  BY DEF TxnOK, Idle, NoSessions, NoSession, NoExam, RowOK, Kept, Submitted

\* What a transaction relies on survives the other transactions' commits.
LEMMA TxnOKGrows ==
  ASSUME NEW t, TxnOK(t, session, exam), Grows
  PROVE  TxnOK(t, session', exam')
  BY KeptTransitive DEF TxnOK, Grows

\* A commit ends its own transaction and leaves the others as they are.
LEMMA CommitSafe ==
  ASSUME SafeInv, TypeInv', NEW c \in Conns, NEW op, Committing(c, op), SafeDb', Grows
  PROVE  SafeInv'
  <1>1. ASSUME NEW d \in Conns PROVE TxnOK(txn'[d], session', exam')
    <2>1. CASE d = c
      <3>1. txn'[d] = Idle
        BY <2>1 DEF Committing, SafeInv, TypeInv
      <3> QED BY <3>1, IdleOK
    <2>2. CASE d # c
      <3>1. txn'[d] = txn[d]
        BY <2>2 DEF Committing, SafeInv, TypeInv
      <3>2. TxnOK(txn[d], session, exam)
        BY DEF SafeInv
      <3> QED BY <3>1, <3>2, TxnOKGrows
    <2> QED BY <2>1, <2>2
  <1> QED BY <1>1 DEF SafeInv

\* A step that leaves the database alone has only its own transaction to answer
\* for.
LEMMA QuietSafe ==
  ASSUME SafeInv, TypeInv', UNCHANGED db, NEW c \in Conns, NEW t,
         txn' = [txn EXCEPT ![c] = t], TxnOK(t, session, exam)
  PROVE  SafeInv'
  <1>1. SafeDb'
    BY DEF SafeInv, SafeDb, db, AnswersOnlyAfterRelease, ManualSubmissionGraded, NoSharedWorkstation
  <1>2. ASSUME NEW d \in Conns PROVE TxnOK(txn'[d], session', exam')
    <2>1. session' = session /\ exam' = exam
      BY DEF db
    <2>2. TxnOK(txn'[d], session, exam)
      BY DEF SafeInv, TypeInv
    <2> QED BY <2>1, <2>2
  <1> QED BY <1>1, <1>2 DEF SafeInv

-----------------------------------------------------------------------------
(* Beginning and loading.                                                   *)

\* The copies a SELECT returns are rows of the table or rows that do not exist.
LEMMA LoadedOK ==
  ASSUME SafeInv, NEW es, NEW who, NEW e \in Exams, NEW s \in Students
  PROVE  LET r == Loaded(session, NoSession, es, who)[e][s]
         IN  RowOK(r) /\ Kept(r, session[e][s])
  <1>1. RowOK(session[e][s]) /\ Kept(session[e][s], session[e][s])
    BY DEF SafeInv, SafeDb, Kept
  <1>2. RowOK(NoSession) /\ Kept(NoSession, session[e][s])
    BY DEF NoSession, RowOK, Kept, Submitted
  <1>3. Loaded(session, NoSession, es, who)[e][s] \in {session[e][s], NoSession}
    BY DEF Loaded
  <1> QED BY <1>1, <1>2, <1>3

\* The facts about an empty transaction the others are built from.
LEMMA IdleRows ==
  \A e \in Exams, s \in Students : Idle.ss[e][s] = NoSession /\ Idle.x[e] = NoExam
  BY DEF Idle, NoSessions

LEMMA StaffTxnOK ==
  ASSUME SafeInv, NEW e \in Exams, NEW op \in StaffOps, NEW arg,
         op = "end_exam" => exam[e].status = "LIVE"
  PROVE  TxnOK(StaffTxn(op, e, arg), session, exam)
  <1> DEFINE t == StaffTxn(op, e, arg)
  <1>1. t.op = op /\ t.pc = "begun" /\ t.es = {e} /\ t.ss = Idle.ss /\ t.x = [Idle.x EXCEPT ![e] = exam[e]]
    BY DEF StaffTxn, Idle
  <1>2. Idle.x = [f \in Exams |-> NoExam]
    BY DEF Idle
  <1>3. \A f \in Exams : t.x[f] = IF f = e THEN exam[e] ELSE NoExam
    BY <1>1, <1>2
  <1>4. \A f \in Exams : t.x[f].starts_at # 0 => exam[f].starts_at # 0
    BY <1>3 DEF NoExam
  <1>5. op = "end_exam" => t.x[e].starts_at # 0
    BY <1>3 DEF SafeInv, SafeDb, WindowOK
  <1>6. \A f \in Exams, s \in Students : RowOK(t.ss[f][s]) /\ Kept(t.ss[f][s], session[f][s])
    BY <1>1, IdleRows DEF NoSession, RowOK, Kept, Submitted
  <1> HIDE DEF t
  <1>7. TxnOK(t, session, exam)
    BY <1>1, <1>4, <1>5, <1>6 DEF TxnOK, StaffOps
  <1> QED BY <1>7 DEF t

LEMMA StaffBeginSafe ==
  ASSUME SafeInv, TypeInv', NEW c \in Conns, NEW e \in Exams, StaffBegin(c, e)
  PROVE  SafeInv'
  <1>1. \E op \in StaffOps : \E arg :
          /\ Begin(c, StaffTxn(op, e, arg))
          /\ op = "end_exam" => exam[e].status = "LIVE"
    <2>1. ASSUME can_exam_move(exam[e].status, "ENDING"), exam[e].status # "NONE"
          PROVE  exam[e].status = "LIVE"
      <3>1. exam[e].status \in ExamStatus
        BY <2>1 DEF SafeInv, TypeInv, TypeOK, ExamRow
      <3> QED BY <2>1, <3>1 DEF can_exam_move, EXAM_TRANSITIONS, ExamStatus
    <2>2. ASSUME NEW Rs, NEW Ps, update_exam_begin(c, e, Rs, Ps)
          PROVE  \E arg : Begin(c, StaffTxn("update_exam", e, arg))
      BY <2>2 DEF update_exam_begin
    <2>3. ASSUME schedule_exam_begin(c, e) PROVE Begin(c, StaffTxn("schedule_exam", e, NoArg))
      BY <2>3 DEF schedule_exam_begin
    <2>4. ASSUME NEW key, start_exam_begin(c, e, key)
          PROVE  \E arg : Begin(c, StaffTxn("start_exam", e, arg))
      BY <2>4 DEF start_exam_begin
    <2>5. ASSUME end_exam_begin(c, e)
          PROVE  exam[e].status = "LIVE" /\ Begin(c, StaffTxn("end_exam", e, NoArg))
      BY <2>1, <2>5 DEF end_exam_begin
    <2>6. ASSUME cancel_exam_begin(c, e) PROVE Begin(c, StaffTxn("cancel_exam", e, NoArg))
      BY <2>6 DEF cancel_exam_begin
    <2> QED BY <2>2, <2>3, <2>4, <2>5, <2>6 DEF StaffBegin, StaffOps
  <1>2. PICK op \in StaffOps : \E arg :
          /\ Begin(c, StaffTxn(op, e, arg))
          /\ op = "end_exam" => exam[e].status = "LIVE"
    BY <1>1
  <1>3. PICK arg : /\ Begin(c, StaffTxn(op, e, arg))
                   /\ op = "end_exam" => exam[e].status = "LIVE"
    BY <1>2
  <1>4. TxnOK(StaffTxn(op, e, arg), session, exam)
    BY <1>3, StaffTxnOK
  <1> QED BY <1>3, <1>4, QuietSafe DEF Begin

LEMMA CandidateBeginSafe ==
  ASSUME SafeInv, TypeInv', NEW c \in Conns, NEW e \in Exams, NEW s \in Students, CandidateBegin(c, e, s)
  PROVE  SafeInv'
  <1>1. ASSUME NEW op \in CandidateOps, NEW arg, session[e][s].status # "NONE",
               op # "check_in" => session[e][s].status = "ACTIVE",
               Begin(c, CandidateTxn(op, e, s, arg))
        PROVE  SafeInv'
    <2> DEFINE t == CandidateTxn(op, e, s, arg)
    <2>1. /\ t.op = op /\ t.pc = "begun" /\ t.es = {e} /\ t.who = {s} /\ t.x = Idle.x
          /\ t.ss = Loaded(session, NoSession, {e}, {s})
      BY DEF CandidateTxn, Idle
    <2>2. t.ss[e][s] = session[e][s]
      BY <2>1 DEF Loaded
    <2>3. \A f \in Exams, r \in Students : RowOK(t.ss[f][r]) /\ Kept(t.ss[f][r], session[f][r])
      BY <2>1, LoadedOK
    <2>4. \A f \in Exams : t.x[f].starts_at = 0
      BY <2>1, IdleRows DEF NoExam, Idle
    <2>5. Begin(c, t)
      BY <1>1
    <2> HIDE DEF t
    <2>6. TxnOK(t, session, exam)
      BY <1>1, <2>1, <2>2, <2>3, <2>4 DEF TxnOK, CandidateOps
    <2> QED BY <2>5, <2>6, QuietSafe DEF Begin
  <1>2. ASSUME NEW machine, check_in_begin(c, e, s, machine) PROVE SafeInv'
    BY <1>1, <1>2 DEF check_in_begin, CandidateOps
  <1>3. ASSUME NEW q, NEW v, NEW n, save_answer_begin(c, e, s, q, v, n) PROVE SafeInv'
    BY <1>1, <1>3 DEF save_answer_begin, accepts_candidate_writes, CandidateOps
  <1>4. ASSUME NEW q, toggle_flag_begin(c, e, s, q) PROVE SafeInv'
    BY <1>1, <1>4 DEF toggle_flag_begin, accepts_candidate_writes, CandidateOps
  <1>5. ASSUME submit_begin(c, e, s) PROVE SafeInv'
    BY <1>1, <1>5 DEF submit_begin, accepts_candidate_writes, CandidateOps
  <1>6. ASSUME NEW q, NEW marks, award_marks_begin(c, e, s, q, marks) PROVE SafeInv'
    <2> DEFINE t == [Idle EXCEPT !.op = "award_marks", !.pc = "begun", !.es = {e}, !.who = {s},
                                 !.arg = [NoArg EXCEPT !.q = q, !.n = marks],
                                 !.ans[e][s][q] = answer[e][s][q]]
    <2>1. t.op = "award_marks" /\ t.ss = Idle.ss /\ t.x = Idle.x
      BY DEF Idle
    <2>2. Begin(c, t)
      BY <1>6 DEF award_marks_begin
    <2> HIDE DEF t
    <2>3. TxnOK(Idle, session, exam)
      BY IdleOK
    <2>4. TxnOK(t, session, exam)
      BY <2>1, <2>3 DEF TxnOK
    <2> QED BY <2>2, <2>4, QuietSafe DEF Begin
  <1> QED BY <1>2, <1>3, <1>4, <1>5, <1>6 DEF CandidateBegin

LEMMA SweepBeginSafe ==
  ASSUME SafeInv, TypeInv', NEW c \in Conns, sweep_once_begin(c)
  PROVE  SafeInv'
  <1> DEFINE x == [e \in Exams |-> IF e \in Expired THEN exam[e] ELSE NoExam]
             t == [Idle EXCEPT !.op = "sweep_once", !.pc = "begun", !.es = Expired, !.at = now, !.x = x]
  <1>1. t.op = "sweep_once" /\ t.es = Expired /\ t.at = now /\ t.x = x /\ t.ss = Idle.ss
    BY DEF Idle
  <1>2. now # 0
    BY DEF SafeInv, TypeInv, TypeOK
  <1>3. \A e \in Expired : e \in Exams /\ exam[e].starts_at # 0
    BY DEF Expired, SafeInv, SafeDb, WindowOK
  <1>4. /\ \A e \in Exams : x[e].starts_at # 0 => exam[e].starts_at # 0
        /\ \A e \in Expired : x[e].starts_at # 0
    BY <1>3 DEF NoExam
  <1>5. \A e \in Exams, s \in Students : RowOK(Idle.ss[e][s]) /\ Kept(Idle.ss[e][s], session[e][s])
    BY IdleOK DEF TxnOK
  <1>6. Begin(c, t)
    BY DEF sweep_once_begin
  <1> HIDE DEF x, t
  <1>7. TxnOK(t, session, exam)
    BY <1>1, <1>2, <1>4, <1>5 DEF TxnOK
  <1> QED BY <1>6, <1>7, QuietSafe DEF Begin

\* Loading keeps the request and, of the copies, replaces only whole tables.
LEMMA LoadSafe ==
  ASSUME SafeInv, TypeInv', NEW c \in Conns, NEW t, Load(c, t),
         t.op = txn[c].op, t.es = txn[c].es, t.who = txn[c].who, t.x = txn[c].x,
         \/ t.ss = txn[c].ss
         \/ /\ \E es, who : t.ss = Loaded(session, NoSession, es, who)
            /\ t.op \notin CandidateOps,
         t.op \in {"start_exam", "end_exam", "submit"} => t.at = now,
         t.op = "sweep_once" => t.at = txn[c].at
  PROVE  SafeInv'
  <1>1. now # 0
    BY DEF SafeInv, TypeInv, TypeOK
  <1>2. TxnOK(txn[c], session, exam)
    BY DEF SafeInv
  <1>3. \A e \in Exams, s \in Students : RowOK(t.ss[e][s]) /\ Kept(t.ss[e][s], session[e][s])
    BY <1>2, LoadedOK DEF TxnOK
  <1>4. TxnOK(t, session, exam)
    BY <1>1, <1>2, <1>3 DEF TxnOK, CandidateOps
  <1> QED BY <1>4, QuietSafe DEF Load

LEMMA LoadStepSafe ==
  ASSUME SafeInv, TypeInv', NEW c \in Conns, LoadStep(c)
  PROVE  SafeInv'
  <1> DEFINE t == txn[c]
  <1>1. t \in Txn
    BY DEF SafeInv, TypeInv, TypedTxn
  <1>2. ASSUME t.op \in {"start_exam", "end_exam", "cancel_exam"}, LoadSessions(c) PROVE SafeInv'
    <2> DEFINE u == [t EXCEPT !.pc = "loaded", !.at = now,
                              !.ss = Loaded(session, NoSession, t.es, Students)]
    <2>1. /\ u.op = t.op /\ u.es = t.es /\ u.who = t.who /\ u.x = t.x /\ u.at = now
          /\ u.ss = Loaded(session, NoSession, t.es, Students)
      BY <1>1 DEF Txn
    <2>2. Load(c, u)
      BY <1>2 DEF LoadSessions
    <2> HIDE DEF u
    <2> QED BY <1>2, <2>1, <2>2, LoadSafe DEF CandidateOps
  <1>3. ASSUME schedule_exam_load(c) PROVE SafeInv'
    <2>1. t.op = "schedule_exam"
      BY <1>3 DEF schedule_exam_load
    <2>2. PICK e \in t.es : \E order \in Orders(roster[e]) :
            Load(c, [t EXCEPT !.pc = "loaded", !.arg.enrolled = order,
                              !.ss = Loaded(session, NoSession, {e}, Students)])
      BY <1>3 DEF schedule_exam_load
    <2>3. PICK order : Load(c, [t EXCEPT !.pc = "loaded", !.arg.enrolled = order,
                                         !.ss = Loaded(session, NoSession, {e}, Students)])
      BY <2>2
    <2> DEFINE u == [t EXCEPT !.pc = "loaded", !.arg.enrolled = order,
                              !.ss = Loaded(session, NoSession, {e}, Students)]
    <2>4. /\ u.op = t.op /\ u.es = t.es /\ u.who = t.who /\ u.x = t.x
          /\ u.ss = Loaded(session, NoSession, {e}, Students)
      BY <1>1 DEF Txn
    <2>5. Load(c, u)
      BY <2>3
    <2> HIDE DEF u
    <2> QED BY <2>1, <2>4, <2>5, LoadSafe DEF CandidateOps
  <1>4. ASSUME check_in_load(c) PROVE SafeInv'
    <2>1. PICK e \in t.es : Load(c, [t EXCEPT !.pc = "loaded", !.paper[e] = paper[e]])
      BY <1>4 DEF check_in_load
    <2>2. t.op = "check_in"
      BY <1>4 DEF check_in_load
    <2> DEFINE u == [t EXCEPT !.pc = "loaded", !.paper[e] = paper[e]]
    <2>3. u.op = t.op /\ u.es = t.es /\ u.who = t.who /\ u.x = t.x /\ u.ss = t.ss
      BY <1>1 DEF Txn
    <2>4. Load(c, u)
      BY <2>1
    <2> HIDE DEF u
    <2> QED BY <2>2, <2>3, <2>4, LoadSafe
  <1>5. ASSUME NEW e, NEW s, t.op \in {"save_answer", "toggle_flag"}, LoadAnswer(c, e, s)
        PROVE  SafeInv'
    <2> DEFINE u == [t EXCEPT !.pc = "loaded", !.ans[e][s][t.arg.q] = answer[e][s][t.arg.q]]
    <2>1. u.op = t.op /\ u.es = t.es /\ u.who = t.who /\ u.x = t.x /\ u.ss = t.ss
      BY <1>1 DEF Txn
    <2>2. Load(c, u)
      BY <1>5 DEF LoadAnswer
    <2> HIDE DEF u
    <2> QED BY <1>5, <2>1, <2>2, LoadSafe
  <1>6. ASSUME NEW es, NEW who
        PROVE  LET g == GradeInputs(t, es, who)
               IN  /\ g.op = t.op /\ g.es = t.es /\ g.who = t.who /\ g.x = t.x /\ g.ss = t.ss /\ g.at = t.at
                   /\ g \in Txn
    <2>1. GradeInputs(t, es, who) \in Txn
      BY <1>1, GradeInputsType DEF SafeInv, TypeInv
    <2> QED BY <1>1, <2>1 DEF GradeInputs, Txn
  <1>7. ASSUME submit_load(c) PROVE SafeInv'
    <2>1. PICK e \in t.es, s \in t.who :
            Load(c, [GradeInputs(t, {e}, {s}) EXCEPT !.pc = "loaded", !.at = now])
      BY <1>7 DEF submit_load
    <2>2. t.op = "submit"
      BY <1>7 DEF submit_load
    <2> DEFINE g == GradeInputs(t, {e}, {s})
               u == [g EXCEPT !.pc = "loaded", !.at = now]
    <2>3. g.op = t.op /\ g.es = t.es /\ g.who = t.who /\ g.x = t.x /\ g.ss = t.ss /\ g \in Txn
      BY <1>6
    <2>4. Load(c, u)
      BY <2>1
    <2> HIDE DEF g
    <2>5. u.op = t.op /\ u.es = t.es /\ u.who = t.who /\ u.x = t.x /\ u.ss = t.ss /\ u.at = now
      BY <2>3 DEF Txn
    <2> HIDE DEF u
    <2> QED BY <2>2, <2>4, <2>5, LoadSafe
  <1>8. ASSUME award_marks_load(c) PROVE SafeInv'
    <2>1. PICK e \in t.es, s \in t.who :
            Load(c, [GradeInputs(t, {e}, {s}) EXCEPT
                       !.pc = "loaded", !.ss = Loaded(session, NoSession, {e}, {s})])
      BY <1>8 DEF award_marks_load
    <2>2. t.op = "award_marks"
      BY <1>8 DEF award_marks_load
    <2> DEFINE g == GradeInputs(t, {e}, {s})
               u == [g EXCEPT !.pc = "loaded", !.ss = Loaded(session, NoSession, {e}, {s})]
    <2>3. g.op = t.op /\ g.es = t.es /\ g.who = t.who /\ g.x = t.x /\ g \in Txn
      BY <1>6
    <2>4. Load(c, u)
      BY <2>1
    <2> HIDE DEF g
    <2>5. /\ u.op = t.op /\ u.es = t.es /\ u.who = t.who /\ u.x = t.x
          /\ u.ss = Loaded(session, NoSession, {e}, {s})
      BY <2>3 DEF Txn
    <2> HIDE DEF u
    <2> QED BY <2>2, <2>4, <2>5, LoadSafe DEF CandidateOps
  <1>9. ASSUME sweep_once_load(c) PROVE SafeInv'
    <2> DEFINE g == GradeInputs(t, t.es, Students)
               u == [g EXCEPT !.pc = "loaded", !.ss = Loaded(session, NoSession, t.es, Students)]
    <2>1. t.op = "sweep_once" /\ Load(c, u)
      BY <1>9 DEF sweep_once_load
    <2>2. g.op = t.op /\ g.es = t.es /\ g.who = t.who /\ g.x = t.x /\ g.at = t.at /\ g \in Txn
      BY <1>6
    <2> HIDE DEF g
    <2>3. /\ u.op = t.op /\ u.es = t.es /\ u.who = t.who /\ u.x = t.x /\ u.at = t.at
          /\ u.ss = Loaded(session, NoSession, t.es, Students)
      BY <2>2 DEF Txn
    <2> HIDE DEF u
    <2> QED BY <2>1, <2>3, LoadSafe DEF CandidateOps
  <1>10. ASSUME update_exam_load(c) PROVE SafeInv'
    <2> DEFINE Old(e) == IF t.arg.roster = {} THEN {} ELSE roster[e]
               OldPaper(e) == IF t.arg.paper = {} THEN {} ELSE paper[e]
               u(e) == [t EXCEPT !.pc = "loaded", !.arg.old_roster = Old(e),
                                 !.arg.old_paper = OldPaper(e)]
    <2>1. t.op = "update_exam"
      BY <1>10 DEF update_exam_load
    <2>2. PICK e \in t.es : Load(c, u(e))
      BY <1>10 DEF update_exam_load
    <2> HIDE DEF Old, OldPaper
    <2>3. u(e).op = t.op /\ u(e).es = t.es /\ u(e).who = t.who /\ u(e).x = t.x /\ u(e).ss = t.ss
      BY <1>1 DEF Txn
    <2> HIDE DEF u
    <2> QED BY <2>1, <2>2, <2>3, LoadSafe DEF CandidateOps
  <1> QED BY <1>2, <1>3, <1>4, <1>5, <1>7, <1>8, <1>9, <1>10
          DEF LoadStep, start_exam_load, end_exam_load, cancel_exam_load,
              save_answer_load, toggle_flag_load

-----------------------------------------------------------------------------
(* Committing.                                                              *)

\* A commit that takes every session row by RowStep, leaves answers and results
\* alone and keeps the windows in order.
LEMMA StaffWriteSafe ==
  ASSUME SafeInv, TypeInv', NEW c \in Conns, NEW op, Committing(c, op), NEW e \in Exams,
         session' = [session EXCEPT ![e] = session'[e]],
         \A s \in Students : RowStep(session[e][s], session'[e][s]),
         exam' = [exam EXCEPT ![e] = exam'[e]],
         WindowOK(exam'[e]), exam[e].starts_at # 0 => exam'[e].starts_at # 0,
         UNCHANGED <<answer, result>>
  PROVE  SafeInv'
  <1>1. session \in [Exams -> [Students -> SessionRow]] /\ exam \in [Exams -> ExamRow]
    BY DEF SafeInv, TypeInv, TypeOK
  <1>2. \A f \in Exams : f # e => session'[f] = session[f] /\ exam'[f] = exam[f]
    BY <1>1
  <1>3. \A f \in Exams, s \in Students : RowStep(session[f][s], session'[f][s])
    BY <1>2 DEF RowStep, Kept, SafeInv, SafeDb
  <1>4. Grows
    BY <1>2, <1>3 DEF Grows, RowStep
  <1>5. SafeDb'
    <2>1. (\A f \in Exams, s \in Students : RowOK(session[f][s]))'
      BY <1>3 DEF RowStep
    <2>2. (\A f \in Exams : WindowOK(exam[f]))'
      BY <1>2 DEF SafeInv, SafeDb
    <2>3. AnswersOnlyAfterRelease'
      BY <1>3 DEF AnswersOnlyAfterRelease, SafeInv, SafeDb, RowStep, Kept
    <2>4. ManualSubmissionGraded'
      BY <1>3 DEF ManualSubmissionGraded, SafeInv, SafeDb, RowStep
    <2>5. NoSharedWorkstation'
      BY <1>3 DEF NoSharedWorkstation, SafeInv, SafeDb, RowStep
    <2> QED BY <2>1, <2>2, <2>3, <2>4, <2>5 DEF SafeDb
  <1> QED BY <1>4, <1>5, CommitSafe

LEMMA StaffCommitSafe ==
  ASSUME SafeInv, TypeInv', NEW c \in Conns,
         \/ start_exam_commit(c) \/ end_exam_commit(c) \/ cancel_exam_commit(c)
  PROVE  SafeInv'
  <1> DEFINE t == txn[c]
  <1>0. /\ t.es \subseteq Exams /\ t.at \in Nat
        /\ session \in [Exams -> [Students -> SessionRow]] /\ exam \in [Exams -> ExamRow]
        /\ t.x \in [Exams -> ExamRow]
        /\ TxnOK(t, session, exam)
        /\ \A e \in Exams, s \in Students :
              /\ session[e][s] \in SessionRow /\ t.ss[e][s] \in SessionRow
              /\ RowOK(session[e][s]) /\ RowOK(t.ss[e][s]) /\ Kept(t.ss[e][s], session[e][s])
    BY AtCommit
  <1>1. ASSUME NEW e \in Exams PROVE exam[e] \in ExamRow /\ t.x[e] \in ExamRow /\ WindowOK(exam[e])
    BY <1>0 DEF SafeInv, SafeDb
  <1>2. ASSUME start_exam_commit(c) PROVE SafeInv'
    <2>1. PICK e \in t.es :
            /\ exam' = [exam EXCEPT ![e] = Started(@, t.x[e], t.at, t.arg.key)]
            /\ session' = [session EXCEPT ![e] = [s \in Students |-> Released(@[s], t.ss[e][s], t.at)]]
      BY <1>2 DEF start_exam_commit
    <2>2. Committing(c, "start_exam") /\ UNCHANGED <<answer, result>>
      BY <1>2 DEF start_exam_commit
    <2>3. e \in Exams /\ t.at # 0
      BY <1>0, <2>1, <2>2 DEF TxnOK, Committing
    <2>4. \A s \in Students : RowStep(session[e][s], session'[e][s])
      BY <1>0, <2>1, <2>3, RowSteps
    <2>5. exam'[e] = Started(exam[e], t.x[e], t.at, t.arg.key)
      BY <1>0, <2>1, <2>3
    <2>6. exam'[e].starts_at = t.at /\ exam'[e].ends_at = t.at + Duration
      BY <1>1, <2>3, <2>5 DEF Started, exam_window, ExamRow
    <2>7. WindowOK(exam'[e]) /\ exam'[e].starts_at # 0
      BY <1>0, <2>3, <2>6, ConstantsAssumption DEF WindowOK
    <2>8. session' = [session EXCEPT ![e] = session'[e]] /\ exam' = [exam EXCEPT ![e] = exam'[e]]
      BY <1>0, <2>1, <2>3
    <2> QED BY <2>2, <2>3, <2>4, <2>7, <2>8, StaffWriteSafe
  <1>3. ASSUME end_exam_commit(c) PROVE SafeInv'
    <2>1. PICK e \in t.es :
            /\ exam' = [exam EXCEPT ![e] = Ended(@, t.x[e], t.at)]
            /\ exam'[e].ends_at >= exam'[e].starts_at
            /\ session' = [session EXCEPT ![e] = [s \in Students |-> ClosedEarly(@[s], t.ss[e][s], t.at)]]
      BY <1>3 DEF end_exam_commit
    <2>2. Committing(c, "end_exam") /\ UNCHANGED <<answer, result>>
      BY <1>3 DEF end_exam_commit
    <2>3. e \in Exams /\ t.at # 0 /\ exam[e].starts_at # 0
      BY <1>0, <2>1, <2>2 DEF TxnOK, Committing
    <2>4. \A s \in Students : RowStep(session[e][s], session'[e][s])
      BY <1>0, <2>1, <2>3, RowSteps
    <2>5. exam'[e] = Ended(exam[e], t.x[e], t.at)
      BY <1>0, <2>1, <2>3
    <2>6. exam'[e].starts_at = exam[e].starts_at
      BY <1>1, <2>3, <2>5 DEF Ended, ExamRow
    <2>7. exam'[e] \in ExamRow
      BY <2>3 DEF TypeInv, TypeOK
    <2>8. WindowOK(exam'[e]) /\ exam'[e].starts_at # 0
      BY <2>1, <2>3, <2>6, <2>7 DEF WindowOK, ExamRow
    <2>9. session' = [session EXCEPT ![e] = session'[e]] /\ exam' = [exam EXCEPT ![e] = exam'[e]]
      BY <1>0, <2>1, <2>3
    <2> QED BY <2>2, <2>3, <2>4, <2>8, <2>9, StaffWriteSafe
  <1>4. ASSUME cancel_exam_commit(c) PROVE SafeInv'
    <2>1. PICK e \in t.es :
            /\ exam' = [exam EXCEPT ![e] = [@ EXCEPT !.status = "CANCELLED", !.seq = t.x[e].seq + 1]]
            /\ session' = [session EXCEPT ![e] = [s \in Students |-> Cancelled(@[s], t.ss[e][s])]]
      BY <1>4 DEF cancel_exam_commit
    <2>2. Committing(c, "cancel_exam") /\ UNCHANGED <<answer, result>>
      BY <1>4 DEF cancel_exam_commit
    <2>3. e \in Exams
      BY <1>0
    <2>4. \A s \in Students : RowStep(session[e][s], session'[e][s])
      BY <1>0, <2>1, <2>3, CancelledStep
    <2>5. exam'[e] = [exam[e] EXCEPT !.status = "CANCELLED", !.seq = t.x[e].seq + 1]
      BY <1>0, <2>1, <2>3
    <2>6. WindowOK(exam'[e]) /\ exam'[e].starts_at = exam[e].starts_at
      BY <1>1, <2>3, <2>5 DEF WindowOK, ExamRow
    <2>7. session' = [session EXCEPT ![e] = session'[e]] /\ exam' = [exam EXCEPT ![e] = exam'[e]]
      BY <1>0, <2>1, <2>3
    <2> QED BY <2>2, <2>3, <2>4, <2>6, <2>7, StaffWriteSafe
  <1> QED BY <1>2, <1>3, <1>4

\* Scheduling inserts rows and changes none, and the index refuses two of them
\* at one workstation.
LEMMA ScheduleCommitSafe ==
  ASSUME SafeInv, TypeInv', NEW c \in Conns, schedule_exam_commit(c)
  PROVE  SafeInv'
  <1> DEFINE t == txn[c]
  <1>0. /\ t.es \subseteq Exams
        /\ session \in [Exams -> [Students -> SessionRow]] /\ exam \in [Exams -> ExamRow]
    BY AtCommit
  <1> DEFINE new(e) == NewSeats(t.arg.enrolled, t.ss[e])
             at(e, s) == {i \in DOMAIN new(e) : new(e)[i].student = s}
             row(e, s) == [NoSession EXCEPT !.status = "NOT_STARTED",
                             !.seat = new(e)[CHOOSE i \in at(e, s) : TRUE].computer]
  <1>1. PICK e \in t.es :
          /\ \A i \in DOMAIN new(e) : session[e][new(e)[i].student].status = "NONE"
          /\ session' = [session EXCEPT ![e] = WithSeats(@, new(e))]
          /\ UniqueComputers(session'[e])
          /\ exam' = [exam EXCEPT ![e] = Scheduled(@, t.x[e])]
    BY DEF schedule_exam_commit
  <1>2. Committing(c, "schedule_exam") /\ UNCHANGED <<answer, result>> /\ e \in Exams
    BY <1>0 DEF schedule_exam_commit
  <1>3. \A s \in Students : at(e, s) # {} => session[e][s].status = "NONE"
    BY <1>1
  <1>4. \A s \in Students : LET r == row(e, s)
                            IN  r.status = "NOT_STARTED" /\ RowOK(r)
    BY DEF NoSession, RowOK, Submitted
  <1>a. session'[e] = [s \in Students |-> IF at(e, s) = {} THEN session[e][s] ELSE row(e, s)]
    BY <1>0, <1>1, <1>2 DEF WithSeats
  <1> HIDE DEF row, at, new
  <1>5. \A s \in Students : \/ session'[e][s] = session[e][s]
                            \/ session[e][s].status = "NONE" /\ session'[e][s] = row(e, s)
    BY <1>3, <1>a
  <1>6. \A f \in Exams : f # e => session'[f] = session[f] /\ exam'[f] = exam[f]
    BY <1>0, <1>1
  <1>7. \A s \in Students :
          /\ RowOK(session'[e][s]) /\ Kept(session[e][s], session'[e][s])
          /\ session'[e][s].status = "SUBMITTED" => session[e][s].status = "SUBMITTED"
    <2> TAKE s \in Students
    <2>1. CASE session'[e][s] = session[e][s]
      BY <1>2, <2>1 DEF SafeInv, SafeDb, Kept
    <2>2. CASE session[e][s].status = "NONE" /\ session'[e][s] = row(e, s)
      <3>1. session[e][s] = NoSession
        BY <1>2, <2>2 DEF SafeInv, SafeDb, RowOK
      <3> QED BY <1>4, <2>2, <3>1 DEF NoSession, Kept
    <2> QED BY <1>5, <2>1, <2>2
  <1>8. exam'[e] = Scheduled(exam[e], t.x[e])
    BY <1>0, <1>1, <1>2
  <1>9. WindowOK(exam'[e]) /\ exam'[e].starts_at = exam[e].starts_at
    <2>1. exam[e] \in ExamRow /\ WindowOK(exam[e])
      BY <1>2 DEF SafeInv, SafeDb, TypeInv, TypeOK
    <2>2. exam'[e].status \in {exam[e].status, "READY"}
      BY <1>8, <2>1 DEF Scheduled, Write, ExamRow
    <2>3. exam'[e].starts_at = exam[e].starts_at /\ exam'[e].ends_at = exam[e].ends_at
      BY <1>8, <2>1 DEF Scheduled, ExamRow
    <2> QED BY <2>1, <2>2, <2>3 DEF WindowOK
  <1>10. Grows
    BY <1>6, <1>7, <1>9 DEF Grows, Kept
  <1>11. SafeDb'
    <2>1. (\A f \in Exams, s \in Students : RowOK(session[f][s]))'
      BY <1>6, <1>7 DEF SafeInv, SafeDb
    <2>2. (\A f \in Exams : WindowOK(exam[f]))'
      BY <1>6, <1>9 DEF SafeInv, SafeDb
    <2>3. AnswersOnlyAfterRelease'
      BY <1>2, <1>10 DEF AnswersOnlyAfterRelease, SafeInv, SafeDb, Grows, Kept
    <2>4. ManualSubmissionGraded'
      BY <1>2, <1>6, <1>7 DEF ManualSubmissionGraded, SafeInv, SafeDb
    <2>5. NoSharedWorkstation'
      BY <1>1, <1>6 DEF NoSharedWorkstation, UniqueComputers, SafeInv, SafeDb
    <2> QED BY <2>1, <2>2, <2>3, <2>4, <2>5 DEF SafeDb
  <1> QED BY <1>2, <1>10, <1>11, CommitSafe

\* A commit that writes answers only of sessions that were started, and neither
\* sessions nor examinations.
LEMMA AnswerWriteSafe ==
  ASSUME SafeInv, TypeInv', NEW c \in Conns, NEW op, Committing(c, op),
         NEW e \in Exams, NEW s \in Students,
         \A f \in Exams, r \in Students, q \in Questions :
            \/ answer'[f][r][q].value = answer[f][r][q].value
            \/ f = e /\ r = s /\ session[e][s].started_at # 0,
         \A f \in Exams, r \in Students : result[f][r].graded => result'[f][r].graded,
         UNCHANGED <<exam, session>>
  PROVE  SafeInv'
  <1>1. Grows
    BY DEF Grows, Kept
  <1>2. AnswersOnlyAfterRelease'
    BY DEF AnswersOnlyAfterRelease, SafeInv, SafeDb
  <1>3. ManualSubmissionGraded' /\ NoSharedWorkstation'
    BY DEF ManualSubmissionGraded, NoSharedWorkstation, SafeInv, SafeDb
  <1>4. SafeDb'
    BY <1>2, <1>3 DEF SafeInv, SafeDb
  <1> QED BY <1>1, <1>4, CommitSafe

LEMMA CandidateCommitSafe ==
  ASSUME SafeInv, TypeInv', NEW c \in Conns,
         \/ check_in_commit(c) \/ save_answer_commit(c) \/ toggle_flag_commit(c)
         \/ submit_commit(c) \/ award_marks_commit(c)
  PROVE  SafeInv'
  <1> DEFINE t == txn[c]
  <1>0. /\ t.es \subseteq Exams /\ t.who \subseteq Students /\ t.at \in Nat
        /\ session \in [Exams -> [Students -> SessionRow]] /\ exam \in [Exams -> ExamRow]
        /\ TxnOK(t, session, exam)
        /\ \A e \in Exams, s \in Students :
              /\ session[e][s] \in SessionRow /\ t.ss[e][s] \in SessionRow
              /\ RowOK(session[e][s]) /\ RowOK(t.ss[e][s]) /\ Kept(t.ss[e][s], session[e][s])
    BY AtCommit
  <1>1. /\ answer \in [Exams -> [Students -> [Questions -> AnswerRow]]]
        /\ result \in [Exams -> [Students -> ResultRow]]
    BY DEF SafeInv, TypeInv, TypeOK
  <1>2. ASSUME check_in_commit(c) PROVE SafeInv'
    <2>1. PICK e \in t.es, s \in t.who :
            session' = [session EXCEPT ![e][s] =
                          Entered(@, t.ss[e][s], draw_paper(s, t.paper[e]), t.arg.n)]
      BY <1>2 DEF check_in_commit
    <2>2. Committing(c, "check_in") /\ UNCHANGED <<exam, answer, result>>
      BY <1>2 DEF check_in_commit
    <2>3. e \in Exams /\ s \in Students /\ t.ss[e][s].status # "NONE"
      BY <1>0, <2>1, <2>2 DEF TxnOK, Committing
    <2>4. RowStep(session[e][s], Entered(session[e][s], t.ss[e][s], draw_paper(s, t.paper[e]), t.arg.n))
      BY <1>0, <2>3, EnteredStep
    <2>5. \A r \in Students : RowStep(session[e][r], session[e][r])
      BY <1>0, <2>3 DEF RowStep, Kept
    <2>6. \A r \in Students : RowStep(session[e][r], session'[e][r])
      BY <1>0, <2>1, <2>3, <2>4, <2>5
    <2>7. session' = [session EXCEPT ![e] = session'[e]] /\ exam' = [exam EXCEPT ![e] = exam'[e]]
      BY <1>0, <2>1, <2>2, <2>3
    <2>8. WindowOK(exam'[e])
      BY <2>2, <2>3 DEF SafeInv, SafeDb
    <2> QED BY <2>2, <2>3, <2>6, <2>7, <2>8, StaffWriteSafe
  <1>3. ASSUME NEW e \in t.es, NEW s \in t.who,
               t.op \in {"save_answer", "toggle_flag"},
               \A f \in Exams, r \in Students : (f = e /\ r = s) \/ answer'[f][r] = answer[f][r],
               Committing(c, t.op), UNCHANGED <<exam, session, result>>
        PROVE  SafeInv'
    <2>1. e \in Exams /\ s \in Students /\ t.ss[e][s].status = "ACTIVE"
      BY <1>0, <1>3 DEF TxnOK
    <2>2. session[e][s].started_at # 0
      BY <1>0, <2>1 DEF RowOK, Kept
    <2>3. \A f \in Exams, r \in Students, k \in Questions :
            (f = e /\ r = s) \/ answer'[f][r][k].value = answer[f][r][k].value
      BY <1>1, <1>3, <2>1
    <2> QED BY <1>3, <2>1, <2>2, <2>3, AnswerWriteSafe
  <1>4. ASSUME save_answer_commit(c) PROVE SafeInv'
    <2>1. Committing(c, "save_answer") /\ UNCHANGED <<exam, session, result>>
      BY <1>4 DEF save_answer_commit
    <2> DEFINE q == t.arg.q
    <2>2. PICK e \in t.es, s \in t.who : answer' = [answer EXCEPT ![e][s][q] = Saved(@, t.ans[e][s][q], t.arg.v, t.arg.n)]
      BY <1>4 DEF save_answer_commit
    <2>3. \A f \in Exams, r \in Students : (f = e /\ r = s) \/ answer'[f][r] = answer[f][r]
      BY <1>1, <2>2
    <2>4. t.op = "save_answer"
      BY <2>1 DEF Committing
    <2> QED BY <1>3, <2>1, <2>3, <2>4
  <1>5. ASSUME toggle_flag_commit(c) PROVE SafeInv'
    <2>1. Committing(c, "toggle_flag") /\ UNCHANGED <<exam, session, result>>
      BY <1>5 DEF toggle_flag_commit
    <2> DEFINE q == t.arg.q
    <2>2. PICK e \in t.es, s \in t.who : answer' = [answer EXCEPT ![e][s][q] = Flagged(@, t.ans[e][s][q])]
      BY <1>5 DEF toggle_flag_commit
    <2>3. \A f \in Exams, r \in Students : (f = e /\ r = s) \/ answer'[f][r] = answer[f][r]
      BY <1>1, <2>2
    <2>4. t.op = "toggle_flag"
      BY <2>1 DEF Committing
    <2> QED BY <1>3, <2>1, <2>3, <2>4
  <1>6. ASSUME NEW e \in t.es, NEW s \in t.who, NEW read, NEW new,
               result' = [result EXCEPT ![e][s] = GradedRow(@, read, new)]
        PROVE  /\ result'[e][s].graded
               /\ \A f \in Exams, r \in Students : result[f][r].graded => result'[f][r].graded
    <2>1. e \in Exams /\ s \in Students
      BY <1>0
    <2>2. GradedRow(result[e][s], read, new).graded
      BY DEF GradedRow
    <2>3. result'[e][s] = GradedRow(result[e][s], read, new)
      BY <1>1, <1>6, <2>1
    <2>4. \A f \in Exams, r \in Students : (f = e /\ r = s) \/ result'[f][r] = result[f][r]
      BY <1>1, <1>6, <2>1
    <2> QED BY <2>1, <2>2, <2>3, <2>4
  <1>7. ASSUME award_marks_commit(c) PROVE SafeInv'
    <2> DEFINE q == t.arg.q
    <2>1. PICK e \in t.es, s \in t.who :
            /\ answer' = [answer EXCEPT ![e][s][q] = Awarded(@, t.ans[e][s][q], t.arg.n)]
            /\ \E new : result' = [result EXCEPT ![e][s] = GradedRow(@, t.has[e][s], new)]
      BY <1>7 DEF award_marks_commit
    <2>2. Committing(c, "award_marks") /\ UNCHANGED <<exam, session>>
      BY <1>7 DEF award_marks_commit
    <2>3. e \in Exams /\ s \in Students
      BY <1>0
    <2>4. q \in Questions => Awarded(answer[e][s][q], t.ans[e][s][q], t.arg.n).value = answer[e][s][q].value
      BY <1>1, <2>3 DEF Awarded, AnswerRow
    <2>5. \A f \in Exams, r \in Students, k \in Questions :
            answer'[f][r][k].value = answer[f][r][k].value
      BY <1>1, <2>1, <2>3, <2>4
    <2>6. \A f \in Exams, r \in Students : result[f][r].graded => result'[f][r].graded
      BY <1>6, <2>1
    <2> QED BY <2>2, <2>3, <2>5, <2>6, AnswerWriteSafe
  <1>8. ASSUME submit_commit(c) PROVE SafeInv'
    <2>1. PICK e \in t.es, s \in t.who :
            /\ \E new : result' = [result EXCEPT ![e][s] = GradedRow(@, t.has[e][s], new)]
            /\ session' = [session EXCEPT ![e][s] = HandedIn(@, t.ss[e][s], t.at)]
      BY <1>8 DEF submit_commit
    <2>2. Committing(c, "submit") /\ UNCHANGED <<exam, answer>>
      BY <1>8 DEF submit_commit
    <2>3. e \in Exams /\ s \in Students /\ t.at # 0
      BY <1>0, <2>1, <2>2 DEF TxnOK, Committing
    <2>4. /\ result'[e][s].graded
          /\ \A f \in Exams, r \in Students : result[f][r].graded => result'[f][r].graded
      BY <1>6, <2>1
    <2>5. session'[e][s] = HandedIn(session[e][s], t.ss[e][s], t.at)
      BY <1>0, <2>1, <2>3
    <2>6. /\ RowOK(session'[e][s]) /\ Kept(session[e][s], session'[e][s])
          /\ session'[e][s].seat = session[e][s].seat
      BY <1>0, <2>3, <2>5, HandedInStep
    <2>7. \A f \in Exams, r \in Students : (f = e /\ r = s) \/ session'[f][r] = session[f][r]
      BY <1>0, <2>1, <2>3
    <2>8. \A f \in Exams, r \in Students :
            /\ RowOK(session'[f][r]) /\ Kept(session[f][r], session'[f][r])
            /\ session'[f][r].seat = session[f][r].seat
      BY <1>0, <2>6, <2>7 DEF Kept
    <2>9. Grows
      BY <2>2, <2>8 DEF Grows
    <2>10. AnswersOnlyAfterRelease'
      BY <2>2, <2>8 DEF AnswersOnlyAfterRelease, SafeInv, SafeDb, Kept
    <2>11. ManualSubmissionGraded'
      BY <2>4, <2>7 DEF ManualSubmissionGraded, SafeInv, SafeDb
    <2>12. NoSharedWorkstation'
      BY <2>8 DEF NoSharedWorkstation, SafeInv, SafeDb
    <2>13. SafeDb'
      BY <2>2, <2>8, <2>10, <2>11, <2>12 DEF SafeInv, SafeDb
    <2> QED BY <2>2, <2>9, <2>13, CommitSafe
  <1> QED BY <1>2, <1>4, <1>5, <1>7, <1>8

LEMMA SweepCommitSafe ==
  ASSUME SafeInv, TypeInv', NEW c \in Conns, sweep_once_commit(c)
  PROVE  SafeInv'
  <1> DEFINE t == txn[c]
             Graded(e, s) == e \in t.es /\ t.ss[e][s].status \in SWEEPABLE_TO_AUTO_SUBMIT
             New(e, s)    == score_paper(t.paper[e], t.ss[e][s].order, t.ans[e][s])
  <1>0. /\ t.es \subseteq Exams /\ t.at \in Nat
        /\ TxnOK(t, session, exam)
        /\ \A e \in Exams, s \in Students :
              /\ session[e][s] \in SessionRow /\ t.ss[e][s] \in SessionRow
              /\ RowOK(session[e][s]) /\ RowOK(t.ss[e][s]) /\ Kept(t.ss[e][s], session[e][s])
    BY AtCommit
  <1>1. /\ result' = [e \in Exams |-> [s \in Students |->
             IF Graded(e, s) THEN GradedRow(result[e][s], t.has[e][s], New(e, s))
                             ELSE result[e][s]]]
        /\ session' = [e \in Exams |-> [s \in Students |->
             IF e \in t.es THEN Swept(session[e][s], t.ss[e][s], t.at) ELSE session[e][s]]]
        /\ exam' = [e \in Exams |->
             IF e \in t.es THEN [exam[e] EXCEPT !.status = "COMPLETED", !.seq = t.x[e].seq + 1]
                           ELSE exam[e]]
        /\ Committing(c, "sweep_once")
        /\ UNCHANGED answer
    BY DEF sweep_once_commit
  <1> HIDE DEF Graded, New
  <1>2. t.at # 0 /\ \A e \in t.es : exam[e].starts_at # 0
    BY <1>0, <1>1 DEF TxnOK, Committing
  <1>3. \A e \in Exams, s \in Students : RowStep(session[e][s], session'[e][s])
    <2> TAKE e \in Exams, s \in Students
    <2>1. /\ RowStep(session[e][s], session[e][s])
          /\ RowStep(session[e][s], Swept(session[e][s], t.ss[e][s], t.at))
      BY <1>0, <1>2, RowSteps
    <2>2. session'[e][s] \in {session[e][s], Swept(session[e][s], t.ss[e][s], t.at)}
      BY <1>1
    <2> QED BY <2>1, <2>2
  <1>4. \A e \in Exams : WindowOK(exam'[e]) /\ exam'[e].starts_at = exam[e].starts_at
    <2> TAKE e \in Exams
    <2>1. exam[e] \in ExamRow /\ WindowOK(exam[e])
      BY DEF SafeInv, SafeDb, TypeInv, TypeOK
    <2>2. CASE e \in t.es
      <3>1. exam'[e] = [exam[e] EXCEPT !.status = "COMPLETED", !.seq = t.x[e].seq + 1]
        BY <1>1, <2>2
      <3>2. exam'[e].starts_at = exam[e].starts_at /\ exam'[e].ends_at = exam[e].ends_at
        BY <2>1, <3>1 DEF ExamRow
      <3> QED BY <1>2, <2>1, <2>2, <3>2 DEF WindowOK
    <2>3. CASE e \notin t.es
      BY <1>1, <2>1, <2>3
    <2> QED BY <2>2, <2>3
  <1>5. \A e \in Exams, s \in Students : result[e][s].graded => result'[e][s].graded
    <2> TAKE e \in Exams, s \in Students
    <2>1. GradedRow(result[e][s], t.has[e][s], New(e, s)).graded
      BY DEF GradedRow
    <2>2. result'[e][s] \in {result[e][s], GradedRow(result[e][s], t.has[e][s], New(e, s))}
      BY <1>1
    <2> QED BY <2>1, <2>2
  <1>6. Grows
    BY <1>3, <1>4 DEF Grows, RowStep
  <1>7. SafeDb'
    <2>1. (\A e \in Exams, s \in Students : RowOK(session[e][s]))' /\ (\A e \in Exams : WindowOK(exam[e]))'
      BY <1>3, <1>4 DEF RowStep
    <2>2. AnswersOnlyAfterRelease'
      BY <1>1, <1>3 DEF AnswersOnlyAfterRelease, SafeInv, SafeDb, RowStep, Kept
    <2>3. ManualSubmissionGraded'
      BY <1>3, <1>5 DEF ManualSubmissionGraded, SafeInv, SafeDb, RowStep
    <2>4. NoSharedWorkstation'
      BY <1>3 DEF NoSharedWorkstation, SafeInv, SafeDb, RowStep
    <2> QED BY <2>1, <2>2, <2>3, <2>4 DEF SafeDb
  <1> QED BY <1>1, <1>6, <1>7, CommitSafe

-----------------------------------------------------------------------------
(* The theorems.                                                            *)

LEMMA SafeStep ==
  ASSUME SafeInv, [Next]_vars
  PROVE  SafeInv'
  <1>0. TypeInv'
    BY TypeStep DEF SafeInv
  <1>1. CASE UNCHANGED vars
    <2>1. SafeDb'
      BY <1>1 DEF vars, SafeInv, SafeDb, AnswersOnlyAfterRelease, ManualSubmissionGraded,
                  NoSharedWorkstation
    <2>2. (\A c \in Conns : TxnOK(txn[c], session, exam))'
      BY <1>1 DEF vars, SafeInv
    <2> QED BY <1>0, <2>1, <2>2 DEF SafeInv
  <1>2. ASSUME Tick PROVE SafeInv'
    <2>1. UNCHANGED <<db, txn>>
      BY <1>2 DEF Tick
    <2>2. SafeDb'
      BY <2>1 DEF db, SafeInv, SafeDb, AnswersOnlyAfterRelease, ManualSubmissionGraded,
                  NoSharedWorkstation
    <2>3. (\A c \in Conns : TxnOK(txn[c], session, exam))'
      BY <2>1 DEF db, SafeInv
    <2> QED BY <1>0, <2>2, <2>3 DEF SafeInv
  <1>3. ASSUME NEW e \in Exams, NEW row, exam' = [exam EXCEPT ![e] = row],
               row.starts_at = exam[e].starts_at, row.ends_at = exam[e].ends_at,
               row.status \in {exam[e].status, "DRAFT"},
               UNCHANGED <<session, answer, result, txn>>
        PROVE  SafeInv'
    <2>1. exam \in [Exams -> ExamRow]
      BY DEF SafeInv, TypeInv, TypeOK
    <2>2. \A f \in Exams : /\ exam'[f].starts_at = exam[f].starts_at
                           /\ exam'[f].ends_at = exam[f].ends_at
                           /\ exam'[f].status \in {exam[f].status, "DRAFT"}
      BY <1>3, <2>1
    <2>3. (\A f \in Exams : WindowOK(exam[f]))'
      BY <2>2 DEF SafeInv, SafeDb, WindowOK
    <2>4. SafeDb'
      BY <1>3, <2>3 DEF SafeInv, SafeDb, AnswersOnlyAfterRelease, ManualSubmissionGraded,
                        NoSharedWorkstation
    <2>5. Grows
      BY <1>3, <2>2 DEF Grows, Kept
    <2>6. ASSUME NEW c \in Conns PROVE TxnOK(txn'[c], session', exam')
      <3>1. TxnOK(txn[c], session', exam')
        BY <2>5, TxnOKGrows DEF SafeInv
      <3> QED BY <1>3, <3>1
    <2> QED BY <1>0, <2>4, <2>6 DEF SafeInv
  <1>4. ASSUME NEW e \in Exams, NEW R, NEW P, create_exam(e, R, P) PROVE SafeInv'
    <2> DEFINE row == [exam[e] EXCEPT !.status = "DRAFT"]
    <2>1. exam' = [exam EXCEPT ![e] = row] /\ UNCHANGED <<session, answer, result, txn>>
      BY <1>4 DEF create_exam
    <2>2. row.starts_at = exam[e].starts_at /\ row.ends_at = exam[e].ends_at /\ row.status = "DRAFT"
      BY DEF SafeInv, TypeInv, TypeOK, ExamRow
    <2> HIDE DEF row
    <2> QED BY <1>3, <2>1, <2>2
  <1>5. ASSUME NEW e \in Exams, NEW published, publish_results(e, published) PROVE SafeInv'
    <2> DEFINE row == [exam[e] EXCEPT !.published = published]
    <2>1. exam' = [exam EXCEPT ![e] = row] /\ UNCHANGED <<session, answer, result, txn>>
      BY <1>5 DEF publish_results
    <2>2. /\ row.starts_at = exam[e].starts_at /\ row.ends_at = exam[e].ends_at
          /\ row.status = exam[e].status
      BY DEF SafeInv, TypeInv, TypeOK, ExamRow
    <2> HIDE DEF row
    <2> QED BY <1>3, <2>1, <2>2
  <1>6. ASSUME NEW c \in Conns, rollback(c) PROVE SafeInv'
    BY <1>0, <1>6, IdleOK, QuietSafe DEF rollback
  <1>7. ASSUME NEW c \in Conns, update_exam_commit(c) PROVE SafeInv'
    <2>1. /\ txn' = [d \in Conns |-> IF d = c THEN Idle ELSE Overtaken(txn[d], txn[c])]
          /\ UNCHANGED <<exam, session, answer, result>>
      BY <1>7 DEF update_exam_commit
    <2>2. ASSUME NEW d \in Conns PROVE TxnOK(txn'[d], session', exam')
      <3>1. txn[d] \in TypedTxn /\ TxnOK(txn[d], session, exam)
        BY DEF SafeInv, TypeInv
      <3>2. TxnOK(Overtaken(txn[d], txn[c]), session, exam)
        <4> DEFINE o == Overtaken(txn[d], txn[c])
        <4>1. /\ o.op = txn[d].op /\ o.pc = txn[d].pc /\ o.es = txn[d].es /\ o.who = txn[d].who
              /\ o.at = txn[d].at /\ o.x = txn[d].x /\ o.ss = txn[d].ss
          BY <3>1, OvertakenType
        <4> HIDE DEF o
        <4>2. TxnOK(o, session, exam)
          BY <3>1, <4>1 DEF TxnOK
        <4> QED BY <4>2 DEF o
      <3>3. TxnOK(txn'[d], session, exam)
        BY <2>1, <3>2, IdleOK
      <3> QED BY <2>1, <3>3
    <2>3. SafeDb'
      BY <2>1 DEF SafeInv, SafeDb, AnswersOnlyAfterRelease, ManualSubmissionGraded,
                  NoSharedWorkstation
    <2> QED BY <1>0, <2>2, <2>3 DEF SafeInv
  <1>8. ASSUME NEW c \in Conns, CommitStep(c) PROVE SafeInv'
    BY <1>0, <1>7, <1>8, ScheduleCommitSafe, StaffCommitSafe, CandidateCommitSafe, SweepCommitSafe
       DEF CommitStep
  <1> QED BY <1>0, <1>1, <1>2, <1>4, <1>5, <1>6, <1>8, StaffBeginSafe, CandidateBeginSafe,
             SweepBeginSafe, LoadStepSafe DEF Next

LEMMA SafeInit == Init => SafeInv
  <1> SUFFICES ASSUME Init PROVE SafeInv
    OBVIOUS
  <1>1. /\ \A e \in Exams : exam[e] = NoExam
        /\ \A e \in Exams, s \in Students : session[e][s] = NoSession /\ result[e][s] = NoResult
        /\ \A e \in Exams, s \in Students, q \in Questions : answer[e][s][q] = NoAnswer
    BY DEF Init, NoSessions, NoAnswers, NoResults
  <1>2. SafeDb
    BY <1>1 DEF SafeDb, RowOK, WindowOK, AnswersOnlyAfterRelease, ManualSubmissionGraded,
                NoSharedWorkstation, NoExam, NoSession, NoAnswer, NoResult, Submitted
  <1>3. \A c \in Conns : TxnOK(txn[c], session, exam)
    BY IdleOK DEF Init
  <1> QED BY <1>2, <1>3, TypeInit DEF SafeInv

LEMMA SafeAlways == Spec => []SafeInv
  BY SafeInit, SafeStep, PTL DEF Spec

\* However submissions, early closes, sweeps, check-ins and cancellations of one
\* session overlap, a session that reads as submitted carries its whole receipt.
THEOREM ReceiptsComplete == Spec => []ReceiptComplete
  <1>1. SafeInv => ReceiptComplete
    BY DEF SafeInv, SafeDb, RowOK, ReceiptComplete
  <1> QED BY <1>1, SafeAlways, PTL

\* However starts, early closes and sweeps overlap, an examination that is or was
\* live has a window, and it moves forward.
THEOREM WindowsCoherent == Spec => []WindowCoherent
  <1>1. SafeInv => WindowCoherent
    BY DEF SafeInv, SafeDb, WindowOK, WindowCoherent, TypeInv, TypeOK, ExamRow
  <1> QED BY <1>1, SafeAlways, PTL

\* However scheduling requests overlap, two candidates of an examination are not
\* put at one workstation.
THEOREM WorkstationsExclusive == Spec => []NoSharedWorkstation
  <1>1. SafeInv => NoSharedWorkstation
    BY DEF SafeInv, SafeDb
  <1> QED BY <1>1, SafeAlways, PTL

\* A paper the candidate handed in has a result, whatever else is writing.
THEOREM SubmissionsGraded == Spec => []ManualSubmissionGraded
  <1>1. SafeInv => ManualSubmissionGraded
    BY DEF SafeInv, SafeDb
  <1> QED BY <1>1, SafeAlways, PTL

\* No answer is stored for a candidate the start has not released.
THEOREM AnswersAfterRelease == Spec => []AnswersOnlyAfterRelease
  <1>1. SafeInv => AnswersOnlyAfterRelease
    BY DEF SafeInv, SafeDb
  <1> QED BY <1>1, SafeAlways, PTL

-----------------------------------------------------------------------------
(* Without an early close, every submitted paper has its result: end_exam   *)
(* is the only command that submits a paper and does not grade it.          *)

GradedDb == \A e \in Exams, s \in Students : session[e][s].status \in Submitted => result[e][s].graded

\* Only operations that requests are made for are open.
RequestedOnly == \A c \in Conns : txn[c].op \in Ops \cup {"idle"}

\* A row that is not submitted by this step, and a result that stays.
LEMMA StillGraded ==
  ASSUME GradedDb,
         \A e \in Exams, s \in Students : result[e][s].graded => result'[e][s].graded,
         \A e \in Exams, s \in Students :
            session'[e][s].status \in Submitted => session[e][s].status \in Submitted \/ result'[e][s].graded
  PROVE  GradedDb'
  BY DEF GradedDb

\* A load does not change what the request is.
LEMMA LoadKeepsOp ==
  ASSUME SafeInv, NEW c \in Conns, LoadStep(c)
  PROVE  \E t : txn' = [txn EXCEPT ![c] = t] /\ t.op = txn[c].op
  <1> DEFINE t == txn[c]
  <1>1. t \in Txn
    BY DEF SafeInv, TypeInv, TypedTxn
  <1>2. \A es, who : GradeInputs(t, es, who).op = t.op
    BY <1>1 DEF GradeInputs, Txn
  <1>3. ASSUME NEW u, Load(c, u), u.op = t.op PROVE \E v : txn' = [txn EXCEPT ![c] = v] /\ v.op = t.op
    BY <1>3 DEF Load
  <1>4. ASSUME NEW at, NEW ss, Load(c, [t EXCEPT !.pc = "loaded", !.at = at, !.ss = ss])
        PROVE  \E v : txn' = [txn EXCEPT ![c] = v] /\ v.op = t.op
    <2>1. [t EXCEPT !.pc = "loaded", !.at = at, !.ss = ss].op = t.op
      BY <1>1 DEF Txn
    <2> QED BY <1>3, <1>4, <2>1
  <1>5. CASE start_exam_load(c) \/ end_exam_load(c) \/ cancel_exam_load(c)
    BY <1>4, <1>5 DEF start_exam_load, end_exam_load, cancel_exam_load, LoadSessions
  <1>6. CASE update_exam_load(c)
    <2>1. \A r, p : [t EXCEPT !.pc = "loaded", !.arg.old_roster = r, !.arg.old_paper = p].op = t.op
      BY <1>1 DEF Txn
    <2> QED BY <1>3, <1>6, <2>1 DEF update_exam_load
  <1>7. CASE schedule_exam_load(c)
    <2>1. \A order, ss : [t EXCEPT !.pc = "loaded", !.arg.enrolled = order, !.ss = ss].op = t.op
      BY <1>1 DEF Txn
    <2> QED BY <1>3, <1>7, <2>1 DEF schedule_exam_load
  <1>8. CASE check_in_load(c)
    <2>1. \A e, p : [t EXCEPT !.pc = "loaded", !.paper[e] = p].op = t.op
      BY <1>1 DEF Txn
    <2> QED BY <1>3, <1>8, <2>1 DEF check_in_load
  <1>9. CASE save_answer_load(c) \/ toggle_flag_load(c)
    <2>1. PICK e \in t.es, s \in t.who : LoadAnswer(c, e, s)
      BY <1>9 DEF save_answer_load, toggle_flag_load
    <2> DEFINE u == [t EXCEPT !.pc = "loaded", !.ans[e][s][t.arg.q] = answer[e][s][t.arg.q]]
    <2>2. Load(c, u)
      BY <2>1 DEF LoadAnswer
    <2>3. u.op = t.op
      BY <1>1 DEF Txn
    <2> HIDE DEF u
    <2> QED BY <1>3, <2>2, <2>3
  <1>10. CASE submit_load(c)
    <2>1. PICK e \in t.es, s \in t.who : Load(c, [GradeInputs(t, {e}, {s}) EXCEPT !.pc = "loaded", !.at = now])
      BY <1>10 DEF submit_load
    <2>2. [GradeInputs(t, {e}, {s}) EXCEPT !.pc = "loaded", !.at = now].op = t.op
      BY <1>1 DEF GradeInputs, Txn
    <2> QED BY <1>3, <2>1, <2>2
  <1>11. ASSUME NEW es, NEW who, NEW ss, Load(c, [GradeInputs(t, es, who) EXCEPT !.pc = "loaded", !.ss = ss])
         PROVE  \E v : txn' = [txn EXCEPT ![c] = v] /\ v.op = t.op
    <2>1. [GradeInputs(t, es, who) EXCEPT !.pc = "loaded", !.ss = ss].op = t.op
      BY <1>1 DEF GradeInputs, Txn
    <2> QED BY <1>3, <1>11, <2>1
  <1>12. CASE award_marks_load(c) \/ sweep_once_load(c)
    BY <1>11, <1>12 DEF award_marks_load, sweep_once_load
  <1> QED BY <1>5, <1>6, <1>7, <1>8, <1>9, <1>10, <1>12 DEF LoadStep

LEMMA RequestedStep ==
  ASSUME SafeInv, RequestedOnly, [Next]_vars
  PROVE  RequestedOnly'
  <1>0. txn \in [Conns -> TypedTxn]
    BY DEF SafeInv, TypeInv
  <1>1. ASSUME NEW c \in Conns, NEW t, txn' = [txn EXCEPT ![c] = t], t.op \in Ops \cup {"idle"}
        PROVE  RequestedOnly'
    BY <1>0, <1>1 DEF RequestedOnly
  <1>2. Idle.op = "idle"
    BY DEF Idle
  <1>3. ASSUME NEW c \in Conns, NEW t, Begin(c, t) PROVE RequestedOnly'
    BY <1>1, <1>3 DEF Begin
  <1>4. ASSUME NEW c \in Conns, LoadStep(c) PROVE RequestedOnly'
    BY <1>1, <1>4, LoadKeepsOp DEF RequestedOnly
  <1>5. ASSUME NEW c \in Conns, NEW op, Committing(c, op) PROVE RequestedOnly'
    BY <1>1, <1>2, <1>5 DEF Committing
  <1>6. ASSUME NEW c \in Conns, update_exam_commit(c) PROVE RequestedOnly'
    <2>1. txn' = [d \in Conns |-> IF d = c THEN Idle ELSE Overtaken(txn[d], txn[c])]
      BY <1>6 DEF update_exam_commit
    <2>2. \A d \in Conns : Overtaken(txn[d], txn[c]).op = txn[d].op
      BY <1>0, OvertakenType
    <2> QED BY <1>2, <2>1, <2>2 DEF RequestedOnly
  <1>7. ASSUME NEW c \in Conns, CommitStep(c) PROVE RequestedOnly'
    BY <1>5, <1>6, <1>7 DEF CommitStep, schedule_exam_commit, start_exam_commit, end_exam_commit,
       cancel_exam_commit, check_in_commit, save_answer_commit, toggle_flag_commit, submit_commit,
       award_marks_commit, sweep_once_commit
  <1>8. ASSUME NEW c \in Conns, NEW e \in Exams, StaffBegin(c, e) PROVE RequestedOnly'
    BY <1>3, <1>8 DEF StaffBegin, update_exam_begin, schedule_exam_begin, start_exam_begin,
                      end_exam_begin, cancel_exam_begin
  <1>9. ASSUME NEW c \in Conns, NEW e \in Exams, NEW s \in Students, CandidateBegin(c, e, s)
        PROVE  RequestedOnly'
    BY <1>3, <1>9 DEF CandidateBegin, check_in_begin, save_answer_begin, toggle_flag_begin,
                      submit_begin, award_marks_begin
  <1>10. ASSUME NEW c \in Conns, sweep_once_begin(c) PROVE RequestedOnly'
    BY <1>3, <1>10 DEF sweep_once_begin
  <1>11. ASSUME NEW c \in Conns, rollback(c) PROVE RequestedOnly'
    BY <1>1, <1>2, <1>11 DEF rollback
  <1>12. CASE UNCHANGED txn
    BY <1>12 DEF RequestedOnly
  <1> QED BY <1>4, <1>7, <1>8, <1>9, <1>10, <1>11, <1>12
          DEF Next, vars, Tick, create_exam, publish_results

\* What a commit writes to one examination's sessions, when it grades nothing.
LEMMA UngradedRows ==
  ASSUME GradedDb, session \in [Exams -> [Students -> SessionRow]], NEW e \in Exams, NEW rows,
         session' = [session EXCEPT ![e] = rows], UNCHANGED result,
         \A s \in Students : rows[s].status \in Submitted => session[e][s].status \in Submitted
  PROVE  GradedDb'
  <1>1. \A f \in Exams, s \in Students : session'[f][s].status \in Submitted => session[f][s].status \in Submitted
    OBVIOUS
  <1> QED BY <1>1 DEF GradedDb

LEMMA GradedStep ==
  ASSUME SafeInv, RequestedOnly, "end_exam" \notin Ops, GradedDb, [Next]_vars
  PROVE  GradedDb'
  <1>1. CASE UNCHANGED <<session, result>>
    BY <1>1 DEF GradedDb
  <1>2. ASSUME NEW c \in Conns, CommitStep(c) PROVE GradedDb'
    <2> DEFINE t == txn[c]
    <2>0. /\ t.es \subseteq Exams /\ t.who \subseteq Students
          /\ session \in [Exams -> [Students -> SessionRow]]
          /\ result \in [Exams -> [Students -> ResultRow]]
          /\ t.ss \in [Exams -> [Students -> SessionRow]]
      BY AtCommit DEF SafeInv, TypeInv, TypeOK
    <2>1. CASE update_exam_commit(c) \/ save_answer_commit(c) \/ toggle_flag_commit(c)
      BY <1>1, <2>1 DEF update_exam_commit, save_answer_commit, toggle_flag_commit
    <2>2. CASE schedule_exam_commit(c)
      <3>1. PICK e \in t.es : session' = [session EXCEPT ![e] = WithSeats(session[e], NewSeats(t.arg.enrolled, t.ss[e]))]
        BY <2>2 DEF schedule_exam_commit
      <3> DEFINE new == NewSeats(t.arg.enrolled, t.ss[e])
      <3> HIDE DEF new
      <3>2. \A s \in Students : WithSeats(session[e], new)[s].status \in Submitted => session[e][s].status \in Submitted
        BY DEF WithSeats, NoSession, Submitted
      <3>3. UNCHANGED result /\ session' = [session EXCEPT ![e] = WithSeats(session[e], new)]
        BY <2>2, <3>1 DEF schedule_exam_commit, new
      <3> QED BY <2>0, <3>2, <3>3, UngradedRows
    <2>3. CASE start_exam_commit(c)
      <3>1. PICK e \in t.es : session' = [session EXCEPT ![e] = [s \in Students |-> Released(session[e][s], t.ss[e][s], t.at)]]
        BY <2>3 DEF start_exam_commit
      <3> DEFINE rows == [s \in Students |-> Released(session[e][s], t.ss[e][s], t.at)]
      <3>2. \A s \in Students : rows[s].status \in Submitted => session[e][s].status \in Submitted
        <4>1. ASSUME NEW cur \in SessionRow, NEW read
              PROVE  Released(cur, read, t.at).status \in {"ACTIVE", cur.status}
          BY DEF Released, SessionRow
        <4>2. \A s \in Students : session[e][s] \in SessionRow
          BY <2>0
        <4>3. \A s \in Students : rows[s].status \in {"ACTIVE", session[e][s].status}
          BY <4>1, <4>2
        <4> QED BY <4>3 DEF Submitted
      <3> HIDE DEF rows
      <3>3. UNCHANGED result /\ session' = [session EXCEPT ![e] = rows]
        BY <2>3, <3>1 DEF start_exam_commit, rows
      <3> QED BY <2>0, <3>2, <3>3, UngradedRows
    <2>4. CASE end_exam_commit(c)
      BY <2>4 DEF end_exam_commit, Committing, RequestedOnly
    <2>5. CASE cancel_exam_commit(c)
      <3>1. PICK e \in t.es : session' = [session EXCEPT ![e] = [s \in Students |-> Cancelled(session[e][s], t.ss[e][s])]]
        BY <2>5 DEF cancel_exam_commit
      <3> DEFINE rows == [s \in Students |-> Cancelled(session[e][s], t.ss[e][s])]
      <3>2. \A s \in Students : rows[s].status \in Submitted => session[e][s].status \in Submitted
        BY <2>0, <3>1 DEF Cancelled, SessionRow, Submitted
      <3> HIDE DEF rows
      <3>3. UNCHANGED result /\ session' = [session EXCEPT ![e] = rows]
        BY <2>5, <3>1 DEF cancel_exam_commit, rows
      <3> QED BY <2>0, <3>2, <3>3, UngradedRows
    <2>6. CASE check_in_commit(c)
      <3>1. PICK e \in t.es, s \in t.who :
              session' = [session EXCEPT ![e][s] = Entered(@, t.ss[e][s], draw_paper(s, t.paper[e]), t.arg.n)]
        BY <2>6 DEF check_in_commit
      <3> DEFINE row == Entered(session[e][s], t.ss[e][s], draw_paper(s, t.paper[e]), t.arg.n)
      <3>2. row.status \in Submitted => session[e][s].status \in Submitted
        BY <2>0, <3>1 DEF Entered, CheckedIn, SessionRow, Submitted
      <3> HIDE DEF row
      <3>3. UNCHANGED result /\ session' = [session EXCEPT ![e][s] = row] /\ e \in Exams /\ s \in Students
        BY <2>0, <2>6, <3>1 DEF check_in_commit, row
      <3>4. \A f \in Exams, r \in Students : session'[f][r] = IF f = e /\ r = s THEN row ELSE session[f][r]
        BY <2>0, <3>3
      <3> QED BY <3>2, <3>3, <3>4 DEF GradedDb
    <2>7. CASE submit_commit(c)
      <3>1. PICK e \in t.es, s \in t.who : \E new :
              /\ result' = [result EXCEPT ![e][s] = GradedRow(@, t.has[e][s], new)]
              /\ session' = [session EXCEPT ![e][s] = HandedIn(@, t.ss[e][s], t.at)]
        BY <2>7 DEF submit_commit
      <3>2. e \in Exams /\ s \in Students
        BY <2>0
      <3>3. result'[e][s].graded
        BY <2>0, <3>1, <3>2 DEF GradedRow
      <3>4. \A f \in Exams, r \in Students : f # e \/ r # s =>
              session'[f][r] = session[f][r] /\ result'[f][r] = result[f][r]
        BY <2>0, <3>1, <3>2
      <3> QED BY <3>3, <3>4 DEF GradedDb
    <2>8. CASE award_marks_commit(c)
      <3>1. PICK e \in t.es, s \in t.who : \E new : result' = [result EXCEPT ![e][s] = GradedRow(@, t.has[e][s], new)]
        BY <2>8 DEF award_marks_commit
      <3>2. e \in Exams /\ s \in Students /\ UNCHANGED session
        BY <2>0, <2>8 DEF award_marks_commit
      <3>3. \A f \in Exams, r \in Students : result[f][r].graded => result'[f][r].graded
        BY <2>0, <3>1, <3>2 DEF GradedRow
      <3> QED BY <3>2, <3>3 DEF GradedDb
    <2>9. CASE sweep_once_commit(c)
      <3>1. /\ result' = [e \in Exams |-> [s \in Students |->
                 IF e \in t.es /\ t.ss[e][s].status \in SWEEPABLE_TO_AUTO_SUBMIT
                   THEN GradedRow(result[e][s], t.has[e][s],
                                  score_paper(t.paper[e], t.ss[e][s].order, t.ans[e][s]))
                   ELSE result[e][s]]]
            /\ session' = [e \in Exams |-> [s \in Students |->
                 IF e \in t.es THEN Swept(session[e][s], t.ss[e][s], t.at) ELSE session[e][s]]]
        BY <2>9 DEF sweep_once_commit
      <3>2. \A e \in Exams, s \in Students :
              /\ result[e][s].graded => result'[e][s].graded
              /\ e \in t.es /\ t.ss[e][s].status \in SWEEPABLE_TO_AUTO_SUBMIT => result'[e][s].graded
        BY <3>1 DEF GradedRow
      <3>3. ASSUME NEW e \in Exams, NEW s \in Students, session'[e][s].status \in Submitted
            PROVE  session[e][s].status \in Submitted \/ result'[e][s].graded
        <4>1. CASE e \notin t.es
          BY <3>1, <3>3, <4>1
        <4>2. CASE e \in t.es /\ t.ss[e][s].status \in SWEEPABLE_TO_AUTO_SUBMIT
          BY <3>2, <4>2
        <4>3. CASE e \in t.es /\ t.ss[e][s].status \notin SWEEPABLE_TO_AUTO_SUBMIT
          <5>1. session'[e][s] = Swept(session[e][s], t.ss[e][s], t.at)
            BY <3>1, <4>3
          <5> QED BY <2>0, <3>3, <4>3, <5>1 DEF Swept, SessionRow, Submitted
        <4> QED BY <4>1, <4>2, <4>3
      <3> QED BY <3>2, <3>3, StillGraded
    <2> QED BY <1>2, <2>1, <2>2, <2>3, <2>4, <2>5, <2>6, <2>7, <2>8, <2>9 DEF CommitStep
  <1>3. ASSUME NEW c \in Conns, LoadStep(c) PROVE UNCHANGED <<session, result>>
    BY <1>3 DEF LoadStep, Load, db, LoadSessions, LoadAnswer, update_exam_load, schedule_exam_load,
                start_exam_load, end_exam_load, cancel_exam_load, check_in_load, save_answer_load,
                toggle_flag_load, submit_load, award_marks_load, sweep_once_load
  <1>4. ASSUME NEW c \in Conns, NEW e \in Exams, StaffBegin(c, e) PROVE UNCHANGED <<session, result>>
    BY <1>4 DEF StaffBegin, Begin, db, update_exam_begin, schedule_exam_begin, start_exam_begin,
                end_exam_begin, cancel_exam_begin
  <1>5. ASSUME NEW c \in Conns, NEW e \in Exams, NEW s \in Students, CandidateBegin(c, e, s)
        PROVE  UNCHANGED <<session, result>>
    BY <1>5 DEF CandidateBegin, Begin, db, check_in_begin, save_answer_begin, toggle_flag_begin,
                submit_begin, award_marks_begin
  <1>6. CASE \/ UNCHANGED vars \/ Tick
             \/ \E e \in Exams : \E R, P : create_exam(e, R, P)
             \/ \E e \in Exams : \E published : publish_results(e, published)
             \/ \E c \in Conns : sweep_once_begin(c) \/ rollback(c)
    BY <1>1, <1>6 DEF vars, db, Tick, create_exam, publish_results, sweep_once_begin, Begin, rollback
  <1> QED BY <1>1, <1>2, <1>3, <1>4, <1>5, <1>6 DEF Next

\* However submissions, sweeps, check-ins and markers overlap, where no early
\* close is requested an examination that is over has a result for every paper
\* that was handed in.
THEOREM AllGraded == "end_exam" \notin Ops => (Spec => []GradedWhenClosed)
  <1> SUFFICES ASSUME "end_exam" \notin Ops PROVE Spec => []GradedWhenClosed
    OBVIOUS
  <1>1. Init => GradedDb /\ RequestedOnly
    BY DEF Init, GradedDb, RequestedOnly, NoSessions, NoSession, Submitted, Idle
  <1>2. SafeInv /\ RequestedOnly /\ GradedDb /\ [Next]_vars => RequestedOnly' /\ GradedDb'
    BY RequestedStep, GradedStep
  <1>3. GradedDb => GradedWhenClosed
    BY DEF GradedDb, GradedWhenClosed
  <1> QED BY <1>1, <1>2, <1>3, SafeAlways, PTL DEF Spec

-----------------------------------------------------------------------------
(* A room that is writing.  While only candidates and the sweep act, no     *)
(* session goes backwards however their transactions overlap.  Nothing in   *)
(* sessions.py or sweep.py sees to it: a submission decides on the session  *)
(* as it read it, and would relabel a paper the sweep closed meanwhile.     *)
(* What refuses the later of the two is the row of results, which can only  *)
(* be inserted once.                                                        *)

Sitting == {"ACTIVE", "SUBMITTED", "AUTO_SUBMITTED"}
SittingRequests == CandidateOps \cup {"sweep_once"}

\* Every examination is live, everybody is writing, and no request is open.
RoomStart == /\ SafeInv /\ \A c \in Conns : txn[c] = Idle
             /\ \A e \in Exams, s \in Students :
                  exam[e].status = "LIVE" /\ session[e][s].status = "ACTIVE" /\ ~result[e][s].graded

\* What the only writers of a session rely on at their commit: a submission that
\* found a result found the candidate's own, and the sweep found none with an
\* active session.
RoomHolds(c) ==
  LET t == txn[c]
  IN  /\ t.op \in CandidateOps => \A e \in t.es, s \in t.who : t.ss[e][s].status \in Sitting
      /\ t.op = "submit" /\ t.pc = "loaded" =>
           \A e \in t.es, s \in t.who : t.has[e][s].graded => session[e][s].status = "SUBMITTED"
      /\ t.op = "sweep_once" /\ t.pc = "loaded" =>
           \A e \in t.es, s \in Students :
              /\ t.ss[e][s].status \in Sitting
              /\ t.ss[e][s].status = "ACTIVE" => ~t.has[e][s].graded

RoomDb == \A e \in Exams, s \in Students :
            /\ session[e][s].status \in Sitting
            /\ result[e][s].graded <=> session[e][s].status \in Submitted
            /\ exam[e].status = "LIVE" => session[e][s].status # "AUTO_SUBMITTED"

RoomInv == SafeInv /\ RequestedOnly /\ RoomDb /\ \A c \in Conns : RoomHolds(c)

\* The only thing that happens to a session is that it is submitted.
Advances == \A e \in Exams, s \in Students :
              \/ session'[e][s].status = session[e][s].status
              \/ session[e][s].status = "ACTIVE" /\ session'[e][s].status \in Submitted

LEMMA IdleHolds == \A c \in Conns : txn[c] = Idle => RoomHolds(c)
  BY DEF RoomHolds, Idle, CandidateOps

\* A transaction that is not this step's keeps what it relies on.
LEMMA RoomStays ==
  ASSUME NEW c \in Conns, RoomHolds(c), Advances, txn'[c] = txn[c], txn[c] \in Txn
  PROVE  RoomHolds(c)'
  <1>1. /\ txn[c].es \subseteq Exams /\ txn[c].who \subseteq Students
    BY DEF Txn
  <1>2. \A e \in Exams, s \in Students :
          session[e][s].status = "SUBMITTED" => session'[e][s].status = "SUBMITTED"
    BY DEF Advances
  <1> QED BY <1>1, <1>2 DEF RoomHolds

\* A begin or a load: the tables stay, and one transaction becomes t.
LEMMA RoomQuiet ==
  ASSUME RoomInv, UNCHANGED db, NEW c \in Conns, NEW t, txn' = [txn EXCEPT ![c] = t], RoomHolds(c)'
  PROVE  RoomDb' /\ (\A d \in Conns : RoomHolds(d))' /\ Advances
  <1>1. Advances /\ RoomDb'
    BY DEF db, Advances, RoomInv, RoomDb
  <1>2. ASSUME NEW d \in Conns, d # c PROVE RoomHolds(d)'
    <2>1. txn'[d] = txn[d] /\ txn[d] \in Txn /\ RoomHolds(d)
      BY <1>2 DEF RoomInv, SafeInv, TypeInv, TypedTxn
    <2> QED BY <1>1, <2>1, RoomStays
  <1> QED BY <1>1, <1>2

\* A commit: its connection is idle afterwards.
LEMMA RoomCommit ==
  ASSUME RoomInv, NEW c \in Conns, NEW op, Committing(c, op), Advances, RoomDb'
  PROVE  RoomDb' /\ (\A d \in Conns : RoomHolds(d))' /\ Advances
  <1>1. ASSUME NEW d \in Conns, d # c PROVE RoomHolds(d)'
    <2>1. txn'[d] = txn[d] /\ txn[d] \in Txn /\ RoomHolds(d)
      BY <1>1 DEF RoomInv, SafeInv, TypeInv, TypedTxn, Committing
    <2> QED BY <2>1, RoomStays
  <1>2. txn'[c] = Idle
    BY DEF Committing, RoomInv, SafeInv, TypeInv
  <1>3. RoomHolds(c)'
    BY <1>2 DEF RoomHolds, Idle, CandidateOps
  <1> QED BY <1>1, <1>3

LEMMA RoomBegin ==
  ASSUME RoomInv, Ops \subseteq SittingRequests, NEW c \in Conns,
         \/ \E e \in Exams : StaffBegin(c, e) \/ \E s \in Students : CandidateBegin(c, e, s)
         \/ sweep_once_begin(c)
  PROVE  RoomDb' /\ (\A d \in Conns : RoomHolds(d))' /\ Advances
  <1>0. txn \in [Conns -> TypedTxn]
    BY DEF RoomInv, SafeInv, TypeInv
  <1>1. ASSUME NEW t, Begin(c, t), t.op \notin Ops PROVE FALSE
    BY <1>1 DEF Begin
  <1>2. ASSUME NEW e \in Exams, StaffBegin(c, e) PROVE FALSE
    <2>1. \A op \in StaffOps : \A arg : StaffTxn(op, e, arg).op = op
      BY DEF StaffTxn, Idle
    <2> QED BY <1>1, <1>2, <2>1 DEF StaffBegin, update_exam_begin, schedule_exam_begin, start_exam_begin,
               end_exam_begin, cancel_exam_begin, StaffOps, CandidateOps, SittingRequests
  <1>3. ASSUME NEW e \in Exams, NEW s \in Students, NEW q, NEW marks, award_marks_begin(c, e, s, q, marks)
        PROVE  FALSE
    <2>1. [Idle EXCEPT !.op = "award_marks", !.pc = "begun", !.es = {e}, !.who = {s},
                       !.arg = [NoArg EXCEPT !.q = q, !.n = marks],
                       !.ans[e][s][q] = answer[e][s][q]].op = "award_marks"
      BY DEF Idle
    <2> QED BY <1>1, <1>3, <2>1 DEF award_marks_begin, CandidateOps, SittingRequests
  <1>4. ASSUME NEW e \in Exams, NEW s \in Students, NEW op \in CandidateOps, NEW arg,
               Begin(c, CandidateTxn(op, e, s, arg))
        PROVE  RoomDb' /\ (\A d \in Conns : RoomHolds(d))' /\ Advances
    <2> DEFINE t == CandidateTxn(op, e, s, arg)
    <2>1. t.op = op /\ t.pc = "begun" /\ t.es = {e} /\ t.who = {s} /\ t.ss = Loaded(session, NoSession, {e}, {s})
      BY DEF CandidateTxn, Idle
    <2>2. t.ss[e][s] = session[e][s]
      BY <2>1 DEF Loaded
    <2>3. txn' = [txn EXCEPT ![c] = t] /\ UNCHANGED db
      BY <1>4 DEF Begin
    <2> HIDE DEF t
    <2>4. txn'[c] = t
      BY <1>0, <2>3
    <2>5. RoomHolds(c)'
      BY <2>1, <2>2, <2>4 DEF RoomHolds, RoomInv, RoomDb, CandidateOps
    <2> QED BY <2>3, <2>5, RoomQuiet
  <1>5. ASSUME sweep_once_begin(c)
        PROVE  RoomDb' /\ (\A d \in Conns : RoomHolds(d))' /\ Advances
    <2> DEFINE t == [Idle EXCEPT !.op = "sweep_once", !.pc = "begun", !.es = Expired, !.at = now,
                                 !.x = [e \in Exams |-> IF e \in Expired THEN exam[e] ELSE NoExam]]
    <2>1. t.op = "sweep_once" /\ t.pc = "begun"
      BY DEF Idle
    <2>2. txn' = [txn EXCEPT ![c] = t] /\ UNCHANGED db
      BY <1>5 DEF sweep_once_begin, Begin
    <2> HIDE DEF t
    <2>3. txn'[c] = t
      BY <1>0, <2>2
    <2>4. RoomHolds(c)'
      BY <2>1, <2>3 DEF RoomHolds, CandidateOps
    <2> QED BY <2>2, <2>4, RoomQuiet
  <1>6. ASSUME NEW e \in Exams, NEW s \in Students, CandidateBegin(c, e, s)
        PROVE  RoomDb' /\ (\A d \in Conns : RoomHolds(d))' /\ Advances
    BY <1>3, <1>4, <1>6 DEF CandidateBegin, check_in_begin, save_answer_begin, toggle_flag_begin, submit_begin,
       CandidateOps
  <1> QED BY <1>2, <1>5, <1>6

LEMMA RoomLoad ==
  ASSUME RoomInv, Ops \subseteq SittingRequests, NEW c \in Conns, LoadStep(c)
  PROVE  RoomDb' /\ (\A d \in Conns : RoomHolds(d))' /\ Advances
  <1> DEFINE t == txn[c]
  <1>0. /\ txn \in [Conns -> TypedTxn] /\ t \in Txn /\ t.es \subseteq Exams /\ t.who \subseteq Students
        /\ RoomHolds(c) /\ RoomDb /\ t.op \in Ops \cup {"idle"}
    BY DEF RoomInv, SafeInv, TypeInv, TypedTxn, Txn, RequestedOnly
  <1>1. ASSUME NEW u, Load(c, u), u.op = t.op, u.es = t.es, u.who = t.who, u.ss = t.ss,
               u.op \in CandidateOps \ {"submit"}
        PROVE  RoomDb' /\ (\A d \in Conns : RoomHolds(d))' /\ Advances
    <2>1. txn' = [txn EXCEPT ![c] = u] /\ txn'[c] = u /\ UNCHANGED db
      BY <1>0, <1>1 DEF Load
    <2>2. RoomHolds(c)'
      BY <1>0, <1>1, <2>1 DEF RoomHolds, CandidateOps
    <2> QED BY <2>1, <2>2, RoomQuiet
  <1>2. CASE \/ update_exam_load(c) \/ schedule_exam_load(c) \/ start_exam_load(c) \/ end_exam_load(c)
             \/ cancel_exam_load(c) \/ award_marks_load(c)
    BY <1>0, <1>2 DEF update_exam_load, schedule_exam_load, start_exam_load, end_exam_load, cancel_exam_load,
       award_marks_load, SittingRequests, CandidateOps
  <1>3. CASE check_in_load(c)
    <2>1. PICK e \in t.es : Load(c, [t EXCEPT !.pc = "loaded", !.paper[e] = paper[e]])
      BY <1>3 DEF check_in_load
    <2> DEFINE u == [t EXCEPT !.pc = "loaded", !.paper[e] = paper[e]]
    <2>2. u.op = t.op /\ u.es = t.es /\ u.who = t.who /\ u.ss = t.ss /\ t.op = "check_in"
      BY <1>0, <1>3 DEF Txn, check_in_load
    <2> HIDE DEF u
    <2>3. Load(c, u)
      BY <2>1 DEF u
    <2> QED BY <1>1, <2>2, <2>3 DEF CandidateOps
  <1>4. CASE save_answer_load(c) \/ toggle_flag_load(c)
    <2>1. PICK e \in t.es, s \in t.who : LoadAnswer(c, e, s)
      BY <1>4 DEF save_answer_load, toggle_flag_load
    <2> DEFINE u == [t EXCEPT !.pc = "loaded", !.ans[e][s][t.arg.q] = answer[e][s][t.arg.q]]
    <2>2. /\ u.op = t.op /\ u.es = t.es /\ u.who = t.who /\ u.ss = t.ss
          /\ t.op \in {"save_answer", "toggle_flag"}
      BY <1>0, <1>4 DEF Txn, save_answer_load, toggle_flag_load
    <2>3. Load(c, u)
      BY <2>1 DEF LoadAnswer
    <2> HIDE DEF u
    <2> QED BY <1>1, <2>2, <2>3 DEF CandidateOps
  <1>5. CASE submit_load(c)
    <2>1. PICK e \in t.es, s \in t.who :
            /\ Writable(e, t.ss[e][s])
            /\ Load(c, [GradeInputs(t, {e}, {s}) EXCEPT !.pc = "loaded", !.at = now])
      BY <1>5 DEF submit_load
    <2> DEFINE u == [GradeInputs(t, {e}, {s}) EXCEPT !.pc = "loaded", !.at = now]
    <2>2. /\ u.op = "submit" /\ t.op = "submit" /\ u.es = t.es /\ u.who = t.who /\ u.ss = t.ss
          /\ u.has = Loaded(result, NoResult, {e}, {s})
      BY <1>0, <1>5 DEF GradeInputs, Txn, submit_load
    <2>3. txn' = [txn EXCEPT ![c] = u] /\ UNCHANGED db
      BY <2>1 DEF Load
    <2> HIDE DEF u
    <2>4. txn'[c] = u
      BY <1>0, <2>3
    <2>5. \A f \in t.es, r \in t.who : u.has[f][r].graded => f = e /\ r = s /\ result[e][s].graded
      BY <1>0, <2>2 DEF Loaded, NoResult
    <2>6. result[e][s].graded => session[e][s].status = "SUBMITTED"
      BY <1>0, <2>1 DEF Writable, accepts_candidate_writes, RoomDb, Submitted
    <2>7. UNCHANGED session
      BY <2>3 DEF db
    <2>8. RoomHolds(c)'
      <3>1. \A f \in t.es, r \in t.who : u.has[f][r].graded => session[f][r].status = "SUBMITTED"
        BY <2>5, <2>6
      <3>2. \A f \in t.es, r \in t.who : u.ss[f][r].status \in Sitting
        BY <1>0, <2>2 DEF RoomHolds, CandidateOps
      <3> QED BY <2>2, <2>4, <2>7, <3>1, <3>2 DEF RoomHolds
    <2> QED BY <2>3, <2>8, RoomQuiet
  <1>6. CASE sweep_once_load(c)
    <2> DEFINE u == [GradeInputs(t, t.es, Students) EXCEPT
                       !.pc = "loaded", !.ss = Loaded(session, NoSession, t.es, Students)]
    <2>1. /\ u.op = "sweep_once" /\ u.es = t.es
          /\ u.ss = Loaded(session, NoSession, t.es, Students)
          /\ u.has = Loaded(result, NoResult, t.es, Students)
      BY <1>0, <1>6 DEF GradeInputs, Txn, sweep_once_load
    <2>2. txn' = [txn EXCEPT ![c] = u] /\ UNCHANGED db
      BY <1>6 DEF sweep_once_load, Load
    <2> HIDE DEF u
    <2>3. txn'[c] = u
      BY <1>0, <2>2
    <2>4. \A e \in t.es, s \in Students : u.ss[e][s] = session[e][s] /\ u.has[e][s] = result[e][s]
      BY <1>0, <2>1 DEF Loaded
    <2>5. \A e \in t.es, s \in Students :
             /\ session[e][s].status \in Sitting
             /\ session[e][s].status = "ACTIVE" => ~result[e][s].graded
      BY <1>0 DEF RoomDb, Submitted
    <2>6. RoomHolds(c)'
      BY <2>1, <2>3, <2>4, <2>5 DEF RoomHolds, CandidateOps
    <2> QED BY <2>2, <2>6, RoomQuiet
  <1> QED BY <1>2, <1>3, <1>4, <1>5, <1>6 DEF LoadStep

LEMMA RoomCommits ==
  ASSUME RoomInv, Ops \subseteq SittingRequests, NEW c \in Conns, CommitStep(c)
  PROVE  RoomDb' /\ (\A d \in Conns : RoomHolds(d))' /\ Advances
  <1> DEFINE t == txn[c]
  <1>0. /\ t \in Txn /\ t.es \subseteq Exams /\ t.who \subseteq Students
        /\ RoomHolds(c) /\ RoomDb /\ t.op \in Ops \cup {"idle"}
        /\ exam \in [Exams -> ExamRow] /\ session \in [Exams -> [Students -> SessionRow]]
        /\ result \in [Exams -> [Students -> ResultRow]]
    BY DEF RoomInv, SafeInv, TypeInv, TypeOK, TypedTxn, Txn, RequestedOnly
  <1>1. CASE \/ update_exam_commit(c) \/ schedule_exam_commit(c) \/ start_exam_commit(c) \/ end_exam_commit(c)
             \/ cancel_exam_commit(c) \/ award_marks_commit(c)
    BY <1>0, <1>1 DEF update_exam_commit, schedule_exam_commit, start_exam_commit, end_exam_commit,
       cancel_exam_commit, award_marks_commit, Committing, SittingRequests, CandidateOps
  <1>2. CASE save_answer_commit(c) \/ toggle_flag_commit(c)
    <2>1. UNCHANGED <<exam, session, result>> /\ (Committing(c, "save_answer") \/ Committing(c, "toggle_flag"))
      BY <1>2 DEF save_answer_commit, toggle_flag_commit
    <2>2. Advances /\ RoomDb'
      BY <1>0, <2>1 DEF Advances, RoomDb
    <2> QED BY <2>1, <2>2, RoomCommit
  <1>3. CASE check_in_commit(c)
    <2>1. PICK e \in t.es, s \in t.who :
            session' = [session EXCEPT ![e][s] = Entered(@, t.ss[e][s], draw_paper(s, t.paper[e]), t.arg.n)]
      BY <1>3 DEF check_in_commit
    <2>2. e \in Exams /\ s \in Students /\ UNCHANGED <<exam, result>> /\ Committing(c, "check_in")
      BY <1>0, <1>3 DEF check_in_commit
    <2>3. t.ss[e][s].status \in Sitting
      BY <1>0, <2>2 DEF RoomHolds, Committing, CandidateOps
    <2> DEFINE row == Entered(session[e][s], t.ss[e][s], draw_paper(s, t.paper[e]), t.arg.n)
    <2>4. row.status = session[e][s].status
      BY <1>0, <2>2, <2>3 DEF Entered, CheckedIn, SessionRow, Sitting
    <2>5. session' = [session EXCEPT ![e][s] = row]
      BY <2>1
    <2> HIDE DEF row
    <2>6. \A f \in Exams, r \in Students : session'[f][r].status = session[f][r].status
      BY <1>0, <2>2, <2>4, <2>5
    <2>7. Advances /\ RoomDb'
      BY <1>0, <2>2, <2>6 DEF Advances, RoomDb
    <2> QED BY <2>2, <2>7, RoomCommit
  <1>4. CASE submit_commit(c)
    <2>1. PICK e \in t.es, s \in t.who : \E new :
            /\ GradeAccepted(result[e][s], t.has[e][s], new)
            /\ result' = [result EXCEPT ![e][s] = GradedRow(@, t.has[e][s], new)]
            /\ session' = [session EXCEPT ![e][s] = HandedIn(@, t.ss[e][s], t.at)]
      BY <1>4 DEF submit_commit
    <2>2. e \in Exams /\ s \in Students /\ UNCHANGED exam /\ Committing(c, "submit")
      BY <1>0, <1>4 DEF submit_commit
    <2>3. session[e][s].status \in {"ACTIVE", "SUBMITTED"}
      <3>1. result[e][s].graded => t.has[e][s].graded
        BY <2>1 DEF GradeAccepted
      <3>2. t.has[e][s].graded => session[e][s].status = "SUBMITTED"
        BY <1>0, <2>2 DEF RoomHolds, Committing
      <3> QED BY <1>0, <2>2, <3>1, <3>2 DEF RoomDb, Sitting, Submitted
    <2>4. session'[e][s].status = "SUBMITTED" /\ result'[e][s].graded
      BY <1>0, <2>1, <2>2 DEF HandedIn, GradedRow, SessionRow
    <2>5. \A f \in Exams, r \in Students : f # e \/ r # s =>
            session'[f][r] = session[f][r] /\ result'[f][r] = result[f][r]
      BY <1>0, <2>1, <2>2
    <2>6. Advances
      BY <2>3, <2>4, <2>5 DEF Advances, Submitted
    <2>7. RoomDb'
      BY <1>0, <2>2, <2>4, <2>5 DEF RoomDb, Sitting, Submitted
    <2> QED BY <2>2, <2>6, <2>7, RoomCommit
  <1>5. CASE sweep_once_commit(c)
    <2>1. /\ \A e \in t.es, s \in Students : t.ss[e][s].status \in SWEEPABLE_TO_AUTO_SUBMIT =>
               GradeAccepted(result[e][s], t.has[e][s], score_paper(t.paper[e], t.ss[e][s].order, t.ans[e][s]))
          /\ result' = [e \in Exams |-> [s \in Students |->
               IF e \in t.es /\ t.ss[e][s].status \in SWEEPABLE_TO_AUTO_SUBMIT
                 THEN GradedRow(result[e][s], t.has[e][s],
                                score_paper(t.paper[e], t.ss[e][s].order, t.ans[e][s]))
                 ELSE result[e][s]]]
          /\ session' = [e \in Exams |-> [s \in Students |->
               IF e \in t.es THEN Swept(session[e][s], t.ss[e][s], t.at) ELSE session[e][s]]]
          /\ exam' = [e \in Exams |->
               IF e \in t.es THEN [exam[e] EXCEPT !.status = "COMPLETED", !.seq = t.x[e].seq + 1] ELSE exam[e]]
          /\ Committing(c, "sweep_once")
      BY <1>5 DEF sweep_once_commit
    <2>2. ASSUME NEW e \in Exams, NEW s \in Students, e \notin t.es
          PROVE  exam'[e] = exam[e] /\ session'[e][s] = session[e][s] /\ result'[e][s] = result[e][s]
      BY <2>1, <2>2
    <2>3. \A e \in t.es : exam'[e].status = "COMPLETED"
      BY <1>0, <2>1 DEF ExamRow
    <2>4. ASSUME NEW e \in t.es, NEW s \in Students, t.ss[e][s].status = "ACTIVE"
          PROVE  /\ session[e][s].status = "ACTIVE" /\ session'[e][s].status = "AUTO_SUBMITTED"
                 /\ result'[e][s].graded
      <3>1. ~t.has[e][s].graded
        BY <1>0, <2>1, <2>4 DEF RoomHolds, Committing
      <3>2. ~result[e][s].graded
        BY <2>1, <2>4, <3>1 DEF GradeAccepted, SWEEPABLE_TO_AUTO_SUBMIT
      <3>3. session[e][s].status = "ACTIVE"
        BY <1>0, <3>2 DEF RoomDb, Sitting, Submitted
      <3>4. session'[e][s] = Swept(session[e][s], t.ss[e][s], t.at) /\ e \in Exams /\ session[e][s] \in SessionRow
        BY <1>0, <2>1
      <3>5. session'[e][s].status = "AUTO_SUBMITTED"
        BY <2>4, <3>4 DEF Swept, SWEEPABLE_TO_AUTO_SUBMIT, SessionRow
      <3>6. result'[e][s].graded
        BY <2>1, <2>4, <3>4 DEF GradedRow, SWEEPABLE_TO_AUTO_SUBMIT
      <3> QED BY <3>3, <3>5, <3>6
    <2>5. ASSUME NEW e \in t.es, NEW s \in Students, t.ss[e][s].status # "ACTIVE"
          PROVE  session'[e][s] = session[e][s] /\ result'[e][s] = result[e][s]
      <3>1. t.ss[e][s].status \in Submitted /\ e \in Exams
        BY <1>0, <2>1, <2>5 DEF RoomHolds, Committing, Sitting, Submitted
      <3>2. t.ss[e][s].status \notin SWEEPABLE_TO_AUTO_SUBMIT \cup SWEEPABLE_TO_TERMINATED
        BY <3>1 DEF SWEEPABLE_TO_AUTO_SUBMIT, SWEEPABLE_TO_TERMINATED, Submitted
      <3> QED BY <2>1, <3>1, <3>2 DEF Swept
    <2>6. Advances
      BY <2>2, <2>4, <2>5 DEF Advances, Submitted
    <2>7. ASSUME NEW e \in Exams, NEW s \in Students
          PROVE  /\ session'[e][s].status \in Sitting
                 /\ result'[e][s].graded <=> session'[e][s].status \in Submitted
                 /\ exam'[e].status = "LIVE" => session'[e][s].status # "AUTO_SUBMITTED"
      <3>1. CASE e \notin t.es
        BY <1>0, <2>2, <2>7, <3>1 DEF RoomDb
      <3>2. CASE e \in t.es /\ t.ss[e][s].status = "ACTIVE"
        BY <2>3, <2>4, <2>7, <3>2 DEF Sitting, Submitted
      <3>3. CASE e \in t.es /\ t.ss[e][s].status # "ACTIVE"
        BY <1>0, <2>3, <2>5, <2>7, <3>3 DEF RoomDb
      <3> QED BY <3>1, <3>2, <3>3
    <2>8. RoomDb'
      BY <2>7 DEF RoomDb
    <2> QED BY <2>1, <2>6, <2>8, RoomCommit
  <1> QED BY <1>1, <1>2, <1>3, <1>4, <1>5 DEF CommitStep

LEMMA RoomStep ==
  ASSUME RoomInv, Ops \subseteq SittingRequests, [Next]_vars
  PROVE  RoomInv' /\ Advances
  <1>1. SafeInv' /\ RequestedOnly'
    BY SafeStep, RequestedStep DEF RoomInv
  <1>2. CASE UNCHANGED vars \/ Tick
    <2>1. UNCHANGED <<db, txn>>
      BY <1>2 DEF vars, db, Tick
    <2>2. Advances /\ RoomDb'
      BY <2>1 DEF db, Advances, RoomInv, RoomDb
    <2>3. ASSUME NEW d \in Conns PROVE RoomHolds(d)'
      <3>1. txn'[d] = txn[d] /\ txn[d] \in Txn /\ RoomHolds(d)
        BY <2>1 DEF RoomInv, SafeInv, TypeInv, TypedTxn
      <3> QED BY <2>2, <3>1, RoomStays
    <2> QED BY <1>1, <2>2, <2>3 DEF RoomInv
  <1>3. ASSUME NEW e \in Exams, (\E R, P : create_exam(e, R, P)) \/ (\E published : publish_results(e, published))
        PROVE  FALSE
    BY <1>3 DEF create_exam, publish_results, SittingRequests, CandidateOps
  <1>4. ASSUME NEW c \in Conns, rollback(c) PROVE RoomInv' /\ Advances
    <2>1. txn' = [txn EXCEPT ![c] = Idle] /\ txn'[c] = Idle /\ UNCHANGED db
      BY <1>4 DEF rollback, RoomInv, SafeInv, TypeInv
    <2>2. RoomHolds(c)'
      BY <2>1 DEF RoomHolds, Idle, CandidateOps
    <2> QED BY <1>1, <2>1, <2>2, RoomQuiet DEF RoomInv
  <1>5. ASSUME NEW c \in Conns, CommitStep(c) \/ LoadStep(c) PROVE RoomInv' /\ Advances
    BY <1>1, <1>5, RoomCommits, RoomLoad DEF RoomInv
  <1>6. ASSUME NEW c \in Conns,
               \/ \E e \in Exams : StaffBegin(c, e) \/ \E s \in Students : CandidateBegin(c, e, s)
               \/ sweep_once_begin(c)
        PROVE  RoomInv' /\ Advances
    BY <1>1, <1>6, RoomBegin DEF RoomInv
  <1> QED BY <1>2, <1>3, <1>4, <1>5, <1>6 DEF Next

\* However check-ins, saves, submissions and sweeps of a writing room overlap, a
\* session only goes from writing to handed in, and stays as it was handed in: a
\* submission never relabels a paper the sweep has closed, nor the other way.
THEOREM RoomGoesForward ==
  Ops \subseteq SittingRequests => (RoomStart /\ [][Next]_vars => SessionNeverBackwards)
  <1> SUFFICES ASSUME Ops \subseteq SittingRequests
               PROVE  RoomStart /\ [][Next]_vars => SessionNeverBackwards
    OBVIOUS
  <1>1. RoomStart => RoomInv
    <2>1. Idle.op = "idle"
      BY DEF Idle
    <2>2. RoomStart => RequestedOnly
      BY <2>1 DEF RoomStart, RequestedOnly
    <2>3. RoomStart => RoomDb
      BY DEF RoomStart, RoomDb, Sitting, Submitted
    <2> QED BY <2>2, <2>3, IdleHolds DEF RoomStart, RoomInv
  <1>2. RoomInv /\ [Next]_vars => RoomInv'
    BY RoomStep
  <1>3. \A new \in Submitted : Follows("ACTIVE", new)
    <2>1. \A new \in Submitted : can_session_move("ACTIVE", new)
      BY DEF can_session_move, SESSION_TRANSITIONS, Submitted
    <2> QED BY <2>1 DEF Follows, SessionStatus, Submitted
  <1>4. ASSUME RoomInv, [Next]_vars
        PROVE  [\A e \in Exams, s \in Students :
                  LET old == session[e][s].status
                      new == session'[e][s].status
                  IN  old # "NONE" /\ Moved(old, new) => Follows(old, new)]_vars
    BY <1>3, <1>4, RoomStep DEF Advances, Moved
  <1> QED BY <1>1, <1>2, <1>4, PTL DEF SessionNeverBackwards
==============================================================================

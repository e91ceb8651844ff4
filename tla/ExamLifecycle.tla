---------------------------- MODULE ExamLifecycle ----------------------------
(***************************************************************************)
(* The examination backend: the staff commands (services/commands.py), the *)
(* candidate's session (services/sessions.py) and the deadline sweep       *)
(* (services/sweep.py) over one PostgreSQL database.                       *)
(*                                                                         *)
(* Every handler runs on a pooled connection at READ COMMITTED, loads rows *)
(* without locking them, decides on what it loaded, and writes at its one  *)
(* commit.  A handler is therefore up to three steps of a connection c:    *)
(*   <op>_begin   the first row is loaded (the examination for staff, the  *)
(*                session for a candidate) and the first guard evaluated;  *)
(*   <op>_load    the rows the rest of the handler reads;                  *)
(*   <op>_commit  the unit of work is flushed and committed.               *)
(* A refusal (404, 409, 422), an early return that changes nothing, a      *)
(* constraint violation and a lost connection all end in rollback.         *)
(*                                                                         *)
(* The ORM's UPDATE names only the columns whose value differs from the    *)
(* one loaded, so a column set to the value it was loaded with keeps       *)
(* whatever another transaction wrote meanwhile: operator Write.           *)
(***************************************************************************)
EXTENDS Transitions, Seating

CONSTANTS
  Conns,       \* connections of the pool: transactions that may be open at once
  Exams, Students, Questions,
  TextQs,      \* the written questions, marked by a person
  Seats,       \* workstations of the laboratory, at positions 1..Seats
  Keys,        \* idempotency keys a start request may carry, "none" included
  Duration,    \* the window's length, in clock ticks
  MaxTime,     \* bound: the clock stops here
  MaxClientSeq,\* bound: largest client_seq a client sends
  MaxEvents,   \* bound: no staff command starts once event_seq is this large
  Ops,         \* the operations requests are made for in this model
  draw_paper(_, _)  \* the questions a student draws from a paper (domain/paper.py)

ASSUME ConstantsAssumption ==
  /\ IsFiniteSet(Students)
  /\ TextQs \subseteq Questions
  /\ Seats \in Nat /\ Duration \in Nat \ {0} /\ MaxTime \in Nat \ {0}
  /\ MaxClientSeq \in Nat /\ MaxEvents \in Nat
  /\ "none" \in Keys

\* The draw depends on nothing but the session and the paper: the generator is
\* seeded with the session's id.
ASSUME DrawAssumption ==
  \A s \in Students, p \in SUBSET Questions :
     draw_paper(s, p) \in SUBSET p /\ (p # {} => draw_paper(s, p) # {})

VARIABLES
  now,      \* the server's clock, never 0: 0 stands for a NULL timestamp
  exam,     \* exams: the row of each examination
  roster,   \* exam_enrolments: the students enrolled on each
  paper,    \* exam_questions: the questions of each
  session,  \* exam_sessions: the row of each (examination, student)
  answer,   \* answers: the row of each (examination, student, question)
  result,   \* results: the row of each (examination, student)
  txn       \* what each connection has loaded, and for which request

vars == <<now, exam, roster, paper, session, answer, result, txn>>
db   == <<exam, roster, paper, session, answer, result>>

-----------------------------------------------------------------------------
(* Rows.  "NONE", "absent" and graded = FALSE are rows that do not exist.   *)

Time == 0..MaxTime

ExamRow == [status : ExamStatus \cup {"NONE"}, starts_at : Nat, ends_at : Nat,
            key : Keys, seq : Nat, published : BOOLEAN]

\* rid tells the submission ids of one session apart: 0 is NULL, and every id
\* issued for the session is a new number.
SessionRow == [status : SessionStatus \cup {"NONE"}, seat : 0..Seats,
               drawn : BOOLEAN, order : SUBSET Questions, started_at : Nat,
               submitted_at : Nat, mode : {"none", "MANUAL", "AUTO"}, rid : Nat]

\* A response that would score, one that would not; "empty" is the value {} of
\* a question that was flagged and never answered.
Values == {"right", "wrong"}
AnswerRow == [value : Values \cup {"absent", "empty"}, seq : -1..MaxClientSeq,
              flagged : BOOLEAN, award : {-1, 0, 1}]

\* Every question is worth one mark, so totals are sets of questions.
ResultRow == [graded : BOOLEAN, given : SUBSET Questions,
              available : SUBSET Questions, unmarked : SUBSET Questions]

NoExam == [status |-> "NONE", starts_at |-> 0, ends_at |-> 0, key |-> "none",
           seq |-> 0, published |-> FALSE]
NoSession == [status |-> "NONE", seat |-> 0, drawn |-> FALSE, order |-> {},
              started_at |-> 0, submitted_at |-> 0, mode |-> "none", rid |-> 0]
NoAnswer == [value |-> "absent", seq |-> -1, flagged |-> FALSE, award |-> -1]
NoResult == [graded |-> FALSE, given |-> {}, available |-> {}, unmarked |-> {}]

NoSessions == [e \in Exams |-> [s \in Students |-> NoSession]]
NoAnswers  == [e \in Exams |-> [s \in Students |-> [q \in Questions |-> NoAnswer]]]
NoResults  == [e \in Exams |-> [s \in Students |-> NoResult]]

-----------------------------------------------------------------------------
(* A transaction: the operation, the examinations and the student it is     *)
(* about, its arguments, and the rows it has loaded.                        *)

StaffOps == {"update_exam", "schedule_exam", "start_exam", "end_exam", "cancel_exam"}
CandidateOps == {"check_in", "save_answer", "toggle_flag", "submit"}
TxnOps == StaffOps \cup CandidateOps \cup {"award_marks", "sweep_once"}

NoArg == [q |-> "none", v |-> "empty", n |-> 0, key |-> "none",
          roster |-> {}, paper |-> {}, enrolled |-> <<>>,
          old_roster |-> {}, old_paper |-> {}]

Idle == [op |-> "idle", pc |-> "idle", es |-> {}, who |-> {}, arg |-> NoArg, at |-> 0,
         x |-> [e \in Exams |-> NoExam], paper |-> [e \in Exams |-> {}],
         ss |-> NoSessions, ans |-> NoAnswers, has |-> NoResults]

\* The rows of one table a SELECT returns: the others are not looked at.
Loaded(table, none, es, who) ==
  [e \in Exams |-> [s \in Students |-> IF e \in es /\ s \in who THEN table[e][s] ELSE none]]

\* What an UPDATE leaves in a column that now holds cur and was loaded as read,
\* when the handler has set it to new.
Write(cur, read, new) == IF new = read THEN cur ELSE new

Begin(c, t) == /\ t.op \in Ops
               /\ txn[c] = Idle
               /\ txn' = [txn EXCEPT ![c] = t]
               /\ UNCHANGED <<now, db>>

Load(c, t) == /\ txn[c].pc = "begun"
              /\ txn' = [txn EXCEPT ![c] = t]
              /\ UNCHANGED <<now, db>>

Committing(c, op) == /\ txn[c].op = op
                     /\ txn[c].pc = "loaded"
                     /\ txn' = [txn EXCEPT ![c] = Idle]
                     /\ UNCHANGED now

\* A request ends without a write.
rollback(c) == /\ txn[c] # Idle
               /\ txn' = [txn EXCEPT ![c] = Idle]
               /\ UNCHANGED <<now, db>>

-----------------------------------------------------------------------------
(* Grading: domain/paper.py score_paper, services/sessions.py grade.        *)

\* Marks given, marks available and answers still unmarked, over the drawn
\* questions that are still on the paper, or the whole paper when none was drawn.
score_paper(qs, order, ans) ==
  LET ids == IF order = {} THEN qs ELSE order \cap qs
  IN  [graded    |-> TRUE,
       given     |-> {q \in ids : IF q \in TextQs
                                    THEN ans[q].value \in Values /\ ans[q].award = 1
                                    ELSE ans[q].value = "right"},
       available |-> ids,
       unmarked  |-> {q \in ids \cap TextQs : ans[q].value \in Values /\ ans[q].award = -1}]

\* Faults for the mutation runs: the new row is never added to the session; an
\* existing row is left as it was.
GradedRow_not_added(cur, read, new) == cur
GradedRow_insert_only(cur, read, new) == IF cur.graded THEN cur ELSE new

\* The row grade leaves: an INSERT when it found none, an UPDATE otherwise.
GradedRow(cur, read, new) ==
  [graded    |-> TRUE,
   given     |-> Write(cur.given, read.given, new.given),
   available |-> Write(cur.available, read.available, new.available),
   unmarked  |-> Write(cur.unmarked, read.unmarked, new.unmarked)]

\* The database accepts it: no second INSERT for a session, and max_score > 0.
GradeAccepted(cur, read, new) == /\ cur.graded => read.graded
                                 /\ new.available # {}

-----------------------------------------------------------------------------
(* Staff commands: services/commands.py.                                    *)

\* create_exam reads nothing, so its transaction is one step.
create_exam(e, R, P) ==
  /\ "create_exam" \in Ops
  /\ exam[e].status = "NONE"
  /\ P # {}
  /\ exam' = [exam EXCEPT ![e].status = "DRAFT"]
  /\ roster' = [roster EXCEPT ![e] = R]
  /\ paper' = [paper EXCEPT ![e] = P]
  /\ UNCHANGED <<now, session, answer, result, txn>>

\* publish_results writes one column, whatever it has read.
publish_results(e, published) ==
  /\ "publish_results" \in Ops
  /\ exam[e].status # "NONE"
  /\ exam' = [exam EXCEPT ![e].published = published]
  /\ UNCHANGED <<now, roster, paper, session, answer, result, txn>>

StaffTxn(op, e, arg) ==
  [Idle EXCEPT !.op = op, !.pc = "begun", !.es = {e}, !.arg = arg, !.x[e] = exam[e]]

\* The SELECT of the examination's sessions, and the time stamped beside it.
LoadSessions(c) ==
  Load(c, [txn[c] EXCEPT !.pc = "loaded", !.at = now,
                         !.ss = Loaded(session, NoSession, txn[c].es, Students)])

\* A draft's roster and paper may be replaced.  Rs is {} when the request leaves
\* the roster alone and {R} when it replaces it by R, and so is Ps for the paper.
update_exam_begin(c, e, Rs, Ps) ==
  /\ exam[e].status = "DRAFT"
  /\ Begin(c, StaffTxn("update_exam", e, [NoArg EXCEPT !.roster = Rs, !.paper = Ps]))

\* The DELETE statements: they take the rows they see and no later ones.
update_exam_load(c) ==
  /\ txn[c].op = "update_exam"
  /\ \E e \in txn[c].es :
       Load(c, [txn[c] EXCEPT
                  !.pc = "loaded",
                  !.arg.old_roster = IF txn[c].arg.roster = {} THEN {} ELSE roster[e],
                  !.arg.old_paper = IF txn[c].arg.paper = {} THEN {} ELSE paper[e]])

\* What the DELETEs of an open update u still take once update t of the same
\* examination has committed: a row that t deleted is not u's, even where t put
\* an equal one in its place.
Overtaken(u, t) ==
  IF u.es # t.es THEN u
  ELSE [u EXCEPT !.arg.old_roster = @ \ t.arg.old_roster,
                 !.arg.old_paper = @ \ t.arg.old_paper]

\* The INSERTs go in beside whatever the DELETEs did not take, and fail on a row
\* whose key is already there.
update_exam_commit(c) ==
  LET t == txn[c]
      new_roster == UNION t.arg.roster
      new_paper  == UNION t.arg.paper
  IN  /\ t.op = "update_exam" /\ t.pc = "loaded"
      /\ \E e \in t.es :
           /\ (roster[e] \ t.arg.old_roster) \cap new_roster = {}  \* primary keys
           /\ (paper[e] \ t.arg.old_paper) \cap new_paper = {}
           /\ roster' = [roster EXCEPT ![e] = (@ \ t.arg.old_roster) \cup new_roster]
           /\ paper' = [paper EXCEPT ![e] = (@ \ t.arg.old_paper) \cup new_paper]
      /\ txn' = [d \in Conns |-> IF d = c THEN Idle ELSE Overtaken(txn[d], t)]
      /\ UNCHANGED <<now, exam, session, answer, result>>

schedule_exam_begin(c, e) ==
  /\ exam[e].status # "NONE"
  /\ can_exam_move(exam[e].status, "SCHEDULED")
  /\ exam[e].seq < MaxEvents
  /\ Begin(c, StaffTxn("schedule_exam", e, NoArg))

\* Enrolments are read in the order of enrolled_at, which is the same instant
\* for every row one request inserted: any order may come back.
Orders(S) == {f \in [1..Cardinality(S) -> S] : \A i, j \in DOMAIN f : f[i] = f[j] => i = j}

schedule_exam_load(c) ==
  /\ txn[c].op = "schedule_exam"
  /\ \E e \in txn[c].es :
       /\ roster[e] # {}
       /\ capacity_shortfall(Cardinality(roster[e]), Seats) = 0
       /\ \E order \in Orders(roster[e]) :
            Load(c, [txn[c] EXCEPT !.pc = "loaded", !.arg.enrolled = order,
                                   !.ss = Loaded(session, NoSession, {e}, Students)])

\* Fault: the index is missing.
UniqueComputers_dropped(rows) == TRUE

\* Two candidates cannot occupy one workstation in the same examination: the
\* unique index uq_exam_sessions_exam_computer.
UniqueComputers(rows) ==
  \A s, r \in Students : s # r /\ rows[s].seat # 0 => rows[s].seat # rows[r].seat

\* The row a scheduling leaves of an examination loaded as read.
Scheduled(cur, read) ==
  [cur EXCEPT !.status = Write(cur.status, read.status, "READY"), !.seq = read.seq + 1]

\* The seats handed to the enrolled students who have no session among those read.
NewSeats(enrolled, read) ==
  LET seated   == {s \in Students : read[s].status # "NONE"}
      occupied == {read[s].seat : s \in seated} \ {0}
  IN  allocate_seats(enrolled, 1..Seats, occupied, seated)

\* The sessions of an examination once those of the new seats are inserted.
WithSeats(rows, new) ==
  [s \in Students |->
     LET at == {i \in DOMAIN new : new[i].student = s}
     IN  IF at = {} THEN rows[s]
         ELSE [NoSession EXCEPT !.status = "NOT_STARTED",
                                !.seat = new[CHOOSE i \in at : TRUE].computer]]

\* A student who already has a session is refused by the unique constraint on
\* (exam_id, student_id), and the whole request with them.
schedule_exam_commit(c) ==
  /\ Committing(c, "schedule_exam")
  /\ \E e \in txn[c].es :
       LET t   == txn[c]
           new == NewSeats(t.arg.enrolled, t.ss[e])
       IN  /\ \A i \in DOMAIN new : session[e][new[i].student].status = "NONE"
           /\ session' = [session EXCEPT ![e] = WithSeats(@, new)]
           /\ UniqueComputers(session'[e])
           /\ exam' = [exam EXCEPT ![e] = Scheduled(@, t.x[e])]
  /\ UNCHANGED <<roster, paper, answer, result>>

\* Fault: the duration is taken from the start instead of added to it.
exam_window_reversed(at) == [starts_at |-> at, ends_at |-> IF at > Duration THEN at - Duration ELSE 0]

\* The authoritative window, stamped when the staff press start.
exam_window(at) == [starts_at |-> at, ends_at |-> at + Duration]

\* A request that finds the examination LIVE with its own key, or with no key,
\* returns the window it finds; with another key it is refused.
start_exam_begin(c, e, key) ==
  /\ exam[e].status # "NONE"
  /\ can_exam_move(exam[e].status, "LIVE")
  /\ exam[e].seq < MaxEvents
  /\ Begin(c, StaffTxn("start_exam", e, [NoArg EXCEPT !.key = key]))

start_exam_load(c) == /\ txn[c].op = "start_exam"
                      /\ now + Duration <= MaxTime
                      /\ LoadSessions(c)

\* The row the start leaves of the examination.
Started(cur, read, at, key) ==
  [cur EXCEPT !.status = "LIVE",
              !.starts_at = exam_window(at).starts_at, !.ends_at = exam_window(at).ends_at,
              !.key = Write(cur.key, read.key, key), !.seq = read.seq + 1]

\* The row the start leaves of a session loaded as read: everyone not yet
\* answering is released, present or not.
Released(cur, read, at) ==
  IF read.status \in {"NOT_STARTED", "WAITING", "READY"}
    THEN [cur EXCEPT !.status = "ACTIVE",
                     !.started_at = IF read.started_at = 0 THEN at ELSE @]
    ELSE cur

start_exam_commit(c) ==
  /\ Committing(c, "start_exam")
  /\ \E e \in txn[c].es :
       LET t == txn[c]
       IN  /\ exam' = [exam EXCEPT ![e] = Started(@, t.x[e], t.at, t.arg.key)]
           /\ session' = [session EXCEPT ![e] =
                [s \in Students |-> Released(@[s], t.ss[e][s], t.at)]]
  /\ UNCHANGED <<roster, paper, answer, result>>

end_exam_begin(c, e) ==
  /\ exam[e].status # "NONE"
  /\ can_exam_move(exam[e].status, "ENDING")
  /\ exam[e].seq < MaxEvents
  /\ Begin(c, StaffTxn("end_exam", e, NoArg))

end_exam_load(c) == txn[c].op = "end_exam" /\ LoadSessions(c)

\* Faults: a session already submitted is closed again; no submission id is
\* issued; a mode that does not exist is recorded.
ClosedEarly_everyone(cur, read, at) ==
  IF read.status \in {"ACTIVE", "SUBMITTED"}
    THEN [cur EXCEPT !.status = "AUTO_SUBMITTED", !.submitted_at = at, !.mode = "AUTO", !.rid = @ + 1]
    ELSE [cur EXCEPT !.status = IF read.status \in Terminal \cup {"NONE"} THEN @ ELSE "TERMINATED"]
ClosedEarly_no_id(cur, read, at) ==
  IF read.status = "ACTIVE"
    THEN [cur EXCEPT !.status = "AUTO_SUBMITTED", !.submitted_at = at, !.mode = "AUTO"]
    ELSE cur
ClosedEarly_mode(cur, read, at) ==
  IF read.status = "ACTIVE"
    THEN [cur EXCEPT !.status = "AUTO_SUBMITTED", !.submitted_at = at, !.mode = "EARLY", !.rid = @ + 1]
    ELSE cur

\* The row the close leaves of a session loaded as read.
ClosedEarly(cur, read, at) ==
  IF read.status = "ACTIVE"
    THEN [cur EXCEPT !.status = "AUTO_SUBMITTED", !.submitted_at = at,
                     !.mode = Write(@, read.mode, "AUTO"), !.rid = @ + 1]
  ELSE IF read.status \in {"NOT_STARTED", "WAITING", "READY"}
    THEN [cur EXCEPT !.status = "TERMINATED"]
  ELSE cur

\* The row an early close leaves of the examination: the deadline comes forward
\* to now, and never moves back.
Ended(cur, read, at) ==
  [cur EXCEPT !.status = "COMPLETED",
              !.ends_at = Write(cur.ends_at, read.ends_at, IF at < read.ends_at THEN at ELSE read.ends_at),
              !.seq = read.seq + 1]

end_exam_commit(c) ==
  /\ Committing(c, "end_exam")
  /\ \E e \in txn[c].es :
       LET t == txn[c]
       IN  /\ exam' = [exam EXCEPT ![e] = Ended(@, t.x[e], t.at)]
           /\ exam'[e].ends_at >= exam'[e].starts_at  \* window_moves_forward
           /\ session' = [session EXCEPT ![e] =
                [s \in Students |-> ClosedEarly(@[s], t.ss[e][s], t.at)]]
  /\ UNCHANGED <<roster, paper, answer, result>>

cancel_exam_begin(c, e) ==
  /\ exam[e].status # "NONE"
  /\ can_exam_move(exam[e].status, "CANCELLED")
  /\ exam[e].seq < MaxEvents
  /\ Begin(c, StaffTxn("cancel_exam", e, NoArg))

cancel_exam_load(c) == txn[c].op = "cancel_exam" /\ LoadSessions(c)

\* The row a cancellation leaves of a session loaded as read.
Cancelled(cur, read) ==
  IF read.status \in Terminal \cup {"NONE"} THEN cur ELSE [cur EXCEPT !.status = "TERMINATED"]

cancel_exam_commit(c) ==
  /\ Committing(c, "cancel_exam")
  /\ \E e \in txn[c].es :
       LET t == txn[c]
       IN  /\ exam' = [exam EXCEPT ![e] = [@ EXCEPT !.status = "CANCELLED", !.seq = t.x[e].seq + 1]]
           /\ session' = [session EXCEPT ![e] =
                [s \in Students |-> Cancelled(@[s], t.ss[e][s])]]
  /\ UNCHANGED <<roster, paper, answer, result>>

-----------------------------------------------------------------------------
(* The candidate's session: services/sessions.py.                           *)

\* _load_owned: the candidate's own session row.
CandidateTxn(op, e, s, arg) ==
  [Idle EXCEPT !.op = op, !.pc = "begun", !.es = {e}, !.who = {s}, !.arg = arg,
               !.ss = Loaded(session, NoSession, {e}, {s})]

\* No examination status is asked for: a candidate may check in at any time.
check_in_begin(c, e, s, machine) ==
  /\ session[e][s].status # "NONE"
  /\ Begin(c, CandidateTxn("check_in", e, s, [NoArg EXCEPT !.n = machine]))

check_in_load(c) ==
  /\ txn[c].op = "check_in"
  /\ \E e \in txn[c].es :
       Load(c, [txn[c] EXCEPT !.pc = "loaded", !.paper[e] = paper[e]])

\* Fault: checking in again always goes back through the waiting room.
CheckedIn_again(cur, read, machine) ==
  IF read \in Terminal THEN cur ELSE IF machine = 1 THEN "READY" ELSE "WAITING"

\* Waiting until the machine is confirmed, ready once it is; a candidate who was
\* already past NOT_STARTED is left where they are.
CheckedIn(cur, read, machine) ==
  IF read # "NOT_STARTED" THEN cur ELSE IF machine = 1 THEN "READY" ELSE "WAITING"

\* The row a check-in leaves: the paper is drawn on the first one.
Entered(cur, read, draw, machine) ==
  [cur EXCEPT !.drawn  = TRUE,
              !.order  = IF read.drawn THEN cur.order ELSE draw,
              !.status = CheckedIn(cur.status, read.status, machine)]

check_in_commit(c) ==
  /\ Committing(c, "check_in")
  /\ \E e \in txn[c].es, s \in txn[c].who :
       LET t == txn[c]
       IN  session' = [session EXCEPT ![e][s] =
             Entered(@, t.ss[e][s], draw_paper(s, t.paper[e]), t.arg.n)]
  /\ UNCHANGED <<exam, roster, paper, answer, result>>

\* _assert_writable, on the session loaded first and the examination loaded now.
Writable(e, read) ==
  /\ exam[e].status # "NONE"
  /\ accepts_candidate_writes(exam[e].status, read.status)
  /\ ~(exam[e].ends_at # 0 /\ now > exam[e].ends_at)

\* A request on a session that takes no writes when it is loaded is refused,
\* whatever the examination's status: it never begins here.
save_answer_begin(c, e, s, q, v, n) ==
  /\ accepts_candidate_writes("LIVE", session[e][s].status)
  /\ Begin(c, CandidateTxn("save_answer", e, s, [NoArg EXCEPT !.q = q, !.v = v, !.n = n]))

toggle_flag_begin(c, e, s, q) ==
  /\ accepts_candidate_writes("LIVE", session[e][s].status)
  /\ Begin(c, CandidateTxn("toggle_flag", e, s, [NoArg EXCEPT !.q = q]))

\* The answer row, when the session is still writable.
LoadAnswer(c, e, s) ==
  /\ Writable(e, txn[c].ss[e][s])
  /\ Load(c, [txn[c] EXCEPT !.pc = "loaded",
                            !.ans[e][s][txn[c].arg.q] = answer[e][s][txn[c].arg.q]])

\* A write that arrives out of order is answered accepted = FALSE; a client_seq
\* of 0 is never out of order.
OutOfOrder(client_seq, stored) == client_seq # 0 /\ client_seq <= stored

save_answer_load(c) ==
  /\ txn[c].op = "save_answer"
  /\ \E e \in txn[c].es, s \in txn[c].who :
       /\ ~OutOfOrder(txn[c].arg.n, answer[e][s][txn[c].arg.q].seq)
       /\ LoadAnswer(c, e, s)

\* The row a save leaves of an answer loaded as read.
Saved(cur, read, value, client_seq) ==
  [cur EXCEPT !.value = Write(cur.value, read.value, value),
              !.seq = Write(cur.seq, read.seq, client_seq)]

save_answer_commit(c) ==
  /\ Committing(c, "save_answer")
  /\ \E e \in txn[c].es, s \in txn[c].who :
       LET q    == txn[c].arg.q
           read == txn[c].ans[e][s][q]
       IN  /\ read.value = "absent" => answer[e][s][q].value = "absent"  \* primary key
           /\ answer' = [answer EXCEPT ![e][s][q] = Saved(@, read, txn[c].arg.v, txn[c].arg.n)]
  /\ UNCHANGED <<exam, roster, paper, session, result>>

toggle_flag_load(c) ==
  /\ txn[c].op = "toggle_flag"
  /\ \E e \in txn[c].es, s \in txn[c].who : LoadAnswer(c, e, s)

\* The row a flag leaves: a new one has no response.
Flagged(cur, read) ==
  IF read.value = "absent"
    THEN [NoAnswer EXCEPT !.value = "empty", !.seq = 0, !.flagged = TRUE]
    ELSE [cur EXCEPT !.flagged = ~read.flagged]

toggle_flag_commit(c) ==
  /\ Committing(c, "toggle_flag")
  /\ \E e \in txn[c].es, s \in txn[c].who :
       LET q    == txn[c].arg.q
           read == txn[c].ans[e][s][q]
       IN  /\ read.value = "absent" => answer[e][s][q].value = "absent"  \* primary key
           /\ answer' = [answer EXCEPT ![e][s][q] = Flagged(@, read)]
  /\ UNCHANGED <<exam, roster, paper, session, result>>

\* What grade reads of the examinations es: answers, papers, results.
GradeInputs(t, es, who) ==
  [t EXCEPT !.paper = [e \in Exams |-> IF e \in es THEN paper[e] ELSE {}],
            !.ans = [e \in Exams |-> [s \in Students |-> [q \in Questions |->
                       IF e \in es /\ s \in who /\ t.ans[e][s][q] = NoAnswer
                         THEN answer[e][s][q] ELSE t.ans[e][s][q]]]],
            !.has = Loaded(result, NoResult, es, who)]

\* A session that has its receipt is given it again, and nothing changes.
submit_begin(c, e, s) ==
  /\ accepts_candidate_writes("LIVE", session[e][s].status)
  /\ session[e][s].submitted_at = 0 \/ session[e][s].rid = 0
  /\ Begin(c, CandidateTxn("submit", e, s, NoArg))

submit_load(c) ==
  /\ txn[c].op = "submit"
  /\ \E e \in txn[c].es, s \in txn[c].who :
       /\ Writable(e, txn[c].ss[e][s])
       /\ Load(c, [GradeInputs(txn[c], {e}, {s}) EXCEPT !.pc = "loaded", !.at = now])

\* The row a submission leaves.
HandedIn(cur, read, at) ==
  [cur EXCEPT !.status = "SUBMITTED", !.submitted_at = at,
              !.mode = Write(@, read.mode, "MANUAL"), !.rid = @ + 1]

submit_commit(c) ==
  /\ Committing(c, "submit")
  /\ \E e \in txn[c].es, s \in txn[c].who :
       LET t   == txn[c]
           new == score_paper(t.paper[e], t.ss[e][s].order, t.ans[e][s])
       IN  /\ GradeAccepted(result[e][s], t.has[e][s], new)
           /\ result' = [result EXCEPT ![e][s] = GradedRow(@, t.has[e][s], new)]
           /\ session' = [session EXCEPT ![e][s] = HandedIn(@, t.ss[e][s], t.at)]
  /\ UNCHANGED <<exam, roster, paper, answer>>

\* A marker gives a written answer its marks, and the paper is graded again.
award_marks_begin(c, e, s, q, marks) ==
  /\ answer[e][s][q].value # "absent"
  /\ q \in TextQs
  /\ Begin(c, [Idle EXCEPT !.op = "award_marks", !.pc = "begun", !.es = {e}, !.who = {s},
                           !.arg = [NoArg EXCEPT !.q = q, !.n = marks],
                           !.ans[e][s][q] = answer[e][s][q]])

award_marks_load(c) ==
  /\ txn[c].op = "award_marks"
  /\ \E e \in txn[c].es, s \in txn[c].who :
       /\ txn[c].arg.q \in paper[e]
       /\ Load(c, [GradeInputs(txn[c], {e}, {s}) EXCEPT
                     !.pc = "loaded", !.ss = Loaded(session, NoSession, {e}, {s})])

\* The row a marker leaves of an answer loaded as read.
Awarded(cur, read, marks) == [cur EXCEPT !.award = Write(cur.award, read.award, marks)]

award_marks_commit(c) ==
  /\ Committing(c, "award_marks")
  /\ \E e \in txn[c].es, s \in txn[c].who :
       LET t   == txn[c]
           q   == t.arg.q
           new == score_paper(t.paper[e], t.ss[e][s].order,
                              [t.ans[e][s] EXCEPT ![q].award = t.arg.n])
       IN  /\ GradeAccepted(result[e][s], t.has[e][s], new)
           /\ answer' = [answer EXCEPT ![e][s][q] = Awarded(@, t.ans[e][s][q], t.arg.n)]
           /\ result' = [result EXCEPT ![e][s] = GradedRow(@, t.has[e][s], new)]
  /\ UNCHANGED <<exam, roster, paper, session>>

-----------------------------------------------------------------------------
(* The deadline sweep: services/sweep.py.  One transaction for every        *)
(* examination whose deadline has passed.                                   *)

\* Faults: the status is not looked at; only ENDING is looked for.
Expired_any_status == {e \in Exams : exam[e].ends_at # 0 /\ exam[e].ends_at <= now
                                     /\ exam[e].status # "COMPLETED"}
Expired_ending_only == {e \in Exams : exam[e].status = "ENDING" /\ exam[e].ends_at <= now}

Expired == {e \in Exams : exam[e].status \in {"LIVE", "ENDING"}
                          /\ exam[e].ends_at # 0 /\ exam[e].ends_at <= now}

sweep_once_begin(c) ==
  /\ Expired # {}
  /\ Begin(c, [Idle EXCEPT !.op = "sweep_once", !.pc = "begun", !.es = Expired, !.at = now,
                           !.x = [e \in Exams |-> IF e \in Expired THEN exam[e] ELSE NoExam]])

sweep_once_load(c) ==
  /\ txn[c].op = "sweep_once"
  /\ Load(c, [GradeInputs(txn[c], txn[c].es, Students) EXCEPT
                !.pc = "loaded", !.ss = Loaded(session, NoSession, txn[c].es, Students)])

\* The row the sweep leaves of a session loaded as read.
Swept(cur, read, at) ==
  IF read.status \in SWEEPABLE_TO_AUTO_SUBMIT
    THEN [cur EXCEPT !.status = "AUTO_SUBMITTED",
                     !.submitted_at = IF read.submitted_at = 0 THEN at ELSE @,
                     !.mode = Write(@, read.mode, "AUTO"),
                     !.rid = IF read.rid = 0 THEN @ + 1 ELSE @]
  ELSE IF read.status \in SWEEPABLE_TO_TERMINATED
    THEN [cur EXCEPT !.status = "TERMINATED"]
  ELSE cur

sweep_once_commit(c) ==
  /\ Committing(c, "sweep_once")
  /\ LET t == txn[c]
         Graded(e, s) == e \in t.es /\ t.ss[e][s].status \in SWEEPABLE_TO_AUTO_SUBMIT
         New(e, s)    == score_paper(t.paper[e], t.ss[e][s].order, t.ans[e][s])
     IN  /\ \A e \in t.es, s \in Students :
              Graded(e, s) => GradeAccepted(result[e][s], t.has[e][s], New(e, s))
         /\ result' = [e \in Exams |-> [s \in Students |->
              IF Graded(e, s) THEN GradedRow(result[e][s], t.has[e][s], New(e, s))
                              ELSE result[e][s]]]
         /\ session' = [e \in Exams |-> [s \in Students |->
              IF e \in t.es THEN Swept(session[e][s], t.ss[e][s], t.at) ELSE session[e][s]]]
         /\ exam' = [e \in Exams |->
              IF e \in t.es THEN [exam[e] EXCEPT !.status = "COMPLETED", !.seq = t.x[e].seq + 1]
                            ELSE exam[e]]
  /\ UNCHANGED <<roster, paper, answer>>

-----------------------------------------------------------------------------
Tick == now < MaxTime /\ now' = now + 1 /\ UNCHANGED <<db, txn>>

Init == /\ now = 1
        /\ exam = [e \in Exams |-> NoExam]
        /\ roster = [e \in Exams |-> {}]
        /\ paper = [e \in Exams |-> {}]
        /\ session = NoSessions
        /\ answer = NoAnswers
        /\ result = NoResults
        /\ txn = [c \in Conns |-> Idle]

AtMostOne(S) == {{}} \cup {{x} : x \in S}

StaffBegin(c, e) ==
  \/ \E Rs \in AtMostOne(SUBSET Students), Ps \in AtMostOne(SUBSET Questions) :
       update_exam_begin(c, e, Rs, Ps)
  \/ schedule_exam_begin(c, e)
  \/ \E key \in Keys : start_exam_begin(c, e, key)
  \/ end_exam_begin(c, e)
  \/ cancel_exam_begin(c, e)

CandidateBegin(c, e, s) ==
  \/ \E machine \in {0, 1} : check_in_begin(c, e, s, machine)
  \/ \E q \in Questions, v \in Values, n \in 0..MaxClientSeq : save_answer_begin(c, e, s, q, v, n)
  \/ \E q \in Questions : toggle_flag_begin(c, e, s, q)
  \/ submit_begin(c, e, s)
  \/ \E q \in TextQs, marks \in {0, 1} : award_marks_begin(c, e, s, q, marks)

LoadStep(c) ==
  \/ update_exam_load(c) \/ schedule_exam_load(c) \/ start_exam_load(c) \/ end_exam_load(c) \/ cancel_exam_load(c)
  \/ check_in_load(c) \/ save_answer_load(c) \/ toggle_flag_load(c) \/ submit_load(c)
  \/ award_marks_load(c) \/ sweep_once_load(c)

CommitStep(c) ==
  \/ update_exam_commit(c) \/ schedule_exam_commit(c) \/ start_exam_commit(c)
  \/ end_exam_commit(c) \/ cancel_exam_commit(c) \/ check_in_commit(c)
  \/ save_answer_commit(c) \/ toggle_flag_commit(c) \/ submit_commit(c)
  \/ award_marks_commit(c) \/ sweep_once_commit(c)

Next ==
  \/ Tick
  \/ \E e \in Exams :
       \/ \E R \in SUBSET Students, P \in SUBSET Questions : create_exam(e, R, P)
       \/ \E published \in BOOLEAN : publish_results(e, published)
  \/ \E c \in Conns :
       \/ \E e \in Exams : StaffBegin(c, e) \/ \E s \in Students : CandidateBegin(c, e, s)
       \/ sweep_once_begin(c)
       \/ LoadStep(c) \/ CommitStep(c) \/ rollback(c)

Spec == Init /\ [][Next]_vars
==============================================================================

------------------------------ MODULE ExamSafety ------------------------------
(***************************************************************************)
(* What the examination backend promises, over the states and the steps of *)
(* ExamLifecycle.  The first group is kept by every interleaving of        *)
(* transactions; the second is what the code's own documentation claims,   *)
(* which holds when transactions do not overlap and, for some of it, not   *)
(* otherwise.                                                              *)
(***************************************************************************)
EXTENDS ExamLifecycle

Arg == [q : Questions \cup {"none"}, v : Values \cup {"empty"}, n : Nat, key : Keys,
        roster : SUBSET SUBSET Students, paper : SUBSET SUBSET Questions,
        enrolled : Seq(Students), old_roster : SUBSET Students, old_paper : SUBSET Questions]

Txn == [op : TxnOps \cup {"idle"}, pc : {"idle", "begun", "loaded"},
        es : SUBSET Exams, who : SUBSET Students, arg : Arg, at : Nat,
        x : [Exams -> ExamRow], paper : [Exams -> SUBSET Questions],
        ss : [Exams -> [Students -> SessionRow]],
        ans : [Exams -> [Students -> [Questions -> AnswerRow]]],
        has : [Exams -> [Students -> ResultRow]]]

\* Every row and every loaded copy of a row has its columns' types.
TypeOK == /\ now \in Time \ {0}
          /\ exam \in [Exams -> ExamRow]
          /\ roster \in [Exams -> SUBSET Students]
          /\ paper \in [Exams -> SUBSET Questions]
          /\ session \in [Exams -> [Students -> SessionRow]]
          /\ answer \in [Exams -> [Students -> [Questions -> AnswerRow]]]
          /\ result \in [Exams -> [Students -> ResultRow]]
          /\ txn \in [Conns -> Txn]

-----------------------------------------------------------------------------
(* Kept by every interleaving.                                              *)

\* A submitted session carries a complete receipt: when, how, and under which
\* submission id.  The database's submitted_session_has_receipt constraint asks
\* only for the first two; the receipt endpoint returns all three.
ReceiptComplete ==
  \A e \in Exams, s \in Students :
    session[e][s].status \in Submitted =>
      session[e][s].submitted_at # 0 /\ session[e][s].mode # "none" /\ session[e][s].rid # 0

\* A LIVE or COMPLETED examination has a window that moves forward, whatever
\* race brought it there: end_exam and the sweep never invent one.
WindowCoherent ==
  \A e \in Exams :
    exam[e].status \in {"LIVE", "COMPLETED"} =>
      0 < exam[e].starts_at /\ exam[e].starts_at <= exam[e].ends_at

\* No two candidates of an examination share a workstation, even when two
\* schedule requests seat different rosters at the same time.
NoSharedWorkstation ==
  \A e \in Exams, s, r \in Students :
    s # r /\ session[e][s].seat # 0 => session[e][s].seat # session[e][r].seat

\* A paper the candidate submitted has a result, however submissions, sweeps,
\* early closes and markers overlap.
ManualSubmissionGraded ==
  \A e \in Exams, s \in Students :
    session[e][s].status = "SUBMITTED" => result[e][s].graded

\* Nothing is recorded for a candidate before the examination released them: an
\* answer row belongs to a session that was started.
AnswersOnlyAfterRelease ==
  \A e \in Exams, s \in Students, q \in Questions :
    answer[e][s][q].value # "absent" => session[e][s].started_at # 0

-----------------------------------------------------------------------------
(* Claims of the documentation.                                             *)

Moved(old, new) == old # new

\* Every change of an examination's status is a path of EXAM_TRANSITIONS, through
\* the SCHEDULED or ENDING that one command passes within its transaction.
ExamMovesLegal ==
  [][\A e \in Exams :
       LET old == exam[e].status
           new == exam'[e].status
       IN  old # "NONE" /\ Moved(old, new) =>
             \/ can_exam_move(old, new)
             \/ \E mid \in {"SCHEDULED", "ENDING"} :
                  can_exam_move(old, mid) /\ can_exam_move(mid, new)]_vars

\* SESSION_TRANSITIONS leads from old to new, in at most three moves: the start
\* takes a candidate past the waiting room, and a check-in may skip WAITING.
Follows(old, new) ==
  \E m, n \in SessionStatus :
    /\ m = old \/ can_session_move(old, m)
    /\ n = m \/ can_session_move(m, n)
    /\ new = n \/ can_session_move(n, new)

\* A session only moves the way SESSION_TRANSITIONS points, and a terminal status
\* is final: checking in again must not send a released candidate back to the
\* waiting room, and no close may reopen or relabel a paper handed in.
SessionNeverBackwards ==
  [][\A e \in Exams, s \in Students :
       LET old == session[e][s].status
           new == session'[e][s].status
       IN  old # "NONE" /\ Moved(old, new) => Follows(old, new)]_vars

\* What is stamped once stays.  starts_at is set by one start, and ends_at only
\* ever comes forward (an early close): a repeated start cannot move the
\* deadline under a room that is writing.  Once issued, a receipt is the receipt:
\* no later close, sweep or submission changes its id, its time or its mode.
StampedOnce ==
  [][\A e \in Exams :
       /\ exam[e].starts_at # 0 =>
            /\ exam'[e].starts_at = exam[e].starts_at
            /\ exam'[e].ends_at <= exam[e].ends_at
       /\ \A s \in Students : session[e][s].rid # 0 =>
            /\ session'[e][s].rid = session[e][s].rid
            /\ session'[e][s].submitted_at = session[e][s].submitted_at
            /\ session'[e][s].mode = session[e][s].mode]_vars

\* The responses of a session in a terminal status are frozen.
AnswersFrozen ==
  [][\A e \in Exams, s \in Students, q \in Questions :
       session[e][s].status \in Terminal =>
         answer'[e][s][q].value = answer[e][s][q].value]_vars

\* From READY on, the sessions are exactly the roster, however often a draft was
\* edited and an examination scheduled again: every enrolled candidate has one,
\* with a workstation, and nobody else does.
RosterSeated ==
  \A e \in Exams :
    exam[e].status \in {"READY", "LIVE", "COMPLETED"} =>
      /\ {s \in Students : session[e][s].status # "NONE"} = roster[e]
      /\ \A s \in roster[e] : session[e][s].seat # 0

\* The stored result of a submitted paper is the score of the answers and awards
\* as they now stand: a marker never leaves a stale total.
ResultCurrent ==
  \A e \in Exams, s \in Students :
    session[e][s].status \in Submitted /\ result[e][s].graded =>
      result[e][s] = score_paper(paper[e], session[e][s].order, answer[e][s])

\* When an examination is over, every paper that was handed in has a result.
GradedWhenClosed ==
  \A e \in Exams, s \in Students :
    exam[e].status = "COMPLETED" /\ session[e][s].status \in Submitted => result[e][s].graded

\* Nobody is left sitting: when an examination is over no session is open.
NobodyLeftOpen ==
  \A e \in Exams, s \in Students :
    exam[e].status \in {"COMPLETED", "CANCELLED"} =>
      session[e][s].status \in Terminal \cup {"NONE"}

-----------------------------------------------------------------------------
(* Progress.  A request that holds a connection finishes or is dropped; the *)
(* clock runs; and the sweep, which the loop retries every ten seconds, is  *)
(* not hit by a failure on every pass.                                      *)

Finish(c) == LoadStep(c) \/ CommitStep(c) \/ rollback(c)

Fairness == /\ WF_vars(Tick)
            /\ \A c \in Conns : WF_vars(Finish(c))
            /\ \A c \in Conns : SF_vars(sweep_once_begin(c))
            /\ \A c \in Conns : SF_vars(sweep_once_load(c))
            /\ \A c \in Conns : SF_vars(sweep_once_commit(c))

FairSpec == Spec /\ Fairness

\* An examination that goes live is eventually over, with nobody's help.
LiveExamCloses ==
  \A e \in Exams : exam[e].status = "LIVE" ~> exam[e].status \in {"COMPLETED", "CANCELLED"}

\* One examination that cannot be closed does not keep the others open: an
\* examination with a paper is eventually over, whatever the rest are like.
HealthyExamCloses ==
  \A e \in Exams : exam[e].status = "LIVE" /\ paper[e] # {}
                     ~> exam[e].status \in {"COMPLETED", "CANCELLED"}

==============================================================================

----------------------------- MODULE Transitions -----------------------------
(***************************************************************************)
(* The two state machines of backend/app/domain/transitions.py: the        *)
(* adjacency table of an examination, the adjacency table of one           *)
(* candidate's session, and the predicates the services ask of them.       *)
(***************************************************************************)

ExamStatus == {"DRAFT", "SCHEDULED", "READY", "LIVE", "ENDING", "COMPLETED", "CANCELLED"}

SessionStatus == {"NOT_STARTED", "WAITING", "READY", "ACTIVE",
                  "SUBMITTED", "AUTO_SUBMITTED", "TERMINATED"}

EXAM_TRANSITIONS ==
  [DRAFT     |-> {"SCHEDULED", "CANCELLED"},
   SCHEDULED |-> {"READY", "DRAFT", "CANCELLED"},
   READY     |-> {"LIVE", "SCHEDULED", "CANCELLED"},
   LIVE      |-> {"ENDING", "CANCELLED"},
   ENDING    |-> {"COMPLETED"},
   COMPLETED |-> {},
   CANCELLED |-> {}]

SESSION_TRANSITIONS ==
  [NOT_STARTED    |-> {"WAITING", "TERMINATED"},
   WAITING        |-> {"READY", "TERMINATED"},
   READY          |-> {"ACTIVE", "WAITING", "TERMINATED"},
   ACTIVE         |-> {"SUBMITTED", "AUTO_SUBMITTED", "TERMINATED"},
   SUBMITTED      |-> {},
   AUTO_SUBMITTED |-> {},
   TERMINATED     |-> {}]

can_exam_move(current, requested) == requested \in EXAM_TRANSITIONS[current]

can_session_move(current, requested) == requested \in SESSION_TRANSITIONS[current]

\* Faults for the mutation runs: only the examination is asked; a candidate in
\* the waiting room may already write.
accepts_candidate_writes_exam_axis(exam, session) == exam = "LIVE" /\ session # "NONE"
accepts_candidate_writes_early(exam, session) ==
  exam \in {"READY", "LIVE"} /\ session \in {"READY", "ACTIVE"}

accepts_candidate_writes(exam, session) == exam = "LIVE" /\ session = "ACTIVE"

\* Fault: released candidates are overlooked.
SWEEPABLE_none == {}

\* The statuses the deadline sweep auto-submits, and those it terminates.
SWEEPABLE_TO_AUTO_SUBMIT == {"ACTIVE"}
SWEEPABLE_TO_TERMINATED  == {"NOT_STARTED", "WAITING", "READY"}

\* Statuses a session never leaves, according to the table.
Terminal == {"SUBMITTED", "AUTO_SUBMITTED", "TERMINATED"}
Submitted == {"SUBMITTED", "AUTO_SUBMITTED"}
==============================================================================

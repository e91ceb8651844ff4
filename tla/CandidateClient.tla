-------------------------- MODULE CandidateClient --------------------------
(***************************************************************************)
(* One candidate's page over one examination: the waiting room, the paper, *)
(* saves and flags in flight, the timer, the submission and its receipt.   *)
(*                                                                         *)
(* src/frontend/components/student-screens.tsx, exam.tsx, lib/exam-timer   *)
(* .ts, lib/api/live.ts and http.ts (loadCandidateState), over the save,   *)
(* flag, submit and check-in handlers of services/sessions.py. What other  *)
(* handlers do to the session is in ExamLifecycle; here they are atomic.   *)
(***************************************************************************)
EXTENDS Naturals

CONSTANTS
  Last,        \* number of questions on the paper
  CodeQs,      \* coding questions: the editor keeps a draft of its own
  MaxOps,      \* bound: saves, flags and submissions the candidate makes
  MaxReloads   \* bound: reloads of the page

ASSUME PaperAssumption == Last \in Nat \ {0} /\ CodeQs \subseteq 1..Last
                          /\ MaxOps \in Nat /\ MaxReloads \in Nat

Questions == 1..Last
Ops       == 1..MaxOps

\* Call 0 is the provider's load.
Calls == 0..MaxOps

\* An answer is the set of the candidate's edits that went into it.
Values == SUBSET Ops

VARIABLES
  sequential,               \* the negation of config.allowNavigation
  exam, session, late,      \* the server: status of both, deadline over
  stored,                   \* answers: the row of each question
  calls,                    \* requests, and what became of them
  ops, reloads,
  store,                    \* the snapshot the screens read
  seqs,                     \* live.ts: numbers given to saves by this page
  route, current, draft,
  fired,                    \* the expiry guard of the timer on screen
  acked,                    \* history: newest edit of each question reported saved
  strayed,                  \* history: questions whose flag may have changed unseen
  overlapped                \* history: two writes of one row, or of a closing session, overlapped

server == <<sequential, exam, session, late, stored>>
screen == <<store, route, current, draft, fired>>
vars   == <<server, calls, ops, reloads, screen, seqs, acked, strayed, overlapped>>

NoAnswer == [exists |-> FALSE, value |-> {}, seq |-> 0, flagged |-> FALSE]

Blank == [q \in Questions |-> {}]

\* emptyState.
EmptyStore == [test |-> "none", session |-> FALSE, answers |-> Blank, flags |-> {},
               receipt |-> "none", final |-> Blank]

NoCall == [op |-> "none", stage |-> "none", q |-> 1, value |-> {}, seq |-> 0,
           fresh |-> FALSE, was |-> FALSE, page |-> 0, exam |-> "none", session |-> "none"]

Terminal == {"SUBMITTED", "AUTO_SUBMITTED"}

(***************************************************************************)
(* The server.                                                             *)
(***************************************************************************)

start_exam ==
  /\ exam = "SCHEDULED"
  /\ exam' = "LIVE" /\ session' = "ACTIVE"
  /\ UNCHANGED <<sequential, late, stored, calls, ops, reloads, screen, seqs, acked, strayed, overlapped>>

DeadlinePasses ==
  /\ exam = "LIVE" /\ ~late /\ late' = TRUE
  /\ UNCHANGED <<sequential, exam, session, stored, calls, ops, reloads, screen, seqs, acked, strayed, overlapped>>

InTransaction == {i \in Calls : calls[i].stage = "loaded"}

\* The sweep or the invigilator closes the examination.
close_exam ==
  /\ exam = "LIVE" /\ exam' = "COMPLETED"
  /\ session' = IF session = "ACTIVE" THEN "AUTO_SUBMITTED" ELSE session
  /\ overlapped' = (overlapped \/ InTransaction # {})
  /\ UNCHANGED <<sequential, late, stored, calls, ops, reloads, screen, seqs, acked, strayed>>

\* _assert_writable.
Writable == exam = "LIVE" /\ session = "ACTIVE" /\ ~late

\* A request the server answers. Nobody hears the answer when its page is gone.
Replied(c) == IF c.page = reloads
              THEN [c EXCEPT !.stage = "answered", !.fresh = FALSE, !.was = FALSE] ELSE NoCall

\* The row is loaded without a lock.
Loaded(c) == [c EXCEPT !.stage = "loaded", !.fresh = ~stored[c.q].exists, !.was = stored[c.q].flagged]

\* Variant: a stale write is not told from a new one.
save_answer_any(c) == IF ~Writable THEN NoCall ELSE Loaded(c)

\* A refusal becomes a toast and changes nothing. A number not above the
\* stored one means that the write is discarded, with a 200 that says so.
save_answer(c) ==
  IF ~Writable THEN NoCall
  ELSE IF stored[c.q].exists /\ c.seq <= stored[c.q].seq THEN Replied(c)
  ELSE Loaded(c)

toggle_flag(c) == IF ~Writable THEN NoCall ELSE Loaded(c)

\* A repeat returns the receipt.
submit(c) ==
  IF session \in Terminal THEN Replied(c)
  ELSE IF ~Writable THEN NoCall
  ELSE Loaded(c)

Arrives(i) ==
  LET c == calls[i] IN
  /\ c.stage = "sent"
  /\ \/ c.op = "save"   /\ calls' = [calls EXCEPT ![i] = save_answer(c)]
     \/ c.op = "flag"   /\ calls' = [calls EXCEPT ![i] = toggle_flag(c)]
     \/ c.op = "submit" /\ calls' = [calls EXCEPT ![i] = submit(c)]
  /\ UNCHANGED <<server, ops, reloads, screen, seqs, acked, strayed, overlapped>>

\* Whether the transactions of calls i and j touch each other.
Overlap(i, j) == calls[i].op = "submit" \/ calls[j].op = "submit" \/ calls[i].q = calls[j].q

\* The commit. Two that both found no row insert it twice, and the second
\* fails on the primary key.
Commits(i) ==
  LET c == calls[i]
      clash == c.op # "submit" /\ c.fresh /\ stored[c.q].exists IN
  /\ c.stage = "loaded"
  /\ calls' = [calls EXCEPT ![i] = IF clash THEN NoCall ELSE Replied(c)]
  /\ overlapped' = (overlapped \/ \E j \in InTransaction \ {i} : Overlap(i, j))
  /\ \/ /\ clash \/ c.op = "submit"
        /\ UNCHANGED stored
     \/ /\ ~clash /\ c.op = "save"
        /\ stored' = [stored EXCEPT ![c.q] =
                        [@ EXCEPT !.exists = TRUE, !.value = c.value, !.seq = c.seq]]
     \/ /\ ~clash /\ c.op = "flag"
        /\ stored' = [stored EXCEPT ![c.q] =
                        [@ EXCEPT !.exists = TRUE, !.flagged = ~c.was]]
  /\ session' = IF c.op = "submit" THEN "SUBMITTED" ELSE session
  /\ UNCHANGED <<sequential, exam, late, ops, reloads, screen, seqs, acked, strayed>>

(***************************************************************************)
(* The network: a request that never arrives, an answer that gets lost.    *)
(***************************************************************************)

Mine(i) == calls[i].page = reloads

Fails(i) ==
  LET c == calls[i] IN
  /\ c.stage \in {"sent", "loaded", "answered", "list", "state"}
  /\ c.op \in {"save", "flag", "submit"}
  /\ calls' = [calls EXCEPT ![i] = NoCall]
  /\ strayed' = IF c.op = "flag" /\ c.stage = "answered" THEN strayed \cup {c.q} ELSE strayed
  /\ UNCHANGED <<server, ops, reloads, screen, seqs, acked, overlapped>>

(***************************************************************************)
(* The screens.                                                            *)
(***************************************************************************)

Ready == calls[0].stage = "ready"

\* A test that is live and not submitted.
LiveIn(s) == s.test = "live" /\ s.receipt = "none"

\* StudentExamScreen shows the paper.
Sitting == Ready /\ route = "exam" /\ LiveIn(store)

\* CodeAnswer mounts with the saved answer; the other controls have no state.
Draft(s, q) == IF q \in CodeQs THEN s.answers[q] ELSE {}

\* The screen of a route, freshly mounted over snapshot s.
Mount(r, s) ==
  /\ route' = r /\ current' = 1 /\ fired' = FALSE
  /\ draft' = IF r = "exam" THEN Draft(s, 1) ELSE {}

\* Links of the portal, the waiting room, the closed gate and the receipt.
Follow(r) ==
  /\ Ready /\ route # r
  /\ \/ route = "portal" /\ r = "exam" /\ LiveIn(store)
     \/ route = "portal" /\ r = "waiting" /\ store.test = "scheduled"
     \/ route = "portal" /\ r = "submitted" /\ store.receipt # "none"
     \/ route \in {"waiting", "submitted"} /\ r = "portal"
     \/ route = "exam" /\ r = "submitted" /\ store.receipt # "none"
     \/ route = "exam" /\ r = "waiting" /\ store.test # "live"
  /\ Mount(r, store)
  /\ UNCHANGED <<server, calls, ops, reloads, store, seqs, acked, strayed, overlapped>>

\* The waiting room's effect. It reads the snapshot, which nothing refreshes.
Release ==
  /\ Ready /\ route = "waiting" /\ LiveIn(store)
  /\ Mount("exam", store)
  /\ UNCHANGED <<server, calls, ops, reloads, store, seqs, acked, strayed, overlapped>>

\* Variant: the palette of a sequential examination is not locked.
QuestionPalette_open(q) ==
  /\ Sitting /\ q # current
  /\ current' = q /\ draft' = Draft(store, q)
  /\ UNCHANGED <<server, calls, ops, reloads, store, route, fired, seqs, acked, strayed, overlapped>>

QuestionPalette(q) ==
  /\ Sitting /\ q # current /\ ~sequential
  /\ current' = q /\ draft' = Draft(store, q)
  /\ UNCHANGED <<server, calls, ops, reloads, store, route, fired, seqs, acked, strayed, overlapped>>

\* Previous and Save & Next.
Step(q) ==
  /\ Sitting
  /\ \/ q = current + 1 /\ current < Last
     \/ q = current - 1 /\ current > 1 /\ ~sequential
  /\ current' = q /\ draft' = Draft(store, q)
  /\ UNCHANGED <<server, calls, ops, reloads, store, route, fired, seqs, acked, strayed, overlapped>>

\* sessionFor throws when the snapshot has no session.
Send(op, q, value, seq) ==
  /\ store.session /\ ops < MaxOps /\ ops' = ops + 1
  /\ calls' = [calls EXCEPT ![ops + 1] =
       [NoCall EXCEPT !.op = op, !.q = q, !.value = value, !.seq = seq, !.page = reloads,
                      !.stage = "sent"]]

nextSeq(q) == seqs[q] + 1

\* An edit of the question on screen. The code editor adds it to its draft,
\* every other control to the answer the snapshot holds.
saveAnswer(q) ==
  LET value == (IF q \in CodeQs THEN draft ELSE store.answers[q]) \cup {ops + 1} IN
  /\ Sitting /\ q = current
  /\ Send("save", q, value, nextSeq(q))
  /\ seqs' = [seqs EXCEPT ![q] = nextSeq(q)]
  /\ draft' = IF q \in CodeQs THEN value ELSE draft
  /\ UNCHANGED <<server, reloads, store, route, current, fired, acked, strayed, overlapped>>

toggleFlag(q) ==
  /\ Sitting /\ q = current
  /\ Send("flag", q, {}, 0)
  /\ UNCHANGED <<server, reloads, screen, seqs, acked, strayed, overlapped>>

\* The dialog's button, which stays active while a submission is on its way.
submitExam ==
  /\ Sitting
  /\ Send("submit", 1, {}, 0)
  /\ UNCHANGED <<server, reloads, screen, seqs, acked, strayed, overlapped>>

\* Variant: the guard counts as used before the time is up.
shouldExpire_spent == late /\ fired

shouldExpire == late /\ ~fired

\* A tick at zero: the guard lets the first one through. The page's clock is
\* the server's; one that is ahead submits as the candidate would.
tick ==
  /\ Sitting /\ shouldExpire
  /\ fired' = TRUE
  /\ Send("submit", 1, {}, 0)
  /\ UNCHANGED <<server, reloads, store, route, current, draft, seqs, acked, strayed, overlapped>>

(***************************************************************************)
(* Answers reach the page.                                                 *)
(***************************************************************************)

\* The write is reported saved, whatever "accepted" says.
SaveLands(i) ==
  LET c == calls[i] IN
  /\ c.op = "save" /\ c.stage = "answered" /\ Mine(i)
  /\ calls' = [calls EXCEPT ![i] = NoCall]
  /\ store' = [store EXCEPT !.answers[c.q] = c.value]
  /\ acked' = [acked EXCEPT ![c.q] = IF i > @ THEN i ELSE @]
  /\ UNCHANGED <<server, ops, reloads, route, current, draft, fired, seqs, strayed, overlapped>>

\* Variant: a flag is only ever set.
FlagLands_sets(i) ==
  LET c == calls[i] IN
  /\ c.op = "flag" /\ c.stage = "answered" /\ Mine(i)
  /\ calls' = [calls EXCEPT ![i] = NoCall]
  /\ store' = [store EXCEPT !.flags = @ \cup {c.q}]
  /\ UNCHANGED <<server, ops, reloads, route, current, draft, fired, seqs, acked, strayed, overlapped>>

FlagLands(i) ==
  LET c == calls[i] IN
  /\ c.op = "flag" /\ c.stage = "answered" /\ Mine(i)
  /\ calls' = [calls EXCEPT ![i] = NoCall]
  /\ store' = [store EXCEPT !.flags = IF c.q \in @ THEN @ \ {c.q} ELSE @ \cup {c.q}]
  /\ UNCHANGED <<server, ops, reloads, route, current, draft, fired, seqs, acked, strayed, overlapped>>

\* The receipt is in: the snapshot is read again.
SubmitLands(i) ==
  /\ calls[i].op = "submit" /\ calls[i].stage = "answered" /\ Mine(i)
  /\ calls' = [calls EXCEPT ![i].stage = "list"]
  /\ UNCHANGED <<server, ops, reloads, screen, seqs, acked, strayed, overlapped>>

(***************************************************************************)
(* loadCandidateState: the list, the check-in, the state, one after the    *)
(* other. toTest maps the statuses.                                        *)
(***************************************************************************)

toTestStatus(e) == CASE e = "SCHEDULED" -> "scheduled" [] e = "LIVE" -> "live" [] OTHER -> "completed"

ListExams(i) ==
  /\ calls[i].stage = "list" /\ Mine(i)
  /\ calls' = [calls EXCEPT ![i].stage = "checkin", ![i].exam = exam]
  /\ UNCHANGED <<server, ops, reloads, screen, seqs, acked, strayed, overlapped>>

check_in(i) ==
  /\ calls[i].stage = "checkin" /\ Mine(i)
  /\ session' = IF session = "NOT_STARTED" THEN "WAITING" ELSE session
  /\ calls' = [calls EXCEPT ![i].stage = "state", ![i].session = session']
  /\ UNCHANGED <<sequential, exam, late, stored, ops, reloads, screen, seqs, acked, strayed, overlapped>>

\* Flags of an earlier page that the server has yet to see, or to commit.
Orphans == {calls[i].q : i \in {j \in Calls : /\ calls[j].op = "flag" /\ ~Mine(j)
                                              /\ calls[j].stage \in {"sent", "loaded"}}}

\* Variant: the receipt goes by the examination, not by the session.
Snapshot_by_exam(c) ==
  LET answers == [q \in Questions |-> stored[q].value] IN
  [test |-> toTestStatus(c.exam), session |-> TRUE, answers |-> answers,
   flags |-> {q \in Questions : stored[q].flagged},
   receipt |-> IF c.exam = "LIVE" /\ late THEN "manual" ELSE "none",
   final |-> answers]

Snapshot(c) ==
  LET answers == [q \in Questions |-> stored[q].value] IN
  [test |-> toTestStatus(c.exam), session |-> TRUE, answers |-> answers,
   flags |-> {q \in Questions : stored[q].flagged},
   receipt |-> IF c.session = "AUTO_SUBMITTED" THEN "automatic"
               ELSE IF c.session = "SUBMITTED" THEN "manual" ELSE "none",
   final |-> answers]

\* The snapshot is adopted; after a submission the page goes to the receipt.
Adopt(i, s) ==
  /\ store' = s
  /\ strayed' = Orphans
  /\ calls' = [calls EXCEPT ![i] = IF i = 0 THEN [NoCall EXCEPT !.stage = "ready", !.page = reloads]
                                   ELSE NoCall]
  /\ IF i = 0 THEN Mount(route, s) ELSE Mount("submitted", s)

\* A check-in that fails leaves an empty snapshot, which is adopted.
CheckInFails(i) ==
  /\ calls[i].stage = "checkin" /\ Mine(i)
  /\ Adopt(i, EmptyStore)
  /\ UNCHANGED <<server, ops, reloads, seqs, acked, overlapped>>

get_state(i) ==
  /\ calls[i].stage = "state" /\ Mine(i)
  /\ Adopt(i, Snapshot(calls[i]))
  /\ UNCHANGED <<server, ops, reloads, seqs, acked, overlapped>>

\* The provider's load fails: the error page, and a reload from there.
LoadFails ==
  /\ calls[0].stage \in {"list", "state"}
  /\ calls' = [calls EXCEPT ![0].stage = "error"]
  /\ UNCHANGED <<server, ops, reloads, screen, seqs, acked, strayed, overlapped>>

Boot(r) == [NoCall EXCEPT !.op = "load", !.stage = "list", !.page = r]

\* Everything in memory is gone, the numbering of saves too. Requests the
\* server has still to see are answered to nobody.
reload ==
  /\ reloads < MaxReloads /\ reloads' = reloads + 1
  /\ calls' = [i \in Calls |->
       IF i = 0 THEN Boot(reloads + 1)
       ELSE IF calls[i].stage \in {"sent", "loaded"} THEN calls[i] ELSE NoCall]
  /\ store' = EmptyStore /\ Mount(route, EmptyStore)
  /\ seqs' = [q \in Questions |-> 0]
  /\ UNCHANGED <<server, ops, acked, strayed, overlapped>>

Init ==
  /\ sequential \in BOOLEAN
  /\ exam = "SCHEDULED" /\ session = "NOT_STARTED" /\ late = FALSE
  /\ stored = [q \in Questions |-> NoAnswer]
  /\ calls = [i \in Calls |-> IF i = 0 THEN Boot(0) ELSE NoCall]
  /\ ops = 0 /\ reloads = 0
  /\ store = EmptyStore /\ seqs = [q \in Questions |-> 0]
  /\ route = "portal" /\ current = 1 /\ draft = {}
  /\ fired = FALSE
  /\ acked = [q \in Questions |-> 0] /\ strayed = {} /\ overlapped = FALSE

Server == start_exam \/ DeadlinePasses \/ close_exam

Handling(i) == Arrives(i) \/ Commits(i)

Landing(i) ==
  \/ SaveLands(i) \/ FlagLands(i) \/ SubmitLands(i)
  \/ ListExams(i) \/ check_in(i) \/ CheckInFails(i) \/ get_state(i)

Candidate ==
  \/ \E q \in Questions : saveAnswer(q) \/ toggleFlag(q) \/ QuestionPalette(q) \/ Step(q)
  \/ \E r \in {"portal", "waiting", "exam", "submitted"} : Follow(r)
  \/ submitExam \/ reload

Next ==
  \/ Server \/ Candidate \/ Release \/ tick \/ LoadFails
  \/ \E i \in Calls : Handling(i) \/ Landing(i) \/ Fails(i)

Spec == Init /\ [][Next]_vars

\* The server and the network settle every request; the timer ticks.
Fairness ==
  /\ \A i \in Calls : WF_vars(Handling(i)) /\ WF_vars(Landing(i))
  /\ WF_vars(tick)

FairSpec == Spec /\ Fairness

-----------------------------------------------------------------------------
\* The stored answer is at least as new as the newest one reported saved.
Kept(q) == acked[q] = 0 \/ \E n \in stored[q].value : n >= acked[q]

\* Without a reload, and with saves that do not overlap in the server, a save
\* that comes late never displaces a newer one that was reported saved: the
\* page numbers its saves and the server discards the late ones (live.ts,
\* nextSeq; sessions.py, save_answer).
AckedKept == reloads = 0 /\ ~overlapped => \A q \in Questions : Kept(q)

\* The same with reloads.
AckedKeptAcrossReloads == ~overlapped => \A q \in Questions : Kept(q)

\* Flags are toggled on both sides, so the page and the server agree about a
\* question when its toggles have settled and no answer to one was lost,
\* whatever the order in which they were handled (live.ts, toggleFlag;
\* sessions.py, toggle_flag).
FlagsAgree ==
  \A q \in Questions :
    (/\ Ready /\ store.session /\ store.receipt = "none"
     /\ q \notin strayed /\ ~overlapped
     /\ \A i \in Calls : calls[i].op = "flag" /\ calls[i].q = q => calls[i].stage = "sent")
      => (q \in store.flags <=> stored[q].flagged)

\* A receipt on screen is the end of it: the server has closed the session,
\* and what the receipt lists is what is stored (http.ts, loadCandidateState;
\* live.ts, submitExam).
ReceiptFinal ==
  store.receipt # "none" =>
    /\ session \in Terminal
    /\ ~overlapped => \A q \in Questions : store.final[q] = stored[q].value

\* In a sequential examination the page on screen never goes back to an
\* earlier question (exam.tsx, QuestionPalette and QuestionCard).
NeverBack ==
  [][sequential /\ Sitting /\ Sitting' /\ reloads' = reloads => current' >= current]_vars

\* When the time is up a page with the paper on screen submits it, and that
\* submission is settled one way or the other (exam.tsx, useExamTimer;
\* student-screens.tsx, finish).
ExpirySettles ==
  (Sitting /\ late /\ ops < MaxOps)
    ~> (\/ ~Sitting \/ ops = MaxOps
        \/ fired /\ \A i \in Calls : calls[i].op # "submit")

=============================================================================

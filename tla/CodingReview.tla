---------------------------- MODULE CodingReview ----------------------------
(***************************************************************************)
(* Marking the programs of one coding question: the workers that claim     *)
(* unmarked programs, the run that a console asks for, the correction of   *)
(* the question's test cases, and the screen that reviews the marks.       *)
(*                                                                         *)
(* src/backend/app/services/coding.py; src/frontend/components             *)
(* coding-reports.tsx, coding-correction.tsx. A mark is abstracted to the  *)
(* version of the test cases it was worked out from. One correction is     *)
(* under way at a time.                                                    *)
(***************************************************************************)
EXTENDS Integers, Sequences, SequencesExt, FiniteSets

CONSTANTS
  Papers,          \* submitted papers, one program each
  Frail,           \* of those, the programs that may be beyond the sandbox
  Workers,         \* processes that run the sweep
  Runs,            \* requests of the console to run programs, in flight
  Loads,           \* requests of the console for the reports, in flight
  Limit,           \* programs that a worker claims at once
  MaxRuns,         \* bound: runs that the console asks for
  MaxCorrections,  \* bound
  MaxFaults        \* bound: failed requests, crashes, runs the sandbox could not finish

ASSUME ReviewAssumption ==
  /\ Frail \subseteq Papers /\ IsFiniteSet(Frail)
  /\ Limit \in Nat /\ MaxRuns \in Nat /\ MaxCorrections \in Nat /\ MaxFaults \in Nat

Version == 0..MaxCorrections
Unmarked == -1

VARIABLES
  status,      \* of the examination
  queue,       \* submitted papers, by submitted_at
  host,        \* whether the server has a sandbox
  stuck,       \* programs that the sandbox never manages to run
  cases,       \* the version of the test cases
  award,       \* answers.awarded_marks
  held,        \* rows that a worker has claimed, and
  key,         \* the cases that it runs them against
  run,         \* requests to run programs
  correction,  \* the request to correct: "none", "sent", "clearing", "answered"
  blocked,     \* sandbox === false: the panel knows that the host has none
  busy,
  editor,      \* "closed", "open", "saving"
  reports,     \* what is on screen
  error,
  corrected,   \* this visit corrected the question
  watching,    \* the poll for the marks is set
  loads,
  used, faults,
  overlapped,  \* history: papers marked by a run that began before a correction
  fixed,       \* history: the newest version this console knows it made
  late,        \* history: the reports on screen were read before that correction
  strays       \* history: those of their marks that a run wrote which began before it

server  == <<status, queue, host, stuck, cases, award, held, key, overlapped>>
panel   == <<blocked, busy, used>>
screen  == <<reports, error, corrected, watching, loads, fixed, late, strays>>
vars    == <<server, run, correction, editor, panel, screen, faults>>

NoRun == [stage |-> "none", force |-> FALSE, todo |-> {}, paper |-> {}, cases |-> 0,
              had |-> Unmarked, heard |-> FALSE]
NoLoad == [stage |-> "none", rows |-> [p \in Papers |-> Unmarked], at |-> 0, strays |-> {}]
NoReports == [p \in Papers |-> -2]   \* null: nothing has been read

Fault == faults < MaxFaults /\ faults' = faults + 1

(***************************************************************************)
(* The server.                                                             *)
(***************************************************************************)

submit(p) ==
  /\ status = "LIVE" /\ p \notin ToSet(queue)
  /\ queue' = Append(queue, p)
  /\ UNCHANGED <<status, host, stuck, cases, award, held, key, overlapped, run, correction, editor,
                 panel, screen, faults>>

\* Nobody is left in the examination once it is over.
close ==
  /\ status = "LIVE" /\ ToSet(queue) = Papers
  /\ status' = "COMPLETED"
  /\ UNCHANGED <<queue, host, stuck, cases, award, held, key, overlapped, run, correction, editor,
                 panel, screen, faults>>

\* Variant: rows are not locked.
Locked_never(p) == FALSE

\* A row that a transaction holds: claimed FOR UPDATE, or updated by the
\* correction, which has every row that no worker holds.
Locked(p) == correction = "clearing" \/ \E w \in Workers : p \in held[w]

\* The places in the queue of unmarked programs that nobody holds.
Unclaimed == {i \in DOMAIN queue : award[queue[i]] = Unmarked /\ ~Locked(queue[i])}

\* Variant: one program fewer.
Claimable_short ==
  {queue[i] : i \in {j \in Unclaimed : Cardinality({k \in Unclaimed : k < j}) < Limit - 1}}

\* The oldest of them, a batch at most (SKIP LOCKED, ORDER BY, LIMIT).
Claimable ==
  {queue[i] : i \in {j \in Unclaimed : Cardinality({k \in Unclaimed : k < j}) < Limit}}

claim(w) ==
  /\ host /\ held[w] = {} /\ Claimable # {}
  /\ held' = [held EXCEPT ![w] = Claimable]
  /\ key' = [key EXCEPT ![w] = cases]
  /\ UNCHANGED <<status, queue, host, stuck, cases, award, overlapped, run, correction, editor,
                 panel, screen, faults>>

\* Every program has run; one commit for the batch. A program that the sandbox
\* could not run stays unmarked.
grade(w) ==
  /\ held[w] # {}
  /\ \E failed \in SUBSET held[w] :
       /\ stuck \cap held[w] \subseteq failed
       /\ IF failed \subseteq stuck THEN UNCHANGED faults ELSE Fault
       /\ award' = [p \in Papers |-> IF p \in held[w] \ failed THEN key[w] ELSE award[p]]
  /\ held' = [held EXCEPT ![w] = {}]
  /\ key' = [key EXCEPT ![w] = 0]
  /\ UNCHANGED <<status, queue, host, stuck, cases, overlapped, run, correction, editor, panel, screen>>

\* The worker dies: its transaction is rolled back and its rows are free.
crash(w) ==
  /\ held[w] # {} /\ Fault
  /\ held' = [held EXCEPT ![w] = {}]
  /\ key' = [key EXCEPT ![w] = 0]
  /\ UNCHANGED <<status, queue, host, stuck, cases, award, overlapped, run, correction, editor,
                 panel, screen>>

\* grade_exam: the papers that are in at this moment, or 503.
grade_exam(r) ==
  /\ run[r].stage = "sent"
  /\ run' = [run EXCEPT ![r].stage = IF host THEN "grading" ELSE "unavailable",
                        ![r].todo = IF host THEN ToSet(queue) ELSE {}]
  /\ UNCHANGED <<server, correction, editor, panel, screen, faults>>

\* grade_session takes the cases and the answer as they are, without a lock.
grade_session(r, p) ==
  /\ run[r].stage = "grading" /\ run[r].paper = {} /\ p \in run[r].todo
  /\ run' = [run EXCEPT ![r].todo = @ \ {p},
                        ![r].paper = IF award[p] # Unmarked /\ ~run[r].force THEN {} ELSE {p},
                        ![r].cases = cases, ![r].had = award[p]]
  /\ UNCHANGED <<server, correction, editor, panel, screen, faults>>

\* The commit of one paper waits for whoever holds the row, and then writes over
\* what they left. A mark equal to the one that was read is not written at all.
Graded(r, p) ==
  \/ p \notin stuck /\ award' = [award EXCEPT ![p] = run[r].cases] /\ UNCHANGED faults
  \/ p \notin stuck /\ run[r].had # Unmarked /\ UNCHANGED <<award, faults>>
  \/ p \in stuck /\ UNCHANGED <<award, faults>>
  \/ p \notin stuck /\ UNCHANGED award /\ Fault

grade_session_commit(r) ==
  /\ run[r].stage = "grading"
  /\ \E p \in run[r].paper :
       /\ ~Locked(p)
       /\ Graded(r, p)
       /\ overlapped' = IF run[r].cases # cases /\ award'[p] = run[r].cases
                        THEN overlapped \cup {p} ELSE overlapped
  /\ run' = [run EXCEPT ![r].paper = {}, ![r].cases = 0, ![r].had = Unmarked]
  /\ UNCHANGED <<status, queue, host, stuck, cases, held, key, correction, editor, panel, screen>>

grade_exam_ends(r) ==
  /\ run[r].stage = "grading" /\ run[r].todo = {} /\ run[r].paper = {}
  /\ run' = [run EXCEPT ![r].stage = "done"]
  /\ UNCHANGED <<server, correction, editor, panel, screen, faults>>

\* The cases are replaced and the update of the answers has begun; it waits for
\* the rows that workers hold.
correct_test_cases ==
  /\ correction = "sent" /\ status = "COMPLETED"
  /\ correction' = "clearing"
  /\ UNCHANGED <<server, run, editor, panel, screen, faults>>

\* Variant: the marks stand.
Cleared_kept == award

Cleared == [p \in Papers |-> Unmarked]

correct_test_cases_commit ==
  /\ correction = "clearing" /\ \A w \in Workers : held[w] = {}
  /\ cases' = cases + 1
  /\ award' = Cleared
  /\ overlapped' = {}
  /\ correction' = "answered"
  /\ UNCHANGED <<status, queue, host, stuck, held, key, run, editor, panel, screen, faults>>

(***************************************************************************)
(* The screen: CodingReportScreen, the panel that runs programs and the    *)
(* editor of the test cases.                                               *)
(***************************************************************************)

\* active: a corrected question of which some paper is shown without a mark.
Awaiting(rows, fixing) == fixing /\ (rows = NoReports \/ \E p \in Papers : rows[p] = Unmarked)

\* The effect on awaitingRemark sets and clears the poll.
Rewatch == watching' = (Awaiting(reports', corrected') /\ (watching \/ ~Awaiting(reports, corrected)))

Load == /\ \E l \in Loads : loads[l] = NoLoad
        /\ loads' = [loads EXCEPT ![CHOOSE l \in Loads : loads[l] = NoLoad].stage = "asked"]

ReadReports(l) ==
  /\ loads[l].stage = "asked"
  /\ loads' = [loads EXCEPT ![l] = [stage |-> "read", rows |-> award, at |-> cases, strays |-> overlapped]]
  /\ UNCHANGED <<server, run, correction, editor, panel, reports, error, corrected, watching, fixed,
                 late, strays, faults>>

\* Answers are adopted in the order in which they come in.
LoadLands(l) ==
  /\ loads[l].stage = "read"
  /\ reports' = loads[l].rows /\ error' = FALSE
  /\ loads' = [loads EXCEPT ![l] = NoLoad]
  /\ late' = (loads[l].at < fixed) /\ strays' = loads[l].strays
  /\ UNCHANGED <<corrected, fixed>>
  /\ Rewatch
  /\ UNCHANGED <<server, run, correction, editor, panel, faults>>

LoadFails(l) ==
  /\ loads[l] # NoLoad /\ Fault
  /\ error' = TRUE
  /\ loads' = [loads EXCEPT ![l] = NoLoad]
  /\ UNCHANGED <<server, run, correction, editor, panel, reports, corrected, watching, fixed, late,
                 strays>>

\* Variant: only an idle screen is read again.
poll_idle ==
  /\ watching /\ ~Awaiting(reports, corrected) /\ Load
  /\ UNCHANGED <<server, run, correction, editor, panel, reports, error, corrected, watching, fixed,
                 late, strays, faults>>

poll ==
  /\ watching /\ Load
  /\ UNCHANGED <<server, run, correction, editor, panel, reports, error, corrected, watching, fixed,
                 late, strays, faults>>

\* Five minutes without the marks.
giveUp ==
  /\ watching /\ Fault
  /\ watching' = FALSE
  /\ UNCHANGED <<server, run, correction, editor, panel, reports, error, corrected, loads, fixed,
                 late, strays>>

capabilities ==
  /\ ~host /\ ~blocked
  /\ blocked' = TRUE
  /\ UNCHANGED <<server, run, correction, editor, busy, used, screen, faults>>

\* Both buttons are disabled while a run is going on, but not the one in the
\* dialog that starts the forced run, which stays open until the run has ended.
Run(r, force) ==
  /\ ~blocked /\ (busy = "none" \/ (force /\ busy = "all"))
  /\ run[r] = NoRun /\ used < MaxRuns
  /\ run' = [run EXCEPT ![r] = [NoRun EXCEPT !.stage = "sent", !.force = force, !.heard = TRUE]]
  /\ busy' = IF force THEN "all" ELSE "pending"
  /\ used' = used + 1
  /\ UNCHANGED <<server, correction, editor, blocked, screen, faults>>

\* The answer: onRan reads the reports again; a 503 disables the panel.
RunLands(r) ==
  /\ run[r].stage \in {"done", "unavailable"}
  /\ run' = [run EXCEPT ![r] = NoRun]
  /\ \/ /\ run[r].heard
        /\ busy' = "none"
        /\ IF run[r].stage = "done"
           THEN Load /\ UNCHANGED blocked
           ELSE blocked' = TRUE /\ UNCHANGED loads
     \/ ~run[r].heard /\ UNCHANGED <<busy, blocked, loads>>
  /\ UNCHANGED <<server, correction, editor, used, reports, error, corrected, watching, fixed, late,
                 strays, faults>>

\* The request fails on the way: the run goes on without the console.
RunFails(r) ==
  /\ run[r].heard /\ Fault
  /\ run' = [run EXCEPT ![r].heard = FALSE]
  /\ busy' = "none"
  /\ UNCHANGED <<server, correction, editor, blocked, used, screen>>

\* Offered once the examination is over, and not while marks are owed.
Edit ==
  /\ editor = "closed" /\ status = "COMPLETED" /\ ~Awaiting(reports, corrected)
  /\ editor' = "open"
  /\ UNCHANGED <<server, run, correction, panel, screen, faults>>

Leave ==
  /\ editor = "open" /\ editor' = "closed"
  /\ UNCHANGED <<server, run, correction, panel, screen, faults>>

\* Reviewed, with nothing wrong, and confirmed.
save ==
  /\ editor = "open" /\ correction = "none" /\ cases < MaxCorrections
  /\ editor' = "saving" /\ correction' = "sent"
  /\ UNCHANGED <<server, run, panel, screen, faults>>

\* Variant: the reports stay as they are.
onCorrected_quiet == UNCHANGED loads

onCorrected == Load

SaveLands ==
  /\ editor = "saving" /\ correction = "answered"
  /\ editor' = "closed" /\ correction' = "none"
  /\ corrected' = TRUE /\ fixed' = cases
  /\ late' = FALSE
  /\ onCorrected
  /\ UNCHANGED <<reports, error, strays>> /\ Rewatch
  /\ UNCHANGED <<server, run, panel, faults>>

\* The request fails on the way, before or after it has done its work: the
\* screen says that it never reached the server.
SaveFails ==
  /\ editor = "saving" /\ Fault
  /\ editor' = "open"
  /\ UNCHANGED <<server, run, correction, panel, screen>>

Unheard ==
  /\ editor # "saving" /\ correction = "answered"
  /\ correction' = "none"
  /\ UNCHANGED <<server, run, editor, panel, screen, faults>>

-----------------------------------------------------------------------------

Init ==
  /\ status = "LIVE" /\ queue = <<>> /\ host \in BOOLEAN
  /\ stuck \in {s \in SUBSET Frail : Cardinality(s) < Limit}
  /\ cases = 0 /\ award = [p \in Papers |-> Unmarked]
  /\ held = [w \in Workers |-> {}] /\ key = [w \in Workers |-> 0]
  /\ run = [r \in Runs |-> NoRun] /\ correction = "none"
  /\ blocked = FALSE /\ busy = "none"
  /\ editor = "closed" /\ reports = NoReports /\ error = FALSE
  /\ corrected = FALSE /\ watching = FALSE
  \* The effect that mounts the screen reads the reports.
  /\ loads = [[l \in Loads |-> NoLoad] EXCEPT ![CHOOSE l \in Loads : TRUE].stage = "asked"]
  /\ used = 0 /\ faults = 0 /\ overlapped = {} /\ fixed = 0 /\ late = FALSE /\ strays = {}

Grading(r) ==
  \/ grade_exam(r) \/ grade_exam_ends(r) \/ grade_session_commit(r)
  \/ \E p \in Papers : grade_session(r, p)

Next ==
  \/ \E p \in Papers : submit(p)
  \/ close
  \/ \E w \in Workers : claim(w) \/ grade(w) \/ crash(w)
  \/ \E r \in Runs : Grading(r) \/ RunLands(r) \/ RunFails(r) \/ \E force \in BOOLEAN : Run(r, force)
  \/ correct_test_cases \/ correct_test_cases_commit
  \/ \E l \in Loads : ReadReports(l) \/ LoadLands(l) \/ LoadFails(l)
  \/ poll \/ giveUp \/ capabilities \/ Edit \/ Leave
  \/ save \/ SaveLands \/ SaveFails \/ Unheard

Spec == Init /\ [][Next]_vars

\* The sweep comes round, programs end (the sandbox has a time limit), requests
\* are answered and timers fire.
Fairness ==
  /\ \A w \in Workers : WF_vars(claim(w) \/ grade(w))
  /\ \A l \in Loads : WF_vars(ReadReports(l) \/ LoadLands(l))
  /\ WF_vars(correct_test_cases_commit)
  /\ WF_vars(poll)

FairSpec == Spec /\ Fairness

-----------------------------------------------------------------------------

\* A mark was worked out from the test cases that the question has now: a
\* correction leaves none from the old ones, whatever the workers were running
\* when it came (coding.py, correct_test_cases). The exception is a run that a
\* console asked for, which takes no lock and writes its mark after the
\* correction if it began before.
MarksCurrent == \A p \in Papers : award[p] # Unmarked => award[p] = cases \/ p \in overlapped

\* No program is with two workers at once (coding.py, claim_and_grade).
ClaimedOnce == \A v, w \in Workers : v # w => held[v] \cap held[w] = {}

\* Programs are not left without a mark: again and again every submitted one
\* has its mark, whoever crashes and whatever is corrected, as long as there is
\* a sandbox and fewer programs than a batch holds are beyond it (coding.py,
\* claim_and_grade).
ProgramsMarked ==
  host => []<>(\A p \in ToSet(queue) \ stuck : award[p] # Unmarked)

\* Once the notice of a correction is gone, the marks on screen are from the
\* corrected cases, unless a request is on its way, the screen says that it
\* could not load, or an answer that was read before the correction came in last
\* (coding-reports.tsx, active). The marks of a run that the correction overtook
\* are the exception they are in MarksCurrent.
NoticeHonest ==
  /\ corrected /\ ~Awaiting(reports, corrected)
  /\ \A l \in Loads : loads[l] = NoLoad
  /\ ~error /\ ~late
  => \A p \in Papers : reports[p] >= fixed \/ p \in strays

Owed == reports # NoReports /\ \E p \in Papers \ stuck : reports[p] = Unmarked

\* The person who corrected a question sees the marks come back, or the watch
\* given up (coding-reports.tsx, the poll while marks are owed).
MarksReturn == host => ((watching /\ Owed) ~> (~Owed \/ ~watching))

=============================================================================

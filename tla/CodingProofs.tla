---------------------------- MODULE CodingProofs ----------------------------
(***************************************************************************)
(* Marking of programs for every number of papers, workers, runs and       *)
(* corrections: no program is with two workers, and a mark is from the     *)
(* test cases that the question has.                                       *)
(***************************************************************************)
EXTENDS CodingReview, TLAPS

\* What the two properties are about.
rows == <<queue, cases, award, held, key, overlapped>>

\* A worker runs what it holds against the cases of the day: the correction
\* waits until nothing is held.
HeldAgainstCurrent == \A w \in Workers : held[w] # {} => key[w] = cases

MarkInv ==
  /\ queue \in Seq(Papers) /\ award = [p \in Papers |-> award[p]]
  /\ held \in [Workers -> SUBSET Papers] /\ key = [w \in Workers |-> key[w]]
  /\ HeldAgainstCurrent /\ ClaimedOnce /\ MarksCurrent

-----------------------------------------------------------------------------

\* Nothing is marked and nothing is held at the start.
LEMMA InitMark == Init => MarkInv
<1> SUFFICES ASSUME Init PROVE MarkInv OBVIOUS
<1>1. queue \in Seq(Papers) BY DEF Init
<1>2. award = [p \in Papers |-> award[p]] /\ \A p \in Papers : award[p] = Unmarked BY DEF Init
<1>3. /\ held \in [Workers -> SUBSET Papers] /\ key = [w \in Workers |-> key[w]]
      /\ \A w \in Workers : held[w] = {}
  BY DEF Init
<1> QED BY <1>1, <1>2, <1>3 DEF MarkInv, HeldAgainstCurrent, ClaimedOnce, MarksCurrent

\* The other steps do not touch the rows.
LEMMA RowsKept == ASSUME MarkInv, UNCHANGED rows PROVE MarkInv'
BY DEF MarkInv, rows, HeldAgainstCurrent, ClaimedOnce, MarksCurrent

\* A paper joins the queue.
LEMMA SubmitStep == ASSUME MarkInv, NEW p \in Papers, submit(p) PROVE MarkInv'
<1>1. queue' = Append(queue, p) /\ UNCHANGED <<cases, award, held, key, overlapped>>
  BY DEF submit
<1>2. queue' \in Seq(Papers) BY <1>1 DEF MarkInv
<1> QED BY <1>1, <1>2 DEF MarkInv, HeldAgainstCurrent, ClaimedOnce, MarksCurrent

\* What a worker may claim is in the queue and with nobody else.
LEMMA ClaimableFree ==
  ASSUME MarkInv PROVE Claimable \subseteq Papers /\ \A p \in Claimable : ~Locked(p)
<1> SUFFICES ASSUME NEW p \in Claimable PROVE p \in Papers /\ ~Locked(p) OBVIOUS
<1>1. PICK i \in Unclaimed : p = queue[i] BY DEF Claimable
<1>2. i \in DOMAIN queue /\ ~Locked(queue[i]) BY DEF Unclaimed
<1>3. queue[i] \in Papers BY <1>2 DEF MarkInv
<1> QED BY <1>1, <1>2, <1>3

\* A worker claims a batch.
LEMMA ClaimStep == ASSUME MarkInv, NEW w \in Workers, claim(w) PROVE MarkInv'
<1>1. /\ held' = [held EXCEPT ![w] = Claimable] /\ key' = [key EXCEPT ![w] = cases]
      /\ UNCHANGED <<queue, cases, award, overlapped>>
  BY DEF claim
<1>2. Claimable \subseteq Papers /\ \A v \in Workers : Claimable \cap held[v] = {}
  BY ClaimableFree DEF Locked
<1> HIDE DEF Claimable
<1>3. /\ held' \in [Workers -> SUBSET Papers] /\ key' = [v \in Workers |-> key'[v]]
      /\ held'[w] = Claimable /\ key'[w] = cases
      /\ \A v \in Workers : v # w => held'[v] = held[v] /\ key'[v] = key[v]
  BY <1>1, <1>2 DEF MarkInv
<1>4. ClaimedOnce' BY <1>2, <1>3 DEF MarkInv, ClaimedOnce
<1>5. HeldAgainstCurrent' BY <1>1, <1>3 DEF MarkInv, HeldAgainstCurrent
<1>6. MarksCurrent' BY <1>1 DEF MarkInv, MarksCurrent
<1> QED BY <1>1, <1>3, <1>4, <1>5, <1>6 DEF MarkInv

\* A worker commits its batch, or dies.
LEMMA ReleaseStep == ASSUME MarkInv, NEW w \in Workers, grade(w) \/ crash(w) PROVE MarkInv'
<1>1. /\ held[w] # {} /\ held' = [held EXCEPT ![w] = {}] /\ key' = [key EXCEPT ![w] = 0]
      /\ UNCHANGED <<queue, cases, overlapped>>
  BY DEF grade, crash
<1>2. /\ held' \in [Workers -> SUBSET Papers] /\ key' = [v \in Workers |-> key'[v]]
      /\ held'[w] = {} /\ \A v \in Workers : v # w => held'[v] = held[v] /\ key'[v] = key[v]
  BY <1>1 DEF MarkInv
<1>3. key[w] = cases BY <1>1 DEF MarkInv, HeldAgainstCurrent
<1>4. /\ award' = [p \in Papers |-> award'[p]]
      /\ \A p \in Papers : award'[p] = award[p] \/ award'[p] = cases
  <2>1. CASE crash(w)
    <3>1. award' = award BY <2>1 DEF crash
    <3> QED BY <3>1 DEF MarkInv
  <2>2. CASE grade(w)
    <3>1. PICK failed \in SUBSET held[w] :
            award' = [p \in Papers |-> IF p \in held[w] \ failed THEN key[w] ELSE award[p]]
      BY <2>2 DEF grade
    <3> QED BY <1>3, <3>1
  <2> QED BY <2>1, <2>2
<1>5. ClaimedOnce' BY <1>2 DEF MarkInv, ClaimedOnce
<1>6. HeldAgainstCurrent' BY <1>1, <1>2 DEF MarkInv, HeldAgainstCurrent
<1>7. MarksCurrent' BY <1>1, <1>4 DEF MarkInv, MarksCurrent
<1> QED BY <1>1, <1>2, <1>4, <1>5, <1>6, <1>7 DEF MarkInv

\* A run that a console asked for writes one mark, without a lock.
LEMMA RunCommitStep == ASSUME MarkInv, NEW r \in Runs, grade_session_commit(r) PROVE MarkInv'
<1>1. UNCHANGED <<queue, cases, held, key>> BY DEF grade_session_commit
<1>2. PICK p \in run[r].paper :
        /\ Graded(r, p)
        /\ overlapped' = IF run[r].cases # cases /\ award'[p] = run[r].cases
                         THEN overlapped \cup {p} ELSE overlapped
  BY DEF grade_session_commit
<1>3. award' = award \/ award' = [award EXCEPT ![p] = run[r].cases] BY <1>2 DEF Graded
<1>4. /\ award' = [q \in Papers |-> award'[q]]
      /\ \A q \in Papers : award'[q] = award[q] \/ (q = p /\ award'[q] = run[r].cases)
  <2>1. CASE award' = award BY <2>1 DEF MarkInv
  <2>2. CASE award' = [award EXCEPT ![p] = run[r].cases] BY <2>2 DEF MarkInv
  <2> QED BY <1>3, <2>1, <2>2
<1>5. MarksCurrent'
  <2> SUFFICES ASSUME NEW q \in Papers, award'[q] # Unmarked
               PROVE  award'[q] = cases \/ q \in overlapped'
    BY <1>1 DEF MarksCurrent
  <2>1. overlapped \subseteq overlapped' BY <1>2
  <2>2. CASE award'[q] = award[q] BY <2>1, <2>2 DEF MarkInv, MarksCurrent
  <2>3. CASE q = p /\ award'[q] = run[r].cases BY <1>2, <2>3
  <2> QED BY <1>4, <2>2, <2>3
<1>6. HeldAgainstCurrent' /\ ClaimedOnce'
  BY <1>1 DEF MarkInv, HeldAgainstCurrent, ClaimedOnce
<1> QED BY <1>1, <1>4, <1>5, <1>6 DEF MarkInv

\* A correction clears every mark, once nothing is held.
LEMMA CorrectionStep == ASSUME MarkInv, correct_test_cases_commit PROVE MarkInv'
<1>1. /\ \A w \in Workers : held[w] = {}
      /\ award' = [p \in Papers |-> Unmarked] /\ UNCHANGED <<queue, held, key>>
  BY DEF correct_test_cases_commit, Cleared
<1> QED BY <1>1 DEF MarkInv, HeldAgainstCurrent, ClaimedOnce, MarksCurrent

\* Every step keeps the invariant.
LEMMA NextMark == MarkInv /\ [Next]_vars => MarkInv'
<1> SUFFICES ASSUME MarkInv, [Next]_vars PROVE MarkInv' OBVIOUS
<1>1. CASE \E p \in Papers : submit(p) BY <1>1, SubmitStep
<1>2. CASE \E w \in Workers : claim(w) BY <1>2, ClaimStep
<1>3. CASE \E w \in Workers : grade(w) \/ crash(w) BY <1>3, ReleaseStep
<1>4. CASE \E r \in Runs : grade_session_commit(r) BY <1>4, RunCommitStep
<1>5. CASE correct_test_cases_commit BY <1>5, CorrectionStep
<1>6. CASE \/ close \/ correct_test_cases \/ UNCHANGED vars
           \/ \E r \in Runs : \/ grade_exam(r) \/ grade_exam_ends(r) \/ RunLands(r) \/ RunFails(r)
                              \/ \E p \in Papers : grade_session(r, p)
                              \/ \E force \in BOOLEAN : Run(r, force)
           \/ \E l \in Loads : ReadReports(l) \/ LoadLands(l) \/ LoadFails(l)
           \/ poll \/ giveUp \/ capabilities \/ Edit \/ Leave
           \/ save \/ SaveLands \/ SaveFails \/ Unheard
  <2>1. UNCHANGED rows
    BY <1>6, Zenon DEF rows, vars, server, close, correct_test_cases, grade_exam, grade_exam_ends,
       RunLands, RunFails, grade_session, Run, ReadReports, LoadLands, LoadFails, poll, giveUp,
       capabilities, Edit, Leave, save, SaveLands, SaveFails, Unheard
  <2> QED BY <2>1, RowsKept
<1> QED BY <1>1, <1>2, <1>3, <1>4, <1>5, <1>6, Zenon DEF Next, Grading

\* No program is with two workers at once, for every number of workers and
\* every batch size (coding.py, claim_and_grade).
THEOREM ProgramsClaimedOnce == Spec => []ClaimedOnce
<1>1. MarkInv => ClaimedOnce BY DEF MarkInv
<1> QED BY <1>1, InitMark, NextMark, PTL DEF Spec

\* A mark is from the present test cases, or from a console's run that began
\* before they were corrected (coding.py, correct_test_cases).
THEOREM MarksFromCurrentCases == Spec => []MarksCurrent
<1>1. MarkInv => MarksCurrent BY DEF MarkInv
<1> QED BY <1>1, InitMark, NextMark, PTL DEF Spec


-----------------------------------------------------------------------------
(* The notice of a correction.  What is on screen is older than the         *)
(* correction, or was read after it, and then it holds marks of the new     *)
(* cases only: by MarksCurrent at the moment of the reading.                *)

RunRow == [stage : {"none", "sent", "grading", "unavailable", "done"}, force : BOOLEAN,
           todo : SUBSET Papers, paper : SUBSET Papers, cases : Nat, had : Int, heard : BOOLEAN]
LoadRow == [stage : {"none", "asked", "read"}, rows : [Papers -> Int], at : Nat, strays : SUBSET Papers]

ReviewTypes ==
  /\ queue \in Seq(Papers) /\ cases \in Nat /\ fixed \in Nat
  /\ award \in [Papers -> Int] /\ overlapped \in SUBSET Papers
  /\ held \in [Workers -> SUBSET Papers] /\ key \in [Workers -> Nat]
  /\ run \in [Runs -> RunRow] /\ loads \in [Loads -> LoadRow]
  /\ reports \in [Papers -> Int] /\ strays \in SUBSET Papers

\* An answer under way holds the marks of the cases it was read with.
FreshWhenRead == \A l \in Loads : loads[l].stage = "read" =>
  \A p \in Papers : loads[l].rows[p] # Unmarked =>
    loads[l].rows[p] = loads[l].at \/ p \in loads[l].strays

\* Since the correction a request is under way, or failed, or its answer is shown.
Reread ==
  \/ \E l \in Loads : loads[l] # NoLoad
  \/ error \/ late
  \/ \A p \in Papers : reports[p] = Unmarked \/ reports[p] >= fixed \/ p \in strays

NoticeInv == /\ MarkInv /\ ReviewTypes /\ FreshWhenRead
             /\ corrected => Reread

-----------------------------------------------------------------------------

LEMMA InitTypes == Init => ReviewTypes /\ FreshWhenRead
<1> SUFFICES ASSUME Init PROVE ReviewTypes /\ FreshWhenRead OBVIOUS
<1>1. NoRun \in RunRow /\ NoLoad \in LoadRow /\ NoReports \in [Papers -> Int]
  BY DEF NoRun, NoLoad, NoReports, RunRow, LoadRow, Unmarked
<1>2. \A l \in Loads : loads[l].stage # "read" /\ loads[l] \in LoadRow
  <2>1. [NoLoad EXCEPT !.stage = "asked"] \in LoadRow /\ [NoLoad EXCEPT !.stage = "asked"].stage = "asked"
    BY <1>1 DEF LoadRow
  <2>2. \A l \in Loads : loads[l] = NoLoad \/ loads[l] = [NoLoad EXCEPT !.stage = "asked"]
    BY DEF Init
  <2>3. NoLoad.stage = "none"
    BY DEF NoLoad
  <2> QED BY <1>1, <2>1, <2>2, <2>3
<1>3. loads \in [Loads -> LoadRow] BY <1>2 DEF Init
<1>4. run \in [Runs -> RunRow] BY <1>1 DEF Init
<1>5. /\ queue \in Seq(Papers) /\ cases \in Nat /\ fixed \in Nat /\ award \in [Papers -> Int]
      /\ overlapped \in SUBSET Papers /\ held \in [Workers -> SUBSET Papers]
      /\ key \in [Workers -> Nat] /\ strays \in SUBSET Papers
  BY DEF Init, Unmarked
<1>6. reports \in [Papers -> Int] BY <1>1 DEF Init
<1> QED BY <1>2, <1>3, <1>4, <1>5, <1>6 DEF ReviewTypes, FreshWhenRead

\* A request is sent: it waits, and the others go on as they were.
LEMMA LoadSent ==
  ASSUME loads \in [Loads -> LoadRow], Load
  PROVE  /\ loads' \in [Loads -> LoadRow] /\ \E l \in Loads : loads'[l] # NoLoad
         /\ \A l \in Loads : loads'[l] = loads[l] \/ loads'[l].stage = "asked"
<1> DEFINE m == CHOOSE l \in Loads : loads[l] = NoLoad
<1>1. m \in Loads /\ loads' = [loads EXCEPT ![m].stage = "asked"] BY DEF Load
<1> HIDE DEF m
<1>2. loads'[m] = [loads[m] EXCEPT !.stage = "asked"] /\ \A l \in Loads : l # m => loads'[l] = loads[l]
  BY <1>1
<1>3. loads'[m] \in LoadRow /\ loads'[m].stage = "asked" BY <1>1, <1>2 DEF LoadRow
<1>4. NoLoad.stage = "none" BY DEF NoLoad
<1> QED BY <1>1, <1>2, <1>3, <1>4

\* The server's own steps: nothing on the screen moves.
LEMMA ServerTypes ==
  ASSUME NoticeInv,
         \/ \E w \in Workers : claim(w) \/ grade(w) \/ crash(w)
         \/ correct_test_cases_commit
         \/ \E p \in Papers : submit(p)
  PROVE  ReviewTypes' /\ UNCHANGED <<screen, run>>
<1>1. UNCHANGED <<screen, run>>
  BY Zenon DEF claim, grade, crash, correct_test_cases_commit, submit
<1>2. UNCHANGED <<fixed, run, loads, reports, strays>> BY <1>1 DEF screen
<1>3. ReviewTypes BY DEF NoticeInv
<1>4. ASSUME NEW w \in Workers, claim(w) PROVE ReviewTypes'
  <2>1. Claimable \subseteq Papers BY ClaimableFree DEF NoticeInv
  <2> HIDE DEF Claimable
  <2>2. /\ held' = [held EXCEPT ![w] = Claimable] /\ key' = [key EXCEPT ![w] = cases]
        /\ UNCHANGED <<queue, cases, award, overlapped>>
    BY <1>4 DEF claim
  <2> QED BY <1>1, <1>2, <1>3, <2>1, <2>2 DEF ReviewTypes
<1>5. ASSUME NEW w \in Workers, grade(w) \/ crash(w) PROVE ReviewTypes'
  <2>1. /\ held' = [held EXCEPT ![w] = {}] /\ key' = [key EXCEPT ![w] = 0]
        /\ UNCHANGED <<queue, cases, overlapped>>
    BY <1>5 DEF grade, crash
  <2>2. award' \in [Papers -> Int]
    <3>1. CASE crash(w) BY <1>3, <3>1 DEF crash, ReviewTypes
    <3>2. CASE grade(w)
      <4>1. PICK failed \in SUBSET held[w] :
              award' = [p \in Papers |-> IF p \in held[w] \ failed THEN key[w] ELSE award[p]]
        BY <3>2 DEF grade
      <4> QED BY <1>3, <4>1 DEF ReviewTypes
    <3> QED BY <1>5, <3>1, <3>2
  <2> QED BY <1>1, <1>2, <1>3, <2>1, <2>2 DEF ReviewTypes
<1>6. CASE correct_test_cases_commit
  BY <1>1, <1>2, <1>3, <1>6 DEF ReviewTypes, correct_test_cases_commit, Cleared, Unmarked
<1>7. CASE \E p \in Papers : submit(p)
  <2>1. PICK p \in Papers : queue' = Append(queue, p) /\ UNCHANGED <<cases, award, overlapped, held, key>>
    BY <1>7 DEF submit
  <2> QED BY <1>1, <1>2, <1>3, <2>1 DEF ReviewTypes
<1> QED BY <1>1, <1>4, <1>5, <1>6, <1>7

\* A run that the console asked for, on the server.
LEMMA RunTypes ==
  ASSUME NoticeInv, NEW r \in Runs, Grading(r)
  PROVE  ReviewTypes' /\ UNCHANGED screen
<1>1. UNCHANGED screen
  BY Zenon DEF Grading, grade_exam, grade_exam_ends, grade_session_commit, grade_session
<1>2. UNCHANGED <<fixed, loads, reports, strays>> BY <1>1 DEF screen
<1>3. ReviewTypes /\ run[r] \in RunRow BY DEF NoticeInv, ReviewTypes
<1>4. CASE grade_exam(r)
  <2>1. ToSet(queue) \subseteq Papers BY <1>3 DEF ReviewTypes, ToSet
  <2> HIDE DEF ToSet
  <2>2. run' \in [Runs -> RunRow] BY <1>3, <1>4, <2>1 DEF grade_exam, ReviewTypes, RunRow
  <2>3. UNCHANGED server BY <1>4 DEF grade_exam
  <2> QED BY <1>1, <1>2, <1>3, <2>2, <2>3 DEF ReviewTypes, server
<1>5. CASE grade_exam_ends(r)
  <2>1. run' \in [Runs -> RunRow] BY <1>3, <1>5 DEF grade_exam_ends, ReviewTypes, RunRow
  <2>2. UNCHANGED server BY <1>5 DEF grade_exam_ends
  <2> QED BY <1>1, <1>2, <1>3, <2>1, <2>2 DEF ReviewTypes, server
<1>6. ASSUME NEW p \in Papers, grade_session(r, p) PROVE ReviewTypes'
  <2>1. run' \in [Runs -> RunRow] BY <1>3, <1>6 DEF grade_session, ReviewTypes, RunRow
  <2>2. UNCHANGED server BY <1>6 DEF grade_session
  <2> QED BY <1>1, <1>2, <1>3, <2>1, <2>2 DEF ReviewTypes, server
<1>7. CASE grade_session_commit(r)
  <2>1. run' \in [Runs -> RunRow]
    <3>1. run' = [run EXCEPT ![r].paper = {}, ![r].cases = 0, ![r].had = Unmarked]
      BY <1>7 DEF grade_session_commit
    <3>2. run \in [Runs -> RunRow] BY <1>3 DEF ReviewTypes
    <3>3. Unmarked \in Int BY DEF Unmarked
    <3>4. \A q \in Runs : run'[q] \in RunRow
      <4>1. \A q \in Runs : q # r => run'[q] = run[q] BY <3>1, <3>2
      <4>2. run'[r] \in RunRow BY <3>1, <3>2, <3>3 DEF RunRow
      <4> QED BY <3>2, <4>1, <4>2
    <3> QED BY <3>1, <3>2, <3>4
  <2>2. PICK p \in run[r].paper :
          Graded(r, p) /\ (overlapped' = overlapped \/ overlapped' = overlapped \cup {p})
    BY <1>7 DEF grade_session_commit
  <2>3. p \in Papers /\ run[r].cases \in Int BY <1>3, <2>2 DEF RunRow
  <2>4. award' = award \/ award' = [award EXCEPT ![p] = run[r].cases] BY <2>2 DEF Graded
  <2>5. UNCHANGED <<queue, cases, held, key>> BY <1>7 DEF grade_session_commit
  <2> QED BY <1>1, <1>2, <1>3, <2>1, <2>2, <2>3, <2>4, <2>5 DEF ReviewTypes
<1> QED BY <1>1, <1>4, <1>5, <1>6, <1>7 DEF Grading

\* The steps of the screen: the rows are as they were, and the run at most ends.
LEMMA ScreenTypes ==
  ASSUME NoticeInv,
         \/ close \/ correct_test_cases \/ UNCHANGED vars \/ poll \/ giveUp \/ capabilities \/ Edit \/ Leave
         \/ save \/ SaveLands \/ SaveFails \/ Unheard
         \/ \E r \in Runs : RunLands(r) \/ RunFails(r) \/ \E force \in BOOLEAN : Run(r, force)
         \/ \E l \in Loads : ReadReports(l) \/ LoadLands(l) \/ LoadFails(l)
  PROVE  ReviewTypes'
<1>1. UNCHANGED rows
  BY Zenon DEF rows, vars, server, close, correct_test_cases,
     RunLands, RunFails, Run, ReadReports, LoadLands, LoadFails, poll, giveUp,
     capabilities, Edit, Leave, save, SaveLands, SaveFails, Unheard
<1>2. ReviewTypes BY DEF NoticeInv
<1>3. NoRun \in RunRow /\ NoLoad \in LoadRow
  BY DEF NoRun, NoLoad, RunRow, LoadRow, Unmarked
<1>4. ASSUME run' \in [Runs -> RunRow], loads' \in [Loads -> LoadRow],
             reports' \in [Papers -> Int], strays' \in SUBSET Papers, fixed' \in Nat
      PROVE  ReviewTypes'
  BY <1>1, <1>2, <1>4 DEF ReviewTypes, rows
<1>5. /\ run \in [Runs -> RunRow] /\ loads \in [Loads -> LoadRow] /\ reports \in [Papers -> Int]
      /\ strays \in SUBSET Papers /\ fixed \in Nat /\ award \in [Papers -> Int] /\ cases \in Nat
      /\ overlapped \in SUBSET Papers
  BY <1>2 DEF ReviewTypes
<1>6. ASSUME Load PROVE loads' \in [Loads -> LoadRow] BY <1>5, <1>6, LoadSent
<1>7. CASE UNCHANGED <<run, loads, reports, strays, fixed>> BY <1>4, <1>5, <1>7
<1>8. CASE UNCHANGED <<run, reports, strays, fixed>> /\ Load BY <1>4, <1>5, <1>6, <1>8
<1>9. ASSUME NEW r \in Runs, RunLands(r) PROVE ReviewTypes'
  <2>1. UNCHANGED <<reports, strays, fixed>> /\ run' = [run EXCEPT ![r] = NoRun]
        /\ (Load \/ UNCHANGED loads)
    BY <1>9 DEF RunLands
  <2> QED BY <1>3, <1>4, <1>5, <1>6, <2>1
<1>10. ASSUME NEW r \in Runs, RunFails(r) PROVE ReviewTypes'
  <2>1. UNCHANGED <<loads, reports, strays, fixed>> /\ run' = [run EXCEPT ![r].heard = FALSE]
    BY <1>10 DEF RunFails, screen
  <2>2. run' \in [Runs -> RunRow] BY <1>5, <2>1 DEF RunRow
  <2> QED BY <1>4, <1>5, <2>1, <2>2
<1>11. ASSUME NEW r \in Runs, NEW force \in BOOLEAN, Run(r, force) PROVE ReviewTypes'
  <2>1. UNCHANGED <<loads, reports, strays, fixed>>
        /\ run' = [run EXCEPT ![r] = [NoRun EXCEPT !.stage = "sent", !.force = force, !.heard = TRUE]]
    BY <1>11 DEF Run, screen
  <2>2. [NoRun EXCEPT !.stage = "sent", !.force = force, !.heard = TRUE] \in RunRow
    BY <1>3 DEF RunRow
  <2> QED BY <1>4, <1>5, <2>1, <2>2
<1>12. ASSUME NEW l \in Loads, ReadReports(l) PROVE ReviewTypes'
  <2>1. UNCHANGED <<run, reports, strays, fixed>>
        /\ loads' = [loads EXCEPT ![l] = [stage |-> "read", rows |-> award, at |-> cases, strays |-> overlapped]]
    BY <1>12 DEF ReadReports
  <2>2. [stage |-> "read", rows |-> award, at |-> cases, strays |-> overlapped] \in LoadRow
    BY <1>5 DEF LoadRow
  <2> QED BY <1>4, <1>5, <2>1, <2>2
<1>13. ASSUME NEW l \in Loads, LoadLands(l) PROVE ReviewTypes'
  <2>1. UNCHANGED <<run, fixed>> /\ loads' = [loads EXCEPT ![l] = NoLoad]
        /\ reports' = loads[l].rows /\ strays' = loads[l].strays
    BY <1>13 DEF LoadLands
  <2>2. reports' \in [Papers -> Int] /\ strays' \in SUBSET Papers BY <1>5, <2>1 DEF LoadRow
  <2> QED BY <1>3, <1>4, <1>5, <2>1, <2>2
<1>14. ASSUME NEW l \in Loads, LoadFails(l) PROVE ReviewTypes'
  <2>1. UNCHANGED <<run, fixed, reports, strays>> /\ loads' = [loads EXCEPT ![l] = NoLoad]
    BY <1>14 DEF LoadFails
  <2> QED BY <1>3, <1>4, <1>5, <2>1
<1>15. ASSUME SaveLands PROVE ReviewTypes'
  <2>1. UNCHANGED <<run, reports, strays>> /\ fixed' = cases /\ Load
    BY <1>15 DEF SaveLands, onCorrected
  <2> QED BY <1>4, <1>5, <1>6, <2>1
<1>16. ASSUME \/ close \/ correct_test_cases \/ UNCHANGED vars \/ giveUp \/ capabilities
              \/ Edit \/ Leave \/ save \/ SaveFails \/ Unheard
       PROVE  ReviewTypes'
  <2>1. UNCHANGED <<run, loads, reports, strays, fixed>>
    BY <1>16 DEF close, correct_test_cases, vars, giveUp, capabilities, Edit, Leave, save, SaveFails,
       Unheard, screen
  <2> QED BY <1>7, <2>1
<1>17. ASSUME poll PROVE ReviewTypes'
  BY <1>8, <1>17 DEF poll
<1> QED BY <1>9, <1>10, <1>11, <1>12, <1>13, <1>14, <1>15, <1>16, <1>17

-----------------------------------------------------------------------------

\* A reading of the reports finds what MarksCurrent says of the marks.
LEMMA ReadFresh ==
  ASSUME NoticeInv, NEW l \in Loads, ReadReports(l)
  PROVE  FreshWhenRead' /\ Reread'
<1> DEFINE answer == [stage |-> "read", rows |-> award, at |-> cases, strays |-> overlapped]
<1>1. loads' = [loads EXCEPT ![l] = answer] BY DEF ReadReports
<1>2. /\ answer.stage = "read" /\ answer.rows = award
      /\ answer.at = cases /\ answer.strays = overlapped
  OBVIOUS
<1> HIDE DEF answer
<1>3. loads'[l] = answer /\ \A m \in Loads : m # l => loads'[m] = loads[m]
  BY <1>1 DEF NoticeInv, ReviewTypes
<1>4. FreshWhenRead'
  BY <1>2, <1>3 DEF FreshWhenRead, NoticeInv, MarkInv, MarksCurrent
<1>5. loads'[l] # NoLoad
  <2>1. NoLoad.stage = "none" BY DEF NoLoad
  <2> QED BY <1>2, <1>3, <2>1
<1> QED BY <1>4, <1>5 DEF Reread

\* An answer is shown: it is from before the correction, or of its cases.
LEMMA LandFresh ==
  ASSUME NoticeInv, NEW l \in Loads, LoadLands(l)
  PROVE  FreshWhenRead' /\ Reread'
<1>1. /\ loads[l].stage = "read" /\ loads' = [loads EXCEPT ![l] = NoLoad]
      /\ reports' = loads[l].rows /\ strays' = loads[l].strays /\ fixed' = fixed
      /\ late' = (loads[l].at < fixed)
  BY DEF LoadLands
<1>2. NoLoad.stage = "none" BY DEF NoLoad
<1>3. FreshWhenRead'
  <2>1. \A m \in Loads : loads'[m] = loads[m] \/ loads'[m] = NoLoad
    BY <1>1 DEF NoticeInv, ReviewTypes
  <2> QED BY <1>2, <2>1 DEF FreshWhenRead, NoticeInv
<1>4. loads[l].at \in Nat /\ fixed \in Nat BY DEF NoticeInv, ReviewTypes, LoadRow
<1>5. ASSUME ~late', NEW p \in Papers
      PROVE  reports'[p] = Unmarked \/ reports'[p] >= fixed' \/ p \in strays'
  <2>0. ~(loads[l].at < fixed) BY <1>1, <1>5, Zenon
  <2>1. loads[l].at >= fixed BY <1>4, <2>0
  <2>2. loads[l].rows[p] # Unmarked => loads[l].rows[p] = loads[l].at \/ p \in loads[l].strays
    BY <1>1 DEF NoticeInv, FreshWhenRead
  <2> QED BY <1>1, <2>1, <2>2
<1> QED BY <1>3, <1>5 DEF Reread

\* A request fails, and the screen says so.
LEMMA FailFresh ==
  ASSUME NoticeInv, NEW l \in Loads, LoadFails(l)
  PROVE  FreshWhenRead' /\ Reread'
<1>1. NoLoad.stage = "none" BY DEF NoLoad
<1>2. error' /\ \A m \in Loads : loads'[m] = loads[m] \/ loads'[m] = NoLoad
  BY DEF LoadFails, NoticeInv, ReviewTypes
<1> QED BY <1>1, <1>2 DEF FreshWhenRead, NoticeInv, Reread

\* A request is sent, after a correction above all.
LEMMA SentFresh ==
  ASSUME NoticeInv, Load
  PROVE  FreshWhenRead' /\ Reread'
<1>1. /\ \E l \in Loads : loads'[l] # NoLoad
      /\ \A l \in Loads : loads'[l] = loads[l] \/ loads'[l].stage = "asked"
  BY LoadSent DEF NoticeInv, ReviewTypes
<1> QED BY <1>1 DEF FreshWhenRead, NoticeInv, Reread

LEMMA NextNotice == NoticeInv /\ [Next]_vars => NoticeInv'
<1> SUFFICES ASSUME NoticeInv, [Next]_vars PROVE NoticeInv' OBVIOUS
<1>1. MarkInv' BY NextMark DEF NoticeInv
<1>2. ASSUME UNCHANGED screen PROVE FreshWhenRead' /\ (corrected => Reread)'
  BY <1>2 DEF NoticeInv, FreshWhenRead, Reread, screen
<1>3. CASE \/ \E w \in Workers : claim(w) \/ grade(w) \/ crash(w)
           \/ correct_test_cases_commit
           \/ \E p \in Papers : submit(p)
  BY <1>1, <1>2, <1>3, ServerTypes DEF NoticeInv
<1>4. CASE \E r \in Runs : Grading(r)
  BY <1>1, <1>2, <1>4, RunTypes DEF NoticeInv
<1>5. ASSUME NEW l \in Loads, ReadReports(l) \/ LoadLands(l) \/ LoadFails(l) PROVE NoticeInv'
  <2>1. ReviewTypes' BY <1>5, ScreenTypes
  <2> QED BY <1>1, <1>5, <2>1, ReadFresh, LandFresh, FailFresh DEF NoticeInv
<1>6. CASE SaveLands \/ poll
  <2>1. ReviewTypes' BY <1>6, ScreenTypes
  <2>2. Load BY <1>6 DEF SaveLands, onCorrected, poll
  <2> QED BY <1>1, <2>1, <2>2, SentFresh DEF NoticeInv
<1>7. ASSUME NEW r \in Runs, RunLands(r) PROVE NoticeInv'
  <2>1. ReviewTypes' BY <1>7, ScreenTypes
  <2>2. Load \/ UNCHANGED screen BY <1>7 DEF RunLands, screen
  <2> QED BY <1>1, <1>2, <2>1, <2>2, SentFresh DEF NoticeInv
<1>8. CASE \/ close \/ correct_test_cases \/ UNCHANGED vars \/ capabilities \/ Edit \/ Leave
           \/ save \/ SaveFails \/ Unheard
           \/ \E r \in Runs : RunFails(r) \/ \E force \in BOOLEAN : Run(r, force)
  <2>1. ReviewTypes' BY <1>8, ScreenTypes
  <2>2. UNCHANGED screen
    BY <1>8, Zenon DEF vars, close, correct_test_cases, capabilities, Edit, Leave, save, SaveFails,
       Unheard, RunFails, Run
  <2> QED BY <1>1, <1>2, <2>1, <2>2 DEF NoticeInv
<1>9. CASE giveUp
  <2>1. ReviewTypes' BY <1>9, ScreenTypes
  <2>2. UNCHANGED <<reports, error, corrected, loads, fixed, late, strays>> BY <1>9 DEF giveUp
  <2> QED BY <1>1, <2>1, <2>2 DEF NoticeInv, FreshWhenRead, Reread
<1> QED BY <1>3, <1>4, <1>5, <1>6, <1>7, <1>8, <1>9, Zenon DEF Next

\* When the notice of a correction has gone, the marks on screen are of the
\* corrected cases, for every number of papers, corrections and requests that
\* overtake each other, and every loss of one (coding-reports.tsx, active).
THEOREM NoticeStaysHonest == Spec => []NoticeHonest
<1>1. Init => NoticeInv
  BY InitMark, InitTypes DEF NoticeInv, Init
<1>2. NoticeInv => NoticeHonest
  BY DEF NoticeInv, Reread, NoticeHonest, Awaiting
<1> QED BY <1>1, <1>2, NextNotice, PTL DEF Spec
==============================================================================

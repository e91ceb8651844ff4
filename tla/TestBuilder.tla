----------------------------- MODULE TestBuilder -----------------------------
(***************************************************************************)
(* The assessment form of the console: a paper is written, sent, stored as *)
(* a draft, opened again and saved again.                                  *)
(*                                                                         *)
(* src/frontend: components/admin-screens.tsx (CreateTestScreen),          *)
(* lib/test-cases.ts, lib/api/live.ts (examPayload), lib/api/http.ts       *)
(* (toQuestion); src/backend/app: services/commands.py, schemas. A text is *)
(* abstracted to whether it is filled in (white space is not).             *)
(***************************************************************************)
EXTENDS Integers, Sequences, SequencesExt, FiniteSets

CONSTANTS
  Candidates,   \* the register
  Blocked,      \* those of it who are blocked
  Capacity,     \* workstations of the lab
  OptionCount,  \* answer choices of a blank question: the form has four
  MaxCases,     \* bound: test cases of a question
  MaxItems,     \* bound: questions on the form
  MaxEdits,     \* bound: changes made on the form
  MaxPosts,     \* bound: saves under way
  MaxDrafts     \* bound: assessments on the server

ASSUME BuilderAssumption ==
  /\ Blocked \subseteq Candidates
  /\ {Capacity, OptionCount, MaxCases, MaxItems, MaxEdits, MaxPosts, MaxDrafts} \subseteq Nat
  /\ OptionCount >= 2

VARIABLES
  form,     \* the fields on screen
  edits,    \* changes made so far
  posts,    \* saves under way
  drafts    \* the assessments on the server

builder == <<form, edits, posts, drafts>>

QuestionType == {"mcq", "multiple", "text", "coding"}
Option == 1..OptionCount

\* A test case on the form: expectsNoOutput is the author's answer to "is it
\* meant to be blank?" and never leaves the browser.
Case == [output: BOOLEAN, none: BOOLEAN, hidden: BOOLEAN, weight: 0..1]

\* A question on the form; output, prompt and each option say "filled in".
Question == [type: QuestionType, prompt: BOOLEAN, options: {<<>>} \cup [Option -> BOOLEAN],
             correct: SUBSET Option, marks: 0..1, tests: Seq(Case)]

blankTestCase(index) == [output |-> FALSE, none |-> FALSE, hidden |-> index > 0, weight |-> 1]

BlankOptions == [o \in Option |-> FALSE]
blankQuestion == [type |-> "mcq", prompt |-> FALSE, options |-> BlankOptions, correct |-> {1},
                  marks |-> 1, tests |-> <<>>]

Closed == [mode |-> "closed", exam |-> 0, details |-> FALSE,
           selected |-> {}, questions |-> <<>>]

-----------------------------------------------------------------------------
(* From the form to the wire.                                              *)

\* What leaves the browser. chosen is history: whether the author ticked "no
\* output"; the server never sees it.
authoredTestCase(test) ==
  [output |-> test.output /\ ~test.none, hidden |-> test.hidden, weight |-> test.weight,
   chosen |-> test.none]

examPayload(q) ==
  [type    |-> q.type, marks |-> q.marks,
   options |-> [o \in DOMAIN q.options |-> [body |-> q.options[o], isCorrect |-> o \in q.correct]],
   tests   |-> IF q.type = "coding" THEN [n \in DOMAIN q.tests |-> authoredTestCase(q.tests[n])]
                                    ELSE <<>>]

\* Variant: a half-written case passes.
testCaseProblem_blank(tests) == tests = <<>> \/ \E n \in DOMAIN tests : tests[n].weight = 0

testCaseProblem(tests) ==
  \/ tests = <<>>
  \/ \E n \in DOMAIN tests : ~tests[n].none /\ ~tests[n].output
  \/ \E n \in DOMAIN tests : tests[n].weight = 0

QuestionProblem(q) ==
  \/ ~q.prompt
  \/ q.type = "coding" /\ testCaseProblem(q.tests)
  \/ /\ q.type \in {"mcq", "multiple"}
     /\ \/ Len(q.options) < 2
        \/ \E o \in DOMAIN q.options : ~q.options[o]
        \/ q.correct = {}

validate(f) ==
  /\ f.details /\ f.selected # {} /\ Cardinality(f.selected) <= Capacity
  /\ \A n \in DOMAIN f.questions : ~QuestionProblem(f.questions[n])

buildInput(f) ==
  [exam      |-> f.exam, students |-> f.selected,
   questions |-> [n \in DOMAIN f.questions |-> examPayload(f.questions[n])]]

-----------------------------------------------------------------------------
(* From the wire to the form.                                              *)

\* Variant: an existing case opens with nothing ticked.
builderTestCase_unticked(test) ==
  [output |-> test.output, none |-> FALSE, hidden |-> test.hidden, weight |-> test.weight]

\* A stored case opened again: a blank output on one is the deliberate kind.
builderTestCase(test) ==
  [output |-> test.output, none |-> ~test.output, hidden |-> test.hidden, weight |-> test.weight]

CorrectOf(q) == {o \in DOMAIN q.options : q.options[o].isCorrect}

\* codingPart, toQuestion: the console's copy of a stored question. 0 stands
\* for no correctOption.
toQuestion(q) ==
  [type    |-> q.type, marks |-> q.marks, tests |-> q.tests,
   options |-> [o \in DOMAIN q.options |-> q.options[o].body],
   correctOption  |-> IF CorrectOf(q) = {} THEN 0
                      ELSE CHOOSE o \in CorrectOf(q) : \A p \in CorrectOf(q) : o <= p,
   correctOptions |-> CorrectOf(q)]

\* assignedStudentIds is read from the sessions of the examination, and a
\* draft has none.
Assigned(e) == IF e.status = "draft" THEN {} ELSE e.students

toTest(e) ==
  [status |-> e.status, assigned |-> Assigned(e),
   questions |-> [n \in DOMAIN e.questions |-> toQuestion(e.questions[n])]]

\* The form's initial state: a single answer is option A when there is none.
Reopened(q) ==
  [type    |-> q.type, prompt |-> TRUE, marks |-> q.marks,
   options |-> IF q.type \in {"text", "coding"} THEN <<>> ELSE q.options,
   correct |-> IF q.type = "multiple" THEN q.correctOptions
               ELSE IF q.correctOption = 0 THEN {1} ELSE {q.correctOption},
   tests   |-> [n \in DOMAIN q.tests |-> builderTestCase(q.tests[n])]]

-----------------------------------------------------------------------------
(* Opening and leaving the form.                                           *)

OpenNew ==
  /\ form.mode = "closed"
  /\ form' = [Closed EXCEPT !.mode = "new", !.questions = <<blankQuestion>>]
  /\ UNCHANGED <<edits, posts, drafts>>

\* Only a draft is opened; for anything else the screen says why not.
OpenEdit(k) ==
  /\ LET test == toTest(drafts[k]) IN
     /\ form.mode = "closed" /\ test.status = "draft"
     /\ form' = [mode |-> "edit", exam |-> k, details |-> TRUE, selected |-> test.assigned,
                 questions |-> [n \in DOMAIN test.questions |-> Reopened(test.questions[n])]]
  /\ UNCHANGED <<edits, posts, drafts>>

Cancel == form.mode # "closed" /\ form' = Closed /\ UNCHANGED <<edits, posts, drafts>>

-----------------------------------------------------------------------------
(* Editing.                                                                *)

Edit(f) ==
  /\ form.mode # "closed" /\ edits < MaxEdits
  /\ form' = f
  /\ edits' = edits + 1
  /\ UNCHANGED <<posts, drafts>>

updateQuestion(i, q) == Edit([form EXCEPT !.questions[i] = q])

\* The first tick of a one-answer question survives the switch.
changeQuestionType(q, type) ==
  IF type \in {"text", "coding"}
    THEN [q EXCEPT !.type = type, !.options = <<>>, !.correct = {},
                   !.tests = IF type = "coding" /\ q.tests = <<>> THEN <<blankTestCase(0)>> ELSE @]
    ELSE [q EXCEPT !.type = type,
                   !.options = IF q.options = <<>> THEN BlankOptions ELSE @,
                   !.correct = IF @ = {} THEN {1}
                               ELSE IF type = "mcq"
                                 THEN {CHOOSE o \in q.correct : \A p \in q.correct : o <= p}
                               ELSE @]

toggleCorrect(q, o) ==
  [q EXCEPT !.correct = IF q.type = "mcq" THEN {o}
                        ELSE IF o \in q.correct THEN q.correct \ {o} ELSE q.correct \cup {o}]

\* What a field or a tick of TestCaseFields makes of a case. The output field
\* is disabled while "no output" is ticked, and ticking it blanks the field.
CasePatches(test) ==
  {[test EXCEPT !.hidden = ~test.hidden], [test EXCEPT !.weight = 1 - test.weight],
   [test EXCEPT !.none = ~test.none, !.output = test.none /\ test.output]}
  \cup IF test.none THEN {} ELSE {[test EXCEPT !.output = ~test.output]}

\* The fields of a question outside its test cases.
WriteQuestion(i) ==
  LET q == form.questions[i] IN
  \/ updateQuestion(i, [q EXCEPT !.prompt = ~q.prompt])
  \/ updateQuestion(i, [q EXCEPT !.marks = 1 - q.marks])
  \/ \E type \in QuestionType \ {q.type} : updateQuestion(i, changeQuestionType(q, type))
  \/ \E o \in DOMAIN q.options : \/ updateQuestion(i, [q EXCEPT !.options[o] = ~q.options[o]])
                                 \/ updateQuestion(i, toggleCorrect(q, o))

\* updateTestCase, addTestCase, removeTestCase: the last case cannot be removed.
WriteCases(i) ==
  LET q == form.questions[i] IN
  /\ q.type = "coding"
  /\ \/ \E n \in DOMAIN q.tests : \E test \in CasePatches(q.tests[n]) :
          updateQuestion(i, [q EXCEPT !.tests[n] = test])
     \/ /\ Len(q.tests) < MaxCases
        /\ updateQuestion(i, [q EXCEPT !.tests = Append(q.tests, blankTestCase(Len(q.tests)))])
     \/ /\ Len(q.tests) > 1
        /\ \E n \in DOMAIN q.tests : updateQuestion(i, [q EXCEPT !.tests = RemoveAt(q.tests, n)])

WritePaper ==
  \/ /\ Len(form.questions) < MaxItems
     /\ Edit([form EXCEPT !.questions = Append(form.questions, blankQuestion)])
  \/ /\ Len(form.questions) > 1
     /\ \E i \in DOMAIN form.questions :
          Edit([form EXCEPT !.questions = RemoveAt(form.questions, i)])

WriteDetails == Edit([form EXCEPT !.details = ~form.details])

\* toggleStudent, "Select all eligible", "Clear". A blocked candidate's box is
\* disabled.
SelectStudents ==
  \/ \E s \in Candidates \ Blocked :
       Edit([form EXCEPT !.selected = IF s \in @ THEN @ \ {s} ELSE @ \cup {s}])
  \/ Edit([form EXCEPT !.selected = Candidates \ Blocked])
  \/ Edit([form EXCEPT !.selected = {}])

-----------------------------------------------------------------------------
(* Saving.                                                                 *)

\* submit and saveDraft: both stay enabled while a save is under way.
submit ==
  /\ form.mode # "closed" /\ validate(form) /\ Len(posts) < MaxPosts
  /\ posts' = Append(posts, buildInput(form))
  /\ UNCHANGED <<form, edits, drafts>>

\* The server's own limits: ExamCreate, QuestionIn and TestCaseIn.
Acceptable(p) ==
  /\ p.questions # <<>>
  /\ \A n \in DOMAIN p.questions :
       LET q == p.questions[n] IN
       /\ q.marks >= 1
       /\ \A o \in DOMAIN q.options : q.options[o].body
       /\ \A m \in DOMAIN q.tests : q.tests[m].weight >= 1

create_exam(p) ==
  /\ p.exam = 0 /\ Acceptable(p) /\ Len(drafts) < MaxDrafts
  /\ drafts' = Append(drafts, [status |-> "draft", students |-> p.students,
                               questions |-> p.questions])

update_exam(p) ==
  /\ p.exam # 0 /\ Acceptable(p) /\ drafts[p.exam].status = "draft"
  /\ drafts' = [drafts EXCEPT ![p.exam].students = p.students, ![p.exam].questions = p.questions]

\* A save is served and answered; the page then leaves the form.
Saved(n) ==
  /\ create_exam(posts[n]) \/ update_exam(posts[n])
  /\ posts' = RemoveAt(posts, n)
  /\ form' = Closed
  /\ UNCHANGED edits

\* Refused: the form stays as it is.
NotSaved(n) ==
  /\ ~Acceptable(posts[n]) \/ (posts[n].exam # 0 /\ drafts[posts[n].exam].status # "draft")
  /\ posts' = RemoveAt(posts, n)
  /\ UNCHANGED <<form, edits, drafts>>

\* Saved, but the answer or the refresh after it is lost: the form stays, and
\* says that it did not go through.
Unheard(n) ==
  /\ create_exam(posts[n]) \/ update_exam(posts[n])
  /\ posts' = RemoveAt(posts, n)
  /\ UNCHANGED <<form, edits>>

\* A colleague schedules the draft while it is open here.
scheduleExam(k) ==
  /\ drafts[k].status = "draft"
  /\ drafts' = [drafts EXCEPT ![k].status = "scheduled"]
  /\ UNCHANGED <<form, edits, posts>>

\* A paper that the form can have stored earlier: one question of each type.
Earlier ==
  LET Ticked(right) == [o \in Option |-> [body |-> TRUE, isCorrect |-> o \in right]]
      Keyed(type, options, tests) ==
        [status |-> "draft", students |-> {CHOOSE s \in Candidates : s \notin Blocked},
         questions |-> <<[type |-> type, marks |-> 1, options |-> options, tests |-> tests]>>]
      shown  == [output |-> TRUE, hidden |-> FALSE, weight |-> 1, chosen |-> FALSE]
      silent == [output |-> FALSE, hidden |-> TRUE, weight |-> 1, chosen |-> TRUE]
  IN  {Keyed("mcq", Ticked({OptionCount}), <<>>), Keyed("multiple", Ticked(Option), <<>>),
       Keyed("text", <<>>, <<>>), Keyed("coding", <<>>, <<shown, silent>>)}

BuilderInit ==
  /\ form = Closed /\ edits = 0 /\ posts = <<>>
  /\ \/ drafts = <<>>
     \/ Candidates # Blocked /\ Capacity >= 1 /\ \E e \in Earlier : drafts = <<e>>

BuilderNext ==
  \/ OpenNew \/ Cancel \/ submit
  \/ WritePaper \/ WriteDetails \/ SelectStudents
  \/ \E i \in DOMAIN form.questions : WriteQuestion(i) \/ WriteCases(i)
  \/ \E k \in DOMAIN drafts : OpenEdit(k) \/ scheduleExam(k)
  \/ \E n \in DOMAIN posts : Saved(n) \/ NotSaved(n) \/ Unheard(n)

BuilderSpec == BuilderInit /\ [][BuilderNext]_builder

-----------------------------------------------------------------------------
(* Properties.                                                             *)

\* The form never holds a question that its own type cannot express: one tick
\* for one answer, and somewhere to put the answer key of a program
\* (changeQuestionType, toggleCorrect, removeTestCase).
FormCoherent ==
  \A i \in DOMAIN form.questions :
    LET q == form.questions[i] IN
    /\ q \in Question
    /\ q.type = "mcq" => Cardinality(q.correct) = 1
    /\ q.type = "coding" => q.tests # <<>>

\* Whatever was switched, ticked and saved again on the way, a stored question
\* can be marked: choices are written and one of them is right, and a test
\* case that expects no output was meant to (admin-screens.tsx:304-320).
StoredPaperScorable ==
  \A k \in DOMAIN drafts : \A n \in DOMAIN drafts[k].questions :
    LET q == drafts[k].questions[n] IN
    /\ q.type = "mcq" => Cardinality(CorrectOf(q)) = 1
    /\ q.type = "multiple" => CorrectOf(q) # {}
    /\ q.type \in {"mcq", "multiple"} => Len(q.options) >= 2
    /\ q.type = "coding" => q.tests # <<>>
    /\ \A m \in DOMAIN q.tests : q.tests[m].output \/ q.tests[m].chosen

\* Opening a draft loses nothing of its paper: the form as it opens would be
\* accepted, and would send what is stored (admin-screens.tsx:122-125).
Sent(q) == [q EXCEPT !.tests = [n \in DOMAIN q.tests |->
             [output |-> q.tests[n].output, hidden |-> q.tests[n].hidden,
              weight |-> q.tests[n].weight]]]
PaperRoundTrips ==
  [][\A k \in DOMAIN drafts : OpenEdit(k) =>
       \A n \in DOMAIN drafts[k].questions :
         /\ ~QuestionProblem(form'.questions[n])
         /\ Sent(examPayload(form'.questions[n])) = Sent(drafts[k].questions[n])]_builder

\* Everyone on a stored roster may sit and has a workstation.
RosterSits ==
  \A k \in DOMAIN drafts :
    /\ drafts[k].students # {} /\ drafts[k].students \cap Blocked = {}
    /\ Cardinality(drafts[k].students) <= Capacity

\* Whatever is written on the form has an answer key its type can express, and
\* whatever is stored can be sat and can be marked.
StoredPaperSound == FormCoherent /\ StoredPaperScorable /\ RosterSits
==============================================================================

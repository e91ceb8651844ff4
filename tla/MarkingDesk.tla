----------------------------- MODULE MarkingDesk -----------------------------
(***************************************************************************)
(* The screen on which written answers are marked: a mark is sent, the     *)
(* list is read again, and more than one answer can be under way.          *)
(*                                                                         *)
(* src/frontend/components/marking.tsx; src/backend/app/services           *)
(* sessions.py (award_marks; its grading is in ExamLifecycle).             *)
(***************************************************************************)
EXTENDS Integers, FiniteSets

CONSTANTS
  Items,      \* written answers
  Worth,      \* marks of the question
  Jobs,       \* requests of the screen, in flight
  MaxAwards,  \* bound: marks given
  MaxBreaks   \* bound: requests that fail

ASSUME MarkingAssumption == Worth \in Nat /\ MaxAwards \in Nat /\ MaxBreaks \in Nat

VARIABLES
  awarded,   \* answers.awarded_marks
  shown,     \* the list on screen, NoList before the first one arrives
  typed,     \* the draft of each answer: Untyped, Blank or a number
  saving,    \* the answer whose button is disabled
  problem,   \* the message above the list
  job,
  given, breaks,
  stored,    \* history: the marks each answer has had
  writes,    \* history: marks stored so far, and
  asof,      \* how many of them the list on screen was read after
  alone,     \* history: no colleague has marked
  crossed    \* history: a list arrived after one that was read later

history == <<asof, alone, crossed>>
marking == <<awarded, shown, typed, saving, problem, job, given, breaks, stored, writes, history>>

NotMarked == -1
Untyped == -2
Blank == -3
NoItem == "none"
Marks == 0..Worth
NoList == [i \in Items |-> Untyped]

\* stage: "award" and "stored" around the server's write, "list" and "read"
\* around the reading of the list; copy is the list, read after newest writes.
NoJob == [stage |-> "none", item |-> NoItem, mark |-> 0, copy |-> NoList, newest |-> 0]

-----------------------------------------------------------------------------
(* The field and its button.                                               *)

Value(i) == IF typed[i] # Untyped THEN typed[i]
            ELSE IF shown[i] = NotMarked THEN Blank ELSE shown[i]

\* Any number can be typed, one mark too many included.
Type(i) == /\ shown # NoList
           /\ \E v \in {Blank} \cup 0..Worth + 1 : typed' = [typed EXCEPT ![i] = v]
           /\ UNCHANGED <<awarded, shown, saving, problem, job, given, breaks, stored, writes, history>>

Pressable(i) == shown # NoList /\ saving # i /\ Value(i) # Blank

AwardRefused(i) ==
  /\ Pressable(i) /\ Value(i) \notin Marks
  /\ problem' = "range"
  /\ UNCHANGED <<awarded, shown, typed, saving, job, given, breaks, stored, writes, history>>

award(i) ==
  /\ Pressable(i) /\ Value(i) \in Marks /\ given < MaxAwards
  /\ \E j \in Jobs :
       /\ job[j].stage = "none"
       /\ job' = [job EXCEPT ![j] = [NoJob EXCEPT !.stage = "award", !.item = i, !.mark = Value(i)]]
  /\ saving' = i /\ problem' = "none" /\ given' = given + 1
  /\ UNCHANGED <<awarded, shown, typed, breaks, stored, writes, history>>

-----------------------------------------------------------------------------
(* The server.                                                             *)

award_marks(j) ==
  /\ job[j].stage = "award"
  /\ awarded' = [awarded EXCEPT ![job[j].item] = job[j].mark]
  /\ stored' = [stored EXCEPT ![job[j].item] = @ \cup {job[j].mark}] /\ writes' = writes + 1
  /\ job' = [job EXCEPT ![j].stage = "stored"]
  /\ UNCHANGED <<shown, typed, saving, problem, given, breaks, history>>

\* A colleague marks on another console.
AwardedElsewhere(i, m) ==
  /\ given < MaxAwards /\ given' = given + 1
  /\ awarded' = [awarded EXCEPT ![i] = m]
  /\ stored' = [stored EXCEPT ![i] = @ \cup {m}] /\ writes' = writes + 1
  /\ alone' = FALSE
  /\ UNCHANGED <<shown, typed, saving, problem, job, breaks, asof, crossed>>

list(j) ==
  /\ job[j].stage = "list"
  /\ job' = [job EXCEPT ![j].stage = "read", ![j].copy = awarded, ![j].newest = writes]
  /\ UNCHANGED <<awarded, shown, typed, saving, problem, given, breaks, stored, writes, history>>

-----------------------------------------------------------------------------
(* The answers.                                                            *)

\* Variant: nothing is read again.
AwardLands_unread(j) ==
  /\ job[j].stage = "stored"
  /\ job' = [job EXCEPT ![j] = NoJob]
  /\ typed' = [typed EXCEPT ![job[j].item] = Blank]
  /\ saving' = NoItem
  /\ UNCHANGED <<awarded, shown, problem, given, breaks, stored, writes, history>>

\* The mark is in: the list is read again.
AwardLands(j) ==
  /\ job[j].stage = "stored"
  /\ job' = [job EXCEPT ![j].stage = "list"]
  /\ UNCHANGED <<awarded, shown, typed, saving, problem, given, breaks, stored, writes, history>>

\* setDraft and finally: the field is blanked, whatever was typed meanwhile,
\* and every button is enabled.
Finished(j) ==
  /\ job' = [job EXCEPT ![j] = NoJob]
  /\ typed' = IF job[j].item = NoItem THEN typed ELSE [typed EXCEPT ![job[j].item] = Blank]
  /\ saving' = IF job[j].item = NoItem THEN saving ELSE NoItem
  /\ UNCHANGED <<awarded, given, stored, writes, alone>>

\* The list is shown in the order in which the answers arrive. Only a reload
\* takes the message away.
load(j) ==
  /\ job[j].stage = "read"
  /\ shown' = job[j].copy
  /\ problem' = IF job[j].item = NoItem THEN problem ELSE "none"
  /\ asof' = job[j].newest /\ crossed' = (crossed \/ job[j].newest < asof)
  /\ Finished(j)
  /\ UNCHANGED breaks

\* A reload that fails says so; the mark is in, and the field is blanked.
LoadBreaks(j) ==
  /\ job[j].stage \in {"list", "read"} /\ breaks < MaxBreaks /\ breaks' = breaks + 1
  /\ problem' = "load"
  /\ Finished(j)
  /\ UNCHANGED <<shown, asof, crossed>>

\* An award that fails, before or after the server stored it.
AwardBreaks(j) ==
  /\ job[j].stage \in {"award", "stored"} /\ breaks < MaxBreaks /\ breaks' = breaks + 1
  /\ problem' = "save" /\ saving' = NoItem
  /\ job' = [job EXCEPT ![j] = NoJob]
  /\ UNCHANGED <<awarded, shown, typed, given, stored, writes, history>>

MarkingInit ==
  /\ awarded = [i \in Items |-> NotMarked] /\ stored = [i \in Items |-> {}]
  /\ shown = NoList /\ typed = [i \in Items |-> Untyped]
  /\ saving = NoItem /\ problem = "none" /\ given = 0 /\ breaks = 0
  /\ writes = 0 /\ asof = 0 /\ alone = TRUE /\ crossed = FALSE
  /\ \E j \in Jobs : job = [k \in Jobs |-> IF k = j THEN [NoJob EXCEPT !.stage = "list"] ELSE NoJob]

MarkingNext ==
  \/ \E i \in Items : \/ Type(i) \/ AwardRefused(i) \/ award(i)
                      \/ \E m \in Marks : AwardedElsewhere(i, m)
  \/ \E j \in Jobs : \/ award_marks(j) \/ list(j) \/ AwardLands(j) \/ load(j)
                     \/ LoadBreaks(j) \/ AwardBreaks(j)

MarkingSpec == MarkingInit /\ [][MarkingNext]_marking
-----------------------------------------------------------------------------
(* Properties.                                                             *)

\* A mark on the list is a mark that the answer has had.
ShownWasStored ==
  shown # NoList => \A i \in Items : shown[i] # NotMarked => shown[i] \in stored[i]

\* Once nothing is under way, the marks given here are on the list, unless a
\* request failed, a colleague is marking too, or lists arrived out of order.
QuietListCurrent ==
  breaks = 0 /\ alone /\ ~crossed /\ (\A j \in Jobs : job[j].stage = "none")
  => shown = awarded

\* The list never shows a mark that was not given, so "All marked" is never said
\* while an answer is unread, and at rest it is what the server holds
\* (marking.tsx:88-89, "Reload rather than patching locally"; 107-108).
ListHonest == ShownWasStored /\ QuietListCurrent
==============================================================================

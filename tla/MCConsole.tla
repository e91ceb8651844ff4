------------------------------ MODULE MCConsole ------------------------------
(***************************************************************************)
(* The desks of the staff console for TLC: the paper builder, the register *)
(* of candidates, the marking screen, the lab views, the results screen    *)
(* and the seating chart. The desks share no state, so a behaviour is of   *)
(* one desk, chosen at the start, with the others at rest: what TLC        *)
(* explores is the sum of the desks and not their product.                 *)
(***************************************************************************)
EXTENDS TestBuilder, RosterDesk, MarkingDesk, LabViews, ResultsView, MCSeating, TLC

CONSTANTS e1, e2, m1, m2, m3, l1, l2

VARIABLE desk

Desks == {"builder", "roster", "marking", "labs", "results", "seating"}

\* Two examinations in one lab, and a machine in another lab.
TwoExams == <<e1, e2>>
LabPlan == (m1 :> l1) @@ (m2 :> l1) @@ (m3 :> l2)
Venues == (e1 :> l1) @@ (e2 :> l1)

\* Files of two rows; the second row may be one that cannot be read.
RosterFiles == {<<p, q>> : p \in People, q \in People \cup {Illegible}}

NoLab == /\ hall = [e \in Exam |-> <<>>]
         /\ machine = [m \in Machines |-> "unenrolled"]
         /\ moves = 0 /\ unchanged = TRUE /\ store = WholeState

ConsoleInit ==
  /\ desk \in Desks
  /\ BuilderInit /\ (desk # "builder" => drafts = <<>>)
  /\ RosterInit  /\ (desk # "roster" => \A p \in People : account[p] = 0)
  /\ MarkingInit /\ (desk # "marking" => job = [j \in Jobs |-> IF j = CHOOSE k \in Jobs : TRUE
                                                               THEN [NoJob EXCEPT !.stage = "list"]
                                                               ELSE NoJob])
  /\ IF desk = "labs" THEN LabInit ELSE NoLab
  /\ ResultsInit
  /\ SeatingInit /\ (desk # "seating" => \A s \in Students : chart[s] = -1)

Rest(d) ==
  /\ desk' = desk
  /\ d # "builder" => UNCHANGED builder
  /\ d # "roster"  => UNCHANGED register
  /\ d # "marking" => UNCHANGED marking
  /\ d # "labs"    => UNCHANGED lab
  /\ d # "results" => UNCHANGED results
  /\ d # "seating" => UNCHANGED seating_chart

ConsoleNext ==
  \/ desk = "builder" /\ BuilderNext /\ Rest("builder")
  \/ desk = "roster"  /\ RosterNext  /\ Rest("roster")
  \/ desk = "marking" /\ MarkingNext /\ Rest("marking")
  \/ desk = "labs"    /\ LabNext     /\ Rest("labs")
  \/ desk = "results" /\ ResultsNext /\ Rest("results")
  \/ desk = "seating" /\ SeatingNext /\ Rest("seating")

console == <<desk, builder, register, marking, lab, results, seating_chart>>
ConsoleSpec == ConsoleInit /\ [][ConsoleNext]_console
==============================================================================

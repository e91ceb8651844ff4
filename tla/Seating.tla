------------------------------- MODULE Seating -------------------------------
(***************************************************************************)
(* The seating algorithm of backend/app/domain/seating.py.  A workstation  *)
(* is identified with its position in the lab, a number from 1; 0 is a     *)
(* session without a workstation.                                          *)
(***************************************************************************)
EXTENDS Integers, Sequences, FiniteSets

\* How many candidates exceed the available machines.
capacity_shortfall(enrolled, workstations) ==
  IF enrolled > workstations THEN enrolled - workstations ELSE 0

\* The k-th free workstation in position order, or none when they run out:
\* what the k-th call of next(queue, None) returns.
NextFree(k, free) ==
  LET kth == {w \in free : Cardinality({v \in free : v <= w}) = k}
  IN  IF kth = {} THEN 0 ELSE CHOOSE w \in kth : TRUE

\* The positions of the enrolment list whose candidates have no session yet, and
\* the turn each of them has in the walk.
Waiting(enrolled, already_seated) == {i \in DOMAIN enrolled : enrolled[i] \notin already_seated}
Turn(i, waiting) == Cardinality({j \in waiting : j <= i})

\* Faults: the last candidate is dropped; occupied workstations are offered
\* again.
allocate_seats_drop_last(enrolled, workstations, occupied, already_seated) ==
  LET waiting == Waiting(enrolled, already_seated)
  IN  [i \in {j \in waiting : \E k \in waiting : j < k} |->
         [student |-> enrolled[i], computer |-> NextFree(Turn(i, waiting), workstations \ occupied)]]
allocate_seats_reuse(enrolled, workstations, occupied, already_seated) ==
  LET waiting == Waiting(enrolled, already_seated)
  IN  [i \in waiting |->
         [student |-> enrolled[i], computer |-> NextFree(Turn(i, waiting), workstations)]]

\* Candidates are walked in the order given, those who already have a session
\* are skipped, and each of the others takes the next free workstation.  An
\* assignment is filed under its candidate's position in the list.
allocate_seats(enrolled, workstations, occupied, already_seated) ==
  LET waiting == Waiting(enrolled, already_seated)
      free    == workstations \ occupied
  IN  [i \in waiting |->
         [student |-> enrolled[i], computer |-> NextFree(Turn(i, waiting), free)]]

\* Candidates who could not be placed.
unseated(assignments) == {i \in DOMAIN assignments : assignments[i].computer = 0}
==============================================================================

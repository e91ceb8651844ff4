------------------------------ MODULE MCSeating ------------------------------
(***************************************************************************)
(* allocate_seats on its own: a seating chart grown by calling it again    *)
(* and again as candidates enrol, each call given the workstations already *)
(* occupied and the candidates already seated, compared with the loop of   *)
(* the source.                                                             *)
(***************************************************************************)
EXTENDS Seating

CONSTANTS Students, Seats

ASSUME SeatingAssumption == Seats \in Nat

VARIABLES enrolled,  \* candidates in enrolment order
          chart      \* the seat of each candidate who has a session, -1 for none

Seated == {s \in Students : chart[s] # -1}
Occupied == {chart[s] : s \in Seated} \ {0}

\* The sessions an earlier seating may have left: no workstation twice.
SeatingInit == /\ enrolled = <<>>
        /\ chart \in [Students -> -1..Seats]
        /\ \A s, r \in Students : s # r /\ chart[s] > 0 => chart[s] # chart[r]

Enrol(s) == /\ \A i \in DOMAIN enrolled : enrolled[i] # s
            /\ enrolled' = Append(enrolled, s)
            /\ UNCHANGED chart

Placed == allocate_seats(enrolled, 1..Seats, Occupied, Seated)

Seat == /\ chart' = [s \in Students |->
             IF \E i \in DOMAIN Placed : Placed[i].student = s
               THEN Placed[CHOOSE i \in DOMAIN Placed : Placed[i].student = s].computer
               ELSE chart[s]]
        /\ UNCHANGED enrolled

SeatingNext == Seat \/ \E s \in Students : Enrol(s)

seating_chart == <<enrolled, chart>>
SeatingSpec == SeatingInit /\ [][SeatingNext]_seating_chart

-----------------------------------------------------------------------------
\* The loop of the source: walk the list, skip who is seated, take the next of
\* the queue.
Walk ==
  LET next(queue) == IF queue = {} THEN 0 ELSE CHOOSE v \in queue : \A u \in queue : v <= u
      walked[n \in 0..Len(enrolled)] ==
        IF n = 0 THEN [queue |-> (1..Seats) \ Occupied, out |-> <<>>]
        ELSE IF enrolled[n] \in Seated THEN walked[n - 1]
        ELSE LET queue == walked[n - 1].queue
                 out   == walked[n - 1].out
             IN  [queue |-> queue \ {next(queue)},
                  out   |-> [i \in DOMAIN out \cup {n} |->
                               IF i = n THEN [student |-> enrolled[n], computer |-> next(queue)]
                               ELSE out[i]]]
  IN  walked[Len(enrolled)].out

\* The closed form used by ExamLifecycle is the loop: the same candidates at the
\* same workstations.
MatchesTheWalk == Placed = Walk

\* Nobody shares a workstation, and nobody goes without one in a room that has
\* one free.
Exclusive == \A s, r \in Seated : s # r /\ chart[s] # 0 => chart[s] # chart[r]
RoomFull == \A w \in 1..Seats : w \in Occupied \/ \E i \in DOMAIN Placed : Placed[i].computer = w

\* However enrolments and seatings alternate, and whatever an earlier seating
\* left, the next one does what the loop does and the chart stays sound
\* (seating.py:36-73, "a seating list that has already been printed").
SeatingSound == /\ MatchesTheWalk /\ Exclusive
                /\ unseated(Placed) # {} => RoomFull
==============================================================================

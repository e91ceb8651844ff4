------------------------------ MODULE LabViews ------------------------------
(***************************************************************************)
(* The snapshot that the console holds of a lab, read whole or one         *)
(* examination at a time, and the screens that are worked out from it: the *)
(* workstation grid, the roster of an examination, the monitor's counts    *)
(* and the health check.                                                   *)
(*                                                                         *)
(* src/frontend: lib/api/http.ts (loadStateFromServer, loadExamSlice),     *)
(* lib/selectors.ts, lib/health.ts, components/labs.tsx,                   *)
(* components/admin-screens.tsx. Order on screen is left out.              *)
(***************************************************************************)
EXTENDS Lists, SequencesExt, FiniteSetsExt, Transitions

CONSTANTS
  Sittings,   \* the examinations, in the order of the list: a sequence
  Persons,
  Machines,
  LabOf,      \* the lab of each machine
  Venue,      \* the lab of each examination
  MaxMoves    \* bound: changes on the server

Unassigned == "Unassigned"

\* Each examination is listed once; the mark for nobody is nobody's name.
ASSUME LabAssumption ==
  /\ Sittings \in Seq(DOMAIN Venue) /\ IsInjective(Sittings) /\ ToSet(Sittings) = DOMAIN Venue
  /\ IsFiniteSet(Machines) /\ IsFiniteSet(Persons) /\ MaxMoves \in Nat
  /\ Unassigned \notin Machines \cup Persons \cup DOMAIN Venue

Connection == {"online", "warning", "offline"}

VARIABLES
  hall,       \* on the server: the sessions of each examination
  machine,    \* on the server: each machine's enrolment and heartbeat
  moves,
  store,      \* the console's snapshot
  unchanged   \* history: the server is as the last whole read found it

lab == <<hall, machine, moves, store, unchanged>>

Exam == DOMAIN Venue
Labs == {LabOf[m] : m \in Machines} \cup {Venue[e] : e \in Exam}

\* A machine is enrolled before it reports, and reports before it goes quiet.
Reports == [unenrolled |-> {"unseen"}, unseen |-> {"online"}, online |-> {"warning"},
            warning |-> {"online", "quiet"}, quiet |-> {"online"}]

-----------------------------------------------------------------------------
(* The conversions of the snapshot.                                        *)

SESSION_STATUS_FROM_SERVER ==
  [NOT_STARTED |-> "not-ready", WAITING |-> "not-ready", READY |-> "ready",
   ACTIVE |-> "in-progress", SUBMITTED |-> "submitted", AUTO_SUBMITTED |-> "submitted",
   TERMINATED |-> "terminated"]

toSession(e, row) == [test |-> e, student |-> row.student, computer |-> row.computer,
                      connection |-> row.connection,
                      examStatus |-> SESSION_STATUS_FROM_SERVER[row.status]]

toComputer(m) == [connection |-> IF m \in {"online", "warning"} THEN m ELSE "offline",
                  enrolled   |-> m # "unenrolled",
                  seen       |-> m \notin {"unenrolled", "unseen"}]

\* Who was seated last at the machine, in the order of the sessions.
seatedBy(sessions, m) ==
  LET at == {i \in DOMAIN sessions : sessions[i].computer = m}
  IN  IF at = {} THEN Unassigned
      ELSE sessions[CHOOSE i \in at : \A j \in at : j <= i].student

Snapshot(sessions, computers) ==
  [sessions  |-> sessions, computers |-> computers,
   assigned  |-> [m \in Machines |-> seatedBy(sessions, m)]]

Rows(e) == [i \in DOMAIN hall[e] |-> toSession(e, hall[e][i])]

WholeState == Snapshot(FlattenSeq([k \in DOMAIN Sittings |-> Rows(Sittings[k])]),
                     [m \in Machines |-> toComputer(machine[m])])

loadStateFromServer == /\ store' = WholeState /\ unchanged' = TRUE
                       /\ UNCHANGED <<hall, machine, moves>>

\* Variant: seats are worked out from this examination alone.
Slice_own_seats(e) ==
  [Snapshot(Filter(store.sessions, LAMBDA s : s.test # e) \o Rows(e),
         [m \in Machines |-> IF LabOf[m] = Venue[e] THEN toComputer(machine[m])
                                                    ELSE store.computers[m]])
   EXCEPT !.assigned = [m \in Machines |-> seatedBy(Rows(e), m)]]

\* One examination and the machines of its lab are read again and merged.
Slice(e) ==
  Snapshot(Filter(store.sessions, LAMBDA s : s.test # e) \o Rows(e),
         [m \in Machines |-> IF LabOf[m] = Venue[e] THEN toComputer(machine[m])
                                                    ELSE store.computers[m]])

loadExamSlice(e) == store' = Slice(e) /\ UNCHANGED <<hall, machine, moves, unchanged>>

-----------------------------------------------------------------------------
(* The screens.                                                            *)

\* labs.tsx: the tile of a workstation joins the candidate seated last with
\* the first session found on the machine.
buildComputerView(m) ==
  LET at == {i \in DOMAIN store.sessions : store.sessions[i].computer = m}
  IN  [student    |-> store.assigned[m],
       examStatus |-> IF at = {} THEN "not-ready"
                      ELSE store.sessions[CHOOSE i \in at : \A j \in at : i <= j].examStatus]

\* admin-screens.tsx: a roster row falls back on any machine that the grid
\* gives the candidate.
buildRosterRow(e, s) ==
  LET of == {i \in DOMAIN store.sessions :
               store.sessions[i].test = e /\ store.sessions[i].student = s}
      session == store.sessions[CHOOSE i \in of : \A j \in of : i <= j]
      sat == {m \in Machines : store.assigned[m] = s}
  IN  [computer   |-> IF session.computer \in Machines THEN session.computer
                      ELSE IF sat = {} THEN Unassigned ELSE CHOOSE m \in sat : TRUE,
       examStatus |-> session.examStatus]

buildMonitorRows(e) == Filter(store.sessions, LAMBDA s : s.test = e)

filterMonitorRows(rows, filter) ==
  CASE filter = "active"    -> Filter(rows, LAMBDA r : r.examStatus = "in-progress")
    [] filter = "submitted" -> Filter(rows, LAMBDA r : r.examStatus = "submitted")
    [] filter \in {"warning", "offline"} -> Filter(rows, LAMBDA r : r.connection = filter)
    [] OTHER -> rows

summarizeMonitorRows(rows) ==
  LET Count(P(_)) == Cardinality({i \in DOMAIN rows : P(rows[i])})
  IN  [assigned     |-> Len(rows),
       online       |-> Count(LAMBDA r : r.connection # "offline"),
       submitted    |-> Count(LAMBDA r : r.examStatus = "submitted"),
       active       |-> Count(LAMBDA r : r.examStatus = "in-progress"),
       warnings     |-> Count(LAMBDA r : r.connection = "warning"),
       disconnected |-> Count(LAMBDA r : r.connection = "offline")]

\* health.ts, checkLabs for one lab.
checkLab(l) ==
  LET own == {m \in Machines : LabOf[m] = l}
      Those(P(_)) == Cardinality({m \in own : P(store.computers[m])})
  IN  [total         |-> Cardinality(own),
       online        |-> Those(LAMBDA c : c.connection = "online"),
       warning       |-> Those(LAMBDA c : c.connection = "warning"),
       offline       |-> Those(LAMBDA c : c.connection = "offline"),
       neverEnrolled |-> Those(LAMBDA c : ~c.enrolled),
       neverSeen     |-> Those(LAMBDA c : c.enrolled /\ ~c.seen),
       quiet         |-> Those(LAMBDA c : c.connection = "offline" /\ c.seen),
       unusable      |-> Those(LAMBDA c : c.connection = "offline" \/ ~c.enrolled)]

labVerdict(row) ==
  IF row.total = 0 \/ row.online = 0 THEN "unusable"
  ELSE IF row.offline > 0 \/ row.warning > 0 \/ row.neverEnrolled > 0 \/ row.neverSeen > 0
    THEN "attention" ELSE "ok"

computeLabOccupancy(l) ==
  LET own == {m \in Machines : LabOf[m] = l}
      Those(c) == Cardinality({m \in own : store.computers[m].connection = c})
  IN  [total |-> Cardinality(own), online |-> Those("online"), warning |-> Those("warning"),
       offline |-> Those("offline")]

labLiveStatus(occ) ==
  IF occ.online = 0 THEN "offline" ELSE IF occ.warning > 0 THEN "warning" ELSE "online"

LabCard(l) == labLiveStatus(computeLabOccupancy(l))

\* The dashboard's presence: the tiles of the running examinations added up.
liveSummary ==
  LET Total(f(_)) == MapThenSumSet(LAMBDA e : f(summarizeMonitorRows(buildMonitorRows(e))), Exam)
  IN  [assigned |-> Total(LAMBDA s : s.assigned), online |-> Total(LAMBDA s : s.online),
       warnings |-> Total(LAMBDA s : s.warnings)]

\* The paper that a reset of the password would take the candidate out of; the
\* examinations here are the ones that are live.
examInProgressFor(p) ==
  LET seated == {i \in DOMAIN store.sessions :
                   /\ store.sessions[i].student = p
                   /\ store.sessions[i].examStatus \in {"ready", "in-progress"}}
  IN  IF seated = {} THEN Unassigned
      ELSE store.sessions[CHOOSE i \in seated : \A j \in seated : i <= j].test

-----------------------------------------------------------------------------
(* The server.                                                             *)

ServerMove == moves < MaxMoves /\ moves' = moves + 1 /\ unchanged' = FALSE /\ UNCHANGED store

SessionMoves(e, i) ==
  /\ ServerMove
  /\ \E to \in SESSION_TRANSITIONS[hall[e][i].status] : hall' = [hall EXCEPT ![e][i].status = to]
  /\ UNCHANGED machine

HeartbeatAges(e, i) ==
  /\ ServerMove
  /\ \E c \in Connection \ {hall[e][i].connection} :
       hall' = [hall EXCEPT ![e][i].connection = c]
  /\ UNCHANGED machine

MachineReports(m) ==
  /\ ServerMove
  /\ \E to \in Reports[machine[m]] : machine' = [machine EXCEPT ![m] = to]
  /\ UNCHANGED hall

\* Every candidate has a session, at a machine of the examination's own lab or
\* at none, and nobody shares one within an examination (ExamSafety).
Seatings(e) ==
  {f \in [Persons -> {m \in Machines : LabOf[m] = Venue[e]} \cup {Unassigned}] :
     \A p, q \in Persons : p # q /\ f[p] = f[q] => f[p] = Unassigned}
SeatedRows(f) ==
  SetToSeq({[student |-> p, computer |-> f[p], status |-> "ACTIVE", connection |-> "online"] :
            p \in Persons})

LabInit ==
  /\ hall \in {h \in [Exam -> UNION {{SeatedRows(f) : f \in Seatings(e)} : e \in Exam}] :
                 \A e \in Exam : \E f \in Seatings(e) : h[e] = SeatedRows(f)}
  /\ machine \in [Machines -> {"unenrolled", "online", "quiet"}]
  /\ moves = 0 /\ unchanged = TRUE
  /\ store = WholeState

LabNext ==
  \/ loadStateFromServer
  \/ \E e \in Exam : \/ loadExamSlice(e)
                     \/ \E i \in DOMAIN hall[e] : SessionMoves(e, i) \/ HeartbeatAges(e, i)
  \/ \E m \in Machines : MachineReports(m)

LabSpec == LabInit /\ [][LabNext]_lab

-----------------------------------------------------------------------------
(* Properties.                                                             *)

\* A machine that one examination uses.
Unshared(m) == \A i, j \in DOMAIN store.sessions :
  store.sessions[i].computer = m /\ store.sessions[j].computer = m =>
    store.sessions[i].test = store.sessions[j].test

\* Reading one examination at a time ends in the snapshot that a whole read
\* gives, so nothing of the other examinations is lost or doubled; which of two
\* examinations a shared machine is shown under depends on the order
\* (http.ts:626-636).
SlicesAgree ==
  unchanged => /\ ToSet(store.sessions) = ToSet(WholeState.sessions)
               /\ Len(store.sessions) = Len(WholeState.sessions)
               /\ store.computers = WholeState.computers
               /\ \A m \in Machines : Unshared(m) => store.assigned[m] = WholeState.assigned[m]

\* The workstation on a candidate's roster row is, on the grid, that
\* candidate's, with the same status.
RowMatchesGrid ==
  \A i \in DOMAIN store.sessions :
    LET s == store.sessions[i]
        row == buildRosterRow(s.test, s.student)
    IN  s.computer \in Machines /\ Unshared(s.computer) =>
          /\ row.computer = s.computer
          /\ buildComputerView(s.computer) = [student |-> s.student, examStatus |-> row.examStatus]

\* The tiles above the monitor count what its tabs list, and split the roster;
\* the dashboard counts every session once (selectors.ts:54-94).
TilesMatchTabs ==
  /\ \A e \in Exam :
      LET rows == buildMonitorRows(e)
          sum  == summarizeMonitorRows(rows)
      IN
        /\ sum.active = Len(filterMonitorRows(rows, "active"))
        /\ sum.submitted = Len(filterMonitorRows(rows, "submitted"))
        /\ sum.warnings = Len(filterMonitorRows(rows, "warning"))
        /\ sum.disconnected = Len(filterMonitorRows(rows, "offline"))
        /\ sum.online + sum.disconnected = sum.assigned /\ sum.assigned = Len(hall[e])
  /\ liveSummary.assigned = Len(store.sessions)
  /\ liveSummary.online = Cardinality({i \in DOMAIN store.sessions :
                                        store.sessions[i].connection # "offline"})

\* Every machine that cannot seat a candidate is described once, by one fault,
\* and a lab is only well when each of its machines is (health.ts:26-33).
FaultsCountedOnce ==
  \A l \in Labs :
    LET row == checkLab(l) IN
    /\ row.quiet + row.neverSeen + row.neverEnrolled = row.unusable
    /\ row.online + row.warning + row.unusable = row.total
    /\ labVerdict(row) = "ok" <=>
         row.total > 0 /\ \A m \in Machines : LabOf[m] = l => store.computers[m].connection = "online"

\* The card of a lab and the health check do not contradict each other: the
\* card calls it offline just when the check finds it unusable, and on line
\* when the check finds nothing (labs.tsx:50-51, health.ts:73-79).
CardAgreesWithCheck ==
  \A l \in Labs :
    LET verdict == labVerdict(checkLab(l)) IN
    /\ LabCard(l) = "offline" <=> verdict = "unusable"
    /\ verdict = "ok" => LabCard(l) = "online"

\* Whoever is about to reset a password is told of a paper being written: with
\* a current snapshot, read whole or merged, the warning appears just when the
\* candidate has a session that is ready or active, and names its examination
\* (selectors.ts:161-173).
ResetWarned ==
  LET Writing(p, e) == \E i \in DOMAIN hall[e] : /\ hall[e][i].student = p
                                                 /\ hall[e][i].status \in {"READY", "ACTIVE"}
  IN  unchanged => \A p \in Persons :
        /\ examInProgressFor(p) = Unassigned <=> \A e \in Exam : ~Writing(p, e)
        /\ examInProgressFor(p) # Unassigned => Writing(p, examInProgressFor(p))

\* However the snapshot was put together, from whole reads and from reads of one
\* examination merged into it, it is the server's while that rests, and the
\* screens built on it tell one story: roster and grid, tiles and tabs, lab card
\* and health check, and the warning before a password reset.
ScreensAgree == /\ SlicesAgree /\ ResetWarned
                /\ RowMatchesGrid /\ TilesMatchTabs /\ FaultsCountedOnce /\ CardAgreesWithCheck
==============================================================================

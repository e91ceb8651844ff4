------------------------------ MODULE DeskProofs ------------------------------
(***************************************************************************)
(* The desks of the staff console for any number of answers, people,       *)
(* files, questions and requests under way: the marking list is honest, a  *)
(* password shown once reaches its owner, and a stored paper can be sat    *)
(* and marked.                                                             *)
(***************************************************************************)
EXTENDS TestBuilder, RosterDesk, MarkingDesk, FiniteSetTheorems, SequenceTheorems,
        WellFoundedInduction, TLAPS

-----------------------------------------------------------------------------
(* The marking screen.                                                     *)

JobRow == [stage : {"none", "award", "stored", "list", "read"}, item : Items \cup {NoItem}, mark : Marks,
           copy : [Items -> Int], newest : Nat]

MarkingTypes ==
  /\ awarded \in [Items -> Int] /\ shown \in [Items -> Int] /\ typed \in [Items -> Int]
  /\ job \in [Jobs -> JobRow] /\ stored \in [Items -> SUBSET Marks] /\ writes \in Nat /\ asof \in Nat
  /\ breaks \in Nat
  /\ \A j \in Jobs : job[j].stage = "award" => job[j].item \in Items

\* The marks of a list are marks that the answers have had.
Had(marks, had) == \A i \in Items : marks[i] # NotMarked => marks[i] \in had[i]

\* A request that will read the list, or has read the newest one.
Going(j) == job[j].stage \in {"stored", "list"}
Fresh(j) == job[j].stage = "read" /\ job[j].newest = writes /\ job[j].copy = awarded

\* Unless something went wrong, the list is current or a current one is coming.
MarkingInv ==
  /\ Had(awarded, stored) /\ ShownWasStored
  /\ \A j \in Jobs : job[j].stage = "read" =>
       /\ Had(job[j].copy, stored) /\ job[j].newest <= writes
       /\ job[j].newest = writes => job[j].copy = awarded
  /\ breaks = 0 /\ alone /\ ~crossed =>
       \/ shown = awarded /\ asof = writes
       \/ \E j \in Jobs : Going(j) \/ Fresh(j)

LEMMA MarkingRows ==
  /\ NoList \in [Items -> Int] /\ NoJob \in JobRow /\ NoJob.stage = "none" /\ Marks \subseteq Int
  /\ 0 \in Marks
<1>1. NoList \in [Items -> Int] BY DEF NoList, Untyped
<1>2. 0 \in Marks /\ Marks \subseteq Int BY MarkingAssumption DEF Marks
<1> QED BY <1>1, <1>2 DEF NoJob, JobRow

\* One request moves on.
LEMMA JobMoves ==
  ASSUME MarkingTypes, NEW j \in Jobs, NEW d \in JobRow, job' = [job EXCEPT ![j] = d],
         d.stage = "award" => d.item \in Items
  PROVE  /\ job' \in [Jobs -> JobRow] /\ job'[j] = d
         /\ \A k \in Jobs : k # j => job'[k] = job[k]
         /\ \A k \in Jobs : job'[k].stage = "award" => job'[k].item \in Items
BY DEF MarkingTypes

\* A request goes on towards the list, or something fails.
LEMMA MarkingKept ==
  ASSUME MarkingTypes, MarkingInv, UNCHANGED <<awarded, shown, stored, writes, history>>,
         NEW j \in Jobs, NEW d \in JobRow, job' = [job EXCEPT ![j] = d],
         d.stage = "read" => d.copy = awarded /\ d.newest = writes,
         d.stage = "award" => d.item \in Items,
         \/ breaks' # 0
         \/ breaks' = breaks /\ job[j].stage # "read" /\ (Going(j) => d.stage \in {"stored", "list", "read"})
  PROVE  MarkingInv'
<1>1. job'[j] = d /\ \A k \in Jobs : k # j => job'[k] = job[k] BY JobMoves
<1>2. writes \in Nat BY DEF MarkingTypes
<1>3. Had(awarded', stored') /\ ShownWasStored' BY DEF MarkingInv, Had, ShownWasStored
<1>4. ASSUME NEW k \in Jobs, job'[k].stage = "read"
      PROVE  /\ Had(job'[k].copy, stored) /\ job'[k].newest <= writes
             /\ job'[k].newest = writes => job'[k].copy = awarded
  BY <1>1, <1>2, <1>4 DEF MarkingInv
<1>5. \A k \in Jobs : job'[k].stage = "read" => Had(job'[k].copy, stored')
  BY <1>4 DEF Had
<1>6. ASSUME breaks' = 0, alone, ~crossed, ~(shown = awarded /\ asof = writes)
      PROVE  \E k \in Jobs : Going(k)' \/ Fresh(k)'
  <2>1. breaks = 0 /\ job[j].stage # "read" /\ (Going(j) => d.stage \in {"stored", "list", "read"}) BY <1>6
  <2>2. PICK k \in Jobs : Going(k) \/ Fresh(k) BY <1>6, <2>1 DEF MarkingInv
  <2>3. CASE k = j
    <3>1. d.stage \in {"stored", "list", "read"} BY <2>1, <2>2, <2>3 DEF Fresh
    <3> QED BY <1>1, <3>1 DEF Going, Fresh
  <2>4. CASE k # j BY <1>1, <2>2, <2>4 DEF Going, Fresh
  <2> QED BY <2>3, <2>4
<1> QED BY <1>3, <1>4, <1>5, <1>6 DEF MarkingInv, history

\* A mark is stored: it counts as one of the answer's.
LEMMA MarkStored ==
  ASSUME MarkingTypes, MarkingInv, NEW i \in Items, NEW m \in Marks,
         awarded' = [awarded EXCEPT ![i] = m], stored' = [stored EXCEPT ![i] = stored[i] \cup {m}],
         writes' = writes + 1
  PROVE  /\ awarded' \in [Items -> Int] /\ stored' \in [Items -> SUBSET Marks] /\ writes' \in Nat
         /\ Had(awarded', stored')
         /\ \A marks : Had(marks, stored) => Had(marks, stored')
<1>1. stored \in [Items -> SUBSET Marks] /\ awarded \in [Items -> Int] /\ writes \in Nat BY DEF MarkingTypes
<1>2. \A k \in Items : stored[k] \subseteq stored'[k] /\ (k # i => awarded'[k] = awarded[k])
  BY <1>1
<1>3. awarded'[i] = m /\ m \in stored'[i] BY <1>1
<1>4. Had(awarded, stored) BY DEF MarkingInv
<1> QED BY <1>1, <1>2, <1>3, <1>4, MarkingRows DEF Had

LEMMA NextMarking ==
  ASSUME MarkingTypes, MarkingInv, [MarkingNext]_marking
  PROVE  MarkingTypes' /\ MarkingInv'
<1>0. /\ awarded \in [Items -> Int] /\ shown \in [Items -> Int] /\ typed \in [Items -> Int]
      /\ job \in [Jobs -> JobRow] /\ stored \in [Items -> SUBSET Marks] /\ writes \in Nat /\ asof \in Nat
      /\ breaks \in Nat /\ \A j \in Jobs : job[j].stage = "award" => job[j].item \in Items
  BY DEF MarkingTypes
<1>1. ASSUME UNCHANGED <<awarded, shown, job, stored, writes, history, breaks>>, typed' \in [Items -> Int]
      PROVE  MarkingTypes' /\ MarkingInv'
  <2>1. MarkingTypes' BY <1>0, <1>1 DEF MarkingTypes, history
  <2>2. MarkingInv'
    BY <1>1 DEF MarkingInv, Had, ShownWasStored, Going, Fresh, history
  <2> QED BY <2>1, <2>2
<1>2. CASE UNCHANGED marking BY <1>0, <1>1, <1>2 DEF marking, history
<1>3. ASSUME NEW i \in Items, Type(i) PROVE MarkingTypes' /\ MarkingInv'
  <2>1. {Blank} \cup 0..Worth + 1 \subseteq Int BY MarkingAssumption DEF Blank
  <2>2. \E v \in Int : typed' = [typed EXCEPT ![i] = v] BY <1>3, <2>1 DEF Type
  <2> QED BY <1>0, <1>1, <1>3, <2>2 DEF Type
<1>4. ASSUME NEW i \in Items, AwardRefused(i) PROVE MarkingTypes' /\ MarkingInv'
  BY <1>0, <1>1, <1>4 DEF AwardRefused
<1>5. ASSUME NEW i \in Items, award(i) PROVE MarkingTypes' /\ MarkingInv'
  <2>1. PICK j \in Jobs :
          /\ job[j].stage = "none"
          /\ job' = [job EXCEPT ![j] = [NoJob EXCEPT !.stage = "award", !.item = i, !.mark = Value(i)]]
    BY <1>5 DEF award
  <2>2. /\ UNCHANGED <<awarded, shown, typed, breaks, stored, writes, history>> /\ Value(i) \in Marks
    BY <1>5 DEF award
  <2> DEFINE d == [NoJob EXCEPT !.stage = "award", !.item = i, !.mark = Value(i)]
  <2>3. d \in JobRow /\ d.stage = "award" /\ d.item = i BY <2>2, MarkingRows DEF JobRow
  <2> HIDE DEF d
  <2>4. job' \in [Jobs -> JobRow] /\ \A k \in Jobs : job'[k].stage = "award" => job'[k].item \in Items
    BY <2>1, <2>3, JobMoves DEF d
  <2>5. MarkingTypes' BY <1>0, <2>2, <2>4 DEF MarkingTypes, history
  <2>6. ~Going(j) BY <2>1 DEF Going
  <2>7. MarkingInv' BY <2>1, <2>2, <2>3, <2>6, MarkingKept DEF d
  <2> QED BY <2>5, <2>7
<1>6. ASSUME NEW i \in Items, NEW m \in Marks, AwardedElsewhere(i, m) PROVE MarkingTypes' /\ MarkingInv'
  <2>1. /\ awarded' = [awarded EXCEPT ![i] = m] /\ stored' = [stored EXCEPT ![i] = stored[i] \cup {m}]
        /\ writes' = writes + 1 /\ ~alone' /\ UNCHANGED <<shown, typed, job, breaks, asof>>
    BY <1>0, <1>6 DEF AwardedElsewhere
  <2>2. /\ awarded' \in [Items -> Int] /\ stored' \in [Items -> SUBSET Marks] /\ writes' \in Nat /\ Had(awarded', stored')
        /\ \A marks : Had(marks, stored) => Had(marks, stored')
    BY <2>1, MarkStored
  <2>3. MarkingTypes' BY <1>0, <2>1, <2>2 DEF MarkingTypes
  <2>4. ShownWasStored' BY <2>1, <2>2 DEF MarkingInv, ShownWasStored, Had
  <2>5. ASSUME NEW j \in Jobs, job'[j].stage = "read"
        PROVE  Had(job[j].copy, stored) /\ job'[j].newest <= writes' /\ job'[j].newest # writes'
    <3>1. Had(job[j].copy, stored) /\ job[j].newest <= writes BY <2>1, <2>5 DEF MarkingInv
    <3>2. job[j].newest \in Nat BY <1>0 DEF JobRow
    <3> QED BY <1>0, <2>1, <3>1, <3>2
  <2>6. \A j \in Jobs : job'[j].stage = "read" => Had(job[j].copy, stored')
    BY <2>1, <2>2, <2>5 DEF Had
  <2> QED BY <2>1, <2>2, <2>3, <2>4, <2>5, <2>6 DEF MarkingInv
<1>7. ASSUME NEW j \in Jobs, award_marks(j) PROVE MarkingTypes' /\ MarkingInv'
  <2> DEFINE d == [job[j] EXCEPT !.stage = "stored"]
  <2>1. job[j] \in JobRow /\ job[j].stage = "award" /\ job[j].item \in Items /\ job[j].mark \in Marks
    BY <1>0, <1>7 DEF award_marks, JobRow
  <2>2. d \in JobRow /\ d.stage = "stored" BY <2>1 DEF JobRow
  <2> HIDE DEF d
  <2>3. job' = [job EXCEPT ![j] = d] BY <1>0, <1>7 DEF award_marks, d
  <2>4. /\ job' \in [Jobs -> JobRow] /\ job'[j] = d /\ \A k \in Jobs : k # j => job'[k] = job[k]
        /\ \A k \in Jobs : job'[k].stage = "award" => job'[k].item \in Items
    BY <2>2, <2>3, JobMoves
  <2>5. UNCHANGED <<shown, typed, breaks, asof>> BY <1>7 DEF award_marks, history
  <2>6. PICK i \in Items, m \in Marks :
          /\ awarded' = [awarded EXCEPT ![i] = m] /\ stored' = [stored EXCEPT ![i] = stored[i] \cup {m}]
          /\ writes' = writes + 1
    BY <1>0, <1>7, <2>1 DEF award_marks
  <2>7. /\ awarded' \in [Items -> Int] /\ stored' \in [Items -> SUBSET Marks] /\ writes' \in Nat /\ Had(awarded', stored')
        /\ \A marks : Had(marks, stored) => Had(marks, stored')
    BY <2>6, MarkStored
  <2>8. MarkingTypes' BY <1>0, <2>4, <2>5, <2>7 DEF MarkingTypes
  <2>9. ShownWasStored' BY <2>5, <2>7 DEF MarkingInv, ShownWasStored, Had
  <2>10. ASSUME NEW k \in Jobs, job'[k].stage = "read"
         PROVE  job'[k] = job[k] /\ Had(job[k].copy, stored) /\ job'[k].newest <= writes' /\ job'[k].newest # writes'
    <3>1. job'[k] = job[k] BY <2>2, <2>4, <2>10
    <3>2. Had(job[k].copy, stored) /\ job[k].newest <= writes BY <2>10, <3>1 DEF MarkingInv
    <3>3. job[k].newest \in Nat BY <1>0 DEF JobRow
    <3> QED BY <1>0, <2>6, <3>1, <3>2, <3>3
  <2>11. \A k \in Jobs : job'[k].stage = "read" => Had(job'[k].copy, stored')
    BY <2>7, <2>10 DEF Had
  <2>12. Going(j)' BY <2>2, <2>4 DEF Going
  <2> QED BY <2>7, <2>8, <2>9, <2>10, <2>11, <2>12 DEF MarkingInv
<1>8. ASSUME NEW j \in Jobs, list(j) \/ AwardLands(j) PROVE MarkingTypes' /\ MarkingInv'
  <2>1. job[j] \in JobRow BY <1>0
  <2>2. UNCHANGED <<awarded, shown, typed, breaks, stored, writes, history>> BY <1>8 DEF list, AwardLands
  <2>3. PICK d \in JobRow : /\ job' = [job EXCEPT ![j] = d] /\ d.stage \in {"list", "read"}
                            /\ d.stage = "read" => d.copy = awarded /\ d.newest = writes
    <3>1. CASE list(j)
      <4> DEFINE d == [job[j] EXCEPT !.stage = "read", !.copy = awarded, !.newest = writes]
      <4>1. d \in JobRow /\ d.stage = "read" /\ d.copy = awarded /\ d.newest = writes
        BY <1>0, <2>1 DEF JobRow
      <4>2. job' = [job EXCEPT ![j] = d] BY <1>0, <3>1 DEF list
      <4> HIDE DEF d
      <4> QED BY <4>1, <4>2
    <3>2. CASE AwardLands(j)
      <4> DEFINE d == [job[j] EXCEPT !.stage = "list"]
      <4>1. d \in JobRow /\ d.stage = "list" BY <2>1 DEF JobRow
      <4>2. job' = [job EXCEPT ![j] = d] BY <1>0, <3>2 DEF AwardLands
      <4> HIDE DEF d
      <4> QED BY <4>1, <4>2
    <3> QED BY <1>8, <3>1, <3>2
  <2>4. job[j].stage # "read" BY <1>8 DEF list, AwardLands
  <2>5. job' \in [Jobs -> JobRow] /\ \A k \in Jobs : job'[k].stage = "award" => job'[k].item \in Items
    BY <2>3, JobMoves
  <2>6. MarkingTypes' BY <1>0, <2>2, <2>5 DEF MarkingTypes, history
  <2>7. MarkingInv' BY <2>2, <2>3, <2>4, MarkingKept
  <2> QED BY <2>6, <2>7
<1>9. ASSUME NEW j \in Jobs, Finished(j) \/ AwardBreaks(j)
      PROVE  /\ UNCHANGED <<awarded, stored, writes, alone>> /\ job' = [job EXCEPT ![j] = NoJob]
             /\ typed' \in [Items -> Int]
  BY <1>0, <1>9 DEF Finished, AwardBreaks, history, Blank
<1>10. ASSUME NEW j \in Jobs, LoadBreaks(j) \/ AwardBreaks(j) PROVE MarkingTypes' /\ MarkingInv'
  <2>1. /\ UNCHANGED <<awarded, stored, writes, alone>> /\ job' = [job EXCEPT ![j] = NoJob]
        /\ typed' \in [Items -> Int]
    BY <1>9, <1>10 DEF LoadBreaks
  <2>2. UNCHANGED <<shown, asof, crossed>> /\ breaks' = breaks + 1
    BY <1>10 DEF LoadBreaks, AwardBreaks, history
  <2>3. job' \in [Jobs -> JobRow] /\ \A k \in Jobs : job'[k].stage = "award" => job'[k].item \in Items
    BY <2>1, MarkingRows, JobMoves
  <2>4. MarkingTypes' BY <1>0, <2>1, <2>2, <2>3 DEF MarkingTypes
  <2>5. breaks' # 0 /\ UNCHANGED <<awarded, shown, stored, writes, history>> BY <1>0, <2>1, <2>2 DEF history
  <2>6. MarkingInv' BY <2>1, <2>5, MarkingRows, MarkingKept
  <2> QED BY <2>4, <2>6
<1>11. ASSUME NEW j \in Jobs, load(j) PROVE MarkingTypes' /\ MarkingInv'
  <2>1. /\ UNCHANGED <<awarded, stored, writes, alone, breaks>> /\ job' = [job EXCEPT ![j] = NoJob]
        /\ typed' \in [Items -> Int]
    BY <1>9, <1>11 DEF load
  <2>2. /\ job[j].stage = "read" /\ shown' = job[j].copy /\ asof' = job[j].newest
        /\ ~crossed' => ~crossed /\ ~(job[j].newest < asof)
    <3>1. crossed' = (crossed \/ job[j].newest < asof) BY <1>11 DEF load
    <3>2. ~crossed' => ~crossed /\ ~(job[j].newest < asof) BY <3>1, Zenon
    <3> QED BY <1>11, <3>2 DEF load
  <2>3. /\ job' \in [Jobs -> JobRow] /\ job'[j] = NoJob /\ \A k \in Jobs : k # j => job'[k] = job[k]
        /\ \A k \in Jobs : job'[k].stage = "award" => job'[k].item \in Items
    BY <2>1, MarkingRows, JobMoves
  <2>4. job[j].copy \in [Items -> Int] /\ job[j].newest \in Nat BY <1>0 DEF JobRow
  <2>5. MarkingTypes' BY <1>0, <2>1, <2>2, <2>3, <2>4 DEF MarkingTypes
  <2>6. /\ Had(job[j].copy, stored) /\ job[j].newest <= writes /\ (job[j].newest = writes => job[j].copy = awarded)
    BY <2>2 DEF MarkingInv
  <2>7. Had(awarded', stored') /\ ShownWasStored' BY <2>1, <2>2, <2>6 DEF MarkingInv, Had, ShownWasStored
  <2>8. ASSUME NEW k \in Jobs, job'[k].stage = "read"
        PROVE  /\ job'[k] = job[k] /\ Had(job[k].copy, stored) /\ job[k].newest <= writes
               /\ job[k].newest = writes => job[k].copy = awarded
  BY <2>3, <2>8, MarkingRows DEF MarkingInv
  <2>9. \A k \in Jobs : job'[k].stage = "read" => Had(job'[k].copy, stored') BY <2>1, <2>8 DEF Had
  <2>10. ASSUME breaks' = 0, alone', ~crossed'
         PROVE  \/ shown' = awarded /\ asof' = writes
                \/ \E k \in Jobs : Going(k)' \/ Fresh(k)'
    <3>1. CASE shown = awarded /\ asof = writes
      <4>1. job[j].newest = writes BY <1>0, <2>2, <2>4, <2>6, <2>10, <3>1
      <4> QED BY <2>2, <2>6, <4>1
    <3>2. CASE \E k \in Jobs : Going(k) \/ Fresh(k)
      <4>1. PICK k \in Jobs : Going(k) \/ Fresh(k) BY <3>2
      <4>2. CASE k = j BY <2>2, <4>1, <4>2 DEF Going, Fresh
      <4>3. CASE k # j BY <2>1, <2>3, <4>1, <4>3 DEF Going, Fresh
      <4> QED BY <4>2, <4>3
    <3> QED BY <2>1, <2>2, <2>10, <3>1, <3>2 DEF MarkingInv
  <2> QED BY <2>1, <2>5, <2>7, <2>8, <2>9, <2>10 DEF MarkingInv
<1> QED BY <1>2, <1>3, <1>4, <1>5, <1>6, <1>7, <1>8, <1>10, <1>11 DEF MarkingNext

LEMMA InitMarking == MarkingInit => MarkingTypes /\ MarkingInv
<1> SUFFICES ASSUME MarkingInit PROVE MarkingTypes /\ MarkingInv OBVIOUS
<1> DEFINE d == [NoJob EXCEPT !.stage = "list"]
<1>1. PICK j \in Jobs : job = [k \in Jobs |-> IF k = j THEN d ELSE NoJob] BY DEF MarkingInit
<1>2. d \in JobRow /\ d.stage = "list" BY MarkingRows DEF JobRow
<1> HIDE DEF d
<1>3. /\ job \in [Jobs -> JobRow] /\ job[j].stage = "list"
      /\ \A k \in Jobs : job[k].stage \in {"list", "none"}
  BY <1>1, <1>2, MarkingRows
<1>4. MarkingTypes BY <1>3, MarkingRows DEF MarkingInit, MarkingTypes, NotMarked, Untyped
<1>5. MarkingInv BY <1>3 DEF MarkingInit, MarkingInv, Had, ShownWasStored, Going
<1> QED BY <1>4, <1>5

\* Whatever is marked here and elsewhere, lost and read again, in whatever
\* order the lists arrive: the list shows marks that were given, and at rest it
\* is what the server holds, unless a request failed, a colleague is marking,
\* or lists crossed (marking.tsx, award and load; sessions.py, award_marks).
THEOREM MarkingListHonest == MarkingSpec => []ListHonest
<1>1. MarkingTypes /\ MarkingInv /\ [MarkingNext]_marking => MarkingTypes' /\ MarkingInv'
  BY NextMarking
<1>2. MarkingInv => ListHonest
  BY DEF MarkingInv, ListHonest, QuietListCurrent, Going, Fresh
<1> QED BY <1>1, <1>2, InitMarking, PTL DEF MarkingSpec


-----------------------------------------------------------------------------
(* The register of candidates.                                             *)

Entries == People \cup {Illegible}

Account == [person : People, password : Nat \ {0}]

RequestRow == [kind : {"none"} \cup Kind, todo : Seq(Entries), free : BOOLEAN,
               created : SUBSET Account, failed : Nat, rows : Nat, heard : BOOLEAN,
               ended : {"no", "done", "error"}]

ShownRow == [kind : {"none"} \cup Kind, created : SUBSET Account, failed : Nat, rows : Nat]

DialogRow == [open : BOOLEAN, busy : BOOLEAN, shown : ShownRow]

RosterTypes ==
  /\ account \in [People -> Nat] /\ issued \in Nat /\ lost \in Nat
  /\ call \in [Calls -> RequestRow] /\ dialog \in [Kind -> DialogRow]

\* A finite set of accounts, each of another person.
OneEach(created) ==
  /\ IsFiniteSet(created)
  /\ \A x, y \in created : x.person = y.person => x = y

\* The request r: what it has done of its rows and what becomes of it.
Asked(r) ==
  LET c == call[r]
  IN  /\ c.free => /\ c.kind \in {"add", "import"} /\ c.todo # <<>> /\ Head(c.todo) \in People
                   /\ c.ended = "error" => account[Head(c.todo)] # 0
      /\ c.kind = "none" => c = NoCall
      /\ c.kind \in {"add", "reset"} => Len(c.todo) <= 1 /\ (c.todo # <<>> => c.created = {})
      /\ c.kind = "reset" => c.ended # "error" /\ (c.todo # <<>> => Head(c.todo) \in People)
      /\ c.ended = "done" => c.todo = <<>>
      /\ c.ended = "error" \/ (c.ended = "done" /\ ~c.heard) => PasswordsOf(c.created) \subseteq excused
      /\ OneEach(c.created)
      /\ \A x \in c.created : account[x.person] # 0
      /\ c.kind = "import" => Len(c.todo) + Cardinality(c.created) + c.failed = c.rows

Listening(r, k) == call[r].kind = k /\ call[r].heard

\* A dialog that waits for its answer shows none, and nobody else is waiting.
Waits(k) ==
  \A r \in Calls : Listening(r, k) =>
    /\ dialog[k].busy /\ dialog[k].shown = NoAnswer
    /\ \A s \in Calls : Listening(s, k) => s = r

Dialogs ==
  /\ Waits("import") /\ Waits("reset")
  /\ \A k \in Kind : dialog[k].open => PasswordsOf(dialog[k].shown.created) \subseteq seen
  /\ LET a == dialog["import"].shown
     IN  a # NoAnswer => OneEach(a.created) /\ Cardinality(a.created) + a.failed = a.rows

\* The password of a reset works, in the answer and behind the dialog.
Works ==
  lost = 0 =>
    /\ \A r \in Calls : call[r].heard
    /\ \A r \in Calls : call[r].kind = "reset" => \A x \in call[r].created : account[x.person] = x.password
    /\ \A x \in dialog["reset"].shown.created : account[x.person] = x.password

RosterInv == (\A r \in Calls : Asked(r)) /\ Dialogs /\ Works /\ PasswordNotLost

LEMMA RosterRows ==
  /\ NoCall \in RequestRow /\ NoCall.kind = "none" /\ NoCall.created = {} /\ ~NoCall.free /\ NoCall.heard
  /\ NoCall.ended = "no" /\ NoCall.todo = <<>>
  /\ NoAnswer \in ShownRow /\ NoAnswer.created = {} /\ Shut \in DialogRow /\ ~Shut.open /\ ~Shut.busy
  /\ Shut.shown = NoAnswer
  /\ OneEach({}) /\ Cardinality({}) = 0 /\ PasswordsOf({}) = {}
<1>1. <<>> \in Seq(Entries) OBVIOUS
<1>2. NoAnswer \in ShownRow /\ NoAnswer.created = {} BY DEF NoAnswer, ShownRow
<1>3. /\ Shut \in DialogRow /\ ~Shut.open /\ ~Shut.busy /\ Shut.shown = NoAnswer
  BY <1>2 DEF Shut, DialogRow
<1> QED BY <1>1, <1>2, <1>3, FS_EmptySet DEF NoCall, RequestRow, OneEach, PasswordsOf

\* Accounts of different people are as many as the people.
LEMMA EachOnce ==
  ASSUME NEW created, OneEach(created)
  PROVE  Cardinality({x.person : x \in created}) = Cardinality(created)
<1> DEFINE T == {x.person : x \in created}
           f == [x \in created |-> x.person]
<1>1. f \in Injection(created, T) /\ f \in Surjection(created, T)
  BY DEF OneEach, Injection, Surjection, IsInjective
<1>2. IsFiniteSet(created) BY DEF OneEach
<1> HIDE DEF f
<1> QED BY <1>1, <1>2, FS_Surjection

\* Another person's account is one more.
LEMMA OneMore ==
  ASSUME NEW created, OneEach(created), NEW x, \A y \in created : y.person # x.person
  PROVE  /\ OneEach(created \cup {x})
         /\ Cardinality(created \cup {x}) = Cardinality(created) + 1
         /\ Cardinality(created) \in Nat
BY FS_AddElement, FS_CardinalityType DEF OneEach

\* A request that nothing was done to.
LEMMA AskedKept ==
  ASSUME RosterTypes, NEW s \in Calls, Asked(s), call'[s] = call[s], excused \subseteq excused',
         \A p \in People : account[p] # 0 => account'[p] # 0
  PROVE  Asked(s)'
<1>1. call[s] \in RequestRow BY DEF RosterTypes
<1>2. \A x \in call[s].created : x.person \in People BY <1>1 DEF RequestRow, Account
<1> QED BY <1>2 DEF Asked

\* The server goes on with request r, which becomes d.
LEMMA ServerStep ==
  ASSUME RosterTypes, RosterInv, NEW r \in Calls, NEW d \in RequestRow, call' = [call EXCEPT ![r] = d],
         d.kind = call[r].kind, d.heard = call[r].heard, call[r].created \subseteq d.created,
         UNCHANGED <<dialog, lost, seen>>, excused \subseteq excused',
         account' \in [People -> Nat], issued' \in Nat,
         \A p \in People : \/ account'[p] = account[p]
                           \/ /\ account'[p] \in PasswordsOf(d.created) /\ account'[p] # 0
                              /\ account[p] = 0 \/ d.kind = "reset",
         lost = 0 /\ d.kind = "reset" => \A x \in d.created : account'[x.person] = x.password,
         Asked(r)'
  PROVE  RosterTypes' /\ RosterInv'
<1>1. call'[r] = d /\ (\A s \in Calls : s # r => call'[s] = call[s]) /\ call' \in [Calls -> RequestRow]
  BY DEF RosterTypes
<1>2. RosterTypes' BY <1>1 DEF RosterTypes
<1>3. \A p \in People : account[p] # 0 => account'[p] # 0 OBVIOUS
<1>4. \A s \in Calls : Asked(s)'
  <2>1. ASSUME NEW s \in Calls, s # r PROVE Asked(s)'
    BY <1>1, <1>3, <2>1, AskedKept DEF RosterInv
  <2> QED BY <2>1
<1>5. \A s \in Calls : call'[s].kind = call[s].kind /\ call'[s].heard = call[s].heard BY <1>1
<1>6. Dialogs'
  BY <1>5 DEF RosterInv, Dialogs, Waits, Listening
<1>7. Works'
  <2>1. SUFFICES ASSUME lost = 0
                 PROVE  /\ \A s \in Calls : call'[s].heard
                        /\ \A s \in Calls : call'[s].kind = "reset" =>
                             \A x \in call'[s].created : account'[x.person] = x.password
                        /\ \A x \in dialog["reset"].shown.created : account'[x.person] = x.password
    BY DEF Works
  <2>2. /\ \A s \in Calls : call[s].heard
        /\ \A s \in Calls : call[s].kind = "reset" => \A x \in call[s].created : account[x.person] = x.password
        /\ \A x \in dialog["reset"].shown.created : account[x.person] = x.password
    BY <2>1 DEF RosterInv, Works
  <2>3. CASE d.kind = "reset"
    <3>1. \A s \in Calls : call[s].kind = "reset" => s = r
      BY <2>2, <2>3 DEF RosterInv, Dialogs, Waits, Listening
    <3>2. dialog["reset"].shown = NoAnswer
      BY <2>2, <2>3 DEF RosterInv, Dialogs, Waits, Listening
    <3> QED BY <1>1, <1>5, <2>1, <2>2, <2>3, <3>1, <3>2, RosterRows
  <2>4. CASE d.kind # "reset"
    <3>1. \A x \in Account : account[x.person] = x.password => account'[x.person] = account[x.person]
      BY <2>4 DEF Account
    <3>2. dialog["reset"].shown.created \subseteq Account
      BY DEF RosterTypes, DialogRow, ShownRow, Kind
    <3>3. \A s \in Calls : call[s].created \subseteq Account BY DEF RosterTypes, RequestRow
    <3>4. ASSUME NEW s \in Calls, call'[s].kind = "reset", NEW x \in call'[s].created
          PROVE  account'[x.person] = x.password
      <4>1. call'[s] = call[s] BY <1>1, <2>4, <3>4
      <4> QED BY <2>2, <3>1, <3>3, <3>4, <4>1
    <3>5. \A x \in dialog["reset"].shown.created : account'[x.person] = x.password BY <2>2, <3>1, <3>2
    <3> QED BY <1>5, <2>2, <3>4, <3>5
  <2> QED BY <2>3, <2>4
<1>8. PasswordNotLost'
  <2>1. ASSUME NEW p \in People, account'[p] # 0
        PROVE  \/ account'[p] \in seen \cup excused'
               \/ \E k \in Kind : account'[p] \in PasswordsOf(dialog[k].shown.created)
               \/ \E s \in Calls : account'[p] \in PasswordsOf(call'[s].created)
    <3>1. CASE account'[p] \in PasswordsOf(d.created) BY <1>1, <3>1
    <3>2. CASE account'[p] = account[p]
      <4>1. CASE \E s \in Calls : account[p] \in PasswordsOf(call[s].created)
        <5>1. PICK s \in Calls : account[p] \in PasswordsOf(call[s].created) BY <4>1
        <5>2. call[s].created \subseteq call'[s].created BY <1>1
        <5> QED BY <3>2, <5>1, <5>2 DEF PasswordsOf
      <4> QED BY <2>1, <3>2, <4>1 DEF RosterInv, PasswordNotLost
    <3> QED BY <3>1, <3>2
  <2> QED BY <2>1 DEF PasswordNotLost
<1> QED BY <1>2, <1>4, <1>6, <1>7, <1>8 DEF RosterInv

\* The rows of a request: the one under way and the rest of them.
LEMMA RowsLeft ==
  ASSUME NEW todo \in Seq(Entries), todo # <<>>
  PROVE  /\ Head(todo) \in Entries /\ Tail(todo) \in Seq(Entries) /\ Len(todo) \in Nat \ {0}
         /\ Len(Tail(todo)) = Len(todo) - 1 /\ (Len(todo) <= 1 => Tail(todo) = <<>>)
<1>1. /\ Head(todo) \in Entries /\ Tail(todo) \in Seq(Entries) /\ Len(todo) \in Nat \ {0}
      /\ Len(Tail(todo)) = Len(todo) - 1
  BY HeadTailProperties, EmptySeq
<1>2. Tail(todo) # <<>> => Len(Tail(todo)) \in Nat \ {0} BY <1>1, EmptySeq
<1> QED BY <1>1, <1>2

\* The rows of a request that is served without a password being issued.
LEMMA ServerReads ==
  ASSUME RosterTypes, RosterInv, NEW r \in Calls,
         \/ create_student_checks(r) \/ IntegrityError(r) \/ import_roster(r)
         \/ create_student_refused(r) \/ Answered(r)
  PROVE  RosterTypes' /\ RosterInv'
<1> DEFINE c == call[r]
<1>1. c \in RequestRow /\ Asked(r) /\ account \in [People -> Nat] /\ issued \in Nat
      /\ call \in [Calls -> RequestRow]
  BY DEF RosterTypes, RosterInv
<1>2. UNCHANGED <<account, issued, dialog, lost, seen>> /\ excused \subseteq excused'
  BY DEF create_student_checks, IntegrityError, import_roster, create_student_refused, Answered
<1>3. ASSUME NEW d \in RequestRow, call' = [call EXCEPT ![r] = d], d.kind = c.kind, d.heard = c.heard,
             d.created = c.created, Asked(r)'
      PROVE  RosterTypes' /\ RosterInv'
  <2>1. lost = 0 /\ d.kind = "reset" => \A x \in d.created : account'[x.person] = x.password
    BY <1>2, <1>3 DEF RosterInv, Works
  <2> QED BY <1>1, <1>2, <1>3, <2>1, ServerStep
<1>4. CASE create_student_checks(r)
  <2> DEFINE d == [c EXCEPT !.free = TRUE]
  <2>1. /\ c.kind \in {"add", "import"} /\ c.ended = "no" /\ c.todo # <<>>
        /\ Head(c.todo) # Illegible /\ call' = [call EXCEPT ![r] = d] /\ excused' = excused
    BY <1>1, <1>4 DEF create_student_checks
  <2>2. /\ d \in RequestRow /\ d.free /\ d.kind = c.kind /\ d.todo = c.todo /\ d.created = c.created
        /\ d.failed = c.failed /\ d.rows = c.rows /\ d.heard = c.heard /\ d.ended = c.ended
    BY <1>1 DEF RequestRow
  <2> HIDE DEF d
  <2>3. call'[r] = d BY <1>1, <2>1
  <2>4. Head(c.todo) \in People
    <3>1. c.todo \in Seq(Entries) BY <1>1 DEF RequestRow
    <3> QED BY <2>1, <3>1, RowsLeft DEF Entries
  <2>5. Asked(r)' BY <1>1, <1>2, <2>1, <2>2, <2>3, <2>4 DEF Asked
  <2> QED BY <1>3, <2>1, <2>2, <2>5
<1>5. CASE IntegrityError(r)
  <2> DEFINE d == [c EXCEPT !.ended = "error"]
  <2>1. /\ c.free /\ account[Head(c.todo)] # 0 /\ call' = [call EXCEPT ![r] = d]
        /\ excused' = excused \cup PasswordsOf(c.created)
    BY <1>1, <1>5 DEF IntegrityError
  <2>2. /\ d \in RequestRow /\ d.free = c.free /\ d.kind = c.kind /\ d.todo = c.todo /\ d.created = c.created
        /\ d.failed = c.failed /\ d.rows = c.rows /\ d.heard = c.heard /\ d.ended = "error"
    BY <1>1 DEF RequestRow
  <2> HIDE DEF d
  <2>3. call'[r] = d BY <1>1, <2>1
  <2>4. c.kind \in {"add", "import"} BY <1>1, <2>1 DEF Asked
  <2>5. Asked(r)' BY <1>1, <1>2, <2>1, <2>2, <2>3, <2>4 DEF Asked
  <2> QED BY <1>3, <2>1, <2>2, <2>5
<1>6. CASE import_roster(r)
  <2> DEFINE d == [[c EXCEPT !.todo = Tail(c.todo)] EXCEPT !.failed = c.failed + 1]
  <2>1. /\ c.kind = "import" /\ c.todo # <<>> /\ ~c.free /\ c.ended = "no"
        /\ call' = [call EXCEPT ![r] = d] /\ excused' = excused
    BY <1>1, <1>6 DEF import_roster, Rejects
  <2>2. c.todo \in Seq(Entries) /\ c.failed \in Nat BY <1>1 DEF RequestRow
  <2>3. Tail(c.todo) \in Seq(Entries) /\ Len(Tail(c.todo)) = Len(c.todo) - 1 /\ Len(c.todo) \in Nat
    BY <2>1, <2>2, RowsLeft
  <2>4. /\ d \in RequestRow /\ d.free = c.free /\ d.kind = c.kind /\ d.todo = Tail(c.todo) /\ d.created = c.created
        /\ d.failed = c.failed + 1 /\ d.rows = c.rows /\ d.heard = c.heard /\ d.ended = c.ended
    <3> DEFINE b == [c EXCEPT !.todo = Tail(c.todo)]
    <3>1. /\ b \in RequestRow /\ b.free = c.free /\ b.kind = c.kind /\ b.todo = Tail(c.todo)
          /\ b.created = c.created /\ b.failed = c.failed /\ b.rows = c.rows /\ b.heard = c.heard
          /\ b.ended = c.ended
      BY <1>1, <2>3 DEF RequestRow
    <3> HIDE DEF b
    <3>2. c.failed + 1 \in Nat BY <2>2
    <3>3. d = [b EXCEPT !.failed = c.failed + 1] BY DEF b
    <3> HIDE DEF d
    <3> QED BY <3>1, <3>2, <3>3 DEF RequestRow
  <2> HIDE DEF d
  <2>5. call'[r] = d BY <1>1, <2>1
  <2>6. Cardinality(c.created) \in Nat BY <1>1, FS_CardinalityType DEF Asked, OneEach
  <2>7. Len(d.todo) + Cardinality(d.created) + d.failed = d.rows
    BY <1>1, <2>1, <2>2, <2>3, <2>4, <2>6 DEF Asked
  <2>8. Asked(r)' BY <1>1, <1>2, <2>1, <2>4, <2>5, <2>7 DEF Asked
  <2> QED BY <1>3, <2>1, <2>4, <2>8
<1>7. CASE create_student_refused(r)
  <2> DEFINE d == [c EXCEPT !.ended = "error"]
  <2>1. /\ c.kind = "add" /\ c.todo # <<>> /\ ~c.free
        /\ call' = [call EXCEPT ![r] = d] /\ excused' = excused
    BY <1>1, <1>7 DEF create_student_refused, Rejects
  <2>2. /\ d \in RequestRow /\ d.free = c.free /\ d.kind = c.kind /\ d.todo = c.todo /\ d.created = c.created
        /\ d.failed = c.failed /\ d.rows = c.rows /\ d.heard = c.heard /\ d.ended = "error"
    BY <1>1 DEF RequestRow
  <2> HIDE DEF d
  <2>3. call'[r] = d BY <1>1, <2>1
  <2>4. PasswordsOf(c.created) = {} BY <1>1, <2>1, RosterRows DEF Asked
  <2>5. Asked(r)' BY <1>1, <1>2, <2>1, <2>2, <2>3, <2>4 DEF Asked
  <2> QED BY <1>3, <2>1, <2>2, <2>5
<1>8. CASE Answered(r)
  <2> DEFINE d == [c EXCEPT !.ended = "done"]
  <2>1. /\ c.kind # "none" /\ c.todo = <<>> /\ call' = [call EXCEPT ![r] = d]
        /\ excused' = IF c.heard THEN excused ELSE excused \cup PasswordsOf(c.created)
    BY <1>1, <1>8 DEF Answered
  <2>2. /\ d \in RequestRow /\ d.free = c.free /\ d.kind = c.kind /\ d.todo = c.todo /\ d.created = c.created
        /\ d.failed = c.failed /\ d.rows = c.rows /\ d.heard = c.heard /\ d.ended = "done"
    BY <1>1 DEF RequestRow
  <2> HIDE DEF d
  <2>3. call'[r] = d BY <1>1, <2>1
  <2>4. Asked(r)' BY <1>1, <1>2, <2>1, <2>2, <2>3 DEF Asked
  <2> QED BY <1>3, <2>1, <2>2, <2>4
<1> QED BY <1>4, <1>5, <1>6, <1>7, <1>8

\* A password is issued to request r.
LEMMA ServerIssues ==
  ASSUME RosterTypes, RosterInv, NEW r \in Calls, create_student(r) \/ reset_student_password(r)
  PROVE  RosterTypes' /\ RosterInv'
<1> DEFINE c == call[r]
           p == Head(c.todo)
           x == [person |-> p, password |-> issued + 1]
<1>1. c \in RequestRow /\ Asked(r) /\ account \in [People -> Nat] /\ issued \in Nat
      /\ call \in [Calls -> RequestRow] /\ c.todo \in Seq(Entries) /\ c.created \subseteq Account
  BY DEF RosterTypes, RosterInv, RequestRow
<1>2. /\ UNCHANGED <<dialog, lost, seen, excused>> /\ issued' = issued + 1 /\ c.todo # <<>>
      /\ account' = [account EXCEPT ![p] = issued + 1]
      /\ c.kind = "reset" \/ (account[p] = 0 /\ c.free)
  BY <1>1 DEF create_student, reset_student_password, Asked
<1>3. p \in People BY <1>1, <1>2 DEF Asked
<1>4. x \in Account /\ x.person = p /\ x.password = issued + 1 BY <1>1, <1>3 DEF Account
<1>5. /\ account' \in [People -> Nat] /\ issued' \in Nat /\ account'[p] = issued + 1 /\ issued + 1 # 0
      /\ \A q \in People : q # p => account'[q] = account[q]
  BY <1>1, <1>2, <1>3
<1> HIDE DEF p, x
<1>6. CASE create_student(r)
  <2> DEFINE d == [[[c EXCEPT !.free = FALSE] EXCEPT !.todo = Tail(c.todo)]
                     EXCEPT !.created = c.created \cup {x}]
  <2>1. /\ call' = [call EXCEPT ![r] = d] /\ account[p] = 0 /\ c.kind \in {"add", "import"}
        /\ c.ended # "error" /\ c.ended # "done"
    BY <1>1, <1>2, <1>6 DEF create_student, Asked, p, x
  <2>2. /\ Tail(c.todo) \in Seq(Entries) /\ Len(Tail(c.todo)) = Len(c.todo) - 1 /\ Len(c.todo) \in Nat
        /\ Len(c.todo) <= 1 => Tail(c.todo) = <<>>
    BY <1>1, <1>2, RowsLeft
  <2>3. /\ d \in RequestRow /\ ~d.free /\ d.kind = c.kind /\ d.todo = Tail(c.todo)
        /\ d.created = c.created \cup {x}
        /\ d.failed = c.failed /\ d.rows = c.rows /\ d.heard = c.heard /\ d.ended = c.ended
    BY <1>1, <1>4, <2>2 DEF RequestRow
  <2> HIDE DEF d
  <2>4. call'[r] = d BY <1>1, <2>1
  <2>5. \A y \in c.created : y.person # x.person BY <1>1, <1>4, <2>1 DEF Asked
  <2>6. /\ OneEach(d.created) /\ Cardinality(d.created) = Cardinality(c.created) + 1
        /\ Cardinality(c.created) \in Nat
    <3>1. OneEach(c.created) BY <1>1 DEF Asked
    <3>2. /\ OneEach(c.created \cup {x}) /\ Cardinality(c.created \cup {x}) = Cardinality(c.created) + 1
          /\ Cardinality(c.created) \in Nat
      BY <2>5, <3>1, OneMore
    <3> QED BY <2>3, <3>2
  <2>7. \A y \in d.created : account'[y.person] # 0
    BY <1>1, <1>4, <1>5, <2>3, <2>5 DEF Asked, Account
  <2>8. c.kind = "import" => Len(d.todo) + Cardinality(d.created) + d.failed = d.rows
    BY <1>1, <2>2, <2>3, <2>6 DEF Asked, RequestRow
  <2>9. d.kind = "add" => Len(d.todo) <= 1 /\ d.todo = <<>> BY <1>1, <2>2, <2>3 DEF Asked
  <2>10. Asked(r)' BY <2>1, <2>3, <2>4, <2>6, <2>7, <2>8, <2>9 DEF Asked
  <2>11. issued + 1 \in PasswordsOf(d.created) BY <1>4, <2>3 DEF PasswordsOf
  <2> QED BY <1>2, <1>5, <2>1, <2>3, <2>10, <2>11, ServerStep
<1>7. CASE reset_student_password(r)
  <2> DEFINE d == [[c EXCEPT !.todo = <<>>] EXCEPT !.created = {x}]
  <2>1. call' = [call EXCEPT ![r] = d] /\ c.kind = "reset" /\ c.created = {}
    BY <1>1, <1>2, <1>7 DEF reset_student_password, Asked, p, x
  <2>2. /\ d \in RequestRow /\ d.free = c.free /\ d.kind = c.kind /\ d.todo = <<>> /\ d.created = {x}
        /\ d.failed = c.failed /\ d.rows = c.rows /\ d.heard = c.heard /\ d.ended = c.ended
    BY <1>1, <1>4, EmptySeq DEF RequestRow
  <2> HIDE DEF d
  <2>3. call'[r] = d BY <1>1, <2>1
  <2>4. ~c.free /\ c.ended # "error" /\ c.ended # "done" /\ Len(<<>>) <= 1
    BY <1>1, <1>2, <2>1, EmptySeq DEF Asked
  <2>5. OneEach(d.created) BY <2>2, FS_Singleton DEF OneEach
  <2>6. \A y \in d.created : account'[y.person] = y.password /\ account'[y.person] # 0
    BY <1>4, <1>5, <2>2
  <2>7. Asked(r)' BY <2>1, <2>2, <2>3, <2>4, <2>5, <2>6 DEF Asked
  <2>8. issued + 1 \in PasswordsOf(d.created) BY <1>4, <2>2 DEF PasswordsOf
  <2> QED BY <1>2, <1>5, <2>1, <2>2, <2>6, <2>7, <2>8, ServerStep
<1> QED BY <1>6, <1>7

\* A dialog opens or closes; a colleague adds a candidate.
LEMMA DialogMoves ==
  ASSUME RosterTypes, RosterInv,
         (\E k \in Kind : Open(k) \/ finish(k)) \/ (\E p \in People : CreatedElsewhere(p))
  PROVE  RosterTypes' /\ RosterInv'
<1>0. /\ account \in [People -> Nat] /\ issued \in Nat /\ dialog \in [Kind -> DialogRow]
      /\ \A k \in Kind : dialog[k] \in DialogRow
  BY DEF RosterTypes
<1>1. ASSUME NEW k \in Kind, NEW d \in DialogRow, dialog' = [dialog EXCEPT ![k] = d], d.busy = dialog[k].busy,
             UNCHANGED <<account, issued, call, lost, excused>>, seen \subseteq seen',
             \/ d.shown = dialog[k].shown /\ PasswordsOf(d.shown.created) \subseteq seen'
             \/ d.shown = NoAnswer /\ dialog[k].open
      PROVE  RosterTypes' /\ RosterInv'
  <2>1. dialog'[k] = d /\ (\A j \in Kind : j # k => dialog'[j] = dialog[j]) /\ dialog' \in [Kind -> DialogRow]
    BY <1>0, <1>1
  <2>2. RosterTypes' BY <1>1, <2>1 DEF RosterTypes
  <2>3. \A s \in Calls : Asked(s)' BY <1>1 DEF RosterInv, Asked
  <2>4. "import" \in Kind /\ "reset" \in Kind BY DEF Kind
  <2>5. \A j \in Kind : dialog'[j].busy = dialog[j].busy /\ dialog'[j].shown \in {dialog[j].shown, NoAnswer}
    BY <1>1, <2>1
  <2>6. Waits("import")' /\ Waits("reset")'
    BY <1>1, <2>4, <2>5 DEF RosterInv, Dialogs, Waits, Listening
  <2>7. ASSUME NEW j \in Kind, dialog'[j].open PROVE PasswordsOf(dialog'[j].shown.created) \subseteq seen'
    <3>1. CASE j = k BY <1>1, <2>1, <3>1, RosterRows
    <3>2. CASE j # k BY <1>1, <2>1, <2>7, <3>2 DEF RosterInv, Dialogs
    <3> QED BY <3>1, <3>2
  <2>8. LET a == dialog'["import"].shown
        IN  a # NoAnswer => OneEach(a.created) /\ Cardinality(a.created) + a.failed = a.rows
    BY <2>4, <2>5 DEF RosterInv, Dialogs
  <2>9. Dialogs' BY <2>6, <2>7, <2>8 DEF Dialogs
  <2>10. Works'
    <3>1. \A x \in dialog'["reset"].shown.created : x \in dialog["reset"].shown.created
      BY <2>4, <2>5, RosterRows
    <3> QED BY <1>1, <3>1 DEF RosterInv, Works
  <2>11. PasswordNotLost'
    <3>1. ASSUME NEW p \in People, account[p] # 0, account[p] \notin seen' \cup excused,
                 ~\E s \in Calls : account[p] \in PasswordsOf(call[s].created)
          PROVE  \E j \in Kind : account[p] \in PasswordsOf(dialog'[j].shown.created)
      <4>1. account[p] \notin seen \cup excused BY <1>1, <3>1
      <4>2. PICK j \in Kind : account[p] \in PasswordsOf(dialog[j].shown.created)
        BY <3>1, <4>1 DEF RosterInv, PasswordNotLost
      <4>3. ~(j = k /\ dialog[k].open) BY <3>1, <4>1, <4>2 DEF RosterInv, Dialogs
      <4>4. dialog'[j].shown = dialog[j].shown BY <1>1, <2>1, <4>3
      <4> QED BY <4>2, <4>4
    <3> QED BY <1>1, <3>1 DEF PasswordNotLost
  <2> QED BY <2>2, <2>3, <2>9, <2>10, <2>11 DEF RosterInv
<1>2. ASSUME NEW k \in Kind, Open(k) PROVE RosterTypes' /\ RosterInv'
  <2> DEFINE d == [dialog[k] EXCEPT !.open = TRUE]
  <2>1. d \in DialogRow /\ d.busy = dialog[k].busy /\ d.shown = dialog[k].shown BY <1>0 DEF DialogRow
  <2>2. dialog' = [dialog EXCEPT ![k] = d] BY <1>0, <1>2 DEF Open
  <2> HIDE DEF d
  <2>3. /\ seen' = seen \cup PasswordsOf(dialog[k].shown.created)
        /\ UNCHANGED <<account, issued, call, lost, excused>>
    BY <1>2 DEF Open
  <2>4. PasswordsOf(d.shown.created) \subseteq seen' BY <2>1, <2>3
  <2> QED BY <1>1, <2>1, <2>2, <2>3, <2>4
<1>3. ASSUME NEW k \in Kind, finish(k) PROVE RosterTypes' /\ RosterInv'
  <2> DEFINE d == [[dialog[k] EXCEPT !.open = FALSE] EXCEPT !.shown = NoAnswer]
  <2>1. d \in DialogRow /\ d.busy = dialog[k].busy /\ d.shown = NoAnswer BY <1>0, RosterRows DEF DialogRow
  <2>2. dialog' = [dialog EXCEPT ![k] = d] BY <1>0, <1>3 DEF finish
  <2> HIDE DEF d
  <2>3. dialog[k].open /\ seen' = seen /\ UNCHANGED <<account, issued, call, lost, excused>>
    BY <1>3 DEF finish, MayClose
  <2> QED BY <1>1, <2>1, <2>2, <2>3
<1>4. ASSUME NEW p \in People, CreatedElsewhere(p) PROVE RosterTypes' /\ RosterInv'
  <2>1. /\ account[p] = 0 /\ issued' = issued + 1 /\ account' = [account EXCEPT ![p] = issued + 1]
        /\ seen' = seen \cup {issued + 1} /\ UNCHANGED <<call, dialog, lost, excused>>
    BY <1>4 DEF CreatedElsewhere
  <2>2. /\ account' \in [People -> Nat] /\ issued' \in Nat /\ account'[p] = issued + 1 /\ issued + 1 # 0
        /\ \A q \in People : q # p => account'[q] = account[q]
    BY <1>0, <2>1
  <2>3. RosterTypes' BY <2>1, <2>2 DEF RosterTypes
  <2>4. \A s \in Calls : Asked(s)' BY <2>1, <2>2, AskedKept DEF RosterInv
  <2>5. Dialogs' BY <2>1 DEF RosterInv, Dialogs, Waits, Listening
  <2>6. \A x \in Account : account[x.person] = x.password => account'[x.person] = x.password
    BY <2>1, <2>2 DEF Account
  <2>7. Works'
    <3>1. dialog["reset"].shown.created \subseteq Account BY <1>0 DEF DialogRow, ShownRow, Kind
    <3>2. \A s \in Calls : call[s].created \subseteq Account BY DEF RosterTypes, RequestRow
    <3> QED BY <2>1, <2>6, <3>1, <3>2 DEF RosterInv, Works
  <2>8. PasswordNotLost' BY <2>1, <2>2 DEF RosterInv, PasswordNotLost
  <2> QED BY <2>3, <2>4, <2>5, <2>7, <2>8 DEF RosterInv
<1> QED BY <1>2, <1>3, <1>4

\* A form is sent.
LEMMA FormSent ==
  ASSUME RosterTypes, RosterInv, addSubmit \/ importSubmit \/ reset
  PROVE  RosterTypes' /\ RosterInv'
<1>0. /\ dialog \in [Kind -> DialogRow] /\ \A k \in Kind : dialog[k] \in DialogRow
      /\ call \in [Calls -> RequestRow]
  BY DEF RosterTypes
<1>1. PICK k \in Kind, rows \in Seq(Entries) :
        /\ Send(k, rows)
        /\ k \in {"import", "reset"} => ~dialog[k].busy
        /\ dialog[k].shown = NoAnswer
        /\ k \in {"add", "reset"} => Len(rows) <= 1
        /\ k = "reset" => Head(rows) \in People
  <2>1. \A p \in People : <<p>> \in Seq(Entries) /\ Len(<<p>>) <= 1 /\ Head(<<p>>) = p BY DEF Entries
  <2>2. CASE addSubmit
    <3>1. PICK p \in People : Send("add", <<p>>) /\ dialog["add"].shown = NoAnswer BY <2>2 DEF addSubmit
    <3> QED BY <2>1, <3>1 DEF Kind
  <2>3. CASE importSubmit
    <3>1. PICK file \in Files : Send("import", file) BY <2>3 DEF importSubmit
    <3>2. file \in Seq(Entries) BY RosterAssumption DEF Entries
    <3> QED BY <2>3, <3>1, <3>2 DEF importSubmit, Kind
  <2>4. CASE reset
    <3>1. PICK p \in People : Send("reset", <<p>>) BY <2>4 DEF reset
    <3> QED BY <2>1, <2>4, <3>1 DEF reset, Kind
  <2> QED BY <2>2, <2>3, <2>4
<1> DEFINE c == [[NoCall EXCEPT !.kind = k, !.todo = rows] EXCEPT !.rows = Len(rows)]
           d == [dialog[k] EXCEPT !.busy = TRUE]
<1>2. PICK r \in Calls : /\ call[r] = NoCall /\ call' = [call EXCEPT ![r] = c]
                         /\ dialog' = [dialog EXCEPT ![k] = d]
                         /\ UNCHANGED <<account, issued, lost, seen, excused>>
  BY <1>0, <1>1 DEF Send
<1>3. /\ c \in RequestRow /\ c.kind = k /\ c.todo = rows /\ ~c.free /\ c.created = {} /\ c.failed = 0
      /\ c.rows = Len(rows) /\ c.heard /\ c.ended = "no"
  <2> DEFINE b == [NoCall EXCEPT !.kind = k, !.todo = rows]
  <2>1. /\ b \in RequestRow /\ b.kind = k /\ b.todo = rows /\ ~b.free /\ b.created = {} /\ b.failed = 0
        /\ b.heard /\ b.ended = "no"
    BY <1>1, RosterRows DEF RequestRow, NoCall
  <2>2. Len(rows) \in Nat OBVIOUS
  <2>3. c = [b EXCEPT !.rows = Len(rows)] OBVIOUS
  <2> HIDE DEF b, c
  <2> QED BY <2>1, <2>2, <2>3 DEF RequestRow
<1>4. d \in DialogRow /\ d.busy /\ d.shown = NoAnswer /\ d.open = dialog[k].open
  BY <1>0, <1>1 DEF DialogRow
<1> HIDE DEF c, d
<1>5. /\ call'[r] = c /\ (\A s \in Calls : s # r => call'[s] = call[s]) /\ call' \in [Calls -> RequestRow]
      /\ dialog'[k] = d /\ (\A j \in Kind : j # k => dialog'[j] = dialog[j]) /\ dialog' \in [Kind -> DialogRow]
  BY <1>0, <1>2, <1>3, <1>4
<1>6. RosterTypes' BY <1>2, <1>5 DEF RosterTypes
<1>7. Asked(r)'
  <2>1. Len(rows) \in Nat /\ k # "none" BY DEF Kind
  <2>2. k = "import" => Len(rows) + Cardinality({}) + 0 = Len(rows) BY <2>1, RosterRows
  <2> QED BY <1>1, <1>2, <1>3, <1>5, <2>1, <2>2, RosterRows DEF Asked
<1>8. \A s \in Calls : Asked(s)'
  <2>1. ASSUME NEW s \in Calls, s # r PROVE Asked(s)' BY <1>2, <1>5, <2>1, AskedKept DEF RosterInv
  <2> QED BY <1>7, <2>1
<1>9. \A j \in Kind : /\ dialog'[j].open = dialog[j].open /\ dialog'[j].shown = dialog[j].shown
                      /\ dialog[j].busy => dialog'[j].busy
  BY <1>1, <1>4, <1>5
<1>10. "import" \in Kind /\ "reset" \in Kind BY DEF Kind
<1>11. ASSUME NEW j \in {"import", "reset"} PROVE Waits(j)'
  <2>1. Waits(j) BY <1>11 DEF RosterInv, Dialogs
  <2>2. CASE j = k
    <3>1. \A s \in Calls : ~Listening(s, j) BY <1>1, <2>1, <2>2 DEF Waits
    <3>2. \A s \in Calls : s # r => ~(call'[s].kind = j /\ call'[s].heard) BY <1>5, <3>1 DEF Listening
    <3> QED BY <1>4, <1>5, <2>2, <3>2 DEF Waits, Listening
  <2>3. CASE j # k
    <3>1. \A s \in Calls : call'[s].kind = j => call'[s] = call[s] BY <1>3, <1>5, <2>3
    <3> QED BY <1>9, <1>10, <1>11, <2>1, <3>1 DEF Waits, Listening
  <2> QED BY <2>2, <2>3
<1>12. Dialogs' BY <1>2, <1>9, <1>10, <1>11 DEF RosterInv, Dialogs
<1>13. Works' BY <1>2, <1>3, <1>5, <1>9, <1>10 DEF RosterInv, Works
<1>14. PasswordNotLost'
  <2>1. \A s \in Calls : call[s].created \subseteq call'[s].created BY <1>2, <1>5, RosterRows
  <2> QED BY <1>2, <1>9, <2>1 DEF RosterInv, PasswordNotLost, PasswordsOf
<1> QED BY <1>6, <1>8, <1>12, <1>13, <1>14 DEF RosterInv

\* A request is answered, refused or cut off: the dialog waits no longer.
LEMMA RequestEnds ==
  ASSUME RosterTypes, RosterInv, NEW r \in Calls, Lands(r) \/ Fails(r) \/ Drops(r)
  PROVE  RosterTypes' /\ RosterInv'
<1> DEFINE c == call[r]
           k == c.kind
<1>0. /\ dialog \in [Kind -> DialogRow] /\ call \in [Calls -> RequestRow] /\ lost \in Nat
      /\ c \in RequestRow /\ Asked(r)
  BY DEF RosterTypes, RosterInv
<1>1. c.heard /\ k \in Kind
  <2>1. c.ended # "no" \/ k # "none" BY DEF Lands, Fails, Drops
  <2>2. k # "none" BY <1>0, <2>1, RosterRows DEF Asked
  <2>3. k \in Kind BY <1>0, <2>2 DEF RequestRow
  <2> QED BY <2>3 DEF Lands, Fails, Drops
<1>2. dialog[k] \in DialogRow /\ dialog[k].shown.created \subseteq Account
  BY <1>0, <1>1 DEF DialogRow, ShownRow
<1> DEFINE a == [kind |-> k, created |-> c.created, failed |-> c.failed, rows |-> c.rows]
           quiet == [dialog[k] EXCEPT !.busy = FALSE]
           told == [quiet EXCEPT !.shown = a]
           cut == [c EXCEPT !.heard = FALSE]
<1>3. /\ a \in ShownRow /\ a # NoAnswer /\ a.created = c.created /\ a.failed = c.failed /\ a.rows = c.rows
      /\ quiet \in DialogRow /\ quiet.shown = dialog[k].shown /\ quiet.open = dialog[k].open
      /\ told \in DialogRow /\ told.shown = a /\ told.open = dialog[k].open
  <2>1. a \in ShownRow /\ a.kind = k /\ a.created = c.created /\ a.failed = c.failed /\ a.rows = c.rows
    BY <1>0, <1>1 DEF ShownRow, RequestRow
  <2>2. NoAnswer.kind = "none" /\ "none" \notin Kind BY DEF NoAnswer, Kind
  <2>3. quiet \in DialogRow /\ quiet.shown = dialog[k].shown /\ quiet.open = dialog[k].open
    BY <1>2 DEF DialogRow
  <2> HIDE DEF quiet, a
  <2>4. told \in DialogRow /\ told.shown = a /\ told.open = quiet.open BY <2>1, <2>3 DEF DialogRow
  <2> HIDE DEF told
  <2> QED BY <1>1, <2>1, <2>2, <2>3, <2>4
<1>4. /\ cut \in RequestRow /\ cut.kind = k /\ cut.todo = c.todo /\ cut.free = c.free
      /\ cut.created = c.created /\ cut.failed = c.failed /\ cut.rows = c.rows /\ ~cut.heard
      /\ cut.ended = c.ended
  BY <1>0 DEF RequestRow
<1>5. /\ UNCHANGED <<account, issued>> /\ excused \subseteq excused' /\ seen \subseteq seen'
      /\ \/ /\ c.ended = "done" /\ call' = [call EXCEPT ![r] = NoCall] /\ dialog' = [dialog EXCEPT ![k] = told]
            /\ dialog[k].open => PasswordsOf(c.created) \subseteq seen'
            /\ k = "add" => PasswordsOf(dialog[k].shown.created) \subseteq excused'
            /\ lost' = lost
         \/ /\ c.ended = "error" /\ call' = [call EXCEPT ![r] = NoCall] /\ seen' = seen /\ lost' = lost
            /\ dialog' = [dialog EXCEPT ![k] = quiet]
         \/ /\ c.ended = "no" /\ call' = [call EXCEPT ![r] = cut] /\ seen' = seen /\ lost' = lost + 1
            /\ dialog' = [dialog EXCEPT ![k] = quiet]
  <2>1. CASE Lands(r)
    <3>1. /\ c.ended = "done" /\ call' = [call EXCEPT ![r] = NoCall] /\ UNCHANGED <<account, issued, lost>>
          /\ excused' = IF k = "add" THEN excused \cup PasswordsOf(dialog[k].shown.created) ELSE excused
          /\ seen' = IF dialog[k].open THEN seen \cup PasswordsOf(c.created) ELSE seen
      BY <2>1 DEF Lands
    <3>2. dialog' = [dialog EXCEPT ![k].busy = FALSE, ![k].shown = a] BY <2>1 DEF Lands
    <3>3. dialog' = [dialog EXCEPT ![k] = told] BY <1>0, <1>1, <3>2
    <3> HIDE DEF told, quiet, a
    <3> QED BY <3>1, <3>3
  <2>2. CASE Fails(r) BY <1>0, <1>1, <2>2 DEF Fails
  <2>3. CASE Drops(r) BY <1>0, <1>1, <2>3 DEF Drops
  <2> QED BY <2>1, <2>2, <2>3
<1> HIDE DEF a, quiet, told, cut
<1>6. PICK d \in RequestRow, e \in DialogRow :
        /\ call' = [call EXCEPT ![r] = d] /\ dialog' = [dialog EXCEPT ![k] = e]
        /\ e.open = dialog[k].open
        /\ \/ d = NoCall /\ e = told /\ c.ended = "done"
           \/ d = NoCall /\ e = quiet /\ c.ended = "error"
           \/ d = cut /\ e = quiet /\ c.ended = "no"
  BY <1>3, <1>4, <1>5, RosterRows
<1>7. /\ call'[r] = d /\ (\A s \in Calls : s # r => call'[s] = call[s]) /\ call' \in [Calls -> RequestRow]
      /\ dialog'[k] = e /\ (\A j \in Kind : j # k => dialog'[j] = dialog[j]) /\ dialog' \in [Kind -> DialogRow]
  BY <1>0, <1>1, <1>6
<1>8. RosterTypes'
  <2>1. lost' \in Nat BY <1>0, <1>5
  <2> QED BY <1>5, <1>7, <2>1 DEF RosterTypes
<1>9. \A s \in Calls : Asked(s)'
  <2>1. ASSUME NEW s \in Calls, s # r PROVE Asked(s)' BY <1>5, <1>7, <2>1, AskedKept DEF RosterInv
  <2>2. CASE d = NoCall
    <3>1. call'[r] = NoCall BY <1>7, <2>2
    <3> QED BY <2>1, <3>1, RosterRows DEF Asked
  <2>3. CASE d = cut /\ c.ended = "no"
    <3>1. call'[r] = cut BY <1>7, <2>3
    <3>2. Asked(r)' BY <1>0, <1>1, <1>4, <1>5, <2>3, <3>1 DEF Asked, Kind
    <3> QED BY <2>1, <3>2
  <2> QED BY <1>6, <2>2, <2>3
<1>10. "import" \in Kind /\ "reset" \in Kind BY DEF Kind
<1>11. \A s \in Calls, j \in Kind : (call'[s].kind = j /\ call'[s].heard) => s # r /\ Listening(s, j)
  BY <1>4, <1>6, <1>7, RosterRows DEF Listening, Kind
<1>12. k \in {"import", "reset"} => dialog[k].shown = NoAnswer /\ \A s \in Calls : Listening(s, k) => s = r
  BY <1>1 DEF RosterInv, Dialogs, Waits, Listening
<1>13. ASSUME NEW j \in {"import", "reset"} PROVE Waits(j)'
  <2>1. Waits(j) BY <1>13 DEF RosterInv, Dialogs
  <2>2. CASE j = k
    <3>1. \A s \in Calls : ~(call'[s].kind = j /\ call'[s].heard) BY <1>1, <1>11, <1>12, <1>13, <2>2
    <3> QED BY <3>1 DEF Waits, Listening
  <2>3. CASE j # k
    <3>1. dialog'[j] = dialog[j] BY <1>7, <1>10, <1>13, <2>3
    <3> QED BY <1>10, <1>11, <1>13, <2>1, <3>1 DEF Waits, Listening
  <2> QED BY <2>2, <2>3
<1>14. ASSUME NEW j \in Kind, dialog'[j].open PROVE PasswordsOf(dialog'[j].shown.created) \subseteq seen'
  <2>1. dialog[j].open BY <1>6, <1>7, <1>14
  <2>2. PasswordsOf(dialog[j].shown.created) \subseteq seen' BY <1>5, <2>1 DEF RosterInv, Dialogs
  <2>3. CASE j = k /\ e = told /\ c.ended = "done" BY <1>3, <1>5, <1>7, <2>1, <2>3
  <2>4. CASE j = k /\ e = quiet BY <1>3, <1>7, <2>2, <2>4
  <2>5. CASE j # k BY <1>7, <2>2, <2>5
  <2> QED BY <1>6, <2>3, <2>4, <2>5
<1>15. LET x == dialog'["import"].shown
       IN  x # NoAnswer => OneEach(x.created) /\ Cardinality(x.created) + x.failed = x.rows
  <2>1. LET x == dialog["import"].shown
        IN  x # NoAnswer => OneEach(x.created) /\ Cardinality(x.created) + x.failed = x.rows
    BY DEF RosterInv, Dialogs
  <2>2. CASE k = "import" /\ e = told /\ c.ended = "done"
    <3>1. c.todo = <<>> /\ OneEach(c.created) /\ Len(c.todo) + Cardinality(c.created) + c.failed = c.rows
      BY <1>0, <2>2 DEF Asked
    <3>2. Cardinality(c.created) \in Nat /\ c.failed \in Nat
      BY <1>0, <3>1, FS_CardinalityType DEF OneEach, RequestRow
    <3>3. Len(<<>>) = 0 BY EmptySeq
    <3>4. Cardinality(c.created) + c.failed = c.rows BY <3>1, <3>2, <3>3
    <3>5. dialog'["import"].shown = a BY <1>3, <1>7, <2>2
    <3> QED BY <1>3, <3>1, <3>4, <3>5
  <2>3. CASE k = "import" /\ e = quiet BY <1>3, <1>7, <2>1, <2>3
  <2>4. CASE k # "import" BY <1>7, <1>10, <2>1, <2>4
  <2> QED BY <1>6, <2>2, <2>3, <2>4
<1>16. Dialogs' BY <1>13, <1>14, <1>15 DEF Dialogs
<1>17. Works'
  <2>1. CASE c.ended = "no" BY <1>0, <1>5, <2>1 DEF Works
  <2>2. CASE c.ended # "no"
    <3>1. d = NoCall /\ lost' = lost BY <1>5, <1>6, <2>2
    <3>2. SUFFICES ASSUME lost = 0
                   PROVE  /\ \A s \in Calls : call'[s].heard
                          /\ \A s \in Calls : call'[s].kind = "reset" =>
                               \A x \in call'[s].created : account[x.person] = x.password
                          /\ \A x \in dialog'["reset"].shown.created : account[x.person] = x.password
      BY <1>5, <3>1 DEF Works
    <3>3. /\ \A s \in Calls : call[s].heard
          /\ \A s \in Calls : call[s].kind = "reset" => \A x \in call[s].created : account[x.person] = x.password
          /\ \A x \in dialog["reset"].shown.created : account[x.person] = x.password
      BY <3>2 DEF RosterInv, Works
    <3>4. \A s \in Calls : call'[s] = call[s] \/ call'[s] = NoCall BY <1>7, <3>1
    <3>5. \A x \in dialog'["reset"].shown.created : account[x.person] = x.password
      <4>1. CASE k = "reset" /\ e = told
        <5>1. dialog'["reset"].shown.created = c.created BY <1>3, <1>7, <4>1
        <5> QED BY <3>3, <4>1, <5>1
      <4>2. CASE k = "reset" /\ e = quiet BY <1>3, <1>7, <3>3, <4>2
      <4>3. CASE k # "reset" BY <1>7, <1>10, <3>3, <4>3
      <4> QED BY <1>6, <4>1, <4>2, <4>3
    <3> QED BY <3>3, <3>4, <3>5, RosterRows
  <2> QED BY <2>1, <2>2
<1>18. PasswordNotLost'
  <2>1. ASSUME NEW p \in People, account[p] # 0, account[p] \notin seen' \cup excused'
        PROVE  \/ \E j \in Kind : account[p] \in PasswordsOf(dialog'[j].shown.created)
               \/ \E s \in Calls : account[p] \in PasswordsOf(call'[s].created)
    <3>1. account[p] \notin seen \cup excused BY <1>5, <2>1
    <3>2. CASE \E j \in Kind : account[p] \in PasswordsOf(dialog[j].shown.created)
      <4>1. PICK j \in Kind : account[p] \in PasswordsOf(dialog[j].shown.created) BY <3>2
      <4>2. ~(j = k /\ c.ended = "done")
        <5>1. SUFFICES ASSUME j = k, c.ended = "done" PROVE FALSE OBVIOUS
        <5>2. k # "add" BY <1>5, <2>1, <4>1, <5>1
        <5>3. k \in {"import", "reset"} BY <1>1, <5>2 DEF Kind
        <5>4. PasswordsOf(dialog[k].shown.created) = {} BY <1>12, <5>3, RosterRows
        <5> QED BY <4>1, <5>1, <5>4
      <4>3. dialog'[j].shown = dialog[j].shown BY <1>3, <1>6, <1>7, <4>2
      <4> QED BY <4>1, <4>3
    <3>3. CASE \E s \in Calls : account[p] \in PasswordsOf(call[s].created)
      <4>1. PICK s \in Calls : account[p] \in PasswordsOf(call[s].created) BY <3>3
      <4>2. CASE s # r BY <1>7, <4>1, <4>2
      <4>3. CASE s = r /\ c.ended = "done" /\ e = told
        <5>1. dialog'[k].shown.created = c.created BY <1>3, <1>7, <4>3
        <5> QED BY <1>1, <4>1, <4>3, <5>1
      <4>4. CASE s = r /\ c.ended = "error"
        <5>1. PasswordsOf(c.created) \subseteq excused BY <1>0, <4>4 DEF Asked
        <5> QED BY <3>1, <4>1, <4>4, <5>1
      <4>5. CASE s = r /\ d = cut
        <5>1. call'[r].created = c.created BY <1>4, <1>7, <4>5
        <5> QED BY <4>1, <4>5, <5>1
      <4> QED BY <1>6, <4>2, <4>3, <4>4, <4>5
    <3> QED BY <2>1, <3>1, <3>2, <3>3 DEF RosterInv, PasswordNotLost
  <2> QED BY <1>5, <2>1 DEF PasswordNotLost
<1> QED BY <1>8, <1>9, <1>16, <1>17, <1>18 DEF RosterInv

\* Every step keeps the register's invariant.
LEMMA NextRoster ==
  ASSUME RosterTypes, RosterInv, [RosterNext]_register
  PROVE  RosterTypes' /\ RosterInv'
<1>1. CASE UNCHANGED register
  <2>1. UNCHANGED <<account, issued, call, dialog, lost, seen, excused>> BY <1>1 DEF register
  <2>2. RosterTypes' BY <2>1 DEF RosterTypes
  <2>3. \A r \in Calls : Asked(r)'
    <3>1. ASSUME NEW r \in Calls PROVE Asked(r)' BY <2>1, <3>1, AskedKept DEF RosterInv
    <3> QED BY <3>1
  <2>4. Dialogs' BY <2>1 DEF RosterInv, Dialogs, Waits, Listening
  <2>5. Works' BY <2>1 DEF RosterInv, Works
  <2>6. PasswordNotLost' BY <2>1 DEF RosterInv, PasswordNotLost
  <2> QED BY <2>2, <2>3, <2>4, <2>5, <2>6 DEF RosterInv
<1>2. CASE RosterNext
  <2>1. CASE addSubmit \/ importSubmit \/ reset BY <2>1, FormSent
  <2>2. CASE (\E k \in Kind : Open(k) \/ finish(k)) \/ (\E p \in People : CreatedElsewhere(p))
    BY <2>2, DialogMoves
  <2>3. ASSUME NEW r \in Calls,
               \/ create_student_checks(r) \/ create_student(r) \/ IntegrityError(r)
               \/ import_roster(r) \/ create_student_refused(r)
               \/ reset_student_password(r) \/ Answered(r)
               \/ Lands(r) \/ Fails(r) \/ Drops(r)
        PROVE  RosterTypes' /\ RosterInv'
    BY <2>3, ServerReads, ServerIssues, RequestEnds
  <2> QED BY <1>2, <2>1, <2>2, <2>3 DEF RosterNext
<1> QED BY <1>1, <1>2

\* The register before anything is sent: the accounts there are were seen.
LEMMA InitRoster == RosterInit => RosterTypes /\ RosterInv
<1> SUFFICES ASSUME RosterInit PROVE RosterTypes /\ RosterInv OBVIOUS
<1>1. /\ account \in [People -> 0..1] /\ issued = 1 /\ seen = {1} /\ lost = 0
      /\ call = [r \in Calls |-> NoCall] /\ dialog = [k \in Kind |-> Shut]
  BY DEF RosterInit
<1>2. RosterTypes BY <1>1, RosterRows DEF RosterTypes
<1>3. \A r \in Calls : call[r] = NoCall BY <1>1
<1>4. \A r \in Calls : Asked(r) BY <1>3, RosterRows DEF Asked
<1>5. \A k \in Kind : dialog[k] = Shut /\ dialog[k].shown = NoAnswer BY <1>1, RosterRows
<1>6. "import" \in Kind /\ "reset" \in Kind /\ "none" \notin Kind BY DEF Kind
<1>7. Dialogs BY <1>3, <1>5, <1>6, RosterRows DEF Dialogs, Waits, Listening
<1>8. Works BY <1>3, <1>5, <1>6, RosterRows DEF Works
<1>9. PasswordNotLost BY <1>1 DEF PasswordNotLost
<1> QED BY <1>2, <1>4, <1>7, <1>8, <1>9 DEF RosterInv

\* However many candidates are added, imported and reset at once, whatever
\* fails, breaks or lands behind a closed dialog: no working password is lost
\* but by a failed or unheard request or by two additions at once, the one read
\* out works, and an import answers for each of its rows (roster.tsx, the three
\* dialogs; directory.py, create_student and import_roster).
THEOREM PasswordsReachOwners == RosterSpec => []OneTimePasswords
<1>1. RosterTypes /\ RosterInv /\ [RosterNext]_register => RosterTypes' /\ RosterInv'
  BY NextRoster
<1>2. RosterTypes /\ RosterInv => OneTimePasswords
  <2> SUFFICES ASSUME RosterTypes, RosterInv PROVE OneTimePasswords OBVIOUS
  <2>1. PasswordNotLost BY DEF RosterInv
  <2>2. ResetWorks BY DEF RosterInv, Works, ResetWorks
  <2>3. EveryRowReported
    <3>1. LET a == dialog["import"].shown
          IN  a # NoAnswer => OneEach(a.created) /\ Cardinality(a.created) + a.failed = a.rows
      BY DEF RosterInv, Dialogs
    <3>2. dialog["import"].shown # NoAnswer =>
            Cardinality({x.person : x \in dialog["import"].shown.created})
              = Cardinality(dialog["import"].shown.created)
      BY <3>1, EachOnce
    <3> QED BY <3>1, <3>2 DEF EveryRowReported
  <2> QED BY <2>1, <2>2, <2>3 DEF OneTimePasswords
<1> QED BY <1>1, <1>2, InitRoster, PTL DEF RosterSpec

-----------------------------------------------------------------------------
(* The paper.                                                              *)

\* What the form holds: the answer key fits the type, and a question without
\* choices keeps none.
Written ==
  {q \in Question :
     /\ q.type = "mcq" => Cardinality(q.correct) = 1
     /\ q.type = "coding" => q.tests # <<>>
     /\ q.type \in {"text", "coding"} => q.options = <<>>}

Choice == [body : BOOLEAN, isCorrect : BOOLEAN]
StoredCase == [output : BOOLEAN, hidden : BOOLEAN, weight : 0..1, chosen : BOOLEAN]
StoredQuestion == [type : QuestionType, marks : 0..1, options : {<<>>} \cup [Option -> Choice],
                   tests : Seq(StoredCase)]

\* What is sent and stored: a question that can be marked and opened again.
Scorable ==
  {q \in StoredQuestion :
     /\ q.type = "mcq" => Cardinality(CorrectOf(q)) = 1
     /\ q.type = "multiple" => CorrectOf(q) # {}
     /\ q.type \in {"mcq", "multiple"} => Len(q.options) >= 2
     /\ q.type \in {"text", "coding"} => q.options = <<>>
     /\ q.type = "coding" => q.tests # <<>>
     /\ q.type # "coding" => q.tests = <<>>
     /\ \A o \in DOMAIN q.options : q.options[o].body
     /\ \A m \in DOMAIN q.tests :
          (q.tests[m].output \/ q.tests[m].chosen) /\ q.tests[m].weight # 0}

\* Candidates who may sit, each with a workstation.
Rosters == {S \in SUBSET (Candidates \ Blocked) : S # {} /\ Cardinality(S) <= Capacity}

FormRow == [mode : {"closed", "new", "edit"}, exam : Nat, details : BOOLEAN,
            selected : SUBSET (Candidates \ Blocked), questions : Seq(Written)]
PostRow == [exam : Nat, students : Rosters, questions : Seq(Scorable)]
DraftRow == [status : {"draft", "scheduled"}, students : Rosters, questions : Seq(Scorable)]

BuilderInv == form \in FormRow /\ posts \in Seq(PostRow) /\ drafts \in Seq(DraftRow)

\* Every set of numbers that is not empty has a least one.
LEMMA Least ==
  ASSUME NEW T, T \subseteq Nat, T # {}
  PROVE  \E x \in T : \A y \in T : x <= y
<1> DEFINE R == {ss \in Nat \X Nat : ss[1] < ss[2]}
<1>1. IsWellFoundedOn(R, Nat) BY NatLessThanWellFounded DEF OpToRel
<1>2. \A x, y \in Nat : y < x => <<y, x>> \in R OBVIOUS
<1> HIDE DEF R
<1>3. PICK x \in T : \A y \in T : <<y, x>> \notin R BY <1>1, WFMin
<1>4. ASSUME NEW y \in T PROVE x <= y
  <2>1. x \in Nat /\ y \in Nat OBVIOUS
  <2>2. ~(y < x) BY <1>2, <1>3, <2>1
  <2> QED BY <2>1, <2>2
<1> QED BY <1>4

\* A set of answer choices that is not empty has a first one.
LEMMA FirstTick ==
  ASSUME NEW T, T \subseteq Option, T # {}
  PROVE  LET o == CHOOSE x \in T : \A y \in T : x <= y
         IN  o \in T /\ o \in Option
<1>1. T \subseteq Nat BY BuilderAssumption DEF Option
<1>2. \E o \in T : \A y \in T : o <= y BY <1>1, Least
<1> DEFINE c == CHOOSE o \in T : \A y \in T : o <= y
<1>3. c \in T BY <1>2
<1> QED BY <1>3

\* A sequence with each element replaced.
LEMMA Replaced ==
  ASSUME NEW S, NEW T, NEW s \in Seq(S), NEW f \in [DOMAIN s -> T]
  PROVE  /\ f \in Seq(T) /\ Len(f) = Len(s) /\ DOMAIN f = DOMAIN s
         /\ f = <<>> <=> s = <<>>
<1>1. DOMAIN s = 1..Len(s) /\ Len(s) \in Nat BY LenProperties
<1>2. f \in [1..Len(s) -> T] BY <1>1
<1>3. f \in Seq(T) BY <1>1, <1>2, SeqDef
<1>4. Len(f) = Len(s) BY <1>1, <1>2, <1>3, LenProperties
<1>5. (f = <<>> <=> Len(f) = 0) /\ (s = <<>> <=> Len(s) = 0) BY <1>3, EmptySeq
<1> QED BY <1>1, <1>2, <1>3, <1>4, <1>5

\* A sequence without one of its elements.
LEMMA OneOut ==
  ASSUME NEW S, NEW s \in Seq(S), NEW i \in DOMAIN s
  PROVE  RemoveAt(s, i) \in Seq(S) /\ Len(RemoveAt(s, i)) = Len(s) - 1
<1>1. i \in 1..Len(s) /\ Len(s) \in Nat BY LenProperties
<1>2. SubSeq(s, 1, i - 1) \in Seq(S) /\ Len(SubSeq(s, 1, i - 1)) = i - 1 BY <1>1, SubSeqProperties
<1>3. SubSeq(s, i + 1, Len(s)) \in Seq(S) /\ Len(SubSeq(s, i + 1, Len(s))) = Len(s) - i
  BY <1>1, SubSeqProperties
<1> DEFINE a == SubSeq(s, 1, i - 1)
           b == SubSeq(s, i + 1, Len(s))
<1>4. RemoveAt(s, i) = a \o b BY DEF RemoveAt
<1> HIDE DEF a, b
<1>5. a \o b \in Seq(S) /\ Len(a \o b) = Len(a) + Len(b) BY <1>2, <1>3, ConcatProperties DEF a, b
<1>6. Len(a) + Len(b) = Len(s) - 1 BY <1>1, <1>2, <1>3 DEF a, b
<1> QED BY <1>4, <1>5, <1>6

\* A test case on its way out: blank only if the author said so.
LEMMA CaseSent ==
  ASSUME NEW c \in Case
  PROVE  LET d == authoredTestCase(c)
         IN  /\ d \in StoredCase /\ d.weight = c.weight /\ d.hidden = c.hidden
             /\ d.output <=> c.output /\ ~c.none
             /\ d.chosen <=> c.none
<1> DEFINE o == c.output /\ ~c.none
<1>1. o \in BOOLEAN /\ (o <=> c.output /\ ~c.none) BY Zenon
<1>2. c.hidden \in BOOLEAN /\ c.none \in BOOLEAN /\ c.weight \in 0..1 BY DEF Case
<1>3. authoredTestCase(c) = [output |-> o, hidden |-> c.hidden, weight |-> c.weight, chosen |-> c.none]
  BY DEF authoredTestCase
<1> HIDE DEF o
<1> QED BY <1>1, <1>2, <1>3 DEF StoredCase

\* What the form sends, after it has passed validate.
LEMMA SentSound ==
  ASSUME NEW q \in Written, ~QuestionProblem(q)
  PROVE  examPayload(q) \in Scorable
<1> DEFINE options == [o \in DOMAIN q.options |-> [body |-> q.options[o], isCorrect |-> o \in q.correct]]
           cases == [n \in DOMAIN q.tests |-> authoredTestCase(q.tests[n])]
           tests == IF q.type = "coding" THEN cases ELSE <<>>
           p == [type |-> q.type, marks |-> q.marks, options |-> options, tests |-> tests]
<1>1. /\ q.type \in QuestionType /\ q.marks \in 0..1 /\ q.options \in {<<>>} \cup [Option -> BOOLEAN]
      /\ q.correct \in SUBSET Option /\ q.tests \in Seq(Case)
      /\ q.type = "mcq" => Cardinality(q.correct) = 1
      /\ q.type = "coding" => q.tests # <<>>
      /\ q.type \in {"text", "coding"} => q.options = <<>>
  BY DEF Written, Question
<1>2. examPayload(q) = p BY DEF examPayload
<1>3. \A n \in DOMAIN q.tests : q.tests[n] \in Case
  BY <1>1, LenProperties
<1>4. cases \in Seq(StoredCase) /\ DOMAIN cases = DOMAIN q.tests /\ (cases = <<>> <=> q.tests = <<>>)
  <2>1. ASSUME NEW c \in Case PROVE authoredTestCase(c) \in StoredCase BY CaseSent
  <2>2. \A n \in DOMAIN q.tests : cases[n] \in StoredCase BY <1>3, <2>1
  <2>3. cases \in [DOMAIN q.tests -> StoredCase] BY <2>2
  <2> HIDE DEF cases
  <2> QED BY <1>1, <2>3, Replaced
<1>5. tests \in Seq(StoredCase) /\ (q.type # "coding" => tests = <<>>) /\ (q.type = "coding" => tests # <<>>)
  <2> HIDE DEF cases
  <2>1. <<>> \in Seq(StoredCase) OBVIOUS
  <2> QED BY <1>1, <1>4, <2>1
<1>6. \A m \in DOMAIN tests : (tests[m].output \/ tests[m].chosen) /\ tests[m].weight # 0
  <2>1. ASSUME NEW m \in DOMAIN tests PROVE (tests[m].output \/ tests[m].chosen) /\ tests[m].weight # 0
    <3>1. q.type = "coding" /\ tests = cases
      <4>1. DOMAIN <<>> = {} OBVIOUS
      <4> HIDE DEF cases
      <4> QED BY <2>1, <4>1
    <3>2. m \in DOMAIN q.tests BY <2>1, <3>1, <1>4
    <3>3. (q.tests[m].none \/ q.tests[m].output) /\ q.tests[m].weight # 0
      BY <3>1, <3>2 DEF QuestionProblem, testCaseProblem
    <3>4. tests[m] = authoredTestCase(q.tests[m]) BY <3>1, <3>2
    <3> HIDE DEF tests, cases
    <3>5. q.tests[m] \in Case BY <1>3, <3>2
    <3>6. LET d == authoredTestCase(q.tests[m])
          IN  /\ d.output <=> q.tests[m].output /\ ~q.tests[m].none
              /\ d.chosen <=> q.tests[m].none
              /\ d.weight = q.tests[m].weight
      BY <3>5, CaseSent
    <3>7. tests[m].output \/ tests[m].chosen BY <3>3, <3>4, <3>6, Zenon
    <3> QED BY <3>3, <3>4, <3>6, <3>7
  <2> QED BY <2>1
<1> HIDE DEF tests, cases
<1>7. CASE q.type \in {"text", "coding"}
  <2>0. <<>> \in Seq(BOOLEAN) /\ DOMAIN <<>> = {} OBVIOUS
  <2>1. q.options = <<>> /\ q.options \in Seq(BOOLEAN) /\ DOMAIN q.options = {}
    <3>1. q.options = <<>> BY <1>1, <1>7
    <3> QED BY <2>0, <3>1
  <2>2. options \in [DOMAIN q.options -> Choice] BY <2>1
  <2> HIDE DEF options
  <2>3. options = <<>> /\ DOMAIN options = {} BY <2>1, <2>2, Replaced
  <2>4. p \in StoredQuestion BY <1>1, <1>5, <2>3 DEF StoredQuestion
  <2> QED BY <1>2, <1>5, <1>6, <1>7, <2>3, <2>4 DEF Scorable
<1>8. CASE q.type \in {"mcq", "multiple"}
  <2>1. Len(q.options) >= 2 /\ (\A o \in DOMAIN q.options : q.options[o]) /\ q.correct # {}
    BY <1>8 DEF QuestionProblem
  <2>2. q.options \in [Option -> BOOLEAN]
    <3>1. Len(<<>>) = 0 BY EmptySeq
    <3> QED BY <1>1, <2>1, <3>1
  <2>3. OptionCount \in Nat /\ OptionCount >= 2 BY BuilderAssumption
  <2>4. options \in [Option -> Choice] /\ DOMAIN options = Option
        /\ \A o \in Option : options[o].body /\ (options[o].isCorrect <=> o \in q.correct)
    <3>1. ASSUME NEW o \in Option PROVE /\ [body |-> q.options[o], isCorrect |-> o \in q.correct] \in Choice
                                        /\ q.options[o]
      BY <2>1, <2>2 DEF Choice
    <3> QED BY <2>2, <3>1
  <2> HIDE DEF options
  <2>5. options \in Seq(Choice) /\ Len(options) = OptionCount BY <2>3, <2>4, SeqDef, LenProperties DEF Option
  <2>6. p \in StoredQuestion BY <1>1, <1>5, <2>4 DEF StoredQuestion
  <2>7. CorrectOf(p) = q.correct BY <1>1, <2>4 DEF CorrectOf
  <2>8. q.type # "coding" /\ q.type # "text" BY <1>8
  <2> QED BY <1>1, <1>2, <1>5, <1>6, <1>8, <2>1, <2>3, <2>4, <2>5, <2>6, <2>7, <2>8 DEF Scorable
<1> QED BY <1>1, <1>7, <1>8 DEF QuestionType

\* A stored test case on its way back: a blank one is the deliberate kind.
LEMMA CaseReopened ==
  ASSUME NEW c \in StoredCase
  PROVE  LET d == builderTestCase(c)
             e == authoredTestCase(d)
         IN  /\ d \in Case /\ d.weight = c.weight /\ (d.none \/ d.output)
             /\ e \in StoredCase
             /\ e.output = c.output /\ e.hidden = c.hidden /\ e.weight = c.weight
<1> DEFINE blank == ~c.output
           d == [output |-> c.output, none |-> blank, hidden |-> c.hidden, weight |-> c.weight]
<1>1. blank \in BOOLEAN /\ (c.output \/ blank) /\ (c.output /\ ~blank <=> c.output) BY Zenon
<1>2. c.output \in BOOLEAN /\ c.hidden \in BOOLEAN /\ c.weight \in 0..1 BY DEF StoredCase
<1>3. builderTestCase(c) = d BY DEF builderTestCase
<1> HIDE DEF blank
<1>4. d \in Case BY <1>1, <1>2 DEF Case
<1>5. d.output = c.output /\ d.none = blank /\ d.hidden = c.hidden /\ d.weight = c.weight OBVIOUS
<1> HIDE DEF d
<1> DEFINE e == authoredTestCase(d)
<1>6. /\ e \in StoredCase /\ e.weight = d.weight /\ e.hidden = d.hidden
      /\ e.output <=> d.output /\ ~d.none
  BY <1>4, CaseSent
<1> HIDE DEF e
<1>7. e.output \in BOOLEAN BY <1>6 DEF StoredCase
<1>8. e.output <=> c.output BY <1>1, <1>5, <1>6, Zenon
<1>9. d.none \/ d.output BY <1>1, <1>5, Zenon
<1> QED BY <1>2, <1>3, <1>4, <1>5, <1>6, <1>7, <1>8, <1>9 DEF e

\* A stored question opened again: it would be accepted, and says the same.
LEMMA Reopens ==
  ASSUME NEW q \in Scorable
  PROVE  LET r == Reopened(toQuestion(q))
         IN  r \in Written /\ ~QuestionProblem(r) /\ Sent(examPayload(r)) = Sent(q)
<1> DEFINE key == CorrectOf(q)
           first == CHOOSE o \in key : \A p \in key : o <= p
           single == IF key = {} THEN 0 ELSE first
           bodies == [o \in DOMAIN q.options |-> q.options[o].body]
           options == IF q.type \in {"text", "coding"} THEN <<>> ELSE bodies
           correct == IF q.type = "multiple" THEN key ELSE IF single = 0 THEN {1} ELSE {single}
           cases == [n \in DOMAIN q.tests |-> builderTestCase(q.tests[n])]
           r == [type |-> q.type, prompt |-> TRUE, marks |-> q.marks, options |-> options,
                 correct |-> correct, tests |-> cases]
           wired == [o \in DOMAIN options |-> [body |-> options[o], isCorrect |-> o \in correct]]
           again == [n \in DOMAIN cases |-> authoredTestCase(cases[n])]
           back == IF q.type = "coding" THEN again ELSE <<>>
<1>1. Reopened(toQuestion(q)) = r BY DEF Reopened, toQuestion
<1>2. examPayload(r) = [type |-> q.type, marks |-> q.marks, options |-> wired, tests |-> back]
  BY DEF examPayload
<1>3. /\ q \in StoredQuestion
      /\ q.type \in QuestionType /\ q.marks \in 0..1 /\ q.options \in {<<>>} \cup [Option -> Choice]
      /\ q.tests \in Seq(StoredCase)
      /\ q.type = "mcq" => Cardinality(key) = 1
      /\ q.type = "multiple" => key # {}
      /\ q.type \in {"mcq", "multiple"} => Len(q.options) >= 2
      /\ q.type \in {"text", "coding"} => q.options = <<>>
      /\ q.type = "coding" => q.tests # <<>>
      /\ q.type # "coding" => q.tests = <<>>
      /\ \A o \in DOMAIN q.options : q.options[o].body
      /\ \A m \in DOMAIN q.tests : q.tests[m].weight # 0
  BY DEF Scorable, StoredQuestion
<1>4. \A n \in DOMAIN q.tests : q.tests[n] \in StoredCase BY <1>3, LenProperties
<1>5. OptionCount \in Nat /\ OptionCount >= 2 /\ 1 \in Option /\ 0 \notin Option
  BY BuilderAssumption DEF Option
<1>6. <<>> \in Seq(BOOLEAN) /\ DOMAIN <<>> = {} /\ Len(<<>>) = 0 OBVIOUS
<1>7. key \subseteq Option BY <1>3, <1>6 DEF CorrectOf
<1>8. key # {} => first \in key BY <1>7, FirstTick
<1>9. cases \in Seq(Case) /\ DOMAIN cases = DOMAIN q.tests /\ (cases = <<>> <=> q.tests = <<>>)
      /\ \A n \in DOMAIN q.tests : cases[n] = builderTestCase(q.tests[n])
  <2>1. \A n \in DOMAIN q.tests : builderTestCase(q.tests[n]) \in Case BY <1>4, CaseReopened
  <2>2. cases \in [DOMAIN q.tests -> Case] /\ \A n \in DOMAIN q.tests : cases[n] = builderTestCase(q.tests[n])
    BY <2>1
  <2> HIDE DEF cases
  <2> QED BY <1>3, <2>2, Replaced
<1>10. \A n \in DOMAIN cases : (cases[n].none \/ cases[n].output) /\ cases[n].weight # 0
  <2> HIDE DEF cases
  <2>1. ASSUME NEW n \in DOMAIN cases PROVE (cases[n].none \/ cases[n].output) /\ cases[n].weight # 0
    <3>1. n \in DOMAIN q.tests /\ q.tests[n] \in StoredCase /\ q.tests[n].weight # 0
      BY <1>3, <1>4, <1>9, <2>1
    <3> QED BY <1>9, <3>1, CaseReopened
  <2> QED BY <2>1
<1>11. DOMAIN back = DOMAIN q.tests
       /\ \A n \in DOMAIN q.tests : /\ back[n].output = q.tests[n].output
                                    /\ back[n].hidden = q.tests[n].hidden
                                    /\ back[n].weight = q.tests[n].weight
  <2> HIDE DEF cases
  <2>1. CASE q.type = "coding"
    <3>1. \A n \in DOMAIN q.tests : back[n] = authoredTestCase(builderTestCase(q.tests[n]))
      BY <1>9, <2>1
    <3>2. DOMAIN back = DOMAIN q.tests BY <1>9, <2>1
    <3> HIDE DEF back
    <3> QED BY <1>4, <3>1, <3>2, CaseReopened
  <2>2. CASE q.type # "coding" BY <1>3, <1>6, <2>2
  <2> QED BY <2>1, <2>2
<1> HIDE DEF cases, again, back
<1>12. ASSUME wired = q.options PROVE Sent(examPayload(r)) = Sent(q)
  <2> DEFINE there == [n \in DOMAIN back |-> [output |-> back[n].output, hidden |-> back[n].hidden,
                                              weight |-> back[n].weight]]
             here == [n \in DOMAIN q.tests |-> [output |-> q.tests[n].output,
                                                hidden |-> q.tests[n].hidden,
                                                weight |-> q.tests[n].weight]]
  <2>1. there = here BY <1>11
  <2> HIDE DEF here
  <2>2. Sent(q) = [q EXCEPT !.tests = here] BY DEF Sent, here
  <2>3. Sent(q) = [type |-> q.type, marks |-> q.marks, options |-> q.options, tests |-> here]
    BY <1>3, <2>2 DEF StoredQuestion
  <2> DEFINE e == [type |-> q.type, marks |-> q.marks, options |-> q.options, tests |-> back]
  <2>4. examPayload(r) = e BY <1>2, <1>12
  <2>5. Sent(e) = [e EXCEPT !.tests = there] BY DEF Sent
  <2> HIDE DEF there
  <2>6. Sent(e) = [type |-> q.type, marks |-> q.marks, options |-> q.options, tests |-> there] BY <2>5
  <2> HIDE DEF e
  <2> QED BY <2>1, <2>3, <2>4, <2>6
<1>13. CASE q.type \in {"text", "coding"}
  <2>1. q.options = <<>> /\ options = <<>> /\ q.type # "multiple" /\ q.type # "mcq" BY <1>3, <1>13
  <2>2. wired = q.options
    <3>1. wired \in [DOMAIN options -> Choice] BY <1>6, <2>1
    <3> HIDE DEF wired
    <3> QED BY <1>6, <2>1, <3>1, Replaced
  <2>3. correct \subseteq Option BY <1>5, <1>7, <1>8, <2>1
  <2> HIDE DEF wired, correct, options
  <2>4. r \in Question BY <1>3, <1>9, <2>1, <2>3 DEF Question
  <2>5. r \in Written BY <1>3, <1>9, <2>1, <2>4 DEF Written
  <2>6. ~testCaseProblem(cases) \/ q.type # "coding" BY <1>3, <1>9, <1>10 DEF testCaseProblem
  <2>7. ~QuestionProblem(r) BY <2>1, <2>6 DEF QuestionProblem
  <2> QED BY <1>1, <1>12, <2>2, <2>5, <2>7
<1>14. CASE q.type \in {"mcq", "multiple"}
  <2>1. q.type # "coding" /\ q.type # "text" /\ q.options # <<>> BY <1>3, <1>6, <1>14
  <2>2. q.options \in [Option -> Choice] BY <1>3, <2>1
  <2>3. options \in [Option -> BOOLEAN] /\ \A o \in Option : options[o] = q.options[o].body /\ options[o]
    BY <1>3, <2>1, <2>2 DEF Choice
  <2>4. options \in Seq(BOOLEAN) /\ Len(options) = OptionCount
    BY <1>5, <2>3, SeqDef, LenProperties DEF Option
  <2>5. correct = key /\ key # {}
    <3>1. CASE q.type = "multiple" BY <1>3, <3>1
    <3>2. CASE q.type = "mcq"
      <4>1. IsFiniteSet(key)
        <5>1. IsFiniteSet(Option) BY <1>5, FS_Interval DEF Option
        <5> QED BY <1>7, <5>1, FS_Subset
      <4>2. PICK x : key = {x} BY <1>3, <3>2, <4>1, FS_Singleton
      <4>3. first \in key /\ single = first BY <1>8, <4>2
      <4> QED BY <1>5, <1>7, <3>2, <4>2, <4>3
    <3> QED BY <1>14, <3>1, <3>2
  <2>6. wired = q.options
    <3>1. ASSUME NEW o \in Option
          PROVE  [body |-> options[o], isCorrect |-> o \in correct] = q.options[o]
      <4>1. q.options[o] \in Choice /\ (o \in key <=> q.options[o].isCorrect) BY <2>2, <3>1 DEF CorrectOf
      <4>2. (o \in correct) \in BOOLEAN /\ (o \in correct <=> q.options[o].isCorrect) BY <2>5, <4>1
      <4> QED BY <2>3, <4>1, <4>2 DEF Choice
    <3> HIDE DEF options, correct
    <3> QED BY <2>2, <2>3, <3>1
  <2> HIDE DEF wired, correct, options, key
  <2>7. r \in Question BY <1>3, <1>7, <1>9, <2>3, <2>5 DEF Question
  <2>8. r \in Written BY <1>3, <2>1, <2>5, <2>7 DEF Written
  <2>9. ~QuestionProblem(r) BY <1>5, <2>1, <2>3, <2>4, <2>5 DEF QuestionProblem
  <2> QED BY <1>1, <1>12, <2>6, <2>8, <2>9
<1> QED BY <1>3, <1>13, <1>14 DEF QuestionType

\* A question of the form after one of its fields was written.
LEMMA QuestionEdited ==
  ASSUME NEW q \in Written
  PROVE  /\ [q EXCEPT !.prompt = ~q.prompt] \in Written
         /\ [q EXCEPT !.marks = 1 - q.marks] \in Written
         /\ \A type \in QuestionType : changeQuestionType(q, type) \in Written
         /\ \A o \in DOMAIN q.options : /\ [q EXCEPT !.options[o] = ~q.options[o]] \in Written
                                        /\ toggleCorrect(q, o) \in Written
         /\ \A tests \in Seq(Case) : tests # <<>> => [q EXCEPT !.tests = tests] \in Written
<1>1. /\ q \in Question
      /\ q.type \in QuestionType /\ q.marks \in 0..1 /\ q.options \in {<<>>} \cup [Option -> BOOLEAN]
      /\ q.correct \in SUBSET Option /\ q.tests \in Seq(Case) /\ q.prompt \in BOOLEAN
      /\ q.type = "mcq" => Cardinality(q.correct) = 1
      /\ q.type = "coding" => q.tests # <<>>
      /\ q.type \in {"text", "coding"} => q.options = <<>>
  BY DEF Written, Question
<1>2. 1 \in Option BY BuilderAssumption DEF Option
<1>3. DOMAIN <<>> = {} OBVIOUS
<1>4. \A o \in DOMAIN q.options : /\ q.options \in [Option -> BOOLEAN] /\ o \in Option
                                  /\ q.type \notin {"text", "coding"}
  BY <1>1, <1>3
<1>5. [q EXCEPT !.prompt = ~q.prompt] \in Written
  <2> DEFINE b == ~q.prompt
             d == [q EXCEPT !.prompt = b]
  <2>1. b \in BOOLEAN OBVIOUS
  <2> HIDE DEF b
  <2>2. d \in Question BY <1>1, <2>1 DEF Question
  <2>3. d.type = q.type /\ d.correct = q.correct /\ d.tests = q.tests /\ d.options = q.options
    BY <1>1 DEF Question
  <2> HIDE DEF d
  <2>4. d \in Written BY <1>1, <2>2, <2>3 DEF Written
  <2> QED BY <2>4 DEF d, b
<1>6. [q EXCEPT !.marks = 1 - q.marks] \in Written
  <2> DEFINE d == [q EXCEPT !.marks = 1 - q.marks]
  <2>1. d \in Question BY <1>1 DEF Question
  <2>2. d.type = q.type /\ d.correct = q.correct /\ d.tests = q.tests /\ d.options = q.options
    BY <1>1 DEF Question
  <2> HIDE DEF d
  <2>3. d \in Written BY <1>1, <2>1, <2>2 DEF Written
  <2> QED BY <2>3 DEF d
<1>7. ASSUME NEW tests \in Seq(Case), tests # <<>> PROVE [q EXCEPT !.tests = tests] \in Written
  <2> DEFINE d == [q EXCEPT !.tests = tests]
  <2>1. d \in Question BY <1>1 DEF Question
  <2>2. d.type = q.type /\ d.correct = q.correct /\ d.tests = tests /\ d.options = q.options
    BY <1>1 DEF Question
  <2> HIDE DEF d
  <2>3. d \in Written BY <1>1, <1>7, <2>1, <2>2 DEF Written
  <2> QED BY <2>3 DEF d
<1>8. ASSUME NEW o \in DOMAIN q.options PROVE [q EXCEPT !.options[o] = ~q.options[o]] \in Written
  <2> DEFINE b == ~q.options[o]
             options == [q.options EXCEPT ![o] = b]
             d == [q EXCEPT !.options = options]
  <2>1. b \in BOOLEAN OBVIOUS
  <2> HIDE DEF b
  <2>2. options \in [Option -> BOOLEAN] BY <1>4, <2>1
  <2> HIDE DEF options
  <2>3. d \in Question BY <1>1, <2>2 DEF Question
  <2>4. d.type = q.type /\ d.correct = q.correct /\ d.tests = q.tests BY <1>1 DEF Question
  <2>5. [q EXCEPT !.options[o] = b] = d BY <1>1 DEF Question, options
  <2> HIDE DEF d
  <2>6. d \in Written BY <1>1, <1>4, <2>3, <2>4 DEF Written
  <2> QED BY <2>5, <2>6 DEF b
<1>9. ASSUME NEW o \in DOMAIN q.options PROVE toggleCorrect(q, o) \in Written
  <2> DEFINE correct == IF q.type = "mcq" THEN {o}
                        ELSE IF o \in q.correct THEN q.correct \ {o} ELSE q.correct \cup {o}
             d == [q EXCEPT !.correct = correct]
  <2>1. correct \in SUBSET Option /\ (q.type = "mcq" => Cardinality(correct) = 1)
    BY <1>1, <1>4, FS_Singleton
  <2>2. toggleCorrect(q, o) = d BY DEF toggleCorrect
  <2> HIDE DEF correct
  <2>3. d \in Question BY <1>1, <2>1 DEF Question
  <2>4. d.type = q.type /\ d.correct = correct /\ d.tests = q.tests /\ d.options = q.options
    BY <1>1 DEF Question
  <2> HIDE DEF d
  <2>5. d \in Written BY <1>1, <2>1, <2>3, <2>4 DEF Written
  <2> QED BY <2>2, <2>5
<1>10. ASSUME NEW type \in QuestionType PROVE changeQuestionType(q, type) \in Written
  <2>1. CASE type \in {"text", "coding"}
    <3> DEFINE tests == IF type = "coding" /\ q.tests = <<>> THEN <<blankTestCase(0)>> ELSE q.tests
               d == [q EXCEPT !.type = type, !.options = <<>>, !.correct = {}, !.tests = tests]
    <3>1. blankTestCase(0) \in Case BY DEF blankTestCase, Case
    <3>2. tests \in Seq(Case) /\ (type = "coding" => tests # <<>>) BY <1>1, <3>1
    <3>3. changeQuestionType(q, type) = d BY <2>1 DEF changeQuestionType
    <3> HIDE DEF tests
    <3>4. d = [q EXCEPT !.type = type, !.options = <<>>, !.correct = {}, !.tests = tests] OBVIOUS
    <3>5. d \in Question BY <1>1, <3>2 DEF Question
    <3>6. d.type = type /\ d.options = <<>> /\ d.tests = tests BY <1>1 DEF Question
    <3> HIDE DEF d
    <3>7. d \in Written BY <2>1, <3>2, <3>5, <3>6 DEF Written
    <3> QED BY <3>3, <3>7
  <2>2. CASE type \notin {"text", "coding"}
    <3> DEFINE options == IF q.options = <<>> THEN BlankOptions ELSE q.options
               first == CHOOSE o \in q.correct : \A p \in q.correct : o <= p
               correct == IF q.correct = {} THEN {1} ELSE IF type = "mcq" THEN {first} ELSE q.correct
               d == [q EXCEPT !.type = type, !.options = options, !.correct = correct]
    <3>1. options \in {<<>>} \cup [Option -> BOOLEAN] BY <1>1 DEF BlankOptions
    <3>2. q.correct # {} => first \in Option BY <1>1, FirstTick
    <3>3. correct \in SUBSET Option BY <1>1, <1>2, <3>2
    <3>4. type = "mcq" => Cardinality(correct) = 1 BY FS_Singleton
    <3>5. changeQuestionType(q, type) = d BY <2>2 DEF changeQuestionType
    <3> HIDE DEF options, correct
    <3>6. d \in Question BY <1>1, <3>1, <3>3 DEF Question
    <3>7. d.type = type /\ d.correct = correct BY <1>1 DEF Question
    <3> HIDE DEF d
    <3>8. d \in Written BY <2>2, <3>4, <3>6, <3>7 DEF Written
    <3> QED BY <3>5, <3>8
  <2> QED BY <2>1, <2>2
<1> QED BY <1>5, <1>6, <1>7, <1>8, <1>9, <1>10

\* A test case after one of its fields was written.
LEMMA CasePatched ==
  ASSUME NEW c \in Case, NEW test \in CasePatches(c)
  PROVE  test \in Case
<1>1. /\ c.output \in BOOLEAN /\ c.none \in BOOLEAN /\ c.hidden \in BOOLEAN /\ c.weight \in 0..1
  BY DEF Case
<1>2. [c EXCEPT !.hidden = ~c.hidden] \in Case BY <1>1 DEF Case
<1>3. [c EXCEPT !.weight = 1 - c.weight] \in Case BY <1>1 DEF Case
<1>4. [c EXCEPT !.none = ~c.none, !.output = c.none /\ c.output] \in Case
  <2> DEFINE none == ~c.none
             output == c.none /\ c.output
  <2>1. none \in BOOLEAN /\ output \in BOOLEAN OBVIOUS
  <2> HIDE DEF none, output
  <2>2. [c EXCEPT !.none = none, !.output = output] \in Case BY <1>1, <2>1 DEF Case
  <2> QED BY <2>2 DEF none, output
<1>5. [c EXCEPT !.output = ~c.output] \in Case BY <1>1 DEF Case
<1> QED BY <1>2, <1>3, <1>4, <1>5 DEF CasePatches

\* A question as the form adds it.
LEMMA BlankWritten == blankQuestion \in Written
<1>1. 1 \in Option /\ DOMAIN <<>> = {} BY BuilderAssumption DEF Option
<1>2. BlankOptions \in [Option -> BOOLEAN] BY DEF BlankOptions
<1>3. <<>> \in Seq(Case) OBVIOUS
<1>4. Cardinality({1}) = 1 BY FS_Singleton
<1>5. /\ blankQuestion.type = "mcq" /\ blankQuestion.correct = {1}
      /\ blankQuestion = [type |-> "mcq", prompt |-> FALSE, options |-> BlankOptions, correct |-> {1},
                          marks |-> 1, tests |-> <<>>]
  BY DEF blankQuestion
<1>6. blankQuestion \in Question BY <1>1, <1>2, <1>3, <1>5 DEF Question, QuestionType
<1> QED BY <1>4, <1>5, <1>6 DEF Written

\* The form after an edit.
LEMMA FormEdited ==
  ASSUME BuilderInv, WritePaper \/ WriteDetails \/ SelectStudents
                     \/ \E i \in DOMAIN form.questions : WriteQuestion(i) \/ WriteCases(i)
  PROVE  BuilderInv'
<1>1. form \in FormRow /\ form.questions \in Seq(Written) /\ form.selected \subseteq Candidates \ Blocked
  BY DEF BuilderInv, FormRow
<1>2. \A i \in DOMAIN form.questions : form.questions[i] \in Written BY <1>1, LenProperties
<1>3. ASSUME NEW f \in FormRow, Edit(f) PROVE BuilderInv'
  BY <1>3 DEF Edit, BuilderInv
<1>4. ASSUME NEW questions \in Seq(Written) PROVE [form EXCEPT !.questions = questions] \in FormRow
  BY <1>1 DEF FormRow
<1>5. ASSUME NEW i \in DOMAIN form.questions, NEW q \in Written, updateQuestion(i, q) PROVE BuilderInv'
  <2> DEFINE questions == [form.questions EXCEPT ![i] = q]
  <2>1. i \in 1..Len(form.questions) BY <1>1, LenProperties
  <2>2. questions \in Seq(Written) BY <1>1, <2>1, ExceptSeq
  <2>3. [form EXCEPT !.questions[i] = q] = [form EXCEPT !.questions = questions] BY <1>1 DEF FormRow
  <2> HIDE DEF questions
  <2>4. [form EXCEPT !.questions = questions] \in FormRow BY <1>4, <2>2
  <2> QED BY <1>3, <1>5, <2>3, <2>4 DEF updateQuestion
<1>6. ASSUME NEW i \in DOMAIN form.questions, WriteQuestion(i) PROVE BuilderInv'
  <2> DEFINE q == form.questions[i]
  <2>1. q \in Written BY <1>2
  <2>2. PICK d \in Written : updateQuestion(i, d)
    <3>1. CASE updateQuestion(i, [q EXCEPT !.prompt = ~q.prompt]) BY <2>1, <3>1, QuestionEdited
    <3>2. CASE updateQuestion(i, [q EXCEPT !.marks = 1 - q.marks]) BY <2>1, <3>2, QuestionEdited
    <3>3. CASE \E type \in QuestionType \ {q.type} : updateQuestion(i, changeQuestionType(q, type))
      BY <2>1, <3>3, QuestionEdited
    <3>4. CASE \E o \in DOMAIN q.options : \/ updateQuestion(i, [q EXCEPT !.options[o] = ~q.options[o]])
                                           \/ updateQuestion(i, toggleCorrect(q, o))
      BY <2>1, <3>4, QuestionEdited
    <3> QED BY <1>6, <3>1, <3>2, <3>3, <3>4 DEF WriteQuestion
  <2> QED BY <1>5, <2>2
<1>7. ASSUME NEW i \in DOMAIN form.questions, WriteCases(i) PROVE BuilderInv'
  <2> DEFINE q == form.questions[i]
  <2>1. q \in Written /\ q.tests \in Seq(Case) BY <1>2 DEF Written, Question
  <2>2. ASSUME NEW tests \in Seq(Case), tests # <<>>, updateQuestion(i, [q EXCEPT !.tests = tests])
        PROVE  BuilderInv'
    BY <1>5, <2>1, <2>2, QuestionEdited
  <2>3. ASSUME NEW n \in DOMAIN q.tests, NEW test \in CasePatches(q.tests[n]),
               updateQuestion(i, [q EXCEPT !.tests[n] = test])
        PROVE  BuilderInv'
    <3> DEFINE tests == [q.tests EXCEPT ![n] = test]
    <3>1. n \in 1..Len(q.tests) /\ Len(q.tests) \in Nat /\ q.tests[n] \in Case BY <2>1, LenProperties
    <3>2. test \in Case BY <3>1, CasePatched
    <3>3. tests \in Seq(Case) /\ Len(tests) = Len(q.tests) BY <2>1, <3>1, <3>2, ExceptSeq
    <3>4. tests # <<>> BY <3>1, <3>3, EmptySeq
    <3>5. [q EXCEPT !.tests[n] = test] = [q EXCEPT !.tests = tests] BY <2>1 DEF Written, Question
    <3> HIDE DEF tests
    <3> QED BY <2>2, <2>3, <3>3, <3>4, <3>5
  <2>4. ASSUME updateQuestion(i, [q EXCEPT !.tests = Append(q.tests, blankTestCase(Len(q.tests)))])
        PROVE  BuilderInv'
    <3>1. blankTestCase(Len(q.tests)) \in Case BY DEF blankTestCase, Case
    <3>2. Append(q.tests, blankTestCase(Len(q.tests))) \in Seq(Case)
          /\ Len(Append(q.tests, blankTestCase(Len(q.tests)))) = Len(q.tests) + 1
      BY <2>1, <3>1, AppendProperties
    <3>3. Len(q.tests) \in Nat BY <2>1, LenProperties
    <3>4. Append(q.tests, blankTestCase(Len(q.tests))) # <<>> BY <3>2, <3>3, EmptySeq
    <3> QED BY <2>2, <2>4, <3>2, <3>4
  <2>5. ASSUME NEW n \in DOMAIN q.tests, Len(q.tests) > 1,
               updateQuestion(i, [q EXCEPT !.tests = RemoveAt(q.tests, n)])
        PROVE  BuilderInv'
    <3>1. RemoveAt(q.tests, n) \in Seq(Case) /\ Len(RemoveAt(q.tests, n)) = Len(q.tests) - 1
      BY <2>1, OneOut
    <3>2. Len(q.tests) \in Nat BY <2>1, LenProperties
    <3>3. RemoveAt(q.tests, n) # <<>> BY <2>5, <3>1, <3>2, EmptySeq
    <3> QED BY <2>2, <2>5, <3>1, <3>3
  <2> QED BY <1>7, <2>3, <2>4, <2>5 DEF WriteCases
<1>8. CASE WritePaper
  <2>1. Append(form.questions, blankQuestion) \in Seq(Written) BY <1>1, BlankWritten, AppendProperties
  <2>2. \A i \in DOMAIN form.questions : RemoveAt(form.questions, i) \in Seq(Written) BY <1>1, OneOut
  <2> QED BY <1>3, <1>4, <1>8, <2>1, <2>2 DEF WritePaper
<1>9. CASE WriteDetails
  <2> DEFINE b == ~form.details
             f == [form EXCEPT !.details = b]
  <2>1. b \in BOOLEAN OBVIOUS
  <2> HIDE DEF b
  <2>2. f \in FormRow BY <1>1, <2>1 DEF FormRow
  <2> HIDE DEF f
  <2>3. Edit(f) BY <1>9 DEF WriteDetails, f, b
  <2> QED BY <1>3, <2>2, <2>3
<1>10. CASE SelectStudents
  <2>1. ASSUME NEW S \in SUBSET (Candidates \ Blocked) PROVE [form EXCEPT !.selected = S] \in FormRow
    BY <1>1 DEF FormRow
  <2>2. PICK S \in SUBSET (Candidates \ Blocked) : Edit([form EXCEPT !.selected = S])
    <3>1. CASE \E s \in Candidates \ Blocked :
                 Edit([form EXCEPT !.selected = IF s \in @ THEN @ \ {s} ELSE @ \cup {s}])
      <4>1. PICK s \in Candidates \ Blocked :
              Edit([form EXCEPT !.selected = IF s \in @ THEN @ \ {s} ELSE @ \cup {s}])
        BY <3>1
      <4> DEFINE S == IF s \in form.selected THEN form.selected \ {s} ELSE form.selected \cup {s}
      <4>2. S \in SUBSET (Candidates \ Blocked) BY <1>1
      <4>3. Edit([form EXCEPT !.selected = S]) BY <4>1
      <4> QED BY <4>2, <4>3
    <3>2. CASE Edit([form EXCEPT !.selected = Candidates \ Blocked]) BY <3>2
    <3>3. CASE Edit([form EXCEPT !.selected = {}]) BY <3>3
    <3> QED BY <1>10, <3>1, <3>2, <3>3 DEF SelectStudents
  <2> QED BY <1>3, <2>1, <2>2
<1> QED BY <1>6, <1>7, <1>8, <1>9, <1>10

\* The form as it opens on a stored draft.
LEMMA DraftReopened ==
  ASSUME BuilderInv, NEW k \in DOMAIN drafts, OpenEdit(k)
  PROVE  /\ form' \in FormRow /\ DOMAIN form'.questions = DOMAIN drafts[k].questions
         /\ \A n \in DOMAIN drafts[k].questions :
              drafts[k].questions[n] \in Scorable
                /\ form'.questions[n] = Reopened(toQuestion(drafts[k].questions[n]))
<1> DEFINE e == drafts[k]
           test == toTest(e)
           questions == [n \in DOMAIN test.questions |-> Reopened(test.questions[n])]
<1>1. e \in DraftRow /\ e.questions \in Seq(Scorable) /\ k \in Nat
  <2>1. drafts \in Seq(DraftRow) BY DEF BuilderInv
  <2>2. e \in DraftRow /\ k \in Nat BY <2>1, LenProperties
  <2> QED BY <2>2 DEF DraftRow
<1>2. \A n \in DOMAIN e.questions : e.questions[n] \in Scorable BY <1>1, LenProperties
<1>3. /\ DOMAIN test.questions = DOMAIN e.questions
      /\ \A n \in DOMAIN e.questions : test.questions[n] = toQuestion(e.questions[n])
      /\ test.status = e.status /\ test.assigned = Assigned(e)
  BY DEF toTest
<1>4. /\ test.status = "draft"
      /\ form' = [mode |-> "edit", exam |-> k, details |-> TRUE, selected |-> test.assigned,
                  questions |-> questions]
  BY DEF OpenEdit
<1> HIDE DEF test
<1>5. /\ questions \in [DOMAIN e.questions -> Written]
      /\ \A n \in DOMAIN e.questions : questions[n] = Reopened(toQuestion(e.questions[n]))
  <2>1. \A n \in DOMAIN e.questions : Reopened(toQuestion(e.questions[n])) \in Written BY <1>2, Reopens
  <2> QED BY <1>3, <2>1
<1> HIDE DEF questions
<1>6. questions \in Seq(Written) BY <1>1, <1>5, Replaced
<1>7. test.assigned = {} BY <1>3, <1>4 DEF Assigned
<1>8. form' \in FormRow BY <1>1, <1>4, <1>6, <1>7 DEF FormRow
<1> HIDE DEF e
<1>9. form'.questions = questions BY <1>4
<1> QED BY <1>2, <1>5, <1>8, <1>9 DEF e

\* What the server stores of a save.
LEMMA Stored ==
  ASSUME BuilderInv, NEW p \in PostRow, create_exam(p) \/ update_exam(p)
  PROVE  drafts' \in Seq(DraftRow)
<1>1. drafts \in Seq(DraftRow) /\ p.students \in Rosters /\ p.questions \in Seq(Scorable)
  BY DEF BuilderInv, PostRow
<1>2. CASE create_exam(p)
  <2> DEFINE e == [status |-> "draft", students |-> p.students, questions |-> p.questions]
  <2>1. e \in DraftRow BY <1>1 DEF DraftRow
  <2> HIDE DEF e
  <2>2. drafts' = Append(drafts, e) BY <1>2 DEF create_exam, e
  <2> QED BY <1>1, <2>1, <2>2, AppendProperties
<1>3. CASE update_exam(p)
  <2>1. drafts' = [drafts EXCEPT ![p.exam].students = p.students, ![p.exam].questions = p.questions]
    BY <1>3 DEF update_exam
  <2>2. CASE p.exam \in DOMAIN drafts
    <3> DEFINE k == p.exam
               e == [drafts[k] EXCEPT !.students = p.students, !.questions = p.questions]
    <3>1. k \in 1..Len(drafts) /\ drafts[k] \in DraftRow BY <1>1, <2>2, LenProperties
    <3>2. e \in DraftRow BY <1>1, <3>1 DEF DraftRow
    <3>3. drafts' = [drafts EXCEPT ![k] = e] BY <1>1, <2>1, <2>2, <3>1 DEF DraftRow
    <3> HIDE DEF e, k
    <3> QED BY <1>1, <3>1, <3>2, <3>3, ExceptSeq
  <2>3. CASE p.exam \notin DOMAIN drafts
    <3> DEFINE first == [drafts EXCEPT ![p.exam].students = p.students]
    <3>1. first \in [DOMAIN drafts -> DraftRow] BY <1>1, <2>3, LenProperties
    <3> HIDE DEF first
    <3>2. drafts' = [first EXCEPT ![p.exam].questions = p.questions] BY <2>1 DEF first
    <3>3. drafts' \in [DOMAIN drafts -> DraftRow] BY <2>3, <3>1, <3>2
    <3> QED BY <1>1, <3>3, Replaced
  <2> QED BY <2>2, <2>3
<1> QED BY <1>2, <1>3

\* Every step keeps the builder's invariant.
LEMMA NextBuilder ==
  ASSUME BuilderInv, [BuilderNext]_builder
  PROVE  BuilderInv'
<1>1. /\ form \in FormRow /\ posts \in Seq(PostRow) /\ drafts \in Seq(DraftRow)
      /\ \A n \in DOMAIN posts : posts[n] \in PostRow /\ RemoveAt(posts, n) \in Seq(PostRow)
  <2>1. form \in FormRow /\ posts \in Seq(PostRow) /\ drafts \in Seq(DraftRow) BY DEF BuilderInv
  <2>2. \A n \in DOMAIN posts : posts[n] \in PostRow BY <2>1, LenProperties
  <2>3. \A n \in DOMAIN posts : RemoveAt(posts, n) \in Seq(PostRow) BY <2>1, OneOut
  <2> QED BY <2>1, <2>2, <2>3
<1>2. Closed \in FormRow
  <2>1. <<>> \in Seq(Written) OBVIOUS
  <2> QED BY <2>1 DEF Closed, FormRow
<1>3. CASE UNCHANGED builder BY <1>3 DEF builder, BuilderInv
<1>4. CASE OpenNew
  <2>1. <<blankQuestion>> \in Seq(Written) BY BlankWritten
  <2> DEFINE f == [Closed EXCEPT !.mode = "new", !.questions = <<blankQuestion>>]
  <2>2. f \in FormRow BY <1>2, <2>1 DEF FormRow
  <2>3. form' = f /\ UNCHANGED <<posts, drafts>> BY <1>4 DEF OpenNew
  <2> HIDE DEF f
  <2> QED BY <1>1, <2>2, <2>3 DEF BuilderInv
<1>5. CASE Cancel BY <1>1, <1>2, <1>5 DEF Cancel, BuilderInv
<1>6. CASE submit
  <2>1. validate(form) /\ posts' = Append(posts, buildInput(form)) /\ UNCHANGED <<form, drafts>>
    BY <1>6 DEF submit
  <2>2. form.selected \in Rosters /\ form.exam \in Nat /\ form.questions \in Seq(Written)
    BY <1>1, <2>1 DEF validate, FormRow, Rosters
  <2>3. \A n \in DOMAIN form.questions : form.questions[n] \in Written /\ ~QuestionProblem(form.questions[n])
    BY <2>1, <2>2, LenProperties DEF validate
  <2> DEFINE questions == [n \in DOMAIN form.questions |-> examPayload(form.questions[n])]
             p == [exam |-> form.exam, students |-> form.selected, questions |-> questions]
  <2>4. questions \in [DOMAIN form.questions -> Scorable]
    <3>1. \A n \in DOMAIN form.questions : examPayload(form.questions[n]) \in Scorable BY <2>3, SentSound
    <3> QED BY <3>1
  <2>5. buildInput(form) = p BY DEF buildInput
  <2> HIDE DEF questions
  <2>6. questions \in Seq(Scorable) BY <2>2, <2>4, Replaced
  <2>7. p \in PostRow BY <2>2, <2>6 DEF PostRow
  <2> HIDE DEF p
  <2>8. posts' \in Seq(PostRow) BY <1>1, <2>1, <2>5, <2>7, AppendProperties
  <2> QED BY <1>1, <2>1, <2>8 DEF BuilderInv
<1>7. CASE WritePaper \/ WriteDetails \/ SelectStudents
           \/ \E i \in DOMAIN form.questions : WriteQuestion(i) \/ WriteCases(i)
  BY <1>7, FormEdited
<1>8. ASSUME NEW k \in DOMAIN drafts, OpenEdit(k) PROVE BuilderInv'
  BY <1>1, <1>8, DraftReopened DEF OpenEdit, BuilderInv
<1>9. ASSUME NEW k \in DOMAIN drafts, scheduleExam(k) PROVE BuilderInv'
  <2> DEFINE e == [drafts[k] EXCEPT !.status = "scheduled"]
  <2>1. k \in 1..Len(drafts) /\ drafts[k] \in DraftRow BY <1>1, LenProperties
  <2>2. e \in DraftRow BY <2>1 DEF DraftRow
  <2>3. drafts' = [drafts EXCEPT ![k] = e] /\ UNCHANGED <<form, posts>>
    BY <1>1, <1>9 DEF scheduleExam
  <2> HIDE DEF e
  <2>4. drafts' \in Seq(DraftRow) BY <1>1, <2>1, <2>2, <2>3, ExceptSeq
  <2> QED BY <1>1, <2>3, <2>4 DEF BuilderInv
<1>10. ASSUME NEW n \in DOMAIN posts, Saved(n) \/ NotSaved(n) \/ Unheard(n) PROVE BuilderInv'
  <2>1. posts' \in Seq(PostRow) /\ (form' = form \/ form' = Closed)
    BY <1>1, <1>10 DEF Saved, NotSaved, Unheard
  <2>2. UNCHANGED drafts \/ create_exam(posts[n]) \/ update_exam(posts[n])
    BY <1>10 DEF Saved, NotSaved, Unheard
  <2>3. drafts' \in Seq(DraftRow) BY <1>1, <2>2, Stored
  <2> QED BY <1>1, <1>2, <2>1, <2>3 DEF BuilderInv
<1> QED BY <1>3, <1>4, <1>5, <1>6, <1>7, <1>8, <1>9, <1>10 DEF BuilderNext

\* The builder before anything is written: an earlier paper was sent by the form.
LEMMA InitBuilder == BuilderInit => BuilderInv
<1> SUFFICES ASSUME BuilderInit PROVE BuilderInv OBVIOUS
<1>1. form = Closed /\ posts = <<>> BY DEF BuilderInit
<1>2. form \in FormRow
  <2>1. <<>> \in Seq(Written) OBVIOUS
  <2> QED BY <1>1, <2>1 DEF Closed, FormRow
<1>3. posts \in Seq(PostRow) BY <1>1
<1>4. ASSUME drafts # <<>> PROVE drafts \in Seq(DraftRow)
  <2>1. Candidates # Blocked /\ Capacity >= 1 /\ \E e \in Earlier : drafts = <<e>>
    BY <1>4 DEF BuilderInit
  <2>2. PICK e \in Earlier : drafts = <<e>> BY <2>1
  <2> DEFINE Ticked(right) == [o \in Option |-> [body |-> TRUE, isCorrect |-> o \in right]]
             one == CHOOSE s \in Candidates : s \notin Blocked
             Keyed(type, options, tests) ==
               [status |-> "draft", students |-> {one},
                questions |-> <<[type |-> type, marks |-> 1, options |-> options, tests |-> tests]>>]
             shownCase == [output |-> TRUE, hidden |-> FALSE, weight |-> 1, chosen |-> FALSE]
             silentCase == [output |-> FALSE, hidden |-> TRUE, weight |-> 1, chosen |-> TRUE]
  <2>3. e \in {Keyed("mcq", Ticked({OptionCount}), <<>>), Keyed("multiple", Ticked(Option), <<>>),
               Keyed("text", <<>>, <<>>), Keyed("coding", <<>>, <<shownCase, silentCase>>)}
    BY DEF Earlier
  <2>4. OptionCount \in Nat /\ OptionCount >= 2 /\ OptionCount \in Option /\ 1 \in Option
    BY BuilderAssumption DEF Option
  <2>5. {one} \in Rosters
    <3>1. one \in Candidates \ Blocked BY <2>1, BuilderAssumption
    <3>2. Cardinality({one}) = 1 /\ {one} # {} BY FS_Singleton
    <3>3. Capacity \in Nat BY BuilderAssumption
    <3> HIDE DEF one
    <3> QED BY <2>1, <3>1, <3>2, <3>3 DEF Rosters
  <2> HIDE DEF one
  <2>6. ASSUME NEW type, NEW options, NEW tests,
               [type |-> type, marks |-> 1, options |-> options, tests |-> tests] \in Scorable
        PROVE  Keyed(type, options, tests) \in DraftRow
    <3> DEFINE q == [type |-> type, marks |-> 1, options |-> options, tests |-> tests]
    <3>1. <<q>> \in Seq(Scorable) BY <2>6
    <3> HIDE DEF q
    <3>2. [status |-> "draft", students |-> {one}, questions |-> <<q>>] \in DraftRow
      BY <2>5, <3>1 DEF DraftRow
    <3> QED BY <3>2 DEF q
  <2>7. ASSUME NEW right \in SUBSET Option, NEW type \in {"mcq", "multiple"}, right # {},
               type = "mcq" => Cardinality(right) = 1
        PROVE  [type |-> type, marks |-> 1, options |-> Ticked(right), tests |-> <<>>] \in Scorable
    <3> DEFINE options == Ticked(right)
               q == [type |-> type, marks |-> 1, options |-> options, tests |-> <<>>]
    <3>1. options \in [Option -> Choice] /\ DOMAIN options = Option
          /\ \A o \in Option : options[o].body /\ (options[o].isCorrect <=> o \in right)
      <4>1. \A o \in Option : [body |-> TRUE, isCorrect |-> o \in right] \in Choice BY DEF Choice
      <4>2. ASSUME NEW o \in Option PROVE options[o].body /\ (options[o].isCorrect <=> o \in right)
        <5> DEFINE b == o \in right
        <5>1. options[o] = [body |-> TRUE, isCorrect |-> b] OBVIOUS
        <5>2. b \in BOOLEAN OBVIOUS
        <5> HIDE DEF options, b
        <5>3. options[o].body = TRUE /\ options[o].isCorrect = b BY <5>1
        <5> QED BY <5>3 DEF b
      <4>3. DOMAIN options = Option /\ options \in [Option -> Choice] BY <4>1
      <4> HIDE DEF options
      <4> QED BY <4>2, <4>3
    <3> HIDE DEF options
    <3>2. options \in Seq(Choice) /\ Len(options) = OptionCount
      BY <2>4, <3>1, SeqDef, LenProperties DEF Option
    <3>3. <<>> \in Seq(StoredCase) /\ DOMAIN <<>> = {} OBVIOUS
    <3>4. q \in StoredQuestion BY <3>1, <3>3 DEF StoredQuestion, QuestionType
    <3>5. CorrectOf(q) = right BY <3>1 DEF CorrectOf
    <3>6. q.type = type /\ q.options = options /\ q.tests = <<>> OBVIOUS
    <3> HIDE DEF q
    <3>7. q \in Scorable BY <2>4, <2>7, <3>1, <3>2, <3>3, <3>4, <3>5, <3>6 DEF Scorable
    <3> QED BY <3>7 DEF q, options
  <2>8. ASSUME NEW type \in {"text", "coding"}, NEW tests \in Seq(StoredCase),
               type = "coding" <=> tests # <<>>,
               \A m \in DOMAIN tests : (tests[m].output \/ tests[m].chosen) /\ tests[m].weight # 0
        PROVE  [type |-> type, marks |-> 1, options |-> <<>>, tests |-> tests] \in Scorable
    <3> DEFINE q == [type |-> type, marks |-> 1, options |-> <<>>, tests |-> tests]
    <3>1. q \in StoredQuestion BY DEF StoredQuestion, QuestionType
    <3>2. q.type = type /\ q.options = <<>> /\ q.tests = tests OBVIOUS
    <3>3. DOMAIN <<>> = {} OBVIOUS
    <3> HIDE DEF q
    <3>4. q \in Scorable BY <2>8, <3>1, <3>2, <3>3 DEF Scorable
    <3> QED BY <3>4 DEF q
  <2>9. Keyed("mcq", Ticked({OptionCount}), <<>>) \in DraftRow BY <2>4, <2>6, <2>7, FS_Singleton
  <2>10. Keyed("multiple", Ticked(Option), <<>>) \in DraftRow BY <2>4, <2>6, <2>7
  <2>11. <<>> \in Seq(StoredCase) /\ DOMAIN <<>> = {} OBVIOUS
  <2>12. Keyed("text", <<>>, <<>>) \in DraftRow BY <2>6, <2>8, <2>11
  <2>13. Keyed("coding", <<>>, <<shownCase, silentCase>>) \in DraftRow
    <3> DEFINE tests == <<shownCase, silentCase>>
    <3>1. tests \in Seq(StoredCase) /\ tests # <<>>
      <4>1. shownCase \in StoredCase /\ silentCase \in StoredCase BY DEF StoredCase
      <4> HIDE DEF shownCase, silentCase
      <4> QED BY <4>1
    <3>2. \A m \in DOMAIN tests : (tests[m].output \/ tests[m].chosen) /\ tests[m].weight # 0
      <4>1. \A m \in DOMAIN tests : tests[m] = shownCase \/ tests[m] = silentCase
        <5> HIDE DEF shownCase, silentCase
        <5>1. DOMAIN tests = 1..2 /\ tests[1] = shownCase /\ tests[2] = silentCase OBVIOUS
        <5> HIDE DEF tests
        <5>2. \A m \in 1..2 : m = 1 \/ m = 2 OBVIOUS
        <5> QED BY <5>1, <5>2
      <4>2. /\ shownCase.output /\ silentCase.chosen /\ shownCase.weight # 0 /\ silentCase.weight # 0
        OBVIOUS
      <4> HIDE DEF tests, shownCase, silentCase
      <4> QED BY <4>1, <4>2
    <3> HIDE DEF tests
    <3>3. [type |-> "coding", marks |-> 1, options |-> <<>>, tests |-> tests] \in Scorable
      BY <2>8, <3>1, <3>2
    <3> QED BY <2>6, <3>3 DEF tests
  <2> HIDE DEF Keyed, Ticked, shownCase, silentCase
  <2>14. e \in DraftRow BY <2>3, <2>9, <2>10, <2>12, <2>13
  <2> QED BY <2>2, <2>14
<1>5. drafts = <<>> => drafts \in Seq(DraftRow) OBVIOUS
<1> QED BY <1>2, <1>3, <1>4, <1>5 DEF BuilderInv

\* Whatever is written, switched, ticked, opened again and saved, in any number
\* of questions and with any number of saves under way: what the form holds has
\* a key its type can express, and what is stored can be marked and be sat
\* (admin-screens.tsx, CreateTestScreen; commands.py, create_exam, update_exam).
THEOREM StoredPapersAreSound == BuilderSpec => []StoredPaperSound
<1>1. BuilderInv /\ [BuilderNext]_builder => BuilderInv' BY NextBuilder
<1>2. BuilderInv => StoredPaperSound
  <2> SUFFICES ASSUME BuilderInv PROVE StoredPaperSound OBVIOUS
  <2>1. form.questions \in Seq(Written) /\ drafts \in Seq(DraftRow) BY DEF BuilderInv, FormRow
  <2>2. FormCoherent
    <3>1. \A i \in DOMAIN form.questions : form.questions[i] \in Written BY <2>1, LenProperties
    <3> QED BY <3>1 DEF FormCoherent, Written
  <2>3. \A k \in DOMAIN drafts : drafts[k] \in DraftRow BY <2>1, LenProperties
  <2>4. StoredPaperScorable
    <3>1. ASSUME NEW k \in DOMAIN drafts, NEW n \in DOMAIN drafts[k].questions
          PROVE  drafts[k].questions[n] \in Scorable
      <4>1. drafts[k].questions \in Seq(Scorable) BY <2>3 DEF DraftRow
      <4> QED BY <4>1, LenProperties
    <3> QED BY <3>1 DEF StoredPaperScorable, Scorable
  <2>5. RosterSits BY <2>3 DEF RosterSits, DraftRow, Rosters
  <2> QED BY <2>2, <2>4, <2>5 DEF StoredPaperSound
<1> QED BY <1>1, <1>2, InitBuilder, PTL DEF BuilderSpec

\* Any draft opens as a form that would be accepted and would send what is
\* stored, however it came to be stored (admin-screens.tsx, CreateTestScreen;
\* test-cases.ts, builderTestCase; http.ts, toQuestion).
THEOREM PapersRoundTrip == BuilderSpec => PaperRoundTrips
<1> DEFINE Kept == \A k \in DOMAIN drafts : OpenEdit(k) =>
                     \A n \in DOMAIN drafts[k].questions :
                       /\ ~QuestionProblem(form'.questions[n])
                       /\ Sent(examPayload(form'.questions[n])) = Sent(drafts[k].questions[n])
<1>1. BuilderInv /\ [BuilderNext]_builder => BuilderInv' BY NextBuilder
<1>2. BuilderInv => [Kept]_builder
  <2>1. ASSUME BuilderInv, NEW k \in DOMAIN drafts, OpenEdit(k), NEW n \in DOMAIN drafts[k].questions
        PROVE  /\ ~QuestionProblem(form'.questions[n])
               /\ Sent(examPayload(form'.questions[n])) = Sent(drafts[k].questions[n])
    BY <2>1, DraftReopened, Reopens
  <2> QED BY <2>1
<1> QED BY <1>1, <1>2, InitBuilder, PTL DEF BuilderSpec, PaperRoundTrips
==============================================================================

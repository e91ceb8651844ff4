----------------------------- MODULE ResultsView -----------------------------
(***************************************************************************)
(* The results screen: the marks of the completed examinations as the      *)
(* server lists them, the console's copy, the three readings of a row      *)
(* (ranked, still being marked, withheld), the publish control and the     *)
(* exported report.                                                        *)
(*                                                                         *)
(* src/frontend: components/admin-screens.tsx (ResultsScreen),             *)
(* lib/export.ts, lib/format.ts, lib/api/http.ts (toResults);              *)
(* src/backend/app/services: queries.py (get_results), commands.py         *)
(* (publish_results). A read is one step here; reads that cross are the    *)
(* subject of MonitorFeed.                                                 *)
(***************************************************************************)
EXTENDS Lists, SequencesExt

CONSTANTS
  Finals,       \* the examinations, in the order of the list: a sequence
  Names,        \* the candidates, named in alphabetical order: a set of numbers
  OutOf,        \* the marks that a paper is worth
  Scores,       \* the scores that papers get
  MaxMarkings   \* bound: changes of marks and of publication on the server

\* No examination is listed twice.
ASSUME ResultsAssumption == /\ OutOf \in Nat \ {0} /\ Scores \subseteq 0..OutOf
                            /\ Names \subseteq Nat /\ IsFiniteSet(Names) /\ MaxMarkings \in Nat
                            /\ Finals \in Seq(ToSet(Finals)) /\ IsInjective(Finals)

VARIABLES
  paper,      \* on the server: each candidate's result row in each examination
  final,      \* on the server: whether each examination is over and published
  page,       \* the console's copy: result rows and publication flags
  filter,     \* the assessment chosen on the screen
  publishing, \* the press of the publish control under way
  report,     \* the last exported report
  markings,
  released    \* history: the finished marks that were ever out

results == <<paper, final, page, filter, publishing, report, markings, released>>

Final == ToSet(Finals)
NoRow == [score |-> 0, pending |-> -1]
Sat(e) == {n \in Names : paper[e][n] # NoRow}
Withheld == -1
All == "all"
Idle == [exam |-> All, want |-> FALSE, stage |-> "idle"]

-----------------------------------------------------------------------------
(* The server.                                                             *)

\* Best mark first, then by name; scores are left out until they are published.
get_results(e) ==
  LET score(n) == paper[e][n].score
      rows == InOrder(Sat(e), {p \in Sat(e) \X Sat(e) :
                                 \/ score(p[1]) > score(p[2])
                                 \/ score(p[1]) = score(p[2]) /\ p[1] < p[2]})
  IN  [i \in DOMAIN rows |->
        [exam |-> e, name |-> rows[i], pending |-> paper[e][rows[i]].pending,
         score |-> IF final[e].published THEN paper[e][rows[i]].score ELSE Withheld]]

\* What the server would hand out as finished: history only.
Out(p, f) ==
  LET done == {x \in Final \X Names : f[x[1]].published /\ p[x[1]][x[2]].pending = 0}
  IN  {[exam |-> x[1], name |-> x[2], score |-> p[x[1]][x[2]].score] : x \in done}

ServerSteps == /\ markings < MaxMarkings /\ markings' = markings + 1
               /\ released' = released \cup Out(paper', final')
               /\ UNCHANGED <<page, filter, publishing, report>>

\* A paper comes in with some answers that a marker or the runner must read;
\* it gains marks as they are read, and may change when a key is corrected.
PaperGraded(e, n) ==
  /\ paper[e][n] = NoRow
  /\ \E s \in Scores, k \in 0..1 : paper' = [paper EXCEPT ![e][n] = [score |-> s, pending |-> k]]
  /\ UNCHANGED final /\ ServerSteps

PaperMarked(e, n) ==
  /\ paper[e][n] # NoRow
  /\ \E s \in Scores : paper' = [paper EXCEPT ![e][n] = [score |-> s, pending |-> 0]]
  /\ UNCHANGED final /\ ServerSteps

ExamOver(e) == /\ ~final[e].over /\ final' = [final EXCEPT ![e].over = TRUE]
               /\ UNCHANGED paper /\ ServerSteps

publish_results(e, want) == final' = [final EXCEPT ![e].published = want] /\ UNCHANGED paper

PublishedElsewhere(e) == \E want \in BOOLEAN : publish_results(e, want) /\ ServerSteps

-----------------------------------------------------------------------------
(* The console's copy.                                                     *)

toResults(e) == IF final[e].over THEN get_results(e) ELSE <<>>
ShownPublished(e) == final[e].over /\ final[e].published

WholePage == [rows |-> FlattenSeq([k \in DOMAIN Finals |-> toResults(Finals[k])]),
              published |-> [e \in Final |-> ShownPublished(e)]]

\* One examination read again: its rows move to the end of the copy.
PageSlice(e) ==
  [rows |-> Filter(page.rows, LAMBDA r : r.exam # e) \o toResults(e),
   published |-> [page.published EXCEPT ![e] = ShownPublished(e)]]

Reads(copy) == page' = copy /\ UNCHANGED <<paper, final, filter, report, markings, released>>
RefreshAll == Reads(WholePage) /\ UNCHANGED publishing
RefreshOne(e) == Reads(PageSlice(e)) /\ UNCHANGED publishing

-----------------------------------------------------------------------------
(* The screen.                                                             *)

\* Math.round of a share in percent: halves go up.
percentage(score) == (200 * score + OutOf) \div (2 * OutOf)

visible == Filter(page.rows, LAMBDA r : filter = All \/ r.exam = filter)

Ranking(scored) ==
  LET share(i) == percentage(scored[i].score)
      at    == DOMAIN scored
      order == InOrder(at, {p \in at \X at :
                              \/ share(p[1]) > share(p[2])
                              \/ share(p[1]) = share(p[2]) /\ p[1] < p[2]})
  IN  [k \in DOMAIN order |-> scored[order[k]]]

\* Variant: a running total is ranked with the rest.
ranked_running == Ranking(Filter(visible, LAMBDA r : r.score # Withheld))

\* Released and finished rows, by percentage; the sort is stable.
ranked == Ranking(Filter(visible, LAMBDA r : r.score # Withheld /\ r.pending = 0))

marking_rows == Filter(visible, LAMBDA r : r.score # Withheld /\ r.pending > 0)
withheld_rows == Filter(visible, LAMBDA r : r.score = Withheld)

highest == IF ranked = <<>> THEN 0 ELSE percentage(ranked[1].score)

Choose(f) == /\ filter # f /\ filter' = f
             /\ UNCHANGED <<paper, final, page, publishing, report, markings, released>>

\* The report takes the rows that are ranked.
exportResults == /\ ranked # <<>> /\ report' = ranked
                 /\ UNCHANGED <<paper, final, page, filter, publishing, markings, released>>

\* The press asks for the opposite of what the screen shows of that assessment.
togglePublication ==
  /\ filter # All /\ publishing = Idle /\ visible # <<>>
  /\ publishing' = [exam |-> filter, want |-> ~page.published[filter], stage |-> "posted"]
  /\ UNCHANGED <<paper, final, page, filter, report, markings, released>>

\* The server's answer is followed by a read of the examination.
PublishCommits ==
  /\ publishing.stage = "posted"
  /\ publish_results(publishing.exam, publishing.want)
  /\ released' = released \cup Out(paper', final')
  /\ publishing' = [publishing EXCEPT !.stage = "stored"]
  /\ UNCHANGED <<page, filter, report, markings>>

PublishLands == publishing.stage = "stored" /\ Reads(PageSlice(publishing.exam)) /\ publishing' = Idle

\* Refused or unreachable, the call or the read after it.
PublishFails == /\ publishing # Idle /\ publishing' = Idle
                /\ UNCHANGED <<paper, final, page, filter, report, markings, released>>

ResultsInit ==
  /\ paper = [e \in Final |-> [n \in Names |-> NoRow]]
  /\ final = [e \in Final |-> [over |-> FALSE, published |-> FALSE]]
  /\ page = WholePage
  /\ filter = All /\ publishing = Idle /\ report = <<>> /\ markings = 0 /\ released = {}

ResultsNext ==
  \/ \E e \in Final : \/ \E n \in Names : PaperGraded(e, n) \/ PaperMarked(e, n)
                      \/ ExamOver(e) \/ PublishedElsewhere(e) \/ RefreshOne(e)
  \/ RefreshAll \/ exportResults \/ togglePublication
  \/ PublishCommits \/ PublishLands \/ PublishFails
  \/ \E f \in Final \cup {All} : Choose(f)

ResultsSpec == ResultsInit /\ [][ResultsNext]_results

-----------------------------------------------------------------------------
(* Properties.                                                             *)

\* Ranks are fair although they are worked out from rounded percentages: in one
\* assessment a lower mark is never ranked ahead of a higher one, because the
\* rows arrive in the server's order and the sort keeps ties as they came; and
\* the "highest" tile is the highest of all (admin-screens.tsx:695-702, 720).
RankFollowsScore ==
  /\ filter # All => \A i, j \in DOMAIN ranked : i < j => ranked[i].score >= ranked[j].score
  /\ \A i \in DOMAIN ranked : percentage(ranked[i].score) <= highest

\* Nobody ends up in a register with a mark that was never theirs: everything
\* ranked on the screen or exported was, at some time, a finished mark that the
\* exam cell had released (export.ts:25-29, admin-screens.tsx:695-698).
OnlyReleasedMarks ==
  \A r \in ToSet(ranked) \cup ToSet(report) :
    [exam |-> r.exam, name |-> r.name, score |-> r.score] \in released

\* The badge and the control of the chosen assessment tell the truth about the
\* rows below them, however reads and presses alternate: "published" with no
\* paper marked withheld, "withheld" with no score shown (http.ts:578-589, 657).
BadgeMatchesRows ==
  filter # All => IF page.published[filter] THEN withheld_rows = <<>>
                  ELSE ranked = <<>> /\ marking_rows = <<>>

\* The results screen tells the truth however marking, closing, publishing and
\* reading alternate: only marks that were released, in an order that is theirs,
\* under a badge that fits.
ResultsHonest == OnlyReleasedMarks /\ RankFollowsScore /\ BadgeMatchesRows
==============================================================================

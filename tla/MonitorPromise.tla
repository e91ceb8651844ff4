--------------------------- MODULE MonitorPromise ---------------------------
(***************************************************************************)
(* What a monitor promises about an examination it watches: it shows only  *)
(* what the server committed, never a roster older than the status above   *)
(* it, and ends up with the last of it once the server is quiet.           *)
(***************************************************************************)
EXTENDS Naturals

VARIABLES
  actual,  \* the changes that made the examination's row, and its roster, what they are
  shown,   \* the same for what is on screen
  watching

vars == <<actual, shown, watching>>

NotTorn(p) == p.exam <= p.rows

Init ==
  /\ actual = [exam |-> 0, rows |-> 0] /\ shown = actual
  /\ watching \in BOOLEAN

Change ==
  /\ \E e \in {actual.exam, actual.rows + 1} :
       actual' = [exam |-> e, rows |-> actual.rows + 1]
  /\ UNCHANGED <<shown, watching>>

Show ==
  /\ \E e \in 0..actual.exam, r \in 0..actual.rows :
       shown' = [exam |-> e, rows |-> r] /\ NotTorn(shown')
  /\ UNCHANGED <<actual, watching>>

Watch == watching' = ~watching /\ UNCHANGED <<actual, shown>>

Next == Change \/ Show \/ Watch

Spec == Init /\ [][Next]_vars

\* A monitor that stays open ends up showing the examination as it is.
CatchesUp == <>[]watching => <>[](shown = actual)

=============================================================================

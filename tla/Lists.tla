-------------------------------- MODULE Lists --------------------------------
(***************************************************************************)
(* The two operations on arrays that the console is built from, sort and   *)
(* filter, in closed form: an element's index is the number of elements    *)
(* that do not come after it.  An order is the set of its pairs.           *)
(***************************************************************************)
EXTENDS Integers, Sequences, FiniteSets

\* The index of x when the elements of S are lined up.
Place(x, S, before) == Cardinality({y \in S : y = x \/ <<y, x>> \in before})

\* The elements of S, lined up.
InOrder(S, before) ==
  [k \in 1..Cardinality(S) |-> CHOOSE x \in S : Place(x, S, before) = k]

\* Positions come in the order of their numbers.
Upward(at) == {p \in at \X at : p[1] < p[2]}

\* The elements of s that pass the test, in the order they had.
Filter(s, Test(_)) ==
  LET at   == {i \in DOMAIN s : Test(s[i])}
      kept == InOrder(at, Upward(at))
  IN  [k \in DOMAIN kept |-> s[kept[k]]]
==============================================================================

---------------------------- MODULE BrowserProofs ----------------------------
(***************************************************************************)
(* The signed-in browser for every number of people, tokens and requests:  *)
(* one chain of tokens per sign-in, whichever renewals, sign-outs,         *)
(* password changes and reloads overlap; and, for a browser with one tab,  *)
(* which tokens it presents and whose records it shows.                    *)
(***************************************************************************)
EXTENDS BrowserSession, TLAPS

Renewal == [state : {"none", "sent", "locked", "answered", "refused", "settled"},
            token : 0..MaxTokens]

Live(n) == rows[n].status = "live"

\* The types that rotation depends on.
ChainTypes == /\ rows \in [Tokens -> Row] /\ issued \in 0..MaxTokens
              /\ renewal \in [Tabs -> Renewal] /\ storage.refresh \in 0..MaxTokens

\* Numbers are handed out in order, and a session has the number of its first.
Fresh == \A n \in Tokens : (n > issued => rows[n] = NoRow) /\ rows[n].sid <= issued

\* A renewal presents a token, and one that holds a row holds a live one that
\* nobody else holds.
Held ==
  /\ \A t \in Tabs : renewal[t].state \in {"sent", "locked"} => renewal[t].token \in Tokens
  /\ \A t \in Tabs : renewal[t].state = "locked" => Live(renewal[t].token)
  /\ \A t, u \in Tabs : renewal[t].state = "locked" /\ renewal[u].state = "locked"
                        /\ renewal[t].token = renewal[u].token => t = u

ChainInv == ChainTypes /\ Fresh /\ Held /\ ChainLinear

-----------------------------------------------------------------------------

\* Nothing has been handed out at the start.
LEMMA InitChain == Init => ChainInv
<1> SUFFICES ASSUME Init PROVE ChainInv OBVIOUS
<1>1. NoRow \in Row /\ NoRenewal \in Renewal BY TokenAssumption DEF NoRow, Row, NoRenewal, Renewal
<1>2. ChainTypes BY <1>1, TokenAssumption DEF Init, ChainTypes, SignedOut
<1>3. Fresh BY TokenAssumption DEF Init, Fresh, NoRow, Tokens
<1>4. Held BY DEF Init, Held, NoRenewal
<1>5. ChainLinear BY DEF Init, ChainLinear, NoRow
<1> QED BY <1>2, <1>3, <1>4, <1>5 DEF ChainInv

\* The tables stay as they are.
LEMMA TablesKept ==
  ASSUME ChainInv, UNCHANGED <<rows, issued, renewal>>, storage'.refresh \in 0..MaxTokens
  PROVE  ChainInv'
BY DEF ChainInv, ChainTypes, Fresh, Held, Live, ChainLinear

\* Tokens are revoked, other than those a renewal holds.
LEMMA Revocation ==
  ASSUME ChainInv, NEW ns, rows' = revoke(ns), UNCHANGED <<issued, renewal, storage>>
  PROVE  ChainInv'
<1>1. ASSUME NEW n \in Tokens
      PROVE  /\ rows'[n] \in Row /\ rows'[n].sid = rows[n].sid
             /\ rows[n] = NoRow => rows'[n] = NoRow
             /\ rows'[n].status = "live" => Live(n)
             /\ n \in Locked => rows'[n] = rows[n]
  <2>1. rows[n] \in Row BY DEF ChainInv, ChainTypes
  <2>2. rows'[n] = IF n \in ns \ Locked /\ rows[n].status = "live"
                   THEN [rows[n] EXCEPT !.status = "revoked"] ELSE rows[n]
    BY DEF revoke
  <2> QED BY <2>1, <2>2 DEF Row, NoRow, Live
<1>2. rows' = [n \in Tokens |-> rows'[n]] BY DEF revoke
<1>3. ChainTypes' BY <1>1, <1>2 DEF ChainInv, ChainTypes
<1>4. Fresh' BY <1>1 DEF ChainInv, Fresh
<1>5. \A t \in Tabs : renewal[t].state = "locked" => renewal[t].token \in Locked BY DEF Locked
<1>6. Held' BY <1>1, <1>5 DEF ChainInv, Held, Live
<1>7. ChainLinear' BY <1>1 DEF ChainInv, ChainLinear, Live
<1> QED BY <1>3, <1>4, <1>6, <1>7 DEF ChainInv

\* The renewal of one tab goes on.
LEMMA RenewalMoves ==
  ASSUME ChainInv, NEW t \in Tabs, NEW r \in Renewal, UNCHANGED <<rows, issued>>,
         renewal' = [renewal EXCEPT ![t] = r], storage'.refresh \in 0..MaxTokens,
         r.state = "sent" => r.token \in Tokens,
         r.state = "locked" => r.token \in Tokens \ Locked /\ Live(r.token)
  PROVE  ChainInv'
<1>1. renewal'[t] = r /\ \A u \in Tabs : u # t => renewal'[u] = renewal[u]
  BY DEF ChainInv, ChainTypes
<1>2. ChainTypes' BY DEF ChainInv, ChainTypes, Renewal
<1>3. Fresh' BY DEF ChainInv, Fresh
<1>4. \A u \in Tabs : renewal[u].state = "locked" => renewal[u].token \in Locked BY DEF Locked
<1>5. Held'
  <2>1. \A u \in Tabs : renewal'[u].state \in {"sent", "locked"} => renewal'[u].token \in Tokens
    BY <1>1 DEF ChainInv, Held
  <2>2. \A u \in Tabs : renewal'[u].state = "locked" => Live(renewal'[u].token)
    BY <1>1 DEF ChainInv, Held
  <2>3. \A u, v \in Tabs : renewal'[u].state = "locked" /\ renewal'[v].state = "locked"
                           /\ renewal'[u].token = renewal'[v].token => u = v
    BY <1>1, <1>4 DEF ChainInv, Held
  <2> QED BY <2>1, <2>2, <2>3 DEF Held, Live
<1>6. ChainLinear' BY DEF ChainInv, ChainLinear
<1> QED BY <1>2, <1>3, <1>5, <1>6 DEF ChainInv

\* A sign-in starts a session of its own.
LEMMA SignInStep ==
  ASSUME ChainInv, NEW t \in Tabs, NEW u \in Users, signIn(t, u)
  PROVE  ChainInv'
<1> DEFINE new == [user |-> u, sid |-> issued + 1, status |-> "live"]
<1>1. /\ issued < MaxTokens /\ rows' = [rows EXCEPT ![issued + 1] = new] /\ issued' = issued + 1
      /\ storage' = [access |-> issued + 1, refresh |-> issued + 1, user |-> u] /\ renewal' = renewal
  BY DEF signIn, tokens_for
<1>2. issued \in Nat /\ MaxTokens \in Nat /\ issued + 1 \in Tokens
  BY <1>1, TokenAssumption DEF ChainInv, ChainTypes, Tokens
<1>3. new \in Row /\ new.status = "live" /\ new.sid = issued + 1 BY <1>1, <1>2 DEF Row
<1> HIDE DEF new
<1>4. rows'[issued + 1] = new /\ \A n \in Tokens : n # issued + 1 => rows'[n] = rows[n]
  BY <1>1, <1>2 DEF ChainInv, ChainTypes
<1>5. ~Live(issued + 1) /\ \A n \in Tokens : rows[n].sid \in Nat /\ rows[n].sid <= issued
  BY <1>2, TokenAssumption DEF ChainInv, ChainTypes, Fresh, Live, NoRow, Row, Tokens
<1>6. ChainTypes' BY <1>1, <1>2, <1>3 DEF ChainInv, ChainTypes, Renewal, Tokens
<1>7. Fresh'
  <2> SUFFICES ASSUME NEW n \in Tokens
               PROVE  (n > issued + 1 => rows'[n] = NoRow) /\ rows'[n].sid <= issued + 1
    BY <1>1 DEF Fresh
  <2>1. n \in Nat BY TokenAssumption DEF Tokens
  <2>2. CASE n = issued + 1 BY <1>2, <1>3, <1>4, <2>2
  <2>3. CASE n # issued + 1 BY <1>2, <1>4, <1>5, <2>1, <2>3 DEF ChainInv, Fresh
  <2> QED BY <2>2, <2>3
<1>8. Held' BY <1>1, <1>4, <1>5 DEF ChainInv, Held, Live
<1>9. ChainLinear' BY <1>2, <1>3, <1>4, <1>5 DEF ChainInv, ChainLinear
<1> QED BY <1>6, <1>7, <1>8, <1>9 DEF ChainInv

\* A renewal commits: the token presented is consumed, and only it.
LEMMA RefreshCommitStep ==
  ASSUME ChainInv, NEW t \in Tabs, refresh_commit(t)
  PROVE  ChainInv'
<1> DEFINE old == renewal[t].token
           new == [user |-> rows[old].user, sid |-> rows[old].sid, status |-> "live"]
           after == [state |-> "answered", token |-> issued + 1]
<1>1. /\ renewal[t].state = "locked" /\ issued < MaxTokens /\ issued' = issued + 1
      /\ rows' = [[rows EXCEPT ![issued + 1] = new] EXCEPT ![old].status = "rotated"]
      /\ renewal' = [renewal EXCEPT ![t] = after] /\ storage' = storage
  BY DEF refresh_commit, tokens_for
<1>2. issued \in Nat /\ MaxTokens \in Nat /\ issued + 1 \in Tokens
  BY <1>1, TokenAssumption DEF ChainInv, ChainTypes, Tokens
<1>3. old \in Tokens /\ Live(old) BY <1>1 DEF ChainInv, Held
<1>4. ~Live(issued + 1) /\ \A n \in Tokens : rows[n].sid \in Nat /\ rows[n].sid <= issued
  BY <1>2, TokenAssumption DEF ChainInv, ChainTypes, Fresh, Live, NoRow, Row, Tokens
<1>5. old # issued + 1 BY <1>3, <1>4
<1>6. rows[old] \in Row BY <1>3 DEF ChainInv, ChainTypes
<1>7. new \in Row /\ new.status = "live" /\ new.sid = rows[old].sid BY <1>6 DEF Row
<1>8. after \in Renewal /\ after.state = "answered" BY <1>1, <1>2 DEF Renewal
<1>9. [rows[old] EXCEPT !.status = "rotated"] \in Row
      /\ [rows[old] EXCEPT !.status = "rotated"].status = "rotated"
      /\ [rows[old] EXCEPT !.status = "rotated"].sid = rows[old].sid
  BY <1>6 DEF Row
<1> HIDE DEF new, after, old
<1>10. /\ rows'[issued + 1] = new /\ rows'[old] = [rows[old] EXCEPT !.status = "rotated"]
       /\ \A n \in Tokens \ {old, issued + 1} : rows'[n] = rows[n]
       /\ rows' \in [Tokens -> Row]
  BY <1>1, <1>2, <1>3, <1>5, <1>6, <1>7, <1>9 DEF ChainInv, ChainTypes
<1>11. renewal'[t] = after /\ \A u \in Tabs : u # t => renewal'[u] = renewal[u]
  BY <1>1 DEF ChainInv, ChainTypes
<1>12. ChainTypes' BY <1>1, <1>2, <1>8, <1>10 DEF ChainInv, ChainTypes, Tokens
<1>13. Fresh'
  <2> SUFFICES ASSUME NEW n \in Tokens
               PROVE  (n > issued + 1 => rows'[n] = NoRow) /\ rows'[n].sid <= issued + 1
    BY <1>1 DEF Fresh
  <2>1. n \in Nat BY TokenAssumption DEF Tokens
  <2>2. CASE n = issued + 1 BY <1>2, <1>3, <1>4, <1>7, <1>10, <2>2
  <2>3. CASE n = old
    <3>1. ~(old > issued + 1)
      BY <1>2, <1>3, <2>1, <2>3 DEF ChainInv, Fresh, Live, NoRow
    <3>2. rows'[old].sid = rows[old].sid BY <1>9, <1>10
    <3>3. rows[old].sid \in Nat /\ rows[old].sid <= issued BY <1>3, <1>4
    <3>4. rows'[n].sid <= issued + 1 BY <1>2, <2>3, <3>2, <3>3
    <3> QED BY <2>3, <3>1, <3>4
  <2>4. CASE n # issued + 1 /\ n # old
    BY <1>2, <1>4, <1>10, <2>1, <2>4 DEF ChainInv, Fresh
  <2> QED BY <2>2, <2>3, <2>4
<1>14. Held'
  <2>1. ASSUME NEW u \in Tabs, renewal'[u].state = "locked"
        PROVE  /\ u # t /\ renewal'[u] = renewal[u] /\ renewal[u].token \in Tokens
               /\ rows'[renewal'[u].token].status = "live"
    <3>1. u # t /\ renewal'[u] = renewal[u] BY <1>8, <1>11, <2>1
    <3>2. renewal[u].token \in Tokens /\ Live(renewal[u].token) /\ renewal[u].token # old
      BY <1>1, <2>1, <3>1 DEF ChainInv, Held, old
    <3>3. renewal[u].token # issued + 1 BY <1>4, <3>2
    <3> QED BY <1>10, <3>1, <3>2, <3>3 DEF Live
  <2>2. \A u \in Tabs : renewal'[u].state \in {"sent", "locked"} => renewal'[u].token \in Tokens
    BY <1>8, <1>11 DEF ChainInv, Held
  <2>3. \A u, v \in Tabs : renewal'[u].state = "locked" /\ renewal'[v].state = "locked"
                           /\ renewal'[u].token = renewal'[v].token => u = v
    BY <2>1 DEF ChainInv, Held
  <2> QED BY <2>1, <2>2, <2>3 DEF Held, Live
<1>15. ChainLinear'
  <2> SUFFICES ASSUME NEW m \in Tokens, NEW n \in Tokens, rows'[m].status = "live",
                      rows'[n].status = "live", rows'[m].sid = rows'[n].sid
               PROVE  m = n
    BY DEF ChainLinear
  <2>1. m # old /\ n # old BY <1>9, <1>10
  <2>2. CASE m = issued + 1 /\ n # issued + 1
    BY <1>3, <1>7, <1>10, <2>1, <2>2 DEF ChainInv, ChainLinear, Live
  <2>3. CASE n = issued + 1 /\ m # issued + 1
    BY <1>3, <1>7, <1>10, <2>1, <2>3 DEF ChainInv, ChainLinear, Live
  <2>4. CASE m # issued + 1 /\ n # issued + 1
    BY <1>10, <2>1, <2>4 DEF ChainInv, ChainLinear
  <2> QED BY <2>2, <2>3, <2>4
<1> QED BY <1>12, <1>13, <1>14, <1>15 DEF ChainInv

-----------------------------------------------------------------------------
(* The steps of the page.                                                  *)

\* The renewal's own steps on the server and on the way.
LEMMA RenewingSteps ==
  ASSUME ChainInv, NEW t \in Tabs, refresh_lock(t) \/ refresh_fails(t)
  PROVE  ChainInv'
<1>1. renewal[t] \in Renewal /\ storage'.refresh \in 0..MaxTokens /\ UNCHANGED <<rows, issued>>
  BY DEF ChainInv, ChainTypes, refresh_lock, refresh_fails, server
<1>2. PICK x \in {"locked", "refused"} :
        /\ renewal' = [renewal EXCEPT ![t].state = x]
        /\ x = "locked" => /\ renewal[t].state = "sent" /\ renewal[t].token \notin Locked
                           /\ Live(renewal[t].token)
  BY DEF refresh_lock, refresh_fails, Live
<1> DEFINE r == [state |-> x, token |-> renewal[t].token]
<1>3. r \in Renewal /\ r.state = x /\ r.token = renewal[t].token BY <1>1 DEF Renewal
<1>4. renewal' = [renewal EXCEPT ![t] = r]
  <2>1. [renewal[t] EXCEPT !.state = x] = r BY <1>1 DEF Renewal
  <2>2. renewal' = [renewal EXCEPT ![t] = [renewal[t] EXCEPT !.state = x]] BY <1>2
  <2> QED BY <2>1, <2>2
<1> HIDE DEF r
<1>5. r.state = "locked" => r.token \in Tokens \ Locked /\ Live(r.token)
  BY <1>2, <1>3 DEF ChainInv, Held
<1>6. r.state # "sent" BY <1>3
<1> QED BY <1>1, <1>3, <1>4, <1>5, <1>6, RenewalMoves

\* A renewal settles, or goes with its page.
LEMMA SettledSteps ==
  ASSUME ChainInv, NEW t \in Tabs, RenewalLands(t) \/ reload(t)
  PROVE  ChainInv'
<1>1. NoRenewal \in Renewal /\ NoRenewal.state = "none"
  BY TokenAssumption DEF NoRenewal, Renewal
<1>2. renewal' = [renewal EXCEPT ![t] = NoRenewal] /\ UNCHANGED <<rows, issued>>
  BY DEF RenewalLands, reload, server
<1>3. storage' \in {storage, SignedOut,
                    [access |-> renewal[t].token, refresh |-> renewal[t].token,
                     user |-> rows[renewal[t].token].user]}
  BY DEF RenewalLands, reload, Refused
<1>4. renewal[t].token \in 0..MaxTokens BY DEF ChainInv, ChainTypes, Renewal
<1>5. storage'.refresh \in 0..MaxTokens
  BY <1>3, <1>4, TokenAssumption DEF SignedOut, ChainInv, ChainTypes
<1> QED BY <1>1, <1>2, <1>5, RenewalMoves

\* A 401 starts a renewal, joins one, or is final.
LEMMA UnauthorisedStep ==
  ASSUME ChainInv, NEW t \in Tabs, NEW k \in Slots, Unauthorised(t, k)
  PROVE  ChainInv'
<1>1. UNCHANGED <<rows, issued>> BY DEF Unauthorised, server
<1>2. storage' \in {storage, SignedOut} BY DEF Unauthorised, renewAccess, Refused
<1>3. storage'.refresh \in 0..MaxTokens
  BY <1>2, TokenAssumption DEF SignedOut, ChainInv, ChainTypes
<1>4. \/ renewal' = renewal
      \/ renewal' = [renewal EXCEPT ![t].state = "settled"]
      \/ /\ renewal' = [renewal EXCEPT ![t] = [state |-> "sent", token |-> storage.refresh]]
         /\ storage.refresh # 0
  BY DEF Unauthorised, renewAccess
<1>5. CASE renewal' = renewal BY <1>1, <1>3, <1>5, TablesKept
<1>6. CASE renewal' = [renewal EXCEPT ![t].state = "settled"]
  <2> DEFINE r == [state |-> "settled", token |-> renewal[t].token]
  <2>1. r \in Renewal /\ r.state = "settled" BY DEF ChainInv, ChainTypes, Renewal
  <2>2. renewal' = [renewal EXCEPT ![t] = r]
    <3>1. renewal[t] \in Renewal BY DEF ChainInv, ChainTypes
    <3>2. [renewal[t] EXCEPT !.state = "settled"] = r BY <3>1 DEF Renewal
    <3>3. renewal' = [renewal EXCEPT ![t] = [renewal[t] EXCEPT !.state = "settled"]] BY <1>6
    <3> QED BY <3>2, <3>3
  <2> HIDE DEF r
  <2> QED BY <1>1, <1>3, <2>1, <2>2, RenewalMoves
<1>7. CASE /\ renewal' = [renewal EXCEPT ![t] = [state |-> "sent", token |-> storage.refresh]]
           /\ storage.refresh # 0
  <2> DEFINE r == [state |-> "sent", token |-> storage.refresh]
  <2>1. r \in Renewal /\ r.state = "sent" /\ r.token \in Tokens
    BY <1>7, TokenAssumption DEF ChainInv, ChainTypes, Renewal, Tokens
  <2>2. renewal' = [renewal EXCEPT ![t] = r] BY <1>7
  <2> HIDE DEF r
  <2> QED BY <1>1, <1>3, <2>1, <2>2, RenewalMoves
<1> QED BY <1>4, <1>5, <1>6, <1>7

\* Sessions that end on the server.
LEMMA RevokingSteps ==
  ASSUME ChainInv,
         \/ \E n \in Tokens, arrives \in BOOLEAN : logout(n, arrives)
         \/ \E u \in Users : resetStudentPassword(u)
         \/ \E t \in Tabs, k \in Slots : Answered(t, k)
  PROVE  ChainInv'
<1>1. UNCHANGED <<issued, renewal, storage>> BY DEF logout, resetStudentPassword, Answered
<1>2. rows' = rows \/ \E ns : rows' = revoke(ns)
  BY Zenon DEF logout, resetStudentPassword, Answered, page
<1>3. CASE rows' = rows
  <2>1. storage'.refresh \in 0..MaxTokens BY <1>1 DEF ChainInv, ChainTypes
  <2> QED BY <1>1, <1>3, <2>1, TablesKept
<1>4. CASE \E ns : rows' = revoke(ns) BY <1>1, <1>4, Revocation
<1> QED BY <1>2, <1>3, <1>4

\* Everything else leaves the tables and the renewals alone.
LEMMA QuietSteps ==
  ASSUME ChainInv,
         \/ \E t \in Tabs : \/ loadStateFromServer(t) \/ retry(t) \/ refreshFromServer(t)
                            \/ refreshExam(t) \/ signOut(t) \/ openDialog(t) \/ closeDialog(t)
                            \/ \E right \in BOOLEAN : submitPassword(t, right)
                            \/ \E k \in Slots : Unreachable(t, k)
         \/ \E n \in Tokens : AccessAges(n)
         \/ UNCHANGED vars
  PROVE  ChainInv'
<1>1. UNCHANGED <<rows, issued, renewal>>
  BY Zenon DEF loadStateFromServer, retry, refreshFromServer, refreshExam, signOut, openDialog,
     closeDialog, submitPassword, Unreachable, AccessAges, vars, server
<1>2. storage' = storage \/ storage' = SignedOut
  BY Zenon DEF loadStateFromServer, retry, refreshFromServer, refreshExam, signOut, openDialog,
     closeDialog, forget, submitPassword, Unreachable, AccessAges, vars
<1>3. storage'.refresh \in 0..MaxTokens
  BY <1>2, TokenAssumption DEF SignedOut, ChainInv, ChainTypes
<1> QED BY <1>1, <1>3, TablesKept

\* Every step keeps the invariant.
LEMMA NextChain == ChainInv /\ [Next]_vars => ChainInv'
<1> SUFFICES ASSUME ChainInv, [Next]_vars PROVE ChainInv' OBVIOUS
<1>1. ASSUME NEW t \in Tabs, Progress(t) \/ Person(t) PROVE ChainInv'
  <2>1. CASE refresh_lock(t) \/ refresh_fails(t) BY <2>1, RenewingSteps
  <2>2. CASE refresh_commit(t) BY <2>2, RefreshCommitStep
  <2>3. CASE RenewalLands(t) \/ reload(t) BY <2>3, SettledSteps
  <2>4. CASE \E k \in Slots : Unauthorised(t, k) BY <2>4, UnauthorisedStep
  <2>5. CASE \E k \in Slots : Answered(t, k) BY <2>5, RevokingSteps
  <2>6. CASE \E u \in Users : signIn(t, u) BY <2>6, SignInStep
  <2>7. CASE \/ loadStateFromServer(t) \/ retry(t) \/ refreshFromServer(t)
             \/ refreshExam(t) \/ signOut(t) \/ openDialog(t) \/ closeDialog(t)
             \/ \E right \in BOOLEAN : submitPassword(t, right)
             \/ \E k \in Slots : Unreachable(t, k)
    BY <2>7, QuietSteps
  <2> QED BY <1>1, <2>1, <2>2, <2>3, <2>4, <2>5, <2>6, <2>7, Zenon
          DEF Progress, Person, Renewing, Settling
<1>2. CASE \E n \in Tokens : \E arrives \in BOOLEAN : logout(n, arrives) BY <1>2, RevokingSteps
<1>3. CASE \E u \in Users : resetStudentPassword(u) BY <1>3, RevokingSteps
<1>4. CASE (\E n \in Tokens : AccessAges(n)) \/ UNCHANGED vars BY <1>4, QuietSteps
<1> QED BY <1>1, <1>2, <1>3, <1>4, Zenon DEF Next

\* Two live refresh tokens are never of one sign-in, for every number of tabs
\* that renew at once, people and tokens (routes_directory.py, refresh).
THEOREM RotationIsLinear == Spec => []ChainLinear
<1>1. ChainInv => ChainLinear BY DEF ChainInv
<1> QED BY <1>1, InitChain, NextChain, PTL DEF Spec


-----------------------------------------------------------------------------
(* What the page holds.  The rest is about a browser with one tab: a second *)
(* tab signs out, or renews, behind the first one's back.                   *)

OneTab == \A t, u \in Tabs : t = u

LostChain(sid) == \E m \in lost : rows[m].sid = sid

\* A rotated token is presented, or kept, only with the answer on its way, or
\* after an answer of its chain was lost.
ChainHeld ==
  /\ lost \subseteq 1..issued
  /\ \A t \in Tabs :
       LET r == renewal[t]  n == storage.refresh
       IN  /\ n \in Tokens /\ rows[n].status = "rotated" =>
                \/ LostChain(rows[n].sid)
                \/ r.state = "answered" /\ rows[r.token].sid = rows[n].sid
           /\ r.state \in {"sent", "locked"} /\ rows[r.token].status = "rotated" =>
                LostChain(rows[r.token].sid)
           /\ r.state = "answered" => r.token \in 1..issued /\ rows[r.token].status # "rotated"

CallRow == [kind : {"none", "boot", "password", "full", "slice"}, stage : {"idle", "sent", "waiting"},
            token : 0..MaxTokens, retried : BOOLEAN, round : {1, 2}, right : BOOLEAN,
            seen : SUBSET (Users \cup {None})]

PageTypes ==
  /\ storage \in [access : 0..MaxTokens, refresh : 0..MaxTokens, user : Users \cup {None}]
  /\ call \in [Tabs -> [Slots -> CallRow]]
  /\ phase \in [Tabs -> {"mounted", "loading", "ready", "signed-out", "error"}]
  /\ store \in [Tabs -> SUBSET (Users \cup {None})]
  /\ clean \in [Tabs -> BOOLEAN] /\ untried \in [Tabs -> BOOLEAN]

\* The pair of tokens of whoever is signed in.
Mine(n) == storage.user \in Users /\ n \in Tokens /\ rows[n].user = storage.user

Credential ==
  \/ storage = SignedOut
  \/ storage.access = storage.refresh /\ Mine(storage.refresh)

Quiet(t) == renewal[t].state = "none" /\ \A k \in Slots : call[t][k] = NoCall

\* Every request, renewal and answer is of the person who is signed in.
CallsClean(t) ==
  /\ Credential
  /\ renewal[t].state # "settled"
  /\ renewal[t].state \in {"sent", "locked", "answered"} => Mine(renewal[t].token)
  /\ renewal[t].state = "none" <=> \A k \in Slots : call[t][k].stage # "waiting"
  /\ \A k \in Slots : LET c == call[t][k]
                      IN  /\ c.stage = "idle" => c = NoCall
                          /\ c.stage = "sent" => Mine(c.token)
                          /\ c.seen \subseteq {storage.user}

\* Nothing is under way at the gate, and a screen has a person.
GateClean(t) ==
  /\ phase[t] = "signed-out" => storage = SignedOut
  /\ phase[t] \in {"signed-out", "mounted", "error"} => Quiet(t)
  /\ phase[t] \in {"loading", "ready"} => storage # SignedOut
  /\ phase[t] = "loading" => \A k \in Slots \ {"own"} : call[t][k] = NoCall
  /\ phase[t] = "ready" => /\ store[t] \subseteq {storage.user}
                           /\ \A k \in Slots : call[t][k].kind # "boot"

CleanPage(t) == ~untried[t] /\ CallsClean(t) /\ GateClean(t)

PageInv == ChainInv /\ ChainHeld /\ PageTypes /\ \A t \in Tabs : clean[t] => CleanPage(t)

-----------------------------------------------------------------------------
(* Rotated tokens.                                                         *)

\* The rows keep their chains, and none is rotated.
LEMMA HeldKept ==
  ASSUME ChainInv, ChainHeld, UNCHANGED <<issued, renewal, lost>>,
         \A n \in Tokens : n <= issued => rows'[n].sid = rows[n].sid,
         \A n \in Tokens : rows'[n].status = "rotated" => rows[n].status = "rotated" /\ rows'[n].sid = rows[n].sid,
         storage'.refresh \in {storage.refresh, 0} \/ rows'[storage'.refresh].status # "rotated"
  PROVE  ChainHeld'
<1> DEFINE After(sid) == \E m \in lost' : rows'[m].sid = sid
<1>1. \A n \in 1..issued : n \in Tokens /\ n <= issued
  BY TokenAssumption DEF ChainInv, ChainTypes, Tokens
<1>2. lost \subseteq 1..issued /\ 0 \notin Tokens BY DEF ChainHeld, Tokens
<1>3. \A sid : LostChain(sid) => After(sid)
  BY <1>1, <1>2 DEF LostChain
<1>4. ASSUME NEW t \in Tabs
      PROVE  /\ storage'.refresh \in Tokens /\ rows'[storage'.refresh].status = "rotated" =>
                  \/ After(rows'[storage'.refresh].sid)
                  \/ renewal[t].state = "answered"
                     /\ rows'[renewal[t].token].sid = rows'[storage'.refresh].sid
             /\ renewal[t].state \in {"sent", "locked"} /\ rows'[renewal[t].token].status = "rotated" =>
                  After(rows'[renewal[t].token].sid)
             /\ renewal[t].state = "answered" =>
                  renewal[t].token \in 1..issued /\ rows'[renewal[t].token].status # "rotated"
  <2>1. renewal[t].state = "answered" =>
          /\ renewal[t].token \in 1..issued /\ renewal[t].token \in Tokens
          /\ rows'[renewal[t].token].status # "rotated"
          /\ rows'[renewal[t].token].sid = rows[renewal[t].token].sid
    BY <1>1 DEF ChainHeld
  <2>2. renewal[t].state \in {"sent", "locked"} => renewal[t].token \in Tokens
    BY DEF ChainInv, Held
  <2>3. renewal[t].state \in {"sent", "locked"} /\ rows'[renewal[t].token].status = "rotated" =>
          After(rows'[renewal[t].token].sid)
    BY <1>3, <2>2 DEF ChainHeld
  <2>4. storage'.refresh \in Tokens /\ rows'[storage'.refresh].status = "rotated" =>
          \/ After(rows'[storage'.refresh].sid)
          \/ renewal[t].state = "answered" /\ rows'[renewal[t].token].sid = rows'[storage'.refresh].sid
    BY <1>2, <1>3, <2>1 DEF ChainHeld
  <2> QED BY <2>1, <2>3, <2>4
<1> QED BY <1>2, <1>4 DEF ChainHeld, LostChain

\* A revocation rotates nothing.
LEMMA HeldRevoked ==
  ASSUME ChainInv, ChainHeld, NEW ns, rows' = revoke(ns), UNCHANGED <<issued, renewal, storage, lost>>
  PROVE  ChainHeld'
<1>1. ASSUME NEW n \in Tokens
      PROVE  rows'[n].sid = rows[n].sid /\ (rows'[n].status = "rotated" => rows[n].status = "rotated")
  <2>1. rows[n] \in Row BY DEF ChainInv, ChainTypes
  <2>2. rows'[n] = IF n \in ns \ Locked /\ rows[n].status = "live"
                   THEN [rows[n] EXCEPT !.status = "revoked"] ELSE rows[n]
    BY DEF revoke
  <2> QED BY <2>1, <2>2 DEF Row
<1> QED BY <1>1, HeldKept

\* A new row belongs to no chain that lost an answer.
LEMMA HeldSignIn ==
  ASSUME ChainInv, ChainHeld, NEW t \in Tabs, NEW u \in Users, signIn(t, u)
  PROVE  ChainHeld'
<1> DEFINE new == [user |-> u, sid |-> issued + 1, status |-> "live"]
           After(sid) == \E m \in lost' : rows'[m].sid = sid
<1>1. /\ issued < MaxTokens /\ rows' = [rows EXCEPT ![issued + 1] = new] /\ issued' = issued + 1
      /\ storage' = [access |-> issued + 1, refresh |-> issued + 1, user |-> u]
      /\ UNCHANGED <<renewal, lost>>
  BY DEF signIn, tokens_for
<1>2. issued \in Nat /\ MaxTokens \in Nat /\ issued + 1 \in Tokens
  BY <1>1, TokenAssumption DEF ChainInv, ChainTypes, Tokens
<1>3. new.status = "live" OBVIOUS
<1> HIDE DEF new
<1>4. rows'[issued + 1] = new /\ \A n \in Tokens : n # issued + 1 => rows'[n] = rows[n]
  BY <1>1, <1>2 DEF ChainInv, ChainTypes
<1>5. storage'.refresh = issued + 1 BY <1>1
<1>6. \A n \in 1..issued : n \in Tokens /\ rows'[n] = rows[n] /\ n \in 1..issued'
  BY <1>1, <1>2, <1>4 DEF Tokens
<1>7. lost' \subseteq 1..issued' /\ \A sid : LostChain(sid) => After(sid)
  BY <1>1, <1>6 DEF ChainHeld, LostChain
<1>8. ASSUME NEW v \in Tabs
      PROVE  /\ renewal[v].state \in {"sent", "locked"} /\ rows'[renewal[v].token].status = "rotated" =>
                  After(rows'[renewal[v].token].sid)
             /\ renewal[v].state = "answered" =>
                  renewal[v].token \in 1..issued' /\ rows'[renewal[v].token].status # "rotated"
  <2>1. renewal[v].state \in {"sent", "locked"} => renewal[v].token \in Tokens
    BY DEF ChainInv, Held
  <2> QED BY <1>3, <1>4, <1>6, <1>7, <2>1 DEF ChainHeld
<1>9. rows'[storage'.refresh].status # "rotated" BY <1>3, <1>4, <1>5
<1> QED BY <1>1, <1>7, <1>8, <1>9 DEF ChainHeld, LostChain

\* The rows stay, one tab's renewal becomes r, and the answer it throws away is
\* counted as lost.
LEMMA HeldMoves ==
  ASSUME ChainInv, ChainHeld, OneTab, NEW t \in Tabs, NEW r \in Renewal, UNCHANGED <<rows, issued>>,
         renewal' = [renewal EXCEPT ![t] = r],
         storage'.refresh \in {storage.refresh, 0, renewal[t].token},
         storage'.refresh = renewal[t].token => storage'.refresh = storage.refresh \/ renewal[t].state = "answered",
         storage'.refresh = storage.refresh /\ renewal[t].state = "answered" => renewal[t].token \in lost',
         lost' \in {lost, lost \cup {renewal[t].token}},
         lost' # lost => renewal[t].state = "answered",
         r.state # "answered",
         r.state \in {"sent", "locked"} => r.token \in Tokens,
         r.state \in {"sent", "locked"} =>
           \/ r.token = renewal[t].token /\ renewal[t].state = "sent"
           \/ r.token = storage.refresh /\ renewal[t].state = "none"
  PROVE  ChainHeld'
<1> DEFINE old == renewal[t]
           After(sid) == \E m \in lost' : rows'[m].sid = sid
<1>1. renewal'[t] = r /\ \A u \in Tabs : u = t
  BY DEF ChainInv, ChainTypes, OneTab
<1>2. /\ old.state = "answered" => old.token \in 1..issued /\ rows[old.token].status # "rotated"
      /\ lost \subseteq 1..issued
  BY DEF ChainHeld
<1>3. lost' \subseteq 1..issued' /\ \A sid : LostChain(sid) => After(sid)
  BY <1>2 DEF LostChain
<1>4. old.state = "answered" /\ old.token \in lost' => After(rows[old.token].sid)
  OBVIOUS
<1>5. 0 \notin Tokens BY DEF Tokens
<1>6. ASSUME storage'.refresh \in Tokens, rows[storage'.refresh].status = "rotated"
      PROVE  After(rows[storage'.refresh].sid)
  <2>1. storage'.refresh = storage.refresh BY <1>2, <1>5, <1>6
  <2>2. \/ LostChain(rows[storage.refresh].sid)
        \/ old.state = "answered" /\ rows[old.token].sid = rows[storage.refresh].sid
    BY <1>6, <2>1 DEF ChainHeld
  <2> QED BY <1>3, <1>4, <2>1, <2>2
<1>7. ASSUME r.state \in {"sent", "locked"}, rows[r.token].status = "rotated"
      PROVE  After(rows[r.token].sid)
  <2>1. LostChain(rows[r.token].sid) BY <1>7 DEF ChainHeld
  <2> QED BY <1>3, <2>1
<1> QED BY <1>1, <1>3, <1>6, <1>7 DEF ChainHeld, LostChain

\* A renewal commits: the token presented is rotated, and the new one waits to
\* be stored.
LEMMA HeldCommit ==
  ASSUME ChainInv, ChainHeld, OneTab, NEW t \in Tabs, refresh_commit(t)
  PROVE  ChainHeld'
<1> DEFINE old == renewal[t].token
           new == [user |-> rows[old].user, sid |-> rows[old].sid, status |-> "live"]
           after == [state |-> "answered", token |-> issued + 1]
           After(sid) == \E m \in lost' : rows'[m].sid = sid
<1>1. /\ renewal[t].state = "locked" /\ issued < MaxTokens /\ issued' = issued + 1
      /\ rows' = [[rows EXCEPT ![issued + 1] = new] EXCEPT ![old].status = "rotated"]
      /\ renewal' = [renewal EXCEPT ![t] = after] /\ UNCHANGED <<storage, lost>>
  BY DEF refresh_commit, tokens_for
<1>2. issued \in Nat /\ MaxTokens \in Nat /\ issued + 1 \in Tokens
  BY <1>1, TokenAssumption DEF ChainInv, ChainTypes, Tokens
<1>3. old \in Tokens /\ Live(old) BY <1>1 DEF ChainInv, Held
<1>4. ~Live(issued + 1)
  BY <1>2, TokenAssumption DEF ChainInv, ChainTypes, Fresh, Live, NoRow, Row, Tokens
<1>5. old # issued + 1 /\ rows[old] \in Row BY <1>3, <1>4 DEF ChainInv, ChainTypes
<1>6. new.status = "live" /\ new.sid = rows[old].sid /\ after.state = "answered" /\ after.token = issued + 1
  OBVIOUS
<1>7. [rows[old] EXCEPT !.status = "rotated"].sid = rows[old].sid BY <1>5 DEF Row
<1> HIDE DEF new, after, old
<1>8. /\ rows'[issued + 1] = new /\ rows'[old] = [rows[old] EXCEPT !.status = "rotated"]
      /\ \A n \in Tokens \ {old, issued + 1} : rows'[n] = rows[n]
  BY <1>1, <1>2, <1>3, <1>5 DEF ChainInv, ChainTypes
<1>9. renewal'[t] = after /\ \A u \in Tabs : u = t
  BY <1>1 DEF ChainInv, ChainTypes, OneTab
<1>10. \A n \in 1..issued : n \in Tokens /\ rows'[n].sid = rows[n].sid /\ n \in 1..issued'
  <2>1. \A n \in 1..issued : n \in Tokens /\ n # issued + 1 /\ n \in 1..issued'
    BY <1>1, <1>2 DEF Tokens
  <2> QED BY <1>7, <1>8, <2>1
<1>11. lost' \subseteq 1..issued' /\ \A sid : LostChain(sid) => After(sid)
  BY <1>1, <1>10 DEF ChainHeld, LostChain
<1>12. ASSUME storage.refresh \in Tokens, rows'[storage.refresh].status = "rotated"
       PROVE  \/ After(rows'[storage.refresh].sid)
              \/ rows'[after.token].sid = rows'[storage.refresh].sid
  <2>1. CASE storage.refresh = old BY <1>6, <1>7, <1>8, <2>1
  <2>2. CASE storage.refresh # old
    <3>1. storage.refresh # issued + 1 BY <1>6, <1>8, <1>12
    <3>2. rows'[storage.refresh] = rows[storage.refresh] BY <1>8, <1>12, <2>2, <3>1
    <3>3. LostChain(rows[storage.refresh].sid) BY <1>1, <1>12, <3>2 DEF ChainHeld
    <3> QED BY <1>11, <3>2, <3>3
  <2> QED BY <2>1, <2>2
<1>13. after.token \in 1..issued' /\ rows'[after.token].status # "rotated"
  <2>1. after.token \in 1..issued' BY <1>1, <1>2, <1>6
  <2>2. rows'[after.token] = new BY <1>6, <1>8
  <2> QED BY <1>6, <2>1, <2>2
<1>14. storage' = storage /\ after.state \notin {"sent", "locked"} BY <1>1, <1>6
<1>15. lost' \subseteq 1..issued' BY <1>11
<1> QED BY <1>6, <1>9, <1>12, <1>13, <1>14, <1>15 DEF ChainHeld, LostChain

\* A 401 presents what is stored, and only when no other answer is awaited.
LEMMA HeldUnauthorised ==
  ASSUME ChainInv, ChainHeld, OneTab, NEW t \in Tabs, NEW k \in Slots, Unauthorised(t, k)
  PROVE  ChainHeld'
<1>1. UNCHANGED <<rows, issued, lost>> BY DEF Unauthorised, server
<1>2. storage' \in {storage, SignedOut} /\ SignedOut.refresh = 0
  BY DEF Unauthorised, renewAccess, Refused, SignedOut
<1>3. /\ renewal[t] \in Renewal /\ storage.refresh \in 0..MaxTokens
      /\ renewal \in [Tabs -> Renewal]
  BY DEF ChainInv, ChainTypes
<1>4. \/ renewal' = renewal
      \/ renewal[t].state = "none" /\ renewal' = [renewal EXCEPT ![t].state = "settled"]
      \/ /\ renewal[t].state = "none" /\ storage.refresh # 0
         /\ renewal' = [renewal EXCEPT ![t] = [state |-> "sent", token |-> storage.refresh]]
  BY DEF Unauthorised, renewAccess
<1>5. CASE renewal' = renewal BY <1>1, <1>2, <1>5, HeldKept
<1>6. ASSUME renewal[t].state = "none",
             NEW r \in Renewal, renewal' = [renewal EXCEPT ![t] = r],
             \/ r.state = "settled"
             \/ r.state = "sent" /\ r.token = storage.refresh /\ storage.refresh # 0
      PROVE  ChainHeld'
  <2>1. renewal'[t] = r /\ \A u \in Tabs : u = t BY <1>3, <1>6 DEF OneTab
  <2>2. storage'.refresh \in Tokens => storage'.refresh = storage.refresh BY <1>2 DEF Tokens
  <2>3. storage.refresh \in Tokens /\ rows[storage.refresh].status = "rotated" =>
          LostChain(rows[storage.refresh].sid)
    BY <1>6 DEF ChainHeld
  <2>4. r.state # "answered" /\ (r.state \in {"sent", "locked"} => r.token = storage.refresh /\ r.token \in Tokens)
    BY <1>3, <1>6, TokenAssumption DEF Tokens
  <2>5. lost' \subseteq 1..issued' BY <1>1 DEF ChainHeld
  <2> QED BY <1>1, <2>1, <2>2, <2>3, <2>4, <2>5 DEF ChainHeld, LostChain
<1>7. CASE renewal[t].state = "none" /\ renewal' = [renewal EXCEPT ![t].state = "settled"]
  <2> DEFINE r == [renewal[t] EXCEPT !.state = "settled"]
  <2>1. r \in Renewal /\ r.state = "settled" BY <1>3 DEF Renewal
  <2>2. renewal' = [renewal EXCEPT ![t] = r] BY <1>7
  <2> HIDE DEF r
  <2> QED BY <1>6, <1>7, <2>1, <2>2
<1>8. CASE /\ renewal[t].state = "none" /\ storage.refresh # 0
           /\ renewal' = [renewal EXCEPT ![t] = [state |-> "sent", token |-> storage.refresh]]
  <2> DEFINE r == [state |-> "sent", token |-> storage.refresh]
  <2>1. r \in Renewal /\ r.state = "sent" /\ r.token = storage.refresh BY <1>3 DEF Renewal
  <2>2. renewal' = [renewal EXCEPT ![t] = r] BY <1>8
  <2> HIDE DEF r
  <2> QED BY <1>6, <1>8, <2>1, <2>2
<1> QED BY <1>4, <1>5, <1>7, <1>8

\* A renewal is locked, refused, lost or stored, or its page is gone.
LEMMA HeldRenewing ==
  ASSUME ChainInv, ChainHeld, OneTab, NEW t \in Tabs,
         refresh_lock(t) \/ refresh_fails(t) \/ RenewalLands(t) \/ reload(t)
  PROVE  ChainHeld'
<1>1. /\ renewal[t] \in Renewal /\ renewal \in [Tabs -> Renewal] /\ UNCHANGED <<rows, issued>>
      /\ renewal[t].state \in {"sent", "locked"} => renewal[t].token \in Tokens
  BY DEF ChainInv, ChainTypes, Held, refresh_lock, refresh_fails, RenewalLands, reload, server
<1>2. NoRenewal \in Renewal /\ NoRenewal.state = "none"
  BY TokenAssumption DEF NoRenewal, Renewal
<1>3. CASE refresh_lock(t)
  <2>1. /\ renewal[t].state = "sent" /\ UNCHANGED <<storage, lost>>
        /\ \E x \in {"locked", "refused"} : renewal' = [renewal EXCEPT ![t].state = x]
    BY <1>3 DEF refresh_lock
  <2>2. PICK x \in {"locked", "refused"} : renewal' = [renewal EXCEPT ![t].state = x] BY <2>1
  <2> DEFINE r == [renewal[t] EXCEPT !.state = x]
  <2>3. r \in Renewal /\ r.state = x /\ r.token = renewal[t].token BY <1>1 DEF Renewal
  <2>4. renewal' = [renewal EXCEPT ![t] = r] BY <2>2
  <2> HIDE DEF r
  <2> QED BY <1>1, <2>1, <2>3, <2>4, HeldMoves
<1>4. CASE refresh_fails(t)
  <2>1. /\ storage' = storage /\ renewal' = [renewal EXCEPT ![t].state = "refused"]
        /\ lost' = IF renewal[t].state = "answered" THEN lost \cup {renewal[t].token} ELSE lost
    BY <1>4 DEF refresh_fails
  <2> DEFINE r == [renewal[t] EXCEPT !.state = "refused"]
  <2>2. r \in Renewal /\ r.state = "refused" BY <1>1 DEF Renewal
  <2>3. renewal' = [renewal EXCEPT ![t] = r] BY <2>1
  <2> HIDE DEF r
  <2> QED BY <1>1, <2>1, <2>2, <2>3, HeldMoves
<1>5. CASE reload(t)
  <2>1. /\ storage' = storage /\ renewal' = [renewal EXCEPT ![t] = NoRenewal]
        /\ lost' = IF renewal[t].state = "answered" THEN lost \cup {renewal[t].token} ELSE lost
    BY <1>5 DEF reload
  <2> QED BY <1>1, <1>2, <2>1, HeldMoves
<1>6. CASE RenewalLands(t)
  <2>1. /\ renewal' = [renewal EXCEPT ![t] = NoRenewal] /\ lost' = lost
        /\ \/ /\ renewal[t].state = "answered"
              /\ storage' = [access |-> renewal[t].token, refresh |-> renewal[t].token,
                             user |-> rows[renewal[t].token].user]
           \/ renewal[t].state = "refused" /\ storage' \in {storage, SignedOut}
    BY <1>6 DEF RenewalLands, Refused
  <2>2. renewal'[t] = NoRenewal /\ \A u \in Tabs : u = t BY <1>1, <2>1 DEF OneTab
  <2>3. storage'.refresh \in Tokens /\ rows[storage'.refresh].status = "rotated" =>
          LostChain(rows[storage'.refresh].sid)
    <3>1. CASE renewal[t].state = "answered" /\ storage'.refresh = renewal[t].token
      BY <3>1 DEF ChainHeld
    <3>2. CASE renewal[t].state = "refused" /\ storage' = storage BY <3>2 DEF ChainHeld
    <3>3. CASE storage' = SignedOut BY <3>3 DEF SignedOut, Tokens
    <3> QED BY <2>1, <3>1, <3>2, <3>3
  <2>4. lost' \subseteq 1..issued' BY <1>1, <2>1 DEF ChainHeld
  <2> QED BY <1>1, <1>2, <2>1, <2>2, <2>3, <2>4 DEF ChainHeld, LostChain
<1> QED BY <1>3, <1>4, <1>5, <1>6

LEMMA NextHeld == OneTab /\ ChainInv /\ ChainHeld /\ [Next]_vars => ChainHeld'
<1> SUFFICES ASSUME OneTab, ChainInv, ChainHeld, [Next]_vars PROVE ChainHeld' OBVIOUS
<1>1. ASSUME \/ \E n \in Tokens, arrives \in BOOLEAN : logout(n, arrives)
             \/ \E u \in Users : resetStudentPassword(u)
             \/ \E t \in Tabs, k \in Slots : Answered(t, k)
      PROVE  ChainHeld'
  <2>1. UNCHANGED <<issued, renewal, storage, lost>> BY <1>1 DEF logout, resetStudentPassword, Answered
  <2>2. rows' = rows \/ \E ns : rows' = revoke(ns)
    BY <1>1, Zenon DEF logout, resetStudentPassword, Answered, page
  <2>3. CASE rows' = rows BY <2>1, <2>3, HeldKept
  <2> QED BY <2>1, <2>2, <2>3, HeldRevoked
<1>2. ASSUME \/ \E t \in Tabs : \/ loadStateFromServer(t) \/ retry(t) \/ refreshFromServer(t)
                                \/ refreshExam(t) \/ signOut(t) \/ openDialog(t) \/ closeDialog(t)
                                \/ \E right \in BOOLEAN : submitPassword(t, right)
                                \/ \E k \in Slots : Unreachable(t, k)
             \/ \E n \in Tokens : AccessAges(n)
             \/ UNCHANGED vars
      PROVE  ChainHeld'
  <2>1. UNCHANGED <<rows, issued, renewal, lost>>
    BY <1>2, Zenon DEF loadStateFromServer, retry, refreshFromServer, refreshExam, signOut, openDialog,
       closeDialog, submitPassword, Unreachable, AccessAges, vars, server
  <2>2. storage' = storage \/ storage' = SignedOut
    BY <1>2, Zenon DEF loadStateFromServer, retry, refreshFromServer, refreshExam, signOut, openDialog,
       closeDialog, forget, submitPassword, Unreachable, AccessAges, vars
  <2>3. storage'.refresh \in {storage.refresh, 0} BY <2>2 DEF SignedOut
  <2> QED BY <2>1, <2>3, HeldKept
<1>3. ASSUME NEW t \in Tabs, Progress(t) \/ Person(t) PROVE ChainHeld'
  <2>1. CASE refresh_lock(t) \/ refresh_fails(t) \/ RenewalLands(t) \/ reload(t)
    BY <2>1, HeldRenewing
  <2>2. CASE refresh_commit(t) BY <2>2, HeldCommit
  <2>3. CASE \E k \in Slots : Unauthorised(t, k) BY <2>3, HeldUnauthorised
  <2>4. CASE \E k \in Slots : Answered(t, k) BY <1>1, <2>4
  <2>5. CASE \E u \in Users : signIn(t, u) BY <2>5, HeldSignIn
  <2>6. CASE \/ loadStateFromServer(t) \/ retry(t) \/ refreshFromServer(t)
             \/ refreshExam(t) \/ signOut(t) \/ openDialog(t) \/ closeDialog(t)
             \/ \E right \in BOOLEAN : submitPassword(t, right)
             \/ \E k \in Slots : Unreachable(t, k)
    BY <1>2, <2>6
  <2> QED BY <1>3, <2>1, <2>2, <2>3, <2>4, <2>5, <2>6, Zenon
          DEF Progress, Person, Renewing, Settling
<1> QED BY <1>1, <1>2, <1>3, Zenon DEF Next

\* In a browser with one tab a token that was rotated is presented again only
\* when an answer of its chain was lost, whatever sign-outs, reloads, resets
\* and 401s come in between (http.ts, renewAccess).
THEOREM ReplayMeansLoss == OneTab => (Spec => []ReplayOnlyAfterLoss)
<1> SUFFICES ASSUME OneTab PROVE Spec => []ReplayOnlyAfterLoss OBVIOUS
<1>1. Init => ChainHeld
  BY TokenAssumption DEF Init, ChainHeld, SignedOut, NoRenewal, Tokens
<1>2. ChainHeld => ReplayOnlyAfterLoss
  BY DEF ChainHeld, ReplayOnlyAfterLoss, LostChain
<1> QED BY <1>1, <1>2, InitChain, NextChain, NextHeld, PTL DEF Spec

-----------------------------------------------------------------------------
(* The page of a browser with one tab.                                     *)

LEMMA CallTypes ==
  /\ NoCall \in CallRow
  /\ SignedOut \in [access : 0..MaxTokens, refresh : 0..MaxTokens, user : Users \cup {None}]
  /\ \A cs \in [Slots -> CallRow] : \A ks : Without(cs, ks) \in [Slots -> CallRow]
<1>1. NoCall \in CallRow BY TokenAssumption DEF NoCall, CallRow
<1>2. SignedOut \in [access : 0..MaxTokens, refresh : 0..MaxTokens, user : Users \cup {None}]
  BY TokenAssumption DEF SignedOut
<1> QED BY <1>1, <1>2 DEF Without

\* A person's token was handed out, so later rows leave it alone.
LEMMA MineIssued ==
  ASSUME ChainInv, NEW n, Mine(n)
  PROVE  n \in Tokens /\ n <= issued
<1>1. n \in Tokens /\ rows[n].user # None BY TokenAssumption DEF Mine
<1>2. n \in Nat /\ issued \in Nat BY <1>1, TokenAssumption DEF Tokens, ChainInv, ChainTypes
<1>3. ~(n > issued) BY <1>1 DEF ChainInv, Fresh, NoRow
<1> QED BY <1>1, <1>2, <1>3

\* Nothing on the page moves, and the renewal goes on as it may.
LEMMA ServerClean ==
  ASSUME PageInv, NEW t \in Tabs, clean[t], UNCHANGED <<storage, call, page, untried>>,
         \A n \in Tokens : n <= issued => rows'[n].user = rows[n].user,
         \/ renewal'[t] = renewal[t]
         \/ /\ renewal[t].state # "none" /\ renewal'[t].state \notin {"none", "settled"}
            /\ renewal'[t].state # "refused" => renewal'[t].token = renewal[t].token
            /\ renewal'[t].state # "refused" => renewal[t].state \in {"sent", "locked", "answered"}
         \/ /\ renewal[t].state = "locked" /\ renewal'[t].state = "answered"
            /\ renewal'[t].token \in Tokens
            /\ rows'[renewal'[t].token].user = rows[renewal[t].token].user
  PROVE  CleanPage(t)'
<1>1. \A n : Mine(n) => n \in Tokens /\ rows'[n].user = rows[n].user
  BY MineIssued DEF PageInv
<1>2. CleanPage(t) BY DEF PageInv
<1>3. Credential' BY <1>1, <1>2 DEF CleanPage, CallsClean, Credential, Mine
<1>4. renewal'[t].state \in {"sent", "locked", "answered"} => Mine(renewal[t].token)'
  BY <1>1, <1>2 DEF CleanPage, CallsClean, Mine
<1>5. renewal'[t].state # "settled" /\ (renewal'[t].state = "none" <=> renewal[t].state = "none")
  BY <1>2 DEF CleanPage, CallsClean
<1>6. \A k \in Slots : LET c == call[t][k]
                       IN  /\ c.stage = "idle" => c = NoCall
                           /\ c.stage = "sent" => c.token \in Tokens /\ rows'[c.token].user = storage.user
                                                  /\ storage.user \in Users
                           /\ c.seen \subseteq {storage.user}
  BY <1>1, <1>2 DEF CleanPage, CallsClean, Mine
<1>7. CallsClean(t)'
  BY <1>2, <1>3, <1>4, <1>5, <1>6 DEF CleanPage, CallsClean, Mine
<1> QED BY <1>2, <1>5, <1>7 DEF CleanPage, GateClean, Quiet, page

\* Requests of the tab are answered or begin, with the person's token.
LEMMA CallsStep ==
  ASSUME PageInv, NEW t \in Tabs, clean[t], UNCHANGED <<storage, renewal>>,
         \A n \in Tokens : n <= issued => rows'[n].user = rows[n].user,
         \A k \in Slots :
            \/ call'[t][k] = call[t][k]
            \/ call'[t][k] = NoCall /\ call[t][k].stage # "waiting"
            \/ /\ call[t][k].stage # "waiting" /\ call'[t][k].stage = "sent"
               /\ storage # SignedOut /\ call'[t][k].token = storage.access
               /\ call'[t][k].seen \subseteq {storage.user}
  PROVE  CallsClean(t)'
<1>1. \A n : Mine(n) => n \in Tokens /\ rows'[n].user = rows[n].user
  BY MineIssued DEF PageInv
<1>2. CallsClean(t) BY DEF PageInv, CleanPage
<1>3. Credential' BY <1>1, <1>2 DEF CallsClean, Credential, Mine
<1>4. renewal'[t].state \in {"sent", "locked", "answered"} => Mine(renewal[t].token)'
  BY <1>1, <1>2 DEF CallsClean, Mine
<1>5. storage # SignedOut => Mine(storage.access) BY <1>2 DEF CallsClean, Credential
<1>6. NoCall.stage = "idle" /\ NoCall.seen = {} BY DEF NoCall
<1>7. ASSUME NEW k \in Slots
      PROVE  /\ call'[t][k].stage = "idle" => call'[t][k] = NoCall
             /\ call'[t][k].stage = "sent" => /\ call'[t][k].token \in Tokens /\ storage.user \in Users
                                              /\ rows'[call'[t][k].token].user = storage.user
             /\ call'[t][k].seen \subseteq {storage.user}
             /\ call'[t][k].stage = "waiting" <=> call[t][k].stage = "waiting"
  <2>1. CASE call'[t][k] = call[t][k] BY <1>1, <1>2, <2>1 DEF CallsClean, Mine
  <2>2. CASE call'[t][k] = NoCall /\ call[t][k].stage # "waiting" BY <1>6, <2>2
  <2>3. CASE /\ call[t][k].stage # "waiting" /\ call'[t][k].stage = "sent"
             /\ storage # SignedOut /\ call'[t][k].token = storage.access
             /\ call'[t][k].seen \subseteq {storage.user}
    BY <1>1, <1>5, <2>3 DEF Mine
  <2> QED BY <2>1, <2>2, <2>3
<1> QED BY <1>2, <1>3, <1>4, <1>7 DEF CallsClean, Mine

\* What a request of the person begins with.
LEMMA BeginCall ==
  ASSUME PageTypes, NEW t \in Tabs, NEW kind \in {"boot", "password", "full", "slice"},
         NEW right \in BOOLEAN, Begin(t, kind, right)
  PROVE  \E k \in Slots, c \in CallRow :
           /\ call[t][k] = NoCall /\ call' = [call EXCEPT ![t] = [call[t] EXCEPT ![k] = c]]
           /\ c.kind = kind /\ c.stage = "sent" /\ c.token = storage.access /\ c.seen = {}
           /\ kind = "boot" => k = "own"
<1>1. PICK k \in Slots :
        /\ call[t][k] = NoCall
        /\ kind = "boot" => k = "own"
        /\ call' = [call EXCEPT ![t][k] = Sent([NoCall EXCEPT !.kind = kind, !.right = right], TRUE)]
  BY DEF Begin, Slots
<1> DEFINE c == Sent([NoCall EXCEPT !.kind = kind, !.right = right], TRUE)
<1>2. /\ c.kind = kind /\ c.stage = "sent" /\ c.token = storage.access /\ c.seen = {} /\ c.retried = FALSE
      /\ c.round = 1 /\ c.right = right /\ c \in CallRow
  BY DEF Sent, NoCall, CallRow, PageTypes
<1>3. call' = [call EXCEPT ![t][k] = c] BY <1>1
<1> HIDE DEF c
<1>4. call' = [call EXCEPT ![t] = [call[t] EXCEPT ![k] = c]] BY <1>3 DEF PageTypes
<1> QED BY <1>1, <1>2, <1>4

\* A request begins on a screen: by itself, or from the dialog.
LEMMA BeginOnScreen ==
  ASSUME PageInv, OneTab, NEW t \in Tabs,
         refreshFromServer(t) \/ refreshExam(t) \/ \E right \in BOOLEAN : submitPassword(t, right)
  PROVE  PageTypes' /\ (clean'[t] => CleanPage(t)')
<1>1. /\ phase[t] = "ready" /\ UNCHANGED <<rows, storage, renewal, phase, store, clean, untried>>
  BY DEF refreshFromServer, refreshExam, submitPassword, page, server
<1>2. \E kind \in {"full", "slice", "password"}, right \in BOOLEAN : Begin(t, kind, right)
  BY DEF refreshFromServer, refreshExam, submitPassword
<1>3. PICK k \in Slots, c \in CallRow :
        /\ call[t][k] = NoCall /\ call' = [call EXCEPT ![t] = [call[t] EXCEPT ![k] = c]]
        /\ c.kind # "boot" /\ c.stage = "sent" /\ c.token = storage.access /\ c.seen = {}
  BY <1>2, BeginCall DEF PageInv
<1>4. /\ call \in [Tabs -> [Slots -> CallRow]] /\ call'[t][k] = c
      /\ \A j \in Slots : j # k => call'[t][j] = call[t][j]
  BY <1>3 DEF PageInv, PageTypes
<1>5. PageTypes' BY <1>1, <1>3 DEF PageInv, PageTypes
<1>6. ASSUME clean[t] PROVE CleanPage(t)'
  <2>1. GateClean(t) /\ ~untried[t] /\ storage # SignedOut BY <1>1, <1>6 DEF PageInv, CleanPage, GateClean
  <2>2. NoCall.stage = "idle" BY DEF NoCall
  <2>3. CallsClean(t)' BY <1>1, <1>3, <1>4, <1>6, <2>1, <2>2, CallsStep
  <2>4. GateClean(t)' BY <1>1, <1>3, <1>4, <2>1 DEF GateClean
  <2> QED BY <1>1, <2>1, <2>3, <2>4 DEF CleanPage
<1> QED BY <1>1, <1>5, <1>6

\* The provider begins its load, or shows the gate to who holds no token.
LEMMA BootStep ==
  ASSUME PageInv, OneTab, NEW t \in Tabs, loadStateFromServer(t)
  PROVE  PageTypes' /\ (clean'[t] => CleanPage(t)')
<1>1. phase[t] = "mounted" /\ UNCHANGED <<rows, renewal, store, clean, untried>>
  BY DEF loadStateFromServer, server
<1>2. NoCall.stage = "idle" BY DEF NoCall
<1>3. CASE storage.access = 0
  <2>1. storage' = SignedOut /\ phase' = [phase EXCEPT ![t] = "signed-out"] /\ call' = call
    BY <1>3 DEF loadStateFromServer
  <2>2. PageTypes' BY <1>1, <2>1, TokenAssumption DEF PageInv, PageTypes, SignedOut
  <2>3. ASSUME clean[t] PROVE storage = SignedOut
    BY <1>3, <2>3 DEF PageInv, CleanPage, CallsClean, Credential, Mine, Tokens
  <2>4. ASSUME clean[t] PROVE CleanPage(t)'
    <3>1. CleanPage(t) /\ storage' = storage BY <2>1, <2>3, <2>4 DEF PageInv
    <3>2. CallsClean(t)' BY <1>1, <2>1, <3>1 DEF CleanPage, CallsClean, Credential, Mine
    <3>3. phase'[t] = "signed-out" BY <2>1 DEF PageInv, PageTypes
    <3>4. GateClean(t)' BY <1>1, <2>1, <3>1, <3>3 DEF CleanPage, GateClean, Quiet
    <3> QED BY <1>1, <3>1, <3>2, <3>4 DEF CleanPage
  <2> QED BY <1>1, <2>2, <2>4
<1>4. CASE storage.access # 0
  <2>1. Begin(t, "boot", FALSE) /\ phase' = [phase EXCEPT ![t] = "loading"] /\ storage' = storage
    BY <1>4 DEF loadStateFromServer
  <2>2. PICK k \in Slots, c \in CallRow :
          /\ call[t][k] = NoCall /\ call' = [call EXCEPT ![t] = [call[t] EXCEPT ![k] = c]]
          /\ c.stage = "sent" /\ c.token = storage.access /\ c.seen = {} /\ k = "own"
    <3>1. PICK right \in BOOLEAN : Begin(t, "boot", right) BY <2>1
    <3> QED BY <3>1, BeginCall DEF PageInv
  <2>3. /\ call \in [Tabs -> [Slots -> CallRow]] /\ call'[t][k] = c
        /\ \A j \in Slots : j # k => call'[t][j] = call[t][j]
    BY <2>2 DEF PageInv, PageTypes
  <2>4. PageTypes' BY <1>1, <2>1, <2>2 DEF PageInv, PageTypes
  <2>5. ASSUME clean[t] PROVE CleanPage(t)'
    <3>1. CleanPage(t) /\ Quiet(t) /\ storage # SignedOut
      BY <1>1, <1>4, <2>5 DEF PageInv, CleanPage, GateClean, SignedOut
    <3>2. CallsClean(t)' BY <1>1, <1>2, <2>1, <2>2, <2>3, <2>5, <3>1, CallsStep
    <3>3. phase'[t] = "loading" BY <2>1 DEF PageInv, PageTypes
    <3>4. GateClean(t)' BY <2>1, <2>2, <2>3, <3>1, <3>3 DEF GateClean, Quiet
    <3> QED BY <1>1, <3>1, <3>2, <3>4 DEF CleanPage
  <2> QED BY <1>1, <2>4, <2>5
<1> QED BY <1>3, <1>4

\* Somebody signs in, at a gate where nothing is under way.
LEMMA SignInClean ==
  ASSUME PageInv, OneTab, NEW t \in Tabs, NEW u \in Users, signIn(t, u)
  PROVE  PageTypes' /\ (clean'[t] => CleanPage(t)')
<1> DEFINE new == [user |-> u, sid |-> issued + 1, status |-> "live"]
<1>1. /\ phase[t] = "signed-out" /\ issued < MaxTokens /\ rows' = [rows EXCEPT ![issued + 1] = new]
      /\ storage' = [access |-> issued + 1, refresh |-> issued + 1, user |-> u]
      /\ phase' = [phase EXCEPT ![t] = "mounted"]
      /\ UNCHANGED <<renewal, call, store, clean, untried>>
  BY DEF signIn, tokens_for
<1>2. issued \in Nat /\ MaxTokens \in Nat /\ issued + 1 \in Tokens /\ issued + 1 \in 0..MaxTokens
  BY <1>1, TokenAssumption DEF PageInv, ChainInv, ChainTypes, Tokens
<1>3. new.user = u OBVIOUS
<1> HIDE DEF new
<1>4. rows'[issued + 1] = new BY <1>1, <1>2 DEF PageInv, ChainInv, ChainTypes
<1>5. /\ storage'.access = issued + 1 /\ storage'.refresh = issued + 1 /\ storage'.user = u
      /\ storage' \in [access : 0..MaxTokens, refresh : 0..MaxTokens, user : Users \cup {None}]
  BY <1>1, <1>2
<1>6. PageTypes' BY <1>1, <1>5 DEF PageInv, PageTypes
<1>7. ASSUME clean[t] PROVE CleanPage(t)'
  <2>1. CleanPage(t) /\ Quiet(t) BY <1>1, <1>7 DEF PageInv, CleanPage, GateClean
  <2>2. NoCall.stage = "idle" /\ NoCall.seen = {} BY DEF NoCall
  <2>3. Credential' BY <1>2, <1>3, <1>4, <1>5 DEF Credential, Mine
  <2>4. CallsClean(t)' BY <1>1, <2>1, <2>2, <2>3 DEF CallsClean, Quiet
  <2>5. phase'[t] = "mounted" BY <1>1 DEF PageInv, PageTypes
  <2>6. GateClean(t)' BY <1>1, <2>1, <2>5 DEF GateClean, Quiet
  <2> QED BY <1>1, <2>1, <2>4, <2>6 DEF CleanPage
<1> QED BY <1>1, <1>6, <1>7

\* Somebody leaves, reloads, tries again or opens the dialog.
LEMMA PersonClean ==
  ASSUME PageInv, OneTab, NEW t \in Tabs,
         signOut(t) \/ closeDialog(t) \/ reload(t) \/ retry(t) \/ openDialog(t)
  PROVE  PageTypes' /\ (clean'[t] => CleanPage(t)')
<1>1. UNCHANGED <<rows, untried>>
  BY DEF signOut, closeDialog, reload, retry, openDialog, server
<1>2. NoCall.stage = "idle" /\ NoCall.seen = {} BY DEF NoCall
<1>3. ASSUME UNCHANGED <<storage, renewal, call, phase, store, clean>>
      PROVE  PageTypes' /\ (clean'[t] => CleanPage(t)')
  BY <1>1, <1>3 DEF PageInv, PageTypes, CleanPage, CallsClean, Credential, Mine, GateClean, Quiet
<1>4. ASSUME forget(t), UNCHANGED <<renewal, call>> PROVE PageTypes' /\ (clean'[t] => CleanPage(t)')
  <2>1. /\ storage' = SignedOut /\ store' = [store EXCEPT ![t] = {}]
        /\ phase' = [phase EXCEPT ![t] = "signed-out"]
        /\ clean' = [clean EXCEPT ![t] = clean[t] /\ Quiet(t)]
    BY <1>4, Zenon DEF forget, Quiet
  <2>2. clean'[t] <=> clean[t] /\ Quiet(t)
    <3>1. clean \in [Tabs -> BOOLEAN] BY DEF PageInv, PageTypes
    <3>2. clean'[t] = (clean[t] /\ Quiet(t)) BY <2>1, <3>1, Zenon
    <3> QED BY <3>2, Zenon
  <2>3. PageTypes'
    <3>1. (clean[t] /\ Quiet(t)) \in BOOLEAN BY DEF PageInv, PageTypes, Quiet
    <3>2. clean' \in [Tabs -> BOOLEAN] BY <2>1, <3>1, Zenon DEF PageInv, PageTypes
    <3> QED BY <1>1, <1>4, <2>1, <3>2, TokenAssumption DEF PageInv, PageTypes, SignedOut
  <2>4. ASSUME clean'[t] PROVE CleanPage(t)'
    <3>1. CleanPage(t) /\ Quiet(t) BY <2>2, <2>4 DEF PageInv
    <3>2. CallsClean(t)'
      <4>1. Credential' BY <2>1 DEF Credential, SignedOut
      <4>2. \A k \in Slots : call'[t][k] = NoCall BY <1>4, <3>1 DEF Quiet
      <4>3. renewal'[t].state = "none" BY <1>4, <3>1 DEF Quiet
      <4> QED BY <1>2, <4>1, <4>2, <4>3 DEF CallsClean
    <3>3. phase'[t] = "signed-out" BY <2>1 DEF PageInv, PageTypes
    <3>4. GateClean(t)' BY <1>4, <2>1, <3>1, <3>3 DEF GateClean, Quiet
    <3> QED BY <1>1, <3>1, <3>2, <3>4 DEF CleanPage
  <2> QED BY <2>3, <2>4
<1>5. CASE signOut(t) BY <1>4, <1>5 DEF signOut
<1>6. CASE closeDialog(t) BY <1>3, <1>4, <1>6 DEF closeDialog
<1>7. CASE openDialog(t) BY <1>3, <1>7 DEF openDialog
<1>8. CASE retry(t)
  <2>1. /\ phase[t] = "error" /\ phase' = [phase EXCEPT ![t] = "mounted"]
        /\ UNCHANGED <<storage, renewal, call, store, clean>>
    BY <1>8 DEF retry
  <2>2. PageTypes' BY <1>1, <2>1 DEF PageInv, PageTypes
  <2>3. phase'[t] = "mounted" BY <2>1 DEF PageInv, PageTypes
  <2>4. ASSUME clean[t] PROVE CleanPage(t)'
    <3>1. CleanPage(t) BY <2>4 DEF PageInv
    <3>2. CallsClean(t)' BY <1>1, <2>1, <3>1 DEF CleanPage, CallsClean, Credential, Mine
    <3>3. GateClean(t)' BY <2>1, <2>3, <3>1 DEF CleanPage, GateClean, Quiet
    <3> QED BY <1>1, <3>1, <3>2, <3>3 DEF CleanPage
  <2> QED BY <2>1, <2>2, <2>4
<1>9. CASE reload(t)
  <2>1. /\ renewal' = [renewal EXCEPT ![t] = NoRenewal]
        /\ call' = [call EXCEPT ![t] = [k \in Slots |-> NoCall]]
        /\ phase' = [phase EXCEPT ![t] = "mounted"] /\ store' = [store EXCEPT ![t] = {}]
        /\ UNCHANGED <<storage, clean>>
    BY <1>9 DEF reload
  <2>2. PageTypes' BY <1>1, <2>1, CallTypes DEF PageInv, PageTypes
  <2>3. /\ phase'[t] = "mounted" /\ renewal'[t].state = "none"
        /\ \A k \in Slots : call'[t][k] = NoCall
    BY <2>1 DEF PageInv, PageTypes, ChainInv, ChainTypes, NoRenewal
  <2>4. ASSUME clean[t] PROVE CleanPage(t)'
    <3>1. CleanPage(t) BY <2>4 DEF PageInv
    <3>2. CallsClean(t)' BY <1>1, <1>2, <2>1, <2>3, <3>1 DEF CleanPage, CallsClean, Credential, Mine
    <3>3. GateClean(t)' BY <2>3 DEF GateClean, Quiet
    <3> QED BY <1>1, <3>1, <3>2, <3>3 DEF CleanPage
  <2> QED BY <2>1, <2>2, <2>4
<1> QED BY <1>5, <1>6, <1>7, <1>8, <1>9

\* A 401: the renewal of the person's own token begins or is shared, or the
\* request ends, and with the provider's load the sign-in.
LEMMA UnauthorisedClean ==
  ASSUME PageInv, OneTab, NEW t \in Tabs, NEW k \in Slots, Unauthorised(t, k)
  PROVE  PageTypes' /\ (clean'[t] => CleanPage(t)')
<1>1. call[t][k].stage = "sent" /\ UNCHANGED <<rows, clean>> BY DEF Unauthorised, server
<1>2. /\ call \in [Tabs -> [Slots -> CallRow]] /\ renewal \in [Tabs -> Renewal]
      /\ renewal[t] \in Renewal /\ call[t][k] \in CallRow
  BY DEF PageInv, PageTypes, ChainInv, ChainTypes
<1>3. NoCall.stage = "idle" /\ NoCall.seen = {} /\ NoCall.kind = "none" BY DEF NoCall
<1> DEFINE ended == [call EXCEPT ![t] = Without(call[t], {k})]
           boot == call[t][k].kind = "boot"
<1>4. ASSUME call' = ended
      PROVE  /\ call' \in [Tabs -> [Slots -> CallRow]] /\ call'[t][k] = NoCall
             /\ \A j \in Slots : j # k => call'[t][j] = call[t][j]
  <2>1. Without(call[t], {k}) \in [Slots -> CallRow] BY <1>2, CallTypes
  <2> QED BY <1>2, <1>4, <2>1 DEF Without
<1>5. CASE \* the request is final
           /\ call' = ended /\ Refused(t, {k}) /\ UNCHANGED untried
           /\ UNCHANGED renewal
  <2>1. /\ phase' = IF boot THEN [phase EXCEPT ![t] = "signed-out"] ELSE phase
        /\ storage' = IF boot THEN SignedOut ELSE storage
        /\ store' = store
    BY <1>5 DEF Refused
  <2>2. PageTypes'
    <3>1. storage' \in [access : 0..MaxTokens, refresh : 0..MaxTokens, user : Users \cup {None}]
      BY <2>1, CallTypes DEF PageInv, PageTypes
    <3>2. phase' \in [Tabs -> {"mounted", "loading", "ready", "signed-out", "error"}]
      BY <2>1 DEF PageInv, PageTypes
    <3> QED BY <1>1, <1>4, <1>5, <2>1, <3>1, <3>2 DEF PageInv, PageTypes
  <2>3. ASSUME clean[t], ~boot PROVE CleanPage(t)'
    <3>1. CleanPage(t) BY <2>3 DEF PageInv
    <3>2. CallsClean(t)' BY <1>1, <1>4, <1>5, <2>1, <2>3, CallsStep
    <3>3. GateClean(t)' BY <1>3, <1>4, <1>5, <2>1, <2>3, <3>1 DEF CleanPage, GateClean, Quiet
    <3> QED BY <1>5, <3>1, <3>2, <3>3 DEF CleanPage
  <2>4. ASSUME clean[t], boot PROVE CleanPage(t)'
    <3>1. CleanPage(t) BY <2>4 DEF PageInv
    <3>2. phase[t] = "loading"
      BY <1>1, <1>3, <2>4, <3>1 DEF CleanPage, GateClean, Quiet, PageInv, PageTypes
    <3>3. \A j \in Slots : call'[t][j] = NoCall
      BY <1>1, <1>3, <1>4, <1>5, <3>1, <3>2 DEF CleanPage, GateClean
    <3>4. k = "own" BY <1>1, <1>3, <3>1, <3>2 DEF CleanPage, GateClean
    <3>5. \A j \in Slots : call[t][j].stage # "waiting"
      BY <1>1, <1>3, <3>1, <3>2, <3>4 DEF CleanPage, GateClean
    <3>6. renewal'[t].state = "none" BY <1>5, <3>1, <3>5 DEF CleanPage, CallsClean
    <3>7. storage' = SignedOut /\ phase'[t] = "signed-out" BY <2>1, <2>4 DEF PageInv, PageTypes
    <3>8. Credential' BY <3>7 DEF Credential, SignedOut
    <3>9. CallsClean(t)' BY <1>3, <3>3, <3>6, <3>8 DEF CallsClean
    <3>10. GateClean(t)' BY <3>3, <3>6, <3>7 DEF GateClean, Quiet
    <3> QED BY <1>5, <3>1, <3>9, <3>10 DEF CleanPage
  <2> QED BY <1>1, <2>2, <2>3, <2>4
<1>6. CASE ~call[t][k].retried /\ renewAccess(t, k)
  <2> DEFINE none == renewal[t].state = "none" /\ storage.refresh = 0
             waits == [call EXCEPT ![t][k].stage = "waiting"]
  <2>1. CASE renewal[t].state = "settled" \/ none
    <3>1. /\ call' = ended /\ Refused(t, {k})
          /\ renewal' = IF none THEN [renewal EXCEPT ![t].state = "settled"] ELSE renewal
          /\ untried' = [untried EXCEPT ![t] = @ \/ storage.refresh # 0]
      BY <1>6, <2>1, Zenon DEF renewAccess
    <3>2. PageTypes'
      <4>1. untried' \in [Tabs -> BOOLEAN] BY <3>1, Zenon DEF PageInv, PageTypes
      <4>2. store' = store /\ storage' \in {storage, SignedOut}
            /\ (phase' = phase \/ phase' = [phase EXCEPT ![t] = "signed-out"])
        BY <3>1 DEF Refused
      <4>3. storage' \in [access : 0..MaxTokens, refresh : 0..MaxTokens, user : Users \cup {None}]
        BY <4>2, CallTypes DEF PageInv, PageTypes
      <4>4. phase' \in [Tabs -> {"mounted", "loading", "ready", "signed-out", "error"}]
        BY <4>2 DEF PageInv, PageTypes
      <4> QED BY <1>1, <1>4, <3>1, <4>1, <4>2, <4>3, <4>4 DEF PageInv, PageTypes
    <3>3. ASSUME clean[t] PROVE FALSE
      <4>1. CleanPage(t) BY <3>3 DEF PageInv
      <4>2. phase[t] \in {"loading", "ready"}
        BY <1>1, <1>3, <4>1 DEF CleanPage, GateClean, Quiet, PageInv, PageTypes
      <4>3. storage.refresh # 0
        BY <4>1, <4>2 DEF CleanPage, GateClean, CallsClean, Credential, Mine, Tokens
      <4> QED BY <2>1, <4>1, <4>3 DEF CleanPage, CallsClean
    <3> QED BY <1>1, <3>2, <3>3
  <2>2. CASE ~(renewal[t].state = "settled" \/ none)
    <3>1. /\ call' = waits /\ UNCHANGED <<storage, page, untried>>
          /\ renewal' = IF renewal[t].state = "none"
                        THEN [renewal EXCEPT ![t] = [state |-> "sent", token |-> storage.refresh]]
                        ELSE renewal
      BY <1>6, <2>2, Zenon DEF renewAccess
    <3> DEFINE c == [call[t][k] EXCEPT !.stage = "waiting"]
    <3>2. c \in CallRow /\ c.stage = "waiting" /\ c.seen = call[t][k].seen /\ c.kind = call[t][k].kind
      BY <1>2 DEF CallRow
    <3>3. call' = [call EXCEPT ![t] = [call[t] EXCEPT ![k] = c]] BY <1>2, <3>1
    <3> HIDE DEF c
    <3>4. /\ call' \in [Tabs -> [Slots -> CallRow]] /\ call'[t][k] = c
          /\ \A j \in Slots : j # k => call'[t][j] = call[t][j]
      BY <1>2, <3>2, <3>3
    <3>5. UNCHANGED <<phase, store>> BY <3>1 DEF page
    <3>6. PageTypes' BY <1>1, <3>1, <3>4, <3>5 DEF PageInv, PageTypes
    <3>7. ASSUME clean[t] PROVE CleanPage(t)'
      <4>1. CleanPage(t) BY <3>7 DEF PageInv
      <4>2. phase[t] \in {"loading", "ready"}
        BY <1>1, <1>3, <4>1 DEF CleanPage, GateClean, Quiet, PageInv, PageTypes
      <4>3. Mine(storage.refresh)
        BY <4>1, <4>2 DEF CleanPage, GateClean, CallsClean, Credential
      <4>4. \/ renewal'[t] = renewal[t] /\ renewal[t].state # "none"
            \/ renewal'[t].state = "sent" /\ renewal'[t].token = storage.refresh
        BY <1>2, <3>1
      <4>5. /\ renewal'[t].state \notin {"settled", "none"}
            /\ renewal'[t].state \in {"sent", "locked", "answered"} => Mine(renewal[t].token)'
        BY <1>1, <3>1, <4>1, <4>3, <4>4 DEF CleanPage, CallsClean, Mine
      <4>6. CallsClean(t)'
        BY <1>1, <3>1, <3>2, <3>4, <4>1, <4>5 DEF CleanPage, CallsClean, Credential, Mine
      <4>7. k = "own" \/ phase[t] = "ready"
        BY <1>1, <1>3, <4>1, <4>2 DEF CleanPage, GateClean
      <4>8. GateClean(t)' BY <3>1, <3>2, <3>4, <3>5, <4>1, <4>2, <4>7 DEF CleanPage, GateClean
      <4> QED BY <3>1, <4>1, <4>6, <4>8 DEF CleanPage
    <3> QED BY <1>1, <3>6, <3>7
  <2> QED BY <2>1, <2>2
<1> QED BY <1>5, <1>6, Zenon DEF Unauthorised

\* The promise settles: the waiting requests are sent again with the person's
\* new token, or end.
LEMMA LandsClean ==
  ASSUME PageInv, OneTab, NEW t \in Tabs, RenewalLands(t)
  PROVE  PageTypes' /\ (clean'[t] => CleanPage(t)')
<1> DEFINE n == renewal[t].token
<1>1. renewal' = [renewal EXCEPT ![t] = NoRenewal] /\ UNCHANGED <<rows, clean, untried>>
  BY DEF RenewalLands, server
<1>2. /\ call \in [Tabs -> [Slots -> CallRow]] /\ call[t] \in [Slots -> CallRow]
      /\ renewal \in [Tabs -> Renewal] /\ n \in 0..MaxTokens /\ rows \in [Tokens -> Row]
  BY DEF PageInv, PageTypes, ChainInv, ChainTypes, Renewal
<1>3. NoCall.stage = "idle" /\ NoCall.seen = {} /\ NoCall.kind = "none" /\ NoRenewal.state = "none"
  BY DEF NoCall, NoRenewal
<1>4. renewal'[t].state = "none" BY <1>1, <1>2, <1>3
<1>5. CASE /\ renewal[t].state = "answered"
           /\ storage' = [access |-> n, refresh |-> n, user |-> rows[n].user]
           /\ call' = [call EXCEPT ![t] = [k \in Slots |->
                         IF k \in Waiting(t)
                         THEN [call[t][k] EXCEPT !.stage = "sent", !.token = n, !.retried = TRUE]
                         ELSE call[t][k]]]
           /\ UNCHANGED page
  <2> DEFINE again(k) == [call[t][k] EXCEPT !.stage = "sent", !.token = n, !.retried = TRUE]
  <2>1. ASSUME NEW k \in Slots
        PROVE  /\ again(k) \in CallRow /\ again(k).stage = "sent" /\ again(k).token = n
               /\ again(k).seen = call[t][k].seen /\ again(k).kind = call[t][k].kind
    <3>1. call[t][k] \in CallRow BY <1>2
    <3>2. n \in 0..MaxTokens BY <1>2
    <3> HIDE DEF n
    <3> QED BY <3>1, <3>2 DEF CallRow
  <2>2. call' = [call EXCEPT ![t] = [k \in Slots |-> IF k \in Waiting(t) THEN again(k) ELSE call[t][k]]]
    BY <1>5
  <2> HIDE DEF again
  <2>3. /\ call' \in [Tabs -> [Slots -> CallRow]]
        /\ \A k \in Slots : call'[t][k] = IF k \in Waiting(t) THEN again(k) ELSE call[t][k]
    BY <1>2, <2>1, <2>2
  <2>4. n \in Tokens
    <3>1. n \in 1..issued BY <1>5 DEF PageInv, ChainHeld
    <3>2. issued \in 0..MaxTokens BY DEF PageInv, ChainInv, ChainTypes
    <3> HIDE DEF n
    <3> QED BY <3>1, <3>2, TokenAssumption DEF Tokens
  <2>5. storage'.access = n /\ storage'.refresh = n /\ storage'.user = rows[n].user BY <1>5
  <2>6. PageTypes'
    <3>1. rows[n].user \in Users \cup {None} BY <1>2, <2>4 DEF Row
    <3>2. storage' \in [access : 0..MaxTokens, refresh : 0..MaxTokens, user : Users \cup {None}]
      BY <1>2, <1>5, <3>1
    <3> QED BY <1>1, <1>5, <2>3, <3>2 DEF PageInv, PageTypes, page
  <2>7. ASSUME clean[t] PROVE CleanPage(t)'
    <3>1. CleanPage(t) /\ Mine(n) BY <1>5, <2>7 DEF PageInv, CleanPage, CallsClean
    <3>2. storage'.user = storage.user /\ storage.user \in Users /\ n \in Tokens
      BY <2>5, <3>1 DEF Mine
    <3>3. Credential' BY <1>1, <2>5, <3>2 DEF Credential, Mine
    <3>4. ASSUME NEW k \in Slots
          PROVE  /\ call'[t][k].stage = "idle" => call'[t][k] = NoCall
                 /\ call'[t][k].stage = "sent" => /\ call'[t][k].token \in Tokens
                                                  /\ rows'[call'[t][k].token].user = storage'.user
                 /\ call'[t][k].seen \subseteq {storage'.user}
                 /\ call'[t][k].stage # "waiting"
      <4>1. CASE k \in Waiting(t)
        BY <1>1, <2>1, <2>3, <2>5, <3>1, <3>2, <4>1 DEF CleanPage, CallsClean
      <4>2. CASE k \notin Waiting(t)
        BY <1>1, <2>3, <3>1, <3>2, <4>2 DEF CleanPage, CallsClean, Mine, Waiting
      <4> QED BY <4>1, <4>2
    <3>5. CallsClean(t)' BY <1>4, <3>2, <3>3, <3>4 DEF CallsClean, Mine
    <3>6. phase[t] \in {"loading", "ready"}
      BY <1>5, <3>1 DEF CleanPage, GateClean, Quiet, PageInv, PageTypes
    <3>7. storage' # SignedOut
      BY <2>5, <3>2, TokenAssumption DEF SignedOut
    <3>8. \A k \in Slots : /\ call'[t][k].kind = call[t][k].kind
                           /\ call[t][k] = NoCall => call'[t][k] = NoCall
      BY <1>3, <2>1, <2>3 DEF Waiting
    <3>9. GateClean(t)' BY <1>5, <3>1, <3>2, <3>6, <3>7, <3>8 DEF CleanPage, GateClean, page, SignedOut
    <3> QED BY <1>1, <3>1, <3>5, <3>9 DEF CleanPage
  <2> QED BY <1>1, <2>6, <2>7
<1>6. CASE /\ renewal[t].state = "refused"
           /\ call' = [call EXCEPT ![t] = Without(call[t], Waiting(t))]
           /\ Refused(t, Waiting(t))
  <2> DEFINE boot == \E k \in Waiting(t) : call[t][k].kind = "boot"
  <2>1. /\ phase' = IF boot THEN [phase EXCEPT ![t] = "signed-out"] ELSE phase
        /\ storage' = IF boot THEN SignedOut ELSE storage
        /\ store' = store
    BY <1>6 DEF Refused
  <2>2. /\ call' \in [Tabs -> [Slots -> CallRow]]
        /\ \A k \in Slots : call'[t][k] = IF k \in Waiting(t) THEN NoCall ELSE call[t][k]
    <3>1. Without(call[t], Waiting(t)) \in [Slots -> CallRow] BY <1>2, CallTypes
    <3> QED BY <1>2, <1>6, <3>1 DEF Without
  <2>3. PageTypes'
    <3>1. storage' \in [access : 0..MaxTokens, refresh : 0..MaxTokens, user : Users \cup {None}]
      BY <2>1, CallTypes DEF PageInv, PageTypes
    <3>2. phase' \in [Tabs -> {"mounted", "loading", "ready", "signed-out", "error"}]
      BY <2>1 DEF PageInv, PageTypes
    <3> QED BY <1>1, <2>1, <2>2, <3>1, <3>2 DEF PageInv, PageTypes
  <2>4. ASSUME clean[t] PROVE CleanPage(t)'
    <3>1. CleanPage(t) BY <2>4 DEF PageInv
    <3>2. \A k \in Slots : /\ call'[t][k].stage # "waiting"
                           /\ call'[t][k] = NoCall \/ call'[t][k] = call[t][k]
      BY <1>3, <2>2 DEF Waiting
    <3>3. CASE ~boot
      <4>1. CallsClean(t)'
        <5>1. Credential' BY <1>1, <2>1, <3>1, <3>3 DEF CleanPage, CallsClean, Credential, Mine
        <5>2. storage' = storage BY <2>1, <3>3
        <5> QED BY <1>1, <1>3, <1>4, <3>1, <3>2, <5>1, <5>2 DEF CleanPage, CallsClean, Mine
      <4>2. GateClean(t)'
        BY <1>3, <1>4, <2>1, <3>1, <3>2, <3>3 DEF CleanPage, GateClean, Quiet
      <4> QED BY <1>1, <3>1, <4>1, <4>2 DEF CleanPage
    <3>4. CASE boot
      <4>1. phase[t] = "loading"
        BY <1>3, <1>6, <3>1, <3>4 DEF CleanPage, GateClean, Quiet, PageInv, PageTypes, Waiting
      <4>2. PICK k \in Waiting(t) : call[t][k].kind = "boot" BY <3>4
      <4>3. k = "own" /\ k \in Slots BY <1>3, <3>1, <4>1, <4>2 DEF CleanPage, GateClean, Waiting
      <4>4. \A j \in Slots : call'[t][j] = NoCall
        BY <2>2, <3>1, <4>1, <4>2, <4>3 DEF CleanPage, GateClean
      <4>5. storage' = SignedOut /\ phase'[t] = "signed-out" BY <2>1, <3>4 DEF PageInv, PageTypes
      <4>6. Credential' BY <4>5 DEF Credential, SignedOut
      <4>7. CallsClean(t)' BY <1>3, <1>4, <4>4, <4>6 DEF CallsClean
      <4>8. GateClean(t)' BY <1>4, <4>4, <4>5 DEF GateClean, Quiet, SignedOut
      <4> QED BY <1>1, <3>1, <4>7, <4>8 DEF CleanPage
    <3> QED BY <3>3, <3>4
  <2> QED BY <1>1, <2>3, <2>4
<1> QED BY <1>5, <1>6, Zenon DEF RenewalLands

\* A request fails, or is answered.
LEMMA SettledClean ==
  ASSUME PageInv, OneTab, NEW t \in Tabs, NEW k \in Slots, Unreachable(t, k) \/ Answered(t, k)
  PROVE  PageTypes' /\ (clean'[t] => CleanPage(t)')
<1> DEFINE c == call[t][k]
<1>1. c.stage = "sent" /\ UNCHANGED <<storage, renewal, issued, clean, untried>>
  BY DEF Unreachable, Answered, server
<1>2. /\ call \in [Tabs -> [Slots -> CallRow]] /\ c \in CallRow /\ store \in [Tabs -> SUBSET (Users \cup {None})]
      /\ phase \in [Tabs -> {"mounted", "loading", "ready", "signed-out", "error"}]
      /\ rows \in [Tokens -> Row]
  BY DEF PageInv, PageTypes, ChainInv, ChainTypes
<1>3. NoCall.stage = "idle" /\ NoCall.seen = {} /\ NoCall.kind = "none" BY DEF NoCall
<1>4. \A m \in Tokens : rows'[m].user = rows[m].user
  <2>1. rows' = rows \/ \E ns : rows' = revoke(ns) BY Zenon DEF Unreachable, Answered, server, page
  <2> QED BY <1>2, <2>1 DEF revoke, Row
<1>5. ASSUME NEW new \in CallRow, call' = [call EXCEPT ![t][k] = new]
      PROVE  /\ call' \in [Tabs -> [Slots -> CallRow]] /\ call'[t][k] = new
             /\ \A j \in Slots : j # k => call'[t][j] = call[t][j]
  BY <1>2, <1>5
<1>6. ASSUME clean[t]
      PROVE  /\ CleanPage(t) /\ phase[t] \in {"loading", "ready"} /\ Mine(c.token)
             /\ c.seen \subseteq {storage.user} /\ (phase[t] = "loading" => k = "own")
             /\ (c.kind = "boot" => phase[t] = "loading")
  <2>1. CleanPage(t) BY <1>6 DEF PageInv
  <2>2. c # NoCall BY <1>1, <1>3
  <2>3. phase[t] \in {"loading", "ready"} BY <1>2, <2>1, <2>2 DEF CleanPage, GateClean, Quiet
  <2> QED BY <1>1, <2>1, <2>2, <2>3 DEF CleanPage, CallsClean, GateClean
<1>7. CASE Unreachable(t, k)
  <2>1. /\ call' = [call EXCEPT ![t][k] = NoCall] /\ UNCHANGED <<rows, store>>
        /\ phase' = IF c.kind = "boot" THEN [phase EXCEPT ![t] = "error"] ELSE phase
    BY <1>7 DEF Unreachable, server
  <2>2. /\ call' \in [Tabs -> [Slots -> CallRow]] /\ call'[t][k] = NoCall
        /\ \A j \in Slots : j # k => call'[t][j] = call[t][j]
    BY <1>5, <2>1, CallTypes
  <2>3. PageTypes'
    <3>1. phase' \in [Tabs -> {"mounted", "loading", "ready", "signed-out", "error"}] BY <1>2, <2>1
    <3> QED BY <1>1, <2>1, <2>2, <3>1 DEF PageInv, PageTypes
  <2>4. ASSUME clean[t] PROVE CleanPage(t)'
    <3>1. CallsClean(t)' BY <1>1, <1>4, <2>2, <2>4, CallsStep
    <3>2. GateClean(t)'
      <4>1. CASE c.kind # "boot"
        <5>1. phase' = phase BY <2>1, <4>1
        <5> QED BY <1>1, <1>3, <1>6, <2>1, <2>2, <2>4, <5>1 DEF CleanPage, GateClean, Quiet
      <4>2. CASE c.kind = "boot"
        <5>1. phase'[t] = "error" BY <1>2, <2>1, <4>2
        <5>2. k = "own" /\ phase[t] = "loading" BY <1>6, <2>4, <4>2
        <5>3. \A j \in Slots : call'[t][j] = NoCall
          BY <1>6, <2>2, <2>4, <5>2 DEF CleanPage, GateClean
        <5>4. renewal'[t].state = "none" BY <1>3, <3>1, <5>3 DEF CallsClean
        <5> QED BY <5>1, <5>3, <5>4 DEF GateClean, Quiet
      <4> QED BY <4>1, <4>2
    <3> QED BY <1>1, <1>6, <2>4, <3>1, <3>2 DEF CleanPage
  <2> QED BY <1>1, <2>3, <2>4
<1>8. CASE Answered(t, k)
  <2> DEFINE seen == c.seen \cup {rows[c.token].user}
             next == Sent([c EXCEPT !.round = @ + 1, !.seen = seen], TRUE)
  <2>0. c.token \in Tokens
    BY <1>2, <1>8, TokenAssumption DEF Answered, Accepted, CallRow, Tokens
  <2>1. seen \in SUBSET (Users \cup {None})
    BY <1>2, <2>0 DEF CallRow, Row
  <2>2. ASSUME clean[t] PROVE seen \subseteq {storage.user} BY <1>6, <2>2 DEF Mine
  <2>3. CASE c.round < Rounds(c.kind)
    <3>1. call' = [call EXCEPT ![t][k] = next] /\ UNCHANGED <<rows, page>>
      BY <1>8, <2>3 DEF Answered
    <3>2. c.round = 1 BY <1>2, <2>3 DEF Rounds, CallRow
    <3>3. /\ next \in CallRow /\ next.stage = "sent" /\ next.token = storage.access
          /\ next.seen = seen /\ next.kind = c.kind
      <4> HIDE DEF seen, c
      <4>1. storage.access \in 0..MaxTokens BY DEF PageInv, PageTypes
      <4> DEFINE d == [c EXCEPT !.round = @ + 1, !.seen = seen]
      <4>2. d \in CallRow /\ d.seen = seen /\ d.kind = c.kind
        <5> DEFINE e == [c EXCEPT !.round = 2]
        <5>1. e \in CallRow /\ e.kind = c.kind BY <1>2 DEF CallRow
        <5>2. d = [e EXCEPT !.seen = seen] BY <1>2, <3>2 DEF CallRow
        <5> HIDE DEF e
        <5> QED BY <2>1, <5>1, <5>2 DEF CallRow
      <4> HIDE DEF d
      <4>3. Sent(d, TRUE) \in CallRow BY <4>1, <4>2 DEF Sent, CallRow
      <4>4. /\ Sent(d, TRUE).stage = "sent" /\ Sent(d, TRUE).token = storage.access
            /\ Sent(d, TRUE).seen = seen /\ Sent(d, TRUE).kind = c.kind
        BY <4>2 DEF Sent, CallRow
      <4> QED BY <4>3, <4>4 DEF d
    <3> HIDE DEF next, seen
    <3>4. /\ call' \in [Tabs -> [Slots -> CallRow]] /\ call'[t][k] = next
          /\ \A j \in Slots : j # k => call'[t][j] = call[t][j]
      BY <1>5, <3>1, <3>3
    <3>5. PageTypes' BY <1>1, <3>1, <3>4 DEF PageInv, PageTypes, page
    <3>6. ASSUME clean[t] PROVE CleanPage(t)'
      <4>1. storage # SignedOut BY <1>6, <3>6 DEF CleanPage, GateClean
      <4>2. CallsClean(t)'
        BY <1>1, <1>4, <2>2, <3>3, <3>4, <3>6, <4>1, CallsStep
      <4>3. GateClean(t)'
        BY <1>1, <1>6, <3>1, <3>3, <3>4, <3>6 DEF CleanPage, GateClean, page
      <4> QED BY <1>1, <1>6, <3>6, <4>2, <4>3 DEF CleanPage
    <3> QED BY <1>1, <3>5, <3>6
  <2>4. CASE ~(c.round < Rounds(c.kind))
    <3>1. /\ call' = [call EXCEPT ![t][k] = NoCall]
          /\ \/ phase' = [phase EXCEPT ![t] = "ready"] /\ store' = [store EXCEPT ![t] = seen]
             \/ phase' = phase /\ store' = [store EXCEPT ![t] = seen]
             \/ phase' = phase /\ store' = [store EXCEPT ![t] = store[t] \cup seen]
             \/ phase' = phase /\ store' = store
      BY <1>8, <2>4 DEF Answered, adoptServerState, mutate
    <3> HIDE DEF seen
    <3>2. /\ call' \in [Tabs -> [Slots -> CallRow]] /\ call'[t][k] = NoCall
          /\ \A j \in Slots : j # k => call'[t][j] = call[t][j]
      BY <1>5, <3>1, CallTypes
    <3>3. /\ phase' \in [Tabs -> {"mounted", "loading", "ready", "signed-out", "error"}]
          /\ store' \in [Tabs -> SUBSET (Users \cup {None})]
      BY <1>2, <2>1, <3>1
    <3>4. PageTypes' BY <1>1, <3>2, <3>3 DEF PageInv, PageTypes
    <3>5. ASSUME clean[t] PROVE CleanPage(t)'
      <4>1. CallsClean(t)' BY <1>1, <1>4, <3>2, <3>5, CallsStep
      <4>2. c.kind = "boot" => store'[t] \subseteq {storage.user} /\ phase'[t] = "ready"
        BY <1>2, <1>8, <2>2, <2>4, <3>5 DEF Answered, adoptServerState, seen
      <4>3. c.kind # "boot" =>
              phase' = phase /\ (store[t] \subseteq {storage.user} => store'[t] \subseteq {storage.user})
        BY <1>2, <1>8, <2>2, <2>4, <3>5 DEF Answered, adoptServerState, mutate, seen
      <4>4. GateClean(t)'
        <5>1. CASE c.kind = "boot"
          <6>1. k = "own" /\ phase[t] = "loading" BY <1>6, <3>5, <5>1
          <6>2. \A j \in Slots : call'[t][j] = NoCall
            BY <1>6, <3>2, <3>5, <6>1 DEF CleanPage, GateClean
          <6> QED BY <1>1, <1>3, <1>6, <3>5, <4>2, <5>1, <6>1, <6>2 DEF CleanPage, GateClean
        <5>2. CASE c.kind # "boot"
          BY <1>1, <1>3, <1>6, <3>2, <3>5, <4>3, <5>2 DEF CleanPage, GateClean
        <5> QED BY <5>1, <5>2
      <4> QED BY <1>1, <1>6, <3>5, <4>1, <4>4 DEF CleanPage
    <3> QED BY <1>1, <3>4, <3>5
  <2> QED BY <2>3, <2>4
<1> QED BY <1>7, <1>8

\* Tokens age and are revoked; the page does not move.
LEMMA TablesClean ==
  ASSUME PageInv, NEW t \in Tabs,
         UNCHANGED <<storage, renewal, call, page, clean, untried>>,
         rows' = rows \/ \E ns : rows' = revoke(ns)
  PROVE  PageTypes' /\ (clean'[t] => CleanPage(t)')
<1>1. PageTypes' BY DEF PageInv, PageTypes, page
<1>2. \A n \in Tokens : rows'[n].user = rows[n].user
  BY DEF revoke, PageInv, ChainInv, ChainTypes, Row
<1> QED BY <1>1, <1>2, ServerClean

\* The server works on the renewal.
LEMMA RenewalClean ==
  ASSUME PageInv, OneTab, NEW t \in Tabs, refresh_lock(t) \/ refresh_commit(t) \/ refresh_fails(t)
  PROVE  PageTypes' /\ (clean'[t] => CleanPage(t)')
<1>1. UNCHANGED <<storage, call, page, clean, untried>>
  BY DEF refresh_lock, refresh_commit, refresh_fails
<1>2. PageTypes' BY <1>1 DEF PageInv, PageTypes, page
<1>3. renewal \in [Tabs -> Renewal] /\ rows \in [Tokens -> Row] BY DEF PageInv, ChainInv, ChainTypes
<1>4. ASSUME clean[t], refresh_lock(t) \/ refresh_fails(t) PROVE CleanPage(t)'
  <2>1. /\ rows' = rows /\ renewal[t].state \in {"sent", "locked", "answered"}
        /\ \E x \in {"locked", "refused"} :
             renewal' = [renewal EXCEPT ![t].state = x] /\ (x = "locked" => renewal[t].state = "sent")
    BY <1>4 DEF refresh_lock, refresh_fails, server
  <2>2. /\ renewal'[t].state \in {"locked", "refused"} /\ renewal'[t].token = renewal[t].token
    BY <1>3, <2>1 DEF Renewal
  <2> QED BY <1>1, <1>4, <2>1, <2>2, ServerClean
<1>5. ASSUME clean[t], refresh_commit(t) PROVE CleanPage(t)'
  <2> DEFINE old == renewal[t].token
             new == [user |-> rows[old].user, sid |-> rows[old].sid, status |-> "live"]
  <2>1. /\ renewal[t].state = "locked" /\ issued < MaxTokens
        /\ rows' = [[rows EXCEPT ![issued + 1] = new] EXCEPT ![old].status = "rotated"]
        /\ renewal' = [renewal EXCEPT ![t] = [state |-> "answered", token |-> issued + 1]]
    BY <1>5 DEF refresh_commit, tokens_for
  <2>2. issued \in Nat /\ MaxTokens \in Nat /\ issued + 1 \in Tokens
    BY <2>1, TokenAssumption DEF PageInv, ChainInv, ChainTypes, Tokens
  <2>3. old \in Tokens BY <2>1 DEF PageInv, ChainInv, Held
  <2>4. old # issued + 1
    <3>1. rows[old].status = "live" BY <2>1 DEF PageInv, ChainInv, Held, Live
    <3> QED BY <2>2, <2>3, <3>1 DEF PageInv, ChainInv, Fresh, NoRow
  <2>5. new.user = rows[old].user OBVIOUS
  <2> HIDE DEF old, new
  <2>6. /\ rows'[issued + 1] = new /\ rows'[old].user = rows[old].user
        /\ \A n \in Tokens : n # issued + 1 /\ n # old => rows'[n] = rows[n]
    BY <1>3, <2>1, <2>2, <2>3, <2>4 DEF Row
  <2>7. \A n \in Tokens : n <= issued => rows'[n].user = rows[n].user BY <2>2, <2>6
  <2>8. renewal'[t].state = "answered" /\ renewal'[t].token = issued + 1 BY <1>3, <2>1
  <2>9. rows'[renewal'[t].token].user = rows[renewal[t].token].user BY <2>5, <2>6, <2>8 DEF old
  <2> QED BY <1>1, <1>5, <2>1, <2>2, <2>7, <2>8, <2>9, ServerClean
<1> QED BY <1>1, <1>2, <1>4, <1>5

LEMMA NextPage == OneTab /\ PageInv /\ [Next]_vars => PageInv'
<1> SUFFICES ASSUME OneTab, PageInv, [Next]_vars PROVE PageInv' OBVIOUS
<1>1. ChainInv' /\ ChainHeld' BY NextChain, NextHeld DEF PageInv
<1>2. ASSUME NEW t \in Tabs, PageTypes' /\ (clean'[t] => CleanPage(t)') PROVE PageInv'
  BY <1>1, <1>2 DEF PageInv, OneTab
<1>3. ASSUME \/ \E n \in Tokens : AccessAges(n) \/ \E arrives \in BOOLEAN : logout(n, arrives)
             \/ \E u \in Users : resetStudentPassword(u)
             \/ UNCHANGED vars
      PROVE  PageInv'
  <2>1. UNCHANGED <<storage, renewal, call, page, clean, untried>>
    BY <1>3, Zenon DEF AccessAges, logout, resetStudentPassword, vars
  <2>2. rows' = rows \/ \E ns : rows' = revoke(ns)
    BY <1>3, Zenon DEF AccessAges, logout, resetStudentPassword, vars, server
  <2>3. PageTypes' BY <2>1 DEF PageInv, PageTypes, page
  <2>4. \A t \in Tabs : clean'[t] => CleanPage(t)' BY <2>1, <2>2, TablesClean
  <2> QED BY <1>1, <2>3, <2>4 DEF PageInv
<1>4. ASSUME NEW t \in Tabs, Progress(t) \/ Person(t) PROVE PageTypes' /\ (clean'[t] => CleanPage(t)')
  <2>1. CASE refresh_lock(t) \/ refresh_commit(t) \/ refresh_fails(t) BY <2>1, RenewalClean
  <2>2. CASE RenewalLands(t) BY <2>2, LandsClean
  <2>3. CASE loadStateFromServer(t) BY <2>3, BootStep
  <2>4. CASE \E k \in Slots : Unauthorised(t, k) BY <2>4, UnauthorisedClean
  <2>5. CASE \E k \in Slots : Unreachable(t, k) \/ Answered(t, k) BY <2>5, SettledClean
  <2>6. CASE \E u \in Users : signIn(t, u) BY <2>6, SignInClean
  <2>7. CASE refreshFromServer(t) \/ refreshExam(t) \/ \E right \in BOOLEAN : submitPassword(t, right)
    BY <2>7, BeginOnScreen
  <2>8. CASE signOut(t) \/ closeDialog(t) \/ reload(t) \/ retry(t) \/ openDialog(t)
    BY <2>8, PersonClean
  <2> QED BY <1>4, <2>1, <2>2, <2>3, <2>4, <2>5, <2>6, <2>7, <2>8, Zenon
          DEF Progress, Person, Renewing, Settling
<1> QED BY <1>2, <1>3, <1>4, Zenon DEF Next

\* In a browser with one tab, for as long as no sign-out has met a request or
\* a renewal in flight, the gate means that no credential is left, a screen
\* shows the records of the person who is signed in and nobody else's, and no
\* 401 reaches a caller that had a refresh token to try (http.ts, request,
\* renewAccess and signOut; providers.tsx, signOut).
THEOREM CleanUntilRace == OneTab => (Spec => []CleanSession)
<1> SUFFICES ASSUME OneTab PROVE Spec => []CleanSession OBVIOUS
<1>1. Init => PageInv
  <2> SUFFICES ASSUME Init PROVE PageInv OBVIOUS
  <2>1. ChainInv BY InitChain
  <2>2. ChainHeld BY TokenAssumption DEF Init, ChainHeld, SignedOut, NoRenewal, Tokens
  <2>3. PageTypes BY CallTypes DEF Init, PageTypes
  <2>4. ASSUME NEW t \in Tabs PROVE CleanPage(t)
    <3>1. ~untried[t] BY DEF Init
    <3>2. CallsClean(t) BY DEF Init, CallsClean, Credential, NoRenewal, NoCall
    <3>3. GateClean(t) BY DEF Init, GateClean, Quiet, NoRenewal
    <3> QED BY <3>1, <3>2, <3>3 DEF CleanPage
  <2> QED BY <2>1, <2>2, <2>3, <2>4 DEF PageInv
<1>2. PageInv => CleanSession
  BY DEF PageInv, CleanPage, GateClean, CleanSession
<1> QED BY <1>1, <1>2, NextPage, PTL DEF Spec
==============================================================================

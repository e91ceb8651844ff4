--------------------------- MODULE BrowserSession ---------------------------
(***************************************************************************)
(* The signed-in browser: credentials in local storage, the renewal that   *)
(* concurrent requests share, the provider that loads a snapshot for       *)
(* whoever signed in, and the server's single-use refresh tokens.          *)
(*                                                                         *)
(* src/frontend/lib/api/http.ts, store.ts, app/providers.tsx, sign-in.tsx, *)
(* change-password.tsx; refresh_tokens on the server.                      *)
(***************************************************************************)
EXTENDS Naturals

CONSTANTS
  Tabs,        \* tabs of one browser: they share local storage
  Users, Staff,
  Background,  \* background requests (polls, reloads after a write) a tab may have in flight
  MaxTokens,   \* bound: token pairs ever issued
  MaxAttempts, \* bound: loads of the snapshot per page
  None

ASSUME TokenAssumption == MaxTokens \in Nat /\ None \notin Users

Tokens == 1..MaxTokens

\* The provider's load or the password dialog's request, and the others.
Slots == {"own"} \cup Background

VARIABLES
  rows,        \* refresh_tokens, by number; pair n is an access and a refresh token
  issued,      \* pairs issued so far
  aged,        \* pairs whose access token has expired
  logouts,     \* sessions whose sign-out is on its way to the server
  storage,     \* localStorage: access token, refresh token, user
  renewal,     \* per tab: the module-level promise of renewAccess
  call,        \* per tab and slot: a request in flight
  phase, attempt, store, dialog,
  clean,       \* history: no sign-out has met a request or renewal in flight
  untried,     \* history: a request was refused with a refresh token at hand
  lost         \* history: rotated tokens whose answer never reached the page

server == <<rows, issued, aged, logouts>>
page   == <<phase, attempt, store, dialog>>
vars   == <<server, storage, renewal, call, page, clean, untried, lost>>

Row == [user : Users \cup {None}, sid : 0..MaxTokens,
        status : {"none", "live", "rotated", "revoked"}]

NoRow == [user |-> None, sid |-> 0, status |-> "none"]

SignedOut == [access |-> 0, refresh |-> 0, user |-> None]

NoRenewal == [state |-> "none", token |-> 0]

NoCall == [kind |-> "none", stage |-> "idle", token |-> 0, retried |-> FALSE,
           round |-> 1, right |-> FALSE, seen |-> {}]

(***************************************************************************)
(* Server side: src/backend/app/api/routes_directory.py.                   *)
(***************************************************************************)

\* Rows held FOR UPDATE by a renewal that has not committed.
Locked == {renewal[t].token : t \in {u \in Tabs : renewal[u].state = "locked"}}

\* login, refresh: the row of the pair handed out.
tokens_for(r, u, sid) == [r EXCEPT ![issued + 1] =
                              [user |-> u, sid |-> sid, status |-> "live"]]

\* UPDATE ... WHERE consumed_at IS NULL. It waits for a row a renewal holds,
\* finds it consumed, and does not see the row that renewal inserted.
revoke(ns) == [n \in Tokens |->
                 IF n \in ns \ Locked /\ rows[n].status = "live"
                 THEN [rows[n] EXCEPT !.status = "revoked"] ELSE rows[n]]

OfUser(u) == {n \in Tokens : rows[n].user = u}

OfSession(sid) == {n \in Tokens : rows[n].sid = sid}

Accepted(token) == token # 0 /\ token \notin aged

\* The access token's half hour is over (one that somebody still holds).
AccessAges(n) ==
  /\ n \notin aged
  /\ n = storage.access \/ \E t \in Tabs, k \in Slots : call[t][k].token = n
  /\ aged' = aged \cup {n}
  /\ UNCHANGED <<rows, issued, logouts, storage, renewal, call, page, clean, untried, lost>>

\* /auth/refresh: SELECT ... FOR UPDATE; replayed and revoked are one answer.
refresh_lock(t) ==
  /\ renewal[t].state = "sent" /\ renewal[t].token \notin Locked
  /\ issued < MaxTokens
  /\ renewal' = [renewal EXCEPT ![t].state =
                   IF rows[renewal[t].token].status = "live" THEN "locked" ELSE "refused"]
  /\ UNCHANGED <<server, storage, call, page, clean, untried, lost>>

\* Variant: the token presented is not consumed.
refresh_commit_keeps_old(t) ==
  LET old == renewal[t].token IN
  /\ renewal[t].state = "locked" /\ issued < MaxTokens
  /\ rows' = tokens_for(rows, rows[old].user, rows[old].sid)
  /\ issued' = issued + 1
  /\ renewal' = [renewal EXCEPT ![t] = [state |-> "answered", token |-> issued + 1]]
  /\ UNCHANGED <<aged, logouts, storage, call, page, clean, untried, lost>>

refresh_commit(t) ==
  LET old == renewal[t].token IN
  /\ renewal[t].state = "locked" /\ issued < MaxTokens
  /\ rows' = [tokens_for(rows, rows[old].user, rows[old].sid) EXCEPT ![old].status = "rotated"]
  /\ issued' = issued + 1
  /\ renewal' = [renewal EXCEPT ![t] = [state |-> "answered", token |-> issued + 1]]
  /\ UNCHANGED <<aged, logouts, storage, call, page, clean, untried, lost>>

\* The renewal fails on the way or in the server, or its answer is lost. A
\* request that never arrived changed nothing.
refresh_fails(t) ==
  /\ renewal[t].state \in {"sent", "locked", "answered"}
  /\ lost' = IF renewal[t].state = "answered" THEN lost \cup {renewal[t].token} ELSE lost
  /\ renewal' = [renewal EXCEPT ![t].state = "refused"]
  /\ UNCHANGED <<server, storage, call, page, clean, untried>>

\* /auth/logout: ends the session of the token presented, or never arrives.
logout(sid, arrives) ==
  /\ sid \in logouts
  /\ logouts' = logouts \ {sid}
  /\ rows' = IF arrives THEN revoke(OfSession(sid)) ELSE rows
  /\ UNCHANGED <<issued, aged, storage, renewal, call, page, clean, untried, lost>>

\* The exam cell resets a password: every session of that person ends.
resetStudentPassword(u) ==
  /\ u \notin Staff
  /\ \E n \in OfUser(u) : rows[n].status = "live"
  /\ rows' = revoke(OfUser(u))
  /\ UNCHANGED <<issued, aged, logouts, storage, renewal, call, page, clean, untried, lost>>

(***************************************************************************)
(* Requests: http.ts.                                                      *)
(***************************************************************************)

\* A request reads the token when it is sent.
Sent(c, first) == [c EXCEPT !.stage = "sent", !.token = storage.access, !.retried = ~first]

\* A snapshot is several requests, one after the other, each with the token
\* of its moment; two of them for the provider's own load, one for the others.
Rounds(kind) == IF kind = "boot" THEN 2 ELSE 1

Begin(t, kind, right) ==
  \E k \in IF kind \in {"boot", "password"} THEN {"own"} ELSE Background :
    /\ call[t][k] = NoCall
    /\ call' = [call EXCEPT ![t][k] = Sent([NoCall EXCEPT !.kind = kind, !.right = right], TRUE)]

\* Variant: the provider does not leave the spinner.
Refused_silent(t, ks) ==
  /\ dialog' = IF \E k \in ks : call[t][k].kind = "password"
               THEN [dialog EXCEPT ![t] = "form"] ELSE dialog
  /\ UNCHANGED <<storage, phase, attempt, store>>

\* The calls ks of tab t end with a 401: the provider forgets the credential
\* and shows the gate when its own load was among them, the dialog refuses,
\* and everybody else keeps the last snapshot on screen.
Refused(t, ks) ==
  LET boot == \E k \in ks : call[t][k].kind = "boot" IN
  /\ phase'   = IF boot THEN [phase EXCEPT ![t] = "signed-out"] ELSE phase
  /\ storage' = IF boot THEN SignedOut ELSE storage
  /\ dialog'  = IF \E k \in ks : call[t][k].kind = "password"
                THEN [dialog EXCEPT ![t] = "form"] ELSE dialog
  /\ UNCHANGED <<attempt, store>>

Without(cs, ks) == [k \in Slots |-> IF k \in ks THEN NoCall ELSE cs[k]]

Waiting(t) == {k \in Slots : call[t][k].stage = "waiting"}

\* Variant: every 401 starts a renewal of its own.
renewAccess_unshared(t, k) ==
  /\ storage.refresh # 0
  /\ renewal' = [renewal EXCEPT ![t] = [state |-> "sent", token |-> storage.refresh]]
  /\ call' = [call EXCEPT ![t][k].stage = "waiting"]
  /\ UNCHANGED <<storage, page, untried>>

\* A 401, first time: renewAccess. A promise already there is shared, also
\* one that settled when there was no refresh token to send: that return
\* comes before the try, so its finally does not clear it.
renewAccess(t, k) ==
  LET r == renewal[t]  none == r.state = "none" /\ storage.refresh = 0 IN
  IF r.state = "settled" \/ none
  THEN /\ renewal' = IF none THEN [renewal EXCEPT ![t].state = "settled"] ELSE renewal
       /\ call' = [call EXCEPT ![t] = Without(@, {k})]
       /\ untried' = [untried EXCEPT ![t] = @ \/ storage.refresh # 0]
       /\ Refused(t, {k})
  ELSE /\ renewal' = IF r.state = "none"
                     THEN [renewal EXCEPT ![t] = [state |-> "sent", token |-> storage.refresh]]
                     ELSE renewal
       /\ call' = [call EXCEPT ![t][k].stage = "waiting"]
       /\ UNCHANGED <<storage, page, untried>>

Unauthorised(t, k) ==
  LET c == call[t][k] IN
  /\ c.stage = "sent"
  /\ ~Accepted(c.token) \/ (c.kind = "password" /\ ~c.right)
  /\ IF c.retried
     THEN /\ call' = [call EXCEPT ![t] = Without(@, {k})]
          /\ Refused(t, {k})
          /\ UNCHANGED <<renewal, untried>>
     ELSE renewAccess(t, k)
  /\ UNCHANGED <<server, clean, lost>>

\* The promise settles: every call waiting for it goes on, in this order:
\* credentials are stored first, then the requests are repeated.
RenewalLands(t) ==
  LET n == renewal[t].token  ks == Waiting(t) IN
  /\ \/ /\ renewal[t].state = "answered"
        /\ storage' = [access |-> n, refresh |-> n, user |-> rows[n].user]
        /\ call' = [call EXCEPT ![t] = [k \in Slots |->
                      IF k \in ks THEN [@[k] EXCEPT !.stage = "sent", !.token = n, !.retried = TRUE]
                      ELSE @[k]]]
        /\ UNCHANGED page
     \/ /\ renewal[t].state = "refused"
        /\ call' = [call EXCEPT ![t] = Without(@, ks)]
        /\ Refused(t, ks)
  /\ renewal' = [renewal EXCEPT ![t] = NoRenewal]
  /\ UNCHANGED <<server, clean, untried, lost>>

\* The request fails with anything but a 401.
Unreachable(t, k) ==
  LET c == call[t][k] IN
  /\ c.stage = "sent"
  /\ call' = [call EXCEPT ![t][k] = NoCall]
  /\ phase' = IF c.kind = "boot" THEN [phase EXCEPT ![t] = "error"] ELSE phase
  /\ dialog' = IF c.kind = "password" THEN [dialog EXCEPT ![t] = "form"] ELSE dialog
  /\ UNCHANGED <<server, storage, renewal, attempt, store, clean, untried, lost>>

(***************************************************************************)
(* The provider: app/providers.tsx over lib/api/store.ts.                  *)
(***************************************************************************)

adoptServerState(t, seen) == store' = [store EXCEPT ![t] = seen]

mutate(t, seen) == store' = [store EXCEPT ![t] = @ \cup seen]

Answered(t, k) ==
  LET c == call[t][k]  seen == c.seen \cup {rows[c.token].user} IN
  /\ c.stage = "sent" /\ Accepted(c.token)
  /\ c.kind = "password" => c.right
  /\ IF c.round < Rounds(c.kind)
     THEN /\ call' = [call EXCEPT ![t][k] =
                        Sent([c EXCEPT !.round = @ + 1, !.seen = seen], TRUE)]
          /\ UNCHANGED <<rows, page>>
     ELSE /\ call' = [call EXCEPT ![t][k] = NoCall]
          /\ \/ /\ c.kind = "boot" /\ adoptServerState(t, seen)
                /\ phase' = [phase EXCEPT ![t] = "ready"]
                /\ UNCHANGED <<rows, dialog>>
             \/ /\ c.kind = "full" /\ adoptServerState(t, seen)
                /\ UNCHANGED <<rows, phase, dialog>>
             \/ /\ c.kind = "slice" /\ mutate(t, seen)
                /\ UNCHANGED <<rows, phase, dialog>>
             \/ /\ c.kind = "password"
                /\ rows' = revoke(OfUser(rows[c.token].user))
                /\ dialog' = [dialog EXCEPT ![t] = "done"]
                /\ UNCHANGED <<phase, store>>
          /\ UNCHANGED <<attempt>>
  /\ UNCHANGED <<issued, aged, logouts, storage, renewal, clean, untried, lost>>

\* The effect on [attempt]: without a token the load is refused before it
\* sends anything.
loadStateFromServer(t) ==
  /\ phase[t] = "mounted"
  /\ \/ /\ storage.access = 0
        /\ phase' = [phase EXCEPT ![t] = "signed-out"]
        /\ storage' = SignedOut /\ UNCHANGED call
     \/ /\ storage.access # 0
        /\ Begin(t, "boot", FALSE)
        /\ phase' = [phase EXCEPT ![t] = "loading"]
        /\ UNCHANGED storage
  /\ UNCHANGED <<server, renewal, attempt, store, dialog, clean, untried, lost>>

retry(t) ==
  /\ phase[t] = "error" /\ attempt[t] < MaxAttempts
  /\ phase' = [phase EXCEPT ![t] = "mounted"]
  /\ attempt' = [attempt EXCEPT ![t] = @ + 1]
  /\ UNCHANGED <<server, storage, renewal, call, store, dialog, clean, untried, lost>>

\* SignInGate: /auth/login, then the credentials are stored and a load begins.
signIn(t, u) ==
  /\ phase[t] = "signed-out" /\ issued < MaxTokens /\ attempt[t] < MaxAttempts
  /\ rows' = tokens_for(rows, u, issued + 1)
  /\ issued' = issued + 1
  /\ storage' = [access |-> issued + 1, refresh |-> issued + 1, user |-> u]
  /\ phase' = [phase EXCEPT ![t] = "mounted"]
  /\ attempt' = [attempt EXCEPT ![t] = @ + 1]
  /\ UNCHANGED <<aged, logouts, renewal, call, store, dialog, clean, untried, lost>>

\* refreshFromServer and a write's reload check for a token first; a slice
\* does not.
refreshFromServer(t) ==
  /\ phase[t] = "ready" /\ storage.access # 0
  /\ Begin(t, "full", FALSE)
  /\ UNCHANGED <<server, storage, renewal, page, clean, untried, lost>>

refreshExam(t) ==
  /\ phase[t] = "ready"
  /\ Begin(t, "slice", FALSE)
  /\ UNCHANGED <<server, storage, renewal, page, clean, untried, lost>>

\* Variant: the credential stays until the server has answered.
forget_keeps_token(t) ==
  /\ logouts' = IF storage.refresh = 0 THEN logouts
                ELSE logouts \cup {rows[storage.refresh].sid}
  /\ store' = [store EXCEPT ![t] = {}]
  /\ phase' = [phase EXCEPT ![t] = "signed-out"]
  /\ UNCHANGED <<storage, clean>>

\* forgetCredential, examStore.clear, the gate. The sign-out is sent and
\* nobody waits for it.
forget(t) ==
  /\ storage' = SignedOut
  /\ logouts' = IF storage.refresh = 0 THEN logouts
                ELSE logouts \cup {rows[storage.refresh].sid}
  /\ store' = [store EXCEPT ![t] = {}]
  /\ phase' = [phase EXCEPT ![t] = "signed-out"]
  /\ clean' = [clean EXCEPT ![t] = @ /\ renewal[t].state = "none"
                                     /\ \A k \in Slots : call[t][k] = NoCall]

signOut(t) ==
  /\ phase[t] = "ready" /\ dialog[t] = "closed"
  /\ forget(t)
  /\ UNCHANGED <<rows, issued, aged, renewal, call, attempt, dialog, untried, lost>>

(***************************************************************************)
(* Changing one's password: components/change-password.tsx. The form is    *)
(* complete, and the current password in it right or wrong.                *)
(***************************************************************************)

openDialog(t) ==
  /\ phase[t] = "ready" /\ dialog[t] = "closed"
  /\ dialog' = [dialog EXCEPT ![t] = "form"]
  /\ UNCHANGED <<server, storage, renewal, call, phase, attempt, store, clean, untried, lost>>

submitPassword(t, right) ==
  /\ phase[t] = "ready" /\ dialog[t] = "form"
  /\ Begin(t, "password", right)
  /\ dialog' = [dialog EXCEPT ![t] = "busy"]
  /\ UNCHANGED <<server, storage, renewal, phase, attempt, store, clean, untried, lost>>

\* Not while busy. After a change, closing is leaving, and leaving signs out.
closeDialog(t) ==
  /\ phase[t] = "ready" /\ dialog[t] \in {"form", "done"}
  /\ dialog' = [dialog EXCEPT ![t] = "closed"]
  /\ IF dialog[t] = "done" THEN forget(t) ELSE UNCHANGED <<storage, logouts, store, phase, clean>>
  /\ UNCHANGED <<rows, issued, aged, renewal, call, attempt, untried, lost>>

\* A reload forgets everything but local storage. What the page had asked for
\* may have been answered already, to nobody.
reload(t) ==
  /\ attempt[t] < MaxAttempts /\ renewal[t].state # "locked"
  /\ lost' = IF renewal[t].state = "answered" THEN lost \cup {renewal[t].token} ELSE lost
  /\ renewal' = [renewal EXCEPT ![t] = NoRenewal]
  /\ call' = [call EXCEPT ![t] = [k \in Slots |-> NoCall]]
  /\ phase' = [phase EXCEPT ![t] = "mounted"]
  /\ attempt' = [attempt EXCEPT ![t] = @ + 1]
  /\ store' = [store EXCEPT ![t] = {}]
  /\ dialog' = [dialog EXCEPT ![t] = "closed"]
  /\ UNCHANGED <<server, storage, clean, untried>>

Init ==
  /\ rows = [n \in Tokens |-> NoRow] /\ issued = 0 /\ aged = {} /\ logouts = {}
  /\ storage = SignedOut
  /\ renewal = [t \in Tabs |-> NoRenewal]
  /\ call = [t \in Tabs |-> [k \in Slots |-> NoCall]]
  /\ phase = [t \in Tabs |-> "mounted"] /\ attempt = [t \in Tabs |-> 0]
  /\ store = [t \in Tabs |-> {}] /\ dialog = [t \in Tabs |-> "closed"]
  /\ clean = [t \in Tabs |-> TRUE] /\ untried = [t \in Tabs |-> FALSE] /\ lost = {}

\* What the page and the network do by themselves once asked.
Renewing(t) == refresh_lock(t) \/ refresh_commit(t) \/ refresh_fails(t) \/ RenewalLands(t)

Settling(t, k) == Unauthorised(t, k) \/ Unreachable(t, k) \/ Answered(t, k)

Progress(t) ==
  \/ Renewing(t) \/ loadStateFromServer(t)
  \/ \E k \in Slots : Settling(t, k)

Person(t) ==
  \/ \E u \in Users : signIn(t, u)
  \/ retry(t) \/ refreshFromServer(t) \/ refreshExam(t) \/ signOut(t) \/ reload(t)
  \/ openDialog(t) \/ closeDialog(t) \/ \E right \in BOOLEAN : submitPassword(t, right)

Next ==
  \/ \E t \in Tabs : Progress(t) \/ Person(t)
  \/ \E n \in Tokens : AccessAges(n) \/ \E arrives \in BOOLEAN : logout(n, arrives)
  \/ \E u \in Users : resetStudentPassword(u)

Spec == Init /\ [][Next]_vars

\* Requests are answered or fail, promises settle, effects run. Nobody has to
\* press anything.
Fairness == \A t \in Tabs : WF_vars(Progress(t))

FairSpec == Spec /\ Fairness

-----------------------------------------------------------------------------

\* Rotation keeps one chain per sign-in: two renewals that arrive together are
\* not both honoured (routes_directory.py, refresh: FOR UPDATE).
ChainLinear ==
  \A m, n \in Tokens :
    rows[m].status = "live" /\ rows[n].status = "live" /\ rows[m].sid = rows[n].sid => m = n

\* Concurrent 401s share one renewal, so a single tab presents a token that
\* was already rotated only when the answer to that rotation was lost
\* (http.ts, renewAccess).
ReplayOnlyAfterLoss ==
  \A t \in Tabs :
    LET n == renewal[t].token IN
    renewal[t].state = "sent" /\ rows[n].status = "rotated"
      => \E m \in lost : rows[m].sid = rows[n].sid

\* As long as no sign-out has met a request in flight, the gate means that the
\* browser holds no credential, what is on screen is the signed-in person's, and
\* no caller sees a 401 unless renewal itself failed: no settled promise of an
\* earlier renewal answers for a new one (http.ts, signOut, request, renewAccess;
\* providers.tsx, signOut).
CleanSession ==
  \A t \in Tabs : clean[t] =>
    /\ phase[t] = "signed-out" => storage = SignedOut
    /\ phase[t] = "ready" => store[t] \subseteq {storage.user}
    /\ ~untried[t]

\* The spinner always gives way to screens, the gate or an error: no load
\* waits for a renewal that is gone, and refusals do not turn into a loop of
\* renewals (http.ts, renewAccess; providers.tsx).
LoadingEnds ==
  \A t \in Tabs :
    phase[t] \in {"mounted", "loading"} ~> phase[t] \in {"ready", "signed-out", "error"}

=============================================================================

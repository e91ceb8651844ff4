----------------------------- MODULE RosterDesk -----------------------------
(***************************************************************************)
(* The dialogs that issue passwords: adding a candidate, importing a       *)
(* roster and resetting a password, against a server that creates one      *)
(* account at a time. A password is readable once, in the answer.          *)
(*                                                                         *)
(* src/frontend: components/roster.tsx, components/admin-screens.tsx       *)
(* (StudentsScreen); src/backend/app/services/directory.py. A password is  *)
(* abstracted to a serial number.                                          *)
(***************************************************************************)
EXTENDS Integers, Sequences, FiniteSets

CONSTANTS
  People,        \* registration numbers, with their addresses
  Files,         \* roster files: sequences of people, and Illegible rows
  Illegible,
  Calls,         \* requests of this desk, in flight
  MaxPasswords,  \* bound: passwords issued
  MaxLost        \* bound: answers lost

ASSUME RosterAssumption ==
  /\ Illegible \notin People /\ Files \subseteq Seq(People \cup {Illegible})
  /\ MaxPasswords \in Nat /\ MaxLost \in Nat

VARIABLES
  account,   \* the password of each person on the register, 0 for none
  issued,    \* passwords issued so far
  call,      \* the requests
  dialog,    \* the three dialogs
  lost,      \* answers lost so far
  seen,      \* history: passwords that were on screen
  excused    \* history: passwords whose request failed or went unheard, or whose
             \* answer another addition's answer replaced

register == <<account, issued, call, dialog, lost, seen, excused>>

Kind == {"add", "import", "reset"}

\* created and failed are the answer so far; at is the row under way, free
\* whether its two lookups found nobody.
NoCall == [kind |-> "none", todo |-> <<>>, free |-> FALSE, created |-> {}, failed |-> 0,
           rows |-> 0, heard |-> TRUE, ended |-> "no"]

\* shown: the answer in the dialog's state, if any.
NoAnswer == [kind |-> "none", created |-> {}, failed |-> 0, rows |-> 0]
Shut == [open |-> FALSE, busy |-> FALSE, shown |-> NoAnswer]

PasswordsOf(created) == {c.password : c \in created}

-----------------------------------------------------------------------------
(* The server.                                                             *)

\* create_student, first half: the two lookups.
create_student_checks(r) ==
  /\ call[r].kind \in {"add", "import"} /\ call[r].ended = "no"
  /\ call[r].todo # <<>> /\ ~call[r].free
  /\ Head(call[r].todo) # Illegible /\ account[Head(call[r].todo)] = 0
  /\ call' = [call EXCEPT ![r].free = TRUE]
  /\ UNCHANGED <<account, issued, dialog, lost, seen, excused>>

\* The rest of it: the insert, which somebody else's insert refuses.
create_student(r) ==
  /\ call[r].free /\ issued < MaxPasswords
  /\ account[Head(call[r].todo)] = 0
  /\ issued' = issued + 1
  /\ account' = [account EXCEPT ![Head(call[r].todo)] = issued']
  /\ call' = [call EXCEPT ![r].free = FALSE, ![r].todo = Tail(@),
                ![r].created = @ \cup {[person |-> Head(call[r].todo), password |-> issued']}]
  /\ UNCHANGED <<dialog, lost, seen, excused>>

\* The unique index refuses it: an error that nobody catches ends the request,
\* with the rows before it stored.
IntegrityError(r) ==
  /\ call[r].free /\ account[Head(call[r].todo)] # 0
  /\ call' = [call EXCEPT ![r].ended = "error"]
  /\ excused' = excused \cup PasswordsOf(call[r].created)
  /\ UNCHANGED <<account, issued, dialog, lost, seen>>

\* Already registered, or a row that cannot be read.
Rejects(r) ==
  /\ call[r].kind \in {"add", "import"} /\ call[r].ended = "no" /\ call[r].todo # <<>>
  /\ ~call[r].free
  /\ Head(call[r].todo) # Illegible => account[Head(call[r].todo)] # 0

\* A row that cannot be taken is reported; the ones before it stand.
import_roster(r) ==
  /\ Rejects(r) /\ call[r].kind = "import"
  /\ call' = [call EXCEPT ![r].todo = Tail(@), ![r].failed = @ + 1]
  /\ UNCHANGED <<account, issued, dialog, lost, seen, excused>>

\* The single candidate is refused with 409.
create_student_refused(r) ==
  /\ Rejects(r) /\ call[r].kind = "add"
  /\ call' = [call EXCEPT ![r].ended = "error"]
  /\ UNCHANGED <<account, issued, dialog, lost, seen, excused>>

reset_student_password(r) ==
  /\ call[r].kind = "reset" /\ call[r].todo # <<>> /\ issued < MaxPasswords
  /\ issued' = issued + 1
  /\ account' = [account EXCEPT ![Head(call[r].todo)] = issued']
  /\ call' = [call EXCEPT ![r].todo = <<>>,
                ![r].created = {[person |-> Head(call[r].todo), password |-> issued']}]
  /\ UNCHANGED <<dialog, lost, seen, excused>>

\* The request is answered; nobody may be listening any more.
Answered(r) ==
  /\ call[r].kind # "none" /\ call[r].todo = <<>> /\ call[r].ended = "no"
  /\ call' = [call EXCEPT ![r].ended = "done"]
  /\ excused' = IF call[r].heard THEN excused
                ELSE excused \cup PasswordsOf(call[r].created)
  /\ UNCHANGED <<account, issued, dialog, lost, seen>>

\* Another administrator adds a candidate, and reads the password there.
CreatedElsewhere(p) ==
  /\ account[p] = 0 /\ issued < MaxPasswords
  /\ issued' = issued + 1
  /\ account' = [account EXCEPT ![p] = issued']
  /\ seen' = seen \cup {issued'}
  /\ UNCHANGED <<call, dialog, lost, excused>>

-----------------------------------------------------------------------------
(* The dialogs.                                                            *)

Open(k) ==
  /\ \A j \in Kind : ~dialog[j].open
  /\ dialog' = [dialog EXCEPT ![k].open = TRUE]
  /\ seen' = seen \cup PasswordsOf(dialog[k].shown.created)
  /\ UNCHANGED <<account, issued, call, lost, excused>>

Send(k, rows) == \E r \in Calls :
  /\ call[r] = NoCall
  /\ call' = [call EXCEPT ![r] = [NoCall EXCEPT !.kind = k, !.todo = rows, !.rows = Len(rows)]]
  /\ dialog' = [dialog EXCEPT ![k].busy = TRUE]
  /\ UNCHANGED <<account, issued, lost, seen, excused>>

\* The form can be sent again with the Enter key while a request is under way:
\* only the button is disabled.
addSubmit == /\ dialog["add"].open /\ dialog["add"].shown = NoAnswer
             /\ \E p \in People : Send("add", <<p>>)

importSubmit ==
  /\ dialog["import"].open /\ dialog["import"].shown = NoAnswer /\ ~dialog["import"].busy
  /\ \E file \in Files : Send("import", file)

reset == /\ dialog["reset"].open /\ dialog["reset"].shown = NoAnswer /\ ~dialog["reset"].busy
         /\ \E p \in People : account[p] # 0 /\ Send("reset", <<p>>)

\* Only the reset dialog waits for its answer.
MayClose(k) == dialog[k].open /\ (k = "reset" => ~dialog[k].busy)

\* The answer is cleared, busy is not.
finish(k) ==
  /\ MayClose(k)
  /\ dialog' = [dialog EXCEPT ![k].open = FALSE, ![k].shown = NoAnswer]
  /\ UNCHANGED <<account, issued, call, lost, seen, excused>>

\* Variant: an answer that finds the dialog closed is dropped.
Lands_open_only(r) ==
  LET k == call[r].kind IN
  /\ call[r].ended = "done" /\ call[r].heard
  /\ dialog' = [dialog EXCEPT ![k].busy = FALSE,
       ![k].shown = IF dialog[k].open THEN [kind |-> k, created |-> call[r].created,
                      failed |-> call[r].failed, rows |-> call[r].rows] ELSE @]
  /\ seen' = IF dialog[k].open THEN seen \cup PasswordsOf(call[r].created) ELSE seen
  /\ call' = [call EXCEPT ![r] = NoCall]
  /\ UNCHANGED <<account, issued, lost, excused>>

\* The answer arrives, whether or not the dialog is still open. Of two additions
\* under way, one answer may replace the other before the dialog opens again.
Lands(r) ==
  LET k == call[r].kind IN
  /\ call[r].ended = "done" /\ call[r].heard
  /\ dialog' = [dialog EXCEPT ![k].busy = FALSE,
       ![k].shown = [kind |-> k, created |-> call[r].created, failed |-> call[r].failed,
                     rows |-> call[r].rows]]
  /\ seen' = IF dialog[k].open THEN seen \cup PasswordsOf(call[r].created) ELSE seen
  /\ call' = [call EXCEPT ![r] = NoCall]
  /\ excused' = IF k = "add" THEN excused \cup PasswordsOf(dialog[k].shown.created) ELSE excused
  /\ UNCHANGED <<account, issued, lost>>

\* The request failed: the dialog says so, and the form stays.
Fails(r) ==
  /\ call[r].ended = "error" /\ call[r].heard
  /\ dialog' = [dialog EXCEPT ![call[r].kind].busy = FALSE]
  /\ call' = [call EXCEPT ![r] = NoCall]
  /\ UNCHANGED <<account, issued, lost, seen, excused>>

\* The connection breaks: the dialog says that it failed, the server goes on.
Drops(r) ==
  /\ call[r].kind # "none" /\ call[r].heard /\ call[r].ended = "no" /\ lost < MaxLost
  /\ lost' = lost + 1
  /\ dialog' = [dialog EXCEPT ![call[r].kind].busy = FALSE]
  /\ call' = [call EXCEPT ![r].heard = FALSE]
  /\ UNCHANGED <<account, issued, seen, excused>>

RosterInit ==
  /\ account \in [People -> 0..1] /\ \A p, q \in People : account[p] = 1 /\ account[q] = 1 => p = q
  /\ issued = 1 /\ seen = {1}
  /\ call = [r \in Calls |-> NoCall] /\ dialog = [k \in Kind |-> Shut]
  /\ lost = 0 /\ excused = {}

RosterNext ==
  \/ \E r \in Calls : \/ create_student_checks(r) \/ create_student(r) \/ IntegrityError(r)
                      \/ import_roster(r) \/ create_student_refused(r)
                      \/ reset_student_password(r) \/ Answered(r)
                      \/ Lands(r) \/ Fails(r) \/ Drops(r)
  \/ \E p \in People : CreatedElsewhere(p)
  \/ \E k \in Kind : Open(k) \/ finish(k)
  \/ addSubmit \/ importSubmit \/ reset

RosterSpec == RosterInit /\ [][RosterNext]_register

-----------------------------------------------------------------------------
(* Properties.                                                             *)

\* Nobody holds an account whose password was thrown away: it has been on
\* screen, is waiting behind a closed dialog or is on its way, unless its
\* request failed half-way or went unheard, or two additions overlapped
\* (roster.tsx:45, "These passwords are shown once").
PasswordNotLost ==
  \A p \in People : account[p] # 0 =>
    \/ account[p] \in seen \cup excused
    \/ \E k \in Kind : account[p] \in PasswordsOf(dialog[k].shown.created)
    \/ \E r \in Calls : account[p] \in PasswordsOf(call[r].created)

\* The password that the reset dialog reads out is the one that works, unless
\* an unheard reset is behind it (roster.tsx:322, "this screen is the only place
\* the new one is readable").
ResetWorks ==
  lost = 0 /\ dialog["reset"].open =>
    \A c \in dialog["reset"].shown.created : account[c.person] = c.password

\* "Import finished" accounts for every row of the file, and lists nobody twice.
EveryRowReported ==
  LET a == dialog["import"].shown IN
  a # NoAnswer => /\ Cardinality(a.created) + a.failed = a.rows
                  /\ Cardinality({c.person : c \in a.created}) = Cardinality(a.created)

\* A password that is shown once reaches its owner: none is lost behind a dialog,
\* the one read out works, and an import answers for each of its rows
\* (roster.tsx:45, 322).
OneTimePasswords == PasswordNotLost /\ ResetWorks /\ EveryRowReported
==============================================================================

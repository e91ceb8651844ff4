---------------------------- MODULE MonitorFeed ----------------------------
(***************************************************************************)
(* A console that watches one examination and acts on it: the socket's     *)
(* frames, the poll behind them, the requests a refresh is made of, and    *)
(* the writes that end with a refresh.                                     *)
(*                                                                         *)
(* src/frontend/lib/api/realtime.ts, http.ts (loadExamSlice), live.ts,     *)
(* components/monitor.tsx; src/backend/app/realtime, api/routes_ws.py.     *)
(* Keepalives carry no number and change nothing, and are left out.        *)
(***************************************************************************)
EXTENDS Integers, Sequences

CONSTANTS
  Loads,        \* refreshes that may be in flight
  QueueSize,    \* asyncio.Queue(maxsize=64)
  MaxChanges,   \* bound: changes of the examination
  MaxFaults     \* bound: failed requests, lost frames and dropped connections

ASSUME FeedAssumption == QueueSize \in Nat /\ MaxChanges \in Nat /\ MaxFaults \in Nat

Version == 0..MaxChanges

VARIABLES
  actual,       \* changes that made the row and the roster what they are
  seq,          \* exams.event_seq
  outbox,       \* frames whose transaction committed and that are not published
  queue,        \* the subscriber's queue
  socket,       \* "down", "greeted": HELLO on its way, not subscribed; "open"
  hello,        \* what the HELLO says
  retry,        \* a reconnection is scheduled
  lastSeq,      \* of this watch; -1 for null
  live,         \* the indicator
  mounted,
  loads,        \* refreshes: what each has read so far
  shown,
  write,        \* a write of this console, and the change it made
  faults,
  heard,        \* history: newest change the page refetched for
  excused       \* history: since then a refresh failed, or an older one landed last

feed == <<outbox, queue, socket, hello, retry, lastSeq, live>>
vars == <<actual, seq, feed, mounted, loads, shown, write, faults, heard, excused>>

NoLoad == [stage |-> "none", exam |-> 0, rows |-> 0, writes |-> FALSE]
NoWrite == [stage |-> "none", change |-> 0]

NoFrame == [n |-> 0, seq |-> 0]

Frame == [n : Version, seq : Version]

Larger(a, b) == IF a > b THEN a ELSE b

Fault == faults < MaxFaults /\ faults' = faults + 1

(***************************************************************************)
(* The server.                                                             *)
(***************************************************************************)

Changes == actual.rows

\* A command moves the examination and its sessions in one transaction. The
\* number is incremented on the row as it was loaded, so of two commands that
\* overlap the second writes the first one's number again.
Transition(again) ==
  /\ Changes < MaxChanges
  /\ again => seq > 0
  /\ seq' = IF again THEN seq ELSE seq + 1
  /\ actual' = [exam |-> Changes + 1, rows |-> Changes + 1]
  /\ outbox' = outbox \cup {[n |-> Changes + 1, seq |-> seq']}

transition(again) ==
  /\ Transition(again)
  /\ UNCHANGED <<queue, socket, hello, retry, lastSeq, live, mounted, loads, shown, write,
                 faults, heard, excused>>

\* A check-in, a submission, a workstation's change of liveness: a frame goes
\* out with the number the examination has.
session_change ==
  /\ Changes < MaxChanges
  /\ actual' = [actual EXCEPT !.rows = @ + 1]
  /\ outbox' = outbox \cup {[n |-> Changes + 1, seq |-> seq]}
  /\ UNCHANGED <<seq, queue, socket, hello, retry, lastSeq, live, mounted, loads, shown, write,
                 faults, heard, excused>>

Published(f) ==
  /\ f \in outbox /\ outbox' = outbox \ {f}
  /\ UNCHANGED <<actual, seq, socket, hello, retry, lastSeq, live, mounted, loads, shown, write,
                 faults, heard, excused>>

\* publish_soon, in no particular order; a full queue drops the frame.
fan_out(f) ==
  /\ Published(f)
  /\ queue' = IF socket = "open" /\ Len(queue) < QueueSize THEN Append(queue, f) ELSE queue

\* Redis loses it.
publish_lost(f) ==
  /\ f \in outbox /\ outbox' = outbox \ {f} /\ Fault
  /\ UNCHANGED <<actual, seq, queue, socket, hello, retry, lastSeq, live, mounted, loads, shown,
                 write, heard, excused>>

(***************************************************************************)
(* The socket: realtime.ts and routes_ws.py.                               *)
(***************************************************************************)

\* The sequence number is read before the socket is accepted.
open ==
  /\ mounted /\ socket = "down" /\ retry
  /\ socket' = "greeted" /\ retry' = FALSE /\ live' = TRUE
  /\ hello' = [n |-> actual.rows, seq |-> seq]
  /\ UNCHANGED <<actual, seq, outbox, queue, lastSeq, mounted, loads, shown, write, faults,
                 heard, excused>>

Begin(writes) ==
  \E l \in Loads : /\ loads[l] = NoLoad
                   /\ loads' = [loads EXCEPT ![l] = [NoLoad EXCEPT !.stage = "exam", !.writes = writes]]

\* Variant: the number is noted and nothing is fetched.
onmessage_silent(f) ==
  /\ lastSeq' = Larger(lastSeq, f.seq)
  /\ heard' = IF f.seq > lastSeq THEN Larger(heard, f.n) ELSE heard
  /\ UNCHANGED loads

\* A number already seen is ignored; anything else means: fetch.
onmessage(f) ==
  IF f.seq <= lastSeq
  THEN UNCHANGED <<lastSeq, heard, loads>>
  ELSE /\ lastSeq' = f.seq
       /\ heard' = Larger(heard, f.n)
       /\ Begin(FALSE)

\* The server subscribes after it has sent the HELLO.
subscribe ==
  /\ mounted /\ socket = "greeted"
  /\ socket' = "open" /\ queue' = <<>> /\ hello' = NoFrame
  /\ onmessage(hello)
  /\ UNCHANGED <<actual, seq, outbox, retry, live, mounted, shown, write, faults, excused>>

_pump ==
  /\ mounted /\ socket = "open" /\ queue # <<>>
  /\ queue' = Tail(queue)
  /\ onmessage(Head(queue))
  /\ UNCHANGED <<actual, seq, outbox, socket, hello, retry, live, mounted, shown, write, faults,
                 excused>>

\* The queue goes with the connection; schedule sets the timer.
onclose ==
  /\ socket' = "down" /\ queue' = <<>> /\ hello' = NoFrame /\ live' = FALSE
  /\ retry' = TRUE

Disconnect ==
  /\ mounted /\ socket # "down" /\ Fault
  /\ onclose
  /\ UNCHANGED <<actual, seq, outbox, lastSeq, mounted, loads, shown, write, heard, excused>>

\* MonitorScreen mounts: a new watch, which has seen no number.
enter ==
  /\ ~mounted /\ mounted' = TRUE
  /\ retry' = TRUE
  /\ UNCHANGED <<actual, seq, outbox, queue, socket, hello, lastSeq, live, loads, shown, write, faults,
                 heard, excused>>

\* It unmounts. What it asked for still lands.
leave ==
  /\ mounted /\ mounted' = FALSE
  /\ socket' = "down" /\ queue' = <<>> /\ hello' = NoFrame /\ live' = FALSE /\ retry' = FALSE
  /\ lastSeq' = -1
  /\ UNCHANGED <<actual, seq, outbox, loads, shown, write, faults, heard, excused>>

\* Variant: the timer polls only while the socket is down.
poll_when_down ==
  /\ mounted /\ ~live
  /\ Begin(FALSE)
  /\ UNCHANGED <<actual, seq, feed, mounted, shown, write, faults, heard, excused>>

\* Every fifteen seconds, whether or not the socket is up.
poll ==
  /\ mounted
  /\ Begin(FALSE)
  /\ UNCHANGED <<actual, seq, feed, mounted, shown, write, faults, heard, excused>>

(***************************************************************************)
(* loadExamSlice: the examination first, then the rest at once; the merge  *)
(* happens when the answers are in.                                        *)
(***************************************************************************)

ReadExam(l) ==
  /\ loads[l].stage = "exam"
  /\ loads' = [loads EXCEPT ![l].stage = "rows", ![l].exam = actual.exam]
  /\ UNCHANGED <<actual, seq, feed, mounted, shown, write, faults, heard, excused>>

ReadRows(l) ==
  /\ loads[l].stage = "rows"
  /\ loads' = [loads EXCEPT ![l].stage = "read", ![l].rows = actual.rows]
  /\ UNCHANGED <<actual, seq, feed, mounted, shown, write, faults, heard, excused>>

\* The write this refresh belongs to resolves.
Resolve(l) == write' = IF loads[l].writes THEN NoWrite ELSE write

Landed(l) ==
  /\ loads' = [loads EXCEPT ![l] = NoLoad]
  /\ Resolve(l)
  /\ excused' = (loads[l].rows < heard)
  /\ UNCHANGED <<actual, seq, feed, mounted, faults, heard>>

\* Variant: the sessions on screen are kept.
Merge_exam_only(l) ==
  /\ loads[l].stage = "read"
  /\ shown' = [shown EXCEPT !.exam = loads[l].exam]
  /\ Landed(l)

Merge(l) ==
  /\ loads[l].stage = "read"
  /\ shown' = [exam |-> loads[l].exam, rows |-> loads[l].rows]
  /\ Landed(l)

\* A failed refresh leaves the last snapshot, silently, unless a write waits
\* for it: then the person is told that the write did not go through.
LoadFails(l) ==
  /\ loads[l] # NoLoad /\ Fault
  /\ loads' = [loads EXCEPT ![l] = NoLoad]
  /\ Resolve(l)
  /\ excused' = TRUE
  /\ UNCHANGED <<actual, seq, feed, mounted, shown, heard>>

(***************************************************************************)
(* Writes: live.ts. One at a time, as the screens disable their buttons.   *)
(***************************************************************************)

post ==
  /\ write = NoWrite
  /\ Transition(FALSE)
  /\ write' = [stage |-> "committed", change |-> Changes + 1]
  /\ UNCHANGED <<queue, socket, hello, retry, lastSeq, live, mounted, loads, shown, faults,
                 heard, excused>>

\* The answer does not reach the console, which says that it did not go
\* through. (A write that is refused changes nothing.)
PostFails ==
  /\ write.stage = "committed" /\ Fault
  /\ write' = NoWrite
  /\ UNCHANGED <<actual, seq, feed, mounted, loads, shown, heard, excused>>

\* Variant: a refresh that is already under way will do.
refreshExam_shared ==
  /\ write.stage = "committed"
  /\ \E l \in Loads : /\ loads[l] # NoLoad
                      /\ loads' = [loads EXCEPT ![l].writes = TRUE]
  /\ write' = [write EXCEPT !.stage = "loading"]
  /\ UNCHANGED <<actual, seq, feed, mounted, shown, faults, heard, excused>>

\* The answer is in, and the examination is read again.
refreshExam ==
  /\ write.stage = "committed"
  /\ Begin(TRUE)
  /\ write' = [write EXCEPT !.stage = "loading"]
  /\ UNCHANGED <<actual, seq, feed, mounted, shown, faults, heard, excused>>

Init ==
  /\ actual = [exam |-> 0, rows |-> 0] /\ seq = 0 /\ outbox = {}
  /\ queue = <<>> /\ socket = "down" /\ hello = NoFrame /\ retry = FALSE
  /\ lastSeq = -1 /\ live = FALSE /\ mounted = FALSE
  /\ loads = [l \in Loads |-> NoLoad]
  /\ shown = [exam |-> 0, rows |-> 0]
  /\ write = NoWrite /\ faults = 0 /\ heard = 0 /\ excused = FALSE

Loading(l) == ReadExam(l) \/ ReadRows(l) \/ Merge(l)

Next ==
  \/ \E again \in BOOLEAN : transition(again)
  \/ session_change
  \/ \E f \in outbox : fan_out(f) \/ publish_lost(f)
  \/ open \/ subscribe \/ _pump \/ Disconnect \/ enter \/ leave \/ poll
  \/ \E l \in Loads : Loading(l) \/ LoadFails(l)
  \/ post \/ PostFails \/ refreshExam

Spec == Init /\ [][Next]_vars

\* Timers fire and requests are answered.
Fairness ==
  /\ \A l \in Loads : WF_vars(Loading(l))
  /\ WF_vars(poll) /\ WF_vars(open)

FairSpec == Spec /\ Fairness

-----------------------------------------------------------------------------

Pair == [exam : Version, rows : Version]

TypeOK ==
  /\ actual \in Pair /\ seq \in Version /\ outbox \subseteq Frame
  /\ queue \in Seq(Frame) /\ Len(queue) <= QueueSize
  /\ socket \in {"down", "greeted", "open"} /\ hello \in Frame
  /\ retry \in BOOLEAN /\ lastSeq \in Version \cup {-1} /\ live \in BOOLEAN
  /\ mounted \in BOOLEAN
  /\ loads \in [Loads -> [stage : {"none", "exam", "rows", "read"}, exam : Version, rows : Version,
                          writes : BOOLEAN]]
  /\ shown \in Pair
  /\ write \in [stage : {"none", "committed", "loading"}, change : Version]
  /\ faults \in 0..MaxFaults /\ heard \in Version /\ excused \in BOOLEAN

Promise == INSTANCE MonitorPromise WITH watching <- mounted

\* The console never shows what the database did not agree to, nor a roster
\* older than the status above it, whichever refreshes overlap (live.ts,
\* realtime.ts: frames say that something changed, the snapshot says what).
KeepsPromise == Promise!Spec

\* A monitor that stays open catches up, whatever frames were lost or ignored,
\* and its indicator comes back, whenever the socket closed (monitor.tsx polls
\* whether or not the socket is up; realtime.ts, schedule).
Reconnects == <>[]mounted => <>[]live
CatchesUp == Promise!CatchesUp /\ Reconnects

\* When nothing is in flight the page shows at least what it has refetched
\* for: only a refresh that failed or came in late can have left it behind
\* (realtime.ts, onmessage).
HeardIsShown == (\A l \in Loads : loads[l] = NoLoad) /\ ~excused => shown.rows >= heard

\* A write that resolves without an error is on screen at that moment
\* (live.ts: each write posts, then reloads).
WriteShown ==
  [][write.stage = "loading" /\ write' = NoWrite /\ faults' = faults
       => shown'.exam >= write.change]_vars

=============================================================================

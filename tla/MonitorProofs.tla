---------------------------- MODULE MonitorProofs ----------------------------
(***************************************************************************)
(* MonitorFeed for every number of refreshes, queue size and bound: its    *)
(* type invariant, that the page shows what it refetched for, that a write *)
(* which resolves is on screen, and that it implements MonitorPromise.     *)
(***************************************************************************)
EXTENDS MonitorFeed, SequenceTheorems, TLAPS

-----------------------------------------------------------------------------
(* The inductive invariant.                                                *)

\* Nothing known to the console, or on its way to it, is ahead of the server;
\* a refresh that has read everything is not torn.
Order ==
  /\ seq <= actual.rows /\ actual.exam <= actual.rows
  /\ shown.exam <= shown.rows /\ shown.exam <= actual.exam /\ shown.rows <= actual.rows
  /\ hello.n <= actual.rows /\ heard <= actual.rows
  /\ \A f \in outbox : f.n <= actual.rows
  /\ \A i \in 1..Len(queue) : queue[i].n <= actual.rows
  /\ \A l \in Loads : /\ loads[l].exam <= actual.exam /\ loads[l].rows <= actual.rows
                      /\ loads[l].stage = "read" => loads[l].exam <= loads[l].rows

\* A refresh that will show what was heard of.
Catching(l) == \/ loads[l].stage \in {"exam", "rows"}
               \/ loads[l].stage = "read" /\ loads[l].rows >= heard

\* What was heard of is on screen, or on its way there.
Waits == ~excused => shown.rows >= heard \/ \E l \in Loads : Catching(l)

\* The refresh of a write is one, and reads the examination after the write.
Writes ==
  /\ write.stage # "none" => write.change <= actual.exam
  /\ \A l \in Loads : loads[l].writes =>
       /\ write.stage = "loading"
       /\ loads[l].stage \in {"rows", "read"} => loads[l].exam >= write.change
       /\ loads[l].stage # "none"
  /\ \A l, k \in Loads : loads[l].writes /\ loads[k].writes => l = k

IInv == TypeOK /\ Order /\ Waits /\ Writes

LoadRecord == [stage : {"none", "exam", "rows", "read"}, exam : Version, rows : Version,
               writes : BOOLEAN]

\* The type invariant in the three parts the provers take one at a time.
Flags == retry \in BOOLEAN /\ live \in BOOLEAN /\ mounted \in BOOLEAN /\ excused \in BOOLEAN
Numbers ==
  /\ actual \in Pair /\ seq \in Version /\ outbox \subseteq Frame
  /\ queue \in Seq(Frame) /\ Len(queue) <= QueueSize
  /\ socket \in {"down", "greeted", "open"} /\ hello \in Frame /\ lastSeq \in Version \cup {-1}
  /\ shown \in Pair
  /\ write \in [stage : {"none", "committed", "loading"}, change : Version]
  /\ faults \in 0..MaxFaults /\ heard \in Version
LoadsOK == loads \in [Loads -> LoadRecord]

\* The parts make up the type invariant.
LEMMA TypeParts == TypeOK <=> Flags /\ Numbers /\ LoadsOK
BY Zenon DEF TypeOK, Flags, Numbers, LoadsOK, LoadRecord

\* The same of the next state.
LEMMA InvFromParts ==
  ASSUME Flags', Numbers', LoadsOK', Order', Waits', Writes' PROVE IInv'
BY Zenon DEF IInv, TypeOK, Flags, Numbers, LoadsOK, LoadRecord

-----------------------------------------------------------------------------

\* The initial state of the console satisfies the invariant.
LEMMA InitIInv == Init => IInv
<1> SUFFICES ASSUME Init PROVE IInv OBVIOUS
<1>1. 0 \in Version /\ MaxFaults \in Nat /\ QueueSize \in Nat BY FeedAssumption DEF Version
<1>2. TypeOK
  <2>1. queue \in Seq(Frame) /\ Len(queue) = 0 BY DEF Init
  <2>2. Flags BY Zenon DEF Init, Flags
  <2>3. Numbers BY <1>1, <2>1 DEF Init, Numbers, Pair, Frame, NoFrame, NoWrite
  <2>4. LoadsOK
    <3>1. NoLoad \in LoadRecord BY <1>1 DEF NoLoad, LoadRecord
    <3> QED BY <3>1 DEF Init, LoadsOK
  <2> QED BY <2>2, <2>3, <2>4, TypeParts
<1>3. Order BY DEF Init, Order, NoFrame, NoLoad
<1>4. Waits BY DEF Init, Waits
<1>5. Writes BY DEF Init, Writes, NoLoad, NoWrite
<1> QED BY <1>2, <1>3, <1>4, <1>5 DEF IInv

-----------------------------------------------------------------------------
(* One lemma per group of actions.                                         *)

\* Waits, Writes and the type of the refreshes only speak of these variables.
LEMMA Untouched ==
  ASSUME IInv, UNCHANGED <<actual, shown, loads, write, heard, excused>>
  PROVE  LoadsOK' /\ Waits' /\ Writes'
<1>1. LoadsOK' BY TypeParts DEF IInv, LoadsOK, LoadRecord
<1>2. Waits' BY DEF IInv, Waits, Catching
<1>3. Writes' BY DEF IInv, Writes
<1> QED BY <1>1, <1>2, <1>3

\* The connection: nothing but the feed moves.
LEMMA ConnectionSteps ==
  ASSUME IInv, open \/ Disconnect \/ enter \/ leave
  PROVE  IInv'
<1>1. UNCHANGED <<actual, seq, outbox, loads, shown, write, heard, excused>>
  BY Zenon DEF open, Disconnect, enter, leave
<1>2. LoadsOK' /\ Waits' /\ Writes' BY <1>1, Untouched
<1>3. Flags /\ Numbers /\ Order BY TypeParts DEF IInv
<1>4. Flags' BY <1>3, Zenon DEF Flags, open, Disconnect, onclose, enter, leave
<1>5. /\ queue' = queue \/ queue' = <<>>
      /\ hello' \in {hello, NoFrame, [n |-> actual.rows, seq |-> seq]}
      /\ lastSeq' = lastSeq \/ lastSeq' = -1
      /\ socket' \in {socket, "down", "greeted"}
      /\ faults' = faults \/ (faults < MaxFaults /\ faults' = faults + 1)
  BY DEF open, Disconnect, Fault, onclose, enter, leave
<1>6. Numbers'
  <2>1. 0 \in Version /\ MaxFaults \in Nat /\ QueueSize \in Nat BY FeedAssumption DEF Version
  <2>2. hello' \in Frame BY <1>3, <1>5, <2>1 DEF Numbers, Pair, Frame, NoFrame
  <2>3. queue' \in Seq(Frame) /\ Len(queue') <= QueueSize
    <3>1. <<>> \in Seq(Frame) /\ Len(<<>>) = 0 OBVIOUS
    <3>2. CASE queue' = queue BY <1>3, <3>2 DEF Numbers
    <3>3. CASE queue' = <<>> BY <2>1, <3>1, <3>3
    <3> QED BY <1>5, <3>2, <3>3
  <2>4. faults' \in 0..MaxFaults BY <1>3, <1>5, <2>1 DEF Numbers
  <2> QED BY <1>1, <1>3, <1>5, <2>2, <2>3, <2>4 DEF Numbers, Pair, Frame
<1>7. Order'
  <2>1. hello'.n <= actual.rows
    BY <1>3, <1>5, FeedAssumption DEF Order, Numbers, Pair, Frame, NoFrame, Version
  <2>2. \A i \in 1..Len(queue') : queue'[i].n <= actual.rows BY <1>3, <1>5 DEF Order
  <2> QED BY <1>1, <1>3, <2>1, <2>2 DEF Order
<1> QED BY <1>2, <1>4, <1>6, <1>7, InvFromParts

\* Frames on their way out.
LEMMA FrameSteps ==
  ASSUME IInv, NEW f \in outbox, fan_out(f) \/ publish_lost(f)
  PROVE  IInv'
<1>1. UNCHANGED <<actual, seq, socket, hello, retry, lastSeq, live, mounted, loads, shown, write,
                  heard, excused>>
  BY Zenon DEF fan_out, publish_lost, Published
<1>2. LoadsOK' /\ Waits' /\ Writes' BY <1>1, Untouched
<1>3. Flags /\ Numbers /\ Order BY TypeParts DEF IInv
<1>4. Flags' BY <1>1, <1>3, Zenon DEF Flags
<1>5. /\ outbox' = outbox \ {f}
      /\ queue' = queue \/ (Len(queue) < QueueSize /\ queue' = Append(queue, f))
      /\ faults' = faults \/ (faults < MaxFaults /\ faults' = faults + 1)
  BY DEF fan_out, publish_lost, Published, Fault
<1>6. f \in Frame /\ f.n <= actual.rows BY <1>3 DEF Numbers, Order
<1>7. /\ queue' \in Seq(Frame) /\ Len(queue') <= QueueSize
      /\ \A i \in 1..Len(queue') : queue'[i].n <= actual.rows
  <2>1. CASE queue' = queue BY <1>3, <2>1 DEF Numbers, Order
  <2>2. CASE Len(queue) < QueueSize /\ queue' = Append(queue, f)
    <3>1. queue \in Seq(Frame) BY <1>3 DEF Numbers
    <3>2. queue' \in Seq(Frame) /\ Len(queue') = Len(queue) + 1
      BY <1>6, <2>2, <3>1, AppendProperties
    <3>3. \A i \in 1..Len(queue') : queue'[i] = IF i = Len(queue) + 1 THEN f ELSE queue[i]
      BY <1>6, <2>2, <3>1, <3>2, AppendProperties
    <3>4. Len(queue) \in Nat BY <3>1
    <3>5. Len(queue') <= QueueSize BY <2>2, <3>2, <3>4, FeedAssumption
    <3>6. ASSUME NEW i \in 1..Len(queue') PROVE queue'[i].n <= actual.rows
      <4>1. CASE i = Len(queue) + 1 BY <1>6, <3>3, <4>1
      <4>2. CASE i # Len(queue) + 1
        <5>1. i \in 1..Len(queue) BY <3>2, <3>4, <4>2
        <5> QED BY <1>3, <3>3, <4>2, <5>1 DEF Order
      <4> QED BY <4>1, <4>2
    <3> QED BY <3>2, <3>5, <3>6
  <2> QED BY <1>5, <2>1, <2>2
<1>8. Numbers'
  <2>1. faults' \in 0..MaxFaults BY <1>3, <1>5, FeedAssumption DEF Numbers
  <2> QED BY <1>1, <1>3, <1>5, <1>7, <2>1 DEF Numbers, Pair, Frame
<1>9. Order' BY <1>1, <1>3, <1>5, <1>7 DEF Order
<1> QED BY <1>2, <1>4, <1>8, <1>9, InvFromParts

-----------------------------------------------------------------------------
(* The refreshes.                                                          *)

\* A refresh begins: it has read nothing yet.
LEMMA BeginStep ==
  ASSUME IInv, NEW w \in BOOLEAN, Begin(w), UNCHANGED <<actual, shown>>,
         heard' \in Version, heard' <= actual.rows,
         excused' = excused, w => write.stage = "committed",
         IF w THEN write' = [write EXCEPT !.stage = "loading"] ELSE write' = write
  PROVE  /\ LoadsOK' /\ Waits' /\ Writes'
         /\ \A l \in Loads : /\ loads'[l].exam <= actual.exam /\ loads'[l].rows <= actual.rows
                             /\ loads'[l].stage = "read" => loads'[l].exam <= loads'[l].rows
<1> DEFINE new == [NoLoad EXCEPT !.stage = "exam", !.writes = w]
<1>1. PICK l \in Loads : loads[l] = NoLoad /\ loads' = [loads EXCEPT ![l] = new]
  BY DEF Begin
<1>2. LoadsOK /\ Numbers /\ Order /\ Waits /\ Writes BY TypeParts DEF IInv
<1>3. new \in LoadRecord /\ new.stage = "exam" /\ new.exam = 0 /\ new.rows = 0 /\ new.writes = w
  <2>1. 0 \in Version BY FeedAssumption DEF Version
  <2>2. CASE w = TRUE BY <2>1, <2>2 DEF NoLoad, LoadRecord
  <2>3. CASE w = FALSE BY <2>1, <2>3 DEF NoLoad, LoadRecord
  <2> QED BY <2>2, <2>3
<1> HIDE DEF new
<1>4. loads'[l] = new /\ \A k \in Loads : k # l => loads'[k] = loads[k]
  BY <1>1, <1>2 DEF LoadsOK
<1>5. LoadsOK' BY <1>1, <1>2, <1>3 DEF LoadsOK, LoadRecord, Version
<1>6. Waits' BY <1>3, <1>4 DEF Waits, Catching
<1>7. Writes'
  <2>1. CASE w
    <3>1. \A k \in Loads : ~loads[k].writes BY <1>2, <2>1 DEF Writes
    <3>2. write' = [write EXCEPT !.stage = "loading"] BY <2>1
    <3>3. write'.stage = "loading" /\ write'.change = write.change
      BY <1>2, <3>2 DEF Numbers
    <3>4. write.change <= actual.exam BY <1>2, <2>1 DEF Writes
    <3> QED BY <1>3, <1>4, <3>1, <3>3, <3>4 DEF Writes
  <2>2. CASE ~w
    <3>1. write' = write BY <2>2
    <3> QED BY <1>2, <1>3, <1>4, <2>2, <3>1 DEF Writes
  <2> QED BY <2>1, <2>2
<1>8. ASSUME NEW k \in Loads
      PROVE /\ loads'[k].exam <= actual.exam /\ loads'[k].rows <= actual.rows
            /\ loads'[k].stage = "read" => loads'[k].exam <= loads'[k].rows
  <2>1. CASE k = l
    <3>1. actual.exam \in Nat /\ actual.rows \in Nat
      BY <1>2, FeedAssumption DEF Numbers, Pair, Version
    <3>2. loads'[k].exam = 0 /\ loads'[k].rows = 0 /\ loads'[k].stage = "exam"
      BY <1>3, <1>4, <2>1
    <3> QED BY <3>1, <3>2
  <2>2. CASE k # l BY <1>2, <1>4, <2>2 DEF Order
  <2> QED BY <2>1, <2>2
<1> QED BY <1>5, <1>6, <1>7, <1>8

\* The poll, and the refresh after a write.
LEMMA RefreshSteps ==
  ASSUME IInv, poll \/ refreshExam
  PROVE  IInv'
<1>1. UNCHANGED <<actual, seq, outbox, queue, socket, hello, retry, lastSeq, live, mounted, shown,
                  faults, heard, excused>>
  BY Zenon DEF poll, refreshExam, feed
<1>2. Flags /\ Numbers /\ Order BY TypeParts DEF IInv
<1>3. Flags' BY <1>1, <1>2, Zenon DEF Flags
<1>4. heard' \in Version /\ heard' <= actual.rows BY <1>1, <1>2 DEF Numbers, Order
<1>5. PICK w \in BOOLEAN :
        /\ Begin(w) /\ (w => write.stage = "committed")
        /\ IF w THEN write' = [write EXCEPT !.stage = "loading"] ELSE write' = write
  <2>1. CASE poll
    <3>1. Begin(FALSE) /\ write' = write BY <2>1, Zenon DEF poll
    <3> QED BY <3>1
  <2>2. CASE refreshExam
    <3>1. Begin(TRUE) /\ write.stage = "committed" /\ write' = [write EXCEPT !.stage = "loading"]
      BY <2>2, Zenon DEF refreshExam
    <3> QED BY <3>1
  <2> QED BY <2>1, <2>2
<1>6. /\ LoadsOK' /\ Waits' /\ Writes'
      /\ \A l \in Loads : /\ loads'[l].exam <= actual.exam /\ loads'[l].rows <= actual.rows
                          /\ loads'[l].stage = "read" => loads'[l].exam <= loads'[l].rows
  BY <1>1, <1>4, <1>5, BeginStep
<1>7. Numbers'
  <2>1. write' \in [stage : {"none", "committed", "loading"}, change : Version]
    BY <1>2, <1>5 DEF Numbers
  <2> QED BY <1>1, <1>2, <2>1 DEF Numbers, Pair, Frame
<1>8. Order' BY <1>1, <1>2, <1>6 DEF Order
<1> QED BY <1>3, <1>6, <1>7, <1>8, InvFromParts

\* A refresh reads the examination, then the roster.
LEMMA ReadSteps ==
  ASSUME IInv, NEW l \in Loads, ReadExam(l) \/ ReadRows(l)
  PROVE  IInv'
<1>1. UNCHANGED <<actual, seq, outbox, queue, socket, hello, retry, lastSeq, live, mounted, shown,
                  write, faults, heard, excused>>
  BY Zenon DEF ReadExam, ReadRows, feed
<1>2. Flags /\ Numbers /\ LoadsOK /\ Order /\ Waits /\ Writes BY TypeParts DEF IInv
<1>3. Flags' BY <1>1, <1>2, Zenon DEF Flags
<1>4. Numbers' BY <1>1, <1>2 DEF Numbers, Pair, Frame
<1>5. actual.exam \in Version /\ actual.rows \in Version BY <1>2 DEF Numbers, Pair
<1>6. loads[l] \in LoadRecord BY <1>2 DEF LoadsOK
<1>7. /\ loads'[l].writes = loads[l].writes
      /\ loads'[l] \in LoadRecord
      /\ loads' = [loads EXCEPT ![l] = loads'[l]]
      /\ \A k \in Loads : k # l => loads'[k] = loads[k]
      /\ \/ /\ loads[l].stage = "exam" /\ loads'[l].stage = "rows"
            /\ loads'[l].exam = actual.exam /\ loads'[l].rows = loads[l].rows
         \/ /\ loads[l].stage = "rows" /\ loads'[l].stage = "read"
            /\ loads'[l].exam = loads[l].exam /\ loads'[l].rows = actual.rows
  BY <1>2, <1>5, <1>6 DEF ReadExam, ReadRows, LoadsOK, LoadRecord
<1>8. LoadsOK' BY <1>2, <1>7 DEF LoadsOK, LoadRecord, Version
<1>9. Order'
  <2>1. actual.exam \in Nat /\ actual.rows \in Nat
    BY <1>5, FeedAssumption DEF Version
  <2>2. ASSUME NEW k \in Loads
        PROVE /\ loads'[k].exam <= actual.exam /\ loads'[k].rows <= actual.rows
              /\ loads'[k].stage = "read" => loads'[k].exam <= loads'[k].rows
    <3>1. CASE k # l BY <1>2, <1>7, <3>1 DEF Order
    <3>2. CASE k = l
      <4>1. loads[l].exam \in Nat /\ loads[l].rows \in Nat
        BY <1>6, FeedAssumption DEF LoadRecord, Version
      <4> QED BY <1>2, <1>7, <2>1, <3>2, <4>1 DEF Order
    <3> QED BY <3>1, <3>2
  <2> QED BY <1>1, <1>2, <2>2 DEF Order
<1>10. Waits' BY <1>1, <1>2, <1>7 DEF Waits, Catching, Order
<1>11. Writes' BY <1>1, <1>2, <1>7 DEF Writes
<1> QED BY <1>3, <1>4, <1>8, <1>9, <1>10, <1>11, InvFromParts

\* A refresh lands or fails, and with it the write that waited for it.
LEMMA EndSteps ==
  ASSUME IInv, NEW l \in Loads, Merge(l) \/ LoadFails(l)
  PROVE  IInv'
<1>1. UNCHANGED <<actual, seq, outbox, queue, socket, hello, retry, lastSeq, live, mounted, heard>>
  BY Zenon DEF Merge, Landed, LoadFails, feed
<1>2. Flags /\ Numbers /\ LoadsOK /\ Order /\ Waits /\ Writes BY TypeParts DEF IInv
<1>3. excused' \in BOOLEAN
  <2>1. CASE Merge(l)
    <3>1. excused' = (loads[l].rows < heard) BY <2>1, Zenon DEF Merge, Landed
    <3>2. (loads[l].rows < heard) \in BOOLEAN OBVIOUS
    <3> QED BY <3>1, <3>2, Zenon
  <2>2. CASE LoadFails(l) BY <2>2, Zenon DEF LoadFails
  <2> QED BY <2>1, <2>2
<1>4. Flags' BY <1>1, <1>2, <1>3, Zenon DEF Flags
<1>5. loads[l] \in LoadRecord BY <1>2 DEF LoadsOK
<1>6. loads' = [loads EXCEPT ![l] = NoLoad] /\ loads[l] # NoLoad
  BY DEF Merge, Landed, LoadFails, NoLoad
<1>7. loads'[l] = NoLoad /\ \A k \in Loads : k # l => loads'[k] = loads[k]
  BY <1>2, <1>6 DEF LoadsOK
<1>8. write' = IF loads[l].writes THEN NoWrite ELSE write
  BY Zenon DEF Merge, Landed, LoadFails, Resolve
<1>9. \/ /\ loads[l].stage = "read" /\ shown' = [exam |-> loads[l].exam, rows |-> loads[l].rows]
         /\ faults' = faults /\ excused' = (loads[l].rows < heard)
      \/ shown' = shown /\ faults < MaxFaults /\ faults' = faults + 1 /\ excused' = TRUE
  BY Zenon DEF Merge, Landed, LoadFails, Fault
<1>10. 0 \in Version BY FeedAssumption DEF Version
<1>11. LoadsOK'
  <2>1. NoLoad \in LoadRecord BY <1>10 DEF NoLoad, LoadRecord
  <2> QED BY <1>2, <1>6, <2>1 DEF LoadsOK, LoadRecord, Version
<1>12. Numbers'
  <2>1. write' \in [stage : {"none", "committed", "loading"}, change : Version]
    BY <1>2, <1>8, <1>10 DEF Numbers, NoWrite
  <2>2. shown' \in Pair BY <1>2, <1>5, <1>9 DEF Numbers, Pair, LoadRecord
  <2>3. faults' \in 0..MaxFaults BY <1>2, <1>9, FeedAssumption DEF Numbers
  <2> QED BY <1>1, <1>2, <2>1, <2>2, <2>3 DEF Numbers, Pair, Frame
<1>13. Order'
  <2>1. /\ shown'.exam <= shown'.rows /\ shown'.exam <= actual.exam
        /\ shown'.rows <= actual.rows
    BY <1>2, <1>9 DEF Order
  <2>2. ASSUME NEW k \in Loads
        PROVE /\ loads'[k].exam <= actual.exam /\ loads'[k].rows <= actual.rows
              /\ loads'[k].stage = "read" => loads'[k].exam <= loads'[k].rows
    <3>1. CASE k # l BY <1>2, <1>7, <3>1 DEF Order
    <3>2. CASE k = l
      BY <1>2, <1>7, <3>2, FeedAssumption DEF NoLoad, Numbers, Pair, Version
    <3> QED BY <3>1, <3>2
  <2> QED BY <1>1, <1>2, <2>1, <2>2 DEF Order
<1>14. Waits'
  <2>1. CASE excused' = TRUE BY <2>1 DEF Waits
  <2>2. CASE excused' = (loads[l].rows < heard) /\ shown' = [exam |-> loads[l].exam, rows |-> loads[l].rows]
    <3>1. loads[l].rows \in Nat /\ heard \in Nat
      BY <1>2, <1>5, FeedAssumption DEF LoadRecord, Numbers, Version
    <3>2. CASE loads[l].rows < heard BY <2>2, <3>2 DEF Waits
    <3>3. CASE ~(loads[l].rows < heard)
      <4>1. shown'.rows >= heard' BY <1>1, <2>2, <3>1, <3>3
      <4> QED BY <4>1 DEF Waits
    <3> QED BY <3>2, <3>3
  <2> QED BY <1>9, <2>1, <2>2
<1>15. Writes'
  <2>1. CASE loads[l].writes
    <3>1. \A k \in Loads : ~loads'[k].writes BY <1>2, <1>7, <2>1 DEF Writes, NoLoad
    <3>2. write'.stage = "none" BY <1>8, <2>1 DEF NoWrite
    <3> QED BY <3>1, <3>2 DEF Writes
  <2>2. CASE ~loads[l].writes
    <3>1. write' = write BY <1>8, <2>2
    <3> QED BY <1>1, <1>2, <1>7, <3>1 DEF Writes, NoLoad
  <2> QED BY <2>1, <2>2
<1> QED BY <1>4, <1>11, <1>12, <1>13, <1>14, <1>15, InvFromParts

-----------------------------------------------------------------------------
(* Frames that arrive.                                                     *)

\* A frame that is ignored, or that starts a refresh.
LEMMA MessageStep ==
  ASSUME IInv, NEW f \in Frame, f.n <= actual.rows, onmessage(f),
         UNCHANGED <<actual, shown, write, excused>>
  PROVE  /\ LoadsOK' /\ Waits' /\ Writes'
         /\ lastSeq' \in Version \cup {-1} /\ heard' \in Version /\ heard' <= actual.rows
         /\ \A l \in Loads : /\ loads'[l].exam <= actual.exam /\ loads'[l].rows <= actual.rows
                             /\ loads'[l].stage = "read" => loads'[l].exam <= loads'[l].rows
<1>1. Numbers /\ Order BY TypeParts DEF IInv
<1>2. heard \in Version /\ heard <= actual.rows /\ lastSeq \in Version \cup {-1}
  BY <1>1 DEF Numbers, Order
<1>3. f.n \in Version /\ f.seq \in Version BY DEF Frame
<1>4. CASE f.seq <= lastSeq
  <2>1. UNCHANGED <<lastSeq, heard, loads>> BY <1>4 DEF onmessage
  <2>2. LoadsOK' /\ Waits' /\ Writes' BY <2>1, Untouched
  <2> QED BY <1>1, <1>2, <2>1, <2>2 DEF Order
<1>5. CASE ~(f.seq <= lastSeq)
  <2>1. lastSeq' = f.seq /\ heard' = Larger(heard, f.n) /\ Begin(FALSE)
    BY <1>5 DEF onmessage
  <2>2. heard' \in Version /\ heard' <= actual.rows BY <1>2, <1>3, <2>1 DEF Larger
  <2>3. /\ LoadsOK' /\ Waits' /\ Writes'
        /\ \A l \in Loads : /\ loads'[l].exam <= actual.exam /\ loads'[l].rows <= actual.rows
                            /\ loads'[l].stage = "read" => loads'[l].exam <= loads'[l].rows
    BY <2>1, <2>2, BeginStep
  <2> QED BY <1>3, <2>1, <2>2, <2>3
<1> QED BY <1>4, <1>5

\* The HELLO and the frames of the queue.
LEMMA MessageSteps ==
  ASSUME IInv, subscribe \/ _pump
  PROVE  IInv'
<1>1. UNCHANGED <<actual, seq, outbox, retry, live, mounted, shown, write, faults, excused>>
  BY Zenon DEF subscribe, _pump
<1>2. Flags /\ Numbers /\ Order BY TypeParts DEF IInv
<1>3. Flags' BY <1>1, <1>2, Zenon DEF Flags
<1>4. PICK f \in Frame : f.n <= actual.rows /\ onmessage(f)
  <2>1. CASE subscribe
    <3>1. hello \in Frame /\ hello.n <= actual.rows BY <1>2 DEF Numbers, Order
    <3>2. onmessage(hello) BY <2>1, Zenon DEF subscribe
    <3> QED BY <3>1, <3>2
  <2>2. CASE _pump
    <3>1. onmessage(Head(queue)) /\ queue # <<>> BY <2>2, Zenon DEF _pump
    <3>2. queue \in Seq(Frame) BY <1>2 DEF Numbers
    <3>3. Head(queue) = queue[1] /\ 1 \in 1..Len(queue) /\ queue[1] \in Frame
      BY <3>1, <3>2, HeadTailProperties, EmptySeq
    <3>4. Head(queue).n <= actual.rows BY <1>2, <3>3 DEF Order
    <3> QED BY <3>1, <3>3, <3>4
  <2> QED BY <2>1, <2>2
<1>5. /\ LoadsOK' /\ Waits' /\ Writes'
      /\ lastSeq' \in Version \cup {-1} /\ heard' \in Version /\ heard' <= actual.rows
      /\ \A l \in Loads : /\ loads'[l].exam <= actual.exam /\ loads'[l].rows <= actual.rows
                          /\ loads'[l].stage = "read" => loads'[l].exam <= loads'[l].rows
  BY <1>1, <1>4, MessageStep
<1>6. /\ queue' \in Seq(Frame) /\ Len(queue') <= QueueSize
      /\ \A i \in 1..Len(queue') : queue'[i].n <= actual.rows
  <2>1. CASE subscribe
    <3>1. queue' = <<>> BY <2>1, Zenon DEF subscribe
    <3>2. <<>> \in Seq(Frame) /\ Len(<<>>) = 0 OBVIOUS
    <3> QED BY <3>1, <3>2, FeedAssumption
  <2>2. CASE _pump
    <3>1. queue' = Tail(queue) /\ queue # <<>> BY <2>2, Zenon DEF _pump
    <3>2. queue \in Seq(Frame) /\ Len(queue) <= QueueSize BY <1>2 DEF Numbers
    <3>3. /\ Tail(queue) \in Seq(Frame) /\ Len(Tail(queue)) = Len(queue) - 1
          /\ \A i \in 1..Len(Tail(queue)) : Tail(queue)[i] = queue[i + 1]
      BY <3>1, <3>2, HeadTailProperties
    <3>4. Len(queue) \in Nat BY <3>2
    <3>5. \A i \in 1..Len(Tail(queue)) : i + 1 \in 1..Len(queue) BY <3>3, <3>4
    <3>6. Len(queue') <= QueueSize BY <3>1, <3>2, <3>3, <3>4, FeedAssumption
    <3>7. \A i \in 1..Len(queue) : queue[i].n <= actual.rows BY <1>2 DEF Order
    <3> QED BY <3>1, <3>3, <3>5, <3>6, <3>7
  <2> QED BY <2>1, <2>2
<1>7. /\ hello' \in Frame /\ hello'.n <= actual.rows
      /\ socket' \in {"down", "greeted", "open"}
  <2>1. NoFrame \in Frame /\ NoFrame.n <= actual.rows
    BY <1>2, FeedAssumption DEF NoFrame, Frame, Version, Numbers, Pair
  <2>2. (hello' = NoFrame \/ hello' = hello) /\ socket' \in {socket, "open"}
    BY DEF subscribe, _pump
  <2> QED BY <1>2, <2>1, <2>2 DEF Numbers, Order
<1>8. Numbers' BY <1>1, <1>2, <1>5, <1>6, <1>7 DEF Numbers, Pair, Frame
<1>9. Order' BY <1>1, <1>2, <1>5, <1>6, <1>7 DEF Order
<1> QED BY <1>3, <1>5, <1>8, <1>9, InvFromParts

-----------------------------------------------------------------------------
(* The server.                                                             *)

\* A change only moves the server ahead of what is known of it.
LEMMA ServerSteps ==
  ASSUME IInv, (\E again \in BOOLEAN : transition(again)) \/ session_change \/ post
  PROVE  IInv'
<1>1. UNCHANGED <<queue, socket, hello, retry, lastSeq, live, mounted, loads, shown, faults, heard,
                  excused>>
  BY Zenon DEF transition, session_change, post
<1>2. Flags /\ Numbers /\ LoadsOK /\ Order /\ Waits /\ Writes BY TypeParts DEF IInv
<1>3. Flags' BY <1>1, <1>2, Zenon DEF Flags
<1>4. LoadsOK' BY <1>1, <1>2 DEF LoadsOK, LoadRecord
<1>5. Waits' BY <1>1, <1>2 DEF Waits, Catching
<1>6. /\ actual.exam \in Nat /\ actual.rows \in Nat /\ actual.rows <= MaxChanges
      /\ seq \in Nat /\ MaxChanges \in Nat
  BY <1>2, FeedAssumption DEF Numbers, Pair, Version
<1>7. /\ actual.rows < MaxChanges /\ actual' \in Pair /\ actual'.rows = actual.rows + 1
      /\ actual'.exam \in {actual.exam, actual.rows + 1}
      /\ seq' = seq \/ seq' = seq + 1
      /\ outbox' = outbox \cup {[n |-> actual.rows + 1, seq |-> seq']}
  <2>1. CASE session_change
    <3>1. /\ actual.rows < MaxChanges /\ actual' = [actual EXCEPT !.rows = actual.rows + 1]
          /\ outbox' = outbox \cup {[n |-> actual.rows + 1, seq |-> seq]} /\ seq' = seq
      BY <2>1 DEF session_change, Changes
    <3> QED BY <1>2, <1>6, <3>1 DEF Numbers, Pair, Version
  <2>2. ASSUME NEW again \in BOOLEAN, Transition(again)
        PROVE  /\ actual.rows < MaxChanges /\ actual' \in Pair /\ actual'.rows = actual.rows + 1
               /\ actual'.exam \in {actual.exam, actual.rows + 1}
               /\ seq' = seq \/ seq' = seq + 1
               /\ outbox' = outbox \cup {[n |-> actual.rows + 1, seq |-> seq']}
    BY <1>6, <2>2 DEF Transition, Changes, Pair, Version
  <2>3. CASE post BY <2>2, <2>3 DEF post
  <2>4. CASE \E again \in BOOLEAN : transition(again) BY <2>2, <2>4 DEF transition
  <2> QED BY <2>1, <2>3, <2>4
<1>8. seq' \in Version /\ seq' <= actual.rows + 1
  BY <1>2, <1>6, <1>7 DEF Order, Version
<1>9. \/ write' = write
      \/ /\ write = NoWrite /\ actual'.exam = actual.rows + 1
         /\ write' = [stage |-> "committed", change |-> actual.rows + 1]
  <2>1. CASE post
    <3>1. /\ write = NoWrite /\ actual' = [exam |-> actual.rows + 1, rows |-> actual.rows + 1]
          /\ write' = [stage |-> "committed", change |-> actual.rows + 1]
      BY <2>1 DEF post, Transition, Changes
    <3> QED BY <3>1
  <2>2. CASE ~post BY <2>2, Zenon DEF transition, session_change
  <2> QED BY <2>1, <2>2
<1>10. Numbers'
  <2>1. outbox' \subseteq Frame
    BY <1>2, <1>6, <1>7, <1>8 DEF Numbers, Frame, Version
  <2>2. write' \in [stage : {"none", "committed", "loading"}, change : Version]
    BY <1>2, <1>6, <1>7, <1>9 DEF Numbers, Version
  <2> QED BY <1>1, <1>2, <1>7, <1>8, <2>1, <2>2 DEF Numbers, Frame, Pair
<1>11. Order'
  <2>1. actual.exam <= actual'.exam /\ actual.rows <= actual'.rows /\ actual'.exam <= actual'.rows
    BY <1>2, <1>6, <1>7 DEF Order
  <2>2. /\ shown.exam \in Nat /\ shown.rows \in Nat /\ hello.n \in Nat /\ heard \in Nat
        /\ actual'.exam \in Nat /\ actual'.rows \in Nat
    BY <1>2, <1>6, <1>7, FeedAssumption DEF Numbers, Pair, Frame, Version
  <2>3. ASSUME NEW f \in outbox' PROVE f.n <= actual'.rows
    <3>1. CASE f \in outbox
      <4>1. f.n \in Nat BY <1>2, <3>1, FeedAssumption DEF Numbers, Frame, Version
      <4> QED BY <1>2, <1>6, <1>7, <3>1, <4>1 DEF Order
    <3>2. CASE f = [n |-> actual.rows + 1, seq |-> seq'] BY <1>6, <1>7, <3>2
    <3> QED BY <1>7, <3>1, <3>2
  <2>4. ASSUME NEW i \in 1..Len(queue) PROVE queue[i].n <= actual'.rows
    <3>1. queue[i] \in Frame BY <1>2 DEF Numbers
    <3>2. queue[i].n \in Nat BY <3>1, FeedAssumption DEF Frame, Version
    <3> QED BY <1>2, <1>6, <1>7, <3>2 DEF Order
  <2>5. ASSUME NEW l \in Loads
        PROVE /\ loads[l].exam <= actual'.exam /\ loads[l].rows <= actual'.rows
              /\ loads[l].stage = "read" => loads[l].exam <= loads[l].rows
    <3>1. loads[l].exam \in Nat /\ loads[l].rows \in Nat
      BY <1>2, FeedAssumption DEF LoadsOK, LoadRecord, Version
    <3> QED BY <1>2, <1>6, <2>1, <2>2, <3>1 DEF Order
  <2> QED BY <1>1, <1>2, <1>6, <1>7, <1>8, <2>1, <2>2, <2>3, <2>4, <2>5 DEF Order
<1>12. Writes'
  <2>1. CASE write' = write
    <3>1. write.change \in Nat BY <1>2, FeedAssumption DEF Numbers, Version
    <3>2. actual.exam <= actual'.exam BY <1>2, <1>6, <1>7 DEF Order
    <3> QED BY <1>1, <1>2, <1>6, <1>7, <2>1, <3>1, <3>2 DEF Writes
  <2>2. CASE /\ write = NoWrite /\ actual'.exam = actual.rows + 1
             /\ write' = [stage |-> "committed", change |-> actual.rows + 1]
    <3>1. \A l \in Loads : ~loads[l].writes BY <1>2, <2>2 DEF Writes, NoWrite
    <3> QED BY <1>1, <1>6, <2>2, <3>1 DEF Writes
  <2> QED BY <1>9, <2>1, <2>2
<1> QED BY <1>3, <1>4, <1>5, <1>10, <1>11, <1>12, InvFromParts

\* The answer of a write is lost.
LEMMA PostFailsStep ==
  ASSUME IInv, PostFails
  PROVE  IInv'
<1>1. UNCHANGED <<actual, seq, outbox, queue, socket, hello, retry, lastSeq, live, mounted, loads,
                  shown, heard, excused>>
  BY Zenon DEF PostFails, feed
<1>2. Flags /\ Numbers /\ LoadsOK /\ Order /\ Waits /\ Writes BY TypeParts DEF IInv
<1>3. Flags' BY <1>1, <1>2, Zenon DEF Flags
<1>4. LoadsOK' BY <1>1, <1>2 DEF LoadsOK, LoadRecord
<1>5. /\ write.stage = "committed" /\ write' = NoWrite /\ faults < MaxFaults
      /\ faults' = faults + 1
  BY DEF PostFails, Fault
<1>6. Numbers'
  <2>1. write' \in [stage : {"none", "committed", "loading"}, change : Version]
    BY <1>5, FeedAssumption DEF NoWrite, Version
  <2>2. faults' \in 0..MaxFaults BY <1>2, <1>5, FeedAssumption DEF Numbers
  <2> QED BY <1>1, <1>2, <2>1, <2>2 DEF Numbers, Pair, Frame
<1>7. Order' BY <1>1, <1>2 DEF Order
<1>8. Waits' BY <1>1, <1>2 DEF Waits, Catching
<1>9. Writes'
  <2>1. \A l \in Loads : ~loads[l].writes BY <1>2, <1>5 DEF Writes
  <2> QED BY <1>1, <1>5, <2>1 DEF Writes, NoWrite
<1> QED BY <1>3, <1>4, <1>6, <1>7, <1>8, <1>9, InvFromParts

-----------------------------------------------------------------------------
(* The theorems.                                                           *)

\* Every step of the console and of the server keeps the invariant.
LEMMA NextIInv == IInv /\ [Next]_vars => IInv'
<1> SUFFICES ASSUME IInv, [Next]_vars PROVE IInv' OBVIOUS
<1>1. CASE (\E again \in BOOLEAN : transition(again)) \/ session_change \/ post
  BY <1>1, ServerSteps
<1>2. CASE \E f \in outbox : fan_out(f) \/ publish_lost(f) BY <1>2, FrameSteps
<1>3. CASE open \/ Disconnect \/ enter \/ leave BY <1>3, ConnectionSteps
<1>4. CASE subscribe \/ _pump BY <1>4, MessageSteps
<1>5. CASE poll \/ refreshExam BY <1>5, RefreshSteps
<1>6. CASE \E l \in Loads : ReadExam(l) \/ ReadRows(l) BY <1>6, ReadSteps
<1>7. CASE \E l \in Loads : Merge(l) \/ LoadFails(l) BY <1>7, EndSteps
<1>8. CASE PostFails BY <1>8, PostFailsStep
<1>9. CASE UNCHANGED vars
  <2>1. UNCHANGED <<actual, seq, outbox, queue, socket, hello, retry, lastSeq, live, mounted, loads,
                    shown, write, faults, heard, excused>>
    BY <1>9, Zenon DEF vars, feed
  <2>2. Flags /\ Numbers /\ Order BY TypeParts DEF IInv
  <2>3. Flags' BY <2>1, <2>2, Zenon DEF Flags
  <2>4. Numbers' BY <2>1, <2>2 DEF Numbers, Pair, Frame
  <2>5. Order' BY <2>1, <2>2 DEF Order
  <2>6. LoadsOK' /\ Waits' /\ Writes' BY <2>1, Untouched
  <2> QED BY <2>3, <2>4, <2>5, <2>6, InvFromParts
<1> QED BY <1>1, <1>2, <1>3, <1>4, <1>5, <1>6, <1>7, <1>8, <1>9, Zenon DEF Next, Loading

\* The invariant holds throughout.
THEOREM FeedInvariant == Spec => []IInv
BY InitIInv, NextIInv, PTL DEF Spec

\* The types of the feed, the queue's limit included, for every number of
\* refreshes in flight and every queue size.
THEOREM FeedTypes == Spec => []TypeOK
<1>1. IInv => TypeOK BY DEF IInv
<1> QED BY <1>1, FeedInvariant, PTL

\* Only a refresh that failed or landed late leaves the page behind what it
\* refetched for (realtime.ts, onmessage).
THEOREM FeedHeard == Spec => []HeardIsShown
<1>1. IInv => HeardIsShown
  <2> SUFFICES ASSUME IInv, \A l \in Loads : loads[l] = NoLoad, ~excused
               PROVE  shown.rows >= heard
    BY DEF HeardIsShown
  <2>0. NoLoad.stage = "none" BY DEF NoLoad
  <2>1. \A l \in Loads : loads[l].stage = "none" BY <2>0
  <2>2. \A l \in Loads : ~Catching(l) BY <2>1 DEF Catching
  <2> QED BY <2>2 DEF IInv, Waits
<1> QED BY <1>1, FeedInvariant, PTL

\* The step that resolves a write without an error merges the refresh which
\* read the examination after it.
LEMMA WriteShownStep ==
  IInv /\ [Next]_vars =>
    (write.stage = "loading" /\ write' = NoWrite /\ faults' = faults
       => shown'.exam >= write.change)
<1> SUFFICES ASSUME IInv, [Next]_vars, write.stage = "loading", write' = NoWrite, faults' = faults
             PROVE  shown'.exam >= write.change
  OBVIOUS
<1>1. Numbers /\ LoadsOK /\ Writes BY TypeParts DEF IInv
<1>2. write' # write BY DEF NoWrite
<1>3. faults \in Int BY <1>1 DEF Numbers
<1>4. ~PostFails BY DEF PostFails
<1>5. \A l \in Loads : ~LoadFails(l) BY <1>3 DEF LoadFails, Fault
<1>6. ~refreshExam BY DEF refreshExam
<1>7. ~post BY DEF post, NoWrite
<1>8. PICK l \in Loads : Merge(l)
  BY <1>2, <1>4, <1>5, <1>6, <1>7, Zenon
  DEF Next, Loading, vars, feed, transition, session_change, fan_out, Published, publish_lost, open,
      subscribe, _pump, Disconnect, enter, leave, poll, ReadExam, ReadRows
<1>9. loads[l].writes BY <1>2, <1>8 DEF Merge, Landed, Resolve
<1>10. loads[l].stage = "read" /\ shown'.exam = loads[l].exam BY <1>8 DEF Merge
<1> QED BY <1>1, <1>9, <1>10 DEF Writes

\* A write that resolves without an error is on screen at that moment (live.ts).
THEOREM FeedWrites == Spec => WriteShown
BY FeedInvariant, WriteShownStep, PTL DEF Spec, WriteShown

\* Initial states of the console are initial states of the promise.
LEMMA PromiseInit == Init => Promise!Init
BY Zenon DEF Init, Promise!Init

\* Every step of the console is a step of the promise or changes nothing in it.
LEMMA PromiseStep == IInv /\ [Next]_vars => [Promise!Next]_(Promise!vars)
<1> SUFFICES ASSUME IInv, [Next]_vars PROVE [Promise!Next]_(Promise!vars) OBVIOUS
<1>1. Flags /\ Numbers /\ LoadsOK /\ Order BY TypeParts DEF IInv
<1>2. actual.exam \in Nat /\ actual.rows \in Nat
  BY <1>1, FeedAssumption DEF Numbers, Pair, Version
<1>3. ASSUME NEW again \in BOOLEAN, Transition(again), UNCHANGED <<shown, mounted>>
      PROVE  Promise!Change
  BY <1>3 DEF Transition, Changes, Promise!Change
<1>4. CASE session_change
  <2>1. actual' = [exam |-> actual.exam, rows |-> actual.rows + 1] /\ UNCHANGED <<shown, mounted>>
    BY <1>1, <1>4 DEF session_change, Numbers, Pair
  <2>2. Promise!Change BY <2>1 DEF Promise!Change
  <2> QED BY <2>2 DEF Promise!Next
<1>5. CASE (\E again \in BOOLEAN : transition(again)) \/ post
  <2>1. Promise!Change BY <1>3, <1>5 DEF transition, post
  <2> QED BY <2>1 DEF Promise!Next
<1>6. CASE \E l \in Loads : Merge(l)
  <2>1. PICK l \in Loads : Merge(l) BY <1>6
  <2>2. /\ loads[l].stage = "read" /\ shown' = [exam |-> loads[l].exam, rows |-> loads[l].rows]
        /\ UNCHANGED <<actual, mounted>>
    BY <2>1 DEF Merge, Landed
  <2>3. loads[l].exam \in Nat /\ loads[l].rows \in Nat
    BY <1>1, FeedAssumption DEF LoadsOK, LoadRecord, Version
  <2>4. /\ loads[l].exam \in 0..actual.exam /\ loads[l].rows \in 0..actual.rows
        /\ Promise!NotTorn(shown')
    BY <1>1, <1>2, <2>2, <2>3 DEF Order, Promise!NotTorn
  <2>5. Promise!Show BY <2>2, <2>4 DEF Promise!Show
  <2> QED BY <2>5 DEF Promise!Next
<1>7. CASE enter \/ leave
  <2>1. mounted' = ~mounted /\ UNCHANGED <<actual, shown>>
    BY <1>1, <1>7, Zenon DEF enter, leave, Flags
  <2>2. Promise!Watch BY <2>1, Zenon DEF Promise!Watch
  <2> QED BY <2>2 DEF Promise!Next
<1>8. CASE \/ \E f \in outbox : fan_out(f) \/ publish_lost(f)
           \/ open \/ subscribe \/ _pump \/ Disconnect \/ poll \/ PostFails \/ refreshExam
           \/ \E l \in Loads : ReadExam(l) \/ ReadRows(l) \/ LoadFails(l)
           \/ UNCHANGED vars
  <2>1. UNCHANGED <<actual, shown, mounted>>
    BY <1>8, Zenon DEF fan_out, Published, publish_lost, open, subscribe, _pump, Disconnect, poll,
       PostFails, refreshExam, ReadExam, ReadRows, LoadFails, vars
  <2> QED BY <2>1, Zenon DEF Promise!vars
<1> QED BY <1>4, <1>5, <1>6, <1>7, <1>8, Zenon DEF Next, Loading

\* The console implements what a monitor promises, its liveness aside: it shows
\* only what the server committed and never a roster older than the status above.
THEOREM FeedKeepsPromise == Spec => KeepsPromise
BY FeedInvariant, PromiseInit, PromiseStep, PTL DEF Spec, KeepsPromise, Promise!Spec

==============================================================================

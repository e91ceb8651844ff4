--------------------------- MODULE CandidateProofs ---------------------------
(***************************************************************************)
(* The candidate's page for papers of every length and any number of       *)
(* saves, flags, submissions and reloads: what was reported saved stays    *)
(* saved, page and server agree about the flags, a receipt is final, and a *)
(* sequential paper is never turned back.                                  *)
(***************************************************************************)
EXTENDS CandidateClient, FiniteSetTheorems, TLAPS

Exams == {"none", "SCHEDULED", "LIVE", "COMPLETED"}
Sessions == {"none", "NOT_STARTED", "WAITING", "ACTIVE", "SUBMITTED", "AUTO_SUBMITTED"}

CallRow == [op : {"none", "load", "save", "flag", "submit"},
            stage : {"none", "sent", "loaded", "answered", "list", "checkin", "state", "ready", "error"},
            q : Questions, value : SUBSET Ops, seq : Nat, fresh : BOOLEAN, was : BOOLEAN,
            page : Nat, exam : Exams, session : Sessions]

AnswerRow == [exists : BOOLEAN, value : SUBSET Ops, seq : Nat, flagged : BOOLEAN]

StoreRow == [test : {"none", "scheduled", "live", "completed"}, session : BOOLEAN,
             answers : [Questions -> SUBSET Ops], flags : SUBSET Questions,
             receipt : {"none", "automatic", "manual"}, final : [Questions -> SUBSET Ops]]

Types ==
  /\ exam \in Exams /\ session \in Sessions /\ stored \in [Questions -> AnswerRow]
  /\ calls \in [Calls -> CallRow] /\ ops \in 0..MaxOps /\ reloads \in 0..MaxReloads
  /\ store \in StoreRow /\ current \in Questions /\ draft \in SUBSET Ops
  /\ seqs \in [Questions -> Nat] /\ acked \in [Questions -> 0..MaxOps]
  /\ overlapped \in BOOLEAN

-----------------------------------------------------------------------------
(* Types.                                                                  *)

\* Numbers and constant records.
LEMMA Numbers ==
  /\ Last \in Nat /\ Last >= 1 /\ MaxOps \in Nat /\ MaxReloads \in Nat
  /\ 1 \in Questions /\ Questions \subseteq Nat /\ Ops \subseteq Calls /\ Calls = {0} \cup Ops
  /\ 0 \notin Ops /\ Ops \subseteq Nat
BY PaperAssumption DEF Questions, Ops, Calls

LEMMA Constants ==
  /\ NoCall \in CallRow /\ NoCall.op = "none" /\ NoCall.stage = "none"
  /\ NoCall.page = 0
  /\ NoAnswer \in AnswerRow /\ ~NoAnswer.exists /\ NoAnswer.seq = 0
  /\ EmptyStore \in StoreRow /\ ~EmptyStore.session /\ EmptyStore.receipt = "none"
<1>1. NoCall \in CallRow /\ NoCall.op = "none" /\ NoCall.stage = "none" /\ NoCall.page = 0
  BY Numbers DEF NoCall, CallRow, Exams, Sessions
<1>2. NoAnswer \in AnswerRow /\ ~NoAnswer.exists /\ NoAnswer.seq = 0 BY DEF NoAnswer, AnswerRow
<1>3. Blank \in [Questions -> SUBSET Ops] BY DEF Blank
<1>4. EmptyStore \in StoreRow /\ ~EmptyStore.session /\ EmptyStore.receipt = "none"
  BY <1>3 DEF EmptyStore, StoreRow
<1> QED BY <1>1, <1>2, <1>4

\* What the server does to a request.
LEMMA LoadedRow ==
  ASSUME Types, NEW c \in CallRow
  PROVE  LET d == Loaded(c)
         IN  /\ d \in CallRow /\ d.stage = "loaded" /\ d.op = c.op /\ d.q = c.q /\ d.value = c.value
             /\ d.seq = c.seq /\ d.page = c.page /\ d.session = c.session
             /\ (d.fresh <=> ~stored[c.q].exists) /\ (d.was <=> stored[c.q].flagged)
<1>1. stored[c.q] \in AnswerRow BY DEF Types, CallRow
<1>2. (~stored[c.q].exists) \in BOOLEAN /\ stored[c.q].flagged \in BOOLEAN BY <1>1 DEF AnswerRow
<1> QED BY <1>2 DEF Loaded, CallRow

LEMMA RepliedRow ==
  ASSUME NEW c \in CallRow
  PROVE  LET d == Replied(c)
         IN  /\ d \in CallRow
             /\ c.page # reloads => d = NoCall
             /\ c.page = reloads =>
                  /\ d.stage = "answered" /\ d.op = c.op /\ d.q = c.q /\ d.value = c.value
                  /\ d.seq = c.seq /\ d.page = c.page /\ d.session = c.session
BY Constants DEF Replied, CallRow

LEMMA BootRow ==
  ASSUME NEW r \in Nat
  PROVE  /\ Boot(r) \in CallRow /\ Boot(r).op = "load" /\ Boot(r).stage = "list" /\ Boot(r).page = r
BY Constants DEF Boot, CallRow

\* One request moves.
LEMMA OneCall ==
  ASSUME Types, NEW i \in Calls, NEW c \in CallRow, calls' = [calls EXCEPT ![i] = c]
  PROVE  /\ calls' \in [Calls -> CallRow] /\ calls'[i] = c
         /\ \A j \in Calls : j # i => calls'[j] = calls[j]
BY DEF Types

-----------------------------------------------------------------------------
(* What the actions do.                                                    *)

\* A step that sends nothing and answers nothing.
Still == /\ UNCHANGED <<stored, calls, ops, reloads, store, seqs, acked, strayed>>
         /\ \/ UNCHANGED <<exam, session, overlapped>>
            \/ exam = "SCHEDULED" /\ exam' = "LIVE" /\ session' = "ACTIVE" /\ UNCHANGED overlapped
            \/ /\ exam = "LIVE" /\ exam' = "COMPLETED"
               /\ session' = IF session = "ACTIVE" THEN "AUTO_SUBMITTED" ELSE session
               /\ overlapped' = (overlapped \/ InTransaction # {})

\* The page sends request c.
Asks(c) ==
  /\ Ready /\ ops < MaxOps /\ ops' = ops + 1 /\ store.session
  /\ calls' = [calls EXCEPT ![ops + 1] = c]
  /\ c \in CallRow /\ c.stage = "sent" /\ c.op \in {"save", "flag", "submit"} /\ c.page = reloads
  /\ IF c.op = "save" THEN /\ ops + 1 \in c.value /\ c.seq = seqs[c.q] + 1
                           /\ seqs' = [seqs EXCEPT ![c.q] = c.seq]
                      ELSE seqs' = seqs
  /\ UNCHANGED <<exam, session, stored, reloads, store, acked, strayed, overlapped>>

\* Request i, whatever it is, moves on to d.
Moves(i, d) ==
  /\ d \in CallRow /\ calls' = [calls EXCEPT ![i] = d]
  /\ UNCHANGED <<ops, reloads, seqs>>

LEMMA StillSteps ==
  ASSUME Types,
         \/ Server \/ Release \/ \E r \in {"portal", "waiting", "exam", "submitted"} : Follow(r)
         \/ \E q \in Questions : QuestionPalette(q) \/ Step(q)
  PROVE  Still /\ current' \in Questions /\ draft' \in SUBSET Ops
<1>1. store.answers \in [Questions -> SUBSET Ops] /\ current \in Questions /\ draft \in SUBSET Ops
  BY DEF Types, StoreRow
<1>2. \A q \in Questions : Draft(store, q) \in SUBSET Ops BY <1>1 DEF Draft
<1>3. CASE Server
  BY <1>1, <1>3 DEF Server, start_exam, DeadlinePasses, close_exam, Still, screen
<1>4. ASSUME NEW r, Mount(r, store) PROVE current' \in Questions /\ draft' \in SUBSET Ops
  BY <1>2, <1>4, Numbers DEF Mount
<1>5. CASE Release BY <1>4, <1>5 DEF Release, Still, server
<1>6. CASE \E r \in {"portal", "waiting", "exam", "submitted"} : Follow(r)
  BY <1>4, <1>6 DEF Follow, Still, server
<1>7. CASE \E q \in Questions : QuestionPalette(q)
  BY <1>2, <1>7 DEF QuestionPalette, Still, server
<1>8. CASE \E q \in Questions : Step(q) BY <1>2, <1>8 DEF Step, Still, server
<1> QED BY <1>3, <1>5, <1>6, <1>7, <1>8

LEMMA AskSteps ==
  ASSUME Types,
         \/ submitExam \/ tick \/ \E q \in Questions : saveAnswer(q) \/ toggleFlag(q)
  PROVE  (\E c : Asks(c)) /\ current' = current /\ draft' \in SUBSET Ops
<1> DEFINE made(op, q, value, seq) ==
             [NoCall EXCEPT !.op = op, !.q = q, !.value = value, !.seq = seq, !.page = reloads,
                            !.stage = "sent"]
<1>1. ASSUME NEW op \in {"save", "flag", "submit"}, NEW q \in Questions, NEW value \in SUBSET Ops,
             NEW seq \in Nat
      PROVE  LET c == made(op, q, value, seq)
             IN  /\ c \in CallRow /\ c.stage = "sent" /\ c.op = op /\ c.q = q /\ c.value = value
                 /\ c.seq = seq /\ c.page = reloads
  <2>1. reloads \in Nat BY Numbers DEF Types
  <2> QED BY <2>1, Constants DEF NoCall, CallRow
<1>2. \A op, q, value, seq : Send(op, q, value, seq) <=>
        store.session /\ ops < MaxOps /\ ops' = ops + 1
        /\ calls' = [calls EXCEPT ![ops + 1] = made(op, q, value, seq)]
  BY DEF Send
<1> HIDE DEF made
<1>3. {} \in SUBSET Ops /\ 0 \in Nat /\ 1 \in Questions /\ draft \in SUBSET Ops BY Numbers DEF Types
<1>4. CASE submitExam
  <2>1. Ready /\ Send("submit", 1, {}, 0) /\ UNCHANGED <<server, reloads, screen, seqs, acked, strayed, overlapped>>
    BY <1>4 DEF submitExam, Sitting
  <2>2. Asks(made("submit", 1, {}, 0)) BY <1>1, <1>2, <1>3, <2>1 DEF Asks, server, screen
  <2> QED BY <1>3, <2>1, <2>2 DEF screen
<1>5. CASE tick
  <2>1. Ready /\ Send("submit", 1, {}, 0)
        /\ UNCHANGED <<server, reloads, store, current, draft, seqs, acked, strayed, overlapped>>
    BY <1>5 DEF tick, Sitting
  <2>2. Asks(made("submit", 1, {}, 0)) BY <1>1, <1>2, <1>3, <2>1 DEF Asks, server
  <2> QED BY <1>3, <2>1, <2>2
<1>6. ASSUME NEW q \in Questions, toggleFlag(q) PROVE (\E c : Asks(c)) /\ UNCHANGED <<current, draft>>
  <2>1. Ready /\ Send("flag", q, {}, 0) /\ UNCHANGED <<server, reloads, screen, seqs, acked, strayed, overlapped>>
    BY <1>6 DEF toggleFlag, Sitting
  <2>2. Asks(made("flag", q, {}, 0)) BY <1>1, <1>2, <1>3, <2>1 DEF Asks, server, screen
  <2> QED BY <2>1, <2>2 DEF screen
<1>7. ASSUME NEW q \in Questions, saveAnswer(q)
      PROVE  (\E c : Asks(c)) /\ current' = current /\ draft' \in SUBSET Ops
  <2> DEFINE value == (IF q \in CodeQs THEN draft ELSE store.answers[q]) \cup {ops + 1}
             seq == seqs[q] + 1
  <2>1. /\ Ready /\ Send("save", q, value, seq) /\ seqs' = [seqs EXCEPT ![q] = seq]
        /\ draft' = IF q \in CodeQs THEN value ELSE draft
        /\ UNCHANGED <<server, reloads, store, route, current, fired, acked, strayed, overlapped>>
    BY <1>7 DEF saveAnswer, nextSeq, Sitting
  <2>2. ops < MaxOps BY <2>1 DEF Send
  <2>3. ops + 1 \in Ops BY <2>2, Numbers DEF Types, Ops
  <2>4. store.answers[q] \in SUBSET Ops BY DEF Types, StoreRow
  <2>5. value \in SUBSET Ops /\ ops + 1 \in value BY <1>3, <2>3, <2>4
  <2>6. seq \in Nat BY DEF Types
  <2> HIDE DEF value
  <2> DEFINE c == made("save", q, value, seq)
  <2>7. Asks(c)
    <3>1. /\ c \in CallRow /\ c.stage = "sent" /\ c.op = "save" /\ c.q = q /\ c.value = value
          /\ c.seq = seq /\ c.page = reloads
      BY <1>1, <2>5, <2>6
    <3>2. /\ ops < MaxOps /\ ops' = ops + 1 /\ store.session /\ calls' = [calls EXCEPT ![ops + 1] = c]
      BY <1>2, <2>1
    <3> HIDE DEF c
    <3> QED BY <2>1, <2>5, <3>1, <3>2 DEF Asks, server
  <2> QED BY <1>3, <2>1, <2>5, <2>7
<1> QED BY <1>3, <1>4, <1>5, <1>6, <1>7

\* A request is taken up by the server: refused, loaded, or answered at once.
LEMMA ArriveStep ==
  ASSUME Types, NEW i \in Calls, Arrives(i)
  PROVE  LET c == calls[i]
         IN  /\ c.stage = "sent" /\ c.op \in {"save", "flag", "submit"}
             /\ UNCHANGED <<exam, session, stored, store, current, draft, acked, strayed, overlapped>>
             /\ \/ Moves(i, NoCall)
                \/ /\ Moves(i, Loaded(c)) /\ exam = "LIVE" /\ session = "ACTIVE"
                   /\ c.op = "save" => ~stored[c.q].exists \/ ~(c.seq <= stored[c.q].seq)
                \/ Moves(i, Replied(c)) /\ c.op = "save" /\ c.seq <= stored[c.q].seq
                \/ Moves(i, Replied(c)) /\ c.op = "submit" /\ session \in Terminal
<1> DEFINE c == calls[i]
<1>1. /\ c.stage = "sent" /\ c.op \in {"save", "flag", "submit"}
      /\ UNCHANGED <<exam, session, stored, ops, reloads, store, current, draft, seqs, acked, strayed, overlapped>>
  BY DEF Arrives, server, screen
<1>2. c \in CallRow BY DEF Types
<1>3. Loaded(c) \in CallRow /\ Replied(c) \in CallRow /\ NoCall \in CallRow
  BY <1>2, LoadedRow, RepliedRow, Constants
<1>4. CASE c.op = "save"
  <2>1. calls' = [calls EXCEPT ![i] = save_answer(c)] BY <1>4 DEF Arrives
  <2> QED BY <1>1, <1>3, <1>4, <2>1 DEF save_answer, Writable, Moves
<1>5. CASE c.op = "flag"
  <2>1. calls' = [calls EXCEPT ![i] = toggle_flag(c)] BY <1>5 DEF Arrives
  <2> QED BY <1>1, <1>3, <1>5, <2>1 DEF toggle_flag, Writable, Moves
<1>6. CASE c.op = "submit"
  <2>1. calls' = [calls EXCEPT ![i] = submit(c)] BY <1>6 DEF Arrives
  <2> QED BY <1>1, <1>3, <1>6, <2>1 DEF submit, Writable, Moves
<1> QED BY <1>1, <1>4, <1>5, <1>6

\* What a snapshot holds.
LEMMA SnapshotRow ==
  ASSUME Types, NEW c \in CallRow
  PROVE  LET s == Snapshot(c)
         IN  /\ s \in StoreRow /\ s.session
             /\ s.receipt # "none" <=> c.session \in Terminal
             /\ \A q \in Questions : s.final[q] = stored[q].value /\ (q \in s.flags <=> stored[q].flagged)
<1>1. \A q \in Questions : stored[q].value \in SUBSET Ops BY DEF Types, AnswerRow
<1>2. toTestStatus(c.exam) \in {"none", "scheduled", "live", "completed"}
  BY Zenon DEF toTestStatus
<1>3. c.session \in Sessions BY DEF CallRow
<1> QED BY <1>1, <1>2, <1>3 DEF Snapshot, StoreRow, Terminal, Sessions

-----------------------------------------------------------------------------
(* The requests of the page, and those of the pages before it.             *)

CallShape(i) ==
  LET c == calls[i]
  IN  /\ i > ops => c = NoCall
      /\ \/ c.op = "none" /\ c.stage = "none"
         \/ c.op \in {"save", "flag"} /\ c.stage \in {"sent", "loaded", "answered"}
         \/ c.op = "submit" /\ c.stage \in {"sent", "loaded", "answered", "list", "checkin", "state"}
      /\ c.op = "save" => c.seq >= 1
      /\ c.page <= reloads
      /\ c.stage \notin {"none", "sent", "loaded"} => c.page = reloads
      /\ c.stage = "none" \/ Ready \/ c.page # reloads

CallsShape ==
  /\ calls[0].op \in {"load", "none"}
  /\ calls[0].stage \in {"list", "checkin", "state", "ready", "error"}
  /\ calls[0].page = reloads
  /\ \A i \in Ops : CallShape(i)

LEMMA ShapeAsks ==
  ASSUME Types, CallsShape, NEW c, Asks(c)
  PROVE  CallsShape' /\ calls' \in [Calls -> CallRow] /\ ops' \in 0..MaxOps /\ ops + 1 \in Ops
         /\ calls'[ops + 1] = c /\ calls[ops + 1] = NoCall
         /\ \A j \in Calls : j # ops + 1 => calls'[j] = calls[j]
<1>1. ops < MaxOps /\ ops \in Nat /\ MaxOps \in Nat BY Numbers DEF Asks, Types
<1>2. ops + 1 \in Ops /\ ops' \in 0..MaxOps BY <1>1 DEF Asks, Ops
<1>3. /\ calls' \in [Calls -> CallRow] /\ calls'[ops + 1] = c
      /\ \A j \in Calls : j # ops + 1 => calls'[j] = calls[j]
  BY <1>2, Numbers, OneCall DEF Asks
<1>4. Ready /\ Ready' BY <1>1, <1>3, Numbers DEF Asks, Ready
<1>5. calls[ops + 1] = NoCall BY <1>1, <1>2 DEF CallsShape, CallShape
<1>6. seqs[c.q] \in Nat BY DEF Types, Asks, CallRow
<1>7. c.op = "save" => c.seq >= 1 BY <1>6 DEF Asks
<1>8. reloads \in Nat BY Numbers DEF Types
<1>9. ASSUME NEW i \in Ops PROVE CallShape(i)'
  <2>1. CASE i = ops + 1 BY <1>1, <1>3, <1>4, <1>7, <1>8, <2>1 DEF CallShape, Asks
  <2>2. CASE i # ops + 1
    <3>1. calls'[i] = calls[i] BY <1>3, <2>2, Numbers
    <3>2. i > ops' => i > ops BY <1>1, Numbers DEF Asks
    <3> QED BY <1>4, <3>1, <3>2 DEF CallShape, CallsShape, Asks
  <2> QED BY <2>1, <2>2
<1>10. calls'[0] = calls[0] BY <1>1, <1>3, Numbers
<1> QED BY <1>2, <1>3, <1>5, <1>9, <1>10 DEF CallsShape, Asks

\* A request of the candidate goes on, or is over.
LEMMA ShapeMoves ==
  ASSUME Types, CallsShape, NEW i \in Ops, NEW d, Moves(i, d), calls[i].stage # "none",
         \/ d = NoCall
         \/ /\ d.op = calls[i].op /\ d.page = calls[i].page /\ d.seq = calls[i].seq
            /\ \/ d.stage \in {"loaded", "answered"} /\ d.op # "none"
               \/ d.stage \in {"list", "checkin", "state"} /\ d.op = "submit"
            /\ d.stage # "loaded" => calls[i].page = reloads
  PROVE  CallsShape' /\ calls' \in [Calls -> CallRow] /\ Ready' = Ready
         /\ calls'[i] = d /\ \A j \in Calls : j # i => calls'[j] = calls[j]
<1>1. /\ calls' \in [Calls -> CallRow] /\ calls'[i] = d /\ UNCHANGED <<ops, reloads>>
      /\ \A j \in Calls : j # i => calls'[j] = calls[j]
  BY Numbers, OneCall DEF Moves
<1>2. calls'[0] = calls[0] BY <1>1, Numbers
<1>3. Ready' = Ready BY <1>2 DEF Ready
<1>4. CallShape(i) BY DEF CallsShape
<1>5. 0 <= reloads /\ ~(i > ops)
  BY <1>4, Constants, Numbers DEF Types, CallShape
<1>6. CallShape(i)'
  <2>1. CASE d = NoCall BY <1>1, <1>5, <2>1, Constants DEF CallShape
  <2>2. CASE d # NoCall
    <3>1. d.op \in {"save", "flag", "submit"} BY <1>4, <2>2 DEF CallShape
    <3> QED BY <1>1, <1>3, <1>4, <1>5, <2>2, <3>1 DEF CallShape
  <2> QED BY <2>1, <2>2
<1>7. ASSUME NEW j \in Ops, j # i PROVE CallShape(j)'
  <2>1. calls'[j] = calls[j] BY <1>1, <1>7, Numbers
  <2> QED BY <1>1, <1>3, <2>1 DEF CallShape, CallsShape
<1> QED BY <1>1, <1>2, <1>3, <1>6, <1>7 DEF CallsShape

\* The provider's load goes on, or is over.
LEMMA ShapeLoad ==
  ASSUME Types, CallsShape, ~Ready, NEW d, Moves(0, d),
         d.op \in {"load", "none"} /\ d.page = reloads,
         d.stage \in {"list", "checkin", "state", "ready", "error"}
  PROVE  CallsShape' /\ calls' \in [Calls -> CallRow]
         /\ calls'[0] = d /\ \A j \in Ops : calls'[j] = calls[j]
<1>1. /\ calls' \in [Calls -> CallRow] /\ calls'[0] = d /\ UNCHANGED <<ops, reloads>>
      /\ \A j \in Ops : calls'[j] = calls[j]
  BY Numbers, OneCall DEF Moves
<1>2. ASSUME NEW j \in Ops PROVE CallShape(j)' BY <1>1 DEF CallShape, CallsShape
<1> QED BY <1>1, <1>2 DEF CallsShape

\* The page is loaded anew.
LEMMA ShapeReload ==
  ASSUME Types, CallsShape, reload
  PROVE  /\ CallsShape' /\ calls' \in [Calls -> CallRow] /\ reloads' \in 0..MaxReloads /\ ~Ready'
         /\ calls'[0].stage = "list" /\ calls'[0].op = "load"
         /\ \A i \in Ops : calls'[i] = calls[i] \/ calls'[i] = NoCall
         /\ \A i \in Ops : calls'[i].stage \in {"none", "sent", "loaded"}
<1>1. /\ reloads < MaxReloads /\ reloads' = reloads + 1 /\ ops' = ops
      /\ calls' = [i \in Calls |->
            IF i = 0 THEN Boot(reloads + 1)
            ELSE IF calls[i].stage \in {"sent", "loaded"} THEN calls[i] ELSE NoCall]
  BY DEF reload
<1>2. reloads \in Nat /\ reloads + 1 \in 0..MaxReloads BY <1>1, Numbers DEF Types
<1>3. /\ Boot(reloads + 1) \in CallRow /\ Boot(reloads + 1).op = "load"
      /\ Boot(reloads + 1).stage = "list" /\ Boot(reloads + 1).page = reloads + 1
  BY <1>2, BootRow
<1>4. calls' \in [Calls -> CallRow]
  <2>1. Boot(reloads + 1) \in CallRow BY <1>3
  <2>2. \A i \in Calls : calls[i] \in CallRow BY DEF Types
  <2> QED BY <1>1, <2>1, <2>2, Constants
<1>5. calls'[0] = Boot(reloads + 1) BY <1>1, Numbers
<1>6. ~Ready' BY <1>3, <1>5 DEF Ready
<1>7. ASSUME NEW i \in Ops
      PROVE  /\ calls'[i] = calls[i] \/ calls'[i] = NoCall
             /\ calls'[i].stage \in {"none", "sent", "loaded"}
             /\ calls'[i] = IF calls[i].stage \in {"sent", "loaded"} THEN calls[i] ELSE NoCall
  BY <1>1, Numbers, Constants
<1>8. ASSUME NEW i \in Ops PROVE CallShape(i)'
  <2>1. CASE calls'[i] = NoCall BY <1>1, <1>2, <2>1, Constants DEF CallShape
  <2>2. CASE calls'[i] # NoCall
    <3>1. calls'[i] = calls[i] /\ calls[i].stage \in {"sent", "loaded"} BY <1>7, <2>2
    <3>2. CallShape(i) /\ calls[i].page \in Nat BY Numbers DEF CallsShape, Types, CallRow
    <3> QED BY <1>1, <1>2, <3>1, <3>2 DEF CallShape
  <2> QED BY <2>1, <2>2
<1>9. calls'[0].op = "load" /\ calls'[0].stage = "list" /\ calls'[0].page = reloads'
  BY <1>1, <1>3, <1>5
<1>10. CallsShape' BY <1>8, <1>9 DEF CallsShape
<1> QED BY <1>1, <1>2, <1>4, <1>6, <1>7, <1>9, <1>10

\* A transaction commits, or fails on the primary key.
LEMMA CommitStep ==
  ASSUME Types, CallsShape, NEW i \in Calls, Commits(i)
  PROVE  LET c == calls[i]
         IN  /\ i \in Ops /\ c.stage = "loaded" /\ c.op \in {"save", "flag", "submit"}
             /\ UNCHANGED <<exam, store, current, draft, acked, strayed>>
             /\ overlapped' = (overlapped \/ \E j \in InTransaction \ {i} : Overlap(i, j))
             /\ session' = IF c.op = "submit" THEN "SUBMITTED" ELSE session
             /\ \/ Moves(i, NoCall) /\ stored' = stored /\ c.op # "submit" /\ c.fresh /\ stored[c.q].exists
                \/ Moves(i, Replied(c)) /\ stored' = stored /\ c.op = "submit"
                \/ /\ Moves(i, Replied(c)) /\ c.op = "save"
                   /\ stored' = [stored EXCEPT ![c.q] =
                                   [stored[c.q] EXCEPT !.exists = TRUE, !.value = c.value, !.seq = c.seq]]
                \/ /\ Moves(i, Replied(c)) /\ c.op = "flag"
                   /\ stored' = [stored EXCEPT ![c.q] =
                                   [stored[c.q] EXCEPT !.exists = TRUE, !.flagged = ~c.was]]
<1> DEFINE c == calls[i]
           clash == c.op # "submit" /\ c.fresh /\ stored[c.q].exists
<1>1. /\ c.stage = "loaded"
      /\ UNCHANGED <<exam, ops, reloads, store, current, draft, seqs, acked, strayed>>
      /\ overlapped' = (overlapped \/ \E j \in InTransaction \ {i} : Overlap(i, j))
      /\ session' = IF c.op = "submit" THEN "SUBMITTED" ELSE session
  BY DEF Commits, screen
<1>2. calls' = [calls EXCEPT ![i] = IF clash THEN NoCall ELSE Replied(c)] BY Zenon DEF Commits
<1>3. \/ (clash \/ c.op = "submit") /\ stored' = stored
      \/ ~clash /\ c.op = "save" /\ stored' = [stored EXCEPT ![c.q] =
                                   [stored[c.q] EXCEPT !.exists = TRUE, !.value = c.value, !.seq = c.seq]]
      \/ ~clash /\ c.op = "flag" /\ stored' = [stored EXCEPT ![c.q] =
                                   [stored[c.q] EXCEPT !.exists = TRUE, !.flagged = ~c.was]]
  BY DEF Commits, Types, CallRow
<1>4. i \in Ops BY <1>1, Numbers DEF CallsShape
<1>5. c.op \in {"save", "flag", "submit"} BY <1>1, <1>4 DEF CallsShape, CallShape
<1>6. c \in CallRow BY DEF Types
<1>7. Replied(c) \in CallRow /\ NoCall \in CallRow BY <1>6, RepliedRow, Constants
<1>8. \/ clash /\ Moves(i, NoCall)
      \/ ~clash /\ Moves(i, Replied(c))
  BY <1>1, <1>2, <1>7 DEF Moves
<1> QED BY <1>1, <1>3, <1>4, <1>5, <1>8

\* A submission, or the provider's load, goes on.
LEMMA GoOnStep ==
  ASSUME Types, CallsShape, NEW i \in Calls, SubmitLands(i) \/ ListExams(i) \/ check_in(i)
  PROVE  LET c == calls[i]
         IN  /\ UNCHANGED <<exam, stored, store, current, draft, acked, strayed, overlapped>>
             /\ c.op \in {"load", "none", "submit"} /\ c.page = reloads
             /\ c.stage \in {"answered", "list", "checkin"} /\ (c.stage = "answered" => i \in Ops)
             /\ \E d : /\ Moves(i, d) /\ d.op = c.op /\ d.page = c.page /\ d.seq = c.seq
                       /\ \/ d.stage \in {"list", "checkin"} /\ session' = session
                          \/ /\ d.stage = "state" /\ d.session = session'
                             /\ session' = IF session = "NOT_STARTED" THEN "WAITING" ELSE session
<1> DEFINE c == calls[i]
<1>1. c \in CallRow /\ exam \in Exams /\ session \in Sessions BY DEF Types
<1>2. i \in Ops => CallShape(i) BY DEF CallsShape
<1>3. CASE SubmitLands(i)
  <2> DEFINE d == [c EXCEPT !.stage = "list"]
  <2>1. d \in CallRow /\ d.op = c.op /\ d.page = c.page /\ d.seq = c.seq /\ d.stage = "list"
    BY <1>1 DEF CallRow
  <2>2. /\ c.op = "submit" /\ c.stage = "answered" /\ c.page = reloads
        /\ calls' = [calls EXCEPT ![i] = d]
        /\ UNCHANGED <<exam, session, stored, ops, reloads, store, current, draft, seqs, acked, strayed, overlapped>>
    BY <1>1, <1>3 DEF SubmitLands, server, screen, Types, Mine
  <2>3. i \in Ops BY <2>2, Numbers DEF CallsShape
  <2> HIDE DEF d
  <2> QED BY <2>1, <2>2, <2>3 DEF Moves
<1>4. CASE ListExams(i)
  <2> DEFINE d == [c EXCEPT !.stage = "checkin", !.exam = exam]
  <2>1. d \in CallRow /\ d.op = c.op /\ d.page = c.page /\ d.seq = c.seq /\ d.stage = "checkin"
    BY <1>1 DEF CallRow
  <2>2. /\ c.stage = "list" /\ c.page = reloads /\ calls' = [calls EXCEPT ![i] = d]
        /\ UNCHANGED <<exam, session, stored, ops, reloads, store, current, draft, seqs, acked, strayed, overlapped>>
    BY <1>1, <1>4 DEF ListExams, server, screen, Types, Mine
  <2>3. c.op \in {"load", "none", "submit"} BY <1>2, <2>2, Numbers DEF CallsShape, CallShape
  <2> HIDE DEF d
  <2> QED BY <2>1, <2>2, <2>3 DEF Moves
<1>5. CASE check_in(i)
  <2> DEFINE d == [c EXCEPT !.stage = "state", !.session = session']
  <2>1. session' = IF session = "NOT_STARTED" THEN "WAITING" ELSE session BY <1>5 DEF check_in
  <2>2. session' \in Sessions BY <1>1, <2>1 DEF Sessions
  <2>3. /\ d \in CallRow /\ d.op = c.op /\ d.page = c.page /\ d.seq = c.seq /\ d.stage = "state"
        /\ d.session = session'
    BY <1>1, <2>2 DEF CallRow
  <2>4. /\ c.stage = "checkin" /\ c.page = reloads /\ calls' = [calls EXCEPT ![i] = d]
        /\ UNCHANGED <<exam, stored, ops, reloads, store, current, draft, seqs, acked, strayed, overlapped>>
    BY <1>1, <1>5 DEF check_in, screen, Types, Mine
  <2>5. c.op \in {"load", "none", "submit"} BY <1>2, <2>4, Numbers DEF CallsShape, CallShape
  <2> HIDE DEF d
  <2> QED BY <2>1, <2>3, <2>4, <2>5 DEF Moves
<1> QED BY <1>3, <1>4, <1>5

\* A snapshot is adopted.
LEMMA AdoptStep ==
  ASSUME Types, CallsShape, NEW i \in Calls, CheckInFails(i) \/ get_state(i)
  PROVE  LET c == calls[i]
         IN  /\ UNCHANGED <<exam, session, stored, acked, overlapped>>
             /\ current' \in Questions /\ draft' \in SUBSET Ops /\ strayed' = Orphans
             /\ c.stage \in {"checkin", "state"} /\ c.page = reloads
             /\ i # 0 => c.op = "submit" /\ route' = "submitted"
             /\ \E d : /\ Moves(i, d)
                       /\ i # 0 => d = NoCall
                       /\ i = 0 => d.op = "none" /\ d.stage = "ready" /\ d.page = reloads
             /\ \/ store' = EmptyStore
                \/ c.stage = "state" /\ store' = Snapshot(c)
             /\ store' \in StoreRow
<1> DEFINE c == calls[i]
           d == IF i = 0 THEN [NoCall EXCEPT !.stage = "ready", !.page = reloads] ELSE NoCall
<1>1. c \in CallRow /\ reloads \in Nat BY Numbers DEF Types
<1>2. d \in CallRow /\ (i # 0 => d = NoCall)
      /\ (i = 0 => d.op = "none" /\ d.stage = "ready" /\ d.page = reloads)
  BY <1>1, Constants DEF CallRow
<1>3. /\ c.stage \in {"checkin", "state"} /\ c.page = reloads
      /\ UNCHANGED <<exam, session, stored, ops, reloads, seqs, acked, overlapped>>
  BY DEF CheckInFails, get_state, server, Mine
<1>4. PICK s : Adopt(i, s) /\ (s = EmptyStore \/ (c.stage = "state" /\ s = Snapshot(c)))
  BY DEF CheckInFails, get_state
<1>5. s \in StoreRow BY <1>1, <1>4, Constants, SnapshotRow
<1>6. store' = s /\ strayed' = Orphans /\ calls' = [calls EXCEPT ![i] = d]
      /\ IF i = 0 THEN Mount(route, s) ELSE Mount("submitted", s)
  BY <1>4 DEF Adopt
<1>7. Draft(s, 1) \in SUBSET Ops BY <1>5, Numbers DEF Draft, StoreRow
<1>8. current' \in Questions /\ draft' \in SUBSET Ops /\ (i # 0 => route' = "submitted")
  BY <1>6, <1>7, Numbers DEF Mount
<1>9. i # 0 => c.op = "submit"
  BY <1>3, Numbers DEF CallsShape, CallShape
<1> HIDE DEF d
<1>10. Moves(i, d) BY <1>2, <1>3, <1>6 DEF Moves
<1> QED BY <1>2, <1>3, <1>4, <1>5, <1>6, <1>8, <1>9, <1>10

\* An answer reaches the page.
LEMMA LandStep ==
  ASSUME Types, CallsShape, NEW i \in Calls, SaveLands(i) \/ FlagLands(i)
  PROVE  LET c == calls[i]
         IN  /\ i \in Ops /\ c.stage = "answered" /\ c.q \in Questions /\ Moves(i, NoCall)
             /\ UNCHANGED <<exam, session, stored, current, draft, strayed, overlapped>>
             /\ store' \in StoreRow /\ store'.session = store.session
             /\ store'.receipt = store.receipt /\ store'.final = store.final
             /\ \/ /\ c.op = "save" /\ store'.flags = store.flags
                   /\ acked' = [acked EXCEPT ![c.q] = IF i > acked[c.q] THEN i ELSE acked[c.q]]
                \/ /\ c.op = "flag" /\ acked' = acked
                   /\ store'.flags = IF c.q \in store.flags THEN store.flags \ {c.q}
                                     ELSE store.flags \cup {c.q}
<1> DEFINE c == calls[i]
<1>1. c \in CallRow /\ c.q \in Questions /\ c.value \in SUBSET Ops /\ store \in StoreRow
  BY DEF Types, CallRow
<1>2. /\ c.stage = "answered" /\ c.op \in {"save", "flag"} /\ calls' = [calls EXCEPT ![i] = NoCall]
      /\ UNCHANGED <<exam, session, stored, ops, reloads, current, draft, seqs, strayed, overlapped>>
  BY DEF SaveLands, FlagLands, server
<1>3. i \in Ops BY <1>2, Numbers DEF CallsShape
<1>4. Moves(i, NoCall) BY <1>2, Constants DEF Moves
<1>5. CASE SaveLands(i)
  <2>1. store' = [store EXCEPT !.answers[c.q] = c.value] BY <1>5 DEF SaveLands
  <2>2. acked' = [acked EXCEPT ![c.q] = IF i > acked[c.q] THEN i ELSE acked[c.q]] /\ c.op = "save"
    BY <1>1, <1>5 DEF SaveLands, Types
  <2> DEFINE a == [store.answers EXCEPT ![c.q] = c.value]
  <2>3. a \in [Questions -> SUBSET Ops] BY <1>1 DEF StoreRow
  <2>4. store' = [store EXCEPT !.answers = a] BY <2>1
  <2> HIDE DEF a
  <2>5. /\ store' \in StoreRow /\ store'.session = store.session /\ store'.flags = store.flags
        /\ store'.receipt = store.receipt /\ store'.final = store.final
    BY <1>1, <2>3, <2>4 DEF StoreRow
  <2> QED BY <1>1, <1>2, <1>3, <1>4, <2>2, <2>5
<1>6. CASE FlagLands(i)
  <2> DEFINE f == IF c.q \in store.flags THEN store.flags \ {c.q} ELSE store.flags \cup {c.q}
  <2>1. store' = [store EXCEPT !.flags = f] /\ c.op = "flag" /\ acked' = acked
    BY <1>6 DEF FlagLands
  <2>2. f \in SUBSET Questions BY <1>1 DEF StoreRow
  <2> HIDE DEF f
  <2>3. /\ store' \in StoreRow /\ store'.session = store.session /\ store'.flags = f
        /\ store'.receipt = store.receipt /\ store'.final = store.final
    BY <1>1, <2>1, <2>2 DEF StoreRow
  <2> QED BY <1>1, <1>2, <1>3, <1>4, <2>1, <2>3 DEF f
<1> QED BY <1>5, <1>6

\* A request or its answer is lost.
LEMMA FailStep ==
  ASSUME Types, CallsShape, NEW i \in Calls, Fails(i)
  PROVE  LET c == calls[i]
         IN  /\ i \in Ops /\ c.stage # "none" /\ Moves(i, NoCall)
             /\ UNCHANGED <<exam, session, stored, store, current, draft, acked, overlapped>>
             /\ strayed' = IF c.op = "flag" /\ c.stage = "answered" THEN strayed \cup {c.q} ELSE strayed
<1>1. /\ calls[i].op \in {"save", "flag", "submit"} /\ calls[i].stage # "none"
      /\ calls' = [calls EXCEPT ![i] = NoCall]
      /\ UNCHANGED <<exam, session, stored, ops, reloads, store, current, draft, seqs, acked, overlapped>>
  BY DEF Fails, server, screen
<1>2. i \in Ops BY <1>1, Numbers DEF CallsShape
<1> QED BY <1>1, <1>2, Constants DEF Fails, Moves

LEMMA LoadFailStep ==
  ASSUME Types, CallsShape, LoadFails
  PROVE  /\ ~Ready
         /\ UNCHANGED <<exam, session, stored, store, current, draft, acked, strayed, overlapped>>
         /\ \E d : Moves(0, d) /\ d.op = calls[0].op /\ d.stage = "error" /\ d.page = reloads
<1> DEFINE d == [calls[0] EXCEPT !.stage = "error"]
<1>1. calls[0] \in CallRow /\ calls[0].page = reloads BY Numbers DEF Types, CallsShape
<1>2. d \in CallRow /\ d.op = calls[0].op /\ d.stage = "error" /\ d.page = reloads
  BY <1>1 DEF CallRow
<1>3. /\ calls[0].stage \in {"list", "state"} /\ calls' = [calls EXCEPT ![0] = d]
      /\ UNCHANGED <<exam, session, stored, ops, reloads, store, current, draft, seqs, acked, strayed, overlapped>>
  BY Numbers DEF LoadFails, server, screen, Types
<1> HIDE DEF d
<1> QED BY <1>2, <1>3 DEF Moves, Ready

\* Every step is of one of these kinds.
LEMMA StepKinds ==
  ASSUME Types, CallsShape, [Next]_vars
  PROVE  \/ Still /\ current' \in Questions /\ draft' \in SUBSET Ops
         \/ (\E c : Asks(c)) /\ current' = current /\ draft' \in SUBSET Ops
         \/ \E i \in Calls : \/ Arrives(i) \/ Commits(i) \/ Fails(i)
                             \/ SubmitLands(i) \/ ListExams(i) \/ check_in(i)
                             \/ CheckInFails(i) \/ get_state(i) \/ SaveLands(i) \/ FlagLands(i)
         \/ LoadFails \/ reload
<1>1. CASE UNCHANGED vars
  <2>1. Still BY <1>1 DEF vars, server, screen, Still
  <2>2. current' = current /\ draft' = draft BY <1>1 DEF vars, screen
  <2> QED BY <2>1, <2>2 DEF Types
<1>2. CASE Server \/ Candidate \/ Release \/ tick
  <2>1. CASE \/ Server \/ Release \/ \E r \in {"portal", "waiting", "exam", "submitted"} : Follow(r)
             \/ \E q \in Questions : QuestionPalette(q) \/ Step(q)
    BY <2>1, StillSteps
  <2>2. CASE submitExam \/ tick \/ \E q \in Questions : saveAnswer(q) \/ toggleFlag(q)
    BY <2>2, AskSteps
  <2> QED BY <1>2, <2>1, <2>2, Zenon DEF Candidate
<1>3. CASE LoadFails \/ \E i \in Calls : Handling(i) \/ Landing(i) \/ Fails(i)
  BY <1>3, Zenon DEF Handling, Landing
<1> QED BY <1>1, <1>2, <1>3, Zenon DEF Next

LEMMA NextShape == Types /\ CallsShape /\ [Next]_vars => Types' /\ CallsShape'
<1> SUFFICES ASSUME Types, CallsShape, [Next]_vars PROVE Types' /\ CallsShape' OBVIOUS
<1>1. CASE Still /\ current' \in Questions /\ draft' \in SUBSET Ops
  <2>1. exam' \in Exams /\ session' \in Sessions /\ overlapped' \in BOOLEAN
    BY <1>1 DEF Still, Types, Exams, Sessions
  <2>2. Types' BY <1>1, <2>1 DEF Types, Still
  <2>3. CallsShape' BY <1>1 DEF Still, CallsShape, CallShape, Ready
  <2> QED BY <2>2, <2>3
<1>2. CASE (\E c : Asks(c)) /\ current' = current /\ draft' \in SUBSET Ops
  <2>1. PICK c : Asks(c) BY <1>2
  <2>2. CallsShape' /\ calls' \in [Calls -> CallRow] /\ ops' \in 0..MaxOps BY <2>1, ShapeAsks
  <2>3. seqs' \in [Questions -> Nat]
    BY <2>1 DEF Asks, Types, CallRow
  <2> QED BY <1>2, <2>1, <2>2, <2>3 DEF Types, Asks
<1>3. ASSUME NEW i \in Calls, Arrives(i) PROVE Types' /\ CallsShape'
  <2> DEFINE c == calls[i]
  <2>1. /\ c.stage = "sent" /\ c.op \in {"save", "flag", "submit"} /\ c \in CallRow
        /\ UNCHANGED <<exam, session, stored, store, current, draft, acked, strayed, overlapped>>
        /\ Moves(i, NoCall) \/ Moves(i, Loaded(c)) \/ Moves(i, Replied(c))
    BY <1>3, ArriveStep DEF Types
  <2>2. i \in Ops BY <2>1, Numbers DEF CallsShape
  <2>3. PICK d : Moves(i, d) /\ d \in {NoCall, Loaded(c), Replied(c)} BY <2>1
  <2>4. \/ d = NoCall
        \/ d.op = c.op /\ d.page = c.page /\ d.seq = c.seq /\ d.stage = "loaded"
        \/ d.op = c.op /\ d.page = c.page /\ d.seq = c.seq /\ d.stage = "answered" /\ c.page = reloads
    BY <2>1, <2>3, LoadedRow, RepliedRow
  <2>5. CallsShape' /\ calls' \in [Calls -> CallRow] BY <2>1, <2>2, <2>3, <2>4, ShapeMoves
  <2> QED BY <2>1, <2>3, <2>5 DEF Types, Moves
<1>4. ASSUME NEW i \in Calls, Commits(i) PROVE Types' /\ CallsShape'
  <2> DEFINE c == calls[i]
  <2>1. /\ i \in Ops /\ c.stage = "loaded" /\ c.op \in {"save", "flag", "submit"} /\ c \in CallRow
        /\ UNCHANGED <<exam, store, current, draft, acked, strayed>>
        /\ overlapped' = (overlapped \/ \E j \in InTransaction \ {i} : Overlap(i, j))
        /\ session' = IF c.op = "submit" THEN "SUBMITTED" ELSE session
        /\ Moves(i, NoCall) \/ Moves(i, Replied(c))
    BY <1>4, CommitStep DEF Types
  <2>2. \/ stored' = stored
        \/ stored' = [stored EXCEPT ![c.q] =
                        [stored[c.q] EXCEPT !.exists = TRUE, !.value = c.value, !.seq = c.seq]]
        \/ stored' = [stored EXCEPT ![c.q] = [stored[c.q] EXCEPT !.exists = TRUE, !.flagged = ~c.was]]
    BY <1>4, CommitStep
  <2>3. PICK d : Moves(i, d) /\ d \in {NoCall, Replied(c)} BY <2>1
  <2>4. \/ d = NoCall
        \/ d.op = c.op /\ d.page = c.page /\ d.seq = c.seq /\ d.stage = "answered" /\ c.page = reloads
    BY <2>1, <2>3, RepliedRow
  <2>5. CallsShape' /\ calls' \in [Calls -> CallRow] BY <2>1, <2>3, <2>4, ShapeMoves
  <2>6. stored' \in [Questions -> AnswerRow]
    <3>1. stored \in [Questions -> AnswerRow] /\ stored[c.q] \in AnswerRow BY <2>1 DEF Types, CallRow
    <3>2. /\ [stored[c.q] EXCEPT !.exists = TRUE, !.value = c.value, !.seq = c.seq] \in AnswerRow
          /\ [stored[c.q] EXCEPT !.exists = TRUE, !.flagged = ~c.was] \in AnswerRow
      BY <2>1, <3>1 DEF AnswerRow, CallRow
    <3> QED BY <2>2, <3>1, <3>2
  <2>7. session' \in Sessions BY <2>1 DEF Types, Sessions
  <2>8. overlapped' \in BOOLEAN BY <2>1, Zenon DEF Types
  <2> QED BY <2>1, <2>3, <2>5, <2>6, <2>7, <2>8 DEF Types, Moves
<1>5. ASSUME NEW i \in Calls, Fails(i) PROVE Types' /\ CallsShape'
  <2>1. /\ i \in Ops /\ calls[i].stage # "none" /\ Moves(i, NoCall)
        /\ UNCHANGED <<exam, session, stored, store, current, draft, acked, overlapped>>
    BY <1>5, FailStep
  <2>2. CallsShape' /\ calls' \in [Calls -> CallRow] BY <2>1, ShapeMoves
  <2> QED BY <2>1, <2>2 DEF Types, Moves
<1>6. ASSUME NEW i \in Calls, SubmitLands(i) \/ ListExams(i) \/ check_in(i) PROVE Types' /\ CallsShape'
  <2> DEFINE c == calls[i]
  <2>1. /\ UNCHANGED <<exam, stored, store, current, draft, acked, strayed, overlapped>>
        /\ c.op \in {"load", "none", "submit"} /\ c.page = reloads
        /\ c.stage \in {"answered", "list", "checkin"} /\ (c.stage = "answered" => i \in Ops)
    BY <1>6, GoOnStep
  <2>2. PICK d : /\ Moves(i, d) /\ d.op = c.op /\ d.page = c.page /\ d.seq = c.seq
                 /\ \/ d.stage \in {"list", "checkin"} /\ session' = session
                    \/ /\ d.stage = "state" /\ d.session = session'
                       /\ session' = IF session = "NOT_STARTED" THEN "WAITING" ELSE session
    BY <1>6, GoOnStep
  <2>3. CallsShape' /\ calls' \in [Calls -> CallRow]
    <3>1. CASE i \in Ops
      <4>1. c.op = "submit" BY <2>1, <3>1 DEF CallsShape, CallShape
      <4> QED BY <2>1, <2>2, <3>1, <4>1, ShapeMoves
    <3>2. CASE i = 0
      <4>1. ~Ready /\ c.op \in {"load", "none"} BY <2>1, <3>2, Numbers DEF Ready, CallsShape
      <4> QED BY <2>1, <2>2, <3>2, <4>1, ShapeLoad
    <3> QED BY <3>1, <3>2, Numbers
  <2>4. session' \in Sessions BY <2>2 DEF Types, Sessions
  <2> QED BY <2>1, <2>2, <2>3, <2>4 DEF Types, Moves
<1>7. ASSUME NEW i \in Calls, CheckInFails(i) \/ get_state(i) PROVE Types' /\ CallsShape'
  <2>1. /\ UNCHANGED <<exam, session, stored, acked, overlapped>>
        /\ current' \in Questions /\ draft' \in SUBSET Ops
        /\ calls[i].stage \in {"checkin", "state"} /\ store' \in StoreRow
    BY <1>7, AdoptStep
  <2>2. PICK d : /\ Moves(i, d) /\ (i # 0 => d = NoCall)
                 /\ i = 0 => d.op = "none" /\ d.stage = "ready" /\ d.page = reloads
    BY <1>7, AdoptStep
  <2>3. CallsShape' /\ calls' \in [Calls -> CallRow]
    <3>1. CASE i \in Ops BY <2>1, <2>2, <3>1, Numbers, ShapeMoves
    <3>2. CASE i = 0
      <4>1. ~Ready BY <2>1, <3>2 DEF Ready
      <4> QED BY <2>2, <3>2, <4>1, ShapeLoad
    <3> QED BY <3>1, <3>2, Numbers
  <2> QED BY <2>1, <2>2, <2>3 DEF Types, Moves
<1>8. ASSUME NEW i \in Calls, SaveLands(i) \/ FlagLands(i) PROVE Types' /\ CallsShape'
  <2> DEFINE c == calls[i]
  <2>1. /\ i \in Ops /\ c.stage = "answered" /\ c.q \in Questions /\ Moves(i, NoCall)
        /\ UNCHANGED <<exam, session, stored, current, draft, strayed, overlapped>>
        /\ store' \in StoreRow
        /\ \/ acked' = [acked EXCEPT ![c.q] = IF i > acked[c.q] THEN i ELSE acked[c.q]]
           \/ acked' = acked
    BY <1>8, LandStep
  <2>2. CallsShape' /\ calls' \in [Calls -> CallRow] BY <2>1, ShapeMoves
  <2>3. acked' \in [Questions -> 0..MaxOps]
    <3>1. i \in 0..MaxOps BY <2>1, Numbers DEF Ops
    <3> QED BY <2>1, <3>1 DEF Types
  <2> QED BY <2>1, <2>2, <2>3 DEF Types, Moves
<1>9. CASE LoadFails
  <2>1. /\ ~Ready /\ UNCHANGED <<exam, session, stored, store, current, draft, acked, strayed, overlapped>>
    BY <1>9, LoadFailStep
  <2>2. PICK d : Moves(0, d) /\ d.op = calls[0].op /\ d.stage = "error" /\ d.page = reloads
    BY <1>9, LoadFailStep
  <2>3. CallsShape' /\ calls' \in [Calls -> CallRow]
    <3>1. d.op \in {"load", "none"} BY <2>2 DEF CallsShape
    <3> QED BY <2>1, <2>2, <3>1, ShapeLoad
  <2> QED BY <2>1, <2>2, <2>3 DEF Types, Moves
<1>10. CASE reload
  <2>1. CallsShape' /\ calls' \in [Calls -> CallRow] /\ reloads' \in 0..MaxReloads BY <1>10, ShapeReload
  <2>2. /\ UNCHANGED <<server, ops, acked, strayed, overlapped>> /\ store' = EmptyStore
        /\ Mount(route, EmptyStore) /\ seqs' = [q \in Questions |-> 0]
    BY <1>10 DEF reload
  <2>3. current' \in Questions /\ draft' \in SUBSET Ops
    <3>1. EmptyStore.answers[1] \in SUBSET Ops BY Numbers DEF EmptyStore, Blank
    <3> QED BY <2>2, <3>1, Numbers DEF Mount, Draft
  <2> QED BY <2>1, <2>2, <2>3, Constants DEF Types, server
<1> QED BY <1>1, <1>2, <1>3, <1>4, <1>5, <1>6, <1>7, <1>8, <1>9, <1>10, StepKinds

LEMMA InitShape == Init => Types /\ CallsShape
<1> SUFFICES ASSUME Init PROVE Types /\ CallsShape OBVIOUS
<1>1. calls = [i \in Calls |-> IF i = 0 THEN Boot(0) ELSE NoCall] /\ reloads = 0 /\ ops = 0 BY DEF Init
<1>2. /\ Boot(0) \in CallRow /\ Boot(0).op = "load" /\ Boot(0).stage = "list" /\ Boot(0).page = 0
  BY BootRow
<1>3. calls \in [Calls -> CallRow] /\ calls[0] = Boot(0) /\ \A i \in Ops : calls[i] = NoCall
  BY <1>1, <1>2, Constants, Numbers
<1>4. stored \in [Questions -> AnswerRow] BY Constants DEF Init
<1>5. Types
  <2>1. exam \in Exams /\ session \in Sessions BY DEF Init, Exams, Sessions
  <2>2. store \in StoreRow /\ draft \in SUBSET Ops /\ overlapped \in BOOLEAN /\ current \in Questions
    BY Constants, Numbers DEF Init
  <2>3. 0 \in 0..MaxOps /\ 0 \in 0..MaxReloads BY Numbers
  <2>4. seqs \in [Questions -> Nat] /\ acked \in [Questions -> 0..MaxOps] BY <2>3 DEF Init
  <2> QED BY <1>1, <1>3, <1>4, <2>1, <2>2, <2>3, <2>4 DEF Types
<1>6. CallsShape
  BY <1>1, <1>2, <1>3, Constants, Numbers DEF CallsShape, CallShape
<1> QED BY <1>5, <1>6

-----------------------------------------------------------------------------
(* A sequential paper.                                                     *)

\* In a sequential examination of any length the page never goes back to an
\* earlier question, whatever arrives while a question is on screen: answers,
\* failures, a receipt, the end of the examination (exam.tsx, QuestionPalette
\* and QuestionCard).
THEOREM SequentialStays == Spec => NeverBack
<1> DEFINE Forward == sequential /\ Sitting /\ Sitting' /\ reloads' = reloads => current' >= current
<1>1. Types /\ CallsShape /\ [Next]_vars => [Forward]_vars
  <2> SUFFICES ASSUME Types, CallsShape, [Next]_vars, sequential, Sitting, Sitting', reloads' = reloads
               PROVE  current' >= current
    OBVIOUS
  <2>1. current \in Nat /\ Last \in Nat /\ reloads \in Nat BY Numbers DEF Types
  <2>2. Ready /\ route = "exam" /\ route' = "exam" BY DEF Sitting
  <2>3. CASE current' = current BY <2>1, <2>3
  <2>4. CASE Server \/ UNCHANGED vars
    BY <2>3, <2>4 DEF Server, start_exam, DeadlinePasses, close_exam, screen, vars
  <2>5. CASE Release BY <2>2, <2>5 DEF Release
  <2>6. CASE \E r \in {"portal", "waiting", "exam", "submitted"} : Follow(r)
    BY <2>2, <2>6 DEF Follow, Mount
  <2>7. CASE \E q \in Questions : QuestionPalette(q) BY <2>7 DEF QuestionPalette
  <2>8. CASE \E q \in Questions : Step(q) BY <2>1, <2>8 DEF Step
  <2>9. CASE submitExam \/ tick \/ \E q \in Questions : saveAnswer(q) \/ toggleFlag(q)
    BY <2>3, <2>9, AskSteps
  <2>10. CASE reload BY <2>1, <2>10 DEF reload
  <2>11. CASE LoadFails BY <2>3, <2>11, LoadFailStep
  <2>12. ASSUME NEW i \in Calls, Arrives(i) \/ Commits(i) \/ Fails(i) PROVE current' >= current
    BY <2>3, <2>12, ArriveStep, CommitStep, FailStep
  <2>13. ASSUME NEW i \in Calls, SubmitLands(i) \/ ListExams(i) \/ check_in(i) PROVE current' >= current
    BY <2>3, <2>13, GoOnStep
  <2>14. ASSUME NEW i \in Calls, CheckInFails(i) \/ get_state(i) PROVE current' >= current
    <3>1. calls[i].stage \in {"checkin", "state"} /\ (i # 0 => route' = "submitted") BY <2>14, AdoptStep
    <3>2. i = 0 BY <2>2, <3>1
    <3> QED BY <2>2, <3>1, <3>2 DEF Ready
  <2>15. ASSUME NEW i \in Calls, SaveLands(i) \/ FlagLands(i) PROVE current' >= current
    BY <2>3, <2>15, LandStep
  <2> QED BY <2>4, <2>5, <2>6, <2>7, <2>8, <2>9, <2>10, <2>11, <2>12, <2>13, <2>14, <2>15, Zenon
          DEF Next, Candidate, Handling, Landing
<1>2. [Forward]_vars => [sequential /\ Sitting /\ Sitting' /\ reloads' = reloads => current' >= current]_vars
  OBVIOUS
<1> QED BY <1>1, InitShape, NextShape, PTL DEF Spec, NeverBack

-----------------------------------------------------------------------------
(* The receipt.                                                            *)

\* A session closes once, with nothing of it in a transaction unless writes
\* overlapped; what the page asks after its submission finds it closed.
Closing ==
  /\ exam = "SCHEDULED" => session \notin Terminal /\ InTransaction = {}
  /\ session \in Terminal /\ ~overlapped => InTransaction = {}
  /\ \A i \in Calls : calls[i].stage = "state" /\ calls[i].session \in Terminal => session \in Terminal
  /\ \A i \in Ops : /\ calls[i].op = "submit" /\ calls[i].stage \in {"answered", "list", "checkin", "state"}
                       => session \in Terminal
                    /\ calls[i].stage = "state" => calls[i].session \in Terminal
  /\ ReceiptFinal

\* Who is in a transaction after one request moved.
LEMMA Transactions ==
  ASSUME Types, NEW i \in Calls, NEW d, Moves(i, d)
  PROVE  /\ calls' \in [Calls -> CallRow] /\ calls'[i] = d
         /\ \A j \in Calls : j # i => calls'[j] = calls[j]
         /\ d.stage # "loaded" => InTransaction' = InTransaction \ {i}
<1>1. /\ calls' \in [Calls -> CallRow] /\ calls'[i] = d
      /\ \A j \in Calls : j # i => calls'[j] = calls[j]
  BY OneCall DEF Moves
<1> QED BY <1>1 DEF InTransaction

\* A request that is not loaded moves on, and the rest stays.
LEMMA ClosingKept ==
  ASSUME Types, CallsShape, Closing, NEW i \in Calls, NEW d, Moves(i, d), d.stage # "loaded",
         UNCHANGED <<exam, session, stored, overlapped>>,
         store'.receipt = store.receipt /\ store'.final = store.final,
         d.stage = "state" => d.session \in Terminal /\ session \in Terminal,
         i \in Ops /\ d.op = "submit" /\ d.stage # "sent" => session \in Terminal
  PROVE  Closing'
<1>1. /\ calls'[i] = d /\ InTransaction' = InTransaction \ {i}
      /\ \A j \in Calls : j # i => calls'[j] = calls[j]
  BY Transactions
<1>2. ReceiptFinal' BY DEF Closing, ReceiptFinal
<1>3. \A j \in Calls : calls'[j].stage = "state" /\ calls'[j].session \in Terminal => session' \in Terminal
  BY <1>1 DEF Closing
<1>4. ASSUME NEW j \in Ops
      PROVE  /\ calls'[j].op = "submit" /\ calls'[j].stage \in {"answered", "list", "checkin", "state"}
                  => session' \in Terminal
             /\ calls'[j].stage = "state" => calls'[j].session \in Terminal
  BY <1>1, Numbers DEF Closing
<1> QED BY <1>1, <1>2, <1>3, <1>4 DEF Closing

LEMMA NextClosing ==
  ASSUME Types, CallsShape, Closing, [Next]_vars
  PROVE  Closing'
<1>1. CASE Still
  <2>1. InTransaction' = InTransaction BY <1>1 DEF Still, InTransaction
  <2>2. CASE UNCHANGED <<exam, session, overlapped>>
    BY <1>1, <2>1, <2>2 DEF Still, Closing, ReceiptFinal
  <2>3. CASE exam = "SCHEDULED" /\ exam' = "LIVE" /\ session' = "ACTIVE" /\ UNCHANGED overlapped
    BY <1>1, <2>1, <2>3 DEF Still, Closing, ReceiptFinal, Terminal
  <2>4. CASE /\ exam = "LIVE" /\ exam' = "COMPLETED"
             /\ session' = IF session = "ACTIVE" THEN "AUTO_SUBMITTED" ELSE session
             /\ overlapped' = (overlapped \/ InTransaction # {})
    <3>1. session \in Terminal => session' = session BY <2>4 DEF Terminal
    <3>2. ~overlapped' => ~overlapped /\ InTransaction = {} BY <2>4
    <3>3. ReceiptFinal' BY <1>1, <3>1, <3>2 DEF Still, Closing, ReceiptFinal
    <3> QED BY <1>1, <2>1, <2>4, <3>1, <3>2, <3>3 DEF Still, Closing
  <2> QED BY <1>1, <2>2, <2>3, <2>4 DEF Still
<1>2. ASSUME NEW c, Asks(c) PROVE Closing'
  <2>2. /\ ops + 1 \in Ops /\ calls'[ops + 1] = c /\ calls[ops + 1] = NoCall
        /\ \A j \in Calls : j # ops + 1 => calls'[j] = calls[j]
    BY <1>2, ShapeAsks
  <2>3. c.stage = "sent" /\ UNCHANGED <<exam, session, stored, store, overlapped>> BY <1>2 DEF Asks
  <2>4. InTransaction' = InTransaction BY <2>2, <2>3, Constants, Numbers DEF InTransaction
  <2>5. ReceiptFinal' BY <2>3 DEF Closing, ReceiptFinal
  <2>6. \A j \in Calls : calls'[j].stage = "state" /\ calls'[j].session \in Terminal => session' \in Terminal
    BY <2>2, <2>3 DEF Closing
  <2>7. ASSUME NEW j \in Ops
        PROVE  /\ calls'[j].op = "submit" /\ calls'[j].stage \in {"answered", "list", "checkin", "state"}
                    => session' \in Terminal
               /\ calls'[j].stage = "state" => calls'[j].session \in Terminal
    BY <2>2, <2>3, Numbers DEF Closing
  <2> QED BY <2>3, <2>4, <2>5, <2>6, <2>7 DEF Closing
<1>3. ASSUME NEW i \in Calls, Arrives(i) PROVE Closing'
  <2> DEFINE c == calls[i]
  <2>1. /\ c.stage = "sent" /\ c.op \in {"save", "flag", "submit"} /\ c \in CallRow
        /\ UNCHANGED <<exam, session, stored, store, overlapped>>
        /\ \/ Moves(i, NoCall)
           \/ Moves(i, Loaded(c)) /\ exam = "LIVE" /\ session = "ACTIVE"
           \/ Moves(i, Replied(c)) /\ c.op = "save"
           \/ Moves(i, Replied(c)) /\ c.op = "submit" /\ session \in Terminal
    BY <1>3, ArriveStep DEF Types
  <2>2. CASE Moves(i, NoCall) BY <2>1, <2>2, Constants, ClosingKept
  <2>3. CASE Moves(i, Loaded(c)) /\ exam = "LIVE" /\ session = "ACTIVE"
    <3>1. Loaded(c).stage = "loaded" BY <2>1, LoadedRow
    <3>2. calls'[i] = Loaded(c) /\ \A j \in Calls : j # i => calls'[j] = calls[j] BY <2>3, Transactions
    <3>3. \A j \in Calls : calls'[j].stage # "loaded" => calls'[j] = calls[j] BY <3>1, <3>2
    <3>4. ~(session \in Terminal) /\ exam # "SCHEDULED" BY <2>3 DEF Terminal
    <3>5. ReceiptFinal' BY <2>1 DEF Closing, ReceiptFinal
    <3>6. \A j \in Calls : calls'[j].stage = "state" => calls'[j] = calls[j] BY <3>3
    <3>7. ASSUME NEW j \in Ops
          PROVE  /\ calls'[j].op = "submit" /\ calls'[j].stage \in {"answered", "list", "checkin", "state"}
                      => session' \in Terminal
                 /\ calls'[j].stage = "state" => calls'[j].session \in Terminal
      BY <2>1, <3>3, Numbers DEF Closing
    <3> QED BY <2>1, <3>4, <3>5, <3>6, <3>7 DEF Closing
  <2>4. CASE Moves(i, Replied(c)) /\ (c.op = "save" \/ session \in Terminal)
    <3>1. \/ Replied(c).stage = "answered" /\ Replied(c).op = c.op
          \/ Replied(c).stage = "none" /\ Replied(c).op = "none"
      BY <2>1, RepliedRow, Constants
    <3> QED BY <2>1, <2>4, <3>1, ClosingKept
  <2> QED BY <2>1, <2>2, <2>3, <2>4
<1>4. ASSUME NEW i \in Calls, Commits(i) PROVE Closing'
  <2> DEFINE c == calls[i]
  <2>1. /\ i \in Ops /\ c.stage = "loaded" /\ c.op \in {"save", "flag", "submit"} /\ c \in CallRow
        /\ UNCHANGED <<exam, store>>
        /\ overlapped' = (overlapped \/ \E j \in InTransaction \ {i} : Overlap(i, j))
        /\ session' = IF c.op = "submit" THEN "SUBMITTED" ELSE session
        /\ Moves(i, NoCall) \/ Moves(i, Replied(c))
        /\ c.op = "submit" => stored' = stored
    BY <1>4, CommitStep DEF Types
  <2>2. PICK d : Moves(i, d) /\ d \in {NoCall, Replied(c)} BY <2>1
  <2>3. d.stage \in {"none", "answered"} /\ d.op \in {"none", c.op} BY <2>1, <2>2, RepliedRow, Constants
  <2>4. /\ calls'[i] = d /\ InTransaction' = InTransaction \ {i}
        /\ \A j \in Calls : j # i => calls'[j] = calls[j]
    BY <2>2, <2>3, Transactions
  <2>5. i \in InTransaction BY <2>1 DEF InTransaction
  <2>6. exam # "SCHEDULED" BY <2>5 DEF Closing
  <2>7. session \in Terminal => session' \in Terminal BY <2>1 DEF Terminal
  <2>8. ~overlapped' => ~overlapped BY <2>1
  <2>9. session' \in Terminal /\ ~overlapped' => InTransaction' = {}
    <3>1. CASE c.op = "submit"
      <4>1. \A j \in InTransaction \ {i} : Overlap(i, j) BY <3>1 DEF Overlap
      <4> QED BY <2>1, <2>4, <4>1
    <3>2. CASE c.op # "submit" BY <2>1, <2>5, <2>8, <3>2 DEF Closing
    <3> QED BY <3>1, <3>2
  <2>10. ReceiptFinal'
    <3>1. CASE c.op = "submit" BY <2>1, <2>7, <2>8, <3>1 DEF Closing, ReceiptFinal
    <3>2. CASE c.op # "submit" BY <2>1, <2>5, <2>7, <2>8, <3>2 DEF Closing, ReceiptFinal
    <3> QED BY <3>1, <3>2
  <2>11. \A j \in Calls : calls'[j].stage = "state" /\ calls'[j].session \in Terminal => session' \in Terminal
    BY <2>3, <2>4, <2>7 DEF Closing
  <2>12. ASSUME NEW j \in Ops
        PROVE  /\ calls'[j].op = "submit" /\ calls'[j].stage \in {"answered", "list", "checkin", "state"}
                    => session' \in Terminal
               /\ calls'[j].stage = "state" => calls'[j].session \in Terminal
    <3>1. CASE j = i BY <2>1, <2>3, <2>4, <3>1 DEF Terminal
    <3>2. CASE j # i BY <2>4, <2>7, <3>2, Numbers DEF Closing
    <3> QED BY <3>1, <3>2
  <2> QED BY <2>1, <2>6, <2>9, <2>10, <2>11, <2>12 DEF Closing
<1>5. ASSUME NEW i \in Calls, Fails(i) PROVE Closing'
  BY <1>5, FailStep, Constants, ClosingKept
<1>6. ASSUME NEW i \in Calls, SaveLands(i) \/ FlagLands(i) PROVE Closing'
  BY <1>6, LandStep, Constants, ClosingKept
<1>7. ASSUME NEW i \in Calls, SubmitLands(i) \/ ListExams(i) \/ check_in(i) PROVE Closing'
  <2> DEFINE c == calls[i]
  <2>1. /\ UNCHANGED <<exam, stored, store, overlapped>>
        /\ c.op \in {"load", "none", "submit"} /\ c.stage \in {"answered", "list", "checkin"}
    BY <1>7, GoOnStep
  <2>2. PICK d : /\ Moves(i, d) /\ d.op = c.op
                 /\ \/ d.stage \in {"list", "checkin"} /\ session' = session
                    \/ /\ d.stage = "state" /\ d.session = session'
                       /\ session' = IF session = "NOT_STARTED" THEN "WAITING" ELSE session
    BY <1>7, GoOnStep
  <2>3. /\ calls'[i] = d /\ InTransaction' = InTransaction \ {i}
        /\ \A j \in Calls : j # i => calls'[j] = calls[j]
    BY <2>2, Transactions
  <2>4. session' \in Terminal <=> session \in Terminal BY <2>2 DEF Terminal
  <2>5. i \in Ops => session \in Terminal
    BY <2>1 DEF Closing, CallsShape, CallShape
  <2>6. ReceiptFinal' BY <2>1, <2>4 DEF Closing, ReceiptFinal
  <2>7. \A j \in Calls : calls'[j].stage = "state" /\ calls'[j].session \in Terminal => session' \in Terminal
    BY <2>2, <2>3, <2>4 DEF Closing
  <2>8. ASSUME NEW j \in Ops
        PROVE  /\ calls'[j].op = "submit" /\ calls'[j].stage \in {"answered", "list", "checkin", "state"}
                    => session' \in Terminal
               /\ calls'[j].stage = "state" => calls'[j].session \in Terminal
    <3>1. CASE j = i BY <2>2, <2>3, <2>4, <2>5, <3>1
    <3>2. CASE j # i BY <2>3, <2>4, <3>2, Numbers DEF Closing
    <3> QED BY <3>1, <3>2
  <2> QED BY <2>1, <2>3, <2>4, <2>6, <2>7, <2>8 DEF Closing
<1>8. ASSUME NEW i \in Calls, CheckInFails(i) \/ get_state(i) PROVE Closing'
  <2> DEFINE c == calls[i]
  <2>1. /\ UNCHANGED <<exam, session, stored, overlapped>> /\ c \in CallRow
        /\ store' = EmptyStore \/ (c.stage = "state" /\ store' = Snapshot(c))
    BY <1>8, AdoptStep DEF Types
  <2>2. PICK d : /\ Moves(i, d) /\ (i # 0 => d = NoCall)
                 /\ i = 0 => d.op = "none" /\ d.stage = "ready" /\ d.page = reloads
    BY <1>8, AdoptStep
  <2>3. d.stage \in {"none", "ready"} /\ d.op = "none" BY <2>2, Constants
  <2>4. /\ calls'[i] = d /\ InTransaction' = InTransaction \ {i}
        /\ \A j \in Calls : j # i => calls'[j] = calls[j]
    BY <2>2, <2>3, Transactions
  <2>5. ReceiptFinal'
    <3>1. CASE store' = EmptyStore BY <3>1, Constants DEF ReceiptFinal
    <3>2. CASE c.stage = "state" /\ store' = Snapshot(c)
      <4>1. /\ Snapshot(c).receipt # "none" => c.session \in Terminal
            /\ \A q \in Questions : Snapshot(c).final[q] = stored[q].value
        BY <2>1, SnapshotRow
      <4>2. c.session \in Terminal => session \in Terminal BY <3>2 DEF Closing
      <4> QED BY <2>1, <3>2, <4>1, <4>2 DEF ReceiptFinal
    <3> QED BY <2>1, <3>1, <3>2
  <2>6. \A j \in Calls : calls'[j].stage = "state" /\ calls'[j].session \in Terminal => session' \in Terminal
    BY <2>1, <2>3, <2>4 DEF Closing
  <2>7. ASSUME NEW j \in Ops
        PROVE  /\ calls'[j].op = "submit" /\ calls'[j].stage \in {"answered", "list", "checkin", "state"}
                    => session' \in Terminal
               /\ calls'[j].stage = "state" => calls'[j].session \in Terminal
    <3>1. CASE j = i BY <2>3, <2>4, <3>1
    <3>2. CASE j # i BY <2>1, <2>4, <3>2, Numbers DEF Closing
    <3> QED BY <3>1, <3>2
  <2> QED BY <2>1, <2>4, <2>5, <2>6, <2>7 DEF Closing
<1>9. CASE LoadFails
  <2>1. UNCHANGED <<exam, session, stored, store, overlapped>> BY <1>9, LoadFailStep
  <2>2. PICK d : Moves(0, d) /\ d.stage = "error" BY <1>9, LoadFailStep
  <2> QED BY <2>1, <2>2, Numbers, ClosingKept
<1>10. CASE reload
  <2>1. /\ calls'[0].stage = "list" /\ \A i \in Ops : calls'[i] = calls[i] \/ calls'[i] = NoCall
        /\ \A i \in Ops : calls'[i].stage \in {"none", "sent", "loaded"}
    BY <1>10, ShapeReload
  <2>2. UNCHANGED <<exam, session, stored, overlapped>> /\ store' = EmptyStore
    BY <1>10 DEF reload, server
  <2>3. InTransaction' \subseteq InTransaction BY <2>1, Numbers, Constants DEF InTransaction
  <2>4. ReceiptFinal' BY <2>2, Constants DEF ReceiptFinal
  <2>5. \A j \in Calls : calls'[j].stage # "state" BY <2>1, Numbers
  <2>6. \A j \in Ops : calls'[j].stage \notin {"answered", "list", "checkin", "state"} BY <2>1
  <2> QED BY <2>2, <2>3, <2>4, <2>5, <2>6 DEF Closing
<1> QED BY <1>1, <1>2, <1>3, <1>4, <1>5, <1>6, <1>7, <1>8, <1>9, <1>10, StepKinds

LEMMA InitClosing == Init => Closing
<1> SUFFICES ASSUME Init PROVE Closing OBVIOUS
<1>1. calls[0] = Boot(0) /\ \A i \in Ops : calls[i] = NoCall BY Numbers DEF Init
<1>2. \A i \in Calls : calls[i].stage \in {"none", "list"} /\ calls[i].op \in {"none", "load"}
  BY <1>1, BootRow, Constants, Numbers
<1>3. InTransaction = {} BY <1>2 DEF InTransaction
<1>4. ReceiptFinal BY Constants DEF Init, ReceiptFinal
<1> QED BY <1>2, <1>3, <1>4, Numbers DEF Init, Closing, Terminal

\* When a page shows a receipt, the server has closed the session, and what
\* the receipt lists is what is stored, whichever saves, reloads and endings of
\* the examination came before, with none of them in the server at once
\* (http.ts, loadCandidateState; live.ts, submitExam).
THEOREM ReceiptsAreFinal == Spec => []ReceiptFinal
<1>1. Types /\ CallsShape /\ Closing /\ [Next]_vars => Closing' BY NextClosing
<1>2. Closing => ReceiptFinal BY DEF Closing
<1> QED BY <1>1, <1>2, InitShape, NextShape, InitClosing, PTL DEF Spec

-----------------------------------------------------------------------------
(* Transactions that do not overlap.                                       *)

\* What a transaction read of its row is still so when it commits.
Undisturbed ==
  /\ \A q \in Questions : ~stored[q].exists => stored[q].seq = 0
  /\ ~overlapped =>
       \A i \in Ops : LET c == calls[i]
                      IN  c.stage = "loaded" /\ c.op \in {"save", "flag"} =>
                            /\ c.fresh <=> ~stored[c.q].exists
                            /\ c.was <=> stored[c.q].flagged
                            /\ c.op = "save" => c.seq > stored[c.q].seq

LEMMA UndisturbedKept ==
  ASSUME Undisturbed, stored' = stored, ~overlapped' => ~overlapped,
         \A j \in Ops : calls'[j].stage = "loaded" => calls'[j] = calls[j]
  PROVE  Undisturbed'
BY DEF Undisturbed

LEMMA NextUndisturbed ==
  ASSUME Types, CallsShape, Undisturbed, [Next]_vars
  PROVE  Undisturbed'
<1>1. CASE Still
  <2>1. UNCHANGED <<stored, calls>> BY <1>1 DEF Still
  <2>2. ~overlapped' => ~overlapped BY <1>1, Zenon DEF Still
  <2> QED BY <2>1, <2>2, UndisturbedKept
<1>2. ASSUME NEW c, Asks(c) PROVE Undisturbed'
  <2>1. /\ calls'[ops + 1] = c /\ c.stage = "sent" /\ UNCHANGED <<stored, overlapped>>
        /\ \A j \in Calls : j # ops + 1 => calls'[j] = calls[j]
    BY <1>2, ShapeAsks DEF Asks
  <2>2. \A j \in Ops : calls'[j].stage = "loaded" => calls'[j] = calls[j] BY <2>1, Numbers
  <2> QED BY <2>1, <2>2, UndisturbedKept
<1>3. ASSUME NEW i \in Calls, NEW d, Moves(i, d), d.stage # "loaded", UNCHANGED <<stored, overlapped>>
      PROVE  Undisturbed'
  <2>1. \A j \in Ops : calls'[j].stage = "loaded" => calls'[j] = calls[j]
    BY <1>3, Transactions, Numbers
  <2> QED BY <1>3, <2>1, UndisturbedKept
<1>4. ASSUME NEW i \in Calls, Arrives(i) PROVE Undisturbed'
  <2> DEFINE c == calls[i]
  <2>1. /\ c.stage = "sent" /\ c.op \in {"save", "flag", "submit"} /\ c \in CallRow
        /\ UNCHANGED <<stored, overlapped>>
        /\ \/ Moves(i, NoCall) \/ Moves(i, Replied(c))
           \/ Moves(i, Loaded(c)) /\ (c.op = "save" => ~stored[c.q].exists \/ ~(c.seq <= stored[c.q].seq))
    BY <1>4, ArriveStep DEF Types
  <2>2. CASE Moves(i, NoCall) \/ Moves(i, Replied(c))
    BY <1>3, <2>1, <2>2, RepliedRow, Constants
  <2>3. CASE Moves(i, Loaded(c)) /\ (c.op = "save" => ~stored[c.q].exists \/ ~(c.seq <= stored[c.q].seq))
    <3>1. calls'[i] = Loaded(c) /\ \A j \in Calls : j # i => calls'[j] = calls[j] BY <2>3, Transactions
    <3> DEFINE d == Loaded(c)
    <3>2. /\ d.op = c.op /\ d.q = c.q /\ d.seq = c.seq
          /\ (d.fresh <=> ~stored[c.q].exists) /\ (d.was <=> stored[c.q].flagged)
      BY <2>1, LoadedRow
    <3> HIDE DEF d
    <3>3. c.q \in Questions /\ c.seq \in Nat /\ stored[c.q] \in AnswerRow BY <2>1 DEF Types, CallRow
    <3>4. c.op = "save" => c.seq > stored[c.q].seq
      <4>1. i \in Ops BY <2>1, Numbers DEF CallsShape
      <4>2. stored[c.q].seq \in Nat BY <3>3 DEF AnswerRow
      <4>3. c.op = "save" => c.seq >= 1 BY <4>1 DEF CallsShape, CallShape
      <4>4. ~stored[c.q].exists => stored[c.q].seq = 0 BY <3>3 DEF Undisturbed
      <4> QED BY <2>3, <3>3, <4>2, <4>3, <4>4
    <3>5. ASSUME NEW j \in Ops, calls'[j].stage = "loaded", calls'[j].op \in {"save", "flag"}, ~overlapped
          PROVE  LET e == calls'[j]
                 IN  /\ e.fresh <=> ~stored[e.q].exists
                     /\ e.was <=> stored[e.q].flagged
                     /\ e.op = "save" => e.seq > stored[e.q].seq
      <4>1. CASE j = i BY <3>1, <3>2, <3>4, <4>1 DEF d
      <4>2. CASE j # i
        <5>1. calls'[j] = calls[j] BY <3>1, <4>2, Numbers
        <5> QED BY <3>5, <5>1 DEF Undisturbed
      <4> QED BY <4>1, <4>2
    <3> QED BY <2>1, <3>5 DEF Undisturbed
  <2> QED BY <2>1, <2>2, <2>3
<1>5. ASSUME NEW i \in Calls, Commits(i) PROVE Undisturbed'
  <2> DEFINE c == calls[i]
  <2>1. /\ i \in Ops /\ c.stage = "loaded" /\ c \in CallRow
        /\ overlapped' = (overlapped \/ \E j \in InTransaction \ {i} : Overlap(i, j))
        /\ Moves(i, NoCall) \/ Moves(i, Replied(c))
        /\ \/ stored' = stored
           \/ stored' = [stored EXCEPT ![c.q] =
                           [stored[c.q] EXCEPT !.exists = TRUE, !.value = c.value, !.seq = c.seq]]
           \/ stored' = [stored EXCEPT ![c.q] = [stored[c.q] EXCEPT !.exists = TRUE, !.flagged = ~c.was]]
    BY <1>5, CommitStep DEF Types
  <2>2. c.q \in Questions /\ stored \in [Questions -> AnswerRow] /\ stored[c.q] \in AnswerRow
    BY <2>1 DEF Types, CallRow
  <2>3. PICK d : Moves(i, d) /\ d.stage # "loaded" BY <2>1, RepliedRow, Constants
  <2>4. calls'[i] = d /\ \A j \in Calls : j # i => calls'[j] = calls[j] BY <2>3, Transactions
  <2>5. \A q \in Questions : q # c.q => stored'[q] = stored[q] BY <2>1, <2>2
  <2>6. stored'[c.q] = stored[c.q] \/ stored'[c.q].exists
    <3> DEFINE r == stored[c.q]
    <3>1. r \in AnswerRow BY <2>2
    <3>2. /\ [r EXCEPT !.exists = TRUE, !.value = c.value, !.seq = c.seq].exists
          /\ [r EXCEPT !.exists = TRUE, !.flagged = ~c.was].exists
      BY <3>1 DEF AnswerRow
    <3> QED BY <2>1, <2>2, <3>2
  <2>7. \A q \in Questions : ~stored'[q].exists => stored'[q].seq = 0
    BY <2>5, <2>6 DEF Undisturbed
  <2>8. ASSUME NEW j \in Ops, calls'[j].stage = "loaded", calls'[j].op \in {"save", "flag"}, ~overlapped'
        PROVE  LET e == calls'[j]
               IN  /\ e.fresh <=> ~stored'[e.q].exists
                   /\ e.was <=> stored'[e.q].flagged
                   /\ e.op = "save" => e.seq > stored'[e.q].seq
    <3>1. j # i /\ calls'[j] = calls[j] BY <2>3, <2>4, <2>8, Numbers
    <3>2. j \in InTransaction \ {i} BY <2>8, <3>1, Numbers DEF InTransaction
    <3>3. ~overlapped /\ ~Overlap(i, j) BY <2>1, <2>8, <3>2
    <3>4. calls[j].q # c.q /\ calls[j].q \in Questions BY <3>3, Numbers DEF Overlap, Types, CallRow
    <3>5. stored'[calls[j].q] = stored[calls[j].q] BY <2>5, <3>4
    <3> QED BY <2>8, <3>1, <3>3, <3>5 DEF Undisturbed
  <2> QED BY <2>7, <2>8 DEF Undisturbed
<1>6. ASSUME NEW i \in Calls, Fails(i) PROVE Undisturbed' BY <1>3, <1>6, FailStep, Constants
<1>7. ASSUME NEW i \in Calls, SaveLands(i) \/ FlagLands(i) PROVE Undisturbed'
  BY <1>3, <1>7, LandStep, Constants
<1>8. ASSUME NEW i \in Calls, SubmitLands(i) \/ ListExams(i) \/ check_in(i) PROVE Undisturbed'
  <2>1. UNCHANGED <<stored, overlapped>> /\ \E d : Moves(i, d) /\ d.stage \in {"list", "checkin", "state"}
    BY <1>8, GoOnStep
  <2> QED BY <1>3, <2>1
<1>9. ASSUME NEW i \in Calls, CheckInFails(i) \/ get_state(i) PROVE Undisturbed'
  <2>1. UNCHANGED <<stored, overlapped>> BY <1>9, AdoptStep
  <2>2. \E d : Moves(i, d) /\ d.stage # "loaded" BY <1>9, AdoptStep, Constants
  <2> QED BY <1>3, <2>1, <2>2
<1>10. CASE LoadFails
  <2>1. UNCHANGED <<stored, overlapped>> /\ \E d : Moves(0, d) /\ d.stage = "error"
    BY <1>10, LoadFailStep
  <2> QED BY <1>3, <2>1, Numbers
<1>11. CASE reload
  <2>1. \A i \in Ops : calls'[i] = calls[i] \/ calls'[i] = NoCall BY <1>11, ShapeReload
  <2>2. UNCHANGED <<stored, overlapped>> BY <1>11 DEF reload, server
  <2> QED BY <2>1, <2>2, Constants, UndisturbedKept
<1> QED BY <1>1, <1>2, <1>4, <1>5, <1>6, <1>7, <1>8, <1>9, <1>10, <1>11, StepKinds

LEMMA InitUndisturbed == Init => Undisturbed
<1> SUFFICES ASSUME Init PROVE Undisturbed OBVIOUS
<1>1. \A i \in Ops : calls[i] = NoCall BY Numbers DEF Init
<1> QED BY <1>1, Constants DEF Init, Undisturbed

-----------------------------------------------------------------------------
(* Flags.                                                                  *)

\* Toggles that the server has made and the page has not.
Heard(q) == {i \in Ops : calls[i].op = "flag" /\ calls[i].q = q /\ calls[i].stage = "answered"}

Even(n) == n % 2 = 0

\* The page and the server differ by the toggles on their way.
Agree(q) == (q \in store.flags <=> stored[q].flagged) <=> Even(Cardinality(Heard(q)))

Stray(i) == calls[i].op = "flag" /\ calls[i].page # reloads /\ calls[i].stage \in {"sent", "loaded"}

FlagInv ==
  Ready =>
    /\ \A i \in Ops : Stray(i) => calls[i].q \in strayed
    /\ store.session /\ store.receipt = "none" /\ ~overlapped =>
         \A q \in Questions \ strayed : Agree(q)

LEMMA OneToggle ==
  ASSUME NEW S \in SUBSET Ops, NEW i \in Ops
  PROVE  /\ i \notin S => (Even(Cardinality(S \cup {i})) <=> ~Even(Cardinality(S)))
         /\ i \in S => (Even(Cardinality(S \ {i})) <=> ~Even(Cardinality(S)))
<1>1. IsFiniteSet(S)
  <2>1. 1 \in Int /\ MaxOps \in Int BY Numbers
  <2>2. IsFiniteSet(Ops) BY <2>1, FS_Interval DEF Ops
  <2> QED BY <2>2, FS_Subset
<1>2. \A n \in Nat : Even(n + 1) <=> ~Even(n) BY DEF Even
<1>3. Cardinality(S) \in Nat BY <1>1, FS_CardinalityType
<1>4. i \notin S => Cardinality(S \cup {i}) = Cardinality(S) + 1 BY <1>1, FS_AddElement
<1>5. i \in S => /\ Cardinality(S \ {i}) = Cardinality(S) - 1
                 /\ IsFiniteSet(S \ {i})
  BY <1>1, FS_RemoveElement
<1>6. i \in S => Cardinality(S \ {i}) \in Nat /\ Cardinality(S) = Cardinality(S \ {i}) + 1
  BY <1>3, <1>5, FS_CardinalityType
<1> QED BY <1>2, <1>3, <1>4, <1>6

LEMMA NoneHeard == \A q : Heard(q) = {} => Even(Cardinality(Heard(q)))
<1>1. Cardinality({}) = 0 BY FS_EmptySet
<1> QED BY <1>1 DEF Even

\* Nothing that matters for the flags changes.
LEMMA FlagsKept ==
  ASSUME FlagInv, Ready' => Ready, ~overlapped' => ~overlapped, strayed \subseteq strayed',
         store'.session = store.session, store'.receipt = store.receipt, store'.flags = store.flags,
         \A j \in Ops : Stray(j)' => Stray(j) /\ calls'[j].q = calls[j].q,
         \A q \in Questions \ strayed' :
            Heard(q)' = Heard(q) /\ (stored'[q].flagged <=> stored[q].flagged)
  PROVE  FlagInv'
<1> SUFFICES ASSUME Ready' PROVE /\ \A i \in Ops : Stray(i)' => calls'[i].q \in strayed'
                                 /\ store'.session /\ store'.receipt = "none" /\ ~overlapped' =>
                                      \A q \in Questions \ strayed' : Agree(q)'
  BY DEF FlagInv
<1>1. \A i \in Ops : Stray(i)' => calls'[i].q \in strayed' BY DEF FlagInv
<1>2. ASSUME store'.session, store'.receipt = "none", ~overlapped', NEW q \in Questions \ strayed'
      PROVE  Agree(q)'
  <2>1. Agree(q) BY <1>2 DEF FlagInv
  <2>2. Heard(q)' = Heard(q) /\ (stored'[q].flagged <=> stored[q].flagged) BY <1>2
  <2>3. Cardinality(Heard(q)') = Cardinality(Heard(q)) BY <2>2
  <2> QED BY <2>1, <2>2, <2>3 DEF Agree
<1> QED BY <1>1, <1>2

\* One request moves, and it is no toggle that is answered.
LEMMA FlagsKeptMove ==
  ASSUME Types, FlagInv, NEW i \in Calls, NEW d, Moves(i, d), i = 0 => d.stage # "ready",
         ~overlapped' => ~overlapped, strayed' = strayed,
         store'.session = store.session, store'.receipt = store.receipt, store'.flags = store.flags,
         \A q \in Questions : stored'[q].flagged <=> stored[q].flagged,
         d.op = "flag" => /\ d.q = calls[i].q /\ d.page = calls[i].page /\ calls[i].op = "flag"
                          /\ calls[i].stage \in {"sent", "loaded"} /\ d.stage \in {"sent", "loaded"},
         i \in Ops /\ calls[i].op = "flag" => calls[i].stage # "answered"
  PROVE  FlagInv'
<1>1. calls'[i] = d /\ \A j \in Calls : j # i => calls'[j] = calls[j] BY Transactions
<1>2. reloads' = reloads BY DEF Moves
<1>3. Ready' => Ready BY <1>1, Numbers DEF Ready
<1>4. \A j \in Ops : Stray(j)' => Stray(j) /\ calls'[j].q = calls[j].q
  BY <1>1, <1>2, Numbers DEF Stray
<1>5. ASSUME NEW q \in Questions PROVE Heard(q)' = Heard(q)
  <2>1. \A j \in Ops : /\ calls'[j].op = "flag" /\ calls'[j].q = q /\ calls'[j].stage = "answered"
                       <=> calls[j].op = "flag" /\ calls[j].q = q /\ calls[j].stage = "answered"
    BY <1>1, Numbers
  <2> QED BY <2>1 DEF Heard
<1> QED BY <1>3, <1>4, <1>5, FlagsKept

\* The server makes a toggle that this page asked for.
LEMMA FlagCommits ==
  ASSUME Types, CallsShape, Undisturbed, FlagInv, NEW i \in Calls, Commits(i), calls[i].op = "flag"
  PROVE  FlagInv'
<1> DEFINE c == calls[i]
<1>1. /\ i \in Ops /\ c.stage = "loaded" /\ c.q \in Questions /\ c \in CallRow
      /\ UNCHANGED <<store, strayed>>
      /\ overlapped' = (overlapped \/ \E j \in InTransaction \ {i} : Overlap(i, j))
      /\ \/ Moves(i, NoCall) /\ stored' = stored
         \/ /\ Moves(i, Replied(c))
            /\ stored' = [stored EXCEPT ![c.q] = [stored[c.q] EXCEPT !.exists = TRUE, !.flagged = ~c.was]]
  BY CommitStep DEF Types, CallRow
<1>2. ~overlapped' => ~overlapped BY <1>1
<1>3. CASE Moves(i, NoCall) /\ stored' = stored
  BY <1>1, <1>2, <1>3, Constants, Numbers, FlagsKeptMove
<1>4. CASE /\ Moves(i, Replied(c))
           /\ stored' = [stored EXCEPT ![c.q] = [stored[c.q] EXCEPT !.exists = TRUE, !.flagged = ~c.was]]
  <2>1. calls'[i] = Replied(c) /\ reloads' = reloads /\ \A j \in Calls : j # i => calls'[j] = calls[j]
    BY <1>4, Transactions DEF Moves
  <2> DEFINE r == stored[c.q]
             new == [r EXCEPT !.exists = TRUE, !.flagged = ~c.was]
  <2>0. r \in AnswerRow /\ c.was \in BOOLEAN BY <1>1 DEF Types, CallRow
  <2>a. new.flagged <=> ~c.was BY <2>0 DEF AnswerRow
  <2> HIDE DEF new
  <2>2. stored'[c.q].flagged <=> ~c.was
    <3>1. stored'[c.q] = new BY <1>1, <1>4 DEF Types, new
    <3> QED BY <2>a, <3>1
  <2>3. \A q \in Questions : q # c.q => stored'[q] = stored[q] BY <1>1, <1>4 DEF Types
  <2>4. Ready' = Ready BY <1>1, <2>1, Numbers DEF Ready
  <2>5. \A q \in Questions : q # c.q => Heard(q)' = Heard(q)
    <3> SUFFICES ASSUME NEW q \in Questions, q # c.q PROVE Heard(q)' = Heard(q) OBVIOUS
    <3>1. Replied(c).q = c.q \/ Replied(c).op = "none" BY <1>1, RepliedRow, Constants
    <3>2. \A j \in Ops : /\ calls'[j].op = "flag" /\ calls'[j].q = q /\ calls'[j].stage = "answered"
                         <=> calls[j].op = "flag" /\ calls[j].q = q /\ calls[j].stage = "answered"
      BY <2>1, <3>1, Numbers
    <3> QED BY <3>2 DEF Heard
  <2>6. \A j \in Ops : Stray(j)' => Stray(j) /\ calls'[j].q = calls[j].q
    <3>1. Replied(c).stage \in {"none", "answered"} BY <1>1, RepliedRow, Constants
    <3> QED BY <2>1, <3>1, Numbers DEF Stray
  <2>7. CASE c.page # reloads
    <3>1. Ready => c.q \in strayed BY <1>1, <2>7 DEF FlagInv, Stray
    <3>2. CASE Ready
      BY <1>1, <1>2, <2>3, <2>4, <2>5, <2>6, <3>1, <3>2, FlagsKept
    <3>3. CASE ~Ready BY <2>4, <3>3 DEF FlagInv
    <3> QED BY <3>2, <3>3
  <2>8. CASE c.page = reloads
    <3> PICK p \in Questions : p = c.q BY <1>1
    <3>1. Replied(c).op = "flag" /\ Replied(c).q = p /\ Replied(c).stage = "answered"
      BY <1>1, <2>8, RepliedRow
    <3>2. Heard(p)' = Heard(p) \cup {i} /\ i \notin Heard(p) /\ Heard(p) \in SUBSET Ops
      <4>1. \A j \in Ops : /\ calls'[j].op = "flag" /\ calls'[j].q = p /\ calls'[j].stage = "answered"
                           <=> j = i \/ (calls[j].op = "flag" /\ calls[j].q = p /\ calls[j].stage = "answered")
        BY <2>1, <3>1, Numbers
      <4> QED BY <1>1, <4>1 DEF Heard
    <3>3. Even(Cardinality(Heard(p)')) <=> ~Even(Cardinality(Heard(p)))
      BY <1>1, <3>2, OneToggle
    <3>4. ASSUME Ready, ~overlapped', store.session, store.receipt = "none",
                 NEW q \in Questions \ strayed
          PROVE  Agree(q)'
      <4>1. Agree(q) /\ ~overlapped BY <1>2, <3>4 DEF FlagInv
      <4>2. CASE q # p
        <5>1. Heard(q)' = Heard(q) /\ stored'[q] = stored[q] BY <2>3, <2>5, <4>2
        <5>2. Cardinality(Heard(q)') = Cardinality(Heard(q)) BY <5>1
        <5> QED BY <1>1, <4>1, <5>1, <5>2 DEF Agree
      <4>3. CASE q = p
        <5>1. c.was <=> stored[p].flagged BY <1>1, <4>1 DEF Undisturbed
        <5>2. stored'[p].flagged <=> ~stored[p].flagged BY <2>2, <5>1
        <5>3. p \in store'.flags <=> p \in store.flags BY <1>1
        <5> QED BY <3>3, <4>1, <4>3, <5>2, <5>3 DEF Agree
      <4> QED BY <4>2, <4>3
    <3>5. \A j \in Ops : Ready /\ Stray(j)' => calls'[j].q \in strayed BY <2>6 DEF FlagInv
    <3> QED BY <1>1, <2>4, <3>4, <3>5 DEF FlagInv
  <2> QED BY <2>7, <2>8
<1> QED BY <1>1, <1>3, <1>4

\* The page makes the toggle.
LEMMA FlagReaches ==
  ASSUME Types, CallsShape, FlagInv, NEW i \in Calls, FlagLands(i)
  PROVE  FlagInv'
<1> DEFINE c == calls[i]
<1>0. c.op = "flag" BY DEF FlagLands
<1> PICK p : p = c.q OBVIOUS
<1>1. /\ i \in Ops /\ c.stage = "answered" /\ c.q \in Questions /\ Moves(i, NoCall)
      /\ UNCHANGED <<stored, strayed, overlapped>>
      /\ store'.session = store.session /\ store'.receipt = store.receipt
      /\ store'.flags = IF c.q \in store.flags THEN store.flags \ {c.q} ELSE store.flags \cup {c.q}
  BY <1>0, LandStep
<1>2. calls'[i] = NoCall /\ reloads' = reloads /\ \A j \in Calls : j # i => calls'[j] = calls[j]
  BY <1>1, Transactions DEF Moves
<1>3. Ready' = Ready BY <1>1, <1>2, Numbers DEF Ready
<1>4. \A j \in Ops : Stray(j)' => Stray(j) /\ calls'[j].q = calls[j].q
  BY <1>2, Constants, Numbers DEF Stray
<1>5. \A q \in Questions : q # p => Heard(q)' = Heard(q)
  <2> SUFFICES ASSUME NEW q \in Questions, q # p PROVE Heard(q)' = Heard(q) OBVIOUS
  <2>1. \A j \in Ops : /\ calls'[j].op = "flag" /\ calls'[j].q = q /\ calls'[j].stage = "answered"
                       <=> calls[j].op = "flag" /\ calls[j].q = q /\ calls[j].stage = "answered"
    BY <1>2, Constants, Numbers
  <2> QED BY <2>1 DEF Heard
<1>6. Heard(p)' = Heard(p) \ {i} /\ i \in Heard(p) /\ Heard(p) \in SUBSET Ops
  <2>1. \A j \in Ops : /\ calls'[j].op = "flag" /\ calls'[j].q = p /\ calls'[j].stage = "answered"
                       <=> j # i /\ (calls[j].op = "flag" /\ calls[j].q = p /\ calls[j].stage = "answered")
    BY <1>2, Constants, Numbers
  <2> QED BY <1>0, <1>1, <2>1 DEF Heard
<1>7. Even(Cardinality(Heard(p)')) <=> ~Even(Cardinality(Heard(p))) BY <1>1, <1>6, OneToggle
<1>8. p \in store'.flags <=> ~(p \in store.flags) BY <1>1
<1>9. \A q \in Questions : q # p => (q \in store'.flags <=> q \in store.flags) BY <1>1
<1>10. ASSUME Ready, ~overlapped, store.session, store.receipt = "none", NEW q \in Questions \ strayed
       PROVE  Agree(q)'
  <2>1. Agree(q) BY <1>10 DEF FlagInv
  <2>2. CASE q # p
    <3>1. Heard(q)' = Heard(q) /\ (q \in store'.flags <=> q \in store.flags) BY <1>5, <1>9, <2>2
    <3>2. Cardinality(Heard(q)') = Cardinality(Heard(q)) BY <3>1
    <3> QED BY <1>1, <2>1, <3>1, <3>2 DEF Agree
  <2>3. CASE q = p BY <1>1, <1>7, <1>8, <2>1, <2>3 DEF Agree
  <2> QED BY <2>2, <2>3
<1>11. \A j \in Ops : Ready /\ Stray(j)' => calls'[j].q \in strayed BY <1>4 DEF FlagInv
<1> QED BY <1>1, <1>3, <1>10, <1>11 DEF FlagInv

\* The page is loaded: nothing of it is on its way, and what older pages left
\* on their way is known to be astray.
LEMMA FlagsLoaded ==
  ASSUME Types, CallsShape, Closing, FlagInv, NEW i \in Calls, CheckInFails(i) \/ get_state(i)
  PROVE  FlagInv'
<1> DEFINE c == calls[i]
<1>1. /\ UNCHANGED <<session, stored, overlapped>> /\ strayed' = Orphans
      /\ c.stage \in {"checkin", "state"} /\ c.page = reloads /\ c \in CallRow
      /\ i # 0 => c.op = "submit"
      /\ \/ store' = EmptyStore
         \/ c.stage = "state" /\ store' = Snapshot(c)
  BY AdoptStep DEF Types
<1>2. PICK d : /\ Moves(i, d) /\ (i # 0 => d = NoCall)
               /\ i = 0 => d.op = "none" /\ d.stage = "ready" /\ d.page = reloads
  BY AdoptStep
<1>3. calls'[i] = d /\ reloads' = reloads /\ \A j \in Calls : j # i => calls'[j] = calls[j]
  BY <1>2, Transactions DEF Moves
<1>4. d.op = "none" BY <1>2, Constants
<1>5. \A j \in Ops : Stray(j)' => calls'[j].q \in strayed'
  <2>1. \A j \in Ops : Stray(j)' => Stray(j) /\ calls'[j] = calls[j] BY <1>3, <1>4, Numbers DEF Stray
  <2>2. \A j \in Ops : Stray(j) => calls[j].q \in Orphans BY Numbers DEF Stray, Orphans, Mine
  <2> QED BY <1>1, <2>1, <2>2
<1>6. CASE store' = EmptyStore BY <1>5, <1>6, Constants DEF FlagInv
<1>7. CASE c.stage = "state" /\ store' = Snapshot(c)
  <2>1. /\ store'.receipt # "none" <=> c.session \in Terminal
        /\ \A q \in Questions : q \in store'.flags <=> stored[q].flagged
    BY <1>1, <1>7, SnapshotRow
  <2>2. CASE i # 0
    <3>1. c.session \in Terminal BY <1>7, <2>2, Numbers DEF Closing
    <3> QED BY <1>5, <2>1, <3>1 DEF FlagInv
  <2>3. CASE i = 0
    <3>1. ~Ready BY <1>1, <2>3 DEF Ready
    <3>2. \A j \in Ops : calls'[j].stage # "answered"
      BY <1>3, <2>3, <3>1, Numbers DEF CallsShape, CallShape
    <3>3. \A q \in Questions : Heard(q)' = {} BY <3>2 DEF Heard
    <3>4. Cardinality({}) = 0 BY FS_EmptySet
    <3>5. ASSUME NEW q \in Questions PROVE Agree(q)'
      <4>1. Even(Cardinality(Heard(q)')) BY <3>3, <3>4 DEF Even
      <4> QED BY <1>1, <2>1, <4>1 DEF Agree
    <3> QED BY <1>5, <3>5 DEF FlagInv
  <2> QED BY <2>2, <2>3
<1> QED BY <1>1, <1>6, <1>7

LEMMA NextFlags ==
  ASSUME Types, CallsShape, Closing, Undisturbed, FlagInv, [Next]_vars
  PROVE  FlagInv'
<1>1. CASE Still
  <2>1. UNCHANGED <<stored, calls, reloads, store, strayed>> BY <1>1 DEF Still
  <2>2. ~overlapped' => ~overlapped BY <1>1, Zenon DEF Still
  <2>3. Ready' = Ready BY <2>1 DEF Ready
  <2>4. \A q : Heard(q)' = Heard(q) BY <2>1 DEF Heard
  <2>5. \A j : Stray(j)' <=> Stray(j) BY <2>1 DEF Stray
  <2> QED BY <2>1, <2>2, <2>3, <2>4, <2>5, FlagsKept
<1>2. ASSUME NEW c, Asks(c) PROVE FlagInv'
  <2>1. /\ ops + 1 \in Ops /\ calls'[ops + 1] = c /\ c.stage = "sent" /\ c.page = reloads /\ Ready
        /\ calls[ops + 1] = NoCall /\ \A j \in Calls : j # ops + 1 => calls'[j] = calls[j]
        /\ UNCHANGED <<stored, store, strayed, overlapped, reloads>>
    BY <1>2, ShapeAsks DEF Asks
  <2>2. \A j \in Ops : Stray(j)' => Stray(j) /\ calls'[j].q = calls[j].q
    BY <2>1, Numbers DEF Stray
  <2>3. ASSUME NEW q PROVE Heard(q)' = Heard(q)
    <3>1. \A j \in Ops : /\ calls'[j].op = "flag" /\ calls'[j].q = q /\ calls'[j].stage = "answered"
                         <=> calls[j].op = "flag" /\ calls[j].q = q /\ calls[j].stage = "answered"
      BY <2>1, Constants, Numbers
    <3> QED BY <3>1 DEF Heard
  <2> QED BY <2>1, <2>2, <2>3, FlagsKept
<1>3. ASSUME NEW i \in Calls, Arrives(i) PROVE FlagInv'
  <2> DEFINE c == calls[i]
  <2>1. /\ c.stage = "sent" /\ c.op \in {"save", "flag", "submit"} /\ c \in CallRow
        /\ UNCHANGED <<stored, store, strayed, overlapped>>
        /\ \/ Moves(i, NoCall) \/ Moves(i, Loaded(c))
           \/ Moves(i, Replied(c)) /\ c.op # "flag"
    BY <1>3, ArriveStep DEF Types
  <2>2. CASE Moves(i, NoCall) BY <2>1, <2>2, Constants, FlagsKeptMove
  <2>3. CASE Moves(i, Loaded(c))
    <3>1. Loaded(c).op = c.op /\ Loaded(c).q = c.q /\ Loaded(c).page = c.page /\ Loaded(c).stage = "loaded"
      BY <2>1, LoadedRow
    <3> QED BY <2>1, <2>3, <3>1, FlagsKeptMove
  <2>4. CASE Moves(i, Replied(c)) /\ c.op # "flag"
    <3>1. Replied(c).op # "flag" /\ Replied(c).stage \in {"none", "answered"}
      BY <2>1, <2>4, RepliedRow, Constants
    <3> QED BY <2>1, <2>4, <3>1, FlagsKeptMove
  <2> QED BY <2>1, <2>2, <2>3, <2>4
<1>4. ASSUME NEW i \in Calls, Commits(i) PROVE FlagInv'
  <2> DEFINE c == calls[i]
  <2>1. /\ i \in Ops /\ c.stage = "loaded" /\ c.op \in {"save", "flag", "submit"} /\ c \in CallRow
        /\ UNCHANGED <<store, strayed>>
        /\ overlapped' = (overlapped \/ \E j \in InTransaction \ {i} : Overlap(i, j))
        /\ Moves(i, NoCall) \/ Moves(i, Replied(c))
        /\ \/ stored' = stored \/ c.op = "flag"
           \/ stored' = [stored EXCEPT ![c.q] =
                           [stored[c.q] EXCEPT !.exists = TRUE, !.value = c.value, !.seq = c.seq]]
    BY <1>4, CommitStep DEF Types
  <2>2. CASE c.op = "flag" BY <1>4, <2>2, FlagCommits
  <2>3. CASE c.op # "flag"
    <3>1. PICK d : Moves(i, d) /\ d.op # "flag" /\ d.stage \in {"none", "answered"}
      BY <2>1, <2>3, RepliedRow, Constants
    <3> DEFINE r == stored[c.q]
               new == [r EXCEPT !.exists = TRUE, !.value = c.value, !.seq = c.seq]
    <3>2. r \in AnswerRow BY <2>1 DEF Types, CallRow
    <3>3. new.flagged = r.flagged BY <3>2 DEF AnswerRow
    <3> HIDE DEF new
    <3>4. \A q \in Questions : stored'[q].flagged <=> stored[q].flagged
      <4>1. stored' = stored \/ stored' = [stored EXCEPT ![c.q] = new] BY <2>1, <2>3 DEF new
      <4> QED BY <3>3, <4>1 DEF Types
    <3>5. ~overlapped' => ~overlapped BY <2>1
    <3> QED BY <2>1, <2>3, <3>1, <3>4, <3>5, Numbers, FlagsKeptMove
  <2> QED BY <2>2, <2>3
<1>5. ASSUME NEW i \in Calls, Fails(i) PROVE FlagInv'
  <2> DEFINE c == calls[i]
  <2>1. /\ i \in Ops /\ Moves(i, NoCall) /\ UNCHANGED <<stored, store, overlapped>>
        /\ strayed' = IF c.op = "flag" /\ c.stage = "answered" THEN strayed \cup {c.q} ELSE strayed
    BY <1>5, FailStep
  <2>2. calls'[i] = NoCall /\ reloads' = reloads /\ \A j \in Calls : j # i => calls'[j] = calls[j]
    BY <2>1, Transactions DEF Moves
  <2>3. Ready' => Ready BY <2>1, <2>2, Numbers DEF Ready
  <2>4. \A j \in Ops : Stray(j)' => Stray(j) /\ calls'[j].q = calls[j].q
    BY <2>2, Constants, Numbers DEF Stray
  <2>5. ASSUME NEW q \in Questions \ strayed' PROVE Heard(q)' = Heard(q)
    <3>1. ~(c.op = "flag" /\ c.q = q /\ c.stage = "answered") BY <2>1, <2>5
    <3>2. \A j \in Ops : /\ calls'[j].op = "flag" /\ calls'[j].q = q /\ calls'[j].stage = "answered"
                         <=> calls[j].op = "flag" /\ calls[j].q = q /\ calls[j].stage = "answered"
      BY <2>2, <3>1, Constants, Numbers
    <3> QED BY <3>2 DEF Heard
  <2> QED BY <2>1, <2>3, <2>4, <2>5, FlagsKept
<1>6. ASSUME NEW i \in Calls, SubmitLands(i) \/ ListExams(i) \/ check_in(i) PROVE FlagInv'
  <2>1. UNCHANGED <<stored, store, strayed, overlapped>> /\ calls[i].op \in {"load", "none", "submit"}
    BY <1>6, GoOnStep
  <2>2. PICK d : /\ Moves(i, d) /\ d.op = calls[i].op /\ d.stage \in {"list", "checkin", "state"}
    BY <1>6, GoOnStep
  <2> QED BY <2>1, <2>2, FlagsKeptMove
<1>7. ASSUME NEW i \in Calls, CheckInFails(i) \/ get_state(i) PROVE FlagInv'
  BY <1>7, FlagsLoaded
<1>8. ASSUME NEW i \in Calls, SaveLands(i) PROVE FlagInv'
  <2>1. calls[i].op = "save" BY <1>8 DEF SaveLands
  <2>2. /\ i \in Ops /\ Moves(i, NoCall) /\ UNCHANGED <<stored, strayed, overlapped>>
        /\ store'.session = store.session /\ store'.receipt = store.receipt /\ store'.flags = store.flags
    BY <1>8, <2>1, LandStep
  <2> QED BY <2>1, <2>2, Constants, Numbers, FlagsKeptMove
<1>9. ASSUME NEW i \in Calls, FlagLands(i) PROVE FlagInv' BY <1>9, FlagReaches
<1>10. CASE LoadFails
  <2>1. PICK d : Moves(0, d) /\ d.stage = "error" BY <1>10, LoadFailStep
  <2>2. ~Ready' BY <2>1, Numbers, Transactions DEF Ready
  <2> QED BY <2>2 DEF FlagInv
<1>11. CASE reload BY <1>11, ShapeReload DEF FlagInv
<1> QED BY <1>1, <1>2, <1>3, <1>4, <1>5, <1>6, <1>7, <1>8, <1>9, <1>10, <1>11, StepKinds

\* Whatever the order in which toggles are asked for, made, answered, lost or
\* left behind by a reload, the page and the server agree about a flag once
\* its toggles have settled, none of their answers was lost and no two writes
\* of the row overlapped (live.ts, toggleFlag; sessions.py, toggle_flag).
THEOREM FlagsSettleEqual == Spec => []FlagsAgree
<1>1. Init => FlagInv
  <2> SUFFICES ASSUME Init PROVE FlagInv OBVIOUS
  <2>1. calls[0] = Boot(0) BY Numbers DEF Init
  <2> QED BY <2>1, BootRow DEF FlagInv, Ready
<1>2. FlagInv => FlagsAgree
  <2> SUFFICES ASSUME FlagInv, NEW q \in Questions, Ready, store.session, store.receipt = "none",
                      q \notin strayed, ~overlapped,
                      \A i \in Calls : calls[i].op = "flag" /\ calls[i].q = q => calls[i].stage = "sent"
               PROVE  q \in store.flags <=> stored[q].flagged
    BY DEF FlagsAgree
  <2>1. Heard(q) = {} BY Numbers DEF Heard
  <2> QED BY <2>1, NoneHeard DEF FlagInv, Agree
<1> QED BY <1>1, <1>2, InitShape, NextShape, InitClosing, NextClosing, InitUndisturbed,
           NextUndisturbed, NextFlags, PTL DEF Spec

-----------------------------------------------------------------------------
(* Answers reported saved.                                                 *)

\* As long as the page is not reloaded its numbers rise with its edits.
Numbered ==
  reloads = 0 =>
    /\ \A q \in Questions : stored[q].seq <= seqs[q] /\ acked[q] <= ops
    /\ \A i \in Ops : calls[i].op = "save" => i \in calls[i].value /\ calls[i].seq <= seqs[calls[i].q]
    /\ \A i, j \in Ops : calls[i].op = "save" /\ calls[j].op = "save" /\ calls[i].q = calls[j].q /\ i < j
                           => calls[i].seq < calls[j].seq

\* The answer v holds an edit at least as new as n.
Newer(v, n) == \E m \in v : m >= n

\* A save either is in what is stored, or replaced by a newer one, or is not
\* handled yet and newer than all that was reported.
Settled(i) ==
  /\ calls[i].seq <= stored[calls[i].q].seq => Newer(stored[calls[i].q].value, i)
  /\ calls[i].seq > stored[calls[i].q].seq => calls[i].stage # "answered" /\ i >= acked[calls[i].q]

SaveInv ==
  /\ Numbered
  /\ reloads = 0 /\ ~overlapped =>
       /\ \A q \in Questions : acked[q] = 0 \/ Newer(stored[q].value, acked[q])
       /\ \A i \in Ops : calls[i].op = "save" => Settled(i)

\* No save is new, none is reported, and what is stored of answers stays.
LEMMA SavesKept ==
  ASSUME SaveInv, UNCHANGED <<ops, reloads, seqs, acked>>, ~overlapped' => ~overlapped,
         \A q \in Questions : stored'[q].seq = stored[q].seq /\ stored'[q].value = stored[q].value,
         \A j \in Ops : calls'[j].op = "save" =>
           /\ calls[j].op = "save" /\ calls'[j].q = calls[j].q /\ calls'[j].q \in Questions
           /\ calls'[j].value = calls[j].value /\ calls'[j].seq = calls[j].seq
           /\ \/ calls'[j].stage = "answered" => calls[j].stage = "answered"
              \/ calls[j].seq <= stored[calls[j].q].seq /\ calls[j].seq \in Nat /\ stored[calls[j].q].seq \in Nat
  PROVE  SaveInv'
<1>1. Numbered' BY DEF SaveInv, Numbered
<1>2. ASSUME NEW j \in Ops, calls'[j].op = "save", reloads' = 0, ~overlapped'
      PROVE  Settled(j)'
  <2>1. Settled(j) BY <1>2 DEF SaveInv
  <2>2. /\ calls'[j].q = calls[j].q /\ calls'[j].seq = calls[j].seq
        /\ stored'[calls[j].q].seq = stored[calls[j].q].seq
        /\ stored'[calls[j].q].value = stored[calls[j].q].value
    BY <1>2
  <2>3. calls[j].seq > stored[calls[j].q].seq => calls'[j].stage # "answered" BY <1>2, <2>1 DEF Settled
  <2> QED BY <2>1, <2>2, <2>3 DEF Settled
<1> QED BY <1>1, <1>2 DEF SaveInv

\* Of the saves of one question the later ones have the higher numbers.
LEMMA SaveOrder ==
  ASSUME Types, Numbered, reloads = 0, NEW i \in Ops, NEW j \in Ops, calls[i].op = "save",
         calls[j].op = "save", calls[i].q = calls[j].q, calls[i].seq <= calls[j].seq
  PROVE  i <= j
<1>1. calls[i].seq \in Nat /\ calls[j].seq \in Nat /\ i \in Nat /\ j \in Nat
  BY Numbers DEF Types, CallRow
<1>2. j < i => calls[j].seq < calls[i].seq BY DEF Numbered
<1> QED BY <1>1, <1>2

LEMMA NextSaves ==
  ASSUME Types, CallsShape, Undisturbed, SaveInv, [Next]_vars
  PROVE  SaveInv'
<1>0. /\ reloads \in Nat /\ \A q \in Questions : stored[q] \in AnswerRow /\ stored[q].seq \in Nat
      /\ \A q \in Questions : acked[q] \in Nat
  <2>1. reloads \in Nat /\ \A q \in Questions : stored[q] \in AnswerRow /\ stored[q].seq \in Nat
    BY Numbers DEF Types, AnswerRow
  <2>2. acked \in [Questions -> Nat] BY Numbers DEF Types
  <2> QED BY <2>1, <2>2
<1>1. CASE Still
  <2>1. UNCHANGED <<stored, calls, ops, reloads, seqs, acked>> BY <1>1 DEF Still
  <2>2. ~overlapped' => ~overlapped BY <1>1, Zenon DEF Still
  <2>3. \A j \in Ops : calls[j].q \in Questions BY Numbers DEF Types, CallRow
  <2> QED BY <2>1, <2>2, <2>3, SavesKept
<1>2. ASSUME NEW i \in Calls, NEW d, Moves(i, d), d = NoCall, UNCHANGED <<stored, acked>>,
             ~overlapped' => ~overlapped
      PROVE  SaveInv'
  <2>1. calls'[i] = NoCall /\ \A j \in Calls : j # i => calls'[j] = calls[j] BY <1>2, Transactions
  <2>2. \A j \in Ops : calls'[j].op = "save" => calls'[j] = calls[j] /\ calls[j].q \in Questions
    BY <2>1, Constants, Numbers DEF Types, CallRow
  <2> QED BY <1>2, <2>2, SavesKept DEF Moves
<1>3. ASSUME NEW i \in Calls, NEW d, Moves(i, d), d.op # "save", UNCHANGED <<stored, acked>>,
             ~overlapped' => ~overlapped
      PROVE  SaveInv'
  <2>1. calls'[i] = d /\ \A j \in Calls : j # i => calls'[j] = calls[j] BY <1>3, Transactions
  <2>2. \A j \in Ops : calls'[j].op = "save" => calls'[j] = calls[j] /\ calls[j].q \in Questions
    BY <1>3, <2>1, Numbers DEF Types, CallRow
  <2> QED BY <1>3, <2>2, SavesKept DEF Moves
<1>4. ASSUME NEW c, Asks(c) PROVE SaveInv'
  <2> DEFINE k == ops + 1
  <2>1. /\ k \in Ops /\ calls'[k] = c /\ calls[k] = NoCall /\ \A j \in Calls : j # k => calls'[j] = calls[j]
    BY <1>4, ShapeAsks
  <2>2. /\ ops' = k /\ UNCHANGED <<stored, reloads, acked, overlapped>> /\ c \in CallRow /\ c.stage = "sent"
        /\ c.op = "save" => /\ k \in c.value /\ c.seq = seqs[c.q] + 1
                            /\ seqs' = [seqs EXCEPT ![c.q] = c.seq]
        /\ c.op # "save" => seqs' = seqs
    BY <1>4 DEF Asks
  <2>3. ops \in Nat /\ c.q \in Questions /\ seqs \in [Questions -> Nat] /\ c.seq \in Nat
    BY <2>2, Numbers DEF Types, CallRow
  <2>4. \A q \in Questions : seqs'[q] \in Nat /\ seqs[q] <= seqs'[q] BY <2>2, <2>3
  <2>5. ASSUME NEW j \in Ops, j # k
        PROVE  /\ calls'[j] = calls[j] /\ calls[j].q \in Questions /\ calls[j].seq \in Nat /\ j \in Nat
               /\ calls[j].op = "save" => j < k
    <3>1. calls'[j] = calls[j] /\ calls[j].q \in Questions /\ calls[j].seq \in Nat /\ j \in Nat
      BY <2>1, <2>5, Numbers DEF Types, CallRow
    <3>2. j > ops => calls[j].op = "none" BY Constants DEF CallsShape, CallShape
    <3> QED BY <2>3, <2>5, <3>1, <3>2
  <2>6. Numbered'
    <3>1. SUFFICES ASSUME reloads = 0
                   PROVE  /\ \A q \in Questions : stored[q].seq <= seqs'[q] /\ acked[q] <= k
                          /\ \A i \in Ops : calls'[i].op = "save" =>
                               i \in calls'[i].value /\ calls'[i].seq <= seqs'[calls'[i].q]
                          /\ \A i, j \in Ops :
                               /\ calls'[i].op = "save" /\ calls'[j].op = "save"
                               /\ calls'[i].q = calls'[j].q /\ i < j
                               => calls'[i].seq < calls'[j].seq
      BY <2>2 DEF Numbered
    <3>2. ASSUME NEW q \in Questions PROVE stored[q].seq <= seqs'[q] /\ acked[q] <= k
      <4>1. stored[q].seq <= seqs[q] /\ acked[q] <= ops BY <3>1 DEF SaveInv, Numbered
      <4>2. acked[q] \in Nat /\ seqs[q] \in Nat BY <1>0, <2>3
      <4> QED BY <1>0, <2>3, <2>4, <4>1, <4>2
    <3>3. ASSUME NEW i \in Ops, calls'[i].op = "save"
          PROVE  i \in calls'[i].value /\ calls'[i].seq <= seqs'[calls'[i].q]
      <4>1. CASE i = k BY <2>1, <2>2, <2>3, <3>3, <4>1
      <4>2. CASE i # k
        <5>1. calls'[i] = calls[i] /\ calls[i].q \in Questions /\ calls[i].seq \in Nat BY <2>5, <4>2
        <5>2. i \in calls[i].value /\ calls[i].seq <= seqs[calls[i].q]
          BY <3>1, <3>3, <5>1 DEF SaveInv, Numbered
        <5>3. seqs[calls[i].q] \in Nat BY <2>3, <5>1
        <5> QED BY <2>4, <5>1, <5>2, <5>3
      <4> QED BY <4>1, <4>2
    <3>4. ASSUME NEW i \in Ops, NEW j \in Ops, calls'[i].op = "save", calls'[j].op = "save",
                 calls'[i].q = calls'[j].q, i < j
          PROVE  calls'[i].seq < calls'[j].seq
      <4>1. i # k
        <5>1. j # k => j < k BY <2>1, <2>5, <3>4
        <5> QED BY <2>3, <3>4, <5>1, Numbers
      <4>2. calls'[i] = calls[i] /\ calls[i].q \in Questions /\ calls[i].seq \in Nat BY <2>5, <4>1
      <4>3. CASE j = k
        <5>1. calls[i].seq <= seqs[c.q] BY <2>1, <3>1, <3>4, <4>2, <4>3 DEF SaveInv, Numbered
        <5>2. seqs[c.q] \in Nat /\ c.seq = seqs[c.q] + 1 BY <2>1, <2>2, <2>3, <3>4, <4>3
        <5> QED BY <2>1, <4>2, <4>3, <5>1, <5>2
      <4>4. CASE j # k BY <2>5, <3>1, <3>4, <4>2, <4>4 DEF SaveInv, Numbered
      <4> QED BY <4>3, <4>4
    <3> QED BY <3>2, <3>3, <3>4
  <2>7. ASSUME reloads = 0, ~overlapped, NEW i \in Ops, calls'[i].op = "save" PROVE Settled(i)'
    <3>1. CASE i = k
      <4>1. stored[c.q].seq <= seqs[c.q] /\ acked[c.q] <= ops BY <2>3, <2>7 DEF SaveInv, Numbered
      <4>2. c.seq = seqs[c.q] + 1 BY <2>1, <2>2, <2>7, <3>1
      <4>3. stored[c.q].seq \in Nat /\ seqs[c.q] \in Nat /\ acked[c.q] \in Nat
        BY <1>0, <2>3
      <4>4. ~(c.seq <= stored[c.q].seq) BY <4>1, <4>2, <4>3
      <4>5. i >= acked[c.q] BY <2>3, <3>1, <4>1, <4>3
      <4> QED BY <2>1, <2>2, <3>1, <4>4, <4>5 DEF Settled
    <3>2. CASE i # k
      <4>1. calls'[i] = calls[i] BY <2>5, <3>2
      <4>2. Settled(i) BY <2>7, <4>1 DEF SaveInv
      <4> QED BY <2>2, <4>1, <4>2 DEF Settled
    <3> QED BY <3>1, <3>2
  <2> QED BY <2>2, <2>6, <2>7 DEF SaveInv
<1>5. ASSUME NEW i \in Calls, Arrives(i) PROVE SaveInv'
  <2> DEFINE c == calls[i]
  <2>1. /\ c.stage = "sent" /\ c \in CallRow /\ UNCHANGED <<stored, acked, overlapped>>
        /\ \/ Moves(i, NoCall) \/ Moves(i, Loaded(c))
           \/ Moves(i, Replied(c)) /\ c.op = "save" /\ c.seq <= stored[c.q].seq
           \/ Moves(i, Replied(c)) /\ c.op = "submit"
    BY <1>5, ArriveStep DEF Types
  <2>2. PICK d : /\ Moves(i, d)
                 /\ \/ d = NoCall
                    \/ /\ d.op = c.op /\ d.q = c.q /\ d.value = c.value /\ d.seq = c.seq
                       /\ d.stage = "answered" /\ c.op = "save" => c.seq <= stored[c.q].seq
    BY <2>1, LoadedRow, RepliedRow
  <2>3. CASE d = NoCall BY <1>2, <2>1, <2>2, <2>3
  <2>4. CASE d # NoCall
    <3>1. calls'[i] = d /\ \A j \in Calls : j # i => calls'[j] = calls[j] BY <2>2, Transactions
    <3>2. ASSUME NEW j \in Ops, calls'[j].op = "save"
          PROVE  /\ calls[j].op = "save" /\ calls'[j].q = calls[j].q /\ calls'[j].q \in Questions
                 /\ calls'[j].value = calls[j].value /\ calls'[j].seq = calls[j].seq
                 /\ \/ calls'[j].stage = "answered" => calls[j].stage = "answered"
                    \/ /\ calls[j].seq <= stored[calls[j].q].seq
                       /\ calls[j].seq \in Nat /\ stored[calls[j].q].seq \in Nat
      <4>1. calls[j].q \in Questions /\ calls[j].seq \in Nat BY Numbers DEF Types, CallRow
      <4>2. stored[calls[j].q].seq \in Nat BY <1>0, <4>1
      <4>3. CASE j = i BY <2>2, <2>4, <3>1, <3>2, <4>1, <4>2, <4>3
      <4>4. CASE j # i BY <3>1, <3>2, <4>1, <4>4, Numbers
      <4> QED BY <4>3, <4>4
    <3> QED BY <2>1, <2>2, <3>2, SavesKept DEF Moves
  <2> QED BY <2>3, <2>4
<1>6. ASSUME NEW i \in Calls, Commits(i) PROVE SaveInv'
  <2> DEFINE c == calls[i]
  <2>1. /\ i \in Ops /\ c.stage = "loaded" /\ c \in CallRow /\ UNCHANGED acked
        /\ ~overlapped' => ~overlapped
        /\ \/ Moves(i, NoCall) /\ stored' = stored
           \/ Moves(i, Replied(c)) /\ stored' = stored /\ c.op = "submit"
           \/ /\ Moves(i, Replied(c)) /\ c.op = "save"
              /\ stored' = [stored EXCEPT ![c.q] =
                              [stored[c.q] EXCEPT !.exists = TRUE, !.value = c.value, !.seq = c.seq]]
           \/ /\ Moves(i, Replied(c)) /\ c.op = "flag"
              /\ stored' = [stored EXCEPT ![c.q] =
                              [stored[c.q] EXCEPT !.exists = TRUE, !.flagged = ~c.was]]
    <3>1. overlapped' = (overlapped \/ \E j \in InTransaction \ {i} : Overlap(i, j))
      BY <1>6, CommitStep
    <3>2. ~overlapped' => ~overlapped BY <3>1, Zenon
    <3> QED BY <1>6, <3>2, CommitStep DEF Types
  <2>2. c.q \in Questions /\ c.seq \in Nat /\ stored[c.q] \in AnswerRow BY <2>1, <1>0 DEF CallRow
  <2>3. CASE Moves(i, NoCall) /\ stored' = stored BY <1>2, <2>1, <2>3
  <2>4. CASE Moves(i, Replied(c)) /\ stored' = stored /\ c.op = "submit"
    <3>1. Replied(c).op # "save" BY <2>1, <2>4, RepliedRow, Constants
    <3> QED BY <1>3, <2>1, <2>4, <3>1
  <2>5. CASE /\ Moves(i, Replied(c)) /\ c.op = "flag"
             /\ stored' = [stored EXCEPT ![c.q] =
                             [stored[c.q] EXCEPT !.exists = TRUE, !.flagged = ~c.was]]
    <3>1. calls'[i] = Replied(c) /\ \A j \in Calls : j # i => calls'[j] = calls[j] BY <2>5, Transactions
    <3>2. Replied(c).op # "save" BY <2>1, <2>5, RepliedRow, Constants
    <3>3. \A j \in Ops : calls'[j].op = "save" => calls'[j] = calls[j] /\ calls[j].q \in Questions
      BY <3>1, <3>2, Numbers DEF Types, CallRow
    <3>4. \A q \in Questions : stored'[q].seq = stored[q].seq /\ stored'[q].value = stored[q].value
      BY <2>2, <2>5 DEF Types, AnswerRow
    <3> QED BY <2>1, <2>5, <3>3, <3>4, SavesKept DEF Moves
  <2>6. CASE /\ Moves(i, Replied(c)) /\ c.op = "save"
             /\ stored' = [stored EXCEPT ![c.q] =
                             [stored[c.q] EXCEPT !.exists = TRUE, !.value = c.value, !.seq = c.seq]]
    <3> DEFINE d == Replied(c)
    <3>1. calls'[i] = d /\ \A j \in Calls : j # i => calls'[j] = calls[j] BY <2>6, Transactions
    <3>2. d.op = "save" => /\ d.q = c.q /\ d.value = c.value /\ d.seq = c.seq
      BY <2>1, RepliedRow, Constants
    <3> HIDE DEF d
    <3>3. stored'[c.q].value = c.value /\ stored'[c.q].seq = c.seq
          /\ \A q \in Questions : q # c.q => stored'[q] = stored[q]
      BY <2>2, <2>6 DEF Types, AnswerRow
    <3>4. ASSUME NEW j \in Ops, calls'[j].op = "save"
          PROVE  /\ calls[j].op = "save" /\ calls'[j].q = calls[j].q /\ calls[j].q \in Questions
                 /\ calls'[j].value = calls[j].value /\ calls'[j].seq = calls[j].seq
                 /\ calls[j].seq \in Nat /\ stored[calls[j].q].seq \in Nat /\ (j # i => calls'[j] = calls[j])
      <4>1. calls[j].q \in Questions /\ calls[j].seq \in Nat BY Numbers DEF Types, CallRow
      <4>2. stored[calls[j].q].seq \in Nat BY <1>0, <4>1
      <4>3. CASE j = i BY <2>6, <3>1, <3>2, <3>4, <4>1, <4>2, <4>3
      <4>4. CASE j # i BY <3>1, <3>4, <4>1, <4>2, <4>4, Numbers
      <4> QED BY <4>3, <4>4
    <3>5. UNCHANGED <<ops, reloads, seqs, acked>> BY <2>1, <2>6 DEF Moves
    <3>6. Numbered'
      <4>1. ASSUME reloads = 0, NEW q \in Questions PROVE stored'[q].seq <= seqs[q]
        <5>1. c.seq <= seqs[c.q] BY <2>1, <2>6, <4>1 DEF SaveInv, Numbered
        <5>2. stored[q].seq <= seqs[q] BY <4>1 DEF SaveInv, Numbered
        <5>3. CASE q = c.q BY <3>3, <5>1, <5>3
        <5>4. CASE q # c.q BY <3>3, <5>2, <5>4
        <5> QED BY <5>3, <5>4
      <4> QED BY <3>4, <3>5, <4>1 DEF SaveInv, Numbered
    <3>7. ASSUME reloads = 0, ~overlapped
          PROVE  /\ c.seq > stored[c.q].seq /\ i \in c.value /\ i >= acked[c.q]
                 /\ acked[c.q] \in Nat /\ stored[c.q].seq \in Nat
      <4>1. c.seq > stored[c.q].seq BY <2>1, <2>6, <3>7 DEF Undisturbed
      <4>2. Settled(i) /\ i \in c.value BY <2>1, <2>6, <3>7 DEF SaveInv, Numbered
      <4> QED BY <1>0, <2>2, <4>1, <4>2 DEF Settled
    <3>8. ASSUME reloads = 0, ~overlapped, NEW q \in Questions
          PROVE  acked[q] = 0 \/ Newer(stored'[q].value, acked[q])
      <4>1. CASE q = c.q BY <3>3, <3>7, <3>8, <4>1 DEF Newer
      <4>2. CASE q # c.q BY <3>3, <3>8, <4>2 DEF SaveInv
      <4> QED BY <4>1, <4>2
    <3>9. ASSUME reloads = 0, ~overlapped, NEW j \in Ops, calls'[j].op = "save" PROVE Settled(j)'
      <4>1. Settled(j) BY <3>4, <3>9 DEF SaveInv
      <4>2. CASE calls[j].q # c.q
        <5>1. j # i /\ stored'[calls[j].q] = stored[calls[j].q] BY <3>3, <3>4, <3>9, <4>2
        <5>2. calls'[j] = calls[j] BY <3>4, <3>9, <5>1
        <5> QED BY <3>5, <4>1, <5>1, <5>2 DEF Settled
      <4>3. CASE calls[j].q = c.q /\ calls[j].seq <= c.seq
        <5>1. j <= i BY <2>1, <2>6, <3>4, <3>9, <4>3, SaveOrder DEF SaveInv
        <5>2. Newer(c.value, j) BY <3>7, <3>9, <5>1 DEF Newer
        <5>3. ~(calls'[j].seq > stored'[c.q].seq) BY <2>2, <3>3, <3>4, <3>9, <4>3
        <5> QED BY <3>3, <3>4, <3>9, <4>3, <5>2, <5>3 DEF Settled
      <4>4. CASE calls[j].q = c.q /\ ~(calls[j].seq <= c.seq)
        <5>1. j # i /\ calls[j].seq > stored[calls[j].q].seq BY <2>2, <3>4, <3>7, <3>9, <4>4
        <5>2. calls'[j] = calls[j] /\ ~(calls'[j].seq <= stored'[calls[j].q].seq)
          BY <3>3, <3>4, <3>9, <4>4, <5>1
        <5> QED BY <3>5, <4>1, <5>1, <5>2 DEF Settled
      <4> QED BY <4>2, <4>3, <4>4
    <3> QED BY <2>1, <3>5, <3>6, <3>8, <3>9 DEF SaveInv
  <2> QED BY <2>1, <2>3, <2>4, <2>5, <2>6
<1>7. ASSUME NEW i \in Calls, Fails(i) PROVE SaveInv' BY <1>2, <1>7, FailStep, Constants
<1>8. ASSUME NEW i \in Calls, SaveLands(i) \/ FlagLands(i) PROVE SaveInv'
  <2>1. /\ i \in Ops /\ calls[i].stage = "answered" /\ Moves(i, NoCall) /\ UNCHANGED <<stored, overlapped>>
        /\ calls[i].q \in Questions
        /\ \/ /\ calls[i].op = "save"
              /\ acked' = [acked EXCEPT ![calls[i].q] = IF i > acked[calls[i].q] THEN i ELSE acked[calls[i].q]]
           \/ calls[i].op = "flag" /\ acked' = acked
    BY <1>8, LandStep
  <2>2. CASE acked' = acked BY <1>2, <2>1, <2>2
  <2>3. PICK p \in Questions : p = calls[i].q BY <2>1
  <2>4. CASE /\ calls[i].op = "save"
             /\ acked' = [acked EXCEPT ![p] = IF i > acked[p] THEN i ELSE acked[p]]
    <3>1. calls'[i] = NoCall /\ \A j \in Calls : j # i => calls'[j] = calls[j] BY <2>1, Transactions
    <3>2. \A j \in Ops : calls'[j].op = "save" => calls'[j] = calls[j] /\ j # i
      BY <3>1, Constants, Numbers
    <3>3. UNCHANGED <<ops, reloads, seqs, stored>> BY <2>1 DEF Moves
    <3>4. i <= ops /\ i \in Nat /\ ops \in Nat
      BY <2>1, <2>4, Constants, Numbers DEF CallsShape, CallShape, Types
    <3>5. acked \in [Questions -> Nat] BY Numbers DEF Types
    <3>6. acked'[p] \in {i, acked[p]} /\ \A q \in Questions : q # p => acked'[q] = acked[q]
      BY <2>4, <3>5
    <3>7. Numbered'
      <4>1. ASSUME reloads = 0, NEW q \in Questions PROVE acked'[q] <= ops
        BY <3>4, <3>6, <4>1 DEF SaveInv, Numbered
      <4> QED BY <3>2, <3>3, <4>1 DEF SaveInv, Numbered
    <3>8. ASSUME reloads = 0, ~overlapped
          PROVE  Newer(stored[p].value, i) /\ calls[i].seq <= stored[p].seq
      <4>1. Settled(i) BY <2>1, <2>4, <3>8 DEF SaveInv
      <4>2. calls[i].seq \in Nat /\ stored[p].seq \in Nat BY <1>0, <2>1 DEF Types, CallRow, Calls, Ops
      <4> QED BY <2>1, <2>3, <4>1, <4>2 DEF Settled
    <3>9. ASSUME reloads = 0, ~overlapped, NEW q \in Questions
          PROVE  acked'[q] = 0 \/ Newer(stored[q].value, acked'[q])
      BY <3>6, <3>8, <3>9 DEF SaveInv
    <3>10. ASSUME reloads = 0, ~overlapped, NEW j \in Ops, calls'[j].op = "save" PROVE Settled(j)'
      <4>1. Settled(j) /\ calls'[j] = calls[j] /\ calls[j].op = "save" BY <3>2, <3>10 DEF SaveInv
      <4>2. calls[j].q \in Questions /\ calls[j].seq \in Nat /\ stored[calls[j].q].seq \in Nat
            /\ calls[i].seq \in Nat
        BY <1>0, Numbers DEF Types, CallRow
      <4>3. ASSUME calls[j].seq > stored[calls[j].q].seq PROVE j >= acked'[calls[j].q]
        <5>1. j >= acked[calls[j].q] BY <4>1, <4>3 DEF Settled
        <5>2. CASE calls[j].q = p
          <6>1. calls[i].seq <= calls[j].seq BY <3>8, <3>10, <4>2, <4>3, <5>2
          <6>2. i <= j BY <2>1, <2>3, <2>4, <3>10, <4>1, <5>2, <6>1, SaveOrder DEF SaveInv
          <6> QED BY <3>6, <5>1, <5>2, <6>2
        <5>3. CASE calls[j].q # p BY <3>6, <4>2, <5>1, <5>3
        <5> QED BY <5>2, <5>3
      <4> QED BY <3>3, <4>1, <4>3 DEF Settled
    <3> QED BY <2>1, <3>3, <3>7, <3>9, <3>10 DEF SaveInv
  <2> QED BY <2>1, <2>2, <2>3, <2>4
<1>9. ASSUME NEW i \in Calls, SubmitLands(i) \/ ListExams(i) \/ check_in(i) PROVE SaveInv'
  <2>1. /\ UNCHANGED <<stored, acked, overlapped>> /\ calls[i].op \in {"load", "none", "submit"}
        /\ \E d : Moves(i, d) /\ d.op = calls[i].op
    BY <1>9, GoOnStep
  <2> QED BY <1>3, <2>1
<1>10. ASSUME NEW i \in Calls, CheckInFails(i) \/ get_state(i) PROVE SaveInv'
  <2>1. UNCHANGED <<stored, acked, overlapped>> BY <1>10, AdoptStep
  <2>2. \E d : Moves(i, d) /\ d.op # "save" BY <1>10, AdoptStep, Constants
  <2> QED BY <1>3, <2>1, <2>2
<1>11. CASE LoadFails
  <2>1. UNCHANGED <<stored, acked, overlapped>> /\ \E d : Moves(0, d) /\ d.op = calls[0].op
    BY <1>11, LoadFailStep
  <2>2. calls[0].op # "save" /\ 0 \in Calls BY Numbers DEF CallsShape
  <2> QED BY <1>3, <2>1, <2>2
<1>12. CASE reload
  <2>1. reloads' # 0 BY <1>0, <1>12 DEF reload
  <2> QED BY <2>1 DEF SaveInv, Numbered
<1> QED BY <1>1, <1>4, <1>5, <1>6, <1>7, <1>8, <1>9, <1>10, <1>11, <1>12, StepKinds

LEMMA InitSaves == Init => SaveInv
<1> SUFFICES ASSUME Init PROVE SaveInv OBVIOUS
<1>1. \A i \in Ops : calls[i].op = "none" BY Constants, Numbers DEF Init
<1>2. \A q \in Questions : stored[q].seq = 0 /\ seqs[q] = 0 /\ acked[q] = 0 /\ ops = 0
  BY Constants DEF Init
<1> QED BY <1>1, <1>2 DEF SaveInv, Numbered

\* Of a page that is not reloaded: once a save was reported saved, what the
\* server stores is at least as new, however many saves of however many
\* questions are on their way, lost, or handled out of order, as long as no two
\* of one question are in the server at once (live.ts, nextSeq; sessions.py,
\* save_answer).
THEOREM SavedStaysSaved == Spec => []AckedKept
<1>1. Types /\ CallsShape /\ Undisturbed /\ SaveInv /\ [Next]_vars => SaveInv' BY NextSaves
<1>2. Types /\ CallsShape /\ Undisturbed /\ [Next]_vars => Undisturbed' BY NextUndisturbed
<1>3. SaveInv => AckedKept BY DEF SaveInv, AckedKept, Kept, Newer
<1> QED BY <1>1, <1>2, <1>3, InitShape, NextShape, InitUndisturbed, InitSaves, PTL DEF Spec
==============================================================================

-------------------------- MODULE ForwardingProofs --------------------------
(***************************************************************************)
(* The safety properties of Forwarding hold for any number of runtimes,    *)
(* clients, commands, requests, ownership changes and failures.            *)
(***************************************************************************)
EXTENDS Forwarding, TLAPS

\* Only requests of a connection are open or stored, only stored ones answered.
RowsFollowCalls ==
    \A r \in Request :
        /\ row[r].reply # "none" => row[r].stored
        /\ row[r].stored \/ call[r].open => call[r].from \in Connection

\* The writer column is what the log says: the latest claim, not released.
WriterFollowsLog ==
    writer # NoOne =>
        \E m \in DOMAIN log :
            /\ log[m].op = "claim_writer" /\ log[m].from = writer
            /\ \A k \in (m + 1) .. Len(log) : log[k].op = "send"

IInv ==
    /\ TypeOK
    /\ RowsFollowCalls
    /\ CommandsOnce
    /\ RepliesTellTheTruth
    /\ WritersAreFenced
    /\ WriterFollowsLog

----------------------------------------------------------------------------

\* Before the first request there is nothing to disagree about.
LEMMA InitIInv == Init => IInv
  <1> SUFFICES ASSUME Init PROVE IInv
    OBVIOUS
  <1> USE DEF Init
  <1>1. row \in [Request -> Row]
    BY DEF NoRow, Row, Reply
  <1>2. call \in [Request -> Envelope]
    BY DEF NoCall, Envelope, Operation, Result
  <1>3. /\ slot \in [Instance -> Slot]
        /\ \A i \in Instance : slot[i].at = "idle"
    BY DEF IdleSlot, Slot
  <1>4. log \in Seq(Entry) /\ DOMAIN log = {}
    OBVIOUS
  <1>5. TypeOK
    BY <1>1, <1>2, <1>3, <1>4 DEF TypeOK
  <1>6. RowsFollowCalls
    BY DEF RowsFollowCalls, NoRow, NoCall
  <1>7. RepliesTellTheTruth
    BY <1>4 DEF RepliesTellTheTruth, NoRow, NoCall, EntriesOf
  <1>8. CommandsOnce /\ WritersAreFenced /\ WriterFollowsLog
    BY <1>4 DEF CommandsOnce, WritersAreFenced, WriterFollowsLog
  <1> QED
    BY <1>5, <1>6, <1>7, <1>8 DEF IInv

\* A request a dispatcher may still apply was made by a connection and has
\* neither a reply nor an entry.
LEMMA LockedRequest ==
    ASSUME IInv, NEW i \in Instance, slot[i].at # "idle", Locked(i)
    PROVE  /\ slot[i].request \in Request
           /\ row[slot[i].request].reply = "none"
           /\ call[slot[i].request].from \in Connection
           /\ EntriesOf(slot[i].request) = {}
  <1>1. slot[i].request \in Request
    BY DEF IInv, TypeOK
  <1>2. row[slot[i].request].reply = "none" /\ row[slot[i].request].stored
    BY DEF Locked, Waiting
  <1> QED
    BY <1>1, <1>2 DEF IInv, RowsFollowCalls, RepliesTellTheTruth

\* Replies are replies.
LEMMA VerdictIsReply ==
    ASSUME NEW r \in Request PROVE Verdict(r) \in Reply
  BY DEF Verdict, Reply

\* A commit adds at most one entry, and only to the log's end.
LEMMA CommitIInv ==
    ASSUME IInv, NEW i \in Instance, slot[i].at # "idle", Locked(i),
           Commit(slot[i].request),
           UNCHANGED <<owner, generation, call, holds>>,
           slot' \in [Instance -> Slot],
           \A j \in Instance : slot'[j].at # "idle" => slot'[j].request \in Request,
           faults' \in Nat
    PROVE  IInv'
  <1>0. PICK r \in Request : r = slot[i].request
    BY LockedRequest
  <1> DEFINE e == [op |-> call[r].op, by |-> r, from |-> call[r].from,
                   command |-> call[r].command]
  <1>1. /\ r \in Request
        /\ row[r].reply = "none"
        /\ call[r].from \in Connection
        /\ EntriesOf(r) = {}
    BY <1>0, LockedRequest
  <1>2. call[r] \in Envelope /\ row[r] \in Row
    BY <1>1 DEF IInv, TypeOK
  <1>3. e \in Entry
    BY <1>1, <1>2 DEF Entry, Envelope
  <1>4. Verdict(r) \in Reply /\ Verdict(r) # "none"
    BY <1>1, VerdictIsReply DEF Reply
  <1>5. row' = [row EXCEPT ![r].reply = Verdict(r)]
    BY <1>0 DEF Commit
  <1>6. log \in Seq(Entry) /\ DOMAIN log = 1..Len(log) /\ Len(log) \in Nat
    BY DEF IInv, TypeOK
  <1>7. row' \in [Request -> Row]
    BY <1>1, <1>2, <1>4, <1>5 DEF IInv, TypeOK, Row
  <1>8. /\ row'[r].reply = Verdict(r)
        /\ row'[r].stored = row[r].stored
        /\ \A q \in Request : q # r => row'[q] = row[q]
    BY <1>1, <1>2, <1>5 DEF IInv, TypeOK, Row
  <1>9. row[r].stored
    BY <1>0 DEF Locked, Waiting
  <1>10. RowsFollowCalls'
    BY <1>1, <1>8, <1>9 DEF IInv, RowsFollowCalls
  <1>11. CASE Verdict(r) # "accepted"
    <2>1. log' = log /\ writer' = writer
      BY <1>0, <1>11 DEF Commit
    <2>2. TypeOK'
      BY <2>1, <1>7 DEF IInv, TypeOK
    <2>3. CommandsOnce' /\ WritersAreFenced' /\ WriterFollowsLog'
      BY <2>1 DEF IInv, CommandsOnce, WritersAreFenced, WriterFollowsLog
    <2>4. Verdict(r) = "duplicate" => Recorded(call[r].command)
      BY DEF Verdict
    <2>5. RepliesTellTheTruth'
      <3> SUFFICES ASSUME NEW q \in Request
                   PROVE  /\ row'[q].reply = "accepted"
                                => \E n \in DOMAIN log : EntriesOf(q) = {n}
                          /\ row'[q].reply # "accepted" => EntriesOf(q) = {}
                          /\ row'[q].reply = "duplicate" => Recorded(call[q].command)
                          /\ call[q].result \notin {"none", "unknown"}
                                => call[q].result = row'[q].reply
        BY <2>1 DEF RepliesTellTheTruth, EntriesOf, Recorded
      <3>1. CASE q # r
        BY <3>1, <1>8 DEF IInv, RepliesTellTheTruth
      <3>2. CASE q = r
        <4>1. call[r].result \notin {"none", "unknown"} => FALSE
          BY <1>1, <1>2 DEF IInv, RepliesTellTheTruth, Envelope, Result, Reply
        <4> QED
          BY <3>2, <4>1, <2>4, <1>8, <1>1, <1>11
      <3> QED
        BY <3>1, <3>2
    <2> QED
      BY <2>2, <2>3, <2>5, <1>10 DEF IInv
  <1>12. CASE Verdict(r) = "accepted"
    <2>1. log' = Append(log, e)
      BY <1>0, <1>12 DEF Commit
    <2>2. /\ log' \in Seq(Entry)
          /\ Len(log') = Len(log) + 1
          /\ DOMAIN log' = 1..(Len(log) + 1)
          /\ \A n \in 1..Len(log) : log'[n] = log[n]
          /\ log'[Len(log) + 1] = e
      BY <2>1, <1>3, <1>6
    <2>3. writer' = IF call[r].op = "claim_writer" THEN call[r].from
                    ELSE IF call[r].op = "release_writer" THEN NoOne ELSE writer
      BY <1>0, <1>12 DEF Commit
    <2>4. writer' \in Connection \cup {NoOne}
      BY <2>3, <1>1 DEF IInv, TypeOK
    <2>5. TypeOK'
      BY <2>2, <2>4, <1>7 DEF IInv, TypeOK
    <2>6. call[r].op # "claim_writer" => writer = call[r].from
      BY <1>12 DEF Verdict, ValidWriter
    <2>7. call[r].op = "send" => ~Recorded(call[r].command)
      BY <1>12 DEF Verdict
    <2>8. CommandsOnce'
      <3> SUFFICES ASSUME NEW m \in 1..(Len(log) + 1), NEW n \in 1..(Len(log) + 1),
                          log'[m].op = "send", log'[n].op = "send",
                          log'[m].command = log'[n].command
                   PROVE  m = n
        BY <2>2 DEF CommandsOnce
      <3>1. CASE m \in 1..Len(log) /\ n \in 1..Len(log)
        BY <3>1, <2>2, <1>6 DEF IInv, CommandsOnce
      <3>2. CASE m = Len(log) + 1 /\ n \in 1..Len(log)
        BY <3>2, <2>2, <2>7, <1>6 DEF Recorded
      <3>3. CASE n = Len(log) + 1 /\ m \in 1..Len(log)
        BY <3>3, <2>2, <2>7, <1>6 DEF Recorded
      <3> QED
        BY <3>1, <3>2, <3>3, <1>6
    <2>9. RepliesTellTheTruth'
      <3>1. \A q \in Request : q # r => EntriesOf(q)' = EntriesOf(q)
        <4> SUFFICES ASSUME NEW q \in Request, q # r
                     PROVE  EntriesOf(q)' = EntriesOf(q)
          OBVIOUS
        <4>1. \A n \in 1..(Len(log) + 1) :
                 log'[n].by = q => n \in 1..Len(log)
          BY <2>2, <1>6
        <4>2. EntriesOf(q)' = {n \in 1..(Len(log) + 1) : log'[n].by = q}
          BY <2>2 DEF EntriesOf
        <4>3. EntriesOf(q) = {n \in 1..Len(log) : log[n].by = q}
          BY <1>6 DEF EntriesOf
        <4>4. \A n \in 1..Len(log) : n \in 1..(Len(log) + 1)
          BY <1>6
        <4>5. \A n : n \in EntriesOf(q)' <=> n \in EntriesOf(q)
          BY <4>1, <4>2, <4>3, <4>4, <2>2
        <4> QED
          BY <4>5, <4>2, <4>3
      <3>2. EntriesOf(r)' = {Len(log) + 1}
        <4>1. \A n \in 1..Len(log) : log[n].by # r
          BY <1>1, <1>6 DEF EntriesOf
        <4> QED
          BY <4>1, <2>2, <1>6 DEF EntriesOf
      <3>3. call' = call
        OBVIOUS
      <3>4. call[r].result \in {"none", "unknown"}
        BY <1>1, <1>2 DEF IInv, RepliesTellTheTruth, Envelope, Result, Reply
      <3> SUFFICES ASSUME NEW q \in Request
                   PROVE  /\ row'[q].reply = "accepted"
                                => \E n \in DOMAIN log' : EntriesOf(q)' = {n}
                          /\ row'[q].reply # "accepted" => EntriesOf(q)' = {}
                          /\ row'[q].reply = "duplicate" => Recorded(call[q].command)'
                          /\ call[q].result \notin {"none", "unknown"}
                                => call[q].result = row'[q].reply
        BY <3>3 DEF RepliesTellTheTruth
      <3>5. CASE q # r
        <4>1. row'[q] = row[q] /\ EntriesOf(q)' = EntriesOf(q)
          BY <3>5, <3>1, <1>8
        <4>2. \A n \in DOMAIN log : n \in DOMAIN log'
          BY <2>2, <1>6
        <4>3. Recorded(call[q].command) => Recorded(call[q].command)'
          BY <2>2, <1>6 DEF Recorded
        <4> QED
          BY <4>1, <4>2, <4>3 DEF IInv, RepliesTellTheTruth
      <3>6. CASE q = r
        BY <3>6, <3>2, <3>4, <1>8, <1>12, <2>2, <1>6
      <3> QED
        BY <3>5, <3>6
    <2>10. WritersAreFenced'
      <3> SUFFICES ASSUME NEW n \in 1..(Len(log) + 1), log'[n].op = "send"
                   PROVE  \E m \in 1..(n - 1) :
                             /\ log'[m].op = "claim_writer"
                             /\ log'[m].from = log'[n].from
                             /\ \A k \in (m + 1)..(n - 1) : log'[k].op = "send"
        BY <2>2 DEF WritersAreFenced
      <3>1. CASE n \in 1..Len(log)
        <4>1. PICK m \in 1..(n - 1) :
                 /\ log[m].op = "claim_writer" /\ log[m].from = log[n].from
                 /\ \A k \in (m + 1)..(n - 1) : log[k].op = "send"
          BY <3>1, <2>2, <1>6 DEF IInv, WritersAreFenced
        <4>2. m \in 1..Len(log) /\ \A k \in (m + 1)..(n - 1) : k \in 1..Len(log)
          BY <3>1, <1>6
        <4>3. /\ log'[m] = log[m] /\ log'[n] = log[n]
              /\ \A k \in (m + 1)..(n - 1) : log'[k] = log[k]
          BY <4>2, <3>1, <2>2
        <4> QED
          BY <4>1, <4>3
      <3>2. CASE n = Len(log) + 1
        <4>1. call[r].op = "send" /\ writer = call[r].from /\ writer # NoOne
          BY <3>2, <2>2, <2>6, <1>1, ForwardingAssumption
        <4>2. PICK m \in 1..Len(log) :
                 /\ log[m].op = "claim_writer" /\ log[m].from = writer
                 /\ \A k \in (m + 1)..Len(log) : log[k].op = "send"
          BY <4>1, <1>6 DEF IInv, WriterFollowsLog
        <4> QED
          BY <4>1, <4>2, <3>2, <2>2, <1>6
      <3> QED
        BY <3>1, <3>2, <1>6
    <2>11. WriterFollowsLog'
      <3>1. CASE call[r].op = "claim_writer"
        BY <3>1, <2>2, <2>3, <1>6 DEF WriterFollowsLog
      <3>2. CASE call[r].op = "release_writer"
        BY <3>2, <2>3 DEF WriterFollowsLog
      <3>3. CASE call[r].op = "send"
        <4>1. writer' = writer
          BY <3>3, <2>3
        <4>2. writer # NoOne
          BY <3>3, <2>6, <1>1, ForwardingAssumption
        <4>3. PICK m \in 1..Len(log) :
                 /\ log[m].op = "claim_writer" /\ log[m].from = writer
                 /\ \A k \in (m + 1)..Len(log) : log[k].op = "send"
          BY <4>2, <1>6 DEF IInv, WriterFollowsLog
        <4>4. \A k \in (m + 1)..Len(log') : log'[k].op = "send"
          <5>1. \A k \in (m + 1)..Len(log') :
                   k = Len(log) + 1 \/ (k \in 1..Len(log) /\ k \in (m + 1)..Len(log))
            BY <2>2, <1>6
          <5>2. log'[Len(log) + 1].op = "send"
            BY <3>3, <2>2
          <5>3. \A k \in 1..Len(log) : k \in (m + 1)..Len(log) => log'[k].op = "send"
            BY <4>3, <2>2
          <5> QED
            BY <5>1, <5>2, <5>3
        <4> QED
          BY <4>1, <4>3, <4>4, <2>2, <1>6 DEF WriterFollowsLog
      <3> QED
        BY <3>1, <3>2, <3>3, <1>2 DEF Envelope, Operation
    <2> QED
      BY <2>5, <2>8, <2>9, <2>10, <2>11, <1>10 DEF IInv
  <1> QED
    BY <1>11, <1>12

\* Steps that leave the log, the replies and the writer alone, and the client's
\* side too, can only disturb the types.
LEMMA QuietIInv ==
    ASSUME IInv, TypeOK', UNCHANGED <<writer, log, row, call>>
    PROVE  IInv'
  <1>1. RowsFollowCalls' /\ CommandsOnce' /\ WritersAreFenced' /\ WriterFollowsLog'
    BY DEF IInv, RowsFollowCalls, CommandsOnce, WritersAreFenced, WriterFollowsLog
  <1>2. RepliesTellTheTruth'
    BY DEF IInv, RepliesTellTheTruth, EntriesOf, Recorded
  <1> QED
    BY <1>1, <1>2 DEF IInv

\* A busy slot stays well formed when its dispatcher moves on.
LEMMA GotoSlot ==
    ASSUME TypeOK, NEW i \in Instance, slot[i].at # "idle",
           NEW where \in {"applied", "failed"}, Goto(i, where)
    PROVE  /\ slot' \in [Instance -> Slot]
           /\ \A j \in Instance : slot'[j].at # "idle" => slot'[j].request \in Request
  <1>1. slot' = [slot EXCEPT ![i] = [slot[i] EXCEPT !.at = where]]
    BY DEF Goto
  <1>2. [slot[i] EXCEPT !.at = where] \in Slot
    BY DEF TypeOK, Slot
  <1>3. [slot[i] EXCEPT !.at = where].request = slot[i].request
    BY DEF TypeOK, Slot
  <1> QED
    BY <1>1, <1>2, <1>3 DEF TypeOK

\* A slot that is given back is well formed.
LEMMA VacatedSlot ==
    ASSUME TypeOK, NEW i \in Instance, slot' = [slot EXCEPT ![i] = IdleSlot]
    PROVE  /\ slot' \in [Instance -> Slot]
           /\ \A j \in Instance : slot'[j].at # "idle" => slot'[j].request \in Request
  <1>1. IdleSlot \in Slot /\ IdleSlot.at = "idle"
    BY DEF IdleSlot, Slot
  <1> QED
    BY <1>1 DEF TypeOK

\* Ownership changes and what a dispatcher does to its slot alone.
LEMMA ControlIInv ==
    ASSUME IInv, NEW i \in Instance,
           \/ Acquire(i) \/ Lose \/ Pick(i) \/ ApplyNothing(i) \/ ApplyFenced(i)
           \/ HandlerFails(i) \/ Settle(i) \/ InfrastructureReplyFails(i) \/ Crash(i)
    PROVE  IInv'
  <1>1. UNCHANGED <<writer, log, row, call, holds>>
    BY DEF Acquire, Lose, Pick, ApplyNothing, ApplyFenced, HandlerFails, Settle,
           InfrastructureReplyFails, Crash
  <1>2. owner' \in Instance \cup {NoOne} /\ generation' \in Nat /\ faults' \in Nat
    BY DEF Acquire, Lose, Pick, ApplyNothing, ApplyFenced, HandlerFails, Settle,
           InfrastructureReplyFails, Crash, IInv, TypeOK
  <1>3. /\ slot' \in [Instance -> Slot]
        /\ \A j \in Instance : slot'[j].at # "idle" => slot'[j].request \in Request
    <2>1. CASE Acquire(i) \/ Lose
      BY <2>1 DEF Acquire, Lose, IInv, TypeOK
    <2>2. CASE Pick(i)
      BY <2>2 DEF Pick, IInv, TypeOK, Slot
    <2>3. CASE ApplyNothing(i) \/ HandlerFails(i)
      <3>1. \/ slot[i].at # "idle" /\ Goto(i, "applied")
            \/ slot[i].at # "idle" /\ Goto(i, "failed")
        BY <2>3 DEF ApplyNothing, HandlerFails
      <3> QED
        BY <3>1, GotoSlot DEF IInv
    <2>4. CASE ApplyFenced(i) \/ InfrastructureReplyFails(i) \/ Crash(i)
      <3>1. slot' = [slot EXCEPT ![i] = IdleSlot]
        BY <2>4 DEF ApplyFenced, InfrastructureReplyFails, Crash, Vacate, Vacated
      <3> QED
        BY <3>1, VacatedSlot DEF IInv
    <2>5. CASE Settle(i)
      <3>1. \/ slot[i].at # "idle" /\ Goto(i, "failed")
            \/ slot' = [slot EXCEPT ![i] = IdleSlot]
        BY <2>5 DEF Settle, Vacate, Vacated
      <3> QED
        BY <3>1, GotoSlot, VacatedSlot DEF IInv
    <2> QED
      BY <2>1, <2>2, <2>3, <2>4, <2>5
  <1>4. TypeOK'
    BY <1>1, <1>2, <1>3 DEF IInv, TypeOK
  <1> QED
    BY <1>1, <1>4, QuietIInv

\* A step of the client changes one envelope: a fresh one, of a request that is
\* not stored, or only its destination and result.
LEMMA EnvelopeIInv ==
    ASSUME IInv, NEW r \in Request, NEW v \in Envelope,
           call' = [call EXCEPT ![r] = v],
           UNCHANGED <<owner, generation, writer, log, row, slot, faults>>,
           holds' \subseteq Connection,
           \/ Fresh(r) /\ v.result = "none" /\ v.from \in Connection
           \/ v.from = call[r].from /\ v.command = call[r].command /\ ~v.open,
           v.result \notin {"none", "unknown"} => v.result = row[r].reply
    PROVE  IInv'
  <1>1. call' \in [Request -> Envelope]
    BY DEF IInv, TypeOK
  <1>2. /\ call'[r] = v
        /\ \A q \in Request : q # r => call'[q] = call[q]
    BY DEF IInv, TypeOK
  <1>3. Fresh(r) => ~row[r].stored /\ row[r].reply = "none"
    BY ForwardingAssumption DEF IInv, RowsFollowCalls, Fresh, NoCall
  <1>4. TypeOK'
    BY <1>1 DEF IInv, TypeOK
  <1>5. RowsFollowCalls'
    BY <1>2, <1>3 DEF IInv, RowsFollowCalls
  <1>6. CommandsOnce' /\ WritersAreFenced' /\ WriterFollowsLog'
    BY DEF IInv, CommandsOnce, WritersAreFenced, WriterFollowsLog
  <1>7. RepliesTellTheTruth'
    <2> SUFFICES ASSUME NEW q \in Request
                 PROVE  /\ row[q].reply = "accepted"
                              => \E n \in DOMAIN log : EntriesOf(q) = {n}
                        /\ row[q].reply # "accepted" => EntriesOf(q) = {}
                        /\ row[q].reply = "duplicate" => Recorded(call'[q].command)
                        /\ call'[q].result \notin {"none", "unknown"}
                              => call'[q].result = row[q].reply
      BY DEF RepliesTellTheTruth, EntriesOf, Recorded
    <2>1. row[q].reply = "duplicate" => Recorded(call'[q].command)
      BY <1>2, <1>3 DEF IInv, RepliesTellTheTruth
    <2>2. call'[q].result \notin {"none", "unknown"} => call'[q].result = row[q].reply
      BY <1>2 DEF IInv, RepliesTellTheTruth
    <2> QED
      BY <2>1, <2>2 DEF IInv, RepliesTellTheTruth
  <1> QED
    BY <1>4, <1>5, <1>6, <1>7 DEF IInv

\* An unanswered row that stays unanswered, or is answered "handler_failed".
LEMMA RowIInv ==
    ASSUME IInv, NEW r \in Request, NEW v \in Row,
           row' = [row EXCEPT ![r] = v],
           row[r].reply = "none", v.reply \in {"none", "handler_failed"},
           v.stored, call[r].from \in Connection,
           UNCHANGED <<writer, log>>,
           TypeOK',
           \A q \in Request : /\ call'[q].open = call[q].open
                              /\ call'[q].from = call[q].from
                              /\ call'[q].command = call[q].command
                              /\ call'[q].result = call[q].result
    PROVE  IInv'
  <1>1. row'[r] = v /\ \A q \in Request : q # r => row'[q] = row[q]
    BY DEF IInv, TypeOK
  <1>2. RowsFollowCalls'
    BY <1>1 DEF IInv, RowsFollowCalls
  <1>3. CommandsOnce' /\ WritersAreFenced' /\ WriterFollowsLog'
    BY DEF IInv, CommandsOnce, WritersAreFenced, WriterFollowsLog
  <1>4. call[r].result \in {"none", "unknown"}
    <2>1. call[r] \in Envelope
      BY DEF IInv, TypeOK
    <2> QED
      BY <2>1 DEF IInv, RepliesTellTheTruth, Envelope, Result, Reply
  <1>5. RepliesTellTheTruth'
    <2> SUFFICES ASSUME NEW q \in Request
                 PROVE  /\ row'[q].reply = "accepted"
                              => \E n \in DOMAIN log : EntriesOf(q) = {n}
                        /\ row'[q].reply # "accepted" => EntriesOf(q) = {}
                        /\ row'[q].reply = "duplicate" => Recorded(call[q].command)
                        /\ call[q].result \notin {"none", "unknown"}
                              => call[q].result = row'[q].reply
      BY DEF RepliesTellTheTruth, EntriesOf, Recorded
    <2>1. CASE q # r
      BY <2>1, <1>1 DEF IInv, RepliesTellTheTruth
    <2>2. CASE q = r
      BY <2>2, <1>1, <1>4 DEF IInv, RepliesTellTheTruth
    <2> QED
      BY <2>1, <2>2
  <1> QED
    BY <1>2, <1>3, <1>5 DEF IInv

\* _request_command: a fresh envelope belongs to no row and no entry.
LEMMA AskIInv ==
    ASSUME IInv, NEW r \in Request,
           \/ \E w \in Connection : AskClaim(r, w) \/ AskRelease(r, w)
           \/ \E w \in Connection, c \in Command : AskSend(r, w, c)
    PROVE  IInv'
  <1>1. PICK op \in Operation, w \in Connection, c \in Command \cup {NoOne} :
            Ask(r, op, w, c) /\ holds' \in {holds, holds \ {w}}
    BY DEF AskClaim, AskRelease, AskSend, Operation
  <1> DEFINE v == [open |-> TRUE, op |-> op, from |-> w, command |-> c,
                   to |-> NoOne, result |-> "none"]
  <1>2. v \in Envelope /\ v.result = "none" /\ v.from \in Connection
    BY DEF Envelope, Result
  <1>3. Fresh(r) /\ call' = [call EXCEPT ![r] = v]
    BY <1>1 DEF Ask
  <1>4. UNCHANGED <<owner, generation, writer, log, row, slot, faults>>
    BY <1>1 DEF Ask
  <1>5. holds' \subseteq Connection
    BY <1>1 DEF IInv, TypeOK
  <1> HIDE DEF v
  <1> QED
    BY <1>2, <1>3, <1>4, <1>5, EnvelopeIInv

\* The client's result is the reply it read, which is final.
LEMMA ReturnIInv ==
    ASSUME IInv, NEW r \in Request, Return(r) \/ GiveUp(r)
    PROVE  IInv'
  <1>1. PICK res \in Result :
            /\ call' = [call EXCEPT ![r].open = FALSE, ![r].result = res]
            /\ res \notin {"none", "unknown"} => res = row[r].reply
    <2>1. CASE Return(r)
      <3>1. row[r].reply \in Result
        BY DEF IInv, TypeOK, Row, Result
      <3> QED
        BY <2>1, <3>1 DEF Return
    <2>2. CASE GiveUp(r)
      BY <2>2 DEF GiveUp, Result
    <2> QED
      BY <2>1, <2>2
  <1>2. call[r] \in Envelope
    BY DEF IInv, TypeOK
  <1> DEFINE v == [call[r] EXCEPT !.open = FALSE, !.result = res]
  <1>3. v \in Envelope
    BY <1>2 DEF Envelope
  <1>4. call' = [call EXCEPT ![r] = v]
    BY <1>1
  <1>5. /\ v.from = call[r].from /\ v.command = call[r].command /\ ~v.open
        /\ v.result \notin {"none", "unknown"} => v.result = row[r].reply
    BY <1>1, <1>2 DEF Envelope
  <1>6. UNCHANGED <<owner, generation, writer, log, row, slot, faults>>
    BY DEF Return, GiveUp
  <1>7. holds' \subseteq Connection
    <2>1. CASE GiveUp(r)
      BY <2>1 DEF GiveUp, IInv, TypeOK
    <2>2. CASE Return(r)
      <3>1. row[r].stored
        BY <2>2 DEF Return, IInv, RowsFollowCalls
      <3>2. call[r].from \in Connection
        BY <3>1 DEF IInv, RowsFollowCalls
      <3> QED
        BY <2>2, <3>2 DEF Return, IInv, TypeOK
    <2> QED
      BY <2>1, <2>2
  <1> HIDE DEF v
  <1> QED
    BY <1>3, <1>4, <1>5, <1>6, <1>7, EnvelopeIInv

\* _put_request addresses a row only while it has no reply.
LEMMA PutIInv ==
    ASSUME IInv, NEW r \in Request, Put(r)
    PROVE  IInv'
  <1> DEFINE d == <<owner, generation>>
  <1>1. d \in Destination
    BY DEF Put, IInv, TypeOK, Destination
  <1>2. call[r] \in Envelope /\ row[r] \in Row
    BY DEF IInv, TypeOK
  <1>3. call[r].from \in Connection
    BY DEF Put, IInv, RowsFollowCalls
  <1>4. /\ call' \in [Request -> Envelope]
        /\ \A q \in Request : /\ call'[q].open = call[q].open
                              /\ call'[q].from = call[q].from
                              /\ call'[q].command = call[q].command
                              /\ call'[q].result = call[q].result
    <2>1. call' = [call EXCEPT ![r].to = d]
      BY DEF Put
    <2> HIDE DEF d
    <2> QED
      BY <2>1, <1>1, <1>2 DEF IInv, TypeOK, Envelope
  <1>5. UNCHANGED <<owner, generation, writer, log, holds, slot, faults>>
    BY DEF Put
  <1>6. CASE row[r].reply = "none"
    <2> DEFINE v == [row[r] EXCEPT !.stored = TRUE, !.to = d]
    <2>1. v \in Row /\ v.reply = "none" /\ v.stored
      BY <1>1, <1>2, <1>6 DEF Row
    <2>2. row' = [row EXCEPT ![r] = v]
      BY <1>6 DEF Put
    <2> HIDE DEF v, d
    <2>3. row' \in [Request -> Row]
      BY <2>1, <2>2 DEF IInv, TypeOK
    <2>4. TypeOK'
      BY <1>4, <1>5, <2>3 DEF IInv, TypeOK
    <2> QED
      BY <1>3, <1>4, <1>5, <1>6, <2>1, <2>2, <2>4, RowIInv
  <1>7. CASE row[r].reply # "none"
    <2>1. row' = row
      BY <1>7 DEF Put, IInv, TypeOK
    <2>2. TypeOK'
      BY <1>4, <1>5, <2>1 DEF IInv, TypeOK
    <2>3. RowsFollowCalls' /\ CommandsOnce' /\ WritersAreFenced' /\ WriterFollowsLog'
      BY <1>4, <1>5, <2>1
         DEF IInv, RowsFollowCalls, CommandsOnce, WritersAreFenced, WriterFollowsLog
    <2>4. RepliesTellTheTruth'
      BY <1>4, <1>5, <2>1 DEF IInv, RepliesTellTheTruth, EntriesOf, Recorded
    <2> QED
      BY <2>2, <2>3, <2>4 DEF IInv
  <1> QED
    BY <1>6, <1>7

\* A passed deadline changes neither the reply nor the log.
LEMMA DeadlineIInv ==
    ASSUME IInv, NEW r \in Request, Deadline(r)
    PROVE  IInv'
  <1>1. row[r] \in Row /\ row[r].reply = "none" /\ row[r].stored
    BY DEF Deadline, IInv, TypeOK
  <1>2. call[r].from \in Connection
    BY <1>1 DEF IInv, RowsFollowCalls
  <1> DEFINE v == [row[r] EXCEPT !.late = TRUE]
  <1>3. v \in Row /\ v.reply = "none" /\ v.stored
    BY <1>1 DEF Row
  <1>4. row' = [row EXCEPT ![r] = v]
    BY DEF Deadline
  <1> HIDE DEF v
  <1>5. UNCHANGED <<owner, generation, writer, log, call, holds, slot, faults>>
    BY DEF Deadline
  <1>6. TypeOK'
    BY <1>3, <1>4, <1>5 DEF IInv, TypeOK
  <1> QED
    BY <1>1, <1>2, <1>3, <1>4, <1>5, <1>6, RowIInv

\* _infrastructure_reply answers a request that has left no entry.
LEMMA InfrastructureIInv ==
    ASSUME IInv, NEW i \in Instance, InfrastructureReply(i)
    PROVE  IInv'
  <1>1. slot[i].at # "idle" /\ slot' = [slot EXCEPT ![i] = IdleSlot]
    BY DEF InfrastructureReply, Vacate, Vacated
  <1>2. /\ slot' \in [Instance -> Slot]
        /\ \A j \in Instance : slot'[j].at # "idle" => slot'[j].request \in Request
    BY <1>1, VacatedSlot DEF IInv
  <1>3. UNCHANGED <<owner, generation, writer, log, call, holds, faults>>
    BY DEF InfrastructureReply
  <1>4. CASE Locked(i)
    <2>1. PICK r \in Request : r = slot[i].request
      BY <1>1, <1>4, LockedRequest
    <2>2. row[r].reply = "none" /\ call[r].from \in Connection /\ row[r].stored
      BY <1>1, <1>4, <2>1, LockedRequest DEF Locked, Waiting
    <2>3. row[r] \in Row
      BY DEF IInv, TypeOK
    <2> DEFINE v == [row[r] EXCEPT !.reply = "handler_failed"]
    <2>4. v \in Row /\ v.reply = "handler_failed" /\ v.stored
      BY <2>2, <2>3 DEF Row, Reply
    <2>5. row' = [row EXCEPT ![r] = v]
      BY <1>4, <2>1 DEF InfrastructureReply
    <2> HIDE DEF v
    <2>6. TypeOK'
      BY <1>2, <1>3, <2>4, <2>5 DEF IInv, TypeOK
    <2> QED
      BY <1>3, <2>2, <2>4, <2>5, <2>6, RowIInv
  <1>5. CASE ~Locked(i)
    <2>1. row' = row
      BY <1>5 DEF InfrastructureReply
    <2>2. TypeOK'
      BY <1>2, <1>3, <2>1 DEF IInv, TypeOK
    <2> QED
      BY <1>3, <2>1, <2>2, QuietIInv
  <1> QED
    BY <1>4, <1>5

\* _apply_request commits under the lock on the row, heard or unheard.
LEMMA ApplyIInv ==
    ASSUME IInv, NEW i \in Instance, Apply(i) \/ ApplyUnheard(i)
    PROVE  IInv'
  <1>1. /\ slot[i].at # "idle" /\ Locked(i) /\ Commit(slot[i].request)
        /\ UNCHANGED <<owner, generation, call, holds>>
        /\ Goto(i, "applied") \/ Goto(i, "failed")
        /\ faults' \in Nat
    BY DEF Apply, ApplyUnheard, IInv, TypeOK
  <1>2. /\ slot' \in [Instance -> Slot]
        /\ \A j \in Instance : slot'[j].at # "idle" => slot'[j].request \in Request
    BY <1>1, GotoSlot DEF IInv
  <1> QED
    BY <1>1, <1>2, CommitIInv

\* Every step keeps the invariant: one case per action.
LEMMA NextIInv == IInv /\ [Next]_vars => IInv'
  <1> SUFFICES ASSUME IInv, [Next]_vars PROVE IInv'
    OBVIOUS
  <1>1. CASE UNCHANGED vars
    <2>1. UNCHANGED <<owner, generation, writer, log, row, call, holds, slot, faults>>
      BY <1>1 DEF vars
    <2>2. TypeOK'
      BY <2>1 DEF IInv, TypeOK
    <2> QED
      BY <2>1, <2>2, QuietIInv
  <1>2. CASE Lose
    <2>1. \A i \in Instance : IInv'
      BY <1>2, ControlIInv
    <2>2. owner \in Instance
      BY <1>2 DEF Lose, IInv, TypeOK
    <2> QED
      BY <2>1, <2>2
  <1>3. ASSUME NEW r \in Request, Client(r) PROVE IInv'
    BY <1>3, AskIInv, PutIInv, ReturnIInv, DeadlineIInv DEF Client
  <1>4. ASSUME NEW i \in Instance, Acquire(i) \/ Dispatch(i) \/ Failure(i) PROVE IInv'
    BY <1>4, ControlIInv, ApplyIInv, InfrastructureIInv DEF Dispatch, Failure
  <1> QED
    BY <1>1, <1>2, <1>3, <1>4 DEF Next

\* IInv holds in every reachable state, for any number of instances, requests,
\* connections and commands.
THEOREM Inductive == Spec => []IInv
  BY InitIInv, NextIInv, PTL DEF Spec

\* Every column keeps its type, and a busy dispatcher always has a request.
THEOREM TypesHold == Spec => []TypeOK
  <1>1. IInv => TypeOK
    BY DEF IInv
  <1> QED
    BY <1>1, Inductive, PTL

\* However often a command is sent, re-addressed and retried, its input is in
\* the log at most once (find_command inside the fenced transaction).
THEOREM CommandsAreAppliedOnce == Spec => []CommandsOnce
  <1>1. IInv => CommandsOnce
    BY DEF IInv
  <1> QED
    BY <1>1, Inductive, PTL

\* A reply says what its request did and will ever do (operation and reply
\* commit together in _apply_request, lock_request rereads the row).
THEOREM RepliesAreTrue == Spec => []RepliesTellTheTruth
  <1>1. IInv => RepliesTellTheTruth
    BY DEF IInv
  <1> QED
    BY <1>1, Inductive, PTL

\* No input is accepted from a connection that has been replaced or released
\* (validate_writer inside the fenced transaction).
THEOREM WritersStayFenced == Spec => []WritersAreFenced
  <1>1. IInv => WritersAreFenced
    BY DEF IInv
  <1> QED
    BY <1>1, Inductive, PTL

=============================================================================

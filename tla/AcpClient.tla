------------------------------ MODULE AcpClient ------------------------------
(***************************************************************************)
(* TantraAcpClient of packages/tantra-acp-client/src/client.ts: one        *)
(* session of a client that reconnects.                                    *)
(*                                                                         *)
(* The client holds prompts in an outbox and sends them one at a time,     *)
(* redials when the socket closes, resumes its session from the cursor of  *)
(* the last update it applied, and closes on the server what the           *)
(* application no longer wants.  The application may prompt, resume,       *)
(* close, claim the writer, connect and disconnect at any moment, also     *)
(* while a request is in flight or an update is being applied.             *)
(*                                                                         *)
(* The callbacks of client.ts run to completion; a step of this module is  *)
(* one callback together with the promise reactions it triggers.  The      *)
(* server is AcpConnection reduced to what the client can observe          *)
(* (AcpSession models it in full): resumes are served one after another    *)
(* while other requests overtake them, and a prompt in flight when the     *)
(* socket closes may be accepted later.                                    *)
(***************************************************************************)
EXTENDS Integers, Sequences, FiniteSets, SequencesExt

CONSTANTS MaxDials,   \* MAX_DIALS: consecutive failures before the client gives up
          Loads       \* what the application, the network and the server may do

VARIABLES
  load,       \* what is left of the chosen load
  c,          \* the client
  down,       \* messages from the server, in order
  s,          \* the server's side of the connection
  log,        \* number of updates the session's journal has produced
  accepted,   \* commands in the order the runtime accepted them
  limbo,      \* prompts a dead connection was still handling
  outcome     \* how each prompt of the application ended

vars == <<load, c, down, s, log, accepted, limbo, outcome>>

None == 0
NoUpdate == [n |-> 0, obj |-> None]
Session(obj, cursor) ==
  [obj |-> obj, writer |-> FALSE, cursor |-> cursor, paused |-> FALSE, busy |-> FALSE,
   outbox |-> <<>>, delivered |-> <<>>]
NoSession == Session(None, 0)

Init ==
  /\ load \in Loads
  /\ c = [conn |-> "closed", target |-> NoSession, objs |-> 0, pending |-> 0, deferred |-> FALSE,
          calls |-> {}, rid |-> 0, applying |-> NoUpdate, stale |-> {}, link |-> FALSE, peer |-> FALSE,
          failures |-> 0, up |-> <<>>, ended |-> <<>>]
  /\ down = <<>> /\ log = 0 /\ accepted = <<>> /\ limbo = {} /\ outcome = <<>>
  /\ s = [open |-> FALSE, writer |-> FALSE, resuming |-> <<>>, sent |-> 0]

Spend(what) == load[what] > 0 /\ load' = [load EXCEPT ![what] = @ - 1]
Opened(k) == k.target.obj # None

(***************************************************************************)
(* The client's helpers, from a client to a client.  k.ended collects the  *)
(* prompts a helper settles.                                               *)
(***************************************************************************)
\* Peer.request: nothing is remembered when the socket refuses the frame.
Ask(k, req) ==
  LET r == [req EXCEPT !.rid = k.rid + 1] IN
  IF ~k.peer \/ ~k.link THEN k
  ELSE [k EXCEPT !.rid = @ + 1, !.calls = @ \cup {r}, !.up = Append(@, r)]

Req(t, k) == [t |-> t, rid |-> 0, obj |-> k.target.obj, cmd |-> None, retry |-> FALSE,
              write |-> FALSE, user |-> FALSE, existing |-> FALSE, after |-> k.target.cursor]

Settle(k, cmd, how) == [k EXCEPT !.ended = Append(@, [cmd |-> cmd, how |-> how])]

\* pump: the head of the outbox is sent, unless the session waits or is held.
Pump(k) ==
  LET x == k.target IN
  IF Opened(k) /\ x.outbox # <<>> /\ k.peer /\ k.link /\ k.conn = "open" /\ ~x.busy /\ ~x.paused
  THEN LET e == Head(x.outbox) IN
       [Ask(k, [Req("prompt", k) EXCEPT !.cmd = e.cmd, !.retry = e.sent])
          EXCEPT !.target.busy = TRUE, !.target.outbox[1].sent = TRUE]
  ELSE k

Claimed(k) ==
  IF Opened(k) THEN Pump([k EXCEPT !.target.writer = TRUE, !.target.paused = FALSE]) ELSE k

\* reject: a prompt that was sent may have been accepted.
Reject(k) ==
  [FoldLeft(LAMBDA a, e : Settle(a, e.cmd, IF e.sent THEN "uncertain" ELSE "closed"), k, k.target.outbox)
     EXCEPT !.target.outbox = <<>>]

Drop(k) == IF Opened(k) THEN [Reject(k) EXCEPT !.target = NoSession] ELSE k

\* detach: while a resume is in flight the close waits for its answer.
DetachAtOnce(k) ==
  LET d == Drop(k) IN IF k.conn # "open" THEN d ELSE Ask(d, Req("close", d))

Detach(k) ==
  LET d == Drop(k) IN
  IF k.conn # "open" THEN d
  ELSE IF k.pending > 0 THEN [d EXCEPT !.deferred = TRUE]
  ELSE Ask(d, Req("close", d))

\* resumed: the last of the pending resumes carries out the deferred close.
Resumed(k) ==
  LET left == IF k.pending > 0 THEN k.pending - 1 ELSE 0
      d == [k EXCEPT !.pending = left, !.deferred = @ /\ left > 0]
  IN IF left = 0 /\ k.deferred /\ ~Opened(k) THEN Ask(d, Req("close", d)) ELSE d

\* open: the session is created before its resume is sent.
Open(k, write, user, existing) ==
  LET t == IF Opened(k) THEN k
           ELSE [k EXCEPT !.objs = @ + 1, !.target = Session(k.objs + 1, 0)]
  IN Ask(t, [Req("resume", t) EXCEPT !.write = write, !.user = user, !.existing = existing])

\* The promise of a resume() that failed: the session it was for is given up.
GiveUp(k, r) ==
  IF k.target.obj # r.obj THEN k
  ELSE IF r.existing THEN Detach(k)
  ELSE LET d == Drop(k) IN [d EXCEPT !.deferred = @ \/ d.pending > 0]

\* retire: every call in flight fails with "closed"; a prompt stays in the outbox.
Retire(k) ==
  LET resumes == {r \in k.calls : r.t = "resume" /\ r.user /\ r.obj = k.target.obj}
      quiet == [k EXCEPT !.peer = FALSE, !.calls = {}, !.up = <<>>, !.pending = 0,
                         !.deferred = FALSE, !.target.busy = FALSE, !.applying = NoUpdate,
                         !.stale = @ \cup ({k.applying} \ {NoUpdate})]
  IN IF resumes = {} \/ ~Opened(k) THEN quiet ELSE Drop(quiet)

Shutdown(k, conn) ==
  [Retire(Reject([k EXCEPT !.target.writer = FALSE, !.target.paused = FALSE]))
     EXCEPT !.conn = conn]

\* A failed connection attempt: again, or never.
Failed(k) ==
  IF k.failures + 1 = MaxDials THEN Shutdown(k, "failed")
  ELSE [Retire(k) EXCEPT !.conn = "connecting", !.failures = @ + 1]

(***************************************************************************)
(* The steps.  Settled prompts are recorded when a step is over.           *)
(***************************************************************************)
Becomes(k) ==
  /\ c' = [k EXCEPT !.ended = <<>>]
  /\ outcome' = [i \in DOMAIN outcome |->
       LET e == SelectInSeq(k.ended, LAMBDA x : x.cmd = i) IN
       IF e = 0 THEN outcome[i] ELSE k.ended[e].how]

Connect ==
  /\ Spend("connects") /\ c.conn \in {"closed", "failed"}
  /\ Becomes([c EXCEPT !.conn = "connecting", !.failures = 0])
  /\ UNCHANGED <<down, s, log, accepted, limbo>>

\* dial and the start of resumeAll, on a new socket.
Dial ==
  /\ c.conn = "connecting" /\ ~c.peer /\ ~c.link
  /\ LET k == [c EXCEPT !.peer = TRUE, !.link = TRUE] IN
     Becomes(IF Opened(k) THEN Open(k, FALSE, FALSE, TRUE)
             ELSE Pump([k EXCEPT !.conn = "open"]))
  /\ UNCHANGED <<load, down, s, log, accepted, limbo>>

DialFails ==
  /\ Spend("faults") /\ c.conn = "connecting" /\ ~c.peer
  /\ Becomes(Failed(c))
  /\ UNCHANGED <<down, s, log, accepted, limbo>>

Disconnect ==
  /\ Spend("disconnects") /\ c.conn \in {"connecting", "open"}
  /\ Becomes(Shutdown(c, "closed"))
  /\ UNCHANGED <<down, s, log, accepted, limbo>>

Prompt ==
  /\ Spend("prompts")
  /\ LET cmd == Len(outcome) + 1
         ok == Opened(c) /\ c.conn \in {"connecting", "open"}
         k == Pump([c EXCEPT !.target.outbox = Append(@, [cmd |-> cmd, sent |-> FALSE])])
     IN /\ outcome' = Append(outcome, IF ok THEN "pending" ELSE "closed")
        /\ c' = IF ok THEN k ELSE c
  /\ UNCHANGED <<down, s, log, accepted, limbo>>

Resume(write) ==
  /\ Spend("resumes") /\ c.conn = "open"
  /\ LET k == Open(c, write, TRUE, Opened(c)) IN
     Becomes(IF k.rid = c.rid + 1 THEN [k EXCEPT !.pending = @ + 1]
             ELSE GiveUp(k, [Req("resume", k) EXCEPT !.existing = Opened(c)]))
  /\ UNCHANGED <<down, s, log, accepted, limbo>>

Close ==
  /\ Spend("closes") /\ Opened(c)
  /\ Becomes(Detach(c))
  /\ UNCHANGED <<down, s, log, accepted, limbo>>

ClaimWriter ==
  /\ Spend("claims") /\ c.conn = "open" /\ Opened(c)
  /\ Becomes(Ask(c, Req("claim", c)))
  /\ UNCHANGED <<down, s, log, accepted, limbo>>

(***************************************************************************)
(* Messages from the server, one at a time.                                *)
(***************************************************************************)
Idle == c.peer /\ c.applying = NoUpdate
Take == down # <<>> /\ down' = Tail(down)

Answered(r) == [c EXCEPT !.calls = @ \ {r}]

PromptAnswered ==
  /\ Idle /\ Take /\ Head(down).t = "prompt"
  /\ LET m == Head(down)
         k == Answered(m.req)
         mine == k.target.obj = m.req.obj
         head == mine /\ k.target.outbox # <<>> /\ k.target.outbox[1].cmd = m.req.cmd
         shifted == IF ~head THEN k
                    ELSE Settle([k EXCEPT !.target.outbox = Tail(@)], m.req.cmd,
                                IF m.ok THEN "resolved" ELSE m.why)
     IN Becomes(IF m.ok \/ ~(m.req.retry /\ m.why = "writer_required")
                THEN Pump(IF mine THEN [shifted EXCEPT !.target.busy = FALSE] ELSE shifted)
                ELSE IF mine THEN [k EXCEPT !.target.busy = FALSE, !.target.writer = FALSE,
                                            !.target.paused = TRUE]
                ELSE k)
  /\ UNCHANGED <<load, s, log, accepted, limbo>>

ResumeAnswered ==
  /\ Idle /\ Take /\ Head(down).t = "resume"
  /\ LET m == Head(down)
         r == m.req
         k == Answered(r)
         mine == k.target.obj = r.obj
         set == IF mine /\ m.ok
                THEN Pump([k EXCEPT !.target.writer = r.write,
                                    !.target.paused = @ /\ ~r.write])
                ELSE k
     IN Becomes(IF r.user THEN IF m.ok THEN Resumed(set) ELSE GiveUp(Resumed(k), r)
                ELSE LET d == IF m.ok THEN IF mine THEN set ELSE Ask(set, Req("close", set))
                              ELSE IF mine THEN Drop(k) ELSE k
                     IN Pump([d EXCEPT !.conn = "open"]))
  /\ UNCHANGED <<load, s, log, accepted, limbo>>

OtherAnswered ==
  /\ Idle /\ Take /\ Head(down).t \in {"claim", "close"}
  /\ LET m == Head(down)
         k == Answered(m.req)
     IN Becomes(IF m.t = "claim" /\ m.ok THEN Claimed(k) ELSE k)
  /\ UNCHANGED <<load, s, log, accepted, limbo>>

WriterUpdate ==
  /\ Idle /\ Take /\ Head(down).t = "writer"
  /\ Becomes(IF ~Opened(c) THEN c ELSE IF Head(down).ok THEN Claimed(c)
             ELSE [c EXCEPT !.target.writer = FALSE])
  /\ UNCHANGED <<load, s, log, accepted, limbo>>

\* isAfter: an update at or before the session's cursor was applied already.
KnownNever(k, cursor) == FALSE
Known(k, cursor) == Opened(k) /\ k.target.cursor >= cursor

\* update: onUpdate is awaited, the cursor moves afterwards.
BeginUpdate ==
  /\ Idle /\ Take /\ Head(down).t = "update"
  /\ LET m == Head(down) IN
     Becomes(IF Known(c, m.n) THEN c
             ELSE [c EXCEPT !.applying = [n |-> m.n, obj |-> c.target.obj],
                            !.target.delivered = IF Opened(c) THEN Append(@, m.n) ELSE @])
  /\ UNCHANGED <<load, s, log, accepted, limbo>>

\* An update that was being applied when its connection was retired ends like any other.
EndUpdate ==
  /\ \E a \in ({c.applying} \ {NoUpdate}) \cup c.stale :
       LET k == [c EXCEPT !.applying = IF @ = a THEN NoUpdate ELSE @, !.stale = @ \ {a}]
       IN Becomes(IF a.obj # None /\ c.target.obj = a.obj THEN [k EXCEPT !.target.cursor = a.n] ELSE k)
  /\ UNCHANGED <<load, down, s, log, accepted, limbo>>

\* lost: queued behind the messages received before the close.
Lost ==
  /\ c.peer /\ ~c.link /\ c.applying = NoUpdate /\ down = <<>>
  /\ LET k == [c EXCEPT !.target.paused = @ \/ (Opened(c) /\ c.target.writer),
                        !.target.writer = FALSE]
     IN \/ Becomes(Failed(k))
        \/ /\ c.conn = "open"
           /\ Becomes([Retire(k) EXCEPT !.conn = "connecting", !.failures = 0])
  /\ UNCHANGED <<load, down, s, log, accepted, limbo>>

(***************************************************************************)
(* The network and the server.                                             *)
(***************************************************************************)
Cut ==
  /\ c.link
  /\ Spend("drops") \/ (~c.peer /\ UNCHANGED load)
  /\ limbo' = limbo \cup {r \in c.calls : r.t = "prompt" /\ ~\E m \in Range(down) : m.req = r}
  /\ \E n \in 0 .. Len(down) : down' = IF c.peer THEN SubSeq(down, 1, n) ELSE <<>>
  /\ s' = [open |-> FALSE, writer |-> FALSE, resuming |-> <<>>, sent |-> 0]
  /\ c' = [c EXCEPT !.link = FALSE, !.up = <<>>]
  /\ UNCHANGED <<log, accepted, outcome>>

LateAccept ==
  /\ \E r \in limbo : /\ limbo' = limbo \ {r}
                      /\ accepted' = IF Contains(accepted, r.cmd) THEN accepted
                                     ELSE Append(accepted, r.cmd)
  /\ UNCHANGED <<load, c, down, s, log, outcome>>

Reply(r, ok, why) == [t |-> r.t, req |-> r, ok |-> ok, why |-> why, n |-> 0]
Update(n) == [t |-> "update", req |-> Req("none", c), ok |-> TRUE, why |-> "", n |-> n]
Writer(ok) == [t |-> "writer", req |-> Req("none", c), ok |-> ok, why |-> "", n |-> 0]

\* A request arrives: a resume takes time, the others are answered at once.
Receive ==
  /\ c.link /\ c.up # <<>>
  /\ LET r == Head(c.up) IN
     /\ c' = [c EXCEPT !.up = Tail(@)]
     /\ CASE r.t = "resume" ->
               /\ s' = [s EXCEPT !.resuming = Append(@, r)]
               /\ UNCHANGED <<down, accepted>>
          [] r.t = "prompt" ->
               LET why == IF ~s.open THEN "not_found" ELSE IF ~s.writer THEN "writer_required" ELSE ""
               IN /\ accepted' = IF why # "" \/ Contains(accepted, r.cmd) THEN accepted
                                 ELSE Append(accepted, r.cmd)
                  /\ down' = Append(down, Reply(r, why = "", why))
                  /\ UNCHANGED s
          [] r.t = "claim" ->
               /\ s' = [s EXCEPT !.writer = @ \/ s.open]
               /\ down' = Append(down, Reply(r, s.open, "not_found"))
               /\ UNCHANGED accepted
          [] r.t = "close" ->
               /\ s' = [s EXCEPT !.open = FALSE, !.writer = FALSE]
               /\ down' = Append(down, Reply(r, s.open, "not_found"))
               /\ UNCHANGED accepted
  /\ UNCHANGED <<load, log, limbo, outcome>>

\* Resumes of a session wait for each other; the replay precedes the response, the writer's claim is announced after it.
Reopen ==
  /\ s.resuming # <<>>
  /\ LET r == Head(s.resuming) IN
       \/ /\ s' = [open |-> TRUE, writer |-> r.write, resuming |-> Tail(s.resuming), sent |-> log]
          /\ down' = down \o [i \in 1 .. log - r.after |-> Update(r.after + i)]
                          \o <<Reply(r, TRUE, "")>>
                          \o (IF r.write THEN <<Writer(TRUE)>> ELSE <<>>)
          /\ UNCHANGED load
       \/ /\ Spend("faults")
          /\ s' = [s EXCEPT !.resuming = Tail(@)]
          /\ down' = Append(down, Reply(r, FALSE, "not_found"))
  /\ UNCHANGED <<c, log, accepted, limbo, outcome>>

Emit ==
  /\ Spend("events") /\ log' = log + 1
  /\ UNCHANGED <<c, down, s, accepted, limbo, outcome>>

Push ==
  /\ s.open /\ s.sent < log
  /\ s' = [s EXCEPT !.sent = @ + 1]
  /\ down' = Append(down, Update(s.sent + 1))
  /\ UNCHANGED <<load, c, log, accepted, limbo, outcome>>

Replaced ==
  /\ Spend("takes") /\ s.writer
  /\ s' = [s EXCEPT !.writer = FALSE]
  /\ down' = Append(down, Writer(FALSE))
  /\ UNCHANGED <<c, log, accepted, limbo, outcome>>

Next ==
  \/ Connect \/ Dial \/ DialFails \/ Disconnect \/ Prompt \/ Close \/ ClaimWriter
  \/ \E write \in BOOLEAN : Resume(write)
  \/ PromptAnswered \/ ResumeAnswered \/ OtherAnswered \/ WriterUpdate
  \/ BeginUpdate \/ EndUpdate \/ Lost
  \/ Cut \/ LateAccept \/ Receive \/ Reopen \/ Emit \/ Push \/ Replaced

Spec == Init /\ [][Next]_vars

(***************************************************************************)
(* Properties.                                                             *)
(***************************************************************************)
\* What the application is told about a prompt is true whatever happened to the
\* connection: a resolved one was accepted, one that failed as never sent, or as refused
\* for want of the writer, was not and will not be.
OutcomesAreTrue ==
  \A cmd \in DOMAIN outcome :
    /\ outcome[cmd] = "resolved" => Contains(accepted, cmd)
    /\ outcome[cmd] \in {"closed", "writer_required"} =>
         ~Contains(accepted, cmd) /\ \A r \in limbo : r.cmd # cmd

\* The prompts the application does not hear are uncertain are accepted in its order.
AcceptedInOrder ==
  LET sure == SelectSeq(accepted, LAMBDA cmd : outcome[cmd] # "uncertain") IN
  \A i, j \in 1 .. Len(sure) : i < j => sure[i] < sure[j]

\* A session's updates reach onUpdate without a gap, in order and once each, across
\* reconnections.
UpdatesAreContiguous ==
  c.target.delivered = [i \in 1 .. Len(c.target.delivered) |-> i]

\* When nothing is in flight, the server keeps open only the session the application
\* wants, and the client's idea of being the writer is the server's.
SidesAgree ==
  c.conn = "open" /\ c.link /\ c.calls = {} /\ down = <<>> /\ c.up = <<>> /\ c.applying = NoUpdate =>
    (s.open <=> Opened(c)) /\ (c.target.writer <=> s.writer)
=============================================================================

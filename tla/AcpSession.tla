------------------------------ MODULE AcpSession ------------------------------
(***************************************************************************)
(* One root session open on one ACP connection: AcpConnection of           *)
(* packages/tantra/src/tantra/acp/agent.py.                                *)
(*                                                                         *)
(* The tail copies the journal to the client, through the session's        *)
(* writable Connection while the session is the writer and through a       *)
(* reader otherwise.  Requests (prompt, cancel, claim, resume, close,      *)
(* delete), the answers to asks and the tail itself move the session       *)
(* between the two under session.lock, and stop and restart the tail under *)
(* tail.lock.  Other connections may take the writer at any moment.        *)
(*                                                                         *)
(* A step ends where the code awaits something another task can disturb.   *)
(* Authorisation and encoding of a prompt change no state: a refusal is    *)
(* one of the failures below.  A session is numbered by the order in which *)
(* it was opened, a Connection by the order in which it was entered.       *)
(***************************************************************************)
EXTENDS Integers, Sequences, FiniteSets

CONSTANTS MaxOpens,     \* sessions opened on the connection
          Loads         \* what the client, the runtime and the others may do

VARIABLES
  load,      \* what is left of the chosen load, and whether the client has the profile
  log,       \* the root's journal: "text", "ask" or "settle"
  deleted,   \* the root's tree has been deleted
  holder,    \* the Connection that is the root's writer in the runtime
  entered,   \* number of Connections entered so far
  conns,     \* the Connections that were entered and not exited
  ses,       \* the sessions opened so far
  current,   \* AcpConnection.sessions[root]
  resume,    \* the session/resume request in progress
  ops,       \* the other tasks that take session.lock
  belief,    \* the last _tantra_writer update since the session was opened
  informed   \* the client knows it was replaced, or asked for the writer since

vars == <<load, log, deleted, holder, entered, conns, ses, current, resume, ops, belief, informed>>

None == 0                 \* no Connection, no session
Other == -1               \* a Connection of somebody else
Free == "free"            \* an asyncio.Lock nobody holds
Op == {"prompt", "claim", "cancel", "answer", "live"}
Idle == [pc |-> "idle", s |-> None, ask |-> 0, round |-> 1]
NoResume == [pc |-> "idle", write |-> FALSE, after |-> 0, writer |-> None, old |-> None]

\* Projector.asks after the first n events: a turn's end or an answer settles them.
Pending(n) ==
  {k \in 1 .. n : log[k] = "ask" /\ \A j \in k + 1 .. n : log[j] # "settle"}

Opened(writer, after) ==
  [writer |-> writer, announced |-> FALSE, fenced |-> FALSE, live |-> FALSE,
   answered |-> FALSE, lost |-> FALSE, gone |-> FALSE, closed |-> FALSE, torn |-> "no",
   lock |-> Free, tlock |-> Free, asks |-> {}, declined |-> {}, cursor |-> 0,
   watermark |-> Len(log), emitAfter |-> after, task |-> "choose", source |-> None,
   shown |-> <<>>]

Init ==
  /\ load \in Loads
  /\ log = <<>> /\ deleted = FALSE
  /\ holder = None /\ entered = 0 /\ conns = {}
  /\ ses = <<>> /\ current = None
  /\ resume = NoResume
  /\ ops = [o \in Op |-> Idle]
  /\ belief = FALSE /\ informed = TRUE

Profile == load.profile
Spend(what) == load[what] > 0 /\ load' = [load EXCEPT ![what] = @ - 1]

(***************************************************************************)
(* The rest of the world.                                                  *)
(***************************************************************************)
Emit ==
  /\ load.script # <<>> /\ ~deleted
  /\ log' = Append(log, Head(load.script))
  /\ load' = [load EXCEPT !.script = Tail(@)]
  /\ UNCHANGED <<deleted, holder, entered, conns, ses, current, resume, ops, belief, informed>>

\* Another connection claims the writer, or the writer's lease is lost.
Replaced ==
  /\ Spend("takes") /\ holder \in conns
  /\ holder' \in {Other, None}
  /\ informed' = FALSE
  /\ UNCHANGED <<log, deleted, entered, conns, ses, current, resume, ops, belief>>

Deleted ==
  /\ Spend("deletes") /\ deleted' = TRUE
  /\ UNCHANGED <<log, holder, entered, conns, ses, current, resume, ops, belief, informed>>

(***************************************************************************)
(* Parts of the handlers.                                                  *)
(***************************************************************************)
Exited(c) == /\ conns' = conns \ {c}
             /\ holder' = IF holder = c THEN None ELSE holder

\* _release: the ask tasks are cancelled and forgotten, the connection exits.
Drop(r, fenced, announced, asks) ==
  [r EXCEPT !.writer = None, !.announced = announced, !.fenced = fenced, !.asks = asks,
            !.lock = IF @ = "answer" THEN Free ELSE @]
ReleaseKeepsAsks(r, fenced) == Drop(r, fenced, FALSE, r.asks)
Release(r, fenced) == Drop(r, fenced, FALSE, {})

\* _release's update: sent when the session had announced itself, for a reason.
Notice(r) == belief' = IF Profile /\ r.announced THEN FALSE ELSE belief

\* The answer task of session s ends when its ask is not one of those kept.
Cancelled(s, kept) ==
  IF ops["answer"].s = s /\ ops["answer"].ask \notin kept
  THEN [ops EXCEPT !["answer"] = Idle] ELSE ops

\* _stop and _restart: a closed session's tail stays stopped.
Restart(r) == [r EXCEPT !.task = IF r.closed THEN "off" ELSE "choose", !.tlock = Free]

Shut(r) == [r EXCEPT !.closed = TRUE, !.torn = IF @ = "no" THEN "begun" ELSE @]
Shutdown(s) == /\ ses' = [ses EXCEPT ![s] = Shut(@)]
               /\ current' = IF current = s THEN None ELSE current

\* _lose: the session is torn down once its request has been answered.
Lose(r) == [r EXCEPT !.lost = TRUE, !.gone = @ \/ (r.answered /\ ~r.closed)]

(***************************************************************************)
(* The tail (_run, _process, _apply).                                      *)
(***************************************************************************)
Choose(s) ==
  /\ ses[s].task = "choose"
  /\ ses' = [ses EXCEPT ![s].task = "read", ![s].source = ses[s].writer]
  /\ UNCHANGED <<load, log, deleted, holder, entered, conns, current, resume, ops, belief, informed>>

Read(s) ==
  LET r == ses[s] IN
  /\ r.task = "read" /\ r.source \in {None, holder} /\ ~deleted
  /\ r.cursor < Len(log)
  /\ ses' = [ses EXCEPT ![s].task =
               IF r.cursor + 1 > r.watermark /\ ~r.live THEN "gate" ELSE "item"]
  /\ UNCHANGED <<load, log, deleted, holder, entered, conns, current, resume, ops, belief, informed>>

Gate(s) ==
  /\ ses[s].task = "gate" /\ ses[s].live
  /\ ses' = [ses EXCEPT ![s].task = "item"]
  /\ UNCHANGED <<load, log, deleted, holder, entered, conns, current, resume, ops, belief, informed>>

\* The cursor moves before the first output is sent; tail.lock is held throughout.
Process(s) ==
  LET r == ses[s] IN
  /\ r.task = "item" /\ r.tlock = Free
  /\ ses' = [ses EXCEPT ![s] =
       IF r.cursor + 1 <= r.emitAfter
       THEN [r EXCEPT !.cursor = @ + 1, !.task = "read"]
       ELSE [r EXCEPT !.cursor = @ + 1, !.task = "send", !.tlock = "tail"]]
  /\ UNCHANGED <<load, log, deleted, holder, entered, conns, current, resume, ops, belief, informed>>

\* Asks follow the journal only live: issued to the writer, withdrawn when settled.
Send(s) ==
  LET r == ses[s]
      live == r.cursor > r.watermark
      asks == CASE live /\ log[r.cursor] = "ask" /\ r.writer # None -> r.asks \cup {r.cursor}
                [] live /\ log[r.cursor] = "settle" -> r.asks \cap Pending(r.cursor)
                [] OTHER -> r.asks
  IN
  /\ r.task = "send"
  /\ ops' = Cancelled(s, asks)
  /\ ses' = [ses EXCEPT ![s] =
       [r EXCEPT !.shown = Append(@, r.cursor), !.asks = asks, !.task = "read", !.tlock = Free,
                 !.lock = IF @ = "answer" /\ ops'["answer"] = Idle THEN Free ELSE @]]
  /\ UNCHANGED <<load, log, deleted, holder, entered, conns, current, resume, belief, informed>>

\* The writable stream raises WriterReplaced (or the lease was lost).
StreamFails(s) ==
  /\ ses[s].task = "read" /\ ses[s].source \notin {None, holder} /\ ~deleted
  /\ ses' = [ses EXCEPT ![s].task = "replaced"]
  /\ UNCHANGED <<load, log, deleted, holder, entered, conns, current, resume, ops, belief, informed>>

FallBack(s) ==
  LET r == ses[s] IN
  /\ r.task = "replaced" /\ r.lock = Free
  /\ IF r.writer = r.source
     THEN /\ ses' = [ses EXCEPT ![s] = [Release(r, TRUE) EXCEPT !.task = "choose"]]
          /\ Exited(r.writer) /\ Notice(r) /\ ops' = Cancelled(s, {})
     ELSE /\ ses' = [ses EXCEPT ![s].task = "choose"]
          /\ UNCHANGED <<holder, conns, belief, ops>>
  /\ UNCHANGED <<load, log, deleted, entered, current, resume, informed>>

\* The stream, or the tree watcher of a live session, raises SessionNotFound.
Vanish(s) ==
  LET r == ses[s] IN
  /\ deleted
  /\ \/ r.task = "read" /\ ses' = [ses EXCEPT ![s] = [Lose(r) EXCEPT !.task = "off"]]
     \/ r.live /\ ~r.lost /\ ~r.closed /\ ses' = [ses EXCEPT ![s] = Lose(r)]
  /\ UNCHANGED <<load, log, deleted, holder, entered, conns, current, resume, ops, belief, informed>>

Gone(s) ==
  /\ ses[s].gone /\ ses[s].torn = "no"
  /\ Shutdown(s)
  /\ UNCHANGED <<load, log, deleted, holder, entered, conns, resume, ops, belief, informed>>

(***************************************************************************)
(* Requests that work under session.lock.                                  *)
(***************************************************************************)
Begin(o) ==
  /\ o \in {"prompt", "claim", "cancel"} /\ Spend(o)
  /\ current # None /\ ops[o] = Idle
  /\ o = "claim" => Profile
  /\ load.early \/ ses[current].answered
  /\ ops' = [ops EXCEPT ![o] = [Idle EXCEPT !.pc = "wait", !.s = current]]
  /\ UNCHANGED <<log, deleted, holder, entered, conns, ses, current, resume, belief, informed>>

\* The client answers the request that _ask sent, or declines it.
Respond(s, a) ==
  /\ a \in ses[s].asks
  /\ \/ /\ ops["answer"] = Idle
        /\ ops' = [ops EXCEPT !["answer"] = [Idle EXCEPT !.pc = "wait", !.s = s, !.ask = a]]
        /\ UNCHANGED <<ses, load>>
     \/ /\ ops["answer"].ask # a /\ Spend("declines")
        /\ ses' = [ses EXCEPT ![s].asks = @ \ {a}, ![s].declined = @ \cup {a}]
        /\ UNCHANGED ops
  /\ UNCHANGED <<log, deleted, holder, entered, conns, current, resume, belief, informed>>

Goto(o, pc) == ops' = [ops EXCEPT ![o].pc = pc]
Finish(o) == ops' = [ops EXCEPT ![o] = Idle]

\* What a handler does with the lock: use the writer, claim it, or give up.
Route(o, r) ==
  CASE o # "claim" /\ deleted -> "idle"
    [] o = "answer" -> IF r.writer = None THEN "idle" ELSE "use"
    [] r.writer # None -> IF o = "claim" THEN "idle" ELSE "use"
    [] o = "prompt" /\ (r.fenced \/ Profile) -> "idle"
    [] o = "cancel" /\ Profile -> "idle"
    [] OTHER -> IF r.closed THEN "idle" ELSE "stop"

Acquire(o) ==
  LET s == ops[o].s
      r == ses[s]
      pc == Route(o, r)
      denied == o = "prompt" /\ r.writer = None /\ pc = "idle" /\ ~deleted
  IN
  /\ ops[o].pc = "wait" /\ r.lock = Free
  /\ IF pc = "idle" THEN Finish(o) ELSE Goto(o, pc)
  /\ ses' = [ses EXCEPT ![s].lock = IF pc = "idle" THEN Free ELSE o,
                        ![s].fenced = IF denied THEN FALSE ELSE @,
                        ![s].asks = IF o = "answer" /\ pc = "idle" THEN @ \ {ops[o].ask} ELSE @]
  /\ informed' = (informed \/ denied \/ o \in {"claim", "cancel"})
  /\ UNCHANGED <<load, log, deleted, holder, entered, conns, current, resume, belief>>

\* _claim: the tail is stopped between two items, never within one.
StopAnywhere(o) ==
  LET s == ops[o].s IN
  /\ ops[o].pc = "stop"
  /\ ses' = [ses EXCEPT ![s].tlock = o, ![s].task = "off"]
  /\ Goto(o, "connect")
  /\ UNCHANGED <<load, log, deleted, holder, entered, conns, current, resume, belief, informed>>

Stop(o) ==
  LET s == ops[o].s IN
  /\ ops[o].pc = "stop" /\ ses[s].tlock = Free
  /\ ses' = [ses EXCEPT ![s].tlock = o, ![s].task = "off"]
  /\ Goto(o, "connect")
  /\ UNCHANGED <<load, log, deleted, holder, entered, conns, current, resume, belief, informed>>

Connect(o) ==
  LET s == ops[o].s
      r == ses[s]
      c == entered + 1
  IN
  /\ ops[o].pc = "connect" /\ ~deleted
  /\ entered' = c /\ holder' = c /\ conns' = conns \cup {c}
  /\ ses' = [ses EXCEPT ![s] =
       [Restart(r) EXCEPT !.writer = c, !.fenced = FALSE,
                          !.asks = IF r.live /\ ~Profile THEN @ \cup Pending(r.cursor) ELSE @,
                          !.lock = IF o = "claim" THEN Free ELSE o]]
  /\ Goto(o, IF o = "claim" THEN "announce" ELSE "use")
  /\ UNCHANGED <<load, log, deleted, current, resume, belief, informed>>

\* The claim is refused, unavailable, or the root is gone.
ConnectFails(o) ==
  LET s == ops[o].s IN
  /\ ops[o].pc = "connect"
  /\ (deleted /\ UNCHANGED load) \/ Spend("faults")
  /\ ses' = [ses EXCEPT ![s] = [Restart(@) EXCEPT !.lock = Free]]
  /\ Finish(o)
  /\ UNCHANGED <<log, deleted, holder, entered, conns, current, resume, belief, informed>>

\* The runtime accepts the command of its writer; an answer settles its ask.
Use(o) ==
  LET s == ops[o].s
      r == ses[s]
  IN
  /\ ops[o].pc = "use" /\ r.writer = holder /\ ~deleted
  /\ log' = IF o = "answer" /\ ops[o].ask \in Pending(Len(log)) THEN Append(log, "settle") ELSE log
  /\ ses' = [ses EXCEPT ![s].lock = Free,
                        ![s].asks = IF o = "answer" THEN @ \ {ops[o].ask} ELSE @,
                        ![s].declined = IF o = "answer" THEN @ \cup {ops[o].ask} ELSE @]
  /\ Finish(o)
  /\ UNCHANGED <<load, deleted, holder, entered, conns, current, resume, belief, informed>>

\* The command still fails after its attempts (_retry), or the root is gone.
UseFails(o) ==
  LET s == ops[o].s IN
  /\ ops[o].pc = "use"
  /\ (deleted /\ UNCHANGED load) \/ Spend("faults")
  /\ ses' = [ses EXCEPT ![s].lock = Free,
                        ![s].asks = IF o = "answer" THEN @ \ {ops[o].ask} ELSE @,
                        ![s].declined = IF o = "answer" THEN @ \cup {ops[o].ask} ELSE @]
  /\ Finish(o)
  /\ UNCHANGED <<log, deleted, holder, entered, conns, current, resume, belief, informed>>

\* WriterReplaced: _downgrade to a reader; a cancel claims and tries once more.
Downgrade(o) ==
  LET s == ops[o].s
      r == ses[s]
      again == o = "cancel" /\ ops[o].round = 1 /\ ~Profile /\ ~r.closed
      after == [Restart(Release(r, o = "answer")) EXCEPT !.lock = IF again THEN o ELSE Free]
  IN
  /\ ops[o].pc = "use" /\ r.writer # holder /\ ~deleted /\ r.tlock = Free
  /\ ses' = [ses EXCEPT ![s] = after]
  /\ Exited(r.writer) /\ Notice(r)
  /\ ops' = [Cancelled(s, {}) EXCEPT ![o] = IF again THEN [@ EXCEPT !.pc = "stop", !.round = 2]
                                                      ELSE Idle]
  /\ informed' = (informed \/ o \in {"prompt", "cancel"})
  /\ UNCHANGED <<load, log, deleted, entered, current, resume>>

\* _go_live after the response: a lost session is torn down, another is announced.
GoLive ==
  LET s == ops["live"].s
      r == [ses[s] EXCEPT !.answered = TRUE]
      lose == r.lost \/ (~r.closed /\ deleted)
  IN
  /\ ops["live"].pc = "wait"
  /\ ses' = [ses EXCEPT ![s] = IF lose THEN Lose(r) ELSE r]
  /\ IF lose \/ r.closed THEN Finish("live") ELSE Goto("live", "announce")
  /\ UNCHANGED <<load, log, deleted, holder, entered, conns, current, resume, belief, informed>>

\* _announce_live, and the end of _go_live: the claim is announced once.
Announce(o) ==
  LET s == ops[o].s
      r == ses[s]
      speaks == ~r.closed /\ r.writer # None /\ (o = "claim" => r.live)
  IN
  /\ ops[o].pc = "announce" /\ r.lock = Free
  /\ ses' = [ses EXCEPT ![s] = IF speaks THEN [r EXCEPT !.announced = TRUE, !.lock = o]
                               ELSE [r EXCEPT !.live = @ \/ (o = "live" /\ ~r.closed)]]
  /\ belief' = IF speaks /\ Profile /\ ~r.announced THEN TRUE ELSE belief
  /\ IF speaks THEN Goto(o, "issue") ELSE Finish(o)
  /\ UNCHANGED <<load, log, deleted, holder, entered, conns, current, resume, informed>>

Issue(o) ==
  LET s == ops[o].s
      r == ses[s]
  IN
  /\ ops[o].pc = "issue" /\ r.tlock = Free
  /\ ses' = [ses EXCEPT ![s] = [r EXCEPT !.asks = @ \cup Pending(r.cursor), !.lock = Free,
                                         !.live = @ \/ o = "live"]]
  /\ Finish(o)
  /\ UNCHANGED <<load, log, deleted, holder, entered, conns, current, resume, belief, informed>>

(***************************************************************************)
(* Closing (_shutdown, _teardown) and opening (_resume, _swap, _open).     *)
(***************************************************************************)
Close ==
  /\ Spend("closes") /\ current # None
  /\ Shutdown(current)
  /\ UNCHANGED <<log, deleted, holder, entered, conns, resume, ops, belief, informed>>

\* The tasks of the session are cancelled; those that hold a lock drop it.
CancelTasks(s) ==
  LET r == ses[s] IN
  /\ r.torn = "begun"
  /\ ops' = Cancelled(s, {})
  /\ ses' = [ses EXCEPT ![s] =
       [r EXCEPT !.torn = "cancelled", !.asks = {},
                 !.task = IF r.tlock \in Op THEN @ ELSE "off",
                 !.tlock = IF @ = "tail" THEN Free ELSE @,
                 !.lock = IF @ = "answer" THEN Free ELSE @]]
  /\ UNCHANGED <<load, log, deleted, holder, entered, conns, current, resume, belief, informed>>

Teardown(s) ==
  LET r == ses[s] IN
  /\ r.torn = "cancelled" /\ r.lock = Free
  /\ ses' = [ses EXCEPT ![s] = [Release(r, FALSE) EXCEPT !.torn = "done"]]
  /\ Exited(r.writer) /\ ops' = Cancelled(s, {})
  /\ UNCHANGED <<load, log, deleted, entered, current, resume, belief, informed>>

\* replayFrom: nothing (the end of the journal), the start, or a cursor.
Resume(write, after) ==
  /\ Spend("resumes") /\ resume.pc = "idle" /\ ~deleted
  /\ Len(ses) < MaxOpens /\ (write => Profile)
  /\ resume' = [pc |-> IF write THEN "enter" ELSE "shut", write |-> write, after |-> after,
                writer |-> None, old |-> current]
  /\ UNCHANGED <<log, deleted, holder, entered, conns, ses, current, ops, belief, informed>>

\* _enter_writer: the claim is not announced as a loss by the session it replaces.
EnterWriter ==
  LET old == resume.old
      c == entered + 1
  IN
  /\ resume.pc = "enter" /\ ~deleted
  /\ old # None => ses[old].lock = Free
  /\ entered' = c /\ holder' = c /\ conns' = conns \cup {c}
  /\ ses' = IF old = None THEN ses ELSE [ses EXCEPT ![old].announced = FALSE]
  /\ resume' = [resume EXCEPT !.pc = "shut", !.writer = c]
  /\ informed' = TRUE
  /\ UNCHANGED <<load, log, deleted, current, ops, belief>>

\* The claim fails or is cancelled: before it takes effect, or after.
EnterFails ==
  /\ resume.pc = "enter"
  /\ (deleted /\ UNCHANGED load) \/ Spend("faults")
  /\ holder' \in {holder, None}
  /\ resume' = NoResume
  /\ UNCHANGED <<log, deleted, entered, conns, ses, current, ops, belief, informed>>

\* _replace: once the claim took effect the swap goes on, whatever is cancelled.
ShutOld ==
  /\ resume.pc = "shut"
  /\ IF resume.old = None
     THEN UNCHANGED <<ses, current>>
     ELSE Shutdown(resume.old)
  /\ resume' = [resume EXCEPT !.pc = "open"]
  /\ UNCHANGED <<load, log, deleted, holder, entered, conns, ops, belief, informed>>

\* A cancelled reader gives up; its session, if it has one, is shut down.
ResumeCancelled ==
  /\ Spend("faults") /\ ~resume.write
  /\ \/ resume.pc \in {"shut", "open"} /\ UNCHANGED <<ses, current>>
     \/ resume.pc = "ready" /\ Shutdown(Len(ses))
  /\ resume' = NoResume
  /\ UNCHANGED <<log, deleted, holder, entered, conns, ops, belief, informed>>

OpenSession ==
  LET after == IF resume.after > Len(log) THEN Len(log) ELSE resume.after IN
  /\ resume.pc = "open"
  /\ resume.old # None => ses[resume.old].torn = "done"
  /\ IF deleted
     THEN /\ Exited(resume.writer)
          /\ resume' = NoResume
          /\ UNCHANGED <<ses, current, belief>>
     ELSE /\ ses' = Append(ses, Opened(resume.writer, after))
          /\ current' = Len(ses')
          /\ belief' = FALSE
          /\ resume' = [resume EXCEPT !.pc = "ready", !.writer = None]
          /\ UNCHANGED <<holder, conns>>
  /\ UNCHANGED <<load, log, deleted, entered, ops, informed>>

Ready(r) == \/ r.task = "off"
            \/ r.cursor > r.watermark
            \/ r.cursor = r.watermark /\ r.task # "send"

\* The replay is complete: the request is answered, unless the root went away.
Opening ==
  LET s == Len(ses) IN
  /\ resume.pc = "ready" /\ Ready(ses[s]) /\ ops["live"] = Idle
  /\ IF ses[s].lost
     THEN Shutdown(s) /\ UNCHANGED ops
     ELSE /\ ops' = [ops EXCEPT !["live"] = [Idle EXCEPT !.pc = "wait", !.s = s]]
          /\ UNCHANGED <<ses, current>>
  /\ resume' = NoResume
  /\ UNCHANGED <<load, log, deleted, holder, entered, conns, belief, informed>>

Session == 1 .. Len(ses)
Next ==
  \/ Emit \/ Replaced \/ Deleted
  \/ \E s \in Session :
       \/ Choose(s) \/ Read(s) \/ Gate(s) \/ Process(s) \/ Send(s)
       \/ StreamFails(s) \/ FallBack(s) \/ Vanish(s) \/ Gone(s)
       \/ CancelTasks(s) \/ Teardown(s)
       \/ \E a \in 1 .. Len(log) : Respond(s, a)
  \/ \E o \in Op \ {"live"} : \/ Begin(o) \/ Acquire(o) \/ Stop(o) \/ Connect(o)
                              \/ ConnectFails(o) \/ Use(o) \/ UseFails(o) \/ Downgrade(o)
  \/ GoLive
  \/ \E o \in {"claim", "live"} : Announce(o) \/ Issue(o)
  \/ Close
  \/ \E write \in BOOLEAN, after \in 0 .. Len(log) : Resume(write, after)
  \/ EnterWriter \/ EnterFails \/ ShutOld \/ ResumeCancelled \/ OpenSession \/ Opening

Spec == Init /\ [][Next]_vars

(***************************************************************************)
(* Properties.                                                             *)
(***************************************************************************)
\* The journal reaches the client whole and in order, from the resume point on:
\* stopping and restarting the tail to change its source skips and repeats nothing.
TailsShowEverything ==
  \A s \in Session :
    LET r == ses[s]
        last == IF r.task = "send" THEN r.cursor - 1 ELSE r.cursor
    IN ~r.closed => r.shown = [k \in 1 .. Len(r.shown) |-> r.emitAfter + k]
                    /\ (r.cursor > r.emitAfter => r.emitAfter + Len(r.shown) = last)

\* Requests for answers are open only while the session is the writer.
AsksAreTheWriters ==
  \A s \in Session : ses[s].asks # {} => ses[s].writer # None

\* A live writer whose tail has caught up shows every pending ask, unless the client
\* already disposed of it: claims, replays and takeovers lose none.
PendingAsksAreShown ==
  \A s \in Session :
    LET r == ses[s] IN
    r.live /\ ~r.closed /\ r.writer # None /\ r.lock = Free /\ r.tlock = Free /\ r.task = "read"
    /\ r.writer = r.source /\ (Profile => r.announced)
      => Pending(r.cursor) \subseteq r.asks \cup r.declined

\* The client's view of the writer: what it was told agrees with the session, except
\* while a claim is being announced or a session is being replaced by its successor.
WriterUpdatesAgree ==
  Profile /\ current # None /\ resume.pc = "idle" /\ ses[current].lock = Free =>
    LET r == ses[current] IN
    /\ belief => r.announced /\ r.writer # None
    /\ (r.writer # None /\ r.live /\ \A o \in {"claim", "live"} : ops[o].pc # "announce") => belief

\* A connection without the profile that was fenced takes the writer back with a
\* prompt only after a prompt has failed (or after a cancel, which always takes it).
TakebacksAreInformed ==
  ops["prompt"].pc = "connect" => informed

\* Every writable Connection that was entered and not exited belongs to a session that
\* still has to be torn down, or to the resume that claimed it.
WritersAreReleased ==
  \A c \in conns : c = resume.writer \/ \E s \in Session : ses[s].writer = c /\ ses[s].torn # "done"

\* A session that lost its root is torn down once its request was answered.
LostSessionsAreClosed ==
  \A s \in Session : ses[s].lost /\ ses[s].answered => ses[s].closed \/ ses[s].gone
=============================================================================

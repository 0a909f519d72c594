------------------------------- MODULE MCAcp --------------------------------
(* The ACP interface: the two JSON-RPC peers (RpcPeers), a session of the    *)
(* agent (AcpSession), what it shows of a journal (Transcript), the          *)
(* reconnecting client (AcpClient), the watched root from which sessions     *)
(* learn of changes and of the loss of their writer token (RootWatch), and   *)
(* the WebSockets under the agent's end (Sockets).                           *)
EXTENDS Sockets, Integers, TLC

CONSTANTS w1, w2, c1, c2, k1, k2, Elsewhere, NoOne

VARIABLES part, up, down, open, waiting, sent, cancels, dialogs, closed, task,
          incoming, cancelled, pending, asking, history, load, log, deleted,
          holder, entered, conns, ses, current, resume, ops, belief, informed,
          changes, version, lease, writer, flight, sample, observed, applying,
          tree, watch, conn, owed, left, size, live, view, c, s, accepted,
          limbo, outcome

\* RpcPeers: a call, a batch of two, and a request of the agent.
Call == {1, 2, 3}
Batched == {2, 3}
Ask == {1}
MaxCancels == 1

\* AcpSession: takeovers during claims, resumes that replace a session,
\* prompts and cancels of a client without the profile, closing, deletion, and
\* asks that are declined.
MaxOpens == 2
L(p, sc, tk, pr, cm, cn, rs, cl, dl, dc, f) ==
    [early |-> FALSE, profile |-> p, script |-> sc, takes |-> tk, prompt |-> pr,
     claim |-> cm, cancel |-> cn, resumes |-> rs, closes |-> cl, deletes |-> dl,
     declines |-> dc, faults |-> f]
SessionLoads ==
    {L(TRUE, <<"ask", "settle">>, 2, 0, 2, 0, 1, 0, 0, 0, 0),
     L(TRUE, <<"ask">>, 1, 0, 0, 0, 2, 0, 0, 0, 1),
     L(FALSE, <<"ask">>, 2, 3, 0, 1, 1, 0, 0, 0, 0),
     L(FALSE, <<"text">>, 1, 1, 0, 1, 1, 0, 0, 0, 0),
     L(TRUE, <<"text">>, 0, 0, 1, 0, 1, 1, 0, 0, 1),
     L(TRUE, <<"text">>, 0, 1, 1, 0, 1, 0, 1, 0, 0),
     L(TRUE, <<"ask">>, 0, 0, 1, 1, 1, 0, 0, 1, 0)}

\* Transcript: deltas of both kinds, calls with progress and asks, two turns.
N(t, sm, d, cs, p, a) ==
    [turns |-> t, samples |-> sm, deltas |-> d, calls |-> cs, progress |-> p, asks |-> a]
Sizes == {N(1, 2, 4, 0, 0, 0), N(2, 2, 2, 1, 0, 0), N(1, 2, 1, 2, 1, 1), N(1, 1, 2, 1, 1, 1)}

\* AcpClient: prompts and claims across drops, updates across drops and resumes,
\* closing, refused dials, disconnecting.
MaxDials == 2
M(cn, di, pr, rs, cl, cm, ev, tk, dr, f) ==
    [connects |-> cn, disconnects |-> di, prompts |-> pr, resumes |-> rs, closes |-> cl,
     claims |-> cm, events |-> ev, takes |-> tk, drops |-> dr, faults |-> f]
ClientLoads ==
    {M(1, 0, 2, 1, 0, 1, 0, 1, 1, 0), M(1, 0, 2, 1, 0, 1, 0, 0, 2, 0),
     M(1, 0, 0, 1, 0, 0, 3, 0, 2, 0), M(1, 0, 0, 2, 0, 0, 2, 0, 1, 0),
     M(1, 0, 1, 2, 1, 0, 0, 0, 1, 0), M(1, 0, 1, 2, 0, 0, 0, 0, 0, 1),
     M(1, 0, 1, 1, 1, 1, 0, 0, 1, 1), M(1, 0, 1, 1, 1, 0, 2, 0, 1, 0),
     M(2, 1, 1, 1, 0, 0, 0, 0, 1, 1)}

\* RootWatch: two consumers of watch_tree and two connections, with a
\* coordinator or without one.
Watcher == {w1, w2}
Link == {c1, c2}
W(co, h, j, e, r, p, w, cl, f) ==
    [coordinated |-> co, header |-> h, journal |-> j, expire |-> e, remote |-> r,
     patch |-> p, watch |-> w, claim |-> cl, fail |-> f]
Scenarios == {W(TRUE, 1, 1, 0, 0, 0, 2, 0, 0),    \* changes that count or do not
              W(TRUE, 1, 0, 0, 0, 0, 2, 0, 1),    \* an outage
              W(TRUE, 0, 0, 1, 0, 1, 1, 0, 0),    \* a lease that expires
              W(TRUE, 0, 0, 0, 1, 0, 0, 2, 1),    \* writers that replace each other
              W(FALSE, 1, 0, 0, 0, 1, 2, 0, 0)}   \* one runtime alone

\* Nothing orders watchers, connections and sockets.
Symmetry == Permutations(Watcher) \cup Permutations(Link) \cup Permutations(Socket)

P == INSTANCE RpcPeers
A == INSTANCE AcpSession WITH Loads <- SessionLoads
R == INSTANCE RootWatch
V == INSTANCE Transcript
K == INSTANCE AcpClient WITH Loads <- ClientLoads

MCvars == <<part, P!vars, A!vars, R!vars, V!vars, K!vars, vars>>

-----------------------------------------------------------------------------
(* The part that moves, and the variables of the others, which stay as they are. *)

InP == part = "rpc" /\ UNCHANGED
    <<part, load, log, deleted, holder, entered, conns, ses, current, resume,
      ops, belief, informed, changes, version, lease, writer, flight, sample,
      observed, applying, tree, watch, conn, owed, left, size, live, view, c,
      s, accepted, limbo, outcome, socket, closing, shutdown, awaited>>

InA == part = "session" /\ UNCHANGED
    <<part, up, down, open, waiting, sent, cancels, dialogs, closed, task,
      incoming, cancelled, pending, asking, history, changes, version, lease,
      writer, flight, sample, observed, applying, tree, watch, conn, owed,
      left, size, live, view, c, s, accepted, limbo, outcome, socket, closing,
      shutdown, awaited>>

InR == part = "watch" /\ UNCHANGED
    <<part, up, down, open, waiting, sent, cancels, dialogs, closed, task,
      incoming, cancelled, pending, asking, history, load, log, deleted,
      holder, entered, conns, ses, current, resume, ops, belief, informed,
      size, live, view, c, s, accepted, limbo, outcome, socket, closing,
      shutdown, awaited>>

InV == part = "transcript" /\ UNCHANGED
    <<part, up, down, open, waiting, sent, cancels, dialogs, closed, task,
      incoming, cancelled, pending, asking, history, load, deleted, holder,
      entered, conns, ses, current, resume, ops, belief, informed, changes,
      version, lease, writer, flight, sample, observed, applying, tree, watch,
      conn, owed, left, c, s, accepted, limbo, outcome, socket, closing,
      shutdown, awaited>>

InK == part = "client" /\ UNCHANGED
    <<part, up, open, waiting, sent, cancels, dialogs, closed, task, incoming,
      cancelled, pending, asking, history, deleted, holder, entered, conns,
      ses, current, resume, ops, belief, informed, changes, version, lease,
      writer, flight, sample, observed, applying, tree, watch, conn, owed,
      left, size, live, view, socket, closing, shutdown, awaited>>

InWeb == part = "sockets" /\ UNCHANGED
    <<part, up, down, open, waiting, sent, cancels, dialogs, closed, task,
      incoming, cancelled, pending, asking, history, load, log, deleted,
      holder, entered, conns, ses, current, resume, ops, belief, informed,
      changes, version, lease, writer, flight, sample, observed, applying,
      tree, watch, conn, owed, left, size, live, view, c, s, accepted, limbo,
      outcome>>

InitP ==
    /\ part = "rpc" /\ P!Init
    /\ Init /\ load = 0 /\ log = 0 /\ deleted = 0 /\ holder = 0 /\ entered = 0
    /\ conns = 0 /\ ses = 0 /\ current = 0 /\ resume = 0 /\ ops = 0
    /\ belief = 0 /\ informed = 0 /\ changes = 0 /\ version = 0 /\ lease = 0
    /\ writer = 0 /\ flight = 0 /\ sample = 0 /\ observed = 0 /\ applying = 0
    /\ tree = 0 /\ watch = 0 /\ conn = 0 /\ owed = 0 /\ left = 0 /\ size = 0
    /\ live = 0 /\ view = 0 /\ c = 0 /\ s = 0 /\ accepted = 0 /\ limbo = 0
    /\ outcome = 0

InitA ==
    /\ part = "session" /\ A!Init
    /\ Init /\ up = 0 /\ down = 0 /\ open = 0 /\ waiting = 0 /\ sent = 0
    /\ cancels = 0 /\ dialogs = 0 /\ closed = 0 /\ task = 0 /\ incoming = 0
    /\ cancelled = 0 /\ pending = 0 /\ asking = 0 /\ history = 0
    /\ changes = 0 /\ version = 0 /\ lease = 0 /\ writer = 0 /\ flight = 0
    /\ sample = 0 /\ observed = 0 /\ applying = 0 /\ tree = 0 /\ watch = 0
    /\ conn = 0 /\ owed = 0 /\ left = 0 /\ size = 0 /\ live = 0 /\ view = 0
    /\ c = 0 /\ s = 0 /\ accepted = 0 /\ limbo = 0 /\ outcome = 0

InitR ==
    /\ part = "watch" /\ R!Init
    /\ Init /\ up = 0 /\ down = 0 /\ open = 0 /\ waiting = 0 /\ sent = 0
    /\ cancels = 0 /\ dialogs = 0 /\ closed = 0 /\ task = 0 /\ incoming = 0
    /\ cancelled = 0 /\ pending = 0 /\ asking = 0 /\ history = 0 /\ load = 0
    /\ log = 0 /\ deleted = 0 /\ holder = 0 /\ entered = 0 /\ conns = 0
    /\ ses = 0 /\ current = 0 /\ resume = 0 /\ ops = 0 /\ belief = 0
    /\ informed = 0 /\ size = 0 /\ live = 0 /\ view = 0 /\ c = 0 /\ s = 0
    /\ accepted = 0 /\ limbo = 0 /\ outcome = 0

InitV ==
    /\ part = "transcript" /\ V!Init
    /\ Init /\ up = 0 /\ down = 0 /\ open = 0 /\ waiting = 0 /\ sent = 0
    /\ cancels = 0 /\ dialogs = 0 /\ closed = 0 /\ task = 0 /\ incoming = 0
    /\ cancelled = 0 /\ pending = 0 /\ asking = 0 /\ history = 0 /\ load = 0
    /\ deleted = 0 /\ holder = 0 /\ entered = 0 /\ conns = 0 /\ ses = 0
    /\ current = 0 /\ resume = 0 /\ ops = 0 /\ belief = 0 /\ informed = 0
    /\ changes = 0 /\ version = 0 /\ lease = 0 /\ writer = 0 /\ flight = 0
    /\ sample = 0 /\ observed = 0 /\ applying = 0 /\ tree = 0 /\ watch = 0
    /\ conn = 0 /\ owed = 0 /\ left = 0 /\ c = 0 /\ s = 0 /\ accepted = 0
    /\ limbo = 0 /\ outcome = 0

InitK ==
    /\ part = "client" /\ K!Init
    /\ Init /\ up = 0 /\ open = 0 /\ waiting = 0 /\ sent = 0 /\ cancels = 0
    /\ dialogs = 0 /\ closed = 0 /\ task = 0 /\ incoming = 0 /\ cancelled = 0
    /\ pending = 0 /\ asking = 0 /\ history = 0 /\ deleted = 0 /\ holder = 0
    /\ entered = 0 /\ conns = 0 /\ ses = 0 /\ current = 0 /\ resume = 0
    /\ ops = 0 /\ belief = 0 /\ informed = 0 /\ changes = 0 /\ version = 0
    /\ lease = 0 /\ writer = 0 /\ flight = 0 /\ sample = 0 /\ observed = 0
    /\ applying = 0 /\ tree = 0 /\ watch = 0 /\ conn = 0 /\ owed = 0
    /\ left = 0 /\ size = 0 /\ live = 0 /\ view = 0

InitWeb ==
    /\ part = "sockets" /\ Init
    /\ up = 0 /\ down = 0 /\ open = 0 /\ waiting = 0 /\ sent = 0
    /\ cancels = 0 /\ dialogs = 0 /\ closed = 0 /\ task = 0 /\ incoming = 0
    /\ cancelled = 0 /\ pending = 0 /\ asking = 0 /\ history = 0 /\ load = 0
    /\ log = 0 /\ deleted = 0 /\ holder = 0 /\ entered = 0 /\ conns = 0
    /\ ses = 0 /\ current = 0 /\ resume = 0 /\ ops = 0 /\ belief = 0
    /\ informed = 0 /\ changes = 0 /\ version = 0 /\ lease = 0 /\ writer = 0
    /\ flight = 0 /\ sample = 0 /\ observed = 0 /\ applying = 0 /\ tree = 0
    /\ watch = 0 /\ conn = 0 /\ owed = 0 /\ left = 0 /\ size = 0 /\ live = 0
    /\ view = 0 /\ c = 0 /\ s = 0 /\ accepted = 0 /\ limbo = 0 /\ outcome = 0

MCInit == InitP \/ InitA \/ InitR \/ InitV \/ InitK \/ InitWeb

MCNext ==
    \/ InP /\ \E x \in Call : P!Request(x)
    \/ InP /\ \E x \in Call : P!CancelRequest(x)
    \/ InP /\ \E x \in Call : P!Enter(x)
    \/ InP /\ \E x \in Call : P!NeverStarts(x)
    \/ InP /\ \E x \in Call : P!Return(x)
    \/ InP /\ \E x \in Call : P!Refuse(x)
    \/ InP /\ \E x \in Call : P!Dropped(x)
    \/ InP /\ \E x \in Call : P!Cancelled(x)
    \/ InP /\ \E x \in Call : P!Absorbed(x)
    \/ InP /\ \E x \in Call : P!Write(x)
    \/ InP /\ \E a \in Ask : P!AnswerDialog(a)
    \/ InP /\ \E a \in Ask : P!SendRequest(a)
    \/ InP /\ \E a \in Ask : P!WriteAsk(a)
    \/ InP /\ \E a \in Ask : P!Abandon(a)
    \/ InP /\ \E a \in Ask : P!Withdraw(a)
    \/ InP /\ P!RequestBatch
    \/ InP /\ P!SpawnBatch
    \/ InP /\ P!ClientReceive
    \/ InP /\ P!Disconnect
    \/ InP /\ P!Receive
    \/ InP /\ P!PeerClosed
    \/ InA /\ A!Emit
    \/ InA /\ A!Replaced
    \/ InA /\ A!Deleted
    \/ InA /\ \E x \in A!Session : A!Choose(x)
    \/ InA /\ \E x \in A!Session : A!Read(x)
    \/ InA /\ \E x \in A!Session : A!Gate(x)
    \/ InA /\ \E x \in A!Session : A!Process(x)
    \/ InA /\ \E x \in A!Session : A!Send(x)
    \/ InA /\ \E x \in A!Session : A!StreamFails(x)
    \/ InA /\ \E x \in A!Session : A!FallBack(x)
    \/ InA /\ \E x \in A!Session : A!Vanish(x)
    \/ InA /\ \E x \in A!Session : A!Gone(x)
    \/ InA /\ \E x \in A!Session : A!CancelTasks(x)
    \/ InA /\ \E x \in A!Session : A!Teardown(x)
    \/ InA /\ \E x \in A!Session, a \in 1..Len(log) : A!Respond(x, a)
    \/ InA /\ \E o \in A!Op \ {"live"} : A!Begin(o)
    \/ InA /\ \E o \in A!Op \ {"live"} : A!Acquire(o)
    \/ InA /\ \E o \in A!Op \ {"live"} : A!Stop(o)
    \/ InA /\ \E o \in A!Op \ {"live"} : A!Connect(o)
    \/ InA /\ \E o \in A!Op \ {"live"} : A!ConnectFails(o)
    \/ InA /\ \E o \in A!Op \ {"live"} : A!Use(o)
    \/ InA /\ \E o \in A!Op \ {"live"} : A!UseFails(o)
    \/ InA /\ \E o \in A!Op \ {"live"} : A!Downgrade(o)
    \/ InA /\ A!GoLive
    \/ InA /\ \E o \in {"claim", "live"} : A!Announce(o)
    \/ InA /\ \E o \in {"claim", "live"} : A!Issue(o)
    \/ InA /\ A!Close
    \/ InA /\ \E write \in BOOLEAN, after \in 0..Len(log) : A!Resume(write, after)
    \/ InA /\ A!EnterWriter
    \/ InA /\ A!EnterFails
    \/ InA /\ A!ShutOld
    \/ InA /\ A!ResumeCancelled
    \/ InA /\ A!OpenSession
    \/ InA /\ A!Opening
    \/ InR /\ \E kind \in {"header", "journal"} : R!Change(kind)
    \/ InR /\ R!Expire
    \/ InR /\ R!Acquire
    \/ InR /\ R!RemoteClaim
    \/ InR /\ R!patch_header
    \/ InR /\ R!LocalWrite
    \/ InR /\ R!LocalChanged
    \/ InR /\ \E w \in Watcher : R!watch_tree(w)
    \/ InR /\ \E w \in Watcher : R!Top(w)
    \/ InR /\ \E w \in Watcher : R!Lock(w)
    \/ InR /\ \E w \in Watcher : R!ReadHeaders(w)
    \/ InR /\ \E w \in Watcher : R!ReadStatuses(w)
    \/ InR /\ \E w \in Watcher : R!ReadFails(w)
    \/ InR /\ \E w \in Watcher : R!Yield(w)
    \/ InR /\ \E w \in Watcher : R!Wake(w)
    \/ InR /\ \E w \in Watcher : R!Leave(w)
    \/ InR /\ \E k \in Link : R!Claim(k)
    \/ InR /\ \E k \in Link : R!claim_writer(k)
    \/ InR /\ \E k \in Link : R!Claimed(k)
    \/ InR /\ \E k \in Link : R!Exit(k)
    \/ InR /\ \E k \in Link : R!release_writer(k)
    \/ InR /\ R!CatchUpRead
    \/ InR /\ R!CatchUpDone
    \/ InR /\ R!CatchUpFails
    \/ InR /\ R!_apply_observation
    \/ InR /\ R!ApplyTree
    \/ InV /\ V!StartTurn
    \/ InV /\ V!StartSample
    \/ InV /\ \E kind \in {"agent", "thought"} : V!Stream(kind)
    \/ InV /\ \E split \in BOOLEAN, name \in {"none", "search", "send"} : V!EndSample(split, name)
    \/ InV /\ V!StartCall
    \/ InV /\ V!ReportProgress
    \/ InV /\ V!Ask
    \/ InV /\ V!Answer
    \/ InV /\ \E error \in BOOLEAN : V!EndCall(error)
    \/ InV /\ \E kind \in {"end_turn", "cancelled"} : V!EndTurn(kind)
    \/ InK /\ K!Connect
    \/ InK /\ K!Dial
    \/ InK /\ K!DialFails
    \/ InK /\ K!Disconnect
    \/ InK /\ K!Prompt
    \/ InK /\ K!Close
    \/ InK /\ K!ClaimWriter
    \/ InK /\ \E write \in BOOLEAN : K!Resume(write)
    \/ InK /\ K!PromptAnswered
    \/ InK /\ K!ResumeAnswered
    \/ InK /\ K!OtherAnswered
    \/ InK /\ K!WriterUpdate
    \/ InK /\ K!BeginUpdate
    \/ InK /\ K!EndUpdate
    \/ InK /\ K!Lost
    \/ InK /\ K!Cut
    \/ InK /\ K!LateAccept
    \/ InK /\ K!Receive
    \/ InK /\ K!Reopen
    \/ InK /\ K!Emit
    \/ InK /\ K!Push
    \/ InK /\ K!Replaced
    \/ InWeb /\ Shutdown
    \/ InWeb /\ ShutdownDone
    \/ InWeb /\ \E k \in Socket : Connect(k)
    \/ InWeb /\ \E k \in Socket : Bound(k)
    \/ InWeb /\ \E k \in Socket : Accepted(k)
    \/ InWeb /\ \E k \in Socket : Receive(k)
    \/ InWeb /\ \E k \in Socket : Send(k)
    \/ InWeb /\ \E k \in Socket : SendDone(k)
    \/ InWeb /\ \E k \in Socket : SendTimesOut(k)
    \/ InWeb /\ \E k \in Socket : CloseByAgent(k)
    \/ InWeb /\ \E k \in Socket : Expire(k)
    \/ InWeb /\ \E k \in Socket : Leave(k)
    \/ InWeb /\ \E k \in Socket : Finish(k)
    \/ InWeb /\ \E k \in Socket : FinishDone(k)
    \/ InWeb /\ \E k \in Socket : FinishTimesOut(k)
    \/ InWeb /\ \E k \in Socket : Disconnect(k)

MCSpec == MCInit /\ [][MCNext]_MCvars

-----------------------------------------------------------------------------
(* Properties: what each part promises while it moves. *)

\* No request is answered twice, in either direction; every call a
\* handler of the agent took is answered, and every other one that was not
\* cancelled before its task's first step or while it was refused; and with
\* nothing in flight the client shows no dialog of an abandoned ask.
RequestsEndOnce == part = "rpc" =>
    /\ P!OneResponsePerRequest
    /\ P!ReceivedCallsAreAnswered
    /\ P!DialogsAreWanted

\* The journal reaches the client whole and in order from the resume point on.
TailsShowEverything == part = "session" => A!TailsShowEverything

\* Asks are open only with the writer, who shows all that are pending; the client
\* was told who writes; a fenced client takes the writer back only after one of
\* its prompts failed; and writable Connections and sessions that lost their root
\* are torn down.
WritersAgree == part = "session" =>
    /\ A!AsksAreTheWriters
    /\ A!PendingAsksAreShown
    /\ A!WriterUpdatesAgree
    /\ A!TakebacksAreInformed
    /\ A!WritersAreReleased
    /\ A!LostSessionsAreClosed

\* A sleeping watcher of a tree has shown every change the runtime knows of; a
\* connection loses its token only when it is not the writer any more, and a token
\* is not kept against a newer observation.
WatchersAreCurrent == part = "watch" =>
    /\ R!TreesAreCurrent
    /\ R!HeldTokensAreKept
    /\ R!LostTokensAreDropped

\* A client that replays the journal sees what one that followed it sees, one that
\* resumes from a cursor gets exactly what it missed, and the asks to issue are
\* those of the open turn that nobody answered.
ReplaysAgree == part = "transcript" =>
    /\ V!ReplayAgrees
    /\ V!ResumeAgrees
    /\ V!AsksArePending

\* What the application is told about a prompt is true, prompts are accepted in
\* its order, the uncertain ones apart, and with nothing in flight client and agent
\* agree on what is open and who writes.
PromptsSettle == part = "client" =>
    /\ K!OutcomesAreTrue
    /\ K!AcceptedInOrder
    /\ K!SidesAgree

\* A session's updates reach onUpdate without a gap, in order and once each.
UpdatesAreContiguous == part = "client" => K!UpdatesAreContiguous

=============================================================================

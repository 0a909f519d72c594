------------------------------ MODULE RpcPeers ------------------------------
(***************************************************************************)
(* One ACP connection: the agent's JSON-RPC peer (acp/jsonrpc.py) and the  *)
(* client's (tantra-acp-client/src/jsonrpc.ts), a FIFO of frames each way. *)
(* Both call each other.  The agent runs every request it receives in a    *)
(* task of its own, so a $/cancel_request meets the task before its first  *)
(* step, inside the handler, or while the response is being written: that  *)
(* is safe once the call has left _incoming, which a refused call has not. *)
(* The client's handlers answer whenever the user does.                    *)
(***************************************************************************)
EXTENDS Integers, Sequences, FiniteSets, SequencesExt

CONSTANTS
    Call,        \* requests of the client
    Ask,         \* requests of the agent
    Batched,     \* the calls the client sends as one batch
    MaxCancels   \* bound on the client's $/cancel_request per call

VARIABLES
    up,          \* frames from the client to the agent
    down,        \* frames from the agent to the client
    open,        \* the transport
    \* the client
    waiting,     \* pending: calls without a response
    sent,        \* calls written so far
    cancels,     \* call -> cancellations sent
    dialogs,     \* incoming: the agent's requests whose handler may answer
    \* the agent
    closed,      \* Peer.closed
    task,        \* call -> state of its task
    incoming,    \* _incoming: the calls a cancellation can reach
    cancelled,   \* _cancelled
    pending,     \* _pending: asks whose future is not resolved
    asking,      \* ask -> state of the task in send_request
    history      \* history: the responses written, each way

client == <<waiting, sent, cancels, dialogs>>
agent  == <<closed, task, incoming, cancelled, pending, asking>>
vars   == <<up, down, open, client, agent, history>>

Frame(kind, id) == [kind |-> kind, id |-> id]

Init ==
    /\ up = <<>> /\ down = <<>> /\ open = TRUE
    /\ waiting = {} /\ sent = {} /\ cancels = [c \in Call |-> 0] /\ dialogs = {}
    /\ closed = FALSE
    /\ task = [c \in Call |-> "none"]
    /\ incoming = {} /\ cancelled = {} /\ pending = {}
    /\ asking = [a \in Ask |-> "none"]
    /\ history = [agent |-> <<>>, client |-> <<>>]

Upward(f) == IF open THEN up' = Append(up, f) ELSE UNCHANGED up

Downward(f) == IF open THEN down' = Append(down, f) ELSE UNCHANGED down

-----------------------------------------------------------------------------
(* The client: Peer.request, receive, answer, cancel, close. *)

Request(c) ==
    /\ open /\ c \notin sent \cup Batched
    /\ sent' = sent \cup {c}
    /\ waiting' = waiting \cup {c}
    /\ Upward(Frame("call", {c}))
    /\ UNCHANGED <<down, open, cancels, dialogs, history>> /\ UNCHANGED agent

\* Another client's batch: its calls in one frame.
RequestBatch ==
    /\ open /\ Batched # {} /\ Batched \cap sent = {}
    /\ sent' = sent \cup Batched
    /\ waiting' = waiting \cup Batched
    /\ Upward(Frame("call", Batched))
    /\ UNCHANGED <<down, open, cancels, dialogs, history>> /\ UNCHANGED agent

CancelRequest(c) ==
    /\ open /\ c \in sent /\ cancels[c] < MaxCancels
    /\ cancels' = [cancels EXCEPT ![c] = @ + 1]
    /\ Upward(Frame("cancel", c))
    /\ UNCHANGED <<down, open, waiting, sent, dialogs, history>> /\ UNCHANGED agent

Answers(a) ==
    /\ Upward(Frame("response", a))
    /\ history' = [history EXCEPT !.client = Append(@, a)]

\* Mutant: a cancelled dialog may still answer.
CancelKeepsDialog(a) ==
    IF a \in dialogs THEN UNCHANGED dialogs /\ Answers(a)
    ELSE UNCHANGED <<dialogs, up, history>>

\* cancel: the dialog is forgotten and aborted before the answer goes out.
CancelDialog(a) ==
    IF a \in dialogs THEN dialogs' = dialogs \ {a} /\ Answers(a)
    ELSE UNCHANGED <<dialogs, up, history>>

ClientReceive ==
    /\ open /\ down # <<>>
    /\ LET f == Head(down)
       IN  /\ down' = Tail(down)
           /\ CASE f.kind = "responses" ->
                     waiting' = waiting \ f.id /\ UNCHANGED <<dialogs, up, history>>
                [] f.kind = "ask" ->
                     dialogs' = dialogs \cup {f.id} /\ UNCHANGED <<waiting, up, history>>
                [] f.kind = "cancel" -> CancelDialog(f.id) /\ UNCHANGED waiting
    /\ UNCHANGED <<open, sent, cancels>> /\ UNCHANGED agent

\* The user answers a dialog that is still open.
AnswerDialog(a) ==
    /\ open /\ a \in dialogs
    /\ dialogs' = dialogs \ {a}
    /\ Answers(a)
    /\ UNCHANGED <<down, open, waiting, sent, cancels>> /\ UNCHANGED agent

\* The connection ends: the client's close rejects its calls and aborts its
\* dialogs; the agent's receive() returns None later.
Disconnect ==
    /\ open
    /\ open' = FALSE
    /\ waiting' = {} /\ dialogs' = {}
    /\ up' = <<>> /\ down' = <<>>
    /\ UNCHANGED <<sent, cancels, history>> /\ UNCHANGED agent

-----------------------------------------------------------------------------
(* The agent: Peer.run, _inline, _spawn, _single, _batch, _handle, _reply. *)

Unfinished == {"batched", "spawned", "unstarted", "running", "thrown", "replying",
               "refusing", "cut"}

\* task.cancel() as it meets each state of the task.
Cancelling(state) ==
    CASE state = "spawned" -> "unstarted"
      [] state = "running" -> "thrown"
      [] state = "replying" -> "dead"
      [] state = "refusing" -> "cut"
      [] OTHER -> state

Receive ==
    /\ open /\ ~closed /\ up # <<>>
    /\ LET f == Head(up)
       IN  /\ up' = Tail(up)
           /\ CASE f.kind = "call" ->
                     /\ task' = [c \in Call |-> IF c \notin f.id THEN task[c]
                                                ELSE IF c \in Batched THEN "batched"
                                                ELSE "spawned"]
                     /\ incoming' = incoming \cup (f.id \ Batched)
                     /\ UNCHANGED <<cancelled, pending, asking>>
                [] f.kind = "cancel" /\ f.id \in incoming ->
                     /\ cancelled' = cancelled \cup {f.id}
                     /\ task' = [task EXCEPT ![f.id] = Cancelling(@)]
                     /\ UNCHANGED <<incoming, pending, asking>>
                [] f.kind = "cancel" /\ f.id \notin incoming ->
                     UNCHANGED <<task, incoming, cancelled, pending, asking>>
                [] f.kind = "response" ->
                     /\ pending' = pending \ {f.id}
                     /\ asking' = IF f.id \in pending
                                  THEN [asking EXCEPT ![f.id] = "resolved"] ELSE asking
                     /\ UNCHANGED <<task, incoming, cancelled>>
    /\ UNCHANGED <<down, open, closed, history>> /\ UNCHANGED client

\* _batch: a task of its own spawns one for each message.
SpawnBatch ==
    /\ \E c \in Batched : task[c] = "batched"
    /\ task' = [c \in Call |-> IF c \in Batched THEN "spawned" ELSE task[c]]
    /\ incoming' = incoming \cup Batched
    /\ UNCHANGED <<up, down, open, closed, cancelled, pending, asking, history>>
    /\ UNCHANGED client

\* The first step of a task enters the handler.
Enter(c) ==
    /\ task[c] = "spawned"
    /\ task' = [task EXCEPT ![c] = "running"]
    /\ UNCHANGED <<up, down, open, closed, incoming, cancelled, pending, asking, history>>
    /\ UNCHANGED client

\* finished: the done callback of a task.
Finished(c) ==
    /\ incoming' = incoming \ {c}
    /\ cancelled' = cancelled \ {c}

\* A task cancelled before its first step never runs; its batch fails with it.
NeverStarts(c) ==
    /\ task[c] = "unstarted"
    /\ task' = [d \in Call |->
                   IF d = c \/ ({c, d} \subseteq Batched /\ task[d] = "replying")
                   THEN "lost" ELSE task[d]]
    /\ Finished(c)
    /\ UNCHANGED <<up, down, open, closed, pending, asking, history>>
    /\ UNCHANGED client

\* What is left of a call whose handler has returned: a response to write,
\* or nothing when gather has already failed for its batch.
Handled(c) ==
    IF c \in Batched /\ \E b \in Batched : task[b] = "lost" THEN "lost" ELSE "replying"

\* The handler returns or raises: _forget, then the response is written.
Return(c) ==
    /\ task[c] = "running"
    /\ task' = [task EXCEPT ![c] = Handled(c)]
    /\ Finished(c)
    /\ UNCHANGED <<up, down, open, closed, pending, asking, history>>
    /\ UNCHANGED client

\* No handler is called: INVALID_REQUEST or METHOD_NOT_FOUND is returned without
\* _forget.  In a batch another task writes it; a single call writes it itself,
\* and a cancellation reaches it until it has.
Refuse(c) ==
    /\ task[c] = "spawned"
    /\ \/ /\ c \in Batched
          /\ task' = [task EXCEPT ![c] = Handled(c)]
          /\ Finished(c)
       \/ /\ c \notin Batched
          /\ task' = [task EXCEPT ![c] = "refusing"]
          /\ UNCHANGED <<incoming, cancelled>>
    /\ UNCHANGED <<up, down, open, closed, pending, asking, history>>
    /\ UNCHANGED client

\* CancelledError in the write of such a response.
Dropped(c) ==
    /\ task[c] = "cut"
    /\ task' = [task EXCEPT ![c] = "dropped"]
    /\ Finished(c)
    /\ UNCHANGED <<up, down, open, closed, pending, asking, history>>
    /\ UNCHANGED client

\* CancelledError in the handler: it ends there with REQUEST_CANCELLED, or the
\* handler takes the cancellation back and goes on (_accept, _swap).
Cancelled(c) ==
    /\ task[c] = "thrown" /\ c \in cancelled /\ ~closed
    /\ task' = [task EXCEPT ![c] = Handled(c)]
    /\ Finished(c)
    /\ UNCHANGED <<up, down, open, closed, pending, asking, history>>
    /\ UNCHANGED client

Absorbed(c) ==
    /\ task[c] = "thrown" /\ ~closed
    /\ task' = [task EXCEPT ![c] = "running"]
    /\ UNCHANGED <<up, down, open, closed, incoming, cancelled, pending, asking, history>>
    /\ UNCHANGED client

\* The calls one frame of responses answers: a single call, or the whole
\* batch once every handler of it has returned.
Answerable(c) ==
    IF c \in Batched THEN {d \in Batched : \A b \in Batched : task[b] = "replying"}
    ELSE {c}

Write(c) ==
    /\ task[c] \in {"replying", "refusing"} /\ c \in Answerable(c)
    /\ ~closed
    /\ task' = [d \in Call |-> IF d \in Answerable(c) THEN "done" ELSE task[d]]
    /\ Downward(Frame("responses", Answerable(c)))
    /\ history' = [history EXCEPT !.agent = @ \o SetToSeq(Answerable(c))]
    /\ Finished(c)
    /\ UNCHANGED <<up, open, closed, pending, asking>>
    /\ UNCHANGED client

-----------------------------------------------------------------------------
(* send_request. *)

SendRequest(a) ==
    /\ ~closed /\ asking[a] = "none"
    /\ asking' = [asking EXCEPT ![a] = "writing"]
    /\ pending' = pending \cup {a}
    /\ UNCHANGED <<up, down, open, closed, task, incoming, cancelled, history>>
    /\ UNCHANGED client

WriteAsk(a) ==
    /\ ~closed /\ asking[a] = "writing"
    /\ asking' = [asking EXCEPT ![a] = "asked"]
    /\ Downward(Frame("ask", a))
    /\ UNCHANGED <<up, open, closed, task, incoming, cancelled, pending, history>>
    /\ UNCHANGED client

\* The task that asks is cancelled: if no response has come, the client is
\* told in a notification of its own.
Abandon(a) ==
    /\ ~closed /\ asking[a] \in {"writing", "asked"}
    /\ pending' = pending \ {a}
    /\ asking' = [asking EXCEPT ![a] = IF a \in pending THEN "withdrawing" ELSE "abandoned"]
    /\ UNCHANGED <<up, down, open, closed, task, incoming, cancelled, history>>
    /\ UNCHANGED client

\* _quiet
Withdraw(a) ==
    /\ ~closed /\ asking[a] = "withdrawing"
    /\ asking' = [asking EXCEPT ![a] = "abandoned"]
    /\ Downward(Frame("cancel", a))
    /\ UNCHANGED <<up, open, closed, task, incoming, cancelled, pending, history>>
    /\ UNCHANGED client

\* run's finally: every future fails, every task is cancelled and awaited.
PeerClosed ==
    /\ ~open /\ ~closed
    /\ closed' = TRUE
    /\ pending' = {}
    /\ asking' = [a \in Ask |-> IF asking[a] \in {"writing", "asked", "withdrawing"}
                                THEN "abandoned" ELSE asking[a]]
    /\ task' = [c \in Call |-> IF task[c] \in Unfinished THEN "dead" ELSE task[c]]
    /\ incoming' = {} /\ cancelled' = {}
    /\ UNCHANGED <<up, down, open, history>> /\ UNCHANGED client

Next ==
    \/ \E c \in Call : \/ Request(c) \/ CancelRequest(c) \/ Enter(c) \/ NeverStarts(c)
                       \/ Return(c) \/ Refuse(c) \/ Dropped(c)
                       \/ Cancelled(c) \/ Absorbed(c) \/ Write(c)
    \/ \E a \in Ask : \/ AnswerDialog(a) \/ SendRequest(a) \/ WriteAsk(a)
                      \/ Abandon(a) \/ Withdraw(a)
    \/ RequestBatch \/ SpawnBatch \/ ClientReceive \/ Disconnect \/ Receive \/ PeerClosed

Spec == Init /\ [][Next]_vars

-----------------------------------------------------------------------------
(* Properties. *)

\* No request is answered twice, in either direction: not by a handler and the
\* cancellation of its dialog, not by a handler and the REQUEST_CANCELLED of
\* its task.
OneResponsePerRequest ==
    \A side \in {"agent", "client"} :
        Cardinality(ToSet(history[side])) = Len(history[side])

\* Once nothing is under way, every call a handler has taken is answered,
\* cancelled or not: a late $/cancel_request cannot drop what the handler said.
\* Every other call the agent received is answered too, unless a cancellation
\* arrived before its task's first step, or in a batch that holds such a call, or
\* while its refusal was being written.
ReceivedCallsAreAnswered ==
    ~closed /\ (\A c \in Call : task[c] \notin Unfinished) =>
        \A c \in Call :
            task[c] \in {"none", "lost", "dropped"} \/ c \in ToSet(history.agent)

\* With nothing in flight, the client shows a dialog only for a request whose
\* task still waits for its answer: an abandoned ask does not stay on screen.
DialogsAreWanted ==
    open /\ up = <<>> /\ down = <<>> =>
        \A a \in dialogs : a \in pending \/ asking[a] = "withdrawing"
=============================================================================

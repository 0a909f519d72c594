------------------------------ MODULE Transcript ------------------------------
(***************************************************************************)
(* From the journal to the client's screen: Projector of                   *)
(* packages/tantra/src/tantra/acp/projection.py turns journal events into  *)
(* ACP updates, transcript.ts of packages/tantra-acp-client reduces the    *)
(* updates to a view.                                                      *)
(*                                                                         *)
(* The same journal can be shown in three ways: live, one update per       *)
(* event; replayed from the start with the streamed deltas coalesced (a    *)
(* client without the profile); and resumed after a cursor "seq.index"     *)
(* that may fall between two outputs of one event (a client with it).      *)
(*                                                                         *)
(* The journal is what the turn engine writes (Next).  A text is the       *)
(* sequence of the deltas it is made of, Gap standing for a blank line;    *)
(* an event is numbered by its place in the journal.                       *)
(***************************************************************************)
EXTENDS Integers, Sequences, FiniteSets, SequencesExt

CONSTANT Sizes    \* journals to build: how many turns, samples, deltas, calls, progress reports, asks

VARIABLES
  size,   \* the chosen element of Sizes
  log,    \* the actor's journal
  live,   \* the Projector of a client that follows the journal
  view    \* the entries and the state of that client's SessionView

vars == <<size, log, live, view>>

Gap == 0
None == 0

(***************************************************************************)
(* The journal.                                                            *)
(***************************************************************************)
Turn == [k |-> "TurnStarted"]
Sample == [k |-> "SampleStarted"]
Delta(kind) == [k |-> "Delta", kind |-> kind]
Part(kind, sample, text) == [k |-> "Part", kind |-> kind, sample |-> sample, text |-> text]
Request(sample, name) == [k |-> "ToolCallRequested", sample |-> sample, name |-> name]
SampleDone == [k |-> "SampleCompleted"]
Started == [k |-> "ToolCallStarted"]
Progress == [k |-> "ToolProgress"]
Result(error) == [k |-> "ToolCallCompleted", error |-> error]
Raised == [k |-> "AskRaised"]
Answered(ask) == [k |-> "AskAnswered", ask |-> ask]
Ended(kind) == [k |-> "TurnEnded", kind |-> kind]

(***************************************************************************)
(* Projector.  One tool call is open at a time, so that its id is its      *)
(* request's place in the journal; "send" is a tool the client never sees. *)
(***************************************************************************)
Fresh == [turn |-> None, sample |-> None, thoughts |-> <<>>, open |-> <<>>,
          deltas |-> <<>>, call |-> None, hidden |-> FALSE, asks |-> {}]

User(id) == [u |-> "user", id |-> id]
Full(kind, id, text) == [u |-> "full", kind |-> kind, id |-> id, text |-> text]
Chunk(kind, id, text) == [u |-> "chunk", kind |-> kind, id |-> id, text |-> text]
Tool(id, status) == [u |-> "tool", id |-> id, status |-> status]
Content(id, text) == [u |-> "content", id |-> id, text |-> text]
Message(id) == [u |-> "message", id |-> id]
State(seq, s, stop) == [u |-> "state", at |-> seq, state |-> s, stop |-> stop]
Signal(what) == [u |-> "signal", what |-> what]    \* outputs that are not sent as such

\* _set_state emits the update and a TurnState.
SetState(seq, s, stop) == <<State(seq, s, stop), Signal("TurnState")>>

Joined(blocks) == FoldLeft(LAMBDA a, b : IF a = <<>> THEN b ELSE a \o <<Gap>> \o b, <<>>, blocks)

\* The deltas of a key, kept in the order the keys were first seen.
TextOf(p, key) == FoldLeft(LAMBDA a, d : IF d.key = key THEN Append(a, d.text) ELSE a, <<>>, p.deltas)

\* _completed: a hidden tool shows as a message, or as a failed call.
Completed(p, seq, e) ==
  LET status == IF e.error THEN "failed" ELSE "completed" IN
  IF p.hidden /\ ~e.error THEN <<Message(p.call)>>
  ELSE <<Tool(p.call, status), Content(p.call, seq)>>

\* _terminal: the turn's calls and asks are forgotten.
Terminal(p) == [p EXCEPT !.turn = None, !.call = None, !.hidden = FALSE, !.asks = {}]

\* _project: the projector after an event and the outputs of the event.
Project(p, seq, e) ==
  LET Out(q, outs) == [p |-> q, outs |-> outs] IN
  CASE e.k = "TurnStarted" ->
         Out([p EXCEPT !.turn = seq], <<User(seq)>> \o SetState(seq, "running", "none"))
    [] e.k = "SampleStarted" ->
         Out([p EXCEPT !.sample = seq, !.thoughts = <<>>,
                       !.deltas = SelectSeq(@, LAMBDA d : Contains(p.open, d.key))], <<>>)
    [] e.k = "Delta" ->
         Out(p, IF p.sample = None THEN <<>> ELSE <<Chunk(e.kind, p.sample, seq)>>)
    [] e.k = "Part" /\ e.kind = "agent" ->
         Out(p, <<Full("agent", e.sample, e.text)>>)
    [] e.k = "Part" /\ e.kind = "thought" ->
         LET blocks == Append(p.thoughts, e.text) IN
         Out([p EXCEPT !.thoughts = blocks], <<Full("thought", e.sample, Joined(blocks))>>)
    [] e.k = "ToolCallRequested" ->
         Out([p EXCEPT !.call = seq, !.hidden = (e.name = "send")],
             IF e.name = "send" THEN <<>> ELSE <<Tool(seq, "pending")>>)
    [] e.k = "ToolCallStarted" ->
         Out(p, IF p.hidden THEN <<>> ELSE <<Tool(p.call, "in_progress")>>)
    [] e.k = "ToolProgress" ->
         Out(p, IF p.hidden THEN <<>> ELSE <<Content(p.call, seq)>>)
    [] e.k = "ToolCallCompleted" ->
         Out([p EXCEPT !.hidden = FALSE], Completed(p, seq, e))
    [] e.k = "SampleCompleted" ->
         Out(p, <<Signal("UsageSample")>>)
    [] e.k = "AskRaised" ->
         Out([p EXCEPT !.asks = @ \cup {seq}],
             SetState(seq, "requires_action", "none") \o <<Signal("AskPending")>>)
    [] e.k = "AskAnswered" ->
         LET left == p.asks \ {e.ask} IN
         Out([p EXCEPT !.asks = left],
             <<Signal("AskResolved")>>
             \o SetState(seq, IF left = {} THEN "running" ELSE "requires_action", "none"))
    [] e.k = "TurnEnded" ->
         Out(Terminal(p),
             [i \in 1 .. Cardinality(p.asks) |-> Signal("AskResolved")]
             \o SetState(seq, "idle", e.kind))

\* _emit and flush: a coalesced text for every key whose deltas are still to be shown.
Coalesced(p, keys) == [i \in 1 .. Len(keys) |-> Full(keys[i][1], keys[i][2], TextOf(p, keys[i]))]

\* feed while replaying: deltas are held back until the text they belong to, or anything else, is shown.
FlushUnordered(p, e, key, q) ==
  IF e.k = "Part" /\ Contains(p.open, key)
  THEN [p |-> [q.p EXCEPT !.open = SelectSeq(p.open, LAMBDA k : k # key)], outs |-> q.outs]
  ELSE [p |-> [q.p EXCEPT !.open = <<>>], outs |-> Coalesced(p, p.open) \o q.outs]

Flushed(p, e, key, q) ==
  IF e.k = "Part" /\ Contains(p.open, key)
  THEN LET at == SelectInSeq(p.open, LAMBDA k : k = key) IN
       [p |-> [q.p EXCEPT !.open = SubSeq(p.open, at + 1, Len(p.open))],
        outs |-> Coalesced(p, SubSeq(p.open, 1, at - 1)) \o q.outs]
  ELSE [p |-> [q.p EXCEPT !.open = <<>>], outs |-> Coalesced(p, p.open) \o q.outs]

Replayed(p, seq, e) ==
  LET key == CASE e.k = "Delta" -> <<e.kind, p.sample>>
               [] e.k = "Part" -> <<e.kind, e.sample>>
               [] OTHER -> <<>>
      q == Project(p, seq, e)
  IN
  IF e.k = "Delta"
  THEN [p |-> IF p.sample = None THEN p
              ELSE [p EXCEPT !.open = IF Contains(@, key) THEN @ ELSE Append(@, key),
                             !.deltas = Append(@, [key |-> key, text |-> seq])],
        outs |-> <<>>]
  ELSE IF q.outs = <<>> THEN q ELSE Flushed(p, e, key, q)

\* _process: after a cursor in the middle of an event only the rest of it is sent.
Rest(outs, index) == SubSeq(outs, index + 1, Len(outs))

(***************************************************************************)
(* transcript.ts.                                                          *)
(***************************************************************************)
Blank == [entries |-> <<>>, state |-> "idle"]

At(v, kind, id) == SelectInSeq(v.entries, LAMBDA x : x.kind = kind /\ x.id = id)
Upsert(v, x) ==
  LET at == At(v, x.kind, x.id) IN
  IF at = 0 THEN [v EXCEPT !.entries = Append(@, x)] ELSE [v EXCEPT !.entries[at] = x]

\* chunk: a thought that continues after its final text starts a new paragraph.
AddChunk(v, o) ==
  LET at == At(v, o.kind, o.id)
      old == IF at = 0 THEN [kind |-> o.kind, id |-> o.id, text |-> <<>>, final |-> FALSE]
             ELSE v.entries[at]
      joint == IF o.kind = "thought" /\ old.final THEN <<Gap>> ELSE <<>>
  IN Upsert(v, [old EXCEPT !.text = @ \o joint \o <<o.text>>, !.final = FALSE])

ToolEntry(v, id) ==
  LET at == At(v, "tool", id) IN
  IF at = 0 THEN [kind |-> "tool", id |-> id, status |-> "none", progress |-> <<>>]
  ELSE v.entries[at]

\* progress: the content of a call that has ended is its output, kept elsewhere.
AddContent(v, o) ==
  LET x == ToolEntry(v, o.id) IN
  IF x.status \in {"completed", "failed"} THEN v
  ELSE Upsert(v, [x EXCEPT !.progress = Append(@, o.text)])

\* state: a turn that did not end well leaves an entry of its own, named by the
\* cursor of the update.
Stops == {"cancelled", "_tantra_interrupted", "error"}
SetViewState(v, o) ==
  LET next == [v EXCEPT !.state = o.state] IN
  IF o.stop \in Stops THEN Upsert(next, [kind |-> "status", id |-> o.at, stop |-> o.stop]) ELSE next

\* reduce.
Reduce(v, o) ==
  CASE o.u = "user" -> Upsert(v, [kind |-> "user", id |-> o.id])
    [] o.u = "full" -> Upsert(v, [kind |-> o.kind, id |-> o.id, text |-> o.text, final |-> TRUE])
    [] o.u = "chunk" -> AddChunk(v, o)
    [] o.u = "tool" -> Upsert(v, [ToolEntry(v, o.id) EXCEPT !.status = o.status])
    [] o.u = "content" -> AddContent(v, o)
    [] o.u = "message" -> Upsert(v, [kind |-> "message", id |-> o.id])
    [] o.u = "state" -> SetViewState(v, o)
    [] o.u = "signal" -> v

ApplyAll(v, outs) == FoldLeft(Reduce, v, outs)

(***************************************************************************)
(* The turn engine writes, the live client follows.                        *)
(***************************************************************************)
Write(events) ==
  LET n == Len(log)
      after == FoldLeft(
        LAMBDA a, i : LET q == Project(a.p, n + i, events[i])
                      IN [p |-> q.p, v |-> ApplyAll(a.v, q.outs)],
        [p |-> live, v |-> view], [i \in 1 .. Len(events) |-> i])
  IN /\ log' = log \o events
     /\ live' = after.p
     /\ view' = after.v
     /\ UNCHANGED size

Count(kinds) == Len(SelectSeq(log, LAMBDA e : e.k \in kinds))
LastOf(kinds) == SelectLastInSeq(log, LAMBDA e : e.k \in kinds)

InTurn == LastOf({"TurnStarted"}) > LastOf({"TurnEnded"})
Sampling == InTurn /\ LastOf({"SampleStarted"}) > LastOf({"SampleCompleted", "TurnStarted"})
Calling == InTurn /\ LastOf({"ToolCallRequested"}) > LastOf({"ToolCallCompleted", "TurnStarted"})
CallRuns == Calling /\ LastOf({"ToolCallStarted"}) > LastOf({"ToolCallRequested"})
OpenAsk == InTurn /\ LastOf({"AskRaised"}) > LastOf({"AskAnswered", "TurnStarted"})
Streamed(kind) ==
  SelectSeq([i \in 1 .. Len(log) |-> i],
            LAMBDA i : i > LastOf({"SampleStarted"}) /\ log[i] = Delta(kind))

StartTurn == ~InTurn /\ Count({"TurnStarted"}) < size.turns /\ Write(<<Turn>>)

\* A sample follows another one: its predecessor completed, or failed and is retried.
StartSample ==
  /\ InTurn /\ ~Calling /\ Count({"SampleStarted"}) < size.samples
  /\ Write(<<Sample>>)

Stream(kind) == Sampling /\ Count({"Delta"}) < size.deltas /\ Write(<<Delta(kind)>>)

\* A completed sample is committed as one batch: reasoning, text, calls, usage.
EndSample(split, name) ==
  LET sample == LastOf({"SampleStarted"})
      thought == Streamed("thought")
      text == Streamed("agent")
      blocks == IF thought = <<>> THEN <<>>
                ELSE IF split /\ Len(thought) > 1
                     THEN <<Part("thought", sample, <<thought[1]>>),
                            Part("thought", sample, Tail(thought))>>
                     ELSE <<Part("thought", sample, thought)>>
  IN /\ Sampling
     /\ name # "none" => Count({"ToolCallRequested"}) < size.calls
     /\ Write(blocks
              \o (IF text = <<>> THEN <<>> ELSE <<Part("agent", sample, text)>>)
              \o (IF name = "none" THEN <<>> ELSE <<Request(sample, name)>>)
              \o <<SampleDone>>)

StartCall == Calling /\ ~CallRuns /\ Write(<<Started>>)
ReportProgress == CallRuns /\ Count({"ToolProgress"}) < size.progress /\ Write(<<Progress>>)
Ask == CallRuns /\ ~OpenAsk /\ Count({"AskRaised"}) < size.asks /\ Write(<<Raised>>)
Answer == CallRuns /\ OpenAsk /\ Write(<<Answered(LastOf({"AskRaised"}))>>)
EndCall(error) == CallRuns /\ ~OpenAsk /\ Write(<<Result(error)>>)
EndTurn(kind) == InTurn /\ Write(<<Ended(kind)>>)

Init == size \in Sizes /\ log = <<>> /\ live = Fresh /\ view = Blank

Next ==
  \/ StartTurn \/ StartSample
  \/ \E kind \in {"agent", "thought"} : Stream(kind)
  \/ \E split \in BOOLEAN, name \in {"none", "search", "send"} : EndSample(split, name)
  \/ StartCall \/ ReportProgress \/ Ask \/ Answer
  \/ \E error \in BOOLEAN : EndCall(error)
  \/ \E kind \in {"end_turn", "cancelled"} : EndTurn(kind)

Spec == Init /\ [][Next]_vars

(***************************************************************************)
(* Properties.                                                             *)
(***************************************************************************)
Positions == [i \in 1 .. Len(log) |-> i]

\* A view without what only tells how a text arrived, and without the entries
\* that need a cursor: a client without the profile gets none.
Plain(v) ==
  [v EXCEPT !.entries =
     LET shown == SelectSeq(@, LAMBDA x : x.kind # "status")
     IN [i \in DOMAIN shown |-> IF shown[i].kind \in {"agent", "thought"}
                                THEN [shown[i] EXCEPT !.final = TRUE] ELSE shown[i]]]

\* A client that joins late and replays the journal with its deltas coalesced sees,
\* once the held deltas are flushed, what a client that followed it sees: the same
\* entries in the same order with the same text, wherever the journal was cut.
ReplayAgrees ==
  LET end == FoldLeft(
        LAMBDA a, i : LET q == Replayed(a.p, i, log[i])
                      IN [p |-> q.p, v |-> ApplyAll(a.v, q.outs)],
        [p |-> Fresh, v |-> Blank], Positions)
  IN Plain(ApplyAll(end.v, Coalesced(end.p, end.p.open))) = Plain(view)

\* What a client that follows the first n events has, and the outputs of the next one.
After(n) ==
  FoldLeft(LAMBDA a, i : LET q == Project(a.p, i, log[i])
                         IN [p |-> q.p, v |-> ApplyAll(a.v, q.outs)],
           [p |-> Fresh, v |-> Blank], [i \in 1 .. n |-> i])

\* A client with the profile that comes back with the cursor of its last update gets
\* exactly the updates it missed, also when the cursor falls between two updates of one
\* event: its view ends where the uninterrupted view is.
ResumeAgrees ==
  log # <<>> =>
    LET n == Len(log)
        before == After(n - 1)
        outs == Project(before.p, n, log[n]).outs
    IN \A index \in {x \in 1 .. Len(outs) : outs[x].u # "signal"} :
         ApplyAll(ApplyAll(before.v, SubSeq(outs, 1, index)), Rest(outs, index)) = view

\* The asks the projector would issue are those of the open turn that nobody answered.
AsksArePending ==
  live.asks = {i \in 1 .. Len(log) : /\ log[i] = Raised
                                     /\ \A j \in i + 1 .. Len(log) :
                                          log[j].k # "TurnEnded" /\ log[j] # Answered(i)}
=============================================================================

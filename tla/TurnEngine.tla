---------------------------- MODULE TurnEngine ----------------------------
(***************************************************************************)
(* The turns of one actor (loop.py): compaction, sampling with retries,    *)
(* the checks before a tool runs, the tools of a sample running side by    *)
(* side, the questions they put to people and the answers, cancellation.   *)
(*                                                                         *)
(* The journal is `log'; `history' is the engine's copy of it, extended    *)
(* after each append and by _absorb.  A new engine serves every turn.      *)
(* While no tool runs the engine is the only task that appends, so an      *)
(* append and its recording are one step there.  Texts, usage, spans and   *)
(* hooks that change nothing are left out; Context says what the model is  *)
(* shown.                                                                  *)
(***************************************************************************)
EXTENDS Context, FiniteSets

CONSTANTS
    ProviderId,     \* the ids a provider gives its calls
    MaxAttempts,    \* retry.max_attempts
    Modes,          \* the values of history_mode to consider
    Sizes           \* the instances to explore, each a record of
                    \*   steps        agent.max_steps
                    \*   shapes       the kinds of calls the model makes
                    \*   turns        bound on the number of turns
                    \*   calls        bound on the number of calls, over all turns
                    \*   asks         bound on the number of asks
                    \*   compactions  bound on the number of compactions
                    \*   backlog      bound on the journal a turn begins with

VARIABLES
    log,            \* the actor's journal
    mode,           \* history_mode
    size,           \* the instance being explored
    history,        \* the engine's copy, or what is left of it
    lastSeq,        \* header.last_seq of the engine
    known,          \* _call_ids
    engine,         \* where the turn is
    tool,           \* the calls of _batch that run, and where each is
    recording,      \* the call whose committed event is not in history yet
    asks,           \* the calls with a live ask
    answering       \* the answer whose append is under way

vars == <<log, mode, size, history, lastSeq, known, engine, tool, recording, asks, answering>>

fixed == <<mode, size>>

\* "garbled": arguments that are no JSON object; "refused": a hook denies it;
\* "forbidden" and "guarded": the permissions deny it or ask; "misused": its
\* arguments do not validate.
Shapes == {"garbled", "submit", "badsubmit", "unknown", "refused", "forbidden",
           "guarded", "misused", "free"}

\* The outcomes a turn reaches by itself.
OwnEnds == {"completed", "output", "max_steps", "failed"}

At == {"idle", "sample", "stream", "preflight", "asking", "tools", "stopping"}

NoTurn == [at |-> "idle", turn |-> 0, n |-> 0, failures |-> 0, recovered |-> FALSE,
           persisted |-> FALSE, calls |-> <<>>, prepared |-> {}, output |-> FALSE,
           how |-> "completed"]

NoAnswer == [call |-> 0, allow |-> FALSE]

NoCall == 0

\* The id _unique_calls makes up for the index-th call of a sample.
Digest(turn, n, index) == 100 * turn + 10 * n + index

Ids == ProviderId \cup {Digest(t, n, k) : t \in 1..size.turns, n \in 0..size.steps, k \in 1..size.calls}

Init ==
    /\ log = <<>>
    /\ mode \in Modes
    /\ size \in Sizes
    /\ history = <<>>
    /\ lastSeq = 0
    /\ known = {}
    /\ engine = NoTurn
    /\ tool = <<>>
    /\ recording = NoCall
    /\ asks = {}
    /\ answering = NoAnswer

----------------------------------------------------------------------------
(* Appending *)

\* The root's lock, which _engine_append takes, is not held by an answer.
Unlocked == answering = NoAnswer

_trim_history(events) == IF mode = "compacted" THEN compacted_history(events) ELSE events

\* The engine appends and no tool is running.
_append(events) ==
    /\ Unlocked
    /\ log' = log \o events
    /\ history' = IF \E i \in DOMAIN events : events[i].type = "CompactionApplied"
                  THEN _trim_history(history \o events) ELSE history \o events
    /\ lastSeq' = Len(log')

_finish(how) ==
    /\ _append(<<TurnEnded(engine.turn, how)>>)
    /\ engine' = [NoTurn EXCEPT !.turn = engine.turn]

\* run and the part of _drain before it: a new engine with the history as the
\* journal has it.
Run ==
    /\ engine.at = "idle"
    /\ engine.turn < size.turns
    /\ Len(log) <= size.backlog
    /\ LET t == engine.turn + 1
           loaded == _trim_history(log) IN
       /\ known' = Calls(loaded, "ToolCallRequested")
       /\ log' = Append(log, TurnStarted(t))
       /\ history' = Append(loaded, TurnStarted(t))
       /\ lastSeq' = Len(log')
       /\ engine' = [NoTurn EXCEPT !.at = "sample", !.turn = t]
    /\ Unlocked
    /\ UNCHANGED <<fixed, tool, recording, asks, answering>>

----------------------------------------------------------------------------
(* Compaction *)

\* The results that may be pruned, oldest first: the last one of a call in
\* the window, if it is large and not pruned yet.
Candidates(window) ==
    LET prunable(i) ==
            /\ window[i].type = "ToolCallCompleted"
            /\ window[i].result = "full"
            /\ window[i].call \in Calls(window, "ToolCallRequested")
            /\ \A k \in Indices(window, "ToolCallCompleted") :
                   k > i => window[k].call # window[i].call
        at == SetToSortSeq({i \in DOMAIN window : prunable(i)}, <)
    IN  [k \in DOMAIN at |-> window[at[k]].call]

\* The stubs of the newest candidates, as many as it takes; the sizes that
\* decide are left open.
_prune(window) ==
    LET c == Reverse(Candidates(window)) IN
    {[k \in 1..n |-> ToolCallCompleted(c[k], "stub")] : n \in 0..Len(c)}

\* Where the events that are kept may begin: how many turns fit the budget is
\* left open.
_tail_start(window) ==
    LET starts == Indices(window, "TurnStarted") IN
    IF starts = {} THEN {Len(window) + 1} ELSE starts

\* The stubs of calls that are kept, and the compaction itself.
Applied(summary, window, boundary, stubs) ==
    LET prefix == SubSeq(window, 1, boundary - 1)
        tail == SubSeq(window, boundary, Len(window))
        durable(e) == e.call \in Calls(tail, "ToolCallRequested")
    IN  Append(SelectSeq(stubs, durable),
               CompactionApplied(window[boundary].turn, summary \cup Turns(prefix)))

\* What the compactor may return for a history: nothing if it is not forced,
\* stubs alone, or stubs and a summary of the turns before the boundary.
Compactions(events, forced) ==
    LET window == compaction_window(events)
        starts == Indices(window, "TurnStarted") IN
    (IF forced THEN {} ELSE {<<>>})
    \cup (_prune(window) \ {<<>>})
    \cup {Applied(Summary(events), window, b, s) :
              b \in {x \in _tail_start(window) \cap starts : \E y \in starts : y < x},
              s \in _prune(window)}

MayCompact(events) ==
    \/ events = <<>>
    \/ Cardinality({i \in DOMAIN log : log[i].type = "CompactionApplied"
                        \/ (log[i].type = "ToolCallCompleted" /\ log[i].result = "stub")})
         < size.compactions

\* A request that cannot be made to fit, or a summary that came back empty.
CompactionFails ==
    /\ engine.at = "sample"
    /\ _finish("failed")
    /\ UNCHANGED <<fixed, known, tool, recording, asks, answering>>

----------------------------------------------------------------------------
(* Sampling *)

SampleId == <<engine.turn, engine.n>>

\* Before every sample the compactor is asked; then the request is built from
\* the history.
BeginSample ==
    /\ engine.at = "sample"
    /\ \E events \in Compactions(history, FALSE) :
           /\ MayCompact(events)
           /\ _append(Append(events, SampleStarted(SampleId)))
    /\ engine' = [engine EXCEPT !.at = "stream", !.failures = 0, !.recovered = FALSE,
                                !.persisted = FALSE]
    /\ UNCHANGED <<fixed, known, tool, recording, asks, answering>>

\* A batch of deltas is appended; the deltas themselves are left out.
Deltas ==
    /\ engine.at = "stream"
    /\ Unlocked
    /\ ~engine.persisted
    /\ engine' = [engine EXCEPT !.persisted = TRUE]
    /\ UNCHANGED <<fixed, log, history, lastSeq, known, tool, recording, asks, answering>>

\* The context overflows before anything was streamed: compact and try again,
\* once.
RecoverOverflow ==
    /\ engine.at = "stream"
    /\ ~engine.persisted
    /\ ~engine.recovered
    /\ \E events \in Compactions(history, TRUE) :
           /\ MayCompact(events)
           /\ _append(events)
    /\ engine' = [engine EXCEPT !.recovered = TRUE]
    /\ UNCHANGED <<fixed, known, tool, recording, asks, answering>>

Retry ==
    /\ engine.at = "stream"
    /\ engine.failures + 1 < MaxAttempts
    /\ engine' = [engine EXCEPT !.failures = @ + 1]
    /\ UNCHANGED <<fixed, log, history, lastSeq, known, tool, recording, asks, answering>>

\* The failure is not retryable, the attempts are used up, or the overflow
\* cannot be recovered from.
SampleFails ==
    /\ engine.at = "stream"
    /\ _finish("failed")
    /\ UNCHANGED <<fixed, known, tool, recording, asks, answering>>

\* The ids of a sample's calls, given the provider's: an id seen before in
\* this turn or in the loaded history is replaced.
_unique_calls(given) ==
    LET next(ids, k) ==
            Append(ids, IF given[k] \in known \cup ToSet(ids)
                        THEN Digest(engine.turn, engine.n, k) ELSE given[k])
    IN  FoldLeft(next, <<>>, [k \in DOMAIN given |-> k])

\* The events of a finished sample; garbled calls are rejected at once.
_parts(text, calls) ==
    LET rejected(c) == IF c.shape = "garbled"
                       THEN <<ToolCallStarted(c.id), ToolCallCompleted(c.id, "error")>> ELSE <<>>
    IN  (IF text THEN <<TextPart(SampleId)>> ELSE <<>>)
        \o [k \in DOMAIN calls |-> ToolCallRequested(SampleId, calls[k].id)]
        \o FlattenSeq([k \in DOMAIN calls |-> rejected(calls[k])])

Requested == Cardinality(Indices(log, "ToolCallRequested"))

SampleEnds ==
    /\ engine.at = "stream"
    /\ \E shapes \in SeqOf(size.shapes, size.calls - Requested), text \in BOOLEAN :
       \E given \in [DOMAIN shapes -> ProviderId] :
           LET ids == _unique_calls(given)
               calls == [k \in DOMAIN ids |-> [id |-> ids[k], shape |-> shapes[k]]]
           IN  /\ shapes # <<>> \/ text
               /\ known' = known \cup ToSet(ids)
               /\ _append(_parts(text, calls))
               /\ engine' = [NoTurn EXCEPT !.at = "preflight", !.turn = engine.turn,
                                           !.n = engine.n, !.calls = calls]
    /\ UNCHANGED <<fixed, tool, recording, asks, answering>>

----------------------------------------------------------------------------
(* The checks before a call runs *)

Capped == engine.n + 1 >= size.steps

Head1 == engine.calls[1]

\* _complete: the call is settled without running.
_complete(result, output) ==
    /\ _append(<<ToolCallStarted(Head1.id), ToolCallCompleted(Head1.id, result)>>)
    /\ engine' = [engine EXCEPT !.at = "preflight", !.calls = Tail(@), !.output = output]

Prepare ==
    engine' = [engine EXCEPT !.at = "preflight", !.calls = Tail(@),
                             !.prepared = @ \cup {Head1}]

Checking == engine.at = "preflight" /\ engine.calls # <<>>

SkipGarbled ==
    /\ Checking
    /\ Head1.shape = "garbled"
    /\ engine' = [engine EXCEPT !.calls = Tail(@)]
    /\ UNCHANGED <<fixed, log, history, lastSeq, known, tool, recording, asks, answering>>

\* Why a call is not even looked up: the turn has its output, or its last step
\* is reached and the call does not submit one.
Moot(c) == engine.output \/ (Capped /\ c.shape \notin {"submit", "badsubmit"})

SubmitOutput ==
    /\ Checking
    /\ ~engine.output
    /\ Head1.shape = "submit"
    /\ _complete("full", TRUE)
    /\ UNCHANGED <<fixed, known, tool, recording, asks, answering>>

Reject ==
    /\ Checking
    /\ Head1.shape # "garbled"
    /\ \/ Moot(Head1)
       \/ Head1.shape \in {"badsubmit", "unknown", "refused", "forbidden", "misused"}
    /\ _complete("error", engine.output)
    /\ UNCHANGED <<fixed, known, tool, recording, asks, answering>>

\* The ask is live before it is durable.
AskApproval ==
    /\ Checking
    /\ ~Moot(Head1)
    /\ Head1.shape = "guarded"
    /\ _append(<<AskRaised(Head1.id)>>)
    /\ asks' = asks \cup {Head1.id}
    /\ engine' = [engine EXCEPT !.at = "asking"]
    /\ UNCHANGED <<fixed, known, tool, recording, answering>>

\* The future has its result: the answer is absorbed and obeyed.
Approval ==
    /\ engine.at = "asking"
    /\ Head1.id \notin asks
    /\ Unlocked
    /\ LET absorbed == history \o SubSeq(log, lastSeq + 1, Len(log))
           allowed == \E i \in Indices(log, "AskAnswered") :
                          log[i].call = Head1.id /\ log[i].allow
           denied == <<ToolCallStarted(Head1.id), ToolCallCompleted(Head1.id, "error")>>
       IN  /\ IF allowed
              THEN log' = log /\ history' = absorbed /\ Prepare
              ELSE /\ log' = log \o denied
                   /\ history' = absorbed \o denied
                   /\ engine' = [engine EXCEPT !.at = "preflight", !.calls = Tail(@)]
           /\ lastSeq' = Len(log')
    /\ UNCHANGED <<fixed, known, tool, recording, asks, answering>>

PassPreflight ==
    /\ Checking
    /\ ~Moot(Head1)
    /\ Head1.shape = "free"
    /\ Prepare
    /\ UNCHANGED <<fixed, log, history, lastSeq, known, tool, recording, asks, answering>>

----------------------------------------------------------------------------
(* Running the calls that passed *)

Start ==
    /\ engine.at = "preflight"
    /\ engine.calls = <<>>
    /\ engine.prepared # {}
    /\ LET ids == SetToSortSeq({c.id : c \in engine.prepared}, <) IN
       /\ _append([k \in DOMAIN ids |-> ToolCallStarted(ids[k])])
       /\ tool' = [id \in ToSet(ids) |-> [at |-> "running", asked |-> FALSE, page |-> <<>>,
                                          begin |-> 0]]
    /\ engine' = [engine EXCEPT !.at = "tools"]
    /\ UNCHANGED <<fixed, known, recording, asks, answering>>

Is(c, at) == engine.at = "tools" /\ c \in DOMAIN tool /\ tool[c].at = at

\* A tool's append is committed; _append_lock is held until it is recorded.
Commit(c, event, at) ==
    /\ recording = NoCall
    /\ Unlocked
    /\ log' = Append(log, event)
    /\ recording' = c
    /\ tool' = [tool EXCEPT ![c].at = at]
    /\ UNCHANGED <<fixed, history, lastSeq, known, engine, answering>>

ToolAsks(c) ==
    /\ Is(c, "running")
    /\ ~tool[c].asked
    /\ Cardinality(Indices(log, "AskRaised")) < size.asks
    /\ Commit(c, AskRaised(c), "raising")
    /\ asks' = asks \cup {c}

ToolReturns(c) ==
    /\ Is(c, "running")
    /\ Commit(c, ToolCallCompleted(c, "full"), "returning")
    /\ UNCHANGED asks

\* The rest of _append.
Record(c) ==
    /\ recording = c
    /\ recording' = NoCall
    /\ history' = Append(history, log[Max({i \in DOMAIN log : "call" \in DOMAIN log[i]
                              /\ log[i].call = c /\ log[i].type \in {"AskRaised", "ToolCallCompleted"}})])
    /\ lastSeq' = Len(log)
    /\ tool' = [tool EXCEPT ![c].at = IF @ = "raising" THEN "asking" ELSE "done"]
    /\ UNCHANGED <<fixed, log, known, engine, asks, answering>>

\* _absorb, which does not take _append_lock: a page is read ...
AbsorbRead(c) ==
    /\ \/ Is(c, "asking") /\ c \notin asks
       \/ Is(c, "absorbed")
    /\ tool' = [tool EXCEPT ![c] = [at |-> "absorbing", asked |-> TRUE, begin |-> lastSeq,
                                    page |-> SubSeq(log, lastSeq + 1, Len(log))]]
    /\ UNCHANGED <<fixed, log, history, lastSeq, known, engine, recording, asks, answering>>

\* ... and taken into the history, wherever that has got to meanwhile.
AbsorbPage(c) ==
    /\ Is(c, "absorbing")
    /\ LET page == tool[c].page IN
       /\ history' = history \o page
       /\ lastSeq' = IF page = <<>> THEN lastSeq ELSE tool[c].begin + Len(page)
       /\ tool' = [tool EXCEPT ![c].at = IF page = <<>> THEN "running" ELSE "absorbed",
                               ![c].page = <<>>, ![c].begin = 0]
    /\ UNCHANGED <<fixed, log, known, engine, recording, asks, answering>>

\* gather returns when every tool has.
Gathered ==
    \/ /\ engine.at = "preflight" /\ engine.calls = <<>> /\ engine.prepared = {}
    \/ /\ engine.at = "tools" /\ recording = NoCall
       /\ \A c \in DOMAIN tool : tool[c].at = "done"

\* The end of a step of _drive.
SampleHadCalls ==
    \E i \in Indices(log, "ToolCallRequested") : log[i].sample = SampleId

NextStep ==
    /\ Gathered
    /\ SampleHadCalls /\ ~engine.output /\ ~Capped
    /\ engine' = [NoTurn EXCEPT !.at = "sample", !.turn = engine.turn, !.n = engine.n + 1]
    /\ tool' = <<>>
    /\ UNCHANGED <<fixed, log, history, lastSeq, known, recording, asks, answering>>

EndTurn ==
    /\ Gathered
    /\ ~SampleHadCalls \/ engine.output \/ Capped
    /\ _finish(CASE ~SampleHadCalls -> "completed"
                 [] engine.output   -> "output"
                 [] OTHER           -> "max_steps")
    /\ tool' = <<>>
    /\ UNCHANGED <<fixed, known, recording, asks, answering>>

----------------------------------------------------------------------------
(* Answers and cancellation *)

\* _accept_answer: under the root's lock the ask is found live and the append
\* begins.
AcceptAnswer(c, allow) ==
    /\ Unlocked
    /\ c \in asks
    /\ answering' = [call |-> c, allow |-> allow]
    /\ UNCHANGED <<fixed, log, history, lastSeq, known, engine, tool, recording, asks>>

\* The append is done and the future is given the answer, if it still waits.
ResolveAsk ==
    /\ answering # NoAnswer
    /\ log' = Append(log, AskAnswered(answering.call, answering.allow))
    /\ asks' = asks \ {answering.call}
    /\ answering' = NoAnswer
    /\ UNCHANGED <<fixed, history, lastSeq, known, engine, tool, recording>>

Abandon(how) ==
    /\ engine.at \notin {"idle", "stopping"}
    /\ engine' = [NoTurn EXCEPT !.at = "stopping", !.turn = engine.turn, !.how = how]
    /\ tool' = <<>>
    /\ recording' = NoCall
    /\ asks' = {}
    /\ UNCHANGED <<fixed, history, lastSeq, known, answering>>

\* A cancellation is recorded under the root's lock and the task is cancelled.
Cancel ==
    /\ Unlocked
    /\ log' = Append(log, CancellationRequested(engine.turn))
    /\ Abandon("cancelled")

\* Shutdown does not take the lock to cancel the task.
Interrupt ==
    /\ Abandon("interrupted")
    /\ UNCHANGED log

\* A mutant of Stopped that does not take the root's lock.
StoppedUnlocked ==
    /\ engine.at = "stopping"
    /\ log' = Append(log, TurnEnded(engine.turn, engine.how))
    /\ engine' = [NoTurn EXCEPT !.turn = engine.turn]
    /\ UNCHANGED <<fixed, history, lastSeq, known, tool, recording, asks, answering>>

\* _drain's handler closes the turn.
Stopped ==
    /\ engine.at = "stopping"
    /\ Unlocked
    /\ log' = Append(log, TurnEnded(engine.turn, engine.how))
    /\ engine' = [NoTurn EXCEPT !.turn = engine.turn]
    /\ UNCHANGED <<fixed, history, lastSeq, known, tool, recording, asks, answering>>

----------------------------------------------------------------------------

Next ==
    \/ Run \/ BeginSample \/ CompactionFails \/ Deltas \/ RecoverOverflow \/ Retry
    \/ SampleFails \/ SampleEnds
    \/ SkipGarbled \/ SubmitOutput \/ Reject \/ AskApproval \/ Approval \/ PassPreflight
    \/ Start \/ NextStep \/ EndTurn
    \/ \E c \in DOMAIN tool :
           ToolAsks(c) \/ ToolReturns(c) \/ Record(c) \/ AbsorbRead(c) \/ AbsorbPage(c)
    \/ \E c \in asks, allow \in BOOLEAN : AcceptAnswer(c, allow)
    \/ ResolveAsk \/ Cancel \/ Interrupt \/ Stopped

Spec == Init /\ [][Next]_vars

----------------------------------------------------------------------------
(* Properties *)

\* The variables have their types.
TypeOK ==
    /\ mode \in Modes
    /\ lastSeq \in 0..Len(log)
    /\ known \subseteq Ids
    /\ engine.at \in At /\ engine.turn \in 0..size.turns /\ engine.n \in 0..size.steps - 1
    /\ DOMAIN tool \subseteq Ids
    /\ asks \subseteq Ids

\* Whenever the provider is asked, it is shown what the journal says, although
\* the engine's history misses the events others appended and holds some
\* events twice, and although a compacted history begins later.
ContextAgrees == engine.at = "stream" => build_messages(history) = build_messages(log)

\* In every request each call of an assistant message is followed by its
\* result, in order, and there is no other result: providers refuse anything
\* else.
RequestsAreWellFormed ==
    engine.at = "stream" =>
        LET m == build_messages(history) IN
        \A i \in DOMAIN m :
            /\ m[i].role = "assistant" =>
                   \A k \in DOMAIN m[i].calls :
                       /\ i + k \in DOMAIN m
                       /\ m[i + k].role = "tool" /\ m[i + k].call = m[i].calls[k]
            /\ m[i].role = "tool" =>
                   \E j \in 1..i - 1 : /\ m[j].role = "assistant"
                                       /\ i - j \in DOMAIN m[j].calls
                                       /\ m[j].calls[i - j] = m[i].call

\* Every turn is in the summary or in the events shown, and in one of them.
NoTurnIsForgotten ==
    LET shown == Turns(compaction_window(log)) IN
    /\ Summary(log) \cup shown = Turns(log)
    /\ Summary(log) \cap shown = {}

\* A call is started and completed at most once, apart from pruning, and when
\* the engine takes another sample or ends the turn itself all its calls are.
CallsAreSettled ==
    \A i \in Indices(log, "ToolCallRequested") :
        LET c == log[i].call
            next == {k \in DOMAIN log : k > i /\ log[k].type \in {"SampleStarted", "TurnEnded"}}
            settled == {k \in Indices(log, "ToolCallCompleted") :
                            k > i /\ log[k].call = c /\ log[k].result # "stub"}
            started == {k \in Indices(log, "ToolCallStarted") : k > i /\ log[k].call = c}
        IN  next # {} =>
                LET e == log[Min(next)] IN
                e.type = "SampleStarted" \/ e.how \in OwnEnds =>
                    \E s, d \in 1..Min(next) : s \in started /\ d \in settled /\ s < d

DistinctCalls(events) ==
    \A i, k \in Indices(events, "ToolCallRequested") :
        events[i].call = events[k].call => i = k

\* The model is never shown two calls with one id, whatever ids a provider
\* repeats; a result could not be told to belong to one of them.
ShownCallsAreDistinct == DistinctCalls(compaction_window(log))

\* The ids of the calls of a session are distinct.
CallIdsAreUnique == DistinctCalls(log)

\* A guarded call runs only after somebody allowed it; a denied one never runs.
RunsAreApproved ==
    engine.at = "tools" => \A c \in engine.prepared :
        /\ c.shape \in {"free", "guarded"}
        /\ c.shape = "guarded" =>
               \E i \in Indices(log, "AskAnswered"), k \in Indices(log, "ToolCallStarted") :
                   i < k /\ log[i].call = c.id /\ log[i].allow /\ log[k].call = c.id

\* An answer is in the journal at most once per ask, and before the end of the
\* turn that asked.
AnswersReachTheirTurn ==
    \A i \in Indices(log, "AskAnswered") :
        LET raised == {k \in Indices(log, "AskRaised") : k < i /\ log[k].call = log[i].call} IN
        /\ raised # {}
        /\ \A k \in Max(raised)..i - 1 :
               log[k].type # "TurnEnded" /\ (log[k].type = "AskAnswered" => log[k].call # log[i].call)
=============================================================================

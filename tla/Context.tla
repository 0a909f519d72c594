------------------------------ MODULE Context ------------------------------
(***************************************************************************)
(* What the model is shown of a journal (context.py): the events since the *)
(* last compaction's floor behind its summary, as messages.                *)
(*                                                                         *)
(* An event is a record with a type and only the fields that context.py    *)
(* reads.  Texts are left out: a summary is the set of turns it stands     *)
(* for, a result says whether it was pruned.                               *)
(***************************************************************************)
EXTENDS Naturals, Sequences, SequencesExt

TurnStarted(turn) == [type |-> "TurnStarted", turn |-> turn]

SampleStarted(sample) == [type |-> "SampleStarted", sample |-> sample]

TextPart(sample) == [type |-> "TextPart", sample |-> sample]

ToolCallRequested(sample, call) ==
    [type |-> "ToolCallRequested", sample |-> sample, call |-> call]

ToolCallStarted(call) == [type |-> "ToolCallStarted", call |-> call]

ToolCallCompleted(call, result) ==
    [type |-> "ToolCallCompleted", call |-> call, result |-> result]

AskRaised(call) == [type |-> "AskRaised", call |-> call]

AskAnswered(call, allow) == [type |-> "AskAnswered", call |-> call, allow |-> allow]

CompactionApplied(floor, summary) ==
    [type |-> "CompactionApplied", floor |-> floor, summary |-> summary]

CancellationRequested(turn) == [type |-> "CancellationRequested", turn |-> turn]

TurnEnded(turn, how) == [type |-> "TurnEnded", turn |-> turn, how |-> how]

Indices(events, type) == {i \in DOMAIN events : events[i].type = type}

Calls(events, type) == {events[i].call : i \in Indices(events, type)}

Turns(events) == {events[i].turn : i \in Indices(events, "TurnStarted")}

Latest(events) == Max(Indices(events, "CompactionApplied") \cup {0})

\* The index the events shown begin at, and the summary shown before them.
Floor(events) ==
    IF Latest(events) = 0 THEN 1
    ELSE LET applied == events[Latest(events)]
             at == {i \in Indices(events, "TurnStarted") : events[i].turn = applied.floor}
         IN  IF at = {} THEN Latest(events) + 1 ELSE Min(at)

Summary(events) == IF Latest(events) = 0 THEN {} ELSE events[Latest(events)].summary

compaction_window(events) == SubSeq(events, Floor(events), Len(events))

\* The least suffix of a journal that shows the same.
compacted_history(events) ==
    IF Latest(events) = 0 THEN events
    ELSE SubSeq(events, IF Latest(events) < Floor(events) THEN Latest(events)
                        ELSE Floor(events), Len(events))

User(what, turns) == [role |-> "user", what |-> what, turns |-> turns]

Assistant(sample, text, calls) ==
    [role |-> "assistant", sample |-> sample, text |-> text, calls |-> calls]

ToolResult(call, content) == [role |-> "tool", call |-> call, content |-> content]

OfSample(events, sample) ==
    {i \in Indices(events, "TextPart") \cup Indices(events, "ToolCallRequested") :
        events[i].sample = sample}

\* The calls that have a result; a result that comes before its call is skipped.
Answered(events) ==
    {c \in Calls(events, "ToolCallRequested") :
        \E i \in Indices(events, "ToolCallRequested"), k \in Indices(events, "ToolCallCompleted") :
            i < k /\ events[i].call = c /\ events[k].call = c}

\* A mutant of AnsweredCalls that shows the calls without a result too.
CallsOfSample(events, sample) ==
    LET shown(e) == e.type = "ToolCallRequested" /\ e.sample = sample
        requests == SelectSeq(events, shown)
    IN  [k \in DOMAIN requests |-> requests[k].call]

\* Those of one sample, in the order of their requests.
AnsweredCalls(events, sample) ==
    LET shown(e) == /\ e.type = "ToolCallRequested"
                    /\ e.sample = sample
                    /\ e.call \in Answered(events)
        requests == SelectSeq(events, shown)
    IN  [k \in DOMAIN requests |-> requests[k].call]

\* The last result of a call is the one shown.
ResultOf(events, call) ==
    events[Max({i \in Indices(events, "ToolCallCompleted") : events[i].call = call})].result

\* The assistant message the first part of a sample opens, unless it is empty.
OpensSample(events, i) ==
    LET s == events[i].sample
        text == \E k \in Indices(events, "TextPart") : events[k].sample = s
        calls == AnsweredCalls(events, s)
    IN  IF i = Min(OfSample(events, s)) /\ (text \/ calls # <<>>)
        THEN <<Assistant(s, text, calls)>> ELSE <<>>

\* The place of a call's result is the call's first request.
OpensResult(events, i) ==
    LET c == events[i].call
        first == Min({k \in Indices(events, "ToolCallRequested") : events[k].call = c})
    IN  IF i = first /\ c \in Answered(events)
        THEN <<ToolResult(c, ResultOf(events, c))>> ELSE <<>>

MessagesAt(events, i) ==
    LET type == events[i].type IN
    CASE type = "TurnStarted" -> <<User("input", {events[i].turn})>>
      [] type = "CancellationRequested" -> <<User("cancelled", {events[i].turn})>>
      [] type = "TextPart" -> OpensSample(events, i)
      [] type = "ToolCallRequested" -> OpensSample(events, i) \o OpensResult(events, i)
      [] OTHER -> <<>>

assemble_messages(summary, events) ==
    (IF summary = {} THEN <<>> ELSE <<User("summary", summary)>>)
        \o FlattenSeq([i \in DOMAIN events |-> MessagesAt(events, i)])

build_messages(events) == assemble_messages(Summary(events), compaction_window(events))
=============================================================================

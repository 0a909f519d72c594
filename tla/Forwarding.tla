----------------------------- MODULE Forwarding -----------------------------
(***************************************************************************)
(* How a command reaches the runtime that owns a root.  A client stores a  *)
(* request addressed to the owner, and addresses it again when ownership   *)
(* moves; the owner's dispatcher applies it and stores the reply in one    *)
(* fenced transaction.  Clients time out and try again with a new request  *)
(* for the same command; owners crash, lose the root and lose the outcome  *)
(* of a commit.                                                            *)
(*                                                                         *)
(* Ownership is what FencedLog promises and Lease implements: a            *)
(* transaction is one step that only the current owner can take.           *)
(***************************************************************************)
EXTENDS Naturals, Sequences

CONSTANTS
    Instance,       \* the runtimes that share one database
    NoOne,          \* no runtime, no connection, no command
    Request,        \* request ids
    Command,        \* command ids of inputs
    Connection,     \* writable connections
    MaxGeneration,  \* bound on ownership changes
    MaxFaults       \* bound on handler failures, crashes and lost outcomes

ASSUME ForwardingAssumption ==
    /\ NoOne \notin Instance \cup Connection \cup Command \cup Request
    /\ MaxGeneration \in Nat
    /\ MaxFaults \in Nat

VARIABLES
    owner,          \* the instance with a valid lease, or NoOne
    generation,     \* coordinator_roots.generation
    writer,         \* coordinator_roots.writer_connection
    log,            \* history: what requests changed, in commit order
    row,            \* coordinator_requests
    call,           \* the client's side of each request
    holds,          \* the connections that hold a writer token
    slot,           \* _dispatchers[root_id] of each instance
    faults

vars == <<owner, generation, writer, log, row, call, holds, slot, faults>>

Operation == {"claim_writer", "release_writer", "send"}

Reply == {"accepted", "duplicate", "replaced", "handler_failed"}

\* What a reply can tell the client; "unknown" stands for CommandTimeout and
\* CoordinatorUnavailable.
Result == Reply \cup {"none", "unknown"}

Destination == Instance \X Nat

Row == [stored : BOOLEAN, to : Destination \cup {NoOne},
        reply : Reply \cup {"none"}, late : BOOLEAN]

NoRow == [stored |-> FALSE, to |-> NoOne, reply |-> "none", late |-> FALSE]

Envelope == [open : BOOLEAN, op : Operation, from : Connection \cup {NoOne},
             command : Command \cup {NoOne}, to : Destination \cup {NoOne},
             result : Result]

NoCall == [open |-> FALSE, op |-> "send", from |-> NoOne, command |-> NoOne,
           to |-> NoOne, result |-> "none"]

Slot == [at : {"idle", "picked", "applied", "failed"}, request : Request \cup {NoOne},
         generation : Nat]

IdleSlot == [at |-> "idle", request |-> NoOne, generation |-> 0]

Entry == [op : Operation, by : Request, from : Connection,
          command : Command \cup {NoOne}]

\* The variables have their types, and a busy dispatcher has a request.
TypeOK ==
    /\ owner \in Instance \cup {NoOne}
    /\ generation \in Nat
    /\ writer \in Connection \cup {NoOne}
    /\ log \in Seq(Entry)
    /\ row \in [Request -> Row]
    /\ call \in [Request -> Envelope]
    /\ holds \subseteq Connection
    /\ slot \in [Instance -> Slot]
    /\ \A i \in Instance : slot[i].at # "idle" => slot[i].request \in Request
    /\ faults \in Nat

Init ==
    /\ owner = NoOne
    /\ generation = 0
    /\ writer = NoOne
    /\ log = <<>>
    /\ row = [r \in Request |-> NoRow]
    /\ call = [r \in Request |-> NoCall]
    /\ holds = {}
    /\ slot = [i \in Instance |-> IdleSlot]
    /\ faults = 0

----------------------------------------------------------------------------
(* Ownership, as Lease implements it *)

\* A client that finds no owner acquires the root before it sends.
Acquire(i) ==
    /\ owner = NoOne
    /\ generation < MaxGeneration
    /\ owner' = i
    /\ generation' = generation + 1
    /\ UNCHANGED <<writer, log, row, call, holds, slot, faults>>

\* The lease expires or is released.
Lose ==
    /\ owner # NoOne
    /\ owner' = NoOne
    /\ UNCHANGED <<generation, writer, log, row, call, holds, slot, faults>>

----------------------------------------------------------------------------
(* The client *)

Fresh(r) == call[r] = NoCall

\* _request_command makes a new envelope for every call, so a command that is
\* tried again travels under another request id.
Ask(r, op, w, c) ==
    /\ Fresh(r)
    /\ call' = [call EXCEPT ![r] = [open |-> TRUE, op |-> op, from |-> w,
                                    command |-> c, to |-> NoOne, result |-> "none"]]
    /\ UNCHANGED <<owner, generation, writer, log, row, slot, faults>>

\* A connection claims once, when it is entered.
AskClaim(r, w) ==
    /\ \A q \in Request : call[q].from # w
    /\ Ask(r, "claim_writer", w, NoOne)
    /\ UNCHANGED holds

\* A connection forgets its token before it asks for its release.
AskRelease(r, w) ==
    /\ w \in holds
    /\ Ask(r, "release_writer", w, NoOne)
    /\ holds' = holds \ {w}

AskSend(r, w, c) ==
    /\ w \in holds
    /\ Ask(r, "send", w, c)
    /\ UNCHANGED holds

\* _put_request, called whenever the destination last used is not the owner
\* observed: store the request, or address it again while it has no reply.
Put(r) ==
    /\ call[r].open
    /\ owner # NoOne
    /\ call[r].to # <<owner, generation>>
    /\ row' = [row EXCEPT ![r] =
                  IF @.reply # "none" THEN @
                  ELSE [@ EXCEPT !.stored = TRUE, !.to = <<owner, generation>>]]
    /\ call' = [call EXCEPT ![r].to = <<owner, generation>>]
    /\ UNCHANGED <<owner, generation, writer, log, holds, slot, faults>>

\* The client reads the reply; a granted claim carries the writer token.
Return(r) ==
    /\ call[r].open
    /\ call[r].to # NoOne
    /\ row[r].reply # "none"
    /\ call' = [call EXCEPT ![r].open = FALSE, ![r].result = row[r].reply]
    /\ holds' = IF call[r].op = "claim_writer" /\ row[r].reply = "accepted"
                THEN holds \cup {call[r].from} ELSE holds
    /\ UNCHANGED <<owner, generation, writer, log, row, slot, faults>>

\* The client stops waiting: its own timeout, no owner, or the database.
GiveUp(r) ==
    /\ call[r].open
    /\ call' = [call EXCEPT ![r].open = FALSE, ![r].result = "unknown"]
    /\ UNCHANGED <<owner, generation, writer, log, row, holds, slot, faults>>

\* The deadline of an unanswered request passes on the database clock.
Deadline(r) ==
    /\ row[r].stored /\ row[r].reply = "none" /\ ~row[r].late
    /\ row' = [row EXCEPT ![r].late = TRUE]
    /\ UNCHANGED <<owner, generation, writer, log, call, holds, slot, faults>>

----------------------------------------------------------------------------
(* The owner *)

\* A request that the given ownership may still apply.
Waiting(r, i, g) ==
    row[r].stored /\ row[r].reply = "none" /\ ~row[r].late /\ row[r].to = <<i, g>>

\* _next_request
Pick(i) ==
    /\ slot[i].at = "idle"
    /\ owner = i
    /\ \E r \in Request :
          /\ Waiting(r, i, generation)
          /\ slot' = [slot EXCEPT ![i] = [at |-> "picked", request |-> r,
                                          generation |-> generation]]
    /\ UNCHANGED <<owner, generation, writer, log, row, call, holds, faults>>

\* The fence of the transaction the dispatcher opens.
Fenced(i) == owner = i /\ generation = slot[i].generation

\* Mutant: the row is taken as it was when it was picked.
LockedBlindly(i) == row[slot[i].request].stored

\* lock_request: the row is selected again inside the transaction.
Locked(i) == Waiting(slot[i].request, i, slot[i].generation)

\* Mutant: the command id is not looked up.
NeverRecorded(c) == FALSE

\* find_command
Recorded(c) == \E n \in DOMAIN log : log[n].op = "send" /\ log[n].command = c

\* Mutant: any token is good.
AnyWriter(w) == TRUE

\* validate_writer
ValidWriter(w) == writer = w

\* The reply the operation of request r gets.
Verdict(r) ==
    IF call[r].op = "claim_writer" THEN "accepted"
    ELSE IF ~ValidWriter(call[r].from) THEN "replaced"
    ELSE IF call[r].op = "send" /\ Recorded(call[r].command) THEN "duplicate"
    ELSE "accepted"

\* The transaction commits: operation and reply together.
Commit(r) ==
    /\ row' = [row EXCEPT ![r].reply = Verdict(r)]
    /\ log' = IF Verdict(r) = "accepted"
              THEN Append(log, [op |-> call[r].op, by |-> r, from |-> call[r].from,
                                command |-> call[r].command])
              ELSE log
    /\ writer' = IF Verdict(r) # "accepted" THEN writer
                 ELSE IF call[r].op = "claim_writer" THEN call[r].from
                 ELSE IF call[r].op = "release_writer" THEN NoOne
                 ELSE writer

Goto(i, where) == slot' = [slot EXCEPT ![i].at = where]

\* _apply_request commits.
Apply(i) ==
    /\ slot[i].at = "picked"
    /\ Fenced(i)
    /\ Locked(i)
    /\ Commit(slot[i].request)
    /\ Goto(i, "applied")
    /\ UNCHANGED <<owner, generation, call, holds, faults>>

\* The commit goes through, but the owner is told that it failed.
ApplyUnheard(i) ==
    /\ faults < MaxFaults
    /\ slot[i].at = "picked"
    /\ Fenced(i)
    /\ Locked(i)
    /\ Commit(slot[i].request)
    /\ Goto(i, "failed")
    /\ faults' = faults + 1
    /\ UNCHANGED <<owner, generation, call, holds>>

\* The request was answered, addressed elsewhere or overtaken by its deadline.
ApplyNothing(i) ==
    /\ slot[i].at = "picked"
    /\ Fenced(i)
    /\ ~Locked(i)
    /\ Goto(i, "applied")
    /\ UNCHANGED <<owner, generation, writer, log, row, call, holds, faults>>

\* Mutant: a dispatcher that lost the lease keeps its slot.
KeepsSlot(i) == slot[i]

\* finally: the slot is given back.
Vacated(i) == IdleSlot

Vacate(i) == slot' = [slot EXCEPT ![i] = Vacated(i)]

\* LeaseLost: somebody else will apply the request.
ApplyFenced(i) ==
    /\ slot[i].at \in {"picked", "failed"}
    /\ ~Fenced(i)
    /\ Vacate(i)
    /\ UNCHANGED <<owner, generation, writer, log, row, call, holds, faults>>

\* Any other exception rolls the transaction back.
HandlerFails(i) ==
    /\ faults < MaxFaults
    /\ slot[i].at = "picked"
    /\ Goto(i, "failed")
    /\ faults' = faults + 1
    /\ UNCHANGED <<owner, generation, writer, log, row, call, holds>>

\* The handler returned: a request still without a reply is answered for it.
Settle(i) ==
    /\ slot[i].at = "applied"
    /\ IF row[slot[i].request].reply = "none" THEN Goto(i, "failed") ELSE Vacate(i)
    /\ UNCHANGED <<owner, generation, writer, log, row, call, holds, faults>>

\* _infrastructure_reply; it gives up silently when it fails itself.
InfrastructureReply(i) ==
    /\ slot[i].at = "failed"
    /\ Fenced(i)
    /\ row' = IF Locked(i)
              THEN [row EXCEPT ![slot[i].request].reply = "handler_failed"]
              ELSE row
    /\ Vacate(i)
    /\ UNCHANGED <<owner, generation, writer, log, call, holds, faults>>

InfrastructureReplyFails(i) ==
    /\ faults < MaxFaults
    /\ slot[i].at = "failed"
    /\ Vacate(i)
    /\ faults' = faults + 1
    /\ UNCHANGED <<owner, generation, writer, log, row, call, holds>>

\* The process dies; the lease outlives it until it expires.
Crash(i) ==
    /\ faults < MaxFaults
    /\ slot[i].at # "idle"
    /\ slot' = [slot EXCEPT ![i] = IdleSlot]
    /\ faults' = faults + 1
    /\ UNCHANGED <<owner, generation, writer, log, row, call, holds>>

Client(r) ==
    \/ \E w \in Connection : AskClaim(r, w) \/ AskRelease(r, w)
    \/ \E w \in Connection, c \in Command : AskSend(r, w, c)
    \/ Put(r) \/ Return(r) \/ GiveUp(r) \/ Deadline(r)

Dispatch(i) ==
    \/ Pick(i) \/ Apply(i) \/ ApplyNothing(i) \/ ApplyFenced(i) \/ Settle(i)
    \/ InfrastructureReply(i)

Failure(i) ==
    ApplyUnheard(i) \/ HandlerFails(i) \/ InfrastructureReplyFails(i) \/ Crash(i)

Next ==
    \/ Lose
    \/ \E r \in Request : Client(r)
    \/ \E i \in Instance : Acquire(i) \/ Dispatch(i) \/ Failure(i)

Spec == Init /\ [][Next]_vars

\* Every dispatcher polls, so its steps are taken sooner or later; clients,
\* deadlines, ownership and failures may go either way.
FairSpec == Spec /\ \A i \in Instance : WF_vars(Dispatch(i))

----------------------------------------------------------------------------
(* Properties *)

\* An input is recorded at most once, whatever retries, re-addressed requests
\* and lost outcomes do to the requests that carry it.
CommandsOnce ==
    \A m, n \in DOMAIN log :
        /\ log[m].op = "send" /\ log[n].op = "send"
        /\ log[m].command = log[n].command
        => m = n

\* The entries of request r.
EntriesOf(r) == {n \in DOMAIN log : log[n].by = r}

\* What the client is told is what happened and stays so: an accepted request
\* took effect exactly once, a refused or failed one never does, although the
\* dispatcher may fail on it, answer it twice or hand it to the next owner; a
\* duplicate is one of an input another request recorded.
RepliesTellTheTruth ==
    \A r \in Request :
        /\ row[r].reply = "accepted" => \E n \in DOMAIN log : EntriesOf(r) = {n}
        /\ row[r].reply # "accepted" => EntriesOf(r) = {}
        /\ row[r].reply = "duplicate" => Recorded(call[r].command)
        /\ call[r].result \notin {"none", "unknown"} => call[r].result = row[r].reply

\* An input is only accepted from the connection whose claim is the latest, and
\* not after that connection has released: a replaced writer is cut off even
\* when its request was stored before the claim.
WritersAreFenced ==
    \A n \in DOMAIN log :
        log[n].op = "send" =>
            \E m \in 1 .. (n - 1) :
                /\ log[m].op = "claim_writer" /\ log[m].from = log[n].from
                /\ \A k \in (m + 1) .. (n - 1) : log[k].op = "send"

\* A request stored for the owner is answered while that ownership and the
\* deadline last: no failure wedges the dispatcher.
RequestsAreAnswered ==
    \A r \in Request, i \in Instance, g \in 1 .. MaxGeneration :
        (Waiting(r, i, g) /\ owner = i /\ generation = g)
        ~> (row[r].reply # "none" \/ row[r].late \/ owner # i \/ generation # g)

=============================================================================

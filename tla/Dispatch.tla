------------------------------ MODULE Dispatch ------------------------------
(***************************************************************************)
(* How a PostgresCoordinator finds the requests that were stored for it.   *)
(* A notification sets _dispatch_event; _dispatch clears the event before  *)
(* it looks, and _process_requests takes one request after another, at     *)
(* most one of a root and Slots at a time, until a query finds nothing or  *)
(* fails.  Notifications are lost while the listener has no connection,    *)
(* and nothing is sent again for a request that a query passed over.       *)
(*                                                                         *)
(* One coordinator between start with a handler and close; a step runs to  *)
(* the next await that suspends.  What a dispatcher does with its request  *)
(* is in Forwarding, what the listener does for observers in Hints.        *)
(***************************************************************************)
EXTENDS Naturals, FiniteSets

CONSTANTS
    Tree,           \* roots
    NoTree,         \* no root
    Slots,          \* dispatchers at a time: 4
    MaxRequests     \* bound on the unanswered requests of a root

VARIABLES
    requests,       \* unanswered requests of each root, stored for this owner
    dispatchers,    \* the keys of _dispatchers
    event,          \* _dispatch_event is set
    search,         \* where _process_requests is
    ears,           \* where _listen is
    notices,        \* the roots of unread "request" and "ownership" notices
    missed          \* history: a query failed since the event was last cleared

dispatchVars == <<requests, dispatchers, event, search, ears, notices, missed>>

\* "asking", "answered": in _next_request, before and after its statement ran
\* with the roots in `excluded' left out; `found' is the root of the candidate.
SearchState == [at : {"asleep", "asking", "answered"},
                excluded : SUBSET Tree, found : Tree \cup {NoTree}]

Waiting == [at |-> "asleep", excluded |-> {}, found |-> NoTree]

ASSUME DispatchAssumption ==
    /\ NoTree \notin Tree
    /\ IsFiniteSet(Tree)
    /\ {Slots, MaxRequests} \subseteq Nat

DispatchInit ==
    /\ requests = [t \in Tree |-> 0]
    /\ dispatchers = {}
    /\ event = FALSE
    /\ search = Waiting
    /\ ears = "down"
    /\ notices = {}
    /\ missed = FALSE

Heard(t) == IF ears = "down" THEN notices ELSE notices \cup {t}

\* _put_request by some process commits a request for this owner.
Store(t) ==
    /\ requests[t] < MaxRequests
    /\ requests' = [requests EXCEPT ![t] = @ + 1]
    /\ notices' = Heard(t)
    /\ UNCHANGED <<dispatchers, event, search, ears, missed>>

\* The root changes hands.
Announce(t) ==
    /\ notices' = Heard(t)
    /\ UNCHANGED <<requests, dispatchers, event, search, ears, missed>>

\* A request is answered, or its deadline passes, or it is addressed elsewhere.
Settle(t) ==
    /\ requests[t] > 0
    /\ requests' = [requests EXCEPT ![t] = @ - 1]
    /\ UNCHANGED <<dispatchers, event, search, ears, notices, missed>>

----------------------------------------------------------------------------
(* _listen *)

\* LISTEN takes effect in the database before the coordinator goes on.
Subscribe ==
    /\ ears = "down"
    /\ ears' = "registered"
    /\ UNCHANGED <<requests, dispatchers, event, search, notices, missed>>

\* Requests may have been stored while nobody listened.
Subscribed ==
    /\ ears = "registered"
    /\ ears' = "listening"
    /\ event' = TRUE
    /\ UNCHANGED <<requests, dispatchers, search, notices, missed>>

\* The connection is lost, and what it had to say.
Deaf ==
    /\ ears # "down"
    /\ ears' = "down"
    /\ notices' = {}
    /\ UNCHANGED <<requests, dispatchers, event, search, missed>>

\* _schedule(..., dispatch=True)
Hear(t) ==
    /\ ears = "listening"
    /\ t \in notices
    /\ notices' = notices \ {t}
    /\ event' = TRUE
    /\ UNCHANGED <<requests, dispatchers, search, ears, missed>>

----------------------------------------------------------------------------
(* _dispatch and _process_requests *)

\* while len(self._dispatchers) < 4: the next query, or back to the event.
Onward(busy) ==
    IF Cardinality(busy) < Slots
    THEN [at |-> "asking", excluded |-> busy, found |-> NoTree]
    ELSE Waiting

\* The event or its timeout.
WakeDispatch ==
    /\ search.at = "asleep"
    /\ event' = FALSE
    /\ missed' = FALSE
    /\ search' = Onward(dispatchers)
    /\ UNCHANGED <<requests, dispatchers, ears, notices>>

\* The roots the statement finds: those busy when it was asked are left out.
Candidates == {t \in Tree \ search.excluded : requests[t] > 0}

SelectRequest ==
    /\ search.at = "asking"
    /\ \/ \E t \in Candidates : search' = [search EXCEPT !.at = "answered", !.found = t]
       \/ Candidates = {} /\ search' = [search EXCEPT !.at = "answered"]
    /\ UNCHANGED <<requests, dispatchers, event, ears, notices, missed>>

\* psycopg.Error: _next_request answers None, and _process_requests returns with
\* the event cleared and the notice gone.
SelectFails ==
    /\ search.at # "asleep"
    /\ search' = Waiting
    /\ missed' = TRUE
    /\ UNCHANGED <<requests, dispatchers, event, ears, notices>>

\* The candidate gets a task of its own, and the loop goes on.
TakeRequest ==
    /\ search.at = "answered"
    /\ search.found # NoTree
    /\ dispatchers' = dispatchers \cup {search.found}
    /\ search' = Onward(dispatchers')
    /\ UNCHANGED <<requests, event, ears, notices, missed>>

NothingFound ==
    /\ search.at = "answered"
    /\ search.found = NoTree
    /\ search' = Waiting
    /\ UNCHANGED <<requests, dispatchers, event, ears, notices, missed>>

\* The finally clause of _dispatch_request: a slot and a root are free again.
EndDispatch(t) ==
    /\ t \in dispatchers
    /\ dispatchers' = dispatchers \ {t}
    /\ event' = TRUE
    /\ UNCHANGED <<requests, search, ears, notices, missed>>

DispatchNext ==
    \/ \E t \in Tree : Store(t) \/ Announce(t) \/ Settle(t) \/ Hear(t) \/ EndDispatch(t)
    \/ Subscribe
    \/ Subscribed
    \/ Deaf
    \/ WakeDispatch
    \/ SelectRequest
    \/ SelectFails
    \/ TakeRequest
    \/ NothingFound

DispatchSpec == DispatchInit /\ [][DispatchNext]_dispatchVars

----------------------------------------------------------------------------
(* Properties *)

\* The variables have their types, and only an answer has found a root.
DispatchTypeOK ==
    /\ requests \in [Tree -> Nat]
    /\ dispatchers \subseteq Tree
    /\ event \in BOOLEAN
    /\ search \in SearchState
    /\ search.at # "answered" => search.found = NoTree
    /\ ears \in {"down", "registered", "listening"}
    /\ notices \subseteq Tree
    /\ missed \in BOOLEAN

\* The root could be given a dispatcher now.
Servable(t) ==
    requests[t] > 0 /\ t \notin dispatchers /\ Cardinality(dispatchers) < Slots

\* _process_requests will come to ask for the root, or its statement, still to
\* run, does not leave it out.
LookedFor(t) ==
    \/ search.at = "asking" /\ t \notin search.excluded
    \/ search.at = "answered" /\ search.found # NoTree

\* A request that could be taken up does not wait for the periodic check alone,
\* unless a query failed or nobody listens: it is announced, looked for, or the
\* event is set.  A slot or a root that was busy when the query ran sets the
\* event when it is free.
RequestsAreNoticed ==
    \A t \in Tree : Servable(t) =>
        event \/ t \in notices \/ LookedFor(t) \/ missed \/ ears # "listening"

\* No task in _dispatchers is replaced by another one of its root, and there
\* are never more than Slots, although tasks end while a query runs.
DispatchersAreApart ==
    /\ search.at # "asleep" => /\ Cardinality(dispatchers) < Slots
                               /\ dispatchers \subseteq search.excluded
    /\ search.found # NoTree => search.found \notin search.excluded
    /\ Cardinality(dispatchers) <= Slots

\* What the dispatcher promises while the listener comes and goes, queries fail,
\* the slots are all taken and roots are busy.
DispatchKeepsUp == DispatchTypeOK /\ RequestsAreNoticed /\ DispatchersAreApart
=============================================================================

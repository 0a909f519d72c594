--------------------------- MODULE MCCoordinator ----------------------------
(* What a PostgresCoordinator does: the ownership of one root (Lease), how   *)
(* it learns of changes (Hints), and how it finds requests (Dispatch).       *)
EXTENDS Lease, Hints, Dispatch, TLC

CONSTANTS i1, i2, i3, r1, o1, o2, a1, t1, t2, t3

VARIABLE part

\* Nothing compares or orders runtimes.
Symmetry == Permutations(Instance)

MCvars == <<part, vars, hintVars, dispatchVars>>

-----------------------------------------------------------------------------
(* The part that moves, and the variables of the others, which stay as they are. *)

InL == part = "lease" /\ UNCHANGED
    <<part, service, observers, interests, dirty, delayed, wake, loop,
      snapshots, listener, channel, changes, faults, requests, dispatchers,
      event, search, ears, notices, missed>>

InH == part = "hints" /\ UNCHANGED
    <<part, enrolled, deleted, owner, generation, valid, active, status, open,
      txn, renewing, tokens, up, log, requests, dispatchers, event, search,
      ears, notices, missed>>

InD == part = "dispatch" /\ UNCHANGED
    <<part, enrolled, deleted, owner, generation, valid, active, status, open,
      txn, renewing, tokens, up, log, service, observers, interests, dirty,
      delayed, wake, loop, snapshots, listener, channel, changes, faults>>

InitL ==
    /\ part = "lease" /\ Init
    /\ HintInit /\ DispatchInit

InitH ==
    /\ part = "hints" /\ HintInit
    /\ Init /\ DispatchInit

InitD ==
    /\ part = "dispatch" /\ DispatchInit
    /\ Init /\ HintInit

MCInit == InitL \/ InitH \/ InitD

MCNext ==
    \/ InL /\ PutRequest
    \/ InL /\ Expire
    \/ InL /\ Lapse
    \/ InL /\ \E i \in Instance : Acquire(i)
    \/ InL /\ \E i \in Instance : AcquireAgain(i)
    \/ InL /\ \E i \in Instance : RenewUpdates(i)
    \/ InL /\ \E i \in Instance : RenewFails(i)
    \/ InL /\ \E i \in Instance : BeginUnfenced(i)
    \/ InL /\ \E i \in Instance : Commit(i)
    \/ InL /\ \E i \in Instance : Abort(i)
    \/ InL /\ \E i \in Instance : Crash(i)
    \/ InL /\ \E i \in Instance, a, o \in BOOLEAN, s \in Status : Write(i, a, s, o)
    \/ InL /\ \E i \in Instance, how \in {"relinquish", "delete"} : End(i, how)
    \/ InL /\ \E i \in Instance, g \in 1..MaxGeneration : RenewSelects(i, g)
    \/ InL /\ \E i \in Instance, g \in 1..MaxGeneration : Release(i, g)
    \/ InL /\ \E i \in Instance, g \in 1..MaxGeneration : RelinquishFailedPrestart(i, g)
    \/ InL /\ \E i \in Instance, g \in 1..MaxGeneration : Begin(i, g)
    \/ InH /\ Start
    \/ InH /\ CloseHints
    \/ InH /\ \E o \in Observer, r \in Root, full \in BOOLEAN : \E after \in 0..changes[r] : Observe(o, r, full, after)
    \/ InH /\ \E o \in Observer : Leave(o)
    \/ InH /\ \E o \in Observer : Look(o)
    \/ InH /\ \E o \in Observer : LookFails(o)
    \/ InH /\ \E o \in Observer : ReadChanges(o)
    \/ InH /\ \E r \in Root, s \in Scope : SetInterests(r, s)
    \/ InH /\ \E r \in Root, kind \in Kind : PublishChange(r, kind)
    \/ InH /\ Register
    \/ InH /\ Listening
    \/ InH /\ Disconnected
    \/ InH /\ \E n \in channel : Notice(n)
    \/ InH /\ \E periodic \in BOOLEAN, due \in SUBSET delayed : Wake(periodic, due)
    \/ InH /\ Query
    \/ InH /\ CatchUp
    \/ InH /\ CatchUpFails
    \/ InD /\ \E t \in Tree : Store(t)
    \/ InD /\ \E t \in Tree : Announce(t)
    \/ InD /\ \E t \in Tree : Settle(t)
    \/ InD /\ \E t \in Tree : Hear(t)
    \/ InD /\ \E t \in Tree : EndDispatch(t)
    \/ InD /\ Subscribe
    \/ InD /\ Subscribed
    \/ InD /\ Deaf
    \/ InD /\ WakeDispatch
    \/ InD /\ SelectRequest
    \/ InD /\ SelectFails
    \/ InD /\ TakeRequest
    \/ InD /\ NothingFound

MCSpec == MCInit /\ [][MCNext]_MCvars

-----------------------------------------------------------------------------
(* Properties: what each part promises while it moves. *)

\* Neither an observer nor the dispatcher misses what the listener was told,
\* failed queries and busy roots apart as each of them says.
HintsArrive == NoHintIsLost /\ DispatchKeepsUp

=============================================================================

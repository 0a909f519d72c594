------------------------------ MODULE Sockets ------------------------------
(***************************************************************************)
(* The WebSockets of an ACP server (AcpWebSocket, WebSocketTransport):     *)
(* they are admitted, serve a connection, and end, because the client or   *)
(* the agent leaves, a send takes too long, the authentication expires or  *)
(* the server shuts down.  Everything runs on one event loop; a step runs  *)
(* to the next await that suspends.                                        *)
(***************************************************************************)
EXTENDS Naturals, Sequences

CONSTANTS
    Socket,      \* the connections that come
    MaxFrames    \* bound on the frames sent on one of them

ASSUME SocketsAssumption == MaxFrames \in Nat

VARIABLES
    socket,      \* what each connection is doing
    closing,     \* _closing
    shutdown,    \* how far aclose is
    awaited      \* the connections aclose waits for

vars == <<socket, closing, shutdown, awaited>>

\* "binding": bind is awaited; "accepting": the accept message is being sent;
\* "open": the connection runs; "leaving": receive has returned None and the
\* connection shuts its sessions down; "finishing", "closing": finish, before and
\* while it sends the close message.
At == {"off", "binding", "accepting", "open", "leaving", "finishing", "closing", "done"}

\* The keys of _live.
Registered == {"accepting", "open", "leaving", "finishing", "closing"}

\* code: the close code, 0 without one; broken: `disconnected'; sending: a send
\* holds the lock; expires: the authentication does; gone: the client has left;
\* late: finish has timed out; wire: the ASGI messages that were sent (a send to a
\* client that has left may fail, or not).
SocketState ==
    [at : At, code : Nat, broken : BOOLEAN, sending : BOOLEAN, expires : BOOLEAN,
     gone : BOOLEAN, late : BOOLEAN, wire : Seq({"accept", "frame", "close"})]

TypeOK ==
    /\ socket \in [Socket -> SocketState]
    /\ closing \in BOOLEAN
    /\ shutdown \in {"no", "waiting", "done"}
    /\ awaited \subseteq Socket

Init ==
    /\ socket = [k \in Socket |->
                   [at |-> "off", code |-> 0, broken |-> FALSE, sending |-> FALSE,
                    expires |-> FALSE, gone |-> FALSE, late |-> FALSE, wire |-> <<>>]]
    /\ closing = FALSE
    /\ shutdown = "no"
    /\ awaited = {}

server == <<closing, shutdown, awaited>>

\* close: the first reason counts.
Closed(r, code) == IF r.code = 0 THEN [r EXCEPT !.code = code] ELSE r

\* A message is sent.
Sent(r, message) == [r EXCEPT !.wire = Append(@, message)]

\* _closed is set.
Stopped(r) == r.code # 0 \/ r.broken

Becomes(k, r) == socket' = [socket EXCEPT ![k] = r]

----------------------------------------------------------------------------
(* Admission *)

\* _Denied: a close message without an accept.
Denied(r) == [Sent(r, "close") EXCEPT !.at = "done"]

\* websocket.connect: a server that shuts down, or the origin, denies it.
Connect(k) ==
    /\ socket[k].at = "off"
    /\ \/ Becomes(k, Denied(socket[k]))
       \/ ~closing /\ Becomes(k, [socket[k] EXCEPT !.at = "binding"])
    /\ UNCHANGED server

\* Mutant: the server is not looked at again once bind has returned.
BoundBlindly(k) ==
    /\ socket[k].at = "binding"
    /\ \/ Becomes(k, Denied(socket[k]))
       \/ \E expires \in BOOLEAN :
             Becomes(k, [socket[k] EXCEPT !.at = "accepting", !.expires = expires])
    /\ UNCHANGED server

\* bind returns: it raised, what it returned is no good, or the server has begun
\* to shut down meanwhile; otherwise the connection is registered.
Bound(k) ==
    /\ socket[k].at = "binding"
    /\ \/ Becomes(k, Denied(socket[k]))
       \/ \E expires \in BOOLEAN :
             /\ ~closing
             /\ Becomes(k, [socket[k] EXCEPT !.at = "accepting", !.expires = expires])
    /\ UNCHANGED server

\* The accept message is sent, or the client's absence shows: an OSError, or
\* something else.
Accepted(k) ==
    /\ socket[k].at = "accepting"
    /\ \/ Becomes(k, [Sent(socket[k], "accept") EXCEPT !.at = "open"])
       \/ socket[k].gone /\ Becomes(k, [socket[k] EXCEPT !.at = "finishing"])
       \/ socket[k].gone /\ Becomes(k, [Closed(socket[k], 1011) EXCEPT !.at = "finishing"])
    /\ UNCHANGED server

----------------------------------------------------------------------------
(* The connection *)

\* receive returns None: the transport is closed, the client has disconnected,
\* or its message is too big.
Receive(k) ==
    /\ socket[k].at = "open"
    /\ \/ /\ Stopped(socket[k])
          /\ Becomes(k, [socket[k] EXCEPT !.at = "leaving"])
       \/ /\ socket[k].gone
          /\ Becomes(k, [socket[k] EXCEPT !.at = "leaving", !.broken = TRUE])
       \/ /\ ~socket[k].gone
          /\ Becomes(k, [Closed(socket[k], 1009) EXCEPT !.at = "leaving"])
    /\ UNCHANGED server

Send(k) ==
    /\ socket[k].at \in {"open", "leaving"}
    /\ ~socket[k].sending
    /\ ~Stopped(socket[k])
    /\ Len(socket[k].wire) <= MaxFrames
    /\ Becomes(k, [socket[k] EXCEPT !.sending = TRUE])
    /\ UNCHANGED server

\* The frame is sent, or the client turns out to be gone.
SendDone(k) ==
    /\ socket[k].sending
    /\ \/ Becomes(k, [Sent(socket[k], "frame") EXCEPT !.sending = FALSE])
       \/ /\ socket[k].gone
          /\ Becomes(k, [socket[k] EXCEPT !.broken = TRUE, !.sending = FALSE])
    /\ UNCHANGED server

SendTimesOut(k) ==
    /\ socket[k].sending
    /\ Becomes(k, [Closed(socket[k], 1013) EXCEPT !.sending = FALSE])
    /\ UNCHANGED server

\* The agent closes its transport.
CloseByAgent(k) ==
    /\ socket[k].at \in {"open", "leaving"}
    /\ Becomes(k, Closed(socket[k], 1011))
    /\ UNCHANGED server

\* _expire, whose task lasts until the connection has ended.
Expire(k) ==
    /\ socket[k].at \in {"open", "leaving"}
    /\ socket[k].expires
    /\ Becomes(k, [Closed(socket[k], 1008) EXCEPT !.expires = FALSE])
    /\ UNCHANGED server

\* connect ends, with an exception or without, or the server cancels it; its
\* tasks, and the sends they are in, have been cancelled.
Leave(k) ==
    /\ socket[k].at \in {"open", "leaving"}
    /\ LET r == [socket[k] EXCEPT !.at = "finishing", !.sending = FALSE]
       IN  Becomes(k, r) \/ Becomes(k, Closed(r, 1011))
    /\ UNCHANGED server

----------------------------------------------------------------------------
(* The end *)

\* finish: the close message is sent unless the client is known to be gone.
Finish(k) ==
    /\ socket[k].at = "finishing"
    /\ Becomes(k, [socket[k] EXCEPT
                     !.at = IF socket[k].code # 0 /\ ~socket[k].broken THEN "closing" ELSE "done"])
    /\ UNCHANGED server

FinishDone(k) ==
    /\ socket[k].at = "closing"
    /\ \/ Becomes(k, [Sent(socket[k], "close") EXCEPT !.at = "done"])
       \/ socket[k].gone /\ Becomes(k, [socket[k] EXCEPT !.at = "done"])
    /\ UNCHANGED server

\* It takes too long.
FinishTimesOut(k) ==
    /\ socket[k].at = "closing"
    /\ Becomes(k, [socket[k] EXCEPT !.at = "done", !.late = TRUE])
    /\ UNCHANGED server

\* The client leaves.
Disconnect(k) ==
    /\ socket[k].at \notin {"off", "done"}
    /\ ~socket[k].gone
    /\ Becomes(k, [socket[k] EXCEPT !.gone = TRUE])
    /\ UNCHANGED server

Live == {k \in Socket : socket[k].at \in Registered}

\* aclose: no close suspends, so all are closed in one step.
Shutdown ==
    /\ shutdown = "no"
    /\ closing' = TRUE
    /\ shutdown' = "waiting"
    /\ awaited' = Live
    /\ socket' = [k \in Socket |-> IF k \in Live THEN Closed(socket[k], 1012) ELSE socket[k]]

ShutdownDone ==
    /\ shutdown = "waiting"
    /\ \A k \in awaited : socket[k].at = "done"
    /\ shutdown' = "done"
    /\ UNCHANGED <<socket, closing, awaited>>

Next ==
    \/ Shutdown
    \/ ShutdownDone
    \/ \E k \in Socket : Connect(k)
    \/ \E k \in Socket : Bound(k)
    \/ \E k \in Socket : Accepted(k)
    \/ \E k \in Socket : Receive(k)
    \/ \E k \in Socket : Send(k)
    \/ \E k \in Socket : SendDone(k)
    \/ \E k \in Socket : SendTimesOut(k)
    \/ \E k \in Socket : CloseByAgent(k)
    \/ \E k \in Socket : Expire(k)
    \/ \E k \in Socket : Leave(k)
    \/ \E k \in Socket : Finish(k)
    \/ \E k \in Socket : FinishDone(k)
    \/ \E k \in Socket : FinishTimesOut(k)
    \/ \E k \in Socket : Disconnect(k)

Spec == Init /\ [][Next]_vars

----------------------------------------------------------------------------
(* Properties *)

\* Once aclose has returned no connection is served, and from its beginning on
\* every one that is served has been told to stop, although one may have been
\* in bind, in accept or about to end when it began.
ShutdownIsComplete ==
    /\ closing => \A k \in Live : socket[k].code # 0
    /\ shutdown = "done" => Live = {}

\* What a client is sent is a legal WebSocket: an accept, frames, and one close,
\* after which there is nothing, although sends, the expiry, the shutdown and the
\* end of the connection run into each other.  A client that stays is told why
\* its connection was closed, unless that takes too long.
ClientsAreTold ==
    \A k \in Socket :
        LET r == socket[k]
        IN  /\ \A n \in 1 .. Len(r.wire) :
                  /\ r.wire[n] = "accept" => n = 1
                  /\ r.wire[n] = "frame" => r.wire[1] = "accept"
                  /\ r.wire[n] = "close" => n = Len(r.wire) /\ r.at = "done"
            /\ (r.at = "done" /\ r.code # 0 /\ ~r.gone /\ ~r.late) =>
                  r.wire # <<>> /\ r.wire[Len(r.wire)] = "close"

\* A server ends its connections properly, each one and all of them.
SocketsEndProperly == ShutdownIsComplete /\ ClientsAreTold

=============================================================================

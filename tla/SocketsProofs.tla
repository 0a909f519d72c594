--------------------------- MODULE SocketsProofs ---------------------------
(***************************************************************************)
(* The shutdown of the WebSockets is complete, and every client is sent a  *)
(* legal WebSocket, for any number of connections and frames.              *)
(***************************************************************************)
EXTENDS Sockets, TLAPS

\* aclose waits for every connection that is still registered.
ShutdownWaits ==
    /\ shutdown = "no" <=> ~closing
    /\ closing => Live \subseteq awaited

\* How far a connection has come, seen on the wire.
StageOf(r) ==
    /\ r.at \in {"off", "binding", "accepting"} => r.wire = <<>>
    /\ r.at \in {"open", "leaving"} => r.wire # <<>>
    /\ r.at # "done" =>
          \A n \in 1 .. Len(r.wire) : r.wire[n] # "close" /\ r.wire[1] = "accept"
                                      /\ (r.wire[n] = "accept" => n = 1)
    /\ r.at \in {"off", "binding"} => r.code = 0
    /\ r.at = "closing" => r.code # 0
    /\ r.sending => r.at \in {"open", "leaving"}
    /\ r.broken => r.gone

\* The promise to the client of one connection.
Told(r) ==
    /\ \A n \in 1 .. Len(r.wire) :
          /\ r.wire[n] = "accept" => n = 1
          /\ r.wire[n] = "frame" => r.wire[1] = "accept"
          /\ r.wire[n] = "close" => n = Len(r.wire) /\ r.at = "done"
    /\ (r.at = "done" /\ r.code # 0 /\ ~r.gone /\ ~r.late) =>
          r.wire # <<>> /\ r.wire[Len(r.wire)] = "close"

IInv ==
    /\ TypeOK
    /\ ShutdownWaits
    /\ ShutdownIsComplete
    /\ \A k \in Socket : StageOf(socket[k])
    /\ \A k \in Socket : Told(socket[k])

----------------------------------------------------------------------------

\* Closing sets the code, once, and nothing else.
LEMMA ClosedFacts ==
    ASSUME NEW r \in SocketState, NEW code \in Nat \ {0}
    PROVE  /\ Closed(r, code) \in SocketState
           /\ Closed(r, code).code # 0
           /\ Closed(r, code) = [r EXCEPT !.code = Closed(r, code).code]
  BY DEF Closed, SocketState

\* Sending appends one message, and changes nothing else.
LEMMA SentFacts ==
    ASSUME NEW r \in SocketState, NEW m \in {"accept", "frame", "close"}
    PROVE  /\ Sent(r, m) \in SocketState
           /\ Sent(r, m) = [r EXCEPT !.wire = Append(r.wire, m)]
           /\ Len(Sent(r, m).wire) = Len(r.wire) + 1
           /\ Sent(r, m).wire[Len(r.wire) + 1] = m
           /\ \A n \in 1 .. Len(r.wire) : Sent(r, m).wire[n] = r.wire[n]
<1> DEFINE w == r.wire
<1>1. w \in Seq({"accept", "frame", "close"})
  BY DEF SocketState
<1>2. /\ Append(w, m) \in Seq({"accept", "frame", "close"})
      /\ Len(Append(w, m)) = Len(w) + 1 /\ Append(w, m)[Len(w) + 1] = m
      /\ \A n \in 1 .. Len(w) : Append(w, m)[n] = w[n]
  BY <1>1
<1>3. Sent(r, m) = [r EXCEPT !.wire = Append(w, m)]
  BY DEF Sent
<1> QED
  BY <1>2, <1>3 DEF SocketState

\* A step of one connection to a good record keeps the invariant, if it registers
\* only an open server's connection and keeps a closed one's code.
LEMMA OneSocket ==
    ASSUME IInv, NEW k \in Socket, NEW r \in SocketState, Becomes(k, r),
           UNCHANGED server, StageOf(r), Told(r),
           r.at \in Registered /\ closing => socket[k].at \in Registered /\ r.code # 0
    PROVE  IInv'
<1> USE DEF server
<1>1. socket'[k] = r /\ \A j \in Socket \ {k} : socket'[j] = socket[j]
  BY DEF Becomes, IInv, TypeOK
<1>2. TypeOK'
  BY DEF IInv, TypeOK, Becomes
<1>3. closing => Live' \subseteq Live
  BY <1>1 DEF Live
<1>4. ShutdownWaits' /\ ShutdownIsComplete'
  <2>1. shutdown = "done" => closing
    BY DEF IInv, ShutdownWaits
  <2>2. closing => \A j \in Live' : socket'[j].code # 0
    BY <1>1, <1>3 DEF IInv, ShutdownIsComplete, Live
  <2> QED
    BY <1>3, <2>1, <2>2 DEF IInv, ShutdownWaits, ShutdownIsComplete
<1>5. \A j \in Socket : StageOf(socket'[j]) /\ Told(socket'[j])
  BY <1>1 DEF IInv
<1> QED
  BY <1>2, <1>4, <1>5 DEF IInv, StageOf, Told

\* A record that differs from a good one in its stage or its flags is good when
\* the new stage goes with the wire.
LEMMA SameWire ==
    ASSUME NEW r \in SocketState, NEW q \in SocketState, StageOf(r), Told(r),
           q.wire = r.wire, r.at # "done",
           q.at \in {"off", "binding", "accepting"} => r.at \in {"off", "binding", "accepting"},
           q.at \in {"open", "leaving"} => r.at \in {"open", "leaving"},
           q.at \in {"off", "binding"} => q.code = 0,
           q.at = "closing" => q.code # 0,
           q.sending => q.at \in {"open", "leaving"},
           q.broken => q.gone,
           q.at = "done" /\ q.code # 0 => q.gone \/ q.late
    PROVE  StageOf(q) /\ Told(q)
  BY DEF StageOf, Told

\* A message more on the wire: the accept comes first, a frame after it, and the
\* close last.
LEMMA OneMore ==
    ASSUME NEW r \in SocketState, NEW m \in {"accept", "frame", "close"},
           NEW q \in SocketState, StageOf(r), Told(r),
           r.at # "done", q.wire = Sent(r, m).wire,
           m = "accept" => r.wire = <<>>,
           m = "frame" => r.wire # <<>>,
           m = "close" <=> q.at = "done",
           q.at \notin {"off", "binding", "accepting"},
           q.at = "closing" => q.code # 0,
           q.sending => q.at \in {"open", "leaving"},
           q.broken => q.gone
    PROVE  StageOf(q) /\ Told(q)
<1> DEFINE w == r.wire
           v == q.wire
<1>1. /\ Len(v) = Len(w) + 1 /\ v[Len(w) + 1] = m
      /\ \A n \in 1 .. Len(w) : v[n] = w[n]
  BY SentFacts
<1>2. Len(w) \in Nat /\ (w = <<>> <=> Len(w) = 0) /\ (v = <<>> <=> Len(v) = 0)
  BY DEF SocketState
<1>3. \A n \in 1 .. Len(w) : w[n] # "close" /\ w[1] = "accept" /\ (w[n] = "accept" => n = 1)
  BY DEF StageOf
<1>4. \A n \in 1 .. Len(v) :
         /\ v[n] = "accept" => n = 1
         /\ m # "close" => v[1] = "accept"
         /\ v[n] = "frame" => v[1] = "accept"
         /\ v[n] = "close" => n = Len(v) /\ m = "close"
  <2> SUFFICES ASSUME NEW n \in 1 .. Len(v)
               PROVE  /\ v[n] = "accept" => n = 1
                      /\ m # "close" => v[1] = "accept"
                      /\ v[n] = "frame" => v[1] = "accept"
                      /\ v[n] = "close" => n = Len(v) /\ m = "close"
    OBVIOUS
  <2>1. CASE Len(w) = 0
    <3>1. n = 1 /\ v[1] = m /\ m # "frame"
      BY <1>1, <1>2, <2>1
    <3> QED
      BY <1>1, <2>1, <3>1
  <2>2. CASE Len(w) > 0
    <3>1. v[1] = "accept" /\ m # "accept" /\ 1 \in 1 .. Len(w)
      BY <1>1, <1>2, <1>3, <2>2
    <3>2. CASE n = Len(w) + 1
      BY <1>1, <1>2, <3>1, <3>2
    <3>3. CASE n # Len(w) + 1
      <4>1. n \in 1 .. Len(w)
        BY <1>1, <1>2, <3>3
      <4> QED
        BY <1>1, <1>3, <3>1, <4>1
    <3> QED
      BY <3>2, <3>3
  <2> QED
    BY <1>2, <2>1, <2>2
<1>5. v # <<>> /\ v[Len(v)] = m
  BY <1>1, <1>2
<1> HIDE DEF v, w
<1>6. Told(q)
  BY <1>4, <1>5 DEF Told, v
<1>7. StageOf(q)
  BY <1>4, <1>5 DEF StageOf, v
<1> QED
  BY <1>6, <1>7

\* Every step of a connection keeps the invariant.
LEMMA SocketSteps ==
    ASSUME IInv, NEW k \in Socket, UNCHANGED server,
           \/ Connect(k) \/ Bound(k) \/ Accepted(k) \/ Receive(k) \/ Send(k)
           \/ SendDone(k) \/ SendTimesOut(k) \/ CloseByAgent(k) \/ Expire(k) \/ Leave(k)
           \/ Finish(k) \/ FinishDone(k) \/ FinishTimesOut(k) \/ Disconnect(k)
    PROVE  IInv'
<1> DEFINE r == socket[k]
<1>1. /\ r \in SocketState /\ StageOf(r) /\ Told(r)
      /\ closing /\ r.at \in Registered => r.code # 0
  BY DEF IInv, TypeOK, ShutdownIsComplete, Live
<1>2. ASSUME NEW q \in SocketState, Becomes(k, q), q.wire = r.wire, r.at # "done",
             q.at \in {"binding", "accepting"} => r.at \in {"off", "binding", "accepting"},
             q.at # "off" \/ q.at = r.at,
             q.at \in {"open", "leaving"} => r.at \in {"open", "leaving"},
             q.at \in {"off", "binding"} => q.code = 0,
             q.at = "closing" => q.code # 0,
             q.sending => q.at \in {"open", "leaving"},
             q.broken => q.gone,
             q.at = "done" /\ q.code # 0 => q.gone \/ q.late,
             q.at \in Registered /\ closing => r.at \in Registered,
             q.code = 0 => r.code = 0
      PROVE  IInv'
  BY <1>1, <1>2, SameWire, OneSocket
<1>3. ASSUME NEW m \in {"accept", "frame", "close"}, NEW q \in SocketState,
             Becomes(k, q), q.wire = Sent(r, m).wire, r.at # "done",
             m = "accept" => r.at = "accepting",
             m = "frame" => r.at \in {"open", "leaving"},
             m = "close" <=> q.at = "done",
             q.at \in {"open", "leaving", "done"},
             q.sending => q.at \in {"open", "leaving"},
             q.broken => q.gone,
             q.at \in Registered => r.at \in Registered /\ q.code = r.code
      PROVE  IInv'
  <2>1. (m = "accept" => r.wire = <<>>) /\ (m = "frame" => r.wire # <<>>)
    BY <1>1, <1>3 DEF StageOf
  <2>2. StageOf(q) /\ Told(q)
    BY <1>1, <1>3, <2>1, OneMore
  <2> QED
    BY <1>1, <1>3, <2>2, OneSocket
<1>4. /\ r.sending => r.at \in {"open", "leaving"}
      /\ r.broken => r.gone
      /\ r.at \in {"off", "binding"} => r.code = 0
      /\ r.at = "closing" => r.code # 0
  BY <1>1 DEF StageOf
<1>5. ASSUME NEW code \in Nat \ {0}
      PROVE  /\ Closed(r, code) \in SocketState /\ Closed(r, code).code # 0
             /\ Closed(r, code) = [r EXCEPT !.code = Closed(r, code).code]
  BY <1>1, <1>5, ClosedFacts
<1>6. ASSUME NEW m \in {"accept", "frame", "close"}
      PROVE  /\ Sent(r, m) \in SocketState
             /\ Sent(r, m) = [r EXCEPT !.wire = Append(r.wire, m)]
  BY <1>1, <1>6, SentFacts
<1>7. CASE Becomes(k, Denied(r)) /\ r.at \in {"off", "binding"}
  <2>1. /\ Denied(r) \in SocketState /\ Denied(r).at = "done"
        /\ Denied(r).wire = Sent(r, "close").wire
        /\ Denied(r).sending = r.sending /\ Denied(r).broken = r.broken
        /\ Denied(r).gone = r.gone
    BY <1>1, <1>6 DEF Denied, SocketState, At
  <2> QED
    BY <1>3, <1>4, <1>7, <2>1 DEF Registered
<1>8. CASE Connect(k) \/ Bound(k)
  <2>1. CASE Connect(k) /\ ~Becomes(k, Denied(r))
    <3> DEFINE q == [r EXCEPT !.at = "binding"]
    <3>1. Becomes(k, q) /\ ~closing /\ r.at = "off"
      BY <2>1 DEF Connect
    <3>2. /\ q \in SocketState /\ q.wire = r.wire /\ q.at = "binding" /\ q.code = r.code
          /\ q.sending = r.sending /\ q.broken = r.broken /\ q.gone = r.gone
      BY <1>1 DEF SocketState, At
    <3> QED
      BY <1>2, <1>4, <3>1, <3>2
  <2>2. CASE Bound(k) /\ ~Becomes(k, Denied(r))
    <3>1. PICK expires \in BOOLEAN :
            ~closing /\ Becomes(k, [r EXCEPT !.at = "accepting", !.expires = expires])
      BY <2>2 DEF Bound
    <3> DEFINE q == [r EXCEPT !.at = "accepting", !.expires = expires]
    <3>2. /\ q \in SocketState /\ q.wire = r.wire /\ q.at = "accepting" /\ q.code = r.code
          /\ q.sending = r.sending /\ q.broken = r.broken /\ q.gone = r.gone
      BY <1>1 DEF SocketState, At
    <3>3. r.at = "binding"
      BY <2>2 DEF Bound
    <3> QED
      BY <1>2, <1>4, <3>1, <3>2, <3>3
  <2> QED
    BY <1>7, <1>8, <2>1, <2>2 DEF Connect, Bound
<1>9. CASE Accepted(k)
  <2>1. CASE Becomes(k, [Sent(r, "accept") EXCEPT !.at = "open"])
    <3> DEFINE q == [Sent(r, "accept") EXCEPT !.at = "open"]
    <3>1. Becomes(k, q) /\ r.at = "accepting"
      BY <1>9, <2>1 DEF Accepted
    <3>2. /\ q \in SocketState /\ q.wire = Sent(r, "accept").wire
          /\ q.at = "open" /\ q.code = r.code /\ q.sending = r.sending
          /\ q.broken = r.broken /\ q.gone = r.gone
      BY <1>1, <1>6 DEF SocketState, At
    <3> QED
      BY <1>3, <1>4, <3>1, <3>2 DEF Registered
  <2>2. CASE Becomes(k, [r EXCEPT !.at = "finishing"])
    <3> DEFINE q == [r EXCEPT !.at = "finishing"]
    <3>1. Becomes(k, q) /\ r.at = "accepting"
      BY <1>9, <2>2 DEF Accepted
    <3>2. /\ q \in SocketState /\ q.wire = r.wire
          /\ q.at = "finishing" /\ q.code = r.code /\ q.sending = r.sending
          /\ q.broken = r.broken /\ q.gone = r.gone
      BY <1>1 DEF SocketState, At
    <3> QED
      BY <1>2, <1>4, <3>1, <3>2 DEF Registered
  <2>3. CASE Becomes(k, [Closed(r, 1011) EXCEPT !.at = "finishing"])
    <3> DEFINE c == Closed(r, 1011)
    <3> DEFINE q == [c EXCEPT !.at = "finishing"]
    <3>1. Becomes(k, q) /\ r.at = "accepting"
      BY <1>9, <2>3 DEF Accepted
    <3>3. c \in SocketState /\ c.code # 0 /\ c = [r EXCEPT !.code = c.code]
      BY <1>5
    <3> HIDE DEF c
    <3>2. /\ q \in SocketState /\ q.wire = r.wire
          /\ q.at = "finishing" /\ q.code # 0 /\ q.sending = r.sending
          /\ q.broken = r.broken /\ q.gone = r.gone
      BY <1>1, <3>3 DEF SocketState, At
    <3> HIDE DEF q
    <3> QED
      BY <1>2, <1>4, <3>1, <3>2 DEF Registered
  <2> QED
    BY <1>9, <2>1, <2>2, <2>3 DEF Accepted
<1>10. CASE Receive(k)
  <2>1. CASE Becomes(k, [r EXCEPT !.at = "leaving"])
    <3> DEFINE q == [r EXCEPT !.at = "leaving"]
    <3>1. Becomes(k, q) /\ r.at = "open"
      BY <1>10, <2>1 DEF Receive
    <3>2. /\ q \in SocketState /\ q.wire = r.wire
          /\ q.at = "leaving" /\ q.code = r.code /\ q.sending = r.sending
          /\ q.broken = r.broken /\ q.gone = r.gone
      BY <1>1 DEF SocketState, At
    <3> QED
      BY <1>2, <1>4, <3>1, <3>2 DEF Registered
  <2>2. CASE r.gone /\ Becomes(k, [r EXCEPT !.at = "leaving", !.broken = TRUE])
    <3> DEFINE q == [r EXCEPT !.at = "leaving", !.broken = TRUE]
    <3>1. Becomes(k, q) /\ r.at = "open" /\ r.gone
      BY <1>10, <2>2 DEF Receive
    <3>2. /\ q \in SocketState /\ q.wire = r.wire
          /\ q.at = "leaving" /\ q.code = r.code /\ q.sending = r.sending
          /\ q.broken /\ q.gone = r.gone
      BY <1>1 DEF SocketState, At
    <3> QED
      BY <1>2, <1>4, <3>1, <3>2 DEF Registered
  <2>3. CASE Becomes(k, [Closed(r, 1009) EXCEPT !.at = "leaving"])
    <3> DEFINE c == Closed(r, 1009)
    <3> DEFINE q == [c EXCEPT !.at = "leaving"]
    <3>1. Becomes(k, q) /\ r.at = "open"
      BY <1>10, <2>3 DEF Receive
    <3>3. c \in SocketState /\ c.code # 0 /\ c = [r EXCEPT !.code = c.code]
      BY <1>5
    <3> HIDE DEF c
    <3>2. /\ q \in SocketState /\ q.wire = r.wire
          /\ q.at = "leaving" /\ q.code # 0 /\ q.sending = r.sending
          /\ q.broken = r.broken /\ q.gone = r.gone
      BY <1>1, <3>3 DEF SocketState, At
    <3> HIDE DEF q
    <3> QED
      BY <1>2, <1>4, <3>1, <3>2 DEF Registered
  <2> QED
    BY <1>10, <2>1, <2>2, <2>3 DEF Receive
<1>11. CASE Send(k)
  <2> DEFINE q == [r EXCEPT !.sending = TRUE]
  <2>1. Becomes(k, q) /\ r.at \in {"open", "leaving"}
    BY <1>11 DEF Send
  <2>2. /\ q \in SocketState /\ q.wire = r.wire
        /\ q.at = r.at /\ q.code = r.code /\ q.sending
        /\ q.broken = r.broken /\ q.gone = r.gone
    BY <1>1 DEF SocketState, At
  <2> QED
    BY <1>2, <1>4, <2>1, <2>2 DEF Registered
<1>12. CASE SendDone(k)
  <2>1. CASE r.gone /\ Becomes(k, [r EXCEPT !.broken = TRUE, !.sending = FALSE])
    <3> DEFINE q == [r EXCEPT !.broken = TRUE, !.sending = FALSE]
    <3>1. Becomes(k, q) /\ r.sending /\ r.gone
      BY <1>12, <2>1 DEF SendDone
    <3>2. /\ q \in SocketState /\ q.wire = r.wire
          /\ q.at = r.at /\ q.code = r.code /\ ~q.sending
          /\ q.broken /\ q.gone = r.gone
      BY <1>1 DEF SocketState, At
    <3> QED
      BY <1>2, <1>4, <3>1, <3>2 DEF Registered
  <2>2. CASE Becomes(k, [Sent(r, "frame") EXCEPT !.sending = FALSE])
    <3> DEFINE q == [Sent(r, "frame") EXCEPT !.sending = FALSE]
    <3>1. Becomes(k, q) /\ r.sending
      BY <1>12, <2>2 DEF SendDone
    <3>2. /\ q \in SocketState /\ q.wire = Sent(r, "frame").wire
          /\ q.at = r.at /\ q.code = r.code /\ ~q.sending
          /\ q.broken = r.broken /\ q.gone = r.gone
      BY <1>1, <1>6 DEF SocketState, At
    <3> QED
      BY <1>3, <1>4, <3>1, <3>2 DEF Registered
  <2> QED
    BY <1>12, <2>1, <2>2 DEF SendDone
<1>13. CASE SendTimesOut(k)
  <2> DEFINE c == Closed(r, 1013)
  <2> DEFINE q == [c EXCEPT !.sending = FALSE]
  <2>1. Becomes(k, q) /\ r.sending
    BY <1>13 DEF SendTimesOut
  <2>3. c \in SocketState /\ c.code # 0 /\ c = [r EXCEPT !.code = c.code]
    BY <1>5
  <2> HIDE DEF c
  <2>2. /\ q \in SocketState /\ q.wire = r.wire
        /\ q.at = r.at /\ q.code # 0 /\ ~q.sending
        /\ q.broken = r.broken /\ q.gone = r.gone
    BY <1>1, <2>3 DEF SocketState, At
  <2> HIDE DEF q
  <2> QED
    BY <1>2, <1>4, <2>1, <2>2 DEF Registered
<1>14. CASE CloseByAgent(k)
  <2> DEFINE c == Closed(r, 1011)
  <2> DEFINE q == c
  <2>1. Becomes(k, q) /\ r.at \in {"open", "leaving"}
    BY <1>14 DEF CloseByAgent
  <2>3. c \in SocketState /\ c.code # 0 /\ c = [r EXCEPT !.code = c.code]
    BY <1>5
  <2> HIDE DEF c
  <2>2. /\ q \in SocketState /\ q.wire = r.wire
        /\ q.at = r.at /\ q.code # 0 /\ q.sending = r.sending
        /\ q.broken = r.broken /\ q.gone = r.gone
    BY <1>1, <2>3 DEF SocketState, At
  <2> HIDE DEF q
  <2> QED
    BY <1>2, <1>4, <2>1, <2>2 DEF Registered
<1>15. CASE Expire(k)
  <2> DEFINE c == Closed(r, 1008)
  <2> DEFINE q == [c EXCEPT !.expires = FALSE]
  <2>1. Becomes(k, q) /\ r.at \in {"open", "leaving"}
    BY <1>15 DEF Expire
  <2>3. c \in SocketState /\ c.code # 0 /\ c = [r EXCEPT !.code = c.code]
    BY <1>5
  <2> HIDE DEF c
  <2>2. /\ q \in SocketState /\ q.wire = r.wire
        /\ q.at = r.at /\ q.code # 0 /\ q.sending = r.sending
        /\ q.broken = r.broken /\ q.gone = r.gone
    BY <1>1, <2>3 DEF SocketState, At
  <2> HIDE DEF q
  <2> QED
    BY <1>2, <1>4, <2>1, <2>2 DEF Registered
<1>16. CASE Leave(k)
  <2> DEFINE p == [r EXCEPT !.at = "finishing", !.sending = FALSE]
  <2>1. /\ p \in SocketState /\ p.wire = r.wire /\ p.at = "finishing" /\ ~p.sending
        /\ p.code = r.code /\ p.broken = r.broken /\ p.gone = r.gone
    BY <1>1 DEF SocketState, At
  <2>2. r.at \in {"open", "leaving"} /\ (Becomes(k, p) \/ Becomes(k, Closed(p, 1011)))
    BY <1>16 DEF Leave
  <2>3. CASE Becomes(k, p)
    BY <1>2, <1>4, <2>1, <2>2, <2>3 DEF Registered
  <2>4. CASE Becomes(k, Closed(p, 1011))
    <3> HIDE DEF p
    <3> DEFINE q == Closed(p, 1011)
    <3>1. q \in SocketState /\ q.code # 0 /\ q = [p EXCEPT !.code = q.code]
      BY <2>1, ClosedFacts
    <3> HIDE DEF q
    <3>2. /\ q.wire = r.wire /\ q.at = "finishing" /\ ~q.sending
          /\ q.broken = r.broken /\ q.gone = r.gone
      BY <2>1, <3>1 DEF SocketState
    <3>3. Becomes(k, q)
      BY <2>4 DEF q
    <3> QED
      BY <1>2, <1>4, <2>2, <3>1, <3>2, <3>3 DEF Registered
  <2> QED
    BY <2>2, <2>3, <2>4
<1>17. CASE Finish(k)
  <2>1. CASE r.code # 0 /\ ~r.broken
    <3> DEFINE q == [r EXCEPT !.at = "closing"]
    <3>1. Becomes(k, q) /\ r.at = "finishing" /\ r.code # 0
      BY <1>17, <2>1 DEF Finish
    <3>2. /\ q \in SocketState /\ q.wire = r.wire
          /\ q.at = "closing" /\ q.code = r.code /\ q.sending = r.sending
          /\ q.broken = r.broken /\ q.gone = r.gone
      BY <1>1 DEF SocketState, At
    <3> QED
      BY <1>2, <1>4, <3>1, <3>2 DEF Registered
  <2>2. CASE ~(r.code # 0 /\ ~r.broken)
    <3> DEFINE q == [r EXCEPT !.at = "done"]
    <3>1. Becomes(k, q) /\ r.at = "finishing" /\ (r.code = 0 \/ r.broken)
      BY <1>17, <2>2 DEF Finish
    <3>2. /\ q \in SocketState /\ q.wire = r.wire
          /\ q.at = "done" /\ q.code = r.code /\ q.sending = r.sending
          /\ q.broken = r.broken /\ q.gone = r.gone
      BY <1>1 DEF SocketState, At
    <3> QED
      BY <1>2, <1>4, <3>1, <3>2 DEF Registered
  <2> QED
    BY <1>17, <2>1, <2>2 DEF Finish
<1>18. CASE FinishDone(k)
  <2>1. CASE r.gone /\ Becomes(k, [r EXCEPT !.at = "done"])
    <3> DEFINE q == [r EXCEPT !.at = "done"]
    <3>1. Becomes(k, q) /\ r.at = "closing" /\ r.gone
      BY <1>18, <2>1 DEF FinishDone
    <3>2. /\ q \in SocketState /\ q.wire = r.wire
          /\ q.at = "done" /\ q.code = r.code /\ q.sending = r.sending
          /\ q.broken = r.broken /\ q.gone = r.gone
      BY <1>1 DEF SocketState, At
    <3> QED
      BY <1>2, <1>4, <3>1, <3>2 DEF Registered
  <2>2. CASE Becomes(k, [Sent(r, "close") EXCEPT !.at = "done"])
    <3> DEFINE q == [Sent(r, "close") EXCEPT !.at = "done"]
    <3>1. Becomes(k, q) /\ r.at = "closing"
      BY <1>18, <2>2 DEF FinishDone
    <3>2. /\ q \in SocketState /\ q.wire = Sent(r, "close").wire
          /\ q.at = "done" /\ q.code = r.code /\ q.sending = r.sending
          /\ q.broken = r.broken /\ q.gone = r.gone
      BY <1>1, <1>6 DEF SocketState, At
    <3> QED
      BY <1>3, <1>4, <3>1, <3>2 DEF Registered
  <2> QED
    BY <1>18, <2>1, <2>2 DEF FinishDone
<1>19. CASE FinishTimesOut(k)
  <2> DEFINE q == [r EXCEPT !.at = "done", !.late = TRUE]
  <2>1. Becomes(k, q) /\ r.at = "closing"
    BY <1>19 DEF FinishTimesOut
  <2>2. /\ q \in SocketState /\ q.wire = r.wire
        /\ q.at = "done" /\ q.code = r.code /\ q.sending = r.sending
        /\ q.broken = r.broken /\ q.gone = r.gone /\ q.late
    BY <1>1 DEF SocketState, At
  <2> QED
    BY <1>2, <1>4, <2>1, <2>2 DEF Registered
<1>20. CASE Disconnect(k)
  <2> DEFINE q == [r EXCEPT !.gone = TRUE]
  <2>1. Becomes(k, q) /\ r.at \notin {"off", "done"}
    BY <1>20 DEF Disconnect
  <2>2. /\ q \in SocketState /\ q.wire = r.wire
        /\ q.at = r.at /\ q.code = r.code /\ q.sending = r.sending
        /\ q.broken = r.broken /\ q.gone
    BY <1>1 DEF SocketState, At
  <2> QED
    BY <1>2, <1>4, <2>1, <2>2 DEF Registered
<1> QED
  BY <1>8, <1>9, <1>10, <1>11, <1>12, <1>13, <1>14, <1>15, <1>16, <1>17, <1>18, <1>19, <1>20

\* The shutdown closes every registered connection and waits for all of them.
LEMMA ShutdownSteps ==
    ASSUME IInv, Shutdown \/ ShutdownDone
    PROVE  IInv'
<1>1. CASE Shutdown
  <2>1. ASSUME NEW k \in Socket
        PROVE  /\ socket'[k] \in SocketState /\ StageOf(socket'[k]) /\ Told(socket'[k])
               /\ socket'[k].at = socket[k].at
               /\ socket[k].at \in Registered => socket'[k].code # 0
    <3> DEFINE r == socket[k]
               q == Closed(r, 1012)
    <3>1. r \in SocketState /\ StageOf(r) /\ Told(r)
      BY <2>1 DEF IInv, TypeOK
    <3>2. CASE k \in Live
      <4>1. socket'[k] = q /\ r.at \in Registered
        BY <1>1, <2>1, <3>2 DEF Shutdown, Live
      <4>2. q \in SocketState /\ q.code # 0 /\ q = [r EXCEPT !.code = q.code]
        BY <3>1, ClosedFacts
      <4> HIDE DEF q
      <4>3. /\ q.wire = r.wire /\ q.at = r.at /\ q.sending = r.sending
            /\ q.broken = r.broken /\ q.gone = r.gone
        BY <3>1, <4>2 DEF SocketState
      <4>4. /\ r.sending => r.at \in {"open", "leaving"}
            /\ r.broken => r.gone
        BY <3>1 DEF StageOf
      <4>5. StageOf(q) /\ Told(q)
        BY <3>1, <4>1, <4>2, <4>3, <4>4, SameWire DEF Registered
      <4> QED
        BY <4>1, <4>2, <4>3, <4>5
    <3>3. CASE k \notin Live
      BY <1>1, <2>1, <3>1, <3>3 DEF Shutdown, Live
    <3> QED
      BY <3>2, <3>3
  <2>2. TypeOK'
    BY <1>1, <2>1 DEF IInv, TypeOK, Shutdown, Live
  <2>3. Live' = Live
    BY <2>1 DEF Live
  <2>4. ShutdownWaits' /\ ShutdownIsComplete'
    BY <1>1, <2>1, <2>3 DEF Shutdown, ShutdownWaits, ShutdownIsComplete, Live
  <2> QED
    BY <2>1, <2>2, <2>4 DEF IInv, StageOf, Told
<1>2. CASE ShutdownDone
  <2>1. closing /\ Live = {}
    BY <1>2 DEF IInv, ShutdownDone, ShutdownWaits, Live, Registered
  <2> QED
    BY <1>2, <2>1 DEF IInv, TypeOK, ShutdownDone, ShutdownWaits, ShutdownIsComplete,
                      Live, StageOf, Told
<1> QED
  BY <1>1, <1>2

----------------------------------------------------------------------------

LEMMA InitIInv == Init => IInv
<1> SUFFICES ASSUME Init PROVE IInv
  OBVIOUS
<1>1. TypeOK
  <2>1. <<>> \in Seq({"accept", "frame", "close"})
    OBVIOUS
  <2>2. [at |-> "off", code |-> 0, broken |-> FALSE, sending |-> FALSE,
         expires |-> FALSE, gone |-> FALSE, late |-> FALSE, wire |-> <<>>] \in SocketState
    BY <2>1 DEF SocketState, At
  <2> QED
    BY <2>2 DEF Init, TypeOK
<1>2. Live = {}
  BY DEF Init, Live, Registered
<1>3. ASSUME NEW k \in Socket
      PROVE  StageOf(socket[k]) /\ Told(socket[k])
  <2>1. /\ socket[k].at = "off" /\ socket[k].wire = <<>> /\ socket[k].code = 0
        /\ ~socket[k].sending /\ ~socket[k].broken
    BY <1>3 DEF Init
  <2>2. Len(socket[k].wire) = 0
    BY <2>1
  <2> QED
    BY <2>1, <2>2 DEF StageOf, Told
<1> QED
  BY <1>1, <1>2, <1>3 DEF Init, IInv, ShutdownWaits, ShutdownIsComplete

LEMMA NextIInv == IInv /\ [Next]_vars => IInv'
<1> SUFFICES ASSUME IInv, [Next]_vars PROVE IInv'
  OBVIOUS
<1>1. CASE UNCHANGED vars
  BY <1>1 DEF IInv, TypeOK, ShutdownWaits, ShutdownIsComplete, Live, StageOf, Told, vars
<1>2. CASE Shutdown \/ ShutdownDone
  BY <1>2, ShutdownSteps
<1>3. ASSUME NEW k \in Socket,
             \/ Connect(k) \/ Bound(k) \/ Accepted(k) \/ Receive(k) \/ Send(k)
             \/ SendDone(k) \/ SendTimesOut(k) \/ CloseByAgent(k) \/ Expire(k) \/ Leave(k)
             \/ Finish(k) \/ FinishDone(k) \/ FinishTimesOut(k) \/ Disconnect(k)
      PROVE  IInv'
  <2>1. UNCHANGED server
    BY <1>3 DEF Connect, Bound, Accepted, Receive, Send, SendDone, SendTimesOut,
                CloseByAgent, Expire, Leave, Finish, FinishDone, FinishTimesOut, Disconnect
  <2> QED
    BY <1>3, <2>1, SocketSteps
<1> QED
  BY <1>1, <1>2, <1>3 DEF Next

\* The inductive invariant holds in every behaviour of the WebSockets.
THEOREM SocketsInvariant == Spec => []IInv
  BY InitIInv, NextIInv, PTL DEF Spec

\* Every WebSocket keeps its type, whatever its sends, its expiry, its client and
\* the shutdown do.
THEOREM TypeCorrect == Spec => []TypeOK
<1>1. IInv => TypeOK
  BY DEF IInv
<1> QED
  BY <1>1, SocketsInvariant, PTL

\* AcpWebSocket.aclose leaves no connection behind and stops every one it finds,
\* however many are being bound, accepted or finished while it runs.
THEOREM ShutdownLeavesNothing == Spec => []ShutdownIsComplete
<1>1. IInv => ShutdownIsComplete
  BY DEF IInv
<1> QED
  BY <1>1, SocketsInvariant, PTL

\* WebSocketTransport sends each client a legal sequence of messages, with the
\* close that says why it ends.
THEOREM EveryClientIsTold == Spec => []ClientsAreTold
<1>1. IInv => ClientsAreTold
  BY DEF IInv, ClientsAreTold, Told
<1> QED
  BY <1>1, SocketsInvariant, PTL

\* aclose and finish together: no connection is left behind, and none ends without
\* a word.
THEOREM SocketsAreEnded == Spec => []SocketsEndProperly
  BY ShutdownLeavesNothing, EveryClientIsTold, PTL DEF SocketsEndProperly

=============================================================================

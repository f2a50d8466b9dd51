---------------------------- MODULE StreamProofs ----------------------------
(***************************************************************************)
(* Proofs about streams of bytes: what a script writes to a socket of      *)
(* net_module.c reaches the kernel in order, with FIN behind the last byte *)
(* and 'close' emitted once; and the bytes one child writes are the bytes  *)
(* the other reads, through the pipes of child_process_module.c.           *)
(***************************************************************************)
EXTENDS Streams, QueueFacts, TLAPS

-----------------------------------------------------------------------------
(* Sockets *)

Socket == [fd : {"unused", "open", "closed"}, link : {"connecting", "up", "reset", "aborted"},
           onConnect : BOOLEAN, events : SUBSET {"IN", "OUT"}, listed : BOOLEAN, ref : BOOLEAN,
           bound : 0..6, buf : Seq(1..SocketBytes), endPending : BOOLEAN,
           sent : Seq(1..SocketBytes), room : 0..Room, inbox : 0..1, peerFin : BOOLEAN,
           fin : BOOLEAN, written : 0..SocketBytes, lost : BOOLEAN, stalled : BOOLEAN,
           destroyed : BOOLEAN, closes : 0..1]
Stops == {"idle", "read", "connect", "data", "end", "close", "accept"}
Call == [s : Net!Connections \cup {"none"}, at : Stops, in : BOOLEAN]

\* The buffered bytes follow the sent ones, unless a flush failed, which only
\* happens when the connection was reset or the descriptor closed, and drops the
\* buffer.
Stream(k) ==
    /\ Behind(SocketBytes, k.sent, 0) /\ Len(k.sent) <= k.written
    /\ ~k.lost => Behind(SocketBytes, k.buf, Len(k.sent)) /\ Len(k.sent) + Len(k.buf) = k.written
    /\ k.lost => (k.link = "reset" \/ k.fd = "closed") /\ k.buf = <<>>
    /\ k.fin => k.buf = <<>> /\ k.link # "connecting"

Watched(k) == k.listed /\ k.fd = "open" /\ k.buf # <<>> => "OUT" \in k.events \/ k.stalled

\* 'close' has been emitted on a closed descriptor, and the handle leaves the
\* loop when that callback returns.
Closed(k, s, c) ==
    k.closes = 1 => k.fd = "closed" /\ (~k.listed \/ (c.at = "close" /\ c.s = s))

\* A callback that may still emit 'close' has not done so.
Calling(c, k) ==
    /\ c.at \in {"read", "connect", "data", "end"} =>
          k.closes = 0 /\ (k.listed \/ k.destroyed)
    /\ c.at = "end" => k.fd = "closed"

\* A socket whose revents are not delivered yet may be called back: it has not
\* emitted 'close', and left the list only by destroy().
Ready(k, revents) == revents # {} => k.closes = 0 /\ (k.listed \/ k.destroyed)

\* The revents of the socket whose callback runs have been delivered.
Delivering(c, rd) == c.at \in {"read", "connect", "data", "end", "close"} => rd[c.s] = {}

NetTypes ==
    /\ sk \in [Net!Connections -> Socket]
    /\ ready \in [Net!Connections -> SUBSET {"IN", "OUT", "ERR"}]
    /\ handles \in 0..MaxHandles
    /\ cb \in Call /\ (cb.at # "idle" => cb.s \in Net!Connections)
    /\ process \in {"running", "exited", "killed"}

NetInv ==
    /\ NetTypes
    /\ \A s \in Net!Connections : Stream(sk[s]) /\ Watched(sk[s]) /\ Closed(sk[s], s, cb)
    /\ \A s \in Net!Connections : Ready(sk[s], ready[s])
    /\ cb.at # "idle" => Calling(cb, sk[cb.s])
    /\ Delivering(cb, ready)

\* The bounds of the sockets.
LEMMA SocketBounds == MaxHandles \in Nat /\ SocketBytes \in Nat /\ Room \in Nat
BY StreamsAssumption DEF Net!NetAssumption

\* A socket that was never opened.
LEMMA UnusedSocket ==
    /\ Net!Unused \in Socket /\ Stream(Net!Unused)
    /\ Net!Unused.buf = <<>> /\ Net!Unused.closes = 0
<1>1. <<>> \in Seq(1..SocketBytes) /\ Len(<<>>) = 0
    OBVIOUS
<1>2. Net!Unused \in Socket
    BY <1>1, SocketBounds DEF Net!Unused, Socket
<1>3. PICK u : u = Net!Unused
    OBVIOUS
<1>4. /\ u.sent = <<>> /\ u.buf = <<>> /\ u.written = 0 /\ u.lost = FALSE /\ u.fin = FALSE
      /\ u.closes = 0
    BY <1>3 DEF Net!Unused
<1>5. Behind(SocketBytes, <<>>, 0)
    BY <1>1 DEF Behind
<1>6. Stream(u)
    BY <1>1, <1>4, <1>5 DEF Stream
<1> QED
    BY <1>2, <1>3, <1>4, <1>6

\* No socket has been opened and no callback runs.
LEMMA NetInit == Net!Init => NetInv
<1> SUFFICES ASSUME Net!Init PROVE NetInv
    OBVIOUS
<1>1. /\ sk = [s \in Net!Connections |-> Net!Unused]
      /\ ready = [s \in Net!Connections |-> {}]
      /\ handles = 0 /\ cb = [s |-> "none", at |-> "idle", in |-> FALSE] /\ process = "running"
    BY DEF Net!Init, Net!Idle
<1>2. cb \in Call /\ cb.at = "idle"
    BY <1>1 DEF Call, Stops
<1>3. NetTypes
    BY <1>1, <1>2, SocketBounds, UnusedSocket DEF NetTypes
<1>4. ASSUME NEW s \in Net!Connections
      PROVE  Stream(sk[s]) /\ Watched(sk[s]) /\ Closed(sk[s], s, cb)
  <2>1. sk[s] = Net!Unused
    BY <1>1
  <2> QED
    BY <2>1, UnusedSocket DEF Watched, Closed
<1> QED
    BY <1>1, <1>2, <1>3, <1>4 DEF NetInv, Ready, Delivering

\* A step that replaces one socket's record, and may go on in its callback.
LEMMA SocketStep ==
    ASSUME NetInv, NEW s \in Net!Connections, NEW k \in Socket, sk' = [sk EXCEPT ![s] = k],
           Stream(k), Watched(k), Closed(k, s, cb'),
           ready' \in [Net!Connections -> SUBSET {"IN", "OUT", "ERR"}],
           handles' \in 0..MaxHandles, process' \in {"running", "exited", "killed"},
           cb' \in Call, cb'.at # "idle" => cb'.s \in Net!Connections,
           \A t \in Net!Connections \ {s} : Closed(sk[t], t, cb'),
           cb'.at # "idle" => Calling(cb', sk'[cb'.s]),
           Ready(k, ready'[s]), Delivering(cb', ready'),
           \A t \in Net!Connections \ {s} : ready'[t] = ready[t] \/ ready'[t] = {}
    PROVE  NetInv'
<1>1. sk \in [Net!Connections -> Socket]
    BY DEF NetInv, NetTypes
<1>2. sk' \in [Net!Connections -> Socket] /\ sk'[s] = k
      /\ \A t \in Net!Connections : t # s => sk'[t] = sk[t]
    BY <1>1
<1>3. NetTypes'
    BY <1>2 DEF NetTypes
<1>4. ASSUME NEW t \in Net!Connections
      PROVE  Stream(sk'[t]) /\ Watched(sk'[t]) /\ Closed(sk'[t], t, cb')
  <2>1. CASE t = s
    BY <1>2, <2>1
  <2>2. CASE t # s
    BY <1>2, <2>2 DEF NetInv
  <2> QED
    BY <2>1, <2>2
<1>5. ASSUME NEW t \in Net!Connections PROVE Ready(sk'[t], ready'[t])
  <2>1. CASE t = s
    BY <1>2, <2>1
  <2>2. CASE t # s
    <3>1. Ready(sk[t], ready[t]) /\ sk'[t] = sk[t]
        BY <1>2, <2>2 DEF NetInv
    <3> QED
        BY <2>2, <3>1 DEF Ready
  <2> QED
    BY <2>1, <2>2
<1> QED
    BY <1>3, <1>4, <1>5 DEF NetInv

\* A step that only changes one socket, whatever callback is running.
LEMMA ChangeStep ==
    ASSUME NetInv, NEW s \in Net!Connections, NEW k \in Socket, Net!Change(s, k),
           Stream(k), Watched(k), k.closes = sk[s].closes,
           sk[s].fd = "closed" => k.fd = "closed",
           k.listed => sk[s].listed,
           sk[s].listed \/ sk[s].destroyed => k.listed \/ k.destroyed
    PROVE  NetInv'
<1>1. /\ sk' = [sk EXCEPT ![s] = k] /\ UNCHANGED <<server, handles, ready, cb, process>>
    BY DEF Net!Change
<1>2. /\ sk \in [Net!Connections -> Socket]
      /\ ready \in [Net!Connections -> SUBSET {"IN", "OUT", "ERR"}]
      /\ handles \in 0..MaxHandles /\ process \in {"running", "exited", "killed"}
      /\ cb \in Call /\ (cb.at # "idle" => cb.s \in Net!Connections)
    BY DEF NetInv, NetTypes
<1>3. \A t \in Net!Connections : Closed(sk[t], t, cb)
    BY DEF NetInv
<1>4. Closed(k, s, cb)
    BY <1>3 DEF Closed
<1>5. ASSUME cb.at # "idle" PROVE Calling(cb, sk'[cb.s])
  <2>1. Calling(cb, sk[cb.s]) /\ cb.s \in Net!Connections
    BY <1>2, <1>5 DEF NetInv
  <2>2. CASE cb.s = s
    <3>1. sk'[cb.s] = k
        BY <1>1, <1>2, <2>2
    <3> QED
        BY <2>1, <2>2, <3>1 DEF Calling
  <2>3. CASE cb.s # s
    <3>1. sk'[cb.s] = sk[cb.s]
        BY <1>1, <1>2, <2>1, <2>3
    <3> QED
        BY <2>1, <3>1
  <2> QED
    BY <2>2, <2>3
<1>6. Ready(k, ready[s]) /\ Delivering(cb, ready)
  <2>1. Ready(sk[s], ready[s]) /\ Delivering(cb, ready)
    BY DEF NetInv
  <2> QED
    BY <2>1 DEF Ready
<1> QED
    BY <1>1, <1>2, <1>3, <1>4, <1>5, <1>6, SocketStep

\* The kernel and the peer change only what poll() and write() will report.
LEMMA KernelSteps ==
    ASSUME NetInv, NEW s \in Net!Connections,
           Net!Establish(s) \/ Net!PeerReads(s) \/ Net!PeerActs(s)
    PROVE  NetInv'
<1>1. sk[s] \in Socket /\ Stream(sk[s]) /\ Watched(sk[s])
    BY DEF NetInv, NetTypes
<1>2. PICK k : k = sk[s]
    OBVIOUS
<1>3. k \in Socket /\ Stream(k) /\ Watched(k)
    BY <1>1, <1>2
<1>4. ASSUME NEW l \in {"up", "reset"}, k.link \in {"connecting", "up"}, k.link = "up" => l = "reset",
             Net!Change(s, [k EXCEPT !.link = l])
      PROVE  NetInv'
  <2>1. PICK m : m = [k EXCEPT !.link = l]
    OBVIOUS
  <2>2. m \in Socket
    BY <1>3, <2>1 DEF Socket
  <2>3. /\ m.link = l /\ m.sent = k.sent /\ m.buf = k.buf /\ m.written = k.written /\ m.lost = k.lost
        /\ m.fin = k.fin /\ m.listed = k.listed /\ m.fd = k.fd /\ m.events = k.events
        /\ m.stalled = k.stalled /\ m.closes = k.closes /\ m.destroyed = k.destroyed
    BY <1>3, <2>1 DEF Socket
  <2>4. Stream(m)
    BY <1>3, <1>4, <2>3 DEF Stream
  <2>5. Watched(m)
    BY <1>3, <2>3 DEF Watched
  <2> QED
    BY <1>2, <1>4, <2>1, <2>2, <2>3, <2>4, <2>5, ChangeStep
<1>5. ASSUME NEW m \in Socket, Net!Change(s, m),
             \/ m = [k EXCEPT !.room = Room]
             \/ m = [k EXCEPT !.inbox = 1]
             \/ m = [k EXCEPT !.peerFin = TRUE]
      PROVE  NetInv'
  <2>3. /\ m.link = k.link /\ m.sent = k.sent /\ m.buf = k.buf /\ m.written = k.written
        /\ m.lost = k.lost /\ m.fin = k.fin /\ m.listed = k.listed /\ m.fd = k.fd
        /\ m.events = k.events /\ m.stalled = k.stalled /\ m.closes = k.closes
        /\ m.destroyed = k.destroyed
    BY <1>3, <1>5 DEF Socket
  <2>4. Stream(m)
    BY <1>3, <2>3 DEF Stream
  <2>5. Watched(m)
    BY <1>3, <2>3 DEF Watched
  <2> QED
    BY <1>2, <1>5, <2>3, <2>4, <2>5, ChangeStep
<1>6. CASE Net!Establish(s)
    BY <1>2, <1>4, <1>6 DEF Net!Establish
<1>7. /\ [k EXCEPT !.room = Room] \in Socket
      /\ [k EXCEPT !.inbox = 1] \in Socket
      /\ [k EXCEPT !.peerFin = TRUE] \in Socket
  <2>1. Room \in 0..Room /\ 1 \in 0..1
    BY SocketBounds
  <2>2. [k EXCEPT !.room = Room] \in Socket
    BY <1>3, <2>1 DEF Socket
  <2>3. [k EXCEPT !.inbox = 1] \in Socket
    BY <1>3, <2>1 DEF Socket
  <2>4. [k EXCEPT !.peerFin = TRUE] \in Socket
    BY <1>3 DEF Socket
  <2> QED
    BY <2>2, <2>3, <2>4
<1>8. CASE Net!PeerReads(s)
    BY <1>2, <1>5, <1>7, <1>8 DEF Net!PeerReads
<1>9. CASE Net!PeerActs(s)
  <2>1. k.link = "up"
    BY <1>2, <1>9 DEF Net!PeerActs
  <2>2. CASE Net!Change(s, [k EXCEPT !.inbox = 1])
    BY <1>5, <1>7, <2>2
  <2>3. CASE Net!Change(s, [k EXCEPT !.peerFin = TRUE])
    BY <1>5, <1>7, <2>3
  <2>4. CASE Net!Change(s, [k EXCEPT !.link = "reset"])
    BY <1>4, <2>1, <2>4
  <2> QED
    BY <1>2, <1>9, <2>2, <2>3, <2>4 DEF Net!PeerActs
<1> QED
    BY <1>6, <1>8, <1>9

\* The handle table never holds more than its size.
LEMMA Registered ==
    ASSUME NetInv, NEW n \in 0..6
    PROVE  Net!Bound(n) \in 0..6 /\ handles + Net!Bound(n) \in 0..MaxHandles
<1>1. handles \in 0..MaxHandles /\ MaxHandles \in Nat
    BY SocketBounds DEF NetInv, NetTypes
<1>2. CASE handles + n <= MaxHandles
    BY <1>1, <1>2 DEF Net!Bound
<1>3. CASE ~(handles + n <= MaxHandles)
    BY <1>1, <1>3 DEF Net!Bound
<1> QED
    BY <1>2, <1>3

\* net.connect(): a socket like a new one, in the loop.
LEMMA ConnectStep ==
    ASSUME NetInv, NEW s \in Net!Connections, NEW b \in BOOLEAN, Net!Connect(s, b)
    PROVE  NetInv'
<1>1. PICK n : n = Net!Bound(4)
    OBVIOUS
<1>2. n \in 0..6 /\ handles + n \in 0..MaxHandles
    BY <1>1, Registered
<1>3. PICK u : u = Net!Unused
    OBVIOUS
<1>4. u \in Socket /\ Stream(u) /\ u.buf = <<>> /\ u.closes = 0 /\ u.lost = FALSE
    BY <1>3, UnusedSocket DEF Net!Unused
<1>5. PICK m : m = [u EXCEPT !.fd = "open", !.onConnect = b, !.events = {"IN", "OUT"},
                             !.listed = TRUE, !.bound = n]
    OBVIOUS
<1>6. m \in Socket
  <2>1. PICK v : v = [u EXCEPT !.fd = "open", !.listed = TRUE, !.bound = n]
    OBVIOUS
  <2>2. v \in Socket
    BY <1>2, <1>4, <2>1, ZenonT(30) DEF Socket
  <2>3. m = [v EXCEPT !.onConnect = b, !.events = {"IN", "OUT"}]
    BY <1>4, <1>5, <2>1 DEF Socket
  <2> QED
    BY <2>2, <2>3 DEF Socket
<1>7. /\ m.link = u.link /\ m.sent = u.sent /\ m.buf = u.buf /\ m.written = u.written
      /\ m.lost = u.lost /\ m.fin = u.fin /\ m.listed = TRUE /\ m.fd = "open"
      /\ m.closes = u.closes
    BY <1>4, <1>5 DEF Socket
<1>8. Stream(m)
    BY <1>4, <1>7 DEF Stream
<1>9. Watched(m)
    BY <1>4, <1>7 DEF Watched
<1>10. /\ sk' = [sk EXCEPT ![s] = m] /\ handles' = handles + n
       /\ UNCHANGED <<server, ready, cb, process>> /\ sk[s].fd = "unused"
    BY <1>1, <1>3, <1>5 DEF Net!Connect, Net!Register
<1>11. /\ sk \in [Net!Connections -> Socket]
       /\ ready \in [Net!Connections -> SUBSET {"IN", "OUT", "ERR"}]
       /\ process \in {"running", "exited", "killed"}
       /\ cb \in Call /\ (cb.at # "idle" => cb.s \in Net!Connections)
    BY DEF NetInv, NetTypes
<1>12. \A t \in Net!Connections : Closed(sk[t], t, cb)
    BY DEF NetInv
<1>13. Closed(m, s, cb)
    BY <1>4, <1>7 DEF Closed
<1>14. ASSUME cb.at # "idle" PROVE Calling(cb, sk'[cb.s])
  <2>1. Calling(cb, sk[cb.s]) /\ cb.s \in Net!Connections
    BY <1>11, <1>14 DEF NetInv
  <2>2. CASE cb.s = s
    <3>1. sk'[cb.s] = m
        BY <1>10, <1>11, <2>2
    <3>2. cb.at # "end"
        BY <1>10, <2>1, <2>2 DEF Calling
    <3> QED
        BY <1>4, <1>7, <3>1, <3>2 DEF Calling
  <2>3. CASE cb.s # s
    <3>1. sk'[cb.s] = sk[cb.s]
        BY <1>10, <1>11, <2>1, <2>3
    <3> QED
        BY <2>1, <3>1
  <2> QED
    BY <2>2, <2>3
<1>15. Ready(m, ready[s]) /\ Delivering(cb, ready)
    BY <1>4, <1>7 DEF NetInv, Ready
<1> QED
    BY <1>2, <1>6, <1>8, <1>9, <1>10, <1>11, <1>12, <1>13, <1>14, <1>15, SocketStep

\* server_accept_cb: a socket like a new one, with its connection made.
LEMMA AcceptStep ==
    ASSUME NetInv, NEW s \in Net!Connections, Net!Accept(s)
    PROVE  NetInv'
<1>1. PICK n : n = Net!Bound(6)
    OBVIOUS
<1>2. n \in 0..6 /\ handles + n \in 0..MaxHandles
    BY <1>1, Registered
<1>3. PICK u : u = Net!Unused
    OBVIOUS
<1>4. u \in Socket /\ Stream(u) /\ u.buf = <<>> /\ u.closes = 0
    BY <1>3, UnusedSocket
<1>5. PICK m : m = [u EXCEPT !.fd = "open", !.link = "up", !.events = {"IN"},
                             !.listed = TRUE, !.bound = n]
    OBVIOUS
<1>6. m \in Socket
  <2>1. PICK v : v = [u EXCEPT !.fd = "open", !.listed = TRUE, !.bound = n]
    OBVIOUS
  <2>2. v \in Socket
    BY <1>2, <1>4, <2>1, ZenonT(30) DEF Socket
  <2>3. m = [v EXCEPT !.link = "up", !.events = {"IN"}]
    BY <1>4, <1>5, <2>1 DEF Socket
  <2> QED
    BY <2>2, <2>3 DEF Socket
<1>7. /\ m.link = "up" /\ m.sent = u.sent /\ m.buf = u.buf /\ m.written = u.written
      /\ m.lost = u.lost /\ m.fin = u.fin /\ m.listed = TRUE /\ m.fd = "open"
      /\ m.closes = u.closes
    BY <1>4, <1>5 DEF Socket
<1>8. u.lost = FALSE
    BY <1>3 DEF Net!Unused
<1>9. Stream(m)
    BY <1>4, <1>7, <1>8 DEF Stream
<1>10. Watched(m)
    BY <1>4, <1>7 DEF Watched
<1>11. /\ sk' = [sk EXCEPT ![s] = m] /\ handles' = handles + n
       /\ UNCHANGED <<server, ready, process>>
       /\ cb' = [s |-> s, at |-> "accept", in |-> FALSE] /\ cb = [s |-> "none", at |-> "idle", in |-> FALSE]
    BY <1>1, <1>3, <1>5 DEF Net!Accept, Net!Register, Net!Idle
<1>12. cb' \in Call /\ cb'.at = "accept" /\ cb'.s = s /\ cb.at = "idle"
    BY <1>11 DEF Call, Stops
<1>13. /\ ready \in [Net!Connections -> SUBSET {"IN", "OUT", "ERR"}]
       /\ process \in {"running", "exited", "killed"}
    BY DEF NetInv, NetTypes
<1>14. Closed(m, s, cb')
    BY <1>4, <1>7 DEF Closed
<1>15. ASSUME NEW t \in Net!Connections PROVE Closed(sk[t], t, cb')
  <2>1. Closed(sk[t], t, cb)
    BY DEF NetInv
  <2> QED
    BY <1>12, <2>1 DEF Closed
<1>16. Calling(cb', sk'[cb'.s])
    BY <1>12 DEF Calling
<1>17. Ready(m, ready[s]) /\ Delivering(cb', ready)
    BY <1>4, <1>7, <1>12 DEF Ready, Delivering
<1> QED
    BY <1>2, <1>6, <1>9, <1>10, <1>11, <1>12, <1>13, <1>14, <1>15, <1>16, <1>17,
       SocketStep

\* The methods that write nothing: on('connect'), end(), destroy(), ref() and
\* unref().
LEMMA MethodSteps ==
    ASSUME NetInv, NEW s \in Net!Connections,
           \/ Net!OnConnect(s) \/ Net!End(s) \/ Net!Destroy(s)
           \/ \E b \in BOOLEAN : Net!SetRef(s, b)
    PROVE  NetInv'
<1>1. sk[s] \in Socket /\ Stream(sk[s]) /\ Watched(sk[s]) /\ sk \in [Net!Connections -> Socket]
    BY DEF NetInv, NetTypes
<1>2. PICK k : k = sk[s]
    OBVIOUS
<1>3. k \in Socket /\ Stream(k) /\ Watched(k)
    BY <1>1, <1>2
<1>4. ASSUME NEW m, Net!Change(s, m), k.fd = "open",
             \/ m = [k EXCEPT !.onConnect = TRUE]
             \/ m = [k EXCEPT !.endPending = TRUE]
             \/ \E b \in BOOLEAN : m = [k EXCEPT !.ref = b]
      PROVE  NetInv'
  <2>1. m \in Socket
    <3>1. CASE m = [k EXCEPT !.onConnect = TRUE]
        BY <1>3, <3>1 DEF Socket
    <3>2. CASE m = [k EXCEPT !.endPending = TRUE]
        BY <1>3, <3>2 DEF Socket
    <3>3. ASSUME NEW b \in BOOLEAN, m = [k EXCEPT !.ref = b] PROVE m \in Socket
        BY <1>3, <3>3 DEF Socket
    <3> QED
        BY <1>4, <3>1, <3>2, <3>3
  <2>3. /\ m.link = k.link /\ m.sent = k.sent /\ m.buf = k.buf /\ m.written = k.written
        /\ m.lost = k.lost /\ m.fin = k.fin /\ m.listed = k.listed /\ m.fd = k.fd
        /\ m.events = k.events /\ m.stalled = k.stalled /\ m.closes = k.closes
        /\ m.destroyed = k.destroyed
    BY <1>3, <1>4 DEF Socket
  <2>4. Stream(m)
    BY <1>3, <2>3 DEF Stream
  <2>5. Watched(m)
    BY <1>3, <2>3 DEF Watched
  <2> QED
    BY <1>2, <1>4, <2>1, <2>3, <2>4, <2>5, ChangeStep
<1>5. ASSUME NEW m, Net!Change(s, m), m = Net!Shutdown(k), k.buf = <<>> PROVE NetInv'
  <2>1. m \in Socket
    BY <1>3, <1>5 DEF Socket, Net!Shutdown
  <2>3. /\ m.sent = k.sent /\ m.buf = k.buf /\ m.written = k.written
        /\ m.lost = k.lost /\ m.listed = k.listed /\ m.fd = k.fd
        /\ m.events = k.events /\ m.stalled = k.stalled /\ m.closes = k.closes
        /\ m.destroyed = k.destroyed
    BY <1>3, <1>5 DEF Socket, Net!Shutdown
  <2>4. /\ k.link = "connecting" => m.link = "aborted" /\ m.fin = k.fin
        /\ k.link # "connecting" => m.link = k.link
    BY <1>3, <1>5 DEF Socket, Net!Shutdown
  <2>5. Stream(m)
    BY <1>3, <1>5, <2>3, <2>4 DEF Stream
  <2>6. Watched(m)
    BY <1>3, <2>3 DEF Watched
  <2> QED
    BY <1>2, <1>5, <2>1, <2>3, <2>5, <2>6, ChangeStep
<1>6. CASE Net!OnConnect(s)
    BY <1>2, <1>4, <1>6 DEF Net!OnConnect, Net!Method
<1>7. CASE Net!End(s)
  <2>1. CASE k.buf # <<>>
    BY <1>2, <1>4, <1>7, <2>1 DEF Net!End, Net!Method
  <2>2. CASE k.buf = <<>>
    BY <1>2, <1>5, <1>7, <2>2 DEF Net!End, Net!Method
  <2> QED
    BY <2>1, <2>2
<1>8. CASE Net!Destroy(s)
  <2>1. PICK m : m = [k EXCEPT !.listed = FALSE, !.fd = "closed", !.destroyed = TRUE]
    OBVIOUS
  <2>2. m \in Socket
    BY <1>3, <2>1 DEF Socket
  <2>3. /\ m.link = k.link /\ m.sent = k.sent /\ m.buf = k.buf /\ m.written = k.written
        /\ m.lost = k.lost /\ m.fin = k.fin /\ m.listed = FALSE /\ m.fd = "closed"
        /\ m.closes = k.closes /\ m.destroyed = TRUE
    BY <1>3, <2>1 DEF Socket
  <2>4. Stream(m)
    BY <1>3, <2>3 DEF Stream
  <2>5. Watched(m)
    BY <2>3 DEF Watched
  <2>6. Net!Change(s, m)
    BY <1>2, <1>8, <2>1 DEF Net!Destroy, Net!Method
  <2> QED
    BY <1>2, <2>2, <2>3, <2>4, <2>5, <2>6, ChangeStep
<1>9. ASSUME NEW b \in BOOLEAN, Net!SetRef(s, b) PROVE NetInv'
    BY <1>2, <1>4, <1>9 DEF Net!SetRef, Net!Method
<1> QED
    BY <1>6, <1>7, <1>8, <1>9

\* What write() can return for a socket: a number of bytes that fit, 0 while the
\* connection is made, or an error when it cannot be made or was reset, or the
\* descriptor is closed.
LEMMA Results ==
    ASSUME NEW k \in Socket, NEW len \in Nat, NEW n \in Net!WriteResults(k, len)
    PROVE  /\ n \in {-1, -2} \cup 0..len
           /\ n >= 0 => n <= k.room /\ k.link \in {"connecting", "up"}
           /\ n >= 0 /\ k.link = "connecting" => n = 0
           /\ n >= 0 /\ k.link # "connecting" => ~k.fin
           /\ n = -1 => k.link = "reset" \/ k.fd = "closed"
           /\ n >= 0 => k.fd # "closed"
<1>1. k.link \in {"connecting", "up", "reset", "aborted"} /\ k.room \in 0..Room /\ k.room \in Nat
      /\ k.fin \in BOOLEAN
    BY SocketBounds DEF Socket
<1>7. CASE k.fd = "closed"
  <2>1. n = -1
    BY <1>7 DEF Net!WriteResults
  <2> QED
    BY <1>1, <1>7, <2>1
<1>2. CASE k.fd # "closed" /\ k.link = "connecting"
  <2>1. n = 0
    BY <1>2 DEF Net!WriteResults
  <2> QED
    BY <1>1, <1>2, <2>1
<1>3. CASE k.fd # "closed" /\ k.link = "reset"
  <2>1. n \in {-1, -2}
    BY <1>3 DEF Net!WriteResults
  <2> QED
    BY <1>1, <1>3, <2>1
<1>4. CASE k.fd # "closed" /\ k.link = "aborted"
  <2>1. n = -2
    BY <1>4 DEF Net!WriteResults
  <2> QED
    BY <1>1, <1>4, <2>1
<1>5. CASE k.fd # "closed" /\ k.link = "up" /\ k.fin
  <2>1. n = -2
    BY <1>5 DEF Net!WriteResults
  <2> QED
    BY <1>1, <1>5, <2>1
<1>6. CASE k.fd # "closed" /\ k.link = "up" /\ ~k.fin
  <2>1. n = IF len <= k.room THEN len ELSE k.room
    BY <1>6 DEF Net!WriteResults
  <2> QED
    BY <1>1, <1>6, <2>1
<1> QED
    BY <1>1, <1>2, <1>3, <1>4, <1>5, <1>6, <1>7

\* The bytes of a write() follow those written before.
LEMMA FreshBytes ==
    ASSUME NEW w \in Nat, NEW len \in Nat, w + len <= SocketBytes
    PROVE  /\ Behind(SocketBytes, [i \in 1..len |-> w + i], w)
           /\ Len([i \in 1..len |-> w + i]) = len
<1>1. PICK b : b = [i \in 1..len |-> w + i]
    OBVIOUS
<1>2. \A i \in 1..len : w + i \in 1..SocketBytes
    BY SocketBounds
<1>3. b \in [1..len -> 1..SocketBytes]
    BY <1>1, <1>2
<1>4. b \in Seq(1..SocketBytes) /\ Len(b) = len
  <2>1. b \in Seq(1..SocketBytes)
    BY <1>3, SeqDef
  <2>2. Len(b) \in Nat /\ DOMAIN b = 1..Len(b) /\ DOMAIN b = 1..len
    BY <1>3, <2>1, LenProperties
  <2>3. \A x, y \in Nat : 1..x = 1..y => x = y
    <3>1. \A x, y \in Nat : x < y => y \in 1..y /\ y \notin 1..x
        OBVIOUS
    <3> QED
        BY <3>1
  <2> QED
    BY <2>1, <2>2, <2>3, Zenon
<1>5. \A i \in 1..len : b[i] = w + i
    BY <1>1
<1> QED
    BY <1>1, <1>4, <1>5 DEF Behind

\* Two runs of a socket's bytes that follow each other are one run.
LEMMA JoinBytes ==
    ASSUME NEW s, NEW t, NEW k \in Nat,
           Behind(SocketBytes, s, k), Behind(SocketBytes, t, k + Len(s))
    PROVE  Behind(SocketBytes, s \o t, k) /\ Len(s \o t) = Len(s) + Len(t)
<1>1. SocketBytes \in Nat
    BY SocketBounds
<1> QED
    BY <1>1, JoinRuns, Zenon

\* socket.write() behind buffered bytes: the buffer grows.
LEMMA BufferedWrite ==
    ASSUME NEW k \in Socket, Stream(k), k.buf # <<>>, NEW len \in Nat,
           k.written + len <= SocketBytes,
           NEW m, m = [k EXCEPT !.buf = @ \o [i \in 1..len |-> k.written + i],
                                !.written = @ + len, !.events = @ \cup {"OUT"}]
    PROVE  /\ m \in Socket /\ Stream(m) /\ Watched(m)
           /\ m.closes = k.closes /\ m.fd = k.fd /\ m.listed = k.listed
           /\ m.destroyed = k.destroyed
<1>1. /\ k.written \in Nat /\ k.sent \in Seq(1..SocketBytes) /\ k.buf \in Seq(1..SocketBytes)
      /\ k.lost \in BOOLEAN /\ k.fin \in BOOLEAN /\ SocketBytes \in Nat
    BY SocketBounds DEF Socket
<1>2. Len(k.sent) \in Nat /\ Len(k.buf) \in Nat
    BY <1>1
<1>3. /\ ~k.lost /\ ~k.fin /\ Behind(SocketBytes, k.sent, 0)
      /\ Behind(SocketBytes, k.buf, Len(k.sent)) /\ Len(k.sent) + Len(k.buf) = k.written
    BY <1>1 DEF Stream
<1>4. PICK b : b = [i \in 1..len |-> k.written + i]
    OBVIOUS
<1>5. Behind(SocketBytes, b, k.written) /\ Len(b) = len
    BY <1>1, <1>4, FreshBytes
<1>6. PICK q : q = k.buf \o b
    OBVIOUS
<1>7. Behind(SocketBytes, q, Len(k.sent)) /\ Len(q) = Len(k.buf) + len
  <2>1. Behind(SocketBytes, b, Len(k.sent) + Len(k.buf))
    BY <1>3, <1>5
  <2> QED
    BY <1>1, <1>2, <1>3, <1>5, <1>6, <2>1, JoinRuns
<1>8. q \in Seq(1..SocketBytes)
    BY <1>7 DEF Behind
<1>9. PICK w : w = k.written + len
    OBVIOUS
<1>10. w \in 0..SocketBytes
    BY <1>1, <1>9
<1>17. PICK e : e = k.events \cup {"OUT"}
    OBVIOUS
<1>18. e \in SUBSET {"IN", "OUT"} /\ "OUT" \in e
    BY <1>17 DEF Socket
<1>11. m = [k EXCEPT !.buf = q, !.written = w, !.events = e]
    BY <1>4, <1>6, <1>9, <1>17 DEF Socket
<1>12. m \in Socket
    BY <1>8, <1>10, <1>11, <1>18, ZenonT(30) DEF Socket
<1>13. /\ m.buf = q /\ m.written = w /\ m.events = e /\ m.sent = k.sent /\ m.lost = k.lost
       /\ m.fin = k.fin /\ m.closes = k.closes /\ m.fd = k.fd /\ m.listed = k.listed
       /\ m.destroyed = k.destroyed
    BY <1>11 DEF Socket
<1>14. Len(k.sent) + Len(q) = w /\ Len(k.sent) <= w
  <2>1. \A x, y \in Nat : x + (y + len) = (x + y) + len /\ x <= (x + y) + len
    OBVIOUS
  <2>2. /\ Len(k.sent) + (Len(k.buf) + len) = (Len(k.sent) + Len(k.buf)) + len
        /\ Len(k.sent) <= (Len(k.sent) + Len(k.buf)) + len
    BY <1>2, <2>1, Zenon
  <2> QED
    BY <1>3, <1>7, <1>9, <2>2, Zenon
<1>15. Stream(m)
    BY <1>3, <1>7, <1>13, <1>14 DEF Stream
<1>16. Watched(m)
    BY <1>13, <1>18 DEF Watched
<1> QED
    BY <1>12, <1>13, <1>15, <1>16

\* A socket when the kernel took the first n of the len bytes b of a write().
Took(k, b, len, n) ==
    [k EXCEPT !.sent = @ \o SubSeq(b, 1, n), !.room = @ - n,
              !.buf = SubSeq(b, n + 1, len), !.written = @ + len,
              !.events = IF n < len THEN @ \cup {"OUT"} ELSE @]

\* socket.write() with nothing buffered: the kernel takes n bytes and the others
\* are buffered.
LEMMA DirectWrite ==
    ASSUME NEW k \in Socket, Stream(k), Watched(k), k.buf = <<>>, NEW len \in Nat,
           k.written + len <= SocketBytes, NEW n \in Net!WriteResults(k, len), n >= 0,
           NEW b, b = [i \in 1..len |-> k.written + i],
           NEW m, m = Took(k, b, len, n)
    PROVE  /\ m \in Socket /\ Stream(m) /\ Watched(m)
           /\ m.closes = k.closes /\ m.fd = k.fd /\ m.listed = k.listed
           /\ m.destroyed = k.destroyed
<1>1. /\ k.written \in Nat /\ k.sent \in Seq(1..SocketBytes)
      /\ k.lost \in BOOLEAN /\ k.fin \in BOOLEAN /\ SocketBytes \in Nat
      /\ k.room \in 0..Room /\ Room \in Nat
    BY SocketBounds DEF Socket
<1>2. Len(k.sent) \in Nat /\ Len(k.buf) = 0
    BY <1>1
<1>3. /\ n \in 0..len /\ n <= k.room /\ k.link \in {"connecting", "up"}
      /\ (k.link # "connecting" => ~k.fin) /\ k.fd # "closed"
  <2>1. n \in {-1, -2} \cup 0..len
    BY Results
  <2>2. /\ n <= k.room /\ k.link \in {"connecting", "up"}
        /\ (k.link # "connecting" => ~k.fin) /\ k.fd # "closed"
    BY Results
  <2> QED
    BY <2>1, <2>2
<1>4. /\ ~k.lost /\ ~k.fin /\ Behind(SocketBytes, k.sent, 0) /\ Len(k.sent) = k.written
    BY <1>1, <1>2, <1>3 DEF Stream
<1>5. Behind(SocketBytes, b, k.written) /\ Len(b) = len
    BY <1>1, FreshBytes
<1>6. PICK t : t = SubSeq(b, 1, n)
    OBVIOUS
<1>7. PICK q : q = SubSeq(b, n + 1, len)
    OBVIOUS
<1>8. Behind(SocketBytes, t, k.written) /\ Len(t) = n
    BY <1>1, <1>3, <1>5, <1>6, SplitRun
<1>9. Behind(SocketBytes, q, k.written + n)
    BY <1>1, <1>3, <1>5, <1>7, SplitRun
<1>10. Len(q) = len - n
    BY <1>1, <1>3, <1>5, <1>7, SplitRun
<1>11. PICK u : u = k.sent \o t
    OBVIOUS
<1>12. Behind(SocketBytes, u, 0) /\ Len(u) = k.written + n
  <2>0. PICK z \in Nat : z = 0
    OBVIOUS
  <2>1. Behind(SocketBytes, k.sent, z) /\ Behind(SocketBytes, t, z + Len(k.sent))
    BY <1>1, <1>4, <1>8, <2>0
  <2>2. Behind(SocketBytes, u, z) /\ Len(u) = Len(k.sent) + Len(t)
    BY <1>11, <2>1, JoinBytes
  <2> QED
    BY <1>4, <1>8, <2>0, <2>2
<1>13. PICK w : w = k.written + len
    OBVIOUS
<1>14. PICK r : r = k.room - n
    OBVIOUS
<1>15. PICK e : e = IF n < len THEN k.events \cup {"OUT"} ELSE k.events
    OBVIOUS
<1>16. w \in 0..SocketBytes /\ r \in 0..Room
    BY <1>1, <1>3, <1>13, <1>14, SMTT(30)
<1>17. e \in SUBSET {"IN", "OUT"}
    BY <1>15 DEF Socket
<1>18. u \in Seq(1..SocketBytes) /\ q \in Seq(1..SocketBytes)
    BY <1>9, <1>12 DEF Behind
<1>19. m = [k EXCEPT !.sent = u, !.room = r, !.buf = q, !.written = w, !.events = e]
    BY <1>6, <1>7, <1>11, <1>13, <1>14, <1>15 DEF Socket, Took
<1>20. m \in Socket
  <2>1. PICK v : v = [k EXCEPT !.sent = u, !.room = r, !.buf = q]
    OBVIOUS
  <2>2. v \in Socket
    BY <1>16, <1>18, <2>1 DEF Socket
  <2>3. m = [v EXCEPT !.written = w, !.events = e]
    BY <1>19, <2>1 DEF Socket
  <2>4. w \in 0..SocketBytes /\ e \in SUBSET {"IN", "OUT"}
    BY <1>16, <1>17
  <2> QED
    BY <2>2, <2>3, <2>4, ZenonT(30) DEF Socket
<1>21. /\ m.buf = q /\ m.written = w /\ m.sent = u /\ m.events = e /\ m.lost = k.lost
       /\ m.fin = k.fin /\ m.closes = k.closes /\ m.fd = k.fd /\ m.listed = k.listed
       /\ m.destroyed = k.destroyed
    BY <1>19 DEF Socket
<1>22. Len(u) + Len(q) = w /\ Len(u) <= w
  <2>1. \A x \in Nat : n \in Nat /\ len \in Nat
                        /\ (x + n) + (len - n) = x + len /\ x + n <= x + len
    BY <1>3
  <2> QED
    BY <1>1, <1>10, <1>12, <1>13, <2>1, Zenon
<1>23. Stream(m)
    BY <1>4, <1>9, <1>12, <1>21, <1>22 DEF Stream
<1>24. Watched(m)
  <2>1. CASE n < len
    BY <1>15, <1>21, <2>1 DEF Watched
  <2>2. CASE ~(n < len)
    <3>1. Len(q) = 0
        BY <1>3, <1>10, <2>2
    <3>2. q = <<>>
        BY <1>18, <3>1, EmptySeq
    <3> QED
        BY <1>21, <3>2 DEF Watched
  <2> QED
    BY <2>1, <2>2
<1> QED
    BY <1>20, <1>21, <1>23, <1>24

\* socket.write().
LEMMA WriteStep ==
    ASSUME NetInv, NEW s \in Net!Connections, NEW len \in 1..SocketBytes, Net!Write(s, len)
    PROVE  NetInv'
<1>1. sk[s] \in Socket /\ Stream(sk[s]) /\ Watched(sk[s])
    BY DEF NetInv, NetTypes
<1>2. PICK k : k = sk[s]
    OBVIOUS
<1>3. k \in Socket /\ Stream(k) /\ Watched(k) /\ len \in Nat
    BY <1>1, <1>2, SocketBounds
<1>4. PICK b : b = [i \in 1..len |-> k.written + i]
    OBVIOUS
<1>5. k.written + len <= SocketBytes
    BY <1>2 DEF Net!Write
<1>6. ASSUME NEW m, Net!Change(s, m), m \in Socket, Stream(m), Watched(m), m.closes = k.closes,
             m.fd = k.fd, m.listed = k.listed, m.destroyed = k.destroyed
      PROVE  NetInv'
    BY <1>2, <1>6, ChangeStep
<1>7. CASE k.buf # <<>>
  <2>1. PICK m : m = [k EXCEPT !.buf = @ \o b, !.written = @ + len, !.events = @ \cup {"OUT"}]
    OBVIOUS
  <2>2. Net!Change(s, m)
    BY <1>2, <1>4, <1>7, <2>1 DEF Net!Write, Net!Method
  <2>3. /\ m \in Socket /\ Stream(m) /\ Watched(m)
        /\ m.closes = k.closes /\ m.fd = k.fd /\ m.listed = k.listed
        /\ m.destroyed = k.destroyed
    BY <1>3, <1>4, <1>5, <1>7, <2>1, BufferedWrite, ZenonT(30)
  <2> QED
    BY <1>6, <2>2, <2>3
<1>8. CASE k.buf = <<>>
  <2>1. PICK n \in Net!WriteResults(k, len) :
            \/ n = -2 /\ process' = "killed" /\ UNCHANGED <<sk, server, handles, ready, cb>>
            \/ n >= 0 /\ Net!Change(s, Took(k, b, len, n))
    <3>1. PICK n \in Net!WriteResults(k, len) :
            \/ n = -2 /\ process = "running" /\ process' = "killed"
               /\ UNCHANGED <<sk, server, handles, ready, cb>>
            \/ n >= 0 /\ Net!Method(s, 2, Took(k, b, len, n))
        BY <1>2, <1>4, <1>8, Zenon DEF Net!Write, Took
    <3> QED
        BY <3>1, Zenon DEF Net!Method
  <2>2. CASE process' = "killed" /\ UNCHANGED <<sk, server, handles, ready, cb>>
    BY <2>2 DEF NetInv, NetTypes
  <2>3. CASE n >= 0 /\ ~(process' = "killed" /\ UNCHANGED <<sk, server, handles, ready, cb>>)
    <3>1. PICK m : m = Took(k, b, len, n)
        OBVIOUS
    <3>2. Net!Change(s, m)
        BY <2>1, <2>3, <3>1
    <3>3. /\ m \in Socket /\ Stream(m) /\ Watched(m)
          /\ m.closes = k.closes /\ m.fd = k.fd /\ m.listed = k.listed
          /\ m.destroyed = k.destroyed
        <4>1. n \in Net!WriteResults(k, len) /\ n >= 0
            BY <2>1, <2>3
        <4> QED
            BY <1>3, <1>4, <1>5, <1>8, <4>1, <3>1, DirectWrite
    <3> QED
        BY <1>6, <3>2, <3>3
  <2> QED
    BY <2>1, <2>2, <2>3
<1> QED
    BY <1>7, <1>8

\* socket_flush_write: the kernel takes the first bytes of the buffer, or the
\* buffer is dropped; end() takes effect when nothing is left of it.
LEMMA FlushKeeps ==
    ASSUME NetInv, NEW s \in Net!Connections, NEW k, k = sk[s], k.buf # <<>>,
           NEW n \in Net!WriteResults(k, Len(k.buf)), n >= -1, NEW m, m = Net!Flush(s, n)
    PROVE  /\ m \in Socket /\ Stream(m) /\ Watched(m)
           /\ m.closes = k.closes /\ m.fd = k.fd /\ m.listed = k.listed
           /\ m.destroyed = k.destroyed
<1>1. k \in Socket /\ Stream(k)
    BY DEF NetInv, NetTypes
<1>2. /\ k.written \in Nat /\ k.sent \in Seq(1..SocketBytes) /\ k.buf \in Seq(1..SocketBytes)
      /\ k.lost \in BOOLEAN /\ k.fin \in BOOLEAN /\ k.endPending \in BOOLEAN
      /\ SocketBytes \in Nat /\ k.room \in 0..Room /\ Room \in Nat
      /\ k.link \in {"connecting", "up", "reset", "aborted"} /\ k.events \in SUBSET {"IN", "OUT"}
    BY <1>1, SocketBounds DEF Socket
<1>3. PICK l : l = Len(k.buf)
    OBVIOUS
<1>4. PICK h : h = Len(k.sent)
    OBVIOUS
<1>5. l \in Nat /\ h \in Nat /\ l # 0
    BY <1>2, <1>3, <1>4, EmptySeq
<1>6. /\ ~k.lost /\ ~k.fin /\ Behind(SocketBytes, k.sent, 0)
      /\ Behind(SocketBytes, k.buf, h) /\ h + l = k.written
    BY <1>1, <1>2, <1>3, <1>4 DEF Stream
<1>7. /\ n = -1 \/ n \in 0..l
      /\ n = -1 => k.link = "reset" \/ k.fd = "closed"
      /\ n >= 0 => n <= k.room
      /\ n >= 0 /\ k.link = "connecting" => n = 0
  <2>1. n \in {-1, -2} \cup 0..l
    BY <1>1, <1>3, <1>5, Results
  <2>2. /\ n = -1 => k.link = "reset" \/ k.fd = "closed"
        /\ n >= 0 => n <= k.room
        /\ n >= 0 /\ k.link = "connecting" => n = 0
    BY <1>1, <1>3, <1>5, Results
  <2> QED
    BY <2>1, <2>2
<1>8. PICK q : q = IF n = -1 THEN <<>> ELSE SubSeq(k.buf, n + 1, l)
    OBVIOUS
<1>9. PICK t : t = IF n = -1 THEN <<>> ELSE SubSeq(k.buf, 1, n)
    OBVIOUS
<1>10. PICK u : u = k.sent \o t
    OBVIOUS
<1>11. ASSUME n \in 0..l
       PROVE  /\ Behind(SocketBytes, t, h) /\ Len(t) = n /\ Behind(SocketBytes, q, h + n)
              /\ Len(q) = l - n /\ Behind(SocketBytes, u, 0) /\ Len(u) = h + n
  <2>1. n # -1
    BY <1>5, <1>11
  <2>2. Behind(SocketBytes, t, h) /\ Len(t) = n
    BY <1>2, <1>3, <1>5, <1>6, <1>9, <1>11, <2>1, SplitRun
  <2>3. Behind(SocketBytes, q, h + n)
    BY <1>2, <1>3, <1>5, <1>6, <1>8, <1>11, <2>1, SplitRun
  <2>4. Len(q) = l - n
    BY <1>2, <1>3, <1>5, <1>6, <1>8, <1>11, <2>1, SplitRun
  <2>5. PICK z \in Nat : z = 0
    OBVIOUS
  <2>6. Behind(SocketBytes, k.sent, z) /\ Behind(SocketBytes, t, z + Len(k.sent))
    BY <1>4, <1>5, <1>6, <2>2, <2>5
  <2>7. Behind(SocketBytes, u, z) /\ Len(u) = Len(k.sent) + Len(t)
    BY <1>10, <2>6, JoinBytes
  <2> QED
    BY <1>4, <2>2, <2>3, <2>4, <2>5, <2>7
<1>12. ASSUME n = -1 PROVE q = <<>> /\ t = <<>> /\ Len(t) = 0 /\ u = k.sent
    BY <1>2, <1>8, <1>9, <1>10, <1>12
<1>13. q \in Seq(1..SocketBytes) /\ u \in Seq(1..SocketBytes)
  <2>1. CASE n = -1
    BY <1>2, <1>12, <2>1
  <2>2. CASE n \in 0..l
    BY <1>11, <2>2 DEF Behind
  <2> QED
    BY <1>7, <2>1, <2>2
<1>14. PICK r : r = k.room - Len(t)
    OBVIOUS
<1>15. r \in 0..Room
  <2>1. CASE n = -1
    BY <1>2, <1>12, <1>14, <2>1
  <2>2. CASE n \in 0..l
    <3>1. Len(t) = n /\ n \in Nat /\ n <= k.room
        BY <1>5, <1>7, <1>11, <2>2
    <3>2. r = k.room - n
        BY <1>14, <3>1
    <3> QED
        BY <1>2, <3>1, <3>2
  <2> QED
    BY <1>7, <2>1, <2>2
<1>16. PICK e : e = IF q # <<>> THEN k.events \cup {"OUT"} ELSE k.events \ {"OUT"}
    OBVIOUS
<1>17. e \in SUBSET {"IN", "OUT"} /\ (q # <<>> => "OUT" \in e)
    BY <1>2, <1>16
<1>18. PICK d \in BOOLEAN : d = (k.lost \/ n = -1)
    OBVIOUS
<1>19. PICK p \in BOOLEAN : p = (k.endPending /\ (q # <<>> \/ k.fd = "closed"))
    OBVIOUS
<1>20. PICK f \in BOOLEAN : f = (k.fin \/ (k.endPending /\ q = <<>> /\ k.fd = "open"))
    OBVIOUS
<1>21. m = [k EXCEPT !.sent = u, !.room = r, !.buf = q, !.lost = d, !.events = e,
                     !.endPending = p, !.fin = f]
    BY <1>3, <1>8, <1>9, <1>10, <1>14, <1>16, <1>18, <1>19, <1>20, Zenon DEF Net!Flush
<1>22. m \in Socket
  <2>1. PICK v : v = [k EXCEPT !.sent = u, !.room = r, !.buf = q]
    OBVIOUS
  <2>2. v \in Socket
    BY <1>1, <1>13, <1>15, <2>1 DEF Socket
  <2>3. m = [v EXCEPT !.lost = d, !.events = e, !.endPending = p, !.fin = f]
    BY <1>21, <2>1, Zenon
  <2>4. e \in SUBSET {"IN", "OUT"}
    BY <1>17
  <2> QED
    BY <2>2, <2>3, <2>4, ZenonT(30) DEF Socket
<1>23. /\ m.buf = q /\ m.written = k.written /\ m.sent = u /\ m.events = e /\ m.lost = d
       /\ m.fin = f /\ m.link = k.link /\ m.closes = k.closes /\ m.fd = k.fd
       /\ m.listed = k.listed /\ m.destroyed = k.destroyed
    BY <1>1, <1>21 DEF Socket
<1>24. Stream(m)
  <2>1. CASE n = -1
    <3>1. d /\ (k.link = "reset" \/ k.fd = "closed") /\ q = <<>> /\ u = k.sent
        BY <1>7, <1>12, <1>18, <2>1
    <3>2. h <= k.written
        BY <1>5, <1>6
    <3>3. f => k.link # "connecting"
      <4>1. CASE k.fd = "closed"
        BY <1>6, <1>20, <4>1
      <4>2. CASE k.fd # "closed"
        BY <3>1, <4>2
      <4> QED
        BY <4>1, <4>2
    <3> QED
        BY <1>4, <1>6, <1>23, <3>1, <3>2, <3>3 DEF Stream
  <2>2. CASE n \in 0..l
    <3>0. n # -1
        BY <1>5, <2>2
    <3>1. ~d /\ (f => q = <<>>)
        BY <1>6, <1>18, <1>20, <3>0, Zenon
    <3>2. ASSUME f PROVE k.link # "connecting"
      <4>1. Len(q) = 0
        BY <3>1, <3>2
      <4> QED
        BY <1>5, <1>7, <1>11, <2>2, <4>1
    <3>3. Len(u) + Len(q) = k.written /\ Len(u) <= k.written /\ h + n = Len(u)
        BY <1>5, <1>6, <1>11, <2>2
    <3> QED
        BY <1>11, <1>23, <2>2, <3>1, <3>2, <3>3 DEF Stream
  <2> QED
    BY <1>7, <2>1, <2>2
<1>25. Watched(m)
    BY <1>17, <1>23 DEF Watched
<1> QED
    BY <1>22, <1>23, <1>24, <1>25

\* A step that moves only the callback of a socket, or ends it.
LEMMA CallbackMoves ==
    ASSUME NetInv, NEW s \in Net!Connections, NEW k \in Socket, sk' = [sk EXCEPT ![s] = k],
           Stream(k), Watched(k), cb.at # "close", k.closes = 0,
           ready' \in [Net!Connections -> SUBSET {"IN", "OUT", "ERR"}],
           UNCHANGED <<handles, process>>,
           NEW at \in {"idle", "read", "connect", "data", "end"}, NEW b \in BOOLEAN,
           \/ cb' = [s |-> s, at |-> at, in |-> b]
           \/ cb' = [s |-> "none", at |-> at, in |-> b] /\ at = "idle",
           at # "idle" => k.listed \/ k.destroyed,
           at = "end" => k.fd = "closed", ready'[s] = {},
           \A t \in Net!Connections : ready'[t] = ready[t] \/ ready'[t] = {}
    PROVE  NetInv'
<1>1. cb' \in Call /\ cb'.at = at /\ (at # "idle" => cb'.s = s)
    BY DEF Call, Stops
<1>2. /\ handles \in 0..MaxHandles /\ process \in {"running", "exited", "killed"}
      /\ sk \in [Net!Connections -> Socket]
    BY DEF NetInv, NetTypes
<1>3. Closed(k, s, cb')
    BY DEF Closed
<1>4. ASSUME NEW t \in Net!Connections PROVE Closed(sk[t], t, cb')
  <2>1. Closed(sk[t], t, cb)
    BY DEF NetInv
  <2> QED
    BY <2>1 DEF Closed
<1>5. ASSUME cb'.at # "idle" PROVE Calling(cb', sk'[cb'.s])
  <2>1. sk'[cb'.s] = k
    BY <1>1, <1>2, <1>5
  <2> QED
    BY <1>1, <1>5, <2>1 DEF Calling
<1>6. Ready(k, ready'[s]) /\ Delivering(cb', ready')
    BY <1>1 DEF Ready, Delivering
<1> QED
    BY <1>1, <1>2, <1>3, <1>4, <1>5, <1>6, SocketStep

\* socket_io_cb up to its first call of JavaScript, or to its read().
LEMMA CallbackStep ==
    ASSUME NetInv, NEW s \in Net!Connections, Net!Callback(s)
    PROVE  NetInv'
<1>1. PICK k : k = sk[s]
    OBVIOUS
<1>2. /\ k \in Socket /\ Stream(k) /\ Watched(k) /\ Closed(k, s, cb)
      /\ sk \in [Net!Connections -> Socket] /\ handles \in 0..MaxHandles
      /\ ready \in [Net!Connections -> SUBSET {"IN", "OUT", "ERR"}]
    BY <1>1 DEF NetInv, NetTypes
<1>3. /\ cb = [s |-> "none", at |-> "idle", in |-> FALSE] /\ ready[s] # {}
      /\ ready' = [ready EXCEPT ![s] = {}] /\ UNCHANGED <<server, handles>>
    BY <1>1 DEF Net!Callback, Net!Idle
<1>4. cb.at = "idle" /\ k.closes = 0 /\ (k.listed \/ k.destroyed)
    BY <1>1, <1>3 DEF NetInv, Ready
<1>5. /\ ready' \in [Net!Connections -> SUBSET {"IN", "OUT", "ERR"}] /\ ready'[s] = {}
      /\ \A t \in Net!Connections : ready'[t] = ready[t] \/ ready'[t] = {}
    BY <1>2, <1>3
<1>6. PICK r : r = ready[s]
    OBVIOUS
<1>7. ASSUME NEW m \in Socket, sk' = [sk EXCEPT ![s] = m], Stream(m), Watched(m), m.closes = 0,
             m.listed \/ m.destroyed, UNCHANGED process, Net!ReadNext(s, r)
      PROVE  NetInv'
  <2>1. CASE cb' = [s |-> s, at |-> "read", in |-> FALSE]
    BY <1>3, <1>4, <1>5, <1>7, <2>1, CallbackMoves
  <2>2. CASE cb' = [s |-> "none", at |-> "idle", in |-> FALSE]
    BY <1>3, <1>4, <1>5, <1>7, <2>2, CallbackMoves
  <2> QED
    BY <1>7, <2>1, <2>2 DEF Net!ReadNext, Net!Goto, Net!Idle
<1>8. CASE /\ sk' = [sk EXCEPT ![s].fd = "closed"] /\ Net!Goto(s, "end", FALSE)
           /\ UNCHANGED process
  <2>1. PICK m : m = [k EXCEPT !.fd = "closed"]
    OBVIOUS
  <2>2. sk' = [sk EXCEPT ![s] = m]
    BY <1>1, <1>8, <2>1
  <2>3. m \in Socket
    BY <1>2, <2>1 DEF Socket
  <2>4. /\ m.link = k.link /\ m.sent = k.sent /\ m.buf = k.buf /\ m.written = k.written
        /\ m.lost = k.lost /\ m.fin = k.fin /\ m.listed = k.listed /\ m.fd = "closed"
        /\ m.closes = k.closes /\ m.destroyed = k.destroyed
    BY <1>2, <2>1 DEF Socket
  <2>5. Stream(m) /\ Watched(m)
    BY <1>2, <2>4 DEF Stream, Watched
  <2>6. cb' = [s |-> s, at |-> "end", in |-> FALSE]
    BY <1>8 DEF Net!Goto
  <2> QED
    BY <1>3, <1>4, <1>5, <1>8, <2>2, <2>3, <2>4, <2>5, <2>6, CallbackMoves
<1>9. CASE /\ sk' = [sk EXCEPT ![s].onConnect = FALSE, ![s].events = {"IN"},
                               ![s].stalled = k.buf # <<>>]
           /\ Net!Goto(s, "connect", "IN" \in r) /\ UNCHANGED process
  <2>0. PICK b \in BOOLEAN : b = (k.buf # <<>>)
    OBVIOUS
  <2>1. PICK m : m = [k EXCEPT !.onConnect = FALSE, !.events = {"IN"}, !.stalled = b]
    OBVIOUS
  <2>2. sk' = [sk EXCEPT ![s] = m]
    BY <1>1, <1>2, <1>9, <2>0, <2>1
  <2>3. m \in Socket
    BY <1>2, <2>1 DEF Socket
  <2>4. /\ m.link = k.link /\ m.sent = k.sent /\ m.buf = k.buf /\ m.written = k.written
        /\ m.lost = k.lost /\ m.fin = k.fin /\ m.listed = k.listed /\ m.stalled = b
        /\ m.closes = k.closes /\ m.destroyed = k.destroyed /\ m.fd = k.fd
    BY <1>2, <2>1 DEF Socket
  <2>5. Stream(m) /\ Watched(m)
    BY <1>2, <2>0, <2>4 DEF Stream, Watched
  <2>6. PICK i : i = ("IN" \in r)
    OBVIOUS
  <2>7. cb' = [s |-> s, at |-> "connect", in |-> i]
    BY <1>9, <2>6 DEF Net!Goto
  <2>8. i \in BOOLEAN
    <3>1. CASE "IN" \in r
        BY <2>6, <3>1
    <3>2. CASE ~("IN" \in r)
        BY <2>6, <3>2
    <3> QED
        BY <3>1, <3>2
  <2> QED
    BY <1>3, <1>4, <1>5, <1>9, <2>2, <2>3, <2>4, <2>5, <2>7, <2>8, CallbackMoves
<1>10. ASSUME k.buf # <<>>, NEW n \in Net!WriteResults(k, Len(k.buf)), n >= -1,
              sk' = [sk EXCEPT ![s] = Net!Flush(s, n)], Net!ReadNext(s, r), UNCHANGED process
       PROVE  NetInv'
  <2>1. PICK m : m = Net!Flush(s, n)
    OBVIOUS
  <2>2. /\ m \in Socket /\ Stream(m) /\ Watched(m)
        /\ m.closes = k.closes /\ m.listed = k.listed /\ m.destroyed = k.destroyed
    BY <1>1, <1>10, <2>1, FlushKeeps, SMTT(30)
  <2> QED
    BY <1>3, <1>4, <1>7, <1>10, <2>1, <2>2
<1>11. CASE process' = "killed" /\ UNCHANGED <<sk, cb>>
  <2>1. ASSUME NEW n \in Net!Connections PROVE Ready(sk[n], ready'[n])
    BY <1>5 DEF NetInv, Ready
  <2>2. Delivering(cb, ready')
    BY <1>4 DEF Delivering
  <2> QED
    BY <1>3, <1>5, <1>11, <2>1, <2>2 DEF NetInv, NetTypes
<1>12. CASE /\ k.buf = <<>> /\ sk' = [sk EXCEPT ![s].events = @ \ {"OUT"}]
            /\ Net!ReadNext(s, r) /\ UNCHANGED process
  <2>0. PICK e : e = k.events \ {"OUT"}
    OBVIOUS
  <2>1. PICK m : m = [k EXCEPT !.events = e]
    OBVIOUS
  <2>2. sk' = [sk EXCEPT ![s] = m]
    BY <1>1, <1>2, <1>12, <2>0, <2>1
  <2>3. e \in SUBSET {"IN", "OUT"}
    BY <1>2, <2>0 DEF Socket
  <2>4. m \in Socket
    BY <1>2, <2>1, <2>3 DEF Socket
  <2>5. /\ m.link = k.link /\ m.sent = k.sent /\ m.buf = k.buf /\ m.written = k.written
        /\ m.lost = k.lost /\ m.fin = k.fin /\ m.listed = k.listed /\ m.closes = k.closes
        /\ m.destroyed = k.destroyed /\ m.fd = k.fd
    BY <1>2, <2>1 DEF Socket
  <2>6. Stream(m) /\ Watched(m)
    BY <1>2, <1>12, <2>5 DEF Stream, Watched
  <2> QED
    BY <1>3, <1>4, <1>7, <1>12, <2>2, <2>4, <2>5, <2>6
<1>13. CASE Net!Goto(s, "read", FALSE) /\ UNCHANGED <<sk, process>>
  <2>1. sk' = [sk EXCEPT ![s] = k]
    BY <1>1, <1>2, <1>13
  <2>2. cb' = [s |-> s, at |-> "read", in |-> FALSE]
    BY <1>13 DEF Net!Goto
  <2> QED
    BY <1>2, <1>3, <1>4, <1>5, <1>13, <2>1, <2>2, CallbackMoves
<1>14. \/ /\ sk' = [sk EXCEPT ![s].fd = "closed"] /\ Net!Goto(s, "end", FALSE)
          /\ UNCHANGED process
       \/ /\ sk' = [sk EXCEPT ![s].onConnect = FALSE, ![s].events = {"IN"},
                              ![s].stalled = k.buf # <<>>]
          /\ Net!Goto(s, "connect", "IN" \in r) /\ UNCHANGED process
       \/ /\ k.buf # <<>>
          /\ \E n \in Net!WriteResults(k, Len(k.buf)) :
                \/ process' = "killed" /\ UNCHANGED <<sk, cb>>
                \/ n >= -1 /\ sk' = [sk EXCEPT ![s] = Net!Flush(s, n)]
                   /\ Net!ReadNext(s, r) /\ UNCHANGED process
       \/ /\ k.buf = <<>> /\ sk' = [sk EXCEPT ![s].events = @ \ {"OUT"}]
          /\ Net!ReadNext(s, r) /\ UNCHANGED process
       \/ Net!Goto(s, "read", FALSE) /\ UNCHANGED <<sk, process>>
    BY <1>1, <1>6, Zenon DEF Net!Callback
<1> QED
    BY <1>8, <1>9, <1>10, <1>11, <1>12, <1>13, <1>14

\* The POLLIN half of socket_io_cb.
LEMMA ReadStep ==
    ASSUME NetInv, Net!Read
    PROVE  NetInv'
<1>1. PICK s : s = cb.s
    OBVIOUS
<1>2. cb.at = "read" /\ UNCHANGED <<server, handles, ready, process>>
    BY DEF Net!Read
<1>3. s \in Net!Connections
    BY <1>1, <1>2 DEF NetInv, NetTypes
<1>4. PICK k : k = sk[s]
    OBVIOUS
<1>5. /\ k \in Socket /\ Stream(k) /\ Watched(k) /\ sk \in [Net!Connections -> Socket]
      /\ ready' \in [Net!Connections -> SUBSET {"IN", "OUT", "ERR"}] /\ ready'[s] = {}
      /\ \A t \in Net!Connections : ready'[t] = ready[t] \/ ready'[t] = {}
    BY <1>1, <1>2, <1>3, <1>4 DEF NetInv, NetTypes, Delivering
<1>6. k.closes = 0 /\ (k.listed \/ k.destroyed)
    BY <1>1, <1>2, <1>4 DEF NetInv, Calling
<1>7. CASE /\ k.inbox > 0 /\ sk' = [sk EXCEPT ![s].inbox = @ - 1] /\ Net!Goto(s, "data", FALSE)
  <2>0. PICK i : i = k.inbox - 1
    OBVIOUS
  <2>1. PICK m : m = [k EXCEPT !.inbox = i]
    OBVIOUS
  <2>2. sk' = [sk EXCEPT ![s] = m]
    BY <1>3, <1>4, <1>5, <1>7, <2>0, <2>1
  <2>3. i \in 0..1
    BY <1>5, <1>7, <2>0 DEF Socket
  <2>4. m \in Socket
    BY <1>5, <2>1, <2>3 DEF Socket
  <2>5. /\ m.link = k.link /\ m.sent = k.sent /\ m.buf = k.buf /\ m.written = k.written
        /\ m.lost = k.lost /\ m.fin = k.fin /\ m.listed = k.listed /\ m.closes = k.closes
        /\ m.fd = k.fd /\ m.events = k.events /\ m.stalled = k.stalled
        /\ m.destroyed = k.destroyed
    BY <1>5, <2>1 DEF Socket
  <2>6. Stream(m) /\ Watched(m)
    BY <1>5, <2>5 DEF Stream, Watched
  <2>7. cb' = [s |-> s, at |-> "data", in |-> FALSE]
    BY <1>7 DEF Net!Goto
  <2> QED
    BY <1>2, <1>3, <1>5, <1>6, <2>2, <2>4, <2>5, <2>6, <2>7, CallbackMoves
<1>8. CASE UNCHANGED sk /\ cb' = [s |-> "none", at |-> "idle", in |-> FALSE]
  <2>1. sk' = [sk EXCEPT ![s] = k]
    BY <1>3, <1>4, <1>5, <1>8
  <2> QED
    BY <1>2, <1>3, <1>5, <1>6, <1>8, <2>1, CallbackMoves
<1>9. CASE sk' = [sk EXCEPT ![s].fd = "closed"] /\ Net!Goto(s, "end", FALSE)
  <2>1. PICK m : m = [k EXCEPT !.fd = "closed"]
    OBVIOUS
  <2>2. sk' = [sk EXCEPT ![s] = m]
    BY <1>4, <1>9, <2>1
  <2>3. m \in Socket
    BY <1>5, <2>1 DEF Socket
  <2>4. /\ m.link = k.link /\ m.sent = k.sent /\ m.buf = k.buf /\ m.written = k.written
        /\ m.lost = k.lost /\ m.fin = k.fin /\ m.listed = k.listed /\ m.fd = "closed"
        /\ m.closes = k.closes /\ m.destroyed = k.destroyed
    BY <1>5, <2>1 DEF Socket
  <2>5. Stream(m) /\ Watched(m)
    BY <1>5, <2>4 DEF Stream, Watched
  <2>6. cb' = [s |-> s, at |-> "end", in |-> FALSE]
    BY <1>9 DEF Net!Goto
  <2> QED
    BY <1>2, <1>3, <1>5, <1>6, <2>2, <2>3, <2>4, <2>5, <2>6, CallbackMoves
<1> QED
    BY <1>1, <1>4, <1>7, <1>8, <1>9 DEF Net!Read, Net!Idle

\* A JavaScript callback returns: 'end' is followed by 'close', 'close' by the
\* removal of the handle.
LEMMA ReturnStep ==
    ASSUME NetInv, Net!CallbackReturn
    PROVE  NetInv'
<1>1. PICK s : s = cb.s
    OBVIOUS
<1>2. cb.at # "idle" /\ UNCHANGED <<server, handles, ready, process>>
    BY DEF Net!CallbackReturn
<1>3. s \in Net!Connections
    BY <1>1, <1>2 DEF NetInv, NetTypes
<1>4. PICK k : k = sk[s]
    OBVIOUS
<1>5. /\ k \in Socket /\ Stream(k) /\ Watched(k) /\ Closed(k, s, cb)
      /\ sk \in [Net!Connections -> Socket]
      /\ ready' \in [Net!Connections -> SUBSET {"IN", "OUT", "ERR"}]
      /\ handles' \in 0..MaxHandles /\ process' \in {"running", "exited", "killed"}
      /\ cb \in Call
    BY <1>2, <1>3, <1>4 DEF NetInv, NetTypes
<1>6. Calling(cb, k) /\ (cb.at # "accept" => ready[s] = {})
  <2>1. Calling(cb, k) /\ Delivering(cb, ready) /\ cb.at \in Stops
    BY <1>1, <1>2, <1>4, <1>5 DEF NetInv, Call
  <2> QED
    BY <1>1, <1>2, <2>1 DEF Delivering, Stops
<1>7. ASSUME NEW t \in Net!Connections, t # s PROVE sk[t].closes = 1 => ~sk[t].listed /\ sk[t].fd = "closed"
  <2>1. Closed(sk[t], t, cb)
    BY DEF NetInv
  <2> QED
    BY <1>1, <1>7, <2>1 DEF Closed
<1>8. ASSUME cb.at # "close", cb.at # "end", UNCHANGED sk,
             \/ cb' = [s |-> "none", at |-> "idle", in |-> FALSE]
             \/ cb.at = "connect" /\ cb' = [s |-> s, at |-> "read", in |-> FALSE]
      PROVE  NetInv'
  <2>1. \A t \in Net!Connections : Closed(sk[t], t, cb')
    BY <1>8 DEF NetInv, Closed
  <2>2. cb' \in Call /\ (cb'.at # "idle" => cb'.at = "read" /\ cb'.s = s /\ cb.at = "connect")
    <3>1. CASE cb' = [s |-> "none", at |-> "idle", in |-> FALSE]
        BY <3>1 DEF Call, Stops
    <3>2. CASE cb.at = "connect" /\ cb' = [s |-> s, at |-> "read", in |-> FALSE]
        BY <1>3, <3>2 DEF Call, Stops
    <3> QED
        BY <1>8, <3>1, <3>2
  <2>3. cb'.at # "idle" => Calling(cb', sk[cb'.s])
    BY <1>4, <1>6, <2>2 DEF Calling
  <2>4. NetTypes'
    BY <1>3, <1>5, <1>8, <2>2 DEF NetTypes
  <2>5. sk' = sk /\ \A t \in Net!Connections : Stream(sk[t]) /\ Watched(sk[t])
    BY <1>8 DEF NetInv
  <2>6. Delivering(cb', ready') /\ \A t \in Net!Connections : Ready(sk[t], ready'[t])
    BY <1>2, <1>6, <1>8, <2>2 DEF NetInv, Delivering
  <2> QED
    BY <2>1, <2>3, <2>4, <2>5, <2>6 DEF NetInv
<1>9. CASE cb.at \in {"data", "accept"}
  <2>1. UNCHANGED sk /\ cb' = [s |-> "none", at |-> "idle", in |-> FALSE]
    BY <1>9 DEF Net!CallbackReturn, Net!Idle
  <2> QED
    BY <1>8, <1>9, <2>1
<1>10. CASE cb.at = "connect"
  <2>1. /\ UNCHANGED sk
        /\ \/ cb' = [s |-> "none", at |-> "idle", in |-> FALSE]
           \/ cb' = [s |-> s, at |-> "read", in |-> FALSE]
    BY <1>1, <1>10 DEF Net!CallbackReturn, Net!Idle, Net!Goto
  <2> QED
    BY <1>8, <1>10, <2>1
<1>11. CASE cb.at = "end"
  <2>1. k.closes = 0 /\ k.fd = "closed"
    BY <1>6, <1>11 DEF Calling
  <2>2. PICK m : m = [k EXCEPT !.closes = 1]
    OBVIOUS
  <2>3. sk' = [sk EXCEPT ![s] = m] /\ cb' = [s |-> s, at |-> "close", in |-> FALSE]
    <3>1. sk' = [sk EXCEPT ![s].closes = @ + 1] /\ cb' = [s |-> s, at |-> "close", in |-> FALSE]
        BY <1>1, <1>11 DEF Net!CallbackReturn, Net!Goto
    <3>2. sk' = [sk EXCEPT ![s] = [k EXCEPT !.closes = k.closes + 1]]
        BY <1>4, <3>1
    <3>3. k.closes + 1 = 1
        BY <2>1
    <3> QED
        BY <2>2, <3>1, <3>2, <3>3
  <2>4. m \in Socket
    <3>1. 1 \in 0..1
        OBVIOUS
    <3> QED
        BY <1>5, <2>2, <3>1 DEF Socket
  <2>5. /\ m.link = k.link /\ m.sent = k.sent /\ m.buf = k.buf /\ m.written = k.written
        /\ m.lost = k.lost /\ m.fin = k.fin /\ m.listed = k.listed /\ m.closes = 1
        /\ m.fd = "closed"
    BY <1>5, <2>1, <2>2 DEF Socket
  <2>6. Stream(m) /\ Watched(m)
    BY <1>5, <2>5 DEF Stream, Watched
  <2>7. cb' \in Call /\ cb'.at = "close" /\ cb'.s = s
    BY <1>3, <2>3 DEF Call, Stops
  <2>8. Closed(m, s, cb') /\ \A t \in Net!Connections \ {s} : Closed(sk[t], t, cb')
    BY <1>7, <2>5, <2>7 DEF Closed
  <2>9. Calling(cb', sk'[cb'.s])
    BY <2>7 DEF Calling
  <2>10. Ready(m, ready'[s]) /\ Delivering(cb', ready') /\ ready' = ready
    BY <1>2, <1>6, <1>11, <2>7 DEF Ready, Delivering
  <2> QED
    BY <1>3, <1>5, <2>3, <2>4, <2>6, <2>7, <2>8, <2>9, <2>10, SocketStep
<1>12. CASE cb.at = "close"
  <2>1. PICK m : m = [k EXCEPT !.listed = FALSE]
    OBVIOUS
  <2>2. sk' = [sk EXCEPT ![s] = m] /\ cb' = [s |-> "none", at |-> "idle", in |-> FALSE]
    BY <1>1, <1>4, <1>12, <2>1 DEF Net!CallbackReturn, Net!Idle
  <2>3. m \in Socket
    BY <1>5, <2>1 DEF Socket
  <2>4. /\ m.link = k.link /\ m.sent = k.sent /\ m.buf = k.buf /\ m.written = k.written
        /\ m.lost = k.lost /\ m.fin = k.fin /\ m.listed = FALSE /\ m.closes = k.closes
        /\ m.fd = k.fd
    BY <1>5, <2>1 DEF Socket
  <2>5. Stream(m) /\ Watched(m)
    BY <1>5, <2>4 DEF Stream, Watched
  <2>6. cb' \in Call /\ cb'.at = "idle"
    BY <2>2 DEF Call, Stops
  <2>7. Closed(m, s, cb') /\ \A t \in Net!Connections \ {s} : Closed(sk[t], t, cb')
    BY <1>5, <1>7, <2>4 DEF Closed
  <2>8. Ready(m, ready'[s]) /\ Delivering(cb', ready') /\ ready' = ready
    BY <1>2, <1>6, <1>12, <2>6 DEF Ready, Delivering
  <2> QED
    BY <1>3, <1>5, <2>2, <2>3, <2>5, <2>6, <2>7, <2>8, SocketStep
<1> QED
    BY <1>9, <1>10, <1>11, <1>12 DEF Net!CallbackReturn

\* The steps that change no socket: the tick of the loop, and the server.
LEMMA LoopSteps ==
    ASSUME NetInv,
           \/ Net!Poll \/ Net!LoopExit \/ Net!CreateServer \/ Net!Listen \/ Net!CloseServer
           \/ \E s \in Net!Connections : Net!SkipRemoved(s)
    PROVE  NetInv'
<1>1. UNCHANGED <<sk, cb>>
    BY DEF Net!Poll, Net!LoopExit, Net!CreateServer, Net!Listen, Net!CloseServer, Net!SkipRemoved
<1>2. ready' \in [Net!Connections -> SUBSET {"IN", "OUT", "ERR"}]
  <2>1. ready \in [Net!Connections -> SUBSET {"IN", "OUT", "ERR"}]
    BY DEF NetInv, NetTypes
  <2>2. CASE Net!Poll
    <3>1. \A s \in Net!Connections : Net!Polled(sk[s]) \in SUBSET {"IN", "OUT", "ERR"}
        BY DEF Net!Polled, Net!Revents
    <3> QED
        BY <2>2, <3>1 DEF Net!Poll
  <2>3. CASE \E s \in Net!Connections : Net!SkipRemoved(s)
    BY <2>1, <2>3 DEF Net!SkipRemoved
  <2>4. CASE Net!LoopExit \/ Net!CreateServer \/ Net!Listen \/ Net!CloseServer
    BY <2>1, <2>4 DEF Net!LoopExit, Net!CreateServer, Net!Listen, Net!CloseServer
  <2> QED
    BY <2>2, <2>3, <2>4
<1>3. handles' \in 0..MaxHandles
  <2>1. handles \in 0..MaxHandles
    BY DEF NetInv, NetTypes
  <2>2. CASE Net!CreateServer
    BY <2>2, Registered DEF Net!CreateServer, Net!Register
  <2>3. CASE ~Net!CreateServer
    BY <2>1, <2>3 DEF Net!Poll, Net!LoopExit, Net!Listen, Net!CloseServer, Net!SkipRemoved
  <2> QED
    BY <2>2, <2>3
<1>4. process' \in {"running", "exited", "killed"}
  <2>1. process \in {"running", "exited", "killed"}
    BY DEF NetInv, NetTypes
  <2> QED
    BY <2>1 DEF Net!Poll, Net!LoopExit, Net!CreateServer, Net!Listen, Net!CloseServer,
       Net!SkipRemoved
<1>5. Delivering(cb, ready') /\ \A s \in Net!Connections : Ready(sk[s], ready'[s])
  <2>1. Delivering(cb, ready) /\ \A s \in Net!Connections : Ready(sk[s], ready[s])
    BY DEF NetInv
  <2>2. CASE Net!Poll
    <3>1. cb.at = "idle" /\ ready' = [s \in Net!Connections |-> Net!Polled(sk[s])]
        BY <2>2 DEF Net!Poll, Net!Idle
    <3>2. ASSUME NEW s \in Net!Connections PROVE Ready(sk[s], ready'[s])
      <4>1. ready'[s] # {} => sk[s].listed
        BY <3>1 DEF Net!Polled
      <4>2. Closed(sk[s], s, cb) /\ sk[s] \in Socket
        BY DEF NetInv, NetTypes
      <4>3. sk[s].closes \in 0..1
        BY <4>2 DEF Socket
      <4> QED
        BY <3>1, <4>1, <4>2, <4>3 DEF Ready, Closed
    <3> QED
        BY <3>1, <3>2 DEF Delivering
  <2>3. ASSUME NEW s \in Net!Connections, Net!SkipRemoved(s)
        PROVE  Delivering(cb, ready') /\ \A t \in Net!Connections : Ready(sk[t], ready'[t])
    <3>1. cb.at = "idle" /\ ready' = [ready EXCEPT ![s] = {}]
        BY <2>3 DEF Net!SkipRemoved, Net!Idle
    <3>2. \A t \in Net!Connections : ready'[t] = ready[t] \/ ready'[t] = {}
        BY <3>1 DEF NetInv, NetTypes
    <3> QED
        BY <2>1, <3>1, <3>2 DEF Delivering, Ready
  <2>4. CASE Net!LoopExit \/ Net!CreateServer \/ Net!Listen \/ Net!CloseServer
    BY <2>1, <2>4 DEF Net!LoopExit, Net!CreateServer, Net!Listen, Net!CloseServer
  <2> QED
    BY <2>2, <2>3, <2>4
<1> QED
    BY <1>1, <1>2, <1>3, <1>4, <1>5 DEF NetInv, NetTypes

\* Every step of net_module.c keeps the invariant.
LEMMA NetNext == NetInv /\ [Net!Next]_(Net!vars) => NetInv'
<1> SUFFICES ASSUME NetInv, [Net!Next]_(Net!vars) PROVE NetInv'
    OBVIOUS
<1>1. CASE UNCHANGED Net!vars
    BY <1>1 DEF Net!vars, NetInv, NetTypes
<1>2. CASE Net!System \/ Net!LoopExit \/ Net!CreateServer \/ Net!Listen \/ Net!CloseServer
    BY <1>2, LoopSteps, ReadStep, ReturnStep DEF Net!System
<1>3. ASSUME NEW s \in Net!Connections,
             \/ Net!Loop(s)
             \/ Net!Establish(s) \/ Net!PeerReads(s) \/ Net!PeerActs(s)
             \/ Net!Accept(s) \/ Net!OnConnect(s) \/ Net!End(s) \/ Net!Destroy(s)
             \/ \E b \in BOOLEAN : Net!Connect(s, b) \/ Net!SetRef(s, b)
             \/ \E len \in 1..SocketBytes : Net!Write(s, len)
      PROVE  NetInv'
  <2>1. CASE Net!Loop(s)
    BY <2>1, LoopSteps, CallbackStep DEF Net!Loop
  <2>2. CASE Net!Establish(s) \/ Net!PeerReads(s) \/ Net!PeerActs(s)
    BY <2>2, KernelSteps
  <2>3. CASE Net!Accept(s)
    BY <2>3, AcceptStep
  <2>4. CASE \/ Net!OnConnect(s) \/ Net!End(s) \/ Net!Destroy(s)
             \/ \E b \in BOOLEAN : Net!SetRef(s, b)
    BY <2>4, MethodSteps
  <2>5. CASE \E b \in BOOLEAN : Net!Connect(s, b)
    BY <2>5, ConnectStep
  <2>6. CASE \E len \in 1..SocketBytes : Net!Write(s, len)
    BY <2>6, WriteStep
  <2> QED
    BY <1>3, <2>1, <2>2, <2>3, <2>4, <2>5, <2>6
<1> QED
    BY <1>1, <1>2, <1>3 DEF Net!Next

\* What the invariant says of the bytes of a socket.
LEMMA BytesFollow ==
    ASSUME NEW k \in Socket, Stream(k)
    PROVE  /\ Len(k.sent) <= k.written /\ k.sent = [i \in 1..Len(k.sent) |-> i]
           /\ ~k.lost => k.sent \o k.buf = [i \in 1..k.written |-> i]
           /\ Len(k.buf) <= SocketBytes
<1>1. /\ k.written \in 0..SocketBytes /\ k.sent \in Seq(1..SocketBytes)
      /\ k.buf \in Seq(1..SocketBytes) /\ k.lost \in BOOLEAN /\ SocketBytes \in Nat
    BY SocketBounds DEF Socket
<1>2. Len(k.sent) \in Nat /\ Len(k.buf) \in Nat
    BY <1>1
<1>3. PICK z \in Nat : z = 0
    OBVIOUS
<1>4. Behind(SocketBytes, k.sent, z) /\ Len(k.sent) <= k.written
    BY <1>3 DEF Stream
<1>5. ASSUME NEW u, Behind(SocketBytes, u, z) PROVE u = [i \in 1..Len(u) |-> i]
  <2>1. u \in Seq(1..SocketBytes) /\ \A i \in 1..Len(u) : u[i] = i
    BY <1>3, <1>5 DEF Behind
  <2> QED
    BY <1>1, <2>1, Counting
<1>6. ASSUME ~k.lost PROVE k.sent \o k.buf = [i \in 1..k.written |-> i]
  <2>1. Behind(SocketBytes, k.buf, z + Len(k.sent)) /\ Len(k.sent) + Len(k.buf) = k.written
    <3>1. Behind(SocketBytes, k.buf, Len(k.sent)) /\ Len(k.sent) + Len(k.buf) = k.written
        BY <1>6 DEF Stream
    <3>2. z + Len(k.sent) = Len(k.sent)
        BY <1>2, <1>3
    <3> QED
        BY <3>1, <3>2
  <2>2. PICK u : u = k.sent \o k.buf
    OBVIOUS
  <2>3. Behind(SocketBytes, u, z) /\ Len(u) = k.written
    BY <1>4, <2>1, <2>2, JoinBytes
  <2> QED
    BY <1>5, <2>2, <2>3
<1>7. Len(k.buf) <= SocketBytes
  <2>1. CASE k.lost
    <3>1. Len(k.buf) = 0
        BY <2>1 DEF Stream
    <3> QED
        BY <1>1, <3>1
  <2>2. CASE ~k.lost
    <3>1. Len(k.sent) + Len(k.buf) = k.written
        BY <2>2 DEF Stream
    <3>2. \A x, y \in Nat : x + y \in 0..SocketBytes => y <= SocketBytes
        BY <1>1
    <3> QED
        BY <1>1, <1>2, <3>1, <3>2, Zenon
  <2> QED
    BY <2>1, <2>2
<1> QED
    BY <1>4, <1>5, <1>6, <1>7

\* net_module.c, for every number of sockets, handles and bytes: what a script
\* writes reaches the kernel in order and once, FIN follows the last byte,
\* buffered bytes have POLLOUT asked for, and 'close' is emitted once, on a
\* closed descriptor, although a destroyed socket may still be called back.
THEOREM SocketsStaySound == Net!Spec => []SocketsKeepBytes
<1>1. NetInv => SocketsKeepBytes
  <2> SUFFICES ASSUME NetInv PROVE SocketsKeepBytes
    OBVIOUS
  <2>1. /\ sk \in [Net!Connections -> Socket]
        /\ ready \in [Net!Connections -> SUBSET {"IN", "OUT", "ERR"}]
        /\ handles \in 0..MaxHandles
        /\ cb \in Call /\ (cb.at # "idle" => cb.s \in Net!Connections)
        /\ process \in {"running", "exited", "killed"}
    BY DEF NetInv, NetTypes
  <2>2. \A s \in Net!Connections : Stream(sk[s]) /\ Watched(sk[s]) /\ Closed(sk[s], s, cb)
    BY DEF NetInv
  <2>3. ASSUME NEW s \in Net!Connections
        PROVE  /\ sk[s].fd \in {"unused", "open", "closed"}
               /\ sk[s].link \in {"connecting", "up", "reset", "aborted"}
               /\ sk[s].events \subseteq {"IN", "OUT"}
               /\ sk[s].bound \in 0..6
               /\ sk[s].written \in 0..SocketBytes
               /\ sk[s].room \in 0..Room
               /\ Len(sk[s].buf) <= SocketBytes
               /\ ready[s] \subseteq {"IN", "OUT", "ERR"}
    <3>1. sk[s] \in Socket
        BY <2>1
    <3>2. Len(sk[s].buf) <= SocketBytes
        BY <2>2, <3>1, BytesFollow
    <3> QED
        BY <2>1, <3>1, <3>2 DEF Socket
  <2>4. Net!TypeOK
    <3>1. cb.at \in Stops
        BY <2>1 DEF Call
    <3> QED
        BY <2>1, <2>3, <3>1 DEF Net!TypeOK, Net!Events, Stops
  <2>5. Net!BytesInOrder
    BY <2>1, <2>2, BytesFollow DEF Net!BytesInOrder
  <2>6. Net!FinAfterData
    BY <2>2 DEF Net!FinAfterData, Stream
  <2>7. Net!BufferedIsWatched
    BY <2>2 DEF Net!BufferedIsWatched, Watched
  <2>8. Net!ClosedOnce
    <3>1. ASSUME NEW s \in Net!Connections
          PROVE  sk[s].closes <= 1 /\ (sk[s].closes = 1 => sk[s].fd = "closed")
      <4>1. sk[s].closes \in 0..1
        BY <2>1 DEF Socket
      <4> QED
        BY <2>2, <4>1 DEF Closed
    <3>2. cb.at = "end" => sk[cb.s].listed \/ sk[cb.s].destroyed
        BY DEF NetInv, Calling
    <3> QED
        BY <3>1, <3>2 DEF Net!ClosedOnce
  <2> QED
    BY <2>4, <2>5, <2>6, <2>7, <2>8 DEF SocketsKeepBytes, Net!Safe
<1> QED
    BY <1>1, NetInit, NetNext, PTL DEF Net!Spec

-----------------------------------------------------------------------------
(* Pipes of children *)

ChildTypes ==
    /\ proc \in [Child!Procs -> {"none", "running", "exited"}]
    /\ out \in [Child!Procs -> Seq(1..Bytes)]
    /\ io \in [Child!Procs -> {"none", "reading", "ended"}]
    /\ waiting \in [Child!Procs -> {"none", "submitted", "reported"}]
    /\ parent \in {"loop", "writing", "killed"}
    /\ produced \in 0..Bytes /\ events \subseteq Child!Procs
    /\ Len(out["src"]) <= PipeCap /\ Len(out["cat"]) <= PipeCap
    /\ Len(stdin) <= PipeCap /\ Len(hold) <= 1

\* Runs of bytes one behind the other, n bytes together.
Chained(a, b, c, d, e, f, g, n) ==
    /\ Behind(Bytes, a, 0)
    /\ Behind(Bytes, b, Len(a))
    /\ Behind(Bytes, c, Len(a) + Len(b))
    /\ Behind(Bytes, d, Len(a) + Len(b) + Len(c))
    /\ Behind(Bytes, e, Len(a) + Len(b) + Len(c) + Len(d))
    /\ Behind(Bytes, f, Len(a) + Len(b) + Len(c) + Len(d) + Len(e))
    /\ Behind(Bytes, g, Len(a) + Len(b) + Len(c) + Len(d) + Len(e) + Len(f))
    /\ n = Len(a) + Len(b) + Len(c) + Len(d) + Len(e) + Len(f) + Len(g)

\* Where each byte is: what was lost comes first, what the first child wrote
\* last comes last.
BytesInv == Chained(lost, got, out["cat"], hold, stdin, chunk, out["src"], produced)

\* Bytes are lost only before pipe(), while there is nothing behind it; the
\* parent holds bytes of its own only while write() blocks; a handle with
\* revents has something to read, or its end.
FlowInv ==
    /\ ~piped => Len(got) + Len(out["cat"]) + Len(hold) + Len(stdin) + Len(chunk) = 0
    /\ parent = "loop" => Len(chunk) = 0
    /\ parent = "writing" => Len(chunk) > 0 /\ piped
    /\ \A p \in Child!Procs :
          /\ p \in events => io[p] = "reading" /\ (Len(out[p]) > 0 \/ proc[p] = "exited")
          /\ io[p] = "ended" => Len(out[p]) = 0 /\ proc[p] = "exited"
          /\ proc[p] = "none" => io[p] = "none"

ChildInv == ChildTypes /\ BytesInv /\ FlowInv

\* The bounds of the pipes.
LEMMA PipeBounds ==
    Bytes \in Nat /\ PipeCap \in Nat \ {0} /\ ReadMax \in Nat \ {0}
BY StreamsAssumption DEF Child!ChildAssumption

\* The two children.
LEMMA TwoProcs == "src" \in Child!Procs /\ "cat" \in Child!Procs
                  /\ \A p \in Child!Procs : p = "src" \/ p = "cat"
BY DEF Child!Procs

\* Before the first spawn() every pipe is empty.
LEMMA ChildInit == Child!Init => ChildInv
<1> SUFFICES ASSUME Child!Init PROVE ChildInv
    OBVIOUS
<1>1. <<>> \in Seq(1..Bytes) /\ Len(<<>>) = 0
    BY EmptySeq
<1>2. /\ lost = <<>> /\ got = <<>> /\ hold = <<>> /\ stdin = <<>> /\ chunk = <<>>
      /\ out["src"] = <<>> /\ out["cat"] = <<>>
    BY TwoProcs DEF Child!Init
<1>3. Len(lost) = 0 /\ Len(got) = 0 /\ Len(hold) = 0 /\ Len(stdin) = 0 /\ Len(chunk) = 0
      /\ Len(out["src"]) = 0 /\ Len(out["cat"]) = 0
    BY <1>1, <1>2
<1>4. ChildTypes
  <2>1. out \in [Child!Procs -> Seq(1..Bytes)]
    BY <1>1 DEF Child!Init
  <2>2. 0 \in 0..Bytes
    BY PipeBounds
  <2> QED
    BY <1>3, <2>1, <2>2, PipeBounds DEF Child!Init, ChildTypes
<1>5. \A k : Behind(Bytes, <<>>, k)
    BY <1>1 DEF Behind
<1>6. BytesInv
  <2>1. \A s \in {lost, got, hold, stdin, chunk, out["src"], out["cat"]} : s = <<>>
    BY <1>2
  <2>2. \A s \in {lost, got, hold, stdin, chunk, out["src"], out["cat"]} : \A k : Behind(Bytes, s, k)
    BY <1>5, <2>1
  <2>3. produced = 0
    BY DEF Child!Init
  <2> QED
    BY <1>3, <2>2, <2>3 DEF BytesInv, Chained
<1>7. FlowInv
    BY <1>3 DEF Child!Init, FlowInv
<1> QED
    BY <1>4, <1>6, <1>7 DEF ChildInv

\* spawn(), pipe(), the exit of a child, poll() and the report of an exit move
\* no byte.
LEMMA NoByteMoves ==
    ASSUME ChildInv, NEW p \in Child!Procs,
           \/ Child!Spawn(p) \/ Child!Exit(p) \/ Child!WaitDone(p)
           \/ Child!Pipe \/ Child!Poll
    PROVE  ChildInv'
<1>1. UNCHANGED <<out, stdin, hold, produced, parent, chunk, got, lost>>
    BY DEF Child!Spawn, Child!Exit, Child!WaitDone, Child!Pipe, Child!Poll
<1>2. BytesInv'
    BY <1>1 DEF ChildInv, BytesInv
<1>3. ChildTypes'
  <2>1. ChildTypes
    BY DEF ChildInv
  <2>2. /\ proc' \in [Child!Procs -> {"none", "running", "exited"}]
        /\ io' \in [Child!Procs -> {"none", "reading", "ended"}]
        /\ waiting' \in [Child!Procs -> {"none", "submitted", "reported"}]
        /\ events' \subseteq Child!Procs
    BY <2>1 DEF ChildTypes, Child!Spawn, Child!Exit, Child!WaitDone, Child!Pipe, Child!Poll
  <2> QED
    BY <1>1, <2>1, <2>2 DEF ChildTypes
<1>4. piped => piped'
    BY DEF Child!Spawn, Child!Exit, Child!WaitDone, Child!Pipe, Child!Poll
<1>5. ASSUME NEW q \in Child!Procs
      PROVE  /\ q \in events' => io'[q] = "reading" /\ (Len(out'[q]) > 0 \/ proc'[q] = "exited")
             /\ io'[q] = "ended" => Len(out'[q]) = 0 /\ proc'[q] = "exited"
             /\ proc'[q] = "none" => io'[q] = "none"
  <2>0. /\ proc \in [Child!Procs -> {"none", "running", "exited"}]
        /\ io \in [Child!Procs -> {"none", "reading", "ended"}]
        /\ out[q] \in Seq(1..Bytes)
    BY DEF ChildInv, ChildTypes
  <2>1. CASE Child!Spawn(p)
    <3>1. q = p \/ (proc'[q] = proc[q] /\ io'[q] = io[q])
        BY <2>0, <2>1 DEF Child!Spawn
    <3>2. p \notin events /\ events' = events /\ io'[p] = "reading" /\ proc'[p] = "running"
        BY <2>0, <2>1 DEF Child!Spawn, ChildInv, FlowInv
    <3> QED
        BY <1>1, <3>1, <3>2 DEF ChildInv, FlowInv
  <2>2. CASE Child!Exit(p)
    <3>1. proc'[q] = proc[q] \/ proc'[q] = "exited"
        BY <2>0, <2>2 DEF Child!Exit
    <3>2. events' = events /\ io' = io
        BY <2>2 DEF Child!Exit
    <3> QED
        BY <1>1, <3>1, <3>2 DEF ChildInv, FlowInv
  <2>3. CASE Child!WaitDone(p) \/ Child!Pipe
    BY <1>1, <2>3 DEF Child!WaitDone, Child!Pipe, ChildInv, FlowInv
  <2>4. CASE Child!Poll
    <3>1. events' = {x \in Child!Procs : Child!Readable(x)} /\ UNCHANGED <<proc, io>>
        BY <2>4 DEF Child!Poll
    <3>2. q \in events' => io[q] = "reading" /\ (out[q] # <<>> \/ proc[q] = "exited")
        BY <3>1 DEF Child!Readable
    <3>3. out[q] # <<>> => Len(out[q]) > 0
        BY <2>0, EmptySeq
    <3> QED
        BY <1>1, <3>1, <3>2, <3>3 DEF ChildInv, FlowInv
  <2> QED
    BY <2>1, <2>2, <2>3, <2>4
<1>6. FlowInv'
    BY <1>1, <1>4, <1>5 DEF ChildInv, FlowInv
<1> QED
    BY <1>2, <1>3, <1>6 DEF ChildInv

\* The lengths of the pipes, and of what the processes hold, are numbers.
LEMMA PipeLengths ==
    ASSUME ChildInv
    PROVE  /\ Len(lost) \in Nat /\ Len(got) \in Nat /\ Len(hold) \in Nat /\ Len(stdin) \in Nat
           /\ Len(chunk) \in Nat /\ Len(out["src"]) \in Nat /\ Len(out["cat"]) \in Nat
BY DEF ChildInv, BytesInv, Chained, Behind

\* Two runs of piped bytes that follow each other are one run.
LEMMA JoinPipes ==
    ASSUME NEW s, NEW t, NEW k \in Nat, Behind(Bytes, s, k), Behind(Bytes, t, k + Len(s))
    PROVE  Behind(Bytes, s \o t, k) /\ Len(s \o t) = Len(s) + Len(t)
<1>1. Bytes \in Nat
    BY PipeBounds
<1> QED
    BY <1>1, JoinRuns, Zenon

\* A step in the middle of the pipeline keeps the processes and the handles.
LEMMA FlowKept ==
    ASSUME ChildInv, UNCHANGED <<proc, io, waiting>>, parent' \in {"loop", "writing", "killed"},
           events' \subseteq events,
           out' \in [Child!Procs -> Seq(1..Bytes)],
           \A p \in Child!Procs : /\ p \in events' => Len(out'[p]) >= Len(out[p])
                                  /\ proc[p] = "exited" => Len(out'[p]) <= Len(out[p])
    PROVE  \A p \in Child!Procs :
              /\ p \in events' => io'[p] = "reading" /\ (Len(out'[p]) > 0 \/ proc'[p] = "exited")
              /\ io'[p] = "ended" => Len(out'[p]) = 0 /\ proc'[p] = "exited"
              /\ proc'[p] = "none" => io'[p] = "none"
<1> SUFFICES ASSUME NEW p \in Child!Procs
             PROVE  /\ p \in events' => io'[p] = "reading" /\ (Len(out'[p]) > 0 \/ proc'[p] = "exited")
                    /\ io'[p] = "ended" => Len(out'[p]) = 0 /\ proc'[p] = "exited"
                    /\ proc'[p] = "none" => io'[p] = "none"
    OBVIOUS
<1>1. Len(out[p]) \in Nat /\ Len(out'[p]) \in Nat
    BY DEF ChildInv, ChildTypes
<1>2. /\ p \in events => io[p] = "reading" /\ (Len(out[p]) > 0 \/ proc[p] = "exited")
      /\ io[p] = "ended" => Len(out[p]) = 0 /\ proc[p] = "exited"
      /\ proc[p] = "none" => io[p] = "none"
    BY DEF ChildInv, FlowInv
<1> QED
    BY <1>1, <1>2

\* The first child writes its next byte.
LEMMA SrcWritesStep ==
    ASSUME ChildInv, Child!SrcWrites
    PROVE  ChildInv'
<1>1. /\ UNCHANGED <<proc, stdin, hold, io, events, parent, chunk, piped, waiting, got, lost>>
      /\ proc["src"] = "running" /\ produced < Bytes /\ Len(out["src"]) < PipeCap
      /\ out' = [out EXCEPT !["src"] = Append(out["src"], produced + 1)]
      /\ produced' = produced + 1
    BY DEF Child!SrcWrites
<1>2. PICK k : k = Len(lost) + Len(got) + Len(out["cat"]) + Len(hold) + Len(stdin) + Len(chunk)
    OBVIOUS
<1>3. k \in Nat /\ Len(out["src"]) \in Nat
  <2>1. /\ Len(lost) \in Nat /\ Len(got) \in Nat /\ Len(hold) \in Nat /\ Len(stdin) \in Nat
        /\ Len(chunk) \in Nat /\ Len(out["src"]) \in Nat /\ Len(out["cat"]) \in Nat
    BY PipeLengths
  <2>2. ASSUME NEW a \in Nat, NEW b \in Nat, NEW c \in Nat, NEW d \in Nat, NEW e \in Nat, NEW f \in Nat
        PROVE  a + b + c + d + e + f \in Nat
    OBVIOUS
  <2>3. Len(lost) + Len(got) + Len(out["cat"]) + Len(hold) + Len(stdin) + Len(chunk) \in Nat
    BY <2>1, <2>2, Zenon
  <2> QED
    BY <1>2, <2>1, <2>3
<1>4. Behind(Bytes, out["src"], k) /\ produced = k + Len(out["src"])
    BY <1>2 DEF ChildInv, BytesInv, Chained
<1>5. PICK b : b = produced + 1
    OBVIOUS
<1>6. b \in 1..Bytes /\ b \in 0..Bytes /\ b = k + Len(out["src"]) + 1
    BY <1>1, <1>3, <1>4, <1>5, PipeBounds
<1>7. PICK u : u = Append(out["src"], b)
    OBVIOUS
<1>8. Behind(Bytes, u, k) /\ Len(u) = Len(out["src"]) + 1
    BY <1>3, <1>4, <1>6, <1>7, PipeBounds, WrittenBehind
<1>9. u \in Seq(1..Bytes) /\ out' = [out EXCEPT !["src"] = u] /\ produced' = b
    BY <1>1, <1>5, <1>7, <1>8 DEF Behind
<1>10. out \in [Child!Procs -> Seq(1..Bytes)]
    BY DEF ChildInv, ChildTypes
<1>11. out'["src"] = u /\ out'["cat"] = out["cat"] /\ out' \in [Child!Procs -> Seq(1..Bytes)]
    BY <1>9, <1>10, TwoProcs
<1>12. ChildTypes'
  <2>1. Len(u) <= PipeCap
    BY <1>1, <1>3, <1>8, PipeBounds
  <2>2. ChildTypes
    BY DEF ChildInv
  <2> QED
    BY <1>1, <1>6, <1>9, <1>11, <2>1, <2>2 DEF ChildTypes
<1>13. BytesInv'
  <2>1. produced' = k + Len(u)
    BY <1>3, <1>6, <1>8, <1>9
  <2>3. BytesInv
    BY DEF ChildInv
  <2> QED
    BY <1>1, <1>2, <1>8, <1>11, <2>1, <2>3 DEF BytesInv, Chained
<1>14. FlowInv'
  <2>1. ASSUME NEW p \in Child!Procs
        PROVE  /\ Len(out'[p]) >= Len(out[p])
               /\ proc[p] = "exited" => Len(out'[p]) <= Len(out[p])
    BY <1>1, <1>3, <1>8, <1>11, PipeLengths, TwoProcs
  <2>2. \A p \in Child!Procs :
              /\ p \in events' => io'[p] = "reading" /\ (Len(out'[p]) > 0 \/ proc'[p] = "exited")
              /\ io'[p] = "ended" => Len(out'[p]) = 0 /\ proc'[p] = "exited"
              /\ proc'[p] = "none" => io'[p] = "none"
    <3>1. parent' \in {"loop", "writing", "killed"} /\ events' \subseteq events
        BY <1>1 DEF ChildInv, ChildTypes
    <3> QED
        BY <1>1, <1>11, <2>1, <3>1, FlowKept
  <2> QED
    BY <1>1, <1>11, <2>2 DEF ChildInv, FlowInv
<1> QED
    BY <1>12, <1>13, <1>14 DEF ChildInv

\* The empty run, and a run of one byte.
LEMMA SmallRuns ==
    /\ \A k : Behind(Bytes, <<>>, k) /\ Len(<<>>) = 0
    /\ \A b \in 1..Bytes : \A k \in Nat : b = k + 1 => Behind(Bytes, <<b>>, k) /\ Len(<<b>>) = 1
<1>1. \A k : Behind(Bytes, <<>>, k) /\ Len(<<>>) = 0
    BY EmptySeq DEF Behind
<1>2. ASSUME NEW b \in 1..Bytes, NEW k \in Nat, b = k + 1
      PROVE  Behind(Bytes, <<b>>, k) /\ Len(<<b>>) = 1
  <2>1. <<b>> \in Seq(1..Bytes) /\ Len(<<b>>) = 1 /\ <<b>>[1] = b
    OBVIOUS
  <2> QED
    BY <1>2, <2>1 DEF Behind
<1> QED
    BY <1>1, <1>2

\* The lengths of chained runs are numbers.
LEMMA ChainLengths ==
    ASSUME NEW a, NEW b, NEW c, NEW d, NEW e, NEW f, NEW g, NEW n, Chained(a, b, c, d, e, f, g, n)
    PROVE  /\ Len(a) \in Nat /\ Len(b) \in Nat /\ Len(c) \in Nat /\ Len(d) \in Nat
           /\ Len(e) \in Nat /\ Len(f) \in Nat /\ Len(g) \in Nat
           /\ Len(a) + Len(b) \in Nat
           /\ Len(a) + Len(b) + Len(c) \in Nat
           /\ Len(a) + Len(b) + Len(c) + Len(d) \in Nat
           /\ Len(a) + Len(b) + Len(c) + Len(d) + Len(e) \in Nat
           /\ Len(a) + Len(b) + Len(c) + Len(d) + Len(e) + Len(f) \in Nat
<1>1. /\ Len(a) \in Nat /\ Len(b) \in Nat /\ Len(c) \in Nat /\ Len(d) \in Nat
      /\ Len(e) \in Nat /\ Len(f) \in Nat /\ Len(g) \in Nat
    BY DEF Chained, Behind
<1> QED
    BY <1>1

\* cat reads a byte.
LEMMA CatReadsByte ==
    ASSUME NEW a, NEW b, NEW c, NEW e, NEW f, NEW g, NEW n,
           Chained(a, b, c, <<>>, e, f, g, n), Len(e) > 0
    PROVE  Chained(a, b, c, <<Head(e)>>, Tail(e), f, g, n) /\ Len(Tail(e)) = Len(e) - 1
<1>1. PICK k : k = Len(a) + Len(b) + Len(c)
    OBVIOUS
<1>2. k \in Nat /\ Len(<<>>) = 0 /\ Len(e) \in Nat
    BY <1>1, ChainLengths
<1>3. Behind(Bytes, e, k)
  <2>1. Behind(Bytes, e, k + Len(<<>>))
    BY <1>1 DEF Chained
  <2> QED
    BY <1>2, <2>1
<1>4. PICK h : h = Head(e)
    OBVIOUS
<1>5. PICK t : t = Tail(e)
    OBVIOUS
<1>6. h = k + 1 /\ h \in 1..Bytes /\ Behind(Bytes, t, k + 1) /\ Len(t) = Len(e) - 1
    BY <1>2, <1>3, <1>4, <1>5, PipeBounds, FirstOfRun
<1>7. PICK d : d = <<h>>
    OBVIOUS
<1>8. Behind(Bytes, d, k) /\ Len(d) = 1
    BY <1>2, <1>6, <1>7, SmallRuns
<1>9. Len(<<>>) + Len(e) = Len(d) + Len(t)
    BY <1>2, <1>6, <1>8
<1>10. Chained(a, b, c, d, t, f, g, n)
  <2>1. Behind(Bytes, t, k + Len(d))
    BY <1>6, <1>8
  <2>2. k + Len(d) + Len(t) = k + Len(<<>>) + Len(e)
    BY <1>2, <1>6, <1>8
  <2> QED
    BY <1>1, <1>8, <2>1, <2>2 DEF Chained
<1> QED
    BY <1>4, <1>5, <1>6, <1>7, <1>10

\* cat writes the byte it holds.
LEMMA CatWritesByte ==
    ASSUME NEW a, NEW b, NEW c, NEW d, NEW e, NEW f, NEW g, NEW n,
           Chained(a, b, c, d, e, f, g, n)
    PROVE  Chained(a, b, c \o d, <<>>, e, f, g, n) /\ Len(c \o d) = Len(c) + Len(d)
<1>1. PICK k : k = Len(a) + Len(b)
    OBVIOUS
<1>2. k \in Nat /\ Len(<<>>) = 0 /\ Len(c) \in Nat /\ Len(d) \in Nat
    BY <1>1, ChainLengths
<1>3. PICK u : u = c \o d
    OBVIOUS
<1>4. Behind(Bytes, u, k) /\ Len(u) = Len(c) + Len(d)
    BY <1>1, <1>2, <1>3, JoinPipes DEF Chained
<1>5. k + Len(c) + Len(d) = k + Len(u) + Len(<<>>)
    BY <1>2, <1>4
<1>6. Chained(a, b, u, <<>>, e, f, g, n)
    BY <1>1, <1>4, <1>5, SmallRuns DEF Chained
<1> QED
    BY <1>3, <1>4, <1>6

\* JavaScript gets the first m bytes of cat's output.
LEMMA CatIsRead ==
    ASSUME NEW a, NEW b, NEW c, NEW d, NEW e, NEW f, NEW g, NEW n,
           Chained(a, b, c, d, e, f, g, n), NEW m \in 0..Len(c)
    PROVE  /\ Chained(a, b \o SubSeq(c, 1, m), SubSeq(c, m + 1, Len(c)), d, e, f, g, n)
           /\ Len(SubSeq(c, m + 1, Len(c))) = Len(c) - m
<1>1. Len(a) \in Nat /\ Len(b) \in Nat /\ Len(c) \in Nat /\ m \in Nat /\ Len(a) + Len(b) \in Nat
    BY ChainLengths
<1>2. PICK u : u = SubSeq(c, 1, m)
    OBVIOUS
<1>3. PICK v : v = SubSeq(c, m + 1, Len(c))
    OBVIOUS
<1>4. PICK k : k = Len(a) + Len(b)
    OBVIOUS
<1>5. Behind(Bytes, c, k) /\ k \in Nat
    BY <1>1, <1>4 DEF Chained
<1>6. Behind(Bytes, u, k) /\ Len(u) = m /\ Behind(Bytes, v, k + m) /\ Len(v) = Len(c) - m
    BY <1>2, <1>3, <1>5, PipeBounds, SplitRun
<1>7. PICK w : w = b \o u
    OBVIOUS
<1>8. Behind(Bytes, w, Len(a)) /\ Len(w) = Len(b) + Len(u)
    BY <1>1, <1>4, <1>6, <1>7, JoinPipes DEF Chained
<1>9. Len(a) + Len(w) = k + m /\ Len(a) + Len(w) + Len(v) = Len(a) + Len(b) + Len(c)
    BY <1>1, <1>4, <1>6, <1>8
<1>10. Chained(a, w, v, d, e, f, g, n)
    BY <1>6, <1>8, <1>9 DEF Chained
<1> QED
    BY <1>2, <1>3, <1>6, <1>7, <1>10

\* The parent takes the first m bytes of the first child's output, to write
\* them to cat.
LEMMA SrcIsRead ==
    ASSUME NEW a, NEW b, NEW c, NEW d, NEW e, NEW f, NEW g, NEW n,
           Chained(a, b, c, d, e, f, g, n), Len(f) = 0, NEW m \in 0..Len(g)
    PROVE  /\ Chained(a, b, c, d, e, SubSeq(g, 1, m), SubSeq(g, m + 1, Len(g)), n)
           /\ Len(SubSeq(g, 1, m)) = m
           /\ Len(SubSeq(g, m + 1, Len(g))) = Len(g) - m
<1>1. PICK k : k = Len(a) + Len(b) + Len(c) + Len(d) + Len(e)
    OBVIOUS
<1>2. k \in Nat /\ Len(g) \in Nat /\ m \in Nat
    BY <1>1, ChainLengths
<1>3. Behind(Bytes, g, k) /\ n = k + Len(g)
  <2>1. Behind(Bytes, g, k + Len(f)) /\ n = k + Len(f) + Len(g)
    BY <1>1 DEF Chained
  <2> QED
    BY <1>2, <2>1
<1>4. PICK u : u = SubSeq(g, 1, m)
    OBVIOUS
<1>5. PICK v : v = SubSeq(g, m + 1, Len(g))
    OBVIOUS
<1>6. Behind(Bytes, u, k) /\ Len(u) = m /\ Behind(Bytes, v, k + m) /\ Len(v) = Len(g) - m
    BY <1>2, <1>3, <1>4, <1>5, PipeBounds, SplitRun
<1>7. n = k + Len(u) + Len(v)
    BY <1>2, <1>3, <1>6
<1>8. Chained(a, b, c, d, e, u, v, n)
    BY <1>1, <1>6, <1>7 DEF Chained
<1> QED
    BY <1>4, <1>5, <1>6, <1>8

\* Nobody listens yet: the first m bytes of the first child's output are lost.
LEMMA SrcIsLost ==
    ASSUME NEW a, NEW b, NEW c, NEW d, NEW e, NEW f, NEW g, NEW n,
           Chained(a, b, c, d, e, f, g, n), NEW m \in 0..Len(g),
           Len(b) + Len(c) + Len(d) + Len(e) + Len(f) = 0
    PROVE  /\ Chained(a \o SubSeq(g, 1, m), b, c, d, e, f, SubSeq(g, m + 1, Len(g)), n)
           /\ Len(SubSeq(g, m + 1, Len(g))) = Len(g) - m
<1>1. /\ Len(a) \in Nat /\ Len(b) \in Nat /\ Len(c) \in Nat /\ Len(d) \in Nat
      /\ Len(e) \in Nat /\ Len(f) \in Nat /\ Len(g) \in Nat /\ m \in Nat
    BY ChainLengths
<1>2. Len(b) = 0 /\ Len(c) = 0 /\ Len(d) = 0 /\ Len(e) = 0 /\ Len(f) = 0
    BY <1>1
<1>3. Behind(Bytes, g, Len(a)) /\ n = Len(a) + Len(g)
  <2>1. Len(a) + Len(b) + Len(c) + Len(d) + Len(e) + Len(f) = Len(a)
    BY <1>1, <1>2
  <2> QED
    BY <2>1 DEF Chained
<1>4. PICK u : u = SubSeq(g, 1, m)
    OBVIOUS
<1>5. PICK v : v = SubSeq(g, m + 1, Len(g))
    OBVIOUS
<1>6. Behind(Bytes, u, Len(a)) /\ Len(u) = m /\ Behind(Bytes, v, Len(a) + m) /\ Len(v) = Len(g) - m
    BY <1>1, <1>3, <1>4, <1>5, PipeBounds, SplitRun
<1>7. PICK w : w = a \o u
    OBVIOUS
<1>8. Behind(Bytes, w, 0) /\ Len(w) = Len(a) + m
  <2>1. Behind(Bytes, a, 0) /\ 0 + Len(a) = Len(a)
    BY <1>1 DEF Chained
  <2>2. Behind(Bytes, u, 0 + Len(a)) /\ 0 \in Nat
    BY <1>6, <2>1
  <2>3. Behind(Bytes, w, 0) /\ Len(w) = Len(a) + Len(u)
    BY <1>7, <2>1, <2>2, JoinPipes
  <2> QED
    BY <1>6, <2>3
<1>9. /\ Len(w) + Len(b) = Len(w)
      /\ Len(w) + Len(b) + Len(c) = Len(w)
      /\ Len(w) + Len(b) + Len(c) + Len(d) = Len(w)
      /\ Len(w) + Len(b) + Len(c) + Len(d) + Len(e) = Len(w)
      /\ Len(w) + Len(b) + Len(c) + Len(d) + Len(e) + Len(f) = Len(w)
      /\ n = Len(w) + Len(v)
    BY <1>1, <1>2, <1>3, <1>6, <1>8
<1>10. \A k : Behind(Bytes, b, k) /\ Behind(Bytes, c, k) /\ Behind(Bytes, d, k) /\ Behind(Bytes, e, k) /\ Behind(Bytes, f, k)
    BY <1>2 DEF Chained, Behind
<1>11. Chained(w, b, c, d, e, f, v, n)
    BY <1>6, <1>8, <1>9, <1>10 DEF Chained
<1> QED
    BY <1>4, <1>5, <1>6, <1>7, <1>11

\* write() puts the parent's next byte into cat's input.
LEMMA ParentWritesByte ==
    ASSUME NEW a, NEW b, NEW c, NEW d, NEW e, NEW f, NEW g, NEW n,
           Chained(a, b, c, d, e, f, g, n), Len(f) > 0
    PROVE  /\ Chained(a, b, c, d, Append(e, Head(f)), Tail(f), g, n)
           /\ Len(Append(e, Head(f))) = Len(e) + 1 /\ Len(Tail(f)) = Len(f) - 1
<1>1. PICK k : k = Len(a) + Len(b) + Len(c) + Len(d)
    OBVIOUS
<1>2. k \in Nat /\ Len(e) \in Nat /\ Len(f) \in Nat
    BY <1>1, ChainLengths
<1>3. Behind(Bytes, e, k) /\ Behind(Bytes, f, k + Len(e))
    BY <1>1 DEF Chained
<1>4. PICK h : h = Head(f)
    OBVIOUS
<1>5. PICK t : t = Tail(f)
    OBVIOUS
<1>6. /\ h = k + Len(e) + 1 /\ h \in 1..Bytes
      /\ Behind(Bytes, t, k + Len(e) + 1) /\ Len(t) = Len(f) - 1
    BY <1>2, <1>3, <1>4, <1>5, PipeBounds, FirstOfRun
<1>7. PICK u : u = Append(e, h)
    OBVIOUS
<1>8. Behind(Bytes, u, k) /\ Len(u) = Len(e) + 1
    BY <1>2, <1>3, <1>6, <1>7, PipeBounds, WrittenBehind
<1>9. /\ k + Len(u) = k + Len(e) + 1
      /\ k + Len(u) + Len(t) = k + Len(e) + Len(f)
    BY <1>2, <1>6, <1>8
<1>10. Chained(a, b, c, d, u, t, g, n)
    BY <1>1, <1>6, <1>8, <1>9 DEF Chained
<1> QED
    BY <1>4, <1>5, <1>6, <1>7, <1>8, <1>10

\* What a step that moves bytes must show.
LEMMA BytesMove ==
    ASSUME ChildInv, UNCHANGED <<proc, produced, piped, waiting, io>>,
           parent' \in {"loop", "writing", "killed"}, events' \subseteq events,
           BytesInv', out' \in [Child!Procs -> Seq(1..Bytes)],
           \A p \in Child!Procs :
              /\ Len(out'[p]) <= PipeCap
              /\ p \in events' => Len(out'[p]) >= Len(out[p])
              /\ proc[p] = "exited" => Len(out'[p]) <= Len(out[p]),
           Len(stdin') <= PipeCap, Len(hold') <= 1,
           ~piped => Len(got') + Len(out'["cat"]) + Len(hold') + Len(stdin') + Len(chunk') = 0,
           parent' = "loop" => Len(chunk') = 0,
           parent' = "writing" => Len(chunk') > 0 /\ piped
    PROVE  ChildInv'
<1>1. ChildTypes'
  <2>1. ChildTypes
    BY DEF ChildInv
  <2>2. Len(out'["src"]) <= PipeCap /\ Len(out'["cat"]) <= PipeCap
    BY TwoProcs
  <2>3. events' \subseteq Child!Procs
    BY <2>1 DEF ChildTypes
  <2> QED
    BY <2>1, <2>2, <2>3 DEF ChildTypes
<1>2. \A p \in Child!Procs :
              /\ p \in events' => io'[p] = "reading" /\ (Len(out'[p]) > 0 \/ proc'[p] = "exited")
              /\ io'[p] = "ended" => Len(out'[p]) = 0 /\ proc'[p] = "exited"
              /\ proc'[p] = "none" => io'[p] = "none"
    BY FlowKept
<1>3. FlowInv'
    BY <1>2 DEF FlowInv
<1> QED
    BY <1>1, <1>3 DEF ChildInv

\* cat copies, through the byte it holds.
LEMMA CatCopiesStep ==
    ASSUME ChildInv, Child!CatCopies
    PROVE  ChildInv'
<1>1. /\ UNCHANGED <<proc, produced, io, events, parent, chunk, piped, waiting, got, lost>>
      /\ proc["cat"] = "running"
    BY DEF Child!CatCopies
<1>2. Chained(lost, got, out["cat"], hold, stdin, chunk, out["src"], produced)
    BY DEF ChildInv, BytesInv
<1>3. /\ Len(got) \in Nat /\ Len(out["cat"]) \in Nat /\ Len(hold) \in Nat /\ Len(stdin) \in Nat
      /\ Len(chunk) \in Nat /\ Len(out["src"]) \in Nat
    BY <1>2, ChainLengths
<1>4. /\ out \in [Child!Procs -> Seq(1..Bytes)] /\ parent \in {"loop", "writing", "killed"}
      /\ Len(out["src"]) <= PipeCap /\ Len(out["cat"]) <= PipeCap
      /\ Len(stdin) <= PipeCap /\ Len(hold) <= 1
    BY DEF ChildInv, ChildTypes
<1>5. /\ ~piped => Len(got) + Len(out["cat"]) + Len(hold) + Len(stdin) + Len(chunk) = 0
      /\ parent = "loop" => Len(chunk) = 0
      /\ parent = "writing" => Len(chunk) > 0 /\ piped
    BY DEF ChildInv, FlowInv
<1>6. PipeCap \in Nat
    BY PipeBounds
<1>7. CASE hold = <<>> /\ stdin # <<>> /\ hold' = <<Head(stdin)>> /\ stdin' = Tail(stdin) /\ UNCHANGED out
  <2>1. Len(stdin) > 0
    BY <1>2, <1>3, <1>7, EmptySeq DEF Chained, Behind
  <2>2. Chained(lost, got, out["cat"], <<>>, stdin, chunk, out["src"], produced)
    BY <1>2, <1>7
  <2>3. /\ Chained(lost, got, out["cat"], <<Head(stdin)>>, Tail(stdin), chunk, out["src"], produced)
        /\ Len(Tail(stdin)) = Len(stdin) - 1
    BY <2>1, <2>2, CatReadsByte
  <2>4. BytesInv'
    BY <1>1, <1>7, <2>3 DEF BytesInv
  <2>5. Len(stdin') = Len(stdin) - 1 /\ Len(hold') = 1
    BY <1>7, <2>3
  <2>6. piped
    BY <1>3, <1>5, <2>1
  <2>7. \A p \in Child!Procs : Len(out'[p]) <= PipeCap /\ Len(out'[p]) = Len(out[p]) /\ Len(out[p]) \in Nat
    BY <1>3, <1>4, <1>7, TwoProcs
  <2>8. Len(stdin') <= PipeCap /\ Len(hold') <= 1
    BY <1>3, <1>4, <1>6, <2>5
  <2> QED
    BY <1>1, <1>4, <1>5, <1>7, <2>4, <2>6, <2>7, <2>8, BytesMove
<1>8. CASE /\ hold # <<>> /\ Len(out["cat"]) < PipeCap /\ hold' = <<>> /\ UNCHANGED stdin
           /\ out' = [out EXCEPT !["cat"] = out["cat"] \o hold]
  <2>0. hold \in Seq(1..Bytes) /\ hold # <<>>
    BY <1>2, <1>8 DEF Chained, Behind
  <2>1. Len(hold) = 1
    <3>1. Len(hold) # 0
        BY <2>0, EmptySeq
    <3>2. Len(hold) \in Nat /\ Len(hold) <= 1
        BY <1>3, <1>4
    <3>3. \A h \in Nat : h # 0 /\ h <= 1 => h = 1
        OBVIOUS
    <3> QED
        BY <3>1, <3>2, <3>3, Zenon
  <2>2. PICK u : u = out["cat"] \o hold
    OBVIOUS
  <2>3. Chained(lost, got, u, <<>>, stdin, chunk, out["src"], produced) /\ Len(u) = Len(out["cat"]) + 1
    <3>1. Chained(lost, got, u, <<>>, stdin, chunk, out["src"], produced)
        BY <1>2, <2>2, CatWritesByte
    <3>2. Len(u) = Len(out["cat"]) + Len(hold)
        BY <1>2, <2>2, CatWritesByte
    <3> QED
        BY <2>1, <3>1, <3>2
  <2>4. u \in Seq(1..Bytes)
    BY <2>3 DEF Chained, Behind
  <2>5. /\ out' \in [Child!Procs -> Seq(1..Bytes)] /\ out'["cat"] = u /\ out'["src"] = out["src"]
    BY <1>4, <1>8, <2>2, <2>4, TwoProcs
  <2>6. BytesInv'
    BY <1>1, <1>8, <2>3, <2>5 DEF BytesInv
  <2>7. piped
    BY <1>3, <1>5, <2>1
  <2>8. Len(hold') = 0 /\ Len(u) <= PipeCap /\ Len(u) > Len(out["cat"])
    BY <1>3, <1>6, <1>8, <2>3, EmptySeq
  <2>9. ASSUME NEW p \in Child!Procs
        PROVE  /\ Len(out'[p]) <= PipeCap
               /\ Len(out'[p]) >= Len(out[p])
               /\ proc[p] = "exited" => Len(out'[p]) <= Len(out[p])
    <3>1. CASE p = "src"
        BY <1>3, <1>4, <2>5, <3>1
    <3>2. CASE p = "cat"
        BY <1>1, <1>3, <2>3, <2>5, <2>8, <3>2
    <3> QED
        BY <3>1, <3>2, TwoProcs
  <2> QED
    BY <1>1, <1>4, <1>5, <1>8, <2>5, <2>6, <2>7, <2>8, <2>9, BytesMove, SMTT(30)
<1> QED
    BY <1>7, <1>8 DEF Child!CatCopies

\* write() in the parent: one more byte, or SIGPIPE.
LEMMA ParentWriteStep ==
    ASSUME ChildInv, Child!Write
    PROVE  ChildInv'
<1>1. /\ UNCHANGED <<proc, out, hold, produced, io, events, piped, waiting, got, lost>>
      /\ parent = "writing"
    BY DEF Child!Write
<1>2. Chained(lost, got, out["cat"], hold, stdin, chunk, out["src"], produced)
    BY DEF ChildInv, BytesInv
<1>3. /\ Len(got) \in Nat /\ Len(out["cat"]) \in Nat /\ Len(hold) \in Nat /\ Len(stdin) \in Nat
      /\ Len(chunk) \in Nat /\ Len(out["src"]) \in Nat
    BY <1>2, ChainLengths
<1>4. /\ out \in [Child!Procs -> Seq(1..Bytes)] /\ parent \in {"loop", "writing", "killed"}
      /\ Len(out["src"]) <= PipeCap /\ Len(out["cat"]) <= PipeCap
      /\ Len(stdin) <= PipeCap /\ Len(hold) <= 1
    BY DEF ChildInv, ChildTypes
<1>5. Len(chunk) > 0 /\ piped
    BY <1>1 DEF ChildInv, FlowInv
<1>6. \A p \in Child!Procs : Len(out'[p]) <= PipeCap /\ Len(out'[p]) = Len(out[p]) /\ Len(out[p]) \in Nat
    BY <1>1, <1>3, <1>4, TwoProcs
<1>7. CASE parent' = "killed" /\ UNCHANGED <<stdin, chunk>>
  <2>1. BytesInv'
    BY <1>1, <1>2, <1>7 DEF BytesInv
  <2> QED
    BY <1>1, <1>4, <1>5, <1>6, <1>7, <2>1, BytesMove
<1>8. CASE /\ Len(stdin) < PipeCap
           /\ stdin' = Append(stdin, Head(chunk)) /\ chunk' = Tail(chunk)
           /\ parent' = IF Len(chunk) = 1 THEN "loop" ELSE "writing"
  <2>1. Chained(lost, got, out["cat"], hold, stdin', chunk', out["src"], produced)
    BY <1>2, <1>5, <1>8, ParentWritesByte
  <2>2. Len(stdin') = Len(stdin) + 1 /\ Len(chunk') = Len(chunk) - 1
    BY <1>2, <1>5, <1>8, ParentWritesByte
  <2>3. BytesInv'
    BY <1>1, <2>1 DEF BytesInv
  <2>4. Len(stdin') <= PipeCap
    BY <1>3, <1>8, <2>2, PipeBounds
  <2>5. /\ parent' \in {"loop", "writing", "killed"}
        /\ parent' = "loop" => Len(chunk') = 0
        /\ parent' = "writing" => Len(chunk') > 0
    <3>1. CASE Len(chunk) = 1
      <4>1. parent' = "loop" /\ Len(chunk') = 0
        BY <1>8, <2>2, <3>1
      <4> QED
        BY <4>1
    <3>2. CASE Len(chunk) # 1
      <4>1. parent' = "writing"
        BY <1>8, <3>2
      <4>2. Len(chunk') > 0
        BY <1>3, <1>5, <2>2, <3>2
      <4> QED
        BY <4>1, <4>2
    <3> QED
        BY <3>1, <3>2
  <2> QED
    BY <1>1, <1>4, <1>5, <1>6, <2>3, <2>4, <2>5, BytesMove
<1> QED
    BY <1>7, <1>8 DEF Child!Write

\* How much child_read_cb reads at once.
LEMMA ChunkLength ==
    ASSUME ChildInv, NEW p \in Child!Procs
    PROVE  \E m \in 0..Len(out[p]) : /\ Child!Chunk(p) = SubSeq(out[p], 1, m)
                                     /\ m = 0 <=> Len(out[p]) = 0
<1>1. Len(out[p]) \in Nat
    BY DEF ChildInv, ChildTypes
<1>2. PICK m : m = IF Len(out[p]) < ReadMax THEN Len(out[p]) ELSE ReadMax
    OBVIOUS
<1>3. m \in 0..Len(out[p]) /\ (m = 0 <=> Len(out[p]) = 0)
    BY <1>1, <1>2, PipeBounds
<1>4. Child!Chunk(p) = SubSeq(out[p], 1, m)
    BY <1>2 DEF Child!Chunk
<1> QED
    BY <1>3, <1>4

\* child_read_cb: the bytes read go to whoever listens.
LEMMA ReadCallbackStep ==
    ASSUME ChildInv, NEW p \in Child!Procs, Child!ReadCallback(p)
    PROVE  ChildInv'
<1>1. /\ UNCHANGED <<proc, stdin, hold, produced, piped, waiting>>
      /\ parent = "loop" /\ p \in events /\ events' = events \ {p}
    BY DEF Child!ReadCallback
<1>2. Chained(lost, got, out["cat"], hold, stdin, chunk, out["src"], produced)
    BY DEF ChildInv, BytesInv
<1>3. /\ Len(got) \in Nat /\ Len(out["cat"]) \in Nat /\ Len(hold) \in Nat /\ Len(stdin) \in Nat
      /\ Len(chunk) \in Nat /\ Len(out["src"]) \in Nat
    BY <1>2, ChainLengths
<1>4. /\ out \in [Child!Procs -> Seq(1..Bytes)] /\ parent \in {"loop", "writing", "killed"}
      /\ Len(out["src"]) <= PipeCap /\ Len(out["cat"]) <= PipeCap
      /\ Len(stdin) <= PipeCap /\ Len(hold) <= 1
      /\ io \in [Child!Procs -> {"none", "reading", "ended"}]
    BY DEF ChildInv, ChildTypes
<1>5. /\ ~piped => Len(got) + Len(out["cat"]) + Len(hold) + Len(stdin) + Len(chunk) = 0
      /\ Len(chunk) = 0
      /\ io[p] = "reading" /\ (Len(out[p]) > 0 \/ proc[p] = "exited")
    BY <1>1 DEF ChildInv, FlowInv
<1>6. PICK m \in 0..Len(out[p]) : /\ Child!Chunk(p) = SubSeq(out[p], 1, m)
                                  /\ m = 0 <=> Len(out[p]) = 0
    BY ChunkLength
<1>7. PICK b : b = SubSeq(out[p], 1, m)
    OBVIOUS
<1>8. PICK r : r = SubSeq(out[p], m + 1, Len(out[p]))
    OBVIOUS
<1>9. \E k \in Nat : Behind(Bytes, out[p], k)
  <2>1. CASE p = "cat"
    BY <1>2, <2>1, ChainLengths DEF Chained
  <2>2. CASE p = "src"
    BY <1>2, <2>2, ChainLengths DEF Chained
  <2> QED
    BY <2>1, <2>2, TwoProcs
<1>10. /\ Len(b) = m /\ Len(r) = Len(out[p]) - m /\ m \in Nat
       /\ b \in Seq(1..Bytes) /\ r \in Seq(1..Bytes)
  <2>1. PICK k \in Nat : Behind(Bytes, out[p], k)
    BY <1>9
  <2>2. Behind(Bytes, b, k) /\ Len(b) = m /\ Len(r) = Len(out[p]) - m /\ \E j \in Nat : Behind(Bytes, r, j)
    BY <1>6, <1>7, <1>8, <2>1, PipeBounds, SplitRun
  <2>3. m \in Nat
    BY <1>6
  <2> QED
    BY <2>2, <2>3 DEF Behind
<1>11. b # <<>> <=> m # 0
    BY <1>10, EmptySeq
<1>12. CASE b = <<>>
  <2>1. /\ io' = [io EXCEPT ![p] = "ended"]
        /\ UNCHANGED <<out, parent, chunk, got, lost>>
    BY <1>6, <1>7, <1>12 DEF Child!ReadCallback
  <2>2. Len(out[p]) = 0 /\ proc[p] = "exited"
    BY <1>3, <1>5, <1>6, <1>11, <1>12
  <2>3. BytesInv'
    BY <1>1, <1>2, <2>1 DEF BytesInv
  <2>4. ChildTypes'
    <3>1. io' \in [Child!Procs -> {"none", "reading", "ended"}] /\ ChildTypes
        BY <1>4, <2>1 DEF ChildInv
    <3>2. events' \subseteq Child!Procs
        BY <1>1, <3>1 DEF ChildTypes
    <3> QED
        BY <1>1, <2>1, <3>1, <3>2 DEF ChildTypes
  <2>5. ASSUME NEW q \in Child!Procs
        PROVE  /\ q \in events' => io'[q] = "reading" /\ (Len(out'[q]) > 0 \/ proc'[q] = "exited")
               /\ io'[q] = "ended" => Len(out'[q]) = 0 /\ proc'[q] = "exited"
               /\ proc'[q] = "none" => io'[q] = "none"
    <3>1. CASE q = p
        BY <1>1, <1>4, <2>1, <2>2, <3>1
    <3>2. CASE q # p
      <4>1. io'[q] = io[q] /\ (q \in events' => q \in events)
        BY <1>1, <1>4, <2>1, <3>2
      <4> QED
        BY <1>1, <2>1, <4>1 DEF ChildInv, FlowInv
    <3> QED
        BY <3>1, <3>2
  <2>6. FlowInv'
    BY <1>1, <2>1, <2>5 DEF ChildInv, FlowInv
  <2> QED
    BY <2>3, <2>4, <2>6 DEF ChildInv
<1>13. CASE b # <<>>
  <2>1. /\ out' = [out EXCEPT ![p] = r] /\ UNCHANGED io
        /\ \/ p = "cat" /\ got' = got \o b /\ UNCHANGED <<parent, chunk, lost>>
           \/ p = "src" /\ piped /\ parent' = "writing" /\ chunk' = b /\ UNCHANGED <<got, lost>>
           \/ p = "src" /\ ~piped /\ lost' = lost \o b /\ UNCHANGED <<parent, chunk, got>>
    <3>1. SubSeq(out[p], Len(b) + 1, Len(out[p])) = r
        BY <1>8, <1>10
    <3> QED
        BY <1>4, <1>6, <1>7, <1>13, <3>1 DEF Child!ReadCallback
  <2>2. out' \in [Child!Procs -> Seq(1..Bytes)] /\ out'[p] = r
    BY <1>4, <1>10, <2>1
  <2>3. ASSUME NEW q \in Child!Procs
        PROVE  /\ Len(out'[q]) <= PipeCap
               /\ q \in events' => Len(out'[q]) >= Len(out[q])
               /\ proc[q] = "exited" => Len(out'[q]) <= Len(out[q])
    <3>1. Len(out[q]) \in Nat /\ Len(out[q]) <= PipeCap
        BY <1>3, <1>4, TwoProcs
    <3>2. CASE q = p
        BY <1>1, <1>10, <2>2, <3>1, <3>2, PipeBounds
    <3>3. CASE q # p
      <4>1. out'[q] = out[q]
        BY <1>4, <2>1, <3>3
      <4> QED
        BY <3>1, <4>1
    <3> QED
        BY <3>2, <3>3
  <2>4. events' \subseteq events
    BY <1>1
  <2>5. CASE p = "cat"
    <3>1. got' = got \o b /\ UNCHANGED <<parent, chunk, lost>>
        BY <2>1, <2>5
    <3>2. Chained(lost, got \o b, r, hold, stdin, chunk, out["src"], produced)
        BY <1>2, <1>7, <1>8, <2>5, CatIsRead
    <3>3. out'["cat"] = r /\ out'["src"] = out["src"]
        BY <1>4, <2>1, <2>5, TwoProcs
    <3>4. BytesInv'
        BY <1>1, <3>1, <3>2, <3>3 DEF BytesInv
    <3>5. piped
        BY <1>3, <1>5, <1>6, <1>11, <1>13, <2>5
    <3> QED
        BY <1>1, <1>4, <1>5, <2>1, <2>2, <2>3, <2>4, <3>1, <3>4, <3>5, BytesMove
  <2>6. CASE p = "src" /\ piped
    <3>1. parent' = "writing" /\ chunk' = b /\ UNCHANGED <<got, lost>>
        BY <2>1, <2>6
    <3>2. Chained(lost, got, out["cat"], hold, stdin, b, r, produced)
        BY <1>2, <1>5, <1>7, <1>8, <2>6, SrcIsRead
    <3>3. out'["src"] = r /\ out'["cat"] = out["cat"]
        BY <1>4, <2>1, <2>6, TwoProcs
    <3>4. BytesInv'
        BY <1>1, <3>1, <3>2, <3>3 DEF BytesInv
    <3>5. Len(chunk') > 0
        BY <1>10, <1>11, <1>13, <3>1
    <3> QED
        BY <1>1, <1>4, <2>1, <2>2, <2>3, <2>4, <2>6, <3>1, <3>4, <3>5, BytesMove
  <2>7. CASE p = "src" /\ ~piped
    <3>1. lost' = lost \o b /\ UNCHANGED <<parent, chunk, got>>
        BY <2>1, <2>7
    <3>2. Chained(lost \o b, got, out["cat"], hold, stdin, chunk, r, produced)
        BY <1>2, <1>5, <1>7, <1>8, <2>7, SrcIsLost
    <3>3. out'["src"] = r /\ out'["cat"] = out["cat"]
        BY <1>4, <2>1, <2>7, TwoProcs
    <3>4. BytesInv'
        BY <1>1, <3>1, <3>2, <3>3 DEF BytesInv
    <3>5. ~piped => Len(got') + Len(out'["cat"]) + Len(hold') + Len(stdin') + Len(chunk') = 0
        BY <1>1, <1>5, <3>1, <3>3
    <3> QED
        BY <1>1, <1>4, <1>5, <2>1, <2>2, <2>3, <2>4, <3>1, <3>4, <3>5, BytesMove
  <2> QED
    BY <2>5, <2>6, <2>7, TwoProcs
<1> QED
    BY <1>12, <1>13

\* Every step of the children and of the parent keeps the invariant.
LEMMA ChildNext ==
    ASSUME ChildInv, [Child!Next]_(Child!vars)
    PROVE  ChildInv'
<1>1. "src" \in Child!Procs
    BY TwoProcs
<1>2. ASSUME NEW p \in Child!Procs, Child!Spawn(p) \/ Child!Exit(p) \/ Child!WaitDone(p)
      PROVE  ChildInv'
    BY <1>2, NoByteMoves
<1>3. CASE Child!Pipe \/ Child!Poll
    BY <1>1, <1>3, NoByteMoves
<1>4. ASSUME NEW p \in Child!Procs, Child!ReadCallback(p)
      PROVE  ChildInv'
    BY <1>4, ReadCallbackStep
<1>5. CASE Child!SrcWrites
    BY <1>5, SrcWritesStep
<1>6. CASE Child!CatCopies
    BY <1>6, CatCopiesStep
<1>7. CASE Child!Write
    BY <1>7, ParentWriteStep
<1>8. CASE UNCHANGED Child!vars
  <2>1. /\ UNCHANGED <<proc, out, stdin, hold, produced, io, events, parent, chunk, piped>>
        /\ UNCHANGED <<waiting, got, lost>>
    BY <1>8 DEF Child!vars
  <2>2. ChildTypes' /\ FlowInv'
    BY <2>1 DEF ChildInv, ChildTypes, FlowInv
  <2>3. BytesInv'
    BY <2>1 DEF ChildInv, BytesInv
  <2> QED
    BY <2>2, <2>3 DEF ChildInv
<1> QED
    BY <1>2, <1>3, <1>4, <1>5, <1>6, <1>7, <1>8 DEF Child!Next

\* The runs of bytes, put together, are the bytes that were written.
LEMMA WholePipeline ==
    ASSUME ChildInv
    PROVE  Child!PipelineKeepsBytes
<1>1. Chained(lost, got, out["cat"], hold, stdin, chunk, out["src"], produced)
    BY DEF ChildInv, BytesInv
<1>2. SUFFICES ASSUME NEW a, NEW b, NEW c, NEW d, NEW e, NEW f, NEW g, NEW n,
                      Chained(a, b, c, d, e, f, g, n)
               PROVE  a \o b \o c \o d \o e \o f \o g = [i \in 1..n |-> i]
    BY <1>1, ZenonT(30) DEF Child!PipelineKeepsBytes
<1>3. /\ Len(a) \in Nat /\ Len(b) \in Nat /\ Len(c) \in Nat /\ Len(d) \in Nat
      /\ Len(e) \in Nat /\ Len(f) \in Nat /\ Len(g) \in Nat
    BY <1>2, ChainLengths
<1>4. PICK u1 : u1 = a \o b
    OBVIOUS
<1>5. PICK u2 : u2 = u1 \o c
    OBVIOUS
<1>6. PICK u3 : u3 = u2 \o d
    OBVIOUS
<1>7. PICK u4 : u4 = u3 \o e
    OBVIOUS
<1>8. PICK u5 : u5 = u4 \o f
    OBVIOUS
<1>9. PICK u6 : u6 = u5 \o g
    OBVIOUS
<1>10. 0 \in Nat /\ \A s : \A k \in Nat : Behind(Bytes, s, k) => Behind(Bytes, s, 0 + k)
    OBVIOUS
<1>11. Behind(Bytes, u1, 0) /\ Len(u1) = Len(a) + Len(b)
    BY <1>3, <1>4, <1>2, <1>10, JoinPipes DEF Chained
<1>12. Behind(Bytes, u2, 0) /\ Len(u2) = Len(a) + Len(b) + Len(c)
  <2>1. Behind(Bytes, c, 0 + Len(u1))
    BY <1>2, <1>3, <1>10, <1>11, ChainLengths DEF Chained
  <2> QED
    BY <1>5, <1>10, <1>11, <2>1, JoinPipes
<1>13. Behind(Bytes, u3, 0) /\ Len(u3) = Len(a) + Len(b) + Len(c) + Len(d)
  <2>1. Behind(Bytes, d, 0 + Len(u2))
    BY <1>2, <1>3, <1>10, <1>12, ChainLengths DEF Chained
  <2> QED
    BY <1>6, <1>10, <1>12, <2>1, JoinPipes
<1>14. Behind(Bytes, u4, 0) /\ Len(u4) = Len(a) + Len(b) + Len(c) + Len(d) + Len(e)
  <2>1. Behind(Bytes, e, 0 + Len(u3))
    BY <1>2, <1>3, <1>10, <1>13, ChainLengths DEF Chained
  <2> QED
    BY <1>7, <1>10, <1>13, <2>1, JoinPipes
<1>15. Behind(Bytes, u5, 0) /\ Len(u5) = Len(a) + Len(b) + Len(c) + Len(d) + Len(e) + Len(f)
  <2>1. Behind(Bytes, f, 0 + Len(u4))
    BY <1>2, <1>3, <1>10, <1>14, ChainLengths DEF Chained
  <2> QED
    BY <1>8, <1>10, <1>14, <2>1, JoinPipes
<1>16. Behind(Bytes, u6, 0) /\ Len(u6) = n
  <2>1. Behind(Bytes, g, 0 + Len(u5)) /\ n = Len(u5) + Len(g)
    BY <1>2, <1>3, <1>10, <1>15, ChainLengths DEF Chained
  <2>2. Behind(Bytes, u6, 0) /\ Len(u6) = Len(u5) + Len(g)
    BY <1>9, <1>10, <1>15, <2>1, JoinPipes
  <2> QED
    BY <2>1, <2>2
<1>17. u6 = [i \in 1..Len(u6) |-> i]
  <2>1. u6 \in Seq(1..Bytes) /\ \A i \in 1..Len(u6) : u6[i] = i
    BY <1>16 DEF Behind
  <2> QED
    BY <2>1, PipeBounds, Counting
<1> QED
    BY <1>4, <1>5, <1>6, <1>7, <1>8, <1>9, <1>16, <1>17

\* child_process_module.c with the streams of src/js: through two pipes, two
\* processes and the blocking write of pipe(), for any number of bytes and any
\* capacity, no byte is lost, doubled or overtaken, apart from those read before
\* pipe() was called, and 'end' is emitted behind the last byte.
THEOREM PipelineStaysWhole == Child!Spec => []PipelineWhole
<1>1. Child!Init => ChildInv
    BY ChildInit
<1>2. ChildInv /\ [Child!Next]_(Child!vars) => ChildInv'
    BY ChildNext
<1>3. ASSUME ChildInv PROVE PipelineWhole
  <2>1. Child!PipelineKeepsBytes
    BY <1>3, WholePipeline
  <2>2. Child!TypeOK
    BY <1>3, TwoProcs DEF ChildInv, ChildTypes, Child!TypeOK
  <2>3. Child!EndAfterData
    <3>1. ASSUME NEW p \in Child!Procs, io[p] = "ended" PROVE out[p] = <<>> /\ proc[p] = "exited"
      <4>1. Len(out[p]) = 0 /\ proc[p] = "exited" /\ out[p] \in Seq(1..Bytes)
        BY <1>3, <3>1 DEF ChildInv, FlowInv, ChildTypes
      <4> QED
        BY <4>1, EmptySeq
    <3> QED
        BY <3>1 DEF Child!EndAfterData
  <2> QED
    BY <2>1, <2>2, <2>3 DEF PipelineWhole, Child!Safe
<1> QED
    BY <1>1, <1>2, <1>3, PTL DEF Child!Spec
=============================================================================

-------------------------------- MODULE Net --------------------------------
(***************************************************************************)
(* src/src/net_module.c: TCP sockets and a server.  One tick of el_run is  *)
(* Poll, which notes the revents of every listed handle, and then one      *)
(* callback per handle that has some (EventLoop.tla has the walk over the  *)
(* list).  JavaScript runs inside the callbacks and between them, and may  *)
(* call any method of any socket.  The bytes a socket is asked to write    *)
(* are numbered 1, 2, ...                                                  *)
(***************************************************************************)
EXTENDS Integers, Sequences

CONSTANTS
    Clients,    \* sockets net.connect() can make
    Accepted,   \* sockets the server can accept
    MaxHandles, \* NET_HANDLE_TABLE_MAX
    Bytes,      \* bound: bytes written to a socket
    Room        \* bytes the kernel takes before write() says EAGAIN

Connections == Clients \cup Accepted

NetAssumption == {MaxHandles, Bytes, Room} \subseteq Nat

VARIABLES
    sk,         \* the SocketHandles, with the kernel's end of each
    server,     \* "none", "created", "listening" or "closed"
    handles,    \* s_handle_count
    ready,      \* revents of this tick not yet delivered
    cb,         \* the native callback on the C stack
    process     \* "running", "exited" or "killed" (SIGPIPE)

vars == <<sk, server, handles, ready, cb, process>>

Events == {"IN", "OUT", "ERR"}
Idle == [s |-> "none", at |-> "idle", in |-> FALSE]

\* link, room, inbox, peerFin and fin are the kernel's; written, lost, stalled
\* and closes are history: bytes accepted by write(), a flush failed, on_connect
\* took the POLLOUT of buffered bytes, calls of on_close.
Unused == [fd |-> "unused", link |-> "connecting", onConnect |-> FALSE,
           events |-> {}, listed |-> FALSE, ref |-> TRUE, bound |-> 0,
           buf |-> <<>>, endPending |-> FALSE,
           sent |-> <<>>, room |-> Room, inbox |-> 0, peerFin |-> FALSE,
           fin |-> FALSE, written |-> 0, lost |-> FALSE, stalled |-> FALSE,
           destroyed |-> FALSE, closes |-> 0]

Init ==
    /\ sk = [s \in Connections |-> Unused]
    /\ server = "none"
    /\ handles = 0
    /\ ready = [s \in Connections |-> {}]
    /\ cb = Idle
    /\ process = "running"

TypeOK ==
    /\ \A s \in Connections :
          /\ sk[s].fd \in {"unused", "open", "closed"}
          /\ sk[s].link \in {"connecting", "up", "reset", "aborted"}
          /\ sk[s].events \subseteq {"IN", "OUT"}
          /\ sk[s].bound \in 0..6
          /\ sk[s].written \in 0..Bytes
          /\ sk[s].room \in 0..Room
          /\ Len(sk[s].buf) <= Bytes
          /\ ready[s] \subseteq Events
    /\ handles \in 0..MaxHandles
    /\ cb.at \in {"idle", "read", "connect", "data", "end", "close", "accept"}
    /\ process \in {"running", "exited", "killed"}

-----------------------------------------------------------------------------
(* The handle table *)

\* register_handle for n bound methods: the last ones get -1 when it is full.
Bound(n) == IF handles + n <= MaxHandles THEN n ELSE MaxHandles - handles

Register(n) == handles' = handles + Bound(n)

-----------------------------------------------------------------------------
(* Kernel *)

\* write() of len bytes: the numbers of bytes it can take, -1 for an error, -2
\* for SIGPIPE, which nothing in the runtime ignores.
WriteResults(k, len) ==
    IF k.fd = "closed" THEN {-1}
    ELSE CASE k.link = "connecting"  -> {0}
           [] k.link = "reset"       -> {-1, -2}
           [] k.link = "aborted"     -> {-2}
           [] k.link = "up" /\ k.fin -> {-2}
           [] OTHER                  -> {IF len <= k.room THEN len ELSE k.room}

\* What poll() reports for a socket, of the events asked for.
Revents(k) ==
    LET in  == k.link = "reset" \/ k.inbox > 0 \/ k.peerFin
        out == k.link \in {"reset", "aborted"} \/ (k.link = "up" /\ k.room > 0)
    IN  (IF in THEN {"IN"} ELSE {}) \cup (IF out THEN {"OUT"} ELSE {})

Polled(k) ==
    IF ~k.listed THEN {}
    ELSE (Revents(k) \cap k.events) \cup
         (IF k.link \in {"reset", "aborted"} THEN {"ERR"} ELSE {})

\* shutdown(SHUT_WR); before the connection is made it aborts the attempt.
Shutdown(k) ==
    IF k.link = "connecting" THEN [k EXCEPT !.link = "aborted"]
                             ELSE [k EXCEPT !.fin = TRUE]

\* A step that only changes socket s.
Change(s, k) ==
    /\ process = "running" /\ sk[s].fd # "unused"
    /\ sk' = [sk EXCEPT ![s] = k]
    /\ UNCHANGED <<server, handles, ready, cb, process>>

Establish(s) ==
    /\ sk[s].fd = "open" /\ sk[s].link = "connecting"
    /\ \E l \in {"up", "reset"} : Change(s, [sk[s] EXCEPT !.link = l])

PeerReads(s) ==
    /\ sk[s].fd = "open" /\ sk[s].link = "up" /\ sk[s].room < Room
    /\ Change(s, [sk[s] EXCEPT !.room = Room])

PeerActs(s) ==
    /\ sk[s].fd = "open" /\ sk[s].link = "up" /\ ~sk[s].peerFin
    /\ \/ sk[s].inbox = 0 /\ Change(s, [sk[s] EXCEPT !.inbox = 1])
       \/ Change(s, [sk[s] EXCEPT !.peerFin = TRUE])
       \/ Change(s, [sk[s] EXCEPT !.link = "reset"])

-----------------------------------------------------------------------------
(* Methods *)

\* net.connect(port, host, onConnect): a socket() that fails throws and
\* changes nothing.
Connect(s, onConnect) ==
    /\ process = "running" /\ s \in Clients /\ sk[s].fd = "unused"
    /\ sk' = [sk EXCEPT ![s] =
                [Unused EXCEPT !.fd = "open", !.onConnect = onConnect,
                               !.events = {"IN", "OUT"}, !.listed = TRUE,
                               !.bound = Bound(4)]]
    /\ Register(4)
    /\ UNCHANGED <<server, ready, cb, process>>

\* net.createServer and server.listen; listen() is called once.
CreateServer ==
    /\ process = "running" /\ server = "none"
    /\ server' = "created"
    /\ Register(3)
    /\ UNCHANGED <<sk, ready, cb, process>>

Listen ==
    /\ process = "running" /\ server = "created"
    /\ server' = "listening"
    /\ UNCHANGED <<sk, handles, ready, cb, process>>

CloseServer ==
    /\ process = "running" /\ server \in {"created", "listening"}
    /\ server' = "closed"
    /\ UNCHANGED <<sk, handles, ready, cb, process>>

\* server_accept_cb, js_make_socket_object: the callback runs on_connection.
Accept(s) ==
    /\ process = "running" /\ server = "listening" /\ cb = Idle
    /\ s \in Accepted /\ sk[s].fd = "unused"
    /\ sk' = [sk EXCEPT ![s] =
                [Unused EXCEPT !.fd = "open", !.link = "up", !.events = {"IN"},
                               !.listed = TRUE, !.bound = Bound(6)]]
    /\ Register(6)
    /\ cb' = [s |-> s, at |-> "accept", in |-> FALSE]
    /\ UNCHANGED <<server, ready, process>>

\* A method of an open socket, the i-th of the object: env_to_ptr finds the
\* handle if it was registered.
Method(s, i, k) == sk[s].bound >= i /\ sk[s].fd = "open" /\ Change(s, k)

\* socket.on('connect', f), at any time.  The other handlers only run
\* JavaScript: a missing one is one that does nothing.
OnConnect(s) == Method(s, 1, [sk[s] EXCEPT !.onConnect = TRUE])

\* socket.write(): straight to the kernel unless something is buffered.
Write(s, len) ==
    LET k     == sk[s]
        bytes == [i \in 1..len |-> k.written + i]
    IN  /\ k.written + len <= Bytes
        /\ \/ /\ k.buf # <<>>
              /\ Method(s, 2, [k EXCEPT !.buf = @ \o bytes, !.written = @ + len,
                                        !.events = @ \cup {"OUT"}])
           \/ /\ k.buf = <<>> /\ k.bound >= 2 /\ k.fd = "open"
              /\ \E n \in WriteResults(k, len) :
                    \/ /\ n = -2 /\ process = "running" /\ process' = "killed"
                       /\ UNCHANGED <<sk, server, handles, ready, cb>>
                    \/ /\ n >= 0
                       /\ Method(s, 2, [k EXCEPT
                             !.sent = @ \o SubSeq(bytes, 1, n), !.room = @ - n,
                             !.buf = SubSeq(bytes, n + 1, len), !.written = @ + len,
                             !.events = IF n < len THEN @ \cup {"OUT"} ELSE @])

\* Mutant: end() does not look at the buffer.
EndAtOnce(s) == Method(s, 3, Shutdown(sk[s]))

\* socket.end().
End(s) ==
    Method(s, 3, IF sk[s].buf # <<>> THEN [sk[s] EXCEPT !.endPending = TRUE]
                                     ELSE Shutdown(sk[s]))

\* socket.destroy().
Destroy(s) ==
    Method(s, 4, [sk[s] EXCEPT !.listed = FALSE, !.fd = "closed",
                               !.destroyed = TRUE])

\* socket.unref(), socket.ref(): only sockets the server accepted have them.
SetRef(s, b) == Method(s, IF b THEN 6 ELSE 5, [sk[s] EXCEPT !.ref = b])

-----------------------------------------------------------------------------
(* The event loop and socket_io_cb *)

Poll ==
    /\ process = "running" /\ cb = Idle
    /\ \A s \in Connections : ready[s] = {}
    /\ ready' = [s \in Connections |-> Polled(sk[s])]
    /\ ready' # ready
    /\ UNCHANGED <<sk, server, handles, cb, process>>

\* el_run returns: no referenced handle is left.
LoopExit ==
    /\ process = "running" /\ cb = Idle
    /\ server # "listening"
    /\ \A s \in Connections : ~(sk[s].listed /\ sk[s].ref)
    /\ \E s \in Connections : sk[s].fd # "unused"
    /\ process' = "exited"
    /\ UNCHANGED <<sk, server, handles, ready, cb>>

Goto(s, at, in) == cb' = [s |-> s, at |-> at, in |-> in]
ReadNext(s, revents) == IF "IN" \in revents THEN Goto(s, "read", FALSE)
                                            ELSE cb' = Idle

\* socket_flush_write when the kernel takes n bytes of the buffer; an error
\* (n = -1) drops the buffer.
Flush(s, n) ==
    LET k    == sk[s]
        rest == IF n = -1 THEN <<>> ELSE SubSeq(k.buf, n + 1, Len(k.buf))
        took == IF n = -1 THEN <<>> ELSE SubSeq(k.buf, 1, n)
    IN  [k EXCEPT !.sent = @ \o took, !.room = @ - Len(took), !.buf = rest,
                  !.lost = @ \/ n = -1,
                  !.events = IF rest # <<>> THEN @ \cup {"OUT"} ELSE @ \ {"OUT"},
                  !.endPending = @ /\ (rest # <<>> \/ k.fd = "closed"),
                  !.fin = @ \/ (k.endPending /\ rest = <<>> /\ k.fd = "open")]

\* socket_io_cb up to the first call of JavaScript, or to its read().  A handle
\* destroyed since poll() is called all the same if the walk has kept it as the
\* next one; the order of the list is left open.
Callback(s) ==
    LET k == sk[s]
        r == ready[s]
    IN  /\ process = "running" /\ cb = Idle
        /\ r # {}
        /\ ready' = [ready EXCEPT ![s] = {}]
        /\ \/ /\ r = {"ERR"}
              /\ sk' = [sk EXCEPT ![s].fd = "closed"]
              /\ Goto(s, "end", FALSE)
              /\ UNCHANGED process
           \/ /\ "OUT" \in r /\ k.onConnect
              /\ sk' = [sk EXCEPT ![s].onConnect = FALSE, ![s].events = {"IN"},
                                  ![s].stalled = k.buf # <<>>]
              /\ Goto(s, "connect", "IN" \in r)
              /\ UNCHANGED process
           \/ /\ "OUT" \in r /\ ~k.onConnect /\ k.buf # <<>>
              /\ \E n \in WriteResults(k, Len(k.buf)) :
                    \/ n = -2 /\ process' = "killed" /\ UNCHANGED <<sk, cb>>
                    \/ /\ n >= -1
                       /\ sk' = [sk EXCEPT ![s] = Flush(s, n)]
                       /\ ReadNext(s, r)
                       /\ UNCHANGED process
           \/ /\ "OUT" \in r /\ ~k.onConnect /\ k.buf = <<>>
              /\ sk' = [sk EXCEPT ![s].events = @ \ {"OUT"}]
              /\ ReadNext(s, r)
              /\ UNCHANGED process
           \/ /\ "OUT" \notin r /\ "IN" \in r
              /\ Goto(s, "read", FALSE)
              /\ UNCHANGED <<sk, process>>
        /\ UNCHANGED <<server, handles>>

\* A handle removed since poll() that the walk does not reach any more.
SkipRemoved(s) ==
    /\ cb = Idle /\ ~sk[s].listed /\ ready[s] # {}
    /\ ready' = [ready EXCEPT ![s] = {}]
    /\ UNCHANGED <<sk, server, handles, cb, process>>

\* The POLLIN half of socket_io_cb.  After destroy() the descriptor is -1 and
\* the read fails.
Read ==
    LET s == cb.s
        k == sk[s]
    IN  /\ process = "running" /\ cb.at = "read"
        /\ \/ /\ k.fd = "open" /\ k.link = "up" /\ k.inbox > 0
              /\ sk' = [sk EXCEPT ![s].inbox = @ - 1]
              /\ Goto(s, "data", FALSE)
           \/ /\ k.fd = "open" /\ k.link = "up" /\ k.inbox = 0 /\ ~k.peerFin
              /\ cb' = Idle
              /\ UNCHANGED sk
           \/ /\ \/ k.fd = "closed" \/ k.link \in {"reset", "aborted"}
                 \/ k.inbox = 0 /\ k.peerFin
              /\ sk' = [sk EXCEPT ![s].fd = "closed"]
              /\ Goto(s, "end", FALSE)
        /\ UNCHANGED <<server, handles, ready, process>>

\* A JavaScript callback returns.
CallbackReturn ==
    LET s == cb.s
    IN  /\ process = "running"
        /\ \/ /\ cb.at \in {"data", "accept"}
              /\ cb' = Idle
              /\ UNCHANGED sk
           \/ /\ cb.at = "connect"
              /\ IF cb.in THEN Goto(s, "read", FALSE) ELSE cb' = Idle
              /\ UNCHANGED sk
           \/ /\ cb.at = "end"
              /\ Goto(s, "close", FALSE)
              /\ sk' = [sk EXCEPT ![s].closes = @ + 1]
           \/ /\ cb.at = "close"
              /\ cb' = Idle
              /\ sk' = [sk EXCEPT ![s].listed = FALSE]
        /\ UNCHANGED <<server, handles, ready, process>>

Loop(s) == Callback(s) \/ SkipRemoved(s)
System == Poll \/ Read \/ CallbackReturn

Next ==
    \/ System \/ LoopExit
    \/ CreateServer \/ Listen \/ CloseServer
    \/ \E s \in Connections :
          \/ Loop(s)
          \/ Establish(s) \/ PeerReads(s) \/ PeerActs(s)
          \/ Accept(s) \/ OnConnect(s) \/ End(s) \/ Destroy(s)
          \/ \E b \in BOOLEAN : Connect(s, b) \/ SetRef(s, b)
          \/ \E len \in 1..Bytes : Write(s, len)

\* The loop runs, callbacks return, the peer reads and answers connects.
Fairness ==
    /\ WF_vars(System)
    /\ \A s \in Connections : WF_vars(Loop(s)) /\ WF_vars(PeerReads(s) \/ Establish(s))

Spec == Init /\ [][Next]_vars /\ Fairness

-----------------------------------------------------------------------------
(* Properties *)

\* The bytes handed to the kernel and the buffered ones are the bytes given
\* to write(), in order and each once, unless a flush failed.
BytesInOrder ==
    \A s \in Connections :
        LET k == sk[s]
        IN  /\ Len(k.sent) <= k.written /\ k.sent = [i \in 1..Len(k.sent) |-> i]
            /\ ~k.lost => k.sent \o k.buf = [i \in 1..k.written |-> i]

\* end() closes the sending direction only behind the buffered bytes.
FinAfterData ==
    \A s \in Connections : sk[s].fin => sk[s].buf = <<>>

\* Buffered bytes of a socket in the loop are watched for: without POLLOUT
\* they would wait for ever.  The exception is the code's: on_connect takes
\* the POLLOUT of bytes that were buffered while it was set.
BufferedIsWatched ==
    \A s \in Connections :
        sk[s].listed /\ sk[s].fd = "open" /\ sk[s].buf # <<>> =>
            "OUT" \in sk[s].events \/ sk[s].stalled

\* 'close' is emitted at most once, with the descriptor closed, and every
\* callback still to come belongs to a handle the collector finds in the
\* list, unless destroy() was called: inside on_connect or on_data, or in the
\* callback before when the walk had already kept this handle as the next one.
ClosedOnce ==
    /\ \A s \in Connections : sk[s].closes <= 1 /\ (sk[s].closes = 1 => sk[s].fd = "closed")
    /\ cb.at = "end" => sk[cb.s].listed \/ sk[cb.s].destroyed

Safe == BytesInOrder /\ FinAfterData /\ BufferedIsWatched /\ ClosedOnce

=============================================================================

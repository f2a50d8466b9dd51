----------------------------- MODULE WebSocket -----------------------------
(***************************************************************************)
(* src/src/websocket_module.c: one WebSocket client.  The bytes the server *)
(* sends are halves of frames, so that a read may end inside one; what the *)
(* client writes is a sequence of frames.  JavaScript runs in onopen,      *)
(* onmessage, onerror, onclose and between callbacks.                      *)
(***************************************************************************)
EXTENDS Integers, Sequences, SequencesExt

CONSTANTS
    ServerFrames,   \* bound: frames the server sends after its answer
    Messages,       \* bound: messages the client sends
    Room            \* frames the kernel takes before send() says EAGAIN

WebSocketAssumption == {ServerFrames, Messages, Room} \subseteq Nat

VARIABLES
    ws,         \* the WsHandle
    wire,       \* halves of frames on their way to the client, and their end
    written,    \* frames handed to the kernel
    room,       \* frames it still takes
    pc,         \* where ws_io_cb is: JavaScript runs at "on..." and "idle"
    calls       \* history: the events delivered

vars == <<ws, wire, written, room, pc, calls>>

Kinds == {"text", "ping", "cont", "close"}
Answers == {"101", "403"}

\* A frame, or an event: its kind, and for a message its number.
F(kind, n) == [kind |-> kind, n |-> n]
Halves(f) == <<[frame |-> f, half |-> 1], [frame |-> f, half |-> 2]>>

\* sent and received number the messages; roots: the handle is in ws_roots.
Init ==
    /\ ws = [state |-> "none", tls |-> FALSE, shaken |-> FALSE, listed |-> FALSE,
             roots |-> FALSE, events |-> {}, rbuf |-> <<>>, wbuf |-> <<>>, sent |-> 0]
    /\ wire = [data |-> <<>>, texts |-> 0, frames |-> 0, answered |-> FALSE,
               end |-> "open"]
    /\ written = <<>> /\ room = Room
    /\ pc = "idle"
    /\ calls = <<>>

TypeOK ==
    /\ ws.state \in {"none", "connecting", "open", "closing", "closed"}
    /\ ws.events \subseteq {"IN", "OUT"}
    /\ ws.sent \in 0..Messages
    /\ room \in 0..Room
    /\ pc \in {"idle", "read", "onopen", "onmessage", "onerror", "onclose"}

-----------------------------------------------------------------------------
(* The server and the network *)

\* The answer to the request, then frames; text frames are numbered.
ServerSends(f) ==
    /\ ws.state # "none" /\ wire.end = "open"
    /\ IF wire.answered THEN f \in Kinds /\ wire.frames < ServerFrames
                        ELSE f \in Answers /\ written # <<>>
    /\ LET n == IF f = "text" THEN wire.texts + 1 ELSE wire.texts
       IN  wire' = [wire EXCEPT !.data = @ \o Halves(F(f, n)), !.answered = TRUE,
                                !.texts = n,
                                !.frames = IF wire.answered THEN @ + 1 ELSE @]
    /\ UNCHANGED <<ws, written, room, pc, calls>>

ServerEnds ==
    /\ ws.state # "none" /\ wire.end = "open"
    /\ \E e \in {"fin", "reset"} : wire' = [wire EXCEPT !.end = e]
    /\ UNCHANGED <<ws, written, room, pc, calls>>

ServerReads ==
    /\ room < Room /\ wire.end # "reset"
    /\ room' = Room
    /\ UNCHANGED <<ws, wire, written, pc, calls>>

\* poll() on the descriptor.
Revents ==
    ws.events \cap
        ((IF wire.data # <<>> \/ wire.end # "open" THEN {"IN"} ELSE {}) \cup
         (IF room > 0 \/ wire.end = "reset" THEN {"OUT"} ELSE {}))

-----------------------------------------------------------------------------
(* Methods *)

InJS == pc # "read"

\* ws_append_write.
AppendWrite(w, f) == [w EXCEPT !.wbuf = Append(@, f), !.events = @ \cup {"OUT"}]

\* js_websocket_construct; when the connection cannot be set up ws_close frees
\* the handle again and nothing remains.
Construct(tls) ==
    /\ ws.state = "none"
    /\ ws' = AppendWrite([ws EXCEPT !.state = "connecting", !.tls = tls,
                                    !.listed = TRUE, !.roots = TRUE], F("request", 0))
    /\ UNCHANGED <<wire, written, room, pc, calls>>

\* ws.send(): ignored unless the handle is found and open.
Send ==
    /\ InJS /\ ws.roots /\ ws.state = "open" /\ ws.sent < Messages
    /\ ws' = AppendWrite([ws EXCEPT !.sent = @ + 1], F("text", ws.sent + 1))
    /\ UNCHANGED <<wire, written, room, pc, calls>>

\* Mutant: close() leaves the state alone.
CloseOpen ==
    /\ InJS /\ ws.roots /\ ws.state # "closed"
    /\ F("close", 0) \notin Range(written \o ws.wbuf)
    /\ ws' = AppendWrite(ws, F("close", 0))
    /\ UNCHANGED <<wire, written, room, pc, calls>>

\* ws.close().  A second call before the flush appends a second close frame;
\* the bound is two.
Close ==
    /\ InJS /\ ws.roots /\ ws.state # "closed"
    /\ Len(SelectSeq(written \o ws.wbuf, LAMBDA f : f.kind = "close")) < 2
    /\ ws' = [AppendWrite(ws, F("close", 0)) EXCEPT !.state = "closing"]
    /\ UNCHANGED <<wire, written, room, pc, calls>>

-----------------------------------------------------------------------------
(* ws_io_cb *)

Call(kind, n) == calls' = Append(calls, F(kind, n))

\* ws_close up to onclose, from a state in which w is the handle.
WsClose(w) ==
    /\ ws' = [w EXCEPT !.state = "closed", !.listed = FALSE]
    /\ Call("close", 0) /\ pc' = "onclose"

\* ws_fail up to onerror.
WsFail == Call("error", 0) /\ pc' = "onerror" /\ UNCHANGED ws

\* mbedtls_ssl_handshake: done, wants to read or write, or fails.  The
\* server's part of it is not in wire: it may come at any time, or never.
TlsHandshake ==
    /\ pc = "idle" /\ ws.listed /\ ws.tls /\ ~ws.shaken
    /\ "IN" \in ws.events \/ "OUT" \in Revents
    /\ \/ /\ \E e \in {"IN", "OUT"}, done \in BOOLEAN :
                ws' = [ws EXCEPT !.shaken = done,
                                 !.events = IF done THEN {"OUT"} ELSE {e}]
          /\ UNCHANGED <<pc, calls>>
       \/ WsFail
    /\ UNCHANGED <<wire, written, room>>

\* The POLLOUT half: write until the buffer is empty or the kernel is full.
Flush ==
    LET n == IF Len(ws.wbuf) <= room THEN Len(ws.wbuf) ELSE room
        w == [ws EXCEPT !.wbuf = SubSeq(@, n + 1, Len(@))]
    IN  /\ pc = "idle" /\ ws.listed /\ "OUT" \in Revents
        /\ ws.tls => ws.shaken
        /\ \/ wire.end = "reset" /\ ws.wbuf # <<>> /\ WsFail /\ UNCHANGED <<written, room>>
           \/ /\ wire.end # "reset" \/ ws.wbuf = <<>>
              /\ written' = written \o SubSeq(ws.wbuf, 1, n)
              /\ room' = room - n
              /\ \/ w.wbuf # <<>> /\ ws' = w /\ UNCHANGED <<pc, calls>>
                 \/ w.wbuf = <<>> /\ ws.state = "closing" /\ WsClose(w)
                 \/ /\ w.wbuf = <<>> /\ ws.state # "closing"
                    /\ ws' = [w EXCEPT !.events = {"IN"}]
                    /\ pc' = IF "IN" \in Revents THEN "read" ELSE "idle"
                    /\ UNCHANGED calls
        /\ UNCHANGED wire

\* ws_parse_frames: drop frames up to the first complete text or close frame.
\* Result: the rest of the buffer, the pongs to send, and the frame found.
ParseFrames(buf) ==
    LET whole == {i \in 1..(Len(buf) \div 2) : buf[2 * i].frame.kind \notin {"ping", "cont"}}
        stop  == IF whole = {} THEN 0 ELSE CHOOSE i \in whole : \A j \in whole : i <= j
        n     == IF stop = 0 THEN Len(buf) \div 2 ELSE stop
    IN  [rest  |-> SubSeq(buf, 2 * n + 1, Len(buf)),
         pongs |-> Len(SelectSeq(SubSeq(buf, 1, 2 * n),
                                 LAMBDA h : h.half = 1 /\ h.frame.kind = "ping")),
         found |-> IF stop = 0 THEN F("none", 0)
                   ELSE buf[2 * stop].frame]

Parsed(buf) == ParseFrames(buf)

\* What is read is handled by ws_parse_handshake or ws_parse_frames.
HandleInput(w) ==
    LET p == Parsed(w.rbuf)
    IN  \/ /\ w.state = "connecting" /\ Len(w.rbuf) >= 2
           /\ \/ w.rbuf[1].frame.kind # "101" /\ Call("error", 0) /\ pc' = "onerror" /\ ws' = w
              \/ /\ w.rbuf[1].frame.kind = "101"
                 /\ ws' = [w EXCEPT !.state = "open", !.rbuf = SubSeq(@, 3, Len(@))]
                 /\ Call("open", 0) /\ pc' = "onopen"
        \/ /\ w.state = "open"
           /\ LET v == [w EXCEPT !.rbuf = p.rest,
                                 !.wbuf = @ \o [i \in 1..p.pongs |-> F("pong", 0)],
                                 !.events = IF p.pongs > 0 THEN @ \cup {"OUT"} ELSE @]
              IN  \/ p.found.kind = "none" /\ ws' = v /\ pc' = "idle" /\ UNCHANGED calls
                  \/ p.found.kind = "close" /\ WsClose(v)
                  \/ /\ p.found.kind = "text"
                     /\ ws' = v /\ Call("message", p.found.n) /\ pc' = "onmessage"
        \/ /\ w.state = "closing" \/ (w.state = "connecting" /\ Len(w.rbuf) < 2)
           /\ ws' = w /\ pc' = "idle" /\ UNCHANGED calls

\* The POLLIN half.
Read ==
    /\ \/ pc = "read"
       \/ /\ pc = "idle" /\ ws.listed /\ Revents = {"IN"}
          /\ ws.tls => ws.shaken
    /\ \/ /\ wire.data # <<>>
          /\ \E n \in 1..Len(wire.data) :
                /\ HandleInput([ws EXCEPT !.rbuf = @ \o SubSeq(wire.data, 1, n)])
                /\ wire' = [wire EXCEPT !.data = SubSeq(@, n + 1, Len(@))]
       \/ wire.data = <<>> /\ wire.end = "fin" /\ WsClose(ws) /\ UNCHANGED wire
       \/ wire.data = <<>> /\ wire.end = "reset" /\ WsFail /\ UNCHANGED wire
       \/ /\ wire.data = <<>> /\ wire.end = "open"
          /\ pc' = "idle" /\ UNCHANGED <<ws, wire, calls>>
    /\ UNCHANGED <<written, room>>

\* A JavaScript handler returns; ws_fail goes on to ws_close, which ends by
\* freeing the handle.
Return ==
    /\ \/ pc \in {"onopen", "onmessage"} /\ pc' = "idle" /\ UNCHANGED <<ws, calls>>
       \/ pc = "onerror" /\ WsClose(ws)
       \/ pc = "onclose" /\ pc' = "idle" /\ ws' = [ws EXCEPT !.roots = FALSE]
                         /\ UNCHANGED calls
    /\ UNCHANGED <<wire, written, room>>

System == TlsHandshake \/ Flush \/ Read \/ Return

Next ==
    \/ System
    \/ \E f \in Kinds \cup Answers : ServerSends(f)
    \/ ServerEnds \/ ServerReads
    \/ \E tls \in BOOLEAN : Construct(tls)
    \/ Send \/ Close

\* The loop runs, handlers return, the server reads.
Fairness ==
    /\ WF_vars(Flush) /\ WF_vars(Read) /\ WF_vars(Return) /\ WF_vars(ServerReads)

Spec == Init /\ [][Next]_vars /\ Fairness

-----------------------------------------------------------------------------
(* Properties *)

Numbers(seq, kind) == [i \in 1..Len(SelectSeq(seq, LAMBDA f : f.kind = kind)) |->
                          SelectSeq(seq, LAMBDA f : f.kind = kind)[i].n]

\* onmessage gets the server's text messages in order, each once, whatever
\* the reads cut and whatever control frames lie between; the client's
\* messages reach the wire in order.
MessagesInOrder ==
    /\ \E n \in 0..wire.texts : Numbers(calls, "message") = [i \in 1..n |-> i]
    /\ Numbers(written \o ws.wbuf, "text") = [i \in 1..ws.sent |-> i]

\* On the wire the handshake request is first and nothing but another close
\* frame follows a close frame.
CloseFrameLast ==
    LET out == written \o ws.wbuf
    IN  \A i \in 1..Len(out) :
            /\ out[i].kind = "request" <=> i = 1
            /\ out[i].kind = "close" => \A j \in i..Len(out) : out[j].kind = "close"

\* onclose comes last, once, and the handle stays among the roots of the
\* collector until it has returned; nothing is delivered after it.
CloseIsFinal ==
    /\ \A i \in 1..Len(calls) : calls[i].kind = "close" => i = Len(calls)
    /\ ws.listed \/ pc # "idle" => ws.roots

Safe == MessagesInOrder /\ CloseFrameLast /\ CloseIsFinal

=============================================================================

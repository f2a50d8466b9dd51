----------------------------- MODULE MCChannels -----------------------------
(***************************************************************************)
(* The modules that carry bytes, frames, messages or datagrams between the *)
(* script and a peer: net, WebSocket, http with fetch, child_process,      *)
(* dgram.  They share no state, so a behaviour runs the one that "part"    *)
(* names and leaves the others as they begin.  WebSocket is instantiated   *)
(* here, the others in Transport and Streams.                              *)
(***************************************************************************)
EXTENDS Transport, Streams

VARIABLES
    part,
    ws, wire, written, room, pc, calls

\* A socket that connects when the handle table has no room for all its
\* methods; Net has room for those of a socket that connects or is accepted.
\* The script may call a method of a socket at any moment, as the callback of
\* another socket would.
Crowded == INSTANCE Net WITH Accepted <- {}, MaxHandles <- 6, Bytes <- SocketBytes
Ws == INSTANCE WebSocket WITH ServerFrames <- 2, Messages <- 1, Room <- 1

ASSUME Bounds ==
    /\ Crowded!NetAssumption
    /\ Ws!WebSocketAssumption

netVars == <<sk, server, handles, ready, cb, process>>
wsVars == <<ws, wire, written, room, pc, calls>>
httpVars == <<req, answers, promise>>
childVars == <<proc, out, stdin, hold, produced, io, events, parent, chunk, piped, waiting, got, lost>>
dgramVars == <<sock, inbox, net, sends, due, called, timers, received>>
vars == <<part, netVars, wsVars, httpVars, childVars, dgramVars>>

Init ==
    /\ part \in {"sockets", "crowded", "ws", "http", "child", "dgram"}
    /\ Net!Init /\ Ws!Init /\ Http!Init /\ Child!Init /\ Dgram!Init

SocketsNext == part = "sockets" /\ Net!Next /\ UNCHANGED <<part, wsVars, httpVars, childVars, dgramVars>>
CrowdedNext == part = "crowded" /\ Crowded!Next /\ UNCHANGED <<part, wsVars, httpVars, childVars, dgramVars>>
WsNext == part = "ws" /\ Ws!Next /\ UNCHANGED <<part, netVars, httpVars, childVars, dgramVars>>
HttpNext == part = "http" /\ Http!Next /\ UNCHANGED <<part, netVars, wsVars, childVars, dgramVars>>
ChildNext == part = "child" /\ Child!Next /\ UNCHANGED <<part, netVars, wsVars, httpVars, dgramVars>>
DgramNext == part = "dgram" /\ Dgram!Next /\ UNCHANGED <<part, netVars, wsVars, httpVars, childVars>>

Next == SocketsNext \/ CrowdedNext \/ WsNext \/ HttpNext \/ ChildNext \/ DgramNext

\* The fairness of each component, see its module.
Fairness ==
    /\ WF_netVars(part = "sockets" /\ Net!System)
    /\ WF_netVars(part = "sockets" /\ Net!Loop("s"))
    /\ WF_netVars(part = "sockets" /\ (Net!PeerReads("s") \/ Net!Establish("s")))
    /\ WF_netVars(part = "crowded" /\ Crowded!System)
    /\ WF_netVars(part = "crowded" /\ Crowded!Loop("s"))
    /\ WF_netVars(part = "crowded" /\ (Crowded!PeerReads("s") \/ Crowded!Establish("s")))
    /\ WF_wsVars(part = "ws" /\ Ws!Flush)
    /\ WF_wsVars(part = "ws" /\ Ws!Read)
    /\ WF_wsVars(part = "ws" /\ Ws!Return)
    /\ WF_wsVars(part = "ws" /\ Ws!ServerReads)
    /\ \A r \in {1, 2} :
          /\ WF_httpVars(part = "http" /\ Http!System(r))
          /\ WF_httpVars(part = "http" /\ Http!ServerEnds(r))
    /\ WF_childVars(part = "child" /\ Child!SrcWrites)
    /\ WF_childVars(part = "child" /\ Child!CatCopies)
    /\ WF_childVars(part = "child" /\ Child!Poll)
    /\ WF_childVars(part = "child" /\ Child!Write)
    /\ WF_childVars(part = "child" /\ Child!Exit("src"))
    /\ \A p \in {"src", "cat"} :
          /\ WF_childVars(part = "child" /\ Child!ReadCallback(p))
          /\ WF_childVars(part = "child" /\ Child!WaitDone(p))
    /\ WF_dgramVars(part = "dgram" /\ Dgram!Poll)
    /\ WF_dgramVars(part = "dgram" /\ Dgram!Return)
    /\ \A s \in {"u", "v"} : WF_dgramVars(part = "dgram" /\ Dgram!Callback(s))

Spec == Init /\ [][Next]_vars /\ Fairness

-----------------------------------------------------------------------------
(* Properties *)

\* WebSocket: messages are delivered in order, the close frame is the last
\* frame sent and onclose the last callback; see WebSocket!Safe.
FramesInOrder == Ws!TypeOK /\ Ws!Safe

\* What waits to be served, at most three things in each component, and what
\* serves it: bytes buffered by a socket, a close() under way, a request that
\* is out, the write that blocks the parent and the children that exited, the
\* datagrams the kernel holds.
Waiting(i) ==
    \/ i = 1 /\ sk["s"].buf # <<>>
    \/ i = 1 /\ ws.state = "closing" /\ (ws.tls => ws.shaken)
    \/ i <= 2 /\ req[i].st = "live" /\ (req[i].tls => req[i].shaken)
    \/ i <= 2 /\ proc[<<"src", "cat">>[i]] = "exited"
    \/ i = 3 /\ parent = "writing"
    \/ i <= 2 /\ \E s \in {"u", "v"} : i \in inbox[s]

Served(i) ==
    \/ /\ part \in {"sockets", "crowded"}
       /\ process # "running" \/ sk["s"].buf = <<>> \/ sk["s"].fd = "closed" \/ sk["s"].stalled
    \/ part = "ws" /\ ~ws.roots
    \/ part = "http" /\ i <= 2 /\ promise[i].st \in {"fulfilled", "rejected"}
    \/ /\ part = "child"
       /\ IF i = 3 THEN parent # "writing"
          ELSE LET p == <<"src", "cat">>[i]
               IN  parent = "killed" \/ (waiting[p] = "reported" /\ io[p] = "ended")
    \/ part = "dgram" /\ \A s \in {"u", "v"} : i \notin inbox[s]

\* Every buffered byte is sent, every close() completes, the promise of every
\* request that went out settles (a connection that could not be set up is not
\* waited for: its fetch() never settles), every blocking write returns and
\* every exit is reported, every datagram held is delivered or dropped by
\* close(): no event loop callback is lost for good.
EveryoneServed == \A i \in 1..3 : Waiting(i) ~> Served(i)
=============================================================================

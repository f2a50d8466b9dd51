------------------------------- MODULE Dgram -------------------------------
(***************************************************************************)
(* src/src/dgram_module.c with src/src/js/dgram.js: UDP sockets on one     *)
(* host that send to each other.  Datagrams are numbered; the network may  *)
(* drop and reorder them and a full receive buffer drops them.  A timer of *)
(* js/dgram.js reports 'listening' and the outcome of send() later.        *)
(***************************************************************************)
EXTENDS Integers, Sequences, FiniteSets

CONSTANTS
    Sockets,
    MaxSends,   \* bound: datagrams sent
    Buffer      \* datagrams the kernel keeps for a socket

DgramAssumption == MaxSends \in Nat /\ Buffer \in Nat

VARIABLES
    sock,       \* [fd, listed, bound] of each DgramSocketHandle
    inbox,      \* receive buffers
    net,        \* datagrams under way: [to, n]
    sends,      \* datagrams sent so far
    ready,      \* sockets with revents not yet delivered in this tick
    cb,         \* JavaScript runs in 'message' or 'close' of a socket
    timers,     \* setTimeout(0) of js/dgram.js: [kind, s, ok]
    got         \* history: datagrams delivered, per socket; "closed" at the end

vars == <<sock, inbox, net, sends, ready, cb, timers, got>>

Idle == [at |-> "idle"]

Init ==
    /\ sock = [s \in Sockets |-> [fd |-> "unused", listed |-> FALSE, bound |-> FALSE]]
    /\ inbox = [s \in Sockets |-> {}]
    /\ net = {} /\ sends = 0 /\ ready = {} /\ cb = Idle /\ timers = {}
    /\ got = [s \in Sockets |-> [data |-> {}, closed |-> 0, calls |-> 0]]

TypeOK ==
    /\ \A s \in Sockets : /\ sock[s].fd \in {"unused", "open", "closed"}
                          /\ Cardinality(inbox[s]) <= Buffer
    /\ sends \in 0..MaxSends /\ ready \subseteq Sockets

\* createSocket(): registered with the loop at once, bound or not.
Create(s) ==
    /\ sock[s].fd = "unused"
    /\ sock' = [sock EXCEPT ![s].fd = "open", ![s].listed = TRUE]
    /\ UNCHANGED <<inbox, net, sends, ready, cb, timers, got>>

\* bind(): success sets a timer for 'listening'; failure calls on_error, which
\* the constructor of js/dgram.js has set, and changes nothing.
Bind(s) ==
    /\ sock[s].fd = "open" /\ ~sock[s].bound
    /\ sock' = [sock EXCEPT ![s].bound = TRUE]
    /\ timers' = timers \cup {[kind |-> "listening", s |-> s, n |-> 0, ok |-> TRUE]}
    /\ UNCHANGED <<inbox, net, sends, ready, cb, got>>

\* send(): on a closed socket it fails; the outcome is reported by a timer.
Send(s, to) ==
    /\ sock[s].fd # "unused" /\ sends < MaxSends
    /\ sends' = sends + 1
    /\ \E ok \in IF sock[s].fd = "open" THEN BOOLEAN ELSE {FALSE} :
          /\ net' = IF ok THEN net \cup {[to |-> to, n |-> sends + 1]} ELSE net
          /\ timers' = timers \cup {[kind |-> "sent", s |-> s, n |-> sends + 1, ok |-> ok]}
    /\ UNCHANGED <<sock, inbox, ready, cb, got>>

\* Mutant: the handle stays in the loop.
CloseListed(s) ==
    /\ sock[s].fd = "open"
    /\ sock' = [sock EXCEPT ![s].fd = "closed"]
    /\ inbox' = [inbox EXCEPT ![s] = {}]
    /\ got' = [got EXCEPT ![s].closed = @ + 1]
    /\ UNCHANGED <<net, sends, ready, cb, timers>>

\* close(): removed from the loop, descriptor closed, 'close' emitted inside.
Close(s) ==
    /\ sock[s].fd = "open"
    /\ sock' = [sock EXCEPT ![s].fd = "closed", ![s].listed = FALSE]
    /\ inbox' = [inbox EXCEPT ![s] = {}]
    /\ got' = [got EXCEPT ![s].closed = @ + 1]
    /\ UNCHANGED <<net, sends, ready, cb, timers>>

\* The network delivers to a bound socket or drops.
Arrive(d) ==
    /\ d \in net
    /\ net' = net \ {d}
    /\ \/ UNCHANGED inbox
       \/ /\ sock[d.to].fd = "open" /\ sock[d.to].bound
          /\ Cardinality(inbox[d.to]) < Buffer
          /\ inbox' = [inbox EXCEPT ![d.to] = @ \cup {d.n}]
    /\ UNCHANGED <<sock, sends, ready, cb, timers, got>>

Poll ==
    /\ cb = Idle /\ ready = {}
    /\ ready' = {s \in Sockets : sock[s].listed /\ inbox[s] # {}}
    /\ ready' # {}
    /\ UNCHANGED <<sock, inbox, net, sends, cb, timers, got>>

\* dgram_io_cb: one datagram per call; nothing for a handle that was removed.
Callback(s) ==
    /\ cb = Idle /\ s \in ready
    /\ ready' = ready \ {s}
    /\ \/ /\ sock[s].listed /\ inbox[s] # {}
          /\ \E n \in inbox[s] :
                /\ inbox' = [inbox EXCEPT ![s] = @ \ {n}]
                /\ got' = [got EXCEPT ![s].data = @ \cup {n}, ![s].calls = @ + 1]
          /\ cb' = [at |-> "message", s |-> s]
       \/ /\ ~sock[s].listed \/ inbox[s] = {}
          /\ UNCHANGED <<inbox, got, cb>>
    /\ UNCHANGED <<sock, net, sends, timers>>

Return ==
    /\ cb # Idle
    /\ cb' = Idle
    /\ UNCHANGED <<sock, inbox, net, sends, ready, timers, got>>

Timer(t) ==
    /\ cb = Idle /\ t \in timers
    /\ timers' = timers \ {t}
    /\ UNCHANGED <<sock, inbox, net, sends, ready, cb, got>>

Next ==
    \/ Poll \/ Return
    \/ \E s \in Sockets : Create(s) \/ Bind(s) \/ Close(s) \/ Callback(s)
    \/ \E s, t \in Sockets : Send(s, t)
    \/ \E d \in net : Arrive(d)
    \/ \E t \in timers : Timer(t)

Fairness == WF_vars(Poll) /\ WF_vars(Return) /\ \A s \in Sockets : WF_vars(Callback(s))

Spec == Init /\ [][Next]_vars /\ Fairness

-----------------------------------------------------------------------------
(* Properties *)

\* A datagram is delivered at most once and a socket is in the loop exactly
\* while its descriptor is open: 'close' is emitted once.
DeliveredOnce ==
    \A s \in Sockets : /\ got[s].closed <= 1 /\ got[s].calls = Cardinality(got[s].data)
                       /\ sock[s].listed <=> sock[s].fd = "open"

\* 'message' never follows 'close', even when a socket is closed by another
\* socket's callback after poll() reported its datagram.
NothingAfterClose ==
    \A s \in Sockets : sock[s].fd = "closed" => got'[s] = got[s]

=============================================================================

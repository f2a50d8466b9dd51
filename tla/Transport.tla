----------------------------- MODULE Transport -----------------------------
(***************************************************************************)
(* The modules that exchange whole messages with a peer they do not        *)
(* control: the requests of http with fetch() (Http.tla) and the datagrams *)
(* of dgram (Dgram.tla).  They share no state; what is here is what each   *)
(* promises.                                                               *)
(***************************************************************************)
EXTENDS Integers, Sequences

CONSTANTS Reqs, Sockets, MaxSends, Buffer

VARIABLES
    req, answers, promise,
    sock, inbox, net, sends, due, called, timers, received

Http == INSTANCE Http WITH server <- answers
Dgram == INSTANCE Dgram WITH ready <- due, cb <- called, got <- received

ASSUME TransportAssumption == Dgram!DgramAssumption

\* http_module.c and fetch(): one callback for each request that is out, and one
\* settlement of its promise; see Http!CalledBackOnce.
RequestsCalledBackOnce == Http!TypeOK /\ Http!CalledBackOnce

\* dgram: a datagram is delivered at most once and never after 'close'.
DatagramsOnce ==
    [][Dgram!TypeOK' /\ Dgram!DeliveredOnce' /\ Dgram!NothingAfterClose]_(Dgram!vars)

=============================================================================

--------------------------- MODULE MessageChannel ---------------------------
(***************************************************************************)
(* src/src/worker_threads_module.c: a MessageChannel.  Port p receives     *)
(* from queue p and sends to the queue of the other port.  Ports cannot be *)
(* transferred, so both live on one thread; JavaScript calls their methods *)
(* between callbacks and inside onmessage.  The loop keeps the next handle *)
(* of its list while a callback runs: if the callback closes the port of   *)
(* that handle, the loop goes on at freed memory, and nothing is said of   *)
(* what follows.                                                           *)
(***************************************************************************)
EXTENDS Integers, Sequences, FiniteSets

CONSTANTS
    MaxPosts,   \* bound: messages posted to each port
    PipeCap     \* bytes a pipe holds

ChannelAssumption == MaxPosts \in Nat /\ PipeCap \in Nat \ {0}

Ports == {1, 2}
Peer(p) == 3 - p

VARIABLES
    queue, pipe, refs,  \* the SharedMessageQueues: nodes, pipe bytes, ref_count
    open,               \* port->rx and port->tx are set
    io,                 \* port->io_handle is in the loop
    newest,             \* the port whose handle was added last (0: none)
    nextUp,             \* the port whose handle the loop keeps as next (0: none)
    undefined,          \* the loop went on at a freed handle
    port, batch,        \* mp_pipe_cb: the port it runs for (0: none), its nodes
    posted, delivered   \* history

walkVars == <<newest, nextUp, undefined>>
vars == <<queue, pipe, refs, open, io, newest, nextUp, undefined, port, batch,
          posted, delivered>>

Init ==
    /\ queue = [p \in Ports |-> <<>>]
    /\ pipe = [p \in Ports |-> 0]
    /\ refs = [p \in Ports |-> 2]
    /\ open = [p \in Ports |-> TRUE]
    /\ io = [p \in Ports |-> FALSE]
    /\ newest = 0 /\ nextUp = 0 /\ undefined = FALSE
    /\ port = 0 /\ batch = <<>>
    /\ posted = [p \in Ports |-> 0]
    /\ delivered = [p \in Ports |-> <<>>]

TypeOK ==
    /\ queue \in [Ports -> Seq(1..MaxPosts)] /\ delivered \in [Ports -> Seq(1..MaxPosts)]
    /\ pipe \in [Ports -> 0..PipeCap] /\ refs \in [Ports -> 0..2]
    /\ open \in [Ports -> BOOLEAN] /\ io \in [Ports -> BOOLEAN]
    /\ newest \in {0} \cup Ports /\ nextUp \in {0} \cup Ports /\ undefined \in BOOLEAN
    /\ port \in {0} \cup Ports /\ batch \in Seq(1..MaxPosts)
    /\ posted \in [Ports -> 0..MaxPosts]

\* mp_post_message on the peer of p; a full pipe loses the byte.
Post(p) ==
    /\ open[Peer(p)] /\ posted[p] < MaxPosts
    /\ queue' = [queue EXCEPT ![p] = Append(@, posted[p] + 1)]
    /\ pipe' = [pipe EXCEPT ![p] = IF @ < PipeCap THEN @ + 1 ELSE @]
    /\ posted' = [posted EXCEPT ![p] = @ + 1]
    /\ UNCHANGED <<refs, open, io, walkVars, port, batch, delivered>>

\* mp_on('message', f): the handle becomes the first of the loop's list.
On(p) ==
    /\ open[p] /\ ~io[p]
    /\ io' = [io EXCEPT ![p] = TRUE]
    /\ newest' = p
    /\ UNCHANGED <<queue, pipe, refs, open, nextUp, undefined, port, batch, posted,
                   delivered>>

\* Mutant: only the receiving queue is released.
CloseReceiver(p) ==
    /\ open[p]
    /\ open' = [open EXCEPT ![p] = FALSE]
    /\ io' = [io EXCEPT ![p] = FALSE]
    /\ refs' = [refs EXCEPT ![p] = @ - 1]
    /\ queue' = [q \in Ports |-> IF refs'[q] = 0 THEN <<>> ELSE queue[q]]
    /\ UNCHANGED <<pipe, walkVars, port, batch, posted, delivered>>

\* mp_close: both queues are released, and freed with the last reference.
Close(p) ==
    /\ open[p]
    /\ open' = [open EXCEPT ![p] = FALSE]
    /\ io' = [io EXCEPT ![p] = FALSE]
    /\ refs' = [q \in Ports |-> refs[q] - 1]
    /\ queue' = [q \in Ports |-> IF refs'[q] = 0 THEN <<>> ELSE queue[q]]
    /\ UNCHANGED <<pipe, walkVars, port, batch, posted, delivered>>

\* The walk of el_run reaches the handle before that of p, one of another kind:
\* it keeps p's as the next one and makes the callback, any JavaScript.
WalkBefore(p) ==
    /\ port = 0 /\ nextUp = 0 /\ io[p]
    /\ nextUp' = p
    /\ UNCHANGED <<queue, pipe, refs, open, io, newest, undefined, port, batch, posted,
                   delivered>>

\* The callback has returned and the walk goes on at the handle it kept, which
\* has no event; or it was freed meanwhile, and is read all the same.
WalkOn ==
    /\ port = 0 /\ nextUp # 0
    /\ nextUp' = 0
    /\ undefined' = ~io[nextUp]
    /\ UNCHANGED <<queue, pipe, refs, open, io, newest, port, batch, posted, delivered>>

\* mp_pipe_cb: empty the pipe, take the whole queue.  The handle the walk keeps
\* as next may be that of the other port, if it was added before.
PipeCallback(p) ==
    /\ port = 0 /\ nextUp \in {0, p} /\ io[p] /\ pipe[p] > 0
    /\ nextUp' \in {0} \cup {q \in Ports : q = Peer(p) /\ io[q] /\ newest = p}
    /\ pipe' = [pipe EXCEPT ![p] = 0]
    /\ batch' = queue[p]
    /\ queue' = [queue EXCEPT ![p] = <<>>]
    /\ port' = p
    /\ UNCHANGED <<refs, open, io, newest, undefined, posted, delivered>>

\* onmessage is called for the next node of the batch, whether or not the port
\* has been closed meanwhile; after the last one the callback returns.
Deliver ==
    /\ port # 0
    /\ \/ /\ batch # <<>>
          /\ delivered' = [delivered EXCEPT ![port] = Append(@, Head(batch))]
          /\ batch' = Tail(batch)
          /\ UNCHANGED port
       \/ batch = <<>> /\ port' = 0 /\ UNCHANGED <<batch, delivered>>
    /\ UNCHANGED <<queue, pipe, refs, open, io, walkVars, posted>>

Step ==
    \/ Deliver \/ WalkOn
    \/ \E p \in Ports : Post(p) \/ On(p) \/ Close(p) \/ WalkBefore(p) \/ PipeCallback(p)

Next == ~undefined /\ Step

\* The callback returns, the walk goes on, and it gets to the callback of a
\* readable pipe although those of other handles keep coming.
Fairness ==
    /\ WF_vars(~undefined /\ Deliver) /\ WF_vars(~undefined /\ WalkOn)
    /\ \A p \in Ports : SF_vars(~undefined /\ PipeCallback(p))

Spec == Init /\ [][Next]_vars /\ Fairness

-----------------------------------------------------------------------------
(* Properties *)

\* A queue has one reference per open port, so no open port uses a freed one
\* and the last close frees it; a queued message always has a byte to wake
\* its receiver.  The loop goes on at a freed handle only after close() in the
\* callback of the handle before it: the handle kept as next is never that of
\* the port whose onmessage runs, which may therefore close its own port.
QueuesLive ==
    /\ \A p \in Ports :
          /\ refs[p] = Cardinality({q \in Ports : open[q]})
          /\ queue[p] # <<>> => pipe[p] > 0
          /\ io[p] => open[p]
    /\ port # 0 => nextUp # port
    /\ undefined => \E p \in Ports : ~open[p]

\* Messages arrive in the order they were posted, each once; those still
\* under way are in the batch and the queue, unless both ports are closed.
DeliveredInOrder ==
    \A p \in Ports :
        LET under == (IF port = p THEN batch ELSE <<>>) \o queue[p]
        IN  /\ Len(delivered[p]) <= posted[p]
            /\ delivered[p] = [i \in 1..Len(delivered[p]) |-> i]
            /\ refs[p] > 0 => delivered[p] \o under = [i \in 1..posted[p] |-> i]

=============================================================================

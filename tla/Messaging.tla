----------------------------- MODULE Messaging -----------------------------
(***************************************************************************)
(* The two ways to post messages, side by side: a Web Worker (Worker.tla)  *)
(* and the ports of a MessageChannel (MessageChannel.tla).  They share no  *)
(* state; what is here is what each promises.                              *)
(***************************************************************************)
EXTENDS Integers, Sequences

CONSTANTS ToWorker, ToMain, MaxPosts, PipeCap

VARIABLES
    workerQueue, mainQueue, workerPipe, mainPipe, terminateRequested,
    inCallback, needsFree, handle, mainIo, nextUp, undefined, mpc, wpc,
    mainPosting, workerPosting, pushed, received,
    queue, pipe, refs, open, io, newest, nextPort, portsUndefined, port, batch,
    posted, delivered

Worker == INSTANCE Worker WITH posted <- pushed
Channel == INSTANCE MessageChannel WITH nextUp <- nextPort, undefined <- portsUndefined

ASSUME MessagingAssumption == Worker!WorkerAssumption /\ Channel!ChannelAssumption

\* Web Workers: a queued message always has a byte, or a drain, to wake its
\* receiver; the handle outlives the thread and the callback that use it, and
\* its listener the walk of the loop, unless terminate() runs in the callback
\* of the handle before it.
WorkerSound ==
    Worker!TypeOK /\ Worker!NoStrandedMessage /\ Worker!HandleOutlivesUsers

\* After terminate() no message of the worker is delivered any more.
NothingAfterTerminate == [][Worker!NothingAfterTerminate]_(Worker!vars)

\* Message ports: the queues are shared safely, messages arrive once and in
\* the order they were posted, and a port may be closed in its own onmessage.
PortsInOrder == Channel!TypeOK /\ Channel!QueuesLive /\ Channel!DeliveredInOrder

=============================================================================

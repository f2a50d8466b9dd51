------------------------------ MODULE Streams ------------------------------
(***************************************************************************)
(* The modules that carry streams of bytes: the sockets of net (Net.tla)   *)
(* and the pipes between the children of child_process (ChildProcess.tla). *)
(* They share no state; what is here is what each promises.                *)
(***************************************************************************)
EXTENDS Integers, Sequences

CONSTANTS
    Clients, Accepted, MaxHandles, SocketBytes, Room,
    Bytes, PipeCap, ReadMax

VARIABLES
    sk, server, handles, ready, cb, process,
    proc, out, stdin, hold, produced, io, events, parent, chunk, piped, waiting, got, lost

Net == INSTANCE Net WITH Bytes <- SocketBytes
Child == INSTANCE ChildProcess WITH ready <- events

ASSUME StreamsAssumption == Net!NetAssumption /\ Child!ChildAssumption

\* net: bytes reach the kernel in the order of the write() calls, FIN comes
\* after them, bytes that wait have POLLOUT asked for, and 'close' is emitted
\* once; see Net!Safe.
SocketsKeepBytes == Net!TypeOK /\ Net!Safe

\* child_process: what one child writes is what the other reads, through two
\* pipes and pipe(), and 'end' comes after the last byte; see ChildProcess!Safe.
PipelineWhole == Child!TypeOK /\ Child!Safe

=============================================================================

---------------------------- MODULE ChildProcess ----------------------------
(***************************************************************************)
(* src/src/child_process_module.c with src/src/js/child_process.js,        *)
(* stream.js and events.js: a child "src" whose standard output is piped   *)
(* (stdout.pipe(stdin)) into a child "cat", whose output JavaScript        *)
(* receives.  Pipes are bounded, the descriptors block, and the parent's   *)
(* writes are made in the data callback.  Bytes are numbered.              *)
(***************************************************************************)
EXTENDS Integers, Sequences

CONSTANTS
    Bytes,      \* bytes src writes
    PipeCap,    \* capacity of a pipe
    ReadMax     \* bytes child_read_cb takes at once

ChildAssumption ==
    /\ Bytes \in Nat /\ PipeCap \in Nat \ {0}
    /\ ReadMax \in Nat \ {0} /\ 2 * ReadMax < PipeCap  \* 4096, 65536

Procs == {"src", "cat"}

VARIABLES
    proc,       \* "none", "running" or "exited"
    out,        \* the stdout pipes
    stdin,      \* the stdin pipe of cat
    hold,       \* bytes cat has read and not written
    produced,   \* bytes src has written
    io,         \* ChildIO of each stdout: "none", "reading" or "ended"
    ready,      \* handles with revents not yet delivered in this tick
    parent,     \* the JS thread: "loop", "writing" or "killed"
    chunk,      \* bytes its blocking write() still has to write
    piped,      \* a data listener that writes to cat is on src's stdout
    waiting,    \* the pool item of waitpid: "none", "submitted", "reported"
    got, lost   \* history: bytes delivered by cat, bytes nobody listened to

vars == <<proc, out, stdin, hold, produced, io, ready, parent, chunk, piped,
          waiting, got, lost>>

Init ==
    /\ proc = [p \in Procs |-> "none"]
    /\ out = [p \in Procs |-> <<>>]
    /\ stdin = <<>> /\ hold = <<>> /\ chunk = <<>> /\ got = <<>> /\ lost = <<>>
    /\ produced = 0
    /\ io = [p \in Procs |-> "none"]
    /\ ready = {} /\ parent = "loop" /\ piped = FALSE
    /\ waiting = [p \in Procs |-> "none"]

TypeOK ==
    /\ \A p \in Procs : /\ proc[p] \in {"none", "running", "exited"}
                        /\ Len(out[p]) <= PipeCap
                        /\ io[p] \in {"none", "reading", "ended"}
                        /\ waiting[p] \in {"none", "submitted", "reported"}
    /\ Len(stdin) <= PipeCap /\ Len(hold) <= 1
    /\ parent \in {"loop", "writing", "killed"}
    /\ produced \in 0..Bytes /\ ready \subseteq Procs

-----------------------------------------------------------------------------
(* JavaScript *)

\* spawn(): pipes, fork, and the constructor of ChildProcess: read_start for
\* the output, wait on the pool.  A pipe() or fork() that fails starts nothing.
Spawn(p) ==
    /\ parent = "loop" /\ proc[p] = "none"
    /\ proc' = [proc EXCEPT ![p] = "running"]
    /\ io' = [io EXCEPT ![p] = "reading"]
    /\ waiting' = [waiting EXCEPT ![p] = "submitted"]
    /\ UNCHANGED <<out, stdin, hold, produced, ready, parent, chunk, piped, got, lost>>

\* src.stdout.pipe(cat.stdin), in the turn that spawned both or later.
Pipe ==
    /\ parent = "loop" /\ ~piped /\ \A p \in Procs : proc[p] # "none"
    /\ piped' = TRUE
    /\ UNCHANGED <<proc, out, stdin, hold, produced, io, ready, parent, chunk,
                   waiting, got, lost>>

-----------------------------------------------------------------------------
(* The children *)

SrcWrites ==
    /\ proc["src"] = "running" /\ produced < Bytes /\ Len(out["src"]) < PipeCap
    /\ out' = [out EXCEPT !["src"] = Append(@, produced + 1)]
    /\ produced' = produced + 1
    /\ UNCHANGED <<proc, stdin, hold, io, ready, parent, chunk, piped, waiting, got, lost>>

\* cat never sees the end of its input: the parent keeps stdinFd open.
CatCopies ==
    /\ proc["cat"] = "running"
    /\ \/ /\ hold = <<>> /\ stdin # <<>>
          /\ hold' = <<Head(stdin)>> /\ stdin' = Tail(stdin) /\ UNCHANGED out
       \/ /\ hold # <<>> /\ Len(out["cat"]) < PipeCap
          /\ out' = [out EXCEPT !["cat"] = @ \o hold] /\ hold' = <<>> /\ UNCHANGED stdin
    /\ UNCHANGED <<proc, produced, io, ready, parent, chunk, piped, waiting, got, lost>>

\* src ends when it has written all; cat may die at any time.
Exit(p) ==
    /\ proc[p] = "running" /\ (p = "src" => produced = Bytes)
    /\ proc' = [proc EXCEPT ![p] = "exited"]
    /\ UNCHANGED <<out, stdin, hold, produced, io, ready, parent, chunk, piped,
                   waiting, got, lost>>

-----------------------------------------------------------------------------
(* The event loop of the parent *)

Readable(p) == io[p] = "reading" /\ (out[p] # <<>> \/ proc[p] = "exited")

Poll ==
    /\ parent = "loop" /\ ready = {}
    /\ ready' = {p \in Procs : Readable(p)}
    /\ ready' # {}
    /\ UNCHANGED <<proc, out, stdin, hold, produced, io, parent, chunk, piped,
                   waiting, got, lost>>

\* Mutant: a hangup ends the stream although the pipe holds data.
ChunkHangup(p) == IF proc[p] = "exited" THEN <<>> ELSE SubSeq(out[p], 1, IF Len(out[p]) < ReadMax THEN Len(out[p]) ELSE ReadMax)

\* read() in child_read_cb.
Chunk(p) == SubSeq(out[p], 1, IF Len(out[p]) < ReadMax THEN Len(out[p]) ELSE ReadMax)

\* child_read_cb: a chunk goes to the data listeners; at the end of the
\* stream push(null) emits 'end' and the handle is freed.  destination.end()
\* only emits 'finish': the descriptor of cat's stdin stays open.
ReadCallback(p) ==
    LET b == Chunk(p)
    IN  /\ parent = "loop" /\ p \in ready
        /\ ready' = ready \ {p}
        /\ \/ /\ b # <<>>
              /\ out' = [out EXCEPT ![p] = SubSeq(@, Len(b) + 1, Len(@))]
              /\ \/ p = "cat" /\ got' = got \o b /\ UNCHANGED <<parent, chunk, lost>>
                 \/ /\ p = "src" /\ piped
                    /\ parent' = "writing" /\ chunk' = b /\ UNCHANGED <<got, lost>>
                 \/ /\ p = "src" /\ ~piped
                    /\ lost' = lost \o b /\ UNCHANGED <<parent, chunk, got>>
              /\ UNCHANGED io
           \/ /\ b = <<>>
              /\ io' = [io EXCEPT ![p] = "ended"]
              /\ UNCHANGED <<out, parent, chunk, got, lost>>
        /\ UNCHANGED <<proc, stdin, hold, produced, piped, waiting>>

\* write(stdinFd): blocks while the pipe is full; SIGPIPE when nobody reads.
Write ==
    /\ parent = "writing"
    /\ \/ /\ proc["cat"] = "exited"
          /\ parent' = "killed" /\ UNCHANGED <<stdin, chunk>>
       \/ /\ proc["cat"] = "running" /\ Len(stdin) < PipeCap
          /\ stdin' = Append(stdin, Head(chunk)) /\ chunk' = Tail(chunk)
          /\ parent' = IF Len(chunk) = 1 THEN "loop" ELSE "writing"
    /\ UNCHANGED <<proc, out, hold, produced, io, ready, piped, waiting, got, lost>>

\* waitpid() returns on a pool thread and wait_done runs in the loop: 'exit'
\* and 'close' are emitted, whatever is left in the pipes.
WaitDone(p) ==
    /\ parent = "loop" /\ waiting[p] = "submitted" /\ proc[p] = "exited"
    /\ waiting' = [waiting EXCEPT ![p] = "reported"]
    /\ UNCHANGED <<proc, out, stdin, hold, produced, io, ready, parent, chunk,
                   piped, got, lost>>

Next ==
    \/ \E p \in Procs : Spawn(p) \/ Exit(p) \/ ReadCallback(p) \/ WaitDone(p)
    \/ Pipe \/ SrcWrites \/ CatCopies \/ Poll \/ Write

\* The children run, the loop turns, the pool reports.
Fairness ==
    /\ WF_vars(SrcWrites) /\ WF_vars(CatCopies) /\ WF_vars(Poll) /\ WF_vars(Write)
    /\ WF_vars(Exit("src"))
    /\ \A p \in Procs : WF_vars(ReadCallback(p)) /\ WF_vars(WaitDone(p))

Spec == Init /\ [][Next]_vars /\ Fairness

-----------------------------------------------------------------------------
(* Properties *)

\* No byte is lost, duplicated or overtaken between the writer and the
\* listener, apart from those read before pipe() was called.
PipelineKeepsBytes ==
    lost \o got \o out["cat"] \o hold \o stdin \o chunk \o out["src"]
        = [i \in 1..produced |-> i]

\* 'end' is emitted after the last byte of the stream.
EndAfterData == \A p \in Procs : io[p] = "ended" => out[p] = <<>> /\ proc[p] = "exited"

Safe == PipelineKeepsBytes /\ EndAfterData

=============================================================================

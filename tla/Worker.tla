------------------------------- MODULE Worker -------------------------------
(***************************************************************************)
(* src/src/worker_module.c: a Web Worker, the two message queues and pipes *)
(* between it and the thread that created it ("main" here), and            *)
(* terminate().  Each thread runs its own event loop (EventLoop.tla): a    *)
(* pipe callback is made while the pipe holds a byte.  Every access to a   *)
(* queue under its mutex, every read or write of a pipe and every access   *)
(* to terminate_requested is a step of its own.  Main's loop keeps the     *)
(* next handle of its list while a callback runs: if that is main_io and   *)
(* the callback terminates the worker, the loop goes on at freed memory,   *)
(* and nothing is said of what follows.                                    *)
(***************************************************************************)
EXTENDS Integers, Sequences

CONSTANTS
    ToWorker,   \* messages main posts
    ToMain,     \* messages the worker posts
    PipeCap     \* bytes a pipe holds before the non-blocking write fails

WorkerAssumption ==
    /\ ToWorker \cap ToMain = {}
    /\ PipeCap \in Nat \ {0}

VARIABLES
    workerQueue, mainQueue,   \* the two queues
    workerPipe, mainPipe,     \* bytes in the two pipes
    terminateRequested,
    inCallback, needsFree,    \* w->in_callback, w->needs_free
    handle,                   \* "live" or "freed": the WorkerHandle
    mainIo,                   \* w->main_io is registered with main's loop
    nextUp,                   \* the loop holds main_io as the next handle
    undefined,                \* the loop went on at the freed main_io
    mpc,                      \* main thread
    wpc,                      \* worker thread
    mainPosting, workerPosting,   \* a message was pushed, its byte not written
    posted, received          \* history: messages pushed, messages popped for
                              \* onmessage

walkVars == <<nextUp, undefined>>
mainVars == <<mainIo, inCallback, needsFree, handle, walkVars>>
vars == <<workerQueue, mainQueue, workerPipe, mainPipe, terminateRequested,
          inCallback, needsFree, handle, mainIo, nextUp, undefined, mpc, wpc,
          mainPosting, workerPosting, posted, received>>

\* loop: in el_run or in JS code unrelated to the message callback;
\* drain/handler: main_thread_pipe_cb and the onmessage it calls;
\* flag/byte/join/free: js_worker_terminate.
MainPCs == {"loop", "drain", "handler", "flag", "byte", "join", "free"}

\* start: before the listener is registered; script: vm_run; check/drain/
\* handler: worker_thread_pipe_cb; stopping: el_stop was called.
WorkerPCs == {"start", "script", "loop", "js", "check", "drain", "handler",
              "stopping", "exited"}

TypeOK ==
    /\ workerQueue \in Seq(ToWorker) /\ mainQueue \in Seq(ToMain)
    /\ workerPipe \in 0..PipeCap /\ mainPipe \in 0..PipeCap
    /\ {terminateRequested, inCallback, needsFree, mainIo, nextUp, undefined,
        mainPosting, workerPosting} \subseteq BOOLEAN
    /\ handle \in {"live", "freed"}
    /\ mpc \in MainPCs /\ wpc \in WorkerPCs
    /\ posted \subseteq ToWorker \cup ToMain
    /\ received \subseteq posted

\* js_worker_constructor has registered main_io and started the thread.
Init ==
    /\ workerQueue = <<>> /\ mainQueue = <<>>
    /\ workerPipe = 0 /\ mainPipe = 0
    /\ terminateRequested = FALSE
    /\ inCallback = FALSE /\ needsFree = FALSE
    /\ handle = "live" /\ mainIo = TRUE /\ nextUp = FALSE /\ undefined = FALSE
    /\ mpc = "loop" /\ wpc = "start"
    /\ mainPosting = FALSE /\ workerPosting = FALSE
    /\ posted = {} /\ received = {}

\* A non-blocking write of one byte; a full pipe loses it.
Write(pipe) == IF pipe < PipeCap THEN pipe + 1 ELSE pipe

-----------------------------------------------------------------------------
(* The main thread *)

MainInJS == mpc \in {"loop", "handler"} /\ ~mainPosting

\* worker.postMessage: _handle is still set, push_message.
MainPush(m) ==
    /\ MainInJS /\ handle = "live" /\ ~needsFree
    /\ m \in ToWorker \ posted
    /\ workerQueue' = Append(workerQueue, m)
    /\ posted' = posted \cup {m}
    /\ mainPosting' = TRUE
    /\ UNCHANGED <<mainQueue, workerPipe, mainPipe, terminateRequested, mainVars,
                   mpc, wpc, workerPosting, received>>

\* ... write(worker_pipe_tx).
MainNotify ==
    /\ mainPosting
    /\ workerPipe' = Write(workerPipe)
    /\ mainPosting' = FALSE
    /\ UNCHANGED <<workerQueue, mainQueue, mainPipe, terminateRequested,
                   mainVars, mpc, wpc, workerPosting, posted, received>>

\* The walk of el_run reaches the handle before main_io in its list: it keeps
\* main_io as the next one and makes the callback, JavaScript of main.
WalkBefore ==
    /\ mpc = "loop" /\ ~mainPosting /\ mainIo /\ ~nextUp
    /\ nextUp' = TRUE
    /\ UNCHANGED <<workerQueue, mainQueue, workerPipe, mainPipe, terminateRequested,
                   mainIo, inCallback, needsFree, handle, undefined, mpc, wpc,
                   mainPosting, workerPosting, posted, received>>

\* That callback returns and the walk goes on at main_io, which has no event;
\* or it was freed meanwhile, and its next and its cb are read all the same.
WalkOn ==
    /\ mpc = "loop" /\ ~mainPosting /\ nextUp
    /\ nextUp' = FALSE
    /\ undefined' = ~mainIo
    /\ UNCHANGED <<workerQueue, mainQueue, workerPipe, mainPipe, terminateRequested,
                   mainIo, inCallback, needsFree, handle, mpc, wpc,
                   mainPosting, workerPosting, posted, received>>

\* main_thread_pipe_cb: empty the pipe.
MainCallback ==
    /\ mpc = "loop" /\ ~mainPosting
    /\ mainIo /\ mainPipe > 0
    /\ mainPipe' = 0
    /\ inCallback' = TRUE
    /\ nextUp' = FALSE
    /\ mpc' = "drain"
    /\ UNCHANGED <<workerQueue, mainQueue, workerPipe, terminateRequested,
                   needsFree, handle, mainIo, undefined, wpc, mainPosting,
                   workerPosting, posted, received>>

\* The end of main_thread_pipe_cb.
LeaveCallback ==
    /\ inCallback' = FALSE
    /\ handle' = IF needsFree THEN "freed" ELSE handle
    /\ mpc' = "loop"

MainDrain ==
    /\ mpc = "drain"
    /\ IF mainQueue = <<>>
       THEN LeaveCallback /\ UNCHANGED <<mainQueue, received>>
       ELSE /\ mainQueue' = Tail(mainQueue)
            /\ received' = received \cup {Head(mainQueue)}
            /\ mpc' = "handler"
            /\ UNCHANGED <<inCallback, handle>>
    /\ UNCHANGED <<workerQueue, workerPipe, mainPipe, terminateRequested,
                   needsFree, mainIo, walkVars, wpc, mainPosting, workerPosting, posted>>

\* onmessage returns: go on, unless it has terminated the worker.
MainHandlerReturn ==
    /\ mpc = "handler" /\ ~mainPosting
    /\ IF terminateRequested
       THEN LeaveCallback
       ELSE mpc' = "drain" /\ UNCHANGED <<inCallback, handle>>
    /\ UNCHANGED <<workerQueue, mainQueue, workerPipe, mainPipe, needsFree,
                   terminateRequested, mainIo, walkVars, wpc, mainPosting,
                   workerPosting, posted, received>>

\* worker.terminate(), step 1.
Terminate ==
    /\ MainInJS /\ handle = "live" /\ ~needsFree
    /\ mpc' = "flag"
    /\ UNCHANGED <<workerQueue, mainQueue, workerPipe, mainPipe, mainVars,
                   terminateRequested, wpc, mainPosting, workerPosting, posted,
                   received>>

SetFlag ==
    /\ mpc = "flag"
    /\ terminateRequested' = TRUE
    /\ mpc' = "byte"
    /\ UNCHANGED <<workerQueue, mainQueue, workerPipe, mainPipe, mainVars, wpc,
                   mainPosting, workerPosting, posted, received>>

\* Step 2: wake the worker.
WakeWorker ==
    /\ mpc = "byte"
    /\ workerPipe' = Write(workerPipe)
    /\ mpc' = "join"
    /\ UNCHANGED <<workerQueue, mainQueue, mainPipe, mainVars, wpc,
                   terminateRequested, mainPosting, workerPosting, posted,
                   received>>

\* Step 3: pthread_join.
Join ==
    /\ mpc = "join" /\ wpc = "exited"
    /\ mpc' = "free"
    /\ UNCHANGED <<workerQueue, mainQueue, workerPipe, mainPipe, mainVars, wpc,
                   terminateRequested, mainPosting, workerPosting, posted,
                   received>>

\* Mutant: the handle is freed although its callback is running.
ReleaseAtOnce ==
    /\ mpc = "free"
    /\ mainIo' = FALSE
    /\ workerQueue' = <<>> /\ mainQueue' = <<>>
    /\ workerPipe' = 0 /\ mainPipe' = 0
    /\ handle' = "freed"
    /\ mpc' = IF inCallback THEN "handler" ELSE "loop"
    /\ UNCHANGED <<inCallback, needsFree, walkVars, terminateRequested, wpc,
                   mainPosting, workerPosting, posted, received>>

\* Mutant: the thread is joined and nothing is taken down.
ReleaseNothing ==
    /\ mpc = "free"
    /\ mpc' = IF inCallback THEN "handler" ELSE "loop"
    /\ UNCHANGED <<workerQueue, mainQueue, workerPipe, mainPipe, mainVars, wpc,
                   terminateRequested, mainPosting, workerPosting, posted,
                   received>>

\* Steps 4 to 6: listener, descriptors, queues; the handle itself waits for the
\* end of main_thread_pipe_cb if terminate() was called from onmessage.
Release ==
    /\ mpc = "free"
    /\ mainIo' = FALSE
    /\ workerQueue' = <<>> /\ mainQueue' = <<>>
    /\ workerPipe' = 0 /\ mainPipe' = 0
    /\ IF inCallback
       THEN needsFree' = TRUE /\ mpc' = "handler" /\ UNCHANGED handle
       ELSE handle' = "freed" /\ mpc' = "loop" /\ UNCHANGED needsFree
    /\ UNCHANGED <<inCallback, walkVars, terminateRequested, wpc, mainPosting,
                   workerPosting, posted, received>>

-----------------------------------------------------------------------------
(* The worker thread *)

workerLocal == <<mainVars, mpc, mainPosting, terminateRequested>>

\* worker_thread_main: the script is compiled and the listener registered, or
\* the thread ends because that failed.
WorkerLoad ==
    /\ wpc = "start"
    /\ wpc' \in {"script", "exited"}
    /\ UNCHANGED <<workerQueue, mainQueue, workerPipe, mainPipe, workerLocal,
                   workerPosting, posted, received>>

\* The callbacks of the rest of the tick still run after el_stop.
WorkerInJS == wpc \in {"script", "js", "handler", "stopping"} /\ ~workerPosting

\* postMessage in the worker.
WorkerPush(m) ==
    /\ WorkerInJS
    /\ m \in ToMain \ posted
    /\ mainQueue' = Append(mainQueue, m)
    /\ posted' = posted \cup {m}
    /\ workerPosting' = TRUE
    /\ UNCHANGED <<workerQueue, workerPipe, mainPipe, workerLocal, wpc, received>>

WorkerNotify ==
    /\ workerPosting
    /\ mainPipe' = Write(mainPipe)
    /\ workerPosting' = FALSE
    /\ UNCHANGED <<workerQueue, mainQueue, workerPipe, workerLocal, wpc, posted,
                   received>>

\* The script, a timer or an onmessage handler returns.
WorkerJSReturn ==
    /\ WorkerInJS /\ wpc # "stopping"
    /\ wpc' = IF wpc = "handler" THEN "drain" ELSE "loop"
    /\ UNCHANGED <<workerQueue, mainQueue, workerPipe, mainPipe, workerLocal,
                   workerPosting, posted, received>>

\* A timer or another callback of the worker's loop.
WorkerTimer ==
    /\ wpc = "loop"
    /\ wpc' = "js"
    /\ UNCHANGED <<workerQueue, mainQueue, workerPipe, mainPipe, workerLocal,
                   workerPosting, posted, received>>

\* worker_thread_pipe_cb: empty the pipe ...
WorkerCallback ==
    /\ wpc = "loop" /\ workerPipe > 0
    /\ workerPipe' = 0
    /\ wpc' = "check"
    /\ UNCHANGED <<workerQueue, mainQueue, mainPipe, workerLocal, workerPosting,
                   posted, received>>

\* ... look at the flag ...
WorkerCheck ==
    /\ wpc = "check"
    /\ wpc' = IF terminateRequested THEN "stopping" ELSE "drain"
    /\ UNCHANGED <<workerQueue, mainQueue, workerPipe, mainPipe, workerLocal,
                   workerPosting, posted, received>>

\* ... and call onmessage for every message.
WorkerDrain ==
    /\ wpc = "drain"
    /\ IF workerQueue = <<>>
       THEN wpc' = "loop" /\ UNCHANGED <<workerQueue, received>>
       ELSE /\ workerQueue' = Tail(workerQueue)
            /\ received' = received \cup {Head(workerQueue)}
            /\ wpc' = "handler"
    /\ UNCHANGED <<mainQueue, workerPipe, mainPipe, workerLocal, workerPosting,
                   posted>>

\* el_run returns after this tick; vm_free, arena_free, the thread ends.
WorkerExit ==
    /\ wpc = "stopping" /\ ~workerPosting
    /\ wpc' = "exited"
    /\ UNCHANGED <<workerQueue, mainQueue, workerPipe, mainPipe, workerLocal,
                   workerPosting, posted, received>>

-----------------------------------------------------------------------------
MainStep ==
    \/ MainNotify \/ MainDrain \/ MainHandlerReturn
    \/ SetFlag \/ WakeWorker \/ Join \/ Release

WorkerStep ==
    \/ WorkerLoad \/ WorkerNotify \/ WorkerCheck \/ WorkerDrain \/ WorkerExit

Step ==
    \/ \E m \in ToWorker : MainPush(m)
    \/ \E m \in ToMain : WorkerPush(m)
    \/ MainStep \/ Terminate \/ WalkBefore \/ WalkOn \/ MainCallback
    \/ WorkerStep \/ WorkerJSReturn \/ WorkerTimer \/ WorkerCallback

Next == ~undefined /\ Step

Spec == Init /\ [][Next]_vars

\* Both threads are scheduled, JS code returns, and a loop with a readable pipe
\* gets to its callback although other callbacks keep coming.
Fairness ==
    /\ WF_vars(~undefined /\ MainStep)
    /\ WF_vars(~undefined /\ MainCallback)
    /\ WF_vars(~undefined /\ WorkerStep)
    /\ WF_vars(~undefined /\ WorkerJSReturn)
    /\ SF_vars(~undefined /\ WorkerCallback)

FairSpec == Spec /\ Fairness

-----------------------------------------------------------------------------
(* Properties *)

\* A message in a queue is never forgotten: its receiver is about to look at
\* the queue, or a byte in the pipe or one about to be written will make it.
\* (A worker that is gone or going has stopped listening.)
NoStrandedMessage ==
    /\ mainQueue # <<>> /\ handle = "live" /\ mainIo =>
          \/ mainPipe > 0 \/ workerPosting
          \/ inCallback
    /\ workerQueue # <<>> =>
          \/ workerPipe > 0 \/ mainPosting
          \/ wpc \in {"check", "drain", "handler", "stopping", "exited"}

\* The WorkerHandle outlives its users: when it is freed the worker thread is
\* gone and main_thread_pipe_cb is not on the C stack.  The loop goes on at the
\* freed main_io only if terminate() ran in the callback of the handle before
\* it, never if it was called from the worker's own onmessage.
HandleOutlivesUsers ==
    /\ handle = "freed" => wpc = "exited" /\ ~inCallback /\ ~mainIo
    /\ inCallback \/ needsFree => ~nextUp /\ ~undefined
    /\ undefined => handle = "freed"

\* After terminate() no message of the worker is delivered any more.
NothingAfterTerminate ==
    terminateRequested => received' \cap ToMain = received \cap ToMain

=============================================================================

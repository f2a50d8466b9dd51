--------------------------- MODULE AsyncFunctions ---------------------------
(***************************************************************************)
(* Async functions of src/src/vm.c: stackful coroutines that run on their  *)
(* own C stack, suspend at await and are resumed by a microtask once the   *)
(* awaited promise is settled (src/src/builtins.c), and the chain of error *)
(* handlers (setjmp buffers) that try blocks and coroutines share through  *)
(* the single pointer vm->error_handler.  A context is the main stack or a *)
(* coroutine; running is the nesting of vm_coro_resume calls.              *)
(***************************************************************************)
EXTENDS Integers, Sequences, FiniteSets, SequencesExt

CONSTANTS
    Main,          \* the main stack
    Coros,         \* calls of async functions
    Ext,           \* promises settled by native code or by the script
    MaxHandlers,   \* bound of the number of handlers ever set up
    NULL

AsyncAssumption ==
    /\ Main \notin Coros /\ Coros \cap Ext = {}
    /\ NULL \notin Coros \cup Ext \cup {Main}
    /\ MaxHandlers \in Nat

Contexts == Coros \cup {Main}
Promises == Coros \cup Ext     \* coro->promise is named after its coroutine

VARIABLES
    pstate,      \* prom->state
    thens,       \* prom->then_callbacks: the coroutines that await it
    micro,       \* microtask queue: records [coro, err]
    cstate,      \* coro->state
    running,     \* contexts on the C stack, the current one last
    raising,     \* the current context is about to throw (resumeThrow)
    chain,       \* vm->error_handler and its prev pointers, innermost first
    saved,       \* handler.prev in each coroutine's coro_trampoline
    open,        \* the handlers whose try block each context is inside of
    made,        \* number of handlers set up so far
    outcome,     \* "ok"; "exit": exit(1); "wrong": longjmp to another handler
    thrower,     \* history: who threw when outcome ceased to be "ok"
    mixed,       \* history: see Alone and Meddles
    leaked       \* history: a function returned from inside a try block

promVars    == <<pstate, thens, micro>>
coroVars    == <<cstate, running, raising>>
handlerVars == <<chain, saved, open, made>>
faultVars   == <<outcome, thrower>>
vars == <<pstate, thens, micro, cstate, running, raising, chain, saved, open,
          made, outcome, thrower, mixed, leaked>>

Handlers == [ctx : Contexts, id : 1..MaxHandlers]

TypeOK ==
    /\ pstate \in [Promises -> {"pending", "fulfilled", "rejected"}]
    /\ thens \in [Promises -> Seq(Coros)]
    /\ micro \in Seq([coro : Coros, err : BOOLEAN])
    /\ cstate \in [Coros -> {"new", "running", "suspended", "done"}]
    /\ running \in Seq(Contexts) /\ running # <<>>
    /\ raising \in BOOLEAN
    /\ chain \in Seq(Handlers)
    /\ saved \in [Coros -> Seq(Handlers)]
    /\ open \in [Contexts -> Seq(Handlers)]
    /\ made \in 0..MaxHandlers
    /\ outcome \in {"ok", "exit", "wrong"}
    /\ thrower \in Contexts \cup {NULL}

Init ==
    /\ pstate = [p \in Promises |-> "pending"]
    /\ thens = [p \in Promises |-> <<>>]
    /\ micro = <<>>
    /\ cstate = [c \in Coros |-> "new"]
    /\ running = <<Main>>
    /\ raising = FALSE
    /\ chain = <<>>
    /\ saved = [c \in Coros |-> <<>>]
    /\ open = [x \in Contexts |-> <<>>]
    /\ made = 0
    /\ outcome = "ok" /\ thrower = NULL
    /\ mixed = FALSE /\ leaked = FALSE

Current == Last(running)

\* The current context executes ordinary code.
Executing == outcome = "ok" /\ ~raising

\* await leaves the handlers of the coroutine on the chain.  That does no harm
\* as long as it is the only coroutine under way, was called by the main stack
\* outside any try block, and nobody uses the chain until it is resumed.
Suspended == {c \in Coros : cstate[c] = "suspended"}
Alone == Suspended = {} /\ running = <<Main, Current>> /\ open[Main] = <<>>
Meddles == Suspended # {}

-----------------------------------------------------------------------------
(* Promises *)

\* Mutant: the callbacks are enqueued whenever resolve or reject is called.
SettleAgain(p, state) ==
    /\ pstate' = [pstate EXCEPT ![p] = state]
    /\ micro' = micro \o
          [n \in DOMAIN thens[p] |-> [coro |-> thens[p][n], err |-> state = "rejected"]]
    /\ thens' = thens

\* js_promise_resolve_func and js_promise_reject_func on a pending promise:
\* each registered callback becomes a microtask, in order of registration.
Settle(p, state) ==
    /\ pstate' = [pstate EXCEPT ![p] = state]
    /\ micro' = micro \o
          [n \in DOMAIN thens[p] |-> [coro |-> thens[p][n], err |-> state = "rejected"]]
    /\ thens' = [thens EXCEPT ![p] = <<>>]

\* A promise of the script or of a native module is settled by the main stack;
\* settling it again changes nothing.
SettleExt(p) ==
    /\ Executing /\ running = <<Main>>
    /\ pstate[p] = "pending"
    /\ \E state \in {"fulfilled", "rejected"} : Settle(p, state)
    /\ UNCHANGED <<coroVars, handlerVars, faultVars, mixed, leaked>>

-----------------------------------------------------------------------------
(* Error handlers *)

NewHandler(x) == [ctx |-> x, id |-> made + 1]

TryBegin ==
    /\ Executing
    /\ made < MaxHandlers
    /\ made' = made + 1
    /\ chain' = <<NewHandler(Current)>> \o chain
    /\ open' = [open EXCEPT ![Current] = Append(@, NewHandler(Current))]
    /\ mixed' = (mixed \/ Meddles)
    /\ UNCHANGED <<promVars, coroVars, saved, faultVars, leaked>>

\* The try blocks of a context; the first handler of a coroutine is the one
\* of its trampoline.
TryDepth(x) == Len(open[x]) - (IF x = Main THEN 0 ELSE 1)

\* do_try_end pops whatever handler is innermost.
TryEnd ==
    /\ Executing
    /\ TryDepth(Current) > 0
    /\ chain' = IF chain = <<>> THEN <<>> ELSE Tail(chain)
    /\ open' = [open EXCEPT ![Current] = Front(@)]
    /\ mixed' = (mixed \/ Meddles)
    /\ UNCHANGED <<promVars, coroVars, saved, made, faultVars, leaked>>

\* A return statement inside a try block is compiled to OP_RETURN alone: the
\* block is left, its handler is not popped.
ReturnInTry ==
    /\ Executing
    /\ TryDepth(Current) > 0
    /\ open' = [open EXCEPT ![Current] = Front(@)]
    /\ leaked' = TRUE
    /\ UNCHANGED <<promVars, coroVars, chain, saved, made, faultVars, mixed>>

-----------------------------------------------------------------------------
(* Coroutines *)

\* A call of an async function: vm_coro_create, vm_coro_resume, and the start
\* of coro_trampoline, which pushes a handler of its own.
CallAsync(c) ==
    /\ Executing
    /\ cstate[c] = "new"
    /\ made < MaxHandlers
    /\ cstate' = [cstate EXCEPT ![c] = "running"]
    /\ running' = Append(running, c)
    /\ made' = made + 1
    /\ saved' = [saved EXCEPT ![c] = chain]
    /\ chain' = <<NewHandler(c)>> \o chain
    /\ open' = [open EXCEPT ![c] = <<NewHandler(c)>>]
    /\ mixed' = (mixed \/ Meddles)
    /\ UNCHANGED <<promVars, raising, faultVars, leaked>>

\* The end of coro_trampoline: restore handler.prev, settle the promise, swap
\* back to whoever resumed the coroutine, which frees it.
Complete(c, state) ==
    /\ chain' = saved[c]
    /\ open' = [open EXCEPT ![c] = <<>>]
    /\ cstate' = [cstate EXCEPT ![c] = "done"]
    /\ running' = Front(running)
    /\ Settle(c, state)

Finish ==
    /\ Executing
    /\ Current \in Coros
    /\ TryDepth(Current) = 0
    /\ Complete(Current, "fulfilled")
    /\ UNCHANGED <<raising, saved, made, faultVars, mixed, leaked>>

\* The innermost handler is that of x's innermost try block (or trampoline).
OwnHandler(x) ==
    chain # <<>> /\ open[x] # <<>> /\ Head(chain) = Last(open[x])

\* vm_throw_error: no handler at all, or longjmp to the innermost one.
Throw ==
    /\ outcome = "ok"
    /\ raising' = FALSE
    /\ \/ /\ chain = <<>>
          /\ outcome' = "exit" /\ thrower' = Current
          /\ UNCHANGED <<promVars, cstate, running, chain, open>>
       \/ /\ OwnHandler(Current)
          /\ IF TryDepth(Current) > 0
             THEN /\ chain' = Tail(chain)
                  /\ open' = [open EXCEPT ![Current] = Front(@)]
                  /\ UNCHANGED <<promVars, cstate, running>>
             ELSE Complete(Current, "rejected")
          /\ UNCHANGED faultVars
       \/ /\ chain # <<>> /\ ~OwnHandler(Current)
          /\ outcome' = "wrong" /\ thrower' = Current
          /\ UNCHANGED <<promVars, cstate, running, chain, open>>
    /\ mixed' = (mixed \/ Meddles)
    /\ UNCHANGED <<saved, made, leaked>>

\* do_await on a promise: then(resume, resumeThrow), and vm_coro_suspend swaps
\* back to the resumer.  vm->error_handler stays as it is.
Await(p) ==
    /\ Executing
    /\ Current \in Coros
    /\ IF pstate[p] = "pending"
       THEN thens' = [thens EXCEPT ![p] = Append(@, Current)] /\ UNCHANGED micro
       ELSE /\ micro' = Append(micro, [coro |-> Current, err |-> pstate[p] = "rejected"])
            /\ UNCHANGED thens
    /\ cstate' = [cstate EXCEPT ![Current] = "suspended"]
    /\ running' = Front(running)
    /\ mixed' = (mixed \/ ~Alone)
    /\ UNCHANGED <<pstate, raising, handlerVars, faultVars, leaked>>

\* do_await on a value that has no then method.
AwaitValue ==
    /\ Executing
    /\ Current \in Coros
    /\ micro' = Append(micro, [coro |-> Current, err |-> FALSE])
    /\ cstate' = [cstate EXCEPT ![Current] = "suspended"]
    /\ running' = Front(running)
    /\ mixed' = (mixed \/ ~Alone)
    /\ UNCHANGED <<pstate, thens, raising, handlerVars, faultVars, leaked>>

\* Mutant: the newest entry runs first.
ResumeNewest ==
    /\ Executing /\ running = <<Main>> /\ open[Main] = <<>>
    /\ micro # <<>>
    /\ LET m == Last(micro)
       IN  /\ cstate' = [cstate EXCEPT ![m.coro] = "running"]
           /\ running' = Append(running, m.coro)
           /\ raising' = m.err
    /\ micro' = Front(micro)
    /\ UNCHANGED <<pstate, thens, handlerVars, faultVars, mixed, leaked>>

\* A microtask, coro_resume_helper or coro_resume_throw_helper: vm_coro_resume
\* the coroutine.  The main stack drains the queue outside any function.
Resume ==
    /\ Executing /\ running = <<Main>> /\ open[Main] = <<>>
    /\ micro # <<>>
    /\ LET m == Head(micro)
       IN  /\ cstate' = [cstate EXCEPT ![m.coro] = "running"]
           /\ running' = Append(running, m.coro)
           /\ raising' = m.err
    /\ micro' = Tail(micro)
    /\ UNCHANGED <<pstate, thens, handlerVars, faultVars, mixed, leaked>>

-----------------------------------------------------------------------------
Next ==
    \/ \E p \in Ext : SettleExt(p)
    \/ TryBegin
    \/ TryEnd
    \/ ReturnInTry
    \/ \E c \in Coros : CallAsync(c)
    \/ Finish
    \/ Throw
    \/ \E p \in Promises : Await(p)
    \/ AwaitValue
    \/ Resume

Spec == Init /\ [][Next]_vars

\* The running coroutine comes to its end or to an await.
Leave == Finish \/ AwaitValue \/ \E p \in Promises : Await(p)

\* A coroutine does not run for ever (it may go on awaiting for ever), a pending
\* throw happens, and the main stack leaves its try blocks and returns to the
\* drain of its microtasks.
Fairness ==
    /\ WF_vars(Leave)
    /\ WF_vars(running = <<Main>> /\ TryEnd)
    /\ WF_vars(raising /\ Throw)
    /\ WF_vars(Resume)

FairSpec == Spec /\ Fairness

-----------------------------------------------------------------------------
(* Properties *)

Resumptions(c) ==
    Cardinality({n \in DOMAIN micro : micro[n].coro = c})
    + Cardinality({<<p, n>> \in Promises \X (1..Cardinality(Coros)) :
                      n \in DOMAIN thens[p] /\ thens[p][n] = c})

\* Every suspended coroutine is waited for in exactly one place, a promise that
\* is still pending or the microtask queue, and no other coroutine is: none is
\* lost, none is resumed twice, none is resumed after vm_coro_resume freed it.
OneResumption ==
    \A c \in Coros : Resumptions(c) = IF cstate[c] = "suspended" THEN 1 ELSE 0

\* As long as a coroutine awaits only when it is alone, nobody uses the chain
\* meanwhile and no function returned out of a try block, vm->error_handler is
\* the handler of the innermost try block of the running context, or of its
\* trampoline; behind the handlers of a coroutine come those of its caller.
\* That is so again when a coroutine was resumed inside a try block.
HandlersNest ==
    ~mixed /\ ~leaked /\ Suspended = {} =>
        chain = FlattenSeq([n \in DOMAIN running |->
                              Reverse(open[running[Len(running) + 1 - n]])])

\* Hence every error is caught where it should be: only the main stack, outside
\* any try block, ends the process.
ErrorsStayLocal ==
    ~mixed /\ ~leaked =>
        outcome = "ok" \/ (outcome = "exit" /\ thrower = Main /\ open[Main] = <<>>)

-----------------------------------------------------------------------------
(* What a comment says and the code does not do *)

\* "Set up local error handler so coroutine exceptions don't crash the VM": an
\* error thrown by a coroutine never reaches exit(1).
CoroutineErrorsContained == outcome = "exit" => thrower = Main

=============================================================================

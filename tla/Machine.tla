------------------------------- MODULE Machine -------------------------------
(***************************************************************************)
(* The interpreter loop of src/src/vm.c (vm_run, vm_call_function,         *)
(* vm_throw_error) running what Compiler emits, one instruction a step,    *)
(* and what the program should do by the rules of the language.            *)
(*                                                                         *)
(* cause collects what is known to go wrong on the way: a jump that was    *)
(* never completed, a variable read from a register of another function,   *)
(* a call whose arguments are not where it looks for them, a variable of   *)
(* a case whose register was given back, a closure's variable declared     *)
(* again, a handler left behind by a return, a caught value put into a     *)
(* register in use.  A program that meets none of them does what it says.  *)
(***************************************************************************)
EXTENDS Compiler

CONSTANTS Programs,     \* source programs: blocks of the small language
          MaxRegs,      \* registers of the machine
          MaxSteps      \* instructions a program may take

VARIABLES
    prog,               \* the source, its scopes, then [code, fns, regs]
    want,               \* what the source means: [out, throws]
    pc, regs, frames, handlers, regCount, envs, out, cause, status, steps

vars == <<prog, want, pc, regs, frames, handlers, regCount, envs, out, cause, status, steps>>

V(k, n, e) == [k |-> k, n |-> n, e |-> e]
Undef == V("undef", 0, 0)
Hole == V("uninitialized", 0, 0)
Num(n) == V("num", n, 0)
TypeError == V("TypeError", 0, 0)
ReferenceError == V("ReferenceError", 0, 0)
Global(x) == IF x \in {"log", "apply"} THEN V(x, 0, 0) ELSE Undef

\* is_truthy; comparisons give the numbers 0 and 1 here.
Truthy(v) == v.k \notin {"undef", "uninitialized"} /\ v # Num(0)

\* add_values, sub_values, compare_values on numbers; anything else is made a
\* number first, or a string by +.
N(v) == IF v.k = "num" THEN v.n ELSE 0
Binary(op, a, b) ==
    CASE op = "+" -> IF a.k = "num" /\ b.k = "num" THEN Num(a.n + b.n) ELSE V("string", 0, 0)
      [] op = "-" -> Num(N(a) - N(b))
      [] op = "<" -> Num(IF N(a) < N(b) THEN 1 ELSE 0)
      [] op = "==" -> Num(IF a = b THEN 1 ELSE 0)

-----------------------------------------------------------------------------
(* What the program means: a completion [c, v, st], c among normal, break,  *)
(* continue, return and throw; st = [envs, out], environments by name.     *)

Done(v, st) == [c |-> "normal", v |-> v, st |-> st]
Then(r, F(_, _)) == IF r.c = "normal" THEN F(r.v, r.st) ELSE r

RECURSIVE Holder(_, _, _)
Holder(st, e, x) ==
    IF e = 0 THEN 0 ELSE IF x \in DOMAIN st.envs[e].vals THEN e ELSE Holder(st, st.envs[e].up, x)

Enclose(st, up) == [st EXCEPT !.envs = Append(@, [up |-> up, vals |-> <<>>])]
Bind(st, e, x, v) ==
    [st EXCEPT !.envs[e].vals = (x :> v) @@ @]

RECURSIVE Do(_, _, _), DoAll(_, _, _), DoLoop(_, _, _), DoCases(_, _, _), DoArgs(_, _, _, _)

DoAll(ns, e, st) ==
    IF ns = <<>> THEN Done(Undef, st)
    ELSE LET r == Do(Head(ns), e, st)
         IN  IF r.c # "normal" THEN r ELSE DoAll(Tail(ns), e, r.st)

DoBlock(n, e, st) == DoAll(n.ss, Len(st.envs) + 1, Enclose(st, e))

\* A loop without its initialization; a do loop is its body, then a while loop.
DoLoop(n, e, st) ==
    LET c == Do(n.c, e, st)
        r == Do(n.body, e, c.st)
        u == IF n.t = "for" THEN Do(n.upd, e, r.st) ELSE r
    IN  IF c.c # "normal" THEN c
        ELSE IF ~Truthy(c.v) \/ r.c = "break" THEN Done(Undef, IF Truthy(c.v) THEN r.st ELSE c.st)
        ELSE IF r.c \in {"return", "throw"} THEN r
        ELSE IF u.c = "throw" THEN u
        ELSE DoLoop(n, e, u.st)

Invoke(f, args, st) ==
    LET n == f.n
        e == Len(st.envs) + 1
        r == Do(n.body, e, Bind(Enclose(st, f.e), e, n.p, IF args = <<>> THEN Undef ELSE args[1]))
    IN  IF f.k = "log" THEN Done(Undef, [st EXCEPT !.out = Append(@, args[1])])
        ELSE IF f.k # "fn" THEN [c |-> "throw", v |-> TypeError, st |-> st]
        ELSE IF r.c = "throw" THEN r
        ELSE Done(IF r.c = "return" THEN r.v ELSE Undef, r.st)

DoArgs(ns, e, st, vals) ==
    IF ns # <<>> THEN Then(Do(Head(ns), e, st), LAMBDA v, st1 : DoArgs(Tail(ns), e, st1, Append(vals, v)))
    ELSE IF vals[1].k = "apply" THEN Invoke(vals[2], <<vals[3]>>, st)
    ELSE Invoke(vals[1], Tail(vals), st)

DoTry(n, e, st) ==
    LET r == Do(n.body, e, st)
        h == Len(r.st.envs) + 1
        r2 == IF r.c # "throw" \/ n.handler.t = "none" THEN r
              ELSE DoAll(n.handler.ss, h, Bind(Enclose(r.st, e), h, n.x, r.v))
        r3 == Do(n.final, e, r2.st)
    IN  IF n.final.t = "none" THEN r2 ELSE IF r3.c # "normal" THEN r3 ELSE [r2 EXCEPT !.st = r3.st]

\* The case that is entered: the first that matches, or else the default.
Entry(cases, v) ==
    LET hit == {k \in DOMAIN cases : cases[k].test.t = "num" /\ Num(cases[k].test.v) = v}
        other == {k \in DOMAIN cases : cases[k].test.t = "default"}
    IN  Min(IF hit # {} THEN hit ELSE other \cup {Len(cases) + 1})

DoCases(n, e, st) ==
    Then(Do(n.e, e, st), LAMBDA v, st1 :
        LET bodies == [k \in 1 .. Len(n.cases) - Entry(n.cases, v) + 1 |->
                         [t |-> "inline", ss |-> n.cases[k + Entry(n.cases, v) - 1].body]]
            r == DoAll(bodies, e, st1)
        IN  IF r.c = "break" THEN Done(Undef, r.st) ELSE r)

Do(n, e, st) ==
    CASE n.t = "num" -> Done(Num(n.v), st)
      [] n.t = "none" -> Done(Undef, st)
      [] n.t = "var" ->
            LET h == Holder(st, e, n.x)
            IN  Done(IF h = 0 THEN Global(n.x) ELSE st.envs[h].vals[n.x], st)
      [] n.t = "let" -> Then(Do(n.e, e, st), LAMBDA v, st1 : Done(Undef, Bind(st1, e, n.x, v)))
      [] n.t = "assign" ->
            Then(Do(n.e, e, st), LAMBDA v, st1 : Done(v, Bind(st1, Holder(st1, e, n.x), n.x, v)))
      [] n.t = "compound" ->
            Then(Do([t |-> "var", x |-> n.x], e, st), LAMBDA a, st1 :
                IF \/ n.op = "&&" /\ ~Truthy(a)
                   \/ n.op = "||" /\ Truthy(a)
                   \/ n.op = "??" /\ a # Undef
                THEN Done(a, st1)
                ELSE Then(Do(n.e, e, st1), LAMBDA b, st2 :
                    LET v == IF n.op \in {"+", "-"} THEN Binary(n.op, a, b) ELSE b
                    IN  Done(v, Bind(st2, Holder(st2, e, n.x), n.x, v))))
      [] n.t = "step" ->
            Then(Do([t |-> "var", x |-> n.x], e, st), LAMBDA a, st1 :
                LET v == Binary(n.op, a, Num(1))
                IN  Done(IF n.prefix THEN v ELSE a, Bind(st1, Holder(st1, e, n.x), n.x, v)))
      [] n.t = "not" -> Then(Do(n.e, e, st), LAMBDA v, st1 : Done(Num(IF Truthy(v) THEN 0 ELSE 1), st1))
      [] n.t = "bin" ->
            Then(Do(n.l, e, st), LAMBDA a, st1 :
                Then(Do(n.r, e, st1), LAMBDA b, st2 : Done(Binary(n.op, a, b), st2)))
      [] n.t = "logic" ->
            Then(Do(n.l, e, st), LAMBDA a, st1 :
                IF (n.op = "??" /\ a # Undef) \/ (n.op # "??" /\ Truthy(a) = (n.op = "||"))
                THEN Done(a, st1) ELSE Do(n.r, e, st1))
      [] n.t \in {"cond", "if"} ->
            Then(Do(n.c, e, st), LAMBDA v, st1 : Do(IF Truthy(v) THEN n.y ELSE n.z, e, st1))
      [] n.t = "call" -> DoArgs(<<n.f>> \o n.args, e, st, <<>>)
      [] n.t = "block" -> DoBlock(n, e, st)
      [] n.t = "inline" -> DoAll(n.ss, e, st)
      [] n.t = "while" -> DoLoop(n, e, st)
      [] n.t = "do" ->
            LET r == Do(n.body, e, st)
            IN  IF r.c = "break" THEN Done(Undef, r.st)
                ELSE IF r.c \in {"return", "throw"} THEN r ELSE DoLoop(n, e, r.st)
      [] n.t = "for" ->
            LET e1 == Len(st.envs) + 1
            IN  Then(Do(n.init, e1, Enclose(st, e)), LAMBDA v, st1 : DoLoop(n, e1, st1))
      [] n.t \in {"break", "continue"} -> [c |-> n.t, v |-> Undef, st |-> st]
      [] n.t = "switch" -> DoCases(n, e, st)
      [] n.t = "try" -> DoTry(n, e, st)
      [] n.t \in {"return", "throw"} ->
            Then(Do(n.e, e, st), LAMBDA v, st1 : [c |-> n.t, v |-> v, st |-> st1])
      [] n.t = "fn" ->
            LET f == V("fn", n, e)
            IN  Done(f, IF n.name = "" THEN st ELSE Bind(st, e, n.name, f))
      [] n.t = "expr" -> Do(n.e, e, st)

Meaning(p) == Do(p, 0, [envs |-> <<>>, out |-> <<>>])

-----------------------------------------------------------------------------
(* The interpreter *)

Inst == prog.code[pc + 1]
Frame == frames[Len(frames)]
Reg(r) == regs[Frame.base + r]
Set(r, v) == [regs EXCEPT ![Frame.base + r] = v]

Begin ==
    /\ want = [out |-> <<>>, throws |-> FALSE]
    /\ pc = 0
    /\ regs = <<>>
    /\ frames = <<>>
    /\ regCount = 0
    /\ handlers = <<>>
    /\ envs = <<>>
    /\ out = <<>>
    /\ cause = {}
    /\ status = "parsed"
    /\ steps = 0

Init == (\E p \in Programs : prog = [root |-> p]) /\ Begin

\* compile_source, its two passes; then vm_run makes the first frame.
ResolvePass ==
    /\ status = "parsed"
    /\ prog' = [root |-> prog.root, scopes |-> ResolveSource(prog.root)]
    /\ LET r == Meaning(prog.root) IN want' = [out |-> r.st.out, throws |-> r.c = "throw"]
    /\ status' = "resolved"
    /\ UNCHANGED <<pc, regs, frames, handlers, regCount, envs, out, cause, steps>>

EmitPass ==
    /\ status = "resolved"
    /\ prog' = CompileResolved(prog.root, prog.scopes)
    /\ frames' = <<[base |-> 0, count |-> prog'.regs, env |-> 0, ip |-> 0, nested |-> FALSE]>>
    /\ regCount' = prog'.regs
    /\ regs' = [r \in 0 .. MaxRegs - 1 |-> Undef]
    /\ status' = "running"
    /\ UNCHANGED <<want, pc, handlers, envs, out, cause, steps>>

\* What every instruction does besides its own effect.
Run(ops) ==
    /\ status = "running"
    /\ steps < MaxSteps
    /\ Inst.op \in ops
    /\ steps' = steps + 1
    /\ UNCHANGED <<prog, want>>

Noting(more) == cause' = cause \cup ({Inst.why} \ {"", "again"}) \cup more

Write(v) ==
    /\ regs' = Set(Inst.a, v)
    /\ pc' = pc + 1
    /\ UNCHANGED <<frames, handlers, regCount, out, status>>

\* do_load_int, do_load_undefined, do_load_global.
Load ==
    /\ Run({"int", "undefined", "loadglobal"})
    /\ Write(CASE Inst.op = "int" -> Num(Inst.b)
               [] Inst.op = "undefined" -> Undef
               [] OTHER -> Global(Inst.b))
    /\ Noting({})
    /\ UNCHANGED envs

\* do_move and the operators.
Operate ==
    /\ Run({"move", "!", "+", "-", "<", "=="})
    /\ Write(CASE Inst.op = "move" -> Reg(Inst.b)
               [] Inst.op = "!" -> Num(IF Truthy(Reg(Inst.b)) THEN 0 ELSE 1)
               [] OTHER -> Binary(Inst.op, Reg(Inst.b), Reg(Inst.c)))
    /\ Noting({})
    /\ UNCHANGED envs

\* do_new_function: the closure keeps the environment of the frame.
NewFunction ==
    /\ Run({"function"})
    /\ Write(V("fn", Inst.b, Frame.env))
    /\ Noting({})
    /\ UNCHANGED envs

\* do_new_env.
NewEnv ==
    /\ Run({"newenv"})
    /\ envs' = Append(envs, [up |-> Frame.env, vals |-> [i \in 0 .. Inst.b - 1 |-> Hole]])
    /\ regs' = Set(Inst.a, V("env", Len(envs) + 1, 0))
    /\ frames' = [frames EXCEPT ![Len(frames)].env = Len(envs) + 1]
    /\ pc' = pc + 1
    /\ Noting({})
    /\ UNCHANGED <<handlers, regCount, out, status>>

RECURSIVE Outward(_, _)
Outward(e, depth) == IF depth = 0 THEN e ELSE Outward(envs[e].up, depth - 1)

\* do_store_env.
StoreEnv ==
    LET e == Outward(Frame.env, Inst.c)
    IN  /\ Run({"storeenv"})
        /\ envs' = [envs EXCEPT ![e].vals[Inst.b] = Reg(Inst.a)]
        /\ pc' = pc + 1
        /\ Noting(IF Inst.why = "again" /\ envs[e].vals[Inst.b] # Hole THEN {"again"} ELSE {})
        /\ UNCHANGED <<regs, frames, handlers, regCount, out, status>>

\* vm_throw_error and the second return of setjmp in do_try_begin: back to the
\* frame that set the newest handler, with the value in the first register
\* above those the machine counts.  A handler of a frame that is gone brings
\* back whatever the array of frames holds there: the run ends as lost.
Throw(v) ==
    LET h == handlers[Len(handlers)]
        live == SubSeq(frames, 1, h.frames)
    IN  IF handlers = <<>>
        THEN /\ status' = "uncaught"
             /\ Noting({})
             /\ UNCHANGED <<pc, regs, frames, handlers, regCount>>
        ELSE IF h.frames > Len(frames)
        THEN /\ status' = "lost"
             /\ Noting({})
             /\ UNCHANGED <<pc, regs, frames, handlers, regCount>>
        ELSE /\ frames' = live
             /\ pc' = h.pc
             /\ regCount' = h.regs
             /\ regs' = [regs EXCEPT ![h.regs] = v]
             /\ handlers' = SubSeq(handlers, 1, Len(handlers) - 1)
             /\ Noting(IF \E i \in DOMAIN live : h.regs \in live[i].base .. live[i].base + live[i].count - 1
                       THEN {"slot"} ELSE {})
             /\ UNCHANGED status

\* do_load_env: a variable that is not initialized yet throws.
LoadEnv ==
    LET v == envs[Outward(Frame.env, Inst.c)].vals[Inst.b]
    IN  /\ Run({"loadenv"})
        /\ IF v = Hole THEN Throw(ReferenceError) /\ UNCHANGED out ELSE Write(v) /\ Noting({})
        /\ UNCHANGED envs

\* do_jump, do_jump_if_true, do_jump_if_false, do_jump_if_nullish.
Jump ==
    /\ Run({"jump", "jumptrue", "jumpfalse", "jumpnullish"})
    /\ pc' = pc + 1 + (IF \/ Inst.op = "jump"
                          \/ Inst.op = "jumptrue" /\ Truthy(Reg(Inst.a))
                          \/ Inst.op = "jumpfalse" /\ ~Truthy(Reg(Inst.a))
                          \/ Inst.op = "jumpnullish" /\ Reg(Inst.a) = Undef THEN Inst.b ELSE 0)
    /\ Noting({})
    /\ UNCHANGED <<regs, frames, handlers, regCount, envs, out, status>>

\* A frame for function value f whose registers start at base.
Enter(f, base, nested) ==
    LET fn == prog.fns[f.n]
    IN  /\ frames' = Append([frames EXCEPT ![Len(frames)].ip = pc],
                            [base |-> base, count |-> fn.regs, env |-> f.e, ip |-> 0, nested |-> nested])
        /\ pc' = fn.at
        /\ Noting({})
        /\ UNCHANGED <<handlers, envs, out, status>>

\* do_call of a compiled function: its registers overlay the caller's from the
\* first argument on.
Call ==
    LET f == Reg(Inst.b)
        base == Frame.base + Inst.b + 1
    IN  /\ Run({"call"})
        /\ f.k = "fn"
        /\ Enter(f, base, FALSE)
        /\ regs' = [r \in DOMAIN regs |->
                      IF r \in base + Inst.c .. base + prog.fns[f.n].regs - 1 THEN Undef ELSE regs[r]]
        /\ UNCHANGED regCount

\* do_call of a native function that prints its argument.
CallLog ==
    /\ Run({"call"})
    /\ Reg(Inst.b).k = "log"
    /\ out' = Append(out, Reg(Inst.b + 1))
    /\ regs' = Set(Inst.a, Undef)
    /\ pc' = pc + 1
    /\ Noting({})
    /\ UNCHANGED <<frames, handlers, regCount, envs, status>>

\* do_call of a native function that calls its first argument with the second:
\* vm_call_function runs it above the registers of the active frame, in a loop
\* of its own.
CallApply ==
    LET f == Reg(Inst.b + 1)
        base == Frame.base + Frame.count
        fn == prog.fns[f.n]
    IN  /\ Run({"call"})
        /\ Reg(Inst.b).k = "apply"
        /\ f.k = "fn"
        /\ Enter(f, base + 1, TRUE)
        /\ regCount' = regCount + 1 + fn.regs
        /\ regs' = [r \in DOMAIN regs |->
                      IF r = base THEN f
                      ELSE IF r = base + 1 THEN Reg(Inst.b + 2)
                      ELSE IF r \in base + 2 .. base + fn.regs - 1 THEN Undef ELSE regs[r]]

\* do_call of anything else.
CallOther ==
    LET f == Reg(Inst.b)
    IN  /\ Run({"call"})
        /\ \/ f.k \notin {"fn", "log", "apply"}
           \/ f.k = "apply" /\ Reg(Inst.b + 1).k \notin {"fn", "log", "apply"}
        /\ Throw(TypeError)
        /\ UNCHANGED <<envs, out>>

\* do_return: the result goes to the register the calling instruction names.
\* Out of a nested loop, vm_call_function counts the registers anew.
Return ==
    LET caller == frames[Len(frames) - 1]
    IN  /\ Run({"return"})
        /\ Noting(IF \E i \in DOMAIN handlers : handlers[i].frames = Len(frames)
                  THEN {"handler"} ELSE {})
        /\ IF Len(frames) = 1
           THEN status' = "done" /\ UNCHANGED <<pc, regs, frames, regCount>>
           ELSE /\ frames' = SubSeq(frames, 1, Len(frames) - 1)
                /\ regs' = [regs EXCEPT ![caller.base + prog.code[caller.ip + 1].a] = Reg(Inst.a)]
                /\ pc' = caller.ip + 1
                /\ regCount' = IF Frame.nested THEN caller.base + caller.count ELSE regCount
                /\ UNCHANGED status
        /\ UNCHANGED <<handlers, envs, out>>

\* do_throw.
ThrowOp ==
    /\ Run({"throw"})
    /\ Throw(Reg(Inst.a))
    /\ UNCHANGED <<envs, out>>

\* do_try_begin, do_try_end, do_catch_begin.
TryBegin ==
    /\ Run({"try"})
    /\ handlers' = Append(handlers, [frames |-> Len(frames), regs |-> regCount, pc |-> pc + Inst.b + 1])
    /\ pc' = pc + 1
    /\ Noting({})
    /\ UNCHANGED <<regs, frames, regCount, envs, out, status>>

TryEnd ==
    /\ Run({"endtry"})
    /\ handlers' = SubSeq(handlers, 1, Len(handlers) - 1)
    /\ pc' = pc + 1
    /\ Noting({})
    /\ UNCHANGED <<regs, frames, regCount, envs, out, status>>

CatchBegin ==
    /\ Run({"catch"})
    /\ Write(regs[regCount])
    /\ Noting({})
    /\ UNCHANGED envs

Next == \/ ResolvePass \/ EmitPass
        \/ Load \/ Operate \/ NewFunction \/ NewEnv \/ StoreEnv \/ LoadEnv \/ Jump
        \/ Call \/ CallLog \/ CallApply \/ CallOther \/ Return
        \/ ThrowOp \/ TryBegin \/ TryEnd \/ CatchBegin

Spec == Init /\ [][Next]_vars

-----------------------------------------------------------------------------
(* Properties *)

Halted == status \in {"done", "uncaught"}

TypeOK ==
    /\ status = "running" => pc \in 0 .. Len(prog.code) - 1
    /\ regCount \in 0 .. MaxRegs - 1
    /\ status \in {"parsed", "resolved", "running", "done", "uncaught", "lost"}
    /\ \A i \in DOMAIN frames : frames[i].base + frames[i].count <= MaxRegs
    /\ \A i \in DOMAIN handlers : handlers[i].frames \in Nat \ {0}

\* A compiled program prints what the source says, in that order, and ends the
\* same way, unless it met one of the known causes: registers of calls overlay
\* each other, finally blocks exist twice and exceptions cross frames without
\* one value ending up in another's place.
RunsAsWritten ==
    Halted /\ cause = {} =>
        out = want.out /\ (status = "uncaught") = want.throws

\* break and continue jump out of the statement they are written in: AST_BREAK
\* records a placeholder "for later patching".
BreaksLeave ==
    Halted /\ cause \subseteq {"unpatched", "fallthrough"} => out = want.out
=============================================================================

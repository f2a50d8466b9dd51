------------------------------ MODULE Compiler ------------------------------
(***************************************************************************)
(* The back end of src/src/compiler.c: scope resolution and the emission   *)
(* of register code, for the part of the language that has control flow.   *)
(* A program is a tree of records [t |-> kind, ...]; a node that owns a    *)
(* scope has a number id.  Instructions are [op, a, b, c, why]: jumps keep *)
(* their offset in b, and why is no part of the code: it names what the    *)
(* compiler did when it could not do what the program says ("" otherwise). *)
(***************************************************************************)
EXTENDS Integers, Sequences, FiniteSets, FiniteSetsExt, Functions, TLC

None == -1
I(op, a, b, c) == [op |-> op, a |-> a, b |-> b, c |-> c, why |-> ""]

-----------------------------------------------------------------------------
(* Scopes: number -> [up, fn, captured, syms: name -> [reg, env]] *)

Symbol == [reg |-> None, env |-> None]
Captured(sym) == sym.env # None

Scope(up, fn) == [up |-> up, fn |-> fn, captured |-> 0, syms |-> <<>>]

AddSymbol(sc, s, x) ==
    IF x \in DOMAIN sc[s].syms THEN sc
    ELSE [sc EXCEPT ![s].syms = @ @@ (x :> Symbol)]

OpenScope(sc, id, up, fn) == (id :> Scope(up, fn)) @@ sc

\* The scope that declares x, and the number of functions crossed on the way.
RECURSIVE LookupResolve(_, _, _, _)
LookupResolve(sc, s, x, depth) ==
    IF s = 0 THEN [s |-> 0, depth |-> 0]
    ELSE IF x \in DOMAIN sc[s].syms THEN [s |-> s, depth |-> depth]
    ELSE LookupResolve(sc, sc[s].up, x, IF sc[s].fn THEN depth + 1 ELSE depth)

\* The same when code is emitted: environments crossed are counted.
RECURSIVE LookupCodegen(_, _, _, _)
LookupCodegen(sc, s, x, depth) ==
    IF s = 0 THEN [s |-> 0, depth |-> 0]
    ELSE IF x \in DOMAIN sc[s].syms THEN [s |-> s, depth |-> depth]
    ELSE LookupCodegen(sc, sc[s].up, x, IF sc[s].captured > 0 THEN depth + 1 ELSE depth)

RECURSIVE FunctionScope(_, _)
FunctionScope(sc, s) == IF sc[s].fn \/ sc[s].up = 0 THEN s ELSE FunctionScope(sc, sc[s].up)

\* A use of x in a function below the one that declares it gives x a place in
\* the environment of the declaring function.
Capture(sc, s, x) ==
    LET l == LookupResolve(sc, s, x, 0)
        f == FunctionScope(sc, l.s)
    IN  IF l.s = 0 THEN sc
        ELSE IF l.depth = 0 \/ Captured(sc[l.s].syms[x]) THEN sc
        ELSE [sc EXCEPT ![l.s].syms[x].env = sc[f].captured, ![f].captured = @ + 1]

\* resolve_identifiers: declarations are added as they are met, in the order
\* of the text; a name used by a function before it is declared is not found.
RECURSIVE Resolve(_, _, _), ResolveAll(_, _, _)
ResolveAll(ns, s, sc) ==
    IF ns = <<>> \/ sc = <<>> THEN sc ELSE ResolveAll(Tail(ns), s, Resolve(Head(ns), s, sc))

Resolve(n, s, sc) ==
    CASE sc = <<>> \/ n.t = "none" -> sc
      [] n.t = "var" -> Capture(sc, s, n.x)
      [] n.t = "let" -> Resolve(n.e, s, AddSymbol(sc, s, n.x))
      [] n.t \in {"assign", "compound"} -> Resolve(n.e, s, Capture(sc, s, n.x))
      [] n.t = "step" -> Capture(sc, s, n.x)
      [] n.t \in {"bin", "logic"} -> ResolveAll(<<n.l, n.r>>, s, sc)
      [] n.t = "cond" -> ResolveAll(<<n.c, n.y, n.z>>, s, sc)
      [] n.t = "call" -> ResolveAll(<<n.f>> \o n.args, s, sc)
      [] n.t = "block" -> ResolveAll(n.ss, n.id, OpenScope(sc, n.id, s, FALSE))
      [] n.t = "if" -> ResolveAll(<<n.c, n.y, n.z>>, s, sc)
      [] n.t \in {"while", "do"} -> ResolveAll(<<n.c, n.body>>, s, sc)
      [] n.t = "for" ->
            ResolveAll(<<n.init, n.c, n.upd, n.body>>, n.id, OpenScope(sc, n.id, s, FALSE))
      [] n.t = "switch" -> ResolveAll(<<n.e>> \o n.cases, s, sc)
      [] n.t = "case" -> ResolveAll(<<n.test>> \o n.body, s, sc)
      [] n.t \in {"return", "throw", "expr", "not"} -> Resolve(n.e, s, sc)
      [] n.t = "fn" ->
            LET sc1 == OpenScope(sc, n.id, s, TRUE)
                sc2 == AddSymbol(sc1, n.id, n.p)
            IN  Resolve(n.body, n.id, IF n.name = "" THEN sc2 ELSE AddSymbol(sc2, s, n.name))
      [] n.t = "try" ->
            LET sc1 == Resolve(n.body, s, sc)
                sc2 == ResolveAll(n.handler.ss, n.handler.id,
                          AddSymbol(OpenScope(sc1, n.handler.id, s, FALSE), n.handler.id, n.x))
            IN  Resolve(n.final, s, IF n.handler.t = "none" THEN sc1 ELSE sc2)
      [] OTHER -> sc

-----------------------------------------------------------------------------
(* The emitter: [code, next, max, breaks, fns, sc] *)

Here(e) == Len(e.code)
Emit(e, i) == [e EXCEPT !.code = Append(@, i)]
Alloc(e) == [e EXCEPT !.next = @ + 1, !.max = Max({@, e.next + 1})]
Free(e, r) == [e EXCEPT !.next = r]

\* (int16_t): an offset beyond 16 bits wraps around, without an error.
Int16(n) == ((n + 2^15) % 2^16) - 2^15

\* Mutant: the jump out of a block that ends the code is one short.
PatchShort(e, at) == [e EXCEPT !.code[at + 1].b = Int16(Here(e) - at - 2)]

\* The jump at address at goes to the next instruction emitted.
Patch(e, at) == [e EXCEPT !.code[at + 1].b = Int16(Here(e) - at - 1)]
JumpBack(e, op, r, start) == Emit(e, I(op, r, Int16(start - Here(e) - 1), 0))
Because(e, why) == [e EXCEPT !.code[Here(e)].why = why]
Undefined(e, d) == Emit(e, I("undefined", d, 0, 0))

\* The emitter after a sequence of emissions, each of which builds on the last.
After(es) == es[Len(es)]

SetReg(e, s, x, r) == [e EXCEPT !.sc[s].syms[x].reg = r]

\* A register for a variable that has none yet.
Place(e, s, x) == IF e.sc[s].syms[x].reg = None THEN SetReg(Alloc(e), s, x, e.next) ELSE e

\* Registers above the variables of scope s, and not below r.
Boundary(e, s, r) == Max({r} \cup {e.sc[s].syms[x].reg + 1 : x \in DOMAIN e.sc[s].syms})

RECURSIVE Compile(_, _, _, _), CompileArgs(_, _, _, _), CompileBlock(_, _, _)

\* AST_IDENTIFIER.  A name that is found, is not captured and belongs to
\* another function is read from a register of this one.
CompileVar(n, s, e, d) ==
    LET l == LookupCodegen(e.sc, s, n.x, 0)
        sym == e.sc[l.s].syms[n.x]
        e1 == Place(e, l.s, n.x)
        moved == Emit(e1, I("move", d, e1.sc[l.s].syms[n.x].reg, 0))
    IN  IF l.s = 0 THEN Emit(e, I("loadglobal", d, n.x, 0))
        ELSE IF Captured(sym) THEN Emit(e, I("loadenv", d, sym.env, l.depth))
        ELSE IF FunctionScope(e.sc, l.s) # FunctionScope(e.sc, s) THEN Because(moved, "foreign")
        ELSE IF sym.reg = None THEN Because(moved, "early") ELSE moved

\* emit_store_lvalue for a name.
StoreVar(x, r, s, e) ==
    LET l == LookupCodegen(e.sc, s, x, 0)
        sym == e.sc[l.s].syms[x]
        moved == Emit(e, I("move", sym.reg % 256, r, 0))
    IN  IF l.s = 0 THEN Emit(e, I("storeglobal", r, x, 0))
        ELSE IF Captured(sym) THEN Emit(e, I("storeenv", r, sym.env, l.depth))
        ELSE IF FunctionScope(e.sc, l.s) # FunctionScope(e.sc, s) THEN Because(moved, "foreign")
        ELSE IF sym.reg = None THEN Because(moved, "early") ELSE moved

\* AST_VAR_DECL with a simple binding.  A captured variable has one place for
\* all the times its block is entered.
CompileLet(n, s, e, d) ==
    LET sym == e.sc[s].syms[n.x]
        e1 == IF Captured(sym) THEN e ELSE Place(e, s, n.x)
        t == e1.next
        e2 == Compile(n.e, s, Alloc(e1), t)
        e3 == IF Captured(sym) THEN Because(Emit(e2, I("storeenv", t, sym.env, 0)), "again")
              ELSE Emit(e2, I("move", e2.sc[s].syms[n.x].reg, t, 0))
    IN  After(<<e2, Undefined(Free(e3, t), d)>>)

\* AST_ASSIGN, plain.
CompileAssign(n, s, e, d) ==
    LET v == e.next
        e1 == Compile(n.e, s, Alloc(e), v)
        e2 == StoreVar(n.x, v, s, e1)
    IN  After(<<e1, Free(Emit(e2, I("move", d, v, 0)), v)>>)

\* AST_ASSIGN, compound: the value is evaluated and stored only if the old one
\* asks for it, or always, behind the old one, for an operator.
CompileCompound(n, s, e, d) ==
    LET v == e.next
        old == CompileVar(n, s, Alloc(e), v)
        at == Here(old)
        nullish == Patch(Emit(Emit(old, I("jumpnullish", v, 0, 0)), I("jump", 0, 0, 0)), at)
        e1 == Compile(n.e, s, CASE n.op = "&&" -> Emit(old, I("jumpfalse", v, 0, 0))
                                [] n.op = "||" -> Emit(old, I("jumptrue", v, 0, 0))
                                [] OTHER -> nullish, v)
        e2 == Patch(StoreVar(n.x, v, s, e1), IF n.op = "??" THEN at + 1 ELSE at)
        left == CompileVar(n, s, Alloc(Alloc(e)), v + 1)
        right == Compile(n.e, s, Alloc(left), left.next)
        e3 == StoreVar(n.x, v, s, Emit(right, I(n.op, v, v + 1, left.next)))
        e4 == IF n.op \in {"&&", "||", "??"} THEN e2 ELSE e3
    IN  After(<<e4, Free(Emit(e4, I("move", d, v, 0)), v)>>)

\* AST_UNARY and AST_POSTFIX with ++ and --: the result is the new value when
\* the operator stands in front, and the old one when it stands behind.
CompileStep(n, s, e, d) ==
    LET v == e.next
        e1 == CompileVar(n, s, Alloc(e), v)
        one == e1.next
        before == StoreVar(n.x, d, s, Emit(Emit(Alloc(e1), I("int", one, 1, 0)), I(n.op, d, v, one)))
        e2 == Emit(Alloc(Emit(e1, I("move", d, v, 0))), I("int", one, 1, 0))
        behind == StoreVar(n.x, one + 1, s, Emit(Alloc(e2), I(n.op, one + 1, v, one)))
    IN  After(<<e1, Free(IF n.prefix THEN before ELSE behind, v)>>)

\* AST_UNARY with !.
CompileNot(n, s, e, d) ==
    LET v == e.next
        e1 == Compile(n.e, s, Alloc(e), v)
    IN  After(<<e1, Free(Emit(e1, I("!", d, v, 0)), v)>>)

\* AST_BINARY with both operands evaluated.
CompileBinary(n, s, e, d) ==
    LET l == e.next
        e1 == Compile(n.l, s, Alloc(e), l)
        r == e1.next
        e2 == Compile(n.r, s, Alloc(e1), r)
    IN  After(<<e1, e2, Free(Emit(e2, I(n.op, d, l, r)), l)>>)

\* AST_BINARY: || and && leave by a conditional jump over the right operand.
CompileLogic(n, s, e, d) ==
    LET l == e.next
        e1 == Compile(n.l, s, Alloc(e), l)
        out == Here(e1)
        e2 == Emit(e1, I(IF n.op = "||" THEN "jumptrue" ELSE "jumpfalse", l, 0, 0))
        r == e2.next
        e3 == Free(Emit(Compile(n.r, s, Alloc(e2), r), I("move", d, r, 0)), r)
        end == Here(e3)
        e4 == Patch(Emit(e3, I("jump", 0, 0, 0)), out)
    IN  After(<<e1, e3, Patch(Free(Emit(e4, I("move", d, l, 0)), l), end)>>)

\* AST_BINARY: ?? leaves by a jump that the nullish case jumps over.
CompileNullish(n, s, e, d) ==
    LET l == e.next
        e1 == Emit(Compile(n.l, s, Alloc(e), l), I("move", d, l, 0))
        at == Here(e1)
        e2 == Patch(Emit(Emit(e1, I("jumpnullish", l, 0, 0)), I("jump", 0, 0, 0)), at)
        r == e2.next
        e3 == Emit(Compile(n.r, s, Alloc(e2), r), I("move", d, r, 0))
    IN  After(<<e1, e3, Patch(Free(e3, l), at + 1)>>)

\* AST_TERNARY.
CompileCond(n, s, e, d) ==
    LET c == e.next
        e1 == Compile(n.c, s, Alloc(e), c)
        no == Here(e1)
        e2 == Compile(n.y, s, Free(Emit(e1, I("jumpfalse", c, 0, 0)), c), d)
        end == Here(e2)
        e3 == Patch(Emit(e2, I("jump", 0, 0, 0)), no)
    IN  After(<<e1, e2, Patch(Compile(n.z, s, e3, d), end)>>)

\* Arguments go to the registers the emitter has next; the machine looks for
\* them right behind the function.
CompileArgs(ns, s, e, r) ==
    IF ns = <<>> THEN e
    ELSE LET e1 == Compile(Head(ns), s, Alloc(e), e.next)
         IN  After(<<e1, CompileArgs(Tail(ns), s, e1, r)>>)

\* AST_CALL.
CompileCall(n, s, e, d) ==
    LET f == e.next
        e1 == Compile(n.f, s, Alloc(e), f)
        e2 == CompileArgs(n.args, s, e1, f)
        e3 == Emit(e2, I("call", d, f, Len(n.args)))
        gap == e2.next # f + 1 + Len(n.args)
    IN  After(<<e1, e2, Free(IF gap THEN Because(e3, "gap") ELSE e3, f)>>)

\* AST_BLOCK: every statement keeps the register of its result, and the
\* variables theirs, to the end of the block.
CompileBlock(ns, s, e) ==
    IF ns = <<>> THEN e
    ELSE LET r == e.next
             e1 == Compile(Head(ns), s, Alloc(e), r)
         IN  After(<<e1, CompileBlock(Tail(ns), s, Free(e1, Boundary(e1, s, r + 1)))>>)

\* AST_IF.
CompileIf(n, s, e, d) ==
    LET c == e.next
        e1 == Compile(n.c, s, Alloc(e), c)
        no == Here(e1)
        e2 == Free(Emit(e1, I("jumpfalse", c, 0, 0)), c)
        e3 == Free(Compile(n.y, s, Alloc(e2), c), c)
        end == Here(e3)
        e4 == Patch(Emit(e3, I("jump", 0, 0, 0)), no)
        e5 == IF n.z.t = "none" THEN e4 ELSE Free(Compile(n.z, s, Alloc(e4), c), c)
    IN  After(<<e1, e3, e5, Undefined(Patch(e5, end), d)>>)

\* AST_WHILE, AST_DO_WHILE.
CompileWhile(n, s, e, d) ==
    LET c == e.next
        e1 == Compile(n.c, s, Alloc(e), c)
        out == Here(e1)
        e2 == Free(Emit(e1, I("jumpfalse", c, 0, 0)), c)
        e3 == Free(Compile(n.body, s, Alloc(e2), c), c)
    IN  After(<<e1, e3, Undefined(Patch(JumpBack(e3, "jump", 0, Here(e)), out), d)>>)

CompileDo(n, s, e, d) ==
    LET r == e.next
        e1 == Free(Compile(n.body, s, Alloc(e), r), r)
        e2 == Compile(n.c, s, Alloc(e1), r)
    IN  After(<<e1, e2, Undefined(Free(JumpBack(e2, "jumptrue", r, Here(e)), r), d)>>)

\* AST_FOR: the variables of the head stay above everything in the loop.
CompileFor(n, s, e, d) ==
    LET base == e.next
        e1 == Compile(n.init, n.id, Alloc(e), base)
        v == Boundary(e1, n.id, base + 1)
        e2 == Compile(n.c, n.id, Alloc(Free(e1, v)), v)
        out == Here(e2)
        e3 == Compile(n.body, n.id, Alloc(Free(Emit(e2, I("jumpfalse", v, 0, 0)), v)), v)
        e4 == Compile(n.upd, n.id, Alloc(Free(e3, v)), v)
    IN  After(<<e1, e2, e3, e4,
                Undefined(Free(Patch(JumpBack(e4, "jump", 0, Here(e1)), out), base), d)>>)

\* AST_BREAK, AST_CONTINUE: a jump to be completed later.  Only a switch does
\* so, and only for breaks; any other goes to the next instruction.
CompileLeave(n, s, e, d) ==
    LET e1 == Because(Emit(e, I("jump", 0, 0, 0)), "unpatched")
    IN  Undefined(IF n.t = "break" THEN [e1 EXCEPT !.breaks = Append(@, Here(e))] ELSE e1, d)

RECURSIVE CompileBody(_, _, _)
CompileBody(ns, s, e) ==
    IF ns = <<>> THEN e
    ELSE LET e1 == Free(Compile(Head(ns), s, Alloc(e), e.next), e.next)
             e2 == IF Head(ns).t = "let" THEN Because(e1, "freed") ELSE e1
         IN  After(<<e2, CompileBody(Tail(ns), s, e2)>>)

\* The breaks of one case are completed behind its own body, which is where
\* the next case begins.
RECURSIVE PatchBreaks(_, _, _)
PatchBreaks(e, from, last) ==
    LET at == e.breaks[Len(e.breaks)]
    IN  IF Len(e.breaks) = from THEN e
        ELSE PatchBreaks([Patch(e, at) EXCEPT !.code[at + 1].why = IF last THEN "" ELSE "fallthrough",
                                              !.breaks = SubSeq(@, 1, Len(@) - 1)], from, last)

\* The tests of a switch, one after the other: at[k] is the address of the jump
\* to the body of case k.  Each test keeps one register.
RECURSIVE CompileTests(_, _, _, _)
CompileTests(cases, s, r, p) ==
    IF cases = <<>> THEN p
    ELSE LET q == p.e.next
             e1 == Alloc(Compile(Head(cases).test, s, Alloc(p.e), q))
             e2 == Emit(e1, I("==", q + 1, r, q))
             e3 == Free(Emit(e2, I("jumptrue", q + 1, 0, 0)), q + 1)
         IN  CompileTests(Tail(cases), s, r,
                 IF Head(cases).test.t = "default" THEN [p EXCEPT !.at = Append(@, None)]
                 ELSE [e |-> e3, at |-> Append(p.at, Here(e2))])

\* Its bodies, the default one entered by the jump at address other.
RECURSIVE CompileBodies(_, _, _, _, _)
CompileBodies(cases, at, other, s, e) ==
    IF cases = <<>> THEN e
    ELSE LET e1 == Patch(e, IF Head(at) = None THEN other ELSE Head(at))
             e2 == CompileBody(Head(cases).body, s, e1)
         IN  CompileBodies(Tail(cases), Tail(at), other, s,
                           PatchBreaks(e2, Len(e.breaks), Len(cases) = 1))

\* AST_SWITCH.
CompileSwitch(n, s, e, d) ==
    LET r == e.next
        e1 == Compile(n.e, s, Alloc(e), r)
        tests == CompileTests(n.cases, s, r, [e |-> e1, at |-> <<>>])
        other == Here(tests.e)
        e2 == CompileBodies(n.cases, tests.at, other, s, Emit(tests.e, I("jump", 0, 0, 0)))
        e3 == IF None \in Range(tests.at) THEN e2 ELSE Patch(e2, other)
    IN  After(<<e1, tests.e, e2, Undefined(Free(e3, r), d)>>)

\* AST_TRY, first part: the block under a handler, and the catch block.
CompileCatch(n, s, e) ==
    LET r == e.next
        e1 == Free(Compile(n.body, s, Alloc(Emit(e, I("try", 0, 0, 0))), r), r)
        over == Here(e1) + 1
        e2 == Patch(Emit(Emit(e1, I("endtry", 0, 0, 0)), I("jump", 0, 0, 0)), Here(e))
        e3 == Emit(Alloc(e2), I("catch", r, 0, 0))
        h == n.handler.id
        sym == e3.sc[h].syms[n.x]
        e4 == IF Captured(sym) THEN Because(Emit(e3, I("storeenv", r, sym.env, 0)), "again")
              ELSE LET e31 == Place(e3, h, n.x)
                   IN  Emit(e31, I("move", e31.sc[h].syms[n.x].reg, r, 0))
        e5 == IF n.handler.t = "none" THEN Emit(e3, I("throw", r, 0, 0))
              ELSE Undefined(CompileBlock(n.handler.ss, h, Alloc(e4)), e4.next)
    IN  After(<<e1, e3, e5, Patch(Free(e5, r), over)>>)

\* Second part: the finally block is emitted twice, for an exception, which is
\* thrown again, and for the normal way out.
CompileFinally(n, s, e, begin) ==
    LET r == e.next
        e1 == Patch(Emit(Emit(e, I("endtry", 0, 0, 0)), I("jump", 0, 0, 0)), begin)
        e2 == Emit(Alloc(e1), I("catch", r, 0, 0))
        e3 == Emit(Compile(n.final, s, Alloc(e2), r + 1), I("throw", r, 0, 0))
        e4 == Patch(Free(e3, r), Here(e) + 1)
    IN  After(<<e1, e3, Free(Compile(n.final, s, Alloc(e4), r), r)>>)

\* AST_TRY: a second handler around both blocks when there is a finally.
CompileTry(n, s, e, d) ==
    Undefined(IF n.final.t = "none" THEN CompileCatch(n, s, e)
              ELSE CompileFinally(n, s, CompileCatch(n, s, Emit(e, I("try", 0, 0, 0))), Here(e)), d)

\* AST_RETURN, AST_THROW.
CompileExit(n, s, e, d) ==
    LET r == e.next
        e1 == Compile(n.e, s, Alloc(e), r)
    IN  After(<<e1, Undefined(Free(Emit(e1, I(n.t, r, 0, 0)), r), d)>>)

\* AST_FUNCTION with one parameter: its code stands in line behind a jump; it
\* has registers of its own, from zero, and an environment if it captures.
CompileFunction(n, s, e, d) ==
    LET f == Len(e.fns) + 1
        e1 == [Emit(e, I("jump", 0, 0, 0)) EXCEPT !.next = 0, !.max = 0,
                                                  !.fns = Append(@, [at |-> 0, regs |-> 0])]
        e2 == SetReg(Alloc(e1), n.id, n.p, 0)
        at == Here(e2)
        p == e2.sc[n.id].syms[n.p]
        e3 == IF e2.sc[n.id].captured = 0 THEN e2
              ELSE Emit(Alloc(e2), I("newenv", e2.next, e2.sc[n.id].captured, 0))
        e4 == IF Captured(p) THEN Emit(e3, I("storeenv", 0, p.env, 0)) ELSE e3
        b == e4.next
        body == Compile(n.body, n.id, Alloc(e4), b)
        e5 == Emit(Undefined(body, b), I("return", b, 0, 0))
        e6 == Patch([e5 EXCEPT !.fns[f] = [at |-> at, regs |-> e5.max],
                               !.next = e.next, !.max = e.max], Here(e))
        e7 == Emit(e6, I("function", d, f, 0))
        l == LookupCodegen(e7.sc, s, n.name, 0)
        sym == e7.sc[l.s].syms[n.name]
        e8 == Place(e7, l.s, n.name)
    IN  After(<<body,
                IF n.name = "" THEN e7
                ELSE IF Captured(sym) THEN Emit(e7, I("storeenv", d, sym.env, l.depth))
                ELSE Emit(e8, I("move", e8.sc[l.s].syms[n.name].reg, d, 0))>>)

\* Bound: the instructions of one program.
MaxCode == 2^16

\* compile_node.
Compile(n, s, e, d) ==
    CASE Here(e) > MaxCode -> e
      [] n.t = "num" -> Emit(e, I("int", d, n.v, 0))
      [] n.t = "none" -> Undefined(e, d)
      [] n.t = "var" -> CompileVar(n, s, e, d)
      [] n.t = "let" -> CompileLet(n, s, e, d)
      [] n.t = "assign" -> CompileAssign(n, s, e, d)
      [] n.t = "compound" -> CompileCompound(n, s, e, d)
      [] n.t = "step" -> CompileStep(n, s, e, d)
      [] n.t = "not" -> CompileNot(n, s, e, d)
      [] n.t = "bin" -> CompileBinary(n, s, e, d)
      [] n.t = "logic" /\ n.op = "??" -> CompileNullish(n, s, e, d)
      [] n.t = "logic" -> CompileLogic(n, s, e, d)
      [] n.t = "cond" -> CompileCond(n, s, e, d)
      [] n.t = "call" -> CompileCall(n, s, e, d)
      [] n.t = "block" -> Undefined(Free(CompileBlock(n.ss, n.id, e), e.next), d)
      [] n.t = "if" -> CompileIf(n, s, e, d)
      [] n.t = "while" -> CompileWhile(n, s, e, d)
      [] n.t = "do" -> CompileDo(n, s, e, d)
      [] n.t = "for" -> CompileFor(n, s, e, d)
      [] n.t \in {"break", "continue"} -> CompileLeave(n, s, e, d)
      [] n.t = "switch" -> CompileSwitch(n, s, e, d)
      [] n.t = "try" -> CompileTry(n, s, e, d)
      [] n.t \in {"return", "throw"} -> CompileExit(n, s, e, d)
      [] n.t = "fn" -> CompileFunction(n, s, e, d)
      [] n.t = "expr" -> Compile(n.e, s, e, d)

\* compile_source, behind the parser: root is the block of the program.
ResolveSource(root) == Resolve(root, 1, 1 :> Scope(0, TRUE))

CompileResolved(root, sc) ==
    LET e == [code |-> <<>>, next |-> 0, max |-> 0, breaks |-> <<>>, fns |-> <<>>, sc |-> sc]
        e1 == IF sc[1].captured = 0 THEN e
              ELSE Free(Emit(Alloc(e), I("newenv", 0, sc[1].captured, 0)), 0)
        e2 == Emit(Compile(root, 1, Alloc(e1), 0), I("return", 0, 0, 0))
    IN  [code |-> e2.code, fns |-> e2.fns, regs |-> e2.max]
=============================================================================

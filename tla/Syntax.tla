------------------------------- MODULE Syntax -------------------------------
(***************************************************************************)
(* The syntax trees of src/ast.h and the text a programmer writes for one. *)
(*                                                                         *)
(* A tree is a record whose field t names its kind.  Its text is the       *)
(* sequence of the tokens that the JavaScript grammar gives it, with as    *)
(* few parentheses as the precedence of the operators allows, in one of    *)
(* two styles: "full" writes every optional semicolon, trailing comma and  *)
(* parenthesis, "terse" leaves them out.  The text is what the parser is   *)
(* measured against; nothing in it comes from the parser.                  *)
(***************************************************************************)
EXTENDS Naturals, Sequences, SequencesExt

Styles == {"full", "terse"}

\* The keywords that may name a property (TOK_LET to TOK_DEBUGGER).
Keywords ==
    {"let", "const", "var", "new", "if", "else", "while", "for", "do",
     "function", "return", "import", "from", "with", "export", "default", "as",
     "async", "await", "using", "try", "catch", "finally", "throw", "switch",
     "case", "break", "continue", "class", "extends", "super", "static",
     "typeof", "instanceof", "in", "of", "void", "delete", "yield", "get",
     "set", "debugger"}

\* Tokens: a punctuator or a keyword is its own kind.
Tok(k) == [k |-> k, v |-> k]
Word(x) == [k |-> "id", v |-> x]
Quoted(x) == [k |-> "string", v |-> x]
NameTok(x) == IF x \in Keywords THEN Tok(x) ELSE Word(x)

-----------------------------------------------------------------------------
(* Trees *)

Nil == [t |-> "nil"]

Lit(k, v) == [t |-> "lit", k |-> k, v |-> v]
Str(v) == Lit("string", v)
Id(x) == [t |-> "id", x |-> x]
Template(ps) == [t |-> "template", parts |-> ps]
Array(es) == [t |-> "array", es |-> es]
Object(ps) == [t |-> "object", props |-> ps]
Property(key, name, value, flags) ==
    [key |-> key, name |-> name, value |-> value, flags |-> flags]
Param(x, default, rest) == [x |-> x, default |-> default, rest |-> rest]
Function(x, ps, body, flags) ==
    [t |-> "function", x |-> x, params |-> ps, body |-> body, flags |-> flags]
Class(x, super, ms) == [t |-> "class", x |-> x, super |-> super, methods |-> ms]
Method(x, name, f, flags) == [x |-> x, name |-> name, f |-> f, flags |-> flags]
Yield(e, all) == [t |-> "yield", e |-> e, all |-> all]
Spread(e) == [t |-> "spread", e |-> e]
Await(e) == [t |-> "await", e |-> e]
NewCall(f, as) == [t |-> "new", f |-> f, args |-> as]
Call(f, as) == [t |-> "call", f |-> f, args |-> as]
Access(o, p, computed) == [t |-> "access", o |-> o, p |-> p, computed |-> computed]
Chain(o, p, computed) == [t |-> "chain", o |-> o, p |-> p, computed |-> computed]
Postfix(op, e) == [t |-> "postfix", op |-> op, e |-> e]
Unary(op, e) == [t |-> "unary", op |-> op, e |-> e]
Binary(op, l, r) == [t |-> "binary", op |-> op, l |-> l, r |-> r]
Ternary(c, y, n) == [t |-> "ternary", c |-> c, y |-> y, n |-> n]
Assignment(op, l, r) == [t |-> "assign", op |-> op, l |-> l, r |-> r]
Sequence(es) == [t |-> "sequence", es |-> es]

Empty == [t |-> "empty"]
ExprStmt(e) == [t |-> "expr", e |-> e]
Block(ss) == [t |-> "block", ss |-> ss]
Inline(ss) == [t |-> "inline", ss |-> ss]
TryStmt(b, x, c, f) == [t |-> "try", b |-> b, x |-> x, c |-> c, f |-> f]
Binding(key, x, default, rest) ==
    [key |-> key, x |-> x, default |-> default, rest |-> rest]
VarDecl(x, binds, init, flags) ==
    [t |-> "var", x |-> x, binds |-> binds, init |-> init, flags |-> flags]
If(c, y, n) == [t |-> "if", c |-> c, y |-> y, n |-> n]
While(c, b) == [t |-> "while", c |-> c, b |-> b]
DoWhile(b, c) == [t |-> "do", b |-> b, c |-> c]
For(i, c, u, b) == [t |-> "for", i |-> i, c |-> c, u |-> u, b |-> b]
ForEach(kind, x, d, e, b, await) ==
    [t |-> "foreach", kind |-> kind, x |-> x, d |-> d, e |-> e, b |-> b,
     await |-> await]
Switch(e, cs) == [t |-> "switch", e |-> e, cases |-> cs]
Case(e, ss) == [e |-> e, ss |-> ss]
Jump(kind, label) == [t |-> "jump", kind |-> kind, label |-> label]
Return(e) == [t |-> "return", e |-> e]
Throw(e) == [t |-> "throw", e |-> e]

\* What import and export statements stand for.
Require(path) ==
    VarDecl("__tmp", <<>>, Await(Call(Id("require"), <<Str(path)>>)), {"const"})
Imported(x, name) ==
    VarDecl(x, <<>>, Access(Id("__tmp"), Str(name), FALSE), {"const"})
ImportJson(x, path) ==
    VarDecl(x, <<>>, Call(Id("import_module"), <<Str(path), Str("json")>>), {"const"})
Exported(name, e) ==
    ExprStmt(Assignment("=", Access(Id("exports"), Str(name), FALSE), e))

-----------------------------------------------------------------------------
(* Text *)

\* How tightly the operators of the language bind.
BinaryLevel ==
    [op \in {"||", "??"} |-> 3] @@ [op \in {"&&"} |-> 4] @@ [op \in {"|"} |-> 5] @@
    [op \in {"^"} |-> 6] @@ [op \in {"&"} |-> 7] @@
    [op \in {"===", "!==", "==", "!="} |-> 8] @@
    [op \in {"<", "<=", ">", ">=", "in", "instanceof"} |-> 9] @@
    [op \in {"<<", ">>", ">>>"} |-> 10] @@ [op \in {"+", "-"} |-> 11] @@
    [op \in {"*", "/", "%"} |-> 12] @@ [op \in {"**"} |-> 13]

Level(e) ==
    CASE e.t = "sequence" -> 0
      [] e.t \in {"assign", "yield"} -> 1
      [] e.t = "function" /\ "arrow" \in e.flags -> 1
      [] e.t = "ternary" -> 2
      [] e.t = "binary" -> BinaryLevel[e.op]
      [] e.t \in {"unary", "await"} -> 14
      [] e.t = "postfix" -> 15
      [] e.t = "new" -> 16
      [] OTHER -> 17

Parens(s) == <<Tok("(")>> \o s \o <<Tok(")")>>
Braces(s) == <<Tok("{")>> \o s \o <<Tok("}")>>
Brackets(s) == <<Tok("[")>> \o s \o <<Tok("]")>>

\* Texts separated by commas; a trailing comma where the style or the last
\* text (an elision) asks for one.
RECURSIVE Commas(_)
Commas(ts) ==
    IF Len(ts) <= 1 THEN FlattenSeq(ts)
    ELSE Head(ts) \o <<Tok(",")>> \o Commas(Tail(ts))
List(ts, st, rest) ==
    Commas(ts) \o
    (IF ts # <<>> /\ ~rest /\ (st = "full" \/ Last(ts) = <<>>)
       THEN <<Tok(",")>> ELSE <<>>)
Each(s, F(_)) == [i \in DOMAIN s |-> F(s[i])]

RECURSIVE Text(_, _, _)       \* the text of a tree, given that of its semicolon

\* The text of e where an operand of the given level is expected.
Operand(e, level, st) ==
    IF Level(e) < level THEN Parens(Text(e, st, <<>>)) ELSE Text(e, st, <<>>)

Mixed(op, e) ==
    e.t = "binary" /\ ("??" \in {op, e.op}) /\ op # e.op /\ e.op \in {"||", "&&", "??"}
Side(op, e, level, st) ==
    IF Mixed(op, e) THEN Parens(Text(e, st, <<>>)) ELSE Operand(e, level, st)

ParamText(p, st) ==
    (IF p.rest THEN <<Tok("...")>> ELSE <<>>) \o <<Word(p.x)>> \o
    (IF p.default = Nil THEN <<>> ELSE <<Tok("=")>> \o Operand(p.default, 1, st))
ParamsText(ps, st) ==
    Parens(List(Each(ps, LAMBDA p : ParamText(p, st)), st, ps # <<>> /\ Last(ps).rest))

ArgsText(as, st) == Parens(List(Each(as, LAMBDA a : Operand(a, 1, st)), st, FALSE))

\* A lone parameter of an arrow function needs no parentheses.
ArrowText(f, st) ==
    (IF st = "terse" /\ Len(f.params) = 1 /\ f.params[1] = Param(f.params[1].x, Nil, FALSE)
       THEN <<Word(f.params[1].x)>>
       ELSE IF "async" \in f.flags \/ f.params = <<>> THEN ParamsText(f.params, st)
       ELSE ParamsText(f.params, "terse"))
    \o <<Tok("=>")>> \o
    (IF "concise" \notin f.flags THEN Text(f.body, st, <<>>)
     ELSE LET Body(s) == IF Head(s).k = "{" THEN Parens(s) ELSE s
          IN  Body(Operand(f.body, 1, st)))

Flag(flags, k) == IF k \in flags THEN <<Tok(k)>> ELSE <<>>

FunctionText(f, st) ==
    Flag(f.flags, "async") \o
    (IF "arrow" \in f.flags THEN ArrowText(f, st)
     ELSE <<Tok("function")>> \o Flag(f.flags, "*") \o
          (IF f.x = "" THEN <<>> ELSE <<Word(f.x)>>) \o
          ParamsText(f.params, st) \o Text(f.body, st, <<>>))

PropertyText(p, st) ==
    LET Key(n) == IF n # Nil THEN Brackets(Operand(n, 1, st))
                  ELSE IF st = "full" THEN <<Quoted(p.name)>> ELSE <<NameTok(p.name)>>
        Fn(f) == ParamsText(f.params, st) \o Text(f.body, st, <<>>)
    IN  CASE "..." \in p.flags -> <<Tok("...")>> \o Operand(p.value, 1, st)
          [] "short" \in p.flags /\ p.value.t = "id" -> <<NameTok(p.name)>>
          [] "short" \in p.flags -> Key(p.key) \o Fn(p.value)
          [] p.flags \cap {"get", "set"} # {} ->
                Flag(p.flags, "get") \o Flag(p.flags, "set") \o Key(p.key) \o Fn(p.value)
          [] OTHER -> Key(p.key) \o <<Tok(":")>> \o Operand(p.value, 1, st)

MethodText(m, st) ==
    Flag(m.flags, "static") \o Flag(m.flags, "async") \o Flag(m.flags, "*") \o
    Flag(m.flags, "get") \o Flag(m.flags, "set") \o
    (IF m.name # Nil THEN Brackets(Operand(m.name, 1, st)) ELSE <<NameTok(m.x)>>) \o
    ParamsText(m.f.params, st) \o Text(m.f.body, st, <<>>) \o
    (IF st = "full" THEN <<Tok(";")>> ELSE <<>>)

ClassText(c, st) ==
    <<Tok("class")>> \o (IF c.x = "" THEN <<>> ELSE <<Word(c.x)>>) \o
    (IF c.super = Nil THEN <<>> ELSE <<Tok("extends")>> \o Operand(c.super, 17, st)) \o
    Braces(FlattenSeq(Each(c.methods, LAMBDA m : MethodText(m, st))))

\* The pieces of a template: text, expression, text, ... , text.
TemplateText(ps, st) ==
    FlattenSeq([i \in DOMAIN ps |->
        IF i % 2 = 0 THEN Text(ps[i], st, <<>>) \o <<Tok("}")>>
        ELSE <<[k |-> IF i = Len(ps) THEN "tail" ELSE IF i = 1 THEN "head" ELSE "middle",
                v |-> ps[i].v]>>])

MemberText(e, st) ==
    LET Owner(o) == Operand(o, 17, st)
        Dot(t) == IF t = "chain" THEN <<Tok("?.")>> ELSE <<Tok(".")>>
    IN  CASE e.p = Nil -> Operand(e.o.f, 17, st) \o <<Tok("?.")>> \o ArgsText(e.o.args, st)
          [] e.computed -> Owner(e.o) \o (IF e.t = "chain" THEN Dot(e.t) ELSE <<>>) \o
                           Brackets(Text(e.p, st, <<>>))
          [] OTHER -> Owner(e.o) \o Dot(e.t) \o <<NameTok(e.p.v)>>

ExprText(e, st) ==
    CASE e.t = "lit" -> <<[k |-> e.k, v |-> e.v]>>
      [] e.t = "id" -> <<NameTok(e.x)>>
      [] e.t = "nil" -> <<>>
      [] e.t = "template" -> TemplateText(e.parts, st)
      [] e.t = "array" -> Brackets(List(Each(e.es, LAMBDA a : Operand(a, 1, st)), st, FALSE))
      [] e.t = "object" -> Braces(List(Each(e.props, LAMBDA p : PropertyText(p, st)), st, FALSE))
      [] e.t = "function" -> FunctionText(e, st)
      [] e.t = "class" -> ClassText(e, st)
      [] e.t = "yield" -> <<Tok("yield")>> \o (IF e.all THEN <<Tok("*")>> ELSE <<>>) \o
                          Operand(e.e, 1, st)
      [] e.t = "spread" -> <<Tok("...")>> \o Operand(e.e, 1, st)
      [] e.t = "await" -> <<Tok("await")>> \o Operand(e.e, 14, st)
      [] e.t = "new" -> <<Tok("new")>> \o Operand(e.f, 17, st) \o
                        (IF e.args = <<>> /\ st = "terse" THEN <<>> ELSE ArgsText(e.args, st))
      [] e.t = "call" -> Operand(e.f, 17, st) \o ArgsText(e.args, st)
      [] e.t \in {"access", "chain"} -> MemberText(e, st)
      [] e.t = "postfix" -> Operand(e.e, 17, st) \o <<Tok(e.op)>>
      [] e.t = "unary" -> <<Tok(e.op)>> \o Operand(e.e, 14, st)
      [] e.t = "binary" /\ e.op = "**" ->
            Operand(e.l, 15, st) \o <<Tok("**")>> \o Operand(e.r, 13, st)
      [] e.t = "binary" -> Side(e.op, e.l, BinaryLevel[e.op], st) \o <<Tok(e.op)>> \o
                           Side(e.op, e.r, BinaryLevel[e.op] + 1, st)
      [] e.t = "ternary" -> Operand(e.c, 3, st) \o <<Tok("?")>> \o Operand(e.y, 1, st) \o
                            <<Tok(":")>> \o Operand(e.n, 2, st)
      [] e.t = "assign" -> Operand(e.l, 17, st) \o <<Tok(e.op)>> \o Operand(e.r, 1, st)
      [] e.t = "sequence" -> Commas(Each(e.es, LAMBDA a : Operand(a, 1, st)))

\* Statements.  semi is the text of the semicolon that ends the statement: the
\* last one of a list may do without in the terse style.
Semi == <<Tok(";")>>

BodyText(ss, st) ==
    FlattenSeq([i \in DOMAIN ss |->
        Text(ss[i], st, IF st = "terse" /\ i = Len(ss) THEN <<>> ELSE Semi)])

BindingText(b, array, st) ==
    IF b.x = "" THEN <<>>
    ELSE (IF b.rest THEN <<Tok("...")>> ELSE <<>>) \o
         (IF ~array /\ ~b.rest /\ (b.key # b.x \/ st = "full")
            THEN <<Word(b.key), Tok(":")>> ELSE <<>>) \o <<Word(b.x)>> \o
         (IF b.default = Nil THEN <<>> ELSE <<Tok("=")>> \o Operand(b.default, 1, st))

PatternText(d, st) ==
    LET Elems(bs) == List(Each(bs, LAMBDA b : BindingText(b, "array" \in d.flags, st)), st,
                          bs # <<>> /\ Last(bs).rest)
    IN  IF d.x # "" THEN <<Word(d.x)>>
        ELSE IF "array" \in d.flags THEN Brackets(Elems(d.binds)) ELSE Braces(Elems(d.binds))

DeclarationText(d, st) ==
    (CASE "await" \in d.flags -> <<Tok("await"), Tok("using")>>
       [] "using" \in d.flags -> <<Tok("using")>>
       [] "const" \in d.flags -> <<Tok("const")>>
       [] OTHER -> <<Tok("let")>>) \o PatternText(d, st) \o
    (IF d.init = Nil THEN <<>> ELSE <<Tok("=")>> \o Operand(d.init, 1, st))

AsText(name, x) ==
    IF name = x THEN <<Word(x)>> ELSE <<Word(name), Tok("as"), Word(x)>>

ImportText(ss) ==
    LET Listed(ds) == Braces(Commas(Each(ds, LAMBDA d : AsText(d.init.p.v, d.x))))
        Clause(default, names) ==
          CASE default = <<>> -> Listed(names)
            [] names = <<>> -> <<Word(default[1].x)>>
            [] OTHER -> <<Word(default[1].x), Tok(",")>> \o Listed(names)
    IN  <<Tok("import")>> \o
        Clause(SelectSeq(Tail(ss), LAMBDA d : d.init.p.v = "default"),
               SelectSeq(Tail(ss), LAMBDA d : d.init.p.v # "default")) \o
        <<Tok("from"), Quoted(ss[1].init.e.args[1].v)>>

ImportJsonText(d) ==
    <<Tok("import"), Word(d.x), Tok("from"), Quoted(d.init.args[1].v), Tok("with"),
      Tok("{"), Word("type"), Tok(":"), Quoted("json"), Tok("}")>>

\* import, export of a list, export of a declaration.
InlineText(ss, st, semi) ==
    CASE ss # <<>> /\ Head(ss).t = "var" /\ Head(ss).x = "__tmp" -> ImportText(ss) \o semi
      [] ss = <<>> \/ Head(ss).t = "expr" ->
            <<Tok("export")>> \o
            Braces(Commas(Each(ss, LAMBDA s : AsText(s.e.r.x, s.e.l.p.v)))) \o semi
      [] OTHER -> <<Tok("export")>> \o Text(Head(ss), st, semi)

IsDefault(e) ==
    e.t = "assign" /\ e.l = Access(Id("exports"), Str("default"), FALSE)

\* An expression that starts like another statement is put in parentheses.
ExprStmtText(e, st) ==
    LET Guarded(s) == IF Head(s).k \in {"{", "function", "class", "async"}
                        THEN Parens(s) ELSE s
    IN  IF IsDefault(e) THEN <<Tok("export"), Tok("default")>> \o Operand(e.r, 1, st)
        ELSE Guarded(Text(e, st, <<>>))

CaseText(c, st) ==
    (IF c.e = Nil THEN <<Tok("default")>> ELSE <<Tok("case")>> \o Text(c.e, st, <<>>)) \o
    <<Tok(":")>> \o BodyText(c.ss, st)

StatementText(s, st, semi) ==
    CASE s.t = "empty" -> Semi
      [] s.t = "expr" -> ExprStmtText(s.e, st) \o semi
      [] s.t = "block" -> Braces(BodyText(s.ss, st))
      [] s.t = "inline" -> InlineText(s.ss, st, semi)
      [] s.t = "try" ->
            <<Tok("try")>> \o Text(s.b, st, <<>>) \o
            (IF s.c = Nil THEN <<>>
             ELSE <<Tok("catch")>> \o
                  (IF s.x = "" THEN <<>> ELSE Parens(<<Word(s.x)>>)) \o Text(s.c, st, <<>>)) \o
            (IF s.f = Nil THEN <<>> ELSE <<Tok("finally")>> \o Text(s.f, st, <<>>))
      [] s.t = "var" /\ s.init.t = "call" /\ s.init.f = Id("import_module") ->
            ImportJsonText(s) \o semi
      [] s.t = "var" -> DeclarationText(s, st) \o semi
      [] s.t = "if" ->
            <<Tok("if")>> \o Parens(Text(s.c, st, <<>>)) \o
            (IF s.n = Nil THEN Text(s.y, st, semi)
             ELSE Text(s.y, st, Semi) \o <<Tok("else")>> \o Text(s.n, st, semi))
      [] s.t = "while" ->
            <<Tok("while")>> \o Parens(Text(s.c, st, <<>>)) \o Text(s.b, st, semi)
      [] s.t = "do" ->
            <<Tok("do")>> \o Text(s.b, st, Semi) \o <<Tok("while")>> \o
            Parens(Text(s.c, st, <<>>)) \o semi
      [] s.t = "for" ->
            <<Tok("for")>> \o
            Parens((IF s.i.t = "var" THEN DeclarationText(s.i, st) ELSE Text(s.i, st, <<>>)) \o Semi \o
                   Text(s.c, st, <<>>) \o Semi \o Text(s.u, st, <<>>)) \o
            Text(s.b, st, semi)
      [] s.t = "foreach" ->
            <<Tok("for")>> \o (IF s.await THEN <<Tok("await")>> ELSE <<>>) \o
            Parens((IF s.d = Nil THEN <<Tok("let"), Word(s.x)>> ELSE DeclarationText(s.d, st)) \o
                   <<Tok(s.kind)>> \o Text(s.e, st, <<>>)) \o
            Text(s.b, st, semi)
      [] s.t = "switch" ->
            <<Tok("switch")>> \o Parens(Text(s.e, st, <<>>)) \o
            Braces(FlattenSeq(Each(s.cases, LAMBDA c : CaseText(c, st))))
      [] s.t = "jump" ->
            <<Tok(s.kind)>> \o (IF s.label = "" THEN <<>> ELSE <<Word(s.label)>>) \o semi
      [] s.t = "return" -> <<Tok("return")>> \o Text(s.e, st, <<>>) \o semi
      [] s.t = "throw" -> <<Tok("throw")>> \o Text(s.e, st, <<>>) \o semi

Text(n, st, semi) ==
    IF n.t \in {"empty", "expr", "block", "inline", "try", "var", "if", "while", "do", "for",
                "foreach", "switch", "jump", "return", "throw"}
      THEN StatementText(n, st, semi) ELSE ExprText(n, st)
=============================================================================

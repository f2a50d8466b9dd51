--------------------------- MODULE SampleSources ---------------------------
(***************************************************************************)
(* The programs given to the parser: every form of expression in every     *)
(* place of every form of expression, every form of expression in every    *)
(* form of statement, every form of statement in every statement that has  *)
(* a body, and the programs that stop after a prefix of a simple one, in   *)
(* both styles of writing (the nested expressions in the terse one).       *)
(***************************************************************************)
EXTENDS Syntax

A == Id("a")
B == Id("b")
One == Lit("num", "1")
Args0 == <<Param("x", Nil, FALSE)>>
Args2 == <<Param("y", One, FALSE), Param("r", Nil, TRUE)>>
Body == Block(<<Return(A)>>)
Getter(x) == Function(x, <<>>, Body, {})

\* One operator of each level, and some that share a level.
BinaryOps == {"||", "??", "&&", "|", "^", "&", "===", "<", "in", "<<", "+", "*", "/", "**"}

\* The forms of expression that take one expression e.
Around(e) ==
    {Binary(op, e, B) : op \in BinaryOps} \cup {Binary(op, A, e) : op \in BinaryOps} \cup
    {Unary(op, e) : op \in {"-", "!", "typeof"}} \cup
    {Ternary(e, A, B), Ternary(A, e, B), Ternary(A, B, e), Assignment("=", A, e),
     Assignment("??=", Access(A, Str("b"), FALSE), e), Await(e), Yield(e, TRUE),
     Call(A, <<e>>), Call(A, <<Spread(e)>>), NewCall(A, <<e>>), Access(e, B, TRUE), Access(A, e, TRUE),
     Access(e, Str("default"), FALSE), Chain(e, Str("b"), FALSE), Chain(e, A, TRUE),
     Chain(Call(e, <<A>>), Nil, FALSE), Call(e, <<>>), Call(Access(e, Str("b"), FALSE), <<B>>),
     Array(<<e, Nil>>), Array(<<Nil, Spread(e)>>),
     Object(<<Property(Nil, "a", e, {})>>), Object(<<Property(e, "", B, {"computed"})>>),
     Object(<<Property(Nil, "", e, {"..."})>>),
     Template(<<Str("t"), e, Str("u")>>),
     Function("", Args0, e, {"arrow", "concise"}),
     Function("", <<Param("x", e, FALSE)>>, A, {"arrow", "concise", "async"})}

\* The forms that take none, or whose parts are statements.
Closed ==
    {A, One, Str("s"), Lit("regex", "r"), Lit("null", "null"), Template(<<Str("t")>>),
     Postfix("++", A), NewCall(A, <<>>), NewCall(Access(A, Str("b"), FALSE), <<One>>),
     Yield(Nil, FALSE), Array(<<>>), Array(<<Nil, A>>), Object(<<>>),
     Object(<<Property(Nil, "b", Function("b", Args2, Body, {}), {"short"})>>),
     Object(<<Property(Nil, "a", Getter("a"), {"get"}), Property(Nil, "if", One, {})>>),
     Object(<<Property(Nil, "a", Function("a", Args0, Body, {}), {"set"}),
              Property(Nil, "b", B, {"short"})>>),
     Object(<<Property(Nil, "get", Id("get"), {"short"})>>),
     Function("", <<>>, Body, {"arrow"}), Function("", Args2, Body, {"arrow"}),
     Function("", <<>>, Object(<<>>), {"arrow", "concise"}),
     Function("", Args0, Body, {"arrow", "async"}),
     Function("", Args2, Body, {"*"}), Function("f", <<>>, Body, {"async"}),
     Class("", A, <<Method("a", Nil, Getter("a"), {"get", "static"})>>),
     Class("", Nil, <<Method("get", Nil, Getter("get"), {})>>),
     Class("", Nil, <<Method("", A, Function("", Args0, Body, {"async", "*"}),
                             {"async", "*", "computed"})>>)}

\* Programs that the parser is known to read differently: a yield without an
\* operand before a ':', a return without one before the next case, a keyword as
\* a property name before a division, a regular expression after an operator
\* that is a word.
Bare(s) == s \in {Return(Nil), ExprStmt(Yield(Nil, FALSE))}
Unreadable(n) ==
    \/ n.t = "ternary" /\ n.y = Yield(Nil, FALSE)
    \/ n.t = "binary" /\ n.op = "/" /\ n.l.t = "access" /\ n.l.p = Str("default")
    \/ n.t \in {"unary", "yield"} /\ n.e = Lit("regex", "r")
    \/ n.t = "switch" /\ \E i \in DOMAIN n.cases :
          n.cases[i].e = Yield(Nil, FALSE) \/ \E j \in DOMAIN n.cases[i].ss : Bare(n.cases[i].ss[j])

Simple == Closed \cup Around(A)
Nested == UNION {Around(e) : e \in Simple}

\* The forms of statement that take one expression.
Holding(e) ==
    {ExprStmt(e), Return(e), Throw(e), VarDecl("x", <<>>, e, {}),
     VarDecl("", <<Binding("a", "b", e, FALSE), Binding("c", "c", Nil, FALSE),
                   Binding("", "r", Nil, TRUE)>>, e, {"const"}),
     VarDecl("", <<Binding("", "", Nil, FALSE), Binding("", "b", e, FALSE)>>, e, {"array"}),
     VarDecl("x", <<>>, e, {"using"}), VarDecl("x", <<>>, e, {"using", "await"}),
     If(e, ExprStmt(A), Nil), While(e, Empty), DoWhile(ExprStmt(A), e),
     For(VarDecl("i", <<>>, e, {}), e, e, Empty), For(A, Nil, Nil, Empty),
     ForEach("of", "x", Nil, e, Empty, TRUE), ForEach("in", "x", Nil, e, Empty, FALSE),
     ForEach("of", "", VarDecl("", <<Binding("", "a", Nil, FALSE)>>, Nil, {"array"}), e,
             Empty, FALSE),
     Switch(e, <<Case(e, <<ExprStmt(A), Jump("break", "")>>), Case(Nil, <<ExprStmt(e)>>)>>),
     Exported("default", e),
     Inline(<<VarDecl("x", <<>>, e, {"const"}), Exported("x", Id("x"))>>),
     Class("C", Nil, <<Method("m", Nil, Function("m", <<Param("x", e, FALSE)>>, Body, {}), {})>>)}

\* The statements that take none.
Fixed ==
    {Empty, Return(Nil), Jump("break", ""), Jump("continue", "a"), VarDecl("x", <<>>, Nil, {}),
     For(Nil, Nil, Nil, Block(<<>>)),
     Inline(<<Require("m"), Imported("d", "default"), Imported("b", "a"), Imported("c", "c")>>),
     Inline(<<Require("m"), Imported("d", "default")>>),
     Inline(<<Require("m"), Imported("b", "a")>>), ImportJson("j", "m"),
     Inline(<<Exported("b", A), Exported("a", A)>>),
     Inline(<<Function("f", Args2, Body, {}), Exported("f", Id("f"))>>),
     Inline(<<Class("C", A, <<>>), Exported("C", Id("C"))>>),
     Function("f", Args2, Body, {"async", "*"}), Class("C", A, <<>>)}

\* The forms of statement that take statements.
Enclosing(s) ==
    {Block(<<s, ExprStmt(A), s>>), If(A, Block(<<s>>), s), If(A, s, Nil), While(A, s),
     DoWhile(s, B), For(Nil, A, B, s), ForEach("of", "x", Nil, A, s, FALSE),
     TryStmt(Block(<<s>>), "e", Block(<<s>>), Block(<<s>>)),
     TryStmt(Block(<<s>>), "", Block(<<>>), Nil), TryStmt(Block(<<>>), "", Nil, Block(<<s>>)),
     Switch(A, <<Case(One, <<s>>), Case(Nil, <<s, Jump("break", "")>>)>>),
     Function("f", <<>>, Block(<<s>>), {"*"}),
     ExprStmt(Function("", <<>>, Block(<<s>>), {"arrow"}))}

Modular(s) == s.t = "inline" \/ (s.t = "expr" /\ IsDefault(s.e))

SimpleStatements == Fixed \cup Holding(A)
Statements ==
    {s \in SimpleStatements \cup UNION {Holding(e) : e \in Simple}
           \cup UNION {Enclosing(s) : s \in {s \in SimpleStatements : ~Modular(s)}} :
        ~Unreadable(s)}

WrittenIn(t, st) == Text(t, st, IF st = "full" THEN Semi ELSE <<>>)

Whole(t, st) == [tree |-> t, style |-> st, cut |-> FALSE, text |-> WrittenIn(t, st)]
Complete ==
    {Whole(t, st) : t \in Statements, st \in Styles} \cup
    {Whole(ExprStmt(e), "terse") : e \in {e \in Nested : ~Unreadable(e)}}

\* The prefixes of the simple statements.
CutAt(t, st) ==
    LET Cut(s) == {[tree |-> t, style |-> st, cut |-> TRUE, text |-> SubSeq(s, 1, n)] :
                      n \in 1 .. Len(s) - 1}
    IN  Cut(WrittenIn(t, st))
Truncated ==
    UNION {CutAt(t, st) : t \in SimpleStatements \cup {ExprStmt(e) : e \in Simple}, st \in Styles}

\* The program of one empty statement.
Smallest == [tree |-> Empty, style |-> "full", cut |-> FALSE, text |-> Semi]

All == Complete \cup Truncated
=============================================================================

------------------------------- MODULE Parser -------------------------------
(***************************************************************************)
(* The scanner and the recursive-descent parser of src/compiler.c:         *)
(* scan_token's choice between a division and a regular expression, every  *)
(* parse_ function, and the loop of compile_source that calls them.        *)
(*                                                                         *)
(* A token carries its kind and its text.  The parser p holds the tokens,  *)
(* the position of the current one, has_error, and whether it has          *)
(* dereferenced a null node (the process is gone then).  Each parsing      *)
(* operator returns the parser after it and the node it built, Nil for a   *)
(* null pointer.  Messages, positions and memory are left out.             *)
(***************************************************************************)
EXTENDS Syntax

CONSTANT Sources      \* the programs: [tree, style, cut, text]

ParserAssumption ==
    \A s \in Sources : s.style \in Styles /\ s.cut \in BOOLEAN

VARIABLES
    program,          \* the program being compiled
    parser,           \* the Parser structure
    root,             \* the statements parsed so far
    status            \* "parsing", "accepted", "rejected", "crashed"

vars == <<program, parser, root, status>>

-----------------------------------------------------------------------------
(* The scanner *)

\* last_was_value after a token of kind k: a '/' divides there.
LastWasValue(k) ==
    k \in {"id", "num", "string", "tail", "regex", "true", "false", "null", "undefined",
           "typeof", "void", "delete", "new", "super", "yield", ")", "]", "}", "++", "--"}

\* A regular expression after a value is read as a division, a division
\* elsewhere as the start of a regular expression.
ScanToken(text, i) ==
    LET Value(j) == j \in DOMAIN text /\ LastWasValue(text[j].k)
    IN  CASE text[i].k = "regex" /\ Value(i - 1) -> Tok("/")
          [] text[i].k \in {"/", "/="} /\ ~Value(i - 1) -> [k |-> "regex", v |-> text[i].k]
          [] OTHER -> text[i]
Scan(text) == [i \in DOMAIN text |-> ScanToken(text, i)]

-----------------------------------------------------------------------------
(* The parser's primitives *)

EOF == Tok("eof")
At(p, i) == IF i \in DOMAIN p.tokens THEN p.tokens[i] ELSE EOF
Cur(p) == At(p, p.at)
Previous(p) == At(p, p.at - 1)

Check(p, k) == Cur(p).k = k
Advance(p) == [p EXCEPT !.at = IF @ <= Len(p.tokens) + 1 THEN @ + 1 ELSE @]
Failed(p) == [p EXCEPT !.error = TRUE]
Match(p, k) == IF Check(p, k) THEN Advance(p) ELSE p
Consume(p, k) == IF Check(p, k) THEN Advance(p) ELSE Failed(p)
RECURSIVE ConsumeAll(_, _)
ConsumeAll(p, ks) ==
    IF ks = <<>> THEN p ELSE ConsumeAll(Consume(p, Head(ks)), Tail(ks))

Result(p, n) == [p |-> p, n |-> n]
Then(r, F(_, _)) == IF r.p.crashed THEN r ELSE F(r.p, r.n)

\* match() as a flag.
Flagged(p, k) == Result(Match(p, k), IF Check(p, k) THEN {k} ELSE {})

IsName(p) == Cur(p).k \in {"id"} \cup Keywords
IsKey(p) == IsName(p) \/ Cur(p).k \in {"string", "num"}

\* The functions of the grammar that call each other in a circle.
RECURSIVE Parse(_, _)
ParseStatement(p) == Parse("statement", p)
ParseExpr(p) == Parse("expression", p)
ParseAssignment(p) == Parse("assignment", p)
ParseUnary(p) == Parse("unary", p)

-----------------------------------------------------------------------------
(* Lists *)

\* parse_param_list: nothing may follow a rest parameter.
ParseParam(p) ==
    IF Check(p, "...")
      THEN LET Rest(q) == Result(q, Param(Previous(q).v, Nil, TRUE))
           IN  Rest(Consume(Advance(p), "id"))
      ELSE LET Named(q) ==
                 IF Check(q, "=")
                   THEN Then(ParseAssignment(Advance(q)),
                             LAMBDA r, e : Result(r, Param(Previous(q).v, e, FALSE)))
                   ELSE Result(q, Param(Previous(q).v, Nil, FALSE))
           IN  Named(Consume(p, "id"))

RECURSIVE ParseParams(_, _)
ParseParams(p, ps) ==
    IF Check(p, ")") THEN Result(p, ps)
    ELSE Then(ParseParam(p), LAMBDA q, n :
             IF ~n.rest /\ Check(q, ",")
               THEN ParseParams(Advance(q), Append(ps, n))
               ELSE Result(q, Append(ps, n)))
ParseParamList(p) == ParseParams(p, <<>>)

\* The arguments of a call, up to the closing parenthesis.
ParseArg(p) ==
    IF Check(p, "...")
      THEN Then(ParseAssignment(Advance(p)), LAMBDA q, e : Result(q, Spread(e)))
      ELSE ParseAssignment(p)
RECURSIVE ParseArgs(_, _)
ParseArgs(p, as) ==
    IF Cur(p).k \in {")", "eof"} THEN Result(Consume(p, ")"), as)
    ELSE Then(ParseArg(p), LAMBDA q, a :
             IF Check(q, ",") THEN ParseArgs(Advance(q), Append(as, a))
                              ELSE Result(Consume(q, ")"), Append(as, a)))

\* Array elements: a comma where an element is expected is an elision.
RECURSIVE ParseElements(_, _)
ParseElements(p, es) ==
    IF Cur(p).k \in {"]", "eof"} THEN Result(Consume(p, "]"), Array(es))
    ELSE Then(IF Check(p, ",") THEN Result(p, Nil) ELSE ParseArg(p), LAMBDA q, e :
             IF Check(q, ",") THEN ParseElements(Advance(q), Append(es, e))
                              ELSE Result(Consume(q, "]"), Array(Append(es, e))))

-----------------------------------------------------------------------------
(* Functions *)

\* (params) body
ParseFunctionRest(p, x, flags) ==
    Then(ParseParamList(Consume(p, "(")), LAMBDA q, ps :
    Then(ParseStatement(Consume(q, ")")), LAMBDA r, b :
    Result(r, Function(x, ps, b, flags))))

ParseArrowBody(p, ps, flags) ==
    IF Check(p, "{")
      THEN Then(ParseStatement(p), LAMBDA q, b :
                Result(q, Function("", ps, b, flags \cup {"arrow"})))
      ELSE Then(ParseAssignment(p), LAMBDA q, b :
                Result(q, Function("", ps, b, flags \cup {"arrow", "concise"})))

\* function [*] [name] (params) body, as an expression.
ParseFunctionExpr(p, flags) ==
    Then(Flagged(p, "*"), LAMBDA q, star :
         IF Check(q, "id")
           THEN ParseFunctionRest(Advance(q), Cur(q).v, flags \cup star)
           ELSE ParseFunctionRest(q, "", flags \cup star))

\* async function, async arrow function, or the word async alone.
ParseAsync(p) ==
    CASE Check(p, "function") -> ParseFunctionExpr(Advance(p), {"async"})
      [] Check(p, "(") ->
            Then(ParseParamList(Advance(p)), LAMBDA q, ps :
                 ParseArrowBody(ConsumeAll(q, <<")", "=>">>), ps, {"async"}))
      [] Check(p, "id") ->
            ParseArrowBody(Consume(Advance(p), "=>"), <<Param(Cur(p).v, Nil, FALSE)>>, {"async"})
      [] OTHER -> Result(p, Id("async"))

\* An identifier, or the arrow function of one parameter.
ParseIdentifier(p) ==
    LET After(q) ==
          IF Check(q, "=>")
            THEN ParseArrowBody(Advance(q), <<Param(Cur(p).v, Nil, FALSE)>>, {})
            ELSE Result(q, Id(Cur(p).v))
    IN  After(Advance(p))

\* A parenthesised expression becomes a parameter list when '=>' follows it.
ParamOf(e) ==
    CASE e.t = "id" -> Param(e.x, Nil, FALSE)
      [] e.t = "assign" -> IF e.l.t = "id" THEN Param(e.l.x, e.r, FALSE)
                                           ELSE Param("", Nil, FALSE)
      [] e.t = "spread" -> IF e.e.t = "id" THEN Param(e.e.x, Nil, TRUE)
                                           ELSE Param("", Nil, FALSE)
      [] OTHER -> Param("_p", Nil, FALSE)
Crashed(p) == [p EXCEPT !.crashed = TRUE]
NullTarget(e) == e.t = "assign" /\ e.l = Nil
ParseGroup(p) ==
    LET Exprs(e) == IF e.t = "sequence" THEN e.es ELSE <<e>>
        Arrow(q, es) ==
          IF es = <<Nil>> \/ \E i \in DOMAIN es : NullTarget(es[i])
            THEN Result(Crashed(q), Nil)
            ELSE ParseArrowBody(q, Each(es, ParamOf), {})
        EmptyGroup(q) == IF Check(q, "=>") THEN ParseArrowBody(Advance(q), <<>>, {})
                                      ELSE Result(q, Lit("undefined", "undefined"))
        Inner(q, e) == IF Check(q, "=>") THEN Arrow(Advance(q), Exprs(e)) ELSE Result(q, e)
    IN  IF Check(p, ")") THEN EmptyGroup(Advance(p))
        ELSE Then(ParseExpr(p), LAMBDA q, e : Inner(Consume(q, ")"), e))

-----------------------------------------------------------------------------
(* Object literals and classes *)

\* get or set: an accessor, unless what follows makes it the key itself.
ParseKey(p) ==
    LET Plain(q, flags) ==
          Result(Advance(q), [x |-> IF IsKey(q) THEN Cur(q).v ELSE "__unknown__",
                              flags |-> flags])
    IN  IF Cur(p).k \notin {"get", "set"} THEN Plain(p, {})
        ELSE IF Cur(Advance(p)).k \in {"(", ",", "}", "="}
               THEN Result(Advance(p), [x |-> Cur(p).k, flags |-> {}])
        ELSE Plain(Advance(p), {Cur(p).k})

ParsePropertyRest(p, key) ==
    CASE key.flags = {"get"} ->
            Then(ParseStatement(ConsumeAll(p, <<"(", ")">>)), LAMBDA q, b :
                 Result(q, Property(Nil, key.x, Function(key.x, <<>>, b, {}), {"get"})))
      [] key.flags = {"set"} ->
            Then(ParseFunctionRest(p, key.x, {}), LAMBDA q, f :
                 Result(q, Property(Nil, key.x, f, {"set"})))
      [] Check(p, ":") ->
            Then(ParseAssignment(Advance(p)), LAMBDA q, e :
                 Result(q, Property(Nil, key.x, e, {})))
      [] Check(p, "(") ->
            Then(ParseFunctionRest(p, key.x, {}), LAMBDA q, f :
                 Result(q, Property(Nil, key.x, f, {"short"})))
      [] OTHER -> Result(p, Property(Nil, key.x, Id(key.x), {"short"}))

ParseProperty(p) ==
    CASE Check(p, "...") ->
            Then(ParseAssignment(Advance(p)), LAMBDA q, e :
                 Result(q, Property(Nil, "", e, {"..."})))
      [] Check(p, "[") ->
            Then(ParseAssignment(Advance(p)), LAMBDA q, k :
            Then(ParseAssignment(ConsumeAll(q, <<"]", ":">>)), LAMBDA r, e :
                 Result(r, Property(k, "", e, {"computed"}))))
      [] OTHER -> Then(ParseKey(p), ParsePropertyRest)

RECURSIVE ParseProperties(_, _)
ParseProperties(p, ps) ==
    IF Cur(p).k \in {"}", "eof"} THEN Result(Consume(p, "}"), Object(ps))
    ELSE Then(ParseProperty(p), LAMBDA q, n :
             IF Check(q, ",") THEN ParseProperties(Advance(q), Append(ps, n))
                              ELSE Result(Consume(q, "}"), Object(Append(ps, n))))

\* The name of a method.  A class declaration takes any token for one, a class
\* expression leaves a token that cannot be a key where it is.
ParseMethodName(p, declaration) ==
    LET Name(q, flags) ==
          CASE Check(q, "[") ->
                  Then(ParseAssignment(Advance(q)), LAMBDA r, e :
                       Result(Consume(r, "]"),
                              [x |-> "", e |-> e, flags |-> flags \cup {"computed"}]))
            [] declaration \/ IsKey(q) ->
                  Result(Advance(q), [x |-> Cur(q).v, e |-> Nil, flags |-> flags])
            [] OTHER -> Result(q, [x |-> "", e |-> Nil, flags |-> flags])
    IN  IF Cur(p).k \notin {"get", "set"} THEN Name(p, {})
        ELSE IF Check(Advance(p), "(")
               THEN Result(Advance(p), [x |-> Cur(p).k, e |-> Nil, flags |-> {}])
        ELSE Name(Advance(p), {Cur(p).k})

ParseMethod(p, declaration) ==
    LET a == Match(p, "static")
        g == Match(a, "async")
        Given(q, k) == IF Check(q, k) THEN {k} ELSE {}
        kind == Given(a, "async") \cup Given(g, "*")
    IN  Then(ParseMethodName(Match(g, "*"), declaration), LAMBDA q, name :
        Then(ParseFunctionRest(q, name.x, kind), LAMBDA r, f :
             Result(r, Method(name.x, name.e, f,
                              Given(p, "static") \cup kind \cup name.flags))))

RECURSIVE ParseMethods(_, _, _)
ParseMethods(p, ms, declaration) ==
    IF Cur(p).k \in {"}", "eof"} THEN Result(Consume(p, "}"), ms)
    ELSE IF Check(p, ";") THEN ParseMethods(Advance(p), ms, declaration)
    ELSE Then(ParseMethod(p, declaration), LAMBDA q, m :
              ParseMethods(q, Append(ms, m), declaration))

ParseClassRest(p, x, declaration) ==
    Then(IF Check(p, "extends") THEN ParseAssignment(Advance(p)) ELSE Result(p, Nil),
         LAMBDA q, super :
    Then(ParseMethods(Consume(q, "{"), <<>>, declaration), LAMBDA r, ms :
         Result(r, Class(x, super, ms))))
ParseClassExpr(p) ==
    IF Check(p, "id") THEN ParseClassRest(Advance(p), Cur(p).v, FALSE)
                      ELSE ParseClassRest(p, "", FALSE)
ParseClassDecl(p) ==
    IF Check(p, "id") THEN ParseClassRest(Advance(p), Cur(p).v, TRUE)
                      ELSE ParseClassRest(p, "", TRUE)

-----------------------------------------------------------------------------
(* Expressions *)

\* Template literals.  scan_template_continuation takes the text up to the
\* next "${" or backquote, and an unclosed template ends with the source.
NextChunk(p) ==
    LET First(is) == IF is = {} THEN Len(p.tokens) + 1
                     ELSE CHOOSE i \in is : \A j \in is : i <= j
    IN  First({i \in p.at .. Len(p.tokens) : p.tokens[i].k \in {"middle", "tail"}})
RECURSIVE ParseTemplateRest(_, _)
ParseTemplateRest(p, parts) ==
    LET Chunk(q) == At(q, q.at - 1)
        Add(q, e) ==
          IF Chunk(q).k = "middle"
            THEN ParseTemplateRest(q, parts \o <<e, Str(Chunk(q).v)>>)
            ELSE Result(q, Template(parts \o
                   <<e, Str(IF Chunk(q).k = "tail" THEN Chunk(q).v ELSE "")>>))
        Continue(q) == [q EXCEPT !.at = NextChunk(q) + 1]
    IN  Then(ParseExpr(p), LAMBDA q, e : Add(Continue(Consume(q, "}")), e))

ParseTemplate(p) ==
    IF Previous(p).k = "tail"
      THEN Result(p, Template(<<Str(Previous(p).v)>>))
      ELSE ParseTemplateRest(p, <<Str(Previous(p).v)>>)

ParseYield(p) ==
    Then(Flagged(p, "*"), LAMBDA q, all :
         IF Cur(q).k \in {";", "}", "eof", ")", "]", ","}
           THEN Result(q, Yield(Nil, all # {}))
           ELSE Then(ParseAssignment(q), LAMBDA r, e : Result(r, Yield(e, all # {}))))

Literals == {"num", "string", "true", "false", "null", "undefined", "regex"}

ParsePrimary(p) ==
    CASE Cur(p).k \in Literals -> Result(Advance(p), Lit(Cur(p).k, Cur(p).v))
      [] Cur(p).k \in {"head", "tail"} -> ParseTemplate(Advance(p))
      [] Check(p, "super") -> Result(Advance(p), Id("super"))
      [] Check(p, "id") -> ParseIdentifier(p)
      [] Check(p, "(") -> ParseGroup(Advance(p))
      [] Check(p, "[") -> ParseElements(Advance(p), <<>>)
      [] Check(p, "{") -> ParseProperties(Advance(p), <<>>)
      [] Check(p, "async") -> ParseAsync(Advance(p))
      [] Check(p, "function") -> ParseFunctionExpr(Advance(p), {})
      [] Check(p, "class") -> ParseClassExpr(Advance(p))
      [] Check(p, "yield") -> ParseYield(Advance(p))
      [] Check(p, "...") -> ParseArg(p)
      [] OTHER -> Result(Advance(Failed(p)), Nil)

\* new: the callee takes names after dots, not calls or indices; the name
\* after a dot is not insisted on.
RECURSIVE ParseCallee(_, _)
ParseCallee(p, f) ==
    LET Named(q) == ParseCallee(q, Access(f, Str(Previous(q).v), FALSE))
    IN  IF ~Check(p, ".") THEN Result(p, f)
        ELSE IF IsName(Advance(p)) THEN Named(Advance(Advance(p)))
        ELSE Named(Advance(p))
ParseNew(p) ==
    Then(ParsePrimary(p), LAMBDA q, e :
    Then(ParseCallee(q, e), LAMBDA r, f :
         IF Check(r, "(")
           THEN Then(ParseArgs(Advance(r), <<>>), LAMBDA s, as : Result(s, NewCall(f, as)))
           ELSE Result(r, NewCall(f, <<>>))))

\* Calls, property accesses and optional chains after a primary expression.
RECURSIVE ParseSuffixes(_, _)
ParseSuffixes(p, e) ==
    LET Name(q) == IF IsName(q) THEN Advance(q) ELSE q
        Dotted(q) == ParseSuffixes(q, Access(e, Str(Previous(q).v), FALSE))
        Chained(q) == ParseSuffixes(q, Chain(e, Str(Previous(q).v), FALSE))
        Optional(q) ==
          CASE Check(q, "[") ->
                  Then(ParseExpr(Advance(q)), LAMBDA r, i :
                       ParseSuffixes(Consume(r, "]"), Chain(e, i, TRUE)))
            [] Check(q, "(") ->
                  Then(ParseArgs(Advance(q), <<>>), LAMBDA r, as :
                       ParseSuffixes(r, Chain(Call(e, as), Nil, FALSE)))
            [] OTHER -> Chained(Name(q))
    IN  CASE Check(p, "(") ->
                Then(ParseArgs(Advance(p), <<>>), LAMBDA q, as : ParseSuffixes(q, Call(e, as)))
          [] Check(p, ".") ->
                Dotted(IF IsName(Advance(p)) THEN Advance(Advance(p)) ELSE Failed(Advance(p)))
          [] Check(p, "?.") -> Optional(Advance(p))
          [] Check(p, "[") ->
                Then(ParseExpr(Advance(p)), LAMBDA q, i :
                     ParseSuffixes(Consume(q, "]"), Access(e, i, TRUE)))
          [] OTHER -> Result(p, e)
ParseCallOrProp(p) ==
    IF Check(p, "new") THEN ParseNew(Advance(p)) ELSE Then(ParsePrimary(p), ParseSuffixes)

ParsePostfix(p) ==
    Then(ParseCallOrProp(p), LAMBDA q, e :
         IF Cur(q).k \in {"++", "--"} THEN Result(Advance(q), Postfix(Cur(q).k, e))
                                      ELSE Result(q, e))

Prefixed(p) ==
    IF Cur(p).k \in {"++", "--", "-", "!", "~", "typeof", "void", "delete", "await"}
      THEN Then(ParseUnary(Advance(p)), LAMBDA q, e :
                Result(q, IF Check(p, "await") THEN Await(e) ELSE Unary(Cur(p).k, e)))
      ELSE ParsePostfix(p)

\* parse_exponent down to parse_assignment each begin with an operand of the
\* next, and so with a unary expression: a rule is what it does after that one.

\* Right-associative.
RECURSIVE ExponentAfter(_, _)
ExponentAfter(p, l) ==
    IF Check(p, "**")
      THEN Then(ParseUnary(Advance(p)), LAMBDA q, u :
           Then(ExponentAfter(q, u), LAMBDA r, e : Result(r, Binary("**", l, e))))
      ELSE Result(p, l)

\* parse_logical_or (1) down to parse_multiplicative (10), left-associative.
\* Each calls the next for its operands, so an operand at level k takes in every
\* operator that binds tighter: the ten loops are one over the levels above k.
Operators ==
    <<{"||", "??"}, {"&&"}, {"|"}, {"^"}, {"&"}, {"===", "!==", "==", "!="},
      {"<", "<=", ">", ">=", "in", "instanceof"}, {"<<", ">>", ">>>"}, {"+", "-"},
      {"*", "/", "%"}>>
LevelOf(op) ==
    IF \E k \in DOMAIN Operators : op \in Operators[k]
      THEN CHOOSE k \in DOMAIN Operators : op \in Operators[k] ELSE 0
RECURSIVE ParseLevel(_, _)
RECURSIVE ParseOperands(_, _, _)
\* Mutant: an operand takes in the operators of its own level.
ParseOperandsRight(p, k, l) ==
    IF LevelOf(Cur(p).k) < k THEN Result(p, l)
    ELSE Then(ParseLevel(Advance(p), LevelOf(Cur(p).k)), LAMBDA q, r :
              ParseOperands(q, k, Binary(Cur(p).k, l, r)))
ParseOperands(p, k, l) ==
    IF LevelOf(Cur(p).k) < k THEN Result(p, l)
    ELSE Then(ParseLevel(Advance(p), LevelOf(Cur(p).k) + 1), LAMBDA q, r :
              ParseOperands(q, k, Binary(Cur(p).k, l, r)))
LevelAfter(p, k, u) == Then(ExponentAfter(p, u), LAMBDA q, l : ParseOperands(q, k, l))
ParseLevel(p, k) == Then(ParseUnary(p), LAMBDA q, u : LevelAfter(q, k, u))

RECURSIVE TernaryAfter(_, _)
TernaryAfter(p, u) ==
    Then(LevelAfter(p, 1, u), LAMBDA q, c :
         IF ~Check(q, "?") THEN Result(q, c)
         ELSE Then(ParseAssignment(Advance(q)), LAMBDA r, y :
              Then(ParseUnary(Consume(r, ":")), LAMBDA s, v :
              Then(TernaryAfter(s, v), LAMBDA t, n : Result(t, Ternary(c, y, n))))))

AssignOps == {"=", "+=", "-=", "*=", "/=", "%=", "**=", "&&=", "||=", "??=",
              "&=", "|=", "^=", "<<=", ">>=", ">>>="}
AssignmentAfter(p, u) ==
    Then(TernaryAfter(p, u), LAMBDA q, l :
         IF Cur(q).k \notin AssignOps THEN Result(q, l)
         ELSE Then(ParseAssignment(Advance(q)), LAMBDA r, e :
                   Result(r, Assignment(Cur(q).k, l, e))))
Assigned(p) == Then(ParseUnary(p), AssignmentAfter)

RECURSIVE ParseSequence(_, _)
ParseSequence(p, es) ==
    IF ~Check(p, ",") THEN Result(p, Sequence(es))
    ELSE Then(ParseAssignment(Advance(p)), LAMBDA q, e : ParseSequence(q, Append(es, e)))
Expression(p) ==
    Then(ParseAssignment(p), LAMBDA q, e :
         IF Check(q, ",") THEN ParseSequence(q, <<e>>) ELSE Result(q, e))

-----------------------------------------------------------------------------
(* Statements *)

\* Names of an import or export list: [name, as].
ParseSpecifier(p) ==
    LET As(q) == Result(q, Previous(q).v)
    IN  Then(As(Consume(p, "id")), LAMBDA q, name :
             IF Check(q, "as")
               THEN Then(As(Consume(Advance(q), "id")), LAMBDA r, x :
                         Result(r, [name |-> name, as |-> x]))
               ELSE Result(q, [name |-> name, as |-> name]))
RECURSIVE ParseSpecifiers(_, _)
ParseSpecifiers(p, ns) ==
    Then(ParseSpecifier(p), LAMBDA q, n :
         IF Check(q, ",") THEN ParseSpecifiers(Advance(q), Append(ns, n))
                          ELSE Result(q, Append(ns, n)))
ParseSpecifierList(p) ==
    Then(IF Check(p, "}") THEN Result(p, <<>>) ELSE ParseSpecifiers(p, <<>>),
         LAMBDA q, ns : Result(Consume(q, "}"), ns))

\* import d from, import {a as b} from, import d, {a} from, import * as d from.
ParseImportClause(p) ==
    LET Names(q, d) ==
          IF Previous(q).k = "{"
            THEN Then(ParseSpecifierList(q), LAMBDA r, ns : Result(r, [d |-> d, ns |-> ns]))
            ELSE Result(q, [d |-> d, ns |-> <<>>])
        Star(q) == Result(q, [d |-> Previous(q).v, ns |-> <<>>])
        Default(q) == IF Check(q, ",") THEN Consume(Advance(q), "{") ELSE q
    IN  CASE Check(p, "id") -> Names(Default(Advance(p)), Cur(p).v)
          [] Check(p, "{") -> Names(Advance(p), "")
          [] Check(p, "*") -> Star(ConsumeAll(Advance(p), <<"as", "id">>))
          [] OTHER -> Names(Failed(p), "")
ParseImportSource(p) ==
    LET Path(q) == Result(q, Previous(q).v)
        With(q) == Result(Consume(q, "}"), Previous(q).v = "json")
    IN  Then(Path(ConsumeAll(p, <<"from", "string">>)), LAMBDA q, path :
        Then(IF Check(q, "with")
               THEN With(ConsumeAll(Advance(q), <<"{", "id", ":", "string">>))
               ELSE Result(q, FALSE), LAMBDA r, json :
             Result(Match(r, ";"), [path |-> path, json |-> json])))
ParseImport(p) ==
    LET Default(d) == IF d = "" THEN <<>> ELSE <<Imported(d, "default")>>
        JsonName(d) == IF d = "" THEN "__unused_json" ELSE d
    IN  Then(ParseImportClause(p), LAMBDA q, c :
        Then(ParseImportSource(q), LAMBDA r, src :
             Result(r, IF src.json THEN ImportJson(JsonName(c.d), src.path)
                       ELSE Inline(<<Require(src.path)>> \o Default(c.d) \o
                                   Each(c.ns, LAMBDA n : Imported(n.as, n.name))))))

\* export default e, export * from (dropped), export {a as b} [from], and
\* export of a declaration, whose node may not be null.
ParseExport(p) ==
    LET From(q) == Match(Match(Match(q, "from"), "string"), ";")
        Declared(d) == IF d.t \in {"var", "function", "class"} /\ d.x # ""
                         THEN <<d, Exported(d.x, Id(d.x))>> ELSE <<d>>
    IN  CASE Check(p, "default") ->
                Then(ParseExpr(Advance(p)), LAMBDA q, e :
                     Result(Match(q, ";"), Exported("default", e)))
          [] Check(p, "*") -> Result(From(Advance(p)), Empty)
          [] Check(p, "{") ->
                Then(ParseSpecifierList(Advance(p)), LAMBDA q, ns :
                     Result(From(q), Inline(Each(ns, LAMBDA n : Exported(n.as, Id(n.name))))))
          [] OTHER ->
                Then(ParseStatement(p), LAMBDA q, d :
                     IF d = Nil THEN Result(Crashed(q), Nil)
                                ELSE Result(q, Inline(Declared(d))))

RECURSIVE ParseBlock(_, _)
ParseBlock(p, ss) ==
    IF Cur(p).k \in {"}", "eof"} THEN Result(Consume(p, "}"), Block(ss))
    ELSE Then(ParseStatement(p), LAMBDA q, s : ParseBlock(q, Append(ss, s)))

ParseTry(p) ==
    LET Param_(q) == Result(Consume(q, ")"), Previous(q).v)
        Clause(q, k) == IF Check(q, k) THEN ParseStatement(Advance(q)) ELSE Result(q, Nil)
        Catch(q) ==
          CASE ~Check(q, "catch") -> Result(q, [x |-> "", c |-> Nil])
            [] Check(Advance(q), "(") ->
                  Then(Param_(Consume(Advance(Advance(q)), "id")), LAMBDA r, x :
                  Then(ParseStatement(r), LAMBDA s, c : Result(s, [x |-> x, c |-> c])))
            [] OTHER -> Then(Clause(q, "catch"), LAMBDA r, c : Result(r, [x |-> "", c |-> c]))
    IN  Then(ParseStatement(p), LAMBDA q, b :
        Then(Catch(q), LAMBDA r, h :
        Then(Clause(r, "finally"), LAMBDA s, f : Result(s, TryStmt(b, h.x, h.c, f)))))

\* Destructuring: a binding is [key, x, default, rest]; x = "" is an elision.
ParseBinding(p, array) ==
    LET Rest(q) == Result(q, Binding("", Previous(q).v, Nil, TRUE))
        Default(q, key) ==
          IF Check(q, "=")
            THEN Then(ParseAssignment(Advance(q)), LAMBDA r, e :
                      Result(r, Binding(key, Previous(q).v, e, FALSE)))
            ELSE Result(q, Binding(key, Previous(q).v, Nil, FALSE))
        Keyed(q) == IF Check(q, ":") THEN Default(Consume(Advance(q), "id"), Previous(q).v)
                                     ELSE Default(q, Previous(q).v)
    IN  CASE array /\ Check(p, ",") -> Result(p, Binding("", "", Nil, FALSE))
          [] Check(p, "...") -> Rest(Consume(Advance(p), "id"))
          [] array -> Default(Consume(p, "id"), "")
          [] OTHER -> Keyed(Consume(p, "id"))
Closing(array) == IF array THEN "]" ELSE "}"
RECURSIVE ParseBindings(_, _, _)
ParseBindings(p, bs, array) ==
    IF Cur(p).k \in {Closing(array), "eof"} THEN Result(Consume(p, Closing(array)), bs)
    ELSE Then(ParseBinding(p, array), LAMBDA q, b :
              IF ~b.rest /\ Check(q, ",")
                THEN ParseBindings(Advance(q), Append(bs, b), array)
                ELSE Result(Consume(q, Closing(array)), Append(bs, b)))

\* let, const, var, using, await using.  The initialiser is a whole expression:
\* further declarators become operands of a comma.
ParseVarDecl(p, flags) ==
    LET Init(q, x, bs, fl) ==
          IF Check(q, "=")
            THEN Then(ParseExpr(Advance(q)), LAMBDA r, e :
                      Result(Match(r, ";"), VarDecl(x, bs, e, fl)))
            ELSE Result(Match(q, ";"), VarDecl(x, bs, Nil, fl))
        Named(q) == Init(q, Previous(q).v, <<>>, flags)
    IN  CASE Check(p, "{") -> Then(ParseBindings(Advance(p), <<>>, FALSE), LAMBDA q, bs :
                                   Init(q, "", bs, flags))
          [] Check(p, "[") -> Then(ParseBindings(Advance(p), <<>>, TRUE), LAMBDA q, bs :
                                   Init(q, "", bs, flags \cup {"array"}))
          [] OTHER -> Named(Consume(p, "id"))

ParseCondition(p) ==
    Then(ParseExpr(Consume(p, "(")), LAMBDA q, e : Result(Consume(q, ")"), e))
ParseIf(p) ==
    Then(ParseCondition(p), LAMBDA q, c :
    Then(ParseStatement(q), LAMBDA r, y :
    Then(IF Check(r, "else") THEN ParseStatement(Advance(r)) ELSE Result(r, Nil),
         LAMBDA s, n : Result(s, If(c, y, n)))))
ParseWhile(p) ==
    Then(ParseCondition(p), LAMBDA q, c :
    Then(ParseStatement(q), LAMBDA r, b : Result(r, While(c, b))))
ParseDo(p) ==
    Then(ParseStatement(p), LAMBDA q, b :
    Then(ParseCondition(Consume(q, "while")), LAMBDA r, c :
         Result(Match(r, ";"), DoWhile(b, c))))

\* The three parts of a C-style loop.  After a declaration the semicolon may
\* already be gone.
ParseForRest(p, declared) ==
    LET Part(q, k) == IF Check(q, k) THEN Result(Advance(q), Nil)
                      ELSE Then(ParseExpr(q), LAMBDA r, e : Result(Consume(r, k), e))
    IN  Then(IF declared THEN ParseStatement(p) ELSE Part(p, ";"), LAMBDA q, i :
        Then(Part(q, ";"), LAMBDA r, c :
        Then(Part(r, ")"), LAMBDA s, u :
        Then(ParseStatement(s), LAMBDA t, b : Result(t, For(i, c, u, b))))))

\* for-of and for-in are recognised by parsing the declaration and looking at
\* what follows; otherwise the parser goes back, but keeps has_error.
ParseFor(p) ==
    LET Simple(d) == "array" \notin d.flags /\ d.binds = <<>> /\ d.x # ""
        Each_(q, d, await) ==
          Then(ParseExpr(Advance(q)), LAMBDA r, e :
          Then(ParseStatement(Consume(r, ")")), LAMBDA s, b :
               Result(s, ForEach(Cur(q).k, IF Simple(d) THEN d.x ELSE "",
                                 IF Simple(d) THEN Nil ELSE d, e, b,
                                 await /\ Cur(q).k = "of"))))
        Back(q, r) == [q EXCEPT !.error = r.error, !.crashed = r.crashed]
        Loop(q, await) ==
          IF Cur(q).k \notin {"let", "const", "var"} THEN ParseForRest(q, FALSE)
          ELSE Then(ParseStatement(q), LAMBDA r, d :
                    IF Cur(r).k \in {"of", "in"} THEN Each_(r, d, await)
                                                 ELSE ParseForRest(Back(q, r), TRUE))
    IN  Loop(Consume(Match(p, "await"), "("), Check(p, "await"))

\* A case ends at the next case or default, at the brace, or right after a
\* break that has no semicolon; what follows that break is skipped.
Added(ss, s) == IF s = Nil THEN ss ELSE Append(ss, s)
RECURSIVE ParseCaseBody(_, _)
ParseCaseBody(p, ss) ==
    IF Cur(p).k \in {"case", "default", "}", "eof"} THEN Result(p, ss)
    ELSE Then(ParseStatement(p), LAMBDA q, s :
              IF Previous(q).k = "break" THEN Result(q, Added(ss, s))
                                         ELSE ParseCaseBody(q, Added(ss, s)))
RECURSIVE ParseCases(_, _)
ParseCases(p, cs) ==
    LET Body(q, e) == Then(ParseCaseBody(q, <<>>), LAMBDA r, ss :
                           ParseCases(r, Append(cs, Case(e, ss))))
    IN  CASE Cur(p).k \in {"}", "eof"} -> Result(Consume(p, "}"), cs)
          [] Check(p, "case") ->
                Then(ParseExpr(Advance(p)), LAMBDA q, e : Body(Consume(q, ":"), e))
          [] Check(p, "default") -> Body(Consume(Advance(p), ":"), Nil)
          [] OTHER -> ParseCases(Advance(p), cs)
ParseSwitch(p) ==
    Then(ParseCondition(p), LAMBDA q, e :
    Then(ParseCases(Consume(q, "{"), <<>>), LAMBDA r, cs : Result(r, Switch(e, cs))))

ParseBreak(p, kind) ==
    IF Check(p, "id") THEN Result(Match(Advance(p), ";"), Jump(kind, Cur(p).v))
                      ELSE Result(Match(p, ";"), Jump(kind, ""))
ParseReturn(p) ==
    IF Cur(p).k \in {";", "}", "eof"} THEN Result(Match(p, ";"), Return(Nil))
    ELSE Then(ParseExpr(p), LAMBDA q, e : Result(Match(q, ";"), Return(e)))
ParseThrow(p) ==
    Then(ParseExpr(p), LAMBDA q, e : Result(Match(q, ";"), Throw(e)))

\* A statement that starts with async and is no function loses the word.
ParseAsyncStatement(p) ==
    Then(ParseAssignment(p), LAMBDA q, e : Result(Match(q, ";"), ExprStmt(e)))
ParseFunctionDecl(p, flags) ==
    LET Named(q, star) == ParseFunctionRest(q, Previous(q).v, flags \cup star)
    IN  Then(Flagged(p, "*"), LAMBDA q, star : Named(Consume(q, "id"), star))

ParseExprStatement(p) ==
    Then(ParseExpr(p), LAMBDA q, e :
         IF e = Nil THEN Result(q, Nil) ELSE Result(Match(q, ";"), ExprStmt(e)))

Statement(p) ==
    LET Dispatch(q) ==
        CASE Check(p, ";") -> Result(q, Empty)
          [] Check(p, "debugger") -> Result(Match(q, ";"), Empty)
          [] Check(p, "import") -> ParseImport(q)
          [] Check(p, "export") -> ParseExport(q)
          [] Check(p, "{") -> ParseBlock(q, <<>>)
          [] Check(p, "try") -> ParseTry(q)
          [] Check(p, "await") /\ Check(q, "using") ->
                ParseVarDecl(Advance(q), {"using", "await"})
          [] Cur(p).k \in {"let", "var"} -> ParseVarDecl(q, {})
          [] Cur(p).k \in {"const", "using"} -> ParseVarDecl(q, {Cur(p).k})
          [] Check(p, "if") -> ParseIf(q)
          [] Check(p, "while") -> ParseWhile(q)
          [] Check(p, "do") -> ParseDo(q)
          [] Check(p, "for") -> ParseFor(q)
          [] Check(p, "switch") -> ParseSwitch(q)
          [] Cur(p).k \in {"break", "continue"} -> ParseBreak(q, Cur(p).k)
          [] Check(p, "return") -> ParseReturn(q)
          [] Check(p, "throw") -> ParseThrow(q)
          [] Check(p, "class") -> ParseClassDecl(q)
          [] Check(p, "async") -> IF Check(q, "function")
                                    THEN ParseFunctionDecl(Advance(q), {"async"})
                                    ELSE ParseAsyncStatement(q)
          [] Check(p, "function") -> ParseFunctionDecl(q, {})
          [] OTHER -> ParseExprStatement(p)
    IN  Dispatch(Advance(p))

Parse(rule, p) ==
    CASE rule = "unary" -> Prefixed(p)
      [] rule = "assignment" -> Assigned(p)
      [] rule = "expression" -> Expression(p)
      [] rule = "statement" -> Statement(p)

-----------------------------------------------------------------------------
(* compile_source's loop *)

Begin(s) ==
    /\ program = s
    /\ parser = [tokens |-> Scan(s.text), at |-> 1, error |-> FALSE, crashed |-> FALSE]
    /\ root = <<>>
    /\ status = "parsing"

Init == \E s \in Sources : Begin(s)

\* One statement more; the token after a null one is skipped.
ParseOne ==
    /\ status = "parsing" /\ ~Check(parser, "eof")
    /\ \E r \in {ParseStatement(parser)} :
          /\ parser' = IF r.n = Nil THEN Advance(r.p) ELSE r.p
          /\ root' = IF r.n = Nil THEN root ELSE Append(root, r.n)
          /\ status' = IF r.p.crashed THEN "crashed" ELSE status
    /\ UNCHANGED program

Finish ==
    /\ status = "parsing" /\ Check(parser, "eof")
    /\ status' = IF parser.error THEN "rejected" ELSE "accepted"
    /\ UNCHANGED <<program, parser, root>>

Next == ParseOne \/ Finish

Done == status # "parsing"

Spec == Init /\ [][Next]_vars /\ WF_vars(Next)

-----------------------------------------------------------------------------
(* Properties *)

\* What is optional in a text.
Plain(text) == SelectSeq(text, LAMBDA l : l.k # ";")

\* A text that stops in a template or after the dot of a name is taken for a
\* complete one.
TakenAsComplete(text) ==
    \/ Last(text).k \in {".", "?."}
    \/ text = <<Tok("("), Tok(")")>>
    \/ \E i \in DOMAIN text : text[i].k = "head" /\ \A j \in i .. Len(text) : text[j].k # "tail"

\* The parser builds the tree that the program was written from: a complete
\* program is accepted, and its operators, arrow functions, patterns and
\* optional semicolons are grouped as the language groups them, however the
\* scanner and the look-ahead of parse_primary and parse_statement cut the
\* text.  A program that stops in the middle is rejected, unless what there is
\* of it is the text of the tree that was built.
ParsesAsWritten ==
    /\ status \in {"rejected", "crashed"} => program.cut
    /\ status = "accepted" /\ ~program.cut => root = <<program.tree>>
    /\ status = "accepted" /\ program.cut /\ ~TakenAsComplete(program.text) =>
          \E st \in Styles : Plain(program.text) \in {Plain(BodyText(root, st)),
                                                    Parens(Plain(BodyText(root, st)))}
=============================================================================

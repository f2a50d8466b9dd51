--------------------------- MODULE SamplePrograms ---------------------------
(***************************************************************************)
(* Programs for Machine: a statement that prints, assigns, throws, returns *)
(* or leaves a loop, inside two constructs of the language, between        *)
(* statements that show what became of the variables.                      *)
(***************************************************************************)
EXTENDS Integers, Sequences


Const(v) == [t |-> "num", v |-> v]
Nothing == [t |-> "none"]
Var(x) == [t |-> "var", x |-> x]
Plus(l, r) == [t |-> "bin", op |-> "+", l |-> l, r |-> r]
Less(l, r) == [t |-> "bin", op |-> "<", l |-> l, r |-> r]
Expr(e) == [t |-> "expr", e |-> e]
CallOf(f, args) == [t |-> "call", f |-> f, args |-> args]
LogOf(e) == Expr(CallOf(Var("log"), <<e>>))
Let(x, e) == [t |-> "let", x |-> x, e |-> e]
Assign(x, e) == [t |-> "assign", x |-> x, e |-> e]
Block(id, ss) == [t |-> "block", id |-> id, ss |-> ss]
Function(id, name, p, ss) == [t |-> "fn", id |-> id, name |-> name, p |-> p, body |-> Block(id + 1, ss)]
Case(test, body) == [t |-> "case", test |-> test, body |-> body]
Try(b, h, x, f) == [t |-> "try", body |-> b, handler |-> h, x |-> x, final |-> f]

Compound(x, op, e) == [t |-> "compound", x |-> x, op |-> op, e |-> e]
Step(x, op, prefix) == [t |-> "step", x |-> x, op |-> op, prefix |-> prefix]

\* The statements at the heart of a program.
Compounds == {"&&", "||", "??", "+"}
Simple == {"log", "assign", "throw", "logic", "clash", "steps"} \cup Compounds
Leaving == {"break", "continue"}
Returning == {"return"}
Leaf(k) ==
    CASE k = "log" -> LogOf(Plus(Var("x"), Var("y")))
      [] k = "assign" -> Expr(Assign("x", Plus(Assign("y", Const(5)), Var("x"))))
      [] k = "throw" -> [t |-> "throw", e |-> Plus(Var("x"), Const(20))]
      [] k = "logic" -> LogOf([t |-> "logic", op |-> "||", l |-> Less(Var("y"), Var("x")),
                               r |-> [t |-> "cond", c |-> Var("x"), y |-> Assign("x", Const(7)), z |-> Var("y")]])
      [] k \in Compounds ->
            LogOf([t |-> "logic", op |-> "??", l |-> CallOf(Var("log"), <<Compound("x", k, Step("y", "-", TRUE))>>),
                   r |-> Plus(Compound("u", k, Const(4)), Compound("x", "-", Var("y")))])
      [] k = "steps" -> LogOf(Plus(Step("y", "+", FALSE), [t |-> "not", e |-> Step("x", "-", TRUE)]))
      [] k = "clash" -> Expr(CallOf(Var("y"), <<Var("x")>>))
      [] k = "return" -> [t |-> "return", e |-> Var("x")]
      [] OTHER -> [t |-> k]

\* A construct around statement s; id numbers its scopes.
Loops == {"while", "do", "for"}
Tries == {"catch", "handler", "finally", "both"}
Constructs == Loops \cup Tries \cup {"block", "if", "else", "switch", "default", "function", "closure", "apply"}
Around(k, id, s) ==
    LET i == IF id < 20 THEN "i" ELSE "j"
        Inc == Expr(Assign(i, Plus(Var(i), Const(1))))
        More == Less(Var(i), Const(2))
    IN  CASE k = "block" -> Block(id, <<Let("y", Const(3)), s, LogOf(Var("y"))>>)
          [] k = "if" -> [t |-> "if", c |-> Var("x"), y |-> Block(id, <<s>>), z |-> LogOf(Const(8))]
          [] k = "else" -> [t |-> "if", c |-> Less(Var("y"), Var("x")), y |-> LogOf(Const(8)), z |-> Block(id, <<s>>)]
          [] k = "while" -> Block(id, <<Let(i, Const(0)),
                                [t |-> "while", c |-> More, body |-> Block(id + 1, <<Inc, s, LogOf(Var(i))>>)]>>)
          [] k = "do" -> Block(id, <<Let(i, Const(0)),
                                [t |-> "do", c |-> More, body |-> Block(id + 1, <<Inc, s, LogOf(Var(i))>>)]>>)
          [] k = "for" -> [t |-> "for", id |-> id, init |-> Let(i, Const(0)), c |-> More,
                           upd |-> Assign(i, Plus(Var(i), Const(1))), body |-> Block(id + 1, <<s, LogOf(Var(i))>>)]
          [] k = "switch" -> [t |-> "switch", e |-> Var("x"),
                              cases |-> <<Case(Const(1), <<s, LogOf(Const(11))>>), Case(Const(2), <<LogOf(Const(12))>>)>>]
          [] k = "default" -> [t |-> "switch", e |-> Var("y"),
                               cases |-> <<Case(Const(1), <<LogOf(Const(11))>>), Case([t |-> "default"], <<s>>)>>]
          [] k = "catch" -> Try(Block(id, <<s, LogOf(Const(9))>>), Block(id + 1, <<LogOf(Var("q"))>>), "q", Nothing)
          [] k = "handler" -> Try(Block(id, <<[t |-> "throw", e |-> Const(4)]>>),
                                  Block(id + 1, <<s, LogOf(Var("q"))>>), "q", Nothing)
          [] k = "finally" -> Try(Block(id, <<s>>), Nothing, "q", Block(id + 2, <<LogOf(Var("x"))>>))
          [] k = "both" -> Try(Block(id, <<s>>), Block(id + 1, <<LogOf(Var("q"))>>), "q",
                               Block(id + 2, <<Let("z", Const(6)), LogOf(Plus(Var("z"), Var("y")))>>))
          [] k = "function" -> Block(id, <<Expr(Function(id + 1, "f", "y", <<s, LogOf(Var("y"))>>)),
                                           LogOf(CallOf(Var("f"), <<Plus(Const(2), Var("x"))>>))>>)
          [] k = "closure" -> Block(id, <<Let("z", Const(3)), Let("g", Function(id + 1, "", "p",
                                            <<s, Expr(Assign("z", Plus(Var("z"), Var("p"))))>>)),
                                          Expr(CallOf(Var("g"), <<Const(1)>>)), LogOf(Var("z"))>>)
          [] k = "apply" -> Block(id, <<Expr(Function(id + 1, "h", "p", <<Let("w", Var("p")), s, LogOf(Var("w"))>>)),
                                        LogOf(CallOf(Var("apply"), <<Var("h"), Const(2)>>))>>)

Whole(s) == Block(2, <<Let("x", Const(1)), Let("y", Const(2)), Let("u", Nothing),
                       s, LogOf(Var("x")), LogOf(Var("y")), LogOf(Var("u"))>>)

\* Programs that meet what the compiler or the machine cannot do: a function
\* used before its declaration, by another one and at once; a variable of a
\* case; a named function among the arguments; a variable used too early; a
\* return out of a try block and a throw after it.
Special ==
    {Block(2, ss) : ss \in {
        <<Expr(Function(10, "a", "p", <<LogOf(CallOf(Var("b"), <<Var("p")>>))>>)),
          Expr(Function(20, "b", "p", <<[t |-> "return", e |-> Plus(Var("p"), Const(1))]>>)),
          Expr(CallOf(Var("a"), <<Const(1)>>))>>,
        <<Expr(CallOf(Var("a"), <<Const(1)>>)), Expr(Function(10, "a", "p", <<LogOf(Var("p"))>>))>>,
        <<[t |-> "switch", e |-> Const(1),
           cases |-> <<Case(Const(1), <<Let("x", Const(5)), LogOf(Const(6)), LogOf(Var("x"))>>)>>]>>,
        <<LogOf(CallOf(Var("apply"), <<Function(10, "a", "p", <<LogOf(Var("p"))>>), Const(1)>>))>>,
        <<Let("g", Function(10, "", "p", <<LogOf(Var("x"))>>)), Let("x", Const(1)),
          Expr(CallOf(Var("g"), <<Const(1)>>))>>,
        <<Let("x", Const(1)), Let("g", Function(10, "", "p", <<Expr(Assign("x", Var("p")))>>)),
          Expr(CallOf(Var("g"), <<Const(4)>>)), LogOf(Var("x"))>>,
        <<Expr(Function(10, "f", "p", <<Around("catch", 20, [t |-> "return", e |-> Var("p")])>>)),
          LogOf(CallOf(Var("f"), <<Const(4)>>)), [t |-> "throw", e |-> Const(2)]>>,
        <<LogOf(Const(1)), Expr(CallOf(Var("apply"), <<Const(4), Const(5)>>))>>,
        <<Block(10, <<Let("g", Function(20, "", "p", <<[t |-> "return", e |-> Const(3)]>>)),
                      Let("x", CallOf(Var("g"), <<Const(1)>>)),
                      Let("k", Function(30, "", "p", <<LogOf(Var("x"))>>)), Expr(CallOf(Var("k"), <<>>))>>)>>}}

Calls == {"function", "closure", "apply"}
AllPrograms ==
    {Whole(Around(k, 10, Around(l, 20, Leaf(m)))) : k \in Constructs, l \in Constructs, m \in Simple}
    \cup {Whole(Around(k, 10, Around(l, 20, Leaf(m)))) :
            k \in Constructs \cap Calls, l \in Constructs, m \in Returning}
    \cup Special
    \cup {Whole(Around(k, 10, Around(l, 20, Leaf(m)))) : k \in Loops, l \in Constructs \ Calls, m \in Leaving}

LoopPrograms == {Whole(Around(k, 10, Around("if", 20, Leaf(m)))) : k \in Loops, m \in Leaving}
=============================================================================

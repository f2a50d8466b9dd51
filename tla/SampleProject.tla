--------------------------- MODULE SampleProject ---------------------------
(***************************************************************************)
(* Instances of Modules: a project in /p whose main requires ./a, ./lib/c  *)
(* and packages; package q is installed three times, once in a directory   *)
(* whose name only ends in node_modules.                                   *)
(***************************************************************************)
EXTENDS Integers, Sequences, TLC

Js(segs) == [segs |-> segs, ext |-> ".js"]
A == Js(<<"p", "a">>)
B == Js(<<"p", "b">>)
C == [segs |-> <<"p", "lib", "c">>, ext |-> ".mjs"]
MainFile == Js(<<"p", "main">>)
Q == Js(<<"p", "node_modules", "q", "src", "index">>)
Inner == Js(<<"p", "lib", "node_modules", "q", "index">>)
D == Js(<<"p", "old_node_modules", "d">>)
Skipped == Js(<<"p", "old_node_modules", "node_modules", "q", "index">>)
Native == [segs |-> <<"p", "node_modules", "n">>, ext |-> ".node"]
SomeFiles == {A, B, C, D, MainFile, Q, Inner, Skipped, Native}
SomeMains == (<<"p", "node_modules", "q">> :> <<"src">>)
NamedSo == {"node_modules", "old_node_modules"}
Dir == <<"p">>

Req(segs) == [op |-> "require", try |-> FALSE, request |-> [segs |-> segs, ext |-> ""]]
Guarded(segs) == [Req(segs) EXCEPT !.try = TRUE]
Plain(op) == [op |-> op, try |-> FALSE, request |-> [segs |-> <<>>, ext |-> ""]]
Full(segs) == [Req(segs) EXCEPT !.request.ext = ".mjs"]

CoreScripts == "path" :> <<Plain("replace")>> @@ "stream" :> <<Req(<<"path">>), Plain("replace")>>
RunMain == [segs |-> <<".", "main">>, ext |-> ""]

\* Absolute requests give stable keys, so a and b may require each other.
ScriptsOfA ==
    {<<s, e>> : s \in {Req(<<".", "b">>), Req(<<"", "p", "b">>), Req(<<"q">>), Guarded(<<"n">>),
                      Full(<<".", "lib", "c">>), Req(<<"stream">>), Req(<<"fs">>),
                      Req(<<".", "old_node_modules", "d">>)},
                e \in {Plain("set"), Plain("replace")}}
ScriptsOfB ==
    {<<Req(<<"", "p", "a">>), Plain("set")>>, <<Req(<<"", "p", "a">>), Plain("replace")>>,
     <<Plain("throw")>>, <<Plain("malformed")>>, <<Guarded(<<"missing">>), Plain("set")>>, <<Req(<<".", "b">>)>>}
ThenMain == {Req(<<"path">>), Req(<<"q">>), Full(<<".", "lib", "c">>), Req(<<"missing">>)}

SomeScripts ==
    {A :> a @@ B :> b @@ C :> <<Req(<<"q">>)>> @@ D :> <<Req(<<"q">>)>> @@ Q :> <<Plain("set")>>
       @@ Inner :> <<>> @@ Skipped :> <<>>
       @@ MainFile :> <<Guarded(<<"", "p", "a">>), s, Req(<<"", "p", "b">>)>>
       : a \in ScriptsOfA, b \in ScriptsOfB, s \in ThenMain}

\* What tests/test_module_a.js does: two modules require a third one.
Diamond ==
    {A :> <<Req(<<".", "b">>)>> @@ B :> <<Plain("set")>> @@ C :> <<>> @@ D :> <<>> @@ Q :> <<>> @@ Inner :> <<>>
       @@ MainFile :> <<Req(<<".", "a">>), Req(<<".", "b">>)>>}
=============================================================================

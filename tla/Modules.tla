------------------------------ MODULE Modules ------------------------------
(***************************************************************************)
(* src/src/builtins.c: require().  A path is the sequence of its segments, *)
(* split at '/' (an absolute path starts with ""), and an extension.  A    *)
(* module is its script: what it requires (perhaps inside try), when it    *)
(* sets a property of exports, assigns module.exports or throws.  A value  *)
(* is a pair <<kind, load>>, for the load that made it; loads are numbered *)
(* in the order in which they start.                                       *)
(***************************************************************************)
EXTENDS Integers, Sequences, SequencesExt, FiniteSets, TLC

CONSTANTS
    Files,      \* regular files: [segs, ext], their segments from the root
    Mains,      \* directory -> "main" of its package.json, as segments
    Suffixed,   \* the segments that end in the characters "node_modules"
    Cwd,        \* the working directory of the process
    CoreC,      \* names of built-in modules made by C code
    CoreJs,     \* built-in module written in JavaScript -> its script
    Scripts,    \* a set of functions: file -> script
    Main,       \* the request that `curica run` makes
    MaxLoads    \* bound: modules evaluated

VARIABLES
    script,     \* the scripts of this execution
    ffi,        \* vm->allow_ffi
    cache,      \* vm->module_cache: key -> load
    loads,      \* the module objects, in the order of their evaluation
    stack,      \* the wrappers being evaluated
    got,        \* history: what each require returned
    status      \* "runs", "done", "exit" (uncaught error) or "deep"

vars == <<script, ffi, cache, loads, stack, got, status>>

-----------------------------------------------------------------------------
\* The kernel's view of a path: "." and ".." are walked.
Walk(segs) ==
    FoldLeft(LAMBDA at, s : IF s \in {".", ""} THEN at
                            ELSE IF s = ".." THEN (IF at = <<>> THEN at ELSE Front(at))
                            ELSE Append(at, s),
             IF segs[1] = "" THEN <<>> ELSE Cwd, segs)

FileOf(path) == [segs |-> Walk(path.segs), ext |-> path.ext]

\* is_file, is_dir.
IsFile(path) == FileOf(path) \in Files
IsDir(segs) ==
    LET at == Walk(segs)
    IN \E f \in Files : at # f.segs /\ IsPrefix(at, f.segs)

\* resolve_as_file: the paths it tries, in order.
AsFile(segs, ext) ==
    <<[segs |-> segs, ext |-> ext]>>
      \o (IF ext # "" THEN <<>>
          ELSE [i \in 1..3 |-> [segs |-> segs, ext |-> <<".js", ".json", ".node">>[i]]])

\* resolve_as_directory.
AsDirectory(segs) ==
    (IF Walk(segs) \in DOMAIN Mains
     THEN LET main == segs \o Mains[Walk(segs)]
          IN AsFile(main, "") \o AsFile(Append(main, "index"), "")
     ELSE <<>>)
      \o AsFile(Append(segs, "index"), "")

Target(segs, ext) ==
    AsFile(segs, ext) \o (IF IsDir(segs) THEN AsDirectory(segs) ELSE <<>>)

\* The directories of the node_modules traversal, innermost first: it stops
\* before the root and at the last segment of a relative path, and passes over
\* a directory by the last twelve characters of its name.
Ascent(dir) ==
    LET low == IF dir[1] = "" THEN 2 ELSE 1
        up == [i \in 1..(Len(dir) - low + 1) |-> SubSeq(dir, 1, Len(dir) - i + 1)]
    IN SelectSeq(up, LAMBDA d : Last(d) \notin Suffixed)

\* resolve_module: <<>> or the one path found.
Resolve(request, dir) ==
    LET paths == CASE request.segs[1] = "" -> Target(request.segs, request.ext)
                   [] request.segs[1] \in {".", ".."} ->
                          Target(dir \o request.segs, request.ext)
                   [] OTHER ->
                          FlattenSeq([i \in 1..Len(Ascent(dir)) |->
                              Target(Ascent(dir)[i] \o <<"node_modules">> \o request.segs,
                                     request.ext)])
        found == SelectSeq(paths, IsFile)
    IN IF found = <<>> THEN <<>> ELSE <<Head(found)>>

-----------------------------------------------------------------------------
NewLoad == Len(loads) + 1
Top == Last(stack)

\* The key of a built-in module is its name.
CoreKey(name) == [segs |-> <<name>>, ext |-> "core"]

\* The frame a wrapper gets.  `own' is its local variable exports, tail what
\* its last line returns.
Frame(load, steps, dir, tail) ==
    [load |-> load, steps |-> steps, dir |-> dir, tail |-> tail]

\* The next step of the running wrapper.
Steps == Top.steps
Advance == [stack EXCEPT ![Len(stack)].steps = Tail(@)]

\* A require that returns without running a module.
Yield(key, value) ==
    /\ stack' = Advance
    /\ got' = Append(got, [key |-> key, value |-> value])
    /\ UNCHANGED <<cache, loads, status>>

\* A module object enters the cache, then its wrapper is called.
Enter(key, steps, dir, tail) ==
    /\ NewLoad <= MaxLoads
    /\ loads' = Append(loads, [key |-> key, exports |-> <<"exports", NewLoad>>,
                               set |-> FALSE, state |-> "loading"])
    /\ cache' = (key :> NewLoad) @@ cache
    /\ stack' = Append(stack, Frame(NewLoad, steps, dir, tail))
    /\ UNCHANGED <<got, status>>

\* vm_throw_error: longjmp to the innermost try, or exit(1).  A wrapper that
\* is unwound never finishes and stays in the cache.
Throw(ls) ==
    LET tries == {i \in 1..Len(stack) : stack[i].steps[1].try}
        at == CHOOSE i \in tries : \A j \in tries : j <= i
        lost == {stack[i].load : i \in {j \in 1..Len(stack) : tries = {} \/ j > at}}
    IN /\ loads' = [m \in 1..Len(ls) |-> IF m \in lost THEN [ls[m] EXCEPT !.state = "threw"]
                                         ELSE ls[m]]
       /\ stack' = IF tries = {} THEN <<>>
                   ELSE [SubSeq(stack, 1, at) EXCEPT ![at].steps = Tail(@)]
       /\ status' = IF tries = {} THEN "exit" ELSE status
       /\ UNCHANGED got

\* A .node file: the module object is cached, then js_process_dlopen fills
\* its exports; what the addon returns is dropped.  A library that cannot be
\* opened, or has no entry point, leaves the exports empty and is not an error.
Addon(key) ==
    /\ NewLoad <= MaxLoads
    /\ cache' = (key :> NewLoad) @@ cache
    /\ \E opens \in BOOLEAN :
           LET ls == Append(loads, [key |-> key, exports |-> <<"exports", NewLoad>>,
                                    set |-> ffi /\ opens,
                                    state |-> IF ffi THEN "loaded" ELSE "threw"])
           IN \/ /\ ffi
                 /\ loads' = ls /\ stack' = Advance /\ UNCHANGED status
                 /\ got' = Append(got, [key |-> key, value |-> <<"exports", NewLoad>>])
              \/ ~ffi /\ Throw(ls)

\* compile_source makes a program of the file.
Compiles(key) == \A i \in 1..Len(script[FileOf(key)]) : script[FileOf(key)][i].op # "malformed"

\* Mutant: a cached module yields a new object.
CachedCopy(key) == <<"copy", Len(got)>>

\* What require returns for a module in the cache.
Cached(key) == loads[cache[key]].exports

\* js_process_require.  A file that does not compile yields undefined and does
\* not enter the cache.
Require ==
    /\ status = "runs" /\ Steps # <<>> /\ Steps[1].op = "require"
    /\ LET request == Steps[1].request
           name == request.segs[1]
           path == Resolve(request, Top.dir)
           key == path[1]
       IN \/ /\ name \in CoreC
             /\ Yield(CoreKey(name), <<"core", 0>>)
          \/ /\ name \in DOMAIN CoreJs
             /\ \/ /\ CoreKey(name) \in DOMAIN cache
                   /\ Yield(CoreKey(name), Cached(CoreKey(name)))
                \/ /\ CoreKey(name) \notin DOMAIN cache
                   /\ Enter(CoreKey(name), CoreJs[name], <<".">>, "module")
          \/ /\ name \notin CoreC \cup DOMAIN CoreJs
             /\ \/ path = <<>> /\ Throw(loads) /\ UNCHANGED cache
                \/ /\ path # <<>> /\ key \in DOMAIN cache
                   /\ Yield(key, Cached(key))
                \/ /\ path # <<>> /\ key \notin DOMAIN cache /\ key.ext = ".node"
                   /\ Addon(key)
                \/ /\ path # <<>> /\ key \notin DOMAIN cache /\ key.ext # ".node"
                   /\ ~Compiles(key)
                   /\ Yield(key, <<"undefined", 0>>)
                \/ /\ path # <<>> /\ key \notin DOMAIN cache /\ key.ext # ".node"
                   /\ Compiles(key)
                   /\ Enter(key, script[FileOf(key)], Front(key.segs),
                            IF key.ext \in {".mjs", ".ts", ".mts"} THEN "async" ELSE "exports")
    /\ UNCHANGED <<script, ffi>>

\* Too many modules for the bound: a chain of requires that does not end.
TooDeep ==
    /\ status = "runs" /\ Steps # <<>> /\ Steps[1].op = "require"
    /\ NewLoad > MaxLoads
    /\ LET request == Steps[1].request
           path == Resolve(request, Top.dir)
       IN /\ request.segs[1] \notin CoreC \cup DOMAIN CoreJs
          /\ path # <<>> /\ path[1] \notin DOMAIN cache
          /\ path[1].ext = ".node" \/ Compiles(path[1])
    /\ status' = "deep"
    /\ UNCHANGED <<script, ffi, cache, loads, stack, got>>

\* exports.x = ..., through the wrapper's own variable.
SetExport ==
    /\ status = "runs" /\ Steps # <<>> /\ Steps[1].op = "set"
    /\ loads' = [loads EXCEPT ![Top.load].set = TRUE]
    /\ stack' = Advance
    /\ UNCHANGED <<script, ffi, cache, got, status>>

\* module.exports = another object.
Replace ==
    /\ status = "runs" /\ Steps # <<>> /\ Steps[1].op = "replace"
    /\ loads' = [loads EXCEPT ![Top.load].exports = <<"replaced", Top.load>>]
    /\ stack' = Advance
    /\ UNCHANGED <<script, ffi, cache, got, status>>

ThrowStep ==
    /\ status = "runs" /\ Steps # <<>> /\ Steps[1].op = "throw"
    /\ Throw(loads)
    /\ UNCHANGED <<script, ffi, cache>>

\* The wrapper returns to the require that called it: the local exports, for a
\* built-in module.exports (stored again), for an async wrapper its promise.
Return ==
    /\ status = "runs" /\ Steps = <<>>
    /\ LET m == Top.load
           value == CASE Top.tail = "exports" -> <<"exports", m>>
                      [] Top.tail = "module" -> loads[m].exports
                      [] OTHER -> <<"promise", m>>
           below == Front(stack)
       IN /\ loads' = [loads EXCEPT ![m].state = "loaded"]
          /\ got' = Append(got, [key |-> loads[m].key, value |-> value])
          /\ stack' = IF below = <<>> THEN below
                      ELSE [below EXCEPT ![Len(below)].steps = Tail(@)]
          /\ status' = IF below = <<>> THEN "done" ELSE status
    /\ UNCHANGED <<script, ffi, cache>>

\* The `run' command: vm_init, then require of the file named, from ".".
Begin ==
    /\ LET key == Resolve(Main, <<".">>)[1]
       IN /\ cache = (key :> 1)
          /\ loads = <<[key |-> key, exports |-> <<"exports", 1>>, set |-> FALSE,
                        state |-> "loading"]>>
          /\ stack = <<Frame(1, script[FileOf(key)], Front(key.segs), "exports")>>
    /\ got = <<>>
    /\ status = "runs"

Init == script \in Scripts /\ ffi \in BOOLEAN /\ Begin

Next == Require \/ TooDeep \/ SetExport \/ Replace \/ ThrowStep \/ Return

Spec == Init /\ [][Next]_vars

-----------------------------------------------------------------------------
TypeOK ==
    /\ ffi \in BOOLEAN
    /\ \A k \in DOMAIN cache : cache[k] \in 1..Len(loads)
    /\ Len(loads) <= MaxLoads
    /\ \A i \in 1..Len(stack) : stack[i].load \in 1..Len(loads)
    /\ status \in {"runs", "done", "exit", "deep"}

\* A path is evaluated at most once however modules require one another, in
\* cycles or after a failure: the module is in the cache before its code runs,
\* so a require in a cycle gets the unfinished exports of the load under way.
OneLoadPerKey ==
    /\ \A m, n \in 1..Len(loads) : loads[m].key = loads[n].key => m = n
    /\ \A i, j \in 1..Len(stack) : stack[i].load = stack[j].load => i = j

\* Every require of one path returns the same object, the exports that the
\* module fills in, also to a require that came before it was finished; a
\* module that assigns module.exports and an async one do not promise that.
SharedExports ==
    \A i, j \in 1..Len(got) :
        LET m == got[i].value[2]
        IN (got[i].key = got[j].key /\ m # 0 /\ got[i].value[1] # "promise"
              /\ loads[m].exports[1] = "exports")
           => got[j].value \in {got[i].value, <<"promise", m>>}

\* A package is taken from the nearest node_modules above the requiring file:
\* no directory nearer to a requirer on the stack has the same package, but for
\* the directories whose names end in node_modules, which are passed over.
Nearest(request, dir) ==
    LET found == Resolve(request, dir)
    IN (found # <<>> /\ request.segs[1] \notin {"", ".", ".."})
       => LET at == SelectLastInSubSeq(found[1].segs, 1, Len(found[1].segs),
                                       LAMBDA s : s = "node_modules")
          IN \A k \in at..Len(dir) :
                 LET base == SubSeq(dir, 1, k)
                 IN Last(base) \in Suffixed
                    \/ \A c \in ToSet(Target(base \o <<"node_modules">> \o request.segs,
                                             request.ext)) : ~IsFile(c)

NearestPackage ==
    status = "runs" =>
        (Steps # <<>> /\ Steps[1].op = "require" => Nearest(Steps[1].request, Top.dir))

\* docs/06: modules are cached "to ensure singleton instantiation per process".
Singleton ==
    \A m, n \in 1..Len(loads) : FileOf(loads[m].key) = FileOf(loads[n].key) => m = n
=============================================================================

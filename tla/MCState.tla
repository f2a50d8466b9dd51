------------------------------ MODULE MCState ------------------------------
(***************************************************************************)
(* The components that keep state for the script: the heap and the old     *)
(* space beneath it, the parser, the compiled program and its machine, the *)
(* modules, the key-value store, the file system, and SQLite.  They share  *)
(* no state, so a behaviour runs the one that "part" names and leaves the  *)
(* others as they begin.                                                   *)
(***************************************************************************)
EXTENDS SamplePrograms, SampleProject, Storage

CONSTANTS NULL, Garbage

VARIABLES
    part,
    h, scenario, unrooted, resumed, grown, dropped,
    hdr, nextFit, freeBytes, live, allocs, asked, major, room, outcome, stale,
    program, parser, root, parsing,
    prog, want, pc, regs, frames, handlers, regCount, envs, out, cause, status, steps,
    script, ffi, cache, loads, stack, got, loading,
    file, tmp, mem, at, buffer, op, writes, compacts, store, doubt, torn, unsound

SomeScenarios ==
    {{"set"}, {"error", "string"}, {"opaque", "string"}, {"promise"}, {"cache"}, {"wrap", "io"},
     {"coroutine", "string"}}

Heap == INSTANCE Heap WITH
    Nursery <- 2, MaxBlocks <- 5, Remember <- 1,
    Scenarios <- SomeScenarios
Arena == INSTANCE Arena WITH Size <- 10, Nursery <- 4, Sizes <- {2, 3, 5}, MaxAllocs <- 5
Samples == INSTANCE SampleSources
SomeSources == Samples!All
Parser == INSTANCE Parser WITH Sources <- SomeSources, status <- parsing
Machine == INSTANCE Machine WITH
    Programs <- AllPrograms, MaxRegs <- 60, MaxSteps <- 400
Modules == INSTANCE Modules WITH
    Files <- SomeFiles, Mains <- SomeMains, Suffixed <- NamedSo, Cwd <- Dir,
    CoreC <- {"fs"}, CoreJs <- CoreScripts, Scripts <- SomeScripts,
    Main <- RunMain, MaxLoads <- 7, status <- loading
Kv == INSTANCE KVStore WITH
    Keys <- {"a", "c"}, Spaced <- {"c"}, Values <- {1, 2}, InPieces <- TRUE,
    MaxWrites <- 3, MaxCompacts <- 1, pc <- at

ASSUME Bounds == Kv!KVAssumption /\ Parser!ParserAssumption

heapVars == <<h, scenario, unrooted, resumed, grown, dropped>>
arenaVars == <<hdr, nextFit, freeBytes, live, allocs, asked, major, room, outcome, stale>>
parserVars == <<program, parser, root, parsing>>
machineVars == <<prog, want, pc, regs, frames, handlers, regCount, envs, out, cause, status, steps>>
moduleVars == <<script, ffi, cache, loads, stack, got, loading>>
kvVars == <<file, tmp, mem, at, buffer, op, writes, compacts, store, doubt, torn, unsound>>
fsVars == <<files, fds, dir, inode, errno, th, calls, opened, undef, overlap>>
sqliteVars == <<conn, db, stmt, ptr, bound, cursor, table, reading, wanted, read>>
vars == <<part, heapVars, arenaVars, parserVars, machineVars, moduleVars, kvVars, fsVars, sqliteVars>>

SomeProgram == CHOOSE p \in Special : TRUE

\* The components with several initial states begin in one of them when they
\* are not the one that runs.
Init ==
    /\ part \in {"heap", "arena", "parser", "machine", "modules", "kv", "fs", "sqlite"}
    /\ scenario \in IF part = "heap" THEN SomeScenarios ELSE {{"set"}}
    /\ \E s \in IF part = "parser" THEN SomeSources ELSE {Samples!Smallest} : Parser!Begin(s)
    /\ prog \in {[root |-> p] : p \in IF part = "machine" THEN AllPrograms ELSE {SomeProgram}}
    /\ script \in IF part = "modules" THEN SomeScripts ELSE Diamond
    /\ ffi \in IF part = "modules" THEN BOOLEAN ELSE {FALSE}
    /\ Heap!Init /\ Machine!Begin /\ Modules!Begin
    /\ Arena!Init /\ Kv!Init /\ Fs!Init /\ Sqlite!Init

HeapNext ==
    /\ part = "heap" /\ Heap!Next
    /\ UNCHANGED <<part, arenaVars, parserVars, machineVars, moduleVars, kvVars, fsVars, sqliteVars>>
ArenaNext ==
    /\ part = "arena" /\ Arena!Next
    /\ UNCHANGED <<part, heapVars, parserVars, machineVars, moduleVars, kvVars, fsVars, sqliteVars>>
ParserNext ==
    /\ part = "parser" /\ Parser!Next
    /\ UNCHANGED <<part, heapVars, arenaVars, machineVars, moduleVars, kvVars, fsVars, sqliteVars>>
MachineNext ==
    /\ part = "machine" /\ Machine!Next
    /\ UNCHANGED <<part, heapVars, arenaVars, parserVars, moduleVars, kvVars, fsVars, sqliteVars>>
ModulesNext ==
    /\ part = "modules" /\ Modules!Next
    /\ UNCHANGED <<part, heapVars, arenaVars, parserVars, machineVars, kvVars, fsVars, sqliteVars>>
KvNext ==
    /\ part = "kv" /\ Kv!Next
    /\ UNCHANGED <<part, heapVars, arenaVars, parserVars, machineVars, moduleVars, fsVars, sqliteVars>>
FsNext ==
    /\ part = "fs" /\ Fs!Next
    /\ UNCHANGED <<part, heapVars, arenaVars, parserVars, machineVars, moduleVars, kvVars, sqliteVars>>
SqliteNext ==
    /\ part = "sqlite" /\ Sqlite!Next
    /\ UNCHANGED <<part, heapVars, arenaVars, parserVars, machineVars, moduleVars, kvVars, fsVars>>

Next == HeapNext \/ ArenaNext \/ ParserNext \/ MachineNext \/ ModulesNext \/ KvNext \/ FsNext
        \/ SqliteNext

Spec == Init /\ [][Next]_vars

-----------------------------------------------------------------------------
(* Properties *)

\* alloc.c, a collection: every reference the program can reach leads to a
\* block that is there, references from old to young blocks are remembered, and
\* weak references are cleared or kept with their object.
HeapSound ==
    part = "heap" =>
        Heap!TypeOK /\ Heap!ReferencesValid /\ Heap!RememberedComplete /\ Heap!WeakSound

\* alloc.c and napi.c: no finalizer runs for an object that is still in use.
WrapsKept == [][Heap!WrapsKept]_heapVars

\* alloc.c, the old space: until a search begins inside a block, the headers tile
\* it, blocks in use are among them and do not overlap, and the counter that
\* decides between the collections never says less than what is free.
BlocksSound ==
    part = "arena" =>
        Arena!TypeOK /\ Arena!BlocksSound /\ Arena!FreeBytesNeverLow

\* compiler.c, the parser: the tree is the one the program was written from, and
\* no program that stops in the middle is taken for another one.
ParsesAsWritten ==
    part = "parser" => Parser!ParsesAsWritten

\* compiler.c and vm.c: a program does what its source says.
RunsAsWritten ==
    part = "machine" => Machine!TypeOK /\ Machine!RunsAsWritten

\* require(): a file is loaded once per key, every later require gets the same
\* exports, and a package is the nearest one.
LoadsSound ==
    part = "modules" =>
        Modules!TypeOK /\ Modules!OneLoadPerKey /\ Modules!SharedExports /\ Modules!NearestPackage

\* kv_store.c: the log can be replayed after a crash at any moment, and the
\* index agrees with it.
LogSound ==
    part = "kv" => Kv!TypeOK /\ Kv!Recoverable /\ Kv!IndexMatchesLog

=============================================================================

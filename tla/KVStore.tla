------------------------------- MODULE KVStore -------------------------------
(***************************************************************************)
(* src/src/kv_store.c: a map kept in memory and in an append-only log.     *)
(* The log is a sequence of pieces: a record header (with the length of    *)
(* the key), the bytes of the key, the value, the newline.  A key is one   *)
(* piece, or two if it begins with white space.  A crash ends the process; *)
(* what write() has taken survives it.  stdio writes a record that fits    *)
(* its buffer at once and a longer one in several pieces.                  *)
(***************************************************************************)
EXTENDS Integers, Sequences, SequencesExt

CONSTANTS
    Keys,
    Spaced,      \* keys that begin with white space
    Values,
    InPieces,    \* whether records are long enough to be written in pieces
    MaxWrites,   \* bound of the set and delete calls
    MaxCompacts,
    NULL,        \* no value
    Garbage      \* a value that no set() wrote

KVAssumption ==
    /\ Spaced \subseteq Keys
    /\ NULL \notin Values /\ Garbage \notin Values
    /\ InPieces \in BOOLEAN
    /\ MaxWrites \in Nat /\ MaxCompacts \in Nat

VARIABLES
    file,        \* the log on disk
    tmp,         \* the file kv_compact writes
    mem,         \* ctx->head: the value of each key, NULL if none
    pc,          \* the operation in progress, or the state of file_handle
    buffer,      \* pieces stdio holds
    op,          \* the <<key, value>> being written; value NULL for delete
    writes, compacts,
    store,       \* history: the content that set and delete have promised
    doubt,       \* history: the write a crash interrupted, or <<>>
    torn,        \* history: the log has ended in a part of a record
    unsound      \* history: written after that part, through a closed handle, or
                 \* with a key in Spaced

history == <<store, doubt, torn, unsound>>
vars == <<file, tmp, mem, pc, buffer, op, writes, compacts, store, doubt, torn,
          unsound>>

Maps == [Keys -> Values \cup {NULL}]
EmptyMap == [k \in Keys |-> NULL]

-----------------------------------------------------------------------------
(* The format of the log *)

KeyBytes(k) == IF k \in Spaced THEN <<<<"space">>, <<"key", k>>>> ELSE <<<<"key", k>>>>

SetRecord(k, v) ==
    <<<<"S", Len(KeyBytes(k))>>>> \o KeyBytes(k) \o <<<<"value", v>>, <<"newline">>>>

DeleteRecord(k) == <<<<"D", Len(KeyBytes(k))>>>> \o KeyBytes(k) \o <<<<"newline">>>>

Record(k, v) == IF v = NULL THEN DeleteRecord(k) ELSE SetRecord(k, v)

\* kv_set_mem; a key nobody ever used is dropped from the picture.
Put(map, bytes, v) ==
    [k \in Keys |-> IF KeyBytes(k) = bytes THEN v ELSE map[k]]

\* The reader of kv_open: the map so far, the header being filled in and the
\* key bytes read.  Mode "skip" is the trailing blank of fscanf's format, which
\* matches any amount of white space.
ReaderStart == [map |-> EmptyMap, mode |-> "type", type |-> "S", want |-> 0, key |-> <<>>]

ReadKeyByte(r, piece) ==
    LET key == Append(r.key, piece)
    IN  CASE Len(key) < r.want -> [r EXCEPT !.mode = "key", !.key = key]
          [] Len(key) = r.want /\ r.type = "S" -> [r EXCEPT !.mode = "value", !.key = key]
          [] OTHER -> [r EXCEPT !.mode = "type", !.map = Put(r.map, key, NULL)]

ReadPiece(r, piece) ==
    CASE r.mode = "type" /\ piece[1] = "newline" -> r
      [] r.mode = "type" /\ piece[1] \in {"S", "D"} ->
            [r EXCEPT !.mode = "skip", !.type = piece[1], !.want = piece[2], !.key = <<>>]
      [] r.mode = "type" -> [r EXCEPT !.mode = "stop"]
      [] r.mode = "skip" /\ piece[1] = "space" -> r
      [] r.mode \in {"skip", "key"} -> ReadKeyByte(r, piece)
      [] r.mode = "value" ->
            [r EXCEPT !.mode = "type",
                      !.map = Put(r.map, r.key,
                                  IF piece[1] = "value" THEN piece[2] ELSE Garbage)]
      [] r.mode = "stop" -> r

\* The index kv_open builds: every record up to the first one it cannot read.
Replay(log) == FoldLeft(ReadPiece, ReaderStart, log).map

-----------------------------------------------------------------------------
\* file_handle is open in "idle"; it is a closed FILE in "dangling" and NULL in
\* "nohandle", after a compaction that failed.
TypeOK ==
    /\ mem \in [Keys -> Values \cup {NULL, Garbage}]
    /\ pc \in {"closed", "idle", "write", "tmp", "rename", "reopen", "dangling",
              "nohandle"}
    /\ {op, doubt} \subseteq (Keys \X (Values \cup {NULL})) \cup {<<>>}
    /\ writes \in 0..MaxWrites /\ compacts \in 0..MaxCompacts
    /\ store \in Maps
    /\ torn \in BOOLEAN /\ unsound \in BOOLEAN

Init ==
    /\ file = <<>> /\ tmp = <<>>
    /\ mem = EmptyMap
    /\ pc = "closed"
    /\ buffer = <<>> /\ op = <<>>
    /\ writes = 0 /\ compacts = 0
    /\ store = EmptyMap /\ doubt = <<>> /\ torn = FALSE /\ unsound = FALSE

\* A write that was interrupted happened or did not.
Applied(w) == [store EXCEPT ![w[1]] = w[2]]

Resolved ==
    IF doubt # <<>> /\ Replay(file)[doubt[1]] = doubt[2] THEN Applied(doubt) ELSE store

\* kv_open: replay, then seek to the end whatever the replay met.
Open ==
    /\ pc = "closed"
    /\ pc' = "idle"
    /\ mem' = Replay(file)
    /\ store' = Resolved /\ doubt' = <<>>
    /\ UNCHANGED <<file, tmp, buffer, op, writes, compacts, torn, unsound>>

\* kv_set and kv_delete: fill the buffer of stdio.
StartWrite(k, v) ==
    /\ pc = "idle" /\ writes < MaxWrites
    /\ pc' = "write"
    /\ buffer' = Record(k, v)
    /\ op' = <<k, v>>
    /\ writes' = writes + 1
    /\ unsound' = (unsound \/ torn \/ k \in Spaced)
    /\ UNCHANGED <<file, tmp, mem, compacts, store, doubt, torn>>

\* fflush, or a full buffer: the kernel takes some of the pieces.
Flush ==
    /\ pc = "write" /\ buffer # <<>>
    /\ \E n \in IF InPieces THEN 1..Len(buffer) ELSE {Len(buffer)} :
          /\ file' = file \o SubSeq(buffer, 1, n)
          /\ buffer' = SubSeq(buffer, n + 1, Len(buffer))
    /\ UNCHANGED <<tmp, mem, pc, op, writes, compacts, history>>

\* kv_set_mem, return true.
FinishWrite ==
    /\ pc = "write" /\ buffer = <<>>
    /\ pc' = "idle"
    /\ mem' = [mem EXCEPT ![op[1]] = op[2]]
    /\ store' = Applied(op)
    /\ op' = <<>>
    /\ UNCHANGED <<file, tmp, buffer, writes, compacts, doubt, torn, unsound>>

\* kv_set and kv_delete through a FILE that kv_compact closed: undefined; here
\* the output goes nowhere and the call returns true (or the process crashes).
WriteDangling(k, v) ==
    /\ pc = "dangling" /\ writes < MaxWrites
    /\ writes' = writes + 1
    /\ mem' = [mem EXCEPT ![k] = v]
    /\ store' = Applied(<<k, v>>)
    /\ unsound' = TRUE
    /\ UNCHANGED <<file, tmp, pc, buffer, op, compacts, doubt, torn>>

-----------------------------------------------------------------------------
(* kv_compact *)

LiveKeys == SetToSeq({k \in Keys : mem[k] # NULL})

\* The records the loop over the index writes.
CompactImage ==
    FlattenSeq([n \in DOMAIN LiveKeys |-> SetRecord(LiveKeys[n], mem[LiveKeys[n]])])

\* fclose, fopen(tmp, "w"), and the loop over the index.  From "dangling" the
\* FILE is closed twice: undefined, here without effect (or the process ends).
StartCompact ==
    /\ pc \in {"idle", "dangling", "nohandle"} /\ compacts < MaxCompacts
    /\ pc' = "tmp"
    /\ tmp' = <<>>
    /\ buffer' = CompactImage
    /\ compacts' = compacts + 1
    /\ UNCHANGED <<file, mem, op, writes, history>>

\* The temporary file cannot be opened: file_handle has been closed already.
CompactFails ==
    /\ pc = "idle" /\ compacts < MaxCompacts
    /\ pc' = "dangling"
    /\ compacts' = compacts + 1
    /\ UNCHANGED <<file, tmp, mem, buffer, op, writes, history>>

WriteTmp ==
    /\ pc = "tmp" /\ buffer # <<>>
    /\ \E n \in 1..Len(buffer) :
          /\ tmp' = tmp \o SubSeq(buffer, 1, n)
          /\ buffer' = SubSeq(buffer, n + 1, Len(buffer))
    /\ UNCHANGED <<file, mem, pc, op, writes, compacts, history>>

\* Mutant: the temporary file is renamed before all of it is written.
CloseTmpEarly ==
    /\ pc = "tmp"
    /\ pc' = "rename"
    /\ buffer' = <<>>
    /\ UNCHANGED <<file, tmp, mem, op, writes, compacts, history>>

CloseTmp ==
    /\ pc = "tmp" /\ buffer = <<>>
    /\ pc' = "rename"
    /\ UNCHANGED <<file, tmp, mem, buffer, op, writes, compacts, history>>

\* rename replaces the log, or fails unnoticed.  The new log is whole; what it
\* holds is as sound as the index it was written from.
Rename ==
    /\ pc = "rename"
    /\ pc' = "reopen"
    /\ \/ /\ file' = tmp
          /\ torn' = FALSE
          /\ unsound' = (unsound /\ (mem # store \/ \E k \in Spaced : mem[k] # NULL))
       \/ UNCHANGED <<file, torn, unsound>>
    /\ UNCHANGED <<tmp, mem, buffer, op, writes, compacts, store, doubt>>

Reopen ==
    /\ pc = "reopen"
    /\ pc' \in {"idle", "nohandle"}
    /\ UNCHANGED <<file, tmp, mem, buffer, op, writes, compacts, history>>

-----------------------------------------------------------------------------
\* The process ends; a later one opens the store again.
Crash ==
    /\ pc # "closed"
    /\ pc' = "closed"
    /\ mem' = EmptyMap
    /\ buffer' = <<>> /\ op' = <<>>
    /\ doubt' = op
    /\ torn' = (torn \/ (pc = "write" /\ buffer \notin {<<>>, Record(op[1], op[2])}))
    /\ UNCHANGED <<file, tmp, writes, compacts, store, unsound>>

Next ==
    \/ Open
    \/ \E k \in Keys, v \in Values \cup {NULL} : StartWrite(k, v) \/ WriteDangling(k, v)
    \/ Flush
    \/ FinishWrite
    \/ StartCompact
    \/ CompactFails
    \/ WriteTmp
    \/ CloseTmp
    \/ Rename
    \/ Reopen
    \/ Crash

Spec == Init /\ [][Next]_vars

-----------------------------------------------------------------------------
(* Properties *)

\* What a process that opens the store now may find: every acknowledged write,
\* and the one in progress or interrupted either done or not.
Outcomes ==
    {store} \cup {Applied(w) : w \in {op, doubt} \ {<<>>}}

\* Wherever a crash strikes, also in the middle of a record or of a compaction,
\* the next kv_open finds what was acknowledged, provided that no record was
\* appended behind a torn one, through a closed handle or with a key that
\* begins with white space.
Recoverable == ~unsound => Replay(file) \in Outcomes

\* Under the same condition get() answers from memory what the log would give.
IndexMatchesLog ==
    pc = "idle" /\ ~unsound => mem = store /\ mem = Replay(file)

-----------------------------------------------------------------------------
(* What the documentation says and the code does not do *)

\* "Persistent Key-Value Store": what set() and delete() acknowledged is there
\* when the store is opened again.
AcknowledgedSurvives ==
    pc = "closed" =>
        \A k \in Keys :
            store[k] # NULL /\ (doubt = <<>> \/ doubt[1] # k) => Replay(file)[k] = store[k]

=============================================================================

------------------------------- MODULE Sqlite -------------------------------
(***************************************************************************)
(* src/src/sqlite_module.c: a Database and its prepared statements.  The   *)
(* calls are synchronous, so each is one action, but all() steps row by    *)
(* row.  SQLite itself (external) keeps one table of one column: a row is  *)
(* the stored value.  A statement is an INSERT of its one parameter or a   *)
(* SELECT of every row.                                                    *)
(***************************************************************************)
EXTENDS Integers, Sequences, FiniteSets

CONSTANTS
    Stmts,      \* the statement objects that prepare returns
    MaxRows,    \* bound: rows of the table
    Args        \* kinds of the arguments of run()

SqliteAssumption == Stmts # {} /\ MaxRows \in Nat

Kinds == {"null", "number", "integer", "boolean", "text"}
Values == {[kind |-> k, id |-> 1] : k \in Args}
Null == [kind |-> "null", id |-> 0]

VARIABLES
    conn,       \* the sqlite3 connection: "none", "open", "closed"
    db,         \* the Database object has its _db pointer
    stmt,       \* the native statement: "none", "insert", "select", "finalized"
    ptr,        \* the statement object has its _stmt pointer
    bound,      \* the parameter bound to each statement
    cursor,     \* rows the statement has stepped over since its reset
    table,      \* the rows
    reading,    \* rows all() has pushed, or "idle"
    wanted,     \* history: the arguments of the runs that stored a row
    read        \* history: the rows the last get() or all() returned

vars == <<conn, db, stmt, ptr, bound, cursor, table, reading, wanted, read>>

Idle == [on |-> FALSE, stmt |-> CHOOSE s \in Stmts : TRUE, rows |-> <<>>]

Init ==
    /\ conn = "none" /\ db = FALSE
    /\ stmt = [s \in Stmts |-> "none"]
    /\ ptr = [s \in Stmts |-> FALSE]
    /\ bound = [s \in Stmts |-> Null]
    /\ cursor = [s \in Stmts |-> 0]
    /\ table = <<>> /\ reading = Idle /\ wanted = <<>> /\ read = <<>>

\* js_database_constructor; a failed sqlite3_open throws and leaves nothing.
Open ==
    /\ conn = "none"
    /\ conn' = "open" /\ db' = TRUE
    /\ UNCHANGED <<stmt, ptr, bound, cursor, table, reading, wanted, read>>

\* sqlite3_close refuses, with SQLITE_BUSY, while a statement is not finalized.
CloseConnection ==
    IF \E s \in Stmts : stmt[s] \in {"insert", "select"} THEN conn ELSE "closed"

\* js_sqlite_close: the result of sqlite3_close is ignored, _db is dropped.
Close ==
    /\ ~reading.on /\ db
    /\ conn' = CloseConnection
    /\ db' = FALSE
    /\ UNCHANGED <<stmt, ptr, bound, cursor, table, reading, wanted, read>>

\* js_sqlite_exec of a DELETE; an SQL error throws and changes nothing.
Exec ==
    /\ ~reading.on /\ db
    /\ table' = <<>> /\ wanted' = <<>>
    /\ UNCHANGED <<conn, db, stmt, ptr, bound, cursor, reading, read>>

\* js_sqlite_prepare.
Prepare(s, kind) ==
    /\ ~reading.on /\ db /\ stmt[s] = "none"
    /\ stmt' = [stmt EXCEPT ![s] = kind]
    /\ ptr' = [ptr EXCEPT ![s] = TRUE]
    /\ UNCHANGED <<conn, db, bound, cursor, table, reading, wanted, read>>

\* Mutant: the old bindings are kept.
BindKeeping(s, args) ==
    IF args = <<>> \/ args[1].kind = "integer" THEN bound[s]
    ELSE IF args[1].kind = "boolean" THEN [args[1] EXCEPT !.kind = "number"] ELSE args[1]

\* bind_args: sqlite3_clear_bindings, then one branch per kind of Value; an
\* integer Value has none and stays NULL, a boolean becomes a number.
Bind(s, args) ==
    IF args = <<>> \/ args[1].kind = "integer" THEN Null
    ELSE IF args[1].kind = "boolean" THEN [args[1] EXCEPT !.kind = "number"] ELSE args[1]

\* js_stmt_run of an INSERT: the result of sqlite3_step is ignored, so a step
\* that fails (a full disk, a constraint) looks like one that stored its row.
Run(s, args) ==
    /\ ~reading.on /\ ptr[s] /\ stmt[s] = "insert" /\ Len(table) < MaxRows
    /\ bound' = [bound EXCEPT ![s] = Bind(s, args)]
    /\ cursor' = [cursor EXCEPT ![s] = 0]
    /\ \/ /\ table' = Append(table, Bind(s, args))
          /\ wanted' = Append(wanted, IF args = <<>> THEN Null ELSE args[1])
       \/ UNCHANGED <<table, wanted>>
    /\ UNCHANGED <<conn, db, stmt, ptr, reading, read>>

\* extract_row of the row the statement is at.
ExtractRow(k) == table[k]

\* js_stmt_get.
Get(s) ==
    /\ ~reading.on /\ ptr[s] /\ stmt[s] = "select"
    /\ read' = IF cursor[s] < Len(table) THEN <<ExtractRow(cursor[s] + 1)>> ELSE <<>>
    /\ cursor' = [cursor EXCEPT ![s] = 0]
    /\ UNCHANGED <<conn, db, stmt, ptr, bound, table, reading, wanted>>

\* js_stmt_all: bind_args and create_array, then a step per row, then reset.
AllBegins(s) ==
    /\ ~reading.on /\ ptr[s] /\ stmt[s] = "select"
    /\ reading' = [on |-> TRUE, stmt |-> s, rows |-> <<>>]
    /\ UNCHANGED <<conn, db, stmt, ptr, bound, cursor, table, wanted, read>>

AllRow ==
    /\ reading.on
    /\ LET s == reading.stmt
       IN /\ cursor[s] < Len(table)
          /\ reading' = [reading EXCEPT !.rows = Append(@, ExtractRow(cursor[s] + 1))]
          /\ cursor' = [cursor EXCEPT ![s] = @ + 1]
    /\ UNCHANGED <<conn, db, stmt, ptr, bound, table, wanted, read>>

AllReturns ==
    /\ reading.on /\ cursor[reading.stmt] = Len(table)
    /\ read' = reading.rows
    /\ cursor' = [cursor EXCEPT ![reading.stmt] = 0]
    /\ reading' = Idle
    /\ UNCHANGED <<conn, db, stmt, ptr, bound, table, wanted>>

\* js_stmt_finalize: sqlite3_finalize, and _stmt becomes undefined.
Finalize(s) ==
    /\ ~reading.on /\ ptr[s]
    /\ stmt' = [stmt EXCEPT ![s] = "finalized"]
    /\ ptr' = [ptr EXCEPT ![s] = FALSE]
    /\ UNCHANGED <<conn, db, bound, cursor, table, reading, wanted, read>>

Next ==
    \/ Open \/ Close \/ Exec \/ AllRow \/ AllReturns
    \/ \E s \in Stmts :
         \/ \E kind \in {"insert", "select"} : Prepare(s, kind)
         \/ \E v \in Values : Run(s, <<v>>)
         \/ Run(s, <<>>)
         \/ Get(s) \/ AllBegins(s) \/ Finalize(s)

Spec == Init /\ [][Next]_vars

-----------------------------------------------------------------------------
TypeOK ==
    /\ conn \in {"none", "open", "closed"} /\ db \in BOOLEAN
    /\ stmt \in [Stmts -> {"none", "insert", "select", "finalized"}]
    /\ ptr \in [Stmts -> BOOLEAN] /\ cursor \in [Stmts -> 0..MaxRows]
    /\ Len(table) <= MaxRows

\* A statement object that still has its pointer has a native statement that
\* is neither finalized nor without its connection: whatever the order of
\* prepare, finalize and close, no call reaches freed memory of SQLite.
PointersAreLive ==
    /\ db => conn = "open"
    /\ \A s \in Stmts : ptr[s] => stmt[s] \in {"insert", "select"} /\ conn = "open"

\* Between two calls every statement is reset, so all() returns the whole
\* table and get() its first row, also after a get() that stopped early.
StartsAtFirstRow ==
    \A s \in Stmts : cursor[s] # 0 => reading.on /\ reading.stmt = s

\* What run() stored is its own argument: NULL when it had none or an integer,
\* and never what an earlier call had bound.
StoredAsGiven ==
    /\ Len(table) = Len(wanted)
    /\ \A k \in 1..Len(table) :
          \/ table[k].id = wanted[k].id
          \/ table[k] = Null /\ wanted[k].kind = "integer"

\* tests/test_sqlite.js inserts and selects by integer parameters.
ParametersStored ==
    \A k \in 1..Len(table) : table[k].id = wanted[k].id
=============================================================================

---------------------------- MODULE StoreProofs ----------------------------
(***************************************************************************)
(* Proofs about the statements of Storage.tla (sqlite_module.c), for every *)
(* number of statements and rows and every set of kinds of arguments.      *)
(***************************************************************************)
EXTENDS Storage, SequenceTheorems, TLAPS

-----------------------------------------------------------------------------
(* sqlite_module.c *)

Rows == [kind : Args \cup {"null", "number"}, id : {0, 1}]

\* What run() stored against what it was given, row by row.
Stored(t, w) ==
    \A k \in 1..Len(t) : \/ t[k].id = w[k].id
                         \/ t[k] = Sqlite!Null /\ w[k].kind = "integer"

SqliteTypes ==
    /\ Sqlite!TypeOK
    /\ table \in Seq(Rows) /\ wanted \in Seq(Rows) /\ Len(table) = Len(wanted)
    /\ reading \in [on : BOOLEAN, stmt : Stmts, rows : Seq(Rows)]

\* A statement object has its pointer exactly while the native statement is
\* there, and sqlite3_close refuses to close under one: so no native statement
\* outlives its connection, although js_sqlite_close forgets the connection.
\* The cursor of a statement is within the table, and moves only inside all().
SqliteInv ==
    /\ \A s \in Stmts : /\ ptr[s] <=> stmt[s] \in {"insert", "select"}
                        /\ ptr[s] => conn = "open"
                        /\ cursor[s] <= Len(table)
    /\ db => conn = "open"
    /\ Sqlite!StartsAtFirstRow
    /\ Stored(table, wanted)

\* Before the first call nothing is open, prepared or stored.
LEMMA SqliteInit == Sqlite!Init => SqliteTypes /\ SqliteInv
<1> SUFFICES ASSUME Sqlite!Init PROVE SqliteTypes /\ SqliteInv
    OBVIOUS
<1>1. MaxRows \in Nat /\ Stmts # {}
    BY StorageAssumption DEF Sqlite!SqliteAssumption
<1>2. Len(table) = 0 /\ Len(wanted) = 0 /\ table \in Seq(Rows) /\ wanted \in Seq(Rows)
    BY EmptySeq DEF Sqlite!Init
<1>3. (CHOOSE s \in Stmts : TRUE) \in Stmts
    BY <1>1
<1>4. reading \in [on : BOOLEAN, stmt : Stmts, rows : Seq(Rows)]
    BY <1>3, EmptySeq DEF Sqlite!Init, Sqlite!Idle
<1>5. Sqlite!TypeOK
  <2>1. 0 \in 0..MaxRows /\ Len(table) <= MaxRows
    BY <1>1, <1>2
  <2>2. stmt \in [Stmts -> {"none", "insert", "select", "finalized"}]
    BY DEF Sqlite!Init
  <2>3. ptr \in [Stmts -> BOOLEAN] /\ db \in BOOLEAN
    BY DEF Sqlite!Init
  <2>4. cursor \in [Stmts -> 0..MaxRows]
    BY <2>1 DEF Sqlite!Init
  <2> QED
    BY <2>1, <2>2, <2>3, <2>4 DEF Sqlite!Init, Sqlite!TypeOK
<1>6. SqliteInv
    BY <1>2 DEF Sqlite!Init, SqliteInv, Sqlite!StartsAtFirstRow, Stored
<1> QED
    BY <1>2, <1>4, <1>5, <1>6 DEF SqliteTypes

\* bind_args gives a row, the argument's own value or, for an integer, NULL.
LEMMA BindRow ==
    ASSUME NEW s \in Stmts, NEW v \in Sqlite!Values
    PROVE  /\ v \in Rows
           /\ Sqlite!Bind(s, <<v>>) \in Rows
           /\ \/ Sqlite!Bind(s, <<v>>).id = v.id
              \/ Sqlite!Bind(s, <<v>>) = Sqlite!Null /\ v.kind = "integer"
<1>1. PICK k \in Args : v = [kind |-> k, id |-> 1]
    BY DEF Sqlite!Values
<1>2. v \in Rows
    BY <1>1 DEF Rows
<1>3. <<v>> # <<>> /\ <<v>>[1] = v
    OBVIOUS
<1>4. Sqlite!Null \in Rows
    BY DEF Sqlite!Null, Rows
<1>5. CASE v.kind = "integer"
    BY <1>2, <1>3, <1>4, <1>5 DEF Sqlite!Bind
<1>6. CASE v.kind # "integer" /\ v.kind = "boolean"
  <2>1. Sqlite!Bind(s, <<v>>) = [v EXCEPT !.kind = "number"]
    BY <1>3, <1>6 DEF Sqlite!Bind
  <2>2. [v EXCEPT !.kind = "number"] = [kind |-> "number", id |-> 1]
    BY <1>1
  <2> QED
    BY <1>1, <1>2, <2>1, <2>2 DEF Rows
<1>7. CASE v.kind # "integer" /\ v.kind # "boolean"
    BY <1>2, <1>3, <1>7 DEF Sqlite!Bind
<1> QED
    BY <1>5, <1>6, <1>7

\* run() without an argument stores NULL.
LEMMA BindNothing ==
    ASSUME NEW s \in Stmts
    PROVE  Sqlite!Null \in Rows /\ Sqlite!Bind(s, <<>>) = Sqlite!Null
BY DEF Sqlite!Null, Rows, Sqlite!Bind

\* A row stored by run(), with the argument it was given, keeps the invariant.
LEMMA StoreStep ==
    ASSUME SqliteTypes, SqliteInv, NEW b \in Rows, NEW v \in Rows,
           b.id = v.id \/ (b = Sqlite!Null /\ v.kind = "integer"),
           table' = Append(table, b), wanted' = Append(wanted, v),
           Len(table) < MaxRows
    PROVE  /\ table' \in Seq(Rows) /\ wanted' \in Seq(Rows)
           /\ Len(table') = Len(table) + 1 /\ Len(wanted') = Len(table')
           /\ Len(table') <= MaxRows
           /\ Stored(table, wanted)'
<1>1. MaxRows \in Nat
    BY StorageAssumption DEF Sqlite!SqliteAssumption
<1>2. table \in Seq(Rows) /\ wanted \in Seq(Rows) /\ Len(table) = Len(wanted)
    BY DEF SqliteTypes
<1>3. Len(table) \in Nat
    BY <1>2
<1>4. /\ table' \in Seq(Rows) /\ wanted' \in Seq(Rows)
      /\ Len(table') = Len(table) + 1 /\ Len(wanted') = Len(table')
    BY <1>2
<1>5. Len(table') <= MaxRows
    BY <1>1, <1>3, <1>4
<1>6. ASSUME NEW k \in 1..Len(table')
      PROVE  \/ table'[k].id = wanted'[k].id
             \/ table'[k] = Sqlite!Null /\ wanted'[k].kind = "integer"
  <2>1. CASE k = Len(table) + 1
    <3>1. table'[k] = b /\ wanted'[k] = v
        BY <1>2, <2>1
    <3> QED
        BY <3>1
  <2>2. CASE k # Len(table) + 1
    <3>1. k \in 1..Len(table)
        BY <1>3, <1>4, <2>2
    <3>2. table'[k] = table[k] /\ wanted'[k] = wanted[k]
        BY <1>2, <3>1
    <3>3. \/ table[k].id = wanted[k].id
          \/ table[k] = Sqlite!Null /\ wanted[k].kind = "integer"
        BY <3>1 DEF SqliteInv, Stored
    <3> QED
        BY <3>2, <3>3
  <2> QED
    BY <2>1, <2>2
<1> QED
    BY <1>4, <1>5, <1>6 DEF Stored

\* Opening and closing: the constructor and close() touch only the connection
\* and the pointer to it, and a connection with a statement stays open.
LEMMA ConnectionStep ==
    ASSUME SqliteTypes, SqliteInv, Sqlite!Open \/ Sqlite!Close
    PROVE  SqliteTypes' /\ SqliteInv'
<1>1. UNCHANGED <<stmt, ptr, cursor, table, reading, wanted>>
    BY DEF Sqlite!Open, Sqlite!Close
<1>2. conn' \in {"none", "open", "closed"} /\ db' \in BOOLEAN
    BY DEF Sqlite!Open, Sqlite!Close, Sqlite!CloseConnection, SqliteTypes, Sqlite!TypeOK
<1>3. SqliteTypes'
    BY <1>1, <1>2 DEF SqliteTypes, Sqlite!TypeOK
<1>4. db' => conn' = "open"
    BY DEF Sqlite!Open, Sqlite!Close
<1>5. ASSUME NEW s \in Stmts, ptr[s] PROVE conn' = "open"
  <2>1. conn = "open" /\ stmt[s] \in {"insert", "select"}
    BY <1>5 DEF SqliteInv
  <2> QED
    BY <2>1 DEF Sqlite!Open, Sqlite!Close, Sqlite!CloseConnection
<1>6. \A s \in Stmts : /\ ptr'[s] <=> stmt'[s] \in {"insert", "select"}
                       /\ ptr'[s] => conn' = "open"
                       /\ cursor'[s] <= Len(table')
    BY <1>1, <1>5 DEF SqliteInv
<1>7. Sqlite!StartsAtFirstRow' /\ Stored(table, wanted)'
    BY <1>1 DEF SqliteInv, Sqlite!StartsAtFirstRow, Stored
<1> QED
    BY <1>3, <1>4, <1>6, <1>7 DEF SqliteInv

\* exec() empties the table between two calls, when every cursor is at 0.
LEMMA ExecStep ==
    ASSUME SqliteTypes, SqliteInv, Sqlite!Exec
    PROVE  SqliteTypes' /\ SqliteInv'
<1>1. /\ UNCHANGED <<conn, db, stmt, ptr, cursor, reading>>
      /\ table' = <<>> /\ wanted' = <<>> /\ ~reading.on
    BY DEF Sqlite!Exec
<1>2. /\ table' \in Seq(Rows) /\ wanted' \in Seq(Rows)
      /\ Len(table') = 0 /\ Len(wanted') = 0
    BY <1>1, EmptySeq
<1>3. MaxRows \in Nat
    BY StorageAssumption DEF Sqlite!SqliteAssumption
<1>4. Len(table') <= MaxRows
    BY <1>2, <1>3
<1>5. SqliteTypes'
    BY <1>1, <1>2, <1>4 DEF SqliteTypes, Sqlite!TypeOK
<1>6. \A s \in Stmts : cursor'[s] = 0
    BY <1>1 DEF SqliteInv, Sqlite!StartsAtFirstRow
<1>7. \A s \in Stmts : /\ ptr'[s] <=> stmt'[s] \in {"insert", "select"}
                       /\ ptr'[s] => conn' = "open"
                       /\ cursor'[s] <= Len(table')
    BY <1>1, <1>2, <1>6 DEF SqliteInv
<1>8. Sqlite!StartsAtFirstRow' /\ Stored(table, wanted)'
    BY <1>2, <1>6 DEF Sqlite!StartsAtFirstRow, Stored
<1> QED
    BY <1>1, <1>5, <1>7, <1>8 DEF SqliteInv

\* prepare() and finalize(): the pointer comes and goes with the statement.
LEMMA StatementStep ==
    ASSUME SqliteTypes, SqliteInv, NEW s \in Stmts,
           \/ \E kind \in {"insert", "select"} : Sqlite!Prepare(s, kind)
           \/ Sqlite!Finalize(s)
    PROVE  SqliteTypes' /\ SqliteInv'
<1>1. UNCHANGED <<conn, db, cursor, table, reading, wanted>>
    BY DEF Sqlite!Prepare, Sqlite!Finalize
<1>2. /\ stmt \in [Stmts -> {"none", "insert", "select", "finalized"}]
      /\ ptr \in [Stmts -> BOOLEAN]
    BY DEF SqliteTypes, Sqlite!TypeOK
<1>3. PICK k \in {"insert", "select", "finalized"}, b \in BOOLEAN :
        /\ stmt' = [stmt EXCEPT ![s] = k] /\ ptr' = [ptr EXCEPT ![s] = b]
        /\ b <=> k \in {"insert", "select"}
        /\ conn = "open"
  <2>1. CASE \E kind \in {"insert", "select"} : Sqlite!Prepare(s, kind)
    BY <2>1 DEF Sqlite!Prepare, SqliteInv
  <2>2. CASE Sqlite!Finalize(s)
    <3>1. conn = "open"
        BY <2>2 DEF Sqlite!Finalize, SqliteInv
    <3>2. stmt' = [stmt EXCEPT ![s] = "finalized"] /\ ptr' = [ptr EXCEPT ![s] = FALSE]
        BY <2>2 DEF Sqlite!Finalize
    <3> QED
        BY <3>1, <3>2
  <2> QED
    BY <2>1, <2>2
<1>4. /\ stmt' \in [Stmts -> {"none", "insert", "select", "finalized"}]
      /\ ptr' \in [Stmts -> BOOLEAN]
    BY <1>2, <1>3
<1>5. SqliteTypes'
    BY <1>1, <1>4 DEF SqliteTypes, Sqlite!TypeOK
<1>6. ASSUME NEW r \in Stmts
      PROVE  /\ ptr'[r] <=> stmt'[r] \in {"insert", "select"}
             /\ ptr'[r] => conn' = "open"
             /\ cursor'[r] <= Len(table')
  <2>1. CASE r = s
    <3>1. stmt'[r] = k /\ ptr'[r] = b
        BY <1>2, <1>3, <2>1
    <3> QED
        BY <1>1, <1>3, <3>1 DEF SqliteInv
  <2>2. CASE r # s
    <3>1. stmt'[r] = stmt[r] /\ ptr'[r] = ptr[r]
        BY <1>2, <1>3, <2>2
    <3> QED
        BY <1>1, <3>1 DEF SqliteInv
  <2> QED
    BY <2>1, <2>2
<1>7. Sqlite!StartsAtFirstRow' /\ Stored(table, wanted)'
    BY <1>1 DEF SqliteInv, Sqlite!StartsAtFirstRow, Stored
<1> QED
    BY <1>1, <1>6, <1>5, <1>7 DEF SqliteInv

\* run() binds, steps and resets; the row is stored or, when the step failed
\* unnoticed, is not.
LEMMA RunStep ==
    ASSUME SqliteTypes, SqliteInv, NEW s \in Stmts, NEW b \in Rows, NEW v \in Rows,
           b.id = v.id \/ (b = Sqlite!Null /\ v.kind = "integer"),
           Len(table) < MaxRows,
           cursor' = [cursor EXCEPT ![s] = 0],
           \/ table' = Append(table, b) /\ wanted' = Append(wanted, v)
           \/ UNCHANGED <<table, wanted>>,
           UNCHANGED <<conn, db, stmt, ptr, reading>>
    PROVE  SqliteTypes' /\ SqliteInv'
<1>1. MaxRows \in Nat
    BY StorageAssumption DEF Sqlite!SqliteAssumption
<1>2. cursor \in [Stmts -> 0..MaxRows] /\ Len(table) <= MaxRows /\ Len(table) \in Nat
    BY DEF SqliteTypes, Sqlite!TypeOK
<1>3. cursor' \in [Stmts -> 0..MaxRows]
  <2>1. 0 \in 0..MaxRows
    BY <1>1
  <2> QED
    BY <1>2, <2>1
<1>4. /\ table' \in Seq(Rows) /\ wanted' \in Seq(Rows)
      /\ Len(wanted') = Len(table') /\ Len(table') <= MaxRows
      /\ Len(table) <= Len(table') /\ Len(table') \in Nat
      /\ Stored(table, wanted)'
  <2>1. CASE table' = Append(table, b) /\ wanted' = Append(wanted, v)
    <3>1. /\ table' \in Seq(Rows) /\ wanted' \in Seq(Rows)
          /\ Len(wanted') = Len(table') /\ Len(table') <= MaxRows
        BY <2>1, StoreStep
    <3>2. Len(table') = Len(table) + 1
        BY <2>1, StoreStep
    <3>3. Stored(table, wanted)'
        BY <2>1, StoreStep
    <3> QED
        BY <1>2, <3>1, <3>2, <3>3
  <2>2. CASE UNCHANGED <<table, wanted>>
    BY <1>2, <2>2 DEF SqliteTypes, SqliteInv, Stored
  <2> QED
    BY <2>1, <2>2
<1>5. SqliteTypes'
    BY <1>3, <1>4 DEF SqliteTypes, Sqlite!TypeOK
<1>6. ASSUME NEW r \in Stmts
      PROVE  cursor'[r] <= Len(table') /\ (cursor'[r] # 0 => cursor[r] # 0)
  <2>1. cursor'[r] = (IF r = s THEN 0 ELSE cursor[r])
    BY <1>2
  <2>2. cursor[r] <= Len(table) /\ cursor[r] \in Int
    BY <1>1, <1>2 DEF SqliteInv
  <2> QED
    BY <1>2, <1>4, <2>1, <2>2
<1>7. Sqlite!StartsAtFirstRow'
    BY <1>6 DEF SqliteInv, Sqlite!StartsAtFirstRow
<1> QED
    BY <1>4, <1>5, <1>6, <1>7 DEF SqliteInv

\* get() resets the statement after its row; all() has returned every row when
\* it resets its own.  In both the other cursors stay at 0.
LEMMA ResetStep ==
    ASSUME SqliteTypes, SqliteInv, NEW s \in Stmts,
           ~reading.on \/ reading.stmt = s,
           cursor' = [cursor EXCEPT ![s] = 0],
           reading' = reading \/ reading' = Sqlite!Idle,
           UNCHANGED <<conn, db, stmt, ptr, table, wanted>>
    PROVE  SqliteTypes' /\ SqliteInv'
<1>1. MaxRows \in Nat /\ Stmts # {}
    BY StorageAssumption DEF Sqlite!SqliteAssumption
<1>2. cursor \in [Stmts -> 0..MaxRows] /\ Len(table) \in Nat
    BY DEF SqliteTypes, Sqlite!TypeOK
<1>3. cursor' \in [Stmts -> 0..MaxRows]
  <2>1. 0 \in 0..MaxRows
    BY <1>1
  <2> QED
    BY <1>2, <2>1
<1>4. reading' \in [on : BOOLEAN, stmt : Stmts, rows : Seq(Rows)]
  <2>1. (CHOOSE r \in Stmts : TRUE) \in Stmts
    BY <1>1
  <2>2. Sqlite!Idle \in [on : BOOLEAN, stmt : Stmts, rows : Seq(Rows)]
    BY <2>1, EmptySeq DEF Sqlite!Idle
  <2> QED
    BY <2>2 DEF SqliteTypes
<1>5. SqliteTypes'
    BY <1>3, <1>4 DEF SqliteTypes, Sqlite!TypeOK
<1>6. ASSUME NEW r \in Stmts
      PROVE  cursor'[r] = 0
  <2>1. cursor'[r] = (IF r = s THEN 0 ELSE cursor[r])
    BY <1>2
  <2>2. r # s => cursor[r] = 0
    BY DEF SqliteInv, Sqlite!StartsAtFirstRow
  <2> QED
    BY <2>1, <2>2
<1>7. \A r \in Stmts : cursor'[r] <= Len(table')
    BY <1>2, <1>6
<1>8. Sqlite!StartsAtFirstRow'
    BY <1>6 DEF Sqlite!StartsAtFirstRow
<1>9. Stored(table, wanted)'
    BY DEF SqliteInv, Stored
<1> QED
    BY <1>5, <1>7, <1>8, <1>9 DEF SqliteInv

\* all() begins, when every cursor is at 0.
LEMMA AllBeginsStep ==
    ASSUME SqliteTypes, SqliteInv, NEW s \in Stmts, Sqlite!AllBegins(s)
    PROVE  SqliteTypes' /\ SqliteInv'
<1>1. /\ ~reading.on
      /\ reading' = [on |-> TRUE, stmt |-> s, rows |-> <<>>]
      /\ UNCHANGED <<conn, db, stmt, ptr, cursor, table, wanted>>
    BY DEF Sqlite!AllBegins
<1>2. SqliteTypes'
    BY <1>1, EmptySeq DEF SqliteTypes, Sqlite!TypeOK
<1>3. \A r \in Stmts : cursor'[r] = 0
    BY <1>1 DEF SqliteInv, Sqlite!StartsAtFirstRow
<1>4. Sqlite!StartsAtFirstRow'
    BY <1>3 DEF Sqlite!StartsAtFirstRow
<1> QED
    BY <1>1, <1>2, <1>4 DEF SqliteInv, Stored

\* all() pushes the next row: only its own statement's cursor moves, and not
\* past the last row.
LEMMA AllRowStep ==
    ASSUME SqliteTypes, SqliteInv, Sqlite!AllRow
    PROVE  SqliteTypes' /\ SqliteInv'
<1>1. UNCHANGED <<conn, db, stmt, ptr, table, wanted>> /\ reading.on
    BY DEF Sqlite!AllRow
<1>2. reading \in [on : BOOLEAN, stmt : Stmts, rows : Seq(Rows)]
    BY DEF SqliteTypes
<1>3. PICK s \in Stmts : s = reading.stmt
    BY <1>2
<1>4. MaxRows \in Nat
    BY StorageAssumption DEF Sqlite!SqliteAssumption
<1>5. /\ cursor \in [Stmts -> 0..MaxRows] /\ table \in Seq(Rows)
      /\ Len(table) \in Nat /\ Len(table) <= MaxRows
    BY DEF SqliteTypes, Sqlite!TypeOK
<1>6. cursor[s] \in Nat /\ cursor[s] < Len(table)
    BY <1>3, <1>4, <1>5 DEF Sqlite!AllRow
<1>7. PICK n : n = cursor[s] + 1
    OBVIOUS
<1>8. n \in 0..MaxRows /\ n \in 1..Len(table) /\ n <= Len(table)
    BY <1>4, <1>5, <1>6, <1>7
<1>9. cursor' = [cursor EXCEPT ![s] = n]
    BY <1>3, <1>7 DEF Sqlite!AllRow
<1>10. PICK q \in Seq(Rows) : reading' = [reading EXCEPT !.rows = q]
  <2>1. table[n] \in Rows
    BY <1>5, <1>8
  <2>2. Append(reading.rows, table[n]) \in Seq(Rows)
    BY <1>2, <2>1
  <2>3. reading' = [reading EXCEPT !.rows = Append(reading.rows, table[n])]
    BY <1>3, <1>7 DEF Sqlite!AllRow, Sqlite!ExtractRow
  <2> QED
    BY <2>2, <2>3
<1>11. /\ reading' \in [on : BOOLEAN, stmt : Stmts, rows : Seq(Rows)]
       /\ reading'.on /\ reading'.stmt = s
    BY <1>1, <1>2, <1>3, <1>10
<1>12. cursor' \in [Stmts -> 0..MaxRows]
    BY <1>5, <1>8, <1>9
<1>13. SqliteTypes'
    BY <1>1, <1>11, <1>12 DEF SqliteTypes, Sqlite!TypeOK
<1>14. ASSUME NEW r \in Stmts
       PROVE  cursor'[r] <= Len(table') /\ (cursor'[r] # 0 => r = s)
  <2>1. CASE r = s
    BY <1>1, <1>5, <1>8, <1>9, <2>1
  <2>2. CASE r # s
    <3>1. cursor'[r] = cursor[r]
        BY <1>5, <1>9, <2>2
    <3>2. cursor[r] = 0
        BY <1>3, <2>2 DEF SqliteInv, Sqlite!StartsAtFirstRow
    <3> QED
        BY <1>1, <1>5, <3>1, <3>2
  <2> QED
    BY <2>1, <2>2
<1>15. Sqlite!StartsAtFirstRow'
    BY <1>11, <1>14 DEF Sqlite!StartsAtFirstRow
<1> QED
    BY <1>1, <1>13, <1>14, <1>15 DEF SqliteInv, Stored

\* Every call keeps the invariant.
LEMMA SqliteNext ==
    ASSUME SqliteTypes, SqliteInv, [Sqlite!Next]_(Sqlite!vars)
    PROVE  SqliteTypes' /\ SqliteInv'
<1>1. CASE Sqlite!Open \/ Sqlite!Close
    BY <1>1, ConnectionStep
<1>2. CASE Sqlite!Exec
    BY <1>2, ExecStep
<1>3. CASE Sqlite!AllRow
    BY <1>3, AllRowStep
<1>4. CASE Sqlite!AllReturns
  <2>1. reading.stmt \in Stmts
    BY DEF SqliteTypes
  <2>2. /\ cursor' = [cursor EXCEPT ![reading.stmt] = 0] /\ reading' = Sqlite!Idle
        /\ UNCHANGED <<conn, db, stmt, ptr, table, wanted>>
    BY <1>4 DEF Sqlite!AllReturns
  <2> QED
    BY <2>1, <2>2, ResetStep
<1>5. ASSUME NEW s \in Stmts,
             \/ \E kind \in {"insert", "select"} : Sqlite!Prepare(s, kind)
             \/ Sqlite!Finalize(s)
      PROVE  SqliteTypes' /\ SqliteInv'
    BY <1>5, StatementStep
<1>6. ASSUME NEW s \in Stmts, NEW v \in Sqlite!Values, Sqlite!Run(s, <<v>>)
      PROVE  SqliteTypes' /\ SqliteInv'
  <2>1. <<v>> # <<>> /\ <<v>>[1] = v
    OBVIOUS
  <2>2. PICK b : b = Sqlite!Bind(s, <<v>>)
    OBVIOUS
  <2>3. /\ v \in Rows /\ b \in Rows
        /\ b.id = v.id \/ (b = Sqlite!Null /\ v.kind = "integer")
    BY <2>2, BindRow
  <2>4. /\ cursor' = [cursor EXCEPT ![s] = 0] /\ Len(table) < MaxRows
        /\ UNCHANGED <<conn, db, stmt, ptr, reading>>
        /\ \/ table' = Append(table, b) /\ wanted' = Append(wanted, v)
           \/ UNCHANGED <<table, wanted>>
    BY <1>6, <2>1, <2>2 DEF Sqlite!Run
  <2> QED
    BY <2>3, <2>4, RunStep
<1>7. ASSUME NEW s \in Stmts, Sqlite!Run(s, <<>>)
      PROVE  SqliteTypes' /\ SqliteInv'
  <2>1. PICK b \in Rows : b = Sqlite!Null /\ b = Sqlite!Bind(s, <<>>)
    BY BindNothing
  <2>2. /\ cursor' = [cursor EXCEPT ![s] = 0] /\ Len(table) < MaxRows
        /\ UNCHANGED <<conn, db, stmt, ptr, reading>>
        /\ \/ table' = Append(table, b) /\ wanted' = Append(wanted, b)
           \/ UNCHANGED <<table, wanted>>
    BY <1>7, <2>1 DEF Sqlite!Run
  <2> QED
    BY <2>2, RunStep
<1>8. ASSUME NEW s \in Stmts, Sqlite!Get(s)
      PROVE  SqliteTypes' /\ SqliteInv'
    BY <1>8, ResetStep DEF Sqlite!Get
<1>9. ASSUME NEW s \in Stmts, Sqlite!AllBegins(s)
      PROVE  SqliteTypes' /\ SqliteInv'
    BY <1>9, AllBeginsStep
<1>10. CASE UNCHANGED Sqlite!vars
    BY <1>10 DEF Sqlite!vars, SqliteTypes, Sqlite!TypeOK, SqliteInv,
                 Sqlite!StartsAtFirstRow, Stored
<1> QED
    BY <1>1, <1>2, <1>3, <1>4, <1>5, <1>6, <1>7, <1>8, <1>9, <1>10 DEF Sqlite!Next

\* sqlite_module.c: whatever the order of prepare, run, get, all, finalize,
\* close and exec, for every number of statements and rows: no pointer to a
\* statement outlives it or its connection, although close() ignores the answer
\* of sqlite3_close; every query starts at its first row; and a row is what
\* run() was given, NULL when that was an integer.
THEOREM StatementsStaySound == Sqlite!Spec => []StatementsSound
<1>1. Sqlite!Init => SqliteTypes /\ SqliteInv
    BY SqliteInit
<1>2. (SqliteTypes /\ SqliteInv) /\ [Sqlite!Next]_(Sqlite!vars) => (SqliteTypes /\ SqliteInv)'
    BY SqliteNext
<1>3. SqliteTypes /\ SqliteInv => StatementsSound
    BY DEF SqliteTypes, SqliteInv, Stored, StatementsSound, Sqlite!PointersAreLive,
           Sqlite!StoredAsGiven
<1> QED
    BY <1>1, <1>2, <1>3, PTL DEF Sqlite!Spec
=============================================================================

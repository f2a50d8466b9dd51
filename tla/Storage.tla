------------------------------ MODULE Storage ------------------------------
(***************************************************************************)
(* The modules that keep data outside the heap on behalf of the script:    *)
(* the file system with tmpfs (FileSystem.tla) and the statements of       *)
(* SQLite (Sqlite.tla).  They share no state; what is here is what each    *)
(* promises.                                                               *)
(***************************************************************************)
EXTENDS Integers, Sequences

CONSTANTS
    Paths, Workers, NFiles, NFds, FsCalls, MaxCalls,
    Stmts, MaxRows, Args

VARIABLES
    files, fds, dir, inode, errno, th, calls, opened, undef, overlap,
    conn, db, stmt, ptr, bound, cursor, table, reading, wanted, read

Fs == INSTANCE FileSystem WITH Kinds <- FsCalls, script <- opened
Sqlite == INSTANCE Sqlite

ASSUME StorageAssumption == Sqlite!SqliteAssumption

\* fs_module.c and vfs_module.c: a descriptor keeps its file unless it was
\* unlinked, none is leaked, bytes that were appended are kept, and a host
\* operation is reported as failed when it failed, but for a read or a write
\* that failed behind a successful open.
FilesSound ==
    /\ Fs!TypeOK /\ Fs!DescriptorsKeepTheirFile /\ Fs!NoDescriptorLeak
    /\ Fs!AppendsKept /\ Fs!HostFailuresReported

\* sqlite_module.c: no statement is used after it was finalized, a query starts
\* at its first row, and what is stored is what bind_args was given.
StatementsSound ==
    Sqlite!TypeOK /\ Sqlite!PointersAreLive /\ Sqlite!StartsAtFirstRow /\ Sqlite!StoredAsGiven

=============================================================================

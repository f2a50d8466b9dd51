----------------------------- MODULE FileSystem -----------------------------
(***************************************************************************)
(* src/src/fs_module.c on src/src/vfs_module.c: the synchronous calls run  *)
(* on the JS thread, the asynchronous ones on pool threads, and all of     *)
(* them share the two tables of tmpfs, which have no lock.  One action is  *)
(* one call of the vfs_ functions, except that tmpfs_open, which searches  *)
(* a table and then writes to it, takes three.  A write writes one byte,   *)
(* the number of the call that writes it.  The host's files are inodes     *)
(* with their contents; what the host does is external.                    *)
(***************************************************************************)
EXTENDS Integers, Sequences, FiniteSets, FiniteSetsExt

CONSTANTS
    Paths,      \* the paths in use, see Place
    Workers,    \* pool threads
    NFiles,     \* MAX_TMPFS_FILES
    NFds,       \* MAX_TMPFS_FDS
    Kinds,      \* the functions of fs the program calls
    MaxCalls    \* bound: calls of fs functions

VARIABLES
    files,      \* tmpfs_files
    fds,        \* tmpfs_fds, with the path they were opened for (history)
    dir, inode, \* the host: path -> inode (0: none, -1: directory), contents
    errno,      \* of each thread
    th,         \* what each thread is doing
    calls,      \* the calls so far: payload, status and outcome
    script,     \* the descriptor the script holds from openSync
    undef,      \* "race": two threads in tmpfs_open at once, "null": a write
                \* through a null pointer; nothing is said of what follows
    overlap     \* history: paths of tmpfs whose slot had two descriptors at once,
                \* also one left over from a file that was unlinked

vars == <<files, fds, dir, inode, errno, th, calls, script, undef, overlap>>

Threads == {"js"} \cup Workers

\* Where vfs_open looks for a path: /tmp/ and the root disk's tmp/ are served
\* by tmpfs under the name the caller used, /proc/ is written into tmpfs.
Place(p) ==
    CASE p \in {"/tmp/a", "/tmp/b"} -> "tmp"
      [] p = "/disk/root/tmp/a" -> "disk"
      [] p = "/proc/x" -> "pseudo"
      [] p = "/dev/null" -> "device"
      [] OTHER -> "host"

ENOENT == 2
EEXIST == 17
EISDIR == 21
EBADF == 9
EIO == 5
Generated == <<-1>>     \* what vfs_open writes into a pseudo-file
Junk == 0               \* memory that realloc did not initialise, or a hole

NoFd == [on |-> "none"]
Idle == [pc |-> "idle", id |-> 0, path |-> "", file |-> 0, slot |-> 0,
         fd |-> NoFd, in |-> NoFd, size |-> 0, buf |-> <<>>]

FreeFile == [used |-> FALSE, path |-> "", data |-> <<>>, null |-> TRUE, cap |-> FALSE, size |-> 0]
FreeFd == [used |-> FALSE, file |-> 0, offset |-> 0, path |-> "", orphan |-> FALSE]

Init ==
    /\ files = [i \in 1..NFiles |-> FreeFile]
    /\ fds = [i \in 1..NFds |-> FreeFd]
    /\ dir = [p \in Paths |-> 0] /\ inode = <<>>
    /\ errno = [t \in Threads |-> 0]
    /\ th = [t \in Threads |-> Idle]
    /\ calls = <<>> /\ script = NoFd /\ undef = "no" /\ overlap = {}

Call(t) == calls[th[t].id]

-----------------------------------------------------------------------------
(* Calls and results *)

Sync == {"read", "write", "append", "stat", "unlink", "mkdir", "rename", "copy",
         "openr", "openw", "opena", "fdread", "fdwrite", "fdclose"}
Async == {"read", "write", "append", "stat", "unlink", "mkdir"}
OnScript == {"fdread", "fdwrite", "fdclose"}
OpenKinds == {"openr", "openw", "opena"}

Creates(k) == k \in {"write", "append", "openw", "opena"}
Truncates(k) == k \in {"write", "openw"}
Appends(k) == k \in {"append", "opena"}

\* copyFileSync opens its destination as a write does.
Mode(t) == IF Call(t).kind = "copy" /\ th[t].in # NoFd THEN "write" ELSE Call(t).kind

NewCall(k, p, q, async) ==
    [kind |-> k, path |-> p, to |-> q, async |-> async, status |-> 0, did |-> FALSE,
     lost |-> FALSE,  \* history: a vfs_read or vfs_write of it failed, and it went on
     state |-> IF async THEN "queued" ELSE "running", outcome |-> "pending"]

\* A synchronous function is entered: the script is busy until it returns.
SyncCall(k, p, q) ==
    /\ th["js"].pc = "idle" /\ Len(calls) < MaxCalls /\ undef = "no"
    /\ k \in OnScript => script # NoFd
    /\ k \in OpenKinds => script = NoFd
    /\ calls' = Append(calls, NewCall(k, p, q, FALSE))
    /\ th' = [th EXCEPT !["js"] = [Idle EXCEPT !.pc = "begin", !.id = Len(calls) + 1, !.path = p]]
    /\ UNCHANGED <<files, fds, dir, inode, errno, script, undef, overlap>>

\* tp_submit of a copy of the arguments.
Submit(k, p) ==
    /\ th["js"].pc = "idle" /\ Len(calls) < MaxCalls /\ undef = "no"
    /\ calls' = Append(calls, NewCall(k, p, p, TRUE))
    /\ UNCHANGED <<files, fds, dir, inode, errno, th, script, undef, overlap>>

\* readFile, writeFile, appendFile, with a callback or as a promise ...
AsyncFile(k, p) == k \in {"read", "write", "append"} /\ Submit(k, p)

\* ... and stat, mkdir, unlink.
AsyncPath(k, p) == k \in {"stat", "mkdir", "unlink"} /\ Submit(k, p)

\* A pool thread takes the oldest item (thread_pool.c, see ThreadPool).
Take(w) ==
    LET queued == {i \in DOMAIN calls : calls[i].state = "queued"}
    IN  /\ th[w].pc = "idle" /\ queued # {} /\ undef = "no"
        /\ calls' = [calls EXCEPT ![Min(queued)].state = "running"]
        /\ th' = [th EXCEPT ![w] = [Idle EXCEPT !.pc = "begin", !.id = Min(queued),
                                                !.path = calls[Min(queued)].path]]
        /\ UNCHANGED <<files, fds, dir, inode, errno, script, undef, overlap>>

\* The work function ends with *status, a synchronous call returns or throws.
Finish(t, ok, status) ==
    /\ th' = [th EXCEPT ![t] = Idle]
    /\ calls' = [calls EXCEPT ![th[t].id] =
          [@ EXCEPT !.did = ok /\ ~Call(t).lost, !.status = status,
                    !.state = IF Call(t).async THEN "worked" ELSE "done",
                    !.outcome = IF Call(t).async THEN "pending" ELSE IF ok THEN "fulfilled" ELSE "rejected"]]

Failed(t, e) == errno' = [errno EXCEPT ![t] = e] /\ Finish(t, FALSE, e)
Done(t) == UNCHANGED errno /\ Finish(t, TRUE, 0)

\* The after functions: the callback gets an error, or the promise is
\* rejected, exactly when the status is not zero.
After(i) ==
    /\ calls[i].state = "worked" /\ th["js"].pc = "idle" /\ undef = "no"
    /\ calls' = [calls EXCEPT ![i].state = "done",
                              ![i].outcome = IF calls[i].status # 0 THEN "rejected" ELSE "fulfilled"]
    /\ UNCHANGED <<files, fds, dir, inode, errno, th, script, undef, overlap>>

-----------------------------------------------------------------------------
(* vfs_open *)

To(t, pc) == th' = [th EXCEPT ![t].pc = pc]

\* Another thread is inside tmpfs_open.
Racing(t) == \E u \in Threads \ {t} : th[u].pc \in {"file", "slot"}
NoteRace(t) == undef' = IF Racing(t) THEN "race" ELSE undef

\* What each caller does with an open descriptor.
AfterOpen(k) ==
    CASE k = "read" -> "size" [] k \in {"write", "append"} -> "write" [] k = "stat" -> "close"
      [] k \in OpenKinds -> "keep" [] OTHER -> "copy"

Opened(t, fd) ==
    IF Call(t).kind = "copy" /\ th[t].in = NoFd
    THEN th' = [th EXCEPT ![t].in = fd, ![t].path = Call(t).to, ![t].pc = "begin"]
    ELSE th' = [th EXCEPT ![t].fd = fd,
                          ![t].pc = IF Place(th[t].path) = "pseudo" THEN "fill" ELSE AfterOpen(Call(t).kind)]

CloseFd(fd) == IF fd.on = "tmp" THEN fds' = [fds EXCEPT ![fd.i].used = FALSE] ELSE UNCHANGED fds

\* open failed: *status = errno, or the error is thrown; copyFileSync closes
\* its source.  tmpfs_open sets no errno: e is then whatever it was.
OpenFailed(t, e) ==
    /\ errno' = [errno EXCEPT ![t] = e]
    /\ Finish(t, FALSE, e) /\ CloseFd(th[t].in)

\* open() of the host. Opening a directory to write fails, to read succeeds.
OpenHost(t) ==
    LET p == th[t].path
        k == Mode(t)
        fd(i) == [on |-> "host", ino |-> i, off |-> 0, app |-> Appends(k), writes |-> Creates(k)]
    IN  \/ /\ dir[p] = 0 /\ ~Creates(k)
           /\ OpenFailed(t, ENOENT) /\ UNCHANGED <<dir, inode>>
        \/ /\ dir[p] = -1 /\ Creates(k)
           /\ OpenFailed(t, EISDIR) /\ UNCHANGED <<dir, inode>>
        \/ /\ dir[p] = 0 /\ Creates(k)
           /\ inode' = Append(inode, <<>>)
           /\ dir' = [dir EXCEPT ![p] = Len(inode) + 1]
           /\ Opened(t, fd(Len(inode) + 1)) /\ UNCHANGED <<fds, errno, calls>>
        \/ /\ dir[p] > 0 \/ (dir[p] = -1 /\ ~Creates(k))
           /\ inode' = IF Truncates(k) /\ dir[p] > 0 THEN [inode EXCEPT ![dir[p]] = <<>>] ELSE inode
           /\ Opened(t, fd(dir[p])) /\ UNCHANGED <<dir, fds, errno, calls>>

Named(p) == {i \in 1..NFiles : files[i].used /\ files[i].path = p}
FreeFilesAny == 1..NFiles    \* Mutant: in_use is not looked at.
FreeFiles == {i \in 1..NFiles : ~files[i].used}
FreeFds == {i \in 1..NFds : ~fds[i].used}

\* Pseudo-files are opened with O_CREAT | O_TRUNC whatever the caller asked.
CreatesTmp(t) == Place(th[t].path) = "pseudo" \/ Creates(Mode(t))
TruncatesTmp(t) == Place(th[t].path) = "pseudo" \/ Truncates(Mode(t))

\* tmpfs_open, the search: a file of that name or, with O_CREAT, a free slot.
FindFile(t) ==
    LET p == th[t].path
    IN  /\ \/ /\ Named(p) # {}
              /\ th' = [th EXCEPT ![t].file = Min(Named(p)), ![t].pc = "file"]
              /\ UNCHANGED <<fds, calls, errno>>
           \/ /\ Named(p) = {} /\ CreatesTmp(t) /\ FreeFiles # {}
              /\ th' = [th EXCEPT ![t].file = Min(FreeFiles), ![t].pc = "file"]
              /\ UNCHANGED <<fds, calls, errno>>
           \/ /\ Named(p) = {} /\ (CreatesTmp(t) => FreeFiles = {})
              /\ OpenFailed(t, errno[t])
        /\ NoteRace(t)
        /\ UNCHANGED <<files, dir, inode>>

Open(t) ==
    /\ th[t].pc = "begin" /\ undef = "no"
    /\ Call(t).kind \in {"read", "write", "append", "copy"} \cup OpenKinds
       \/ (Call(t).kind = "stat" /\ Place(th[t].path) = "pseudo")
    /\ \/ /\ Place(th[t].path) = "host"
          /\ OpenHost(t) /\ UNCHANGED <<files, undef>>
       \/ /\ Place(th[t].path) = "device"
          /\ Opened(t, [on |-> "dev"]) /\ UNCHANGED <<files, fds, dir, inode, errno, calls, undef>>
       \/ /\ Place(th[t].path) \in {"tmp", "disk", "pseudo"}
          /\ FindFile(t)
    /\ UNCHANGED <<script, overlap>>

\* ... the file slot is taken, or the file truncated, and a free descriptor
\* is looked for.  A file that was created stays when there is none.
TakeFile(t) ==
    LET f == th[t].file
        isnew == ~(files[f].used /\ files[f].path = th[t].path)
    IN  /\ th[t].pc = "file" /\ undef = "no"
        /\ files' = IF isnew THEN [files EXCEPT ![f] = [FreeFile EXCEPT !.used = TRUE, !.path = th[t].path]]
                    ELSE IF TruncatesTmp(t) THEN [files EXCEPT ![f].size = 0] ELSE files
        /\ NoteRace(t)
        /\ \/ /\ FreeFds # {}
              /\ th' = [th EXCEPT ![t].slot = Min(FreeFds), ![t].pc = "slot"]
              /\ UNCHANGED <<fds, calls, errno>>
           \/ /\ FreeFds = {}
              /\ OpenFailed(t, errno[t])
        /\ UNCHANGED <<dir, inode, script, overlap>>

\* ... the descriptor is taken.  O_APPEND fixes the offset here, once.
TakeFd(t) ==
    LET p == th[t].path
    IN  /\ th[t].pc = "slot" /\ undef = "no"
        /\ fds' = [fds EXCEPT ![th[t].slot] =
              [used |-> TRUE, file |-> th[t].file, path |-> p, orphan |-> FALSE,
               offset |-> IF Appends(Mode(t)) THEN files[th[t].file].size ELSE 0]]
        /\ overlap' = overlap \cup
              {q \in {p} : \E i \in 1..NFds : fds[i].used /\ fds[i].file = th[t].file}
        /\ NoteRace(t)
        /\ Opened(t, [on |-> "tmp", i |-> th[t].slot])
        /\ UNCHANGED <<files, dir, inode, errno, calls, script>>

-----------------------------------------------------------------------------
(* vfs_read, vfs_write, vfs_lseek, vfs_close *)

Offset(fd) == CASE fd.on = "tmp" -> fds[fd.i].offset [] fd.on = "host" -> fd.off [] OTHER -> 0
Content(fd) ==
    CASE fd.on = "tmp" -> LET f == files[fds[fd.i].file] IN SubSeq(f.data, 1, f.size)
      [] fd.on = "host" /\ fd.ino > 0 -> inode[fd.ino]
      [] OTHER -> <<>>

\* Up to n bytes from the offset on.
ReadFrom(fd, n) ==
    LET c == Content(fd)
        o == Offset(fd)
    IN  IF o >= Len(c) THEN <<>> ELSE SubSeq(c, o + 1, Min({Len(c), o + n}))

\* The offset moves by n: in the table of tmpfs, or in the host's description.
MoveTable(fd, n) == IF fd.on = "tmp" THEN [fds EXCEPT ![fd.i].offset = @ + n] ELSE fds
MoveHost(fd, n) == IF fd.on = "host" THEN [fd EXCEPT !.off = @ + n] ELSE fd

\* A byte at an offset; what lies between the end and the offset is junk.
Put(data, o, b) ==
    [k \in 1..Max({Len(data), o + 1}) |->
        IF k = o + 1 THEN b ELSE IF k <= Len(data) THEN data[k] ELSE Junk]

\* tmpfs_write allocates when the capacity does not suffice (the first
\* allocation, 1024 bytes, suffices for every write of the model).  unlink
\* frees the data and leaves the capacity: the next write goes to null.
WriteTmp(i, b) ==
    LET f == files[fds[i].file]
        o == fds[i].offset
    IN  IF f.cap /\ f.null
        THEN undef' = "null" /\ UNCHANGED <<files, fds>>
        ELSE /\ files' = [files EXCEPT ![fds[i].file] =
                   [@ EXCEPT !.data = Put(@, o, b), !.null = FALSE, !.cap = TRUE,
                             !.size = Max({@, o + 1})]]
             /\ fds' = [fds EXCEPT ![i].offset = o + 1]
             /\ UNCHANGED undef

\* vfs_write of one byte. O_APPEND of the host is atomic.
WriteByte(fd, b) ==
    \/ fd.on = "tmp" /\ WriteTmp(fd.i, b) /\ UNCHANGED inode
    \/ /\ fd.on = "host"
       /\ inode' = IF fd.app THEN [inode EXCEPT ![fd.ino] = Append(@, b)]
                   ELSE [inode EXCEPT ![fd.ino] = Put(@, fd.off, b)]
       /\ UNCHANGED <<files, fds, undef>>
    \/ fd.on = "dev" /\ UNCHANGED <<files, fds, inode, undef>>

\* read() and write() of the host may fail, and read() of a directory does.
ReadResults(fd) == IF fd.on # "host" THEN {0} ELSE IF fd.ino < 1 THEN {EISDIR} ELSE {0, EIO}
WriteResults(fd) == IF fd.on = "host" THEN {0, EIO} ELSE {0}

\* A failure that the caller does not look at.
Ignored(t, e) ==
    /\ errno' = [errno EXCEPT ![t] = e]
    /\ calls' = [calls EXCEPT ![th[t].id].lost = TRUE]

\* vfs_read into the caller's buffer, and vfs_write, by functions that go on
\* whatever the result; r is the error, or 0.
Reads(t, fd, bytes, r) ==
    \/ r = 0 /\ fds' = MoveTable(fd, Len(bytes)) /\ UNCHANGED <<errno, calls>>
    \/ r # 0 /\ Ignored(t, r) /\ UNCHANGED fds

Writes(t, fd, b, r) ==
    \/ r = 0 /\ WriteByte(fd, b) /\ UNCHANGED <<errno, calls>>
    \/ r # 0 /\ Ignored(t, r) /\ UNCHANGED <<files, fds, inode, undef>>

\* lseek to the end and back: the size is read before the data.
Size(t) ==
    /\ th[t].pc = "size" /\ undef = "no"
    /\ th' = [th EXCEPT ![t].size = Len(Content(th[t].fd)), ![t].pc = "read"]
    /\ UNCHANGED <<files, fds, dir, inode, errno, calls, script, undef, overlap>>

\* A read that fails is taken for an empty file.
Read(t) ==
    /\ th[t].pc = "read" /\ undef = "no"
    /\ \E r \in ReadResults(th[t].fd) :
          Reads(t, th[t].fd, ReadFrom(th[t].fd, th[t].size), r)
    /\ To(t, "close")
    /\ UNCHANGED <<files, dir, inode, script, undef, overlap>>

\* vfs_write of writeFile and appendFile, whose result nobody looks at ...
Write(t) ==
    /\ th[t].pc = "write" /\ undef = "no"
    /\ \E r \in WriteResults(th[t].fd) : Writes(t, th[t].fd, th[t].id, r)
    /\ To(t, "close")
    /\ UNCHANGED <<dir, script, overlap>>

\* ... and of vfs_open into a pseudo-file, which then goes back to its beginning.
Fill(t) ==
    LET i == th[t].fd.i
    IN  /\ th[t].pc = "fill" /\ undef = "no"
        /\ files' = [files EXCEPT ![fds[i].file] =
              [@ EXCEPT !.data = Generated, !.null = FALSE, !.cap = TRUE, !.size = Len(Generated)]]
        /\ To(t, AfterOpen(Call(t).kind))
        /\ UNCHANGED <<fds, dir, inode, errno, calls, script, undef, overlap>>

\* One turn of the loop of copyFileSync: a byte is read; the loop ends when
\* there is none, or the read fails ...
CopyRead(t) ==
    /\ th[t].pc = "copy" /\ undef = "no"
    /\ \E r \in ReadResults(th[t].in) :
          LET bytes == IF r = 0 THEN ReadFrom(th[t].in, 1) ELSE <<>>
          IN  /\ Reads(t, th[t].in, bytes, r)
              /\ th' = [th EXCEPT ![t].in = MoveHost(@, Len(bytes)), ![t].buf = bytes,
                                  ![t].pc = IF bytes = <<>> THEN "close" ELSE "copied"]
    /\ UNCHANGED <<files, dir, inode, script, undef, overlap>>

\* ... and written.
CopyWrite(t) ==
    /\ th[t].pc = "copied" /\ undef = "no"
    /\ \E r \in WriteResults(th[t].fd) :
          /\ Writes(t, th[t].fd, Head(th[t].buf), r)
          /\ th' = [th EXCEPT ![t].fd = MoveHost(@, IF r = 0 THEN 1 ELSE 0), ![t].pc = "copy"]
    /\ UNCHANGED <<dir, script, overlap>>

\* vfs_close; stat of a pseudo-file goes on to look the file up.
Close(t) ==
    LET freed == {fd.i : fd \in {x \in {th[t].fd, th[t].in} : x.on = "tmp"}}
    IN  /\ th[t].pc = "close" /\ undef = "no"
        /\ fds' = [i \in 1..NFds |-> IF i \in freed THEN [fds[i] EXCEPT !.used = FALSE] ELSE fds[i]]
        /\ IF Call(t).kind = "stat"
           THEN th' = [th EXCEPT ![t].fd = NoFd, ![t].pc = "lookup"] /\ UNCHANGED calls
           ELSE Finish(t, TRUE, 0)
        /\ UNCHANGED <<files, dir, inode, errno, script, undef, overlap>>

-----------------------------------------------------------------------------
(* openSync, readSync, writeSync, closeSync: one descriptor of the script *)

Keep(t) ==
    /\ th[t].pc = "keep" /\ undef = "no"
    /\ script' = th[t].fd
    /\ Finish(t, TRUE, 0)
    /\ UNCHANGED <<files, fds, dir, inode, errno, undef, overlap>>

\* The position argument is ignored for a virtual descriptor: vfs_pread and
\* vfs_pwrite are vfs_read and vfs_write.  tmpfs does not keep the access
\* mode; the host refuses to write through a descriptor opened to read.
Refused == script.on = "host" /\ script.writes # (Call("js").kind = "fdwrite")

\* readSync and writeSync throw what the host reports.
ScriptResults(k) ==
    CASE Refused -> {EBADF}
      [] k = "fdread" /\ ~Refused -> ReadResults(script)
      [] OTHER -> WriteResults(script)

ScriptFd ==
    LET k == Call("js").kind
    IN  /\ th["js"].pc = "begin" /\ undef = "no" /\ k \in OnScript
        /\ \/ /\ k = "fdread" /\ 0 \in ScriptResults(k)
              /\ Done("js")
              /\ LET n == Len(ReadFrom(script, 1))
                 IN  fds' = MoveTable(script, n) /\ script' = MoveHost(script, n)
              /\ UNCHANGED <<files, inode, undef>>
           \/ /\ k \in {"fdread", "fdwrite"}
              /\ \E e \in ScriptResults(k) \ {0} : Failed("js", e)
              /\ UNCHANGED <<files, fds, inode, script, undef>>
           \/ /\ k = "fdwrite" /\ 0 \in ScriptResults(k)
              /\ Done("js")
              /\ WriteByte(script, th["js"].id)
              /\ script' = MoveHost(script, 1)
           \/ /\ k = "fdclose"
              /\ Done("js")
              /\ CloseFd(script) /\ script' = NoFd
              /\ UNCHANGED <<files, inode, undef>>
        /\ UNCHANGED <<dir, overlap>>

-----------------------------------------------------------------------------
(* stat, unlink, mkdir, rename *)

\* vfs_stat: tmpfs knows only names under /tmp/, /proc/ and /sys/; everything
\* else is a stat() of the host.
Stat(t) ==
    LET p == th[t].path
    IN  /\ th[t].pc = (IF Place(p) = "pseudo" THEN "lookup" ELSE "begin")
        /\ Call(t).kind = "stat" /\ undef = "no"
        /\ IF (Place(p) \in {"tmp", "pseudo"} /\ Named(p) # {}) \/ Place(p) = "device" \/ dir[p] # 0
           THEN Done(t) ELSE Failed(t, ENOENT)
        /\ UNCHANGED <<files, fds, dir, inode, script, undef, overlap>>

\* vfs_unlink of tmpfs: the slot is free at once, descriptors go on naming it.
\* A name that is missing fails without an errno.
UnlinkTmp(t) ==
    LET p == th[t].path
        f == Min(Named(p))
    IN  /\ NoteRace(t)
        /\ \/ /\ Named(p) # {}
              /\ files' = [files EXCEPT ![f] = [@ EXCEPT !.used = FALSE, !.data = <<>>, !.null = TRUE, !.size = 0]]
              /\ fds' = [i \in 1..NFds |-> IF fds[i].used /\ fds[i].file = f
                                           THEN [fds[i] EXCEPT !.orphan = TRUE] ELSE fds[i]]
              /\ Done(t)
           \/ /\ Named(p) = {}
              /\ Failed(t, errno[t]) /\ UNCHANGED <<files, fds>>
        /\ UNCHANGED dir

Unlink(t) ==
    LET p == th[t].path
    IN  /\ th[t].pc = "begin" /\ Call(t).kind = "unlink" /\ undef = "no"
        /\ \/ Place(p) = "tmp" /\ UnlinkTmp(t)
           \/ /\ Place(p) # "tmp" /\ dir[p] > 0
              /\ dir' = [dir EXCEPT ![p] = 0]
              /\ Done(t) /\ UNCHANGED <<files, fds, undef>>
           \/ /\ Place(p) # "tmp" /\ dir[p] < 1
              /\ Failed(t, IF dir[p] = 0 THEN ENOENT ELSE EISDIR)
              /\ UNCHANGED <<files, fds, dir, undef>>
        /\ UNCHANGED <<inode, script, overlap>>

\* mkdir of the host for every path; EEXIST is no error.
Mkdir(t) ==
    LET p == th[t].path
    IN  /\ th[t].pc = "begin" /\ Call(t).kind = "mkdir" /\ undef = "no"
        /\ dir' = IF dir[p] = 0 THEN [dir EXCEPT ![p] = -1] ELSE dir
        /\ errno' = IF dir[p] = 0 THEN errno ELSE [errno EXCEPT ![t] = EEXIST]
        /\ Finish(t, TRUE, 0)
        /\ UNCHANGED <<files, fds, inode, script, undef, overlap>>

\* rename of the host for every path.
Rename(t) ==
    LET p == th[t].path
        q == Call(t).to
    IN  /\ th[t].pc = "begin" /\ Call(t).kind = "rename" /\ undef = "no"
        /\ \/ /\ dir[p] # 0 /\ (dir[q] = 0 \/ (dir[p] > 0 /\ dir[q] > 0))
              /\ dir' = IF p = q THEN dir ELSE [dir EXCEPT ![q] = dir[p], ![p] = 0]
              /\ Done(t)
           \/ /\ dir[p] = 0
              /\ Failed(t, ENOENT) /\ UNCHANGED dir
           \/ /\ dir[p] # 0 /\ dir[q] # 0 /\ (dir[p] < 0 \/ dir[q] < 0)
              /\ Failed(t, EISDIR) /\ UNCHANGED dir
        /\ UNCHANGED <<files, fds, inode, script, undef, overlap>>

-----------------------------------------------------------------------------
Step(t) ==
    \/ Open(t) \/ TakeFile(t) \/ TakeFd(t) \/ Size(t) \/ Read(t) \/ Write(t) \/ Fill(t)
    \/ CopyRead(t) \/ CopyWrite(t) \/ Close(t) \/ Keep(t) \/ Stat(t) \/ Unlink(t) \/ Mkdir(t)
    \/ Rename(t)

Next ==
    \/ \E k \in Sync \cap Kinds : \E p, q \in Paths :
          /\ k \in {"rename", "copy"} \/ p = q
          /\ k \in OnScript => p = CHOOSE x \in Paths : TRUE
          /\ SyncCall(k, p, q)
    \/ \E k \in Async \cap Kinds, p \in Paths : AsyncFile(k, p) \/ AsyncPath(k, p)
    \/ \E w \in Workers : Take(w)
    \/ \E t \in Threads : Step(t)
    \/ ScriptFd
    \/ \E i \in DOMAIN calls : After(i)

Spec == Init /\ [][Next]_vars

-----------------------------------------------------------------------------
(* Properties *)

\* Slots and inodes stay in range; a size never exceeds the data.
TypeOK ==
    /\ \A i \in 1..NFiles : files[i].size \in 0..Len(files[i].data)
    /\ \A i \in 1..NFds : fds[i].used => fds[i].file \in 1..NFiles
    /\ \A p \in Paths : dir[p] \in -1..Len(inode)
    /\ \A i \in DOMAIN calls : /\ calls[i].state \in {"queued", "running", "worked", "done"}
                               /\ calls[i].outcome = "pending" <=> calls[i].state # "done"

\* A descriptor of tmpfs names the file it was opened for, and nothing is
\* written through a null pointer, unless that file was unlinked while the
\* descriptor was open, or two threads were inside tmpfs_open at once.
DescriptorsKeepTheirFile ==
    undef # "race" =>
        /\ \A i \in 1..NFds : fds[i].used /\ ~fds[i].orphan =>
              files[fds[i].file].used /\ files[fds[i].file].path = fds[i].path
        /\ undef = "null" => \E i \in 1..NFds : fds[i].used /\ fds[i].orphan

\* No descriptor of tmpfs is lost: those in use are held by a call that is
\* running or by the script, on every error path.
NoDescriptorLeak ==
    undef # "race" =>
        {i \in 1..NFds : fds[i].used} =
        {fd.i : fd \in {x \in {script} \cup UNION {{th[t].fd, th[t].in} : t \in Threads} : x.on = "tmp"}}

OnlyAppended(p) ==
    \A i \in DOMAIN calls : p \in {calls[i].path, calls[i].to} =>
        calls[i].kind \in {"append", "read", "stat", "opena"} \cup OnScript

BytesAt(p) ==
    IF Place(p) = "host" THEN (IF dir[p] > 0 THEN inode[dir[p]] ELSE <<>>)
    ELSE UNION {{files[f].data[k] : k \in 1..files[f].size} : f \in Named(p)}

\* What appendFile acknowledged, and the host did not fail to write, is in the
\* file as long as the file is only appended to; in tmpfs, unless two descriptors were open on its slot at once:
\* one of an unlinked file goes on writing into whatever file has the slot now.
AppendsKept ==
    \A i \in DOMAIN calls :
        LET p == calls[i].path
        IN  /\ calls[i].kind = "append" /\ calls[i].did /\ OnlyAppended(p)
            /\ \/ Place(p) = "host"
               \/ Place(p) \in {"tmp", "disk"} /\ p \notin overlap /\ undef = "no"
            => IF Place(p) = "host" THEN \E k \in DOMAIN BytesAt(p) : BytesAt(p)[k] = i
               ELSE i \in BytesAt(p)

\* On the host's files an operation is reported as failed exactly when it did not
\* do its work, whatever errno is left from earlier calls, but for the readFile,
\* writeFile, appendFile and copyFileSync whose read or write failed after the
\* open: those are reported as a success.
HostFailuresReported ==
    \A i \in DOMAIN calls :
        calls[i].state = "done" /\ Place(calls[i].path) = "host" /\ Place(calls[i].to) = "host" =>
            /\ calls[i].outcome = "fulfilled" <=> calls[i].did \/ calls[i].lost
            /\ calls[i].lost => ~calls[i].did /\ calls[i].kind \in {"read", "write", "append", "copy"}

\* Violated: no operation that failed is reported as a success.
FailuresReported ==
    \A i \in DOMAIN calls : calls[i].outcome = "fulfilled" => calls[i].did
=============================================================================

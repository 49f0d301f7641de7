--------------------------------- MODULE Log ---------------------------------
(***************************************************************************)
(* The output of a job: log.c over several processes of one job, which     *)
(* share a log file, and a disk that is not there yet, read-only or full.  *)
(*                                                                         *)
(* Output is numbered by process and position.  What a process writes      *)
(* waits in its pty until init reads it into io->recv_buf, from where it   *)
(* goes to the file or, while that cannot be written, to log->unflushed.   *)
(***************************************************************************)
EXTENDS Naturals, Sequences

CONSTANTS
    Runs,           \* bound: the processes are 1..Runs, one after the other
    MaxOutput,      \* bound: what each of them writes
    MaxSpace,       \* bound: what fits on the disk, at least all the output
    MaxChanges      \* bound: changes made to the disk and the file

ASSUME LogAssumption ==
    /\ Runs \in Nat /\ MaxOutput \in Nat /\ MaxSpace \in Nat /\ MaxChanges \in Nat
    /\ Runs * MaxOutput <= MaxSpace

VARIABLES
    logs,           \* the Log of each process
    ptys,           \* what init has not read, and who can still write
    disk,           \* the file system with the log file
    detached,       \* log_unflushed_files
    clearing,       \* log_clear_unflushed walks that list
    flushed,        \* log_flushed
    made,           \* history: how much each process has written
    spoilt,         \* history: the disk was missing, filled up by others, or made read-only
    assertion       \* FALSE once an assertion of log_clear_unflushed has failed

logVars == <<logs, ptys, disk, detached, clearing, flushed, made, spoilt, assertion>>

Processes == 1..Runs

NoFd == 0

NoLog == [state |-> "none", fd |-> NoFd, io |-> FALSE, recv_buf |-> <<>>, unflushed |-> <<>>,
          remote_closed |-> FALSE, open_errno |-> "none"]

NewLog == [NoLog EXCEPT !.state = "attached", !.io = TRUE]

Freed == [NoLog EXCEPT !.state = "freed"]

\* What fits of n pieces.
Fits(n, d) == IF n <= d.space THEN n ELSE d.space

Drop(seq, n) == SubSeq(seq, n + 1, Len(seq))

Put(d, data) == [d EXCEPT !.file = @ \o data, !.space = @ - Len(data)]

-----------------------------------------------------------------------------
(* Files: operators on a log l and the disk d *)

\* Why open fails; "none" if it does not.
OpenError(d) ==
    IF d.mode = "absent" THEN "ENOENT"
    ELSE IF d.mode = "read-only" THEN "EROFS"
    ELSE IF ~d.exists /\ d.space = 0 THEN "ENOSPC" ELSE "none"

\* Mutant of LogFileOpen: a file that was deleted is kept open.
LogFileOpen_KeepsDeleted(l, d) ==
    IF l.fd # NoFd THEN [ok |-> TRUE, l |-> l, d |-> d]
    ELSE IF OpenError(d) # "none"
    THEN [ok |-> FALSE, l |-> [l EXCEPT !.open_errno = OpenError(d)], d |-> d]
    ELSE [ok |-> TRUE, l |-> [l EXCEPT !.fd = d.inode, !.open_errno = "stale"],
          d |-> [d EXCEPT !.exists = TRUE]]

\* log_file_open: reuse the descriptor unless its file was deleted.  When open
\* succeeds errno is what an earlier call left, as after fstat of no descriptor.
LogFileOpen(l, d) ==
    IF l.fd # NoFd /\ l.fd = d.inode /\ d.exists THEN [ok |-> TRUE, l |-> l, d |-> d]
    ELSE IF OpenError(d) # "none"
    THEN [ok |-> FALSE, l |-> [l EXCEPT !.fd = NoFd, !.open_errno = OpenError(d)], d |-> d]
    ELSE [ok |-> TRUE, l |-> [l EXCEPT !.fd = d.inode, !.open_errno = "stale"],
          d |-> [d EXCEPT !.exists = TRUE]]

\* write: how much, and the disk after it; the file may have been deleted.
WriteError(d) ==
    IF d.mode # "writeable" THEN "EROFS" ELSE IF d.space = 0 THEN "ENOSPC" ELSE "none"

Written(l, d, data) ==
    IF l.fd = d.inode /\ d.exists THEN Put(d, SubSeq(data, 1, Fits(Len(data), d))) ELSE d

\* The write failed: the descriptor is closed, and the new data is kept for later,
\* or discarded when the disk is full.
WriteFails(l, d, keep) ==
    [ok |-> FALSE, d |-> d,
     l |-> [l EXCEPT !.fd = NoFd, !.recv_buf = <<>>,
                     !.unflushed = IF keep THEN @ \o l.recv_buf ELSE @]]

\* The data just read, once nothing older is left.
WriteNew(l, d) ==
    IF l.recv_buf = <<>> THEN [ok |-> TRUE, l |-> l, d |-> d]
    ELSE IF WriteError(d) # "none" THEN WriteFails(l, d, WriteError(d) # "ENOSPC")
    ELSE [ok |-> TRUE, d |-> Written(l, d, l.recv_buf),
          l |-> [l EXCEPT !.recv_buf = Drop(@, Fits(Len(@), d))]]

\* log_file_write: what could not be written before comes first; if not all of it
\* is written the new data has to wait as well.
LogFileWrite(l, d) ==
    LET u == l.unflushed
        m == [l EXCEPT !.unflushed = Drop(@, Fits(Len(@), d))]
    IN IF u = <<>> THEN WriteNew(l, d)
       ELSE IF WriteError(d) # "none" THEN WriteFails(l, d, WriteError(d) # "ENOSPC")
       ELSE IF m.unflushed # <<>> THEN WriteFails(m, Written(l, d, u), TRUE)
       ELSE WriteNew(m, Written(l, d, u))

\* log_file_write without a buffer: recv_buf is left alone.
FlushOld(l, d) ==
    LET w == LogFileWrite([l EXCEPT !.recv_buf = <<>>], d)
    IN [w EXCEPT !.l.recv_buf = l.recv_buf]

-----------------------------------------------------------------------------
(* Reading *)

\* log_io_reader, for all that is in recv_buf.
LogIoReader(l, d) ==
    LET o == LogFileOpen(l, d)
    IN IF l.recv_buf = <<>> THEN [ok |-> TRUE, l |-> l, d |-> d]
       ELSE IF o.ok THEN LogFileWrite(o.l, o.d)
       ELSE [ok |-> FALSE, d |-> d,
             l |-> [o.l EXCEPT !.recv_buf = <<>>,
                               !.unflushed = IF o.l.open_errno # "ENOSPC" THEN @ \o l.recv_buf ELSE @]]

\* log_read_watch: all there is to read, and then once more with the rest, when
\* the read reports that there is no more.
LogReadWatch(l, d, pty) ==
    LET first  == IF pty.data = <<>> THEN [ok |-> TRUE, l |-> l, d |-> d]
                  ELSE LogIoReader([l EXCEPT !.recv_buf = @ \o pty.data], d)
        second == LogIoReader(first.l, first.d)
    IN IF ~l.io THEN [l |-> l, d |-> d]
       ELSE [d |-> second.d,
             l |-> [second.l EXCEPT !.fd = NoFd,
                                    !.remote_closed = @ \/ pty.writer \in {"none", "gone"}]]

\* log_flush, as far as it changes the disk; the log is freed after it.
LogDestroy(l, d, pty) ==
    LET o == LogFileOpen(l, d)
        w == FlushOld(o.l, o.d)
        Rest(m, e) == IF m.io /\ ~m.remote_closed THEN LogReadWatch(m, e, pty).d ELSE e
    IN IF l.unflushed = <<>> THEN Rest(l, d)
       ELSE IF ~o.ok THEN d
       ELSE IF ~w.ok THEN w.d
       ELSE Rest(w.l, w.d)

-----------------------------------------------------------------------------
(* Handlers *)

\* The main loop finds output, or what a partial write has left.
IoReader(r) ==
    LET i == LogIoReader([logs[r] EXCEPT !.recv_buf = @ \o ptys[r].data], disk)
    IN /\ logs[r].io
       /\ ptys[r].data # <<>>
       /\ logs' = [logs EXCEPT ![r] = i.l]
       /\ ptys' = [ptys EXCEPT ![r].data = <<>>]
       /\ disk' = i.d
       /\ UNCHANGED <<detached, clearing, flushed, made, spoilt, assertion>>

\* The main loop finds the other end closed: what is in the buffer is handed to
\* the reader, then log_io_error_handler frees the NihIo.
IoError(r) ==
    LET i == LogIoReader(logs[r], disk)
    IN /\ logs[r].io
       /\ ptys[r] = [data |-> <<>>, writer |-> "gone"]
       /\ logs' = [logs EXCEPT ![r] = [i.l EXCEPT !.io = FALSE, !.recv_buf = <<>>,
                                                  !.remote_closed = TRUE]]
       /\ disk' = i.d
       /\ UNCHANGED <<ptys, detached, clearing, flushed, made, spoilt, assertion>>

\* Which logs wait for the disk after their process.
Keeps(l) == l.unflushed # <<>> /\ l.open_errno = "EROFS" /\ ~flushed

\* The process is reaped: log_handle_unflushed, and the log is freed unless it is
\* put on the list.  A log that is freed closes the pty.
HandleUnflushed(r) ==
    LET i    == LogReadWatch(logs[r], disk, ptys[r])
        read == IF logs[r].io THEN [ptys EXCEPT ![r].data = <<>>] ELSE ptys
    IN /\ logs[r].state = "attached"
       /\ ptys[r].writer \in {"leaked", "gone"}
       /\ IF Keeps(i.l)
          THEN /\ logs' = [logs EXCEPT ![r] = [i.l EXCEPT !.state = "detached"]]
               /\ disk' = i.d
               /\ detached' = <<r>> \o detached
          ELSE /\ logs' = [logs EXCEPT ![r] = Freed]
               /\ disk' = LogDestroy(i.l, i.d, read[r])
               /\ UNCHANGED detached
       /\ ptys' = read
       /\ UNCHANGED <<clearing, flushed, made, spoilt, assertion>>

\* NotifyDiskWriteable, which is to be called once the disk is: log_clear_unflushed
\* goes through the list, log by log.
ClearUnflushed ==
    /\ disk.mode = "writeable"
    /\ clearing' = TRUE
    /\ UNCHANGED <<logs, ptys, disk, detached, flushed, made, spoilt, assertion>>

\* The next log of the list is flushed and freed; when it cannot be written it is
\* kept and the walk ends.
ClearOne ==
    LET r == Head(detached)
        l == logs[r]
        o == LogFileOpen(l, disk)
        w == FlushOld(o.l, o.d)
        Free(d) ==
            /\ logs' = [logs EXCEPT ![r] = Freed]
            /\ ptys' = [ptys EXCEPT ![r].data = <<>>]
            /\ disk' = d
            /\ detached' = Tail(detached)
            /\ UNCHANGED <<clearing, assertion>>
        Fail(m, d, sound) ==
            /\ logs' = [logs EXCEPT ![r] = m]
            /\ disk' = d
            /\ clearing' = FALSE
            /\ assertion' = sound
            /\ UNCHANGED <<ptys, detached>>
    IN /\ clearing /\ detached # <<>>
       /\ IF l.unflushed = <<>> THEN Free(disk)
          ELSE IF ~(l.open_errno # "none" /\ (l.remote_closed \/ l.io)) THEN Fail(l, disk, FALSE)
          ELSE IF ~o.ok THEN Fail(o.l, disk, assertion)
          ELSE IF ~w.ok THEN Fail(w.l, w.d, assertion)
          ELSE Free(LogDestroy(w.l, w.d, ptys[r]))
       /\ UNCHANGED <<flushed, made, spoilt>>

\* The list is empty.
ClearDone ==
    /\ clearing /\ detached = <<>>
    /\ clearing' = FALSE
    /\ flushed' = TRUE
    /\ UNCHANGED <<logs, ptys, disk, detached, made, spoilt, assertion>>

-----------------------------------------------------------------------------
(* Outside *)

\* The next process of the job is started, with a new log.
Start(r) ==
    /\ logs[r].state = "none"
    /\ \A p \in 1..(r - 1) : logs[p].state \in {"detached", "freed"}
    /\ logs' = [logs EXCEPT ![r] = NewLog]
    /\ ptys' = [ptys EXCEPT ![r].writer = "process"]
    /\ UNCHANGED <<disk, detached, clearing, flushed, made, spoilt, assertion>>

\* The process writes.
Output(r) ==
    /\ ptys[r].writer = "process"
    /\ made[r] < MaxOutput
    /\ made' = [made EXCEPT ![r] = @ + 1]
    /\ ptys' = [ptys EXCEPT ![r].data = Append(@, [run |-> r, number |-> made[r] + 1])]
    /\ UNCHANGED <<logs, disk, detached, clearing, flushed, spoilt, assertion>>

\* It ends; a process it has started may keep the pty open, for a while.
End(r) ==
    /\ \/ ptys[r].writer = "process" /\ ptys' = [ptys EXCEPT ![r].writer = "leaked"]
       \/ ptys[r].writer \in {"process", "leaked"} /\ ptys' = [ptys EXCEPT ![r].writer = "gone"]
    /\ UNCHANGED <<logs, disk, detached, clearing, flushed, made, spoilt, assertion>>

Change(d) ==
    /\ disk.changes < MaxChanges
    /\ disk' = [d EXCEPT !.changes = @ + 1]
    /\ spoilt' = (spoilt \/ d.space < disk.space \/ d.mode = "absent" \/ (disk.mode = "writeable" /\ d.mode = "read-only"))
    /\ UNCHANGED <<logs, ptys, detached, clearing, flushed, made, assertion>>

\* The disk is mounted, or mounted in another way.
Mount == \E m \in {"read-only", "writeable"} : m # disk.mode /\ Change([disk EXCEPT !.mode = m])

\* Others use up or free space.
Use == \E n \in 0..MaxSpace : n # disk.space /\ Change([disk EXCEPT !.space = n])

\* The log is moved away and deleted, as by a rotation with compression.
Rotate ==
    /\ disk.exists /\ disk.mode = "writeable"
    /\ Change([disk EXCEPT !.exists = FALSE, !.inode = @ + 1, !.archive = @ \o disk.file,
                           !.file = <<>>])

LogInit ==
    /\ logs = [r \in Processes |-> NoLog]
    /\ ptys = [r \in Processes |-> [data |-> <<>>, writer |-> "none"]]
    /\ \E m \in {"absent", "read-only", "writeable"} :
         /\ disk = [mode |-> m, space |-> MaxSpace, exists |-> FALSE, inode |-> 1, file |-> <<>>,
                    archive |-> <<>>, changes |-> 0]
         /\ spoilt = (m = "absent")
    /\ detached = <<>>
    /\ clearing = FALSE
    /\ flushed = FALSE
    /\ made = [r \in Processes |-> 0]
    /\ assertion = TRUE

\* The main loop runs one handler at a time; the processes and the disk do not wait
\* for it.
LogHandler ==
    /\ ~clearing
    /\ \/ ClearUnflushed
       \/ \E r \in Processes : IoReader(r) \/ IoError(r) \/ HandleUnflushed(r) \/ Start(r)

LogNext ==
    \/ LogHandler \/ ClearOne \/ ClearDone
    \/ Mount \/ Use \/ Rotate
    \/ \E r \in Processes : Output(r) \/ End(r)

LogSpec == LogInit /\ [][LogNext]_logVars

-----------------------------------------------------------------------------
\* The log and its rotated parts, and what of a process is on its way there, oldest
\* first.
Logged(r) ==
    disk.archive \o disk.file \o logs[r].unflushed \o logs[r].recv_buf
    \o (IF logs[r].io THEN ptys[r].data ELSE <<>>)

\* The output of a process is in its log in the order in which it was written and
\* no piece of it twice: over failed, partial and repeated writes, rotation, and
\* logs that are flushed after their process.  As long as the disk is neither
\* missing nor full, and stays writeable once it is, no output is lost either: not
\* what a process writes last, nor what it writes before the disk is writeable, nor
\* what it writes while the log is rotated or kept logs are flushed.
NothingLost ==
    /\ assertion
    /\ \A r \in Processes :
          /\ \A i, j \in 1..Len(Logged(r)) :
               i < j /\ Logged(r)[i].run = r /\ Logged(r)[j].run = r
                 => Logged(r)[i].number < Logged(r)[j].number
          /\ ~spoilt =>
               \A n \in 1..made[r] :
                 \E i \in 1..Len(Logged(r)) : Logged(r)[i] = [run |-> r, number |-> n]
=============================================================================

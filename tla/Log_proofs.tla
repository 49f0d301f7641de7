----------------------------- MODULE Log_proofs -----------------------------
(***************************************************************************)
(* Proofs about Log, for any number of processes, any amount of output and *)
(* any order of reads, deaths, flushes, and changes of the disk.           *)
(***************************************************************************)
EXTENDS Log, SequenceTheorems, FiniteSetTheorems, TLAPS

Piece == [run : Processes, number : Nat]

LogType ==
    [state : {"none", "attached", "detached", "freed"}, fd : Nat, io : BOOLEAN,
     recv_buf : Seq(Piece), unflushed : Seq(Piece), remote_closed : BOOLEAN,
     open_errno : {"none", "stale", "ENOENT", "EROFS", "ENOSPC"}]

PtyType == [data : Seq(Piece), writer : {"none", "process", "leaked", "gone"}]

DiskType ==
    [mode : {"absent", "read-only", "writeable"}, space : Nat, exists : BOOLEAN,
     inode : Nat \ {0}, file : Seq(Piece), archive : Seq(Piece), changes : Nat]

Typed ==
    /\ logs \in [Processes -> LogType]
    /\ ptys \in [Processes -> PtyType]
    /\ disk \in DiskType
    /\ detached \in Seq(Processes)
    /\ clearing \in BOOLEAN /\ flushed \in BOOLEAN /\ spoilt \in BOOLEAN
    /\ made \in [Processes -> 0..MaxOutput]

\* A log that could not be written, or is open, has met an error in open.
Told(l) == l.unflushed # <<>> \/ l.fd # NoFd => l.open_errno # "none"

\* What the state of a log says of its process and its pty.
Stage(r) ==
    /\ ptys[r].writer = "process" => logs[r].state = "attached" /\ logs[r].io
    /\ logs[r].state = "none" => logs[r] = NoLog /\ ptys[r].writer = "none" /\ made[r] = 0
    /\ logs[r].state = "freed" => logs[r] = Freed
    /\ ptys[r].data # <<>> => logs[r].state = "attached" /\ logs[r].io
    /\ logs[r].state \in {"attached", "detached"} => logs[r].io \/ logs[r].remote_closed

\* How much of it there is.
Size(s) == Len(s)

\* A sequence of pieces of which those from b on are of process r: nothing that was
\* not written, and the pieces of r in order.
Good(s, b, r, m) ==
    /\ \A i \in 1..Len(s) : s[i].number \in 1..m[s[i].run]
    /\ \A i \in 1..Len(s) : i > b => s[i].run = r
    /\ \A i, j \in 1..Len(s) :
         i < j /\ s[i].run = r /\ s[j].run = r => s[i].number < s[j].number

\* All of them.
Complete(s, r, n) == \A k \in 1..n : \E i \in 1..Len(s) : s[i] = [run |-> r, number |-> k]

Ordered ==
    \A r \in Processes : Good(Logged(r), Size(disk.archive) + Size(disk.file), r, made)

\* A log that waits for the disk does so because that is read-only.
Waits(l) == l.unflushed # <<>> => l.open_errno = "EROFS"

\* The disk as it must be for nothing to be lost.
Unspoilt ==
    /\ disk.mode # "absent"
    /\ disk.mode = "read-only" => ~disk.exists /\ ~flushed /\ ~clearing
    /\ disk.space + Size(disk.archive) + Size(disk.file) >= MaxSpace
    /\ \A r \in Processes :
         logs[r].recv_buf = <<>> /\ Waits(logs[r]) /\ Complete(Logged(r), r, made[r])

IInv ==
    /\ Typed
    /\ assertion = TRUE
    /\ \A r \in Processes : Told(logs[r]) /\ Stage(r)
    /\ \A i \in 1..Len(detached) : logs[detached[i]].state \in {"detached", "freed"}
    /\ Ordered
    /\ ~spoilt => Unspoilt
-----------------------------------------------------------------------------
(* Sequences *)

\* s is a beginning of t.
Begins(s, t) == Len(s) <= Len(t) /\ \A i \in 1..Len(s) : s[i] = t[i]

\* What a partial write of log_file_write takes from a buffer, and what it leaves.
LEMMA Parts ==
    ASSUME NEW u \in Seq(Piece), NEW n \in 0..Len(u)
    PROVE  /\ SubSeq(u, 1, n) \in Seq(Piece) /\ Len(SubSeq(u, 1, n)) = n
           /\ \A i \in 1..n : SubSeq(u, 1, n)[i] = u[i]
           /\ Drop(u, n) \in Seq(Piece) /\ Len(Drop(u, n)) = Len(u) - n
           /\ \A i \in 1..(Len(u) - n) : Drop(u, n)[i] = u[n + i]
<1>1. \A i \in 1..n : u[i] \in Piece
    BY ElementOfSeq
<1>2. \A i \in (n + 1)..Len(u) : u[i] \in Piece
    BY ElementOfSeq
<1>3. /\ SubSeq(u, 1, n) \in Seq(Piece) /\ Len(SubSeq(u, 1, n)) = n
      /\ \A i \in 1..n : SubSeq(u, 1, n)[i] = u[i]
    BY <1>1, SubSeqProperties
<1>4. Drop(u, n) \in Seq(Piece) /\ Len(Drop(u, n)) = Len(u) - n
    BY <1>2, SubSeqProperties DEF Drop
<1>5. \A i \in 1..(Len(u) - n) : Drop(u, n)[i] = u[n + i]
    BY <1>2, SubSeqProperties DEF Drop
<1> QED
    BY <1>3, <1>4, <1>5

\* Two sequences put together.
LEMMA Two ==
    ASSUME NEW f \in Seq(Piece), NEW g \in Seq(Piece)
    PROVE  /\ f \o g \in Seq(Piece) /\ Len(f \o g) = Len(f) + Len(g)
           /\ Len(f) \in Nat /\ Len(g) \in Nat
           /\ \A i \in 1..Len(f) : (f \o g)[i] = f[i]
           /\ \A i \in 1..Len(g) : (f \o g)[Len(f) + i] = g[i]
    OBVIOUS

\* One buffer behind another.
Join(s, t) == s \o t

\* The log of one process, with what waits to be written to it.
Total(f, u, v) == Join(Join(f, u), v)

\* t consists of these three.
Consists(t, f, u, v) ==
    /\ t \in Seq(Piece)
    /\ Len(t) = Len(f) + Len(u) + Len(v)
    /\ Len(f) \in Nat /\ Len(u) \in Nat /\ Len(v) \in Nat
    /\ \A i \in 1..Len(f) : t[i] = f[i]
    /\ \A i \in 1..Len(u) : t[Len(f) + i] = u[i]
    /\ \A i \in 1..Len(v) : t[Len(f) + Len(u) + i] = v[i]

\* The file, what log_file_write kept, and what was read, piece by piece.
LEMMA TotalIs ==
    ASSUME NEW f \in Seq(Piece), NEW u \in Seq(Piece), NEW v \in Seq(Piece)
    PROVE  Consists(Total(f, u, v), f, u, v)
<1>1. /\ f \o u \in Seq(Piece) /\ Len(f \o u) = Len(f) + Len(u)
      /\ \A i \in 1..Len(f) : (f \o u)[i] = f[i]
      /\ \A i \in 1..Len(u) : (f \o u)[Len(f) + i] = u[i]
    OBVIOUS
<1> DEFINE g == f \o u
<1>2. /\ g \o v \in Seq(Piece) /\ Len(g \o v) = Len(g) + Len(v)
      /\ \A i \in 1..Len(g) : (g \o v)[i] = g[i]
      /\ \A i \in 1..Len(v) : (g \o v)[Len(g) + i] = v[i]
    BY <1>1
<1> HIDE DEF g
<1>3. g \in Seq(Piece) /\ Len(g) = Len(f) + Len(u)
    BY <1>1 DEF g
<1>4. \A i \in 1..Len(f) : (g \o v)[i] = f[i]
    BY <1>1, <1>2, <1>3 DEF g
<1>5. \A i \in 1..Len(u) : (g \o v)[Len(f) + i] = u[i]
  <2> TAKE i \in 1..Len(u)
  <2>1. Len(f) + i \in 1..Len(g)
      BY <1>3
  <2> QED
      BY <2>1, <1>1, <1>2 DEF g
<1> QED
    BY <1>2, <1>3, <1>4, <1>5 DEF g, Join, Total, Consists

\* Putting buffers behind one another, in whatever order.
LEMMA Associates ==
    ASSUME NEW x \in Seq(Piece), NEW y \in Seq(Piece), NEW z \in Seq(Piece)
    PROVE  Join(x, y) \in Seq(Piece) /\ Join(Join(x, y), z) = Join(x, Join(y, z))
<1>1. x \o y \in Seq(Piece)
    BY Two
<1>2. (x \o y) \o z = x \o (y \o z)
    BY ConcatAssociative
<1> QED
    BY <1>1, <1>2, Zenon DEF Join

\* What log_file_write has written and what it has left make up the buffer.
LEMMA PartsMake ==
    ASSUME NEW u \in Seq(Piece), NEW n \in 0..Len(u)
    PROVE  SubSeq(u, 1, n) \o Drop(u, n) = u
<1>1. /\ SubSeq(u, 1, n) \in Seq(Piece) /\ Len(SubSeq(u, 1, n)) = n
      /\ \A i \in 1..n : SubSeq(u, 1, n)[i] = u[i]
      /\ Drop(u, n) \in Seq(Piece) /\ Len(Drop(u, n)) = Len(u) - n
      /\ \A i \in 1..(Len(u) - n) : Drop(u, n)[i] = u[n + i]
    BY Parts
<1> SUFFICES ASSUME NEW h \in Seq(Piece), NEW w \in Seq(Piece), Len(h) = n, Len(w) = Len(u) - n,
                    \A i \in 1..n : h[i] = u[i], \A i \in 1..(Len(u) - n) : w[i] = u[n + i]
             PROVE  h \o w = u
    BY <1>1
<1>2. /\ h \o w \in Seq(Piece) /\ Len(h \o w) = Len(h) + Len(w)
      /\ \A i \in 1..Len(h) : (h \o w)[i] = h[i]
      /\ \A i \in 1..Len(w) : (h \o w)[Len(h) + i] = w[i]
    BY Two
<1>3. n \in Nat /\ Len(u) \in Nat /\ Len(h \o w) = Len(u)
    BY <1>2
<1>4. ASSUME NEW i \in 1..Len(u) PROVE (h \o w)[i] = u[i]
  <2>1. CASE i <= n
      BY <1>2, <1>3, <2>1
  <2>2. CASE i > n
    <3>1. i - n \in 1..Len(w) /\ i = n + (i - n)
        BY <1>3, <2>2
    <3> QED
        BY <1>2, <3>1
  <2> QED
      BY <1>3, <2>1, <2>2
<1> QED
    BY <1>2, <1>3, <1>4, SeqEqual

Split(f, u, g, w, n) == g = f \o SubSeq(u, 1, n) /\ w = Drop(u, n)

\* A write takes what it writes from the beginning of the buffer.
LEMMA WriteMoves ==
    ASSUME NEW f \in Seq(Piece), NEW u \in Seq(Piece), NEW v \in Seq(Piece), NEW n \in 0..Len(u),
           NEW g, NEW w, Split(f, u, g, w, n)
    PROVE  /\ g \in Seq(Piece) /\ w \in Seq(Piece)
           /\ Size(g) = Size(f) + n /\ Size(w) = Size(u) - n
           /\ Begins(f, g)
           /\ Total(g, w, v) = Total(f, u, v)
<1>1. /\ SubSeq(u, 1, n) \in Seq(Piece) /\ Len(SubSeq(u, 1, n)) = n
      /\ Drop(u, n) \in Seq(Piece) /\ Len(Drop(u, n)) = Len(u) - n
      /\ SubSeq(u, 1, n) \o Drop(u, n) = u
    BY Parts, PartsMake
<1> SUFFICES ASSUME NEW h \in Seq(Piece), Len(h) = n, g = f \o h, w \in Seq(Piece),
                    Len(w) = Len(u) - n, h \o w = u
             PROVE  /\ g \in Seq(Piece) /\ w \in Seq(Piece)
                    /\ Size(g) = Size(f) + n /\ Size(w) = Size(u) - n
                    /\ Begins(f, g)
                    /\ Total(g, w, v) = Total(f, u, v)
    BY <1>1 DEF Split
<1>2. /\ g \in Seq(Piece) /\ Len(g) = Len(f) + Len(h) /\ Len(f) \in Nat /\ Len(h) \in Nat
      /\ \A i \in 1..Len(f) : g[i] = f[i]
  <2>1. /\ f \o h \in Seq(Piece) /\ Len(f \o h) = Len(f) + Len(h)
        /\ Len(f) \in Nat /\ Len(h) \in Nat
        /\ \A i \in 1..Len(f) : (f \o h)[i] = f[i]
      BY Two, Zenon
  <2>2. g = f \o h
      OBVIOUS
  <2> QED
      BY <2>1, <2>2, Zenon
<1>3. Join(Join(f, h), w) = Join(f, Join(h, w))
    BY Associates
<1>4. Total(g, w, v) = Total(f, u, v)
  <2>1. Join(f, h) = g /\ Join(h, w) = u
      BY Zenon DEF Join
  <2> QED
      BY <1>3, <2>1, Zenon DEF Total
<1>5. Begins(f, g)
    BY <1>2 DEF Begins
<1> QED
    BY <1>2, <1>4, <1>5 DEF Size

IsJoined(w, u, v) == w = u \o v

\* What is kept for later stays where it was in the order; what is discarded was last.
LEMMA NewKept ==
    ASSUME NEW f \in Seq(Piece), NEW u \in Seq(Piece), NEW v \in Seq(Piece),
           NEW w, IsJoined(w, u, v)
    PROVE  w \in Seq(Piece) /\ Len(w) = Len(u) + Len(v) /\ Total(f, w, <<>>) = Total(f, u, v)
<1>1. w = Join(u, v) /\ w \in Seq(Piece) /\ Len(w) = Len(u) + Len(v)
    BY Two DEF IsJoined, Join
<1>2. Join(f, w) \in Seq(Piece)
    BY <1>1, Associates
<1>3. Join(Join(f, w), <<>>) = Join(f, w)
    BY <1>2, ConcatEmptySeq DEF Join
<1>4. Join(Join(f, u), v) = Join(f, Join(u, v))
    BY Associates
<1> QED
    BY <1>1, <1>3, <1>4, Zenon DEF Total

\* What is discarded, as log_file_write does when the disk is full, was last.
LEMMA NewDropped ==
    ASSUME NEW f \in Seq(Piece), NEW u \in Seq(Piece), NEW v \in Seq(Piece)
    PROVE  Begins(Total(f, u, <<>>), Total(f, u, v))
<1>1. f \o u \in Seq(Piece)
    BY Two
<1> SUFFICES ASSUME NEW g \in Seq(Piece), g = f \o u
             PROVE  Begins(g \o <<>>, g \o v)
    BY <1>1 DEF Total, Join
<1>2. g \o <<>> = g
    BY ConcatEmptySeq
<1>3. /\ Len(g \o v) = Len(g) + Len(v) /\ Len(g) \in Nat /\ Len(v) \in Nat
      /\ \A i \in 1..Len(g) : (g \o v)[i] = g[i]
    BY Two
<1>4. Begins(g, g \o v)
    BY <1>3 DEF Begins
<1> QED
    BY <1>2, <1>4

\* A beginning of a beginning, as after two operations on a log that each may lose its end.
LEMMA BeginsTransitive ==
    ASSUME NEW s \in Seq(Piece), NEW t \in Seq(Piece), NEW u \in Seq(Piece),
           Begins(s, t), Begins(t, u)
    PROVE  Begins(s, u)
    BY DEF Begins

\* t is a followed by x.
Follows(t, a, x) ==
    /\ t \in Seq(Piece)
    /\ Len(t) = Len(a) + Len(x)
    /\ Len(a) \in Nat /\ Len(x) \in Nat
    /\ \A i \in 1..Len(a) : t[i] = a[i]
    /\ \A i \in 1..Len(x) : t[Len(a) + i] = x[i]

\* Where the pieces are when one buffer is put behind another.
LEMMA TwoFollow ==
    ASSUME NEW s \in Seq(Piece), NEW t \in Seq(Piece)
    PROVE  s \o t \in Seq(Piece) /\ Follows(s \o t, s, t)
    BY Two DEF Follows

\* The rotated parts, the log, and what of a process is on its way there.
Logs(a, f, u, v, w) == Join(Join(Join(Join(a, f), u), v), w)

\* The whole log of a process is its rotated parts, and then what has not been rotated.
LEMMA LogsAre ==
    ASSUME NEW a \in Seq(Piece), NEW f \in Seq(Piece), NEW u \in Seq(Piece),
           NEW v \in Seq(Piece), NEW w \in Seq(Piece)
    PROVE  /\ Follows(Logs(a, f, u, v, w), a, Total(f, u, Join(v, w)))
           /\ Consists(Logs(a, f, u, v, w), a, f, Join(u, Join(v, w)))
<1>1. /\ Join(a, f) \in Seq(Piece) /\ Join(f, u) \in Seq(Piece)
      /\ Join(Join(a, f), u) = Join(a, Join(f, u))
    BY Associates
<1>2. /\ Join(Join(a, f), u) \in Seq(Piece)
      /\ Join(v, w) \in Seq(Piece) /\ Join(u, Join(v, w)) \in Seq(Piece)
    BY <1>1, Associates
<1>3. Logs(a, f, u, v, w) = Join(Join(Join(a, f), u), Join(v, w))
    BY <1>2, Associates DEF Logs
<1>4. Logs(a, f, u, v, w) = Join(a, Total(f, u, Join(v, w)))
  <2>1. Join(Join(a, Join(f, u)), Join(v, w)) = Join(a, Join(Join(f, u), Join(v, w)))
      BY <1>1, <1>2, Associates
  <2> QED
      BY <1>1, <1>3, <2>1 DEF Total
<1>5. Logs(a, f, u, v, w) = Total(a, f, Join(u, Join(v, w)))
  <2>1. Join(Join(Join(a, f), u), Join(v, w)) = Join(Join(a, f), Join(u, Join(v, w)))
      BY <1>1, <1>2, Associates
  <2> QED
      BY <1>3, <2>1 DEF Total
<1>6. Total(f, u, Join(v, w)) \in Seq(Piece)
    BY <1>2, TotalIs DEF Consists
<1>7. Follows(Logs(a, f, u, v, w), a, Total(f, u, Join(v, w)))
    BY <1>4, <1>6, TwoFollow DEF Join
<1>8. Consists(Logs(a, f, u, v, w), a, f, Join(u, Join(v, w)))
    BY <1>2, <1>5, TotalIs
<1> QED
    BY <1>7, <1>8

\* What waits may lose its end, and so does the whole.
LEMMA FollowBegins ==
    ASSUME NEW s, NEW t, NEW a, NEW p, NEW q, Begins(p, q), Follows(s, a, p), Follows(t, a, q)
    PROVE  Begins(s, t)
<1>3. /\ Len(s) = Len(a) + Len(p) /\ Len(t) = Len(a) + Len(q) /\ Len(p) <= Len(q)
      /\ Len(a) \in Nat /\ Len(p) \in Nat /\ Len(q) \in Nat
    BY DEF Follows, Begins
<1>4. ASSUME NEW i \in 1..Len(s) PROVE s[i] = t[i]
  <2>1. CASE i <= Len(a)
    <3>1. i \in 1..Len(a)
        BY <2>1, <1>3
    <3> QED
        BY <3>1 DEF Follows
  <2>2. CASE i > Len(a)
    <3> DEFINE j == i - Len(a)
    <3>1. j \in 1..Len(p) /\ j \in 1..Len(q) /\ i = Len(a) + j
        BY <2>2, <1>3
    <3>2. s[Len(a) + j] = p[j]
        BY <3>1 DEF Follows
    <3>3. t[Len(a) + j] = q[j]
        BY <3>1 DEF Follows
    <3>4. p[j] = q[j]
        BY <3>1 DEF Begins
    <3> QED
        BY <3>1, <3>2, <3>3, <3>4
  <2> QED
      BY <2>1, <2>2, <1>3
<1> QED
    BY <1>3, <1>4 DEF Begins

\* Two sequences that begin with each other are one.
LEMMA BeginsEqual ==
    ASSUME NEW s \in Seq(Piece), NEW t \in Seq(Piece), Begins(s, t), Begins(t, s)
    PROVE  s = t
<1>1. Len(s) = Len(t) /\ \A i \in 1..Len(s) : s[i] = t[i]
    BY DEF Begins
<1> QED
    BY <1>1, SeqEqual

\* What is not touched has lost nothing.
LEMMA BeginsItself ==
    ASSUME NEW s \in Seq(Piece)
    PROVE  Begins(s, s)
    BY DEF Begins

\* Output read later comes after all that is there.
LEMMA MoreRead ==
    ASSUME NEW f \in Seq(Piece), NEW u \in Seq(Piece), NEW g \in Seq(Piece),
           NEW w \in Seq(Piece), NEW v \in Seq(Piece),
           Total(g, w, <<>>) = Total(f, u, <<>>)
    PROVE  Total(g, w, v) = Total(f, u, v)
<1>1. Join(g, w) \in Seq(Piece) /\ Join(f, u) \in Seq(Piece)
    BY Associates
<1>2. Join(Join(g, w), <<>>) = Join(g, w) /\ Join(Join(f, u), <<>>) = Join(f, u)
    BY <1>1, ConcatEmptySeq DEF Join
<1>3. Join(g, w) = Join(f, u)
    BY <1>2, Zenon DEF Total
<1> QED
    BY <1>3, Zenon DEF Total

\* The size of a buffer of log_file_write is zero when that is empty.
LEMMA SizeIs ==
    ASSUME NEW s \in Seq(Piece)
    PROVE  Size(s) \in Nat /\ (Size(s) = 0 <=> s = <<>>)
    BY DEF Size

\* How much there is of a log from the last rotation on.
LEMMA TotalSize ==
    ASSUME NEW f \in Seq(Piece), NEW u \in Seq(Piece), NEW v \in Seq(Piece)
    PROVE  Total(f, u, v) \in Seq(Piece) /\ Size(Total(f, u, v)) = Size(f) + Size(u) + Size(v)
<1>1. Consists(Total(f, u, v), f, u, v)
    BY TotalIs
<1> QED
    BY <1>1 DEF Consists, Size
-----------------------------------------------------------------------------
(* Opening and writing *)

\* The log with what waits for it.
All(l, d) == Total(d.file, l.unflushed, l.recv_buf)

\* What writing does to the disk: the file grows and the space shrinks by as much.
Grows(d, e) ==
    /\ e \in DiskType
    /\ Begins(d.file, e.file)
    /\ e.archive = d.archive /\ e.mode = d.mode /\ e.inode = d.inode
    /\ e.space + Size(e.file) = d.space + Size(d.file)
    /\ d.mode # "writeable" => e.exists = d.exists

\* What an operation leaves of a log: nothing but the last output may be lost.
Moved(l, d, m, e) ==
    /\ m \in LogType
    /\ Grows(d, e)
    /\ Begins(All(m, e), All(l, d))
    /\ m.state = l.state /\ m.io = l.io /\ m.remote_closed = l.remote_closed

\* There is room for all that waits.
Fit(l, d) == d.mode = "writeable" /\ Size(l.unflushed) + Size(l.recv_buf) <= d.space

\* It fits, or will be kept until the disk is writeable.
Room(l, d) == Fit(l, d) \/ (d.mode = "read-only" /\ ~d.exists)

\* An operation of log.c that writes nothing leaves the disk as it is.
LEMMA GrowsItself ==
    ASSUME NEW d \in DiskType
    PROVE  Grows(d, d)
<1>1. d.file \in Seq(Piece)
    BY DEF DiskType
<1> QED
    BY <1>1, BeginsItself DEF Grows

\* Two writes, one after the other, do to the disk what one may.
LEMMA GrowsOn ==
    ASSUME NEW c \in DiskType, NEW d, NEW e, Grows(c, d), Grows(d, e)
    PROVE  Grows(c, e)
<1>1. /\ c.file \in Seq(Piece) /\ d.file \in Seq(Piece) /\ e.file \in Seq(Piece)
      /\ c.space \in Nat /\ d.space \in Nat /\ e.space \in Nat
    BY DEF DiskType, Grows
<1>4. Size(c.file) \in Nat /\ Size(d.file) \in Nat /\ Size(e.file) \in Nat
    BY <1>1, SizeIs
<1>2. Begins(c.file, e.file)
    BY <1>1, BeginsTransitive DEF Grows
<1>3. e.space + Size(e.file) = c.space + Size(c.file)
    BY <1>1, <1>4 DEF Grows
<1> QED
    BY <1>2, <1>3 DEF Grows

\* What a log and the file hold together.
LEMMA AllIs ==
    ASSUME NEW l \in LogType, NEW d \in DiskType
    PROVE  /\ All(l, d) \in Seq(Piece)
           /\ d.file \in Seq(Piece) /\ l.unflushed \in Seq(Piece) /\ l.recv_buf \in Seq(Piece)
           /\ Size(All(l, d)) = Size(d.file) + Size(l.unflushed) + Size(l.recv_buf)
           /\ Size(d.file) \in Nat /\ Size(l.unflushed) \in Nat /\ Size(l.recv_buf) \in Nat
<1>1. d.file \in Seq(Piece) /\ l.unflushed \in Seq(Piece) /\ l.recv_buf \in Seq(Piece)
    BY DEF LogType, DiskType
<1> QED
    BY <1>1, TotalSize, SizeIs DEF All

\* Two operations on a log lose no more than its end.
LEMMA MovedOn ==
    ASSUME NEW l \in LogType, NEW d \in DiskType, NEW m, NEW e, NEW n, NEW f,
           Moved(l, d, m, e), Moved(m, e, n, f)
    PROVE  Moved(l, d, n, f)
<1>1. m \in LogType /\ e \in DiskType /\ n \in LogType /\ f \in DiskType
    BY DEF Moved, Grows
<1>2. All(l, d) \in Seq(Piece) /\ All(m, e) \in Seq(Piece) /\ All(n, f) \in Seq(Piece)
    BY <1>1, AllIs
<1>3. Begins(All(n, f), All(l, d))
    BY <1>2, BeginsTransitive DEF Moved
<1>4. Grows(d, f)
    BY GrowsOn DEF Moved
<1> QED
    BY <1>1, <1>3, <1>4 DEF Moved

\* What was written makes room for the rest.
LEMMA RoomStays ==
    ASSUME NEW l \in LogType, NEW d \in DiskType, NEW m, NEW e,
           Moved(l, d, m, e), Fit(l, d)
    PROVE  Fit(m, e)
<1>1. m \in LogType /\ e \in DiskType
    BY DEF Moved, Grows
<1>2. /\ Size(All(l, d)) = Size(d.file) + Size(l.unflushed) + Size(l.recv_buf)
      /\ Size(All(m, e)) = Size(e.file) + Size(m.unflushed) + Size(m.recv_buf)
      /\ Size(d.file) \in Nat /\ Size(l.unflushed) \in Nat /\ Size(l.recv_buf) \in Nat
      /\ Size(e.file) \in Nat /\ Size(m.unflushed) \in Nat /\ Size(m.recv_buf) \in Nat
    BY <1>1, AllIs
<1>3. Size(All(m, e)) <= Size(All(l, d))
    BY DEF Moved, Begins, Size
<1>4. e.space + Size(e.file) = d.space + Size(d.file) /\ d.space \in Nat /\ e.space \in Nat
    BY <1>1 DEF Moved, Grows, DiskType
<1>5. Size(l.unflushed) + Size(l.recv_buf) <= d.space
    BY DEF Fit
<1>6. Size(m.unflushed) + Size(m.recv_buf) <= e.space
    BY <1>2, <1>3, <1>4, <1>5
<1>7. e.mode = "writeable"
    BY DEF Fit, Moved, Grows
<1> QED
    BY <1>6, <1>7 DEF Fit

\* log_file_open changes nothing but the descriptor and errno, and creates the file.
LEMMA Opens ==
    ASSUME NEW l \in LogType, NEW d \in DiskType, Told(l), NEW o, o = LogFileOpen(l, d)
    PROVE  /\ o.l \in LogType
           /\ o.l.unflushed = l.unflushed /\ o.l.recv_buf = l.recv_buf
           /\ o.l.state = l.state /\ o.l.io = l.io /\ o.l.remote_closed = l.remote_closed
           /\ o.d \in DiskType
           /\ o.d.file = d.file /\ o.d.archive = d.archive /\ o.d.mode = d.mode
           /\ o.d.space = d.space /\ o.d.inode = d.inode
           /\ d.mode # "writeable" => o.d.exists = d.exists
           /\ o.ok \in BOOLEAN
           /\ o.l.open_errno # "none"
           /\ o.ok => o.l.fd = o.d.inode /\ o.d.exists
           /\ ~o.ok => o.d = d
           /\ d.mode = "read-only" /\ ~d.exists => ~o.ok /\ o.l.open_errno = "EROFS"
           /\ d.mode = "writeable" /\ d.space > 0 => o.ok
<1>1. CASE l.fd # NoFd /\ l.fd = d.inode /\ d.exists
  <2>1. o.ok = TRUE /\ o.l = l /\ o.d = d
      BY <1>1 DEF LogFileOpen
  <2>2. l.open_errno # "none"
      BY <1>1 DEF Told
  <2> QED
      BY <1>1, <2>1, <2>2
<1>2. CASE ~(l.fd # NoFd /\ l.fd = d.inode /\ d.exists) /\ OpenError(d) # "none"
  <2>1. o.ok = FALSE /\ o.l = [l EXCEPT !.fd = NoFd, !.open_errno = OpenError(d)] /\ o.d = d
      BY <1>2 DEF LogFileOpen
  <2>2. OpenError(d) \in {"ENOENT", "EROFS", "ENOSPC"}
      BY <1>2 DEF OpenError
  <2>3. o.l \in LogType
    <3>1. PICK x \in {"none", "stale", "ENOENT", "EROFS", "ENOSPC"} : x = OpenError(d)
        BY <2>2
    <3>2. 0 \in Nat /\ o.l = [l EXCEPT !.fd = 0, !.open_errno = x]
        BY <2>1, <3>1 DEF NoFd
    <3> QED
        BY <3>2 DEF LogType
  <2>4. /\ o.l.unflushed = l.unflushed /\ o.l.recv_buf = l.recv_buf
        /\ o.l.state = l.state /\ o.l.io = l.io /\ o.l.remote_closed = l.remote_closed
        /\ o.l.open_errno = OpenError(d)
      BY <2>1 DEF LogType
  <2>5. d.mode = "read-only" => OpenError(d) = "EROFS"
      BY DEF OpenError
  <2>6. d.mode = "writeable" /\ d.space > 0 => OpenError(d) = "none"
      BY DEF OpenError, DiskType
  <2> QED
      BY <1>2, <2>1, <2>2, <2>3, <2>4, <2>5, <2>6
<1>3. CASE ~(l.fd # NoFd /\ l.fd = d.inode /\ d.exists) /\ OpenError(d) = "none"
  <2>1. /\ o.ok = TRUE /\ o.l = [l EXCEPT !.fd = d.inode, !.open_errno = "stale"]
        /\ o.d = [d EXCEPT !.exists = TRUE]
      BY <1>3 DEF LogFileOpen
  <2>2. o.l \in LogType
      BY <2>1 DEF LogType, DiskType
  <2>3. /\ o.l.unflushed = l.unflushed /\ o.l.recv_buf = l.recv_buf
        /\ o.l.state = l.state /\ o.l.io = l.io /\ o.l.remote_closed = l.remote_closed
        /\ o.l.open_errno = "stale" /\ o.l.fd = d.inode
      BY <2>1 DEF LogType
  <2>4. o.d \in DiskType
      BY <2>1 DEF DiskType
  <2>5. /\ o.d.file = d.file /\ o.d.archive = d.archive /\ o.d.mode = d.mode
        /\ o.d.space = d.space /\ o.d.inode = d.inode /\ o.d.exists = TRUE
      BY <2>1 DEF DiskType
  <2>6. d.mode = "writeable"
      BY <1>3 DEF OpenError, DiskType
  <2> QED
      BY <2>1, <2>2, <2>3, <2>4, <2>5, <2>6
<1> QED
    BY <1>1, <1>2, <1>3

\* So it moves nothing.
LEMMA OpenMoves ==
    ASSUME NEW l \in LogType, NEW d \in DiskType, Told(l), NEW o, o = LogFileOpen(l, d)
    PROVE  Moved(l, d, o.l, o.d) /\ All(o.l, o.d) = All(l, d)
<1>1. All(o.l, o.d) = All(l, d)
    BY Opens DEF All
<1>2. Begins(All(o.l, o.d), All(l, d))
    BY <1>1, AllIs, BeginsItself
<1>3. Grows(d, o.d)
  <2>1. d.file \in Seq(Piece)
      BY DEF DiskType
  <2> QED
      BY <2>1, Opens, BeginsItself DEF Grows
<1> QED
    BY <1>1, <1>2, <1>3, Opens DEF Moved
IsKept(l, m) == m = [l EXCEPT !.recv_buf = <<>>, !.unflushed = @ \o l.recv_buf]

\* What was just read is put behind what could not be written before.
LEMMA KeepMoves ==
    ASSUME NEW l \in LogType, NEW d \in DiskType, NEW m, IsKept(l, m)
    PROVE  Moved(l, d, m, d) /\ All(m, d) = All(l, d) /\ m.recv_buf = <<>>
           /\ m.open_errno = l.open_errno /\ m.fd = l.fd
<1>1. l.unflushed \in Seq(Piece) /\ l.recv_buf \in Seq(Piece) /\ d.file \in Seq(Piece)
    BY AllIs
<1>2. /\ m.unflushed = l.unflushed \o l.recv_buf /\ m.recv_buf = <<>>
      /\ m.state = l.state /\ m.io = l.io /\ m.remote_closed = l.remote_closed
      /\ m.open_errno = l.open_errno /\ m.fd = l.fd
    BY DEF LogType, IsKept
<1>3. l.unflushed \o l.recv_buf \in Seq(Piece) /\ <<>> \in Seq(Piece)
    BY <1>1, Two
<1>4. m \in LogType
    BY <1>3 DEF LogType, IsKept
<1>5. All(m, d) = All(l, d)
  <2>1. IsJoined(m.unflushed, l.unflushed, l.recv_buf)
      BY <1>2 DEF IsJoined
  <2>2. Total(d.file, m.unflushed, <<>>) = Total(d.file, l.unflushed, l.recv_buf)
      BY <1>1, <2>1, NewKept
  <2> QED
      BY <2>2, <1>2 DEF All
<1>6. Begins(All(m, d), All(l, d))
    BY <1>5, AllIs, BeginsItself
<1> QED
    BY <1>2, <1>4, <1>5, <1>6, GrowsItself DEF Moved

\* It is discarded.
LEMMA DropMoves ==
    ASSUME NEW l \in LogType, NEW d \in DiskType, NEW m, m = [l EXCEPT !.recv_buf = <<>>]
    PROVE  Moved(l, d, m, d) /\ m.recv_buf = <<>> /\ m.unflushed = l.unflushed
           /\ m.open_errno = l.open_errno /\ m.fd = l.fd
           /\ (l.recv_buf = <<>> => All(m, d) = All(l, d))
<1>1. l.unflushed \in Seq(Piece) /\ l.recv_buf \in Seq(Piece) /\ d.file \in Seq(Piece)
    BY AllIs
<1>2. /\ m.unflushed = l.unflushed /\ m.recv_buf = <<>>
      /\ m.state = l.state /\ m.io = l.io /\ m.remote_closed = l.remote_closed
      /\ m.open_errno = l.open_errno /\ m.fd = l.fd
    BY DEF LogType
<1>3. m \in LogType
  <2>1. <<>> \in Seq(Piece)
      OBVIOUS
  <2> QED
      BY <2>1 DEF LogType
<1>4. Begins(All(m, d), All(l, d))
    BY <1>1, <1>2, NewDropped DEF All
<1>5. l.recv_buf = <<>> => All(m, d) = All(l, d)
    BY <1>2 DEF All
<1> QED
    BY <1>2, <1>3, <1>4, <1>5, GrowsItself DEF Moved

\* The descriptor is no part of it.
LEMMA CloseMoves ==
    ASSUME NEW l \in LogType, NEW d \in DiskType, NEW m, m = [l EXCEPT !.fd = NoFd]
    PROVE  Moved(l, d, m, d) /\ All(m, d) = All(l, d) /\ m.recv_buf = l.recv_buf
           /\ m.unflushed = l.unflushed /\ m.open_errno = l.open_errno
<1>1. /\ m.unflushed = l.unflushed /\ m.recv_buf = l.recv_buf
      /\ m.state = l.state /\ m.io = l.io /\ m.remote_closed = l.remote_closed
      /\ m.open_errno = l.open_errno
    BY DEF LogType
<1>2. m \in LogType
    BY DEF LogType, NoFd
<1>3. All(m, d) = All(l, d)
    BY <1>1 DEF All
<1>4. Begins(All(m, d), All(l, d))
    BY <1>3, AllIs, BeginsItself
<1> QED
    BY <1>1, <1>2, <1>3, <1>4, GrowsItself DEF Moved

\* A failed write keeps or discards what was just read.
FailDone(l, d, keep, w) ==
    /\ Moved(l, d, w.l, w.d) /\ w.ok = FALSE
    /\ w.l.recv_buf = <<>> /\ w.l.open_errno = l.open_errno
    /\ keep \/ l.recv_buf = <<>> => All(w.l, w.d) = All(l, d)

\* log_file_write, when write fails.
LEMMA FailMoves ==
    ASSUME NEW l \in LogType, NEW d \in DiskType, NEW keep \in BOOLEAN
    PROVE  FailDone(l, d, keep, WriteFails(l, d, keep))
<1> DEFINE w == WriteFails(l, d, keep)
<1>1. w.d = d /\ w.ok = FALSE
    BY DEF WriteFails
<1>2. CASE keep
  <2> DEFINE m == [l EXCEPT !.recv_buf = <<>>, !.unflushed = @ \o l.recv_buf]
  <2>1. w.l = [m EXCEPT !.fd = NoFd]
      BY <1>2 DEF WriteFails, LogType
  <2>5. IsKept(l, m)
      BY DEF IsKept
  <2>2. Moved(l, d, m, d) /\ All(m, d) = All(l, d) /\ m.recv_buf = <<>>
        /\ m.open_errno = l.open_errno
      BY <2>5, KeepMoves
  <2> HIDE DEF m
  <2>3. m \in LogType
      BY <2>2 DEF Moved
  <2>4. Moved(m, d, w.l, d) /\ All(w.l, d) = All(m, d) /\ w.l.recv_buf = m.recv_buf
        /\ w.l.open_errno = m.open_errno
      BY <2>1, <2>3, CloseMoves
  <2> QED
    <3>1. Moved(l, d, w.l, w.d)
        BY <1>1, <2>2, <2>4, MovedOn
    <3>2. All(w.l, w.d) = All(l, d) /\ w.l.recv_buf = <<>> /\ w.l.open_errno = l.open_errno
        BY <1>1, <2>2, <2>4
    <3> QED
        BY <1>1, <3>1, <3>2 DEF FailDone
<1>3. CASE ~keep
  <2> DEFINE m == [l EXCEPT !.recv_buf = <<>>]
  <2>1. w.l = [m EXCEPT !.fd = NoFd]
      BY <1>3 DEF WriteFails, LogType
  <2>2. Moved(l, d, m, d) /\ m.recv_buf = <<>> /\ m.open_errno = l.open_errno
        /\ (l.recv_buf = <<>> => All(m, d) = All(l, d))
      BY DropMoves
  <2> HIDE DEF m
  <2>3. m \in LogType
      BY <2>2 DEF Moved
  <2>4. Moved(m, d, w.l, d) /\ All(w.l, d) = All(m, d) /\ w.l.recv_buf = m.recv_buf
        /\ w.l.open_errno = m.open_errno
      BY <2>1, <2>3, CloseMoves
  <2> QED
      BY <1>1, <1>3, <2>2, <2>4, MovedOn DEF FailDone
<1> QED
    BY <1>2, <1>3

\* What fits.
LEMMA FitsIs ==
    ASSUME NEW d \in DiskType, NEW n \in Nat
    PROVE  /\ Fits(n, d) \in 0..n /\ Fits(n, d) <= d.space
           /\ n <= d.space => Fits(n, d) = n
    BY DEF Fits, DiskType

\* A write to the file of this name.
WriteIs(d, u, v, e, w) ==
    /\ Grows(d, e) /\ e.exists /\ w \in Seq(Piece)
    /\ Total(e.file, w, v) = Total(d.file, u, v)
    /\ Size(u) <= d.space => w = <<>>

\* write takes from the buffer what fits, and puts it at the end of the file.
LEMMA Writes ==
    ASSUME NEW l \in LogType, NEW d \in DiskType, l.fd = d.inode, d.exists,
           NEW u \in Seq(Piece), NEW v \in Seq(Piece)
    PROVE  WriteIs(d, u, v, Written(l, d, u), Drop(u, Fits(Len(u), d)))
<1> DEFINE e == Written(l, d, u)
           w == Drop(u, Fits(Len(u), d))
<1> DEFINE n == Fits(Len(u), d)
<1>1. n \in 0..Len(u) /\ n <= d.space /\ (Len(u) <= d.space => n = Len(u))
    BY FitsIs
<1> HIDE DEF n
<1> DEFINE g == d.file \o SubSeq(u, 1, n)
<1>2. e = Put(d, SubSeq(u, 1, n))
    BY DEF Written, n
<1>3. d.file \in Seq(Piece)
    BY DEF DiskType
<1>4. SubSeq(u, 1, n) \in Seq(Piece) /\ Len(SubSeq(u, 1, n)) = n
    BY <1>1, Parts
<1>6. Split(d.file, u, g, w, n)
    BY DEF n, Split
<1>7. /\ g \in Seq(Piece) /\ w \in Seq(Piece)
      /\ Size(g) = Size(d.file) + n /\ Size(w) = Size(u) - n
      /\ Begins(d.file, g)
      /\ Total(g, w, v) = Total(d.file, u, v)
  <2> HIDE DEF g
  <2> QED
      BY <1>1, <1>3, <1>6, WriteMoves
<1>8. /\ e.file = g /\ e.space = d.space - n
      /\ e.archive = d.archive /\ e.mode = d.mode /\ e.inode = d.inode /\ e.exists = d.exists
    BY <1>2, <1>4 DEF Put, DiskType
<1> HIDE DEF g
<1>9. e \in DiskType
  <2>1. e = [d EXCEPT !.file = g, !.space = d.space - n]
      BY <1>2, <1>4 DEF Put, DiskType, g
  <2>2. d.space - n \in Nat
      BY <1>1 DEF DiskType
  <2> QED
      BY <2>1, <2>2, <1>7 DEF DiskType
<1>10. Grows(d, e)
  <2>1. e.space + Size(e.file) = d.space + Size(d.file)
    <3>1. Size(d.file) \in Nat /\ d.space \in Nat /\ n \in Nat
        BY <1>1, <1>3, SizeIs DEF DiskType
    <3> QED
        BY <3>1, <1>7, <1>8
  <2> QED
      BY <2>1, <1>7, <1>8, <1>9 DEF Grows
<1>11. Size(u) <= d.space => w = <<>>
  <2>1. Size(u) <= d.space => Size(w) = 0
      BY <1>1, <1>7, SizeIs DEF Size
  <2> QED
      BY <2>1, <1>7, SizeIs
<1> QED
    BY <1>7, <1>8, <1>10, <1>11 DEF WriteIs

\* An empty buffer may stand on either side.
LEMMA EmptyBuffer ==
    ASSUME NEW f \in Seq(Piece), NEW u \in Seq(Piece)
    PROVE  Total(f, u, <<>>) = Total(f, <<>>, u)
<1>1. Join(f, u) \in Seq(Piece)
    BY Associates
<1>2. Join(Join(f, u), <<>>) = Join(f, u)
    BY <1>1, ConcatEmptySeq DEF Join
<1>3. Join(f, <<>>) = f
    BY ConcatEmptySeq DEF Join
<1> QED
    BY <1>2, <1>3, Zenon DEF Total

\* What log_file_write may do to a log and the disk.
WriteDone(l, d, w) ==
    /\ Moved(l, d, w.l, w.d)
    /\ w.ok \in BOOLEAN
    /\ w.l.open_errno = l.open_errno
    /\ l.recv_buf = <<>> => All(w.l, w.d) = All(l, d) /\ w.l.recv_buf = <<>>
    /\ Fit(l, d) => /\ w.ok /\ All(w.l, w.d) = All(l, d)
                    /\ w.l.recv_buf = <<>> /\ w.l.unflushed = <<>>

\* If what waits fits, and there is some, then open and write succeed.
LEMMA SomeSpace ==
    ASSUME NEW l \in LogType, NEW d \in DiskType, Fit(l, d),
           l.unflushed # <<>> \/ l.recv_buf # <<>>
    PROVE  d.mode = "writeable" /\ d.space > 0 /\ WriteError(d) = "none"
<1>1. /\ Size(l.unflushed) \in Nat /\ Size(l.recv_buf) \in Nat /\ d.space \in Nat
      /\ Size(l.unflushed) > 0 \/ Size(l.recv_buf) > 0
  <2>1. l.unflushed \in Seq(Piece) /\ l.recv_buf \in Seq(Piece)
      BY AllIs
  <2>2. /\ Size(l.unflushed) \in Nat /\ Size(l.recv_buf) \in Nat
        /\ Size(l.unflushed) # 0 \/ Size(l.recv_buf) # 0
      BY <2>1, SizeIs
  <2> QED
      BY <2>2 DEF DiskType
<1>2. d.mode = "writeable" /\ Size(l.unflushed) + Size(l.recv_buf) <= d.space
    BY DEF Fit
<1>3. d.space > 0
    BY <1>1, <1>2
<1> QED
    BY <1>2, <1>3 DEF WriteError

\* log_file_write, once nothing older is left.
LEMMA WriteNewMoves ==
    ASSUME NEW l \in LogType, NEW d \in DiskType, l.fd = d.inode, d.exists,
           l.unflushed = <<>>
    PROVE  WriteDone(l, d, WriteNew(l, d))
<1> DEFINE w == WriteNew(l, d)
<1>0. l.recv_buf \in Seq(Piece) /\ d.file \in Seq(Piece) /\ <<>> \in Seq(Piece)
    BY AllIs
<1>1. CASE l.recv_buf = <<>>
  <2>1. w.ok = TRUE /\ w.l = l /\ w.d = d
      BY <1>1 DEF WriteNew
  <2>2. Moved(l, d, l, d)
      BY AllIs, BeginsItself, GrowsItself DEF Moved
  <2> QED
      BY <1>1, <2>1, <2>2 DEF WriteDone
<1>2. CASE l.recv_buf # <<>> /\ WriteError(d) # "none"
  <2> DEFINE keep == WriteError(d) # "ENOSPC"
  <2>1. w = WriteFails(l, d, keep)
      BY <1>2 DEF WriteNew
  <2>2. keep \in BOOLEAN
      OBVIOUS
  <2> HIDE DEF w, keep
  <2>3. FailDone(l, d, keep, w)
      BY <2>1, <2>2, FailMoves
  <2>4. ~Fit(l, d)
      BY <1>2, SomeSpace
  <2> QED
      BY <2>3, <2>4 DEF WriteDone, FailDone, w
<1>3. CASE l.recv_buf # <<>> /\ WriteError(d) = "none"
  <2> DEFINE e == Written(l, d, l.recv_buf)
             x == Drop(l.recv_buf, Fits(Len(l.recv_buf), d))
  <2>1. w.ok = TRUE /\ w.d = e /\ w.l = [l EXCEPT !.recv_buf = x]
      BY <1>3 DEF WriteNew, LogType
  <2>9. WriteIs(d, l.recv_buf, <<>>, e, x)
      BY <1>0, Writes
  <2>2. /\ Grows(d, e) /\ e.exists /\ x \in Seq(Piece)
        /\ Total(e.file, x, <<>>) = Total(d.file, l.recv_buf, <<>>)
        /\ Size(l.recv_buf) <= d.space => x = <<>>
      BY <2>9 DEF WriteIs
  <2> HIDE DEF w, e, x
  <2>3. /\ w.l \in LogType /\ w.l.recv_buf = x /\ w.l.unflushed = <<>>
        /\ w.l.open_errno = l.open_errno /\ w.l.state = l.state /\ w.l.io = l.io
        /\ w.l.remote_closed = l.remote_closed
      BY <2>1, <2>2 DEF LogType
  <2>4. e.file \in Seq(Piece)
      BY <2>2 DEF Grows, DiskType
  <2>5. All(w.l, w.d) = All(l, d)
    <3>1. Total(e.file, x, <<>>) = Total(e.file, <<>>, x)
        BY <2>2, <2>4, EmptyBuffer
    <3>2. Total(d.file, l.recv_buf, <<>>) = Total(d.file, <<>>, l.recv_buf)
        BY <1>0, EmptyBuffer
    <3> QED
        BY <2>1, <2>2, <2>3, <3>1, <3>2 DEF All
  <2>6. Begins(All(w.l, w.d), All(l, d))
      BY <2>5, AllIs, BeginsItself
  <2>7. Moved(l, d, w.l, w.d)
      BY <2>1, <2>2, <2>3, <2>6 DEF Moved
  <2>8. Fit(l, d) => x = <<>>
    <3>1. Size(l.unflushed) \in Nat /\ Size(l.recv_buf) \in Nat /\ d.space \in Nat
        BY AllIs DEF DiskType
    <3>2. Fit(l, d) => Size(l.recv_buf) <= d.space
        BY <3>1 DEF Fit
    <3> QED
        BY <2>2, <3>2
  <2> QED
      BY <1>3, <2>1, <2>3, <2>5, <2>7, <2>8 DEF WriteDone, w
<1> QED
    BY <1>1, <1>2, <1>3

\* What could not be written before is written as far as it fits.
LEMMA WriteOld ==
    ASSUME NEW l \in LogType, NEW d \in DiskType, l.fd = d.inode, d.exists,
           NEW m, m = [l EXCEPT !.unflushed = Drop(@, Fits(Len(@), d))],
           NEW e, e = Written(l, d, l.unflushed)
    PROVE  /\ Moved(l, d, m, e) /\ All(m, e) = All(l, d)
           /\ m.fd = e.inode /\ e.exists /\ m.recv_buf = l.recv_buf
           /\ m.open_errno = l.open_errno
           /\ Size(l.unflushed) <= d.space => m.unflushed = <<>>
<1> DEFINE x == Drop(l.unflushed, Fits(Len(l.unflushed), d))
<1>0. l.recv_buf \in Seq(Piece) /\ l.unflushed \in Seq(Piece)
    BY AllIs
<1>1. /\ Grows(d, e) /\ e.exists /\ x \in Seq(Piece)
      /\ Total(e.file, x, l.recv_buf) = Total(d.file, l.unflushed, l.recv_buf)
      /\ Size(l.unflushed) <= d.space => x = <<>>
    BY <1>0, Writes DEF WriteIs
<1>2. m = [l EXCEPT !.unflushed = x]
    BY DEF LogType
<1> HIDE DEF x
<1>3. /\ m \in LogType /\ m.unflushed = x /\ m.recv_buf = l.recv_buf /\ m.fd = l.fd
      /\ m.open_errno = l.open_errno /\ m.state = l.state /\ m.io = l.io
      /\ m.remote_closed = l.remote_closed
    BY <1>1, <1>2 DEF LogType
<1>4. All(m, e) = All(l, d)
    BY <1>1, <1>3 DEF All
<1>5. Begins(All(m, e), All(l, d))
    BY <1>4, AllIs, BeginsItself
<1>6. e.inode = d.inode
    BY <1>1 DEF Grows
<1> QED
    BY <1>1, <1>3, <1>4, <1>5, <1>6 DEF Moved

\* log_file_write: as far as it fits, in the order in which it was read.
LEMMA WriteFileMoves ==
    ASSUME NEW l \in LogType, NEW d \in DiskType, l.fd = d.inode, d.exists
    PROVE  WriteDone(l, d, LogFileWrite(l, d))
<1> DEFINE w == LogFileWrite(l, d)
           m == [l EXCEPT !.unflushed = Drop(@, Fits(Len(@), d))]
           e == Written(l, d, l.unflushed)
<1>1. CASE l.unflushed = <<>>
  <2>1. w = WriteNew(l, d)
      BY <1>1 DEF LogFileWrite
  <2> QED
      BY <1>1, <2>1, WriteNewMoves
<1>2. CASE l.unflushed # <<>> /\ WriteError(d) # "none"
  <2> DEFINE keep == WriteError(d) # "ENOSPC"
  <2>1. w = WriteFails(l, d, keep)
      BY <1>2 DEF LogFileWrite
  <2>2. keep \in BOOLEAN
      OBVIOUS
  <2> HIDE DEF w, keep
  <2>3. FailDone(l, d, keep, w)
      BY <2>1, <2>2, FailMoves
  <2>4. ~Fit(l, d)
      BY <1>2, SomeSpace
  <2> QED
      BY <2>3, <2>4 DEF WriteDone, FailDone, w
<1>3. /\ Moved(l, d, m, e) /\ All(m, e) = All(l, d)
      /\ m.fd = e.inode /\ e.exists /\ m.recv_buf = l.recv_buf
      /\ m.open_errno = l.open_errno
      /\ Size(l.unflushed) <= d.space => m.unflushed = <<>>
    BY WriteOld
<1>4. l.unflushed # <<>> /\ WriteError(d) = "none" =>
        w = IF m.unflushed # <<>> THEN WriteFails(m, e, TRUE) ELSE WriteNew(m, e)
    BY DEF LogFileWrite
<1> HIDE DEF w, m, e
<1>5. m \in LogType /\ e \in DiskType
    BY <1>3 DEF Moved, Grows
<1>6. Fit(l, d) => m.unflushed = <<>> /\ Fit(m, e)
  <2>1. Size(l.unflushed) \in Nat /\ Size(l.recv_buf) \in Nat /\ d.space \in Nat
      BY AllIs DEF DiskType
  <2>2. Fit(l, d) => Size(l.unflushed) <= d.space
      BY <2>1 DEF Fit
  <2> QED
      BY <1>3, <2>2, RoomStays
<1>7. CASE l.unflushed # <<>> /\ WriteError(d) = "none" /\ m.unflushed # <<>>
  <2>1. w = WriteFails(m, e, TRUE)
      BY <1>4, <1>7
  <2>2. FailDone(m, e, TRUE, w)
      BY <1>5, <2>1, FailMoves
  <2>3. /\ Moved(m, e, w.l, w.d) /\ w.ok = FALSE /\ All(w.l, w.d) = All(m, e)
        /\ w.l.recv_buf = <<>> /\ w.l.open_errno = m.open_errno
      BY <2>2 DEF FailDone
  <2>4. Moved(l, d, w.l, w.d)
      BY <1>3, <2>3, MovedOn
  <2> QED
      BY <1>3, <1>6, <1>7, <2>3, <2>4 DEF WriteDone, w
<1>8. CASE l.unflushed # <<>> /\ WriteError(d) = "none" /\ m.unflushed = <<>>
  <2>1. w = WriteNew(m, e)
      BY <1>4, <1>8
  <2>2. WriteDone(m, e, w)
      BY <1>3, <1>5, <1>8, <2>1, WriteNewMoves
  <2>3. Moved(l, d, w.l, w.d)
      BY <1>3, <2>2, MovedOn DEF WriteDone
  <2> QED
      BY <1>3, <1>6, <2>2, <2>3 DEF WriteDone, w
<1> QED
    BY <1>1, <1>2, <1>7, <1>8

\* What log_file_write without a buffer may do: what was just read stays.
FlushDone(l, d, w) ==
    /\ Moved(l, d, w.l, w.d) /\ All(w.l, w.d) = All(l, d)
    /\ w.ok \in BOOLEAN
    /\ w.l.open_errno = l.open_errno /\ w.l.recv_buf = l.recv_buf
    /\ Fit(l, d) => w.ok /\ w.l.unflushed = <<>>
    /\ \A v \in Seq(Piece) : Total(w.d.file, w.l.unflushed, v) = Total(d.file, l.unflushed, v)

\* log_file_write without a buffer, as log_flush calls it.
LEMMA FlushMoves ==
    ASSUME NEW l \in LogType, NEW d \in DiskType, l.fd = d.inode, d.exists
    PROVE  FlushDone(l, d, FlushOld(l, d))
<1> DEFINE m == [l EXCEPT !.recv_buf = <<>>]
           v == LogFileWrite(m, d)
           w == FlushOld(l, d)
<1>1. /\ Moved(l, d, m, d) /\ m.recv_buf = <<>> /\ m.unflushed = l.unflushed
      /\ m.open_errno = l.open_errno /\ m.fd = l.fd
    BY DropMoves
<1>2. m \in LogType
    BY <1>1 DEF Moved
<1>3. w = [v EXCEPT !.l.recv_buf = l.recv_buf]
    BY DEF FlushOld
<1> HIDE DEF m
<1>4. WriteDone(m, d, v)
    BY <1>1, <1>2, WriteFileMoves
<1>5. v = [ok |-> v.ok, l |-> v.l, d |-> v.d]
    BY DEF LogFileWrite, WriteFails, WriteNew
<1> HIDE DEF v, w
<1>6. w.ok = v.ok /\ w.d = v.d /\ w.l = [v.l EXCEPT !.recv_buf = l.recv_buf]
    BY <1>3, <1>5
<1>7. v.l \in LogType /\ v.d \in DiskType /\ v.l.recv_buf = <<>> /\ All(v.l, v.d) = All(m, d)
    BY <1>1, <1>4 DEF WriteDone, Moved, Grows
<1>8. l.recv_buf \in Seq(Piece) /\ l.unflushed \in Seq(Piece) /\ d.file \in Seq(Piece)
    BY AllIs
<1>9. /\ w.l \in LogType /\ w.l.recv_buf = l.recv_buf /\ w.l.unflushed = v.l.unflushed
      /\ w.l.open_errno = v.l.open_errno /\ w.l.state = v.l.state /\ w.l.io = v.l.io
      /\ w.l.remote_closed = v.l.remote_closed
    BY <1>6, <1>7, <1>8 DEF LogType
<1>13. \A x \in Seq(Piece) : Total(w.d.file, w.l.unflushed, x) = Total(d.file, l.unflushed, x)
  <2>1. Total(v.d.file, v.l.unflushed, <<>>) = Total(d.file, l.unflushed, <<>>)
      BY <1>1, <1>7 DEF All
  <2>2. v.d.file \in Seq(Piece) /\ v.l.unflushed \in Seq(Piece)
      BY <1>7 DEF DiskType, LogType
  <2>3. ASSUME NEW x \in Seq(Piece)
        PROVE  Total(v.d.file, v.l.unflushed, x) = Total(d.file, l.unflushed, x)
      BY <1>8, <2>1, <2>2, MoreRead
  <2> QED
      BY <1>6, <1>9, <2>3
<1>10. All(w.l, w.d) = All(l, d)
    BY <1>8, <1>9, <1>13 DEF All
<1>11. Moved(l, d, w.l, w.d)
  <2>1. Begins(All(w.l, w.d), All(l, d))
      BY <1>10, AllIs, BeginsItself
  <2>2. /\ Grows(d, v.d) /\ v.l.state = l.state /\ v.l.io = l.io
        /\ v.l.remote_closed = l.remote_closed
      BY <1>1, <1>4 DEF WriteDone, Moved
  <2> QED
      BY <1>6, <1>9, <2>1, <2>2 DEF Moved
<1>12. Fit(l, d) => Fit(m, d)
    BY <1>1, RoomStays
<1> QED
    BY <1>1, <1>4, <1>6, <1>9, <1>10, <1>11, <1>12, <1>13 DEF FlushDone, WriteDone, w
-----------------------------------------------------------------------------
(* Reading *)

\* What log_io_reader may do.
ReadDone(l, d, r) ==
    /\ Moved(l, d, r.l, r.d)
    /\ Told(r.l)
    /\ Room(l, d) /\ Waits(l) =>
         /\ All(r.l, r.d) = All(l, d) /\ r.l.recv_buf = <<>>
         /\ Room(r.l, r.d) /\ Waits(r.l)

\* log_io_reader opens the file and writes, or keeps or discards what was read.
LEMMA ReaderMoves ==
    ASSUME NEW l \in LogType, NEW d \in DiskType, Told(l)
    PROVE  ReadDone(l, d, LogIoReader(l, d))
<1> DEFINE o == LogFileOpen(l, d)
           r == LogIoReader(l, d)
<1>1. CASE l.recv_buf = <<>>
  <2>1. r.l = l /\ r.d = d
      BY <1>1 DEF LogIoReader
  <2>2. Moved(l, d, l, d)
      BY AllIs, BeginsItself, GrowsItself DEF Moved
  <2> QED
      BY <1>1, <2>1, <2>2 DEF ReadDone
<1>2. /\ Moved(l, d, o.l, o.d) /\ All(o.l, o.d) = All(l, d)
      /\ o.l \in LogType /\ o.d \in DiskType
    BY OpenMoves, Opens
<1>3. /\ o.l.recv_buf = l.recv_buf /\ o.l.unflushed = l.unflushed /\ o.l.open_errno # "none"
      /\ o.ok => o.l.fd = o.d.inode /\ o.d.exists
      /\ ~o.ok => o.d = d
      /\ d.mode = "read-only" /\ ~d.exists => ~o.ok /\ o.l.open_errno = "EROFS"
      /\ d.mode = "writeable" /\ d.space > 0 => o.ok
      /\ o.ok \in BOOLEAN
    BY Opens
<1>4. /\ l.recv_buf # <<>> /\ o.ok => r = LogFileWrite(o.l, o.d)
      /\ l.recv_buf # <<>> /\ ~o.ok =>
           /\ r.d = d
           /\ r.l = [o.l EXCEPT !.recv_buf = <<>>,
                                !.unflushed = IF o.l.open_errno # "ENOSPC"
                                              THEN @ \o l.recv_buf ELSE @]
    BY DEF LogIoReader
<1> HIDE DEF o, r
<1>5. CASE l.recv_buf # <<>> /\ o.ok
  <2>1. WriteDone(o.l, o.d, r)
      BY <1>2, <1>3, <1>4, <1>5, WriteFileMoves
  <2>2. Moved(l, d, r.l, r.d)
      BY <1>2, <2>1, MovedOn DEF WriteDone
  <2>3. Told(r.l)
      BY <1>3, <2>1 DEF WriteDone, Told
  <2>4. ASSUME Room(l, d), Waits(l)
        PROVE  /\ All(r.l, r.d) = All(l, d) /\ r.l.recv_buf = <<>>
               /\ Room(r.l, r.d) /\ Waits(r.l)
    <3>1. Fit(l, d)
        BY <1>3, <1>5, <2>4 DEF Room
    <3>2. Fit(o.l, o.d)
        BY <1>2, <3>1, RoomStays
    <3>3. Fit(r.l, r.d)
        BY <2>2, <3>1, RoomStays
    <3> QED
        BY <1>2, <2>1, <3>2, <3>3 DEF WriteDone, Room, Waits
  <2> QED
      BY <2>2, <2>3, <2>4 DEF ReadDone, r
<1>6. CASE l.recv_buf # <<>> /\ ~o.ok /\ o.l.open_errno # "ENOSPC"
  <2>1. r.d = d /\ r.l = [o.l EXCEPT !.recv_buf = <<>>, !.unflushed = @ \o o.l.recv_buf]
      BY <1>2, <1>3, <1>4, <1>6 DEF LogType
  <2>2. /\ Moved(o.l, d, r.l, d) /\ All(r.l, d) = All(o.l, d) /\ r.l.recv_buf = <<>>
        /\ r.l.open_errno = o.l.open_errno
    <3>1. IsKept(o.l, r.l)
        BY <2>1 DEF IsKept
    <3> QED
        BY <1>2, <3>1, KeepMoves
  <2>3. Moved(l, d, r.l, r.d)
      BY <1>2, <1>3, <1>6, <2>1, <2>2, MovedOn
  <2>4. Told(r.l)
      BY <1>3, <2>2 DEF Told
  <2>5. ASSUME Room(l, d), Waits(l)
        PROVE  /\ All(r.l, r.d) = All(l, d) /\ r.l.recv_buf = <<>>
               /\ Room(r.l, r.d) /\ Waits(r.l)
    <3>1. ~Fit(l, d)
        BY <1>3, <1>6, SomeSpace
    <3>2. d.mode = "read-only" /\ ~d.exists
        BY <2>5, <3>1 DEF Room
    <3> QED
        BY <1>2, <1>3, <1>6, <2>1, <2>2, <3>2 DEF Room, Waits
  <2> QED
      BY <2>3, <2>4, <2>5 DEF ReadDone, r
<1>7. CASE l.recv_buf # <<>> /\ ~o.ok /\ o.l.open_errno = "ENOSPC"
  <2>1. r.d = d /\ r.l = [o.l EXCEPT !.recv_buf = <<>>]
    <3>1. r.d = d /\ r.l = [o.l EXCEPT !.recv_buf = <<>>, !.unflushed = @]
        BY <1>4, <1>7
    <3> SUFFICES ASSUME NEW m \in LogType
                 PROVE  [m EXCEPT !.recv_buf = <<>>, !.unflushed = @]
                          = [m EXCEPT !.recv_buf = <<>>]
        BY <1>2, <3>1
    <3> QED
        BY DEF LogType
  <2>2. /\ Moved(o.l, d, r.l, d) /\ r.l.open_errno = o.l.open_errno
      BY <1>2, <2>1, DropMoves
  <2>3. Moved(l, d, r.l, r.d)
      BY <1>2, <1>3, <1>7, <2>1, <2>2, MovedOn
  <2>4. Told(r.l)
      BY <1>3, <2>2 DEF Told
  <2>5. ~Room(l, d)
    <3>1. ~Fit(l, d)
        BY <1>3, <1>7, SomeSpace
    <3> QED
        BY <1>3, <1>7, <3>1 DEF Room
  <2> QED
      BY <2>3, <2>4, <2>5 DEF ReadDone, r
<1> QED
    BY <1>1, <1>3, <1>5, <1>6, <1>7

\* The file comes first.
LEMMA FileBegins ==
    ASSUME NEW f \in Seq(Piece), NEW u \in Seq(Piece), NEW v \in Seq(Piece)
    PROVE  Begins(f, Total(f, u, v))
<1>1. Consists(Total(f, u, v), f, u, v)
    BY TotalIs
<1> QED
    BY <1>1 DEF Consists, Begins

\* The log with the output that is there to be read.
IsRead(l, data, p) == p = [l EXCEPT !.recv_buf = @ \o data]

\* nih_io puts what it reads behind what is in the buffer.
LEMMA ReadIs ==
    ASSUME NEW l \in LogType, NEW data \in Seq(Piece), NEW p, IsRead(l, data, p), Told(l)
    PROVE  /\ p \in LogType /\ Told(p)
           /\ p.recv_buf = l.recv_buf \o data /\ p.unflushed = l.unflushed
           /\ p.state = l.state /\ p.io = l.io /\ p.remote_closed = l.remote_closed
           /\ p.open_errno = l.open_errno /\ p.fd = l.fd
           /\ data = <<>> => p = l
<1>1. /\ p.recv_buf = l.recv_buf \o data /\ p.unflushed = l.unflushed
      /\ p.state = l.state /\ p.io = l.io /\ p.remote_closed = l.remote_closed
      /\ p.open_errno = l.open_errno /\ p.fd = l.fd
    BY DEF LogType, IsRead
<1>2. l.recv_buf \in Seq(Piece)
    BY DEF LogType
<1>3. l.recv_buf \o data \in Seq(Piece)
    BY <1>2, Two
<1>4. p \in LogType
  <2> SUFFICES ASSUME NEW x \in Seq(Piece), p = [l EXCEPT !.recv_buf = x]
               PROVE  p \in LogType
      BY <1>3 DEF IsRead
  <2> QED
      BY DEF LogType
<1>5. data = <<>> => p = l
  <2>1. l.recv_buf \o <<>> = l.recv_buf
      BY <1>2, ConcatEmptySeq
  <2>2. data = <<>> => p = [l EXCEPT !.recv_buf = l.recv_buf]
      BY <2>1 DEF IsRead
  <2>3. [l EXCEPT !.recv_buf = l.recv_buf] = l
      BY DEF LogType
  <2> QED
      BY <2>2, <2>3
<1>6. Told(p)
    BY <1>1 DEF Told
<1> QED
    BY <1>1, <1>4, <1>5, <1>6

\* What log_read_watch may do to a log p that has read, and the disk.
WatchDone(p, d, r) ==
    /\ r.l \in LogType /\ Grows(d, r.d)
    /\ Begins(All(r.l, r.d), All(p, d))
    /\ r.l.state = p.state /\ r.l.io = p.io /\ (p.remote_closed => r.l.remote_closed)
    /\ Told(r.l)
    /\ Room(p, d) /\ Waits(p) =>
         /\ All(r.l, r.d) = All(p, d) /\ r.l.recv_buf = <<>>
         /\ Room(r.l, r.d) /\ Waits(r.l)
    /\ p.recv_buf = <<>> => r.d = d

\* log_io_reader called twice, as in log_read_watch.
LEMMA ReadOn ==
    ASSUME NEW l \in LogType, NEW d \in DiskType, NEW r, NEW s,
           ReadDone(l, d, r), ReadDone(r.l, r.d, s)
    PROVE  ReadDone(l, d, s)
<1>1. Moved(l, d, r.l, r.d) /\ Moved(r.l, r.d, s.l, s.d)
    BY DEF ReadDone
<1>2. Moved(l, d, s.l, s.d)
  <2> SUFFICES ASSUME NEW m, NEW e, NEW n, NEW f, Moved(l, d, m, e), Moved(m, e, n, f)
               PROVE  Moved(l, d, n, f)
      BY <1>1
  <2> QED
      BY MovedOn
<1> QED
    BY <1>2 DEF ReadDone

\* log_read_watch reads all there is and hands it to log_io_reader.
LEMMA WatchMoves ==
    ASSUME NEW l \in LogType, NEW d \in DiskType, Told(l), NEW pty \in PtyType, l.io,
           NEW p, IsRead(l, pty.data, p)
    PROVE  WatchDone(p, d, LogReadWatch(l, d, pty))
<1> DEFINE first  == IF pty.data = <<>> THEN [ok |-> TRUE, l |-> l, d |-> d]
                     ELSE LogIoReader([l EXCEPT !.recv_buf = @ \o pty.data], d)
           second == LogIoReader(first.l, first.d)
           r == LogReadWatch(l, d, pty)
<1>1. r = [d |-> second.d,
           l |-> [second.l EXCEPT !.fd = NoFd,
                                  !.remote_closed = @ \/ pty.writer \in {"none", "gone"}]]
    BY DEF LogReadWatch
<1>2. /\ p \in LogType /\ Told(p) /\ (pty.data = <<>> => p = l)
  <2>1. pty.data \in Seq(Piece)
      BY DEF PtyType
  <2> QED
      BY <2>1, ReadIs
<1>3. first = IF pty.data = <<>> THEN [ok |-> TRUE, l |-> l, d |-> d] ELSE LogIoReader(p, d)
    BY DEF IsRead
<1>11. p.recv_buf = <<>> => first.l = p /\ first.d = d
    BY <1>2, <1>3 DEF LogIoReader
<1> HIDE DEF first
<1>12. p.recv_buf = <<>> => second.l = p /\ second.d = d
    BY <1>11 DEF LogIoReader
<1>4. ReadDone(p, d, first) \/ (first.l = p /\ first.d = d)
    BY <1>2, <1>3, ReaderMoves
<1>5. first.l \in LogType /\ first.d \in DiskType /\ Told(first.l)
    BY <1>2, <1>4 DEF ReadDone, Moved, Grows
<1>6. ReadDone(first.l, first.d, second)
    BY <1>5, ReaderMoves
<1> HIDE DEF second, r
<1>7. ReadDone(p, d, second)
    BY <1>2, <1>4, <1>6, ReadOn
<1>8. /\ second.l \in LogType /\ Grows(d, second.d)
      /\ Begins(All(second.l, second.d), All(p, d))
      /\ second.l.state = p.state /\ second.l.io = p.io
      /\ second.l.remote_closed = p.remote_closed
      /\ Told(second.l)
    BY <1>7 DEF ReadDone, Moved
<1>9. /\ r.d = second.d /\ r.l \in LogType
      /\ r.l.state = second.l.state /\ r.l.io = second.l.io
      /\ (second.l.remote_closed => r.l.remote_closed)
      /\ r.l.fd = NoFd /\ r.l.unflushed = second.l.unflushed
      /\ r.l.recv_buf = second.l.recv_buf /\ r.l.open_errno = second.l.open_errno
    BY <1>1, <1>8 DEF LogType, NoFd
<1>10. /\ All(r.l, r.d) = All(second.l, second.d) /\ Told(r.l)
       /\ (Room(second.l, second.d) => Room(r.l, r.d))
       /\ (Waits(second.l) => Waits(r.l))
    BY <1>8, <1>9 DEF All, Told, Room, Fit, Waits
<1> QED
    BY <1>7, <1>8, <1>9, <1>10, <1>12 DEF WatchDone, ReadDone, r

\* What is left to do when a log is freed.
Rest(l, d, pty) == IF l.io /\ ~l.remote_closed THEN LogReadWatch(l, d, pty).d ELSE d

\* What freeing a log may do to the disk.
DestroyDone(l, d, e) ==
    /\ Grows(d, e) /\ Begins(e.file, All(l, d))
    /\ l.recv_buf = <<>> /\ (l.unflushed = <<>> \/ Fit(l, d)) => e.file = All(l, d)

\* A log with nothing that waits is its file.
LEMMA AllEmpty ==
    ASSUME NEW l \in LogType, NEW d \in DiskType, l.unflushed = <<>>, l.recv_buf = <<>>
    PROVE  All(l, d) = d.file
<1>1. d.file \in Seq(Piece)
    BY DEF DiskType
<1>2. d.file \o <<>> = d.file
    BY <1>1, ConcatEmptySeq
<1> QED
    BY <1>2 DEF All, Total, Join

\* log_flush reads what is left, and no more comes from the pty.
LEMMA RestMoves ==
    ASSUME NEW l \in LogType, NEW d \in DiskType, Told(l), NEW pty \in PtyType,
           pty.data = <<>>
    PROVE  /\ Grows(d, Rest(l, d, pty)) /\ Begins(Rest(l, d, pty).file, All(l, d))
           /\ l.recv_buf = <<>> => Rest(l, d, pty) = d
<1>1. CASE l.io /\ ~l.remote_closed
  <2> DEFINE r == LogReadWatch(l, d, pty)
  <2>1. PICK p : p = [l EXCEPT !.recv_buf = @ \o pty.data]
      OBVIOUS
  <2>2. IsRead(l, pty.data, p)
      BY <2>1 DEF IsRead
  <2>3. WatchDone(p, d, r)
      BY <1>1, <2>2, WatchMoves
  <2>4. p = l
    <3>1. <<>> \in Seq(Piece)
        OBVIOUS
    <3> QED
        BY <2>2, <3>1, ReadIs
  <2>5. Rest(l, d, pty) = r.d
      BY <1>1 DEF Rest
  <2> HIDE DEF r
  <2>6. Begins(r.d.file, All(l, d))
    <3>1. r.l \in LogType /\ r.d \in DiskType /\ Begins(All(r.l, r.d), All(l, d))
        BY <2>3, <2>4 DEF WatchDone, Grows
    <3>2. /\ All(r.l, r.d) \in Seq(Piece) /\ All(l, d) \in Seq(Piece)
          /\ r.d.file \in Seq(Piece) /\ r.l.unflushed \in Seq(Piece) /\ r.l.recv_buf \in Seq(Piece)
        BY <3>1, AllIs
    <3>3. Begins(r.d.file, All(r.l, r.d))
        BY <3>2, FileBegins DEF All
    <3> QED
        BY <3>1, <3>2, <3>3, BeginsTransitive
  <2> QED
      BY <2>3, <2>4, <2>5, <2>6 DEF WatchDone
<1>2. CASE ~(l.io /\ ~l.remote_closed)
  <2>1. Rest(l, d, pty) = d
      BY <1>2 DEF Rest
  <2>2. Begins(d.file, All(l, d))
      BY AllIs, FileBegins DEF All
  <2> QED
      BY <2>1, <2>2, GrowsItself
<1> QED
    BY <1>1, <1>2

\* log_destroy: log_flush writes what was kept, and the log is freed.
LEMMA DestroyMoves ==
    ASSUME NEW l \in LogType, NEW d \in DiskType, Told(l), NEW pty \in PtyType,
           pty.data = <<>>
    PROVE  DestroyDone(l, d, LogDestroy(l, d, pty))
<1> DEFINE o == LogFileOpen(l, d)
           w == FlushOld(o.l, o.d)
           e == LogDestroy(l, d, pty)
<1>1. e = IF l.unflushed = <<>> THEN Rest(l, d, pty)
          ELSE IF ~o.ok THEN d
          ELSE IF ~w.ok THEN w.d
          ELSE Rest(w.l, w.d, pty)
    BY DEF LogDestroy, Rest
<1>2. /\ Moved(l, d, o.l, o.d) /\ All(o.l, o.d) = All(l, d)
      /\ o.l \in LogType /\ o.d \in DiskType
    BY OpenMoves, Opens
<1>3. /\ o.l.recv_buf = l.recv_buf /\ o.l.unflushed = l.unflushed /\ o.l.open_errno # "none"
      /\ o.ok => o.l.fd = o.d.inode /\ o.d.exists
      /\ d.mode = "writeable" /\ d.space > 0 => o.ok
      /\ o.ok \in BOOLEAN
    BY Opens
<1>4. o.ok => FlushDone(o.l, o.d, w)
    BY <1>2, <1>3, FlushMoves
<1> HIDE DEF o, w, e
<1>10. All(l, d) \in Seq(Piece) /\ d.file \in Seq(Piece)
    BY AllIs
<1>5. CASE l.unflushed = <<>>
  <2>1. e = Rest(l, d, pty)
      BY <1>1, <1>5
  <2>2. l.recv_buf = <<>> => e = d /\ d.file = All(l, d)
      BY <1>5, <2>1, RestMoves, AllEmpty
  <2>3. Grows(d, e) /\ Begins(e.file, All(l, d))
      BY <2>1, RestMoves
  <2> QED
      BY <2>2, <2>3 DEF DestroyDone, e
<1>6. CASE l.unflushed # <<>> /\ ~o.ok
  <2>1. e = d
      BY <1>1, <1>6
  <2>2. ~Fit(l, d)
      BY <1>3, <1>6, SomeSpace
  <2>3. Begins(d.file, All(l, d))
      BY AllIs, FileBegins DEF All
  <2> QED
      BY <1>6, <2>1, <2>2, <2>3, GrowsItself DEF DestroyDone, e
<1>7. ASSUME o.ok
      PROVE  /\ w.l \in LogType /\ w.d \in DiskType /\ Told(w.l) /\ Grows(d, w.d)
             /\ All(w.l, w.d) = All(l, d) /\ w.l.recv_buf = l.recv_buf /\ w.ok \in BOOLEAN
             /\ (Fit(l, d) => w.ok /\ w.l.unflushed = <<>>)
  <2>1. FlushDone(o.l, o.d, w)
      BY <1>4, <1>7
  <2>2. w.l \in LogType /\ w.d \in DiskType
      BY <2>1 DEF FlushDone, Moved, Grows
  <2>3. Moved(l, d, w.l, w.d)
      BY <1>2, <2>1, MovedOn DEF FlushDone
  <2>4. Told(w.l)
      BY <1>3, <2>1 DEF FlushDone, Told
  <2>5. Fit(l, d) => Fit(o.l, o.d)
      BY <1>2, RoomStays
  <2> QED
      BY <1>2, <1>3, <2>1, <2>2, <2>3, <2>4, <2>5 DEF FlushDone, Moved
<1>8. CASE l.unflushed # <<>> /\ o.ok /\ ~w.ok
  <2>1. e = w.d
      BY <1>1, <1>8
  <2>2. Begins(w.d.file, All(w.l, w.d))
      BY <1>7, <1>8, AllIs, FileBegins DEF All
  <2> QED
      BY <1>7, <1>8, <2>1, <2>2 DEF DestroyDone, e
<1>9. CASE l.unflushed # <<>> /\ o.ok /\ w.ok
  <2>1. e = Rest(w.l, w.d, pty)
      BY <1>1, <1>9
  <2>2. /\ Grows(w.d, e) /\ Begins(e.file, All(w.l, w.d))
        /\ w.l.recv_buf = <<>> => e = w.d
      BY <1>7, <1>9, <2>1, RestMoves
  <2>3. Grows(d, e)
      BY <1>7, <1>9, <2>2, GrowsOn
  <2>4. l.recv_buf = <<>> /\ Fit(l, d) => e.file = All(l, d)
      BY <1>7, <1>9, <2>2, AllEmpty
  <2> QED
      BY <1>7, <1>9, <2>2, <2>3, <2>4 DEF DestroyDone, e
<1> QED
    BY <1>3, <1>5, <1>6, <1>8, <1>9, <1>7
-----------------------------------------------------------------------------
(* The whole log of a process *)

\* What init has read, or will.
Arriving(l, pty) == l.recv_buf \o (IF l.io THEN pty.data ELSE <<>>)

\* The log from the last rotation on, with what is on its way there.
Coming(l, pty, d) == Total(d.file, l.unflushed, Arriving(l, pty))

Whole(l, pty, d) ==
    d.archive \o d.file \o l.unflushed \o l.recv_buf \o (IF l.io THEN pty.data ELSE <<>>)

\* What has reached the disk.
Base(d) == Size(d.archive) + Size(d.file)

\* What init has read of a process, or will as long as it has the NihIo.
LEMMA ArrivingIs ==
    ASSUME NEW l \in LogType, NEW pty \in PtyType, NEW d \in DiskType
    PROVE  /\ Arriving(l, pty) \in Seq(Piece) /\ Coming(l, pty, d) \in Seq(Piece)
           /\ l.unflushed \o Arriving(l, pty) \in Seq(Piece)
           /\ l.unflushed \in Seq(Piece) /\ d.file \in Seq(Piece) /\ d.archive \in Seq(Piece)
           /\ l.recv_buf \in Seq(Piece) /\ pty.data \in Seq(Piece)
           /\ (l.io => Arriving(l, pty) = l.recv_buf \o pty.data)
           /\ (~l.io \/ pty.data = <<>> => Arriving(l, pty) = l.recv_buf)
<1>1. /\ l.unflushed \in Seq(Piece) /\ d.file \in Seq(Piece) /\ d.archive \in Seq(Piece)
      /\ l.recv_buf \in Seq(Piece) /\ pty.data \in Seq(Piece)
    BY DEF LogType, DiskType, PtyType
<1>2. <<>> \in Seq(Piece) /\ l.recv_buf \o <<>> = l.recv_buf
    BY <1>1, ConcatEmptySeq
<1>3. l.io => Arriving(l, pty) = l.recv_buf \o pty.data
    BY DEF Arriving
<1>4. ~l.io \/ pty.data = <<>> => Arriving(l, pty) = l.recv_buf
    BY <1>2 DEF Arriving
<1>5. l.recv_buf \o pty.data \in Seq(Piece)
    BY <1>1, Two
<1>6. Arriving(l, pty) \in Seq(Piece)
    BY <1>1, <1>3, <1>4, <1>5
<1>7. l.unflushed \o Arriving(l, pty) \in Seq(Piece)
    BY <1>1, <1>6, Two
<1>8. Coming(l, pty, d) \in Seq(Piece)
    BY <1>1, <1>6, TotalSize DEF Coming
<1> QED
    BY <1>1, <1>3, <1>4, <1>6, <1>7, <1>8

\* The rotated parts, the log, and what waits.
LEMMA WholeIs ==
    ASSUME NEW l \in LogType, NEW pty \in PtyType, NEW d \in DiskType
    PROVE  /\ Consists(Whole(l, pty, d), d.archive, d.file, l.unflushed \o Arriving(l, pty))
           /\ Follows(Whole(l, pty, d), d.archive, Coming(l, pty, d))
<1> DEFINE w == IF l.io THEN pty.data ELSE <<>>
<1>1. /\ l.unflushed \in Seq(Piece) /\ d.file \in Seq(Piece) /\ d.archive \in Seq(Piece)
      /\ l.recv_buf \in Seq(Piece) /\ pty.data \in Seq(Piece) /\ Arriving(l, pty) \in Seq(Piece)
    BY ArrivingIs
<1>2. w \in Seq(Piece)
    BY <1>1
<1>3. /\ Whole(l, pty, d) = Logs(d.archive, d.file, l.unflushed, l.recv_buf, w)
      /\ Arriving(l, pty) = l.recv_buf \o w
    BY DEF Whole, Logs, Join, Arriving
<1> HIDE DEF w
<1>4. /\ Follows(Logs(d.archive, d.file, l.unflushed, l.recv_buf, w), d.archive,
                 Total(d.file, l.unflushed, Join(l.recv_buf, w)))
      /\ Consists(Logs(d.archive, d.file, l.unflushed, l.recv_buf, w), d.archive, d.file,
                  Join(l.unflushed, Join(l.recv_buf, w)))
    BY <1>1, <1>2, LogsAre
<1>5. Join(l.recv_buf, w) = Arriving(l, pty)
    BY <1>3 DEF Join
<1>6. Join(l.unflushed, Arriving(l, pty)) = l.unflushed \o Arriving(l, pty)
    BY DEF Join
<1> QED
    BY <1>3, <1>4, <1>5, <1>6, Zenon DEF Coming

\* What has reached the disk has a size.
LEMMA BaseIs ==
    ASSUME NEW d \in DiskType
    PROVE  Base(d) \in Nat /\ Size(d.archive) \in Nat /\ Size(d.file) \in Nat
<1>1. d.archive \in Seq(Piece) /\ d.file \in Seq(Piece)
    BY DEF DiskType
<1> QED
    BY <1>1, SizeIs DEF Base

\* The whole log of a process is as long as what has reached the disk and what waits.
LEMMA WholeSize ==
    ASSUME NEW l \in LogType, NEW pty \in PtyType, NEW d \in DiskType
    PROVE  /\ Whole(l, pty, d) \in Seq(Piece)
           /\ Size(Whole(l, pty, d)) = Base(d) + Size(l.unflushed) + Size(Arriving(l, pty))
           /\ Size(l.unflushed) \in Nat /\ Size(Arriving(l, pty)) \in Nat
<1>1. Follows(Whole(l, pty, d), d.archive, Coming(l, pty, d))
    BY WholeIs
<1>2. Size(Whole(l, pty, d)) = Size(d.archive) + Size(Coming(l, pty, d))
    BY <1>1 DEF Follows, Size
<1>3. Size(Coming(l, pty, d)) = Size(d.file) + Size(l.unflushed) + Size(Arriving(l, pty))
    BY ArrivingIs, TotalSize DEF Coming
<1>4. Size(l.unflushed) \in Nat /\ Size(Arriving(l, pty)) \in Nat
    BY ArrivingIs, SizeIs
<1>5. Whole(l, pty, d) \in Seq(Piece)
    BY <1>1 DEF Follows
<1>6. Base(d) = Size(d.archive) + Size(d.file) /\ Size(d.archive) \in Nat /\ Size(d.file) \in Nat
    BY BaseIs DEF Base
<1> QED
    BY <1>2, <1>3, <1>4, <1>5, <1>6

\* A write moves the end of what has reached the disk.
LEMMA BaseGrows ==
    ASSUME NEW d \in DiskType, NEW e, Grows(d, e)
    PROVE  /\ Base(d) <= Base(e) /\ e.space + Base(e) = d.space + Base(d)
           /\ e.space \in Nat /\ d.space \in Nat
<1>1. e \in DiskType /\ e.archive = d.archive /\ Size(d.file) <= Size(e.file)
      /\ e.space + Size(e.file) = d.space + Size(d.file)
    BY DEF Grows, Begins, Size
<1>2. /\ Size(d.archive) \in Nat /\ Size(d.file) \in Nat
      /\ Size(e.archive) \in Nat /\ Size(e.file) \in Nat
    BY <1>1, BaseIs
<1>3. e.space \in Nat /\ d.space \in Nat
    BY <1>1 DEF DiskType
<1> QED
    BY <1>1, <1>2, <1>3 DEF Base

\* A beginning of a good sequence is good.
LEMMA BeginGood ==
    ASSUME NEW s \in Seq(Piece), NEW t \in Seq(Piece), NEW b \in Nat, NEW c \in Nat, NEW r, NEW m,
           Good(s, b, r, m), Begins(t, s), b <= c
    PROVE  Good(t, c, r, m)
<1>1. Len(t) <= Len(s) /\ \A i \in 1..Len(t) : i \in 1..Len(s) /\ t[i] = s[i]
    BY DEF Begins
<1>2. \A i \in 1..Len(t) : t[i].number \in 1..m[t[i].run]
    BY <1>1 DEF Good
<1>3. \A i \in 1..Len(t) : i > c => t[i].run = r
    BY <1>1 DEF Good
<1>4. ASSUME NEW i \in 1..Len(t), NEW j \in 1..Len(t), i < j, t[i].run = r, t[j].run = r
      PROVE  t[i].number < t[j].number
    BY <1>1, <1>4 DEF Good
<1> QED
    BY <1>2, <1>3, <1>4 DEF Good

\* t is s with n pieces of process p after the first b.
Inserted(s, t, b, n, p, m) ==
    /\ Len(t) = Len(s) + n
    /\ \A i \in 1..b : t[i] = s[i]
    /\ \A i \in (b + 1)..(b + n) : t[i].run = p /\ t[i].number \in 1..m[p]
    /\ \A i \in (b + 1)..Len(s) : t[i + n] = s[i]

\* That does no harm to the order of another process.
LEMMA InsertGood ==
    ASSUME NEW s \in Seq(Piece), NEW t \in Seq(Piece), NEW b \in Nat, NEW n \in Nat, NEW p, NEW r,
           NEW m, b <= Len(s), Inserted(s, t, b, n, p, m), p # r, Good(s, b, r, m)
    PROVE  /\ Good(t, b + n, r, m)
           /\ \A k \in Nat : Complete(s, r, k) => Complete(t, r, k)
<1>1. /\ Len(t) = Len(s) + n
      /\ \A i \in 1..b : t[i] = s[i]
      /\ \A i \in (b + 1)..(b + n) : t[i].run = p /\ t[i].number \in 1..m[p]
      /\ \A i \in (b + 1)..Len(s) : t[i + n] = s[i]
    BY DEF Inserted
<1>2. Len(s) \in Nat
    OBVIOUS
<1>3. \A i \in 1..Len(t) : i > b + n =>
        i - n \in (b + 1)..Len(s) /\ i - n \in 1..Len(s) /\ t[i] = s[i - n]
  <2> TAKE i \in 1..Len(t)
  <2> HAVE i > b + n
  <2>1. i - n \in (b + 1)..Len(s) /\ (i - n) + n = i /\ i - n \in 1..Len(s)
      BY <1>1, <1>2
  <2>2. t[(i - n) + n] = s[i - n]
      BY <1>1, <2>1
  <2> QED
      BY <2>1, <2>2
<1>4. ASSUME NEW i \in 1..Len(t) PROVE t[i].number \in 1..m[t[i].run]
  <2>1. CASE i <= b
    <3>1. i \in 1..b /\ i \in 1..Len(s)
        BY <2>1
    <3> QED
        BY <1>1, <3>1 DEF Good
  <2>2. CASE i > b /\ i <= b + n
      BY <1>1, <2>2
  <2>3. CASE i > b + n
      BY <1>3, <2>3 DEF Good
  <2> QED
      BY <2>1, <2>2, <2>3
<1>5. ASSUME NEW i \in 1..Len(t), i > b + n PROVE t[i].run = r
  <2>1. i - n \in 1..Len(s) /\ i - n > b /\ t[i] = s[i - n]
      BY <1>3, <1>5
  <2> QED
      BY <2>1 DEF Good
<1>6. ASSUME NEW i \in 1..Len(t), NEW j \in 1..Len(t), i < j, t[i].run = r, t[j].run = r
      PROVE  t[i].number < t[j].number
  <2>1. ~(i > b /\ i <= b + n) /\ ~(j > b /\ j <= b + n)
      BY <1>1, <1>6
  <2>2. CASE j <= b
    <3>1. i \in 1..b /\ j \in 1..b /\ i \in 1..Len(s) /\ j \in 1..Len(s)
        BY <1>6, <2>2
    <3>2. t[i] = s[i] /\ t[j] = s[j]
        BY <1>1, <3>1
    <3> QED
        BY <1>6, <3>1, <3>2 DEF Good
  <2>3. CASE i <= b /\ j > b + n
    <3>1. i \in 1..b /\ i \in 1..Len(s) /\ j - n \in 1..Len(s) /\ i < j - n
        BY <1>3, <2>3
    <3>2. t[i] = s[i] /\ t[j] = s[j - n]
        BY <1>1, <1>3, <2>3, <3>1
    <3> QED
        BY <1>6, <3>1, <3>2 DEF Good
  <2>4. CASE i > b + n
    <3>1. i - n \in 1..Len(s) /\ j - n \in 1..Len(s) /\ i - n < j - n
          /\ t[i] = s[i - n] /\ t[j] = s[j - n]
        BY <1>3, <1>6, <2>4
    <3> QED
        BY <1>6, <3>1 DEF Good
  <2> QED
      BY <1>6, <2>1, <2>2, <2>3, <2>4
<1>7. ASSUME NEW k \in Nat, Complete(s, r, k) PROVE Complete(t, r, k)
  <2>1. SUFFICES ASSUME NEW x \in 1..k
                 PROVE  \E i \in 1..Len(t) : t[i] = [run |-> r, number |-> x]
      BY DEF Complete
  <2>2. PICK i \in 1..Len(s) : s[i] = [run |-> r, number |-> x]
      BY <1>7 DEF Complete
  <2>3. CASE i <= b
    <3>1. i \in 1..b /\ i \in 1..Len(t)
        BY <1>1, <2>3
    <3> QED
        BY <1>1, <2>2, <3>1
  <2>4. CASE i > b
    <3>1. i \in (b + 1)..Len(s) /\ i + n \in 1..Len(t)
        BY <1>1, <2>4
    <3> QED
        BY <1>1, <2>2, <3>1
  <2> QED
      BY <2>3, <2>4
<1> QED
    BY <1>4, <1>5, <1>6, <1>7 DEF Good

\* As what waits for a process loses its end or nothing, so does its whole log.
LEMMA WholeBegins ==
    ASSUME NEW l \in LogType, NEW pty \in PtyType, NEW d \in DiskType,
           NEW m \in LogType, NEW qty \in PtyType, NEW e, Grows(d, e),
           Begins(Coming(m, qty, e), Coming(l, pty, d))
    PROVE  Begins(Whole(m, qty, e), Whole(l, pty, d))
<1>1. e \in DiskType /\ e.archive = d.archive
    BY DEF Grows
<1>2. Follows(Whole(l, pty, d), d.archive, Coming(l, pty, d))
    BY WholeIs
<1>3. Follows(Whole(m, qty, e), d.archive, Coming(m, qty, e))
    BY <1>1, WholeIs
<1> QED
    BY <1>2, <1>3, FollowBegins

\* When nothing that waits is lost, nothing of the whole log is.
LEMMA WholeSame ==
    ASSUME NEW l \in LogType, NEW pty \in PtyType, NEW d \in DiskType,
           NEW m \in LogType, NEW qty \in PtyType, NEW e, Grows(d, e),
           Coming(m, qty, e) = Coming(l, pty, d)
    PROVE  Whole(m, qty, e) = Whole(l, pty, d)
<1>1. e \in DiskType
    BY DEF Grows
<1>2. Coming(l, pty, d) \in Seq(Piece)
    BY ArrivingIs
<1>3. Begins(Coming(m, qty, e), Coming(l, pty, d))
    BY <1>2, BeginsItself
<1>4. Begins(Coming(l, pty, d), Coming(m, qty, e))
    BY <1>2, BeginsItself
<1>5. /\ Follows(Whole(l, pty, d), d.archive, Coming(l, pty, d))
      /\ Follows(Whole(m, qty, e), e.archive, Coming(m, qty, e))
    BY <1>1, WholeIs
<1>6. Begins(Whole(m, qty, e), Whole(l, pty, d))
    BY <1>3, WholeBegins
<1>7. e.archive = d.archive
    BY DEF Grows
<1>8. Begins(Whole(l, pty, d), Whole(m, qty, e))
    BY <1>4, <1>5, <1>7, FollowBegins
<1>9. Whole(l, pty, d) \in Seq(Piece) /\ Whole(m, qty, e) \in Seq(Piece)
    BY <1>1, WholeSize
<1> QED
    BY <1>6, <1>8, <1>9, BeginsEqual

\* What one process writes to the file comes into the log of another behind all that
\* has reached the disk before.
LEMMA WriteInserts ==
    ASSUME NEW l \in LogType, NEW pty \in PtyType, NEW d \in DiskType, NEW e, Grows(d, e),
           NEW m \in LogType, NEW qty \in PtyType, NEW p, NEW mm,
           Good(Whole(m, qty, e), Base(d), p, mm)
    PROVE  Inserted(Whole(l, pty, d), Whole(l, pty, e), Base(d), Base(e) - Base(d), p, mm)
<1> DEFINE s == Whole(l, pty, d)
           t == Whole(l, pty, e)
           x == Whole(m, qty, e)
           y == l.unflushed \o Arriving(l, pty)
           z == m.unflushed \o Arriving(m, qty)
<1>1. e \in DiskType /\ e.archive = d.archive /\ Begins(d.file, e.file)
    BY DEF Grows
<1>2. /\ Consists(s, d.archive, d.file, y)
      /\ Consists(t, d.archive, e.file, y)
      /\ Consists(x, d.archive, e.file, z)
    BY <1>1, WholeIs
<1>3. Base(d) = Len(d.archive) + Len(d.file)
    BY DEF Base, Size
<1>4. Base(e) = Len(d.archive) + Len(e.file)
    BY <1>1 DEF Base, Size
<1> HIDE DEF s, t, x, y, z
<1>5. Good(x, Base(d), p, mm)
    BY DEF x
<1> SUFFICES ASSUME NEW a, NEW f, NEW g, NEW b, NEW c,
                    Consists(s, a, f, y), Consists(t, a, g, y), Consists(x, a, g, z),
                    Begins(f, g), b = Len(a) + Len(f), c = Len(a) + Len(g), Good(x, b, p, mm)
             PROVE  Inserted(s, t, b, c - b, p, mm)
    BY <1>1, <1>2, <1>3, <1>4, <1>5 DEF s, t
<1>6. /\ Len(a) \in Nat /\ Len(f) \in Nat /\ Len(g) \in Nat /\ Len(y) \in Nat /\ Len(z) \in Nat
      /\ Len(f) <= Len(g)
      /\ Len(s) = b + Len(y) /\ Len(t) = c + Len(y) /\ Len(x) = c + Len(z)
    BY DEF Consists, Begins
<1>7. ASSUME NEW i \in 1..b PROVE t[i] = s[i]
  <2>1. CASE i <= Len(a)
    <3>1. i \in 1..Len(a)
        BY <1>6, <2>1
    <3> QED
        BY <3>1 DEF Consists
  <2>2. CASE ~(i <= Len(a))
    <3> DEFINE j == i - Len(a)
    <3>1. i = Len(a) + j /\ j \in 1..Len(f) /\ j \in 1..Len(g)
        BY <1>6, <2>2
    <3>2. s[Len(a) + j] = f[j]
        BY <3>1 DEF Consists
    <3>3. t[Len(a) + j] = g[j]
        BY <3>1 DEF Consists
    <3>4. f[j] = g[j]
        BY <3>1 DEF Begins
    <3> QED
        BY <3>1, <3>2, <3>3, <3>4
  <2> QED
      BY <2>1, <2>2
<1>8. ASSUME NEW i \in (b + 1)..(b + (c - b)) PROVE t[i].run = p /\ t[i].number \in 1..mm[p]
  <2> DEFINE j == i - Len(a)
  <2>1. i = Len(a) + j /\ j \in 1..Len(g) /\ i \in 1..Len(x) /\ i > b
      BY <1>6
  <2>2. t[Len(a) + j] = g[j]
      BY <2>1 DEF Consists
  <2>3. x[Len(a) + j] = g[j]
      BY <2>1 DEF Consists
  <2>4. t[i] = x[i]
      BY <2>1, <2>2, <2>3
  <2>5. x[i].run = p /\ x[i].number \in 1..mm[x[i].run]
      BY <2>1 DEF Good
  <2> QED
      BY <2>4, <2>5
<1>9. ASSUME NEW i \in (b + 1)..Len(s) PROVE t[i + (c - b)] = s[i]
  <2> DEFINE j == i - Len(a) - Len(f)
  <2>1. /\ j \in 1..Len(y)
        /\ i = Len(a) + Len(f) + j /\ i + (c - b) = Len(a) + Len(g) + j
      BY <1>6
  <2>2. s[Len(a) + Len(f) + j] = y[j]
      BY <2>1 DEF Consists
  <2>3. t[Len(a) + Len(g) + j] = y[j]
      BY <2>1 DEF Consists
  <2> QED
      BY <2>1, <2>2, <2>3
<1>10. Len(t) = Len(s) + (c - b)
    BY <1>6
<1> QED
    BY <1>7, <1>8, <1>9, <1>10 DEF Inserted
-----------------------------------------------------------------------------
(* A handler for one log *)

\* A step that is about process r: no other log changes but by what is written to
\* the file, and what waits for r may only lose its end.
Changed(r) ==
    /\ Typed'
    /\ \A p \in Processes : p # r => logs'[p] = logs[p] /\ ptys'[p] = ptys[p]
    /\ made' = made
    /\ Grows(disk, disk')
    /\ Begins(Coming(logs'[r], ptys'[r], disk'), Coming(logs[r], ptys[r], disk))

\* Nothing is lost in it.
Kept(r) == Coming(logs'[r], ptys'[r], disk') = Coming(logs[r], ptys[r], disk)

\* Logged, as a function of the log, the pty and the disk.
LEMMA LoggedIs ==
    ASSUME NEW r \in Processes
    PROVE  Logged(r) = Whole(logs[r], ptys[r], disk) /\ Logged(r)' = Whole(logs'[r], ptys'[r], disk')
    BY DEF Logged, Whole

\* The types of the log and the pty of one process.
LEMMA TypedIs ==
    ASSUME Typed, NEW r \in Processes
    PROVE  logs[r] \in LogType /\ ptys[r] \in PtyType /\ disk \in DiskType
           /\ made[r] \in 0..MaxOutput
    BY DEF Typed

\* A handler for one log leaves all logs of the job in order, the others included.
LEMMA OrderKept ==
    ASSUME Typed, Ordered, NEW r \in Processes, Changed(r)
    PROVE  Ordered'
<1>1. /\ logs[r] \in LogType /\ ptys[r] \in PtyType /\ disk \in DiskType
    BY TypedIs
<1>2. logs'[r] \in LogType /\ ptys'[r] \in PtyType /\ disk' \in DiskType
    BY DEF Changed, Typed
<1>3. Base(disk) \in Nat /\ Base(disk') \in Nat /\ Base(disk) <= Base(disk')
    BY <1>1, <1>2, BaseIs, BaseGrows DEF Changed
<1>4. Good(Whole(logs[r], ptys[r], disk), Base(disk), r, made)
    BY LoggedIs DEF Ordered, Base
<1>5. Begins(Whole(logs'[r], ptys'[r], disk'), Whole(logs[r], ptys[r], disk))
  <2> SUFFICES ASSUME NEW m \in LogType, NEW qty \in PtyType, NEW e, Grows(disk, e),
                      Begins(Coming(m, qty, e), Coming(logs[r], ptys[r], disk))
               PROVE  Begins(Whole(m, qty, e), Whole(logs[r], ptys[r], disk))
      BY <1>2 DEF Changed
  <2> QED
      BY <1>1, WholeBegins
<1>6. /\ Whole(logs[r], ptys[r], disk) \in Seq(Piece)
      /\ Whole(logs'[r], ptys'[r], disk') \in Seq(Piece)
    BY <1>1, <1>2, WholeSize
<1>7. /\ Good(Whole(logs'[r], ptys'[r], disk'), Base(disk), r, made)
      /\ Good(Whole(logs'[r], ptys'[r], disk'), Base(disk'), r, made)
    BY <1>3, <1>4, <1>5, <1>6, BeginGood
<1>8. ASSUME NEW p \in Processes PROVE Good(Logged(p)', Base(disk'), p, made')
  <2>1. CASE p = r
      BY <1>7, <2>1, LoggedIs DEF Changed
  <2>2. CASE p # r
    <3>1. /\ logs'[p] = logs[p] /\ ptys'[p] = ptys[p] /\ made' = made /\ Grows(disk, disk')
          /\ logs[p] \in LogType /\ ptys[p] \in PtyType
        BY <2>2, TypedIs DEF Changed
    <3>2. Inserted(Whole(logs[p], ptys[p], disk), Whole(logs[p], ptys[p], disk'),
                   Base(disk), Base(disk') - Base(disk), r, made)
        BY <1>1, <1>2, <1>7, <3>1, WriteInserts
    <3>3. Good(Whole(logs[p], ptys[p], disk), Base(disk), p, made)
        BY LoggedIs DEF Ordered, Base
    <3>4. /\ Whole(logs[p], ptys[p], disk) \in Seq(Piece)
          /\ Whole(logs[p], ptys[p], disk') \in Seq(Piece)
          /\ Base(disk) <= Len(Whole(logs[p], ptys[p], disk))
      <4>1. /\ Whole(logs[p], ptys[p], disk) \in Seq(Piece)
            /\ Whole(logs[p], ptys[p], disk') \in Seq(Piece)
            /\ Size(Whole(logs[p], ptys[p], disk))
                 = Base(disk) + Size(logs[p].unflushed) + Size(Arriving(logs[p], ptys[p]))
            /\ Size(logs[p].unflushed) \in Nat /\ Size(Arriving(logs[p], ptys[p])) \in Nat
          BY <1>1, <1>2, <3>1, WholeSize
      <4>2. Base(disk) <= Size(Whole(logs[p], ptys[p], disk))
          BY <1>3, <4>1
      <4> QED
          BY <4>1, <4>2 DEF Size
    <3>5. Good(Whole(logs[p], ptys[p], disk'), Base(disk) + (Base(disk') - Base(disk)), p, made)
      <4>1. Base(disk') - Base(disk) \in Nat
          BY <1>3
      <4> QED
          BY <1>3, <2>2, <3>2, <3>3, <3>4, <4>1, InsertGood
    <3>6. Base(disk) + (Base(disk') - Base(disk)) = Base(disk')
        BY <1>3
    <3> QED
        BY <3>1, <3>5, <3>6, LoggedIs
  <2> QED
      BY <2>1, <2>2
<1> QED
    BY <1>8 DEF Ordered, Base

\* Logs stay complete when nothing is lost from the one the step is about.
LEMMA AllKept ==
    ASSUME Typed, Ordered, NEW r \in Processes, Changed(r), Kept(r),
           \A p \in Processes : Complete(Logged(p), p, made[p])
    PROVE  \A p \in Processes : Complete(Logged(p)', p, made'[p])
<1>1. /\ logs[r] \in LogType /\ ptys[r] \in PtyType /\ disk \in DiskType
    BY TypedIs
<1>2. logs'[r] \in LogType /\ ptys'[r] \in PtyType /\ disk' \in DiskType
    BY DEF Changed, Typed
<1>3. Base(disk) \in Nat /\ Base(disk') \in Nat /\ Base(disk) <= Base(disk')
    BY <1>1, <1>2, BaseIs, BaseGrows DEF Changed
<1>4. Good(Whole(logs[r], ptys[r], disk), Base(disk), r, made)
    BY LoggedIs DEF Ordered, Base
<1>5. Whole(logs'[r], ptys'[r], disk') = Whole(logs[r], ptys[r], disk)
  <2> SUFFICES ASSUME NEW m \in LogType, NEW qty \in PtyType, NEW e, Grows(disk, e),
                      Coming(m, qty, e) = Coming(logs[r], ptys[r], disk)
               PROVE  Whole(m, qty, e) = Whole(logs[r], ptys[r], disk)
      BY <1>2 DEF Changed, Kept
  <2> QED
      BY <1>1, WholeSame
<1>6. Good(Whole(logs'[r], ptys'[r], disk'), Base(disk), r, made)
    BY <1>4, <1>5
<1> TAKE p \in Processes
<1>7. CASE p = r
    BY <1>5, <1>7, LoggedIs DEF Changed
<1>8. CASE p # r
  <2>1. /\ logs'[p] = logs[p] /\ ptys'[p] = ptys[p] /\ made' = made /\ Grows(disk, disk')
        /\ logs[p] \in LogType /\ ptys[p] \in PtyType /\ made[p] \in Nat
      BY <1>8, TypedIs, LogAssumption DEF Changed
  <2>2. Inserted(Whole(logs[p], ptys[p], disk), Whole(logs[p], ptys[p], disk'),
                 Base(disk), Base(disk') - Base(disk), r, made)
      BY <1>1, <1>2, <1>6, <2>1, WriteInserts
  <2>3. Good(Whole(logs[p], ptys[p], disk), Base(disk), p, made)
      BY LoggedIs DEF Ordered, Base
  <2>4. /\ Whole(logs[p], ptys[p], disk) \in Seq(Piece)
        /\ Whole(logs[p], ptys[p], disk') \in Seq(Piece)
        /\ Base(disk) <= Len(Whole(logs[p], ptys[p], disk))
    <3>1. /\ Whole(logs[p], ptys[p], disk) \in Seq(Piece)
          /\ Whole(logs[p], ptys[p], disk') \in Seq(Piece)
          /\ Size(Whole(logs[p], ptys[p], disk))
               = Base(disk) + Size(logs[p].unflushed) + Size(Arriving(logs[p], ptys[p]))
          /\ Size(logs[p].unflushed) \in Nat /\ Size(Arriving(logs[p], ptys[p])) \in Nat
        BY <1>1, <1>2, <2>1, WholeSize
    <3>2. Base(disk) <= Size(Whole(logs[p], ptys[p], disk))
        BY <1>3, <3>1
    <3> QED
        BY <3>1, <3>2 DEF Size
  <2>5. Complete(Whole(logs[p], ptys[p], disk), p, made[p])
      BY LoggedIs
  <2>6. Complete(Whole(logs[p], ptys[p], disk'), p, made[p])
    <3>1. Base(disk') - Base(disk) \in Nat
        BY <1>3
    <3> QED
        BY <1>3, <1>8, <2>1, <2>2, <2>3, <2>4, <2>5, <3>1, InsertGood
  <2> QED
      BY <2>1, <2>6, LoggedIs
<1> QED
    BY <1>7, <1>8

\* What has reached the disk is the same for all processes.
LEMMA SameFile ==
    ASSUME NEW l \in LogType, NEW pty \in PtyType, NEW d \in DiskType,
           NEW m \in LogType, NEW qty \in PtyType, NEW i \in 1..Base(d)
    PROVE  /\ Whole(m, qty, d)[i] = Whole(l, pty, d)[i]
           /\ i \in 1..Len(Whole(l, pty, d))
<1> DEFINE s == Whole(l, pty, d)
           t == Whole(m, qty, d)
           y == l.unflushed \o Arriving(l, pty)
           z == m.unflushed \o Arriving(m, qty)
<1>1. Consists(s, d.archive, d.file, y) /\ Consists(t, d.archive, d.file, z)
    BY WholeIs
<1>2. Base(d) = Len(d.archive) + Len(d.file)
    BY DEF Base, Size
<1> HIDE DEF s, t, y, z
<1> SUFFICES ASSUME NEW a, NEW f, Consists(s, a, f, y), Consists(t, a, f, z), i \in 1..(Len(a) + Len(f))
             PROVE  t[i] = s[i] /\ i \in 1..Len(s)
    BY <1>1, <1>2 DEF s, t
<1>3. Len(a) \in Nat /\ Len(f) \in Nat /\ Len(y) \in Nat /\ Len(s) = Len(a) + Len(f) + Len(y)
    BY DEF Consists
<1>4. CASE i \in 1..Len(a)
    BY <1>3, <1>4 DEF Consists
<1>5. CASE i - Len(a) \in 1..Len(f)
  <2> DEFINE j == i - Len(a)
  <2>1. i = Len(a) + j
      BY <1>3
  <2>2. s[Len(a) + j] = f[j] /\ t[Len(a) + j] = f[j]
      BY <1>5 DEF Consists
  <2> QED
      BY <1>3, <2>1, <2>2
<1> QED
    BY <1>3, <1>4, <1>5

\* No piece is twice in a log, of whatever process it is.
LEMMA EachOnce ==
    ASSUME Typed, Ordered, NEW r \in Processes,
           NEW t, t = Whole(logs[r], ptys[r], disk),
           NEW i \in 1..Len(t), NEW j \in 1..Len(t), i < j
    PROVE  t[i].run # t[j].run \/ t[i].number < t[j].number
<1>1. /\ logs[r] \in LogType /\ ptys[r] \in PtyType /\ disk \in DiskType
    BY TypedIs
<1>2. t \in Seq(Piece)
    BY <1>1, WholeSize
<1>3. Good(t, Base(disk), r, made)
    BY LoggedIs DEF Ordered, Base
<1>4. Base(disk) \in Nat
    BY <1>1, BaseIs
<1>5. t[i] \in Piece /\ t[j] \in Piece
    BY <1>2, ElementOfSeq
<1>6. CASE t[i].run = r
    BY <1>3, <1>6 DEF Good
<1>7. CASE t[j].run # r
  <2>1. j <= Base(disk)
      BY <1>3, <1>4, <1>7 DEF Good
  <2>2. i \in 1..Base(disk) /\ j \in 1..Base(disk)
      BY <1>4, <2>1
  <2>3. PICK p \in Processes : p = t[j].run
      BY <1>5 DEF Piece
  <2>4. /\ logs[p] \in LogType /\ ptys[p] \in PtyType
      BY TypedIs
  <2>5. PICK s : s = Whole(logs[p], ptys[p], disk)
      OBVIOUS
  <2>6. Good(s, Base(disk), p, made)
      BY <2>5, LoggedIs DEF Ordered, Base
  <2>7. /\ s[i] = t[i] /\ s[j] = t[j] /\ i \in 1..Len(s) /\ j \in 1..Len(s)
      BY <1>1, <2>2, <2>4, <2>5, SameFile
  <2> QED
      BY <2>3, <2>6, <2>7 DEF Good
<1> QED
    BY <1>6, <1>7

\* So a log is never longer than all the output there may be.
LEMMA Bounded ==
    ASSUME Typed, Ordered, NEW r \in Processes
    PROVE  Size(Whole(logs[r], ptys[r], disk)) <= Runs * MaxOutput
<1> DEFINE t == Whole(logs[r], ptys[r], disk)
           S == 1..Len(t)
           T == Processes \X (1..MaxOutput)
           f == [i \in S |-> <<t[i].run, t[i].number>>]
<1>1. t \in Seq(Piece) /\ Good(t, Base(disk), r, made)
  <2>1. /\ logs[r] \in LogType /\ ptys[r] \in PtyType /\ disk \in DiskType
      BY TypedIs
  <2> QED
      BY <2>1, WholeSize, LoggedIs DEF Ordered, Base
<1>2. \A i \in S, j \in S : i < j => t[i].run # t[j].run \/ t[i].number < t[j].number
    BY EachOnce
<1> HIDE DEF t
<1>3. Runs \in Nat /\ MaxOutput \in Nat /\ Len(t) \in Nat /\ Runs * MaxOutput \in Nat
    BY <1>1, LogAssumption
<1>4. IsFiniteSet(S) /\ Cardinality(S) = Len(t)
  <2>1. PICK n \in Nat : n = Len(t)
      BY <1>3
  <2>2. IsFiniteSet(1..n) /\ Cardinality(1..n) = n
      BY FS_Interval
  <2> QED
      BY <2>1, <2>2
<1>5. IsFiniteSet(T) /\ Cardinality(T) = Runs * MaxOutput
  <2>1. IsFiniteSet(Processes) /\ Cardinality(Processes) = Runs
    <3>1. PICK n \in Nat : n = Runs
        BY <1>3
    <3>2. IsFiniteSet(1..n) /\ Cardinality(1..n) = n
        BY FS_Interval
    <3> QED
        BY <3>1, <3>2 DEF Processes
  <2>2. PICK n \in Nat : n = MaxOutput
      BY <1>3
  <2>3. IsFiniteSet(1..n) /\ Cardinality(1..n) = n
      BY FS_Interval
  <2>4. IsFiniteSet(1..MaxOutput) /\ Cardinality(1..MaxOutput) = MaxOutput
      BY <2>2, <2>3
  <2> QED
      BY <2>1, <2>4, FS_Product
<1>6. \A i \in S : t[i].run \in Processes /\ t[i].number \in 1..MaxOutput
  <2> TAKE i \in S
  <2>1. t[i] \in Piece
      BY <1>1, ElementOfSeq
  <2>2. t[i].run \in Processes
      BY <2>1 DEF Piece
  <2>3. t[i].number \in 1..made[t[i].run]
      BY <1>1 DEF Good
  <2>4. made[t[i].run] \in 0..MaxOutput
      BY <2>2 DEF Typed
  <2> QED
      BY <1>3, <2>2, <2>3, <2>4
<1>7. f \in [S -> T]
    BY <1>6
<1>8. ~(Runs * MaxOutput < Len(t))
  <2> SUFFICES ASSUME Runs * MaxOutput < Len(t) PROVE FALSE
      OBVIOUS
  <2>1. Cardinality(T) < Cardinality(S)
      BY <1>4, <1>5
  <2> HIDE DEF S, T, f
  <2>2. PICK x \in S, y \in S : x # y /\ f[x] = f[y]
      BY <1>4, <1>5, <1>7, <2>1, FS_PigeonHole
  <2> USE DEF S
  <2>3. t[x].run = t[y].run /\ t[x].number = t[y].number
      BY <2>2 DEF f
  <2>4. x < y \/ y < x
      BY <2>2
  <2>5. t[x].number \in Nat
      BY <1>3, <1>6
  <2> QED
      BY <1>2, <2>3, <2>4, <2>5
<1> QED
    BY <1>3, <1>8 DEF t, Size

\* Unless the disk is spoilt what waits for it fits, or waits for it to be writeable.
LEMMA RoomForAll ==
    ASSUME Typed, Ordered, Unspoilt, NEW r \in Processes, NEW p, IsRead(logs[r], ptys[r].data, p),
           Told(logs[r])
    PROVE  /\ Room(logs[r], disk) /\ Waits(logs[r])
           /\ (logs[r].io => Room(p, disk) /\ Waits(p))
<1>1. /\ logs[r] \in LogType /\ ptys[r] \in PtyType /\ disk \in DiskType
    BY TypedIs
<1>2. /\ Size(Whole(logs[r], ptys[r], disk))
           = Base(disk) + Size(logs[r].unflushed) + Size(Arriving(logs[r], ptys[r]))
      /\ Size(logs[r].unflushed) \in Nat /\ Size(Arriving(logs[r], ptys[r])) \in Nat
    BY <1>1, WholeSize
<1>3. Size(Whole(logs[r], ptys[r], disk)) <= Runs * MaxOutput
    BY Bounded
<1>4. /\ Runs * MaxOutput <= MaxSpace /\ Runs * MaxOutput \in Nat /\ MaxSpace \in Nat
    BY LogAssumption
<1>5. disk.space + Base(disk) >= MaxSpace /\ disk.space \in Nat /\ Base(disk) \in Nat
  <2>1. Base(disk) \in Nat /\ Size(disk.archive) \in Nat /\ Size(disk.file) \in Nat
      BY <1>1, BaseIs
  <2>2. disk.space \in Nat
      BY <1>1 DEF DiskType
  <2>3. disk.space + Size(disk.archive) + Size(disk.file) >= MaxSpace
      BY DEF Unspoilt
  <2> QED
      BY <2>1, <2>2, <2>3 DEF Base
<1>6. Size(logs[r].unflushed) + Size(Arriving(logs[r], ptys[r])) <= disk.space
    BY <1>2, <1>3, <1>4, <1>5
<1>7. disk.mode = "writeable" \/ (disk.mode = "read-only" /\ ~disk.exists)
    BY <1>1 DEF Unspoilt, DiskType
<1>8. Waits(logs[r]) /\ logs[r].recv_buf = <<>>
    BY DEF Unspoilt
<1>9. Size(logs[r].recv_buf) = 0
    BY <1>1, <1>8, SizeIs DEF LogType
<1>10. Room(logs[r], disk)
  <2>1. Size(logs[r].unflushed) + Size(logs[r].recv_buf) <= disk.space
      BY <1>2, <1>5, <1>6, <1>9
  <2> QED
      BY <1>7, <2>1 DEF Room, Fit
<1>11. ASSUME logs[r].io PROVE Room(p, disk) /\ Waits(p)
  <2>1. ptys[r].data \in Seq(Piece)
      BY <1>1 DEF PtyType
  <2>2. /\ p.recv_buf = logs[r].recv_buf \o ptys[r].data /\ p.unflushed = logs[r].unflushed
        /\ p.open_errno = logs[r].open_errno
    <3> SUFFICES ASSUME NEW l \in LogType, NEW data \in Seq(Piece), IsRead(l, data, p), Told(l)
                 PROVE  /\ p.recv_buf = l.recv_buf \o data /\ p.unflushed = l.unflushed
                        /\ p.open_errno = l.open_errno
        BY <1>1, <2>1
    <3> QED
        BY ReadIs
  <2>3. p.recv_buf = Arriving(logs[r], ptys[r])
      BY <1>1, <1>11, <2>2, ArrivingIs
  <2>4. Waits(p)
      BY <1>8, <2>2 DEF Waits
  <2>5. Size(p.unflushed) + Size(p.recv_buf) <= disk.space
      BY <1>6, <2>2, <2>3
  <2> QED
      BY <1>7, <2>4, <2>5 DEF Room, Fit
<1> QED
    BY <1>8, <1>10, <1>11

\* Every log that is waiting has outlived its process.
Outlived == \A i \in 1..Len(detached) : logs[detached[i]].state \in {"detached", "freed"}

\* A step that is about process r and does what it may.
Handled(r) ==
    /\ Changed(r)
    /\ assertion' = TRUE
    /\ Told(logs'[r]) /\ Stage(r)'
    /\ Outlived'
    /\ flushed' = flushed /\ spoilt' = spoilt /\ (clearing' => clearing)
    /\ ~spoilt => Kept(r) /\ logs'[r].recv_buf = <<>> /\ Waits(logs'[r])

\* It loses nothing as long as the disk is not spoilt.
LEMMA UnspoiltKept ==
    ASSUME Typed, Ordered, Unspoilt, ~spoilt, NEW r \in Processes, Handled(r)
    PROVE  Unspoilt'
<1>1. disk \in DiskType /\ disk' \in DiskType /\ Grows(disk, disk')
    BY DEF Typed, Handled, Changed
<1>2. disk'.mode = disk.mode /\ (disk.mode # "writeable" => disk'.exists = disk.exists)
    BY <1>1 DEF Grows
<1>3. disk'.mode # "absent"
    BY <1>2 DEF Unspoilt
<1>4. disk'.mode = "read-only" => ~disk'.exists /\ ~flushed' /\ ~clearing'
    BY <1>2 DEF Unspoilt, Handled
<1>5. disk'.space + Size(disk'.archive) + Size(disk'.file) >= MaxSpace
  <2>1. disk'.space + Base(disk') = disk.space + Base(disk)
      BY <1>1, BaseGrows
  <2>2. /\ Size(disk.archive) \in Nat /\ Size(disk.file) \in Nat
        /\ Size(disk'.archive) \in Nat /\ Size(disk'.file) \in Nat
      BY <1>1, BaseIs
  <2>3. disk.space \in Nat /\ disk'.space \in Nat /\ MaxSpace \in Nat
      BY <1>1, LogAssumption DEF DiskType
  <2>4. disk.space + Size(disk.archive) + Size(disk.file) >= MaxSpace
      BY DEF Unspoilt
  <2> QED
      BY <2>1, <2>2, <2>3, <2>4 DEF Base
<1>6. \A p \in Processes : Complete(Logged(p)', p, made'[p])
  <2>1. \A p \in Processes : Complete(Logged(p), p, made[p])
      BY DEF Unspoilt
  <2>2. Changed(r) /\ Kept(r)
      BY DEF Handled
  <2> QED
      BY <2>1, <2>2, AllKept
<1>7. \A p \in Processes : logs'[p].recv_buf = <<>> /\ Waits(logs'[p])
  <2> TAKE p \in Processes
  <2>1. CASE p = r
      BY <2>1 DEF Handled
  <2>2. CASE p # r
    <3>1. logs'[p] = logs[p]
        BY <2>2 DEF Handled, Changed
    <3>2. logs[p].recv_buf = <<>> /\ Waits(logs[p])
        BY DEF Unspoilt
    <3> QED
        BY <3>1, <3>2
  <2> QED
      BY <2>1, <2>2
<1>8. \A p \in Processes : Waits(logs[p])' = Waits(logs'[p])
    BY DEF Waits
<1> QED
    BY <1>3, <1>4, <1>5, <1>6, <1>7, <1>8 DEF Unspoilt

\* So it keeps the invariant.
LEMMA HandledKeeps ==
    ASSUME IInv, NEW r \in Processes, Handled(r)
    PROVE  IInv'
<1>1. Typed' /\ assertion' = TRUE /\ Outlived'
    BY DEF Handled, Changed
<1>2. \A p \in Processes : Told(logs'[p]) /\ Stage(p)'
  <2> TAKE p \in Processes
  <2>1. CASE p = r
      BY <2>1 DEF Handled
  <2>2. CASE p # r
    <3>1. logs'[p] = logs[p] /\ ptys'[p] = ptys[p] /\ made' = made
        BY <2>2 DEF Handled, Changed
    <3>2. Told(logs[p]) /\ Stage(p)
        BY DEF IInv
    <3> QED
        BY <3>1, <3>2 DEF Stage
  <2> QED
      BY <2>1, <2>2
<1>3. Ordered'
    BY OrderKept DEF IInv, Handled
<1>4. ~spoilt' => Unspoilt'
  <2>1. spoilt' = spoilt
      BY DEF Handled
  <2> QED
      BY <2>1, UnspoiltKept DEF IInv
<1>5. \A p \in Processes : Told(logs[p])' = Told(logs'[p])
    BY DEF Told
<1> QED
    BY <1>1, <1>2, <1>3, <1>4, <1>5 DEF IInv, Outlived
-----------------------------------------------------------------------------
(* The handlers *)

\* Some functions of the state after a step.
LEMMA AtOne ==
    ASSUME Typed, NEW r \in Processes, NEW m, logs' = [logs EXCEPT ![r] = m]
    PROVE  /\ logs'[r] = m
           /\ \A p \in Processes : p # r => logs'[p] = logs[p]
           /\ m \in LogType => logs' \in [Processes -> LogType]
    BY DEF Typed

\* A handler that has read all that was in one pty.
LEMMA PtyAtOne ==
    ASSUME Typed, NEW r \in Processes, ptys' = [ptys EXCEPT ![r].data = <<>>]
    PROVE  /\ ptys'[r].data = <<>> /\ ptys'[r].writer = ptys[r].writer
           /\ \A p \in Processes : p # r => ptys'[p] = ptys[p]
           /\ ptys' \in [Processes -> PtyType]
<1>1. ptys \in [Processes -> PtyType] /\ ptys[r] \in PtyType
    BY DEF Typed
<1>2. ptys' = [ptys EXCEPT ![r] = [ptys[r] EXCEPT !.data = <<>>]]
    BY <1>1
<1>3. [ptys[r] EXCEPT !.data = <<>>] \in PtyType
  <2>1. <<>> \in Seq(Piece)
      OBVIOUS
  <2> QED
      BY <1>1, <2>1 DEF PtyType
<1>4. /\ [ptys[r] EXCEPT !.data = <<>>].data = <<>>
      /\ [ptys[r] EXCEPT !.data = <<>>].writer = ptys[r].writer
    BY <1>1 DEF PtyType
<1> QED
    BY <1>1, <1>2, <1>3, <1>4

\* The lists in which the logs that wait are.
LEMMA OutlivedStays ==
    ASSUME Typed, Outlived, NEW r \in Processes,
           \A p \in Processes : p # r => logs'[p] = logs[p],
           logs[r].state \in {"detached", "freed"} => logs'[r].state \in {"detached", "freed"},
           detached' = detached
    PROVE  Outlived'
<1>1. \A i \in 1..Len(detached) : detached[i] \in Processes
    BY ElementOfSeq DEF Typed
<1> QED
    BY <1>1 DEF Outlived

\* The main loop reads output.
LEMMA IoReaderHandled ==
    ASSUME IInv, NEW r \in Processes, IoReader(r)
    PROVE  Handled(r)
<1> DEFINE i == LogIoReader([logs[r] EXCEPT !.recv_buf = @ \o ptys[r].data], disk)
<1>1. /\ logs[r] \in LogType /\ ptys[r] \in PtyType /\ disk \in DiskType
      /\ Typed /\ Told(logs[r]) /\ Stage(r) /\ Outlived /\ Ordered /\ assertion = TRUE
    BY TypedIs DEF IInv, Outlived
<1>2. PICK p : p = [logs[r] EXCEPT !.recv_buf = @ \o ptys[r].data]
    OBVIOUS
<1>3. IsRead(logs[r], ptys[r].data, p) /\ i = LogIoReader(p, disk)
    BY <1>2 DEF IsRead
<1>4. /\ logs[r].io
      /\ logs' = [logs EXCEPT ![r] = i.l]
      /\ ptys' = [ptys EXCEPT ![r].data = <<>>]
      /\ disk' = i.d
      /\ UNCHANGED <<detached, clearing, flushed, made, spoilt, assertion>>
    BY DEF IoReader
<1> HIDE DEF i
<1>5. /\ p \in LogType /\ Told(p) /\ p.recv_buf = logs[r].recv_buf \o ptys[r].data
      /\ p.unflushed = logs[r].unflushed /\ p.state = logs[r].state /\ p.io = logs[r].io
      /\ p.remote_closed = logs[r].remote_closed
  <2> SUFFICES ASSUME NEW l \in LogType, NEW data \in Seq(Piece), IsRead(l, data, p), Told(l)
               PROVE  /\ p \in LogType /\ Told(p) /\ p.recv_buf = l.recv_buf \o data
                      /\ p.unflushed = l.unflushed /\ p.state = l.state /\ p.io = l.io
                      /\ p.remote_closed = l.remote_closed
      BY <1>1, <1>3 DEF PtyType
  <2> QED
      BY ReadIs
<1>6. ReadDone(p, disk, i)
    BY <1>1, <1>3, <1>5, ReaderMoves
<1>7. /\ i.l \in LogType /\ i.d \in DiskType /\ Grows(disk, i.d) /\ Told(i.l)
      /\ Begins(All(i.l, i.d), All(p, disk))
      /\ i.l.state = p.state /\ i.l.io = p.io /\ i.l.remote_closed = p.remote_closed
    BY <1>6 DEF ReadDone, Moved, Grows
<1>8. /\ logs'[r] = i.l /\ logs' \in [Processes -> LogType]
      /\ \A q \in Processes : q # r => logs'[q] = logs[q]
    BY <1>1, <1>4, <1>7, AtOne
<1>9. /\ ptys'[r].data = <<>> /\ ptys'[r].writer = ptys[r].writer
      /\ \A q \in Processes : q # r => ptys'[q] = ptys[q]
      /\ ptys' \in [Processes -> PtyType] /\ ptys'[r] \in PtyType
    BY <1>1, <1>4, PtyAtOne
<1>10. Coming(logs[r], ptys[r], disk) = All(p, disk)
    BY <1>1, <1>4, <1>5, ArrivingIs DEF Coming, All
<1>11. Coming(logs'[r], ptys'[r], disk') = All(i.l, i.d)
  <2>1. Arriving(i.l, ptys'[r]) = i.l.recv_buf
      BY <1>7, <1>9, ArrivingIs
  <2>2. logs'[r] = i.l /\ disk' = i.d
      BY <1>4, <1>8
  <2> QED
      BY <2>1, <2>2 DEF Coming, All
<1>12. Typed'
    BY <1>1, <1>4, <1>7, <1>8, <1>9 DEF Typed
<1>13. Changed(r)
    BY <1>4, <1>7, <1>8, <1>9, <1>10, <1>11, <1>12 DEF Changed
<1>14. Stage(r)'
  <2>1. logs[r].state \in {"attached", "detached"}
      BY <1>1, <1>4 DEF Stage, NoLog, Freed, LogType
  <2>2. logs'[r].state = logs[r].state /\ logs'[r].io
      BY <1>4, <1>5, <1>7, <1>8
  <2>3. ptys[r].writer = "process" => logs[r].state = "attached"
      BY <1>1 DEF Stage
  <2> QED
      BY <1>9, <2>1, <2>2, <2>3 DEF Stage
<1>15. Outlived'
    BY <1>1, <1>4, <1>5, <1>7, <1>8, OutlivedStays
<1>16. ~spoilt => Kept(r) /\ logs'[r].recv_buf = <<>> /\ Waits(logs'[r])
  <2> SUFFICES ASSUME ~spoilt PROVE Kept(r) /\ logs'[r].recv_buf = <<>> /\ Waits(logs'[r])
      OBVIOUS
  <2>1. Unspoilt
      BY DEF IInv
  <2>2. Room(p, disk) /\ Waits(p)
      BY <1>1, <1>3, <1>4, <2>1, RoomForAll
  <2>3. All(i.l, i.d) = All(p, disk) /\ i.l.recv_buf = <<>> /\ Waits(i.l)
      BY <1>6, <2>2 DEF ReadDone
  <2> QED
      BY <1>8, <1>10, <1>11, <2>3 DEF Kept
<1> QED
    BY <1>1, <1>4, <1>7, <1>8, <1>13, <1>14, <1>15, <1>16 DEF Handled

\* It finds the pty closed.
LEMMA IoErrorHandled ==
    ASSUME IInv, NEW r \in Processes, IoError(r)
    PROVE  Handled(r)
<1> DEFINE i == LogIoReader(logs[r], disk)
           m == [i.l EXCEPT !.io = FALSE, !.recv_buf = <<>>, !.remote_closed = TRUE]
<1>1. /\ logs[r] \in LogType /\ ptys[r] \in PtyType /\ disk \in DiskType
      /\ Typed /\ Told(logs[r]) /\ Stage(r) /\ Outlived /\ Ordered /\ assertion = TRUE
    BY TypedIs DEF IInv, Outlived
<1>2. /\ logs[r].io /\ ptys[r].data = <<>> /\ ptys[r].writer = "gone"
      /\ logs' = [logs EXCEPT ![r] = m]
      /\ disk' = i.d
      /\ UNCHANGED <<ptys, detached, clearing, flushed, made, spoilt, assertion>>
    BY DEF IoError
<1>3. ReadDone(logs[r], disk, i)
    BY <1>1, ReaderMoves
<1> HIDE DEF i
<1>4. /\ i.l \in LogType /\ i.d \in DiskType /\ Grows(disk, i.d) /\ Told(i.l)
      /\ Begins(All(i.l, i.d), All(logs[r], disk))
      /\ i.l.state = logs[r].state
    BY <1>3 DEF ReadDone, Moved, Grows
<1>5. /\ m \in LogType /\ m.state = logs[r].state /\ m.recv_buf = <<>> /\ m.unflushed = i.l.unflushed
      /\ m.fd = i.l.fd /\ m.open_errno = i.l.open_errno /\ ~m.io /\ m.remote_closed
  <2>1. <<>> \in Seq(Piece)
      OBVIOUS
  <2> QED
      BY <1>4, <2>1 DEF LogType
<1> HIDE DEF m
<1>6. /\ logs'[r] = m /\ logs' \in [Processes -> LogType] /\ ptys' = ptys
      /\ \A q \in Processes : q # r => logs'[q] = logs[q]
    BY <1>1, <1>2, <1>5, AtOne
<1>7. Coming(logs[r], ptys[r], disk) = All(logs[r], disk)
    BY <1>1, <1>2, ArrivingIs DEF Coming, All
<1>8. Coming(logs'[r], ptys'[r], disk') = All(m, i.d)
    BY <1>1, <1>2, <1>4, <1>5, <1>6, ArrivingIs DEF Coming, All
<1>9. Begins(All(m, i.d), All(logs[r], disk)) /\ (i.l.recv_buf = <<>> => All(m, i.d) = All(i.l, i.d))
  <2>1. /\ All(m, i.d) \in Seq(Piece) /\ All(i.l, i.d) \in Seq(Piece)
        /\ All(logs[r], disk) \in Seq(Piece)
        /\ i.d.file \in Seq(Piece) /\ i.l.unflushed \in Seq(Piece) /\ i.l.recv_buf \in Seq(Piece)
      BY <1>1, <1>4, <1>5, AllIs
  <2>2. Begins(All(m, i.d), All(i.l, i.d))
      BY <1>5, <2>1, NewDropped DEF All
  <2>3. Begins(All(m, i.d), All(logs[r], disk))
      BY <1>4, <2>1, <2>2, BeginsTransitive
  <2> QED
      BY <1>5, <2>3 DEF All
<1>10. Typed'
    BY <1>1, <1>2, <1>4, <1>6 DEF Typed
<1>11. Changed(r)
    BY <1>2, <1>4, <1>6, <1>7, <1>8, <1>9, <1>10 DEF Changed
<1>12. Stage(r)'
  <2>1. logs[r].state \in {"attached", "detached"}
      BY <1>1, <1>2 DEF Stage, NoLog, Freed, LogType
  <2> QED
      BY <1>2, <1>5, <1>6, <2>1 DEF Stage
<1>13. Outlived'
    BY <1>1, <1>2, <1>5, <1>6, OutlivedStays
<1>14. Told(m)
    BY <1>4, <1>5 DEF Told
<1>15. ~spoilt => Kept(r) /\ logs'[r].recv_buf = <<>> /\ Waits(logs'[r])
  <2> SUFFICES ASSUME ~spoilt PROVE Kept(r) /\ logs'[r].recv_buf = <<>> /\ Waits(logs'[r])
      OBVIOUS
  <2>1. Unspoilt
      BY DEF IInv
  <2>2. PICK p : IsRead(logs[r], ptys[r].data, p)
      BY DEF IsRead
  <2>3. Room(logs[r], disk) /\ Waits(logs[r])
      BY <1>1, <2>1, <2>2, RoomForAll
  <2>4. All(i.l, i.d) = All(logs[r], disk) /\ i.l.recv_buf = <<>> /\ Waits(i.l)
      BY <1>3, <2>3 DEF ReadDone
  <2>5. Waits(m)
      BY <1>5, <2>4 DEF Waits
  <2> QED
      BY <1>5, <1>6, <1>7, <1>8, <1>9, <2>4, <2>5 DEF Kept
<1> QED
    BY <1>1, <1>2, <1>6, <1>11, <1>12, <1>13, <1>14, <1>15 DEF Handled

\* What a log that has been freed is.
LEMMA FreedIs ==
    ASSUME NEW pty \in PtyType, NEW d \in DiskType
    PROVE  /\ Freed \in LogType /\ Freed.state = "freed" /\ Told(Freed) /\ Waits(Freed)
           /\ Freed.recv_buf = <<>> /\ Freed.io = FALSE
           /\ Coming(Freed, pty, d) = d.file
<1>1. /\ Freed.state = "freed" /\ Freed.recv_buf = <<>> /\ Freed.io = FALSE
      /\ Freed.unflushed = <<>> /\ Freed.fd = NoFd
    BY DEF Freed, NoLog
<1>2. Freed \in LogType
  <2>1. <<>> \in Seq(Piece)
      OBVIOUS
  <2> QED
      BY <2>1 DEF Freed, NoLog, NoFd, LogType
<1>3. Coming(Freed, pty, d) = All(Freed, d)
    BY <1>1, <1>2, ArrivingIs DEF Coming, All
<1>4. All(Freed, d) = d.file
    BY <1>1, <1>2, AllEmpty
<1> QED
    BY <1>1, <1>2, <1>3, <1>4 DEF Told, Waits

\* What log_read_watch leaves of the log of a process that has ended, whether it
\* reads or not.
Watched(r, i) ==
    /\ i.l \in LogType /\ i.d \in DiskType /\ Grows(disk, i.d)
    /\ Begins(All(i.l, i.d), Coming(logs[r], ptys[r], disk))
    /\ i.l.state = logs[r].state /\ i.l.io = logs[r].io /\ Told(i.l)
    /\ logs[r].remote_closed => i.l.remote_closed
    /\ ~spoilt => /\ All(i.l, i.d) = Coming(logs[r], ptys[r], disk)
                  /\ i.l.recv_buf = <<>> /\ Room(i.l, i.d) /\ Waits(i.l)

\* log_handle_unflushed reads a last time.
LEMMA WatchedIs ==
    ASSUME IInv, NEW r \in Processes
    PROVE  Watched(r, LogReadWatch(logs[r], disk, ptys[r]))
<1> DEFINE i == LogReadWatch(logs[r], disk, ptys[r])
<1>1. /\ logs[r] \in LogType /\ ptys[r] \in PtyType /\ disk \in DiskType
      /\ Typed /\ Told(logs[r]) /\ Stage(r) /\ Ordered
    BY TypedIs DEF IInv
<1>2. PICK p : p = [logs[r] EXCEPT !.recv_buf = @ \o ptys[r].data]
    OBVIOUS
<1>3. IsRead(logs[r], ptys[r].data, p)
    BY <1>2 DEF IsRead
<1>4. ~spoilt => /\ logs[r].recv_buf = <<>>
                 /\ Room(logs[r], disk) /\ Waits(logs[r])
                 /\ (logs[r].io => Room(p, disk) /\ Waits(p))
  <2> SUFFICES ASSUME ~spoilt
               PROVE  /\ logs[r].recv_buf = <<>>
                      /\ Room(logs[r], disk) /\ Waits(logs[r])
                      /\ (logs[r].io => Room(p, disk) /\ Waits(p))
      OBVIOUS
  <2>1. Unspoilt
      BY DEF IInv
  <2>2. logs[r].recv_buf = <<>>
      BY <2>1 DEF Unspoilt
  <2> QED
      BY <1>1, <1>3, <2>1, <2>2, RoomForAll
<1>5. CASE logs[r].io
  <2>1. WatchDone(p, disk, i)
    <3> SUFFICES ASSUME NEW l \in LogType, NEW pty \in PtyType, Told(l), l.io,
                        IsRead(l, pty.data, p)
                 PROVE  WatchDone(p, disk, LogReadWatch(l, disk, pty))
        BY <1>1, <1>3, <1>5
    <3> QED
        BY <1>1, WatchMoves
  <2> HIDE DEF i
  <2>2. /\ p \in LogType /\ p.recv_buf = logs[r].recv_buf \o ptys[r].data
        /\ p.unflushed = logs[r].unflushed /\ p.state = logs[r].state /\ p.io = logs[r].io
        /\ p.remote_closed = logs[r].remote_closed
    <3> SUFFICES ASSUME NEW l \in LogType, NEW data \in Seq(Piece), IsRead(l, data, p), Told(l)
                 PROVE  /\ p \in LogType /\ p.recv_buf = l.recv_buf \o data
                        /\ p.unflushed = l.unflushed /\ p.state = l.state /\ p.io = l.io
                        /\ p.remote_closed = l.remote_closed
        BY <1>1, <1>3 DEF PtyType
    <3> QED
        BY ReadIs
  <2>3. Coming(logs[r], ptys[r], disk) = All(p, disk)
      BY <1>1, <1>5, <2>2, ArrivingIs DEF Coming, All
  <2>4. i.d \in DiskType
      BY <2>1 DEF WatchDone, Grows
  <2> QED
      BY <1>4, <1>5, <2>1, <2>2, <2>3, <2>4 DEF WatchDone, Watched, i
<1>6. CASE ~logs[r].io
  <2>1. i.l = logs[r] /\ i.d = disk
      BY <1>6 DEF LogReadWatch
  <2>2. Coming(logs[r], ptys[r], disk) = All(logs[r], disk)
      BY <1>1, <1>6, ArrivingIs DEF Coming, All
  <2>3. Begins(All(logs[r], disk), All(logs[r], disk))
      BY <1>1, AllIs, BeginsItself
  <2> HIDE DEF i
  <2> QED
      BY <1>1, <1>4, <2>1, <2>2, <2>3, GrowsItself DEF Watched, i
<1> QED
    BY <1>5, <1>6

\* The log of a process that has ended is kept.
LEMMA DetachHandled ==
    ASSUME IInv, NEW r \in Processes, NEW i, Watched(r, i),
           logs[r].state = "attached", ptys[r].writer # "process",
           logs' = [logs EXCEPT ![r] = [i.l EXCEPT !.state = "detached"]],
           ptys' \in [Processes -> PtyType], ptys'[r].data = <<>>,
           ptys'[r].writer = ptys[r].writer,
           \A q \in Processes : q # r => ptys'[q] = ptys[q],
           disk' = i.d,
           detached' = <<r>> \o detached,
           UNCHANGED <<clearing, flushed, made, spoilt, assertion>>
    PROVE  Handled(r)
<1> DEFINE m == [i.l EXCEPT !.state = "detached"]
<1>1. /\ logs[r] \in LogType /\ ptys[r] \in PtyType /\ disk \in DiskType
      /\ Typed /\ Told(logs[r]) /\ Stage(r) /\ Outlived /\ assertion = TRUE
    BY TypedIs DEF IInv, Outlived
<1>2. /\ i.l \in LogType /\ i.d \in DiskType /\ Grows(disk, i.d)
      /\ Begins(All(i.l, i.d), Coming(logs[r], ptys[r], disk))
      /\ i.l.io = logs[r].io /\ Told(i.l)
      /\ logs[r].remote_closed => i.l.remote_closed
      /\ ~spoilt => /\ All(i.l, i.d) = Coming(logs[r], ptys[r], disk)
                    /\ i.l.recv_buf = <<>> /\ Waits(i.l)
    BY DEF Watched
<1>3. /\ m \in LogType /\ m.state = "detached" /\ m.recv_buf = i.l.recv_buf
      /\ m.unflushed = i.l.unflushed /\ m.fd = i.l.fd /\ m.open_errno = i.l.open_errno
      /\ m.io = i.l.io /\ m.remote_closed = i.l.remote_closed
    BY <1>2 DEF LogType
<1>4. /\ logs'[r] = m /\ logs' \in [Processes -> LogType]
      /\ \A q \in Processes : q # r => logs'[q] = logs[q]
    BY <1>1, <1>3, AtOne
<1> HIDE DEF m
<1>5. Coming(logs'[r], ptys'[r], disk') = All(i.l, i.d)
    BY <1>2, <1>3, <1>4, ArrivingIs DEF Coming, All
<1>6. detached' \in Seq(Processes) /\ Outlived'
  <2>1. detached \in Seq(Processes) /\ \A k \in 1..Len(detached) : detached[k] \in Processes
      BY <1>1, ElementOfSeq DEF Typed
  <2>2. /\ detached' \in Seq(Processes) /\ Len(detached') = Len(detached) + 1
        /\ detached'[1] = r
        /\ \A k \in 2..Len(detached') : detached'[k] = detached[k - 1] /\ k - 1 \in 1..Len(detached)
    <3> SUFFICES ASSUME NEW s \in Seq(Processes), NEW t, t = <<r>> \o s
                 PROVE  /\ t \in Seq(Processes) /\ Len(t) = Len(s) + 1 /\ t[1] = r
                        /\ \A k \in 2..Len(t) : t[k] = s[k - 1] /\ k - 1 \in 1..Len(s)
        BY <2>1
    <3> QED
        OBVIOUS
  <2>3. ASSUME NEW k \in 1..Len(detached')
        PROVE  logs'[detached'[k]].state \in {"detached", "freed"}
    <3>1. CASE k = 1
        BY <1>3, <1>4, <2>2, <3>1
    <3>2. CASE k # 1
      <4>1. k \in 2..Len(detached')
          BY <2>1, <2>2, <3>2
      <4>2. detached'[k] = detached[k - 1] /\ k - 1 \in 1..Len(detached)
          BY <2>2, <4>1
      <4>3. logs[detached[k - 1]].state \in {"detached", "freed"} /\ detached[k - 1] \in Processes
          BY <1>1, <2>1, <4>2 DEF Outlived
      <4>4. detached[k - 1] # r
          BY <4>3
      <4> QED
          BY <1>4, <4>2, <4>3, <4>4
    <3> QED
        BY <3>1, <3>2
  <2> QED
      BY <2>2, <2>3 DEF Outlived
<1>7. Typed'
    BY <1>1, <1>2, <1>4, <1>6 DEF Typed
<1>8. Changed(r)
    BY <1>2, <1>4, <1>5, <1>7 DEF Changed
<1>9. Stage(r)'
  <2>1. logs[r].io \/ logs[r].remote_closed
      BY <1>1 DEF Stage
  <2> QED
      BY <1>2, <1>3, <1>4, <2>1 DEF Stage
<1>10. Told(m) /\ (Waits(i.l) => Waits(m))
    BY <1>2, <1>3 DEF Told, Waits
<1>11. ~spoilt => Kept(r) /\ logs'[r].recv_buf = <<>> /\ Waits(logs'[r])
    BY <1>2, <1>3, <1>4, <1>5, <1>10 DEF Kept
<1> QED
    BY <1>1, <1>4, <1>6, <1>8, <1>9, <1>10, <1>11 DEF Handled

\* A log is freed, and what of it is lost is its end.
LEMMA FreeHandled ==
    ASSUME IInv, NEW r \in Processes, Grows(disk, disk'),
           logs' = [logs EXCEPT ![r] = Freed],
           ptys' \in [Processes -> PtyType], ptys'[r].data = <<>>,
           ptys[r].writer # "process", ptys'[r].writer = ptys[r].writer,
           logs[r].state # "none",
           \A q \in Processes : q # r => ptys'[q] = ptys[q],
           Begins(disk'.file, Coming(logs[r], ptys[r], disk)),
           ~spoilt => disk'.file = Coming(logs[r], ptys[r], disk),
           detached' \in Seq(Processes), Outlived',
           clearing' = clearing, UNCHANGED <<flushed, made, spoilt, assertion>>
    PROVE  Handled(r)
<1>1. /\ logs[r] \in LogType /\ ptys[r] \in PtyType /\ disk \in DiskType
      /\ Typed /\ Stage(r) /\ assertion = TRUE
    BY TypedIs DEF IInv
<1>2. /\ Freed \in LogType /\ Freed.state = "freed" /\ Told(Freed) /\ Waits(Freed)
      /\ Freed.recv_buf = <<>> /\ Freed.io = FALSE
  <2>1. ptys'[r] \in PtyType
      OBVIOUS
  <2> QED
      BY <1>1, <2>1, FreedIs
<1>3. /\ logs'[r] = Freed /\ logs' \in [Processes -> LogType]
      /\ \A q \in Processes : q # r => logs'[q] = logs[q]
    BY <1>1, <1>2, AtOne
<1>4. disk' \in DiskType
    BY DEF Grows
<1>5. Coming(logs'[r], ptys'[r], disk') = disk'.file
  <2> SUFFICES ASSUME NEW pty \in PtyType, NEW d \in DiskType
               PROVE  Coming(Freed, pty, d) = d.file
      BY <1>3, <1>4
  <2> QED
      BY FreedIs
<1>6. Typed'
    BY <1>1, <1>3, <1>4 DEF Typed
<1>7. Changed(r)
    BY <1>3, <1>5, <1>6 DEF Changed
<1>8. Stage(r)'
    BY <1>2, <1>3 DEF Stage
<1>9. ~spoilt => Kept(r) /\ logs'[r].recv_buf = <<>> /\ Waits(logs'[r])
    BY <1>2, <1>3, <1>5 DEF Kept
<1> QED
    BY <1>1, <1>2, <1>3, <1>7, <1>8, <1>9 DEF Handled

\* The process is reaped.
LEMMA HandleUnflushedHandled ==
    ASSUME IInv, NEW r \in Processes, HandleUnflushed(r)
    PROVE  Handled(r)
<1> DEFINE i    == LogReadWatch(logs[r], disk, ptys[r])
           read == IF logs[r].io THEN [ptys EXCEPT ![r].data = <<>>] ELSE ptys
<1>1. /\ logs[r] \in LogType /\ ptys[r] \in PtyType /\ disk \in DiskType
      /\ Typed /\ Stage(r) /\ Outlived
    BY TypedIs DEF IInv, Outlived
<1>2. /\ logs[r].state = "attached"
      /\ ptys[r].writer \in {"leaked", "gone"}
      /\ Keeps(i.l) =>
           /\ logs' = [logs EXCEPT ![r] = [i.l EXCEPT !.state = "detached"]]
           /\ disk' = i.d
           /\ detached' = <<r>> \o detached
      /\ ~Keeps(i.l) =>
           /\ logs' = [logs EXCEPT ![r] = Freed]
           /\ disk' = LogDestroy(i.l, i.d, read[r])
           /\ UNCHANGED detached
      /\ ptys' = read
      /\ UNCHANGED <<clearing, flushed, made, spoilt, assertion>>
    BY DEF HandleUnflushed
<1>3. Watched(r, i)
    BY WatchedIs
<1>4. /\ read[r].data = <<>> /\ read[r].writer = ptys[r].writer
      /\ \A q \in Processes : q # r => read[q] = ptys[q]
      /\ read \in [Processes -> PtyType]
  <2>1. CASE logs[r].io
    <3>1. ptys' = [ptys EXCEPT ![r].data = <<>>] /\ read = ptys'
        BY <1>2, <2>1
    <3> QED
        BY <1>1, <3>1, PtyAtOne
  <2>2. CASE ~logs[r].io
    <3>1. read = ptys /\ ptys[r].data = <<>>
        BY <1>1, <2>2 DEF Stage
    <3> QED
        BY <1>1, <3>1 DEF Typed
  <2> QED
      BY <2>1, <2>2
<1> HIDE DEF i, read
<1>5. CASE Keeps(i.l)
  <2>1. /\ ptys' \in [Processes -> PtyType] /\ ptys'[r].data = <<>>
        /\ ptys'[r].writer = ptys[r].writer /\ ptys[r].writer # "process"
        /\ \A q \in Processes : q # r => ptys'[q] = ptys[q]
      BY <1>2, <1>4
  <2> QED
      BY <1>2, <1>3, <1>5, <2>1, DetachHandled
<1>6. CASE ~Keeps(i.l)
  <2> DEFINE e == LogDestroy(i.l, i.d, read[r])
  <2>1. /\ i.l \in LogType /\ i.d \in DiskType /\ Told(i.l) /\ Grows(disk, i.d)
        /\ Begins(All(i.l, i.d), Coming(logs[r], ptys[r], disk))
        /\ ~spoilt => /\ All(i.l, i.d) = Coming(logs[r], ptys[r], disk)
                      /\ i.l.recv_buf = <<>> /\ Room(i.l, i.d) /\ Waits(i.l)
      BY <1>3 DEF Watched
  <2>2. DestroyDone(i.l, i.d, e)
    <3>1. read[r] \in PtyType /\ read[r].data = <<>>
        BY <1>4
    <3> QED
        BY <2>1, <3>1, DestroyMoves
  <2>3. disk' = e
      BY <1>2, <1>6
  <2> HIDE DEF e
  <2>4. Grows(disk, disk')
      BY <1>1, <2>1, <2>2, <2>3, GrowsOn DEF DestroyDone
  <2>5. Begins(disk'.file, Coming(logs[r], ptys[r], disk))
    <3>1. /\ disk'.file \in Seq(Piece) /\ All(i.l, i.d) \in Seq(Piece)
          /\ Coming(logs[r], ptys[r], disk) \in Seq(Piece)
        BY <1>1, <2>1, <2>4, AllIs, ArrivingIs DEF Grows, DiskType
    <3>2. Begins(disk'.file, All(i.l, i.d))
        BY <2>2, <2>3 DEF DestroyDone
    <3> QED
        BY <2>1, <3>1, <3>2, BeginsTransitive
  <2>6. ~spoilt => disk'.file = Coming(logs[r], ptys[r], disk)
    <3> SUFFICES ASSUME ~spoilt PROVE disk'.file = Coming(logs[r], ptys[r], disk)
        OBVIOUS
    <3>1. i.l.unflushed = <<>> \/ flushed
        BY <1>6, <2>1 DEF Keeps, Waits
    <3>2. i.l.unflushed = <<>> \/ Fit(i.l, i.d)
      <4>1. flushed => disk.mode # "read-only"
          BY DEF IInv, Unspoilt
      <4>2. i.d.mode = disk.mode
          BY <2>1 DEF Grows
      <4> QED
          BY <2>1, <3>1, <4>1, <4>2 DEF Room
    <3>3. disk'.file = All(i.l, i.d)
        BY <2>1, <2>2, <2>3, <3>2 DEF DestroyDone
    <3> QED
        BY <2>1, <3>3
  <2>7. logs' = [logs EXCEPT ![r] = Freed] /\ detached' = detached
      BY <1>2, <1>6
  <2>8. Outlived' /\ detached' \in Seq(Processes)
    <3>1. /\ \A p \in Processes : p # r => logs'[p] = logs[p]
          /\ logs[r].state \in {"detached", "freed"} => logs'[r].state \in {"detached", "freed"}
        BY <1>1, <1>2, <2>7, AtOne
    <3>2. Outlived'
        BY <1>1, <2>7, <3>1, OutlivedStays
    <3> QED
        BY <1>1, <2>7, <3>2 DEF Typed
  <2>9. /\ ptys' \in [Processes -> PtyType] /\ ptys'[r].data = <<>>
        /\ ptys'[r].writer = ptys[r].writer /\ ptys[r].writer # "process"
        /\ \A q \in Processes : q # r => ptys'[q] = ptys[q]
        /\ logs[r].state # "none"
      BY <1>2, <1>4
  <2> QED
      BY <1>2, <2>4, <2>5, <2>6, <2>7, <2>8, <2>9, FreeHandled
<1> QED
    BY <1>5, <1>6

\* A log that cannot be written is kept, and the walk ends.
LEMMA FailHandled ==
    ASSUME IInv, NEW r \in Processes, spoilt, Grows(disk, disk'),
           NEW m \in LogType, logs' = [logs EXCEPT ![r] = m],
           Told(m), m.state = logs[r].state, m.io = logs[r].io,
           m.remote_closed = logs[r].remote_closed,
           logs[r].state = "detached",
           Begins(All(m, disk'), All(logs[r], disk)),
           clearing' = FALSE, UNCHANGED <<ptys, detached, flushed, made, spoilt, assertion>>
    PROVE  Handled(r)
<1>1. /\ logs[r] \in LogType /\ ptys[r] \in PtyType /\ disk \in DiskType
      /\ Typed /\ Stage(r) /\ Outlived /\ assertion = TRUE
    BY TypedIs DEF IInv, Outlived
<1>2. /\ logs'[r] = m /\ logs' \in [Processes -> LogType] /\ ptys' = ptys
      /\ \A q \in Processes : q # r => logs'[q] = logs[q]
    BY <1>1, AtOne
<1>3. disk' \in DiskType
    BY DEF Grows
<1>4. ptys[r].data = <<>>
    BY <1>1 DEF Stage
<1>5. Coming(logs[r], ptys[r], disk) = All(logs[r], disk)
    BY <1>1, <1>4, ArrivingIs DEF Coming, All
<1>6. Coming(logs'[r], ptys'[r], disk') = All(m, disk')
  <2>1. \A d \in DiskType : Coming(m, ptys[r], d) = All(m, d)
      BY <1>1, <1>4, ArrivingIs DEF Coming, All
  <2> QED
      BY <1>2, <1>3, <2>1
<1>7. Typed'
    BY <1>1, <1>2, <1>3 DEF Typed
<1>8. Changed(r)
    BY <1>2, <1>5, <1>6, <1>7 DEF Changed
<1>9. Stage(r)'
    BY <1>1, <1>2, <1>4 DEF Stage
<1>10. Outlived'
    BY <1>1, <1>2, OutlivedStays
<1> QED
    BY <1>1, <1>2, <1>8, <1>9, <1>10 DEF Handled

\* The first log of the list goes.
LEMMA TailOutlived ==
    ASSUME Typed, Outlived, NEW r \in Processes, detached # <<>>, detached' = Tail(detached),
           \A p \in Processes : p # r => logs'[p] = logs[p],
           logs'[r].state \in {"detached", "freed"}
    PROVE  Outlived' /\ detached' \in Seq(Processes)
<1>1. detached \in Seq(Processes) /\ \A i \in 1..Len(detached) : detached[i] \in Processes
    BY ElementOfSeq DEF Typed
<1>2. /\ detached' \in Seq(Processes)
      /\ \A i \in 1..Len(detached') : i + 1 \in 1..Len(detached) /\ detached'[i] = detached[i + 1]
    BY <1>1
<1>3. \A i \in 1..Len(detached') : logs'[detached'[i]].state \in {"detached", "freed"}
    BY <1>1, <1>2 DEF Outlived
<1> QED
    BY <1>2, <1>3 DEF Outlived

\* log_clear_unflushed goes on with the next log of the list.
LEMMA ClearOneHandled ==
    ASSUME IInv, ClearOne
    PROVE  \E r \in Processes : Handled(r)
<1> DEFINE r == Head(detached)
           l == logs[r]
           o == LogFileOpen(l, disk)
           w == FlushOld(o.l, o.d)
           e == LogDestroy(w.l, w.d, ptys[r])
           Free(d) ==
             /\ logs' = [logs EXCEPT ![r] = Freed]
             /\ ptys' = [ptys EXCEPT ![r].data = <<>>]
             /\ disk' = d
             /\ detached' = Tail(detached)
             /\ UNCHANGED <<clearing, assertion>>
           Fail(m, d, sound) ==
             /\ logs' = [logs EXCEPT ![r] = m]
             /\ disk' = d
             /\ clearing' = FALSE
             /\ assertion' = sound
             /\ UNCHANGED <<ptys, detached>>
<1>1. /\ clearing /\ detached # <<>>
      /\ IF l.unflushed = <<>> THEN Free(disk)
         ELSE IF ~(l.open_errno # "none" /\ (l.remote_closed \/ l.io)) THEN Fail(l, disk, FALSE)
         ELSE IF ~o.ok THEN Fail(o.l, disk, assertion)
         ELSE IF ~w.ok THEN Fail(w.l, w.d, assertion)
         ELSE Free(e)
      /\ UNCHANGED <<flushed, made, spoilt>>
    BY DEF ClearOne
<1>2. /\ r \in Processes /\ logs[r].state \in {"detached", "freed"}
  <2>1. detached \in Seq(Processes) /\ detached # <<>>
      BY <1>1 DEF IInv, Typed
  <2>2. 1 \in 1..Len(detached) /\ r = detached[1]
      BY <2>1
  <2> QED
      BY <2>1, <2>2, ElementOfSeq DEF IInv
<1> HIDE DEF r
<1>3. /\ l \in LogType /\ ptys[r] \in PtyType /\ disk \in DiskType
      /\ Typed /\ Told(l) /\ Stage(r) /\ Outlived /\ Ordered /\ assertion = TRUE
    BY <1>2, TypedIs DEF IInv, Outlived
<1>4. /\ ptys[r].data = <<>> /\ ptys[r].writer # "process" /\ l.state # "none"
      /\ (l.state = "freed" => l.unflushed = <<>>)
      /\ (l.io \/ l.remote_closed \/ l.state = "freed")
    BY <1>2, <1>3 DEF Stage, Freed, NoLog
<1>5. Coming(l, ptys[r], disk) = All(l, disk)
    BY <1>3, <1>4, ArrivingIs DEF Coming, All
<1>6. ~spoilt => l.recv_buf = <<>> /\ Fit(l, disk)
  <2> SUFFICES ASSUME ~spoilt PROVE l.recv_buf = <<>> /\ Fit(l, disk)
      OBVIOUS
  <2>1. Unspoilt
      BY DEF IInv
  <2>2. PICK p : IsRead(logs[r], ptys[r].data, p)
      BY DEF IsRead
  <2>3. Room(l, disk)
      BY <1>2, <1>3, <2>1, <2>2, RoomForAll
  <2> QED
      BY <1>1, <1>2, <2>1, <2>3 DEF Unspoilt, Room
<1>7. /\ Moved(l, disk, o.l, o.d) /\ All(o.l, o.d) = All(l, disk)
      /\ o.l \in LogType /\ o.d \in DiskType
    BY <1>3, OpenMoves, Opens
<1>8. /\ o.l.recv_buf = l.recv_buf /\ o.l.unflushed = l.unflushed /\ o.l.open_errno # "none"
      /\ o.l.state = l.state /\ o.l.io = l.io /\ o.l.remote_closed = l.remote_closed
      /\ o.ok => o.l.fd = o.d.inode /\ o.d.exists
      /\ ~o.ok => o.d = disk
      /\ disk.mode = "writeable" /\ disk.space > 0 => o.ok
      /\ o.ok \in BOOLEAN
    BY <1>3, Opens
<1>9. o.ok => FlushDone(o.l, o.d, w)
    BY <1>7, <1>8, FlushMoves
<1>10. /\ disk.file \in Seq(Piece) /\ All(l, disk) \in Seq(Piece)
       /\ l.unflushed \in Seq(Piece) /\ l.recv_buf \in Seq(Piece)
    BY <1>3, AllIs
<1> HIDE DEF l, o, w, e
<1>11. /\ logs[r] = l
    BY DEF l
<1>12. ASSUME NEW d, Free(d), Grows(disk, d), Begins(d.file, All(l, disk)),
              ~spoilt => d.file = All(l, disk)
       PROVE  Handled(r)
  <2>1. /\ logs' = [logs EXCEPT ![r] = Freed] /\ ptys' = [ptys EXCEPT ![r].data = <<>>]
        /\ disk' = d /\ detached' = Tail(detached) /\ UNCHANGED <<clearing, assertion>>
      BY <1>12
  <2>2. /\ ptys'[r].data = <<>> /\ ptys'[r].writer = ptys[r].writer
        /\ \A q \in Processes : q # r => ptys'[q] = ptys[q]
        /\ ptys' \in [Processes -> PtyType]
      BY <1>2, <1>3, <2>1, PtyAtOne
  <2>3. logs'[r] = Freed /\ \A p \in Processes : p # r => logs'[p] = logs[p]
      BY <1>2, <1>3, <2>1, AtOne
  <2>4. Freed.state = "freed"
      BY DEF Freed, NoLog
  <2>5. Outlived' /\ detached' \in Seq(Processes)
      BY <1>1, <1>2, <1>3, <2>1, <2>3, <2>4, TailOutlived
  <2>6. Grows(disk, disk') /\ Begins(disk'.file, Coming(logs[r], ptys[r], disk))
        /\ (~spoilt => disk'.file = Coming(logs[r], ptys[r], disk))
      BY <1>5, <1>11, <1>12, <2>1
  <2> QED
      BY <1>1, <1>2, <1>4, <1>11, <2>1, <2>2, <2>5, <2>6, FreeHandled
<1>13. CASE l.unflushed = <<>>
  <2>1. Free(disk)
      BY <1>1, <1>13
  <2>2. Begins(disk.file, All(l, disk))
      BY <1>10, FileBegins DEF All
  <2>3. ~spoilt => disk.file = All(l, disk)
      BY <1>3, <1>6, <1>13, AllEmpty
  <2>4. Grows(disk, disk)
      BY <1>3, GrowsItself
  <2> HIDE DEF Free
  <2> QED
      BY <1>2, <1>12, <2>1, <2>2, <2>3, <2>4
<1>14. l.unflushed # <<>> => l.open_errno # "none" /\ (l.remote_closed \/ l.io) /\ l.state = "detached"
    BY <1>2, <1>3, <1>4, <1>11 DEF Told
<1>15. ASSUME NEW m \in LogType, NEW d, Fail(m, d, assertion), spoilt, Grows(disk, d),
              Told(m), m.state = l.state, m.io = l.io, m.remote_closed = l.remote_closed,
              l.state = "detached", Begins(All(m, d), All(l, disk))
       PROVE  Handled(r)
  <2>1. /\ logs' = [logs EXCEPT ![r] = m] /\ disk' = d /\ clearing' = FALSE
        /\ UNCHANGED <<ptys, detached, assertion>>
      BY <1>15
  <2>2. Grows(disk, disk') /\ Begins(All(m, disk'), All(logs[r], disk))
      BY <1>11, <1>15, <2>1
  <2> QED
      BY <1>1, <1>2, <1>11, <1>15, <2>1, <2>2, FailHandled
<1>16. CASE l.unflushed # <<>> /\ ~o.ok
  <2>1. Fail(o.l, disk, assertion)
      BY <1>1, <1>14, <1>16
  <2>2. spoilt
      BY <1>3, <1>6, <1>8, <1>16, SomeSpace
  <2>3. Told(o.l) /\ Begins(All(o.l, disk), All(l, disk)) /\ Grows(disk, disk)
      BY <1>3, <1>7, <1>8, <1>16, GrowsItself DEF Told, Moved
  <2> HIDE DEF Fail
  <2> QED
      BY <1>2, <1>7, <1>8, <1>14, <1>15, <1>16, <2>1, <2>2, <2>3
<1>17. ASSUME o.ok
       PROVE  /\ w.l \in LogType /\ w.d \in DiskType /\ Told(w.l) /\ Grows(disk, w.d)
              /\ All(w.l, w.d) = All(l, disk) /\ w.l.recv_buf = l.recv_buf /\ w.ok \in BOOLEAN
              /\ w.l.state = l.state /\ w.l.io = l.io /\ w.l.remote_closed = l.remote_closed
              /\ (Fit(l, disk) => w.ok /\ w.l.unflushed = <<>>)
  <2>1. FlushDone(o.l, o.d, w)
      BY <1>9, <1>17
  <2>2. w.l \in LogType /\ w.d \in DiskType
      BY <2>1 DEF FlushDone, Moved, Grows
  <2>3. Moved(l, disk, w.l, w.d)
      BY <1>3, <1>7, <1>11, <2>1, MovedOn DEF FlushDone
  <2>4. Told(w.l)
      BY <1>8, <2>1 DEF FlushDone, Told
  <2>5. Fit(l, disk) => Fit(o.l, o.d)
      BY <1>3, <1>7, <1>11, RoomStays
  <2> QED
      BY <1>7, <1>8, <2>1, <2>2, <2>3, <2>4, <2>5 DEF FlushDone, Moved
<1>18. CASE l.unflushed # <<>> /\ o.ok /\ ~w.ok
  <2>1. Fail(w.l, w.d, assertion)
      BY <1>1, <1>14, <1>18
  <2>2. spoilt
      BY <1>6, <1>17, <1>18
  <2>3. Begins(All(w.l, w.d), All(l, disk))
      BY <1>10, <1>17, <1>18, BeginsItself
  <2> HIDE DEF Fail
  <2> QED
      BY <1>2, <1>14, <1>15, <1>17, <1>18, <2>1, <2>2, <2>3
<1>19. CASE l.unflushed # <<>> /\ o.ok /\ w.ok
  <2>1. Free(e)
      BY <1>1, <1>14, <1>19
  <2>2. DestroyDone(w.l, w.d, e)
      BY <1>3, <1>4, <1>17, <1>19, DestroyMoves DEF e
  <2>3. Grows(disk, e) /\ Begins(e.file, All(l, disk))
    <3>1. Grows(w.d, e) /\ Begins(e.file, All(w.l, w.d))
        BY <2>2 DEF DestroyDone
    <3> QED
        BY <1>3, <1>17, <1>19, <3>1, GrowsOn
  <2>4. ~spoilt => e.file = All(l, disk)
      BY <1>6, <1>17, <1>19, <2>2 DEF DestroyDone
  <2> HIDE DEF Free
  <2> QED
      BY <1>2, <1>12, <2>1, <2>3, <2>4
<1> QED
    BY <1>2, <1>8, <1>13, <1>16, <1>17, <1>18, <1>19

\* The next process is started.
LEMMA StartHandled ==
    ASSUME IInv, NEW r \in Processes, Start(r)
    PROVE  Handled(r)
<1>1. /\ logs[r] \in LogType /\ ptys[r] \in PtyType /\ disk \in DiskType
      /\ Typed /\ Stage(r) /\ Outlived /\ assertion = TRUE
    BY TypedIs DEF IInv, Outlived
<1>2. /\ logs[r].state = "none"
      /\ logs' = [logs EXCEPT ![r] = NewLog]
      /\ ptys' = [ptys EXCEPT ![r].writer = "process"]
      /\ UNCHANGED <<disk, detached, clearing, flushed, made, spoilt, assertion>>
    BY DEF Start
<1>3. logs[r] = NoLog /\ ptys[r].data = <<>>
    BY <1>1, <1>2 DEF Stage
<1>4. /\ NewLog.state = "attached" /\ NewLog.io = TRUE /\ NewLog.recv_buf = <<>>
      /\ NewLog.unflushed = <<>> /\ NewLog.fd = NoFd
      /\ NoLog.recv_buf = <<>> /\ NoLog.unflushed = <<>>
    BY DEF NewLog, NoLog
<1>5. NewLog \in LogType
  <2>1. <<>> \in Seq(Piece)
      OBVIOUS
  <2> QED
      BY <2>1 DEF NewLog, NoLog, NoFd, LogType
<1>6. /\ logs'[r] = NewLog /\ logs' \in [Processes -> LogType]
      /\ \A q \in Processes : q # r => logs'[q] = logs[q]
    BY <1>1, <1>2, <1>5, AtOne
<1>7. /\ ptys'[r].data = <<>> /\ ptys'[r].writer = "process"
      /\ \A q \in Processes : q # r => ptys'[q] = ptys[q]
      /\ ptys' \in [Processes -> PtyType]
  <2>1. ptys \in [Processes -> PtyType]
      BY <1>1 DEF Typed
  <2>2. ptys' = [ptys EXCEPT ![r] = [ptys[r] EXCEPT !.writer = "process"]]
      BY <1>2, <2>1
  <2>3. /\ [ptys[r] EXCEPT !.writer = "process"] \in PtyType
        /\ [ptys[r] EXCEPT !.writer = "process"].data = ptys[r].data
        /\ [ptys[r] EXCEPT !.writer = "process"].writer = "process"
      BY <1>1 DEF PtyType
  <2> QED
      BY <1>3, <2>1, <2>2, <2>3
<1>8. Coming(logs'[r], ptys'[r], disk') = Coming(logs[r], ptys[r], disk)
    BY <1>2, <1>3, <1>4, <1>6, <1>7 DEF Coming, Arriving
<1>9. Typed'
    BY <1>1, <1>2, <1>6, <1>7 DEF Typed
<1>10. Changed(r)
  <2>1. Begins(Coming(logs[r], ptys[r], disk), Coming(logs[r], ptys[r], disk))
      BY <1>1, ArrivingIs, BeginsItself
  <2> QED
      BY <1>1, <1>2, <1>6, <1>7, <1>8, <1>9, <2>1, GrowsItself DEF Changed
<1>11. Stage(r)'
    BY <1>4, <1>6, <1>7 DEF Stage
<1>12. Outlived'
    BY <1>1, <1>2, <1>6, OutlivedStays
<1>13. Told(NewLog) /\ Waits(NewLog)
    BY <1>4 DEF Told, Waits
<1> QED
    BY <1>1, <1>2, <1>4, <1>6, <1>8, <1>10, <1>11, <1>12, <1>13 DEF Handled, Kept

\* A process ends, or what it has left does.
LEMMA EndHandled ==
    ASSUME IInv, NEW r \in Processes, End(r)
    PROVE  Handled(r)
<1>1. /\ logs[r] \in LogType /\ ptys[r] \in PtyType /\ disk \in DiskType
      /\ Typed /\ Stage(r) /\ Told(logs[r]) /\ Outlived /\ assertion = TRUE
    BY TypedIs DEF IInv, Outlived
<1>2. PICK x \in {"leaked", "gone"} : ptys' = [ptys EXCEPT ![r].writer = x]
    BY DEF End
<1>3. UNCHANGED <<logs, disk, detached, clearing, flushed, made, spoilt, assertion>>
    BY DEF End
<1>4. /\ ptys'[r].data = ptys[r].data /\ ptys'[r].writer = x
      /\ \A q \in Processes : q # r => ptys'[q] = ptys[q]
      /\ ptys' \in [Processes -> PtyType]
  <2>1. ptys \in [Processes -> PtyType]
      BY <1>1 DEF Typed
  <2>2. ptys' = [ptys EXCEPT ![r] = [ptys[r] EXCEPT !.writer = x]]
      BY <1>2, <2>1
  <2>3. /\ [ptys[r] EXCEPT !.writer = x] \in PtyType
        /\ [ptys[r] EXCEPT !.writer = x].data = ptys[r].data
        /\ [ptys[r] EXCEPT !.writer = x].writer = x
      BY <1>1 DEF PtyType
  <2> QED
      BY <2>1, <2>2, <2>3
<1>5. Coming(logs'[r], ptys'[r], disk') = Coming(logs[r], ptys[r], disk)
    BY <1>3, <1>4 DEF Coming, Arriving
<1>6. Typed'
    BY <1>1, <1>3, <1>4 DEF Typed
<1>7. Changed(r)
  <2>1. Begins(Coming(logs[r], ptys[r], disk), Coming(logs[r], ptys[r], disk))
      BY <1>1, ArrivingIs, BeginsItself
  <2> QED
      BY <1>1, <1>3, <1>4, <1>5, <1>6, <2>1, GrowsItself DEF Changed
<1>8. Stage(r)'
  <2>1. logs[r].state # "none"
    <3>1. ptys[r].writer # "none"
        BY DEF End
    <3> QED
        BY <1>1, <3>1 DEF Stage
  <2> QED
      BY <1>1, <1>2, <1>3, <1>4, <2>1 DEF Stage
<1>9. Outlived'
    BY <1>1, <1>3, OutlivedStays
<1>10. ~spoilt => logs[r].recv_buf = <<>> /\ Waits(logs[r])
    BY DEF IInv, Unspoilt
<1> QED
    BY <1>1, <1>3, <1>5, <1>7, <1>8, <1>9, <1>10 DEF Handled, Kept
-----------------------------------------------------------------------------
(* Output, and the disk *)

IsNext(r, s, m, t, mm) ==
    /\ mm = [m EXCEPT ![r] = @ + 1]
    /\ t = Append(s, [run |-> r, number |-> m[r] + 1])

\* A piece written last, with the number that comes next.
LEMMA NextGood ==
    ASSUME NEW s \in Seq(Piece), NEW b \in Nat, NEW r \in Processes, b <= Len(s),
           NEW m \in [Processes -> Nat], NEW mm, NEW t, IsNext(r, s, m, t, mm), Good(s, b, r, m)
    PROVE  /\ Good(t, b, r, mm)
           /\ Complete(s, r, m[r]) => Complete(t, r, mm[r])
<1> DEFINE x == [run |-> r, number |-> m[r] + 1]
<1>0. t = Append(s, x)
    BY DEF IsNext
<1>1. /\ m[r] \in Nat /\ mm[r] = m[r] + 1 /\ \A p \in Processes : p # r => mm[p] = m[p]
      /\ \A p \in Processes : m[p] \in Nat
    BY DEF IsNext
<1>2. x \in Piece /\ x.run = r /\ x.number = m[r] + 1
    BY <1>1 DEF Piece
<1>9. x = [run |-> r, number |-> m[r] + 1]
    OBVIOUS
<1> HIDE DEF x
<1>3. /\ Len(t) = Len(s) + 1 /\ Len(s) \in Nat
      /\ \A i \in 1..Len(s) : t[i] = s[i]
      /\ t[Len(s) + 1] = x
    BY <1>0, <1>2
<1>4. \A i \in 1..Len(s) : s[i].run \in Processes /\ s[i].number \in 1..m[s[i].run]
  <2> TAKE i \in 1..Len(s)
  <2>1. s[i] \in Piece
      BY ElementOfSeq
  <2> QED
      BY <2>1 DEF Piece, Good
<1>5. ASSUME NEW i \in 1..Len(t) PROVE t[i].number \in 1..mm[t[i].run]
  <2>1. CASE i = Len(s) + 1
      BY <1>1, <1>2, <1>3, <2>1
  <2>2. CASE i \in 1..Len(s)
    <3>1. PICK q \in Processes : q = t[i].run
        BY <1>3, <1>4, <2>2
    <3>2. t[i].number \in 1..m[q]
        BY <1>3, <1>4, <2>2, <3>1
    <3>3. m[q] \in Nat /\ mm[q] \in Nat /\ m[q] <= mm[q]
        BY <1>1
    <3> QED
        BY <3>1, <3>2, <3>3
  <2> QED
      BY <1>3, <2>1, <2>2
<1>6. ASSUME NEW i \in 1..Len(t), i > b PROVE t[i].run = r
  <2>1. CASE i = Len(s) + 1
      BY <1>2, <1>3, <2>1
  <2>2. CASE i \in 1..Len(s)
      BY <1>3, <1>6, <2>2 DEF Good
  <2> QED
      BY <1>3, <2>1, <2>2
<1>7. ASSUME NEW i \in 1..Len(t), NEW j \in 1..Len(t), i < j, t[i].run = r, t[j].run = r
      PROVE  t[i].number < t[j].number
  <2>1. i \in 1..Len(s) /\ t[i] = s[i]
      BY <1>3, <1>7
  <2>2. CASE j = Len(s) + 1
    <3>1. t[i].number \in 1..m[r]
        BY <1>4, <1>7, <2>1
    <3> QED
        BY <1>1, <1>2, <1>3, <2>2, <3>1
  <2>3. CASE j \in 1..Len(s)
      BY <1>3, <1>7, <2>1, <2>3 DEF Good
  <2> QED
      BY <1>3, <2>2, <2>3
<1>8. ASSUME Complete(s, r, m[r]) PROVE Complete(t, r, mm[r])
  <2> SUFFICES ASSUME NEW k \in 1..mm[r]
               PROVE  \E i \in 1..Len(t) : t[i] = [run |-> r, number |-> k]
      BY DEF Complete
  <2>1. CASE k = m[r] + 1
    <3>1. Len(s) + 1 \in 1..Len(t)
        BY <1>3
    <3> QED
        BY <1>3, <1>9, <2>1, <3>1
  <2>2. CASE k \in 1..m[r]
    <3>1. PICK i \in 1..Len(s) : s[i] = [run |-> r, number |-> k]
        BY <1>8, <2>2 DEF Complete
    <3> QED
        BY <1>3, <3>1
  <2> QED
      BY <1>1, <2>1, <2>2
<1> QED
    BY <1>5, <1>6, <1>7, <1>8 DEF Good

\* For the other processes there is only more that has been written.
LEMMA MoreGood ==
    ASSUME NEW s \in Seq(Piece), NEW b, NEW p, NEW r \in Processes,
           NEW m, NEW mm, m \in [Processes -> Nat], mm = [m EXCEPT ![r] = @ + 1],
           Good(s, b, p, m)
    PROVE  Good(s, b, p, mm)
<1>1. \A q \in Processes : m[q] \in Nat /\ mm[q] \in Nat /\ m[q] <= mm[q]
    OBVIOUS
<1>2. ASSUME NEW i \in 1..Len(s) PROVE s[i].number \in 1..mm[s[i].run]
  <2>1. s[i] \in Piece
      BY ElementOfSeq
  <2>2. s[i].run \in Processes /\ s[i].number \in 1..m[s[i].run]
      BY <2>1 DEF Piece, Good
  <2> QED
      BY <1>1, <2>2
<1> QED
    BY <1>2 DEF Good

\* What a process writes comes last in its whole log.
LEMMA WholeGrows ==
    ASSUME NEW l \in LogType, NEW pty \in PtyType, NEW d \in DiskType, l.io,
           NEW x \in Piece, NEW qty, qty.data = Append(pty.data, x)
    PROVE  Whole(l, qty, d) = Append(Whole(l, pty, d), x)
<1>1. /\ l.unflushed \in Seq(Piece) /\ d.file \in Seq(Piece) /\ d.archive \in Seq(Piece)
      /\ l.recv_buf \in Seq(Piece) /\ pty.data \in Seq(Piece)
    BY ArrivingIs
<1> DEFINE g == d.archive \o d.file \o l.unflushed \o l.recv_buf
<1>2. g \in Seq(Piece)
  <2>1. d.archive \o d.file \in Seq(Piece)
      BY <1>1, Two
  <2>2. (d.archive \o d.file) \o l.unflushed \in Seq(Piece)
      BY <1>1, <2>1, Two
  <2> QED
      BY <1>1, <2>2, Two
<1>3. Whole(l, qty, d) = g \o Append(pty.data, x) /\ Whole(l, pty, d) = g \o pty.data
    BY DEF Whole
<1> HIDE DEF g
<1>4. \A a, c \in Seq(Piece) : a \o Append(c, x) = Append(a \o c, x)
    BY ConcatAssociative, AppendIsConcat
<1> QED
    BY <1>1, <1>2, <1>3, <1>4

\* A process writes.
LEMMA OutputKeeps ==
    ASSUME IInv, NEW r \in Processes, Output(r)
    PROVE  IInv'
<1> DEFINE x == [run |-> r, number |-> made[r] + 1]
<1>1. /\ logs[r] \in LogType /\ ptys[r] \in PtyType /\ disk \in DiskType
      /\ Typed /\ Stage(r)
    BY TypedIs DEF IInv
<1>2. /\ ptys[r].writer = "process" /\ made[r] < MaxOutput
      /\ made' = [made EXCEPT ![r] = @ + 1]
      /\ ptys' = [ptys EXCEPT ![r].data = Append(@, x)]
      /\ UNCHANGED <<logs, disk, detached, clearing, flushed, spoilt, assertion>>
    BY DEF Output
<1>3. logs[r].state = "attached" /\ logs[r].io
    BY <1>1, <1>2 DEF Stage
<1>4. made \in [Processes -> Nat] /\ made[r] \in Nat /\ MaxOutput \in Nat
    BY <1>1, LogAssumption DEF Typed
<1>5. x \in Piece
    BY <1>4 DEF Piece
<1>6. /\ ptys'[r].data = Append(ptys[r].data, x) /\ ptys'[r].writer = "process"
      /\ \A q \in Processes : q # r => ptys'[q] = ptys[q]
      /\ ptys' \in [Processes -> PtyType]
  <2> HIDE DEF x
  <2>1. ptys \in [Processes -> PtyType]
      BY <1>1 DEF Typed
  <2>2. Append(ptys[r].data, x) \in Seq(Piece)
      BY <1>1, <1>5 DEF PtyType
  <2>3. ptys' = [ptys EXCEPT ![r] = [ptys[r] EXCEPT !.data = Append(ptys[r].data, x)]]
      BY <1>2, <2>1
  <2> SUFFICES ASSUME NEW y \in Seq(Piece), y = Append(ptys[r].data, x),
                      ptys' = [ptys EXCEPT ![r] = [ptys[r] EXCEPT !.data = y]]
               PROVE  /\ ptys'[r].data = y /\ ptys'[r].writer = "process"
                      /\ \A q \in Processes : q # r => ptys'[q] = ptys[q]
                      /\ ptys' \in [Processes -> PtyType]
      BY <2>2, <2>3
  <2>4. /\ [ptys[r] EXCEPT !.data = y] \in PtyType
        /\ [ptys[r] EXCEPT !.data = y].data = y
        /\ [ptys[r] EXCEPT !.data = y].writer = ptys[r].writer
      BY <1>1 DEF PtyType
  <2> QED
      BY <1>2, <2>1, <2>4
<1>7. made' \in [Processes -> 0..MaxOutput]
    BY <1>1, <1>2, <1>4 DEF Typed
<1>8. Typed'
    BY <1>1, <1>2, <1>6, <1>7 DEF Typed
<1>9. Whole(logs[r], ptys'[r], disk) = Append(Whole(logs[r], ptys[r], disk), x)
  <2> HIDE DEF x
  <2> SUFFICES ASSUME NEW qty, qty.data = Append(ptys[r].data, x)
               PROVE  Whole(logs[r], qty, disk) = Append(Whole(logs[r], ptys[r], disk), x)
      BY <1>6
  <2> QED
      BY <1>1, <1>3, <1>5, WholeGrows
<1>10. /\ Base(disk) \in Nat /\ Base(disk) <= Len(Whole(logs[r], ptys[r], disk))
       /\ Whole(logs[r], ptys[r], disk) \in Seq(Piece)
  <2>1. /\ Whole(logs[r], ptys[r], disk) \in Seq(Piece)
        /\ Size(Whole(logs[r], ptys[r], disk))
             = Base(disk) + Size(logs[r].unflushed) + Size(Arriving(logs[r], ptys[r]))
        /\ Size(logs[r].unflushed) \in Nat /\ Size(Arriving(logs[r], ptys[r])) \in Nat
      BY <1>1, WholeSize
  <2>2. Base(disk) \in Nat
      BY <1>1, BaseIs
  <2>3. Base(disk) <= Size(Whole(logs[r], ptys[r], disk))
      BY <2>1, <2>2
  <2> QED
      BY <2>1, <2>2, <2>3 DEF Size
<1>11. /\ Good(Logged(r)', Base(disk), r, made')
       /\ Complete(Logged(r), r, made[r]) => Complete(Logged(r)', r, made'[r])
  <2>1. Good(Whole(logs[r], ptys[r], disk), Base(disk), r, made)
      BY LoggedIs DEF IInv, Ordered, Base
  <2>2. /\ Good(Whole(logs[r], ptys'[r], disk), Base(disk), r, made')
        /\ Complete(Whole(logs[r], ptys[r], disk), r, made[r])
             => Complete(Whole(logs[r], ptys'[r], disk), r, made'[r])
    <3>1. IsNext(r, Whole(logs[r], ptys[r], disk), made, Whole(logs[r], ptys'[r], disk), made')
        BY <1>2, <1>9 DEF IsNext
    <3> SUFFICES ASSUME NEW s \in Seq(Piece), NEW b \in Nat, b <= Len(s), NEW t, NEW mm,
                        IsNext(r, s, made, t, mm), Good(s, b, r, made)
                 PROVE  Good(t, b, r, mm) /\ (Complete(s, r, made[r]) => Complete(t, r, mm[r]))
        BY <1>10, <2>1, <3>1
    <3> QED
        BY <1>4, NextGood
  <2>3. Logged(r)' = Whole(logs[r], ptys'[r], disk) /\ Logged(r) = Whole(logs[r], ptys[r], disk)
      BY <1>2, LoggedIs
  <2> QED
      BY <2>2, <2>3
<1>12. ASSUME NEW p \in Processes, p # r
       PROVE  /\ Good(Logged(p)', Base(disk), p, made')
              /\ Complete(Logged(p), p, made[p]) => Complete(Logged(p)', p, made'[p])
  <2>1. Logged(p)' = Logged(p) /\ made'[p] = made[p]
      BY <1>2, <1>4, <1>6, <1>12 DEF Logged
  <2>2. Good(Logged(p), Base(disk), p, made)
      BY DEF IInv, Ordered, Base
  <2>3. Logged(p) \in Seq(Piece)
    <3>1. logs[p] \in LogType /\ ptys[p] \in PtyType
        BY <1>1, TypedIs
    <3> QED
        BY <1>1, <3>1, LoggedIs, WholeSize
  <2>4. Good(Logged(p), Base(disk), p, made')
      BY <1>2, <1>4, <2>2, <2>3, MoreGood
  <2> QED
      BY <2>1, <2>4
<1>13. Ordered'
  <2>1. Base(disk)' = Base(disk)
      BY <1>2 DEF Base
  <2>2. \A p \in Processes : Good(Logged(p)', Base(disk)', p, made')
      BY <1>11, <1>12, <2>1
  <2> QED
      BY <2>2 DEF Ordered, Base
<1>14. ~spoilt' => Unspoilt'
  <2> SUFFICES ASSUME ~spoilt PROVE Unspoilt'
      BY <1>2
  <2>1. Unspoilt
      BY DEF IInv
  <2>2. \A p \in Processes : Complete(Logged(p)', p, made'[p])
      BY <1>11, <1>12, <2>1 DEF Unspoilt
  <2> QED
      BY <1>2, <2>1, <2>2 DEF Unspoilt, Waits
<1>15. ASSUME NEW p \in Processes PROVE Told(logs[p])' /\ Stage(p)'
  <2>1. Told(logs[p]) /\ Stage(p)
      BY DEF IInv
  <2>2. CASE p = r
      BY <1>2, <1>3, <1>6, <2>1, <2>2 DEF Stage, Told
  <2>3. CASE p # r
      BY <1>2, <1>4, <1>6, <2>1, <2>3 DEF Stage, Told
  <2> QED
      BY <2>2, <2>3
<1> QED
    BY <1>2, <1>8, <1>13, <1>14, <1>15 DEF IInv

\* A step that is about no log.
LEMMA OutsideKeeps ==
    ASSUME IInv, disk' \in DiskType, clearing' \in BOOLEAN, flushed' \in BOOLEAN,
           spoilt' \in BOOLEAN, UNCHANGED <<logs, ptys, detached, made, assertion>>,
           \A r \in Processes : Logged(r)' = Logged(r),
           Base(disk') = Base(disk),
           ~spoilt' => /\ ~spoilt /\ disk'.mode # "absent"
                       /\ disk'.mode = "read-only" => ~disk'.exists /\ ~flushed' /\ ~clearing'
                       /\ disk'.space >= disk.space
    PROVE  IInv'
<1>1. Typed'
    BY DEF IInv, Typed
<1>2. Ordered'
  <2>1. \A r \in Processes : Good(Logged(r), Base(disk), r, made)
      BY DEF IInv, Ordered, Base
  <2>2. \A r \in Processes : Good(Logged(r)', Base(disk'), r, made')
      BY <2>1
  <2> QED
      BY <2>2 DEF Ordered, Base
<1>3. ~spoilt' => Unspoilt'
  <2> SUFFICES ASSUME ~spoilt' PROVE Unspoilt'
      OBVIOUS
  <2>1. Unspoilt
      BY DEF IInv
  <2>2. \A r \in Processes : Complete(Logged(r)', r, made'[r])
    <3>1. \A r \in Processes : Complete(Logged(r), r, made[r])
        BY <2>1 DEF Unspoilt
    <3> QED
        BY <3>1
  <2>3. \A r \in Processes : logs'[r].recv_buf = <<>> /\ Waits(logs[r])'
      BY <2>1 DEF Unspoilt, Waits
  <2>4. disk'.space + Size(disk'.archive) + Size(disk'.file) >= MaxSpace
    <3>1. disk \in DiskType
        BY DEF IInv, Typed
    <3>2. /\ Size(disk.archive) \in Nat /\ Size(disk.file) \in Nat
          /\ Size(disk'.archive) \in Nat /\ Size(disk'.file) \in Nat
        BY <3>1, BaseIs
    <3>3. disk.space \in Nat /\ disk'.space \in Nat /\ MaxSpace \in Nat
        BY <3>1, LogAssumption DEF DiskType
    <3>4. disk.space + Size(disk.archive) + Size(disk.file) >= MaxSpace
        BY <2>1 DEF Unspoilt
    <3>5. Size(disk'.archive) + Size(disk'.file) = Size(disk.archive) + Size(disk.file)
        BY DEF Base
    <3> QED
        BY <3>2, <3>3, <3>4, <3>5
  <2> QED
      BY <2>2, <2>3, <2>4 DEF Unspoilt
<1>4. ASSUME NEW r \in Processes PROVE Told(logs[r])' /\ Stage(r)'
  <2>1. Told(logs[r]) /\ Stage(r)
      BY DEF IInv
  <2> QED
      BY <2>1 DEF Told, Stage
<1>5. Outlived'
  <2>1. Outlived
      BY DEF IInv, Outlived
  <2> QED
      BY <2>1 DEF Outlived
<1>6. assertion' = TRUE
    BY DEF IInv
<1> QED
    BY <1>1, <1>2, <1>3, <1>4, <1>5, <1>6 DEF IInv, Outlived

\* log_clear_unflushed begins and ends.
LEMMA ClearKeeps ==
    ASSUME IInv, ClearUnflushed \/ ClearDone
    PROVE  IInv'
<1>1. UNCHANGED <<logs, ptys, disk, detached, made, spoilt, assertion>>
    BY DEF ClearUnflushed, ClearDone
<1>2. clearing' \in BOOLEAN /\ flushed' \in BOOLEAN /\ spoilt' \in BOOLEAN /\ disk' \in DiskType
    BY DEF ClearUnflushed, ClearDone, IInv, Typed
<1>3. \A r \in Processes : Logged(r)' = Logged(r)
    BY <1>1 DEF Logged
<1>4. Base(disk') = Base(disk) /\ disk'.space >= disk.space
  <2>1. disk.space \in Nat
      BY DEF IInv, Typed, DiskType
  <2> QED
      BY <1>1, <2>1
<1>5. ~spoilt' => /\ ~spoilt /\ disk'.mode # "absent"
                  /\ disk'.mode = "read-only" => ~disk'.exists /\ ~flushed' /\ ~clearing'
  <2>1. ~spoilt' => Unspoilt /\ ~spoilt
      BY <1>1 DEF IInv
  <2>2. Unspoilt => disk'.mode # "absent" /\ disk'.mode # "read-only"
      BY <1>1 DEF Unspoilt, ClearUnflushed, ClearDone
  <2> QED
      BY <2>1, <2>2
<1> QED
    BY <1>1, <1>2, <1>3, <1>4, <1>5, OutsideKeeps

\* The disk is changed by others.
LEMMA DiskKeeps ==
    ASSUME IInv, Mount \/ Use \/ Rotate
    PROVE  IInv'
<1>1. disk \in DiskType /\ spoilt \in BOOLEAN /\ clearing \in BOOLEAN /\ flushed \in BOOLEAN
    BY DEF IInv, Typed
<1>2. /\ disk.mode \in {"absent", "read-only", "writeable"} /\ disk.space \in Nat
      /\ disk.exists \in BOOLEAN /\ disk.inode \in Nat \ {0} /\ disk.file \in Seq(Piece)
      /\ disk.archive \in Seq(Piece) /\ disk.changes \in Nat
    BY <1>1 DEF DiskType
<1>3. UNCHANGED <<logs, ptys, detached, clearing, flushed, made, assertion>>
    BY DEF Mount, Use, Rotate, Change
<1>4. ~spoilt' => Unspoilt /\ ~spoilt
    BY DEF Mount, Use, Rotate, Change, IInv
<1>5. spoilt' \in BOOLEAN
    BY <1>1 DEF Mount, Use, Rotate, Change
<1>9. PICK c \in Nat : c = disk.changes + 1
    BY <1>2
<1>6. CASE Mount
  <2>1. PICK m \in {"read-only", "writeable"} : m # disk.mode /\ Change([disk EXCEPT !.mode = m])
      BY <1>6 DEF Mount
  <2>2. disk' = [disk EXCEPT !.mode = m, !.changes = c]
      BY <1>1, <1>9, <2>1 DEF Change, DiskType
  <2>3. /\ disk' \in DiskType /\ disk'.file = disk.file /\ disk'.archive = disk.archive
        /\ disk'.space = disk.space /\ disk'.exists = disk.exists /\ disk'.mode = m
      BY <1>1, <2>2 DEF DiskType
  <2>4. \A r \in Processes : Logged(r)' = Logged(r)
      BY <1>3, <2>3 DEF Logged
  <2>5. disk'.mode = "read-only" => spoilt' \/ disk.mode = "absent"
      BY <1>1, <1>2, <2>1 DEF Change, DiskType
  <2>6. ~spoilt' => disk'.mode # "absent" /\ disk'.mode # "read-only"
      BY <1>4, <2>1, <2>3, <2>5 DEF Unspoilt
  <2>7. Base(disk') = Base(disk) /\ disk'.space >= disk.space
      BY <1>2, <2>3 DEF Base
  <2> QED
      BY <1>1, <1>3, <1>4, <1>5, <2>3, <2>4, <2>6, <2>7, OutsideKeeps
<1>7. CASE Use
  <2>1. PICK n \in 0..MaxSpace : Change([disk EXCEPT !.space = n])
      BY <1>7 DEF Use
  <2>2. disk' = [disk EXCEPT !.space = n, !.changes = c]
      BY <1>1, <1>9, <2>1 DEF Change, DiskType
  <2>8. n \in Nat
      BY <2>1, LogAssumption
  <2>3. /\ disk' \in DiskType /\ disk'.file = disk.file /\ disk'.archive = disk.archive
        /\ disk'.space = n /\ disk'.exists = disk.exists /\ disk'.mode = disk.mode
      BY <1>1, <2>2, <2>8 DEF DiskType
  <2>4. \A r \in Processes : Logged(r)' = Logged(r)
      BY <1>3, <2>3 DEF Logged
  <2>5. n < disk.space => spoilt'
      BY <1>1, <1>2, <2>1 DEF Change, DiskType
  <2>6. ~spoilt' => /\ disk'.mode # "absent"
                    /\ disk'.mode = "read-only" => ~disk'.exists /\ ~flushed' /\ ~clearing'
      BY <1>3, <1>4, <2>3 DEF Unspoilt
  <2>7. Base(disk') = Base(disk) /\ (~spoilt' => disk'.space >= disk.space)
      BY <1>2, <2>1, <2>3, <2>5, LogAssumption DEF Base
  <2> QED
      BY <1>1, <1>3, <1>4, <1>5, <2>3, <2>4, <2>6, <2>7, OutsideKeeps
<1>8. CASE Rotate
  <2> DEFINE g == disk.archive \o disk.file
  <2>9. PICK n \in Nat \ {0} : n = disk.inode + 1
      BY <1>2
  <2>1. /\ disk' = [disk EXCEPT !.exists = FALSE, !.inode = n, !.archive = g, !.file = <<>>,
                                !.changes = c]
        /\ disk.mode = "writeable"
      BY <1>1, <1>8, <1>9, <2>9 DEF Rotate, Change, DiskType
  <2>2. g \in Seq(Piece) /\ Len(g) = Len(disk.archive) + Len(disk.file) /\ <<>> \in Seq(Piece)
        /\ g \o <<>> = g
      BY <1>2, Two, ConcatEmptySeq
  <2>3. g = disk.archive \o disk.file
      OBVIOUS
  <2> HIDE DEF g
  <2>4. /\ disk' \in DiskType /\ disk'.file = <<>> /\ disk'.archive = g
        /\ disk'.space = disk.space /\ disk'.mode = disk.mode
      BY <1>1, <2>1, <2>2 DEF DiskType
  <2>5. \A r \in Processes : Logged(r)' = Logged(r)
    <3> TAKE r \in Processes
    <3> DEFINE w == IF logs[r].io THEN ptys[r].data ELSE <<>>
    <3>1. Logged(r) = g \o logs[r].unflushed \o logs[r].recv_buf \o w
        BY <2>3 DEF Logged
    <3>2. Logged(r)' = g \o <<>> \o logs[r].unflushed \o logs[r].recv_buf \o w
        BY <1>3, <2>4 DEF Logged
    <3> HIDE DEF w
    <3> QED
        BY <2>2, <3>1, <3>2
  <2>6. Base(disk') = Base(disk)
    <3>1. Size(g) = Size(disk.archive) + Size(disk.file) /\ Size(<<>>) = 0 /\ Size(g) \in Nat
      <4>1. Size(g) = Size(disk.archive) + Size(disk.file)
          BY <2>2 DEF Size
      <4> QED
          BY <2>2, <4>1, SizeIs
    <3> QED
        BY <2>4, <3>1 DEF Base
  <2>7. disk'.space >= disk.space /\ disk'.mode # "absent" /\ disk'.mode # "read-only"
      BY <1>2, <2>1, <2>4
  <2> QED
      BY <1>1, <1>3, <1>4, <1>5, <2>4, <2>5, <2>6, <2>7, OutsideKeeps
<1> QED
    BY <1>6, <1>7, <1>8
-----------------------------------------------------------------------------
(* The theorem *)

\* Before the first process is started nothing is logged.
LEMMA InitKeeps ==
    ASSUME LogInit
    PROVE  IInv
<1>1. PICK m \in {"absent", "read-only", "writeable"} :
        /\ disk = [mode |-> m, space |-> MaxSpace, exists |-> FALSE, inode |-> 1, file |-> <<>>,
                   archive |-> <<>>, changes |-> 0]
        /\ spoilt = (m = "absent")
    BY DEF LogInit
<1>2. /\ logs = [r \in Processes |-> NoLog]
      /\ ptys = [r \in Processes |-> [data |-> <<>>, writer |-> "none"]]
      /\ detached = <<>> /\ clearing = FALSE /\ flushed = FALSE
      /\ made = [r \in Processes |-> 0] /\ assertion = TRUE
    BY DEF LogInit
<1>3. <<>> \in Seq(Piece) /\ <<>> \in Seq(Processes) /\ Len(<<>>) = 0
    OBVIOUS
<1>4. NoLog \in LogType /\ NoLog.recv_buf = <<>> /\ NoLog.unflushed = <<>> /\ NoLog.fd = NoFd
      /\ NoLog.io = FALSE /\ NoLog.state = "none"
    BY <1>3 DEF NoLog, LogType, NoFd
<1>5. disk \in DiskType /\ disk.archive = <<>> /\ disk.file = <<>> /\ disk.mode = m
      /\ disk.space = MaxSpace /\ disk.exists = FALSE
    BY <1>1, <1>3, LogAssumption DEF DiskType
<1>6. Typed
  <2>1. made \in [Processes -> 0..MaxOutput]
      BY <1>2, LogAssumption
  <2>2. ptys \in [Processes -> PtyType]
      BY <1>2, <1>3 DEF PtyType
  <2>3. logs \in [Processes -> LogType]
      BY <1>2, <1>4
  <2>4. spoilt \in BOOLEAN
      BY <1>1
  <2> QED
      BY <1>2, <1>3, <1>5, <2>1, <2>2, <2>3, <2>4 DEF Typed
<1>7. \A r \in Processes : Told(logs[r]) /\ Stage(r)
    BY <1>2, <1>4 DEF Told, Stage
<1>8. \A r \in Processes : Logged(r) = <<>>
  <2> TAKE r \in Processes
  <2>1. Logged(r) = <<>> \o <<>> \o <<>> \o <<>> \o <<>>
      BY <1>2, <1>4, <1>5 DEF Logged
  <2>2. <<>> \o <<>> = <<>>
      OBVIOUS
  <2> QED
      BY <2>1, <2>2
<1>9. Ordered
  <2> SUFFICES ASSUME NEW r \in Processes, NEW b
               PROVE  Good(<<>>, b, r, made)
      BY <1>8 DEF Ordered
  <2> QED
      BY DEF Good
<1>10. ~spoilt => Unspoilt
  <2> SUFFICES ASSUME ~spoilt PROVE Unspoilt
      OBVIOUS
  <2>1. m # "absent"
      BY <1>1
  <2>2. \A r \in Processes : Complete(Logged(r), r, made[r])
      BY <1>2 DEF Complete
  <2>3. disk.space + Size(disk.archive) + Size(disk.file) >= MaxSpace
    <3>1. Size(<<>>) = 0
        BY <1>3 DEF Size
    <3> QED
        BY <1>5, <3>1, LogAssumption
  <2>4. \A r \in Processes : logs[r].recv_buf = <<>> /\ Waits(logs[r])
      BY <1>2, <1>4 DEF Waits
  <2> QED
      BY <1>2, <1>5, <2>1, <2>2, <2>3, <2>4 DEF Unspoilt
<1>11. \A i \in 1..Len(detached) : logs[detached[i]].state \in {"detached", "freed"}
    BY <1>2, <1>3
<1> QED
    BY <1>2, <1>6, <1>7, <1>9, <1>10, <1>11 DEF IInv

\* Every step, of a handler, a process or the disk, keeps the invariant.
LEMMA NextKeeps ==
    ASSUME IInv, [LogNext]_logVars
    PROVE  IInv'
<1>1. ASSUME NEW r \in Processes, IoReader(r) \/ IoError(r) \/ HandleUnflushed(r) \/ Start(r)
      PROVE  IInv'
    BY <1>1, IoReaderHandled, IoErrorHandled, HandleUnflushedHandled, StartHandled, HandledKeeps
<1>2. CASE LogHandler
    BY <1>1, <1>2, ClearKeeps DEF LogHandler
<1>3. CASE ClearOne
    BY <1>3, ClearOneHandled, HandledKeeps
<1>4. CASE ClearDone
    BY <1>4, ClearKeeps
<1>5. CASE Mount \/ Use \/ Rotate
    BY <1>5, DiskKeeps
<1>6. ASSUME NEW r \in Processes, Output(r) \/ End(r)
      PROVE  IInv'
    BY <1>6, OutputKeeps, EndHandled, HandledKeeps
<1>7. CASE UNCHANGED logVars
  <2>1. UNCHANGED <<logs, ptys, disk, detached, clearing, flushed, made, spoilt, assertion>>
      BY <1>7 DEF logVars
  <2>2. /\ \A r \in Processes : Logged(r)' = Logged(r)
        /\ Base(disk') = Base(disk)
      BY <2>1 DEF Logged
  <2>3. disk' \in DiskType /\ clearing' \in BOOLEAN /\ flushed' \in BOOLEAN /\ spoilt' \in BOOLEAN
        /\ disk.space \in Nat
      BY <2>1 DEF IInv, Typed, DiskType
  <2>4. ~spoilt' => /\ ~spoilt /\ disk'.mode # "absent"
                    /\ disk'.mode = "read-only" => ~disk'.exists /\ ~flushed' /\ ~clearing'
                    /\ disk'.space >= disk.space
    <3>1. ~spoilt => Unspoilt
        BY DEF IInv
    <3> QED
        BY <2>1, <2>3, <3>1 DEF Unspoilt
  <2> QED
      BY <2>1, <2>2, <2>3, <2>4, OutsideKeeps
<1> QED
    BY <1>2, <1>3, <1>4, <1>5, <1>6, <1>7 DEF LogNext

\* No assertion of log_clear_unflushed ever fails.  The output of a process is in its
\* log in the order in which it was written and no piece of it twice, whatever the
\* disk does; and as long as that is neither missing nor full and stays writeable once
\* it is, every piece written is in the file, or kept, or still to be read.
THEOREM OutputNotLost == LogSpec => []NothingLost
<1>1. IInv => NothingLost
  <2> SUFFICES ASSUME IInv PROVE NothingLost
      OBVIOUS
  <2>1. assertion
      BY DEF IInv
  <2>2. \A r \in Processes : \A i, j \in 1..Len(Logged(r)) :
          i < j /\ Logged(r)[i].run = r /\ Logged(r)[j].run = r
            => Logged(r)[i].number < Logged(r)[j].number
      BY DEF IInv, Ordered, Good
  <2>3. ~spoilt => \A r \in Processes : Complete(Logged(r), r, made[r])
      BY DEF IInv, Unspoilt
  <2> QED
      BY <2>1, <2>2, <2>3 DEF NothingLost, Complete
<1>2. LogInit => IInv
    BY InitKeeps
<1>3. IInv /\ [LogNext]_logVars => IInv'
    BY NextKeeps
<1> QED
    BY <1>1, <1>2, <1>3, PTL DEF LogSpec
=============================================================================

------------------------- MODULE SystemPartsProofs -------------------------
(***************************************************************************)
(* Theorems about three parts of Redis that the run system_parts checks:   *)
(* that a server's files hold what its memory holds, for any number of     *)
(* writes and any sets of failures, crashes and restarts; that a slot that *)
(* moves loses no write, for any keys, values and MIGRATEs given up; and   *)
(* that the event loop calls no handler of a freed client and no time event*)
(* too often or too seldom, for any descriptors, clients and any clock.    *)
(***************************************************************************)
EXTENDS MCSystemParts, SequenceTheorems, FiniteSetTheorems, WellFoundedInduction, TLAPS

-----------------------------------------------------------------------------
(* Persistence *)


Datasets == Seq(Nat)
Stages == {"none", "working", "asked", "done", "failed"}

Files == [ops : Datasets, synced : Nat, torn : BOOLEAN]

Logs ==
    [state : {"on", "off", "wait", "down"}, buf : Datasets, err : BOOLEAN,
     postponed : -1 .. 2, recent : BOOLEAN, fd : {"open", "none", "closed"},
     scheduled : BOOLEAN, conf : BOOLEAN]

Rewrites ==
    [stage : Stages, file : Datasets, diff : Datasets, pipe : Datasets,
     rest : Datasets, stop : BOOLEAN]

Rdbs ==
    [file : Datasets, child : {"none", "running", "done", "failed", "killed"},
     snapshot : Datasets, dirty : Nat, before : Nat, ok : BOOLEAN]

-----------------------------------------------------------------------------
(* The inductive invariant, in three parts *)

\* A file d and a log a: how much is synced; an append only file that is in use
\* is open, and only then is there a buffer.  What the policy "always" has
\* written is synced.
Logged(p, d, a) ==
    /\ d \in Files /\ a \in Logs
    /\ d.synced <= Len(d.ops)
    /\ a.state \in {"on", "wait"} => a.fd = "open"
    /\ a.state # "on" => a.buf = <<>>
    /\ p = "always" /\ a.state = "on" => d.synced = Len(d.ops)

\* They hold the dataset m, of which n writes have been acknowledged.
Holds(p, d, a, m, n) ==
    a.state = "on" => /\ d.ops \o a.buf = m
                      /\ p = "always" => n <= Len(d.ops)

\* The rewrite r of a server whose log is in state s: a child that is done has
\* read everything from the pipe; and its pieces make up the dataset.
Rewriting(r, s, m) ==
    /\ r \in Rewrites
    /\ r.stage = "done" => r.diff = <<>> /\ r.pipe = <<>>
    /\ s = "down" => r.stage = "none"
    /\ s \in {"on", "wait"} /\ r.stage \in {"working", "asked", "done"}
         => r.file \o r.diff \o r.pipe \o r.rest = m

\* The changes since the snapshot of the child, or since the file it made, are
\* those counted after it was started.
Counted(r, s, m) ==
    /\ r \in Rdbs /\ r.before <= r.dirty
    /\ r.child = "none" => r.before = 0
    /\ s = "down" => r.child = "none"
    /\ s # "down" => Len(m) - Len(r.file) <= r.dirty
    /\ s # "down" /\ r.child = "running" => Len(m) - Len(r.snapshot) <= r.dirty - r.before
    /\ s # "down" /\ r.child = "done" => Len(m) - Len(r.file) <= r.dirty - r.before

Data ==
    /\ policy \in Policies
    /\ mem \in Datasets /\ acked \in 0 .. Len(mem)

FilesInv ==
    /\ Data /\ Logged(policy, disk, log)
    /\ Holds(policy, disk, log, mem, acked)
    /\ Rewriting(rw, log.state, mem) /\ Counted(rdb, log.state, mem)

-----------------------------------------------------------------------------
(* Sequences of writes *)

LEMMA DatasetFacts ==
    /\ <<>> \in Datasets /\ Len(<<>>) = 0
    /\ \A s \in Datasets : s \o <<>> = s /\ <<>> \o s = s /\ Len(s) \in Nat
    /\ \A s, t \in Datasets : s \o t \in Datasets /\ Len(s \o t) = Len(s) + Len(t)
    /\ \A s, t, u \in Datasets : (s \o t) \o u = s \o (t \o u)
    /\ \A s \in Datasets, x \in Nat : /\ Append(s, x) = s \o <<x>> /\ <<x>> \in Datasets
                                    /\ Append(s, x) \in Datasets
                                    /\ Len(Append(s, x)) = Len(s) + 1
<1>1. <<>> \in Datasets /\ Len(<<>>) = 0 BY EmptySeq DEF Datasets
<1>2. ASSUME NEW s \in Datasets PROVE s \o <<>> = s /\ <<>> \o s = s /\ Len(s) \in Nat
  BY ConcatEmptySeq, LenProperties DEF Datasets
<1>3. ASSUME NEW s \in Datasets, NEW t \in Datasets
      PROVE  s \o t \in Datasets /\ Len(s \o t) = Len(s) + Len(t)
  BY ConcatProperties DEF Datasets
<1>4. ASSUME NEW s \in Datasets, NEW t \in Datasets, NEW u \in Datasets
      PROVE  (s \o t) \o u = s \o (t \o u)
  BY ConcatAssociative DEF Datasets
<1>5. ASSUME NEW s \in Datasets, NEW x \in Nat
      PROVE  /\ Append(s, x) = s \o <<x>> /\ <<x>> \in Datasets
             /\ Append(s, x) \in Datasets /\ Len(Append(s, x)) = Len(s) + 1
  <2>1. <<x>> \in Datasets BY DEF Datasets
  <2>2. Append(s, x) = s \o <<x>> BY AppendIsConcat DEF Datasets
  <2>3. Append(s, x) \in Datasets /\ Len(Append(s, x)) = Len(s) + 1
    BY AppendProperties DEF Datasets
  <2> QED BY <2>1, <2>2, <2>3
<1> QED BY <1>1, <1>2, <1>3, <1>4, <1>5

LEMMA Regrouped ==
    ASSUME NEW s \in Datasets, NEW t \in Datasets, NEW u \in Datasets
    PROVE  (s \o t) \o u = s \o (t \o u)
BY ConcatAssociative DEF Datasets

LEMMA Longer ==
    ASSUME NEW x \in Nat, NEW y \in Nat
    PROVE  x + y \in Nat /\ x <= x + y
OBVIOUS

LEMMA OneMore ==
    ASSUME NEW x \in Nat, NEW y \in Nat, NEW k \in Int, x - y <= k
    PROVE  (x + 1) - y <= k + 1
OBVIOUS

LEMMA Fewer == ASSUME NEW x \in Nat, NEW y \in Nat PROVE x - y <= x
OBVIOUS

LEMMA NoLonger == ASSUME NEW x \in Nat PROVE x <= x
OBVIOUS

\* A prefix of a sequence of writes.
LEMMA PrefixFacts ==
    ASSUME NEW s \in Datasets, NEW n \in 0 .. Len(s)
    PROVE  SubSeq(s, 1, n) \in Datasets /\ Len(SubSeq(s, 1, n)) = n
<1>1. Len(s) \in Nat /\ \A i \in 1 .. n : s[i] \in Nat BY LenProperties, ElementOfSeq DEF Datasets
<1>2. SubSeq(s, 1, n) \in Seq(Nat) /\ Len(SubSeq(s, 1, n)) = IF 1 <= n THEN n - 1 + 1 ELSE 0
  BY <1>1, SubSeqProperties
<1> QED BY <1>1, <1>2 DEF Datasets

-----------------------------------------------------------------------------
(* What the operators on the log and the rewrite keep *)

\* A write is fed to the file's buffer and to a rewrite.
LEMMA FeedKeeps ==
    ASSUME NEW p, NEW d, NEW a, NEW r, NEW m \in Datasets, NEW n \in Nat, NEW op \in Nat,
           Logged(p, d, a), Holds(p, d, a, m, n), Rewriting(r, a.state, m)
    PROVE  LET fed == FeedAppendOnlyFile(a, r, op)
           IN /\ Logged(p, d, fed[1]) /\ fed[1].state = a.state
              /\ Holds(p, d, fed[1], Append(m, op), n)
              /\ Rewriting(fed[2], a.state, Append(m, op))
<1> DEFINE b == IF a.state = "on" THEN [a EXCEPT !.buf = Append(@, op)] ELSE a
           q == IF a.state # "off" /\ r.stage # "none" THEN [r EXCEPT !.rest = Append(@, op)] ELSE r
<1>1. FeedAppendOnlyFile(a, r, op) = <<b, q>> BY DEF FeedAppendOnlyFile
<1>2. d \in Files /\ a \in Logs /\ d.ops \in Datasets /\ a.buf \in Datasets
  BY DEF Logged, Files, Logs
<1>3. /\ Logged(p, d, b) /\ b.state = a.state /\ Holds(p, d, b, Append(m, op), n)
  <2>1. CASE a.state = "on"
    <3>1. b.buf = a.buf \o <<op>> /\ b.state = "on" /\ b.fd = a.fd
      BY <1>2, <2>1, DatasetFacts DEF Logs
    <3>2. b \in Logs BY <1>2, <2>1, DatasetFacts DEF Logs
    <3>3. d.ops \o b.buf = Append(m, op)
      <4>1. d.ops \o a.buf = m BY <2>1 DEF Holds
      <4>2. d.ops \o (a.buf \o <<op>>) = (d.ops \o a.buf) \o <<op>>
        <5>1. <<op>> \in Datasets BY DatasetFacts
        <5> QED BY <1>2, <5>1, Regrouped
      <4>3. m \o <<op>> = Append(m, op) BY DatasetFacts
      <4> HIDE DEF b
      <4> QED BY <3>1, <4>1, <4>2, <4>3
    <3> HIDE DEF b
    <3> QED BY <2>1, <3>1, <3>2, <3>3 DEF Logged, Holds
  <2>2. CASE a.state # "on" BY <2>2 DEF Logged, Holds
  <2> QED BY <2>1, <2>2
<1>4. Rewriting(q, a.state, Append(m, op))
  <2>1. r \in Rewrites /\ r.rest \in Datasets /\ r.file \in Datasets /\ r.diff \in Datasets /\ r.pipe \in Datasets
    BY DEF Rewriting, Rewrites
  <2>2. CASE a.state # "off" /\ r.stage # "none"
    <3>1. /\ q.rest = r.rest \o <<op>> /\ q.file = r.file /\ q.diff = r.diff
          /\ q.pipe = r.pipe /\ q.stage = r.stage
      BY <2>1, <2>2, DatasetFacts DEF Rewrites
    <3>2. q \in Rewrites BY <2>1, <2>2, DatasetFacts DEF Rewrites
    <3>3. ((r.file \o r.diff) \o r.pipe) \o (r.rest \o <<op>>)
            = (((r.file \o r.diff) \o r.pipe) \o r.rest) \o <<op>>
      <4> DEFINE x == (r.file \o r.diff) \o r.pipe
                 u == r.rest
                 v == <<op>>
      <4>1. x \in Datasets /\ u \in Datasets /\ v \in Datasets BY <2>1, DatasetFacts
      <4> SUFFICES x \o (u \o v) = (x \o u) \o v OBVIOUS
      <4> HIDE DEF q, x, u, v
      <4> QED BY <4>1, Regrouped
    <3>4. Append(m, op) = m \o <<op>> BY DatasetFacts
    <3> HIDE DEF q
    <3> QED BY <2>2, <3>1, <3>2, <3>3, <3>4 DEF Rewriting
  <2>3. CASE ~(a.state # "off" /\ r.stage # "none")
    BY <2>3 DEF Rewriting
  <2> QED BY <2>2, <2>3
<1> HIDE DEF b, q
<1> QED BY <1>1, <1>3, <1>4

\* What flushing made of the log a and the file d.
Flushed(f, d, a, force, outcome) ==
    /\ Logged(policy, f.disk, f.aof)
    /\ f.aof.state = a.state /\ f.aof.fd = a.fd
    /\ f.disk.ops \o f.aof.buf = d.ops \o a.buf
    /\ Len(d.ops) <= Len(f.disk.ops)
    /\ outcome = "ok" /\ (force \/ policy = "always") => f.aof.buf = <<>>

\* Flushing moves the buffer to the file, or leaves both.
LEMMA FlushKeeps ==
    ASSUME NEW d, NEW a, NEW j, NEW force \in BOOLEAN, NEW outcome,
           Logged(policy, d, a)
    PROVE  Flushed(Flush(a, d, j, force, outcome), d, a, force, outcome)
<1> DEFINE f == Flush(a, d, j, force, outcome)
<1> SUFFICES Flushed(f, d, a, force, outcome) OBVIOUS
<1>1. /\ d \in Files /\ a \in Logs /\ d.ops \in Datasets /\ a.buf \in Datasets
      /\ d.synced \in Nat /\ d.synced <= Len(d.ops) /\ Len(d.ops) \in Nat
      /\ a.postponed \in -1 .. 2 /\ d.torn \in BOOLEAN
  BY DatasetFacts DEF Logged, Files, Logs
<1>2. CASE a.buf = <<>>
  <2>1. f.aof = a /\ f.disk = d BY <1>2 DEF Flush
  <2> HIDE DEF f
  <2>2. Logged(policy, f.disk, f.aof) BY <2>1
  <2>3. Len(d.ops) <= Len(d.ops) BY <1>1
  <2>4. Len(d.ops) <= Len(f.disk.ops) BY <2>1, <2>3, Zenon
  <2> QED BY <1>2, <2>1, <2>2, <2>4, Zenon DEF Flushed
<1>3. CASE a.buf # <<>> /\ Postpones(a, j, force)
  <2> DEFINE b == [a EXCEPT !.postponed = IF @ = -1 THEN 0 ELSE @]
  <2>1. f.aof = b /\ f.disk = d BY <1>3 DEF Flush
  <2>2. /\ b \in Logs /\ b.buf = a.buf /\ b.state = a.state /\ b.fd = a.fd
    BY <1>1 DEF Logs
  <2>3. policy # "always" /\ ~force BY <1>3 DEF Postpones
  <2> HIDE DEF f, b
  <2> QED BY <1>1, <2>1, <2>2, <2>3 DEF Logged, Flushed
<1>4. CASE a.buf # <<>> /\ ~Postpones(a, j, force) /\ outcome # "ok"
  <2> DEFINE b == [a EXCEPT !.err = TRUE, !.postponed = -1]
             e == [d EXCEPT !.torn = @ \/ outcome = "torn"]
  <2>1. f.aof = b /\ f.disk = e BY <1>4 DEF Flush
  <2>2. b \in Logs /\ b.buf = a.buf /\ b.state = a.state /\ b.fd = a.fd
    <3>1. -1 \in -1 .. 2 /\ TRUE \in BOOLEAN OBVIOUS
    <3> QED BY <1>1, <3>1 DEF Logs
  <2>3. e \in Files /\ e.ops = d.ops /\ e.synced = d.synced
    BY <1>1 DEF Files
  <2> HIDE DEF f, b, e
  <2> QED BY <1>1, <1>4, <2>1, <2>2, <2>3 DEF Logged, Flushed
<1>5. CASE a.buf # <<>> /\ ~Postpones(a, j, force) /\ outcome = "ok"
  <2> DEFINE w == [d EXCEPT !.ops = @ \o a.buf, !.torn = FALSE]
             e == IF policy = "always" THEN [w EXCEPT !.synced = Len(w.ops)] ELSE w
             c == [a EXCEPT !.buf = <<>>, !.err = FALSE, !.postponed = -1]
             b == [c EXCEPT !.recent = TRUE]
  <2>1. f.aof = b /\ f.disk = e BY <1>5 DEF Flush
  <2>2. c \in Logs /\ c.buf = <<>> /\ c.state = a.state /\ c.fd = a.fd
    <3>1. -1 \in -1 .. 2 /\ FALSE \in BOOLEAN /\ <<>> \in Datasets BY DatasetFacts
    <3> QED BY <1>1, <3>1 DEF Logs
  <2> HIDE DEF c
  <2>3. b \in Logs /\ b.buf = <<>> /\ b.state = a.state /\ b.fd = a.fd
    BY <2>2 DEF Logs
  <2>4. d.ops \o a.buf \in Datasets /\ Len(d.ops \o a.buf) = Len(d.ops) + Len(a.buf) /\ Len(a.buf) \in Nat
    BY <1>1, DatasetFacts
  <2>5. w \in Files /\ w.ops = d.ops \o a.buf /\ w.synced = d.synced
    BY <1>1, <2>4 DEF Files
  <2> HIDE DEF w
  <2>6. /\ e \in Files /\ e.ops = d.ops \o a.buf
        /\ e.synced = IF policy = "always" THEN Len(e.ops) ELSE d.synced
    <3>1. CASE policy = "always"
      <4>1. [w EXCEPT !.synced = Len(w.ops)] \in Files BY <1>1, <2>4, <2>5 DEF Files
      <4> QED BY <2>4, <2>5, <3>1, <4>1 DEF Files
    <3>2. CASE policy # "always" BY <2>5, <3>2
    <3> QED BY <3>1, <3>2
  <2>7. e.ops \o b.buf = d.ops \o a.buf BY <2>3, <2>4, <2>6, DatasetFacts
  <2> HIDE DEF f, b, e
  <2>9. Len(e.ops) = Len(d.ops) + Len(a.buf) BY <2>4, <2>6, Zenon
  <2>10. Len(d.ops) <= Len(e.ops) /\ Len(e.ops) \in Nat
    <3>1. Len(d.ops) \in Nat /\ Len(a.buf) \in Nat BY <1>1, <2>4, Zenon
    <3> QED BY <2>9, <3>1, Longer, Zenon
  <2>8. Logged(policy, e, b)
    <3>1. e.synced <= Len(e.ops)
      <4>1. CASE policy = "always" BY <2>6, <2>10, <4>1, NoLonger, Zenon
      <4>2. CASE policy # "always"
        <5>1. e.synced = d.synced /\ d.synced <= Len(d.ops) BY <1>1, <2>6, <4>2, Zenon
        <5>2. Len(d.ops) \in Nat /\ d.synced \in Nat BY <1>1, Zenon
        <5> DEFINE x == Len(d.ops)
                   y == Len(e.ops)
                   z == d.synced
        <5>3. x \in Nat /\ y \in Nat /\ z \in Nat /\ z <= x /\ x <= y BY <2>10, <5>1, <5>2, Zenon
        <5> HIDE DEF x, y, z
        <5>4. z <= y BY <5>3
        <5> QED BY <5>1, <5>4, Zenon DEF y, z
      <4> QED BY <4>1, <4>2
    <3>2. b.state \in {"on", "wait"} => b.fd = "open" BY <2>3 DEF Logged
    <3>3. policy = "always" => e.synced = Len(e.ops) BY <2>6
    <3> QED BY <2>3, <2>6, <3>1, <3>2, <3>3 DEF Logged
  <2>11. Len(d.ops) <= Len(f.disk.ops) BY <2>1, <2>10, Zenon
  <2> QED BY <2>1, <2>3, <2>7, <2>8, <2>11 DEF Flushed
<1> QED BY <1>2, <1>3, <1>4, <1>5

-----------------------------------------------------------------------------
(* What a step that touches one part has to keep *)

LEMMA OnlyRewrite ==
    ASSUME FilesInv, UNCHANGED <<policy, mem, acked, disk, log, rdb>>,
           Rewriting(rw', log.state, mem)
    PROVE  FilesInv'
BY DEF FilesInv, Data

LEMMA OnlyRdb ==
    ASSUME FilesInv, UNCHANGED <<policy, mem, acked, disk, log, rw>>,
           Counted(rdb', log.state, mem)
    PROVE  FilesInv'
BY DEF FilesInv, Data

\* A step on the file and its log, which keeps what state the log is in.
LEMMA OnlyLog ==
    ASSUME FilesInv, UNCHANGED <<policy, mem, rw, rdb>>, acked' \in 0 .. Len(mem),
           log'.state = log.state,
           Logged(policy, disk', log'), Holds(policy, disk', log', mem, acked')
    PROVE  FilesInv'
BY DEF FilesInv, Data

LEMMA InvFacts ==
    ASSUME FilesInv
    PROVE  /\ mem \in Datasets /\ Len(mem) \in Nat /\ acked \in Nat /\ acked <= Len(mem)
           /\ disk \in Files /\ disk.ops \in Datasets /\ disk.synced \in Nat /\ Len(disk.ops) \in Nat
           /\ log \in Logs /\ log.buf \in Datasets
           /\ rw \in Rewrites /\ rw.file \in Datasets /\ rw.diff \in Datasets
           /\ rw.pipe \in Datasets /\ rw.rest \in Datasets
           /\ rdb \in Rdbs /\ rdb.dirty \in Nat /\ rdb.before \in Nat
           /\ rdb.file \in Datasets /\ rdb.snapshot \in Datasets
           /\ Len(rdb.file) \in Nat /\ Len(rdb.snapshot) \in Nat
<1>1. mem \in Datasets /\ Len(mem) \in Nat BY DatasetFacts DEF FilesInv, Data
<1>2. acked \in Nat /\ acked <= Len(mem) BY <1>1 DEF FilesInv, Data
<1>3. disk \in Files /\ log \in Logs BY DEF FilesInv, Logged
<1>4. disk.ops \in Datasets /\ disk.synced \in Nat /\ log.buf \in Datasets BY <1>3 DEF Files, Logs
<1>5. rw \in Rewrites BY DEF FilesInv, Rewriting
<1>6. rw.file \in Datasets /\ rw.diff \in Datasets /\ rw.pipe \in Datasets /\ rw.rest \in Datasets
  BY <1>5 DEF Rewrites
<1>7. rdb \in Rdbs BY DEF FilesInv, Counted
<1>8. rdb.dirty \in Nat /\ rdb.before \in Nat /\ rdb.file \in Datasets /\ rdb.snapshot \in Datasets
  BY <1>7 DEF Rdbs
<1>9. Len(disk.ops) \in Nat /\ Len(rdb.file) \in Nat /\ Len(rdb.snapshot) \in Nat
  BY <1>4, <1>8, DatasetFacts
<1> QED BY <1>1, <1>2, <1>3, <1>4, <1>5, <1>6, <1>7, <1>8, <1>9

\* There is no rewrite, or one has just started.
LEMMA NoRewriteKeeps ==
    ASSUME NEW s, NEW m \in Datasets
    PROVE  Rewriting(NoRewrite, s, m)
<1>1. NoRewrite \in Rewrites BY DatasetFacts DEF NoRewrite, Rewrites, Stages
<1> QED BY <1>1 DEF Rewriting, NoRewrite

LEMMA ForkedKeeps ==
    ASSUME FilesInv, NEW s, s # "down"
    PROVE  Rewriting(Forked, s, mem)
<1>1. mem \in Datasets BY InvFacts
<1>2. /\ Forked.stage = "working" /\ Forked.file = mem /\ Forked.diff = <<>>
      /\ Forked.pipe = <<>> /\ Forked.rest = <<>>
  BY DEF Forked, NoRewrite
<1>3. Forked \in Rewrites BY <1>1, DatasetFacts DEF Forked, NoRewrite, Rewrites, Stages
<1>4. mem \o <<>> \o <<>> \o <<>> = mem BY <1>1, DatasetFacts
<1> QED BY <1>2, <1>3, <1>4 DEF Rewriting

\* The process has ended, and left the files d and r.file.
LEMMA DownKeeps ==
    ASSUME FilesInv, NEW d \in Files, NEW r \in Rdbs, d.synced <= Len(d.ops), Down(d, r)
    PROVE  FilesInv'
<1> DEFINE b == [AofFields EXCEPT !.state = "down", !.conf = log.conf]
           q == [r EXCEPT !.child = "none", !.snapshot = <<>>, !.before = 0]
<1>1. disk' = d /\ rdb' = q /\ log' = b /\ rw' = NoRewrite /\ UNCHANGED <<policy, mem, acked>>
  BY DEF Down
<1>2. b \in Logs /\ b.state = "down" /\ b.buf = <<>>
  <2>1. log.conf \in BOOLEAN /\ -1 \in -1 .. 2 /\ FALSE \in BOOLEAN /\ <<>> \in Datasets
    BY InvFacts, DatasetFacts DEF Logs
  <2> QED BY <2>1 DEF Logs, AofFields
<1>3. q \in Rdbs /\ q.child = "none" /\ q.before = 0 /\ q.dirty \in Nat
  BY DatasetFacts DEF Rdbs
<1> HIDE DEF b, q
<1>4. Data' BY <1>1 DEF FilesInv, Data
<1>5. Logged(policy', disk', log') BY <1>1, <1>2 DEF Logged
<1>6. Holds(policy', disk', log', mem', acked') BY <1>1, <1>2 DEF Holds
<1>7. Rewriting(rw', log'.state, mem') BY <1>1, InvFacts, NoRewriteKeeps
<1>8. Counted(rdb', log'.state, mem') BY <1>1, <1>2, <1>3 DEF Counted
<1> QED BY <1>4, <1>5, <1>6, <1>7, <1>8 DEF FilesInv

-----------------------------------------------------------------------------
(* Every step keeps the invariant *)

LEMMA ExecuteKeeps == FilesInv /\ log.state # "down" /\ Execute => FilesInv'
<1> SUFFICES ASSUME FilesInv, log.state # "down", Execute PROVE FilesInv'
  OBVIOUS
<1> DEFINE op == Len(mem) + 1
           fed == FeedAppendOnlyFile(log, rw, op)
           q == [rdb EXCEPT !.dirty = @ + 1]
<1>1. /\ mem' = Append(mem, op) /\ log' = fed[1] /\ rw' = fed[2] /\ rdb' = q
      /\ UNCHANGED <<policy, acked, disk>>
  BY DEF Execute
<1>2. op \in Nat BY InvFacts
<1>3. /\ Logged(policy, disk, fed[1]) /\ fed[1].state = log.state
      /\ Holds(policy, disk, fed[1], Append(mem, op), acked)
      /\ Rewriting(fed[2], log.state, Append(mem, op))
  <2> HIDE DEF op
  <2> QED BY <1>2, InvFacts, FeedKeeps DEF FilesInv
<1>4. mem' \in Datasets /\ Len(mem') = Len(mem) + 1
  <2> HIDE DEF op
  <2> QED BY <1>1, <1>2, InvFacts, DatasetFacts
<1>5. /\ q \in Rdbs /\ q.dirty = rdb.dirty + 1 /\ q.before = rdb.before
      /\ q.child = rdb.child /\ q.file = rdb.file /\ q.snapshot = rdb.snapshot
  <2>1. rdb.dirty + 1 \in Nat BY InvFacts
  <2> QED BY <2>1, InvFacts DEF Rdbs
<1> HIDE DEF op, fed, q
<1>6. Data' BY <1>1, <1>4, InvFacts DEF FilesInv, Data
<1>7. Counted(rdb', log'.state, mem')
  <2>1. Counted(rdb, log.state, mem) BY DEF FilesInv
  <2>2. Len(mem') \in Nat BY <1>4, InvFacts
  <2>4. Len(mem') - Len(rdb.file) <= rdb.dirty + 1
    <3>1. Len(mem) - Len(rdb.file) <= rdb.dirty BY <2>1 DEF Counted
    <3>2. Len(mem) \in Nat /\ Len(rdb.file) \in Nat /\ rdb.dirty \in Int BY InvFacts
    <3>3. (Len(mem) + 1) - Len(rdb.file) <= rdb.dirty + 1 BY <3>1, <3>2, OneMore, Zenon
    <3> QED BY <1>4, <3>3, Zenon
  <2>5. ASSUME rdb.child = "running"
        PROVE  Len(mem') - Len(rdb.snapshot) <= (rdb.dirty + 1) - rdb.before
    <3> DEFINE k == rdb.dirty - rdb.before
    <3>1. Len(mem) - Len(rdb.snapshot) <= k BY <2>1, <2>5 DEF Counted
    <3>2. k \in Int /\ k + 1 = (rdb.dirty + 1) - rdb.before BY InvFacts
    <3> HIDE DEF k
    <3>3. (Len(mem) + 1) - Len(rdb.snapshot) <= k + 1 BY <3>1, <3>2, InvFacts, OneMore
    <3> QED BY <1>4, <3>2, <3>3, Zenon
  <2>6. ASSUME rdb.child = "done"
        PROVE  Len(mem') - Len(rdb.file) <= (rdb.dirty + 1) - rdb.before
    <3> DEFINE k == rdb.dirty - rdb.before
    <3>1. Len(mem) - Len(rdb.file) <= k BY <2>1, <2>6 DEF Counted
    <3>2. k \in Int /\ k + 1 = (rdb.dirty + 1) - rdb.before BY InvFacts
    <3> HIDE DEF k
    <3>3. (Len(mem) + 1) - Len(rdb.file) <= k + 1 BY <3>1, <3>2, InvFacts, OneMore
    <3> QED BY <1>4, <3>2, <3>3, Zenon
  <2>7. q.before <= q.dirty BY <1>5, <2>1, InvFacts DEF Counted
  <2>8. q.child = "none" => q.before = 0 BY <1>5, <2>1 DEF Counted
  <2>3. Counted(q, log.state, mem')
    BY <1>5, <2>4, <2>5, <2>6, <2>7, <2>8 DEF Counted
  <2> QED BY <1>1, <1>3, <2>3
<1> QED BY <1>1, <1>3, <1>6, <1>7 DEF FilesInv

LEMMA FlushallKeeps == FilesInv /\ log.state # "down" /\ Flushall => FilesInv'
<1> SUFFICES ASSUME FilesInv, log.state # "down", Flushall PROVE FilesInv'
  OBVIOUS
<1> DEFINE op == Len(mem) + 1
           fed == FeedAppendOnlyFile(log, rw, op)
           r == SavedForFlushall(rdb, mem')
           q == [r EXCEPT !.child = IF @ = "running" THEN "killed" ELSE @]
<1>1. /\ mem' = Append(mem, op) /\ log' = fed[1] /\ rw' = fed[2] /\ rdb' = q
      /\ UNCHANGED <<policy, acked, disk>>
  BY DEF Flushall
<1>2. op \in Nat BY InvFacts
<1>3. /\ Logged(policy, disk, fed[1]) /\ fed[1].state = log.state
      /\ Holds(policy, disk, fed[1], Append(mem, op), acked)
      /\ Rewriting(fed[2], log.state, Append(mem, op))
  <2> HIDE DEF op
  <2> QED BY <1>2, InvFacts, FeedKeeps DEF FilesInv
<1>4. mem' \in Datasets /\ Len(mem') = Len(mem) + 1
  <2> HIDE DEF op
  <2> QED BY <1>1, <1>2, InvFacts, DatasetFacts
<1>5. /\ r \in Rdbs /\ r.dirty = rdb.dirty + 1 /\ r.before = rdb.before
      /\ r.child = rdb.child /\ r.file = mem'
  <2>1. rdb.dirty + 1 \in Nat BY InvFacts
  <2> QED BY <1>4, <2>1, InvFacts DEF Rdbs, SavedForFlushall
<1> HIDE DEF r
<1>6. /\ q \in Rdbs /\ q.dirty = r.dirty /\ q.before = r.before /\ q.file = r.file
      /\ q.child = IF r.child = "running" THEN "killed" ELSE r.child
  BY <1>5 DEF Rdbs
<1> HIDE DEF op, fed, q
<1>7. Data' BY <1>1, <1>4, InvFacts DEF FilesInv, Data
<1>8. Counted(rdb', log'.state, mem')
  <2>1. Counted(rdb, log.state, mem) BY DEF FilesInv
  <2>2. /\ q \in Rdbs /\ q.dirty = rdb.dirty + 1 /\ q.before = rdb.before /\ q.file = mem'
        /\ q.child = IF rdb.child = "running" THEN "killed" ELSE rdb.child
    BY <1>5, <1>6
  <2>3. Len(mem') \in Nat BY <1>4, InvFacts
  <2>4. Counted(q, log.state, mem') BY <2>1, <2>2, <2>3, InvFacts DEF Counted
  <2> QED BY <1>1, <1>3, <2>4
<1> QED BY <1>1, <1>3, <1>7, <1>8 DEF FilesInv

\* Replies, the timers and fsync.
LEMMA ReplyOnlyKeeps == FilesInv /\ ReplyOnly => FilesInv'
<1> SUFFICES ASSUME FilesInv, ReplyOnly PROVE FilesInv'
  OBVIOUS
<1>1. /\ acked' = Len(mem) /\ log.state = "off"
      /\ UNCHANGED <<policy, mem, disk, log, rw, rdb>>
  BY DEF ReplyOnly
<1>2. acked' \in 0 .. Len(mem) BY <1>1, InvFacts
<1>3. Holds(policy, disk', log', mem, acked') BY <1>1 DEF Holds
<1>4. Logged(policy, disk', log') BY <1>1 DEF FilesInv
<1> QED BY <1>1, <1>2, <1>3, <1>4, OnlyLog

LEMMA CronFlushKeeps == FilesInv /\ CronFlush => FilesInv'
<1> SUFFICES ASSUME FilesInv, CronFlush PROVE FilesInv'
  OBVIOUS
<1> DEFINE f == Flush(log, disk, jobs, FALSE, "ok")
<1>1. /\ log' = f.aof /\ disk' = f.disk /\ UNCHANGED <<policy, mem, acked, rw, rdb>>
  BY DEF CronFlush, Flushes
<1>2. Flushed(f, disk, log, FALSE, "ok")
  <2>1. FALSE \in BOOLEAN OBVIOUS
  <2> QED BY <2>1, FlushKeeps DEF FilesInv
<1> HIDE DEF f
<1>3. Len(disk.ops) <= Len(disk'.ops) /\ Len(disk'.ops) \in Nat
  <2>1. disk' \in Files BY <1>1, <1>2 DEF Flushed, Logged
  <2>2. disk'.ops \in Datasets BY <2>1 DEF Files
  <2> QED BY <1>1, <1>2, <2>2, DatasetFacts DEF Flushed
<1>4. Holds(policy, disk', log', mem, acked')
  <2> SUFFICES ASSUME log'.state = "on"
               PROVE  /\ disk'.ops \o log'.buf = mem
                      /\ policy = "always" => acked' <= Len(disk'.ops)
    BY DEF Holds
  <2>1. log.state = "on" BY <1>1, <1>2 DEF Flushed
  <2>2. disk'.ops \o log'.buf = mem BY <1>1, <1>2, <2>1 DEF FilesInv, Holds, Flushed
  <2>3. policy = "always" => acked <= Len(disk.ops) BY <2>1 DEF FilesInv, Holds
  <2> QED BY <1>1, <1>3, <2>2, <2>3, InvFacts
<1>5. Logged(policy, disk', log') /\ log'.state = log.state BY <1>1, <1>2 DEF Flushed
<1>6. acked' \in 0 .. Len(mem) BY <1>1 DEF FilesInv, Data
<1> QED BY <1>1, <1>4, <1>5, <1>6, OnlyLog

LEMMA TickKeeps == FilesInv /\ Tick => FilesInv'
<1> SUFFICES ASSUME FilesInv, Tick PROVE FilesInv'
  OBVIOUS
<1> DEFINE b == [log EXCEPT !.recent = FALSE, !.postponed = IF @ \in 0..1 THEN @ + 1 ELSE @]
<1>1. log' = b /\ UNCHANGED <<policy, mem, acked, disk, rw, rdb>> BY DEF Tick
<1>2. b \in Logs /\ b.state = log.state /\ b.buf = log.buf /\ b.fd = log.fd
  <2>1. log.postponed \in -1 .. 2 /\ FALSE \in BOOLEAN BY InvFacts DEF Logs
  <2>2. (IF log.postponed \in 0..1 THEN log.postponed + 1 ELSE log.postponed) \in -1 .. 2 BY <2>1
  <2> QED BY <2>1, <2>2, InvFacts DEF Logs
<1> HIDE DEF b
<1>3. Logged(policy, disk', log') BY <1>1, <1>2 DEF FilesInv, Logged
<1>4. Holds(policy, disk', log', mem, acked') BY <1>1, <1>2 DEF FilesInv, Holds
<1>5. acked' \in 0 .. Len(mem) BY <1>1 DEF FilesInv, Data
<1> QED BY <1>1, <1>2, <1>3, <1>4, <1>5, OnlyLog

\* A file all of which is synced.
LEMMA SyncedFacts ==
    ASSUME FilesInv
    PROVE  LET e == [disk EXCEPT !.synced = Len(disk.ops)]
           IN  /\ e \in Files /\ e.ops = disk.ops /\ e.synced = Len(disk.ops)
               /\ e.synced <= Len(e.ops) /\ Len(e.ops) \in Nat
<1> DEFINE e == [disk EXCEPT !.synced = Len(disk.ops)]
<1>1. e \in Files /\ e.ops = disk.ops /\ e.synced = Len(disk.ops) BY InvFacts DEF Files
<1> HIDE DEF e
<1>2. e.synced <= Len(e.ops) /\ Len(e.ops) \in Nat BY <1>1, InvFacts
<1> QED BY <1>1, <1>2 DEF e

LEMMA BioFsyncKeeps == FilesInv /\ BioFsync => FilesInv'
<1> SUFFICES ASSUME FilesInv, BioFsync PROVE FilesInv'
  OBVIOUS
<1> DEFINE e == [disk EXCEPT !.synced = Len(disk.ops)]
<1>1. (disk' = e \/ disk' = disk) /\ UNCHANGED <<policy, mem, acked, log, rw, rdb>>
  BY DEF BioFsync
<1>2. /\ e \in Files /\ e.ops = disk.ops /\ e.synced = Len(disk.ops)
      /\ e.synced <= Len(e.ops)
  BY SyncedFacts
<1> HIDE DEF e
<1>3. Logged(policy, disk', log')
  <2>1. CASE disk' = e BY <1>1, <1>2, <2>1 DEF FilesInv, Logged
  <2>2. CASE disk' = disk BY <1>1, <2>2 DEF FilesInv
  <2> QED BY <1>1, <2>1, <2>2
<1>4. Holds(policy, disk', log', mem, acked') BY <1>1, <1>2 DEF FilesInv, Holds
<1>5. acked' \in 0 .. Len(mem) BY <1>1 DEF FilesInv, Data
<1> QED BY <1>1, <1>3, <1>4, <1>5, OnlyLog

LEMMA BeforeSleepKeeps ==
    ASSUME FilesInv, NEW outcome \in {"ok", "error", "torn"}, BeforeSleep(outcome)
    PROVE  FilesInv'
<1> DEFINE f == Flush(log, disk, jobs, FALSE, outcome)
<1>1. /\ log' = f.aof /\ disk' = f.disk /\ acked' = Len(mem)
      /\ UNCHANGED <<policy, mem, rw, rdb>>
      /\ outcome # "ok" => policy # "always"
  BY DEF BeforeSleep, Flushes
<1>2. Flushed(f, disk, log, FALSE, outcome)
  <2>1. FALSE \in BOOLEAN OBVIOUS
  <2> QED BY <2>1, FlushKeeps DEF FilesInv
<1> HIDE DEF f
<1>3. Holds(policy, disk', log', mem, acked')
  <2> SUFFICES ASSUME log'.state = "on"
               PROVE  /\ disk'.ops \o log'.buf = mem
                      /\ policy = "always" => acked' <= Len(disk'.ops)
    BY DEF Holds
  <2>1. log.state = "on" BY <1>1, <1>2 DEF Flushed
  <2>2. disk'.ops \o log'.buf = mem BY <1>1, <1>2, <2>1 DEF FilesInv, Holds, Flushed
  <2>3. ASSUME policy = "always" PROVE acked' <= Len(disk'.ops)
    <3>1. log'.buf = <<>> BY <1>1, <1>2, <2>3 DEF Flushed
    <3>2. disk' \in Files BY <1>1, <1>2 DEF Flushed, Logged
    <3>3. disk'.ops \in Datasets BY <3>2 DEF Files
    <3>4. disk'.ops = mem BY <2>2, <3>1, <3>3, DatasetFacts
    <3> QED BY <1>1, <3>4, InvFacts
  <2> QED BY <2>2, <2>3
<1>4. Logged(policy, disk', log') /\ log'.state = log.state BY <1>1, <1>2 DEF Flushed
<1>5. acked' \in 0 .. Len(mem) BY <1>1, InvFacts
<1> QED BY <1>1, <1>3, <1>4, <1>5, OnlyLog

\* The rewrite.
LEMMA BgrewriteaofKeeps == FilesInv /\ log.state # "down" /\ (Bgrewriteaof \/ CronStartsRewrite) => FilesInv'
<1> SUFFICES ASSUME FilesInv, log.state # "down", Bgrewriteaof \/ CronStartsRewrite PROVE FilesInv'
  OBVIOUS
<1> DEFINE b(x) == [log EXCEPT !.scheduled = x]
<1>1. /\ UNCHANGED <<policy, mem, acked, disk, rdb>>
      /\ log' = b(TRUE) \/ log' = b(FALSE)
  BY DEF Bgrewriteaof, CronStartsRewrite
<1>2. rw' = rw \/ rw' = Forked BY DEF Bgrewriteaof, CronStartsRewrite
<1>3. log' \in Logs /\ log'.state = log.state /\ log'.buf = log.buf /\ log'.fd = log.fd
  <2>1. b(TRUE) \in Logs /\ b(FALSE) \in Logs
    <3>1. TRUE \in BOOLEAN /\ FALSE \in BOOLEAN OBVIOUS
    <3> QED BY <3>1, InvFacts DEF Logs
  <2>2. \A x \in BOOLEAN : b(x).state = log.state /\ b(x).buf = log.buf /\ b(x).fd = log.fd
    BY InvFacts DEF Logs
  <2> HIDE DEF b
  <2> QED BY <1>1, <2>1, <2>2
<1> HIDE DEF b
<1>4. Logged(policy', disk', log') BY <1>1, <1>3 DEF FilesInv, Logged
<1>5. Holds(policy', disk', log', mem', acked') BY <1>1, <1>3 DEF FilesInv, Holds
<1>6. Rewriting(rw', log'.state, mem')
  <2>1. Rewriting(rw, log.state, mem) /\ Rewriting(Forked, log.state, mem) BY ForkedKeeps DEF FilesInv
  <2> QED BY <1>1, <1>2, <1>3, <2>1
<1>7. Counted(rdb', log'.state, mem') /\ Data' BY <1>1, <1>3 DEF FilesInv, Data
<1> QED BY <1>4, <1>5, <1>6, <1>7 DEF FilesInv

LEMMA ParentSendsKeeps == FilesInv /\ ParentSends => FilesInv'
<1> SUFFICES ASSUME FilesInv, ParentSends PROVE FilesInv'
  OBVIOUS
<1> DEFINE q == [rw EXCEPT !.pipe = @ \o rw.rest, !.rest = <<>>]
<1>1. /\ rw' = q /\ UNCHANGED <<policy, mem, acked, disk, log, rdb>>
      /\ rw.stage \in {"working", "asked"}
  BY DEF ParentSends
<1>2. rw.pipe \o rw.rest \in Datasets BY InvFacts, DatasetFacts
<1>3. /\ q \in Rewrites /\ q.stage = rw.stage /\ q.file = rw.file /\ q.diff = rw.diff
      /\ q.pipe = rw.pipe \o rw.rest /\ q.rest = <<>>
  BY <1>2, InvFacts, DatasetFacts DEF Rewrites
<1> HIDE DEF q
<1>4. q.file \o q.diff \o q.pipe \o q.rest = rw.file \o rw.diff \o rw.pipe \o rw.rest
  <2> DEFINE x == rw.file \o rw.diff
             u == rw.pipe
             v == rw.rest
  <2>1. x \in Datasets /\ u \in Datasets /\ v \in Datasets BY InvFacts, DatasetFacts
  <2>2. q.file \o q.diff = x /\ q.pipe = u \o v /\ q.rest = <<>> BY <1>3
  <2> SUFFICES q.file \o q.diff \o q.pipe \o q.rest = (x \o u) \o v OBVIOUS
  <2> HIDE DEF x, u, v
  <2>3. x \o (u \o v) = (x \o u) \o v BY <2>1, Regrouped
  <2>4. (x \o u) \o v \in Datasets BY <2>1, DatasetFacts
  <2>5. ((x \o u) \o v) \o <<>> = (x \o u) \o v BY <2>4, DatasetFacts
  <2> QED BY <2>2, <2>3, <2>5
<1>5. Rewriting(q, log.state, mem) BY <1>1, <1>3, <1>4 DEF FilesInv, Rewriting
<1> QED BY <1>1, <1>5, OnlyRewrite

\* What the child has after it read the pipe.
LEMMA ReadDiffFacts ==
    ASSUME FilesInv
    PROVE  /\ ReadDiff(rw) \in Rewrites
           /\ ReadDiff(rw).stage = rw.stage /\ ReadDiff(rw).file = rw.file
           /\ ReadDiff(rw).diff = rw.diff \o rw.pipe /\ ReadDiff(rw).diff \in Datasets
           /\ ReadDiff(rw).pipe = <<>> /\ ReadDiff(rw).rest = rw.rest
<1>1. rw.diff \o rw.pipe \in Datasets BY InvFacts, DatasetFacts
<1> QED BY <1>1, InvFacts, DatasetFacts DEF Rewrites, ReadDiff

LEMMA ChildReadsKeeps == FilesInv /\ ChildReads => FilesInv'
<1> SUFFICES ASSUME FilesInv, ChildReads PROVE FilesInv'
  OBVIOUS
<1> DEFINE q == ReadDiff(rw)
<1>1. /\ rw' = q /\ UNCHANGED <<policy, mem, acked, disk, log, rdb>>
      /\ rw.stage = "working"
  BY DEF ChildReads
<1>2. /\ q \in Rewrites /\ q.stage = rw.stage /\ q.file = rw.file
      /\ q.diff = rw.diff \o rw.pipe /\ q.pipe = <<>> /\ q.rest = rw.rest
  BY ReadDiffFacts
<1> HIDE DEF q
<1>3. (q.file \o q.diff) \o q.pipe = (rw.file \o rw.diff) \o rw.pipe
  <2> DEFINE x == rw.file
             u == rw.diff
             v == rw.pipe
  <2>1. x \in Datasets /\ u \in Datasets /\ v \in Datasets BY InvFacts
  <2>2. q.file = x /\ q.diff = u \o v /\ q.pipe = <<>> BY <1>2
  <2> SUFFICES (q.file \o q.diff) \o q.pipe = (x \o u) \o v OBVIOUS
  <2> HIDE DEF x, u, v
  <2>3. x \o (u \o v) = (x \o u) \o v BY <2>1, Regrouped
  <2>4. (x \o u) \o v \in Datasets BY <2>1, DatasetFacts
  <2>5. ((x \o u) \o v) \o <<>> = (x \o u) \o v BY <2>4, DatasetFacts
  <2> QED BY <2>2, <2>3, <2>5
<1>4. Rewriting(q, log.state, mem) BY <1>1, <1>2, <1>3 DEF FilesInv, Rewriting
<1> QED BY <1>1, <1>4, OnlyRewrite

\* The steps of the rewrite that only change how far it is.
LEMMA StageKeeps == FilesInv /\ (ChildAsks \/ ParentAcks \/ ChildDies) => FilesInv'
<1> SUFFICES ASSUME FilesInv, ChildAsks \/ ParentAcks \/ ChildDies PROVE FilesInv'
  OBVIOUS
<1>1. UNCHANGED <<policy, mem, acked, disk, log, rdb>>
  BY DEF ChildAsks, ParentAcks, ChildDies
<1>2. Rewriting(rw', log.state, mem)
  <2>1. CASE ChildAsks
    <3> DEFINE q == [rw EXCEPT !.stage = "asked"]
    <3>1. rw' = q /\ rw.stage = "working" BY <2>1 DEF ChildAsks
    <3>2. /\ q \in Rewrites /\ q.stage = "asked" /\ q.file = rw.file /\ q.diff = rw.diff
          /\ q.pipe = rw.pipe /\ q.rest = rw.rest
      BY InvFacts DEF Rewrites, Stages
    <3> HIDE DEF q
    <3> QED BY <3>1, <3>2 DEF FilesInv, Rewriting
  <2>2. CASE ParentAcks
    <3> DEFINE q == [rw EXCEPT !.stop = TRUE]
    <3>1. rw' = q BY <2>2 DEF ParentAcks
    <3>2. /\ q \in Rewrites /\ q.stage = rw.stage /\ q.file = rw.file /\ q.diff = rw.diff
          /\ q.pipe = rw.pipe /\ q.rest = rw.rest
      <4>1. TRUE \in BOOLEAN OBVIOUS
      <4> QED BY <4>1, InvFacts DEF Rewrites
    <3> HIDE DEF q
    <3> QED BY <3>1, <3>2 DEF FilesInv, Rewriting
  <2>3. CASE ChildDies
    <3> DEFINE q == [rw EXCEPT !.stage = "failed"]
    <3>1. rw' = q /\ rw.stage # "none" BY <2>3 DEF ChildDies
    <3>2. q \in Rewrites /\ q.stage = "failed" BY InvFacts DEF Rewrites, Stages
    <3> HIDE DEF q
    <3>3. log.state # "down" BY <3>1 DEF FilesInv, Rewriting
    <3> QED BY <3>1, <3>2, <3>3 DEF Rewriting
  <2> QED BY <2>1, <2>2, <2>3
<1> QED BY <1>1, <1>2, OnlyRewrite

LEMMA ChildFinishesKeeps == FilesInv /\ ChildFinishes => FilesInv'
<1> SUFFICES ASSUME FilesInv, ChildFinishes PROVE FilesInv'
  OBVIOUS
<1> DEFINE r == ReadDiff(rw)
           q == [r EXCEPT !.stage = "done", !.file = @ \o r.diff, !.diff = <<>>]
<1>1. /\ rw' = q /\ UNCHANGED <<policy, mem, acked, disk, log, rdb>>
      /\ rw.stage = "asked"
  BY DEF ChildFinishes
<1>2. /\ r \in Rewrites /\ r.file = rw.file /\ r.diff = rw.diff \o rw.pipe
      /\ r.diff \in Datasets /\ r.pipe = <<>> /\ r.rest = rw.rest
  BY ReadDiffFacts
<1> HIDE DEF r
<1>3. r.file \o r.diff \in Datasets BY <1>2, InvFacts, DatasetFacts
<1>4. /\ q \in Rewrites /\ q.stage = "done" /\ q.file = r.file \o r.diff /\ q.diff = <<>>
      /\ q.pipe = r.pipe /\ q.rest = r.rest
  BY <1>2, <1>3, DatasetFacts DEF Rewrites, Stages
<1> HIDE DEF q
<1>5. (q.file \o q.diff) \o q.pipe = (rw.file \o rw.diff) \o rw.pipe
  <2> DEFINE x == rw.file
             u == rw.diff
             v == rw.pipe
  <2>1. x \in Datasets /\ u \in Datasets /\ v \in Datasets BY InvFacts
  <2>2. q.file = x \o (u \o v) /\ q.diff = <<>> /\ q.pipe = <<>> BY <1>2, <1>4
  <2> SUFFICES (q.file \o q.diff) \o q.pipe = (x \o u) \o v OBVIOUS
  <2> HIDE DEF x, u, v
  <2>3. x \o (u \o v) = (x \o u) \o v BY <2>1, Regrouped
  <2>4. (x \o u) \o v \in Datasets BY <2>1, DatasetFacts
  <2>5. ((x \o u) \o v) \o <<>> = (x \o u) \o v BY <2>4, DatasetFacts
  <2> QED BY <2>2, <2>3, <2>5
<1>6. Rewriting(q, log.state, mem)
  <2>1. q.diff = <<>> /\ q.pipe = <<>> /\ q.rest = rw.rest BY <1>2, <1>4
  <2>2. Rewriting(rw, log.state, mem) BY DEF FilesInv
  <2> QED BY <1>1, <1>4, <1>5, <2>1, <2>2 DEF Rewriting
<1> QED BY <1>1, <1>6, OnlyRewrite

\* The new file takes the place of the old one.
LEMMA RewriteDoneKeeps == FilesInv /\ RewriteDone => FilesInv'
<1> SUFFICES ASSUME FilesInv, RewriteDone PROVE FilesInv'
  OBVIOUS
<1>1. /\ rw.stage \in {"done", "failed"} /\ rw' = NoRewrite
      /\ UNCHANGED <<policy, mem, acked, rdb>>
  BY DEF RewriteDone
<1>2. log.state # "down" BY <1>1 DEF FilesInv, Rewriting
<1>3. CASE rw.stage = "done"
  <2> DEFINE ops == rw.file \o rw.rest
             e == [ops |-> ops, torn |-> FALSE,
                   synced |-> IF log.fd # "none" /\ policy = "always" THEN Len(ops) ELSE Len(rw.file)]
             b == SwitchFile(log)
  <2>1. disk' = e /\ log' = b BY <1>3 DEF RewriteDone
  <2>2. ops \in Datasets /\ Len(ops) = Len(rw.file) + Len(rw.rest)
        /\ Len(rw.file) \in Nat /\ Len(rw.rest) \in Nat
    BY InvFacts, DatasetFacts
  <2>3. log.state \in {"on", "wait"} => ops = mem
    <3>1. rw.diff = <<>> /\ rw.pipe = <<>> BY <1>3 DEF FilesInv, Rewriting
    <3>2. rw.file \o <<>> = rw.file BY InvFacts, DatasetFacts
    <3>3. log.state \in {"on", "wait"} => rw.file \o rw.diff \o rw.pipe \o rw.rest = mem
      BY <1>3 DEF FilesInv, Rewriting
    <3> QED BY <3>1, <3>2, <3>3
  <2>4. /\ b \in Logs /\ b.state = (IF log.state = "wait" THEN "on" ELSE log.state)
        /\ b.buf = (IF log.fd = "none" THEN log.buf ELSE <<>>)
        /\ b.fd = (IF log.fd = "none" THEN "none" ELSE "open")
    BY InvFacts, DatasetFacts DEF Logs, SwitchFile
  <2> HIDE DEF ops, b
  <2>5. /\ e \in Files /\ e.ops = ops
        /\ e.synced = (IF log.fd # "none" /\ policy = "always" THEN Len(ops) ELSE Len(rw.file))
    <3>1. Len(ops) \in Nat BY <2>2, Longer, Zenon
    <3>2. FALSE \in BOOLEAN OBVIOUS
    <3> QED BY <2>2, <3>1, <3>2 DEF Files
  <2> HIDE DEF e
  <2>6. e.synced <= Len(e.ops)
    <3> DEFINE x == Len(ops)
               y == Len(rw.file)
               z == Len(rw.rest)
    <3>1. x = y + z /\ y \in Nat /\ z \in Nat BY <2>2, Zenon
    <3>2. Len(e.ops) = x /\ (e.synced = x \/ e.synced = y) BY <2>5, Zenon
    <3> HIDE DEF x, y, z
    <3> QED BY <3>1, <3>2
  <2>7. /\ log.state \in {"on", "wait"} => log.fd = "open"
        /\ log.state # "on" => log.buf = <<>>
    BY DEF FilesInv, Logged
  <2>8. b.state \in {"on", "wait"} => b.fd = "open" BY <2>4, <2>7
  <2>9. b.buf = <<>> BY <2>4, <2>7
  <2>10. policy = "always" /\ b.state = "on" => e.synced = Len(e.ops) BY <2>4, <2>5, <2>7
  <2>11. Logged(policy, e, b) BY <2>4, <2>5, <2>6, <2>8, <2>9, <2>10 DEF Logged
  <2>12. Holds(policy, e, b, mem, acked)
    <3>1. b.state = "on" => e.ops = mem BY <2>3, <2>4, <2>5
    <3>2. mem \o <<>> = mem BY InvFacts, DatasetFacts
    <3> QED BY <2>9, <3>1, <3>2, InvFacts DEF Holds
  <2>13. b.state # "down" BY <1>2, <2>4
  <2>14. Counted(rdb, b.state, mem) BY <1>2, <2>13 DEF FilesInv, Counted
  <2>15. Rewriting(NoRewrite, b.state, mem) BY InvFacts, NoRewriteKeeps
  <2>16. Data' BY <1>1 DEF FilesInv, Data
  <2> QED BY <1>1, <2>1, <2>11, <2>12, <2>14, <2>15, <2>16 DEF FilesInv
<1>4. CASE rw.stage = "failed"
  <2> DEFINE b == [log EXCEPT !.scheduled = @ \/ log.state = "wait"]
  <2>1. disk' = disk /\ log' = b BY <1>4 DEF RewriteDone
  <2>2. b \in Logs /\ b.state = log.state /\ b.buf = log.buf /\ b.fd = log.fd
    BY InvFacts DEF Logs
  <2> HIDE DEF b
  <2>3. Logged(policy, disk, b) BY <2>2 DEF FilesInv, Logged
  <2>4. Holds(policy, disk, b, mem, acked) BY <2>2 DEF FilesInv, Holds
  <2>5. Counted(rdb, b.state, mem) BY <2>2 DEF FilesInv
  <2>6. Rewriting(NoRewrite, b.state, mem) BY InvFacts, NoRewriteKeeps
  <2>7. Data' BY <1>1 DEF FilesInv, Data
  <2> QED BY <1>1, <2>1, <2>3, <2>4, <2>5, <2>6, <2>7 DEF FilesInv
<1> QED BY <1>1, <1>3, <1>4

\* CONFIG SET appendonly.
LEMMA StopKeeps == FilesInv /\ log.state # "down" /\ StopAppendOnly => FilesInv'
<1> SUFFICES ASSUME FilesInv, log.state # "down", StopAppendOnly PROVE FilesInv'
  OBVIOUS
<1> DEFINE f == Flush(log, disk, jobs, TRUE, "ok")
           b == [f.aof EXCEPT !.state = "off", !.fd = "none"]
           e == [f.disk EXCEPT !.synced = Len(f.disk.ops)]
<1>1. /\ log' = b /\ disk' = e /\ rw' = NoRewrite
      /\ UNCHANGED <<policy, mem, acked, rdb>> /\ log.state # "off"
  BY DEF StopAppendOnly
<1>2. Flushed(f, disk, log, TRUE, "ok")
  <2>1. TRUE \in BOOLEAN OBVIOUS
  <2> QED BY <2>1, FlushKeeps DEF FilesInv
<1> HIDE DEF f
<1>3. f.aof \in Logs /\ f.disk \in Files /\ f.aof.buf = <<>> BY <1>2 DEF Flushed, Logged
<1>4. b \in Logs /\ b.state = "off" /\ b.buf = <<>> BY <1>3 DEF Logs
<1>5. Len(f.disk.ops) \in Nat
  <2>1. f.disk.ops \in Datasets BY <1>3 DEF Files
  <2> QED BY <2>1, DatasetFacts
<1>6. e \in Files /\ e.synced = Len(f.disk.ops) /\ e.ops = f.disk.ops BY <1>3, <1>5 DEF Files
<1> HIDE DEF b, e
<1>7. e.synced <= Len(e.ops) BY <1>5, <1>6
<1>8. Logged(policy, e, b) /\ Holds(policy, e, b, mem, acked)
  BY <1>4, <1>6, <1>7 DEF Logged, Holds
<1>9. Rewriting(NoRewrite, b.state, mem) BY InvFacts, NoRewriteKeeps
<1>10. Counted(rdb, b.state, mem) BY <1>4 DEF FilesInv, Counted
<1> QED BY <1>1, <1>8, <1>9, <1>10 DEF FilesInv, Data

LEMMA StartKeeps == FilesInv /\ StartAppendOnly => FilesInv'
<1> SUFFICES ASSUME FilesInv, StartAppendOnly PROVE FilesInv'
  OBVIOUS
<1> DEFINE b == [log EXCEPT !.state = "wait", !.fd = "open", !.scheduled = FALSE, !.recent = TRUE]
           c == [log EXCEPT !.fd = "closed"]
<1>1. /\ log.state = "off" /\ UNCHANGED <<policy, mem, acked, disk, rdb>>
      /\ (rw' = Forked /\ log' = b) \/ (rw' = rw /\ log' = c)
  BY DEF StartAppendOnly
<1>2. log.buf = <<>> BY <1>1 DEF FilesInv, Logged
<1>3. b \in Logs /\ b.state = "wait" /\ b.fd = "open" /\ b.buf = <<>>
  <2>1. TRUE \in BOOLEAN /\ FALSE \in BOOLEAN OBVIOUS
  <2> QED BY <1>2, <2>1, InvFacts DEF Logs
<1>4. c \in Logs /\ c.state = "off" /\ c.buf = <<>> BY <1>1, <1>2, InvFacts DEF Logs
<1> HIDE DEF b, c
<1>5. Logged(policy, disk, b) /\ Logged(policy, disk, c)
  BY <1>3, <1>4 DEF FilesInv, Logged
<1>6. Holds(policy, disk, b, mem, acked) /\ Holds(policy, disk, c, mem, acked)
  BY <1>3, <1>4 DEF Holds
<1>7. Rewriting(Forked, b.state, mem) BY <1>3, ForkedKeeps
<1>8. Rewriting(rw, c.state, mem) BY <1>1, <1>4 DEF FilesInv
<1>9. Counted(rdb, b.state, mem) /\ Counted(rdb, c.state, mem)
  BY <1>1, <1>3, <1>4 DEF FilesInv, Counted
<1> QED BY <1>1, <1>5, <1>6, <1>7, <1>8, <1>9 DEF FilesInv, Data

-----------------------------------------------------------------------------
(* The RDB file, the ends of the process and its restart *)

\* The RDB file that SAVE, or SHUTDOWN, writes.
LEMMA RdbSavedFacts ==
    ASSUME FilesInv
    PROVE  /\ RdbSaved(rdb) \in Rdbs
           /\ RdbSaved(rdb).file = mem /\ RdbSaved(rdb).dirty = 0
           /\ RdbSaved(rdb).child = rdb.child /\ RdbSaved(rdb).before = rdb.before
<1>1. TRUE \in BOOLEAN /\ 0 \in Nat OBVIOUS
<1> QED BY <1>1, InvFacts DEF Rdbs, RdbSaved

LEMMA SaveKeeps == FilesInv /\ SaveCommand => FilesInv'
<1> SUFFICES ASSUME FilesInv, SaveCommand PROVE FilesInv'
  OBVIOUS
<1> DEFINE q == RdbSaved(rdb)
<1>1. /\ rdb' = q /\ UNCHANGED <<policy, mem, acked, disk, log, rw>> /\ rdb.child = "none"
  BY DEF SaveCommand
<1>2. /\ q \in Rdbs /\ q.file = mem /\ q.dirty = 0 /\ q.child = "none" /\ q.before = 0
  BY <1>1, RdbSavedFacts DEF FilesInv, Counted
<1> HIDE DEF q
<1>3. Len(mem) - Len(q.file) <= q.dirty BY <1>2, InvFacts
<1>4. Counted(q, log.state, mem) BY <1>2, <1>3 DEF Counted
<1> QED BY <1>1, <1>4, OnlyRdb

LEMMA BgsaveKeeps == FilesInv /\ log.state # "down" /\ BgsaveCommand => FilesInv'
<1> SUFFICES ASSUME FilesInv, log.state # "down", BgsaveCommand PROVE FilesInv'
  OBVIOUS
<1> DEFINE q == [rdb EXCEPT !.child = "running", !.snapshot = mem, !.before = rdb.dirty]
<1>1. rdb' = q /\ UNCHANGED <<policy, mem, acked, disk, log, rw>> /\ rdb.child = "none" /\ rw.stage = "none"
  BY DEF BgsaveCommand
<1>2. /\ q \in Rdbs /\ q.file = rdb.file /\ q.dirty = rdb.dirty /\ q.child = "running"
      /\ q.before = rdb.dirty /\ q.snapshot = mem
  BY InvFacts DEF Rdbs
<1> HIDE DEF q
<1>3. Len(mem) - Len(q.snapshot) <= q.dirty - q.before BY <1>2, InvFacts
<1>4. q.before <= q.dirty BY <1>2, InvFacts
<1>5. Counted(rdb, log.state, mem) BY DEF FilesInv
<1>6. ASSUME log.state # "down" PROVE Len(mem) - Len(q.file) <= q.dirty
  BY <1>2, <1>5, <1>6 DEF Counted
<1>7. Counted(q, log.state, mem) BY <1>2, <1>3, <1>4, <1>6 DEF Counted
<1> QED BY <1>1, <1>7, OnlyRdb

LEMMA RdbChildEndsKeeps == FilesInv /\ RdbChildEnds => FilesInv'
<1> SUFFICES ASSUME FilesInv, RdbChildEnds PROVE FilesInv'
  OBVIOUS
<1> DEFINE q == [rdb EXCEPT !.child = "done", !.file = rdb.snapshot]
           p == [rdb EXCEPT !.child = "failed"]
<1>1. /\ rdb' = q \/ rdb' = p
      /\ UNCHANGED <<policy, mem, acked, disk, log, rw>> /\ rdb.child = "running"
  BY DEF RdbChildEnds
<1>2. /\ q \in Rdbs /\ q.file = rdb.snapshot /\ q.dirty = rdb.dirty /\ q.child = "done"
      /\ q.before = rdb.before
  BY InvFacts DEF Rdbs
<1>3. /\ p \in Rdbs /\ p.file = rdb.file /\ p.dirty = rdb.dirty /\ p.child = "failed"
      /\ p.before = rdb.before
  BY InvFacts DEF Rdbs
<1> HIDE DEF q, p
<1>4. Counted(rdb, log.state, mem) /\ log.state # "down" BY <1>1 DEF FilesInv, Counted
<1>5. Len(mem) - Len(rdb.snapshot) <= rdb.dirty - rdb.before BY <1>1, <1>4 DEF Counted
<1>6. Len(mem) - Len(rdb.snapshot) <= rdb.dirty BY <1>5, InvFacts
<1>7. Counted(q, log.state, mem) BY <1>2, <1>4, <1>5, <1>6 DEF Counted
<1>8. Counted(p, log.state, mem) BY <1>3, <1>4 DEF Counted
<1> QED BY <1>1, <1>7, <1>8, OnlyRdb

LEMMA RdbDoneKeeps == FilesInv /\ RdbDone => FilesInv'
<1> SUFFICES ASSUME FilesInv, RdbDone PROVE FilesInv'
  OBVIOUS
<1> DEFINE r == [rdb EXCEPT !.child = "none", !.snapshot = <<>>, !.before = 0,
                            !.ok = IF rdb.child = "killed" THEN @ ELSE rdb.child = "done"]
           q == [r EXCEPT !.dirty = SaveDone(rdb).dirty]
<1>1. /\ rdb' = (IF rdb.child = "done" THEN q ELSE r)
      /\ UNCHANGED <<policy, mem, acked, disk, log, rw>> /\ rdb.child # "none"
  BY DEF RdbDone
<1>2. Counted(rdb, log.state, mem) /\ log.state # "down" BY <1>1 DEF FilesInv, Counted
<1>3. /\ r \in Rdbs /\ r.file = rdb.file /\ r.dirty = rdb.dirty /\ r.child = "none" /\ r.before = 0
  <2>1. (IF rdb.child = "killed" THEN rdb.ok ELSE rdb.child = "done") \in BOOLEAN
    BY InvFacts DEF Rdbs
  <2> QED BY <2>1, InvFacts, DatasetFacts DEF Rdbs
<1>4. SaveDone(rdb).dirty = rdb.dirty - rdb.before BY InvFacts DEF SaveDone, Rdbs
<1>5. rdb.dirty - rdb.before \in Nat BY <1>2, InvFacts DEF Counted
<1> HIDE DEF r
<1>6. /\ q \in Rdbs /\ q.file = rdb.file /\ q.dirty = rdb.dirty - rdb.before /\ q.child = "none" /\ q.before = 0
  BY <1>3, <1>4, <1>5 DEF Rdbs
<1> HIDE DEF q
<1>7. rdb.child = "done" => Counted(q, log.state, mem) BY <1>2, <1>5, <1>6 DEF Counted
<1>8. Counted(r, log.state, mem) BY <1>2, <1>3, InvFacts DEF Counted
<1> QED BY <1>1, <1>7, <1>8, OnlyRdb

LEMMA ShutdownKeeps == ASSUME FilesInv, NEW saved \in BOOLEAN, Shutdown(saved) PROVE FilesInv'
<1> DEFINE e == [disk EXCEPT !.synced = Len(disk.ops)]
           d == IF log.state # "off" THEN e ELSE disk
           r == IF saved THEN RdbSaved(rdb) ELSE rdb
<1>1. Down(d, r) BY DEF Shutdown
<1>2. r \in Rdbs BY InvFacts, RdbSavedFacts
<1>3. e \in Files /\ e.synced <= Len(e.ops) BY SyncedFacts
<1> HIDE DEF e
<1>4. d \in Files /\ d.synced <= Len(d.ops) BY <1>3 DEF FilesInv, Logged
<1> HIDE DEF d, r
<1> QED BY <1>1, <1>2, <1>4, DownKeeps

LEMMA CrashKeeps == FilesInv /\ (Killed \/ PowerLoss) => FilesInv'
<1> SUFFICES ASSUME FilesInv, Killed \/ PowerLoss PROVE FilesInv'
  OBVIOUS
<1>1. CASE Killed
  <2>1. Down(disk, rdb) BY <1>1 DEF Killed
  <2>2. disk \in Files /\ disk.synced <= Len(disk.ops) /\ rdb \in Rdbs BY InvFacts DEF FilesInv, Logged
  <2> QED BY <2>1, <2>2, DownKeeps
<1>2. CASE PowerLoss
  <2>1. PICK n \in disk.synced .. Len(disk.ops) :
          Down([disk EXCEPT !.ops = SubSeq(@, 1, n), !.torn = n < Len(disk.ops)], rdb)
    BY <1>2 DEF PowerLoss
  <2> DEFINE s == SubSeq(disk.ops, 1, n)
             d == [disk EXCEPT !.ops = SubSeq(@, 1, n), !.torn = n < Len(disk.ops)]
  <2>2. n \in Nat /\ n \in 0 .. Len(disk.ops) /\ disk.synced <= n BY InvFacts
  <2>3. s \in Datasets /\ Len(s) = n BY <2>2, InvFacts, PrefixFacts
  <2>4. Down(d, rdb) BY <2>1
  <2> HIDE DEF s
  <2>5. d \in Files /\ d.ops = s /\ d.synced = disk.synced
    <3>1. d = [disk EXCEPT !.ops = s, !.torn = n < Len(disk.ops)] BY InvFacts DEF s, Files
    <3>2. (n < Len(disk.ops)) \in BOOLEAN OBVIOUS
    <3> HIDE DEF d
    <3> QED BY <2>3, <3>1, <3>2, InvFacts DEF Files
  <2> HIDE DEF d
  <2>6. d.synced <= Len(d.ops) BY <2>2, <2>3, <2>5
  <2> QED BY <2>4, <2>5, <2>6, InvFacts, DownKeeps
<1> QED BY <1>1, <1>2

LEMMA LoadKeeps == FilesInv /\ LoadDataFromDisk => FilesInv'
<1> SUFFICES ASSUME FilesInv, LoadDataFromDisk PROVE FilesInv'
  OBVIOUS
<1> DEFINE b == [AofFields EXCEPT !.conf = log.conf, !.state = IF log.conf THEN "on" ELSE "off",
                                  !.fd = IF log.conf THEN "open" ELSE "none"]
           e == LoadAppendOnlyFile(disk)
           q == [rdb EXCEPT !.dirty = IF log.conf THEN Len(disk.ops) ELSE 0, !.ok = TRUE]
<1>1. /\ mem' = (IF log.conf THEN disk.ops ELSE rdb.file) /\ acked' = Len(mem')
      /\ disk' = (IF log.conf THEN e ELSE disk) /\ log' = b /\ rdb' = q
      /\ UNCHANGED <<policy, rw>> /\ log.state = "down"
  BY DEF LoadDataFromDisk
<1>2. log.conf \in BOOLEAN BY InvFacts DEF Logs
<1>3. mem' \in Datasets /\ Len(mem') \in Nat BY <1>1, InvFacts
<1>4. b \in Logs /\ b.buf = <<>> /\ b.state = (IF log.conf THEN "on" ELSE "off")
      /\ b.fd = (IF log.conf THEN "open" ELSE "none")
  <2>1. -1 \in -1 .. 2 /\ FALSE \in BOOLEAN /\ <<>> \in Datasets BY DatasetFacts
  <2> QED BY <1>2, <2>1 DEF Logs, AofFields
<1>5. e \in Files /\ e.ops = disk.ops /\ e.synced = Len(disk.ops)
  <2>1. FALSE \in BOOLEAN OBVIOUS
  <2> QED BY <2>1, InvFacts DEF Files, LoadAppendOnlyFile
<1>6. rdb.child = "none" /\ rdb.before = 0 /\ rw.stage = "none"
  BY <1>1 DEF FilesInv, Counted, Rewriting
<1>7. q \in Rdbs /\ q.dirty = (IF log.conf THEN Len(disk.ops) ELSE 0) /\ q.child = "none"
      /\ q.before = 0 /\ q.file = rdb.file
  <2>1. (IF log.conf THEN Len(disk.ops) ELSE 0) \in Nat /\ TRUE \in BOOLEAN BY InvFacts
  <2> QED BY <1>6, <2>1, InvFacts DEF Rdbs
<1> HIDE DEF b, e, q
<1>8. Data' BY <1>1, <1>3 DEF FilesInv, Data
<1>9. Len(e.ops) \in Nat /\ e.synced <= Len(e.ops) BY <1>5, InvFacts
<1>10. Logged(policy', disk', log')
  <2>1. Logged(policy, disk, log) BY DEF FilesInv
  <2>2. CASE log.conf BY <1>1, <1>4, <1>5, <1>9, <2>2 DEF Logged
  <2>3. CASE ~log.conf BY <1>1, <1>4, <2>1, <2>3 DEF Logged
  <2> QED BY <2>2, <2>3
<1>11. Holds(policy', disk', log', mem', acked')
  <2>1. CASE log.conf
    <3>1. mem' = disk.ops /\ disk' = e /\ log' = b BY <1>1, <2>1
    <3>2. disk.ops \o <<>> = disk.ops BY InvFacts, DatasetFacts
    <3>3. acked' = Len(disk.ops) BY <1>1, <3>1
    <3>4. Len(disk.ops) <= Len(disk.ops) BY InvFacts, NoLonger, Zenon
    <3>5. acked' <= Len(disk'.ops) BY <1>5, <3>1, <3>3, <3>4, Zenon
    <3>6. disk'.ops \o log'.buf = mem' BY <1>4, <1>5, <3>1, <3>2
    <3> QED BY <3>5, <3>6 DEF Holds
  <2>2. CASE ~log.conf BY <1>1, <1>4, <2>2 DEF Holds
  <2> QED BY <2>1, <2>2
<1>12. Rewriting(rw', log'.state, mem')
  BY <1>1, <1>4, <1>6 DEF FilesInv, Rewriting
<1>13. Counted(rdb', log'.state, mem')
  <2>1. Len(mem') - Len(rdb.file) <= q.dirty
    <3>1. CASE log.conf
      <4>1. Len(mem') = Len(disk.ops) /\ q.dirty = Len(disk.ops) BY <1>1, <1>7, <3>1
      <4>2. Len(disk.ops) - Len(rdb.file) <= Len(disk.ops) BY InvFacts, Fewer, Zenon
      <4> QED BY <4>1, <4>2, Zenon
    <3>2. CASE ~log.conf
      <4>1. Len(mem') = Len(rdb.file) /\ q.dirty = 0 BY <1>1, <1>7, <3>2
      <4> QED BY <4>1, InvFacts
    <3> QED BY <3>1, <3>2
  <2>2. q.before <= q.dirty BY <1>7, InvFacts
  <2>3. b.state # "down" BY <1>4
  <2> QED BY <1>1, <1>7, <2>1, <2>2, <2>3 DEF Counted
<1> QED BY <1>8, <1>10, <1>11, <1>12, <1>13 DEF FilesInv

-----------------------------------------------------------------------------
(* The theorems *)

LEMMA InitInv == PersistenceInit => FilesInv
<1> SUFFICES ASSUME PersistenceInit PROVE FilesInv
  OBVIOUS
<1> DEFINE b(c) == [AofFields EXCEPT !.conf = c, !.state = IF c THEN "on" ELSE "off",
                                     !.fd = IF c THEN "open" ELSE "none"]
<1>1. PICK c \in BOOLEAN : log = b(c) BY DEF PersistenceInit
<1>2. /\ policy \in Policies /\ mem = <<>> /\ acked = 0
      /\ disk = [ops |-> <<>>, synced |-> 0, torn |-> FALSE]
      /\ rw = NoRewrite /\ rdb = RdbFields
  BY DEF PersistenceInit
<1>3. log \in Logs /\ log.buf = <<>> /\ log.state = (IF c THEN "on" ELSE "off")
      /\ log.fd = (IF c THEN "open" ELSE "none")
  <2>1. -1 \in -1 .. 2 /\ FALSE \in BOOLEAN /\ <<>> \in Datasets BY DatasetFacts
  <2> QED BY <1>1, <2>1 DEF Logs, AofFields
<1> HIDE DEF b
<1>4. disk \in Files /\ disk.ops = <<>> /\ disk.synced = 0 BY <1>2, DatasetFacts DEF Files
<1>5. rdb \in Rdbs /\ rdb.child = "none" /\ rdb.before = 0 /\ rdb.dirty = 0 /\ rdb.file = <<>>
  BY <1>2, DatasetFacts DEF Rdbs, RdbFields
<1>6. Len(<<>>) = 0 /\ <<>> \in Datasets /\ <<>> \o <<>> = <<>> BY DatasetFacts
<1>7. Data BY <1>2, <1>6 DEF Data
<1>8. Logged(policy, disk, log) BY <1>3, <1>4, <1>6 DEF Logged
<1>9. Holds(policy, disk, log, mem, acked) BY <1>2, <1>3, <1>4, <1>6 DEF Holds
<1>10. Rewriting(rw, log.state, mem) BY <1>2, <1>6, NoRewriteKeeps
<1>11. Counted(rdb, log.state, mem) BY <1>2, <1>5, <1>6 DEF Counted
<1> QED BY <1>7, <1>8, <1>9, <1>10, <1>11 DEF FilesInv

LEMMA NextInv == FilesInv /\ [PersistenceNext]_pvars => FilesInv'
<1> SUFFICES ASSUME FilesInv, [PersistenceNext]_pvars PROVE FilesInv'
  OBVIOUS
<1>1. CASE UNCHANGED pvars BY <1>1 DEF FilesInv, Data, pvars
<1>2. CASE LoadDataFromDisk BY <1>2, LoadKeeps
<1>3. CASE log.state # "down" /\ Running
  <2>1. CASE Execute BY <1>3, <2>1, ExecuteKeeps
  <2>2. CASE Flushall BY <1>3, <2>2, FlushallKeeps
  <2>3. CASE ReplyOnly BY <2>3, ReplyOnlyKeeps
  <2>4. CASE CronFlush BY <2>4, CronFlushKeeps
  <2>5. CASE Tick BY <2>5, TickKeeps
  <2>6. CASE BioFsync BY <2>6, BioFsyncKeeps
  <2>7. CASE \E outcome \in {"ok", "error", "torn"} : BeforeSleep(outcome)
    BY <2>7, BeforeSleepKeeps
  <2>8. CASE Bgrewriteaof \/ CronStartsRewrite BY <1>3, <2>8, BgrewriteaofKeeps
  <2>9. CASE ParentSends BY <2>9, ParentSendsKeeps
  <2>10. CASE ChildReads BY <2>10, ChildReadsKeeps
  <2>11. CASE ChildAsks \/ ParentAcks \/ ChildDies BY <2>11, StageKeeps
  <2>12. CASE ChildFinishes BY <2>12, ChildFinishesKeeps
  <2>13. CASE RewriteDone BY <2>13, RewriteDoneKeeps
  <2>14. CASE StopAppendOnly BY <1>3, <2>14, StopKeeps
  <2>15. CASE StartAppendOnly BY <2>15, StartKeeps
  <2>16. CASE SaveCommand BY <2>16, SaveKeeps
  <2>17. CASE BgsaveCommand BY <1>3, <2>17, BgsaveKeeps
  <2>18. CASE RdbChildEnds BY <2>18, RdbChildEndsKeeps
  <2>19. CASE RdbDone BY <2>19, RdbDoneKeeps
  <2>20. CASE \E saved \in BOOLEAN : Shutdown(saved) BY <2>20, ShutdownKeeps
  <2>21. CASE Killed \/ PowerLoss BY <2>21, CrashKeeps
  <2> QED BY <1>3, <2>1, <2>2, <2>3, <2>4, <2>5, <2>6, <2>7, <2>8, <2>9, <2>10, <2>11, <2>12,
             <2>13, <2>14, <2>15, <2>16, <2>17, <2>18, <2>19, <2>20, <2>21 DEF Running
<1> QED BY <1>1, <1>2, <1>3 DEF PersistenceNext

THEOREM FilesInvariance == PersistenceSpec => []FilesInv
BY InitInv, NextInv, PTL DEF PersistenceSpec

LEMMA Sound ==
    ASSUME FilesInv
    PROVE  PersistenceTypeOK /\ AofHoldsAll /\ RewriteHoldsAll /\ AlwaysDurable /\ DirtyCovers
<1>1. PersistenceTypeOK
  <2>1. policy \in Policies /\ mem \in Seq(Nat) /\ acked \in 0 .. Len(mem)
    BY DEF FilesInv, Data, Datasets
  <2>2. disk.synced \in 0 .. Len(disk.ops) /\ disk.torn \in BOOLEAN
    BY InvFacts DEF FilesInv, Logged, Files
  <2>3. /\ log.state \in {"on", "off", "wait", "down"} /\ log.fd \in {"open", "none", "closed"}
        /\ log.postponed \in -1 .. 2
    BY InvFacts DEF Logs
  <2>4. rw.stage \in {"none", "working", "asked", "done", "failed"} BY InvFacts DEF Rewrites, Stages
  <2>5. rdb.dirty \in Nat /\ rdb.before \in 0 .. rdb.dirty BY InvFacts DEF FilesInv, Counted
  <2>6. rdb.child \in {"none", "running", "done", "failed", "killed"} BY InvFacts DEF Rdbs
  <2> QED BY <2>1, <2>2, <2>3, <2>4, <2>5, <2>6 DEF PersistenceTypeOK
<1>2. AofHoldsAll BY DEF FilesInv, Holds, AofHoldsAll
<1>3. RewriteHoldsAll BY DEF FilesInv, Rewriting, RewriteHoldsAll
<1>4. AlwaysDurable BY DEF FilesInv, Logged, Holds, AlwaysDurable
<1>5. DirtyCovers BY DEF FilesInv, Counted, DirtyCovers
<1> QED BY <1>1, <1>2, <1>3, <1>4, <1>5

\* Types, and that a child's count of changes is part of the server's.
THEOREM PersistenceTypeCorrect == PersistenceSpec => []PersistenceTypeOK
BY Sound, FilesInvariance, PTL

\* The append only file and its buffer hold the dataset (flushAppendOnlyFile,
\* backgroundRewriteDoneHandler, loadAppendOnlyFile).
THEOREM FileAndBufferHoldAll == PersistenceSpec => []AofHoldsAll
BY Sound, FilesInvariance, PTL

\* The pieces of a rewrite make up the dataset (feedAppendOnlyFile,
\* aofChildWriteDiffData, aofReadDiffFromParent).
THEOREM RewriteLosesNothing == PersistenceSpec => []RewriteHoldsAll
BY Sound, FilesInvariance, PTL

\* With appendfsync always, what was acknowledged is synced (flushAppendOnlyFile,
\* backgroundRewriteDoneHandler).
THEOREM AcknowledgedIsSynced == PersistenceSpec => []AlwaysDurable
BY Sound, FilesInvariance, PTL

\* A save point sees the changes that are not in the RDB file (rdbSave,
\* backgroundSaveDoneHandlerDisk, FLUSHALL).
THEOREM ChangesAreCounted == PersistenceSpec => []DirtyCovers
BY Sound, FilesInvariance, PTL

\* PersistenceSound of the run, in which this part of the system has a behaviour to itself.
THEOREM PersistencePart == PartsSpec => []PersistenceSound
<1> DEFINE PartInv == part = "persistence" => FilesInv
<1>1. PartsInit => PartInv BY InitInv DEF PartsInit
<1>2. PartInv /\ [PartsNext]_<<part, rvars, xvars, pvars, lvars>> => PartInv'
  <2> SUFFICES ASSUME PartInv, [PartsNext]_<<part, rvars, xvars, pvars, lvars>>,
                      part' = "persistence"
               PROVE  FilesInv'
    OBVIOUS
  <2>1. part = "persistence" /\ [PersistenceNext]_pvars BY DEF PartsNext
  <2> QED BY <2>1, NextInv
<1>3. PartInv => PersistenceSound
  <2> SUFFICES ASSUME FilesInv PROVE PersistenceTypeOK /\ AofHoldsAll /\ RewriteHoldsAll
                                /\ AlwaysDurable /\ DirtyCovers
    BY DEF PersistenceSound
  <2> QED BY Sound
<1> QED BY <1>1, <1>2, <1>3, PTL DEF PartsSpec

-----------------------------------------------------------------------------
(* Resharding *)


Steps == {"start", "importing", "moving", "owners"}
Values == 0 .. MaxValues

Types ==
    /\ slotView \in [Owners -> [owner : Owners, importing : {NoNode, Source},
                                migrating : {NoNode, Target}]]
    /\ data \in [Owners -> [SlotKeys -> Values]]
    /\ mover \in [step : Steps, told : SUBSET Owners, fix : BOOLEAN, sameVersion : BOOLEAN]
    /\ mig \in [state : {"none", "connecting", "waiting"}, key : SlotKeys \cup {NoMig.key},
                value : Values, retried : BOOLEAN, replace : BOOLEAN, id : Nat,
                answer : {"none", "ok", "error", "busykey"}]
    /\ ~Quiet => mig.key \in SlotKeys
    /\ restores \subseteq [key : SlotKeys, value : Values, replace : BOOLEAN, id : Nat]
    /\ request \in [op : {"none", "get", "set", "del"}, keys : SUBSET SlotKeys, value : Nat,
                    at : Owners \cup {NoNode}, asking : BOOLEAN]
    /\ request.op # "none" => request.keys # {} /\ request.at \in Owners
    /\ request.op = "set" => request.value \in 1 .. MaxValues
    /\ truth \in [SlotKeys -> Values]
    /\ ghosts \in [gaveUp : SUBSET SlotKeys, staleReply : BOOLEAN, writes : Nat, giveUps : Nat]

\* Keys move once the slot is migrating at the source.
Early == mover.step \in {"start", "importing"}

\* The two tables of slots agree with the progress of redis-trib.
Views ==
    /\ slotView[Source].importing = NoNode /\ slotView[Target].migrating = NoNode
    /\ Early => slotView[Source].migrating = NoNode
    /\ ~Early => /\ slotView[Source].owner = Source => slotView[Source].migrating = Target
                 /\ slotView[Target].importing = Source \/ slotView[Target].owner = Target
    /\ mover.step # "owners" => \A n \in Owners : slotView[n].owner = Source
    /\ mover.step = "start" \/ slotView[Target].importing = Source \/ slotView[Target].owner = Target

\* Nothing has moved yet; and nothing is left to move.
Phases ==
    /\ Early => /\ Quiet /\ restores = {} /\ ghosts.gaveUp = {} /\ ~request.asking
                /\ \A k \in SlotKeys : data[Target][k] = 0 /\ data[Source][k] = truth[k]
    /\ mover.step = "owners" => Quiet /\ \A k \in SlotKeys : data[Source][k] = 0

\* A RESTORE is the one MIGRATE waits for, or its MIGRATE was given up.
Pending(m) ==
    \/ m.id <= ghosts.giveUps /\ m.key \in ghosts.gaveUp
    \/ /\ mig.state = "waiting" /\ mig.answer = "none"
       /\ m.id = mig.id /\ m.key = mig.key /\ m.value = mig.value /\ m.replace = mig.replace

Deliveries ==
    /\ mig.state = "waiting" => mig.id = ghosts.giveUps + 1
    /\ mig.state = "connecting" => mig.answer = "none"
    /\ ~Quiet => data[Source][mig.key] = mig.value
    /\ ~Quiet /\ mig.replace => mover.fix /\ mig.key \in ghosts.gaveUp
    /\ \A m \in restores : Pending(m) /\ (m.replace => mover.fix /\ m.key \in ghosts.gaveUp)

\* A client that asks was sent here for a key the source does not have.
Asked ==
    request.asking => /\ request.op # "none" /\ request.at = Target
                      /\ \E k \in request.keys : data[Source][k] = 0

\* The target has stored the key; the source will delete its copy when it has read this.
Answered(k) == mig.state = "waiting" /\ mig.key = k /\ mig.answer = "ok"

\* Without a MIGRATE given up, a key is at one node, except while an answer is on its way,
\* when the copy at the target is the one that counts.
Sure(k) == k \notin ghosts.gaveUp =>
    /\ data[Source][k] = 0 \/ Answered(k) => data[Target][k] = truth[k]
    /\ data[Source][k] # 0 /\ ~Answered(k) => data[Source][k] = truth[k] /\ data[Target][k] = 0

\* Otherwise both may have a copy, and the last value written is one of them.
Kept(k) == ~(mover.fix /\ k \in ghosts.gaveUp) /\ truth[k] # 0 =>
    /\ data[Source][k] = truth[k] \/ data[Target][k] = truth[k]
    /\ Answered(k) => data[Target][k] = truth[k]

MoveInv ==
    /\ Types /\ Views /\ Phases /\ Deliveries /\ Asked
    /\ \A k \in SlotKeys : Sure(k) /\ Kept(k)
    /\ ReadsCurrent
-----------------------------------------------------------------------------
(* The answers of getNodeByQuery *)

LEMMA SourceAnswers ==
    ASSUME Types, Views, NEW keys \in SUBSET SlotKeys, keys # {}, NEW asking \in BOOLEAN
    PROVE  LET r == GetNodeByQuery(Source, keys, asking)
           IN  /\ r.how \in {"serve", "ask", "moved"} /\ r.to \in Owners
               /\ r.how = "serve" => Early \/ \A k \in keys : data[Source][k] # 0
               /\ r.how = "ask" => /\ ~Early /\ r.to = Target
                                   /\ \E k \in keys : data[Source][k] = 0
BY ReshardingAssumption DEF Types, Views, Early, Owners, GetNodeByQuery, Steps

LEMMA TargetAnswers ==
    ASSUME Types, Views, NEW keys \in SUBSET SlotKeys, keys # {}, NEW asking \in BOOLEAN
    PROVE  LET r == GetNodeByQuery(Target, keys, asking)
           IN  /\ r.how \in {"serve", "moved", "tryagain"}
               /\ r.how = "moved" => r.to \in Owners
               /\ r.how = "serve" =>
                     \/ mover.step = "owners"
                     \/ asking /\ (Cardinality(keys) > 1 => \A k \in keys : data[Target][k] # 0)
               /\ ~Early /\ asking /\ ~(Cardinality(keys) > 1) => r.how = "serve"
<1>1. Cardinality(keys) \in Nat
  BY ReshardingAssumption, FS_Subset, FS_CardinalityType
<1>2. slotView[Target].owner \in Owners /\ slotView[Target].migrating = NoNode
      /\ slotView[Target].importing \in {NoNode, Source}
  BY DEF Types, Views, Owners
<1>3. slotView[Target].owner = Target => mover.step = "owners"
  BY ReshardingAssumption DEF Views, Owners
<1>4. ~Early => slotView[Target].importing = Source \/ slotView[Target].owner = Target
  BY DEF Views
<1> QED
  BY <1>1, <1>2, <1>3, <1>4, ReshardingAssumption DEF Owners, GetNodeByQuery

LEMMA OneKey ==
    ASSUME NEW k \in SlotKeys, NEW keys \in SUBSET SlotKeys, k \in keys
    PROVE  Cardinality(keys) > 1 \/ keys = {k}
<1>1. IsFiniteSet(keys) /\ Cardinality(keys) \in Nat
  BY ReshardingAssumption, FS_Subset, FS_CardinalityType
<1>2. ASSUME NEW j \in keys, j # k PROVE Cardinality(keys) > 1
  <2>1. IsFiniteSet({j, k}) /\ Cardinality({j, k}) = 2
    <3>1. IsFiniteSet({k}) /\ Cardinality({k}) = 1
      BY FS_Singleton
    <3>2. IsFiniteSet({k} \cup {j}) /\ Cardinality({k} \cup {j}) = Cardinality({k}) + 1
      <4>1. j \notin {k}
        BY <1>2
      <4> QED
        BY <3>1, <4>1, FS_AddElement
    <3>3. {k} \cup {j} = {j, k}
      OBVIOUS
    <3> QED
      BY <3>1, <3>2, <3>3
  <2>2. {j, k} \subseteq keys
    BY <1>2
  <2> QED
    BY <1>1, <2>1, <2>2, FS_Subset
<1> QED
  BY <1>2

LEMMA NoMigType ==
    NoMig \in [state : {"none", "connecting", "waiting"}, key : SlotKeys \cup {NoMig.key},
               value : Values, retried : BOOLEAN, replace : BOOLEAN, id : Nat,
               answer : {"none", "ok", "error", "busykey"}]
BY ReshardingAssumption DEF NoMig, Values

-----------------------------------------------------------------------------
(* redis-trib *)

LEMMA SetImportingStep ==
    ASSUME MoveInv, SetImporting
    PROVE  MoveInv'
<1>1. Types'
  BY ReshardingAssumption DEF MoveInv, Types, SetImporting, Steps, Values, Owners, NoMig, Quiet
<1>2. Views'
  BY ReshardingAssumption DEF MoveInv, Types, Views, Early, SetImporting, Steps, Values, Owners, NoMig, Quiet
<1>3. Phases'
  BY ReshardingAssumption DEF MoveInv, Types, Views, Phases, Early, SetImporting, Steps, Values, Owners, NoMig, Quiet
<1>4. Deliveries'
  BY ReshardingAssumption DEF MoveInv, Types, Phases, Views, Deliveries, Pending, Early, SetImporting, Steps, Values, Owners, NoMig, Quiet
<1>5. Asked'
  BY ReshardingAssumption DEF MoveInv, Types, Views, Asked, Early, Phases, SetImporting, Steps, Values, Owners, NoMig, Quiet
<1>6. ASSUME NEW k \in SlotKeys PROVE Sure(k)' /\ Kept(k)'
  BY ReshardingAssumption DEF MoveInv, Types, Views, Phases, Deliveries, Early, Quiet, Sure, Kept, Answered,
     SetImporting, Owners, Values, NoMig
<1>7. ReadsCurrent'
  BY DEF MoveInv, ReadsCurrent, SetImporting
<1> QED
  BY <1>1, <1>2, <1>3, <1>4, <1>5, <1>6, <1>7 DEF MoveInv

LEMMA SetMigratingStep ==
    ASSUME MoveInv, SetMigrating
    PROVE  MoveInv'
<1>1. Types'
  BY ReshardingAssumption DEF MoveInv, Types, SetMigrating, Steps, Values, Owners, NoMig, Quiet
<1>2. Views'
  BY ReshardingAssumption DEF MoveInv, Types, Views, Early, SetMigrating, Steps, Values, Owners, NoMig, Quiet
<1>3. Phases'
  BY ReshardingAssumption DEF MoveInv, Types, Views, Phases, Early, SetMigrating, Steps, Values, Owners, NoMig, Quiet
<1>4. Deliveries'
  BY ReshardingAssumption DEF MoveInv, Types, Phases, Views, Deliveries, Pending, Early, SetMigrating, Steps, Values, Owners, NoMig, Quiet
<1>5. Asked'
  BY ReshardingAssumption DEF MoveInv, Types, Views, Asked, Early, Phases, SetMigrating, Steps, Values, Owners, NoMig, Quiet
<1>6. ASSUME NEW k \in SlotKeys PROVE Sure(k)' /\ Kept(k)'
  BY ReshardingAssumption DEF MoveInv, Types, Views, Phases, Deliveries, Early, Quiet, Sure, Kept, Answered,
     SetMigrating, Owners, Values, NoMig
<1>7. ReadsCurrent'
  BY DEF MoveInv, ReadsCurrent, SetMigrating
<1> QED
  BY <1>1, <1>2, <1>3, <1>4, <1>5, <1>6, <1>7 DEF MoveInv

LEMMA AllMovedStep ==
    ASSUME MoveInv, AllMoved
    PROVE  MoveInv'
<1>1. Types'
  BY ReshardingAssumption DEF MoveInv, Types, AllMoved, Steps, Values, Owners, NoMig, Quiet
<1>2. Views'
  BY ReshardingAssumption DEF MoveInv, Types, Views, Early, AllMoved, Steps, Values, Owners, NoMig, Quiet
<1>3. Phases'
  BY ReshardingAssumption DEF MoveInv, Types, Views, Phases, Early, AllMoved, Steps, Values, Owners, NoMig, Quiet
<1>4. Deliveries'
  BY ReshardingAssumption DEF MoveInv, Types, Phases, Views, Deliveries, Pending, Early, AllMoved, Steps, Values, Owners, NoMig, Quiet
<1>5. Asked'
  BY ReshardingAssumption DEF MoveInv, Types, Views, Asked, Early, Phases, AllMoved, Steps, Values, Owners, NoMig, Quiet
<1>6. ASSUME NEW k \in SlotKeys PROVE Sure(k)' /\ Kept(k)'
  BY ReshardingAssumption DEF MoveInv, Types, Views, Phases, Deliveries, Early, Quiet, Sure, Kept, Answered,
     AllMoved, Owners, Values, NoMig
<1>7. ReadsCurrent'
  BY DEF MoveInv, ReadsCurrent, AllMoved
<1> QED
  BY <1>1, <1>2, <1>3, <1>4, <1>5, <1>6, <1>7 DEF MoveInv

LEMMA HearsStep ==
    ASSUME MoveInv, Hears
    PROVE  MoveInv'
<1>1. Types'
  BY ReshardingAssumption DEF MoveInv, Types, Hears, Steps, Values, Owners, NoMig, Quiet
<1>2. Views'
  BY ReshardingAssumption DEF MoveInv, Types, Views, Early, Hears, Steps, Values, Owners, NoMig, Quiet
<1>3. Phases'
  BY ReshardingAssumption DEF MoveInv, Types, Views, Phases, Early, Hears, Steps, Values, Owners, NoMig, Quiet
<1>4. Deliveries'
  BY ReshardingAssumption DEF MoveInv, Types, Phases, Views, Deliveries, Pending, Early, Hears, Steps, Values, Owners, NoMig, Quiet
<1>5. Asked'
  BY ReshardingAssumption DEF MoveInv, Types, Views, Asked, Early, Phases, Hears, Steps, Values, Owners, NoMig, Quiet
<1>6. ASSUME NEW k \in SlotKeys PROVE Sure(k)' /\ Kept(k)'
  BY ReshardingAssumption DEF MoveInv, Types, Views, Phases, Deliveries, Early, Quiet, Sure, Kept, Answered,
     Hears, Owners, Values, NoMig
<1>7. ReadsCurrent'
  BY DEF MoveInv, ReadsCurrent, Hears
<1> QED
  BY <1>1, <1>2, <1>3, <1>4, <1>5, <1>6, <1>7 DEF MoveInv

LEMMA SetOwnerStep ==
    ASSUME MoveInv, NEW n \in Owners, SetOwner(n)
    PROVE  MoveInv'
<1>1. Types'
  <2>1. slotView' \in [Owners -> [owner : Owners, importing : {NoNode, Source},
                                 migrating : {NoNode, Target}]]
    <3> DEFINE view == [slotView[n] EXCEPT
                 !.owner = Target,
                 !.migrating = IF \A k \in SlotKeys : data[n][k] = 0 THEN NoNode ELSE @,
                 !.importing = IF n = Target THEN NoNode ELSE @]
    <3>1. slotView' = [slotView EXCEPT ![n] = view]
      BY DEF SetOwner, MoveInv, Types
    <3>2. view \in [owner : Owners, importing : {NoNode, Source}, migrating : {NoNode, Target}]
      <4> DEFINE v == slotView[n]
      <4>1. v \in [owner : Owners, importing : {NoNode, Source}, migrating : {NoNode, Target}]
        BY DEF MoveInv, Types
      <4>2. Target \in Owners
        BY DEF Owners
      <4> HIDE DEF v
      <4> QED
        BY <4>1, <4>2 DEF v
    <3> HIDE DEF view
    <3> QED
      BY <3>1, <3>2 DEF MoveInv, Types
  <2>2. mover' \in [step : Steps, told : SUBSET Owners, fix : BOOLEAN, sameVersion : BOOLEAN]
    BY DEF MoveInv, Types, SetOwner
  <2> QED
    BY <2>1, <2>2 DEF MoveInv, Types, SetOwner, Quiet
<1>2. Views'
  BY ReshardingAssumption DEF MoveInv, Types, Views, Early, SetOwner, Steps, Values, Owners, NoMig, Quiet
<1>3. Phases'
  BY ReshardingAssumption DEF MoveInv, Types, Views, Phases, Early, SetOwner, Steps, Values, Owners, NoMig, Quiet
<1>4. Deliveries'
  BY ReshardingAssumption DEF MoveInv, Types, Phases, Views, Deliveries, Pending, Early, SetOwner, Steps, Values, Owners, NoMig, Quiet
<1>5. Asked'
  BY ReshardingAssumption DEF MoveInv, Types, Views, Asked, Early, Phases, SetOwner, Steps, Values, Owners, NoMig, Quiet
<1>6. ASSUME NEW k \in SlotKeys PROVE Sure(k)' /\ Kept(k)'
  BY ReshardingAssumption DEF MoveInv, Types, Views, Phases, Deliveries, Early, Quiet, Sure, Kept, Answered,
     SetOwner, Owners, Values, NoMig
<1>7. ReadsCurrent'
  BY DEF MoveInv, ReadsCurrent, SetOwner
<1> QED
  BY <1>1, <1>2, <1>3, <1>4, <1>5, <1>6, <1>7 DEF MoveInv

LEMMA StartMigrateStep ==
    ASSUME MoveInv, NEW k \in SlotKeys, NEW replace \in BOOLEAN, StartMigrate(k, replace)
    PROVE  MoveInv'
<1>1. Types'
  BY ReshardingAssumption DEF MoveInv, Types, StartMigrate, Steps, Values, Owners, NoMig, Quiet
<1>2. Views'
  BY ReshardingAssumption DEF MoveInv, Types, Views, Early, StartMigrate, Steps, Values, Owners, NoMig, Quiet
<1>3. Phases'
  BY ReshardingAssumption DEF MoveInv, Types, Views, Phases, Early, StartMigrate, Steps, Values, Owners, NoMig, Quiet
<1>4. Deliveries'
  BY ReshardingAssumption DEF MoveInv, Types, Phases, Views, Sure, Answered, Deliveries, Pending, Early, StartMigrate, Steps, Values, Owners, NoMig, Quiet
<1>5. Asked'
  BY ReshardingAssumption DEF MoveInv, Types, Views, Asked, Early, Phases, StartMigrate, Steps, Values, Owners, NoMig, Quiet
<1>6. ASSUME NEW j \in SlotKeys PROVE Sure(j)' /\ Kept(j)'
  BY ReshardingAssumption DEF MoveInv, Types, Views, Phases, Deliveries, Early, Quiet, Sure, Kept, Answered,
     StartMigrate, Owners, Values, NoMig
<1>7. ReadsCurrent'
  BY DEF MoveInv, ReadsCurrent, StartMigrate
<1> QED
  BY <1>1, <1>2, <1>3, <1>4, <1>5, <1>6, <1>7 DEF MoveInv

-----------------------------------------------------------------------------
(* MIGRATE *)

LEMMA ConnectFailsStep ==
    ASSUME MoveInv, ConnectFails
    PROVE  MoveInv'
<1>1. Types'
  BY ReshardingAssumption DEF MoveInv, Types, ConnectFails, Steps, Values, Owners, NoMig, Quiet
<1>2. Views'
  BY ReshardingAssumption DEF MoveInv, Types, Views, Early, ConnectFails, Steps, Values, Owners, NoMig, Quiet
<1>3. Phases'
  BY ReshardingAssumption DEF MoveInv, Types, Views, Phases, Early, ConnectFails, Steps, Values, Owners, NoMig, Quiet
<1>4. Deliveries'
  BY ReshardingAssumption DEF MoveInv, Types, Phases, Views, Deliveries, Pending, Early, ConnectFails, Steps, Values, Owners, NoMig, Quiet
<1>5. Asked'
  BY ReshardingAssumption DEF MoveInv, Types, Views, Asked, Early, Phases, ConnectFails, Steps, Values, Owners, NoMig, Quiet
<1>6. ASSUME NEW k \in SlotKeys PROVE Sure(k)' /\ Kept(k)'
  BY ReshardingAssumption DEF MoveInv, Types, Views, Phases, Deliveries, Early, Quiet, Sure, Kept, Answered,
     ConnectFails, Owners, Values, NoMig
<1>7. ReadsCurrent'
  BY DEF MoveInv, ReadsCurrent, ConnectFails
<1> QED
  BY <1>1, <1>2, <1>3, <1>4, <1>5, <1>6, <1>7 DEF MoveInv

LEMMA SendRestoreStep ==
    ASSUME MoveInv, NEW delivered \in BOOLEAN, SendRestore(delivered)
    PROVE  MoveInv'
<1>1. Types'
  <2>1. mig' \in [state : {"none", "connecting", "waiting"}, key : SlotKeys \cup {NoMig.key},
                 value : Values, retried : BOOLEAN, replace : BOOLEAN, id : Nat,
                 answer : {"none", "ok", "error", "busykey"}]
    <3>1. ghosts.giveUps + 1 \in Nat
      BY DEF MoveInv, Types
    <3> QED
      BY <3>1 DEF MoveInv, Types, SendRestore
  <2>2. mig.state = "connecting" /\ mig'.key = mig.key /\ mig.key \in SlotKeys
    BY DEF MoveInv, Types, SendRestore, Quiet
  <2>3. restores' \subseteq [key : SlotKeys, value : Values, replace : BOOLEAN, id : Nat]
    BY <2>2 DEF MoveInv, Types, SendRestore
  <2> QED
    BY <2>1, <2>2, <2>3 DEF MoveInv, Types, SendRestore
<1>2. Views'
  BY ReshardingAssumption DEF MoveInv, Types, Views, Early, SendRestore, Steps, Values, Owners, NoMig, Quiet
<1>3. Phases'
  BY ReshardingAssumption DEF MoveInv, Types, Views, Phases, Early, SendRestore, Steps, Values, Owners, NoMig, Quiet
<1>4. Deliveries'
  BY ReshardingAssumption DEF MoveInv, Types, Phases, Views, Deliveries, Pending, Early, SendRestore, Steps, Values, Owners, NoMig, Quiet
<1>5. Asked'
  BY ReshardingAssumption DEF MoveInv, Types, Views, Asked, Early, Phases, SendRestore, Steps, Values, Owners, NoMig, Quiet
<1>6. ASSUME NEW k \in SlotKeys PROVE Sure(k)' /\ Kept(k)'
  BY ReshardingAssumption DEF MoveInv, Types, Views, Phases, Deliveries, Early, Quiet, Sure, Kept, Answered,
     SendRestore, Owners, Values, NoMig
<1>7. ReadsCurrent'
  BY DEF MoveInv, ReadsCurrent, SendRestore
<1> QED
  BY <1>1, <1>2, <1>3, <1>4, <1>5, <1>6, <1>7 DEF MoveInv

LEMMA ReadReplyStep ==
    ASSUME MoveInv, ReadReply
    PROVE  MoveInv'
<1>1. Types'
  BY ReshardingAssumption DEF MoveInv, Types, ReadReply, Steps, Values, Owners, NoMig, Quiet
<1>2. Views'
  BY ReshardingAssumption DEF MoveInv, Types, Views, Early, ReadReply, Steps, Values, Owners, NoMig, Quiet
<1>3. Phases'
  BY ReshardingAssumption DEF MoveInv, Types, Views, Phases, Early, ReadReply, Steps, Values, Owners, NoMig, Quiet
<1>4. Deliveries'
  BY ReshardingAssumption DEF MoveInv, Types, Phases, Views, Deliveries, Pending, Early, ReadReply, Steps, Values, Owners, NoMig, Quiet
<1>5. Asked'
  BY ReshardingAssumption DEF MoveInv, Types, Views, Asked, Early, Phases, ReadReply, Steps, Values, Owners, NoMig, Quiet
<1>6. ASSUME NEW k \in SlotKeys PROVE Sure(k)' /\ Kept(k)'
  BY ReshardingAssumption DEF MoveInv, Types, Views, Phases, Deliveries, Early, Quiet, Sure, Kept, Answered,
     ReadReply, Owners, Values, NoMig
<1>7. ReadsCurrent'
  BY DEF MoveInv, ReadsCurrent, ReadReply
<1> QED
  BY <1>1, <1>2, <1>3, <1>4, <1>5, <1>6, <1>7 DEF MoveInv

LEMMA GiveUpStep ==
    ASSUME MoveInv, NEW timeout \in BOOLEAN, GiveUp(timeout)
    PROVE  MoveInv'
<1>1. Types'
  <2>1. mig' \in [state : {"none", "connecting", "waiting"}, key : SlotKeys \cup {NoMig.key},
                 value : Values, retried : BOOLEAN, replace : BOOLEAN, id : Nat,
                 answer : {"none", "ok", "error", "busykey"}]
    BY NoMigType DEF MoveInv, Types, GiveUp
  <2>2. mig.key \in SlotKeys /\ (mig'.state # "none" => mig'.key = mig.key)
    BY DEF MoveInv, Types, GiveUp, Quiet, NoMig
  <2>3. ghosts' \in [gaveUp : SUBSET SlotKeys, staleReply : BOOLEAN, writes : Nat, giveUps : Nat]
    <3>1. ghosts.giveUps + 1 \in Nat /\ ghosts.gaveUp \cup {mig.key} \in SUBSET SlotKeys
      BY <2>2 DEF MoveInv, Types
    <3> QED
      BY <3>1 DEF MoveInv, Types, GiveUp
  <2> QED
    BY <2>1, <2>2, <2>3 DEF MoveInv, Types, GiveUp, Quiet
<1>2. Views'
  BY ReshardingAssumption DEF MoveInv, Types, Views, Early, GiveUp, Steps, Values, Owners, NoMig, Quiet
<1>3. Phases'
  BY ReshardingAssumption DEF MoveInv, Types, Views, Phases, Early, GiveUp, Steps, Values, Owners, NoMig, Quiet
<1>4. Deliveries'
  BY ReshardingAssumption DEF MoveInv, Types, Phases, Views, Deliveries, Pending, Early, GiveUp, Steps, Values, Owners, NoMig, Quiet
<1>5. Asked'
  BY ReshardingAssumption DEF MoveInv, Types, Views, Asked, Early, Phases, GiveUp, Steps, Values, Owners, NoMig, Quiet
<1>6. ASSUME NEW k \in SlotKeys PROVE Sure(k)' /\ Kept(k)'
  BY ReshardingAssumption DEF MoveInv, Types, Views, Phases, Deliveries, Early, Quiet, Sure, Kept, Answered,
     GiveUp, Owners, Values, NoMig
<1>7. ReadsCurrent'
  BY DEF MoveInv, ReadsCurrent, GiveUp
<1> QED
  BY <1>1, <1>2, <1>3, <1>4, <1>5, <1>6, <1>7 DEF MoveInv

LEMMA RestoreStep ==
    ASSUME MoveInv, NEW m \in restores, Restore(m)
    PROVE  MoveInv'
<1>1. Types'
  <2>1. mig' \in [state : {"none", "connecting", "waiting"}, key : SlotKeys \cup {NoMig.key},
                 value : Values, retried : BOOLEAN, replace : BOOLEAN, id : Nat,
                 answer : {"none", "ok", "error", "busykey"}]
    BY DEF MoveInv, Types, Restore, RestoreOutcome
  <2>2. mig'.key = mig.key /\ mig'.state = mig.state
    BY DEF MoveInv, Types, Restore
  <2>3. m.key \in SlotKeys /\ m.value \in Values
    BY DEF MoveInv, Types
  <2>4. data' \in [Owners -> [SlotKeys -> Values]]
    BY <2>3 DEF MoveInv, Types, Restore, Owners
  <2>5. restores' \subseteq restores
    BY DEF Restore
  <2> QED
    BY <2>1, <2>2, <2>4, <2>5 DEF MoveInv, Types, Restore, Quiet
<1>2. Views'
  BY ReshardingAssumption DEF MoveInv, Types, Views, Early, Restore, RestoreOutcome, Steps, Values, Owners, NoMig, Quiet
<1>3. Phases'
  BY ReshardingAssumption DEF MoveInv, Types, Views, Phases, Early, Restore, RestoreOutcome, Steps, Values, Owners, NoMig, Quiet
<1>4. Deliveries'
  BY ReshardingAssumption DEF MoveInv, Types, Phases, Views, Deliveries, Pending, Early, Restore, RestoreOutcome, Steps, Values, Owners, NoMig, Quiet
<1>5. Asked'
  BY ReshardingAssumption DEF MoveInv, Types, Views, Asked, Early, Phases, Restore, RestoreOutcome, Steps, Values, Owners, NoMig, Quiet
<1>6. ASSUME NEW k \in SlotKeys PROVE Sure(k)' /\ Kept(k)'
  <2> DEFINE ok == RestoreOutcome(m) = "ok"
             current == mig.state = "waiting" /\ mig.id = m.id
  <2>1. /\ m.key \in SlotKeys /\ m.id \in Nat /\ ghosts.giveUps \in Nat
        /\ data \in [Owners -> [SlotKeys -> Values]]
    BY DEF MoveInv, Types
  <2>2. /\ data'[Source] = data[Source] /\ truth' = truth /\ ghosts' = ghosts /\ mover' = mover
        /\ data'[Target][k] = IF ok /\ k = m.key THEN m.value ELSE data[Target][k]
    BY <2>1, ReshardingAssumption DEF Restore, Owners
  <2>3. ok => m.replace \/ data[Target][m.key] = 0
    BY DEF RestoreOutcome
  <2>4. m.replace => mover.fix /\ m.key \in ghosts.gaveUp
    BY DEF MoveInv, Deliveries
  <2>5. current => /\ mig.answer = "none" /\ m.key = mig.key /\ m.value = data[Source][mig.key]
    BY <2>1 DEF MoveInv, Deliveries, Pending, Quiet
  <2>6. ~current => m.key \in ghosts.gaveUp
    BY DEF MoveInv, Deliveries, Pending
  <2>7. Answered(k)' <=> Answered(k) \/ (current /\ ok /\ k = m.key)
    BY <2>5 DEF MoveInv, Types, Restore, Answered
  <2>8. Sure(k) /\ Kept(k)
    BY DEF MoveInv
  <2> HIDE DEF ok, current
  <2>9. Sure(k)'
    BY <2>1, <2>2, <2>3, <2>4, <2>5, <2>6, <2>7, <2>8 DEF Sure, current, Answered
  <2>10. Kept(k)'
    BY <2>1, <2>2, <2>3, <2>4, <2>5, <2>6, <2>7, <2>8 DEF Kept
  <2> QED
    BY <2>9, <2>10
<1>7. ReadsCurrent'
  BY DEF MoveInv, ReadsCurrent, Restore, RestoreOutcome
<1> QED
  BY <1>1, <1>2, <1>3, <1>4, <1>5, <1>6, <1>7 DEF MoveInv

-----------------------------------------------------------------------------
(* The client *)

LEMMA IssueStep ==
    ASSUME MoveInv, NEW op \in {"get", "set", "del"}, NEW keys \in SUBSET SlotKeys, NEW n \in Owners, Issue(op, keys, n)
    PROVE  MoveInv'
<1>1. Types'
  BY ReshardingAssumption DEF MoveInv, Types, Issue, Steps, Values, Owners, NoMig, Quiet
<1>2. Views'
  BY ReshardingAssumption DEF MoveInv, Types, Views, Early, Issue, Steps, Values, Owners, NoMig, Quiet
<1>3. Phases'
  BY ReshardingAssumption DEF MoveInv, Types, Views, Phases, Early, Issue, Steps, Values, Owners, NoMig, Quiet
<1>4. Deliveries'
  BY ReshardingAssumption DEF MoveInv, Types, Phases, Views, Deliveries, Pending, Early, Issue, Steps, Values, Owners, NoMig, Quiet
<1>5. Asked'
  BY ReshardingAssumption DEF MoveInv, Types, Views, Asked, Early, Phases, Issue, Steps, Values, Owners, NoMig, Quiet
<1>6. ASSUME NEW k \in SlotKeys PROVE Sure(k)' /\ Kept(k)'
  BY ReshardingAssumption DEF MoveInv, Types, Views, Phases, Deliveries, Early, Quiet, Sure, Kept, Answered,
     Issue, Owners, Values, NoMig
<1>7. ReadsCurrent'
  BY DEF MoveInv, ReadsCurrent, Issue
<1> QED
  BY <1>1, <1>2, <1>3, <1>4, <1>5, <1>6, <1>7 DEF MoveInv

LEMMA ServedBy ==
    ASSUME MoveInv, request.op # "none", request.at = Source => Quiet,
           GetNodeByQuery(request.at, request.keys, request.asking).how = "serve",
           NEW k \in request.keys
    PROVE  /\ request.at = Source => Early \/ data[Source][k] # 0
           /\ request.at = Target => ~Early
           /\ request.at = Target /\ k \notin ghosts.gaveUp => data[Source][k] = 0 \/ Answered(k)
<1>1. /\ request.keys \in SUBSET SlotKeys /\ request.keys # {} /\ request.asking \in BOOLEAN
      /\ request.at \in Owners /\ k \in SlotKeys
  BY DEF MoveInv, Types
<1>2. CASE request.at = Source
  BY <1>1, <1>2, SourceAnswers, ReshardingAssumption DEF MoveInv
<1>3. CASE request.at = Target
  <2>1. \/ mover.step = "owners"
        \/ request.asking /\ (Cardinality(request.keys) > 1 =>
                                 \A j \in request.keys : data[Target][j] # 0)
    BY <1>1, <1>3, TargetAnswers DEF MoveInv
  <2>2. ~Early
    BY <2>1 DEF MoveInv, Phases, Early
  <2>3. CASE mover.step = "owners"
    BY <1>1, <1>3, <2>2, <2>3, ReshardingAssumption DEF MoveInv, Phases
  <2>4. CASE /\ request.asking
             /\ Cardinality(request.keys) > 1 => \A j \in request.keys : data[Target][j] # 0
    <3>1. PICK j \in request.keys : data[Source][j] = 0
      BY <2>4 DEF MoveInv, Asked
    <3>2. CASE request.keys = {k}
      BY <3>1, <3>2, <1>3, <2>2, ReshardingAssumption
    <3>3. CASE data[Target][k] # 0
      BY <3>3, <1>1, <1>3, <2>2, ReshardingAssumption DEF MoveInv, Sure
    <3> QED
      BY <3>2, <3>3, <2>4, <1>1, OneKey
  <2> QED
    BY <2>1, <2>3, <2>4
<1> QED
  BY <1>1, <1>2, <1>3 DEF Owners

LEMMA ReadCurrent ==
    ASSUME MoveInv, request.op # "none", request.at = Source => Quiet,
           GetNodeByQuery(request.at, request.keys, request.asking).how = "serve",
           NEW k \in request.keys, k \notin ghosts.gaveUp
    PROVE  data[request.at][k] = truth[k]
<1>1. request.at \in Owners /\ k \in SlotKeys
  BY DEF MoveInv, Types
<1>2. CASE request.at = Source
  <2>1. Early \/ data[Source][k] # 0
    BY <1>2, ServedBy
  <2>2. ~Answered(k)
    BY <1>2 DEF Quiet, Answered
  <2> QED
    BY <2>1, <2>2, <1>1, <1>2 DEF MoveInv, Sure, Phases
<1>3. CASE request.at = Target
  BY <1>1, <1>3, ServedBy DEF MoveInv, Sure
<1> QED
  BY <1>1, <1>2, <1>3 DEF Owners

\* The request in hand is answered, or goes on to a node that may serve it.
Moved(n, asking) ==
    /\ request' = [request EXCEPT !.at = n, !.asking = asking]
    /\ UNCHANGED <<slotView, data, mover, mig, restores, truth, ghosts>>
Written(v) ==
    /\ request' = NoRequest
    /\ data' = [data EXCEPT ![request.at] =
                   [k \in SlotKeys |-> IF k \in request.keys THEN v ELSE @[k]]]
    /\ truth' = [k \in SlotKeys |-> IF k \in request.keys THEN v ELSE truth[k]]
    /\ UNCHANGED <<slotView, mover, mig, restores, ghosts>>

LEMMA MovedStep ==
    ASSUME MoveInv, request.op # "none", NEW n \in Owners, NEW asking \in BOOLEAN, Moved(n, asking),
           asking => ~Early /\ n = Target /\ \E k \in request.keys : data[Source][k] = 0
    PROVE  MoveInv'
<1>1. Types'
  BY DEF MoveInv, Types, Moved, Quiet
<1>2. Views' /\ Phases' /\ Deliveries' /\ ReadsCurrent'
  BY DEF MoveInv, Types, Views, Early, Phases, Quiet, Deliveries, Pending, ReadsCurrent, Moved
<1>3. Asked'
  BY DEF MoveInv, Types, Asked, Moved
<1>4. \A k \in SlotKeys : (Sure(k) /\ Kept(k))'
  BY DEF MoveInv, Sure, Kept, Answered, Moved
<1> QED
  BY <1>1, <1>2, <1>3, <1>4 DEF MoveInv

LEMMA WrittenStep ==
    ASSUME MoveInv, request.op # "none", request.at = Source => Quiet,
           GetNodeByQuery(request.at, request.keys, request.asking).how = "serve",
           NEW v \in Values, Written(v)
    PROVE  MoveInv'
<1> DEFINE n == request.at
           keys == request.keys
<1>1. n \in Owners /\ keys \subseteq SlotKeys /\ keys # {}
  BY DEF MoveInv, Types
<1>2. /\ \A k \in SlotKeys : truth'[k] = IF k \in keys THEN v ELSE truth[k]
      /\ \A k \in SlotKeys : data'[n][k] = IF k \in keys THEN v ELSE data[n][k]
      /\ \A o \in Owners : o # n => data'[o] = data[o]
  BY <1>1 DEF MoveInv, Types, Written
<1>3. \A k \in keys : /\ n = Source => Early \/ data[Source][k] # 0
                      /\ n = Target => ~Early
                      /\ n = Target /\ k \notin ghosts.gaveUp => data[Source][k] = 0 \/ Answered(k)
  BY ServedBy
<1>4. n = Source \/ n = Target
  BY <1>1 DEF Owners
<1>5. Types'
  <2>1. data' \in [Owners -> [SlotKeys -> Values]]
    BY <1>1 DEF MoveInv, Types, Written
  <2>2. truth' \in [SlotKeys -> Values]
    BY DEF MoveInv, Types, Written
  <2>3. NoRequest \in [op : {"none", "get", "set", "del"}, keys : SUBSET SlotKeys, value : Nat,
                       at : Owners \cup {NoNode}, asking : BOOLEAN] /\ NoRequest.op = "none"
    BY DEF NoRequest
  <2> QED
    BY <2>1, <2>2, <2>3 DEF MoveInv, Types, Written, Quiet
<1>6. Views' /\ ReadsCurrent' /\ Asked'
  BY DEF MoveInv, Views, Early, ReadsCurrent, Asked, Written, NoRequest
<1>7. Phases'
  <2>1. ASSUME Early PROVE \A k \in SlotKeys : data'[Target][k] = 0 /\ data'[Source][k] = truth'[k]
    <3>1. n = Source
      BY <2>1, <1>1, <1>3, <1>4
    <3> QED
      BY <2>1, <3>1, <1>2, ReshardingAssumption DEF MoveInv, Phases, Owners
  <2>2. ASSUME mover.step = "owners" PROVE \A k \in SlotKeys : data'[Source][k] = 0
    <3>1. ~Early
      BY <2>2 DEF Early
    <3>2. n = Target
      BY <2>2, <3>1, <1>1, <1>3, <1>4 DEF MoveInv, Phases
    <3> QED
      BY <2>2, <3>2, <1>2, ReshardingAssumption DEF MoveInv, Phases, Owners
  <2>3. mover' = mover /\ mig' = mig /\ restores' = restores /\ ghosts' = ghosts /\ ~request'.asking
    BY DEF Written, NoRequest
  <2> QED
    BY <2>1, <2>2, <2>3 DEF MoveInv, Phases, Early, Quiet
<1>8. Deliveries'
  <2>1. mover' = mover /\ mig' = mig /\ restores' = restores /\ ghosts' = ghosts
    BY DEF Written
  <2>2. ~Quiet => n = Target
    BY <1>4
  <2>3. ~Quiet => data'[Source] = data[Source]
    BY <2>2, <1>2, ReshardingAssumption DEF Owners
  <2> QED
    BY <2>1, <2>3 DEF MoveInv, Deliveries, Pending, Quiet
<1>9. ASSUME NEW k \in SlotKeys PROVE Sure(k)' /\ Kept(k)'
  <2>1. Sure(k) /\ Kept(k) /\ (Answered(k)' <=> Answered(k)) /\ ghosts' = ghosts /\ mover' = mover
    BY DEF MoveInv, Written, Answered
  <2>2. n = Source => ~Answered(k)
    BY DEF Answered, Quiet
  <2>3. Early => data[Target][k] = 0
    BY DEF MoveInv, Phases
  <2>4. CASE n = Source
    <3>1. data'[Target] = data[Target]
      BY <1>2, <2>4, ReshardingAssumption DEF Owners
    <3> QED
      BY <3>1, <2>1, <2>2, <2>3, <2>4, <1>2, <1>3 DEF Sure, Kept
  <2>5. CASE n = Target
    <3>1. data'[Source] = data[Source]
      BY <1>2, <2>5, ReshardingAssumption DEF Owners
    <3> QED
      BY <3>1, <2>1, <2>5, <1>2, <1>3 DEF Sure, Kept
  <2> QED
    BY <1>4, <2>4, <2>5
<1> QED
  BY <1>5, <1>6, <1>7, <1>8, <1>9 DEF MoveInv

\* The request ends and nothing else changes.
LEMMA DroppedStep ==
    ASSUME MoveInv, request' = NoRequest, UNCHANGED <<slotView, data, mover, mig, restores, truth>>,
           ghosts' = [ghosts EXCEPT !.staleReply = FALSE]
    PROVE  MoveInv'
<1>1. NoRequest \in [op : {"none", "get", "set", "del"}, keys : SUBSET SlotKeys, value : Nat,
                     at : Owners \cup {NoNode}, asking : BOOLEAN]
      /\ NoRequest.op = "none" /\ NoRequest.asking = FALSE
  BY DEF NoRequest
<1>2. ghosts' = ghosts
  BY DEF MoveInv, Types, ReadsCurrent
<1>3. Types' /\ Asked'
  BY <1>1, <1>2 DEF MoveInv, Types, Asked, Quiet
<1>4. Views' /\ Phases' /\ Deliveries' /\ ReadsCurrent'
  BY <1>1, <1>2 DEF MoveInv, Views, Early, Phases, Quiet, Deliveries, Pending, ReadsCurrent
<1>5. \A k \in SlotKeys : (Sure(k) /\ Kept(k))'
  BY <1>2 DEF MoveInv, Sure, Kept, Answered
<1> QED
  BY <1>3, <1>4, <1>5 DEF MoveInv

LEMMA ProcessStep ==
    ASSUME MoveInv, Process
    PROVE  MoveInv'
<1> DEFINE r == GetNodeByQuery(request.at, request.keys, request.asking)
<1>1. /\ request.op # "none" /\ (request.at = Source => Quiet)
      /\ UNCHANGED <<slotView, mover, mig, restores>>
  BY DEF Process
<1>2. /\ request.at \in Owners /\ request.keys \in SUBSET SlotKeys /\ request.keys # {}
      /\ request.asking \in BOOLEAN /\ request.op \in {"get", "set", "del"}
      /\ (request.op = "set" => request.value \in 1 .. MaxValues)
  BY <1>1 DEF MoveInv, Types
<1>3. /\ r.how \in {"serve", "moved", "ask", "tryagain"}
      /\ r.how \in {"moved", "ask"} => r.to \in Owners
      /\ r.how = "ask" => ~Early /\ r.to = Target /\ \E k \in request.keys : data[Source][k] = 0
  <2>1. CASE request.at = Source
    <3>1. LET q == GetNodeByQuery(Source, request.keys, request.asking)
          IN  /\ q.how \in {"serve", "ask", "moved"} /\ q.to \in Owners
              /\ q.how = "ask" => /\ ~Early /\ q.to = Target
                                  /\ \E k \in request.keys : data[Source][k] = 0
      BY <1>2, SourceAnswers DEF MoveInv
    <3> QED
      BY <2>1, <3>1
  <2>2. CASE request.at = Target
    <3> DEFINE q == GetNodeByQuery(Target, request.keys, request.asking)
    <3>1. q.how \in {"serve", "moved", "tryagain"} /\ (q.how = "moved" => q.to \in Owners)
      BY <1>2, TargetAnswers DEF MoveInv
    <3>2. r = q
      BY <2>2
    <3> HIDE DEF q, r
    <3> QED
      BY <3>1, <3>2
  <2> QED
    BY <2>1, <2>2, <1>2 DEF Owners
<1>4. CASE r.how = "serve" /\ request.op = "get"
  <2>1. \A k \in request.keys \ ghosts.gaveUp : data[request.at][k] = truth[k]
    BY <1>1, <1>4, ReadCurrent
  <2>2. ghosts' = [ghosts EXCEPT !.staleReply =
              @ \/ \E k \in request.keys \ ghosts.gaveUp : data[request.at][k] # truth[k]]
        /\ request' = NoRequest /\ UNCHANGED <<data, truth>>
    BY <1>4 DEF Process
  <2>3. ghosts.staleReply = FALSE
    BY DEF MoveInv, Types, ReadsCurrent
  <2>4. ghosts' = [ghosts EXCEPT !.staleReply = FALSE]
    BY <2>1, <2>2, <2>3
  <2> QED
    BY <2>2, <2>4, <1>1, DroppedStep
<1>5. CASE r.how = "serve" /\ request.op # "get"
  <2> DEFINE v == IF request.op = "set" THEN request.value ELSE 0
  <2>1. v \in Values
    BY <1>2, ReshardingAssumption DEF Values
  <2>2. Written(v)
    BY <1>5, <1>1 DEF Process, Written
  <2> HIDE DEF v
  <2> QED
    BY <2>1, <2>2, <1>1, <1>5, WrittenStep
<1>6. CASE r.how \in {"moved", "ask"}
  <2>1. Moved(r.to, r.how = "ask")
    BY <1>6, <1>1 DEF Process, Moved
  <2> HIDE DEF r
  <2> QED
    BY <2>1, <1>1, <1>3, <1>6, MovedStep
<1>7. CASE r.how = "tryagain"
  <2>1. request' = NoRequest /\ UNCHANGED <<data, truth, ghosts>>
    BY <1>7 DEF Process
  <2>2. ghosts' = [ghosts EXCEPT !.staleReply = FALSE]
    BY <2>1 DEF MoveInv, Types, ReadsCurrent
  <2> QED
    BY <2>1, <2>2, <1>1, DroppedStep
<1> QED
  BY <1>3, <1>4, <1>5, <1>6, <1>7

-----------------------------------------------------------------------------
(* The theorems *)

LEMMA InvInit == ReshardingInit => MoveInv
<1> SUFFICES ASSUME ReshardingInit PROVE MoveInv
  OBVIOUS
<1>1. Types
  BY NoMigType, ReshardingAssumption
  DEF ReshardingInit, Types, Owners, Steps, Values, Quiet, NoMig, NoRequest
<1>2. Views /\ Phases /\ Deliveries /\ Asked /\ ReadsCurrent
  BY ReshardingAssumption DEF ReshardingInit, Views, Phases, Deliveries, Asked, ReadsCurrent,
     Early, Owners, Quiet, NoMig, NoRequest
<1>3. \A k \in SlotKeys : Sure(k) /\ Kept(k)
  BY ReshardingAssumption DEF ReshardingInit, Sure, Kept, Answered, Owners, NoMig
<1> QED
  BY <1>1, <1>2, <1>3 DEF MoveInv

LEMMA InvStep == MoveInv /\ [ReshardingNext]_xvars => MoveInv'
<1> SUFFICES ASSUME MoveInv, [ReshardingNext]_xvars PROVE MoveInv'
  OBVIOUS
<1>1. CASE SetImporting \/ SetMigrating \/ AllMoved \/ Hears
  BY <1>1, SetImportingStep, SetMigratingStep, AllMovedStep, HearsStep
<1>2. CASE \E k \in SlotKeys : \E replace \in BOOLEAN : StartMigrate(k, replace)
  BY <1>2, StartMigrateStep
<1>3. CASE \E n \in Owners : SetOwner(n)
  BY <1>3, SetOwnerStep
<1>4. CASE ConnectFails \/ ReadReply \/ (\E delivered \in BOOLEAN : SendRestore(delivered))
  BY <1>4, ConnectFailsStep, ReadReplyStep, SendRestoreStep
<1>5. CASE (\E timeout \in BOOLEAN : GiveUp(timeout)) \/ (\E m \in restores : Restore(m))
  BY <1>5, GiveUpStep, RestoreStep
<1>6. CASE \E op \in {"get", "set", "del"} : \E keys \in SUBSET SlotKeys : \E n \in Owners :
             Issue(op, keys, n)
  BY <1>6, IssueStep
<1>7. CASE Process
  BY <1>7, ProcessStep
<1>8. CASE UNCHANGED xvars
  <2>1. Types' /\ Views' /\ Phases' /\ Asked'
    BY <1>8 DEF xvars, MoveInv, Types, Views, Phases, Asked, Quiet, Early
  <2>2. Deliveries' /\ ReadsCurrent' /\ \A k \in SlotKeys : (Sure(k) /\ Kept(k))'
    BY <1>8 DEF xvars, MoveInv, Deliveries, Pending, Quiet, ReadsCurrent, Sure, Kept, Answered
  <2> QED
    BY <2>1, <2>2 DEF MoveInv
<1> QED
  BY <1>1, <1>2, <1>3, <1>4, <1>5, <1>6, <1>7, <1>8 DEF ReshardingNext

LEMMA MoveInvariance == ReshardingSpec => []MoveInv
BY InvInit, InvStep, PTL DEF ReshardingSpec

\* The tables of slots and the keys keep their domains, and the key of a MIGRATE does not
\* change at the source before the reply is read: migrateCommand blocks the server.
THEOREM ReshardingTypeCorrect == ReshardingSpec => []ReshardingTypeOK
<1>1. MoveInv => ReshardingTypeOK
  BY DEF MoveInv, Types, Deliveries, ReshardingTypeOK, Values
<1> QED
  BY <1>1, MoveInvariance, PTL

\* Whatever sockets fail and however late a RESTORE runs, the last acknowledged value of a
\* key is at one of the two nodes (the exceptions are those of NothingLost).
THEOREM ValuesKept == ReshardingSpec => []NothingLost
<1>1. MoveInv => NothingLost
  BY DEF MoveInv, Kept, NothingLost, Owners
<1> QED
  BY <1>1, MoveInvariance, PTL

\* A client that follows MOVED and ASK reads the value last written, at every moment of the
\* move, of every key whose MIGRATE was not given up.
THEOREM RedirectedReads == ReshardingSpec => []ReadsCurrent
<1>1. MoveInv => ReadsCurrent
  BY DEF MoveInv
<1> QED
  BY <1>1, MoveInvariance, PTL

\* Who serves a key of the slot.
LEMMA OneServerHolds == MoveInv => OneServer
<1>1. ASSUME MoveInv, NEW k \in SlotKeys
      PROVE  /\ ~(/\ GetNodeByQuery(Source, {k}, FALSE).how = "serve"
                  /\ GetNodeByQuery(Target, {k}, FALSE).how = "serve")
             /\ GetNodeByQuery(Source, {k}, FALSE).how = "ask"
                   => GetNodeByQuery(Target, {k}, TRUE).how = "serve"
  <2>1. Types /\ Views /\ {k} \in SUBSET SlotKeys /\ {k} # {}
    BY <1>1 DEF MoveInv
  <2>2. ~(Cardinality({k}) > 1)
    <3>1. Cardinality({k}) = 1
      BY FS_Singleton
    <3> QED
      BY <3>1
  <2>3. GetNodeByQuery(Source, {k}, FALSE).how = "serve" => Early \/ data[Source][k] # 0
    BY <2>1, SourceAnswers
  <2>4. GetNodeByQuery(Source, {k}, FALSE).how = "ask" => ~Early
    BY <2>1, SourceAnswers
  <2>5. GetNodeByQuery(Target, {k}, FALSE).how = "serve" => mover.step = "owners"
    BY <2>1, TargetAnswers
  <2>6. ~Early => GetNodeByQuery(Target, {k}, TRUE).how = "serve"
    BY <2>1, <2>2, TargetAnswers
  <2>7. mover.step = "owners" => ~Early /\ data[Source][k] = 0
    BY <1>1 DEF MoveInv, Phases, Early
  <2> QED
    BY <2>3, <2>4, <2>5, <2>6, <2>7
<1> QED
  BY <1>1 DEF OneServer

\* The two nodes never both serve a key to a client that does not ask, and a client told to
\* ask is served.
THEOREM OneServes == ReshardingSpec => []OneServer
BY OneServerHolds, MoveInvariance, PTL

\* ReshardingSound of the run, in which this part of the system has a behaviour to itself.
THEOREM ReshardingPart == PartsSpec => []ReshardingSound
<1> DEFINE PartInv == part = "resharding" => MoveInv
<1>1. PartsInit => PartInv
  BY InvInit DEF PartsInit
<1>2. PartInv /\ [PartsNext]_<<part, rvars, xvars, pvars, lvars>> => PartInv'
  <2> SUFFICES ASSUME PartInv, [PartsNext]_<<part, rvars, xvars, pvars, lvars>>,
                      part' = "resharding"
               PROVE  MoveInv'
    OBVIOUS
  <2>1. part = "resharding" /\ [ReshardingNext]_xvars
    BY DEF PartsNext
  <2> QED
    BY <2>1, InvStep
<1>3. PartInv => ReshardingSound
  <2>1. MoveInv => ReshardingTypeOK
    BY DEF MoveInv, Types, Deliveries, ReshardingTypeOK, Values
  <2>2. MoveInv => NothingLost
    BY DEF MoveInv, Kept, NothingLost, Owners
  <2>3. MoveInv => ReadsCurrent
    BY DEF MoveInv
  <2> QED
    BY <2>1, <2>2, <2>3, OneServerHolds DEF ReshardingSound
<1> QED
  BY <1>1, <1>2, <1>3, PTL DEF PartsSpec

-----------------------------------------------------------------------------
(* The event loop *)


Masks == SUBSET {"r", "w"}
EventProcs == {"none", "accept", "read", "write", "sync"}
FileEvents == [mask : Masks, rproc : EventProcs, wproc : EventProcs, client : Nat]
Whens == [sec : Nat, ms : Nat]
TimeEvents == [id : Nat, when : Whens]
FiredEvents == [fd : Fds, mask : Masks]
Ats == [step : {"sleep", "fire", "write", "timers", "lost"},
        files : [fired : Seq(FiredEvents), rfired : BOOLEAN, dangling : BOOLEAN],
        te : Nat, maxId : Nat]

-----------------------------------------------------------------------------
(* The inductive invariant, in parts *)

\* The entry of the listening socket, which no handler touches.
Listening == [mask |-> {"r"}, rproc |-> "accept", wproc |-> "none", client |-> 0]

\* A table ev of n clients so far, of which live are not freed: a descriptor in
\* use belongs to one client, who has no other and is alive.
Table(ev, live, n) ==
    /\ ev \in [Fds -> FileEvents] /\ ev[0] = Listening /\ 0 \in live
    /\ \A fd \in Fds : ev[fd].client <= n
    /\ \A fd \in Fds : ev[fd].mask # {} => ev[fd].client \in live
    /\ \A fd, g \in Fds : ev[fd].mask # {} /\ ev[g].mask # {} /\ ev[fd].client = ev[g].client => fd = g

\* Which of its descriptors is the highest.
Highest(ev, m, size) ==
    /\ m \in Fds /\ size \in Sizes /\ m < size
    /\ ev[m].mask # {}
    /\ \A fd \in Fds : fd > m => ev[fd].mask = {}

Served == Table(events, alive, accepted) /\ Highest(events, maxfd, setsize) /\ accepted \in 0 .. MaxNew

\* What fired on the listening socket can only be read. The loop still points
\* into a table that moved only until it is done with the event.
Firing(a) ==
    /\ a \in Ats
    /\ \A i \in 1 .. Len(a.files.fired) : a.files.fired[i].fd = 0 => a.files.fired[i].mask = {"r"}
    /\ a.files.dangling => a.step \in {"write", "lost"}
    /\ a.step = "write" => a.files.fired # <<>>

\* The clock is never set back to the second that marks an event as overdue.
Timed ==
    /\ now \in SecMs .. MaxNow /\ lastTime \in Nat
    /\ timers \in Seq(TimeEvents) /\ nextId \in Nat \ {0}
    /\ \A i \in 1 .. Len(timers) : timers[i].id < nextId

\* What a pass has still to call lies ahead of it in the list.
Ahead(d) == \E i \in 1 .. Len(timers) : i >= at.te /\ timers[i].id = d /\ OfThisPass(timers[i]) /\ IsDue(timers[i])
PassGoesOn == IF at.step = "timers" THEN at.te >= 1 /\ \A d \in due : Ahead(d) ELSE due = {}

CalledWell == at.step # "lost" => called = [dead |-> FALSE, again |-> FALSE]

LoopInv == Served /\ Firing(at) /\ Timed /\ PassGoesOn /\ CalledWell
-----------------------------------------------------------------------------
(* Least and greatest elements, and taking one element out of a sequence *)

LEMMA LeastOf == ASSUME NEW S \in SUBSET Nat, S # {}
                 PROVE  \E x \in S : \A y \in S : x <= y
<1>1. IsWellFoundedOn(OpToRel(<, Nat), Nat) BY NatLessThanWellFounded
<1>2. PICK x \in S : \A y \in S : ~(<<y, x>> \in OpToRel(<, Nat)) BY <1>1, WFMin, Zenon
<1>3. \A y \in S : ~(y < x) BY <1>2 DEF OpToRel
<1> QED BY <1>3

LEMMA GreatestOf == ASSUME NEW n \in Nat, NEW S \in SUBSET (-1 .. n), S # {}
                    PROVE  \E x \in S : \A y \in S : y <= x
<1> DEFINE T == {n - x : x \in S}
<1>0. \A x \in S : x \in Int /\ x <= n OBVIOUS
<1>1. T \in SUBSET Nat /\ T # {}
  <2>1. PICK x \in S : TRUE OBVIOUS
  <2>2. n - x \in T BY <2>1
  <2>3. \A t \in T : t \in Nat BY <1>0
  <2> QED BY <2>2, <2>3
<1>2. PICK t \in T : \A u \in T : t <= u BY <1>1, LeastOf
<1>3. PICK x \in S : t = n - x BY <1>2
<1>4. \A y \in S : n - y \in T OBVIOUS
<1>5. \A y \in S : n - x <= n - y BY <1>2, <1>3, <1>4
<1> QED BY <1>0, <1>5

LEMMA Removed ==
    ASSUME NEW S, NEW s \in Seq(S), NEW k \in 1 .. Len(s)
    PROVE  /\ RemoveAt(s, k) \in Seq(S)
           /\ \A j \in 1 .. Len(RemoveAt(s, k)) : \E i \in 1 .. Len(s) : RemoveAt(s, k)[j] = s[i]
           /\ \A i \in 1 .. Len(s) : i # k => \E j \in 1 .. Len(RemoveAt(s, k)) : RemoveAt(s, k)[j] = s[i]
<1> DEFINE n == Len(s)  a == SubSeq(s, 1, k - 1)  b == SubSeq(s, k + 1, n)
<1>0. n \in Nat /\ k \in 1 .. n /\ k - 1 \in Int /\ k + 1 \in Int BY LenProperties
<1>1. \A i \in 1 .. n : s[i] \in S BY ElementOfSeq
<1>2. a \in Seq(S) /\ Len(a) = k - 1 /\ \A i \in 1 .. k - 1 : a[i] = s[i]
  <2>1. \A i \in 1 .. k - 1 : s[i] \in S BY <1>0, <1>1
  <2> HIDE DEF n
  <2> QED BY <2>1, <1>0, SubSeqProperties
<1>3. b \in Seq(S) /\ Len(b) = n - k /\ \A i \in 1 .. n - k : b[i] = s[k + i]
  <2>1. \A i \in k + 1 .. n : s[i] \in S BY <1>0, <1>1
  <2> HIDE DEF n
  <2> QED BY <2>1, <1>0, SubSeqProperties
<1>4. RemoveAt(s, k) = a \o b BY DEF RemoveAt
<1> HIDE DEF a, b, n
<1> DEFINE r == a \o b
<1>5. r \in Seq(S) /\ Len(r) = n - 1
  <2>1. r \in Seq(S) /\ Len(r) = Len(a) + Len(b) BY <1>2, <1>3, ConcatProperties
  <2>2. (k - 1) + (n - k) = n - 1 BY <1>0
  <2> QED BY <2>1, <2>2, <1>2, <1>3
<1>6. \A j \in 1 .. n - 1 : r[j] = IF j <= k - 1 THEN s[j] ELSE s[j + 1]
  <2> SUFFICES ASSUME NEW j \in 1 .. n - 1 PROVE r[j] = IF j <= k - 1 THEN s[j] ELSE s[j + 1] OBVIOUS
  <2>1. r[j] = IF j <= k - 1 THEN a[j] ELSE b[j - (k - 1)]
    BY <1>0, <1>2, <1>3, ConcatProperties
  <2>2. j > k - 1 => j - (k - 1) \in 1 .. n - k /\ k + (j - (k - 1)) = j + 1 BY <1>0
  <2> QED BY <2>1, <2>2, <1>0, <1>2, <1>3
<1> HIDE DEF r
<1>7. \A j \in 1 .. n - 1 : \E i \in 1 .. n : r[j] = s[i] BY <1>0, <1>6
<1>8. \A i \in 1 .. n : i # k => \E j \in 1 .. n - 1 : r[j] = s[i]
  <2> SUFFICES ASSUME NEW i \in 1 .. n, i # k PROVE \E j \in 1 .. n - 1 : r[j] = s[i] OBVIOUS
  <2>1. CASE i < k BY <2>1, <1>0, <1>6
  <2>2. CASE i > k
    <3>1. i - 1 \in 1 .. n - 1 /\ ~(i - 1 <= k - 1) /\ (i - 1) + 1 = i BY <2>2, <1>0
    <3> QED BY <3>1, <1>6
  <2> QED BY <2>1, <2>2, <1>0
<1> QED BY <1>4, <1>5, <1>7, <1>8 DEF r, n

\* What aeDeleteTimeEvent leaves: nothing new, and everything with another id.
LEMMA Deleted ==
    ASSUME NEW ts \in Seq(TimeEvents), NEW id
    PROVE  /\ AeDeleteTimeEvent(ts, id) \in Seq(TimeEvents)
           /\ \A j \in 1 .. Len(AeDeleteTimeEvent(ts, id)) :
                \E i \in 1 .. Len(ts) : AeDeleteTimeEvent(ts, id)[j] = ts[i]
           /\ \A i \in 1 .. Len(ts) : ts[i].id # id =>
                \E j \in 1 .. Len(AeDeleteTimeEvent(ts, id)) : AeDeleteTimeEvent(ts, id)[j] = ts[i]
<1> DEFINE I == {i \in 1 .. Len(ts) : ts[i].id = id}
<1>1. CASE I = {}
  <2>1. AeDeleteTimeEvent(ts, id) = ts BY <1>1 DEF AeDeleteTimeEvent, RemoveFirstMatch
  <2> QED BY <2>1
<1>2. CASE I # {}
  <2> DEFINE k == SelectInSeq(ts, LAMBDA te : te.id = id)
  <2>1. AeDeleteTimeEvent(ts, id) = RemoveAt(ts, k) BY <1>2 DEF AeDeleteTimeEvent, RemoveFirstMatch
  <2>2. k = Min(I) BY <1>2 DEF SelectInSeq
  <2>3. I \in SUBSET Nat OBVIOUS
  <2>4. \E x \in I : \A y \in I : x <= y BY <1>2, <2>3, LeastOf
  <2>5. k \in I BY <2>2, <2>4 DEF Min
  <2> HIDE DEF k
  <2>6. k \in 1 .. Len(ts) /\ ts[k].id = id BY <2>5
  <2> DEFINE r == RemoveAt(ts, k)
  <2>7. /\ r \in Seq(TimeEvents)
        /\ \A j \in 1 .. Len(r) : \E i \in 1 .. Len(ts) : r[j] = ts[i]
        /\ \A i \in 1 .. Len(ts) : i # k => \E j \in 1 .. Len(r) : r[j] = ts[i]
    BY <2>6, Removed, Zenon
  <2> HIDE DEF r
  <2>8. AeDeleteTimeEvent(ts, id) = r BY <2>1 DEF r
  <2> QED BY <2>6, <2>7, <2>8
<1> QED BY <1>1, <1>2

-----------------------------------------------------------------------------
(* What the handlers do to the table of events *)

\* The client of a descriptor in use has that descriptor.
LEMMA OwnFd ==
    ASSUME Table(events, alive, accepted), NEW fd \in Fds, events[fd].mask # {}
    PROVE  FdOf(events[fd].client) = fd
<1> DEFINE S == {g \in Fds : events[g].client = events[fd].client /\ events[g].mask # {}}
<1>1. \A g \in Fds : events[g].client = events[fd].client /\ events[g].mask # {} => g = fd BY DEF Table
<1>2. FdOf(events[fd].client) = CHOOSE g \in Fds : events[g].client = events[fd].client /\ events[g].mask # {}
  BY DEF FdOf
<1> QED BY <1>1, <1>2

LEMMA ConnectedHasFd ==
    ASSUME Table(events, alive, accepted), NEW c \in Connected
    PROVE  /\ FdOf(c) \in Fds \ {0}
           /\ events[FdOf(c)].mask # {} /\ events[FdOf(c)].client = c
<1>1. PICK fd \in Fds : events[fd].client = c /\ events[fd].mask # {} BY DEF Connected
<1>2. FdOf(c) = fd BY <1>1, OwnFd
<1>3. c # 0 BY DEF Connected
<1>4. fd # 0 BY <1>1, <1>3 DEF Table, Listening
<1> QED BY <1>1, <1>2, <1>4

LEMMA Lowered ==
    ASSUME NEW ev \in [Fds -> FileEvents], ev[0].mask # {}, NEW m \in Fds, NEW fd \in Fds,
           ev[m].mask # {} \/ fd = m,
           \A g \in Fds : g > m => ev[g].mask = {}
    PROVE  /\ LowerMaxFd(ev, fd, m) \in Fds /\ LowerMaxFd(ev, fd, m) <= m
           /\ ev[LowerMaxFd(ev, fd, m)].mask # {}
           /\ \A g \in Fds : g > LowerMaxFd(ev, fd, m) => ev[g].mask = {}
<1>0. Fds \subseteq Nat /\ 0 \in Fds BY EventLoopAssumption
<1>1. CASE ~(fd = m /\ ev[fd].mask = {})
  <2>1. LowerMaxFd(ev, fd, m) = m BY <1>1 DEF LowerMaxFd
  <2>2. ev[m].mask # {} BY <1>1
  <2> QED BY <2>1, <2>2, <1>0
<1>2. CASE fd = m /\ ev[fd].mask = {}
  <2> DEFINE used == {j \in Fds : j < m /\ ev[j].mask # {}} \cup {-1}
             top == CHOOSE j \in used : \A i \in used : i <= j
  <2>1. LowerMaxFd(ev, fd, m) = top BY <1>2 DEF LowerMaxFd
  <2>2. m \in Nat /\ m # 0 BY <1>0, <1>2
  <2>3. used \in SUBSET (-1 .. m)
    <3>1. -1 \in -1 .. m BY <2>2
    <3>2. \A j \in Fds : j < m => j \in -1 .. m BY <1>0, <2>2
    <3> QED BY <3>1, <3>2
  <2>4. \E j \in used : \A i \in used : i <= j
    <3> HIDE DEF used
    <3>1. -1 \in used BY DEF used
    <3> QED BY <2>2, <2>3, <3>1, GreatestOf
  <2>5. top \in used /\ \A i \in used : i <= top
    <3> HIDE DEF used
    <3> QED BY <2>4
  <2>6. 0 \in used BY <1>0, <2>2
  <2>7. top >= 0 /\ top # -1 BY <2>5, <2>6, <2>3
  <2>8. top \in Fds /\ top < m /\ ev[top].mask # {} BY <2>5, <2>7
  <2>9. ASSUME NEW g \in Fds, g > top PROVE ev[g].mask = {}
    <3>1. CASE g > m BY <3>1
    <3>2. CASE g = m BY <3>2, <1>2
    <3>3. CASE g < m
      <4>1. g \in Nat /\ top \in Nat /\ ~(g <= top)
        <5> HIDE DEF top
        <5> QED BY <2>9, <2>8, <1>0
      <4>2. g \notin used BY <4>1, <2>5
      <4> QED BY <4>2, <3>3
    <3> QED BY <3>1, <3>2, <3>3, <1>0
  <2> HIDE DEF top
  <2> QED BY <2>1, <2>8, <2>9, <2>2, <1>0
<1> QED BY <1>1, <1>2

LEMMA DeletesFileEvent ==
    ASSUME Served, NEW fd \in Fds \ {0}, NEW mask, AeDeleteFileEvent(fd, mask)
    PROVE  /\ Table(events', alive, accepted) /\ Highest(events', maxfd', setsize)
           /\ events'[fd].mask = events[fd].mask \ mask
           /\ \A g \in Fds \ {fd} : events'[g] = events[g]
           /\ \A g \in Fds : events'[g].client = events[g].client
<1> DEFINE ev == WithoutEvent(events, fd, mask)
<1>0. Fds \subseteq Nat /\ 0 \in Fds BY EventLoopAssumption
<1>1. events' = ev /\ maxfd' = LowerMaxFd(ev, fd, maxfd) BY DEF AeDeleteFileEvent
<1>2. Table(events, alive, accepted) /\ Highest(events, maxfd, setsize) BY DEF Served
<1>3. events \in [Fds -> FileEvents] BY <1>2 DEF Table
<1>4. /\ ev[fd] = [events[fd] EXCEPT !.mask = @ \ mask]
      /\ \A g \in Fds \ {fd} : ev[g] = events[g]
  BY <1>3 DEF WithoutEvent
<1>5. /\ ev[fd].mask = events[fd].mask \ mask /\ ev[fd].client = events[fd].client
      /\ ev[fd] \in FileEvents
  BY <1>3, <1>4 DEF FileEvents, Masks
<1>6. ev \in [Fds -> FileEvents]
  <2>1. ev = [events EXCEPT ![fd] = [events[fd] EXCEPT !.mask = @ \ mask]] BY <1>3 DEF WithoutEvent
  <2> QED BY <2>1, <1>3, <1>4, <1>5
<1> HIDE DEF ev
<1>7. \A g \in Fds : ev[g].client = events[g].client /\ ev[g].mask \subseteq events[g].mask
  BY <1>4, <1>5
<1>8. Table(ev, alive, accepted)
  <2>1. ev[0] = Listening /\ 0 \in alive BY <1>0, <1>2, <1>4 DEF Table
  <2>2. \A g \in Fds : ev[g].client <= accepted BY <1>2, <1>7 DEF Table
  <2>3. \A g \in Fds : ev[g].mask # {} => events[g].mask # {} BY <1>7
  <2>4. \A g \in Fds : ev[g].mask # {} => ev[g].client \in alive BY <1>2, <1>7, <2>3 DEF Table
  <2>5. \A g, h \in Fds : ev[g].mask # {} /\ ev[h].mask # {} /\ ev[g].client = ev[h].client => g = h
    BY <1>2, <1>7, <2>3 DEF Table
  <2> QED BY <1>6, <2>1, <2>2, <2>4, <2>5 DEF Table
<1>9. Highest(ev, maxfd', setsize)
  <2>1. /\ maxfd \in Fds /\ setsize \in Sizes /\ maxfd < setsize /\ events[maxfd].mask # {}
        /\ \A g \in Fds : g > maxfd => events[g].mask = {}
    BY <1>2 DEF Highest
  <2>2. ev[0].mask # {} BY <1>8 DEF Table, Listening
  <2>3. ev[maxfd].mask # {} \/ fd = maxfd BY <1>4, <2>1
  <2>4. \A g \in Fds : g > maxfd => ev[g].mask = {} BY <1>7, <2>1
  <2>5. /\ maxfd' \in Fds /\ maxfd' <= maxfd /\ ev[maxfd'].mask # {}
        /\ \A g \in Fds : g > maxfd' => ev[g].mask = {}
    BY <1>1, <1>6, <2>1, <2>2, <2>3, <2>4, Lowered
  <2>6. maxfd' < setsize BY <2>1, <2>5, <1>0, EventLoopAssumption
  <2> QED BY <2>1, <2>5, <2>6 DEF Highest
<1> QED BY <1>1, <1>4, <1>5, <1>7, <1>8, <1>9

LEMMA CreatesFileEvent ==
    ASSUME Served, NEW fd \in Fds \ {0}, NEW mask \in Masks, NEW proc \in EventProcs,
           NEW c \in Nat \ {0}, NEW live, NEW n \in Nat,
           alive \subseteq live, c \in live, accepted <= n, c <= n, mask # {}, fd < setsize,
           \A g \in Fds \ {fd} : events[g].mask # {} => events[g].client # c,
           AeCreateFileEvent(fd, mask, proc, c)
    PROVE  Table(events', live, n) /\ Highest(events', maxfd', setsize)
<1> DEFINE new == [mask |-> events[fd].mask \cup mask, client |-> c,
                   rproc |-> IF "r" \in mask THEN proc ELSE events[fd].rproc,
                   wproc |-> IF "w" \in mask THEN proc ELSE events[fd].wproc]
<1>0. Fds \subseteq Nat /\ 0 \in Fds BY EventLoopAssumption
<1>1. Table(events, alive, accepted) /\ Highest(events, maxfd, setsize) /\ accepted \in Nat BY DEF Served
<1>2. events \in [Fds -> FileEvents] BY <1>1 DEF Table
<1>3. events' = [events EXCEPT ![fd] = new] BY <1>2 DEF AeCreateFileEvent, WithEvent
<1>4. new \in FileEvents
  <2>1. events[fd] \in FileEvents BY <1>2
  <2> QED BY <2>1 DEF FileEvents, Masks
<1>5. new.mask # {} /\ new.client = c OBVIOUS
<1> HIDE DEF new
<1>6. /\ events' \in [Fds -> FileEvents] /\ events'[fd] = new
      /\ \A g \in Fds \ {fd} : events'[g] = events[g]
  BY <1>2, <1>3, <1>4
<1>7. Table(events', live, n)
  <2>1. events'[0] = Listening /\ 0 \in live BY <1>0, <1>1, <1>6 DEF Table
  <2>2. \A g \in Fds : events'[g].client <= n
    <3>1. \A g \in Fds : events[g].client <= accepted /\ events[g].client \in Nat
      BY <1>1, <1>2 DEF Table, FileEvents
    <3> QED BY <3>1, <1>1, <1>5, <1>6
  <2>3. \A g \in Fds : events'[g].mask # {} => events'[g].client \in live BY <1>1, <1>5, <1>6 DEF Table
  <2>4. \A g, h \in Fds : events'[g].mask # {} /\ events'[h].mask # {} /\ events'[g].client = events'[h].client
          => g = h
    <3> SUFFICES ASSUME NEW g \in Fds, NEW h \in Fds, events'[g].mask # {}, events'[h].mask # {},
                        events'[g].client = events'[h].client, g # h
                 PROVE  FALSE
      OBVIOUS
    <3>1. CASE g = fd BY <3>1, <1>5, <1>6
    <3>2. CASE h = fd BY <3>2, <1>5, <1>6
    <3>3. CASE g # fd /\ h # fd BY <3>3, <1>1, <1>6 DEF Table
    <3> QED BY <3>1, <3>2, <3>3
  <2> QED BY <1>6, <2>1, <2>2, <2>3, <2>4 DEF Table
<1>8. Highest(events', maxfd', setsize)
  <2>1. /\ maxfd \in Fds /\ setsize \in Sizes /\ maxfd < setsize /\ events[maxfd].mask # {}
        /\ \A g \in Fds : g > maxfd => events[g].mask = {}
    BY <1>1 DEF Highest
  <2>2. maxfd' = IF fd > maxfd THEN fd ELSE maxfd BY DEF AeCreateFileEvent
  <2>3. maxfd' \in Fds /\ maxfd' < setsize BY <2>1, <2>2
  <2>4. events'[maxfd'].mask # {} BY <2>1, <2>2, <1>5, <1>6
  <2>5. \A g \in Fds : g > maxfd' => events'[g].mask = {}
    <3>1. \A g \in Fds : g > maxfd' => g # fd /\ g > maxfd BY <2>1, <2>2, <1>0
    <3> QED BY <3>1, <2>1, <1>6
  <2> QED BY <2>1, <2>3, <2>4, <2>5 DEF Highest
<1> QED BY <1>7, <1>8

(* The five changes a handler can make leave the table sound *)

LEMMA AcceptKeeps ==
    ASSUME Served, nextId \in Nat \ {0}, NEW mask \in Masks, mask # {}, NEW proc \in EventProcs, Accept(mask, proc)
    PROVE  Served'
<1>0. Fds \subseteq Nat /\ 0 \in Fds /\ MaxNew \in Nat BY EventLoopAssumption
<1>1. /\ Table(events, alive, accepted) /\ Highest(events, maxfd, setsize) /\ accepted \in Nat
      /\ accepted <= MaxNew
  BY <1>0 DEF Served
<1>2. accepted' = accepted + 1 /\ setsize' = setsize /\ accepted + nextId <= MaxNew BY DEF Accept, RoomForNew
<1>3. accepted' \in 0 .. MaxNew BY <1>0, <1>1, <1>2
<1> DEFINE free == {fd \in Fds : events[fd].mask = {}}
<1>4. FreeFd \in free
  <2>1. free # {} BY DEF Accept
  <2>2. free \in SUBSET Nat BY <1>0
  <2>3. \E fd \in free : \A g \in free : fd <= g
    <3> HIDE DEF free
    <3> QED BY <2>1, <2>2, LeastOf
  <2>4. FreeFd = CHOOSE fd \in free : \A g \in free : fd <= g BY DEF FreeFd
  <2> HIDE DEF free
  <2> QED BY <2>3, <2>4
<1>5. FreeFd \in Fds /\ events[FreeFd].mask = {} BY <1>4
<1>6. FreeFd # 0 BY <1>1, <1>5 DEF Table, Listening
<1>7. \A g \in Fds : events[g].client <= accepted /\ events[g].client \in Nat
  BY <1>1 DEF Table, FileEvents
<1>8. CASE FreeFd >= setsize
  <2>1. UNCHANGED <<events, maxfd, alive>> BY <1>8 DEF Accept
  <2>2. \A g \in Fds : events[g].client <= accepted + 1 BY <1>1, <1>7
  <2>3. Table(events, alive, accepted + 1) BY <1>1, <2>2 DEF Table
  <2> QED BY <2>1, <2>3, <1>1, <1>2, <1>3 DEF Served
<1>9. CASE ~(FreeFd >= setsize)
  <2>1. AeCreateFileEvent(FreeFd, mask, proc, accepted + 1) /\ alive' = alive \cup {accepted + 1}
    BY <1>9 DEF Accept
  <2>2. FreeFd \in Fds \ {0} /\ FreeFd < setsize
    <3>1. setsize \in Nat BY <1>1, EventLoopAssumption DEF Highest
    <3>2. FreeFd \in Nat BY <1>0, <1>5
    <3>3. FreeFd < setsize BY <3>1, <3>2, <1>9
    <3> QED BY <3>3, <1>5, <1>6
  <2>3. \A g \in Fds \ {FreeFd} : events[g].mask # {} => events[g].client # accepted + 1 BY <1>1, <1>7
  <2>4. Table(events', alive', accepted + 1) /\ Highest(events', maxfd', setsize)
    <3>1. /\ accepted + 1 \in Nat \ {0} /\ accepted + 1 \in Nat /\ accepted <= accepted + 1
          /\ accepted + 1 <= accepted + 1
      BY <1>1
    <3>2. alive \subseteq alive' /\ accepted + 1 \in alive' BY <2>1
    <3> QED BY <2>1, <2>2, <2>3, <3>1, <3>2, CreatesFileEvent
  <2> QED BY <2>4, <1>2, <1>3 DEF Served
<1> QED BY <1>8, <1>9

LEMMA FreeKeeps ==
    ASSUME Served, NEW c, FdOf(c) \in Fds \ {0}, events[FdOf(c)].client = c,
           events[FdOf(c)].mask # {}, Free(c)
    PROVE  Served'
<1> DEFINE fd == FdOf(c)
<1>0. 0 \in Fds BY EventLoopAssumption
<1>1. AeDeleteFileEvent(fd, {"r", "w"}) /\ alive' = alive \ {c} /\ UNCHANGED <<setsize, accepted>> BY DEF Free
<1>2. fd \in Fds \ {0} OBVIOUS
<1>3. /\ Table(events', alive, accepted) /\ Highest(events', maxfd', setsize)
      /\ events'[fd].mask = events[fd].mask \ {"r", "w"}
      /\ \A g \in Fds \ {fd} : events'[g] = events[g]
  <2> HIDE DEF fd
  <2> QED BY <1>1, <1>2, DeletesFileEvent
<1>4. Table(events, alive, accepted) BY DEF Served
<1>5. events'[fd].mask = {}
  <2>1. events[fd].mask \subseteq {"r", "w"} BY <1>2, <1>4 DEF Table, FileEvents, Masks
  <2> QED BY <2>1, <1>3
<1>6. \A g \in Fds : events'[g].mask # {} => events'[g].client # c
  <2> SUFFICES ASSUME NEW g \in Fds, events'[g].mask # {} PROVE events'[g].client # c OBVIOUS
  <2>1. g # fd BY <1>5
  <2>2. events'[g] = events[g] BY <2>1, <1>3
  <2> QED BY <2>1, <2>2, <1>4 DEF Table
<1>7. 0 \in alive \ {c}
  <2>1. events[0] = Listening /\ 0 \in alive BY <1>4 DEF Table
  <2>2. c # 0 BY <2>1, <1>0, <1>2, <1>4 DEF Table, Listening
  <2> QED BY <2>1, <2>2
<1>8. Table(events', alive', accepted) BY <1>1, <1>3, <1>6, <1>7 DEF Table
<1> QED BY <1>1, <1>3, <1>8 DEF Served

LEMMA RemoveWriteKeeps ==
    ASSUME Served, NEW c, FdOf(c) \in Fds \ {0}, RemoveWrite(c)
    PROVE  Served'
<1>1. AeDeleteFileEvent(FdOf(c), {"w"}) /\ UNCHANGED <<setsize, alive, accepted>> BY DEF RemoveWrite
<1>2. Table(events', alive, accepted) /\ Highest(events', maxfd', setsize) BY <1>1, DeletesFileEvent
<1> QED BY <1>1, <1>2 DEF Served

LEMMA InstallWriteKeeps ==
    ASSUME Served, NEW c \in Connected, InstallWrite(c)
    PROVE  Served'
<1>0. Fds \subseteq Nat BY EventLoopAssumption
<1>1. Table(events, alive, accepted) /\ Highest(events, maxfd, setsize) /\ accepted \in 0 .. MaxNew BY DEF Served
<1>2. FdOf(c) \in Fds \ {0} /\ events[FdOf(c)].mask # {} /\ events[FdOf(c)].client = c BY <1>1, ConnectedHasFd
<1>3. AeCreateFileEvent(FdOf(c), {"w"}, "write", c) /\ UNCHANGED <<setsize, alive, accepted>> BY DEF InstallWrite
<1>4. FdOf(c) < setsize
  <2>1. maxfd < setsize /\ maxfd \in Fds /\ setsize \in Sizes /\ ~(FdOf(c) > maxfd) BY <1>1, <1>2 DEF Highest
  <2>2. FdOf(c) \in Nat /\ maxfd \in Nat /\ setsize \in Nat BY <1>0, <1>2, <2>1, EventLoopAssumption
  <2> QED BY <2>1, <2>2
<1>5. c \in Nat \ {0} /\ c <= accepted /\ c \in alive
  <2>1. events[FdOf(c)].client \in Nat BY <1>1, <1>2 DEF Table, FileEvents
  <2>2. events[FdOf(c)].client <= accepted BY <1>1, <1>2 DEF Table
  <2> QED BY <2>1, <2>2, <1>2 DEF Connected
<1>6. \A g \in Fds \ {FdOf(c)} : events[g].mask # {} => events[g].client # c BY <1>1, <1>2 DEF Table
<1>7. {"w"} \in Masks /\ {"w"} # {} /\ "write" \in EventProcs BY DEF Masks, EventProcs
<1>8. accepted \in Nat /\ accepted <= accepted BY <1>1
<1>9. Table(events', alive, accepted) /\ Highest(events', maxfd', setsize)
  BY <1>2, <1>3, <1>4, <1>5, <1>6, <1>7, <1>8, CreatesFileEvent
<1> QED BY <1>1, <1>3, <1>9 DEF Served

LEMMA ResizeKeeps ==
    ASSUME Served, NEW n \in Sizes, AeResizeSetSize(n)
    PROVE  Served'
<1>0. Fds \subseteq Nat /\ 0 \in Fds BY EventLoopAssumption
<1>1. Table(events, alive, accepted) /\ Highest(events, maxfd, setsize) /\ accepted \in Nat BY DEF Served
<1>2. /\ maxfd < n /\ setsize' = n /\ UNCHANGED <<maxfd, alive, accepted>>
      /\ events' = [fd \in Fds |-> IF fd > maxfd THEN NoEvent ELSE events[fd]]
  BY DEF AeResizeSetSize
<1>3. NoEvent \in FileEvents /\ NoEvent.mask = {} /\ NoEvent.client = 0
  BY DEF NoEvent, FileEvents, Masks, EventProcs
<1>4. events \in [Fds -> FileEvents] BY <1>1 DEF Table
<1>5. maxfd \in Fds /\ events[maxfd].mask # {} /\ \A fd \in Fds : fd > maxfd => events[fd].mask = {}
  BY <1>1 DEF Highest
<1>6. events' \in [Fds -> FileEvents] BY <1>2, <1>3, <1>4
<1>7. \A fd \in Fds : events'[fd] = IF fd > maxfd THEN NoEvent ELSE events[fd] BY <1>2
<1>8. \A fd \in Fds : events[fd].mask # {} => events'[fd] = events[fd] BY <1>5, <1>7
<1>9. \A fd \in Fds : events'[fd].mask # {} => events[fd].mask # {} BY <1>3, <1>7
<1>10. Table(events', alive, accepted)
  <2>1. events'[0] = Listening /\ 0 \in alive
    <3>1. events[0].mask # {} /\ events[0] = Listening /\ 0 \in alive BY <1>1 DEF Table, Listening
    <3> QED BY <3>1, <1>0, <1>8
  <2>2. \A fd \in Fds : events'[fd].client <= accepted BY <1>1, <1>3, <1>7 DEF Table
  <2>3. \A fd \in Fds : events'[fd].mask # {} => events'[fd].client \in alive BY <1>1, <1>8, <1>9 DEF Table
  <2>4. \A fd, g \in Fds : events'[fd].mask # {} /\ events'[g].mask # {} /\ events'[fd].client = events'[g].client
          => fd = g
    BY <1>1, <1>8, <1>9 DEF Table
  <2> QED BY <1>6, <2>1, <2>2, <2>3, <2>4 DEF Table
<1>11. Highest(events', maxfd, n)
  <2>1. events'[maxfd].mask # {} BY <1>5, <1>8
  <2>2. \A fd \in Fds : fd > maxfd => events'[fd].mask = {} BY <1>3, <1>7
  <2> QED BY <2>1, <2>2, <1>2, <1>5 DEF Highest
<1> QED BY <1>1, <1>2, <1>10, <1>11 DEF Served

-----------------------------------------------------------------------------
(* The steps of the loop *)

LEMMA NothingKeeps == Served /\ Nothing => Served'
BY DEF Served, Nothing, Handlers

\* The descriptor fd is that of client c, who is not the listening socket.
OfClient(fd, c) == fd \in Fds \ {0} /\ events[fd].client = c /\ events[fd].mask # {}

LEMMA ConnectedOf == ASSUME Served, NEW c \in Connected PROVE OfClient(FdOf(c), c)
BY ConnectedHasFd DEF Served, OfClient

LEMMA SyncKeeps ==
    ASSUME Served, NEW c, OfClient(FdOf(c), c), SyncHandler(c)
    PROVE  Served'
<1>1. CASE Nothing BY <1>1, NothingKeeps
<1>2. CASE RemoveWrite(c) BY <1>2, RemoveWriteKeeps DEF OfClient
<1>3. CASE Free(c) BY <1>3, FreeKeeps DEF OfClient
<1> QED BY <1>1, <1>2, <1>3 DEF SyncHandler

\* A read procedure, of the listening socket or of a client c.
LEMMA ReadKeeps ==
    ASSUME Served, nextId \in Nat \ {0}, NEW proc, NEW c, NEW resized \in BOOLEAN, ReadHandler(proc, c, resized),
           proc = "accept" \/ OfClient(FdOf(c), c)
    PROVE  Served'
<1>1. CASE proc = "accept" /\ ~resized /\ (Accept({"r"}, "read") \/ Nothing)
  <2>1. {"r"} \in Masks /\ {"r"} # {} /\ "read" \in EventProcs BY DEF Masks, EventProcs
  <2>2. Served' BY <1>1, <2>1, AcceptKeeps, NothingKeeps
  <2> QED BY <1>1, <2>2
<1>2. CASE proc = "read" /\ ~resized /\ (Nothing \/ \E d \in Connected : Free(d) \/ InstallWrite(d))
  <2>1. CASE Nothing BY <1>2, <2>1, NothingKeeps
  <2>2. ASSUME NEW d \in Connected, Free(d) \/ InstallWrite(d) PROVE Served'
    <3>1. OfClient(FdOf(d), d) BY ConnectedOf
    <3> QED BY <2>2, <3>1, FreeKeeps, InstallWriteKeeps DEF OfClient
  <2> QED BY <1>2, <2>1, <2>2
<1>3. CASE proc = "read" /\ resized /\ \E n \in Sizes : n > setsize /\ AeResizeSetSize(n) BY <1>3, ResizeKeeps
<1>4. CASE proc = "sync" /\ ~resized /\ SyncHandler(c) BY <1>4, SyncKeeps
<1> QED BY <1>1, <1>2, <1>3, <1>4 DEF ReadHandler

LEMMA WriteKeeps ==
    ASSUME Served, NEW proc, NEW c, WriteHandler(proc, c), OfClient(FdOf(c), c)
    PROVE  Served'
<1>1. Nothing \/ RemoveWrite(c) \/ Free(c) BY DEF WriteHandler, SyncHandler
<1>2. SyncHandler(c) BY <1>1 DEF SyncHandler
<1> QED BY <1>2, SyncKeeps

\* Whose entry the loop looks at.
LEMMA EntryOf ==
    ASSUME Served, Firing(at), NEW fd \in Fds, events[fd].mask # {}
    PROVE  /\ events[fd].client \in alive
           /\ fd = 0 => events[fd] = Listening
           /\ fd # 0 => OfClient(FdOf(events[fd].client), events[fd].client)
<1>1. Table(events, alive, accepted) BY DEF Served
<1>2. FdOf(events[fd].client) = fd BY <1>1, OwnFd
<1> QED BY <1>1, <1>2 DEF Table, OfClient

LEMMA FiredIs ==
    ASSUME Firing(at), at.files.fired # <<>>
    PROVE  /\ Fired \in FiredEvents /\ (Fired.fd = 0 => Fired.mask = {"r"})
           /\ Tail(at.files.fired) \in Seq(FiredEvents)
           /\ \A i \in 1 .. Len(Tail(at.files.fired)) :
                Tail(at.files.fired)[i].fd = 0 => Tail(at.files.fired)[i].mask = {"r"}
<1> DEFINE s == at.files.fired
<1>1. s \in Seq(FiredEvents) BY DEF Firing, Ats
<1>2. \A i \in 1 .. Len(s) : s[i].fd = 0 => s[i].mask = {"r"} BY DEF Firing
<1>3. s # <<>> OBVIOUS
<1>4. Fired = s[1] BY DEF Fired
<1> HIDE DEF s
<1>5. 1 \in 1 .. Len(s) /\ s[1] \in FiredEvents BY <1>1, <1>3
<1>6. /\ Tail(s) \in Seq(FiredEvents) /\ Len(Tail(s)) = Len(s) - 1
      /\ \A i \in 1 .. Len(Tail(s)) : Tail(s)[i] = s[i + 1]
  BY <1>1, <1>3, HeadTailProperties
<1>7. \A i \in 1 .. Len(Tail(s)) : i + 1 \in 1 .. Len(s) BY <1>1, <1>6, LenProperties
<1>8. \A i \in 1 .. Len(Tail(s)) : Tail(s)[i].fd = 0 => Tail(s)[i].mask = {"r"} BY <1>2, <1>6, <1>7
<1>9. s[1].fd = 0 => s[1].mask = {"r"} BY <1>2, <1>5
<1> QED BY <1>4, <1>5, <1>6, <1>8, <1>9 DEF s

\* FileIdle, and a round that begins: nothing of an earlier entry is left.
LEMMA RoundBegins ==
    ASSUME at \in Ats, NEW next \in Seq(FiredEvents),
           \A i \in 1 .. Len(next) : next[i].fd = 0 => next[i].mask = {"r"}
    PROVE  Firing([at EXCEPT !.step = "fire", !.files = [FileIdle EXCEPT !.fired = next]])
<1> DEFINE f == [FileIdle EXCEPT !.fired = next]
           a == [at EXCEPT !.step = "fire", !.files = f]
<1>1. NoEvent \in FileEvents BY DEF NoEvent, FileEvents, Masks, EventProcs
<1>2. FileIdle \in [fired : Seq(FiredEvents), rfired : BOOLEAN, dangling : BOOLEAN]
      /\ FileIdle.dangling = FALSE
  BY <1>1 DEF FileIdle
<1>3. f \in [fired : Seq(FiredEvents), rfired : BOOLEAN, dangling : BOOLEAN]
      /\ f.fired = next /\ ~f.dangling
  BY <1>2
<1> HIDE DEF f
<1>4. a \in Ats /\ a.files = f /\ a.step = "fire" BY <1>3 DEF Ats
<1> HIDE DEF a
<1>5. Firing(a) BY <1>3, <1>4 DEF Firing
<1> QED BY <1>5 DEF a, f

LEMMA FireReadKeeps ==
    ASSUME LoopInv, FireRead
    PROVE  Served' /\ Firing(at') /\ CalledWell'
<1>0. Served /\ Firing(at) /\ Timed /\ CalledWell BY DEF LoopInv
<1>1. at.step = "fire" /\ at.files.fired # <<>> /\ at \in Ats /\ ~at.files.dangling BY <1>0 DEF FireRead, Firing
<1>2. Fired.fd \in Fds BY <1>0, <1>1, FiredIs DEF FiredEvents
<1>3. Fe = events[Fired.fd] BY <1>1 DEF Fe
<1>4. CASE ~Reads /\ UNCHANGED <<events, maxfd, setsize, alive, accepted, called>>
           /\ at' = [at EXCEPT !.step = "write"]
  <2>1. Served' /\ CalledWell' BY <1>0, <1>1, <1>4 DEF Served, CalledWell
  <2>2. at' \in Ats /\ at'.files = at.files /\ at'.step = "write" BY <1>1, <1>4 DEF Ats
  <2>3. Firing(at') BY <1>0, <1>1, <2>2 DEF Firing
  <2> QED BY <2>1, <2>3
<1>5. ASSUME Reads, Calling(Fe.client, FALSE), NEW resized \in BOOLEAN, NEW moved \in BOOLEAN,
             ReadHandler(Fe.rproc, Fe.client, resized),
             at' = [at EXCEPT !.step = "write", !.files.rfired = TRUE, !.files.dangling = moved]
      PROVE  Served' /\ Firing(at') /\ CalledWell'
  <2>1. events[Fired.fd].mask # {} BY <1>3, <1>5 DEF Reads
  <2>2. Fe.client \in alive /\ (Fe.rproc = "accept" \/ OfClient(FdOf(Fe.client), Fe.client))
    BY <1>0, <1>2, <1>3, <2>1, EntryOf DEF Listening
  <2>3. CalledWell' BY <1>5, <2>2 DEF Calling, CalledWell
  <2>4. Served' BY <1>0, <1>5, <2>2, ReadKeeps DEF Timed
  <2>5. /\ at' \in Ats /\ at'.step = "write" /\ at'.files.fired = at.files.fired
    BY <1>1, <1>5 DEF Ats
  <2>6. Firing(at') BY <1>0, <1>1, <2>5 DEF Firing
  <2> QED BY <2>3, <2>4, <2>6
<1> QED BY <1>4, <1>5 DEF FireRead

LEMMA FireWriteKeeps ==
    ASSUME LoopInv, FireWrite
    PROVE  Served' /\ Firing(at') /\ CalledWell'
<1>0. Served /\ Firing(at) /\ Timed /\ CalledWell BY DEF LoopInv
<1>1. at.step = "write" /\ at.files.fired # <<>> /\ at \in Ats BY <1>0 DEF FireWrite, Firing
<1>2. Fired \in FiredEvents /\ (Fired.fd = 0 => Fired.mask = {"r"}) BY <1>0, <1>1, FiredIs
<1>3. Fe = events[Fired.fd] BY DEF Fe
<1>4. Firing(at')
  <2>1. at' = [at EXCEPT !.step = "fire", !.files = [FileIdle EXCEPT !.fired = Tail(at.files.fired)]]
    BY DEF FireWrite, NextFired
  <2> QED BY <2>1, <1>0, <1>1, FiredIs, RoundBegins
<1>5. CASE ~CallsWrite /\ UNCHANGED <<events, maxfd, setsize, alive, accepted, called>>
  BY <1>0, <1>1, <1>4, <1>5 DEF Served, CalledWell
<1>6. CASE CallsWrite /\ Calling(Fe.client, at.files.rfired /\ Fe.wproc = Fe.rproc)
           /\ WriteHandler(Fe.wproc, Fe.client)
  <2>1. Fired.fd \in Fds \ {0} /\ events[Fired.fd].mask # {}
    BY <1>2, <1>3, <1>6 DEF CallsWrite, Writes, FiredEvents
  <2>2. Fe.client \in alive /\ OfClient(FdOf(Fe.client), Fe.client) BY <1>0, <1>3, <2>1, EntryOf
  <2>3. ~(at.files.rfired /\ Fe.wproc = Fe.rproc) BY <1>6 DEF CallsWrite
  <2>4. CalledWell' BY <1>6, <2>2, <2>3 DEF Calling, CalledWell
  <2>5. Served' BY <1>0, <1>6, <2>2, WriteKeeps
  <2> QED BY <1>4, <2>4, <2>5
<1> QED BY <1>5, <1>6 DEF FireWrite

LEMMA FireDanglingKeeps ==
    ASSUME LoopInv, FireDangling
    PROVE  Served' /\ Firing(at') /\ CalledWell'
<1>0. Served /\ Firing(at) /\ CalledWell BY DEF LoopInv
<1>1. at.step = "write" /\ at.files.fired # <<>> /\ at \in Ats BY <1>0 DEF FireDangling, Firing
<1>2. Served' BY <1>0 DEF FireDangling, Handlers, Served
<1>3. CASE at' = NextFired /\ UNCHANGED called
  <2>1. at' = [at EXCEPT !.step = "fire", !.files = [FileIdle EXCEPT !.fired = Tail(at.files.fired)]]
    BY <1>3 DEF NextFired
  <2>2. Firing(at') BY <2>1, <1>0, <1>1, FiredIs, RoundBegins
  <2>3. CalledWell' BY <1>0, <1>1, <1>3 DEF CalledWell
  <2> QED BY <1>2, <2>2, <2>3
<1>4. CASE at' = [at EXCEPT !.step = "lost"]
  <2>1. at' \in Ats /\ at'.step = "lost" /\ at'.files = at.files BY <1>1, <1>4 DEF Ats
  <2> QED BY <2>1, <1>0, <1>2 DEF Firing, CalledWell
<1> QED BY <1>3, <1>4 DEF FireDangling

\* The clock in seconds and milliseconds.
LEMMA Clock == ASSUME NEW t \in Nat
               PROVE  Sec(t) \in Nat /\ Ms(t) \in Nat /\ (t >= SecMs => Sec(t) >= 1)
<1>1. SecMs \in Nat /\ SecMs > 1 BY EventLoopAssumption
<1>2. t \div SecMs \in Int /\ t % SecMs \in 0 .. SecMs - 1 /\ t = SecMs * (t \div SecMs) + (t % SecMs) BY <1>1
<1> DEFINE q == t \div SecMs
<1> HIDE DEF q
<1>3. q >= 0 BY <1>1, <1>2 DEF q
<1>4. t >= SecMs => q >= 1 BY <1>1, <1>2, <1>3 DEF q
<1> QED BY <1>2, <1>3, <1>4 DEF Sec, Ms, q

LEMMA NewWhen == ASSUME Timed, NEW ms \in Nat PROVE AeAddMillisecondsToNow(ms) \in Whens
<1>1. now + ms \in Nat BY EventLoopAssumption DEF Timed
<1> QED BY <1>1, Clock DEF AeAddMillisecondsToNow, Whens

LEMMA LoopInitInv == LoopInit => LoopInv
<1> SUFFICES ASSUME LoopInit PROVE LoopInv OBVIOUS
<1>0. /\ Fds \subseteq Nat /\ 0 \in Fds /\ Sizes \subseteq Nat \ {0}
      /\ SecMs \in Nat /\ SecMs > 1 /\ MaxNew \in Nat /\ MaxNow \in Nat /\ 2 * SecMs <= MaxNow
  BY EventLoopAssumption
<1>1. events = [fd \in Fds |-> IF fd = 0 THEN Listening ELSE NoEvent]
  BY <1>0 DEF LoopInit, WithEvent, NoEvent, Listening
<1>2. NoEvent \in FileEvents /\ Listening \in FileEvents /\ NoEvent.mask = {} /\ Listening.mask # {}
      /\ NoEvent.client = 0 /\ Listening.client = 0
  BY DEF NoEvent, Listening, FileEvents, Masks, EventProcs
<1>3. Served
  <2>1. maxfd = 0 /\ setsize \in Sizes /\ alive = {0} /\ accepted = 0 BY DEF LoopInit
  <2>2. Table(events, alive, accepted) BY <1>0, <1>1, <1>2, <2>1 DEF Table
  <2>3. Highest(events, maxfd, setsize)
    <3>1. 0 < setsize BY <1>0, <2>1
    <3>2. \A fd \in Fds : fd > 0 => events[fd].mask = {} BY <1>1, <1>2
    <3> QED BY <1>0, <1>1, <1>2, <2>1, <3>1, <3>2 DEF Highest
  <2> QED BY <1>0, <2>1, <2>2, <2>3 DEF Served
<1>4. Firing(at)
  <2>1. at = [step |-> "sleep", files |-> FileIdle, te |-> 0, maxId |-> 0] BY DEF LoopInit
  <2>2. FileIdle.fired = <<>> /\ ~FileIdle.dangling BY DEF FileIdle
  <2>3. FileIdle \in [fired : Seq(FiredEvents), rfired : BOOLEAN, dangling : BOOLEAN]
    BY <1>2 DEF FileIdle
  <2>4. at \in Ats /\ at.step = "sleep" /\ at.files.fired = <<>> /\ ~at.files.dangling
    BY <2>1, <2>2, <2>3 DEF Ats
  <2> QED BY <2>4 DEF Firing
<1>5. Timed
  <2>1. now = 2 * SecMs /\ lastTime = 2 /\ nextId = 1 /\ timers = <<[id |-> 0, when |-> [sec |-> 2, ms |-> 1]]>>
    BY DEF LoopInit
  <2>2. now \in SecMs .. MaxNow BY <1>0, <2>1
  <2>3. [id |-> 0, when |-> [sec |-> 2, ms |-> 1]] \in TimeEvents BY DEF TimeEvents, Whens
  <2>4. timers \in Seq(TimeEvents) /\ Len(timers) = 1 /\ timers[1].id = 0 BY <2>1, <2>3
  <2> QED BY <2>1, <2>2, <2>4 DEF Timed
<1>6. PassGoesOn /\ CalledWell BY DEF LoopInit, PassGoesOn, CalledWell
<1> QED BY <1>3, <1>4, <1>5, <1>6 DEF LoopInv

\* The choices of one poll.
Polled(S, masks, order, ms) ==
    /\ \A fd \in S : "r" \in masks[fd] => "r" \in events[fd].mask
    /\ \A fd \in S : fd = 0 => masks[fd] = {"r"}
    /\ S = {} => ms = PollTimeout
    /\ now + ms <= MaxNow /\ now' = now + ms
    /\ at' = [at EXCEPT !.step = "fire", !.files = [FileIdle EXCEPT
                 !.fired = [i \in DOMAIN order |-> [fd |-> order[i], mask |-> masks[order[i]]]]]]
    /\ UNCHANGED <<events, maxfd, setsize, timers, nextId, lastTime, alive, accepted, called, due>>

LEMMA PollKeeps == ASSUME LoopInv, AeApiPoll PROVE LoopInv'
<1>0. Served /\ Firing(at) /\ Timed /\ PassGoesOn /\ CalledWell BY DEF LoopInv
<1>1. PICK S \in SUBSET {fd \in Fds : events[fd].mask # {}} :
        \E masks \in [S -> {{"r"}, {"w"}, {"r", "w"}}], order \in SetToSeqs(S), ms \in 0 .. PollTimeout :
          Polled(S, masks, order, ms)
  BY Zenon DEF AeApiPoll, Polled
<1>2. PICK masks \in [S -> {{"r"}, {"w"}, {"r", "w"}}], order \in SetToSeqs(S), ms \in 0 .. PollTimeout :
        Polled(S, masks, order, ms)
  BY <1>1
<1>3. at.step = "sleep" /\ UNCHANGED <<events, maxfd, setsize, timers, nextId, lastTime, alive, accepted, called, due>>
  BY DEF AeApiPoll
<1>4. Cardinality(S) \in Nat
  <2>1. S \in SUBSET Fds /\ IsFiniteSet(Fds) BY EventLoopAssumption
  <2>2. IsFiniteSet(S) BY <2>1, FS_Subset
  <2> QED BY <2>2, FS_CardinalityType
<1> DEFINE n == Cardinality(S)
           next == [i \in DOMAIN order |-> [fd |-> order[i], mask |-> masks[order[i]]]]
<1>5. order \in [1 .. n -> S] BY DEF SetToSeqs
<1>6. next = [i \in 1 .. n |-> [fd |-> order[i], mask |-> masks[order[i]]]] BY <1>5
<1>7. \A i \in 1 .. n : /\ [fd |-> order[i], mask |-> masks[order[i]]] \in FiredEvents
                        /\ order[i] = 0 => masks[order[i]] = {"r"}
  <2> SUFFICES ASSUME NEW i \in 1 .. n
               PROVE  /\ [fd |-> order[i], mask |-> masks[order[i]]] \in FiredEvents
                      /\ order[i] = 0 => masks[order[i]] = {"r"}
    OBVIOUS
  <2>1. order[i] \in S BY <1>5
  <2>2. masks[order[i]] \in {{"r"}, {"w"}, {"r", "w"}} BY <2>1
  <2>3. masks[order[i]] \in Masks BY <2>2 DEF Masks
  <2> QED BY <2>1, <2>3, <1>2 DEF FiredEvents, Polled
<1> HIDE DEF n
<1>8. next \in Seq(FiredEvents) /\ Len(next) = n
  <2>1. next \in [1 .. n -> FiredEvents] BY <1>6, <1>7
  <2> QED BY <2>1, <1>4 DEF n
<1>9. \A i \in 1 .. Len(next) : next[i].fd = 0 => next[i].mask = {"r"} BY <1>6, <1>7, <1>8
<1>10. at' = [at EXCEPT !.step = "fire", !.files = [FileIdle EXCEPT !.fired = next]] BY <1>2 DEF Polled
<1> HIDE DEF next
<1>11. at \in Ats BY <1>0 DEF Firing
<1>12. Firing(at') BY <1>8, <1>9, <1>10, <1>11, RoundBegins
<1>13. at'.step = "fire" BY <1>10, <1>11 DEF Ats
<1>14. Timed'
  <2>1. ms \in Nat BY <1>2
  <2>2. now' \in SecMs .. MaxNow BY <2>1, <1>0, <1>2, EventLoopAssumption DEF Timed, Polled
  <2> QED BY <2>2, <1>0, <1>3 DEF Timed
<1>15. PassGoesOn' BY <1>0, <1>3, <1>13 DEF PassGoesOn
<1> QED BY <1>0, <1>3, <1>12, <1>14, <1>15 DEF LoopInv, Served, CalledWell

LEMMA ClockKeeps == ASSUME LoopInv, TimePasses \/ ClockSetBack PROVE LoopInv'
<1>0. Served /\ Firing(at) /\ Timed /\ PassGoesOn /\ CalledWell BY DEF LoopInv
<1>1. /\ at.step = "sleep"
      /\ UNCHANGED <<events, maxfd, setsize, timers, nextId, lastTime, at, alive, accepted, called, due>>
  BY DEF TimePasses, ClockSetBack
<1>2. now' \in SecMs .. MaxNow
  <2>1. now \in Nat /\ SecMs \in Nat /\ MaxNow \in Nat /\ SecMs <= now /\ now <= MaxNow
    BY <1>0, EventLoopAssumption DEF Timed
  <2>2. CASE TimePasses BY <2>1, <2>2 DEF TimePasses
  <2>3. CASE ClockSetBack
    <3>1. now >= 2 * SecMs /\ now' = now - SecMs BY <2>3 DEF ClockSetBack
    <3> QED BY <2>1, <3>1
  <2> QED BY <2>2, <2>3
<1> QED BY <1>0, <1>1, <1>2 DEF LoopInv, Served, Timed, PassGoesOn, CalledWell

\* A pass changes nothing about the files.
LEMMA PassKeepsFiles ==
    ASSUME Firing(at), at.step \notin {"write", "lost"}, NEW step \in {"sleep", "timers"}, NEW te \in Nat, NEW max \in Nat,
           at' = [at EXCEPT !.step = step, !.te = te, !.maxId = max]
    PROVE  Firing(at') /\ at'.step = step /\ at'.te = te /\ at'.maxId = max
<1>1. at \in Ats /\ ~at.files.dangling BY DEF Firing
<1>2. at' \in Ats /\ at'.files = at.files /\ at'.step = step /\ at'.te = te /\ at'.maxId = max BY <1>1 DEF Ats
<1> QED BY <1>1, <1>2 DEF Firing

LEMMA StartPassKeeps == ASSUME LoopInv, StartPass PROVE LoopInv'
<1>0. Served /\ Firing(at) /\ Timed /\ PassGoesOn /\ CalledWell BY DEF LoopInv
<1>1. at.step = "fire" /\ at \in Ats /\ UNCHANGED <<events, maxfd, setsize, nextId, now, alive, accepted, called>>
  BY <1>0 DEF StartPass, Firing
<1>2. nextId - 1 \in Nat /\ 1 \in Nat /\ "timers" \in {"sleep", "timers"} BY <1>0 DEF Timed
<1>3. at' = [at EXCEPT !.step = "timers", !.te = 1, !.maxId = nextId - 1] BY DEF StartPass
<1>4. Firing(at') /\ at'.step = "timers" /\ at'.te = 1 /\ at'.maxId = nextId - 1
  BY <1>0, <1>1, <1>2, <1>3, PassKeepsFiles
<1>5. now \in Nat /\ now >= SecMs BY <1>0, EventLoopAssumption DEF Timed
<1>6. Sec(now) \in Nat /\ Sec(now) >= 1 /\ Ms(now) \in Nat BY <1>5, Clock
<1>7. timers \in Seq(TimeEvents) /\ Len(timers) \in Nat /\ DOMAIN timers = 1 .. Len(timers) BY <1>0 DEF Timed
<1>8. \A i \in 1 .. Len(timers) : timers[i] \in TimeEvents BY <1>7
<1>9. /\ timers' \in Seq(TimeEvents) /\ Len(timers') = Len(timers)
      /\ \A i \in 1 .. Len(timers) :
           /\ timers'[i].id = timers[i].id /\ timers'[i].when.ms = timers[i].when.ms
           /\ timers'[i].when.sec = IF ClockWentBack THEN 0 ELSE timers[i].when.sec
  <2>1. CASE ClockWentBack
    <3> DEFINE te(i) == [timers[i] EXCEPT !.when.sec = 0]
    <3>1. timers' = [i \in 1 .. Len(timers) |-> te(i)] BY <2>1, <1>7 DEF StartPass
    <3>2. \A i \in 1 .. Len(timers) : te(i) \in TimeEvents /\ te(i).id = timers[i].id
                                     /\ te(i).when.ms = timers[i].when.ms /\ te(i).when.sec = 0
      BY <1>8 DEF TimeEvents, Whens
    <3> HIDE DEF te
    <3>3. timers' \in [1 .. Len(timers) -> TimeEvents] BY <3>1, <3>2
    <3>4. timers' \in Seq(TimeEvents) /\ Len(timers') = Len(timers) BY <3>3, <1>7
    <3> QED BY <2>1, <3>1, <3>2, <3>4
  <2>2. CASE ~ClockWentBack BY <2>2, <1>7 DEF StartPass
  <2> QED BY <2>1, <2>2
<1>10. Timed'
  <2>1. \A i \in 1 .. Len(timers') : timers'[i].id < nextId BY <1>0, <1>9 DEF Timed
  <2>2. lastTime' = Sec(now) BY DEF StartPass
  <2> QED BY <2>1, <2>2, <1>0, <1>1, <1>6, <1>9 DEF Timed
<1>11. \A d \in due' : Ahead(d)'
  <2> SUFFICES ASSUME NEW d \in due' PROVE Ahead(d)' OBVIOUS
  <2>1. due' = {timers[i].id : i \in {j \in DOMAIN timers : Sec(now) < lastTime \/ IsDue(timers[j])}}
    BY DEF StartPass
  <2>2. PICK i \in 1 .. Len(timers) : timers[i].id = d /\ (ClockWentBack \/ IsDue(timers[i]))
    BY <2>1, <1>7 DEF ClockWentBack
  <2>3. OfThisPass(timers[i])'
    <3>1. timers[i].id \in Nat /\ timers[i].id < nextId /\ nextId \in Nat BY <1>0, <1>8 DEF Timed, TimeEvents
    <3>2. timers'[i].id <= nextId - 1 BY <3>1, <1>9
    <3> QED BY <3>2, <1>4 DEF OfThisPass
  <2>4. IsDue(timers[i])'
    <3>1. CASE ClockWentBack
      <4>1. timers'[i].when.sec = 0 BY <3>1, <1>9
      <4> QED BY <4>1, <1>1, <1>6 DEF IsDue, Sec
    <3>2. CASE ~ClockWentBack
      <4>1. timers'[i].when.sec = timers[i].when.sec /\ timers'[i].when.ms = timers[i].when.ms BY <3>2, <1>9
      <4> QED BY <3>2, <4>1, <2>2, <1>1 DEF IsDue, Sec, Ms
    <3> QED BY <3>1, <3>2
  <2>5. i \in 1 .. Len(timers') /\ i >= at'.te /\ timers'[i].id = d BY <2>2, <1>4, <1>9
  <2> QED BY <2>3, <2>4, <2>5 DEF Ahead
<1>12. PassGoesOn' BY <1>4, <1>11 DEF PassGoesOn
<1> QED BY <1>0, <1>1, <1>4, <1>10, <1>12 DEF LoopInv, Served, CalledWell

LEMMA PassOverKeeps == ASSUME LoopInv, NEW te, PassOver(te) PROVE LoopInv'
<1>0. Served /\ Firing(at) /\ Timed /\ PassGoesOn /\ CalledWell BY DEF LoopInv
<1>1. /\ at.step = "timers" /\ at \in Ats /\ at.te <= Len(timers) /\ te = timers[at.te]
      /\ (~OfThisPass(te) \/ ~IsDue(te)) /\ at' = [at EXCEPT !.te = @ + 1]
      /\ UNCHANGED <<events, maxfd, setsize, timers, nextId, lastTime, now, alive, accepted, called, due>>
  BY <1>0 DEF PassOver, Firing
<1>2. at.te \in Nat /\ at.maxId \in Nat BY <1>1 DEF Ats
<1>3. at' = [at EXCEPT !.step = "timers", !.te = at.te + 1, !.maxId = at.maxId] BY <1>1 DEF Ats
<1>4. at.te + 1 \in Nat /\ "timers" \in {"sleep", "timers"} BY <1>2
<1>5. Firing(at') /\ at'.step = "timers" /\ at'.te = at.te + 1 /\ at'.maxId = at.maxId
  BY <1>0, <1>1, <1>2, <1>3, <1>4, PassKeepsFiles
<1>6. \A d \in due' : Ahead(d)'
  <2> SUFFICES ASSUME NEW d \in due PROVE Ahead(d)' BY <1>1
  <2>1. PICK i \in 1 .. Len(timers) :
          i >= at.te /\ timers[i].id = d /\ OfThisPass(timers[i]) /\ IsDue(timers[i])
    BY <1>0, <1>1 DEF PassGoesOn, Ahead
  <2>2. i # at.te BY <2>1, <1>1
  <2>3. i >= at.te + 1 BY <2>1, <2>2, <1>2
  <2>4. OfThisPass(timers[i])' BY <2>1, <1>1, <1>5 DEF OfThisPass
  <2>5. IsDue(timers[i])' BY <2>1, <1>1 DEF IsDue, Sec, Ms
  <2> QED BY <2>1, <2>3, <2>4, <2>5, <1>1, <1>5 DEF Ahead
<1>7. PassGoesOn' BY <1>0, <1>1, <1>2, <1>5, <1>6 DEF PassGoesOn
<1> QED BY <1>0, <1>1, <1>5, <1>7 DEF LoopInv, Served, CalledWell, Timed

LEMMA EndPassKeeps == ASSUME LoopInv, EndPass PROVE LoopInv'
<1>0. Served /\ Firing(at) /\ Timed /\ PassGoesOn /\ CalledWell BY DEF LoopInv
<1>1. /\ at.step = "timers" /\ at \in Ats /\ at.te > Len(timers)
      /\ at' = [at EXCEPT !.step = "sleep", !.te = 0, !.maxId = 0]
      /\ UNCHANGED <<events, maxfd, setsize, timers, nextId, lastTime, now, alive, accepted, called, due>>
  BY <1>0 DEF EndPass, Firing
<1>2. Firing(at') /\ at'.step = "sleep"
  <2>1. 0 \in Nat /\ "sleep" \in {"sleep", "timers"} OBVIOUS
  <2> QED BY <2>1, <1>0, <1>1, PassKeepsFiles
<1>3. due = {}
  <2>1. at.te \in Nat /\ Len(timers) \in Nat BY <1>0, <1>1 DEF Ats, Timed
  <2>2. \A i \in 1 .. Len(timers) : ~(i >= at.te) BY <2>1, <1>1
  <2>3. \A d \in due : FALSE BY <1>0, <1>1, <2>2 DEF PassGoesOn, Ahead
  <2> QED BY <2>3
<1>4. PassGoesOn' BY <1>1, <1>2, <1>3 DEF PassGoesOn
<1> QED BY <1>0, <1>1, <1>2, <1>4 DEF LoopInv, Served, CalledWell, Timed

\* The list after a time procedure: one event may have been added and another
\* deleted, and the one called is put off or deleted.
WithAdded(adds) == IF adds THEN <<NewTimer(0)>> \o timers ELSE timers
PutOff(ts, te) ==
    [i \in DOMAIN ts |-> IF ts[i].id = te.id THEN [te EXCEPT !.when = AeAddMillisecondsToNow(Period)] ELSE ts[i]]
AfterCall(te, more, adds, victim) ==
    IF more THEN PutOff(AeDeleteTimeEvent(WithAdded(adds), victim), te)
    ELSE AeDeleteTimeEvent(AeDeleteTimeEvent(WithAdded(adds), victim), te.id)

LEMMA Added ==
    ASSUME Timed, NEW adds \in BOOLEAN, NEW next \in Nat, next = IF adds THEN nextId + 1 ELSE nextId
    PROVE  /\ WithAdded(adds) \in Seq(TimeEvents)
           /\ \A i \in 1 .. Len(WithAdded(adds)) : WithAdded(adds)[i].id < next
           /\ \A i \in 1 .. Len(timers) : \E j \in 1 .. Len(WithAdded(adds)) : WithAdded(adds)[j] = timers[i]
<1>0. /\ timers \in Seq(TimeEvents) /\ nextId \in Nat \ {0}
      /\ \A i \in 1 .. Len(timers) : timers[i].id < nextId
  BY DEF Timed
<1>1. NewTimer(0) \in TimeEvents /\ NewTimer(0).id = nextId
  <2>1. AeAddMillisecondsToNow(0) \in Whens BY NewWhen
  <2> QED BY <2>1, <1>0 DEF NewTimer, TimeEvents
<1>2. CASE ~adds BY <1>2, <1>0 DEF WithAdded
<1>3. CASE adds
  <2> DEFINE one == <<NewTimer(0)>>
             n == Len(timers)
             r == one \o timers
  <2>1. one \in Seq(TimeEvents) /\ Len(one) = 1 /\ one[1] = NewTimer(0) BY <1>1
  <2>2. n \in Nat /\ 1 \in Nat BY <1>0
  <2>3. WithAdded(adds) = r BY <1>3 DEF WithAdded
  <2>4. \A i \in 1 .. n : timers[i].id \in Nat /\ timers[i].id < nextId
    <3>1. \A i \in 1 .. n : timers[i] \in TimeEvents BY <1>0, ElementOfSeq
    <3> QED BY <3>1, <1>0 DEF TimeEvents
  <2> HIDE DEF one
  <2>5. /\ r \in Seq(TimeEvents) /\ Len(r) = Len(one) + Len(timers)
        /\ \A i \in 1 .. Len(one) + Len(timers) :
             r[i] = IF i <= Len(one) THEN one[i] ELSE timers[i - Len(one)]
    BY <2>1, <1>0, ConcatProperties
  <2> HIDE DEF r, n
  <2>6. Len(r) = 1 + n /\ \A i \in 1 .. 1 + n : r[i] = IF i <= 1 THEN one[i] ELSE timers[i - 1]
    BY <2>1, <2>5 DEF n
  <2>7. \A i \in 1 .. n : i + 1 \in 1 .. 1 + n /\ r[i + 1] = timers[i]
    <3> SUFFICES ASSUME NEW i \in 1 .. n PROVE i + 1 \in 1 .. 1 + n /\ r[i + 1] = timers[i] OBVIOUS
    <3>1. i + 1 \in 1 .. 1 + n /\ ~(i + 1 <= 1) /\ (i + 1) - 1 = i BY <2>2
    <3> QED BY <3>1, <2>6
  <2>8. \A i \in 1 .. 1 + n : r[i].id < next
    <3> SUFFICES ASSUME NEW i \in 1 .. 1 + n PROVE r[i].id < next OBVIOUS
    <3>1. CASE i = 1
      <4>1. r[i] = NewTimer(0) BY <3>1, <2>1, <2>2, <2>6
      <4> QED BY <4>1, <1>0, <1>1, <1>3
    <3>2. CASE i # 1
      <4>1. i - 1 \in 1 .. n /\ r[i] = timers[i - 1] BY <3>2, <2>2, <2>6
      <4>2. timers[i - 1].id \in Nat /\ timers[i - 1].id < nextId BY <4>1, <2>4
      <4> QED BY <4>1, <4>2, <1>0, <1>3
    <3> QED BY <3>1, <3>2
  <2>9. \A i \in 1 .. n : \E j \in 1 .. 1 + n : r[j] = timers[i] BY <2>7
  <2> QED BY <2>3, <2>5, <2>6, <2>8, <2>9 DEF n
<1> QED BY <1>2, <1>3

LEMMA PutOffKeeps ==
    ASSUME Timed, NEW ts \in Seq(TimeEvents), NEW te \in TimeEvents, NEW next \in Nat, te.id < next,
           \A i \in 1 .. Len(ts) : ts[i].id < next
    PROVE  /\ PutOff(ts, te) \in Seq(TimeEvents) /\ Len(PutOff(ts, te)) = Len(ts)
           /\ \A i \in 1 .. Len(ts) : /\ PutOff(ts, te)[i].id < next
                                      /\ ts[i].id # te.id => PutOff(ts, te)[i] = ts[i]
<1> DEFINE late == [te EXCEPT !.when = AeAddMillisecondsToNow(Period)]
           r == PutOff(ts, te)
<1>1. late \in TimeEvents /\ late.id = te.id
  <2>1. AeAddMillisecondsToNow(Period) \in Whens BY NewWhen, EventLoopAssumption
  <2> QED BY <2>1 DEF TimeEvents
<1>2. DOMAIN ts = 1 .. Len(ts) /\ Len(ts) \in Nat /\ \A i \in 1 .. Len(ts) : ts[i] \in TimeEvents OBVIOUS
<1>3. r = [i \in 1 .. Len(ts) |-> IF ts[i].id = te.id THEN late ELSE ts[i]] BY <1>2 DEF PutOff
<1> HIDE DEF late, r
<1>4. r \in [1 .. Len(ts) -> TimeEvents] BY <1>1, <1>2, <1>3
<1>5. r \in Seq(TimeEvents) /\ Len(r) = Len(ts) BY <1>2, <1>4
<1>6. \A i \in 1 .. Len(ts) : r[i].id < next /\ (ts[i].id # te.id => r[i] = ts[i]) BY <1>1, <1>3
<1> QED BY <1>5, <1>6 DEF r

LEMMA AfterCallKeeps ==
    ASSUME Timed, NEW te \in TimeEvents, te.id < nextId, NEW more \in BOOLEAN, NEW adds \in BOOLEAN, NEW victim,
           NEW next \in Nat, next = IF adds THEN nextId + 1 ELSE nextId
    PROVE  /\ AfterCall(te, more, adds, victim) \in Seq(TimeEvents)
           /\ \A i \in 1 .. Len(AfterCall(te, more, adds, victim)) : AfterCall(te, more, adds, victim)[i].id < next
           /\ \A i \in 1 .. Len(timers) : timers[i].id \notin {te.id, victim} =>
                \E j \in 1 .. Len(AfterCall(te, more, adds, victim)) :
                    AfterCall(te, more, adds, victim)[j] = timers[i]
<1> DEFINE added == WithAdded(adds)
           kept == AeDeleteTimeEvent(added, victim)
           r == AfterCall(te, more, adds, victim)
<1>0. te.id < next
  <2>1. te.id \in Nat /\ nextId \in Nat BY DEF Timed, TimeEvents
  <2> QED BY <2>1
<1>1. /\ added \in Seq(TimeEvents)
      /\ \A i \in 1 .. Len(added) : added[i].id < next
      /\ \A i \in 1 .. Len(timers) : \E j \in 1 .. Len(added) : added[j] = timers[i]
  BY Added
<1> HIDE DEF added
<1>2. /\ kept \in Seq(TimeEvents)
      /\ \A j \in 1 .. Len(kept) : \E i \in 1 .. Len(added) : kept[j] = added[i]
      /\ \A i \in 1 .. Len(added) : added[i].id # victim => \E j \in 1 .. Len(kept) : kept[j] = added[i]
  BY <1>1, Deleted
<1>3. r = IF more THEN PutOff(kept, te) ELSE AeDeleteTimeEvent(kept, te.id) BY DEF AfterCall, added
<1> HIDE DEF kept, r
<1>4. \A i \in 1 .. Len(kept) : kept[i].id < next BY <1>1, <1>2
<1>5. \A i \in 1 .. Len(timers) : timers[i].id # victim => \E j \in 1 .. Len(kept) : kept[j] = timers[i]
  BY <1>1, <1>2
<1>6. /\ r \in Seq(TimeEvents) /\ \A i \in 1 .. Len(r) : r[i].id < next
      /\ \A i \in 1 .. Len(kept) : kept[i].id # te.id => \E j \in 1 .. Len(r) : r[j] = kept[i]
  <2>1. CASE more
    <3>1. r = PutOff(kept, te) BY <1>3, <2>1
    <3>2. /\ r \in Seq(TimeEvents) /\ Len(r) = Len(kept)
          /\ \A i \in 1 .. Len(kept) : r[i].id < next /\ (kept[i].id # te.id => r[i] = kept[i])
      BY <1>0, <1>2, <1>4, <3>1, PutOffKeeps
    <3> QED BY <3>2
  <2>2. CASE ~more
    <3>1. r = AeDeleteTimeEvent(kept, te.id) BY <1>3, <2>2
    <3>2. /\ r \in Seq(TimeEvents)
          /\ \A j \in 1 .. Len(r) : \E i \in 1 .. Len(kept) : r[j] = kept[i]
          /\ \A i \in 1 .. Len(kept) : kept[i].id # te.id => \E j \in 1 .. Len(r) : r[j] = kept[i]
      <4>1. /\ AeDeleteTimeEvent(kept, te.id) \in Seq(TimeEvents)
            /\ \A j \in 1 .. Len(AeDeleteTimeEvent(kept, te.id)) :
                 \E i \in 1 .. Len(kept) : AeDeleteTimeEvent(kept, te.id)[j] = kept[i]
            /\ \A i \in 1 .. Len(kept) : kept[i].id # te.id =>
                 \E j \in 1 .. Len(AeDeleteTimeEvent(kept, te.id)) : AeDeleteTimeEvent(kept, te.id)[j] = kept[i]
        <5>1. kept \in Seq(TimeEvents) BY <1>2
        <5> QED BY <5>1, Deleted
      <4> QED BY <4>1, <3>1
    <3> QED BY <3>2, <1>4
  <2> QED BY <2>1, <2>2
<1>7. \A i \in 1 .. Len(timers) : timers[i].id \notin {te.id, victim} => \E j \in 1 .. Len(r) : r[j] = timers[i]
  <2> SUFFICES ASSUME NEW i \in 1 .. Len(timers), timers[i].id # te.id, timers[i].id # victim
               PROVE  \E j \in 1 .. Len(r) : r[j] = timers[i]
    OBVIOUS
  <2>1. PICK j \in 1 .. Len(kept) : kept[j] = timers[i] BY <1>5
  <2> QED BY <2>1, <1>6
<1> QED BY <1>6, <1>7 DEF r

LEMMA CallTimerKeeps == ASSUME LoopInv, NEW te, CallTimer(te) PROVE LoopInv'
<1>0. Served /\ Firing(at) /\ Timed /\ PassGoesOn /\ CalledWell BY DEF LoopInv
<1>1. /\ at.step = "timers" /\ at \in Ats /\ at.te <= Len(timers) /\ te = timers[at.te]
      /\ OfThisPass(te) /\ IsDue(te) /\ at' = [at EXCEPT !.te = 1] /\ UNCHANGED <<lastTime, now>>
      /\ called' = [called EXCEPT !.again = te.id > at.maxId, !.dead = FALSE]
      /\ Nothing \/ Accept({"r", "w"}, "sync")
  BY <1>0 DEF CallTimer, Firing
<1>2. PICK more \in BOOLEAN, adds \in BOOLEAN,
           victim \in {-1} \cup ({timers[i].id : i \in DOMAIN timers} \ {0, te.id}) :
        /\ nextId' = IF adds THEN nextId + 1 ELSE nextId
        /\ timers' = AfterCall(te, more, adds, victim)
        /\ due' = due \ {te.id, victim}
  BY DEF CallTimer, AfterCall, WithAdded, PutOff
<1>3. at.te \in 1 .. Len(timers) /\ te \in TimeEvents /\ te.id < nextId
  <2>1. at.te >= 1 /\ at.te \in Nat BY <1>0, <1>1 DEF PassGoesOn, Ats
  <2>2. at.te \in 1 .. Len(timers) BY <2>1, <1>0, <1>1 DEF Timed
  <2> QED BY <2>2, <1>0, <1>1 DEF Timed
<1>4. /\ timers' \in Seq(TimeEvents) /\ nextId' \in Nat \ {0}
      /\ \A i \in 1 .. Len(timers') : timers'[i].id < nextId'
      /\ \A i \in 1 .. Len(timers) : timers[i].id \notin {te.id, victim} =>
           \E j \in 1 .. Len(timers') : timers'[j] = timers[i]
  <2>1. nextId' \in Nat \ {0} /\ nextId' \in Nat BY <1>0, <1>2 DEF Timed
  <2> QED BY <2>1, <1>0, <1>2, <1>3, AfterCallKeeps
<1>5. Timed' BY <1>0, <1>1, <1>4 DEF Timed
<1>6. Served'
  <2>1. {"r", "w"} \in Masks /\ {"r", "w"} # {} /\ "sync" \in EventProcs BY DEF Masks, EventProcs
  <2>2. nextId \in Nat \ {0} BY <1>0 DEF Timed
  <2> QED BY <2>1, <2>2, <1>0, <1>1, NothingKeeps, AcceptKeeps
<1>7. CalledWell'
  <2>1. te.id <= at.maxId /\ te.id \in Nat /\ at.maxId \in Nat BY <1>1, <1>3 DEF OfThisPass, Ats, TimeEvents
  <2>2. (te.id > at.maxId) = FALSE BY <2>1
  <2>3. called' = [called EXCEPT !.again = FALSE, !.dead = FALSE] BY <2>2, <1>1
  <2> QED BY <2>3, <1>0, <1>1 DEF CalledWell
<1>8. Firing(at') /\ at'.step = "timers" /\ at'.te = 1 /\ at'.maxId = at.maxId
  <2>1. at' = [at EXCEPT !.step = "timers", !.te = 1, !.maxId = at.maxId] BY <1>1 DEF Ats
  <2>2. 1 \in Nat /\ at.maxId \in Nat /\ "timers" \in {"sleep", "timers"} BY <1>1 DEF Ats
  <2> QED BY <2>1, <2>2, <1>0, <1>1, PassKeepsFiles
<1>9. \A d \in due' : Ahead(d)'
  <2> SUFFICES ASSUME NEW d \in due' PROVE Ahead(d)' OBVIOUS
  <2>1. d \in due /\ d \notin {te.id, victim} BY <1>2
  <2>2. PICK i \in 1 .. Len(timers) :
          timers[i].id = d /\ OfThisPass(timers[i]) /\ IsDue(timers[i])
    BY <2>1, <1>0, <1>1 DEF PassGoesOn, Ahead
  <2>3. PICK j \in 1 .. Len(timers') : timers'[j] = timers[i] BY <2>1, <2>2, <1>4
  <2>4. OfThisPass(timers[j])' BY <2>2, <2>3, <1>8 DEF OfThisPass
  <2>5. IsDue(timers[j])' BY <2>2, <2>3, <1>1 DEF IsDue, Sec, Ms
  <2>6. j >= at'.te BY <1>8
  <2> QED BY <2>2, <2>3, <2>4, <2>5, <2>6 DEF Ahead
<1>10. PassGoesOn' BY <1>8, <1>9 DEF PassGoesOn
<1> QED BY <1>5, <1>6, <1>7, <1>8, <1>10 DEF LoopInv

LEMMA FilesKeep == ASSUME LoopInv, FireRead \/ FireWrite \/ FireDangling PROVE LoopInv'
<1>0. Timed /\ PassGoesOn /\ at.step \in {"fire", "write"} /\ UNCHANGED LoopOnly
  BY DEF LoopInv, FireRead, FireWrite, FireDangling
<1>1. Served' /\ Firing(at') /\ CalledWell' BY FireReadKeeps, FireWriteKeeps, FireDanglingKeeps
<1>2. at'.step \in {"fire", "write", "lost"}
  <2>1. at \in Ats BY DEF LoopInv, Firing
  <2>2. CASE FireRead BY <2>1, <2>2 DEF FireRead, Ats
  <2>3. CASE FireWrite BY <2>1, <2>3 DEF FireWrite, NextFired, Ats
  <2>4. CASE FireDangling BY <2>1, <2>4 DEF FireDangling, NextFired, Ats
  <2> QED BY <2>2, <2>3, <2>4
<1>3. Timed' /\ PassGoesOn' BY <1>0, <1>2 DEF Timed, PassGoesOn, LoopOnly
<1> QED BY <1>1, <1>3 DEF LoopInv

LEMMA LoopNextInv == LoopInv /\ [LoopNext]_lvars => LoopInv'
<1> SUFFICES ASSUME LoopInv, [LoopNext]_lvars PROVE LoopInv' OBVIOUS
<1>1. CASE TimePasses \/ ClockSetBack BY <1>1, ClockKeeps
<1>2. CASE AeApiPoll BY <1>2, PollKeeps
<1>3. CASE FireRead \/ FireWrite \/ FireDangling BY <1>3, FilesKeep
<1>4. CASE StartPass BY <1>4, StartPassKeeps
<1>5. ASSUME NEW i \in DOMAIN timers, PassOver(timers[i]) \/ CallTimer(timers[i]) PROVE LoopInv'
  BY <1>5, PassOverKeeps, CallTimerKeeps
<1>6. CASE EndPass BY <1>6, EndPassKeeps
<1>7. CASE UNCHANGED lvars
  BY <1>7 DEF lvars, LoopInv, Served, Timed, PassGoesOn, CalledWell, Ahead, OfThisPass, IsDue, Sec, Ms
<1> QED BY <1>1, <1>2, <1>3, <1>4, <1>5, <1>6, <1>7 DEF LoopNext

LEMMA LoopSound == LoopInv => LoopTypeOK /\ LiveHandlersOnly /\ CalledOnce /\ PassComplete
<1> SUFFICES ASSUME LoopInv PROVE LoopTypeOK /\ LiveHandlersOnly /\ CalledOnce /\ PassComplete OBVIOUS
<1>0. /\ Table(events, alive, accepted) /\ Highest(events, maxfd, setsize) /\ accepted \in 0 .. MaxNew
      /\ at \in Ats /\ now \in SecMs .. MaxNow
  BY DEF LoopInv, Served, Firing, Timed
<1>1. LoopTypeOK
  <2>1. \A fd \in Fds : events[fd].mask \subseteq {"r", "w"} /\ events[fd].client \in 0 .. MaxNew
    <3>1. \A fd \in Fds : events[fd].mask \in Masks /\ events[fd].client \in Nat /\ events[fd].client <= accepted
      BY <1>0 DEF Table, FileEvents
    <3> QED BY <3>1, <1>0, EventLoopAssumption DEF Masks
  <2>2. now \in 0 .. MaxNow BY <1>0, EventLoopAssumption
  <2> QED BY <2>1, <2>2, <1>0 DEF LoopTypeOK, Highest, Ats
<1>2. PassComplete BY DEF LoopInv, PassGoesOn, PassComplete
<1> QED BY <1>1, <1>2 DEF LoopInv, CalledWell, Followed, LiveHandlersOnly, CalledOnce
-----------------------------------------------------------------------------
(* The theorems *)

LEMMA LoopInvariance == LoopSpec => []LoopInv
BY LoopInitInv, LoopNextInv, PTL DEF LoopSpec

\* The table of events and the highest descriptor keep their form through
\* accepts, closes, and resizes of the loop (aeCreateFileEvent,
\* aeDeleteFileEvent, aeResizeSetSize).
THEOREM LoopTypes == LoopSpec => []LoopTypeOK
BY LoopSound, LoopInvariance, PTL

\* No handler is called for a client that an earlier handler of the round freed,
\* although its event has fired and its descriptor may have a new owner
\* (aeProcessEvents, freeClient). Nothing is said of a process that has acted on
\* what it read from the memory of a table that CONFIG SET maxclients moved.
THEOREM HandlersLive == LoopSpec => []LiveHandlersOnly
BY LoopSound, LoopInvariance, PTL

\* A procedure for both directions is called once for a fired event, and a new
\* time event waits for the next pass (aeProcessEvents, processTimeEvents), with
\* the same exception.
THEOREM CallsOnce == LoopSpec => []CalledOnce
BY LoopSound, LoopInvariance, PTL

\* A pass over the time events ends with every event called or deleted that was
\* due when it began, whatever the procedures add and delete (processTimeEvents).
THEOREM PassesComplete == LoopSpec => []PassComplete
BY LoopSound, LoopInvariance, PTL

\* EventLoopSound of the run, in which this part of the system has a behaviour to itself.
THEOREM EventLoopPart == PartsSpec => []EventLoopSound
<1> DEFINE PartInv == part = "loop" => LoopInv
<1>1. PartsInit => PartInv BY LoopInitInv DEF PartsInit
<1>2. PartInv /\ [PartsNext]_<<part, rvars, xvars, pvars, lvars>> => PartInv'
  <2> SUFFICES ASSUME PartInv, [PartsNext]_<<part, rvars, xvars, pvars, lvars>>, part' = "loop"
               PROVE  LoopInv'
    OBVIOUS
  <2>1. part = "loop" /\ [LoopNext]_lvars BY DEF PartsNext
  <2> QED BY <2>1, LoopNextInv
<1>3. PartInv => EventLoopSound
  <2> SUFFICES ASSUME LoopInv PROVE LoopTypeOK /\ LiveHandlersOnly /\ CalledOnce /\ PassComplete
    BY DEF EventLoopSound
  <2> QED BY LoopSound
<1> QED BY <1>1, <1>2, <1>3, PTL DEF PartsSpec
=============================================================================

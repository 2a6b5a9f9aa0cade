---------------------------- MODULE Persistence ----------------------------
(***************************************************************************)
(* What a Redis server keeps on disk: the append only file with its        *)
(* buffer, its background fsync and its rewrite by a child process, the    *)
(* RDB file with its background save, SHUTDOWN, crashes and restarts       *)
(* (aof.c, rdb.c, bio.c, serverCron and prepareForShutdown in redis.c).    *)
(*                                                                         *)
(* The dataset is the sequence of the writes that made it; a rewritten     *)
(* file holds the same sequence.  A write is acknowledged at the end of    *)
(* the turn of the event loop that executed it, after beforeSleep.         *)
(***************************************************************************)
EXTENDS Integers, Sequences, SequencesExt

CONSTANTS
    Policies,     \* the values of appendfsync in the instances: "always", "everysec"
    MaxMem,       \* bound on the writes
    Happenings    \* sets of orders and failures: a behaviour has those of one of the sets, once each

VARIABLES
    policy,    \* server.aof_fsync
    mem,       \* the dataset
    acked,     \* number of acknowledged writes
    disk,      \* the file aof_filename: its writes, how many of them are synced, a torn tail
    log,       \* the AOF fields of server; conf: appendonly in redis.conf
    jobs,      \* bio: pending fsync jobs; TRUE for the file that is in use
    rw,        \* the AOF rewrite: the child, the pipe and the rewrite buffer
    rdb,       \* the RDB file, the child that saves one, and the dirty counters
    todo       \* what may still happen

pvars == <<policy, mem, acked, disk, log, jobs, rw, rdb, todo>>

NoRewrite == [stage |-> "none", file |-> <<>>, diff |-> <<>>, pipe |-> <<>>, rest |-> <<>>, stop |-> FALSE]
AofFields == [state |-> "on", buf |-> <<>>, err |-> FALSE, postponed |-> -1, recent |-> FALSE, fd |-> "open",
              scheduled |-> FALSE, conf |-> TRUE]
RdbFields == [file |-> <<>>, child |-> "none", snapshot |-> <<>>, dirty |-> 0, before |-> 0, ok |-> TRUE]

Pick(h) == h \in todo /\ todo' = todo \ {h}

-----------------------------------------------------------------------------
(* The append only file.                                                   *)

\* feedAppendOnlyFile: the buffer of the file, and the one of a rewrite.
FeedBufferOnly(a, r, op) == <<IF a.state = "on" THEN [a EXCEPT !.buf = Append(@, op)] ELSE a, r>>

FeedAppendOnlyFile(a, r, op) ==
    <<IF a.state = "on" THEN [a EXCEPT !.buf = Append(@, op)] ELSE a,
      IF a.state # "off" /\ r.stage # "none" THEN [r EXCEPT !.rest = Append(@, op)] ELSE r>>

\* The buffer is kept while a background fsync is in progress, for two seconds at most.
Postpones(a, j, force) == policy = "everysec" /\ ~force /\ j # <<>> /\ a.postponed < 2

\* flushAppendOnlyFile with the outcome of write(2): "ok", "error", or "torn", a short
\* write that ftruncate(2) could not undo.  The record has the new log, disk and jobs.
FlushUnsynced(a, d, j, force, outcome) ==
    IF a.buf = <<>> THEN [aof |-> a, disk |-> d, jobs |-> j] ELSE
    IF Postpones(a, j, force) THEN [aof |-> [a EXCEPT !.postponed = IF @ = -1 THEN 0 ELSE @], disk |-> d, jobs |-> j]
    ELSE IF outcome # "ok"
    THEN [aof |-> [a EXCEPT !.err = TRUE, !.postponed = -1],
          disk |-> [d EXCEPT !.torn = outcome = "torn"], jobs |-> j]
    ELSE [aof |-> [a EXCEPT !.buf = <<>>, !.err = FALSE, !.postponed = -1, !.recent = TRUE],
          disk |-> [d EXCEPT !.ops = @ \o a.buf, !.torn = FALSE],
          jobs |-> IF ~a.recent /\ j = <<>> THEN <<TRUE>> ELSE j]

Flush(a, d, j, force, outcome) ==
    IF a.buf = <<>> THEN [aof |-> a, disk |-> d, jobs |-> j]
    ELSE IF Postpones(a, j, force)
    THEN [aof |-> [a EXCEPT !.postponed = IF @ = -1 THEN 0 ELSE @], disk |-> d, jobs |-> j]
    ELSE IF outcome # "ok"
    THEN [aof |-> [a EXCEPT !.err = TRUE, !.postponed = -1],
          disk |-> [d EXCEPT !.torn = @ \/ outcome = "torn"], jobs |-> j]
    ELSE LET written == [d EXCEPT !.ops = @ \o a.buf, !.torn = FALSE]
             now == [a EXCEPT !.buf = <<>>, !.err = FALSE, !.postponed = -1]
         IN  IF policy = "always"
             THEN [aof |-> [now EXCEPT !.recent = TRUE], disk |-> [written EXCEPT !.synced = Len(written.ops)], jobs |-> j]
             ELSE [aof |-> [now EXCEPT !.recent = TRUE], disk |-> written,
                   jobs |-> IF ~a.recent /\ j = <<>> THEN <<TRUE>> ELSE j]

Outcome(a, outcome) == outcome = "ok" \/ (a.buf # <<>> /\ Pick(outcome))
KeepTodo(outcome) == outcome = "ok" => UNCHANGED todo

Flushes(a, d, j, force, outcome) ==
    LET f == Flush(a, d, j, force, outcome)
    IN  log' = f.aof /\ disk' = f.disk /\ jobs' = f.jobs

-----------------------------------------------------------------------------
(* The RDB file.                                                           *)

\* rdbSave, in the server.
RdbSaved(r) == [r EXCEPT !.file = mem, !.dirty = 0, !.ok = TRUE]

\* FLUSHALL saves at once, but what it changed still counts.
SavedForFlushall(r, m) == [r EXCEPT !.file = m, !.dirty = @ + 1]

SaveDoneAll(r) == [r EXCEPT !.dirty = 0]

\* backgroundSaveDoneHandlerDisk after a success.
SaveDone(r) == [r EXCEPT !.dirty = @ - r.before]

-----------------------------------------------------------------------------
PersistenceInit ==
    /\ policy \in Policies
    /\ mem = <<>> /\ acked = 0
    /\ disk = [ops |-> <<>>, synced |-> 0, torn |-> FALSE]
    /\ \E c \in BOOLEAN : log = [AofFields EXCEPT !.conf = c, !.state = IF c THEN "on" ELSE "off",
                                                 !.fd = IF c THEN "open" ELSE "none"]
    /\ jobs = <<>> /\ rw = NoRewrite /\ rdb = RdbFields
    /\ todo \in Happenings

\* A write command.  Writes are refused after an AOF error or a failed background save.
Execute ==
    LET op == Len(mem) + 1
        fed == FeedAppendOnlyFile(log, rw, op)
    IN  /\ Len(mem) < MaxMem /\ ~log.err /\ rdb.ok
        /\ mem' = Append(mem, op)
        /\ log' = fed[1] /\ rw' = fed[2]
        /\ rdb' = [rdb EXCEPT !.dirty = @ + 1]
        /\ UNCHANGED <<policy, acked, disk, jobs, todo>>

\* FLUSHALL also kills a child that saves, and saves the empty dataset itself.
Flushall ==
    LET op == Len(mem) + 1
        fed == FeedAppendOnlyFile(log, rw, op)
    IN  /\ Len(mem) < MaxMem /\ ~log.err /\ rdb.ok /\ Pick("flushall")
        /\ mem' = Append(mem, op)
        /\ log' = fed[1] /\ rw' = fed[2]
        /\ rdb' = [SavedForFlushall(rdb, mem') EXCEPT !.child = IF @ = "running" THEN "killed" ELSE @]
        /\ UNCHANGED <<policy, acked, disk, jobs>>

\* beforeSleep, and the replies that follow it.
BeforeSleep(outcome) ==
    /\ acked < Len(mem) \/ log.buf # <<>>
    /\ log.state # "off" /\ Outcome(log, outcome) /\ KeepTodo(outcome)
    /\ outcome # "ok" => policy # "always" /\ ~Postpones(log, jobs, FALSE)
    /\ Flushes(log, disk, jobs, FALSE, outcome)
    /\ acked' = Len(mem)
    /\ UNCHANGED <<policy, mem, rw, rdb>>

\* Without an AOF there is nothing to flush.
ReplyOnly ==
    /\ log.state = "off" /\ acked < Len(mem) /\ acked' = Len(mem)
    /\ UNCHANGED <<policy, mem, disk, log, jobs, rw, rdb, todo>>

\* serverCron: a postponed flush, or one that failed, is tried again.
CronFlush ==
    /\ (log.postponed # -1 /\ ~Postpones(log, jobs, FALSE)) \/ log.err
    /\ log.fd = "open" /\ log.buf # <<>>
    /\ Flushes(log, disk, jobs, FALSE, "ok")
    /\ UNCHANGED <<policy, mem, acked, rw, rdb, todo>>

\* A second passes.
Tick ==
    /\ log.recent \/ log.postponed \in 0..1
    /\ log' = [log EXCEPT !.recent = FALSE, !.postponed = IF @ \in 0..1 THEN @ + 1 ELSE @]
    /\ UNCHANGED <<policy, mem, acked, disk, jobs, rw, rdb, todo>>

\* bioProcessBackgroundJobs: an fsync of the file it was asked for.
BioFsync ==
    /\ jobs # <<>>
    /\ disk' = IF Head(jobs) THEN [disk EXCEPT !.synced = Len(disk.ops)] ELSE disk
    /\ jobs' = Tail(jobs)
    /\ UNCHANGED <<policy, mem, acked, log, rw, rdb, todo>>

\* rewriteAppendOnlyFileBackground.
Forked == [NoRewrite EXCEPT !.stage = "working", !.file = mem]

\* BGREWRITEAOF, or the growth of the file in serverCron.
Bgrewriteaof ==
    /\ rw.stage = "none" /\ Pick("rewrite")
    /\ IF rdb.child # "none" THEN log' = [log EXCEPT !.scheduled = TRUE] /\ UNCHANGED rw
       ELSE rw' = Forked /\ log' = [log EXCEPT !.scheduled = FALSE]
    /\ UNCHANGED <<policy, mem, acked, disk, jobs, rdb>>

CronStartsRewrite ==
    /\ log.scheduled /\ rw.stage = "none" /\ rdb.child = "none"
    /\ rw' = Forked /\ log' = [log EXCEPT !.scheduled = FALSE]
    /\ UNCHANGED <<policy, mem, acked, disk, jobs, rdb, todo>>


-----------------------------------------------------------------------------
(* The rewrite.  The parent sends what is written meanwhile through a      *)
(* pipe, until the child asks it to stop.                                  *)

\* aofChildWriteDiffData.
ParentSends ==
    /\ rw.rest # <<>> /\ ~rw.stop /\ rw.stage \in {"working", "asked"}
    /\ rw' = [rw EXCEPT !.pipe = @ \o rw.rest, !.rest = <<>>]
    /\ UNCHANGED <<policy, mem, acked, disk, log, jobs, rdb, todo>>

\* aofReadDiffFromParent.
ReadDiff(r) == [r EXCEPT !.diff = @ \o r.pipe, !.pipe = <<>>]

ChildReads ==
    /\ rw.stage = "working" /\ rw.pipe # <<>>
    /\ rw' = ReadDiff(rw)
    /\ UNCHANGED <<policy, mem, acked, disk, log, jobs, rdb, todo>>

ChildAsks ==
    /\ rw.stage = "working"
    /\ rw' = [rw EXCEPT !.stage = "asked"]
    /\ UNCHANGED <<policy, mem, acked, disk, log, jobs, rdb, todo>>

\* aofChildPipeReadable.
ParentAcks ==
    /\ rw.stage = "asked" /\ ~rw.stop
    /\ rw' = [rw EXCEPT !.stop = TRUE]
    /\ UNCHANGED <<policy, mem, acked, disk, log, jobs, rdb, todo>>

\* The end of rewriteAppendOnlyFile: the final diff is read and appended.
ChildFinishes ==
    /\ rw.stage = "asked" /\ rw.stop
    /\ rw' = LET r == ReadDiff(rw) IN [r EXCEPT !.stage = "done", !.file = @ \o r.diff, !.diff = <<>>]
    /\ UNCHANGED <<policy, mem, acked, disk, log, jobs, rdb, todo>>

ChildDies ==
    /\ rw.stage \in {"working", "asked"} /\ Pick("child dies")
    /\ rw' = [rw EXCEPT !.stage = "failed"]
    /\ UNCHANGED <<policy, mem, acked, disk, log, jobs, rdb>>

SwitchKeepsBuffer(a) == [a EXCEPT !.state = IF @ = "wait" THEN "on" ELSE @]

\* The fields after the new file took the place of the old one: what is in the buffer
\* was in the rewrite buffer too.
SwitchFile(a) ==
    [a EXCEPT !.state = IF @ = "wait" THEN "on" ELSE @,
              !.buf = IF a.fd = "none" THEN @ ELSE <<>>, !.fd = IF @ = "none" THEN @ ELSE "open"]

\* backgroundRewriteDoneHandler.  A file that is in use is synced; jobs for the old
\* one no longer concern the file that has the name.
RewriteDone ==
    /\ rw.stage \in {"done", "failed"}
    /\ IF rw.stage = "done"
       THEN LET ops == rw.file \o rw.rest
                stale == [i \in DOMAIN jobs |-> FALSE]
            IN  /\ disk' = [ops |-> ops, torn |-> FALSE,
                            synced |-> IF log.fd # "none" /\ policy = "always" THEN Len(ops) ELSE Len(rw.file)]
                /\ jobs' = IF log.fd # "none" /\ policy = "everysec" THEN Append(stale, TRUE) ELSE stale
                /\ log' = SwitchFile(log)
       ELSE /\ log' = [log EXCEPT !.scheduled = @ \/ log.state = "wait"]
            /\ UNCHANGED <<disk, jobs>>
    /\ rw' = NoRewrite
    /\ UNCHANGED <<policy, mem, acked, rdb, todo>>

\* CONFIG SET appendonly no.
StopAppendOnly ==
    LET f == Flush(log, disk, jobs, TRUE, "ok")
    IN  /\ log.state # "off" /\ Pick("stop")
        /\ log' = [f.aof EXCEPT !.state = "off", !.fd = "none"]
        /\ disk' = [f.disk EXCEPT !.synced = Len(f.disk.ops)]
        /\ jobs' = [i \in DOMAIN f.jobs |-> FALSE]
        /\ rw' = NoRewrite
        /\ UNCHANGED <<policy, mem, acked, rdb>>

\* CONFIG SET appendonly yes.  While a rewrite is running it fails, and leaves the
\* number of the descriptor it closed.
StartAppendOnly ==
    /\ log.state = "off" /\ Pick("start")
    /\ IF rw.stage = "none"
       THEN rw' = Forked /\ log' = [log EXCEPT !.state = "wait", !.fd = "open", !.scheduled = FALSE, !.recent = TRUE]
       ELSE log' = [log EXCEPT !.fd = "closed"] /\ UNCHANGED rw
    /\ UNCHANGED <<policy, mem, acked, disk, jobs, rdb>>

-----------------------------------------------------------------------------
(* The RDB file, shutdown, crash and restart.                              *)

\* SAVE.
SaveCommand ==
    /\ rdb.child = "none" /\ Pick("save")
    /\ rdb' = RdbSaved(rdb)
    /\ UNCHANGED <<policy, mem, acked, disk, log, jobs, rw>>

\* BGSAVE, or a save point that is reached.
BgsaveCommand ==
    /\ rdb.child = "none" /\ rw.stage = "none" /\ Pick("bgsave")
    /\ rdb' = [rdb EXCEPT !.child = "running", !.snapshot = mem, !.before = rdb.dirty]
    /\ UNCHANGED <<policy, mem, acked, disk, log, jobs, rw>>

\* The child renames its file over the old one, or fails.
RdbChildEnds ==
    /\ rdb.child = "running"
    /\ \/ rdb' = [rdb EXCEPT !.child = "done", !.file = rdb.snapshot] /\ UNCHANGED todo
       \/ Pick("child dies") /\ rdb' = [rdb EXCEPT !.child = "failed"]
    /\ UNCHANGED <<policy, mem, acked, disk, log, jobs, rw>>

\* backgroundSaveDoneHandlerDisk.  A child that was killed on purpose is no failure.
RdbDone ==
    /\ rdb.child \in {"done", "failed", "killed"}
    /\ rdb' = LET ended == [rdb EXCEPT !.child = "none", !.snapshot = <<>>, !.before = 0,
                                       !.ok = IF rdb.child = "killed" THEN @ ELSE rdb.child = "done"]
              IN  IF rdb.child = "done" THEN [ended EXCEPT !.dirty = SaveDone(rdb).dirty] ELSE ended
    /\ UNCHANGED <<policy, mem, acked, disk, log, jobs, rw, todo>>

\* The process has ended: its children with it, its memory and its buffers.
Down(d, r) ==
    /\ disk' = d
    /\ rdb' = [r EXCEPT !.child = "none", !.snapshot = <<>>, !.before = 0]
    /\ log' = [AofFields EXCEPT !.state = "down", !.conf = log.conf]
    /\ jobs' = <<>> /\ rw' = NoRewrite
    /\ UNCHANGED <<policy, mem, acked>>

\* SHUTDOWN with save points (saved) or without.  The append only file is synced.
Shutdown(saved) ==
    /\ Pick("shutdown")
    /\ ~(log.state = "wait" /\ rw.stage # "none")
    /\ Down(IF log.state # "off" THEN [disk EXCEPT !.synced = Len(disk.ops)] ELSE disk,
            IF saved THEN RdbSaved(rdb) ELSE rdb)

\* With "always" a write error ends the process; otherwise it is killed.
Killed == (Pick("kill") \/ (policy = "always" /\ log.buf # <<>> /\ Pick("error"))) /\ Down(disk, rdb)

\* The machine loses power: what was not synced may be lost.
PowerLoss ==
    /\ Pick("power")
    /\ \E n \in disk.synced .. Len(disk.ops) : Down([disk EXCEPT !.ops = SubSeq(@, 1, n), !.torn = n < Len(disk.ops)], rdb)

\* loadAppendOnlyFile: a torn tail is cut off (aof-load-truncated).
LoadAppendOnlyFile(d) == [d EXCEPT !.torn = FALSE, !.synced = Len(d.ops)]

\* loadDataFromDisk.  The commands that are replayed count as changes.
LoadDataFromDisk ==
    /\ log.state = "down"
    /\ mem' = IF log.conf THEN disk.ops ELSE rdb.file
    /\ acked' = Len(mem')
    /\ disk' = IF log.conf THEN LoadAppendOnlyFile(disk) ELSE disk
    /\ log' = [AofFields EXCEPT !.conf = log.conf, !.state = IF log.conf THEN "on" ELSE "off",
                                !.fd = IF log.conf THEN "open" ELSE "none"]
    /\ rdb' = [rdb EXCEPT !.dirty = IF log.conf THEN Len(disk.ops) ELSE 0, !.ok = TRUE]
    /\ UNCHANGED <<policy, jobs, rw, todo>>

Running ==
    \/ Execute \/ Flushall \/ ReplyOnly \/ CronFlush \/ Tick \/ BioFsync
    \/ \E outcome \in {"ok", "error", "torn"} : BeforeSleep(outcome)
    \/ Bgrewriteaof \/ CronStartsRewrite \/ ParentSends \/ ChildReads \/ ChildAsks \/ ParentAcks
    \/ ChildFinishes \/ ChildDies \/ RewriteDone \/ StopAppendOnly \/ StartAppendOnly
    \/ SaveCommand \/ BgsaveCommand \/ RdbChildEnds \/ RdbDone
    \/ \E saved \in BOOLEAN : Shutdown(saved)
    \/ Killed \/ PowerLoss

PersistenceNext == (log.state # "down" /\ Running) \/ LoadDataFromDisk

PersistenceSpec == PersistenceInit /\ [][PersistenceNext]_pvars

-----------------------------------------------------------------------------
\* Types; a child's count of changes is part of the server's; the fsync queue does
\* not grow beyond a job of the file in use and those of the files before it.
PersistenceTypeOK ==
    /\ policy \in Policies /\ mem \in Seq(Nat) /\ acked \in 0 .. Len(mem)
    /\ disk.synced \in 0 .. Len(disk.ops) /\ disk.torn \in BOOLEAN
    /\ log.state \in {"on", "off", "wait", "down"} /\ log.fd \in {"open", "none", "closed"}
    /\ log.postponed \in -1 .. 2
    /\ rw.stage \in {"none", "working", "asked", "done", "failed"}
    /\ rdb.dirty \in Nat /\ rdb.before \in 0 .. rdb.dirty
    /\ rdb.child \in {"none", "running", "done", "failed", "killed"}

\* The append only file and its buffer hold the dataset, through flushes that fail or
\* are postponed, rewrites, restarts and changes of appendonly (flushAppendOnlyFile,
\* backgroundRewriteDoneHandler).
AofHoldsAll == log.state = "on" => disk.ops \o log.buf = mem

\* While a rewrite is running, what the child wrote and received, what is in the pipe
\* and what the parent has still to send make up the dataset (feedAppendOnlyFile,
\* aofChildWriteDiffData, aofReadDiffFromParent).
RewriteHoldsAll ==
    log.state \in {"on", "wait"} /\ rw.stage \in {"working", "asked", "done"}
        => rw.file \o rw.diff \o rw.pipe \o rw.rest = mem

\* With appendfsync always, what was acknowledged is on the disk (flushAppendOnlyFile,
\* the fsync in backgroundRewriteDoneHandler).
AlwaysDurable == policy = "always" /\ log.state = "on" => acked <= disk.synced

\* The changes that are not in the RDB file have been counted, so that a save point
\* sees them (rdbSave, backgroundSaveDoneHandlerDisk, FLUSHALL).
DirtyCovers == log.state # "down" => Len(mem) - Len(rdb.file) <= rdb.dirty

=============================================================================

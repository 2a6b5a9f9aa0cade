---------------------------- MODULE Replication ----------------------------
(***************************************************************************)
(* Replication between Redis servers (replication.c): the backlog of a     *)
(* master, PSYNC with its partial and full resynchronisation, the BGSAVE   *)
(* of a full one (to disk or to the sockets), the cached master of a slave,*)
(* SLAVEOF, and WAIT.                                                      *)
(*                                                                         *)
(* The dataset of a server is the sequence of the writes it holds.  Every  *)
(* command of the stream is one unit of the replication offset; 0 is PING, *)
(* which has an offset and no effect.  A slave has one connection to a     *)
(* master; wire[s] is what was sent to s on it.  A master may learn late   *)
(* that a slave is gone, and a slave that its master is.                   *)
(*                                                                         *)
(* SLAVEOF does not undo a handshake that has gone beyond its PING         *)
(* (cancelReplicationHandshake): the socket stays open and syncWithMaster  *)
(* stays its handler, srv[s].leftover counts such sockets.  When a reply   *)
(* arrives on one, syncWithMaster takes it for one of the link that s has  *)
(* by then: the state of s is "tangled", and s is not followed further.    *)
(***************************************************************************)
EXTENDS Integers, Sequences, FiniteSets, SequencesExt

CONSTANTS
    Servers,       \* redis-server processes
    MayFollow,     \* pairs <<s, m>>: SLAVEOF m may be sent to s
    InitialMaster, \* InitialMaster[s]: the configured master, or Nobody
    BacklogSizes,  \* the values of repl-backlog-size
    EventSets,     \* sets of events (failures, orders): a behaviour has those of one of the sets
    Waits,         \* the numbers of replicas asked for by WAIT
    MaxWrites      \* bound on the commands of the stream

Nobody == "nobody"

VARIABLES
    srv,       \* srv[n]: the replication state of a server
    link,      \* link[n][s]: the slave client s in server n
    wire,      \* wire[s]: what is on its way from the master of s to s
    waiters,   \* server.clients_waiting_acks
    lied,      \* history: a WAIT was answered with more replicas than held its writes
    held,      \* history: held[n], the writes server n has held
    writes,    \* number of commands given to the stream
    upcoming     \* the events that may still happen

rvars == <<srv, link, wire, waiters, lied, held, writes, upcoming>>

ASSUME ReplicationAssumption ==
    /\ Nobody \notin Servers /\ MayFollow \subseteq Servers \X Servers
    /\ BacklogSizes \subseteq Nat \ {0} /\ BacklogSizes # {}

NoBacklog == [on |-> FALSE, buf |-> <<>>, idx |-> 0, histlen |-> 0, off |-> 0]
NoRun == <<Nobody, 0>>
NoCache == [run |-> NoRun, off |-> -1]
NoSlave == [state |-> "none", init |-> 0, out |-> <<>>, ack |-> 0, hold |-> FALSE]
NoChild == [target |-> "none", snapshot |-> <<>>]
MinSize == CHOOSE n \in BacklogSizes : \A k \in BacklogSizes : n <= k

Msg(kind, run, off, data) == [kind |-> kind, run |-> run, off |-> off, data |-> data]
Command(op) == Msg("command", NoRun, 0, <<op>>)

-----------------------------------------------------------------------------
(* The backlog: a circular buffer of the last commands of the stream.      *)

EmptyBacklog(size, off) == [on |-> TRUE, buf |-> [i \in 1..size |-> 0], idx |-> 0, histlen |-> 0, off |-> off]

CreateReplicationBacklog(r) == [r EXCEPT !.off = @ + 1, !.backlog = EmptyBacklog(r.size, r.off + 2)]

Lesser(a, b) == IF a <= b THEN a ELSE b

FeedReplicationBacklog(r, op) ==
    LET b == r.backlog
        histlen == Lesser(b.histlen + 1, r.size)
    IN  [r EXCEPT !.off = @ + 1,
                  !.backlog = [b EXCEPT !.buf[b.idx + 1] = op, !.idx = (b.idx + 1) % r.size,
                                        !.histlen = histlen, !.off = r.off + 2 - histlen]]

\* addReplyReplicationBacklog: the commands from offset `from' to the end.
AddReplyReplicationBacklog(r, from) ==
    LET b == r.backlog
        skip == from - b.off
        start == (b.idx + (r.size - b.histlen) + skip) % r.size
    IN  [i \in 1..(b.histlen - skip) |-> b.buf[((start + i - 1) % r.size) + 1]]

PsyncOffsetNow(r) == r.off

GetPsyncInitialOffset(r) == IF r.backlog.on THEN r.off ELSE r.off + 1

-----------------------------------------------------------------------------
(* Operators on a system record y: the servers, links and wires.           *)

Sys == [srv |-> srv, link |-> link, wire |-> wire]
Slaves(y, n) == {s \in Servers : y.link[n][s].state # "none"}

\* A connection is over for the slave that left it, or that follows another master.
Alive(y, n, s) == y.srv[s].master = n /\ y.srv[s].state \in {"handshake", "transfer", "connected"}

\* A command reaches the wire of an online slave, and the output buffer of another.
FeedSlave(y, n, s, op) ==
    LET l == y.link[n][s]
    IN  IF l.state = "online" /\ ~l.hold
        THEN IF Alive(y, n, s) THEN [y EXCEPT !.wire[s] = Append(@, Command(op))] ELSE y
        ELSE [y EXCEPT !.link[n][s].out = Append(@, op)]

ReplicationFeedSlaves(y, n, op) ==
    IF ~y.srv[n].backlog.on /\ Slaves(y, n) = {} THEN y
    ELSE LET fed == [y EXCEPT !.srv[n] = FeedReplicationBacklog(@, op)]
         IN  FoldLeft(LAMBDA z, s : IF z.link[n][s].state = "start" THEN z ELSE FeedSlave(z, n, s, op),
                      fed, SetToSeq(Slaves(y, n)))

DisconnectSlaves(y, n) == [y EXCEPT !.link[n] = [s \in Servers |-> NoSlave]]
FreeReplicationBacklog(y, n) == [y EXCEPT !.srv[n].backlog = NoBacklog]

PutSlaveOnline(y, n, s) ==
    LET out == y.link[n][s].out
        send == [i \in 1..Len(out) |-> Command(out[i])]
    IN  [y EXCEPT !.link[n][s] = [@ EXCEPT !.state = "online", !.hold = FALSE, !.out = <<>>],
                  !.wire[s] = IF Alive(y, n, s) THEN @ \o send ELSE @]

SetupSlaveForFullResync(y, n, s, offset) ==
    [y EXCEPT !.link[n][s].init = offset, !.link[n][s].state = "end",
              !.wire[s] = IF Alive(y, n, s) THEN Append(@, Msg("fullresync", y.srv[n].run, offset, <<>>)) ELSE @]

WaitingStart(y, n) == {s \in Servers : y.link[n][s].state = "start"}

\* startBgsaveForReplication, and the outcome of the fork.
StartBgsaveForReplication(y, n, target) ==
    IF target = "failed"
    THEN [y EXCEPT !.link[n] = [s \in Servers |-> IF s \in WaitingStart(y, n) THEN NoSlave ELSE @[s]]]
    ELSE FoldLeft(LAMBDA z, s : SetupSlaveForFullResync(z, n, s, GetPsyncInitialOffset(y.srv[n])),
                  [y EXCEPT !.srv[n].child = [target |-> target, snapshot |-> y.srv[n].data]],
                  SetToSeq(WaitingStart(y, n)))

-----------------------------------------------------------------------------
(* The slave's side of a connection.                                       *)

\* replicationCacheMaster, replicationHandleMasterDisconnection, replicationAbortSyncTransfer:
\* only an established link is kept for a partial resynchronisation.
Disconnect(y, s) ==
    LET r == y.srv[s]
    IN  [y EXCEPT !.wire[s] = <<>>,
                  !.srv[s].state = "connect",
                  !.srv[s].cached = IF r.state = "connected" THEN [run |-> r.mrun, off |-> r.reploff] ELSE @]

DiscardCachedMaster(y, s) == [y EXCEPT !.srv[s].cached = NoCache]

ReplicationSetMaster(y, s, m) ==
    FreeReplicationBacklog([DisconnectSlaves(DiscardCachedMaster(y, s), s) EXCEPT
        !.wire[s] = <<>>, !.srv[s].master = m, !.srv[s].state = "connect", !.srv[s].off = 0], s)

\* cancelReplicationHandshake, called at the end of both: a connection that waits for the reply to
\* its PING and a transfer are undone.  From AUTH to PSYNC nothing is; whether a handshake in
\* "connect" is that far is left open.
HandshakesLeft(y, s) ==
    CASE y.srv[s].state = "handshake" -> {1}
      [] y.srv[s].state = "connect" -> {0, 1}
      [] OTHER -> {0}
CancelReplicationHandshake(y, s, left) == [y EXCEPT !.srv[s].leftover = @ + left]

ReplicationUnsetMaster(y, s) ==
    LET linked == y.srv[s].state = "connected" /\ Slaves(y, s) = {}
        z == IF linked THEN FreeReplicationBacklog([y EXCEPT !.srv[s].off = y.srv[s].reploff], s) ELSE y
    IN  [DiscardCachedMaster(z, s) EXCEPT
            !.wire[s] = <<>>, !.srv[s].master = Nobody, !.srv[s].state = "none"]

\* FULLRESYNC: the slaves of this server must resynchronise too.
BeginTransfer(y, s, m) ==
    FreeReplicationBacklog(
        DisconnectSlaves(DiscardCachedMaster(
            [y EXCEPT !.srv[s].state = "transfer", !.srv[s].mrun = m.run, !.srv[s].init = m.off], s), s), s)

\* The end of readSyncBulkPayload.
LoadTransfer(y, s, m) ==
    [y EXCEPT !.srv[s].state = "connected", !.srv[s].data = m.data, !.srv[s].reploff = y.srv[s].init]

ResurrectCachedMaster(y, s) ==
    [y EXCEPT !.srv[s].state = "connected", !.srv[s].cached = NoCache,
              !.srv[s].mrun = y.srv[s].cached.run, !.srv[s].reploff = y.srv[s].cached.off]

\* A command of the stream is executed, and propagated to the slaves of this server.
ExecuteFromMaster(y, s, op) ==
    LET z == [y EXCEPT !.srv[s].reploff = @ + 1]
    IN  IF op = 0 THEN z ELSE ReplicationFeedSlaves([z EXCEPT !.srv[s].data = Append(@, op)], s, op)

Deliver(y, s, m) ==
    CASE m.kind = "fullresync" -> BeginTransfer(y, s, m)
      [] m.kind = "rdb" -> LoadTransfer(y, s, m)
      [] m.kind = "continue" -> ResurrectCachedMaster(y, s)
      [] m.kind = "command" -> ExecuteFromMaster(y, s, m.data[1])

-----------------------------------------------------------------------------
(* The master's side: PSYNC.                                               *)

PartialAlways(r, run, from) == r.backlog.on /\ r.backlog.off <= from /\ from <= r.backlog.off + r.backlog.histlen

\* masterTryPartialResynchronization: the test.
CanContinue(r, run, from) ==
    run = r.run /\ r.backlog.on /\ r.backlog.off <= from /\ from <= r.backlog.off + r.backlog.histlen

Continue(y, n, s, from) ==
    LET rest == AddReplyReplicationBacklog(y.srv[n], from)
    IN  [y EXCEPT !.link[n][s] = [NoSlave EXCEPT !.state = "online"],
                  !.wire[s] = <<Msg("continue", NoRun, 0, <<>>)>> \o [i \in 1..Len(rest) |-> Command(rest[i])]]

Recording(y, n) == {s \in Servers : y.link[n][s].state = "end"}

\* Another slave registers the differences since the fork: its buffer is copied.
Attach(y, n, s, t) ==
    SetupSlaveForFullResync([y EXCEPT !.link[n][s].out = y.link[n][t].out], n, s, y.link[n][t].init)

WithBacklogIfSaving(y, n) ==
    IF Cardinality(Slaves(y, n)) = 1 /\ ~y.srv[n].backlog.on /\ y.srv[n].child # NoChild
    THEN [y EXCEPT !.srv[n] = CreateReplicationBacklog(@)] ELSE y

WithBacklog(y, n) ==
    IF Cardinality(Slaves(y, n)) = 1 /\ ~y.srv[n].backlog.on
    THEN [y EXCEPT !.srv[n] = CreateReplicationBacklog(@)] ELSE y

\* syncCommand without a partial resynchronisation; target "later" is the diskless
\* replication, whose BGSAVE is started by replicationCron.
FullResync(y, n, s, target) ==
    LET z == [y EXCEPT !.link[n][s] = [NoSlave EXCEPT !.state = "start"]]
    IN  IF y.srv[n].child.target = "disk" /\ Recording(y, n) # {}
        THEN WithBacklog(Attach(z, n, s, CHOOSE t \in Recording(y, n) : TRUE), n)
        ELSE IF y.srv[n].child.target # "none" \/ target = "later" THEN WithBacklog(z, n)
        ELSE IF target = "failed" THEN StartBgsaveForReplication(z, n, target)
        ELSE WithBacklog(StartBgsaveForReplication(z, n, target), n)

\* updateSlavesWaitingBgsave for the slaves that waited for the child that ended.
EndBgsave(y, n, ok) ==
    LET c == y.srv[n].child
        Step(z, s) ==
            IF ~ok THEN [z EXCEPT !.link[n][s] = NoSlave]
            ELSE LET sent == [z EXCEPT !.wire[s] = IF Alive(z, n, s) THEN Append(@, Msg("rdb", NoRun, 0, c.snapshot)) ELSE @]
                 IN  IF c.target = "socket" THEN [sent EXCEPT !.link[n][s].state = "online", !.link[n][s].hold = TRUE]
                     ELSE [sent EXCEPT !.link[n][s].state = "bulk"]
    IN  FoldLeft(Step, [y EXCEPT !.srv[n].child = NoChild], SetToSeq(Recording(y, n)))

-----------------------------------------------------------------------------
(* WAIT.                                                                   *)

CountAttached(y, n, off) == Cardinality({s \in Servers : y.link[n][s].state = "online"})

CountAcksByOffset(y, n, off) == Cardinality({s \in Servers : y.link[n][s].state = "online" /\ y.link[n][s].ack >= off})

\* The servers that held the writes of a waiting client at some time.
Holders(y, w) == {s \in Servers \ {w.server} : ToSet(w.data) \subseteq held[s] \cup ToSet(y.srv[s].data)}

\* The answer k counts a replica that does not hold the writes.  (A write made at offset 0, before
\* the first slave ever attached, is answered by slaves that have not acknowledged anything.)
Overstated(y, w, k) == w.off # 0 /\ Cardinality(Holders(y, w)) < k

\* processClientsWaitingReplicas: in the order of the list, with its shortcut.
ProcessClientsWaitingReplicas(y, ws) ==
    LET Step(a, w) ==
            IF a.off # 0 /\ a.off > w.off /\ a.num > w.num
            THEN [a EXCEPT !.lied = @ \/ Overstated(y, w, a.num)]
            ELSE LET k == CountAcksByOffset(y, w.server, w.off)
                 IN  IF k >= w.num
                     THEN [a EXCEPT !.off = w.off, !.num = k, !.lied = @ \/ Overstated(y, w, k)]
                     ELSE [a EXCEPT !.left = Append(@, w)]
    IN  FoldLeft(Step, [off |-> 0, num |-> 0, lied |-> FALSE, left |-> <<>>], ws)

-----------------------------------------------------------------------------
(* The actions.                                                            *)

Apply(y) ==
    /\ srv' = y.srv /\ link' = y.link /\ wire' = y.wire
    /\ held' = [n \in Servers |-> held[n] \cup ToSet(y.srv[n].data)]
Event(kind) == kind \in upcoming /\ upcoming' = upcoming \ {kind}
WaitersOf(n) == SelectSeq(waiters, LAMBDA w : w.server = n)
WaitersElsewhere(n) == SelectSeq(waiters, LAMBDA w : w.server # n)

\* The configured slaves have synchronised with their master, whose stream is empty.
ReplicationInit ==
    LET Follows(s, n) == InitialMaster[s] = n
        fresh == [data |-> <<>>, run |-> NoRun, off |-> 0, size |-> MinSize, backlog |-> NoBacklog, child |-> NoChild,
                  master |-> Nobody, state |-> "none", leftover |-> 0, mrun |-> NoRun, init |-> -1, reploff |-> 0,
                  cached |-> NoCache]
        Role(n) == IF InitialMaster[n] = Nobody THEN fresh
                   ELSE [fresh EXCEPT !.master = InitialMaster[n], !.state = "connected",
                                      !.mrun = <<InitialMaster[n], 1>>, !.init = 1, !.reploff = 1]
    IN  /\ srv = [n \in Servers |-> [(IF \E s \in Servers : Follows(s, n) THEN CreateReplicationBacklog(Role(n)) ELSE Role(n))
                                       EXCEPT !.run = <<n, 1>>]]
        /\ link = [n \in Servers |-> [s \in Servers |->
                     IF Follows(s, n) THEN [NoSlave EXCEPT !.state = "online", !.init = 1] ELSE NoSlave]]
        /\ wire = [s \in Servers |-> <<>>]
        /\ waiters = <<>> /\ lied = FALSE /\ held = [n \in Servers |-> {}]
        /\ writes = 0 /\ upcoming \in EventSets

\* A client's write; a slave is read only.
Write(n) ==
    /\ writes < MaxWrites /\ srv[n].master = Nobody
    /\ writes' = writes + 1
    /\ Apply(ReplicationFeedSlaves([Sys EXCEPT !.srv[n].data = Append(@, writes + 1)], n, writes + 1))
    /\ UNCHANGED <<waiters, lied, upcoming>>

\* replicationCron: a PING to the slaves and into the backlog.
PingSlaves(n) ==
    /\ writes < MaxWrites /\ (srv[n].backlog.on \/ Slaves(Sys, n) # {})
    /\ writes' = writes + 1
    /\ Apply(ReplicationFeedSlaves(Sys, n, 0))
    /\ UNCHANGED <<waiters, lied, upcoming>>

\* The handshake of syncWithMaster ends with PSYNC, which the master executes.
Psync(s, target) ==
    LET n == srv[s].master
        from == IF srv[s].cached = NoCache THEN -1 ELSE srv[s].cached.off + 1
        y == [Sys EXCEPT !.srv[s].state = "handshake", !.srv[s].init = -1]
    IN  /\ srv[s].state = "connect" /\ link[n][s].state = "none"
        /\ srv[n].state \in {"none", "connected"}
        /\ IF CanContinue(srv[n], srv[s].cached.run, from)
           THEN target = "later" /\ Apply(Continue(y, n, s, from)) /\ UNCHANGED upcoming
           ELSE /\ srv[n].child.target # "none" => target = "later"
                /\ target # "socket"
                /\ IF target = "failed" THEN Event("forkfails") ELSE UNCHANGED upcoming
                /\ Apply(FullResync(y, n, s, target))
        /\ UNCHANGED <<waiters, lied, writes>>

\* A master that has lost its own master refuses: the slave gives up its cached master.
PsyncRefused(s) ==
    LET n == srv[s].master
    IN  /\ srv[s].state = "connect" /\ srv[n].state \notin {"none", "connected"}
        /\ Apply(FreeReplicationBacklog(DisconnectSlaves(DiscardCachedMaster(Sys, s), s), s))
        /\ UNCHANGED <<waiters, lied, writes, upcoming>>

Receive(s) ==
    /\ wire[s] # <<>>
    /\ Apply(Deliver([Sys EXCEPT !.wire[s] = Tail(@)], s, Head(wire[s])))
    /\ UNCHANGED <<waiters, lied, writes, upcoming>>

\* The slave loses its connection, or times out.
LoseMaster(s) ==
    /\ srv[s].state \in {"handshake", "transfer", "connected"}
    /\ IF link[srv[s].master][s].state # "none" THEN Event("disconnect") ELSE UNCHANGED upcoming
    /\ Apply(Disconnect(Sys, s))
    /\ UNCHANGED <<waiters, lied, writes>>

\* The master learns that a slave is gone, or gives up on it.
FreeSlave(n, s) ==
    /\ link[n][s].state # "none"
    /\ IF Alive(Sys, n, s) THEN Event("disconnect") ELSE UNCHANGED upcoming
    /\ Apply([Sys EXCEPT !.link[n][s] = NoSlave])
    /\ UNCHANGED <<waiters, lied, writes>>

\* BGSAVE, or a save point of serverCron.
Bgsave(n) ==
    /\ srv[n].child = NoChild /\ Event("bgsave")
    /\ Apply([Sys EXCEPT !.srv[n].child = [target |-> "disk", snapshot |-> srv[n].data]])
    /\ UNCHANGED <<waiters, lied, writes>>

BgsaveDone(n, ok, target) ==
    LET y == EndBgsave(Sys, n, ok)
    IN  /\ srv[n].child # NoChild
        /\ IF ok THEN UNCHANGED upcoming ELSE Event("childfails")
        /\ IF WaitingStart(y, n) = {} THEN target = "failed" /\ Apply(y)
           ELSE target # "failed" /\ Apply(StartBgsaveForReplication(y, n, target))
        /\ UNCHANGED <<waiters, lied, writes>>

\* sendBulkToSlave has sent the last part of the file.
BulkSent(n, s) ==
    /\ link[n][s].state = "bulk"
    /\ Apply(PutSlaveOnline(Sys, n, s))
    /\ UNCHANGED <<waiters, lied, writes, upcoming>>

\* replicationCron: the BGSAVE of a diskless replication.
CronStartsBgsave(n, target) ==
    /\ srv[n].child = NoChild /\ WaitingStart(Sys, n) # {} /\ target # "failed"
    /\ Apply(StartBgsaveForReplication(Sys, n, target))
    /\ UNCHANGED <<waiters, lied, writes, upcoming>>

CronFreesBacklog(n) ==
    /\ srv[n].backlog.on /\ Slaves(Sys, n) = {} /\ Event("freebacklog")
    /\ Apply(FreeReplicationBacklog(Sys, n))
    /\ UNCHANGED <<waiters, lied, writes>>

ResizeReplicationBacklog(n, size) ==
    /\ srv[n].size # size /\ Event("resize")
    /\ Apply([Sys EXCEPT !.srv[n] = [@ EXCEPT !.size = size,
                 !.backlog = IF @.on THEN EmptyBacklog(size, srv[n].off + 1) ELSE @]])
    /\ UNCHANGED <<waiters, lied, writes>>

Slaveof(s, m) ==
    /\ <<s, m>> \in MayFollow /\ srv[s].master # m /\ srv[s].state # "tangled"
    /\ \E kind \in {"slaveof", "slaveof again"} : Event(kind)
    /\ \E left \in HandshakesLeft(Sys, s) :
           Apply(CancelReplicationHandshake(ReplicationSetMaster(Sys, s, m), s, left))
    /\ waiters' = WaitersElsewhere(s)
    /\ UNCHANGED <<lied, writes>>

SlaveofNoOne(s) ==
    /\ srv[s].master # Nobody /\ srv[s].state # "tangled"
    /\ (\E m \in Servers : <<s, m>> \in MayFollow) /\ Event("promote")
    /\ \E left \in HandshakesLeft(Sys, s) :
           Apply(CancelReplicationHandshake(ReplicationUnsetMaster(Sys, s), s, left))
    /\ UNCHANGED <<waiters, lied, writes>>

\* Two sockets share one state machine, and what s knows of its master is not followed.
Tangle(y, s) ==
    [y EXCEPT !.srv[s] = [@ EXCEPT !.state = "tangled", !.leftover = 0, !.cached = NoCache,
                                   !.mrun = NoRun, !.init = -1, !.reploff = 0],
              !.wire[s] = <<>>]

\* syncWithMaster, called for a socket that an earlier handshake left open.  It closes it when the
\* server is a master, and as an error of the state machine when no connection is under way; "connect"
\* is that or a handshake before PSYNC.  Otherwise it acts on the state of the other socket.
LeftoverReply(s, tangled) ==
    /\ srv[s].leftover > 0 /\ srv[s].state # "tangled"
    /\ srv[s].state = "none" => ~tangled
    /\ srv[s].state \in {"handshake", "transfer", "connected"} => tangled
    /\ Apply(IF tangled THEN Tangle(Sys, s) ELSE [Sys EXCEPT !.srv[s].leftover = @ - 1])
    /\ UNCHANGED <<waiters, lied, writes, upcoming>>

\* A server is restarted, and loads what it had saved.
Restart(n, saved) ==
    LET r == srv[n]
    IN  /\ Event("restart")
        /\ Apply([DisconnectSlaves(Sys, n) EXCEPT
              !.wire[n] = <<>>,
              !.srv[n] = [r EXCEPT !.data = SubSeq(@, 1, saved), !.run[2] = @ + 1, !.off = 0,
                            !.backlog = NoBacklog, !.child = NoChild, !.cached = NoCache, !.leftover = 0,
                            !.state = IF r.master = Nobody THEN "none" ELSE "connect"]])
        /\ waiters' = WaitersElsewhere(n)
        /\ UNCHANGED <<lied, writes>>

\* REPLCONF ACK from slave s; beforeSleep then looks at the clients that wait.
Ack(s) ==
    LET n == srv[s].master
        l == link[n][s]
        acked == [Sys EXCEPT !.link[n][s].ack = IF srv[s].reploff > @ THEN srv[s].reploff ELSE @]
        y == IF l.state = "online" /\ l.hold THEN PutSlaveOnline(acked, n, s) ELSE acked
        p == ProcessClientsWaitingReplicas(y, WaitersOf(n))
    IN  /\ srv[s].state = "connected" /\ l.state # "none"
        /\ Apply(y)
        /\ waiters' = WaitersElsewhere(n) \o p.left
        /\ lied' = (lied \/ p.lied)
        /\ UNCHANGED <<writes, upcoming>>

\* WAIT by the client whose write was the last: answered at once, or the client is blocked.
WaitCommand(n, num) ==
    LET w == [server |-> n, off |-> srv[n].off, num |-> num, data |-> srv[n].data]
        k == CountAcksByOffset(Sys, n, w.off)
    IN  /\ srv[n].master = Nobody /\ srv[n].data # <<>> /\ waiters = <<>> /\ Event("wait")
        /\ IF k >= num
           THEN lied' = (lied \/ Overstated(Sys, w, k)) /\ UNCHANGED waiters
           ELSE waiters' = Append(waiters, w) /\ UNCHANGED lied
        /\ UNCHANGED <<srv, link, wire, held, writes>>

ReplicationNext ==
    \/ \E n \in Servers : Write(n) \/ PingSlaves(n) \/ Bgsave(n) \/ CronFreesBacklog(n)
    \/ \E n \in Servers : Receive(n) \/ LoseMaster(n) \/ PsyncRefused(n) \/ Ack(n) \/ SlaveofNoOne(n)
    \/ \E n \in Servers, tangled \in BOOLEAN : LeftoverReply(n, tangled)
    \/ \E n \in Servers, target \in {"disk", "socket", "later", "failed"} : Psync(n, target)
    \/ \E n, s \in Servers : FreeSlave(n, s) \/ BulkSent(n, s) \/ Slaveof(n, s)
    \/ \E n \in Servers, ok \in BOOLEAN, target \in {"disk", "socket", "failed"} : BgsaveDone(n, ok, target)
    \/ \E n \in Servers, target \in {"disk", "socket", "failed"} : CronStartsBgsave(n, target)
    \/ \E n \in Servers, size \in BacklogSizes : ResizeReplicationBacklog(n, size)
    \/ \E n \in Servers : \E k \in {0, Len(srv[n].data)} : Restart(n, k)
    \/ \E n \in Servers, num \in Waits : WaitCommand(n, num)

ReplicationSpec == ReplicationInit /\ [][ReplicationNext]_rvars

-----------------------------------------------------------------------------
(* What is promised.                                                       *)

Offsets == -1..(MaxWrites + 5)

\* The states are those of the code, and the backlog's indexes stay in its buffer.
ReplicationTypeOK ==
    /\ \A n \in Servers :
        /\ srv[n].state \in {"none", "connect", "handshake", "transfer", "connected", "tangled"}
        /\ srv[n].leftover \in Nat
        /\ (srv[n].state = "none") = (srv[n].master = Nobody)
        /\ srv[n].off \in Offsets /\ srv[n].reploff \in Offsets
        /\ srv[n].backlog.on => /\ srv[n].backlog.idx \in 0..(srv[n].size - 1)
                                /\ srv[n].backlog.histlen \in 0..srv[n].size
    /\ \A n, s \in Servers : link[n][s].state \in {"none", "start", "end", "bulk", "online"}
    /\ \A i \in 1..Len(waiters) : waiters[i].server \in Servers

Ops(data) == SelectSeq(data, LAMBDA op : op # 0)

\* What slave s holds, and its offset, once everything sent to it has been processed.
Eventually(n, s) ==
    LET Step(a, m) ==
            CASE m.kind = "fullresync" -> [a EXCEPT !.off = m.off]
              [] m.kind = "rdb" -> [a EXCEPT !.data = m.data]
              [] m.kind = "continue" -> [a EXCEPT !.off = srv[s].cached.off]
              [] m.kind = "command" -> [data |-> a.data \o Ops(m.data), off |-> a.off + 1]
        now == [data |-> srv[s].data,
                off |-> IF srv[s].state = "connected" THEN srv[s].reploff ELSE srv[s].init]
        got == FoldLeft(Step, now, wire[s])
        saved == IF link[n][s].state = "end" THEN srv[n].child.snapshot ELSE got.data
    IN  [data |-> saved \o Ops(link[n][s].out), off |-> got.off + Len(link[n][s].out)]

\* s has a link with its master n, of which every step was followed: a tangled slave has none.
Attached(n, s) == link[n][s].state \in {"end", "bulk", "online"} /\ Alive(Sys, n, s)

\* A slave that is attached ends with exactly the writes of its master, in their order: no
\* resynchronisation, partial or full, loses or repeats one (PSYNC over a backlog that was
\* freed, resized or overrun, a BGSAVE that others attach to, a master that restarts).  What a
\* tangled slave ends with is not said: it may apply the stream twice (see AttemptsAborted).
ReplicaExact ==
    \A n, s \in Servers : Attached(n, s) => Eventually(n, s).data = srv[n].data

\* The offset of an attached slave names the same place of the stream as the offset of its
\* master.
OffsetsAgree ==
    \A n, s \in Servers : Attached(n, s) => Eventually(n, s).off = srv[n].off

\* "We can't have slaves attached and no backlog": the assertion of replicationFeedSlaves.
BacklogWithSlaves == \A n \in Servers : Slaves(Sys, n) # {} => srv[n].backlog.on

\* WAIT answers with a number of replicas only when so many hold the client's writes
\* (in replicationCountAcksByOffset and the shortcut of processClientsWaitingReplicas).
WaitHonest == ~lied
=============================================================================

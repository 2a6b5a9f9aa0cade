---------------------------- MODULE MCSystemParts ----------------------------
(***************************************************************************)
(* What keeps Redis servers going: replication, the move of a hash slot,   *)
(* the files on disk, and the event loop. The parts share no state here:   *)
(* the first state of a behaviour picks one, its actions follow, and the   *)
(* variables of the other parts stay Unused.                               *)
(***************************************************************************)
EXTENDS Replication, Resharding, Persistence, EventLoop

(* A master m with its slave s; t may be made a slave of either. *)
ServersMC == {"m", "s", "t"}
MayFollowMC == {<<"t", "m">>, <<"t", "s">>}
InitialMasterMC == [n \in ServersMC |-> IF n = "s" THEN "m" ELSE Nobody]
EventSetsMC ==
    {{"disconnect", "freebacklog"}, {"disconnect", "resize"}, {"restart", "slaveof"},
     {"promote", "slaveof", "bgsave"}, {"slaveof", "slaveof again"},
     {"disconnect", "childfails", "bgsave"}, {"slaveof", "wait"}, {"restart", "forkfails", "wait"}}

(* Which events may happen together with the writes. *)
SmallHappenings ==
    {{"rewrite", "error", "power"}, {"rewrite", "torn", "kill"}, {"rewrite", "bgsave", "child dies"},
     {"stop", "start", "child dies"}, {"rewrite", "start", "kill"}, {"bgsave", "flushall", "power"},
     {"bgsave", "save", "shutdown"}, {"rewrite", "stop", "shutdown"}}

-----------------------------------------------------------------------------

VARIABLE part

Unused == "unused"

NoReplication ==
    /\ srv = Unused /\ link = Unused /\ wire = Unused /\ waiters = Unused
    /\ lied = Unused /\ held = Unused /\ writes = Unused /\ upcoming = Unused
NoResharding ==
    /\ slotView = Unused /\ data = Unused /\ mover = Unused /\ mig = Unused
    /\ restores = Unused /\ request = Unused /\ truth = Unused /\ ghosts = Unused
NoPersistence ==
    /\ policy = Unused /\ mem = Unused /\ acked = Unused /\ disk = Unused
    /\ log = Unused /\ jobs = Unused /\ rw = Unused /\ rdb = Unused
    /\ todo = Unused
NoEventLoop ==
    /\ events = Unused /\ maxfd = Unused /\ setsize = Unused /\ timers = Unused
    /\ nextId = Unused /\ lastTime = Unused /\ now = Unused /\ at = Unused
    /\ alive = Unused /\ accepted = Unused /\ called = Unused /\ due = Unused

PartsInit ==
    \/ part = "replication" /\ ReplicationInit /\ NoResharding /\ NoPersistence /\ NoEventLoop
    \/ part = "resharding" /\ ReshardingInit /\ NoReplication /\ NoPersistence /\ NoEventLoop
    \/ part = "persistence" /\ PersistenceInit /\ NoReplication /\ NoResharding /\ NoEventLoop
    \/ part = "loop" /\ LoopInit /\ NoReplication /\ NoResharding /\ NoPersistence

PartsNext ==
    \/ part = "replication" /\ ReplicationNext /\ UNCHANGED <<part, xvars, pvars, lvars>>
    \/ part = "resharding" /\ ReshardingNext /\ UNCHANGED <<part, rvars, pvars, lvars>>
    \/ part = "persistence" /\ PersistenceNext /\ UNCHANGED <<part, rvars, xvars, lvars>>
    \/ part = "loop" /\ LoopNext /\ UNCHANGED <<part, rvars, xvars, pvars>>

PartsSpec == PartsInit /\ [][PartsNext]_<<part, rvars, xvars, pvars, lvars>>
-----------------------------------------------------------------------------
\* An attached slave ends with exactly the writes of its master, in order,
\* through partial and full resynchronisations, unless a socket of an earlier
\* handshake was read as the one of its link (AttemptsAborted). The offsets of
\* such a slave and of its master name the same place of the stream. A server with slaves
\* attached has a backlog, as replicationFeedSlaves asserts. WAIT counts only
\* replicas that hold the client's writes. The variables of Replication have
\* their types.
ReplicationSound == part = "replication" =>
    ReplicationTypeOK /\ ReplicaExact /\ OffsetsAgree /\ BacklogWithSlaves /\ WaitHonest

\* SLAVEOF "aborts a non blocking replication attempt if there is one in
\* progress" (cancelReplicationHandshake): no reply of an attempt that was given
\* up is taken for a reply to the one that followed it.
AttemptsAborted == part = "replication" =>
    \A s \in Servers : srv[s].state # "tangled"

\* The last acknowledged value of a key is on one of the two nodes through
\* every failure of MIGRATE. A client that follows the redirections reads the
\* last acknowledged value at every moment of the move. One node at a time
\* serves a key, and a client told to ask is served. The variables of
\* Resharding have their types.
ReshardingSound == part = "resharding" =>
    ReshardingTypeOK /\ NothingLost /\ ReadsCurrent /\ OneServer

\* The append only file and its buffer hold the data set through failed
\* flushes, rewrites and restarts. The pieces of a rewrite under way, child,
\* pipe and parent together, hold the data set. With appendfsync always, what
\* was acknowledged is on the disk. server.dirty counts at least the changes
\* that the RDB file lacks. The variables of Persistence have their types.
PersistenceSound == part = "persistence" =>
    PersistenceTypeOK /\ AofHoldsAll /\ RewriteHoldsAll /\ AlwaysDurable /\ DirtyCovers

\* No handler is called for a client that was freed, and a procedure is called
\* at most once per fired event: each unless aeProcessEvents went on, after a
\* handler moved the table, with what the freed table happens to hold. New
\* time events wait for the next pass. A pass over the time events
\* has called or deleted every event that was due at its start. The variables
\* of EventLoop have their types.
EventLoopSound == part = "loop" =>
    LoopTypeOK /\ LiveHandlersOnly /\ CalledOnce /\ PassComplete
=============================================================================

------------------------------ MODULE Cluster ------------------------------
(***************************************************************************)
(* Redis Cluster (cluster.c): the table of nodes and hash slots every node *)
(* keeps, how packets of the bus change it, failure detection, the         *)
(* election of a slave that replaces its master, manual failovers and the  *)
(* configuration file.                                                     *)
(*                                                                         *)
(* An event (a packet, the cron, a command) with the clusterBeforeSleep    *)
(* that follows it is one action.  PING, PONG, FAIL and UPDATE packets are *)
(* received when they are sent, or lost; vote requests and votes travel    *)
(* for any time (one that is lost never arrives). Timeouts, offsets and    *)
(* key counts are choices. The nodes know each other: no handshakes.       *)
(***************************************************************************)
EXTENDS Integers, FiniteSets

CONSTANTS Nodes, Slots, NoNode,
          Name,          \* the order of the node IDs
          MaxEpoch,      \* the type of the epochs
          Topologies     \* the clusters to start from, and their bounds:
                         \* maxEpoch, restarts, commands (how many, and
                         \* which: allowed), the nodes that can
                         \* be suspected (suspects), the nodes that are down
                         \* until an election is won (down), and the nodes
                         \* that cannot be reached from then on (away)

ASSUME ClusterAssumption ==
    /\ IsFiniteSet(Nodes) /\ Slots \subseteq Nat /\ IsFiniteSet(Slots)
    /\ NoNode \notin Nodes
    /\ Name \in [Nodes -> Nat]
    /\ \A n, m \in Nodes : Name[n] = Name[m] => n = m
    /\ MaxEpoch \in Nat

\* A cluster as redis-trib leaves it: its tables have their types, epochs do not
\* exceed the current one, and slaves own no slots.
ASSUME TopologiesAssumption ==
    \A t \in Topologies :
      /\ t.nodes \subseteq Nodes
      /\ t.maxEpoch \in 0..MaxEpoch /\ t.cur \in 0..t.maxEpoch
      /\ t.epoch \in [Nodes -> 0..t.cur]
      /\ t.of \in [Nodes -> Nodes \cup {NoNode}]
      /\ t.owner \in [Slots -> Nodes \cup {NoNode}]
      /\ \A n \in Nodes, s \in Slots : t.owner[s] = n => t.of[n] = NoNode

VARIABLES
    cl,        \* server.cluster of every node
    disk,      \* nodes.conf of every node
    net,       \* FAILOVER_AUTH_REQUEST and FAILOVER_AUTH_ACK packets
    top,       \* the topology this cluster started from
    budget,    \* restarts and commands used
    votes,     \* history: <<voter, epoch, slave>>
    wins,      \* history: <<slave, epoch>> of every election won
    forgotten, \* history: epochs with a vote that a restart made a master forget
    early,     \* history: epochs of elections begun with votes in the count
    assigned   \* history: <<node, epoch>> of every config epoch a node gave
               \* itself without an election

nodes == top.nodes

vars == <<cl, disk, net, top, budget, votes, wins, forgotten, early, assigned>>

Epochs == 0..MaxEpoch

\* The nodes that run and can be reached.
Up == nodes \ (IF wins = {} THEN top.down ELSE top.away)

\* clusterState with the clusterNode fields that matter, one per node.
View ==
    [cur: Epochs, lastVote: Epochs, epoch: [Nodes -> Epochs],
     of: [Nodes -> Nodes \cup {NoNode}],         \* slaveof
     flag: [Nodes -> {"ok", "pfail", "fail"}],
     reports: SUBSET (Nodes \X Nodes),           \* <<reporter, failing>>
     owner: [Slots -> Nodes \cup {NoNode}],
     importing: [Slots -> Nodes \cup {NoNode}],
     size: 0..Cardinality(Nodes),
     sent: BOOLEAN, count: Nat, auth_epoch: Epochs,
     mf: {"no", "wait", "offset", "start"},
     todo: SUBSET {"update", "save"}]

IsMaster(v, n) == v.of[n] = NoNode
SlotsOf(v, n) == {s \in Slots : v.owner[s] = n}
Todo(v, what) == [v EXCEPT !.todo = @ \cup what]

\* Mutant: half of the masters are enough.
QuorumHalf(v) == v.size \div 2

\* needed_quorum
Quorum(v) == v.size \div 2 + 1
-----------------------------------------------------------------------------
(* The configuration file *)

\* clusterSaveConfig: the nodes and "vars currentEpoch lastVoteEpoch".
Saved(v) ==
    [cur |-> v.cur, lastVote |-> v.lastVote, epoch |-> v.epoch, of |-> v.of,
     flag |-> v.flag, owner |-> v.owner, importing |-> v.importing]

\* clusterGetMaxEpoch
GetMaxEpoch(v) ==
    CHOOSE e \in {v.cur} \cup {v.epoch[n] : n \in Nodes} :
        v.cur <= e /\ \A n \in Nodes : v.epoch[n] <= e

\* clusterInit and clusterLoadConfig
Loaded(d) ==
    LET v == [cur |-> d.cur, lastVote |-> d.lastVote, epoch |-> d.epoch,
              of |-> d.of, flag |-> d.flag, reports |-> {}, owner |-> d.owner,
              importing |-> d.importing, size |-> 1, sent |-> FALSE,
              count |-> 0, auth_epoch |-> 0, mf |-> "no", todo |-> {}]
    IN [v EXCEPT !.cur = GetMaxEpoch(v)]

\* clusterUpdateState: the number of masters that serve slots.
UpdateState(v) ==
    [v EXCEPT !.size = Cardinality({n \in Nodes :
                          IsMaster(v, n) /\ SlotsOf(v, n) # {}})]

\* clusterBeforeSleep: v with what is to be done, and the file then.
Slept(v) ==
    [(IF "update" \in v.todo THEN UpdateState(v) ELSE v) EXCEPT !.todo = {}]
File(n, v) ==
    IF "save" \in v.todo THEN [disk EXCEPT ![n] = Saved(v)] ELSE disk
-----------------------------------------------------------------------------
(* Epochs and roles *)

\* clusterBumpConfigEpochWithoutConsensus
Bump(v, me) ==
    IF v.epoch[me] = 0 \/ v.epoch[me] # GetMaxEpoch(v)
    THEN Todo([v EXCEPT !.cur = @ + 1, !.epoch[me] = v.cur + 1], {"save"})
    ELSE v

\* Mutant: the greater node ID moves forward.
CollisionGreater(v, me, sender, cfg) ==
    IF /\ IsMaster(v, me) /\ IsMaster(v, sender)
       /\ cfg = v.epoch[me] /\ v.epoch[sender] = v.epoch[me]
       /\ Name[sender] < Name[me]
    THEN Todo([v EXCEPT !.cur = @ + 1, !.epoch[me] = v.cur + 1], {"save"})
    ELSE v

\* clusterHandleConfigEpochCollision: the smaller node ID moves forward.
Collision(v, me, sender, cfg) ==
    IF /\ IsMaster(v, me) /\ IsMaster(v, sender)
       /\ cfg = v.epoch[me] /\ v.epoch[sender] = v.epoch[me]
       /\ Name[sender] > Name[me]
    THEN Todo([v EXCEPT !.cur = @ + 1, !.epoch[me] = v.cur + 1], {"save"})
    ELSE v

\* clusterSetNodeAsMaster
SetNodeAsMaster(v, n) ==
    IF IsMaster(v, n) THEN v
    ELSE Todo([v EXCEPT !.of[n] = NoNode], {"save", "update"})

\* clusterSetMaster; a master closes its open slots.
SetMaster(v, me, n) ==
    [v EXCEPT !.of[me] = n, !.mf = "no",
              !.importing = IF IsMaster(v, me)
                            THEN [s \in Slots |-> NoNode] ELSE @]

\* Mutant: a node that lost a slot follows the new owner, whatever it keeps.
UpdateSlotsFollow(v, me, sender, cfg, slots) ==
    LET curmaster == IF IsMaster(v, me) THEN me ELSE v.of[me]
        taken == {s \in slots :
                    /\ v.owner[s] # sender
                    /\ v.importing[s] = NoNode
                    /\ v.owner[s] # NoNode => v.epoch[v.owner[s]] < cfg}
        v1 == [v EXCEPT !.owner = [s \in Slots |->
                                     IF s \in taken THEN sender ELSE @[s]]]
    IN IF sender = me \/ taken = {} THEN v
       ELSE Todo(IF \E s \in taken : v.owner[s] = curmaster
                 THEN SetMaster(v1, me, sender) ELSE v1, {"save", "update"})

\* clusterUpdateSlotsConfigWith: the slots claimed with a greater config epoch
\* change hands, and a node whose last slot (or whose master's) went away
\* becomes a replica of the new owner.
UpdateSlots(v, me, sender, cfg, slots) ==
    LET curmaster == IF IsMaster(v, me) THEN me ELSE v.of[me]
        taken == {s \in slots :
                    /\ v.owner[s] # sender
                    /\ v.importing[s] = NoNode
                    /\ v.owner[s] # NoNode => v.epoch[v.owner[s]] < cfg}
        v1 == [v EXCEPT !.owner = [s \in Slots |->
                                     IF s \in taken THEN sender ELSE @[s]]]
        left == \E s \in taken : v.owner[s] = curmaster
    IN IF sender = me \/ taken = {} THEN v
       ELSE Todo(IF left /\ SlotsOf(v1, curmaster) = {}
                 THEN SetMaster(v1, me, sender) ELSE v1, {"save", "update"})

\* clusterFailoverReplaceYourMaster
ReplaceYourMaster(v, me) ==
    LET v1 == [SetNodeAsMaster(v, me) EXCEPT
                 !.owner = [s \in Slots |-> IF @[s] = v.of[me] THEN me ELSE @[s]],
                 !.mf = "no"]
    IN IF IsMaster(v, me) THEN v ELSE Todo(v1, {"save", "update"})
-----------------------------------------------------------------------------
(* Failure detection *)

\* markNodeAsFailingIfNeeded: enough masters agree; expired reports are gone.
Failing(v, me, n, expired) ==
    LET agree == Cardinality({r \in v.reports \ expired : r[2] = n})
                   + (IF IsMaster(v, me) THEN 1 ELSE 0)
    IN v.flag[n] = "pfail" /\ agree >= Quorum(v)

\* A node is flagged FAIL, by agreement or by a FAIL packet.
Failed(v, n) ==
    Todo([v EXCEPT !.flag[n] = "fail"], {"save", "update"})

\* clearNodeFailureIfNeeded and the reversal of PFAIL, when a PONG of n is
\* received.  old: the FAIL flag is old enough for a master to keep its slots.
Reachable(v, n, old) ==
    IF \/ v.flag[n] = "pfail"
       \/ v.flag[n] = "fail" /\ (old \/ ~IsMaster(v, n) \/ SlotsOf(v, n) = {})
    THEN Todo([v EXCEPT !.flag[n] = "ok"], {"save", "update"})
    ELSE v

\* clusterProcessGossipSection on what a sender says of node g.
Gossip(v, me, sender, g, flag) ==
    IF ~IsMaster(v, sender) \/ g = me THEN v
    ELSE [v EXCEPT !.reports = IF flag = "ok" THEN @ \ {<<sender, g>>}
                               ELSE @ \cup {<<sender, g>>}]
-----------------------------------------------------------------------------
(* Packets *)

\* A slave speaks for its master.
Speaker(v, n) == IF IsMaster(v, n) THEN n ELSE v.of[n]

\* clusterBuildMessageHdr
Header(n) ==
    LET v == cl[n]
        master == Speaker(v, n)
    IN [from |-> n, cur |-> v.cur, cfg |-> v.epoch[master],
        slots |-> SlotsOf(v, master), of |-> v.of[n],
        paused |-> IsMaster(v, n) /\ v.mf # "no"]

\* Mutant: the current epoch of the sender is not adopted.
SeeHeaderKeepsEpoch(v, me, h) ==
    LET v1 == [v EXCEPT !.mf = IF @ = "wait" /\ v.of[me] = h.from /\ h.paused
                               THEN "offset" ELSE @]
    IN IF h.cfg > v.epoch[h.from]
       THEN Todo([v1 EXCEPT !.epoch[h.from] = h.cfg], {"save"}) ELSE v1

\* What clusterProcessPacket does of every packet of a known sender.
SeeHeader(v, me, h) ==
    LET v1 == [v EXCEPT
                 !.cur = IF h.cur > @ THEN h.cur ELSE @,
                 !.mf = IF @ = "wait" /\ v.of[me] = h.from /\ h.paused
                        THEN "offset" ELSE @]
    IN IF h.cfg > v.epoch[h.from]
       THEN Todo([v1 EXCEPT !.epoch[h.from] = h.cfg], {"save"}) ELSE v1

\* The role switch of the sender of a PING or PONG.
SeeRole(v, h) ==
    LET n == h.from
    IN IF h.of = NoNode THEN SetNodeAsMaster(v, n)
       ELSE IF IsMaster(v, n)
       THEN Todo([v EXCEPT !.of[n] = h.of,
                           !.owner = [s \in Slots |-> IF @[s] = n THEN NoNode
                                                      ELSE @[s]]],
                 {"save", "update"})
       ELSE IF v.of[n] # h.of THEN Todo([v EXCEPT !.of[n] = h.of], {"save"})
       ELSE v

\* The slots of the sender, when they are not those known here.
SeeSlots(v, me, h) ==
    IF IsMaster(v, h.from) /\ SlotsOf(v, h.from) # h.slots
    THEN UpdateSlots(v, me, h.from, h.cfg, h.slots) ELSE v

\* A PING or PONG: header, flags, role, slots and collisions, in this order.
SeeFlags(v, n, pong, old) == IF pong THEN Reachable(v, n, old) ELSE v
SeePing(v, me, h, pong, old) ==
    Collision(SeeSlots(SeeRole(SeeFlags(SeeHeader(v, me, h), h.from, pong, old), h), me, h),
              me, h.from, h.cfg)

\* The owners of slots a sender claims with an outdated config epoch: it is
\* told of the owner of the first such slot.
Outdated(v, h) ==
    LET stale == {s \in h.slots :
                    /\ v.owner[s] \notin {h.from, NoNode}
                    /\ v.epoch[v.owner[s]] > h.cfg}
    IN {v.owner[s] : s \in {x \in stale : \A y \in stale : x <= y}}

\* An UPDATE packet about node n.
SeeUpdate(v, me, n, cfg, slots) ==
    IF v.epoch[n] >= cfg THEN v
    ELSE UpdateSlots(Todo([SetNodeAsMaster(v, n) EXCEPT !.epoch[n] = cfg],
                          {"save"}), me, n, cfg, slots)

\* Mutant: the epoch of the last vote is not looked at.
MayVoteAgain(v, me, req, late) ==
    /\ IsMaster(v, me) /\ SlotsOf(v, me) # {}
    /\ req.cur >= v.cur
    /\ ~IsMaster(v, req.from)
    /\ v.flag[v.of[req.from]] = "fail" \/ req.force
    /\ late
    /\ \A s \in req.slots : v.owner[s] # NoNode => v.epoch[v.owner[s]] <= req.cfg

\* clusterSendFailoverAuthIfNeeded: may this node vote?  late: two timeouts
\* have passed since its last vote about that master.
MayVote(v, me, req, late) ==
    /\ IsMaster(v, me) /\ SlotsOf(v, me) # {}
    /\ req.cur >= v.cur
    /\ v.lastVote # v.cur
    /\ ~IsMaster(v, req.from)
    /\ v.flag[v.of[req.from]] = "fail" \/ req.force
    /\ late
    /\ \A s \in req.slots : v.owner[s] # NoNode => v.epoch[v.owner[s]] <= req.cfg
-----------------------------------------------------------------------------
(* Actions of a node *)

\* The state of n becomes v once it has slept.
Becomes(n, v) ==
    /\ cl' = [cl EXCEPT ![n] = Slept(v)]
    /\ disk' = File(n, v)

\* The UPDATE packet t (in state v) sends about o, as n sees it.
Updated(n, t, o, v) ==
    SeeUpdate(SeeHeader(cl[n], n, [from |-> t, cur |-> v.cur, paused |-> FALSE,
                                   cfg |-> v.epoch[Speaker(v, t)]]),
              n, o, v.epoch[o], SlotsOf(v, o))

BothBecome(t, v, n, u) ==
    /\ cl' = [cl EXCEPT ![t] = Slept(v), ![n] = Slept(u)]
    /\ disk' = [disk EXCEPT ![t] = IF "save" \in v.todo THEN Saved(v) ELSE @,
                            ![n] = IF "save" \in u.todo THEN Saved(u) ELSE @]

\* Node t may have given itself the config epoch it has in v.
Taken(t, v) ==
    IF v.epoch[t] # cl[t].epoch[t] THEN assigned \cup {<<t, v.epoch[t]>>} ELSE assigned

\* A PING or PONG of n is processed by t, which may answer with an UPDATE.
\* g is the node whose gossip changes something (n: none); a PONG of a node
\* that is not suspected is as a PING.
Ping(n, t) ==
    \E pong \in IF cl[t].flag[n] = "ok" THEN {FALSE} ELSE BOOLEAN :
    \E old \in IF pong /\ cl[t].flag[n] = "fail" THEN BOOLEAN ELSE {FALSE} :
    \E v0 \in {SeePing(cl[t], t, Header(n), pong, old)} :
    \E g \in {n} \cup {x \in nodes : \/ cl[n].flag[x] # "ok"
                                  \/ <<n, x>> \in cl[t].reports} :
    \E v \in {Gossip(v0, t, n, g, cl[n].flag[g])} :
      /\ v.cur <= top.maxEpoch
      /\ ~Failing(v, t, g, {})
      /\ \/ Becomes(t, v)
         \/ \E o \in Outdated(v0, Header(n)) : BothBecome(t, v, n, Updated(n, t, o, v))
      /\ assigned' = Taken(t, v0)
      /\ UNCHANGED <<net, top, budget, votes, wins, forgotten, early>>

\* The gossip that completes the agreement: t flags g as failing and, if it
\* is a master, tells the nodes it can reach.
MarkFailing(n, t, g) ==
    /\ cl[n].flag[g] # "ok" /\ cl[t].flag[g] = "pfail"
    /\ \E v \in {Gossip(SeePing(cl[t], t, Header(n), FALSE, FALSE), t, n, g, cl[n].flag[g])} :
       \E f \in {Failed(v, g)} :
       /\ v.cur <= top.maxEpoch
       /\ IsMaster(v, n) /\ Failing(v, t, g, {})
       /\ \E told \in SUBSET {x \in Up \ {t, g} : IsMaster(f, t) /\ cl[x].flag[g] # "fail"} :
            /\ cl' = [x \in Nodes |-> IF x = t THEN Slept(f)
                        ELSE IF x \in told THEN Slept(Failed(cl[x], g)) ELSE cl[x]]
            /\ disk' = [x \in Nodes |-> IF x = t THEN Saved(f)
                          ELSE IF x \in told THEN Saved(Failed(cl[x], g)) ELSE disk[x]]
       /\ assigned' = Taken(t, v)
       /\ UNCHANGED <<net, top, budget, votes, wins, forgotten, early>>

\* clusterCron: no PONG of t for the node timeout.
Timeout(n, t) ==
    /\ cl[n].flag[t] = "ok" /\ t \in top.suspects
    /\ cl' = [cl EXCEPT ![n] = UpdateState([@ EXCEPT !.flag[t] = "pfail"])]
    /\ UNCHANGED <<disk, net, top, budget, votes, wins, forgotten, early, assigned>>

\* Mutant: an election does not start a new epoch.
HandleSlaveFailoverSameEpoch(v, me, when) ==
    IF \/ IsMaster(v, me)
       \/ v.flag[v.of[me]] # "fail" /\ v.mf # "start"
       \/ SlotsOf(v, v.of[me]) = {}
       \/ when = "wait"
    THEN v
    ELSE
    CASE when = "retry" -> [v EXCEPT !.count = 0, !.sent = FALSE]
      [] when = "due" /\ ~v.sent ->
           Todo([v EXCEPT !.auth_epoch = v.cur, !.sent = TRUE],
                {"save", "update"})
      [] when = "due" /\ v.sent /\ v.count >= Quorum(v) ->
           ReplaceYourMaster([v EXCEPT !.epoch[me] =
               IF @ < v.auth_epoch THEN v.auth_epoch ELSE @], me)
      [] OTHER -> v

\* clusterHandleSlaveFailover, at a time when a new attempt is due ("retry"),
\* or this one runs ("due") or is not yet started or too old ("wait").
HandleSlaveFailover(v, me, when) ==
    IF \/ IsMaster(v, me)
       \/ v.flag[v.of[me]] # "fail" /\ v.mf # "start"
       \/ SlotsOf(v, v.of[me]) = {}
       \/ when = "wait"
    THEN v
    ELSE
    CASE when = "retry" -> [v EXCEPT !.count = 0, !.sent = FALSE]
      [] when = "due" /\ ~v.sent ->
           Todo([v EXCEPT !.cur = @ + 1, !.auth_epoch = v.cur + 1, !.sent = TRUE],
                {"save", "update"})
      [] when = "due" /\ v.sent /\ v.count >= Quorum(v) ->
           ReplaceYourMaster([v EXCEPT !.epoch[me] =
               IF @ < v.auth_epoch THEN v.auth_epoch ELSE @], me)
      [] OTHER -> v

\* The requests clusterRequestFailoverAuth broadcasts when v asks for votes.
Requests(n, v) ==
    {[type |-> "request", from |-> n, to |-> t, cur |-> v.cur,
      cfg |-> v.epoch[v.of[n]], slots |-> SlotsOf(v, v.of[n]),
      force |-> v.mf # "no"] : t \in nodes \ {n}}

\* An election that begins when votes have been counted already.
Begun(v0, v) ==
    IF v.sent /\ ~v0.sent /\ v.count # 0 THEN early \cup {v.auth_epoch} ELSE early

\* The rest of an event of slave n that ran HandleSlaveFailover on v0.
Attempt(n, v0, when) ==
    \E v \in {HandleSlaveFailover(v0, n, when)} :
       /\ v.cur <= top.maxEpoch
       /\ Becomes(n, v)
       /\ net' = IF v.sent /\ ~v0.sent THEN net \cup Requests(n, v) ELSE net
       /\ wins' = IF IsMaster(v, n) /\ ~IsMaster(v0, n)
                  THEN wins \cup {<<n, v.auth_epoch>>} ELSE wins
       /\ early' = Begun(v0, v)

\* The part of clusterCron a slave runs: the manual failover times out or
\* goes on when its offset has caught up, then the automatic one.
Cron(n) ==
    /\ ~IsMaster(cl[n], n)
    /\ \E when \in {"retry", "due"} :
       \E mf \in IF cl[n].mf = "no" THEN {"keep"} ELSE {"late", "caught up", "keep"} :
         LET v == [cl[n] EXCEPT
                     !.mf = IF mf = "late" THEN "no"
                            ELSE IF mf = "caught up" /\ @ = "offset"
                            THEN "start" ELSE @]
         IN Attempt(n, UpdateState(v), when)
    /\ UNCHANGED <<top, budget, votes, forgotten, assigned>>

\* clusterCron of a master: a manual failover times out, the size is updated.
MasterCron(n) ==
    /\ IsMaster(cl[n], n)
    /\ \E late \in IF cl[n].mf = "no" THEN {FALSE} ELSE BOOLEAN :
         cl' = [cl EXCEPT ![n] = UpdateState(IF late THEN [@ EXCEPT !.mf = "no"]
                                             ELSE @)]
    /\ UNCHANGED <<disk, net, top, budget, votes, wins, forgotten, early, assigned>>

\* A FAILOVER_AUTH_REQUEST arrives.  A vote does not ask for the configuration
\* to be saved, so that it is on disk only when something else does.
Vote(m) ==
    /\ m.type = "request"
    /\ \E v \in {SeeHeader(cl[m.to], m.to, [from |-> m.from, cur |-> m.cur,
                                            cfg |-> m.cfg, paused |-> FALSE])} :
       \/ /\ \E late \in BOOLEAN : ~MayVote(v, m.to, m, late)
          /\ Becomes(m.to, v)
          /\ net' = net \ {m}
          /\ UNCHANGED votes
       \/ /\ MayVote(v, m.to, m, TRUE)
          /\ Becomes(m.to, [v EXCEPT !.lastVote = v.cur])
          /\ net' = (net \ {m}) \cup
                       {[type |-> "ack", from |-> m.to, to |-> m.from, cur |-> v.cur,
                         cfg |-> v.epoch[m.to], epoch |-> v.cur]}
          /\ votes' = votes \cup {<<m.to, v.cur, m.from>>}
    /\ UNCHANGED <<top, budget, wins, forgotten, early, assigned>>

\* A FAILOVER_AUTH_ACK arrives: it counts when it is not older than the
\* election; clusterBeforeSleep then runs the failover.
Valid(v, m) ==
    IsMaster(v, m.from) /\ SlotsOf(v, m.from) # {} /\ m.cur >= v.auth_epoch

Count(m) ==
    /\ m.type = "ack"
    /\ \E v \in {SeeHeader(cl[m.to], m.to, [from |-> m.from, cur |-> m.cur,
                                            cfg |-> m.cfg, paused |-> FALSE])} :
       \E when \in {"due", "wait"} :
       \E w \in {HandleSlaveFailover(IF Valid(v, m) THEN [v EXCEPT !.count = @ + 1] ELSE v,
                                     m.to, when)} :
         /\ w.cur <= top.maxEpoch
         /\ Becomes(m.to, w)
         /\ net' = (net \ {m}) \cup
                   (IF w.sent /\ ~v.sent THEN Requests(m.to, w) ELSE {})
         /\ wins' = IF IsMaster(w, m.to) /\ ~IsMaster(v, m.to)
                    THEN wins \cup {<<m.to, w.auth_epoch>>} ELSE wins
         /\ early' = Begun(v, w)
    /\ UNCHANGED <<top, budget, votes, forgotten, assigned>>

-----------------------------------------------------------------------------
(* Commands *)

Given(what) == budget.admin < top.commands /\ what \in top.allowed
Spend == budget' = [budget EXCEPT !.admin = @ + 1]

\* CLUSTER FAILOVER, through the master, which pauses its clients (lost: the
\* MFSTART packet does not arrive).
ManualFailover(n) ==
    LET m == cl[n].of[n]
    IN /\ Given("failover") /\ Spend
       /\ m # NoNode /\ cl[n].flag[m] # "fail"
       /\ \E lost \in BOOLEAN :
            LET told == {n} \cup {x \in {m} : ~lost /\ cl[m].of[n] = m}
            IN cl' = [x \in Nodes |-> IF x \in told THEN [cl[x] EXCEPT !.mf = "wait"]
                                      ELSE cl[x]]
       /\ UNCHANGED <<disk, net, top, votes, wins, forgotten, early, assigned>>

\* CLUSTER FAILOVER FORCE
ForceFailover(n) ==
    /\ Given("force") /\ Spend
    /\ ~IsMaster(cl[n], n)
    /\ cl' = [cl EXCEPT ![n].mf = "start"]
    /\ UNCHANGED <<disk, net, top, votes, wins, forgotten, early, assigned>>

\* CLUSTER FAILOVER TAKEOVER: a config epoch without an election.
Takeover(n) ==
    /\ Given("takeover") /\ Spend
    /\ ~IsMaster(cl[n], n)
    /\ \E v \in {ReplaceYourMaster(Bump(cl[n], n), n)} :
         /\ v.cur <= top.maxEpoch
         /\ Becomes(n, v)
         /\ assigned' = Taken(n, v)
    /\ UNCHANGED <<net, top, votes, wins, forgotten, early>>

\* CLUSTER SETSLOT s IMPORTING from.  As redis-trib does, SETSLOT is sent to
\* masters, names masters, and names the owner of the slot as its source.
SetSlotImporting(n, s, from) ==
    /\ Given("setslot") /\ Spend
    /\ IsMaster(cl[n], n) /\ IsMaster(cl[n], from)
    /\ cl[n].owner[s] = from
    /\ Becomes(n, Todo([cl[n] EXCEPT !.importing[s] = from], {"save", "update"}))
    /\ UNCHANGED <<net, top, votes, wins, forgotten, early, assigned>>

\* CLUSTER SETSLOT s NODE to, by a node that has no key left in a slot it gives
\* away.  The node that ends an import takes a new config epoch.
SetSlotNode(n, s, to) ==
    /\ Given("setslot") /\ Spend
    /\ IsMaster(cl[n], n) /\ IsMaster(cl[n], to) /\ cl[n].owner[s] # to
    /\ \E closes \in {to = n /\ cl[n].importing[s] # NoNode} :
       \E v \in {IF closes THEN [Bump(cl[n], n) EXCEPT !.importing[s] = NoNode] ELSE cl[n]} :
         /\ v.cur <= top.maxEpoch
         /\ Becomes(n, Todo([v EXCEPT !.owner[s] = to], {"save", "update"}))
         /\ assigned' = Taken(n, v)
    /\ UNCHANGED <<net, top, votes, wins, forgotten, early>>

\* A crash and a restart from nodes.conf.
Restart(n) ==
    /\ budget.restarts < top.restarts
    /\ budget' = [budget EXCEPT !.restarts = @ + 1]
    /\ cl' = [cl EXCEPT ![n] = Loaded(disk[n])]
    /\ net' = {m \in net : m.to # n}
    /\ forgotten' = forgotten \cup {e \in Epochs : disk[n].lastVote < e /\ e <= cl[n].lastVote}
    /\ UNCHANGED <<disk, top, votes, wins, early, assigned>>
-----------------------------------------------------------------------------
Init ==
    \E t \in Topologies :
      /\ top = t
      /\ disk = [n \in Nodes |->
           [cur |-> t.cur, lastVote |-> 0, epoch |-> t.epoch, of |-> t.of,
            flag |-> [x \in Nodes |-> "ok"], owner |-> t.owner,
            importing |-> [s \in Slots |-> NoNode]]]
      /\ cl = [n \in Nodes |-> UpdateState(Loaded(disk[n]))]
      /\ net = {} /\ budget = [restarts |-> 0, admin |-> 0]
      /\ votes = {} /\ wins = {}
      /\ forgotten = {} /\ early = {} /\ assigned = {}

Next ==
    \/ \E n \in Up :
         \/ Cron(n) \/ MasterCron(n)
         \/ ManualFailover(n) \/ ForceFailover(n) \/ Takeover(n) \/ Restart(n)
         \/ \E t \in Up \ {n} :
              \/ Ping(n, t)
              \/ \E g \in nodes \ {n, t} : MarkFailing(n, t, g)
              \/ \E s \in Slots : SetSlotImporting(n, s, t)
         \/ \E t \in nodes \ {n} : Timeout(n, t)
         \/ \E t \in nodes, s \in Slots : SetSlotNode(n, s, t)
    \/ \E m \in net : m.to \in Up /\ (Vote(m) \/ Count(m))

Spec == Init /\ [][Next]_vars
-----------------------------------------------------------------------------
(* Properties *)

\* The fields of every node stay in their types, and every epoch is bounded
\* by the current epoch of the node that stores it.
ClusterTypeOK ==
    \A n \in nodes : cl[n] \in View /\ GetMaxEpoch(cl[n]) = cl[n].cur

\* A master votes once in an epoch, unless a restart made it forget its vote.
OneVotePerEpoch ==
    \A v, w \in votes : v[1] = w[1] /\ v[2] = w[2] /\ v[2] \notin forgotten => v = w

\* Two slaves are not elected in the same epoch, unless a vote of that epoch
\* was forgotten, or one of the elections began with votes in its count.
OneWinnerPerEpoch ==
    \A v, w \in wins : v[2] = w[2] /\ v[2] \notin forgotten \cup early => v = w

\* An epoch has one vote of each master and one elected slave, with those two
\* exceptions (a vote is lost in a restart when nothing saved the configuration
\* since it was given; early elections are those of ElectedByVotes) and no
\* other: slow, lost and refused votes, takeovers, epochs nodes give themselves,
\* and views of the cluster that differ do not lead to a second one.
ElectionSafe == OneVotePerEpoch /\ OneWinnerPerEpoch

\* n and m both believe to own a slot, and no config epoch tells who keeps it.
Disputed(n, m) ==
    /\ n # m /\ cl[n].epoch[n] = cl[m].epoch[m]
    /\ \E s \in Slots : cl[n].owner[s] = n /\ cl[m].owner[s] = m

\* Two masters come to dispute a slot only if one of them gave itself that
\* epoch without an election, as a takeover, the end of an import and a collision
\* do, or was elected in an epoch OneWinnerPerEpoch leaves out; and the dispute
\* is over, whatever that epoch, when the one with the smaller ID has processed
\* a PING or PONG of the other: it has given up the slot or moved forward.
ClaimsOrdered ==
    [][\A n, m \in nodes : Disputed(n, m)' =>
         /\ \/ {<<n, cl'[n].epoch[n]>>, <<m, cl'[n].epoch[n]>>} \cap assigned' # {}
            \/ cl'[n].epoch[n] \in forgotten' \cup early'
         /\ ~(Name[n] < Name[m] /\ Ping(m, n))]_vars

\* A slave is elected by votes of the epoch of its election: "the slaves need
\* to get voted by a majority" (clusterHandleConfigEpochCollision, BACKGROUND).
ElectedByVotes ==
    \A w \in wins : \E v \in votes : v[2] = w[2] /\ v[3] = w[1]

\* clusterSetMaster asserts that a node it makes a slave owns no slot.
SlaveOwnsNothing ==
    \A n \in nodes : ~IsMaster(cl[n], n) => SlotsOf(cl[n], n) = {}
=============================================================================

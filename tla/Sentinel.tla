------------------------------ MODULE Sentinel ------------------------------
(***************************************************************************)
(* Redis Sentinel (sentinel.c): processes that watch one master and its    *)
(* replicas, agree that the master is down, elect one of themselves to     *)
(* fail it over and publish the address of the promoted replica.           *)
(*                                                                         *)
(* A sentinel is a single-threaded event loop: sentinelTimer is one action *)
(* and every command or callback (a request for a vote, the reply to one,  *)
(* a hello message, an INFO reply) another.  Between them messages are in  *)
(* flight: what a request, a reply or a hello says is what its sender knew *)
(* when it was sent.                                                       *)
(* Times are abstracted to choices: whether a period has elapsed, a link   *)
(* is connected or a replica is good enough is chosen where the code tests *)
(* it.  TILT mode is such a choice too: a tick in TILT only monitors.      *)
(***************************************************************************)
EXTENDS Integers, FiniteSets

CONSTANTS Sentinels,     \* the sentinel processes (their ip:port)
          Instances,     \* the Redis servers (their ip:port)
          FirstMaster,   \* the server configured with "sentinel monitor"
          Priority,      \* slave-priority of every server, 0 = never promoted
          Quorum,        \* the quorum of "sentinel monitor"
          ParallelSyncs, \* parallel-syncs
          NoOne,         \* NULL
          MaxEpoch,      \* bound on current_epoch
          MaxFaults,     \* bound on the restarts, RESET and FAILOVER commands together
          Limits         \* the bounds of one behaviour

\* server.runid is drawn anew whenever the process starts.
Runids == Sentinels \X (0..MaxFaults)

ASSUME SentinelAssumption ==
    /\ IsFiniteSet(Sentinels) /\ IsFiniteSet(Instances)
    /\ FirstMaster \in Instances
    /\ Priority \in [Instances -> Nat]
    /\ Quorum \in Nat \ {0} /\ ParallelSyncs \in Nat \ {0}
    /\ MaxEpoch \in Nat /\ MaxFaults \in Nat
    /\ Limits \subseteq [epochs: 0..MaxEpoch, faults: 0..MaxFaults, asks: Nat,
                        hellos: Nat, slaveofs: Nat, calm: BOOLEAN,
                        starters: [1..MaxEpoch -> SUBSET Sentinels],
                        publishers: SUBSET Sentinels]
    /\ NoOne \notin Sentinels \cup Instances \cup Runids

VARIABLES
    snt,      \* the memory of every sentinel
    disk,     \* what sentinelFlushConfig last wrote
    inst,     \* the master every server replicates from, NoOne for a master
    slaveof,  \* the SLAVEOF transactions sent: <<sentinel, server, master>>
    requests, \* SENTINEL is-master-down-by-addr, sent and not yet executed
    replies,  \* the replies to it, not yet read
    hellos,   \* the hello messages published that can still be received
    limit,    \* the bounds of this behaviour: how many epochs, faults, requests
              \* and replies, hellos and SLAVEOFs in flight; which sentinels
              \* start the failover of an epoch (the others wait, as their
              \* failover_start_time makes them), ask their peers before and
              \* during it, and publish hellos; calm: the master stays
              \* silent, no TILT, and no answer grows too old
    faults,   \* how many restarts, RESET and FAILOVER commands there were
    votes,    \* history: <<sentinel, epoch, runid>> of every vote
    wins,     \* history: <<sentinel, epoch>> of every election won
    touched   \* history: epochs ElectionSafe and ConfigAgreement leave out,
              \* for one of four reasons (see there)

net == <<requests, replies, hellos>>
vars == <<snt, disk, inst, slaveof, net, limit, faults, votes, wins,
          touched>>

NONE == 0            \* SENTINEL_FAILOVER_STATE_...
WAIT_START == 1
SELECT_SLAVE == 2
SEND_SLAVEOF_NOONE == 3
WAIT_PROMOTION == 4
RECONF_SLAVES == 5
UPDATE_CONFIG == 6
States == NONE..UPDATE_CONFIG

MasterFlags == {"S_DOWN", "O_DOWN", "FAILOVER_IN_PROGRESS", "FORCE_FAILOVER"}
SlaveFlags == {"PROMOTED", "RECONF_SENT", "RECONF_INPROG", "RECONF_DONE"}

\* The part of sentinelRedisInstance a sentinel in master->sentinels uses.
Peers == [runid: Runids, down: BOOLEAN, leader: Runids \cup {NoOne},
          leader_epoch: 0..MaxEpoch]

NewPeer(runid) ==
    [runid |-> runid, down |-> FALSE, leader |-> NoOne, leader_epoch |-> 0]

\* master->slaves and master->sentinels
SlaveMaps == UNION {[S -> SUBSET SlaveFlags] : S \in SUBSET Instances}
PeerMaps == UNION {[S -> Peers] : S \in SUBSET Sentinels}

Memory ==
    [run: 0..MaxFaults, current_epoch: 0..MaxEpoch,
     config_epoch: 0..MaxEpoch, addr: Instances,
     leader: Runids \cup {NoOne}, leader_epoch: 0..MaxEpoch,
     failover_epoch: 0..MaxEpoch, state: States,
     flags: SUBSET MasterFlags, promoted: Instances \cup {NoOne},
     slaves: SlaveMaps, sentinels: PeerMaps]

Runid(s) == <<s, snt[s].run>>

\* Whether something happens: in a calm behaviour it is what it mostly is.
Happens(mostly) == IF limit.calm THEN {mostly} ELSE BOOLEAN

\* What a request asks: about the master at addr, for a vote when it names a
\* candidate.  The sentinel that sent it is forgotten with its connection.
Requests == [from: Sentinels \cup {NoOne}, to: Sentinels, addr: Instances,
             epoch: 0..MaxEpoch, runid: Runids \cup {NoOne}]
Replies == [from: Sentinels, to: Sentinels, down: BOOLEAN,
            leader: Runids \cup {NoOne}, leader_epoch: 0..MaxEpoch]
Hellos == [from: Runids, current_epoch: 0..MaxEpoch, addr: Instances,
           config_epoch: 0..MaxEpoch]
-----------------------------------------------------------------------------
(* The configuration file *)

\* sentinelGetCurrentMasterAddress: the promoted slave once it acknowledged.
CurrentMaster(r) ==
    IF /\ "FAILOVER_IN_PROGRESS" \in r.flags
       /\ r.promoted # NoOne
       /\ r.state >= RECONF_SLAVES
    THEN r.promoted ELSE r.addr

\* Mutant: the address written is that of the old master during a failover.
SavedOldAddress(r) ==
    [current_epoch |-> r.current_epoch, config_epoch |-> r.config_epoch,
     leader_epoch |-> r.leader_epoch, addr |-> r.addr,
     slaves |-> DOMAIN r.slaves,
     sentinels |-> [t \in DOMAIN r.sentinels |-> r.sentinels[t].runid]]

\* rewriteConfigSentinelOption: the lines that retain state across restarts.
\* A known slave that became the current master is written as the old one.
Saved(r) ==
    LET cur == CurrentMaster(r)
    IN [current_epoch |-> r.current_epoch, config_epoch |-> r.config_epoch,
        leader_epoch |-> r.leader_epoch, addr |-> cur,
        slaves |-> {IF i = cur THEN r.addr ELSE i : i \in DOMAIN r.slaves},
        sentinels |-> [t \in DOMAIN r.sentinels |-> r.sentinels[t].runid]]

\* sentinelHandleConfiguration on those lines, into createSentinelRedisInstance.
Loaded(d, run) ==
    [run |-> run,
     current_epoch |-> IF d.config_epoch > d.current_epoch
                       THEN d.config_epoch ELSE d.current_epoch,
     config_epoch |-> d.config_epoch, addr |-> d.addr,
     leader |-> NoOne, leader_epoch |-> d.leader_epoch, failover_epoch |-> 0,
     state |-> NONE, flags |-> {}, promoted |-> NoOne,
     slaves |-> [i \in d.slaves |-> {}],
     sentinels |-> [t \in DOMAIN d.sentinels |-> NewPeer(d.sentinels[t])]]

\* Mutant: the failover state survives a reset.
ResetKeepsState(r, keep) ==
    [r EXCEPT !.slaves = [i \in {} |-> {}],
              !.sentinels = IF keep THEN @ ELSE [t \in {} |-> NewPeer(NoOne)],
              !.flags = {}, !.leader = NoOne, !.promoted = NoOne]

\* sentinelResetMaster; keep = SENTINEL_RESET_NO_SENTINELS.
Reset(r, keep) ==
    [r EXCEPT !.slaves = [i \in {} |-> {}],
              !.sentinels = IF keep THEN @ ELSE [t \in {} |-> NewPeer(NoOne)],
              !.flags = {}, !.leader = NoOne, !.state = NONE, !.promoted = NoOne]

\* sentinelResetMasterAndChangeAddress: the old master is kept as a slave.
SwitchTo(r, addr) ==
    [Reset(r, TRUE) EXCEPT
        !.addr = addr,
        !.slaves = [i \in (DOMAIN r.slaves \cup {r.addr}) \ {addr} |-> {}]]
-----------------------------------------------------------------------------
(* The election *)

\* Mutant: a second vote in the epoch of the last one.
VoteLeaderAgain(r, epoch, runid) ==
    LET e == IF epoch > r.current_epoch THEN epoch ELSE r.current_epoch
    IN IF r.leader_epoch <= epoch /\ e <= epoch
       THEN [r EXCEPT !.current_epoch = e, !.leader = runid,
                      !.leader_epoch = e]
       ELSE [r EXCEPT !.current_epoch = e]

\* sentinelVoteLeader: the first vote of an epoch at least as new as every
\* epoch seen; the vote and a newer epoch are flushed before the answer.
VoteLeader(r, epoch, runid) ==
    LET e == IF epoch > r.current_epoch THEN epoch ELSE r.current_epoch
    IN IF r.leader_epoch < epoch /\ e <= epoch
       THEN [r EXCEPT !.current_epoch = e, !.leader = runid,
                      !.leader_epoch = e]
       ELSE [r EXCEPT !.current_epoch = e]

\* The votes sentinelGetLeader counts: those of the peers for the current
\* epoch, and its own when it is of the epoch of this failover.  The current
\* epoch can be ahead, so that votes of two epochs are added up.
VotesFor(r, epoch, runid) ==
    Cardinality({t \in DOMAIN r.sentinels :
                    /\ r.sentinels[t].leader = runid
                    /\ r.sentinels[t].leader_epoch = r.current_epoch})
      + (IF r.leader = runid /\ r.leader_epoch = epoch THEN 1 ELSE 0)

\* Whom sentinelGetLeader votes for: the peer candidate with the most votes,
\* or the sentinel itself when nobody has one.
Favourites(r, self) ==
    LET Count(c) == Cardinality({t \in DOMAIN r.sentinels :
                        /\ r.sentinels[t].leader = c
                        /\ r.sentinels[t].leader_epoch = r.current_epoch})
        Named == {c \in {r.sentinels[t].leader : t \in DOMAIN r.sentinels} :
                    c # NoOne /\ Count(c) > 0}
    IN IF Named = {} THEN {self}
       ELSE {c \in Named : \A d \in Named : Count(d) <= Count(c)}

\* Mutant: half of the sentinels elect a leader.
IsLeaderHalf(r, self) ==
    VotesFor(r, r.failover_epoch, self)
      >= (Cardinality(DOMAIN r.sentinels) + 1) \div 2

\* sentinelGetLeader after the vote: is this sentinel the winner?  It needs
\* the majority of the sentinels it knows and at least the quorum (no other
\* candidate can then have as many votes).
IsLeader(r, self) ==
    LET n == VotesFor(r, r.failover_epoch, self)
    IN /\ n >= (Cardinality(DOMAIN r.sentinels) + 1) \div 2 + 1
       /\ n >= Quorum

\* The winner knows all the other sentinels, and counted the votes of one epoch.
InOrder(r, self) ==
    /\ r.current_epoch = r.failover_epoch
    /\ DOMAIN r.sentinels = Sentinels \ {self}

\* sentinelAbortFailover
Abort(r) ==
    [r EXCEPT !.flags = @ \ {"FAILOVER_IN_PROGRESS", "FORCE_FAILOVER"},
              !.state = NONE, !.promoted = NoOne,
              !.slaves = [i \in DOMAIN @ |-> @[i] \ {"PROMOTED"}]]

\* sentinelStartFailover: a new epoch, which is not flushed.
StartFailover(r) ==
    [r EXCEPT !.state = WAIT_START, !.flags = @ \cup {"FAILOVER_IN_PROGRESS"},
              !.current_epoch = @ + 1, !.failover_epoch = r.current_epoch + 1]

\* compareSlavesForPromotion: the lowest priority wins; the replication offset
\* and the run ID that break a tie are left open.
Best(cands) ==
    {i \in cands : \A j \in cands : Priority[i] <= Priority[j]}

\* sentinelSelectSlave among the slaves that are connected, answering and fresh.
Selected(good) == Best({i \in good : Priority[i] # 0})
-----------------------------------------------------------------------------
(* The failover state machine: the possible outcomes of one call, each the  *)
(* new memory r, the SLAVEOF commands sent (server :> new master) and       *)
(* whether an election was won.                                             *)

Silent == [i \in {} |-> NoOne]
Outcome(r) == [r |-> r, cmd |-> Silent, won |-> FALSE]

\* sentinelFailoverWaitStart, with the vote of sentinelGetLeader
FailoverWaitStart(r, self, late) ==
    {LET v == VoteLeader(r, r.failover_epoch, c)
         led == IsLeader(v, self)
     IN [r |-> IF led \/ "FORCE_FAILOVER" \in v.flags
               THEN [v EXCEPT !.state = SELECT_SLAVE]
               ELSE IF late THEN Abort(v) ELSE v,
         cmd |-> Silent, won |-> led] : c \in Favourites(r, self)}

\* sentinelFailoverSelectSlave
FailoverSelectSlave(r, good) ==
    IF Selected(good) = {} THEN {Outcome(Abort(r))}
    ELSE {Outcome([r EXCEPT !.promoted = i, !.state = SEND_SLAVEOF_NOONE,
                            !.slaves[i] = @ \cup {"PROMOTED"}]) :
             i \in Selected(good)}

\* sentinelFailoverSendSlaveOfNoOne
FailoverSendSlaveOfNoOne(r, connected, late) ==
    {IF r.promoted \in connected
     THEN [r |-> [r EXCEPT !.state = WAIT_PROMOTION],
           cmd |-> [i \in {r.promoted} |-> NoOne], won |-> FALSE]
     ELSE Outcome(IF late THEN Abort(r) ELSE r)}

\* sentinelFailoverWaitPromotion
FailoverWaitPromotion(r, late) == {Outcome(IF late THEN Abort(r) ELSE r)}

\* The loop of sentinelFailoverReconfNextSlave: the slaves lost whose SLAVEOF
\* timed out count as done, the slaves sent are told of the new master.
ReconfNext(r, lost, sent) ==
    [r EXCEPT !.slaves = [i \in DOMAIN @ |->
        LET f == IF i \in lost THEN (@[i] \ {"RECONF_SENT"}) \cup {"RECONF_DONE"}
                 ELSE @[i]
        IN IF i \in sent THEN f \cup {"RECONF_SENT"} ELSE f]]

\* sentinelFailoverDetectEnd: late is the failover timeout, down the slaves
\* in S_DOWN.  On a timeout SLAVEOF goes to every connected slave that is not
\* reconfigured, the promoted one included.
DetectEnd(r, sent, connected, down, late) ==
    LET rest == {i \in DOMAIN r.slaves :
                   /\ r.slaves[i] \cap {"PROMOTED", "RECONF_DONE"} = {}
                   /\ i \notin down}
        late_sent == {i \in connected :
                        r.slaves[i] \cap {"RECONF_DONE", "RECONF_SENT"} = {}}
        all == sent \cup (IF late THEN late_sent ELSE {})
    IN IF r.promoted = NoOne \/ r.promoted \in down
       THEN [r |-> r, cmd |-> [i \in sent |-> r.promoted], won |-> FALSE]
       ELSE [r |-> IF late \/ rest = {}
                   THEN [r EXCEPT !.state = UPDATE_CONFIG] ELSE r,
             cmd |-> [i \in all |-> r.promoted], won |-> FALSE]

\* sentinelFailoverReconfNextSlave: no slave is looked at while as many
\* reconfigurations as parallel-syncs are in progress.
FailoverReconfNextSlave(r, connected, down, late) ==
    LET busy == {i \in DOMAIN r.slaves :
                   r.slaves[i] \cap {"RECONF_SENT", "RECONF_INPROG"} # {}}
        room == ParallelSyncs - Cardinality(busy)
        waiting == {i \in DOMAIN r.slaves :
                      r.slaves[i] \cap {"PROMOTED", "RECONF_DONE"} = {}}
    IN IF room <= 0 THEN {DetectEnd(r, {}, connected, down, late)}
       ELSE UNION {{DetectEnd(ReconfNext(r, lost, sent), sent, connected,
                              down, late) :
                      sent \in {x \in SUBSET (((waiting \ busy) \cup lost)
                                                \cap connected) :
                                  Cardinality(x) <= room}} :
                   lost \in SUBSET {i \in waiting :
                                      "RECONF_SENT" \in r.slaves[i]}}

\* sentinelFailoverStateMachine
StateMachine(r, self, connected, down, late) ==
    CASE "FAILOVER_IN_PROGRESS" \notin r.flags -> {Outcome(r)}
      [] r.state = WAIT_START -> FailoverWaitStart(r, self, late)
      [] r.state = SELECT_SLAVE -> FailoverSelectSlave(r, connected \ down)
      [] r.state = SEND_SLAVEOF_NOONE ->
            FailoverSendSlaveOfNoOne(r, connected, late)
      [] r.state = WAIT_PROMOTION -> FailoverWaitPromotion(r, late)
      [] r.state = RECONF_SLAVES ->
            FailoverReconfNextSlave(r, connected, down, late)
      [] OTHER -> {Outcome(r)}
-----------------------------------------------------------------------------
(* The actions of a sentinel *)

\* sentinelCheckSubjectivelyDown and sentinelCheckObjectivelyDown: silent says
\* that the master has not answered, or reports to be a slave, for too long.
CheckDown(r, silent) ==
    LET agree == {t \in DOMAIN r.sentinels : r.sentinels[t].down}
        odown == silent /\ 1 + Cardinality(agree) >= Quorum
    IN [r EXCEPT !.flags = (@ \ {"S_DOWN", "O_DOWN"})
                    \cup (IF silent THEN {"S_DOWN"} ELSE {})
                    \cup (IF odown THEN {"O_DOWN"} ELSE {})]

\* sentinelAskMasterStateToOtherSentinels forgets answers older than five
\* periods; the requests it sends are the action AskMasterState.
Forget(r, old) ==
    [r EXCEPT !.sentinels = [t \in DOMAIN @ |->
        IF t \in old THEN [@[t] EXCEPT !.down = FALSE, !.leader = NoOne]
        ELSE @[t]]]

\* The servers a SLAVEOF can be sent to: at most limit.slaveofs are in flight,
\* one on each link.
Free(s) ==
    {i \in Instances : /\ Cardinality(slaveof) < limit.slaveofs
                       /\ \A c \in slaveof : <<c[1], c[2]>> # <<s, i>>}

SendSlaveOf(s, cmd) ==
    slaveof' = slaveof \cup {<<s, i, cmd[i]>> : i \in DOMAIN cmd}

\* A vote is flushed as it is cast, and so is a newer epoch.
Flushed(s, before, after) ==
    IF <<before.leader_epoch, before.current_epoch>>
         # <<after.leader_epoch, after.current_epoch>>
    THEN [disk EXCEPT ![s] = Saved(after)] ELSE disk

VoteCast(s, before, after) ==
    IF <<before.leader, before.leader_epoch>>
         # <<after.leader, after.leader_epoch>>
    THEN votes \cup {<<s, after.leader_epoch, after.leader>>} ELSE votes

\* What the state machine looks at: the links of the slaves, whether they are
\* in S_DOWN, and (Answered) the peers whose answers can grow too old.
Linked(r) == IF r.state >= SELECT_SLAVE THEN DOMAIN r.slaves ELSE {}
Watched(r) == IF r.state = RECONF_SLAVES THEN DOMAIN r.slaves ELSE {}
Answered(r) == {t \in DOMAIN r.sentinels :
                   r.sentinels[t].down \/ r.sentinels[t].leader # NoOne}

\* sentinelHandleRedisInstance on the master, and
\* sentinelFailoverSwitchToPromotedSlave when the failover ended: elapsed is
\* the failover timeout, old the peers whose answers are forgotten.
Tick(s, silent, elapsed, connected, down, old) ==
    LET r1 == CheckDown(snt[s], silent)
        start == /\ "O_DOWN" \in r1.flags
                 /\ "FAILOVER_IN_PROGRESS" \notin r1.flags
                 /\ elapsed
        r2 == IF start THEN StartFailover(r1) ELSE r1
    IN /\ start => /\ r1.current_epoch < limit.epochs
                    /\ s \in limit.starters[r1.current_epoch + 1]
       /\ connected \subseteq Free(s)
       /\ \E o \in StateMachine(r2, Runid(s), connected, down,
                                elapsed /\ ~start) :
            LET r3 == Forget(o.r, old)
            IN /\ IF r3.state = UPDATE_CONFIG
                  THEN /\ snt' = [snt EXCEPT ![s] = SwitchTo(r3, r3.promoted)]
                       /\ disk' = [disk EXCEPT ![s] = Saved(snt'[s])]
                  ELSE /\ snt' = [snt EXCEPT ![s] = r3]
                       /\ disk' = Flushed(s, r2, o.r)
               /\ SendSlaveOf(s, o.cmd)
               /\ votes' = VoteCast(s, r2, o.r)
               /\ wins' = IF o.won /\ "FORCE_FAILOVER" \notin o.r.flags
                          THEN wins \cup {<<s, o.r.failover_epoch>>} ELSE wins
               /\ touched' = IF o.won /\ ~InOrder(o.r, s)
                             THEN touched \cup {o.r.failover_epoch}
                             ELSE touched
       /\ UNCHANGED <<inst, net, limit, faults>>

\* sentinelTimer outside TILT mode
Timer(s) ==
    \E silent \in Happens(TRUE), elapsed \in BOOLEAN :
    \E connected \in SUBSET Linked(snt[s]) :
    \E down \in SUBSET Watched(snt[s]) :
    \E old \in SUBSET (IF limit.calm THEN {} ELSE Answered(snt[s])) :
      Tick(s, silent, elapsed, connected, down, old)

\* sentinelAskMasterStateToOtherSentinels, for one sentinel it is connected to
\* while it thinks the master is down: it asks for a vote when it is a candidate.
AskMasterState(s, t) ==
    /\ "S_DOWN" \in snt[s].flags
    /\ \E e \in 1..MaxEpoch : /\ snt[s].current_epoch \in {e - 1, e}
                               /\ s \in limit.starters[e]
    /\ t \in DOMAIN snt[s].sentinels
    /\ Cardinality(requests) + Cardinality(replies) < limit.asks
    /\ requests' = requests \cup
         {[from |-> s, to |-> t, addr |-> snt[s].addr,
           epoch |-> snt[s].current_epoch,
           runid |-> IF snt[s].state > NONE THEN Runid(s) ELSE NoOne]}
    /\ UNCHANGED <<snt, disk, inst, slaveof, replies, hellos, limit, faults,
                   votes, wins, touched>>

\* SENTINEL is-master-down-by-addr: a sentinel that monitors the address says
\* whether it is down (never in TILT mode) and votes for the candidate, in the
\* epoch the request was sent with, or tells its vote of a newer one.
IsMasterDown(q) ==
    \E tilt \in Happens(FALSE) :
      LET t == q.to
          here == snt[t].addr = q.addr
          asked == here /\ q.runid # NoOne
          r == IF asked THEN VoteLeader(snt[t], q.epoch, q.runid) ELSE snt[t]
          voted == asked /\ r.leader # NoOne
      IN /\ snt' = [snt EXCEPT ![t] = r]
         /\ disk' = Flushed(t, snt[t], r)
         /\ votes' = VoteCast(t, snt[t], r)
         /\ requests' = requests \ {q}
         /\ replies' = IF q.from = NoOne THEN replies ELSE replies \cup
              {[from |-> t, to |-> q.from,
                down |-> ~tilt /\ here /\ "S_DOWN" \in r.flags,
                leader |-> IF voted THEN r.leader ELSE NoOne,
                leader_epoch |-> IF voted THEN r.leader_epoch ELSE 0]}
    /\ UNCHANGED <<inst, slaveof, hellos, limit, faults, wins, touched>>

\* sentinelReceiveIsMasterDownReply, whatever the sentinel became since it asked.
\* TCP keeps the replies of a link in order; here they come in any order.
ReceiveIsMasterDownReply(p) ==
    /\ p.from \in DOMAIN snt[p.to].sentinels
    /\ replies' = replies \ {p}
    /\ LET t == snt[p.to].sentinels[p.from]
       IN snt' = [snt EXCEPT ![p.to].sentinels[p.from] =
            IF p.leader = NoOne THEN [t EXCEPT !.down = p.down]
            ELSE [t EXCEPT !.down = p.down, !.leader = p.leader,
                           !.leader_epoch = p.leader_epoch]]
    /\ UNCHANGED <<disk, inst, slaveof, requests, hellos, limit, faults, votes,
                   wins, touched>>

\* sentinelKillLink: s closes its links to the peers in ts.  The replies on them
\* are never read; a request that was sent is executed, for nobody, or lost.
CloseLinks(s, ts) ==
    /\ replies' = {p \in replies : ~(p.to = s /\ p.from \in ts)}
    /\ LET cut == {q \in requests : q.from = s /\ q.to \in ts}
       IN \E sent \in SUBSET cut :
            requests' = (requests \ cut) \cup {[q EXCEPT !.from = NoOne] : q \in sent}

\* A link breaks, or does not answer PING, with commands on it.
Disconnect(s, t) ==
    /\ \/ \E q \in requests : q.from = s /\ q.to = t
       \/ \E p \in replies : p.to = s /\ p.from = t
    /\ CloseLinks(s, {t})
    /\ UNCHANGED <<snt, disk, inst, slaveof, hellos, limit, faults, votes, wins,
                   touched>>

\* sentinelMasterLooksSane: not down, and its recent INFO says role:master.
MasterLooksSane(r) ==
    inst[r.addr] = NoOne /\ r.flags \cap {"S_DOWN", "O_DOWN"} = {}

\* sentinelRefreshInstanceInfo for the master: slaves not known yet.
InfoOfMaster(s) ==
    LET i == snt[s].addr
        found == {j \in Instances : inst[j] = i} \ DOMAIN snt[s].slaves
        r == [snt[s] EXCEPT !.slaves = [j \in found \cup DOMAIN @ |->
                              IF j \in found THEN {} ELSE @[j]]]
    IN /\ snt' = [snt EXCEPT ![s] = r]
       /\ disk' = IF found # {} THEN [disk EXCEPT ![s] = Saved(r)] ELSE disk
       /\ UNCHANGED <<inst, slaveof, net, limit, faults, votes, wins,
                      touched>>

\* Mutant: the configuration gets the epoch after that of the election.
PromotedNextEpoch(r) ==
    [r EXCEPT !.config_epoch = r.failover_epoch + 1, !.state = RECONF_SLAVES]

\* The promoted slave reports to be a master: the configuration gets the
\* epoch of the election and is flushed.
Promoted(r) ==
    [r EXCEPT !.config_epoch = r.failover_epoch, !.state = RECONF_SLAVES]

\* RECONF_SENT -> RECONF_INPROG -> RECONF_DONE, as INFO shows slave i first
\* with the new master and then with the link to it up (linked).
Reconfigured(r, i, linked) ==
    LET f1 == IF "RECONF_SENT" \in r.slaves[i] /\ inst[i] = r.promoted
              THEN (r.slaves[i] \ {"RECONF_SENT"}) \cup {"RECONF_INPROG"}
              ELSE r.slaves[i]
        f2 == IF "RECONF_INPROG" \in f1 /\ linked
              THEN (f1 \ {"RECONF_INPROG"}) \cup {"RECONF_DONE"} ELSE f1
    IN [r EXCEPT !.slaves[i] = f2]

\* sentinelRefreshInstanceInfo for slave i, outside TILT mode.  waited: it has
\* reported this role or master, without being down, for long enough.
InfoOfSlave(s, i) ==
    \E waited \in BOOLEAN :
    \E linked \in (IF snt[s].slaves[i] = {} THEN {FALSE} ELSE BOOLEAN) :
      LET r == snt[s]
          acked == /\ inst[i] = NoOne
                   /\ "PROMOTED" \in r.slaves[i]
                   /\ "FAILOVER_IN_PROGRESS" \in r.flags
                   /\ r.state = WAIT_PROMOTION
          fix == /\ waited /\ MasterLooksSane(r)
                 /\ i \in Free(s)
                 /\ \/ inst[i] = NoOne /\ ~acked /\ "PROMOTED" \notin r.slaves[i]
                    \/ inst[i] # NoOne /\ inst[i] # r.addr
      IN /\ snt' = [snt EXCEPT ![s] =
                      IF acked THEN Promoted(r)
                      ELSE IF inst[i] # NoOne THEN Reconfigured(r, i, linked)
                      ELSE r]
         /\ disk' = IF acked THEN [disk EXCEPT ![s] = Saved(snt'[s])] ELSE disk
         /\ SendSlaveOf(s, IF fix THEN [j \in {i} |-> r.addr] ELSE Silent)
    /\ UNCHANGED <<inst, net, limit, faults, votes, wins, touched>>

\* Mutant: the address published is that of the old master during a failover.
HelloOldAddress(s) ==
    [from |-> Runid(s), current_epoch |-> snt[s].current_epoch,
     addr |-> snt[s].addr, config_epoch |-> snt[s].config_epoch]

\* sentinelSendHello: the epochs and the address of the current master.
HelloOf(s) ==
    [from |-> Runid(s), current_epoch |-> snt[s].current_epoch,
     addr |-> CurrentMaster(snt[s]), config_epoch |-> snt[s].config_epoch]

\* The sender becomes a known sentinel; one with its address or run ID is
\* replaced, and its votes are forgotten.
Meet(r, runid) ==
    [r EXCEPT !.sentinels = [t \in {runid[1]} \cup DOMAIN @ |->
        IF t = runid[1] THEN NewPeer(runid) ELSE @[t]]]

\* sentinelSendHello to a server or a sentinel, which makes the message one that
\* can be received.  Messages published earlier are received still, or lost.
Publish(s) ==
    /\ s \in limit.publishers
    /\ \E kept \in SUBSET hellos :
         /\ Cardinality(kept) < limit.hellos
         /\ hellos' = kept \cup {HelloOf(s)}
    /\ UNCHANGED <<snt, disk, inst, slaveof, requests, replies, limit, faults,
                   votes, wins, touched>>

\* sentinelProcessHelloMessage at s of the hello h, which comes late, out of
\* order, or again through another server: a newer epoch is adopted, a
\* configuration with a newer config epoch replaces this one.  A failover that
\* reconfigures slaves goes on when it started from the address the hello
\* names: its promoted slave then stands for the new config epoch.
\* sentinelReceiveHelloMessages skips the hellos with its own run ID; those a
\* sentinel sends to its peers are not looked at, if it is one of them.
ProcessHello(s, h) ==
    LET t == h.from[1]
        known == t \in DOMAIN snt[s].sentinels
        new == known => snt[s].sentinels[t].runid # h.from
        r1 == IF new THEN Meet(snt[s], h.from) ELSE snt[s]
        newer == h.current_epoch > r1.current_epoch
        r2 == IF newer THEN [r1 EXCEPT !.current_epoch = h.current_epoch]
              ELSE r1
        update == r2.config_epoch < h.config_epoch
        r3 == IF update THEN [r2 EXCEPT !.config_epoch = h.config_epoch] ELSE r2
        switch == update /\ r3.addr # h.addr
        r4 == IF switch THEN SwitchTo(r3, h.addr) ELSE r3
    IN /\ h.from # Runid(s) \/ s \in DOMAIN snt[s].sentinels
       /\ snt' = [snt EXCEPT ![s] = r4]
       /\ disk' = CASE switch -> [disk EXCEPT ![s] = Saved(r4)]
                    [] ~switch /\ newer -> [disk EXCEPT ![s] = Saved(r2)]
                    [] ~switch /\ ~newer /\ new ->
                          [disk EXCEPT ![s] = Saved(r1)]
                    [] OTHER -> disk
       /\ CloseLinks(s, IF known /\ new THEN {t} ELSE {})
       /\ touched' = IF update /\ CurrentMaster(r4) # h.addr
                     THEN touched \cup {h.config_epoch} ELSE touched
       /\ UNCHANGED <<inst, slaveof, hellos, limit, faults, votes, wins>>

\* SENTINEL RESET
ResetCommand(s) ==
    /\ faults < limit.faults
    /\ faults' = faults + 1
    /\ snt' = [snt EXCEPT ![s] = Reset(@, FALSE)]
    /\ touched' = IF snt[s].state >= RECONF_SLAVES
                  THEN touched \cup {snt[s].config_epoch} ELSE touched
    /\ CloseLinks(s, DOMAIN snt[s].sentinels)
    /\ UNCHANGED <<disk, inst, slaveof, hellos, limit, votes, wins>>

\* SENTINEL FAILOVER: needs a good slave, not the agreement of the others.
FailoverCommand(s) ==
    /\ faults < limit.faults
    /\ snt[s].current_epoch < limit.epochs
    /\ "FAILOVER_IN_PROGRESS" \notin snt[s].flags
    /\ \E good \in SUBSET DOMAIN snt[s].slaves : Selected(good) # {}
    /\ faults' = faults + 1
    /\ snt' = [snt EXCEPT ![s] = [StartFailover(snt[s]) EXCEPT
                                    !.flags = @ \cup {"FORCE_FAILOVER"}]]
    /\ touched' = touched \cup {snt'[s].failover_epoch}
    /\ UNCHANGED <<disk, inst, slaveof, net, limit, votes, wins>>

\* A crash and a restart: the memory is what the configuration file holds, the
\* run ID is new and every connection of the process is gone, with the requests
\* it had not read.
Restart(s) ==
    /\ faults < limit.faults
    /\ faults' = faults + 1
    /\ snt' = [snt EXCEPT ![s] = Loaded(disk[s], snt[s].run + 1)]
    /\ replies' = {p \in replies : p.to # s}
    /\ LET read == {q \in requests : q.to # s}
       IN \E sent \in SUBSET {q \in read : q.from = s} :
            requests' = {q \in read : q.from # s}
                          \cup {[q EXCEPT !.from = NoOne] : q \in sent}
    /\ UNCHANGED <<disk, inst, slaveof, hellos, limit, votes, wins, touched>>

-----------------------------------------------------------------------------
(* The Redis servers.  One that is down sends no INFO and executes nothing. *)

\* The SLAVEOF transaction of sentinelSendSlaveOf is executed, or lost.
SlaveOf ==
    \E c \in slaveof :
      /\ slaveof' = slaveof \ {c}
      /\ inst' \in {inst, [inst EXCEPT ![c[2]] = c[3]]}
      /\ UNCHANGED <<snt, disk, net, limit, faults, votes, wins, touched>>

-----------------------------------------------------------------------------
\* initSentinel and the first configuration: every sentinel monitors the
\* master and already knows the slaves and the other sentinels.
Init ==
    /\ disk = [s \in Sentinels |->
         [current_epoch |-> 0, config_epoch |-> 0, leader_epoch |-> 0,
          addr |-> FirstMaster, slaves |-> Instances \ {FirstMaster},
          sentinels |-> [t \in Sentinels \ {s} |-> <<t, 0>>]]]
    /\ snt = [s \in Sentinels |-> Loaded(disk[s], 0)]
    /\ inst = [i \in Instances |-> IF i = FirstMaster THEN NoOne
                                   ELSE FirstMaster]
    /\ slaveof = {} /\ requests = {} /\ replies = {} /\ hellos = {}
    /\ limit \in Limits /\ faults = 0
    /\ votes = {} /\ wins = {} /\ touched = {}

Next ==
    \/ \E s \in Sentinels :
         \/ Timer(s) \/ InfoOfMaster(s) \/ Publish(s)
         \/ ResetCommand(s) \/ FailoverCommand(s) \/ Restart(s)
         \/ \E i \in DOMAIN snt[s].slaves : InfoOfSlave(s, i)
         \/ \E h \in hellos : ProcessHello(s, h)
         \/ \E t \in Sentinels : AskMasterState(s, t) \/ Disconnect(s, t)
    \/ \E q \in requests : IsMasterDown(q)
    \/ \E p \in replies : ReceiveIsMasterDownReply(p)
    \/ SlaveOf

Spec == Init /\ [][Next]_vars
-----------------------------------------------------------------------------
(* Properties *)

\* Every field of a sentinel stays in its type.
TypeOK ==
    /\ \A s \in Sentinels : snt[s] \in Memory
    /\ inst \in [Instances -> Instances \cup {NoOne}]
    /\ requests \subseteq Requests /\ replies \subseteq Replies
    /\ hellos \subseteq Hellos

\* A sentinel votes at most once in an epoch, over restarts and resets too:
\* sentinelVoteLeader flushes the epoch of the vote before it answers.
OneVotePerEpoch ==
    \A v, w \in votes : v[1] = w[1] /\ v[2] = w[2] => v = w

\* Two sentinels with the same configuration epoch agree on the address of
\* the master they publish, whatever hellos they received, late, out of order
\* or again, and whenever they restarted.  Not so in a touched epoch:
\*  - that of a failover forced with SENTINEL FAILOVER, which nobody voted for;
\*  - that of a failover undone by SENTINEL RESET after the replica was promoted;
\*  - that of an election whose winner, when it counted, had gone on to a newer
\*    epoch than that of its failover (sentinelGetLeader takes the votes of the
\*    peers for the former), or did not know exactly the other sentinels (after
\*    a RESET, or a hello of its own earlier run that a peer passed on);
\*  - that of a configuration received by a sentinel that publishes the replica
\*    of its own failover: it takes the epoch and keeps publishing the replica
\*    when the address is the one its failover started from.
ConfigAgreement ==
    \A s, t \in Sentinels :
      snt[s].config_epoch = snt[t].config_epoch
        /\ snt[s].config_epoch \notin touched
      => CurrentMaster(snt[s]) = CurrentMaster(snt[t])

\* sentinelRefreshInstanceInfo and the failover states read the promoted slave
\* through a pointer: it is set, and known, whenever they can run.
PromotedKnown ==
    \A s \in Sentinels :
      /\ snt[s].state \in SEND_SLAVEOF_NOONE..UPDATE_CONFIG
           => snt[s].promoted \in DOMAIN snt[s].slaves
      /\ \A i \in DOMAIN snt[s].slaves :
           "RECONF_SENT" \in snt[s].slaves[i] => snt[s].promoted # NoOne

\* At most one sentinel is elected for an epoch, unless it was touched by a
\* forced failover, or by a winner that counted in a newer epoch or did not know
\* exactly the other sentinels.
OneLeaderPerEpoch ==
    \A v, w \in wins : v[2] = w[2] /\ v[2] \notin touched => v[1] = w[1]

\* An epoch has one vote of each sentinel, without exception, and one leader, with
\* those of OneLeaderPerEpoch (sentinelVoteLeader, sentinelGetLeader): a request
\* may be executed and its reply read after the epoch, the failover, or the run
\* of the sentinel that asked is over, in another order, or never.
ElectionSafe == OneVotePerEpoch /\ OneLeaderPerEpoch

=============================================================================

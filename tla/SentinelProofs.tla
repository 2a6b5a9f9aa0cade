--------------------------- MODULE SentinelProofs ---------------------------
(***************************************************************************)
(* What Sentinel promises, proved for any number of sentinels, servers,    *)
(* epochs, restarts and commands.                                          *)
(***************************************************************************)
EXTENDS Sentinel, FiniteSetTheorems, TLAPS

Disks ==
    [current_epoch: 0..MaxEpoch, config_epoch: 0..MaxEpoch,
     leader_epoch: 0..MaxEpoch, addr: Instances, slaves: SUBSET Instances,
     sentinels: UNION {[S -> Runids] : S \in SUBSET Sentinels}]

\* The types of all the variables.
Types ==
    /\ snt \in [Sentinels -> Memory]
    /\ disk \in [Sentinels -> Disks]
    /\ inst \in [Instances -> Instances \cup {NoOne}]
    /\ slaveof \subseteq Sentinels \X Instances \X (Instances \cup {NoOne})
    /\ faults \in 0..MaxFaults
    /\ votes \subseteq Sentinels \X (0..MaxEpoch) \X Runids
    /\ wins \subseteq Sentinels \X (0..MaxEpoch)
    /\ touched \subseteq 0..MaxEpoch
    /\ hellos \subseteq Hellos /\ limit \in Limits

\* What holds of the memory of one sentinel alone: when a failover is in
\* progress, when its promoted slave is known, and in which order the epochs are.
Coherent(r) ==
    /\ r.state # NONE <=> "FAILOVER_IN_PROGRESS" \in r.flags
    /\ "FORCE_FAILOVER" \in r.flags => r.state # NONE
    /\ r.state \in SEND_SLAVEOF_NOONE..UPDATE_CONFIG
         => r.promoted \in DOMAIN r.slaves
    /\ r.state \notin RECONF_SLAVES..UPDATE_CONFIG
         => \A i \in DOMAIN r.slaves : "RECONF_SENT" \notin r.slaves[i]
    /\ r.leader_epoch <= r.current_epoch
    /\ r.failover_epoch <= r.current_epoch
    /\ r.state # NONE => r.failover_epoch >= 1

\* Memory r and file d of s, after n faults: a vote is never ahead of the file.
Sound(s, r, d, n) ==
    /\ Coherent(r)
    /\ r.state # UPDATE_CONFIG
    /\ r.run <= n
    /\ r.leader_epoch = d.leader_epoch
    /\ d.leader_epoch <= d.current_epoch
    /\ d.current_epoch <= r.current_epoch

Local(s) == Sound(s, snt[s], disk[s], faults)

\* Every vote a sentinel remembers, its own or of a peer, was cast, and no vote
\* is of a later epoch than the last one.
Voted ==
    /\ \A s \in Sentinels : snt[s].leader # NoOne =>
         <<s, snt[s].leader_epoch, snt[s].leader>> \in votes
    /\ \A s \in Sentinels : \A t \in DOMAIN snt[s].sentinels :
         snt[s].sentinels[t].leader # NoOne =>
           <<t, snt[s].sentinels[t].leader_epoch, snt[s].sentinels[t].leader>>
             \in votes
    /\ \A v \in votes : v[2] <= snt[v[1]].leader_epoch
    /\ OneVotePerEpoch

\* The sentinels that voted for candidate c in epoch e.
Voters(e, c) == {t \in Sentinels : <<t, e, c>> \in votes}

\* A sentinel past the election has won it, with the votes of a majority and
\* with its epoch on the disk, unless the epoch is in touched.
Elected ==
    /\ \A s \in Sentinels :
         /\ snt[s].state \in SELECT_SLAVE..UPDATE_CONFIG =>
              \/ snt[s].failover_epoch \in touched
              \/ <<s, snt[s].failover_epoch>> \in wins
         /\ "FORCE_FAILOVER" \in snt[s].flags => snt[s].failover_epoch \in touched
    /\ \A w \in wins : w[2] \notin touched =>
         /\ w[2] <= disk[w[1]].current_epoch
         /\ \E c \in Runids :
              /\ c[1] = w[1]
              /\ 2 * Cardinality(Voters(w[2], c)) > Cardinality(Sentinels)

\* s has not yet promoted a slave in epoch e, and still may.
Pending(s, e) ==
    snt[s].failover_epoch = e /\ snt[s].state \in WAIT_START..WAIT_PROMOTION

\* The promotion of epoch e is over.
Over(e) == \E s \in Sentinels : <<s, e>> \in wins /\ ~Pending(s, e)

\* The configurations in memory, on disk and in the hellos published.
Configs ==
    {<<snt[s].config_epoch, CurrentMaster(snt[s])>> : s \in Sentinels}
      \cup {<<disk[s].config_epoch, disk[s].addr>> : s \in Sentinels}
      \cup {<<h.config_epoch, h.addr>> : h \in hellos}

\* Configurations of an epoch that is not in touched are the first one or come
\* from a promotion that is over, and agree.
Agreed ==
    /\ \A c \in Configs : c[1] \notin touched =>
         IF c[1] = 0 THEN c[2] = FirstMaster ELSE Over(c[1])
    /\ \A c, d \in Configs : c[1] = d[1] /\ c[1] \notin touched => c = d

Inv ==
    /\ Types
    /\ \A s \in Sentinels : Local(s)
    /\ Voted /\ Elected /\ Agreed

\* The messages in flight: a reply that names a vote, however late it is read,
\* names one that was cast.
Mailed ==
    /\ requests \subseteq Requests /\ replies \subseteq Replies
    /\ \A p \in replies : p.leader # NoOne =>
         <<p.from, p.leader_epoch, p.leader>> \in votes
-----------------------------------------------------------------------------
(* The operators on the memory of a sentinel *)

USE DEF NONE, WAIT_START, SELECT_SLAVE, SEND_SLAVEOF_NOONE, WAIT_PROMOTION,
        RECONF_SLAVES, UPDATE_CONFIG

LEMMA StatesFacts ==
    /\ NONE \in States /\ WAIT_START \in States /\ SELECT_SLAVE \in States
    /\ SEND_SLAVEOF_NOONE \in States /\ WAIT_PROMOTION \in States
    /\ RECONF_SLAVES \in States /\ UPDATE_CONFIG \in States
    /\ States = 0..6
  BY DEF States

\* The maps of slaves and of peers, as functions on their domains.
LEMMA SlaveMapFacts ==
    ASSUME NEW f \in SlaveMaps
    PROVE  /\ f \in [DOMAIN f -> SUBSET SlaveFlags]
           /\ DOMAIN f \in SUBSET Instances
  BY DEF SlaveMaps

LEMMA SlaveMapIntro ==
    ASSUME NEW S \in SUBSET Instances, NEW f \in [S -> SUBSET SlaveFlags]
    PROVE  f \in SlaveMaps
  BY DEF SlaveMaps

LEMMA PeerMapFacts ==
    ASSUME NEW f \in PeerMaps
    PROVE  /\ f \in [DOMAIN f -> Peers]
           /\ DOMAIN f \in SUBSET Sentinels
  BY DEF PeerMaps

LEMMA PeerMapIntro ==
    ASSUME NEW S \in SUBSET Sentinels, NEW f \in [S -> Peers]
    PROVE  f \in PeerMaps
  BY DEF PeerMaps

\* The same for the run IDs the file lists.
LEMMA FileFacts ==
    ASSUME NEW d \in Disks
    PROVE  /\ d.sentinels \in [DOMAIN d.sentinels -> Runids]
           /\ DOMAIN d.sentinels \in SUBSET Sentinels
  BY DEF Disks

\* What is written for a coherent memory is a file, and names the master the
\* sentinel publishes.
LEMMA SavedFacts ==
    ASSUME NEW r \in Memory, Coherent(r)
    PROVE  /\ Saved(r) \in Disks
           /\ Saved(r).current_epoch = r.current_epoch
           /\ Saved(r).config_epoch = r.config_epoch
           /\ Saved(r).leader_epoch = r.leader_epoch
           /\ Saved(r).addr = CurrentMaster(r)
           /\ DOMAIN Saved(r).sentinels = DOMAIN r.sentinels
<1> DEFINE ids == [t \in DOMAIN r.sentinels |-> r.sentinels[t].runid]
<1>1. CurrentMaster(r) \in Instances
  BY SlaveMapFacts DEF CurrentMaster, Coherent, Memory
<1>2. ids \in [DOMAIN r.sentinels -> Runids] /\ DOMAIN r.sentinels \in SUBSET Sentinels
  BY PeerMapFacts DEF Memory, Peers
<1>3. ids \in UNION {[S -> Runids] : S \in SUBSET Sentinels}
  BY <1>2
<1>4. DOMAIN r.slaves \in SUBSET Instances /\ r.addr \in Instances
  BY SlaveMapFacts DEF Memory
<1>5. {IF i = CurrentMaster(r) THEN r.addr ELSE i : i \in DOMAIN r.slaves}
        \in SUBSET Instances
  BY <1>4
<1>6. Saved(r) = [current_epoch |-> r.current_epoch,
                  config_epoch |-> r.config_epoch,
                  leader_epoch |-> r.leader_epoch, addr |-> CurrentMaster(r),
                  slaves |-> {IF i = CurrentMaster(r) THEN r.addr ELSE i :
                                i \in DOMAIN r.slaves},
                  sentinels |-> ids]
  BY DEF Saved
<1> QED
  BY <1>1, <1>2, <1>3, <1>5, <1>6 DEF Disks, Memory

\* q is a memory like r: the same epochs, vote, failover and configuration.
Like(r, q) ==
    /\ q \in Memory /\ Coherent(q)
    /\ q.run = r.run
    /\ q.current_epoch = r.current_epoch
    /\ q.config_epoch = r.config_epoch
    /\ q.leader = r.leader
    /\ q.leader_epoch = r.leader_epoch
    /\ q.failover_epoch = r.failover_epoch
    /\ q.state = r.state
    /\ q.promoted = r.promoted
    /\ q.addr = r.addr
    /\ "FORCE_FAILOVER" \in q.flags <=> "FORCE_FAILOVER" \in r.flags
    /\ CurrentMaster(q) = CurrentMaster(r)

LEMMA CheckDownFacts ==
    ASSUME NEW r \in Memory, Coherent(r), NEW silent \in BOOLEAN
    PROVE  /\ Like(r, CheckDown(r, silent))
           /\ CheckDown(r, silent).sentinels = r.sentinels
           /\ CheckDown(r, silent).slaves = r.slaves
  BY DEF Like, CheckDown, Memory, Coherent, CurrentMaster, MasterFlags

LEMMA ForgetFacts ==
    ASSUME NEW r \in Memory, Coherent(r), NEW old
    PROVE  /\ Like(r, Forget(r, old))
           /\ Forget(r, old).slaves = r.slaves
           /\ DOMAIN Forget(r, old).sentinels = DOMAIN r.sentinels
           /\ \A t \in DOMAIN r.sentinels :
                LET p == Forget(r, old).sentinels[t]
                IN /\ p.leader_epoch = r.sentinels[t].leader_epoch
                   /\ p.leader \in {NoOne, r.sentinels[t].leader}
<1> DEFINE f == [t \in DOMAIN r.sentinels |->
                   IF t \in old THEN [r.sentinels[t] EXCEPT !.down = FALSE,
                                                            !.leader = NoOne]
                   ELSE r.sentinels[t]]
<1>1. r.sentinels \in [DOMAIN r.sentinels -> Peers]
      /\ DOMAIN r.sentinels \in SUBSET Sentinels
  BY PeerMapFacts DEF Memory
<1>2. f \in [DOMAIN r.sentinels -> Peers]
  BY <1>1 DEF Peers
<1>3. f \in PeerMaps
  BY <1>1, <1>2, PeerMapIntro
<1>4. Forget(r, old) = [r EXCEPT !.sentinels = f]
  BY DEF Forget
<1>5. \A t \in DOMAIN r.sentinels :
         /\ f[t].leader_epoch = r.sentinels[t].leader_epoch
         /\ f[t].leader \in {NoOne, r.sentinels[t].leader}
  BY <1>1 DEF Peers
<1> HIDE DEF f
<1>6. Like(r, [r EXCEPT !.sentinels = f])
  BY <1>3 DEF Like, Memory, Coherent, CurrentMaster
<1>7. [r EXCEPT !.sentinels = f].sentinels = f
      /\ [r EXCEPT !.sentinels = f].slaves = r.slaves
  BY DEF Memory
<1>8. DOMAIN f = DOMAIN r.sentinels
  BY <1>2
<1> QED
  BY <1>4, <1>5, <1>6, <1>7, <1>8

LEMMA StartFailoverFacts ==
    ASSUME NEW r \in Memory, Coherent(r), r.state = NONE,
           r.current_epoch < MaxEpoch
    PROVE  LET q == StartFailover(r)
           IN /\ q \in Memory /\ Coherent(q)
              /\ q.run = r.run /\ q.config_epoch = r.config_epoch
              /\ q.leader = r.leader /\ q.leader_epoch = r.leader_epoch
              /\ q.slaves = r.slaves /\ q.sentinels = r.sentinels
              /\ q.state = WAIT_START
              /\ q.current_epoch = r.current_epoch + 1
              /\ q.failover_epoch = r.current_epoch + 1
              /\ q.flags = r.flags \cup {"FAILOVER_IN_PROGRESS"}
              /\ CurrentMaster(q) = CurrentMaster(r)
<1> DEFINE q == StartFailover(r)
           fl == r.flags \cup {"FAILOVER_IN_PROGRESS"}
           ep == r.current_epoch + 1
<1>1. ep \in 0..MaxEpoch /\ fl \in SUBSET MasterFlags
  BY SentinelAssumption DEF SentinelAssumption, Memory, MasterFlags
<1>2. q = [r EXCEPT !.state = WAIT_START, !.flags = fl, !.current_epoch = ep,
                    !.failover_epoch = ep]
  BY DEF StartFailover
<1> HIDE DEF q, fl, ep
<1>3. /\ q \in Memory
      /\ q.run = r.run /\ q.config_epoch = r.config_epoch
      /\ q.leader = r.leader /\ q.leader_epoch = r.leader_epoch
      /\ q.slaves = r.slaves /\ q.sentinels = r.sentinels
      /\ q.state = WAIT_START /\ q.addr = r.addr
      /\ q.current_epoch = ep /\ q.failover_epoch = ep /\ q.flags = fl
  BY <1>1, <1>2, StatesFacts DEF Memory
<1>4. Coherent(q)
  BY <1>3 DEF Coherent, Memory, fl, ep
<1>5. CurrentMaster(q) = CurrentMaster(r)
  BY <1>3 DEF Coherent, CurrentMaster
<1> QED
  BY <1>3, <1>4, <1>5 DEF q, fl, ep

\* A sentinel votes only in an epoch after that of its last vote, and none it
\* has seen is newer.
LEMMA VoteLeaderFacts ==
    ASSUME NEW r \in Memory, Coherent(r), NEW epoch \in 0..MaxEpoch,
           NEW c \in Runids
    PROVE  LET q == VoteLeader(r, epoch, c)
           IN /\ q \in Memory /\ Coherent(q)
              /\ q.run = r.run /\ q.config_epoch = r.config_epoch
              /\ q.addr = r.addr /\ q.failover_epoch = r.failover_epoch
              /\ q.state = r.state /\ q.flags = r.flags
              /\ q.promoted = r.promoted
              /\ q.slaves = r.slaves /\ q.sentinels = r.sentinels
              /\ q.current_epoch = IF epoch > r.current_epoch THEN epoch
                                   ELSE r.current_epoch
              /\ \/ q.leader = r.leader /\ q.leader_epoch = r.leader_epoch
                 \/ /\ q.leader = c /\ q.leader_epoch = epoch
                    /\ r.leader_epoch < epoch /\ q.current_epoch = epoch
              /\ r.current_epoch <= epoch => q.leader_epoch >= epoch
              /\ CurrentMaster(q) = CurrentMaster(r)
<1> DEFINE q == VoteLeader(r, epoch, c)
           e == IF epoch > r.current_epoch THEN epoch ELSE r.current_epoch
<1>1. e \in 0..MaxEpoch /\ r.current_epoch <= e /\ epoch <= e
  BY DEF Memory
<1>2. \/ /\ r.leader_epoch < epoch /\ e = epoch
         /\ q = [r EXCEPT !.current_epoch = e, !.leader = c, !.leader_epoch = e]
      \/ /\ ~(r.leader_epoch < epoch /\ e = epoch)
         /\ q = [r EXCEPT !.current_epoch = e]
  BY <1>1 DEF VoteLeader, Memory
<1>3. /\ q \in Memory
      /\ q.run = r.run /\ q.config_epoch = r.config_epoch
      /\ q.addr = r.addr /\ q.failover_epoch = r.failover_epoch
      /\ q.state = r.state /\ q.flags = r.flags /\ q.promoted = r.promoted
      /\ q.slaves = r.slaves /\ q.sentinels = r.sentinels
      /\ q.current_epoch = e
  <2> HIDE DEF q, e
  <2> QED BY <1>1, <1>2 DEF Memory
<1>4. \/ q.leader = r.leader /\ q.leader_epoch = r.leader_epoch
         /\ ~(r.leader_epoch < epoch /\ e = epoch)
      \/ q.leader = c /\ q.leader_epoch = epoch /\ r.leader_epoch < epoch
         /\ e = epoch
  <2> HIDE DEF q, e
  <2> QED BY <1>1, <1>2 DEF Memory
<1>5. q.leader_epoch <= q.current_epoch /\ q.failover_epoch <= q.current_epoch
  <2> HIDE DEF q, e
  <2> QED BY <1>1, <1>3, <1>4 DEF Memory, Coherent
<1>6. Coherent(q)
  <2> HIDE DEF q, e
  <2> QED BY <1>3, <1>5 DEF Coherent
<1>7. CurrentMaster(q) = CurrentMaster(r)
  <2> HIDE DEF q, e
  <2> QED BY <1>3 DEF CurrentMaster
<1>8. r.current_epoch <= epoch => q.leader_epoch >= epoch
  BY <1>1, <1>4 DEF Memory
<1> HIDE DEF q
<1> QED
  BY <1>3, <1>4, <1>6, <1>7, <1>8 DEF q

LEMMA AbortFacts ==
    ASSUME NEW r \in Memory, Coherent(r), r.state \in WAIT_START..WAIT_PROMOTION
    PROVE  LET q == Abort(r)
           IN /\ q \in Memory /\ Coherent(q)
              /\ q.run = r.run /\ q.config_epoch = r.config_epoch
              /\ q.current_epoch = r.current_epoch
              /\ q.leader = r.leader /\ q.leader_epoch = r.leader_epoch
              /\ q.failover_epoch = r.failover_epoch
              /\ q.state = NONE /\ "FORCE_FAILOVER" \notin q.flags
              /\ q.sentinels = r.sentinels
              /\ CurrentMaster(q) = CurrentMaster(r)
<1> DEFINE q == Abort(r)
           fl == r.flags \ {"FAILOVER_IN_PROGRESS", "FORCE_FAILOVER"}
           sl == [i \in DOMAIN r.slaves |-> r.slaves[i] \ {"PROMOTED"}]
<1>1. /\ r.slaves \in [DOMAIN r.slaves -> SUBSET SlaveFlags]
      /\ DOMAIN r.slaves \in SUBSET Instances
  BY SlaveMapFacts DEF Memory
<1>2. sl \in SlaveMaps /\ DOMAIN sl = DOMAIN r.slaves
  <2>1. sl \in [DOMAIN r.slaves -> SUBSET SlaveFlags]
    BY <1>1
  <2> QED BY <1>1, <2>1, SlaveMapIntro
<1>3. \A i \in DOMAIN sl : "RECONF_SENT" \notin sl[i]
  BY DEF Coherent, Memory
<1>4. fl \in SUBSET MasterFlags /\ "FAILOVER_IN_PROGRESS" \notin fl
      /\ "FORCE_FAILOVER" \notin fl
  BY DEF Memory
<1>5. q = [r EXCEPT !.flags = fl, !.state = NONE, !.promoted = NoOne,
                    !.slaves = sl]
  BY DEF Abort
<1> HIDE DEF q, fl, sl
<1>6. /\ q \in Memory
      /\ q.run = r.run /\ q.config_epoch = r.config_epoch
      /\ q.current_epoch = r.current_epoch
      /\ q.leader = r.leader /\ q.leader_epoch = r.leader_epoch
      /\ q.failover_epoch = r.failover_epoch /\ q.addr = r.addr
      /\ q.state = NONE /\ q.flags = fl /\ q.slaves = sl
      /\ q.sentinels = r.sentinels
  BY <1>2, <1>4, <1>5, StatesFacts DEF Memory
<1>7. Coherent(q)
  BY <1>3, <1>4, <1>6 DEF Coherent
<1>8. CurrentMaster(q) = CurrentMaster(r)
  BY <1>6 DEF CurrentMaster
<1> QED
  BY <1>4, <1>6, <1>7, <1>8 DEF q

\* A reset leaves a memory without failover, slaves and, maybe, peers.
LEMMA ResetFacts ==
    ASSUME NEW r \in Memory, Coherent(r), NEW keep \in BOOLEAN
    PROVE  LET q == Reset(r, keep)
           IN /\ q \in Memory /\ Coherent(q)
              /\ q.run = r.run /\ q.config_epoch = r.config_epoch
              /\ q.current_epoch = r.current_epoch
              /\ q.leader = NoOne /\ q.leader_epoch = r.leader_epoch
              /\ q.failover_epoch = r.failover_epoch /\ q.addr = r.addr
              /\ q.state = NONE /\ q.flags = {}
              /\ keep => q.sentinels = r.sentinels
              /\ ~keep => DOMAIN q.sentinels = {}
<1> DEFINE q == Reset(r, keep)
           sl == [i \in {} |-> {}]
           se == IF keep THEN r.sentinels ELSE [t \in {} |-> NewPeer(NoOne)]
<1>1. sl \in SlaveMaps /\ DOMAIN sl = {}
  <2>1. sl \in [{} -> SUBSET SlaveFlags]
    OBVIOUS
  <2> QED BY <2>1, SlaveMapIntro
<1>2. se \in PeerMaps /\ (~keep => DOMAIN se = {})
  <2>1. CASE keep
    BY <2>1 DEF Memory
  <2>2. CASE ~keep
    <3>1. se \in [{} -> Peers]
      BY <2>2
    <3> QED BY <3>1, <2>2, PeerMapIntro
  <2> QED BY <2>1, <2>2
<1>3. q = [r EXCEPT !.slaves = sl, !.sentinels = se, !.flags = {},
                    !.leader = NoOne, !.state = NONE, !.promoted = NoOne]
  BY DEF Reset
<1>4. keep => se = r.sentinels
  OBVIOUS
<1> HIDE DEF q, sl, se
<1>5. /\ q \in Memory
      /\ q.run = r.run /\ q.config_epoch = r.config_epoch
      /\ q.current_epoch = r.current_epoch
      /\ q.leader = NoOne /\ q.leader_epoch = r.leader_epoch
      /\ q.failover_epoch = r.failover_epoch /\ q.addr = r.addr
      /\ q.state = NONE /\ q.flags = {} /\ q.slaves = sl
      /\ q.sentinels = se
  BY <1>1, <1>2, <1>3, StatesFacts DEF Memory
<1>6. Coherent(q)
  BY <1>1, <1>5 DEF Coherent
<1> QED
  BY <1>2, <1>4, <1>5, <1>6 DEF q

LEMMA SwitchToFacts ==
    ASSUME NEW r \in Memory, Coherent(r), NEW addr \in Instances
    PROVE  LET q == SwitchTo(r, addr)
           IN /\ q \in Memory /\ Coherent(q)
              /\ q.run = r.run /\ q.config_epoch = r.config_epoch
              /\ q.current_epoch = r.current_epoch
              /\ q.leader = NoOne /\ q.leader_epoch = r.leader_epoch
              /\ q.failover_epoch = r.failover_epoch
              /\ q.state = NONE /\ q.flags = {}
              /\ q.sentinels = r.sentinels
              /\ CurrentMaster(q) = addr
<1> DEFINE p == Reset(r, TRUE)
           q == SwitchTo(r, addr)
           S == (DOMAIN r.slaves \cup {r.addr}) \ {addr}
           sl == [i \in S |-> {}]
<1>1. S \in SUBSET Instances
  BY SlaveMapFacts DEF Memory
<1>2. sl \in SlaveMaps /\ DOMAIN sl = S /\ \A i \in S : sl[i] = {}
  <2>1. sl \in [S -> SUBSET SlaveFlags]
    OBVIOUS
  <2> HIDE DEF S
  <2> QED BY <1>1, <2>1, SlaveMapIntro
<1>3. q = [p EXCEPT !.addr = addr, !.slaves = sl]
  BY DEF SwitchTo
<1>4. /\ p \in Memory /\ Coherent(p)
      /\ p.run = r.run /\ p.config_epoch = r.config_epoch
      /\ p.current_epoch = r.current_epoch
      /\ p.leader = NoOne /\ p.leader_epoch = r.leader_epoch
      /\ p.failover_epoch = r.failover_epoch
      /\ p.state = NONE /\ p.flags = {} /\ p.sentinels = r.sentinels
  BY ResetFacts
<1> HIDE DEF p, q, S, sl
<1>5. /\ q \in Memory
      /\ q.run = r.run /\ q.config_epoch = r.config_epoch
      /\ q.current_epoch = r.current_epoch
      /\ q.leader = NoOne /\ q.leader_epoch = r.leader_epoch
      /\ q.failover_epoch = r.failover_epoch /\ q.addr = addr
      /\ q.state = NONE /\ q.flags = {} /\ q.slaves = sl
      /\ q.sentinels = r.sentinels
  BY <1>2, <1>3, <1>4 DEF Memory
<1>6. Coherent(q)
  BY <1>2, <1>4, <1>5 DEF Coherent
<1>7. CurrentMaster(q) = addr
  BY <1>5 DEF CurrentMaster
<1> QED
  BY <1>5, <1>6, <1>7 DEF q

\* A restart brings back the epochs and the configuration of the file.
LEMMA LoadedFacts ==
    ASSUME NEW d \in Disks, d.leader_epoch <= d.current_epoch,
           NEW run \in 0..MaxFaults
    PROVE  LET q == Loaded(d, run)
           IN /\ q \in Memory /\ Coherent(q)
              /\ q.run = run /\ q.config_epoch = d.config_epoch
              /\ q.current_epoch >= d.current_epoch
              /\ q.leader = NoOne /\ q.leader_epoch = d.leader_epoch
              /\ q.state = NONE /\ q.flags = {} /\ q.failover_epoch = 0
              /\ DOMAIN q.sentinels = DOMAIN d.sentinels
              /\ \A t \in DOMAIN q.sentinels : q.sentinels[t].leader = NoOne
              /\ CurrentMaster(q) = d.addr
<1> DEFINE q == Loaded(d, run)
           sl == [i \in d.slaves |-> {}]
           se == [t \in DOMAIN d.sentinels |-> NewPeer(d.sentinels[t])]
           e == IF d.config_epoch > d.current_epoch THEN d.config_epoch
                ELSE d.current_epoch
<1>1. sl \in SlaveMaps /\ DOMAIN sl = d.slaves /\ \A i \in d.slaves : sl[i] = {}
  <2>1. d.slaves \in SUBSET Instances
    BY DEF Disks
  <2>2. sl \in [d.slaves -> SUBSET SlaveFlags]
    OBVIOUS
  <2> QED BY <2>1, <2>2, SlaveMapIntro
<1>2. /\ se \in PeerMaps /\ DOMAIN se = DOMAIN d.sentinels
      /\ \A t \in DOMAIN d.sentinels : se[t].leader = NoOne
  <2>1. se \in [DOMAIN d.sentinels -> Peers]
    BY FileFacts, SentinelAssumption DEF NewPeer, Peers, SentinelAssumption
  <2>2. \A t \in DOMAIN d.sentinels : se[t].leader = NoOne
    BY DEF NewPeer
  <2> QED BY <2>1, <2>2, FileFacts, PeerMapIntro
<1>3. e \in 0..MaxEpoch /\ e >= d.current_epoch
  BY DEF Disks
<1>4. q = [run |-> run, current_epoch |-> e, config_epoch |-> d.config_epoch,
           addr |-> d.addr, leader |-> NoOne, leader_epoch |-> d.leader_epoch,
           failover_epoch |-> 0, state |-> NONE, flags |-> {},
           promoted |-> NoOne, slaves |-> sl, sentinels |-> se]
  BY DEF Loaded
<1> HIDE DEF q, sl, se, e
<1>5. q \in Memory
  BY <1>1, <1>2, <1>3, <1>4, StatesFacts, SentinelAssumption
     DEF Memory, Disks, SentinelAssumption
<1>6. Coherent(q)
  BY <1>1, <1>3, <1>4 DEF Coherent, Disks
<1>7. CurrentMaster(q) = d.addr
  BY <1>4 DEF CurrentMaster
<1> QED
  BY <1>2, <1>3, <1>4, <1>5, <1>6, <1>7 DEF q
-----------------------------------------------------------------------------
(* The failover state machine *)

\* What a call of the state machine may do to the memory r of self.
Moves(r, o, self) ==
    /\ o.r \in Memory /\ Coherent(o.r)
    /\ o.r.run = r.run
    /\ o.r.config_epoch = r.config_epoch
    /\ o.r.current_epoch = r.current_epoch
    /\ o.r.failover_epoch = r.failover_epoch
    /\ o.r.sentinels = r.sentinels
    /\ \/ o.r.leader = r.leader /\ o.r.leader_epoch = r.leader_epoch
       \/ /\ o.r.leader \in Runids
          /\ r.leader_epoch < o.r.leader_epoch
    /\ o.r.state \in WAIT_START..WAIT_PROMOTION
         => r.state \in WAIT_START..WAIT_PROMOTION
    /\ o.r.state \in SELECT_SLAVE..UPDATE_CONFIG
         => \/ r.state \in SELECT_SLAVE..UPDATE_CONFIG
            \/ o.won \/ "FORCE_FAILOVER" \in r.flags
    /\ "FORCE_FAILOVER" \in o.r.flags => "FORCE_FAILOVER" \in r.flags
    /\ CurrentMaster(o.r) = CurrentMaster(r)
    /\ o.won => /\ IsLeader(o.r, self)
                /\ r.current_epoch = r.failover_epoch
                     => o.r.leader_epoch >= r.failover_epoch
    /\ DOMAIN o.cmd \subseteq Instances
    /\ \A i \in DOMAIN o.cmd : o.cmd[i] \in Instances \cup {NoOne}

\* A step that changes neither epochs, vote nor peers.
LEMMA LikeMoves ==
    ASSUME NEW r \in Memory, NEW q, Like(r, q), q.sentinels = r.sentinels,
           NEW cmd, NEW self,
           DOMAIN cmd \subseteq Instances,
           \A i \in DOMAIN cmd : cmd[i] \in Instances \cup {NoOne}
    PROVE  Moves(r, [r |-> q, cmd |-> cmd, won |-> FALSE], self)
  BY DEF Moves, Like

LEMMA SilentFacts == DOMAIN Silent = {}
  BY DEF Silent

LEMMA SelfLike ==
    ASSUME NEW r \in Memory, Coherent(r)
    PROVE  Like(r, r)
  BY DEF Like

\* An aborted failover, of a memory that is past the election or not.
LEMMA AbortMoves ==
    ASSUME NEW r \in Memory, Coherent(r), NEW self,
           r.state \in WAIT_START..WAIT_PROMOTION
    PROVE  Moves(r, Outcome(Abort(r)), self)
<1> DEFINE q == Abort(r)
<1>1. /\ q \in Memory /\ Coherent(q)
      /\ q.run = r.run /\ q.config_epoch = r.config_epoch
      /\ q.current_epoch = r.current_epoch
      /\ q.leader = r.leader /\ q.leader_epoch = r.leader_epoch
      /\ q.failover_epoch = r.failover_epoch
      /\ q.state = NONE /\ "FORCE_FAILOVER" \notin q.flags
      /\ q.sentinels = r.sentinels
      /\ CurrentMaster(q) = CurrentMaster(r)
  BY AbortFacts
<1> HIDE DEF q
<1>2. Moves(r, [r |-> q, cmd |-> Silent, won |-> FALSE], self)
  BY <1>1, SilentFacts DEF Moves
<1> QED
  BY <1>2 DEF Outcome, q

LEMMA FavouritesFacts ==
    ASSUME NEW r \in Memory, NEW self \in Runids
    PROVE  Favourites(r, self) \subseteq Runids
<1>1. \A t \in DOMAIN r.sentinels : r.sentinels[t].leader \in Runids \cup {NoOne}
  BY PeerMapFacts DEF Memory, Peers
<1> QED
  BY <1>1 DEF Favourites

\* The election: a vote, and the majority that makes a leader.
LEMMA WaitStartMoves ==
    ASSUME NEW r \in Memory, Coherent(r), NEW self \in Runids,
           NEW late \in BOOLEAN, r.state = WAIT_START,
           NEW o \in FailoverWaitStart(r, self, late)
    PROVE  Moves(r, o, self)
<1>1. PICK c \in Favourites(r, self) :
        LET v == VoteLeader(r, r.failover_epoch, c)
            led == IsLeader(v, self)
        IN o = [r |-> IF led \/ "FORCE_FAILOVER" \in v.flags
                      THEN [v EXCEPT !.state = SELECT_SLAVE]
                      ELSE IF late THEN Abort(v) ELSE v,
                cmd |-> Silent, won |-> led]
  BY DEF FailoverWaitStart
<1> DEFINE v == VoteLeader(r, r.failover_epoch, c)
           w == [v EXCEPT !.state = SELECT_SLAVE]
<1>2. c \in Runids /\ r.failover_epoch \in 0..MaxEpoch
      /\ r.failover_epoch <= r.current_epoch
  BY FavouritesFacts DEF Memory, Coherent
<1>3. /\ v \in Memory /\ Coherent(v)
      /\ v.run = r.run /\ v.config_epoch = r.config_epoch
      /\ v.addr = r.addr /\ v.failover_epoch = r.failover_epoch
      /\ v.state = WAIT_START /\ v.flags = r.flags
      /\ v.sentinels = r.sentinels /\ v.slaves = r.slaves
      /\ \/ v.leader = r.leader /\ v.leader_epoch = r.leader_epoch
         \/ v.leader \in Runids /\ r.leader_epoch < v.leader_epoch
      /\ r.current_epoch = r.failover_epoch => v.leader_epoch >= r.failover_epoch
      /\ CurrentMaster(v) = CurrentMaster(r)
  BY <1>2, VoteLeaderFacts DEF Memory
<1>4. v.current_epoch = r.current_epoch
  BY <1>2, VoteLeaderFacts DEF Memory
<1> HIDE DEF v
<1>5. /\ w \in Memory
      /\ w.run = v.run /\ w.config_epoch = v.config_epoch
      /\ w.current_epoch = v.current_epoch /\ w.addr = v.addr
      /\ w.leader = v.leader /\ w.leader_epoch = v.leader_epoch
      /\ w.failover_epoch = v.failover_epoch /\ w.flags = v.flags
      /\ w.sentinels = v.sentinels /\ w.slaves = v.slaves
      /\ w.state = SELECT_SLAVE /\ w.promoted = v.promoted
  BY <1>3, StatesFacts DEF Memory
<1> HIDE DEF w
<1>6. Coherent(w)
  BY <1>3, <1>5 DEF Coherent
<1>7. CurrentMaster(w) = CurrentMaster(v)
  BY <1>3, <1>5 DEF CurrentMaster
<1>8. IsLeader(w, self) = IsLeader(v, self)
  BY <1>5 DEF IsLeader, VotesFor
<1>9. CASE IsLeader(v, self) \/ "FORCE_FAILOVER" \in v.flags
  <2>1. o = [r |-> w, cmd |-> Silent, won |-> IsLeader(v, self)]
    BY <1>1, <1>9 DEF v, w
  <2> QED
    BY <2>1, <1>3, <1>4, <1>5, <1>6, <1>7, <1>8, <1>9, SilentFacts DEF Moves
<1>10. CASE ~(IsLeader(v, self) \/ "FORCE_FAILOVER" \in v.flags) /\ late
  <2> DEFINE q == Abort(v)
  <2>1. o = [r |-> q, cmd |-> Silent, won |-> IsLeader(v, self)]
    BY <1>1, <1>10 DEF v
  <2>2. /\ q \in Memory /\ Coherent(q)
        /\ q.run = v.run /\ q.config_epoch = v.config_epoch
        /\ q.current_epoch = v.current_epoch
        /\ q.leader = v.leader /\ q.leader_epoch = v.leader_epoch
        /\ q.failover_epoch = v.failover_epoch
        /\ q.state = NONE /\ "FORCE_FAILOVER" \notin q.flags
        /\ q.sentinels = v.sentinels
        /\ CurrentMaster(q) = CurrentMaster(v)
    BY <1>3, AbortFacts
  <2> HIDE DEF q
  <2> QED
    BY <2>1, <2>2, <1>3, <1>4, <1>10, SilentFacts DEF Moves
<1>11. CASE ~(IsLeader(v, self) \/ "FORCE_FAILOVER" \in v.flags) /\ ~late
  <2>1. o = [r |-> v, cmd |-> Silent, won |-> IsLeader(v, self)]
    BY <1>1, <1>11 DEF v
  <2> QED
    BY <2>1, <1>3, <1>4, <1>11, SilentFacts DEF Moves
<1> QED
  BY <1>9, <1>10, <1>11

LEMMA SelectSlaveMoves ==
    ASSUME NEW r \in Memory, Coherent(r), NEW self, r.state = SELECT_SLAVE,
           NEW good \in SUBSET DOMAIN r.slaves,
           NEW o \in FailoverSelectSlave(r, good)
    PROVE  Moves(r, o, self)
<1>1. CASE Selected(good) = {}
  BY <1>1, AbortMoves DEF FailoverSelectSlave
<1>2. CASE Selected(good) # {}
  <2>1. PICK i \in Selected(good) :
          o = Outcome([r EXCEPT !.promoted = i, !.state = SEND_SLAVEOF_NOONE,
                                !.slaves[i] = @ \cup {"PROMOTED"}])
    BY <1>2 DEF FailoverSelectSlave
  <2> DEFINE sl == [r.slaves EXCEPT ![i] = @ \cup {"PROMOTED"}]
             q == [r EXCEPT !.promoted = i, !.state = SEND_SLAVEOF_NOONE,
                            !.slaves = sl]
  <2>2. i \in DOMAIN r.slaves
    BY DEF Selected, Best
  <2>3. /\ r.slaves \in [DOMAIN r.slaves -> SUBSET SlaveFlags]
        /\ DOMAIN r.slaves \in SUBSET Instances
    BY SlaveMapFacts DEF Memory
  <2>4. sl \in [DOMAIN r.slaves -> SUBSET SlaveFlags]
    BY <2>3 DEF SlaveFlags
  <2>5. sl \in SlaveMaps /\ DOMAIN sl = DOMAIN r.slaves
    BY <2>3, <2>4, SlaveMapIntro
  <2>6. \A j \in DOMAIN sl : "RECONF_SENT" \notin sl[j]
    BY <2>3 DEF Coherent
  <2>7. o = [r |-> q, cmd |-> Silent, won |-> FALSE]
    BY <2>1, <2>3 DEF Outcome, Memory
  <2> HIDE DEF sl, q
  <2>8. /\ q \in Memory
        /\ q.run = r.run /\ q.config_epoch = r.config_epoch
        /\ q.current_epoch = r.current_epoch /\ q.addr = r.addr
        /\ q.leader = r.leader /\ q.leader_epoch = r.leader_epoch
        /\ q.failover_epoch = r.failover_epoch /\ q.flags = r.flags
        /\ q.sentinels = r.sentinels /\ q.slaves = sl
        /\ q.state = SEND_SLAVEOF_NOONE /\ q.promoted = i
    BY <2>2, <2>3, <2>5, StatesFacts DEF Memory, q
  <2>9. Coherent(q)
    BY <2>2, <2>5, <2>6, <2>8 DEF Coherent
  <2>10. CurrentMaster(q) = CurrentMaster(r)
    BY <2>8 DEF CurrentMaster
  <2> QED
    BY <2>7, <2>8, <2>9, <2>10, SilentFacts DEF Moves
<1> QED
  BY <1>1, <1>2

LEMMA SendSlaveOfNoOneMoves ==
    ASSUME NEW r \in Memory, Coherent(r), NEW self, NEW late \in BOOLEAN,
           r.state = SEND_SLAVEOF_NOONE, NEW connected,
           NEW o \in FailoverSendSlaveOfNoOne(r, connected, late)
    PROVE  Moves(r, o, self)
<1>1. CASE r.promoted \in connected
  <2> DEFINE q == [r EXCEPT !.state = WAIT_PROMOTION]
             cmd == [i \in {r.promoted} |-> NoOne]
  <2>1. o = [r |-> q, cmd |-> cmd, won |-> FALSE]
    BY <1>1 DEF FailoverSendSlaveOfNoOne
  <2>2. r.promoted \in Instances
    BY SlaveMapFacts DEF Coherent, Memory
  <2>3. DOMAIN cmd \subseteq Instances /\ \A i \in DOMAIN cmd : cmd[i] = NoOne
    BY <2>2
  <2>4. /\ q \in Memory
        /\ q.run = r.run /\ q.config_epoch = r.config_epoch
        /\ q.current_epoch = r.current_epoch /\ q.addr = r.addr
        /\ q.leader = r.leader /\ q.leader_epoch = r.leader_epoch
        /\ q.failover_epoch = r.failover_epoch /\ q.flags = r.flags
        /\ q.sentinels = r.sentinels /\ q.slaves = r.slaves
        /\ q.state = WAIT_PROMOTION /\ q.promoted = r.promoted
    BY StatesFacts DEF Memory
  <2> HIDE DEF q, cmd
  <2>5. Coherent(q) /\ CurrentMaster(q) = CurrentMaster(r)
    BY <2>4 DEF Coherent, CurrentMaster
  <2> QED
    BY <2>1, <2>3, <2>4, <2>5 DEF Moves
<1>2. CASE r.promoted \notin connected /\ late
  BY <1>2, AbortMoves DEF FailoverSendSlaveOfNoOne
<1>3. CASE r.promoted \notin connected /\ ~late
  BY <1>3, SelfLike, LikeMoves, SilentFacts DEF FailoverSendSlaveOfNoOne, Outcome
<1> QED
  BY <1>1, <1>2, <1>3

LEMMA WaitPromotionMoves ==
    ASSUME NEW r \in Memory, Coherent(r), NEW self, NEW late \in BOOLEAN,
           r.state = WAIT_PROMOTION, NEW o \in FailoverWaitPromotion(r, late)
    PROVE  Moves(r, o, self)
<1>1. CASE late
  BY <1>1, AbortMoves DEF FailoverWaitPromotion
<1>2. CASE ~late
  BY <1>2, SelfLike, LikeMoves, SilentFacts DEF FailoverWaitPromotion, Outcome
<1> QED
  BY <1>1, <1>2

LEMMA ReconfNextFacts ==
    ASSUME NEW r \in Memory, Coherent(r), r.state = RECONF_SLAVES,
           NEW lost, NEW told
    PROVE  LET q == ReconfNext(r, lost, told)
           IN /\ Like(r, q) /\ q.sentinels = r.sentinels
              /\ DOMAIN q.slaves = DOMAIN r.slaves
<1> DEFINE f(i) == IF i \in lost
                   THEN (r.slaves[i] \ {"RECONF_SENT"}) \cup {"RECONF_DONE"}
                   ELSE r.slaves[i]
           sl == [i \in DOMAIN r.slaves |->
                    IF i \in told THEN f(i) \cup {"RECONF_SENT"} ELSE f(i)]
           q == ReconfNext(r, lost, told)
<1>1. /\ r.slaves \in [DOMAIN r.slaves -> SUBSET SlaveFlags]
      /\ DOMAIN r.slaves \in SUBSET Instances
  BY SlaveMapFacts DEF Memory
<1>2. \A i \in DOMAIN r.slaves : f(i) \in SUBSET SlaveFlags
  BY <1>1 DEF SlaveFlags
<1>3. sl \in [DOMAIN r.slaves -> SUBSET SlaveFlags]
  <2> HIDE DEF f
  <2> QED BY <1>2 DEF SlaveFlags
<1>4. sl \in SlaveMaps /\ DOMAIN sl = DOMAIN r.slaves
  BY <1>1, <1>3, SlaveMapIntro
<1>5. q = [r EXCEPT !.slaves = sl]
  BY DEF ReconfNext
<1> HIDE DEF q, sl
<1>6. /\ q \in Memory
      /\ q.run = r.run /\ q.config_epoch = r.config_epoch
      /\ q.current_epoch = r.current_epoch /\ q.addr = r.addr
      /\ q.leader = r.leader /\ q.leader_epoch = r.leader_epoch
      /\ q.failover_epoch = r.failover_epoch /\ q.flags = r.flags
      /\ q.sentinels = r.sentinels /\ q.slaves = sl
      /\ q.state = r.state /\ q.promoted = r.promoted
  BY <1>4, <1>5 DEF Memory
<1>7. Coherent(q) /\ CurrentMaster(q) = CurrentMaster(r)
  BY <1>4, <1>6 DEF Coherent, CurrentMaster
<1> QED
  BY <1>4, <1>6, <1>7 DEF Like, q

LEMMA DetectEndMoves ==
    ASSUME NEW r \in Memory, Coherent(r), r.state = RECONF_SLAVES, NEW self,
           NEW told \in SUBSET Instances, NEW connected \in SUBSET Instances,
           NEW down, NEW late \in BOOLEAN
    PROVE  Moves(r, DetectEnd(r, told, connected, down, late), self)
<1> DEFINE o == DetectEnd(r, told, connected, down, late)
           q == [r EXCEPT !.state = UPDATE_CONFIG]
<1>1. PICK c \in SUBSET Instances :
        /\ o.cmd = [i \in c |-> r.promoted]
        /\ o = [r |-> o.r, cmd |-> o.cmd, won |-> FALSE]
        /\ o.r \in {r, q}
  BY DEF DetectEnd
<1>2. r.promoted \in Instances \cup {NoOne}
  BY DEF Memory
<1>3. DOMAIN o.cmd \subseteq Instances
      /\ \A i \in DOMAIN o.cmd : o.cmd[i] \in Instances \cup {NoOne}
  BY <1>1, <1>2
<1>4. /\ q \in Memory
      /\ q.run = r.run /\ q.config_epoch = r.config_epoch
      /\ q.current_epoch = r.current_epoch /\ q.addr = r.addr
      /\ q.leader = r.leader /\ q.leader_epoch = r.leader_epoch
      /\ q.failover_epoch = r.failover_epoch /\ q.flags = r.flags
      /\ q.sentinels = r.sentinels /\ q.slaves = r.slaves
      /\ q.state = UPDATE_CONFIG /\ q.promoted = r.promoted
  BY StatesFacts DEF Memory
<1> HIDE DEF o, q
<1>5. Coherent(q) /\ CurrentMaster(q) = CurrentMaster(r)
  BY <1>4 DEF Coherent, CurrentMaster
<1>6. CASE o.r = r
  BY <1>1, <1>3, <1>6, SelfLike, LikeMoves DEF o
<1>7. CASE o.r = q
  <2>1. o.won = FALSE
    BY <1>1
  <2> QED
    BY <1>3, <1>4, <1>5, <1>7, <2>1 DEF Moves, o
<1> QED
  BY <1>1, <1>6, <1>7

LEMMA LikeThenMoves ==
    ASSUME NEW r \in Memory, NEW q, NEW o, NEW self, Like(r, q),
           q.sentinels = r.sentinels, Moves(q, o, self)
    PROVE  Moves(r, o, self)
  BY DEF Moves, Like

LEMMA ReconfNextSlaveMoves ==
    ASSUME NEW r \in Memory, Coherent(r), r.state = RECONF_SLAVES, NEW self,
           NEW connected \in SUBSET DOMAIN r.slaves, NEW down,
           NEW late \in BOOLEAN,
           NEW o \in FailoverReconfNextSlave(r, connected, down, late)
    PROVE  Moves(r, o, self)
<1>1. DOMAIN r.slaves \in SUBSET Instances
  BY SlaveMapFacts DEF Memory
<1>2. CASE o = DetectEnd(r, {}, connected, down, late)
  BY <1>1, <1>2, DetectEndMoves
<1>3. ASSUME NEW lost, NEW told \in SUBSET connected,
             o = DetectEnd(ReconfNext(r, lost, told), told, connected, down, late)
      PROVE  Moves(r, o, self)
  <2> DEFINE q == ReconfNext(r, lost, told)
  <2>1. Like(r, q) /\ q.sentinels = r.sentinels
    BY ReconfNextFacts
  <2>2. q \in Memory /\ Coherent(q) /\ q.state = RECONF_SLAVES
    BY <2>1 DEF Like
  <2> HIDE DEF q
  <2>3. Moves(q, DetectEnd(q, told, connected, down, late), self)
    BY <1>1, <2>2, DetectEndMoves
  <2> QED
    BY <1>3, <2>1, <2>3, LikeThenMoves DEF q
<1>4. \/ o = DetectEnd(r, {}, connected, down, late)
      \/ \E lost : \E told \in SUBSET connected :
           o = DetectEnd(ReconfNext(r, lost, told), told, connected, down, late)
  BY DEF FailoverReconfNextSlave
<1> QED
  BY <1>2, <1>3, <1>4

\* Every outcome of the state machine.
LEMMA StateMachineMoves ==
    ASSUME NEW r \in Memory, Coherent(r), r.state # UPDATE_CONFIG,
           NEW self \in Runids, NEW connected \in SUBSET DOMAIN r.slaves,
           NEW down, NEW late \in BOOLEAN,
           NEW o \in StateMachine(r, self, connected, down, late)
    PROVE  Moves(r, o, self)
<1>1. CASE "FAILOVER_IN_PROGRESS" \notin r.flags
  <2>1. r.state = NONE
    BY <1>1 DEF Coherent
  <2>2. o = Outcome(r)
    BY <1>1, <2>1 DEF StateMachine
  <2> QED
    BY <2>2, SelfLike, LikeMoves, SilentFacts DEF Outcome
<1>2. CASE "FAILOVER_IN_PROGRESS" \in r.flags
  <2>1. r.state \in 1..5
    BY <1>2, StatesFacts DEF Coherent, Memory
  <2>2. CASE r.state = WAIT_START
    <3>1. o \in FailoverWaitStart(r, self, late)
      BY <1>2, <2>2 DEF StateMachine
    <3> QED BY <2>2, <3>1, WaitStartMoves
  <2>3. CASE r.state = SELECT_SLAVE
    <3>1. o \in FailoverSelectSlave(r, connected \ down)
      BY <1>2, <2>3 DEF StateMachine
    <3> QED BY <2>3, <3>1, SelectSlaveMoves
  <2>4. CASE r.state = SEND_SLAVEOF_NOONE
    <3>1. o \in FailoverSendSlaveOfNoOne(r, connected, late)
      BY <1>2, <2>4 DEF StateMachine
    <3> QED BY <2>4, <3>1, SendSlaveOfNoOneMoves
  <2>5. CASE r.state = WAIT_PROMOTION
    <3>1. o \in FailoverWaitPromotion(r, late)
      BY <1>2, <2>5 DEF StateMachine
    <3> QED BY <2>5, <3>1, WaitPromotionMoves
  <2>6. CASE r.state = RECONF_SLAVES
    <3>1. o \in FailoverReconfNextSlave(r, connected, down, late)
      BY <1>2, <2>6 DEF StateMachine
    <3> QED BY <2>6, <3>1, ReconfNextSlaveMoves
  <2> QED
    BY <2>1, <2>2, <2>3, <2>4, <2>5, <2>6
<1> QED
  BY <1>1, <1>2
-----------------------------------------------------------------------------
(* What a step has to show of every sentinel for the invariant to go on *)

\* At most one vote is cast, after the last one of that sentinel; what is
\* remembered is old or that vote.
LEMMA VotedStep ==
    ASSUME Types, Types', Voted,
           \A s \in Sentinels : snt[s].leader_epoch <= snt'[s].leader_epoch,
           votes' = votes \/ \E x \in Sentinels, c \in Runids :
              /\ snt[x].leader_epoch < snt'[x].leader_epoch
              /\ votes' = votes \cup {<<x, snt'[x].leader_epoch, c>>},
           \A s \in Sentinels :
              \/ snt'[s].leader = NoOne
              \/ snt'[s].leader = snt[s].leader
                 /\ snt'[s].leader_epoch = snt[s].leader_epoch
              \/ <<s, snt'[s].leader_epoch, snt'[s].leader>> \in votes',
           \A s \in Sentinels : \A t \in DOMAIN snt'[s].sentinels :
              \/ /\ t \in DOMAIN snt[s].sentinels
                 /\ snt'[s].sentinels[t].leader
                      \in {NoOne, snt[s].sentinels[t].leader}
                 /\ snt'[s].sentinels[t].leader_epoch
                      = snt[s].sentinels[t].leader_epoch
              \/ snt'[s].sentinels[t].leader = NoOne
              \/ <<t, snt'[s].sentinels[t].leader_epoch,
                      snt'[s].sentinels[t].leader>> \in votes'
    PROVE  Voted'
<1>1. votes \subseteq votes'
  OBVIOUS
<1>2. \A s \in Sentinels : snt'[s].leader # NoOne =>
         <<s, snt'[s].leader_epoch, snt'[s].leader>> \in votes'
  BY <1>1 DEF Voted
<1>3. \A s \in Sentinels : \A t \in DOMAIN snt'[s].sentinels :
         snt'[s].sentinels[t].leader # NoOne =>
           <<t, snt'[s].sentinels[t].leader_epoch, snt'[s].sentinels[t].leader>>
             \in votes'
  BY <1>1 DEF Voted
<1>4. \A s \in Sentinels : snt[s].leader_epoch \in Nat /\ snt'[s].leader_epoch \in Nat
  BY DEF Types, Memory
<1>5. \A v \in votes' : v[2] <= snt'[v[1]].leader_epoch
  <2>1. \A v \in votes : v[1] \in Sentinels /\ v[2] \in Nat
                         /\ v[2] <= snt[v[1]].leader_epoch
    BY DEF Types, Voted
  <2> QED BY <2>1, <1>4
<1>6. OneVotePerEpoch'
  <2>1. ASSUME NEW v \in votes', NEW w \in votes', v[1] = w[1], v[2] = w[2]
        PROVE  v = w
    <3>1. CASE v \in votes /\ w \in votes
      BY <2>1, <3>1 DEF Voted, OneVotePerEpoch
    <3>2. CASE votes' # votes /\ (v \notin votes \/ w \notin votes)
      <4>1. PICK x \in Sentinels, c \in Runids :
              /\ snt[x].leader_epoch < snt'[x].leader_epoch
              /\ votes' = votes \cup {<<x, snt'[x].leader_epoch, c>>}
        BY <3>2
      <4>2. \A u \in votes : u[1] = x => u[2] < snt'[x].leader_epoch
        BY <4>1, <1>4 DEF Types, Voted
      <4> QED
        BY <2>1, <3>2, <4>1, <4>2, <1>4
    <3> QED BY <3>1, <3>2
  <2> QED BY <2>1 DEF OneVotePerEpoch
<1> QED
  BY <1>2, <1>3, <1>5, <1>6 DEF Voted

\* A sentinel enters the states after the election by winning it.
LEMMA ElectedStep ==
    ASSUME Types, Types', Elected, votes \subseteq votes', wins \subseteq wins',
           touched \subseteq touched',
           \A s \in Sentinels : disk[s].current_epoch <= disk'[s].current_epoch,
           \A s \in Sentinels :
              snt'[s].state \in SELECT_SLAVE..UPDATE_CONFIG =>
                \/ snt'[s].failover_epoch \in touched'
                \/ <<s, snt'[s].failover_epoch>> \in wins'
                \/ /\ snt[s].state \in SELECT_SLAVE..UPDATE_CONFIG
                   /\ snt'[s].failover_epoch = snt[s].failover_epoch,
           \A s \in Sentinels :
              "FORCE_FAILOVER" \in snt'[s].flags =>
                \/ snt'[s].failover_epoch \in touched'
                \/ /\ "FORCE_FAILOVER" \in snt[s].flags
                   /\ snt'[s].failover_epoch = snt[s].failover_epoch,
           \A w \in wins' \ wins : w[2] \notin touched' =>
              /\ w[2] <= disk'[w[1]].current_epoch
              /\ \E c \in Runids :
                   /\ c[1] = w[1]
                   /\ 2 * Cardinality(Voters(w[2], c)') > Cardinality(Sentinels)
    PROVE  Elected'
<1>1. \A s \in Sentinels :
        /\ snt'[s].state \in SELECT_SLAVE..UPDATE_CONFIG =>
             \/ snt'[s].failover_epoch \in touched'
             \/ <<s, snt'[s].failover_epoch>> \in wins'
        /\ "FORCE_FAILOVER" \in snt'[s].flags => snt'[s].failover_epoch \in touched'
  BY DEF Elected
<1>2. ASSUME NEW w \in wins, w[2] \notin touched'
      PROVE  /\ w[2] <= disk'[w[1]].current_epoch
             /\ \E c \in Runids :
                  /\ c[1] = w[1]
                  /\ 2 * Cardinality(Voters(w[2], c)') > Cardinality(Sentinels)
  <2>1. w[2] \notin touched /\ w[1] \in Sentinels /\ w[2] \in Nat
    BY <1>2 DEF Types
  <2>2. PICK c \in Runids :
          c[1] = w[1] /\ 2 * Cardinality(Voters(w[2], c)) > Cardinality(Sentinels)
    BY <2>1 DEF Elected
  <2>3. Voters(w[2], c) \subseteq Voters(w[2], c)' /\ IsFiniteSet(Voters(w[2], c)')
        /\ IsFiniteSet(Sentinels)
    <3>1. Voters(w[2], c) \subseteq Voters(w[2], c)'
          /\ Voters(w[2], c)' \subseteq Sentinels
      BY DEF Voters
    <3>2. IsFiniteSet(Sentinels)
      BY SentinelAssumption DEF SentinelAssumption
    <3> QED BY <3>1, <3>2, FS_Subset
  <2>4. Cardinality(Voters(w[2], c)) <= Cardinality(Voters(w[2], c)')
        /\ Cardinality(Voters(w[2], c)) \in Nat
        /\ Cardinality(Voters(w[2], c)') \in Nat
        /\ Cardinality(Sentinels) \in Nat
    BY <2>3, FS_Subset, FS_CardinalityType
  <2>5. 2 * Cardinality(Voters(w[2], c)') > Cardinality(Sentinels)
    BY <2>2, <2>4
  <2>6. w[2] <= disk[w[1]].current_epoch
    BY <2>1 DEF Elected
  <2>7. disk[w[1]].current_epoch \in Nat /\ disk'[w[1]].current_epoch \in Nat
    BY <2>1 DEF Types, Disks
  <2> QED
    BY <2>1, <2>2, <2>5, <2>6, <2>7
<1> QED
  BY <1>1, <1>2 DEF Elected

\* Two majorities have a voter in common, who voted once.
LEMMA LeaderUnique ==
    ASSUME Types, Voted, Elected
    PROVE  OneLeaderPerEpoch
<1>1. SUFFICES ASSUME NEW v \in wins, NEW w \in wins, v[2] = w[2],
                      v[2] \notin touched
               PROVE  v[1] = w[1]
  BY DEF OneLeaderPerEpoch
<1>2. PICK c \in Runids :
        c[1] = v[1] /\ 2 * Cardinality(Voters(v[2], c)) > Cardinality(Sentinels)
  BY <1>1 DEF Elected
<1>3. PICK d \in Runids :
        d[1] = w[1] /\ 2 * Cardinality(Voters(v[2], d)) > Cardinality(Sentinels)
  BY <1>1 DEF Elected
<1> DEFINE P == Voters(v[2], c)
           Q == Voters(v[2], d)
<1>4. IsFiniteSet(Sentinels) /\ P \in SUBSET Sentinels /\ Q \in SUBSET Sentinels
  BY SentinelAssumption DEF SentinelAssumption, Voters
<1>5. IsFiniteSet(P) /\ IsFiniteSet(Q)
  BY <1>4, FS_Subset
<1>6. Cardinality(P) \in Nat /\ Cardinality(Q) \in Nat /\ Cardinality(Sentinels) \in Nat
  BY <1>4, <1>5, FS_CardinalityType
<1>7. Cardinality(P) + Cardinality(Q) > Cardinality(Sentinels)
  BY <1>2, <1>3, <1>6
<1>8. P \cap Q # {}
  BY <1>4, <1>7, FS_MajoritiesIntersect
<1>9. PICK x \in Sentinels : <<x, v[2], c>> \in votes /\ <<x, v[2], d>> \in votes
  BY <1>8 DEF Voters
<1>10. c = d
  BY <1>9 DEF Voted, OneVotePerEpoch
<1> QED
  BY <1>2, <1>3, <1>10

\* A promotion that is over stays over: a new failover takes a newer epoch.
LEMMA OverStep ==
    ASSUME Types, Types', Elected, \A s \in Sentinels : Local(s),
           wins \subseteq wins', touched \subseteq touched',
           \A s \in Sentinels : \A e \in 0..MaxEpoch : Pending(s, e)' =>
              Pending(s, e) \/ snt[s].current_epoch < e,
           NEW e \in 0..MaxEpoch, e \notin touched', Over(e)
    PROVE  Over(e)'
<1>1. PICK s \in Sentinels : <<s, e>> \in wins /\ ~Pending(s, e)
  BY DEF Over
<1>2. e <= disk[s].current_epoch
  BY <1>1 DEF Elected
<1>3. disk[s].current_epoch <= snt[s].current_epoch
  BY DEF Local, Sound
<1>4. ~(snt[s].current_epoch < e)
  BY <1>2, <1>3 DEF Types, Memory, Disks
<1>5. <<s, e>> \in wins' /\ ~Pending(s, e)'
  BY <1>1, <1>4
<1> QED
  BY <1>5 DEF Over

\* No new configuration, apart from those of the epochs in touched.
LEMMA AgreedStep ==
    ASSUME Types, Types', Elected, Agreed, \A s \in Sentinels : Local(s),
           wins \subseteq wins', touched \subseteq touched',
           \A s \in Sentinels : \A e \in 0..MaxEpoch : Pending(s, e)' =>
              Pending(s, e) \/ snt[s].current_epoch < e,
           \A c \in Configs' : c \in Configs \/ c[1] \in touched'
    PROVE  Agreed'
<1>1. ASSUME NEW c \in Configs', c[1] \notin touched'
      PROVE  IF c[1] = 0 THEN c[2] = FirstMaster ELSE Over(c[1])'
  <2>1. c \in Configs /\ c[1] \notin touched
    BY <1>1
  <2>2. c[1] \in 0..MaxEpoch
    BY <2>1 DEF Configs, Types, Memory, Disks, Hellos
  <2>3. IF c[1] = 0 THEN c[2] = FirstMaster ELSE Over(c[1])
    BY <2>1 DEF Agreed
  <2>4. Over(c[1]) => Over(c[1])'
    BY <1>1, <2>2, OverStep
  <2> QED BY <2>3, <2>4
<1>2. \A c, d \in Configs' : c[1] = d[1] /\ c[1] \notin touched' => c = d
  BY DEF Agreed
<1> QED
  BY <1>1, <1>2 DEF Agreed

\* The promotion of a leader makes the one new configuration f, of an epoch
\* that no configuration has yet.
LEMMA PromotionStep ==
    ASSUME Types, Types', Elected, Agreed, \A s \in Sentinels : Local(s),
           wins \subseteq wins', touched \subseteq touched',
           \A s \in Sentinels : \A e \in 0..MaxEpoch : Pending(s, e)' =>
              Pending(s, e) \/ snt[s].current_epoch < e,
           NEW f,
           \A c \in Configs' : c \in Configs \/ c = f,
           f[1] \in touched' \/ (f[1] # 0 /\ Over(f[1])' /\ \A d \in Configs : d[1] # f[1])
    PROVE  Agreed'
<1>1. CASE f[1] \in touched'
  <2>1. \A c \in Configs' : c \in Configs \/ c[1] \in touched'
    BY <1>1
  <2> QED BY <2>1, AgreedStep
<1>2. CASE f[1] # 0 /\ Over(f[1])' /\ \A d \in Configs : d[1] # f[1]
  <2>1. ASSUME NEW c \in Configs', c[1] \notin touched'
        PROVE  IF c[1] = 0 THEN c[2] = FirstMaster ELSE Over(c[1])'
    <3>1. CASE c = f
      BY <1>2, <3>1
    <3>2. CASE c \in Configs
      <4>1. c[1] \in 0..MaxEpoch
        BY <3>2 DEF Configs, Types, Memory, Disks, Hellos
      <4>2. IF c[1] = 0 THEN c[2] = FirstMaster ELSE Over(c[1])
        BY <2>1, <3>2 DEF Agreed
      <4>3. Over(c[1]) => Over(c[1])'
        BY <2>1, <4>1, OverStep
      <4> QED BY <4>2, <4>3
    <3> QED BY <3>1, <3>2
  <2>2. \A c, d \in Configs' : c[1] = d[1] /\ c[1] \notin touched' => c = d
    BY <1>2 DEF Agreed
  <2> QED
    BY <2>1, <2>2 DEF Agreed
<1> QED
  BY <1>1, <1>2

\* The types after a step.
LEMMA TypesStep ==
    ASSUME Types, NEW s \in Sentinels, NEW q \in Memory, NEW d \in Disks,
           snt' = [snt EXCEPT ![s] = q], disk' = [disk EXCEPT ![s] = d],
           inst' = inst, faults' \in 0..MaxFaults,
           slaveof' \subseteq Sentinels \X Instances \X (Instances \cup {NoOne}),
           votes' \subseteq Sentinels \X (0..MaxEpoch) \X Runids,
           wins' \subseteq Sentinels \X (0..MaxEpoch),
           touched' \subseteq 0..MaxEpoch, hellos' = hellos, limit' = limit
    PROVE  Types'
  BY DEF Types

\* A step of s that leaves a sound memory q and file d, casts no vote and wins
\* nothing, and whose configurations are known or in touched.
Quiet(s, q, d) ==
    /\ snt' = [snt EXCEPT ![s] = q] /\ disk' = [disk EXCEPT ![s] = d]
    /\ inst' = inst /\ hellos' = hellos /\ limit' = limit
    /\ faults' \in 0..MaxFaults /\ faults <= faults'
    /\ slaveof' \subseteq Sentinels \X Instances \X (Instances \cup {NoOne})
    /\ votes' = votes /\ wins' = wins
    /\ touched \subseteq touched' /\ touched' \subseteq 0..MaxEpoch
    /\ q \in Memory /\ d \in Disks /\ Sound(s, q, d, faults')
    /\ q.leader_epoch = snt[s].leader_epoch
    /\ q.leader \in {NoOne, snt[s].leader}
    /\ \A t \in DOMAIN q.sentinels :
         \/ q.sentinels[t].leader = NoOne
         \/ t \in DOMAIN snt[s].sentinels /\ q.sentinels[t] = snt[s].sentinels[t]
    /\ disk[s].current_epoch <= d.current_epoch
    /\ "FORCE_FAILOVER" \in q.flags =>
         \/ q.failover_epoch \in touched'
         \/ /\ "FORCE_FAILOVER" \in snt[s].flags
            /\ q.failover_epoch = snt[s].failover_epoch
    /\ q.state \in SELECT_SLAVE..UPDATE_CONFIG =>
         /\ snt[s].state \in SELECT_SLAVE..UPDATE_CONFIG
         /\ q.failover_epoch = snt[s].failover_epoch
    /\ q.state \in WAIT_START..WAIT_PROMOTION =>
         \/ q.failover_epoch > snt[s].current_epoch
         \/ /\ snt[s].state \in WAIT_START..WAIT_PROMOTION
            /\ q.failover_epoch = snt[s].failover_epoch

LEMMA LocalStep ==
    ASSUME Types, \A s \in Sentinels : Local(s), NEW x \in Sentinels,
           NEW q, NEW d,
           snt' = [snt EXCEPT ![x] = q], disk' = [disk EXCEPT ![x] = d],
           faults \in Nat, faults' \in Nat, faults <= faults',
           Sound(x, q, d, faults')
    PROVE  \A s \in Sentinels : Local(s)'
<1>1. ASSUME NEW s \in Sentinels, s # x PROVE Local(s)'
  <2>1. snt'[s] = snt[s] /\ disk'[s] = disk[s]
    BY <1>1 DEF Types
  <2>2. Sound(s, snt[s], disk[s], faults)
    BY DEF Local
  <2>3. snt[s].run \in Nat
    BY DEF Types, Memory
  <2>4. Sound(s, snt[s], disk[s], faults')
    BY <2>2, <2>3 DEF Sound
  <2> QED BY <2>1, <2>4 DEF Local
<1>2. Local(x)'
  <2>1. snt'[x] = q /\ disk'[x] = d
    BY DEF Types
  <2> QED BY <2>1 DEF Local
<1> QED
  BY <1>1, <1>2

LEMMA QuietStep ==
    ASSUME Inv, NEW x \in Sentinels, NEW q, NEW d, Quiet(x, q, d)
    PROVE  /\ Types' /\ (\A s \in Sentinels : Local(s)') /\ Voted' /\ Elected'
           /\ \A s \in Sentinels : \A e \in 0..MaxEpoch : Pending(s, e)' =>
                Pending(s, e) \/ snt[s].current_epoch < e
<1> USE DEF Inv
<1>1. Types'
  <2>1. votes' \subseteq Sentinels \X (0..MaxEpoch) \X Runids
        /\ wins' \subseteq Sentinels \X (0..MaxEpoch)
    BY DEF Quiet, Types
  <2> QED BY <2>1, TypesStep DEF Quiet
<1>2. \A s \in Sentinels : Local(s)'
  <2>1. faults \in Nat /\ faults' \in Nat
    BY SentinelAssumption DEF SentinelAssumption, Quiet, Types
  <2> QED BY <2>1, LocalStep DEF Quiet
<1>3. /\ snt'[x] = q /\ disk'[x] = d
      /\ \A s \in Sentinels \ {x} : snt'[s] = snt[s] /\ disk'[s] = disk[s]
  BY DEF Quiet, Types
<1>4. \A s \in Sentinels :
        /\ snt[s].leader_epoch \in Nat /\ disk[s].current_epoch \in Nat
        /\ snt[s].leader_epoch <= snt[s].leader_epoch
        /\ disk[s].current_epoch <= disk[s].current_epoch
  BY DEF Types, Memory, Disks
<1>5. Voted'
  <2>1. \A s \in Sentinels :
          /\ snt'[s].leader \in {NoOne, snt[s].leader}
          /\ snt'[s].leader_epoch = snt[s].leader_epoch
    BY <1>3 DEF Quiet
  <2>2. \A s \in Sentinels : \A t \in DOMAIN snt'[s].sentinels :
          \/ snt'[s].sentinels[t].leader = NoOne
          \/ /\ t \in DOMAIN snt[s].sentinels
             /\ snt'[s].sentinels[t] = snt[s].sentinels[t]
    BY <1>3 DEF Quiet
  <2>3. \A s \in Sentinels : snt[s].leader_epoch <= snt'[s].leader_epoch
    BY <1>4, <2>1
  <2>4. votes' = votes
    BY DEF Quiet
  <2> QED BY <1>1, <2>1, <2>2, <2>3, <2>4, VotedStep
<1>6. Elected'
  <2>1. \A s \in Sentinels : disk[s].current_epoch <= disk'[s].current_epoch
    BY <1>3, <1>4 DEF Quiet
  <2>2. \A s \in Sentinels :
          snt'[s].state \in SELECT_SLAVE..UPDATE_CONFIG =>
            /\ snt[s].state \in SELECT_SLAVE..UPDATE_CONFIG
            /\ snt'[s].failover_epoch = snt[s].failover_epoch
    BY <1>3 DEF Quiet
  <2>3. \A s \in Sentinels :
          "FORCE_FAILOVER" \in snt'[s].flags =>
            \/ snt'[s].failover_epoch \in touched'
            \/ /\ "FORCE_FAILOVER" \in snt[s].flags
               /\ snt'[s].failover_epoch = snt[s].failover_epoch
    BY <1>3 DEF Quiet
  <2>4. votes \subseteq votes' /\ wins \subseteq wins' /\ touched \subseteq touched'
        /\ wins' \ wins = {}
    BY DEF Quiet
  <2> QED BY <1>1, <2>1, <2>2, <2>3, <2>4, ElectedStep
<1>7. ASSUME NEW s \in Sentinels, NEW e \in 0..MaxEpoch, Pending(s, e)'
      PROVE  Pending(s, e) \/ snt[s].current_epoch < e
  <2>1. CASE s = x
    BY <1>3, <1>7, <2>1 DEF Pending, Quiet
  <2>2. CASE s # x
    BY <1>3, <1>7, <2>2 DEF Pending
  <2> QED BY <2>1, <2>2
<1> QED
  BY <1>1, <1>2, <1>5, <1>6, <1>7

\* The configurations after a step of x.
LEMMA ConfigsStep ==
    ASSUME Types, NEW x \in Sentinels, NEW q, NEW d,
           snt' = [snt EXCEPT ![x] = q], disk' = [disk EXCEPT ![x] = d],
           hellos' = hellos, NEW c \in Configs'
    PROVE  \/ c \in Configs
           \/ c = <<q.config_epoch, CurrentMaster(q)>>
           \/ c = <<d.config_epoch, d.addr>>
<1>1. /\ snt'[x] = q /\ disk'[x] = d
      /\ \A s \in Sentinels \ {x} : snt'[s] = snt[s] /\ disk'[s] = disk[s]
  BY DEF Types
<1> QED
  BY <1>1 DEF Configs

LEMMA QuietKeeps ==
    ASSUME Inv, NEW x \in Sentinels, NEW q, NEW d, Quiet(x, q, d),
           \/ <<q.config_epoch, CurrentMaster(q)>> \in Configs
           \/ q.config_epoch \in touched',
           \/ <<d.config_epoch, d.addr>> \in Configs
           \/ <<d.config_epoch, d.addr>> = <<q.config_epoch, CurrentMaster(q)>>
    PROVE  Inv'
<1>1. /\ Types' /\ (\A s \in Sentinels : Local(s)') /\ Voted' /\ Elected'
      /\ \A s \in Sentinels : \A e \in 0..MaxEpoch : Pending(s, e)' =>
           Pending(s, e) \/ snt[s].current_epoch < e
  BY QuietStep
<1>2. ASSUME NEW c \in Configs'
      PROVE  c \in Configs \/ c[1] \in touched'
  <2>1. \/ c \in Configs
        \/ c = <<q.config_epoch, CurrentMaster(q)>>
        \/ c = <<d.config_epoch, d.addr>>
    <3>1. /\ Types /\ snt' = [snt EXCEPT ![x] = q]
          /\ disk' = [disk EXCEPT ![x] = d] /\ hellos' = hellos
      BY DEF Quiet, Inv
    <3> QED BY <1>2, <3>1, ConfigsStep
  <2> QED BY <2>1
<1>3. Agreed'
  BY <1>1, <1>2, AgreedStep DEF Inv, Quiet
<1> QED
  BY <1>1, <1>3 DEF Inv

\* What Inv says of one sentinel.
LEMMA InvOf ==
    ASSUME Inv, NEW s \in Sentinels
    PROVE  /\ snt[s] \in Memory /\ disk[s] \in Disks
           /\ Sound(s, snt[s], disk[s], faults) /\ Coherent(snt[s])
           /\ snt[s] = snt[s] /\ snt \in [Sentinels -> Memory]
           /\ disk \in [Sentinels -> Disks]
           /\ disk = [disk EXCEPT ![s] = disk[s]]
           /\ faults \in Nat /\ faults <= MaxFaults
           /\ <<snt[s].config_epoch, CurrentMaster(snt[s])>> \in Configs
           /\ <<disk[s].config_epoch, disk[s].addr>> \in Configs
           /\ disk[s].current_epoch \in Nat /\ snt[s].current_epoch \in Nat
           /\ disk[s].current_epoch <= snt[s].current_epoch
           /\ snt[s].run \in Nat /\ Runid(s) \in Runids
<1>1. snt \in [Sentinels -> Memory] /\ disk \in [Sentinels -> Disks]
      /\ faults \in 0..MaxFaults /\ MaxFaults \in Nat
  BY SentinelAssumption DEF Inv, Types, SentinelAssumption
<1>2. Sound(s, snt[s], disk[s], faults)
  BY DEF Inv, Local
<1>3. snt[s].run \in 0..MaxFaults /\ snt[s].current_epoch \in Nat
  BY <1>1 DEF Memory
<1>4. disk[s].current_epoch \in Nat
  BY <1>1 DEF Disks
<1> QED
  BY <1>1, <1>2, <1>3, <1>4 DEF Configs, Sound, Runid, Runids

\* The bounds of the behaviour are within those of the model.
LEMMA LimitFacts ==
    ASSUME Inv
    PROVE  /\ limit.faults \in 0..MaxFaults /\ limit.epochs \in 0..MaxEpoch
           /\ limit.calm \in BOOLEAN /\ MaxFaults \in Nat /\ MaxEpoch \in Nat
  BY SentinelAssumption DEF SentinelAssumption, Inv, Types

\* A step that only learns: q is like the memory of s, with peers that are the
\* same or have not voted, and is saved or not.
LEMMA LearnStep ==
    ASSUME Inv, NEW s \in Sentinels, NEW q, Like(snt[s], q),
           NEW d \in {disk[s], Saved(q)},
           snt' = [snt EXCEPT ![s] = q], disk' = [disk EXCEPT ![s] = d],
           \A t \in DOMAIN q.sentinels :
             \/ q.sentinels[t].leader = NoOne
             \/ t \in DOMAIN snt[s].sentinels /\ q.sentinels[t] = snt[s].sentinels[t],
           inst' = inst, hellos' = hellos, limit' = limit, faults' = faults, votes' = votes, wins' = wins,
           touched' = touched,
           slaveof' \subseteq Sentinels \X Instances \X (Instances \cup {NoOne})
    PROVE  Inv'
<1>1. /\ snt[s] \in Memory /\ Sound(s, snt[s], disk[s], faults)
      /\ disk[s] \in Disks /\ disk[s].current_epoch \in Nat
      /\ disk[s].current_epoch <= snt[s].current_epoch
      /\ <<snt[s].config_epoch, CurrentMaster(snt[s])>> \in Configs
      /\ <<disk[s].config_epoch, disk[s].addr>> \in Configs
      /\ snt[s].current_epoch \in Nat /\ faults \in 0..MaxFaults
  BY InvOf, LimitFacts
<1>2. /\ Saved(q) \in Disks
      /\ Saved(q).current_epoch = q.current_epoch
      /\ Saved(q).config_epoch = q.config_epoch
      /\ Saved(q).leader_epoch = q.leader_epoch
      /\ Saved(q).addr = CurrentMaster(q)
      /\ DOMAIN Saved(q).sentinels = DOMAIN q.sentinels
  BY SavedFacts DEF Like
<1>3. q.leader_epoch <= q.current_epoch
  BY DEF Like, Coherent
<1>4. d \in Disks /\ Sound(s, q, d, faults) /\ disk[s].current_epoch <= d.current_epoch
  <2>1. CASE d = disk[s]
    BY <1>1, <2>1 DEF Sound, Like
  <2>2. CASE d = Saved(q)
    BY <1>1, <1>2, <1>3, <2>2 DEF Sound, Like
  <2> QED BY <2>1, <2>2
<1>5. \/ <<d.config_epoch, d.addr>> \in Configs
      \/ <<d.config_epoch, d.addr>> = <<q.config_epoch, CurrentMaster(q)>>
  BY <1>1, <1>2
<1>6. <<q.config_epoch, CurrentMaster(q)>> \in Configs
  BY <1>1 DEF Like
<1>7. faults <= faults /\ touched \subseteq 0..MaxEpoch
  BY <1>1 DEF Inv, Types
<1>8. Quiet(s, q, d)
  BY <1>1, <1>4, <1>7 DEF Quiet, Like
<1> QED
  BY <1>5, <1>6, <1>8, QuietKeeps
-----------------------------------------------------------------------------
(* The actions *)

LEMMA InfoOfMasterKeeps ==
    ASSUME Inv, NEW s \in Sentinels, InfoOfMaster(s)
    PROVE  Inv'
<1> DEFINE r == snt[s]
           found == {j \in Instances : inst[j] = r.addr} \ DOMAIN r.slaves
           sl == [j \in found \cup DOMAIN r.slaves |->
                    IF j \in found THEN {} ELSE r.slaves[j]]
           q == [r EXCEPT !.slaves = sl]
           d == IF found # {} THEN Saved(q) ELSE disk[s]
<1>1. /\ r \in Memory /\ Sound(s, r, disk[s], faults) /\ Coherent(r)
      /\ disk[s] \in Disks /\ disk[s].current_epoch \in Nat
      /\ disk[s].current_epoch <= r.current_epoch /\ faults \in Nat
      /\ <<r.config_epoch, CurrentMaster(r)>> \in Configs
      /\ <<disk[s].config_epoch, disk[s].addr>> \in Configs
  BY InvOf
<1>2. /\ snt' = [snt EXCEPT ![s] = q]
      /\ disk' = [disk EXCEPT ![s] = d]
      /\ UNCHANGED <<inst, slaveof, hellos, limit, faults, votes, wins, touched>>
  BY InvOf DEF InfoOfMaster, net
<1>3. /\ r.slaves \in [DOMAIN r.slaves -> SUBSET SlaveFlags]
      /\ DOMAIN r.slaves \in SUBSET Instances
  BY <1>1, SlaveMapFacts DEF Memory
<1>4. found \in SUBSET Instances
  OBVIOUS
<1> HIDE DEF r, found
<1>5. sl \in [found \cup DOMAIN r.slaves -> SUBSET SlaveFlags]
  BY <1>3
<1>6. sl \in SlaveMaps /\ DOMAIN sl = found \cup DOMAIN r.slaves
  <2>1. found \cup DOMAIN r.slaves \in SUBSET Instances
    BY <1>3, <1>4
  <2> HIDE DEF sl
  <2> QED BY <2>1, <1>5, SlaveMapIntro
<1>7. \A j \in found \cup DOMAIN r.slaves :
        sl[j] = IF j \in found THEN {} ELSE r.slaves[j]
  OBVIOUS
<1> HIDE DEF sl
<1>8. /\ q \in Memory
      /\ q.run = r.run /\ q.config_epoch = r.config_epoch
      /\ q.current_epoch = r.current_epoch /\ q.addr = r.addr
      /\ q.leader = r.leader /\ q.leader_epoch = r.leader_epoch
      /\ q.failover_epoch = r.failover_epoch /\ q.flags = r.flags
      /\ q.sentinels = r.sentinels /\ q.slaves = sl
      /\ q.state = r.state /\ q.promoted = r.promoted
  BY <1>1, <1>6 DEF Memory
<1> HIDE DEF q
<1>9. Coherent(q) /\ CurrentMaster(q) = CurrentMaster(r)
  BY <1>1, <1>6, <1>7, <1>8 DEF Coherent, CurrentMaster
<1>10. d \in {disk[s], Saved(q)}
  OBVIOUS
<1> HIDE DEF d
<1>11. Like(snt[s], q)
  BY <1>8, <1>9 DEF Like, r
<1>12. q.sentinels = snt[s].sentinels
  BY <1>8 DEF r
<1>13. slaveof' \subseteq Sentinels \X Instances \X (Instances \cup {NoOne})
  BY <1>2 DEF Inv, Types
<1> QED
  BY <1>2, <1>10, <1>11, <1>12, <1>13, LearnStep

LEMMA ResetKeeps ==
    ASSUME Inv, NEW s \in Sentinels, ResetCommand(s)
    PROVE  Inv'
<1> DEFINE r == snt[s]
           q == Reset(r, FALSE)
<1>1. /\ r \in Memory /\ Sound(s, r, disk[s], faults) /\ Coherent(r)
      /\ disk[s] \in Disks /\ disk[s].current_epoch \in Nat
      /\ disk = [disk EXCEPT ![s] = disk[s]]
      /\ <<r.config_epoch, CurrentMaster(r)>> \in Configs
      /\ <<disk[s].config_epoch, disk[s].addr>> \in Configs
      /\ r.run \in Nat /\ faults \in Nat
  BY InvOf
<1>2. /\ q \in Memory /\ Coherent(q)
      /\ q.run = r.run /\ q.config_epoch = r.config_epoch
      /\ q.current_epoch = r.current_epoch
      /\ q.leader = NoOne /\ q.leader_epoch = r.leader_epoch
      /\ q.failover_epoch = r.failover_epoch /\ q.addr = r.addr
      /\ q.state = NONE /\ q.flags = {}
      /\ DOMAIN q.sentinels = {}
  BY <1>1, ResetFacts
<1>3. snt' = [snt EXCEPT ![s] = q]
  BY DEF ResetCommand
<1>4. /\ faults < limit.faults /\ faults' = faults + 1
      /\ UNCHANGED <<disk, inst, slaveof, hellos, limit, votes, wins>>
      /\ touched' = IF r.state >= RECONF_SLAVES
                    THEN touched \cup {r.config_epoch} ELSE touched
  BY DEF ResetCommand
<1> HIDE DEF q
<1>5. faults' \in 0..MaxFaults /\ faults <= faults' /\ r.run <= faults'
  BY <1>1, <1>4, LimitFacts DEF Sound
<1>6. r.state >= RECONF_SLAVES \/ CurrentMaster(q) = CurrentMaster(r)
  BY <1>2 DEF CurrentMaster
<1>7. touched \subseteq touched' /\ touched' \subseteq 0..MaxEpoch
  BY <1>1, <1>4 DEF Inv, Types, Memory
<1>8. \/ <<q.config_epoch, CurrentMaster(q)>> \in Configs
      \/ q.config_epoch \in touched'
  BY <1>1, <1>2, <1>4, <1>6
<1>9. Sound(s, q, disk[s], faults')
  BY <1>1, <1>2, <1>5 DEF Sound
<1>10. Quiet(s, q, disk[s])
  <2>1. slaveof' \subseteq Sentinels \X Instances \X (Instances \cup {NoOne})
    BY <1>4 DEF Inv, Types
  <2>2. disk[s].current_epoch <= disk[s].current_epoch
        /\ disk' = [disk EXCEPT ![s] = disk[s]]
    BY <1>1, <1>4
  <2> QED BY <1>1, <1>2, <1>3, <1>4, <1>5, <1>7, <1>9, <2>1, <2>2 DEF Quiet
<1> QED
  BY <1>1, <1>8, <1>10, QuietKeeps

LEMMA FailoverCommandKeeps ==
    ASSUME Inv, NEW s \in Sentinels, FailoverCommand(s)
    PROVE  Inv'
<1> DEFINE r == snt[s]
           p == StartFailover(r)
           fl == p.flags \cup {"FORCE_FAILOVER"}
           q == [p EXCEPT !.flags = fl]
<1>1. /\ r \in Memory /\ Sound(s, r, disk[s], faults) /\ Coherent(r)
      /\ disk[s] \in Disks /\ disk[s].current_epoch \in Nat
      /\ disk = [disk EXCEPT ![s] = disk[s]]
      /\ <<r.config_epoch, CurrentMaster(r)>> \in Configs
      /\ <<disk[s].config_epoch, disk[s].addr>> \in Configs
      /\ r.current_epoch \in Nat /\ snt \in [Sentinels -> Memory]
      /\ r.run \in Nat /\ faults \in Nat
  BY InvOf
<1>2. r.state = NONE /\ r.current_epoch < MaxEpoch
  BY <1>1, LimitFacts DEF FailoverCommand, Coherent
<1>3. /\ p \in Memory /\ Coherent(p)
      /\ p.run = r.run /\ p.config_epoch = r.config_epoch
      /\ p.leader = r.leader /\ p.leader_epoch = r.leader_epoch
      /\ p.slaves = r.slaves /\ p.sentinels = r.sentinels
      /\ p.state = WAIT_START
      /\ p.current_epoch = r.current_epoch + 1
      /\ p.failover_epoch = r.current_epoch + 1
      /\ p.flags = r.flags \cup {"FAILOVER_IN_PROGRESS"}
      /\ CurrentMaster(p) = CurrentMaster(r)
  BY <1>1, <1>2, StartFailoverFacts
<1>4. snt' = [snt EXCEPT ![s] = q]
  BY DEF FailoverCommand
<1>5. /\ faults < limit.faults /\ faults' = faults + 1
      /\ UNCHANGED <<disk, inst, slaveof, hellos, limit, votes, wins>>
      /\ touched' = touched \cup {snt'[s].failover_epoch}
  BY DEF FailoverCommand, net
<1> HIDE DEF p
<1>6. fl \in SUBSET MasterFlags
  BY <1>3 DEF Memory, MasterFlags
<1>7. "FAILOVER_IN_PROGRESS" \in fl <=> "FAILOVER_IN_PROGRESS" \in p.flags
  OBVIOUS
<1> HIDE DEF fl
<1>8. /\ q \in Memory
      /\ q.run = p.run /\ q.config_epoch = p.config_epoch
      /\ q.current_epoch = p.current_epoch /\ q.addr = p.addr
      /\ q.leader = p.leader /\ q.leader_epoch = p.leader_epoch
      /\ q.failover_epoch = p.failover_epoch /\ q.flags = fl
      /\ q.sentinels = p.sentinels /\ q.slaves = p.slaves
      /\ q.state = p.state /\ q.promoted = p.promoted
  BY <1>3, <1>6 DEF Memory
<1> HIDE DEF q
<1>9. Coherent(q) /\ CurrentMaster(q) = CurrentMaster(p)
  BY <1>3, <1>7, <1>8 DEF Coherent, CurrentMaster
<1>10. faults' \in 0..MaxFaults /\ faults <= faults' /\ r.run <= faults'
  BY <1>1, <1>5, LimitFacts DEF Sound
<1>11. /\ touched \subseteq touched' /\ touched' \subseteq 0..MaxEpoch
       /\ q.failover_epoch \in touched'
  <2>1. snt'[s] = q
    BY <1>1, <1>4
  <2> QED BY <1>5, <1>8, <2>1 DEF Inv, Types, Memory
<1>12. Sound(s, q, disk[s], faults')
  BY <1>1, <1>3, <1>8, <1>9, <1>10 DEF Sound
<1>13. Quiet(s, q, disk[s])
  <2>1. slaveof' \subseteq Sentinels \X Instances \X (Instances \cup {NoOne})
    BY <1>5 DEF Inv, Types
  <2>2. disk[s].current_epoch <= disk[s].current_epoch
        /\ disk' = [disk EXCEPT ![s] = disk[s]]
    BY <1>1, <1>5
  <2>3. q.failover_epoch > r.current_epoch /\ q.state = WAIT_START
    BY <1>1, <1>3, <1>8
  <2> QED
    BY <1>1, <1>3, <1>4, <1>5, <1>8, <1>10, <1>11, <1>12, <2>1, <2>2, <2>3
       DEF Quiet
<1> QED
  BY <1>1, <1>3, <1>8, <1>9, <1>13, QuietKeeps

\* A restart finds the epoch of its last vote in the file.
LEMMA RestartKeeps ==
    ASSUME Inv, NEW s \in Sentinels, Restart(s)
    PROVE  Inv'
<1> DEFINE r == snt[s]
           q == Loaded(disk[s], r.run + 1)
<1>1. /\ r \in Memory /\ Sound(s, r, disk[s], faults)
      /\ disk[s] \in Disks /\ disk[s].current_epoch \in Nat
      /\ disk = [disk EXCEPT ![s] = disk[s]]
      /\ <<disk[s].config_epoch, disk[s].addr>> \in Configs
      /\ r.run \in Nat /\ faults \in Nat
  BY InvOf
<1>2. /\ snt' = [snt EXCEPT ![s] = q]
      /\ faults < limit.faults /\ faults' = faults + 1
      /\ UNCHANGED <<disk, inst, slaveof, hellos, limit, votes, wins, touched>>
  BY DEF Restart
<1>3. r.run + 1 \in 0..MaxFaults /\ r.run + 1 <= faults'
      /\ faults' \in 0..MaxFaults /\ faults <= faults'
  BY <1>1, <1>2, LimitFacts DEF Sound
<1>4. disk[s].leader_epoch <= disk[s].current_epoch
  BY <1>1 DEF Sound
<1>5. /\ q \in Memory /\ Coherent(q)
      /\ q.run = r.run + 1 /\ q.config_epoch = disk[s].config_epoch
      /\ q.current_epoch >= disk[s].current_epoch
      /\ q.leader = NoOne /\ q.leader_epoch = disk[s].leader_epoch
      /\ q.state = NONE /\ q.flags = {} /\ q.failover_epoch = 0
      /\ DOMAIN q.sentinels = DOMAIN disk[s].sentinels
      /\ \A t \in DOMAIN q.sentinels : q.sentinels[t].leader = NoOne
      /\ CurrentMaster(q) = disk[s].addr
  BY <1>1, <1>3, <1>4, LoadedFacts
<1> HIDE DEF q
<1>6. Sound(s, q, disk[s], faults')
  <2>1. disk[s].current_epoch <= q.current_epoch
    BY <1>1, <1>5 DEF Memory
  <2> QED BY <1>1, <1>3, <1>4, <1>5, <2>1 DEF Sound
<1>7. Quiet(s, q, disk[s])
  <2>1. /\ slaveof' \subseteq Sentinels \X Instances \X (Instances \cup {NoOne})
        /\ touched \subseteq touched' /\ touched' \subseteq 0..MaxEpoch
    BY <1>2 DEF Inv, Types
  <2>2. disk[s].current_epoch <= disk[s].current_epoch
        /\ disk' = [disk EXCEPT ![s] = disk[s]]
        /\ q.leader_epoch = r.leader_epoch
    BY <1>1, <1>2, <1>5 DEF Sound
  <2> QED BY <1>1, <1>2, <1>3, <1>5, <1>6, <2>1, <2>2 DEF Quiet
<1> QED
  BY <1>1, <1>5, <1>7, QuietKeeps

\* The servers and the links: nothing of a sentinel changes.
LEMMA UnchangedSentinels ==
    ASSUME Inv,
           UNCHANGED <<snt, disk, hellos, limit, faults, votes, wins, touched>>,
           inst' \in [Instances -> Instances \cup {NoOne}],
           slaveof' \subseteq Sentinels \X Instances \X (Instances \cup {NoOne})
    PROVE  Inv'
<1>1. Types'
  BY DEF Inv, Types
<1>2. (\A s \in Sentinels : Local(s))' /\ Voted' /\ Elected' /\ Agreed'
  BY DEF Inv, Local, Voted, OneVotePerEpoch, Elected, Voters, Agreed, Configs,
         Over, Pending
<1> QED
  BY <1>1, <1>2 DEF Inv

LEMMA SlaveOfKeeps ==
    ASSUME Inv, SlaveOf
    PROVE  Inv'
<1>1. /\ inst' \in [Instances -> Instances \cup {NoOne}]
      /\ slaveof' \subseteq Sentinels \X Instances \X (Instances \cup {NoOne})
      /\ UNCHANGED <<snt, disk, hellos, limit, faults, votes, wins, touched>>
  BY DEF SlaveOf, net, Inv, Types
<1> QED
  BY <1>1, UnchangedSentinels

LEMMA ReconfiguredFacts ==
    ASSUME NEW r \in Memory, Coherent(r), NEW i \in DOMAIN r.slaves,
           NEW linked \in BOOLEAN
    PROVE  Like(r, Reconfigured(r, i, linked))
           /\ Reconfigured(r, i, linked).sentinels = r.sentinels
<1> DEFINE f1 == IF "RECONF_SENT" \in r.slaves[i] /\ inst[i] = r.promoted
                 THEN (r.slaves[i] \ {"RECONF_SENT"}) \cup {"RECONF_INPROG"}
                 ELSE r.slaves[i]
           f2 == IF "RECONF_INPROG" \in f1 /\ linked
                 THEN (f1 \ {"RECONF_INPROG"}) \cup {"RECONF_DONE"} ELSE f1
           sl == [r.slaves EXCEPT ![i] = f2]
           q == Reconfigured(r, i, linked)
<1>1. /\ r.slaves \in [DOMAIN r.slaves -> SUBSET SlaveFlags]
      /\ DOMAIN r.slaves \in SUBSET Instances
  BY SlaveMapFacts DEF Memory
<1>2. f1 \in SUBSET SlaveFlags
      /\ ("RECONF_SENT" \in f1 => "RECONF_SENT" \in r.slaves[i])
  BY <1>1 DEF SlaveFlags
<1> HIDE DEF f1
<1>3. f2 \in SUBSET SlaveFlags
      /\ ("RECONF_SENT" \in f2 => "RECONF_SENT" \in r.slaves[i])
  BY <1>2 DEF SlaveFlags
<1> HIDE DEF f2
<1>4. sl \in SlaveMaps /\ DOMAIN sl = DOMAIN r.slaves
  <2>1. sl \in [DOMAIN r.slaves -> SUBSET SlaveFlags]
    BY <1>1, <1>3
  <2> QED BY <1>1, <2>1, SlaveMapIntro
<1>5. \A j \in DOMAIN sl : "RECONF_SENT" \in sl[j] => "RECONF_SENT" \in r.slaves[j]
  BY <1>1, <1>3
<1>6. q = [r EXCEPT !.slaves = sl]
  BY DEF Reconfigured, f1, f2, Memory
<1> HIDE DEF q, sl
<1>7. /\ q \in Memory
      /\ q.run = r.run /\ q.config_epoch = r.config_epoch
      /\ q.current_epoch = r.current_epoch /\ q.addr = r.addr
      /\ q.leader = r.leader /\ q.leader_epoch = r.leader_epoch
      /\ q.failover_epoch = r.failover_epoch /\ q.flags = r.flags
      /\ q.sentinels = r.sentinels /\ q.slaves = sl
      /\ q.state = r.state /\ q.promoted = r.promoted
  BY <1>4, <1>6 DEF Memory
<1>8. Coherent(q) /\ CurrentMaster(q) = CurrentMaster(r)
  BY <1>4, <1>5, <1>7 DEF Coherent, CurrentMaster
<1> QED
  BY <1>7, <1>8 DEF Like, q

\* A leader promotes once in an epoch, and nobody else does.
LEMMA PromotionKeeps ==
    ASSUME Inv, NEW s \in Sentinels, NEW q, NEW d, Quiet(s, q, d),
           snt[s].state = WAIT_PROMOTION, q.state = RECONF_SLAVES,
           NEW e \in 0..MaxEpoch, e # 0, snt[s].failover_epoch = e,
           q.config_epoch = e, d.config_epoch = e, d.addr = CurrentMaster(q)
    PROVE  Inv'
<1>1. /\ Types' /\ (\A t \in Sentinels : Local(t)') /\ Voted' /\ Elected'
      /\ \A t \in Sentinels : \A n \in 0..MaxEpoch : Pending(t, n)' =>
           Pending(t, n) \/ snt[t].current_epoch < n
  BY QuietStep
<1>2. Types /\ Elected /\ Agreed /\ \A t \in Sentinels : Local(t)
  BY DEF Inv
<1>3. /\ snt' = [snt EXCEPT ![s] = q] /\ disk' = [disk EXCEPT ![s] = d]
      /\ hellos' = hellos /\ wins' = wins /\ touched \subseteq touched'
  BY DEF Quiet
<1>4. \A c \in Configs' : c \in Configs \/ c = <<e, CurrentMaster(q)>>
  <2>1. ASSUME NEW c \in Configs'
        PROVE  \/ c \in Configs
               \/ c = <<q.config_epoch, CurrentMaster(q)>>
               \/ c = <<d.config_epoch, d.addr>>
    BY <1>2, <1>3, ConfigsStep
  <2> QED BY <2>1
<1>5. Pending(s, e) /\ ~Pending(s, e)'
  <2>1. snt'[s] = q
    BY <1>2, <1>3 DEF Types
  <2> QED BY <2>1 DEF Pending
<1>6. ASSUME e \notin touched
      PROVE  Over(e)' /\ \A c \in Configs : c[1] # e
  <2>1. <<s, e>> \in wins
    <3>1. snt[s].state \in SELECT_SLAVE..UPDATE_CONFIG
      OBVIOUS
    <3> QED BY <1>2, <1>6, <3>1 DEF Elected
  <2>2. Over(e)'
    BY <1>3, <1>5, <2>1 DEF Over
  <2>3. OneLeaderPerEpoch
    BY LeaderUnique DEF Inv
  <2>4. ~Over(e)
    BY <1>5, <1>6, <2>1, <2>3 DEF Over, OneLeaderPerEpoch
  <2>5. \A c \in Configs : c[1] # e
    BY <1>2, <1>6, <2>4 DEF Agreed
  <2> QED BY <2>2, <2>5
<1>7. Agreed'
  <2> SUFFICES ASSUME NEW f, f = <<e, CurrentMaster(q)>> PROVE Agreed'
    OBVIOUS
  <2>1. f[1] = e /\ \A c \in Configs' : c \in Configs \/ c = f
    BY <1>4
  <2>2. \/ f[1] \in touched'
        \/ f[1] # 0 /\ Over(f[1])' /\ \A c \in Configs : c[1] # f[1]
    BY <1>3, <1>6, <2>1
  <2>3. wins \subseteq wins'
    BY <1>3
  <2> QED BY <1>1, <1>2, <1>3, <2>1, <2>2, <2>3, PromotionStep
<1> QED
  BY <1>1, <1>7 DEF Inv

LEMMA PromotedKeeps ==
    ASSUME Inv, NEW s \in Sentinels, snt[s].state = WAIT_PROMOTION,
           "FAILOVER_IN_PROGRESS" \in snt[s].flags,
           snt' = [snt EXCEPT ![s] = Promoted(snt[s])],
           disk' = [disk EXCEPT ![s] = Saved(snt'[s])],
           slaveof' \subseteq Sentinels \X Instances \X (Instances \cup {NoOne}),
           UNCHANGED <<inst, hellos, limit, faults, votes, wins, touched>>
    PROVE  Inv'
<1> DEFINE r == snt[s]
           e == r.failover_epoch
           q == Promoted(r)
           d == Saved(q)
<1>1. /\ r \in Memory /\ Sound(s, r, disk[s], faults) /\ Coherent(r)
      /\ disk[s] \in Disks /\ disk[s].current_epoch \in Nat
      /\ disk[s].current_epoch <= r.current_epoch
      /\ r.current_epoch \in Nat /\ snt \in [Sentinels -> Memory]
  BY InvOf
<1>2. faults \in 0..MaxFaults /\ touched \subseteq 0..MaxEpoch /\ e \in 0..MaxEpoch
  BY <1>1 DEF Inv, Types, Memory
<1>3. r.promoted \in DOMAIN r.slaves /\ r.promoted # NoOne /\ e # 0
  BY <1>1, SlaveMapFacts, SentinelAssumption
     DEF Coherent, Memory, SentinelAssumption
<1>4. q = [r EXCEPT !.config_epoch = e, !.state = RECONF_SLAVES]
  BY DEF Promoted
<1> HIDE DEF q
<1>5. /\ q \in Memory
      /\ q.run = r.run /\ q.config_epoch = e
      /\ q.current_epoch = r.current_epoch /\ q.addr = r.addr
      /\ q.leader = r.leader /\ q.leader_epoch = r.leader_epoch
      /\ q.failover_epoch = e /\ q.flags = r.flags
      /\ q.sentinels = r.sentinels /\ q.slaves = r.slaves
      /\ q.state = RECONF_SLAVES /\ q.promoted = r.promoted
  BY <1>1, <1>2, <1>4, StatesFacts DEF Memory
<1>6. Coherent(q)
  BY <1>1, <1>3, <1>5 DEF Coherent
<1>7. /\ d \in Disks
      /\ d.current_epoch = q.current_epoch
      /\ d.config_epoch = q.config_epoch
      /\ d.leader_epoch = q.leader_epoch
      /\ d.addr = CurrentMaster(q)
      /\ DOMAIN d.sentinels = DOMAIN q.sentinels
  BY <1>5, <1>6, SavedFacts
<1>8. snt' = [snt EXCEPT ![s] = q] /\ disk' = [disk EXCEPT ![s] = d]
  BY <1>1 DEF q
<1> HIDE DEF d
<1>9. Sound(s, q, d, faults)
  <2>1. q.leader_epoch <= q.current_epoch /\ q.current_epoch <= q.current_epoch
    BY <1>1, <1>5, <1>6 DEF Coherent
  <2> QED BY <1>1, <1>5, <1>6, <1>7, <2>1 DEF Sound
<1>10. Quiet(s, q, d)
  <2>1. /\ inst' = inst /\ votes' = votes /\ wins' = wins
        /\ hellos' = hellos /\ limit' = limit
        /\ faults' \in 0..MaxFaults /\ faults <= faults'
        /\ touched \subseteq touched' /\ touched' \subseteq 0..MaxEpoch
        /\ Sound(s, q, d, faults')
    BY <1>2, <1>9
  <2>2. disk[s].current_epoch <= d.current_epoch
    BY <1>1, <1>5, <1>7
  <2>3. snt[s].state \in SELECT_SLAVE..UPDATE_CONFIG
        /\ q.state \notin WAIT_START..WAIT_PROMOTION
    BY <1>5
  <2> QED BY <1>5, <1>7, <1>8, <2>1, <2>2, <2>3 DEF Quiet
<1> QED
  BY <1>2, <1>3, <1>5, <1>7, <1>10, PromotionKeeps

LEMMA InfoOfSlaveKeeps ==
    ASSUME Inv, NEW s \in Sentinels, NEW i \in DOMAIN snt[s].slaves,
           InfoOfSlave(s, i)
    PROVE  Inv'
<1> DEFINE r == snt[s]
           acked == /\ inst[i] = NoOne
                    /\ "PROMOTED" \in r.slaves[i]
                    /\ "FAILOVER_IN_PROGRESS" \in r.flags
                    /\ r.state = WAIT_PROMOTION
<1>1. PICK linked \in BOOLEAN, fix \in BOOLEAN :
        /\ snt' = [snt EXCEPT ![s] =
                     IF acked THEN Promoted(r)
                     ELSE IF inst[i] # NoOne THEN Reconfigured(r, i, linked)
                     ELSE r]
        /\ disk' = IF acked THEN [disk EXCEPT ![s] = Saved(snt'[s])] ELSE disk
        /\ SendSlaveOf(s, IF fix THEN [j \in {i} |-> r.addr] ELSE Silent)
  BY DEF InfoOfSlave
<1>2. UNCHANGED <<inst, hellos, limit, faults, votes, wins, touched>>
  BY DEF InfoOfSlave, net
<1>3. /\ r \in Memory /\ Coherent(r) /\ Sound(s, r, disk[s], faults)
      /\ disk = [disk EXCEPT ![s] = disk[s]]
  BY InvOf
<1>4. slaveof' \subseteq Sentinels \X Instances \X (Instances \cup {NoOne})
  <2>1. i \in Instances /\ r.addr \in Instances
    BY <1>3, SlaveMapFacts DEF Memory
  <2>2. slaveof \subseteq Sentinels \X Instances \X (Instances \cup {NoOne})
    BY DEF Inv, Types
  <2>3. CASE fix
    BY <1>1, <2>1, <2>2, <2>3 DEF SendSlaveOf
  <2>4. CASE ~fix
    BY <1>1, <2>2, <2>4 DEF SendSlaveOf, Silent
  <2> QED BY <2>3, <2>4
<1>5. CASE acked
  <2>1. snt' = [snt EXCEPT ![s] = Promoted(snt[s])]
        /\ disk' = [disk EXCEPT ![s] = Saved(snt'[s])]
    BY <1>1, <1>5
  <2> QED BY <1>2, <1>4, <1>5, <2>1, PromotedKeeps
<1>6. CASE ~acked
  <2> DEFINE q == IF inst[i] # NoOne THEN Reconfigured(r, i, linked) ELSE r
  <2>1. snt' = [snt EXCEPT ![s] = q] /\ disk' = [disk EXCEPT ![s] = disk[s]]
    BY <1>1, <1>3, <1>6
  <2>2. Like(r, q) /\ q.sentinels = r.sentinels
    BY <1>3, ReconfiguredFacts, SelfLike
  <2> HIDE DEF q, acked
  <2> QED BY <1>2, <1>4, <2>1, <2>2, LearnStep
<1> QED
  BY <1>5, <1>6

\* Memory q of s has learnt of a peer, of a newer epoch or of a configuration.
Adopts(r, q) ==
    /\ q \in Memory /\ Coherent(q)
    /\ q.run = r.run
    /\ q.leader_epoch = r.leader_epoch
    /\ q.leader \in {NoOne, r.leader}
    /\ q.failover_epoch = r.failover_epoch
    /\ r.current_epoch <= q.current_epoch
    /\ q.state \in {NONE, r.state}
    /\ q.flags \in {{}, r.flags}
    /\ \A t \in DOMAIN q.sentinels :
         \/ q.sentinels[t].leader = NoOne
         \/ t \in DOMAIN r.sentinels /\ q.sentinels[t] = r.sentinels[t]

LEMMA AdoptsSelf ==
    ASSUME NEW r \in Memory, Coherent(r)
    PROVE  Adopts(r, r)
<1>1. r.current_epoch <= r.current_epoch
  BY DEF Memory
<1> QED
  BY <1>1 DEF Adopts

LEMMA AdoptsTransitive ==
    ASSUME NEW r \in Memory, NEW p, NEW q, Adopts(r, p), Adopts(p, q)
    PROVE  Adopts(r, q)
<1>1. r.current_epoch <= q.current_epoch
  BY DEF Adopts, Memory
<1> QED
  BY <1>1 DEF Adopts

LEMMA MeetFacts ==
    ASSUME NEW r \in Memory, Coherent(r), NEW runid \in Runids
    PROVE  LET q == Meet(r, runid)
           IN /\ Adopts(r, q)
              /\ q.config_epoch = r.config_epoch /\ q.addr = r.addr
              /\ q.current_epoch = r.current_epoch
              /\ CurrentMaster(q) = CurrentMaster(r)
<1> DEFINE q == Meet(r, runid)
           D == {runid[1]} \cup DOMAIN r.sentinels
           se == [t \in D |-> IF t = runid[1] THEN NewPeer(runid)
                              ELSE r.sentinels[t]]
<1>1. r.sentinels \in [DOMAIN r.sentinels -> Peers]
      /\ D \in SUBSET Sentinels
  BY PeerMapFacts DEF Memory, Runids
<1>2. NewPeer(runid) \in Peers /\ NewPeer(runid).leader = NoOne
  BY SentinelAssumption DEF NewPeer, Peers, SentinelAssumption
<1>3. se \in [D -> Peers]
  BY <1>1, <1>2
<1>4. \A t \in D : \/ se[t].leader = NoOne
                   \/ t \in DOMAIN r.sentinels /\ se[t] = r.sentinels[t]
  BY <1>2
<1>5. q = [r EXCEPT !.sentinels = se]
  BY DEF Meet
<1> HIDE DEF D
<1>6. se \in PeerMaps /\ DOMAIN se = D
  BY <1>1, <1>3, PeerMapIntro
<1> HIDE DEF q, se
<1>7. /\ q \in Memory
      /\ q.run = r.run /\ q.config_epoch = r.config_epoch
      /\ q.current_epoch = r.current_epoch /\ q.addr = r.addr
      /\ q.leader = r.leader /\ q.leader_epoch = r.leader_epoch
      /\ q.failover_epoch = r.failover_epoch /\ q.flags = r.flags
      /\ q.sentinels = se /\ q.slaves = r.slaves
      /\ q.state = r.state /\ q.promoted = r.promoted
  BY <1>5, <1>6 DEF Memory
<1>8. Coherent(q) /\ CurrentMaster(q) = CurrentMaster(r)
  BY <1>7 DEF Coherent, CurrentMaster
<1>9. r.current_epoch <= q.current_epoch
  BY <1>7 DEF Memory
<1>10. Adopts(r, q)
  BY <1>1, <1>4, <1>6, <1>7, <1>8, <1>9 DEF Adopts
<1> QED
  BY <1>7, <1>8, <1>10 DEF q

LEMMA NewerEpochFacts ==
    ASSUME NEW r \in Memory, Coherent(r), NEW n \in 0..MaxEpoch, n > r.current_epoch
    PROVE  LET q == [r EXCEPT !.current_epoch = n]
           IN /\ Adopts(r, q)
              /\ q.config_epoch = r.config_epoch /\ q.addr = r.addr
              /\ CurrentMaster(q) = CurrentMaster(r)
<1> DEFINE q == [r EXCEPT !.current_epoch = n]
<1>1. /\ q \in Memory
      /\ q.run = r.run /\ q.config_epoch = r.config_epoch
      /\ q.current_epoch = n /\ q.addr = r.addr
      /\ q.leader = r.leader /\ q.leader_epoch = r.leader_epoch
      /\ q.failover_epoch = r.failover_epoch /\ q.flags = r.flags
      /\ q.sentinels = r.sentinels /\ q.slaves = r.slaves
      /\ q.state = r.state /\ q.promoted = r.promoted
  BY DEF Memory
<1> HIDE DEF q
<1>2. /\ r.current_epoch <= q.current_epoch
      /\ q.leader_epoch <= q.current_epoch
      /\ q.failover_epoch <= q.current_epoch
  BY <1>1 DEF Memory, Coherent
<1>3. Coherent(q) /\ CurrentMaster(q) = CurrentMaster(r)
  BY <1>1, <1>2 DEF Coherent, CurrentMaster
<1> QED
  BY <1>1, <1>2, <1>3 DEF Adopts, q

LEMMA NewerConfigFacts ==
    ASSUME NEW r \in Memory, Coherent(r), NEW n \in 0..MaxEpoch
    PROVE  LET q == [r EXCEPT !.config_epoch = n]
           IN /\ Adopts(r, q) /\ q.current_epoch = r.current_epoch
              /\ q.config_epoch = n /\ q.addr = r.addr
<1> DEFINE q == [r EXCEPT !.config_epoch = n]
<1>1. /\ q \in Memory
      /\ q.run = r.run /\ q.config_epoch = n
      /\ q.current_epoch = r.current_epoch /\ q.addr = r.addr
      /\ q.leader = r.leader /\ q.leader_epoch = r.leader_epoch
      /\ q.failover_epoch = r.failover_epoch /\ q.flags = r.flags
      /\ q.sentinels = r.sentinels /\ q.slaves = r.slaves
      /\ q.state = r.state /\ q.promoted = r.promoted
  BY DEF Memory
<1> HIDE DEF q
<1>2. r.current_epoch <= q.current_epoch
  BY <1>1 DEF Memory
<1>3. Coherent(q)
  BY <1>1 DEF Coherent
<1> QED
  BY <1>1, <1>2, <1>3 DEF Adopts, q

\* What s adopts, saved at some point p on the way or not.
LEMMA AdoptsKeeps ==
    ASSUME Inv, NEW s \in Sentinels, NEW q, Adopts(snt[s], q),
           NEW p, Adopts(snt[s], p), p.current_epoch <= q.current_epoch,
           NEW d \in {disk[s], Saved(p)},
           snt' = [snt EXCEPT ![s] = q], disk' = [disk EXCEPT ![s] = d],
           UNCHANGED <<inst, slaveof, hellos, limit, faults, votes, wins>>,
           touched \subseteq touched', touched' \subseteq 0..MaxEpoch,
           \/ <<q.config_epoch, CurrentMaster(q)>> \in Configs
           \/ q.config_epoch \in touched',
           \/ <<p.config_epoch, CurrentMaster(p)>> \in Configs
           \/ p = q
    PROVE  Inv'
<1>1. /\ snt[s] \in Memory /\ Sound(s, snt[s], disk[s], faults)
      /\ disk[s] \in Disks /\ disk[s].current_epoch \in Nat
      /\ disk[s].current_epoch <= snt[s].current_epoch
      /\ <<disk[s].config_epoch, disk[s].addr>> \in Configs
      /\ snt[s].current_epoch \in Nat
  BY InvOf
<1>2. faults \in 0..MaxFaults /\ faults <= faults
      /\ slaveof \subseteq Sentinels \X Instances \X (Instances \cup {NoOne})
  <2>1. faults \in 0..MaxFaults
    BY DEF Inv, Types
  <2> QED BY <2>1 DEF Inv, Types
<1>3. /\ p \in Memory /\ Coherent(p) /\ q \in Memory /\ Coherent(q)
      /\ p.leader_epoch = snt[s].leader_epoch
      /\ q.leader_epoch = snt[s].leader_epoch
      /\ p.leader_epoch <= p.current_epoch
      /\ snt[s].current_epoch <= p.current_epoch
      /\ p.current_epoch \in Nat /\ q.current_epoch \in Nat
  BY DEF Adopts, Coherent, Memory
<1>4. /\ Saved(p) \in Disks
      /\ Saved(p).current_epoch = p.current_epoch
      /\ Saved(p).config_epoch = p.config_epoch
      /\ Saved(p).leader_epoch = p.leader_epoch
      /\ Saved(p).addr = CurrentMaster(p)
      /\ DOMAIN Saved(p).sentinels = DOMAIN p.sentinels
  BY <1>3, SavedFacts
<1>5. /\ d \in Disks /\ disk[s].current_epoch <= d.current_epoch
      /\ d.current_epoch <= q.current_epoch
      /\ d.leader_epoch <= d.current_epoch
      /\ d.leader_epoch = snt[s].leader_epoch
  <2>1. CASE d = disk[s]
    BY <1>1, <1>3, <2>1 DEF Sound
  <2>2. CASE d = Saved(p)
    BY <1>1, <1>3, <1>4, <2>2
  <2> QED BY <2>1, <2>2
<1>6. \/ <<d.config_epoch, d.addr>> \in Configs
      \/ <<d.config_epoch, d.addr>> = <<q.config_epoch, CurrentMaster(q)>>
  BY <1>1, <1>4
<1>7. Sound(s, q, d, faults)
  BY <1>1, <1>3, <1>5 DEF Sound, Adopts
<1>8. Quiet(s, q, d)
  <2>1. /\ inst' = inst /\ votes' = votes /\ wins' = wins
        /\ faults' \in 0..MaxFaults /\ faults <= faults'
        /\ slaveof' \subseteq Sentinels \X Instances \X (Instances \cup {NoOne})
        /\ hellos' = hellos /\ limit' = limit
        /\ Sound(s, q, d, faults')
    BY <1>2, <1>7
  <2>2. "FORCE_FAILOVER" \in q.flags =>
          /\ "FORCE_FAILOVER" \in snt[s].flags
          /\ q.failover_epoch = snt[s].failover_epoch
    BY DEF Adopts
  <2>3. q.state # NONE => q.state = snt[s].state
                          /\ q.failover_epoch = snt[s].failover_epoch
    BY DEF Adopts
  <2>4. \A t \in DOMAIN q.sentinels :
          \/ q.sentinels[t].leader = NoOne
          \/ t \in DOMAIN snt[s].sentinels /\ q.sentinels[t] = snt[s].sentinels[t]
    BY DEF Adopts
  <2>5. q.leader \in {NoOne, snt[s].leader}
    BY DEF Adopts
  <2> QED
    BY <1>3, <1>5, <2>1, <2>2, <2>3, <2>4, <2>5 DEF Quiet
<1> QED
  BY <1>6, <1>8, QuietKeeps

\* A hello brings a configuration that its sender had when it was published.
LEMMA ProcessHelloKeeps ==
    ASSUME Inv, NEW s \in Sentinels, NEW h \in hellos, ProcessHello(s, h)
    PROVE  Inv'
<1> DEFINE t == h.from[1]
           new == t \in DOMAIN snt[s].sentinels =>
                    snt[s].sentinels[t].runid # h.from
           r1 == IF new THEN Meet(snt[s], h.from) ELSE snt[s]
           newer == h.current_epoch > r1.current_epoch
           r2 == IF newer THEN [r1 EXCEPT !.current_epoch = h.current_epoch]
                 ELSE r1
           update == r2.config_epoch < h.config_epoch
           r3 == IF update THEN [r2 EXCEPT !.config_epoch = h.config_epoch]
                 ELSE r2
           switch == update /\ r3.addr # h.addr
           r4 == IF switch THEN SwitchTo(r3, h.addr) ELSE r3
<1>1. /\ snt' = [snt EXCEPT ![s] = r4]
      /\ disk' = CASE switch -> [disk EXCEPT ![s] = Saved(r4)]
                   [] ~switch /\ newer -> [disk EXCEPT ![s] = Saved(r2)]
                   [] ~switch /\ ~newer /\ new -> [disk EXCEPT ![s] = Saved(r1)]
                   [] OTHER -> disk
      /\ touched' = IF update /\ CurrentMaster(r4) # h.addr
                    THEN touched \cup {h.config_epoch} ELSE touched
      /\ UNCHANGED <<inst, slaveof, hellos, limit, faults, votes, wins>>
  BY DEF ProcessHello
<1>3. /\ snt[s] \in Memory /\ Coherent(snt[s])
      /\ disk = [disk EXCEPT ![s] = disk[s]]
      /\ <<snt[s].config_epoch, CurrentMaster(snt[s])>> \in Configs
  BY InvOf
<1>4. /\ h.from \in Runids
      /\ h.current_epoch \in 0..MaxEpoch /\ h.config_epoch \in 0..MaxEpoch
      /\ h.addr \in Instances /\ <<h.config_epoch, h.addr>> \in Configs
  BY DEF Inv, Types, Hellos, Configs
<1>5. /\ Adopts(snt[s], r1)
      /\ r1.config_epoch = snt[s].config_epoch /\ r1.addr = snt[s].addr
      /\ r1.current_epoch = snt[s].current_epoch
      /\ CurrentMaster(r1) = CurrentMaster(snt[s])
  <2>1. CASE new
    <3>1. r1 = Meet(snt[s], h.from)
      BY <2>1
    <3>2. snt[s] \in Memory /\ Coherent(snt[s]) /\ h.from \in Runids
      BY <1>3, <1>4
    <3> HIDE DEF r1, new
    <3> QED BY <3>1, <3>2, MeetFacts
  <2>2. CASE ~new
    <3>1. r1 = snt[s]
      BY <2>2
    <3> HIDE DEF r1, new
    <3> QED BY <1>3, <3>1, AdoptsSelf
  <2> HIDE DEF r1, new
  <2> QED BY <2>1, <2>2
<1> HIDE DEF r1, new
<1>6. r1 \in Memory /\ Coherent(r1) /\ Adopts(r1, r1)
  BY <1>5, AdoptsSelf DEF Adopts
<1>7. /\ Adopts(r1, r2)
      /\ r2.config_epoch = r1.config_epoch /\ r2.addr = r1.addr
      /\ CurrentMaster(r2) = CurrentMaster(r1)
  BY <1>4, <1>6, NewerEpochFacts
<1> HIDE DEF r2, newer
<1>8. r2 \in Memory /\ Coherent(r2) /\ Adopts(r2, r2)
  BY <1>7, AdoptsSelf DEF Adopts
<1>9. /\ Adopts(r2, r3) /\ r3.current_epoch = r2.current_epoch
      /\ r3.config_epoch = IF update THEN h.config_epoch ELSE r2.config_epoch
      /\ r3.addr = r2.addr
      /\ ~update => r3 = r2
  BY <1>4, <1>8, NewerConfigFacts
<1> HIDE DEF r3, update
<1>10. r3 \in Memory /\ Coherent(r3) /\ Adopts(r3, r3)
  BY <1>9, AdoptsSelf DEF Adopts
<1>11. /\ Adopts(r3, r4) /\ r4.current_epoch = r3.current_epoch
       /\ r4.config_epoch = r3.config_epoch
       /\ switch => CurrentMaster(r4) = h.addr
       /\ ~switch => r4 = r3
  <2>1. CASE switch
    <3> DEFINE q == SwitchTo(r3, h.addr)
    <3>1. r4 = q
      BY <2>1
    <3>2. /\ q \in Memory /\ Coherent(q)
          /\ q.run = r3.run /\ q.config_epoch = r3.config_epoch
          /\ q.current_epoch = r3.current_epoch
          /\ q.leader = NoOne /\ q.leader_epoch = r3.leader_epoch
          /\ q.failover_epoch = r3.failover_epoch
          /\ q.state = NONE /\ q.flags = {}
          /\ q.sentinels = r3.sentinels
          /\ CurrentMaster(q) = h.addr
      BY <1>4, <1>10, SwitchToFacts
    <3> HIDE DEF q
    <3>3. r3.current_epoch <= q.current_epoch
      BY <3>2 DEF Memory
    <3>4. Adopts(r3, q)
      BY <1>10, <3>2, <3>3 DEF Adopts
    <3> QED BY <2>1, <3>1, <3>2, <3>4
  <2>2. CASE ~switch
    BY <1>10, <2>2
  <2> QED BY <2>1, <2>2
<1>12. switch => update
  OBVIOUS
<1> HIDE DEF r4, switch
<1>13. Adopts(snt[s], r2) /\ Adopts(snt[s], r4)
       /\ r1.current_epoch <= r4.current_epoch /\ r2.current_epoch <= r4.current_epoch
       /\ r4.current_epoch <= r4.current_epoch
  <2>1. Adopts(snt[s], r2)
    BY <1>3, <1>5, <1>7, AdoptsTransitive
  <2>2. Adopts(snt[s], r3)
    BY <1>3, <1>9, <2>1, AdoptsTransitive
  <2>3. Adopts(snt[s], r4)
    BY <1>3, <1>11, <2>2, AdoptsTransitive
  <2>4. r1.current_epoch <= r2.current_epoch /\ r2.current_epoch = r4.current_epoch
    BY <1>7, <1>9, <1>11 DEF Adopts
  <2>5. r2.current_epoch \in Nat
    BY <1>8 DEF Memory
  <2> QED BY <2>1, <2>3, <2>4, <2>5
<1>14. touched \subseteq touched' /\ touched' \subseteq 0..MaxEpoch
  BY <1>1, <1>4 DEF Inv, Types
<1>15. \/ <<r4.config_epoch, CurrentMaster(r4)>> \in Configs
       \/ r4.config_epoch \in touched'
  <2>1. CASE update
    <3>1. r4.config_epoch = h.config_epoch
      BY <1>9, <1>11, <2>1
    <3> QED BY <1>1, <1>4, <2>1, <3>1
  <2>2. CASE ~update
    <3>1. r4 = r2
      BY <1>9, <1>11, <1>12, <2>2
    <3> QED BY <1>3, <1>5, <1>7, <3>1
  <2> QED BY <2>1, <2>2
<1>16. CASE disk' = [disk EXCEPT ![s] = Saved(r4)]
  BY <1>1, <1>13, <1>14, <1>15, <1>16, AdoptsKeeps
<1>17. CASE disk' = [disk EXCEPT ![s] = Saved(r2)]
  <2>1. <<r2.config_epoch, CurrentMaster(r2)>> \in Configs
    BY <1>3, <1>5, <1>7
  <2> QED BY <1>1, <1>13, <1>14, <1>15, <1>17, <2>1, AdoptsKeeps
<1>18. CASE disk' = [disk EXCEPT ![s] = Saved(r1)]
  <2>1. <<r1.config_epoch, CurrentMaster(r1)>> \in Configs
    BY <1>3, <1>5
  <2> QED BY <1>1, <1>5, <1>13, <1>14, <1>15, <1>18, <2>1, AdoptsKeeps
<1>19. CASE disk' = [disk EXCEPT ![s] = disk[s]]
  BY <1>1, <1>13, <1>14, <1>15, <1>19, AdoptsKeeps
<1> QED
  BY <1>1, <1>3, <1>16, <1>17, <1>18, <1>19

-----------------------------------------------------------------------------
(* Votes *)

\* From r to v: the vote is the last one, or a new one of a newer epoch.
Ballot(r, v) ==
    /\ r.current_epoch <= v.current_epoch
    /\ \/ v.leader = r.leader /\ v.leader_epoch = r.leader_epoch
       \/ v.leader \in Runids /\ r.leader_epoch < v.leader_epoch

LEMMA VoteCastFacts ==
    ASSUME NEW x \in Sentinels, NEW r \in Memory, NEW v \in Memory, Ballot(r, v)
    PROVE  /\ r.leader_epoch <= v.leader_epoch
           /\ \/ /\ v.leader = r.leader /\ v.leader_epoch = r.leader_epoch
                 /\ VoteCast(x, r, v) = votes
              \/ /\ v.leader \in Runids /\ r.leader_epoch < v.leader_epoch
                 /\ VoteCast(x, r, v)
                      = votes \cup {<<x, v.leader_epoch, v.leader>>}
<1>1. r.leader_epoch \in Nat /\ v.leader_epoch \in Nat
  BY DEF Memory
<1>2. CASE v.leader = r.leader /\ v.leader_epoch = r.leader_epoch
  BY <1>1, <1>2 DEF VoteCast
<1>3. CASE v.leader \in Runids /\ r.leader_epoch < v.leader_epoch
  <2>1. <<r.leader, r.leader_epoch>> # <<v.leader, v.leader_epoch>>
    BY <1>1, <1>3
  <2> QED BY <1>1, <1>3, <2>1 DEF VoteCast
<1> QED
  BY <1>2, <1>3 DEF Ballot

\* File d of x is not behind the one before, nor behind the vote of memory v.
Fits(x, v, d) ==
    /\ d \in Disks
    /\ disk[x].current_epoch <= d.current_epoch
    /\ d.current_epoch <= v.current_epoch
    /\ d.leader_epoch = v.leader_epoch
    /\ d.leader_epoch <= d.current_epoch
    /\ \/ <<d.config_epoch, d.addr>> \in Configs
       \/ <<d.config_epoch, d.addr>> = <<v.config_epoch, CurrentMaster(v)>>

\* What is on the disk when a vote is answered.
LEMMA FlushedFacts ==
    ASSUME Inv, NEW x \in Sentinels, NEW r \in Memory, NEW v \in Memory,
           Coherent(v), Ballot(r, v),
           r.leader_epoch = snt[x].leader_epoch,
           snt[x].current_epoch <= r.current_epoch
    PROVE  \E d : Flushed(x, r, v) = [disk EXCEPT ![x] = d] /\ Fits(x, v, d)
<1>1. /\ Sound(x, snt[x], disk[x], faults) /\ disk[x] \in Disks
      /\ disk = [disk EXCEPT ![x] = disk[x]]
      /\ <<disk[x].config_epoch, disk[x].addr>> \in Configs
      /\ disk[x].current_epoch \in Nat /\ snt[x].current_epoch \in Nat
  BY InvOf
<1>2. /\ disk[x].leader_epoch = r.leader_epoch
      /\ disk[x].leader_epoch <= disk[x].current_epoch
      /\ disk[x].current_epoch <= snt[x].current_epoch
  BY <1>1 DEF Sound
<1>3. r.current_epoch \in Nat /\ v.current_epoch \in Nat
      /\ r.current_epoch <= v.current_epoch
      /\ v.leader_epoch <= v.current_epoch /\ v.current_epoch <= v.current_epoch
  BY DEF Memory, Ballot, Coherent
<1>4. disk[x].current_epoch <= v.current_epoch
      /\ disk[x].current_epoch <= disk[x].current_epoch
  BY <1>1, <1>2, <1>3
<1>5. CASE <<r.leader_epoch, r.current_epoch>> = <<v.leader_epoch, v.current_epoch>>
  <2>1. Flushed(x, r, v) = [disk EXCEPT ![x] = disk[x]]
    BY <1>1, <1>5 DEF Flushed
  <2>2. v.leader_epoch = r.leader_epoch
    BY <1>5
  <2>3. Fits(x, v, disk[x])
    BY <1>1, <1>2, <1>4, <2>2 DEF Fits
  <2> QED BY <2>1, <2>3
<1>6. CASE <<r.leader_epoch, r.current_epoch>> # <<v.leader_epoch, v.current_epoch>>
  <2> DEFINE d == Saved(v)
  <2>1. Flushed(x, r, v) = [disk EXCEPT ![x] = d]
    BY <1>6 DEF Flushed
  <2>2. /\ d \in Disks
        /\ d.current_epoch = v.current_epoch
        /\ d.config_epoch = v.config_epoch
        /\ d.leader_epoch = v.leader_epoch
        /\ d.addr = CurrentMaster(v)
        /\ DOMAIN d.sentinels = DOMAIN v.sentinels
    BY SavedFacts
  <2> HIDE DEF d
  <2>3. Fits(x, v, d)
    BY <1>3, <1>4, <2>2 DEF Fits
  <2> QED BY <2>1, <2>3
<1> QED
  BY <1>5, <1>6

-----------------------------------------------------------------------------
(* The timer *)

\* The memory when the state machine is called: as before, or with a failover
\* that starts in an epoch nobody has seen.
Starts(r, q) ==
    /\ q \in Memory /\ Coherent(q)
    /\ q.run = r.run /\ q.config_epoch = r.config_epoch
    /\ q.leader = r.leader /\ q.leader_epoch = r.leader_epoch
    /\ q.slaves = r.slaves /\ q.sentinels = r.sentinels
    /\ CurrentMaster(q) = CurrentMaster(r)
    /\ r.current_epoch <= q.current_epoch
    /\ \/ q.state = r.state /\ q.failover_epoch = r.failover_epoch
       \/ q.state = WAIT_START /\ q.failover_epoch > r.current_epoch
    /\ "FORCE_FAILOVER" \in q.flags =>
         /\ "FORCE_FAILOVER" \in r.flags
         /\ q.failover_epoch = r.failover_epoch

LEMMA StartsFacts ==
    ASSUME NEW r \in Memory, Coherent(r), NEW silent \in BOOLEAN,
           NEW start \in BOOLEAN,
           start => /\ "FAILOVER_IN_PROGRESS" \notin CheckDown(r, silent).flags
                    /\ CheckDown(r, silent).current_epoch < MaxEpoch
    PROVE  Starts(r, IF start THEN StartFailover(CheckDown(r, silent))
                     ELSE CheckDown(r, silent))
<1> DEFINE p == CheckDown(r, silent)
           q == StartFailover(p)
<1>1. Like(r, p) /\ p.sentinels = r.sentinels /\ p.slaves = r.slaves
  BY CheckDownFacts
<1> HIDE DEF p
<1>2. p \in Memory /\ Coherent(p) /\ r.current_epoch \in Nat
      /\ r.current_epoch <= p.current_epoch
  BY <1>1 DEF Like, Memory
<1>3. CASE ~start
  <2>1. Starts(r, p)
    BY <1>1, <1>2 DEF Starts, Like
  <2> QED BY <1>3, <2>1 DEF p
<1>4. CASE start
  <2>1. p.state = NONE /\ p.current_epoch < MaxEpoch
    BY <1>2, <1>4 DEF Coherent, p
  <2>2. /\ q \in Memory /\ Coherent(q)
        /\ q.run = p.run /\ q.config_epoch = p.config_epoch
        /\ q.leader = p.leader /\ q.leader_epoch = p.leader_epoch
        /\ q.slaves = p.slaves /\ q.sentinels = p.sentinels
        /\ q.state = WAIT_START
        /\ q.current_epoch = p.current_epoch + 1
        /\ q.failover_epoch = p.current_epoch + 1
        /\ q.flags = p.flags \cup {"FAILOVER_IN_PROGRESS"}
        /\ CurrentMaster(q) = CurrentMaster(p)
    BY <1>2, <2>1, StartFailoverFacts
  <2> HIDE DEF q
  <2>3. "FORCE_FAILOVER" \notin q.flags
    BY <1>2, <2>1, <2>2 DEF Coherent
  <2>4. p.current_epoch = r.current_epoch
    BY <1>1 DEF Like
  <2>5. q.failover_epoch > r.current_epoch /\ r.current_epoch <= q.current_epoch
    BY <1>2, <2>2, <2>4
  <2>6. Starts(r, q)
    BY <1>1, <2>2, <2>3, <2>5 DEF Starts, Like
  <2> QED BY <1>4, <2>6 DEF p, q
<1> QED
  BY <1>3, <1>4

\* Among all the sentinels, the votes a leader counted are those of a majority.
LEMMA MajorityFacts ==
    ASSUME Types, Voted, NEW s \in Sentinels, NEW v \in Memory, NEW c \in Runids,
           NEW e, e = v.failover_epoch,
           v.sentinels = snt[s].sentinels, IsLeader(v, c), InOrder(v, s),
           votes \subseteq votes',
           v.leader = c /\ v.leader_epoch = e => <<s, e, c>> \in votes'
    PROVE  2 * Cardinality(Voters(e, c)') > Cardinality(Sentinels)
<1> DEFINE V == {t \in DOMAIN v.sentinels :
                   /\ v.sentinels[t].leader = c
                   /\ v.sentinels[t].leader_epoch = v.current_epoch}
           W == {t \in Sentinels : <<t, e, c>> \in votes'}
           S == Sentinels \ {s}
<1>1. DOMAIN v.sentinels = S /\ v.current_epoch = e
  BY DEF InOrder
<1>2. W = Voters(e, c)'
  BY DEF Voters
<1>3. V \subseteq W /\ V \subseteq S /\ W \subseteq Sentinels
  <2>1. c # NoOne
    BY SentinelAssumption DEF SentinelAssumption
  <2>2. ASSUME NEW t \in V PROVE <<t, e, c>> \in votes
    BY <1>1, <2>1, <2>2 DEF Voted
  <2> QED BY <1>1, <2>2
<1> HIDE DEF W
<1>4. IsFiniteSet(Sentinels) /\ IsFiniteSet(S) /\ IsFiniteSet(V) /\ IsFiniteSet(W)
  <2>1. IsFiniteSet(Sentinels)
    BY SentinelAssumption DEF SentinelAssumption
  <2>2. S \subseteq Sentinels
    OBVIOUS
  <2> HIDE DEF V, S
  <2>3. V \subseteq Sentinels
    BY <1>3, <2>2
  <2> QED BY <1>3, <2>1, <2>2, <2>3, FS_Subset
<1>5. /\ Cardinality(V) \in Nat /\ Cardinality(W) \in Nat
      /\ Cardinality(S) \in Nat /\ Cardinality(Sentinels) \in Nat
  BY <1>4, FS_CardinalityType
<1>6. Cardinality(Sentinels) = Cardinality(S) + 1
  <2>1. Cardinality(S) = Cardinality(Sentinels) - 1
    BY <1>4, FS_RemoveElement
  <2> QED BY <1>5, <2>1
<1> DEFINE own == v.leader = c /\ v.leader_epoch = e
           n == Cardinality(V) + (IF own THEN 1 ELSE 0)
<1>7. n <= Cardinality(W)
  <2>1. CASE own
    <3>1. s \in W /\ s \notin V
      BY <1>3, <2>1 DEF W
    <3>2. V \cup {s} \subseteq W
      BY <1>3, <3>1
    <3>3. Cardinality(V \cup {s}) = Cardinality(V) + 1
      BY <1>4, <3>1, FS_AddElement
    <3>4. Cardinality(V \cup {s}) <= Cardinality(W)
      BY <1>4, <3>2, FS_Subset
    <3> QED BY <2>1, <3>3, <3>4
  <2>2. CASE ~own
    <3>1. Cardinality(V) <= Cardinality(W)
      BY <1>3, <1>4, FS_Subset
    <3> QED BY <1>5, <2>2, <3>1
  <2> QED BY <2>1, <2>2
<1>8. n >= (Cardinality(S) + 1) \div 2 + 1
  BY <1>1 DEF IsLeader, VotesFor
<1> HIDE DEF V, S, own
<1>9. n \in Nat
  BY <1>5
<1> HIDE DEF n
<1>10. 2 * n > Cardinality(S) + 1
  BY <1>5, <1>8, <1>9
<1> QED
  BY <1>2, <1>5, <1>6, <1>7, <1>9, <1>10

\* A step of s that may cast one vote, learn of votes and win one election.
Ticks(s, q, d) ==
    /\ snt' = [snt EXCEPT ![s] = q] /\ disk' = [disk EXCEPT ![s] = d]
    /\ inst' = inst /\ hellos' = hellos /\ limit' = limit /\ faults' = faults
    /\ slaveof' \subseteq Sentinels \X Instances \X (Instances \cup {NoOne})
    /\ q \in Memory /\ Coherent(q) /\ q.state # UPDATE_CONFIG
    /\ q.run = snt[s].run
    /\ q.config_epoch = snt[s].config_epoch
    /\ CurrentMaster(q) = CurrentMaster(snt[s])
    /\ DOMAIN q.sentinels = DOMAIN snt[s].sentinels
    /\ \A t \in DOMAIN q.sentinels :
         \/ /\ q.sentinels[t].leader \in {NoOne, snt[s].sentinels[t].leader}
            /\ q.sentinels[t].leader_epoch = snt[s].sentinels[t].leader_epoch
         \/ q.sentinels[t].leader = NoOne
         \/ <<t, q.sentinels[t].leader_epoch, q.sentinels[t].leader>> \in votes
    /\ Fits(s, q, d)
    /\ \/ /\ q.leader \in {NoOne, snt[s].leader}
          /\ q.leader_epoch = snt[s].leader_epoch
          /\ votes' = votes
       \/ \E c \in Runids :
            /\ q.leader \in {NoOne, c}
            /\ snt[s].leader_epoch < q.leader_epoch
            /\ votes' = votes \cup {<<s, q.leader_epoch, c>>}
    /\ wins' \in {wins, wins \cup {<<s, q.failover_epoch>>}}
    /\ wins' # wins =>
         \/ q.failover_epoch \in touched'
         \/ /\ q.failover_epoch <= d.current_epoch
            /\ \E c \in Runids :
                 /\ c[1] = s
                 /\ \A e : e = q.failover_epoch =>
                      2 * Cardinality(Voters(e, c)') > Cardinality(Sentinels)
    /\ touched \subseteq touched' /\ touched' \subseteq 0..MaxEpoch
    /\ "FORCE_FAILOVER" \in q.flags =>
         /\ "FORCE_FAILOVER" \in snt[s].flags
         /\ q.failover_epoch = snt[s].failover_epoch
    /\ q.state \in SELECT_SLAVE..UPDATE_CONFIG =>
         \/ q.failover_epoch \in touched'
         \/ <<s, q.failover_epoch>> \in wins'
         \/ /\ snt[s].state \in SELECT_SLAVE..UPDATE_CONFIG
            /\ q.failover_epoch = snt[s].failover_epoch
    /\ q.state \in WAIT_START..WAIT_PROMOTION =>
         \/ q.failover_epoch > snt[s].current_epoch
         \/ /\ snt[s].state \in WAIT_START..WAIT_PROMOTION
            /\ q.failover_epoch = snt[s].failover_epoch

LEMMA TicksKeeps ==
    ASSUME Inv, NEW s \in Sentinels, NEW q, NEW d, Ticks(s, q, d)
    PROVE  Inv'
<1>1. /\ Types /\ Elected /\ Agreed /\ Voted /\ \A u \in Sentinels : Local(u)
      /\ snt \in [Sentinels -> Memory] /\ disk \in [Sentinels -> Disks]
  BY DEF Inv, Types
<1>2. /\ snt'[s] = q /\ disk'[s] = d
      /\ \A u \in Sentinels \ {s} : snt'[u] = snt[u] /\ disk'[u] = disk[u]
  BY <1>1 DEF Ticks
<1>3. /\ q \in Memory /\ d \in Disks /\ faults' = faults
      /\ q.leader_epoch \in 0..MaxEpoch /\ q.failover_epoch \in 0..MaxEpoch
  BY DEF Ticks, Fits, Memory
<1>4. Types'
  <2>1. votes' \subseteq Sentinels \X (0..MaxEpoch) \X Runids
    BY <1>1, <1>3 DEF Ticks, Types
  <2>2. wins' \subseteq Sentinels \X (0..MaxEpoch)
    BY <1>1, <1>3 DEF Ticks, Types
  <2>3. faults' \in 0..MaxFaults
    BY <1>1, <1>3 DEF Types
  <2> QED BY <1>1, <1>3, <2>1, <2>2, <2>3, TypesStep DEF Ticks
<1>5. \A u \in Sentinels : Local(u)'
  <2>1. Sound(s, snt[s], disk[s], faults)
    BY <1>1 DEF Local
  <2>2. Sound(s, q, d, faults)
    BY <2>1 DEF Sound, Ticks, Fits
  <2>3. ASSUME NEW u \in Sentinels \ {s} PROVE Local(u)'
    BY <1>1, <1>2, <1>3 DEF Local
  <2>4. Local(s)'
    BY <1>2, <1>3, <2>2 DEF Local
  <2> QED BY <2>3, <2>4
<1>6. \A u \in Sentinels : snt[u].leader_epoch \in Nat /\ disk[u].current_epoch \in Nat
  BY <1>1 DEF Memory, Disks
<1>7. Voted'
  <2>1. \A u \in Sentinels : snt[u].leader_epoch <= snt'[u].leader_epoch
    BY <1>2, <1>3, <1>6 DEF Ticks
  <2>2. votes' = votes \/ \E x \in Sentinels, c \in Runids :
          /\ snt[x].leader_epoch < snt'[x].leader_epoch
          /\ votes' = votes \cup {<<x, snt'[x].leader_epoch, c>>}
    BY <1>2 DEF Ticks
  <2>3. \A u \in Sentinels :
          \/ snt'[u].leader = NoOne
          \/ snt'[u].leader = snt[u].leader
             /\ snt'[u].leader_epoch = snt[u].leader_epoch
          \/ <<u, snt'[u].leader_epoch, snt'[u].leader>> \in votes'
    BY <1>2 DEF Ticks
  <2>4. \A u \in Sentinels : \A x \in DOMAIN snt'[u].sentinels :
          \/ /\ x \in DOMAIN snt[u].sentinels
             /\ snt'[u].sentinels[x].leader
                  \in {NoOne, snt[u].sentinels[x].leader}
             /\ snt'[u].sentinels[x].leader_epoch
                  = snt[u].sentinels[x].leader_epoch
          \/ snt'[u].sentinels[x].leader = NoOne
          \/ <<x, snt'[u].sentinels[x].leader_epoch,
                  snt'[u].sentinels[x].leader>> \in votes'
    BY <1>2 DEF Ticks
  <2> QED BY <1>1, <1>4, <2>1, <2>2, <2>3, <2>4, VotedStep
<1>8. votes \subseteq votes' /\ wins \subseteq wins' /\ touched \subseteq touched'
  BY DEF Ticks
<1>9. Elected'
  <2>1. \A u \in Sentinels : disk[u].current_epoch <= disk'[u].current_epoch
    BY <1>2, <1>6 DEF Ticks, Fits
  <2>2. \A u \in Sentinels :
          snt'[u].state \in SELECT_SLAVE..UPDATE_CONFIG =>
            \/ snt'[u].failover_epoch \in touched'
            \/ <<u, snt'[u].failover_epoch>> \in wins'
            \/ /\ snt[u].state \in SELECT_SLAVE..UPDATE_CONFIG
               /\ snt'[u].failover_epoch = snt[u].failover_epoch
    BY <1>2 DEF Ticks
  <2>3. \A u \in Sentinels :
          "FORCE_FAILOVER" \in snt'[u].flags =>
            /\ "FORCE_FAILOVER" \in snt[u].flags
            /\ snt'[u].failover_epoch = snt[u].failover_epoch
    BY <1>2 DEF Ticks
  <2>4. ASSUME NEW w \in wins' \ wins, w[2] \notin touched'
        PROVE  /\ w[2] <= disk'[w[1]].current_epoch
               /\ \E c \in Runids :
                    /\ c[1] = w[1]
                    /\ 2 * Cardinality(Voters(w[2], c)') > Cardinality(Sentinels)
    <3>1. w = <<s, q.failover_epoch>> /\ wins' # wins
      BY <2>4 DEF Ticks
    <3>2. w[1] = s /\ w[2] = q.failover_epoch
      BY <3>1
    <3>3. /\ q.failover_epoch <= d.current_epoch
          /\ \E c \in Runids :
               /\ c[1] = s
               /\ \A e : e = q.failover_epoch =>
                    2 * Cardinality(Voters(e, c)') > Cardinality(Sentinels)
      BY <2>4, <3>1, <3>2 DEF Ticks
    <3> QED BY <1>2, <3>2, <3>3
  <2> QED BY <1>1, <1>4, <1>8, <2>1, <2>2, <2>3, <2>4, ElectedStep
<1>10. Agreed'
  <2>1. ASSUME NEW u \in Sentinels, NEW e \in 0..MaxEpoch, Pending(u, e)'
        PROVE  Pending(u, e) \/ snt[u].current_epoch < e
    <3>1. CASE u = s
      BY <1>2, <2>1, <3>1 DEF Pending, Ticks
    <3>2. CASE u # s
      BY <1>2, <2>1, <3>2 DEF Pending
    <3> QED BY <3>1, <3>2
  <2>2. ASSUME NEW c \in Configs' PROVE c \in Configs
    <3>1. \/ c \in Configs
          \/ c = <<q.config_epoch, CurrentMaster(q)>>
          \/ c = <<d.config_epoch, d.addr>>
      <4>1. /\ Types /\ snt' = [snt EXCEPT ![s] = q]
            /\ disk' = [disk EXCEPT ![s] = d] /\ hellos' = hellos
        BY <1>1 DEF Ticks
      <4> QED BY <2>2, <4>1, ConfigsStep
    <3>2. <<q.config_epoch, CurrentMaster(q)>> \in Configs
      BY DEF Ticks, Configs
    <3> QED BY <3>1, <3>2 DEF Ticks, Fits
  <2> QED BY <1>1, <1>4, <1>8, <2>1, <2>2, AgreedStep
<1> QED
  BY <1>4, <1>5, <1>7, <1>9, <1>10 DEF Inv

\* The memory the timer leaves: answers forgotten, and the promoted slave as
\* the master when the failover ended.
Leaves(v, q) ==
    /\ q \in Memory /\ Coherent(q) /\ q.state # UPDATE_CONFIG
    /\ q.run = v.run
    /\ q.current_epoch = v.current_epoch
    /\ q.config_epoch = v.config_epoch
    /\ q.failover_epoch = v.failover_epoch
    /\ CurrentMaster(q) = CurrentMaster(v)
    /\ q.leader \in {NoOne, v.leader}
    /\ q.leader_epoch = v.leader_epoch
    /\ q.state \in {NONE, v.state}
    /\ "FORCE_FAILOVER" \in q.flags => "FORCE_FAILOVER" \in v.flags
    /\ DOMAIN q.sentinels = DOMAIN v.sentinels
    /\ \A t \in DOMAIN q.sentinels :
         /\ q.sentinels[t].leader \in {NoOne, v.sentinels[t].leader}
         /\ q.sentinels[t].leader_epoch = v.sentinels[t].leader_epoch

LEMMA LeavesFacts ==
    ASSUME NEW v \in Memory, Coherent(v), NEW old
    PROVE  LET r == Forget(v, old)
           IN Leaves(v, IF r.state = UPDATE_CONFIG THEN SwitchTo(r, r.promoted)
                        ELSE r)
<1> DEFINE r == Forget(v, old)
           q == SwitchTo(r, r.promoted)
<1>1. /\ Like(v, r) /\ DOMAIN r.sentinels = DOMAIN v.sentinels
      /\ \A t \in DOMAIN v.sentinels :
           /\ r.sentinels[t].leader_epoch = v.sentinels[t].leader_epoch
           /\ r.sentinels[t].leader \in {NoOne, v.sentinels[t].leader}
  BY ForgetFacts
<1> HIDE DEF r
<1>2. r \in Memory /\ Coherent(r)
  BY <1>1 DEF Like
<1>3. CASE r.state # UPDATE_CONFIG
  <2>1. Leaves(v, r)
    BY <1>1, <1>3 DEF Leaves, Like
  <2> QED BY <1>3, <2>1 DEF r
<1>4. CASE r.state = UPDATE_CONFIG
  <2>1. r.promoted \in Instances /\ CurrentMaster(r) = r.promoted
    <3>1. r.promoted \in DOMAIN r.slaves /\ "FAILOVER_IN_PROGRESS" \in r.flags
      BY <1>2, <1>4 DEF Coherent
    <3>2. r.promoted \in Instances /\ r.promoted # NoOne
      BY <1>2, <3>1, SlaveMapFacts, SentinelAssumption
         DEF Memory, SentinelAssumption
    <3> QED BY <1>4, <3>1, <3>2 DEF CurrentMaster
  <2>2. /\ q \in Memory /\ Coherent(q)
        /\ q.run = r.run /\ q.config_epoch = r.config_epoch
        /\ q.current_epoch = r.current_epoch
        /\ q.leader = NoOne /\ q.leader_epoch = r.leader_epoch
        /\ q.failover_epoch = r.failover_epoch
        /\ q.state = NONE /\ q.flags = {}
        /\ q.sentinels = r.sentinels
        /\ CurrentMaster(q) = r.promoted
    BY <1>2, <2>1, SwitchToFacts
  <2> HIDE DEF q
  <2>3. Leaves(v, q)
    BY <1>1, <2>1, <2>2 DEF Leaves, Like
  <2> QED BY <1>4, <2>3 DEF q, r
<1> QED
  BY <1>3, <1>4

\* What is on the disk is that of the vote, or the new configuration.
LEMMA LeftOnDisk ==
    ASSUME Inv, NEW s \in Sentinels, NEW r, Starts(snt[s], r),
           NEW v \in Memory, Coherent(v), Ballot(r, v),
           v.sentinels = r.sentinels, NEW q, Leaves(v, q),
           \/ disk' = [disk EXCEPT ![s] = Saved(q)]
           \/ disk' = Flushed(s, r, v)
    PROVE  \E d : disk' = [disk EXCEPT ![s] = d] /\ Fits(s, q, d)
<1>1. /\ Sound(s, snt[s], disk[s], faults)
      /\ disk[s].current_epoch \in Nat /\ snt[s].current_epoch \in Nat
      /\ disk[s].current_epoch <= snt[s].current_epoch
  BY InvOf
<1>2. /\ r \in Memory /\ r.leader_epoch = snt[s].leader_epoch
      /\ snt[s].current_epoch <= r.current_epoch /\ r.sentinels = snt[s].sentinels
  BY DEF Starts
<1>4. CASE disk' = Flushed(s, r, v)
  <2>1. PICK d : Flushed(s, r, v) = [disk EXCEPT ![s] = d] /\ Fits(s, v, d)
    BY <1>2, FlushedFacts
  <2>2. Fits(s, q, d)
    BY <2>1 DEF Fits, Leaves
  <2> QED BY <1>4, <2>1, <2>2
<1>5. CASE disk' = [disk EXCEPT ![s] = Saved(q)]
  <2>1. q \in Memory /\ Coherent(q) /\ DOMAIN q.sentinels = DOMAIN v.sentinels
        /\ q.current_epoch = v.current_epoch
    BY DEF Leaves
  <2>2. /\ Saved(q) \in Disks
        /\ Saved(q).current_epoch = q.current_epoch
        /\ Saved(q).config_epoch = q.config_epoch
        /\ Saved(q).leader_epoch = q.leader_epoch
        /\ Saved(q).addr = CurrentMaster(q)
        /\ DOMAIN Saved(q).sentinels = DOMAIN q.sentinels
    BY <2>1, SavedFacts
  <2>3. q.current_epoch \in Nat /\ r.current_epoch \in Nat
        /\ r.current_epoch <= v.current_epoch /\ q.leader_epoch <= q.current_epoch
    BY <1>2, <2>1 DEF Memory, Coherent, Ballot
  <2>4. disk[s].current_epoch <= q.current_epoch /\ q.current_epoch <= q.current_epoch
    BY <1>1, <1>2, <2>1, <2>3
  <2>5. Fits(s, q, Saved(q))
    BY <2>1, <2>2, <2>3, <2>4 DEF Fits
  <2> QED BY <1>5, <2>5
<1> QED
  BY <1>4, <1>5

LEMMA TimerKeeps ==
    ASSUME Inv, NEW s \in Sentinels, Timer(s)
    PROVE  Inv'
<1> DEFINE self == Runid(s)
<1>1. PICK silent \in BOOLEAN, elapsed \in BOOLEAN,
           connected \in SUBSET Linked(snt[s]), down \in SUBSET Watched(snt[s]),
           old \in SUBSET DOMAIN snt[s].sentinels :
        Tick(s, silent, elapsed, connected, down, old)
  BY DEF Timer, Happens, Answered
<1>2. UNCHANGED <<inst, hellos, limit, faults>>
  BY <1>1 DEF Tick, net
<1> DEFINE r1 == CheckDown(snt[s], silent)
           start == /\ "O_DOWN" \in r1.flags
                    /\ "FAILOVER_IN_PROGRESS" \notin r1.flags
                    /\ elapsed
           r2 == IF start THEN StartFailover(r1) ELSE r1
           late == elapsed /\ ~start
<1>3. PICK o \in StateMachine(r2, self, connected, down, late) :
        LET r3 == Forget(o.r, old)
        IN /\ IF r3.state = UPDATE_CONFIG
              THEN /\ snt' = [snt EXCEPT ![s] = SwitchTo(r3, r3.promoted)]
                   /\ disk' = [disk EXCEPT ![s] = Saved(snt'[s])]
              ELSE /\ snt' = [snt EXCEPT ![s] = r3]
                   /\ disk' = Flushed(s, r2, o.r)
           /\ SendSlaveOf(s, o.cmd)
           /\ votes' = VoteCast(s, r2, o.r)
           /\ wins' = IF o.won /\ "FORCE_FAILOVER" \notin o.r.flags
                      THEN wins \cup {<<s, o.r.failover_epoch>>} ELSE wins
           /\ touched' = IF o.won /\ ~InOrder(o.r, s)
                         THEN touched \cup {o.r.failover_epoch} ELSE touched
  BY <1>1 DEF Tick
<1>4. start \in BOOLEAN /\ late \in BOOLEAN
      /\ (start => /\ "FAILOVER_IN_PROGRESS" \notin r1.flags
                   /\ r1.current_epoch < MaxEpoch)
  <2>1. start => r1.current_epoch < limit.epochs
    BY <1>1 DEF Tick
  <2>2. r1.current_epoch \in Nat
    <3>1. snt[s] \in Memory /\ Coherent(snt[s])
      BY InvOf
    <3>2. r1 \in Memory
      BY <3>1, CheckDownFacts DEF Like
    <3> QED BY <3>2 DEF Memory
  <2> HIDE DEF r1
  <2> QED BY <2>1, <2>2, LimitFacts
<1>5. /\ snt[s] \in Memory /\ Coherent(snt[s]) /\ self \in Runids
      /\ Sound(s, snt[s], disk[s], faults) /\ snt \in [Sentinels -> Memory]
      /\ Types /\ Voted /\ Elected
  BY InvOf DEF Inv
<1> HIDE DEF start, late, self
<1>6. Starts(snt[s], r2)
  BY <1>4, <1>5, StartsFacts
<1> HIDE DEF r1, r2
<1>7. Moves(r2, o, self)
  <2>1. /\ r2 \in Memory /\ Coherent(r2)
        /\ r2.state # UPDATE_CONFIG /\ connected \in SUBSET DOMAIN r2.slaves
    BY <1>5, <1>6 DEF Starts, Sound, Linked
  <2> QED BY <1>4, <1>5, <2>1, StateMachineMoves
<1> DEFINE v == o.r
           r3 == Forget(v, old)
           q == IF r3.state = UPDATE_CONFIG THEN SwitchTo(r3, r3.promoted) ELSE r3
<1>8. v \in Memory /\ Coherent(v) /\ r2 \in Memory /\ v.sentinels = r2.sentinels
      /\ v.failover_epoch \in 0..MaxEpoch
  BY <1>6, <1>7 DEF Moves, Starts, Memory
<1>9. Leaves(v, q)
  BY <1>8, LeavesFacts
<1>10. snt' = [snt EXCEPT ![s] = q]
       /\ \/ disk' = [disk EXCEPT ![s] = Saved(q)]
          \/ disk' = Flushed(s, r2, v)
  BY <1>3, <1>5
<1> HIDE DEF q, r3
<1>11. Ballot(r2, v)
  <2>1. r2.current_epoch <= v.current_epoch
    BY <1>7, <1>8 DEF Moves, Memory
  <2> QED BY <1>7, <2>1 DEF Moves, Ballot
<1>12. PICK d : disk' = [disk EXCEPT ![s] = d] /\ Fits(s, q, d)
  BY <1>6, <1>8, <1>9, <1>10, <1>11, LeftOnDisk
<1>13. /\ r2.leader_epoch <= v.leader_epoch
       /\ \/ /\ v.leader = r2.leader /\ v.leader_epoch = r2.leader_epoch
             /\ votes' = votes
          \/ /\ v.leader \in Runids /\ r2.leader_epoch < v.leader_epoch
             /\ votes' = votes \cup {<<s, v.leader_epoch, v.leader>>}
  BY <1>3, <1>8, <1>11, VoteCastFacts
<1>14. /\ wins' = IF o.won /\ "FORCE_FAILOVER" \notin v.flags
                  THEN wins \cup {<<s, v.failover_epoch>>} ELSE wins
       /\ touched' = IF o.won /\ ~InOrder(v, s)
                     THEN touched \cup {v.failover_epoch} ELSE touched
       /\ SendSlaveOf(s, o.cmd)
  BY <1>3
<1>15. touched \subseteq touched' /\ touched' \subseteq 0..MaxEpoch
  BY <1>5, <1>8, <1>14 DEF Types
<1>16. slaveof' \subseteq Sentinels \X Instances \X (Instances \cup {NoOne})
  BY <1>5, <1>7, <1>14 DEF Types, Moves, SendSlaveOf
<1>17. \/ /\ q.leader \in {NoOne, snt[s].leader}
          /\ q.leader_epoch = snt[s].leader_epoch
          /\ votes' = votes
       \/ \E c \in Runids :
            /\ q.leader \in {NoOne, c}
            /\ snt[s].leader_epoch < q.leader_epoch
            /\ votes' = votes \cup {<<s, q.leader_epoch, c>>}
  BY <1>6, <1>9, <1>13 DEF Starts, Leaves
<1>18. ASSUME wins' # wins, v.failover_epoch \notin touched'
       PROVE  /\ v.failover_epoch <= d.current_epoch
              /\ \E c \in Runids :
                   /\ c[1] = s
                   /\ \A e : e = v.failover_epoch =>
                        2 * Cardinality(Voters(e, c)') > Cardinality(Sentinels)
  <2>1. o.won /\ InOrder(v, s)
    BY <1>14, <1>18
  <2>2. IsLeader(v, self) /\ v.leader_epoch >= v.failover_epoch
    BY <1>7, <2>1 DEF Moves, InOrder
  <2>3. v.failover_epoch <= d.current_epoch
    <3>1. /\ d \in Disks /\ d.leader_epoch = v.leader_epoch
          /\ d.leader_epoch <= d.current_epoch
      BY <1>9, <1>12 DEF Fits, Leaves
    <3>2. d.current_epoch \in Nat /\ v.leader_epoch \in Nat /\ v.failover_epoch \in Nat
      BY <1>8, <3>1 DEF Disks, Memory
    <3> QED BY <2>2, <3>1, <3>2
  <2>4. PICK c : c = self
    OBVIOUS
  <2>5. c \in Runids /\ c[1] = s /\ IsLeader(v, c)
    BY <1>5, <2>2, <2>4 DEF self, Runid
  <2>6. ASSUME NEW e, e = v.failover_epoch
        PROVE  2 * Cardinality(Voters(e, c)') > Cardinality(Sentinels)
    <3>1. v.leader = c /\ v.leader_epoch = e => <<s, e, c>> \in votes'
      <4>1. c # NoOne
        BY <2>5, SentinelAssumption DEF SentinelAssumption
      <4> QED BY <1>5, <1>6, <1>13, <4>1 DEF Voted, Starts
    <3>2. v.sentinels = snt[s].sentinels /\ votes \subseteq votes'
      BY <1>6, <1>8, <1>13 DEF Starts
    <3> QED BY <1>5, <1>8, <2>1, <2>5, <2>6, <3>1, <3>2, MajorityFacts
  <2> QED BY <2>3, <2>5, <2>6
<1>19. "FORCE_FAILOVER" \in v.flags =>
         /\ "FORCE_FAILOVER" \in snt[s].flags
         /\ v.failover_epoch = snt[s].failover_epoch
         /\ v.failover_epoch \in touched'
  BY <1>5, <1>6, <1>7, <1>15 DEF Moves, Starts, Elected
<1>20. v.state \in SELECT_SLAVE..UPDATE_CONFIG =>
         \/ v.failover_epoch \in touched'
         \/ <<s, v.failover_epoch>> \in wins'
         \/ /\ snt[s].state \in SELECT_SLAVE..UPDATE_CONFIG
            /\ v.failover_epoch = snt[s].failover_epoch
  <2>1. CASE r2.state \in SELECT_SLAVE..UPDATE_CONFIG
    BY <1>6, <1>7, <2>1 DEF Moves, Starts
  <2>2. CASE o.won
    BY <1>14, <1>19, <2>2
  <2>3. CASE "FORCE_FAILOVER" \in r2.flags
    BY <1>5, <1>6, <1>7, <1>15, <2>3 DEF Moves, Starts, Elected
  <2> QED BY <1>7, <2>1, <2>2, <2>3 DEF Moves
<1>21. v.state \in WAIT_START..WAIT_PROMOTION =>
         \/ v.failover_epoch > snt[s].current_epoch
         \/ /\ snt[s].state \in WAIT_START..WAIT_PROMOTION
            /\ v.failover_epoch = snt[s].failover_epoch
  BY <1>6, <1>7 DEF Moves, Starts
<1> HIDE DEF v
<1>22. Ticks(s, q, d)
  <2>1. /\ q \in Memory /\ Coherent(q) /\ q.state # UPDATE_CONFIG
        /\ q.run = snt[s].run /\ q.config_epoch = snt[s].config_epoch
        /\ CurrentMaster(q) = CurrentMaster(snt[s])
        /\ DOMAIN q.sentinels = DOMAIN snt[s].sentinels
        /\ \A t \in DOMAIN q.sentinels :
             /\ q.sentinels[t].leader \in {NoOne, snt[s].sentinels[t].leader}
             /\ q.sentinels[t].leader_epoch = snt[s].sentinels[t].leader_epoch
    BY <1>6, <1>7, <1>9 DEF Leaves, Moves, Starts, v
  <2>2. /\ q.failover_epoch = v.failover_epoch /\ q.state \in {NONE, v.state}
        /\ "FORCE_FAILOVER" \in q.flags => "FORCE_FAILOVER" \in v.flags
    BY <1>9 DEF Leaves
  <2>3. inst' = inst /\ hellos' = hellos /\ limit' = limit /\ faults' = faults
    BY <1>2
  <2>4. wins' \in {wins, wins \cup {<<s, q.failover_epoch>>}}
    BY <1>14, <2>2
  <2>5. wins' # wins =>
          \/ q.failover_epoch \in touched'
          \/ /\ q.failover_epoch <= d.current_epoch
             /\ \E c \in Runids :
                  /\ c[1] = s
                  /\ \A e : e = q.failover_epoch =>
                       2 * Cardinality(Voters(e, c)') > Cardinality(Sentinels)
    BY <1>18, <2>2
  <2>6. "FORCE_FAILOVER" \in q.flags =>
          /\ "FORCE_FAILOVER" \in snt[s].flags
          /\ q.failover_epoch = snt[s].failover_epoch
    BY <1>19, <2>2
  <2>7. q.state \in SELECT_SLAVE..UPDATE_CONFIG =>
          \/ q.failover_epoch \in touched'
          \/ <<s, q.failover_epoch>> \in wins'
          \/ /\ snt[s].state \in SELECT_SLAVE..UPDATE_CONFIG
             /\ q.failover_epoch = snt[s].failover_epoch
    BY <1>20, <2>2
  <2>8. q.state \in WAIT_START..WAIT_PROMOTION =>
          \/ q.failover_epoch > snt[s].current_epoch
          \/ /\ snt[s].state \in WAIT_START..WAIT_PROMOTION
             /\ q.failover_epoch = snt[s].failover_epoch
    BY <1>21, <2>2
  <2> QED
    BY <1>10, <1>12, <1>15, <1>16, <1>17, <2>1, <2>3, <2>4, <2>5, <2>6, <2>7,
       <2>8 DEF Ticks
<1> QED
  BY <1>22, TicksKeeps

-----------------------------------------------------------------------------
(* The messages *)

\* The vote of the sentinel that executes a request, whoever asked for it and
\* however long ago.
LEMMA IsMasterDownKeeps ==
    ASSUME Inv, Mailed, NEW q \in requests, IsMasterDown(q)
    PROVE  Inv'
<1> DEFINE t == q.to
           asked == snt[t].addr = q.addr /\ q.runid # NoOne
           v == IF asked THEN VoteLeader(snt[t], q.epoch, q.runid) ELSE snt[t]
<1>1. /\ snt' = [snt EXCEPT ![t] = v]
      /\ disk' = Flushed(t, snt[t], v)
      /\ votes' = VoteCast(t, snt[t], v)
      /\ UNCHANGED <<inst, slaveof, hellos, limit, faults, wins, touched>>
  BY DEF IsMasterDown
<1>2. /\ t \in Sentinels /\ q.epoch \in 0..MaxEpoch
      /\ q.runid \in Runids \cup {NoOne}
  BY DEF Mailed, Requests
<1> HIDE DEF t
<1>3. /\ snt[t] \in Memory /\ Coherent(snt[t]) /\ snt[t].state # UPDATE_CONFIG
      /\ <<snt[t].config_epoch, CurrentMaster(snt[t])>> \in Configs
      /\ snt[t].current_epoch \in Nat
  BY <1>2, InvOf DEF Sound
<1>4. /\ v \in Memory /\ Coherent(v) /\ Ballot(snt[t], v)
      /\ v.run = snt[t].run /\ v.config_epoch = snt[t].config_epoch
      /\ v.failover_epoch = snt[t].failover_epoch
      /\ v.state = snt[t].state /\ v.flags = snt[t].flags
      /\ v.sentinels = snt[t].sentinels
      /\ CurrentMaster(v) = CurrentMaster(snt[t])
  <2>1. CASE asked
    <3>1. v = VoteLeader(snt[t], q.epoch, q.runid) /\ q.runid \in Runids
      BY <1>2, <2>1
    <3> HIDE DEF v
    <3>2. /\ v \in Memory /\ Coherent(v)
          /\ v.run = snt[t].run /\ v.config_epoch = snt[t].config_epoch
          /\ v.failover_epoch = snt[t].failover_epoch
          /\ v.state = snt[t].state /\ v.flags = snt[t].flags
          /\ v.sentinels = snt[t].sentinels
          /\ v.current_epoch = IF q.epoch > snt[t].current_epoch THEN q.epoch
                               ELSE snt[t].current_epoch
          /\ \/ v.leader = snt[t].leader /\ v.leader_epoch = snt[t].leader_epoch
             \/ v.leader = q.runid /\ v.leader_epoch = q.epoch
                /\ snt[t].leader_epoch < q.epoch
          /\ CurrentMaster(v) = CurrentMaster(snt[t])
      BY <1>2, <1>3, <3>1, VoteLeaderFacts
    <3>3. snt[t].current_epoch <= v.current_epoch
      BY <1>2, <1>3, <3>2
    <3> QED BY <3>1, <3>2, <3>3 DEF Ballot
  <2>2. CASE ~asked
    <3>1. v = snt[t] /\ snt[t].current_epoch <= snt[t].current_epoch
      BY <1>3, <2>2
    <3> HIDE DEF v
    <3> QED BY <1>3, <3>1 DEF Ballot
  <2> QED BY <2>1, <2>2
<1> HIDE DEF v
<1>5. PICK d : disk' = [disk EXCEPT ![t] = d] /\ Fits(t, v, d)
  <2>1. snt[t].current_epoch <= snt[t].current_epoch
    BY <1>3
  <2>2. \E d : Flushed(t, snt[t], v) = [disk EXCEPT ![t] = d] /\ Fits(t, v, d)
    BY <1>2, <1>3, <1>4, <2>1, FlushedFacts
  <2> QED BY <1>1, <2>2
<1>6. /\ snt[t].leader_epoch <= v.leader_epoch
      /\ \/ /\ v.leader = snt[t].leader /\ v.leader_epoch = snt[t].leader_epoch
            /\ votes' = votes
         \/ /\ v.leader \in Runids /\ snt[t].leader_epoch < v.leader_epoch
            /\ votes' = votes \cup {<<t, v.leader_epoch, v.leader>>}
  BY <1>1, <1>2, <1>3, <1>4, VoteCastFacts
<1>7. slaveof' \subseteq Sentinels \X Instances \X (Instances \cup {NoOne})
      /\ touched \subseteq touched' /\ touched' \subseteq 0..MaxEpoch
  BY <1>1 DEF Inv, Types
<1>8. Elected
  BY DEF Inv
<1>9. Ticks(t, v, d)
  BY <1>1, <1>2, <1>3, <1>4, <1>5, <1>6, <1>7, <1>8 DEF Ticks
<1> QED
  BY <1>2, <1>9, TicksKeeps

\* What the reply says is recorded, in whatever epoch the sentinel is by now.
LEMMA ReceiveKeeps ==
    ASSUME Inv, Mailed, NEW p \in replies, ReceiveIsMasterDownReply(p)
    PROVE  Inv'
<1> DEFINE s == p.to
           t == p.from
           old == snt[s].sentinels[t]
           u == IF p.leader = NoOne THEN [old EXCEPT !.down = p.down]
                ELSE [old EXCEPT !.down = p.down, !.leader = p.leader,
                                 !.leader_epoch = p.leader_epoch]
           se == [snt[s].sentinels EXCEPT ![t] = u]
           q == [snt[s] EXCEPT !.sentinels = se]
<1>1. /\ s \in Sentinels /\ p.down \in BOOLEAN
      /\ p.leader \in Runids \cup {NoOne} /\ p.leader_epoch \in 0..MaxEpoch
      /\ p.leader # NoOne => <<t, p.leader_epoch, p.leader>> \in votes
  BY DEF Mailed, Replies
<1>2. /\ t \in DOMAIN snt[s].sentinels
      /\ snt' = [snt EXCEPT ![s].sentinels[t] = u]
      /\ UNCHANGED <<disk, inst, slaveof, hellos, limit, faults, votes, wins,
                     touched>>
  BY DEF ReceiveIsMasterDownReply
<1> HIDE DEF s, t
<1>3. /\ snt[s] \in Memory /\ Coherent(snt[s]) /\ snt[s].state # UPDATE_CONFIG
      /\ disk[s] \in Disks /\ disk = [disk EXCEPT ![s] = disk[s]]
      /\ disk[s].current_epoch \in Nat
      /\ disk[s].current_epoch <= snt[s].current_epoch
      /\ disk[s].leader_epoch = snt[s].leader_epoch
      /\ disk[s].leader_epoch <= disk[s].current_epoch
      /\ <<disk[s].config_epoch, disk[s].addr>> \in Configs
      /\ snt \in [Sentinels -> Memory]
  BY <1>1, InvOf DEF Sound
<1>4. /\ snt[s].sentinels \in [DOMAIN snt[s].sentinels -> Peers]
      /\ DOMAIN snt[s].sentinels \in SUBSET Sentinels
  BY <1>3, PeerMapFacts DEF Memory
<1>5. old \in Peers
  BY <1>2, <1>4
<1> HIDE DEF old
<1>6. /\ u \in Peers
      /\ \/ u.leader = old.leader /\ u.leader_epoch = old.leader_epoch
         \/ <<t, u.leader_epoch, u.leader>> \in votes
  BY <1>1, <1>5 DEF Peers
<1>7. snt' = [snt EXCEPT ![s] = q]
  BY <1>1, <1>2, <1>3 DEF Memory
<1> HIDE DEF u
<1>8. se \in PeerMaps /\ DOMAIN se = DOMAIN snt[s].sentinels
      /\ se[t] = u /\ \A x \in DOMAIN se \ {t} : se[x] = snt[s].sentinels[x]
  <2>1. se \in [DOMAIN snt[s].sentinels -> Peers]
    BY <1>4, <1>6
  <2> QED BY <1>2, <1>4, <2>1, PeerMapIntro
<1>9. \A x \in DOMAIN se :
        \/ se[x].leader = snt[s].sentinels[x].leader
           /\ se[x].leader_epoch = snt[s].sentinels[x].leader_epoch
        \/ <<x, se[x].leader_epoch, se[x].leader>> \in votes
  BY <1>6, <1>8 DEF old
<1> HIDE DEF se
<1>10. /\ q \in Memory
       /\ q.run = snt[s].run /\ q.config_epoch = snt[s].config_epoch
       /\ q.current_epoch = snt[s].current_epoch /\ q.addr = snt[s].addr
       /\ q.leader = snt[s].leader /\ q.leader_epoch = snt[s].leader_epoch
       /\ q.failover_epoch = snt[s].failover_epoch /\ q.flags = snt[s].flags
       /\ q.sentinels = se /\ q.slaves = snt[s].slaves
       /\ q.state = snt[s].state /\ q.promoted = snt[s].promoted
  BY <1>3, <1>8 DEF Memory
<1> HIDE DEF q
<1>11. CurrentMaster(q) = CurrentMaster(snt[s]) /\ Coherent(q)
  BY <1>3, <1>10 DEF CurrentMaster, Coherent
<1>12. Fits(s, q, disk[s])
  BY <1>3, <1>10 DEF Fits
<1>13. /\ slaveof' \subseteq Sentinels \X Instances \X (Instances \cup {NoOne})
       /\ touched \subseteq touched' /\ touched' \subseteq 0..MaxEpoch
       /\ disk' = [disk EXCEPT ![s] = disk[s]] /\ Elected
  BY <1>2, <1>3 DEF Inv, Types
<1>14. Ticks(s, q, disk[s])
  BY <1>2, <1>3, <1>7, <1>8, <1>9, <1>10, <1>11, <1>12, <1>13 DEF Ticks
<1> QED
  BY <1>1, <1>14, TicksKeeps

\* What is published is a configuration of the sender, and stays one.
LEMMA PublishKeeps ==
    ASSUME Inv, NEW s \in Sentinels, Publish(s)
    PROVE  Inv'
<1> DEFINE h == HelloOf(s)
<1>1. /\ hellos' \subseteq hellos \cup {h}
      /\ UNCHANGED <<snt, disk, inst, slaveof, limit, faults, votes, wins, touched>>
  BY DEF Publish
<1>2. h \in Hellos /\ <<h.config_epoch, h.addr>> \in Configs
  <2>1. /\ snt[s] \in Memory /\ Coherent(snt[s]) /\ Runid(s) \in Runids
        /\ <<snt[s].config_epoch, CurrentMaster(snt[s])>> \in Configs
    BY InvOf
  <2>2. CurrentMaster(snt[s]) \in Instances
    BY <2>1, SlaveMapFacts DEF CurrentMaster, Coherent, Memory
  <2>3. /\ h = [from |-> Runid(s), current_epoch |-> snt[s].current_epoch,
                addr |-> CurrentMaster(snt[s]),
                config_epoch |-> snt[s].config_epoch]
        /\ snt[s].current_epoch \in 0..MaxEpoch
        /\ snt[s].config_epoch \in 0..MaxEpoch
    BY <2>1 DEF HelloOf, Memory
  <2> HIDE DEF h
  <2> QED BY <2>1, <2>2, <2>3 DEF Hellos
<1> HIDE DEF h
<1>3. Types'
  BY <1>1, <1>2 DEF Inv, Types
<1>4. (\A u \in Sentinels : Local(u))' /\ Voted' /\ Elected'
  BY <1>1 DEF Inv, Local, Voted, OneVotePerEpoch, Elected, Voters
<1>5. \A c \in Configs' : c \in Configs
  BY <1>1, <1>2 DEF Configs, CurrentMaster
<1>6. Agreed'
  <2>1. /\ wins \subseteq wins' /\ touched \subseteq touched'
        /\ \A u \in Sentinels : \A e \in 0..MaxEpoch : Pending(u, e)' => Pending(u, e)
    BY <1>1 DEF Pending
  <2> QED BY <1>3, <1>5, <2>1, AgreedStep DEF Inv
<1> QED
  BY <1>3, <1>4, <1>6 DEF Inv

\* The votes the replies name stay cast.
LEMMA MailedStep ==
    ASSUME Mailed, requests' \subseteq Requests, replies' \subseteq replies,
           votes \subseteq votes'
    PROVE  Mailed'
  BY DEF Mailed

LEMMA CloseLinksFacts ==
    ASSUME requests \subseteq Requests, NEW s, NEW ts, CloseLinks(s, ts)
    PROVE  requests' \subseteq Requests /\ replies' \subseteq replies
<1>1. \A q \in requests : [q EXCEPT !.from = NoOne] \in Requests
  BY DEF Requests
<1> QED
  BY <1>1 DEF CloseLinks

LEMMA AskMasterStateMailed ==
    ASSUME Inv, Mailed, NEW s \in Sentinels, NEW t \in Sentinels,
           AskMasterState(s, t)
    PROVE  Mailed'
<1> DEFINE candidate == IF snt[s].state > NONE THEN Runid(s) ELSE NoOne
           q == [from |-> s, to |-> t, addr |-> snt[s].addr,
                 epoch |-> snt[s].current_epoch, runid |-> candidate]
<1>1. /\ requests' = requests \cup {q}
      /\ replies' = replies /\ votes' = votes
  BY DEF AskMasterState
<1>2. /\ snt[s].addr \in Instances /\ snt[s].current_epoch \in 0..MaxEpoch
      /\ Runid(s) \in Runids
  BY InvOf DEF Memory
<1>3. candidate \in Runids \cup {NoOne}
  BY <1>2
<1> HIDE DEF candidate
<1>4. q \in Requests
  BY <1>2, <1>3 DEF Requests
<1> HIDE DEF q
<1> QED
  BY <1>1, <1>4, MailedStep DEF Mailed

LEMMA IsMasterDownMailed ==
    ASSUME Inv, Inv', Mailed, NEW q \in requests, IsMasterDown(q)
    PROVE  Mailed'
<1> DEFINE t == q.to
           here == snt[t].addr = q.addr
           asked == here /\ q.runid # NoOne
           v == IF asked THEN VoteLeader(snt[t], q.epoch, q.runid) ELSE snt[t]
           voted == asked /\ v.leader # NoOne
<1>1. PICK tilt \in BOOLEAN :
        /\ snt' = [snt EXCEPT ![t] = v]
        /\ votes' = VoteCast(t, snt[t], v)
        /\ requests' = requests \ {q}
        /\ replies' = IF q.from = NoOne THEN replies ELSE replies \cup
             {[from |-> t, to |-> q.from,
               down |-> ~tilt /\ here /\ "S_DOWN" \in v.flags,
               leader |-> IF voted THEN v.leader ELSE NoOne,
               leader_epoch |-> IF voted THEN v.leader_epoch ELSE 0]}
  BY DEF IsMasterDown, Happens
<1> DEFINE dn == ~tilt /\ here /\ "S_DOWN" \in v.flags
           ld == IF voted THEN v.leader ELSE NoOne
           le == IF voted THEN v.leader_epoch ELSE 0
           p == [from |-> t, to |-> q.from, down |-> dn, leader |-> ld,
                 leader_epoch |-> le]
<1>2. replies' = IF q.from = NoOne THEN replies ELSE replies \cup {p}
  BY <1>1
<1>3. t \in Sentinels /\ q.from \in Sentinels \cup {NoOne}
      /\ requests' \subseteq Requests
  BY <1>1 DEF Mailed, Requests
<1> HIDE DEF t
<1>4. snt'[t] = v /\ snt'[t] \in Memory
      /\ (v.leader # NoOne => <<t, v.leader_epoch, v.leader>> \in votes')
  BY <1>1, <1>3 DEF Inv, Types, Voted
<1> HIDE DEF v
<1>5. v.leader \in Runids \cup {NoOne} /\ v.leader_epoch \in 0..MaxEpoch
      /\ 0 \in 0..MaxEpoch
  BY <1>4, LimitFacts DEF Memory
<1>6. /\ ld \in Runids \cup {NoOne} /\ le \in 0..MaxEpoch
      /\ ld # NoOne => <<t, le, ld>> \in votes'
  BY <1>4, <1>5
<1>7. dn \in BOOLEAN
  OBVIOUS
<1> HIDE DEF ld, le, dn, voted
<1>8. q.from # NoOne => p \in Replies
  BY <1>3, <1>6, <1>7 DEF Replies
<1>9. p.from = t /\ p.leader = ld /\ p.leader_epoch = le
  OBVIOUS
<1> HIDE DEF p
<1>10. votes \subseteq votes'
  BY <1>1 DEF VoteCast
<1> QED
  BY <1>2, <1>3, <1>6, <1>8, <1>9, <1>10 DEF Mailed

-----------------------------------------------------------------------------
(* The theorems *)

LEMMA InitInv ==
    ASSUME Init
    PROVE  Inv
<1>1. /\ FirstMaster \in Instances /\ MaxEpoch \in Nat /\ MaxFaults \in Nat
      /\ NoOne \notin Instances
  BY SentinelAssumption DEF SentinelAssumption
<1> DEFINE d0(s) == [current_epoch |-> 0, config_epoch |-> 0, leader_epoch |-> 0,
                     addr |-> FirstMaster, slaves |-> Instances \ {FirstMaster},
                     sentinels |-> [t \in Sentinels \ {s} |-> <<t, 0>>]]
<1>2. /\ disk = [s \in Sentinels |-> d0(s)]
      /\ snt = [s \in Sentinels |-> Loaded(disk[s], 0)]
      /\ inst = [i \in Instances |-> IF i = FirstMaster THEN NoOne ELSE FirstMaster]
      /\ slaveof = {} /\ faults = 0 /\ votes = {} /\ wins = {} /\ touched = {}
      /\ hellos = {} /\ limit \in Limits
  BY DEF Init
<1>3. ASSUME NEW s \in Sentinels
      PROVE  /\ disk[s] \in Disks
             /\ disk[s].current_epoch = 0 /\ disk[s].config_epoch = 0
             /\ disk[s].leader_epoch = 0 /\ disk[s].addr = FirstMaster
             /\ DOMAIN disk[s].sentinels = Sentinels \ {s}
  <2> DEFINE f == [t \in Sentinels \ {s} |-> <<t, 0>>]
  <2>1. f \in [Sentinels \ {s} -> Runids]
    BY <1>1 DEF Runids
  <2>2. f \in UNION {[S -> Runids] : S \in SUBSET Sentinels}
    BY <2>1
  <2>3. disk[s] = d0(s) /\ d0(s).sentinels = f
    BY <1>2
  <2> HIDE DEF f
  <2> QED BY <1>1, <2>2, <2>3, <2>1 DEF Disks
<1>4. ASSUME NEW s \in Sentinels
      PROVE  /\ snt[s] \in Memory /\ Coherent(snt[s])
             /\ snt[s].run = 0 /\ snt[s].config_epoch = 0
             /\ snt[s].current_epoch >= 0
             /\ snt[s].leader = NoOne /\ snt[s].leader_epoch = 0
             /\ snt[s].state = NONE /\ snt[s].flags = {}
             /\ DOMAIN snt[s].sentinels = Sentinels \ {s}
             /\ \A t \in DOMAIN snt[s].sentinels : snt[s].sentinels[t].leader = NoOne
             /\ CurrentMaster(snt[s]) = FirstMaster
  <2>1. snt[s] = Loaded(disk[s], 0)
    BY <1>2
  <2>2. 0 \in 0..MaxFaults
    BY <1>1
  <2>3. disk[s].leader_epoch <= disk[s].current_epoch
    BY <1>3
  <2> QED BY <1>3, <2>1, <2>2, <2>3, LoadedFacts
<1>5. Types
  <2>1. snt \in [Sentinels -> Memory] /\ disk \in [Sentinels -> Disks]
    BY <1>2, <1>3, <1>4
  <2>2. inst \in [Instances -> Instances \cup {NoOne}]
    BY <1>1, <1>2
  <2>3. faults \in 0..MaxFaults
    BY <1>1, <1>2
  <2> QED BY <1>2, <2>1, <2>2, <2>3 DEF Types
<1>6. ASSUME NEW s \in Sentinels PROVE Local(s)
  BY <1>2, <1>3, <1>4 DEF Local, Sound
<1>7. Voted
  BY <1>2, <1>4 DEF Voted, OneVotePerEpoch
<1>8. Elected
  BY <1>2, <1>4 DEF Elected
<1>9. \A c \in Configs : c = <<0, FirstMaster>>
  BY <1>2, <1>3, <1>4 DEF Configs
<1>10. Agreed
  BY <1>9 DEF Agreed
<1> QED
  BY <1>5, <1>6, <1>7, <1>8, <1>10 DEF Inv

LEMMA NextInv ==
    ASSUME Inv, Mailed, [Next]_vars
    PROVE  Inv'
<1>1. ASSUME NEW s \in Sentinels, Timer(s) PROVE Inv'
  BY <1>1, TimerKeeps
<1>2. ASSUME NEW s \in Sentinels, InfoOfMaster(s) PROVE Inv'
  BY <1>2, InfoOfMasterKeeps
<1>3. ASSUME NEW s \in Sentinels, Publish(s) PROVE Inv'
  BY <1>3, PublishKeeps
<1>4. ASSUME NEW s \in Sentinels, ResetCommand(s) PROVE Inv'
  BY <1>4, ResetKeeps
<1>5. ASSUME NEW s \in Sentinels, FailoverCommand(s) PROVE Inv'
  BY <1>5, FailoverCommandKeeps
<1>6. ASSUME NEW s \in Sentinels, Restart(s) PROVE Inv'
  BY <1>6, RestartKeeps
<1>7. ASSUME NEW s \in Sentinels, NEW i \in DOMAIN snt[s].slaves, InfoOfSlave(s, i)
      PROVE  Inv'
  BY <1>7, InfoOfSlaveKeeps
<1>8. ASSUME NEW s \in Sentinels, NEW h \in hellos, ProcessHello(s, h)
      PROVE  Inv'
  BY <1>8, ProcessHelloKeeps
<1>9. ASSUME NEW s \in Sentinels, NEW t \in Sentinels,
             AskMasterState(s, t) \/ Disconnect(s, t)
      PROVE  Inv'
  <2>1. /\ UNCHANGED <<snt, disk, hellos, limit, faults, votes, wins, touched>>
        /\ inst' = inst /\ slaveof' = slaveof
    BY <1>9 DEF AskMasterState, Disconnect
  <2> QED BY <2>1, UnchangedSentinels DEF Inv, Types
<1>10. ASSUME NEW q \in requests, IsMasterDown(q) PROVE Inv'
  BY <1>10, IsMasterDownKeeps
<1>11. ASSUME NEW p \in replies, ReceiveIsMasterDownReply(p) PROVE Inv'
  BY <1>11, ReceiveKeeps
<1>12. CASE SlaveOf
  BY <1>12, SlaveOfKeeps
<1>13. CASE UNCHANGED vars
  <2>1. /\ UNCHANGED <<snt, disk, hellos, limit, faults, votes, wins, touched>>
        /\ inst' = inst /\ slaveof' = slaveof
    BY <1>13 DEF vars, net
  <2> QED BY <2>1, UnchangedSentinels DEF Inv, Types
<1> QED
  BY <1>1, <1>2, <1>3, <1>4, <1>5, <1>6, <1>7, <1>8, <1>9, <1>10, <1>11, <1>12,
     <1>13 DEF Next

LEMMA NextMailed ==
    ASSUME Inv, Inv', Mailed, [Next]_vars
    PROVE  Mailed'
<1>1. ASSUME UNCHANGED <<requests, replies>>, votes \subseteq votes'
      PROVE  Mailed'
  BY <1>1, MailedStep DEF Mailed
<1>2. ASSUME NEW s \in Sentinels,
             \/ Timer(s) \/ InfoOfMaster(s) \/ Publish(s) \/ FailoverCommand(s)
             \/ \E i \in DOMAIN snt[s].slaves : InfoOfSlave(s, i)
      PROVE  Mailed'
  <2>1. CASE Timer(s)
    <3>1. PICK silent, elapsed, connected, down, old :
            Tick(s, silent, elapsed, connected, down, old)
      BY <2>1 DEF Timer
    <3>2. \E r, v : votes' = VoteCast(s, r, v)
      BY <3>1, Zenon DEF Tick
    <3>3. votes \subseteq votes'
      BY <3>2 DEF VoteCast
    <3> QED BY <1>1, <3>1, <3>3 DEF Tick, net
  <2>2. CASE InfoOfMaster(s)
    BY <1>1, <2>2 DEF InfoOfMaster, net
  <2>3. CASE Publish(s)
    BY <1>1, <2>3 DEF Publish
  <2>4. CASE FailoverCommand(s)
    BY <1>1, <2>4 DEF FailoverCommand, net
  <2>5. CASE \E i \in DOMAIN snt[s].slaves : InfoOfSlave(s, i)
    BY <1>1, <2>5 DEF InfoOfSlave, net
  <2> QED BY <1>2, <2>1, <2>2, <2>3, <2>4, <2>5
<1>3. ASSUME NEW s \in Sentinels, NEW ts, CloseLinks(s, ts), votes' = votes
      PROVE  Mailed'
  BY <1>3, CloseLinksFacts, MailedStep DEF Mailed
<1>4. ASSUME NEW s \in Sentinels, ResetCommand(s) PROVE Mailed'
  BY <1>3, <1>4 DEF ResetCommand
<1>5. ASSUME NEW s \in Sentinels, NEW h \in hellos, ProcessHello(s, h)
      PROVE  Mailed'
  BY <1>3, <1>5 DEF ProcessHello
<1>6. ASSUME NEW s \in Sentinels, NEW t \in Sentinels, Disconnect(s, t)
      PROVE  Mailed'
  BY <1>3, <1>6 DEF Disconnect
<1>7. ASSUME NEW s \in Sentinels, Restart(s) PROVE Mailed'
  <2>1. \A q \in requests : [q EXCEPT !.from = NoOne] \in Requests
    BY DEF Mailed, Requests
  <2>2. requests' \subseteq Requests /\ replies' \subseteq replies /\ votes' = votes
    BY <1>7, <2>1 DEF Restart, Mailed
  <2> QED BY <2>2, MailedStep
<1>8. ASSUME NEW s \in Sentinels, NEW t \in Sentinels, AskMasterState(s, t)
      PROVE  Mailed'
  BY <1>8, AskMasterStateMailed
<1>9. ASSUME NEW q \in requests, IsMasterDown(q) PROVE Mailed'
  BY <1>9, IsMasterDownMailed
<1>10. ASSUME NEW p \in replies, ReceiveIsMasterDownReply(p) PROVE Mailed'
  <2>1. requests' = requests /\ replies' \subseteq replies /\ votes' = votes
    BY <1>10 DEF ReceiveIsMasterDownReply
  <2> QED BY <2>1, MailedStep DEF Mailed
<1>11. CASE SlaveOf
  BY <1>1, <1>11 DEF SlaveOf, net
<1>12. CASE UNCHANGED vars
  BY <1>1, <1>12 DEF vars, net
<1> QED
  BY <1>2, <1>4, <1>5, <1>6, <1>7, <1>8, <1>9, <1>10, <1>11, <1>12 DEF Next

LEMMA InvHolds == Spec => [](Inv /\ Mailed)
<1>1. Init => Inv /\ Mailed
  BY InitInv DEF Init, Mailed
<1>2. Inv /\ Mailed /\ [Next]_vars => (Inv /\ Mailed)'
  BY NextInv, NextMailed
<1> QED
  BY <1>1, <1>2, PTL DEF Spec

\* Whatever callbacks, commands and restarts interleave, the fields of every
\* sentinelRedisInstance stay in their types.
THEOREM TypeCorrect == Spec => []TypeOK
<1>1. Inv /\ Mailed => TypeOK
  BY DEF Inv, Types, Mailed, TypeOK
<1> QED
  BY <1>1, InvHolds, PTL

\* sentinelVoteLeader and sentinelGetLeader: one vote of each sentinel in an
\* epoch, and one leader unless the epoch is touched, for any number of
\* sentinels, any quorum, through crashes between any two steps, requests that
\* are executed late or for nobody, and replies that are read late or never.
THEOREM ElectionsSafe == Spec => []ElectionSafe
<1>1. Inv => ElectionSafe
  <2>1. Inv => OneVotePerEpoch
    BY DEF Inv, Voted
  <2>2. Inv => OneLeaderPerEpoch
    BY LeaderUnique DEF Inv
  <2> QED BY <2>1, <2>2 DEF ElectionSafe
<1> QED
  BY <1>1, InvHolds, PTL

\* sentinelRefreshInstanceInfo and sentinelProcessHelloMessage: two sentinels
\* with a configuration of the same epoch publish the same master, unless the
\* epoch is touched, whatever hellos published earlier each of them receives.
THEOREM ConfigurationsAgree == Spec => []ConfigAgreement
<1>1. Inv => ConfigAgreement
  <2> SUFFICES ASSUME Inv, NEW s \in Sentinels, NEW t \in Sentinels,
                      snt[s].config_epoch = snt[t].config_epoch,
                      snt[s].config_epoch \notin touched
               PROVE  CurrentMaster(snt[s]) = CurrentMaster(snt[t])
    BY DEF ConfigAgreement
  <2> DEFINE c == <<snt[s].config_epoch, CurrentMaster(snt[s])>>
             d == <<snt[t].config_epoch, CurrentMaster(snt[t])>>
  <2>1. c \in Configs /\ d \in Configs /\ c[1] = d[1] /\ c[1] \notin touched
    BY DEF Configs
  <2>2. c = d
    BY <2>1 DEF Inv, Agreed
  <2> QED BY <2>2
<1> QED
  BY <1>1, InvHolds, PTL

\* The promoted slave the failover states read through a pointer is set, and
\* is one of the slaves, whatever was reset or switched meanwhile.
THEOREM PromotedIsKnown == Spec => []PromotedKnown
<1>1. Inv => PromotedKnown
  <2> SUFFICES ASSUME Inv, NEW s \in Sentinels
               PROVE  /\ snt[s].state \in SEND_SLAVEOF_NOONE..UPDATE_CONFIG
                           => snt[s].promoted \in DOMAIN snt[s].slaves
                      /\ \A i \in DOMAIN snt[s].slaves :
                           "RECONF_SENT" \in snt[s].slaves[i]
                             => snt[s].promoted # NoOne
    BY DEF PromotedKnown
  <2>1. snt[s] \in Memory /\ Coherent(snt[s])
    BY InvOf
  <2>2. snt[s].promoted \in DOMAIN snt[s].slaves => snt[s].promoted # NoOne
    BY <2>1, SlaveMapFacts, SentinelAssumption DEF Memory, SentinelAssumption
  <2> QED BY <2>1, <2>2 DEF Coherent
<1> QED
  BY <1>1, InvHolds, PTL
=============================================================================

---------------------------- MODULE ClusterProofs ----------------------------
(***************************************************************************)
(* What a Redis cluster promises, proved for any number of nodes, slots,   *)
(* epochs, commands and restarts, and any cluster to start from.           *)
(***************************************************************************)
EXTENDS Cluster, FiniteSetTheorems, TLAPS

MaybeNode == Nodes \cup {NoNode}
Flags == {"ok", "pfail", "fail"}

\* View, with epochs that a step may still refuse to go to.
Tables ==
    [cur: Nat, lastVote: Nat, epoch: [Nodes -> Nat], of: [Nodes -> MaybeNode],
     flag: [Nodes -> Flags], reports: SUBSET (Nodes \X Nodes),
     owner: [Slots -> MaybeNode], importing: [Slots -> MaybeNode],
     size: 0..Cardinality(Nodes), sent: BOOLEAN, count: Nat, auth_epoch: Nat,
     mf: {"no", "wait", "offset", "start"}, todo: SUBSET {"update", "save"}]

Files ==
    [cur: Nat, lastVote: Nat, epoch: [Nodes -> Nat], of: [Nodes -> MaybeNode],
     flag: [Nodes -> Flags], owner: [Slots -> MaybeNode],
     importing: [Slots -> MaybeNode]]

\* In v no epoch is greater than the current one, and me is a master if it
\* owns a slot.
Ordered(v, me) ==
    /\ \A n \in Nodes : v.epoch[n] <= v.cur
    /\ v.lastVote <= v.cur
    /\ \A s \in Slots : v.owner[s] = me => v.of[me] = NoNode

\* What holds of the memory v and of the file d of node me.
Good(v, me) == v \in Tables /\ Ordered(v, me) /\ v.auth_epoch <= v.cur
GoodFile(d, me) == d \in Files /\ Ordered(d, me)

\* w comes from v without a vote.
Follows(v, w, me) == Good(w, me) /\ v.lastVote = w.lastVote /\ v.cur <= w.cur

-----------------------------------------------------------------------------
(* The helpers keep a table good *)

LEMMA TodoGood ==
    ASSUME NEW me \in Nodes, NEW v, Good(v, me), NEW what \in SUBSET {"update", "save"}
    PROVE  Follows(v, Todo(v, what), me)
BY SMT DEF Good, Ordered, Follows, Tables, Todo

LEMMA SizeGood ==
    ASSUME NEW me \in Nodes, NEW v, Good(v, me)
    PROVE  Follows(v, UpdateState(v), me)
<1> DEFINE masters == {n \in Nodes : IsMaster(v, n) /\ SlotsOf(v, n) # {}}
<1>1. Cardinality(masters) \in 0..Cardinality(Nodes)
  <2>1. IsFiniteSet(Nodes) /\ masters \subseteq Nodes
    BY ClusterAssumption
  <2>2. /\ IsFiniteSet(masters) /\ Cardinality(masters) <= Cardinality(Nodes)
    BY <2>1, FS_Subset
  <2>3. Cardinality(masters) \in Nat /\ Cardinality(Nodes) \in Nat
    BY <2>1, <2>2, FS_CardinalityType
  <2> QED BY <2>2, <2>3
<1>2. UpdateState(v) = [v EXCEPT !.size = Cardinality(masters)]
  BY DEF UpdateState
<1> HIDE DEF masters
<1> QED BY <1>1, <1>2 DEF Good, Ordered, Follows, Tables

LEMMA SleptGood ==
    ASSUME NEW me \in Nodes, NEW v, Good(v, me)
    PROVE  Follows(v, Slept(v), me)
<1>1. \A w : Good(w, me) => Follows(w, [w EXCEPT !.todo = {}], me)
  BY SMT DEF Good, Ordered, Follows, Tables
<1>2. Follows(v, UpdateState(v), me) BY SizeGood
<1>3. CASE "update" \in v.todo
  <2>1. Good(UpdateState(v), me) BY <1>2 DEF Follows
  <2>2. Follows(UpdateState(v), [UpdateState(v) EXCEPT !.todo = {}], me)
    BY <1>1, <2>1
  <2>3. v.cur \in Nat /\ UpdateState(v).cur \in Nat /\ [UpdateState(v) EXCEPT !.todo = {}].cur \in Nat
    BY <1>2, <2>2 DEF Follows, Good, Tables
  <2> QED BY <1>2, <1>3, <2>2, <2>3 DEF Follows, Slept
<1>4. CASE "update" \notin v.todo BY <1>1, <1>4 DEF Slept
<1> QED BY <1>3, <1>4

LEMMA SavedGood ==
    ASSUME NEW me \in Nodes, NEW v, Good(v, me)
    PROVE  GoodFile(Saved(v), me)
BY SMT DEF Good, GoodFile, Ordered, Tables, Files, Saved

\* With every epoch at most the current one, clusterGetMaxEpoch is it.
LEMMA MaxIsCurrent ==
    ASSUME NEW v, v.cur \in Nat, v.epoch \in [Nodes -> Nat],
           \A n \in Nodes : v.epoch[n] <= v.cur
    PROVE  GetMaxEpoch(v) = v.cur
<1> DEFINE E == {v.cur} \cup {v.epoch[n] : n \in Nodes}
           P(e) == v.cur <= e /\ \A n \in Nodes : v.epoch[n] <= e
<1>1. v.cur \in E /\ P(v.cur) OBVIOUS
<1>2. \A e \in E : e \in Nat /\ e <= v.cur OBVIOUS
<1>3. \A e \in E : P(e) => e = v.cur BY <1>2
<1>4. GetMaxEpoch(v) = CHOOSE e \in E : P(e) BY DEF GetMaxEpoch
<1> HIDE DEF E, P
<1> QED BY <1>1, <1>3, <1>4

LEMMA LoadedGood ==
    ASSUME NEW me \in Nodes, NEW d, GoodFile(d, me)
    PROVE  /\ Good(Loaded(d), me)
           /\ Loaded(d).lastVote = d.lastVote /\ Loaded(d).cur = d.cur
<1> DEFINE v == [cur |-> d.cur, lastVote |-> d.lastVote, epoch |-> d.epoch,
                 of |-> d.of, flag |-> d.flag, reports |-> {}, owner |-> d.owner,
                 importing |-> d.importing, size |-> 1, sent |-> FALSE,
                 count |-> 0, auth_epoch |-> 0, mf |-> "no", todo |-> {}]
<1>1. 1 \in 0..Cardinality(Nodes)
  <2>1. IsFiniteSet(Nodes) BY ClusterAssumption
  <2>2. Cardinality(Nodes) \in Nat BY <2>1, FS_CardinalityType
  <2>3. Cardinality(Nodes) # 0 BY <2>1, FS_EmptySet
  <2> QED BY <2>2, <2>3
<1>2. v \in Tables BY <1>1 DEF GoodFile, Files, Tables
<1>3. Ordered(v, me) BY DEF GoodFile, Ordered
<1>4. d.cur \in Nat /\ d.epoch \in [Nodes -> Nat]
  BY DEF GoodFile, Files
<1>5. GetMaxEpoch(v) = v.cur
  <2>1. v.cur \in Nat /\ v.epoch \in [Nodes -> Nat] BY <1>4
  <2>2. \A n \in Nodes : v.epoch[n] <= v.cur BY <1>3 DEF Ordered
  <2> HIDE DEF v
  <2> QED BY <2>1, <2>2, MaxIsCurrent
<1>6. Loaded(d) = [v EXCEPT !.cur = GetMaxEpoch(v)] BY DEF Loaded
<1>7. Loaded(d) = v BY <1>5, <1>6
<1>8. v.auth_epoch <= v.cur BY <1>4
<1> QED BY <1>2, <1>3, <1>7, <1>8 DEF Good
LEMMA Chain ==
    ASSUME NEW me \in Nodes, NEW u, NEW v, NEW w, Good(u, me), Follows(u, v, me), Follows(v, w, me)
    PROVE  Follows(u, w, me)
BY SMT DEF Follows, Good, Tables

LEMMA Itself ==
    ASSUME NEW me \in Nodes, NEW v, Good(v, me)
    PROVE  Follows(v, v, me)
BY SMT DEF Follows, Good, Tables

\* A new epoch is the one after the current.
Bumped(v, me) == Todo([v EXCEPT !.cur = @ + 1, !.epoch[me] = v.cur + 1], {"save"})

LEMMA BumpedGood ==
    ASSUME NEW me \in Nodes, NEW v, Good(v, me)
    PROVE  Follows(v, Bumped(v, me), me)
<1> DEFINE epoch == [v.epoch EXCEPT ![me] = v.cur + 1]
           w == [v EXCEPT !.cur = v.cur + 1, !.epoch = epoch]
<1>1. v \in Tables /\ v.cur \in Nat /\ v.epoch \in [Nodes -> Nat]
  BY DEF Good, Tables
<1>2. epoch \in [Nodes -> Nat] /\ \A n \in Nodes : epoch[n] <= v.cur + 1
  BY <1>1 DEF Good, Ordered
<1>3. [v EXCEPT !.cur = @ + 1, !.epoch[me] = v.cur + 1] = w
  BY <1>1 DEF Tables
<1>4. Follows(v, w, me)
  <2> HIDE DEF epoch
  <2>1. w \in Tables
    <3>1. v.cur + 1 \in Nat BY <1>1
    <3> QED BY <1>1, <1>2, <3>1 DEF Tables
  <2>2. /\ w.cur = v.cur + 1 /\ w.epoch = epoch /\ w.lastVote = v.lastVote
        /\ w.owner = v.owner /\ w.of = v.of /\ w.auth_epoch = v.auth_epoch
    BY <1>1 DEF Tables
  <2>3. v.lastVote \in Nat /\ v.auth_epoch \in Nat BY <1>1 DEF Tables
  <2> HIDE DEF w
  <2> QED BY <1>1, <1>2, <2>1, <2>2, <2>3 DEF Good, Ordered, Follows
<1>5. Follows(w, Todo(w, {"save"}), me)
  <2>1. Good(w, me) BY <1>4 DEF Follows
  <2> HIDE DEF w
  <2> QED BY <2>1, TodoGood
<1> HIDE DEF w
<1> QED BY <1>3, <1>4, <1>5, Chain DEF Bumped

LEMMA BumpGood ==
    ASSUME NEW me \in Nodes, NEW v, Good(v, me)
    PROVE  Follows(v, Bump(v, me), me)
BY BumpedGood, Itself DEF Bump, Bumped

LEMMA CollisionGood ==
    ASSUME NEW me \in Nodes, NEW v, Good(v, me), NEW sender, NEW cfg
    PROVE  Follows(v, Collision(v, me, sender, cfg), me)
BY BumpedGood, Itself DEF Collision, Bumped

LEMMA SetNodeAsMasterGood ==
    ASSUME NEW me \in Nodes, NEW v, Good(v, me), NEW n \in Nodes
    PROVE  Follows(v, SetNodeAsMaster(v, n), me)
<1> DEFINE of == [v.of EXCEPT ![n] = NoNode]
           w == [v EXCEPT !.of = of]
<1>1. v \in Tables /\ v.of \in [Nodes -> MaybeNode] BY DEF Good, Tables
<1>2. of \in [Nodes -> MaybeNode] /\ (v.of[me] = NoNode => of[me] = NoNode)
  BY <1>1 DEF MaybeNode
<1>3. [v EXCEPT !.of[n] = NoNode] = w BY <1>1 DEF Tables
<1>4. Follows(v, w, me)
  <2> HIDE DEF of
  <2> QED BY <1>1, <1>2 DEF Good, Ordered, Follows, Tables
<1>5. Follows(w, Todo(w, {"save", "update"}), me)
  <2>1. Good(w, me) BY <1>4 DEF Follows
  <2> HIDE DEF w
  <2> QED BY <2>1, TodoGood
<1>6. Follows(v, Todo(w, {"save", "update"}), me)
  <2> HIDE DEF w
  <2> QED BY <1>4, <1>5, Chain
<1> QED BY <1>3, <1>6, Itself DEF SetNodeAsMaster

\* A node that lost its last slot to another node may become its slave.
LEMMA UpdateSlotsGood ==
    ASSUME NEW me \in Nodes, NEW v, Good(v, me), NEW sender \in Nodes,
           NEW cfg \in Nat, NEW slots \in SUBSET Slots
    PROVE  Follows(v, UpdateSlots(v, me, sender, cfg, slots), me)
<1>1. CASE UpdateSlots(v, me, sender, cfg, slots) = v BY <1>1, Itself
<1> DEFINE curmaster == IF IsMaster(v, me) THEN me ELSE v.of[me]
           taken == {s \in slots :
                       /\ v.owner[s] # sender
                       /\ v.importing[s] = NoNode
                       /\ v.owner[s] # NoNode => v.epoch[v.owner[s]] < cfg}
           owner == [s \in Slots |-> IF s \in taken THEN sender ELSE v.owner[s]]
           v1 == [v EXCEPT !.owner = owner]
           left == \E s \in taken : v.owner[s] = curmaster
           loses == left /\ SlotsOf(v1, curmaster) = {}
           w == IF loses THEN SetMaster(v1, me, sender) ELSE v1
<1>2. CASE sender # me /\ taken # {}
  <2>1. UpdateSlots(v, me, sender, cfg, slots) = Todo(w, {"save", "update"})
    <3>1. [v EXCEPT !.owner = [s \in Slots |-> IF s \in taken THEN sender ELSE @[s]]] = v1
      OBVIOUS
    <3> QED BY <1>2, <3>1 DEF UpdateSlots
  <2>2. owner \in [Slots -> MaybeNode]
    BY DEF Good, Tables, MaybeNode
  <2>3. v1 \in Tables BY <2>2 DEF Good, Tables
  <2>4. \A s \in Slots : owner[s] = me => v.owner[s] = me BY <1>2
  <2>5. v1.owner = owner /\ v1.of = v.of /\ v1.cur = v.cur /\ v1.epoch = v.epoch
        /\ v1.lastVote = v.lastVote /\ v1.auth_epoch = v.auth_epoch
    BY DEF Good, Tables
  <2>6. Follows(v, v1, me)
    <3> HIDE DEF owner, v1
    <3> QED BY <2>3, <2>4, <2>5 DEF Good, Ordered, Follows, Tables
  <2>7. ASSUME loses PROVE Follows(v, SetMaster(v1, me, sender), me)
    <3>1. \A s \in Slots : owner[s] # me
      <4>1. CASE IsMaster(v, me)
        BY <2>5, <2>7, <4>1 DEF SlotsOf
      <4>2. CASE ~IsMaster(v, me)
        BY <2>4, <4>2 DEF Good, Ordered, IsMaster
      <4> QED BY <4>1, <4>2
    <3> DEFINE u == SetMaster(v1, me, sender)
    <3>2. u \in Tables
      <4> DEFINE of == [v1.of EXCEPT ![me] = sender]
                 imp == IF IsMaster(v1, me) THEN [s \in Slots |-> NoNode] ELSE v1.importing
      <4>1. of \in [Nodes -> MaybeNode] /\ imp \in [Slots -> MaybeNode]
        <5> HIDE DEF v1
        <5> QED BY <2>3 DEF Tables, MaybeNode
      <4>2. u = [v1 EXCEPT !.of = of, !.mf = "no", !.importing = imp]
        <5> HIDE DEF v1
        <5> QED BY <2>3 DEF SetMaster, Tables
      <4> HIDE DEF v1, of, imp, u
      <4> QED BY <2>3, <4>1, <4>2 DEF Tables
    <3>3. u.owner = owner /\ u.cur = v.cur /\ u.epoch = v.epoch
          /\ u.lastVote = v.lastVote /\ u.auth_epoch = v.auth_epoch
      <4> HIDE DEF v1
      <4> QED BY <2>3, <2>5 DEF SetMaster, Tables
    <3>4. v.cur \in Nat BY DEF Good, Tables
    <3>5. Follows(v, u, me)
      <4> HIDE DEF u, owner
      <4> QED BY <3>1, <3>2, <3>3, <3>4 DEF Good, Ordered, Follows
    <3> QED BY <3>5
  <2>8. Follows(v, w, me) BY <2>6, <2>7
  <2>9. Follows(w, Todo(w, {"save", "update"}), me)
    <3>1. Good(w, me) BY <2>8 DEF Follows
    <3> HIDE DEF w
    <3> QED BY <3>1, TodoGood
  <2> HIDE DEF w
  <2> QED BY <2>1, <2>8, <2>9, Chain
<1>3. ~(sender # me /\ taken # {}) => UpdateSlots(v, me, sender, cfg, slots) = v
  BY DEF UpdateSlots
<1> QED BY <1>1, <1>2, <1>3

LEMMA ReplaceGood ==
    ASSUME NEW me \in Nodes, NEW v, Good(v, me)
    PROVE  Follows(v, ReplaceYourMaster(v, me), me)
<1> DEFINE a == SetNodeAsMaster(v, me)
           owner == [s \in Slots |-> IF a.owner[s] = v.of[me] THEN me ELSE a.owner[s]]
           b == [a EXCEPT !.owner = owner, !.mf = "no"]
<1>1. Follows(v, a, me) BY SetNodeAsMasterGood
<1>2. CASE ~IsMaster(v, me)
  <2>1. a.of[me] = NoNode
    BY <1>2 DEF SetNodeAsMaster, Todo, Good, Tables
  <2>2. Good(a, me) BY <1>1 DEF Follows
  <2>3. owner \in [Slots -> MaybeNode]
    <3> HIDE DEF a
    <3> QED BY <2>2 DEF Good, Tables, MaybeNode
  <2>4. b \in Tables
    <3> HIDE DEF a, owner
    <3> QED BY <2>2, <2>3 DEF Good, Tables
  <2>5. Follows(a, b, me)
    <3> HIDE DEF a, owner
    <3> QED BY <2>1, <2>2, <2>4 DEF Good, Tables, Ordered, Follows
  <2>6. Follows(b, Todo(b, {"save", "update"}), me)
    <3>1. Good(b, me) BY <2>5 DEF Follows
    <3> HIDE DEF b
    <3> QED BY <3>1, TodoGood
  <2>7. ReplaceYourMaster(v, me) = Todo(b, {"save", "update"})
    BY <1>2 DEF ReplaceYourMaster
  <2> HIDE DEF a, b
  <2> QED BY <1>1, <2>5, <2>6, <2>7, Chain
<1>3. CASE IsMaster(v, me) BY <1>3, Itself DEF ReplaceYourMaster
<1> QED BY <1>2, <1>3

LEMMA FlagGood ==
    ASSUME NEW me \in Nodes, NEW v, Good(v, me), NEW n \in Nodes, NEW f \in Flags
    PROVE  Follows(v, Todo([v EXCEPT !.flag[n] = f], {"save", "update"}), me)
<1> DEFINE flag == [v.flag EXCEPT ![n] = f]
           w == [v EXCEPT !.flag = flag]
<1>1. v \in Tables /\ v.flag \in [Nodes -> Flags] BY DEF Good, Tables
<1>2. flag \in [Nodes -> Flags] BY <1>1
<1>3. [v EXCEPT !.flag[n] = f] = w BY <1>1 DEF Tables
<1>4. Follows(v, w, me)
  <2> HIDE DEF flag
  <2> QED BY <1>1, <1>2 DEF Good, Ordered, Follows, Tables
<1>5. Follows(w, Todo(w, {"save", "update"}), me)
  <2>1. Good(w, me) BY <1>4 DEF Follows
  <2> HIDE DEF w
  <2> QED BY <2>1, TodoGood
<1> HIDE DEF w
<1> QED BY <1>3, <1>4, <1>5, Chain

LEMMA FailedGood ==
    ASSUME NEW me \in Nodes, NEW v, Good(v, me), NEW n \in Nodes
    PROVE  Follows(v, Failed(v, n), me)
BY FlagGood DEF Failed, Flags

LEMMA ReachableGood ==
    ASSUME NEW me \in Nodes, NEW v, Good(v, me), NEW n \in Nodes, NEW old
    PROVE  Follows(v, Reachable(v, n, old), me)
<1>1. Follows(v, Todo([v EXCEPT !.flag[n] = "ok"], {"save", "update"}), me)
  BY FlagGood DEF Flags
<1> QED BY <1>1, Itself DEF Reachable

LEMMA GossipGood ==
    ASSUME NEW me \in Nodes, NEW v, Good(v, me), NEW sender \in Nodes, NEW g \in Nodes, NEW flag
    PROVE  Follows(v, Gossip(v, me, sender, g, flag), me)
<1>1. Follows(v, [v EXCEPT !.reports = @ \ {<<sender, g>>}], me)
  BY SMT DEF Good, Ordered, Follows, Tables
<1>2. Follows(v, [v EXCEPT !.reports = @ \cup {<<sender, g>>}], me)
  BY SMT DEF Good, Ordered, Follows, Tables
<1> QED BY <1>1, <1>2, Itself DEF Gossip

-----------------------------------------------------------------------------
(* Packets and elections *)

\* A header that me receives.
Heard(h, me) == h.from \in Nodes \ {me} /\ h.cur \in Nat /\ h.cfg \in 0..h.cur

LEMMA SeeHeaderGood ==
    ASSUME NEW me \in Nodes, NEW v, Good(v, me), NEW h, Heard(h, me)
    PROVE  /\ Follows(v, SeeHeader(v, me, h), me)
           /\ h.cur <= SeeHeader(v, me, h).cur
           /\ SeeHeader(v, me, h).cur \in {v.cur, h.cur}
<1> DEFINE cur == IF h.cur > v.cur THEN h.cur ELSE v.cur
           mf == IF v.mf = "wait" /\ v.of[me] = h.from /\ h.paused
                 THEN "offset" ELSE v.mf
           a == [v EXCEPT !.cur = cur, !.mf = mf]
           epoch == [v.epoch EXCEPT ![h.from] = h.cfg]
           b == [a EXCEPT !.epoch = epoch]
<1>1. v \in Tables /\ v.cur \in Nat /\ v.lastVote \in Nat /\ v.auth_epoch \in Nat
      /\ v.epoch \in [Nodes -> Nat]
  BY DEF Good, Tables
<1>2. cur \in Nat /\ v.cur <= cur /\ h.cur <= cur /\ cur \in {v.cur, h.cur}
  BY <1>1 DEF Heard
<1>3. mf \in {"no", "wait", "offset", "start"} BY DEF Good, Tables
<1>4. [v EXCEPT !.cur = IF h.cur > @ THEN h.cur ELSE @,
                !.mf = IF @ = "wait" /\ v.of[me] = h.from /\ h.paused
                       THEN "offset" ELSE @] = a
  OBVIOUS
<1>5. a \in Tables
  <2> HIDE DEF cur, mf
  <2> QED BY <1>1, <1>2, <1>3 DEF Tables
<1>6. /\ a.cur = cur /\ a.epoch = v.epoch /\ a.lastVote = v.lastVote
      /\ a.owner = v.owner /\ a.of = v.of /\ a.auth_epoch = v.auth_epoch
  <2> HIDE DEF cur, mf
  <2> QED BY <1>1 DEF Tables
<1>7. Follows(v, a, me) /\ h.cur <= a.cur
  <2> HIDE DEF a, cur
  <2> QED BY <1>1, <1>2, <1>5, <1>6 DEF Good, Ordered, Follows
<1>8. epoch \in [Nodes -> Nat] /\ \A n \in Nodes : epoch[n] <= cur
  <2>1. h.cfg \in Nat /\ h.cur \in Nat /\ h.cfg <= h.cur /\ h.from \in Nodes BY DEF Heard
  <2>2. epoch \in [Nodes -> Nat] BY <1>1, <2>1
  <2>3. ASSUME NEW n \in Nodes PROVE epoch[n] <= cur
    <3>1. v.epoch[n] \in Nat /\ v.epoch[n] <= v.cur BY <1>1 DEF Good, Ordered
    <3>2. epoch[n] = IF n = h.from THEN h.cfg ELSE v.epoch[n] BY <1>1
    <3> HIDE DEF cur, epoch
    <3> QED BY <1>1, <1>2, <2>1, <3>1, <3>2
  <2> QED BY <2>2, <2>3
<1>9. b \in Tables
  <2> HIDE DEF a, epoch
  <2> QED BY <1>5, <1>8 DEF Tables
<1>10. /\ b.cur = cur /\ b.epoch = epoch /\ b.lastVote = v.lastVote
       /\ b.owner = v.owner /\ b.of = v.of /\ b.auth_epoch = v.auth_epoch
  <2> HIDE DEF a, cur, epoch
  <2> QED BY <1>5, <1>6 DEF Tables
<1>11. Follows(v, b, me) /\ h.cur <= b.cur
  <2> HIDE DEF a, b, cur, epoch
  <2> QED BY <1>1, <1>2, <1>8, <1>9, <1>10 DEF Good, Ordered, Follows
<1>12. [a EXCEPT !.epoch[h.from] = h.cfg] = b
  <2> HIDE DEF cur, mf
  <2> QED BY <1>1, <1>6 DEF Tables
<1>13. Follows(b, Todo(b, {"save"}), me)
  <2>1. Good(b, me) BY <1>11 DEF Follows
  <2> HIDE DEF b
  <2> QED BY <2>1, TodoGood
<1>14. Follows(v, Todo(b, {"save"}), me) /\ h.cur <= Todo(b, {"save"}).cur
  <2>1. Follows(v, Todo(b, {"save"}), me)
    <3> HIDE DEF b
    <3> QED BY <1>11, <1>13, Chain
  <2>2. b.cur \in Nat /\ h.cur \in Nat /\ Todo(b, {"save"}).cur = b.cur
    <3> HIDE DEF a, epoch
    <3> QED BY <1>9 DEF Todo, Tables, Heard
  <2> QED BY <1>11, <2>1, <2>2
<1>15. SeeHeader(v, me, h) = IF h.cfg > v.epoch[h.from] THEN Todo(b, {"save"}) ELSE a
  <2> HIDE DEF b
  <2> QED BY <1>4, <1>12 DEF SeeHeader
<1>16. a.cur = cur /\ Todo(b, {"save"}).cur = cur
  <2>1. Todo(b, {"save"}).cur = b.cur
    <3> HIDE DEF a, epoch
    <3> QED BY <1>9 DEF Todo, Tables
  <2> QED BY <1>6, <1>10, <2>1
<1> HIDE DEF a, b, cur
<1> QED BY <1>2, <1>7, <1>14, <1>15, <1>16

\* The sender's role and slots in a header.
HeardRole(h, me) == Heard(h, me) /\ h.slots \in SUBSET Slots /\ h.of \in MaybeNode

LEMMA SeeRoleGood ==
    ASSUME NEW me \in Nodes, NEW v, Good(v, me), NEW h, HeardRole(h, me)
    PROVE  Follows(v, SeeRole(v, h), me)
<1> DEFINE n == h.from
           of == [v.of EXCEPT ![n] = h.of]
           owner == [s \in Slots |-> IF v.owner[s] = n THEN NoNode ELSE v.owner[s]]
           a == [v EXCEPT !.of = of]
           b == [a EXCEPT !.owner = owner]
<1>1. v \in Tables /\ v.of \in [Nodes -> MaybeNode] /\ v.owner \in [Slots -> MaybeNode]
      /\ v.cur \in Nat
  BY DEF Good, Tables
<1>2. n \in Nodes \ {me} /\ h.of \in MaybeNode BY DEF HeardRole, Heard
<1>3. of \in [Nodes -> MaybeNode] /\ of[me] = v.of[me] BY <1>1, <1>2
<1>4. owner \in [Slots -> MaybeNode] /\ \A s \in Slots : owner[s] = me => v.owner[s] = me
  BY <1>1, <1>2, ClusterAssumption DEF MaybeNode
<1>5. a \in Tables /\ b \in Tables
  <2> HIDE DEF of, owner
  <2> QED BY <1>1, <1>3, <1>4 DEF Tables
<1>6. /\ a.cur = v.cur /\ a.epoch = v.epoch /\ a.lastVote = v.lastVote
      /\ a.owner = v.owner /\ a.of = of /\ a.auth_epoch = v.auth_epoch
      /\ b.cur = v.cur /\ b.epoch = v.epoch /\ b.lastVote = v.lastVote
      /\ b.owner = owner /\ b.of = of /\ b.auth_epoch = v.auth_epoch
  <2> HIDE DEF of, owner
  <2> QED BY <1>1 DEF Tables
<1>7. Follows(v, a, me) /\ Follows(v, b, me)
  <2> HIDE DEF a, b, of, owner
  <2> QED BY <1>1, <1>3, <1>4, <1>5, <1>6 DEF Good, Ordered, Follows
<1>8. /\ [v EXCEPT !.of[n] = h.of] = a
      /\ [v EXCEPT !.of[n] = h.of,
                   !.owner = [s \in Slots |-> IF @[s] = n THEN NoNode ELSE @[s]]] = b
  <2>1. [v EXCEPT !.of[n] = h.of] = a BY <1>1 DEF Tables
  <2>2. [v EXCEPT !.of[n] = h.of, !.owner = owner] = b BY <1>1 DEF Tables
  <2> QED BY <2>1, <2>2
<1>9. /\ Follows(v, Todo(a, {"save"}), me)
      /\ Follows(v, Todo(b, {"save", "update"}), me)
  <2>1. Good(a, me) /\ Good(b, me) BY <1>7 DEF Follows
  <2> HIDE DEF a, b
  <2>2. Follows(a, Todo(a, {"save"}), me) /\ Follows(b, Todo(b, {"save", "update"}), me)
    BY <2>1, TodoGood
  <2> QED BY <1>7, <2>2, Chain
<1>10. Follows(v, SetNodeAsMaster(v, n), me) BY <1>2, SetNodeAsMasterGood
<1>11. SeeRole(v, h) =
         IF h.of = NoNode THEN SetNodeAsMaster(v, n)
         ELSE IF IsMaster(v, n) THEN Todo(b, {"save", "update"})
         ELSE IF v.of[n] # h.of THEN Todo(a, {"save"}) ELSE v
  <2> HIDE DEF a, b
  <2> QED BY <1>8 DEF SeeRole
<1> HIDE DEF a, b, n
<1> QED BY <1>9, <1>10, <1>11, Itself

LEMMA SeePingGood ==
    ASSUME NEW me \in Nodes, NEW v, Good(v, me), NEW h, HeardRole(h, me), NEW pong, NEW old
    PROVE  Follows(v, SeePing(v, me, h, pong, old), me)
<1> DEFINE v1 == SeeHeader(v, me, h)
           v2 == SeeFlags(v1, h.from, pong, old)
           v3 == SeeRole(v2, h)
           v4 == SeeSlots(v3, me, h)
           v5 == Collision(v4, me, h.from, h.cfg)
<1>1. Heard(h, me) /\ h.from \in Nodes /\ h.cfg \in Nat /\ h.slots \in SUBSET Slots
  BY DEF HeardRole, Heard
<1>2. Follows(v, v1, me) BY <1>1, SeeHeaderGood
<1>3. Follows(v1, v2, me)
  <2>1. Good(v1, me) BY <1>2 DEF Follows
  <2> QED BY <1>1, <2>1, ReachableGood, Itself DEF SeeFlags
<1>4. Follows(v2, v3, me)
  <2>1. Good(v2, me) BY <1>3 DEF Follows
  <2> QED BY <2>1, SeeRoleGood
<1>5. Follows(v3, v4, me)
  <2>1. Good(v3, me) BY <1>4 DEF Follows
  <2> QED BY <1>1, <2>1, UpdateSlotsGood, Itself DEF SeeSlots
<1>6. Follows(v4, v5, me)
  <2>1. Good(v4, me) BY <1>5 DEF Follows
  <2> QED BY <2>1, CollisionGood
<1>7. SeePing(v, me, h, pong, old) = v5 BY DEF SeePing
<1> HIDE DEF v1, v2, v3, v4, v5
<1> QED BY <1>2, <1>3, <1>4, <1>5, <1>6, <1>7, Chain

\* An UPDATE about another node.
LEMMA SeeUpdateGood ==
    ASSUME NEW me \in Nodes, NEW v, Good(v, me), NEW n \in Nodes \ {me},
           NEW cfg \in Nat, cfg <= v.cur, NEW slots \in SUBSET Slots
    PROVE  Follows(v, SeeUpdate(v, me, n, cfg, slots), me)
<1> DEFINE a == SetNodeAsMaster(v, n)
           epoch == [a.epoch EXCEPT ![n] = cfg]
           b == [a EXCEPT !.epoch = epoch]
           c == Todo(b, {"save"})
           d == UpdateSlots(c, me, n, cfg, slots)
<1>1. Follows(v, a, me) BY SetNodeAsMasterGood
<1>2. a \in Tables /\ Good(a, me) BY <1>1 DEF Follows, Good
<1>3. Follows(a, b, me)
  <2>1. a.epoch \in [Nodes -> Nat] /\ a.cur \in Nat /\ v.cur \in Nat /\ v.cur <= a.cur
        /\ a.lastVote \in Nat
    <3> HIDE DEF a
    <3> QED BY <1>1, <1>2 DEF Tables, Follows, Good
  <2>2. epoch \in [Nodes -> Nat] /\ \A m \in Nodes : epoch[m] <= a.cur
    <3> HIDE DEF a
    <3> QED BY <1>2, <2>1 DEF Good, Ordered
  <2>3. b \in Tables
    <3> HIDE DEF a, epoch
    <3> QED BY <1>2, <2>2 DEF Tables
  <2>4. /\ b.cur = a.cur /\ b.epoch = epoch /\ b.lastVote = a.lastVote
        /\ b.owner = a.owner /\ b.of = a.of /\ b.auth_epoch = a.auth_epoch
    <3> HIDE DEF a, epoch
    <3> QED BY <1>2 DEF Tables
  <2> HIDE DEF a, b, epoch
  <2> QED BY <1>2, <2>1, <2>2, <2>3, <2>4 DEF Good, Ordered, Follows
<1>4. Follows(b, c, me)
  <2>1. Good(b, me) BY <1>3 DEF Follows
  <2> HIDE DEF b
  <2> QED BY <2>1, TodoGood
<1>5. Follows(c, d, me)
  <2>1. Good(c, me) BY <1>4 DEF Follows
  <2> HIDE DEF c
  <2> QED BY <2>1, UpdateSlotsGood
<1>6. SeeUpdate(v, me, n, cfg, slots) = IF v.epoch[n] >= cfg THEN v ELSE d
  <2>1. [a EXCEPT !.epoch[n] = cfg] = b
    <3> HIDE DEF a
    <3> QED BY <1>2 DEF Tables
  <2>2. [SetNodeAsMaster(v, n) EXCEPT !.epoch[n] = cfg] = b BY <2>1
  <2> HIDE DEF a, b
  <2> QED BY <2>2 DEF SeeUpdate
<1> HIDE DEF a, b, c, d
<1> QED BY <1>1, <1>3, <1>4, <1>5, <1>6, Chain, Itself

LEMMA HandleGood ==
    ASSUME NEW me \in Nodes, NEW v, Good(v, me), NEW when
    PROVE  Follows(v, HandleSlaveFailover(v, me, when), me)
<1> DEFINE a == [v EXCEPT !.count = 0, !.sent = FALSE]
           b == [v EXCEPT !.cur = v.cur + 1, !.auth_epoch = v.cur + 1, !.sent = TRUE]
           e == IF v.epoch[me] < v.auth_epoch THEN v.auth_epoch ELSE v.epoch[me]
           epoch == [v.epoch EXCEPT ![me] = e]
           c == [v EXCEPT !.epoch = epoch]
<1>1. v \in Tables /\ v.cur \in Nat /\ v.lastVote \in Nat /\ v.auth_epoch \in Nat
      /\ v.epoch \in [Nodes -> Nat]
  BY DEF Good, Tables
<1>2. Follows(v, a, me)
  <2>1. a \in Tables BY <1>1 DEF Tables
  <2>2. /\ a.cur = v.cur /\ a.epoch = v.epoch /\ a.lastVote = v.lastVote
        /\ a.owner = v.owner /\ a.of = v.of /\ a.auth_epoch = v.auth_epoch
    BY <1>1 DEF Tables
  <2> HIDE DEF a
  <2> QED BY <1>1, <2>1, <2>2 DEF Good, Ordered, Follows
<1>3. Follows(v, b, me)
  <2>1. v.cur + 1 \in Nat BY <1>1
  <2>2. b \in Tables BY <1>1, <2>1 DEF Tables
  <2>3. /\ b.cur = v.cur + 1 /\ b.epoch = v.epoch /\ b.lastVote = v.lastVote
        /\ b.owner = v.owner /\ b.of = v.of /\ b.auth_epoch = v.cur + 1
    BY <1>1 DEF Tables
  <2> HIDE DEF b
  <2> QED BY <1>1, <2>2, <2>3 DEF Good, Ordered, Follows
<1>4. Follows(v, c, me)
  <2>1. e \in Nat /\ e <= v.cur BY <1>1 DEF Good, Ordered
  <2>2. epoch \in [Nodes -> Nat] /\ \A m \in Nodes : epoch[m] <= v.cur
    <3> HIDE DEF e
    <3> QED BY <1>1, <2>1 DEF Good, Ordered
  <2>3. c \in Tables
    <3> HIDE DEF epoch
    <3> QED BY <1>1, <2>2 DEF Tables
  <2>4. /\ c.cur = v.cur /\ c.epoch = epoch /\ c.lastVote = v.lastVote
        /\ c.owner = v.owner /\ c.of = v.of /\ c.auth_epoch = v.auth_epoch
    <3> HIDE DEF epoch
    <3> QED BY <1>1 DEF Tables
  <2> HIDE DEF c, epoch
  <2> QED BY <1>1, <2>2, <2>3, <2>4 DEF Good, Ordered, Follows
<1>5. Follows(v, ReplaceYourMaster(c, me), me)
  <2>1. Good(c, me) BY <1>4 DEF Follows
  <2> HIDE DEF c
  <2>2. Follows(c, ReplaceYourMaster(c, me), me) BY <2>1, ReplaceGood
  <2> QED BY <1>4, <2>2, Chain
<1>6. Follows(v, Todo(b, {"save", "update"}), me)
  <2>1. Good(b, me) BY <1>3 DEF Follows
  <2> HIDE DEF b
  <2>2. Follows(b, Todo(b, {"save", "update"}), me) BY <2>1, TodoGood
  <2> QED BY <1>3, <2>2, Chain
<1>7. HandleSlaveFailover(v, me, when) \in
        {v, a, Todo(b, {"save", "update"}), ReplaceYourMaster(c, me)}
  <2>1. [v EXCEPT !.epoch[me] = IF @ < v.auth_epoch THEN v.auth_epoch ELSE @] = c
    BY <1>1 DEF Tables
  <2>2. [v EXCEPT !.cur = @ + 1, !.auth_epoch = v.cur + 1, !.sent = TRUE] = b OBVIOUS
  <2> HIDE DEF a, b, c
  <2> QED BY <2>1, <2>2 DEF HandleSlaveFailover, a
<1> HIDE DEF a, b, c
<1> QED BY <1>2, <1>5, <1>6, <1>7, Itself

\* An event that asks for votes leaves a slave.
LEMMA HandleAsks ==
    ASSUME NEW me \in Nodes, NEW v, Good(v, me), NEW when, ~v.sent,
           HandleSlaveFailover(v, me, when).sent
    PROVE  ~IsMaster(HandleSlaveFailover(v, me, when), me)
<1> DEFINE b == [v EXCEPT !.cur = @ + 1, !.auth_epoch = v.cur + 1, !.sent = TRUE]
           a == [v EXCEPT !.count = 0, !.sent = FALSE]
           c == ReplaceYourMaster([v EXCEPT !.epoch[me] =
                    IF @ < v.auth_epoch THEN v.auth_epoch ELSE @], me)
           stays == \/ IsMaster(v, me)
                    \/ v.flag[v.of[me]] # "fail" /\ v.mf # "start"
                    \/ SlotsOf(v, v.of[me]) = {}
                    \/ when = "wait"
           enough == v.count >= Quorum(v)
<1>1. v \in Tables BY DEF Good
<1>2. a.sent = FALSE BY <1>1 DEF Tables
<1>3. \/ HandleSlaveFailover(v, me, when) \in {v, a}
      \/ /\ HandleSlaveFailover(v, me, when) = Todo(b, {"save", "update"})
         /\ ~IsMaster(v, me)
  <2>1. HandleSlaveFailover(v, me, when) =
          IF stays THEN v ELSE
          CASE when = "retry" -> a
            [] when = "due" /\ ~v.sent -> Todo(b, {"save", "update"})
            [] when = "due" /\ v.sent /\ enough -> c
            [] OTHER -> v
    BY Zenon DEF HandleSlaveFailover
  <2>2. ~stays => ~IsMaster(v, me) OBVIOUS
  <2> HIDE DEF a, b, c, stays, enough
  <2> QED BY <2>1, <2>2
<1>4. Todo(b, {"save", "update"}).of = v.of BY <1>1 DEF Todo, Tables
<1> HIDE DEF a, b
<1> QED BY <1>2, <1>3, <1>4 DEF IsMaster

\* The current epoch is changed by headers, elections and collisions only.
LEMMA EpochKept ==
    ASSUME NEW me \in Nodes, NEW v, Good(v, me)
    PROVE  /\ \A what \in SUBSET {"update", "save"} : Todo(v, what).cur = v.cur
           /\ UpdateState(v).cur = v.cur
           /\ Slept(v).cur = v.cur
           /\ Saved(v).cur = v.cur
           /\ \A n \in Nodes : Failed(v, n).cur = v.cur /\ SetNodeAsMaster(v, n).cur = v.cur
<1>1. v \in Tables BY DEF Good
<1>2. \A what : Todo(v, what).cur = v.cur BY <1>1 DEF Todo, Tables
<1>3. UpdateState(v).cur = v.cur BY <1>1 DEF UpdateState, Tables
<1>4. Slept(v).cur = v.cur
  <2>1. UpdateState(v) \in Tables BY SizeGood DEF Follows, Good
  <2> QED BY <1>1, <1>3, <2>1 DEF Slept, Tables
<1>5. ASSUME NEW n \in Nodes
      PROVE  Failed(v, n).cur = v.cur /\ SetNodeAsMaster(v, n).cur = v.cur
  BY <1>1 DEF Failed, SetNodeAsMaster, Todo, Tables
<1>6. Saved(v).cur = v.cur BY DEF Saved
<1> QED BY <1>2, <1>3, <1>4, <1>5, <1>6

LEMMA UpdateKeepsEpoch ==
    ASSUME NEW me \in Nodes, NEW v, Good(v, me), NEW n \in Nodes,
           NEW cfg \in Nat, NEW slots \in SUBSET Slots
    PROVE  SeeUpdate(v, me, n, cfg, slots).cur = v.cur
<1> DEFINE a == SetNodeAsMaster(v, n)
           c == Todo([a EXCEPT !.epoch[n] = cfg], {"save"})
<1>1. a.cur = v.cur BY EpochKept
<1>2. a \in Tables BY SetNodeAsMasterGood DEF Follows, Good
<1>3. c.cur = a.cur /\ DOMAIN c = DOMAIN a /\ "cur" \in DOMAIN a
  <2> HIDE DEF a
  <2> QED BY <1>2 DEF Todo, Tables
<1>4. UpdateSlots(c, me, n, cfg, slots).cur = c.cur
  <2>1. "cur" \in DOMAIN c BY <1>3
  <2> HIDE DEF c
  <2> QED BY <2>1 DEF UpdateSlots, Todo, SetMaster
<1> HIDE DEF c
<1> QED BY <1>1, <1>3, <1>4 DEF SeeUpdate, c
-----------------------------------------------------------------------------
(* The inductive invariant *)

\* Every node and its file are good, and no epoch exceeds the topology's bound.
Members ==
    /\ top \in Topologies
    /\ cl \in [Nodes -> Tables] /\ disk \in [Nodes -> Files]
    /\ \A n \in Nodes :
         /\ Good(cl[n], n) /\ cl[n].cur <= top.maxEpoch
         /\ GoodFile(disk[n], n) /\ disk[n].cur <= top.maxEpoch

\* A packet of the bus carries epochs its sender had.
Post(m) == m.to \in Nodes /\ Heard(m, m.to) /\ m.cur <= top.maxEpoch

\* A vote is remembered, unless a restart made its voter forget it.
Remembered ==
    /\ votes \subseteq Nodes \X (0..MaxEpoch) \X Nodes
    /\ \A w \in votes : w[2] \notin forgotten => w[2] <= cl[w[1]].lastVote
    /\ OneVotePerEpoch

Inv == Members /\ (\A m \in net : Post(m)) /\ Remembered

\* No vote is cast or forgotten.
SameVotes ==
    /\ \A n \in Nodes : cl'[n].lastVote = cl[n].lastVote
    /\ votes' = votes /\ forgotten \subseteq forgotten'

LEMMA RememberedStays ==
    ASSUME Remembered, SameVotes
    PROVE  Remembered'
BY DEF Remembered, SameVotes, OneVotePerEpoch

\* What a member may become.
Next1(n, v) == Good(v, n) /\ v.cur <= top.maxEpoch

LEMMA MembersChange ==
    ASSUME Members, top' = top,
           cl' \in [Nodes -> Tables], disk' \in [Nodes -> Files],
           \A n \in Nodes : \/ cl'[n] = cl[n]
                            \/ Next1(n, cl'[n]),
           \A n \in Nodes : \/ disk'[n] = disk[n]
                            \/ GoodFile(disk'[n], n) /\ disk'[n].cur <= top.maxEpoch
    PROVE  Members'
BY DEF Members, Next1

LEMMA OneBecomes ==
    ASSUME Members, top' = top, NEW n \in Nodes, NEW v, Next1(n, v), Becomes(n, v)
    PROVE  /\ Members'
           /\ \A x \in Nodes : cl'[x] = IF x = n THEN Slept(v) ELSE cl[x]
           /\ Slept(v).lastVote = v.lastVote
<1>1. /\ Good(v, n) /\ Good(Slept(v), n) /\ Slept(v).lastVote = v.lastVote
      /\ Slept(v).cur = v.cur /\ v.cur <= top.maxEpoch
  BY SleptGood, EpochKept DEF Next1, Follows
<1>2. cl' = [cl EXCEPT ![n] = Slept(v)] /\ disk' = File(n, v)
  BY DEF Becomes
<1>3. GoodFile(Saved(v), n) /\ Saved(v).cur <= top.maxEpoch
  BY <1>1, SavedGood, EpochKept
<1>4. /\ cl' \in [Nodes -> Tables]
      /\ \A x \in Nodes : cl'[x] = IF x = n THEN Slept(v) ELSE cl[x]
  BY <1>1, <1>2 DEF Members, Good
<1>5. /\ disk' \in [Nodes -> Files]
      /\ \A x \in Nodes : disk'[x] = disk[x] \/ (x = n /\ disk'[x] = Saved(v))
  BY <1>2, <1>3 DEF Members, GoodFile, File
<1>6. Members'
  BY <1>1, <1>3, <1>4, <1>5, MembersChange DEF Next1
<1> QED BY <1>1, <1>4, <1>6

\* The same, when nobody votes.
LEMMA OneFollows ==
    ASSUME Members, top' = top, NEW n \in Nodes, NEW v, Follows(cl[n], v, n),
           v.cur <= top.maxEpoch, Becomes(n, v), votes' = votes, forgotten \subseteq forgotten'
    PROVE  Members' /\ SameVotes
<1>1. Next1(n, v) /\ v.lastVote = cl[n].lastVote BY DEF Next1, Follows
<1> QED BY <1>1, OneBecomes DEF SameVotes

\* Changes of memory alone.
LEMMA MemoryFollows ==
    ASSUME Members, top' = top, disk' = disk, cl' \in [Nodes -> Tables],
           \A n \in Nodes : Follows(cl[n], cl'[n], n) /\ cl'[n].cur = cl[n].cur,
           votes' = votes, forgotten \subseteq forgotten'
    PROVE  Members' /\ SameVotes
<1>1. \A n \in Nodes : Next1(n, cl'[n]) BY DEF Members, Next1, Follows
<1>2. Members' BY <1>1, MembersChange DEF Members
<1> QED BY <1>2 DEF SameVotes, Follows

LEMMA HeaderHeard ==
    ASSUME Members, NEW n \in Nodes, NEW t \in Nodes \ {n}
    PROVE  HeardRole(Header(n), t) /\ Header(n).from = n /\ Header(n).cur <= top.maxEpoch
<1>1. cl[n] \in Tables /\ Good(cl[n], n) /\ cl[n].cur <= top.maxEpoch BY DEF Members
<1>2. /\ cl[n].of \in [Nodes -> MaybeNode] /\ cl[n].epoch \in [Nodes -> Nat] /\ cl[n].cur \in Nat
  BY <1>1 DEF Tables
<1>3. Speaker(cl[n], n) \in Nodes BY <1>2 DEF Speaker, IsMaster, MaybeNode
<1>4. cl[n].epoch[Speaker(cl[n], n)] \in 0..cl[n].cur
  BY <1>1, <1>2, <1>3 DEF Good, Ordered
<1>5. SlotsOf(cl[n], Speaker(cl[n], n)) \in SUBSET Slots BY DEF SlotsOf
<1> QED BY <1>1, <1>2, <1>4, <1>5 DEF Header, HeardRole, Heard

\* What a slave asks for is in packets that can be received.
LEMMA RequestsPosted ==
    ASSUME Members, top' = top, NEW n \in Nodes, NEW v, Next1(n, v), ~IsMaster(v, n)
    PROVE  \A m \in Requests(n, v) : Post(m)'
<1>1. /\ v.of \in [Nodes -> MaybeNode] /\ v.epoch \in [Nodes -> Nat] /\ v.cur \in Nat
      /\ v.cur <= top.maxEpoch /\ \A x \in Nodes : v.epoch[x] <= v.cur
  BY DEF Next1, Good, Ordered, Tables
<1>2. v.of[n] \in Nodes BY <1>1 DEF IsMaster, MaybeNode
<1>3. v.epoch[v.of[n]] \in 0..v.cur BY <1>1, <1>2
<1>4. nodes \subseteq Nodes BY TopologiesAssumption DEF Members, nodes
<1> QED BY <1>1, <1>3, <1>4 DEF Requests, Post, Heard
-----------------------------------------------------------------------------
(* The steps *)

THEOREM InitInv == Init => Inv
<1> SUFFICES ASSUME Init PROVE Inv OBVIOUS
<1>1. PICK t \in Topologies : top = t /\ disk = [n \in Nodes |->
           [cur |-> t.cur, lastVote |-> 0, epoch |-> t.epoch, of |-> t.of,
            flag |-> [x \in Nodes |-> "ok"], owner |-> t.owner,
            importing |-> [s \in Slots |-> NoNode]]]
  BY DEF Init
<1>2. cl = [n \in Nodes |-> UpdateState(Loaded(disk[n]))] /\ net = {} /\ votes = {}
  BY DEF Init
<1>3. /\ t.maxEpoch \in 0..MaxEpoch /\ t.cur \in 0..t.maxEpoch
      /\ t.epoch \in [Nodes -> 0..t.cur]
      /\ t.of \in [Nodes -> MaybeNode] /\ t.owner \in [Slots -> MaybeNode]
      /\ \A n \in Nodes, s \in Slots : t.owner[s] = n => t.of[n] = NoNode
  BY TopologiesAssumption DEF MaybeNode
<1>4. t.cur \in Nat /\ t.maxEpoch \in Nat /\ t.cur <= t.maxEpoch
      /\ t.epoch \in [Nodes -> Nat] /\ \A n \in Nodes : t.epoch[n] <= t.cur
  BY <1>3, ClusterAssumption
<1> DEFINE d == [cur |-> t.cur, lastVote |-> 0, epoch |-> t.epoch, of |-> t.of,
                 flag |-> [x \in Nodes |-> "ok"], owner |-> t.owner,
                 importing |-> [s \in Slots |-> NoNode]]
<1>5. d \in Files
  BY <1>3, <1>4 DEF Files, MaybeNode, Flags
<1>6. ASSUME NEW n \in Nodes
      PROVE  /\ disk[n] = d /\ GoodFile(d, n)
             /\ Good(cl[n], n) /\ cl[n].cur = d.cur
  <2>1. disk[n] = d BY <1>1
  <2>2. Ordered(d, n)
    BY <1>3, <1>4 DEF Ordered
  <2>3. GoodFile(d, n) BY <1>5, <2>2 DEF GoodFile
  <2> HIDE DEF d
  <2>4. Good(Loaded(d), n) /\ Loaded(d).cur = d.cur BY <2>3, LoadedGood
  <2>5. Good(UpdateState(Loaded(d)), n) /\ UpdateState(Loaded(d)).cur = d.cur
    BY <2>4, SizeGood, EpochKept DEF Follows
  <2> QED BY <1>2, <2>1, <2>3, <2>5
<1>7. d.cur <= top.maxEpoch BY <1>1, <1>4
<1>8. cl \in [Nodes -> Tables] /\ disk \in [Nodes -> Files]
  <2>1. DOMAIN cl = Nodes /\ cl = [n \in Nodes |-> cl[n]] BY <1>2
  <2>2. DOMAIN disk = Nodes /\ disk = [n \in Nodes |-> disk[n]] BY <1>1
  <2>3. \A n \in Nodes : cl[n] \in Tables /\ disk[n] \in Files
    BY <1>5, <1>6 DEF Good
  <2> QED BY <2>1, <2>2, <2>3
<1> HIDE DEF d
<1>9. Members BY <1>1, <1>6, <1>7, <1>8 DEF Members
<1>10. Remembered BY <1>2 DEF Remembered, OneVotePerEpoch
<1> QED BY <1>2, <1>9, <1>10 DEF Inv

LEMMA UpInNodes == ASSUME Members PROVE nodes \subseteq Nodes /\ Up \subseteq nodes
BY TopologiesAssumption DEF Members, nodes, Up

\* A step that sends nothing and casts no vote.
LEMMA QuietStep ==
    ASSUME Inv, Members', SameVotes, net' \subseteq net, top' = top
    PROVE  Inv'
<1>1. Remembered' BY RememberedStays DEF Inv
<1>2. \A m \in net' : Post(m)' BY DEF Inv, Post, Heard
<1> QED BY <1>1, <1>2 DEF Inv

LEMMA MfGood ==
    ASSUME NEW n \in Nodes, NEW v, Good(v, n), NEW x \in {"no", "wait", "offset", "start"}
    PROVE  /\ Follows(v, [v EXCEPT !.mf = x], n)
           /\ [v EXCEPT !.mf = x].cur = v.cur
<1> DEFINE w == [v EXCEPT !.mf = x]
<1>1. v \in Tables /\ v.cur \in Nat BY DEF Good, Tables
<1>2. w \in Tables BY <1>1 DEF Tables
<1>3. /\ w.cur = v.cur /\ w.epoch = v.epoch /\ w.lastVote = v.lastVote
      /\ w.owner = v.owner /\ w.of = v.of /\ w.auth_epoch = v.auth_epoch
  BY <1>1 DEF Tables
<1> HIDE DEF w
<1>4. Follows(v, w, n) /\ w.cur = v.cur
  BY <1>1, <1>2, <1>3 DEF Good, Ordered, Follows
<1> QED BY <1>4 DEF w

LEMMA MasterCronInv ==
    ASSUME Inv, NEW n \in Up, MasterCron(n)
    PROVE  Inv'
<1>1. n \in Nodes /\ Members BY UpInNodes DEF Inv
<1>2. PICK late \in BOOLEAN :
        cl' = [cl EXCEPT ![n] = UpdateState(IF late THEN [@ EXCEPT !.mf = "no"] ELSE @)]
  BY DEF MasterCron
<1> DEFINE v == IF late THEN [cl[n] EXCEPT !.mf = "no"] ELSE cl[n]
<1>3. Good(cl[n], n) /\ cl \in [Nodes -> Tables] BY <1>1 DEF Members
<1>4. Follows(cl[n], v, n) /\ v.cur = cl[n].cur
  BY <1>1, <1>3, MfGood, Itself
<1>5. Follows(cl[n], UpdateState(v), n) /\ UpdateState(v).cur = cl[n].cur
  <2>1. Good(v, n) BY <1>4 DEF Follows
  <2> HIDE DEF v
  <2>2. Follows(v, UpdateState(v), n) /\ UpdateState(v).cur = v.cur
    BY <1>1, <2>1, SizeGood, EpochKept
  <2> QED BY <1>1, <1>3, <1>4, <2>2, Chain
<1>6. cl' = [cl EXCEPT ![n] = UpdateState(v)] BY <1>2
<1> HIDE DEF v
<1>7. cl' \in [Nodes -> Tables] BY <1>3, <1>5, <1>6 DEF Follows, Good
<1>8. \A x \in Nodes : Follows(cl[x], cl'[x], x) /\ cl'[x].cur = cl[x].cur
  BY <1>1, <1>3, <1>5, <1>6, Itself DEF Members
<1>9. top' = top /\ disk' = disk /\ net' = net /\ votes' = votes /\ forgotten' = forgotten
  BY DEF MasterCron
<1> QED BY <1>1, <1>7, <1>8, <1>9, MemoryFollows, QuietStep

LEMMA TimeoutInv ==
    ASSUME Inv, NEW n \in Up, NEW t \in nodes, Timeout(n, t)
    PROVE  Inv'
<1>1. n \in Nodes /\ t \in Nodes /\ Members BY UpInNodes DEF Inv
<1> DEFINE flag == [cl[n].flag EXCEPT ![t] = "pfail"]
           v == [cl[n] EXCEPT !.flag = flag]
<1>2. Good(cl[n], n) /\ cl \in [Nodes -> Tables] /\ cl[n] \in Tables /\ cl[n].cur \in Nat
  BY <1>1 DEF Members, Tables
<1>3. [cl[n] EXCEPT !.flag[t] = "pfail"] = v BY <1>2 DEF Tables
<1>4. Follows(cl[n], v, n) /\ v.cur = cl[n].cur
  <2>1. flag \in [Nodes -> Flags] BY <1>2 DEF Tables, Flags
  <2>2. v \in Tables
    <3> HIDE DEF flag
    <3> QED BY <1>2, <2>1 DEF Tables
  <2>3. /\ v.cur = cl[n].cur /\ v.epoch = cl[n].epoch /\ v.lastVote = cl[n].lastVote
        /\ v.owner = cl[n].owner /\ v.of = cl[n].of /\ v.auth_epoch = cl[n].auth_epoch
    BY <1>2 DEF Tables
  <2> HIDE DEF v
  <2> QED BY <1>2, <2>2, <2>3 DEF Good, Ordered, Follows
<1>5. Follows(cl[n], UpdateState(v), n) /\ UpdateState(v).cur = cl[n].cur
  <2>1. Good(v, n) BY <1>4 DEF Follows
  <2> HIDE DEF v
  <2>2. Follows(v, UpdateState(v), n) /\ UpdateState(v).cur = v.cur
    BY <1>1, <2>1, SizeGood, EpochKept
  <2> QED BY <1>1, <1>2, <1>4, <2>2, Chain
<1>6. cl' = [cl EXCEPT ![n] = UpdateState(v)]
  <2> HIDE DEF v
  <2> QED BY <1>3 DEF Timeout
<1> HIDE DEF v
<1>7. cl' \in [Nodes -> Tables] BY <1>2, <1>5, <1>6 DEF Follows, Good
<1>8. \A x \in Nodes : Follows(cl[x], cl'[x], x) /\ cl'[x].cur = cl[x].cur
  BY <1>1, <1>2, <1>5, <1>6, Itself DEF Members
<1>9. top' = top /\ disk' = disk /\ net' = net /\ votes' = votes /\ forgotten' = forgotten
  BY DEF Timeout
<1> QED BY <1>1, <1>7, <1>8, <1>9, MemoryFollows, QuietStep

LEMMA ForceFailoverInv ==
    ASSUME Inv, NEW n \in Up, ForceFailover(n)
    PROVE  Inv'
<1>1. n \in Nodes /\ Members BY UpInNodes DEF Inv
<1> DEFINE v == [cl[n] EXCEPT !.mf = "start"]
<1>2. Good(cl[n], n) /\ cl \in [Nodes -> Tables] BY <1>1 DEF Members
<1>3. Follows(cl[n], v, n) /\ v.cur = cl[n].cur BY <1>1, <1>2, MfGood
<1>4. cl' = [cl EXCEPT ![n] = v] BY <1>1, <1>2 DEF ForceFailover
<1> HIDE DEF v
<1>5. cl' \in [Nodes -> Tables] BY <1>2, <1>3, <1>4 DEF Follows, Good
<1>6. \A x \in Nodes : Follows(cl[x], cl'[x], x) /\ cl'[x].cur = cl[x].cur
  BY <1>1, <1>2, <1>3, <1>4, Itself DEF Members
<1>7. top' = top /\ disk' = disk /\ net' = net /\ votes' = votes /\ forgotten' = forgotten
  BY DEF ForceFailover
<1> QED BY <1>1, <1>5, <1>6, <1>7, MemoryFollows, QuietStep

LEMMA ManualFailoverInv ==
    ASSUME Inv, NEW n \in Up, ManualFailover(n)
    PROVE  Inv'
<1>1. n \in Nodes /\ Members BY UpInNodes DEF Inv
<1>2. cl \in [Nodes -> Tables] /\ \A x \in Nodes : Good(cl[x], x) BY <1>1 DEF Members
<1>3. PICK told \in SUBSET (MaybeNode \cup {n}) :
        cl' = [x \in Nodes |-> IF x \in told THEN [cl[x] EXCEPT !.mf = "wait"] ELSE cl[x]]
  <2>1. cl[n].of[n] \in MaybeNode
    <3>1. cl[n] \in Tables BY <1>1, <1>2
    <3> QED BY <1>1, <3>1 DEF Tables
  <2>2. PICK lost \in BOOLEAN :
          LET told == {n} \cup {x \in {cl[n].of[n]} : ~lost /\ cl[cl[n].of[n]].of[n] = cl[n].of[n]}
          IN cl' = [x \in Nodes |-> IF x \in told THEN [cl[x] EXCEPT !.mf = "wait"] ELSE cl[x]]
    BY DEF ManualFailover
  <2> QED BY <2>1, <2>2
<1>4. ASSUME NEW x \in Nodes PROVE Follows(cl[x], cl'[x], x) /\ cl'[x].cur = cl[x].cur
  BY <1>2, <1>3, MfGood, Itself
<1>5. cl' \in [Nodes -> Tables]
  <2>1. \A x \in Nodes : cl'[x] \in Tables BY <1>4 DEF Follows, Good
  <2>2. cl' = [x \in Nodes |-> cl'[x]] BY <1>3
  <2> QED BY <2>1, <2>2
<1>6. top' = top /\ disk' = disk /\ net' = net /\ votes' = votes /\ forgotten' = forgotten
  BY DEF ManualFailover
<1> QED BY <1>1, <1>4, <1>5, <1>6, MemoryFollows, QuietStep
LEMMA TakeoverInv ==
    ASSUME Inv, NEW n \in Up, Takeover(n)
    PROVE  Inv'
<1>1. n \in Nodes /\ Members BY UpInNodes DEF Inv
<1> DEFINE b == Bump(cl[n], n)
           v == ReplaceYourMaster(b, n)
<1>2. v.cur <= top.maxEpoch /\ Becomes(n, v) /\ forgotten' = forgotten
  BY DEF Takeover
<1>3. Good(cl[n], n) BY <1>1 DEF Members
<1>4. Follows(cl[n], v, n)
  <2>1. Follows(cl[n], b, n) BY <1>1, <1>3, BumpGood
  <2>2. Good(b, n) BY <2>1 DEF Follows
  <2>3. Follows(b, v, n) BY <1>1, <2>2, ReplaceGood
  <2> HIDE DEF b, v
  <2> QED BY <1>1, <1>3, <2>1, <2>3, Chain
<1>5. top' = top /\ net' = net /\ votes' = votes BY DEF Takeover
<1> HIDE DEF v
<1>6. Members' /\ SameVotes BY <1>1, <1>2, <1>4, <1>5, OneFollows
<1> QED BY <1>5, <1>6, QuietStep

\* Slots given to others, or to a master.
LEMMA OwnerGood ==
    ASSUME NEW n \in Nodes, NEW v, Good(v, n), NEW s \in Slots, NEW to \in Nodes,
           to = n => IsMaster(v, n)
    PROVE  /\ Follows(v, [v EXCEPT !.owner[s] = to], n)
           /\ Follows(v, [v EXCEPT !.importing[s] = to], n)
           /\ Follows(v, [v EXCEPT !.importing[s] = NoNode], n)
<1> DEFINE owner == [v.owner EXCEPT ![s] = to]
           w == [v EXCEPT !.owner = owner]
<1>1. v \in Tables /\ v.cur \in Nat /\ v.owner \in [Slots -> MaybeNode]
      /\ v.importing \in [Slots -> MaybeNode]
  BY DEF Good, Tables
<1>2. owner \in [Slots -> MaybeNode] /\ \A x \in Slots : owner[x] = n => v.of[n] = NoNode
  BY <1>1 DEF MaybeNode, IsMaster, Good, Ordered
<1>3. w \in Tables
  <2> HIDE DEF owner
  <2> QED BY <1>1, <1>2 DEF Tables
<1>4. /\ w.cur = v.cur /\ w.epoch = v.epoch /\ w.lastVote = v.lastVote
      /\ w.owner = owner /\ w.of = v.of /\ w.auth_epoch = v.auth_epoch
  <2> HIDE DEF owner
  <2> QED BY <1>1 DEF Tables
<1>5. Follows(v, w, n)
  <2> HIDE DEF w, owner
  <2> QED BY <1>1, <1>2, <1>3, <1>4 DEF Good, Ordered, Follows
<1>6. [v EXCEPT !.owner[s] = to] = w BY <1>1 DEF Tables
<1>7. ASSUME NEW x \in MaybeNode PROVE Follows(v, [v EXCEPT !.importing[s] = x], n)
  <2> DEFINE imp == [v.importing EXCEPT ![s] = x]
             u == [v EXCEPT !.importing = imp]
  <2>1. imp \in [Slots -> MaybeNode] BY <1>1
  <2>2. u \in Tables
    <3> HIDE DEF imp
    <3> QED BY <1>1, <2>1 DEF Tables
  <2>3. /\ u.cur = v.cur /\ u.epoch = v.epoch /\ u.lastVote = v.lastVote
        /\ u.owner = v.owner /\ u.of = v.of /\ u.auth_epoch = v.auth_epoch
    BY <1>1 DEF Tables
  <2>4. Follows(v, u, n)
    <3> HIDE DEF u
    <3> QED BY <1>1, <2>2, <2>3 DEF Good, Ordered, Follows
  <2>5. [v EXCEPT !.importing[s] = x] = u BY <1>1 DEF Tables
  <2> HIDE DEF u
  <2> QED BY <2>4, <2>5
<1> HIDE DEF w
<1> QED BY <1>5, <1>6, <1>7 DEF MaybeNode

LEMMA SetSlotImportingInv ==
    ASSUME Inv, NEW n \in Up, NEW s \in Slots, NEW t \in Up \ {n}, SetSlotImporting(n, s, t)
    PROVE  Inv'
<1>1. n \in Nodes /\ t \in Nodes \ {n} /\ Members BY UpInNodes DEF Inv
<1> DEFINE u == [cl[n] EXCEPT !.importing[s] = t]
           v == Todo(u, {"save", "update"})
<1>2. Becomes(n, v) BY DEF SetSlotImporting
<1>3. Good(cl[n], n) /\ cl[n].cur <= top.maxEpoch BY <1>1 DEF Members
<1>4. Follows(cl[n], u, n) BY <1>1, <1>3, OwnerGood
<1>5. u.cur = cl[n].cur BY <1>3 DEF Good, Tables
<1>6. Follows(cl[n], v, n) /\ v.cur = cl[n].cur
  <2>1. Good(u, n) BY <1>4 DEF Follows
  <2> HIDE DEF u
  <2>2. Follows(u, v, n) /\ v.cur = u.cur BY <1>1, <2>1, TodoGood, EpochKept
  <2> HIDE DEF v
  <2> QED BY <1>1, <1>3, <1>4, <1>5, <2>2, Chain
<1>7. top' = top /\ net' = net /\ votes' = votes /\ forgotten' = forgotten
  BY DEF SetSlotImporting
<1> HIDE DEF v
<1>8. Members' /\ SameVotes BY <1>1, <1>2, <1>3, <1>6, <1>7, OneFollows
<1> QED BY <1>7, <1>8, QuietStep

LEMMA SetSlotNodeInv ==
    ASSUME Inv, NEW n \in Up, NEW s \in Slots, NEW to \in nodes, SetSlotNode(n, s, to)
    PROVE  Inv'
<1>1. n \in Nodes /\ to \in Nodes /\ Members BY UpInNodes DEF Inv
<1>2. PICK closes \in BOOLEAN :
        \E v \in {IF closes THEN [Bump(cl[n], n) EXCEPT !.importing[s] = NoNode] ELSE cl[n]} :
         /\ v.cur <= top.maxEpoch
         /\ Becomes(n, Todo([v EXCEPT !.owner[s] = to], {"save", "update"}))
         /\ assigned' = Taken(n, v)
  BY DEF SetSlotNode
<1> DEFINE b == Bump(cl[n], n)
           c == [b EXCEPT !.importing[s] = NoNode]
           v == IF closes THEN c ELSE cl[n]
           u == [v EXCEPT !.owner[s] = to]
           w == Todo(u, {"save", "update"})
<1>3. v.cur <= top.maxEpoch /\ Becomes(n, w) /\ forgotten \subseteq forgotten'
  BY <1>2 DEF SetSlotNode
<1>4. Good(cl[n], n) /\ IsMaster(cl[n], n) BY <1>1 DEF Members, SetSlotNode
<1>5. Follows(cl[n], b, n) BY <1>1, <1>4, BumpGood
<1>6. IsMaster(b, n)
  BY <1>4 DEF Bump, Todo, IsMaster, Good, Tables
<1>7. Follows(cl[n], c, n) /\ IsMaster(c, n)
  <2>1. Good(b, n) BY <1>5 DEF Follows
  <2> HIDE DEF b
  <2>2. Follows(b, c, n) BY <1>1, <1>6, <2>1, OwnerGood
  <2>3. c.of = b.of BY <2>1 DEF Good, Tables
  <2> HIDE DEF c
  <2> QED BY <1>1, <1>4, <1>5, <1>6, <2>2, <2>3, Chain DEF IsMaster
<1>8. Follows(cl[n], v, n) /\ IsMaster(v, n)
  <2> HIDE DEF c
  <2> QED BY <1>1, <1>4, <1>7, Itself
<1>9. Follows(cl[n], u, n) /\ u.cur = v.cur
  <2>1. Good(v, n) BY <1>8 DEF Follows
  <2> HIDE DEF v
  <2>2. Follows(v, u, n) BY <1>1, <1>8, <2>1, OwnerGood
  <2>3. u.cur = v.cur BY <2>1 DEF Good, Tables
  <2> HIDE DEF u
  <2> QED BY <1>1, <1>4, <1>8, <2>2, <2>3, Chain
<1>10. Follows(cl[n], w, n) /\ w.cur = v.cur
  <2>1. Good(u, n) BY <1>9 DEF Follows
  <2> HIDE DEF u, v
  <2>2. Follows(u, w, n) /\ w.cur = u.cur BY <1>1, <2>1, TodoGood, EpochKept
  <2> HIDE DEF w
  <2> QED BY <1>1, <1>4, <1>9, <2>2, Chain
<1>11. top' = top /\ net' = net /\ votes' = votes BY DEF SetSlotNode
<1> HIDE DEF v, w
<1>12. Members' /\ SameVotes BY <1>1, <1>3, <1>10, <1>11, OneFollows
<1> QED BY <1>11, <1>12, QuietStep

LEMMA RestartInv ==
    ASSUME Inv, NEW n \in Up, Restart(n)
    PROVE  Inv'
<1>1. n \in Nodes /\ Members BY UpInNodes DEF Inv
<1> DEFINE v == Loaded(disk[n])
<1>2. /\ cl' = [cl EXCEPT ![n] = v] /\ disk' = disk /\ top' = top /\ votes' = votes
      /\ net' \subseteq net
      /\ forgotten' = forgotten \cup {e \in Epochs : disk[n].lastVote < e /\ e <= cl[n].lastVote}
  BY DEF Restart
<1>3. GoodFile(disk[n], n) /\ disk[n].cur <= top.maxEpoch /\ Good(cl[n], n)
  BY <1>1 DEF Members
<1>4. Good(v, n) /\ v.cur <= top.maxEpoch /\ v.lastVote = disk[n].lastVote
  BY <1>1, <1>3, LoadedGood
<1>5. disk[n].lastVote \in Nat /\ cl[n].lastVote \in Nat
  BY <1>3 DEF GoodFile, Files, Good, Tables
<1> HIDE DEF v
<1>6. /\ cl' \in [Nodes -> Tables]
      /\ \A x \in Nodes : cl'[x] = IF x = n THEN v ELSE cl[x]
  BY <1>1, <1>2, <1>4 DEF Members, Good
<1>7. Members'
  BY <1>1, <1>2, <1>4, <1>6, MembersChange DEF Next1, Members
<1>8. Remembered'
  <2>1. ASSUME NEW w \in votes', w[2] \notin forgotten' PROVE w[2] <= cl'[w[1]].lastVote
    <3>1. w \in votes /\ w[2] \notin forgotten /\ w[1] \in Nodes /\ w[2] \in Epochs
      BY <1>2, <2>1 DEF Inv, Remembered, Epochs
    <3>2. w[2] <= cl[w[1]].lastVote BY <3>1 DEF Inv, Remembered
    <3>3. CASE w[1] # n BY <1>6, <3>1, <3>2, <3>3
    <3>4. CASE w[1] = n
      <4>1. ~(disk[n].lastVote < w[2]) BY <1>2, <2>1, <3>1, <3>2, <3>4
      <4>2. w[2] \in Nat BY <3>1 DEF Epochs
      <4> QED BY <1>4, <1>5, <1>6, <3>1, <3>4, <4>1, <4>2
    <3> QED BY <3>3, <3>4
  <2>2. OneVotePerEpoch' BY <1>2 DEF Inv, Remembered, OneVotePerEpoch
  <2>3. votes' \subseteq Nodes \X (0..MaxEpoch) \X Nodes BY <1>2 DEF Inv, Remembered
  <2> QED BY <2>1, <2>2, <2>3 DEF Remembered
<1>9. \A m \in net' : Post(m)' BY <1>2 DEF Inv, Post, Heard
<1> QED BY <1>7, <1>8, <1>9 DEF Inv

\* A step that may ask for votes.
LEMMA AskingStep ==
    ASSUME Inv, Members', SameVotes, top' = top, NEW n \in Nodes, NEW v, Next1(n, v),
           NEW gone, net' = gone \cup Requests(n, v), gone \subseteq net, ~IsMaster(v, n)
    PROVE  Inv'
<1>1. Remembered' BY RememberedStays DEF Inv
<1>2. \A m \in gone : Post(m)' BY DEF Inv, Post, Heard
<1>3. \A m \in Requests(n, v) : Post(m)' BY RequestsPosted DEF Inv
<1> QED BY <1>1, <1>2, <1>3 DEF Inv

LEMMA CronInv ==
    ASSUME Inv, NEW n \in Up, Cron(n)
    PROVE  Inv'
<1>1. n \in Nodes /\ Members BY UpInNodes DEF Inv
<1>2. Good(cl[n], n) BY <1>1 DEF Members
<1>3. PICK when \in {"retry", "due"}, mf \in {"late", "caught up", "keep"} :
         LET v == [cl[n] EXCEPT
                     !.mf = IF mf = "late" THEN "no"
                            ELSE IF mf = "caught up" /\ @ = "offset"
                            THEN "start" ELSE @]
         IN Attempt(n, UpdateState(v), when)
  BY DEF Cron
<1> DEFINE x == IF mf = "late" THEN "no"
                ELSE IF mf = "caught up" /\ cl[n].mf = "offset" THEN "start" ELSE cl[n].mf
           a == [cl[n] EXCEPT !.mf = x]
           b == UpdateState(a)
           v == HandleSlaveFailover(b, n, when)
<1>4. Attempt(n, b, when) BY <1>3
<1>5. Follows(cl[n], a, n)
  <2>1. x \in {"no", "wait", "offset", "start"} BY <1>2 DEF Good, Tables
  <2> HIDE DEF x
  <2> QED BY <1>1, <1>2, <2>1, MfGood
<1>6. Follows(a, b, n)
  <2>1. Good(a, n) BY <1>5 DEF Follows
  <2> HIDE DEF a
  <2> QED BY <1>1, <2>1, SizeGood
<1> HIDE DEF a, b
<1>7. Good(b, n) BY <1>6 DEF Follows
<1>8. Follows(b, v, n) BY <1>1, <1>7, HandleGood
<1>9. Follows(cl[n], v, n)
  <2> HIDE DEF v
  <2> QED BY <1>1, <1>2, <1>5, <1>6, <1>8, Chain
<1>10. /\ v.cur <= top.maxEpoch /\ Becomes(n, v)
       /\ net' = IF v.sent /\ ~b.sent THEN net \cup Requests(n, v) ELSE net
  BY <1>4 DEF Attempt
<1>11. top' = top /\ votes' = votes /\ forgotten' = forgotten BY DEF Cron
<1>12. Members' /\ SameVotes
  <2> HIDE DEF v
  <2> QED BY <1>1, <1>9, <1>10, <1>11, OneFollows
<1>13. CASE v.sent /\ ~b.sent
  <2>1. ~IsMaster(v, n) BY <1>1, <1>7, <1>13, HandleAsks
  <2>2. Next1(n, v) BY <1>9, <1>10 DEF Next1, Follows
  <2> HIDE DEF v
  <2> QED BY <1>1, <1>10, <1>11, <1>12, <1>13, <2>1, <2>2, AskingStep
<1>14. CASE ~(v.sent /\ ~b.sent)
  <2> HIDE DEF v
  <2> QED BY <1>10, <1>11, <1>12, <1>14, QuietStep
<1> QED BY <1>13, <1>14
\* What t makes of a PING of n, with the gossip about g.
LEMMA PingGood ==
    ASSUME Members, NEW n \in Nodes, NEW t \in Nodes \ {n}, NEW g \in Nodes,
           NEW pong, NEW old, NEW flag
    PROVE  LET v0 == SeePing(cl[t], t, Header(n), pong, old)
           IN  Good(v0, t) /\ Follows(cl[t], Gossip(v0, t, n, g, flag), t)
<1> DEFINE v0 == SeePing(cl[t], t, Header(n), pong, old)
           v == Gossip(v0, t, n, g, flag)
<1>1. Good(cl[t], t) BY DEF Members
<1>2. Follows(cl[t], v0, t) BY <1>1, HeaderHeard, SeePingGood
<1>3. Good(v0, t) BY <1>2 DEF Follows
<1> HIDE DEF v0
<1>4. Follows(v0, v, t) BY <1>3, GossipGood
<1> HIDE DEF v
<1>5. Follows(cl[t], v, t) BY <1>1, <1>2, <1>4, Chain
<1> QED BY <1>3, <1>5 DEF v, v0

\* What n makes of an UPDATE of t about another node o.
LEMMA UpdatedGood ==
    ASSUME Members, NEW n \in Nodes, NEW t \in Nodes \ {n}, NEW o \in Nodes \ {n},
           NEW v, Next1(t, v)
    PROVE  Follows(cl[n], Updated(n, t, o, v), n) /\ Updated(n, t, o, v).cur <= top.maxEpoch
<1> DEFINE h == [from |-> t, cur |-> v.cur, paused |-> FALSE, cfg |-> v.epoch[Speaker(v, t)]]
           a == SeeHeader(cl[n], n, h)
           u == SeeUpdate(a, n, o, v.epoch[o], SlotsOf(v, o))
<1>1. Good(cl[n], n) /\ cl[n].cur <= top.maxEpoch BY DEF Members
<1>2. /\ v.cur \in Nat /\ v.epoch \in [Nodes -> Nat] /\ v.of \in [Nodes -> MaybeNode]
      /\ \A x \in Nodes : v.epoch[x] <= v.cur
      /\ v.cur <= top.maxEpoch
  BY DEF Next1, Good, Ordered, Tables
<1>3. Speaker(v, t) \in Nodes BY <1>2 DEF Speaker, IsMaster, MaybeNode
<1>4. Heard(h, n) BY <1>2, <1>3 DEF Heard
<1>5. Follows(cl[n], a, n) /\ v.cur <= a.cur /\ a.cur \in {cl[n].cur, v.cur}
  <2>1. h.cur = v.cur OBVIOUS
  <2> HIDE DEF h
  <2> QED BY <1>1, <1>4, <2>1, SeeHeaderGood
<1>6. Good(a, n) /\ a.cur <= top.maxEpoch BY <1>1, <1>2, <1>5 DEF Follows
<1>7. v.epoch[o] \in Nat /\ v.epoch[o] <= a.cur
  <2>1. a.cur \in Nat BY <1>6 DEF Good, Tables
  <2> HIDE DEF a
  <2> QED BY <1>2, <1>5, <2>1
<1>8. SlotsOf(v, o) \in SUBSET Slots BY DEF SlotsOf
<1> HIDE DEF a
<1>9. Follows(a, u, n) /\ u.cur = a.cur
  BY <1>6, <1>7, <1>8, SeeUpdateGood, UpdateKeepsEpoch
<1>10. Updated(n, t, o, v) = u BY DEF Updated, a
<1> HIDE DEF u
<1> QED BY <1>1, <1>5, <1>6, <1>9, <1>10, Chain

\* What t does with a PING of n, or with a PONG.
PingStep(n, t, pong, old) ==
    \E v0 \in {SeePing(cl[t], t, Header(n), pong, old)} :
    \E g \in {n} \cup {x \in nodes : \/ cl[n].flag[x] # "ok"
                                  \/ <<n, x>> \in cl[t].reports} :
    \E v \in {Gossip(v0, t, n, g, cl[n].flag[g])} :
      /\ v.cur <= top.maxEpoch
      /\ ~Failing(v, t, g, {})
      /\ \/ Becomes(t, v)
         \/ \E o \in Outdated(v0, Header(n)) : BothBecome(t, v, n, Updated(n, t, o, v))
      /\ assigned' = Taken(t, v0)
      /\ UNCHANGED <<net, top, budget, votes, wins, forgotten, early>>

LEMMA PingInv ==
    ASSUME Inv, NEW n \in Up, NEW t \in Up \ {n}, Ping(n, t)
    PROVE  Inv'
<1>1. n \in Nodes /\ t \in Nodes \ {n} /\ nodes \subseteq Nodes /\ Members
  BY UpInNodes DEF Inv
<1>2. PICK pong \in BOOLEAN, old \in BOOLEAN, g \in Nodes :
        LET v0 == SeePing(cl[t], t, Header(n), pong, old)
            v == Gossip(v0, t, n, g, cl[n].flag[g])
        IN /\ v.cur <= top.maxEpoch
           /\ \/ Becomes(t, v)
              \/ \E o \in Outdated(v0, Header(n)) : BothBecome(t, v, n, Updated(n, t, o, v))
           /\ forgotten \subseteq forgotten'
  <2>1. \E pong \in IF cl[t].flag[n] = "ok" THEN {FALSE} ELSE BOOLEAN :
        \E old \in IF pong /\ cl[t].flag[n] = "fail" THEN BOOLEAN ELSE {FALSE} :
          PingStep(n, t, pong, old)
    BY Zenon DEF Ping, PingStep
  <2>2. PICK pong \in BOOLEAN, old \in BOOLEAN : PingStep(n, t, pong, old)
    <3>1. \A c \in BOOLEAN : (IF c THEN {FALSE} ELSE BOOLEAN) \subseteq BOOLEAN OBVIOUS
    <3> QED BY <2>1
  <2> QED BY <1>1, <2>2 DEF PingStep
<1> DEFINE v0 == SeePing(cl[t], t, Header(n), pong, old)
           v == Gossip(v0, t, n, g, cl[n].flag[g])
<1>3. /\ v.cur <= top.maxEpoch
      /\ \/ Becomes(t, v)
         \/ \E o \in Outdated(v0, Header(n)) : BothBecome(t, v, n, Updated(n, t, o, v))
  BY <1>2
<1>4. Good(v0, t) /\ Follows(cl[t], v, t) BY <1>1, PingGood
<1>5. top' = top /\ net' = net /\ votes' = votes /\ forgotten \subseteq forgotten'
  BY <1>2 DEF Ping
<1> HIDE DEF v
<1>6. ASSUME Becomes(t, v) PROVE Members' /\ SameVotes
  BY <1>1, <1>3, <1>4, <1>5, <1>6, OneFollows
<1>7. ASSUME NEW o \in Outdated(v0, Header(n)), BothBecome(t, v, n, Updated(n, t, o, v))
      PROVE  Members' /\ SameVotes
  <2> DEFINE u == Updated(n, t, o, v)
  <2>1. o \in Nodes \ {n}
    <3>1. PICK s \in Header(n).slots : o = v0.owner[s] /\ o \notin {Header(n).from, NoNode}
      BY <1>7 DEF Outdated
    <3>2. Header(n).from = n /\ Header(n).slots \subseteq Slots
      BY <1>1, HeaderHeard DEF HeardRole
    <3>3. v0.owner \in [Slots -> MaybeNode] BY <1>4 DEF Good, Tables
    <3> HIDE DEF v0
    <3> QED BY <3>1, <3>2, <3>3 DEF MaybeNode
  <2>2. Next1(t, v) BY <1>3, <1>4 DEF Next1, Follows
  <2>3. Follows(cl[n], u, n) /\ u.cur <= top.maxEpoch
    BY <1>1, <2>1, <2>2, UpdatedGood
  <2>4. /\ cl' = [cl EXCEPT ![t] = Slept(v), ![n] = Slept(u)]
        /\ disk' = [disk EXCEPT ![t] = IF "save" \in v.todo THEN Saved(v) ELSE @,
                                ![n] = IF "save" \in u.todo THEN Saved(u) ELSE @]
    BY <1>7 DEF BothBecome
  <2> HIDE DEF u, v0
  <2>5. ASSUME NEW x \in Nodes, NEW y, Follows(cl[x], y, x), y.cur <= top.maxEpoch
        PROVE  /\ Next1(x, Slept(y)) /\ Slept(y).lastVote = cl[x].lastVote
               /\ GoodFile(Saved(y), x) /\ Saved(y).cur <= top.maxEpoch
    BY <2>5, SleptGood, SavedGood, EpochKept DEF Follows, Next1
  <2>6. /\ Next1(t, Slept(v)) /\ Slept(v).lastVote = cl[t].lastVote
        /\ GoodFile(Saved(v), t) /\ Saved(v).cur <= top.maxEpoch
        /\ Next1(n, Slept(u)) /\ Slept(u).lastVote = cl[n].lastVote
        /\ GoodFile(Saved(u), n) /\ Saved(u).cur <= top.maxEpoch
    BY <1>1, <1>3, <1>4, <2>3, <2>5
  <2>7. /\ cl' \in [Nodes -> Tables]
        /\ \A x \in Nodes : cl'[x] = IF x = n THEN Slept(u) ELSE IF x = t THEN Slept(v) ELSE cl[x]
    BY <1>1, <2>4, <2>6 DEF Members, Next1, Good
  <2>8. /\ disk' \in [Nodes -> Files]
        /\ \A x \in Nodes : \/ disk'[x] = disk[x]
                            \/ x = n /\ disk'[x] = Saved(u)
                            \/ x = t /\ disk'[x] = Saved(v)
    BY <1>1, <2>4, <2>6 DEF Members, GoodFile
  <2>9. Members'
    BY <1>1, <1>5, <2>6, <2>7, <2>8, MembersChange
  <2> QED BY <1>1, <1>5, <2>6, <2>7, <2>9 DEF SameVotes
<1>8. Members' /\ SameVotes BY <1>3, <1>6, <1>7
<1> QED BY <1>5, <1>8, QuietStep

\* t flags g as failing (its state was v, and is f) and tells the others.
MarkStep(t, g, v, f) ==
    /\ v.cur <= top.maxEpoch
    /\ \E told \in SUBSET {x \in Up \ {t, g} : IsMaster(f, t) /\ cl[x].flag[g] # "fail"} :
         /\ cl' = [x \in Nodes |-> IF x = t THEN Slept(f)
                     ELSE IF x \in told THEN Slept(Failed(cl[x], g)) ELSE cl[x]]
         /\ disk' = [x \in Nodes |-> IF x = t THEN Saved(f)
                       ELSE IF x \in told THEN Saved(Failed(cl[x], g)) ELSE disk[x]]
    /\ assigned' = Taken(t, v)
    /\ UNCHANGED <<net, top, budget, votes, wins, forgotten, early>>

LEMMA MarkFailingInv ==
    ASSUME Inv, NEW n \in Up, NEW t \in Up \ {n}, NEW g \in nodes, MarkFailing(n, t, g)
    PROVE  Inv'
<1>1. n \in Nodes /\ t \in Nodes \ {n} /\ g \in Nodes /\ Members BY UpInNodes DEF Inv
<1> DEFINE v == Gossip(SeePing(cl[t], t, Header(n), FALSE, FALSE), t, n, g, cl[n].flag[g])
           f == Failed(v, g)
<1>2. /\ v.cur <= top.maxEpoch
      /\ \E told \in SUBSET {x \in Up \ {t, g} : IsMaster(f, t) /\ cl[x].flag[g] # "fail"} :
            /\ cl' = [x \in Nodes |-> IF x = t THEN Slept(f)
                        ELSE IF x \in told THEN Slept(Failed(cl[x], g)) ELSE cl[x]]
            /\ disk' = [x \in Nodes |-> IF x = t THEN Saved(f)
                          ELSE IF x \in told THEN Saved(Failed(cl[x], g)) ELSE disk[x]]
      /\ UNCHANGED <<net, top, budget, votes, wins, forgotten, early>>
  <2>1. \E x \in {v} : \E y \in {Failed(x, g)} : MarkStep(t, g, x, y)
    BY Zenon DEF MarkFailing, MarkStep
  <2> HIDE DEF v
  <2> QED BY <2>1 DEF MarkStep
<1>3. Follows(cl[t], v, t) BY <1>1, PingGood
<1> HIDE DEF v
<1>4. Follows(cl[t], f, t) /\ f.cur <= top.maxEpoch
  <2>1. Good(v, t) BY <1>3 DEF Follows
  <2>2. Follows(v, f, t) /\ f.cur = v.cur BY <1>1, <2>1, FailedGood, EpochKept
  <2>3. Good(cl[t], t) BY <1>1 DEF Members
  <2> HIDE DEF f
  <2> QED BY <1>1, <1>2, <1>3, <2>2, <2>3, Chain
<1>5. PICK told :
        /\ cl' = [x \in Nodes |-> IF x = t THEN Slept(f)
                    ELSE IF x \in told THEN Slept(Failed(cl[x], g)) ELSE cl[x]]
        /\ disk' = [x \in Nodes |-> IF x = t THEN Saved(f)
                      ELSE IF x \in told THEN Saved(Failed(cl[x], g)) ELSE disk[x]]
  BY <1>2
<1> HIDE DEF f
<1>6. ASSUME NEW x \in Nodes, NEW y, Follows(cl[x], y, x), y.cur <= top.maxEpoch
      PROVE  /\ Next1(x, Slept(y)) /\ Slept(y).lastVote = cl[x].lastVote
             /\ GoodFile(Saved(y), x) /\ Saved(y).cur <= top.maxEpoch
  BY <1>6, SleptGood, SavedGood, EpochKept DEF Follows, Next1
<1>7. ASSUME NEW x \in Nodes
      PROVE  Follows(cl[x], Failed(cl[x], g), x) /\ Failed(cl[x], g).cur <= top.maxEpoch
  BY <1>1, FailedGood, EpochKept DEF Members
<1>8. ASSUME NEW x \in Nodes
      PROVE  /\ Next1(x, cl'[x]) /\ cl'[x].lastVote = cl[x].lastVote
             /\ GoodFile(disk'[x], x) /\ disk'[x].cur <= top.maxEpoch
  <2>1. CASE x = t BY <1>1, <1>4, <1>5, <1>6, <2>1
  <2>2. CASE x # t /\ x \in told BY <1>5, <1>6, <1>7, <2>2
  <2>3. CASE x # t /\ x \notin told BY <1>1, <1>5, <2>3 DEF Members, Next1
  <2> QED BY <2>1, <2>2, <2>3
<1>9. cl' \in [Nodes -> Tables] /\ disk' \in [Nodes -> Files]
  <2>1. \A x \in Nodes : cl'[x] \in Tables /\ disk'[x] \in Files
    BY <1>8 DEF Next1, Good, GoodFile
  <2>2. cl' = [x \in Nodes |-> cl'[x]] /\ disk' = [x \in Nodes |-> disk'[x]] BY <1>5
  <2> QED BY <2>1, <2>2
<1>10. top' = top /\ net' = net /\ votes' = votes /\ forgotten' = forgotten BY <1>2
<1>11. Members' BY <1>1, <1>8, <1>9, <1>10, MembersChange
<1>12. SameVotes BY <1>8, <1>10 DEF SameVotes
<1> QED BY <1>10, <1>11, <1>12, QuietStep

\* A packet is heard.
LEMMA PacketGood ==
    ASSUME Inv, NEW m \in net
    PROVE  LET v == SeeHeader(cl[m.to], m.to, [from |-> m.from, cur |-> m.cur,
                                               cfg |-> m.cfg, paused |-> FALSE])
           IN  /\ m.to \in Nodes /\ m.from \in Nodes \ {m.to}
               /\ Follows(cl[m.to], v, m.to) /\ v.cur <= top.maxEpoch
<1> DEFINE h == [from |-> m.from, cur |-> m.cur, cfg |-> m.cfg, paused |-> FALSE]
<1>1. m.to \in Nodes /\ Heard(m, m.to) /\ m.cur <= top.maxEpoch BY DEF Inv, Post
<1>2. Heard(h, m.to) /\ m.from \in Nodes \ {m.to} BY <1>1 DEF Heard
<1>3. Good(cl[m.to], m.to) /\ cl[m.to].cur <= top.maxEpoch BY <1>1 DEF Inv, Members
<1>4. h.cur = m.cur OBVIOUS
<1> HIDE DEF h
<1>5. /\ Follows(cl[m.to], SeeHeader(cl[m.to], m.to, h), m.to)
      /\ SeeHeader(cl[m.to], m.to, h).cur <= top.maxEpoch
  BY <1>1, <1>2, <1>3, <1>4, SeeHeaderGood
<1> QED BY <1>1, <1>2, <1>5 DEF h

LEMMA VoteInv ==
    ASSUME Inv, NEW m \in net, Vote(m)
    PROVE  Inv'
<1> DEFINE n == m.to
           v == SeeHeader(cl[n], n, [from |-> m.from, cur |-> m.cur,
                                     cfg |-> m.cfg, paused |-> FALSE])
           w == [v EXCEPT !.lastVote = v.cur]
           ack == [type |-> "ack", from |-> n, to |-> m.from, cur |-> v.cur,
                   cfg |-> v.epoch[n], epoch |-> v.cur]
<1>1. /\ n \in Nodes /\ m.from \in Nodes \ {n}
      /\ Follows(cl[n], v, n) /\ v.cur <= top.maxEpoch
  BY PacketGood
<1>2. top' = top /\ forgotten' = forgotten BY DEF Vote
<1>3. \/ Becomes(n, v) /\ net' = net \ {m} /\ votes' = votes
      \/ /\ MayVote(v, n, m, TRUE) /\ Becomes(n, w)
         /\ net' = (net \ {m}) \cup {ack}
         /\ votes' = votes \cup {<<n, v.cur, m.from>>}
  <2> HIDE DEF v
  <2> QED BY DEF Vote, v
<1> HIDE DEF v
<1>4. CASE Becomes(n, v) /\ net' = net \ {m} /\ votes' = votes
  <2>1. Members' /\ SameVotes BY <1>1, <1>2, <1>4, OneFollows DEF Inv
  <2> QED BY <1>2, <1>4, <2>1, QuietStep
<1>5. CASE /\ MayVote(v, n, m, TRUE) /\ Becomes(n, w)
           /\ net' = (net \ {m}) \cup {ack}
           /\ votes' = votes \cup {<<n, v.cur, m.from>>}
  <2>1. /\ v \in Tables /\ v.cur \in Nat /\ v.epoch \in [Nodes -> Nat] /\ v.lastVote \in Nat
        /\ v.lastVote <= v.cur /\ v.epoch[n] <= v.cur /\ v.auth_epoch <= v.cur
        /\ v.lastVote = cl[n].lastVote
    BY <1>1 DEF Follows, Good, Ordered, Tables
  <2>2. Next1(n, w) /\ w.lastVote = v.cur
    <3>1. w \in Tables BY <2>1 DEF Tables
    <3>2. /\ w.cur = v.cur /\ w.epoch = v.epoch /\ w.lastVote = v.cur
          /\ w.owner = v.owner /\ w.of = v.of /\ w.auth_epoch = v.auth_epoch
      BY <2>1 DEF Tables
    <3> HIDE DEF w
    <3> QED BY <1>1, <2>1, <3>1, <3>2 DEF Next1, Good, Ordered, Follows
  <2> HIDE DEF w
  <2>3. /\ Members'
        /\ \A x \in Nodes : cl'[x].lastVote = IF x = n THEN v.cur ELSE cl[x].lastVote
    BY <1>1, <1>2, <1>5, <2>2, OneBecomes DEF Inv
  <2>4. ASSUME NEW x \in net' PROVE Post(x)'
    <3>1. CASE x = ack
      <4>1. x.to = m.from /\ x.from = n /\ x.cur = v.cur /\ x.cfg = v.epoch[n]
        BY <3>1
      <4>2. v.epoch[n] \in Nat BY <1>1, <2>1
      <4>3. m.from \in Nodes /\ n \in Nodes \ {m.from} BY <1>1
      <4>4. v.epoch[n] \in 0..v.cur BY <2>1, <4>2
      <4> HIDE DEF n, ack
      <4> QED BY <1>1, <1>2, <2>1, <4>1, <4>3, <4>4 DEF Post, Heard
    <3>2. CASE x \in net BY <1>2, <3>2 DEF Inv, Post, Heard
    <3> HIDE DEF ack
    <3> QED BY <1>5, <3>1, <3>2
  <2>5. v.cur \in 0..MaxEpoch
    <3>1. top.maxEpoch \in 0..MaxEpoch BY TopologiesAssumption DEF Inv, Members
    <3> QED BY <1>1, <2>1, <3>1, ClusterAssumption
  <2>6. votes' \subseteq Nodes \X (0..MaxEpoch) \X Nodes
    BY <1>1, <1>5, <2>5 DEF Inv, Remembered
  <2>7. ASSUME NEW x \in votes', x[2] \notin forgotten' PROVE x[2] <= cl'[x[1]].lastVote
    <3>1. CASE x = <<n, v.cur, m.from>> BY <1>1, <2>1, <2>3, <3>1
    <3>2. CASE x \in votes
      <4>1. x[1] \in Nodes /\ x[2] \in Nat /\ x[2] <= cl[x[1]].lastVote
        BY <1>2, <2>7, <3>2 DEF Inv, Remembered
      <4> QED BY <2>1, <2>3, <4>1
    <3> QED BY <1>5, <3>1, <3>2
  <2>8. ASSUME NEW x \in votes, x[1] = n, x[2] = v.cur PROVE x[2] \in forgotten
    <3>1. v.lastVote # v.cur BY <1>5 DEF MayVote
    <3>2. x[2] \notin forgotten => x[2] <= cl[n].lastVote BY <2>8 DEF Inv, Remembered
    <3> QED BY <2>1, <2>8, <3>1, <3>2
  <2>9. OneVotePerEpoch'
    <3>1. SUFFICES ASSUME NEW x \in votes', NEW y \in votes', x[1] = y[1], x[2] = y[2],
                          x[2] \notin forgotten
                   PROVE  x = y
      BY <1>2 DEF OneVotePerEpoch
    <3>2. CASE x \in votes /\ y \in votes
      BY <3>1, <3>2 DEF Inv, Remembered, OneVotePerEpoch
    <3>3. CASE x \in votes /\ y = <<n, v.cur, m.from>> BY <2>8, <3>1, <3>3
    <3>4. CASE y \in votes /\ x = <<n, v.cur, m.from>> BY <2>8, <3>1, <3>4
    <3> QED BY <1>5, <3>2, <3>3, <3>4
  <2> QED BY <2>3, <2>4, <2>6, <2>7, <2>9 DEF Inv, Remembered
<1> QED BY <1>3, <1>4, <1>5

LEMMA CountInv ==
    ASSUME Inv, NEW m \in net, Count(m)
    PROVE  Inv'
<1> DEFINE n == m.to
           v == SeeHeader(cl[n], n, [from |-> m.from, cur |-> m.cur,
                                     cfg |-> m.cfg, paused |-> FALSE])
           a == IF Valid(v, m) THEN [v EXCEPT !.count = @ + 1] ELSE v
<1>1. /\ n \in Nodes /\ Follows(cl[n], v, n) BY PacketGood
<1>2. PICK when \in {"due", "wait"} :
        \E w \in {HandleSlaveFailover(a, n, when)} :
         /\ w.cur <= top.maxEpoch
         /\ Becomes(n, w)
         /\ net' = (net \ {m}) \cup
                   (IF w.sent /\ ~v.sent THEN Requests(n, w) ELSE {})
         /\ early' = Begun(v, w)
  BY DEF Count
<1> DEFINE w == HandleSlaveFailover(a, n, when)
<1>3. /\ w.cur <= top.maxEpoch
      /\ Becomes(n, w)
      /\ net' = (net \ {m}) \cup (IF w.sent /\ ~v.sent THEN Requests(n, w) ELSE {})
  BY <1>2
<1>4. top' = top /\ votes' = votes /\ forgotten \subseteq forgotten' BY DEF Count
<1>5. Good(cl[n], n) BY <1>1 DEF Inv, Members
<1> HIDE DEF v
<1>6. Follows(v, a, n) /\ a.sent = v.sent
  <2> DEFINE c == [v EXCEPT !.count = v.count + 1]
  <2>1. v \in Tables /\ v.cur \in Nat /\ v.count \in Nat /\ Good(v, n)
    BY <1>1 DEF Follows, Good, Tables
  <2>2. c \in Tables
    <3>1. v.count + 1 \in Nat BY <2>1
    <3> QED BY <2>1, <3>1 DEF Tables
  <2>3. /\ c.cur = v.cur /\ c.epoch = v.epoch /\ c.lastVote = v.lastVote /\ c.sent = v.sent
        /\ c.owner = v.owner /\ c.of = v.of /\ c.auth_epoch = v.auth_epoch
    BY <2>1 DEF Tables
  <2>4. a = IF Valid(v, m) THEN c ELSE v OBVIOUS
  <2> HIDE DEF c, a
  <2>5. Follows(v, c, n) BY <2>1, <2>2, <2>3 DEF Good, Ordered, Follows
  <2> QED BY <1>1, <2>1, <2>3, <2>4, <2>5, Itself
<1> HIDE DEF a
<1>7. Good(a, n) BY <1>6 DEF Follows
<1>8. Follows(cl[n], w, n)
  <2>1. Follows(a, w, n) BY <1>1, <1>7, HandleGood
  <2> HIDE DEF w
  <2> QED BY <1>1, <1>5, <1>6, <2>1, Chain
<1>9. Members' /\ SameVotes
  <2> HIDE DEF w
  <2> QED BY <1>1, <1>3, <1>4, <1>8, OneFollows DEF Inv
<1>10. CASE w.sent /\ ~v.sent
  <2>1. ~IsMaster(w, n) BY <1>1, <1>6, <1>7, <1>10, HandleAsks
  <2>2. Next1(n, w) BY <1>3, <1>8 DEF Next1, Follows
  <2> HIDE DEF w
  <2>3. net' = (net \ {m}) \cup Requests(n, w) BY <1>3, <1>10
  <2> QED BY <1>1, <1>4, <1>9, <2>1, <2>2, <2>3, AskingStep
<1>11. CASE ~(w.sent /\ ~v.sent)
  <2> HIDE DEF w
  <2> QED BY <1>3, <1>4, <1>9, <1>11, QuietStep
<1> QED BY <1>10, <1>11

THEOREM NextInv == Inv /\ [Next]_vars => Inv'
<1> SUFFICES ASSUME Inv, [Next]_vars PROVE Inv' OBVIOUS
<1>1. CASE UNCHANGED vars
  BY <1>1 DEF vars, Inv, Members, Remembered, OneVotePerEpoch, Post, Heard
<1>2. ASSUME NEW n \in Up, Cron(n) \/ MasterCron(n) \/ Restart(n)
      PROVE  Inv'
  BY <1>2, CronInv, MasterCronInv, RestartInv
<1>3. ASSUME NEW n \in Up, ManualFailover(n) \/ ForceFailover(n) \/ Takeover(n)
      PROVE  Inv'
  BY <1>3, ManualFailoverInv, ForceFailoverInv, TakeoverInv
<1>4. ASSUME NEW n \in Up, NEW t \in Up \ {n},
             \/ Ping(n, t)
             \/ \E g \in nodes \ {n, t} : MarkFailing(n, t, g)
             \/ \E s \in Slots : SetSlotImporting(n, s, t)
      PROVE  Inv'
  BY <1>4, PingInv, MarkFailingInv, SetSlotImportingInv
<1>5. ASSUME NEW n \in Up, NEW t \in nodes \ {n}, Timeout(n, t) PROVE Inv'
  BY <1>5, TimeoutInv
<1>6. ASSUME NEW n \in Up, NEW t \in nodes, NEW s \in Slots, SetSlotNode(n, s, t)
      PROVE  Inv'
  BY <1>6, SetSlotNodeInv
<1>7. ASSUME NEW m \in net, Vote(m) \/ Count(m) PROVE Inv'
  BY <1>7, VoteInv, CountInv
<1>8. CASE Next
  BY <1>2, <1>3, <1>4, <1>5, <1>6, <1>7, <1>8 DEF Next
<1> QED BY <1>1, <1>8

-----------------------------------------------------------------------------
(* The theorems *)

THEOREM Invariance == Spec => []Inv
<1>1. Init => Inv BY InitInv
<1>2. Inv /\ [Next]_vars => Inv' BY NextInv
<1> QED BY <1>1, <1>2, PTL DEF Spec

\* Every node's table keeps its types, and no config epoch a node knows is
\* greater than its current epoch.
THEOREM TypeCorrect == Spec => []ClusterTypeOK
<1>1. Inv => ClusterTypeOK
  <2> SUFFICES ASSUME Inv, NEW n \in nodes
               PROVE  cl[n] \in View /\ GetMaxEpoch(cl[n]) = cl[n].cur
    BY DEF ClusterTypeOK
  <2>1. n \in Nodes /\ Good(cl[n], n) /\ cl[n] \in Tables /\ cl[n].cur <= top.maxEpoch
        /\ top.maxEpoch \in 0..MaxEpoch
    BY UpInNodes, TopologiesAssumption DEF Inv, Members
  <2>2. /\ cl[n].cur \in Nat /\ cl[n].lastVote \in Nat /\ cl[n].auth_epoch \in Nat
        /\ cl[n].epoch \in [Nodes -> Nat]
    BY <2>1 DEF Tables
  <2>3. \A x \in Nodes : cl[n].epoch[x] <= cl[n].cur BY <2>1 DEF Good, Ordered
  <2>4. GetMaxEpoch(cl[n]) = cl[n].cur BY <2>2, <2>3, MaxIsCurrent
  <2>5. /\ cl[n].cur \in Epochs /\ cl[n].lastVote \in Epochs /\ cl[n].auth_epoch \in Epochs
        /\ cl[n].epoch \in [Nodes -> Epochs]
    <3>1. cl[n].lastVote <= cl[n].cur /\ cl[n].auth_epoch <= cl[n].cur
      BY <2>1 DEF Good, Ordered
    <3> QED BY <2>1, <2>2, <2>3, <3>1, ClusterAssumption DEF Epochs
  <2>6. cl[n] \in View BY <2>1, <2>5 DEF View, Tables, MaybeNode, Flags
  <2> QED BY <2>4, <2>6
<1> QED BY <1>1, Invariance, PTL

\* A master votes once in an epoch: lastVoteEpoch never falls behind a vote
\* except in a restart that lost it, and such epochs are left out.
THEOREM VotesOnce == Spec => []OneVotePerEpoch
<1>1. Inv => OneVotePerEpoch BY DEF Inv, Remembered
<1> QED BY <1>1, Invariance, PTL

\* A node that considers itself a slave owns no slot, whatever packets and
\* commands it gets and whenever it restarts: clusterSetMaster's assertion.
THEOREM SlavesOwnNothing == Spec => []SlaveOwnsNothing
<1>1. Inv => SlaveOwnsNothing
  <2>1. ASSUME Inv, NEW n \in nodes, ~IsMaster(cl[n], n) PROVE SlotsOf(cl[n], n) = {}
    <3>1. n \in Nodes /\ Ordered(cl[n], n) BY <2>1, UpInNodes DEF Inv, Members, Good
    <3> QED BY <2>1, <3>1 DEF Ordered, IsMaster, SlotsOf
  <2> QED BY <2>1 DEF SlaveOwnsNothing
<1> QED BY <1>1, Invariance, PTL
=============================================================================

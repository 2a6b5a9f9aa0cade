----------------------------- MODULE MCCluster -----------------------------
(* Small clusters for TLC. *)
EXTENDS Cluster, TLC

CONSTANTS a, b, c, d

NodeNames == a :> 1 @@ b :> 2 @@ c :> 3 @@ d :> 4

\* Two masters with a slot each, and a slave of the first: takeovers and
\* slots that move, and the collisions they cause.
TwoMasters ==
    [nodes |-> {a, b, c}, cur |-> 2,
     epoch |-> a :> 1 @@ b :> 2 @@ c :> 0 @@ d :> 0,
     of |-> a :> NoNode @@ b :> NoNode @@ c :> a @@ d :> NoNode,
     owner |-> [s \in Slots |-> IF s = 1 THEN a ELSE b],
     maxEpoch |-> 3, restarts |-> 0, commands |-> 2,
     allowed |-> {"failover", "takeover", "setslot"}, suspects |-> {}, down |-> {}, away |-> {}]

\* A master with two slaves, which compete for its vote in manual failovers;
\* and one failover with a restart.
TwoSlaves ==
    [nodes |-> {a, b, c}, cur |-> 1,
     epoch |-> a :> 1 @@ b :> 0 @@ c :> 0 @@ d :> 0,
     of |-> a :> NoNode @@ b :> a @@ c :> a @@ d :> NoNode,
     owner |-> [s \in Slots |-> a],
     maxEpoch |-> 2, restarts |-> 0, commands |-> 2,
     allowed |-> {"force"}, suspects |-> {}, down |-> {}, away |-> {}]

\* Three masters and a slave of the first, which stops answering until
\* it has been replaced; then the third cannot be reached.
ThreeMasters ==
    [nodes |-> {a, b, c, d}, cur |-> 3,
     epoch |-> a :> 1 @@ b :> 2 @@ c :> 3 @@ d :> 0,
     of |-> a :> NoNode @@ b :> NoNode @@ c :> NoNode @@ d :> a,
     owner |-> [s \in Slots |-> CASE s = 1 -> a [] s = 2 -> b [] OTHER -> c],
     maxEpoch |-> 4, restarts |-> 0, commands |-> 0,
     allowed |-> {}, suspects |-> {a},
     down |-> {a}, away |-> {c}]

Restarting == [TwoSlaves EXCEPT !.restarts = 1, !.commands = 1]

\* The slave takes over while a slot moves, and the two new epochs collide.
Colliding ==
    [TwoMasters EXCEPT !.maxEpoch = 4, !.commands = 3,
                       !.allowed = {"takeover", "setslot"}]

\* A master with a slave that tries two elections.
Retrying ==
    [TwoSlaves EXCEPT !.nodes = {a, b}, !.of = [@ EXCEPT ![c] = NoNode],
                      !.maxEpoch = 3]

Small == {TwoMasters, Colliding, TwoSlaves, Restarting, Retrying, ThreeMasters}

SlowVotes == {Retrying}
=============================================================================

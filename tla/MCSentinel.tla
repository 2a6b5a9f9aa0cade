----------------------------- MODULE MCSentinel -----------------------------
(* Small instances of Sentinel for TLC. *)
EXTENDS Sentinel, TLC

AllPromotable == [i \in Instances |-> 1]

\* The sentinels are interchangeable.
Sym == Permutations(Sentinels)

Anyone == [e \in 1..MaxEpoch |-> Sentinels]
Only(s) == [e \in 1..MaxEpoch |-> {s}]
\* s starts the failover of the first epoch, another one that of the second.
First(s) == [e \in 1..MaxEpoch |-> IF e = 1 THEN {s} ELSE Sentinels \ {s}]

Quiet == [epochs |-> 1, faults |-> 0, asks |-> 1, hellos |-> 0, slaveofs |-> 1,
          calm |-> TRUE, starters |-> Anyone, publishers |-> Sentinels]

\* What is combined: a master that comes and goes; requests and replies that
\* overtake each other; elections of two epochs, with messages left over from the
\* first and a restart or a command; a failover with a restart or a command;
\* hellos out of order; a restart or a command of either sentinel at any step of a
\* failover, with hellos published before and after it; a hello of the first
\* failover that is received at any step of the second.
Scenarios ==
    {[Quiet EXCEPT !.calm = FALSE],
     [Quiet EXCEPT !.asks = 2],
     [Quiet EXCEPT !.epochs = 2, !.faults = 1, !.slaveofs = 0],
     [Quiet EXCEPT !.faults = 1],
     [Quiet EXCEPT !.hellos = 2]}
    \cup {[Quiet EXCEPT !.faults = 1, !.hellos = 1,
                        !.starters = Only(s), !.publishers = {s}] : s \in Sentinels}
    \cup {[Quiet EXCEPT !.epochs = 2, !.hellos = 1,
                        !.starters = First(s), !.publishers = {s}] : s \in Sentinels}
=============================================================================

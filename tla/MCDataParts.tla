----------------------------- MODULE MCDataParts -----------------------------
(***************************************************************************)
(* The data structures of Redis. The parts share no state here: the first  *)
(* state of a behaviour picks one, its actions follow, and the variables   *)
(* of the other parts stay Unused.                                         *)
(***************************************************************************)
EXTENDS SortedSets, Dict, Sets, MCZiplist, Hashes, HyperLogLog

(* Sorted sets. *)
SmallRanges ==
    {[min |-> 1, max |-> 2, minex |-> FALSE, maxex |-> FALSE], [min |-> 1, max |-> 3, minex |-> TRUE, maxex |-> TRUE],
     [min |-> -Inf, max |-> 1, minex |-> FALSE, maxex |-> FALSE], [min |-> 2, max |-> Inf, minex |-> FALSE, maxex |-> TRUE],
     [min |-> 2, max |-> 1, minex |-> FALSE, maxex |-> FALSE]}
SmallWeights == {<<0, 2>>}
SmallAdds == {<<<<m, s>>>> : m \in Elements, s \in Scores} \cup {<<<<1, 2>>, <<3, 1>>>>}
SmallScores == {1, 2, Inf}

(* Sets: two keys, small integers and one word. *)
CONSTANTS sa, sb
SmallInts == {-5, -1, 0, 3}
SmallMangled == 99
SmallSaddArgs == {<<IntMember(n)>> : n \in Ints} \cup {<<<<"word", 1>>>>, <<IntMember(3), IntMember(-5), IntMember(3)>>}
SmallKeyLists == {<<sa>>, <<sa, sb>>, <<sa, sa>>, <<sa, sb, sb>>, <<sb, sa, sb>>, <<sa, sb, sb, sb>>}
SmallCounts == {-2, 1, 2, 9}

(* Hashes: fields and values short, and too long for a ziplist. *)
Repeated(letter, n) == <<"str", [i \in 1..n |-> letter]>>
One == <<"int", 1>>
SmallFields == {One, Repeated(97, 3), Repeated(97, 8)}
SmallValues == {One, Repeated(98, 4), Repeated(98, 8)}
SmallHmsetArgs == {<<<<One, One>>, <<One, Repeated(98, 4)>>>>, <<<<Repeated(97, 3), One>>, <<Repeated(97, 8), Repeated(98, 8)>>>>}
SmallIncrements == {-2, 1}

(* HyperLogLog: hashes by their register and run length. *)
\* A hash of register reg with a run of length count.
Hash(reg, count) == reg + (2 ^ (P + count - 1))
MCPfaddArgs ==
    ({"a"} \X ({<<Hash(r, 1)>> : r \in {0, 6, 7}} \cup
               {<<Hash(6, 2)>>, <<Hash(15, 1)>>, <<Hash(8, 1), Hash(7, 2)>>, <<Hash(9, 4)>>, <<Hash(9, 8)>>}))
    \cup {<<"b", <<Hash(7, 1)>>>>, <<"b", <<>>>>}
MCPfmergeArgs == {<<"a", <<"b">>>>}

-----------------------------------------------------------------------------

VARIABLE part

Unused == "unused"

NoSortedSets == zobj = Unused
NoDict == dict = Unused /\ canResize = Unused /\ iter = Unused /\ scan = Unused
NoSets == sdb = Unused
NoZiplist == zl = Unused /\ want = Unused
NoHashes == hash = Unused /\ fields = Unused /\ honest = Unused
NoHyperLogLog == hll = Unused /\ hllCopy = Unused /\ added = Unused

PartsInit ==
    \/ part = "sorted sets" /\ ZsetInit /\ NoDict /\ NoSets /\ NoZiplist /\ NoHashes /\ NoHyperLogLog
    \/ part = "dict" /\ DictInit /\ NoSortedSets /\ NoSets /\ NoZiplist /\ NoHashes /\ NoHyperLogLog
    \/ part = "sets" /\ SetsInit /\ NoSortedSets /\ NoDict /\ NoZiplist /\ NoHashes /\ NoHyperLogLog
    \/ part = "ziplist" /\ ZiplistInit /\ NoSortedSets /\ NoDict /\ NoSets /\ NoHashes /\ NoHyperLogLog
    \/ part = "hashes" /\ HashesInit /\ NoSortedSets /\ NoDict /\ NoSets /\ NoZiplist /\ NoHyperLogLog
    \/ part = "hyperloglog" /\ HllInit /\ NoSortedSets /\ NoDict /\ NoSets /\ NoZiplist /\ NoHashes

PartsNext ==
    \/ part = "sorted sets" /\ ZsetNext /\ UNCHANGED <<part, dvars, sdb, zvars, hvars, hllvars>>
    \/ part = "dict" /\ DictNextStep /\ UNCHANGED <<part, zobj, sdb, zvars, hvars, hllvars>>
    \/ part = "sets" /\ SetsNext /\ UNCHANGED <<part, zobj, dvars, zvars, hvars, hllvars>>
    \/ part = "ziplist" /\ ZiplistNextStep /\ UNCHANGED <<part, zobj, dvars, sdb, hvars, hllvars>>
    \/ part = "hashes" /\ HashesNext /\ UNCHANGED <<part, zobj, dvars, sdb, zvars, hllvars>>
    \/ part = "hyperloglog" /\ HllNext /\ UNCHANGED <<part, zobj, dvars, sdb, zvars, hvars>>

PartsSpec == PartsInit /\ [][PartsNext]_<<part, zobj, dvars, sdb, zvars, hvars, hllvars>>
-----------------------------------------------------------------------------
\* The levels, spans and backward pointers of a skiplist agree with its order
\* and with the dict. Ranks, ranges and counts of a sorted set are those of
\* its sorted elements, in either encoding. Range removals, unions and
\* intersections of sorted sets hold the elements that they should. The
\* variables of SortedSets have their types.
SortedSetsSound == part = "sorted sets" =>
    ZsetTypeOK /\ SkiplistSound /\ ReadsExact /\ WritesExact

\* Every key is found, in one table only, at every moment of a rehash. A safe
\* iterator gives every key that stays, once. A SCAN gives every key that
\* stays, though the table grows and is rehashed meanwhile. The variables of
\* Dict have their types.
DictSound == part = "dict" =>
    DictTypeOK /\ EntriesFound /\ IterationExact /\ ScanComplete

\* An intset is strictly sorted, within its limit, and its cells are those of
\* its length and encoding. Set reads and set algebra answer by the members
\* of the keys, in both encodings and with both algorithms of SDIFF. Set
\* writes leave the right members, reply with the number that changed, and
\* announce every change. The variables of Sets have their types.
SetsSound == part = "sets" =>
    SetsTypeOK /\ IntsetSound /\ SetReadsExact /\ SetWritesExact

\* Walking a ziplist gives the elements that insertions and deletions should
\* have left. Walking a ziplist backwards, and by negative index, sees the
\* same list. ziplistLen and ziplistFind are right whether or not the count
\* in the header is saturated. The variables of Ziplist have their types.
ZiplistSound == part = "ziplist" =>
    ZiplistTypeOK /\ ListExact /\ WalksBack /\ LookupsExact

\* A hash holds the fields and values set, through in-place updates and
\* conversion. Hash commands reply with what they did and count as dirty
\* whenever they changed something. The variables of Hashes have their types.
HashesSound == part = "hashes" =>
    HashesTypeOK /\ HashExact /\ HashRepliesExact

\* Each register of a HyperLogLog holds the longest run added to it, through
\* splits, merges and promotion. PFCOUNT never answers with a cardinality
\* cached before the key changed. A replica of a HyperLogLog has the same
\* representation and cached cardinality. The variables of HyperLogLog have
\* their types.
HyperLogLogSound == part = "hyperloglog" =>
    HllTypeOK /\ RegistersExact /\ CountExact /\ ReplicaHolds
=============================================================================

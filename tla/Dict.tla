-------------------------------- MODULE Dict --------------------------------
(***************************************************************************)
(* The hash table of Redis (dict.c): two tables and incremental rehashing, *)
(* safe iterators, the stateless cursor of SCAN, and the resizing that     *)
(* serverCron does (redis.c).  A key is its own hash value; a bucket is    *)
(* the sequence of its chain.                                              *)
(***************************************************************************)
EXTENDS Integers, Sequences, SequencesExt, FiniteSets

CONSTANTS
    DictKeys,       \* a set of naturals
    InitialSize,    \* DICT_HT_INITIAL_SIZE
    MaxSize,        \* bound on the size of a table, and the number of cursor values
    MinFill,        \* REDIS_HT_MINFILL
    EmptyVisits     \* empty buckets a rehash step may visit: 10 in the code

ASSUME DictAssumption ==
    /\ DictKeys \subseteq Nat
    /\ MaxSize \in Nat /\ {InitialSize, MaxSize} \subseteq {2 ^ i : i \in 0 .. MaxSize}
    /\ InitialSize <= MaxSize

VARIABLES
    dict,       \* the tables ht[0] and ht[1], rehashidx and the number of safe iterators
    canResize,  \* dict_can_resize
    iter,       \* a safe iterator
    scan        \* a client's SCAN: its cursor, what it was given, what was there all the time

dvars == <<dict, canResize, iter, scan>>

\* _dictReset and _dictInit.
NoTable == <<>>
Table(size) == [i \in 0 .. size - 1 |-> <<>>]
Size(t) == Cardinality(DOMAIN t)
EntriesOf(t) == UNION {ToSet(t[i]) : i \in DOMAIN t}
Used(t) == Cardinality(EntriesOf(t))
EmptyDict == [ht |-> [j \in 0 .. 1 |-> NoTable], rehashidx |-> -1, iterators |-> 0]

DictIsRehashing(d) == d.rehashidx # -1
KeysOf(d) == EntriesOf(d.ht[0]) \cup EntriesOf(d.ht[1])
Tables(d) == IF DictIsRehashing(d) THEN {0, 1} ELSE {0}

\* _dictNextPower.
NextPower(n) == CHOOSE p \in {InitialSize * 2 ^ i : i \in 0 .. n} :
                    /\ p >= n
                    /\ \A q \in {InitialSize * 2 ^ i : i \in 0 .. n} : q >= n => p <= q

\* dictExpand.
DictExpand(d, size) ==
    IF DictIsRehashing(d) \/ Used(d.ht[0]) > size \/ NextPower(size) = Size(d.ht[0]) THEN d
    ELSE IF d.ht[0] = NoTable THEN [d EXCEPT !.ht[0] = Table(NextPower(size))]
    ELSE [d EXCEPT !.ht[1] = Table(NextPower(size)), !.rehashidx = 0]

\* The move of a bucket: its entries go to the heads of their new chains.
MoveBucket(d) ==
    [d EXCEPT !.ht[1] = FoldLeft(LAMBDA t, k : [t EXCEPT ![k % Size(t)] = <<k>> \o @], @, d.ht[0][d.rehashidx]),
              !.ht[0][d.rehashidx] = <<>>,
              !.rehashidx = @ + 1]

Finished(d) == IF Used(d.ht[0]) = 0 THEN [d EXCEPT !.ht[0] = d.ht[1], !.ht[1] = NoTable, !.rehashidx = -1] ELSE d

\* One round of dictRehash: the next bucket that is not empty, unless too many empty
\* ones come before it.
RehashRound(d) ==
    IF Used(d.ht[0]) = 0 THEN d
    ELSE LET full == {i \in DOMAIN d.ht[0] : i >= d.rehashidx /\ d.ht[0][i] # <<>>}
             next == CHOOSE i \in full : \A j \in full : i <= j
         IN  IF next - d.rehashidx >= EmptyVisits THEN [d EXCEPT !.rehashidx = @ + EmptyVisits]
             ELSE MoveBucket([d EXCEPT !.rehashidx = next])

\* dictRehash.
DictRehash(d, n) ==
    IF ~DictIsRehashing(d) THEN d
    ELSE Finished(FoldLeft(LAMBDA acc, i : RehashRound(acc), d, [i \in 1 .. n |-> i]))

\* Rehashing although an iterator is in use.
StepAlways(d) == DictRehash(d, 1)

\* _dictRehashStep: not while a safe iterator is in use.
RehashStep(d) == IF d.iterators = 0 THEN DictRehash(d, 1) ELSE d

\* _dictExpandIfNeeded.
ExpandIfNeeded(d) ==
    LET used == Used(d.ht[0])
        size == Size(d.ht[0])
    IN  IF DictIsRehashing(d) THEN d
        ELSE IF size = 0 THEN DictExpand(d, InitialSize)
        ELSE IF used >= size /\ (canResize \/ used \div size > 5) THEN DictExpand(d, used * 2)
        ELSE d

\* A new entry goes to the first table.
AddToOldTable(d, k) ==
    LET s == ExpandIfNeeded(RehashStep(d))
    IN  IF k \in KeysOf(s) THEN s ELSE [s EXCEPT !.ht[0][k % Size(s.ht[0])] = <<k>> \o @]

\* dictAddRaw: a new entry goes to the new table while there are two.
DictAdd(d, k) ==
    LET s == ExpandIfNeeded(RehashStep(d))
        j == IF DictIsRehashing(s) THEN 1 ELSE 0
    IN  IF k \in KeysOf(s) THEN s ELSE [s EXCEPT !.ht[j][k % Size(s.ht[j])] = <<k>> \o @]

\* dictFind: the entry is looked for in the bucket of its hash value, in both tables.
DictFind(d, k) ==
    /\ d.ht[0] # NoTable
    /\ \E j \in Tables(d) : k \in ToSet(d.ht[j][k % Size(d.ht[j])])

\* dictGenericDelete.
DictDelete(d, k) ==
    IF d.ht[0] = NoTable THEN d
    ELSE LET s == RehashStep(d)
             found == {j \in Tables(s) : k \in ToSet(s.ht[j][k % Size(s.ht[j])])}
         IN  IF found = {} THEN s
             ELSE LET j == CHOOSE j \in found : \A i \in found : j <= i
                  IN  [s EXCEPT !.ht[j][k % Size(s.ht[j])] = SelectSeq(@, LAMBDA e : e # k)]

\* htNeedsResize and dictResize.
NeedsResize(d) ==
    LET slots == Size(d.ht[0]) + Size(d.ht[1])
        used == Cardinality(KeysOf(d))
    IN  slots > InitialSize /\ used > 0 /\ (used * 100) \div slots < MinFill

DictResize(d) ==
    IF ~canResize \/ DictIsRehashing(d) THEN d
    ELSE DictExpand(d, IF Used(d.ht[0]) < InitialSize THEN InitialSize ELSE Used(d.ht[0]))

-----------------------------------------------------------------------------
(* Iterators.                                                              *)

NoIter == [active |-> FALSE, table |-> 0, index |-> -1, entry |-> -1, next |-> -1, seen |-> <<>>, stable |-> {}]

After(chain, k) ==
    LET i == CHOOSE i \in DOMAIN chain : chain[i] = k
    IN  IF i = Len(chain) THEN -1 ELSE chain[i + 1]

\* dictNext: the rest of a chain, which was remembered, or the next bucket with entries;
\* after the first table comes the second.  Without more entries the iterator is at its end.
DictNext(d, it) ==
    LET Place(j, i) == LET chain == d.ht[j][i] IN [it EXCEPT !.table = j, !.index = i, !.entry = Head(chain),
                                                         !.next = After(chain, Head(chain))]
        Later(j, i) == {n \in DOMAIN d.ht[j] : n > i /\ d.ht[j][n] # <<>>}
        Least(S) == CHOOSE n \in S : \A m \in S : n <= m
    IN  IF it.entry # -1 /\ it.next # -1
        THEN [it EXCEPT !.entry = it.next, !.next = After(d.ht[it.table][it.index], it.next)]
        ELSE IF Later(it.table, it.index) # {} THEN Place(it.table, Least(Later(it.table, it.index)))
        ELSE IF it.table = 0 /\ DictIsRehashing(d) /\ Later(1, -1) # {} THEN Place(1, Least(Later(1, -1)))
        ELSE [it EXCEPT !.entry = -1]

-----------------------------------------------------------------------------
(* SCAN.  A cursor has the bits of MaxSize - 1.                            *)

\* rev.
Rev(v) ==
    LET bits == CHOOSE w \in 0 .. MaxSize : 2 ^ w = MaxSize
        bit(i) == (v \div 2 ^ i) % 2
    IN  FoldLeft(LAMBDA acc, i : 2 * acc + bit(i - 1), 0, [i \in 1 .. bits |-> i])

\* The bits above the mask are set, the cursor is reversed, incremented and reversed again.
Increment(v, size) == Rev((Rev((MaxSize - size) + (v % size)) + 1) % MaxSize)

\* The first bucket only.
ExpansionsFirst(v, m0, m1) == {v % m1}

\* The buckets of the larger table that are expansions of a bucket of the smaller one.
Expansions(v, m0, m1) == {(v + i * m0) % m1 : i \in 0 .. ((m1 - 1 - (v % m1)) \div m0)}

\* dictScan: the new cursor and the keys of the buckets it visits; with two tables, the
\* bucket of the smaller one and its expansions in the larger one.
DictScan(d, v) ==
    IF KeysOf(d) = {} THEN [cursor |-> 0, keys |-> {}]
    ELSE IF ~DictIsRehashing(d)
    THEN LET size == Size(d.ht[0]) IN [cursor |-> Increment(v, size), keys |-> ToSet(d.ht[0][v % size])]
    ELSE LET small == IF Size(d.ht[0]) > Size(d.ht[1]) THEN 1 ELSE 0
             m0 == Size(d.ht[small])
             m1 == Size(d.ht[1 - small])
         IN  [cursor |-> Increment(v, m0),
              keys |-> ToSet(d.ht[small][v % m0]) \cup UNION {ToSet(d.ht[1 - small][i]) : i \in Expansions(v, m0, m1)}]

\* The loop of scanGenericCommand.
ScanCommand(d, v, count) ==
    LET Round(acc, i) ==
            IF acc.done THEN acc
            ELSE LET r == DictScan(d, acc.cursor)
                     keys == acc.keys \cup r.keys
                 IN  [cursor |-> r.cursor, keys |-> keys, done |-> r.cursor = 0 \/ Cardinality(keys) >= count]
    IN  FoldLeft(Round, [cursor |-> v, keys |-> {}, done |-> FALSE], [i \in 1 .. (count * 10) + 1 |-> i])

NoScan == [active |-> FALSE, cursor |-> 0, given |-> {}, stable |-> {}]

\* What was deleted is no longer owed to the scan and the iterator.
Forget(k) ==
    /\ scan' = [scan EXCEPT !.stable = @ \ {k}]
    /\ iter' = [iter EXCEPT !.stable = @ \ {k}]

-----------------------------------------------------------------------------
DictInit ==
    /\ dict = EmptyDict /\ canResize = TRUE /\ iter = NoIter /\ scan = NoScan

Add(k) ==
    /\ k \notin KeysOf(dict)
    /\ dict' = DictAdd(dict, k)
    /\ \A j \in 0 .. 1 : Size(dict'.ht[j]) <= MaxSize
    /\ UNCHANGED <<canResize, iter, scan>>

\* While a safe iterator is in use only the entry it is at is deleted.
Delete(k) ==
    /\ k \in KeysOf(dict)
    /\ iter.active => k = iter.entry
    /\ dict' = DictDelete(dict, k)
    /\ Forget(k)
    /\ UNCHANGED canResize

\* A lookup takes a rehash step.
Find(k) ==
    /\ DictIsRehashing(dict) /\ dict.iterators = 0
    /\ dict' = RehashStep(dict)
    /\ UNCHANGED <<canResize, iter, scan>>

\* databasesCron: resizing, then rehashing for a millisecond.  A client whose SCAN has
\* begun is not followed any further: what dictScan promises fails while a table shrinks.
CronResize ==
    /\ NeedsResize(dict) /\ DictResize(dict) # dict
    /\ dict' = DictResize(dict)
    /\ scan' = NoScan
    /\ UNCHANGED <<canResize, iter>>

\* incrementallyRehash, by hundreds of buckets: more than a table has here.  Cron does not
\* run while a command iterates.
CronRehash ==
    /\ DictIsRehashing(dict) /\ ~iter.active
    /\ dict' = DictRehash(dict, MaxSize)
    /\ UNCHANGED <<canResize, iter, scan>>

\* updateDictResizePolicy: not while a child saves.
ResizePolicy ==
    /\ ~iter.active /\ canResize' = ~canResize
    /\ UNCHANGED <<dict, iter, scan>>

\* dictGetSafeIterator and the first dictNext.  An iterator lives within one command; it is
\* explored apart from the scans.
IterStart ==
    /\ ~iter.active /\ ~scan.active /\ KeysOf(dict) # {}
    /\ dict' = [dict EXCEPT !.iterators = @ + 1]
    /\ iter' = LET it == DictNext(dict, [NoIter EXCEPT !.active = TRUE, !.stable = KeysOf(dict)])
               IN  [it EXCEPT !.seen = <<it.entry>>]
    /\ UNCHANGED <<canResize, scan>>

IterNext ==
    /\ iter.active /\ iter.entry # -1
    /\ iter' = LET it == DictNext(dict, iter) IN IF it.entry = -1 THEN it ELSE [it EXCEPT !.seen = Append(@, it.entry)]
    /\ UNCHANGED <<dict, canResize, scan>>

\* dictReleaseIterator.
IterRelease ==
    /\ iter.active /\ iter.entry = -1
    /\ dict' = [dict EXCEPT !.iterators = @ - 1]
    /\ iter' = NoIter
    /\ UNCHANGED <<canResize, scan>>

\* SCAN 0, and SCAN with the cursor of the reply before.
ScanStart ==
    /\ ~scan.active /\ ~iter.active /\ KeysOf(dict) # {}
    /\ scan' = [NoScan EXCEPT !.active = TRUE, !.stable = KeysOf(dict)]
    /\ UNCHANGED <<dict, canResize, iter>>

ScanNext(count) ==
    /\ scan.active /\ ~iter.active /\ (scan.cursor = 0 => scan.given = {})
    /\ LET r == ScanCommand(dict, scan.cursor, count)
       IN  scan' = IF r.cursor = 0 /\ scan.stable \subseteq scan.given \cup r.keys THEN NoScan
                   ELSE [scan EXCEPT !.cursor = r.cursor, !.given = @ \cup r.keys, !.active = r.cursor # 0]
    /\ UNCHANGED <<dict, canResize, iter>>

DictNextStep ==
    \/ \E k \in DictKeys : Add(k) \/ Delete(k)
    \/ Find(0) \/ CronResize \/ CronRehash \/ ResizePolicy
    \/ IterStart \/ IterNext \/ IterRelease
    \/ ScanStart \/ \E count \in {1, 2} : ScanNext(count)

DictSpec == DictInit /\ [][DictNextStep]_dvars

-----------------------------------------------------------------------------
\* Types; the two tables exist together only while rehashing, and the old one still has
\* buckets to move.
DictTypeOK ==
    /\ dict.iterators \in 0 .. 1 /\ canResize \in BOOLEAN
    /\ dict.rehashidx \in -1 .. MaxSize - 1
    /\ DictIsRehashing(dict) <=> dict.ht[1] # NoTable
    /\ DictIsRehashing(dict) => dict.rehashidx < Size(dict.ht[0])
    /\ KeysOf(dict) \subseteq DictKeys

\* Every key is found where dictFind looks for it and is in one table only, and the
\* buckets below rehashidx are empty, which dictGetRandomKey and dictGetSomeKeys rely on.
EntriesFound ==
    /\ \A k \in KeysOf(dict) : DictFind(dict, k)
    /\ EntriesOf(dict.ht[0]) \cap EntriesOf(dict.ht[1]) = {}
    /\ \A j \in 0 .. 1 : \A i \in DOMAIN dict.ht[j] : IsInjective(dict.ht[j][i])
    /\ DictIsRehashing(dict) => \A i \in 0 .. dict.rehashidx - 1 : dict.ht[0][i] = <<>>

\* A safe iterator gives no key twice that was there all the time, and when it has come to its end it has given every
\* such key, though keys are added and deleted meanwhile.
IterationExact ==
    /\ \A i, j \in DOMAIN iter.seen : iter.seen[i] = iter.seen[j] /\ iter.seen[i] \in iter.stable => i = j
    /\ iter.active /\ iter.entry = -1 => iter.stable \subseteq ToSet(iter.seen)

\* "The function guarantees all elements present in the dictionary get returned between
\* the start and end of the iteration" (dictScan), though the table grows and is rehashed
\* between two calls, as long as it does not begin to shrink.
ScanComplete == ~scan.active => scan.stable \subseteq scan.given
=============================================================================

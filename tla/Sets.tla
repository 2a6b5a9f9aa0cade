-------------------------------- MODULE Sets --------------------------------
(***************************************************************************)
(* Redis sets: the sorted integer array of intset.c, whose cells are       *)
(* widened in place, and the set type and commands of t_set.c built on it  *)
(* and on the hash table (Dict.tla; here just the set of its members).     *)
(* The array is modelled cell by cell: a cell is as wide as an int16, so   *)
(* an integer of encoding 1, 2 or 4 takes that many cells.                 *)
(***************************************************************************)
EXTENDS Integers, FiniteSets, SequencesExt

CONSTANTS SetKeys,           \* the keys of the database
          Ints,              \* the integers that clients store
          Words,             \* names of members that are no integers
          Int16Max, Int32Max,\* the widths of the two narrow encodings
          Mangled,           \* what a read of inconsistent cells yields
          MaxIntsetEntries,  \* set-max-intset-entries
          Unsigned,          \* 2^32, the range of the cast in SRANDMEMBER
          SaddArgs, KeyLists, Counts  \* arguments clients send
VARIABLE sdb

ASSUME SetsAssumption == /\ Mangled \notin Ints /\ Int16Max < Int32Max /\ MaxIntsetEntries \in Nat
                         /\ \A ks \in KeyLists : ks \in Seq(SetKeys) /\ ks # <<>>
-----------------------------------------------------------------------------
\* intset.c

IntsetValueEncoding(v) == IF v < -Int32Max - 1 \/ v > Int32Max THEN 4
                          ELSE IF v < -Int16Max - 1 \/ v > Int16Max THEN 2 ELSE 1

\* An assignment to an int16_t or an int32_t keeps the low bits.
Narrowed(v, enc) ==
    LET m == IF enc = 1 THEN Int16Max ELSE Int32Max
    IN  IF enc = 4 THEN v ELSE ((v + m + 1) % (2 * (m + 1))) - (m + 1)

IntsetGetEncoded(mem, pos, enc) ==
    LET c == mem[(pos * enc) + 1]
    IN  IF \A i \in 0..(enc - 1) : mem[(pos * enc) + i + 1] = [v |-> c.v, enc |-> enc, part |-> i]
        THEN c.v ELSE Mangled

IntsetSetEncoded(mem, pos, enc, value) ==
    [i \in DOMAIN mem |-> IF (i - 1) \div enc = pos
                          THEN [v |-> Narrowed(value, enc), enc |-> enc, part |-> (i - 1) % enc]
                          ELSE mem[i]]

IntsetGet(is, pos) == IntsetGetEncoded(is.mem, pos, is.enc)

IntsetNew == [enc |-> 1, length |-> 0, mem |-> <<>>]

\* zrealloc keeps the cells that fit; the others hold whatever was there.
IntsetResize(is, len) ==
    [is EXCEPT !.mem = [i \in 1..(len * is.enc) |->
        IF i <= Len(is.mem) THEN is.mem[i] ELSE [v |-> Mangled, enc |-> 0, part |-> 0]]]

IntsetSearch(is, value) ==
    LET probe[min \in Nat, max \in Int] ==
            LET mid == (min + max) \div 2
                cur == IntsetGet(is, mid)
            IN  CASE max < min -> [found |-> FALSE, pos |-> min]
                  [] max >= min /\ value > cur -> probe[mid + 1, max]
                  [] max >= min /\ value < cur -> probe[min, mid - 1]
                  [] OTHER -> [found |-> TRUE, pos |-> mid]
    IN  IF is.length = 0 THEN [found |-> FALSE, pos |-> 0]
        ELSE IF value > IntsetGet(is, is.length - 1) THEN [found |-> FALSE, pos |-> is.length]
        ELSE IF value < IntsetGet(is, 0) THEN [found |-> FALSE, pos |-> 0]
        ELSE probe[0, is.length - 1]

\* Mutant: from the first to the last.
UpgradedForwards(is, mem, newenc, prepend) ==
    FoldLeft(LAMBDA cells, pos :
                 IntsetSetEncoded(cells, pos + prepend, newenc, IntsetGetEncoded(cells, pos, is.enc)),
             mem, [i \in 1..is.length |-> i - 1])
\* The old integers are read at the old width and written at the new one in
\* the same cells, from the last to the first.
UpgradedCells(is, mem, newenc, prepend) ==
    FoldLeft(LAMBDA cells, pos :
                 IntsetSetEncoded(cells, pos + prepend, newenc, IntsetGetEncoded(cells, pos, is.enc)),
             mem, [i \in 1..is.length |-> is.length - i])

IntsetUpgradeAndAdd(is, value) ==
    LET newenc == IntsetValueEncoding(value)
        prepend == IF value < 0 THEN 1 ELSE 0
        grown == IntsetResize([is EXCEPT !.enc = newenc], is.length + 1)
        moved == UpgradedCells(is, grown.mem, newenc, prepend)
    IN  [grown EXCEPT !.mem = IntsetSetEncoded(moved, IF prepend = 1 THEN 0 ELSE is.length, newenc, value),
                      !.length = @ + 1]

IntsetMoveTail(is, from, to) ==
    [is EXCEPT !.mem = [i \in DOMAIN @ |->
        IF i > to * is.enc /\ i <= (to + is.length - from) * is.enc THEN @[i + ((from - to) * is.enc)] ELSE @[i]]]

IntsetOpened(is, len, pos) == IF pos < len THEN IntsetMoveTail(is, pos, pos + 1) ELSE is
IntsetAddAt(is, value, s) ==
    IF s.found THEN [is |-> is, success |-> FALSE]
    ELSE [is |-> [IntsetOpened(IntsetResize(is, is.length + 1), is.length, s.pos) EXCEPT
                    !.mem = IntsetSetEncoded(@, s.pos, is.enc, value), !.length = @ + 1],
          success |-> TRUE]
IntsetAdd(is, value) ==
    IF IntsetValueEncoding(value) > is.enc THEN [is |-> IntsetUpgradeAndAdd(is, value), success |-> TRUE]
    ELSE IntsetAddAt(is, value, IntsetSearch(is, value))

IntsetFind(is, value) == IntsetValueEncoding(value) <= is.enc /\ IntsetSearch(is, value).found

IntsetClosed(is, pos) == IF pos < is.length - 1 THEN IntsetMoveTail(is, pos + 1, pos) ELSE is
IntsetRemove(is, value) ==
    IF IntsetFind(is, value)
    THEN [is |-> [IntsetResize(IntsetClosed(is, IntsetSearch(is, value).pos), is.length - 1) EXCEPT !.length = @ - 1],
          success |-> TRUE]
    ELSE [is |-> is, success |-> FALSE]
-----------------------------------------------------------------------------
\* The set type: an object is missing, a value of another type, an intset or
\* a hash table. A member is an integer or a word.

IntMember(n) == <<"int", n>>
IsIntMember(e) == e[1] = "int"
Members == {IntMember(n) : n \in Ints} \cup {<<"word", w>> : w \in Words}

Missing == [kind |-> "none"]
OtherType == [kind |-> "string"]
IsSet(o) == o.kind \in {"intset", "ht"}
IntsetObject(is) == [kind |-> "intset", is |-> is]
SetObject(S) == [kind |-> "ht", elems |-> S]

SetTypeCreate(e) == IF IsIntMember(e) THEN IntsetObject(IntsetNew) ELSE SetObject({})

\* The elements in the order an iterator returns them.
SetTypeIterate(o) == IF o.kind = "ht" THEN SetToSeq(o.elems)
                     ELSE [i \in 1..o.is.length |-> IntMember(IntsetGet(o.is, i - 1))]

SetTypeSize(o) == IF o.kind = "ht" THEN Cardinality(o.elems) ELSE o.is.length

SetTypeConvert(o) == SetObject(Range(SetTypeIterate(o)))

\* Mutant: converted one entry late.
TooManyEntriesLate(is) == is.length > MaxIntsetEntries + 1
TooManyEntries(is) == is.length > MaxIntsetEntries

IntsetAdded(a) ==
    [o |-> IF a.success /\ TooManyEntries(a.is) THEN SetTypeConvert(IntsetObject(a.is)) ELSE IntsetObject(a.is),
     n |-> IF a.success THEN 1 ELSE 0]
SetTypeAdd(o, e) ==
    CASE o.kind = "ht" -> [o |-> SetObject(o.elems \cup {e}), n |-> IF e \in o.elems THEN 0 ELSE 1]
      [] o.kind = "intset" /\ ~IsIntMember(e) -> [o |-> SetObject(SetTypeConvert(o).elems \cup {e}), n |-> 1]
      [] OTHER -> IntsetAdded(IntsetAdd(o.is, e[2]))

IntsetRemoved(r) == [o |-> IntsetObject(r.is), n |-> IF r.success THEN 1 ELSE 0]
SetTypeRemove(o, e) ==
    CASE o.kind = "ht" -> [o |-> SetObject(o.elems \ {e}), n |-> IF e \in o.elems THEN 1 ELSE 0]
      [] o.kind = "intset" /\ IsIntMember(e) -> IntsetRemoved(IntsetRemove(o.is, e[2]))
      [] OTHER -> [o |-> o, n |-> 0]

SetTypeIsMember(o, e) == IF o.kind = "ht" THEN e \in o.elems ELSE IsIntMember(e) /\ IntsetFind(o.is, e[2])

\* What setTypeRandomElement may return of a set that is not empty.
SetTypeRandomElements(o) == Range(SetTypeIterate(o))
-----------------------------------------------------------------------------
\* The commands. The outcome of one that writes: the database, the keys it
\* signals as modified, what it adds to server.dirty and its reply, WrongType
\* for the error.

WrongType == -1
Unchanged(reply) == [db |-> sdb, touched |-> {}, dirty |-> 0, reply |-> reply]

\* SADD and SREM apply the arguments one by one; SREM stops when the set is
\* empty, which deletes the key.
Counted(acc, a) == [o |-> a.o, n |-> acc.n + a.n]
AddCounted(acc, e) == Counted(acc, SetTypeAdd(acc.o, e))
StoredCounted(k, end) ==
    [db |-> [sdb EXCEPT ![k] = IF SetTypeSize(end.o) = 0 THEN Missing ELSE end.o],
     touched |-> IF end.n > 0 THEN {k} ELSE {}, dirty |-> end.n, reply |-> end.n]
OrCreated(k, e) == IF sdb[k] = Missing THEN SetTypeCreate(e) ELSE sdb[k]

Sadd(k, args) ==
    IF sdb[k] = OtherType THEN Unchanged(WrongType)
    ELSE StoredCounted(k, FoldLeft(AddCounted, [o |-> OrCreated(k, args[1]), n |-> 0], args))

Srem(k, args) ==
    CASE sdb[k] = Missing -> Unchanged(0)
      [] sdb[k] = OtherType -> Unchanged(WrongType)
      [] OTHER -> StoredCounted(k, FoldLeft(LAMBDA acc, e : IF SetTypeSize(acc.o) = 0 THEN acc
                                                            ELSE Counted(acc, SetTypeRemove(acc.o, e)),
                                            [o |-> sdb[k], n |-> 0], args))

Left(o) == IF SetTypeSize(o) = 0 THEN Missing ELSE o
Moves(s, d, taken, put) ==
    IF taken.n = 0 THEN Unchanged(0)
    ELSE [db |-> [sdb EXCEPT ![s] = Left(taken.o), ![d] = put.o], touched |-> {s, d}, dirty |-> 1 + put.n, reply |-> 1]
Smove(s, d, e) ==
    CASE sdb[s] = Missing -> Unchanged(0)
      [] sdb[s] # Missing /\ (~IsSet(sdb[s]) \/ sdb[d] = OtherType) -> Unchanged(WrongType)
      [] IsSet(sdb[s]) /\ s = d -> Unchanged(IF SetTypeIsMember(sdb[s], e) THEN 1 ELSE 0)
      [] OTHER -> Moves(s, d, SetTypeRemove(sdb[s], e), SetTypeAdd(OrCreated(d, e), e))

\* SPOP is given the element that was drawn.
Spop(k, e) ==
    [db |-> [sdb EXCEPT ![k] = Left(IF sdb[k].kind = "intset" THEN IntsetObject(IntsetRemove(sdb[k].is, e[2]).is)
                                    ELSE SetTypeRemove(sdb[k], e).o)],
     touched |-> {k}, dirty |-> 1, reply |-> 1]

\* What SRANDMEMBER key l may reply with: a sequence of members.
SrandmemberReplies(o, l) ==
    LET count == IF l >= 0 THEN l % Unsigned ELSE -l
        size == SetTypeSize(o)
    IN  CASE count = 0 -> {<<>>}
          [] l < 0 -> [1..count -> SetTypeRandomElements(o)]
          [] l > 0 /\ count >= size -> {SetTypeIterate(o)}
          [] OTHER -> {SetToSeq(S) : S \in {T \in SUBSET SetTypeRandomElements(o) : Cardinality(T) = count}}

\* A computed set, not yet stored or sent: the object and the number of
\* elements counted on the way, which is the length the reply announces.
NoElements == [o |-> IntsetObject(IntsetNew), n |-> 0]

\* The keys in the order of their sets' sizes, the smallest first.
ByCardinality(ks) == SortSeq(ks, LAMBDA k1, k2 : SetTypeSize(sdb[k1]) < SetTypeSize(sdb[k2]))

InEverySet(e, encoding, sorted) ==
    \A j \in 2..Len(sorted) :
        \/ sorted[j] = sorted[1]
        \/ LET o == sdb[sorted[j]] IN IF encoding = "intset" /\ o.kind = "intset" THEN IntsetFind(o.is, e[2])
                                      ELSE SetTypeIsMember(o, e)

InterFrom(first, sorted) ==
    FoldLeft(LAMBDA acc, e : [o |-> SetTypeAdd(acc.o, e).o, n |-> acc.n + 1], NoElements,
             SelectSeq(SetTypeIterate(first), LAMBDA e : InEverySet(e, first.kind, sorted)))
SinterElements(ks) == LET sorted == ByCardinality(ks) IN InterFrom(sdb[sorted[1]], sorted)

SunionElements(ks) ==
    FoldLeft(AddCounted, NoElements,
             FoldLeft(LAMBDA s, k : IF sdb[k] = Missing THEN s ELSE s \o SetTypeIterate(sdb[k]), <<>>, ks))

\* The cheaper of the two ways to subtract, by the sizes of the sets.
DiffAlgo(ks) ==
    LET present == {j \in DOMAIN ks : sdb[ks[j]] # Missing}
        two == FoldLeft(LAMBDA w, k : w + (IF sdb[k] = Missing THEN 0 ELSE SetTypeSize(sdb[k])), 0, ks)
    IN  IF (Cardinality(present) * SetTypeSize(sdb[ks[1]])) \div 2 <= two THEN 1 ELSE 2

SdiffOne(ks) ==
    FoldLeft(LAMBDA acc, e : [o |-> SetTypeAdd(acc.o, e).o, n |-> acc.n + 1], NoElements,
             SelectSeq(SetTypeIterate(sdb[ks[1]]),
                       LAMBDA e : \A j \in 2..Len(ks) : \/ sdb[ks[j]] = Missing
                                                        \/ ks[j] # ks[1] /\ ~SetTypeIsMember(sdb[ks[j]], e)))

\* Mutant: an element that was not there is counted as removed.
SdiffTwoMiscounted(ks) ==
    FoldLeft(LAMBDA acc, k :
                 IF acc.n = 0 \/ sdb[k] = Missing THEN acc
                 ELSE FoldLeft(LAMBDA a, e : [o |-> SetTypeRemove(a.o, e).o, n |-> a.n - 1],
                               acc, SetTypeIterate(sdb[k])),
             FoldLeft(AddCounted, NoElements, SetTypeIterate(sdb[ks[1]])), Tail(ks))
Uncounted(a, r) == [o |-> r.o, n |-> a.n - r.n]
\* One set after the other is removed from a copy of the first, until
\* nothing is left.
SdiffTwo(ks) ==
    FoldLeft(LAMBDA acc, k :
                 IF acc.n = 0 \/ sdb[k] = Missing THEN acc
                 ELSE FoldLeft(LAMBDA a, e : Uncounted(a, SetTypeRemove(a.o, e)),
                               acc, SetTypeIterate(sdb[k])),
             FoldLeft(AddCounted, NoElements, SetTypeIterate(sdb[ks[1]])), Tail(ks))

SdiffElements(ks) == CASE sdb[ks[1]] = Missing -> NoElements
                       [] sdb[ks[1]] # Missing /\ DiffAlgo(ks) = 1 -> SdiffOne(ks)
                       [] OTHER -> SdiffTwo(ks)

\* The end of SINTERSTORE, SUNIONSTORE and SDIFFSTORE.
StoreSet(dst, o) ==
    [db |-> [sdb EXCEPT ![dst] = IF SetTypeSize(o) > 0 THEN o ELSE Missing],
     touched |-> {dst}, dirty |-> 1, reply |-> SetTypeSize(o)]

\* The keys are looked up in turn: SINTER stops at the first that is missing
\* or of another type, SUNION and SDIFF only at one of another type.
Sinterstore(dst, ks) ==
    LET stops == {j \in DOMAIN ks : ~IsSet(sdb[ks[j]])}
        stop == sdb[ks[CHOOSE j \in stops : \A i \in stops : j <= i]]
    IN  CASE stops = {} -> StoreSet(dst, SinterElements(ks).o)
          [] stops # {} /\ stop = OtherType -> Unchanged(WrongType)
          [] OTHER -> LET there == sdb[dst] # Missing
                      IN  [db |-> [sdb EXCEPT ![dst] = Missing], touched |-> IF there THEN {dst} ELSE {},
                           dirty |-> IF there THEN 1 ELSE 0, reply |-> 0]

SunionDiffstore(dst, ks, result) ==
    IF \E j \in DOMAIN ks : sdb[ks[j]] = OtherType THEN Unchanged(WrongType) ELSE StoreSet(dst, result.o)
Sunionstore(dst, ks) == SunionDiffstore(dst, ks, SunionElements(ks))
Sdiffstore(dst, ks) == SunionDiffstore(dst, ks, SdiffElements(ks))
-----------------------------------------------------------------------------
Becoming(outcome) == sdb' = outcome.db

SetsInit == sdb \in [SetKeys -> {Missing, OtherType}]

SetsNext ==
    \/ \E k \in SetKeys, args \in SaddArgs : Becoming(Sadd(k, args))
    \/ \E k \in SetKeys, args \in SaddArgs : Becoming(Srem(k, args))
    \/ \E s, d \in SetKeys, e \in Members : Becoming(Smove(s, d, e))
    \/ \E k \in SetKeys : /\ IsSet(sdb[k])
                          /\ \E e \in SetTypeRandomElements(sdb[k]) : Becoming(Spop(k, e))
    \/ \E dst \in SetKeys, ks \in KeyLists : Becoming(Sinterstore(dst, ks))
    \/ \E dst \in SetKeys, ks \in KeyLists : Becoming(Sunionstore(dst, ks))
    \/ \E dst \in SetKeys, ks \in KeyLists : Becoming(Sdiffstore(dst, ks))

SetsSpec == SetsInit /\ [][SetsNext]_sdb
-----------------------------------------------------------------------------
\* The set of members a key stands for, whatever its encoding; a missing key
\* is an empty set.
Contents(o) == CASE o.kind = "ht" -> o.elems
                 [] o.kind = "intset" -> Range(SetTypeIterate(o))
                 [] OTHER -> {}
KeyContents(k) == Contents(sdb[k])

\* Type invariant: every key is missing, of another type, or holds a set of
\* the members that clients store; sets in the database are never empty.
SetsTypeOK ==
    \A k \in SetKeys : \/ sdb[k] \in {Missing, OtherType}
                       \/ /\ IsSet(sdb[k]) /\ SetTypeSize(sdb[k]) > 0
                          /\ KeyContents(k) \subseteq Members

\* An intset is strictly sorted, so that the binary search of intsetSearch is
\* right, has exactly the cells its length and encoding say, and is not
\* longer than set-max-intset-entries: whatever sequence of in-place
\* upgrades, insertions and removals led to it.
IntsetSound ==
    \A k \in SetKeys : sdb[k].kind = "intset" =>
        LET is == sdb[k].is IN
        /\ Len(is.mem) = is.length * is.enc
        /\ is.length <= MaxIntsetEntries
        /\ \A i, j \in 0..(is.length - 1) : i < j => IntsetGet(is, i) < IntsetGet(is, j)
        /\ \A i \in 0..(is.length - 1) : IntsetGet(is, i) # Mangled

\* The reads return what set theory says of the members of the keys, for
\* both encodings, each order of the keys, missing and repeated keys and
\* both algorithms of SDIFF; the length that SINTER, SUNION and SDIFF
\* announce is the number of elements they send; SRANDMEMBER with a count
\* that fits the cast returns that many members, without repetition unless
\* the count is negative.
SetReadsExact ==
    /\ \A k \in SetKeys : IsSet(sdb[k]) =>
         /\ SetTypeSize(sdb[k]) = Cardinality(KeyContents(k))
         /\ \A e \in Members : SetTypeIsMember(sdb[k], e) <=> e \in KeyContents(k)
         /\ \A l \in Counts : \A r \in SrandmemberReplies(sdb[k], l) :
              /\ Range(r) \subseteq KeyContents(k)
              /\ l < 0 => Len(r) = -l
              /\ l \in 0..(Unsigned - 1) => /\ IsInjective(r)
                                            /\ Len(r) = IF l < SetTypeSize(sdb[k]) THEN l ELSE SetTypeSize(sdb[k])
    /\ \A ks \in {q \in KeyLists : \A j \in DOMAIN q : sdb[q[j]] # OtherType} :
         LET Others == UNION {KeyContents(ks[j]) : j \in 2..Len(ks)}
             Says(r, S) == Contents(r.o) = S /\ r.n = Cardinality(S) /\ SetTypeSize(r.o) = r.n
         IN  /\ Says(SunionElements(ks), KeyContents(ks[1]) \cup Others)
             /\ Says(SdiffElements(ks), KeyContents(ks[1]) \ Others)
             /\ (\A j \in DOMAIN ks : IsSet(sdb[ks[j]])) =>
                    Says(SinterElements(ks), {e \in KeyContents(ks[1]) : \A j \in DOMAIN ks : e \in KeyContents(ks[j])})

\* SADD, SREM and SMOVE leave the members that set theory says and reply with
\* the number of members that changed, or with an error and no change; every
\* command that changes what a key holds signals that key (WATCH) and makes
\* the dataset dirty, which is what propagates it.
SetWritesExact ==
    LET Announced(r) == /\ \A k \in SetKeys : Contents(r.db[k]) # KeyContents(k) => k \in r.touched /\ r.dirty > 0
                        /\ r.reply = WrongType => r.db = sdb
        Leaves(r, k, S, T) == sdb[k] # OtherType => Contents(r.db[k]) = S /\ r.reply = Cardinality(T)
        Carries(r, s, d, e) == r.reply = 1 => /\ e \in KeyContents(s) /\ e \in Contents(r.db[d])
                                              /\ s # d => Contents(r.db[s]) = KeyContents(s) \ {e}
    IN  /\ \A k \in SetKeys, args \in SaddArgs :
             /\ Announced(Sadd(k, args)) /\ Announced(Srem(k, args))
             /\ Leaves(Sadd(k, args), k, KeyContents(k) \cup Range(args), Range(args) \ KeyContents(k))
             /\ Leaves(Srem(k, args), k, KeyContents(k) \ Range(args), Range(args) \cap KeyContents(k))
        /\ \A s, d \in SetKeys, e \in Members : Announced(Smove(s, d, e)) /\ Carries(Smove(s, d, e), s, d, e)
        /\ \A dst \in SetKeys, ks \in KeyLists :
             Announced(Sinterstore(dst, ks)) /\ Announced(Sunionstore(dst, ks)) /\ Announced(Sdiffstore(dst, ks))
=============================================================================

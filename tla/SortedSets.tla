---------------------------- MODULE SortedSets ----------------------------
(***************************************************************************)
(* The sorted sets of Redis (t_zset.c): the two encodings, a ziplist of    *)
(* element-score pairs and a skiplist with a dict, the commands that       *)
(* change a sorted set, and those that read ranges, counts and ranks.      *)
(*                                                                         *)
(* The skiplist is modelled with its levels, spans and backward pointers,  *)
(* since ranks are sums of spans.  Elements are numbers in the place of    *)
(* strings: their order is that of compareStringObjects.  0 is the header  *)
(* of the list where a node is meant, and NULL where a pointer is.         *)
(***************************************************************************)
EXTENDS Integers, Sequences, SequencesExt, FiniteSets, TLC

CONSTANTS
    MaxElement,     \* elements are 1 .. MaxElement
    LongElements,   \* the elements that are longer than zset_max_ziplist_value
    MaxEntries,     \* zset_max_ziplist_entries
    MaxLevel,       \* ZSKIPLIST_MAXLEVEL
    Scores,         \* the scores that clients send
    MaxScore,       \* bound on the scores that sums make
    OtherSet,       \* a plain set, the second source of ZUNIONSTORE and ZINTERSTORE
    Adds            \* sequences of element-score pairs that ZADD is called with

ASSUME SortedSetsAssumption ==
    /\ MaxElement \in Nat /\ MaxLevel \in Nat \ {0}
    /\ LongElements \cup OtherSet \subseteq 1 .. MaxElement

VARIABLE zobj       \* the object at the key: its encoding, ziplist, dict and skiplist

Elements == 1 .. MaxElement
Nodes == 0 .. MaxElement
Levels == 1 .. MaxLevel
Descending(n) == [i \in 1 .. n |-> n + 1 - i]

Inf == 1000
NaN == 9999

\* Sums and products of doubles, as far as infinities go.
Plus(a, b) ==
    IF {a, b} = {Inf, -Inf} THEN NaN
    ELSE IF {a, b} \cap {Inf, -Inf} # {} THEN CHOOSE s \in {a, b} : s \in {Inf, -Inf}
    ELSE a + b

Times(w, s) ==
    IF s \notin {Inf, -Inf} THEN w * s
    ELSE IF w = 0 THEN NaN
    ELSE IF w > 0 THEN s ELSE -s

-----------------------------------------------------------------------------
(* The skiplist.                                                           *)

\* zslCreate: the header has all the levels.
ZslCreate ==
    [next |-> [x \in Nodes |-> [i \in Levels |-> 0]], span |-> [x \in Nodes |-> [i \in Levels |-> 0]],
     back |-> [x \in Elements |-> 0], height |-> [x \in Elements |-> 0], score |-> [x \in Elements |-> 0],
     level |-> 1, length |-> 0, tail |-> 0]

\* The descent of the list: on each level, from the highest, as long as Goes allows the
\* next node (with the rank it has by the spans so far).  update and rank as in the code.
Path(z, Goes(_, _)) ==
    LET Walk(acc, i) ==
            LET walk[p \in Nodes \X Int] ==
                    LET y == z.next[p[1]][i]
                        r == p[2] + z.span[p[1]][i]
                    IN  IF y # 0 /\ Goes(y, r) THEN walk[<<y, r>>] ELSE p
                p == walk[<<acc.x, acc.r>>]
            IN  [x |-> p[1], r |-> p[2],
                 update |-> [acc.update EXCEPT ![i] = p[1]], rank |-> [acc.rank EXCEPT ![i] = p[2]]]
    IN  FoldLeft(Walk, [x |-> 0, r |-> 0, update |-> [i \in Levels |-> 0], rank |-> [i \in Levels |-> 0]],
                 Descending(z.level))

Less(z, y, s, m) == z.score[y] < s \/ (z.score[y] = s /\ y < m)

\* zslInsert, with the level that zslRandomLevel chose.  The spans above it are kept.
ZslInsertKeepsUpper(z, s, m, h) ==
    LET Goes(y, r) == Less(z, y, s, m)
        p == Path(z, Goes)
        u == p.update
        gap(i) == p.rank[1] - p.rank[i]
        old(i) == IF i > z.level THEN z.length ELSE z.span[u[i]][i]
        follower == z.next[u[1]][1]
    IN  [z EXCEPT
            !.next = [x \in Nodes |-> [i \in Levels |->
                        IF i <= h /\ x = m THEN z.next[u[i]][i] ELSE IF i <= h /\ x = u[i] THEN m ELSE z.next[x][i]]],
            !.span = [x \in Nodes |-> [i \in Levels |->
                        IF i <= h /\ x = m THEN old(i) - gap(i)
                        ELSE IF i <= h /\ x = u[i] THEN gap(i) + 1 ELSE z.span[x][i]]],
            !.back = [x \in Elements |-> IF x = m THEN u[1] ELSE IF x = follower THEN m ELSE z.back[x]],
            !.height[m] = h, !.score[m] = s, !.length = @ + 1,
            !.level = IF h > @ THEN h ELSE @,
            !.tail = IF follower = 0 THEN m ELSE @]

\* zslInsert.
ZslInsert(z, s, m, h) ==
    LET Goes(y, r) == Less(z, y, s, m)
        p == Path(z, Goes)
        u == p.update
        gap(i) == p.rank[1] - p.rank[i]
        old(i) == IF i > z.level THEN z.length ELSE z.span[u[i]][i]
        follower == z.next[u[1]][1]
    IN  [z EXCEPT
            !.next = [x \in Nodes |-> [i \in Levels |->
                        IF i <= h /\ x = m THEN z.next[u[i]][i] ELSE IF i <= h /\ x = u[i] THEN m ELSE z.next[x][i]]],
            !.span = [x \in Nodes |-> [i \in Levels |->
                        IF i <= h /\ x = m THEN old(i) - gap(i)
                        ELSE IF i <= h /\ x = u[i] THEN gap(i) + 1
                        ELSE IF i > h /\ i <= z.level /\ x = u[i] THEN z.span[x][i] + 1 ELSE z.span[x][i]]],
            !.back = [x \in Elements |-> IF x = m THEN u[1] ELSE IF x = follower THEN m ELSE z.back[x]],
            !.height[m] = h, !.score[m] = s, !.length = @ + 1,
            !.level = IF h > @ THEN h ELSE @,
            !.tail = IF follower = 0 THEN m ELSE @]

\* zslDeleteNode: x is the node after update[1].
ZslDeleteNode(z, x, u) ==
    LET next == [y \in Nodes |-> [i \in Levels |->
                    IF y = x THEN 0 ELSE IF i <= z.level /\ y = u[i] /\ z.next[y][i] = x THEN z.next[x][i] ELSE z.next[y][i]]]
        follower == z.next[x][1]
        used == {i \in Levels : i <= z.level /\ next[0][i] # 0}
    IN  [z EXCEPT
            !.next = next,
            !.span = [y \in Nodes |-> [i \in Levels |->
                        IF y = x THEN 0
                        ELSE IF i > z.level \/ y # u[i] THEN z.span[y][i]
                        ELSE IF z.next[y][i] = x THEN z.span[y][i] + z.span[x][i] - 1 ELSE z.span[y][i] - 1]],
            !.back = [y \in Elements |-> IF y = x THEN 0 ELSE IF y = follower THEN z.back[x] ELSE z.back[y]],
            !.height[x] = 0, !.score[x] = 0, !.length = @ - 1,
            !.level = CHOOSE n \in used \cup {1} : \A i \in used : i <= n,
            !.tail = IF follower = 0 THEN z.back[x] ELSE @]

\* zslDelete.
ZslDelete(z, s, m) ==
    LET Goes(y, r) == Less(z, y, s, m)
    IN  ZslDeleteNode(z, m, Path(z, Goes).update)

\* The nodes from x on, along the forward or the backward pointers.
From(z, x, reverse) ==
    LET seq[y \in Nodes] == IF y = 0 THEN <<>> ELSE <<y>> \o seq[IF reverse THEN z.back[y] ELSE z.next[y][1]]
    IN  seq[x]

\* The longest prefix of s all of whose members pass the test.
TakeWhile(s, Test(_)) ==
    LET bad == {i \in DOMAIN s : ~Test(s[i])}
    IN  IF bad = {} THEN s ELSE SubSeq(s, 1, (CHOOSE i \in bad : \A j \in bad : i <= j) - 1)

-----------------------------------------------------------------------------
(* Ranges: of scores, or of elements (BYLEX).                              *)

GteMin(v, r) == IF r.minex THEN v > r.min ELSE v >= r.min
LteMax(v, r) == IF r.maxex THEN v < r.max ELSE v <= r.max

ValueOf(z, by, y) == IF by = "lex" THEN y ELSE z.score[y]

\* zslIsInRange and zslIsInLexRange.
ZslIsInRange(z, by, r) ==
    /\ ~(r.min > r.max \/ (r.min = r.max /\ (r.minex \/ r.maxex)))
    /\ z.tail # 0 /\ GteMin(ValueOf(z, by, z.tail), r)
    /\ LteMax(ValueOf(z, by, z.next[0][1]), r)

\* zslFirstInRange and zslFirstInLexRange.
ZslFirstInRange(z, by, r) ==
    LET Goes(y, t) == ~GteMin(ValueOf(z, by, y), r)
        x == z.next[Path(z, Goes).x][1]
    IN  IF ZslIsInRange(z, by, r) /\ LteMax(ValueOf(z, by, x), r) THEN x ELSE 0

\* zslLastInRange and zslLastInLexRange.
ZslLastInRange(z, by, r) ==
    LET Goes(y, t) == LteMax(ValueOf(z, by, y), r)
        x == Path(z, Goes).x
    IN  IF ZslIsInRange(z, by, r) /\ GteMin(ValueOf(z, by, x), r) THEN x ELSE 0

\* zslGetRank; 0 when the element is not there.
ZslGetRank(z, s, m) ==
    LET Goes(y, r) == Less(z, y, s, m) \/ (y = m /\ z.score[y] = s)
        p == Path(z, Goes)
    IN  IF p.x = m THEN p.r ELSE 0

\* zslGetElementByRank.
ZslGetElementByRank(z, n) ==
    LET Goes(y, r) == r <= n
        p == Path(z, Goes)
    IN  IF p.r = n THEN p.x ELSE 0

\* zzlIsInRange, zzlFirstInRange, zzlLastInRange and their BYLEX variants: an index or 0.
PairValue(by, e) == IF by = "lex" THEN e[1] ELSE e[2]

ZzlIsInRange(zl, by, r) ==
    /\ ~(r.min > r.max \/ (r.min = r.max /\ (r.minex \/ r.maxex)))
    /\ zl # <<>> /\ GteMin(PairValue(by, zl[Len(zl)]), r) /\ LteMax(PairValue(by, zl[1]), r)

ZzlFirstInRange(zl, by, r) ==
    LET above == {i \in DOMAIN zl : GteMin(PairValue(by, zl[i]), r)}
        i == CHOOSE i \in above : \A j \in above : i <= j
    IN  IF ZzlIsInRange(zl, by, r) /\ LteMax(PairValue(by, zl[i]), r) THEN i ELSE 0

ZzlLastInRange(zl, by, r) ==
    LET below == {i \in DOMAIN zl : LteMax(PairValue(by, zl[i]), r)}
        i == CHOOSE i \in below : \A j \in below : j <= i
    IN  IF ZzlIsInRange(zl, by, r) /\ GteMin(PairValue(by, zl[i]), r) THEN i ELSE 0

-----------------------------------------------------------------------------
(* The object.                                                             *)

NoObject == [enc |-> "none", zl |-> <<>>, dict |-> <<>>, zsl |-> ZslCreate]

\* zzlInsert: before the first pair that is greater.
ZzlInsert(zl, s, m) ==
    LET greater == {i \in DOMAIN zl : zl[i][2] > s \/ (zl[i][2] = s /\ zl[i][1] > m)}
        at == IF greater = {} THEN Len(zl) + 1 ELSE CHOOSE i \in greater : \A j \in greater : i <= j
    IN  SubSeq(zl, 1, at - 1) \o <<<<m, s>>>> \o SubSeq(zl, at, Len(zl))

ZzlDelete(zl, m) == SelectSeq(zl, LAMBDA e : e[1] # m)

Has(o, m) == IF o.enc = "skiplist" THEN m \in DOMAIN o.dict ELSE \E i \in DOMAIN o.zl : o.zl[i][1] = m

\* zzlFind and dictFind.
ScoreOf(o, m) ==
    IF o.enc = "skiplist" THEN o.dict[m] ELSE o.zl[CHOOSE i \in DOMAIN o.zl : o.zl[i][1] = m][2]

ZsetLength(o) == IF o.enc = "skiplist" THEN o.zsl.length ELSE Len(o.zl)

\* An element goes into the skiplist and the dict.
AddToSkiplist(o, s, m, h) == [o EXCEPT !.zsl = ZslInsert(@, s, m, h), !.dict = (m :> s) @@ @]

\* zsetConvert in both directions; hs has the random levels.
ZsetConvert(o, enc, hs) ==
    IF enc = "skiplist"
    THEN FoldLeft(LAMBDA acc, e : AddToSkiplist(acc, e[2], e[1], hs[e[1]]), [NoObject EXCEPT !.enc = "skiplist"], o.zl)
    ELSE [NoObject EXCEPT !.enc = "ziplist",
                          !.zl = [i \in 1 .. o.zsl.length |-> LET x == From(o.zsl, o.zsl.next[0][1], FALSE)[i]
                                                             IN  <<x, o.zsl.score[x]>>]]

\* An element that is there gets a new score: it is deleted and inserted again.
Rescore(o, m, s, h) ==
    IF o.enc = "ziplist" THEN [o EXCEPT !.zl = ZzlInsert(ZzlDelete(@, m), s, m)]
    ELSE [o EXCEPT !.zsl = ZslInsert(ZslDelete(@, o.dict[m], m), s, m, h), !.dict[m] = s]

\* A new element: a ziplist that becomes too long, or gets a long element, is converted.
AddNew(o, m, s, hs) ==
    IF o.enc = "ziplist"
    THEN LET zl == ZzlInsert(o.zl, s, m)
             grown == [o EXCEPT !.zl = zl]
         IN  IF Len(zl) > MaxEntries \/ m \in LongElements THEN ZsetConvert(grown, "skiplist", hs) ELSE grown
    ELSE AddToSkiplist(o, s, m, hs[m])

\* createZsetObject or createZsetZiplistObject for the first element.
Created(m) == [NoObject EXCEPT !.enc = IF MaxEntries = 0 \/ m \in LongElements THEN "skiplist" ELSE "ziplist"]

\* An object without elements is removed from the database.
Kept(o) == IF ZsetLength(o) = 0 THEN NoObject ELSE o

-----------------------------------------------------------------------------
(* Commands that change a sorted set.                                      *)

\* One pair of ZADD or ZINCRBY; a sum that is not a number is refused.
ZaddPair(o, m, score, flags, hs) ==
    IF Has(o, m)
    THEN LET s == IF "incr" \in flags THEN Plus(score, ScoreOf(o, m)) ELSE score
         IN  IF "nx" \in flags \/ s = NaN \/ s = ScoreOf(o, m) THEN o ELSE Rescore(o, m, s, hs[m])
    ELSE IF "xx" \in flags THEN o ELSE AddNew(o, m, score, hs)

ZaddGeneric(o, pairs, flags, hs) ==
    IF o.enc = "none" /\ "xx" \in flags THEN o
    ELSE FoldLeft(LAMBDA acc, e : ZaddPair(acc, e[1], e[2], flags, hs),
                  IF o.enc = "none" THEN Created(pairs[1][1]) ELSE o, pairs)

\* ZREM of one element.
ZremOne(o, m) ==
    IF ~Has(o, m) THEN o
    ELSE IF o.enc = "ziplist" THEN Kept([o EXCEPT !.zl = ZzlDelete(@, m)])
    ELSE Kept([o EXCEPT !.zsl = ZslDelete(@, o.dict[m], m), !.dict = [e \in DOMAIN @ \ {m} |-> @[e]]])

\* Nodes with the ranks they may have.
Ranked(o) == (DOMAIN o.dict) \X (1 .. o.zsl.length)

\* zslDeleteRangeByScore, ByLex and ByRank, with the nodes that the descent passes and the
\* ones in the range: the nodes after update[1], one by one.
ZslDeleteRange(o, before, within) ==
    LET p == Path(o.zsl, LAMBDA y, t : <<y, t>> \in before)
        rest == From(o.zsl, o.zsl.next[p.x][1], FALSE)
        doomed == TakeWhile([i \in DOMAIN rest |-> <<rest[i], p.r + i>>], LAMBDA e : e \in within)
        gone == {doomed[i][1] : i \in DOMAIN doomed}
    IN  [o EXCEPT !.zsl = FoldLeft(LAMBDA z, e : ZslDeleteNode(z, e[1], p.update), @, doomed),
                  !.dict = [e \in DOMAIN @ \ gone |-> @[e]]]

\* The indexes of ZRANGE and ZREMRANGEBYRANK; <<0, -1>> for an empty range.
Sanitize(start, end, llen) ==
    LET s == IF start < 0 THEN (IF llen + start < 0 THEN 0 ELSE llen + start) ELSE start
        e == IF end < 0 THEN llen + end ELSE end
    IN  IF s > e \/ s >= llen THEN <<0, -1>> ELSE <<s, IF e >= llen THEN llen - 1 ELSE e>>

ZremrangeByRankShort(o, start, end) ==
    LET r == Sanitize(start, end, ZsetLength(o))
    IN  IF r[2] = -1 THEN o
        ELSE IF o.enc = "ziplist"
        THEN Kept([o EXCEPT !.zl = SubSeq(@, 1, r[1]) \o SubSeq(@, r[2] + 2, Len(@))])
        ELSE Kept(ZslDeleteRange(o, {e \in Ranked(o) : e[2] < r[1] + 1}, {e \in Ranked(o) : e[2] < r[2] + 1}))

\* ZREMRANGEBYRANK.
ZremrangeByRank(o, start, end) ==
    LET r == Sanitize(start, end, ZsetLength(o))
    IN  IF r[2] = -1 THEN o
        ELSE IF o.enc = "ziplist"
        THEN Kept([o EXCEPT !.zl = SubSeq(@, 1, r[1]) \o SubSeq(@, r[2] + 2, Len(@))])
        ELSE Kept(ZslDeleteRange(o, {e \in Ranked(o) : e[2] < r[1] + 1}, {e \in Ranked(o) : e[2] <= r[2] + 1}))

\* ZREMRANGEBYSCORE and ZREMRANGEBYLEX.
ZremrangeBy(o, by, r) ==
    IF o.enc = "ziplist"
    THEN LET first == ZzlFirstInRange(o.zl, by, r)
             tail == SubSeq(o.zl, first, Len(o.zl))
             doomed == TakeWhile(tail, LAMBDA e : LteMax(PairValue(by, e), r))
         IN  IF first = 0 THEN o
             ELSE Kept([o EXCEPT !.zl = SubSeq(@, 1, first - 1) \o SubSeq(tail, Len(doomed) + 1, Len(tail))])
    ELSE Kept(ZslDeleteRange(o, {e \in Ranked(o) : ~GteMin(ValueOf(o.zsl, by, e[1]), r)},
                                {e \in Ranked(o) : LteMax(ValueOf(o.zsl, by, e[1]), r)}))

-----------------------------------------------------------------------------
(* ZUNIONSTORE and ZINTERSTORE.  A source is the sequence of its pairs     *)
(* with a weight; the elements of a plain set have the score 1.            *)

\* zuiInitIterator and zuiNext.
PairsOf(o) ==
    IF o.enc = "skiplist"
    THEN LET s == From(o.zsl, o.zsl.next[0][1], FALSE) IN [i \in DOMAIN s |-> <<s[i], o.zsl.score[s[i]]>>]
    ELSE o.zl
SetPairs == LET s == SetToSeq(OtherSet) IN [i \in DOMAIN s |-> <<s[i], 1>>]

\* zunionInterAggregate: a sum that is not a number is 0; NaN compares false.
Aggregate(a, b, how) ==
    CASE how = "sum" -> IF b = NaN \/ Plus(a, b) = NaN THEN 0 ELSE Plus(a, b)
      [] how = "min" -> IF b # NaN /\ b < a THEN b ELSE a
      [] how = "max" -> IF b # NaN /\ b > a THEN b ELSE a

Initial(w, s) == IF Times(w, s) = NaN THEN 0 ELSE Times(w, s)

\* zuiFind.
FindIn(pairs, m) == {pairs[i][2] : i \in {j \in DOMAIN pairs : pairs[j][1] = m}}

\* The smallest source first.
ZsetsByCardinality(src) == SortSeq(src, LAMBDA a, b : Len(a.pairs) < Len(b.pairs))

InterScores(src, how) ==
    LET s == ZsetsByCardinality(src)
        common == SelectSeq(s[1].pairs, LAMBDA e : \A j \in 2 .. Len(s) : FindIn(s[j].pairs, e[1]) # {})
        Value(j, m) == Times(s[j].weight, CHOOSE v \in FindIn(s[j].pairs, m) : TRUE)
    IN  [i \in DOMAIN common |->
            <<common[i][1],
              FoldLeft(LAMBDA acc, j : Aggregate(acc, Value(j, common[i][1]), how),
                       Initial(s[1].weight, common[i][2]), [j \in 1 .. Len(s) - 1 |-> j + 1])>>]

UnionScores(src, how) ==
    LET s == ZsetsByCardinality(src)
        all == FlattenSeq([j \in DOMAIN s |->
                    [i \in DOMAIN s[j].pairs |-> <<s[j].pairs[i][1], Initial(s[j].weight, s[j].pairs[i][2])>>]])
        Add(acc, e) == IF FindIn(acc, e[1]) = {} THEN Append(acc, e)
                       ELSE [i \in DOMAIN acc |-> IF acc[i][1] = e[1] THEN <<e[1], Aggregate(acc[i][2], e[2], how)>>
                                                  ELSE acc[i]]
    IN  FoldLeft(Add, <<>>, all)

\* The result replaces the object at the key; it is a ziplist when it is within the limits.
Stored(pairs, hs) ==
    LET o == FoldLeft(LAMBDA acc, e : AddToSkiplist(acc, e[2], e[1], hs[e[1]]), [NoObject EXCEPT !.enc = "skiplist"], pairs)
        short == \A i \in DOMAIN pairs : pairs[i][1] \notin LongElements
    IN  IF Len(pairs) = 0 THEN NoObject
        ELSE IF Len(pairs) <= MaxEntries /\ short THEN ZsetConvert(o, "ziplist", hs) ELSE o

-----------------------------------------------------------------------------
(* Commands that read.                                                     *)

\* ZRANGE and ZREVRANGE.
Zrange(o, start, end, reverse) ==
    LET llen == ZsetLength(o)
        r == Sanitize(start, end, llen)
        n == r[2] - r[1] + 1
        z == o.zsl
        ln == IF reverse THEN (IF r[1] = 0 THEN z.tail ELSE ZslGetElementByRank(z, llen - r[1]))
              ELSE IF r[1] = 0 THEN z.next[0][1] ELSE ZslGetElementByRank(z, r[1] + 1)
    IN  IF r[2] = -1 THEN <<>>
        ELSE IF o.enc = "ziplist"
        THEN [i \in 1 .. n |-> (IF reverse THEN o.zl[llen - r[1] - i + 1] ELSE o.zl[r[1] + i])[1]]
        ELSE SubSeq(From(z, ln, reverse), 1, n)

\* The loops with LIMIT: the offset is skipped without a look at the range, a negative
\* one skips everything and a negative limit is none.
Limited(s, offset, limit, In(_)) ==
    LET rest == IF offset < 0 THEN <<>> ELSE SubSeq(s, offset + 1, Len(s))
        some == IF limit < 0 \/ limit > Len(rest) THEN rest ELSE SubSeq(rest, 1, limit)
    IN  TakeWhile(some, In)

\* ZRANGEBYSCORE and ZREVRANGEBYSCORE; by = "lex" gives the other two.
ZrangeBy(o, by, r, reverse, offset, limit) ==
    LET In(v) == IF reverse THEN GteMin(v, r) ELSE LteMax(v, r)
    IN  IF o.enc = "ziplist"
        THEN LET i == IF reverse THEN ZzlLastInRange(o.zl, by, r) ELSE ZzlFirstInRange(o.zl, by, r)
                 s == IF reverse THEN Reverse(SubSeq(o.zl, 1, i)) ELSE SubSeq(o.zl, i, Len(o.zl))
                 got == Limited(s, offset, limit, LAMBDA e : In(PairValue(by, e)))
             IN  IF i = 0 THEN <<>> ELSE [j \in DOMAIN got |-> got[j][1]]
        ELSE LET ln == IF reverse THEN ZslLastInRange(o.zsl, by, r) ELSE ZslFirstInRange(o.zsl, by, r)
             IN  Limited(From(o.zsl, ln, reverse), offset, limit, LAMBDA y : In(ValueOf(o.zsl, by, y)))

\* ZRANGEBYLEX and ZREVRANGEBYLEX.
ZrangeByLex(o, r, reverse, offset, limit) == ZrangeBy(o, "lex", r, reverse, offset, limit)

ZcountOpen(o, by, r) ==
    LET z == o.zsl
        first == ZslFirstInRange(z, by, r)
        last == ZslLastInRange(z, by, r)
    IN  IF o.enc = "ziplist" \/ first = 0 THEN 0
        ELSE (z.length - ZslGetRank(z, z.score[first], first)) - (z.length - ZslGetRank(z, z.score[last], last))

\* ZCOUNT: a skiplist answers from the ranks of the first and the last node.
Zcount(o, by, r) ==
    IF o.enc = "ziplist"
    THEN LET i == ZzlFirstInRange(o.zl, by, r)
         IN  IF i = 0 THEN 0
             ELSE Len(TakeWhile(SubSeq(o.zl, i, Len(o.zl)), LAMBDA e : LteMax(PairValue(by, e), r)))
    ELSE LET z == o.zsl
             first == ZslFirstInRange(z, by, r)
             last == ZslLastInRange(z, by, r)
             upto == IF last = 0 THEN z.length ELSE ZslGetRank(z, z.score[last], last)
         IN  IF first = 0 THEN 0
             ELSE (z.length - (ZslGetRank(z, z.score[first], first) - 1)) - (z.length - upto)

\* ZLEXCOUNT.
Zlexcount(o, r) == Zcount(o, "lex", r)

\* ZRANK.
Zrank(o, m) ==
    IF o.enc = "ziplist" THEN (CHOOSE i \in DOMAIN o.zl : o.zl[i][1] = m) - 1
    ELSE ZslGetRank(o.zsl, o.dict[m], m) - 1

-----------------------------------------------------------------------------
CONSTANTS Ranges,   \* ranges that clients ask for
          Weights   \* pairs of weights for the two sources

Finite(o) == \A m \in Elements : Has(o, m) => ScoreOf(o, m) \in {Inf, -Inf} \cup (-MaxScore .. MaxScore)

ZsetInit == zobj = NoObject

\* Every insertion draws a level.
Zadd == \E pairs \in Adds, flags \in {{}, {"nx"}, {"xx"}}, hs \in [Elements -> Levels] :
            zobj' = ZaddGeneric(zobj, pairs, flags, hs)

Zincrby == \E m \in Elements, s \in {1, -Inf}, hs \in [Elements -> Levels] :
            /\ zobj' = ZaddGeneric(zobj, <<<<m, s>>>>, {"incr"}, hs)
            /\ Finite(zobj')

Zrem == zobj.enc # "none" /\ \E m \in Elements : zobj' = ZremOne(zobj, m)

Zremrange ==
    /\ zobj.enc # "none"
    /\ \/ \E start, end \in {-2, 0, 1} : zobj' = ZremrangeByRank(zobj, start, end)
       \/ \E by \in {"score", "lex"}, r \in Ranges : zobj' = ZremrangeBy(zobj, by, r)

Zstore ==
    \E w \in Weights, how \in {"sum", "min", "max"}, hs \in [Elements -> Levels], second \in {SetPairs, PairsOf(zobj)} :
        LET src == <<[pairs |-> PairsOf(zobj), weight |-> w[1]], [pairs |-> second, weight |-> w[2]]>>
        IN  /\ \/ zobj' = Stored(UnionScores(src, how), hs)
               \/ zobj' = Stored(InterScores(src, how), hs)
            /\ Finite(zobj')

ZsetNext == Zadd \/ Zincrby \/ Zrem \/ Zremrange \/ Zstore

ZsetSpec == ZsetInit /\ [][ZsetNext]_zobj

-----------------------------------------------------------------------------
\* Types; no score is NaN (ZINCRBY and zunionInterAggregate see to that), and no key
\* holds a sorted set without elements.
ZsetTypeOK ==
    /\ zobj.enc \in {"none", "ziplist", "skiplist"}
    /\ \A m \in Elements : Has(zobj, m) => ScoreOf(zobj, m) # NaN
    /\ zobj.enc # "none" => ZsetLength(zobj) > 0
    /\ zobj.enc = "ziplist" => Len(zobj.zl) <= MaxEntries /\ \A i \in DOMAIN zobj.zl : zobj.zl[i][1] \notin LongElements

\* The skiplist: its bottom level has the elements of the dict in order, the backward
\* pointers run the other way, each level links the nodes that reach it, and every span
\* is the distance to the next node of its level or to the end of the list.
SkiplistSound ==
    LET z == zobj.zsl
        order == From(z, z.next[0][1], FALSE)
        at(x) == IF x = 0 THEN 0 ELSE CHOOSE i \in DOMAIN order : order[i] = x
    IN  zobj.enc = "skiplist" =>
        /\ ToSet(order) = DOMAIN zobj.dict /\ Len(order) = z.length
        /\ \A i \in 1 .. z.length - 1 : Less(z, order[i], z.score[order[i + 1]], order[i + 1])
        /\ \A m \in DOMAIN zobj.dict : zobj.dict[m] = z.score[m]
        /\ From(z, z.tail, TRUE) = Reverse(order)
        /\ \A i \in 1 .. z.level : \A x \in {0} \cup {m \in ToSet(order) : z.height[m] >= i} :
              LET later == {m \in ToSet(order) : at(m) > at(x) /\ z.height[m] >= i}
                  y == z.next[x][i]
              IN  IF later = {} THEN y = 0 /\ z.span[x][i] = z.length - at(x)
                  ELSE y \in later /\ (\A m \in later : at(y) <= at(m)) /\ z.span[x][i] = at(y) - at(x)
        /\ \A m \in ToSet(order) : z.height[m] <= z.level

\* The reference for the reads: the pairs sorted by score, then by element.
Sorted ==
    SortSeq(SetToSeq({m \in Elements : Has(zobj, m)}),
            LAMBDA a, b : ScoreOf(zobj, a) < ScoreOf(zobj, b) \/ (ScoreOf(zobj, a) = ScoreOf(zobj, b) /\ a < b))
InRange(by, r, m) == LET v == IF by = "lex" THEN m ELSE ScoreOf(zobj, m) IN GteMin(v, r) /\ LteMax(v, r)

\* ZRANK, ZRANGE, ZRANGEBYSCORE, ZRANGEBYLEX (when the scores are equal, as it is
\* documented), their reverse forms with LIMIT, and ZCOUNT answer by the reference,
\* in either encoding.
ReadsExact ==
    zobj.enc # "none" =>
    LET equal == \A a, b \in ToSet(Sorted) : ScoreOf(zobj, a) = ScoreOf(zobj, b)
    IN  /\ \A i \in DOMAIN Sorted : Zrank(zobj, Sorted[i]) = i - 1
        /\ \A start, end \in {-2, -1, 0, 1, 2}, reverse \in BOOLEAN :
              LET s == IF reverse THEN Reverse(Sorted) ELSE Sorted
                  abs(i) == IF i < 0 THEN Len(s) + i ELSE i
                  wanted == {m \in ToSet(s) : \E i \in DOMAIN s : s[i] = m /\ i - 1 \in abs(start) .. abs(end)}
              IN  Zrange(zobj, start, end, reverse) = SelectSeq(s, LAMBDA m : m \in wanted)
        /\ \A by \in IF equal THEN {"score", "lex"} ELSE {"score"}, r \in Ranges :
              LET s == SelectSeq(Sorted, LAMBDA m : InRange(by, r, m))
              IN  /\ (IF by = "lex" THEN Zlexcount(zobj, r) ELSE Zcount(zobj, by, r)) = Len(s)
                  /\ \A reverse \in BOOLEAN, limit \in {<<0, -1>>, <<1, 1>>, <<0, 1>>} :
                        LET t == IF reverse THEN Reverse(s) ELSE s
                            last == limit[1] + limit[2]
                            got == IF by = "lex" THEN ZrangeByLex(zobj, r, reverse, limit[1], limit[2])
                                   ELSE ZrangeBy(zobj, by, r, reverse, limit[1], limit[2])
                        IN  got = SubSeq(t, limit[1] + 1, IF limit[2] < 0 \/ last > Len(t) THEN Len(t) ELSE last)

\* What ZREMRANGEBY* leaves is what its range does not cover, and an intersection holds
\* the elements both sources have (zslDeleteRangeByScore, zunionInterGenericCommand).
WritesExact ==
    zobj.enc # "none" =>
    LET Left(o) == {m \in Elements : o.enc # "none" /\ Has(o, m)}
        src == <<[pairs |-> PairsOf(zobj), weight |-> 1], [pairs |-> SetPairs, weight |-> 1]>>
        names(pairs) == {pairs[i][1] : i \in DOMAIN pairs}
    IN  /\ \A r \in Ranges : Left(ZremrangeBy(zobj, "score", r)) = {m \in Left(zobj) : ~InRange("score", r, m)}
        /\ \A start, end \in {-2, -1, 0, 1} :
              Left(ZremrangeByRank(zobj, start, end)) = Left(zobj) \ ToSet(Zrange(zobj, start, end, FALSE))
        /\ names(InterScores(src, "sum")) = Left(zobj) \cap OtherSet
        /\ names(UnionScores(src, "sum")) = Left(zobj) \cup OtherSet
=============================================================================

------------------------------ MODULE Ziplist ------------------------------
(***************************************************************************)
(* A ziplist under any sequence of insertions and deletions.               *)
(***************************************************************************)
EXTENDS ZiplistBytes

CONSTANTS Elems,             \* what clients store: <<"str", bytes>> or <<"int", n>>
          MaxLen,            \* longest list explored
          ShortInserts       \* whether insertions that shrink the list are explored
VARIABLES zl, want           \* the list; ghost: the elements it stands for
zvars == <<zl, want>>

ASSUME ZiplistBounds == MaxLen \in Nat /\ ShortInserts \in BOOLEAN
-----------------------------------------------------------------------------
ZiplistInit == zl = ZiplistNew /\ want = <<>>

\* The insertion before entry i of want, or at the end.
Insert(i, e) ==
    LET p == IF i > Len(want) THEN Len(zl.mem) - 1 ELSE ZiplistIndex(zl, i - 1)
        s == InsertSizes(zl, p, e)
    IN  /\ Len(want) < MaxLen
        /\ ShortInserts \/ s.req + s.nextdiff >= 0
        /\ zl' = ZiplistInsert(zl, p, e)
        /\ want' = InsertAt(want, i, e)

\* ziplistDeleteRange; ziplistDelete is the case num = 1.
DeleteRange(i, num) ==
    /\ zl' = ZiplistDelete(zl, ZiplistIndex(zl, i - 1), num)
    /\ want' = SubSeq(want, 1, i - 1) \o SubSeq(want, i + num, Len(want))

CountEntries == zl' = ZiplistCounted(zl) /\ UNCHANGED want

ZiplistNextStep == \/ \E i \in 1..(Len(want) + 1), e \in Elems : Insert(i, e)
                   \/ \E i \in DOMAIN want, num \in 1..2 : DeleteRange(i, num)
                   \/ CountEntries
ZiplistSpec == ZiplistInit /\ [][ZiplistNextStep]_zvars
-----------------------------------------------------------------------------
\* Type invariant: bytes, the last one ZIP_END, an offset of the tail in them.
ZiplistTypeOK == /\ zl.mem \in Seq(0..255) /\ Last(zl.mem) = ZipEnd
                 /\ zl.tail \in 0..(Len(zl.mem) - 1) /\ zl.length \in 0..LenMax

\* Walking the entries from the head finds exactly the elements that the
\* insertions and deletions should have left, whatever lengths they have
\* and however often the length fields have been widened; the walk ends at
\* the last byte.
ListExact ==
    LET at == Offsets(zl.mem, 0) IN
    /\ Len(at) = Len(want)
    /\ \A i \in DOMAIN want : ZiplistGet(zl, at[i]) = want[i]
    /\ at # <<>> => Last(at) + ZipEntry(zl.mem, Last(at)).rawlen = Len(zl.mem) - 1

\* ZIPLIST_TAIL_OFFSET is the last entry and each entry leads back to the one
\* before it: ziplistPrev and negative indexes see the list that ziplistNext
\* and positive ones see.
WalksBack ==
    LET at == Offsets(zl.mem, 0)
        n == Len(at)
    IN  /\ ZiplistPrev(zl, Len(zl.mem) - 1) = IF n = 0 THEN NotFound ELSE at[n]
        /\ \A i \in 1..n : /\ ZiplistPrev(zl, at[i]) = IF i = 1 THEN NotFound ELSE at[i - 1]
                           /\ ZiplistNext(zl, at[i]) = IF i = n THEN NotFound ELSE at[i + 1]
        /\ \A i \in 1..(n + 1) : /\ ZiplistIndex(zl, i - 1) = IF i <= n THEN at[i] ELSE NotFound
                                 /\ ZiplistIndex(zl, -i) = IF i <= n THEN at[n + 1 - i] ELSE NotFound

\* The count of the header, saturated or not, leads ziplistLen to the number
\* of entries; ziplistFind returns the first equal entry among those it may
\* look at, for strings and for integers.
LookupsExact ==
    /\ ZiplistLen(zl) = Len(want)
    /\ \A e \in Elems, skip \in 0..1 :
         LET hits == {i \in DOMAIN want : want[i] = e /\ (i - 1) % (skip + 1) = 0}
         IN  ZiplistFind(zl, 0, e, skip) = IF hits = {} THEN NotFound
                                       ELSE ZiplistIndex(zl, (CHOOSE i \in hits : \A j \in hits : i <= j) - 1)
=============================================================================

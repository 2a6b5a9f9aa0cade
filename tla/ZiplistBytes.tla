---------------------------- MODULE ZiplistBytes ----------------------------
(***************************************************************************)
(* The ziplist of ziplist.c, byte by byte: the list that small hashes,     *)
(* lists and sorted sets are stored in. An entry is the length of the      *)
(* entry before it (1 byte, or 5 when that length reaches ZIP_BIGLEN), an  *)
(* encoding with its own length, and the value. Inserting or deleting an   *)
(* entry can widen the length field of the next one, and so on down the    *)
(* list. A list z: the entries and ZIP_END in z.mem, offsets counted from  *)
(* 0, the offset of the tail and the count of the header.                  *)
(***************************************************************************)
EXTENDS Integers, FiniteSets, SequencesExt

CONSTANTS BigLen,            \* ZIP_BIGLEN (254)
          Str06Max, Str14Max,\* the longest strings of the two short headers
          LenMax             \* UINT16_MAX, where the entry count saturates

ASSUME ZiplistAssumption == BigLen \in 7..254 /\ LenMax > 1
-----------------------------------------------------------------------------
ZipEnd == 255

\* A byte; only in a corrupted list does anything read outside it.
At(mem, p) == IF p + 1 \in DOMAIN mem THEN mem[p + 1] ELSE ZipEnd

\* The memory f as a tuple, which TLC evaluates once.
AsTuple(f) == <<>> \o f

Write(mem, p, bytes) ==
    AsTuple([i \in DOMAIN mem |-> IF i > p /\ i <= p + Len(bytes) THEN bytes[i - p] ELSE mem[i]])

\* memmove of n bytes; old gives the bytes that a reallocation has cut off,
\* taken to be still there. Bytes of the header, before the first, are 0 here:
\* they are moved only to be overwritten.
Moved(mem, old, dst, src, n) ==
    AsTuple([i \in DOMAIN mem |-> IF i > dst /\ i <= dst + n
                                THEN LET j == src + i - dst
                                     IN  IF j < 1 THEN 0 ELSE IF j <= Len(mem) THEN mem[j] ELSE old[j]
                                ELSE mem[i]])

ZiplistResize(mem, n) == AsTuple([i \in 1..n |-> IF i = n THEN ZipEnd ELSE IF i <= Len(mem) THEN mem[i] ELSE 0])

ZipPrevEncodeLengthForceLarge(len) == <<BigLen, len % 256, len \div 256, 0, 0>>
ZipPrevEncodeLength(len) == IF len < BigLen THEN <<len>> ELSE ZipPrevEncodeLengthForceLarge(len)
ZipPrevLenSize(mem, p) == IF At(mem, p) < BigLen THEN 1 ELSE 5
ZipPrevLen(mem, p) == IF At(mem, p) < BigLen THEN At(mem, p) ELSE At(mem, p + 1) + (256 * At(mem, p + 2))
ZipPrevLenByteDiff(mem, p, len) == Len(ZipPrevEncodeLength(len)) - ZipPrevLenSize(mem, p)

\* Integers: the encoding byte of a value, its size and its bytes, low first.
ZipTryEncoding(v) == CASE v \in 0..12 -> 241 + v
                       [] v \in -128..-1 \cup 13..127 -> 254
                       [] v \in -32768..32767 /\ v \notin -128..127 -> 192
                       [] v \in -8388608..8388607 /\ v \notin -32768..32767 -> 240
                       [] OTHER -> 208
ZipIntSize(enc) == CASE enc = 254 -> 1 [] enc = 192 -> 2 [] enc = 240 -> 3 [] enc = 208 -> 4 [] enc = 224 -> 8
                     [] OTHER -> 0
ZipSaveInteger(v, size) == [i \in 1..size |-> (v \div 256 ^ (i - 1)) % 256]
ZipLoadInteger(enc, bytes) ==
    LET n == Len(bytes)
        top == bytes[n]
    IN  IF n = 0 THEN (enc % 16) - 1
        ELSE FoldLeft(LAMBDA v, i : v + (bytes[i] * 256 ^ (i - 1)), (IF top < 128 THEN top ELSE top - 256) * 256 ^ (n - 1),
                      [i \in 1..(n - 1) |-> i])

\* The header and value bytes of an element.
ZipEncodeLength(len) == CASE len <= Str06Max -> <<len>>
                          [] len > Str06Max /\ len <= Str14Max -> <<64 + (len \div 256), len % 256>>
                          [] OTHER -> <<128, 0, 0, len \div 256, len % 256>>
Payload(e) == IF e[1] = "int" THEN LET enc == ZipTryEncoding(e[2]) IN <<enc>> \o ZipSaveInteger(e[2], ZipIntSize(enc))
              ELSE ZipEncodeLength(Len(e[2])) \o e[2]

\* ZIP_DECODE_LENGTH: the size of the header h at q, and the length it gives.
ZipLenSize(h) == IF h >= 64 /\ h < 128 THEN 2 ELSE IF h >= 128 /\ h < 192 THEN 5 ELSE 1
ZipLen(mem, q, h) == CASE h < 64 -> h
                       [] h >= 64 /\ h < 128 -> ((h % 64) * 256) + At(mem, q + 1)
                       [] h >= 128 /\ h < 192 -> (At(mem, q + 3) * 256) + At(mem, q + 4)
                       [] OTHER -> ZipIntSize(h)

\* An entry as zipEntry decodes it, its encoding h at q.
DecodedAt(mem, p, q, h) ==
    [enc |-> h, value |-> q + ZipLenSize(h), len |-> ZipLen(mem, q, h), prevlen |-> ZipPrevLen(mem, p),
     prevsize |-> q - p, rawlen |-> (q - p) + ZipLenSize(h) + ZipLen(mem, q, h)]
ZipEntry(mem, p) == LET q == p + ZipPrevLenSize(mem, p) IN DecodedAt(mem, p, q, At(mem, q))
-----------------------------------------------------------------------------
ZiplistNew == [mem |-> <<ZipEnd>>, tail |-> 0, length |-> 0]

\* The length that a field of a width not to be changed is given.
\* Mutant: the short form in a wide field.
InPlaceLengthShort(extra, len) == ZipPrevEncodeLength(len)
InPlaceLength(extra, len) == IF extra < 0 THEN ZipPrevEncodeLengthForceLarge(len) ELSE ZipPrevEncodeLength(len)

\* The field at np widened by extra bytes to hold len.
\* Mutant: the entries after it are not looked at.
WidenOnce(st, np, len, extra) ==
    LET size == Len(ZipPrevEncodeLength(len))
        grown == ZiplistResize(st.mem, Len(st.mem) + extra)
        moved == Moved(grown, st.mem, np + size, np + size - extra, Len(st.mem) - np - (size - extra) - 1)
    IN  [mem |-> Write(moved, np, ZipPrevEncodeLength(len)),
         tail |-> IF st.tail # np THEN st.tail + extra ELSE st.tail, p |-> np, done |-> TRUE]
Widen(st, np, len, extra) ==
    LET size == Len(ZipPrevEncodeLength(len))
        grown == ZiplistResize(st.mem, Len(st.mem) + extra)
        moved == Moved(grown, st.mem, np + size, np + size - extra, Len(st.mem) - np - (size - extra) - 1)
    IN  [mem |-> Write(moved, np, ZipPrevEncodeLength(len)),
         tail |-> IF st.tail # np THEN st.tail + extra ELSE st.tail, p |-> np, done |-> FALSE]

\* One round of the loop of __ziplistCascadeUpdate at offset st.p, on an entry of len bytes.
CascadeOver(st, len, np) ==
    LET extra == Len(ZipPrevEncodeLength(len)) - ZipPrevLenSize(st.mem, np)
    IN  IF At(st.mem, st.p) = ZipEnd \/ At(st.mem, np) = ZipEnd \/ ZipPrevLen(st.mem, np) = len
        THEN [st EXCEPT !.done = TRUE]
        ELSE IF extra > 0 THEN Widen(st, np, len, extra)
        ELSE [st EXCEPT !.mem = Write(@, np, InPlaceLength(extra, len)), !.done = TRUE]
CascadeStep(st) == LET len == ZipEntry(st.mem, st.p).rawlen IN CascadeOver(st, len, st.p + len)

\* __ziplistCascadeUpdate, and its call where the field at p changed its size.
ZiplistCascadeUpdate(mem, tail, p) ==
    FoldLeft(LAMBDA st, i : IF st.done THEN st ELSE CascadeStep(st),
             [mem |-> mem, tail |-> tail, p |-> p, done |-> FALSE], mem)
Cascaded(z, nextdiff, p) == IF nextdiff # 0 THEN ZiplistCascadeUpdate(z.mem, z.tail, p) ELSE z

\* Mutant: a saturated count is decremented.
IncrLengthAlways(n, incr) == IF n < LenMax \/ incr < 0 THEN n + incr ELSE n
ZiplistIncrLength(n, incr) == IF n < LenMax THEN n + incr ELSE n

\* Inserting the element e before the entry, or the end, at offset p.
PrevLenAt(z, p) == IF At(z.mem, p) # ZipEnd THEN ZipPrevLen(z.mem, p)
                   ELSE IF At(z.mem, z.tail) # ZipEnd THEN ZipEntry(z.mem, z.tail).rawlen ELSE 0
SizesWith(z, p, prevlen, req) ==
    [prevlen |-> prevlen, req |-> req,
     nextdiff |-> IF At(z.mem, p) # ZipEnd THEN ZipPrevLenByteDiff(z.mem, p, req) ELSE 0]
InsertSizes(z, p, e) ==
    LET prevlen == PrevLenAt(z, p)
    IN  SizesWith(z, p, prevlen, Len(ZipPrevEncodeLength(prevlen)) + Len(Payload(e)))

\* The tail after the entries behind offset q have moved by shift: the next
\* entry has changed by nextdiff too, unless it is the tail itself.
TailMoved(tail, shift, mem, q, nextdiff) ==
    tail + shift + (IF At(mem, q + ZipEntry(mem, q).rawlen) = ZipEnd THEN 0 ELSE nextdiff)

\* The gap for an entry of the sizes s, in the memory resized for it.
Opened(z, p, s, resized) ==
    LET moved == Write(Moved(resized, z.mem, p + s.req, p - s.nextdiff, Len(z.mem) - p - 1 + s.nextdiff),
                       p + s.req, ZipPrevEncodeLength(s.req))
    IN  IF At(resized, p) = ZipEnd THEN [mem |-> resized, tail |-> p]
        ELSE [mem |-> moved, tail |-> TailMoved(z.tail, s.req, moved, p + s.req, s.nextdiff)]
Filled(z, p, bytes, length) == [mem |-> Write(z.mem, p, bytes), tail |-> z.tail, length |-> length]
InsertSized(z, p, e, s) ==
    Filled(Cascaded(Opened(z, p, s, ZiplistResize(z.mem, Len(z.mem) + s.req + s.nextdiff)), s.nextdiff, p + s.req),
           p, ZipPrevEncodeLength(s.prevlen) \o Payload(e), ZiplistIncrLength(z.length, 1))
ZiplistInsert(z, p, e) == InsertSized(z, p, e, InsertSizes(z, p, e))

\* The offsets of the entries from p on.
Offsets(mem, p) ==
    LET from[q \in Nat] == IF At(mem, q) = ZipEnd THEN <<>> ELSE <<q>> \o from[q + ZipEntry(mem, q).rawlen]
    IN  from[p]

\* Deleting num entries, or those there are, from the entry at offset p on;
\* q is the entry, or the end, behind them.
Closed(z, p, q, prevlen, nextdiff, marked) ==
    IF At(z.mem, q) = ZipEnd THEN [mem |-> z.mem, tail |-> p - prevlen]
    ELSE [mem |-> Moved(marked, marked, p, q - nextdiff, Len(marked) - (q - nextdiff) - 1),
          tail |-> TailMoved(z.tail, p - q, marked, q - nextdiff, nextdiff)]
CutTo(z, n) == [mem |-> ZiplistResize(z.mem, n), tail |-> z.tail]
DeleteUpTo(z, p, q, prevlen, nextdiff) ==
    Cascaded(CutTo(Closed(z, p, q, prevlen, nextdiff, Write(z.mem, q - nextdiff, ZipPrevEncodeLength(prevlen))),
                   Len(z.mem) - (q - p) + nextdiff), nextdiff, p)
NextDiff(mem, q, prevlen) == IF At(mem, q) # ZipEnd THEN ZipPrevLenByteDiff(mem, q, prevlen) ELSE 0
DeleteTo(z, p, q, deleted) ==
    Filled(DeleteUpTo(z, p, q, ZipPrevLen(z.mem, p), NextDiff(z.mem, q, ZipPrevLen(z.mem, p))),
           0, <<>>, ZiplistIncrLength(z.length, -deleted))
EntriesEnd(mem, last) == last + ZipEntry(mem, last).rawlen
DeleteFirst(z, p, num, there) ==
    LET deleted == IF num < Len(there) THEN num ELSE Len(there)
    IN  DeleteTo(z, p, EntriesEnd(z.mem, there[deleted]), deleted)
ZiplistDelete(z, p, num) == DeleteFirst(z, p, num, Offsets(z.mem, p))

\* Walking, reading and searching. NotFound stands for NULL.
NotFound == -1
ZiplistNext(z, p) == IF At(z.mem, p) = ZipEnd THEN NotFound
                  ELSE LET n == p + ZipEntry(z.mem, p).rawlen IN IF At(z.mem, n) = ZipEnd THEN NotFound ELSE n
ZiplistPrev(z, p) == CASE At(z.mem, p) = ZipEnd -> IF At(z.mem, z.tail) = ZipEnd THEN NotFound ELSE z.tail
                    [] At(z.mem, p) # ZipEnd /\ p = 0 -> NotFound
                    [] OTHER -> p - ZipPrevLen(z.mem, p)
ZiplistIndex(z, index) ==
    LET back[p \in Int, n \in Nat] == IF ZipPrevLen(z.mem, p) > 0 /\ n > 0 THEN back[p - ZipPrevLen(z.mem, p), n - 1]
                                      ELSE [p |-> p, n |-> n]
        forth[p \in Nat, n \in Nat] == IF At(z.mem, p) # ZipEnd /\ n > 0 THEN forth[p + ZipEntry(z.mem, p).rawlen, n - 1]
                                       ELSE [p |-> p, n |-> n]
        end == IF index >= 0 THEN forth[0, index]
               ELSE IF At(z.mem, z.tail) # ZipEnd THEN back[z.tail, -index - 1] ELSE [p |-> z.tail, n |-> 0]
    IN  IF At(z.mem, end.p) = ZipEnd \/ end.n > 0 THEN NotFound ELSE end.p
GetValue(enc, bytes) == IF enc < 192 THEN <<"str", bytes>> ELSE <<"int", ZipLoadInteger(enc, bytes)>>
ZiplistGet(z, p) ==
    LET en == ZipEntry(z.mem, p)
    IN  GetValue(en.enc, [i \in 1..en.len |-> At(z.mem, en.value + i - 1)])
ZiplistCompare(z, p, e) == ZiplistGet(z, p) = e
\* The first entry from p on that equals e, looking at one and skipping skip.
ZiplistFind(z, p, e, skip) ==
    LET at == Offsets(z.mem, p)
        hit == SelectInSeq([i \in DOMAIN at |-> <<i, at[i]>>],
                           LAMBDA en : (en[1] - 1) % (skip + 1) = 0 /\ ZiplistCompare(z, en[2], e))
    IN  IF hit = 0 THEN NotFound ELSE at[hit]
\* ziplistLen counts when the stored count is saturated, and repairs it.
ZiplistLen(z) == IF z.length < LenMax THEN z.length ELSE Len(Offsets(z.mem, 0))
ZiplistCounted(z) == [z EXCEPT !.length = IF ZiplistLen(z) < LenMax THEN ZiplistLen(z) ELSE @]
=============================================================================

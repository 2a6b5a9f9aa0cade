------------------------------- MODULE Hashes -------------------------------
(***************************************************************************)
(* A Redis hash and its commands (t_hash.c): a small one is a ziplist of   *)
(* alternating fields and values (ZiplistBytes), a large one a hash table  *)
(* (Dict.tla; here just a function). Fields and values are strings, or     *)
(* integers where their text is one.                                       *)
(***************************************************************************)
EXTENDS ZiplistBytes

CONSTANTS Fields, Values,     \* what clients store: <<"str", bytes>> or <<"int", n>>
          HashMaxEntries,     \* hash-max-ziplist-entries
          HashMaxValue,       \* hash-max-ziplist-value
          HmsetArgs,          \* the pairs of pairs given to HMSET
          MaxLL, Increments   \* LLONG_MAX and what clients add
VARIABLES hash,      \* the object under the key
          fields,    \* ghost: the fields and values it stands for
          honest     \* ghost: whether the last command replied and counted right
hvars == <<hash, fields, honest>>

ASSUME HashesAssumption == HashMaxEntries \in Nat /\ HashMaxValue \in Nat /\ MaxLL \in Nat
-----------------------------------------------------------------------------
NoHash == [kind |-> "none"]
Nil == <<"nil", 0>>
OfZiplist(z) == [kind |-> "ziplist", z |-> z]
OfTable(f) == [kind |-> "ht", map |-> f]

\* The length of an argument as text.
Sdslen(e) ==
    IF e[1] = "str" THEN Len(e[2])
    ELSE LET n == IF e[2] < 0 THEN -e[2] ELSE e[2]
         IN  (IF e[2] < 0 THEN 1 ELSE 0) + (IF n = 0 THEN 1 ELSE Cardinality({k \in 0..8 : 10 ^ k <= n}))

\* Mutant: the values are searched too.
FieldAtAnywhere(z, f) ==
    LET head == ZiplistIndex(z, 0)
    IN  IF head = NotFound THEN NotFound ELSE ZiplistFind(z, head, f, 0)
\* The offset of a field in the ziplist: a search of every other entry.
FieldAt(z, f) ==
    LET head == ZiplistIndex(z, 0)
    IN  IF head = NotFound THEN NotFound ELSE ZiplistFind(z, head, f, 1)

ValueAfter(z, fptr) == IF fptr = NotFound THEN Nil ELSE ZiplistGet(z, ZiplistNext(z, fptr))
HashTypeGetFromZiplist(z, f) == ValueAfter(z, FieldAt(z, f))
HashTypeGetObject(o, f) ==
    CASE o.kind = "ziplist" -> HashTypeGetFromZiplist(o.z, f)
      [] o.kind = "ht" /\ f \in DOMAIN o.map -> o.map[f]
      [] OTHER -> Nil
HashTypeExists(o, f) == HashTypeGetObject(o, f) # Nil

\* The pairs in the order an iterator returns them.
HashTypePairs(o) ==
    IF o.kind = "ziplist"
    THEN LET at == Offsets(o.z.mem, 0)
         IN  [i \in 1..(Len(at) \div 2) |-> <<ZiplistGet(o.z, at[(2 * i) - 1]), ZiplistGet(o.z, at[2 * i])>>]
    ELSE LET fs == SetToSeq(DOMAIN o.map) IN [i \in DOMAIN fs |-> <<fs[i], o.map[fs[i]]>>]

HashTypeLength(o) == IF o.kind = "ziplist" THEN ZiplistLen(o.z) \div 2 ELSE Cardinality(DOMAIN o.map)

TableOf(pairs) == OfTable([f \in {p[1] : p \in pairs} |-> (CHOOSE p \in pairs : p[1] = f)[2]])
HashTypeConvert(o) == TableOf(Range(HashTypePairs(o)))

HashTypeTryConversion(o, args) ==
    IF o.kind = "ziplist" /\ \E i \in DOMAIN args : Sdslen(args[i]) > HashMaxValue THEN HashTypeConvert(o) ELSE o

HashTooLong(o) == HashTypeLength(o) > HashMaxEntries

ZiplistPushTail(z, e) == ZiplistInsert(z, Len(z.mem) - 1, e)

\* What dictReplace leads to. Mutant: its result taken the wrong way round.
InsertedInTable(o, f) == f \notin DOMAIN o.map
UpdatedInTable(o, f) == f \in DOMAIN o.map

\* In a ziplist an update deletes the value and inserts the new one in its
\* place; a new pair goes to the tail.
ReplaceEntry(z, vptr, v) == ZiplistInsert(ZiplistDelete(z, vptr, 1), vptr, v)
SetInZiplist(z, f, v, fptr) ==
    IF fptr # NotFound THEN ReplaceEntry(z, ZiplistNext(z, fptr), v) ELSE ZiplistPushTail(ZiplistPushTail(z, f), v)
Fitted(o) == IF HashTooLong(o) THEN HashTypeConvert(o) ELSE o
HashTypeSet(o, f, v) ==
    IF o.kind = "ziplist"
    THEN [o |-> Fitted(OfZiplist(ZiplistCounted(SetInZiplist(o.z, f, v, FieldAt(o.z, f))))),
          update |-> FieldAt(o.z, f) # NotFound]
    ELSE [o |-> OfTable((f :> v) @@ o.map), update |-> UpdatedInTable(o, f)]

DeleteInZiplist(o, fptr) ==
    IF fptr = NotFound THEN [o |-> o, n |-> 0]
    ELSE [o |-> OfZiplist(ZiplistDelete(ZiplistDelete(o.z, fptr, 1), fptr, 1)), n |-> 1]
HashTypeDelete(o, f) ==
    CASE o.kind = "ziplist" -> DeleteInZiplist(o, FieldAt(o.z, f))
      [] OTHER -> [o |-> OfTable(RestrictDomain(o.map, LAMBDA g : g # f)), n |-> IF f \in DOMAIN o.map THEN 1 ELSE 0]

HashTypeLookupWriteOrCreate == IF hash = NoHash THEN OfZiplist(ZiplistNew) ELSE hash
-----------------------------------------------------------------------------
\* The outcome of a command: the object, what is added to server.dirty, an
\* error or a reply.
Done(o, dirty, reply) == [o |-> o, dirty |-> dirty, err |-> FALSE, reply |-> reply]

SetDone(set) == Done(set.o, 1, IF set.update THEN 0 ELSE 1)
Hset(f, v) == SetDone(HashTypeSet(HashTypeTryConversion(HashTypeLookupWriteOrCreate, <<f, v>>), f, v))

Hsetnx(f, v) ==
    LET o == HashTypeTryConversion(HashTypeLookupWriteOrCreate, <<f, v>>)
    IN  IF HashTypeExists(o, f) THEN Done(o, 0, 0) ELSE Done(HashTypeSet(o, f, v).o, 1, 1)

Hmset(pairs) ==
    Done(FoldLeft(LAMBDA o, p : HashTypeSet(o, p[1], p[2]).o,
                  HashTypeTryConversion(HashTypeLookupWriteOrCreate, FlattenSeq(pairs)), pairs), 1, 0)

WouldOverflow(old, incr) == \/ incr < 0 /\ old < 0 /\ incr < (-MaxLL - 1) - old
                            \/ incr > 0 /\ old > 0 /\ incr > MaxLL - old
\* Signed 64-bit addition.
Wrapped(n) == ((n + MaxLL + 1) % (2 * (MaxLL + 1))) - (MaxLL + 1)

IncrFrom(o, f, incr, cur) ==
    LET old == IF cur = Nil THEN 0 ELSE cur[2]
        new == Wrapped(old + incr)
    IN  IF cur[1] = "str" \/ WouldOverflow(old, incr) THEN [o |-> o, dirty |-> 0, err |-> TRUE, reply |-> 0]
        ELSE Done(HashTypeSet(o, f, <<"int", new>>).o, 1, new)
Hincrby(f, incr) ==
    LET o == HashTypeLookupWriteOrCreate IN IncrFrom(o, f, incr, HashTypeGetObject(o, f))

Counting(acc, d) == [o |-> d.o, n |-> acc.n + d.n]
HdelDone(end) == Done(IF HashTypeLength(end.o) = 0 THEN NoHash ELSE end.o, end.n, end.n)
\* HDEL deletes the key when its last field goes, and stops there.
Hdel(fs) ==
    IF hash = NoHash THEN Done(hash, 0, 0)
    ELSE HdelDone(FoldLeft(LAMBDA acc, f : IF HashTypeLength(acc.o) = 0 THEN acc ELSE Counting(acc, HashTypeDelete(acc.o, f)),
                           [o |-> hash, n |-> 0], fs))

\* HGETALL: the announced length and the pairs that follow.
Hgetall == [length |-> 2 * HashTypeLength(hash), sent |-> HashTypePairs(hash)]
-----------------------------------------------------------------------------
HashesInit == hash = NoHash /\ fields = <<>> /\ honest = TRUE

\* A command has outcome r where map, reply and err are due.
Answer(r, map, reply, err) ==
    /\ hash' = r.o /\ fields' = map
    /\ honest' = /\ r.err = err /\ (~err => r.reply = reply)
                 /\ map # fields => r.dirty > 0

Put(f, v) == (f :> v) @@ fields
New(f) == IF f \in DOMAIN fields THEN 0 ELSE 1
Known(fs) == {f \in Range(fs) : f \in DOMAIN fields}

HashesNext ==
    \/ \E f \in Fields, v \in Values : Answer(Hset(f, v), Put(f, v), New(f), FALSE)
    \/ \E f \in Fields, v \in Values :
           Answer(Hsetnx(f, v), IF New(f) = 1 THEN Put(f, v) ELSE fields, New(f), FALSE)
    \/ \E a \in HmsetArgs : Answer(Hmset(a), (a[2][1] :> a[2][2]) @@ Put(a[1][1], a[1][2]), 0, FALSE)
    \/ \E f \in Fields, incr \in Increments :
           LET old == IF New(f) = 1 THEN <<"int", 0>> ELSE fields[f]
               sum == IF old[1] = "str" THEN 0 ELSE old[2] + incr
               err == old[1] = "str" \/ sum > MaxLL \/ sum < -MaxLL - 1
           IN  Answer(Hincrby(f, incr), IF err THEN fields ELSE Put(f, <<"int", sum>>), sum, err)
    \/ \E f, g \in Fields : Answer(Hdel(<<f, g>>), RestrictDomain(fields, LAMBDA h : h \notin {f, g}),
                                   Cardinality(Known(<<f, g>>)), FALSE)

HashesSpec == HashesInit /\ [][HashesNext]_hvars
-----------------------------------------------------------------------------
\* Type invariant: no empty hash is kept, a ziplist has pairs and not more
\* than hash-max-ziplist-entries of them.
HashesTypeOK ==
    /\ hash.kind \in {"none", "ziplist", "ht"} /\ honest \in BOOLEAN
    /\ hash # NoHash => HashTypeLength(hash) > 0
    /\ hash.kind = "ziplist" => /\ HashTypeLength(hash) <= HashMaxEntries
                                /\ Len(Offsets(hash.z.mem, 0)) % 2 = 0

\* Whatever the encoding and however it was reached (updates in place that
\* move the entries behind, deletions of pairs, a conversion in the middle
\* of HMSET), a hash holds exactly the fields and values that were set: by
\* lookup, by iteration, by length; HGETALL announces as many elements as it
\* sends.
HashExact ==
    /\ hash = NoHash <=> fields = <<>>
    /\ hash # NoHash =>
         /\ HashTypeLength(hash) = Cardinality(DOMAIN fields)
         /\ \A f \in Fields : HashTypeGetObject(hash, f) = IF New(f) = 1 THEN Nil ELSE fields[f]
         /\ Range(Hgetall.sent) = {<<f, fields[f]>> : f \in DOMAIN fields}
         /\ Hgetall.length = 2 * Len(Hgetall.sent)

\* Every command replies with what it did, refuses an increment exactly when
\* the value is no integer or the sum does not fit, and counts as dirty, and
\* so is propagated, whenever it changed the hash.
HashRepliesExact == honest
=============================================================================

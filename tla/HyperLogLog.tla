---------------------------- MODULE HyperLogLog ----------------------------
(***************************************************************************)
(* The HyperLogLog of Redis (hyperloglog.c): registers kept as a run-      *)
(* length code (sparse) or as an array of 6-bit counters in bytes (dense), *)
(* a cached cardinality, PFADD, PFCOUNT and PFMERGE, and the copy a        *)
(* replica keeps by executing the commands that are propagated to it.      *)
(*                                                                         *)
(* An element is its hash. The cardinality is the pair of numbers that     *)
(* hllCount estimates it from, the zero registers and SUM(2^-reg), scaled  *)
(* by 2^HashBits to be a whole number. Keys hold valid HLL strings or do   *)
(* not exist.                                                              *)
(***************************************************************************)
EXTENDS Integers, FiniteSets, SequencesExt

CONSTANTS HllKeys,
          P,                \* HLL_P: bits of the hash that select a register
          HashBits,         \* width of a hash
          ValMaxValue, ValMaxLen, ZeroMaxLen, XzeroMaxLen,
          SparseMaxBytes,   \* hll-sparse-max-bytes, the header not counted
          PfaddArgs,        \* key and elements of PFADD
          PfmergeArgs       \* destination and sources of PFMERGE
VARIABLES hll,      \* key -> <<>> or the object
          hllCopy,  \* the same keys on a replica
          added     \* ghost: key -> register -> the longest run added
hllvars == <<hll, hllCopy, added>>

Registers == 2 ^ P
Regs == 0..(Registers - 1)
RegSeq == [i \in 1..Registers |-> i - 1]
Bits == 6
RegisterMax == 2 ^ Bits - 1
DenseSize == ((Registers * Bits) + 7) \div 8

ASSUME HyperLogLogAssumption ==
    /\ P \in Nat /\ P >= 4 /\ HashBits > P /\ HashBits - P <= RegisterMax
    /\ ZeroMaxLen < XzeroMaxLen /\ ValMaxLen >= 1 /\ ValMaxValue >= 1
-----------------------------------------------------------------------------
\* hllPatLen: the register, and the length of the pattern 00..1 above the
\* bits that select it. The topmost bit is taken as 1.
Index(ele) == ele % Registers
PatLen(ele) ==
    LET rest == (ele % 2 ^ (HashBits - 1)) \div Registers
    IN  IF rest = 0 THEN HashBits - P
        ELSE CHOOSE n \in 1..(HashBits - P) : rest % 2 ^ (n - 1) = 0 /\ rest % 2 ^ n # 0

\* HLL_DENSE_GET_REGISTER and HLL_DENSE_SET_REGISTER: a counter lies in the
\* byte of its first bit and in the next, which exists even for the last
\* counter (the null term). Bytes are numbered from 1.
Byte(bytes, i) == bytes[i + 1]
FirstByte(reg) == (reg * Bits) \div 8
FirstBit(reg) == (reg * Bits) % 8

DenseGet(bytes, reg) ==
    LET b == FirstByte(reg)   fb == FirstBit(reg)
    IN  ((Byte(bytes, b) \div 2 ^ fb) + (Byte(bytes, b + 1) * 2 ^ (8 - fb))) % (RegisterMax + 1)

\* What remains of byte x once the bits from lo up to hi - 1 are cleared.
ClearBits(x, lo, hi) == (x % 2 ^ lo) + (x - (x % 2 ^ hi))
\* Mutant: the part in the second byte is not written.
DenseSetOneByte(bytes, reg, v) ==
    LET fb == FirstBit(reg)
    IN  [bytes EXCEPT ![FirstByte(reg) + 1] = ClearBits(@, fb, IF fb + Bits > 8 THEN 8 ELSE fb + Bits) + ((v * 2 ^ fb) % 256)]
DenseSet(bytes, reg, v) ==
    LET b == FirstByte(reg)   fb == FirstBit(reg)   over == fb + Bits - 8
    IN  [bytes EXCEPT ![b + 1] = ClearBits(@, fb, IF over > 0 THEN 8 ELSE fb + Bits) + ((v * 2 ^ fb) % 256),
                      ![b + 2] = IF over > 0 THEN ClearBits(@, 0, over) + (v \div 2 ^ (8 - fb)) ELSE @]

\* Opcodes of the sparse representation; an XZERO takes two bytes.
Val(v, len) == [op |-> "VAL", len |-> len, v |-> v]
Zeros(len) == IF len > ZeroMaxLen THEN [op |-> "XZERO", len |-> len, v |-> 0]
              ELSE [op |-> "ZERO", len |-> len, v |-> 0]
OpBytes(op) == IF op.op = "XZERO" THEN 2 ELSE 1
Bytes(ops) == FoldLeft(LAMBDA n, op : n + OpBytes(op), 0, ops)
Span(ops) == FoldLeft(LAMBDA n, op : n + op.len, 0, ops)

\* The registers a sparse representation spells out, first to last.
Spelled(ops) == FoldLeft(LAMBDA regs, op : regs \o [i \in 1..op.len |-> op.v], <<>>, ops)

CreateHLLObject ==
    [enc |-> "sparse", ops |-> [i \in 1..((Registers + XzeroMaxLen - 1) \div XzeroMaxLen) |->
                                  [op |-> "XZERO", v |-> 0,
                                   len |-> IF i * XzeroMaxLen <= Registers THEN XzeroMaxLen
                                           ELSE Registers - ((i - 1) * XzeroMaxLen)]],
     bytes |-> <<>>, valid |-> TRUE, card |-> <<Registers, Registers * 2 ^ HashBits>>]

\* hllSparseToDense: the cached cardinality is copied.
HllSparseToDense(o) ==
    IF o.enc = "dense" THEN o
    ELSE LET regs == Spelled(o.ops)
             nonzero == SelectSeq(RegSeq, LAMBDA r : regs[r + 1] # 0)
         IN  [o EXCEPT !.enc = "dense", !.ops = <<>>,
                       !.bytes = FoldLeft(LAMBDA b, r : DenseSet(b, r, regs[r + 1]),
                                          [i \in 1..(DenseSize + 1) |-> 0], nonzero)]

\* The object and whether a register grew.
HllDenseAdd(o, ele) ==
    IF PatLen(ele) > DenseGet(o.bytes, Index(ele))
    THEN [o |-> [o EXCEPT !.bytes = DenseSet(@, Index(ele), PatLen(ele))], changed |-> TRUE]
    ELSE [o |-> o, changed |-> FALSE]
-----------------------------------------------------------------------------
\* hllSparseAdd. Step 1: the opcode that covers the register, and the first
\* register of its run.
FirstOf(ops, i) == Span(SubSeq(ops, 1, i - 1))
Covering(ops, index) ==
    CHOOSE i \in DOMAIN ops : FirstOf(ops, i) <= index /\ index < FirstOf(ops, i) + ops[i].len

\* The opcodes that replace a run to set one of its registers.
Split(op, first, index, count) ==
    LET run(len) == IF len <= 0 THEN <<>> ELSE IF op.op = "VAL" THEN <<Val(op.v, len)>> ELSE <<Zeros(len)>>
    IN  run(index - first) \o <<Val(count, 1)>> \o run(first + op.len - 1 - index)

\* Step 4: up to five steps from the opcode before; two VALs of one value
\* are merged when the result fits, and the merged one is tried again.
Mergeable(a, b) == a.op = "VAL" /\ b.op = "VAL" /\ a.v = b.v /\ a.len + b.len <= ValMaxLen

MergeStep(s) ==
    IF s.p > Len(s.ops) THEN s
    ELSE IF s.p < Len(s.ops) /\ Mergeable(s.ops[s.p], s.ops[s.p + 1])
         THEN [s EXCEPT !.ops = ReplaceAt(RemoveAt(@, s.p), s.p,
                                          Val(@[s.p].v, @[s.p].len + @[s.p + 1].len))]
         ELSE [s EXCEPT !.p = @ + 1]
Merged(ops, from) == FoldLeft(LAMBDA s, i : MergeStep(s), [ops |-> ops, p |-> from], <<1, 2, 3, 4, 5>>).ops

Promote(o, ele) == HllDenseAdd(HllSparseToDense(o), ele)

HllSparseAdd(o, ele) ==
    LET index == Index(ele)   count == PatLen(ele)
        i == Covering(o.ops, index)
        op == o.ops[i]
        split == Split(op, FirstOf(o.ops, i), index, count)
        delta == Bytes(split) - OpBytes(op)
        updated == SubSeq(o.ops, 1, i - 1) \o split \o SubSeq(o.ops, i + 1, Len(o.ops))
    IN  IF count > ValMaxValue THEN Promote(o, ele)
        ELSE IF op.op = "VAL" /\ op.v >= count THEN [o |-> o, changed |-> FALSE]
        ELSE IF delta > 0 /\ Bytes(o.ops) + delta > SparseMaxBytes THEN Promote(o, ele)
        ELSE [o |-> [o EXCEPT !.ops = Merged(updated, IF i = 1 THEN 1 ELSE i - 1), !.valid = FALSE],
              changed |-> TRUE]

HllAdd(o, ele) == IF o.enc = "dense" THEN HllDenseAdd(o, ele) ELSE HllSparseAdd(o, ele)
-----------------------------------------------------------------------------
\* The sums behind hllCount: zero registers and SUM(2^-reg).
Weight(v) == 2 ^ (HashBits - v)
Sum(regs) == <<Cardinality({i \in DOMAIN regs : regs[i] = 0}),
               FoldLeft(LAMBDA n, v : n + Weight(v), 0, regs)>>

\* The unrolled loop: four registers out of three bytes.
HllDenseSum(bytes) ==
    Sum([i \in 1..Registers |->
           LET k == (i - 1) % 4
               b == 3 * ((i - 1) \div 4)
           IN  CASE k = 0 -> Byte(bytes, b) % 64
                 [] k = 1 -> ((Byte(bytes, b) \div 64) + (Byte(bytes, b + 1) * 4)) % 64
                 [] k = 2 -> ((Byte(bytes, b + 1) \div 16) + (Byte(bytes, b + 2) * 16)) % 64
                 [] k = 3 -> (Byte(bytes, b + 2) \div 4) % 64])

HllSparseSum(ops) ==
    FoldLeft(LAMBDA s, op : IF op.op = "VAL" THEN <<s[1], s[2] + (op.len * Weight(op.v))>>
                            ELSE <<s[1] + op.len, s[2] + (op.len * Weight(0))>>, <<0, 0>>, ops)

HllCount(o) == IF o.enc = "dense" THEN HllDenseSum(o.bytes) ELSE HllSparseSum(o.ops)

\* hllMerge into an array of maxima.
HllMerge(max, o) ==
    [r \in Regs |-> LET v == IF o.enc = "dense" THEN DenseGet(o.bytes, r) ELSE Spelled(o.ops)[r + 1]
                    IN  IF v > max[r] THEN v ELSE max[r]]
Empty == [r \in Regs |-> 0]
Union(db, keys) == FoldLeft(LAMBDA max, k : IF db[k] = <<>> THEN max ELSE HllMerge(max, db[k][1]), Empty, keys)
-----------------------------------------------------------------------------
\* A command's effect on the keys, and whether it counts as a change (dirty).
Effect(db, dirty) == [db |-> db, dirty |-> dirty]

\* Mutant: creating the key is not an update.
PfaddSilent(db, k, eles) ==
    LET o == IF db[k] = <<>> THEN CreateHLLObject ELSE db[k][1]
        end == FoldLeft(LAMBDA s, e : LET r == HllAdd(s.o, e) IN [o |-> r.o, updated |-> s.updated \/ r.changed],
                        [o |-> o, updated |-> FALSE], eles)
    IN  Effect([db EXCEPT ![k] = <<[end.o EXCEPT !.valid = @ /\ ~end.updated]>>], end.updated)
PfaddCommand(db, k, eles) ==
    LET o == IF db[k] = <<>> THEN CreateHLLObject ELSE db[k][1]
        end == FoldLeft(LAMBDA s, e : LET r == HllAdd(s.o, e) IN [o |-> r.o, updated |-> s.updated \/ r.changed],
                        [o |-> o, updated |-> db[k] = <<>>], eles)
    IN  Effect([db EXCEPT ![k] = <<[end.o EXCEPT !.valid = @ /\ ~end.updated]>>], end.updated)

\* PFCOUNT of one key keeps what it computed; of several keys it does not.
PfcountCommand(db, k) ==
    IF db[k] = <<>> \/ db[k][1].valid THEN Effect(db, FALSE)
    ELSE LET o == db[k][1]
         IN  Effect([db EXCEPT ![k] = <<[o EXCEPT !.valid = TRUE, !.card = HllCount(o)]>>], TRUE)
PfcountReply(db, keys) ==
    IF Len(keys) > 1 THEN LET max == Union(db, keys) IN Sum([i \in 1..Registers |-> max[i - 1]])
    ELSE LET o == db[keys[1]]
         IN  IF o = <<>> THEN <<Registers, Registers * 2 ^ HashBits>>
             ELSE IF o[1].valid THEN o[1].card ELSE HllCount(o[1])

\* PFMERGE writes every register of a dense destination.
\* Mutant: the cached cardinality survives.
PfmergeKeepsCard(db, k, sources) ==
    LET max == Union(db, <<k>> \o sources)
        o == HllSparseToDense(IF db[k] = <<>> THEN CreateHLLObject ELSE db[k][1])
    IN  Effect([db EXCEPT ![k] = <<[o EXCEPT !.bytes = FoldLeft(LAMBDA b, r : DenseSet(b, r, max[r]), @, RegSeq)]>>], TRUE)
PfmergeCommand(db, k, sources) ==
    LET max == Union(db, <<k>> \o sources)
        o == HllSparseToDense(IF db[k] = <<>> THEN CreateHLLObject ELSE db[k][1])
    IN  Effect([db EXCEPT ![k] = <<[o EXCEPT !.valid = FALSE,
                                             !.bytes = FoldLeft(LAMBDA b, r : DenseSet(b, r, max[r]), @, RegSeq)]>>], TRUE)

\* The replica executes a command that was propagated.
Applied(here, there) ==
    /\ hll' = here.db
    /\ hllCopy' = IF here.dirty THEN there.db ELSE hllCopy
-----------------------------------------------------------------------------
Larger(x, y) == IF x > y THEN x ELSE y

HllInit == hll = [k \in HllKeys |-> <<>>] /\ hllCopy = hll /\ added = [k \in HllKeys |-> Empty]

Pfadd(k, eles) ==
    /\ Applied(PfaddCommand(hll, k, eles), PfaddCommand(hllCopy, k, eles))
    /\ added' = [added EXCEPT ![k] = FoldLeft(LAMBDA regs, e : [regs EXCEPT ![Index(e)] = Larger(@, PatLen(e))], @, eles)]
Pfcount(k) ==
    /\ Applied(PfcountCommand(hll, k), PfcountCommand(hllCopy, k))
    /\ UNCHANGED added
Pfmerge(k, sources) ==
    /\ Applied(PfmergeCommand(hll, k, sources), PfmergeCommand(hllCopy, k, sources))
    /\ added' = [added EXCEPT ![k] = FoldLeft(LAMBDA regs, s : [r \in Regs |-> Larger(regs[r], added[s][r])], @, sources)]

HllNext ==
    \/ \E args \in PfaddArgs : Pfadd(args[1], args[2])
    \/ \E k \in HllKeys : Pfcount(k)
    \/ \E args \in PfmergeArgs : Pfmerge(args[1], args[2])

HllSpec == HllInit /\ [][HllNext]_hllvars
-----------------------------------------------------------------------------
Objects == {hll[k][1] : k \in {j \in HllKeys : hll[j] # <<>>}}

\* Type invariant: the opcodes of a sparse object fit their fields, a dense
\* object is an array of bytes whose null term is still null.
HllTypeOK == \A o \in Objects :
    IF o.enc = "sparse"
    THEN /\ Bytes(o.ops) <= SparseMaxBytes
         /\ \A i \in DOMAIN o.ops :
               LET op == o.ops[i]
               IN  /\ op.len \in 1..(CASE op.op = "VAL" -> ValMaxLen [] op.op = "ZERO" -> ZeroMaxLen [] op.op = "XZERO" -> XzeroMaxLen)
                   /\ op.op = "VAL" => op.v \in 1..ValMaxValue
    ELSE Len(o.bytes) = DenseSize + 1 /\ (\A i \in DOMAIN o.bytes : o.bytes[i] \in 0..255) /\ o.bytes[DenseSize + 1] = 0

\* Whatever runs were split and merged, packed into bytes and promoted, each
\* register holds the longest run of the elements added to its key or merged
\* into it: hllMerge reads exactly that out of either representation.
RegistersExact == \A k \in HllKeys : Union(hll, <<k>>) = added[k]

\* PFCOUNT answers from the registers as they are, whichever of the three
\* sums computed them, and never from a cardinality cached before the key
\* changed.
CountExact == \A k, j \in HllKeys :
    LET want == [i \in 1..Registers |-> Larger(added[k][i - 1], added[j][i - 1])]
    IN  PfcountReply(hll, IF k = j THEN <<k>> ELSE <<k, j>>) = Sum(want)

\* A replica that gets only the commands that counted as changes holds the
\* same strings: the representation, and the cardinality PFCOUNT cached.
ReplicaHolds == hllCopy = hll
=============================================================================

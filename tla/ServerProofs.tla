---------------------------- MODULE ServerProofs ----------------------------
(***************************************************************************)
(* That a replica and the append only file follow a Redis server, and that *)
(* its transactions are isolated, proved for any clients, keys, commands   *)
(* and any length of a transaction.                                        *)
(***************************************************************************)
EXTENDS MCServerParts, FiniteSetTheorems, WellFoundedInduction, TLAPS

LEMMA LeastOf ==
  ASSUME NEW S \in SUBSET Nat, S # {}
  PROVE  \E x \in S : \A y \in S : x <= y
<1>1. IsWellFoundedOn(OpToRel(<, Nat), Nat) BY NatLessThanWellFounded
<1>2. PICK x \in S : \A y \in S : ~(<<y, x>> \in OpToRel(<, Nat)) BY <1>1, WFMin, Zenon
<1>3. \A y \in S : ~(y < x) BY <1>2 DEF OpToRel
<1>4. QED BY <1>3

LEMMA MaxOf ==
  ASSUME NEW n \in Nat, NEW s \in SUBSET (1 .. n), s # {}
  PROVE  /\ Max(s) \in s /\ \A x \in s : x <= Max(s)
         /\ s \ {Max(s)} \in SUBSET (1 .. (Max(s) - 1))
<1> DEFINE above == {u \in Nat : \A x \in s : x <= u}
<1>0. \A x \in s : x \in Nat /\ 1 <= x /\ x <= n OBVIOUS
<1>1. PICK m \in above : \A u \in above : m <= u
  <2>1. n \in above BY <1>0
  <2>2. above \in SUBSET Nat /\ above # {} BY <2>1
  <2> HIDE DEF above
  <2>3. QED BY <2>2, LeastOf
<1>2. m \in s
  <2>1. SUFFICES ASSUME m \notin s PROVE FALSE OBVIOUS
  <2>2. m \in Nat /\ \A x \in s : x <= m OBVIOUS
  <2> PICK y \in s : TRUE OBVIOUS
  <2>3. m # 0 BY <1>0, <2>2
  <2>4. \A x \in s : x <= m - 1 BY <1>0, <2>1, <2>2
  <2>5. m - 1 \in above BY <2>2, <2>3, <2>4
  <2>6. QED BY <1>1, <2>2, <2>5
<1>3. m \in s /\ \A y \in s : m >= y BY <1>1, <1>2
<1>4. Max(s) \in s /\ \A y \in s : Max(s) >= y BY <1>3, Zenon DEF Max
<1>5. ASSUME NEW x \in s \ {Max(s)} PROVE x \in 1 .. (Max(s) - 1)
  <2>1. Max(s) \in Nat /\ x \in Nat /\ 1 <= x /\ x <= Max(s) /\ x # Max(s) BY <1>0, <1>4
  <2> HIDE DEF above
  <2>2. QED BY <2>1
<1>6. \A x \in s : x <= Max(s) BY <1>0, <1>4
<1>7. QED BY <1>4, <1>5, <1>6

\* Induction over the subsets of 1 .. n, which FoldLeft visits by taking the
\* greatest element away: a set that holds {} and is closed holds all of them.
LEMMA SubsetsOf ==
  ASSUME NEW n \in Nat, NEW G, {} \in G,
         \A s \in SUBSET (1 .. n) : s # {} /\ s \ {Max(s)} \in G => s \in G
  PROVE  SUBSET (1 .. n) \subseteq G
<1> DEFINE bad == {k \in 0 .. n : \E s \in SUBSET (1 .. k) : s \notin G}
<1>1. SUFFICES ASSUME bad # {} PROVE FALSE BY DEF bad
<1>2. bad \in SUBSET Nat OBVIOUS
<1>3. PICK k \in bad : \A j \in bad : k <= j
  <2> HIDE DEF bad
  <2>1. QED BY <1>1, <1>2, LeastOf
<1>k. k \in Nat /\ k <= n OBVIOUS
<1>4. PICK s \in SUBSET (1 .. k) : s \notin G BY <1>3
<1>5. s # {} BY <1>4
<1>6. s \in SUBSET (1 .. n) BY <1>k, <1>4
<1>7. Max(s) \in s /\ s \ {Max(s)} \in SUBSET (1 .. (Max(s) - 1)) BY <1>5, <1>6, MaxOf
<1>m. Max(s) \in 1 .. k BY <1>7
<1>8. Max(s) - 1 \in 0 .. n /\ Max(s) - 1 < k BY <1>k, <1>m
<1>9. s \ {Max(s)} \in G
  <2>0. Max(s) - 1 \in bad => k <= Max(s) - 1 BY <1>3
  <2>1. Max(s) - 1 \notin bad BY <1>k, <1>m, <2>0
  <2>2. QED BY <1>7, <1>8, <2>1
<1>10. QED BY <1>4, <1>5, <1>6, <1>9

\* The function FoldLeft chooses exists when each step stays in a set T.
FoldOf(g, n, base, step) ==
  g = [s \in SUBSET (1 .. n) |-> IF s = {} THEN base ELSE step[Max(s)][g[s \ {Max(s)}]]]

LEMMA FoldExists ==
  ASSUME NEW n \in Nat, NEW T, NEW base \in T, NEW step \in [1 .. n -> [T -> T]]
  PROVE  \E g \in [SUBSET (1 .. n) -> T] : FoldOf(g, n, base, step)
<1> DEFINE bad == {k \in 0 .. n : ~ \E g \in [SUBSET (1 .. k) -> T] : FoldOf(g, k, base, step)}
<1>1. SUFFICES ASSUME bad # {} PROVE FALSE
  <2>1. n \in 0 .. n OBVIOUS
  <2>2. n \notin bad BY <1>1
  <2>3. QED BY <2>1, <2>2
<1>2. bad \in SUBSET Nat OBVIOUS
<1>3. PICK k \in bad : \A j \in bad : k <= j
  <2> HIDE DEF bad
  <2>1. QED BY <1>1, <1>2, LeastOf
<1>k. k \in Nat /\ k <= n OBVIOUS
<1>4. k # 0
  <2>1. SUFFICES ASSUME k = 0 PROVE FALSE OBVIOUS
  <2> DEFINE g == [s \in SUBSET (1 .. 0) |-> base]
  <2>2. g \in [SUBSET (1 .. 0) -> T] OBVIOUS
  <2>3. \A s \in SUBSET (1 .. 0) : s = {} OBVIOUS
  <2>4. FoldOf(g, 0, base, step) BY <2>3 DEF FoldOf
  <2>5. QED BY <1>3, <2>1, <2>2, <2>4
<1>5. k - 1 \in 0 .. n /\ k - 1 \notin bad
  <2>1. k - 1 \in 0 .. n BY <1>k, <1>4
  <2>2. k - 1 \in bad => k <= k - 1 BY <1>3
  <2>3. ~(k <= k - 1) BY <1>k
  <2>4. QED BY <2>1, <2>2, <2>3
<1>6. PICK h \in [SUBSET (1 .. k - 1) -> T] : FoldOf(h, k - 1, base, step) BY <1>5
<1> DEFINE g == [s \in SUBSET (1 .. k) |-> IF k \in s THEN step[k][h[s \ {k}]] ELSE h[s]]
<1>7. ASSUME NEW s \in SUBSET (1 .. k)
      PROVE  /\ g[s] \in T
             /\ g[s] = IF s = {} THEN base ELSE step[Max(s)][g[s \ {Max(s)}]]
  <2>1. s \ {k} \in SUBSET (1 .. k - 1) BY <1>3
  <2>2. CASE k \in s
    <3>1. Max(s) = k
      <4>1. s # {} BY <2>2
      <4>2. Max(s) \in s /\ k <= Max(s) BY <1>k, <4>1, <2>2, MaxOf
      <4>3. Max(s) \in 1 .. k BY <4>2
      <4>4. QED BY <1>k, <4>2, <4>3
    <3>2. g[s] = step[k][h[s \ {k}]] BY <2>2
    <3>3. g[s \ {k}] = h[s \ {k}]
      <4>1. s \ {k} \in SUBSET (1 .. k) /\ k \notin s \ {k} OBVIOUS
      <4>2. QED BY <4>1
    <3>4. h[s \ {k}] \in T BY <2>1, <1>6
    <3>5. step[k] \in [T -> T] BY <1>3, <1>4
    <3>6. QED BY <2>2, <3>1, <3>2, <3>3, <3>4, <3>5
  <2>3. CASE k \notin s
    <3>1. s \ {k} = s BY <2>3
    <3>2. s \in SUBSET (1 .. k - 1) BY <2>1, <3>1
    <3>3. g[s] = h[s] BY <2>3
    <3>4. h[s] = IF s = {} THEN base ELSE step[Max(s)][h[s \ {Max(s)}]] BY <3>2, <1>6 DEF FoldOf
    <3>5. g[s \ {Max(s)}] = h[s \ {Max(s)}]
      <4>1. s \ {Max(s)} \in SUBSET (1 .. k) /\ k \notin s \ {Max(s)} BY <2>3
      <4>2. QED BY <4>1
    <3>6. h[s] \in T BY <3>2, <1>6
    <3>7. QED BY <3>3, <3>4, <3>5, <3>6
  <2>4. QED BY <2>2, <2>3
<1>8. g \in [SUBSET (1 .. k) -> T] BY <1>7
<1>9. FoldOf(g, k, base, step)
  <2>1. DOMAIN g = SUBSET (1 .. k) OBVIOUS
  <2> HIDE DEF g
  <2>2. g = [s \in SUBSET (1 .. k) |-> g[s]] BY <1>8
  <2>3. [s \in SUBSET (1 .. k) |-> g[s]] = [s \in SUBSET (1 .. k) |-> IF s = {} THEN base ELSE step[Max(s)][g[s \ {Max(s)}]]]
        BY <1>7
  <2>4. QED BY <2>2, <2>3 DEF FoldOf
<1>10. QED BY <1>3, <1>8, <1>9

FoldsOn(n, T, base, step, more, g, h) ==
    /\ n \in Nat /\ base \in T
    /\ step \in [1 .. n -> [T -> T]] /\ more \in [1 .. n + 1 -> [T -> T]]
    /\ FoldOf(g, n, base, step) /\ FoldOf(h, n + 1, base, more)
    /\ \A i \in 1 .. n : more[i] = step[i]

\* The last step of a fold over n + 1 elements is taken on the fold over n.
LEMMA FoldLast ==
  ASSUME NEW n, NEW T, NEW base, NEW step, NEW more, NEW g, NEW h,
         FoldsOn(n, T, base, step, more, g, h)
  PROVE  h[1 .. n + 1] = more[n + 1][g[1 .. n]]
<1>0. /\ n \in Nat /\ base \in T
      /\ step \in [1 .. n -> [T -> T]] /\ more \in [1 .. n + 1 -> [T -> T]]
      /\ FoldOf(g, n, base, step) /\ FoldOf(h, n + 1, base, more)
      /\ \A i \in 1 .. n : more[i] = step[i]
      BY DEF FoldsOn
<1> DEFINE G == {s \in SUBSET (1 .. n) : h[s] = g[s]}
<1>1. {} \in G BY <1>0 DEF FoldOf
<1>2. ASSUME NEW s \in SUBSET (1 .. n), s # {}, s \ {Max(s)} \in G PROVE s \in G
  <2>1. Max(s) \in 1 .. n BY <1>0, <1>2, MaxOf
  <2>2. g[s] = step[Max(s)][g[s \ {Max(s)}]] BY <1>0, <1>2 DEF FoldOf
  <2>3. s \in SUBSET (1 .. n + 1) BY <1>0
  <2>4. h[s] = more[Max(s)][h[s \ {Max(s)}]] BY <1>0, <1>2, <2>3 DEF FoldOf
  <2>5. QED BY <1>0, <1>2, <2>1, <2>2, <2>4 
<1>3. h[1 .. n] = g[1 .. n]
  <2> HIDE DEF G
  <2>1. SUBSET (1 .. n) \subseteq G BY <1>0, <1>1, <1>2, SubsetsOf
  <2>2. QED BY <2>1 DEF G
<1>4. Max(1 .. n + 1) = n + 1
  <2>1. n + 1 \in Nat /\ n + 1 \in 1 .. n + 1 /\ 1 .. n + 1 \in SUBSET (1 .. n + 1) BY <1>0
  <2>2. Max(1 .. n + 1) \in 1 .. n + 1 /\ n + 1 <= Max(1 .. n + 1) BY <2>1, MaxOf
  <2>3. QED BY <1>0, <2>2
<1>5. (1 .. n + 1) \ {n + 1} = 1 .. n BY <1>0
<1>6. h[1 .. n + 1] = more[Max(1 .. n + 1)][h[(1 .. n + 1) \ {Max(1 .. n + 1)}]]
  <2>1. 1 \in 1 .. n + 1 BY <1>0
  <2>2. QED BY <1>0, <2>1 DEF FoldOf
<1>7. QED BY <1>3, <1>4, <1>5, <1>6

-----------------------------------------------------------------------------
Start(data) == Data(data.val, data.exp)

\* The record in which the commands ops leave a data set.
Applied(x, data, ops) == FoldLeft(LAMBDA s, c : Proc(x, s, c), Start(data), ops)

\* The commands of E keep the records of T in T.
ClosedUnder(x, T, E) == \A t \in T : \A c \in E : Proc(x, t, c) \in T

ApplySteps(x, T, ops) == [i \in 1 .. Len(ops) |-> [t \in T |-> Proc(x, t, ops[i])]]

AppliedBy(g, x, data, ops, T) ==
    /\ g \in [SUBSET (1 .. Len(ops)) -> T]
    /\ FoldOf(g, Len(ops), Start(data), ApplySteps(x, T, ops))
    /\ Applied(x, data, ops) = g[1 .. Len(ops)]

LEMMA AppliedFold ==
  ASSUME NEW x, NEW data, NEW E, NEW ops \in Seq(E), NEW T, Start(data) \in T,
         ClosedUnder(x, T, E)
  PROVE  \E g : AppliedBy(g, x, data, ops, T)
<1> DEFINE n == Len(ops)
           Rec(g) == g = [s \in SUBSET DOMAIN ops |->
                            IF s = {} THEN Start(data) ELSE Proc(x, g[s \ {Max(s)}], ops[Max(s)])]
<1>1. n \in Nat /\ DOMAIN ops = 1 .. n /\ \A i \in 1 .. n : ops[i] \in E OBVIOUS
<1>c. \A t \in T : \A c \in E : Proc(x, t, c) \in T BY DEF ClosedUnder
<1>2. ApplySteps(x, T, ops) \in [1 .. n -> [T -> T]]
  <2>1. \A i \in 1 .. n : [t \in T |-> Proc(x, t, ops[i])] \in [T -> T] BY <1>1, <1>c
  <2>2. QED BY <2>1, Zenon DEF ApplySteps
<1>3. PICK f \in [SUBSET (1 .. n) -> T] : FoldOf(f, n, Start(data), ApplySteps(x, T, ops))
      BY <1>1, <1>2, FoldExists
<1>4. ASSUME NEW s \in SUBSET (1 .. n), s # {} PROVE s \ {Max(s)} \in SUBSET (1 .. n) /\ Max(s) \in 1 .. n
      BY <1>1, <1>4, MaxOf
<1>5. Rec(f)
  <2>1. ASSUME NEW s \in SUBSET (1 .. n), s # {}
        PROVE  ApplySteps(x, T, ops)[Max(s)][f[s \ {Max(s)}]] = Proc(x, f[s \ {Max(s)}], ops[Max(s)])
        BY <1>4, <2>1 DEF ApplySteps
  <2>2. QED BY <1>1, <1>3, <2>1 DEF FoldOf
<1>6. PICK g : Rec(g) /\ Applied(x, data, ops) = g[DOMAIN ops]
  <2>1. \E g : Rec(g) BY <1>5
  <2> HIDE DEF n
  <2>2. QED BY <2>1 DEF Applied, FoldLeft, MapThenFoldSet
<1> DEFINE G == {s \in SUBSET (1 .. n) : g[s] \in T}
<1>7. {} \in G BY <1>1, <1>6
<1>8. ASSUME NEW s \in SUBSET (1 .. n), s # {}, s \ {Max(s)} \in G PROVE s \in G
  <2>1. s \ {Max(s)} \in SUBSET (1 .. n) /\ Max(s) \in 1 .. n BY <1>4, <1>8
  <2>2. g[s] = Proc(x, g[s \ {Max(s)}], ops[Max(s)]) BY <1>1, <1>6, <1>8
  <2>3. ops[Max(s)] \in E /\ g[s \ {Max(s)}] \in T BY <1>1, <1>8, <2>1
  <2>4. QED BY <1>c, <2>2, <2>3
<1>9. SUBSET (1 .. n) \subseteq G
  <2> HIDE DEF G, n
  <2>1. QED BY <1>1, <1>7, <1>8, SubsetsOf
<1>10. g \in [SUBSET (1 .. n) -> T] BY <1>1, <1>6, <1>9
<1>11. FoldOf(g, n, Start(data), ApplySteps(x, T, ops))
  <2>1. ASSUME NEW s \in SUBSET (1 .. n), s # {}
        PROVE  ApplySteps(x, T, ops)[Max(s)][g[s \ {Max(s)}]] = Proc(x, g[s \ {Max(s)}], ops[Max(s)])
        BY <1>4, <1>10, <2>1 DEF ApplySteps
  <2>2. QED BY <1>1, <1>6, <2>1 DEF FoldOf
<1>12. QED BY <1>1, <1>6, <1>10, <1>11 DEF AppliedBy

LEMMA AppliedLast ==
  ASSUME NEW x, NEW data, NEW E, NEW ops \in Seq(E), NEW e \in E, NEW T, Start(data) \in T,
         ClosedUnder(x, T, E)
  PROVE  Applied(x, data, Append(ops, e)) = Proc(x, Applied(x, data, ops), e)
<1> DEFINE n == Len(ops)
           more == Append(ops, e)
<1>c. \A t \in T : \A c \in E : Proc(x, t, c) \in T BY DEF ClosedUnder
<1>1. n \in Nat /\ more \in Seq(E) /\ Len(more) = n + 1 /\ more[n + 1] = e
      /\ \A i \in 1 .. n : more[i] = ops[i] /\ ops[i] \in E OBVIOUS
<1>2. PICK g : AppliedBy(g, x, data, ops, T) BY AppliedFold
<1>g. /\ g \in [SUBSET (1 .. n) -> T]
      /\ FoldOf(g, n, Start(data), ApplySteps(x, T, ops)) /\ Applied(x, data, ops) = g[1 .. n]
      BY <1>2 DEF AppliedBy
<1>3. PICK h : AppliedBy(h, x, data, more, T)
  <2> HIDE DEF more
  <2>1. QED BY <1>1, AppliedFold
<1>h. /\ h \in [SUBSET (1 .. n + 1) -> T]
      /\ FoldOf(h, n + 1, Start(data), ApplySteps(x, T, more)) /\ Applied(x, data, more) = h[1 .. n + 1]
  <2> HIDE DEF more, n
  <2>1. QED BY <1>1, <1>3 DEF AppliedBy
<1>4. ApplySteps(x, T, ops) \in [1 .. n -> [T -> T]]
  <2>1. \A i \in 1 .. n : [t \in T |-> Proc(x, t, ops[i])] \in [T -> T] BY <1>1, <1>c
  <2>2. QED BY <2>1, Zenon DEF ApplySteps
<1>5. ApplySteps(x, T, more) \in [1 .. n + 1 -> [T -> T]]
  <2> HIDE DEF more
  <2>0. \A i \in 1 .. n + 1 : more[i] \in E BY <1>1
  <2>1. \A i \in 1 .. n + 1 : [t \in T |-> Proc(x, t, more[i])] \in [T -> T] BY <1>c, <2>0
  <2>2. QED BY <1>1, <2>1, Zenon DEF ApplySteps
<1>6. \A i \in 1 .. n : ApplySteps(x, T, more)[i] = ApplySteps(x, T, ops)[i]
  <2> HIDE DEF more
  <2>1. \A i \in 1 .. n : i \in 1 .. n + 1 BY <1>1
  <2>2. QED BY <1>1, <2>1 DEF ApplySteps
<1>7. ApplySteps(x, T, more)[n + 1][g[1 .. n]] = Proc(x, g[1 .. n], e)
  <2> HIDE DEF more
  <2>1. n + 1 \in 1 .. n + 1 /\ g[1 .. n] \in T BY <1>1, <1>g
  <2>2. QED BY <1>1, <2>1 DEF ApplySteps
<1>8. h[1 .. n + 1] = ApplySteps(x, T, more)[n + 1][g[1 .. n]]
  <2> DEFINE st == ApplySteps(x, T, ops)
             nx == ApplySteps(x, T, more)
  <2> HIDE DEF n, more
  <2>1. FoldsOn(n, T, Start(data), st, nx, g, h)
        BY <1>1, <1>g, <1>h, <1>4, <1>5, <1>6 DEF FoldsOn
  <2> HIDE DEF st, nx
  <2>2. h[1 .. n + 1] = nx[n + 1][g[1 .. n]] BY <2>1, FoldLast
  <2>3. QED BY <2>2 DEF nx
<1>9. QED BY <1>g, <1>h, <1>7, <1>8

LEMMA AppliedIn ==
  ASSUME NEW x, NEW data, NEW E, NEW ops \in Seq(E), NEW T, Start(data) \in T,
         ClosedUnder(x, T, E)
  PROVE  Applied(x, data, ops) \in T
<1>1. PICK g : AppliedBy(g, x, data, ops, T) BY AppliedFold
<1>2. 1 .. Len(ops) \in SUBSET (1 .. Len(ops)) OBVIOUS
<1>3. QED BY <1>1, <1>2 DEF AppliedBy

LEMMA AppliedNone ==
  ASSUME NEW x, NEW data
  PROVE  Applied(x, data, <<>>) = Start(data)
<1>1. <<>> \in Seq({}) /\ Len(<<>>) = 0 OBVIOUS
<1>2. ClosedUnder(x, {Start(data)}, {}) BY DEF ClosedUnder
<1>3. Start(data) \in {Start(data)} OBVIOUS
<1>4. Applied(x, data, <<>>) \in {Start(data)} BY <1>1, <1>2, <1>3, AppliedIn
<1>5. QED BY <1>4

LEMMA ReplayApplied ==
  ASSUME NEW x, NEW data, NEW ops
  PROVE  Replay(x, data, ops) = DataSet(Applied(x, data, ops))
BY Zenon DEF Replay, Applied, Start

-----------------------------------------------------------------------------
(* The data sets commands work on, and the commands that are fed *)

Vals == [Dbs -> [Keys -> 0 .. MaxValue]]
Exps == [Dbs -> [Keys -> Int]]

Names == {"GET", "SET", "SETNX", "PSETEX", "INCR", "DEL", "EXPIRE", "PEXPIREAT", "PERSIST",
          "RENAME", "MOVE", "FLUSHDB", "FLUSHALL"}

Meant(c) ==
    /\ c.name \in {"SET", "SETNX"} => c.arg \in 1 .. MaxValue
    /\ c.name = "PSETEX" => c.arg > 0
    /\ c.name = "RENAME" => c.arg \in Keys
    /\ c.name = "MOVE" => c.arg \in Dbs

\* What clients send, and with it what is fed.
ClientOps == {c \in [name : Names, db : Dbs, key : Keys, arg : Int] : Meant(c)}
Frames == [name : {"MULTI", "EXEC"}, db : Dbs, key : {0}, arg : {0}]
FedOps == ClientOps \cup Frames

Works == [val : Vals, exp : Exps, out : Seq(FedOps), touched : SUBSET Places, expired : SUBSET Places,
          moved : SUBSET Places, dirty : BOOLEAN]

\* A key without a value has no expire.
Tidy(v, e) == \A d \in Dbs, k \in Keys : v[d][k] = Absent => e[d][k] = NoExpire

Work == {s \in Works : Tidy(s.val, s.exp)}

Contexts == [role : {"master", "slave", "loading"}, time : Int]

\* f with another value for key k of database d.
Put(f, d, k, v) == [f EXCEPT ![d] = [f[d] EXCEPT ![k] = v]]

\* s with other values, expires, touched, expired and moved keys; and dirty.
Changed(s, v, e, tou, ex, mo) ==
    [val |-> v, exp |-> e, out |-> s.out, touched |-> tou, expired |-> ex, moved |-> mo, dirty |-> s.dirty]
Dirtied(s, v, e, tou, ex, mo) ==
    [val |-> v, exp |-> e, out |-> s.out, touched |-> tou, expired |-> ex, moved |-> mo, dirty |-> TRUE]

LEMMA PutVal ==
  ASSUME NEW f \in Vals, NEW d \in Dbs, NEW k \in Keys, NEW v \in 0 .. MaxValue
  PROVE  /\ Put(f, d, k, v) \in Vals
         /\ \A d1 \in Dbs, k1 \in Keys : Put(f, d, k, v)[d1][k1] = IF d1 = d /\ k1 = k THEN v ELSE f[d1][k1]
BY DEF Put, Vals

LEMMA PutExp ==
  ASSUME NEW f \in Exps, NEW d \in Dbs, NEW k \in Keys, NEW v \in Int
  PROVE  /\ Put(f, d, k, v) \in Exps
         /\ \A d1 \in Dbs, k1 \in Keys : Put(f, d, k, v)[d1][k1] = IF d1 = d /\ k1 = k THEN v ELSE f[d1][k1]
BY DEF Put, Exps

LEMMA PutNoExpire ==
  ASSUME NEW f \in Exps, NEW d \in Dbs, NEW k \in Keys
  PROVE  /\ Put(f, d, k, NoExpire) \in Exps
         /\ \A d1 \in Dbs, k1 \in Keys : Put(f, d, k, NoExpire)[d1][k1] = IF d1 = d /\ k1 = k THEN NoExpire ELSE f[d1][k1]
<1>1. NoExpire \in Int BY DEF NoExpire
<1>2. QED BY <1>1, PutExp

LEMMA WorkIs ==
  ASSUME NEW s \in Work
  PROVE  /\ s.val \in Vals /\ s.exp \in Exps /\ s.out \in Seq(FedOps) /\ s.touched \in SUBSET Places
         /\ s.expired \in SUBSET Places /\ s.moved \in SUBSET Places /\ s.dirty \in BOOLEAN
         /\ Tidy(s.val, s.exp)
         /\ s = Changed(s, s.val, s.exp, s.touched, s.expired, s.moved)
BY DEF Work, Works, Changed

LEMMA ChangedIn ==
  ASSUME NEW s \in Work, NEW v \in Vals, NEW e \in Exps, Tidy(v, e), NEW tou \in SUBSET Places,
         NEW ex \in SUBSET Places, NEW mo \in SUBSET Places
  PROVE  Changed(s, v, e, tou, ex, mo) \in Work /\ Dirtied(s, v, e, tou, ex, mo) \in Work
BY DEF Work, Works, Changed, Dirtied

LEMMA DbDeleteIs ==
  ASSUME NEW s \in Work, NEW d \in Dbs, NEW k \in Keys
  PROVE  DbDelete(s, d, k) = Changed(s, Put(s.val, d, k, Absent), Put(s.exp, d, k, NoExpire), s.touched, s.expired,
                                     s.moved)
<1>1. DbDelete(s, d, k) = [s EXCEPT !.val = Put(s.val, d, k, Absent), !.exp = Put(s.exp, d, k, NoExpire)]
      BY DEF DbDelete, Put
<1>2. s \in Works BY DEF Work
<1>3. QED BY <1>1, <1>2 DEF Changed, Dirtied, Works

LEMMA SetKeyIs ==
  ASSUME NEW s \in Work, NEW d \in Dbs, NEW k \in Keys, NEW v
  PROVE  SetKey(s, d, k, v) = Dirtied(s, Put(s.val, d, k, v), Put(s.exp, d, k, NoExpire), s.touched \cup {<<d, k>>},
                                      s.expired, s.moved)
<1>1. SetKey(s, d, k, v) = [s EXCEPT !.val = Put(s.val, d, k, v), !.exp = Put(s.exp, d, k, NoExpire),
                                     !.touched = s.touched \cup {<<d, k>>}, !.dirty = TRUE]
      BY DEF SetKey, Modified, Put
<1>2. s \in Works BY DEF Work
<1>3. QED BY <1>1, <1>2 DEF Changed, Dirtied, Works
-----------------------------------------------------------------------------
(* What a command does to values and expires, once its keys are looked up *)

Deletes(x, when) == x.role = "master" /\ when <= x.time

ExpiresAt(x, c) == IF c.name = "EXPIRE" THEN x.time + c.arg ELSE c.arg

ValAfter(x, v, c) ==
    LET here == v[c.db][c.key]
    IN  CASE c.name = "SET" -> Put(v, c.db, c.key, c.arg)
          [] c.name = "SETNX" -> IF here # Absent THEN v ELSE Put(v, c.db, c.key, c.arg)
          [] c.name = "PSETEX" -> Put(v, c.db, c.key, 1)
          [] c.name = "INCR" -> IF here = MaxValue THEN v ELSE Put(v, c.db, c.key, here + 1)
          [] c.name = "DEL" -> IF here = Absent THEN v ELSE Put(v, c.db, c.key, Absent)
          [] c.name \in {"EXPIRE", "PEXPIREAT"} ->
               IF here # Absent /\ Deletes(x, ExpiresAt(x, c)) THEN Put(v, c.db, c.key, Absent) ELSE v
          [] c.name = "RENAME" ->
               IF c.key = c.arg \/ here = Absent THEN v
               ELSE Put(Put(v, c.db, c.key, Absent), c.db, c.arg, here)
          [] c.name = "MOVE" ->
               IF c.db = c.arg \/ here = Absent \/ v[c.arg][c.key] # Absent THEN v
               ELSE Put(Put(v, c.db, c.key, Absent), c.arg, c.key, here)
          [] c.name = "FLUSHDB" -> Emptied(v, {c.db}, Absent)
          [] c.name = "FLUSHALL" -> Emptied(v, Dbs, Absent)
          [] OTHER -> v

ExpAfter(x, v, e, c) ==
    LET here == v[c.db][c.key]
    IN  CASE c.name = "SET" -> Put(e, c.db, c.key, NoExpire)
          [] c.name = "SETNX" -> IF here # Absent THEN e ELSE Put(e, c.db, c.key, NoExpire)
          [] c.name = "PSETEX" -> Put(e, c.db, c.key, x.time + c.arg)
          [] c.name = "DEL" -> IF here = Absent THEN e ELSE Put(e, c.db, c.key, NoExpire)
          [] c.name \in {"EXPIRE", "PEXPIREAT"} ->
               IF here = Absent THEN e
               ELSE IF Deletes(x, ExpiresAt(x, c)) THEN Put(e, c.db, c.key, NoExpire)
               ELSE Put(e, c.db, c.key, ExpiresAt(x, c))
          [] c.name = "PERSIST" -> IF here = Absent THEN e ELSE Put(e, c.db, c.key, NoExpire)
          [] c.name = "RENAME" ->
               IF c.key = c.arg \/ here = Absent THEN e
               ELSE Put(Put(e, c.db, c.key, NoExpire), c.db, c.arg, e[c.db][c.key])
          [] c.name = "MOVE" ->
               IF c.db = c.arg \/ here = Absent \/ v[c.arg][c.key] # Absent THEN e
               ELSE Put(e, c.db, c.key, NoExpire)
          [] c.name = "FLUSHDB" -> Emptied(e, {c.db}, NoExpire)
          [] c.name = "FLUSHALL" -> Emptied(e, Dbs, NoExpire)
          [] OTHER -> e

\* What s became in t is accounted for.
Accounted(s, t) ==
    /\ s.touched \subseteq t.touched /\ s.expired \subseteq t.expired /\ s.moved \subseteq t.moved
    /\ \A d \in Dbs, k \in Keys :
          t.val[d][k] # s.val[d][k] => <<d, k>> \in t.touched \cup t.expired \cup t.moved

\* t is s after the command c.
Effect(x, s, t, c) ==
    /\ t \in Work /\ t.out = s.out /\ t.expired = s.expired /\ Accounted(s, t)
    /\ t.val = ValAfter(x, s.val, c) /\ t.exp = ExpAfter(x, s.val, s.exp, c)
    /\ s.dirty = FALSE /\ t.dirty = FALSE => t.val = s.val /\ t.exp = s.exp

LEMMA ClientOpIs ==
  ASSUME NEW c \in ClientOps
  PROVE  /\ c.name \in Names /\ c.db \in Dbs /\ c.key \in Keys /\ c.arg \in Int
         /\ c.name \in {"SET", "SETNX"} => c.arg \in 1 .. MaxValue
         /\ c.name = "PSETEX" => c.arg > 0
         /\ c.name = "RENAME" => c.arg \in Keys
         /\ c.name = "MOVE" => c.arg \in Dbs
BY DEF ClientOps, Meant

LEMMA ConstantsAre ==
  /\ 0 \in 0 .. MaxValue /\ 1 \in 0 .. MaxValue /\ MaxValue \in Nat /\ Keys \subseteq Nat
  /\ Absent = 0 /\ NoExpire = -1 /\ Absent \in 0 .. MaxValue /\ NoExpire \in Int
BY ServerAssumption DEF Absent, NoExpire

\* Nothing is done.
LEMMA SameEffect ==
  ASSUME NEW x, NEW s \in Work, NEW c, ValAfter(x, s.val, c) = s.val, ExpAfter(x, s.val, s.exp, c) = s.exp
  PROVE  Effect(x, s, s, c)
BY WorkIs DEF Effect, Accounted

\* One key gets the value v and the expire e.
LEMMA PutEffect ==
  ASSUME NEW x, NEW s \in Work, NEW c, NEW d \in Dbs, NEW k \in Keys, NEW v \in 0 .. MaxValue, NEW e \in Int,
         v = Absent => e = NoExpire,
         NEW t, t = Dirtied(s, Put(s.val, d, k, v), Put(s.exp, d, k, e), s.touched \cup {<<d, k>>},
                            s.expired, s.moved),
         ValAfter(x, s.val, c) = Put(s.val, d, k, v), ExpAfter(x, s.val, s.exp, c) = Put(s.exp, d, k, e)
  PROVE  Effect(x, s, t, c)
<1> DEFINE v1 == Put(s.val, d, k, v)
           e1 == Put(s.exp, d, k, e)
<1>1. v1 \in Vals /\ \A d1 \in Dbs, k1 \in Keys : v1[d1][k1] = IF d1 = d /\ k1 = k THEN v ELSE s.val[d1][k1]
  <2>1. s.val \in Vals BY WorkIs
  <2>2. QED BY <2>1, PutVal
<1>2. e1 \in Exps /\ \A d1 \in Dbs, k1 \in Keys : e1[d1][k1] = IF d1 = d /\ k1 = k THEN e ELSE s.exp[d1][k1]
  <2>1. s.exp \in Exps BY WorkIs
  <2>2. QED BY <2>1, PutExp
<1> HIDE DEF v1, e1
<1>3. Tidy(v1, e1) BY <1>1, <1>2, WorkIs DEF Tidy
<1>4. <<d, k>> \in Places BY DEF Places
<1>5. t \in Work BY <1>1, <1>2, <1>3, <1>4, WorkIs, ChangedIn DEF v1, e1
<1>6. t.out = s.out /\ t.val = v1 /\ t.exp = e1 /\ t.touched = s.touched \cup {<<d, k>>} /\ t.expired = s.expired
      /\ t.moved = s.moved /\ t.dirty = TRUE
      BY DEF Dirtied, v1, e1
<1>7. Accounted(s, t)
  <2>1. \A d1 \in Dbs, k1 \in Keys : t.val[d1][k1] # s.val[d1][k1] => <<d1, k1>> \in t.touched
    <3>1. SUFFICES ASSUME NEW d1 \in Dbs, NEW k1 \in Keys, v1[d1][k1] # s.val[d1][k1]
                   PROVE  <<d1, k1>> \in s.touched \cup {<<d, k>>}
          BY <1>6
    <3>2. d1 = d /\ k1 = k BY <1>1, <3>1
    <3>3. QED BY <3>2
  <2>2. QED BY <1>6, <2>1 DEF Accounted
<1>8. QED BY <1>5, <1>6, <1>7 DEF Effect, v1, e1

LEMMA PutPut ==
  ASSUME NEW f \in Exps, NEW d \in Dbs, NEW k \in Keys, NEW a, NEW b
  PROVE  Put(Put(f, d, k, a), d, k, b) = Put(f, d, k, b)
BY DEF Put, Exps

LEMMA PutSame ==
  ASSUME NEW f \in Exps, NEW d \in Dbs, NEW k \in Keys
  PROVE  Put(f, d, k, f[d][k]) = f
BY DEF Put, Exps

LEMMA ModifiedIs ==
  ASSUME NEW s, NEW v, NEW e, NEW tou, NEW ex, NEW mo, NEW p
  PROVE  Modified(Changed(s, v, e, tou, ex, mo), p) = Dirtied(s, v, e, tou \cup p, ex, mo)
<1> DEFINE r == Changed(s, v, e, tou, ex, mo)
<1>1. r \in [val : {v}, exp : {e}, out : {s.out}, touched : {tou}, expired : {ex}, moved : {mo}, dirty : {s.dirty}]
      /\ r.touched = tou
      BY DEF Changed
<1> HIDE DEF r
<1>2. Modified(r, p) = [r EXCEPT !.touched = tou \cup p, !.dirty = TRUE] BY <1>1 DEF Modified
<1>3. QED BY <1>1, <1>2 DEF Dirtied, r

LEMMA SetKeyEffect ==
  ASSUME NEW x, NEW s \in Work, NEW c, NEW d \in Dbs, NEW k \in Keys, NEW v \in 0 .. MaxValue, v # Absent,
         ValAfter(x, s.val, c) = Put(s.val, d, k, v), ExpAfter(x, s.val, s.exp, c) = Put(s.exp, d, k, NoExpire)
  PROVE  Effect(x, s, SetKey(s, d, k, v), c)
<1> DEFINE t == SetKey(s, d, k, v)
<1>1. t = Dirtied(s, Put(s.val, d, k, v), Put(s.exp, d, k, NoExpire), s.touched \cup {<<d, k>>}, s.expired, s.moved)
      BY SetKeyIs
<1>2. NoExpire \in Int BY ConstantsAre
<1> HIDE DEF t
<1>3. Effect(x, s, t, c) BY <1>1, <1>2, PutEffect
<1>4. QED BY <1>3 DEF t

LEMMA SetEffect ==
  ASSUME NEW x, NEW s \in Work, NEW c \in ClientOps, c.name = "SET"
  PROVE  Effect(x, s, SetKey(s, c.db, c.key, c.arg), c)
<1>1. c.db \in Dbs /\ c.key \in Keys /\ c.arg \in 0 .. MaxValue /\ c.arg # Absent
      BY ClientOpIs, ConstantsAre
<1>2. ValAfter(x, s.val, c) = Put(s.val, c.db, c.key, c.arg)
      /\ ExpAfter(x, s.val, s.exp, c) = Put(s.exp, c.db, c.key, NoExpire)
      BY DEF ValAfter, ExpAfter
<1>3. QED BY <1>1, <1>2, SetKeyEffect

LEMMA SetNXEffect ==
  ASSUME NEW x, NEW s \in Work, NEW c \in ClientOps, c.name = "SETNX"
  PROVE  Effect(x, s, SetNX(s, c), c)
<1>1. c.db \in Dbs /\ c.key \in Keys /\ c.arg \in 0 .. MaxValue /\ c.arg # Absent
      BY ClientOpIs, ConstantsAre
<1>2. CASE s.val[c.db][c.key] # Absent
  <2>1. ValAfter(x, s.val, c) = s.val /\ ExpAfter(x, s.val, s.exp, c) = s.exp BY <1>2 DEF ValAfter, ExpAfter
  <2>2. QED BY <1>2, <2>1, SameEffect DEF SetNX
<1>3. CASE s.val[c.db][c.key] = Absent
  <2>1. ValAfter(x, s.val, c) = Put(s.val, c.db, c.key, c.arg)
        /\ ExpAfter(x, s.val, s.exp, c) = Put(s.exp, c.db, c.key, NoExpire)
        BY <1>3 DEF ValAfter, ExpAfter
  <2>2. SetNX(s, c) = SetKey(s, c.db, c.key, c.arg) BY <1>3 DEF SetNX
  <2>3. Effect(x, s, SetKey(s, c.db, c.key, c.arg), c) BY <1>1, <2>1, SetKeyEffect
  <2>4. QED BY <2>2, <2>3
<1>4. QED BY <1>2, <1>3

LEMMA SetExEffect ==
  ASSUME NEW x \in Contexts, NEW s \in Work, NEW c \in ClientOps, c.name = "PSETEX"
  PROVE  Effect(x, s, SetEx(x, s, c), c)
<1> DEFINE d == c.db  k == c.key  e == x.time + c.arg
<1>1. d \in Dbs /\ k \in Keys /\ e \in Int BY ClientOpIs DEF Contexts
<1>2. ValAfter(x, s.val, c) = Put(s.val, d, k, 1) /\ ExpAfter(x, s.val, s.exp, c) = Put(s.exp, d, k, e)
      BY DEF ValAfter, ExpAfter
<1>3. SetEx(x, s, c) = [s EXCEPT !.val = Put(s.val, d, k, 1), !.exp = Put(Put(s.exp, d, k, NoExpire), d, k, e),
                                 !.touched = s.touched \cup {<<d, k>>}, !.dirty = TRUE]
      BY ZenonT(60) DEF SetEx, SetKey, Modified, Put
<1> HIDE DEF d, k, e
<1>4. Put(Put(s.exp, d, k, NoExpire), d, k, e) = Put(s.exp, d, k, e)
  <2>1. s.exp \in Exps BY WorkIs
  <2>2. QED BY <1>1, <2>1, PutPut
<1>5. SetEx(x, s, c) = Dirtied(s, Put(s.val, d, k, 1), Put(s.exp, d, k, e), s.touched \cup {<<d, k>>},
                               s.expired, s.moved)
  <2>1. s \in Works BY DEF Work
  <2>2. QED BY <1>3, <1>4, <2>1 DEF Dirtied, Works
<1>6. 1 # Absent BY ConstantsAre
<1>7. QED BY <1>1, <1>2, <1>5, <1>6, ConstantsAre, PutEffect

LEMMA IncrEffect ==
  ASSUME NEW x, NEW s \in Work, NEW c \in ClientOps, c.name = "INCR"
  PROVE  Effect(x, s, Incr(s, c), c)
<1> DEFINE d == c.db  k == c.key  v == s.val[d][k]
<1>1. d \in Dbs /\ k \in Keys BY ClientOpIs
<1>2. v \in 0 .. MaxValue BY <1>1, WorkIs DEF Vals
<1>3. CASE v = MaxValue
  <2>1. ValAfter(x, s.val, c) = s.val /\ ExpAfter(x, s.val, s.exp, c) = s.exp BY <1>3 DEF ValAfter, ExpAfter
  <2>2. QED BY <1>3, <2>1, SameEffect DEF Incr
<1>4. CASE v # MaxValue
  <2>1. ValAfter(x, s.val, c) = Put(s.val, d, k, v + 1) /\ ExpAfter(x, s.val, s.exp, c) = s.exp
        BY <1>4 DEF ValAfter, ExpAfter
  <2>2. Incr(s, c) = [s EXCEPT !.val = Put(s.val, d, k, v + 1), !.touched = s.touched \cup {<<d, k>>}, !.dirty = TRUE]
        BY <1>4 DEF Incr, Modified, Put
  <2> HIDE DEF d, k, v
  <2>3. Incr(s, c) = Dirtied(s, Put(s.val, d, k, v + 1), s.exp, s.touched \cup {<<d, k>>}, s.expired, s.moved)
    <3>1. s \in Works BY DEF Work
    <3>2. QED BY <2>2, <3>1 DEF Changed, Dirtied, Works
  <2>4. s.exp \in Exps /\ s.exp[d][k] \in Int /\ Put(s.exp, d, k, s.exp[d][k]) = s.exp
    <3>1. s.exp \in Exps BY WorkIs
    <3>2. QED BY <1>1, <3>1, PutSame DEF Exps
  <2>5. v + 1 \in 0 .. MaxValue /\ v + 1 # Absent BY <1>2, <1>4, ConstantsAre
  <2>6. QED BY <1>1, <2>1, <2>3, <2>4, <2>5, PutEffect
<1>5. QED BY <1>3, <1>4

LEMMA DeleteEffect ==
  ASSUME NEW x, NEW s \in Work, NEW c, NEW d \in Dbs, NEW k \in Keys,
         ValAfter(x, s.val, c) = Put(s.val, d, k, Absent), ExpAfter(x, s.val, s.exp, c) = Put(s.exp, d, k, NoExpire)
  PROVE  Effect(x, s, Modified(DbDelete(s, d, k), {<<d, k>>}), c)
<1>1. DbDelete(s, d, k) = Changed(s, Put(s.val, d, k, Absent), Put(s.exp, d, k, NoExpire), s.touched, s.expired,
                                  s.moved)
      BY DbDeleteIs
<1>2. Modified(DbDelete(s, d, k), {<<d, k>>})
        = Dirtied(s, Put(s.val, d, k, Absent), Put(s.exp, d, k, NoExpire), s.touched \cup {<<d, k>>}, s.expired,
                  s.moved)
      BY <1>1, ModifiedIs
<1>3. QED BY <1>2, ConstantsAre, PutEffect

LEMMA DelEffect ==
  ASSUME NEW x, NEW s \in Work, NEW c \in ClientOps, c.name = "DEL"
  PROVE  Effect(x, s, DelCommand(s, c), c)
<1>1. c.db \in Dbs /\ c.key \in Keys BY ClientOpIs
<1>2. CASE s.val[c.db][c.key] = Absent
  <2>1. ValAfter(x, s.val, c) = s.val /\ ExpAfter(x, s.val, s.exp, c) = s.exp BY <1>2 DEF ValAfter, ExpAfter
  <2>2. QED BY <1>2, <2>1, SameEffect DEF DelCommand
<1>3. CASE s.val[c.db][c.key] # Absent
  <2>1. ValAfter(x, s.val, c) = Put(s.val, c.db, c.key, Absent)
        /\ ExpAfter(x, s.val, s.exp, c) = Put(s.exp, c.db, c.key, NoExpire)
        BY <1>3 DEF ValAfter, ExpAfter
  <2>2. DelCommand(s, c) = Modified(DbDelete(s, c.db, c.key), {<<c.db, c.key>>}) BY <1>3 DEF DelCommand
  <2>3. QED BY <1>1, <2>1, <2>2, DeleteEffect
<1>4. QED BY <1>2, <1>3

LEMMA ExpireEffect ==
  ASSUME NEW x \in Contexts, NEW s \in Work, NEW c \in ClientOps, c.name \in {"EXPIRE", "PEXPIREAT"}
  PROVE  Effect(x, s, ExpireGeneric(x, s, c, ExpiresAt(x, c)), c)
<1> DEFINE d == c.db  k == c.key  e == ExpiresAt(x, c)
<1>1. d \in Dbs /\ k \in Keys /\ e \in Int BY ClientOpIs DEF Contexts, ExpiresAt
<1>2. CASE s.val[d][k] = Absent
  <2>1. ValAfter(x, s.val, c) = s.val /\ ExpAfter(x, s.val, s.exp, c) = s.exp BY <1>2 DEF ValAfter, ExpAfter
  <2>2. QED BY <1>2, <2>1, SameEffect DEF ExpireGeneric
<1>3. CASE s.val[d][k] # Absent /\ Deletes(x, e)
  <2>1. ValAfter(x, s.val, c) = Put(s.val, d, k, Absent) /\ ExpAfter(x, s.val, s.exp, c) = Put(s.exp, d, k, NoExpire)
        BY <1>3 DEF ValAfter, ExpAfter
  <2>2. ExpireGeneric(x, s, c, e) = Modified(DbDelete(s, d, k), {<<d, k>>}) BY <1>3 DEF ExpireGeneric, Deletes
  <2>3. QED BY <1>1, <2>1, <2>2, DeleteEffect
<1>4. CASE s.val[d][k] # Absent /\ ~Deletes(x, e)
  <2>1. ValAfter(x, s.val, c) = s.val /\ ExpAfter(x, s.val, s.exp, c) = Put(s.exp, d, k, e)
        BY <1>4 DEF ValAfter, ExpAfter
  <2>2. ExpireGeneric(x, s, c, e)
          = [s EXCEPT !.exp = Put(s.exp, d, k, e), !.touched = s.touched \cup {<<d, k>>}, !.dirty = TRUE]
        BY <1>4 DEF ExpireGeneric, Modified, Put, Deletes
  <2> HIDE DEF d, k, e
  <2>3. ExpireGeneric(x, s, c, e)
          = Dirtied(s, s.val, Put(s.exp, d, k, e), s.touched \cup {<<d, k>>}, s.expired, s.moved)
    <3>1. s \in Works BY DEF Work
    <3>2. QED BY <2>2, <3>1 DEF Changed, Dirtied, Works
  <2>4. s.val[d][k] \in 0 .. MaxValue /\ Put(s.val, d, k, s.val[d][k]) = s.val
    <3>1. s.val \in [Dbs -> [Keys -> 0 .. MaxValue]] BY WorkIs DEF Vals
    <3>2. QED BY <1>1, <3>1 DEF Put
  <2>5. QED BY <1>1, <1>4, <2>1, <2>3, <2>4, PutEffect DEF e
<1>5. QED BY <1>2, <1>3, <1>4

LEMMA PersistEffect ==
  ASSUME NEW x, NEW s \in Work, NEW c \in ClientOps, c.name = "PERSIST"
  PROVE  Effect(x, s, Persist(s, c), c)
<1> DEFINE d == c.db  k == c.key
<1>1. d \in Dbs /\ k \in Keys BY ClientOpIs
<1>2. ValAfter(x, s.val, c) = s.val BY DEF ValAfter
<1>e. s.exp \in Exps BY WorkIs
<1>3. CASE s.val[d][k] = Absent \/ s.exp[d][k] = NoExpire
  <2>1. ExpAfter(x, s.val, s.exp, c) = s.exp
    <3>1. s.val[d][k] # Absent => Put(s.exp, d, k, NoExpire) = s.exp BY <1>1, <1>3, <1>e, PutSame
    <3>2. QED BY <3>1 DEF ExpAfter
  <2>2. QED BY <1>2, <1>3, <2>1, SameEffect DEF Persist
<1>4. CASE s.val[d][k] # Absent /\ s.exp[d][k] # NoExpire
  <2>1. ExpAfter(x, s.val, s.exp, c) = Put(s.exp, d, k, NoExpire) BY <1>4 DEF ExpAfter
  <2>2. Persist(s, c) = [s EXCEPT !.exp = Put(s.exp, d, k, NoExpire), !.dirty = TRUE] BY <1>4 DEF Persist, Put
  <2> DEFINE e == Put(s.exp, d, k, NoExpire)
  <2>3. e \in Exps /\ \A d1 \in Dbs, k1 \in Keys : e[d1][k1] = IF d1 = d /\ k1 = k THEN NoExpire ELSE s.exp[d1][k1]
    <3>1. NoExpire \in Int BY ConstantsAre
    <3>2. QED BY <1>1, <1>e, <3>1, PutExp
  <2> HIDE DEF d, k, e
  <2>4. Tidy(s.val, e) BY <2>3, WorkIs DEF Tidy
  <2>5. Persist(s, c) = Dirtied(s, s.val, e, s.touched, s.expired, s.moved)
    <3>1. s \in Works BY DEF Work
    <3>2. QED BY <2>2, <3>1 DEF Dirtied, Works, e
  <2>6. Persist(s, c) \in Work BY <2>3, <2>4, <2>5, WorkIs, ChangedIn
  <2>7. QED BY <1>2, <2>1, <2>5, <2>6 DEF Effect, Accounted, Dirtied, e
<1>5. QED BY <1>3, <1>4

\* RENAME to another key, looked up in u; t is the server before that.
LEMMA RenameEffect ==
  ASSUME NEW x, NEW t \in Work, NEW u \in Work, NEW c \in ClientOps, c.name = "RENAME", c.key # c.arg,
         u.val[c.db][c.key] = t.val[c.db][c.key], u.exp[c.db][c.key] = t.exp[c.db][c.key]
  PROVE  IF t.val[c.db][c.key] = Absent THEN Rename(t, u, c) = t /\ Effect(x, t, t, c)
         ELSE Effect(x, u, Rename(t, u, c), c)
<1> DEFINE d == c.db  k == c.key  l == c.arg  v == u.val[d][k]  w == u.exp[d][k]
<1>1. d \in Dbs /\ k \in Keys /\ l \in Keys /\ k # l BY ClientOpIs
<1>2. CASE v = Absent
  <2>1. ValAfter(x, t.val, c) = t.val /\ ExpAfter(x, t.val, t.exp, c) = t.exp BY <1>2 DEF ValAfter, ExpAfter
  <2>2. QED BY <1>2, <2>1, SameEffect DEF Rename
<1>3. CASE v # Absent
  <2> DEFINE v1 == Put(u.val, d, k, Absent)  v2 == Put(v1, d, l, v)
             e1 == Put(u.exp, d, k, NoExpire)  e2 == Put(e1, d, l, w)
             both == {<<d, k>>, <<d, l>>}
  <2>1. ValAfter(x, u.val, c) = v2 /\ ExpAfter(x, u.val, u.exp, c) = e2 BY <1>1, <1>3 DEF ValAfter, ExpAfter
  <2>2. Rename(t, u, c) = [u EXCEPT !.val = v2, !.exp = e2, !.touched = u.touched \cup both, !.dirty = TRUE]
    <3>1. Rename(t, u, c) = Modified([DbDelete(u, d, k) EXCEPT !.val[d][l] = v, !.exp[d][l] = w], both)
          BY <1>3 DEF Rename
    <3>2. [DbDelete(u, d, k) EXCEPT !.val[d][l] = v, !.exp[d][l] = w] = [u EXCEPT !.val = v2, !.exp = e2]
      <4> HIDE DEF d, k, l, v, w
      <4>1. QED BY ZenonT(60) DEF DbDelete, Put
    <3>3. QED BY <3>1, <3>2, ZenonT(30) DEF Modified
  <2>3. u.val \in Vals /\ u.exp \in Exps /\ v \in 0 .. MaxValue /\ w \in Int
    <3>1. u.val \in Vals /\ u.exp \in Exps BY WorkIs
    <3>2. QED BY <1>1, <3>1 DEF Vals, Exps
  <2> HIDE DEF d, k, l, v, w
  <2>4. v1 \in Vals /\ \A d1 \in Dbs, k1 \in Keys : v1[d1][k1] = IF d1 = d /\ k1 = k THEN Absent ELSE u.val[d1][k1]
        BY <1>1, <2>3, PutVal, ConstantsAre
  <2>5. e1 \in Exps /\ \A d1 \in Dbs, k1 \in Keys : e1[d1][k1] = IF d1 = d /\ k1 = k THEN NoExpire ELSE u.exp[d1][k1]
    <3>1. d \in Dbs /\ k \in Keys /\ u.exp \in Exps BY <1>1, <2>3
    <3>2. QED BY <3>1, PutNoExpire
  <2> HIDE DEF v1, e1
  <2>6. v2 \in Vals /\ \A d1 \in Dbs, k1 \in Keys : v2[d1][k1] = IF d1 = d /\ k1 = l THEN v ELSE v1[d1][k1]
        BY <1>1, <2>3, <2>4, PutVal
  <2>7. e2 \in Exps /\ \A d1 \in Dbs, k1 \in Keys : e2[d1][k1] = IF d1 = d /\ k1 = l THEN w ELSE e1[d1][k1]
        BY <1>1, <2>3, <2>5, PutExp
  <2> HIDE DEF v2, e2
  <2>8. Tidy(v2, e2) BY <1>1, <1>3, <2>4, <2>5, <2>6, <2>7, WorkIs DEF Tidy
  <2>9. both \in SUBSET Places BY <1>1 DEF Places
  <2>10. \A d1 \in Dbs, k1 \in Keys : v2[d1][k1] # u.val[d1][k1] => <<d1, k1>> \in both BY <2>4, <2>6
  <2> HIDE DEF both
  <2>11. Rename(t, u, c) = Dirtied(u, v2, e2, u.touched \cup both, u.expired, u.moved)
    <3>1. u \in Works BY DEF Work
    <3>2. QED BY <2>2, <3>1 DEF Dirtied, Works
  <2>12. Rename(t, u, c) \in Work BY <2>6, <2>7, <2>8, <2>9, <2>11, WorkIs, ChangedIn
  <2>13. Effect(x, u, Rename(t, u, c), c) BY <2>1, <2>10, <2>11, <2>12 DEF Effect, Accounted, Dirtied
  <2>14. QED BY <1>3, <2>13 DEF v, d, k
<1>4. QED BY <1>2, <1>3

\* MOVE to another database, where the key is looked up in u.
LEMMA MoveEffect ==
  ASSUME NEW x, NEW t \in Work, NEW u \in Work, NEW c \in ClientOps, c.name = "MOVE", c.db # c.arg,
         u.val[c.db][c.key] = t.val[c.db][c.key], u.exp[c.db][c.key] = t.exp[c.db][c.key]
  PROVE  IF t.val[c.db][c.key] = Absent THEN Move(t, u, c) = t /\ Effect(x, t, t, c)
         ELSE Effect(x, u, Move(t, u, c), c)
<1> DEFINE d == c.db  k == c.key  l == c.arg  v == u.val[d][k]
<1>1. d \in Dbs /\ k \in Keys /\ l \in Dbs /\ d # l BY ClientOpIs
<1>2. CASE v = Absent
  <2>1. ValAfter(x, t.val, c) = t.val /\ ExpAfter(x, t.val, t.exp, c) = t.exp BY <1>2 DEF ValAfter, ExpAfter
  <2>2. QED BY <1>2, <2>1, SameEffect DEF Move
<1>3. CASE v # Absent /\ u.val[l][k] # Absent
  <2>1. ValAfter(x, u.val, c) = u.val /\ ExpAfter(x, u.val, u.exp, c) = u.exp BY <1>3 DEF ValAfter, ExpAfter
  <2>2. QED BY <1>3, <2>1, SameEffect DEF Move
<1>4. CASE v # Absent /\ u.val[l][k] = Absent
  <2> DEFINE v1 == Put(u.val, d, k, Absent)  v2 == Put(v1, l, k, v)
             e1 == Put(u.exp, d, k, NoExpire)
             both == {<<d, k>>, <<l, k>>}
  <2>1. ValAfter(x, u.val, c) = v2 /\ ExpAfter(x, u.val, u.exp, c) = e1 BY <1>1, <1>4 DEF ValAfter, ExpAfter
  <2>2. Move(t, u, c) = [u EXCEPT !.val = v2, !.exp = e1, !.moved = u.moved \cup both, !.dirty = TRUE]
    <3>1. Move(t, u, c) = [DbDelete(u, d, k) EXCEPT !.val[l][k] = v, !.moved = @ \cup both, !.dirty = TRUE]
          BY <1>4 DEF Move
    <3> HIDE DEF d, k, l, v
    <3>2. QED BY <3>1, ZenonT(30) DEF DbDelete, Put
  <2>3. u.val \in Vals /\ u.exp \in Exps /\ v \in 0 .. MaxValue
    <3>1. u.val \in Vals /\ u.exp \in Exps BY WorkIs
    <3>2. QED BY <1>1, <3>1 DEF Vals, Exps
  <2>t. u.exp[l][k] = NoExpire BY <1>1, <1>4, WorkIs DEF Tidy
  <2> HIDE DEF d, k, l, v
  <2>4. v1 \in Vals /\ \A d1 \in Dbs, k1 \in Keys : v1[d1][k1] = IF d1 = d /\ k1 = k THEN Absent ELSE u.val[d1][k1]
        BY <1>1, <2>3, PutVal, ConstantsAre
  <2>5. e1 \in Exps /\ \A d1 \in Dbs, k1 \in Keys : e1[d1][k1] = IF d1 = d /\ k1 = k THEN NoExpire ELSE u.exp[d1][k1]
    <3>1. d \in Dbs /\ k \in Keys /\ u.exp \in Exps BY <1>1, <2>3
    <3>2. QED BY <3>1, PutNoExpire
  <2> HIDE DEF v1, e1
  <2>6. v2 \in Vals /\ \A d1 \in Dbs, k1 \in Keys : v2[d1][k1] = IF d1 = l /\ k1 = k THEN v ELSE v1[d1][k1]
        BY <1>1, <2>3, <2>4, PutVal
  <2> HIDE DEF v2
  <2>8. Tidy(v2, e1) BY <1>1, <1>4, <2>4, <2>5, <2>6, <2>t, WorkIs DEF Tidy
  <2>9. both \in SUBSET Places BY <1>1 DEF Places
  <2>10. \A d1 \in Dbs, k1 \in Keys : v2[d1][k1] # u.val[d1][k1] => <<d1, k1>> \in both BY <2>4, <2>6
  <2> HIDE DEF both
  <2>11. Move(t, u, c) = Dirtied(u, v2, e1, u.touched, u.expired, u.moved \cup both)
    <3>1. u \in Works BY DEF Work
    <3>2. QED BY <2>2, <3>1 DEF Dirtied, Works
  <2>12. Move(t, u, c) \in Work BY <2>6, <2>5, <2>8, <2>9, <2>11, WorkIs, ChangedIn
  <2>13. Effect(x, u, Move(t, u, c), c) BY <2>1, <2>10, <2>11, <2>12 DEF Effect, Accounted, Dirtied
  <2>14. QED BY <1>4, <2>13 DEF v, d, k
<1>5. QED BY <1>2, <1>3, <1>4

LEMMA FlushEffect ==
  ASSUME NEW x, NEW s \in Work, NEW c \in ClientOps, NEW ds \in SUBSET Dbs,
         (c.name = "FLUSHDB" /\ ds = {c.db}) \/ (c.name = "FLUSHALL" /\ ds = Dbs)
  PROVE  Effect(x, s, Flush(s, ds), c)
<1> DEFINE v == Emptied(s.val, ds, Absent)
           e == Emptied(s.exp, ds, NoExpire)
           there == PlacesIn(s, ds)
<1>1. ValAfter(x, s.val, c) = v /\ ExpAfter(x, s.val, s.exp, c) = e BY DEF ValAfter, ExpAfter
<1>w. s.val \in Vals /\ s.exp \in Exps /\ s \in Works BY WorkIs DEF Work
<1>2. v \in Vals /\ \A d1 \in Dbs, k1 \in Keys : v[d1][k1] = IF d1 \in ds THEN Absent ELSE s.val[d1][k1]
      BY <1>w, ConstantsAre DEF Emptied, Vals
<1>3. e \in Exps /\ \A d1 \in Dbs, k1 \in Keys : e[d1][k1] = IF d1 \in ds THEN NoExpire ELSE s.exp[d1][k1]
  <2>1. NoExpire \in Int BY ConstantsAre
  <2>2. QED BY <1>w, <2>1 DEF Emptied, Exps
<1>4. there \in SUBSET Places
      /\ \A d1 \in ds, k1 \in Keys : s.val[d1][k1] # Absent => <<d1, k1>> \in there
  <2>1. ASSUME NEW d1 \in ds, NEW k1 \in Keys, s.val[d1][k1] # Absent PROVE <<d1, k1>> \in there
    <3>1. <<d1, k1>> \in Places BY DEF Places
    <3>2. QED BY <2>1, <3>1 DEF PlacesIn
  <2>2. QED BY <2>1 DEF PlacesIn
<1>5. Flush(s, ds) = [s EXCEPT !.val = v, !.exp = e, !.touched = s.touched \cup there,
                               !.dirty = s.dirty \/ there # {} \/ ds = Dbs]
      BY DEF Flush
<1> HIDE DEF v, e, there
<1>6. Tidy(v, e) BY <1>2, <1>3, WorkIs DEF Tidy
<1>7. Flush(s, ds) = IF s.dirty \/ there # {} \/ ds = Dbs
                     THEN Dirtied(s, v, e, s.touched \cup there, s.expired, s.moved)
                     ELSE Changed(s, v, e, s.touched \cup there, s.expired, s.moved)
  <2>1. CASE s.dirty \/ there # {} \/ ds = Dbs
    <3>1. (s.dirty \/ there # {} \/ ds = Dbs) = TRUE BY <2>1
    <3>2. Flush(s, ds) = [s EXCEPT !.val = v, !.exp = e, !.touched = s.touched \cup there, !.dirty = TRUE]
          BY <1>5, <3>1
    <3>3. QED BY <1>w, <2>1, <3>2 DEF Dirtied, Works
  <2>2. CASE ~(s.dirty \/ there # {} \/ ds = Dbs)
    <3>1. (s.dirty \/ there # {} \/ ds = Dbs) = FALSE /\ s.dirty = FALSE BY <1>w, <2>2 DEF Works
    <3>2. Flush(s, ds) = [s EXCEPT !.val = v, !.exp = e, !.touched = s.touched \cup there, !.dirty = FALSE]
          BY <1>5, <3>1
    <3>3. QED BY <1>w, <2>2, <3>1, <3>2 DEF Changed, Works
  <2>3. QED BY <2>1, <2>2
<1>8. Flush(s, ds) \in Work BY <1>2, <1>3, <1>4, <1>6, <1>7, WorkIs, ChangedIn
<1>9. \A d1 \in Dbs, k1 \in Keys : v[d1][k1] # s.val[d1][k1] => <<d1, k1>> \in there BY <1>2, <1>4
<1>10. there = {} => v = s.val /\ e = s.exp
  <2>1. SUFFICES ASSUME there = {} PROVE v = s.val /\ e = s.exp OBVIOUS
  <2>2. \A d1 \in Dbs, k1 \in Keys : v[d1][k1] = s.val[d1][k1] BY <1>9, <2>1
  <2>3. \A d1 \in Dbs, k1 \in Keys : e[d1][k1] = s.exp[d1][k1]
    <3>1. \A d1 \in ds, k1 \in Keys : s.val[d1][k1] = Absent BY <1>4, <2>1
    <3>2. QED BY <1>3, <3>1, WorkIs DEF Tidy
  <2>4. v = s.val BY <1>2, <1>w, <2>2 DEF Vals
  <2>5. e = s.exp BY <1>3, <1>w, <2>3 DEF Exps
  <2>6. QED BY <2>4, <2>5
<1>11. QED
  <2>1. CASE s.dirty \/ there # {} \/ ds = Dbs
    <3>1. Flush(s, ds) = Dirtied(s, v, e, s.touched \cup there, s.expired, s.moved) BY <1>7, <2>1
    <3>2. QED BY <1>1, <1>8, <1>9, <3>1 DEF Effect, Accounted, Dirtied
  <2>2. CASE ~(s.dirty \/ there # {} \/ ds = Dbs)
    <3>1. Flush(s, ds) = Changed(s, v, e, s.touched \cup there, s.expired, s.moved) BY <1>7, <2>2
    <3>2. v = s.val /\ e = s.exp BY <1>10, <2>2
    <3>3. QED BY <1>1, <1>8, <3>1, <3>2 DEF Effect, Accounted, Changed
  <2>3. QED BY <2>1, <2>2

-----------------------------------------------------------------------------
(* Looking a key up *)

LEMMA ExpireIs ==
  ASSUME NEW s \in Work, NEW d \in Dbs, NEW k \in Keys
  PROVE  /\ Expire(s, d, k) \in Work
         /\ Op("DEL", d, k, 0) \in ClientOps
         /\ Expire(s, d, k).val = Put(s.val, d, k, Absent) /\ Expire(s, d, k).exp = Put(s.exp, d, k, NoExpire)
         /\ Expire(s, d, k).out = Append(s.out, Op("DEL", d, k, 0))
         /\ Expire(s, d, k).expired = s.expired \cup {<<d, k>>}
         /\ Expire(s, d, k).dirty = s.dirty
         /\ Accounted(s, Expire(s, d, k))
         /\ \A d1 \in Dbs, k1 \in Keys :
               d1 # d \/ k1 # k => /\ Expire(s, d, k).val[d1][k1] = s.val[d1][k1]
                                 /\ Expire(s, d, k).exp[d1][k1] = s.exp[d1][k1]
<1> DEFINE v == Put(s.val, d, k, Absent)
           e == Put(s.exp, d, k, NoExpire)
           del == Op("DEL", d, k, 0)
<1>w. s.val \in Vals /\ s.exp \in Exps /\ s \in Works BY WorkIs DEF Work
<1>1. v \in Vals /\ \A d1 \in Dbs, k1 \in Keys : v[d1][k1] = IF d1 = d /\ k1 = k THEN Absent ELSE s.val[d1][k1]
      BY <1>w, PutVal, ConstantsAre
<1>2. e \in Exps /\ \A d1 \in Dbs, k1 \in Keys : e[d1][k1] = IF d1 = d /\ k1 = k THEN NoExpire ELSE s.exp[d1][k1]
  <2>1. NoExpire \in Int BY ConstantsAre
  <2>2. QED BY <1>w, <2>1, PutExp
<1>3. del \in ClientOps BY DEF Op, ClientOps, Names, Meant
<1>4. Expire(s, d, k) = [s EXCEPT !.val = v, !.exp = e, !.out = Append(s.out, del), !.expired = s.expired \cup {<<d, k>>}]
  <2> HIDE DEF del
  <2>1. QED BY DEF Expire, DbDelete, Put, del
<1> HIDE DEF v, e, del
<1>5. Tidy(v, e) BY <1>1, <1>2, WorkIs DEF Tidy
<1>6. <<d, k>> \in Places BY DEF Places
<1>7. Append(s.out, del) \in Seq(FedOps)
  <2>1. s.out \in Seq(FedOps) /\ del \in FedOps BY <1>3, WorkIs DEF FedOps
  <2>2. QED BY <2>1
<1>8. Expire(s, d, k) \in Works /\ Expire(s, d, k).val = v /\ Expire(s, d, k).exp = e
      /\ Expire(s, d, k).out = Append(s.out, del) /\ Expire(s, d, k).expired = s.expired \cup {<<d, k>>}
      /\ Expire(s, d, k).touched = s.touched /\ Expire(s, d, k).moved = s.moved /\ Expire(s, d, k).dirty = s.dirty
  <2> DEFINE o == Append(s.out, del)
  <2> HIDE DEF o
  <2>1. Expire(s, d, k) = [s EXCEPT !.val = v, !.exp = e, !.out = o, !.expired = s.expired \cup {<<d, k>>}]
        BY <1>4 DEF o
  <2>2. o \in Seq(FedOps) BY <1>7 DEF o
  <2> DEFINE x == s.expired \cup {<<d, k>>}
  <2>3. x \in SUBSET Places
    <3>1. s.expired \in SUBSET Places BY WorkIs
    <3>2. QED BY <1>6, <3>1
  <2> HIDE DEF x
  <2>4. Expire(s, d, k) = [s EXCEPT !.val = v, !.exp = e, !.out = o, !.expired = x] BY <2>1 DEF x
  <2>5. Expire(s, d, k) = [val |-> v, exp |-> e, out |-> o, touched |-> s.touched, expired |-> x, moved |-> s.moved,
                           dirty |-> s.dirty]
        BY <1>w, <2>4 DEF Works
  <2>6. s.touched \in SUBSET Places /\ s.moved \in SUBSET Places /\ s.dirty \in BOOLEAN BY WorkIs
  <2>7. Expire(s, d, k) \in Works BY <1>1, <1>2, <2>2, <2>3, <2>5, <2>6 DEF Works
  <2>8. QED BY <2>5, <2>7 DEF x, o
<1>9. Expire(s, d, k) \in Work BY <1>5, <1>8 DEF Work
<1>10. Accounted(s, Expire(s, d, k))
  <2>1. \A d1 \in Dbs, k1 \in Keys : v[d1][k1] # s.val[d1][k1] => <<d1, k1>> \in s.expired \cup {<<d, k>>} BY <1>1
  <2>2. QED BY <1>8, <2>1 DEF Accounted
<1>11. QED BY <1>1, <1>2, <1>3, <1>8, <1>9, <1>10 DEF v, e, del

\* The look-ups of a context keep the records of T in T.
LooksUpIn(x, T) == x.role = "master" => \A t \in T : \A d \in Dbs : \A k \in Keys : Expire(t, d, k) \in T

LEMMA LookUpIs ==
  ASSUME NEW x, NEW T, NEW s \in T, LooksUpIn(x, T), NEW d \in Dbs, NEW k \in Keys
  PROVE  ExpireIfNeeded(x, s, d, k) \in T /\ ExpireIfNeeded(x, s, d, k) \in {s, Expire(s, d, k)}
<1>1. CASE x.role = "master"
  <2>1. Expire(s, d, k) \in T BY <1>1 DEF LooksUpIn
  <2>2. QED BY <2>1 DEF ExpireIfNeeded
<1>2. CASE x.role # "master" BY <1>2 DEF ExpireIfNeeded
<1>3. QED BY <1>1, <1>2

\* The second look-up of RENAME and MOVE leaves the first key as it is.
LEMMA LookUpKeeps ==
  ASSUME NEW x, NEW s \in Work, NEW d \in Dbs, NEW k \in Keys, NEW d1 \in Dbs, NEW k1 \in Keys, d # d1 \/ k # k1
  PROVE  /\ ExpireIfNeeded(x, s, d, k).val[d1][k1] = s.val[d1][k1]
         /\ ExpireIfNeeded(x, s, d, k).exp[d1][k1] = s.exp[d1][k1]
<1>1. ExpireIfNeeded(x, s, d, k) \in {s, Expire(s, d, k)} BY DEF ExpireIfNeeded
<1>2. Expire(s, d, k).val[d1][k1] = s.val[d1][k1] /\ Expire(s, d, k).exp[d1][k1] = s.exp[d1][k1] BY ExpireIs
<1>3. QED BY <1>1, <1>2

\* A command has its effect on what its look-ups leave.
LEMMA ProcEffect ==
  ASSUME NEW x \in Contexts, NEW T \in SUBSET Work, NEW s \in T, LooksUpIn(x, T), NEW c \in ClientOps
  PROVE  \E u \in T : Effect(x, u, Proc(x, s, c), c)
<1> DEFINE t == ExpireIfNeeded(x, s, c.db, c.key)
<1>0. c.name \in Names /\ c.db \in Dbs /\ c.key \in Keys BY ClientOpIs
<1>s. s \in Work OBVIOUS
<1>1. t \in T /\ t \in Work BY <1>0, LookUpIs
<1> HIDE DEF t
<1>2. CASE c.name = "PERSIST"
  <2>1. Proc(x, s, c) = Persist(s, c) BY <1>2 DEF Proc
  <2>2. QED BY <1>2, <2>1, PersistEffect
<1>3. CASE c.name \in {"FLUSHDB", "FLUSHALL"}
  <2> DEFINE ds == IF c.name = "FLUSHDB" THEN {c.db} ELSE Dbs
  <2>1. Proc(x, s, c) = Flush(s, ds) BY <1>3 DEF Proc
  <2>2. ds \in SUBSET Dbs /\ ((c.name = "FLUSHDB" /\ ds = {c.db}) \/ (c.name = "FLUSHALL" /\ ds = Dbs)) BY <1>0, <1>3
  <2> HIDE DEF ds
  <2>3. QED BY <2>1, <2>2, FlushEffect
<1>4. CASE (c.name = "RENAME" /\ c.key = c.arg) \/ (c.name = "MOVE" /\ c.db = c.arg)
  <2>1. Proc(x, s, c) = s BY <1>4 DEF Proc
  <2>2. ValAfter(x, s.val, c) = s.val /\ ExpAfter(x, s.val, s.exp, c) = s.exp BY <1>4 DEF ValAfter, ExpAfter
  <2>3. QED BY <2>1, <2>2, <1>s, SameEffect
<1>5. CASE c.name \in {"GET", "SET", "SETNX", "PSETEX", "INCR", "DEL", "EXPIRE", "PEXPIREAT"}
  <2>1. Proc(x, s, c) = LookedUp(x, t, c) BY <1>5 DEF Proc, t
  <2>2. CASE c.name = "GET"
    <3>1. LookedUp(x, t, c) = t BY <2>2 DEF LookedUp
    <3>2. ValAfter(x, t.val, c) = t.val /\ ExpAfter(x, t.val, t.exp, c) = t.exp BY <2>2 DEF ValAfter, ExpAfter
    <3>3. QED BY <1>1, <2>1, <3>1, <3>2, SameEffect
  <2>3. CASE c.name = "SET"
    <3>1. LookedUp(x, t, c) = SetKey(t, c.db, c.key, c.arg) BY <2>3 DEF LookedUp
    <3>2. QED BY <1>1, <2>1, <2>3, <3>1, SetEffect
  <2>4. CASE c.name = "SETNX"
    <3>1. LookedUp(x, t, c) = SetNX(t, c) BY <2>4 DEF LookedUp
    <3>2. QED BY <1>1, <2>1, <2>4, <3>1, SetNXEffect
  <2>5. CASE c.name = "PSETEX"
    <3>1. LookedUp(x, t, c) = SetEx(x, t, c) BY <2>5 DEF LookedUp
    <3>2. QED BY <1>1, <2>1, <2>5, <3>1, SetExEffect
  <2>6. CASE c.name = "INCR"
    <3>1. LookedUp(x, t, c) = Incr(t, c) BY <2>6 DEF LookedUp
    <3>2. QED BY <1>1, <2>1, <2>6, <3>1, IncrEffect
  <2>7. CASE c.name = "DEL"
    <3>1. LookedUp(x, t, c) = DelCommand(t, c) BY <2>7 DEF LookedUp
    <3>2. QED BY <1>1, <2>1, <2>7, <3>1, DelEffect
  <2>8. CASE c.name \in {"EXPIRE", "PEXPIREAT"}
    <3>1. LookedUp(x, t, c) = ExpireGeneric(x, t, c, ExpiresAt(x, c)) BY <2>8 DEF LookedUp, ExpiresAt
    <3>2. QED BY <1>1, <2>1, <2>8, <3>1, ExpireEffect
  <2>9. QED BY <1>5, <2>2, <2>3, <2>4, <2>5, <2>6, <2>7, <2>8
<1>6. CASE c.name = "RENAME" /\ c.key # c.arg
  <2> DEFINE u == ExpireIfNeeded(x, t, c.db, c.arg)
  <2>1. Proc(x, s, c) = Rename(t, u, c) BY <1>6 DEF Proc, LookedUp, RenameCommand, t
  <2>2. c.arg \in Keys BY <1>6, ClientOpIs
  <2>3. u \in T /\ u \in Work BY <1>0, <1>1, <2>2, LookUpIs
  <2>4. u.val[c.db][c.key] = t.val[c.db][c.key] /\ u.exp[c.db][c.key] = t.exp[c.db][c.key]
        BY <1>0, <1>1, <1>6, <2>2, LookUpKeeps
  <2> HIDE DEF u
  <2>5. QED BY <1>1, <1>6, <2>1, <2>3, <2>4, RenameEffect
<1>7. CASE c.name = "MOVE" /\ c.db # c.arg
  <2> DEFINE u == ExpireIfNeeded(x, t, c.arg, c.key)
  <2>1. Proc(x, s, c) = Move(t, u, c) BY <1>7 DEF Proc, LookedUp, MoveCommand, t
  <2>2. c.arg \in Dbs BY <1>7, ClientOpIs
  <2>3. u \in T /\ u \in Work BY <1>0, <1>1, <2>2, LookUpIs
  <2>4. u.val[c.db][c.key] = t.val[c.db][c.key] /\ u.exp[c.db][c.key] = t.exp[c.db][c.key]
        BY <1>0, <1>1, <1>7, <2>2, LookUpKeeps
  <2> HIDE DEF u
  <2>5. QED BY <1>1, <1>7, <2>1, <2>3, <2>4, MoveEffect
<1>8. QED BY <1>0, <1>2, <1>3, <1>4, <1>5, <1>6, <1>7 DEF Names

\* A replica, or a server that loads the file, looks nothing up.
LEMMA FollowerEffect ==
  ASSUME NEW x \in Contexts, x.role # "master", NEW s \in Work, NEW c \in ClientOps
  PROVE  Effect(x, s, Proc(x, s, c), c)
<1>1. {s} \in SUBSET Work /\ s \in {s} /\ LooksUpIn(x, {s}) BY DEF LooksUpIn
<1>2. \E u \in {s} : Effect(x, u, Proc(x, s, c), c) BY <1>1, ProcEffect
<1>3. QED BY <1>2

LEMMA FrameIs ==
  ASSUME NEW x, NEW s, NEW c \in Frames
  PROVE  Proc(x, s, c) = s
BY DEF Proc, Frames

LEMMA FollowerClosed ==
  ASSUME NEW x \in Contexts, x.role # "master"
  PROVE  ClosedUnder(x, Work, FedOps)
<1>1. ASSUME NEW t \in Work, NEW c \in ClientOps PROVE Proc(x, t, c) \in Work
  <2>1. Effect(x, t, Proc(x, t, c), c) BY FollowerEffect
  <2>2. QED BY <2>1 DEF Effect
<1>2. ASSUME NEW t \in Work, NEW c \in Frames PROVE Proc(x, t, c) \in Work BY FrameIs
<1>3. QED BY <1>1, <1>2 DEF ClosedUnder, FedOps

-----------------------------------------------------------------------------
(* What is fed: the replica *)

DataSets == {d \in [val : Vals, exp : Exps] : Tidy(d.val, d.exp)}

LEMMA StartIs ==
  ASSUME NEW d \in DataSets
  PROVE  Start(d) \in Work /\ Start(d).val = d.val /\ Start(d).exp = d.exp
<1> DEFINE r == Start(d)
<1>1. r = [val |-> d.val, exp |-> d.exp, out |-> <<>>, touched |-> {}, expired |-> {}, moved |-> {}, dirty |-> FALSE]
      BY DEF Start, Data
<1>2. d.val \in Vals /\ d.exp \in Exps /\ Tidy(d.val, d.exp) BY DEF DataSets
<1>3. r.val = d.val /\ r.exp = d.exp BY <1>1
<1> HIDE DEF r
<1>4. <<>> \in Seq(FedOps) OBVIOUS
<1>5. r \in Works BY <1>1, <1>2, <1>4 DEF Works
<1>6. QED BY <1>2, <1>3, <1>5 DEF Work, r

LEMMA DataSetIs ==
  ASSUME NEW s \in Work
  PROVE  DataSet(s) \in DataSets /\ DataSet(s).val = s.val /\ DataSet(s).exp = s.exp
BY WorkIs DEF DataSet, DataSets

\* The commands that deleted their key, and are fed as a DEL.
Turned(x, c) == (c.name = "EXPIRE" /\ c.arg <= 0) \/ (c.name = "PEXPIREAT" /\ c.arg <= x.time)

\* What a client's command is fed as: never MULTI or EXEC, and one of them.
LEMMA RewrittenIs ==
  ASSUME NEW x, NEW c \in ClientOps
  PROVE  /\ Rewritten(x, c) \in ClientOps
         /\ Rewritten(x, c).db = c.db /\ Rewritten(x, c).key = c.key /\ Rewritten(x, c).arg = c.arg
         /\ Turned(x, c) => Rewritten(x, c).name = "DEL"
         /\ ~Turned(x, c) => Rewritten(x, c) = c
<1>1. c \in [name : Names, db : Dbs, key : Keys, arg : Int] BY DEF ClientOps
<1>2. "DEL" \in Names BY DEF Names
<1>3. CASE Turned(x, c)
  <2>1. Rewritten(x, c) = [c EXCEPT !.name = "DEL"] BY <1>3 DEF Rewritten, Turned
  <2>2. [c EXCEPT !.name = "DEL"] \in [name : Names, db : Dbs, key : Keys, arg : Int] BY <1>1, <1>2
  <2> DEFINE r == Rewritten(x, c)
  <2>3. r.name = "DEL" /\ r.db = c.db /\ r.key = c.key /\ r.arg = c.arg BY <1>1, <2>1
  <2>4. r \in [name : Names, db : Dbs, key : Keys, arg : Int] BY <2>1, <2>2
  <2> HIDE DEF r
  <2>5. r \in ClientOps BY <2>3, <2>4 DEF ClientOps, Meant
  <2>6. QED BY <1>3, <2>3, <2>5, Zenon DEF r
<1>4. CASE ~Turned(x, c)
  <2>1. Rewritten(x, c) = c BY <1>4 DEF Rewritten, Turned
  <2>2. QED BY <1>4, <2>1
<1>5. QED BY <1>3, <1>4

\* The command that is fed gives a replica the values it gave the master.
LEMMA ReplicaAfter ==
  ASSUME NEW time \in Int, NEW x, x = [role |-> "master", time |-> time],
         NEW y, y = [role |-> "slave", time |-> time], NEW v, NEW c \in ClientOps
  PROVE  ValAfter(y, v, Rewritten(x, c)) = ValAfter(x, v, c)
<1> DEFINE r == Rewritten(x, c)
<1>1. r.db = c.db /\ r.key = c.key /\ r.arg = c.arg BY RewrittenIs
<1>2. c.arg \in Int BY ClientOpIs
<1>3. CASE Turned(x, c)
  <2>1. r.name = "DEL" BY <1>3, RewrittenIs
  <2>2. c.name \in {"EXPIRE", "PEXPIREAT"} /\ Deletes(x, ExpiresAt(x, c)) BY <1>2, <1>3 DEF Deletes, ExpiresAt, Turned
  <2> HIDE DEF r
  <2>3. ValAfter(y, v, r) = IF v[c.db][c.key] = Absent THEN v ELSE Put(v, c.db, c.key, Absent)
        BY <1>1, <2>1 DEF ValAfter
  <2>4. ValAfter(x, v, c) = IF v[c.db][c.key] # Absent THEN Put(v, c.db, c.key, Absent) ELSE v
        BY <2>2 DEF ValAfter
  <2>5. QED BY <2>3, <2>4 DEF r
<1>4. CASE ~Turned(x, c)
  <2>1. r = c BY <1>4, RewrittenIs
  <2>2. CASE c.name \in {"EXPIRE", "PEXPIREAT"}
    <3>1. ~Deletes(x, ExpiresAt(x, c)) BY <1>2, <1>4, <2>2 DEF Deletes, ExpiresAt, Turned
    <3>2. ~Deletes(y, ExpiresAt(y, c)) BY DEF Deletes
    <3>3. QED BY <2>1, <2>2, <3>1, <3>2 DEF ValAfter
  <2>3. CASE c.name \notin {"EXPIRE", "PEXPIREAT"} BY <2>1, <2>3 DEF ValAfter
  <2>4. QED BY <2>2, <2>3
<1>5. QED BY <1>3, <1>4

Slave == [role |-> "slave", time |-> now]
Loading == [role |-> "loading", time |-> LoadTime]

LEMMA ContextsAre ==
  ASSUME now \in 0 .. MaxTime
  PROVE  /\ Slave \in Contexts /\ Slave.role = "slave" /\ Loading \in Contexts /\ Loading.role = "loading"
         /\ Here \in Contexts /\ Here.role = "master" /\ Here.time = now /\ now \in Int
<1>1. now \in Int /\ LoadTime \in Int BY ServerAssumption DEF LoadTime
<1>2. QED BY <1>1 DEF Slave, Loading, Here, Contexts

\* What the replica makes of one more command.
LEMMA ReplicaLast ==
  ASSUME now \in 0 .. MaxTime, NEW d \in DataSets, NEW ops \in Seq(FedOps), NEW e \in FedOps
  PROVE  /\ Applied(Slave, d, ops) \in Work
         /\ Applied(Slave, d, Append(ops, e)) = Proc(Slave, Applied(Slave, d, ops), e)
         /\ e \in ClientOps => Applied(Slave, d, Append(ops, e)).val = ValAfter(Slave, Applied(Slave, d, ops).val, e)
         /\ e \in Frames => Applied(Slave, d, Append(ops, e)) = Applied(Slave, d, ops)
<1>1. Slave \in Contexts /\ Slave.role # "master" BY ContextsAre
<1>2. ClosedUnder(Slave, Work, FedOps) BY <1>1, FollowerClosed
<1>3. Start(d) \in Work BY StartIs
<1>4. Applied(Slave, d, ops) \in Work BY <1>2, <1>3, AppliedIn
<1>5. Applied(Slave, d, Append(ops, e)) = Proc(Slave, Applied(Slave, d, ops), e) BY <1>2, <1>3, AppliedLast
<1>6. ASSUME e \in ClientOps
      PROVE  Applied(Slave, d, Append(ops, e)).val = ValAfter(Slave, Applied(Slave, d, ops).val, e)
  <2>1. Effect(Slave, Applied(Slave, d, ops), Proc(Slave, Applied(Slave, d, ops), e), e)
        BY <1>1, <1>4, <1>6, FollowerEffect
  <2>2. QED BY <1>5, <2>1 DEF Effect
<1>7. ASSUME e \in Frames PROVE Applied(Slave, d, Append(ops, e)) = Applied(Slave, d, ops)
      BY <1>5, <1>7, FrameIs
<1>8. QED BY <1>4, <1>5, <1>6, <1>7

-----------------------------------------------------------------------------
(* What is fed: the append only file *)

\* What one command that is fed does to the data set the file holds.
LoadOne(d, c) == Replay(Loading, d, AofForm(now, c))

LEMMA LoadingClosed ==
  ASSUME now \in 0 .. MaxTime
  PROVE  Loading \in Contexts /\ Loading.role # "master" /\ ClosedUnder(Loading, Work, FedOps)
<1>1. Loading \in Contexts /\ Loading.role # "master" BY ContextsAre
<1>2. QED BY <1>1, FollowerClosed

\* A form of one command.
LEMMA LoadSingle ==
  ASSUME now \in 0 .. MaxTime, NEW d \in DataSets, NEW c \in FedOps
  PROVE  /\ Applied(Loading, d, <<c>>) = Proc(Loading, Start(d), c)
         /\ Replay(Loading, d, <<c>>) \in DataSets
         /\ c \in Frames => Replay(Loading, d, <<c>>) = d
         /\ c \in ClientOps => /\ Replay(Loading, d, <<c>>).val = ValAfter(Loading, d.val, c)
                               /\ Replay(Loading, d, <<c>>).exp = ExpAfter(Loading, d.val, d.exp, c)
<1> DEFINE t == Applied(Loading, d, <<c>>)
<1>1. ClosedUnder(Loading, Work, FedOps) /\ Start(d) \in Work /\ Loading \in Contexts /\ Loading.role # "master"
      BY LoadingClosed, StartIs
<1>3. t = Proc(Loading, Applied(Loading, d, <<>>), c)
  <2> DEFINE none == <<>>
  <2>1. none \in Seq(FedOps) /\ <<c>> = Append(none, c) OBVIOUS
  <2> HIDE DEF none
  <2>2. Applied(Loading, d, Append(none, c)) = Proc(Loading, Applied(Loading, d, none), c) BY <1>1, <2>1, AppliedLast
  <2>3. QED BY <2>1, <2>2 DEF none
<1>4. Applied(Loading, d, <<>>) = Start(d) BY AppliedNone
<1>5. t = Proc(Loading, Start(d), c) BY <1>3, <1>4
<1>6. t \in Work BY <1>1, <1>5 DEF ClosedUnder
<1>7. Replay(Loading, d, <<c>>) = DataSet(t) BY ReplayApplied
<1>8. DataSet(t) \in DataSets /\ DataSet(t).val = t.val /\ DataSet(t).exp = t.exp BY <1>6, DataSetIs
<1>9. ASSUME c \in Frames PROVE DataSet(t) = d
  <2>1. t = Start(d) BY <1>5, <1>9, FrameIs
  <2>2. DataSet(t).val = d.val /\ DataSet(t).exp = d.exp BY <1>8, <2>1, StartIs
  <2>3. QED BY <1>8, <2>2 DEF DataSets
<1>10. ASSUME c \in ClientOps
       PROVE  t.val = ValAfter(Loading, d.val, c) /\ t.exp = ExpAfter(Loading, d.val, d.exp, c)
  <2>1. Effect(Loading, Start(d), Proc(Loading, Start(d), c), c) BY <1>1, <1>10, FollowerEffect
  <2>2. QED BY <1>5, <2>1, StartIs DEF Effect
<1>11. QED BY <1>5, <1>7, <1>8, <1>9, <1>10

\* SET and PEXPIREAT, the form of PSETEX.
LEMMA LoadPSetEx ==
  ASSUME now \in 0 .. MaxTime, NEW d \in DataSets, NEW c \in ClientOps, c.name = "PSETEX"
  PROVE  /\ LoadOne(d, c) \in DataSets
         /\ LoadOne(d, c).val = Put(d.val, c.db, c.key, 1) /\ LoadOne(d, c).exp = Put(d.exp, c.db, c.key, now + c.arg)
<1> DEFINE set == Op("SET", c.db, c.key, 1)
           at == Op("PEXPIREAT", c.db, c.key, now + c.arg)
           s == Applied(Loading, d, <<set>>)
           t == Applied(Loading, d, <<set, at>>)
<1>0. c.db \in Dbs /\ c.key \in Keys /\ c.arg \in Int /\ now \in Int BY ClientOpIs, ContextsAre
<1>c. ClosedUnder(Loading, Work, FedOps) /\ Start(d) \in Work /\ Loading \in Contexts /\ Loading.role # "master"
      BY LoadingClosed, StartIs
<1>1. set \in ClientOps /\ set.name = "SET" /\ set.db = c.db /\ set.key = c.key /\ set.arg = 1
  <2>1. 1 \in 1 .. MaxValue BY ServerAssumption
  <2>2. QED BY <1>0, <2>1 DEF Op, ClientOps, Meant, Names
<1>2. at \in ClientOps /\ at.name = "PEXPIREAT" /\ at.db = c.db /\ at.key = c.key /\ at.arg = now + c.arg
      BY <1>0 DEF Op, ClientOps, Meant, Names
<1>3. LoadOne(d, c) = Replay(Loading, d, <<set, at>>)
  <2> HIDE DEF set, at
  <2>1. AofForm(now, c) = <<set, at>> BY DEF AofForm, set, at
  <2>2. QED BY <2>1 DEF LoadOne
<1> HIDE DEF set, at
<1>4. set \in FedOps /\ at \in FedOps /\ <<set>> \in Seq(FedOps) /\ <<set, at>> = Append(<<set>>, at)
      BY <1>1, <1>2 DEF FedOps
<1>5. s = Proc(Loading, Start(d), set) BY <1>4, LoadSingle
<1>6. Effect(Loading, Start(d), s, set) BY <1>1, <1>c, <1>5, FollowerEffect
<1>7. t = Proc(Loading, s, at)
  <2>1. Applied(Loading, d, Append(<<set>>, at)) = Proc(Loading, Applied(Loading, d, <<set>>), at)
    <3> DEFINE one == <<set>>
    <3>1. one \in Seq(FedOps) BY <1>4
    <3> HIDE DEF one
    <3>2. Applied(Loading, d, Append(one, at)) = Proc(Loading, Applied(Loading, d, one), at)
          BY <1>c, <1>4, <3>1, AppliedLast
    <3>3. QED BY <3>2 DEF one
  <2>2. QED BY <1>4, <2>1
<1>8. s \in Work BY <1>6 DEF Effect
<1> HIDE DEF s
<1>9. Effect(Loading, s, t, at) BY <1>2, <1>c, <1>7, <1>8, FollowerEffect
<1>10. s.val = Put(d.val, c.db, c.key, 1) /\ s.exp = Put(d.exp, c.db, c.key, NoExpire)
  <2>1. s.val = ValAfter(Loading, d.val, set) /\ s.exp = ExpAfter(Loading, d.val, d.exp, set)
        BY <1>6, StartIs DEF Effect
  <2>2. ValAfter(Loading, d.val, set) = Put(d.val, c.db, c.key, 1) BY <1>1 DEF ValAfter
  <2>3. ExpAfter(Loading, d.val, d.exp, set) = Put(d.exp, c.db, c.key, NoExpire) BY <1>1 DEF ExpAfter
  <2>4. QED BY <2>1, <2>2, <2>3
<1>11. s.val[c.db][c.key] = 1
  <2>1. d.val \in Vals BY DEF DataSets
  <2>2. 1 \in 0 .. MaxValue BY ConstantsAre
  <2>3. Put(d.val, c.db, c.key, 1)[c.db][c.key] = 1 BY <1>0, <2>1, <2>2, PutVal
  <2>4. QED BY <1>10, <2>3
<1>12. 1 # Absent /\ ~Deletes(Loading, now + c.arg) BY <1>c, ConstantsAre DEF Deletes
<1>13. t.val = s.val /\ t.exp = Put(s.exp, c.db, c.key, now + c.arg)
  <2>1. t.val = ValAfter(Loading, s.val, at) /\ t.exp = ExpAfter(Loading, s.val, s.exp, at) BY <1>9 DEF Effect
  <2>2. ExpiresAt(Loading, at) = now + c.arg BY <1>2 DEF ExpiresAt
  <2>3. QED BY <1>2, <1>11, <1>12, <2>1, <2>2 DEF ValAfter, ExpAfter
<1>14. t.exp = Put(d.exp, c.db, c.key, now + c.arg)
  <2>1. d.exp \in Exps BY DEF DataSets
  <2>2. QED BY <1>0, <1>10, <1>13, <2>1, PutPut
<1>15. t \in Work BY <1>9 DEF Effect
<1>16. LoadOne(d, c) = DataSet(t) BY <1>3, ReplayApplied
<1> HIDE DEF t
<1>17. QED BY <1>10, <1>13, <1>14, <1>15, <1>16, DataSetIs

\* Every command leaves in the file's data set what it left on the master.
LEMMA LoadOneIs ==
  ASSUME now \in 0 .. MaxTime, NEW d \in DataSets, NEW c \in ClientOps
  PROVE  /\ LoadOne(d, Rewritten(Here, c)) \in DataSets
         /\ LoadOne(d, Rewritten(Here, c)).val = ValAfter(Here, d.val, c)
         /\ LoadOne(d, Rewritten(Here, c)).exp = ExpAfter(Here, d.val, d.exp, c)
<1> DEFINE r == Rewritten(Here, c)
           v == d.val
           e == d.exp
<1>0. c.db \in Dbs /\ c.key \in Keys /\ c.arg \in Int /\ now \in Int BY ClientOpIs, ContextsAre
<1>h. /\ Here.role = "master" /\ Here.time = now /\ \A when : ~Deletes(Loading, when)
      /\ \A when : Deletes(Here, when) <=> when <= now
      BY ContextsAre DEF Deletes
<1>r. r \in ClientOps /\ r.db = c.db /\ r.key = c.key /\ r.arg = c.arg BY RewrittenIs
<1> HIDE DEF r
<1>1. CASE Turned(Here, c)
  <2>1. r.name = "DEL" BY <1>1, RewrittenIs DEF r
  <2>2. c.name \in {"EXPIRE", "PEXPIREAT"} /\ Deletes(Here, ExpiresAt(Here, c))
        BY <1>0, <1>1, <1>h DEF ExpiresAt, Turned
  <2>3. LoadOne(d, r) = Replay(Loading, d, <<r>>) BY <2>1 DEF LoadOne, AofForm
  <2>4. LoadOne(d, r) \in DataSets /\ LoadOne(d, r).val = ValAfter(Loading, v, r)
        /\ LoadOne(d, r).exp = ExpAfter(Loading, v, e, r)
        BY <1>r, <2>3, LoadSingle DEF FedOps
  <2>5. /\ ValAfter(Loading, v, r) = IF v[c.db][c.key] = Absent THEN v ELSE Put(v, c.db, c.key, Absent)
        /\ ExpAfter(Loading, v, e, r) = IF v[c.db][c.key] = Absent THEN e ELSE Put(e, c.db, c.key, NoExpire)
        BY <1>r, <2>1 DEF ValAfter, ExpAfter
  <2>6. /\ ValAfter(Here, v, c) = IF v[c.db][c.key] # Absent THEN Put(v, c.db, c.key, Absent) ELSE v
        /\ ExpAfter(Here, v, e, c) = IF v[c.db][c.key] = Absent THEN e ELSE Put(e, c.db, c.key, NoExpire)
        BY <2>2 DEF ValAfter, ExpAfter
  <2>7. QED BY <2>4, <2>5, <2>6 DEF r
<1>2. CASE ~Turned(Here, c) /\ c.name \in {"EXPIRE", "PEXPIREAT"}
  <2>1. r = c BY <1>2, RewrittenIs DEF r
  <2>2. ~Deletes(Here, ExpiresAt(Here, c)) BY <1>0, <1>2, <1>h DEF ExpiresAt, Turned
  <2>3. /\ ValAfter(Here, v, c) = v
        /\ ExpAfter(Here, v, e, c) = IF v[c.db][c.key] = Absent THEN e ELSE Put(e, c.db, c.key, ExpiresAt(Here, c))
        BY <1>2, <2>2 DEF ValAfter, ExpAfter
  <2> DEFINE at == Op("PEXPIREAT", c.db, c.key, ExpiresAt(Here, c))
  <2>4. at \in ClientOps /\ at.name = "PEXPIREAT" /\ at.db = c.db /\ at.key = c.key /\ at.arg = ExpiresAt(Here, c)
        BY <1>0, <1>h DEF Op, ClientOps, Meant, Names, ExpiresAt
  <2>5. LoadOne(d, c) = Replay(Loading, d, <<at>>)
    <3>1. c \in [name : Names, db : Dbs, key : Keys, arg : Int] BY DEF ClientOps
    <3>2. CASE c.name = "EXPIRE"
      <4>1. [c EXCEPT !.name = "PEXPIREAT", !.arg = now + @] = at
        <5> DEFINE w == now + c.arg
        <5>1. at = Op("PEXPIREAT", c.db, c.key, w) BY <1>h, <3>2 DEF ExpiresAt
        <5>2. [c EXCEPT !.name = "PEXPIREAT", !.arg = now + @] = [c EXCEPT !.name = "PEXPIREAT", !.arg = w] OBVIOUS
        <5> HIDE DEF w, at
        <5>3. [c EXCEPT !.name = "PEXPIREAT", !.arg = w] = Op("PEXPIREAT", c.db, c.key, w)
          <6> DEFINE r1 == [c EXCEPT !.name = "PEXPIREAT", !.arg = w]
          <6>1. r1 \in [name : {"PEXPIREAT"}, db : {c.db}, key : {c.key}, arg : {w}] BY <3>1
          <6> HIDE DEF r1
          <6>2. r1 = Op("PEXPIREAT", c.db, c.key, w) BY <6>1 DEF Op
          <6>3. QED BY <6>2 DEF r1
        <5>4. QED BY <5>1, <5>2, <5>3
      <4> HIDE DEF at
      <4>2. AofForm(now, c) = <<at>> BY <3>2, <4>1 DEF AofForm
      <4>3. QED BY <4>2 DEF LoadOne
    <3>3. CASE c.name = "PEXPIREAT"
      <4>1. c = at BY <3>1, <3>3 DEF Op, ExpiresAt
      <4> HIDE DEF at
      <4>2. AofForm(now, c) = <<c>> BY <3>3 DEF AofForm
      <4>3. QED BY <4>1, <4>2 DEF LoadOne
    <3>4. QED BY <1>2, <3>2, <3>3
  <2> HIDE DEF at
  <2>6. LoadOne(d, c) \in DataSets /\ LoadOne(d, c).val = ValAfter(Loading, v, at)
        /\ LoadOne(d, c).exp = ExpAfter(Loading, v, e, at)
        BY <2>4, <2>5, LoadSingle DEF FedOps
  <2>7. /\ ValAfter(Loading, v, at) = v
        /\ ExpAfter(Loading, v, e, at) = IF v[c.db][c.key] = Absent THEN e ELSE Put(e, c.db, c.key, ExpiresAt(Here, c))
    <3>1. ExpiresAt(Loading, at) = ExpiresAt(Here, c) BY <2>4 DEF ExpiresAt
    <3>2. QED BY <1>h, <2>4, <3>1 DEF ValAfter, ExpAfter
  <2>8. QED BY <2>1, <2>3, <2>6, <2>7 DEF r
<1>3. CASE ~Turned(Here, c) /\ c.name = "PSETEX"
  <2>1. r = c BY <1>3, RewrittenIs DEF r
  <2>2. ValAfter(Here, v, c) = Put(v, c.db, c.key, 1) /\ ExpAfter(Here, v, e, c) = Put(e, c.db, c.key, now + c.arg)
        BY <1>3, <1>h DEF ValAfter, ExpAfter
  <2>3. QED BY <1>3, <2>1, <2>2, LoadPSetEx DEF r
<1>4. CASE ~Turned(Here, c) /\ c.name \notin {"EXPIRE", "PEXPIREAT", "PSETEX"}
  <2>1. r = c BY <1>4, RewrittenIs DEF r
  <2>2. LoadOne(d, c) = Replay(Loading, d, <<c>>)
    <3>1. AofForm(now, c) = <<c>> BY <1>4 DEF AofForm
    <3>2. QED BY <3>1 DEF LoadOne
  <2>3. LoadOne(d, c) \in DataSets /\ LoadOne(d, c).val = ValAfter(Loading, v, c)
        /\ LoadOne(d, c).exp = ExpAfter(Loading, v, e, c)
        BY <2>2, LoadSingle DEF FedOps
  <2>4. ValAfter(Loading, v, c) = ValAfter(Here, v, c) BY <1>4 DEF ValAfter
  <2>5. ExpAfter(Loading, v, e, c) = ExpAfter(Here, v, e, c) BY <1>4 DEF ExpAfter
  <2>6. QED BY <2>1, <2>3, <2>4, <2>5 DEF r
<1>5. QED BY <1>1, <1>2, <1>3, <1>4

LoadClosed(T, E) == \A t \in T : \A c \in E : LoadOne(t, c) \in T

LoadSteps(T, ops) == [i \in 1 .. Len(ops) |-> [t \in T |-> LoadOne(t, ops[i])]]

LoadedBy(g, data, ops, T) ==
    /\ g \in [SUBSET (1 .. Len(ops)) -> T]
    /\ FoldOf(g, Len(ops), data, LoadSteps(T, ops))
    /\ LoadedAof(data, ops) = g[1 .. Len(ops)]

LEMMA LoadedFold ==
  ASSUME NEW data, NEW E, NEW ops \in Seq(E), NEW T, data \in T,
         LoadClosed(T, E)
  PROVE  \E g : LoadedBy(g, data, ops, T)
<1> DEFINE n == Len(ops)
           Rec(g) == g = [s \in SUBSET DOMAIN ops |->
                            IF s = {} THEN data ELSE LoadOne(g[s \ {Max(s)}], ops[Max(s)])]
<1>1. n \in Nat /\ DOMAIN ops = 1 .. n /\ \A i \in 1 .. n : ops[i] \in E OBVIOUS
<1>c. \A t \in T : \A c \in E : LoadOne(t, c) \in T BY DEF LoadClosed
<1>2. LoadSteps(T, ops) \in [1 .. n -> [T -> T]]
  <2>1. \A i \in 1 .. n : [t \in T |-> LoadOne(t, ops[i])] \in [T -> T] BY <1>1, <1>c
  <2>2. QED BY <2>1, Zenon DEF LoadSteps
<1>3. PICK f \in [SUBSET (1 .. n) -> T] : FoldOf(f, n, data, LoadSteps(T, ops))
      BY <1>1, <1>2, FoldExists
<1>4. ASSUME NEW s \in SUBSET (1 .. n), s # {} PROVE s \ {Max(s)} \in SUBSET (1 .. n) /\ Max(s) \in 1 .. n
      BY <1>1, <1>4, MaxOf
<1>5. Rec(f)
  <2>1. ASSUME NEW s \in SUBSET (1 .. n), s # {}
        PROVE  LoadSteps(T, ops)[Max(s)][f[s \ {Max(s)}]] = LoadOne(f[s \ {Max(s)}], ops[Max(s)])
        BY <1>4, <2>1 DEF LoadSteps
  <2>2. QED BY <1>1, <1>3, <2>1 DEF FoldOf
<1>6. PICK g : Rec(g) /\ LoadedAof(data, ops) = g[DOMAIN ops]
  <2>1. \E g : Rec(g) BY <1>5
  <2> HIDE DEF n
  <2>2. QED BY <2>1 DEF LoadedAof, LoadOne, Loading, FoldLeft, MapThenFoldSet
<1> DEFINE G == {s \in SUBSET (1 .. n) : g[s] \in T}
<1>7. {} \in G BY <1>1, <1>6
<1>8. ASSUME NEW s \in SUBSET (1 .. n), s # {}, s \ {Max(s)} \in G PROVE s \in G
  <2>1. s \ {Max(s)} \in SUBSET (1 .. n) /\ Max(s) \in 1 .. n BY <1>4, <1>8
  <2>2. g[s] = LoadOne(g[s \ {Max(s)}], ops[Max(s)]) BY <1>1, <1>6, <1>8
  <2>3. ops[Max(s)] \in E /\ g[s \ {Max(s)}] \in T BY <1>1, <1>8, <2>1
  <2>4. QED BY <1>c, <2>2, <2>3
<1>9. SUBSET (1 .. n) \subseteq G
  <2> HIDE DEF G, n
  <2>1. QED BY <1>1, <1>7, <1>8, SubsetsOf
<1>10. g \in [SUBSET (1 .. n) -> T] BY <1>1, <1>6, <1>9
<1>11. FoldOf(g, n, data, LoadSteps(T, ops))
  <2>1. ASSUME NEW s \in SUBSET (1 .. n), s # {}
        PROVE  LoadSteps(T, ops)[Max(s)][g[s \ {Max(s)}]] = LoadOne(g[s \ {Max(s)}], ops[Max(s)])
        BY <1>4, <1>10, <2>1 DEF LoadSteps
  <2>2. QED BY <1>1, <1>6, <2>1 DEF FoldOf
<1>12. QED BY <1>1, <1>6, <1>10, <1>11 DEF LoadedBy

LEMMA LoadedLast ==
  ASSUME NEW data, NEW E, NEW ops \in Seq(E), NEW e \in E, NEW T, data \in T,
         LoadClosed(T, E)
  PROVE  LoadedAof(data, Append(ops, e)) = LoadOne(LoadedAof(data, ops), e)
<1> DEFINE n == Len(ops)
           more == Append(ops, e)
<1>c. \A t \in T : \A c \in E : LoadOne(t, c) \in T BY DEF LoadClosed
<1>1. n \in Nat /\ more \in Seq(E) /\ Len(more) = n + 1 /\ more[n + 1] = e
      /\ \A i \in 1 .. n : more[i] = ops[i] /\ ops[i] \in E OBVIOUS
<1>2. PICK g : LoadedBy(g, data, ops, T) BY LoadedFold
<1>g. /\ g \in [SUBSET (1 .. n) -> T]
      /\ FoldOf(g, n, data, LoadSteps(T, ops)) /\ LoadedAof(data, ops) = g[1 .. n]
      BY <1>2 DEF LoadedBy
<1>3. PICK h : LoadedBy(h, data, more, T)
  <2> HIDE DEF more
  <2>1. QED BY <1>1, LoadedFold
<1>h. /\ h \in [SUBSET (1 .. n + 1) -> T]
      /\ FoldOf(h, n + 1, data, LoadSteps(T, more)) /\ LoadedAof(data, more) = h[1 .. n + 1]
  <2> HIDE DEF more, n
  <2>1. QED BY <1>1, <1>3 DEF LoadedBy
<1>4. LoadSteps(T, ops) \in [1 .. n -> [T -> T]]
  <2>1. \A i \in 1 .. n : [t \in T |-> LoadOne(t, ops[i])] \in [T -> T] BY <1>1, <1>c
  <2>2. QED BY <2>1, Zenon DEF LoadSteps
<1>5. LoadSteps(T, more) \in [1 .. n + 1 -> [T -> T]]
  <2> HIDE DEF more
  <2>0. \A i \in 1 .. n + 1 : more[i] \in E BY <1>1
  <2>1. \A i \in 1 .. n + 1 : [t \in T |-> LoadOne(t, more[i])] \in [T -> T] BY <1>c, <2>0
  <2>2. QED BY <1>1, <2>1, Zenon DEF LoadSteps
<1>6. \A i \in 1 .. n : LoadSteps(T, more)[i] = LoadSteps(T, ops)[i]
  <2> HIDE DEF more
  <2>1. \A i \in 1 .. n : i \in 1 .. n + 1 BY <1>1
  <2>2. QED BY <1>1, <2>1 DEF LoadSteps
<1>7. LoadSteps(T, more)[n + 1][g[1 .. n]] = LoadOne(g[1 .. n], e)
  <2> HIDE DEF more
  <2>1. n + 1 \in 1 .. n + 1 /\ g[1 .. n] \in T BY <1>1, <1>g
  <2>2. QED BY <1>1, <2>1 DEF LoadSteps
<1>8. h[1 .. n + 1] = LoadSteps(T, more)[n + 1][g[1 .. n]]
  <2> DEFINE st == LoadSteps(T, ops)
             nx == LoadSteps(T, more)
  <2> HIDE DEF n, more
  <2>1. FoldsOn(n, T, data, st, nx, g, h)
        BY <1>1, <1>g, <1>h, <1>4, <1>5, <1>6 DEF FoldsOn
  <2> HIDE DEF st, nx
  <2>2. h[1 .. n + 1] = nx[n + 1][g[1 .. n]] BY <2>1, FoldLast
  <2>3. QED BY <2>2 DEF nx
<1>9. QED BY <1>g, <1>h, <1>7, <1>8

LEMMA LoadedIn ==
  ASSUME NEW data, NEW E, NEW ops \in Seq(E), NEW T, data \in T, LoadClosed(T, E)
  PROVE  LoadedAof(data, ops) \in T
<1>1. PICK g : LoadedBy(g, data, ops, T) BY LoadedFold
<1>2. 1 .. Len(ops) \in SUBSET (1 .. Len(ops)) OBVIOUS
<1>3. QED BY <1>1, <1>2 DEF LoadedBy

LEMMA LoadedNone ==
  ASSUME NEW data
  PROVE  LoadedAof(data, <<>>) = data
<1>1. <<>> \in Seq({}) OBVIOUS
<1>2. LoadClosed({data}, {}) BY DEF LoadClosed
<1>3. data \in {data} OBVIOUS
<1>4. LoadedAof(data, <<>>) \in {data} BY <1>1, <1>2, <1>3, LoadedIn
<1>5. QED BY <1>4

LEMMA LoadOneIn ==
  ASSUME now \in 0 .. MaxTime
  PROVE  LoadClosed(DataSets, FedOps)
<1>1. ASSUME NEW d \in DataSets, NEW c \in ClientOps PROVE LoadOne(d, c) \in DataSets
  <2>1. c \in FedOps BY DEF FedOps
  <2>2. CASE c.name = "PSETEX" BY <2>2, LoadPSetEx
  <2>3. CASE c.name = "EXPIRE"
    <3> DEFINE at == [c EXCEPT !.name = "PEXPIREAT", !.arg = now + @]
    <3>1. c.arg \in Int /\ now \in Int BY ClientOpIs, ContextsAre
    <3>2. c \in [name : Names, db : Dbs, key : Keys, arg : Int] BY DEF ClientOps
    <3>3. at.name = "PEXPIREAT" BY <3>2
    <3>4. at \in [name : Names, db : Dbs, key : Keys, arg : Int]
      <4> DEFINE w == now + c.arg
      <4>1. w \in Int /\ at = [c EXCEPT !.name = "PEXPIREAT", !.arg = w] BY <3>1
      <4>2. "PEXPIREAT" \in Names BY DEF Names
      <4> HIDE DEF w, at
      <4>3. QED BY <3>2, <4>1, <4>2
    <3>5. AofForm(now, c) = <<at>> BY <2>3 DEF AofForm
    <3> HIDE DEF at
    <3>6. at \in FedOps BY <3>3, <3>4 DEF FedOps, ClientOps, Meant
    <3>7. QED BY <3>5, <3>6, LoadSingle DEF LoadOne
  <2>4. CASE c.name \notin {"PSETEX", "EXPIRE"}
    <3>1. AofForm(now, c) = <<c>> BY <2>4 DEF AofForm
    <3>2. QED BY <2>1, <3>1, LoadSingle DEF LoadOne
  <2>5. QED BY <2>2, <2>3, <2>4
<1>2. ASSUME NEW d \in DataSets, NEW c \in Frames PROVE LoadOne(d, c) = d
  <2>1. c \in FedOps BY DEF FedOps
  <2>2. AofForm(now, c) = <<c>> BY DEF AofForm, Frames
  <2>3. QED BY <2>1, <2>2, LoadSingle DEF LoadOne
<1>3. QED BY <1>1, <1>2 DEF LoadClosed, FedOps

\* What the file makes of one more command.
LEMMA AofLast ==
  ASSUME now \in 0 .. MaxTime, NEW d \in DataSets, NEW ops \in Seq(FedOps), NEW e \in FedOps
  PROVE  /\ LoadedAof(d, ops) \in DataSets
         /\ LoadedAof(d, Append(ops, e)) = LoadOne(LoadedAof(d, ops), e)
         /\ e \in Frames => LoadedAof(d, Append(ops, e)) = LoadedAof(d, ops)
<1>1. LoadClosed(DataSets, FedOps) BY LoadOneIn
<1>2. LoadedAof(d, ops) \in DataSets BY <1>1, LoadedIn
<1>3. LoadedAof(d, Append(ops, e)) = LoadOne(LoadedAof(d, ops), e) BY <1>1, LoadedLast
<1>4. ASSUME e \in Frames PROVE LoadOne(LoadedAof(d, ops), e) = LoadedAof(d, ops)
  <2>1. AofForm(now, e) = <<e>> BY <1>4 DEF AofForm, Frames
  <2>2. QED BY <1>2, <1>4, <2>1, LoadSingle DEF LoadOne
<1>5. QED BY <1>2, <1>3, <1>4

-----------------------------------------------------------------------------
(* Records that the replica and the append only file follow *)

\* Before the step, both hold what the server holds.
Base ==
    /\ now \in 0 .. MaxTime
    /\ val \in Vals /\ exp \in Exps /\ Tidy(val, exp)
    /\ replica \in DataSets /\ replica.val = val
    /\ aof \in DataSets /\ aof.val = val /\ aof.exp = exp

\* What s fed gives both the data of s, and what s changed is accounted for.
Follows(s) ==
    /\ Applied(Slave, replica, s.out).val = s.val
    /\ LoadedAof(aof, s.out) = DataSet(s)
    /\ \A d \in Dbs, k \in Keys : s.val[d][k] # val[d][k] => <<d, k>> \in s.touched \cup s.expired \cup s.moved

Followed == {s \in Work : Follows(s)}

LEMMA DataFollows ==
  ASSUME Base
  PROVE  /\ Data(val, exp) \in Followed /\ Data(val, exp).out = <<>> /\ Data(val, exp).expired = {}
         /\ Data(val, exp).val = val /\ Data(val, exp).exp = exp
<1> DEFINE s == Data(val, exp)
<1>1. s.val = val /\ s.exp = exp /\ s.out = <<>> /\ s.expired = {} /\ s.touched = {} /\ s.moved = {} BY DEF Data
<1>2. s \in Work
  <2>1. s = Start(aof) BY DEF Start, Base
  <2>2. QED BY <2>1, StartIs DEF Base
<1> HIDE DEF s
<1>3. Applied(Slave, replica, s.out).val = s.val
  <2>1. Applied(Slave, replica, <<>>) = Start(replica) BY AppliedNone
  <2>2. Start(replica).val = replica.val BY StartIs DEF Base
  <2>3. QED BY <1>1, <2>1, <2>2 DEF Base
<1>4. LoadedAof(aof, s.out) = DataSet(s)
  <2>1. LoadedAof(aof, <<>>) = aof BY LoadedNone
  <2>2. aof = [val |-> val, exp |-> exp] BY DEF Base, DataSets
  <2>3. QED BY <1>1, <2>1, <2>2 DEF DataSet
<1>5. QED BY <1>1, <1>2, <1>3, <1>4 DEF Followed, Follows, s

\* A step of s to t that feeds e, the form in which c left the master.
LEMMA FedFollows ==
  ASSUME Base, NEW s \in Followed, NEW t \in Work, NEW c \in ClientOps, NEW e, e = Rewritten(Here, c),
         t.val = ValAfter(Here, s.val, c), t.exp = ExpAfter(Here, s.val, s.exp, c),
         t.out = Append(s.out, e), Accounted(s, t)
  PROVE  t \in Followed
<1>1. now \in 0 .. MaxTime /\ replica \in DataSets /\ aof \in DataSets BY DEF Base
<1>2. s \in Work /\ Follows(s) BY DEF Followed
<1>3. s.out \in Seq(FedOps) BY <1>2, WorkIs
<1>4. e \in ClientOps /\ e \in FedOps BY RewrittenIs DEF FedOps
<1>5. Applied(Slave, replica, t.out).val = t.val
  <2>1. Applied(Slave, replica, Append(s.out, e)).val = ValAfter(Slave, Applied(Slave, replica, s.out).val, e)
        BY <1>1, <1>3, <1>4, ReplicaLast
  <2>2. ValAfter(Slave, s.val, e) = ValAfter(Here, s.val, c)
    <3>1. now \in Int BY <1>1, ContextsAre
    <3>2. QED BY <3>1, ReplicaAfter DEF Slave, Here
  <2>3. QED BY <1>2, <2>1, <2>2 DEF Follows
<1>6. LoadedAof(aof, t.out) = DataSet(t)
  <2>1. LoadedAof(aof, Append(s.out, e)) = LoadOne(DataSet(s), e) BY <1>1, <1>2, <1>3, <1>4, AofLast DEF Follows
  <2>2. DataSet(s) \in DataSets /\ DataSet(s).val = s.val /\ DataSet(s).exp = s.exp BY <1>2, DataSetIs
  <2>3. LoadOne(DataSet(s), e) \in DataSets /\ LoadOne(DataSet(s), e).val = t.val
        /\ LoadOne(DataSet(s), e).exp = t.exp
        BY <1>1, <2>2, LoadOneIs
  <2>4. LoadOne(DataSet(s), e) = [val |-> t.val, exp |-> t.exp] BY <2>3 DEF DataSets
  <2>5. QED BY <2>1, <2>4 DEF DataSet
<1>7. \A d \in Dbs, k \in Keys : t.val[d][k] # val[d][k] => <<d, k>> \in t.touched \cup t.expired \cup t.moved
      BY <1>2 DEF Follows, Accounted
<1>8. QED BY <1>5, <1>6, <1>7 DEF Followed, Follows

\* A step that feeds nothing changes no value and no expire.
LEMMA UnfedFollows ==
  ASSUME NEW s \in Followed, NEW t \in Work, t.val = s.val, t.exp = s.exp, t.out = s.out, Accounted(s, t)
  PROVE  t \in Followed
<1>1. Follows(s) BY DEF Followed
<1>2. DataSet(t) = DataSet(s) BY DEF DataSet
<1>3. \A d \in Dbs, k \in Keys : t.val[d][k] # val[d][k] => <<d, k>> \in t.touched \cup t.expired \cup t.moved
      BY <1>1 DEF Follows, Accounted
<1>4. QED BY <1>1, <1>2, <1>3 DEF Followed, Follows

\* MULTI and EXEC are fed and change nothing.
LEMMA FrameFollows ==
  ASSUME Base, NEW s \in Followed, NEW e \in Frames
  PROVE  /\ [s EXCEPT !.out = Append(@, e)] \in Followed
         /\ [s EXCEPT !.out = Append(@, e)].out = Append(s.out, e)
         /\ [s EXCEPT !.out = Append(@, e)].expired = s.expired
         /\ [s EXCEPT !.out = Append(@, e)].dirty = s.dirty
<1> DEFINE o == Append(s.out, e)
           t == [s EXCEPT !.out = o]
<1>1. now \in 0 .. MaxTime /\ replica \in DataSets /\ aof \in DataSets BY DEF Base
<1>2. s \in Work /\ Follows(s) BY DEF Followed
<1>3. s.out \in Seq(FedOps) /\ e \in FedOps BY <1>2, WorkIs DEF FedOps
<1>4. o \in Seq(FedOps) BY <1>3
<1> HIDE DEF o
<1>5. s \in Works BY <1>2 DEF Work
<1>6. t \in Works /\ t.val = s.val /\ t.exp = s.exp /\ t.out = o /\ t.touched = s.touched /\ t.expired = s.expired
      /\ t.moved = s.moved /\ t.dirty = s.dirty
      BY <1>4, <1>5 DEF Works
<1> HIDE DEF t
<1>7. t \in Work BY <1>2, <1>6 DEF Work
<1>8. Applied(Slave, replica, o) = Applied(Slave, replica, s.out) BY <1>1, <1>3, ReplicaLast DEF o
<1>9. LoadedAof(aof, o) = LoadedAof(aof, s.out) BY <1>1, <1>3, AofLast DEF o
<1>10. DataSet(t) = DataSet(s) BY <1>6 DEF DataSet
<1>11. Follows(t) BY <1>2, <1>6, <1>8, <1>9, <1>10 DEF Follows
<1>12. t = [s EXCEPT !.out = Append(@, e)] BY DEF t, o
<1>13. t \in Followed /\ t.out = Append(s.out, e) BY <1>6, <1>7, <1>11 DEF Followed, o
<1>14. QED BY <1>6, <1>12, <1>13

LEMMA ExpireFollows ==
  ASSUME Base, NEW s \in Followed, NEW d \in Dbs, NEW k \in Keys
  PROVE  Expire(s, d, k) \in Followed
<1> DEFINE t == Expire(s, d, k)
           e == Op("DEL", d, k, 0)
<1>1. s \in Work BY DEF Followed
<1>2. t \in Work /\ e \in ClientOps /\ t.val = Put(s.val, d, k, Absent) /\ t.exp = Put(s.exp, d, k, NoExpire)
      /\ t.out = Append(s.out, e) /\ Accounted(s, t)
      BY <1>1, ExpireIs
<1>3. e.name = "DEL" /\ e.db = d /\ e.key = k BY DEF Op
<1> HIDE DEF t, e
<1>4. e = Rewritten(Here, e)
  <2>1. ~Turned(Here, e) BY <1>3 DEF Turned
  <2>2. QED BY <1>2, <2>1, RewrittenIs
<1>5. s.val \in Vals /\ s.exp \in Exps /\ Tidy(s.val, s.exp) BY <1>1, WorkIs
<1>6. s.val[d][k] = Absent => Put(s.val, d, k, Absent) = s.val /\ Put(s.exp, d, k, NoExpire) = s.exp
  <2>1. ASSUME s.val[d][k] = Absent PROVE Put(s.val, d, k, s.val[d][k]) = s.val BY <1>5 DEF Put, Vals
  <2>2. ASSUME s.val[d][k] = Absent PROVE s.exp[d][k] = NoExpire BY <1>5, <2>2 DEF Tidy
  <2>3. Put(s.exp, d, k, s.exp[d][k]) = s.exp BY <1>5, PutSame
  <2>4. QED BY <2>1, <2>2, <2>3
<1>7. t.val = ValAfter(Here, s.val, e) /\ t.exp = ExpAfter(Here, s.val, s.exp, e)
      BY <1>2, <1>3, <1>6 DEF ValAfter, ExpAfter
<1>8. t \in Followed BY <1>2, <1>4, <1>7, FedFollows
<1>9. QED BY <1>8 DEF t

-----------------------------------------------------------------------------
(* Whole commands *)

\* Records of T are followed, stay in T when a key of theirs expires, and may
\* be dirty or not.
Growing(T) ==
    /\ T \subseteq Followed
    /\ \A t \in T, d \in Dbs, k \in Keys : Expire(t, d, k) \in T
    /\ \A t \in T : [t EXCEPT !.dirty = FALSE] \in T /\ [t EXCEPT !.dirty = TRUE] \in T

\* r is u, or u with the command e fed.
FedOnce(u, r, e) ==
    /\ r \in Followed /\ r.expired = u.expired /\ r.out \in {u.out, Append(u.out, e)}

LEMMA DirtyIs ==
  ASSUME NEW s \in Work
  PROVE  /\ [s EXCEPT !.dirty = FALSE] \in Work /\ [s EXCEPT !.dirty = FALSE].dirty = FALSE
         /\ [s EXCEPT !.dirty = FALSE].out = s.out /\ [s EXCEPT !.dirty = FALSE].expired = s.expired
         /\ [s EXCEPT !.dirty = FALSE].val = s.val /\ [s EXCEPT !.dirty = FALSE].exp = s.exp
         /\ [s EXCEPT !.dirty = TRUE] \in Work
         /\ [s EXCEPT !.dirty = TRUE].out = s.out /\ [s EXCEPT !.dirty = TRUE].expired = s.expired
         /\ [s EXCEPT !.dirty = TRUE].val = s.val /\ [s EXCEPT !.dirty = TRUE].exp = s.exp
         /\ Accounted(s, [s EXCEPT !.dirty = FALSE]) /\ Accounted(s, [s EXCEPT !.dirty = TRUE])
<1>1. s \in Works /\ Tidy(s.val, s.exp) BY DEF Work
<1>2. [s EXCEPT !.dirty = FALSE] \in Works /\ [s EXCEPT !.dirty = TRUE] \in Works BY <1>1 DEF Works
<1> DEFINE t == [s EXCEPT !.dirty = FALSE]
           u == [s EXCEPT !.dirty = TRUE]
<1>3. /\ t.val = s.val /\ t.exp = s.exp /\ t.out = s.out /\ t.touched = s.touched /\ t.expired = s.expired
      /\ t.moved = s.moved /\ t.dirty = FALSE
      BY <1>1 DEF Works
<1>4. /\ u.val = s.val /\ u.exp = s.exp /\ u.out = s.out /\ u.touched = s.touched /\ u.expired = s.expired
      /\ u.moved = s.moved
      BY <1>1 DEF Works
<1> HIDE DEF t, u
<1>5. t \in Work /\ Accounted(s, t) BY <1>1, <1>2, <1>3 DEF Work, Accounted, t
<1>6. u \in Work /\ Accounted(s, u) BY <1>1, <1>2, <1>4 DEF Work, Accounted, u
<1>7. QED BY <1>3, <1>4, <1>5, <1>6 DEF t, u

LEMMA DirtyFollows ==
  ASSUME NEW s \in Followed
  PROVE  [s EXCEPT !.dirty = FALSE] \in Followed /\ [s EXCEPT !.dirty = TRUE] \in Followed
<1>1. s \in Work BY DEF Followed
<1>2. QED BY <1>1, DirtyIs, UnfedFollows

\* A command, with its look-ups, is fed once if it did something.
LEMMA CallFollows ==
  ASSUME Base, NEW T, Growing(T), NEW s \in T, NEW c \in ClientOps
  PROVE  \E u \in T : FedOnce(u, Call(Here, s, c), Rewritten(Here, c))
<1> DEFINE T0 == {u \in T : u.dirty = FALSE}
           s0 == [s EXCEPT !.dirty = FALSE]
           e == Rewritten(Here, c)
<1>g. /\ T \subseteq Followed
      /\ \A t \in T, d \in Dbs, k \in Keys : Expire(t, d, k) \in T
      /\ \A t \in T : [t EXCEPT !.dirty = FALSE] \in T /\ [t EXCEPT !.dirty = TRUE] \in T
      BY DEF Growing
<1>h. Here \in Contexts BY ContextsAre DEF Base
<1>1. s \in Work /\ s.dirty \in BOOLEAN BY <1>g, WorkIs DEF Followed
<1>2. s0 \in T0 BY <1>g, <1>1, DirtyIs
<1>3. T0 \in SUBSET Work BY <1>g DEF Followed
<1>4. LooksUpIn(Here, T0)
  <2>1. ASSUME NEW t \in T0, NEW d \in Dbs, NEW k \in Keys PROVE Expire(t, d, k) \in T0
    <3>1. Expire(t, d, k) \in T /\ t \in Work BY <1>g, <1>3
    <3>2. Expire(t, d, k).dirty = t.dirty BY <3>1, ExpireIs
    <3>3. QED BY <3>1, <3>2
  <2> HIDE DEF T0
  <2>2. QED BY <2>1 DEF LooksUpIn
<1> HIDE DEF T0, s0
<1>5. PICK u \in T0 : Effect(Here, u, Proc(Here, s0, c), c) BY <1>h, <1>2, <1>3, <1>4, ProcEffect
<1> DEFINE t == Proc(Here, s0, c)
<1>6. Call(Here, s, c) = Fed(Here, t, c, s.dirty) BY DEF Call, s0
<1> HIDE DEF t
<1>7. /\ t \in Work /\ t.out = u.out /\ t.expired = u.expired /\ Accounted(u, t)
      /\ t.val = ValAfter(Here, u.val, c) /\ t.exp = ExpAfter(Here, u.val, u.exp, c)
      /\ u.dirty = FALSE /\ t.dirty = FALSE => t.val = u.val /\ t.exp = u.exp
      BY <1>5 DEF Effect, t
<1>8. u \in T /\ u \in Followed /\ u.dirty = FALSE BY <1>5, <1>g DEF T0
<1>9. CASE t.dirty
  <2> DEFINE o == Append(t.out, e)
             r == [t EXCEPT !.out = o]
  <2>1. Call(Here, s, c) = r BY <1>6, <1>9 DEF Fed
  <2>2. o \in Seq(FedOps)
    <3>1. t.out \in Seq(FedOps) /\ e \in FedOps BY <1>7, WorkIs, RewrittenIs DEF FedOps
    <3> HIDE DEF e
    <3>2. QED BY <3>1
  <2> HIDE DEF o
  <2>3. t \in Works /\ Tidy(t.val, t.exp) BY <1>7 DEF Work
  <2>4. r \in Works /\ r.val = t.val /\ r.exp = t.exp /\ r.out = o /\ r.touched = t.touched /\ r.expired = t.expired
        /\ r.moved = t.moved
        BY <2>2, <2>3 DEF Works
  <2> HIDE DEF r, e
  <2>5. r \in Work BY <2>3, <2>4 DEF Work
  <2>6. Accounted(u, r) BY <1>7, <2>4 DEF Accounted
  <2>7. r.out = Append(u.out, e) BY <1>7, <2>4 DEF o
  <2>8. r \in Followed BY <1>7, <1>8, <2>4, <2>5, <2>6, <2>7, FedFollows DEF e
  <2>9. QED BY <1>7, <1>8, <2>1, <2>4, <2>7, <2>8 DEF FedOnce, e
<1>10. CASE ~t.dirty
  <2>1. t.dirty = FALSE
    <3>1. t.dirty \in BOOLEAN BY <1>7, WorkIs
    <3>2. QED BY <1>10, <3>1
  <2>2. t \in Followed BY <1>7, <1>8, <2>1, UnfedFollows
  <2>3. Call(Here, s, c) = [t EXCEPT !.dirty = s.dirty] BY <1>6, <1>10 DEF Fed
  <2>4. CASE s.dirty = FALSE
    <3>1. Call(Here, s, c) = [t EXCEPT !.dirty = FALSE] BY <2>3, <2>4
    <3>2. Call(Here, s, c) \in Followed /\ Call(Here, s, c).expired = u.expired /\ Call(Here, s, c).out = u.out
          BY <1>7, <2>2, <3>1, DirtyFollows, DirtyIs, ZenonT(30)
    <3>3. QED BY <1>8, <3>2 DEF FedOnce
  <2>5. CASE s.dirty = TRUE
    <3>1. Call(Here, s, c) = [t EXCEPT !.dirty = TRUE] BY <2>3, <2>5
    <3>2. Call(Here, s, c) \in Followed /\ Call(Here, s, c).expired = u.expired /\ Call(Here, s, c).out = u.out
          BY <1>7, <2>2, <3>1, DirtyFollows, DirtyIs, ZenonT(30)
    <3>3. QED BY <1>8, <3>2 DEF FedOnce
  <2>6. QED BY <1>1, <2>4, <2>5
<1>11. QED BY <1>9, <1>10

\* A GET only looks its key up.
LEMMA GetFollows ==
  ASSUME Base, NEW T, Growing(T), NEW s \in T, NEW c \in ClientOps, c.name = "GET"
  PROVE  Call(Here, s, c) \in T
<1> DEFINE s0 == [s EXCEPT !.dirty = FALSE]
           t == ExpireIfNeeded(Here, s0, c.db, c.key)
<1>g. /\ T \subseteq Followed
      /\ \A u \in T, d \in Dbs, k \in Keys : Expire(u, d, k) \in T
      /\ \A u \in T : [u EXCEPT !.dirty = FALSE] \in T /\ [u EXCEPT !.dirty = TRUE] \in T
      BY DEF Growing
<1>0. c.db \in Dbs /\ c.key \in Keys BY ClientOpIs
<1>1. s \in Work /\ s.dirty \in BOOLEAN BY <1>g, WorkIs DEF Followed
<1>2. s0 \in T /\ s0 \in Work /\ s0.dirty = FALSE BY <1>g, <1>1, DirtyIs
<1> HIDE DEF s0
<1>3. t \in {s0, Expire(s0, c.db, c.key)} BY DEF ExpireIfNeeded
<1>4. t \in T /\ t.dirty = FALSE BY <1>g, <1>0, <1>2, <1>3, ExpireIs
<1>5. Proc(Here, s0, c) = t BY DEF Proc, LookedUp
<1> HIDE DEF t
<1>6. Call(Here, s, c) = [t EXCEPT !.dirty = s.dirty]
  <2>1. Call(Here, s, c) = Fed(Here, t, c, s.dirty) BY <1>5 DEF Call, s0
  <2>2. QED BY <1>4, <2>1 DEF Fed
<1>7. CASE s.dirty = FALSE
  <2>1. Call(Here, s, c) = [t EXCEPT !.dirty = FALSE] BY <1>6, <1>7
  <2>2. QED BY <1>g, <1>4, <2>1
<1>8. CASE s.dirty = TRUE
  <2>1. Call(Here, s, c) = [t EXCEPT !.dirty = TRUE] BY <1>6, <1>8
  <2>2. QED BY <1>g, <1>4, <2>1
<1>9. QED BY <1>1, <1>7, <1>8

-----------------------------------------------------------------------------
(* Evictions, expire cycles and queued commands *)

LEMMA PlacesListed ==
  ASSUME NEW ps \in SUBSET Places
  PROVE  SetToSeq(ps) \in Seq(ps)
<1>1. IsFiniteSet(Dbs)
  <2>1. Dbs = 0 .. 1 BY DEF Dbs
  <2>2. IsFiniteSet(0 .. 1)
    <3>1. 0 \in Int /\ 1 \in Int OBVIOUS
    <3>2. QED BY <3>1, FS_Interval
  <2>3. QED BY <2>1, <2>2
<1>2. IsFiniteSet(Places) BY <1>1, ServerAssumption, FS_Product DEF Places
<1>3. IsFiniteSet(ps) BY <1>2, FS_Subset
<1> DEFINE n == Cardinality(ps)
<1>4. n \in Nat /\ ExistsBijection(1 .. n, ps) BY <1>3, FS_CardinalityType
<1> HIDE DEF n
<1>5. \E f \in [1 .. n -> ps] : IsInjective(f)
  <2>1. PICK f \in Bijection(1 .. n, ps) : TRUE BY <1>4 DEF ExistsBijection
  <2>2. f \in [1 .. n -> ps] /\ \A a, b \in 1 .. n : f[a] = f[b] => a = b
        BY <2>1 DEF Bijection, Injection, IsInjective
  <2>3. QED BY <2>2 DEF IsInjective
<1>6. SetToSeq(ps) \in [1 .. n -> ps] BY <1>5 DEF SetToSeq, n
<1>7. QED BY <1>4, <1>6

LEMMA ExpireAllIn ==
  ASSUME NEW T, Growing(T), NEW s \in T, NEW ps \in SUBSET Places
  PROVE  ExpireAll(s, ps) \in T
<1> DEFINE q == SetToSeq(ps)
           n == Len(q)
           step == [i \in 1 .. n |-> [t \in T |-> Expire(t, q[i][1], q[i][2])]]
           Rec(g) == g = [u \in SUBSET DOMAIN q |-> IF u = {} THEN s ELSE Expire(g[u \ {Max(u)}], q[Max(u)][1], q[Max(u)][2])]
<1>c. \A t \in T, d \in Dbs, k \in Keys : Expire(t, d, k) \in T BY DEF Growing
<1>1. n \in Nat /\ DOMAIN q = 1 .. n /\ \A i \in 1 .. n : q[i][1] \in Dbs /\ q[i][2] \in Keys
  <2>1. q \in Seq(ps) BY PlacesListed
  <2> HIDE DEF q
  <2>2. QED BY <2>1 DEF Places
<1>2. step \in [1 .. n -> [T -> T]] BY <1>1, <1>c
<1>3. PICK f \in [SUBSET (1 .. n) -> T] : FoldOf(f, n, s, step)
  <2> HIDE DEF step, n
  <2>1. QED BY <1>1, <1>2, FoldExists
<1>4. ASSUME NEW u \in SUBSET (1 .. n), u # {} PROVE u \ {Max(u)} \in SUBSET (1 .. n) /\ Max(u) \in 1 .. n
  <2> HIDE DEF n
  <2>1. QED BY <1>1, <1>4, MaxOf
<1>5. Rec(f)
  <2>1. ASSUME NEW u \in SUBSET (1 .. n), u # {}
        PROVE  step[Max(u)][f[u \ {Max(u)}]] = Expire(f[u \ {Max(u)}], q[Max(u)][1], q[Max(u)][2])
        BY <1>3, <1>4, <2>1
  <2> HIDE DEF step
  <2>2. QED BY <1>1, <1>3, <2>1 DEF FoldOf
<1>6. PICK g : Rec(g) /\ ExpireAll(s, ps) = g[DOMAIN q]
  <2>1. \E g : Rec(g) BY <1>5
  <2> HIDE DEF n, q
  <2>2. QED BY <2>1 DEF ExpireAll, FoldLeft, MapThenFoldSet, q
<1> DEFINE G == {u \in SUBSET (1 .. n) : g[u] \in T}
<1>7. {} \in G BY <1>1, <1>6
<1>8. ASSUME NEW u \in SUBSET (1 .. n), u # {}, u \ {Max(u)} \in G PROVE u \in G
  <2>1. u \ {Max(u)} \in SUBSET (1 .. n) /\ Max(u) \in 1 .. n BY <1>4, <1>8
  <2>2. g[u] = Expire(g[u \ {Max(u)}], q[Max(u)][1], q[Max(u)][2]) BY <1>1, <1>6, <1>8
  <2>3. g[u \ {Max(u)}] \in T BY <1>8
  <2>4. QED BY <1>1, <1>c, <2>1, <2>2, <2>3
<1>9. SUBSET (1 .. n) \subseteq G
  <2> HIDE DEF G, n
  <2>1. QED BY <1>1, <1>7, <1>8, SubsetsOf
<1>10. g[DOMAIN q] \in T BY <1>1, <1>9
<1>11. QED BY <1>6, <1>10

\* What a queue of c does, and the records that its commands keep in T.
QueueRun(c, s) == FoldLeft(LAMBDA u, cmd : RunQueued(c, u, cmd), s, client[c].queue)
Running(c, T) == \A t \in T, cmd \in Commands[c] : RunQueued(c, t, cmd) \in T

LEMMA RunAllIn ==
  ASSUME NEW c, NEW T, Running(c, T), NEW s \in T, client[c].queue \in Seq(Commands[c])
  PROVE  QueueRun(c, s) \in T
<1> DEFINE q == client[c].queue
           n == Len(q)
           step == [i \in 1 .. n |-> [t \in T |-> RunQueued(c, t, q[i])]]
           Rec(g) == g = [u \in SUBSET DOMAIN q |-> IF u = {} THEN s ELSE RunQueued(c, g[u \ {Max(u)}], q[Max(u)])]
<1>c. \A t \in T, cmd \in Commands[c] : RunQueued(c, t, cmd) \in T BY DEF Running
<1>1. n \in Nat /\ DOMAIN q = 1 .. n /\ \A i \in 1 .. n : q[i] \in Commands[c] OBVIOUS
<1>2. step \in [1 .. n -> [T -> T]] BY <1>1, <1>c
<1>3. PICK f \in [SUBSET (1 .. n) -> T] : FoldOf(f, n, s, step)
  <2> HIDE DEF step, n
  <2>1. QED BY <1>1, <1>2, FoldExists
<1>4. ASSUME NEW u \in SUBSET (1 .. n), u # {} PROVE u \ {Max(u)} \in SUBSET (1 .. n) /\ Max(u) \in 1 .. n
  <2> HIDE DEF n
  <2>1. QED BY <1>1, <1>4, MaxOf
<1>5. Rec(f)
  <2>1. ASSUME NEW u \in SUBSET (1 .. n), u # {}
        PROVE  step[Max(u)][f[u \ {Max(u)}]] = RunQueued(c, f[u \ {Max(u)}], q[Max(u)])
        BY <1>3, <1>4, <2>1
  <2> HIDE DEF step
  <2>2. QED BY <1>1, <1>3, <2>1 DEF FoldOf
<1>6. PICK g : Rec(g) /\ QueueRun(c, s) = g[DOMAIN q]
  <2>1. \E g : Rec(g) BY <1>5
  <2> HIDE DEF n, q
  <2>2. QED BY <2>1 DEF QueueRun, FoldLeft, MapThenFoldSet, q
<1> DEFINE G == {u \in SUBSET (1 .. n) : g[u] \in T}
<1>7. {} \in G BY <1>1, <1>6
<1>8. ASSUME NEW u \in SUBSET (1 .. n), u # {}, u \ {Max(u)} \in G PROVE u \in G
  <2>1. u \ {Max(u)} \in SUBSET (1 .. n) /\ Max(u) \in 1 .. n BY <1>4, <1>8
  <2>2. g[u] = RunQueued(c, g[u \ {Max(u)}], q[Max(u)]) BY <1>1, <1>6, <1>8
  <2>3. g[u \ {Max(u)}] \in T BY <1>8
  <2>4. QED BY <1>1, <1>c, <2>1, <2>2, <2>3
<1>9. SUBSET (1 .. n) \subseteq G
  <2> HIDE DEF G, n
  <2>1. QED BY <1>1, <1>7, <1>8, SubsetsOf
<1>10. g[DOMAIN q] \in T BY <1>1, <1>9
<1>11. QED BY <1>6, <1>10

-----------------------------------------------------------------------------
(* Transactions are fed whole *)

ExpiredDel(out, expired, i) == out[i].name = "DEL" /\ <<out[i].db, out[i].key>> \in expired

\* Only the DELs of expired keys have been fed.
QuietOut(out, expired) == \A i \in DOMAIN out : ExpiredDel(out, expired, i)

\* MULTI, at m, has been fed before anything else, and EXEC has not.
OpenAt(out, expired, m) ==
    /\ m \in DOMAIN out /\ out[m].name = "MULTI"
    /\ \A i \in DOMAIN out : /\ out[i].name = "MULTI" => i = m
                             /\ out[i].name # "EXEC"
                             /\ i < m => ExpiredDel(out, expired, i)
OpenOut(out, expired) == \E m \in DOMAIN out : OpenAt(out, expired, m)

Quiet == {s \in Followed : QuietOut(s.out, s.expired)}
Open == {s \in Followed : OpenOut(s.out, s.expired)}

LEMMA Appended ==
  ASSUME NEW E, NEW out \in Seq(E), NEW e
  PROVE  /\ DOMAIN out = 1 .. Len(out) /\ Len(out) \in Nat
         /\ DOMAIN Append(out, e) = 1 .. Len(out) + 1
         /\ Append(out, e)[Len(out) + 1] = e
         /\ \A i \in 1 .. Len(out) : Append(out, e)[i] = out[i]
OBVIOUS

LEMMA QuietMore ==
  ASSUME NEW E, NEW out \in Seq(E), NEW expired, NEW d, NEW k, NEW e, e.name = "DEL", e.db = d, e.key = k,
         QuietOut(out, expired)
  PROVE  QuietOut(Append(out, e), expired \cup {<<d, k>>})
<1> DEFINE more == Append(out, e)  n == Len(out)  grown == expired \cup {<<d, k>>}
<1>1. /\ DOMAIN out = 1 .. n /\ n \in Nat /\ DOMAIN more = 1 .. n + 1 /\ more[n + 1] = e
      /\ \A i \in 1 .. n : more[i] = out[i]
      BY Appended
<1> HIDE DEF more, n
<1>2. ASSUME NEW i \in 1 .. n + 1 PROVE ExpiredDel(more, grown, i)
  <2>1. CASE i = n + 1 BY <1>1, <2>1 DEF ExpiredDel
  <2>2. CASE i \in 1 .. n
    <3>1. ExpiredDel(out, expired, i) BY <1>1, <2>2 DEF QuietOut
    <3>2. QED BY <1>1, <2>2, <3>1 DEF ExpiredDel
  <2>3. QED BY <1>1, <2>1, <2>2
<1>3. QED BY <1>1, <1>2 DEF QuietOut, more

LEMMA OpenMore ==
  ASSUME NEW E, NEW out \in Seq(E), NEW expired, NEW grown, expired \subseteq grown, NEW e,
         e.name \notin {"MULTI", "EXEC"}, OpenOut(out, expired)
  PROVE  OpenOut(Append(out, e), grown)
<1> DEFINE more == Append(out, e)  n == Len(out)
<1>1. /\ DOMAIN out = 1 .. n /\ n \in Nat /\ DOMAIN more = 1 .. n + 1 /\ more[n + 1] = e
      /\ \A i \in 1 .. n : more[i] = out[i]
      BY Appended
<1> HIDE DEF more, n
<1>2. PICK m \in 1 .. n : OpenAt(out, expired, m) BY <1>1 DEF OpenOut
<1>3. m \in 1 .. n + 1 /\ more[m].name = "MULTI" BY <1>1, <1>2 DEF OpenAt
<1>4. ASSUME NEW i \in 1 .. n + 1
      PROVE  /\ more[i].name = "MULTI" => i = m
             /\ more[i].name # "EXEC"
             /\ i < m => ExpiredDel(more, grown, i)
  <2>1. CASE i = n + 1 BY <1>1, <1>2, <2>1
  <2>2. CASE i \in 1 .. n
    <3>1. /\ out[i].name = "MULTI" => i = m
          /\ out[i].name # "EXEC"
          /\ i < m => ExpiredDel(out, expired, i)
          BY <1>1, <1>2, <2>2 DEF OpenAt
    <3>2. QED BY <1>1, <2>2, <3>1 DEF ExpiredDel
  <2>3. QED BY <1>1, <2>1, <2>2
<1>5. QED BY <1>1, <1>3, <1>4 DEF OpenOut, OpenAt, more

LEMMA OpenFirst ==
  ASSUME NEW E, NEW out \in Seq(E), NEW expired, QuietOut(out, expired), NEW e, e.name = "MULTI"
  PROVE  OpenOut(Append(out, e), expired)
<1> DEFINE more == Append(out, e)  n == Len(out)
<1>1. /\ DOMAIN out = 1 .. n /\ n \in Nat /\ DOMAIN more = 1 .. n + 1 /\ more[n + 1] = e
      /\ \A i \in 1 .. n : more[i] = out[i]
      BY Appended
<1> HIDE DEF more, n
<1>2. ASSUME NEW i \in 1 .. n
      PROVE  ExpiredDel(more, expired, i) /\ more[i].name = "DEL"
  <2>1. ExpiredDel(out, expired, i) BY <1>1 DEF QuietOut
  <2>2. QED BY <1>1, <2>1 DEF ExpiredDel
<1>3. OpenAt(more, expired, n + 1)
  <2>1. n + 1 \in 1 .. n + 1 BY <1>1
  <2>2. ASSUME NEW i \in 1 .. n + 1
        PROVE  /\ more[i].name = "MULTI" => i = n + 1
               /\ more[i].name # "EXEC"
               /\ i < n + 1 => ExpiredDel(more, expired, i)
    <3>1. CASE i = n + 1 BY <1>1, <3>1
    <3>2. CASE i \in 1 .. n BY <1>2, <3>2
    <3>3. QED BY <1>1, <3>1, <3>2
  <2>3. QED BY <1>1, <2>1, <2>2 DEF OpenAt
<1>4. QED BY <1>1, <1>3 DEF OpenOut, more

\* The three ways in which what was fed is whole.
LEMMA QuietWhole ==
  ASSUME NEW out, NEW expired, QuietOut(out, expired)
  PROVE  Whole(out, expired)
<1>1. Written(out, expired) = {} BY DEF QuietOut, ExpiredDel, Written
<1>2. QED BY <1>1 DEF Whole, Framed

LEMMA OneWhole ==
  ASSUME NEW E, NEW out \in Seq(E), NEW expired, QuietOut(out, expired), NEW e
  PROVE  Whole(Append(out, e), expired)
<1> DEFINE more == Append(out, e)  n == Len(out)
<1>1. /\ DOMAIN out = 1 .. n /\ n \in Nat /\ DOMAIN more = 1 .. n + 1 /\ more[n + 1] = e
      /\ \A i \in 1 .. n : more[i] = out[i]
      BY Appended
<1> HIDE DEF more, n
<1>2. ASSUME NEW i \in Written(more, expired) PROVE i = n + 1
  <2>1. i \in 1 .. n + 1 /\ ~ExpiredDel(more, expired, i) BY <1>1 DEF Written, ExpiredDel
  <2>2. i \in 1 .. n => ExpiredDel(out, expired, i) BY <1>1 DEF QuietOut
  <2>3. i \notin 1 .. n BY <1>1, <2>1, <2>2 DEF ExpiredDel
  <2>4. QED BY <1>1, <2>1, <2>3
<1>3. QED BY <1>2 DEF Whole, Framed, more

LEMMA ClosedWhole ==
  ASSUME NEW E, NEW out \in Seq(E), NEW expired, OpenOut(out, expired), NEW e, e.name = "EXEC"
  PROVE  Whole(Append(out, e), expired)
<1> DEFINE more == Append(out, e)  n == Len(out)  w == Written(more, expired)
<1>1. /\ DOMAIN out = 1 .. n /\ n \in Nat /\ DOMAIN more = 1 .. n + 1 /\ more[n + 1] = e
      /\ \A i \in 1 .. n : more[i] = out[i]
      BY Appended
<1> HIDE DEF more, n
<1>2. PICK m \in 1 .. n : OpenAt(out, expired, m) BY <1>1 DEF OpenOut
<1>3. \A i \in w : i \in 1 .. n + 1 /\ ~ExpiredDel(more, expired, i) BY <1>1 DEF Written, ExpiredDel
<1>4. m \in w /\ n + 1 \in w
  <2>1. more[m].name = "MULTI" /\ more[n + 1].name = "EXEC" /\ m \in 1 .. n + 1 /\ n + 1 \in 1 .. n + 1
        BY <1>1, <1>2 DEF OpenAt
  <2>2. QED BY <1>1, <2>1 DEF Written
<1> HIDE DEF w
<1>5. ASSUME NEW i \in w
      PROVE  /\ m <= i /\ i <= n + 1
             /\ more[i].name = "MULTI" <=> i = m
             /\ more[i].name = "EXEC" <=> i = n + 1
  <2>1. i \in 1 .. n + 1 /\ ~ExpiredDel(more, expired, i) BY <1>3
  <2>2. CASE i = n + 1 BY <1>1, <1>2, <2>2
  <2>3. CASE i \in 1 .. n
    <3>1. ~ExpiredDel(out, expired, i) BY <1>1, <2>1, <2>3 DEF ExpiredDel
    <3>2. /\ out[i].name = "MULTI" => i = m
          /\ out[i].name # "EXEC"
          /\ ~(i < m) /\ out[m].name = "MULTI"
          BY <1>1, <1>2, <2>3, <3>1 DEF OpenAt
    <3>3. QED BY <1>1, <2>3, <3>2
  <2>4. QED BY <1>1, <2>1, <2>2, <2>3
<1>6. ASSUME NEW i \in w
      PROVE  /\ more[i].name = "MULTI" <=> \A j \in w : i <= j
             /\ more[i].name = "EXEC" <=> \A j \in w : j <= i
  <2>1. i \in 1 .. n + 1 /\ m \in Nat /\ n \in Nat BY <1>1, <1>3
  <2>2. (\A j \in w : i <= j) <=> i = m BY <1>4, <1>5, <2>1
  <2>3. (\A j \in w : j <= i) <=> i = n + 1 BY <1>4, <1>5, <2>1
  <2>4. QED BY <1>5, <2>2, <2>3
<1>7. QED BY <1>6 DEF Whole, Framed, w, more

LEMMA OutIs ==
  ASSUME NEW s \in Followed
  PROVE  s \in Work /\ s.out \in Seq(FedOps)
BY WorkIs DEF Followed

LEMMA QuietGrows ==
  ASSUME Base
  PROVE  Growing(Quiet)
<1>1. ASSUME NEW s \in Quiet, NEW d \in Dbs, NEW k \in Keys PROVE Expire(s, d, k) \in Quiet
  <2> DEFINE t == Expire(s, d, k)
             e == Op("DEL", d, k, 0)
  <2>1. s \in Followed /\ QuietOut(s.out, s.expired) BY DEF Quiet
  <2>2. t \in Followed BY <2>1, ExpireFollows
  <2>3. t.out = Append(s.out, e) /\ t.expired = s.expired \cup {<<d, k>>} BY <2>1, OutIs, ExpireIs
  <2>4. e.name = "DEL" /\ e.db = d /\ e.key = k BY DEF Op
  <2> HIDE DEF t, e
  <2>5. s.out \in Seq(FedOps) BY <2>1, OutIs
  <2>6. QuietOut(t.out, t.expired)
    <3>1. QuietOut(Append(s.out, e), s.expired \cup {<<d, k>>}) BY <2>1, <2>4, <2>5, QuietMore
    <3>2. QED BY <2>3, <3>1
  <2>7. QED BY <2>2, <2>6 DEF Quiet, t
<1>2. ASSUME NEW s \in Quiet PROVE [s EXCEPT !.dirty = FALSE] \in Quiet /\ [s EXCEPT !.dirty = TRUE] \in Quiet
  <2>1. s \in Followed /\ s \in Work BY OutIs DEF Quiet
  <2>2. QED BY <2>1, DirtyIs, DirtyFollows DEF Quiet
<1>3. Quiet \subseteq Followed BY DEF Quiet
<1>4. QED BY <1>1, <1>2, <1>3 DEF Growing

LEMMA OpenGrows ==
  ASSUME Base
  PROVE  Growing(Open)
<1>1. ASSUME NEW s \in Open, NEW d \in Dbs, NEW k \in Keys PROVE Expire(s, d, k) \in Open
  <2> DEFINE t == Expire(s, d, k)
             e == Op("DEL", d, k, 0)
  <2>1. s \in Followed /\ OpenOut(s.out, s.expired) BY DEF Open
  <2>2. t \in Followed BY <2>1, ExpireFollows
  <2>3. t.out = Append(s.out, e) /\ t.expired = s.expired \cup {<<d, k>>} BY <2>1, OutIs, ExpireIs
  <2>4. e.name \notin {"MULTI", "EXEC"} BY DEF Op
  <2> HIDE DEF t, e
  <2>5. s.out \in Seq(FedOps) /\ s.expired \subseteq t.expired BY <2>1, <2>3, OutIs
  <2>6. OpenOut(t.out, t.expired) BY <2>1, <2>3, <2>4, <2>5, OpenMore
  <2>7. QED BY <2>2, <2>6 DEF Open, t
<1>2. ASSUME NEW s \in Open PROVE [s EXCEPT !.dirty = FALSE] \in Open /\ [s EXCEPT !.dirty = TRUE] \in Open
  <2>1. s \in Followed /\ s \in Work BY OutIs DEF Open
  <2>2. QED BY <2>1, DirtyIs, DirtyFollows DEF Open
<1>3. Open \subseteq Followed BY DEF Open
<1>4. QED BY <1>1, <1>2, <1>3 DEF Growing

LEMMA EitherGrows ==
  ASSUME Base
  PROVE  Growing(Quiet \cup Open)
BY QuietGrows, OpenGrows DEF Growing

LEMMA QuietNoMulti ==
  ASSUME NEW s \in Quiet
  PROVE  ~ \E i \in DOMAIN s.out : s.out[i].name = "MULTI"
BY DEF Quiet, QuietOut, ExpiredDel

LEMMA OpenMulti ==
  ASSUME NEW s \in Open
  PROVE  \E i \in DOMAIN s.out : s.out[i].name = "MULTI"
BY DEF Open, OpenOut, OpenAt

LEMMA RequestIs ==
  ASSUME NEW c \in Clients, NEW cmd \in Commands[c]
  PROVE  Request(c, cmd) \in ClientOps /\ Request(c, cmd).name = cmd.name
<1>1. KnownCommand(cmd) /\ Db[c] \in Dbs BY ServerAssumption
<1>2. cmd.name \in Names /\ cmd.key \in Keys /\ cmd.arg \in Int BY <1>1 DEF KnownCommand, Names
<1> DEFINE r == Request(c, cmd)
<1>3. r = [name |-> cmd.name, db |-> Db[c], key |-> cmd.key, arg |-> cmd.arg] BY DEF Request, Op
<1>4. r \in [name : Names, db : Dbs, key : Keys, arg : Int] /\ r.name = cmd.name /\ r.arg = cmd.arg BY <1>1, <1>2, <1>3
<1> HIDE DEF r
<1>5. Meant(r) BY <1>1, <1>4 DEF Meant, KnownCommand
<1>6. QED BY <1>4, <1>5 DEF ClientOps, r

\* A write inside a transaction, after its MULTI.
LEMMA OpenCall ==
  ASSUME Base, NEW s \in Open, NEW c \in ClientOps
  PROVE  Call(Here, s, c) \in Open
<1> DEFINE r == Call(Here, s, c)
           e == Rewritten(Here, c)
<1>1. Growing(Open) BY OpenGrows
<1>2. PICK u \in Open : FedOnce(u, r, e) BY <1>1, CallFollows
<1>3. e.name \notin {"MULTI", "EXEC"}
  <2>1. e \in ClientOps BY RewrittenIs
  <2> HIDE DEF e
  <2>2. QED BY <2>1, ClientOpIs DEF Names
<1> HIDE DEF r, e
<1>4. u \in Followed /\ OpenOut(u.out, u.expired) BY DEF Open
<1>5. u.out \in Seq(FedOps) BY <1>4, OutIs
<1>6. r \in Followed /\ r.expired = u.expired /\ r.out \in {u.out, Append(u.out, e)} BY <1>2 DEF FedOnce
<1>7. OpenOut(Append(u.out, e), u.expired) BY <1>3, <1>4, <1>5, OpenMore
<1>8. r \in Open BY <1>4, <1>6, <1>7 DEF Open
<1>9. QED BY <1>8 DEF r

LEMMA QueuedRuns ==
  ASSUME Base, NEW c \in Clients
  PROVE  Running(c, Quiet \cup Open)
<1>1. SUFFICES ASSUME NEW s \in Quiet \cup Open, NEW cmd \in Commands[c]
               PROVE  RunQueued(c, s, cmd) \in Quiet \cup Open
      BY DEF Running
<1>2. Request(c, cmd) \in ClientOps /\ Request(c, cmd).name = cmd.name BY RequestIs
<1>3. CASE ReadOnly(cmd)
  <2>1. RunQueued(c, s, cmd) = Call(Here, s, Request(c, cmd)) BY <1>3 DEF RunQueued
  <2>2. Request(c, cmd).name = "GET" BY <1>2, <1>3 DEF ReadOnly
  <2>3. Growing(Quiet \cup Open) BY EitherGrows
  <2>4. QED BY <1>2, <2>1, <2>2, <2>3, GetFollows
<1>4. CASE ~ReadOnly(cmd) /\ s \in Open
  <2>1. RunQueued(c, s, cmd) = Call(Here, s, Request(c, cmd)) BY <1>4, OpenMulti DEF RunQueued
  <2>2. QED BY <1>2, <1>4, <2>1, OpenCall
<1>5. CASE ~ReadOnly(cmd) /\ s \in Quiet
  <2> DEFINE e == Op("MULTI", Db[c], 0, 0)
             t == [s EXCEPT !.out = Append(@, e)]
  <2>1. RunQueued(c, s, cmd) = Call(Here, t, Request(c, cmd)) BY <1>5, QuietNoMulti DEF RunQueued
  <2>2. e \in Frames /\ e.name = "MULTI"
    <3>1. Db[c] \in Dbs BY ServerAssumption
    <3>2. QED BY <3>1 DEF Op, Frames
  <2>3. s \in Followed /\ QuietOut(s.out, s.expired) BY <1>5 DEF Quiet
  <2> HIDE DEF e
  <2>4. t \in Followed /\ t.out = Append(s.out, e) /\ t.expired = s.expired BY <2>2, <2>3, FrameFollows
  <2> HIDE DEF t
  <2>5. s.out \in Seq(FedOps) BY <2>3, OutIs
  <2>6. OpenOut(t.out, t.expired) BY <2>2, <2>3, <2>4, <2>5, OpenFirst
  <2>7. t \in Open BY <2>4, <2>6 DEF Open
  <2>8. QED BY <1>2, <2>1, <2>7, OpenCall
<1>6. QED BY <1>3, <1>4, <1>5

\* What a step may end with.
Endings == {s \in Followed : Whole(s.out, s.expired)}

LEMMA DataQuiet ==
  ASSUME Base
  PROVE  Data(val, exp) \in Quiet
<1>1. Data(val, exp) \in Followed /\ Data(val, exp).out = <<>> BY DataFollows
<1>2. DOMAIN <<>> = {} OBVIOUS
<1>3. QED BY <1>1, <1>2 DEF Quiet, QuietOut

LEMMA QuietEnds ==
  ASSUME NEW s \in Quiet
  PROVE  s \in Endings
BY QuietWhole DEF Quiet, Endings

LEMMA ExpiredQuiet ==
  ASSUME Base, NEW ps \in SUBSET Places
  PROVE  ExpireAll(Data(val, exp), ps) \in Quiet
BY QuietGrows, DataQuiet, ExpireAllIn

LEMMA ExecuteEnds ==
  ASSUME Base, NEW s \in Quiet, NEW c \in ClientOps
  PROVE  Call(Here, s, c) \in Endings
<1> DEFINE r == Call(Here, s, c)
           e == Rewritten(Here, c)
<1>1. Growing(Quiet) BY QuietGrows
<1>2. PICK u \in Quiet : FedOnce(u, r, e) BY <1>1, CallFollows
<1> HIDE DEF r, e
<1>3. u \in Followed /\ QuietOut(u.out, u.expired) BY DEF Quiet
<1>4. u.out \in Seq(FedOps) BY <1>3, OutIs
<1>5. r \in Followed /\ r.expired = u.expired /\ r.out \in {u.out, Append(u.out, e)} BY <1>2 DEF FedOnce
<1>6. Whole(u.out, u.expired) /\ Whole(Append(u.out, e), u.expired) BY <1>3, <1>4, QuietWhole, OneWhole
<1>7. r \in Endings BY <1>5, <1>6 DEF Endings
<1>8. QED BY <1>7 DEF r

LEMMA ExecEnds ==
  ASSUME Base, NEW c \in Clients, NEW s \in Quiet, client[c].queue \in Seq(Commands[c])
  PROVE  ExecAll(c, s) \in Endings
<1> DEFINE t == QueueRun(c, s)
           e == Op("EXEC", Db[c], 0, 0)
<1>1. t \in Quiet \cup Open
  <2> DEFINE T == Quiet \cup Open
  <2>1. Running(c, T) BY QueuedRuns
  <2>2. s \in T OBVIOUS
  <2> HIDE DEF T
  <2>3. t \in T BY <2>1, <2>2, RunAllIn
  <2>4. QED BY <2>3 DEF T
<1>2. ExecAll(c, s) = ExecFed(c, t) BY Zenon DEF ExecAll, QueueRun
<1> HIDE DEF t
<1>3. CASE t \in Quiet
  <2>1. ExecFed(c, t) = t BY <1>3, QuietNoMulti DEF ExecFed
  <2>2. QED BY <1>2, <1>3, <2>1, QuietEnds
<1>4. CASE t \in Open
  <2> DEFINE r == [t EXCEPT !.out = Append(@, e)]
  <2>1. ExecFed(c, t) = r BY <1>4, OpenMulti DEF ExecFed
  <2>2. e \in Frames /\ e.name = "EXEC"
    <3>1. Db[c] \in Dbs BY ServerAssumption
    <3>2. QED BY <3>1 DEF Op, Frames
  <2> HIDE DEF e
  <2>3. t \in Followed /\ OpenOut(t.out, t.expired) BY <1>4 DEF Open
  <2>4. r \in Followed /\ r.out = Append(t.out, e) /\ r.expired = t.expired BY <2>2, <2>3, FrameFollows
  <2> HIDE DEF r
  <2>5. t.out \in Seq(FedOps) BY <2>3, OutIs
  <2>6. Whole(r.out, r.expired) BY <2>2, <2>3, <2>4, <2>5, ClosedWhole
  <2>7. QED BY <1>2, <2>1, <2>4, <2>6 DEF Endings
<1>5. QED BY <1>1, <1>3, <1>4

-----------------------------------------------------------------------------
(* The inductive invariant *)

AllCommands == UNION {Commands[c] : c \in Clients}

AnyClient == [multi : BOOLEAN, cas : BOOLEAN, exec : BOOLEAN, queue : Seq(AllCommands),
              watched : SUBSET (Dbs \X Keys)]

\* A client queues and watches what it may.
ClientsOf(cl) ==
    /\ cl \in [Clients -> AnyClient]
    /\ \A c \in Clients : cl[c].queue \in Seq(Commands[c]) /\ cl[c].watched \subseteq {Db[c]} \X Keys

\* Only a client that watches is dirty, and one whose watched key was changed is.
Marked(cl) ==
    \A c \in Clients : /\ cl[c].cas => cl[c].watched # {}
                       /\ cl[c].watched # {} /\ seen[c] => cl[c].cas

ServerInv ==
    /\ Base /\ ClientsOf(client) /\ Marked(client)
    /\ seen \in [Clients -> BOOLEAN] /\ \A c \in Clients : seen[c] => client[c].watched # {}
    /\ torn = FALSE

LEMMA NewClientIs ==
  /\ NewClient \in AnyClient /\ NewClient.cas = FALSE /\ NewClient.watched = {}
  /\ \A c \in Clients : NewClient.queue \in Seq(Commands[c])
<1>1. <<>> \in Seq(AllCommands) /\ \A c \in Clients : <<>> \in Seq(Commands[c]) OBVIOUS
<1>2. NewClient.cas = FALSE /\ NewClient.watched = {} /\ NewClient.queue = <<>> BY DEF NewClient
<1>3. NewClient \in AnyClient BY <1>1 DEF NewClient, AnyClient
<1>4. QED BY <1>1, <1>2, <1>3

\* One client gets another record.
LEMMA ClientPut ==
  ASSUME NEW c \in Clients, ClientsOf(client), Marked(client), NEW r \in AnyClient,
         r.queue \in Seq(Commands[c]), r.watched \subseteq {Db[c]} \X Keys,
         r.cas => r.watched # {}, r.watched # {} /\ seen[c] => r.cas
  PROVE  ClientsOf([client EXCEPT ![c] = r]) /\ Marked([client EXCEPT ![c] = r])
<1> DEFINE cl == [client EXCEPT ![c] = r]
<1>1. client \in [Clients -> AnyClient] BY DEF ClientsOf
<1>2. cl \in [Clients -> AnyClient] /\ \A b \in Clients : cl[b] = IF b = c THEN r ELSE client[b] BY <1>1
<1> HIDE DEF cl
<1>3. ClientsOf(cl) BY <1>2 DEF ClientsOf
<1>4. Marked(cl) BY <1>2 DEF Marked
<1>5. QED BY <1>3, <1>4 DEF cl

LEMMA ClientIs ==
  ASSUME NEW c \in Clients, ClientsOf(client), Marked(client)
  PROVE  /\ client[c] \in AnyClient /\ client[c].queue \in Seq(Commands[c])
         /\ client[c].watched \subseteq {Db[c]} \X Keys
         /\ client[c].cas => client[c].watched # {}
         /\ client[c].watched # {} /\ seen[c] => client[c].cas
BY DEF ClientsOf, Marked

\* A client with the flag up.
LEMMA CasIs ==
  ASSUME NEW r \in AnyClient
  PROVE  /\ [r EXCEPT !.cas = TRUE] \in AnyClient /\ [r EXCEPT !.cas = TRUE].cas = TRUE
         /\ [r EXCEPT !.cas = TRUE].queue = r.queue /\ [r EXCEPT !.cas = TRUE].watched = r.watched
         /\ r.cas = FALSE => [r EXCEPT !.cas = FALSE] = r
         /\ r.cas = TRUE => [r EXCEPT !.cas = TRUE] = r
BY DEF AnyClient

LEMMA CommitKeeps ==
  ASSUME ServerInv, NEW s \in Endings, NEW cl, ClientsOf(cl), Marked(cl), Commit(s, cl)
  PROVE  ServerInv'
<1> DEFINE changed == {p \in Places : s.val[p[1]][p[2]] # val[p[1]][p[2]]} \ (s.expired \cup s.moved)
<1>1. Ended(s, cl, changed) BY DEF Commit
<1> HIDE DEF changed
<1>2. /\ val' = s.val /\ exp' = s.exp /\ now' = now
      /\ client' = [c \in Clients |-> [cl[c] EXCEPT !.cas = @ \/ cl[c].watched \cap s.touched # {}]]
      /\ seen' = [c \in Clients |-> cl[c].watched # {} /\ (seen[c] \/ cl[c].watched \cap changed # {})]
      /\ replica' = Replay(Slave, replica, s.out)
      /\ aof' = LoadedAof(aof, s.out)
      /\ torn' = (torn \/ ~Whole(s.out, s.expired))
      BY <1>1 DEF Ended, Slave
<1>b. Base /\ torn = FALSE /\ seen \in [Clients -> BOOLEAN] BY DEF ServerInv
<1>3. s \in Followed /\ s \in Work /\ Follows(s) /\ Whole(s.out, s.expired) BY DEF Endings, Followed
<1>4. Base'
  <2>1. s.val \in Vals /\ s.exp \in Exps /\ Tidy(s.val, s.exp) /\ s.out \in Seq(FedOps) BY <1>3, WorkIs
  <2>2. aof' \in DataSets /\ aof'.val = s.val /\ aof'.exp = s.exp
    <3>1. aof' = DataSet(s) BY <1>2, <1>3 DEF Follows
    <3>2. QED BY <1>3, <3>1, DataSetIs
  <2>3. replica' \in DataSets /\ replica'.val = s.val
    <3> DEFINE a == Applied(Slave, replica, s.out)
    <3>1. a \in Work
      <4>1. now \in 0 .. MaxTime /\ replica \in DataSets BY <1>b DEF Base
      <4>2. Slave \in Contexts /\ Slave.role # "master" BY <4>1, ContextsAre
      <4>3. ClosedUnder(Slave, Work, FedOps) /\ Start(replica) \in Work BY <4>1, <4>2, FollowerClosed, StartIs
      <4>4. QED BY <2>1, <4>3, AppliedIn
    <3>2. replica' = DataSet(a) BY <1>2, ReplayApplied
    <3>3. a.val = s.val BY <1>3 DEF Follows
    <3> HIDE DEF a
    <3>4. QED BY <3>1, <3>2, <3>3, DataSetIs
  <2>4. now' \in 0 .. MaxTime BY <1>2, <1>b DEF Base
  <2>5. /\ val' \in Vals /\ exp' \in Exps /\ Tidy(val', exp')
        /\ replica' \in DataSets /\ replica'.val = val' /\ aof'.val = val' /\ aof'.exp = exp'
        BY <1>2, <2>1, <2>2, <2>3
  <2>6. QED BY <2>2, <2>4, <2>5 DEF Base, Vals, Exps, DataSets, Tidy
<1>5. ASSUME NEW c \in Clients
      PROVE  /\ client'[c] \in AnyClient /\ client'[c].queue = cl[c].queue /\ client'[c].watched = cl[c].watched
             /\ client'[c].cas <=> (cl[c].cas \/ cl[c].watched \cap s.touched # {})
  <2>1. cl[c] \in AnyClient /\ cl[c].cas \in BOOLEAN BY DEF ClientsOf, AnyClient
  <2>2. client'[c] = [cl[c] EXCEPT !.cas = cl[c].cas \/ cl[c].watched \cap s.touched # {}] BY <1>2
  <2>3. CASE cl[c].cas \/ cl[c].watched \cap s.touched # {}
    <3>1. (cl[c].cas \/ cl[c].watched \cap s.touched # {}) = TRUE BY <2>3
    <3>2. client'[c] = [cl[c] EXCEPT !.cas = TRUE] BY <2>2, <3>1
    <3> DEFINE r == cl[c]
    <3>3. r \in AnyClient /\ client'[c] = [r EXCEPT !.cas = TRUE] BY <2>1, <3>2
    <3> HIDE DEF r
    <3>4. client'[c] \in AnyClient /\ client'[c].cas = TRUE /\ client'[c].queue = r.queue /\ client'[c].watched = r.watched
      <4>1. /\ [r EXCEPT !.cas = TRUE] \in AnyClient /\ [r EXCEPT !.cas = TRUE].cas = TRUE
            /\ [r EXCEPT !.cas = TRUE].queue = r.queue /\ [r EXCEPT !.cas = TRUE].watched = r.watched
            BY <3>3, CasIs, Zenon
      <4>2. QED BY <3>3, <4>1, Zenon
    <3>5. QED BY <2>3, <3>4 DEF r
  <2>4. CASE ~(cl[c].cas \/ cl[c].watched \cap s.touched # {})
    <3>1. (cl[c].cas \/ cl[c].watched \cap s.touched # {}) = FALSE /\ cl[c].cas = FALSE BY <2>1, <2>4
    <3>2. client'[c] = [cl[c] EXCEPT !.cas = FALSE] BY <2>2, <3>1
    <3>3. client'[c] = cl[c] BY <2>1, <3>1, <3>2, CasIs
    <3>4. QED BY <2>1, <2>4, <3>1, <3>3
  <2>5. QED BY <2>3, <2>4
<1>6. ClientsOf(client)'
  <2>1. client' \in [Clients -> AnyClient] BY <1>2, <1>5
  <2>2. \A c \in Clients : client'[c].queue \in Seq(Commands[c]) /\ client'[c].watched \subseteq {Db[c]} \X Keys
        BY <1>5 DEF ClientsOf
  <2>3. QED BY <2>1, <2>2 DEF ClientsOf, AnyClient, AllCommands
<1>7. seen' \in [Clients -> BOOLEAN]
      /\ \A c \in Clients : seen'[c] <=> cl[c].watched # {} /\ (seen[c] \/ cl[c].watched \cap changed # {})
      BY <1>2, <1>b
<1>8. changed \subseteq s.touched
  <2>1. SUFFICES ASSUME NEW p \in changed PROVE p \in s.touched OBVIOUS
  <2>2. p \in Places /\ s.val[p[1]][p[2]] # val[p[1]][p[2]] /\ p \notin s.expired /\ p \notin s.moved BY DEF changed
  <2>3. p[1] \in Dbs /\ p[2] \in Keys /\ p = <<p[1], p[2]>> BY <2>2 DEF Places
  <2>4. <<p[1], p[2]>> \in s.touched \cup s.expired \cup s.moved BY <1>3, <2>2, <2>3 DEF Follows
  <2>5. QED BY <2>2, <2>3, <2>4
<1>9. ASSUME NEW c \in Clients
      PROVE  /\ client'[c].cas => client'[c].watched # {}
             /\ seen'[c] => client'[c].cas /\ client'[c].watched # {}
  <2>1. cl[c].cas => cl[c].watched # {} BY DEF Marked
  <2>2. cl[c].watched # {} /\ seen[c] => cl[c].cas BY DEF Marked
  <2>3. client'[c].cas => client'[c].watched # {} BY <1>5, <2>1
  <2>4. seen'[c] => client'[c].cas BY <1>5, <1>7, <1>8, <2>2
  <2>5. QED BY <1>5, <1>7, <2>3, <2>4
<1>10. Marked(client)' BY <1>9 DEF Marked
<1>11. torn' = FALSE BY <1>2, <1>3, <1>b
<1>12. QED BY <1>4, <1>6, <1>7, <1>9, <1>10, <1>11 DEF ServerInv

-----------------------------------------------------------------------------
(* One lemma per action *)

LEMMA EvictionsIn ==
  ASSUME NEW ps \in Evictions
  PROVE  ps \in SUBSET Places
BY ServerAssumption DEF Evictions

LEMMA RefuseKeeps ==
  ASSUME ServerInv, NEW c \in Clients, Refuse(c)
  PROVE  ServerInv'
<1> DEFINE r == [client[c] EXCEPT !.exec = TRUE]
           cl == [client EXCEPT ![c].exec = TRUE]
<1>1. PICK ps \in Evictions : Commit(ExpireAll(Data(val, exp), ps), cl) BY DEF Refuse
<1>2. Base /\ ClientsOf(client) /\ Marked(client) BY DEF ServerInv
<1>3. cl = [client EXCEPT ![c] = r] OBVIOUS
<1> HIDE DEF cl
<1>4. r \in AnyClient /\ r.queue = client[c].queue /\ r.watched = client[c].watched /\ r.cas = client[c].cas
      BY <1>2, ClientIs DEF AnyClient
<1> HIDE DEF r
<1>5. ClientsOf(cl) /\ Marked(cl) BY <1>2, <1>3, <1>4, ClientIs, ClientPut
<1>6. ExpireAll(Data(val, exp), ps) \in Endings BY <1>2, EvictionsIn, ExpiredQuiet, QuietEnds
<1>7. QED BY <1>1, <1>5, <1>6, CommitKeeps

LEMMA QueueKeeps ==
  ASSUME ServerInv, NEW c \in Clients, NEW cmd \in Commands[c], Queue(c, cmd)
  PROVE  ServerInv'
<1> DEFINE q == Append(client[c].queue, cmd)
           r == [client[c] EXCEPT !.queue = q]
           cl == [client EXCEPT ![c].queue = Append(@, cmd)]
<1>1. PICK ps \in Evictions : Commit(ExpireAll(Data(val, exp), ps), cl) BY DEF Queue
<1>2. Base /\ ClientsOf(client) /\ Marked(client) BY DEF ServerInv
<1>3. cl = [client EXCEPT ![c] = r] OBVIOUS
<1> HIDE DEF cl
<1>q. q \in Seq(Commands[c]) /\ q \in Seq(AllCommands)
  <2>1. client[c].queue \in Seq(Commands[c]) BY <1>2, ClientIs
  <2>2. client[c].queue \in Seq(AllCommands) BY <1>2, ClientIs DEF AnyClient
  <2>3. cmd \in AllCommands BY DEF AllCommands
  <2> DEFINE o == client[c].queue
             mine == Commands[c]
  <2>4. o \in Seq(mine) /\ o \in Seq(AllCommands) /\ cmd \in mine BY <2>1, <2>2
  <2> HIDE DEF o, mine
  <2>5. Append(o, cmd) \in Seq(mine) BY <2>4
  <2>6. Append(o, cmd) \in Seq(AllCommands) BY <2>3, <2>4
  <2>7. QED BY <2>5, <2>6 DEF o, mine
<1> HIDE DEF q
<1>4. r \in AnyClient /\ r.queue = q /\ r.watched = client[c].watched /\ r.cas = client[c].cas
      BY <1>2, <1>q, ClientIs DEF AnyClient
<1> HIDE DEF r
<1>5. ClientsOf(cl) /\ Marked(cl) BY <1>2, <1>3, <1>4, <1>q, ClientIs, ClientPut
<1>6. ExpireAll(Data(val, exp), ps) \in Endings BY <1>2, EvictionsIn, ExpiredQuiet, QuietEnds
<1>7. QED BY <1>1, <1>5, <1>6, CommitKeeps

LEMMA ExecuteKeeps ==
  ASSUME ServerInv, NEW c \in Clients, NEW cmd \in Commands[c], Execute(c, cmd)
  PROVE  ServerInv'
<1>1. PICK ps \in Evictions : Commit(Call(Here, ExpireAll(Data(val, exp), ps), Request(c, cmd)), client)
      BY DEF Execute
<1>2. Base /\ ClientsOf(client) /\ Marked(client) BY DEF ServerInv
<1>3. ExpireAll(Data(val, exp), ps) \in Quiet BY <1>2, EvictionsIn, ExpiredQuiet
<1>4. Request(c, cmd) \in ClientOps BY RequestIs
<1>5. Call(Here, ExpireAll(Data(val, exp), ps), Request(c, cmd)) \in Endings BY <1>2, <1>3, <1>4, ExecuteEnds
<1>6. QED BY <1>1, <1>2, <1>5, CommitKeeps

LEMMA MultiKeeps ==
  ASSUME ServerInv, NEW c \in Clients, Multi(c)
  PROVE  ServerInv'
<1> DEFINE r == [client[c] EXCEPT !.multi = TRUE]
           cl == [client EXCEPT ![c].multi = TRUE]
<1>1. Commit(Data(val, exp), cl) BY DEF Multi
<1>2. Base /\ ClientsOf(client) /\ Marked(client) BY DEF ServerInv
<1>3. cl = [client EXCEPT ![c] = r] OBVIOUS
<1> HIDE DEF cl
<1>4. r \in AnyClient /\ r.queue = client[c].queue /\ r.watched = client[c].watched /\ r.cas = client[c].cas
      BY <1>2, ClientIs DEF AnyClient
<1> HIDE DEF r
<1>5. ClientsOf(cl) /\ Marked(cl) BY <1>2, <1>3, <1>4, ClientIs, ClientPut
<1>6. Data(val, exp) \in Endings BY <1>2, DataQuiet, QuietEnds
<1>7. QED BY <1>1, <1>5, <1>6, CommitKeeps

LEMMA DiscardedIs ==
  ASSUME ServerInv, NEW c \in Clients
  PROVE  ClientsOf(Discarded(client, c)) /\ Marked(Discarded(client, c))
<1>1. ClientsOf(client) /\ Marked(client) BY DEF ServerInv
<1>2. NewClient.watched \subseteq {Db[c]} \X Keys BY NewClientIs
<1>3. QED BY <1>1, <1>2, NewClientIs, ClientPut DEF Discarded

LEMMA DiscardKeeps ==
  ASSUME ServerInv, NEW c \in Clients, Discard(c) \/ Disconnect(c)
  PROVE  ServerInv'
<1>1. Commit(Data(val, exp), Discarded(client, c)) BY DEF Discard, Disconnect, Discarded
<1>2. Base BY DEF ServerInv
<1>3. Data(val, exp) \in Endings BY <1>2, DataQuiet, QuietEnds
<1>4. QED BY <1>1, <1>3, DiscardedIs, CommitKeeps

LEMMA ExecKeeps ==
  ASSUME ServerInv, NEW c \in Clients, Exec(c)
  PROVE  ServerInv'
<1>1. PICK ps \in Evictions :
         Commit(IF client[c].cas \/ client[c].exec THEN ExpireAll(Data(val, exp), ps)
                ELSE ExecAll(c, ExpireAll(Data(val, exp), ps)),
                Discarded(client, c))
      BY DEF Exec
<1>2. Base /\ ClientsOf(client) /\ Marked(client) BY DEF ServerInv
<1>3. ExpireAll(Data(val, exp), ps) \in Quiet BY <1>2, EvictionsIn, ExpiredQuiet
<1>4. client[c].queue \in Seq(Commands[c]) BY <1>2, ClientIs
<1>5. CASE client[c].cas \/ client[c].exec
  <2>1. Commit(ExpireAll(Data(val, exp), ps), Discarded(client, c)) BY <1>1, <1>5
  <2>2. ExpireAll(Data(val, exp), ps) \in Endings BY <1>3, QuietEnds
  <2>3. QED BY <2>1, <2>2, DiscardedIs, CommitKeeps
<1>6. CASE ~(client[c].cas \/ client[c].exec)
  <2>1. Commit(ExecAll(c, ExpireAll(Data(val, exp), ps)), Discarded(client, c)) BY <1>1, <1>6
  <2>2. ExecAll(c, ExpireAll(Data(val, exp), ps)) \in Endings BY <1>2, <1>3, <1>4, ExecEnds
  <2>3. QED BY <2>1, <2>2, DiscardedIs, CommitKeeps
<1>7. QED BY <1>5, <1>6

LEMMA WatchKeeps ==
  ASSUME ServerInv, NEW c \in Clients, NEW keys \in WatchSets[c], Watch(c, keys)
  PROVE  ServerInv'
<1> DEFINE w == client[c].watched \cup ({Db[c]} \X keys)
           r == [client[c] EXCEPT !.watched = w]
           cl == [client EXCEPT ![c].watched = @ \cup ({Db[c]} \X keys)]
<1>1. Commit(Data(val, exp), cl) BY DEF Watch
<1>2. Base /\ ClientsOf(client) /\ Marked(client) BY DEF ServerInv
<1>3. cl = [client EXCEPT ![c] = r] OBVIOUS
<1>s. seen[c] => client[c].watched # {} BY DEF ServerInv
<1> HIDE DEF cl
<1>w. w \subseteq {Db[c]} \X Keys /\ w \in SUBSET (Dbs \X Keys) /\ client[c].watched \subseteq w
  <2>1. keys \subseteq Keys /\ Db[c] \in Dbs BY ServerAssumption
  <2>2. client[c].watched \subseteq {Db[c]} \X Keys BY <1>2, ClientIs
  <2>3. QED BY <2>1, <2>2
<1> HIDE DEF w
<1>4. r \in AnyClient /\ r.queue = client[c].queue /\ r.watched = w /\ r.cas = client[c].cas
      BY <1>2, <1>w, ClientIs DEF AnyClient
<1> HIDE DEF r
<1>5. r.cas => r.watched # {} BY <1>2, <1>4, <1>w, ClientIs
<1>6. r.watched # {} /\ seen[c] => r.cas BY <1>2, <1>4, <1>s, ClientIs
<1>7. ClientsOf(cl) /\ Marked(cl) BY <1>2, <1>3, <1>4, <1>5, <1>6, <1>w, ClientIs, ClientPut
<1>8. Data(val, exp) \in Endings BY <1>2, DataQuiet, QuietEnds
<1>9. QED BY <1>1, <1>7, <1>8, CommitKeeps

LEMMA UnwatchKeeps ==
  ASSUME ServerInv, NEW c \in Clients, Unwatch(c)
  PROVE  ServerInv'
<1> DEFINE r == [client[c] EXCEPT !.watched = {}, !.cas = FALSE]
           cl == [client EXCEPT ![c].watched = {}, ![c].cas = FALSE]
<1>1. Commit(Data(val, exp), cl) BY DEF Unwatch, Unwatched
<1>2. Base /\ ClientsOf(client) /\ Marked(client) BY DEF ServerInv
<1>3. cl = [client EXCEPT ![c] = r]
  <2>1. client \in [Clients -> AnyClient] BY <1>2 DEF ClientsOf
  <2>2. QED BY <2>1
<1> HIDE DEF cl
<1>4. r \in AnyClient /\ r.queue = client[c].queue /\ r.watched = {} /\ r.cas = FALSE
      BY <1>2, ClientIs DEF AnyClient
<1> HIDE DEF r
<1>5. ClientsOf(cl) /\ Marked(cl) BY <1>2, <1>3, <1>4, ClientIs, ClientPut
<1>6. Data(val, exp) \in Endings BY <1>2, DataQuiet, QuietEnds
<1>7. QED BY <1>1, <1>5, <1>6, CommitKeeps

LEMMA CycleKeeps ==
  ASSUME ServerInv, ActiveExpireCycle
  PROVE  ServerInv'
<1>1. PICK ps \in SUBSET Overdue \ {{}} : Commit(ExpireAll(Data(val, exp), ps), client) BY DEF ActiveExpireCycle
<1>2. Base /\ ClientsOf(client) /\ Marked(client) BY DEF ServerInv
<1>3. ps \in SUBSET Places BY DEF Overdue
<1>4. ExpireAll(Data(val, exp), ps) \in Endings BY <1>2, <1>3, ExpiredQuiet, QuietEnds
<1>5. QED BY <1>1, <1>2, <1>4, CommitKeeps

LEMMA TickKeeps ==
  ASSUME ServerInv, Tick
  PROVE  ServerInv'
<1>1. now' = now + 1 /\ now < MaxTime /\ UNCHANGED <<val, exp, client, replica, aof, seen, torn>> BY DEF Tick
<1>2. now' \in 0 .. MaxTime BY <1>1, ServerAssumption DEF ServerInv, Base
<1>3. QED BY <1>1, <1>2 DEF ServerInv, Base, ClientsOf, Marked, Vals, Exps, Tidy, DataSets

-----------------------------------------------------------------------------
(* The theorems *)

LEMMA InitKeeps == ServerInit => ServerInv
<1> SUFFICES ASSUME ServerInit PROVE ServerInv OBVIOUS
<1>1. /\ val = [d \in Dbs |-> [k \in Keys |-> Absent]]
      /\ exp = [d \in Dbs |-> [k \in Keys |-> NoExpire]]
      /\ now = 0 /\ client = [c \in Clients |-> NewClient]
      /\ replica = [val |-> val, exp |-> exp] /\ aof = replica
      /\ seen = [c \in Clients |-> FALSE] /\ torn = FALSE
      BY DEF ServerInit
<1>2. val \in Vals BY <1>1, ConstantsAre DEF Vals
<1>3. exp \in Exps
  <2>1. NoExpire \in Int BY ConstantsAre
  <2>2. QED BY <1>1, <2>1 DEF Exps
<1>4. Tidy(val, exp) BY <1>1 DEF Tidy
<1>5. Base
  <2>1. now \in 0 .. MaxTime BY <1>1, ServerAssumption
  <2>2. replica \in DataSets /\ replica.val = val /\ replica.exp = exp
    <3>1. replica.val = val /\ replica.exp = exp /\ replica \in [val : Vals, exp : Exps] BY <1>1, <1>2, <1>3
    <3>2. QED BY <1>4, <3>1 DEF DataSets
  <2>3. QED BY <1>1, <1>2, <1>3, <1>4, <2>1, <2>2 DEF Base
<1>6. ClientsOf(client)
  <2>1. \A c \in Clients : NewClient.watched \subseteq {Db[c]} \X Keys BY NewClientIs
  <2>2. QED BY <1>1, <2>1, NewClientIs DEF ClientsOf
<1>7. Marked(client) BY <1>1, NewClientIs DEF Marked
<1>8. QED BY <1>1, <1>5, <1>6, <1>7 DEF ServerInv

LEMMA NextKeeps == ServerInv /\ [ServerNext]_svars => ServerInv'
<1> SUFFICES ASSUME ServerInv, [ServerNext]_svars PROVE ServerInv' OBVIOUS
<1>1. CASE ServerNext
  <2>1. CASE \E c \in Clients : Refuse(c) \/ Multi(c) \/ Discard(c) \/ Exec(c) \/ Unwatch(c) \/ Disconnect(c)
    <3>1. PICK c \in Clients : Refuse(c) \/ Multi(c) \/ Discard(c) \/ Exec(c) \/ Unwatch(c) \/ Disconnect(c) BY <2>1
    <3>2. QED BY <3>1, RefuseKeeps, MultiKeeps, DiscardKeeps, ExecKeeps, UnwatchKeeps
  <2>2. CASE \E c \in Clients : \E cmd \in Commands[c] : Queue(c, cmd) \/ Execute(c, cmd)
    <3>1. PICK c \in Clients : \E cmd \in Commands[c] : Queue(c, cmd) \/ Execute(c, cmd) BY <2>2
    <3>2. PICK cmd \in Commands[c] : Queue(c, cmd) \/ Execute(c, cmd) BY <3>1
    <3>3. QED BY <3>2, QueueKeeps, ExecuteKeeps
  <2>3. CASE \E c \in Clients : \E keys \in WatchSets[c] : Watch(c, keys)
    <3>1. PICK c \in Clients : \E keys \in WatchSets[c] : Watch(c, keys) BY <2>3
    <3>2. PICK keys \in WatchSets[c] : Watch(c, keys) BY <3>1
    <3>3. QED BY <3>2, WatchKeeps
  <2>4. CASE ActiveExpireCycle BY <2>4, CycleKeeps
  <2>5. CASE Tick BY <2>5, TickKeeps
  <2>6. QED BY <1>1, <2>1, <2>2, <2>3, <2>4, <2>5 DEF ServerNext
<1>2. CASE UNCHANGED svars
  BY <1>2 DEF svars, ServerInv, Base, ClientsOf, Marked, Vals, Exps, Tidy, DataSets
<1>3. QED BY <1>1, <1>2

LEMMA ServerInvSays ==
  ASSUME ServerInv
  PROVE  /\ ServerTypeOK /\ ReplicaFollows /\ AofExact
         /\ WatchSeesWrites /\ DirtyOnlyWatching /\ TransactionsWhole
<1>1. Base /\ ClientsOf(client) /\ Marked(client) /\ torn = FALSE
      /\ \A c \in Clients : seen[c] => client[c].watched # {}
      BY DEF ServerInv
<1>2. ServerTypeOK BY <1>1 DEF ServerTypeOK, Base, Vals, Exps, Tidy, ClientsOf
<1>3. ReplicaFollows BY <1>1 DEF ReplicaFollows, Base
<1>4. AofExact BY <1>1 DEF AofExact, Base, DataSets
<1>5. WatchSeesWrites BY <1>1 DEF WatchSeesWrites, Marked
<1>6. DirtyOnlyWatching BY <1>1 DEF DirtyOnlyWatching, Marked
<1>7. TransactionsWhole BY <1>1 DEF TransactionsWhole
<1>8. QED BY <1>2, <1>3, <1>4, <1>5, <1>6, <1>7

\* A replica that has applied what it was fed has the keys and values of its
\* master, whatever the commands, the expires and the transactions were, and
\* though it deletes nothing by itself (expireIfNeeded, propagate).
THEOREM ReplicaCorrect == ServerSpec => []ReplicaFollows
<1>1. ServerInv => ReplicaFollows BY ServerInvSays
<1> QED BY <1>1, InitKeeps, NextKeeps, PTL DEF ServerSpec

\* The append only file, loaded at a later time, gives the data set of the
\* server with its expire times (feedAppendOnlyFile, loadAppendOnlyFile).
THEOREM AofCorrect == ServerSpec => []AofExact
<1>1. ServerInv => AofExact BY ServerInvSays
<1> QED BY <1>1, InitKeeps, NextKeeps, PTL DEF ServerSpec

\* Of any number of clients, one that watches a key that a command changed
\* cannot run its transaction; MOVE is the one command left out
\* (touchWatchedKey, execCommand).
THEOREM WatchCorrect == ServerSpec => [](WatchSeesWrites /\ DirtyOnlyWatching)
<1>1. ServerInv => WatchSeesWrites /\ DirtyOnlyWatching BY ServerInvSays
<1> QED BY <1>1, InitKeeps, NextKeeps, PTL DEF ServerSpec

\* A transaction of any length is fed between one MULTI and one EXEC
\* (execCommandPropagateMulti).
THEOREM FeedCorrect == ServerSpec => []TransactionsWhole
<1>1. ServerInv => TransactionsWhole BY ServerInvSays
<1> QED BY <1>1, InitKeeps, NextKeeps, PTL DEF ServerSpec

LEMMA PartInv ==
  /\ PartsInit => (part = "server" => ServerInv)
  /\ (part = "server" => ServerInv) /\ [PartsNext]_<<part, svars, bvars, qvars, wvars>> => (part = "server" => ServerInv)'
<1>1. PartsInit => (part = "server" => ServerInv) BY InitKeeps DEF PartsInit
<1>2. (part = "server" => ServerInv) /\ [PartsNext]_<<part, svars, bvars, qvars, wvars>> => (part = "server" => ServerInv)'
  <2> SUFFICES ASSUME part = "server" => ServerInv, [PartsNext]_<<part, svars, bvars, qvars, wvars>>, part' = "server"
               PROVE  ServerInv'
    OBVIOUS
  <2>1. part = "server" /\ [ServerNext]_svars BY DEF PartsNext
  <2> QED BY <2>1, NextKeeps
<1> QED BY <1>1, <1>2

\* The server among the parts that are checked together: its replica and its
\* append only file follow it.
THEOREM ServerFollowedPart == PartsSpec => []ServerFollowed
<1>1. (part = "server" => ServerInv) => ServerFollowed BY ServerInvSays DEF ServerFollowed
<1> QED BY <1>1, PartInv, PTL DEF PartsSpec

\* The server among the parts that are checked together: its transactions
\* see the writes of others and are fed whole.
THEOREM TransactionsPart == PartsSpec => []TransactionsSafe
<1>1. (part = "server" => ServerInv) => TransactionsSafe BY ServerInvSays DEF TransactionsSafe
<1> QED BY <1>1, PartInv, PTL DEF PartsSpec
=============================================================================

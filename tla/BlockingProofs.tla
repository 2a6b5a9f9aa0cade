--------------------------- MODULE BlockingProofs ---------------------------
(***************************************************************************)
(* That blocked clients are served once, in order and with every element   *)
(* that is there, proved for any clients, lists and commands.              *)
(***************************************************************************)
EXTENDS ServerProofs

LEMMA UpTo ==
  ASSUME NEW n \in Nat, NEW S, 0 \in S, \A m \in 1 .. n : m - 1 \in S => m \in S
  PROVE  0 .. n \subseteq S
<1> DEFINE bad == {m \in 0 .. n : m \notin S}
<1>1. SUFFICES ASSUME bad # {} PROVE FALSE OBVIOUS
<1>2. PICK m \in bad : \A j \in bad : m <= j
  <2>1. bad \in SUBSET Nat OBVIOUS
  <2> HIDE DEF bad
  <2>2. QED BY <1>1, <2>1, LeastOf
<1>3. m \in 0 .. n /\ m \notin S /\ m # 0 BY <1>2
<1>4. m \in 1 .. n /\ m - 1 \in 0 .. n BY <1>3
<1>5. m - 1 \notin S BY <1>3, <1>4
<1>6. m - 1 \in bad BY <1>4, <1>5
<1>7. m <= m - 1 BY <1>2, <1>6
<1>8. QED BY <1>3, <1>7

\* The states of a fold, one after the other.
Traced(f, n, T, base, step) ==
  f \in [0 .. n -> T] /\ f[0] = base /\ \A m \in 1 .. n : f[m] = step[m][f[m - 1]]

LEMMA TraceOf ==
  ASSUME NEW n \in Nat, NEW T, NEW base \in T, NEW step \in [1 .. n -> [T -> T]],
         NEW g, FoldOf(g, n, base, step)
  PROVE  \E f : Traced(f, n, T, base, step) /\ g[1 .. n] = f[n]
<1> DEFINE G == {s \in SUBSET (1 .. n) : g[s] \in T}
           f == [m \in 0 .. n |-> g[1 .. m]]
<1>0. \A s \in SUBSET (1 .. n) : g[s] = IF s = {} THEN base ELSE step[Max(s)][g[s \ {Max(s)}]] BY DEF FoldOf
<1>1. {} \in G BY <1>0
<1>2. ASSUME NEW s \in SUBSET (1 .. n), s # {}, s \ {Max(s)} \in G PROVE s \in G
  <2>1. Max(s) \in 1 .. n BY <1>2, MaxOf
  <2>2. g[s] = step[Max(s)][g[s \ {Max(s)}]] BY <1>0, <1>2
  <2>3. g[s \ {Max(s)}] \in T BY <1>2
  <2>4. QED BY <2>1, <2>2, <2>3
<1>3. SUBSET (1 .. n) \subseteq G
  <2> HIDE DEF G
  <2>1. QED BY <1>1, <1>2, SubsetsOf
<1>4. ASSUME NEW m \in 1 .. n PROVE f[m] = step[m][f[m - 1]]
  <2>1. 1 .. m \in SUBSET (1 .. n) /\ m \in 1 .. m /\ m \in 0 .. n /\ m - 1 \in 0 .. n OBVIOUS
  <2>2. Max(1 .. m) = m
    <3>1. m \in Nat /\ 1 .. m \in SUBSET (1 .. m) /\ 1 .. m # {} BY <2>1
    <3>2. Max(1 .. m) \in 1 .. m /\ m <= Max(1 .. m) BY <2>1, <3>1, MaxOf
    <3>3. QED BY <3>2
  <2>3. (1 .. m) \ {m} = 1 .. m - 1 OBVIOUS
  <2>4. 1 .. m # {} BY <2>1
  <2>5. g[1 .. m] = step[Max(1 .. m)][g[(1 .. m) \ {Max(1 .. m)}]] BY <1>0, <2>1, <2>4
  <2>6. g[1 .. m] = step[m][g[1 .. m - 1]] BY <2>2, <2>3, <2>5
  <2>7. QED BY <2>1, <2>6
<1>5. \A m \in 0 .. n : 1 .. m \in SUBSET (1 .. n) OBVIOUS
<1>6. f \in [0 .. n -> T]
  <2>1. \A m \in 0 .. n : g[1 .. m] \in T BY <1>3, <1>5
  <2>2. QED BY <2>1
<1>7. f[0] = base
  <2>1. 1 .. 0 = {} /\ {} \in SUBSET (1 .. n) /\ 0 \in 0 .. n OBVIOUS
  <2>2. QED BY <1>0, <2>1
<1>8. f[n] = g[1 .. n] OBVIOUS
<1> HIDE DEF f
<1>9. Traced(f, n, T, base, step) BY <1>4, <1>6, <1>7, Zenon DEF Traced
<1>10. QED BY <1>8, <1>9

StepsOn(step, n, T) == step \in [1 .. n -> [T -> T]]

HasTrace(g, n, T, base, step) == \E f : Traced(f, n, T, base, step) /\ g[1 .. n] = f[n]

LEMMA TraceIs ==
  ASSUME NEW n \in Nat, NEW T, NEW base \in T, NEW step, StepsOn(step, n, T), NEW g, FoldOf(g, n, base, step)
  PROVE  HasTrace(g, n, T, base, step)
<1>1. step \in [1 .. n -> [T -> T]] BY DEF StepsOn
<1>2. \E f : Traced(f, n, T, base, step) /\ g[1 .. n] = f[n] BY ONLY n \in Nat, base \in T, FoldOf(g, n, base, step), <1>1, TraceOf
<1>3. QED BY ONLY <1>2 DEF HasTrace

-----------------------------------------------------------------------------
(* Sequences without repetition *)

LEMMA ToSetIs ==
  ASSUME NEW S, NEW q \in Seq(S)
  PROVE  /\ ToSet(q) \in SUBSET S
         /\ \A x : x \in ToSet(q) <=> \E i \in 1 .. Len(q) : q[i] = x
         /\ q = <<>> <=> ToSet(q) = {}
         /\ Len(q) = 0 <=> q = <<>>
<1>1. DOMAIN q = 1 .. Len(q) /\ Len(q) \in Nat /\ \A i \in 1 .. Len(q) : q[i] \in S OBVIOUS
<1>2. Len(q) = 0 <=> q = <<>> OBVIOUS
<1>3. \A x : x \in ToSet(q) <=> \E i \in 1 .. Len(q) : q[i] = x BY <1>1 DEF ToSet
<1>4. ToSet(q) \in SUBSET S BY <1>1, <1>3
<1>5. Len(q) # 0 => 1 \in 1 .. Len(q) BY <1>1
<1>6. Len(q) = 0 => 1 .. Len(q) = {} BY <1>1
<1>7. q = <<>> <=> ToSet(q) = {} BY <1>2, <1>3, <1>5, <1>6
<1>8. QED BY <1>2, <1>3, <1>4, <1>7

LEMMA IsInjectiveIs ==
  ASSUME NEW S, NEW q \in Seq(S)
  PROVE  IsInjective(q) <=> \A i, j \in 1 .. Len(q) : q[i] = q[j] => i = j
<1>1. DOMAIN q = 1 .. Len(q) OBVIOUS
<1>2. QED BY <1>1 DEF IsInjective

LEMMA TailIs ==
  ASSUME NEW S, NEW q \in Seq(S), q # <<>>
  PROVE  /\ Tail(q) \in Seq(S) /\ Head(q) \in S /\ Head(q) \in ToSet(q)
         /\ IsInjective(q) => IsInjective(Tail(q)) /\ ToSet(Tail(q)) = ToSet(q) \ {Head(q)}
         /\ ToSet(Tail(q)) \subseteq ToSet(q) /\ ToSet(q) = ToSet(Tail(q)) \cup {Head(q)}
<1> DEFINE n == Len(q)
           t == Tail(q)
<1>1. n \in Nat /\ n >= 1 /\ Head(q) = q[1] /\ \A i \in 1 .. n : q[i] \in S OBVIOUS
<1>2. t \in Seq(S) /\ Len(t) = n - 1 /\ \A i \in 1 .. n - 1 : t[i] = q[i + 1] OBVIOUS
<1>3. \A x : x \in ToSet(q) <=> \E i \in 1 .. n : q[i] = x BY ToSetIs
<1>4. \A x : x \in ToSet(t) <=> \E i \in 1 .. n - 1 : t[i] = x
  <2> HIDE DEF t, n
  <2>1. QED BY <1>2, ToSetIs
<1>5. IsInjective(q) <=> \A i, j \in 1 .. n : q[i] = q[j] => i = j BY IsInjectiveIs
<1>6. IsInjective(t) <=> \A i, j \in 1 .. n - 1 : t[i] = t[j] => i = j
  <2> HIDE DEF t, n
  <2>1. QED BY <1>2, IsInjectiveIs
<1> HIDE DEF t, n
<1>7. \A i \in 1 .. n - 1 : i + 1 \in 1 .. n /\ i + 1 # 1 BY <1>1
<1>8. \A i \in 1 .. n : i # 1 => i - 1 \in 1 .. n - 1 /\ (i - 1) + 1 = i BY <1>1
<1>9. 1 \in 1 .. n BY <1>1
<1>10. ASSUME NEW x PROVE x \in ToSet(q) <=> x \in ToSet(t) \/ x = q[1]
  <2>1. ASSUME NEW i \in 1 .. n, q[i] = x, x # q[1] PROVE x \in ToSet(t)
    <3>1. i - 1 \in 1 .. n - 1 /\ t[i - 1] = q[i] BY <1>2, <1>8, <2>1
    <3>2. QED BY <1>4, <2>1, <3>1
  <2>2. ASSUME NEW i \in 1 .. n - 1, t[i] = x PROVE x \in ToSet(q) BY <1>2, <1>3, <1>7, <2>2
  <2>3. QED BY <1>3, <1>4, <1>9, <2>1, <2>2
<1>11. ASSUME IsInjective(q) PROVE IsInjective(t) /\ q[1] \notin ToSet(t)
  <2>1. \A i, j \in 1 .. n - 1 : t[i] = t[j] => i = j
    <3>1. ASSUME NEW i \in 1 .. n - 1, NEW j \in 1 .. n - 1, t[i] = t[j] PROVE i = j
      <4>1. q[i + 1] = q[j + 1] BY <1>2, <3>1
      <4>2. i + 1 = j + 1 BY <1>5, <1>7, <1>11, <4>1
      <4>3. QED BY <1>1, <4>2
    <3>2. QED BY <3>1
  <2>2. ASSUME NEW i \in 1 .. n - 1, t[i] = q[1] PROVE FALSE
    <3>1. q[i + 1] = q[1] BY <1>2, <2>2
    <3>2. QED BY <1>5, <1>7, <1>9, <1>11, <3>1
  <2>3. QED BY <1>4, <1>6, <2>1, <2>2
<1>12. QED BY <1>1, <1>2, <1>9, <1>10, <1>11, <1>3 DEF t

LEMMA FrontIs ==
  ASSUME NEW S, NEW q \in Seq(S), q # <<>>
  PROVE  /\ Front(q) \in Seq(S) /\ Last(q) \in S /\ Last(q) \in ToSet(q)
         /\ IsInjective(q) => IsInjective(Front(q)) /\ ToSet(Front(q)) = ToSet(q) \ {Last(q)}
         /\ ToSet(Front(q)) \subseteq ToSet(q) /\ ToSet(q) = ToSet(Front(q)) \cup {Last(q)}
<1> DEFINE n == Len(q)
           t == Front(q)
<1>1. n \in Nat /\ n >= 1 /\ Last(q) = q[n] /\ \A i \in 1 .. n : q[i] \in S BY DEF Last
<1>2. t \in Seq(S) /\ Len(t) = n - 1 /\ \A i \in 1 .. n - 1 : t[i] = q[i] BY DEF Front
<1>3. \A x : x \in ToSet(q) <=> \E i \in 1 .. n : q[i] = x BY ToSetIs
<1>4. \A x : x \in ToSet(t) <=> \E i \in 1 .. n - 1 : t[i] = x
  <2> HIDE DEF t, n
  <2>1. QED BY <1>2, ToSetIs
<1>5. IsInjective(q) <=> \A i, j \in 1 .. n : q[i] = q[j] => i = j BY IsInjectiveIs
<1>6. IsInjective(t) <=> \A i, j \in 1 .. n - 1 : t[i] = t[j] => i = j
  <2> HIDE DEF t, n
  <2>1. QED BY <1>2, IsInjectiveIs
<1> HIDE DEF t, n
<1>7. \A i \in 1 .. n - 1 : i \in 1 .. n /\ i # n BY <1>1
<1>8. \A i \in 1 .. n : i # n => i \in 1 .. n - 1 BY <1>1
<1>9. n \in 1 .. n BY <1>1
<1>10. ASSUME NEW x PROVE x \in ToSet(q) <=> x \in ToSet(t) \/ x = q[n]
  <2>1. ASSUME NEW i \in 1 .. n, q[i] = x, x # q[n] PROVE x \in ToSet(t) BY <1>2, <1>4, <1>8, <2>1
  <2>2. ASSUME NEW i \in 1 .. n - 1, t[i] = x PROVE x \in ToSet(q) BY <1>2, <1>3, <1>7, <2>2
  <2>3. QED BY <1>3, <1>4, <1>9, <2>1, <2>2
<1>11. ASSUME IsInjective(q) PROVE IsInjective(t) /\ q[n] \notin ToSet(t)
  <2>1. \A i, j \in 1 .. n - 1 : t[i] = t[j] => i = j BY <1>2, <1>5, <1>7, <1>11
  <2>2. \A i \in 1 .. n - 1 : t[i] # q[n] BY <1>2, <1>5, <1>7, <1>9, <1>11
  <2>3. QED BY <1>4, <1>6, <2>1, <2>2
<1>12. QED BY <1>1, <1>2, <1>9, <1>10, <1>11, <1>3 DEF t

LEMMA JoinIs ==
  ASSUME NEW S, NEW p \in Seq(S), NEW q \in Seq(S)
  PROVE  /\ p \o q \in Seq(S) /\ ToSet(p \o q) = ToSet(p) \cup ToSet(q)
         /\ (p # <<>> \/ q # <<>>) => p \o q # <<>>
         /\ IsInjective(p) /\ IsInjective(q) /\ ToSet(p) \cap ToSet(q) = {} => IsInjective(p \o q)
<1> DEFINE m == Len(p)
           n == Len(q)
           r == p \o q
<1>1. /\ m \in Nat /\ n \in Nat /\ r \in Seq(S) /\ Len(r) = m + n
      /\ \A i \in 1 .. m : r[i] = p[i]
      /\ \A i \in m + 1 .. m + n : r[i] = q[i - m]
  OBVIOUS
<1>2. \A x : x \in ToSet(p) <=> \E i \in 1 .. m : p[i] = x BY ToSetIs
<1>3. \A x : x \in ToSet(q) <=> \E i \in 1 .. n : q[i] = x BY ToSetIs
<1>4. \A x : x \in ToSet(r) <=> \E i \in 1 .. m + n : r[i] = x
  <2> HIDE DEF r, m, n
  <2>1. QED BY <1>1, ToSetIs
<1>5. IsInjective(p) <=> \A i, j \in 1 .. m : p[i] = p[j] => i = j BY IsInjectiveIs
<1>6. IsInjective(q) <=> \A i, j \in 1 .. n : q[i] = q[j] => i = j BY IsInjectiveIs
<1>7. IsInjective(r) <=> \A i, j \in 1 .. m + n : r[i] = r[j] => i = j
  <2> HIDE DEF r, m, n
  <2>1. QED BY <1>1, IsInjectiveIs
<1>8. Len(p) = 0 <=> p = <<>> BY ToSetIs
<1>9. Len(q) = 0 <=> q = <<>> BY ToSetIs
<1>10. Len(r) = 0 <=> r = <<>>
  <2> HIDE DEF r, m, n
  <2>1. QED BY <1>1, ToSetIs
<1>s. \A i \in 1 .. m + n : (i \in 1 .. m /\ r[i] = p[i]) \/ (i - m \in 1 .. n /\ r[i] = q[i - m])
  <2> HIDE DEF r
  <2>1. ASSUME NEW i \in 1 .. m + n PROVE i \in 1 .. m \/ (i \in m + 1 .. m + n /\ i - m \in 1 .. n) BY <1>1
  <2>2. QED BY <1>1, <2>1
<1>t. \A i \in 1 .. n : i + m \in m + 1 .. m + n /\ i + m \in 1 .. m + n /\ (i + m) - m = i BY <1>1
<1>u. \A i \in 1 .. m : i \in 1 .. m + n BY <1>1
<1>11. ASSUME NEW x PROVE x \in ToSet(r) <=> x \in ToSet(p) \/ x \in ToSet(q)
  <2> HIDE DEF r, m, n
  <2>1. ASSUME NEW i \in 1 .. m + n, r[i] = x PROVE x \in ToSet(p) \/ x \in ToSet(q) BY <1>2, <1>3, <1>s, <2>1
  <2>2. ASSUME NEW i \in 1 .. m, p[i] = x PROVE x \in ToSet(r) BY <1>1, <1>4, <1>u, <2>2
  <2>3. ASSUME NEW i \in 1 .. n, q[i] = x PROVE x \in ToSet(r)
    <3>1. r[i + m] = q[i] BY <1>1, <1>t
    <3>2. QED BY <1>4, <1>t, <2>3, <3>1
  <2>4. QED BY <1>2, <1>3, <1>4, <2>1, <2>2, <2>3
<1>12. ASSUME IsInjective(p), IsInjective(q), ToSet(p) \cap ToSet(q) = {}
       PROVE  \A i, j \in 1 .. m + n : r[i] = r[j] => i = j
  <2> HIDE DEF r, m, n
  <2>1. ASSUME NEW i \in 1 .. m + n, NEW j \in 1 .. m + n, r[i] = r[j] PROVE i = j
    <3>1. CASE i \in 1 .. m /\ j \in 1 .. m BY <1>1, <1>5, <1>12, <2>1, <3>1
    <3>2. CASE i - m \in 1 .. n /\ j - m \in 1 .. n /\ r[i] = q[i - m] /\ r[j] = q[j - m]
      <4>1. i - m = j - m BY <1>6, <1>12, <2>1, <3>2
      <4>2. QED BY <1>1, <4>1
    <3>3. CASE i \in 1 .. m /\ r[i] = p[i] /\ j - m \in 1 .. n /\ r[j] = q[j - m] BY <1>2, <1>3, <1>12, <2>1, <3>3
    <3>4. CASE j \in 1 .. m /\ r[j] = p[j] /\ i - m \in 1 .. n /\ r[i] = q[i - m] BY <1>2, <1>3, <1>12, <2>1, <3>4
    <3>5. QED BY <1>s, <3>1, <3>2, <3>3, <3>4
  <2>2. QED BY <2>1
<1> HIDE DEF r
<1>13. r # <<>> \/ (p = <<>> /\ q = <<>>) BY <1>1, <1>8, <1>9, <1>10
<1>14. QED BY <1>1, <1>7, <1>11, <1>12, <1>13 DEF r

LEMMA ReverseIs ==
  ASSUME NEW S, NEW q \in Seq(S)
  PROVE  /\ Reverse(q) \in Seq(S) /\ ToSet(Reverse(q)) = ToSet(q) /\ (q # <<>> => Reverse(q) # <<>>)
         /\ IsInjective(q) => IsInjective(Reverse(q))
<1> DEFINE n == Len(q)
           r == Reverse(q)
<1>1. n \in Nat /\ \A i \in 1 .. n : q[i] \in S /\ n - i + 1 \in 1 .. n /\ n - (n - i + 1) + 1 = i OBVIOUS
<1>2. r = [i \in 1 .. n |-> q[n - i + 1]] BY DEF Reverse
<1>3. r \in Seq(S) /\ Len(r) = n /\ \A i \in 1 .. n : r[i] = q[n - i + 1]
  <2> HIDE DEF r
  <2>1. r \in [1 .. n -> S] BY <1>1, <1>2
  <2>2. QED BY <1>1, <1>2, <2>1
<1> HIDE DEF r, n
<1>4. \A x : x \in ToSet(q) <=> \E i \in 1 .. n : q[i] = x BY ToSetIs DEF n
<1>5. \A x : x \in ToSet(r) <=> \E i \in 1 .. n : r[i] = x BY <1>3, ToSetIs
<1>6. IsInjective(q) <=> \A i, j \in 1 .. n : q[i] = q[j] => i = j BY IsInjectiveIs DEF n
<1>7. IsInjective(r) <=> \A i, j \in 1 .. n : r[i] = r[j] => i = j BY <1>3, IsInjectiveIs
<1>8. (Len(q) = 0 <=> q = <<>>) /\ (Len(r) = 0 <=> r = <<>>) BY <1>3, ToSetIs
<1>9. ASSUME NEW x PROVE x \in ToSet(r) <=> x \in ToSet(q)
  <2>1. ASSUME NEW i \in 1 .. n, r[i] = x PROVE x \in ToSet(q) BY <1>1, <1>3, <1>4, <2>1
  <2>2. ASSUME NEW i \in 1 .. n, q[i] = x PROVE x \in ToSet(r)
    <3>1. r[n - i + 1] = q[i] BY <1>1, <1>3
    <3>2. QED BY <1>1, <1>5, <2>2, <3>1
  <2>3. QED BY <1>4, <1>5, <2>1, <2>2
<1>10. ASSUME IsInjective(q) PROVE IsInjective(r)
  <2>1. ASSUME NEW i \in 1 .. n, NEW j \in 1 .. n, r[i] = r[j] PROVE i = j
    <3>1. n - i + 1 = n - j + 1 BY <1>1, <1>3, <1>6, <1>10, <2>1
    <3>2. QED BY <1>1, <3>1
  <2>2. QED BY <1>7, <2>1
<1>11. q # <<>> => r # <<>> BY <1>3, <1>8 DEF n
<1>12. ToSet(r) = ToSet(q) BY <1>9
<1>13. QED BY <1>3, <1>10, <1>11, <1>12 DEF r

LEMMA SubSeqIs ==
  ASSUME NEW S, NEW q \in Seq(S), NEW a \in 1 .. Len(q), NEW b \in a .. Len(q)
  PROVE  /\ SubSeq(q, a, b) \in Seq(S) /\ ToSet(SubSeq(q, a, b)) \subseteq ToSet(q)
         /\ IsInjective(q) => IsInjective(SubSeq(q, a, b))
<1> DEFINE r == SubSeq(q, a, b)
<1>1. r \in Seq(S) /\ Len(r) = b - a + 1 /\ \A i \in 1 .. Len(r) : r[i] = q[a + i - 1] /\ a + i - 1 \in 1 .. Len(q) OBVIOUS
<1> HIDE DEF r
<1>2. \A x : x \in ToSet(q) <=> \E i \in 1 .. Len(q) : q[i] = x BY ToSetIs
<1>3. \A x : x \in ToSet(r) <=> \E i \in 1 .. Len(r) : r[i] = x BY <1>1, ToSetIs
<1>4. IsInjective(q) <=> \A i, j \in 1 .. Len(q) : q[i] = q[j] => i = j BY IsInjectiveIs
<1>5. IsInjective(r) <=> \A i, j \in 1 .. Len(r) : r[i] = r[j] => i = j BY <1>1, IsInjectiveIs
<1>6. ToSet(r) \subseteq ToSet(q) BY <1>1, <1>2, <1>3
<1>7. ASSUME IsInjective(q) PROVE IsInjective(r)
  <2>1. ASSUME NEW i \in 1 .. Len(r), NEW j \in 1 .. Len(r), r[i] = r[j] PROVE i = j
    <3>1. a + i - 1 = a + j - 1 BY SMTT(30), <1>1, <1>4, <1>7, <2>1
    <3>2. i \in Int /\ j \in Int /\ a \in Int OBVIOUS
    <3>3. QED BY <3>1, <3>2
  <2>2. QED BY <1>5, <2>1
<1>8. QED BY <1>1, <1>6, <1>7 DEF r

LEMMA AppendIs ==
  ASSUME NEW S, NEW q \in Seq(S), NEW e \in S
  PROVE  /\ Append(q, e) \in Seq(S) /\ ToSet(Append(q, e)) = ToSet(q) \cup {e}
         /\ Len(Append(q, e)) = Len(q) + 1
         /\ IsInjective(q) /\ e \notin ToSet(q) => IsInjective(Append(q, e))
<1> DEFINE n == Len(q)
           r == Append(q, e)
<1>1. n \in Nat /\ r \in Seq(S) /\ Len(r) = n + 1 /\ r[n + 1] = e /\ \A i \in 1 .. n : r[i] = q[i] OBVIOUS
<1> HIDE DEF r, n
<1>2. \A x : x \in ToSet(q) <=> \E i \in 1 .. n : q[i] = x BY ToSetIs DEF n
<1>3. \A x : x \in ToSet(r) <=> \E i \in 1 .. n + 1 : r[i] = x BY <1>1, ToSetIs
<1>4. IsInjective(q) <=> \A i, j \in 1 .. n : q[i] = q[j] => i = j BY IsInjectiveIs DEF n
<1>5. IsInjective(r) <=> \A i, j \in 1 .. n + 1 : r[i] = r[j] => i = j BY <1>1, IsInjectiveIs
<1>6. \A i \in 1 .. n + 1 : i \in 1 .. n \/ i = n + 1 BY <1>1
<1>7. n + 1 \in 1 .. n + 1 /\ \A i \in 1 .. n : i \in 1 .. n + 1 BY <1>1
<1>8. ToSet(r) = ToSet(q) \cup {e} BY <1>1, <1>2, <1>3, <1>6, <1>7
<1>9. IsInjective(q) /\ e \notin ToSet(q) => IsInjective(r) BY <1>1, <1>2, <1>4, <1>5, <1>6
<1>10. QED BY <1>1, <1>8, <1>9 DEF r, n

\* One element is taken out of a sequence and the others keep their order.
RemovedFrom(q, r, c) ==
  /\ ToSet(r) = ToSet(q) \ {c} /\ IsInjective(r)
  /\ Len(r) = IF c \in ToSet(q) THEN Len(q) - 1 ELSE Len(q)
  /\ \A i, j \in 1 .. Len(r) : i < j => \E a, b \in 1 .. Len(q) : a < b /\ q[a] = r[i] /\ q[b] = r[j]

LEMMA MinOf ==
  ASSUME NEW n \in Nat, NEW s \in SUBSET (1 .. n), s # {}
  PROVE  Min(s) \in s /\ \A x \in s : Min(s) <= x
<1>1. s \in SUBSET Nat OBVIOUS
<1>2. PICK m \in s : \A y \in s : m <= y BY <1>1, LeastOf
<1>3. m \in s /\ \A y \in s : m <= y BY <1>2
<1>4. QED BY <1>3, Zenon DEF Min

LEMMA RemoveFirstIs ==
  ASSUME NEW S, NEW q \in Seq(S), NEW c, IsInjective(q)
  PROVE  RemoveFirst(q, c) \in Seq(S) /\ RemovedFrom(q, RemoveFirst(q, c), c)
<1> DEFINE n == Len(q)
<1>0. n \in Nat /\ \A i \in 1 .. n : q[i] \in S OBVIOUS
<1>1. \A x : x \in ToSet(q) <=> \E i \in 1 .. n : q[i] = x BY ToSetIs
<1>2. \A i, j \in 1 .. n : q[i] = q[j] => i = j BY IsInjectiveIs
<1>3. CASE ~ \E i \in 1 .. n : q[i] = c
  <2>1. RemoveFirst(q, c) = q BY <1>3 DEF RemoveFirst
  <2>2. c \notin ToSet(q) BY <1>1, <1>3
  <2>3. \A i, j \in 1 .. n : i < j => \E a, b \in 1 .. n : a < b /\ q[a] = q[i] /\ q[b] = q[j] OBVIOUS
  <2>4. ToSet(q) = ToSet(q) \ {c} BY <2>2
  <2>5. QED BY <2>1, <2>2, <2>3, <2>4 DEF RemovedFrom
<1>4. CASE \E i \in 1 .. n : q[i] = c
  <2> DEFINE I == {i \in 1 .. n : q[i] = c}
  <2>1. PICK k \in 1 .. n : q[k] = c BY <1>4
  <2>2. I = {k} BY <1>2, <2>1
  <2>3. Min(I) = k
    <3> HIDE DEF I
    <3>1. I \in SUBSET (1 .. n) /\ I # {} BY <2>2
    <3>2. Min(I) \in I BY <1>0, <3>1, MinOf
    <3>3. QED BY <2>2, <3>2
  <2>4. RemoveFirst(q, c) = RemoveAt(q, k)
    <3>1. I # {} BY <2>2
    <3>2. QED BY <1>4, <2>3, <3>1 DEF RemoveFirst, SelectInSeq
  <2> DEFINE a == SubSeq(q, 1, k - 1)
             b == SubSeq(q, k + 1, n)
             r == a \o b
  <2>5. a \in Seq(S) /\ Len(a) = k - 1 /\ \A i \in 1 .. k - 1 : a[i] = q[i] BY <1>0, <2>1
  <2>6. b \in Seq(S) /\ Len(b) = n - k /\ \A i \in 1 .. n - k : b[i] = q[k + i]
    <3>1. k + 1 \in 1 .. n + 1 BY <1>0
    <3>2. \A i \in 1 .. n - k : k + 1 + i - 1 = k + i /\ k + i \in 1 .. n BY <1>0
    <3>3. Len(b) = n - k BY <1>0
    <3>4. \A i \in 1 .. n - k : b[i] = q[k + i] BY <1>0, <3>2
    <3>5. b \in Seq(S) BY <1>0, <3>1
    <3>6. QED BY <3>3, <3>4, <3>5
  <2>7. RemoveFirst(q, c) = r BY Zenon, <2>4 DEF RemoveAt
  <2> HIDE DEF a, b
  <2>8. r \in Seq(S) /\ Len(r) = n - 1
    <3>0. a \in Seq(S) /\ b \in Seq(S) BY <2>5, <2>6
    <3>1. a \o b \in Seq(S) /\ Len(a \o b) = Len(a) + Len(b) BY <3>0
    <3>a. r \in Seq(S) /\ Len(r) = Len(a) + Len(b) BY Zenon, <3>1 DEF r
    <3> HIDE DEF r
    <3>2. Len(r) = (k - 1) + (n - k) BY <2>5, <2>6, <3>a
    <3>3. (k - 1) + (n - k) = n - 1 BY <1>0
    <3>4. QED BY Zenon, <3>a, <3>2, <3>3
  <2>9. \A i \in 1 .. n - 1 : r[i] = IF i < k THEN q[i] ELSE q[i + 1]
    <3>1. ASSUME NEW i \in 1 .. n - 1, i < k PROVE r[i] = q[i]
      <4>1. i \in 1 .. Len(a) BY <1>0, <2>5, <3>1
      <4>2. r[i] = a[i] BY <2>5, <2>6, <4>1
      <4>3. QED BY <2>5, <4>1, <4>2
    <3>2. ASSUME NEW i \in 1 .. n - 1, ~(i < k) PROVE r[i] = q[i + 1]
      <4>1. i \in Len(a) + 1 .. Len(a) + Len(b) /\ i - Len(a) \in 1 .. n - k /\ k + (i - Len(a)) = i + 1
            BY <1>0, <2>5, <2>6, <3>2
      <4>2. r[i] = b[i - Len(a)] BY SMTT(30), <2>5, <2>6, <4>1
      <4>3. QED BY <2>6, <4>1, <4>2
    <3>3. QED BY <3>1, <3>2
  <2> HIDE DEF r
  <2>10. \A x : x \in ToSet(r) <=> \E i \in 1 .. n - 1 : r[i] = x BY <2>8, ToSetIs
  <2> DEFINE to(i) == IF i < k THEN i ELSE i + 1
  <2>11. \A i \in 1 .. n - 1 : to(i) \in 1 .. n /\ r[i] = q[to(i)] /\ to(i) # k BY <1>0, <2>9
  <2>12. \A i, j \in 1 .. n - 1 : (i < j => to(i) < to(j)) /\ (to(i) = to(j) => i = j) BY <1>0
  <2>13. \A j \in 1 .. n : j # k => \E i \in 1 .. n - 1 : to(i) = j
    <3>1. ASSUME NEW j \in 1 .. n, j # k PROVE \E i \in 1 .. n - 1 : to(i) = j
      <4>1. CASE j < k BY <1>0, <4>1
      <4>2. CASE j > k
        <5>1. j - 1 \in 1 .. n - 1 /\ ~(j - 1 < k) /\ (j - 1) + 1 = j BY <1>0, <4>2
        <5>2. QED BY <5>1
      <4>3. QED BY <3>1, <4>1, <4>2
    <3>2. QED BY <3>1
  <2> HIDE DEF to
  <2>14. ToSet(r) = ToSet(q) \ {c}
    <3>1. ASSUME NEW x PROVE x \in ToSet(r) <=> x \in ToSet(q) /\ x # c
      <4>1. x \in ToSet(r) => x \in ToSet(q) /\ x # c BY <1>1, <1>2, <2>1, <2>10, <2>11
      <4>2. x \in ToSet(q) /\ x # c => x \in ToSet(r)
        <5>1. SUFFICES ASSUME x \in ToSet(q), x # c PROVE x \in ToSet(r) OBVIOUS
        <5>2. PICK j \in 1 .. n : q[j] = x BY <1>1, <5>1
        <5>3. j # k BY <2>1, <5>1, <5>2
        <5>4. PICK i \in 1 .. n - 1 : to(i) = j BY <2>13, <5>3
        <5>5. QED BY <2>10, <2>11, <5>2, <5>4
      <4>3. QED BY <4>1, <4>2
    <3>2. QED BY <3>1
  <2>15. IsInjective(r)
    <3>1. \A i, j \in 1 .. n - 1 : r[i] = r[j] => i = j BY <1>2, <2>11, <2>12
    <3>2. IsInjective(r) <=> \A i, j \in 1 .. Len(r) : r[i] = r[j] => i = j BY <2>8, IsInjectiveIs
    <3>3. QED BY <2>8, <3>1, <3>2
  <2>16. \A i, j \in 1 .. Len(r) : i < j => \E x, y \in 1 .. Len(q) : x < y /\ q[x] = r[i] /\ q[y] = r[j]
    <3>1. ASSUME NEW i \in 1 .. n - 1, NEW j \in 1 .. n - 1, i < j
          PROVE  \E x, y \in 1 .. n : x < y /\ q[x] = r[i] /\ q[y] = r[j]
      <4>1. to(i) \in 1 .. n /\ to(j) \in 1 .. n /\ to(i) < to(j) /\ q[to(i)] = r[i] /\ q[to(j)] = r[j]
            BY <2>11, <2>12, <3>1
      <4>2. QED BY <4>1
    <3>2. Len(q) = n OBVIOUS
    <3> HIDE DEF n
    <3>3. SUFFICES ASSUME NEW i \in 1 .. Len(r), NEW j \in 1 .. Len(r), i < j
                   PROVE  \E x, y \in 1 .. Len(q) : x < y /\ q[x] = r[i] /\ q[y] = r[j]
          OBVIOUS
    <3>4. i \in 1 .. n - 1 /\ j \in 1 .. n - 1 BY ONLY <2>8, <3>3
    <3>5. \E x, y \in 1 .. n : x < y /\ q[x] = r[i] /\ q[y] = r[j] BY ONLY <3>1, <3>3, <3>4, Zenon
    <3>6. QED BY ONLY <3>2, <3>5, Zenon
  <2>17. c \in ToSet(q) BY <1>1, <2>1
  <2>18. QED BY SMTT(30), <2>7, <2>8, <2>14, <2>15, <2>16, <2>17 DEF RemovedFrom
<1>5. QED BY <1>3, <1>4

LEMMA SingleIs ==
  ASSUME NEW S, NEW e \in S
  PROVE  <<e>> \in Seq(S) /\ ToSet(<<e>>) = {e} /\ IsInjective(<<e>>) /\ <<e>> # <<>> /\ Reverse(<<e>>) = <<e>>
<1> DEFINE q == <<e>>
<1>1. q \in Seq(S) /\ Len(q) = 1 /\ q[1] = e /\ q # <<>> OBVIOUS
<1> HIDE DEF q
<1>2. \A x : x \in ToSet(q) <=> \E i \in 1 .. 1 : q[i] = x BY <1>1, ToSetIs
<1>3. IsInjective(q) BY <1>1, IsInjectiveIs
<1>4. ToSet(q) = {e} BY <1>1, <1>2
<1>5. Reverse(q) = [i \in 1 .. 1 |-> q[1 - i + 1]] BY <1>1 DEF Reverse
<1>6. Reverse(q) = [i \in 1 .. 1 |-> q[1]] BY <1>5
<1>7. q = [i \in 1 .. 1 |-> e] BY DEF q
<1>8. QED BY <1>1, <1>3, <1>4, <1>6, <1>7 DEF q

LEMMA EmptyIs ==
  ASSUME NEW S
  PROVE  <<>> \in Seq(S) /\ ToSet(<<>>) = {} /\ IsInjective(<<>>) /\ Len(<<>>) = 0 /\ Reverse(<<>>) = <<>>
         /\ \A q \in Seq(S) : q \o <<>> = q /\ <<>> \o q = q
<1> DEFINE q == <<>>
<1>1. q \in Seq(S) /\ Len(q) = 0 OBVIOUS
<1>2. ToSet(q) = {} BY <1>1, ToSetIs
<1>3. IsInjective(q)
  <2> HIDE DEF q
  <2>1. \A i, j \in 1 .. Len(q) : q[i] = q[j] => i = j
    <3>1. 1 .. Len(q) = {} BY <1>1
    <3>2. QED BY <3>1
  <2>2. QED BY <1>1, <2>1, IsInjectiveIs
<1>4. Reverse(q) = q BY DEF Reverse
<1>5. \A p \in Seq(S) : p \o q = p /\ q \o p = p OBVIOUS
<1>6. QED BY <1>1, <1>2, <1>3, <1>4, <1>5

-----------------------------------------------------------------------------
(* The record a command works on, and what each command does to it *)

Values == {v \in [type : {"none", "string", "list"}, items : Seq(Nat)] : v.type # "list" => v.items = <<>>}
Stores == [Lists -> Values]

LWork == [store : Stores, blocking : [Lists -> Seq(Waiters)], ready : Seq(Lists), out : Seq(ListCommands),
          taken : SUBSET Nat, dirty : BOOLEAN, waiting : [Waiters -> BlockCommands \cup {NotBlocked}],
          given : [Waiters -> SUBSET Nat]]

PutAt(st, k, v) == [st EXCEPT ![k] = v]
PushedTo(v, items, where) ==
  [type |-> "list", items |-> IF where = "head" THEN Reverse(items) \o v.items ELSE v.items \o items]
Trimmed(items) == IF 1 >= Len(items) THEN <<>> ELSE SubSeq(items, 2, Len(items))

AfterPush(st, k, items, where) ==
  IF st[k].type = "string" THEN st ELSE PutAt(st, k, PushedTo(st[k], items, where))
AfterPop(st, k, where) ==
  IF st[k].type # "list" THEN st ELSE PutAt(st, k, List(Popped(st[k].items, where)))
AfterMove(st, src, dst) ==
  IF st[src].type # "list" \/ st[dst].type = "string" THEN st
  ELSE LET e == Last(st[src].items)
       IN  PutAt(PutAt(st, dst, PushedTo(st[dst], <<e>>, "head")), src,
                 List(IF src = dst THEN <<e>> \o Front(st[src].items) ELSE Front(st[src].items)))
AfterTrim(st, k) == IF st[k].type # "list" THEN st ELSE PutAt(st, k, List(Trimmed(st[k].items)))
AfterRename(st, src, dst) ==
  IF src = dst \/ st[src].type = "none" THEN st ELSE PutAt(PutAt(st, dst, st[src]), src, Nothing)

StoreAfter(st, c) ==
  CASE c.name = "LPUSH" -> AfterPush(st, c.key, c.items, "head")
    [] c.name = "RPUSH" -> AfterPush(st, c.key, c.items, "tail")
    [] c.name = "LPOP" -> AfterPop(st, c.key, "head")
    [] c.name = "RPOP" -> AfterPop(st, c.key, "tail")
    [] c.name = "RPOPLPUSH" -> AfterMove(st, c.key, c.to)
    [] c.name = "LTRIM" -> AfterTrim(st, c.key)
    [] c.name = "RENAME" -> AfterRename(st, c.key, c.to)
    [] c.name = "DEL" -> PutAt(st, c.key, Nothing)
    [] c.name = "SET" -> PutAt(st, c.key, Text)

\* The elements a command takes from the lists or does not store.
TakenBy(st, c) ==
  CASE c.name \in {"LPUSH", "RPUSH"} -> IF st[c.key].type = "string" THEN ToSet(c.items) ELSE {}
    [] c.name = "LPOP" -> IF st[c.key].type # "list" THEN {} ELSE {Head(st[c.key].items)}
    [] c.name = "RPOP" -> IF st[c.key].type # "list" THEN {} ELSE {Last(st[c.key].items)}
    [] c.name = "RPOPLPUSH" -> {}
    [] c.name = "LTRIM" -> IF st[c.key].type # "list" THEN {}
                           ELSE ToSet(st[c.key].items) \ ToSet(Trimmed(st[c.key].items))
    [] c.name = "RENAME" -> IF c.key = c.to \/ st[c.key].type = "none" THEN {} ELSE ToSet(st[c.to].items)
    [] c.name \in {"DEL", "SET"} -> ToSet(st[c.key].items)

\* At most one key is signalled, and each key that becomes a list while clients wait for it.
Signals(s, t) ==
  /\ \/ t.ready = s.ready
     \/ \E k \in Lists : s.blocking[k] # <<>> /\ k \notin ToSet(s.ready) /\ t.ready = Append(s.ready, k)
  /\ \A k \in Lists : t.store[k].type = "list" /\ s.store[k].type # "list" /\ s.blocking[k] # <<>>
                        => k \in ToSet(t.ready)

SameClients(s, t) ==
  t.blocking = s.blocking /\ t.out = s.out /\ t.waiting = s.waiting /\ t.given = s.given

Turns(s, t, st, tk) ==
  /\ t \in LWork /\ t.store = st /\ t.taken = tk /\ SameClients(s, t) /\ Signals(s, t)
  /\ t.dirty \/ t.store = s.store

LEMMA ListIs ==
  ASSUME NEW q \in Seq(Nat)
  PROVE  List(q) \in Values /\ List(q).items = q /\ (List(q).type = "list" <=> q # <<>>) /\ List(q).type # "string"
BY DEF List, Values, Nothing

LEMMA ValueIs ==
  /\ Nothing \in Values /\ Text \in Values /\ Nothing.items = <<>> /\ Text.items = <<>>
  /\ Nothing.type = "none" /\ Text.type = "string"
  /\ \A v \in Values : /\ v.items \in Seq(Nat) /\ v.type \in {"none", "string", "list"}
                       /\ v.type # "list" => v.items = <<>>
                       /\ v.type = "none" => v = Nothing
BY DEF Values, Nothing, Text

LEMMA PutAtIs ==
  ASSUME NEW st \in Stores, NEW k \in Lists, NEW v \in Values
  PROVE  /\ PutAt(st, k, v) \in Stores /\ PutAt(st, k, v)[k] = v
         /\ \A l \in Lists : l # k => PutAt(st, k, v)[l] = st[l]
BY DEF PutAt, Stores

LEMMA PutSameAt ==
  ASSUME NEW st \in Stores, NEW k \in Lists, NEW v \in Values, v = st[k]
  PROVE  PutAt(st, k, v) = st
BY DEF PutAt, Stores

LEMMA PutTwice ==
  ASSUME NEW st \in Stores, NEW k \in Lists, NEW u, NEW v
  PROVE  PutAt(PutAt(st, k, u), k, v) = PutAt(st, k, v)
BY DEF PutAt, Stores

LEMMA LWorkIs ==
  ASSUME NEW s \in LWork
  PROVE  /\ s.store \in Stores /\ s.blocking \in [Lists -> Seq(Waiters)] /\ s.ready \in Seq(Lists)
         /\ s.out \in Seq(ListCommands) /\ s.taken \in SUBSET Nat /\ s.dirty \in BOOLEAN
         /\ s.waiting \in [Waiters -> BlockCommands \cup {NotBlocked}] /\ s.given \in [Waiters -> SUBSET Nat]
BY DEF LWork

LEMMA PushedIs ==
  ASSUME NEW v \in Values, v.type # "string", NEW items \in Seq(Nat), items # <<>>, NEW where
  PROVE  /\ PushedTo(v, items, where) \in Values /\ PushedTo(v, items, where).type = "list"
         /\ PushedTo(v, items, where).items # <<>>
         /\ PushedTo(v, items, where).items = IF where = "head" THEN Reverse(items) \o v.items ELSE v.items \o items
<1>1. v.items \in Seq(Nat) BY ValueIs
<1>2. Reverse(items) \in Seq(Nat) /\ Reverse(items) # <<>> BY ReverseIs
<1>3. Reverse(items) \o v.items \in Seq(Nat) /\ Reverse(items) \o v.items # <<>> BY <1>1, <1>2, JoinIs
<1>4. v.items \o items \in Seq(Nat) /\ v.items \o items # <<>> BY <1>1, JoinIs
<1> DEFINE q == IF where = "head" THEN Reverse(items) \o v.items ELSE v.items \o items
<1>5. q \in Seq(Nat) /\ q # <<>> BY <1>3, <1>4
<1>6. PushedTo(v, items, where) = [type |-> "list", items |-> q] BY DEF PushedTo
<1> HIDE DEF q
<1>7. [type |-> "list", items |-> q] \in Values BY <1>5 DEF Values
<1>8. QED BY <1>5, <1>6, <1>7 DEF q

LEMMA DbAddIs ==
  ASSUME NEW s \in LWork, NEW k \in Lists, NEW v \in Values
  PROVE  /\ Turns(s, DbAdd(s, k, v), PutAt(s.store, k, v), s.taken)
         /\ DbAdd(s, k, v).dirty = TRUE
         /\ v.type = "list" /\ s.blocking[k] # <<>> => k \in ToSet(DbAdd(s, k, v).ready)
<1> DEFINE t == [s EXCEPT !.store[k] = v, !.dirty = TRUE]
           u == [t EXCEPT !.ready = Append(@, k)]
<1>1. t \in LWork /\ t.store = PutAt(s.store, k, v) /\ t.dirty = TRUE /\ t.taken = s.taken /\ SameClients(s, t) /\ t.ready = s.ready
      BY DEF LWork, PutAt, Stores, SameClients
<1> HIDE DEF t
<1>2. u \in LWork /\ u.store = t.store /\ u.dirty = t.dirty /\ u.taken = t.taken /\ SameClients(t, u) /\ u.ready = Append(t.ready, k)
  <2>1. Append(t.ready, k) \in Seq(Lists) BY <1>1, LWorkIs, AppendIs
  <2> DEFINE r == Append(t.ready, k)
  <2>2. u = [t EXCEPT !.ready = r] OBVIOUS
  <2> HIDE DEF r, u
  <2>3. u \in LWork /\ u.ready = r /\ u.store = t.store /\ u.dirty = t.dirty /\ u.taken = t.taken BY <1>1, <2>1, <2>2 DEF LWork, r
  <2>4. SameClients(t, u) BY <1>1, <2>2 DEF LWork, SameClients
  <2>5. QED BY <2>3, <2>4 DEF r
<1> HIDE DEF u
<1>3. DbAdd(s, k, v) = IF v.type = "list" THEN IF t.blocking[k] = <<>> \/ k \in ToSet(t.ready) THEN t ELSE u ELSE t
      BY DEF DbAdd, SignalListAsReady, t, u
<1>4. s.ready \in Seq(Lists) BY LWorkIs
<1>5. k \in ToSet(Append(s.ready, k)) BY <1>4, AppendIs
<1>6. s.store \in Stores /\ PutAt(s.store, k, v)[k] = v
      /\ \A l \in Lists : l # k => PutAt(s.store, k, v)[l] = s.store[l] BY LWorkIs, PutAtIs
<1>b. t.blocking = s.blocking BY <1>1 DEF SameClients
<1>7. CASE DbAdd(s, k, v) = t /\ (v.type = "list" => s.blocking[k] = <<>> \/ k \in ToSet(s.ready))
  <2>1. Signals(s, t) BY <1>1, <1>6, <1>7 DEF Signals
  <2>2. QED BY <1>1, <1>7, <2>1 DEF Turns
<1>8. CASE DbAdd(s, k, v) = u /\ s.blocking[k] # <<>> /\ k \notin ToSet(s.ready)
  <2>1. u.store = PutAt(s.store, k, v) /\ u.ready = Append(s.ready, k) BY <1>1, <1>2
  <2>2. Signals(s, u) BY <1>5, <1>6, <1>8, <2>1 DEF Signals
  <2>3. SameClients(s, u) BY <1>1, <1>2 DEF SameClients
  <2>4. QED BY <1>1, <1>2, <1>5, <1>8, <2>1, <2>2, <2>3 DEF Turns
<1>9. QED BY <1>1, <1>3, <1>7, <1>8, <1>b

LEMMA PushToIs ==
  ASSUME NEW s \in LWork, NEW k \in Lists, s.store[k].type # "string",
         NEW items \in Seq(Nat), items # <<>>, NEW where
  PROVE  /\ Turns(s, PushTo(s, k, items, where), PutAt(s.store, k, PushedTo(s.store[k], items, where)), s.taken)
         /\ PushTo(s, k, items, where).dirty = TRUE
<1> DEFINE v == s.store[k]
           p == PushedTo(v, items, where)
<1>1. s.store \in Stores /\ v \in Values BY LWorkIs DEF Stores
<1>2. p \in Values /\ p.type = "list" BY <1>1, PushedIs
<1>3. CASE v.type = "none"
  <2>1. v.items = <<>> BY <1>1, <1>3, ValueIs
  <2>2. Reverse(items) \in Seq(Nat) /\ Reverse(items) # <<>> BY ReverseIs
  <2>3. p = List(IF where = "head" THEN Reverse(items) ELSE items)
    <3>1. Reverse(items) \o <<>> = Reverse(items) /\ <<>> \o items = items BY <2>2, EmptyIs
    <3>2. p = [type |-> "list", items |-> IF where = "head" THEN Reverse(items) ELSE items] BY <2>1, <3>1 DEF PushedTo
    <3>3. QED BY <2>2, <3>2 DEF List
  <2>4. PushTo(s, k, items, where) = DbAdd(s, k, p) BY <1>3, <2>3 DEF PushTo
  <2> HIDE DEF p
  <2>5. Turns(s, DbAdd(s, k, p), PutAt(s.store, k, p), s.taken) /\ DbAdd(s, k, p).dirty = TRUE
        BY <1>2, DbAddIs
  <2>6. QED BY <2>4, <2>5 DEF p
<1>4. CASE v.type = "list"
  <2> DEFINE t == [s EXCEPT !.store[k].items = IF where = "head" THEN Reverse(items) \o @ ELSE @ \o items, !.dirty = TRUE]
             u == [s EXCEPT !.store[k] = p, !.dirty = TRUE]
  <2>1. PushTo(s, k, items, where) = t BY <1>4 DEF PushTo
  <2> DEFINE q == IF where = "head" THEN Reverse(items) \o v.items ELSE v.items \o items
  <2>2. [v EXCEPT !.items = IF where = "head" THEN Reverse(items) \o @ ELSE @ \o items] = p
    <3>1. p = [type |-> "list", items |-> q] BY DEF PushedTo
    <3> HIDE DEF q
    <3>2. [v EXCEPT !.items = q] = [type |-> "list", items |-> q] BY <1>1, <1>4 DEF Values
    <3>3. QED BY <3>1, <3>2 DEF q
  <2>3. t = u BY <1>1, <2>2 DEF LWork, Stores
  <2> HIDE DEF p
  <2>4. u \in LWork /\ u.store = PutAt(s.store, k, p) /\ u.dirty = TRUE /\ u.taken = s.taken /\ SameClients(s, u) /\ u.ready = s.ready
        BY <1>2 DEF LWork, PutAt, Stores, SameClients
  <2> HIDE DEF t, u
  <2>5. Signals(s, u)
    <3>1. \A l \in Lists : l # k => u.store[l] = s.store[l] BY <1>1, <1>2, <2>4, PutAtIs
    <3>2. QED BY <1>4, <2>4, <3>1 DEF Signals
  <2>6. Turns(s, u, PutAt(s.store, k, p), s.taken) BY <2>4, <2>5 DEF Turns
  <2>7. QED BY <2>1, <2>3, <2>4, <2>6 DEF p
<1>5. QED BY <1>1, <1>3, <1>4, ValueIs

LEMMA StaysSame ==
  ASSUME NEW s \in LWork
  PROVE  Turns(s, s, s.store, s.taken)
BY DEF Turns, SameClients, Signals

\* One more key is written, which does not become a list by it.
LEMMA PutMore ==
  ASSUME NEW s \in LWork, NEW t, NEW st, NEW tk, Turns(s, t, st, tk), t.dirty = TRUE,
         NEW k \in Lists, NEW v \in Values, v.type = "list" => s.store[k].type = "list",
         NEW u, u = [t EXCEPT !.store[k] = v]
  PROVE  Turns(s, u, PutAt(st, k, v), tk)
<1>1. t \in LWork /\ t.store = st /\ t.taken = tk /\ SameClients(s, t) /\ Signals(s, t) BY DEF Turns
<1>2. st \in Stores BY <1>1, LWorkIs
<1>3. u \in LWork /\ u.store = PutAt(st, k, v) /\ u.taken = tk /\ SameClients(t, u) /\ u.ready = t.ready /\ u.dirty = TRUE
      BY <1>1 DEF LWork, PutAt, Stores, SameClients
<1>4. \A l \in Lists : u.store[l] = IF l = k THEN v ELSE st[l] BY ZenonT(30), <1>2, <1>3 DEF PutAt, Stores
<1>5. Signals(s, u) BY <1>1, <1>3, <1>4 DEF Signals
<1>6. SameClients(s, u) BY <1>1, <1>3 DEF SameClients
<1>7. QED BY <1>3, <1>5, <1>6 DEF Turns

LEMMA PushIs ==
  ASSUME NEW s \in LWork, NEW k \in Lists, NEW items \in Seq(Nat), items # <<>>, NEW where
  PROVE  Turns(s, Push(s, k, items, where), AfterPush(s.store, k, items, where),
               s.taken \cup (IF s.store[k].type = "string" THEN ToSet(items) ELSE {}))
<1>1. CASE s.store[k].type = "string"
  <2> DEFINE t == [s EXCEPT !.taken = @ \cup ToSet(items)]
             tk == s.taken \cup ToSet(items)
  <2>1. tk \in SUBSET Nat BY LWorkIs, ToSetIs
  <2>2. Push(s, k, items, where) = t /\ AfterPush(s.store, k, items, where) = s.store BY <1>1 DEF Push, AfterPush
  <2>3. t = [s EXCEPT !.taken = tk] OBVIOUS
  <2> HIDE DEF tk, t
  <2>4. t \in LWork /\ t.taken = tk /\ SameClients(s, t) /\ t.ready = s.ready /\ t.store = s.store
        BY <2>1, <2>3 DEF LWork, SameClients
  <2>5. Signals(s, t) BY <2>4 DEF Signals
  <2>6. Turns(s, t, s.store, tk) BY <2>4, <2>5 DEF Turns
  <2>7. QED BY <1>1, <2>2, <2>6 DEF tk
<1>2. CASE s.store[k].type # "string"
  <2>1. Push(s, k, items, where) = PushTo(s, k, items, where) BY <1>2 DEF Push
  <2>2. AfterPush(s.store, k, items, where) = PutAt(s.store, k, PushedTo(s.store[k], items, where)) BY <1>2 DEF AfterPush
  <2>3. s.taken \cup (IF s.store[k].type = "string" THEN ToSet(items) ELSE {}) = s.taken BY <1>2
  <2>4. QED BY <1>2, <2>1, <2>2, <2>3, PushToIs
<1>3. QED BY <1>1, <1>2

LEMMA PoppedIs ==
  ASSUME NEW q \in Seq(Nat), q # <<>>, NEW where
  PROVE  Popped(q, where) \in Seq(Nat) /\ End(q, where) \in Nat /\ End(q, where) \in ToSet(q)
BY TailIs, FrontIs DEF Popped, End

LEMMA PopIs ==
  ASSUME NEW s \in LWork, NEW k \in Lists, NEW where, s.store[k].type = "list" => s.store[k].items # <<>>
  PROVE  Turns(s, Pop(s, k, where), AfterPop(s.store, k, where),
               s.taken \cup (IF s.store[k].type # "list" THEN {} ELSE {End(s.store[k].items, where)}))
<1>1. CASE s.store[k].type # "list"
  <2>1. Pop(s, k, where) = s /\ AfterPop(s.store, k, where) = s.store BY <1>1 DEF Pop, AfterPop
  <2>2. s.taken \cup (IF s.store[k].type # "list" THEN {} ELSE {End(s.store[k].items, where)}) = s.taken BY <1>1
  <2>3. QED BY <2>1, <2>2, StaysSame
<1>2. CASE s.store[k].type = "list"
  <2> DEFINE items == s.store[k].items
             v == List(Popped(items, where))
             tk == s.taken \cup {End(items, where)}
             t == [s EXCEPT !.store[k] = v, !.taken = tk, !.dirty = TRUE]
  <2>1. items \in Seq(Nat) /\ items # <<>> BY <1>2, LWorkIs, ValueIs DEF Stores
  <2>2. v \in Values /\ tk \in SUBSET Nat
    <3>1. Popped(items, where) \in Seq(Nat) /\ End(items, where) \in Nat
      <4> HIDE DEF items
      <4>1. QED BY <2>1, PoppedIs
    <3>2. s.taken \in SUBSET Nat BY LWorkIs
    <3>3. QED BY <3>1, <3>2, ListIs
  <2>3. Pop(s, k, where) = t /\ AfterPop(s.store, k, where) = PutAt(s.store, k, v) BY <1>2 DEF Pop, AfterPop
  <2> HIDE DEF v, tk
  <2>4. t \in LWork /\ t.taken = tk /\ SameClients(s, t) /\ t.ready = s.ready /\ t.store = PutAt(s.store, k, v) /\ t.dirty = TRUE
        BY <2>2 DEF LWork, SameClients, PutAt, Stores
  <2> HIDE DEF t
  <2>5. Signals(s, t)
    <3>1. \A l \in Lists : l # k => t.store[l] = s.store[l] BY <2>2, <2>4, LWorkIs, PutAtIs
    <3>2. QED BY <1>2, <2>4, <3>1 DEF Signals
  <2>6. Turns(s, t, PutAt(s.store, k, v), tk) BY <2>4, <2>5 DEF Turns
  <2>7. QED BY <1>2, <2>3, <2>6 DEF tk
<1>3. QED BY <1>1, <1>2

LEMMA MoveIs ==
  ASSUME NEW s \in LWork, NEW src \in Lists, NEW dst \in Lists, s.store[src].type = "list" => s.store[src].items # <<>>
  PROVE  Turns(s, RPopLPush(s, src, dst), AfterMove(s.store, src, dst), s.taken)
<1>1. CASE s.store[src].type # "list" \/ s.store[dst].type = "string"
  <2>1. RPopLPush(s, src, dst) = s /\ AfterMove(s.store, src, dst) = s.store BY <1>1 DEF RPopLPush, AfterMove
  <2>2. QED BY <2>1, StaysSame
<1>2. CASE ~(s.store[src].type # "list" \/ s.store[dst].type = "string")
  <2> DEFINE items == s.store[src].items
             e == Last(items)
             t == PushTo(s, dst, <<e>>, "head")
             q == IF src = dst THEN <<e>> \o Front(items) ELSE Front(items)
             v == List(q)
             u == [t EXCEPT !.store[src] = v]
             st == PutAt(s.store, dst, PushedTo(s.store[dst], <<e>>, "head"))
  <2>1. items \in Seq(Nat) /\ items # <<>> BY <1>2, LWorkIs, ValueIs DEF Stores
  <2>2. e \in Nat /\ Front(items) \in Seq(Nat)
    <3> HIDE DEF items
    <3>1. QED BY <2>1, FrontIs
  <2>3. <<e>> \in Seq(Nat) /\ <<e>> # <<>> BY <2>2
  <2>4. v \in Values
    <3> DEFINE f == Front(items)
               o == <<e>>
    <3> HIDE DEF items, e, f, o
    <3>1. f \in Seq(Nat) /\ o \in Seq(Nat) BY <2>2, <2>3 DEF f, o
    <3>2. o \o f \in Seq(Nat) BY <3>1, JoinIs
    <3>3. q \in Seq(Nat) BY <3>1, <3>2 DEF f, o
    <3>4. QED BY <3>3, ListIs
  <2>5. Turns(s, t, st, s.taken) /\ t.dirty = TRUE
    <3> DEFINE o == <<e>>
    <3> HIDE DEF e, o
    <3>1. s.store[dst].type # "string" /\ o \in Seq(Nat) /\ o # <<>> BY <1>2, <2>3 DEF o
    <3>2. Turns(s, PushTo(s, dst, o, "head"), PutAt(s.store, dst, PushedTo(s.store[dst], o, "head")), s.taken)
          /\ PushTo(s, dst, o, "head").dirty = TRUE BY <3>1, PushToIs
    <3>3. QED BY <3>2 DEF o
  <2>6. RPopLPush(s, src, dst) = u /\ AfterMove(s.store, src, dst) = PutAt(st, src, v) BY <1>2 DEF RPopLPush, AfterMove
  <2> HIDE DEF v, t, st
  <2>7. s.store[src].type = "list" BY <1>2
  <2>8. Turns(s, u, PutAt(st, src, v), s.taken) BY <2>4, <2>5, <2>7, PutMore
  <2>9. QED BY <2>6, <2>8
<1>3. QED BY <1>1, <1>2

LEMMA TrimmedIs ==
  ASSUME NEW q \in Seq(Nat)
  PROVE  /\ Trimmed(q) \in Seq(Nat) /\ ToSet(Trimmed(q)) \subseteq ToSet(q)
         /\ IsInjective(q) => IsInjective(Trimmed(q))
<1>1. CASE 1 >= Len(q) BY <1>1, EmptyIs DEF Trimmed
<1>2. CASE ~(1 >= Len(q))
  <2>1. Len(q) \in Nat OBVIOUS
  <2>2. 2 \in 1 .. Len(q) /\ Len(q) \in 2 .. Len(q) BY <1>2, <2>1
  <2> DEFINE b == Len(q)
  <2>3. /\ SubSeq(q, 2, b) \in Seq(Nat) /\ ToSet(SubSeq(q, 2, b)) \subseteq ToSet(q)
        /\ IsInjective(q) => IsInjective(SubSeq(q, 2, b)) BY <2>2, SubSeqIs
  <2>4. QED BY <1>2, <2>3 DEF Trimmed
<1>3. QED BY <1>1, <1>2

LEMMA TrimIs ==
  ASSUME NEW s \in LWork, NEW k \in Lists
  PROVE  Turns(s, LTrim(s, k, 1, 0), AfterTrim(s.store, k),
               s.taken \cup (IF s.store[k].type # "list" THEN {} ELSE ToSet(s.store[k].items) \ ToSet(Trimmed(s.store[k].items))))
<1>1. CASE s.store[k].type # "list"
  <2>1. LTrim(s, k, 1, 0) = s /\ AfterTrim(s.store, k) = s.store BY <1>1 DEF LTrim, AfterTrim
  <2>2. s.taken \cup (IF s.store[k].type # "list" THEN {} ELSE ToSet(s.store[k].items) \ ToSet(Trimmed(s.store[k].items))) = s.taken BY <1>1
  <2>3. QED BY <2>1, <2>2, StaysSame
<1>2. CASE s.store[k].type = "list"
  <2> DEFINE items == s.store[k].items
             keep == Trimmed(items)
             v == List(keep)
             tk == s.taken \cup (ToSet(items) \ ToSet(keep))
             t == [s EXCEPT !.store[k] = v, !.taken = tk, !.dirty = TRUE]
  <2>1. items \in Seq(Nat) BY LWorkIs, ValueIs DEF Stores
  <2>2. v \in Values /\ tk \in SUBSET Nat
    <3>1. keep \in Seq(Nat) /\ ToSet(items) \in SUBSET Nat
      <4> HIDE DEF items
      <4>1. QED BY <2>1, TrimmedIs, ToSetIs
    <3>2. s.taken \in SUBSET Nat BY LWorkIs
    <3> HIDE DEF keep, items
    <3>3. QED BY <3>1, <3>2, ListIs
  <2>3. LTrim(s, k, 1, 0) = t /\ AfterTrim(s.store, k) = PutAt(s.store, k, v)
    <3>1. Len(items) \in Nat BY <2>1
    <3>2. 1 + 0 = 1 /\ 1 + 1 = 2 /\ Len(items) - 0 = Len(items) BY <3>1
    <3>3. (IF 1 + 0 >= Len(items) THEN <<>> ELSE SubSeq(items, 1 + 1, Len(items) - 0)) = keep BY <3>2, Zenon DEF Trimmed
    <3>4. QED BY <1>2, <3>3, Zenon DEF LTrim, AfterTrim
  <2> HIDE DEF v, tk
  <2>4. t \in LWork /\ t.taken = tk /\ SameClients(s, t) /\ t.ready = s.ready /\ t.store = PutAt(s.store, k, v) /\ t.dirty = TRUE
        BY <2>2 DEF LWork, SameClients, PutAt, Stores
  <2> HIDE DEF t
  <2>5. Signals(s, t)
    <3>1. \A l \in Lists : l # k => t.store[l] = s.store[l] BY <2>2, <2>4, LWorkIs, PutAtIs
    <3>2. QED BY <1>2, <2>4, <3>1 DEF Signals
  <2>6. Turns(s, t, PutAt(s.store, k, v), tk) BY <2>4, <2>5 DEF Turns
  <2>7. QED BY <1>2, <2>3, <2>6 DEF tk
<1>3. QED BY <1>1, <1>2

LEMMA RenameIs ==
  ASSUME NEW s \in LWork, NEW src \in Lists, NEW dst \in Lists
  PROVE  Turns(s, RenameTo(s, src, dst), AfterRename(s.store, src, dst),
               s.taken \cup (IF src = dst \/ s.store[src].type = "none" THEN {} ELSE ToSet(s.store[dst].items)))
<1>1. CASE src = dst \/ s.store[src].type = "none"
  <2>1. RenameTo(s, src, dst) = s /\ AfterRename(s.store, src, dst) = s.store BY <1>1 DEF RenameTo, AfterRename
  <2>2. s.taken \cup (IF src = dst \/ s.store[src].type = "none" THEN {} ELSE ToSet(s.store[dst].items)) = s.taken BY <1>1
  <2>3. QED BY <2>1, <2>2, StaysSame
<1>2. CASE ~(src = dst \/ s.store[src].type = "none")
  <2> DEFINE v == s.store[src]
             tk == s.taken \cup ToSet(s.store[dst].items)
             freed == [s EXCEPT !.store[dst] = Nothing, !.taken = tk]
             t == DbAdd(freed, dst, v)
             u == [t EXCEPT !.store[src] = Nothing]
             st == PutAt(PutAt(s.store, dst, v), src, Nothing)
  <2>1. s.store \in Stores /\ v \in Values /\ s.store[dst] \in Values BY LWorkIs DEF Stores
  <2>2. tk \in SUBSET Nat
    <3>1. s.store[dst].items \in Seq(Nat) BY <2>1, ValueIs
    <3>2. ToSet(s.store[dst].items) \in SUBSET Nat /\ s.taken \in SUBSET Nat BY <3>1, ToSetIs, LWorkIs
    <3>3. QED BY <3>2
  <2>3. RenameTo(s, src, dst) = u /\ AfterRename(s.store, src, dst) = st BY <1>2 DEF RenameTo, AfterRename
  <2> HIDE DEF tk, v
  <2>4. freed \in LWork /\ freed.taken = tk /\ SameClients(s, freed) /\ freed.ready = s.ready
        /\ freed.store = PutAt(s.store, dst, Nothing)
        BY <2>2, ValueIs DEF LWork, SameClients, PutAt, Stores
  <2> HIDE DEF freed
  <2>5. Turns(freed, t, PutAt(freed.store, dst, v), freed.taken) /\ t.dirty = TRUE BY <2>1, <2>4, DbAddIs
  <2> HIDE DEF t
  <2>6. Nothing \in Values /\ Nothing.type # "list" BY ValueIs
  <2>7. Turns(freed, u, PutAt(PutAt(freed.store, dst, v), src, Nothing), freed.taken) BY <2>4, <2>5, <2>6, PutMore
  <2> HIDE DEF u
  <2>8. PutAt(freed.store, dst, v) = PutAt(s.store, dst, v) BY <2>1, <2>4, PutTwice
  <2>9. u \in LWork /\ u.store = st /\ u.taken = tk /\ SameClients(freed, u) /\ Signals(freed, u)
        BY <2>4, <2>7, <2>8 DEF Turns
  <2>10. SameClients(s, u) BY <2>4, <2>9 DEF SameClients
  <2>11. Signals(s, u)
    <3>1. \A l \in Lists : /\ u.store[l] = IF l = src THEN Nothing ELSE IF l = dst THEN v ELSE s.store[l]
                           /\ freed.store[l] = IF l = dst THEN Nothing ELSE s.store[l]
          BY <2>1, <2>4, <2>9 DEF PutAt, Stores
    <3>2. freed.ready = s.ready /\ freed.blocking = s.blocking BY <2>4 DEF SameClients
    <3>3. \A l \in Lists : u.store[l].type = "list" /\ s.store[l].type # "list" => freed.store[l].type # "list"
          BY <2>6, <3>1
    <3>4. QED BY <2>9, <3>2, <3>3 DEF Signals
  <2>12. u.dirty = TRUE
    <3>1. t \in LWork BY <2>5 DEF Turns
    <3>2. QED BY <2>5, <3>1 DEF u, LWork
  <2>13. Turns(s, u, st, tk) BY <2>9, <2>10, <2>11, <2>12 DEF Turns
  <2>14. s.taken \cup (IF src = dst \/ s.store[src].type = "none" THEN {} ELSE ToSet(s.store[dst].items)) = tk
         BY <1>2 DEF tk
  <2>15. QED BY <2>3, <2>13, <2>14
<1>3. QED BY <1>1, <1>2

\* A key is overwritten or deleted, and its elements are gone.
LEMMA OverwriteIs ==
  ASSUME NEW s \in LWork, NEW k \in Lists, NEW v \in Values, v.type # "list", NEW d \in BOOLEAN,
         d \/ v = s.store[k],
         NEW t, t = [s EXCEPT !.store[k] = v, !.taken = @ \cup ToSet(s.store[k].items), !.dirty = d]
  PROVE  Turns(s, t, PutAt(s.store, k, v), s.taken \cup ToSet(s.store[k].items))
<1> DEFINE tk == s.taken \cup ToSet(s.store[k].items)
<1>1. s.store \in Stores /\ s.store[k] \in Values BY LWorkIs DEF Stores
<1>2. tk \in SUBSET Nat
  <2>1. s.store[k].items \in Seq(Nat) BY <1>1, ValueIs
  <2>2. ToSet(s.store[k].items) \in SUBSET Nat /\ s.taken \in SUBSET Nat BY <2>1, ToSetIs, LWorkIs
  <2>3. QED BY <2>2
<1>3. t = [s EXCEPT !.store[k] = v, !.taken = tk, !.dirty = d] OBVIOUS
<1> HIDE DEF tk
<1>4. t \in LWork /\ t.taken = tk /\ SameClients(s, t) /\ t.ready = s.ready /\ t.store = PutAt(s.store, k, v) /\ t.dirty = d
  <2> DEFINE st == PutAt(s.store, k, v)
  <2>1. st \in Stores /\ t = [s EXCEPT !.store = st, !.taken = tk, !.dirty = d] BY <1>1, <1>3, PutAtIs DEF PutAt
  <2> HIDE DEF st
  <2>2. t \in LWork BY <1>2, <2>1 DEF LWork
  <2>3. t.taken = tk /\ t.ready = s.ready /\ t.store = st BY <2>1 DEF LWork
  <2>4. SameClients(s, t) BY <2>1 DEF LWork, SameClients
  <2>5. t.dirty = d BY <2>1, Zenon DEF LWork
  <2>6. QED BY <2>2, <2>3, <2>4, <2>5 DEF st
<1>5. Signals(s, t)
  <2>1. \A l \in Lists : t.store[l] = IF l = k THEN v ELSE s.store[l] BY <1>1, <1>4 DEF PutAt, Stores
  <2>2. QED BY <1>4, <2>1 DEF Signals
<1>6. t.dirty \/ t.store = s.store BY <1>1, <1>4, PutSameAt
<1>7. Turns(s, t, PutAt(s.store, k, v), tk) BY <1>4, <1>5, <1>6 DEF Turns
<1>8. QED BY <1>7 DEF tk

LEMMA DeleteIs ==
  ASSUME NEW s \in LWork, NEW k \in Lists
  PROVE  Turns(s, Delete(s, k), PutAt(s.store, k, Nothing), s.taken \cup ToSet(s.store[k].items))
<1> DEFINE d == s.store[k].type # "none"
<1>1. s.store[k] \in Values BY LWorkIs DEF Stores
<1>2. d \in BOOLEAN /\ (d \/ Nothing = s.store[k]) BY <1>1, ValueIs
<1>3. Delete(s, k) = [s EXCEPT !.store[k] = Nothing, !.taken = @ \cup ToSet(s.store[k].items), !.dirty = d] BY DEF Delete
<1> HIDE DEF d
<1>4. Nothing \in Values /\ Nothing.type # "list" BY ValueIs
<1> DEFINE t == Delete(s, k)
<1> HIDE DEF t
<1>5. t = [s EXCEPT !.store[k] = Nothing, !.taken = @ \cup ToSet(s.store[k].items), !.dirty = d] BY <1>3 DEF t
<1>6. Turns(s, t, PutAt(s.store, k, Nothing), s.taken \cup ToSet(s.store[k].items)) BY Zenon, <1>2, <1>4, <1>5, OverwriteIs
<1>7. QED BY <1>6 DEF t

LEMMA SetTextIs ==
  ASSUME NEW s \in LWork, NEW k \in Lists
  PROVE  Turns(s, SetText(s, k), PutAt(s.store, k, Text), s.taken \cup ToSet(s.store[k].items))
<1> DEFINE t == SetText(s, k)
           d == Text.type = "string"
           u == [s EXCEPT !.store[k] = Text, !.taken = @ \cup ToSet(s.store[k].items), !.dirty = TRUE]
<1>1. t = u BY DEF SetText, SetKeyTo, DbAdd, Text, LWork, Stores
<1>2. Text \in Values /\ Text.type # "list" /\ d BY ValueIs
<1>3. u = [s EXCEPT !.store[k] = Text, !.taken = @ \cup ToSet(s.store[k].items), !.dirty = d] BY <1>2
<1> HIDE DEF t, d, u
<1>4. t = [s EXCEPT !.store[k] = Text, !.taken = @ \cup ToSet(s.store[k].items), !.dirty = d] BY <1>1, <1>3
<1>5. d \in BOOLEAN BY DEF d
<1>6. Turns(s, t, PutAt(s.store, k, Text), s.taken \cup ToSet(s.store[k].items)) BY Zenon, <1>2, <1>4, <1>5, OverwriteIs
<1>7. QED BY <1>6 DEF t

TidyAt(st, k) == st[k].type = "list" <=> st[k].items # <<>>
TidyStore(st) == \A k \in Lists : TidyAt(st, k)

LEMMA ListCommandIs ==
  ASSUME NEW c \in ListCommands
  PROVE  /\ c.name \in {"LPUSH", "RPUSH", "LPOP", "RPOP", "RPOPLPUSH", "LTRIM", "RENAME", "DEL", "SET"}
         /\ c.key \in Lists /\ c.items \in Seq(Nat)
         /\ c.name \in {"RPOPLPUSH", "RENAME"} => c.to \in Lists
         /\ c.name \in {"LPUSH", "RPUSH"} <=> c.items # <<>>
BY DEF ListCommands

LEMMA ListProcIs ==
  ASSUME NEW s \in LWork, TidyStore(s.store), NEW c \in ListCommands
  PROVE  Turns(s, ListProc(s, c), StoreAfter(s.store, c), s.taken \cup TakenBy(s.store, c))
<1> DEFINE G == Turns(s, ListProc(s, c), StoreAfter(s.store, c), s.taken \cup TakenBy(s.store, c))
<1>0. c.key \in Lists /\ c.items \in Seq(Nat) /\ (c.name \in {"RPOPLPUSH", "RENAME"} => c.to \in Lists)
      /\ (c.name \in {"LPUSH", "RPUSH"} <=> c.items # <<>>) BY ListCommandIs
<1>t. \A k \in Lists : s.store[k].type = "list" => s.store[k].items # <<>> BY DEF TidyStore, TidyAt
<1>1. CASE c.name = "LPUSH"
  <2>1. c.items # <<>> BY <1>0, <1>1
  <2>2. Turns(s, Push(s, c.key, c.items, "head"), AfterPush(s.store, c.key, c.items, "head"),
               s.taken \cup (IF s.store[c.key].type = "string" THEN ToSet(c.items) ELSE {})) BY <1>0, <2>1, PushIs
  <2>3. QED BY <1>1, <2>2 DEF ListProc, StoreAfter, TakenBy
<1>2. CASE c.name = "RPUSH"
  <2>1. c.items # <<>> BY <1>0, <1>2
  <2>2. Turns(s, Push(s, c.key, c.items, "tail"), AfterPush(s.store, c.key, c.items, "tail"),
               s.taken \cup (IF s.store[c.key].type = "string" THEN ToSet(c.items) ELSE {})) BY <1>0, <2>1, PushIs
  <2>3. QED BY <1>2, <2>2 DEF ListProc, StoreAfter, TakenBy
<1>3. CASE c.name = "LPOP"
  <2>1. Turns(s, Pop(s, c.key, "head"), AfterPop(s.store, c.key, "head"),
               s.taken \cup (IF s.store[c.key].type # "list" THEN {} ELSE {End(s.store[c.key].items, "head")}))
        BY <1>0, <1>t, PopIs
  <2>2. QED BY <1>3, <2>1 DEF ListProc, StoreAfter, TakenBy, End
<1>4. CASE c.name = "RPOP"
  <2>1. Turns(s, Pop(s, c.key, "tail"), AfterPop(s.store, c.key, "tail"),
               s.taken \cup (IF s.store[c.key].type # "list" THEN {} ELSE {End(s.store[c.key].items, "tail")}))
        BY <1>0, <1>t, PopIs
  <2>2. QED BY <1>4, <2>1 DEF ListProc, StoreAfter, TakenBy, End
<1>5. CASE c.name = "RPOPLPUSH"
  <2>1. Turns(s, RPopLPush(s, c.key, c.to), AfterMove(s.store, c.key, c.to), s.taken) BY <1>0, <1>5, <1>t, MoveIs
  <2>2. s.taken \cup TakenBy(s.store, c) = s.taken BY <1>5 DEF TakenBy
  <2>3. QED BY <1>5, <2>1, <2>2 DEF ListProc, StoreAfter
<1>6. CASE c.name = "LTRIM"
  <2>1. Turns(s, LTrim(s, c.key, 1, 0), AfterTrim(s.store, c.key),
               s.taken \cup (IF s.store[c.key].type # "list" THEN {}
                             ELSE ToSet(s.store[c.key].items) \ ToSet(Trimmed(s.store[c.key].items)))) BY <1>0, TrimIs
  <2>2. QED BY <1>6, <2>1 DEF ListProc, StoreAfter, TakenBy
<1>7. CASE c.name = "RENAME"
  <2>1. Turns(s, RenameTo(s, c.key, c.to), AfterRename(s.store, c.key, c.to),
               s.taken \cup (IF c.key = c.to \/ s.store[c.key].type = "none" THEN {} ELSE ToSet(s.store[c.to].items)))
        BY <1>0, <1>7, RenameIs
  <2>2. QED BY <1>7, <2>1 DEF ListProc, StoreAfter, TakenBy
<1>8. CASE c.name = "DEL"
  <2>1. Turns(s, Delete(s, c.key), PutAt(s.store, c.key, Nothing), s.taken \cup ToSet(s.store[c.key].items))
        BY <1>0, DeleteIs
  <2>2. QED BY <1>8, <2>1 DEF ListProc, StoreAfter, TakenBy
<1>9. CASE c.name = "SET"
  <2>1. Turns(s, SetText(s, c.key), PutAt(s.store, c.key, Text), s.taken \cup ToSet(s.store[c.key].items))
        BY <1>0, SetTextIs
  <2>2. QED BY <1>9, <2>1 DEF ListProc, StoreAfter, TakenBy
<1>10. QED BY <1>1, <1>2, <1>3, <1>4, <1>5, <1>6, <1>7, <1>8, <1>9, ListCommandIs

LEMMA PutTidy ==
  ASSUME NEW st \in Stores, TidyStore(st), NEW k \in Lists, NEW v \in Values, v.type = "list" <=> v.items # <<>>
  PROVE  PutAt(st, k, v) \in Stores /\ TidyStore(PutAt(st, k, v))
BY DEF PutAt, Stores, TidyStore, TidyAt

LEMMA StoreAfterIs ==
  ASSUME NEW st \in Stores, TidyStore(st), NEW c \in ListCommands
  PROVE  StoreAfter(st, c) \in Stores /\ TidyStore(StoreAfter(st, c))
<1>0. c.key \in Lists /\ c.items \in Seq(Nat) /\ (c.name \in {"RPOPLPUSH", "RENAME"} => c.to \in Lists)
      /\ (c.name \in {"LPUSH", "RPUSH"} <=> c.items # <<>>) BY ListCommandIs
<1>v. \A k \in Lists : /\ st[k] \in Values /\ st[k].items \in Seq(Nat)
                       /\ st[k].type = "list" <=> st[k].items # <<>> BY ValueIs DEF Stores, TidyStore, TidyAt
<1>p. ASSUME NEW k \in Lists, NEW items \in Seq(Nat), items # <<>>, NEW where
      PROVE  AfterPush(st, k, items, where) \in Stores /\ TidyStore(AfterPush(st, k, items, where))
  <2>1. CASE st[k].type = "string" BY <2>1 DEF AfterPush
  <2>2. CASE st[k].type # "string"
    <3> DEFINE v == PushedTo(st[k], items, where)
    <3>1. v \in Values /\ v.type = "list" /\ v.items # <<>> BY <1>v, <1>p, <2>2, PushedIs
    <3>2. AfterPush(st, k, items, where) = PutAt(st, k, v) BY <2>2 DEF AfterPush
    <3> HIDE DEF v
    <3>3. QED BY <3>1, <3>2, PutTidy
  <2>3. QED BY <2>1, <2>2
<1>q. ASSUME NEW k \in Lists, NEW where
      PROVE  AfterPop(st, k, where) \in Stores /\ TidyStore(AfterPop(st, k, where))
  <2>1. CASE st[k].type # "list" BY <2>1 DEF AfterPop
  <2>2. CASE st[k].type = "list"
    <3> DEFINE q == Popped(st[k].items, where)
               v == List(q)
    <3>1. q \in Seq(Nat) BY <1>v, <2>2, PoppedIs
    <3>2. AfterPop(st, k, where) = PutAt(st, k, v) BY <2>2 DEF AfterPop
    <3> HIDE DEF q
    <3>3. v \in Values /\ (v.type = "list" <=> v.items # <<>>) BY <3>1, ListIs
    <3> HIDE DEF v
    <3>4. QED BY <3>2, <3>3, PutTidy
  <2>3. QED BY <2>1, <2>2
<1>1. CASE c.name \in {"LPUSH", "RPUSH"} BY <1>0, <1>1, <1>p DEF StoreAfter
<1>2. CASE c.name \in {"LPOP", "RPOP"} BY <1>0, <1>2, <1>q DEF StoreAfter
<1>3. CASE c.name = "RPOPLPUSH"
  <2> DEFINE src == c.key
             dst == c.to
  <2>0. src \in Lists /\ dst \in Lists /\ StoreAfter(st, c) = AfterMove(st, src, dst) BY <1>0, <1>3 DEF StoreAfter
  <2> HIDE DEF src, dst
  <2>1. CASE st[src].type # "list" \/ st[dst].type = "string" BY <2>0, <2>1 DEF AfterMove
  <2>2. CASE ~(st[src].type # "list" \/ st[dst].type = "string")
    <3> DEFINE e == Last(st[src].items)
               o == <<e>>
               f == Front(st[src].items)
               v == PushedTo(st[dst], o, "head")
               q == IF src = dst THEN o \o f ELSE f
               w == List(q)
    <3>1. e \in Nat /\ f \in Seq(Nat) BY <1>v, <2>0, <2>2, FrontIs
    <3>2. AfterMove(st, src, dst) = PutAt(PutAt(st, dst, v), src, w) BY <2>2 DEF AfterMove
    <3> HIDE DEF e, f
    <3>3. o \in Seq(Nat) /\ o # <<>> BY <3>1, SingleIs
    <3> HIDE DEF o
    <3>4. v \in Values /\ v.type = "list" /\ v.items # <<>> BY <1>v, <2>0, <2>2, <3>3, PushedIs
    <3>5. q \in Seq(Nat) BY <3>1, <3>3, JoinIs
    <3> HIDE DEF q, v
    <3>6. w \in Values /\ (w.type = "list" <=> w.items # <<>>) BY <3>5, ListIs
    <3> HIDE DEF w
    <3>7. PutAt(st, dst, v) \in Stores /\ TidyStore(PutAt(st, dst, v)) BY <2>0, <3>4, PutTidy
    <3>8. QED BY <2>0, <3>2, <3>6, <3>7, PutTidy
  <2>3. QED BY <2>1, <2>2
<1>4. CASE c.name = "LTRIM"
  <2>1. CASE st[c.key].type # "list" BY <1>4, <2>1 DEF StoreAfter, AfterTrim
  <2>2. CASE st[c.key].type = "list"
    <3> DEFINE q == Trimmed(st[c.key].items)
               v == List(q)
    <3>1. q \in Seq(Nat) BY <1>0, <1>v, TrimmedIs
    <3>2. StoreAfter(st, c) = PutAt(st, c.key, v) BY <1>4, <2>2 DEF StoreAfter, AfterTrim
    <3> HIDE DEF q
    <3>3. v \in Values /\ (v.type = "list" <=> v.items # <<>>) BY <3>1, ListIs
    <3> HIDE DEF v
    <3>4. QED BY <1>0, <3>2, <3>3, PutTidy
  <2>3. QED BY <2>1, <2>2
<1>5. CASE c.name = "RENAME"
  <2>0. c.key \in Lists /\ c.to \in Lists BY <1>0, <1>5
  <2>1. CASE c.key = c.to \/ st[c.key].type = "none" BY <1>5, <2>1 DEF StoreAfter, AfterRename
  <2>2. CASE ~(c.key = c.to \/ st[c.key].type = "none")
    <3>1. StoreAfter(st, c) = PutAt(PutAt(st, c.to, st[c.key]), c.key, Nothing) BY <1>5, <2>2 DEF StoreAfter, AfterRename
    <3> DEFINE u == PutAt(st, c.to, st[c.key])
    <3>2. u \in Stores /\ TidyStore(u) BY <1>v, <2>0, PutTidy
    <3> HIDE DEF u
    <3>3. PutAt(u, c.key, Nothing) \in Stores /\ TidyStore(PutAt(u, c.key, Nothing)) BY <2>0, <3>2, PutTidy, ValueIs
    <3>4. QED BY <3>1, <3>3 DEF u
  <2>3. QED BY <2>1, <2>2
<1>6. CASE c.name = "DEL"
  <2>1. StoreAfter(st, c) = PutAt(st, c.key, Nothing) BY <1>6 DEF StoreAfter
  <2>2. QED BY <1>0, <2>1, PutTidy, ValueIs
<1>7. CASE c.name = "SET"
  <2>1. StoreAfter(st, c) = PutAt(st, c.key, Text) BY <1>7 DEF StoreAfter
  <2>2. QED BY <1>0, <2>1, PutTidy, ValueIs
<1>8. QED BY <1>1, <1>2, <1>3, <1>4, <1>5, <1>6, <1>7, ListCommandIs

-----------------------------------------------------------------------------
(* Every element is in one place *)

Splits(L, G, T, n) ==
  /\ L \in [Lists -> SUBSET Nat] /\ G \in [Waiters -> SUBSET Nat] /\ T \in SUBSET Nat /\ n \in Nat
  /\ \A e \in Nat : e \in 1 .. n <=> (\E k \in Lists : e \in L[k]) \/ (\E c \in Waiters : e \in G[c]) \/ e \in T
  /\ \A k, l \in Lists : \A e \in L[k] : e \in L[l] => k = l
  /\ \A c, d \in Waiters : \A e \in G[c] : e \in G[d] => c = d
  /\ \A k \in Lists : \A c \in Waiters : \A e \in L[k] : e \notin G[c]
  /\ \A k \in Lists : \A e \in L[k] : e \notin T
  /\ \A c \in Waiters : \A e \in G[c] : e \notin T

Contents(st) == [k \in Lists |-> ToSet(st[k].items)]

OnePlace(st, G, T, n) == (\A k \in Lists : IsInjective(st[k].items)) /\ Splits(Contents(st), G, T, n)

LEMMA MoveGone ==
  ASSUME NEW L, NEW G, NEW T, NEW n, Splits(L, G, T, n), NEW k \in Lists, NEW E, E \subseteq L[k]
  PROVE  Splits([L EXCEPT ![k] = L[k] \ E], G, T \cup E, n)
BY DEF Splits

LEMMA MoveList ==
  ASSUME NEW L, NEW G, NEW T, NEW n, Splits(L, G, T, n), NEW k \in Lists, NEW l \in Lists, k # l, NEW E, E \subseteq L[k]
  PROVE  Splits([[L EXCEPT ![l] = L[l] \cup E] EXCEPT ![k] = L[k] \ E], G, T, n)
<1> DEFINE M == [[L EXCEPT ![l] = L[l] \cup E] EXCEPT ![k] = L[k] \ E]
<1>1. L \in [Lists -> SUBSET Nat] BY DEF Splits
<1>2. M \in [Lists -> SUBSET Nat] BY <1>1
<1>3. \A i \in Lists : M[i] = IF i = k THEN L[k] \ E ELSE IF i = l THEN L[l] \cup E ELSE L[i] BY <1>1
<1> HIDE DEF M
<1>4. \A e \in Nat : (\E i \in Lists : e \in M[i]) <=> (\E i \in Lists : e \in L[i]) BY <1>3
<1>5. \A e \in Nat : e \in 1 .. n <=> (\E i \in Lists : e \in M[i]) \/ (\E c \in Waiters : e \in G[c]) \/ e \in T
      BY <1>4 DEF Splits
<1>6. \A i, j \in Lists : \A e \in M[i] : e \in M[j] => i = j BY <1>3 DEF Splits
<1>7. \A i \in Lists : \A e \in M[i] : \E j \in Lists : e \in L[j] BY <1>3
<1>8. \A i \in Lists : \A e \in M[i] : e \notin T /\ \A c \in Waiters : e \notin G[c] BY <1>7 DEF Splits
<1>9. QED BY <1>2, <1>5, <1>6, <1>8 DEF Splits, M

LEMMA MoveClient ==
  ASSUME NEW L, NEW G, NEW T, NEW n, Splits(L, G, T, n), NEW k \in Lists, NEW c \in Waiters, NEW E, E \subseteq L[k]
  PROVE  Splits([L EXCEPT ![k] = L[k] \ E], [G EXCEPT ![c] = G[c] \cup E], T, n)
<1> DEFINE M == [L EXCEPT ![k] = L[k] \ E]
           H == [G EXCEPT ![c] = G[c] \cup E]
<1>1. L \in [Lists -> SUBSET Nat] /\ G \in [Waiters -> SUBSET Nat] BY DEF Splits
<1>2. M \in [Lists -> SUBSET Nat] /\ H \in [Waiters -> SUBSET Nat] BY <1>1
<1>3. /\ \A i \in Lists : M[i] = IF i = k THEN L[k] \ E ELSE L[i]
      /\ \A d \in Waiters : H[d] = IF d = c THEN G[c] \cup E ELSE G[d] BY <1>1
<1> HIDE DEF M, H
<1>4. \A e \in Nat : (\E i \in Lists : e \in M[i]) \/ (\E d \in Waiters : e \in H[d])
                       <=> (\E i \in Lists : e \in L[i]) \/ (\E d \in Waiters : e \in G[d]) BY <1>3
<1>5. \A e \in Nat : e \in 1 .. n <=> (\E i \in Lists : e \in M[i]) \/ (\E d \in Waiters : e \in H[d]) \/ e \in T
      BY <1>4 DEF Splits
<1>6. \A i, j \in Lists : \A e \in M[i] : e \in M[j] => i = j BY <1>3 DEF Splits
<1>7. \A i, j \in Waiters : \A e \in H[i] : e \in H[j] => i = j BY <1>3 DEF Splits
<1>8. \A i \in Lists : \A d \in Waiters : \A e \in M[i] : e \notin H[d] BY <1>3 DEF Splits
<1>9. \A i \in Lists : \A e \in M[i] : e \notin T BY <1>3 DEF Splits
<1>10. \A d \in Waiters : \A e \in H[d] : e \notin T
  <2>1. \A e \in E : e \notin T BY DEF Splits
  <2>2. \A d \in Waiters : \A e \in G[d] : e \notin T BY DEF Splits
  <2>3. QED BY <1>3, <2>1, <2>2
<1>11. QED BY <1>2, <1>5, <1>6, <1>7, <1>8, <1>9, <1>10 DEF Splits, M, H

LEMMA AddList ==
  ASSUME NEW L, NEW G, NEW T, NEW n, Splits(L, G, T, n), NEW k \in Lists, NEW m \in Nat
  PROVE  Splits([L EXCEPT ![k] = L[k] \cup (n + 1 .. n + m)], G, T, n + m)
<1> DEFINE E == n + 1 .. n + m
           M == [L EXCEPT ![k] = L[k] \cup E]
<1>1. L \in [Lists -> SUBSET Nat] /\ n \in Nat /\ n + m \in Nat /\ E \in SUBSET Nat BY DEF Splits
<1>2. M \in [Lists -> SUBSET Nat] BY <1>1
<1>3. \A i \in Lists : M[i] = IF i = k THEN L[k] \cup E ELSE L[i] BY <1>1
<1>4. \A e \in Nat : e \in 1 .. n + m <=> e \in 1 .. n \/ e \in E BY <1>1
<1>5. \A e \in E : e \notin 1 .. n BY <1>1
<1> HIDE DEF M, E
<1>6. \A e \in Nat : (\E i \in Lists : e \in M[i]) <=> (\E i \in Lists : e \in L[i]) \/ e \in E BY <1>3
<1>7. \A e \in Nat : e \in 1 .. n + m <=> (\E i \in Lists : e \in M[i]) \/ (\E d \in Waiters : e \in G[d]) \/ e \in T
      BY <1>4, <1>6 DEF Splits
<1>8. \A e \in E : e \notin T /\ (\A i \in Lists : e \notin L[i]) /\ (\A d \in Waiters : e \notin G[d])
      BY <1>1, <1>5 DEF Splits
<1>9. \A i, j \in Lists : \A e \in M[i] : e \in M[j] => i = j BY <1>3, <1>8 DEF Splits
<1>10. \A i \in Lists : \A e \in M[i] : e \notin T /\ \A d \in Waiters : e \notin G[d] BY <1>3, <1>8 DEF Splits
<1>11. QED BY <1>1, <1>2, <1>7, <1>9, <1>10 DEF Splits, M, E

LEMMA AddGone ==
  ASSUME NEW L, NEW G, NEW T, NEW n, Splits(L, G, T, n), NEW m \in Nat
  PROVE  Splits(L, G, T \cup (n + 1 .. n + m), n + m)
<1> DEFINE E == n + 1 .. n + m
<1>1. T \in SUBSET Nat /\ n \in Nat /\ n + m \in Nat /\ E \in SUBSET Nat BY DEF Splits
<1>2. \A e \in Nat : e \in 1 .. n + m <=> e \in 1 .. n \/ e \in E BY <1>1
<1>3. \A e \in E : e \notin 1 .. n BY <1>1
<1> HIDE DEF E
<1>4. \A e \in Nat : e \in 1 .. n + m <=> (\E i \in Lists : e \in L[i]) \/ (\E d \in Waiters : e \in G[d]) \/ e \in T \cup E
      BY <1>2 DEF Splits
<1>5. \A e \in E : (\A i \in Lists : e \notin L[i]) /\ (\A d \in Waiters : e \notin G[d]) BY <1>1, <1>3 DEF Splits
<1>6. QED BY <1>1, <1>4, <1>5 DEF Splits, E

LEMMA ContentsPut ==
  ASSUME NEW st \in Stores, NEW k \in Lists, NEW v \in Values
  PROVE  Contents(PutAt(st, k, v)) = [Contents(st) EXCEPT ![k] = ToSet(v.items)]
BY DEF Contents, PutAt, Stores

LEMMA PlacePut ==
  ASSUME NEW st \in Stores, NEW k \in Lists, NEW v \in Values, NEW G, NEW T, NEW n,
         \A l \in Lists : IsInjective(st[l].items), IsInjective(v.items),
         Splits([Contents(st) EXCEPT ![k] = ToSet(v.items)], G, T, n)
  PROVE  OnePlace(PutAt(st, k, v), G, T, n)
<1>1. Splits(Contents(PutAt(st, k, v)), G, T, n) BY ContentsPut
<1>2. \A l \in Lists : PutAt(st, k, v)[l] = IF l = k THEN v ELSE st[l] BY DEF PutAt, Stores
<1>3. \A l \in Lists : IsInjective(PutAt(st, k, v)[l].items) BY <1>2
<1>4. QED BY <1>1, <1>3 DEF OnePlace

LEMMA ContentsIs ==
  ASSUME NEW st \in Stores, NEW k \in Lists
  PROVE  Contents(st)[k] = ToSet(st[k].items) /\ st[k] \in Values /\ st[k].items \in Seq(Nat)
         /\ ToSet(st[k].items) \in SUBSET Nat
<1>1. st[k] \in Values /\ st[k].items \in Seq(Nat) BY ValueIs DEF Stores
<1>2. QED BY <1>1, ToSetIs DEF Contents

\* Elements that leave the list of a key for no other.
LEMMA PlaceLess ==
  ASSUME NEW st \in Stores, NEW k \in Lists, NEW v \in Values, NEW G, NEW T, NEW n, OnePlace(st, G, T, n),
         IsInjective(v.items), ToSet(v.items) \subseteq ToSet(st[k].items)
  PROVE  OnePlace(PutAt(st, k, v), G, T \cup (ToSet(st[k].items) \ ToSet(v.items)), n)
<1> DEFINE L == Contents(st)
           E == ToSet(st[k].items) \ ToSet(v.items)
<1>1. L[k] = ToSet(st[k].items) /\ Splits(L, G, T, n) BY ContentsIs DEF OnePlace
<1>2. E \subseteq L[k] /\ L[k] \ E = ToSet(v.items) BY <1>1
<1> HIDE DEF E, L
<1>3. Splits([L EXCEPT ![k] = L[k] \ E], G, T \cup E, n) BY <1>1, <1>2, MoveGone
<1>4. Splits([L EXCEPT ![k] = ToSet(v.items)], G, T \cup E, n) BY <1>2, <1>3
<1>5. QED BY <1>4, PlacePut DEF OnePlace, L, E

LEMMA PlaceGiven ==
  ASSUME NEW st \in Stores, NEW k \in Lists, NEW v \in Values, NEW G, NEW T, NEW n, OnePlace(st, G, T, n),
         IsInjective(v.items), ToSet(v.items) \subseteq ToSet(st[k].items), NEW c \in Waiters
  PROVE  OnePlace(PutAt(st, k, v), [G EXCEPT ![c] = G[c] \cup (ToSet(st[k].items) \ ToSet(v.items))], T, n)
<1> DEFINE L == Contents(st)
           E == ToSet(st[k].items) \ ToSet(v.items)
<1>1. L[k] = ToSet(st[k].items) /\ Splits(L, G, T, n) BY ContentsIs DEF OnePlace
<1>2. E \subseteq L[k] /\ L[k] \ E = ToSet(v.items) BY <1>1
<1> HIDE DEF E, L
<1>3. Splits([L EXCEPT ![k] = L[k] \ E], [G EXCEPT ![c] = G[c] \cup E], T, n) BY <1>1, <1>2, MoveClient
<1>4. Splits([L EXCEPT ![k] = ToSet(v.items)], [G EXCEPT ![c] = G[c] \cup E], T, n) BY <1>2, <1>3
<1>5. QED BY <1>4, PlacePut DEF OnePlace, L, E

\* Elements that leave the list of one key for that of another.
LEMMA PlaceMoved ==
  ASSUME NEW st \in Stores, NEW k \in Lists, NEW l \in Lists, k # l, NEW v \in Values, NEW w \in Values,
         NEW G, NEW T, NEW n, OnePlace(st, G, T, n), IsInjective(v.items), IsInjective(w.items),
         ToSet(v.items) \subseteq ToSet(st[k].items),
         ToSet(w.items) = ToSet(st[l].items) \cup (ToSet(st[k].items) \ ToSet(v.items))
  PROVE  OnePlace(PutAt(PutAt(st, l, w), k, v), G, T, n)
<1> DEFINE L == Contents(st)
           E == ToSet(st[k].items) \ ToSet(v.items)
           u == PutAt(st, l, w)
<1>1. L[k] = ToSet(st[k].items) /\ L[l] = ToSet(st[l].items) /\ Splits(L, G, T, n) BY ContentsIs DEF OnePlace
<1>2. E \subseteq L[k] /\ L[k] \ E = ToSet(v.items) /\ L[l] \cup E = ToSet(w.items) BY <1>1
<1> HIDE DEF E, L
<1>3. Splits([[L EXCEPT ![l] = L[l] \cup E] EXCEPT ![k] = L[k] \ E], G, T, n) BY <1>1, <1>2, MoveList
<1>4. Splits([[L EXCEPT ![l] = ToSet(w.items)] EXCEPT ![k] = ToSet(v.items)], G, T, n) BY <1>2, <1>3
<1>5. u \in Stores /\ u[l] = w /\ \A i \in Lists : i # l => u[i] = st[i] BY PutAtIs
<1>6. Contents(u) = [L EXCEPT ![l] = ToSet(w.items)] BY ContentsPut DEF L
<1>7. \A i \in Lists : IsInjective(u[i].items) BY <1>5 DEF OnePlace
<1> HIDE DEF u
<1>8. Splits([Contents(u) EXCEPT ![k] = ToSet(v.items)], G, T, n) BY <1>4, <1>6
<1>9. OnePlace(PutAt(u, k, v), G, T, n) BY <1>5, <1>7, <1>8, PlacePut
<1>10. QED BY <1>9 DEF u

\* New elements join the list of a key.
LEMMA PlaceMore ==
  ASSUME NEW st \in Stores, NEW k \in Lists, NEW v \in Values, NEW G, NEW T, NEW n, OnePlace(st, G, T, n),
         NEW m \in Nat, IsInjective(v.items), ToSet(v.items) = ToSet(st[k].items) \cup (n + 1 .. n + m)
  PROVE  OnePlace(PutAt(st, k, v), G, T, n + m)
<1> DEFINE L == Contents(st)
           E == n + 1 .. n + m
<1>1. L[k] = ToSet(st[k].items) /\ Splits(L, G, T, n) BY ContentsIs DEF OnePlace
<1> HIDE DEF L
<1>2. Splits([L EXCEPT ![k] = L[k] \cup (n + 1 .. n + m)], G, T, n + m) BY <1>1, AddList
<1>3. Splits([L EXCEPT ![k] = ToSet(v.items)], G, T, n + m) BY <1>1, <1>2
<1>4. QED BY <1>3, PlacePut DEF OnePlace, L

\* The numbers a command gives its elements are the next ones.
Fresh(items, n) == IsInjective(items) /\ ToSet(items) = n + 1 .. n + Len(items)

LEMMA PlacePushed ==
  ASSUME NEW st \in Stores, NEW k \in Lists, NEW items \in Seq(Nat), items # <<>>, NEW where, NEW G, NEW T, NEW n,
         OnePlace(st, G, T, n), Fresh(items, n)
  PROVE  OnePlace(AfterPush(st, k, items, where), G,
                  T \cup (IF st[k].type = "string" THEN ToSet(items) ELSE {}), n + Len(items))
<1>1. Len(items) \in Nat OBVIOUS
<1>2. CASE st[k].type = "string"
  <2>1. AfterPush(st, k, items, where) = st BY <1>2 DEF AfterPush
  <2>2. Splits(Contents(st), G, T, n) BY DEF OnePlace
  <2> DEFINE m == Len(items)
  <2>3. ToSet(items) = n + 1 .. n + m BY DEF Fresh
  <2> HIDE DEF m
  <2>4. Splits(Contents(st), G, T \cup (n + 1 .. n + m), n + m) BY <1>1, <2>2, AddGone DEF m
  <2>5. QED BY <1>2, <2>1, <2>3, <2>4 DEF OnePlace, m
<1>3. CASE st[k].type # "string"
  <2> DEFINE v == PushedTo(st[k], items, where)
             old == st[k].items
             m == Len(items)
  <2>1. AfterPush(st, k, items, where) = PutAt(st, k, v) BY <1>3 DEF AfterPush
  <2>2. st[k] \in Values /\ old \in Seq(Nat) /\ Contents(st)[k] = ToSet(old) /\ IsInjective(old) BY ContentsIs DEF OnePlace
  <2>3. v \in Values /\ v.items = IF where = "head" THEN Reverse(items) \o old ELSE old \o items
        BY <1>3, <2>2, PushedIs
  <2>4. ToSet(items) = n + 1 .. n + m /\ IsInjective(items) BY DEF Fresh
  <2>5. ToSet(old) \cap ToSet(items) = {}
    <3>1. n \in Nat /\ ToSet(old) \subseteq 1 .. n
      <4>1. Splits(Contents(st), G, T, n) BY DEF OnePlace
      <4> DEFINE L == Contents(st)
      <4> HIDE DEF L
      <4>2. n \in Nat /\ L \in [Lists -> SUBSET Nat] /\ \A e \in Nat : e \in L[k] => e \in 1 .. n BY <4>1 DEF Splits, L
      <4>3. L[k] \subseteq 1 .. n BY <4>2
      <4>4. QED BY <2>2, <4>2, <4>3 DEF L
    <3> HIDE DEF old, m
    <3>2. \A e \in ToSet(items) : e \notin 1 .. n BY <2>4, <3>1
    <3>3. QED BY <3>1, <3>2
  <2>6. IsInjective(v.items) /\ ToSet(v.items) = ToSet(old) \cup ToSet(items)
    <3> DEFINE r == Reverse(items)
    <3> HIDE DEF old, v
    <3>1. r \in Seq(Nat) /\ ToSet(r) = ToSet(items) /\ IsInjective(r) BY <2>4, ReverseIs
    <3> HIDE DEF r
    <3>2. IsInjective(r \o old) /\ ToSet(r \o old) = ToSet(r) \cup ToSet(old) BY <2>2, <2>5, <3>1, JoinIs
    <3>a. old \in Seq(Nat) /\ IsInjective(old) /\ IsInjective(items) /\ ToSet(old) \cap ToSet(items) = {} BY <2>2, <2>4, <2>5
    <3>3. IsInjective(old \o items) /\ ToSet(old \o items) = ToSet(old) \cup ToSet(items) BY <3>a, JoinIs
    <3>4. v.items = IF where = "head" THEN r \o old ELSE old \o items BY <2>3 DEF r
    <3>5. QED BY <3>1, <3>2, <3>3, <3>4
  <2>7. ToSet(v.items) = ToSet(old) \cup (n + 1 .. n + m) BY <2>4, <2>6
  <2> HIDE DEF v, m
  <2>8. OnePlace(PutAt(st, k, v), G, T, n + m) BY <1>1, <2>3, <2>6, <2>7, PlaceMore DEF m
  <2>9. T \cup (IF st[k].type = "string" THEN ToSet(items) ELSE {}) = T BY <1>3
  <2>10. QED BY <2>1, <2>8, <2>9 DEF m
<1>4. QED BY <1>2, <1>3

LEMMA PopLeaves ==
  ASSUME NEW q \in Seq(Nat), q # <<>>, IsInjective(q), NEW where
  PROVE  /\ Popped(q, where) \in Seq(Nat) /\ IsInjective(Popped(q, where))
         /\ ToSet(Popped(q, where)) \subseteq ToSet(q)
         /\ ToSet(q) \ ToSet(Popped(q, where)) = {End(q, where)}
         /\ ToSet(Popped(q, where)) = ToSet(q) \ {End(q, where)} /\ End(q, where) \in ToSet(q) /\ End(q, where) \in Nat
<1>1. Head(q) \in ToSet(q) /\ IsInjective(Tail(q)) /\ ToSet(Tail(q)) = ToSet(q) \ {Head(q)} /\ Tail(q) \in Seq(Nat) /\ Head(q) \in Nat
      BY TailIs
<1>2. Last(q) \in ToSet(q) /\ IsInjective(Front(q)) /\ ToSet(Front(q)) = ToSet(q) \ {Last(q)} /\ Front(q) \in Seq(Nat) /\ Last(q) \in Nat
      BY FrontIs
<1> DEFINE f == Front(q)
           a == Last(q)
           g == Tail(q)
           b == Head(q)
<1>3. Popped(q, where) = (IF where = "head" THEN g ELSE f) /\ End(q, where) = (IF where = "head" THEN b ELSE a) BY DEF Popped, End
<1> HIDE DEF f, a, g, b
<1>4. b \in ToSet(q) /\ IsInjective(g) /\ ToSet(g) = ToSet(q) \ {b} /\ g \in Seq(Nat) /\ b \in Nat BY <1>1 DEF g, b
<1>5. a \in ToSet(q) /\ IsInjective(f) /\ ToSet(f) = ToSet(q) \ {a} /\ f \in Seq(Nat) /\ a \in Nat BY <1>2 DEF f, a
<1>6. CASE where = "head"
  <2>1. Popped(q, where) = g /\ End(q, where) = b BY <1>3, <1>6
  <2>2. ToSet(q) \ ToSet(g) = {b} BY <1>4
  <2>3. QED BY <1>4, <2>1, <2>2
<1>7. CASE where # "head"
  <2>1. Popped(q, where) = f /\ End(q, where) = a BY <1>3, <1>7
  <2>2. ToSet(q) \ ToSet(f) = {a} BY <1>5
  <2>3. QED BY <1>5, <2>1, <2>2
<1>8. QED BY <1>6, <1>7

LEMMA PlacePopped ==
  ASSUME NEW st \in Stores, NEW k \in Lists, NEW where, NEW G, NEW T, NEW n, OnePlace(st, G, T, n),
         st[k].type = "list" => st[k].items # <<>>
  PROVE  OnePlace(AfterPop(st, k, where), G,
                  T \cup (IF st[k].type # "list" THEN {} ELSE {End(st[k].items, where)}), n)
<1>1. CASE st[k].type # "list"
  <2>1. T \cup (IF st[k].type # "list" THEN {} ELSE {End(st[k].items, where)}) = T BY <1>1
  <2>2. AfterPop(st, k, where) = st BY <1>1 DEF AfterPop
  <2>3. QED BY <2>1, <2>2
<1>2. CASE st[k].type = "list"
  <2> DEFINE q == st[k].items
             r == Popped(q, where)
             e == End(q, where)
             v == List(r)
  <2>1. q \in Seq(Nat) /\ IsInjective(q) /\ q # <<>> BY <1>2, ContentsIs DEF OnePlace
  <2>2. AfterPop(st, k, where) = PutAt(st, k, v) BY <1>2 DEF AfterPop
  <2>3. r \in Seq(Nat) /\ IsInjective(r) /\ ToSet(r) \subseteq ToSet(q) /\ ToSet(q) \ ToSet(r) = {e}
    <3> HIDE DEF q
    <3>1. QED BY <2>1, PopLeaves
  <2> HIDE DEF r, e
  <2>4. v \in Values /\ v.items = r BY <2>3, ListIs
  <2> HIDE DEF v
  <2>5. OnePlace(PutAt(st, k, v), G, T \cup (ToSet(st[k].items) \ ToSet(v.items)), n) BY <2>3, <2>4, PlaceLess
  <2>6. QED BY <1>2, <2>2, <2>3, <2>4, <2>5 DEF e
<1>3. QED BY <1>1, <1>2

LEMMA PlaceTrimmed ==
  ASSUME NEW st \in Stores, NEW k \in Lists, NEW G, NEW T, NEW n, OnePlace(st, G, T, n)
  PROVE  OnePlace(AfterTrim(st, k), G,
                  T \cup (IF st[k].type # "list" THEN {} ELSE ToSet(st[k].items) \ ToSet(Trimmed(st[k].items))), n)
<1>1. CASE st[k].type # "list"
  <2>1. T \cup (IF st[k].type # "list" THEN {} ELSE ToSet(st[k].items) \ ToSet(Trimmed(st[k].items))) = T BY <1>1
  <2>2. AfterTrim(st, k) = st BY <1>1 DEF AfterTrim
  <2>3. QED BY <2>1, <2>2
<1>2. CASE st[k].type = "list"
  <2> DEFINE q == st[k].items
             r == Trimmed(q)
             v == List(r)
  <2>1. q \in Seq(Nat) /\ IsInjective(q) BY ContentsIs DEF OnePlace
  <2>2. AfterTrim(st, k) = PutAt(st, k, v) BY <1>2 DEF AfterTrim
  <2>3. r \in Seq(Nat) /\ IsInjective(r) /\ ToSet(r) \subseteq ToSet(q)
    <3> HIDE DEF q
    <3>1. QED BY <2>1, TrimmedIs
  <2> HIDE DEF r
  <2>4. v \in Values /\ v.items = r BY <2>3, ListIs
  <2> HIDE DEF v
  <2>5. OnePlace(PutAt(st, k, v), G, T \cup (ToSet(st[k].items) \ ToSet(v.items)), n) BY <2>3, <2>4, PlaceLess
  <2>6. QED BY <1>2, <2>2, <2>4, <2>5 DEF r
<1>3. QED BY <1>1, <1>2

LEMMA PlaceOverwritten ==
  ASSUME NEW st \in Stores, NEW k \in Lists, NEW v \in Values, v.items = <<>>, NEW G, NEW T, NEW n, OnePlace(st, G, T, n)
  PROVE  OnePlace(PutAt(st, k, v), G, T \cup ToSet(st[k].items), n)
<1>1. IsInjective(v.items) /\ ToSet(v.items) = {} BY EmptyIs
<1>2. OnePlace(PutAt(st, k, v), G, T \cup (ToSet(st[k].items) \ ToSet(v.items)), n) BY <1>1, PlaceLess
<1>3. ToSet(st[k].items) \ ToSet(v.items) = ToSet(st[k].items) BY <1>1
<1>4. QED BY <1>2, <1>3

LEMMA PlaceRenamed ==
  ASSUME NEW st \in Stores, NEW src \in Lists, NEW dst \in Lists, NEW G, NEW T, NEW n, OnePlace(st, G, T, n)
  PROVE  OnePlace(AfterRename(st, src, dst), G,
                  T \cup (IF src = dst \/ st[src].type = "none" THEN {} ELSE ToSet(st[dst].items)), n)
<1>1. CASE src = dst \/ st[src].type = "none"
  <2>1. T \cup (IF src = dst \/ st[src].type = "none" THEN {} ELSE ToSet(st[dst].items)) = T BY <1>1
  <2>2. AfterRename(st, src, dst) = st BY <1>1 DEF AfterRename
  <2>3. QED BY <2>1, <2>2
<1>2. CASE ~(src = dst \/ st[src].type = "none")
  <2> DEFINE v == st[src]
             u == PutAt(st, dst, Nothing)
             T2 == T \cup ToSet(st[dst].items)
  <2>1. v \in Values /\ IsInjective(v.items) BY ContentsIs DEF OnePlace
  <2>2. OnePlace(u, G, T2, n) BY ValueIs, PlaceOverwritten
  <2>3. u \in Stores /\ u[dst] = Nothing /\ u[src] = v BY <1>2, PutAtIs, ValueIs
  <2>4. ToSet(Nothing.items) = {} /\ IsInjective(Nothing.items) /\ Nothing \in Values BY ValueIs, EmptyIs
  <2>5. ToSet(v.items) = ToSet(u[dst].items) \cup (ToSet(u[src].items) \ ToSet(Nothing.items)) BY <2>3, <2>4
  <2>6. ToSet(Nothing.items) \subseteq ToSet(u[src].items) BY <2>4
  <2> HIDE DEF u, v, T2
  <2>7. OnePlace(PutAt(PutAt(u, dst, v), src, Nothing), G, T2, n) BY <1>2, <2>1, <2>2, <2>3, <2>4, <2>5, <2>6, PlaceMoved
  <2>8. PutAt(u, dst, v) = PutAt(st, dst, v) BY PutTwice DEF u
  <2>9. AfterRename(st, src, dst) = PutAt(PutAt(st, dst, v), src, Nothing) BY <1>2 DEF AfterRename, v
  <2>10. QED BY <1>2, <2>7, <2>8, <2>9 DEF T2
<1>3. QED BY <1>1, <1>2

LEMMA PlaceMovedOn ==
  ASSUME NEW st \in Stores, NEW src \in Lists, NEW dst \in Lists, NEW G, NEW T, NEW n, OnePlace(st, G, T, n),
         st[src].type = "list" => st[src].items # <<>>
  PROVE  OnePlace(AfterMove(st, src, dst), G, T, n)
<1>1. CASE st[src].type # "list" \/ st[dst].type = "string"
  <2>1. AfterMove(st, src, dst) = st BY <1>1 DEF AfterMove
  <2>2. QED BY <2>1
<1>2. CASE ~(st[src].type # "list" \/ st[dst].type = "string")
  <2> DEFINE q == st[src].items
             f == Front(q)
             e == Last(q)
             o == <<e>>
             d == st[dst]
             w == PushedTo(d, o, "head")
             v == List(IF src = dst THEN o \o f ELSE f)
  <2>1. q \in Seq(Nat) /\ IsInjective(q) /\ q # <<>> BY <1>2, ContentsIs DEF OnePlace
  <2>2. AfterMove(st, src, dst) = PutAt(PutAt(st, dst, w), src, v) BY <1>2 DEF AfterMove
  <2>3. f \in Seq(Nat) /\ IsInjective(f) /\ ToSet(f) = ToSet(q) \ {e} /\ e \in ToSet(q) /\ e \in Nat
    <3> HIDE DEF q
    <3>1. QED BY <2>1, FrontIs
  <2> HIDE DEF f, e
  <2>4. o \in Seq(Nat) /\ ToSet(o) = {e} /\ IsInjective(o) /\ o # <<>> /\ Reverse(o) = o BY <2>3, SingleIs
  <2> HIDE DEF o
  <2>5. o \o f \in Seq(Nat) /\ IsInjective(o \o f) /\ ToSet(o \o f) = ToSet(q)
    <3>1. ToSet(o) \cap ToSet(f) = {} BY <2>3, <2>4
    <3>2. o \o f \in Seq(Nat) /\ IsInjective(o \o f) /\ ToSet(o \o f) = ToSet(o) \cup ToSet(f) BY <2>3, <2>4, <3>1, JoinIs
    <3>3. QED BY <2>3, <2>4, <3>2
  <2>6. d \in Values /\ d.items \in Seq(Nat) /\ IsInjective(d.items) /\ d.type # "string" BY <1>2, ContentsIs DEF OnePlace
  <2> HIDE DEF d
  <2>7. w \in Values /\ w.items = o \o d.items
    <3>1. /\ PushedTo(d, o, "head") \in Values
          /\ PushedTo(d, o, "head").items = IF "head" = "head" THEN Reverse(o) \o d.items ELSE d.items \o o
          BY <2>4, <2>6, PushedIs
    <3>2. QED BY <2>4, <3>1
  <2>8. CASE src = dst
    <3> DEFINE r == o \o f
               x == List(r)
    <3> HIDE DEF w
    <3>1. PutAt(PutAt(st, src, w), src, x) = PutAt(st, src, x) BY PutTwice
    <3>2. AfterMove(st, src, dst) = PutAt(st, src, x) BY <2>2, <2>8, <3>1
    <3> HIDE DEF r
    <3>3. x \in Values /\ x.items = r BY <2>5, ListIs DEF r
    <3> HIDE DEF x
    <3>4. IsInjective(x.items) /\ ToSet(x.items) = ToSet(q) BY <2>5, <3>3 DEF r
    <3>5. OnePlace(PutAt(st, src, x), G, T \cup (ToSet(st[src].items) \ ToSet(x.items)), n) BY <3>3, <3>4, PlaceLess
    <3>6. T \cup (ToSet(st[src].items) \ ToSet(x.items)) = T BY <3>4
    <3>7. QED BY <3>2, <3>5, <3>6
  <2>9. CASE src # dst
    <3>1. v = List(f) BY <2>9
    <3>2. v \in Values /\ v.items = f BY <2>3, <3>1, ListIs
    <3>3. ToSet(q) \ ToSet(f) = {e} BY <2>3
    <3>4. e \notin ToSet(d.items)
      <4>1. Contents(st)[src] = ToSet(q) /\ Contents(st)[dst] = ToSet(d.items) BY ContentsIs DEF d
      <4>2. Splits(Contents(st), G, T, n) BY DEF OnePlace
      <4> DEFINE L == Contents(st)
      <4> HIDE DEF L
      <4>3. \A i, j \in Lists : \A x \in L[i] : x \in L[j] => i = j BY <4>2 DEF Splits, L
      <4>4. e \in L[src] BY <2>3, <4>1 DEF L
      <4>5. e \notin L[dst] BY <2>9, <4>3, <4>4
      <4>6. QED BY <4>1, <4>5 DEF L
    <3>5. ToSet(o) \cap ToSet(d.items) = {} BY <2>4, <3>4
    <3> DEFINE b == d.items
    <3>6. IsInjective(w.items) /\ ToSet(w.items) = ToSet(b) \cup {e}
      <4> HIDE DEF b
      <4>1. b \in Seq(Nat) /\ IsInjective(b) /\ ToSet(o) \cap ToSet(b) = {} BY <2>6, <3>5 DEF b
      <4>2. IsInjective(o \o b) /\ ToSet(o \o b) = ToSet(o) \cup ToSet(b) BY <2>4, <4>1, JoinIs
      <4>3. w.items = o \o b BY <2>7 DEF b
      <4>4. QED BY <2>4, <4>2, <4>3
    <3> HIDE DEF v, w
    <3>7. ToSet(v.items) \subseteq ToSet(st[src].items) /\ IsInjective(v.items) BY <2>3, <3>2
    <3>8. ToSet(w.items) = ToSet(st[dst].items) \cup (ToSet(st[src].items) \ ToSet(v.items)) BY <3>2, <3>3, <3>6 DEF d
    <3>9. OnePlace(PutAt(PutAt(st, dst, w), src, v), G, T, n) BY <2>7, <2>9, <3>2, <3>6, <3>7, <3>8, PlaceMoved
    <3>10. QED BY <2>2, <3>9
  <2>10. QED BY <2>8, <2>9
<1>3. QED BY <1>1, <1>2

LEMMA PlaceAfter ==
  ASSUME NEW st \in Stores, TidyStore(st), NEW c \in ListCommands, NEW G, NEW T, NEW n, OnePlace(st, G, T, n),
         Fresh(c.items, n)
  PROVE  OnePlace(StoreAfter(st, c), G, T \cup TakenBy(st, c), n + Len(c.items))
<1>0. c.key \in Lists /\ c.items \in Seq(Nat) /\ (c.name \in {"RPOPLPUSH", "RENAME"} => c.to \in Lists)
      /\ (c.name \in {"LPUSH", "RPUSH"} <=> c.items # <<>>) BY ListCommandIs
<1>t. \A k \in Lists : st[k].type = "list" => st[k].items # <<>> BY DEF TidyStore, TidyAt
<1>n. n \in Nat BY DEF OnePlace, Splits
<1>l. c.items = <<>> => n + Len(c.items) = n BY <1>n, EmptyIs
<1>p. c.items # <<>> => \A where :
         OnePlace(AfterPush(st, c.key, c.items, where), G,
                  T \cup (IF st[c.key].type = "string" THEN ToSet(c.items) ELSE {}), n + Len(c.items))
      BY <1>0, PlacePushed
<1>q. \A where : OnePlace(AfterPop(st, c.key, where), G,
                  T \cup (IF st[c.key].type # "list" THEN {} ELSE {End(st[c.key].items, where)}), n)
      BY <1>0, <1>t, PlacePopped
<1>1. CASE c.name = "LPUSH" BY <1>0, <1>1, <1>p DEF StoreAfter, TakenBy
<1>2. CASE c.name = "RPUSH" BY <1>0, <1>2, <1>p DEF StoreAfter, TakenBy
<1>3. CASE c.name = "LPOP"
  <2>1. c.items = <<>> BY <1>0, <1>3
  <2>2. OnePlace(AfterPop(st, c.key, "head"), G,
                  T \cup (IF st[c.key].type # "list" THEN {} ELSE {End(st[c.key].items, "head")}), n) BY <1>q
  <2>3. QED BY <1>3, <1>l, <2>1, <2>2 DEF StoreAfter, TakenBy, End
<1>4. CASE c.name = "RPOP"
  <2>1. c.items = <<>> BY <1>0, <1>4
  <2>2. OnePlace(AfterPop(st, c.key, "tail"), G,
                  T \cup (IF st[c.key].type # "list" THEN {} ELSE {End(st[c.key].items, "tail")}), n) BY <1>q
  <2>3. QED BY <1>4, <1>l, <2>1, <2>2 DEF StoreAfter, TakenBy, End
<1>5. CASE c.name = "RPOPLPUSH"
  <2>1. c.items = <<>> /\ c.to \in Lists BY <1>0, <1>5
  <2>2. OnePlace(AfterMove(st, c.key, c.to), G, T, n) BY <1>0, <1>t, <2>1, PlaceMovedOn
  <2>3. T \cup TakenBy(st, c) = T BY <1>5 DEF TakenBy
  <2>4. QED BY <1>5, <1>l, <2>1, <2>2, <2>3 DEF StoreAfter
<1>6. CASE c.name = "LTRIM"
  <2>1. c.items = <<>> BY <1>0, <1>6
  <2>2. OnePlace(AfterTrim(st, c.key), G,
          T \cup (IF st[c.key].type # "list" THEN {} ELSE ToSet(st[c.key].items) \ ToSet(Trimmed(st[c.key].items))), n)
        BY <1>0, PlaceTrimmed
  <2>3. QED BY <1>6, <1>l, <2>1, <2>2 DEF StoreAfter, TakenBy
<1>7. CASE c.name = "RENAME"
  <2>1. c.items = <<>> /\ c.to \in Lists BY <1>0, <1>7
  <2>2. OnePlace(AfterRename(st, c.key, c.to), G,
          T \cup (IF c.key = c.to \/ st[c.key].type = "none" THEN {} ELSE ToSet(st[c.to].items)), n)
        BY <1>0, <2>1, PlaceRenamed
  <2>3. QED BY <1>7, <1>l, <2>1, <2>2 DEF StoreAfter, TakenBy
<1>8. CASE c.name = "DEL"
  <2>1. c.items = <<>> BY <1>0, <1>8
  <2>2. OnePlace(PutAt(st, c.key, Nothing), G, T \cup ToSet(st[c.key].items), n) BY <1>0, PlaceOverwritten, ValueIs
  <2>3. QED BY <1>8, <1>l, <2>1, <2>2 DEF StoreAfter, TakenBy
<1>9. CASE c.name = "SET"
  <2>1. c.items = <<>> BY <1>0, <1>9
  <2>2. OnePlace(PutAt(st, c.key, Text), G, T \cup ToSet(st[c.key].items), n) BY <1>0, PlaceOverwritten, ValueIs
  <2>3. QED BY <1>9, <1>l, <2>1, <2>2 DEF StoreAfter, TakenBy
<1>10. QED BY <1>1, <1>2, <1>3, <1>4, <1>5, <1>6, <1>7, <1>8, <1>9, ListCommandIs

-----------------------------------------------------------------------------
(* The folds of the module: each is a chain of records *)

RunLists(base, q) == FoldLeft(ListProc, base, q)
CallAll(base, q) == FoldLeft(CallList, base, q)
UnblockAll(base, q) == FoldLeft(Unblock, base, q)
ServeAll(base, q, k) == FoldLeft(LAMBDA r, c : ServeWhileElements(r, k), base, q)
ServeAllReady(base, q) == FoldLeft(LAMBDA r, i : ServeReady(r), base, q)
LengthFrom(base, q) == FoldLeft(LAMBDA n, c : n + Len(c.items), base, q)

LEMMA ListProcTrace ==
  ASSUME NEW T, NEW base \in T, NEW E, NEW q \in Seq(E), \A t \in T, x \in E : ListProc(t, x) \in T
  PROVE  \E f : /\ Traced(f, Len(q), T, base, [i \in 1 .. Len(q) |-> [t \in T |-> ListProc(t, q[i])]])
                /\ RunLists(base, q) = f[Len(q)]
<1> DEFINE n == Len(q)
           step == [i \in 1 .. n |-> [t \in T |-> ListProc(t, q[i])]]
           Rec(g) == g = [u \in SUBSET DOMAIN q |-> IF u = {} THEN base ELSE ListProc(g[u \ {Max(u)}], q[Max(u)])]
<1>1. n \in Nat /\ DOMAIN q = 1 .. n /\ \A i \in 1 .. n : q[i] \in E OBVIOUS
<1>2. step \in [1 .. n -> [T -> T]] BY <1>1
<1> HIDE DEF n
<1>3. ASSUME NEW u \in SUBSET (1 .. n), u # {} PROVE Max(u) \in 1 .. n /\ u \ {Max(u)} \in SUBSET (1 .. n)
  <2>1. Max(u) \in u BY <1>1, <1>3, MaxOf
  <2>2. QED BY <2>1
<1>4. PICK f \in [SUBSET (1 .. n) -> T] : FoldOf(f, n, base, step)
  <2> HIDE DEF step
  <2>1. QED BY <1>1, <1>2, FoldExists
<1>5. Rec(f)
  <2>1. ASSUME NEW u \in SUBSET (1 .. n), u # {}
        PROVE  step[Max(u)][f[u \ {Max(u)}]] = ListProc(f[u \ {Max(u)}], q[Max(u)])
        BY <1>3, <1>4, <2>1
  <2> HIDE DEF step
  <2>2. QED BY <1>1, <1>4, <2>1 DEF FoldOf
<1>6. PICK g : Rec(g) /\ RunLists(base, q) = g[DOMAIN q]
  <2>1. \E g : Rec(g) BY <1>5
  <2> HIDE DEF step
  <2>2. QED BY <2>1 DEF RunLists, FoldLeft, MapThenFoldSet
<1> DEFINE G == {u \in SUBSET (1 .. n) : g[u] \in T}
<1>7. SUBSET (1 .. n) \subseteq G
  <2>1. {} \in G BY <1>1, <1>6
  <2>2. ASSUME NEW u \in SUBSET (1 .. n), u # {}, u \ {Max(u)} \in G PROVE u \in G
    <3>1. g[u] = ListProc(g[u \ {Max(u)}], q[Max(u)]) BY <1>1, <1>6, <2>2
    <3>2. Max(u) \in 1 .. n BY <1>3, <2>2
    <3>3. q[Max(u)] \in E /\ g[u \ {Max(u)}] \in T BY <1>1, <2>2, <3>2
    <3>4. QED BY <3>1, <3>3
  <2> HIDE DEF G
  <2>3. QED BY <1>1, <2>1, <2>2, SubsetsOf
<1>8. FoldOf(g, n, base, step)
  <2>1. ASSUME NEW u \in SUBSET (1 .. n), u # {}
        PROVE  step[Max(u)][g[u \ {Max(u)}]] = ListProc(g[u \ {Max(u)}], q[Max(u)])
        BY <1>3, <1>7, <2>1
  <2> HIDE DEF step
  <2>2. QED BY <1>1, <1>6, <2>1 DEF FoldOf
<1> HIDE DEF step
<1>b. base \in T OBVIOUS
<1>c. n \in Nat BY <1>1
<1>d. StepsOn(step, n, T) BY ONLY <1>2 DEF StepsOn
<1>e. HasTrace(g, n, T, base, step) BY ONLY <1>b, <1>c, <1>d, <1>8, TraceIs, Zenon
<1>9. \E f2 : Traced(f2, n, T, base, step) /\ g[1 .. n] = f2[n] BY ONLY <1>e DEF HasTrace
<1>10. QED BY <1>1, <1>6, <1>9 DEF n, step

CallSteps(T, q) == [i \in 1 .. Len(q) |-> [t \in T |-> CallList(t, q[i])]]

LEMMA CallListTrace ==
  ASSUME NEW T, NEW base \in T, NEW E, NEW q \in Seq(E), \A t \in T, x \in E : CallList(t, x) \in T
  PROVE  \E f : /\ Traced(f, Len(q), T, base, CallSteps(T, q))
                /\ CallAll(base, q) = f[Len(q)]
<1> DEFINE n == Len(q)
           step == [i \in 1 .. n |-> [t \in T |-> CallList(t, q[i])]]
           Rec(g) == g = [u \in SUBSET DOMAIN q |-> IF u = {} THEN base ELSE CallList(g[u \ {Max(u)}], q[Max(u)])]
<1>1. n \in Nat /\ DOMAIN q = 1 .. n /\ \A i \in 1 .. n : q[i] \in E OBVIOUS
<1>2. step \in [1 .. n -> [T -> T]] BY <1>1
<1> HIDE DEF n
<1>3. ASSUME NEW u \in SUBSET (1 .. n), u # {} PROVE Max(u) \in 1 .. n /\ u \ {Max(u)} \in SUBSET (1 .. n)
  <2>1. Max(u) \in u BY <1>1, <1>3, MaxOf
  <2>2. QED BY <2>1
<1>4. PICK f \in [SUBSET (1 .. n) -> T] : FoldOf(f, n, base, step)
  <2> HIDE DEF step
  <2>1. QED BY <1>1, <1>2, FoldExists
<1>5. Rec(f)
  <2>1. ASSUME NEW u \in SUBSET (1 .. n), u # {}
        PROVE  step[Max(u)][f[u \ {Max(u)}]] = CallList(f[u \ {Max(u)}], q[Max(u)])
        BY <1>3, <1>4, <2>1
  <2> HIDE DEF step
  <2>2. QED BY <1>1, <1>4, <2>1 DEF FoldOf
<1>6. PICK g : Rec(g) /\ CallAll(base, q) = g[DOMAIN q]
  <2>1. \E g : Rec(g) BY <1>5
  <2> HIDE DEF step
  <2>2. QED BY <2>1 DEF CallAll, FoldLeft, MapThenFoldSet
<1> DEFINE G == {u \in SUBSET (1 .. n) : g[u] \in T}
<1>7. SUBSET (1 .. n) \subseteq G
  <2>1. {} \in G BY <1>1, <1>6
  <2>2. ASSUME NEW u \in SUBSET (1 .. n), u # {}, u \ {Max(u)} \in G PROVE u \in G
    <3>1. g[u] = CallList(g[u \ {Max(u)}], q[Max(u)]) BY <1>1, <1>6, <2>2
    <3>2. Max(u) \in 1 .. n BY <1>3, <2>2
    <3>3. q[Max(u)] \in E /\ g[u \ {Max(u)}] \in T BY <1>1, <2>2, <3>2
    <3>4. QED BY <3>1, <3>3
  <2> HIDE DEF G
  <2>3. QED BY <1>1, <2>1, <2>2, SubsetsOf
<1>8. FoldOf(g, n, base, step)
  <2>1. ASSUME NEW u \in SUBSET (1 .. n), u # {}
        PROVE  step[Max(u)][g[u \ {Max(u)}]] = CallList(g[u \ {Max(u)}], q[Max(u)])
        BY <1>3, <1>7, <2>1
  <2> HIDE DEF step
  <2>2. QED BY <1>1, <1>6, <2>1 DEF FoldOf
<1> HIDE DEF step
<1>b. base \in T OBVIOUS
<1>c. n \in Nat BY <1>1
<1>d. StepsOn(step, n, T) BY ONLY <1>2 DEF StepsOn
<1>e. HasTrace(g, n, T, base, step) BY ONLY <1>b, <1>c, <1>d, <1>8, TraceIs, Zenon
<1>9. \E f2 : Traced(f2, n, T, base, step) /\ g[1 .. n] = f2[n] BY ONLY <1>e DEF HasTrace
<1>10. QED BY <1>1, <1>6, <1>9 DEF n, step, CallSteps

UnblockSteps(T, q) == [i \in 1 .. Len(q) |-> [t \in T |-> Unblock(t, q[i])]]

LEMMA UnblockTrace ==
  ASSUME NEW T, NEW base \in T, NEW E, NEW q \in Seq(E), \A t \in T, x \in E : Unblock(t, x) \in T
  PROVE  \E f : /\ Traced(f, Len(q), T, base, UnblockSteps(T, q))
                /\ UnblockAll(base, q) = f[Len(q)]
<1> DEFINE n == Len(q)
           step == [i \in 1 .. n |-> [t \in T |-> Unblock(t, q[i])]]
           Rec(g) == g = [u \in SUBSET DOMAIN q |-> IF u = {} THEN base ELSE Unblock(g[u \ {Max(u)}], q[Max(u)])]
<1>1. n \in Nat /\ DOMAIN q = 1 .. n /\ \A i \in 1 .. n : q[i] \in E OBVIOUS
<1>2. step \in [1 .. n -> [T -> T]] BY <1>1
<1> HIDE DEF n
<1>3. ASSUME NEW u \in SUBSET (1 .. n), u # {} PROVE Max(u) \in 1 .. n /\ u \ {Max(u)} \in SUBSET (1 .. n)
  <2>1. Max(u) \in u BY <1>1, <1>3, MaxOf
  <2>2. QED BY <2>1
<1>4. PICK f \in [SUBSET (1 .. n) -> T] : FoldOf(f, n, base, step)
  <2> HIDE DEF step
  <2>1. QED BY <1>1, <1>2, FoldExists
<1>5. Rec(f)
  <2>1. ASSUME NEW u \in SUBSET (1 .. n), u # {}
        PROVE  step[Max(u)][f[u \ {Max(u)}]] = Unblock(f[u \ {Max(u)}], q[Max(u)])
        BY <1>3, <1>4, <2>1
  <2> HIDE DEF step
  <2>2. QED BY <1>1, <1>4, <2>1 DEF FoldOf
<1>6. PICK g : Rec(g) /\ UnblockAll(base, q) = g[DOMAIN q]
  <2>1. \E g : Rec(g) BY <1>5
  <2> HIDE DEF step
  <2>2. QED BY <2>1 DEF UnblockAll, FoldLeft, MapThenFoldSet
<1> DEFINE G == {u \in SUBSET (1 .. n) : g[u] \in T}
<1>7. SUBSET (1 .. n) \subseteq G
  <2>1. {} \in G BY <1>1, <1>6
  <2>2. ASSUME NEW u \in SUBSET (1 .. n), u # {}, u \ {Max(u)} \in G PROVE u \in G
    <3>1. g[u] = Unblock(g[u \ {Max(u)}], q[Max(u)]) BY <1>1, <1>6, <2>2
    <3>2. Max(u) \in 1 .. n BY <1>3, <2>2
    <3>3. q[Max(u)] \in E /\ g[u \ {Max(u)}] \in T BY <1>1, <2>2, <3>2
    <3>4. QED BY <3>1, <3>3
  <2> HIDE DEF G
  <2>3. QED BY <1>1, <2>1, <2>2, SubsetsOf
<1>8. FoldOf(g, n, base, step)
  <2>1. ASSUME NEW u \in SUBSET (1 .. n), u # {}
        PROVE  step[Max(u)][g[u \ {Max(u)}]] = Unblock(g[u \ {Max(u)}], q[Max(u)])
        BY <1>3, <1>7, <2>1
  <2> HIDE DEF step
  <2>2. QED BY <1>1, <1>6, <2>1 DEF FoldOf
<1> HIDE DEF step
<1>b. base \in T OBVIOUS
<1>c. n \in Nat BY <1>1
<1>d. StepsOn(step, n, T) BY ONLY <1>2 DEF StepsOn
<1>e. HasTrace(g, n, T, base, step) BY ONLY <1>b, <1>c, <1>d, <1>8, TraceIs, Zenon
<1>9. \E f2 : Traced(f2, n, T, base, step) /\ g[1 .. n] = f2[n] BY ONLY <1>e DEF HasTrace
<1>10. QED BY <1>1, <1>6, <1>9 DEF n, step, UnblockSteps

ServeSteps(T, q, k) == [i \in 1 .. Len(q) |-> [t \in T |-> ServeWhileElements(t, k)]]

LEMMA ServeKeyTrace ==
  ASSUME NEW T, NEW base \in T, NEW k, NEW E, NEW q \in Seq(E), \A t \in T, x \in E : ServeWhileElements(t, k) \in T
  PROVE  \E f : /\ Traced(f, Len(q), T, base, ServeSteps(T, q, k))
                /\ ServeAll(base, q, k) = f[Len(q)]
<1> DEFINE n == Len(q)
           step == [i \in 1 .. n |-> [t \in T |-> ServeWhileElements(t, k)]]
           Rec(g) == g = [u \in SUBSET DOMAIN q |-> IF u = {} THEN base ELSE ServeWhileElements(g[u \ {Max(u)}], k)]
<1>1. n \in Nat /\ DOMAIN q = 1 .. n /\ \A i \in 1 .. n : q[i] \in E OBVIOUS
<1>2. step \in [1 .. n -> [T -> T]] BY <1>1
<1> HIDE DEF n
<1>3. ASSUME NEW u \in SUBSET (1 .. n), u # {} PROVE Max(u) \in 1 .. n /\ u \ {Max(u)} \in SUBSET (1 .. n)
  <2>1. Max(u) \in u BY <1>1, <1>3, MaxOf
  <2>2. QED BY <2>1
<1>4. PICK f \in [SUBSET (1 .. n) -> T] : FoldOf(f, n, base, step)
  <2> HIDE DEF step
  <2>1. QED BY <1>1, <1>2, FoldExists
<1>5. Rec(f)
  <2>1. ASSUME NEW u \in SUBSET (1 .. n), u # {}
        PROVE  step[Max(u)][f[u \ {Max(u)}]] = ServeWhileElements(f[u \ {Max(u)}], k)
        BY <1>3, <1>4, <2>1
  <2> HIDE DEF step
  <2>2. QED BY <1>1, <1>4, <2>1 DEF FoldOf
<1>6. PICK g : Rec(g) /\ ServeAll(base, q, k) = g[DOMAIN q]
  <2>1. \E g : Rec(g) BY <1>5
  <2> HIDE DEF step
  <2>2. QED BY <2>1 DEF ServeAll, FoldLeft, MapThenFoldSet
<1> DEFINE G == {u \in SUBSET (1 .. n) : g[u] \in T}
<1>7. SUBSET (1 .. n) \subseteq G
  <2>1. {} \in G BY <1>1, <1>6
  <2>2. ASSUME NEW u \in SUBSET (1 .. n), u # {}, u \ {Max(u)} \in G PROVE u \in G
    <3>1. g[u] = ServeWhileElements(g[u \ {Max(u)}], k) BY <1>1, <1>6, <2>2
    <3>2. Max(u) \in 1 .. n BY <1>3, <2>2
    <3>3. q[Max(u)] \in E /\ g[u \ {Max(u)}] \in T BY <1>1, <2>2, <3>2
    <3>4. QED BY <3>1, <3>3
  <2> HIDE DEF G
  <2>3. QED BY <1>1, <2>1, <2>2, SubsetsOf
<1>8. FoldOf(g, n, base, step)
  <2>1. ASSUME NEW u \in SUBSET (1 .. n), u # {}
        PROVE  step[Max(u)][g[u \ {Max(u)}]] = ServeWhileElements(g[u \ {Max(u)}], k)
        BY <1>3, <1>7, <2>1
  <2> HIDE DEF step
  <2>2. QED BY <1>1, <1>6, <2>1 DEF FoldOf
<1> HIDE DEF step
<1>b. base \in T OBVIOUS
<1>c. n \in Nat BY <1>1
<1>d. StepsOn(step, n, T) BY ONLY <1>2 DEF StepsOn
<1>e. HasTrace(g, n, T, base, step) BY ONLY <1>b, <1>c, <1>d, <1>8, TraceIs, Zenon
<1>9. \E f2 : Traced(f2, n, T, base, step) /\ g[1 .. n] = f2[n] BY ONLY <1>e DEF HasTrace
<1>10. QED BY <1>1, <1>6, <1>9 DEF n, step, ServeSteps

ReadySteps(T, q) == [i \in 1 .. Len(q) |-> [t \in T |-> ServeReady(t)]]

LEMMA ServeReadyTrace ==
  ASSUME NEW T, NEW base \in T, NEW E, NEW q \in Seq(E), \A t \in T, x \in E : ServeReady(t) \in T
  PROVE  \E f : /\ Traced(f, Len(q), T, base, ReadySteps(T, q))
                /\ ServeAllReady(base, q) = f[Len(q)]
<1> DEFINE n == Len(q)
           step == [i \in 1 .. n |-> [t \in T |-> ServeReady(t)]]
           Rec(g) == g = [u \in SUBSET DOMAIN q |-> IF u = {} THEN base ELSE ServeReady(g[u \ {Max(u)}])]
<1>1. n \in Nat /\ DOMAIN q = 1 .. n /\ \A i \in 1 .. n : q[i] \in E OBVIOUS
<1>2. step \in [1 .. n -> [T -> T]] BY <1>1
<1> HIDE DEF n
<1>3. ASSUME NEW u \in SUBSET (1 .. n), u # {} PROVE Max(u) \in 1 .. n /\ u \ {Max(u)} \in SUBSET (1 .. n)
  <2>1. Max(u) \in u BY <1>1, <1>3, MaxOf
  <2>2. QED BY <2>1
<1>4. PICK f \in [SUBSET (1 .. n) -> T] : FoldOf(f, n, base, step)
  <2> HIDE DEF step
  <2>1. QED BY <1>1, <1>2, FoldExists
<1>5. Rec(f)
  <2>1. ASSUME NEW u \in SUBSET (1 .. n), u # {}
        PROVE  step[Max(u)][f[u \ {Max(u)}]] = ServeReady(f[u \ {Max(u)}])
        BY <1>3, <1>4, <2>1
  <2> HIDE DEF step
  <2>2. QED BY <1>1, <1>4, <2>1 DEF FoldOf
<1>6. PICK g : Rec(g) /\ ServeAllReady(base, q) = g[DOMAIN q]
  <2>1. \E g : Rec(g) BY <1>5
  <2> HIDE DEF step
  <2>2. QED BY <2>1 DEF ServeAllReady, FoldLeft, MapThenFoldSet
<1> DEFINE G == {u \in SUBSET (1 .. n) : g[u] \in T}
<1>7. SUBSET (1 .. n) \subseteq G
  <2>1. {} \in G BY <1>1, <1>6
  <2>2. ASSUME NEW u \in SUBSET (1 .. n), u # {}, u \ {Max(u)} \in G PROVE u \in G
    <3>1. g[u] = ServeReady(g[u \ {Max(u)}]) BY <1>1, <1>6, <2>2
    <3>2. Max(u) \in 1 .. n BY <1>3, <2>2
    <3>3. q[Max(u)] \in E /\ g[u \ {Max(u)}] \in T BY <1>1, <2>2, <3>2
    <3>4. QED BY <3>1, <3>3
  <2> HIDE DEF G
  <2>3. QED BY <1>1, <2>1, <2>2, SubsetsOf
<1>8. FoldOf(g, n, base, step)
  <2>1. ASSUME NEW u \in SUBSET (1 .. n), u # {}
        PROVE  step[Max(u)][g[u \ {Max(u)}]] = ServeReady(g[u \ {Max(u)}])
        BY <1>3, <1>7, <2>1
  <2> HIDE DEF step
  <2>2. QED BY <1>1, <1>6, <2>1 DEF FoldOf
<1> HIDE DEF step
<1>b. base \in T OBVIOUS
<1>c. n \in Nat BY <1>1
<1>d. StepsOn(step, n, T) BY ONLY <1>2 DEF StepsOn
<1>e. HasTrace(g, n, T, base, step) BY ONLY <1>b, <1>c, <1>d, <1>8, TraceIs, Zenon
<1>9. \E f2 : Traced(f2, n, T, base, step) /\ g[1 .. n] = f2[n] BY ONLY <1>e DEF HasTrace
<1>10. QED BY <1>1, <1>6, <1>9 DEF n, step, ReadySteps

LengthSteps(T, q) == [i \in 1 .. Len(q) |-> [t \in T |-> t + Len(q[i].items)]]

LEMMA LengthTrace ==
  ASSUME NEW T, NEW base \in T, NEW E, NEW q \in Seq(E), \A t \in T, x \in E : t + Len(x.items) \in T
  PROVE  \E f : /\ Traced(f, Len(q), T, base, LengthSteps(T, q))
                /\ LengthFrom(base, q) = f[Len(q)]
<1> DEFINE n == Len(q)
           step == [i \in 1 .. n |-> [t \in T |-> t + Len(q[i].items)]]
           Rec(g) == g = [u \in SUBSET DOMAIN q |-> IF u = {} THEN base ELSE g[u \ {Max(u)}] + Len(q[Max(u)].items)]
<1>1. n \in Nat /\ DOMAIN q = 1 .. n /\ \A i \in 1 .. n : q[i] \in E OBVIOUS
<1>2. step \in [1 .. n -> [T -> T]] BY <1>1
<1> HIDE DEF n
<1>3. ASSUME NEW u \in SUBSET (1 .. n), u # {} PROVE Max(u) \in 1 .. n /\ u \ {Max(u)} \in SUBSET (1 .. n)
  <2>1. Max(u) \in u BY <1>1, <1>3, MaxOf
  <2>2. QED BY <2>1
<1>4. PICK f \in [SUBSET (1 .. n) -> T] : FoldOf(f, n, base, step)
  <2> HIDE DEF step
  <2>1. QED BY <1>1, <1>2, FoldExists
<1>5. Rec(f)
  <2>1. ASSUME NEW u \in SUBSET (1 .. n), u # {}
        PROVE  step[Max(u)][f[u \ {Max(u)}]] = f[u \ {Max(u)}] + Len(q[Max(u)].items)
        BY <1>3, <1>4, <2>1
  <2> HIDE DEF step
  <2>2. QED BY <1>1, <1>4, <2>1 DEF FoldOf
<1>6. PICK g : Rec(g) /\ LengthFrom(base, q) = g[DOMAIN q]
  <2>1. \E g : Rec(g) BY <1>5
  <2> HIDE DEF step
  <2>2. QED BY <2>1 DEF LengthFrom, FoldLeft, MapThenFoldSet
<1> DEFINE G == {u \in SUBSET (1 .. n) : g[u] \in T}
<1>7. SUBSET (1 .. n) \subseteq G
  <2>1. {} \in G BY <1>1, <1>6
  <2>2. ASSUME NEW u \in SUBSET (1 .. n), u # {}, u \ {Max(u)} \in G PROVE u \in G
    <3>1. g[u] = g[u \ {Max(u)}] + Len(q[Max(u)].items) BY <1>1, <1>6, <2>2
    <3>2. Max(u) \in 1 .. n BY <1>3, <2>2
    <3>3. q[Max(u)] \in E /\ g[u \ {Max(u)}] \in T BY <1>1, <2>2, <3>2
    <3>4. QED BY <3>1, <3>3
  <2> HIDE DEF G
  <2>3. QED BY <1>1, <2>1, <2>2, SubsetsOf
<1>8. FoldOf(g, n, base, step)
  <2>1. ASSUME NEW u \in SUBSET (1 .. n), u # {}
        PROVE  step[Max(u)][g[u \ {Max(u)}]] = g[u \ {Max(u)}] + Len(q[Max(u)].items)
        BY <1>3, <1>7, <2>1
  <2> HIDE DEF step
  <2>2. QED BY <1>1, <1>6, <2>1 DEF FoldOf
<1> HIDE DEF step
<1>b. base \in T OBVIOUS
<1>c. n \in Nat BY <1>1
<1>d. StepsOn(step, n, T) BY ONLY <1>2 DEF StepsOn
<1>e. HasTrace(g, n, T, base, step) BY ONLY <1>b, <1>c, <1>d, <1>8, TraceIs, Zenon
<1>9. \E f2 : Traced(f2, n, T, base, step) /\ g[1 .. n] = f2[n] BY ONLY <1>e DEF HasTrace
<1>10. QED BY <1>1, <1>6, <1>9 DEF n, step, LengthSteps

-----------------------------------------------------------------------------
(* What a replica makes of the propagated commands *)

BlockTypes ==
  /\ store \in Stores /\ TidyStore(store) /\ copy = store
  /\ waiting \in [Waiters -> BlockCommands \cup {NotBlocked}] /\ blocking \in [Lists -> Seq(Waiters)]
  /\ readyKeys = <<>> /\ pushed \in Nat /\ pushed <= MaxPush
  /\ served \in [Waiters -> SUBSET Nat] /\ gone \in SUBSET Nat

TidyWork == {s \in LWork : TidyStore(s.store)}

LEMMA ListStateIs ==
  ASSUME BlockTypes, NEW st \in Stores, NEW bl \in [Lists -> Seq(Waiters)]
  PROVE  /\ ListState(st, bl) \in LWork /\ ListState(st, bl).store = st /\ ListState(st, bl).blocking = bl
         /\ ListState(st, bl).ready = <<>> /\ ListState(st, bl).out = <<>> /\ ListState(st, bl).taken = {}
         /\ ListState(st, bl).waiting = waiting /\ ListState(st, bl).given = served
<1>1. waiting \in [Waiters -> BlockCommands \cup {NotBlocked}] /\ served \in [Waiters -> SUBSET Nat] BY DEF BlockTypes
<1>2. <<>> \in Seq(Lists) /\ <<>> \in Seq(ListCommands) BY EmptyIs
<1> DEFINE e == <<>>
<1>3. ListState(st, bl) = [store |-> st, blocking |-> bl, ready |-> e, out |-> e, taken |-> {}, dirty |-> FALSE,
                           waiting |-> waiting, given |-> served] BY DEF ListState
<1>4. e \in Seq(Lists) /\ e \in Seq(ListCommands) BY <1>2
<1> HIDE DEF e
<1>5. ListState(st, bl) \in LWork BY <1>1, <1>3, <1>4 DEF LWork
<1>6. QED BY <1>3, <1>5 DEF e

LEMMA TidyClosed ==
  ASSUME NEW s \in TidyWork, NEW c \in ListCommands
  PROVE  ListProc(s, c) \in TidyWork /\ ListProc(s, c).store = StoreAfter(s.store, c)
<1>1. s \in LWork /\ TidyStore(s.store) BY DEF TidyWork
<1>2. Turns(s, ListProc(s, c), StoreAfter(s.store, c), s.taken \cup TakenBy(s.store, c)) BY <1>1, ListProcIs
<1>3. s.store \in Stores BY <1>1, LWorkIs
<1>4. TidyStore(StoreAfter(s.store, c)) BY <1>1, <1>3, StoreAfterIs
<1>5. QED BY <1>2, <1>4 DEF Turns, TidyWork

CopySteps(q) == [i \in 1 .. Len(q) |-> [t \in TidyWork |-> ListProc(t, q[i])]]
CopyStart == ListState(copy, [k \in Lists |-> <<>>])

LEMMA CopyStartIs ==
  ASSUME BlockTypes
  PROVE  CopyStart \in TidyWork /\ CopyStart.store = copy
<1> DEFINE bl == [k \in Lists |-> <<>>]
<1>1. copy \in Stores /\ TidyStore(copy) BY DEF BlockTypes
<1>2. bl \in [Lists -> Seq(Waiters)] BY EmptyIs
<1> HIDE DEF bl
<1>3. ListState(copy, bl) \in LWork /\ ListState(copy, bl).store = copy BY <1>1, <1>2, ListStateIs
<1>4. QED BY <1>1, <1>3 DEF CopyStart, bl, TidyWork

LEMMA CopyTrace ==
  ASSUME BlockTypes, NEW q \in Seq(ListCommands)
  PROVE  \E f : Traced(f, Len(q), TidyWork, CopyStart, CopySteps(q)) /\ Copied(q) = f[Len(q)].store
<1>1. CopyStart \in TidyWork BY CopyStartIs
<1>2. \A t \in TidyWork, x \in ListCommands : ListProc(t, x) \in TidyWork BY TidyClosed
<1> DEFINE T == TidyWork
           b == CopyStart
           E == ListCommands
<1> HIDE DEF T, b, E
<1>3. b \in T /\ q \in Seq(E) BY <1>1 DEF T, b, E
<1>4. \A t \in T, x \in E : ListProc(t, x) \in T BY <1>2 DEF T, E
<1>5. \E f : /\ Traced(f, Len(q), T, b, [i \in 1 .. Len(q) |-> [t \in T |-> ListProc(t, q[i])]])
             /\ RunLists(b, q) = f[Len(q)] BY ONLY ZenonT(30), <1>3, <1>4, ListProcTrace
<1>6. PICK f : /\ Traced(f, Len(q), T, b, CopySteps(q)) /\ RunLists(b, q) = f[Len(q)] BY <1>5 DEF CopySteps, T
<1>7. Copied(q) = RunLists(b, q).store BY DEF Copied, RunLists, b, CopyStart
<1>8. QED BY <1>6, <1>7 DEF T, b

LEMMA CopiedNone ==
  ASSUME BlockTypes
  PROVE  Copied(<<>>) = copy
<1> DEFINE q == <<>>
<1>1. q \in Seq(ListCommands) /\ Len(q) = 0 BY EmptyIs
<1> HIDE DEF q
<1>2. PICK f : Traced(f, Len(q), TidyWork, CopyStart, CopySteps(q)) /\ Copied(q) = f[Len(q)].store BY <1>1, CopyTrace
<1>3. f[0] = CopyStart BY <1>2 DEF Traced
<1>4. QED BY <1>1, <1>2, <1>3, CopyStartIs DEF q

LEMMA CopiedAppend ==
  ASSUME BlockTypes, NEW q \in Seq(ListCommands), NEW c \in ListCommands
  PROVE  Copied(Append(q, c)) = StoreAfter(Copied(q), c)
<1> DEFINE n == Len(q)
           r == Append(q, c)
<1>1. n \in Nat /\ r \in Seq(ListCommands) /\ Len(r) = n + 1 /\ r[n + 1] = c
      /\ \A i \in 1 .. n : r[i] = q[i] /\ q[i] \in ListCommands OBVIOUS
<1>2. PICK f : Traced(f, n, TidyWork, CopyStart, CopySteps(q)) /\ Copied(q) = f[n].store BY CopyTrace
<1> HIDE DEF r
<1>3. PICK h : Traced(h, Len(r), TidyWork, CopyStart, CopySteps(r)) /\ Copied(r) = h[Len(r)].store BY <1>1, CopyTrace
<1> DEFINE S == {m \in 0 .. n : h[m] = f[m]}
<1>f. f \in [0 .. n -> TidyWork] /\ f[0] = CopyStart /\ \A m \in 1 .. n : f[m] = CopySteps(q)[m][f[m - 1]] BY <1>2 DEF Traced
<1>h. h \in [0 .. n + 1 -> TidyWork] /\ h[0] = CopyStart /\ \A m \in 1 .. n + 1 : h[m] = CopySteps(r)[m][h[m - 1]]
      BY <1>1, <1>3 DEF Traced
<1>g. /\ \A m \in 1 .. n + 1 : h[m - 1] \in TidyWork /\ h[m] = ListProc(h[m - 1], r[m])
      /\ \A m \in 1 .. n : f[m - 1] \in TidyWork /\ f[m] = ListProc(f[m - 1], q[m])
  <2> HIDE DEF n
  <2>1. \A m \in 1 .. n + 1 : m - 1 \in 0 .. n + 1 BY <1>1
  <2>2. \A m \in 1 .. n : m - 1 \in 0 .. n BY <1>1
  <2>3. CopySteps(r) = [i \in 1 .. n + 1 |-> [t \in TidyWork |-> ListProc(t, r[i])]] BY <1>1 DEF CopySteps
  <2>4. CopySteps(q) = [i \in 1 .. n |-> [t \in TidyWork |-> ListProc(t, q[i])]] BY DEF CopySteps, n
  <2>5. \A m \in 1 .. n + 1 : h[m - 1] \in TidyWork BY <1>h, <2>1
  <2>6. \A m \in 1 .. n : f[m - 1] \in TidyWork BY <1>f, <2>2
  <2>7. QED BY <1>h, <1>f, <2>3, <2>4, <2>5, <2>6
<1>4. 0 \in S BY <1>1, <1>f, <1>h
<1>5. ASSUME NEW m \in 1 .. n, m - 1 \in S PROVE m \in S
  <2> HIDE DEF n
  <2>1. m \in 1 .. n + 1 /\ m \in 0 .. n BY <1>1
  <2>2. h[m] = f[m] BY <1>1, <1>g, <1>5, <2>1
  <2>3. QED BY <2>1, <2>2
<1>6. h[n] = f[n]
  <2> HIDE DEF S, n
  <2>1. 0 .. n \subseteq S BY <1>1, <1>4, <1>5, UpTo
  <2>2. n \in 0 .. n BY <1>1
  <2>3. QED BY <2>1, <2>2 DEF S
<1>7. n + 1 \in 1 .. n + 1 /\ (n + 1) - 1 = n BY <1>1
<1> HIDE DEF n
<1>8. h[n + 1] = ListProc(f[n], c) /\ f[n] \in TidyWork
  <2>1. h[n + 1] = ListProc(h[n], r[n + 1]) /\ h[n] \in TidyWork BY <1>g, <1>7
  <2>2. QED BY <1>1, <1>6, <2>1
<1>9. ListProc(f[n], c).store = StoreAfter(f[n].store, c) BY <1>8, TidyClosed
<1>10. QED BY <1>1, <1>2, <1>3, <1>8, <1>9 DEF r, n

-----------------------------------------------------------------------------
(* The queues of the clients that wait *)

\* A client is in the queue of exactly the keys it waits for, and once.
Agree(bl, wt) ==
  \A k \in Lists : /\ IsInjective(bl[k])
                   /\ \A c \in Waiters : c \in ToSet(bl[k]) <=> k \in ToSet(wt[c].keys)

\* Nobody overtakes in a queue while a request is served.
InOrder(bl) ==
  \A k \in Lists : \A i, j \in 1 .. Len(bl[k]) : i < j => Before(bl[k][i], bl[k][j], k)

StillOrNot(wt) == \A c \in Waiters : wt[c] = waiting[c] \/ wt[c] = NotBlocked

\* Whoever was given an element no longer waits, nor does anybody before it.
FairTo(wt, given) ==
  \A d \in Waiters : given[d] # served[d] =>
     /\ wt[d] = NotBlocked
     /\ \A k \in Lists : waiting[d].keys = <<k>> => \A c \in Waiters : Before(c, d, k) => wt[c] = NotBlocked

Queues(s) ==
  Agree(s.blocking, s.waiting) /\ InOrder(s.blocking) /\ StillOrNot(s.waiting) /\ FairTo(s.waiting, s.given)

Blocked(s) == {c \in Waiters : s.waiting[c] # NotBlocked}

SameLists(s, t) ==
  t.store = s.store /\ t.ready = s.ready /\ t.out = s.out /\ t.taken = s.taken /\ t.dirty = s.dirty /\ t.given = s.given

LEMMA KeysAre ==
  /\ NotBlocked.keys = <<>> /\ ToSet(NotBlocked.keys) = {}
  /\ \A b \in BlockCommands : /\ b.keys \in Seq(Lists) /\ b.keys # <<>> /\ b.where \in {"head", "tail"}
                              /\ b.target \in Lists \cup {NoKey}
                              /\ b.target # NoKey => Len(b.keys) = 1 /\ b.where = "tail"
<1>1. NotBlocked.keys = <<>> BY DEF NotBlocked
<1>2. QED BY <1>1, EmptyIs DEF BlockCommands

LEMMA UnblockIs ==
  ASSUME NEW s \in LWork, Agree(s.blocking, s.waiting), NEW c \in Waiters, NEW t, t = Unblock(s, c)
  PROVE  /\ t \in LWork /\ SameLists(s, t)
         /\ t.waiting = [s.waiting EXCEPT ![c] = NotBlocked]
         /\ \A k \in Lists : /\ s.blocking[k] \in Seq(Waiters) /\ t.blocking[k] \in Seq(Waiters)
                             /\ RemovedFrom(s.blocking[k], t.blocking[k], c)
         /\ Agree(t.blocking, t.waiting)
         /\ \A k \in Lists : k \in ToSet(s.waiting[c].keys) => Len(t.blocking[k]) = Len(s.blocking[k]) - 1
<1>1. s.blocking \in [Lists -> Seq(Waiters)] /\ s.waiting \in [Waiters -> BlockCommands \cup {NotBlocked}] BY LWorkIs
<1> DEFINE bl == [k \in Lists |-> RemoveFirst(s.blocking[k], c)]
           wt == [s.waiting EXCEPT ![c] = NotBlocked]
<1>2. t = [s EXCEPT !.waiting = wt, !.blocking = bl] BY DEF Unblock
<1>3. \A k \in Lists : bl[k] \in Seq(Waiters) /\ RemovedFrom(s.blocking[k], bl[k], c)
  <2>1. ASSUME NEW k \in Lists PROVE bl[k] \in Seq(Waiters) /\ RemovedFrom(s.blocking[k], bl[k], c)
    <3> DEFINE q == s.blocking[k]
    <3>1. q \in Seq(Waiters) /\ IsInjective(q) BY <1>1 DEF Agree
    <3> HIDE DEF q
    <3>2. RemoveFirst(q, c) \in Seq(Waiters) /\ RemovedFrom(q, RemoveFirst(q, c), c) BY <3>1, RemoveFirstIs
    <3>3. bl[k] = RemoveFirst(q, c) BY DEF q
    <3>4. QED BY <3>2, <3>3 DEF q
  <2>2. QED BY <2>1
<1>4. bl \in [Lists -> Seq(Waiters)] /\ wt \in [Waiters -> BlockCommands \cup {NotBlocked}]
  <2>1. bl \in [Lists -> Seq(Waiters)] BY <1>3
  <2>2. QED BY <1>1, <2>1
<1>5. \A d \in Waiters : wt[d] = IF d = c THEN NotBlocked ELSE s.waiting[d] BY <1>1
<1> HIDE DEF bl, wt
<1>6. t \in LWork /\ SameLists(s, t) /\ t.waiting = wt /\ t.blocking = bl BY <1>2, <1>4 DEF LWork, SameLists
<1>7. Agree(bl, wt)
  <2>1. ASSUME NEW k \in Lists PROVE IsInjective(bl[k]) /\ \A d \in Waiters : d \in ToSet(bl[k]) <=> k \in ToSet(wt[d].keys)
    <3>1. IsInjective(bl[k]) /\ ToSet(bl[k]) = ToSet(s.blocking[k]) \ {c} BY <1>3 DEF RemovedFrom
    <3>2. \A d \in Waiters : d \in ToSet(s.blocking[k]) <=> k \in ToSet(s.waiting[d].keys) BY DEF Agree
    <3>3. k \notin ToSet(NotBlocked.keys) BY KeysAre
    <3>4. ASSUME NEW d \in Waiters PROVE d \in ToSet(bl[k]) <=> k \in ToSet(wt[d].keys)
      <4>1. CASE d = c BY <1>5, <3>1, <3>3, <4>1
      <4>2. CASE d # c
        <5>1. wt[d] = s.waiting[d] BY <1>5, <4>2
        <5>2. QED BY <3>1, <3>2, <4>2, <5>1
      <4>3. QED BY <4>1, <4>2
    <3>5. QED BY <3>1, <3>4
  <2>2. QED BY <2>1 DEF Agree
<1>8. \A k \in Lists : k \in ToSet(s.waiting[c].keys) => Len(bl[k]) = Len(s.blocking[k]) - 1
  <2>1. \A k \in Lists : k \in ToSet(s.waiting[c].keys) => c \in ToSet(s.blocking[k]) BY DEF Agree
  <2>2. QED BY <1>3, <2>1 DEF RemovedFrom
<1>9. \A k \in Lists : s.blocking[k] \in Seq(Waiters) BY <1>1
<1>10. QED BY <1>3, <1>6, <1>7, <1>8, <1>9 DEF wt

LEMMA UnblockKeeps ==
  ASSUME BlockTypes, NEW s \in LWork, Queues(s), NEW c \in Waiters, NEW t, t = Unblock(s, c)
  PROVE  Queues(t)
<1>1. /\ t.given = s.given
      /\ t.waiting = [s.waiting EXCEPT ![c] = NotBlocked]
      /\ \A k \in Lists : RemovedFrom(s.blocking[k], t.blocking[k], c)
      /\ Agree(t.blocking, t.waiting)
      BY UnblockIs DEF Queues, SameLists
<1>w. \A d \in Waiters : t.waiting[d] = IF d = c THEN NotBlocked ELSE s.waiting[d] BY <1>1, LWorkIs
<1>2. InOrder(t.blocking)
  <2>1. ASSUME NEW k \in Lists, NEW i \in 1 .. Len(t.blocking[k]), NEW j \in 1 .. Len(t.blocking[k]), i < j
        PROVE  Before(t.blocking[k][i], t.blocking[k][j], k)
    <3>1. PICK a \in 1 .. Len(s.blocking[k]) : \E b \in 1 .. Len(s.blocking[k]) :
             a < b /\ s.blocking[k][a] = t.blocking[k][i] /\ s.blocking[k][b] = t.blocking[k][j]
          BY <1>1, <2>1 DEF RemovedFrom
    <3>2. PICK b \in 1 .. Len(s.blocking[k]) :
             a < b /\ s.blocking[k][a] = t.blocking[k][i] /\ s.blocking[k][b] = t.blocking[k][j] BY <3>1
    <3>3. Before(s.blocking[k][a], s.blocking[k][b], k) BY <3>2 DEF Queues, InOrder
    <3>4. QED BY <3>2, <3>3
  <2>2. QED BY <2>1 DEF InOrder
<1>3. StillOrNot(t.waiting) BY <1>w DEF Queues, StillOrNot
<1>4. FairTo(t.waiting, t.given) BY <1>1, <1>w DEF Queues, FairTo
<1>5. QED BY <1>1, <1>2, <1>3, <1>4 DEF Queues

\* The first client of a queue may be given an element.
LEMMA HeadServed ==
  ASSUME BlockTypes, Agree(blocking, waiting), NEW s \in LWork, Queues(s), NEW k \in Lists, s.blocking[k] # <<>>,
         NEW c \in Waiters, c = Head(s.blocking[k]), NEW wt, wt = [s.waiting EXCEPT ![c] = NotBlocked],
         NEW gv, gv \in [Waiters -> SUBSET Nat], \A d \in Waiters : d # c => gv[d] = s.given[d]
  PROVE  FairTo(wt, gv)
<1>b. blocking[k] \in Seq(Waiters) /\ s.blocking[k] \in Seq(Waiters) /\ waiting \in [Waiters -> BlockCommands \cup {NotBlocked}]
      BY LWorkIs DEF BlockTypes
<1>w. \A d \in Waiters : wt[d] = IF d = c THEN NotBlocked ELSE s.waiting[d] BY LWorkIs
<1>q. \A d \in Waiters : s.waiting[d] = waiting[d] \/ s.waiting[d] = NotBlocked BY DEF Queues, StillOrNot
<1>0. s.blocking[k][1] = c /\ Len(s.blocking[k]) \in Nat /\ Len(s.blocking[k]) >= 1 /\ c \in ToSet(s.blocking[k])
  <2> DEFINE r == s.blocking[k]
  <2>1. r \in Seq(Waiters) /\ r # <<>> /\ c = Head(r) BY <1>b
  <2> HIDE DEF r
  <2>2. c \in ToSet(r) /\ r[1] = c /\ Len(r) \in Nat /\ Len(r) >= 1 BY <2>1, TailIs
  <2>3. QED BY <2>2 DEF r
<1>1. k \in ToSet(s.waiting[c].keys) /\ s.waiting[c] = waiting[c]
  <2>1. k \in ToSet(s.waiting[c].keys) BY <1>0 DEF Queues, Agree
  <2>2. QED BY <1>q, <2>1, KeysAre
<1>i. \A i, j \in 1 .. Len(blocking[k]) : blocking[k][i] = blocking[k][j] => i = j
  <2>1. IsInjective(blocking[k]) BY DEF Agree
  <2>2. QED BY <1>b, <2>1, IsInjectiveIs
<1>d. DOMAIN blocking[k] = 1 .. Len(blocking[k]) BY <1>b
<1>2. ASSUME NEW b \in Waiters, Before(b, c, k) PROVE wt[b] = NotBlocked
  <2>1. PICK x \in 1 .. Len(blocking[k]) : \E y \in 1 .. Len(blocking[k]) : x < y /\ blocking[k][x] = b /\ blocking[k][y] = c
        BY <1>d, <1>2 DEF Before
  <2>2. PICK y \in 1 .. Len(blocking[k]) : x < y /\ blocking[k][x] = b /\ blocking[k][y] = c BY <2>1
  <2>3. b # c BY <1>i, <2>2
  <2>4. SUFFICES ASSUME s.waiting[b] # NotBlocked PROVE FALSE BY <1>w
  <2>5. s.waiting[b] = waiting[b] BY <1>q, <2>4
  <2>6. b \in ToSet(blocking[k]) BY <1>b, <2>2, ToSetIs
  <2>7. k \in ToSet(waiting[b].keys) BY <2>6 DEF Agree
  <2>8. b \in ToSet(s.blocking[k]) BY <2>5, <2>7 DEF Queues, Agree
  <2>9. PICK j \in 1 .. Len(s.blocking[k]) : s.blocking[k][j] = b BY <1>b, <2>8, ToSetIs
  <2>10. j # 1 BY <1>0, <2>3, <2>9
  <2>11. 1 \in 1 .. Len(s.blocking[k]) /\ 1 < j BY <1>0, <2>9, <2>10
  <2>12. Before(c, b, k)
    <3>1. Before(s.blocking[k][1], s.blocking[k][j], k) BY <2>11 DEF Queues, InOrder
    <3>2. QED BY <1>0, <2>9, <3>1
  <2>13. PICK u \in 1 .. Len(blocking[k]) : \E v \in 1 .. Len(blocking[k]) : u < v /\ blocking[k][u] = c /\ blocking[k][v] = b
         BY <1>d, <2>12 DEF Before
  <2>14. PICK v \in 1 .. Len(blocking[k]) : u < v /\ blocking[k][u] = c /\ blocking[k][v] = b BY <2>13
  <2>15. u = y /\ v = x BY <1>i, <2>2, <2>14
  <2>16. QED BY <2>2, <2>14, <2>15
<1>3. ASSUME NEW d \in Waiters, gv[d] # served[d]
      PROVE  /\ wt[d] = NotBlocked
             /\ \A l \in Lists : waiting[d].keys = <<l>> => \A b \in Waiters : Before(b, d, l) => wt[b] = NotBlocked
  <2>1. CASE d = c
    <3>1. ASSUME NEW l \in Lists, waiting[c].keys = <<l>> PROVE l = k
      <4>1. ToSet(<<l>>) = {l} BY SingleIs
      <4>2. QED BY <1>1, <3>1, <4>1
    <3>2. QED BY <1>2, <1>w, <2>1, <3>1
  <2>2. CASE d # c
    <3>1. s.given[d] # served[d] BY <1>3, <2>2
    <3>2. /\ s.waiting[d] = NotBlocked
          /\ \A l \in Lists : waiting[d].keys = <<l>> => \A b \in Waiters : Before(b, d, l) => s.waiting[b] = NotBlocked
          BY <3>1 DEF Queues, FairTo
    <3>3. QED BY <1>w, <3>2
  <2>3. QED BY <2>1, <2>2
<1>4. QED BY <1>3 DEF FairTo

-----------------------------------------------------------------------------
(* What holds of the record while clients are served *)

\* The list of a key that is served may be empty for a while; a replica has deleted it.
Norm(st) == [k \in Lists |-> IF st[k].type = "list" THEN List(st[k].items) ELSE st[k]]

Sound(s, n) ==
  /\ s \in LWork /\ OnePlace(s.store, s.given, gone \cup s.taken, n) /\ Copied(s.out) = Norm(s.store)
  /\ Queues(s) /\ IsInjective(s.ready)

TidyBut(s, K) == \A k \in Lists \ K : TidyAt(s.store, k)
SignalledBut(s, K) ==
  \A k \in Lists \ K : s.store[k].type = "list" /\ s.blocking[k] # <<>> => k \in ToSet(s.ready)

\* Every key that is served takes one from it, every client that makes another key ready too.
Measure(s) == Len(s.ready) + Cardinality(Blocked(s))

LEMMA NormIs ==
  ASSUME NEW st \in Stores
  PROVE  /\ Norm(st) \in Stores
         /\ \A k \in Lists : /\ Norm(st)[k].items = st[k].items
                             /\ Norm(st)[k].type = "string" <=> st[k].type = "string"
                             /\ TidyAt(st, k) => Norm(st)[k] = st[k]
                             /\ st[k].type = "list" => Norm(st)[k] = List(st[k].items)
                             /\ st[k].type # "list" => Norm(st)[k] = st[k]
<1>1. \A k \in Lists : st[k] \in Values /\ st[k].items \in Seq(Nat) BY ContentsIs
<1>2. ASSUME NEW k \in Lists PROVE /\ Norm(st)[k] \in Values /\ Norm(st)[k].items = st[k].items
                                   /\ Norm(st)[k].type = "string" <=> st[k].type = "string"
                                   /\ TidyAt(st, k) => Norm(st)[k] = st[k]
                                   /\ st[k].type = "list" => Norm(st)[k] = List(st[k].items)
                                   /\ st[k].type # "list" => Norm(st)[k] = st[k]
  <2>1. CASE st[k].type = "list"
    <3>1. Norm(st)[k] = List(st[k].items) BY <2>1 DEF Norm
    <3>2. List(st[k].items) \in Values /\ List(st[k].items).items = st[k].items /\ List(st[k].items).type # "string"
          BY <1>1, ListIs
    <3>3. st[k].items # <<>> => List(st[k].items) = st[k] BY <1>1, <2>1 DEF List, Values
    <3>4. QED BY <2>1, <3>1, <3>2, <3>3 DEF TidyAt
  <2>2. CASE st[k].type # "list"
    <3>1. Norm(st)[k] = st[k] BY <2>2 DEF Norm
    <3>2. QED BY <1>1, <2>2, <3>1
  <2>3. QED BY <2>1, <2>2
<1>3. Norm(st) \in Stores BY <1>2 DEF Norm, Stores
<1>4. QED BY <1>2, <1>3

LEMMA NormTidy ==
  ASSUME NEW st \in Stores, TidyStore(st)
  PROVE  Norm(st) = st
<1>1. Norm(st) \in Stores /\ \A k \in Lists : Norm(st)[k] = st[k] BY NormIs DEF TidyStore
<1>2. QED BY <1>1 DEF Stores

LEMMA NormPut ==
  ASSUME NEW st \in Stores, NEW k \in Lists, NEW v \in Values
  PROVE  Norm(PutAt(st, k, v)) = PutAt(Norm(st), k, IF v.type = "list" THEN List(v.items) ELSE v)
<1>1. PutAt(st, k, v) \in Stores /\ \A l \in Lists : PutAt(st, k, v)[l] = IF l = k THEN v ELSE st[l] BY DEF PutAt, Stores
<1> DEFINE w == IF v.type = "list" THEN List(v.items) ELSE v
           u == PutAt(st, k, v)
<1>2. v.items \in Seq(Nat) BY ValueIs
<1>3. w \in Values BY <1>2, ListIs
<1>4. Norm(st) \in Stores /\ Norm(u) \in Stores BY <1>1, NormIs
<1>5. PutAt(Norm(st), k, w) \in Stores /\ \A l \in Lists : PutAt(Norm(st), k, w)[l] = IF l = k THEN w ELSE Norm(st)[l]
  <2> HIDE DEF w
  <2>1. QED BY <1>3, <1>4 DEF PutAt, Stores
<1>6. \A l \in Lists : Norm(u)[l] = IF l = k THEN w ELSE Norm(st)[l] BY <1>1 DEF Norm
<1> HIDE DEF w, u
<1>7. Norm(u) = PutAt(Norm(st), k, w) BY <1>4, <1>5, <1>6 DEF Stores
<1>8. QED BY <1>7 DEF w, u

\* The pop that is propagated removes what the served client got.
LEMMA PopCopied ==
  ASSUME BlockTypes, NEW s \in LWork, Copied(s.out) = Norm(s.store), NEW k \in Lists,
         s.store[k].type = "list", s.store[k].items # <<>>, NEW w \in BlockCommands,
         NEW v, v = [type |-> "list", items |-> Popped(s.store[k].items, w.where)]
  PROVE  /\ PopCommand(w, k) \in ListCommands /\ v \in Values
         /\ Copied(Append(s.out, PopCommand(w, k))) = Norm(PutAt(s.store, k, v))
<1> DEFINE c == PopCommand(w, k)
           q == s.store[k].items
           r == Popped(q, w.where)
           st == s.store
<1>1. st \in Stores /\ q \in Seq(Nat) /\ s.out \in Seq(ListCommands) BY LWorkIs, ContentsIs
<1>2. r \in Seq(Nat)
  <2> HIDE DEF q
  <2>1. q # <<>> BY DEF q
  <2>2. QED BY <1>1, <2>1, PoppedIs
<1>3. v \in Values /\ v.type = "list" /\ v.items = r
  <2> HIDE DEF r
  <2>1. v = [type |-> "list", items |-> r] BY DEF r
  <2>2. QED BY <1>2, <2>1 DEF Values
<1>4. c = [name |-> IF w.where = "head" THEN "LPOP" ELSE "RPOP", key |-> k, to |-> NoKey, items |-> <<>>]
      BY DEF PopCommand, LCmd
<1>5. c \in ListCommands
  <2>1. <<>> \in Seq(Nat) BY EmptyIs
  <2> DEFINE e == <<>>
             nm == IF w.where = "head" THEN "LPOP" ELSE "RPOP"
  <2>2. c = [name |-> nm, key |-> k, to |-> NoKey, items |-> e] /\ e \in Seq(Nat) /\ e = <<>> BY <1>4, <2>1
  <2>3. nm \in {"LPOP", "RPOP"} OBVIOUS
  <2> HIDE DEF e, c, nm
  <2>4. QED BY <2>2, <2>3 DEF ListCommands
<1>6. StoreAfter(Norm(st), c) = AfterPop(Norm(st), k, w.where)
  <2>1. c.key = k /\ c.name = IF w.where = "head" THEN "LPOP" ELSE "RPOP" BY <1>4
  <2>2. CASE w.where = "head" BY <2>1, <2>2 DEF StoreAfter
  <2>3. CASE w.where # "head"
    <3>1. w.where = "tail" BY <2>3, KeysAre
    <3>2. QED BY <2>1, <3>1 DEF StoreAfter
  <2>4. QED BY <2>2, <2>3
<1>7. AfterPop(Norm(st), k, w.where) = PutAt(Norm(st), k, List(r))
  <2>1. Norm(st)[k] = st[k] BY <1>1, NormIs DEF TidyAt
  <2>2. QED BY <2>1 DEF AfterPop
<1>8. Norm(PutAt(st, k, v)) = PutAt(Norm(st), k, List(r))
  <2> HIDE DEF r
  <2>1. Norm(PutAt(st, k, v)) = PutAt(Norm(st), k, IF v.type = "list" THEN List(v.items) ELSE v) BY <1>1, <1>3, NormPut
  <2>2. QED BY <1>3, <2>1
<1> HIDE DEF c
<1>9. Copied(Append(s.out, c)) = StoreAfter(Norm(st), c) BY <1>1, <1>5, CopiedAppend
<1>10. QED BY <1>3, <1>5, <1>6, <1>7, <1>8, <1>9 DEF c

LEMMA PushCopied ==
  ASSUME BlockTypes, NEW out \in Seq(ListCommands), NEW st \in Stores, Copied(out) = Norm(st),
         NEW l \in Lists, st[l].type # "string", NEW e \in Nat
  PROVE  /\ LCmd("LPUSH", l, NoKey, <<e>>) \in ListCommands
         /\ Copied(Append(out, LCmd("LPUSH", l, NoKey, <<e>>))) = Norm(PutAt(st, l, PushedTo(st[l], <<e>>, "head")))
<1> DEFINE o == <<e>>
           c == LCmd("LPUSH", l, NoKey, o)
           v == PushedTo(st[l], o, "head")
<1>1. o \in Seq(Nat) /\ o # <<>> BY SingleIs
<1> HIDE DEF o
<1>2. c = [name |-> "LPUSH", key |-> l, to |-> NoKey, items |-> o] BY DEF LCmd
<1>3. c \in ListCommands
  <2> HIDE DEF c
  <2>1. QED BY <1>1, <1>2 DEF ListCommands
<1>4. st[l] \in Values /\ st[l].items \in Seq(Nat) BY ContentsIs
<1>5. v \in Values /\ v.type = "list" /\ v.items # <<>> BY <1>1, <1>4, PushedIs
<1>6. Norm(PutAt(st, l, v)) = PutAt(Norm(st), l, v)
  <2>1. List(v.items) = v BY <1>5 DEF List, Values
  <2> HIDE DEF v
  <2>2. Norm(PutAt(st, l, v)) = PutAt(Norm(st), l, IF v.type = "list" THEN List(v.items) ELSE v) BY <1>5, NormPut
  <2>3. QED BY <1>5, <2>1, <2>2
<1>7. Norm(st)[l].items = st[l].items /\ Norm(st)[l].type # "string" BY NormIs
<1>8. PushedTo(Norm(st)[l], o, "head") = v BY <1>7 DEF PushedTo
<1>9. StoreAfter(Norm(st), c) = PutAt(Norm(st), l, v)
  <2>1. StoreAfter(Norm(st), c) = AfterPush(Norm(st), l, o, "head") BY <1>2 DEF StoreAfter
  <2>2. QED BY <1>7, <1>8, <2>1 DEF AfterPush
<1> HIDE DEF c, v
<1>10. Copied(Append(out, c)) = StoreAfter(Norm(st), c) BY <1>3, CopiedAppend
<1>11. QED BY <1>3, <1>6, <1>9, <1>10 DEF c, v, o

LEMMA BlockedIs ==
  ASSUME BlockingAssumption, NEW s \in LWork, NEW c \in Waiters
  PROVE  /\ IsFiniteSet(Blocked(s)) /\ Cardinality(Blocked(s)) \in Nat
         /\ \A t : t.waiting = [s.waiting EXCEPT ![c] = NotBlocked] =>
              /\ Cardinality(Blocked(t)) \in Nat
              /\ Cardinality(Blocked(t)) = IF s.waiting[c] # NotBlocked THEN Cardinality(Blocked(s)) - 1
                                           ELSE Cardinality(Blocked(s))
<1>1. IsFiniteSet(Waiters) BY DEF BlockingAssumption
<1>2. IsFiniteSet(Blocked(s)) BY <1>1, FS_Subset DEF Blocked
<1>3. Cardinality(Blocked(s)) \in Nat BY <1>2, FS_CardinalityType
<1>4. ASSUME NEW t, t.waiting = [s.waiting EXCEPT ![c] = NotBlocked] PROVE Blocked(t) = Blocked(s) \ {c}
  <2>1. \A d \in Waiters : t.waiting[d] = IF d = c THEN NotBlocked ELSE s.waiting[d] BY <1>4, LWorkIs
  <2>2. QED BY <2>1 DEF Blocked
<1>5. IsFiniteSet(Blocked(s) \ {c})
      /\ Cardinality(Blocked(s) \ {c}) = IF c \in Blocked(s) THEN Cardinality(Blocked(s)) - 1 ELSE Cardinality(Blocked(s))
      BY <1>2, FS_RemoveElement
<1>6. Cardinality(Blocked(s) \ {c}) \in Nat BY <1>5, FS_CardinalityType
<1>7. c \in Blocked(s) <=> s.waiting[c] # NotBlocked BY DEF Blocked
<1>8. QED BY <1>2, <1>3, <1>4, <1>5, <1>6, <1>7

LEMMA ReadyGrows ==
  ASSUME NEW s \in LWork, NEW t \in LWork, Signals(s, t), IsInjective(s.ready)
  PROVE  /\ IsInjective(t.ready) /\ ToSet(s.ready) \subseteq ToSet(t.ready) /\ Len(t.ready) <= Len(s.ready) + 1
         /\ Len(s.ready) \in Nat /\ Len(t.ready) \in Nat
<1>1. s.ready \in Seq(Lists) /\ t.ready \in Seq(Lists) BY LWorkIs
<1>2. Len(s.ready) \in Nat /\ Len(t.ready) \in Nat BY <1>1
<1>3. CASE t.ready = s.ready BY <1>2, <1>3
<1>4. ASSUME NEW k \in Lists, k \notin ToSet(s.ready), t.ready = Append(s.ready, k)
      PROVE  IsInjective(t.ready) /\ ToSet(s.ready) \subseteq ToSet(t.ready) /\ Len(t.ready) = Len(s.ready) + 1
      BY <1>1, <1>4, AppendIs
<1>5. QED BY <1>2, <1>3, <1>4 DEF Signals

\* A client is unblocked: nothing else changes.
OnlyFreed(s, t, c, n, K) ==
  /\ Sound(t, n) /\ (TidyBut(s, K) => TidyBut(t, K)) /\ (SignalledBut(s, K) => SignalledBut(t, K))
  /\ SameLists(s, t) /\ t.waiting = [s.waiting EXCEPT ![c] = NotBlocked]
  /\ \A k \in Lists : k \in ToSet(s.waiting[c].keys) => Len(t.blocking[k]) = Len(s.blocking[k]) - 1
  /\ \A k \in Lists : t.blocking[k] # <<>> => s.blocking[k] # <<>>
  /\ Measure(s) \in Nat /\ Measure(t) \in Nat
  /\ Measure(t) = IF s.waiting[c] # NotBlocked THEN Measure(s) - 1 ELSE Measure(s)

LEMMA UnblockSound ==
  ASSUME BlockTypes, BlockingAssumption, NEW n, NEW s, Sound(s, n), NEW c \in Waiters, NEW t, t = Unblock(s, c), NEW K
  PROVE  OnlyFreed(s, t, c, n, K)
<1>0. s \in LWork /\ Agree(s.blocking, s.waiting) BY DEF Sound, Queues
<1>1. /\ t \in LWork /\ SameLists(s, t)
      /\ t.waiting = [s.waiting EXCEPT ![c] = NotBlocked]
      /\ \A k \in Lists : /\ s.blocking[k] \in Seq(Waiters) /\ t.blocking[k] \in Seq(Waiters)
                          /\ RemovedFrom(s.blocking[k], t.blocking[k], c)
      /\ \A k \in Lists : k \in ToSet(s.waiting[c].keys) => Len(t.blocking[k]) = Len(s.blocking[k]) - 1
      BY <1>0, UnblockIs
<1>2. Queues(t) BY <1>0, UnblockKeeps DEF Sound
<1>3. \A k \in Lists : t.blocking[k] # <<>> => s.blocking[k] # <<>>
  <2>1. ASSUME NEW k \in Lists, s.blocking[k] = <<>> PROVE t.blocking[k] = <<>>
    <3>1. ToSet(s.blocking[k]) = {} BY <2>1, EmptyIs
    <3>2. ToSet(t.blocking[k]) = {} BY <1>1, <3>1 DEF RemovedFrom
    <3>3. QED BY <1>1, <3>2, ToSetIs
  <2>2. QED BY <2>1
<1>4. Sound(t, n) BY <1>1, <1>2 DEF Sound, SameLists
<1>5. TidyBut(s, K) => TidyBut(t, K) BY <1>1 DEF TidyBut, SameLists
<1>6. SignalledBut(s, K) => SignalledBut(t, K) BY <1>1, <1>3 DEF SignalledBut, SameLists
<1>7. Cardinality(Blocked(s)) \in Nat /\ Cardinality(Blocked(t)) \in Nat
      /\ Cardinality(Blocked(t)) = IF s.waiting[c] # NotBlocked THEN Cardinality(Blocked(s)) - 1 ELSE Cardinality(Blocked(s))
      BY <1>0, <1>1, BlockedIs
<1>8. Len(s.ready) \in Nat /\ t.ready = s.ready BY <1>0, <1>1, LWorkIs DEF SameLists
<1>9. Measure(s) \in Nat /\ Measure(t) \in Nat
      /\ Measure(t) = IF s.waiting[c] # NotBlocked THEN Measure(s) - 1 ELSE Measure(s) BY <1>7, <1>8 DEF Measure
<1>10. QED BY <1>1, <1>3, <1>4, <1>5, <1>6, <1>9 DEF OnlyFreed

LEMMA PutSwap ==
  ASSUME NEW st \in Stores, NEW k \in Lists, NEW l \in Lists, k # l, NEW v \in Values, NEW w \in Values
  PROVE  PutAt(PutAt(st, k, v), l, w) = PutAt(PutAt(st, l, w), k, v)
BY DEF PutAt, Stores

\* What Serve works on: the client is the first in the queue of a key that holds elements.
MayServe(s, n, k, c) ==
  /\ Sound(s, n) /\ k \in Lists /\ TidyBut(s, {k}) /\ SignalledBut(s, {k})
  /\ s.store[k].type = "list" /\ s.store[k].items # <<>> /\ s.blocking[k] # <<>> /\ c = Head(s.blocking[k])

\* What it leaves, for any way of serving.
ServedOne(s, t, n, k) ==
  /\ Sound(t, n) /\ TidyBut(t, {k}) /\ SignalledBut(t, {k}) /\ t.store[k].type = "list"
  /\ Len(t.blocking[k]) = Len(s.blocking[k]) - 1 /\ Measure(t) \in Nat /\ Measure(t) <= Measure(s)

LEMMA ServingIs ==
  ASSUME BlockTypes, NEW s, NEW n, NEW k, NEW c, MayServe(s, n, k, c)
  PROVE  /\ s \in LWork /\ k \in Lists /\ c \in Waiters /\ s.waiting[c] \in BlockCommands /\ s.waiting[c] # NotBlocked
         /\ k \in ToSet(s.waiting[c].keys) /\ s.store[k] \in Values /\ s.store[k].items \in Seq(Nat)
         /\ IsInjective(s.store[k].items) /\ s.store \in Stores /\ s.given \in [Waiters -> SUBSET Nat]
         /\ s.out \in Seq(ListCommands) /\ Agree(s.blocking, s.waiting)
<1>1. s \in LWork /\ k \in Lists BY DEF MayServe, Sound
<1>2. s.blocking[k] \in Seq(Waiters) /\ s.blocking[k] # <<>> /\ c = Head(s.blocking[k]) BY <1>1, LWorkIs DEF MayServe
<1>3. c \in Waiters /\ c \in ToSet(s.blocking[k])
  <2> DEFINE q == s.blocking[k]
  <2> HIDE DEF q
  <2>1. q \in Seq(Waiters) /\ q # <<>> /\ c = Head(q) BY <1>2 DEF q
  <2>2. c \in Waiters /\ c \in ToSet(q) BY <2>1, TailIs
  <2>3. QED BY <2>2 DEF q
<1>4. Agree(s.blocking, s.waiting) BY DEF MayServe, Sound, Queues
<1>5. k \in ToSet(s.waiting[c].keys) BY <1>1, <1>3, <1>4 DEF Agree
<1>6. s.waiting[c] # NotBlocked BY <1>5, KeysAre
<1>7. s.waiting[c] \in BlockCommands BY <1>1, <1>3, <1>6, LWorkIs
<1>8. s.store[k] \in Values /\ s.store[k].items \in Seq(Nat) BY <1>1, LWorkIs, ContentsIs
<1>9. IsInjective(s.store[k].items) BY <1>1 DEF MayServe, Sound, OnePlace
<1>10. QED BY <1>1, <1>3, <1>4, <1>5, <1>6, <1>7, <1>8, <1>9, LWorkIs

\* The element goes to the client.
LEMMA ServeClient ==
  ASSUME BlockTypes, BlockingAssumption, Agree(blocking, waiting), NEW s, NEW n, NEW k, NEW c, MayServe(s, n, k, c),
         s.waiting[c].target = NoKey
  PROVE  ServedOne(s, Serve(s, k, c), n, k)
<1> DEFINE w == s.waiting[c]
           items == s.store[k].items
           e == End(items, w.where)
           r == Popped(items, w.where)
           v == [type |-> "list", items |-> r]
           u == Unblock(s, c)
           pop == PopCommand(w, k)
           gv == [s.given EXCEPT ![c] = s.given[c] \cup {e}]
           ot == Append(s.out, pop)
           st == PutAt(s.store, k, v)
           t == Serve(s, k, c)
<1>0. /\ s \in LWork /\ k \in Lists /\ c \in Waiters /\ w \in BlockCommands /\ w # NotBlocked
      /\ k \in ToSet(w.keys) /\ s.store[k] \in Values /\ items \in Seq(Nat)
      /\ IsInjective(items) /\ s.store \in Stores /\ s.given \in [Waiters -> SUBSET Nat]
      /\ s.out \in Seq(ListCommands) BY ServingIs
<1>s. Sound(s, n) /\ items # <<>> /\ s.store[k].type = "list" BY DEF MayServe
<1>1. /\ Sound(u, n) /\ TidyBut(u, {k}) /\ SignalledBut(u, {k})
      /\ SameLists(s, u) /\ u.waiting = [s.waiting EXCEPT ![c] = NotBlocked]
      /\ Len(u.blocking[k]) = Len(s.blocking[k]) - 1
      /\ Measure(s) \in Nat /\ Measure(u) \in Nat /\ Measure(u) = Measure(s) - 1
  <2> HIDE DEF u
  <2>1. u = Unblock(s, c) BY DEF u
  <2>2. TidyBut(s, {k}) /\ SignalledBut(s, {k}) BY DEF MayServe
  <2> DEFINE K == {k}
  <2> HIDE DEF K
  <2>3. OnlyFreed(s, u, c, n, K) BY <1>0, <1>s, <2>1, UnblockSound
  <2>4. QED BY <1>0, <2>2, <2>3 DEF K, OnlyFreed
<1>p. r \in Seq(Nat) /\ IsInjective(r) /\ ToSet(r) \subseteq ToSet(items) /\ ToSet(items) \ ToSet(r) = {e} /\ e \in Nat
  <2> HIDE DEF items
  <2>1. QED BY <1>0, <1>s, PopLeaves
<1>2. t = [[u EXCEPT !.store[k].items = Popped(items, w.where)] EXCEPT !.out = Append(@, pop), !.given[c] = @ \cup {e}]
      BY DEF Serve
<1> HIDE DEF u, r, e, pop
<1>3. u \in LWork /\ u.store = s.store /\ u.out = s.out /\ u.given = s.given /\ u.ready = s.ready /\ u.taken = s.taken
      BY <1>1 DEF Sound, SameLists
<1>4. [s.store[k] EXCEPT !.items = r] = v BY <1>0, <1>s DEF Values
<1>5. t = [u EXCEPT !.store = st, !.out = ot, !.given = gv]
  <2>1. t = [u EXCEPT !.store[k].items = r, !.out = Append(@, pop), !.given[c] = @ \cup {e}] BY <1>2 DEF r
  <2>2. [u.store EXCEPT ![k].items = r] = st BY <1>0, <1>3, <1>4 DEF PutAt, Stores
  <2> HIDE DEF st, v, t
  <2>3. t = [u EXCEPT !.store = [u.store EXCEPT ![k].items = r], !.out = Append(u.out, pop),
                     !.given = [u.given EXCEPT ![c] = u.given[c] \cup {e}]] BY <2>1
  <2>4. QED BY <1>3, <2>2, <2>3
<1>6. pop \in ListCommands /\ v \in Values /\ Copied(ot) = Norm(st)
  <2> HIDE DEF v
  <2>1. v = [type |-> "list", items |-> Popped(s.store[k].items, w.where)] BY DEF v, r
  <2>2. Copied(s.out) = Norm(s.store) BY <1>s DEF Sound
  <2>3. PopCommand(w, k) \in ListCommands /\ v \in Values
        /\ Copied(Append(s.out, PopCommand(w, k))) = Norm(PutAt(s.store, k, v)) BY <1>0, <1>s, <2>1, <2>2, PopCopied
  <2>4. QED BY <2>3 DEF pop
<1>7. st \in Stores /\ (\A l \in Lists : st[l] = IF l = k THEN v ELSE s.store[l])
  <2> HIDE DEF v
  <2>1. QED BY <1>0, <1>6 DEF PutAt, Stores
<1>8. ot \in Seq(ListCommands) BY <1>0, <1>6, AppendIs
<1>9. gv \in [Waiters -> SUBSET Nat] /\ \A d \in Waiters : d # c => gv[d] = s.given[d] BY <1>0, <1>p
<1>10. OnePlace(st, gv, gone \cup s.taken, n)
  <2> DEFINE T == gone \cup s.taken
  <2> HIDE DEF T
  <2>1. OnePlace(s.store, s.given, T, n) BY <1>s DEF Sound, T
  <2>2. v.items = r OBVIOUS
  <2> HIDE DEF v
  <2>3. OnePlace(PutAt(s.store, k, v), [s.given EXCEPT ![c] = s.given[c] \cup (ToSet(s.store[k].items) \ ToSet(v.items))], T, n)
        BY <1>0, <1>6, <1>p, <2>1, <2>2, PlaceGiven
  <2>4. ToSet(s.store[k].items) \ ToSet(v.items) = {e} BY <1>p, <2>2
  <2>5. QED BY <2>3, <2>4 DEF T
<1> HIDE DEF t
<1>11. /\ t \in LWork /\ t.store = st /\ t.out = ot /\ t.given = gv /\ t.blocking = u.blocking /\ t.waiting = u.waiting
       /\ t.ready = s.ready /\ t.taken = s.taken
  <2> HIDE DEF st, ot, gv
  <2>1. t \in LWork /\ t.store = st /\ t.out = ot /\ t.given = gv /\ t.blocking = u.blocking /\ t.waiting = u.waiting
        /\ t.ready = u.ready /\ t.taken = u.taken
        BY <1>3, <1>5, <1>7, <1>8, <1>9 DEF LWork
  <2>2. QED BY <1>3, <2>1
<1>12. Queues(t)
  <2>1. Queues(u) BY <1>1 DEF Sound
  <2>2. Queues(s) /\ s.blocking[k] # <<>> /\ c = Head(s.blocking[k]) BY <1>s DEF Sound, MayServe
  <2> DEFINE wt == [s.waiting EXCEPT ![c] = NotBlocked]
  <2> HIDE DEF wt, gv
  <2>3. wt = [s.waiting EXCEPT ![c] = NotBlocked] BY DEF wt
  <2>4. FairTo(wt, gv)
    <3>1. BlockTypes /\ Agree(blocking, waiting) /\ s \in LWork /\ k \in Lists /\ c \in Waiters BY <1>0
    <3>2. QED BY ONLY <1>9, <2>2, <2>3, <3>1, HeadServed
  <2>5. t.waiting = wt BY <1>1, <1>11 DEF wt
  <2>6. QED BY <1>11, <2>1, <2>4, <2>5 DEF Queues
<1> HIDE DEF st, ot, gv, v
<1>13. Sound(t, n) BY <1>s, <1>6, <1>10, <1>11, <1>12 DEF Sound
<1>14. TidyBut(t, {k}) BY <1>1, <1>3, <1>7, <1>11 DEF TidyBut, TidyAt
<1>15. SignalledBut(t, {k}) BY <1>1, <1>3, <1>7, <1>11 DEF SignalledBut
<1>16. t.store[k].type = "list" BY <1>0, <1>7, <1>11 DEF v
<1>17. Measure(t) = Measure(u) BY <1>3, <1>11 DEF Measure, Blocked
<1>18. QED BY <1>1, <1>11, <1>13, <1>14, <1>15, <1>16, <1>17 DEF ServedOne, t

\* The pop is undone when the target holds another type: the client is only unblocked.
LEMMA ServeBack ==
  ASSUME BlockTypes, BlockingAssumption, NEW s, NEW n, NEW k, NEW c, MayServe(s, n, k, c),
         s.waiting[c].target # NoKey, s.store[s.waiting[c].target].type = "string"
  PROVE  ServedOne(s, Serve(s, k, c), n, k)
<1> DEFINE t == Serve(s, k, c)
           K == {k}
<1>1. t = Unblock(s, c) BY DEF Serve, PutBack
<1> HIDE DEF t, K
<1>2. c \in Waiters /\ k \in Lists /\ s.waiting[c] # NotBlocked /\ k \in ToSet(s.waiting[c].keys) BY SMTT(30), ServingIs
<1>3. Sound(s, n) /\ TidyBut(s, K) /\ SignalledBut(s, K) /\ s.store[k].type = "list" BY DEF MayServe, K
<1>4. OnlyFreed(s, t, c, n, K) BY <1>1, <1>2, <1>3, UnblockSound
<1>5. /\ Sound(t, n) /\ TidyBut(t, K) /\ SignalledBut(t, K) /\ t.store = s.store
      /\ Len(t.blocking[k]) = Len(s.blocking[k]) - 1
      /\ Measure(s) \in Nat /\ Measure(t) \in Nat /\ Measure(t) = Measure(s) - 1
      BY <1>2, <1>3, <1>4 DEF OnlyFreed, SameLists
<1>6. QED BY <1>3, <1>5 DEF ServedOne, t, K

\* The element of a served BRPOPLPUSH moves to the head of the target.
LEMMA PlaceHanded ==
  ASSUME NEW st \in Stores, NEW k \in Lists, NEW l \in Lists, NEW G, NEW T, NEW n, OnePlace(st, G, T, n),
         st[k].type = "list", st[k].items # <<>>, st[l].type # "string", NEW where,
         NEW v, v = [type |-> "list", items |-> Popped(st[k].items, where)],
         NEW p, p = PutAt(st, k, v), NEW e, e = End(st[k].items, where)
  PROVE  /\ v \in Values /\ p \in Stores /\ p[l].type # "string" /\ e \in Nat
         /\ OnePlace(PutAt(p, l, PushedTo(p[l], <<e>>, "head")), G, T, n)
<1> DEFINE q == st[k].items
           r == Popped(q, where)
           o == <<e>>
           d == p[l]
           w == PushedTo(d, o, "head")
<1>1. q \in Seq(Nat) /\ IsInjective(q) /\ q # <<>> BY ContentsIs DEF OnePlace
<1>2. /\ r \in Seq(Nat) /\ IsInjective(r) /\ ToSet(r) \subseteq ToSet(q) /\ ToSet(q) \ ToSet(r) = {e}
      /\ ToSet(r) = ToSet(q) \ {e} /\ e \in ToSet(q) /\ e \in Nat
  <2> HIDE DEF q
  <2>1. e = End(q, where) BY DEF q
  <2>2. QED BY <1>1, <2>1, PopLeaves
<1> HIDE DEF r
<1>3. v = [type |-> "list", items |-> r] BY DEF r
<1>4. v \in Values /\ v.type = "list" /\ v.items = r BY <1>2, <1>3 DEF Values
<1>5. o \in Seq(Nat) /\ ToSet(o) = {e} /\ IsInjective(o) /\ o # <<>> /\ Reverse(o) = o BY <1>2, SingleIs
<1> HIDE DEF o, q
<1>6. p \in Stores /\ p[k] = v /\ \A i \in Lists : i # k => p[i] = st[i] BY <1>4, PutAtIs
<1>7. d \in Values /\ d.items \in Seq(Nat) /\ IsInjective(d.items) /\ d.type # "string" /\ e \notin ToSet(d.items)
  <2>1. CASE l = k
    <3>1. d = v BY <1>6, <2>1
    <3>2. QED BY <1>2, <1>4, <3>1
  <2>2. CASE l # k
    <3>1. d = st[l] BY <1>6, <2>2
    <3>2. st[l] \in Values /\ st[l].items \in Seq(Nat) /\ IsInjective(st[l].items) BY ContentsIs DEF OnePlace
    <3>3. Contents(st)[k] = ToSet(q) /\ Contents(st)[l] = ToSet(st[l].items) BY ContentsIs DEF q
    <3>4. Splits(Contents(st), G, T, n) BY DEF OnePlace
    <3> DEFINE L == Contents(st)
    <3> HIDE DEF L
    <3>5. \A i, j \in Lists : \A x \in L[i] : x \in L[j] => i = j BY <3>4 DEF Splits, L
    <3>6. e \in L[k] BY <1>2, <3>3 DEF L
    <3>7. e \notin L[l] BY <2>2, <3>5, <3>6
    <3>8. QED BY <3>1, <3>2, <3>3, <3>7 DEF L
  <2>3. QED BY <2>1, <2>2
<1> HIDE DEF d
<1>8. w \in Values /\ w.items = o \o d.items
  <2>1. /\ PushedTo(d, o, "head") \in Values
        /\ PushedTo(d, o, "head").items = IF "head" = "head" THEN Reverse(o) \o d.items ELSE d.items \o o
        BY <1>5, <1>7, PushedIs
  <2>2. QED BY <1>5, <2>1
<1>9. IsInjective(w.items) /\ ToSet(w.items) = ToSet(d.items) \cup {e}
  <2> DEFINE b == d.items
  <2> HIDE DEF b
  <2>1. b \in Seq(Nat) /\ IsInjective(b) /\ ToSet(o) \cap ToSet(b) = {} BY <1>5, <1>7 DEF b
  <2>2. IsInjective(o \o b) /\ ToSet(o \o b) = ToSet(o) \cup ToSet(b) BY <1>5, <2>1, JoinIs
  <2>3. w.items = o \o b BY <1>8 DEF b
  <2>4. QED BY <1>5, <2>2, <2>3 DEF b
<1> HIDE DEF w
<1>10. OnePlace(PutAt(p, l, w), G, T, n)
  <2>1. CASE l = k
    <3>1. PutAt(p, l, w) = PutAt(st, k, w) BY <2>1, PutTwice
    <3>2. ToSet(w.items) = ToSet(st[k].items) BY <1>2, <1>4, <1>6, <1>9, <2>1 DEF d, q
    <3>3. OnePlace(PutAt(st, k, w), G, T \cup (ToSet(st[k].items) \ ToSet(w.items)), n) BY <1>8, <1>9, <3>2, PlaceLess
    <3>4. T \cup (ToSet(st[k].items) \ ToSet(w.items)) = T BY <3>2
    <3>5. QED BY <3>1, <3>3, <3>4
  <2>2. CASE l # k
    <3>1. PutAt(p, l, w) = PutAt(PutAt(st, l, w), k, v) BY <1>4, <1>8, <2>2, PutSwap
    <3>2. d = st[l] BY <1>6, <2>2 DEF d
    <3>3. ToSet(v.items) \subseteq ToSet(st[k].items) /\ IsInjective(v.items) BY <1>2, <1>4 DEF q
    <3>4. ToSet(w.items) = ToSet(st[l].items) \cup (ToSet(st[k].items) \ ToSet(v.items)) BY <1>2, <1>4, <1>9, <3>2 DEF q
    <3>5. OnePlace(PutAt(PutAt(st, l, w), k, v), G, T, n) BY <1>4, <1>8, <1>9, <2>2, <3>3, <3>4, PlaceMoved
    <3>6. QED BY <3>1, <3>5
  <2>3. QED BY <2>1, <2>2
<1>11. QED BY <1>2, <1>4, <1>6, <1>7, <1>10 DEF d, w, o

LEMMA TwoMore ==
  ASSUME NEW S, NEW q \in Seq(S), NEW a \in S, NEW b \in S
  PROVE  q \o <<a, b>> = Append(Append(q, a), b) /\ Append(Append(q, a), b) \in Seq(S)
OBVIOUS

\* BRPOPLPUSH: the element moves to the target, which may make another client's key ready.
LEMMA ServeMove ==
  ASSUME BlockTypes, BlockingAssumption, NEW s, NEW n, NEW k, NEW c, MayServe(s, n, k, c),
         s.waiting[c].target # NoKey, s.store[s.waiting[c].target].type # "string"
  PROVE  ServedOne(s, Serve(s, k, c), n, k)
<1> DEFINE w == s.waiting[c]
           l == w.target
           items == s.store[k].items
           e == End(items, w.where)
           o == <<e>>
           r == Popped(items, w.where)
           v == [type |-> "list", items |-> r]
           u == Unblock(s, c)
           pop == PopCommand(w, k)
           psh == LCmd("LPUSH", l, NoKey, o)
           st == PutAt(s.store, k, v)
           p == [u EXCEPT !.store = st]
           x == PushTo(p, l, o, "head")
           z == PutAt(st, l, PushedTo(st[l], o, "head"))
           ot == Append(Append(s.out, pop), psh)
           T == gone \cup s.taken
           K == {k}
           t == Serve(s, k, c)
<1>0. /\ s \in LWork /\ k \in Lists /\ c \in Waiters /\ w \in BlockCommands /\ w # NotBlocked
      /\ k \in ToSet(w.keys) /\ s.store[k] \in Values /\ items \in Seq(Nat)
      /\ IsInjective(items) /\ s.store \in Stores /\ s.given \in [Waiters -> SUBSET Nat]
      /\ s.out \in Seq(ListCommands) BY SMTT(30), ServingIs
<1>s. Sound(s, n) /\ items # <<>> /\ s.store[k].type = "list" BY DEF MayServe
<1>l. l \in Lists /\ s.store[l].type # "string" BY <1>0, KeysAre
<1>1. /\ Sound(u, n) /\ TidyBut(u, K) /\ SignalledBut(u, K)
      /\ SameLists(s, u) /\ u.waiting = [s.waiting EXCEPT ![c] = NotBlocked]
      /\ Len(u.blocking[k]) = Len(s.blocking[k]) - 1
      /\ Measure(s) \in Nat /\ Measure(u) \in Nat /\ Measure(u) = Measure(s) - 1
  <2> HIDE DEF u
  <2>1. u = Unblock(s, c) BY SMTT(30) DEF u
  <2>2. TidyBut(s, {k}) /\ SignalledBut(s, {k}) BY DEF MayServe
  <2> HIDE DEF K
  <2>3. OnlyFreed(s, u, c, n, K) BY <1>0, <1>s, <2>1, UnblockSound
  <2>4. QED BY <1>0, <2>2, <2>3 DEF K, OnlyFreed
<1>3. u \in LWork /\ u.store = s.store /\ u.out = s.out /\ u.given = s.given /\ u.ready = s.ready /\ u.taken = s.taken
  <2> HIDE DEF u
  <2>1. QED BY <1>1 DEF Sound, SameLists
<1>4. [s.store[k] EXCEPT !.items = r] = v
  <2> HIDE DEF r
  <2>1. QED BY <1>0, <1>s DEF Values
<1>p. /\ v \in Values /\ st \in Stores /\ st[l].type # "string" /\ e \in Nat
      /\ OnePlace(PutAt(st, l, PushedTo(st[l], o, "head")), s.given, T, n)
  <2> DEFINE a == s.store
             g == s.given
             wh == w.where
  <2>1. OnePlace(a, g, T, n) BY <1>s DEF Sound
  <2>2. v = [type |-> "list", items |-> Popped(a[k].items, wh)] /\ e = End(a[k].items, wh) /\ st = PutAt(a, k, v) OBVIOUS
  <2>3. a \in Stores /\ k \in Lists /\ l \in Lists /\ a[k].type = "list" /\ a[k].items # <<>> /\ a[l].type # "string"
        BY <1>0, <1>s, <1>l
  <2> HIDE DEF T, o, e, v, st, a, g, wh, l
  <2>4. /\ v \in Values /\ st \in Stores /\ st[l].type # "string" /\ e \in Nat
        /\ OnePlace(PutAt(st, l, PushedTo(st[l], <<e>>, "head")), g, T, n)
        BY ONLY ZenonT(30), <2>1, <2>2, <2>3, PlaceHanded
  <2>5. QED BY <2>4 DEF o, g
<1>5. t = [PushTo([u EXCEPT !.store[k].items = r], l, o, "head") EXCEPT !.out = @ \o <<pop, psh>>]
      BY <1>l, <1>0 DEF Serve
<1> HIDE DEF u, r, e, pop
<1>6. [u EXCEPT !.store[k].items = r] = p
  <2>1. [u.store EXCEPT ![k].items = r] = st BY <1>0, <1>3, <1>4 DEF PutAt, Stores
  <2> HIDE DEF st, v
  <2>2. [u EXCEPT !.store[k].items = r] = [u EXCEPT !.store = [u.store EXCEPT ![k].items = r]] OBVIOUS
  <2>3. QED BY <2>1, <2>2
<1>7. o \in Seq(Nat) /\ o # <<>> BY <1>p, SingleIs
<1> HIDE DEF st, v
<1>8. p \in LWork /\ p.store = st /\ p.ready = s.ready /\ p.taken = s.taken /\ p.out = s.out /\ p.given = s.given
      /\ p.blocking = u.blocking /\ p.waiting = u.waiting
      BY <1>3, <1>p DEF LWork
<1> HIDE DEF p, o
<1>9. Turns(p, x, PutAt(p.store, l, PushedTo(p.store[l], o, "head")), p.taken)
      BY <1>l, <1>7, <1>8, <1>p, PushToIs
<1>10. /\ x \in LWork /\ x.store = z /\ x.taken = s.taken /\ x.out = s.out /\ x.given = s.given
       /\ x.blocking = u.blocking /\ x.waiting = u.waiting /\ Signals(p, x)
       BY <1>8, <1>9 DEF Turns, SameClients
<1> HIDE DEF x
<1>c. pop \in ListCommands /\ Copied(Append(s.out, pop)) = Norm(st)
  <2>1. v = [type |-> "list", items |-> Popped(s.store[k].items, w.where)] BY DEF v, r
  <2>2. Copied(s.out) = Norm(s.store) BY <1>s DEF Sound
  <2>3. PopCommand(w, k) \in ListCommands /\ v \in Values
        /\ Copied(Append(s.out, PopCommand(w, k))) = Norm(PutAt(s.store, k, v)) BY <1>0, <1>s, <2>1, <2>2, PopCopied
  <2>4. QED BY <2>3 DEF pop, st
<1>d. psh \in ListCommands /\ Copied(ot) = Norm(z)
  <2> DEFINE op == Append(s.out, pop)
  <2>1. op \in Seq(ListCommands) BY <1>0, <1>c, AppendIs
  <2>2. Copied(op) = Norm(st) BY <1>c
  <2> HIDE DEF op
  <2>3. /\ LCmd("LPUSH", l, NoKey, <<e>>) \in ListCommands
        /\ Copied(Append(op, LCmd("LPUSH", l, NoKey, <<e>>))) = Norm(PutAt(st, l, PushedTo(st[l], <<e>>, "head")))
        BY <1>l, <1>p, <2>1, <2>2, PushCopied
  <2>4. QED BY <2>3 DEF op, o
<1> HIDE DEF z, psh
<1>o. s.out \o <<pop, psh>> = ot /\ ot \in Seq(ListCommands) BY <1>0, <1>c, <1>d, TwoMore
<1>11. t = [x EXCEPT !.out = ot]
  <2> HIDE DEF ot, t
  <2>1. t = [x EXCEPT !.out = x.out \o <<pop, psh>>] BY <1>5, <1>6 DEF x
  <2>2. QED BY <1>10, <1>o, <2>1
<1> HIDE DEF ot, t, w
<1>12. /\ t \in LWork /\ t.store = z /\ t.taken = s.taken /\ t.out = ot /\ t.given = s.given /\ t.ready = x.ready
       /\ t.blocking = u.blocking /\ t.waiting = u.waiting
       BY <1>10, <1>11, <1>o DEF LWork
<1>13. IsInjective(x.ready) /\ ToSet(s.ready) \subseteq ToSet(x.ready) /\ Len(x.ready) <= Len(s.ready) + 1
       /\ Len(s.ready) \in Nat /\ Len(x.ready) \in Nat
  <2>1. IsInjective(p.ready) BY <1>8, <1>s DEF Sound
  <2>2. /\ IsInjective(x.ready) /\ ToSet(p.ready) \subseteq ToSet(x.ready) /\ Len(x.ready) <= Len(p.ready) + 1
        /\ Len(p.ready) \in Nat /\ Len(x.ready) \in Nat BY <1>8, <1>10, <2>1, ReadyGrows
  <2>3. QED BY <1>8, <2>2
<1>14. Queues(t)
  <2>1. Queues(u) BY <1>1 DEF Sound
  <2>2. QED BY <1>3, <1>12, <2>1 DEF Queues
<1>15. OnePlace(z, s.given, T, n) BY <1>p DEF z, o
<1>16. Sound(t, n) BY <1>d, <1>12, <1>13, <1>14, <1>15 DEF Sound
<1>17. \A j \in Lists : z[j] = IF j = l THEN PushedTo(st[l], o, "head") ELSE IF j = k THEN v ELSE s.store[j]
  <2>1. PushedTo(st[l], o, "head") \in Values
    <3>1. st[l] \in Values BY <1>l, <1>p, ContentsIs
    <3>2. QED BY <1>7, <1>p, <3>1, PushedIs
  <2>2. \A j \in Lists : st[j] = IF j = k THEN v ELSE s.store[j] BY SMTT(30), <1>0, <1>p, PutAtIs DEF st
  <2> DEFINE y == PushedTo(st[l], o, "head")
  <2> HIDE DEF y
  <2>3. \A j \in Lists : PutAt(st, l, y)[j] = IF j = l THEN y ELSE st[j] BY <1>l, <1>p, <2>1, PutAtIs DEF y
  <2>4. QED BY <2>2, <2>3 DEF z, y
<1>y. PushedTo(st[l], o, "head").type = "list" /\ PushedTo(st[l], o, "head").items # <<>>
  <2>1. st[l] \in Values BY <1>l, <1>p, ContentsIs
  <2>2. QED BY <1>7, <1>p, <2>1, PushedIs
<1>18. TidyBut(t, K)
  <2>1. \A j \in Lists \ K : z[j] = IF j = l THEN PushedTo(st[l], o, "head") ELSE s.store[j] BY <1>17
  <2>2. \A j \in Lists \ K : TidyAt(s.store, j) BY <1>1, <1>3 DEF TidyBut
  <2> HIDE DEF K
  <2>3. \A j \in Lists \ K : TidyAt(z, j) BY <1>y, <2>1, <2>2 DEF TidyAt
  <2>4. QED BY <1>12, <2>3 DEF TidyBut
<1>19. SignalledBut(t, K)
  <2>1. ASSUME NEW j \in Lists \ K, z[j].type = "list", u.blocking[j] # <<>> PROVE j \in ToSet(x.ready)
    <3>1. CASE s.store[j].type = "list"
      <4>1. j \in ToSet(s.ready) BY <1>1, <1>3, <2>1, <3>1 DEF SignalledBut
      <4>2. QED BY <1>13, <4>1
    <3>2. CASE s.store[j].type # "list"
      <4>1. st[j] = s.store[j] BY SMTT(30), <1>0, <1>p, <2>1, PutAtIs DEF st
      <4>2. p.store[j].type # "list" /\ x.store[j].type = "list" /\ p.blocking[j] # <<>> BY <1>8, <1>10, <2>1, <3>2, <4>1
      <4>3. QED BY <1>10, <2>1, <4>2 DEF Signals
    <3>3. QED BY <3>1, <3>2
  <2>2. QED BY <1>12, <2>1 DEF SignalledBut
<1>20. t.store[k].type = "list"
  <2>1. v.type = "list" BY DEF v
  <2>2. QED BY <1>0, <1>12, <1>17, <1>y, <2>1
<1>21. Measure(t) \in Nat /\ Measure(t) <= Measure(s)
  <2>1. Blocked(t) = Blocked(u) BY <1>12 DEF Blocked
  <2>2. Cardinality(Blocked(u)) \in Nat BY <1>0, <1>3, BlockedIs
  <2>3. Measure(u) = Len(s.ready) + Cardinality(Blocked(u)) BY <1>3 DEF Measure
  <2>4. Measure(t) = Len(x.ready) + Cardinality(Blocked(u)) BY <1>12, <2>1 DEF Measure
  <2>5. QED BY SMTT(30), <1>1, <1>13, <2>2, <2>3, <2>4
<1>22. QED BY <1>1, <1>12, <1>16, <1>18, <1>19, <1>20, <1>21 DEF ServedOne, t, K

LEMMA ServeIs ==
  ASSUME BlockTypes, BlockingAssumption, Agree(blocking, waiting), NEW s, NEW n, NEW k, NEW c, MayServe(s, n, k, c)
  PROVE  ServedOne(s, Serve(s, k, c), n, k)
<1>1. CASE s.waiting[c].target = NoKey BY <1>1, ServeClient
<1>2. CASE s.waiting[c].target # NoKey /\ s.store[s.waiting[c].target].type = "string" BY <1>2, ServeBack
<1>3. CASE s.waiting[c].target # NoKey /\ s.store[s.waiting[c].target].type # "string" BY <1>3, ServeMove
<1>4. QED BY <1>1, <1>2, <1>3

\* While a key is served: its list may be empty, and nothing else is left undone.
InService(t, n, k, m) ==
  /\ Sound(t, n) /\ TidyBut(t, {k}) /\ SignalledBut(t, {k}) /\ t.store[k].type = "list"
  /\ Measure(t) \in Nat /\ Measure(t) <= m

\* Between two keys: every key with clients and elements is in ready_keys.
Settled(t, n) == Sound(t, n) /\ TidyStore(t.store) /\ SignalledBut(t, {}) /\ Measure(t) \in Nat

LEMMA InServiceStep ==
  ASSUME BlockTypes, BlockingAssumption, Agree(blocking, waiting), NEW s, NEW n, NEW k \in Lists, NEW m \in Nat,
         InService(s, n, k, m), NEW t, t = ServeWhileElements(s, k)
  PROVE  /\ InService(t, n, k, m)
         /\ (s.store[k].items = <<>> \/ s.blocking[k] = <<>>) => t = s
         /\ t = s \/ Len(t.blocking[k]) = Len(s.blocking[k]) - 1
         /\ s \in LWork /\ t \in LWork
<1>0. s \in LWork BY DEF InService, Sound
<1>1. CASE s.store[k].items = <<>> \/ s.blocking[k] = <<>>
  <2>1. t = s BY <1>1 DEF ServeWhileElements
  <2>2. QED BY <1>0, <2>1
<1>2. CASE ~(s.store[k].items = <<>> \/ s.blocking[k] = <<>>)
  <2> DEFINE c == Head(s.blocking[k])
  <2>1. t = Serve(s, k, c) BY <1>2 DEF ServeWhileElements, ServeNext
  <2>2. MayServe(s, n, k, c) BY <1>2 DEF InService, MayServe
  <2> HIDE DEF c
  <2>3. ServedOne(s, t, n, k) BY <2>1, <2>2, ServeIs
  <2>4. Measure(s) \in Nat /\ Measure(s) <= m BY DEF InService
  <2>5. t \in LWork BY <2>3 DEF ServedOne, Sound
  <2>6. Measure(t) \in Nat /\ Measure(t) <= m BY <2>3, <2>4 DEF ServedOne
  <2>7. InService(t, n, k, m) BY <2>3, <2>6 DEF ServedOne, InService
  <2>8. Len(t.blocking[k]) = Len(s.blocking[k]) - 1 BY <2>3 DEF ServedOne
  <2>9. QED BY <1>0, <1>2, <2>5, <2>7, <2>8
<1>3. QED BY <1>1, <1>2

LEMMA ServeAllIs ==
  ASSUME BlockTypes, BlockingAssumption, Agree(blocking, waiting), NEW s, NEW n, NEW k \in Lists,
         NEW m \in Nat, InService(s, n, k, m),
         NEW t, t = ServeAll(s, s.blocking[k], k)
  PROVE  InService(t, n, k, m) /\ t \in LWork /\ (t.store[k].items = <<>> \/ t.blocking[k] = <<>>)
<1> DEFINE T == {u \in LWork : InService(u, n, k, m)}
           q == s.blocking[k]
           E == Waiters
           N == Len(q)
           Left(u) == u.store[k].items = <<>> \/ u.blocking[k] = <<>>
<1>1. s \in LWork BY DEF InService, Sound
<1>2. s \in T /\ q \in Seq(E) /\ N \in Nat BY <1>1, LWorkIs
<1>3. \A u \in T : /\ ServeWhileElements(u, k) \in T
                   /\ (u.store[k].items = <<>> \/ u.blocking[k] = <<>>) => ServeWhileElements(u, k) = u
                   /\ ServeWhileElements(u, k) = u \/ Len(ServeWhileElements(u, k).blocking[k]) = Len(u.blocking[k]) - 1
                   /\ u.blocking[k] \in Seq(Waiters)
  <2>1. ASSUME NEW u \in T
        PROVE  /\ ServeWhileElements(u, k) \in T
               /\ (u.store[k].items = <<>> \/ u.blocking[k] = <<>>) => ServeWhileElements(u, k) = u
               /\ ServeWhileElements(u, k) = u \/ Len(ServeWhileElements(u, k).blocking[k]) = Len(u.blocking[k]) - 1
               /\ u.blocking[k] \in Seq(Waiters)
    <3> DEFINE y == ServeWhileElements(u, k)
    <3>1. InService(u, n, k, m) /\ u \in LWork OBVIOUS
    <3>2. u.blocking[k] \in Seq(Waiters) BY <3>1, LWorkIs
    <3>3. y = ServeWhileElements(u, k) OBVIOUS
    <3> HIDE DEF y, T
    <3>4. /\ InService(y, n, k, m)
          /\ (u.store[k].items = <<>> \/ u.blocking[k] = <<>>) => y = u
          /\ y = u \/ Len(y.blocking[k]) = Len(u.blocking[k]) - 1
          /\ u \in LWork /\ y \in LWork BY <3>1, <3>3, InServiceStep
    <3>5. y \in T BY <3>4 DEF T
    <3>6. QED BY <3>2, <3>4, <3>5 DEF y
  <2>2. QED BY <2>1
<1> HIDE DEF T, E, q
<1>4. \A u \in T, x \in E : ServeWhileElements(u, k) \in T BY <1>3
<1>b. s \in T /\ q \in Seq(E) BY <1>2
<1>5. \E f : /\ Traced(f, Len(q), T, s, ServeSteps(T, q, k))
             /\ ServeAll(s, q, k) = f[Len(q)] BY ONLY <1>b, <1>4, ServeKeyTrace
<1>6. PICK f : /\ Traced(f, N, T, s, [i \in 1 .. N |-> [u \in T |-> ServeWhileElements(u, k)]])
               /\ ServeAll(s, q, k) = f[N] BY <1>5 DEF ServeSteps
<1> HIDE DEF N
<1>7. /\ f \in [0 .. N -> T] /\ f[0] = s
      /\ \A i \in 1 .. N : f[i - 1] \in T /\ f[i] = ServeWhileElements(f[i - 1], k)
  <2>1. /\ f \in [0 .. N -> T] /\ f[0] = s
        /\ \A i \in 1 .. N : f[i] = [j \in 1 .. N |-> [u \in T |-> ServeWhileElements(u, k)]][i][f[i - 1]]
        BY <1>6 DEF Traced
  <2>2. \A i \in 1 .. N : i - 1 \in 0 .. N BY <1>2
  <2>3. QED BY <2>1, <2>2
<1> DEFINE S == {i \in 0 .. N : Left(f[i]) \/ Len(f[i].blocking[k]) <= N - i}
<1>8. 0 \in S BY <1>2, <1>7 DEF N, q
<1>9. ASSUME NEW i \in 1 .. N, i - 1 \in S PROVE i \in S
  <2>1. f[i - 1] \in T /\ f[i] = ServeWhileElements(f[i - 1], k) BY <1>7
  <2> DEFINE u == f[i - 1]
             y == f[i]
  <2>2. /\ u \in T /\ (Left(u) => y = u) /\ (y = u \/ Len(y.blocking[k]) = Len(u.blocking[k]) - 1)
        /\ u.blocking[k] \in Seq(Waiters) BY <1>3, <2>1
  <2>3. Left(u) \/ Len(u.blocking[k]) <= N - (i - 1) BY <1>9
  <2>4. i \in 0 .. N /\ i \in Nat BY <1>2
  <2>5. Left(y) \/ Len(y.blocking[k]) <= N - i
    <3> HIDE DEF u, y
    <3>1. CASE Left(u) BY <2>2, <3>1
    <3>2. CASE ~Left(u)
      <4>1. Len(u.blocking[k]) <= N - (i - 1) /\ Len(u.blocking[k]) \in Nat BY <2>2, <2>3, <3>2
      <4>2. CASE y = u
        <5>1. f[i] = ServeWhileElements(f[i - 1], k) BY <2>1
        <5>2. u = Serve(u, k, ServeNext(u, k)) BY <3>2, <4>2, <5>1 DEF u, y, ServeWhileElements
        <5>3. InService(u, n, k, m) BY <2>2 DEF T
        <5>4. MayServe(u, n, k, ServeNext(u, k)) BY <3>2, <5>3 DEF MayServe, InService, ServeNext
        <5>5. ServedOne(u, u, n, k)
          <6>1. ServedOne(u, Serve(u, k, ServeNext(u, k)), n, k) BY <5>4, ServeIs
          <6>2. QED BY <5>2, <6>1
        <5>6. Len(u.blocking[k]) = Len(u.blocking[k]) - 1 BY <5>5 DEF ServedOne
        <5>7. QED BY <4>1, <5>6
      <4>3. CASE Len(y.blocking[k]) = Len(u.blocking[k]) - 1 BY <1>2, <2>4, <4>1, <4>3
      <4>4. QED BY <2>2, <4>2, <4>3
    <3>3. QED BY <3>1, <3>2
  <2>6. QED BY <2>4, <2>5
<1>10. N \in S
  <2> HIDE DEF S
  <2>1. 0 .. N \subseteq S BY <1>2, <1>8, <1>9, UpTo
  <2>2. N \in 0 .. N BY <1>2
  <2>3. QED BY <2>1, <2>2
<1>11. t = f[N] /\ t \in T BY <1>2, <1>6, <1>7 DEF q
<1>12. t.blocking[k] \in Seq(Waiters) /\ InService(t, n, k, m) /\ t \in LWork
  <2>1. InService(t, n, k, m) /\ t \in LWork BY <1>11 DEF T
  <2>2. QED BY <2>1, LWorkIs
<1>13. t.store[k].items = <<>> \/ Len(t.blocking[k]) <= 0 \/ t.blocking[k] = <<>> BY <1>2, <1>10, <1>11
<1>14. QED BY <1>12, <1>13

\* A list left empty is deleted: what a replica has made of it already.
LEMMA KeyDone ==
  ASSUME NEW s, NEW n, NEW k \in Lists, NEW m \in Nat, InService(s, n, k, m), s \in LWork,
         s.store[k].items = <<>> \/ s.blocking[k] = <<>>,
         NEW t, t = [s EXCEPT !.store[k] = List(s.store[k].items)]
  PROVE  Settled(t, n) /\ Measure(t) <= m
<1> DEFINE q == s.store[k].items
           v == List(q)
           st == PutAt(s.store, k, v)
           T == gone \cup s.taken
<1>1. s.store \in Stores /\ s.store[k] \in Values /\ q \in Seq(Nat) /\ s.store[k].type = "list"
      BY LWorkIs, ContentsIs DEF InService
<1>2. v \in Values /\ v.items = q /\ (v.type = "list" <=> q # <<>>)
  <2> HIDE DEF q
  <2>1. QED BY <1>1, ListIs
<1>s. Sound(s, n) /\ TidyBut(s, {k}) /\ SignalledBut(s, {k}) BY DEF InService
<1>3. t = [s EXCEPT !.store = st]
  <2> HIDE DEF v
  <2>1. t = [s EXCEPT !.store[k] = v] BY DEF v
  <2>2. QED BY <2>1 DEF PutAt
<1>l. List(v.items) = v BY <1>2
<1> HIDE DEF q, v
<1>4. st \in Stores /\ st[k] = v /\ \A l \in Lists : l # k => st[l] = s.store[l] BY <1>1, <1>2, PutAtIs
<1>5. Norm(st) = Norm(s.store)
  <2>1. Norm(st) = PutAt(Norm(s.store), k, IF v.type = "list" THEN List(v.items) ELSE v) BY <1>1, <1>2, NormPut
  <2>2. (IF v.type = "list" THEN List(v.items) ELSE v) = v BY <1>l
  <2>3. Norm(s.store) \in Stores /\ Norm(s.store)[k] = List(s.store[k].items) BY <1>1, NormIs
  <2>4. Norm(s.store)[k] = v BY <2>3 DEF v, q
  <2>5. PutAt(Norm(s.store), k, v) = Norm(s.store) BY <1>2, <2>3, <2>4, PutSameAt
  <2>6. QED BY <2>1, <2>2, <2>5
<1>6. OnePlace(st, s.given, T, n)
  <2>1. OnePlace(s.store, s.given, T, n) BY <1>s DEF Sound
  <2>2. v.items = s.store[k].items BY <1>2 DEF q
  <2>3. IsInjective(v.items) /\ ToSet(v.items) = ToSet(s.store[k].items) BY <2>1, <2>2 DEF OnePlace
  <2> HIDE DEF T
  <2>4. OnePlace(PutAt(s.store, k, v), s.given, T \cup (ToSet(s.store[k].items) \ ToSet(v.items)), n)
        BY <1>1, <1>2, <2>1, <2>3, PlaceLess
  <2>5. T \cup (ToSet(s.store[k].items) \ ToSet(v.items)) = T BY <2>3
  <2>6. QED BY <2>4, <2>5
<1> HIDE DEF st
<1>7. /\ t \in LWork /\ t.store = st /\ t.blocking = s.blocking /\ t.ready = s.ready /\ t.out = s.out
      /\ t.taken = s.taken /\ t.waiting = s.waiting /\ t.given = s.given
      BY <1>3, <1>4 DEF LWork
<1>8. Sound(t, n) BY <1>s, <1>5, <1>6, <1>7 DEF Sound, Queues
<1>9. TidyStore(t.store)
  <2>1. TidyAt(st, k) BY <1>2, <1>4 DEF TidyAt
  <2>2. \A l \in Lists : l # k => TidyAt(st, l) BY <1>s, <1>4 DEF TidyBut, TidyAt
  <2>3. QED BY <1>7, <2>1, <2>2 DEF TidyStore
<1>10. SignalledBut(t, {})
  <2>1. v.type = "list" => s.blocking[k] = <<>> BY <1>2 DEF q
  <2>2. \A l \in Lists : l # k => (s.store[l].type = "list" /\ s.blocking[l] # <<>> => l \in ToSet(s.ready))
        BY <1>s DEF SignalledBut
  <2>3. \A l \in Lists : st[l].type = "list" /\ s.blocking[l] # <<>> => l \in ToSet(s.ready) BY <1>4, <2>1, <2>2
  <2>4. QED BY <1>7, <2>3 DEF SignalledBut
<1>11. Measure(t) = Measure(s) BY <1>7 DEF Measure, Blocked
<1>12. QED BY <1>8, <1>9, <1>10, <1>11 DEF Settled, InService

LEMMA ServeKeyIs ==
  ASSUME BlockTypes, BlockingAssumption, Agree(blocking, waiting), NEW s, NEW n, NEW k \in Lists,
         Sound(s, n), TidyStore(s.store), SignalledBut(s, {k}), Measure(s) \in Nat,
         NEW t, t = ServeKey(s, k)
  PROVE  Settled(t, n) /\ Measure(t) <= Measure(s)
<1>1. CASE s.store[k].type # "list"
  <2>1. t = s BY <1>1 DEF ServeKey
  <2>2. SignalledBut(s, {}) BY <1>1 DEF SignalledBut
  <2>3. QED BY <2>1, <2>2 DEF Settled
<1>2. CASE s.store[k].type = "list"
  <2> DEFINE m == Measure(s)
             u == ServeAll(s, s.blocking[k], k)
  <2>1. InService(s, n, k, m) BY <1>2 DEF InService, TidyBut, TidyStore
  <2>2. t = [u EXCEPT !.store[k] = List(u.store[k].items)] BY Zenon, <1>2 DEF ServeKey, ServeAll
  <2>3. u = ServeAll(s, s.blocking[k], k) /\ m \in Nat OBVIOUS
  <2> HIDE DEF u, m
  <2>4. InService(u, n, k, m) /\ u \in LWork /\ (u.store[k].items = <<>> \/ u.blocking[k] = <<>>) BY <2>1, <2>3, ServeAllIs
  <2>5. Settled(t, n) /\ Measure(t) <= m BY <2>2, <2>3, <2>4, KeyDone
  <2>6. QED BY <2>5 DEF m
<1>3. QED BY <1>1, <1>2

\* Every entry of ready_keys that is handled makes the work that is left smaller.
LEMMA ServeReadyIs ==
  ASSUME BlockTypes, BlockingAssumption, Agree(blocking, waiting), NEW s, NEW n, Settled(s, n),
         NEW t, t = ServeReady(s)
  PROVE  /\ Settled(t, n) /\ (s.ready = <<>> => t = s)
         /\ s.ready # <<>> => Measure(t) <= Measure(s) - 1
         /\ Measure(s) \in Nat /\ Measure(t) \in Nat
<1>0. s \in LWork /\ Measure(s) \in Nat BY DEF Settled, Sound
<1>1. CASE s.ready = <<>>
  <2>1. t = s BY <1>1 DEF ServeReady
  <2>2. QED BY <1>0, <1>1, <2>1
<1>2. CASE s.ready # <<>>
  <2> DEFINE q == s.ready
             k == Head(q)
             r == Tail(q)
             u == [s EXCEPT !.ready = r]
  <2>1. t = ServeKey(u, k) BY <1>2 DEF ServeReady
  <2>2. q \in Seq(Lists) /\ q # <<>> /\ IsInjective(q) BY <1>0, <1>2, LWorkIs DEF Settled, Sound
  <2>l. Len(q) \in Nat /\ Len(r) = Len(q) - 1 /\ Len(r) \in Nat
    <3> HIDE DEF q
    <3>1. QED BY <2>2
  <2>3. r \in Seq(Lists) /\ k \in Lists /\ IsInjective(r) /\ ToSet(r) = ToSet(q) \ {k}
    <3> HIDE DEF q
    <3>1. QED BY <2>2, TailIs
  <2> HIDE DEF r, k
  <2>4. /\ u \in LWork /\ u.store = s.store /\ u.blocking = s.blocking /\ u.ready = r /\ u.out = s.out
        /\ u.taken = s.taken /\ u.waiting = s.waiting /\ u.given = s.given
        BY <1>0, <2>3 DEF LWork
  <2> HIDE DEF u
  <2>5. Sound(u, n) BY <2>3, <2>4 DEF Settled, Sound, Queues
  <2>6. TidyStore(u.store) BY <2>4 DEF Settled
  <2>7. SignalledBut(u, {k})
    <3>1. \A l \in Lists : s.store[l].type = "list" /\ s.blocking[l] # <<>> => l \in ToSet(q) BY DEF Settled, SignalledBut
    <3> HIDE DEF q
    <3>2. QED BY <2>3, <2>4, <3>1 DEF SignalledBut
  <2>8. Measure(u) = Measure(s) - 1 /\ Measure(u) \in Nat
    <3>1. Blocked(u) = Blocked(s) BY <2>4 DEF Blocked
    <3>2. CASE Cardinality(Blocked(s)) \in Nat BY <2>l, <2>4, <3>1, <3>2 DEF Measure
    <3>3. IsFiniteSet(Blocked(s)) BY FS_Subset DEF Blocked, BlockingAssumption
    <3>4. QED BY <3>2, <3>3, FS_CardinalityType
  <2>9. Settled(t, n) /\ Measure(t) <= Measure(u) BY <2>1, <2>3, <2>5, <2>6, <2>7, <2>8, ServeKeyIs
  <2>10. Measure(t) \in Nat BY <2>9 DEF Settled
  <2>11. QED BY <1>0, <1>2, <2>8, <2>9, <2>10
<1>3. QED BY <1>1, <1>2

LEMMA DistinctFew ==
  ASSUME NEW S, IsFiniteSet(S), NEW q \in Seq(S), IsInjective(q)
  PROVE  Len(q) <= Cardinality(S) /\ Len(q) \in Nat /\ Cardinality(S) \in Nat
<1>1. Len(q) \in Nat /\ q \in [1 .. Len(q) -> S] OBVIOUS
<1>2. Cardinality(S) \in Nat BY FS_CardinalityType
<1>3. IsFiniteSet(1 .. Len(q)) /\ Cardinality(1 .. Len(q)) = Len(q)
  <2> DEFINE n == Len(q)
  <2> HIDE DEF n
  <2>1. n \in Nat BY <1>1 DEF n
  <2>2. 1 \in Int /\ n \in Int BY <2>1
  <2>3. IsFiniteSet(1 .. n) /\ Cardinality(1 .. n) = IF 1 > n THEN 0 ELSE n - 1 + 1 BY <2>2, FS_Interval
  <2>4. QED BY <2>1, <2>3 DEF n
<1>4. ASSUME Cardinality(S) < Len(q) PROVE FALSE
  <2> DEFINE D == 1 .. Len(q)
  <2> HIDE DEF D
  <2>1. q \in [D -> S] /\ IsFiniteSet(D) /\ Cardinality(S) < Cardinality(D) BY <1>1, <1>3, <1>4 DEF D
  <2>2. \E x, y \in D : x # y /\ q[x] = q[y] BY <2>1, FS_PigeonHole
  <2>3. QED BY <2>2, IsInjectiveIs DEF D
<1>5. QED BY <1>1, <1>2, <1>4

Rounds == [i \in 1 .. Cardinality(Lists) + Cardinality(Waiters) |-> i]

\* Every round handles an entry of ready_keys, and there are enough rounds.
LEMMA HandleIs ==
  ASSUME BlockTypes, BlockingAssumption, Agree(blocking, waiting), NEW s, NEW n, Settled(s, n),
         NEW t, t = HandleClientsBlockedOnLists(s)
  PROVE  Settled(t, n) /\ t.ready = <<>>
<1> DEFINE N == Cardinality(Lists) + Cardinality(Waiters)
           T == {u \in LWork : Settled(u, n)}
           E == Nat
           q == Rounds
<1>0. IsFiniteSet(Lists) /\ IsFiniteSet(Waiters) BY DEF BlockingAssumption
<1>c. Cardinality(Lists) \in Nat /\ Cardinality(Waiters) \in Nat BY <1>0, FS_CardinalityType
<1>1. q \in Seq(E) /\ Len(q) = N /\ N \in Nat
  <2>1. N \in Nat BY <1>c
  <2>2. q = [i \in 1 .. N |-> i] BY DEF Rounds
  <2> HIDE DEF N, q
  <2>3. QED BY <2>1, <2>2
<1>2. s \in T /\ s \in LWork BY DEF Settled, Sound
<1>3. \A u \in T : /\ ServeReady(u) \in T /\ (u.ready = <<>> => ServeReady(u) = u)
                   /\ u.ready # <<>> => Measure(ServeReady(u)) <= Measure(u) - 1
                   /\ Measure(u) \in Nat /\ Measure(ServeReady(u)) \in Nat
  <2>1. ASSUME NEW u \in T
        PROVE  /\ ServeReady(u) \in T /\ (u.ready = <<>> => ServeReady(u) = u)
               /\ u.ready # <<>> => Measure(ServeReady(u)) <= Measure(u) - 1
               /\ Measure(u) \in Nat /\ Measure(ServeReady(u)) \in Nat
    <3> DEFINE y == ServeReady(u)
    <3>1. Settled(u, n) /\ y = ServeReady(u) OBVIOUS
    <3> HIDE DEF y, T
    <3>2. /\ Settled(y, n) /\ (u.ready = <<>> => y = u)
          /\ u.ready # <<>> => Measure(y) <= Measure(u) - 1
          /\ Measure(u) \in Nat /\ Measure(y) \in Nat BY <3>1, ServeReadyIs
    <3>3. y \in T BY <3>2 DEF T, Settled, Sound
    <3>4. QED BY <3>2, <3>3 DEF y
  <2>2. QED BY <2>1
<1> HIDE DEF T, E, q
<1>4. \A u \in T, x \in E : ServeReady(u) \in T BY <1>3
<1>b. s \in T /\ q \in Seq(E) BY <1>1, <1>2
<1>5. \E f : Traced(f, Len(q), T, s, ReadySteps(T, q)) /\ ServeAllReady(s, q) = f[Len(q)]
      BY ONLY <1>b, <1>4, ServeReadyTrace
<1>6. PICK f : Traced(f, N, T, s, ReadySteps(T, q)) /\ ServeAllReady(s, q) = f[N] BY <1>1, <1>5
<1>7. /\ f \in [0 .. N -> T] /\ f[0] = s
      /\ \A i \in 1 .. N : f[i - 1] \in T /\ f[i] = ServeReady(f[i - 1])
  <2>0. ReadySteps(T, q) = [j \in 1 .. N |-> [u \in T |-> ServeReady(u)]] BY <1>1 DEF ReadySteps
  <2>1. /\ f \in [0 .. N -> T] /\ f[0] = s
        /\ \A i \in 1 .. N : f[i] = [j \in 1 .. N |-> [u \in T |-> ServeReady(u)]][i][f[i - 1]]
        BY <1>6, <2>0 DEF Traced
  <2> HIDE DEF N
  <2>2. \A i \in 1 .. N : i - 1 \in 0 .. N BY <1>1
  <2>3. QED BY <2>1, <2>2
<1>8. t = f[N]
  <2>1. t = ServeAllReady(s, q) BY Zenon DEF HandleClientsBlockedOnLists, ServeAllReady, q, Rounds
  <2>2. QED BY <1>6, <2>1
<1>9. Measure(s) <= N
  <2>1. s.ready \in Seq(Lists) /\ IsInjective(s.ready) BY <1>2, LWorkIs DEF Settled, Sound
  <2>2. Len(s.ready) <= Cardinality(Lists) /\ Len(s.ready) \in Nat BY <1>0, <2>1, DistinctFew
  <2>3. Blocked(s) \in SUBSET Waiters BY DEF Blocked
  <2>4. Cardinality(Blocked(s)) <= Cardinality(Waiters) /\ IsFiniteSet(Blocked(s)) BY <1>0, <2>3, FS_Subset
  <2>5. Cardinality(Blocked(s)) \in Nat BY <2>4, FS_CardinalityType
  <2>6. QED BY <1>c, <2>2, <2>4, <2>5 DEF Measure
<1> HIDE DEF N
<1> DEFINE S == {i \in 0 .. N : f[i].ready = <<>> \/ Measure(f[i]) <= N - i}
<1>10. 0 \in S BY <1>1, <1>7, <1>9
<1>11. ASSUME NEW i \in 1 .. N, i - 1 \in S PROVE i \in S
  <2> DEFINE u == f[i - 1]
             y == f[i]
  <2>1. u \in T /\ y = ServeReady(u) BY <1>7
  <2>2. u.ready = <<>> \/ Measure(u) <= N - (i - 1) BY <1>11
  <2> HIDE DEF u
  <2>3. /\ (u.ready = <<>> => y = u) /\ (u.ready # <<>> => Measure(y) <= Measure(u) - 1)
        /\ Measure(u) \in Nat /\ Measure(y) \in Nat BY <1>3, <2>1
  <2> HIDE DEF y
  <2>4. i \in 0 .. N /\ i \in Nat BY <1>1
  <2>5. y.ready = <<>> \/ Measure(y) <= N - i
    <3>1. CASE u.ready = <<>> BY <2>3, <3>1
    <3>2. CASE u.ready # <<>> BY <1>1, <2>2, <2>3, <2>4, <3>2
    <3>3. QED BY <3>1, <3>2
  <2>6. QED BY <2>4, <2>5 DEF y
<1>12. N \in S
  <2> HIDE DEF S
  <2>1. 0 .. N \subseteq S BY <1>1, <1>10, <1>11, UpTo
  <2>2. N \in 0 .. N BY <1>1
  <2>3. QED BY <2>1, <2>2
<1>13. t \in T /\ (t.ready = <<>> \/ Measure(t) <= 0) BY <1>1, <1>7, <1>8, <1>12
<1>14. t \in LWork /\ Settled(t, n) BY <1>13 DEF T
<1>15. ASSUME t.ready # <<>> PROVE FALSE
  <2>1. t.ready \in Seq(Lists) BY <1>14, LWorkIs
  <2>2. Len(t.ready) \in Nat /\ Len(t.ready) # 0 BY <1>15, <2>1, ToSetIs
  <2>3. Blocked(t) \in SUBSET Waiters BY DEF Blocked
  <2>4. IsFiniteSet(Blocked(t)) BY <1>0, <2>3, FS_Subset
  <2>5. Cardinality(Blocked(t)) \in Nat BY <2>4, FS_CardinalityType
  <2>6. QED BY <1>13, <1>15, <2>2, <2>5 DEF Measure
<1>16. QED BY <1>14, <1>15

-----------------------------------------------------------------------------
(* The elements that the commands of a request add *)

LEMMA LengthSum ==
  ASSUME NEW q \in Seq(ListCommands)
  PROVE  \E f : Traced(f, Len(q), Nat, 0, LengthSteps(Nat, q)) /\ Length(q) = f[Len(q)]
<1> DEFINE T == Nat
           b == 0
           E == ListCommands
<1>1. \A t \in T, x \in E : t + Len(x.items) \in T
  <2>1. \A x \in ListCommands : Len(x.items) \in Nat BY ListCommandIs
  <2>2. QED BY <2>1
<1>2. b \in T /\ q \in Seq(E) OBVIOUS
<1> HIDE DEF T, b, E
<1>3. \E f : Traced(f, Len(q), T, b, LengthSteps(T, q)) /\ LengthFrom(b, q) = f[Len(q)] BY ONLY <1>1, <1>2, LengthTrace
<1>4. Length(q) = LengthFrom(b, q) BY Zenon DEF Length, LengthFrom, b
<1>5. QED BY <1>3, <1>4 DEF T, b

LEMMA LengthIs ==
  ASSUME NEW q \in Seq(ListCommands)
  PROVE  Length(q) \in Nat
<1>1. PICK f : Traced(f, Len(q), Nat, 0, LengthSteps(Nat, q)) /\ Length(q) = f[Len(q)] BY LengthSum
<1>2. Len(q) \in 0 .. Len(q) OBVIOUS
<1>3. QED BY <1>1, <1>2 DEF Traced

LEMMA LengthNone ==
  Length(<<>>) = 0
<1> DEFINE q == <<>>
<1>1. q \in Seq(ListCommands) /\ Len(q) = 0 BY EmptyIs
<1> HIDE DEF q
<1>2. PICK f : Traced(f, Len(q), Nat, 0, LengthSteps(Nat, q)) /\ Length(q) = f[Len(q)] BY <1>1, LengthSum
<1>3. f[0] = 0 BY <1>2 DEF Traced
<1>4. QED BY <1>1, <1>2, <1>3 DEF q

LEMMA LengthAppend ==
  ASSUME NEW q \in Seq(ListCommands), NEW c \in ListCommands
  PROVE  Length(Append(q, c)) = Length(q) + Len(c.items)
<1> DEFINE n == Len(q)
           r == Append(q, c)
<1>1. n \in Nat /\ r \in Seq(ListCommands) /\ Len(r) = n + 1 /\ r[n + 1] = c
      /\ \A i \in 1 .. n : r[i] = q[i] /\ q[i] \in ListCommands OBVIOUS
<1>2. PICK f : Traced(f, n, Nat, 0, LengthSteps(Nat, q)) /\ Length(q) = f[n] BY LengthSum
<1> HIDE DEF r
<1>3. PICK h : Traced(h, Len(r), Nat, 0, LengthSteps(Nat, r)) /\ Length(r) = h[Len(r)] BY <1>1, LengthSum
<1> DEFINE S == {m \in 0 .. n : h[m] = f[m]}
<1>f. f \in [0 .. n -> Nat] /\ f[0] = 0 /\ \A m \in 1 .. n : f[m] = LengthSteps(Nat, q)[m][f[m - 1]] BY <1>2 DEF Traced
<1>h. h \in [0 .. n + 1 -> Nat] /\ h[0] = 0 /\ \A m \in 1 .. n + 1 : h[m] = LengthSteps(Nat, r)[m][h[m - 1]]
      BY <1>1, <1>3 DEF Traced
<1>g. /\ \A m \in 1 .. n + 1 : h[m - 1] \in Nat /\ h[m] = h[m - 1] + Len(r[m].items)
      /\ \A m \in 1 .. n : f[m - 1] \in Nat /\ f[m] = f[m - 1] + Len(q[m].items)
  <2> HIDE DEF n
  <2>1. \A m \in 1 .. n + 1 : m - 1 \in 0 .. n + 1 BY <1>1
  <2>2. \A m \in 1 .. n : m - 1 \in 0 .. n BY <1>1
  <2>3. LengthSteps(Nat, r) = [i \in 1 .. n + 1 |-> [t \in Nat |-> t + Len(r[i].items)]] BY <1>1 DEF LengthSteps
  <2>4. LengthSteps(Nat, q) = [i \in 1 .. n |-> [t \in Nat |-> t + Len(q[i].items)]] BY DEF LengthSteps, n
  <2>5. \A m \in 1 .. n + 1 : h[m - 1] \in Nat BY <1>h, <2>1
  <2>6. \A m \in 1 .. n : f[m - 1] \in Nat BY <1>f, <2>2
  <2>7. \A m \in 1 .. n + 1 : h[m] = h[m - 1] + Len(r[m].items)
    <3>1. \A m \in 1 .. n + 1 : LengthSteps(Nat, r)[m] = [t \in Nat |-> t + Len(r[m].items)] BY <2>3
    <3>2. \A m \in 1 .. n + 1 : h[m] = [t \in Nat |-> t + Len(r[m].items)][h[m - 1]] BY <1>h, <3>1
    <3>3. QED BY <2>5, <3>2
  <2>8. \A m \in 1 .. n : f[m] = f[m - 1] + Len(q[m].items)
    <3>1. \A m \in 1 .. n : LengthSteps(Nat, q)[m] = [t \in Nat |-> t + Len(q[m].items)] BY <2>4
    <3>2. \A m \in 1 .. n : f[m] = [t \in Nat |-> t + Len(q[m].items)][f[m - 1]] BY <1>f, <3>1
    <3>3. QED BY <2>6, <3>2
  <2>9. QED BY <2>5, <2>6, <2>7, <2>8
<1>4. 0 \in S BY <1>1, <1>f, <1>h
<1>5. ASSUME NEW m \in 1 .. n, m - 1 \in S PROVE m \in S
  <2> HIDE DEF n
  <2>1. m \in 1 .. n + 1 /\ m \in 0 .. n BY <1>1
  <2>2. h[m] = f[m] BY <1>1, <1>g, <1>5, <2>1
  <2>3. QED BY <2>1, <2>2
<1>6. h[n] = f[n]
  <2> HIDE DEF S, n
  <2>1. 0 .. n \subseteq S BY <1>1, <1>4, <1>5, UpTo
  <2>2. n \in 0 .. n BY <1>1
  <2>3. QED BY <2>1, <2>2 DEF S
<1>7. n + 1 \in 1 .. n + 1 /\ (n + 1) - 1 = n BY <1>1
<1> HIDE DEF n
<1>8. h[n + 1] = f[n] + Len(c.items) BY <1>1, <1>6, <1>7, <1>g
<1>9. QED BY <1>1, <1>2, <1>3, <1>8 DEF r, n

LEMMA Prefix ==
  ASSUME NEW S, NEW q \in Seq(S)
  PROVE  /\ SubSeq(q, 1, 0) = <<>> /\ SubSeq(q, 1, Len(q)) = q
         /\ \A i \in 1 .. Len(q) : SubSeq(q, 1, i - 1) \in Seq(S) /\ SubSeq(q, 1, i) = Append(SubSeq(q, 1, i - 1), q[i])
OBVIOUS

LEMMA PrefixLength ==
  ASSUME NEW q \in Seq(ListCommands)
  PROVE  /\ Length(SubSeq(q, 1, 0)) = 0 /\ Length(SubSeq(q, 1, Len(q))) = Length(q)
         /\ \A i \in 1 .. Len(q) :
              /\ Length(SubSeq(q, 1, i - 1)) \in Nat
              /\ Length(SubSeq(q, 1, i)) = Length(SubSeq(q, 1, i - 1)) + Len(q[i].items)
<1>1. Length(SubSeq(q, 1, 0)) = 0 /\ Length(SubSeq(q, 1, Len(q))) = Length(q) BY Prefix, LengthNone
<1>2. ASSUME NEW i \in 1 .. Len(q)
      PROVE  /\ Length(SubSeq(q, 1, i - 1)) \in Nat
             /\ Length(SubSeq(q, 1, i)) = Length(SubSeq(q, 1, i - 1)) + Len(q[i].items)
  <2> DEFINE p == SubSeq(q, 1, i - 1)
             c == q[i]
  <2>1. p \in Seq(ListCommands) /\ SubSeq(q, 1, i) = Append(p, c) BY Prefix
  <2>2. c \in ListCommands OBVIOUS
  <2> HIDE DEF p, c
  <2>3. Length(p) \in Nat BY <2>1, LengthIs
  <2>4. Length(Append(p, c)) = Length(p) + Len(c.items) BY <2>1, <2>2, LengthAppend
  <2>5. QED BY <2>1, <2>3, <2>4 DEF p, c
<1>3. QED BY <1>1, <1>2

\* The commands as they run: the elements of each are numbered from the last one pushed before it.
LEMMA NumberedIs ==
  ASSUME NEW q \in Seq(ListCommands), pushed \in Nat
  PROVE  /\ NumberedItems(q) \in Seq(ListCommands) /\ Len(NumberedItems(q)) = Len(q)
         /\ \A i \in 1 .. Len(q) : /\ Fresh(NumberedItems(q)[i].items, pushed + Length(SubSeq(q, 1, i - 1)))
                                   /\ Len(NumberedItems(q)[i].items) = Len(q[i].items)
<1>1. ASSUME NEW c \in ListCommands, NEW m \in Nat
      PROVE  /\ WithValues(c, m) \in ListCommands /\ Len(WithValues(c, m).items) = Len(c.items)
             /\ Fresh(WithValues(c, m).items, m)
  <2> DEFINE e == c.items
             n == Len(e)
             r == [i \in 1 .. n |-> m + i]
             d == WithValues(c, m)
  <2>1. e \in Seq(Nat) /\ n \in Nat /\ (n = 0 <=> e = <<>>) BY ListCommandIs, ToSetIs
  <2>2. d = [c EXCEPT !.items = r]
    <3> HIDE DEF e
    <3>1. DOMAIN e = 1 .. n BY <2>1
    <3>2. QED BY <3>1 DEF WithValues, e
  <2> HIDE DEF n, e
  <2>3. r \in Seq(Nat) /\ Len(r) = n BY <2>1
  <2>4. (r = <<>> <=> e = <<>>) BY <2>1, <2>3, ToSetIs
  <2>5. IsInjective(r) /\ ToSet(r) = m + 1 .. m + n
    <3>1. \A i, j \in 1 .. Len(r) : r[i] = r[j] => i = j BY <2>1, <2>3
    <3>2. \A x \in m + 1 .. m + n : x - m \in 1 .. n /\ r[x - m] = x BY <2>1
    <3>3. \A i \in 1 .. n : r[i] \in m + 1 .. m + n BY <2>1
    <3>5. ToSet(r) \in SUBSET Nat /\ \A x : x \in ToSet(r) <=> \E i \in 1 .. n : r[i] = x BY <2>3, ToSetIs
    <3>6. IsInjective(r) BY <2>3, <3>1, IsInjectiveIs
    <3> HIDE DEF r
    <3>4. QED BY <3>2, <3>3, <3>5, <3>6
  <2> HIDE DEF r
  <2>6. d \in ListCommands /\ d.items = r BY <2>2, <2>3, <2>4 DEF ListCommands, e
  <2>7. QED BY <2>3, <2>5, <2>6 DEF Fresh, d, n, e
<1> DEFINE r == NumberedItems(q)
<1>2. DOMAIN q = 1 .. Len(q) /\ Len(q) \in Nat OBVIOUS
<1>3. \A i \in 1 .. Len(q) : r[i] = WithValues(q[i], pushed + Length(SubSeq(q, 1, i - 1))) BY <1>2 DEF NumberedItems
<1>4. \A i \in 1 .. Len(q) : q[i] \in ListCommands /\ pushed + Length(SubSeq(q, 1, i - 1)) \in Nat
  <2>1. \A i \in 1 .. Len(q) : Length(SubSeq(q, 1, i - 1)) \in Nat BY PrefixLength
  <2>2. QED BY <2>1
<1>5. \A i \in 1 .. Len(q) : /\ r[i] \in ListCommands
                             /\ Fresh(r[i].items, pushed + Length(SubSeq(q, 1, i - 1)))
                             /\ Len(r[i].items) = Len(q[i].items)
  <2> HIDE DEF r
  <2>1. QED BY ZenonT(30), <1>1, <1>3, <1>4
<1>6. r \in Seq(ListCommands) /\ Len(r) = Len(q)
  <2>1. r = [i \in 1 .. Len(q) |-> WithValues(q[i], pushed + Length(SubSeq(q, 1, i - 1)))] BY <1>2 DEF NumberedItems
  <2> HIDE DEF r
  <2>2. r \in [1 .. Len(q) -> ListCommands] BY <1>5, <2>1
  <2>3. QED BY <1>2, <2>2
<1>7. QED BY <1>5, <1>6

-----------------------------------------------------------------------------
(* The commands of a request run *)

\* One command: its elements are counted, and it is propagated when it changed something.
LEMMA CallIs ==
  ASSUME BlockTypes, BlockingAssumption, NEW s, NEW n \in Nat, Settled(s, n), NEW c \in ListCommands, Fresh(c.items, n),
         NEW t, t = CallList(s, c)
  PROVE  /\ Settled(t, n + Len(c.items))
         /\ t.store = StoreAfter(s.store, c) /\ t.taken = s.taken \cup TakenBy(s.store, c)
         /\ t.blocking = s.blocking /\ t.waiting = s.waiting /\ t.given = s.given
<1> DEFINE z == [s EXCEPT !.dirty = FALSE]
           u == ListProc(z, c)
           st == StoreAfter(s.store, c)
           tk == s.taken \cup TakenBy(s.store, c)
           ot == IF u.dirty THEN Append(s.out, c) ELSE s.out
           m == n + Len(c.items)
<1>0. s \in LWork /\ TidyStore(s.store) /\ Sound(s, n) /\ SignalledBut(s, {}) BY DEF Settled, Sound
<1>1. /\ z \in LWork /\ z.store = s.store /\ z.blocking = s.blocking /\ z.ready = s.ready /\ z.out = s.out
      /\ z.taken = s.taken /\ z.waiting = s.waiting /\ z.given = s.given
      BY <1>0 DEF LWork
<1> HIDE DEF z
<1>2. Turns(z, u, st, tk)
  <2>1. Turns(z, ListProc(z, c), StoreAfter(z.store, c), z.taken \cup TakenBy(z.store, c)) BY <1>0, <1>1, ListProcIs
  <2>2. QED BY <1>1, <2>1
<1> HIDE DEF u, st, tk
<1>3. /\ u \in LWork /\ u.store = st /\ u.taken = tk /\ u.blocking = s.blocking /\ u.out = s.out
      /\ u.waiting = s.waiting /\ u.given = s.given /\ Signals(z, u) /\ (u.dirty \/ st = s.store)
      BY <1>1, <1>2 DEF Turns, SameClients
<1>4. s.out \in Seq(ListCommands) /\ s.store \in Stores /\ ot \in Seq(ListCommands)
  <2>1. s.out \in Seq(ListCommands) /\ s.store \in Stores BY <1>0, LWorkIs
  <2>2. Append(s.out, c) \in Seq(ListCommands) BY <2>1, AppendIs
  <2>3. QED BY <2>1, <2>2
<1>5. t = [u EXCEPT !.out = ot]
  <2>1. t = [u EXCEPT !.out = IF u.dirty THEN Append(u.out, c) ELSE u.out] BY DEF CallList, u, z
  <2>2. QED BY <1>3, <2>1
<1> HIDE DEF ot
<1>6. /\ t \in LWork /\ t.store = st /\ t.taken = tk /\ t.blocking = s.blocking /\ t.out = ot /\ t.ready = u.ready
      /\ t.waiting = s.waiting /\ t.given = s.given
      BY <1>3, <1>4, <1>5 DEF LWork
<1>7. TidyStore(st) /\ st \in Stores BY <1>0, <1>4, StoreAfterIs DEF st
<1>8. Copied(ot) = Norm(st)
  <2>1. Norm(st) = st /\ Norm(s.store) = s.store BY <1>0, <1>4, <1>7, NormTidy
  <2>2. Copied(s.out) = s.store BY <1>0, <2>1 DEF Sound
  <2>3. CASE u.dirty
    <3>1. ot = Append(s.out, c) BY <2>3 DEF ot
    <3>2. Copied(Append(s.out, c)) = StoreAfter(Copied(s.out), c) BY <1>4, CopiedAppend
    <3>3. QED BY <2>1, <2>2, <3>1, <3>2 DEF st
  <2>4. CASE ~u.dirty
    <3>1. ot = s.out /\ st = s.store BY <1>3, <2>4 DEF ot
    <3>2. QED BY <2>1, <2>2, <3>1
  <2>5. QED BY <2>3, <2>4
<1>9. OnePlace(st, s.given, gone \cup tk, m)
  <2> DEFINE T == gone \cup s.taken
  <2>1. OnePlace(s.store, s.given, T, n) BY <1>0 DEF Sound
  <2> HIDE DEF T
  <2>2. OnePlace(StoreAfter(s.store, c), s.given, T \cup TakenBy(s.store, c), n + Len(c.items)) BY <1>0, <1>4, <2>1, PlaceAfter
  <2>3. T \cup TakenBy(s.store, c) = gone \cup tk BY DEF T, tk
  <2>4. QED BY <2>2, <2>3 DEF st
<1>10. /\ IsInjective(u.ready) /\ ToSet(s.ready) \subseteq ToSet(u.ready) /\ Len(u.ready) \in Nat
  <2>1. IsInjective(z.ready) BY <1>0, <1>1 DEF Sound
  <2>2. IsInjective(u.ready) /\ ToSet(z.ready) \subseteq ToSet(u.ready) /\ Len(u.ready) \in Nat
        BY <1>1, <1>3, <2>1, ReadyGrows
  <2>3. QED BY <1>1, <2>2
<1> HIDE DEF m
<1>11. Sound(t, m)
  <2>1. Queues(t) BY <1>0, <1>6 DEF Sound, Queues
  <2>2. QED BY <1>6, <1>8, <1>9, <1>10, <2>1 DEF Sound
<1>12. SignalledBut(t, {})
  <2>1. ASSUME NEW j \in Lists, st[j].type = "list", s.blocking[j] # <<>> PROVE j \in ToSet(u.ready)
    <3>1. CASE s.store[j].type = "list"
      <4>1. j \in ToSet(s.ready) BY <1>0, <2>1, <3>1 DEF SignalledBut
      <4>2. QED BY <1>10, <4>1
    <3>2. CASE s.store[j].type # "list"
      <4>1. z.store[j].type # "list" /\ u.store[j].type = "list" /\ z.blocking[j] # <<>> BY <1>1, <1>3, <2>1, <3>2
      <4>2. QED BY <1>3, <2>1, <4>1 DEF Signals
    <3>3. QED BY <3>1, <3>2
  <2>2. QED BY <1>6, <2>1 DEF SignalledBut
<1>13. Measure(t) \in Nat
  <2>1. Blocked(t) \in SUBSET Waiters BY DEF Blocked
  <2>2. IsFiniteSet(Blocked(t)) BY <2>1, FS_Subset DEF BlockingAssumption
  <2>3. Cardinality(Blocked(t)) \in Nat BY <2>2, FS_CardinalityType
  <2>4. QED BY <1>6, <1>10, <2>3 DEF Measure
<1>14. QED BY <1>6, <1>7, <1>11, <1>12, <1>13 DEF Settled, m, st, tk

\* All of them, in order.
LEMMA CallAllIs ==
  ASSUME BlockTypes, BlockingAssumption, NEW s, Settled(s, pushed), NEW q \in Seq(ListCommands),
         NEW t, t = CallAll(s, NumberedItems(q))
  PROVE  Settled(t, pushed + Length(q))
<1> DEFINE T == TidyWork
           E == ListCommands
           r == NumberedItems(q)
           N == Len(q)
           At(i) == pushed + Length(SubSeq(q, 1, i))
<1>0. pushed \in Nat /\ N \in Nat BY DEF BlockTypes
<1>1. /\ r \in Seq(ListCommands) /\ Len(r) = N
      /\ \A i \in 1 .. N : Fresh(r[i].items, At(i - 1)) /\ Len(r[i].items) = Len(q[i].items)
      BY <1>0, NumberedIs
<1>2. s \in T /\ s \in LWork BY DEF Settled, Sound, TidyWork
<1>3. \A u \in T, x \in E : CallList(u, x) \in T
  <2>1. ASSUME NEW u \in TidyWork, NEW x \in ListCommands PROVE CallList(u, x) \in TidyWork
    <3> DEFINE z == [u EXCEPT !.dirty = FALSE]
               y == ListProc(z, x)
    <3>1. u \in LWork /\ TidyStore(u.store) BY DEF TidyWork
    <3>2. z \in TidyWork
      <4>1. z \in LWork /\ z.store = u.store BY <3>1 DEF LWork
      <4>2. QED BY <3>1, <4>1 DEF TidyWork
    <3> HIDE DEF z
    <3>3. y \in TidyWork BY <3>2, TidyClosed
    <3>4. CallList(u, x) = [y EXCEPT !.out = IF y.dirty THEN Append(y.out, x) ELSE y.out] BY DEF CallList, y, z
    <3> HIDE DEF y
    <3> DEFINE ot == IF y.dirty THEN Append(y.out, x) ELSE y.out
    <3>5. y \in LWork /\ TidyStore(y.store) BY <3>3 DEF TidyWork
    <3>6. ot \in Seq(ListCommands)
      <4>1. y.out \in Seq(ListCommands) BY <3>5, LWorkIs
      <4>2. Append(y.out, x) \in Seq(ListCommands) BY <4>1, AppendIs
      <4>3. QED BY <4>1, <4>2
    <3>7. CallList(u, x) = [y EXCEPT !.out = ot] BY <3>4
    <3> HIDE DEF ot
    <3> DEFINE a == CallList(u, x)
    <3> HIDE DEF a
    <3>8. a \in LWork /\ a.store = y.store BY <3>5, <3>6, <3>7 DEF LWork, a
    <3>9. QED BY <3>5, <3>8 DEF TidyWork, a
  <2>2. QED BY <2>1
<1> HIDE DEF T, E, r, N
<1>b. s \in T /\ r \in Seq(E) BY <1>1, <1>2 DEF E
<1>4. \E f : Traced(f, Len(r), T, s, CallSteps(T, r)) /\ CallAll(s, r) = f[Len(r)]
      BY ONLY <1>b, <1>3, CallListTrace
<1>5. PICK f : Traced(f, N, T, s, CallSteps(T, r)) /\ CallAll(s, r) = f[N] BY <1>1, <1>4
<1>6. /\ f \in [0 .. N -> T] /\ f[0] = s
      /\ \A i \in 1 .. N : f[i - 1] \in T /\ f[i] = CallList(f[i - 1], r[i])
  <2>0. CallSteps(T, r) = [j \in 1 .. N |-> [u \in T |-> CallList(u, r[j])]] BY <1>1 DEF CallSteps
  <2>1. /\ f \in [0 .. N -> T] /\ f[0] = s
        /\ \A i \in 1 .. N : f[i] = [j \in 1 .. N |-> [u \in T |-> CallList(u, r[j])]][i][f[i - 1]]
        BY <1>5, <2>0 DEF Traced
  <2>2. \A i \in 1 .. N : i - 1 \in 0 .. N BY <1>0
  <2>3. QED BY <2>1, <2>2
<1> DEFINE S == {i \in 0 .. N : Settled(f[i], At(i))}
<1>l. /\ At(0) = pushed /\ At(N) = pushed + Length(q)
      /\ \A i \in 1 .. N : At(i - 1) \in Nat /\ At(i) = At(i - 1) + Len(q[i].items)
  <2>1. /\ Length(SubSeq(q, 1, 0)) = 0 /\ Length(SubSeq(q, 1, Len(q))) = Length(q)
        /\ \A i \in 1 .. Len(q) : /\ Length(SubSeq(q, 1, i - 1)) \in Nat
                                  /\ Length(SubSeq(q, 1, i)) = Length(SubSeq(q, 1, i - 1)) + Len(q[i].items)
        BY PrefixLength
  <2>3. \A i \in 1 .. N : Len(q[i].items) \in Nat
    <3>1. ASSUME NEW i \in 1 .. N PROVE Len(q[i].items) \in Nat
      <4>1. q[i] \in ListCommands BY DEF N
      <4>2. q[i].items \in Seq(Nat) BY <4>1, ListCommandIs
      <4>3. QED BY <4>2
    <3>2. QED BY <3>1
  <2>2. At(0) = pushed /\ At(N) = pushed + Length(q) BY <1>0, <2>1 DEF N
  <2>4. ASSUME NEW i \in 1 .. N PROVE At(i - 1) \in Nat /\ At(i) = At(i - 1) + Len(q[i].items)
    <3> DEFINE a == Length(SubSeq(q, 1, i - 1))
               b == Length(SubSeq(q, 1, i))
    <3>1. a \in Nat /\ b = a + Len(q[i].items) BY <2>1 DEF N
    <3>2. At(i - 1) = pushed + a /\ At(i) = pushed + b OBVIOUS
    <3>3. Len(q[i].items) \in Nat BY <2>3
    <3> HIDE DEF a, b, At
    <3>4. QED BY <1>0, <3>1, <3>2, <3>3
  <2>5. QED BY <2>2, <2>4
<1> HIDE DEF At
<1>7. 0 \in S BY <1>0, <1>6, <1>l
<1>8. ASSUME NEW i \in 1 .. N, i - 1 \in S PROVE i \in S
  <2> DEFINE u == f[i - 1]
             y == f[i]
             c == r[i]
             n == At(i - 1)
  <2>1. y = CallList(u, c) /\ Settled(u, n) /\ n \in Nat BY <1>6, <1>8, <1>l
  <2>2. c \in ListCommands /\ Fresh(c.items, n) /\ At(i) = n + Len(c.items)
    <3>1. c \in ListCommands BY <1>1
    <3>2. QED BY <1>1, <1>l, <3>1
  <2> HIDE DEF u, y, c, n
  <2>3. Settled(y, n + Len(c.items)) BY <2>1, <2>2, CallIs
  <2>4. i \in 0 .. N BY <1>0
  <2>5. QED BY <2>2, <2>3, <2>4 DEF y
<1>9. N \in S
  <2> HIDE DEF S
  <2>1. 0 .. N \subseteq S BY <1>0, <1>7, <1>8, UpTo
  <2>2. N \in 0 .. N BY <1>0
  <2>3. QED BY <2>1, <2>2
<1>10. t = f[N] /\ Settled(f[N], At(N)) BY <1>5, <1>9 DEF r
<1>11. QED BY <1>10, <1>l

-----------------------------------------------------------------------------
(* The invariant of the lists and the clients that wait *)

BlockInv ==
  /\ BlockTypes /\ (\A c \in Waiters : waiting[c] \in Blocks[c] \cup {NotBlocked})
  /\ Agree(blocking, waiting) /\ OnePlace(store, served, gone, pushed) /\ NobodyWaitsForElements

\* What a command starts from.
LEMMA BlockStartIs ==
  ASSUME BlockInv, BlockingAssumption, NEW s, s = ListState(store, blocking)
  PROVE  Settled(s, pushed) /\ s.taken = {} /\ s.given = served /\ s.store = store /\ s.waiting = waiting
         /\ s.blocking = blocking /\ s.out = <<>>
<1>0. BlockTypes /\ Agree(blocking, waiting) /\ OnePlace(store, served, gone, pushed) BY DEF BlockInv
<1>t. /\ store \in Stores /\ TidyStore(store) /\ copy = store
      /\ waiting \in [Waiters -> BlockCommands \cup {NotBlocked}] /\ blocking \in [Lists -> Seq(Waiters)]
      BY <1>0 DEF BlockTypes
<1> DEFINE e == <<>>
<1>1. /\ s \in LWork /\ s.store = store /\ s.blocking = blocking /\ s.ready = e /\ s.out = e /\ s.taken = {}
      /\ s.waiting = waiting /\ s.given = served BY <1>0, <1>t, ListStateIs
<1>e. ToSet(e) = {} /\ IsInjective(e) /\ Len(e) = 0 /\ \A k \in Lists : \A x \in ToSet(blocking[k]) : blocking[k] # e
  <2>1. \A k \in Lists : \A x \in ToSet(blocking[k]) : blocking[k] # e BY <1>t, ToSetIs
  <2>2. QED BY <2>1, EmptyIs
<1>c. Copied(e) = Norm(store)
  <2>1. Copied(<<>>) = copy BY <1>0, CopiedNone
  <2>2. Norm(store) = store BY <1>t, NormTidy
  <2>3. QED BY <1>t, <2>1, <2>2
<1> HIDE DEF e
<1>2. Queues(s)
  <2>1. InOrder(blocking) BY <1>t DEF InOrder, Before
  <2>2. StillOrNot(waiting) BY DEF StillOrNot
  <2>3. FairTo(waiting, served) BY DEF FairTo
  <2>4. QED BY <1>0, <1>1, <2>1, <2>2, <2>3 DEF Queues
<1>3. gone \cup s.taken = gone BY <1>1
<1>4. Sound(s, pushed) BY <1>0, <1>1, <1>2, <1>3, <1>e, <1>c DEF Sound
<1>5. SignalledBut(s, {})
  <2>1. ASSUME NEW k \in Lists, store[k].type = "list", blocking[k] # <<>> PROVE FALSE
    <3> DEFINE q == blocking[k]
               c == Head(q)
    <3>1. q \in Seq(Waiters) BY <1>t
    <3> HIDE DEF q
    <3>2. q # <<>> BY <2>1 DEF q
    <3>3. c \in ToSet(q) /\ c \in Waiters BY <3>1, <3>2, TailIs
    <3> HIDE DEF c
    <3>4. k \in ToSet(waiting[c].keys) BY <1>0, <3>3 DEF Agree, q
    <3>5. QED BY <2>1, <3>3, <3>4 DEF BlockInv, NobodyWaitsForElements
  <2>2. QED BY <1>1, <2>1 DEF SignalledBut
<1>6. Measure(s) \in Nat
  <2>1. Blocked(s) \in SUBSET Waiters BY DEF Blocked
  <2>2. IsFiniteSet(Blocked(s)) BY <2>1, FS_Subset DEF BlockingAssumption
  <2>3. Cardinality(Blocked(s)) \in Nat BY <2>2, FS_CardinalityType
  <2>4. QED BY <1>1, <1>e, <2>3 DEF Measure
<1>7. TidyStore(s.store) BY <1>t, <1>1
<1>8. QED BY <1>1, <1>4, <1>5, <1>6, <1>7 DEF Settled, e

\* The end of every command that may have made a key ready.
LEMMA FinishIs ==
  ASSUME BlockInv, BlockingAssumption, NEW s, Settled(s, pushed'), pushed' \in Nat, pushed' <= MaxPush, Finish(s)
  PROVE  BlockInv' /\ ServedInTurn
<1>0. /\ BlockTypes /\ Agree(blocking, waiting)
      /\ waiting \in [Waiters -> BlockCommands \cup {NotBlocked}] /\ blocking \in [Lists -> Seq(Waiters)]
      BY DEF BlockInv, BlockTypes
<1> DEFINE t == HandleClientsBlockedOnLists(s)
           n == pushed'
<1>1. t = HandleClientsBlockedOnLists(s) OBVIOUS
<1>f. /\ store' = t.store /\ waiting' = t.waiting /\ blocking' = t.blocking /\ readyKeys' = t.ready
      /\ served' = t.given /\ gone' = gone \cup t.taken /\ copy' = Copied(t.out) BY DEF Finish
<1> HIDE DEF t
<1>2. Settled(t, n) /\ t.ready = <<>> BY <1>0, <1>1, HandleIs
<1>3. t \in LWork /\ TidyStore(t.store) /\ Sound(t, n) BY <1>2 DEF Settled, Sound
<1>4. /\ t.store \in Stores /\ t.blocking \in [Lists -> Seq(Waiters)] /\ t.taken \in SUBSET Nat
      /\ t.waiting \in [Waiters -> BlockCommands \cup {NotBlocked}] /\ t.given \in [Waiters -> SUBSET Nat]
      BY <1>3, LWorkIs
<1>5. Queues(t) /\ Copied(t.out) = Norm(t.store) /\ OnePlace(t.store, t.given, gone \cup t.taken, n) BY <1>3 DEF Sound
<1>6. Norm(t.store) = t.store BY <1>3, <1>4, NormTidy
<1>7. BlockTypes'
  <2>1. gone \in SUBSET Nat BY <1>0 DEF BlockTypes
  <2>2. gone \cup t.taken \in SUBSET Nat BY <1>4, <2>1
  <2>3. /\ store' \in Stores /\ TidyStore(store') /\ copy' = store'
        /\ waiting' \in [Waiters -> BlockCommands \cup {NotBlocked}] /\ blocking' \in [Lists -> Seq(Waiters)]
        /\ readyKeys' = <<>> /\ pushed' \in Nat /\ pushed' <= MaxPush
        /\ served' \in [Waiters -> SUBSET Nat] /\ gone' \in SUBSET Nat
        BY <1>2, <1>3, <1>4, <1>5, <1>6, <1>f, <2>2
  <2>4. QED BY <2>3 DEF BlockTypes
<1>8. \A c \in Waiters : waiting'[c] \in Blocks[c] \cup {NotBlocked}
  <2>1. StillOrNot(t.waiting) BY <1>5 DEF Queues
  <2>2. \A c \in Waiters : waiting[c] \in Blocks[c] \cup {NotBlocked} BY DEF BlockInv
  <2>3. QED BY <1>f, <2>1, <2>2 DEF StillOrNot
<1>9. Agree(blocking', waiting') BY <1>5, <1>f DEF Queues
<1>10. OnePlace(store', served', gone', pushed') BY <1>5, <1>f
<1>11. \A c \in Waiters : \A k \in ToSet(waiting'[c].keys) : store'[k].type # "list"
  <2>1. ASSUME NEW c \in Waiters, NEW k \in ToSet(waiting'[c].keys), store'[k].type = "list" PROVE FALSE
    <3>1. waiting'[c].keys \in Seq(Lists)
      <4>1. waiting'[c] \in BlockCommands \cup {NotBlocked} BY <1>4, <1>f
      <4>2. CASE waiting'[c] \in BlockCommands BY <4>2, KeysAre
      <4>3. CASE waiting'[c] = NotBlocked BY <4>3, KeysAre, EmptyIs
      <4>4. QED BY <4>1, <4>2, <4>3
    <3>2. k \in Lists BY <3>1, ToSetIs
    <3>3. c \in ToSet(blocking'[k]) BY <1>9, <3>2 DEF Agree
    <3>4. blocking'[k] # <<>>
      <4>1. blocking'[k] \in Seq(Waiters) BY <1>4, <1>f, <3>2
      <4>2. QED BY <3>3, <4>1, ToSetIs
    <3>5. k \in ToSet(t.ready) BY <1>2, <1>f, <2>1, <3>2, <3>4 DEF Settled, SignalledBut
    <3>6. ToSet(t.ready) = {} BY <1>2, EmptyIs
    <3>7. QED BY <3>5, <3>6
  <2>2. QED BY <2>1
<1>12. BlockInv' BY <1>7, <1>8, <1>9, <1>10, <1>11 DEF BlockInv, NobodyWaitsForElements
<1>13. ServedInTurn
  <2>1. ASSUME NEW c \in Waiters, NEW d \in Waiters, NEW k \in Lists, Before(c, d, k), waiting[d].keys = <<k>>,
               served'[d] # served[d]
        PROVE  waiting'[c] # waiting[c]
    <3>1. FairTo(t.waiting, t.given) BY <1>5 DEF Queues
    <3>2. waiting'[c] = NotBlocked BY <1>f, <2>1, <3>1 DEF FairTo
    <3>3. c \in ToSet(blocking[k])
      <4>1. PICK i \in DOMAIN blocking[k] : blocking[k][i] = c BY <2>1 DEF Before
      <4>2. blocking[k] \in Seq(Waiters) BY <1>0
      <4>3. i \in 1 .. Len(blocking[k]) BY <4>1, <4>2
      <4>4. QED BY <4>1, <4>2, <4>3, ToSetIs
    <3>4. k \in ToSet(waiting[c].keys) BY <1>0, <3>3 DEF Agree
    <3>5. waiting[c] # NotBlocked BY <3>4, KeysAre
    <3>6. QED BY <3>2, <3>5
  <2>2. QED BY <2>1 DEF ServedInTurn
<1>14. QED BY <1>12, <1>13

\* A request of a client that does not block.
LEMMA RunKeeps ==
  ASSUME BlockInv, BlockingAssumption, NEW q \in ListCmds, Run(q)
  PROVE  BlockInv' /\ ServedInTurn
<1>0. q \in Seq(ListCommands) /\ BlockTypes /\ pushed \in Nat BY DEF BlockInv, BlockTypes, BlockingAssumption
<1> DEFINE s == ListState(store, blocking)
           t == CallAll(s, NumberedItems(q))
<1>1. s = ListState(store, blocking) /\ t = CallAll(s, NumberedItems(q)) OBVIOUS
<1>2. pushed + Length(q) <= MaxPush /\ pushed' = pushed + Length(q) /\ Finish(t) BY DEF Run, CallAll
<1> HIDE DEF s, t
<1>3. Settled(s, pushed) BY <1>1, BlockStartIs
<1>4. Settled(t, pushed + Length(q)) BY <1>0, <1>1, <1>3, CallAllIs
<1>5. Length(q) \in Nat BY <1>0, LengthIs
<1>6. pushed' \in Nat /\ pushed' <= MaxPush BY <1>0, <1>2, <1>5
<1>7. Settled(t, pushed') BY <1>2, <1>4
<1>8. QED BY <1>2, <1>6, <1>7, FinishIs

LEMMA MoveKeeps ==
  ASSUME BlockInv, BlockingAssumption, NEW k \in Lists, NEW l \in Lists, pushed' = pushed,
         Finish(CallList(ListState(store, blocking), LCmd("RPOPLPUSH", k, l, <<>>)))
  PROVE  BlockInv' /\ ServedInTurn
<1> DEFINE s == ListState(store, blocking)
           e == <<>>
           c == LCmd("RPOPLPUSH", k, l, e)
           t == CallList(s, c)
<1>0. BlockTypes /\ pushed \in Nat /\ pushed <= MaxPush BY DEF BlockInv, BlockTypes
<1>e. e \in Seq(Nat) /\ Len(e) = 0 /\ ToSet(e) = {} /\ IsInjective(e) BY EmptyIs
<1>1. s = ListState(store, blocking) /\ t = CallList(s, c) /\ Finish(t) OBVIOUS
<1>2. c = [name |-> "RPOPLPUSH", key |-> k, to |-> l, items |-> e] BY DEF LCmd
<1>n. e = <<>> OBVIOUS
<1> HIDE DEF s, t, c, e
<1>3. c \in ListCommands /\ c.items = e BY <1>2, <1>e, <1>n DEF ListCommands
<1>4. Fresh(c.items, pushed)
  <2>1. pushed + 1 .. pushed + Len(e) = {} BY <1>0, <1>e
  <2>2. QED BY <1>3, <1>e, <2>1 DEF Fresh
<1>5. Settled(s, pushed) BY <1>1, BlockStartIs
<1>6. Settled(t, pushed + Len(c.items)) BY <1>0, <1>1, <1>3, <1>4, <1>5, CallIs
<1>7. Settled(t, pushed') BY <1>0, <1>3, <1>e, <1>6
<1>8. QED BY <1>0, <1>1, <1>7, FinishIs

\* A client that finds all its keys missing waits for them.
LEMMA BlockKeeps ==
  ASSUME BlockInv, BlockingAssumption, NEW c \in Waiters, NEW b \in Blocks[c], waiting[c] = NotBlocked,
         \A k \in ToSet(b.keys) : store[k].type # "list", BlockForKeys(c, b)
  PROVE  BlockInv' /\ ServedInTurn
<1>0. /\ waiting \in [Waiters -> BlockCommands \cup {NotBlocked}] /\ blocking \in [Lists -> Seq(Waiters)]
      /\ Agree(blocking, waiting) /\ BlockTypes BY DEF BlockInv, BlockTypes
<1>1. b \in BlockCommands BY DEF BlockingAssumption
<1>2. /\ waiting' = [waiting EXCEPT ![c] = b]
      /\ blocking' = [k \in Lists |-> IF k \in ToSet(b.keys) THEN Append(blocking[k], c) ELSE blocking[k]]
      /\ store' = store /\ readyKeys' = readyKeys /\ pushed' = pushed /\ served' = served /\ gone' = gone /\ copy' = copy
      BY DEF BlockForKeys
<1>3. \A d \in Waiters : waiting'[d] = IF d = c THEN b ELSE waiting[d] BY <1>0, <1>2
<1>4. \A k \in Lists : /\ blocking[k] \in Seq(Waiters) /\ c \notin ToSet(blocking[k])
                       /\ Append(blocking[k], c) \in Seq(Waiters)
                       /\ ToSet(Append(blocking[k], c)) = ToSet(blocking[k]) \cup {c}
                       /\ IsInjective(Append(blocking[k], c))
  <2>1. ASSUME NEW k \in Lists
        PROVE  /\ blocking[k] \in Seq(Waiters) /\ c \notin ToSet(blocking[k])
               /\ Append(blocking[k], c) \in Seq(Waiters)
               /\ ToSet(Append(blocking[k], c)) = ToSet(blocking[k]) \cup {c}
               /\ IsInjective(Append(blocking[k], c))
    <3> DEFINE q == blocking[k]
    <3>1. q \in Seq(Waiters) /\ IsInjective(q) BY <1>0 DEF Agree
    <3>2. c \notin ToSet(q)
      <4>1. ToSet(waiting[c].keys) = {} BY KeysAre
      <4>2. c \in ToSet(blocking[k]) <=> k \in ToSet(waiting[c].keys) BY <1>0 DEF Agree
      <4>3. QED BY <4>1, <4>2
    <3> HIDE DEF q
    <3>3. Append(q, c) \in Seq(Waiters) /\ ToSet(Append(q, c)) = ToSet(q) \cup {c} /\ IsInjective(Append(q, c))
          BY <3>1, <3>2, AppendIs
    <3>4. QED BY <3>1, <3>2, <3>3 DEF q
  <2>2. QED BY <2>1
<1>5. Agree(blocking', waiting')
  <2>1. ASSUME NEW k \in Lists
        PROVE  IsInjective(blocking'[k]) /\ \A d \in Waiters : d \in ToSet(blocking'[k]) <=> k \in ToSet(waiting'[d].keys)
    <3>1. IsInjective(blocking[k]) /\ \A d \in Waiters : d \in ToSet(blocking[k]) <=> k \in ToSet(waiting[d].keys)
          BY <1>0 DEF Agree
    <3>2. CASE k \in ToSet(b.keys)
      <4>1. blocking'[k] = Append(blocking[k], c) BY <1>2, <3>2
      <4>2. IsInjective(blocking'[k]) /\ ToSet(blocking'[k]) = ToSet(blocking[k]) \cup {c} BY <1>4, <4>1
      <4>3. QED BY <1>3, <3>1, <3>2, <4>2
    <3>3. CASE k \notin ToSet(b.keys)
      <4>1. blocking'[k] = blocking[k] BY <1>2, <3>3
      <4>2. c \notin ToSet(blocking'[k]) BY <1>4, <4>1
      <4>3. QED BY <1>3, <3>1, <3>3, <4>1, <4>2
    <3>4. QED BY <3>2, <3>3
  <2>2. QED BY <2>1 DEF Agree
<1>6. BlockTypes'
  <2>1. waiting' \in [Waiters -> BlockCommands \cup {NotBlocked}] BY <1>0, <1>1, <1>2
  <2>2. blocking' \in [Lists -> Seq(Waiters)]
    <3>1. \A k \in Lists : (IF k \in ToSet(b.keys) THEN Append(blocking[k], c) ELSE blocking[k]) \in Seq(Waiters) BY <1>4
    <3>2. QED BY <1>2, <3>1
  <2>3. QED BY <1>0, <1>2, <2>1, <2>2 DEF BlockTypes
<1>7. \A d \in Waiters : waiting'[d] \in Blocks[d] \cup {NotBlocked} BY <1>3 DEF BlockInv
<1>8. \A d \in Waiters : \A k \in ToSet(waiting'[d].keys) : store'[k].type # "list"
      BY <1>2, <1>3 DEF BlockInv, NobodyWaitsForElements
<1>9. OnePlace(store', served', gone', pushed') BY <1>2 DEF BlockInv
<1>10. BlockInv' BY <1>5, <1>6, <1>7, <1>8, <1>9 DEF BlockInv, NobodyWaitsForElements
<1>11. ServedInTurn BY <1>2 DEF ServedInTurn
<1>12. QED BY <1>10, <1>11

\* BLPOP or BRPOP finds a list: the client is served at once.
LEMMA PopKeeps ==
  ASSUME BlockInv, BlockingAssumption, NEW c \in Waiters, NEW b \in BlockCommands, waiting[c] = NotBlocked,
         NEW k \in Lists, store[k].type = "list",
         NEW t, t = CallList(ListState(store, blocking), PopCommand(b, k)),
         store' = t.store, copy' = Copied(t.out), served' = [served EXCEPT ![c] = @ \cup t.taken],
         waiting' = waiting, blocking' = blocking, readyKeys' = readyKeys, pushed' = pushed, gone' = gone
  PROVE  BlockInv' /\ ServedInTurn
<1> DEFINE s == ListState(store, blocking)
           cmd == PopCommand(b, k)
           q == store[k].items
           r == Popped(q, b.where)
           v == List(r)
           x == [type |-> "list", items |-> r]
<1>0. /\ BlockTypes /\ Agree(blocking, waiting) /\ OnePlace(store, served, gone, pushed)
      /\ store \in Stores /\ TidyStore(store) /\ pushed \in Nat /\ served \in [Waiters -> SUBSET Nat]
      /\ waiting \in [Waiters -> BlockCommands \cup {NotBlocked}]
      BY DEF BlockInv, BlockTypes
<1>1. s = ListState(store, blocking) /\ t = CallList(s, cmd) OBVIOUS
<1> HIDE DEF s
<1>2. Settled(s, pushed) /\ s.taken = {} /\ s.given = served /\ s.store = store BY <1>1, BlockStartIs
<1>3. q \in Seq(Nat) /\ q # <<>> /\ IsInjective(q) BY <1>0, ContentsIs DEF TidyStore, TidyAt, OnePlace
<1>4. cmd \in ListCommands
  <2>1. s \in LWork /\ Copied(s.out) = Norm(s.store) BY <1>2 DEF Settled, Sound
  <2>2. s.store[k].type = "list" /\ s.store[k].items # <<>> BY <1>2, <1>3
  <2>3. x = [type |-> "list", items |-> Popped(s.store[k].items, b.where)] BY <1>2
  <2> HIDE DEF x
  <2>4. PopCommand(b, k) \in ListCommands BY <1>0, <2>1, <2>2, <2>3, PopCopied
  <2>5. QED BY <2>4
<1>5. cmd.key = k /\ cmd.items = <<>> /\ cmd.name = IF b.where = "head" THEN "LPOP" ELSE "RPOP" BY DEF PopCommand, LCmd
<1>w. b.where \in {"head", "tail"} BY KeysAre
<1>6. Fresh(cmd.items, pushed) /\ Len(cmd.items) = 0
  <2> DEFINE e == <<>>
  <2>1. Len(e) = 0 /\ ToSet(e) = {} /\ IsInjective(e) BY EmptyIs
  <2>2. cmd.items = e BY <1>5
  <2> HIDE DEF e, cmd
  <2>3. pushed + 1 .. pushed + Len(e) = {} BY <1>0, <2>1
  <2>4. QED BY <2>1, <2>2, <2>3 DEF Fresh
<1> HIDE DEF cmd
<1>7. /\ Settled(t, pushed + Len(cmd.items))
      /\ t.store = StoreAfter(s.store, cmd) /\ t.taken = s.taken \cup TakenBy(s.store, cmd)
  <2> DEFINE m == pushed
  <2>1. BlockTypes /\ BlockingAssumption /\ m \in Nat /\ Settled(s, m) /\ cmd \in ListCommands /\ Fresh(cmd.items, m)
        BY <1>0, <1>2, <1>4, <1>6
  <2>2. t = CallList(s, cmd) BY <1>1
  <2> HIDE DEF m
  <2>3. /\ Settled(t, m + Len(cmd.items))
        /\ t.store = StoreAfter(s.store, cmd) /\ t.taken = s.taken \cup TakenBy(s.store, cmd)
        BY ONLY <2>1, <2>2, CallIs
  <2>4. QED BY <2>3 DEF m
<1>8. Settled(t, pushed) /\ t.store = StoreAfter(store, cmd) /\ t.taken = TakenBy(store, cmd) BY <1>0, <1>2, <1>6, <1>7
<1>9. /\ r \in Seq(Nat) /\ IsInjective(r) /\ ToSet(r) \subseteq ToSet(q) /\ ToSet(q) \ ToSet(r) = {End(q, b.where)}
  <2> HIDE DEF q
  <2>1. QED BY <1>3, PopLeaves
<1>10. t.taken = {End(q, b.where)} /\ t.store = PutAt(store, k, v)
  <2>1. CASE b.where = "head"
    <3>1. cmd.name = "LPOP" BY <1>5, <2>1
    <3>2. TakenBy(store, cmd) = {Head(q)} BY <1>5, <3>1 DEF TakenBy
    <3>3. StoreAfter(store, cmd) = AfterPop(store, k, "head") BY <1>5, <3>1 DEF StoreAfter
    <3>4. End(q, b.where) = Head(q) BY <2>1 DEF End
    <3>5. AfterPop(store, k, "head") = PutAt(store, k, v) BY <2>1 DEF AfterPop
    <3>6. QED BY <1>8, <3>2, <3>3, <3>4, <3>5
  <2>2. CASE b.where = "tail"
    <3>1. cmd.name = "RPOP" BY <1>5, <2>2
    <3>2. TakenBy(store, cmd) = {Last(q)} BY <1>5, <3>1 DEF TakenBy
    <3>3. StoreAfter(store, cmd) = AfterPop(store, k, "tail") BY <1>5, <3>1 DEF StoreAfter
    <3>4. End(q, b.where) = Last(q) BY <2>2 DEF End
    <3>5. AfterPop(store, k, "tail") = PutAt(store, k, v) BY <2>2 DEF AfterPop
    <3>6. QED BY <1>8, <3>2, <3>3, <3>4, <3>5
  <2>3. QED BY <1>w, <2>1, <2>2
<1> HIDE DEF r
<1>11. v \in Values /\ v.items = r BY <1>9, ListIs
<1> HIDE DEF q, v
<1>12. OnePlace(store', served', gone', pushed')
  <2>1. ToSet(v.items) \subseteq ToSet(store[k].items) /\ IsInjective(v.items)
        /\ ToSet(store[k].items) \ ToSet(v.items) = t.taken BY <1>9, <1>10, <1>11 DEF q
  <2>2. OnePlace(PutAt(store, k, v), [served EXCEPT ![c] = served[c] \cup (ToSet(store[k].items) \ ToSet(v.items))], gone, pushed)
        BY <1>0, <1>11, <2>1, PlaceGiven
  <2>3. QED BY <1>10, <2>1, <2>2
<1>13. t \in LWork /\ TidyStore(t.store) /\ Copied(t.out) = Norm(t.store) BY <1>8 DEF Settled, Sound
<1>14. BlockTypes'
  <2>1. t.store \in Stores /\ t.taken \in SUBSET Nat BY <1>13, LWorkIs
  <2>2. Copied(t.out) = t.store BY <1>13, <2>1, NormTidy
  <2>3. served' \in [Waiters -> SUBSET Nat] BY <1>0, <2>1
  <2>4. QED BY <1>0, <1>13, <2>1, <2>2, <2>3 DEF BlockTypes
<1>15. \A d \in Waiters : \A l \in ToSet(waiting'[d].keys) : store'[l].type # "list"
  <2>1. ASSUME NEW d \in Waiters, NEW l \in ToSet(waiting[d].keys) PROVE store'[l].type # "list"
    <3>1. store[l].type # "list" BY DEF BlockInv, NobodyWaitsForElements
    <3>2. l # k BY <3>1
    <3>3. store'[l] = store[l] BY <1>10, <3>2 DEF PutAt
    <3>4. QED BY <3>1, <3>3
  <2>2. QED BY <2>1
<1>16. BlockInv' BY <1>0, <1>12, <1>14, <1>15 DEF BlockInv, NobodyWaitsForElements
<1>17. ServedInTurn
  <2>1. ASSUME NEW d \in Waiters, NEW l \in Lists, waiting[d].keys = <<l>>, served'[d] # served[d] PROVE FALSE
    <3>1. d = c BY <1>0, <2>1
    <3>2. waiting[d].keys = <<>> BY <3>1, KeysAre
    <3>3. <<l>> # <<>> BY SingleIs
    <3>4. QED BY <2>1, <3>2, <3>3
  <2>2. QED BY <2>1 DEF ServedInTurn
<1>18. QED BY <1>16, <1>17

\* BLPOP and BRPOP look at their keys in order.
LEMMA BlockingPopKeeps ==
  ASSUME BlockInv, BlockingAssumption, NEW c \in Waiters, NEW b \in Blocks[c], BlockingPop(c, b)
  PROVE  BlockInv' /\ ServedInTurn
<1> DEFINE there == {i \in DOMAIN b.keys : store[b.keys[i]].type # "none"}
           j == CHOOSE i \in there : \A l \in there : i <= l
           k == b.keys[j]
           t == CallList(ListState(store, blocking), PopCommand(b, k))
<1>0. b \in BlockCommands /\ b.keys \in Seq(Lists) /\ waiting[c] = NotBlocked BY KeysAre DEF BlockingPop, BlockingAssumption
<1>d. DOMAIN b.keys = 1 .. Len(b.keys) /\ Len(b.keys) \in Nat BY <1>0
<1>1. CASE there = {}
  <2>1. BlockForKeys(c, b) BY <1>1 DEF BlockingPop
  <2>2. \A l \in ToSet(b.keys) : store[l].type # "list"
    <3>1. ASSUME NEW l \in ToSet(b.keys) PROVE store[l].type # "list"
      <4>1. PICK i \in 1 .. Len(b.keys) : b.keys[i] = l BY <1>0, ToSetIs
      <4>2. i \notin there BY <1>1
      <4>3. store[l].type = "none" BY <1>d, <4>1, <4>2
      <4>4. QED BY <4>3
    <3>2. QED BY <3>1
  <2>3. QED BY SMTT(30), <1>0, <2>1, <2>2, BlockKeeps
<1>2. CASE there # {}
  <2>1. j \in there
    <3> DEFINE n == Len(b.keys)
    <3>1. there \in SUBSET (1 .. n) /\ n \in Nat BY <1>d
    <3> HIDE DEF there, n
    <3>2. Min(there) \in there /\ \A x \in there : Min(there) <= x BY <1>2, <3>1, MinOf
    <3>3. \E i \in there : \A l \in there : i <= l BY <3>2
    <3>4. QED BY <3>3
  <2>2. k \in Lists
    <3>1. j \in 1 .. Len(b.keys) BY SMTT(30), <1>d, <2>1
    <3> HIDE DEF j
    <3>2. QED BY <1>0, <3>1
  <2>3. /\ store[k].type = "list" /\ store' = t.store /\ copy' = Copied(t.out)
        /\ served' = [served EXCEPT ![c] = @ \cup t.taken]
        /\ waiting' = waiting /\ blocking' = blocking /\ readyKeys' = readyKeys /\ pushed' = pushed /\ gone' = gone
        BY <1>2 DEF BlockingPop
  <2>4. t = CallList(ListState(store, blocking), PopCommand(b, k)) OBVIOUS
  <2> HIDE DEF k, t
  <2>5. QED BY <1>0, <2>2, <2>3, <2>4, PopKeeps
<1>3. QED BY SMTT(30), <1>1, <1>2

LEMMA BRPopLPushKeeps ==
  ASSUME BlockInv, BlockingAssumption, NEW c \in Waiters, NEW b \in Blocks[c], BRPopLPush(c, b)
  PROVE  BlockInv' /\ ServedInTurn
<1> DEFINE q == b.keys
           k == Head(q)
<1>0. b \in BlockCommands /\ q \in Seq(Lists) /\ q # <<>> /\ waiting[c] = NotBlocked /\ b.target # NoKey
      /\ b.target \in Lists \cup {NoKey} /\ (b.target # NoKey => Len(q) = 1)
      BY KeysAre DEF BRPopLPush, BlockingAssumption
<1>1. k \in Lists /\ b.target \in Lists /\ ToSet(q) = {k}
  <2>1. Len(q) = 1 /\ b.target \in Lists BY <1>0
  <2> HIDE DEF q
  <2>2. k \in Lists /\ k = q[1] BY <1>0
  <2>3. \A x : x \in ToSet(q) <=> \E i \in 1 .. Len(q) : q[i] = x BY <1>0, ToSetIs
  <2>4. QED BY <2>1, <2>2, <2>3
<1>2. \/ store[k].type = "none" /\ BlockForKeys(c, b)
      \/ pushed' = pushed /\ Finish(CallList(ListState(store, blocking), LCmd("RPOPLPUSH", k, b.target, <<>>)))
      BY DEF BRPopLPush
<1> HIDE DEF k
<1>3. CASE store[k].type = "none" /\ BlockForKeys(c, b)
  <2>1. \A l \in ToSet(b.keys) : store[l].type # "list" BY <1>1, <1>3
  <2>2. QED BY <1>0, <1>3, <2>1, BlockKeeps
<1>4. CASE pushed' = pushed /\ Finish(CallList(ListState(store, blocking), LCmd("RPOPLPUSH", k, b.target, <<>>)))
  <2> DEFINE l == b.target
  <2>1. l \in Lists BY <1>1
  <2>2. pushed' = pushed /\ Finish(CallList(ListState(store, blocking), LCmd("RPOPLPUSH", k, l, <<>>))) BY <1>4
  <2> HIDE DEF l
  <2>3. QED BY <1>1, <2>1, <2>2, MoveKeeps
<1>5. QED BY <1>2, <1>3, <1>4

LEMMA SetToSeqIs ==
  ASSUME NEW S, IsFiniteSet(S)
  PROVE  SetToSeq(S) \in Seq(S)
<1> DEFINE n == Cardinality(S)
<1>1. n \in Nat /\ ExistsBijection(1 .. n, S) BY FS_CardinalityType
<1> HIDE DEF n
<1>2. \E f \in [1 .. n -> S] : IsInjective(f) BY <1>1 DEF ExistsBijection, Bijection, Injection
<1>3. SetToSeq(S) = CHOOSE f \in [1 .. n -> S] : IsInjective(f) BY DEF SetToSeq, n
<1>4. SetToSeq(S) \in [1 .. n -> S] BY <1>2, <1>3
<1>5. QED BY <1>1, <1>4

\* Timeouts, disconnections: clients are unblocked and nothing else changes.
LEMMA FreeKeeps ==
  ASSUME BlockInv, BlockingAssumption, NEW cs \in SUBSET Waiters, Free(cs)
  PROVE  BlockInv' /\ ServedInTurn
<1> DEFINE s == ListState(store, blocking)
           T == {u \in LWork : Sound(u, pushed)}
           E == Waiters
           q == SetToSeq(cs)
           t == UnblockAll(s, q)
<1>0. /\ BlockTypes /\ waiting \in [Waiters -> BlockCommands \cup {NotBlocked}] BY DEF BlockInv, BlockTypes
<1>1. s \in T
  <2> HIDE DEF s
  <2>1. s = ListState(store, blocking) BY DEF s
  <2>2. Settled(s, pushed) BY <2>1, BlockStartIs
  <2>3. QED BY <2>2 DEF Settled, Sound
<1>2. q \in Seq(E)
  <2>1. IsFiniteSet(cs) BY FS_Subset DEF BlockingAssumption
  <2>2. SetToSeq(cs) \in Seq(cs) BY <2>1, SetToSeqIs
  <2> HIDE DEF q
  <2>3. q \in Seq(cs) BY <2>2 DEF q
  <2>4. QED BY <2>3
<1>3. \A u \in T, x \in E : Unblock(u, x) \in T
  <2>1. ASSUME NEW u \in T, NEW x \in Waiters PROVE Unblock(u, x) \in T
    <3> DEFINE y == Unblock(u, x)
               K == {}
               m == pushed
    <3>1. y = Unblock(u, x) /\ Sound(u, m) OBVIOUS
    <3> HIDE DEF y, K, m, T
    <3>2. OnlyFreed(u, y, x, m, K) BY <1>0, <3>1, UnblockSound
    <3>3. Sound(y, m) /\ y \in LWork BY <3>2 DEF OnlyFreed, Sound
    <3>4. QED BY <3>3 DEF T, y, m
  <2>2. QED BY <2>1
<1>4. s.waiting = waiting BY DEF ListState
<1>f. waiting' = t.waiting /\ blocking' = t.blocking /\ store' = store /\ readyKeys' = readyKeys /\ pushed' = pushed
      /\ served' = served /\ gone' = gone /\ copy' = copy BY DEF Free, UnblockAll
<1> HIDE DEF s, T, E, q
<1>5. \E f : Traced(f, Len(q), T, s, UnblockSteps(T, q)) /\ UnblockAll(s, q) = f[Len(q)]
      BY ONLY <1>1, <1>2, <1>3, UnblockTrace
<1>6. t \in T
  <2>1. PICK f : Traced(f, Len(q), T, s, UnblockSteps(T, q)) /\ t = f[Len(q)] BY <1>5
  <2>2. Len(q) \in 0 .. Len(q) BY <1>2
  <2> HIDE DEF t
  <2>3. f[Len(q)] \in T BY <2>1, <2>2 DEF Traced
  <2>4. QED BY <2>1, <2>3
<1> HIDE DEF t
<1>7. t \in LWork /\ Queues(t) BY <1>6 DEF T, Sound
<1>8. t.waiting \in [Waiters -> BlockCommands \cup {NotBlocked}] /\ t.blocking \in [Lists -> Seq(Waiters)] BY <1>7, LWorkIs
<1>9. \A c \in Waiters : waiting'[c] = waiting[c] \/ waiting'[c] = NotBlocked BY <1>7, <1>f DEF Queues, StillOrNot
<1>10. BlockTypes' BY <1>0, <1>f, <1>8 DEF BlockTypes
<1>11. Agree(blocking', waiting') BY <1>7, <1>f DEF Queues
<1>12. \A c \in Waiters : waiting'[c] \in Blocks[c] \cup {NotBlocked} BY <1>9 DEF BlockInv
<1>13. \A c \in Waiters : \A k \in ToSet(waiting'[c].keys) : store'[k].type # "list"
  <2>1. \A c \in Waiters : \A k \in ToSet(waiting[c].keys) : store[k].type # "list" BY DEF BlockInv, NobodyWaitsForElements
  <2>2. QED BY <1>9, <1>f, <2>1, KeysAre
<1>14. OnePlace(store', served', gone', pushed') BY <1>f DEF BlockInv
<1>15. BlockInv' BY <1>10, <1>11, <1>12, <1>13, <1>14 DEF BlockInv, NobodyWaitsForElements
<1>16. ServedInTurn BY <1>f DEF ServedInTurn
<1>17. QED BY <1>15, <1>16

LEMMA BlockNextKeeps ==
  ASSUME BlockInv, BlockingAssumption, BlockingNext
  PROVE  BlockInv' /\ ServedInTurn
<1>1. CASE \E q \in ListCmds : Run(q) BY <1>1, RunKeeps
<1>2. CASE \E c \in Waiters : \E b \in Blocks[c] : BlockingPop(c, b) \/ BRPopLPush(c, b)
      BY <1>2, BlockingPopKeeps, BRPopLPushKeeps
<1>3. CASE \E c \in Waiters : Timeout(c) \/ Close(c)
  <2>1. PICK c \in Waiters : Free({c}) BY <1>3 DEF Timeout, Close
  <2>2. {c} \in SUBSET Waiters OBVIOUS
  <2> DEFINE cs == {c}
  <2> HIDE DEF cs
  <2>3. cs \in SUBSET Waiters /\ Free(cs) BY <2>1, <2>2 DEF cs
  <2>4. QED BY <2>3, FreeKeeps
<1>4. CASE DisconnectAll
  <2> DEFINE cs == {c \in Waiters : waiting[c] # NotBlocked}
  <2>1. cs \in SUBSET Waiters /\ Free(cs) BY <1>4 DEF DisconnectAll
  <2> HIDE DEF cs
  <2>2. QED BY <2>1, FreeKeeps
<1>5. QED BY <1>1, <1>2, <1>3, <1>4 DEF BlockingNext

LEMMA BlockInitIs ==
  ASSUME BlockingInit, BlockingAssumption
  PROVE  BlockInv
<1>1. /\ store = [k \in Lists |-> Nothing] /\ copy = store
      /\ waiting = [c \in Waiters |-> NotBlocked] /\ blocking = [k \in Lists |-> <<>>]
      /\ readyKeys = <<>> /\ pushed = 0 /\ gone = {} /\ served = [c \in Waiters |-> {}] BY DEF BlockingInit
<1>2. store \in Stores /\ TidyStore(store) /\ \A k \in Lists : store[k].items = <<>> /\ store[k].type # "list"
      BY <1>1, ValueIs DEF Stores, TidyStore, TidyAt
<1>3. MaxPush \in Nat BY DEF BlockingAssumption
<1>e. <<>> \in Seq(Waiters) /\ ToSet(<<>>) = {} /\ IsInjective(<<>>) BY EmptyIs
<1> DEFINE e == <<>>
<1>b. e \in Seq(Waiters) /\ ToSet(e) = {} /\ IsInjective(e) /\ blocking = [k \in Lists |-> e]
      /\ (\A k \in Lists : store[k].items = e) /\ NotBlocked.keys = e BY <1>1, <1>2, <1>e, KeysAre
<1> HIDE DEF e
<1>4. blocking \in [Lists -> Seq(Waiters)] /\ waiting \in [Waiters -> BlockCommands \cup {NotBlocked}]
      /\ served \in [Waiters -> SUBSET Nat] BY <1>1, <1>b
<1>5. BlockTypes BY <1>1, <1>2, <1>3, <1>4 DEF BlockTypes
<1>6. Agree(blocking, waiting) BY <1>1, <1>b DEF Agree
<1>7. OnePlace(store, served, gone, pushed)
  <2>1. \A k \in Lists : IsInjective(store[k].items) /\ Contents(store)[k] = {} BY <1>b DEF Contents
  <2>2. Contents(store) \in [Lists -> SUBSET Nat]
    <3>1. Contents(store) = [k \in Lists |-> ToSet(store[k].items)] BY DEF Contents
    <3> DEFINE C0 == Contents(store)
    <3>2. DOMAIN C0 = Lists /\ C0 = [k \in Lists |-> C0[k]] BY <3>1
    <3>3. \A k \in Lists : C0[k] \in SUBSET Nat BY <2>1
    <3> HIDE DEF C0
    <3>4. C0 \in [Lists -> SUBSET Nat] BY <3>2, <3>3
    <3>5. QED BY <3>4 DEF C0
  <2>3. Splits(Contents(store), served, gone, pushed)
    <3> DEFINE L == Contents(store)
    <3>1. L \in [Lists -> SUBSET Nat] /\ \A k \in Lists : L[k] = {} BY <2>1, <2>2
    <3> HIDE DEF L
    <3>2. Splits(L, served, gone, pushed) BY <1>1, <1>4, <3>1 DEF Splits
    <3>3. QED BY <3>2 DEF L
  <2>4. QED BY <2>1, <2>3 DEF OnePlace
<1>8. NobodyWaitsForElements BY <1>1, <1>b DEF NobodyWaitsForElements
<1>9. \A c \in Waiters : waiting[c] \in Blocks[c] \cup {NotBlocked} BY <1>1
<1>10. QED BY <1>5, <1>6, <1>7, <1>8, <1>9 DEF BlockInv

LEMMA BlockSame ==
  ASSUME BlockInv, UNCHANGED bvars
  PROVE  BlockInv'
<1>1. /\ store' = store /\ waiting' = waiting /\ blocking' = blocking /\ readyKeys' = readyKeys /\ pushed' = pushed
      /\ served' = served /\ gone' = gone /\ copy' = copy BY DEF bvars
<1>2. QED BY <1>1 DEF BlockInv, BlockTypes, NobodyWaitsForElements

-----------------------------------------------------------------------------
(* What the invariant says *)

LEMMA OneOrNone ==
  ASSUME NEW S, NEW P \in SUBSET S, \A x, y \in P : x = y
  PROVE  Cardinality(P) = IF P = {} THEN 0 ELSE 1
<1>1. CASE P = {} BY <1>1, FS_EmptySet
<1>2. CASE P # {}
  <2>1. PICK x \in P : TRUE BY <1>2
  <2>2. P = {x} BY <2>1
  <2>3. QED BY <1>2, <2>2, FS_Singleton
<1>3. QED BY <1>1, <1>2

LEMMA WaitListsAre ==
  ASSUME BlockInv
  PROVE  WaitListsAgree
<1>1. ASSUME NEW c \in Waiters, NEW k \in Lists
      PROVE  Cardinality({i \in DOMAIN blocking[k] : blocking[k][i] = c}) = IF k \in ToSet(waiting[c].keys) THEN 1 ELSE 0
  <2> DEFINE q == blocking[k]
             D == DOMAIN q
             P == {i \in D : q[i] = c}
  <2>1. q \in Seq(Waiters) /\ IsInjective(q) /\ (c \in ToSet(q) <=> k \in ToSet(waiting[c].keys))
        BY DEF BlockInv, BlockTypes, Agree
  <2> HIDE DEF q
  <2>2. D = 1 .. Len(q) BY <2>1
  <2>3. \A i, j \in 1 .. Len(q) : q[i] = q[j] => i = j BY <2>1, IsInjectiveIs
  <2>4. c \in ToSet(q) <=> \E i \in 1 .. Len(q) : q[i] = c BY <2>1, ToSetIs
  <2> HIDE DEF D
  <2>5. P \in SUBSET D /\ (\A x, y \in P : x = y) /\ (P = {} <=> c \notin ToSet(q)) BY <2>2, <2>3, <2>4
  <2> HIDE DEF P
  <2>6. Cardinality(P) = IF P = {} THEN 0 ELSE 1 BY <2>5, OneOrNone
  <2>7. Cardinality(P) = IF k \in ToSet(waiting[c].keys) THEN 1 ELSE 0 BY <2>1, <2>5, <2>6
  <2>8. QED BY <2>7 DEF P, D, q
<1>2. QED BY <1>1 DEF WaitListsAgree

LEMMA DeliveredOnceIs ==
  ASSUME BlockInv, BlockingAssumption
  PROVE  DeliveredOnce
<1> DEFINE L == Contents(store)
<1>0. /\ store \in Stores /\ pushed \in Nat /\ MaxPush \in Nat /\ pushed <= MaxPush
      /\ \A k \in Lists : IsInjective(store[k].items)
      BY DEF BlockInv, BlockTypes, OnePlace, BlockingAssumption
<1>1. Splits(L, served, gone, pushed) BY DEF BlockInv, OnePlace
<1>2. \A k \in Lists : L[k] = ToSet(store[k].items) /\ store[k].items \in Seq(Nat) BY <1>0, ContentsIs
<1> HIDE DEF L
<1>3. /\ \A e \in Nat : e \in 1 .. pushed <=> (\E k \in Lists : e \in L[k]) \/ (\E c \in Waiters : e \in served[c]) \/ e \in gone
      /\ \A k, l \in Lists : \A e \in L[k] : e \in L[l] => k = l
      /\ \A c, d \in Waiters : \A e \in served[c] : e \in served[d] => c = d
      /\ \A k \in Lists : \A c \in Waiters : \A e \in L[k] : e \notin served[c]
      /\ \A k \in Lists : \A e \in L[k] : e \notin gone
      /\ \A c \in Waiters : \A e \in served[c] : e \notin gone
      BY <1>1 DEF Splits
<1>4. \A k \in Lists : Len(store[k].items) <= MaxPush
  <2>1. ASSUME NEW k \in Lists PROVE Len(store[k].items) <= MaxPush
    <3> DEFINE q == store[k].items
               N == 1 .. pushed
    <3>1. q \in Seq(Nat) /\ IsInjective(q) /\ L[k] = ToSet(q) BY <1>0, <1>2
    <3>2. IsFiniteSet(N) /\ Cardinality(N) = pushed
      <4>1. 1 \in Int /\ pushed \in Int BY <1>0
      <4>2. IsFiniteSet(1 .. pushed) /\ Cardinality(1 .. pushed) = IF 1 > pushed THEN 0 ELSE pushed - 1 + 1 BY <4>1, FS_Interval
      <4>3. QED BY <1>0, <4>2
    <3> HIDE DEF q
    <3>3. ToSet(q) \subseteq N
      <4>1. ASSUME NEW e \in ToSet(q) PROVE e \in N
        <5>1. e \in Nat BY <3>1, ToSetIs
        <5>2. e \in L[k] BY <3>1
        <5>3. QED BY <1>3, <5>1, <5>2
      <4>2. QED BY <4>1
    <3>4. \A i \in 1 .. Len(q) : q[i] \in N BY <3>1, <3>3, ToSetIs
    <3> HIDE DEF N
    <3>5. q \in Seq(N) BY <3>1, <3>4
    <3>6. Len(q) <= Cardinality(N) /\ Len(q) \in Nat BY <3>1, <3>2, <3>5, DistinctFew
    <3>7. QED BY <1>0, <3>2, <3>6 DEF q
  <2>2. QED BY <2>1
<1>5. ASSUME NEW e \in 1 .. pushed
      PROVE  Cardinality({p \in Lists \X (1 .. MaxPush) : p[2] \in DOMAIN store[p[1]].items /\ store[p[1]].items[p[2]] = e})
             + Cardinality({c \in Waiters : e \in served[c]}) + (IF e \in gone THEN 1 ELSE 0) = 1
  <2> DEFINE S == Lists \X (1 .. MaxPush)
             P == {p \in S : p[2] \in DOMAIN store[p[1]].items /\ store[p[1]].items[p[2]] = e}
             G == {c \in Waiters : e \in served[c]}
  <2>0. e \in Nat BY <1>0
  <2>d. \A k \in Lists : DOMAIN store[k].items = 1 .. Len(store[k].items) /\ Len(store[k].items) \in Nat BY <1>2
  <2>1. ASSUME NEW p \in P PROVE p[1] \in Lists /\ e \in L[p[1]] /\ p[2] \in 1 .. Len(store[p[1]].items)
                                 /\ store[p[1]].items[p[2]] = e /\ p = <<p[1], p[2]>>
    <3>1. p[1] \in Lists /\ p = <<p[1], p[2]>> OBVIOUS
    <3>2. p[2] \in 1 .. Len(store[p[1]].items) /\ store[p[1]].items[p[2]] = e BY <2>d, <3>1
    <3>3. e \in L[p[1]]
      <4> DEFINE k == p[1]
      <4>1. k \in Lists /\ \E i \in 1 .. Len(store[k].items) : store[k].items[i] = e BY <3>1, <3>2
      <4> HIDE DEF k
      <4>2. L[k] = ToSet(store[k].items) /\ store[k].items \in Seq(Nat) BY <1>2, <4>1
      <4>3. e \in ToSet(store[k].items) BY SMTT(30), <4>1, <4>2, ToSetIs
      <4>4. QED BY <4>2, <4>3 DEF k
    <3>4. QED BY <3>1, <3>2, <3>3
  <2>2. ASSUME NEW k \in Lists, e \in L[k] PROVE P # {}
    <3>1. L[k] = ToSet(store[k].items) /\ store[k].items \in Seq(Nat) BY <1>2
    <3>2. PICK i \in 1 .. Len(store[k].items) : store[k].items[i] = e BY SMTT(30), <2>2, <3>1, ToSetIs
    <3>3. i \in 1 .. MaxPush BY <1>0, <1>4, <2>d, <3>2
    <3>4. i \in DOMAIN store[k].items BY <2>d, <3>2
    <3> DEFINE p == <<k, i>>
    <3>5. p \in S /\ p[1] = k /\ p[2] = i BY <3>3
    <3>6. p \in P BY <3>2, <3>4, <3>5
    <3>7. QED BY <3>6
  <2>3. \A x, y \in P : x = y
    <3>1. ASSUME NEW x \in P, NEW y \in P PROVE x = y
      <4>1. x[1] = y[1] BY <1>3, <2>1
      <4> DEFINE q == store[x[1]].items
      <4>2. q \in Seq(Nat) /\ IsInjective(q) BY <1>0, <1>2, <2>1
      <4>3. x[2] \in 1 .. Len(q) /\ y[2] \in 1 .. Len(q) /\ q[x[2]] = q[y[2]] BY <2>1, <4>1
      <4> HIDE DEF q
      <4>4. x[2] = y[2] BY <4>2, <4>3, IsInjectiveIs
      <4>5. x = <<x[1], x[2]>> /\ y = <<y[1], y[2]>> BY <2>1
      <4>6. QED BY <4>1, <4>4, <4>5
    <3>2. QED BY <3>1
  <2>4. P \in SUBSET S /\ G \in SUBSET Waiters OBVIOUS
  <2>5. \A x, y \in G : x = y BY <1>3
  <2> HIDE DEF S, P
  <2>6. Cardinality(P) = IF P = {} THEN 0 ELSE 1 BY <2>3, <2>4, OneOrNone
  <2>7. (P # {} <=> \E k \in Lists : e \in L[k]) BY <2>1, <2>2
  <2>8. (G # {} <=> \E c \in Waiters : e \in served[c]) OBVIOUS
  <2> HIDE DEF G
  <2>9. Cardinality(G) = IF G = {} THEN 0 ELSE 1 BY <2>4, <2>5, OneOrNone
  <2>10. (\E k \in Lists : e \in L[k]) \/ (\E c \in Waiters : e \in served[c]) \/ e \in gone BY <1>3, <2>0
  <2>11. /\ ~((\E k \in Lists : e \in L[k]) /\ (\E c \in Waiters : e \in served[c]))
         /\ ~((\E k \in Lists : e \in L[k]) /\ e \in gone)
         /\ ~((\E c \in Waiters : e \in served[c]) /\ e \in gone) BY <1>3
  <2>12. /\ P # {} \/ G # {} \/ e \in gone
         /\ ~(P # {} /\ G # {}) /\ ~(P # {} /\ e \in gone) /\ ~(G # {} /\ e \in gone)
         BY <2>7, <2>8, <2>10, <2>11
  <2>13. Cardinality(P) + Cardinality(G) + (IF e \in gone THEN 1 ELSE 0) = 1 BY <2>6, <2>9, <2>12
  <2>14. QED BY <2>13 DEF P, G, S
<1>6. QED BY <1>5 DEF DeliveredOnce

LEMMA BlockInvSays ==
  ASSUME BlockInv, BlockingAssumption
  PROVE  BlockingTypeOK /\ WaitListsAgree /\ DeliveredOnce /\ CopyAgrees /\ NobodyWaitsForElements
<1>1. BlockingTypeOK BY DEF BlockInv, BlockTypes, TidyStore, TidyAt, BlockingTypeOK
<1>2. CopyAgrees /\ NobodyWaitsForElements BY DEF BlockInv, BlockTypes, CopyAgrees
<1>3. QED BY <1>1, <1>2, WaitListsAre, DeliveredOnceIs

\* The blocking commands among the parts of the server.
LEMMA BlockPartInv ==
  PartsInit /\ [][PartsNext]_<<part, svars, bvars, qvars, wvars>> =>
    [](part = "blocking" => BlockInv) /\ [][part = "blocking" => ServedInTurn]_bvars
<1> DEFINE I == part = "blocking" => BlockInv
<1>1. PartsInit => I BY BlockInitIs, BlockingAssumption DEF PartsInit
<1>2. I /\ [PartsNext]_<<part, svars, bvars, qvars, wvars>> => I' /\ [part = "blocking" => ServedInTurn]_bvars
  <2> SUFFICES ASSUME I, [PartsNext]_<<part, svars, bvars, qvars, wvars>>
               PROVE  I' /\ [part = "blocking" => ServedInTurn]_bvars
      OBVIOUS
  <2>1. CASE UNCHANGED <<part, svars, bvars, qvars, wvars>>
    <3>1. part' = part /\ UNCHANGED bvars BY <2>1
    <3>2. QED BY <3>1, BlockSame
  <2>2. CASE PartsNext /\ part = "blocking"
    <3>1. part' = part /\ BlockingNext BY <2>2 DEF PartsNext
    <3>2. BlockInv' /\ ServedInTurn BY <2>2, <3>1, BlockNextKeeps, BlockingAssumption
    <3>3. QED BY <3>2
  <2>3. CASE PartsNext /\ part # "blocking"
    <3>1. part' = part BY <2>3 DEF PartsNext
    <3>2. QED BY <2>3, <3>1
  <2>4. QED BY <2>1, <2>2, <2>3
<1>3. QED BY <1>1, <1>2, PTL

\* Blocked clients among the parts that are checked together: queues and waits
\* agree, every element is in one place, and nobody waits beside a list.
THEOREM BlockingPart == PartsSpec => []BlockingSound
<1>1. (part = "blocking" => BlockInv) => BlockingSound BY BlockInvSays, BlockingAssumption DEF BlockingSound
<1> QED BY <1>1, BlockPartInv, PTL DEF PartsSpec

\* Blocked clients are served in the order they blocked.
THEOREM InTurnPart == PartsSpec => InTurn
<1> QED BY BlockPartInv, PTL DEF PartsSpec, InTurn
=============================================================================
